-------------------------- MODULE RemoteAssetRegister --------------------------
(***************************************************************************)
(* The asset store as clients see it: theorems that a hit returns a value  *)
(* that is current, and that a miss has a reason.                          *)
(*                                                                         *)
(* Both rest on the same invariant.  The store holds, under each key, what *)
(* the last Put under it wrote (StoreIsLastPut), and a call counts no Put  *)
(* as done before it that was not (BeganBefore).                           *)
(***************************************************************************)
EXTENDS RemoteAssetProofs

-----------------------------------------------------------------------------
(* What a step can change                                                  *)

\* A step of call c leaves every other call where it is.
Local(c) ==
  \A d \in Calls \ {c} :
    /\ pc'[d] = pc[d] /\ response'[d] = response[d] /\ req'[d] = req[d]
    /\ began'[d] = began[d] /\ before'[d] = before[d] /\ index'[d] = index[d]

\* The store and the log change by a Put that takes effect.
Stores == \E put \in LogEntry : Apply(put)

\* The arrival of a request concerns one call and stores nothing.
LEMMA ArriveLocal ==
  ASSUME Typed, NEW c \in Calls, Arrive(c)
  PROVE  /\ Local(c) /\ pc[c] = "idle" /\ now' = now /\ backend' = backend
         /\ UNCHANGED data
         /\ UNCHANGED <<began, before>> \/ Record(c)
         /\ index'[c] = index[c]
         /\ pc'[c] = "done" => response'[c].code # "OK"
         /\ pc'[c] \in {"done", "lookup", "fetch", "pushList"}
         /\ pc'[c] = "fetch" => backend = "none"
<1>1. PICK r \in Requests : Refuse(c, r) \/ BeginFetch(c, r) \/ BeginPush(c, r)
  BY DEF Arrive
<1>2. Receive(c, r)
  BY <1>1 DEF Refuse, BeginFetch, BeginPush
<1>3. /\ pc[c] = "idle" /\ now' = now /\ UNCHANGED data /\ UNCHANGED <<index, backend>>
      /\ \A d \in Calls \ {c} : req'[d] = req[d]
  BY <1>2 DEF Receive, Typed, TypeOK
<1>4. CASE Refuse(c, r)
  <2>1. Refusal(r) # "OK"
    BY DEF Refusal, PushRefusal, CachingRefusal, ErrorPushServer
  <2>2. QED
    BY <1>3, <1>4, <2>1 DEF Refuse, Reply, Goto, Error, Local, Typed, TypeOK
<1>5. CASE BeginFetch(c, r)
  BY <1>3, <1>5 DEF BeginFetch, Record, Goto, Local, Typed, TypeOK
<1>6. CASE BeginPush(c, r)
  BY <1>3, <1>6 DEF BeginPush, Record, Goto, Local, Typed, TypeOK
<1>7. QED
  BY <1>1, <1>4, <1>5, <1>6

\* A Put that call c may make is an entry of the log.
LEMMA PutStores ==
  ASSUME Typed, NEW c \in Calls, NEW ref \in NextReference(c), Put(c, ref)
  PROVE  Active(c) /\ Stores
<1>1. Active(c) /\ ref \in Reference /\ draft[c] \in Asset
  BY CallType
<1>2. PutOf(c, ref) \in LogEntry
  BY <1>1, PutOfType
<1>3. QED
  BY <1>1, <1>2 DEF Put, Stores

\* So does a step of a handler, which stores at most by a Put of its own.
LEMMA StepLocal ==
  ASSUME Typed, NEW c \in Calls, Step(c)
  PROVE  /\ Local(c) /\ Active(c)
         /\ now' = now /\ req' = req /\ UNCHANGED fixed
         /\ UNCHANGED data \/ Stores
<1> USE DEF fixed
<1>1. CASE LookupHit(c) \/ LookupMiss(c)
  BY <1>1 DEF LookupHit, LookupMiss, Goto, Reply, Local, Active, Running, locals,
              Typed, TypeOK
<1>2. CASE FetchFails(c) \/ Download(c) \/ Upload(c) \/ UploadFails(c)
  BY <1>2 DEF FetchFails, Download, Upload, UploadFails, Goto, Reply, Local, Active,
              Running, MissPath, locals, Typed, TypeOK
<1>3. CASE CacheSingle(c)
  <2>1. SingleReference(c) \in NextReference(c) /\ Put(c, SingleReference(c))
    BY <1>3 DEF CacheSingle, NextReference
  <2>2. QED
    BY <1>3, <2>1, PutStores DEF CacheSingle, Goto, Reply, Local, locals, Typed, TypeOK
<1>4. CASE CacheList(c)
  <2>1. ListReference(c) \in NextReference(c) /\ Put(c, ListReference(c))
    BY <1>4 DEF CacheList, NextReference
  <2>2. QED
    BY <1>4, <2>1, PutStores DEF CacheList, Goto, Reply, Local, locals, Typed, TypeOK
<1>5. CASE PushList(c)
  <2>1. /\ PushReference(req[c], UrisOf(req[c])) \in NextReference(c)
        /\ Put(c, PushReference(req[c], UrisOf(req[c])))
    BY <1>5 DEF PushList, NextReference
  <2>2. QED
    BY <1>5, <2>1, PutStores DEF PushList, Goto, Reply, Local, Typed, TypeOK
<1>6. CASE PushEach(c)
  <2>1. PICK u \in First(todo[c]) : Put(c, PushReference(req[c], {u}))
    BY <1>6 DEF PushEach
  <2>2. PushReference(req[c], {u}) \in NextReference(c)
    BY <1>6 DEF PushEach, NextReference
  <2>3. Active(c) /\ Stores
    BY <2>1, <2>2, PutStores
  <2>4. QED
    BY <1>6, <2>3 DEF PushEach, Goto, Reply, Local, Typed, TypeOK
<1>7. CASE PutRefused(c)
  BY <1>7, CallType DEF PutRefused, Reply, Goto, Local, locals, Typed, TypeOK
<1>8. CASE PutFails(c)
  <2>1. Active(c)
    BY <1>8, CallType DEF PutFails
  <2>2. UNCHANGED data \/ Stores
    BY <1>8, PutStores DEF PutFails
  <2>3. QED
    BY <1>8, <2>1, <2>2 DEF PutFails, Reply, Goto, Local, locals, Typed, TypeOK
<1>9. QED
  BY <1>1, <1>2, <1>3, <1>4, <1>5, <1>6, <1>7, <1>8 DEF Step, FetchStep, PushStep

\* How a step treats call c: an ended call stays as it is, a call that has
\* begun keeps its request and what it counts as done before, and that is what
\* had been done when it began.
Settled(c) ==
  /\ pc[c] = "done" => pc'[c] = "done" /\ response'[c] = response[c]
  /\ pc[c] # "idle" => /\ pc'[c] # "idle" /\ req'[c] = req[c]
                       /\ began'[c] = began[c] /\ before'[c] = before[c]
  /\ \/ began'[c] = began[c] /\ before'[c] = before[c]
     \/ began'[c] = Len(log) /\ before'[c] = Succeeded
  /\ pc[c] = "idle" /\ pc'[c] # "idle" =>
       /\ pc'[c] \in {"done", "lookup", "fetch", "pushList"}
       /\ pc'[c] = "fetch" => backend = "none"
       /\ index'[c] = index[c]
       /\ pc'[c] = "done" => response'[c].code # "OK"

\* Every step settles every call, and neither does the clock go back nor does
\* the configuration change.
LEMMA Settles ==
  ASSUME Typed, [Next]_vars, NEW c \in Calls
  PROVE  Settled(c) /\ now' >= now /\ backend' = backend
<1>0. now \in Nat
  BY DEF Typed, TypeOK
<1> USE DEF fixed
<1>1. ASSUME NEW d \in Calls, Arrive(d)
      PROVE  Settled(c) /\ now' >= now /\ backend' = backend
  <2>1. CASE c = d
    <3>1. /\ pc[c] = "idle" /\ now' = now /\ backend' = backend /\ index'[c] = index[c]
          /\ UNCHANGED <<began, before>> \/ Record(c)
          /\ pc'[c] = "done" => response'[c].code # "OK"
          /\ pc'[c] \in {"done", "lookup", "fetch", "pushList"}
          /\ pc'[c] = "fetch" => backend = "none"
      BY <1>1, <2>1, ArriveLocal
    <3>2. \/ began'[c] = began[c] /\ before'[c] = before[c]
          \/ began'[c] = Len(log) /\ before'[c] = Succeeded
      BY <3>1 DEF Record, Typed, TypeOK
    <3>3. QED
      BY <1>0, <3>1, <3>2 DEF Settled
  <2>2. CASE c # d
    BY <1>0, <1>1, <2>2, ArriveLocal DEF Local, Settled
  <2>3. QED
    BY <2>1, <2>2
<1>2. ASSUME NEW d \in Calls, Step(d)
      PROVE  Settled(c) /\ now' >= now /\ backend' = backend
  <2>1. Local(d) /\ Active(d) /\ now' = now /\ req' = req /\ UNCHANGED fixed
    BY <1>2, StepLocal
  <2>2. CASE c = d
    <3>1. pc'[d] # "idle"
      <4>1. pc' = pc \/ \E l \in {"done", "fetch", "upload", "cacheSingle", "cacheList",
                                  "pushEach"} : pc' = [pc EXCEPT ![d] = l]
        BY <1>2 DEF Step, FetchStep, PushStep, LookupHit, LookupMiss, FetchFails, Download,
                    Upload, UploadFails, CacheSingle, CacheList, PushList, PushEach,
                    PutRefused, PutFails, Goto, Reply
      <4>2. QED
        BY <2>1, <4>1 DEF Active, Running, MissPath, PushPath, Typed, TypeOK
    <3>2. QED
      BY <1>0, <2>1, <2>2, <3>1 DEF Settled, Active, Running, MissPath, PushPath
  <2>3. CASE c # d
    BY <1>0, <2>1, <2>3 DEF Local, Settled
  <2>4. QED
    BY <2>2, <2>3
<1>3. CASE Tick
  BY <1>0, <1>3 DEF Tick, Settled, locals
<1>4. CASE LatePut \/ Evict
  BY <1>0, <1>4 DEF LatePut, Evict, Settled, locals
<1>5. CASE Crash
  BY <1>0, <1>5 DEF Crash, Settled, locals, Active, Running, MissPath, PushPath, Typed, TypeOK
<1>6. CASE Quiescent \/ UNCHANGED vars
  BY <1>0, <1>6 DEF Quiescent, vars, Settled
<1>7. QED
  BY <1>1, <1>2, <1>3, <1>4, <1>5, <1>6 DEF Next

\* No step changes what an asset is known by.
LEMMA KeysStay ==
  ASSUME Typed, [Next]_vars
  PROVE  \A ref : Key(ref)' = Key(ref)
<1> SUFFICES backend' = backend
  BY DEF Key
<1>1. ASSUME NEW c \in Calls, Arrive(c) \/ Step(c)
      PROVE  backend' = backend
  BY Settles
<1>2. CASE Tick \/ LatePut \/ Evict \/ Crash
  BY <1>2 DEF Tick, LatePut, Evict, Crash, fixed
<1>3. CASE Quiescent \/ UNCHANGED vars
  BY <1>3 DEF Quiescent, vars
<1>4. QED
  BY <1>1, <1>2, <1>3 DEF Next

\* What a step does to the store and the log.
LEMMA StoreEffects ==
  ASSUME Typed, [Next]_vars
  PROVE  UNCHANGED data \/ Stores \/ Evict
<1>1. ASSUME NEW c \in Calls, Arrive(c) \/ Step(c)
      PROVE  UNCHANGED data \/ Stores
  BY <1>1, ArriveLocal, StepLocal
<1>2. CASE LatePut
  BY <1>2 DEF LatePut, Stores, Typed, TypeOK
<1>3. CASE Tick \/ Crash \/ Quiescent \/ UNCHANGED vars
  BY <1>3 DEF Tick, Crash, Quiescent, vars, data
<1>4. QED
  BY <1>1, <1>2, <1>3 DEF Next

\* Only a lookup makes a call a hit.
LEMMA HitEffects ==
  ASSUME Typed, [Next]_vars, NEW c \in Calls, Hit(c)', ~ Hit(c)
  PROVE  LookupHit(c)
<1> USE DEF Hit, FetchOk, Ok
<1>1. pc[c] # "done"
  BY Settles DEF Settled
<1>2. pc[c] # "idle"
  BY Settles DEF Settled
<1>3. ASSUME NEW d \in Calls, Step(d)
      PROVE  LookupHit(c)
  <2>1. d = c /\ req' = req
    BY <1>1, <1>3, StepLocal DEF Local
  <2>2. pc[c] \in PushPath => ~ IsFetch(req[c])
    BY <1>3, <2>1, StepLocal DEF Typed, Admitted, IsFetch, IsPush, FetchOps, PushOps
  <2>3. c \in DOMAIN response
    BY DEF Typed, TypeOK
  <2>4. CASE LookupMiss(c) \/ Download(c)
    BY <1>1, <2>4 DEF LookupMiss, Download, Goto, Typed, TypeOK
  <2>5. CASE FetchFails(c) \/ UploadFails(c) \/ PutRefused(c) \/ PutFails(c)
    BY <2>3, <2>5, UpstreamAssumption
       DEF FetchFails, UploadFails, PutRefused, PutFails, Reply, Error
  <2>6. CASE Upload(c) \/ CacheSingle(c) \/ CacheList(c)
    <3>1. \/ pc'[c] \in {"cacheSingle", "cacheList"}
          \/ response' = [response EXCEPT ![c] = Fetched(c)]
      BY <2>6 DEF Upload, CacheSingle, CacheList, Goto, Reply, Typed, TypeOK
    <3>2. QED
      BY <2>3, <3>1 DEF Fetched
  <2>7. CASE PushList(c) \/ PushEach(c)
    BY <2>1, <2>2, <2>7 DEF PushList, PushEach, PushPath
  <2>8. QED
    BY <1>3, <2>1, <2>4, <2>5, <2>6, <2>7 DEF Step, FetchStep, PushStep
<1>4. ASSUME NEW d \in Calls, Arrive(d)
      PROVE  FALSE
  BY <1>1, <1>2, <1>4, ArriveLocal DEF Local
<1>5. CASE Tick \/ LatePut \/ Evict \/ Quiescent \/ UNCHANGED vars
  BY <1>1, <1>5 DEF Tick, LatePut, Evict, Quiescent, vars
<1>6. CASE Crash
  BY <1>1, <1>6 DEF Crash, Error, Typed, TypeOK
<1>7. QED
  BY <1>3, <1>4, <1>5, <1>6 DEF Next

-----------------------------------------------------------------------------
(* The store is what the log says                                          *)

\* Entry i of the log is the last Put under a key.
LastPut(i, key) ==
  /\ Key(log[i].ref) = key
  /\ \A j \in DOMAIN log : j > i => Key(log[j].ref) # key

StoreIsLastPut ==
  \A key \in DOMAIN store :
    \E i \in DOMAIN log : LastPut(i, key) /\ log[i].asset = store[key]

BeganBefore == \A c \in Calls : began[c] <= Len(log)

Register == Typed /\ StoreIsLastPut /\ BeganBefore

\* The log after a Put: the old entries and a new one.
LEMMA ApplyLog ==
  ASSUME Typed, NEW put \in LogEntry, Apply(put)
  PROVE  \E n \in Nat :
           /\ n = Len(log) /\ Len(log') = n + 1
           /\ DOMAIN log = 1 .. n
           /\ DOMAIN log' = 1 .. n + 1
           /\ \A i \in 1 .. n : log'[i] = log[i]
           /\ log'[n + 1] = put
<1>1. /\ DOMAIN log = 1 .. Len(log) /\ Len(log) \in Nat
      /\ DOMAIN log' = 1 .. Len(log) + 1 /\ Len(log') = Len(log) + 1
      /\ \A i \in 1 .. Len(log) : log'[i] = log[i]
      /\ log'[Len(log) + 1] = put
  BY DEF Apply, Typed, TypeOK
<1>2. WITNESS Len(log) \in Nat
<1>3. QED
  BY <1>1

\* The log only grows, and keeps what is in it.
LEMMA LogGrows ==
  ASSUME Typed, [Next]_vars
  PROVE  /\ Len(log) \in Nat /\ Len(log') \in Nat /\ Len(log') >= Len(log)
         /\ DOMAIN log = 1 .. Len(log) /\ DOMAIN log' = 1 .. Len(log')
         /\ \A i \in DOMAIN log : i \in DOMAIN log' /\ log'[i] = log[i]
<1>1. Len(log) \in Nat /\ DOMAIN log = 1 .. Len(log)
  BY DEF Typed, TypeOK
<1>2. CASE log' = log
  BY <1>1, <1>2
<1>3. CASE Stores
  <2>1. PICK put \in LogEntry : Apply(put)
    BY <1>3 DEF Stores
  <2>2. PICK n \in Nat :
          /\ n = Len(log) /\ Len(log') = n + 1
          /\ DOMAIN log = 1 .. n
          /\ DOMAIN log' = 1 .. n + 1
          /\ \A i \in 1 .. n : log'[i] = log[i]
    BY <2>1, ApplyLog
  <2>3. QED
    BY <1>1, <2>2
<1>4. QED
  BY <1>2, <1>3, StoreEffects DEF data, Evict

\* Every step keeps the store what the last Puts, and evictions, made it.
LEMMA StoreIsLastPutNext ==
  ASSUME Register, [Next]_vars
  PROVE  StoreIsLastPut'
<1>0. \A ref : Key(ref)' = Key(ref)
  BY KeysStay DEF Register
<1>1. CASE UNCHANGED data
  BY <1>0, <1>1 DEF Register, StoreIsLastPut, LastPut, data
<1>2. CASE Stores
  <2>1. PICK put \in LogEntry : Apply(put)
    BY <1>2 DEF Stores
  <2>0. PICK n \in Nat :
          /\ DOMAIN log = 1 .. n
          /\ DOMAIN log' = 1 .. n + 1
          /\ \A i \in 1 .. n : log'[i] = log[i]
          /\ log'[n + 1] = put
    BY <2>1, ApplyLog DEF Register
  <2>2. SUFFICES ASSUME NEW x \in DOMAIN store'
                 PROVE  \E i \in DOMAIN log' : LastPut(i, x)' /\ log'[i].asset = store'[x]
    BY DEF StoreIsLastPut, LastPut
  <2>3. CASE x = Key(put.ref)
    <3>1. store'[x] = put.asset
      BY <2>1, <2>2, <2>3 DEF Apply
    <3>2. LastPut(n + 1, x)' /\ log'[n + 1].asset = put.asset
      BY <1>0, <2>0, <2>3 DEF LastPut
    <3>3. n + 1 \in DOMAIN log'
      BY <2>0
    <3>4. QED
      BY <3>1, <3>2, <3>3
  <2>4. CASE x # Key(put.ref)
    <3>1. x \in DOMAIN store /\ store'[x] = store[x]
      BY <2>1, <2>2, <2>4 DEF Apply
    <3>2. PICK i \in DOMAIN log : LastPut(i, x) /\ log[i].asset = store[x]
      BY <3>1 DEF Register, StoreIsLastPut
    <3>3. i \in DOMAIN log' /\ log'[i] = log[i]
      BY <2>0, <3>2
    <3>4. \A j \in DOMAIN log' : j > i => Key(log'[j].ref) # x
      BY <2>0, <2>4, <3>2 DEF LastPut
    <3>5. QED
      BY <1>0, <3>1, <3>2, <3>3, <3>4 DEF LastPut
  <2>5. QED
    BY <2>3, <2>4
<1>3. CASE Evict
  <2>1. log' = log /\ \E key \in DOMAIN store :
          store' = [k \in DOMAIN store \ {key} |-> store[k]]
    BY <1>3 DEF Evict
  <2>2. QED
    BY <1>0, <2>1 DEF Register, StoreIsLastPut, LastPut
<1>4. QED
  BY <1>1, <1>2, <1>3, StoreEffects DEF Register

\* A call that begins counts the Puts of the log, which only grows.
LEMMA BeganBeforeNext ==
  ASSUME Register, [Next]_vars
  PROVE  BeganBefore'
<1> SUFFICES ASSUME NEW c \in Calls
             PROVE  began'[c] <= Len(log')
  BY DEF BeganBefore
<1>1. began'[c] = began[c] \/ began'[c] = Len(log)
  BY Settles DEF Register, Settled
<1>2. began[c] <= Len(log) /\ began[c] \in Nat
  BY DEF Register, BeganBefore, Typed, TypeOK
<1>3. QED
  BY <1>1, <1>2, LogGrows DEF Register

\* The register invariant is inductive.
THEOREM RegisterInvariant == Spec => []Register
<1>1. Init => Register
  <2> SUFFICES ASSUME Init PROVE Register
    OBVIOUS
  <2>1. StoreIsLastPut /\ BeganBefore
    BY DEF Init, StoreIsLastPut, BeganBefore
  <2>2. QED
    BY <2>1, TypedInit DEF Register
<1>2. Register /\ [Next]_vars => Register'
  BY TypedNext, StoreIsLastPutNext, BeganBeforeNext DEF Register
<1>3. QED
  BY <1>1, <1>2, PTL DEF Spec

-----------------------------------------------------------------------------
(* Hits                                                                    *)

\* Every step keeps the hits current.
LEMMA HitIsCurrentNext ==
  ASSUME Register, HitIsCurrent, [Next]_vars
  PROVE  HitIsCurrent'
<1>0. \A ref : Key(ref)' = Key(ref)
  BY KeysStay DEF Register
<1> SUFFICES ASSUME NEW c \in Calls, Hit(c)'
             PROVE  \E i \in ServedBy(c)' :
                      \A j \in DOMAIN log' :
                        i < j /\ j <= began'[c] => Key(log'[j].ref) # Key(log'[i].ref)
  BY <1>0 DEF HitIsCurrent
<1>1. CASE Hit(c)
  <2>1. response'[c] = response[c] /\ req'[c] = req[c] /\ began'[c] = began[c]
    BY <1>1, Settles DEF Register, Settled, Hit, FetchOk, Ok
  <2>2. PICK i \in ServedBy(c) :
          \A j \in DOMAIN log : i < j /\ j <= began[c] => Key(log[j].ref) # Key(log[i].ref)
    BY <1>1 DEF HitIsCurrent
  <2>3. i \in DOMAIN log' /\ log'[i] = log[i]
    BY <2>2, LogGrows DEF ServedBy, Register
  <2>4. i \in ServedBy(c)'
    BY <1>0, <2>1, <2>2, <2>3 DEF ServedBy
  <2>5. ASSUME NEW j \in DOMAIN log', i < j, j <= began'[c]
        PROVE  Key(log'[j].ref) # Key(log'[i].ref)
    <3>1. began[c] <= Len(log) /\ began[c] \in Nat
      BY DEF Register, BeganBefore, Typed, TypeOK
    <3>2. j \in DOMAIN log
      BY <2>1, <2>5, <3>1, LogGrows DEF Register
    <3>3. log'[j] = log[j]
      BY <3>2, LogGrows DEF Register
    <3>4. QED
      BY <2>1, <2>2, <2>3, <2>5, <3>2, <3>3
  <2>6. QED
    BY <2>4, <2>5
<1>2. CASE ~ Hit(c)
  <2>1. LookupHit(c)
    BY <1>2, HitEffects DEF Register
  <2>2. PICK i \in DOMAIN log : /\ LastPut(i, LookupKey(c))
                                /\ log[i].asset = store[LookupKey(c)]
    BY <2>1 DEF LookupHit, Register, StoreIsLastPut
  <2>3. /\ response'[c].uri = req[c].uris[index[c]]
        /\ response'[c].digest = log[i].asset.digest
    BY <2>1, <2>2 DEF LookupHit, Reply, Retrieved, Register, Typed, TypeOK, Asset
  <2>4. ~ TooOld(log[i].asset, req[c])
    BY <2>1, <2>2
       DEF LookupHit, Acceptable, TooOld, Retrieved, Register, Typed, TypeOK, Asset
  <2>5. log' = log /\ req' = req
    BY <2>1 DEF LookupHit, data
  <2>6. i \in ServedBy(c)'
    BY <1>0, <2>2, <2>3, <2>4, <2>5 DEF ServedBy, LastPut, LookupKey, LookupReference
  <2>7. QED
    BY <2>2, <2>5, <2>6 DEF LastPut
<1>3. QED
  BY <1>1, <1>2

\* The asset store as seen by a fetch is a register, whatever fails, crashes,
\* arrives late or is evicted: a hit returns what some call stored under the key
\* the fetch asked for, and nothing that had been replaced when the fetch began
\* (cachingFetcher, assetPushServer).  Over an Action Cache the key is the
\* action, which references that differ in an ignored qualifier share.
THEOREM HitsAreCurrent == Spec => []HitIsCurrent
<1>1. Init => HitIsCurrent
  BY DEF Init, HitIsCurrent, Hit, FetchOk, Ok
<1>2. Register /\ HitIsCurrent /\ [Next]_vars => HitIsCurrent'
  BY HitIsCurrentNext
<1>3. QED
  BY <1>1, <1>2, RegisterInvariant, PTL DEF Spec

\* With a store that keeps ExpireAt, no fetch is answered with an asset that
\* had expired when the answer was given (getAndCheckAsset).
THEOREM HitsAreUnexpired ==
  ASSUME "actionCache" \notin Backends
  PROVE  Spec => []HitIsUnexpired
<1>1. Init => HitIsUnexpired
  BY DEF Init, HitIsUnexpired, Hit, FetchOk, Ok
<1>2. ASSUME Register, HitIsUnexpired, [Next]_vars
      PROVE  HitIsUnexpired'
  <2> USE <1>2
  <2>0. \A ref : Key(ref)' = Key(ref)
    BY KeysStay DEF Register
  <2> SUFFICES ASSUME NEW c \in Calls, Hit(c)'
               PROVE  \E i \in ServedBy(c)' :
                        \/ log'[i].asset.expire = 0
                        \/ response'[c].at <= log'[i].asset.expire
    BY DEF HitIsUnexpired
  <2>1. CASE Hit(c)
    <3>1. response'[c] = response[c] /\ req'[c] = req[c]
      BY <2>1, Settles DEF Register, Settled, Hit, FetchOk, Ok
    <3>2. PICK i \in ServedBy(c) :
            log[i].asset.expire = 0 \/ response[c].at <= log[i].asset.expire
      BY <2>1 DEF HitIsUnexpired
    <3>3. i \in DOMAIN log' /\ log'[i] = log[i]
      BY <3>2, LogGrows DEF ServedBy, Register
    <3>4. QED
      BY <2>0, <3>1, <3>2, <3>3 DEF ServedBy
  <2>2. CASE ~ Hit(c)
    <3>1. LookupHit(c)
      BY <2>2, HitEffects DEF Register
    <3>2. PICK i \in DOMAIN log : /\ LastPut(i, LookupKey(c))
                                  /\ log[i].asset = store[LookupKey(c)]
      BY <3>1 DEF LookupHit, Register, StoreIsLastPut
    <3>3. Retrieved(store[LookupKey(c)]) = log[i].asset
      BY <3>2 DEF Retrieved, Register, Typed, TypeOK
    <3>4. /\ response'[c].uri = req[c].uris[index[c]]
          /\ response'[c].digest = log[i].asset.digest
          /\ response'[c].at = now
      BY <3>1, <3>3 DEF LookupHit, Reply, Register, Typed, TypeOK
    <3>5. Acceptable(log[i].asset, req[c], now) /\ log' = log /\ req' = req
      BY <3>1, <3>3 DEF LookupHit, data
    <3>6. i \in ServedBy(c)'
      BY <2>0, <3>2, <3>4, <3>5 DEF ServedBy, LastPut, LookupKey, LookupReference, Acceptable
    <3>7. now \in Nat /\ log[i].asset.expire \in Nat
      <4>1. now \in Nat /\ log \in Seq(LogEntry)
        BY DEF Register, Typed, TypeOK
      <4>2. log[i] \in LogEntry
        BY <3>2, <4>1
      <4>3. QED
        BY <4>1, <4>2 DEF LogEntry, Asset
    <3>8. QED
      <4>1. ~ Expired(log[i].asset, now)
        BY <3>5 DEF Acceptable
      <4>2. log[i].asset.expire = 0 \/ now <= log[i].asset.expire
        BY <3>7, <4>1 DEF Expired
      <4>3. QED
        BY <3>4, <3>5, <3>6, <4>2
  <2>3. QED
    BY <2>1, <2>2
<1>3. QED
  BY <1>1, <1>2, RegisterInvariant, PTL DEF Spec

-----------------------------------------------------------------------------
(* Misses                                                                  *)

\* Call c has reason not to be answered from the cache for URI u.
Justified(c, u) ==
  \A i \in DOMAIN log :
    /\ Key(log[i].ref) = Key(FetchReference(req[c], {u}))
    /\ i <= began[c]
    => \E j \in DOMAIN log :
         /\ j >= i
         /\ Key(log[j].ref) = Key(log[i].ref)
         /\ ~ Acceptable(Retrieved(log[j].asset), req[c], now)

\* Nothing that was ever stored is gone from the store.
Kept == \A i \in DOMAIN log : Key(log[i].ref) \in DOMAIN store

\* The positions of the URIs that call c has looked up in vain, where there is
\* an asset cache to look them up in.
Searched(c) ==
  {k \in 1 .. Len(req[c].uris) :
     /\ backend # "none"
     /\ pc[c] \in MissPath \/ (pc[c] = "lookup" /\ k < index[c])}

LookedUp == \A c \in Calls : \A k \in Searched(c) : Justified(c, req[c].uris[k])

\* What was not acceptable does not become so.
LEMMA AcceptableOnce ==
  ASSUME NEW x \in Asset, NEW r, NEW t \in Nat, NEW s \in Nat, s >= t,
         ~ Acceptable(Retrieved(x), r, t)
  PROVE  ~ Acceptable(Retrieved(x), r, s)
<1>1. Retrieved(x).expire \in Nat
  BY DEF Retrieved, Asset
<1>2. QED
  BY <1>1 DEF Acceptable, Expired

\* A reason stays one: no Put is added to those done before.
LEMMA JustifiedStays ==
  ASSUME Register, [Next]_vars, NEW c \in Calls, NEW u,
         pc[c] # "idle", Justified(c, u)
  PROVE  Justified(c, u)'
<1>0. \A ref : Key(ref)' = Key(ref)
  BY KeysStay DEF Register
<1>1. /\ req'[c] = req[c] /\ began'[c] = began[c] /\ backend' = backend
      /\ now' >= now /\ now \in Nat /\ now' \in Nat
  BY Settles, TypedNext DEF Register, Settled, Typed, TypeOK
<1>2. \A i \in DOMAIN log : i \in Nat /\ log[i].asset \in Asset
  <2>1. log \in Seq(LogEntry)
    BY DEF Register, Typed, TypeOK
  <2>2. \A i \in DOMAIN log : i \in Nat /\ log[i] \in LogEntry
    BY <2>1
  <2>3. QED
    BY <2>2 DEF LogEntry
<1> SUFFICES ASSUME NEW i \in DOMAIN log',
                    Key(log'[i].ref) = Key(FetchReference(req[c], {u})), i <= began[c]
             PROVE  \E j \in DOMAIN log' :
                      /\ j >= i
                      /\ Key(log'[j].ref) = Key(log'[i].ref)
                      /\ ~ Acceptable(Retrieved(log'[j].asset), req[c], now')
  BY <1>0, <1>1 DEF Justified, Retrieved
<1>3. i \in DOMAIN log /\ log'[i] = log[i]
  <2>1. began[c] <= Len(log) /\ began[c] \in Nat
    BY DEF Register, BeganBefore, Typed, TypeOK
  <2>2. i \in DOMAIN log
    BY <2>1, LogGrows DEF Register
  <2>3. QED
    BY <2>2, LogGrows DEF Register
<1>4. PICK j \in DOMAIN log :
        /\ j >= i
        /\ Key(log[j].ref) = Key(log[i].ref)
        /\ ~ Acceptable(Retrieved(log[j].asset), req[c], now)
  BY <1>3 DEF Justified
<1>5. ~ Acceptable(Retrieved(log[j].asset), req[c], now')
  BY <1>1, <1>2, <1>4, AcceptableOnce
<1>6. j \in DOMAIN log' /\ log'[j] = log[j]
  BY <1>4, LogGrows DEF Register
<1>7. QED
  BY <1>3, <1>4, <1>5, <1>6

\* A store without evictions keeps what has been put.
LEMMA KeptNext ==
  ASSUME Register, Kept, [Next]_vars, "evict" \notin Faults
  PROVE  Kept'
<1>0. \A ref : Key(ref)' = Key(ref)
  BY KeysStay DEF Register
<1>1. CASE UNCHANGED data
  BY <1>0, <1>1 DEF Kept, data
<1>2. CASE Stores
  <2>1. PICK put \in LogEntry : Apply(put)
    BY <1>2 DEF Stores
  <2>2. PICK n \in Nat : /\ DOMAIN log = 1 .. n
                         /\ DOMAIN log' = 1 .. n + 1
                         /\ \A k \in 1 .. n : log'[k] = log[k]
                         /\ log'[n + 1] = put
    BY <2>1, ApplyLog DEF Register
  <2>3. DOMAIN store' = DOMAIN store \cup {Key(put.ref)}
    BY <2>1 DEF Apply
  <2>4. QED
    BY <1>0, <2>2, <2>3 DEF Kept
<1>3. QED
  BY <1>1, <1>2, StoreEffects DEF Register, Evict

\* A lookup that comes to nothing is of a URI with nothing acceptable.
LEMMA MissJustified ==
  ASSUME Register, Kept, NEW c \in Calls, LookupMiss(c), "get" \notin Faults
  PROVE  Justified(c, req[c].uris[index[c]])
<1> DEFINE key == LookupKey(c)
<1> SUFFICES ASSUME NEW i \in DOMAIN log, Key(log[i].ref) = key
             PROVE  \E j \in DOMAIN log :
                      /\ j >= i
                      /\ Key(log[j].ref) = Key(log[i].ref)
                      /\ ~ Acceptable(Retrieved(log[j].asset), req[c], now)
  BY DEF Justified, LookupKey, LookupReference
<1>1. key \in DOMAIN store
  BY DEF Kept
<1>2. ~ Acceptable(Retrieved(store[key]), req[c], now)
  BY <1>1 DEF LookupMiss
<1>3. PICK j \in DOMAIN log : LastPut(j, key) /\ log[j].asset = store[key]
  BY <1>1 DEF Register, StoreIsLastPut
<1>4. i \in Nat /\ j \in Nat
  <2>1. log \in Seq(LogEntry)
    BY DEF Register, Typed, TypeOK
  <2>2. QED
    BY <2>1
<1>5. j >= i
  BY <1>3, <1>4 DEF LastPut
<1>6. QED
  BY <1>2, <1>3, <1>5 DEF LastPut

\* The search goes on by lookups that miss.
LEMMA SearchedNext ==
  ASSUME Typed, [Next]_vars, NEW c \in Calls, NEW k \in Searched(c)'
  PROVE  /\ pc[c] # "idle" /\ req'[c] = req[c]
         /\ k \in Searched(c) \/ (LookupMiss(c) /\ k = index[c])
<1>1. k \in 1 .. Len(req'[c].uris) /\ k \in Nat /\ backend # "none"
      /\ (pc'[c] \in MissPath \/ (pc'[c] = "lookup" /\ k < index'[c]))
  BY Settles DEF Searched
<1>2. pc[c] # "idle"
  <2> SUFFICES ASSUME pc[c] = "idle" PROVE FALSE
    OBVIOUS
  <2>1. pc'[c] = "lookup" /\ index'[c] = index[c]
    BY <1>1, Settles DEF Settled, MissPath
  <2>2. index[c] = 1
    BY DEF Typed, Admitted
  <2>3. QED
    BY <1>1, <2>1, <2>2 DEF MissPath
<1>3. req'[c] = req[c]
  BY <1>2, Settles DEF Settled
<1>4. CASE pc'[c] = pc[c] /\ index'[c] = index[c]
  BY <1>1, <1>2, <1>3, <1>4 DEF Searched
<1>5. CASE pc[c] \in MissPath
  BY <1>1, <1>2, <1>3, <1>5 DEF Searched
<1>6. ASSUME Step(c), pc[c] \notin MissPath
      PROVE  LookupMiss(c) /\ (k \in Searched(c) \/ k = index[c])
  <2>1. LookupMiss(c)
    <3>1. pc[c] = "lookup" \/ pc[c] \in PushPath
      BY <1>6, StepLocal DEF Active, Running
    <3>2. CASE LookupHit(c)
      BY <1>1, <3>2 DEF LookupHit, Reply, Goto, MissPath, Typed, TypeOK
    <3>3. CASE PushList(c) \/ PushEach(c) \/ PutRefused(c) \/ PutFails(c)
      <4>1. pc'[c] \in {"done", "pushEach"}
        BY <1>6, <3>3 DEF PushList, PushEach, PutRefused, PutFails, Reply, Goto, Typed, TypeOK
      <4>2. QED
        BY <1>1, <4>1 DEF MissPath
    <3>4. QED
      BY <1>6, <3>1, <3>2, <3>3
         DEF Step, FetchStep, PushStep, FetchFails, Download, Upload, UploadFails,
             CacheSingle, CacheList, MissPath, PushPath
  <2>2. pc[c] = "lookup" /\ index[c] \in Nat /\ Len(req[c].uris) \in Nat
    BY <2>1, CallType, RequestType DEF LookupMiss, Typed, TypeOK
  <2>3. CASE HasMoreUris(c)
    <3>1. index'[c] = index[c] + 1 /\ pc'[c] = "lookup"
      BY <2>1, <2>3 DEF LookupMiss, NextUri, Typed, TypeOK
    <3>2. QED
      BY <1>1, <1>3, <2>1, <2>2, <3>1 DEF Searched, MissPath
  <2>4. CASE ~ HasMoreUris(c)
    BY <1>1, <1>3, <2>1, <2>2, <2>4 DEF HasMoreUris, Searched
  <2>5. QED
    BY <2>1, <2>3, <2>4
<1>7. ASSUME NEW d \in Calls \ {c}, Arrive(d) \/ Step(d)
      PROVE  pc'[c] = pc[c] /\ index'[c] = index[c]
  BY <1>7, ArriveLocal, StepLocal DEF Local
<1>8. CASE Tick \/ LatePut \/ Evict \/ Quiescent \/ UNCHANGED vars
  BY <1>4, <1>8 DEF Tick, LatePut, Evict, Quiescent, vars, locals
<1>9. CASE Crash
  <2>1. pc'[c] = "done" \/ pc'[c] = pc[c]
    BY <1>9 DEF Crash, Typed, TypeOK
  <2>2. index' = index
    BY <1>9 DEF Crash, locals
  <2>3. QED
    BY <1>1, <1>4, <2>1, <2>2 DEF MissPath
<1>10. ~ Arrive(c)
  BY <1>2, ArriveLocal
<1>11. QED
  BY <1>2, <1>3, <1>4, <1>5, <1>6, <1>7, <1>8, <1>9, <1>10 DEF Next

\* Every step of the loop over the URIs keeps the misses justified.
LEMMA LookedUpNext ==
  ASSUME Register, Kept, LookedUp, [Next]_vars, "get" \notin Faults
  PROVE  LookedUp'
<1> SUFFICES ASSUME NEW c \in Calls, NEW k \in Searched(c)'
             PROVE  Justified(c, req[c].uris[k])'
  BY DEF LookedUp
<1>1. /\ pc[c] # "idle" /\ req'[c] = req[c]
      /\ k \in Searched(c) \/ (LookupMiss(c) /\ k = index[c])
  BY SearchedNext DEF Register
<1>2. PICK u : u = req[c].uris[k]
  OBVIOUS
<1>3. Justified(c, u)
  BY <1>1, <1>2, MissJustified DEF LookedUp
<1>4. Justified(c, u)'
  BY <1>1, <1>3, JustifiedStays
<1>5. QED
  BY <1>1, <1>2, <1>4

\* A store that answers every Get and keeps what it is given spares the
\* upstream: a fetch goes there only if, for each of its URIs, whatever was
\* stored when it began has been replaced or is something that it may not
\* accept (getAndCheckAsset and the loop around it).
THEOREM MissesAreJustified ==
  ASSUME "get" \notin Faults, "evict" \notin Faults
  PROVE  Spec => []MissIsJustified
<1>1. Init => Kept /\ LookedUp
  BY DEF Init, Kept, LookedUp, Searched, MissPath
<1>2. Register /\ Kept /\ LookedUp /\ [Next]_vars => (Kept /\ LookedUp)'
  BY KeptNext, LookedUpNext
<1>3. Register /\ LookedUp => MissIsJustified
  <2> SUFFICES ASSUME Register, LookedUp, NEW c \in Calls, pc[c] \in MissPath,
                      backend # "none", NEW u \in UrisOf(req[c])
               PROVE  Justified(c, u)
    BY DEF MissIsJustified, Justified
  <2>1. req[c] \in Requests
    BY CallType DEF Register, MissPath
  <2>2. PICK k \in 1 .. Len(req[c].uris) : u = req[c].uris[k]
    BY <2>1, UrisOfType
  <2>3. QED
    BY <2>2 DEF LookedUp, Searched
<1>4. QED
  BY <1>1, <1>2, <1>3, RegisterInvariant, PTL DEF Spec
===============================================================================
