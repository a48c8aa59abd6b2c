---------------------------- MODULE RemoteAssetPuts ----------------------------
(***************************************************************************)
(* What is put in the asset store, and what a call that reports success    *)
(* has put there: theorems about every Put that takes effect, at once or   *)
(* when its call is long over.                                             *)
(*                                                                         *)
(* The invariant says of every Put, whether it has taken effect or is      *)
(* still in flight, why its call may make it, in terms that stay true when *)
(* the call goes on, fails or dies.                                        *)
(***************************************************************************)
EXTENDS RemoteAssetRegister

-----------------------------------------------------------------------------
(* The inductive invariant                                                 *)

\* The labels of a call that has made a Put, or may be about to.
Putting == {"cacheSingle", "cacheList", "done"} \cup PushPath

\* A Put of fetch c is of what it downloaded, under the URI it is from or
\* under the whole list, and what it downloaded is in the CAS.
FetchedPut(c, put) ==
  /\ req[c].instance \in FetchAuthorized
  /\ fetched[c] \in Content
  /\ put.ref.uris \in {{fetched[c].uri}, UrisOf(req[c])}
  /\ put.ref.qualifiers = removeVolatileQualifiers(req[c].qualifiers)
  /\ put.asset.digest = fetched[c].digest
  /\ HashFunction[put.asset.digest] = put.ref.function
  /\ put.asset.digest \in uploaded

\* A Put of push c is that of the list, or that of a single URI, and then the
\* list and the smaller URIs are stored.
PushedList(c) == Stored(c, PushReference(req[c], UrisOf(req[c])))

PushedEach(c, uris) == \A u \in uris : Stored(c, PushReference(req[c], {u}))

PushedPut(c, put) ==
  /\ req[c].instance \in AllowUpdates
  /\ \/ put.ref = PushReference(req[c], UrisOf(req[c]))
     \/ \E u \in UrisOf(req[c]) :
          /\ put.ref = PushReference(req[c], {u})
          /\ PushedList(c)
          /\ PushedEach(c, {v \in UrisOf(req[c]) : v < u})

\* Why call c may make a Put.
Entitled(c, put) ==
  /\ pc[c] \in Putting
  /\ put.ref.instance = req[c].instance
  /\ req[c].instance \in PushAuthorized
  /\ IsFetch(req[c]) => FetchedPut(c, put)
  /\ IsPush(req[c]) => PushedPut(c, put)

\* A Put has taken effect or is in flight.
Made(put) == put \in late \/ \E i \in DOMAIN log : log[i] = put

PutsAreEntitled == \A put \in LogEntry : Made(put) => Entitled(put.call, put)

\* What a fetch has downloaded, and what it is about to cache.
DownloadedBy(c) ==
  /\ pc[c] \in {"upload", "cacheSingle", "cacheList"} =>
       /\ fetched[c].uri \in UrisOf(req[c])
       /\ HashFunction[fetched[c].digest] = DigestFunction(req[c])
  /\ pc[c] \in {"cacheSingle", "cacheList"} =>
       draft[c].digest = fetched[c].digest /\ fetched[c].digest \in uploaded

Downloaded == \A c \in Calls : DownloadedBy(c)

\* How far a call has got with its Puts.
SoFar(c) ==
  /\ pc[c] = "cacheList" => Stored(c, SingleReference(c))
  /\ pc[c] \in PushPath => todo[c] \subseteq UrisOf(req[c])
  /\ pc[c] = "pushList" => todo[c] = UrisOf(req[c])
  /\ pc[c] = "pushEach" => PushedList(c) /\ PushedEach(c, UrisOf(req[c]) \ todo[c])

PutsSoFar == \A c \in Calls : SoFar(c)

\* A fetch that was answered was admitted.
AnsweredIsAdmitted ==
  \A c \in Calls : FetchOk(c) => /\ req[c].instance \in FetchAuthorized
                                 /\ req[c].qualifiers \subseteq SupportedQualifiers

\* A fetch is answered from the cache, or with what it downloaded.
AnsweredIsDownloaded ==
  \A c \in Calls : FetchOk(c) =>
    \/ Hit(c)
    \/ fetched[c] \in Content /\ response[c].digest = fetched[c].digest

Puts ==
  /\ Typed
  /\ PutsAreEntitled
  /\ Downloaded
  /\ PutsSoFar
  /\ OkMeansStored
  /\ AnsweredIsAdmitted
  /\ AnsweredIsDownloaded

-----------------------------------------------------------------------------
(* What a step leaves alone                                                *)

\* The arrival of a request and a step of a handler leave the variables of
\* other calls alone.
LEMMA OthersStay ==
  ASSUME Typed, NEW c \in Calls, Arrive(c) \/ Step(c)
  PROVE  \A d \in Calls \ {c} :
           /\ pc'[d] = pc[d] /\ req'[d] = req[d] /\ response'[d] = response[d]
           /\ fetched'[d] = fetched[d] /\ todo'[d] = todo[d] /\ draft'[d] = draft[d]
<1>1. Local(c)
  BY ArriveLocal, StepLocal
<1>2. ASSUME Arrive(c), NEW d \in Calls \ {c}
      PROVE  fetched'[d] = fetched[d] /\ todo'[d] = todo[d] /\ draft'[d] = draft[d]
  BY <1>2 DEF Arrive, Refuse, BeginFetch, BeginPush, Receive, Typed, TypeOK
<1>3. ASSUME Step(c), NEW d \in Calls \ {c}
      PROVE  fetched'[d] = fetched[d] /\ todo'[d] = todo[d] /\ draft'[d] = draft[d]
  <2>1. CASE FetchStep(c)
    BY <2>1 DEF FetchStep, LookupHit, LookupMiss, FetchFails, Download, Upload, UploadFails,
                CacheSingle, CacheList, locals, Typed, TypeOK
  <2>2. CASE PushStep(c)
    BY <2>2 DEF PushStep, PushList, PushEach, Restamped, Typed, TypeOK
  <2>3. CASE PutRefused(c) \/ PutFails(c)
    BY <2>3 DEF PutRefused, PutFails, locals
  <2>4. QED
    BY <1>3, <2>1, <2>2, <2>3 DEF Step
<1>4. QED
  BY <1>1, <1>2, <1>3 DEF Local

\* Nothing leaves the CAS.
LEMMA UploadedGrows ==
  ASSUME [Next]_vars
  PROVE  uploaded \subseteq uploaded'
<1>1. ASSUME NEW c \in Calls, Arrive(c)
      PROVE  uploaded \subseteq uploaded'
  BY <1>1 DEF Arrive, Refuse, BeginFetch, BeginPush, Receive
<1>2. ASSUME NEW c \in Calls, Step(c)
      PROVE  uploaded \subseteq uploaded'
  BY <1>2 DEF Step, FetchStep, PushStep, LookupHit, LookupMiss, FetchFails, Download, Upload,
              UploadFails, CacheSingle, CacheList, PushList, PushEach, PutRefused, PutFails
<1>3. CASE Tick \/ LatePut \/ Evict \/ Crash \/ Quiescent \/ UNCHANGED vars
  BY <1>3 DEF Tick, LatePut, Evict, Crash, Quiescent, vars
<1>4. QED
  BY <1>1, <1>2, <1>3 DEF Next

\* A call that makes Puts, or is over, keeps the request and the download
\* that they are about.
LEMMA Freezes ==
  ASSUME Typed, [Next]_vars, NEW c \in Calls, pc[c] \in Putting
  PROVE  pc'[c] \in Putting /\ fetched'[c] = fetched[c] /\ req'[c] = req[c]
<1>1. ASSUME NEW d \in Calls, Arrive(d)
      PROVE  pc'[c] \in Putting /\ fetched'[c] = fetched[c] /\ req'[c] = req[c]
  <2>1. d # c
    BY <1>1, ArriveLocal DEF Putting, PushPath
  <2>2. QED
    BY <1>1, <2>1, OthersStay
<1>2. ASSUME NEW d \in Calls, Step(d)
      PROVE  pc'[c] \in Putting /\ fetched'[c] = fetched[c] /\ req'[c] = req[c]
  <2>1. CASE d # c
    BY <1>2, <2>1, OthersStay
  <2>2. CASE d = c
    <3>1. req' = req
      BY <1>2, StepLocal
    <3>2. CASE LookupHit(c) \/ LookupMiss(c) \/ FetchFails(c) \/ Download(c) \/ Upload(c)
                 \/ UploadFails(c)
      BY <3>2 DEF LookupHit, LookupMiss, FetchFails, Download, Upload, UploadFails, Putting,
                  PushPath
    <3>3. CASE CacheSingle(c) \/ CacheList(c)
      BY <3>1, <3>3 DEF CacheSingle, CacheList, Goto, Reply, Putting, PushPath, locals, Typed,
                        TypeOK
    <3>4. CASE PushStep(c)
      BY <3>1, <3>4 DEF PushStep, PushList, PushEach, Goto, Reply, Putting, PushPath, Typed,
                        TypeOK
    <3>5. CASE PutRefused(c) \/ PutFails(c)
      BY <3>1, <3>5 DEF PutRefused, PutFails, Reply, Goto, Putting, locals, Typed, TypeOK
    <3>6. QED
      BY <1>2, <2>2, <3>2, <3>3, <3>4, <3>5 DEF Step, FetchStep
  <2>3. QED
    BY <2>1, <2>2
<1>3. CASE Tick \/ LatePut \/ Evict \/ Quiescent \/ UNCHANGED vars
  BY <1>3 DEF Tick, LatePut, Evict, Quiescent, vars, locals
<1>4. CASE Crash
  BY <1>4 DEF Crash, locals, Putting, Typed, TypeOK
<1>5. QED
  BY <1>1, <1>2, <1>3, <1>4 DEF Next

\* What is stored stays on record.
LEMMA StoredStays ==
  ASSUME Typed, [Next]_vars, NEW c \in Calls, NEW ref, Stored(c, ref)
  PROVE  Stored(c, ref)'
BY LogGrows DEF Stored

\* Whatever happens, a Put that a call may make remains one.
LEMMA EntitledStays ==
  ASSUME Typed, [Next]_vars, NEW c \in Calls, NEW put, Entitled(c, put)
  PROVE  Entitled(c, put)'
<1>1. pc'[c] \in Putting /\ fetched'[c] = fetched[c] /\ req'[c] = req[c]
  BY Freezes DEF Entitled
<1>2. FetchedPut(c, put) => FetchedPut(c, put)'
  BY <1>1, UploadedGrows DEF FetchedPut, UrisOf, Range
<1>3. PushedPut(c, put) => PushedPut(c, put)'
  <2>1. PushedList(c) => PushedList(c)'
    BY <1>1, StoredStays DEF PushedList
  <2>2. \A uris : PushedEach(c, uris) => PushedEach(c, uris)'
    BY <1>1, StoredStays DEF PushedEach
  <2>3. QED
    BY <1>1, <2>1, <2>2 DEF PushedPut
<1>4. QED
  BY <1>1, <1>2, <1>3 DEF Entitled, IsFetch, IsPush

-----------------------------------------------------------------------------
(* Where Puts come from                                                    *)

\* A handler is about to put under a reference, and the push authorizer
\* admits it.
Makes(c, put) == MayPut(c) /\ \E ref \in NextReference(c) : put = PutOf(c, ref)

\* The Put that a handler is about to make is one it may make: what it has
\* done before entitles it.
LEMMA NextIsEntitled ==
  ASSUME Puts, NEW c \in Calls, NEW put, Makes(c, put)
  PROVE  Entitled(c, put) /\ put \in LogEntry /\ put.call = c
<1>1. PICK ref \in NextReference(c) : put = PutOf(c, ref)
  BY DEF Makes
<1>2. put.ref = ref /\ put.asset = draft[c] /\ put.call = c
  BY <1>1 DEF PutOf
<1>3. Typed /\ Active(c) /\ ref \in Reference /\ draft[c] \in Asset /\ req[c] \in Requests
  BY <1>1, CallType DEF Puts, Active, Running, MissPath, PushPath
<1>4. pc[c] \in {"cacheSingle", "cacheList", "pushList", "pushEach"}
  BY <1>1 DEF NextReference
<1>5. Refusal(req[c]) = "Admitted" /\ req[c].instance \in PushAuthorized
  BY <1>3 DEF Typed, Admitted, Makes, MayPut
<1>6. CASE pc[c] \in {"cacheSingle", "cacheList"}
  <2>1. IsFetch(req[c]) /\ ~ IsPush(req[c])
    BY <1>3, <1>6 DEF Typed, Admitted, PushPath, IsFetch, IsPush, FetchOps, PushOps
  <2>2. req[c].instance \in FetchAuthorized
    BY <1>5, <2>1 DEF Refusal, Unauthorized
  <2>3. ref \in {FetchReference(req[c], {fetched[c].uri}), FetchReference(req[c], UrisOf(req[c]))}
    BY <1>1, <1>6 DEF NextReference, SingleReference, ListReference
  <2>4. /\ ref.instance = req[c].instance /\ ref.function = DigestFunction(req[c])
        /\ ref.uris \in {{fetched[c].uri}, UrisOf(req[c])}
        /\ ref.qualifiers = removeVolatileQualifiers(req[c].qualifiers)
    BY <2>3 DEF FetchReference, NewAssetReference
  <2>5. /\ draft[c].digest = fetched[c].digest /\ draft[c].digest \in uploaded
        /\ HashFunction[fetched[c].digest] = DigestFunction(req[c])
        /\ fetched[c] \in Content
    BY <1>6 DEF Puts, Downloaded, DownloadedBy, Typed, TypeOK
  <2>6. FetchedPut(c, put)
    BY <1>2, <2>2, <2>4, <2>5 DEF FetchedPut
  <2>7. QED
    BY <1>2, <1>3, <1>5, <1>6, <2>1, <2>4, <2>6, PutOfType, <1>1 DEF Entitled, Putting
<1>7. CASE pc[c] \in PushPath
  <2>1. IsPush(req[c]) /\ ~ IsFetch(req[c])
    BY <1>3, <1>7 DEF Typed, Admitted, PushPath, IsFetch, IsPush, FetchOps, PushOps
  <2>2. req[c].instance \in AllowUpdates
    BY <1>5, <2>1 DEF Refusal, PushRefusal, ErrorPushServer
  <2>3. todo[c] \subseteq UrisOf(req[c]) /\ UrisOf(req[c]) \subseteq Uris
    BY <1>3, <1>7, CallType DEF Puts, PutsSoFar, SoFar
  <2>4. \/ ref = PushReference(req[c], UrisOf(req[c]))
        \/ \E u \in UrisOf(req[c]) :
             /\ ref = PushReference(req[c], {u})
             /\ PushedList(c)
             /\ PushedEach(c, {v \in UrisOf(req[c]) : v < u})
    <3>1. CASE pc[c] = "pushList"
      BY <1>1, <3>1 DEF NextReference
    <3>2. CASE pc[c] = "pushEach"
      <4>1. PICK u \in First(todo[c]) : ref = PushReference(req[c], {u})
        BY <1>1, <3>2 DEF NextReference
      <4>2. PushedList(c) /\ PushedEach(c, UrisOf(req[c]) \ todo[c])
        BY <3>2 DEF Puts, PutsSoFar, SoFar
      <4>3. u \in todo[c] /\ \A v \in todo[c] : u <= v
        BY <4>1 DEF First
      <4>4. \A v \in UrisOf(req[c]) : v < u => v \notin todo[c]
        <5>1. \A v \in UrisOf(req[c]) : v \in Nat
          BY <2>3, UrisAssumption
        <5>2. u \in Nat
          BY <2>3, <4>3, <5>1
        <5>3. QED
          BY <4>3, <5>1, <5>2
      <4>5. PushedEach(c, {v \in UrisOf(req[c]) : v < u})
        BY <4>2, <4>4 DEF PushedEach
      <4>6. QED
        BY <2>3, <4>1, <4>2, <4>3, <4>5
    <3>3. QED
      BY <1>7, <3>1, <3>2 DEF PushPath
  <2>5. ref.instance = req[c].instance
    <3>1. \A uris : PushReference(req[c], uris).instance = req[c].instance
      BY DEF PushReference, NewAssetReference
    <3>2. QED
      BY <2>4, <3>1
  <2>6. PushedPut(c, put)
    BY <1>2, <2>2, <2>4 DEF PushedPut
  <2>7. QED
    BY <1>2, <1>3, <1>5, <1>7, <2>1, <2>5, <2>6, PutOfType, <1>1 DEF Entitled, Putting
<1>8. QED
  BY <1>4, <1>6, <1>7 DEF PushPath

\* The Put takes effect, or the handler gives it up while it is under way.
TakesEffect(c) == \E p : Makes(c, p) /\ Apply(p) /\ UNCHANGED late

IsGivenUp(c) == \E p : Makes(c, p) /\ UNCHANGED log /\ late' = late \cup {p}

\* A step of a handler makes at most one Put.
LEMMA StepMakes ==
  ASSUME NEW c \in Calls, Step(c)
  PROVE  \/ UNCHANGED <<log, late>>
         \/ TakesEffect(c) \/ IsGivenUp(c)
<1>1. CASE LookupHit(c) \/ LookupMiss(c) \/ FetchFails(c) \/ Download(c) \/ Upload(c)
             \/ UploadFails(c) \/ PutRefused(c)
  BY <1>1 DEF LookupHit, LookupMiss, FetchFails, Download, Upload, UploadFails, PutRefused, data
<1>2. CASE CacheSingle(c) \/ CacheList(c) \/ PushStep(c)
  <2>1. MayPut(c) /\ \E ref \in NextReference(c) : Put(c, ref)
    BY <1>2 DEF CacheSingle, CacheList, PushStep, PushList, PushEach, NextReference
  <2>2. QED
    BY <2>1 DEF Put, Makes, TakesEffect
<1>3. CASE PutFails(c)
  BY <1>3 DEF PutFails, Put, Makes, data, TakesEffect, IsGivenUp
<1>4. QED
  BY <1>1, <1>2, <1>3 DEF Step, FetchStep

\* A Put that takes effect, or is given up, has been in flight before or is
\* one that a handler was about to make.
LEMMA Sources ==
  ASSUME Puts, [Next]_vars, NEW put, Made(put)'
  PROVE  Made(put) \/ \E c \in Calls : Makes(c, put)
<1>1. Typed /\ late \subseteq LogEntry
  BY DEF Puts, Typed, TypeOK
<1>2. ASSUME NEW p \in LogEntry, Apply(p), \E i \in DOMAIN log' : log'[i] = put
      PROVE  put = p \/ Made(put)
  BY <1>1, <1>2, ApplyLog DEF Made
<1>3. ASSUME UNCHANGED <<log, late>>
      PROVE  Made(put)
  BY <1>3 DEF Made
<1>4. ASSUME NEW c \in Calls, Step(c)
      PROVE  Made(put) \/ Makes(c, put)
  <2>1. CASE TakesEffect(c)
    <3>1. PICK p : Makes(c, p) /\ Apply(p) /\ UNCHANGED late
      BY <2>1 DEF TakesEffect
    <3>2. p \in LogEntry
      BY <3>1, NextIsEntitled
    <3>3. QED
      BY <1>2, <3>1, <3>2 DEF Made
  <2>2. CASE IsGivenUp(c)
    BY <2>2 DEF Made, IsGivenUp
  <2>3. QED
    BY <1>3, <1>4, <2>1, <2>2, StepMakes
<1>5. CASE LatePut
  <2>1. PICK p \in late : Apply(p) /\ late' = late \ {p}
    BY <1>5 DEF LatePut
  <2>2. QED
    BY <1>1, <1>2, <2>1 DEF Made
<1>6. ASSUME NEW c \in Calls, Arrive(c)
      PROVE  UNCHANGED <<log, late>>
  BY <1>6 DEF Arrive, Refuse, BeginFetch, BeginPush, Receive, data
<1>7. CASE Tick \/ Evict \/ Crash \/ Quiescent \/ UNCHANGED vars
  BY <1>3, <1>7 DEF Tick, Evict, Crash, Quiescent, vars, data
<1>8. QED
  BY <1>3, <1>4, <1>5, <1>6, <1>7 DEF Next

\* Every Put that has taken effect or is in flight is one that its call may
\* make.
LEMMA KeepsEntitled ==
  ASSUME Puts, [Next]_vars
  PROVE  PutsAreEntitled'
<1> SUFFICES ASSUME NEW put \in LogEntry, Made(put)'
             PROVE  Entitled(put.call, put)'
  BY DEF PutsAreEntitled, LogEntry
<1>1. Typed /\ put.call \in Calls
  BY DEF Puts, LogEntry
<1>2. Entitled(put.call, put)
  <2>1. CASE Made(put)
    BY <2>1 DEF Puts, PutsAreEntitled
  <2>2. CASE \E c \in Calls : Makes(c, put)
    BY <2>2, NextIsEntitled
  <2>3. QED
    BY <2>1, <2>2, Sources
<1>3. QED
  BY <1>1, <1>2, EntitledStays

-----------------------------------------------------------------------------
(* Downloads and Puts so far                                               *)

\* A Put that takes effect is on record.
LEMMA PutIsStored ==
  ASSUME Typed, NEW c \in Calls, NEW ref \in NextReference(c), Put(c, ref)
  PROVE  Stored(c, ref)'
<1>1. ref \in Reference /\ draft[c] \in Asset
  BY CallType
<1>2. PutOf(c, ref) \in LogEntry /\ Apply(PutOf(c, ref))
  BY <1>1, PutOfType DEF Put
<1>3. PICK n \in Nat : DOMAIN log' = 1 .. n + 1 /\ log'[n + 1] = PutOf(c, ref)
  BY <1>2, ApplyLog
<1>4. n + 1 \in DOMAIN log' /\ log'[n + 1].call = c /\ log'[n + 1].ref = ref
  BY <1>3 DEF PutOf
<1>5. QED
  BY <1>4 DEF Stored

\* A call that stays where it is, or that ends, has done what it had done.
LEMMA RestStays ==
  ASSUME Puts, [Next]_vars, NEW c \in Calls,
         \/ pc'[c] \in {"done", "idle"}
         \/ /\ pc'[c] = pc[c] /\ req'[c] = req[c] /\ fetched'[c] = fetched[c]
            /\ todo'[c] = todo[c] /\ draft'[c] = draft[c]
  PROVE  DownloadedBy(c)' /\ SoFar(c)'
<1>1. CASE pc'[c] \in {"done", "idle"}
  BY <1>1 DEF DownloadedBy, SoFar, PushPath
<1>2. CASE /\ pc'[c] = pc[c] /\ req'[c] = req[c] /\ fetched'[c] = fetched[c]
           /\ todo'[c] = todo[c] /\ draft'[c] = draft[c]
  <2>1. DownloadedBy(c) /\ SoFar(c) /\ Typed
    BY DEF Puts, Downloaded, PutsSoFar
  <2>2. DownloadedBy(c)'
    BY <1>2, <2>1, UploadedGrows DEF DownloadedBy
  <2>3. Stored(c, SingleReference(c)) => Stored(c, SingleReference(c))'
    BY <1>2, <2>1, StoredStays DEF SingleReference
  <2>4. PushedList(c) => PushedList(c)'
    BY <1>2, <2>1, StoredStays DEF PushedList
  <2>5. PushedEach(c, UrisOf(req[c]) \ todo[c]) => PushedEach(c, UrisOf(req[c]) \ todo[c])'
    BY <1>2, <2>1, StoredStays DEF PushedEach
  <2>6. SoFar(c)'
    BY <1>2, <2>1, <2>3, <2>4, <2>5 DEF SoFar
  <2>7. QED
    BY <2>2, <2>6
<1>3. QED
  BY <1>1, <1>2

\* A step of a handler does the next thing.
LEMMA StepDoes ==
  ASSUME Puts, NEW c \in Calls, Step(c)
  PROVE  DownloadedBy(c)' /\ SoFar(c)'
<1>1. Typed /\ DownloadedBy(c) /\ SoFar(c) /\ [Next]_vars
  BY DEF Puts, Downloaded, PutsSoFar, Next
<1>2. req' = req
  BY <1>1, StepLocal
<1>3. CASE LookupHit(c) \/ LookupMiss(c) \/ FetchFails(c)
  <2>1. pc'[c] \in {"done", "lookup", "fetch"}
    BY <1>1, <1>3 DEF LookupHit, LookupMiss, FetchFails, Reply, Goto, Typed, TypeOK
  <2>2. QED
    BY <2>1 DEF DownloadedBy, SoFar, PushPath
<1>4. CASE UploadFails(c) \/ CacheList(c) \/ PutRefused(c) \/ PutFails(c)
  <2>1. pc'[c] = "done"
    BY <1>1, <1>4 DEF UploadFails, CacheList, PutRefused, PutFails, Reply, Goto, Typed, TypeOK
  <2>2. QED
    BY <1>1, <2>1, RestStays
<1>5. CASE Download(c)
  <2>1. PICK u \in UrisOf(req[c]), d \in Digests :
          /\ HashFunction[d] = DigestFunction(req[c])
          /\ fetched' = [fetched EXCEPT ![c] = [uri |-> u, digest |-> d]]
    BY <1>5 DEF Download
  <2>2. pc'[c] = "upload" /\ fetched'[c] = [uri |-> u, digest |-> d]
    BY <1>1, <1>5, <2>1 DEF Download, Goto, Typed, TypeOK
  <2>3. QED
    BY <1>2, <2>1, <2>2 DEF DownloadedBy, SoFar, PushPath
<1>6. CASE Upload(c)
  <2>1. /\ pc[c] = "upload" /\ fetched' = fetched
        /\ uploaded' = uploaded \cup {fetched[c].digest}
        /\ \/ pc'[c] = "done"
           \/ pc'[c] = "cacheSingle" /\ draft'[c] = NewAsset(req[c], fetched[c].digest, 0, now)
    BY <1>1, <1>6 DEF Upload, Goto, Reply, Typed, TypeOK
  <2>2. pc'[c] = "cacheSingle" => draft'[c].digest = fetched[c].digest
    BY <2>1 DEF NewAsset
  <2>3. QED
    BY <1>1, <1>2, <2>1, <2>2 DEF DownloadedBy, SoFar, PushPath
<1>7. CASE CacheSingle(c)
  <2>1. /\ pc[c] = "cacheSingle" /\ pc'[c] \in {"done", "cacheList"}
        /\ UNCHANGED <<fetched, draft, uploaded>>
        /\ Put(c, SingleReference(c)) /\ SingleReference(c) \in NextReference(c)
    BY <1>1, <1>7 DEF CacheSingle, Goto, Reply, NextReference, locals, Typed, TypeOK
  <2>2. Stored(c, SingleReference(c))'
    <3>1. SingleReference(c)' = SingleReference(c)
      BY <1>2, <2>1 DEF SingleReference
    <3>2. QED
      BY <1>1, <2>1, <3>1, PutIsStored DEF Stored
  <2>3. QED
    BY <1>1, <1>2, <2>1, <2>2 DEF DownloadedBy, SoFar, PushPath
<1>8. CASE PushList(c)
  <2> DEFINE ref == PushReference(req[c], UrisOf(req[c]))
  <2>1. /\ pc[c] = "pushList" /\ pc'[c] \in {"done", "pushEach"} /\ todo' = todo
        /\ Put(c, ref) /\ ref \in NextReference(c)
    BY <1>1, <1>8 DEF PushList, Goto, Reply, NextReference, Typed, TypeOK
  <2>2. PushedList(c)'
    <3>1. PushReference(req[c], UrisOf(req[c]))' = ref
      BY <1>2
    <3>2. QED
      BY <1>1, <2>1, <3>1, PutIsStored DEF Stored, PushedList
  <2>3. todo[c] = UrisOf(req[c])
    BY <1>1, <2>1 DEF SoFar
  <2>4. PushedEach(c, UrisOf(req[c]) \ todo[c])'
    BY <1>2, <2>1, <2>3 DEF PushedEach
  <2>5. QED
    BY <1>2, <2>1, <2>2, <2>3, <2>4 DEF DownloadedBy, SoFar, PushPath
<1>9. CASE PushEach(c)
  <2>1. PICK u \in First(todo[c]) :
          Put(c, PushReference(req[c], {u})) /\ todo' = [todo EXCEPT ![c] = @ \ {u}]
    BY <1>9 DEF PushEach
  <2>2. /\ pc[c] = "pushEach" /\ pc'[c] \in {"done", "pushEach"} /\ todo'[c] = todo[c] \ {u}
        /\ PushReference(req[c], {u}) \in NextReference(c)
    BY <1>1, <1>9, <2>1 DEF PushEach, Goto, Reply, NextReference, Typed, TypeOK
  <2>3. Stored(c, PushReference(req[c], {u}))'
    BY <1>1, <1>2, <2>1, <2>2, PutIsStored DEF Stored
  <2>4. PushedList(c) /\ PushedEach(c, UrisOf(req[c]) \ todo[c]) /\ todo[c] \subseteq UrisOf(req[c])
    BY <1>1, <2>2 DEF SoFar, PushPath
  <2>5. PushedList(c)'
    BY <1>1, <1>2, <2>4, StoredStays DEF PushedList
  <2>6. PushedEach(c, UrisOf(req[c]) \ todo[c])'
    <3>1. SUFFICES ASSUME NEW v \in UrisOf(req[c]), v \notin todo'[c]
                   PROVE  Stored(c, PushReference(req[c], {v}))'
      BY <1>2 DEF PushedEach
    <3>2. CASE v = u
      BY <2>3, <3>2
    <3>3. CASE v # u
      <4>1. Stored(c, PushReference(req[c], {v}))
        BY <2>2, <2>4, <3>1, <3>3 DEF PushedEach
      <4>2. QED
        BY <1>1, <1>2, <4>1, StoredStays
    <3>4. QED
      BY <3>2, <3>3
  <2>7. QED
    BY <1>2, <2>2, <2>4, <2>5, <2>6 DEF DownloadedBy, SoFar, PushPath
<1>10. QED
  BY <1>3, <1>4, <1>5, <1>6, <1>7, <1>8, <1>9 DEF Step, FetchStep, PushStep

\* Every step keeps what calls have downloaded and put so far.
LEMMA KeepsSoFar ==
  ASSUME Puts, [Next]_vars
  PROVE  Downloaded' /\ PutsSoFar'
<1> SUFFICES ASSUME NEW c \in Calls
             PROVE  DownloadedBy(c)' /\ SoFar(c)'
  BY DEF Downloaded, PutsSoFar
<1>0. Typed
  BY DEF Puts
<1>1. ASSUME NEW d \in Calls, Arrive(d)
      PROVE  DownloadedBy(c)' /\ SoFar(c)'
  <2>1. CASE d # c
    BY <1>0, <1>1, <2>1, OthersStay, RestStays
  <2>2. CASE d = c
    <3>1. PICK r \in Requests : Refuse(c, r) \/ BeginFetch(c, r) \/ BeginPush(c, r)
      BY <1>1, <2>2 DEF Arrive
    <3>2. CASE BeginPush(c, r)
      <4>1. pc'[c] = "pushList" /\ req'[c] = r /\ todo'[c] = UrisOf(r)
        BY <1>0, <3>2 DEF BeginPush, Receive, Goto, Typed, TypeOK
      <4>2. QED
        BY <4>1 DEF DownloadedBy, SoFar, PushPath
    <3>3. CASE Refuse(c, r) \/ BeginFetch(c, r)
      <4>1. pc'[c] \in {"done", "fetch", "lookup"}
        BY <1>0, <3>3 DEF Refuse, BeginFetch, Reply, Goto, Typed, TypeOK
      <4>2. QED
        BY <4>1 DEF DownloadedBy, SoFar, PushPath
    <3>4. QED
      BY <3>1, <3>2, <3>3
  <2>3. QED
    BY <2>1, <2>2
<1>2. ASSUME NEW d \in Calls, Step(d)
      PROVE  DownloadedBy(c)' /\ SoFar(c)'
  <2>1. CASE d # c
    BY <1>0, <1>2, <2>1, OthersStay, RestStays
  <2>2. CASE d = c
    BY <1>2, <2>2, StepDoes
  <2>3. QED
    BY <2>1, <2>2
<1>3. CASE Tick \/ LatePut \/ Evict \/ Quiescent \/ UNCHANGED vars
  <2>1. UNCHANGED <<pc, req, fetched, todo, draft>>
    BY <1>3 DEF Tick, LatePut, Evict, Quiescent, vars, locals
  <2>2. QED
    BY <2>1, RestStays
<1>4. CASE Crash
  <2>1. UNCHANGED <<req, fetched, todo, draft>> /\ (pc'[c] = pc[c] \/ pc'[c] = "done")
    BY <1>4 DEF Crash, locals
  <2>2. QED
    BY <2>1, RestStays
<1>5. QED
  BY <1>1, <1>2, <1>3, <1>4 DEF Next

-----------------------------------------------------------------------------
(* What success stands for                                                 *)

\* A call ends well only by a step of its handler.
LEMMA EndsWell ==
  ASSUME Typed, [Next]_vars, NEW c \in Calls, pc[c] # "done", Ok(c)'
  PROVE  /\ Step(c) /\ Active(c) /\ req' = req
         /\ \/ LookupHit(c) \/ Upload(c) \/ CacheSingle(c) \/ CacheList(c)
            \/ PushList(c) \/ PushEach(c)
<1> USE DEF Ok
<1>1. pc[c] # "idle"
  BY Settles DEF Settled
<1>2. ASSUME NEW d \in Calls, Arrive(d)
      PROVE  FALSE
  BY <1>1, <1>2, ArriveLocal DEF Local
<1>3. ASSUME NEW d \in Calls, Step(d)
      PROVE  /\ Step(c) /\ Active(c) /\ req' = req
             /\ \/ LookupHit(c) \/ Upload(c) \/ CacheSingle(c) \/ CacheList(c)
                \/ PushList(c) \/ PushEach(c)
  <2>1. d = c
    BY <1>3, OthersStay
  <2>2. Active(c) /\ req' = req
    BY <1>3, <2>1, StepLocal
  <2>3. ~ (LookupMiss(c) \/ Download(c))
    BY DEF LookupMiss, Download, Goto, Typed, TypeOK
  <2>4. ~ (FetchFails(c) \/ UploadFails(c) \/ PutRefused(c) \/ PutFails(c))
    <3>1. c \in DOMAIN response
      BY DEF Typed, TypeOK
    <3>2. QED
      BY <3>1, UpstreamAssumption DEF FetchFails, UploadFails, PutRefused, PutFails, Reply, Error
  <2>5. QED
    BY <1>3, <2>1, <2>2, <2>3, <2>4 DEF Step, FetchStep, PushStep
<1>4. ~ (Tick \/ LatePut \/ Evict \/ Quiescent \/ UNCHANGED vars)
  BY DEF Tick, LatePut, Evict, Quiescent, vars
<1>5. ~ Crash
  BY DEF Crash, Error, Typed, TypeOK
<1>6. QED
  BY <1>2, <1>3, <1>4, <1>5 DEF Next

\* A fetch that is answered was admitted by the fetch authorizer.
LEMMA KeepsAnswered ==
  ASSUME Puts, [Next]_vars
  PROVE  AnsweredIsAdmitted'
<1> SUFFICES ASSUME NEW c \in Calls, FetchOk(c)'
             PROVE  /\ req'[c].instance \in FetchAuthorized
                    /\ req'[c].qualifiers \subseteq SupportedQualifiers
  BY DEF AnsweredIsAdmitted
<1>0. Typed
  BY DEF Puts
<1>1. CASE pc[c] = "done"
  <2>1. response'[c] = response[c] /\ req'[c] = req[c]
    BY <1>0, <1>1, Settles DEF Settled
  <2>2. FetchOk(c)
    BY <1>1, <2>1 DEF FetchOk, Ok, IsFetch
  <2>3. QED
    BY <2>1, <2>2 DEF Puts, AnsweredIsAdmitted
<1>2. CASE pc[c] # "done"
  <2>1. Active(c) /\ req' = req
    BY <1>0, <1>2, EndsWell DEF FetchOk
  <2>2. Refusal(req[c]) = "Admitted" /\ IsFetch(req[c])
    BY <1>0, <2>1 DEF Typed, Admitted, FetchOk, IsFetch
  <2>3. req[c].instance \in FetchAuthorized /\ req[c].qualifiers \subseteq SupportedQualifiers
    BY <2>2 DEF Refusal, Unauthorized, Invalid, IsFetch, IsPush, FetchOps, PushOps
  <2>4. QED
    BY <2>1, <2>3
<1>3. QED
  BY <1>1, <1>2

\* A fetch ends well with what the cache has or with what it has downloaded.
LEMMA KeepsDownload ==
  ASSUME Puts, [Next]_vars
  PROVE  AnsweredIsDownloaded'
<1> SUFFICES ASSUME NEW c \in Calls, FetchOk(c)'
             PROVE  \/ Hit(c)'
                    \/ fetched'[c] \in Content /\ response'[c].digest = fetched'[c].digest
  BY DEF AnsweredIsDownloaded
<1>0. Typed /\ c \in DOMAIN response /\ c \in DOMAIN pc
  BY DEF Puts, Typed, TypeOK
<1>1. CASE pc[c] = "done"
  <2>1. response'[c] = response[c] /\ req'[c] = req[c] /\ fetched'[c] = fetched[c]
    BY <1>0, <1>1, Settles, Freezes DEF Settled, Putting
  <2>2. FetchOk(c)
    BY <1>1, <2>1 DEF FetchOk, Ok, IsFetch
  <2>3. Hit(c) => Hit(c)'
    BY <2>1 DEF Hit
  <2>4. QED
    BY <2>1, <2>2, <2>3 DEF Puts, AnsweredIsDownloaded
<1>2. CASE pc[c] # "done"
  <2>1. /\ Step(c) /\ Active(c) /\ req' = req
        /\ \/ LookupHit(c) \/ Upload(c) \/ CacheSingle(c) \/ CacheList(c)
           \/ PushList(c) \/ PushEach(c)
    BY <1>0, <1>2, EndsWell DEF FetchOk
  <2>2. ~ (PushList(c) \/ PushEach(c))
    BY <1>0, <2>1 DEF Typed, Admitted, FetchOk, IsFetch, IsPush, FetchOps, PushOps,
                      PushList, PushEach, PushPath
  <2>3. LookupHit(c) => Hit(c)'
    BY <1>0 DEF LookupHit, Reply, Hit
  <2>4. CASE Upload(c) \/ CacheSingle(c) \/ CacheList(c)
    <3>1. \/ pc'[c] \in {"cacheSingle", "cacheList"}
          \/ response' = [response EXCEPT ![c] = Fetched(c)]
      BY <1>0, <2>4 DEF Upload, CacheSingle, CacheList, Goto, Reply
    <3>2. response'[c] = Fetched(c)
      BY <1>0, <3>1 DEF FetchOk, Ok
    <3>3. fetched' = fetched /\ fetched[c] \in Content
      BY <1>0, <2>4 DEF Upload, CacheSingle, CacheList, locals, Typed, TypeOK
    <3>4. QED
      BY <3>2, <3>3 DEF Fetched
  <2>5. QED
    BY <2>1, <2>2, <2>3, <2>4
<1>3. QED
  BY <1>1, <1>2

\* What a call has stored when it ends well.
LEMMA WellEnded ==
  ASSUME Puts, [Next]_vars, NEW c \in Calls, pc[c] # "done"
  PROVE  /\ PushOk(c)' => PushedList(c)' /\ PushedEach(c, UrisOf(req[c]))'
         /\ Upstream(c)' /\ backend' # "none" =>
              /\ Stored(c, FetchReference(req[c], {response[c].uri}))'
              /\ Stored(c, FetchReference(req[c], UrisOf(req[c])))'
<1> SUFFICES ASSUME Ok(c)'
             PROVE  /\ PushOk(c)' => PushedList(c)' /\ PushedEach(c, UrisOf(req[c]))'
                    /\ Upstream(c)' /\ backend' # "none" =>
                         /\ Stored(c, FetchReference(req[c], {response[c].uri}))'
                         /\ Stored(c, FetchReference(req[c], UrisOf(req[c])))'
  BY DEF PushOk, Upstream, FetchOk
<1>0. Typed /\ DownloadedBy(c) /\ SoFar(c) /\ c \in DOMAIN response /\ c \in DOMAIN pc
  BY DEF Puts, Downloaded, PutsSoFar, Typed, TypeOK
<1>1. /\ Step(c) /\ Active(c) /\ req' = req
      /\ \/ LookupHit(c) \/ Upload(c) \/ CacheSingle(c) \/ CacheList(c)
         \/ PushList(c) \/ PushEach(c)
  BY <1>0, EndsWell
<1>2. backend' = backend
  BY <1>0, Settles
<1>3. /\ pc[c] \in PushPath => IsPush(req[c]) /\ ~ IsFetch(req[c])
      /\ pc[c] \notin PushPath => IsFetch(req[c]) /\ ~ IsPush(req[c])
  BY <1>0, <1>1 DEF Typed, Admitted, IsFetch, IsPush, FetchOps, PushOps
<1>4. /\ req[c] \in Requests /\ req[c].uris # << >> /\ Len(req[c].uris) \in Nat
  BY <1>0, <1>1, CallType, RequestType DEF Active, Running, MissPath, PushPath
<1>5. ~ Len(req[c].uris) > 1 => \A u \in UrisOf(req[c]) : {u} = UrisOf(req[c])
  BY <1>4, UrisOfType
<1>6. CASE LookupHit(c)
  <2>1. response'[c].from = "cache" /\ pc[c] \notin PushPath
    BY <1>0, <1>6 DEF LookupHit, Reply, PushPath
  <2>2. QED
    BY <1>1, <1>3, <2>1 DEF PushOk, Upstream
<1>7. CASE Upload(c)
  <2>1. pc[c] \notin PushPath /\ (backend = "none" \/ pc'[c] = "cacheSingle")
    BY <1>0, <1>7 DEF Upload, Goto, PushPath
  <2>2. QED
    BY <1>1, <1>2, <1>3, <2>1 DEF PushOk, Upstream, FetchOk, Ok
<1>8. CASE CacheSingle(c)
  <2>1. /\ pc[c] = "cacheSingle" /\ pc[c] \notin PushPath
        /\ Put(c, SingleReference(c)) /\ SingleReference(c) \in NextReference(c)
        /\ IF Len(req[c].uris) > 1 THEN pc'[c] = "cacheList" ELSE response'[c] = Fetched(c)
    BY <1>0, <1>8 DEF CacheSingle, Goto, Reply, NextReference, PushPath
  <2>2. ~ Len(req[c].uris) > 1 /\ response'[c].uri = fetched[c].uri
    BY <2>1 DEF Ok, Fetched
  <2>3. SingleReference(c) = FetchReference(req[c], {fetched[c].uri})
    BY DEF SingleReference
  <2>4. Stored(c, FetchReference(req[c], {fetched[c].uri}))'
    <3> DEFINE ref == FetchReference(req[c], {fetched[c].uri})
    <3>1. fetched' = fetched
      BY <1>8 DEF CacheSingle, locals
    <3>2. FetchReference(req[c], {fetched[c].uri})' = ref
      BY <1>1, <3>1
    <3>3. QED
      BY <1>0, <2>1, <2>3, <3>2, PutIsStored DEF Stored
  <2>5. {fetched[c].uri} = UrisOf(req[c]) /\ fetched' = fetched
    BY <1>0, <1>5, <1>8, <2>1, <2>2 DEF DownloadedBy, CacheSingle, locals
  <2>6. QED
    BY <1>1, <1>3, <2>1, <2>2, <2>4, <2>5 DEF PushOk
<1>9. CASE CacheList(c)
  <2>1. /\ pc[c] = "cacheList" /\ pc[c] \notin PushPath /\ fetched' = fetched
        /\ Put(c, ListReference(c)) /\ ListReference(c) \in NextReference(c)
        /\ response'[c].uri = fetched[c].uri
    BY <1>0, <1>9 DEF CacheList, Reply, NextReference, PushPath, Fetched, locals
  <2>2. Stored(c, FetchReference(req[c], UrisOf(req[c])))'
    BY <1>0, <1>1, <2>1, PutIsStored DEF ListReference, Stored
  <2>3. Stored(c, SingleReference(c))
    BY <1>0, <2>1 DEF SoFar
  <2>4. Stored(c, FetchReference(req[c], {response[c].uri}))'
    BY <1>0, <1>1, <2>1, <2>3, StoredStays DEF SingleReference
  <2>5. QED
    BY <1>1, <1>3, <2>1, <2>2, <2>4 DEF PushOk
<1>10. CASE PushList(c)
  <2>1. /\ pc[c] = "pushList" /\ pc[c] \in PushPath
        /\ IF Len(req[c].uris) > 1 THEN pc'[c] = "pushEach" ELSE TRUE
    BY <1>0, <1>10 DEF PushList, Goto, PushPath
  <2>2. ~ Len(req[c].uris) > 1
    BY <2>1 DEF Ok
  <2>3. PushedList(c)'
    <3> DEFINE ref == PushReference(req[c], UrisOf(req[c]))
    <3>1. Put(c, ref) /\ ref \in NextReference(c)
      BY <1>10 DEF PushList, NextReference
    <3>2. PushReference(req[c], UrisOf(req[c]))' = ref
      BY <1>1
    <3>3. QED
      BY <1>0, <3>1, <3>2, PutIsStored DEF PushedList, Stored
  <2>4. PushedEach(c, UrisOf(req[c]))'
    BY <1>1, <1>5, <2>2, <2>3 DEF PushedList, PushedEach
  <2>5. QED
    BY <1>1, <1>3, <2>1, <2>3, <2>4 DEF Upstream, FetchOk
<1>11. CASE PushEach(c)
  <2>1. PICK u \in First(todo[c]) :
          Put(c, PushReference(req[c], {u})) /\ todo' = [todo EXCEPT ![c] = @ \ {u}]
    BY <1>11 DEF PushEach
  <2>2. /\ pc[c] = "pushEach" /\ pc[c] \in PushPath /\ todo'[c] = todo[c] \ {u} /\ todo'[c] = {}
        /\ PushReference(req[c], {u}) \in NextReference(c)
    BY <1>0, <1>11, <2>1 DEF PushEach, Reply, Ok, NextReference, PushPath, Typed, TypeOK
  <2>3. PushedList(c) /\ PushedEach(c, UrisOf(req[c]) \ todo[c])
    BY <1>0, <2>2 DEF SoFar
  <2>4. PushedList(c)'
    BY <1>0, <1>1, <2>3, StoredStays DEF PushedList
  <2>5. Stored(c, PushReference(req[c], {u}))'
    BY <1>0, <1>1, <2>1, <2>2, PutIsStored DEF Stored
  <2>6. PushedEach(c, UrisOf(req[c]))'
    <3>1. SUFFICES ASSUME NEW v \in UrisOf(req[c])
                   PROVE  Stored(c, PushReference(req[c], {v}))'
      BY <1>1 DEF PushedEach
    <3>2. CASE v = u
      BY <2>5, <3>2
    <3>3. CASE v # u
      <4>1. Stored(c, PushReference(req[c], {v}))
        BY <2>2, <2>3, <3>1, <3>3 DEF PushedEach
      <4>2. QED
        BY <1>0, <1>1, <4>1, StoredStays
    <3>4. QED
      BY <3>2, <3>3
  <2>7. QED
    BY <1>1, <1>3, <2>2, <2>4, <2>6 DEF Upstream, FetchOk
<1>12. QED
  BY <1>1, <1>6, <1>7, <1>8, <1>9, <1>10, <1>11

\* Success goes on standing for what was stored.
LEMMA KeepsOk ==
  ASSUME Puts, [Next]_vars
  PROVE  OkMeansStored'
<1>1. ASSUME NEW c \in Calls
      PROVE  /\ PushOk(c)' => PushedList(c)' /\ PushedEach(c, UrisOf(req[c]))'
             /\ Upstream(c)' /\ backend' # "none" =>
                  /\ Stored(c, FetchReference(req[c], {response[c].uri}))'
                  /\ Stored(c, FetchReference(req[c], UrisOf(req[c])))'
  <2>0. Typed
    BY DEF Puts
  <2>1. CASE pc[c] # "done"
    BY <2>1, WellEnded
  <2>2. CASE pc[c] = "done"
    <3>1. req'[c] = req[c] /\ response'[c] = response[c] /\ backend' = backend
      BY <2>0, <2>2, Settles DEF Settled
    <3>2. (PushOk(c)' => PushOk(c)) /\ (Upstream(c)' => Upstream(c))
      BY <2>2, <3>1 DEF PushOk, Upstream, FetchOk, Ok, IsFetch, IsPush
    <3>3. /\ PushOk(c) => PushedList(c) /\ PushedEach(c, UrisOf(req[c]))
          /\ Upstream(c) /\ backend # "none" =>
               /\ Stored(c, FetchReference(req[c], {response[c].uri}))
               /\ Stored(c, FetchReference(req[c], UrisOf(req[c])))
      BY DEF Puts, OkMeansStored, PushedList, PushedEach
    <3>4. PushedList(c) => PushedList(c)'
      BY <2>0, <3>1, StoredStays DEF PushedList
    <3>5. PushedEach(c, UrisOf(req[c])) => PushedEach(c, UrisOf(req[c]))'
      BY <2>0, <3>1, StoredStays DEF PushedEach
    <3>6. Stored(c, FetchReference(req[c], {response[c].uri}))
            => Stored(c, FetchReference(req[c], {response[c].uri}))'
      BY <2>0, <3>1, StoredStays
    <3>7. Stored(c, FetchReference(req[c], UrisOf(req[c])))
            => Stored(c, FetchReference(req[c], UrisOf(req[c])))'
      BY <2>0, <3>1, StoredStays
    <3>8. QED
      BY <3>1, <3>2, <3>3, <3>4, <3>5, <3>6, <3>7
  <2>3. QED
    BY <2>1, <2>2
<1>2. QED
  BY <1>1 DEF OkMeansStored, PushedList, PushedEach

-----------------------------------------------------------------------------
(* The invariants of the specification                                     *)

\* The invariant of which the others are consequences.
THEOREM PutsInvariant == Spec => []Puts
<1>1. Init => Puts
  <2> SUFFICES ASSUME Init PROVE Puts
    OBVIOUS
  <2>1. Typed
    BY TypedInit
  <2>2. PutsAreEntitled
    BY DEF Init, PutsAreEntitled, Made
  <2>3. Downloaded /\ PutsSoFar
    BY DEF Init, Downloaded, DownloadedBy, PutsSoFar, SoFar, PushPath
  <2>4. OkMeansStored /\ AnsweredIsAdmitted /\ AnsweredIsDownloaded
    BY DEF Init, OkMeansStored, AnsweredIsAdmitted, AnsweredIsDownloaded, PushOk, Upstream,
           FetchOk, Ok
  <2>5. QED
    BY <2>1, <2>2, <2>3, <2>4 DEF Puts
<1>2. Puts /\ [Next]_vars => Puts'
  <2> SUFFICES ASSUME Puts, [Next]_vars PROVE Puts'
    OBVIOUS
  <2>1. Typed'
    BY TypedNext DEF Puts
  <2>2. QED
    BY <2>1, KeepsEntitled, KeepsSoFar, KeepsOk, KeepsAnswered, KeepsDownload DEF Puts
<1>3. QED
  BY <1>1, <1>2, PTL DEF Spec

\* What the invariant says of an entry of the log.
LEMMA EntryIsEntitled ==
  ASSUME Puts, NEW i \in DOMAIN log
  PROVE  Entitled(log[i].call, log[i]) /\ log[i] \in LogEntry /\ log[i].call \in Calls
<1>1. log[i] \in LogEntry /\ Made(log[i])
  BY DEF Puts, Typed, TypeOK, Made
<1>2. QED
  BY <1>1 DEF Puts, PutsAreEntitled, LogEntry

\* No Put takes effect that the push authorizer, allow_updates_for_instances
\* or the fetch authorizer forbids, however late it arrives, and no asset
\* leaves an instance that is closed to fetches.
THEOREM AccessesAreAuthorized == Spec => []AccessIsAuthorized
<1>1. Puts => AccessIsAuthorized
  <2> SUFFICES ASSUME Puts PROVE AccessIsAuthorized
    OBVIOUS
  <2>1. ASSUME NEW i \in DOMAIN log
        PROVE  /\ log[i].ref.instance \in PushAuthorized
               /\ ByPush(i) => log[i].ref.instance \in AllowUpdates
               /\ ByFetch(i) => log[i].ref.instance \in FetchAuthorized
    BY EntryIsEntitled DEF Entitled, FetchedPut, PushedPut, ByPush, ByFetch
  <2>2. \A c \in Calls : FetchOk(c) => req[c].instance \in FetchAuthorized
    BY DEF Puts, AnsweredIsAdmitted
  <2>3. QED
    BY <2>1, <2>2 DEF AccessIsAuthorized
<1>2. QED
  BY PutsInvariant, <1>1, PTL

\* A fetch caches a reference only to content that it has uploaded, whatever
\* crashes and fails on the way.
THEOREM CachedContentsAreInCAS == Spec => []CachedContentIsInCAS
<1>1. Puts => CachedContentIsInCAS
  BY EntryIsEntitled DEF CachedContentIsInCAS, Entitled, FetchedPut, ByFetch
<1>2. QED
  BY PutsInvariant, <1>1, PTL

\* A fetch records what it downloaded under the URI it came from and under
\* the list, and under no other mirror.
THEOREM CachedUnderOwnUri == Spec => []CachedUnderItsOwnUri
<1>1. Puts => CachedUnderItsOwnUri
  BY EntryIsEntitled DEF CachedUnderItsOwnUri, Entitled, FetchedPut, ByFetch
<1>2. QED
  BY PutsInvariant, <1>1, PTL

\* A call that reports success has made all Puts that it stands for.
THEOREM SuccessMeansStored == Spec => []OkMeansStored
<1>1. Puts => OkMeansStored
  BY DEF Puts
<1>2. QED
  BY PutsInvariant, <1>1, PTL

\* A push that fails or dies half way leaves the list and the smallest of its
\* URIs, also when one of its Puts arrives late.
THEOREM PartialPushesArePrefixes == Spec => []PartialPushIsPrefix
<1>1. Puts => PartialPushIsPrefix
  <2> SUFFICES ASSUME Puts, NEW i \in DOMAIN log, ByPush(i),
                      NEW u \in log[i].ref.uris, log[i].ref.uris = {u}
               PROVE  LET c == log[i].call
                      IN  /\ PushedList(c)
                          /\ PushedEach(c, {v \in UrisOf(req[c]) : v < u})
    BY DEF PartialPushIsPrefix, PushedList, PushedEach
  <2> DEFINE c == log[i].call
             put == log[i]
  <2>1. Entitled(c, put) /\ put \in LogEntry /\ c \in Calls
    BY EntryIsEntitled
  <2>2. PushedPut(c, put) /\ req[c] \in Requests
    BY <2>1 DEF Entitled, ByPush, Puts, Typed, TypeOK, Putting, PushPath
  <2>3. \A uris : PushReference(req[c], uris).uris = uris
    BY DEF PushReference, NewAssetReference
  <2>4. CASE put.ref = PushReference(req[c], UrisOf(req[c]))
    <3>1. UrisOf(req[c]) = {u} /\ u \in Nat
      <4>1. UrisOf(req[c]) = {u}
        BY <2>3, <2>4
      <4>2. UrisOf(req[c]) \subseteq Nat
        BY <2>2, UrisOfType, UrisAssumption
      <4>3. QED
        BY <4>1, <4>2
    <3>2. PushedList(c)
      BY <2>4 DEF PushedList, Stored
    <3>3. {v \in UrisOf(req[c]) : v < u} = {}
      BY <3>1
    <3>4. QED
      BY <3>2, <3>3 DEF PushedEach
  <2>5. CASE \E w \in UrisOf(req[c]) :
               /\ put.ref = PushReference(req[c], {w})
               /\ PushedList(c)
               /\ PushedEach(c, {v \in UrisOf(req[c]) : v < w})
    <3>1. PICK w \in UrisOf(req[c]) :
               /\ put.ref = PushReference(req[c], {w})
               /\ PushedList(c)
               /\ PushedEach(c, {v \in UrisOf(req[c]) : v < w})
      BY <2>5
    <3>2. {w} = {u}
      BY <2>3, <3>1
    <3>3. QED
      BY <3>1, <3>2
  <2>6. QED
    BY <2>2, <2>4, <2>5 DEF PushedPut
<1>2. QED
  BY PutsInvariant, <1>1, PTL

-----------------------------------------------------------------------------
(* Real time                                                               *)

\* The Puts of a call take effect once it has begun ...
PutsFollowBeginning == \A i \in DOMAIN log : began[log[i].call] < i

\* ... and, if it succeeds, before anything begins after it.
PutsPrecedeLaterCalls ==
  \A c \in Calls : \A p \in before[c] :
    Ok(p) /\ \A i \in DOMAIN log : log[i].call = p => i <= began[c]

\* What is still in flight is of calls that have failed.
LatePutsFailed == \A put \in late : pc[put.call] = "done" /\ ~ Ok(put.call)

RealTime ==
  /\ Register
  /\ Puts
  /\ PutsFollowBeginning
  /\ PutsPrecedeLaterCalls
  /\ LatePutsFailed

\* A Put takes effect for a call that has begun and has not succeeded.
LEMMA Appends ==
  ASSUME RealTime, [Next]_vars
  PROVE  \/ UNCHANGED log
         \/ \E put \in LogEntry : Apply(put) /\ pc[put.call] # "idle" /\ ~ Ok(put.call)
<1>1. ASSUME NEW c \in Calls, Step(c), ~ UNCHANGED log
      PROVE  \E put \in LogEntry : Apply(put) /\ pc[put.call] # "idle" /\ ~ Ok(put.call)
  <2>1. TakesEffect(c)
    BY <1>1, StepMakes DEF IsGivenUp
  <2>2. PICK put : Makes(c, put) /\ Apply(put)
    BY <2>1 DEF TakesEffect
  <2>3. put \in LogEntry /\ put.call = c
    BY <2>2, NextIsEntitled DEF RealTime
  <2>4. Active(c)
    BY <1>1, StepLocal DEF RealTime, Register
  <2>5. pc[c] # "idle" /\ ~ Ok(c)
    BY <2>4 DEF Active, Running, MissPath, PushPath, Ok
  <2>6. QED
    BY <2>2, <2>3, <2>5
<1>2. CASE LatePut
  <2>1. PICK put \in late : Apply(put)
    BY <1>2 DEF LatePut
  <2>2. put \in LogEntry
    BY DEF RealTime, Register, Typed, TypeOK
  <2>3. QED
    BY <2>1, <2>2 DEF RealTime, LatePutsFailed
<1>3. ASSUME NEW c \in Calls, Arrive(c)
      PROVE  UNCHANGED log
  BY <1>3, ArriveLocal DEF RealTime, Register, data
<1>4. CASE Tick \/ Evict \/ Crash \/ Quiescent \/ UNCHANGED vars
  BY <1>4 DEF Tick, Evict, Crash, Quiescent, vars, data
<1>5. QED
  BY <1>1, <1>2, <1>3, <1>4 DEF Next

\* A new entry of the log, if there is one, is of a call that has begun and has
\* not succeeded.
LEMMA NewEntry ==
  ASSUME RealTime, [Next]_vars, NEW i \in DOMAIN log', i \notin DOMAIN log
  PROVE  /\ i = Len(log) + 1 /\ log'[i].call \in Calls
         /\ pc[log'[i].call] # "idle" /\ ~ Ok(log'[i].call)
<1>1. PICK put \in LogEntry : Apply(put) /\ pc[put.call] # "idle" /\ ~ Ok(put.call)
  BY Appends
<1>2. put.call \in Calls
  BY DEF LogEntry
<1>3. QED
  BY <1>1, <1>2, ApplyLog DEF RealTime, Register

\* What a handler gives up makes its call fail (cachingFetcher and
\* assetPushServer return the error of a Put).
LEMMA GivenUpFails ==
  ASSUME Typed, NEW c \in Calls, Step(c), NEW put \in late', put \notin late
  PROVE  put.call = c /\ pc'[c] = "done" /\ ~ Ok(c)'
<1>1. CASE LookupHit(c) \/ LookupMiss(c) \/ FetchFails(c) \/ Download(c) \/ Upload(c)
             \/ UploadFails(c) \/ PutRefused(c)
  BY <1>1 DEF LookupHit, LookupMiss, FetchFails, Download, Upload, UploadFails, PutRefused
<1>2. CASE CacheSingle(c) \/ CacheList(c) \/ PushStep(c)
  BY <1>2 DEF CacheSingle, CacheList, PushStep, PushList, PushEach, Put
<1>3. CASE PutFails(c)
  <2>1. put.call = c
    BY <1>3 DEF PutFails, Put, PutOf
  <2>2. pc'[c] = "done" /\ response'[c].code = "Unavailable"
    BY <1>3 DEF PutFails, Reply, Goto, Error, Typed, TypeOK
  <2>3. QED
    BY <2>1, <2>2 DEF Ok
<1>4. QED
  BY <1>1, <1>2, <1>3 DEF Step, FetchStep

\* Success is final.
LEMMA OkStays ==
  ASSUME Typed, [Next]_vars, NEW c \in Calls, pc[c] = "done"
  PROVE  pc'[c] = "done" /\ (Ok(c)' <=> Ok(c))
BY Settles DEF Settled, Ok

\* Every step keeps the order of beginnings, Puts and ends.
LEMMA RealTimeNext ==
  ASSUME RealTime, [Next]_vars
  PROVE  (PutsFollowBeginning /\ PutsPrecedeLaterCalls /\ LatePutsFailed)'
<1>0. Typed /\ Puts /\ BeganBefore
  BY DEF RealTime, Register
<1>1. PutsFollowBeginning'
  <2> SUFFICES ASSUME NEW i \in DOMAIN log'
               PROVE  began'[log'[i].call] < i
    BY DEF PutsFollowBeginning
  <2>1. CASE i \in DOMAIN log
    <3>1. log'[i] = log[i] /\ log[i].call \in Calls /\ pc[log[i].call] # "idle"
      BY <1>0, <2>1, LogGrows, EntryIsEntitled DEF Entitled, Putting, PushPath
    <3>2. began'[log[i].call] = began[log[i].call]
      BY <1>0, <3>1, Settles DEF Settled
    <3>3. QED
      BY <2>1, <3>1, <3>2 DEF RealTime, PutsFollowBeginning
  <2>2. CASE i \notin DOMAIN log
    <3>1. /\ i = Len(log) + 1 /\ log'[i].call \in Calls
          /\ pc[log'[i].call] # "idle"
      BY <2>2, NewEntry
    <3>2. began'[log'[i].call] = began[log'[i].call]
      BY <1>0, <3>1, Settles DEF Settled
    <3>3. began[log'[i].call] <= Len(log) /\ began[log'[i].call] \in Nat /\ Len(log) \in Nat
      BY <1>0, <3>1 DEF BeganBefore, Typed, TypeOK
    <3>4. QED
      BY <3>1, <3>2, <3>3
  <2>3. QED
    BY <2>1, <2>2
<1>2. PutsPrecedeLaterCalls'
  <2> SUFFICES ASSUME NEW c \in Calls, NEW p \in before'[c]
               PROVE  Ok(p)' /\ \A i \in DOMAIN log' : log'[i].call = p => i <= began'[c]
    BY DEF PutsPrecedeLaterCalls
  <2>1. \/ began'[c] = began[c] /\ before'[c] = before[c]
        \/ began'[c] = Len(log) /\ before'[c] = Succeeded
    BY <1>0, Settles DEF Settled
  <2>2. p \in Calls /\ Ok(p)
    BY <1>0, <2>1 DEF RealTime, PutsPrecedeLaterCalls, Succeeded, Typed, TypeOK
  <2>3. Ok(p)'
    BY <1>0, <2>2, OkStays DEF Ok
  <2>4. ASSUME NEW i \in DOMAIN log', log'[i].call = p
        PROVE  i <= began'[c]
    <3>1. i \in DOMAIN log
      BY <2>2, <2>4, NewEntry
    <3>2. log[i].call = p /\ i <= Len(log)
      BY <1>0, <2>4, <3>1, LogGrows
    <3>3. QED
      BY <2>1, <3>1, <3>2 DEF RealTime, PutsPrecedeLaterCalls
  <2>5. QED
    BY <2>3, <2>4
<1>3. LatePutsFailed'
  <2> SUFFICES ASSUME NEW put \in late'
               PROVE  pc'[put.call] = "done" /\ ~ Ok(put.call)'
    BY DEF LatePutsFailed
  <2>1. CASE put \in late
    <3>1. put.call \in Calls
      BY <1>0, <2>1 DEF Typed, TypeOK, LogEntry
    <3>2. pc[put.call] = "done" /\ ~ Ok(put.call)
      BY <2>1 DEF RealTime, LatePutsFailed
    <3>3. QED
      BY <1>0, <3>1, <3>2, OkStays
  <2>2. CASE put \notin late
    <3>1. ASSUME NEW c \in Calls, Step(c)
          PROVE  pc'[put.call] = "done" /\ ~ Ok(put.call)'
      BY <1>0, <2>2, <3>1, GivenUpFails
    <3>2. ASSUME NEW c \in Calls, Arrive(c)
          PROVE  UNCHANGED late
      BY <3>2 DEF Arrive, Refuse, BeginFetch, BeginPush, Receive
    <3>3. CASE Tick \/ LatePut \/ Evict \/ Crash \/ Quiescent \/ UNCHANGED vars
      BY <2>2, <3>3 DEF Tick, LatePut, Evict, Crash, Quiescent, vars
    <3>4. QED
      BY <2>2, <3>1, <3>2, <3>3 DEF Next
  <2>3. QED
    BY <2>1, <2>2
<1>4. QED
  BY <1>1, <1>2, <1>3

\* Puts take effect between the beginning and the end of a call that succeeds,
\* and after the end only of one that has failed.
THEOREM RealTimeInvariant == Spec => []RealTime
<1>1. Init => PutsFollowBeginning /\ PutsPrecedeLaterCalls /\ LatePutsFailed
  BY DEF Init, PutsFollowBeginning, PutsPrecedeLaterCalls, LatePutsFailed
<1>2. Register /\ Puts /\ Register' /\ Puts' /\ [Next]_vars
        /\ PutsFollowBeginning /\ PutsPrecedeLaterCalls /\ LatePutsFailed
      => (PutsFollowBeginning /\ PutsPrecedeLaterCalls /\ LatePutsFailed)'
  BY RealTimeNext DEF RealTime
<1>3. QED
  BY <1>1, <1>2, RegisterInvariant, PutsInvariant, PTL DEF Spec, RealTime

\* A fetch that begins when a call has reported success is not answered with
\* what a call had stored that succeeded before that one began: the Puts of a
\* handler are over when it answers (cachingFetcher, assetPushServer), so that
\* only overlapping and failed calls can overwrite what is newer.
THEOREM HitsRespectRealTime == Spec => []HitRespectsRealTime
<1>1. RealTime /\ HitIsCurrent => HitRespectsRealTime
  <2> SUFFICES ASSUME RealTime, HitIsCurrent, NEW c \in Calls, Hit(c)
               PROVE  \E i \in ServedBy(c) : \A p \in before[c] :
                        (\E j \in DOMAIN log :
                           log[j].call = p /\ Key(log[j].ref) = Key(log[i].ref))
                          => log[i].call \notin before[p]
    BY DEF HitRespectsRealTime
  <2>1. PICK i \in ServedBy(c) :
          \A j \in DOMAIN log :
            i < j /\ j <= began[c] => Key(log[j].ref) # Key(log[i].ref)
    BY DEF HitIsCurrent
  <2>2. SUFFICES ASSUME NEW p \in before[c], NEW j \in DOMAIN log,
                        log[j].call = p, Key(log[j].ref) = Key(log[i].ref),
                        log[i].call \in before[p]
                 PROVE  FALSE
    BY <2>1
  <2>3. p \in Calls /\ i \in DOMAIN log
    BY <2>1 DEF ServedBy, RealTime, Register, Typed, TypeOK
  <2>4. i \in Nat /\ j \in Nat /\ began[c] \in Nat /\ began[p] \in Nat
    <3>1. log \in Seq(LogEntry) /\ began \in [Calls -> Nat]
      BY DEF RealTime, Register, Typed, TypeOK
    <3>2. QED
      BY <2>3, <3>1
  <2>5. j <= began[c]
    BY <2>2 DEF RealTime, PutsPrecedeLaterCalls
  <2>6. j <= i
    BY <2>1, <2>2, <2>4, <2>5
  <2>7. i <= began[p]
    BY <2>2, <2>3 DEF RealTime, PutsPrecedeLaterCalls
  <2>8. began[p] < j
    BY <2>2 DEF RealTime, PutsFollowBeginning
  <2>9. QED
    BY <2>4, <2>6, <2>7, <2>8
<1>2. QED
  BY <1>1, RealTimeInvariant, HitsAreCurrent, PTL
===============================================================================
