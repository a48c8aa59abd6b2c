--------------------------- MODULE RemoteAssetProofs ---------------------------
(***************************************************************************)
(* Theorems about RemoteAsset and their proofs.                            *)
(***************************************************************************)
EXTENDS RemoteAsset, TLAPS

-----------------------------------------------------------------------------
(* Requests and references                                                 *)

\* The fields of a request have their types.
LEMMA RequestType ==
  ASSUME NEW r \in Requests
  PROVE  /\ IsFetch(r) => r \in FetchRequest
         /\ IsPush(r) => r \in PushRequest
         /\ IsFetch(r) \/ IsPush(r)
         /\ r.instance \in Instances
         /\ r.function \in FunctionField
         /\ r.uris \in Seq(Uris)
         /\ r.qualifiers \subseteq Qualifiers
<1>1. r \in FetchRequest \/ r \in PushRequest
  BY RequestsAssumption
<1>2. CASE r \in FetchRequest
  BY <1>2 DEF FetchRequest, IsFetch, IsPush, FetchOps, PushOps, UriList
<1>3. CASE r \in PushRequest
  BY <1>3 DEF PushRequest, IsFetch, IsPush, FetchOps, PushOps, UriList
<1>4. QED
  BY <1>1, <1>2, <1>3

\* The URIs of a request as a set.
LEMMA UrisOfType ==
  ASSUME NEW r \in Requests
  PROVE  /\ UrisOf(r) \subseteq Uris
         /\ \A k \in 1 .. Len(r.uris) : r.uris[k] \in UrisOf(r)
         /\ \A u \in UrisOf(r) : \E k \in 1 .. Len(r.uris) : u = r.uris[k]
         /\ r.uris # << >> => UrisOf(r) # {} /\ Len(r.uris) > 0
         /\ Len(r.uris) = 1 => UrisOf(r) = {r.uris[1]}
<1> DEFINE s == r.uris
<1>1. s \in Seq(Uris)
  BY RequestType
<1>2. UrisOf(r) = {s[k] : k \in 1 .. Len(s)}
  BY <1>1 DEF UrisOf, Range
<1> HIDE DEF s
<1>3. s # << >> => Len(s) > 0
  BY <1>1
<1>4. \A k \in 1 .. Len(s) : s[k] \in Uris /\ s[k] \in UrisOf(r)
  BY <1>1, <1>2
<1>5. \A u \in UrisOf(r) : \E k \in 1 .. Len(s) : u = s[k]
  BY <1>2
<1>6. Len(s) > 0 => s[1] \in UrisOf(r)
  BY <1>1, <1>4
<1>7. Len(s) = 1 => UrisOf(r) = {s[1]}
  BY <1>1, <1>4, <1>5
<1>8. UrisOf(r) \subseteq Uris
  BY <1>4, <1>5
<1>9. QED
  BY <1>3, <1>4, <1>5, <1>6, <1>7, <1>8 DEF s

\* A request that is admitted has URIs.
LEMMA AdmittedUris ==
  ASSUME NEW r \in Requests, Refusal(r) = "Admitted"
  PROVE  r.uris # << >>
BY RequestType DEF Refusal, PushRefusal, CachingRefusal, ErrorPushServer, Invalid, IsFetch, IsPush, FetchOps, PushOps

\* Where there is an asset cache, an admitted request stores under well-formed
\* references.
LEMMA ReferenceType ==
  ASSUME NEW r \in Requests, Refusal(r) = "Admitted", backend # "none",
         NEW uris \in SUBSET Uris
  PROVE  /\ DigestFunction(r) \in DigestFunctions
         /\ FetchReference(r, uris) \in Reference
         /\ PushReference(r, uris) \in Reference
<1>1. r.function # "UNSUPPORTED"
  BY RequestType DEF Refusal, PushRefusal, CachingRefusal, ErrorPushServer, IsFetch, IsPush, FetchOps, PushOps
<1>2. r.function \in FunctionField /\ r.instance \in Instances
      /\ r.qualifiers \subseteq Qualifiers /\ (IsFetch(r) \/ IsPush(r))
  BY RequestType
<1>3. IsPush(r) => HashFunction[r.digest] \in DigestFunctions
  BY RequestType, DigestsAssumption DEF PushRequest
<1>4. DigestFunction(r) \in DigestFunctions
  BY <1>1, <1>2, <1>3, DigestsAssumption DEF FunctionField, DigestFunction, FetchFunction, PushFunction
<1>5. QED
  BY <1>1, <1>2, <1>4
     DEF FetchReference, PushReference, NewAssetReference, Reference,
         removeVolatileQualifiers

\* NewBlobAsset and NewDirectoryAsset make an asset.
LEMMA NewAssetType ==
  ASSUME NEW r \in Requests, NEW d \in Digests,
         NEW expire \in Nat, NEW time \in Nat
  PROVE  NewAsset(r, d, expire, time) \in Asset
BY DEF NewAsset, Asset, TypeOf, AssetType

-----------------------------------------------------------------------------
(* Type correctness                                                        *)

\* A call that is being served carries an admitted request of its own
\* service, a lookup is at one of its URIs, and without an asset cache there
\* are only the steps of the wrapped fetcher.
Admitted ==
  \A c \in Calls :
    /\ pc[c] = "idle" => index[c] = 1
    /\ Active(c) =>
         /\ Refusal(req[c]) = "Admitted"
         /\ IF pc[c] \in PushPath THEN IsPush(req[c]) ELSE IsFetch(req[c])
         /\ pc[c] = "lookup" => index[c] <= Len(req[c].uris)
         /\ backend = "none" => pc[c] \in {"fetch", "upload"}

Typed == TypeOK /\ Admitted

\* What a typed state says of one call.
LEMMA CallType ==
  ASSUME Typed, NEW c \in Calls
  PROVE  /\ pc[c] # "idle" => req[c] \in Requests
         /\ Active(c) => /\ req[c].uris # << >>
                         /\ UrisOf(req[c]) \subseteq Uris
         /\ NextReference(c) # {} => Active(c) /\ draft[c] \in Asset
         /\ NextReference(c) \subseteq Reference
         /\ pc[c] = "lookup" => LookupReference(c) \in Reference
<1>1. pc[c] # "idle" => req[c] \in Requests
  BY DEF Typed, TypeOK
<1>2. Active(c) => /\ req[c] \in Requests
                   /\ Refusal(req[c]) = "Admitted"
  BY <1>1 DEF Typed, Admitted, Active, Running, MissPath, PushPath
<1>3. Active(c) => /\ req[c].uris # << >>
                   /\ UrisOf(req[c]) \subseteq Uris
  BY <1>2, AdmittedUris, UrisOfType
<1>4. NextReference(c) # {} =>
        pc[c] \in {"cacheSingle", "cacheList", "pushList", "pushEach"}
  BY DEF NextReference
<1>5. NextReference(c) # {} => Active(c) /\ draft[c] \in Asset
  BY <1>4 DEF Typed, TypeOK, Active, Running, MissPath, PushPath
<1>6. NextReference(c) \subseteq Reference
  <2>1. CASE pc[c] \in {"cacheSingle", "cacheList"}
    <3>1. Active(c) /\ fetched[c].uri \in Uris /\ backend # "none"
      BY <2>1 DEF Typed, TypeOK, Admitted, Content, Active, Running, MissPath
    <3>2. SingleReference(c) \in Reference /\ ListReference(c) \in Reference
      BY <1>2, <1>3, <3>1, ReferenceType DEF SingleReference, ListReference
    <3>3. QED
      BY <2>1, <3>2 DEF NextReference
  <2>2. CASE pc[c] \in PushPath
    <3>1. Active(c) /\ todo[c] \subseteq Uris /\ backend # "none"
      BY <2>2 DEF Typed, TypeOK, Admitted, Active, Running, PushPath
    <3>2. \A uris \in SUBSET Uris : PushReference(req[c], uris) \in Reference
      BY <1>2, <3>1, ReferenceType
    <3>3. First(todo[c]) \subseteq Uris
      BY <3>1 DEF First
    <3>4. QED
      BY <2>2, <1>3, <3>1, <3>2, <3>3 DEF NextReference, PushPath
  <2>3. CASE pc[c] \notin {"cacheSingle", "cacheList"} \cup PushPath
    BY <2>3 DEF NextReference, PushPath
  <2>4. QED
    BY <2>1, <2>2, <2>3
<1>7. pc[c] = "lookup" => LookupReference(c) \in Reference
  <2> SUFFICES ASSUME pc[c] = "lookup"
               PROVE  LookupReference(c) \in Reference
    OBVIOUS
  <2>1. Active(c) /\ backend # "none"
    BY DEF Active, Running, Typed, Admitted
  <2>2. index[c] \in 1 .. Len(req[c].uris)
    <3>1. index[c] \in Nat \ {0} /\ index[c] <= Len(req[c].uris)
      BY <2>1 DEF Typed, TypeOK, Admitted
    <3>2. Len(req[c].uris) \in Nat
      BY <1>2, <2>1, RequestType
    <3>3. QED
      BY <3>1, <3>2
  <2>3. {req[c].uris[index[c]]} \in SUBSET Uris
    BY <1>2, <1>3, <2>1, <2>2, UrisOfType
  <2>4. QED
    BY <1>2, <2>1, <2>3, ReferenceType DEF LookupReference
<1>8. QED
  BY <1>1, <1>3, <1>5, <1>6, <1>7

\* What an asset is known by is a reference again, with no more qualifiers.
LEMMA KeyType ==
  ASSUME NEW ref \in Reference
  PROVE  /\ Key(ref) \in Reference
         /\ Key(ref).qualifiers \subseteq ref.qualifiers
<1>1. ActionQualifiers(ref) \subseteq ref.qualifiers
  BY DEF ActionQualifiers
<1>2. QED
  BY <1>1 DEF Key, Reference

\* A Put of a typed asset under a well-formed reference.
LEMMA ApplyType ==
  ASSUME TypeOK, NEW put \in LogEntry, Apply(put)
  PROVE  /\ DOMAIN store' = DOMAIN store \cup {Key(put.ref)}
         /\ DOMAIN store' \subseteq Reference
         /\ \A x \in DOMAIN store' : store'[x] \in Asset
         /\ log' \in Seq(LogEntry)
<1>1. Key(put.ref) \in Reference /\ put.asset \in Asset
  BY KeyType DEF LogEntry
<1>2. DOMAIN store' = DOMAIN store \cup {Key(put.ref)}
  BY DEF Apply
<1>3. \A x \in DOMAIN store' : store'[x] \in Asset
  BY <1>1 DEF Apply, TypeOK
<1>4. log' \in Seq(LogEntry)
  BY DEF Apply, TypeOK
<1>5. QED
  BY <1>1, <1>2, <1>3, <1>4 DEF TypeOK

\* What a call stores is an entry of the log.
LEMMA PutOfType ==
  ASSUME NEW c \in Calls, NEW ref \in Reference, draft[c] \in Asset
  PROVE  PutOf(c, ref) \in LogEntry
BY DEF PutOf, LogEntry

\* The service starts well typed, with an empty store and no call running.
LEMMA TypedInit == Init => Typed
<1> SUFFICES ASSUME Init PROVE Typed
  OBVIOUS
<1>1. TypeOK
  BY MaxTimeAssumption
     DEF Init, TypeOK, Running, MissPath, PushPath
<1>2. Admitted
  BY DEF Init, Admitted, Active, Running, MissPath, PushPath
<1>3. QED
  BY <1>1, <1>2 DEF Typed

\* The errors that a running call returns are responses.
LEMMA ErrorType ==
  ASSUME NEW code \in Codes
  PROVE  Error(code) \in Response
BY DEF Error, Response

\* What is recorded of a call that begins.
LEMMA RecordType ==
  ASSUME TypeOK, NEW c \in Calls, Record(c)
  PROVE  began' \in [Calls -> Nat] /\ before' \in [Calls -> SUBSET Calls]
<1>1. Len(log) \in Nat /\ Succeeded \in SUBSET Calls
  BY DEF TypeOK, Succeeded
<1>2. QED
  BY <1>1 DEF Record, TypeOK

\* A request arrives.
LEMMA TypedArrive ==
  ASSUME Typed, NEW c \in Calls, Arrive(c)
  PROVE  Typed'
<1>0. PICK r \in Requests : Refuse(c, r) \/ BeginFetch(c, r) \/ BeginPush(c, r)
  BY DEF Arrive
<1> USE DEF Receive, Goto, Reply, data
<1>1. CASE Refuse(c, r)
  <2>1. Refusal(r) \in Codes
    BY <1>1 DEF Refuse, Refusal, PushRefusal, CachingRefusal, ErrorPushServer, Codes
  <2>2. Error(Refusal(r)) \in Response
    BY <2>1, ErrorType
  <2> HIDE DEF Receive, Goto, Reply
  <2>3. TypeOK'
    BY <1>1, <2>2
       DEF Refuse, Receive, Reply, Goto, Typed, TypeOK, Running, MissPath, PushPath
  <2>4. Admitted'
    <3>1. /\ UNCHANGED <<backend, index>> /\ pc'[c] = "done"
          /\ \A d \in Calls \ {c} : pc'[d] = pc[d] /\ req'[d] = req[d]
      BY <1>1 DEF Refuse, Receive, Reply, Goto, Typed, TypeOK
    <3>2. QED
      BY <3>1 DEF Typed, Admitted, Active, Running, MissPath, PushPath,
                  Refusal, PushRefusal, CachingRefusal, ErrorPushServer, Unauthorized, Invalid
  <2>5. QED
    BY <2>3, <2>4 DEF Typed
<1>2. CASE BeginFetch(c, r)
  <2>1. TypeOK'
    BY <1>2, RecordType DEF BeginFetch, Typed, TypeOK, Running, MissPath, PushPath
  <2>2. Len(r.uris) >= 1 /\ Len(r.uris) \in Nat
    <3>1. r.uris # << >>
      BY <1>2, AdmittedUris DEF BeginFetch
    <3>2. QED
      BY <3>1, UrisOfType, RequestType
  <2>3. Admitted'
    BY <1>2, <2>2
       DEF BeginFetch, Typed, TypeOK, Admitted, Active, Running, MissPath, PushPath,
           Refusal, PushRefusal, CachingRefusal, ErrorPushServer, Invalid, Unauthorized
  <2>4. QED
    BY <2>1, <2>3 DEF Typed
<1>3. CASE BeginPush(c, r)
  <2>1. UrisOf(r) \subseteq Uris
    BY UrisOfType
  <2>2. r.digest \in Digests /\ r.expire \in Nat
    BY <1>3, RequestType DEF BeginPush, PushRequest
  <2>3. NewAsset(r, r.digest, r.expire, now) \in Asset
    BY <2>2, NewAssetType DEF Typed, TypeOK
  <2>4. TypeOK'
    BY <1>3, <2>1, <2>3, RecordType DEF BeginPush, Typed, TypeOK, Running, MissPath, PushPath
  <2>5. backend # "none"
    BY <1>3 DEF BeginPush, Refusal, PushRefusal, CachingRefusal, ErrorPushServer
  <2>6. Admitted'
    BY <1>3, <2>5
       DEF BeginPush, Typed, TypeOK, Admitted, Active, Running, MissPath, PushPath,
           Refusal, PushRefusal, CachingRefusal, ErrorPushServer, Invalid, Unauthorized
  <2>7. QED
    BY <2>4, <2>6 DEF Typed
<1>4. QED
  BY <1>0, <1>1, <1>2, <1>3

\* A step of a call that leaves its request alone and ends it or moves it
\* on within the same service keeps it admitted.
LEMMA AdmittedStep ==
  ASSUME Typed, NEW c \in Calls, Active(c), UNCHANGED <<backend, req>>,
         NEW l \in Running \cup {"done"}, pc' = [pc EXCEPT ![c] = l],
         l = "done" \/ (l \in PushPath <=> pc[c] \in PushPath),
         \/ UNCHANGED index
         \/ l = "lookup" /\ index' = [index EXCEPT ![c] = index[c] + 1],
         l = "lookup" => index'[c] <= Len(req[c].uris),
         backend = "none" => l \in {"fetch", "upload", "done"}
  PROVE  Admitted'
<1> SUFFICES ASSUME NEW d \in Calls
             PROVE  /\ pc'[d] = "idle" => index'[d] = 1
                    /\ Active(d)' =>
                         /\ Refusal(req[d]) = "Admitted"
                         /\ IF pc'[d] \in PushPath THEN IsPush(req[d]) ELSE IsFetch(req[d])
                         /\ pc'[d] = "lookup" => index'[d] <= Len(req[d].uris)
                         /\ backend = "none" => pc'[d] \in {"fetch", "upload"}
  BY DEF Admitted, Active, Refusal, PushRefusal, CachingRefusal, ErrorPushServer, Unauthorized, Invalid
<1>1. CASE d = c
  BY <1>1 DEF Typed, TypeOK, Admitted, Active, Running, MissPath, PushPath
<1>2. CASE d # c
  BY <1>2 DEF Typed, TypeOK, Admitted, Active
<1>3. QED
  BY <1>1, <1>2

\* A call ends.
LEMMA TypedReply ==
  ASSUME Typed, NEW c \in Calls, Active(c), NEW m \in Response, Reply(c, m),
         uploaded' = uploaded \/ uploaded' \in SUBSET Digests,
         late' = late \/ late' \in SUBSET LogEntry,
         UNCHANGED <<fixed, now, data, req, locals>>
  PROVE  Typed'
<1>1. TypeOK'
  BY DEF Reply, Goto, Typed, TypeOK, Active, Running, MissPath, PushPath, data, locals, fixed
<1>2. Admitted'
  BY AdmittedStep DEF Reply, Goto, locals, fixed, Running
<1>3. QED
  BY <1>1, <1>2 DEF Typed

\* getAndCheckAsset and the loop over the URIs around it.
LEMMA TypedLookup ==
  ASSUME Typed, NEW c \in Calls, LookupHit(c) \/ LookupMiss(c)
  PROVE  Typed'
<1> SUFFICES ASSUME pc[c] = "lookup"
             PROVE  Typed'
  BY DEF LookupHit, LookupMiss
<1>1. Active(c) /\ backend # "none"
  BY DEF Active, Running, Typed, Admitted
<1>2. index[c] \in 1 .. Len(req[c].uris) /\ Len(req[c].uris) \in Nat
  BY <1>1, CallType, RequestType DEF Typed, TypeOK, Admitted
<1>3. CASE LookupHit(c)
  <2>1. req[c].uris[index[c]] \in Uris
    BY <1>1, <1>2, CallType, UrisOfType
  <2>2. store[LookupKey(c)] \in Asset
    BY <1>3 DEF LookupHit, Typed, TypeOK
  <2>3. Retrieved(store[LookupKey(c)]).digest \in Digests
    BY <2>2 DEF Retrieved, Asset
  <2>4. [code |-> "OK", from |-> "cache", at |-> now,
         uri |-> req[c].uris[index[c]],
         digest |-> Retrieved(store[LookupKey(c)]).digest] \in Response
    BY <2>1, <2>3 DEF Response, Typed, TypeOK
  <2>5. QED
    BY <1>1, <1>3, <2>4, TypedReply DEF LookupHit
<1>4. CASE LookupMiss(c)
  <2>1. TypeOK'
    <3>1. index' \in [Calls -> Nat \ {0}]
      <4>1. index \in [Calls -> Nat \ {0}] /\ index[c] + 1 \in Nat \ {0}
        BY DEF Typed, TypeOK
      <4>2. index' = index \/ index' = [index EXCEPT ![c] = index[c] + 1]
        BY <1>4 DEF LookupMiss, NextUri
      <4>3. QED
        BY <4>1, <4>2
    <3>2. pc' \in [Calls -> Running \cup {"idle", "done"}]
      BY <1>4 DEF LookupMiss, Goto, Typed, TypeOK, Running, MissPath
    <3>3. pc'[c] \in {"lookup", "fetch"} /\ \A d \in Calls \ {c} : pc'[d] = pc[d]
      BY <1>4 DEF LookupMiss, Goto, Typed, TypeOK
    <3>4. QED
      BY <1>4, <3>1, <3>2, <3>3 DEF LookupMiss, Typed, TypeOK, PushPath, data, fixed
  <2>2. Admitted'
    <3>1. CASE HasMoreUris(c)
      <4>1. index'[c] <= Len(req[c].uris)
        BY <1>2, <1>4, <3>1 DEF LookupMiss, HasMoreUris, NextUri, Typed, TypeOK
      <4>2. pc' = [pc EXCEPT ![c] = "lookup"]
        BY <1>4, <3>1 DEF LookupMiss, Typed, TypeOK
      <4>3. QED
        BY <1>1, <1>4, <3>1, <4>1, <4>2, AdmittedStep
           DEF LookupMiss, NextUri, Running, PushPath, fixed
    <3>2. CASE ~ HasMoreUris(c)
      BY <1>1, <1>4, <3>2, AdmittedStep
         DEF LookupMiss, Goto, Running, MissPath, PushPath, fixed
    <3>3. QED
      BY <3>1, <3>2
  <2>3. QED
    BY <2>1, <2>2 DEF Typed
<1>5. QED
  BY <1>3, <1>4 DEF LookupHit, LookupMiss

\* The wrapped fetcher: its failure, its download and its upload to the CAS.
LEMMA TypedUpstream ==
  ASSUME Typed, NEW c \in Calls,
         FetchFails(c) \/ Download(c) \/ Upload(c) \/ UploadFails(c)
  PROVE  Typed'
<1>1. Active(c)
  BY DEF FetchFails, Download, Upload, UploadFails, Active, Running, MissPath
<1>2. CASE FetchFails(c)
  <2>1. PICK code \in UpstreamErrors : Reply(c, Error(code))
    BY <1>2 DEF FetchFails
  <2>2. Error(code) \in Response
    BY ErrorType DEF Codes
  <2>3. QED
    BY <1>1, <1>2, <2>1, <2>2, TypedReply DEF FetchFails
<1>3. CASE UploadFails(c)
  <2>1. uploaded' \in SUBSET Digests
    BY <1>3 DEF UploadFails, Typed, TypeOK, Content
  <2>2. QED
    BY <1>1, <1>3, <2>1, ErrorType, TypedReply DEF UploadFails, Codes
<1>4. CASE Download(c)
  <2>1. PICK u \in UrisOf(req[c]), d \in Digests :
          fetched' = [fetched EXCEPT ![c] = [uri |-> u, digest |-> d]]
    BY <1>4 DEF Download
  <2>2. [uri |-> u, digest |-> d] \in Content
    BY <1>1, CallType DEF Content
  <2>3. TypeOK'
    BY <1>4, <2>1, <2>2
       DEF Download, Goto, Typed, TypeOK, Running, MissPath, PushPath, data, fixed
  <2>4. Admitted'
    BY <1>1, <1>4, AdmittedStep DEF Download, Goto, Running, MissPath, PushPath, fixed
  <2>5. QED
    BY <2>3, <2>4 DEF Typed
<1>5. CASE Upload(c)
  <2>1. fetched[c].digest \in Digests
    BY <1>5 DEF Upload, Typed, TypeOK, Content
  <2>2. CASE backend = "none"
    <3>1. Fetched(c) \in Response
      BY <1>5 DEF Upload, Typed, TypeOK, Content, Fetched, Response
    <3>2. uploaded' \in SUBSET Digests
      BY <1>5, <2>1 DEF Upload, Typed, TypeOK
    <3>3. QED
      BY <1>1, <1>5, <2>2, <3>1, <3>2, TypedReply DEF Upload, locals
  <2>3. CASE backend # "none"
    <3>1. NewAsset(req[c], fetched[c].digest, 0, now) \in Asset
      <4>1. req[c] \in Requests /\ now \in Nat /\ 0 \in Nat
        BY <1>5 DEF Upload, Typed, TypeOK
      <4>2. QED
        BY <2>1, <4>1, NewAssetType
    <3>2. TypeOK'
      <4>1. /\ pc[c] = "upload" /\ pc' = [pc EXCEPT ![c] = "cacheSingle"]
            /\ uploaded' = uploaded \cup {fetched[c].digest}
            /\ draft' = [draft EXCEPT ![c] = NewAsset(req[c], fetched[c].digest, 0, now)]
            /\ UNCHANGED <<backend, began, before, now, store, log, late, req, index, fetched,
                           todo, response>>
        BY <1>5, <2>3 DEF Upload, Goto, data, fixed
      <4>2. /\ pc' \in [Calls -> Running \cup {"idle", "done"}]
            /\ uploaded' \subseteq Digests
            /\ draft' \in [Calls -> Asset \cup {None}] /\ draft'[c] \in Asset
            /\ \A d \in Calls \ {c} : pc'[d] = pc[d] /\ draft'[d] = draft[d]
        BY <2>1, <3>1, <4>1 DEF Typed, TypeOK, Running, MissPath
      <4>3. QED
        BY <4>1, <4>2 DEF Typed, TypeOK, PushPath
    <3>3. Admitted'
      BY <1>1, <1>5, <2>3, AdmittedStep DEF Upload, Goto, Running, MissPath, PushPath, fixed
    <3>4. QED
      BY <3>2, <3>3 DEF Typed
  <2>4. QED
    BY <2>2, <2>3
<1>6. QED
  BY <1>2, <1>3, <1>4, <1>5

\* A call makes one of its Puts and moves on, with the same draft or a new
\* one, or ends.
LEMMA TypedPut ==
  ASSUME Typed, NEW c \in Calls, NEW ref \in NextReference(c), Put(c, ref),
         UNCHANGED <<fixed, now, uploaded, req, index, fetched>>,
         NEW l \in Running \cup {"done"}, pc' = [pc EXCEPT ![c] = l],
         l \in {"done"} \/ (pc[c] = "cacheSingle" /\ l = "cacheList")
           \/ (pc[c] \in PushPath /\ l = "pushEach"),
         response' = response \/ \E m \in Response : response' = [response EXCEPT ![c] = m],
         draft' = draft \/ \E x \in Asset : draft' = [draft EXCEPT ![c] = x],
         \E uris \in SUBSET todo[c] : todo' = [todo EXCEPT ![c] = uris]
  PROVE  Typed'
<1>1. Active(c) /\ draft[c] \in Asset /\ ref \in Reference
  BY CallType
<1>2. /\ DOMAIN store' \subseteq Reference
      /\ \A x \in DOMAIN store' : store'[x] \in Asset
      /\ log' \in Seq(LogEntry)
      /\ late' = late
  <2>1. PutOf(c, ref) \in LogEntry
    BY <1>1, PutOfType
  <2>2. QED
    BY <2>1, ApplyType DEF Put, Typed
<1>3. response' \in [Calls -> Response \cup {None}]
  <2>1. response \in [Calls -> Response \cup {None}]
    BY DEF Typed, TypeOK
  <2>2. QED
    BY <2>1
<1>4. draft' \in [Calls -> Asset \cup {None}] /\ \A d \in Calls : draft[d] \in Asset => draft'[d] \in Asset
  <2>1. draft \in [Calls -> Asset \cup {None}]
    BY DEF Typed, TypeOK
  <2>2. CASE draft' = draft
    BY <2>1, <2>2
  <2>3. CASE \E x \in Asset : draft' = [draft EXCEPT ![c] = x]
    BY <2>1, <2>3
  <2>4. QED
    BY <2>2, <2>3
<1>5. todo' \in [Calls -> SUBSET Uris]
  BY DEF Typed, TypeOK
<1>6. pc' \in [Calls -> Running \cup {"idle", "done"}]
  BY DEF Typed, TypeOK
<1>7. \A d \in Calls :
       /\ pc'[d] # "idle" => req[d] \in Requests
       /\ pc'[d] \in {"upload", "cacheSingle", "cacheList"} => fetched[d] \in Content
       /\ pc'[d] \in {"cacheSingle", "cacheList"} \cup PushPath => draft'[d] \in Asset
  <2> SUFFICES ASSUME NEW d \in Calls
               PROVE  /\ pc'[d] # "idle" => req[d] \in Requests
                      /\ pc'[d] \in {"upload", "cacheSingle", "cacheList"} => fetched[d] \in Content
                      /\ pc'[d] \in {"cacheSingle", "cacheList"} \cup PushPath => draft'[d] \in Asset
    OBVIOUS
  <2>1. CASE d = c
    BY <1>1, <1>4, <2>1 DEF Typed, TypeOK, Active, Running, MissPath, PushPath
  <2>2. CASE d # c
    BY <1>4, <2>2 DEF Typed, TypeOK
  <2>3. QED
    BY <2>1, <2>2
<1>8. TypeOK'
  BY <1>2, <1>3, <1>4, <1>5, <1>6, <1>7 DEF Typed, TypeOK, fixed
<1>9. backend # "none"
  BY <1>1 DEF NextReference, Typed, Admitted
<1>10. Admitted'
  BY <1>1, <1>9, AdmittedStep DEF PushPath, fixed
<1>11. QED
  BY <1>8, <1>10 DEF Typed

\* The message of a fetch that went upstream, and the draft of a push.
LEMMA MessageType ==
  ASSUME Typed, NEW c \in Calls
  PROVE  /\ pc[c] \in {"cacheSingle", "cacheList"} => Fetched(c) \in Response
         /\ [code |-> "OK"] \in Response
         /\ pc[c] \in PushPath => NewAsset(req[c], req[c].digest, req[c].expire, now) \in Asset
<1>1. pc[c] \in {"cacheSingle", "cacheList"} => Fetched(c) \in Response
  BY DEF Typed, TypeOK, Content, Fetched, Response
<1>2. [code |-> "OK"] \in Response
  BY DEF Response, Codes
<1>3. ASSUME pc[c] \in PushPath
      PROVE  NewAsset(req[c], req[c].digest, req[c].expire, now) \in Asset
  <2>1. req[c] \in Requests /\ now \in Nat
    BY <1>3 DEF Typed, TypeOK, PushPath
  <2>2. IsPush(req[c])
    BY <1>3 DEF Typed, Admitted, Active, Running
  <2>3. req[c].digest \in Digests /\ req[c].expire \in Nat
    BY <2>1, <2>2, RequestType DEF PushRequest
  <2>4. QED
    BY <2>1, <2>3, NewAssetType
<1>4. QED
  BY <1>1, <1>2, <1>3

\* The two Puts of a fetch that has been upstream.
LEMMA TypedCache ==
  ASSUME Typed, NEW c \in Calls, CacheSingle(c) \/ CacheList(c)
  PROVE  Typed'
<1>1. todo' = [todo EXCEPT ![c] = todo[c]]
  BY DEF CacheSingle, CacheList, locals, Typed, TypeOK
<1>2. CASE CacheSingle(c)
  <2>1. SingleReference(c) \in NextReference(c)
    BY <1>2 DEF CacheSingle, NextReference
  <2>2. CASE Len(req[c].uris) > 1
    BY <1>1, <1>2, <2>1, <2>2, TypedPut
       DEF CacheSingle, Goto, locals, Running, MissPath
  <2>3. CASE ~ Len(req[c].uris) > 1
    BY <1>1, <1>2, <2>1, <2>3, TypedPut, MessageType
       DEF CacheSingle, Goto, Reply, locals
  <2>4. QED
    BY <2>2, <2>3
<1>3. CASE CacheList(c)
  <2>1. ListReference(c) \in NextReference(c)
    BY <1>3 DEF CacheList, NextReference
  <2>2. QED
    BY <1>1, <1>3, <2>1, TypedPut, MessageType DEF CacheList, Goto, Reply, locals
<1>4. QED
  BY <1>2, <1>3

\* The Puts of assetPushServer, first of the list and then of each URI.
LEMMA TypedPush ==
  ASSUME Typed, NEW c \in Calls, PushList(c) \/ PushEach(c)
  PROVE  Typed'
<1>1. pc[c] \in PushPath
  BY DEF PushList, PushEach, PushPath
<1>2. NewAsset(req[c], req[c].digest, req[c].expire, now) \in Asset
  BY <1>1, MessageType
<1>3. [code |-> "OK"] \in Response
  BY MessageType
<1>4. CASE PushList(c)
  <2>1. PushReference(req[c], UrisOf(req[c])) \in NextReference(c)
    BY <1>4 DEF PushList, NextReference
  <2>2. todo' = [todo EXCEPT ![c] = todo[c]]
    BY <1>4 DEF PushList, Typed, TypeOK
  <2>3. CASE Len(req[c].uris) > 1
    BY <1>1, <1>2, <1>4, <2>1, <2>2, <2>3, TypedPut
       DEF PushList, Goto, Restamped, Running, PushPath
  <2>4. CASE ~ Len(req[c].uris) > 1
    BY <1>1, <1>3, <1>4, <2>1, <2>2, <2>4, TypedPut DEF PushList, Goto, Reply
  <2>5. QED
    BY <2>3, <2>4
<1>5. CASE PushEach(c)
  <2>1. PICK u \in First(todo[c]) :
          /\ Put(c, PushReference(req[c], {u}))
          /\ todo' = [todo EXCEPT ![c] = todo[c] \ {u}]
    BY <1>5 DEF PushEach
  <2>2. PushReference(req[c], {u}) \in NextReference(c)
    BY <1>5 DEF PushEach, NextReference
  <2>3. CASE todo'[c] = {}
    BY <1>1, <1>3, <1>5, <2>1, <2>2, <2>3, TypedPut DEF PushEach, Goto, Reply
  <2>4. CASE todo'[c] # {}
    <3>1. pc' = [pc EXCEPT ![c] = "pushEach"]
      BY <1>5, <2>4 DEF PushEach, Typed, TypeOK
    <3>2. QED
      BY <1>1, <1>2, <1>5, <2>1, <2>2, <2>4, <3>1, TypedPut
         DEF PushEach, Restamped, Running, PushPath
  <2>5. QED
    BY <2>3, <2>4
<1>6. QED
  BY <1>4, <1>5

\* A Put that the push authorizer refuses or that the storage fails.
LEMMA TypedPutError ==
  ASSUME Typed, NEW c \in Calls, PutRefused(c) \/ PutFails(c)
  PROVE  Typed'
<1>1. Active(c)
  BY CallType DEF PutRefused, PutFails
<1>2. CASE PutRefused(c)
  BY <1>1, <1>2, ErrorType, TypedReply DEF PutRefused, Codes
<1>3. CASE PutFails(c)
  <2>1. Error("Unavailable") \in Response
    BY ErrorType DEF Codes
  <2>2. ASSUME NEW ref \in NextReference(c), UNCHANGED data,
               late' = late \/ late' = late \cup {PutOf(c, ref)}
        PROVE  Typed'
    <3>1. PutOf(c, ref) \in LogEntry
      BY CallType, PutOfType
    <3>2. late' \in SUBSET LogEntry
      BY <2>2, <3>1 DEF Typed, TypeOK
    <3>3. QED
      BY <1>1, <1>3, <2>1, <2>2, <3>2, TypedReply DEF PutFails
  <2>3. CASE \E ref \in NextReference(c) : Put(c, ref)
    <3>1. todo' = [todo EXCEPT ![c] = todo[c]]
      BY <1>3 DEF PutFails, locals, Typed, TypeOK
    <3>2. QED
      BY <1>3, <2>1, <2>3, <3>1, TypedPut DEF PutFails, Goto, Reply, locals
  <2>4. PICK ref \in NextReference(c) :
          Put(c, ref) \/ (UNCHANGED data /\ (late' = late \/ late' = late \cup {PutOf(c, ref)}))
    BY <1>3 DEF PutFails
  <2>5. QED
    BY <2>2, <2>3, <2>4
<1>4. QED
  BY <1>2, <1>3

\* The environment, and stuttering.
LEMMA TypedEnvironment ==
  ASSUME Typed, Tick \/ LatePut \/ Evict \/ Crash \/ UNCHANGED vars
  PROVE  Typed'
<1>1. CASE Tick
  <2>1. TypeOK'
    BY <1>1, MaxTimeAssumption DEF Tick, Typed, TypeOK, data, locals, fixed
  <2>2. Admitted'
    BY <1>1 DEF Tick, Typed, Admitted, Active, data, locals, fixed,
                Refusal, PushRefusal, CachingRefusal, ErrorPushServer, Unauthorized, Invalid
  <2>3. QED
    BY <2>1, <2>2 DEF Typed
<1>2. CASE Evict
  <2>1. TypeOK'
    BY <1>2 DEF Evict, Typed, TypeOK, locals, fixed
  <2>2. Admitted'
    BY <1>2 DEF Evict, Typed, Admitted, Active, locals, fixed,
                Refusal, PushRefusal, CachingRefusal, ErrorPushServer, Unauthorized, Invalid
  <2>3. QED
    BY <2>1, <2>2 DEF Typed
<1>3. CASE Crash
  <2>1. /\ pc' \in [Calls -> Running \cup {"idle", "done"}]
        /\ \A c \in Calls : pc'[c] = pc[c] \/ (pc'[c] = "done" /\ Active(c))
    BY <1>3 DEF Crash, Typed, TypeOK
  <2>2. response' \in [Calls -> Response \cup {None}]
    <3>1. Error("Unavailable") \in Response
      BY ErrorType DEF Codes
    <3>2. QED
      BY <1>3, <3>1 DEF Crash, Typed, TypeOK
  <2>3. TypeOK'
    BY <1>3, <2>1, <2>2
       DEF Crash, Typed, TypeOK, data, locals, fixed, Active, Running, MissPath, PushPath
  <2>4. Admitted'
    BY <1>3, <2>1 DEF Crash, Typed, Admitted, Active, Running, MissPath, PushPath, locals,
                      fixed, Refusal, PushRefusal, CachingRefusal, ErrorPushServer, Unauthorized, Invalid
  <2>5. QED
    BY <2>3, <2>4 DEF Typed
<1>4. CASE UNCHANGED vars
  <2>1. TypeOK'
    BY <1>4 DEF Typed, TypeOK, vars
  <2>2. Admitted'
    BY <1>4 DEF Typed, Admitted, Active, vars, Refusal, PushRefusal, CachingRefusal, ErrorPushServer, Unauthorized, Invalid
  <2>3. QED
    BY <2>1, <2>2 DEF Typed
<1>5. CASE LatePut
  <2>1. PICK put \in LogEntry : Apply(put) /\ late' = late \ {put}
    BY <1>5 DEF LatePut, Typed, TypeOK
  <2>2. TypeOK'
    <3>1. /\ DOMAIN store' \subseteq Reference
          /\ \A x \in DOMAIN store' : store'[x] \in Asset
          /\ log' \in Seq(LogEntry)
      BY <2>1, ApplyType DEF Typed
    <3>2. QED
      BY <1>5, <2>1, <3>1 DEF LatePut, Typed, TypeOK, locals, fixed
  <2>3. Admitted'
    BY <1>5 DEF LatePut, Typed, Admitted, Active, locals, fixed,
                Refusal, PushRefusal, CachingRefusal, ErrorPushServer, Unauthorized, Invalid
  <2>4. QED
    BY <2>2, <2>3 DEF Typed
<1>6. QED
  BY <1>1, <1>2, <1>3, <1>4, <1>5

\* Every step of the service keeps it well typed.
LEMMA TypedNext == Typed /\ [Next]_vars => Typed'
<1> SUFFICES ASSUME Typed, [Next]_vars
             PROVE  Typed'
  OBVIOUS
<1>1. ASSUME NEW c \in Calls, Arrive(c)
      PROVE  Typed'
  BY <1>1, TypedArrive
<1>2. ASSUME NEW c \in Calls, FetchStep(c)
      PROVE  Typed'
  BY <1>2, TypedLookup, TypedUpstream, TypedCache DEF FetchStep
<1>3. ASSUME NEW c \in Calls, PushStep(c) \/ PutRefused(c) \/ PutFails(c)
      PROVE  Typed'
  BY <1>3, TypedPush, TypedPutError DEF PushStep
<1>4. CASE Tick \/ LatePut \/ Evict \/ Crash \/ Quiescent \/ UNCHANGED vars
  BY <1>4, TypedEnvironment DEF Quiescent
<1>5. QED
  BY <1>1, <1>2, <1>3, <1>4 DEF Next, Step

\* Every reachable state is well typed, whatever the requests, the calls and
\* the faults: references are built of URIs of the request and stored under a
\* digest function the server knows, local variables are set before they are
\* used, and every answer is a status the code can return.
THEOREM TypeCorrect == Spec => []Typed
<1>1. Init => Typed
  BY TypedInit
<1>2. Typed /\ [Next]_vars => Typed'
  BY TypedNext
<1>3. QED
  BY <1>1, <1>2, PTL DEF Spec

\* In particular every variable always holds a value of its kind, and a handler
\* (FetchBlob, FetchDirectory, PushBlob, PushDirectory) never uses a local
\* variable that it has not set.
THEOREM TypeSafety == Spec => []TypeOK
<1>1. Typed => TypeOK
  BY DEF Typed
<1>2. QED
  BY <1>1, TypeCorrect, PTL
===============================================================================
