------------------------------ MODULE RemoteAsset ------------------------------
(***************************************************************************)
(* The bb_remote_asset service: concurrent Fetch and Push calls over one   *)
(* asset store.                                                            *)
(*                                                                         *)
(* A fetch runs the chain of decorators that NewFetcherFromConfiguration   *)
(* builds (authorizing, validating, caching) around an upstream fetcher;   *)
(* the upstream is abstract here: it fails, or it downloads one of the     *)
(* URIs and uploads what it got to the CAS.  A push runs assetPushServer.  *)
(* Each call is a goroutine: its steps are the calls it makes to the asset *)
(* store, the upstream and the CAS, and the steps of different calls       *)
(* interleave.  The service can crash between any two of them, the store   *)
(* can lose entries, and a Get or a Put can fail; a Put that fails may     *)
(* have been applied, or be applied when the call is long over.            *)
(*                                                                         *)
(* Which asset cache there is, if any, is a matter of the configuration    *)
(* that the server reads when it starts: the variable backend, which no    *)
(* step changes.                                                           *)
(***************************************************************************)
EXTENDS Assets

CONSTANTS
  Calls,           \* identities of RPCs, one per client request
  Requests,        \* the requests clients send
  FetchAuthorized, \* instances the fetch authorizer admits
  PushAuthorized,  \* instances the push authorizer admits
  AllowUpdates,    \* allow_updates_for_instances
  Backends,        \* the asset caches a server may be configured with:
                   \* "blobAccess", "actionCache" or "none"
  Generators,      \* the values of resource_type that have a command
  ScriptQualifiers,\* ScriptQualifiers[t]: the qualifiers t's script depends on
  InvalidTimes,    \* the time stamps that CheckValid refuses
  UpstreamErrors,  \* the errors that the wrapped fetcher returns
  Faults,          \* the faults that occur: "get", "put", "late", "evict",
                   \* "crash"
  MaxTime          \* bound on the clock

ASSUME RequestsAssumption == Requests \subseteq (FetchRequest \cup PushRequest)
ASSUME PoliciesAssumption ==
  /\ FetchAuthorized \subseteq Instances
  /\ PushAuthorized \subseteq Instances
  /\ AllowUpdates \subseteq Instances
ASSUME BackendsAssumption == Backends \subseteq {"blobAccess", "actionCache", "none"}
ASSUME GeneratorsAssumption ==
  /\ Generators \subseteq Qualifiers
  /\ ScriptQualifiers \in [Generators -> SUBSET Qualifiers]
ASSUME UpstreamAssumption ==
  /\ UpstreamErrors \subseteq STRING
  /\ "OK" \notin UpstreamErrors
ASSUME MaxTimeAssumption == MaxTime \in Nat \ {0}

VARIABLES
  backend,   \* the asset cache that the server is configured with
  now,       \* the wall clock
  store,     \* the asset store: a function from keys to assets
  late,      \* the Puts in flight that their calls have given up on
  uploaded,  \* the digests that fetches have put into the CAS
  pc,        \* pc[c]: where call c is
  req,       \* req[c]: its request
  index,     \* index[c]: the URI a fetch is looking up
  fetched,   \* fetched[c]: the URI and digest a fetch downloaded
  todo,      \* todo[c]: the URIs a push has yet to store one by one
  draft,     \* draft[c]: the asset the next Put of the call stores
  response,  \* response[c]: what the call returned
  log,       \* history: the Puts that took effect, in order
  began,     \* history: began[c], how many Puts had taken effect when call c
             \* began
  before     \* history: before[c], the calls that had succeeded by then

fixed   == <<backend, began, before>>
data    == <<store, log>>
locals  == <<index, fetched, todo, draft>>
vars    == <<backend, now, store, late, uploaded, pc, req, index, fetched, todo,
             draft, response, log, began, before>>

None == [none |-> TRUE]  \* a local variable not set yet

MissPath == {"fetch", "upload", "cacheSingle", "cacheList"}
PushPath == {"pushList", "pushEach"}
Running  == {"lookup"} \cup MissPath \cup PushPath
Active(c) == pc[c] \in Running

Init ==
  /\ backend \in Backends
  /\ now = 1
  /\ store = [ref \in {} |-> None]
  /\ late = {}
  /\ uploaded = {}
  /\ pc = [c \in Calls |-> "idle"]
  /\ req = [c \in Calls |-> None]
  /\ index = [c \in Calls |-> 1]
  /\ fetched = [c \in Calls |-> None]
  /\ todo = [c \in Calls |-> {}]
  /\ draft = [c \in Calls |-> None]
  /\ response = [c \in Calls |-> None]
  /\ log = << >>
  /\ began = [c \in Calls |-> 0]
  /\ before = [c \in Calls |-> {}]

-----------------------------------------------------------------------------
(* Helpers                                                                 *)

Goto(c, label) == pc' = [pc EXCEPT ![c] = label]

Reply(c, message) ==
  /\ Goto(c, "done")
  /\ response' = [response EXCEPT ![c] = message]

Error(code) == [code |-> code]

\* Call c has returned, and reported success.
Ok(c) == pc[c] = "done" /\ response[c].code = "OK"

Succeeded == {c \in Calls : Ok(c)}

\* What a Get returns for a stored asset.  An ActionResult has no place for
\* ExpireAt: actionResultToAsset sets it to the epoch.
Retrieved(a) ==
  IF backend = "actionCache" THEN [a EXCEPT !.expire = 0] ELSE a

\* The qualifiers that the action of a reference depends on: where a command
\* is generated, for a single URI of a known resource type, those only that
\* gitCommand or octetStreamCommand looks at.
ActionQualifiers(ref) ==
  LET types == ref.qualifiers \cap Generators
  IN  IF types # {} /\ \E u \in Uris : ref.uris = {u}
      THEN types \cup {q \in ref.qualifiers : \E t \in types : q \in ScriptQualifiers[t]}
      ELSE ref.qualifiers

\* What the store knows an asset by: the digest of the reference or, in an
\* Action Cache, that of the action the reference is translated to.
Key(ref) ==
  IF backend = "actionCache"
  THEN [ref EXCEPT !.qualifiers = ActionQualifiers(ref)]
  ELSE ref

\* Faulty variant: a Put under a key that is taken does nothing.
ApplyIfAbsent(put) ==
  /\ store' = [k \in DOMAIN store \cup {Key(put.ref)} |->
                 IF k \in DOMAIN store THEN store[k] ELSE put.asset]
  /\ log' = Append(log, put)

\* A Put takes effect.
Apply(put) ==
  /\ store' = [k \in DOMAIN store \cup {Key(put.ref)} |->
                 IF k = Key(put.ref) THEN put.asset ELSE store[k]]
  /\ log' = Append(log, put)

\* The Put of the draft of call c.
PutOf(c, ref) == [call |-> c, ref |-> ref, asset |-> draft[c]]

Put(c, ref) == Apply(PutOf(c, ref)) /\ UNCHANGED late

\* Faulty variant: Put asks the fetch authorizer.
MayPutIfMayFetch(c) == req[c].instance \in FetchAuthorized

\* AuthorizingAssetStore: Put is authorized by the push authorizer.
MayPut(c) == req[c].instance \in PushAuthorized

-----------------------------------------------------------------------------
(* A request arrives                                                       *)

\* AuthorizingFetcher: the fetch authorizer does not admit the instance.
Unauthorized(r) == r.instance \notin FetchAuthorized

\* validatingFetcher: no URIs, or qualifiers that the fetcher does not support.
Invalid(r) == r.uris = << >> \/ ~ r.qualifiers \subseteq SupportedQualifiers

\* What errorPushServer, which a server without an asset cache has, returns to
\* every push.
ErrorPushServer == "FailedPrecondition"

\* assetPushServer turns a push down.
PushRefusal(r) ==
  IF backend = "none" THEN ErrorPushServer
  ELSE IF r.uris = << >> \/ r.function = "UNSUPPORTED" THEN "InvalidArgument"
  ELSE IF r.instance \notin AllowUpdates THEN "PermissionDenied"
  ELSE "Admitted"

\* cachingFetcher turns a fetch down.  Of the two services only FetchBlob
\* validates oldest_content_accepted, whose error has no gRPC code.
CachingRefusal(r) ==
  IF r.function = "UNSUPPORTED" THEN "InvalidArgument"
  ELSE IF r.op = "FetchBlob" /\ r.oldest \in InvalidTimes THEN "Unknown"
  ELSE "Admitted"

\* The answer to a request that the service turns down at once: a fetch goes
\* through the authorizing, the validating and, with an asset cache, the
\* caching fetcher in turn.
Refusal(r) ==
  IF IsPush(r) THEN PushRefusal(r)
  ELSE IF Unauthorized(r) THEN "PermissionDenied"
  ELSE IF Invalid(r) THEN "InvalidArgument"
  ELSE IF backend # "none" THEN CachingRefusal(r)
  ELSE "Admitted"

Receive(c, r) ==
  /\ pc[c] = "idle"
  /\ req' = [req EXCEPT ![c] = r]
  /\ UNCHANGED <<backend, now, data, late, uploaded, index, fetched>>

\* For the record, where the call stands among the others.
Record(c) ==
  /\ began' = [began EXCEPT ![c] = Len(log)]
  /\ before' = [before EXCEPT ![c] = Succeeded]

Refuse(c, r) ==
  /\ Refusal(r) # "Admitted"
  /\ Receive(c, r)
  /\ Reply(c, Error(Refusal(r)))
  /\ UNCHANGED <<todo, draft, began, before>>

BeginFetch(c, r) ==
  /\ IsFetch(r)
  /\ Refusal(r) = "Admitted"
  /\ Receive(c, r)
  /\ Goto(c, IF backend = "none" THEN "fetch" ELSE "lookup")
  /\ Record(c)
  /\ UNCHANGED <<todo, draft, response>>

BeginPush(c, r) ==
  /\ IsPush(r)
  /\ Refusal(r) = "Admitted"
  /\ Receive(c, r)
  /\ Goto(c, "pushList")
  /\ todo' = [todo EXCEPT ![c] = UrisOf(r)]
  /\ draft' = [draft EXCEPT ![c] = NewAsset(r, r.digest, r.expire, now)]
  /\ Record(c)
  /\ UNCHANGED response

-----------------------------------------------------------------------------
(* cachingFetcher.FetchBlob and FetchDirectory                             *)

\* Faulty variant: the loop leaves out the last URI.
HasMoreUrisButOne(c) == index[c] + 1 < Len(req[c].uris)

HasMoreUris(c) == index[c] < Len(req[c].uris)

\* Faulty variant: a failed lookup is tried again.
SameUri(c) == index[c]

NextUri(c) == index[c] + 1

LookupReference(c) == FetchReference(req[c], {req[c].uris[index[c]]})

LookupKey(c) == Key(LookupReference(c))

\* getAndCheckAsset succeeds: the asset answers the request, whatever its
\* type.
LookupHit(c) ==
  /\ pc[c] = "lookup"
  /\ LookupKey(c) \in DOMAIN store
  /\ LET found == Retrieved(store[LookupKey(c)])
     IN  /\ Acceptable(found, req[c], now)
         /\ Reply(c, [code |-> "OK", from |-> "cache", at |-> now,
                      uri |-> req[c].uris[index[c]], digest |-> found.digest])
  /\ UNCHANGED <<fixed, now, data, late, uploaded, req, locals>>

\* getAndCheckAsset fails: nothing stored, nothing acceptable, or the Get
\* failed.  The next URI is tried, and the upstream after the last one.
LookupMiss(c) ==
  /\ pc[c] = "lookup"
  /\ \/ LookupKey(c) \notin DOMAIN store
     \/ /\ LookupKey(c) \in DOMAIN store
        /\ ~ Acceptable(Retrieved(store[LookupKey(c)]), req[c], now)
     \/ "get" \in Faults
  /\ IF HasMoreUris(c)
     THEN /\ index' = [index EXCEPT ![c] = NextUri(c)]
          /\ UNCHANGED pc
     ELSE /\ Goto(c, "fetch")
          /\ UNCHANGED index
  /\ UNCHANGED <<fixed, now, data, late, uploaded, req, fetched, todo, draft,
                 response>>

\* The wrapped fetcher returns an error, which the client gets; an error
\* fetcher does nothing else.
FetchFails(c) ==
  /\ pc[c] = "fetch"
  /\ \E code \in UpstreamErrors : Reply(c, Error(code))
  /\ UNCHANGED <<fixed, now, data, late, uploaded, req, locals>>

\* The wrapped fetcher downloads one of the URIs ...
Download(c) ==
  /\ pc[c] = "fetch"
  /\ \E u \in UrisOf(req[c]), d \in Digests :
       /\ HashFunction[d] = DigestFunction(req[c])
       /\ fetched' = [fetched EXCEPT ![c] = [uri |-> u, digest |-> d]]
  /\ Goto(c, "upload")
  /\ UNCHANGED <<fixed, now, data, late, uploaded, req, index, todo, draft,
                 response>>

Fetched(c) == [code |-> "OK", from |-> "upstream", at |-> now,
               uri |-> fetched[c].uri, digest |-> fetched[c].digest]

\* ... and stores what it got in the CAS before it returns.  The caching
\* fetcher, if there is one, then stamps the asset: it never expires.
Upload(c) ==
  /\ pc[c] = "upload"
  /\ uploaded' = uploaded \cup {fetched[c].digest}
  /\ IF backend = "none"
     THEN /\ Reply(c, Fetched(c))
          /\ UNCHANGED draft
     ELSE /\ Goto(c, "cacheSingle")
          /\ draft' = [draft EXCEPT ![c] = NewAsset(req[c], fetched[c].digest, 0, now)]
          /\ UNCHANGED response
  /\ UNCHANGED <<fixed, now, data, late, req, index, fetched, todo>>

\* Faulty variant: the error of the CAS is not looked at.
UploadErrorIgnored(c) ==
  /\ pc[c] = "upload"
  /\ "put" \in Faults
  /\ draft' = [draft EXCEPT ![c] = NewAsset(req[c], fetched[c].digest, 0, now)]
  /\ Goto(c, "cacheSingle")
  /\ UNCHANGED <<fixed, now, data, late, uploaded, req, index, fetched, todo,
                 response>>

\* The CAS returns an error, with or without the effect of the upload.
UploadFails(c) ==
  /\ pc[c] = "upload"
  /\ "put" \in Faults
  /\ uploaded' \in {uploaded, uploaded \cup {fetched[c].digest}}
  /\ Reply(c, Error("Internal"))
  /\ UNCHANGED <<fixed, now, data, late, req, locals>>

\* Faulty variant: the first URI of the request, wherever the blob is from.
FirstUriReference(c) == FetchReference(req[c], {req[c].uris[1]})

SingleReference(c) == FetchReference(req[c], {fetched[c].uri})

ListReference(c) == FetchReference(req[c], UrisOf(req[c]))

\* Cache fetched blob with single URI, the one it was downloaded from.
CacheSingle(c) ==
  /\ pc[c] = "cacheSingle"
  /\ MayPut(c)
  /\ Put(c, SingleReference(c))
  /\ IF Len(req[c].uris) > 1
     THEN Goto(c, "cacheList") /\ UNCHANGED response
     ELSE Reply(c, Fetched(c))
  /\ UNCHANGED <<fixed, now, uploaded, req, locals>>

\* Cache fetched blob with list of URIs.
CacheList(c) ==
  /\ pc[c] = "cacheList"
  /\ MayPut(c)
  /\ Put(c, ListReference(c))
  /\ Reply(c, Fetched(c))
  /\ UNCHANGED <<fixed, now, uploaded, req, locals>>

-----------------------------------------------------------------------------
(* assetPushServer.PushBlob and PushDirectory                              *)

Restamped(c) == [draft EXCEPT ![c] = NewAsset(req[c], req[c].digest,
                                              req[c].expire, now)]

\* Faulty variant: the URIs in the order of the request, whatever it is.
AnyOf(uris) == uris

\* NewAssetReference has sorted req.Uris in place: the loop takes them in
\* increasing order.
First(uris) == {u \in uris : \A v \in uris : u <= v}

PushList(c) ==
  /\ pc[c] = "pushList"
  /\ MayPut(c)
  /\ Put(c, PushReference(req[c], UrisOf(req[c])))
  /\ IF Len(req[c].uris) > 1
     THEN /\ Goto(c, "pushEach")
          /\ draft' = Restamped(c)
          /\ UNCHANGED response
     ELSE /\ Reply(c, [code |-> "OK"])
          /\ UNCHANGED draft
  /\ UNCHANGED <<fixed, now, uploaded, req, index, fetched, todo>>

PushEach(c) ==
  /\ pc[c] = "pushEach"
  /\ MayPut(c)
  /\ \E u \in First(todo[c]) :
       /\ Put(c, PushReference(req[c], {u}))
       /\ todo' = [todo EXCEPT ![c] = @ \ {u}]
  /\ IF todo'[c] = {}
     THEN /\ Reply(c, [code |-> "OK"])
          /\ UNCHANGED draft
     ELSE /\ draft' = Restamped(c)
          /\ UNCHANGED <<pc, response>>
  /\ UNCHANGED <<fixed, now, uploaded, req, index, fetched>>

-----------------------------------------------------------------------------
(* A Put fails                                                             *)

\* The references call c may be about to store under.
NextReference(c) ==
  IF pc[c] = "cacheSingle"    THEN {SingleReference(c)}
  ELSE IF pc[c] = "cacheList" THEN {ListReference(c)}
  ELSE IF pc[c] = "pushList"  THEN {PushReference(req[c], UrisOf(req[c]))}
  ELSE IF pc[c] = "pushEach"  THEN {PushReference(req[c], {u}) : u \in First(todo[c])}
  ELSE {}

\* The push authorizer refuses the instance.
PutRefused(c) ==
  /\ NextReference(c) # {}
  /\ ~ MayPut(c)
  /\ Reply(c, Error("PermissionDenied"))
  /\ UNCHANGED <<fixed, now, data, late, uploaded, req, locals>>

\* Faulty variant: the error of a Put in a push is swallowed.
PutErrorIgnored(c) ==
  /\ "put" \in Faults
  /\ pc[c] \in PushPath
  /\ MayPut(c)
  /\ Reply(c, [code |-> "OK"])
  /\ UNCHANGED <<fixed, now, data, late, uploaded, req, locals>>

\* Faulty variant: the handler answers while its Put is still on its way.
PutInBackground(c) ==
  /\ "late" \in Faults
  /\ \E ref \in NextReference(c) : late' = late \cup {PutOf(c, ref)}
  /\ MayPut(c)
  /\ Reply(c, IF IsFetch(req[c]) THEN Fetched(c) ELSE [code |-> "OK"])
  /\ UNCHANGED <<fixed, now, data, uploaded, req, locals>>

\* The storage backend fails, or the call is cancelled while it waits: the Put
\* has had its effect, or never has it, or is still on its way.
PutFails(c) ==
  /\ Faults \cap {"put", "late"} # {}
  /\ NextReference(c) # {}
  /\ MayPut(c)
  /\ \E ref \in NextReference(c) :
       \/ "put" \in Faults /\ Put(c, ref)
       \/ "put" \in Faults /\ UNCHANGED <<data, late>>
       \/ /\ "late" \in Faults
          /\ late' = late \cup {PutOf(c, ref)}
          /\ UNCHANGED data
  /\ Reply(c, Error("Unavailable"))
  /\ UNCHANGED <<fixed, now, uploaded, req, locals>>

-----------------------------------------------------------------------------
(* The environment                                                         *)

Tick ==
  /\ now < MaxTime
  /\ now' = now + 1
  /\ UNCHANGED <<fixed, data, late, uploaded, pc, req, locals, response>>

\* A Put arrives whose call is over, and perhaps the process that made it.
LatePut ==
  /\ \E put \in late :
       /\ Apply(put)
       /\ late' = late \ {put}
  /\ UNCHANGED <<fixed, now, uploaded, pc, req, locals, response>>

\* The store drops an entry (it is a cache, bounded in size).
Evict ==
  /\ "evict" \in Faults
  /\ \E key \in DOMAIN store :
       store' = [k \in DOMAIN store \ {key} |-> store[k]]
  /\ UNCHANGED <<fixed, now, late, uploaded, pc, req, locals, response, log>>

\* The process dies and is restarted: the calls it was serving end, the
\* store and the CAS are outside it.
Crash ==
  /\ "crash" \in Faults
  /\ \E c \in Calls : Active(c)
  /\ pc' = [c \in Calls |-> IF Active(c) THEN "done" ELSE pc[c]]
  /\ response' = [c \in Calls |-> IF Active(c) THEN Error("Unavailable")
                                               ELSE response[c]]
  /\ UNCHANGED <<fixed, now, data, late, uploaded, req, locals>>

\* All calls are over, nothing is in flight, and the clock has reached its
\* bound.
Quiescent ==
  /\ late = {}
  /\ \A c \in Calls : pc[c] = "done"
  /\ now = MaxTime
  /\ UNCHANGED vars

Arrive(c) ==
  \E r \in Requests : Refuse(c, r) \/ BeginFetch(c, r) \/ BeginPush(c, r)

FetchStep(c) ==
  \/ LookupHit(c) \/ LookupMiss(c)
  \/ FetchFails(c) \/ Download(c) \/ Upload(c) \/ UploadFails(c)
  \/ CacheSingle(c) \/ CacheList(c)

PushStep(c) == PushList(c) \/ PushEach(c)

Step(c) == FetchStep(c) \/ PushStep(c) \/ PutRefused(c) \/ PutFails(c)

Next ==
  \/ \E c \in Calls : Arrive(c) \/ Step(c)
  \/ Tick \/ LatePut \/ Evict \/ Crash \/ Quiescent

Spec == Init /\ [][Next]_vars

-----------------------------------------------------------------------------
(* Type correctness                                                        *)

Content == [uri: Uris, digest: Digests]

Codes ==
  {"OK", "PermissionDenied", "InvalidArgument", "FailedPrecondition", "Internal",
   "Unavailable", "Unknown"} \cup UpstreamErrors

Response ==
  [code: Codes]
  \cup [code: {"OK"}, from: {"cache", "upstream"}, at: Nat, uri: Uris,
        digest: Digests]

LogEntry == [call: Calls, ref: Reference, asset: Asset]

\* Every variable holds a value of its kind, and a local variable of a call
\* is set once the call has got to where it uses it.
TypeOK ==
  /\ backend \in Backends
  /\ now \in 1 .. MaxTime
  /\ DOMAIN store \subseteq Reference
  /\ \A key \in DOMAIN store : store[key] \in Asset
  /\ late \subseteq LogEntry
  /\ uploaded \subseteq Digests
  /\ pc \in [Calls -> Running \cup {"idle", "done"}]
  /\ req \in [Calls -> Requests \cup {None}]
  /\ index \in [Calls -> Nat \ {0}]
  /\ fetched \in [Calls -> Content \cup {None}]
  /\ todo \in [Calls -> SUBSET Uris]
  /\ draft \in [Calls -> Asset \cup {None}]
  /\ response \in [Calls -> Response \cup {None}]
  /\ log \in Seq(LogEntry)
  /\ began \in [Calls -> Nat]
  /\ before \in [Calls -> SUBSET Calls]
  /\ \A c \in Calls :
       /\ pc[c] # "idle" => req[c] \in Requests
       /\ pc[c] \in {"upload", "cacheSingle", "cacheList"} => fetched[c] \in Content
       /\ pc[c] \in {"cacheSingle", "cacheList"} \cup PushPath => draft[c] \in Asset

-----------------------------------------------------------------------------
(* Safety properties                                                       *)

\* The answers of calls.
FetchOk(c)  == Ok(c) /\ IsFetch(req[c])
PushOk(c)   == Ok(c) /\ IsPush(req[c])
Hit(c)      == FetchOk(c) /\ response[c].from = "cache"
Upstream(c) == FetchOk(c) /\ response[c].from = "upstream"

\* Who wrote an entry of the log.
ByFetch(i) == IsFetch(req[log[i].call])
ByPush(i)  == IsPush(req[log[i].call])

\* Call c has stored something under the reference.
Stored(c, ref) == \E i \in DOMAIN log : log[i].call = c /\ log[i].ref = ref

\* Whatever path a request takes through the decorators, the store changes
\* only under instances the push authorizer admits, a push changes it only
\* where allow_updates_for_instances says so, and neither a cached nor a
\* freshly downloaded asset leaves an instance the fetch authorizer closes.
AccessIsAuthorized ==
  /\ \A i \in DOMAIN log :
       /\ log[i].ref.instance \in PushAuthorized
       /\ ByPush(i) => log[i].ref.instance \in AllowUpdates
       /\ ByFetch(i) => log[i].ref.instance \in FetchAuthorized
  /\ \A c \in Calls : FetchOk(c) => req[c].instance \in FetchAuthorized

\* A fetch caches a reference to content only once that content is in the
\* CAS: no crash or failed upload leaves a reference to a digest nobody
\* stored.
CachedContentIsInCAS == \A i \in DOMAIN log : ByFetch(i) => log[i].asset.digest \in uploaded

\* A fetch of several mirrors records what it downloaded under the mirror it
\* came from and under the whole list, and under no other mirror; and with a
\* digest of the function the reference is stored under.
CachedUnderItsOwnUri ==
  \A i \in DOMAIN log : ByFetch(i) =>
    LET c == log[i].call
    IN  /\ log[i].ref.uris \in {{fetched[c].uri}, UrisOf(req[c])}
        /\ log[i].asset.digest = fetched[c].digest
        /\ HashFunction[log[i].asset.digest] = log[i].ref.function

\* A call that reports success has made every Put it stands for: a push the
\* list of its URIs and each URI alone, a fetch that went upstream the URI it
\* used and the list.  No failed Put is swallowed.
OkMeansStored ==
  \A c \in Calls :
    /\ PushOk(c) =>
         /\ Stored(c, PushReference(req[c], UrisOf(req[c])))
         /\ \A u \in UrisOf(req[c]) : Stored(c, PushReference(req[c], {u}))
    /\ Upstream(c) /\ backend # "none" =>
         /\ Stored(c, FetchReference(req[c], {response[c].uri}))
         /\ Stored(c, FetchReference(req[c], UrisOf(req[c])))

\* A push that failed or died half way leaves a prefix of its Puts: the list
\* first, then the URIs in increasing order with none skipped.
PartialPushIsPrefix ==
  \A i \in DOMAIN log : ByPush(i) =>
    LET c == log[i].call
    IN  \A u \in log[i].ref.uris : log[i].ref.uris = {u} =>
          /\ Stored(c, PushReference(req[c], UrisOf(req[c])))
          /\ \A v \in UrisOf(req[c]) : v < u => Stored(c, PushReference(req[c], {v}))

\* The Puts that can have produced the cached answer of call c: same
\* instance, digest function and URI, the same qualifiers but for volatile
\* ones (and, over an Action Cache, those that the action ignores), and no
\* older than the request accepts.
ServedBy(c) ==
  {i \in DOMAIN log :
     /\ Key(log[i].ref) = Key(FetchReference(req[c], {response[c].uri}))
     /\ log[i].asset.digest = response[c].digest
     /\ ~ TooOld(log[i].asset, req[c])}

\* A hit returns what some call stored under exactly the key asked for, and
\* nothing that had been replaced when the fetch began: whatever crashes, fails
\* or arrives late, a fetch reads no older value than a fetch that had ended
\* before it.
HitIsCurrent ==
  \A c \in Calls : Hit(c) =>
    \E i \in ServedBy(c) :
      \A j \in DOMAIN log :
        i < j /\ j <= began[c] => Key(log[j].ref) # Key(log[i].ref)

\* What a call that reported success has stored, only a call that overlapped
\* it, came after it or failed can hide from a later fetch: a hit is never of
\* the Put of a call that had succeeded before call p began, if p had stored
\* something there and succeeded before the fetch began.  A slow fetch that
\* caches what it downloaded, or a Put that arrives late, may well overwrite
\* what is newer; but no answer is given for a Put that may still do so.
HitRespectsRealTime ==
  \A c \in Calls : Hit(c) =>
    \E i \in ServedBy(c) :
      \A p \in before[c] :
        (\E j \in DOMAIN log : log[j].call = p /\ Key(log[j].ref) = Key(log[i].ref))
          => log[i].call \notin before[p]

\* A hit is of an asset that had not expired when it was returned: at ExpireAt
\* itself it may still be (asset.proto: ExpireAt is the time after which the
\* asset shouldn't be returned on a Fetch).
HitIsUnexpired ==
  \A c \in Calls : Hit(c) =>
    \E i \in ServedBy(c) :
      log[i].asset.expire = 0 \/ response[c].at <= log[i].asset.expire

\* A fetch goes upstream only for want of an answer: if something was stored
\* under one of its URIs when it began, then what is stored there was replaced
\* or is something the fetch may not accept.  (Where the store neither fails
\* to answer nor drops entries.)
MissIsJustified ==
  \A c \in Calls : pc[c] \in MissPath /\ backend # "none" =>
    \A u \in UrisOf(req[c]) : \A i \in DOMAIN log :
      /\ Key(log[i].ref) = Key(FetchReference(req[c], {u}))
      /\ i <= began[c]
      => \E j \in DOMAIN log :
           /\ j >= i
           /\ Key(log[j].ref) = Key(log[i].ref)
           /\ ~ Acceptable(Retrieved(log[j].asset), req[c], now)

-----------------------------------------------------------------------------
(* Liveness                                                                *)

\* Every call that is admitted returns: the loops over URIs end, and no
\* store, upstream or CAS failure leaves a handler hanging.  (Checked of
\* CachedHttp, where the upstream has a loop of its own.)
CallsComplete == \A c \in Calls : Active(c) ~> (pc[c] = "done")

-----------------------------------------------------------------------------
(* What the documentation says and the code does not do                    *)

\* bb_remote_asset.proto separates an authorization policy for Fetch
\* operations from one for Push operations: a fetch that the fetch policy
\* admits is not refused for lack of push permission.
FetchNeedsNoPushPermission ==
  \A c \in Calls :
    pc[c] = "done" /\ IsFetch(req[c]) /\ req[c].instance \in FetchAuthorized
      => response[c].code # "PermissionDenied"

\* The service provides a mapping between URIs and qualifiers to digests: a
\* digest pushed for a URI and some qualifiers, for good, answers a fetch of
\* that URI with those qualifiers.
PushedIsFetchable ==
  \A c \in Calls : pc[c] \in MissPath =>
    ~ \E i \in DOMAIN log :
        LET p == log[i].call
        IN  /\ ByPush(i) /\ i <= began[c]
            /\ req[p].expire = 0
            /\ req[p].instance = req[c].instance
            /\ req[p].qualifiers = req[c].qualifiers
            /\ DigestFunction(req[p]) = DigestFunction(req[c])
            /\ \E u \in UrisOf(req[c]) : log[i].ref.uris = {u}
===============================================================================
