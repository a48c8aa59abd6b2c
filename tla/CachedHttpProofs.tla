---------------------------- MODULE CachedHttpProofs ----------------------------
(***************************************************************************)
(* Theorems about CachedHttp and their proofs: the service with the HTTP   *)
(* fetcher below it is one with an abstract upstream, so that what is      *)
(* proved of RemoteAsset holds of it; what clients get has the checksum    *)
(* they asked for; and headers go to the mirrors they are meant for.       *)
(***************************************************************************)
EXTENDS CachedHttp, RemoteAssetPuts

-----------------------------------------------------------------------------
(* The service with the HTTP fetcher is the service                        *)

\* A step of the two is one of the service, or none.
LEMMA JointStepImplements ==
  ASSUME [JointNext]_jointVars
  PROVE  [Next]_vars
<1>1. ASSUME NEW c \in Calls, JointStep(c)
      PROVE  Step(c) \/ UNCHANGED vars
  <2>1. CASE CallHttp(c)
    BY <2>1 DEF CallHttp, HttpFails, Step, FetchStep
  <2>2. CASE HttpDownload(c)
    BY <2>2 DEF HttpDownload, HttpFails, Step, FetchStep
  <2>3. CASE HttpDeliver(c)
    BY <2>3 DEF HttpDeliver, HttpFails, Step, FetchStep
  <2>4. CASE Serve(c)
    BY <2>4 DEF Serve, Step, FetchStep
  <2>5. QED
    BY <1>1, <2>1, <2>2, <2>3, <2>4 DEF JointStep
<1>2. Surroundings => Next
  BY DEF Surroundings, Next
<1>3. UNCHANGED jointVars => UNCHANGED vars
  BY DEF jointVars
<1>4. QED
  BY <1>1, <1>2, <1>3 DEF JointNext, Next

\* The service over the HTTP fetcher is one over some upstream: every theorem
\* about RemoteAsset is one about it.
THEOREM JointImplementsService == JointSpec => Spec
<1>1. JointInit => Init
  BY DEF JointInit
<1>2. [JointNext]_jointVars => [Next]_vars
  BY JointStepImplements
<1>3. QED
  BY <1>1, <1>2, PTL DEF JointSpec, Spec

-----------------------------------------------------------------------------
(* The inductive invariant                                                 *)

\* The variables of the HTTP fetcher have a value for every call.
HttpTyped ==
  /\ httpPc = [c \in Calls |-> httpPc[c]]
  /\ answer = [c \in Calls |-> answer[c]]
  /\ DOMAIN httpReq = Calls /\ DOMAIN checksum = Calls

\* The HTTP fetcher works on the request as the client sent it, and goes by
\* one of its checksums if there are any.
SameRequest(c) ==
  /\ httpPc[c] # "idle" => pc[c] # "idle" /\ httpReq[c] = req[c]
  /\ Http!Active(c) => checksum[c] \in Http!ChecksumSri(req[c])

\* What a call has downloaded has passed the check of its checksum.
DownloadIsVerified(c) ==
  fetched[c] # None =>
    pc[c] # "idle" /\ Http!Verified(req[c].qualifiers, fetched[c].digest)

\* A header is one that the client of the call gave, and it is for the URI.
SentAsAsked(s) ==
  \A h \in s.headers : \E q \in req[s.call].qualifiers \cap DOMAIN Headers :
    /\ Http!HeaderOf(q) = h
    /\ Headers[q].scope = "url" => req[s.call].uris[Headers[q].index + 1] = s.uri

\* Only calls that the HTTP fetcher has begun have sent anything.
SentByCalls == \A s \in sent : s.call \in Calls /\ httpPc[s.call] # "idle" /\ SentAsAsked(s)

JointInv ==
  /\ Typed
  /\ HttpTyped
  /\ \A c \in Calls : SameRequest(c) /\ DownloadIsVerified(c)
  /\ SentByCalls

-----------------------------------------------------------------------------
(* What a step can change                                                  *)

\* The HTTP fetcher keeps the request of call c and the checksum it goes by.
Keeps(c) ==
  /\ httpReq'[c] = httpReq[c] /\ checksum'[c] = checksum[c]
  /\ httpPc[c] = "idle" <=> httpPc'[c] = "idle"
  /\ Http!Active(c)' => Http!Active(c)

\* The HTTP fetcher is called, with the request that call c is about.
IsCalled(c) ==
  /\ pc[c] = "fetch" /\ httpPc[c] = "idle"
  /\ httpReq'[c] = req[c] /\ httpPc'[c] # "idle"
  /\ Http!Active(c)' => checksum'[c] \in Http!ChecksumSri(req[c])

\* A variable that has a value for every call still has one when the value of
\* one call has changed.
LEMMA ChangedForOne ==
  ASSUME NEW f, f = [d \in Calls |-> f[d]], NEW c \in Calls, NEW v, NEW g,
         g = [f EXCEPT ![c] = v]
  PROVE  g = [d \in Calls |-> g[d]]
OBVIOUS

\* A call to the HTTP fetcher concerns one call, and is about its request.
LEMMA CallHttpMoves ==
  ASSUME HttpTyped, NEW c \in Calls, CallHttp(c), NEW d \in Calls
  PROVE  HttpTyped' /\ (Keeps(d) \/ IsCalled(d)) /\ UNCHANGED sent
<1>1. Http!Receive(c, req[c]) /\ pc[c] = "fetch"
  BY DEF CallHttp, WrappedRequest, Http!Begin, Http!Refuse
<1>2. /\ httpPc[c] = "idle" /\ httpReq' = [httpReq EXCEPT ![c] = req[c]]
      /\ UNCHANGED sent
  BY <1>1 DEF Http!Receive, Http!history
<1>3. CASE Http!Begin(c, req[c])
  <2>1. PICK q \in Http!ChecksumSri(req[c]) : checksum' = [checksum EXCEPT ![c] = q]
    BY <1>3 DEF Http!Begin
  <2>2. httpPc' = [httpPc EXCEPT ![c] = "request"] /\ answer' = answer
    BY <1>3 DEF Http!Begin, Http!Goto
  <2>3. HttpTyped'
    BY <1>2, <2>1, <2>2, ChangedForOne DEF HttpTyped
  <2>4. Keeps(d) \/ IsCalled(d)
    BY <1>1, <1>2, <2>1, <2>2 DEF HttpTyped, Keeps, IsCalled, Http!Active
  <2>5. QED
    BY <1>2, <2>3, <2>4
<1>4. CASE Http!Refuse(c, req[c])
  <2>1. /\ checksum' = checksum /\ httpPc' = [httpPc EXCEPT ![c] = "done"]
        /\ \E m : answer' = [answer EXCEPT ![c] = m]
    BY <1>4 DEF Http!Refuse, Http!Reply, Http!Goto
  <2>2. HttpTyped'
    BY <1>2, <2>1, ChangedForOne DEF HttpTyped
  <2>3. Keeps(d) \/ IsCalled(d)
    BY <1>1, <1>2, <2>1 DEF HttpTyped, Keeps, IsCalled, Http!Active, Http!Running
  <2>4. QED
    BY <1>2, <2>2, <2>3
<1>5. QED
  BY <1>3, <1>4 DEF CallHttp, WrappedRequest

\* Nor does a step of the HTTP fetcher concern any other call, or change what
\* the call is about.
LEMMA HttpStepMoves ==
  ASSUME HttpTyped, NEW c \in Calls, Http!Step(c), NEW d \in Calls
  PROVE  HttpTyped' /\ Keeps(d)
<1>1. UNCHANGED <<httpReq, checksum>> /\ Http!Active(c)
  BY DEF Http!Step, Http!RequestFails, Http!BadStatus, Http!Request, Http!Send, Http!BodyFails,
         Http!Body, Http!Match, Http!Mismatch, Http!Store, Http!StoreFails, Http!Active,
         Http!Running
<1>2. \E l \in Http!Running \cup {"done"} : httpPc' = [httpPc EXCEPT ![c] = l]
  BY DEF Http!Step, Http!RequestFails, Http!BadStatus, Http!Request, Http!BodyFails,
         Http!Body, Http!Match, Http!Mismatch, Http!Store, Http!StoreFails, Http!Continue,
         Http!Goto, Http!Reply, Http!Running
<1>3. answer' = answer \/ \E m : answer' = [answer EXCEPT ![c] = m]
  BY DEF Http!Step, Http!RequestFails, Http!BadStatus, Http!Request, Http!BodyFails,
         Http!Body, Http!Match, Http!Mismatch, Http!Store, Http!StoreFails, Http!Continue,
         Http!Reply
<1>4. HttpTyped'
  BY <1>1, <1>2, <1>3, ChangedForOne DEF HttpTyped
<1>5. QED
  BY <1>1, <1>2, <1>4 DEF HttpTyped, Keeps, Http!Active, Http!Running

\* A request that the HTTP fetcher sends.
Sends(c) ==
  /\ httpPc[c] = "request"
  /\ sent' = sent \cup {[call |-> c, uri |-> Http!Uri(c),
                         headers |-> Http!HeadersFor(httpReq[c], Http!Uri(c))]}

\* A step of the HTTP fetcher sends one request at most.
LEMMA HttpStepSends ==
  ASSUME NEW c \in Calls, Http!Step(c)
  PROVE  UNCHANGED sent \/ Sends(c)
BY DEF Http!Step, Http!RequestFails, Http!BadStatus, Http!Request, Http!Send, Http!BodyFails,
       Http!Body, Http!Match, Http!Mismatch, Http!Store, Http!StoreFails, Http!ToCAS,
       Http!history, Sends

\* A step of a call is a call to the HTTP fetcher, one of its steps, or none
\* that concerns it.
LEMMA StepKinds ==
  ASSUME NEW c \in Calls, JointStep(c)
  PROVE  CallHttp(c) \/ Http!Step(c) \/ UNCHANGED httpVars
BY DEF JointStep, HttpDownload, HttpDeliver, Serve, Http!Step

\* What every step does to the variables of the HTTP fetcher.
LEMMA JointMoves ==
  ASSUME HttpTyped, [JointNext]_jointVars
  PROVE  /\ HttpTyped'
         /\ \A d \in Calls : Keeps(d) \/ IsCalled(d)
         /\ UNCHANGED sent \/ \E c \in Calls : Sends(c)
<1>1. CASE UNCHANGED httpVars
  BY <1>1 DEF httpVars, HttpTyped, Keeps, Http!Active
<1>2. ASSUME NEW c \in Calls, CallHttp(c)
      PROVE  HttpTyped' /\ (\A d \in Calls : Keeps(d) \/ IsCalled(d)) /\ UNCHANGED sent
  BY <1>2, CallHttpMoves
<1>3. ASSUME NEW c \in Calls, Http!Step(c)
      PROVE  HttpTyped' /\ (\A d \in Calls : Keeps(d)) /\ (UNCHANGED sent \/ Sends(c))
  BY <1>3, HttpStepMoves, HttpStepSends
<1>4. CASE Http!Die
  BY <1>4 DEF Http!Die, Http!history, HttpTyped, Keeps, Http!Active, Http!Running
<1>5. CASE JointNext
  BY <1>1, <1>2, <1>3, <1>4, <1>5, StepKinds DEF JointNext, Surroundings
<1>6. QED
  BY <1>1, <1>5 DEF jointVars

\* Content comes from the HTTP fetcher, when it has compared the checksum.
Delivers(c) ==
  /\ httpPc[c] = "check" /\ Http!Matches(c)
  /\ pc[c] = "fetch"
  /\ fetched'[c] = [uri |-> Http!Uri(c), digest |-> content[c]]
  /\ \A d \in Calls \ {c} : fetched'[d] = fetched[d]

\* What a call has downloaded changes in no other way.
LEMMA JointDelivers ==
  ASSUME Typed, [JointNext]_jointVars
  PROVE  UNCHANGED fetched \/ \E c \in Calls : Delivers(c)
<1>1. ASSUME NEW c \in Calls, JointStep(c)
      PROVE  UNCHANGED fetched \/ Delivers(c)
  <2>1. CASE CallHttp(c) \/ HttpDownload(c)
    BY <2>1 DEF CallHttp, HttpDownload, HttpFails, FetchFails, locals, vars
  <2>2. CASE HttpDeliver(c)
    <3>1. CASE Http!Match(c) /\ Download(c) /\ fetched'[c] = [uri |-> Http!Uri(c), digest |-> content[c]]
      BY <3>1 DEF Http!Match, Download, Delivers, Typed, TypeOK
    <3>2. CASE HttpFails(c) \/ Upload(c) \/ UploadFails(c)
      BY <3>2 DEF HttpFails, FetchFails, Upload, UploadFails, locals
    <3>3. QED
      BY <2>2, <3>1, <3>2 DEF HttpDeliver
  <2>3. CASE Serve(c)
    BY <2>3 DEF Serve, LookupHit, LookupMiss, CacheSingle, CacheList, PushStep, PushList,
                PushEach, PutRefused, PutFails, locals
  <2>4. QED
    BY <1>1, <2>1, <2>2, <2>3 DEF JointStep
<1>2. CASE Surroundings
  BY <1>2 DEF Surroundings, Arrive, Refuse, BeginFetch, BeginPush, Receive, Tick, LatePut,
              Evict, Quiescent, locals, vars
<1>3. CASE Crash \/ UNCHANGED jointVars
  BY <1>3 DEF Crash, locals, jointVars, vars
<1>4. QED
  BY <1>1, <1>2, <1>3 DEF JointNext

-----------------------------------------------------------------------------
(* The invariant is inductive                                              *)

\* Nothing has been downloaded where nothing is set.
LEMMA NoneIsNoContent == None \notin Content
<1>1. ASSUME NEW x \in Content, x = None
      PROVE  FALSE
  <2>1. DOMAIN x = {"uri", "digest"}
    BY <1>1 DEF Content
  <2>2. DOMAIN x = {"none"}
    BY <1>1 DEF None
  <2>3. QED
    BY <2>1, <2>2
<1>2. QED
  BY <1>1

\* The headers of a request for a URI are those of the client, and they are
\* for this URI or for all.
LEMMA HeadersAreForUri ==
  ASSUME NEW r, NEW u, NEW h \in Http!HeadersFor(r, u)
  PROVE  \E q \in r.qualifiers \cap DOMAIN Headers :
           /\ Http!HeaderOf(q) = h
           /\ Headers[q].scope = "url" => r.uris[Headers[q].index + 1] = u
<1>1. CASE Http!Scoped(r, "legacy") # {}
  <2>1. \E q \in Http!Scoped(r, "legacy") : h = Http!HeaderOf(q)
    BY <1>1 DEF Http!HeadersFor
  <2>2. QED
    BY <2>1 DEF Http!Scoped
<1>2. CASE Http!Scoped(r, "legacy") = {}
  <2>1. \/ \E q \in Http!Scoped(r, "url") : Http!UriOfHeader(r, q) = u /\ h = Http!HeaderOf(q)
        \/ \E q \in Http!Scoped(r, "all") : h = Http!HeaderOf(q)
    BY <1>2 DEF Http!HeadersFor
  <2>2. QED
    BY <2>1 DEF Http!Scoped, Http!UriOfHeader
<1>3. QED
  BY <1>1, <1>2

\* What passes the check of one of the checksums that a client gave is
\* content it may get.
LEMMA MatchingIsVerified ==
  ASSUME NEW c \in Calls, checksum[c] \in Http!ChecksumSri(req[c]), Http!Matches(c)
  PROVE  Http!Verified(req[c].qualifiers, content[c])
<1> SUFFICES ASSUME req[c].qualifiers \cap Http!Checksums # {}
             PROVE  \E q \in req[c].qualifiers \cap Http!Checksums :
                      q \in EmptyHash \/ content[c] \in Expected[q]
  BY DEF Http!Verified
<1>1. PICK q \in req[c].qualifiers \cap Http!Checksums : checksum[c] = {q}
  BY DEF Http!ChecksumSri
<1>2. QED
  BY <1>1 DEF Http!Matches

\* At the start no call has done anything.
LEMMA JointInvInit == JointInit => JointInv
<1> SUFFICES ASSUME JointInit PROVE JointInv
  OBVIOUS
<1>1. Typed
  BY TypedInit DEF JointInit
<1>2. HttpTyped /\ SentByCalls /\ \A c \in Calls : SameRequest(c)
  BY DEF JointInit, Http!Init, HttpTyped, SentByCalls, SameRequest, Http!Active, Http!Running
<1>3. \A c \in Calls : DownloadIsVerified(c)
  BY DEF JointInit, Init, DownloadIsVerified
<1>4. QED
  BY <1>1, <1>2, <1>3 DEF JointInv

\* Every step keeps the invariant.
LEMMA JointInvNext ==
  ASSUME JointInv, [JointNext]_jointVars, Typed'
  PROVE  JointInv'
<1>1. Typed /\ HttpTyped /\ [Next]_vars
  BY JointStepImplements DEF JointInv
<1>2. \A c \in Calls : pc[c] # "idle" => pc'[c] # "idle" /\ req'[c] = req[c]
  BY <1>1, Settles DEF Settled
<1>3. /\ HttpTyped'
      /\ \A c \in Calls : Keeps(c) \/ IsCalled(c)
  BY <1>1, JointMoves
<1>4. ASSUME NEW c \in Calls
      PROVE  SameRequest(c)'
  <2>1. SameRequest(c)
    BY DEF JointInv
  <2>2. CASE Keeps(c)
    <3>1. httpPc[c] # "idle" => pc[c] # "idle" /\ httpReq[c] = req[c] /\ req'[c] = req[c]
                                 /\ pc'[c] # "idle"
      BY <1>2, <2>1 DEF SameRequest
    <3>2. Http!Active(c)' => /\ checksum'[c] \in Http!ChecksumSri(req[c])
                             /\ req'[c] = req[c]
      BY <1>2, <2>1, <2>2, <3>1 DEF SameRequest, Keeps, Http!Active, Http!Running
    <3>3. Http!Active(c)' => checksum'[c] \in Http!ChecksumSri(req'[c])
      BY <3>2
    <3>4. QED
      BY <2>2, <3>1, <3>3 DEF SameRequest, Keeps, Http!ChecksumSri, Http!Checksums
  <2>3. CASE IsCalled(c)
    <3>1. pc'[c] # "idle" /\ req'[c] = req[c]
      BY <1>2, <2>3 DEF IsCalled
    <3>2. QED
      BY <2>3, <3>1 DEF SameRequest, IsCalled, Http!ChecksumSri, Http!Checksums
  <2>4. QED
    BY <1>3, <2>2, <2>3
<1>5. ASSUME NEW c \in Calls
      PROVE  DownloadIsVerified(c)'
  <2>1. SameRequest(c) /\ DownloadIsVerified(c)
    BY DEF JointInv
  <2>2. CASE fetched'[c] = fetched[c]
    BY <1>2, <2>1, <2>2 DEF DownloadIsVerified, Http!Verified, Http!Checksums
  <2>3. CASE Delivers(c)
    <3>1. checksum[c] \in Http!ChecksumSri(req[c]) /\ pc[c] # "idle"
      BY <2>1, <2>3 DEF Delivers, SameRequest, Http!Active, Http!Running
    <3>2. Http!Verified(req[c].qualifiers, content[c])
      BY <2>3, <3>1, MatchingIsVerified DEF Delivers
    <3>3. fetched'[c].digest = content[c] /\ pc'[c] # "idle" /\ req'[c] = req[c]
      BY <1>2, <2>3, <3>1 DEF Delivers
    <3>4. QED
      BY <3>2, <3>3 DEF DownloadIsVerified, Http!Verified, Http!Checksums
  <2>4. QED
    BY <1>1, <2>2, <2>3, JointDelivers DEF Delivers
<1>6. SentByCalls'
  <2> SUFFICES ASSUME NEW s \in sent'
               PROVE  s.call \in Calls /\ httpPc'[s.call] # "idle" /\ SentAsAsked(s)'
    BY DEF SentByCalls
  <2>1. ASSUME s.call \in Calls, httpPc[s.call] # "idle", SentAsAsked(s)
        PROVE  httpPc'[s.call] # "idle" /\ SentAsAsked(s)'
    <3>1. SameRequest(s.call)
      BY <2>1 DEF JointInv
    <3>2. req'[s.call] = req[s.call]
      BY <1>2, <2>1, <3>1 DEF SameRequest
    <3>3. httpPc'[s.call] # "idle"
      BY <1>3, <2>1 DEF Keeps, IsCalled
    <3>4. SentAsAsked(s)'
      BY <2>1, <3>2 DEF SentAsAsked, Http!HeaderOf
    <3>5. QED
      BY <3>3, <3>4
  <2>2. CASE s \in sent
    BY <2>1, <2>2 DEF JointInv, SentByCalls
  <2>3. ASSUME NEW c \in Calls, Sends(c), s \notin sent
        PROVE  s.call = c /\ httpPc[c] # "idle" /\ SentAsAsked(s)
    <3>1. /\ s = [call |-> c, uri |-> Http!Uri(c),
                  headers |-> Http!HeadersFor(httpReq[c], Http!Uri(c))]
          /\ httpPc[c] = "request"
      BY <2>3 DEF Sends
    <3>2. SameRequest(c)
      BY DEF JointInv
    <3>3. httpReq[c] = req[c]
      BY <3>1, <3>2 DEF SameRequest
    <3>4. s.call = c /\ s.uri = Http!Uri(c) /\ s.headers = Http!HeadersFor(req[c], Http!Uri(c))
      BY <3>1, <3>3
    <3>5. SentAsAsked(s)
      BY <3>4, HeadersAreForUri DEF SentAsAsked
    <3>6. QED
      BY <3>1, <3>4, <3>5
  <2>4. QED
    BY <1>1, <2>1, <2>2, <2>3, JointMoves
<1>7. QED
  BY <1>3, <1>4, <1>5, <1>6 DEF JointInv

\* The HTTP fetcher works for every call on the request as it came, and what
\* calls download through it is verified.
THEOREM JointInvariant == JointSpec => []JointInv
<1>1. JointInit => JointInv
  BY JointInvInit
<1>2. JointInv /\ Typed' /\ [JointNext]_jointVars => JointInv'
  BY JointInvNext
<1>3. JointSpec => []Typed
  <2>1. Puts => Typed
    BY DEF Puts
  <2>2. QED
    BY <2>1, JointImplementsService, PutsInvariant, PTL
<1>4. QED
  BY <1>1, <1>2, <1>3, PTL DEF JointSpec

-----------------------------------------------------------------------------
(* What clients get and what mirrors get                                   *)

\* References leave out no checksum: two requests with the same reference ask
\* for the same checksums.
LEMMA ReferencesKeepChecksums ==
  ASSUME NEW p, NEW q, removeVolatileQualifiers(p) = removeVolatileQualifiers(q), NEW d,
         Http!Verified(p, d)
  PROVE  Http!Verified(q, d)
<1>1. p \cap Http!Checksums = q \cap Http!Checksums
  BY HttpIsUpstream DEF removeVolatileQualifiers
<1>2. QED
  BY <1>1 DEF Http!Verified

\* A reference without a resource_type shares its key with no other one: its
\* action is made of all its qualifiers, and no generated action is without.
LEMMA KeysOfHttpReferences ==
  ASSUME NEW p \in Reference, NEW r, NEW uris,
         Key(p) = Key(FetchReference(r, uris)), r.qualifiers \cap Generators = {}
  PROVE  p = FetchReference(r, uris)
<1> DEFINE ref == FetchReference(r, uris)
<1>0. ref = [instance |-> ref.instance, function |-> ref.function, uris |-> ref.uris,
             qualifiers |-> ref.qualifiers]
      /\ ref.qualifiers \cap Generators = {}
  BY DEF FetchReference, NewAssetReference, removeVolatileQualifiers
<1> HIDE DEF ref
<1>1. ActionQualifiers(ref) = ref.qualifiers
  BY <1>0 DEF ActionQualifiers
<1>2. CASE backend = "actionCache"
  <2>1. /\ p.instance = ref.instance /\ p.function = ref.function /\ p.uris = ref.uris
        /\ ActionQualifiers(p) = ref.qualifiers
    BY <1>0, <1>1, <1>2 DEF Key, Reference, ref
  <2>2. p.qualifiers \cap Generators = {}
    <3>1. p.qualifiers \cap Generators \subseteq ActionQualifiers(p)
      BY DEF ActionQualifiers
    <3>2. QED
      BY <1>0, <2>1, <3>1
  <2>3. ActionQualifiers(p) = p.qualifiers
    BY <2>2 DEF ActionQualifiers
  <2>4. QED
    BY <1>0, <2>1, <2>3 DEF Reference, ref
<1>3. CASE backend # "actionCache"
  BY <1>3 DEF Key
<1>4. QED
  BY <1>2, <1>3

\* What the cache returns was pushed, or it was downloaded and verified for a
\* request with the same checksums.
LEMMA HitIsVerified ==
  ASSUME Puts, JointInv, HitIsCurrent, NEW c \in Calls, Hit(c)
  PROVE  IsPushed(c) \/ Http!Verified(req[c].qualifiers, response[c].digest)
<1> DEFINE asked == FetchReference(req[c], {response[c].uri})
<1>0. PICK i \in DOMAIN log : /\ Key(log[i].ref) = Key(asked)
                              /\ log[i].asset.digest = response[c].digest
  BY DEF HitIsCurrent, ServedBy
<1>1. log[i].ref = asked /\ log[i].asset.digest = response[c].digest
  <2>0. log[i] \in LogEntry
    BY <1>0 DEF Puts, Typed, TypeOK
  <2>1. log[i].ref \in Reference
    BY <2>0 DEF LogEntry
  <2>2. req[c].qualifiers \cap Generators = {}
    BY HttpIsUpstream DEF Hit, Puts, AnsweredIsAdmitted
  <2>3. QED
    BY <1>0, <2>1, <2>2, KeysOfHttpReferences
<1> DEFINE put == log[i]
           d   == put.call
<1>2. put \in LogEntry
  BY <1>1 DEF Puts, Typed, TypeOK
<1>3. Made(put) /\ d \in Calls
  BY <1>1, <1>2 DEF Made, LogEntry
<1>4. Entitled(d, put)
  BY <1>2, <1>3 DEF Puts, PutsAreEntitled
<1>5. req[d] \in Requests
  BY <1>3, <1>4 DEF Entitled, Putting, PushPath, Puts, Typed, TypeOK
<1>6. CASE IsPush(req[d])
  BY <1>1, <1>6 DEF IsPushed, ByPush
<1>7. CASE IsFetch(req[d])
  <2>1. /\ fetched[d] \in Content /\ put.asset.digest = fetched[d].digest
        /\ put.ref.qualifiers = removeVolatileQualifiers(req[d].qualifiers)
    BY <1>4, <1>7 DEF Entitled, FetchedPut
  <2>2. Http!Verified(req[d].qualifiers, response[c].digest)
    BY <1>1, <1>3, <2>1, NoneIsNoContent DEF JointInv, DownloadIsVerified
  <2>3. put.ref.qualifiers = removeVolatileQualifiers(req[c].qualifiers)
    BY <1>1 DEF FetchReference, NewAssetReference
  <2>4. QED
    BY <2>1, <2>2, <2>3, ReferencesKeepChecksums
<1>8. QED
  BY <1>5, <1>6, <1>7, RequestType

\* Whatever fails, whichever mirror answers and whichever call filled the
\* cache, a client that gave checksums gets content with one of them or what
\* was pushed for it (AnswersAreVerified): the HTTP fetcher checks the body
\* before it is stored, and references keep checksum.sri.
THEOREM JointAnswersAreVerified == JointSpec => []AnswersAreVerified
<1>1. Puts /\ JointInv /\ HitIsCurrent => AnswersAreVerified
  <2> SUFFICES ASSUME Puts, JointInv, HitIsCurrent, NEW c \in Calls, FetchOk(c)
               PROVE  IsPushed(c) \/ Http!Verified(req[c].qualifiers, response[c].digest)
    BY DEF AnswersAreVerified
  <2>1. CASE Hit(c)
    BY <2>1, HitIsVerified
  <2>2. CASE fetched[c] \in Content /\ response[c].digest = fetched[c].digest
    BY <2>2, NoneIsNoContent DEF JointInv, DownloadIsVerified
  <2>3. QED
    BY <2>1, <2>2 DEF Puts, AnsweredIsDownloaded
<1>2. QED
  BY <1>1, JointInvariant, JointImplementsService, PutsInvariant, HitsAreCurrent, PTL

\* However references sort their URIs, a header for one URI goes to the mirror
\* that the client counted (HeadersReachTheirMirror).
THEOREM JointHeadersReachTheirMirror == JointSpec => []HeadersReachTheirMirror
<1>1. JointInv => HeadersReachTheirMirror
  BY DEF JointInv, SentByCalls, SentAsAsked, HeadersReachTheirMirror
<1>2. QED
  BY <1>1, JointInvariant, PTL

-----------------------------------------------------------------------------
(* Below the caching fetcher is the HTTP fetcher                           *)

\* A request that the caching fetcher passes on is one for the HTTP fetcher.
LEMMA PassedOn ==
  ASSUME Typed, NEW c \in Calls, pc[c] = "fetch"
  PROVE  req[c] \in {r \in Requests : IsFetch(r) /\ r.uris # << >>}
<1>1. Active(c) /\ pc[c] \notin PushPath
  BY DEF Active, Running, MissPath, PushPath
<1>2. req[c] \in Requests /\ req[c].uris # << >>
  BY <1>1, CallType
<1>3. IsFetch(req[c])
  BY <1>1 DEF Typed, Admitted
<1>4. QED
  BY <1>2, <1>3

\* No step of the service itself writes to the CAS.
LEMMA ServingStoresNothing ==
  ASSUME (\E c \in Calls : Serve(c)) \/ Surroundings \/ UNCHANGED jointVars
  PROVE  UNCHANGED Http!vars
<1>1. UNCHANGED httpVars
  BY DEF Serve, Surroundings, jointVars
<1>2. UNCHANGED uploaded
  <2>1. CASE UNCHANGED jointVars
    BY <2>1 DEF jointVars, vars
  <2>2. ASSUME NEW c \in Calls, Serve(c)
        PROVE  UNCHANGED uploaded
    BY <2>2 DEF Serve, LookupHit, LookupMiss, CacheSingle, CacheList, PushStep, PushList,
                PushEach, PutRefused, PutFails
  <2>3. CASE Surroundings
    BY <2>3 DEF Surroundings, Arrive, Refuse, BeginFetch, BeginPush, Receive, Tick, LatePut,
                Evict, Quiescent, vars
  <2>4. QED
    BY <2>1, <2>2, <2>3
<1>3. QED
  BY <1>1, <1>2 DEF httpVars, Http!vars

\* When the service dies, the HTTP fetcher dies with it.
LEMMA DiesWithService ==
  ASSUME HttpTyped, Crash, Http!Die
  PROVE  Http!Crash \/ UNCHANGED Http!vars
<1>1. CASE (\E c \in Calls : Http!Active(c)) \/ bodies # {}
  BY <1>1 DEF Crash, Http!Crash
<1>2. CASE bodies = {} /\ \A c \in Calls : ~ Http!Active(c)
  <2>1. httpPc' = [c \in Calls |-> httpPc[c]] /\ answer' = [c \in Calls |-> answer[c]]
    BY <1>2 DEF Http!Die
  <2>2. httpPc' = httpPc /\ answer' = answer
    BY <2>1 DEF HttpTyped
  <2>3. QED
    BY <1>2, <2>2 DEF Http!Die, Http!vars, Http!history
<1>3. QED
  BY <1>1, <1>2

\* Seen from the HTTP fetcher, a step of the two is one of its own or none.
LEMMA JointStepIsHttp ==
  ASSUME Typed, HttpTyped, [JointNext]_jointVars
  PROVE  [Http!Next]_(Http!vars)
<1>1. ASSUME NEW c \in Calls, CallHttp(c)
      PROVE  Http!Arrive(c)
  <2>1. req[c] \in {r \in Requests : IsFetch(r) /\ r.uris # << >>}
    BY <1>1, PassedOn DEF CallHttp
  <2>2. Http!Begin(c, req[c]) \/ Http!Refuse(c, req[c])
    BY <1>1 DEF CallHttp, WrappedRequest
  <2>3. QED
    BY <2>1, <2>2 DEF Http!Arrive
<1>2. ASSUME NEW c \in Calls, HttpDownload(c) \/ HttpDeliver(c)
      PROVE  Http!Step(c)
  BY <1>2 DEF HttpDownload, HttpDeliver, Http!Step
<1>3. Crash /\ Http!Die => Http!Next \/ UNCHANGED Http!vars
  BY DiesWithService DEF Http!Next
<1>4. ASSUME NEW c \in Calls, JointStep(c)
      PROVE  Http!Next \/ UNCHANGED Http!vars
  BY <1>1, <1>2, <1>4, ServingStoresNothing DEF JointStep, Http!Next
<1>5. QED
  BY <1>3, <1>4, ServingStoresNothing DEF JointNext

\* The other component is implemented as well (ImplementsHttpFetcher): as the
\* caching fetcher calls it, with other calls storing and dying around it, the
\* HTTP fetcher does nothing that it would not do by itself.
THEOREM JointImplementsHttpFetcher == JointSpec => ImplementsHttpFetcher
<1>1. JointInit => Http!Init
  BY DEF JointInit
<1>2. JointInv /\ [JointNext]_jointVars => [Http!Next]_(Http!vars)
  BY JointStepIsHttp DEF JointInv
<1>3. QED
  BY <1>1, <1>2, JointInvariant, PTL DEF JointSpec, ImplementsHttpFetcher, Http!Spec
===============================================================================
