------------------------------- MODULE CachedHttp -------------------------------
(***************************************************************************)
(* The service with the HTTP fetcher below the caching fetcher:            *)
(* RemoteAsset with HttpFetcher in place of an abstract upstream.          *)
(*                                                                         *)
(* Where a call is fetching, the steps are those of the HTTP fetcher.  The *)
(* ones that RemoteAsset sees (the content is there, the CAS has it, an    *)
(* error is returned) are steps of both, and to RemoteAsset the others are *)
(* none.  The two share the CAS, and a crash takes both.                   *)
(***************************************************************************)
EXTENDS RemoteAsset

LOCAL INSTANCE TLC

CONSTANTS
  Expected,   \* as in HttpFetcher
  EmptyHash,
  Malformed,
  Headers

VARIABLES
  httpPc,     \* the variables of HttpFetcher, renamed where both have one:
  httpReq,    \* pc, req, index and response
  checksum,
  mirror,
  content,
  files,
  bodies,
  answer,
  sent,
  written

httpVars  == <<httpPc, httpReq, checksum, mirror, content, files, bodies, answer,
               sent, written>>
jointVars == <<vars, httpVars>>

Http == INSTANCE HttpFetcher WITH
  Requests <- {r \in Requests : IsFetch(r) /\ r.uris # << >>},
  pc       <- httpPc,
  req      <- httpReq,
  index    <- mirror,
  cas      <- uploaded,
  response <- answer

\* The validating fetcher goes by CheckQualifiers of the fetcher it wraps, the
\* errors from upstream are those of the HTTP fetcher, and what references leave
\* out are headers: checksum.sri is none of them.  It does not support
\* resource_type, so that no fetch comes with one.
ASSUME HttpIsUpstream ==
  /\ SupportedQualifiers = {q \in Qualifiers : Http!CheckQualifiers({q}) = {}}
  /\ UpstreamErrors = {"PermissionDenied", "InvalidArgument", "Unknown", "NotFound",
                       "Internal"}
  /\ VolatileQualifiers \cap Http!Checksums = {}
  /\ SupportedQualifiers \cap Generators = {}

JointInit == Init /\ Http!Init

-----------------------------------------------------------------------------
(* Steps of both                                                           *)

\* The HTTP fetcher returns an error, and the caching fetcher returns it too.
HttpFails(c) ==
  /\ answer'[c] # Http!NoRequest
  /\ FetchFails(c)
  /\ response'[c] = answer'[c]

\* Faulty variant: the URIs have been sorted in place, as NewAssetReference
\* does with those it is given.
SortedRequest(c) == [req[c] EXCEPT !.uris = SortSeq(@, <)]

\* What the caching fetcher passes on: the request as it came.
WrappedRequest(c) == req[c]

CallHttp(c) ==
  /\ pc[c] = "fetch"
  /\ \/ Http!Begin(c, WrappedRequest(c)) /\ UNCHANGED vars
     \/ Http!Refuse(c, WrappedRequest(c)) /\ HttpFails(c)

\* A URI fails, and it is the last one or not; or a response comes in.
HttpDownload(c) ==
  \/ /\ Http!RequestFails(c) \/ Http!BadStatus(c) \/ Http!BodyFails(c)
     /\ IF Http!MoreUris(c) THEN UNCHANGED vars ELSE HttpFails(c)
  \/ (Http!Request(c) \/ Http!Body(c)) /\ UNCHANGED vars

\* The checksum is compared, and what passes goes to the CAS.
HttpDeliver(c) ==
  \/ /\ Http!Match(c)
     /\ Download(c)
     /\ fetched'[c] = [uri |-> Http!Uri(c), digest |-> content[c]]
  \/ Http!Mismatch(c) /\ HttpFails(c)
  \/ Http!Store(c) /\ Upload(c)
  \/ Http!StoreFails(c) /\ UploadFails(c)

\* The steps of the service itself.
Serve(c) ==
  /\ \/ LookupHit(c) \/ LookupMiss(c) \/ CacheSingle(c) \/ CacheList(c)
     \/ PushStep(c) \/ PutRefused(c) \/ PutFails(c)
  /\ UNCHANGED httpVars

JointStep(c) == CallHttp(c) \/ HttpDownload(c) \/ HttpDeliver(c) \/ Serve(c)

Surroundings ==
  /\ (\E c \in Calls : Arrive(c)) \/ Tick \/ LatePut \/ Evict \/ Quiescent
  /\ UNCHANGED httpVars

JointNext ==
  \/ \E c \in Calls : JointStep(c)
  \/ Surroundings
  \/ Crash /\ Http!Die

JointSpec == JointInit /\ [][JointNext]_jointVars

\* The runtime schedules every goroutine, the store and the CAS answer each
\* request in the end, if only with an error, and an HTTP server answers or the
\* connection breaks.
JointFairness == \A c \in Calls : WF_jointVars(JointStep(c))

JointFairSpec == JointSpec /\ JointFairness

-----------------------------------------------------------------------------
(* Properties                                                              *)

\* The digest that fetch c returned is one that a push stored under the
\* reference it was found by.
IsPushed(c) ==
  \E i \in DOMAIN log :
    /\ ByPush(i)
    /\ log[i].ref = FetchReference(req[c], {response[c].uri})
    /\ log[i].asset.digest = response[c].digest

\* A client that asks for a checksum gets content with this checksum (with one
\* of them, if it gave several), or what somebody pushed for it: from the mirror
\* that answered, and from the cache whichever call it was that downloaded it,
\* and whatever failed on the way.
AnswersAreVerified ==
  \A c \in Calls : FetchOk(c) =>
    IsPushed(c) \/ Http!Verified(req[c].qualifiers, response[c].digest)

\* A header that the client gave for one of its URIs, by number, goes to that
\* URI as the client counted them: though references sort the URIs they are
\* made of in place, none is made of the client's list before the download.
HeadersReachTheirMirror ==
  \A s \in sent : \A h \in s.headers :
    \E q \in req[s.call].qualifiers \cap DOMAIN Headers :
      /\ Http!HeaderOf(q) = h
      /\ Headers[q].scope = "url" => req[s.call].uris[Headers[q].index + 1] = s.uri

\* Below the caching fetcher the HTTP fetcher is the one of HttpFetcher: it is
\* called for fetches with URIs only and once for each, nobody else writes to
\* the CAS, and when the service dies so does it.
ImplementsHttpFetcher == Http!Spec
===============================================================================
