------------------------------ MODULE HttpFetcher ------------------------------
(***************************************************************************)
(* The fetcher that downloads blobs over HTTP: httpFetcher.  It tries the  *)
(* URIs in the order of the request, spools a body to a temporary file     *)
(* while hashing it, checks it against checksum.sri and hands the file to  *)
(* the CAS.  Calls run concurrently, and the process may die at any time.  *)
(*                                                                         *)
(* The content of a body is represented by its digest under the digest     *)
(* function of the request.                                                *)
(***************************************************************************)
EXTENDS Assets

CONSTANTS
  Calls,     \* identities of the calls made to the fetcher
  Requests,  \* the requests they carry
  Expected,  \* Expected[q]: the digests of the contents that have the
             \* checksum in checksum.sri qualifier q
  EmptyHash, \* the checksum.sri qualifiers that have no hash
  Malformed, \* the checksum.sri and header qualifiers that cannot be parsed
  Headers,   \* Headers[q]: what header qualifier q asks for, a record with
             \* its scope, "all" (http_header), "url" (http_header_url, with
             \* an index) or "legacy" (bazel.auth_headers, with a uri), and
             \* the name and value of a header
  Faults     \* the faults that occur: "crash"

Checksums == DOMAIN Expected

ASSUME HttpRequestsAssumption ==
  \A r \in Requests : r \in FetchRequest /\ r.uris # << >>
ASSUME HttpQualifiersAssumption ==
  /\ Checksums \subseteq Qualifiers
  /\ \A q \in Checksums : Expected[q] \subseteq Digests
  /\ EmptyHash \subseteq Checksums
  /\ Malformed \subseteq Checksums \cup DOMAIN Headers
  /\ DOMAIN Headers \subseteq Qualifiers \ Checksums
  /\ \A q \in DOMAIN Headers : Headers[q].scope \in {"all", "url", "legacy"}

VARIABLES
  pc,        \* pc[c]: where call c is
  req,       \* req[c]: its request
  checksum,  \* checksum[c]: the checksum.sri qualifiers it goes by
  index,     \* index[c]: the URI it is downloading
  content,   \* content[c]: the content it has downloaded
  files,     \* the calls that have a temporary file
  bodies,    \* the bodies of HTTP responses that are not closed
  cas,       \* the digests put into the CAS
  response,  \* response[c]: what it returned
  sent,      \* history: the HTTP requests made, or tried to make
  written    \* history: what each call has put in the CAS

history == <<sent, written>>
vars == <<pc, req, checksum, index, content, files, bodies, cas, response, sent,
          written>>

NoRequest == [none |-> TRUE]

Running == {"request", "body", "check", "store"}
Active(c) == pc[c] \in Running

Init ==
  /\ pc = [c \in Calls |-> "idle"]
  /\ req = [c \in Calls |-> NoRequest]
  /\ checksum = [c \in Calls |-> {}]
  /\ index = [c \in Calls |-> 1]
  /\ content = [c \in Calls |-> NoRequest]
  /\ files = {}
  /\ bodies = {}
  /\ cas = {}
  /\ response = [c \in Calls |-> NoRequest]
  /\ sent = {}
  /\ written = {}

Goto(c, label) == pc' = [pc EXCEPT ![c] = label]

Reply(c, message) ==
  /\ Goto(c, "done")
  /\ response' = [response EXCEPT ![c] = message]

Error(code) == [code |-> code]

Uri(c) == req[c].uris[index[c]]

-----------------------------------------------------------------------------
(* Headers: getAuthHeaders and ApplyHeaders                                *)

Scoped(r, scope) == {q \in r.qualifiers \cap DOMAIN Headers : Headers[q].scope = scope}

\* The index of an http_header_url counts from zero.
OutOfRange(r, q) == Headers[q].index >= Len(r.uris)

\* Faulty variant: the index counts from one.
FromOne(r, q) == IF Headers[q].index = 0 THEN r.uris[1] ELSE r.uris[Headers[q].index]

UriOfHeader(r, q) == r.uris[Headers[q].index + 1]

\* A legacy qualifier makes the others count for nothing, and the error of
\* its JSON is passed on as it is.
HeaderRefusal(r) ==
  IF Scoped(r, "legacy") \cap Malformed # {} THEN "Unknown"
  ELSE IF /\ Scoped(r, "legacy") = {}
          /\ \E q \in Scoped(r, "url") : q \in Malformed \/ OutOfRange(r, q)
  THEN "InvalidArgument"
  ELSE "Admitted"

HeaderOf(q) == [name |-> Headers[q].name, value |-> Headers[q].value]

\* The headers of an HTTP request for a URI: a header for this URI replaces
\* one for all URIs.
HeadersFor(r, uri) ==
  LET specific == {HeaderOf(q) : q \in {p \in Scoped(r, "url") : UriOfHeader(r, p) = uri}}
      general  == {HeaderOf(q) : q \in Scoped(r, "all")}
  IN  IF Scoped(r, "legacy") # {}
      THEN {HeaderOf(q) : q \in {p \in Scoped(r, "legacy") : Headers[p].uri = uri}}
      ELSE specific \cup {h \in general : \A s \in specific : s.name # h.name}

-----------------------------------------------------------------------------
(* FetchBlob and FetchDirectory                                            *)

\* The qualifiers that are not supported.  ("bazel.canonical_id" is, and
\* has no effect.)
CheckQualifiers(qualifiers) == qualifiers \ (Checksums \cup DOMAIN Headers)

\* getChecksumSri returns when it has parsed one checksum.sri: another one
\* is not looked at.  The qualifiers come in the order the client chose.
ChecksumSri(r) ==
  IF r.qualifiers \cap Checksums = {} THEN {{}}
  ELSE {{q} : q \in r.qualifiers \cap Checksums}

\* The error for a request that goes by the given checksum qualifiers.
Refusal(r, q) ==
  IF r.op = "FetchDirectory" THEN "PermissionDenied"
  ELSE IF r.function = "UNSUPPORTED" \/ q \cap Malformed # {} THEN "InvalidArgument"
  ELSE HeaderRefusal(r)

Receive(c, r) ==
  /\ pc[c] = "idle"
  /\ req' = [req EXCEPT ![c] = r]
  /\ UNCHANGED <<index, content, files, bodies, cas, history>>

Refuse(c, r) ==
  /\ Receive(c, r)
  /\ \E q \in ChecksumSri(r) :
       /\ Refusal(r, q) # "Admitted"
       /\ Reply(c, Error(Refusal(r, q)))
  /\ UNCHANGED checksum

Begin(c, r) ==
  /\ Receive(c, r)
  /\ \E q \in ChecksumSri(r) :
       /\ Refusal(r, q) = "Admitted"
       /\ checksum' = [checksum EXCEPT ![c] = q]
  /\ Goto(c, "request")
  /\ UNCHANGED response

-----------------------------------------------------------------------------
(* downloadBlob and the loop over the URIs                                 *)

\* Faulty variant: the loop leaves out the last URI.
MoreUrisButOne(c) == index[c] + 1 < Len(req[c].uris)

\* Faulty variant: the loop goes one URI too far.
OneUriTooMany(c) == index[c] <= Len(req[c].uris)

MoreUris(c) == index[c] < Len(req[c].uris)

\* The download has failed: the next URI is tried, if there is one.
Continue(c) ==
  IF MoreUris(c)
  THEN /\ index' = [index EXCEPT ![c] = @ + 1]
       /\ Goto(c, "request")
       /\ UNCHANGED response
  ELSE /\ Reply(c, Error("NotFound"))
       /\ UNCHANGED index

Send(c) ==
  /\ pc[c] = "request"
  /\ sent' = sent \cup {[call |-> c, uri |-> Uri(c), headers |-> HeadersFor(req[c], Uri(c))]}

\* The body of the response to the HTTP request of call c.
Response(c, status) == [call |-> c, uri |-> Uri(c), status |-> status]

\* The HTTP request cannot be built (it is one that was tried all the same) or
\* fails, or the temporary file for the answer cannot be created and the body
\* is closed ...
RequestFails(c) ==
  /\ Send(c)
  /\ Continue(c)
  /\ UNCHANGED <<req, checksum, content, files, bodies, cas, written>>

\* ... or the status is not 200, and downloadBlob returns before it has
\* arranged for the body to be closed ...
BadStatus(c) ==
  /\ Send(c)
  /\ bodies' = bodies \cup {Response(c, "error")}
  /\ Continue(c)
  /\ UNCHANGED <<req, checksum, content, files, cas, written>>

\* ... or the body is about to be read into the file.
Request(c) ==
  /\ Send(c)
  /\ files' = files \cup {c}
  /\ bodies' = bodies \cup {Response(c, "200")}
  /\ Goto(c, "body")
  /\ UNCHANGED <<req, checksum, index, content, cas, response, written>>

\* Faulty variant: the file is left behind.
Keep(c) == UNCHANGED files

\* The temporary file is closed and removed: by downloadBlob itself, or when
\* the buffer that has become its owner is discarded or consumed.
Remove(c) == files' = files \ {c}

\* Faulty variant: the body is left open.
LeaveOpen(c) == UNCHANGED bodies

\* By the end of downloadBlob the body is closed.
Close(c) == bodies' = bodies \ {Response(c, "200")}

\* The connection breaks before the body is complete.
BodyFails(c) ==
  /\ pc[c] = "body"
  /\ Remove(c)
  /\ Close(c)
  /\ Continue(c)
  /\ UNCHANGED <<req, checksum, content, cas, history>>

Body(c) ==
  /\ pc[c] = "body"
  /\ \E d \in Digests :
       /\ HashFunction[d] = FetchFunction(req[c])
       /\ content' = [content EXCEPT ![c] = d]
  /\ Close(c)
  /\ Goto(c, "check")
  /\ UNCHANGED <<req, checksum, index, files, cas, response, history>>

\* Faulty variant: the checksum is not looked at.
AnyContent(c) == TRUE

\* A checksum was not asked for, or it is the one of the content.  The empty
\* string stands for no checksum, and that is what an empty hash decodes to.
Matches(c) == \A q \in checksum[c] \ EmptyHash : content[c] \in Expected[q]

Match(c) ==
  /\ pc[c] = "check"
  /\ Matches(c)
  /\ Goto(c, "store")
  /\ UNCHANGED <<req, checksum, index, content, files, bodies, cas, response, history>>

\* The other URIs are not tried.
Mismatch(c) ==
  /\ pc[c] = "check"
  /\ ~ Matches(c)
  /\ Remove(c)
  /\ Reply(c, Error("Internal"))
  /\ UNCHANGED <<req, checksum, index, content, bodies, cas, history>>

ToCAS(c) ==
  /\ cas' = cas \cup {content[c]}
  /\ written' = written \cup {[call |-> c, digest |-> content[c]]}

Store(c) ==
  /\ pc[c] = "store"
  /\ ToCAS(c)
  /\ Remove(c)
  /\ Reply(c, [code |-> "OK", uri |-> Uri(c), digest |-> content[c]])
  /\ UNCHANGED <<req, checksum, index, content, bodies, sent>>

\* Faulty variant: the error of the CAS is not looked at.
StoreErrorIgnored(c) ==
  /\ pc[c] = "store"
  /\ Remove(c)
  /\ Reply(c, [code |-> "OK", uri |-> Uri(c), digest |-> content[c]])
  /\ UNCHANGED <<req, checksum, index, content, bodies, cas, history>>

\* The CAS returns an error, with or without the effect of the Put.
StoreFails(c) ==
  /\ pc[c] = "store"
  /\ ToCAS(c) \/ UNCHANGED <<cas, written>>
  /\ Remove(c)
  /\ Reply(c, Error("Internal"))
  /\ UNCHANGED <<req, checksum, index, content, bodies, sent>>

\* What a crash does to the calls: they end, and their connections with them.
\* What they have in the CAS and in the file system stays.
Die ==
  /\ pc' = [c \in Calls |-> IF Active(c) THEN "done" ELSE pc[c]]
  /\ response' = [c \in Calls |-> IF Active(c) THEN Error("Unavailable") ELSE response[c]]
  /\ bodies' = {}
  /\ UNCHANGED <<req, checksum, index, content, files, cas, history>>

\* (One while there is neither a call nor a connection has no effect.)
Crash ==
  /\ "crash" \in Faults
  /\ (\E c \in Calls : Active(c)) \/ bodies # {}
  /\ Die

Quiescent ==
  /\ \A c \in Calls : pc[c] = "done"
  /\ UNCHANGED vars

Arrive(c) == \E r \in Requests : Refuse(c, r) \/ Begin(c, r)

Step(c) ==
  \/ RequestFails(c) \/ BadStatus(c) \/ Request(c)
  \/ BodyFails(c) \/ Body(c)
  \/ Match(c) \/ Mismatch(c)
  \/ Store(c) \/ StoreFails(c)

Next == (\E c \in Calls : Arrive(c) \/ Step(c)) \/ Crash \/ Quiescent

Spec == Init /\ [][Next]_vars

-----------------------------------------------------------------------------
(* Properties                                                              *)

\* What a fetch returns.
Codes == {"InvalidArgument", "NotFound", "Internal", "PermissionDenied", "Unavailable",
          "Unknown"}

Answer == [code: Codes] \cup [code: {"OK"}, uri: Uris, digest: Digests]

\* Every variable holds a value of its kind; a call that has a body, or is
\* reading one, has a temporary file for it.
TypeOK ==
  /\ pc \in [Calls -> Running \cup {"idle", "done"}]
  /\ req \in [Calls -> Requests \cup {NoRequest}]
  /\ checksum \in [Calls -> SUBSET (Checksums \ Malformed)]
  /\ index \in [Calls -> Nat \ {0}]
  /\ content \in [Calls -> Digests \cup {NoRequest}]
  /\ files \subseteq Calls
  /\ bodies \subseteq [call: Calls, uri: Uris, status: {"200", "error"}]
  /\ cas \subseteq Digests
  /\ response \in [Calls -> Answer \cup {NoRequest}]
  /\ \A c \in Calls :
       /\ pc[c] = "idle" => index[c] = 1 /\ response[c] = NoRequest
       /\ pc[c] # "idle" => req[c] \in Requests
       /\ Active(c) => index[c] \in DOMAIN req[c].uris /\ response[c] = NoRequest
       /\ pc[c] = "done" => response[c] \in Answer
       /\ pc[c] \in {"body", "check", "store"} => c \in files
       /\ pc[c] \in {"check", "store"} =>
            content[c] \in Digests /\ HashFunction[content[c]] = FetchFunction(req[c])

\* A client that gave these qualifiers may get content d: it has the checksum
\* of one checksum.sri, if there is any.  One without a hash asks for nothing.
Verified(qualifiers, d) ==
  qualifiers \cap Checksums # {} =>
    \E q \in qualifiers \cap Checksums : q \in EmptyHash \/ d \in Expected[q]

\* What a call asked for by checksum is all it ever puts in the CAS: neither
\* the body of a failed mirror nor one that a failed Put left behind is
\* anything else.
StoredIsVerified == \A w \in written : Verified(req[w.call].qualifiers, w.digest)

\* The URIs that call c has tried, and the first n of its request.
Asked(c) == {u \in Uris : \E s \in sent : s.call = c /\ s.uri = u}

Upto(c, n) == {req[c].uris[j] : j \in 1 .. n}

\* A fetch returns NotFound only after it has tried every URI, and succeeds only
\* with one it has tried after all those before it in the request.  (A checksum
\* that does not match and an error of the CAS end it earlier, with Internal.)
TriesEveryUri ==
  \A c \in Calls : pc[c] = "done" =>
    /\ response[c].code = "NotFound" => Asked(c) = UrisOf(req[c])
    /\ response[c].code = "OK" =>
         \E i \in DOMAIN req[c].uris :
           req[c].uris[i] = response[c].uri /\ Asked(c) = Upto(c, i)

\* No temporary file outlives the call that made it, however the call ends,
\* unless the process dies.
NoTemporaryFiles == \A c \in files : Active(c) \/ response[c].code = "Unavailable"

\* Whichever mirrors break off, a response that is still open when its call
\* has gone on is one that had an error status.
OpenBodiesAreErrors ==
  \A m \in bodies :
    m.status = "error" \/ (pc[m.call] = "body" /\ Uri(m.call) = m.uri)

\* A header that a request gives for one URI is set on no request that the
\* fetcher makes to another.  (Redirects are followed by http.Client.)
HeadersStayWithTheirUri ==
  \A s \in sent : \A h \in s.headers : \E q \in req[s.call].qualifiers \cap DOMAIN Headers :
    /\ HeaderOf(q) = h
    /\ Headers[q].scope = "url" => req[s.call].uris[Headers[q].index + 1] = s.uri
    /\ Headers[q].scope = "legacy" => Headers[q].uri = s.uri

\* The error text of getChecksumSri, "Multiple checksum.sri provided": a
\* request with more than one is refused.
MultipleChecksumsRefused ==
  \A c \in Calls : pc[c] = "done" /\ response[c].code = "OK" =>
    \A p, q \in req[c].qualifiers \cap Checksums : p = q

-----------------------------------------------------------------------------
(* Refinement                                                              *)

Fetcher == INSTANCE Upstream WITH
  stored  <- cas,
  running <- [c \in Calls |-> IF Active(c) THEN req[c] ELSE NoRequest],
  outcome <- response

\* The HTTP fetcher is a fetcher as the caching fetcher expects it: it ends
\* in an error, or with content of one of the URIs that the CAS has.
ImplementsUpstream == Fetcher!Spec
===============================================================================
