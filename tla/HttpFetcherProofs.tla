--------------------------- MODULE HttpFetcherProofs ---------------------------
(***************************************************************************)
(* Theorems about HttpFetcher and their proofs: every safety invariant of  *)
(* the runs, and that it implements Upstream, for every number of calls,   *)
(* every list of URIs and every set of qualifiers.                         *)
(***************************************************************************)
EXTENDS HttpFetcher, TLAPS

-----------------------------------------------------------------------------
(* The inductive invariant                                                 *)

\* What the history says of call c: a call that has not begun has done
\* nothing, and one that is running has asked the URIs up to the one it is
\* at, this one included once it has a response.
Progress ==
  /\ \A s \in sent : s.call \in Calls /\ pc[s.call] # "idle"
  /\ \A w \in written : w.call \in Calls /\ pc[w.call] # "idle"
  /\ \A c \in Calls :
       /\ pc[c] = "request" => Asked(c) = Upto(c, index[c] - 1)
       /\ pc[c] \in {"body", "check", "store"} => Asked(c) = Upto(c, index[c])

\* The checksum that a running call goes by is one of its request, and what it
\* is about to store has this checksum.
GoesByChecksum ==
  \A c \in Calls :
    /\ Active(c) => checksum[c] \in ChecksumSri(req[c])
    /\ pc[c] = "store" => Matches(c)

\* A call has a temporary file only from the moment its body is read.
FilesInUse ==
  \A c \in files :
    pc[c] \in {"body", "check", "store"} \/ (pc[c] = "done" /\ response[c].code = "Unavailable")

\* A request does not change once it has arrived, and so the history is read
\* with the requests of now.
Inv ==
  /\ TypeOK
  /\ Progress
  /\ GoesByChecksum
  /\ FilesInUse
  /\ TriesEveryUri
  /\ StoredIsVerified
  /\ OpenBodiesAreErrors
  /\ HeadersStayWithTheirUri

-----------------------------------------------------------------------------
(* Requests and calls                                                      *)

\* The URIs of a request.
LEMMA RequestType ==
  ASSUME NEW r \in Requests
  PROVE  /\ r.uris \in Seq(Uris) /\ Len(r.uris) \in Nat \ {0}
         /\ DOMAIN r.uris = 1 .. Len(r.uris)
         /\ \A j \in 1 .. Len(r.uris) : r.uris[j] \in Uris
         /\ UrisOf(r) = {r.uris[j] : j \in 1 .. Len(r.uris)}
         /\ r # NoRequest
<1>1. r \in FetchRequest /\ r.uris # << >>
  BY HttpRequestsAssumption
<1>2. r.uris \in Seq(Uris)
  BY <1>1 DEF FetchRequest, UriList
<1>3. r # NoRequest
  <2>1. "op" \in DOMAIN r
    BY <1>1 DEF FetchRequest
  <2>2. "op" \notin DOMAIN NoRequest
    BY DEF NoRequest
  <2>3. QED
    BY <2>1, <2>2
<1>4. UrisOf(r) = {r.uris[j] : j \in 1 .. Len(r.uris)}
  BY <1>2 DEF UrisOf, Range
<1>5. Len(r.uris) \in Nat \ {0}
  BY <1>1, <1>2
<1>6. QED
  BY <1>2, <1>3, <1>4, <1>5

\* A running call is at one of the URIs of its request.
LEMMA RunningCall ==
  ASSUME TypeOK, NEW c \in Calls, Active(c)
  PROVE  /\ req[c] \in Requests
         /\ index[c] \in 1 .. Len(req[c].uris)
         /\ Len(req[c].uris) \in Nat
         /\ Uri(c) \in Uris
         /\ response[c] = NoRequest
<1>1. req[c] \in Requests /\ index[c] \in DOMAIN req[c].uris /\ response[c] = NoRequest
  BY DEF TypeOK, Active, Running
<1>2. QED
  BY <1>1, RequestType DEF Uri

\* The record for a response that is open.
LEMMA OpenType ==
  ASSUME TypeOK, NEW c \in Calls, Active(c), NEW status \in {"200", "error"}
  PROVE  /\ Response(c, status) \in [call: Calls, uri: Uris, status: {"200", "error"}]
         /\ Response(c, status).call = c
         /\ Response(c, status).status = status
         /\ Response(c, status).uri = Uri(c)
BY RunningCall DEF Response

\* The answers of a fetch are none of the values of a variable not set.
LEMMA AnswerType ==
  /\ \A code \in Codes : Error(code) \in Answer /\ Error(code).code = code
  /\ \A u \in Uris, d \in Digests : [code |-> "OK", uri |-> u, digest |-> d] \in Answer
  /\ NoRequest \notin Answer
<1>1. \A m \in Answer : "code" \in DOMAIN m
  BY DEF Answer
<1>2. "code" \notin DOMAIN NoRequest
  BY DEF NoRequest
<1>3. NoRequest \notin Answer
  BY <1>1, <1>2
<1>4. QED
  BY <1>3 DEF Answer, Error

\* The errors of Refuse.
LEMMA RefusalType ==
  ASSUME NEW r, NEW q, Refusal(r, q) # "Admitted"
  PROVE  Refusal(r, q) \in {"PermissionDenied", "InvalidArgument", "Unknown"}
BY DEF Refusal, HeaderRefusal

\* The checksum.sri qualifiers that a request goes by.
LEMMA ChecksumType ==
  ASSUME NEW r \in Requests, NEW q \in ChecksumSri(r), Refusal(r, q) = "Admitted"
  PROVE  q \in SUBSET (Checksums \ Malformed)
<1>1. q \subseteq Checksums
  BY DEF ChecksumSri
<1>2. q \cap Malformed = {}
  BY DEF Refusal
<1>3. QED
  BY <1>1, <1>2

-----------------------------------------------------------------------------
(* Type correctness                                                        *)

\* A step of call c leaves every other call where it is.
Local(c) ==
  \A d \in Calls \ {c} :
    /\ pc'[d] = pc[d] /\ req'[d] = req[d] /\ index'[d] = index[d]
    /\ checksum'[d] = checksum[d] /\ content'[d] = content[d]
    /\ response'[d] = response[d]

\* The next URI, or the end.
LEMMA ContinueEffect ==
  ASSUME TypeOK, NEW c \in Calls, Active(c), Continue(c)
  PROVE  /\ pc' \in [Calls -> Running \cup {"idle", "done"}]
         /\ index' \in [Calls -> Nat \ {0}]
         /\ response' \in [Calls -> Answer \cup {NoRequest}]
         /\ \A d \in Calls \ {c} :
              pc'[d] = pc[d] /\ index'[d] = index[d] /\ response'[d] = response[d]
         /\ \/ /\ MoreUris(c) /\ pc'[c] = "request" /\ response'[c] = NoRequest
               /\ index'[c] = index[c] + 1 /\ index'[c] \in 1 .. Len(req[c].uris)
               /\ response' = response /\ pc' = [pc EXCEPT ![c] = "request"]
            \/ /\ ~ MoreUris(c) /\ pc'[c] = "done" /\ response'[c] = Error("NotFound")
               /\ index'[c] = index[c] /\ index[c] = Len(req[c].uris)
               /\ pc' = [pc EXCEPT ![c] = "done"]
               /\ response' = [response EXCEPT ![c] = Error("NotFound")]
<1>1. /\ index[c] \in 1 .. Len(req[c].uris) /\ Len(req[c].uris) \in Nat
      /\ response[c] = NoRequest
  BY RunningCall
<1>2. Error("NotFound") \in Answer
  BY AnswerType DEF Codes
<1>3. /\ pc \in [Calls -> Running \cup {"idle", "done"}]
      /\ index \in [Calls -> Nat \ {0}]
      /\ response \in [Calls -> Answer \cup {NoRequest}]
  BY DEF TypeOK
<1>4. CASE MoreUris(c)
  BY <1>1, <1>3, <1>4 DEF Continue, Goto, MoreUris, Running
<1>5. CASE ~ MoreUris(c)
  BY <1>1, <1>2, <1>3, <1>5 DEF Continue, Goto, Reply, MoreUris
<1>6. QED
  BY <1>4, <1>5

\* A call ends with an answer.
LEMMA ReplyEffect ==
  ASSUME TypeOK, NEW c \in Calls, NEW m \in Answer, Reply(c, m)
  PROVE  /\ pc' \in [Calls -> Running \cup {"idle", "done"}]
         /\ response' \in [Calls -> Answer \cup {NoRequest}]
         /\ pc'[c] = "done" /\ response'[c] = m
         /\ \A d \in Calls \ {c} : pc'[d] = pc[d] /\ response'[d] = response[d]
BY DEF Reply, Goto, TypeOK

\* No call is running when the process starts.
LEMMA InitInv == Init => Inv
<1> SUFFICES ASSUME Init PROVE Inv
  OBVIOUS
<1>1. TypeOK
  BY DEF Init, TypeOK, Active, Running
<1>2. Progress /\ GoesByChecksum /\ FilesInUse
  BY DEF Init, Progress, GoesByChecksum, FilesInUse, Active, Running
<1>3. TriesEveryUri /\ StoredIsVerified /\ OpenBodiesAreErrors /\ HeadersStayWithTheirUri
  BY DEF Init, TriesEveryUri, StoredIsVerified, OpenBodiesAreErrors, HeadersStayWithTheirUri
<1>4. QED
  BY <1>1, <1>2, <1>3 DEF Inv

\* A step of a running call that keeps its request, in terms of what it leaves
\* in the variables of this call.
LEMMA TypeStep ==
  ASSUME TypeOK, NEW c \in Calls, Active(c), UNCHANGED <<req, checksum>>,
         pc' \in [Calls -> Running \cup {"idle", "done"}],
         index' \in [Calls -> Nat \ {0}],
         response' \in [Calls -> Answer \cup {NoRequest}],
         content' \in [Calls -> Digests \cup {NoRequest}],
         files' \in SUBSET Calls,
         bodies' \in SUBSET [call: Calls, uri: Uris, status: {"200", "error"}],
         cas' \in SUBSET Digests,
         Local(c), files \ {c} \subseteq files',
         pc'[c] # "idle",
         pc'[c] # "done" => index'[c] \in 1 .. Len(req[c].uris) /\ response'[c] = NoRequest,
         pc'[c] = "done" => response'[c] \in Answer,
         pc'[c] \in {"body", "check", "store"} => c \in files',
         pc'[c] \in {"check", "store"} =>
           content'[c] \in Digests /\ HashFunction[content'[c]] = FetchFunction(req[c])
  PROVE  TypeOK'
<1>1. req[c] \in Requests /\ DOMAIN req[c].uris = 1 .. Len(req[c].uris)
  BY RunningCall, RequestType
<1>2. ASSUME NEW d \in Calls
      PROVE  /\ pc'[d] = "idle" => index'[d] = 1 /\ response'[d] = NoRequest
             /\ pc'[d] # "idle" => req[d] \in Requests
             /\ pc'[d] \in Running => index'[d] \in DOMAIN req[d].uris /\ response'[d] = NoRequest
             /\ pc'[d] = "done" => response'[d] \in Answer
             /\ pc'[d] \in {"body", "check", "store"} => d \in files'
             /\ pc'[d] \in {"check", "store"} =>
                  content'[d] \in Digests /\ HashFunction[content'[d]] = FetchFunction(req[d])
  <2>1. CASE d = c
    BY <1>1, <2>1 DEF Running
  <2>2. CASE d # c
    BY <1>2, <2>2 DEF TypeOK, Local, Active
  <2>3. QED
    BY <2>1, <2>2
<1>3. QED
  BY <1>2 DEF TypeOK, Active, FetchFunction

\* The arrival of a request.
LEMMA TypeArrive ==
  ASSUME TypeOK, NEW c \in Calls, Arrive(c)
  PROVE  /\ TypeOK' /\ Local(c) /\ pc[c] = "idle" /\ pc'[c] # "idle"
         /\ UNCHANGED <<index, content, files, bodies, cas, history>>
         /\ \/ /\ pc'[c] = "done" /\ response'[c].code \in {"PermissionDenied", "InvalidArgument", "Unknown"}
               /\ response' = [response EXCEPT ![c] = Error(response'[c].code)]
            \/ /\ pc'[c] = "request" /\ response' = response
               /\ checksum'[c] \in ChecksumSri(req'[c])
         /\ req'[c] \in Requests
         /\ pc' = [pc EXCEPT ![c] = pc'[c]]
         /\ req' = [req EXCEPT ![c] = req'[c]]
<1>1. PICK r \in Requests : Refuse(c, r) \/ Begin(c, r)
  BY DEF Arrive
<1>2. /\ pc[c] = "idle" /\ req' = [req EXCEPT ![c] = r]
      /\ UNCHANGED <<index, content, files, bodies, cas, history>>
  BY <1>1 DEF Refuse, Begin, Receive
<1>3. 1 \in DOMAIN r.uris /\ index[c] = 1 /\ response[c] = NoRequest
  BY <1>2, RequestType DEF TypeOK
<1>4. CASE Refuse(c, r)
  <2>1. PICK q \in ChecksumSri(r) :
          Refusal(r, q) # "Admitted" /\ Reply(c, Error(Refusal(r, q)))
    BY <1>4 DEF Refuse
  <2>2. Refusal(r, q) \in {"PermissionDenied", "InvalidArgument", "Unknown"}
    BY <2>1, RefusalType
  <2>3. Error(Refusal(r, q)) \in Answer /\ Error(Refusal(r, q)).code = Refusal(r, q)
    BY <2>2, AnswerType DEF Codes
  <2>4. /\ pc' \in [Calls -> Running \cup {"idle", "done"}]
        /\ response' \in [Calls -> Answer \cup {NoRequest}]
        /\ pc'[c] = "done" /\ response'[c] = Error(Refusal(r, q))
        /\ \A d \in Calls \ {c} : pc'[d] = pc[d] /\ response'[d] = response[d]
    BY <2>1, <2>3, ReplyEffect
  <2>5. UNCHANGED checksum
    BY <1>4 DEF Refuse
  <2>6. TypeOK'
    <3>1. /\ req' \in [Calls -> Requests \cup {NoRequest}] /\ req'[c] = r
          /\ \A d \in Calls \ {c} : req'[d] = req[d]
      BY <1>2 DEF TypeOK
    <3>2. QED
      BY <1>2, <2>3, <2>4, <2>5, <3>1 DEF TypeOK, Active, Running, FetchFunction
  <2>7. Local(c)
    BY <1>2, <2>4, <2>5 DEF Local, TypeOK
  <2>8. /\ response' = [response EXCEPT ![c] = Error(response'[c].code)]
        /\ pc' = [pc EXCEPT ![c] = pc'[c]]
    BY <2>1, <2>3, <2>4 DEF Reply, Goto
  <2>9. QED
    BY <1>2, <2>2, <2>3, <2>4, <2>6, <2>7, <2>8 DEF TypeOK
<1>5. CASE Begin(c, r)
  <2>1. PICK q \in ChecksumSri(r) :
          Refusal(r, q) = "Admitted" /\ checksum' = [checksum EXCEPT ![c] = q]
    BY <1>5 DEF Begin
  <2>2. q \in SUBSET (Checksums \ Malformed)
    BY <2>1, ChecksumType
  <2>3. pc' = [pc EXCEPT ![c] = "request"] /\ UNCHANGED response
    BY <1>5 DEF Begin, Goto
  <2>4. checksum' \in [Calls -> SUBSET (Checksums \ Malformed)]
    BY <2>1, <2>2 DEF TypeOK
  <2>5. TypeOK'
    BY <1>2, <1>3, <2>3, <2>4 DEF TypeOK, Active, Running, FetchFunction
  <2>6. Local(c)
    BY <1>2, <2>1, <2>3 DEF Local, TypeOK
  <2>7. QED
    BY <1>2, <2>1, <2>3, <2>5, <2>6 DEF TypeOK
<1>6. QED
  BY <1>1, <1>4, <1>5

\* A step of a running call.
LEMMA TypeOfStep ==
  ASSUME TypeOK, NEW c \in Calls, Step(c)
  PROVE  TypeOK' /\ Local(c) /\ Active(c) /\ pc'[c] # "idle" /\ UNCHANGED <<req, checksum>>
<1>1. Active(c) /\ UNCHANGED <<req, checksum>>
  BY DEF Step, RequestFails, BadStatus, Request, BodyFails, Body, Match, Mismatch, Store,
         StoreFails, Send, Active, Running
<1>2. /\ req[c] \in Requests /\ index[c] \in 1 .. Len(req[c].uris)
      /\ Uri(c) \in Uris /\ response[c] = NoRequest
  BY <1>1, RunningCall
<1>3. /\ pc \in [Calls -> Running \cup {"idle", "done"}]
      /\ index \in [Calls -> Nat \ {0}]
      /\ response \in [Calls -> Answer \cup {NoRequest}]
      /\ content \in [Calls -> Digests \cup {NoRequest}]
      /\ files \in SUBSET Calls
      /\ bodies \in SUBSET [call: Calls, uri: Uris, status: {"200", "error"}]
      /\ cas \in SUBSET Digests
  BY DEF TypeOK
<1>4. \A status \in {"200", "error"} :
        Response(c, status) \in [call: Calls, uri: Uris, status: {"200", "error"}]
  BY <1>1, OpenType
<1>5. pc[c] \in {"check", "store"} =>
        content[c] \in Digests /\ HashFunction[content[c]] = FetchFunction(req[c])
  BY DEF TypeOK
<1>6. pc[c] \in {"body", "check", "store"} => c \in files
  BY DEF TypeOK
<1>7. CASE RequestFails(c) \/ BadStatus(c) \/ BodyFails(c)
  <2>1. /\ Continue(c) /\ UNCHANGED <<content, cas>>
        /\ files' \in {files, files \ {c}}
        /\ \/ bodies' \subseteq bodies
           \/ bodies' = bodies \cup {Response(c, "error")}
    BY <1>7 DEF RequestFails, BadStatus, BodyFails, Remove, Close
  <2>2. /\ pc' \in [Calls -> Running \cup {"idle", "done"}]
        /\ index' \in [Calls -> Nat \ {0}]
        /\ response' \in [Calls -> Answer \cup {NoRequest}]
        /\ Local(c)
        /\ \/ /\ pc'[c] = "request" /\ response'[c] = NoRequest
              /\ index'[c] \in 1 .. Len(req[c].uris)
           \/ pc'[c] = "done" /\ response'[c] = Error("NotFound")
    BY <1>1, <2>1, ContinueEffect DEF Local
  <2>3. Error("NotFound") \in Answer
    BY AnswerType DEF Codes
  <2>4. /\ bodies' \in SUBSET [call: Calls, uri: Uris, status: {"200", "error"}]
        /\ files' \in SUBSET Calls /\ files \ {c} \subseteq files'
    BY <1>3, <1>4, <2>1
  <2>5. QED
    BY <1>1, <1>3, <2>1, <2>2, <2>3, <2>4, TypeStep
<1>8. CASE Request(c)
  <2>1. pc' = [pc EXCEPT ![c] = "body"] /\ files' = files \cup {c}
        /\ bodies' = bodies \cup {Response(c, "200")}
        /\ UNCHANGED <<index, content, cas, response>>
    BY <1>8 DEF Request, Goto
  <2>2. Local(c) /\ pc'[c] = "body" /\ pc' \in [Calls -> Running \cup {"idle", "done"}]
    BY <1>1, <1>3, <2>1 DEF Local, Running
  <2>3. bodies' \in SUBSET [call: Calls, uri: Uris, status: {"200", "error"}]
    BY <1>3, <1>4, <2>1
  <2>4. QED
    BY <1>1, <1>2, <1>3, <2>1, <2>2, <2>3, TypeStep
<1>9. CASE Body(c)
  <2>1. PICK x \in Digests : HashFunction[x] = FetchFunction(req[c])
                             /\ content' = [content EXCEPT ![c] = x]
    BY <1>9 DEF Body
  <2>2. pc[c] = "body" /\ pc' = [pc EXCEPT ![c] = "check"] /\ UNCHANGED <<index, files, cas, response>>
        /\ bodies' \subseteq bodies
    BY <1>9 DEF Body, Goto, Close
  <2>3. Local(c) /\ pc'[c] = "check" /\ pc' \in [Calls -> Running \cup {"idle", "done"}]
        /\ content' \in [Calls -> Digests \cup {NoRequest}] /\ content'[c] = x
    BY <1>1, <1>3, <2>1, <2>2 DEF Local, Running
  <2>4. bodies' \in SUBSET [call: Calls, uri: Uris, status: {"200", "error"}]
    BY <1>3, <2>2
  <2>5. QED
    BY <1>1, <1>2, <1>3, <1>6, <2>1, <2>2, <2>3, <2>4, TypeStep
<1>10. CASE Match(c)
  <2>1. pc[c] = "check" /\ pc' = [pc EXCEPT ![c] = "store"]
        /\ UNCHANGED <<index, content, files, bodies, cas, response>>
    BY <1>10 DEF Match, Goto
  <2>2. Local(c) /\ pc'[c] = "store" /\ pc' \in [Calls -> Running \cup {"idle", "done"}]
    BY <1>1, <1>3, <2>1 DEF Local, Running
  <2>3. QED
    BY <1>1, <1>2, <1>3, <1>5, <1>6, <2>1, <2>2, TypeStep
<1>11. CASE Mismatch(c) \/ Store(c) \/ StoreFails(c)
  <2>1. /\ pc[c] \in {"check", "store"} /\ UNCHANGED <<index, content, bodies>>
        /\ files' = files \ {c}
        /\ cas' \in {cas, cas \cup {content[c]}}
    BY <1>11 DEF Mismatch, Store, StoreFails, Remove, ToCAS
  <2>2. PICK m \in Answer : Reply(c, m)
    <3>1. Error("Internal") \in Answer
      BY AnswerType DEF Codes
    <3>2. pc[c] = "store" => [code |-> "OK", uri |-> Uri(c), digest |-> content[c]] \in Answer
      BY <1>2, <1>5, AnswerType
    <3>3. QED
      BY <1>11, <3>1, <3>2 DEF Mismatch, Store, StoreFails
  <2>3. /\ pc' \in [Calls -> Running \cup {"idle", "done"}]
        /\ response' \in [Calls -> Answer \cup {NoRequest}]
        /\ pc'[c] = "done" /\ response'[c] = m /\ Local(c)
    BY <1>1, <2>1, <2>2, ReplyEffect DEF Local
  <2>4. cas' \in SUBSET Digests /\ files' \in SUBSET Calls
    BY <1>3, <1>5, <2>1
  <2>5. QED
    BY <1>1, <1>3, <2>1, <2>3, <2>4, TypeStep
<1>12. QED
  BY <1>7, <1>8, <1>9, <1>10, <1>11 DEF Step

\* A crash, and stuttering.
LEMMA TypeEnvironment ==
  ASSUME TypeOK, Crash \/ UNCHANGED vars
  PROVE  TypeOK'
<1>1. CASE UNCHANGED vars
  BY <1>1 DEF TypeOK, vars, history, Active, FetchFunction
<1>2. CASE Crash
  <2>1. /\ pc' = [c \in Calls |-> IF Active(c) THEN "done" ELSE pc[c]]
        /\ response' = [c \in Calls |-> IF Active(c) THEN Error("Unavailable") ELSE response[c]]
        /\ bodies' = {}
        /\ UNCHANGED <<req, checksum, index, content, files, cas>>
    BY <1>2 DEF Crash, Die
  <2>2. Error("Unavailable") \in Answer
    BY AnswerType DEF Codes
  <2>3. pc' \in [Calls -> {"idle", "done"}]
    BY <2>1 DEF TypeOK, Active
  <2>4. response' \in [Calls -> Answer \cup {NoRequest}]
    BY <2>1, <2>2 DEF TypeOK
  <2>5. ASSUME NEW c \in Calls
        PROVE  /\ pc'[c] = "idle" => index[c] = 1 /\ response'[c] = NoRequest
               /\ pc'[c] # "idle" => req[c] \in Requests
               /\ pc'[c] = "done" => response'[c] \in Answer
    BY <2>1, <2>2, <2>5 DEF TypeOK, Active, Running
  <2>6. QED
    BY <2>1, <2>3, <2>4, <2>5 DEF TypeOK, Active, Running
<1>3. QED
  BY <1>1, <1>2

-----------------------------------------------------------------------------
(* The other parts of the invariant                                        *)

\* The request of a call stays as it arrived.
LEMMA RequestsStay ==
  ASSUME TypeOK, [Next]_vars, NEW c \in Calls, pc[c] # "idle"
  PROVE  pc'[c] # "idle" /\ req'[c] = req[c]
<1>1. ASSUME NEW d \in Calls, Arrive(d)
      PROVE  pc'[c] # "idle" /\ req'[c] = req[c]
  BY <1>1, TypeArrive DEF Local
<1>2. ASSUME NEW d \in Calls, Step(d)
      PROVE  pc'[c] # "idle" /\ req'[c] = req[c]
  BY <1>2, TypeOfStep DEF Local
<1>3. CASE Crash
  BY <1>3 DEF Crash, Die
<1>4. CASE Quiescent \/ UNCHANGED vars
  BY <1>4 DEF Quiescent, vars
<1>5. QED
  BY <1>1, <1>2, <1>3, <1>4 DEF Next

\* An HTTP request is added to those sent.
LEMMA SendEffect ==
  ASSUME TypeOK, NEW c \in Calls, Send(c)
  PROVE  /\ Asked(c)' = Asked(c) \cup {Uri(c)}
         /\ \A d \in Calls \ {c} : Asked(d)' = Asked(d)
         /\ \A s \in sent' : s \in sent \/ (s.call = c /\ s.uri = Uri(c)
                                            /\ s.headers = HeadersFor(req[c], Uri(c)))
<1> DEFINE new == [call |-> c, uri |-> Uri(c), headers |-> HeadersFor(req[c], Uri(c))]
<1>1. sent' = sent \cup {new}
  BY DEF Send
<1>2. new.call = c /\ new.uri = Uri(c) /\ new.headers = HeadersFor(req[c], Uri(c))
  OBVIOUS
<1>3. Uri(c) \in Uris
  BY RunningCall DEF Send, Active, Running
<1> HIDE DEF new
<1>4. ASSUME NEW d \in Calls, NEW u \in Uris
      PROVE  (\E s \in sent' : s.call = d /\ s.uri = u)
               <=> (\E s \in sent : s.call = d /\ s.uri = u) \/ (d = c /\ u = Uri(c))
  BY <1>1, <1>2
<1>5. Asked(c)' = Asked(c) \cup {Uri(c)}
  BY <1>3, <1>4 DEF Asked
<1>6. \A d \in Calls \ {c} : Asked(d)' = Asked(d)
  BY <1>4 DEF Asked
<1>7. QED
  BY <1>1, <1>2, <1>5, <1>6

\* The URIs up to the next one.
LEMMA UptoNext ==
  ASSUME TypeOK, NEW c \in Calls, Active(c)
  PROVE  /\ Upto(c, index[c]) = Upto(c, index[c] - 1) \cup {Uri(c)}
         /\ Upto(c, Len(req[c].uris)) = UrisOf(req[c])
<1>1. index[c] \in 1 .. Len(req[c].uris) /\ Len(req[c].uris) \in Nat /\ req[c] \in Requests
  BY RunningCall
<1>2. 1 .. index[c] = (1 .. index[c] - 1) \cup {index[c]}
  BY <1>1
<1>3. Upto(c, index[c]) = Upto(c, index[c] - 1) \cup {Uri(c)}
  BY <1>2 DEF Upto, Uri
<1>4. QED
  BY <1>1, <1>3, RequestType DEF Upto

\* Which URIs a step asks, and what becomes of the call.
LEMMA AskedEffect ==
  ASSUME TypeOK, Progress, NEW c \in Calls, Step(c)
  PROVE  /\ \A d \in Calls \ {c} : Asked(d)' = Asked(d)
         /\ \A s \in sent' : s \in sent \/ s.call = c
         /\ \A w \in written' : w \in written \/ w.call = c
         /\ pc'[c] = "request" => Asked(c)' = Upto(c, index'[c] - 1)
         /\ pc'[c] \in {"body", "check", "store"} =>
              Asked(c)' = Upto(c, index'[c]) /\ index'[c] = index[c]
         /\ pc'[c] = "done" /\ response'[c].code = "NotFound" => Asked(c)' = UrisOf(req[c])
         /\ pc'[c] = "done" /\ response'[c].code = "OK" =>
              response'[c].uri = Uri(c) /\ Asked(c)' = Upto(c, index[c])
<1>0. Active(c) /\ req[c] \in Requests /\ index[c] \in 1 .. Len(req[c].uris)
      /\ Len(req[c].uris) \in Nat
  BY TypeOfStep, RunningCall
<1>1. /\ Upto(c, index[c]) = Upto(c, index[c] - 1) \cup {Uri(c)}
      /\ Upto(c, Len(req[c].uris)) = UrisOf(req[c])
  BY <1>0, UptoNext
<1>2. /\ pc[c] = "request" => Asked(c) = Upto(c, index[c] - 1)
      /\ pc[c] \in {"body", "check", "store"} => Asked(c) = Upto(c, index[c])
  BY DEF Progress
<1>3. CASE RequestFails(c) \/ BadStatus(c) \/ BodyFails(c)
  <2>1. /\ Asked(c)' = Upto(c, index[c]) /\ \A d \in Calls \ {c} : Asked(d)' = Asked(d)
        /\ \A s \in sent' : s \in sent \/ s.call = c
    <3>1. CASE RequestFails(c) \/ BadStatus(c)
      BY <1>1, <1>2, <3>1, SendEffect DEF RequestFails, BadStatus, Send
    <3>2. CASE BodyFails(c)
      BY <1>1, <1>2, <3>2 DEF BodyFails, history, Asked
    <3>3. QED
      BY <1>3, <3>1, <3>2
  <2>2. written' = written /\ Continue(c)
    BY <1>3 DEF RequestFails, BadStatus, BodyFails, history
  <2>3. Error("NotFound").code # "OK"
    BY DEF Error
  <2>4. CASE MoreUris(c)
    <3>1. pc'[c] = "request" /\ index'[c] = index[c] + 1
      BY <1>0, <2>2, <2>4, ContinueEffect
    <3>2. index'[c] - 1 = index[c]
      BY <1>0, <3>1
    <3>3. QED
      BY <2>1, <2>2, <3>1, <3>2
  <2>5. CASE ~ MoreUris(c)
    <3>1. pc'[c] = "done" /\ index[c] = Len(req[c].uris) /\ response'[c] = Error("NotFound")
      BY <1>0, <2>2, <2>5, ContinueEffect
    <3>2. QED
      BY <1>1, <2>1, <2>2, <2>3, <3>1
  <2>6. QED
    BY <2>4, <2>5
<1>4. CASE Request(c)
  <2>1. pc'[c] = "body" /\ UNCHANGED <<index, written>> /\ Send(c) /\ pc[c] = "request"
    BY <1>4 DEF Request, Goto, Send, TypeOK
  <2>2. QED
    BY <1>1, <1>2, <2>1, SendEffect
<1>5. CASE Body(c) \/ Match(c)
  <2>1. /\ pc'[c] \in {"check", "store"} /\ pc[c] \in {"body", "check"}
        /\ UNCHANGED <<index, sent, written>>
    BY <1>5 DEF Body, Match, Goto, TypeOK, history
  <2>2. QED
    BY <1>1, <1>2, <2>1 DEF Asked
<1>6. CASE Mismatch(c) \/ Store(c) \/ StoreFails(c)
  <2>1. /\ pc'[c] = "done" /\ pc[c] \in {"check", "store"} /\ UNCHANGED sent
        /\ \/ response'[c] = Error("Internal")
           \/ response'[c] = [code |-> "OK", uri |-> Uri(c), digest |-> content[c]]
    BY <1>6 DEF Mismatch, Store, StoreFails, Reply, Goto, TypeOK, history
  <2>2. \A w \in written' : w \in written \/ w.call = c
    BY <1>6 DEF Mismatch, Store, StoreFails, ToCAS, history
  <2>3. QED
    BY <1>1, <1>2, <2>1, <2>2 DEF Asked, Error
<1>7. QED
  BY <1>3, <1>4, <1>5, <1>6 DEF Step

\* The histories grow with the progress of the calls, and a fetch that gives
\* up has asked every URI.
LEMMA ProgressNext ==
  ASSUME Inv, [Next]_vars
  PROVE  Progress' /\ TriesEveryUri'
<1> USE DEF Inv
<1>1. ASSUME NEW c \in Calls, Step(c)
      PROVE  Progress' /\ TriesEveryUri'
  <2>1. Local(c) /\ UNCHANGED req /\ pc'[c] # "idle" /\ Active(c)
    BY <1>1, TypeOfStep
  <2>2. \A d \in Calls : \A n : Upto(d, n)' = Upto(d, n)
    BY <2>1 DEF Upto
  <2>3. Progress'
    <3>1. \A s \in sent' : s.call \in Calls /\ pc'[s.call] # "idle"
      BY <1>1, <2>1, AskedEffect DEF Progress, Local
    <3>2. \A w \in written' : w.call \in Calls /\ pc'[w.call] # "idle"
      BY <1>1, <2>1, AskedEffect DEF Progress, Local
    <3>3. ASSUME NEW d \in Calls
          PROVE  /\ pc'[d] = "request" => Asked(d)' = Upto(d, index'[d] - 1)
                 /\ pc'[d] \in {"body", "check", "store"} => Asked(d)' = Upto(d, index'[d])
      <4>1. CASE d = c
        BY <1>1, <4>1, AskedEffect
      <4>2. CASE d # c
        BY <1>1, <2>1, <4>2, AskedEffect DEF Progress, Local
      <4>3. QED
        BY <4>1, <4>2
    <3>4. QED
      BY <2>1, <3>1, <3>2, <3>3 DEF Progress, Upto
  <2>4. TriesEveryUri'
    <3> SUFFICES ASSUME NEW d \in Calls, pc'[d] = "done"
                 PROVE  /\ response'[d].code = "NotFound" => Asked(d)' = UrisOf(req[d])
                        /\ response'[d].code = "OK" =>
                             \E i \in DOMAIN req[d].uris :
                               req[d].uris[i] = response'[d].uri /\ Asked(d)' = Upto(d, i)
      BY <2>1, <2>2 DEF TriesEveryUri
    <3>1. CASE d = c
      <4>1. index[c] \in DOMAIN req[c].uris
        BY <2>1 DEF TypeOK
      <4>2. QED
        BY <1>1, <3>1, <4>1, AskedEffect DEF Uri
    <3>2. CASE d # c
      <4>1. pc[d] = "done" /\ response'[d] = response[d] /\ Asked(d)' = Asked(d)
        BY <1>1, <2>1, <3>2, AskedEffect DEF Local
      <4>2. QED
        BY <4>1 DEF TriesEveryUri
    <3>3. QED
      BY <3>1, <3>2
  <2>5. QED
    BY <2>3, <2>4
<1>2. ASSUME NEW c \in Calls, Arrive(c)
      PROVE  Progress' /\ TriesEveryUri'
  <2>1. /\ Local(c) /\ UNCHANGED <<index, sent, written>> /\ pc[c] = "idle"
        /\ \/ pc'[c] = "done" /\ response'[c].code \in {"PermissionDenied", "InvalidArgument", "Unknown"}
           \/ pc'[c] = "request"
    BY <1>2, TypeArrive DEF history
  <2>2. \A s \in sent \cup written : s.call \in Calls \ {c}
    BY <2>1 DEF Progress
  <2>3. index[c] = 1 /\ Asked(c) = {}
    BY <2>1, <2>2 DEF TypeOK, Asked
  <2>4. Progress'
    <3>1. \A s \in sent \cup written : s.call \in Calls /\ pc'[s.call] # "idle"
      BY <2>1, <2>2 DEF Progress, Local
    <3>2. \A d \in Calls : Asked(d)' = Asked(d)
      BY <2>1 DEF Asked
    <3>3. \A d \in Calls \ {c} : \A n : Upto(d, n)' = Upto(d, n)
      BY <2>1 DEF Upto, Local
    <3>4. Upto(c, index[c] - 1)' = {}
      BY <2>1, <2>3 DEF Upto
    <3>5. QED
      BY <2>1, <2>3, <3>1, <3>2, <3>3, <3>4 DEF Progress, Local
  <2>5. TriesEveryUri'
    <3>1. \A d \in Calls \ {c} : Asked(d)' = Asked(d) /\ \A n : Upto(d, n)' = Upto(d, n)
      BY <2>1 DEF Asked, Upto, Local
    <3>2. QED
      BY <2>1, <3>1 DEF TriesEveryUri, Local
  <2>6. QED
    BY <2>4, <2>5
<1>3. CASE Crash
  <2>1. /\ UNCHANGED <<req, index, sent, written>>
        /\ \A c \in Calls :
             \/ pc[c] = pc'[c] /\ response'[c] = response[c] /\ pc'[c] \notin Running
             \/ pc'[c] = "done" /\ response'[c].code = "Unavailable"
    BY <1>3 DEF Crash, Die, history, Active, Error
  <2>2. Progress'
    BY <2>1 DEF Progress, Running
  <2>3. TriesEveryUri'
    <3>1. \A c \in Calls : Asked(c)' = Asked(c) /\ \A n : Upto(c, n)' = Upto(c, n)
      BY <2>1 DEF Asked, Upto
    <3>2. QED
      BY <2>1, <3>1 DEF TriesEveryUri
  <2>4. QED
    BY <2>2, <2>3
<1>4. CASE Quiescent \/ UNCHANGED vars
  <2>1. UNCHANGED vars
    BY <1>4 DEF Quiescent
  <2>2. \A c \in Calls : Asked(c)' = Asked(c) /\ \A n : Upto(c, n)' = Upto(c, n)
    BY <2>1 DEF vars, Asked, Upto
  <2>3. QED
    BY <2>1, <2>2 DEF vars, Progress, TriesEveryUri
<1>5. QED
  BY <1>1, <1>2, <1>3, <1>4 DEF Next

\* Content that passes the comparison is what the client may get.
LEMMA MatchesIsVerified ==
  ASSUME NEW c \in Calls, checksum[c] \in ChecksumSri(req[c]), Matches(c)
  PROVE  Verified(req[c].qualifiers, content[c])
<1> SUFFICES ASSUME req[c].qualifiers \cap Checksums # {}
             PROVE  \E q \in req[c].qualifiers \cap Checksums :
                      q \in EmptyHash \/ content[c] \in Expected[q]
  BY DEF Verified
<1>1. PICK q \in req[c].qualifiers \cap Checksums : checksum[c] = {q}
  BY DEF ChecksumSri
<1>2. q \in EmptyHash \/ content[c] \in Expected[q]
  BY <1>1 DEF Matches
<1>3. QED
  BY <1>2

\* What goes to the CAS has passed the comparison with the checksum.
LEMMA VerifiedNext ==
  ASSUME Inv, [Next]_vars
  PROVE  GoesByChecksum' /\ StoredIsVerified'
<1> USE DEF Inv
<1>0. ASSUME written' = written
      PROVE  StoredIsVerified'
  <2>1. \A w \in written : w.call \in Calls /\ req'[w.call] = req[w.call]
    BY RequestsStay DEF Progress
  <2>2. QED
    BY <1>0, <2>1 DEF StoredIsVerified, Verified
<1>1. ASSUME NEW c \in Calls, Step(c)
      PROVE  GoesByChecksum' /\ StoredIsVerified'
  <2>1. Local(c) /\ UNCHANGED <<req, checksum>> /\ Active(c)
    BY <1>1, TypeOfStep
  <2>2. pc'[c] = "store" => Match(c) /\ content' = content /\ Matches(c)
    BY <1>1 DEF Step, RequestFails, BadStatus, BodyFails, Continue, Request, Body, Match, Mismatch,
                Store, StoreFails, Reply, Goto, TypeOK
  <2>3. GoesByChecksum'
    <3> SUFFICES ASSUME NEW d \in Calls
                 PROVE  /\ pc'[d] \in Running => checksum[d] \in ChecksumSri(req[d])
                        /\ pc'[d] = "store" =>
                             \A q \in checksum[d] \ EmptyHash : content'[d] \in Expected[q]
      BY <2>1 DEF GoesByChecksum, Active, Matches, ChecksumSri
    <3>1. CASE d = c
      BY <2>1, <2>2, <3>1 DEF GoesByChecksum, Matches
    <3>2. CASE d # c
      BY <2>1, <3>2 DEF GoesByChecksum, Matches, Local, Active
    <3>3. QED
      BY <3>1, <3>2
  <2>4. StoredIsVerified'
    <3>1. CASE ToCAS(c) /\ pc[c] = "store"
      <4>1. written' = written \cup {[call |-> c, digest |-> content[c]]}
        BY <3>1 DEF ToCAS
      <4>2. Verified(req[c].qualifiers, content[c])
        BY <2>1, <3>1, MatchesIsVerified DEF GoesByChecksum
      <4>3. QED
        BY <2>1, <4>1, <4>2 DEF StoredIsVerified, Verified
    <3>2. CASE written' = written
      BY <1>0, <3>2
    <3>3. QED
      BY <1>1, <3>1, <3>2
         DEF Step, RequestFails, BadStatus, BodyFails, Request, Body, Match, Mismatch, Store,
             StoreFails, history
  <2>5. QED
    BY <2>3, <2>4
<1>2. ASSUME NEW c \in Calls, Arrive(c)
      PROVE  GoesByChecksum' /\ StoredIsVerified'
  <2>1. /\ Local(c) /\ UNCHANGED <<content, written>>
        /\ pc'[c] = "done" \/ (pc'[c] = "request" /\ checksum'[c] \in ChecksumSri(req'[c]))
    BY <1>2, TypeArrive DEF history
  <2>2. ASSUME NEW d \in Calls
        PROVE  (Active(d) => checksum[d] \in ChecksumSri(req[d]))'
               /\ (pc[d] = "store" => Matches(d))'
    <3>1. CASE d = c
      BY <2>1, <3>1 DEF Active, Running, ChecksumSri
    <3>2. CASE d # c
      BY <2>1, <3>2 DEF GoesByChecksum, Matches, Local, Active, ChecksumSri
    <3>3. QED
      BY <3>1, <3>2
  <2>3. QED
    BY <1>0, <2>1, <2>2 DEF GoesByChecksum
<1>3. CASE Crash
  <2>1. UNCHANGED written /\ \A c \in Calls : pc'[c] \notin Running
    BY <1>3 DEF Crash, Die, Active, history, Running
  <2>2. QED
    BY <1>0, <2>1 DEF GoesByChecksum, Active, Running
<1>4. CASE Quiescent \/ UNCHANGED vars
  <2>1. UNCHANGED vars
    BY <1>4 DEF Quiescent
  <2>2. QED
    BY <1>0, <2>1 DEF vars, GoesByChecksum, Active, Matches, ChecksumSri
<1>5. QED
  BY <1>1, <1>2, <1>3, <1>4 DEF Next

\* The temporary files and the open responses go with the calls.
LEMMA ResourcesNext ==
  ASSUME Inv, [Next]_vars
  PROVE  FilesInUse' /\ OpenBodiesAreErrors'
<1> USE DEF Inv
<1>1. ASSUME NEW c \in Calls, Step(c)
      PROVE  FilesInUse' /\ OpenBodiesAreErrors'
  <2>1. Local(c) /\ UNCHANGED <<req, checksum>> /\ Active(c)
    BY <1>1, TypeOfStep
  <2>2. c \in files => pc[c] \in {"body", "check", "store"}
    BY <2>1 DEF FilesInUse, Active, Running
  <2>3. \A d \in Calls \ {c} : Uri(d)' = Uri(d)
    BY <2>1 DEF Uri, Local
  <2>4. \A m \in bodies : m \in [call: Calls, uri: Uris, status: {"200", "error"}]
    BY DEF TypeOK
  <2>5. \A m \in bodies : m.call = c /\ m.status # "error" =>
          pc[c] = "body" /\ m = Response(c, "200")
    BY <2>4 DEF OpenBodiesAreErrors, Response
  <2>6. /\ files' \subseteq files \cup {c}
        /\ c \in files' => pc'[c] \in {"body", "check", "store"}
    <3>1. CASE RequestFails(c) \/ BadStatus(c)
      BY <2>1, <2>2, <3>1 DEF RequestFails, BadStatus, Send
    <3>2. CASE BodyFails(c) \/ Mismatch(c) \/ Store(c) \/ StoreFails(c)
      BY <3>2 DEF BodyFails, Mismatch, Store, StoreFails, Remove
    <3>3. CASE Request(c) \/ Body(c) \/ Match(c)
      BY <2>2, <3>3 DEF Request, Body, Match, Goto, TypeOK
    <3>4. QED
      BY <1>1, <3>1, <3>2, <3>3 DEF Step
  <2>7. FilesInUse'
    BY <2>1, <2>6 DEF FilesInUse, Local, TypeOK
  <2>8. /\ \A m \in bodies' : m \in bodies \/ m.status = "error" \/
                               (m = Response(c, "200") /\ pc'[c] = "body" /\ Uri(c)' = Uri(c))
        /\ pc[c] = "body" => Response(c, "200") \notin bodies'
    <3>1. CASE RequestFails(c) \/ BadStatus(c)
      BY <3>1 DEF RequestFails, BadStatus, Send, Response
    <3>2. CASE BodyFails(c) \/ Body(c)
      BY <3>2 DEF BodyFails, Body, Close
    <3>3. CASE Request(c)
      BY <3>3 DEF Request, Send, Goto, TypeOK, Uri
    <3>4. CASE Match(c) \/ Mismatch(c) \/ Store(c) \/ StoreFails(c)
      BY <3>4 DEF Match, Mismatch, Store, StoreFails
    <3>5. QED
      BY <1>1, <3>1, <3>2, <3>3, <3>4 DEF Step
  <2>9. OpenBodiesAreErrors'
    <3> SUFFICES ASSUME NEW m \in bodies', m.status # "error"
                 PROVE  pc'[m.call] = "body" /\ Uri(m.call)' = m.uri
      BY DEF OpenBodiesAreErrors
    <3>1. CASE m = Response(c, "200") /\ pc'[c] = "body" /\ Uri(c)' = Uri(c)
      BY <3>1 DEF Response
    <3>2. CASE m \in bodies
      <4>1. m.call \in Calls /\ m.call # c
        BY <2>4, <2>5, <2>8, <3>2
      <4>2. QED
        BY <2>1, <2>3, <3>2, <4>1 DEF OpenBodiesAreErrors, Local
    <3>3. QED
      BY <2>8, <3>1, <3>2
  <2>10. QED
    BY <2>7, <2>9
<1>2. ASSUME NEW c \in Calls, Arrive(c)
      PROVE  FilesInUse' /\ OpenBodiesAreErrors'
  <2>1. Local(c) /\ UNCHANGED <<index, files, bodies>> /\ pc[c] = "idle"
    BY <1>2, TypeArrive
  <2>2. FilesInUse'
    BY <2>1 DEF FilesInUse, Local, TypeOK
  <2>3. OpenBodiesAreErrors'
    <3>1. \A m \in bodies : m.call \in Calls
      BY DEF TypeOK
    <3>2. \A d \in Calls \ {c} : Uri(d)' = Uri(d)
      BY <2>1 DEF Uri, Local
    <3>3. QED
      BY <2>1, <3>1, <3>2 DEF OpenBodiesAreErrors, Local
  <2>4. QED
    BY <2>2, <2>3
<1>3. CASE Crash
  <2>1. /\ bodies' = {} /\ files' = files
        /\ \A c \in Calls :
             \/ pc[c] = pc'[c] /\ response'[c] = response[c] /\ pc'[c] \notin Running
             \/ pc'[c] = "done" /\ response'[c].code = "Unavailable"
    BY <1>3 DEF Crash, Die, Active, Error
  <2>2. QED
    BY <2>1 DEF FilesInUse, OpenBodiesAreErrors, TypeOK, Running
<1>4. CASE Quiescent \/ UNCHANGED vars
  <2>1. UNCHANGED vars
    BY <1>4 DEF Quiescent
  <2>2. QED
    BY <2>1 DEF vars, FilesInUse, OpenBodiesAreErrors, Uri
<1>5. QED
  BY <1>1, <1>2, <1>3, <1>4 DEF Next

\* The headers of a request for a URI are for this URI or for all.
LEMMA HeadersForUri ==
  ASSUME NEW r, NEW u, NEW h \in HeadersFor(r, u)
  PROVE  \E q \in r.qualifiers \cap DOMAIN Headers :
           /\ HeaderOf(q) = h
           /\ Headers[q].scope = "url" => r.uris[Headers[q].index + 1] = u
           /\ Headers[q].scope = "legacy" => Headers[q].uri = u
<1>1. CASE Scoped(r, "legacy") # {}
  <2>1. PICK q \in Scoped(r, "legacy") : Headers[q].uri = u /\ h = HeaderOf(q)
    BY <1>1 DEF HeadersFor
  <2>2. QED
    BY <2>1 DEF Scoped
<1>2. CASE Scoped(r, "legacy") = {}
  <2>1. \/ \E q \in Scoped(r, "url") : UriOfHeader(r, q) = u /\ h = HeaderOf(q)
        \/ \E q \in Scoped(r, "all") : h = HeaderOf(q)
    BY <1>2 DEF HeadersFor
  <2>2. QED
    BY <2>1 DEF Scoped, UriOfHeader
<1>3. QED
  BY <1>1, <1>2

\* No request that is sent has a header that is for another URI.
LEMMA HeadersNext ==
  ASSUME Inv, [Next]_vars
  PROVE  HeadersStayWithTheirUri'
<1> USE DEF Inv
<1>1. \A s \in sent : s.call \in Calls /\ req'[s.call] = req[s.call]
  BY RequestsStay DEF Progress
<1>2. CASE sent' = sent
  BY <1>1, <1>2 DEF HeadersStayWithTheirUri
<1>3. ASSUME NEW c \in Calls, Send(c), UNCHANGED req
      PROVE  HeadersStayWithTheirUri'
  <2> SUFFICES ASSUME NEW s \in sent', NEW h \in s.headers
               PROVE  \E q \in req[s.call].qualifiers \cap DOMAIN Headers :
                        /\ HeaderOf(q) = h
                        /\ Headers[q].scope = "url" => req[s.call].uris[Headers[q].index + 1] = s.uri
                        /\ Headers[q].scope = "legacy" => Headers[q].uri = s.uri
    BY <1>3 DEF HeadersStayWithTheirUri
  <2>1. s \in sent \/ (s.call = c /\ s.uri = Uri(c) /\ s.headers = HeadersFor(req[c], Uri(c)))
    BY <1>3, SendEffect
  <2>2. CASE s \in sent
    BY <2>2 DEF HeadersStayWithTheirUri
  <2>3. CASE s.call = c /\ s.uri = Uri(c) /\ s.headers = HeadersFor(req[c], Uri(c))
    BY <2>3, HeadersForUri
  <2>4. QED
    BY <2>1, <2>2, <2>3
<1>4. sent' = sent \/ \E c \in Calls : Send(c) /\ UNCHANGED req
  <2>1. ASSUME NEW c \in Calls, Arrive(c)
        PROVE  sent' = sent
    BY <2>1, TypeArrive DEF history
  <2>2. ASSUME NEW c \in Calls, Step(c)
        PROVE  sent' = sent \/ (Send(c) /\ UNCHANGED req)
    BY <2>2 DEF Step, RequestFails, BadStatus, BodyFails, Request, Body, Match, Mismatch, Store,
                StoreFails, history
  <2>3. CASE Crash \/ Quiescent \/ UNCHANGED vars
    BY <2>3 DEF Crash, Die, Quiescent, vars, history
  <2>4. QED
    BY <2>1, <2>2, <2>3 DEF Next
<1>5. QED
  BY <1>2, <1>3, <1>4

\* Every step keeps the invariant.
LEMMA InvNext == Inv /\ [Next]_vars => Inv'
<1> SUFFICES ASSUME Inv, [Next]_vars
             PROVE  Inv'
  OBVIOUS
<1>1. TypeOK'
  BY TypeArrive, TypeOfStep, TypeEnvironment DEF Inv, Next, Quiescent
<1>2. QED
  BY <1>1, ProgressNext, VerifiedNext, ResourcesNext, HeadersNext DEF Inv

-----------------------------------------------------------------------------
(* Theorems                                                                *)

\* The invariant holds of every reachable state.
THEOREM HttpInvariant == Spec => []Inv
<1>1. Init => Inv
  BY InitInv
<1>2. Inv /\ [Next]_vars => Inv'
  BY InvNext
<1>3. QED
  BY <1>1, <1>2, PTL DEF Spec

\* Every variable of httpFetcher always holds a value of its kind, and the
\* loop over the URIs never leaves the list.
THEOREM HttpTypeCorrect == Spec => []TypeOK
<1>1. Inv => TypeOK
  BY DEF Inv
<1>2. QED
  BY <1>1, HttpInvariant, PTL

\* downloadBlob puts nothing in the CAS that does not have the checksum of a
\* checksum.sri that the client gave: not what a mirror sent before it failed,
\* and not on the way to an error.
THEOREM HttpStoredIsVerified == Spec => []StoredIsVerified
<1>1. Inv => StoredIsVerified
  BY DEF Inv
<1>2. QED
  BY <1>1, HttpInvariant, PTL

\* However many URIs there are, the loop of FetchBlob gives up only when it
\* has asked all of them, and asks none after the one that it returns.
THEOREM HttpTriesEveryUri == Spec => []TriesEveryUri
<1>1. Inv => TriesEveryUri
  BY DEF Inv
<1>2. QED
  BY <1>1, HttpInvariant, PTL

\* A call that has returned from FetchBlob has no temporary file, unless the
\* process died.
THEOREM HttpNoTemporaryFiles == Spec => []NoTemporaryFiles
<1>1. Inv => NoTemporaryFiles
  BY DEF Inv, FilesInUse, NoTemporaryFiles, Active, Running
<1>2. QED
  BY <1>1, HttpInvariant, PTL

\* The responses that downloadBlob leaves open are those with a status other
\* than 200, and no others.
THEOREM HttpOpenBodies == Spec => []OpenBodiesAreErrors
<1>1. Inv => OpenBodiesAreErrors
  BY DEF Inv
<1>2. QED
  BY <1>1, HttpInvariant, PTL

\* ApplyHeaders adds no header to a request that the client gave for another
\* URI, whatever mix of qualifiers the client sent.
THEOREM HttpHeaders == Spec => []HeadersStayWithTheirUri
<1>1. Inv => HeadersStayWithTheirUri
  BY DEF Inv
<1>2. QED
  BY <1>1, HttpInvariant, PTL

-----------------------------------------------------------------------------
(* Refinement                                                              *)

\* The calls that run, as the abstract fetcher sees them.
RunningBar == [c \in Calls |-> IF Active(c) THEN req[c] ELSE NoRequest]

\* A running call has a request.
LEMMA BarType ==
  ASSUME TypeOK, NEW c \in Calls
  PROVE  /\ Active(c) => RunningBar[c] = req[c] /\ RunningBar[c] # NoRequest
         /\ ~ Active(c) => RunningBar[c] = NoRequest
BY RunningCall, RequestType DEF RunningBar

\* A step of call c that keeps it running is none to the abstract fetcher ...
LEMMA BarStays ==
  ASSUME NEW c \in Calls, Local(c), Active(c), pc'[c] \in Running, req'[c] = req[c]
  PROVE  RunningBar' = RunningBar
BY DEF RunningBar, Local, Active

\* ... and one that ends it removes its request.
LEMMA BarEnds ==
  ASSUME NEW c \in Calls, Local(c), pc'[c] = "done"
  PROVE  RunningBar' = [RunningBar EXCEPT ![c] = NoRequest]
BY DEF RunningBar, Local, Active, Running

\* A failure of a running call is one of the abstract fetcher.
LEMMA BarFails ==
  ASSUME TypeOK, NEW c \in Calls, Active(c), Local(c), NEW code \in Fetcher!Failures,
         pc'[c] = "done", response' = [response EXCEPT ![c] = Error(code)],
         \E ds \in SUBSET Digests : cas' = cas \cup ds
  PROVE  Fetcher!Next
<1>1. RunningBar[c] # NoRequest /\ RunningBar' = [RunningBar EXCEPT ![c] = NoRequest]
  BY BarType, BarEnds
<1>2. Fetcher!End(c, [code |-> code])
  BY <1>1 DEF Fetcher!End, Error, RunningBar, NoRequest, Fetcher!NoRequest
<1>3. Fetcher!Fail(c)
  BY <1>2 DEF Fetcher!Fail, Fetcher!Grow
<1>4. QED
  BY <1>3 DEF Fetcher!Next

\* Every step of the HTTP fetcher is one of the abstract fetcher, or none.
LEMMA HttpStepImplements ==
  ASSUME TypeOK, NEW c \in Calls, Step(c)
  PROVE  Fetcher!Next \/ UNCHANGED <<cas, RunningBar, response>>
<1>1. Local(c) /\ Active(c) /\ UNCHANGED req
  BY TypeOfStep
<1>2. CASE RequestFails(c) \/ BadStatus(c) \/ BodyFails(c)
  <2>1. Continue(c) /\ UNCHANGED cas
    BY <1>2 DEF RequestFails, BadStatus, BodyFails
  <2>2. CASE MoreUris(c)
    <3>1. pc'[c] \in Running /\ response' = response
      BY <1>1, <2>1, <2>2, ContinueEffect DEF Running
    <3>2. QED
      BY <1>1, <2>1, <3>1, BarStays
  <2>3. CASE ~ MoreUris(c)
    <3>1. pc'[c] = "done" /\ response' = [response EXCEPT ![c] = Error("NotFound")]
      BY <1>1, <2>1, <2>3, ContinueEffect
    <3>2. cas' = cas \cup {} /\ {} \in SUBSET Digests
      BY <2>1
    <3>3. QED
      BY <1>1, <3>1, <3>2, BarFails DEF Fetcher!Failures
  <2>4. QED
    BY <2>2, <2>3
<1>3. CASE Request(c) \/ Body(c) \/ Match(c)
  <2>1. pc'[c] \in Running /\ UNCHANGED <<cas, response>>
    BY <1>3 DEF Request, Body, Match, Goto, Running, TypeOK
  <2>2. QED
    BY <1>1, <2>1, BarStays
<1>4. CASE Mismatch(c) \/ StoreFails(c)
  <2>1. pc'[c] = "done" /\ response' = [response EXCEPT ![c] = Error("Internal")]
    BY <1>4 DEF Mismatch, StoreFails, Reply, Goto, TypeOK
  <2>2. \E ds \in SUBSET Digests : cas' = cas \cup ds
    <3>1. cas' = cas \cup {} \/ (pc[c] = "store" /\ cas' = cas \cup {content[c]})
      BY <1>4 DEF Mismatch, StoreFails, ToCAS
    <3>2. pc[c] = "store" => content[c] \in Digests
      BY DEF TypeOK
    <3>3. QED
      BY <3>1, <3>2
  <2>3. QED
    BY <1>1, <2>1, <2>2, BarFails DEF Fetcher!Failures
<1>5. CASE Store(c)
  <2>1. /\ pc[c] = "store" /\ pc'[c] = "done" /\ cas' = cas \cup {content[c]}
        /\ response' = [response EXCEPT ![c] = [code |-> "OK", uri |-> Uri(c), digest |-> content[c]]]
    BY <1>5 DEF Store, ToCAS, Reply, Goto, TypeOK
  <2>2. content[c] \in Digests /\ HashFunction[content[c]] = FetchFunction(req[c])
    BY <2>1 DEF TypeOK
  <2>3. Uri(c) \in Fetcher!UrisOf(req[c])
    BY <1>1, RunningCall, RequestType DEF Uri, UrisOf, Range, Fetcher!UrisOf, Fetcher!Range
  <2>4. RunningBar[c] = req[c] /\ RunningBar[c] # NoRequest
        /\ RunningBar' = [RunningBar EXCEPT ![c] = NoRequest]
    BY <1>1, <2>1, BarType, BarEnds
  <2>5. Fetcher!Succeed(c)
    <3>1. Fetcher!Grow /\ content[c] \in cas'
      BY <2>1, <2>2 DEF Fetcher!Grow
    <3>2. /\ Uri(c) \in Fetcher!UrisOf(RunningBar[c])
          /\ HashFunction[content[c]] = Fetcher!FetchFunction(RunningBar[c])
      BY <2>2, <2>3, <2>4 DEF FetchFunction, Fetcher!FetchFunction
    <3>3. /\ RunningBar[c] # Fetcher!NoRequest
          /\ RunningBar' = [RunningBar EXCEPT ![c] = Fetcher!NoRequest]
      BY <2>4 DEF NoRequest, Fetcher!NoRequest
    <3>4. QED
      BY <2>1, <3>1, <3>2, <3>3 DEF Fetcher!Succeed, Fetcher!End, RunningBar
  <2>6. QED
    BY <2>5 DEF Fetcher!Next
<1>6. QED
  BY <1>2, <1>3, <1>4, <1>5 DEF Step

\* So is the arrival of a request.
LEMMA HttpArriveImplements ==
  ASSUME TypeOK, NEW c \in Calls, Arrive(c)
  PROVE  Fetcher!Next
<1>1. /\ Local(c) /\ pc[c] = "idle" /\ UNCHANGED cas /\ req'[c] \in Requests
      /\ \/ /\ pc'[c] = "done" /\ response'[c].code \in {"PermissionDenied", "InvalidArgument", "Unknown"}
            /\ response' = [response EXCEPT ![c] = Error(response'[c].code)]
         \/ pc'[c] = "request" /\ response' = response
  BY TypeArrive
<1>2. RunningBar[c] = NoRequest /\ response[c] = NoRequest
  BY <1>1 DEF RunningBar, Active, Running, TypeOK
<1>3. CASE pc'[c] = "done"
  <2>1. RunningBar' = RunningBar
    BY <1>1, <1>3 DEF RunningBar, Local, Active, Running
  <2>2. Fetcher!Refuse(c)
    BY <1>1, <1>2, <1>3, <2>1
       DEF Fetcher!Refuse, Fetcher!Failures, Error, RunningBar, NoRequest, Fetcher!NoRequest
  <2>3. QED
    BY <2>2 DEF Fetcher!Next
<1>4. CASE pc'[c] = "request"
  <2>1. RunningBar' = [RunningBar EXCEPT ![c] = req'[c]] /\ response' = response
    BY <1>1, <1>4 DEF RunningBar, Local, Active, Running
  <2>2. Fetcher!Begin(c)
    BY <1>1, <1>2, <2>1 DEF Fetcher!Begin, RunningBar, NoRequest, Fetcher!NoRequest
  <2>3. QED
    BY <2>2 DEF Fetcher!Next
<1>5. QED
  BY <1>1, <1>3, <1>4

\* And a crash.
LEMMA HttpCrashImplements ==
  ASSUME TypeOK, Crash
  PROVE  Fetcher!Next
<1>1. /\ pc' = [c \in Calls |-> IF Active(c) THEN "done" ELSE pc[c]]
      /\ response' = [c \in Calls |-> IF Active(c) THEN Error("Unavailable") ELSE response[c]]
      /\ UNCHANGED cas
  BY DEF Crash, Die
<1>2. \A c \in Calls : ~ Active(c)'
  BY <1>1 DEF Active, Running
<1>3. RunningBar' = [c \in Calls |-> NoRequest]
  BY <1>2 DEF RunningBar
<1>4. \A c \in Calls : Active(c) <=> RunningBar[c] # NoRequest
  BY BarType
<1>5. response' = [c \in Calls |-> IF RunningBar[c] # NoRequest THEN [code |-> "Unavailable"]
                                                               ELSE response[c]]
  BY <1>1, <1>4 DEF Error
<1>6. Fetcher!Crash
  BY <1>1, <1>3, <1>5 DEF Fetcher!Crash, RunningBar, NoRequest, Fetcher!NoRequest
<1>7. QED
  BY <1>6 DEF Fetcher!Next

\* The HTTP fetcher keeps the promise of the Fetcher interface: whatever fails
\* and whatever calls overlap, a fetch ends in an error, or with one of its
\* URIs and content that the CAS has by then.
THEOREM HttpImplementsUpstream == Spec => ImplementsUpstream
<1>1. Init => Fetcher!Init
  BY DEF Init, Fetcher!Init, NoRequest, Fetcher!NoRequest, Active, Running
<1>2. Inv /\ [Next]_vars => [Fetcher!Next]_<<cas, RunningBar, response>>
  <2> SUFFICES ASSUME TypeOK, [Next]_vars
               PROVE  Fetcher!Next \/ UNCHANGED <<cas, RunningBar, response>>
    BY DEF Inv
  <2>1. CASE Quiescent \/ UNCHANGED vars
    BY <2>1 DEF Quiescent, vars, RunningBar, Active
  <2>2. QED
    BY <2>1, HttpStepImplements, HttpArriveImplements, HttpCrashImplements DEF Next
<1>3. QED
  BY <1>1, <1>2, HttpInvariant, PTL DEF Spec, ImplementsUpstream, Fetcher!Spec, RunningBar
===============================================================================
