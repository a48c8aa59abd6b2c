------------------------- MODULE RemoteExecutionProofs -------------------------
(***************************************************************************)
(* Theorems about RemoteExecutionFetcher and their proofs: the safety      *)
(* invariants of its run, and that it implements Upstream, for every       *)
(* number of calls, every tree and every set of results.                   *)
(***************************************************************************)
EXTENDS RemoteExecutionFetcher, ListLemmas

-----------------------------------------------------------------------------
(* The inductive invariant                                                 *)

\* What fetchCommon has uploaded is there when it asks for an execution.
Uploaded ==
  \A c \in Calls :
    /\ pc[c] \in {"command", "execute"} => Action(c) \in actions
    /\ pc[c] = "execute" => Command(c) \in actions

\* The outputs of the execution that succeeded are in the CAS.
OutputsAreStored ==
  \A c \in Calls : pc[c] \in {"outputs", "tree", "store"} =>
    \A d \in Outputs(result[c]) : d \in cas /\ HashFunction[d] = FetchFunction(req[c])

\* A directory of the tree is in the CAS or has yet to be put there.
Listed(c) == {unstored[c][i] : i \in 1 .. Len(unstored[c])}

NoneIsForgotten ==
  \A c \in Calls : pc[c] = "store" =>
    Directories(result[c].tree) \subseteq cas \cup Listed(c)

Inv ==
  /\ TypeOK
  /\ Uploaded
  /\ OutputsAreStored
  /\ NoneIsForgotten
  /\ ExecutedActionsAreStored
  /\ FetchedDirectoryIsComplete

-----------------------------------------------------------------------------
(* Requests, trees and calls                                               *)

\* The URIs of a request.
LEMMA RequestType ==
  ASSUME NEW r \in Requests
  PROVE  /\ r.uris \in Seq(Uris) /\ Len(r.uris) \in Nat \ {0}
         /\ DOMAIN r.uris = 1 .. Len(r.uris)
         /\ \A j \in 1 .. Len(r.uris) : r.uris[j] \in Uris
         /\ UrisOf(r) = {r.uris[j] : j \in 1 .. Len(r.uris)}
         /\ r.op \in FetchOps
         /\ r # NoRequest
<1>1. r \in FetchRequest /\ r.uris # << >>
  BY ExecutionRequestsAssumption
<1>2. r.uris \in Seq(Uris) /\ r.op \in FetchOps
  BY <1>1 DEF FetchRequest, UriList
<1>3. r # NoRequest
  <2>1. "op" \in DOMAIN r
    BY <1>1 DEF FetchRequest
  <2>2. "op" \notin DOMAIN NoRequest
    BY DEF NoRequest
  <2>3. QED
    BY <2>1, <2>2
<1>4. UrisOf(r) = {r.uris[j] : j \in 1 .. Len(r.uris)}
  BY <1>2 DEF UrisOf, Range
<1>5. Len(r.uris) \in Nat \ {0}
  BY <1>1, <1>2
<1>6. QED
  BY <1>2, <1>3, <1>4, <1>5

\* A running call is at one of the URIs of its request.
LEMMA RunningCall ==
  ASSUME TypeOK, NEW c \in Calls, Active(c)
  PROVE  /\ req[c] \in Requests
         /\ index[c] \in 1 .. Len(req[c].uris)
         /\ Len(req[c].uris) \in Nat
         /\ Uri(c) \in Uris
         /\ response[c] = NoRequest
<1>1. req[c] \in Requests /\ index[c] \in DOMAIN req[c].uris /\ response[c] = NoRequest
  BY DEF TypeOK, Active, Running
<1>2. QED
  BY <1>1, RequestType DEF Uri

\* The outputs of a result.
LEMMA OutputType ==
  ASSUME NEW r \in Results
  PROVE  /\ Outputs(r) \subseteq Digests
         /\ r.file # Nothing => r.file \in Outputs(r)
         /\ r.tree # Nothing => r.tree \in Outputs(r) /\ r.tree \in DOMAIN Trees
         /\ r.tree \in DOMAIN Trees \cup {Nothing}
<1>1. r.file \in Digests \cup {Nothing} /\ r.tree \in DOMAIN Trees \cup {Nothing}
  BY ExecutionAssumption DEF Result
<1>2. DOMAIN Trees \subseteq Digests
  BY ExecutionAssumption
<1>3. QED
  BY <1>1, <1>2 DEF Outputs

\* The directories of a tree as the list that is to be stored.
LEMMA TreeType ==
  ASSUME NEW t \in DOMAIN Trees
  PROVE  /\ Contents(Trees[t]) \in Seq(Digests) /\ Contents(Trees[t]) # << >>
         /\ Directories(t) = {Contents(Trees[t])[i] : i \in 1 .. Len(Contents(Trees[t]))}
         /\ Trees[t].root \in Digests
         /\ Trees[t].root \in Directories(t)
         /\ HashFunction[Trees[t].root] = HashFunction[t]
<1> DEFINE root == Trees[t].root
           children == Trees[t].children
<1>1. root \in Digests /\ children \in Seq(Digests)
  BY ExecutionAssumption
<1>2. Directories(t) = {root} \cup {children[i] : i \in 1 .. Len(children)}
  BY <1>1 DEF Directories, Range
<1>3. root \in Directories(t) /\ HashFunction[root] = HashFunction[t]
  BY <1>2, ExecutionAssumption
<1>4. Contents(Trees[t]) = <<root>> \o children
  BY DEF Contents
<1> HIDE DEF root, children
<1> DEFINE all == <<root>> \o children
<1>5. /\ all \in Seq(Digests) /\ all # << >> /\ Len(all) = Len(children) + 1 /\ Len(children) \in Nat
      /\ all[1] = root
      /\ \A i \in 1 .. Len(children) : all[i + 1] = children[i]
  BY <1>1
<1> HIDE DEF all
<1>6. \A i \in 1 .. Len(all) : i = 1 \/ (i - 1 \in 1 .. Len(children) /\ all[i] = children[i - 1])
  BY <1>5
<1>7. ASSUME NEW d
      PROVE  d \in Directories(t) <=> \E i \in 1 .. Len(all) : d = all[i]
  <2>1. ASSUME NEW i \in 1 .. Len(children), d = children[i]
        PROVE  \E j \in 1 .. Len(all) : d = all[j]
    <3>1. i + 1 \in 1 .. Len(all) /\ all[i + 1] = d
      BY <1>5, <2>1
    <3>2. QED
      BY <3>1
  <2>2. d = root => \E j \in 1 .. Len(all) : d = all[j]
    BY <1>5
  <2>3. ASSUME NEW j \in 1 .. Len(all), d = all[j]
        PROVE  d = root \/ \E i \in 1 .. Len(children) : d = children[i]
    BY <1>5, <1>6, <2>3
  <2>4. d \in Directories(t) <=> d = root \/ \E i \in 1 .. Len(children) : d = children[i]
    BY <1>2
  <2>5. QED
    BY <2>1, <2>2, <2>3, <2>4
<1>8. Directories(t) = {all[i] : i \in 1 .. Len(all)}
  BY <1>7
<1>9. QED
  BY <1>1, <1>3, <1>4, <1>5, <1>8 DEF root, children, all

\* The answers of a fetch.
LEMMA AnswerType ==
  /\ \A code \in Codes : Error(code) \in Answer /\ Error(code).code = code
  /\ \A u \in Uris, d \in Digests : [code |-> "OK", uri |-> u, digest |-> d] \in Answer
BY DEF Answer, Error

-----------------------------------------------------------------------------
(* Type correctness                                                        *)

\* A step of call c leaves every other call where it is.
Local(c) ==
  \A d \in Calls \ {c} :
    /\ pc'[d] = pc[d] /\ req'[d] = req[d] /\ index'[d] = index[d]
    /\ result'[d] = result[d] /\ unstored'[d] = unstored[d]
    /\ response'[d] = response[d]

\* No call is running when the process starts.
LEMMA InitInv == Init => Inv
<1> SUFFICES ASSUME Init PROVE Inv
  OBVIOUS
<1>1. TypeOK
  BY DEF Init, TypeOK, Active, Running
<1>2. Uploaded /\ OutputsAreStored /\ NoneIsForgotten
  BY DEF Init, Uploaded, OutputsAreStored, NoneIsForgotten
<1>3. ExecutedActionsAreStored /\ FetchedDirectoryIsComplete
  BY DEF Init, ExecutedActionsAreStored, FetchedDirectoryIsComplete
<1>4. QED
  BY <1>1, <1>2, <1>3 DEF Inv

\* A step of a running call, in terms of what it leaves in the variables of
\* this call.
LEMMA TypeStep ==
  ASSUME TypeOK, NEW c \in Calls, Active(c), UNCHANGED req, Local(c),
         pc' \in [Calls -> Running \cup {"idle", "done"}],
         index' \in [Calls -> Nat \ {0}],
         result' \in [Calls -> Results \cup {NoRequest}],
         unstored' \in [Calls -> Seq(Digests)],
         response' \in [Calls -> Answer \cup {NoRequest}],
         cas' \in SUBSET Digests,
         pc'[c] # "idle",
         pc'[c] = "done" => response'[c] \in Answer,
         pc'[c] # "done" => index'[c] \in 1 .. Len(req[c].uris) /\ response'[c] = NoRequest,
         pc'[c] \in {"outputs", "tree", "store"} => result'[c] \in Results,
         pc'[c] \in {"tree", "store"} =>
           req[c].op = "FetchDirectory" /\ result'[c].tree \in DOMAIN Trees,
         pc'[c] = "store" => unstored'[c] # << >>
  PROVE  TypeOK'
<1>1. req[c] \in Requests /\ DOMAIN req[c].uris = 1 .. Len(req[c].uris)
  BY RunningCall, RequestType
<1>2. ASSUME NEW d \in Calls
      PROVE  /\ pc'[d] = "idle" => index'[d] = 1 /\ response'[d] = NoRequest
             /\ pc'[d] # "idle" => req[d] \in Requests
             /\ pc'[d] = "done" => response'[d] \in Answer
             /\ pc'[d] \in Running => index'[d] \in DOMAIN req[d].uris /\ response'[d] = NoRequest
             /\ pc'[d] \in {"outputs", "tree", "store"} => result'[d] \in Results
             /\ pc'[d] \in {"tree", "store"} =>
                  req[d].op = "FetchDirectory" /\ result'[d].tree \in DOMAIN Trees
             /\ pc'[d] = "store" => unstored'[d] # << >>
  <2>1. CASE d = c
    BY <1>1, <2>1 DEF Running
  <2>2. CASE d # c
    BY <1>2, <2>2 DEF TypeOK, Local, Active
  <2>3. QED
    BY <2>1, <2>2
<1>3. QED
  BY <1>2 DEF TypeOK, Active

\* A step that moves call c to another label.
LEMMA GotoEffect ==
  ASSUME TypeOK, NEW c \in Calls, NEW l \in Running, Goto(c, l)
  PROVE  /\ pc' \in [Calls -> Running \cup {"idle", "done"}] /\ pc'[c] = l
         /\ \A d \in Calls \ {c} : pc'[d] = pc[d]
BY DEF Goto, TypeOK

\* A step that ends call c with an answer.
LEMMA ReplyEffect ==
  ASSUME TypeOK, NEW c \in Calls, NEW m \in Answer, Reply(c, m)
  PROVE  /\ pc' \in [Calls -> Running \cup {"idle", "done"}] /\ pc'[c] = "done"
         /\ response' \in [Calls -> Answer \cup {NoRequest}] /\ response'[c] = m
         /\ \A d \in Calls \ {c} : pc'[d] = pc[d] /\ response'[d] = response[d]
BY DEF Reply, Goto, TypeOK

\* The arrival of a request.
LEMMA TypeArrive ==
  ASSUME TypeOK, NEW c \in Calls, NEW r \in Requests, Refuse(c, r) \/ Begin(c, r)
  PROVE  /\ TypeOK' /\ Local(c) /\ pc[c] = "idle"
         /\ UNCHANGED <<index, result, unstored, cas, actions, executed>>
         /\ \/ pc'[c] = "action" /\ response' = response
            \/ \E code \in {"InvalidArgument", "Unknown"} :
                 pc'[c] = "done" /\ response' = [response EXCEPT ![c] = Error(code)]
         /\ req'[c] = r
<1>1. /\ pc[c] = "idle" /\ req' = [req EXCEPT ![c] = r] /\ req'[c] = r
      /\ UNCHANGED <<index, result, unstored, cas, actions, executed>>
  BY DEF Refuse, Begin, TypeOK
<1>2. 1 \in DOMAIN r.uris /\ index[c] = 1 /\ response[c] = NoRequest
  BY <1>1, RequestType DEF TypeOK
<1>3. CASE Refuse(c, r)
  <2>1. Refusal(r) \in {"InvalidArgument", "Unknown"}
    BY <1>3 DEF Refuse, Refusal
  <2>2. Error(Refusal(r)) \in Answer
    BY <2>1, AnswerType DEF Codes
  <2>3. Reply(c, Error(Refusal(r)))
    BY <1>3 DEF Refuse
  <2>4. /\ pc' \in [Calls -> Running \cup {"idle", "done"}] /\ pc'[c] = "done"
        /\ response' \in [Calls -> Answer \cup {NoRequest}] /\ response'[c] \in Answer
        /\ \A d \in Calls \ {c} : pc'[d] = pc[d] /\ response'[d] = response[d]
    BY <2>2, <2>3, ReplyEffect
  <2>5. TypeOK'
    <3>1. /\ req' \in [Calls -> Requests \cup {NoRequest}]
          /\ \A d \in Calls \ {c} : req'[d] = req[d]
      BY <1>1 DEF TypeOK
    <3>2. QED
      BY <1>1, <2>4, <3>1 DEF TypeOK, Active, Running
  <2>6. Local(c)
    BY <1>1, <2>4 DEF Local, TypeOK
  <2>7. QED
    BY <1>1, <2>1, <2>3, <2>4, <2>5, <2>6 DEF Reply
<1>4. CASE Begin(c, r)
  <2>1. pc' = [pc EXCEPT ![c] = "action"] /\ UNCHANGED response
    BY <1>4 DEF Begin, Goto
  <2>2. TypeOK'
    BY <1>1, <1>2, <2>1 DEF TypeOK, Active, Running
  <2>3. Local(c)
    BY <1>1, <2>1 DEF Local, TypeOK
  <2>4. QED
    BY <1>1, <2>1, <2>2, <2>3 DEF TypeOK
<1>5. QED
  BY <1>3, <1>4

\* A step of a running call.
LEMMA TypeOfStep ==
  ASSUME TypeOK, NEW c \in Calls, Step(c)
  PROVE  TypeOK' /\ Local(c) /\ Active(c) /\ pc'[c] # "idle" /\ UNCHANGED req
<1>1. Active(c) /\ UNCHANGED req
  BY DEF Step, UploadAction, UploadCommand, Execute, Succeeded, ExitedWithError, BlobFound,
         DirectoryFound, BlobMissing, DirectoryMissing, ReadTree, StoreDirectory, CASFails, CASErrors,
         ExecutionFails, Done, Active, Running
<1>2. /\ req[c] \in Requests /\ index[c] \in 1 .. Len(req[c].uris) /\ Len(req[c].uris) \in Nat
      /\ Uri(c) \in Uris /\ response[c] = NoRequest
  BY <1>1, RunningCall
<1>3. /\ index \in [Calls -> Nat \ {0}]
      /\ result \in [Calls -> Results \cup {NoRequest}]
      /\ unstored \in [Calls -> Seq(Digests)]
      /\ response \in [Calls -> Answer \cup {NoRequest}]
      /\ cas \in SUBSET Digests
  BY DEF TypeOK
<1>4. /\ pc[c] \in {"outputs", "tree", "store"} => result[c] \in Results
      /\ pc[c] \in {"tree", "store"} =>
           req[c].op = "FetchDirectory" /\ result[c].tree \in DOMAIN Trees
      /\ pc[c] = "store" => unstored[c] # << >>
  BY DEF TypeOK
<1>5. ASSUME NEW r \in Results
      PROVE  cas \cup Outputs(r) \in SUBSET Digests
  BY <1>3, OutputType
<1>6. \A code \in Codes : Error(code) \in Answer
  BY AnswerType
<1>7. CASE UploadAction(c) \/ UploadCommand(c) \/ Execute(c)
  <2>1. /\ UNCHANGED <<index, result, unstored, cas, response>>
        /\ \E l \in {"command", "execute", "wait"} : Goto(c, l)
    BY <1>7 DEF UploadAction, UploadCommand, Execute
  <2>2. /\ pc' \in [Calls -> Running \cup {"idle", "done"}]
        /\ pc'[c] \in {"command", "execute", "wait"}
        /\ \A d \in Calls \ {c} : pc'[d] = pc[d]
    BY <2>1, GotoEffect DEF Running
  <2>3. Local(c)
    BY <1>1, <2>1, <2>2 DEF Local
  <2>4. QED
    BY <1>1, <1>2, <1>3, <2>1, <2>2, <2>3, TypeStep
<1>8. CASE Succeeded(c)
  <2>1. PICK r \in Results : cas' = cas \cup Outputs(r) /\ result' = [result EXCEPT ![c] = r]
    BY <1>8 DEF Succeeded, Done
  <2>2. Goto(c, "outputs") /\ UNCHANGED <<index, unstored, response>>
    BY <1>8 DEF Succeeded
  <2>3. /\ pc' \in [Calls -> Running \cup {"idle", "done"}] /\ pc'[c] = "outputs"
        /\ \A d \in Calls \ {c} : pc'[d] = pc[d]
    BY <2>2, GotoEffect DEF Running
  <2>4. Local(c) /\ result'[c] = r /\ result' \in [Calls -> Results \cup {NoRequest}]
    BY <1>1, <1>3, <2>1, <2>2, <2>3 DEF Local
  <2>5. QED
    BY <1>1, <1>2, <1>3, <1>5, <2>1, <2>2, <2>3, <2>4, TypeStep
<1>9. CASE ExitedWithError(c)
  <2>1. PICK r \in Results : cas' = cas \cup Outputs(r)
    BY <1>9 DEF ExitedWithError, Done
  <2>2. UNCHANGED <<result, unstored>>
    BY <1>9 DEF ExitedWithError
  <2>3. CASE MoreUris(c)
    <3>1. /\ index' = [index EXCEPT ![c] = index[c] + 1] /\ Goto(c, "action")
          /\ UNCHANGED response
      BY <1>9, <2>3 DEF ExitedWithError, NextUri
    <3>2. /\ pc' \in [Calls -> Running \cup {"idle", "done"}] /\ pc'[c] = "action"
          /\ \A d \in Calls \ {c} : pc'[d] = pc[d]
      BY <3>1, GotoEffect DEF Running
    <3>3. /\ Local(c) /\ index' \in [Calls -> Nat \ {0}]
          /\ index'[c] \in 1 .. Len(req[c].uris)
      BY <1>1, <1>2, <1>3, <2>2, <2>3, <3>1, <3>2 DEF Local, MoreUris
    <3>4. QED
      BY <1>1, <1>2, <1>3, <1>5, <2>1, <2>2, <3>1, <3>2, <3>3, TypeStep
  <2>4. CASE ~ MoreUris(c)
    <3>1. Reply(c, Error("NotFound")) /\ UNCHANGED index
      BY <1>9, <2>4 DEF ExitedWithError
    <3>2. /\ pc' \in [Calls -> Running \cup {"idle", "done"}] /\ pc'[c] = "done"
          /\ response' \in [Calls -> Answer \cup {NoRequest}] /\ response'[c] \in Answer
          /\ \A d \in Calls \ {c} : pc'[d] = pc[d] /\ response'[d] = response[d]
      BY <1>6, <3>1, ReplyEffect DEF Codes
    <3>3. Local(c)
      BY <1>1, <2>2, <3>1, <3>2 DEF Local
    <3>4. QED
      BY <1>1, <1>3, <1>5, <2>1, <2>2, <3>1, <3>2, <3>3, TypeStep
  <2>5. QED
    BY <2>3, <2>4
<1>10. CASE DirectoryFound(c)
  <2>1. /\ pc[c] = "outputs" /\ req[c].op = "FetchDirectory" /\ result[c].tree # Nothing
        /\ Goto(c, "tree") /\ UNCHANGED <<index, result, unstored, cas, response>>
    BY <1>10 DEF DirectoryFound
  <2>2. /\ pc' \in [Calls -> Running \cup {"idle", "done"}] /\ pc'[c] = "tree"
        /\ \A d \in Calls \ {c} : pc'[d] = pc[d]
    BY <2>1, GotoEffect DEF Running
  <2>3. Local(c)
    BY <1>1, <2>1, <2>2 DEF Local
  <2>4. result[c] \in Results /\ result[c].tree \in DOMAIN Trees
    BY <1>4, <2>1, OutputType
  <2>5. QED
    BY <1>1, <1>2, <1>3, <2>1, <2>2, <2>3, <2>4, TypeStep
<1>11. CASE ReadTree(c)
  <2>1. /\ pc[c] = "tree" /\ Goto(c, "store") /\ UNCHANGED <<index, result, cas, response>>
        /\ unstored' = [unstored EXCEPT ![c] = Contents(Trees[result[c].tree])]
    BY <1>11 DEF ReadTree
  <2>2. /\ Contents(Trees[result[c].tree]) \in Seq(Digests)
        /\ Contents(Trees[result[c].tree]) # << >>
    BY <1>4, <2>1, TreeType
  <2>3. /\ pc' \in [Calls -> Running \cup {"idle", "done"}] /\ pc'[c] = "store"
        /\ \A d \in Calls \ {c} : pc'[d] = pc[d]
    BY <2>1, GotoEffect DEF Running
  <2>4. Local(c) /\ unstored' \in [Calls -> Seq(Digests)] /\ unstored'[c] # << >>
    BY <1>1, <1>3, <2>1, <2>2, <2>3 DEF Local
  <2>5. QED
    BY <1>1, <1>2, <1>3, <1>4, <2>1, <2>3, <2>4, TypeStep
<1>12. CASE StoreDirectory(c)
  <2>1. /\ pc[c] = "store" /\ UNCHANGED <<index, result>>
        /\ cas' = cas \cup {Head(unstored[c])}
        /\ unstored' = [unstored EXCEPT ![c] = Tail(unstored[c])]
    BY <1>12 DEF StoreDirectory
  <2>2. /\ Head(unstored[c]) \in Digests /\ Tail(unstored[c]) \in Seq(Digests)
        /\ Len(unstored[c]) > 1 => Tail(unstored[c]) # << >>
    <3>1. unstored[c] \in Seq(Digests) /\ unstored[c] # << >>
      BY <1>3, <1>4, <2>1
    <3>2. QED
      BY <3>1, TakeFirst
  <2>3. cas' \in SUBSET Digests /\ unstored' \in [Calls -> Seq(Digests)]
        /\ unstored'[c] = Tail(unstored[c])
        /\ \A d \in Calls \ {c} : unstored'[d] = unstored[d]
    BY <1>3, <2>1, <2>2
  <2>4. CASE Len(unstored[c]) > 1
    <3>1. UNCHANGED <<pc, response>>
      BY <1>12, <2>4 DEF StoreDirectory
    <3>2. Local(c) /\ pc' \in [Calls -> Running \cup {"idle", "done"}]
      BY <1>1, <2>1, <2>3, <3>1 DEF Local, TypeOK
    <3>3. /\ pc'[c] = "store" /\ response'[c] = NoRequest /\ index'[c] \in 1 .. Len(req[c].uris)
          /\ response' \in [Calls -> Answer \cup {NoRequest}]
          /\ index' \in [Calls -> Nat \ {0}] /\ result' \in [Calls -> Results \cup {NoRequest}]
          /\ result'[c] \in Results /\ req[c].op = "FetchDirectory"
          /\ result'[c].tree \in DOMAIN Trees
      BY <1>2, <1>3, <1>4, <2>1, <3>1
    <3>4. unstored'[c] # << >>
      BY <2>2, <2>3, <2>4
    <3>5. QED
      BY <1>1, <2>3, <3>2, <3>3, <3>4, TypeStep
  <2>5. CASE ~ Len(unstored[c]) > 1
    <3>1. Reply(c, Success(c, Trees[result[c].tree].root))
      BY <1>12, <2>5 DEF StoreDirectory
    <3>2. Success(c, Trees[result[c].tree].root) \in Answer
      BY <1>2, <1>4, <2>1, TreeType, AnswerType DEF Success
    <3>3. /\ pc' \in [Calls -> Running \cup {"idle", "done"}] /\ pc'[c] = "done"
          /\ response' \in [Calls -> Answer \cup {NoRequest}] /\ response'[c] \in Answer
          /\ \A d \in Calls \ {c} : pc'[d] = pc[d] /\ response'[d] = response[d]
      BY <3>1, <3>2, ReplyEffect
    <3>4. Local(c)
      BY <1>1, <2>1, <2>3, <3>3 DEF Local
    <3>5. QED
      BY <1>1, <1>3, <2>1, <2>3, <3>3, <3>4, TypeStep
  <2>6. QED
    BY <2>4, <2>5
<1>13. CASE BlobFound(c) \/ BlobMissing(c) \/ DirectoryMissing(c) \/ CASFails(c) \/ ExecutionFails(c)
  <2>1. UNCHANGED <<index, result, unstored>>
    BY <1>13 DEF BlobFound, BlobMissing, DirectoryMissing, CASFails, CASErrors, ExecutionFails
  <2>2. cas' \in SUBSET Digests
    <3>1. cas' = cas \/ (pc[c] = "store" /\ cas' = cas \cup {Head(unstored[c])})
      BY <1>13 DEF BlobFound, BlobMissing, DirectoryMissing, CASFails, CASErrors, ExecutionFails
    <3>2. pc[c] = "store" => Head(unstored[c]) \in Digests
      BY <1>3, <1>4, TakeFirst
    <3>3. QED
      BY <1>3, <3>1, <3>2
  <2>3. PICK m \in Answer : Reply(c, m)
    <3>1. CASE BlobFound(c)
      <4>1. result[c].file \in Digests
        BY <1>4, <3>1, OutputType DEF BlobFound
      <4>2. Success(c, result[c].file) \in Answer
        BY <1>2, <4>1, AnswerType DEF Success
      <4>3. QED
        BY <3>1, <4>2 DEF BlobFound
    <3>2. CASE BlobMissing(c) \/ DirectoryMissing(c) \/ CASFails(c) \/ ExecutionFails(c)
      BY <1>6, <3>2 DEF BlobMissing, DirectoryMissing, CASFails, CASErrors, ExecutionFails, Codes
    <3>3. QED
      BY <1>13, <3>1, <3>2
  <2>4. /\ pc' \in [Calls -> Running \cup {"idle", "done"}] /\ pc'[c] = "done"
        /\ response' \in [Calls -> Answer \cup {NoRequest}] /\ response'[c] \in Answer
        /\ \A d \in Calls \ {c} : pc'[d] = pc[d] /\ response'[d] = response[d]
    BY <2>3, ReplyEffect
  <2>5. Local(c)
    BY <1>1, <2>1, <2>4 DEF Local
  <2>6. QED
    BY <1>1, <1>3, <2>1, <2>2, <2>4, <2>5, TypeStep
<1>14. QED
  BY <1>7, <1>8, <1>9, <1>10, <1>11, <1>12, <1>13 DEF Step

\* A crash, and stuttering.
LEMMA TypeEnvironment ==
  ASSUME TypeOK, Crash \/ UNCHANGED vars
  PROVE  TypeOK'
<1>1. CASE UNCHANGED vars
  BY <1>1 DEF TypeOK, vars, Active
<1>2. CASE Crash
  <2>1. /\ pc' = [c \in Calls |-> IF Active(c) THEN "done" ELSE pc[c]]
        /\ response' = [c \in Calls |-> IF Active(c) THEN Error("Unavailable") ELSE response[c]]
        /\ UNCHANGED <<req, index, result, unstored, cas, actions, executed>>
    BY <1>2 DEF Crash
  <2>2. Error("Unavailable") \in Answer
    BY AnswerType DEF Codes
  <2>3. pc' \in [Calls -> {"idle", "done"}]
    BY <2>1 DEF TypeOK, Active
  <2>4. response' \in [Calls -> Answer \cup {NoRequest}]
    BY <2>1, <2>2 DEF TypeOK
  <2>5. ASSUME NEW c \in Calls
        PROVE  /\ pc'[c] = "idle" => index[c] = 1 /\ response'[c] = NoRequest
               /\ pc'[c] # "idle" => req[c] \in Requests
               /\ pc'[c] = "done" => response'[c] \in Answer
    BY <2>1, <2>2, <2>5 DEF TypeOK, Active, Running
  <2>6. QED
    BY <2>1, <2>3, <2>4, <2>5 DEF TypeOK, Active, Running
<1>3. QED
  BY <1>1, <1>2

-----------------------------------------------------------------------------
(* The conjuncts of the invariant                                          *)

\* Every step is the arrival of a request, a step of a running call, or it
\* concerns none or all of them; nothing leaves the CAS.
LEMMA Steps ==
  ASSUME Inv, Next \/ UNCHANGED vars
  PROVE  /\ \/ \E c \in Calls, r \in Requests : Refuse(c, r) \/ Begin(c, r)
            \/ \E c \in Calls : Step(c)
            \/ Crash
            \/ UNCHANGED vars
         /\ cas \subseteq cas' /\ actions \subseteq actions' /\ TypeOK /\ TypeOK'
<1>0. TypeOK
  BY DEF Inv
<1>1. \/ \E c \in Calls, r \in Requests : Refuse(c, r) \/ Begin(c, r)
      \/ \E c \in Calls : Step(c)
      \/ Crash
      \/ UNCHANGED vars
  BY DEF Next, Quiescent
<1>2. CASE \E c \in Calls, r \in Requests : Refuse(c, r) \/ Begin(c, r)
  BY <1>0, <1>2, TypeArrive
<1>3. CASE \E c \in Calls : Step(c)
  <2>1. PICK c \in Calls : Step(c)
    BY <1>3
  <2>2. cas \subseteq cas' /\ actions \subseteq actions'
    BY <2>1 DEF Step, UploadAction, UploadCommand, Execute, Succeeded, ExitedWithError,
                BlobFound, DirectoryFound, BlobMissing, DirectoryMissing, ReadTree,
                StoreDirectory, CASFails, CASErrors, ExecutionFails, Done
  <2>3. QED
    BY <1>0, <2>1, <2>2, TypeOfStep
<1>4. CASE Crash \/ UNCHANGED vars
  <2>1. cas' = cas /\ actions' = actions
    BY <1>4 DEF Crash, vars
  <2>2. QED
    BY <1>0, <1>4, <2>1, TypeEnvironment
<1>5. QED
  BY <1>1, <1>2, <1>3, <1>4

\* After a crash no call is running, and what had ended is as it was.
LEMMA CrashEffect ==
  ASSUME TypeOK, Crash, NEW c \in Calls
  PROVE  /\ pc'[c] \in {"idle", "done"}
         /\ \/ pc'[c] = pc[c] /\ response'[c] = response[c]
            \/ response'[c] = Error("Unavailable")
         /\ UNCHANGED <<req, index, result, unstored, cas, actions, executed>>
BY DEF Crash, TypeOK, Active

\* The Action is uploaded before the Command, and both before the execution.
LEMMA KeepsUploaded ==
  ASSUME Inv, Next \/ UNCHANGED vars
  PROVE  Uploaded'
<1>1. Uploaded /\ TypeOK /\ actions \subseteq actions'
  BY Steps DEF Inv
<1>2. ASSUME NEW d \in Calls, pc'[d] = pc[d], req'[d] = req[d], index'[d] = index[d]
      PROVE  /\ pc'[d] \in {"command", "execute"} => Action(d)' \in actions'
             /\ pc'[d] = "execute" => Command(d)' \in actions'
  <2>1. Action(d)' = Action(d) /\ Command(d)' = Command(d)
    BY <1>2 DEF Action, Command, Uri
  <2>2. QED
    BY <1>1, <1>2, <2>1 DEF Uploaded
<1>3. CASE \E c \in Calls, r \in Requests : Refuse(c, r) \/ Begin(c, r)
  <2>1. PICK c \in Calls, r \in Requests : Refuse(c, r) \/ Begin(c, r)
    BY <1>3
  <2>2. Local(c) /\ pc'[c] \in {"action", "done"}
    BY <1>1, <2>1, TypeArrive
  <2>3. QED
    BY <1>2, <2>2 DEF Uploaded, Local
<1>4. CASE \E c \in Calls : Step(c)
  <2>1. PICK c \in Calls : Step(c)
    BY <1>4
  <2>2. Local(c) /\ UNCHANGED req
    BY <1>1, <2>1, TypeOfStep
  <2>3. /\ pc'[c] \in {"command", "execute"} => Action(c)' \in actions'
        /\ pc'[c] = "execute" => Command(c)' \in actions'
    <3>1. CASE UploadAction(c) \/ UploadCommand(c)
      <4>1. UNCHANGED index
        BY <3>1 DEF UploadAction, UploadCommand
      <4>2. Action(c)' = Action(c) /\ Command(c)' = Command(c)
        BY <2>2, <4>1 DEF Action, Command, Uri
      <4>3. CASE UploadAction(c)
        <5>1. pc'[c] = "command" /\ Action(c) \in actions'
          BY <1>1, <4>3 DEF UploadAction, Goto, TypeOK
        <5>2. QED
          BY <4>2, <5>1
      <4>4. CASE UploadCommand(c)
        <5>1. pc[c] = "command" /\ Command(c) \in actions'
          BY <4>4 DEF UploadCommand
        <5>2. Action(c) \in actions'
          BY <1>1, <5>1 DEF Uploaded
        <5>3. QED
          BY <4>2, <5>1, <5>2
      <4>5. QED
        BY <3>1, <4>3, <4>4
    <3>2. CASE ~ (UploadAction(c) \/ UploadCommand(c))
      <4>1. pc'[c] \notin {"command", "execute"}
        BY <1>1, <2>1, <3>2
           DEF Step, Execute, Succeeded, ExitedWithError, BlobFound, DirectoryFound, BlobMissing,
               DirectoryMissing, ReadTree, StoreDirectory, CASFails, CASErrors, ExecutionFails, Goto, Reply,
               TypeOK
      <4>2. QED
        BY <4>1
    <3>3. QED
      BY <3>1, <3>2
  <2>4. QED
    BY <1>2, <2>2, <2>3 DEF Uploaded, Local
<1>5. CASE Crash
  BY <1>1, <1>5, CrashEffect DEF Uploaded
<1>6. CASE UNCHANGED vars
  BY <1>2, <1>6 DEF Uploaded, vars
<1>7. QED
  BY <1>3, <1>4, <1>5, <1>6, Steps

\* An execution is asked for when both uploads have succeeded.
LEMMA KeepsExecuted ==
  ASSUME Inv, Next \/ UNCHANGED vars
  PROVE  ExecutedActionsAreStored'
<1>1. /\ Uploaded /\ TypeOK /\ ExecutedActionsAreStored /\ actions \subseteq actions'
  BY Steps DEF Inv
<1>2. CASE UNCHANGED executed
  BY <1>1, <1>2 DEF ExecutedActionsAreStored
<1>3. CASE \E c \in Calls : Execute(c)
  <2>1. PICK c \in Calls : Execute(c)
    BY <1>3
  <2>2. pc[c] = "execute" /\ executed' = executed \cup {[call |-> c, uri |-> Uri(c), action |-> Action(c)]}
    BY <2>1 DEF Execute
  <2>3. Action(c) \in actions' /\ Command(c) \in actions' /\ Action(c).command = Command(c)
    BY <1>1, <2>2 DEF Uploaded, Action
  <2>4. QED
    BY <1>1, <2>2, <2>3 DEF ExecutedActionsAreStored
<1>4. CASE \E c \in Calls : Step(c) /\ ~ Execute(c)
  <2>1. PICK c \in Calls : Step(c) /\ ~ Execute(c)
    BY <1>4
  <2>2. UNCHANGED executed
    BY <2>1 DEF Step, UploadAction, UploadCommand, Succeeded, ExitedWithError,
                BlobFound, DirectoryFound, BlobMissing, DirectoryMissing, ReadTree,
                StoreDirectory, CASFails, CASErrors, ExecutionFails
  <2>3. QED
    BY <1>2, <2>2
<1>5. CASE \E c \in Calls, r \in Requests : Refuse(c, r) \/ Begin(c, r)
  BY <1>1, <1>2, <1>5, TypeArrive
<1>6. CASE Crash \/ UNCHANGED vars
  BY <1>2, <1>6 DEF Crash, vars
<1>7. QED
  BY <1>3, <1>4, <1>5, <1>6, Steps

\* The cluster has uploaded the outputs of the result that it reports.
LEMMA KeepsOutputs ==
  ASSUME Inv, Next \/ UNCHANGED vars
  PROVE  OutputsAreStored'
<1>1. OutputsAreStored /\ TypeOK /\ cas \subseteq cas'
  BY Steps DEF Inv
<1>2. ASSUME NEW d \in Calls, req'[d] = req[d], result'[d] = result[d],
             pc'[d] \in {"outputs", "tree", "store"} => pc[d] \in {"outputs", "tree", "store"}
      PROVE  pc'[d] \in {"outputs", "tree", "store"} =>
               \A x \in Outputs(result[d])' : x \in cas' /\ HashFunction[x] = FetchFunction(req[d])'
  <2>1. Outputs(result[d])' = Outputs(result[d]) /\ FetchFunction(req[d])' = FetchFunction(req[d])
    BY <1>2 DEF Outputs, FetchFunction
  <2>2. QED
    BY <1>1, <1>2, <2>1 DEF OutputsAreStored
<1>3. CASE \E c \in Calls, r \in Requests : Refuse(c, r) \/ Begin(c, r)
  <2>1. PICK c \in Calls, r \in Requests : Refuse(c, r) \/ Begin(c, r)
    BY <1>3
  <2>2. Local(c) /\ pc'[c] \in {"action", "done"}
    BY <1>1, <2>1, TypeArrive
  <2>3. QED
    BY <1>2, <2>2 DEF OutputsAreStored, Local
<1>4. CASE \E c \in Calls : Step(c)
  <2>1. PICK c \in Calls : Step(c)
    BY <1>4
  <2>2. Local(c) /\ UNCHANGED req
    BY <1>1, <2>1, TypeOfStep
  <2>3. pc'[c] \in {"outputs", "tree", "store"} =>
          \A x \in Outputs(result[c])' : x \in cas' /\ HashFunction[x] = FetchFunction(req[c])'
    <3>1. CASE Succeeded(c)
      <4>1. PICK r \in Results : /\ cas' = cas \cup Outputs(r)
                                 /\ \A x \in Outputs(r) : HashFunction[x] = FetchFunction(req[c])
                                 /\ result' = [result EXCEPT ![c] = r]
        BY <3>1 DEF Succeeded, Done
      <4>2. result'[c] = r
        BY <1>1, <4>1 DEF TypeOK
      <4>3. Outputs(result[c])' = Outputs(r) /\ FetchFunction(req[c])' = FetchFunction(req[c])
        BY <2>2, <4>2 DEF Outputs, FetchFunction
      <4>4. QED
        BY <4>1, <4>3
    <3>2. CASE DirectoryFound(c) \/ ReadTree(c) \/ StoreDirectory(c)
      <4>1. pc[c] \in {"outputs", "tree", "store"} /\ result' = result
        BY <3>2 DEF DirectoryFound, ReadTree, StoreDirectory
      <4>2. QED
        BY <1>2, <2>2, <4>1
    <3>3. CASE ~ (Succeeded(c) \/ DirectoryFound(c) \/ ReadTree(c) \/ StoreDirectory(c))
      <4>1. pc'[c] \notin {"outputs", "tree", "store"}
        BY <1>1, <2>1, <3>3
           DEF Step, UploadAction, UploadCommand, Execute, ExitedWithError, BlobFound,
               BlobMissing, DirectoryMissing, CASFails, CASErrors, ExecutionFails, Goto, Reply, TypeOK
      <4>2. QED
        BY <4>1
    <3>4. QED
      BY <3>1, <3>2, <3>3
  <2>4. QED
    BY <1>2, <2>2, <2>3 DEF OutputsAreStored, Local
<1>5. CASE Crash
  BY <1>1, <1>5, CrashEffect DEF OutputsAreStored
<1>6. CASE UNCHANGED vars
  BY <1>2, <1>6 DEF OutputsAreStored, vars
<1>7. QED
  BY <1>3, <1>4, <1>5, <1>6, Steps

\* A directory leaves the list of a call when it is put in the CAS.
LEMMA KeepsDirectories ==
  ASSUME Inv, Next \/ UNCHANGED vars
  PROVE  NoneIsForgotten'
<1>1. NoneIsForgotten /\ TypeOK /\ cas \subseteq cas'
  BY Steps DEF Inv
<1>2. ASSUME NEW d \in Calls, result'[d] = result[d], unstored'[d] = unstored[d],
             pc'[d] = "store" => pc[d] = "store"
      PROVE  pc'[d] = "store" => Directories(result[d].tree)' \subseteq cas' \cup Listed(d)'
  <2>1. Directories(result[d].tree)' = Directories(result[d].tree) /\ Listed(d)' = Listed(d)
    BY <1>2 DEF Directories, Listed
  <2>2. QED
    BY <1>1, <1>2, <2>1 DEF NoneIsForgotten
<1>3. CASE \E c \in Calls, r \in Requests : Refuse(c, r) \/ Begin(c, r)
  <2>1. PICK c \in Calls, r \in Requests : Refuse(c, r) \/ Begin(c, r)
    BY <1>3
  <2>2. Local(c) /\ pc'[c] \in {"action", "done"}
    BY <1>1, <2>1, TypeArrive
  <2>3. QED
    BY <1>2, <2>2 DEF NoneIsForgotten, Local
<1>4. CASE \E c \in Calls : Step(c)
  <2>1. PICK c \in Calls : Step(c)
    BY <1>4
  <2>2. Local(c)
    BY <1>1, <2>1, TypeOfStep
  <2>3. pc'[c] = "store" => Directories(result[c].tree)' \subseteq cas' \cup Listed(c)'
    <3>1. CASE ReadTree(c) \/ StoreDirectory(c)
      <4>1. result' = result /\ result[c].tree \in DOMAIN Trees /\ unstored[c] \in Seq(Digests)
        BY <1>1, <3>1 DEF ReadTree, StoreDirectory, TypeOK
      <4>2. Directories(result[c].tree)' = Directories(result[c].tree)
        BY <4>1 DEF Directories
      <4>3. CASE ReadTree(c)
        <5>1. unstored'[c] = Contents(Trees[result[c].tree])
          BY <1>1, <4>3 DEF ReadTree, TypeOK
        <5>2. Directories(result[c].tree) = Listed(c)'
          BY <4>1, <5>1, TreeType DEF Listed
        <5>3. QED
          BY <4>2, <5>2
      <4>4. CASE StoreDirectory(c)
        <5>1. /\ pc[c] = "store" /\ unstored'[c] = Tail(unstored[c]) /\ unstored[c] # << >>
              /\ cas' = cas \cup {Head(unstored[c])}
          BY <1>1, <4>4 DEF StoreDirectory, TypeOK
        <5>2. Listed(c) \subseteq {Head(unstored[c])} \cup Listed(c)'
          <6>1. Listed(c)' = {Tail(unstored[c])[i] : i \in 1 .. Len(Tail(unstored[c]))}
            BY <5>1 DEF Listed
          <6>2. {unstored[c][i] : i \in 1 .. Len(unstored[c])} \subseteq {Head(unstored[c])}
                  \cup {Tail(unstored[c])[i] : i \in 1 .. Len(Tail(unstored[c]))}
            BY <4>1, <5>1, TakeFirst
          <6>3. QED
            BY <6>1, <6>2 DEF Listed
        <5>3. QED
          BY <1>1, <4>2, <5>1, <5>2 DEF NoneIsForgotten
      <4>5. QED
        BY <3>1, <4>3, <4>4
    <3>2. CASE ~ (ReadTree(c) \/ StoreDirectory(c))
      <4>1. pc'[c] # "store"
        BY <1>1, <2>1, <3>2
           DEF Step, UploadAction, UploadCommand, Execute, Succeeded, ExitedWithError, BlobFound,
               DirectoryFound, BlobMissing, DirectoryMissing, CASFails, CASErrors, ExecutionFails, Goto,
               Reply, TypeOK
      <4>2. QED
        BY <4>1
    <3>3. QED
      BY <3>1, <3>2
  <2>4. QED
    BY <1>2, <2>2, <2>3 DEF NoneIsForgotten, Local
<1>5. CASE Crash
  BY <1>1, <1>5, CrashEffect DEF NoneIsForgotten
<1>6. CASE UNCHANGED vars
  BY <1>2, <1>6 DEF NoneIsForgotten, vars
<1>7. QED
  BY <1>3, <1>4, <1>5, <1>6, Steps

\* The last directory of a tree is put in the CAS, and the root is returned.
LEMMA KeepsFetched ==
  ASSUME Inv, Next \/ UNCHANGED vars
  PROVE  FetchedDirectoryIsComplete'
<1>1. FetchedDirectoryIsComplete /\ NoneIsForgotten /\ TypeOK /\ cas \subseteq cas'
  BY Steps DEF Inv
<1> DEFINE Complete(d) ==
      pc[d] = "done" /\ req[d].op = "FetchDirectory" /\ response[d].code = "OK" =>
        \E t \in DOMAIN Trees : Trees[t].root = response[d].digest /\ Directories(t) \subseteq cas
<1>2. ASSUME NEW d \in Calls, pc'[d] = pc[d], req'[d] = req[d], response'[d] = response[d]
      PROVE  Complete(d)'
  BY <1>1, <1>2 DEF FetchedDirectoryIsComplete
<1>3. ASSUME NEW d \in Calls, NEW code \in Codes, response'[d] = Error(code)
      PROVE  Complete(d)'
  BY <1>3, AnswerType DEF Codes
<1>4. (\A d \in Calls : Complete(d)') => FetchedDirectoryIsComplete'
  BY DEF FetchedDirectoryIsComplete
<1>5. CASE \E c \in Calls, r \in Requests : Refuse(c, r) \/ Begin(c, r)
  <2>1. PICK c \in Calls, r \in Requests : Refuse(c, r) \/ Begin(c, r)
    BY <1>5
  <2>2. Local(c)
    BY <1>1, <2>1, TypeArrive
  <2>3. pc'[c] = "action" \/ \E code \in Codes : response'[c] = Error(code)
    <3>1. \/ pc'[c] = "action"
          \/ \E code \in {"InvalidArgument", "Unknown"} :
               response' = [response EXCEPT ![c] = Error(code)]
      BY <1>1, <2>1, TypeArrive
    <3>2. QED
      BY <1>1, <3>1 DEF Codes, TypeOK
  <2>4. Complete(c)'
    BY <1>3, <2>3
  <2>5. \A d \in Calls \ {c} : Complete(d)'
    BY <1>2, <2>2 DEF Local
  <2>6. QED
    BY <1>4, <2>4, <2>5
<1>6. CASE \E c \in Calls : Step(c)
  <2>1. PICK c \in Calls : Step(c)
    BY <1>6
  <2>2. Local(c) /\ UNCHANGED req
    BY <1>1, <2>1, TypeOfStep
  <2>3. Complete(c)'
    <3>1. CASE StoreDirectory(c)
      <4>1. /\ pc[c] = "store" /\ cas' = cas \cup {Head(unstored[c])}
            /\ result[c].tree \in DOMAIN Trees
            /\ unstored[c] \in Seq(Digests) /\ unstored[c] # << >>
        BY <1>1, <3>1 DEF StoreDirectory, TypeOK
      <4>2. CASE Len(unstored[c]) > 1
        BY <3>1, <4>1, <4>2 DEF StoreDirectory
      <4>3. CASE ~ Len(unstored[c]) > 1
        <5>1. response'[c].digest = Trees[result[c].tree].root
          BY <1>1, <3>1, <4>3 DEF StoreDirectory, Reply, Success, TypeOK
        <5>2. Listed(c) = {Head(unstored[c])}
          BY <4>1, <4>3, TakeFirst DEF Listed
        <5>3. Directories(result[c].tree) \subseteq cas'
          BY <1>1, <4>1, <5>2 DEF NoneIsForgotten
        <5>4. QED
          BY <4>1, <5>1, <5>3
      <4>4. QED
        BY <4>2, <4>3
    <3>2. CASE BlobFound(c)
      <4>1. req'[c].op = "FetchBlob"
        BY <2>2, <3>2 DEF BlobFound
      <4>2. QED
        BY <4>1
    <3>3. CASE BlobMissing(c) \/ DirectoryMissing(c) \/ CASFails(c) \/ ExecutionFails(c)
      <4>1. \E code \in Codes : response'[c] = Error(code)
        BY <1>1, <3>3 DEF BlobMissing, DirectoryMissing, CASFails, CASErrors, ExecutionFails, Reply, Codes,
                          TypeOK
      <4>2. QED
        BY <1>3, <4>1
    <3>4. CASE ExitedWithError(c)
      <4>1. \/ pc'[c] = "action"
            \/ \E code \in Codes : response'[c] = Error(code)
        BY <1>1, <3>4 DEF ExitedWithError, Goto, Reply, Codes, TypeOK
      <4>2. QED
        BY <1>3, <4>1
    <3>5. CASE UploadAction(c) \/ UploadCommand(c) \/ Execute(c) \/ Succeeded(c)
                 \/ DirectoryFound(c) \/ ReadTree(c)
      <4>1. pc'[c] # "done"
        BY <1>1, <3>5 DEF UploadAction, UploadCommand, Execute, Succeeded, DirectoryFound,
                          ReadTree, Goto, TypeOK
      <4>2. QED
        BY <4>1
    <3>6. QED
      BY <2>1, <3>1, <3>2, <3>3, <3>4, <3>5 DEF Step
  <2>4. \A d \in Calls \ {c} : Complete(d)'
    BY <1>2, <2>2 DEF Local
  <2>5. QED
    BY <1>4, <2>3, <2>4
<1>7. CASE Crash
  <2>1. ASSUME NEW d \in Calls
        PROVE  Complete(d)'
    <3>1. UNCHANGED req /\ (response'[d] = Error("Unavailable")
             \/ (pc'[d] = pc[d] /\ response'[d] = response[d]))
      BY <1>1, <1>7, CrashEffect
    <3>2. QED
      BY <1>2, <1>3, <3>1 DEF Codes
  <2>2. QED
    BY <1>4, <2>1
<1>8. CASE UNCHANGED vars
  BY <1>2, <1>4, <1>8 DEF vars
<1>9. QED
  BY <1>5, <1>6, <1>7, <1>8, Steps

-----------------------------------------------------------------------------
(* The invariants of the specification                                     *)

\* The invariant of which the others are part: fetchCommon has uploaded what
\* it executes, the outputs of the result are in the CAS, and so are the
\* directories of the tree that are no longer on the list.
THEOREM ExecutionInvariant == Spec => []Inv
<1>1. Inv /\ [Next]_vars => Inv'
  <2> SUFFICES ASSUME Inv, Next \/ UNCHANGED vars PROVE Inv'
    OBVIOUS
  <2>1. TypeOK'
    BY Steps
  <2>2. QED
    BY <2>1, KeepsUploaded, KeepsExecuted, KeepsOutputs, KeepsDirectories, KeepsFetched DEF Inv
<1>2. QED
  BY InitInv, <1>1, PTL DEF Spec

\* Every variable has a value of its kind, and a call has what its next step
\* works on.
THEOREM ExecutionTypeCorrect == Spec => []TypeOK
<1>1. Inv => TypeOK
  BY DEF Inv
<1>2. QED
  BY ExecutionInvariant, <1>1, PTL

\* The cluster finds every action that fetchCommon has it execute, and the
\* command of the action, in the CAS, whatever uploads fail.
THEOREM ExecutionActionsAreStored == Spec => []ExecutedActionsAreStored
<1>1. Inv => ExecutedActionsAreStored
  BY DEF Inv
<1>2. QED
  BY ExecutionInvariant, <1>1, PTL

\* FetchDirectory returns the root of a tree all of whose directories are in
\* the CAS, for trees of every size.
THEOREM ExecutionDirectoryIsComplete == Spec => []FetchedDirectoryIsComplete
<1>1. Inv => FetchedDirectoryIsComplete
  BY DEF Inv
<1>2. QED
  BY ExecutionInvariant, <1>1, PTL

-----------------------------------------------------------------------------
(* Refinement                                                              *)

\* The calls that run, as the abstract fetcher sees them.
RunningBar == [c \in Calls |-> IF Active(c) THEN req[c] ELSE NoRequest]

\* A running call has a request.
LEMMA BarType ==
  ASSUME TypeOK, NEW c \in Calls
  PROVE  /\ Active(c) => RunningBar[c] = req[c] /\ RunningBar[c] # NoRequest
         /\ ~ Active(c) => RunningBar[c] = NoRequest
BY RunningCall, RequestType DEF RunningBar

\* A step that keeps call c running may have stored something.
LEMMA BarStays ==
  ASSUME TypeOK, NEW c \in Calls, Local(c), Active(c), pc'[c] \in Running, UNCHANGED <<req, response>>,
         \E ds \in SUBSET Digests : cas' = cas \cup ds
  PROVE  Fetcher!Next
<1>1. RunningBar' = RunningBar
  BY DEF RunningBar, Local, Active
<1>2. RunningBar[c] # NoRequest
  BY BarType
<1>3. Fetcher!Store(c)
  BY <1>1, <1>2 DEF Fetcher!Store, Fetcher!Grow, RunningBar, NoRequest, Fetcher!NoRequest
<1>4. QED
  BY <1>3 DEF Fetcher!Next

\* A step that ends a call removes its request.
LEMMA BarEnds ==
  ASSUME NEW c \in Calls, Local(c), pc'[c] = "done"
  PROVE  RunningBar' = [RunningBar EXCEPT ![c] = NoRequest]
BY DEF RunningBar, Local, Active, Running

\* A failure of a running call is one of the abstract fetcher.
LEMMA BarFails ==
  ASSUME TypeOK, NEW c \in Calls, Active(c), Local(c), NEW code \in Fetcher!Failures,
         pc'[c] = "done", response' = [response EXCEPT ![c] = Error(code)],
         \E ds \in SUBSET Digests : cas' = cas \cup ds
  PROVE  Fetcher!Next
<1>1. RunningBar[c] # NoRequest /\ RunningBar' = [RunningBar EXCEPT ![c] = NoRequest]
  BY BarType, BarEnds
<1>2. Fetcher!End(c, [code |-> code])
  BY <1>1 DEF Fetcher!End, Error, RunningBar, NoRequest, Fetcher!NoRequest
<1>3. Fetcher!Fail(c)
  BY <1>2 DEF Fetcher!Fail, Fetcher!Grow
<1>4. QED
  BY <1>3 DEF Fetcher!Next

\* So is a success with a digest of the function of the request that the CAS
\* has.
LEMMA BarSucceeds ==
  ASSUME TypeOK, NEW c \in Calls, Active(c), Local(c), NEW d \in cas',
         HashFunction[d] = FetchFunction(req[c]),
         pc'[c] = "done", response' = [response EXCEPT ![c] = Success(c, d)],
         \E ds \in SUBSET Digests : cas' = cas \cup ds
  PROVE  Fetcher!Next
<1>1. /\ RunningBar[c] = req[c] /\ RunningBar[c] # NoRequest
      /\ RunningBar' = [RunningBar EXCEPT ![c] = NoRequest]
  BY BarType, BarEnds
<1>2. Uri(c) \in Fetcher!UrisOf(RunningBar[c])
  BY <1>1, RunningCall, RequestType DEF Uri, UrisOf, Range, Fetcher!UrisOf, Fetcher!Range
<1>3. HashFunction[d] = Fetcher!FetchFunction(RunningBar[c])
  BY <1>1 DEF FetchFunction, Fetcher!FetchFunction
<1>4. /\ RunningBar[c] # Fetcher!NoRequest
      /\ RunningBar' = [RunningBar EXCEPT ![c] = Fetcher!NoRequest]
  BY <1>1 DEF NoRequest, Fetcher!NoRequest
<1>5. Fetcher!Grow
  BY DEF Fetcher!Grow
<1>6. response' = [response EXCEPT ![c] = [code |-> "OK", uri |-> Uri(c), digest |-> d]]
  BY DEF Success
<1>7. Fetcher!Succeed(c)
  BY <1>2, <1>3, <1>4, <1>5, <1>6 DEF Fetcher!Succeed, Fetcher!End, RunningBar
<1>8. QED
  BY <1>7 DEF Fetcher!Next

\* Every step of a running call is one of the abstract fetcher.
LEMMA ExecutionStepImplements ==
  ASSUME Inv, NEW c \in Calls, Step(c)
  PROVE  Fetcher!Next
<1>1. /\ TypeOK /\ OutputsAreStored /\ NoneIsForgotten
      /\ Local(c) /\ Active(c) /\ UNCHANGED req
  BY TypeOfStep DEF Inv
<1>2. \E ds \in SUBSET Digests : cas' = cas \cup ds
  <2>1. cas \subseteq cas' /\ cas' \subseteq Digests
    BY Steps DEF Next, TypeOK
  <2>2. cas' = cas \cup cas' /\ cas' \in SUBSET Digests
    BY <2>1
  <2>3. QED
    BY <2>2
<1>3. CASE UploadAction(c) \/ UploadCommand(c) \/ Execute(c) \/ Succeeded(c) \/ DirectoryFound(c)
             \/ ReadTree(c)
  <2>1. pc'[c] \in Running /\ UNCHANGED response
    BY <1>1, <1>3 DEF UploadAction, UploadCommand, Execute, Succeeded, DirectoryFound, ReadTree,
                      Goto, Running, TypeOK
  <2>2. QED
    BY <1>1, <1>2, <2>1, BarStays
<1>4. CASE ExitedWithError(c)
  <2>1. \/ pc'[c] \in Running /\ UNCHANGED response
        \/ pc'[c] = "done" /\ response' = [response EXCEPT ![c] = Error("NotFound")]
    BY <1>1, <1>4 DEF ExitedWithError, Goto, Reply, Running, TypeOK
  <2>2. QED
    BY <1>1, <1>2, <2>1, BarStays, BarFails DEF Fetcher!Failures
<1>5. CASE BlobMissing(c) \/ DirectoryMissing(c) \/ CASFails(c) \/ ExecutionFails(c)
  <2>1. /\ pc'[c] = "done"
        /\ \E code \in {"Aborted", "NotFound", "Unavailable"} :
             response' = [response EXCEPT ![c] = Error(code)]
    BY <1>1, <1>5 DEF BlobMissing, DirectoryMissing, CASFails, CASErrors, ExecutionFails, Goto, Reply, TypeOK
  <2>2. QED
    BY <1>1, <1>2, <2>1, BarFails DEF Fetcher!Failures
<1>6. CASE BlobFound(c)
  <2>1. /\ pc[c] = "outputs" /\ result[c].file # Nothing /\ cas' = cas /\ pc'[c] = "done"
        /\ response' = [response EXCEPT ![c] = Success(c, result[c].file)]
    BY <1>1, <1>6 DEF BlobFound, Goto, Reply, TypeOK
  <2>2. result[c].file \in Outputs(result[c])
    BY <1>1, <2>1, OutputType DEF TypeOK
  <2>3. result[c].file \in cas' /\ HashFunction[result[c].file] = FetchFunction(req[c])
    BY <1>1, <2>1, <2>2 DEF OutputsAreStored
  <2>4. QED
    BY <1>1, <1>2, <2>1, <2>3, BarSucceeds
<1>7. CASE StoreDirectory(c)
  <2>1. /\ pc[c] = "store" /\ cas' = cas \cup {Head(unstored[c])}
        /\ result[c] \in Results /\ result[c].tree \in DOMAIN Trees
        /\ unstored[c] \in Seq(Digests) /\ unstored[c] # << >>
    BY <1>1, <1>7 DEF StoreDirectory, TypeOK
  <2>2. CASE Len(unstored[c]) > 1
    <3>1. pc'[c] \in Running /\ UNCHANGED response
      BY <1>1, <1>7, <2>1, <2>2 DEF StoreDirectory, Running
    <3>2. QED
      BY <1>1, <1>2, <3>1, BarStays
  <2>3. CASE ~ Len(unstored[c]) > 1
    <3> DEFINE t == result[c].tree
    <3>1. pc'[c] = "done" /\ response' = [response EXCEPT ![c] = Success(c, Trees[t].root)]
      BY <1>1, <1>7, <2>3 DEF StoreDirectory, Goto, Reply, TypeOK
    <3>2. Listed(c) = {Head(unstored[c])}
      BY <2>1, <2>3, TakeFirst DEF Listed
    <3>3. Trees[t].root \in cas'
      BY <1>1, <2>1, <3>2, TreeType DEF NoneIsForgotten
    <3>4. t \in Outputs(result[c])
      BY <2>1, OutputType, ExecutionAssumption
    <3>5. HashFunction[Trees[t].root] = FetchFunction(req[c])
      BY <1>1, <2>1, <3>4, TreeType DEF OutputsAreStored
    <3>6. QED
      BY <1>1, <1>2, <3>1, <3>3, <3>5, BarSucceeds
  <2>4. QED
    BY <2>2, <2>3
<1>8. QED
  BY <1>3, <1>4, <1>5, <1>6, <1>7 DEF Step

\* So is the arrival of a request.
LEMMA ExecutionArriveImplements ==
  ASSUME TypeOK, NEW c \in Calls, NEW r \in Requests, Refuse(c, r) \/ Begin(c, r)
  PROVE  Fetcher!Next
<1>1. /\ Local(c) /\ pc[c] = "idle" /\ UNCHANGED cas /\ req'[c] = r
      /\ \/ pc'[c] = "action" /\ response' = response
         \/ \E code \in {"InvalidArgument", "Unknown"} :
              pc'[c] = "done" /\ response' = [response EXCEPT ![c] = Error(code)]
  BY TypeArrive
<1>2. RunningBar[c] = NoRequest /\ response[c] = NoRequest
  BY <1>1 DEF RunningBar, Active, Running, TypeOK
<1>3. CASE pc'[c] = "done"
  <2>1. RunningBar' = RunningBar
    BY <1>1, <1>3 DEF RunningBar, Local, Active, Running
  <2>2. Fetcher!Refuse(c)
    BY <1>1, <1>2, <1>3, <2>1
       DEF Fetcher!Refuse, Fetcher!Failures, Error, RunningBar, NoRequest, Fetcher!NoRequest
  <2>3. QED
    BY <2>2 DEF Fetcher!Next
<1>4. CASE pc'[c] = "action"
  <2>1. RunningBar' = [RunningBar EXCEPT ![c] = r] /\ response' = response
    BY <1>1, <1>4 DEF RunningBar, Local, Active, Running
  <2>2. Fetcher!Begin(c)
    BY <1>1, <1>2, <2>1 DEF Fetcher!Begin, RunningBar, NoRequest, Fetcher!NoRequest
  <2>3. QED
    BY <2>2 DEF Fetcher!Next
<1>5. QED
  BY <1>1, <1>3, <1>4

\* And a crash.
LEMMA ExecutionCrashImplements ==
  ASSUME TypeOK, Crash
  PROVE  Fetcher!Next
<1>1. /\ pc' = [c \in Calls |-> IF Active(c) THEN "done" ELSE pc[c]]
      /\ response' = [c \in Calls |-> IF Active(c) THEN Error("Unavailable") ELSE response[c]]
      /\ UNCHANGED cas
  BY DEF Crash
<1>2. \A c \in Calls : ~ Active(c)'
  BY <1>1 DEF Active, Running
<1>3. RunningBar' = [c \in Calls |-> NoRequest]
  BY <1>2 DEF RunningBar
<1>4. \A c \in Calls : Active(c) <=> RunningBar[c] # NoRequest
  BY BarType
<1>5. response' = [c \in Calls |-> IF RunningBar[c] # NoRequest THEN [code |-> "Unavailable"]
                                                               ELSE response[c]]
  BY <1>1, <1>4 DEF Error
<1>6. Fetcher!Crash
  BY <1>1, <1>3, <1>5 DEF Fetcher!Crash, RunningBar, NoRequest, Fetcher!NoRequest
<1>7. QED
  BY <1>6 DEF Fetcher!Next

\* The remote execution fetcher keeps the promise of the Fetcher interface:
\* whatever fails and whatever calls overlap, a fetch ends in an error, or
\* with one of its URIs and a digest that the CAS has by then.
THEOREM ExecutionImplementsUpstream == Spec => ImplementsUpstream
<1>1. Init => Fetcher!Init
  BY DEF Init, Fetcher!Init, NoRequest, Fetcher!NoRequest, Active, Running
<1>2. Inv /\ [Next]_vars => [Fetcher!Next]_<<cas, RunningBar, response>>
  <2> SUFFICES ASSUME Inv, TypeOK, Next \/ UNCHANGED vars
               PROVE  Fetcher!Next \/ UNCHANGED <<cas, RunningBar, response>>
    BY DEF Inv
  <2>1. CASE UNCHANGED vars
    BY <2>1 DEF vars, RunningBar, Active
  <2>2. QED
    BY <2>1, Steps, ExecutionStepImplements, ExecutionArriveImplements, ExecutionCrashImplements
<1>3. QED
  BY <1>1, <1>2, ExecutionInvariant, PTL DEF Spec, ImplementsUpstream, Fetcher!Spec, RunningBar
===============================================================================
