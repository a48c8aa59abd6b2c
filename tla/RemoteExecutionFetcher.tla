------------------------- MODULE RemoteExecutionFetcher -------------------------
(***************************************************************************)
(* The fetcher that has a remote execution cluster download a resource:    *)
(* remoteExecutionFetcher.  For each URI in turn it uploads an Action and  *)
(* its Command and executes it, until one exits with code 0; of a          *)
(* directory it then stores the Directory messages that the Tree contains. *)
(*                                                                         *)
(* The cluster is external: an execution fails, or it ends in any of the   *)
(* given results after its outputs have been uploaded to the CAS.          *)
(***************************************************************************)
EXTENDS Assets

CONSTANTS
  Calls,      \* identities of the calls made to the fetcher
  Requests,   \* the requests they carry
  Generators, \* the values of resource_type that have a command
  EmptyBlobs, \* the digests of empty blobs
  Nothing,    \* the output path is not among the outputs of a kind
  Trees,      \* Trees[t]: the root and the children of the tree with digest t
  Results,    \* the results of executions
  Faults      \* the faults that occur: "cas", "execution", "crash"

\* The exit code is zero or not; file and tree are what the output path is.
\* An ExecuteResponse with an error status and no result reads like a result
\* with exit code zero and no outputs, as the status is not looked at.
Result == [exit: {0, 1}, file: Digests \cup {Nothing},
           tree: (DOMAIN Trees) \cup {Nothing}]

Directories(t) == {Trees[t].root} \cup Range(Trees[t].children)

ASSUME ExecutionAssumption ==
  /\ Results \subseteq Result
  /\ Generators \subseteq Qualifiers
  /\ DOMAIN Trees \subseteq Digests /\ Nothing \notin Digests
  /\ \A t \in DOMAIN Trees :
       /\ Trees[t] \in [root: Digests, children: Seq(Digests)]
       /\ \A d \in Directories(t) : HashFunction[d] = HashFunction[t]
ASSUME ExecutionRequestsAssumption ==
  \A r \in Requests : r \in FetchRequest /\ r.uris # << >>

VARIABLES
  pc,        \* pc[c]: where call c is
  req,       \* req[c]: its request
  index,     \* index[c]: the URI it is trying
  result,    \* result[c]: the result of the execution that succeeded
  unstored,  \* unstored[c]: the directories it has yet to put in the CAS
  cas,       \* the blobs and directories in the CAS
  actions,   \* the actions and commands in the CAS
  response,  \* response[c]: what it returned
  executed   \* history: the executions that were started

vars == <<pc, req, index, result, unstored, cas, actions, response, executed>>

NoRequest == [none |-> TRUE]

Running == {"action", "command", "execute", "wait", "outputs", "tree", "store"}
Active(c) == pc[c] \in Running

Init ==
  /\ pc = [c \in Calls |-> "idle"]
  /\ req = [c \in Calls |-> NoRequest]
  /\ index = [c \in Calls |-> 1]
  /\ result = [c \in Calls |-> NoRequest]
  /\ unstored = [c \in Calls |-> << >>]
  /\ cas = {}
  /\ actions = {}
  /\ response = [c \in Calls |-> NoRequest]
  /\ executed = {}

Goto(c, label) == pc' = [pc EXCEPT ![c] = label]

Reply(c, message) ==
  /\ Goto(c, "done")
  /\ response' = [response EXCEPT ![c] = message]

Error(code) == [code |-> code]

Uri(c) == req[c].uris[index[c]]

\* The Command for the URI of call c, and the Action that mentions it.  The
\* input root is empty.
Command(c) ==
  [instance |-> req[c].instance, function |-> FetchFunction(req[c]), uri |-> Uri(c),
   qualifiers |-> req[c].qualifiers]

Action(c) == [command |-> Command(c)]

-----------------------------------------------------------------------------
(* A request arrives                                                       *)

\* The digest function is not supported, or QualifiersToCommand finds no
\* resource_type that it knows.
Refusal(r) ==
  IF r.function = "UNSUPPORTED" THEN "InvalidArgument"
  ELSE IF r.qualifiers \cap Generators = {} THEN "Unknown"
  ELSE "Admitted"

Refuse(c, r) ==
  /\ pc[c] = "idle"
  /\ Refusal(r) # "Admitted"
  /\ req' = [req EXCEPT ![c] = r]
  /\ Reply(c, Error(Refusal(r)))
  /\ UNCHANGED <<index, result, unstored, cas, actions, executed>>

Begin(c, r) ==
  /\ pc[c] = "idle"
  /\ Refusal(r) = "Admitted"
  /\ req' = [req EXCEPT ![c] = r]
  /\ Goto(c, "action")
  /\ UNCHANGED <<index, result, unstored, cas, actions, response, executed>>

-----------------------------------------------------------------------------
(* fetchCommon                                                             *)

UploadAction(c) ==
  /\ pc[c] = "action"
  /\ actions' = actions \cup {Action(c)}
  /\ Goto(c, "command")
  /\ UNCHANGED <<req, index, result, unstored, cas, response, executed>>

UploadCommand(c) ==
  /\ pc[c] = "command"
  /\ actions' = actions \cup {Command(c)}
  /\ Goto(c, "execute")
  /\ UNCHANGED <<req, index, result, unstored, cas, response, executed>>

\* The stream of operations is open.
Execute(c) ==
  /\ pc[c] = "execute"
  /\ executed' = executed \cup {[call |-> c, uri |-> Uri(c), action |-> Action(c)]}
  /\ Goto(c, "wait")
  /\ UNCHANGED <<req, index, result, unstored, cas, actions, response>>

Successful(r) == r.exit = 0

\* The outputs of a result are in the CAS when it is reported, and their
\* digests are of the digest function of the action.  (ExecuteRequest does not
\* name it, and an execution service then goes by the digest of the action;
\* FetchBlob passes on whatever digest it gets.)
Outputs(r) == {r.file, r.tree} \ {Nothing}

Done(c, r) ==
  /\ pc[c] = "wait"
  /\ \A d \in Outputs(r) : HashFunction[d] = FetchFunction(req[c])
  /\ cas' = cas \cup Outputs(r)

\* An operation that is done is received: the exit code is zero ...
Succeeded(c) ==
  /\ \E r \in Results :
       /\ Done(c, r)
       /\ Successful(r)
       /\ result' = [result EXCEPT ![c] = r]
  /\ Goto(c, "outputs")
  /\ UNCHANGED <<req, index, unstored, actions, response, executed>>

\* Faulty variant: the loop goes one URI too far.
OneUriTooMany(c) == index[c] <= Len(req[c].uris)

MoreUris(c) == index[c] < Len(req[c].uris)

\* Faulty variant: a URI whose execution failed is tried again.
SameUri(c) == index[c]

NextUri(c) == index[c] + 1

\* ... or it is not, and the next URI is tried.
ExitedWithError(c) ==
  /\ \E r \in Results : Done(c, r) /\ ~ Successful(r)
  /\ IF MoreUris(c)
     THEN /\ index' = [index EXCEPT ![c] = NextUri(c)]
          /\ Goto(c, "action")
          /\ UNCHANGED response
     ELSE /\ Reply(c, Error("NotFound"))
          /\ UNCHANGED index
  /\ UNCHANGED <<req, result, unstored, actions, executed>>

-----------------------------------------------------------------------------
(* The rest of FetchBlob and of FetchDirectory                             *)

Success(c, digest) == [code |-> "OK", uri |-> Uri(c), digest |-> digest]

\* The output path is a file.  An empty one counts as none.
BlobFound(c) ==
  /\ pc[c] = "outputs"
  /\ req[c].op = "FetchBlob"
  /\ result[c].file \notin {Nothing} \cup EmptyBlobs
  /\ Reply(c, Success(c, result[c].file))
  /\ UNCHANGED <<req, index, result, unstored, cas, actions, executed>>

\* The output path is a directory, and its Tree is to be read.
DirectoryFound(c) ==
  /\ pc[c] = "outputs"
  /\ req[c].op = "FetchDirectory"
  /\ result[c].tree # Nothing
  /\ Goto(c, "tree")
  /\ UNCHANGED <<req, index, result, unstored, cas, actions, response, executed>>

\* The output is of the other kind, or there is none.
BlobMissing(c) ==
  /\ pc[c] = "outputs"
  /\ req[c].op = "FetchBlob"
  /\ result[c].file \in {Nothing} \cup EmptyBlobs
  /\ Reply(c, Error(IF result[c].tree # Nothing THEN "Aborted" ELSE "NotFound"))
  /\ UNCHANGED <<req, index, result, unstored, cas, actions, executed>>

DirectoryMissing(c) ==
  /\ pc[c] = "outputs"
  /\ req[c].op = "FetchDirectory"
  /\ result[c].tree = Nothing
  /\ Reply(c, Error(IF result[c].file # Nothing THEN "Aborted" ELSE "NotFound"))
  /\ UNCHANGED <<req, index, result, unstored, cas, actions, executed>>

\* Faulty variant: the children of the tree are forgotten.
RootOnly(tree) == <<tree.root>>

\* Faulty variant: the root of the tree is forgotten.
ChildrenOnly(tree) == tree.children

\* The root, and then the children.
Contents(tree) == <<tree.root>> \o tree.children

ReadTree(c) ==
  /\ pc[c] = "tree"
  /\ unstored' = [unstored EXCEPT ![c] = Contents(Trees[result[c].tree])]
  /\ Goto(c, "store")
  /\ UNCHANGED <<req, index, result, cas, actions, response, executed>>

StoreDirectory(c) ==
  /\ pc[c] = "store"
  /\ cas' = cas \cup {Head(unstored[c])}
  /\ unstored' = [unstored EXCEPT ![c] = Tail(@)]
  /\ IF Len(unstored[c]) > 1
     THEN UNCHANGED <<pc, response>>
     ELSE Reply(c, Success(c, Trees[result[c].tree].root))
  /\ UNCHANGED <<req, index, result, actions, executed>>

-----------------------------------------------------------------------------
(* Faults                                                                  *)

\* Faulty variant: the execution goes on when an upload has failed.
UploadErrorIgnored(c) ==
  /\ "cas" \in Faults
  /\ \/ pc[c] = "action" /\ Goto(c, "command")
     \/ pc[c] = "command" /\ Goto(c, "execute")
  /\ UNCHANGED <<req, index, result, unstored, cas, actions, response, executed>>

\* The errors of the CAS, which has an answer for a tree that it has lost.
CASErrors(c) == IF pc[c] = "tree" THEN {"Unavailable", "NotFound"} ELSE {"Unavailable"}

\* A request to the CAS fails, with or without its effect; the fetch does not
\* go on to the next URI.
CASFails(c) ==
  /\ "cas" \in Faults
  /\ pc[c] \in {"action", "command", "tree", "store"}
  /\ \/ UNCHANGED <<cas, actions>>
     \/ pc[c] = "action" /\ actions' = actions \cup {Action(c)} /\ UNCHANGED cas
     \/ pc[c] = "command" /\ actions' = actions \cup {Command(c)} /\ UNCHANGED cas
     \/ pc[c] = "store" /\ cas' = cas \cup {Head(unstored[c])} /\ UNCHANGED actions
  /\ \E code \in CASErrors(c) : Reply(c, Error(code))
  /\ UNCHANGED <<req, index, result, unstored, executed>>

\* Execute fails or its stream breaks: likewise.
ExecutionFails(c) ==
  /\ "execution" \in Faults
  /\ pc[c] \in {"execute", "wait"}
  /\ Reply(c, Error("Unavailable"))
  /\ UNCHANGED <<req, index, result, unstored, cas, actions, executed>>

\* The process dies; the CAS and the cluster are outside it.
Crash ==
  /\ "crash" \in Faults
  /\ \E c \in Calls : Active(c)
  /\ pc' = [c \in Calls |-> IF Active(c) THEN "done" ELSE pc[c]]
  /\ response' = [c \in Calls |-> IF Active(c) THEN Error("Unavailable") ELSE response[c]]
  /\ UNCHANGED <<req, index, result, unstored, cas, actions, executed>>

Quiescent ==
  /\ \A c \in Calls : pc[c] = "done"
  /\ UNCHANGED vars

Step(c) ==
  \/ UploadAction(c) \/ UploadCommand(c) \/ Execute(c)
  \/ Succeeded(c) \/ ExitedWithError(c)
  \/ BlobFound(c) \/ DirectoryFound(c) \/ BlobMissing(c) \/ DirectoryMissing(c)
  \/ ReadTree(c) \/ StoreDirectory(c)
  \/ CASFails(c) \/ ExecutionFails(c)

Next ==
  \/ \E c \in Calls : (\E r \in Requests : Refuse(c, r) \/ Begin(c, r)) \/ Step(c)
  \/ Crash \/ Quiescent

Spec == Init /\ [][Next]_vars

\* The runtime schedules every goroutine, the CAS answers, and an execution
\* ends or its stream breaks.
Fairness == \A c \in Calls : WF_vars(Step(c))

FairSpec == Spec /\ Fairness

-----------------------------------------------------------------------------
(* Properties                                                              *)

\* What a fetch returns.
Codes == {"InvalidArgument", "NotFound", "Aborted", "Unavailable", "Unknown"}

Answer == [code: Codes] \cup [code: {"OK"}, uri: Uris, digest: Digests]

\* Every variable holds a value of its kind, and a call has what the step it
\* is about to take works on.
TypeOK ==
  /\ pc \in [Calls -> Running \cup {"idle", "done"}]
  /\ req \in [Calls -> Requests \cup {NoRequest}]
  /\ index \in [Calls -> Nat \ {0}]
  /\ result \in [Calls -> Results \cup {NoRequest}]
  /\ unstored \in [Calls -> Seq(Digests)]
  /\ cas \subseteq Digests
  /\ response \in [Calls -> Answer \cup {NoRequest}]
  /\ \A c \in Calls :
       /\ pc[c] = "idle" => index[c] = 1 /\ response[c] = NoRequest
       /\ pc[c] # "idle" => req[c] \in Requests
       /\ pc[c] = "done" => response[c] \in Answer
       /\ Active(c) => index[c] \in DOMAIN req[c].uris /\ response[c] = NoRequest
       /\ pc[c] \in {"outputs", "tree", "store"} => result[c] \in Results
       /\ pc[c] \in {"tree", "store"} =>
            req[c].op = "FetchDirectory" /\ result[c].tree \in DOMAIN Trees
       /\ pc[c] = "store" => unstored[c] # << >>

\* Whatever uploads fail, the cluster is never asked to execute an action that
\* it, or its command, would not find in the CAS.
ExecutedActionsAreStored == \A e \in executed : {e.action, e.action.command} \subseteq actions

\* When a directory has been fetched, the root that is returned and all
\* directories below it are in the CAS, none left out by a failed Put.
FetchedDirectoryIsComplete ==
  \A c \in Calls : pc[c] = "done" /\ req[c].op = "FetchDirectory" /\ response[c].code = "OK" =>
    \E t \in DOMAIN Trees :
      /\ Trees[t].root = response[c].digest
      /\ Directories(t) \subseteq cas

\* Every fetch ends: the loop over the URIs, with an execution in each turn,
\* and the one over the directories of a tree come to an end.
FetchesEnd == \A c \in Calls : Active(c) ~> (pc[c] = "done")

\* The error text of FetchBlob and FetchDirectory, "Unable to fetch ... from
\* any of the URIs specified": a fetch is given up when all URIs were tried.
NotFoundWhenAllTried ==
  \A c \in Calls : pc[c] = "done" /\ response[c].code = "NotFound" =>
    UrisOf(req[c]) \subseteq {e.uri : e \in {x \in executed : x.call = c}}

-----------------------------------------------------------------------------
(* Refinement                                                              *)

Fetcher == INSTANCE Upstream WITH
  stored  <- cas,
  running <- [c \in Calls |-> IF Active(c) THEN req[c] ELSE NoRequest],
  outcome <- response

\* The remote execution fetcher is a fetcher as the caching fetcher expects
\* it: it ends in an error, or with content that the CAS has.
ImplementsUpstream == Fetcher!Spec
===============================================================================
