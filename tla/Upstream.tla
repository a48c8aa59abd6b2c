-------------------------------- MODULE Upstream --------------------------------
(***************************************************************************)
(* What the fetcher that the caching fetcher wraps promises, the Fetcher   *)
(* interface: a fetch fails, or it returns one of the URIs of the request  *)
(* and the digest of what it found there, computed with the digest         *)
(* function of the request, and then that content is in the CAS already.   *)
(***************************************************************************)
EXTENDS Assets

CONSTANTS
  Calls,     \* identities of the calls made to the fetcher
  Requests   \* the requests they carry

VARIABLES
  stored,   \* the digests the fetcher has put in the CAS
  running,  \* running[c]: the request of call c, or NoRequest
  outcome   \* outcome[c]: what call c returned, or NoRequest

NoRequest == [none |-> TRUE]

Init ==
  /\ stored = {}
  /\ running = [c \in Calls |-> NoRequest]
  /\ outcome = [c \in Calls |-> NoRequest]

Begin(c) ==
  /\ running[c] = NoRequest
  /\ outcome[c] = NoRequest
  /\ \E r \in Requests : running' = [running EXCEPT ![c] = r]
  /\ UNCHANGED <<stored, outcome>>

Failures == {"InvalidArgument", "NotFound", "Internal", "PermissionDenied",
             "Aborted", "Unavailable", "Unknown"}

\* A request that makes no sense to the fetcher.
Refuse(c) ==
  /\ running[c] = NoRequest
  /\ outcome[c] = NoRequest
  /\ \E code \in Failures : outcome' = [outcome EXCEPT ![c] = [code |-> code]]
  /\ UNCHANGED <<stored, running>>

End(c, result) ==
  /\ running[c] # NoRequest
  /\ outcome' = [outcome EXCEPT ![c] = result]
  /\ running' = [running EXCEPT ![c] = NoRequest]

\* The CAS has everything it had, and perhaps more.
Grow == \E ds \in SUBSET Digests : stored' = stored \cup ds

\* On its way a fetch may put anything in the CAS ...
Store(c) ==
  /\ running[c] # NoRequest
  /\ Grow
  /\ UNCHANGED <<running, outcome>>

\* ... even if it fails in the end.
Fail(c) ==
  /\ \E code \in Failures : End(c, [code |-> code])
  /\ Grow

Succeed(c) ==
  /\ Grow
  /\ running[c] # NoRequest
  /\ \E u \in UrisOf(running[c]), d \in stored' :
       /\ HashFunction[d] = FetchFunction(running[c])
       /\ End(c, [code |-> "OK", uri |-> u, digest |-> d])

\* The process dies: all calls end, what they have stored stays.
Crash ==
  /\ outcome' = [c \in Calls |-> IF running[c] # NoRequest THEN [code |-> "Unavailable"]
                                                            ELSE outcome[c]]
  /\ running' = [c \in Calls |-> NoRequest]
  /\ UNCHANGED stored

Next ==
  \/ \E c \in Calls : Begin(c) \/ Refuse(c) \/ Store(c) \/ Fail(c) \/ Succeed(c)
  \/ Crash

Spec == Init /\ [][Next]_<<stored, running, outcome>>
===============================================================================
