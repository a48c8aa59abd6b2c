------------------------------- MODULE AssetStore -------------------------------
(***************************************************************************)
(* What an asset store promises its callers, the AssetStore interface: a   *)
(* function from references to assets that changes atomically, once for    *)
(* each Put, at some moment between the call and its return.  A Put that   *)
(* is rejected has changed nothing; one that finds the storage unavailable *)
(* may have, or may do so later.  This is the store over which RemoteAsset *)
(* runs its calls; with the action of a reference for the reference, where *)
(* the store is an Action Cache.                                           *)
(***************************************************************************)
EXTENDS Assets

CONSTANTS
  Calls,      \* identities of the calls made to the store
  Operations  \* the operations they perform

VARIABLES
  store,    \* a function from references to assets
  pending,  \* the Puts that are still on their way
  running,  \* running[c]: the operation of call c, or NoOperation
  reply     \* reply[c]: what call c returned, or NoOperation

NoOperation == [op |-> "none"]

\* What a store gives back of an asset: the code that uses the store may rely
\* on the digest, the type and the time of the last update, and not on the
\* expiry of an asset.
Retained(a) == [a EXCEPT !.expire = 0]

Init ==
  /\ store = [ref \in {} |-> NoOperation]
  /\ pending = {}
  /\ running = [c \in Calls |-> NoOperation]
  /\ reply = [c \in Calls |-> NoOperation]

Begin(c) ==
  /\ running[c] = NoOperation
  /\ reply[c] = NoOperation
  /\ \E o \in Operations : running' = [running EXCEPT ![c] = o]
  /\ UNCHANGED <<store, pending, reply>>

End(c, code) ==
  /\ reply' = [reply EXCEPT ![c] = [code |-> code]]
  /\ running' = [running EXCEPT ![c] = NoOperation]

Assign(ref, a) ==
  store' = [x \in DOMAIN store \cup {ref} |->
              IF x = ref THEN Retained(a) ELSE store[x]]

Put(c) ==
  /\ running[c].op = "Put"
  /\ Assign(running[c].ref, running[c].asset)
  /\ End(c, "OK")
  /\ UNCHANGED pending

PutUnavailable(c) ==
  /\ running[c].op = "Put"
  /\ \/ Assign(running[c].ref, running[c].asset) /\ UNCHANGED pending
     \/ UNCHANGED <<store, pending>>
     \/ /\ pending' = pending \cup {[call |-> c, ref |-> running[c].ref,
                                     asset |-> running[c].asset]}
        /\ UNCHANGED store
  /\ End(c, "Unavailable")

\* A Put that was given up arrives.
LatePut ==
  /\ \E put \in pending :
       /\ Assign(put.ref, put.asset)
       /\ pending' = pending \ {put}
  /\ UNCHANGED <<running, reply>>

\* The store does not take the asset.
PutRejected(c) ==
  /\ running[c].op = "Put"
  /\ \E code \in {"InvalidArgument", "NotFound"} : End(c, code)
  /\ UNCHANGED <<store, pending>>

Get(c) ==
  /\ running[c].op = "Get"
  /\ running[c].ref \in DOMAIN store
  /\ store[running[c].ref].digest \in Digests
  /\ reply' = [reply EXCEPT ![c] = [code |-> "OK", asset |-> store[running[c].ref]]]
  /\ running' = [running EXCEPT ![c] = NoOperation]
  /\ UNCHANGED <<store, pending>>

GetNothing(c) ==
  /\ running[c].op = "Get"
  /\ running[c].ref \notin DOMAIN store
  /\ End(c, "NotFound")
  /\ UNCHANGED <<store, pending>>

\* What is stored has no digest.
GetUnusable(c) ==
  /\ running[c].op = "Get"
  /\ running[c].ref \in DOMAIN store
  /\ store[running[c].ref].digest \notin Digests
  /\ End(c, "InvalidArgument")
  /\ UNCHANGED <<store, pending>>

GetUnavailable(c) ==
  /\ running[c].op = "Get"
  /\ End(c, "Unavailable")
  /\ UNCHANGED <<store, pending>>

\* The process that makes the calls dies.
Crash ==
  /\ \E c \in Calls : running[c] # NoOperation
  /\ running' = [c \in Calls |-> NoOperation]
  /\ reply' = [c \in Calls |-> IF running[c] = NoOperation THEN reply[c]
                               ELSE [code |-> "Unavailable"]]
  /\ UNCHANGED <<store, pending>>

Next ==
  \/ \E c \in Calls :
       \/ Begin(c)
       \/ Put(c) \/ PutUnavailable(c) \/ PutRejected(c)
       \/ Get(c) \/ GetNothing(c) \/ GetUnusable(c) \/ GetUnavailable(c)
  \/ LatePut \/ Crash

Spec == Init /\ [][Next]_<<store, pending, running, reply>>
===============================================================================
