------------------------ MODULE MCRemoteExecutionFetcher ------------------------
(***************************************************************************)
(* Values for the constants of RemoteExecutionFetcher: a tree of two       *)
(* directories, a blob and an empty blob, and executions that end in every *)
(* way.                                                                    *)
(***************************************************************************)
EXTENDS RemoteExecutionFetcher, TLC

CONSTANTS c1, c2,                       \* calls
          tree, root, leaf, blob, empty \* digests

MCUris         == {1, 2}
MCQualifiers   == {"application/x-git", "vcs.branch"}
MCHashFunction == [d \in Digests |-> "SHA256"]
MCTrees        == tree :> [root |-> root, children |-> <<leaf>>]

ResultOf(exit, file, t) == [exit |-> exit, file |-> file, tree |-> t]

MCResults ==
  {ResultOf(0, blob, Nothing), ResultOf(0, empty, Nothing), ResultOf(0, Nothing, tree),
   ResultOf(0, Nothing, Nothing), ResultOf(1, Nothing, Nothing), ResultOf(1, blob, Nothing)}

Fetch(op, function, uris, qualifiers) ==
  [op |-> op, instance |-> "main", function |-> function, uris |-> uris,
   qualifiers |-> qualifiers, oldest |-> 0]

MCRequests ==
  {Fetch("FetchBlob", "UNKNOWN", <<2, 1>>, {"application/x-git"}),
   Fetch("FetchDirectory", "SHA256", <<1, 2>>, {"application/x-git", "vcs.branch"}),
   Fetch("FetchBlob", "UNKNOWN", <<1>>, {"vcs.branch"}),
   Fetch("FetchDirectory", "UNSUPPORTED", <<1>>, {"application/x-git"})}
===============================================================================
