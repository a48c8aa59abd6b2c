----------------------------- MODULE MCRemoteAsset -----------------------------
(***************************************************************************)
(* Values for the constants of RemoteAsset: two URIs, a resource type with *)
(* a qualifier of its own, a volatile and an unknown qualifier, an         *)
(* instance everybody may use, one that can only be fetched from and one   *)
(* that is closed, and the requests of each run.                           *)
(***************************************************************************)
EXTENDS RemoteAsset, TLC

CONSTANTS c1, c2, c3, \* calls
          a, b, x     \* digests: two SHA-256 ones and a SHA-1 one

MCUris                == {1, 2}
MCQualifiers          == {"application/x-git", "vcs.branch", "bazel.auth_headers",
                          "unknown"}
MCVolatileQualifiers  == {"bazel.auth_headers"}
MCSupportedQualifiers == {"application/x-git", "vcs.branch", "bazel.auth_headers"}
MCGenerators          == {"application/x-git"}
MCScriptQualifiers    == [t \in Generators |-> {"vcs.branch"}]
MCInstances           == {"main", "readonly", "closed"}
MCDigestFunctions     == {"SHA256", "SHA1"}
MCHashFunction        == [d \in Digests |-> IF d = x THEN "SHA1" ELSE "SHA256"]
MCSymmetry            == Permutations({c1, c2, c3})
TwoCalls              == Permutations({c1, c2})

Fetch(op, instance, function, uris, qualifiers, oldest) ==
  [op |-> op, instance |-> instance, function |-> function, uris |-> uris,
   qualifiers |-> qualifiers, oldest |-> oldest]

Push(op, instance, function, uris, qualifiers, digest, expire) ==
  [op |-> op, instance |-> instance, function |-> function, uris |-> uris,
   qualifiers |-> qualifiers, digest |-> digest, expire |-> expire]

V == {"bazel.auth_headers"}

\* Every way a request is refused or admitted, on both services.
AllKinds ==
  {Fetch("FetchBlob", "main", "UNKNOWN", <<2, 1>>, V, 2),
   Fetch("FetchDirectory", "main", "SHA1", <<1>>, {}, 0),
   Fetch("FetchBlob", "main", "UNKNOWN", << >>, {}, 0),
   Fetch("FetchBlob", "main", "UNKNOWN", <<1>>, {"unknown"}, 0),
   Fetch("FetchBlob", "main", "UNSUPPORTED", <<1>>, {}, 0),
   Fetch("FetchBlob", "main", "UNKNOWN", <<1>>, {}, 3),
   Fetch("FetchBlob", "closed", "UNKNOWN", <<1>>, {}, 0),
   Fetch("FetchBlob", "readonly", "SHA256", <<1>>, {}, 0),
   Push("PushBlob", "main", "UNKNOWN", <<2, 1>>, {}, a, 1),
   Push("PushDirectory", "main", "UNKNOWN", <<1>>, {}, x, 1),
   Push("PushBlob", "main", "UNKNOWN", << >>, {}, a, 0),
   Push("PushBlob", "closed", "UNKNOWN", <<1>>, {}, a, 0),
   Push("PushBlob", "readonly", "UNKNOWN", <<1>>, {}, a, 0)}

\* Pushes and fetches of one URI, with qualifiers that are one action.
Contending ==
  {Fetch("FetchBlob", "main", "UNKNOWN", <<1>>, V \cup {"application/x-git"}, 2),
   Push("PushBlob", "main", "UNKNOWN", <<1>>, {"application/x-git"}, a, 1),
   Push("PushBlob", "main", "SHA256", <<1>>, {"application/x-git", "unknown"}, b, 0)}

\* A push that expires and one that does not, and a fetch.
Expiring ==
  {Fetch("FetchBlob", "main", "UNKNOWN", <<1>>, {}, 0),
   Push("PushBlob", "main", "UNKNOWN", <<1>>, {}, a, 1)}

\* Pushes and fetches that carry a volatile qualifier.
WithHeaders ==
  {Fetch("FetchBlob", "main", "UNKNOWN", <<1>>, V, 0),
   Push("PushBlob", "main", "UNKNOWN", <<1>>, V, a, 0)}
===============================================================================
