------------------------------ MODULE MCCachedHttp ------------------------------
(***************************************************************************)
(* Values for the constants of CachedHttp: two mirrors, two contents and   *)
(* their checksums, and fetches and a push that meet on the mirrors.       *)
(***************************************************************************)
EXTENDS CachedHttp, TLC

CONSTANTS c1, c2, \* calls
          a, b    \* digests

MCUris         == {1, 2}
MCExpected     == "sri of a" :> {a} @@ "sri of b" :> {b}
MCHeaders      == "http_header_url:0:K" :> [scope |-> "url", index |-> 0, name |-> "K",
                                            value |-> "first"]
MCVolatile     == DOMAIN MCHeaders
MCQualifiers   == DOMAIN MCExpected \cup DOMAIN MCHeaders
MCHashFunction == [d \in Digests |-> "SHA256"]
MCScriptQualifiers == [t \in Generators |-> {}]
MCErrors       == {"PermissionDenied", "InvalidArgument", "Unknown", "NotFound", "Internal"}

Fetch(op, uris, qualifiers) ==
  [op |-> op, instance |-> "main", function |-> "UNKNOWN", uris |-> uris,
   qualifiers |-> qualifiers, oldest |-> 0]

MCRequests ==
  {Fetch("FetchBlob", <<2, 1>>, {"sri of a", "http_header_url:0:K"}),
   Fetch("FetchBlob", <<1>>, {"sri of b"}),
   Fetch("FetchDirectory", <<2>>, {"sri of a"}),
   [op |-> "PushBlob", instance |-> "main", function |-> "UNKNOWN", uris |-> <<2, 1>>,
    qualifiers |-> {"sri of a"}, digest |-> b, expire |-> 1]}
===============================================================================
