----------------------------- MODULE MCHttpFetcher -----------------------------
(***************************************************************************)
(* Values for the constants of HttpFetcher: two mirrors, contents a and b  *)
(* with their SHA-256 digests and c with a SHA-1 one, checksums of a and   *)
(* of b, an empty one and one that cannot be parsed, and every kind of     *)
(* header qualifier.                                                       *)
(***************************************************************************)
EXTENDS HttpFetcher, TLC

CONSTANTS c1, c2,  \* calls
          a, b, x  \* digests: two SHA-256 ones and a SHA-1 one

MCUris            == {1, 2}
MCDigestFunctions == {"SHA256", "SHA1"}
MCHashFunction    == [d \in Digests |-> IF d = x THEN "SHA1" ELSE "SHA256"]
MCExpected        == "sri of a" :> {a} @@ "sri of b" :> {b} @@ "bad sri" :> {} @@ "sri of nothing" :> {}
MCHeaders ==
  "http_header:K" :> [scope |-> "all", name |-> "K", value |-> "public"]
  @@ "http_header_url:0:K" :> [scope |-> "url", index |-> 0, name |-> "K", value |-> "first"]
  @@ "http_header_url:1:K" :> [scope |-> "url", index |-> 1, name |-> "K", value |-> "second"]
  @@ "bazel.auth_headers" :> [scope |-> "legacy", uri |-> 1, name |-> "K", value |-> "bazel"]
  @@ "bazel.auth_headers, bad" :> [scope |-> "legacy", uri |-> 1, name |-> "K", value |-> "bad"]
MCMalformed       == {"bad sri", "bazel.auth_headers, bad"}
MCQualifiers      == DOMAIN MCExpected \cup DOMAIN MCHeaders
MCSymmetry        == Permutations({c1, c2})

Fetch(op, function, uris, qualifiers) ==
  [op |-> op, instance |-> "main", function |-> function, uris |-> uris,
   qualifiers |-> qualifiers, oldest |-> 0]

Downloads ==
  {Fetch("FetchBlob", "UNKNOWN", <<2, 1>>, {"sri of a", "http_header:K", "http_header_url:1:K"}),
   Fetch("FetchBlob", "SHA1", <<1, 2>>, {"http_header_url:0:K", "http_header_url:1:K"}),
   Fetch("FetchBlob", "SHA256", <<2>>, {"sri of b", "http_header_url:1:K"}),
   Fetch("FetchBlob", "SHA256", <<2, 1>>, {"bazel.auth_headers", "http_header:K"}),
   Fetch("FetchBlob", "SHA256", <<1>>, {"sri of nothing"}),
   Fetch("FetchBlob", "SHA256", <<1>>, {"bad sri"}),
   Fetch("FetchBlob", "SHA256", <<1>>, {"sri of a", "sri of b"}),
   Fetch("FetchBlob", "SHA256", <<1>>, {"bazel.auth_headers, bad"}),
   Fetch("FetchBlob", "UNSUPPORTED", <<1>>, {}),
   Fetch("FetchDirectory", "UNKNOWN", <<1>>, {})}

TwoChecksums == {Fetch("FetchBlob", "UNKNOWN", <<1>>, {"sri of a", "sri of b"})}
===============================================================================
