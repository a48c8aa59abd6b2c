------------------------ MODULE MCActionCacheAssetStore ------------------------
(***************************************************************************)
(* Values for the constants of ActionCacheAssetStore: a directory with     *)
(* two entries for the same subdirectory, which has one itself, a blob,    *)
(* and references with and without a generated command.                    *)
(***************************************************************************)
EXTENDS ActionCacheAssetStore, TLC

CONSTANTS c1, c2,                       \* calls
          root, sub, leaf, blob, other  \* digests

MCUris             == {1, 2}
MCQualifiers       == {"application/x-git", "vcs.branch", "checksum.sri"}
MCInstances        == {"main"}
MCDigestFunctions  == {"SHA256", "SHA1"}
MCHashFunction     == [d \in Digests |-> IF d = other THEN "SHA1" ELSE "SHA256"]
MCGenerators       == {"application/x-git"}
MCScriptQualifiers == [t \in Generators |-> {"vcs.branch"}]
MCSubdirectories   == [d \in Directories |-> CASE d = root -> <<sub, sub>>
                                               [] d = sub  -> <<leaf>>
                                               [] OTHER    -> << >>]
MCSymmetry         == Permutations(Calls)

Of(uris, qualifiers) == [instance |-> "main", function |-> "SHA256",
                         uris |-> uris, qualifiers |-> qualifiers]
Get(ref) == [op |-> "Get", ref |-> ref]
PutOp(ref, digest, expire, type) ==
  [op |-> "Put", ref |-> ref,
   asset |-> [digest |-> digest, expire |-> expire, updated |-> 1, type |-> type]]

Git    == Of({1}, {"application/x-git"})
Branch == Of({1}, {"application/x-git", "vcs.branch"})
Plain  == Of({1}, {})
List   == Of({1, 2}, {"application/x-git", "vcs.branch"})
Listed == Of({1, 2}, {"application/x-git"})

\* Directories and blobs, good and bad, put under the same references and
\* under references that differ in a qualifier or a URI only.
Mixed ==
  {Get(Git), Get(Plain), PutOp(Git, blob, 1, "BLOB"),
   PutOp(Git, root, 0, "DIRECTORY"), PutOp(Git, blob, 0, "DIRECTORY"),
   PutOp(Plain, other, 0, "DIRECTORY"), PutOp(Plain, NoDigest, 0, "BLOB"),
   PutOp(List, leaf, 0, "DIRECTORY"), PutOp(Listed, blob, 0, "BLOB")}

\* The generated command leaves the second reference's checksum.sri out.
Ignored ==
  {Get(Git), PutOp(Of({1}, {"application/x-git", "checksum.sri"}), blob, 0, "BLOB")}
===============================================================================
