-------------------------------- MODULE Assets --------------------------------
(***************************************************************************)
(* The vocabulary shared by the modules of bb-remote-asset: the requests   *)
(* clients send to the Fetch and Push services, the asset references under *)
(* which assets are stored and the assets themselves.  There is no state   *)
(* here.                                                                   *)
(*                                                                         *)
(* A reference is canonical in the code because NewAssetReference sorts    *)
(* the URIs and the qualifiers before they are serialised and hashed; a    *)
(* sorted list without repetitions is a set, and that is how it is         *)
(* represented.  Timestamps are natural numbers and 0 is the Unix epoch,   *)
(* which the code uses for "not set".                                      *)
(***************************************************************************)
EXTENDS Naturals, Sequences, Functions

CONSTANTS
  Uris,                \* URIs, ordered as sort.Strings orders them
  Qualifiers,          \* qualifiers (a name and a value each)
  VolatileQualifiers,  \* "http_header_url:..." and "bazel.auth_headers"
  SupportedQualifiers, \* what CheckQualifiers of the fetcher supports
  Instances,           \* REv2 instance names
  DigestFunctions,     \* digest functions known to the server
  Digests,             \* digests of blobs and directories
  HashFunction         \* the digest function a digest was computed with

ASSUME UrisAssumption == Uris \subseteq Nat
ASSUME QualifiersAssumption ==
  /\ VolatileQualifiers \subseteq Qualifiers
  /\ SupportedQualifiers \subseteq Qualifiers
ASSUME DigestsAssumption ==
  /\ "SHA256" \in DigestFunctions
  /\ HashFunction \in [Digests -> DigestFunctions]

-----------------------------------------------------------------------------
(* Requests                                                                *)

FetchOps == {"FetchBlob", "FetchDirectory"}
PushOps  == {"PushBlob", "PushDirectory"}

\* The digest_function field of a request; "UNSUPPORTED" is any value that
\* GetDigestFunction refuses.
FunctionField == DigestFunctions \cup {"UNKNOWN", "UNSUPPORTED"}

\* The uris of a request: in the order the client sent them, and no URI
\* twice (see the README on requests that repeat a URI).
UriList == {s \in Seq(Uris) : IsInjective(s)}

FetchRequest ==
  [op: FetchOps, instance: Instances, function: FunctionField, uris: UriList,
   qualifiers: SUBSET Qualifiers, oldest: Nat]

PushRequest ==
  [op: PushOps, instance: Instances, function: FunctionField, uris: UriList,
   qualifiers: SUBSET Qualifiers, digest: Digests, expire: Nat]

IsFetch(r) == r.op \in FetchOps
IsPush(r)  == r.op \in PushOps

UrisOf(r) == Range(r.uris)

\* Faulty variant: the field is used as it is.
FunctionAsSent(r) == r.function

\* getDigestFunction of a fetch and of a push that name no function: SHA-256
\* for the one, and for the other the function whose hashes are as long as
\* the hash it sends.
FetchFunction(r) == IF r.function = "UNKNOWN" THEN "SHA256" ELSE r.function

PushFunction(r) ==
  IF r.function = "UNKNOWN" THEN HashFunction[r.digest] ELSE r.function

DigestFunction(r) == IF IsFetch(r) THEN FetchFunction(r) ELSE PushFunction(r)

-----------------------------------------------------------------------------
(* Asset references and assets                                             *)

Reference ==
  [instance: Instances, function: DigestFunctions,
   uris: SUBSET Uris, qualifiers: SUBSET Qualifiers]

NewAssetReference(r, uris, qualifiers) ==
  [instance |-> r.instance, function |-> DigestFunction(r),
   uris |-> uris, qualifiers |-> qualifiers]

\* Faulty variant: all qualifiers are taken for volatile.
removeQualifiers(qualifiers) == {}

removeVolatileQualifiers(qualifiers) == qualifiers \ VolatileQualifiers

\* The reference a fetch looks up and caches under ...
FetchReference(r, uris) ==
  NewAssetReference(r, uris, removeVolatileQualifiers(r.qualifiers))

\* ... and the one a push stores under.
PushReference(r, uris) == NewAssetReference(r, uris, r.qualifiers)

AssetType == {"BLOB", "DIRECTORY"}

Asset == [digest: Digests, expire: Nat, updated: Nat, type: AssetType]

TypeOf(r) ==
  IF r.op \in {"FetchBlob", "PushBlob"} THEN "BLOB" ELSE "DIRECTORY"

\* NewBlobAsset and NewDirectoryAsset: the asset is stamped when it is made.
NewAsset(r, digest, expire, time) ==
  [digest |-> digest, expire |-> expire, updated |-> time, type |-> TypeOf(r)]

\* Faulty variant: an asset is served for a moment too long.
ExpiredOneLater(a, time) == a.expire # 0 /\ a.expire + 1 < time

\* getAndCheckAsset: may asset a answer fetch r at the given time?
Expired(a, time) == a.expire # 0 /\ a.expire < time

TooOld(a, r) == r.oldest # 0 /\ a.updated < r.oldest

Acceptable(a, r, time) == ~ Expired(a, time) /\ ~ TooOld(a, r)

===============================================================================
