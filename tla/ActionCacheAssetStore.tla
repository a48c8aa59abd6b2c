------------------------- MODULE ActionCacheAssetStore -------------------------
(***************************************************************************)
(* The asset store that keeps its assets in an Action Cache: a reference   *)
(* is translated to an Action and an asset to an ActionResult, and a Put   *)
(* first uploads to the CAS everything that the two of them mention.       *)
(*                                                                         *)
(* A digest stands for the message it is the digest of, so CAS objects are *)
(* terms; the CAS and the Action Cache keep them by instance name and      *)
(* digest function.  Each step of a call is one request to the CAS or to   *)
(* the Action Cache, and the steps of concurrent calls interleave.         *)
(***************************************************************************)
EXTENDS Assets, FiniteSets

CONSTANTS
  Calls,           \* identities of the calls made to the store
  Operations,      \* the operations they perform
  NoDigest,        \* the digest of an asset pushed without one
  Directories,     \* the digests of Directory messages
  Subdirectories,  \* Subdirectories[d]: the digests of d's subdirectories
  Generators,      \* the values of resource_type that have a command
  ScriptQualifiers,\* ScriptQualifiers[t]: the qualifiers t's script depends on
  Faults           \* the faults that occur: "cas", "actionCache", "crash"

\* What callers of the store hand to it: NewAssetReference and NewAsset.
StoredAsset == [digest: Digests \cup {NoDigest}, expire: Nat, updated: Nat,
                type: AssetType]
Operation == [op: {"Get"}, ref: Reference]
             \cup [op: {"Put"}, ref: Reference, asset: StoredAsset]

ASSUME OperationsAssumption ==
  /\ Operations \subseteq Operation
  /\ \A o \in Operations : o.ref.uris # {}
ASSUME DirectoriesAssumption ==
  /\ NoDigest \notin Digests
  /\ Directories \subseteq Digests
  /\ Subdirectories \in [Directories -> Seq(Digests)]
ASSUME GeneratorsAssumption ==
  /\ Generators \subseteq Qualifiers
  /\ ScriptQualifiers \in [Generators -> SUBSET Qualifiers]

VARIABLES
  cas,         \* the contents of the CAS
  actionCache, \* a function from actions to results
  late,        \* the Puts to it that their calls have given up on
  pc,          \* pc[c]: where call c is
  op,          \* op[c]: the operation it performs
  uploads,     \* uploads[c]: the objects a Put has yet to upload
  unread,      \* unread[c]: the digests of directories it has yet to read
  children,    \* children[c]: the descendants of its directory read so far
  response,    \* response[c]: what it returned
  written      \* history: the references and assets put so far

progress == <<uploads, unread, children>>
results == <<actionCache, late, written>>
vars == <<cas, actionCache, late, pc, op, uploads, unread, children, response, written>>

NoOperation == [op |-> "none"]

Running == {"upload", "root", "children", "tree", "result", "lookup"}
Active(c) == pc[c] \in Running

Init ==
  /\ cas = {}
  /\ actionCache = [key \in {} |-> NoOperation]
  /\ late = {}
  /\ pc = [c \in Calls |-> "idle"]
  /\ op = [c \in Calls |-> NoOperation]
  /\ uploads = [c \in Calls |-> << >>]
  /\ unread = [c \in Calls |-> << >>]
  /\ children = [c \in Calls |-> << >>]
  /\ response = [c \in Calls |-> NoOperation]
  /\ written = {}

-----------------------------------------------------------------------------
(* assetReferenceToAction                                                  *)

\* The generators of QualifiersToCommand that the qualifiers name.
GeneratorOf(ref) == ref.qualifiers \cap Generators

\* A command is generated for a single URI of a known resource type.
Generated(ref) == GeneratorOf(ref) # {} /\ \E u \in Uris : ref.uris = {u}

\* The qualifiers that gitCommand or octetStreamCommand puts in the script.
InScript(ref) ==
  {q \in ref.qualifiers : \E t \in GeneratorOf(ref) : q \in ScriptQualifiers[t]}

\* The shell script, or else the URIs as the arguments.
Command(ref) ==
  IF Generated(ref)
  THEN [generator |-> GeneratorOf(ref), uris |-> ref.uris, qualifiers |-> InScript(ref)]
  ELSE [arguments |-> ref.uris]

QualifierReference(ref) == [qualifiers |-> ref.qualifiers]

QualifierDirectory(ref) == [assetReference |-> QualifierReference(ref)]

EmptyDirectory == [files |-> {}]

\* Faulty variant: the qualifiers never are in the input root.
NoInputRoot(ref) == EmptyDirectory

InputRoot(ref) == IF Generated(ref) THEN EmptyDirectory ELSE QualifierDirectory(ref)

Action(ref) == [command |-> Command(ref), inputRoot |-> InputRoot(ref)]

\* Faulty variant: only the action and its command are uploaded.
ActionAndCommand(ref) == <<Action(ref), Command(ref)>>

\* What Put uploads for a reference, in order.
Objects(ref) ==
  <<Action(ref), QualifierReference(ref), QualifierDirectory(ref), Command(ref)>>

\* The key of an object in the CAS, and of an action in the Action Cache.
Key(ref, object) ==
  [instance |-> ref.instance, function |-> ref.function, object |-> object]

ActionKey(ref) == Key(ref, Action(ref))

\* What clients store in the CAS is known by its digest.
Content(d) == [digest |-> d]

Tree(root, descendants) == [root |-> root, children |-> descendants]

-----------------------------------------------------------------------------
(* assetToActionResult and actionResultToAsset                             *)

\* The expiry of the asset is lost.  Only a directory has a tree.
Result(a, descendants) ==
  [digest |-> a.digest, type |-> a.type, queued |-> a.updated,
   tree |-> IF a.type = "DIRECTORY" THEN Tree(a.digest, descendants) ELSE NoOperation]

AssetOf(result) ==
  [digest |-> result.digest, type |-> result.type, expire |-> 0,
   updated |-> result.queued]

-----------------------------------------------------------------------------
(* Helpers                                                                 *)

Goto(c, label) == pc' = [pc EXCEPT ![c] = label]

Reply(c, message) ==
  /\ Goto(c, "done")
  /\ response' = [response EXCEPT ![c] = message]

Code(code) == [code |-> code]

Ref(c) == op[c].ref

InCAS(c, object) == Key(Ref(c), object) \in cas

ToCAS(c, object) == cas' = cas \cup {Key(Ref(c), object)}

\* NewDigestFromProto: the hash is one of the call's digest function.
ValidDigest(c, d) == d \in Digests /\ HashFunction[d] = Ref(c).function

\* The CAS returns a Directory for digest d.
IsDirectory(c, d) ==
  ValidDigest(c, d) /\ d \in Directories /\ InCAS(c, Content(d))

-----------------------------------------------------------------------------
(* Put                                                                     *)

BeginPut(c, o) ==
  /\ pc[c] = "idle"
  /\ o.op = "Put"
  /\ op' = [op EXCEPT ![c] = o]
  /\ uploads' = [uploads EXCEPT ![c] = Objects(o.ref)]
  /\ Goto(c, "upload")
  /\ UNCHANGED <<cas, results, unread, children, response>>

\* Faulty variant: the loop over the objects goes on for too long.
UploadsLeft(c) == Len(uploads[c]) > 0

MoreUploads(c) == Len(uploads[c]) > 1

\* The Action, and then the extra objects, each with a request of its own.
UploadObject(c) ==
  /\ pc[c] = "upload"
  /\ ToCAS(c, Head(uploads[c]))
  /\ uploads' = [uploads EXCEPT ![c] = Tail(@)]
  /\ IF MoreUploads(c) THEN UNCHANGED pc
     ELSE IF op[c].asset.type = "DIRECTORY" THEN Goto(c, "root")
     ELSE Goto(c, "result")
  /\ UNCHANGED <<results, op, unread, children, response>>

\* The asset is a directory: read it.
ReadRoot(c) ==
  /\ pc[c] = "root"
  /\ IsDirectory(c, op[c].asset.digest)
  /\ unread' = [unread EXCEPT ![c] = Subdirectories[op[c].asset.digest]]
  /\ Goto(c, IF unread'[c] = << >> THEN "tree" ELSE "children")
  /\ UNCHANGED <<cas, results, op, uploads, children, response>>

\* Faulty variant: the subdirectories of a subdirectory are not read.
OneLevel(d) == << >>

Below(d) == Subdirectories[d]

\* directoryNodeToDirectories goes depth first: the subdirectories of the
\* one it has read come before its siblings.
ReadChild(c) ==
  /\ pc[c] = "children"
  /\ LET d == Head(unread[c])
     IN  /\ IsDirectory(c, d)
         /\ children' = [children EXCEPT ![c] = Append(@, d)]
         /\ unread' = [unread EXCEPT ![c] = Below(d) \o Tail(@)]
  /\ Goto(c, IF unread'[c] = << >> THEN "tree" ELSE "children")
  /\ UNCHANGED <<cas, results, op, uploads, response>>

UploadTree(c) ==
  /\ pc[c] = "tree"
  /\ ToCAS(c, Tree(op[c].asset.digest, children[c]))
  /\ Goto(c, "result")
  /\ UNCHANGED <<results, op, progress, response>>

\* The asset's digest does not reference a Directory.
NotADirectory(c) ==
  /\ pc[c] = "root"
  /\ LET d == op[c].asset.digest
     IN  /\ ~ IsDirectory(c, d)
         /\ Reply(c, Code(IF ValidDigest(c, d) /\ ~ InCAS(c, Content(d))
                          THEN "NotFound" ELSE "InvalidArgument"))
  /\ UNCHANGED <<cas, results, op, progress>>

\* One of the subdirectories is not in the CAS, or is no Directory.
ChildMissing(c) ==
  /\ pc[c] = "children"
  /\ ~ IsDirectory(c, Head(unread[c]))
  /\ Reply(c, Code("InvalidArgument"))
  /\ UNCHANGED <<cas, results, op, progress>>

\* What call c stores in the Action Cache, and the effect of it.
PutOf(c) ==
  [call |-> c, ref |-> Ref(c), asset |-> op[c].asset, children |-> children[c]]

StoreResult(put) ==
  /\ actionCache' = [key \in DOMAIN actionCache \cup {ActionKey(put.ref)} |->
                       IF key = ActionKey(put.ref)
                       THEN Result(put.asset, put.children) ELSE actionCache[key]]
  /\ written' = written \cup {[ref |-> put.ref, asset |-> put.asset]}

PutResult(c) ==
  /\ pc[c] = "result"
  /\ StoreResult(PutOf(c))
  /\ Reply(c, Code("OK"))
  /\ UNCHANGED <<cas, late, op, progress>>

-----------------------------------------------------------------------------
(* Get                                                                     *)

BeginGet(c, o) ==
  /\ pc[c] = "idle"
  /\ o.op = "Get"
  /\ op' = [op EXCEPT ![c] = o]
  /\ Goto(c, "lookup")
  /\ UNCHANGED <<cas, results, progress, response>>

Lookup(c) ==
  /\ pc[c] = "lookup"
  /\ ActionKey(Ref(c)) \in DOMAIN actionCache
  /\ LET result == actionCache[ActionKey(Ref(c))]
     IN  Reply(c, IF result.digest = NoDigest THEN Code("InvalidArgument")
                  ELSE [code |-> "OK", asset |-> AssetOf(result)])
  /\ UNCHANGED <<cas, results, op, progress>>

LookupFails(c) ==
  /\ pc[c] = "lookup"
  /\ ActionKey(Ref(c)) \notin DOMAIN actionCache
  /\ Reply(c, Code("NotFound"))
  /\ UNCHANGED <<cas, results, op, progress>>

-----------------------------------------------------------------------------
(* Faults and the environment                                              *)

\* A request to the CAS fails, with or without its effect.
CASFails(c) ==
  /\ "cas" \in Faults
  /\ \/ pc[c] \in {"upload", "root", "children", "tree"} /\ UNCHANGED cas
     \/ pc[c] = "upload" /\ ToCAS(c, Head(uploads[c]))
     \/ pc[c] = "tree" /\ ToCAS(c, Tree(op[c].asset.digest, children[c]))
  /\ Reply(c, Code(IF pc[c] = "children" THEN "InvalidArgument" ELSE "Unavailable"))
  /\ UNCHANGED <<results, op, progress>>

\* A request to the Action Cache fails; a Put has had its effect, or never has
\* it, or is still on its way.
ActionCacheFails(c) ==
  /\ "actionCache" \in Faults
  /\ \/ pc[c] = "result" /\ StoreResult(PutOf(c)) /\ UNCHANGED late
     \/ pc[c] \in {"result", "lookup"} /\ UNCHANGED results
     \/ /\ pc[c] = "result"
        /\ late' = late \cup {PutOf(c)}
        /\ UNCHANGED <<actionCache, written>>
  /\ Reply(c, Code("Unavailable"))
  /\ UNCHANGED <<cas, op, progress>>

\* A Put arrives whose call is over.
LateResult ==
  /\ \E put \in late :
       /\ StoreResult(put)
       /\ late' = late \ {put}
  /\ UNCHANGED <<cas, pc, op, progress, response>>

\* A client stores a blob or a directory in the CAS.
ClientUploads ==
  /\ \E key \in {Key(o.ref, Content(d)) : o \in Operations, d \in Digests} \ cas :
       /\ HashFunction[key.object.digest] = key.function
       /\ cas' = cas \cup {key}
  /\ UNCHANGED <<results, pc, op, progress, response>>

\* The process dies: the calls it was serving end.
Crash ==
  /\ "crash" \in Faults
  /\ \E c \in Calls : Active(c)
  /\ pc' = [c \in Calls |-> IF Active(c) THEN "done" ELSE pc[c]]
  /\ response' = [c \in Calls |-> IF Active(c) THEN Code("Unavailable")
                                               ELSE response[c]]
  /\ UNCHANGED <<cas, results, op, progress>>

\* All calls are over, and nothing is on its way.
Quiescent ==
  /\ late = {}
  /\ \A c \in Calls : pc[c] = "done"
  /\ UNCHANGED vars

Begin(c) == \E o \in Operations : BeginPut(c, o) \/ BeginGet(c, o)

Step(c) ==
  \/ UploadObject(c) \/ ReadRoot(c) \/ ReadChild(c) \/ UploadTree(c)
  \/ NotADirectory(c) \/ ChildMissing(c) \/ PutResult(c)
  \/ Lookup(c) \/ LookupFails(c)
  \/ CASFails(c) \/ ActionCacheFails(c)

Next ==
  \/ \E c \in Calls : Begin(c) \/ Step(c)
  \/ LateResult \/ ClientUploads \/ Crash \/ Quiescent

Spec == Init /\ [][Next]_vars

-----------------------------------------------------------------------------
(* Properties                                                              *)

\* What a call returns.
Codes == {"OK", "InvalidArgument", "NotFound", "Unavailable"}

Answer == [code: Codes] \cup [code: {"OK"}, asset: StoredAsset]

StoredPut == [call: Calls, ref: {o.ref : o \in Operations}, asset: StoredAsset,
              children: Seq(Directories)]

\* Every variable holds a value of its kind, and a call has what the step it
\* is about to take works on.
TypeOK ==
  /\ \A key \in cas : key.instance \in Instances /\ key.function \in DigestFunctions
  /\ \A key \in DOMAIN actionCache : AssetOf(actionCache[key]) \in StoredAsset
  /\ late \subseteq StoredPut
  /\ pc \in [Calls -> Running \cup {"idle", "done"}]
  /\ op \in [Calls -> Operations \cup {NoOperation}]
  /\ uploads \in [Calls -> Seq(UNION {Range(Objects(o.ref)) : o \in Operations})]
  /\ unread \in [Calls -> Seq(Digests)]
  /\ children \in [Calls -> Seq(Directories)]
  /\ response \in [Calls -> Answer \cup {NoOperation}]
  /\ \A c \in Calls :
       /\ pc[c] # "idle" => op[c] \in Operations
       /\ pc[c] = "lookup" => op[c].op = "Get"
       /\ Active(c) /\ pc[c] # "lookup" => op[c].op = "Put"
       /\ pc[c] = "upload" => uploads[c] # << >>
       /\ pc[c] \in {"root", "children", "tree"} => op[c].asset.type = "DIRECTORY"
       /\ pc[c] = "children" => unread[c] # << >>
       /\ pc[c] = "done" <=> response[c] # NoOperation

\* Whatever Puts overlap, fail or die half way, an entry of the Action Cache
\* mentions only objects that are in the CAS: its action, the action's command
\* and input root, the tree of a directory and the directories in it.  (The
\* empty directory need not be stored, and the blob of an asset is the
\* client's affair.)
ReferentialIntegrity ==
  \A key \in DOMAIN actionCache :
    LET action == key.object
        result == actionCache[key]
        Has(object) == [key EXCEPT !.object = object] \in cas
    IN  /\ Has(action) /\ Has(action.command)
        /\ action.inputRoot # EmptyDirectory =>
             Has(action.inputRoot) /\ Has(action.inputRoot.assetReference)
        /\ result.type = "DIRECTORY" =>
             /\ Has(result.tree)
             /\ \A d \in {result.digest} \cup Range(result.tree.children) : Has(Content(d))

\* The tree of a directory asset lists every directory below the root, and
\* once for each place where it occurs below another: none is missing, none is
\* read more often than that, and one that is shared is not read less often.
TreeIsComplete ==
  \A key \in DOMAIN actionCache : actionCache[key].type = "DIRECTORY" =>
    LET tree   == actionCache[key].tree
        listed == <<tree.root>> \o tree.children
        Places(d) == UNION {{i} \X {j \in DOMAIN Subdirectories[listed[i]] :
                                      Subdirectories[listed[i]][j] = d} : i \in DOMAIN listed}
    IN  /\ tree.root = actionCache[key].digest
        /\ \A d \in Digests :
             Cardinality({i \in DOMAIN tree.children : tree.children[i] = d})
               = Cardinality(Places(d))

\* The comment in assetReferenceToAction: the qualifiers "must all match".  A
\* Get returns only what some Put stored under the very same reference.
QualifiersAllMatch ==
  \A c \in Calls : pc[c] = "done" /\ response[c].code = "OK" /\ op[c].op = "Get" =>
    \E w \in written : w.ref = Ref(c) /\ w.asset.digest = response[c].asset.digest

-----------------------------------------------------------------------------
(* Refinement                                                              *)

\* A generated command names its generator and the qualifiers of its script,
\* and no others: two references that differ only in those have one action.
\* This says that no operation comes with such a reference.
NoQualifierIsIgnored ==
  \A o \in Operations : Generated(o.ref) =>
    o.ref.qualifiers \subseteq GeneratorOf(o.ref) \cup InScript(o.ref)

\* The asset store that callers see: an asset is stored under a reference
\* when its result is in the Action Cache.
Visible == {r \in {o.ref : o \in Operations} : ActionKey(r) \in DOMAIN actionCache}

Store == INSTANCE AssetStore WITH
  store   <- [r \in Visible |-> AssetOf(actionCache[ActionKey(r)])],
  pending <- {[call |-> put.call, ref |-> put.ref, asset |-> put.asset] : put \in late},
  running <- [c \in Calls |-> IF Active(c) THEN op[c] ELSE NoOperation],
  reply   <- response

\* Every behaviour of the Action Cache store is one of an AssetStore, provided
\* that NoQualifierIsIgnored: the many requests of a Put take effect as one, and
\* only if and when its last one does.
ImplementsAssetStore == Store!Spec
===============================================================================
