--------------------------- MODULE ActionCacheProofs ---------------------------
(***************************************************************************)
(* Theorems about ActionCacheAssetStore and their proofs: an entry of the  *)
(* Action Cache mentions only what is in the CAS, the tree of a directory  *)
(* is whole, and the store is an AssetStore, for every set of calls,       *)
(* operations and directories.                                             *)
(***************************************************************************)
EXTENDS ActionCacheAssetStore, ListLemmas

-----------------------------------------------------------------------------
(* The inductive invariant                                                 *)

\* What Put uploads for a reference, as a set, and what call c has yet to.
ObjectsOf(ref) == {Action(ref), QualifierReference(ref), QualifierDirectory(ref), Command(ref)}

Left(c) == {uploads[c][i] : i \in 1 .. Len(uploads[c])}

Uploaded(c) ==
  /\ pc[c] = "upload" => \A o \in ObjectsOf(Ref(c)) : InCAS(c, o) \/ o \in Left(c)
  /\ pc[c] \in {"root", "children", "tree", "result"} =>
       \A o \in ObjectsOf(Ref(c)) : InCAS(c, o)

\* The CAS has the root and the listed descendants of a directory.
HasDirectories(ref, root, descendants) ==
  /\ Key(ref, Content(root)) \in cas
  /\ \A i \in 1 .. Len(descendants) : Key(ref, Content(descendants[i])) \in cas

\* Every entry of the root and of its listed descendants is listed itself, or
\* is left to do, as often as it occurs.
Complete(root, descendants, todo) ==
  \A d \in Digests :
    LET places == Places(Subdirectories, <<root>> \o descendants, d)
    IN  /\ IsFiniteSet(places)
        /\ Count(descendants, d) + Count(todo, d) = Cardinality(places)

\* The directories that call c has read are in the CAS, and what they contain
\* has been read or is on the list of those to read.
DirectoriesAreRead(c) ==
  /\ pc[c] \in {"idle", "upload", "root"} => children[c] = << >>
  /\ pc[c] \in {"children", "tree"} =>
       /\ HasDirectories(Ref(c), op[c].asset.digest, children[c])
       /\ op[c].asset.digest \in Directories
       /\ Complete(op[c].asset.digest, children[c], unread[c])
  /\ pc[c] = "tree" => unread[c] = << >>

\* Everything that the entry of an asset in the Action Cache mentions is in
\* the CAS, and the tree of a directory is whole.
Supported(ref, a, descendants) ==
  /\ \A o \in ObjectsOf(ref) : Key(ref, o) \in cas
  /\ a.type = "DIRECTORY" =>
       /\ HasDirectories(ref, a.digest, descendants)
       /\ Key(ref, Tree(a.digest, descendants)) \in cas
       /\ Complete(a.digest, descendants, << >>)

\* What a call is about to put is supported, and so is what it has put or left
\* on its way.
CallInv(c) ==
  /\ Uploaded(c)
  /\ DirectoriesAreRead(c)
  /\ pc[c] = "result" => Supported(Ref(c), op[c].asset, children[c])

LateIsSupported == \A put \in late : Supported(put.ref, put.asset, put.children)

ResultsAreSupported ==
  \A key \in DOMAIN actionCache : \E put \in StoredPut :
    /\ key = ActionKey(put.ref)
    /\ actionCache[key] = Result(put.asset, put.children)
    /\ Supported(put.ref, put.asset, put.children)

\* A call gives up at most one Put, and is over then.
OneLatePutPerCall ==
  /\ \A put \in late : pc[put.call] = "done"
  /\ \A put, other \in late : put.call = other.call => put = other

Inv ==
  /\ TypeOK
  /\ \A c \in Calls : CallInv(c)
  /\ LateIsSupported
  /\ ResultsAreSupported
  /\ OneLatePutPerCall

-----------------------------------------------------------------------------
(* Operations and objects                                                  *)

\* The objects that Put uploads are those of its list.
LEMMA ObjectsType ==
  ASSUME NEW ref
  PROVE  /\ Objects(ref) \in Seq(ObjectsOf(ref)) /\ Objects(ref) # << >>
         /\ {Objects(ref)[i] : i \in 1 .. Len(Objects(ref))} = ObjectsOf(ref)
         /\ Range(Objects(ref)) = ObjectsOf(ref)
<1> DEFINE o1 == Action(ref)
           o2 == QualifierReference(ref)
           o3 == QualifierDirectory(ref)
           o4 == Command(ref)
<1>1. Objects(ref) = <<o1, o2, o3, o4>> /\ ObjectsOf(ref) = {o1, o2, o3, o4}
  BY DEF Objects, ObjectsOf
<1> HIDE DEF o1, o2, o3, o4
<1> DEFINE s == <<o1, o2, o3, o4>>
           S == {o1, o2, o3, o4}
<1>2. s \in Seq(S) /\ s # << >> /\ Len(s) = 4 /\ DOMAIN s = 1 .. 4
  OBVIOUS
<1>3. s[1] = o1 /\ s[2] = o2 /\ s[3] = o3 /\ s[4] = o4
  OBVIOUS
<1>4. {s[i] : i \in 1 .. 4} = S
  <2>1. 1 .. 4 = {1, 2, 3, 4}
    OBVIOUS
  <2>2. QED
    BY <1>3, <2>1
<1> HIDE DEF s, S
<1>5. Range(s) = S
  BY <1>2, <1>4 DEF Range
<1>6. QED
  BY <1>1, <1>2, <1>4, <1>5 DEF s, S

\* What the objects of all operations are.
Uploadable == UNION {Range(Objects(o.ref)) : o \in Operations}

\* The reference and the asset of an operation.
LEMMA OperationType ==
  ASSUME NEW o \in Operations
  PROVE  /\ o.ref \in Reference
         /\ o.op \in {"Get", "Put"}
         /\ o.op = "Put" => o.asset \in StoredAsset
         /\ o # NoOperation
         /\ Objects(o.ref) \in Seq(Uploadable) /\ Objects(o.ref) # << >>
         /\ o.ref \in {p.ref : p \in Operations}
<1>1. o \in Operation
  BY OperationsAssumption
<1>2. o.ref \in Reference /\ o.op \in {"Get", "Put"} /\ (o.op = "Put" => o.asset \in StoredAsset)
  BY <1>1 DEF Operation
<1>3. o # NoOperation
  BY <1>2 DEF NoOperation
<1>4. ObjectsOf(o.ref) \subseteq Uploadable
  BY ObjectsType DEF Uploadable
<1>5. Objects(o.ref) \in Seq(Uploadable)
  <2>1. Objects(o.ref) \in Seq(ObjectsOf(o.ref))
    BY ObjectsType
  <2>2. ASSUME NEW s \in Seq(ObjectsOf(o.ref))
        PROVE  s \in Seq(Uploadable)
    BY <1>4
  <2>3. QED
    BY <2>1, <2>2
<1>6. QED
  BY <1>2, <1>3, <1>5, ObjectsType

\* The answers of the store.
LEMMA AnswerType ==
  /\ \A code \in Codes : Code(code) \in Answer /\ Code(code) # NoOperation
  /\ \A a \in StoredAsset :
       [code |-> "OK", asset |-> a] \in Answer /\ [code |-> "OK", asset |-> a] # NoOperation
  /\ NoOperation \notin Answer
<1>1. \A m \in Answer : "code" \in DOMAIN m
  BY DEF Answer
<1>2. DOMAIN NoOperation = {"op"}
  BY DEF NoOperation
<1>3. NoOperation \notin Answer
  BY <1>1, <1>2
<1>4. \A code \in Codes : Code(code) \in Answer
  BY DEF Answer, Code
<1>5. \A a \in StoredAsset : [code |-> "OK", asset |-> a] \in Answer
  BY DEF Answer
<1>6. QED
  BY <1>3, <1>4, <1>5

\* What goes to the Action Cache is a Put of an operation.
LEMMA PutType ==
  ASSUME TypeOK, NEW c \in Calls, pc[c] = "result"
  PROVE  PutOf(c) \in StoredPut /\ op[c] \in Operations /\ op[c].asset \in StoredAsset
<1>1. op[c] \in Operations /\ op[c].op = "Put" /\ children[c] \in Seq(Directories)
  BY DEF TypeOK, Active, Running
<1>2. op[c].asset \in StoredAsset /\ op[c].ref \in {o.ref : o \in Operations}
  BY <1>1, OperationType
<1>3. QED
  BY <1>1, <1>2 DEF PutOf, StoredPut, Ref

\* The asset of a result is the one that was put, but for its expiry.
LEMMA ResultType ==
  ASSUME NEW a \in StoredAsset, NEW descendants
  PROVE  /\ AssetOf(Result(a, descendants)) = [a EXCEPT !.expire = 0]
         /\ AssetOf(Result(a, descendants)) \in StoredAsset
         /\ Result(a, descendants).digest = a.digest /\ Result(a, descendants).type = a.type
<1>1. /\ AssetOf(Result(a, descendants)) =
           [digest |-> a.digest, type |-> a.type, expire |-> 0, updated |-> a.updated]
      /\ Result(a, descendants).digest = a.digest /\ Result(a, descendants).type = a.type
  BY DEF AssetOf, Result
<1>2. [a EXCEPT !.expire = 0] =
        [digest |-> a.digest, type |-> a.type, expire |-> 0, updated |-> a.updated]
  BY DEF StoredAsset
<1>3. QED
  BY <1>1, <1>2 DEF StoredAsset

-----------------------------------------------------------------------------
(* Type correctness                                                        *)

\* A step of call c leaves every other call where it is.
Local(c) ==
  \A d \in Calls \ {c} :
    /\ pc'[d] = pc[d] /\ op'[d] = op[d] /\ uploads'[d] = uploads[d]
    /\ unread'[d] = unread[d] /\ children'[d] = children[d] /\ response'[d] = response[d]

\* Objects have gone to the CAS, and results to the Action Cache.
CASType == \A key \in cas : key.instance \in Instances /\ key.function \in DigestFunctions

CacheType == \A key \in DOMAIN actionCache : AssetOf(actionCache[key]) \in StoredAsset

\* A step of a running call, in terms of what it leaves in the variables of
\* this call.
LEMMA TypeStep ==
  ASSUME TypeOK, NEW c \in Calls, Active(c), UNCHANGED op, Local(c), CASType', CacheType',
         late' \in SUBSET StoredPut,
         pc' \in [Calls -> Running \cup {"idle", "done"}],
         uploads' \in [Calls -> Seq(Uploadable)],
         unread' \in [Calls -> Seq(Digests)],
         children' \in [Calls -> Seq(Directories)],
         response' \in [Calls -> Answer \cup {NoOperation}],
         pc'[c] # "idle",
         pc'[c] # "done" => (pc'[c] = "lookup" <=> pc[c] = "lookup"),
         pc'[c] = "upload" => uploads'[c] # << >>,
         pc'[c] \in {"root", "children", "tree"} => op[c].asset.type = "DIRECTORY",
         pc'[c] = "children" => unread'[c] # << >>,
         pc'[c] = "done" <=> response'[c] # NoOperation
  PROVE  TypeOK'
<1>1. ASSUME NEW d \in Calls
      PROVE  /\ pc'[d] # "idle" => op[d] \in Operations
             /\ pc'[d] = "lookup" => op[d].op = "Get"
             /\ pc'[d] \in Running /\ pc'[d] # "lookup" => op[d].op = "Put"
             /\ pc'[d] = "upload" => uploads'[d] # << >>
             /\ pc'[d] \in {"root", "children", "tree"} => op[d].asset.type = "DIRECTORY"
             /\ pc'[d] = "children" => unread'[d] # << >>
             /\ pc'[d] = "done" <=> response'[d] # NoOperation
  <2>1. CASE d = c
    BY <2>1 DEF TypeOK, Active, Running
  <2>2. CASE d # c
    BY <2>2 DEF TypeOK, Local, Active
  <2>3. QED
    BY <2>1, <2>2
<1>2. op \in [Calls -> Operations \cup {NoOperation}]
  BY DEF TypeOK
<1>3. QED
  BY <1>1, <1>2 DEF TypeOK, Active, CASType, CacheType, Uploadable

\* A step that moves call c to another label.
LEMMA GotoEffect ==
  ASSUME TypeOK, NEW c \in Calls, NEW l \in Running, Goto(c, l)
  PROVE  /\ pc' \in [Calls -> Running \cup {"idle", "done"}] /\ pc'[c] = l
         /\ \A d \in Calls \ {c} : pc'[d] = pc[d]
BY DEF Goto, TypeOK

\* A step that ends call c with an answer.
LEMMA ReplyEffect ==
  ASSUME TypeOK, NEW c \in Calls, NEW m \in Answer, Reply(c, m)
  PROVE  /\ pc' \in [Calls -> Running \cup {"idle", "done"}] /\ pc'[c] = "done"
         /\ response' \in [Calls -> Answer \cup {NoOperation}] /\ response'[c] = m
         /\ response'[c] # NoOperation
         /\ \A d \in Calls \ {c} : pc'[d] = pc[d] /\ response'[d] = response[d]
BY AnswerType DEF Reply, Goto, TypeOK

\* A request to the CAS or to the Action Cache that takes effect.
LEMMA EffectType ==
  ASSUME TypeOK
  PROVE  /\ \A c \in Calls : \A object : Active(c) /\ ToCAS(c, object) => CASType'
         /\ \A put \in StoredPut : StoreResult(put) => CacheType'
         /\ UNCHANGED cas => CASType'
         /\ UNCHANGED actionCache => CacheType'
<1>1. ASSUME NEW c \in Calls, NEW object, Active(c), ToCAS(c, object)
      PROVE  CASType'
  <2>1. Ref(c) \in Reference
    BY <1>1, OperationType DEF TypeOK, Active, Running, Ref
  <2>2. Key(Ref(c), object).instance \in Instances /\ Key(Ref(c), object).function \in DigestFunctions
    BY <2>1 DEF Key, Reference
  <2>3. QED
    BY <1>1, <2>2 DEF ToCAS, CASType, TypeOK
<1>2. ASSUME NEW put \in StoredPut, StoreResult(put)
      PROVE  CacheType'
  <2>1. AssetOf(Result(put.asset, put.children)) \in StoredAsset
    BY ResultType DEF StoredPut
  <2>2. QED
    BY <1>2, <2>1 DEF StoreResult, CacheType, TypeOK
<1>3. (UNCHANGED cas => CASType') /\ (UNCHANGED actionCache => CacheType')
  BY DEF CASType, CacheType, TypeOK, AssetOf
<1>4. QED
  BY <1>1, <1>2, <1>3

\* A call begins.
LEMMA TypeBegin ==
  ASSUME TypeOK, NEW c \in Calls, Begin(c)
  PROVE  /\ TypeOK' /\ Local(c) /\ pc[c] = "idle" /\ op'[c] \in Operations
         /\ UNCHANGED <<cas, results, unread, children, response>>
         /\ \/ /\ op'[c].op = "Put" /\ pc' = [pc EXCEPT ![c] = "upload"]
               /\ uploads'[c] = Objects(op'[c].ref)
            \/ op'[c].op = "Get" /\ pc' = [pc EXCEPT ![c] = "lookup"]
<1>1. PICK o \in Operations : BeginPut(c, o) \/ BeginGet(c, o)
  BY DEF Begin
<1>2. /\ pc[c] = "idle" /\ op' = [op EXCEPT ![c] = o]
      /\ UNCHANGED <<cas, results, unread, children, response>>
      /\ \/ /\ o.op = "Put" /\ pc' = [pc EXCEPT ![c] = "upload"]
            /\ uploads' = [uploads EXCEPT ![c] = Objects(o.ref)]
         \/ o.op = "Get" /\ pc' = [pc EXCEPT ![c] = "lookup"] /\ uploads' = uploads
  BY <1>1 DEF BeginPut, BeginGet, Goto, progress
<1>3. Objects(o.ref) \in Seq(Uploadable) /\ Objects(o.ref) # << >>
  BY OperationType
<1>4. /\ op'[c] = o /\ Local(c) /\ op' \in [Calls -> Operations \cup {NoOperation}]
      /\ pc' \in [Calls -> Running \cup {"idle", "done"}]
  BY <1>2 DEF Local, TypeOK, Running
<1>5. uploads' \in [Calls -> Seq(Uploadable)] /\ (pc'[c] = "upload" => uploads'[c] # << >>)
  BY <1>2, <1>3 DEF TypeOK, Uploadable
<1>6. ASSUME NEW d \in Calls
      PROVE  /\ pc'[d] # "idle" => op'[d] \in Operations
             /\ pc'[d] = "lookup" => op'[d].op = "Get"
             /\ pc'[d] \in Running /\ pc'[d] # "lookup" => op'[d].op = "Put"
             /\ pc'[d] = "upload" => uploads'[d] # << >>
             /\ pc'[d] \in {"root", "children", "tree"} => op'[d].asset.type = "DIRECTORY"
             /\ pc'[d] = "children" => unread[d] # << >>
             /\ pc'[d] = "done" <=> response[d] # NoOperation
  <2>1. CASE d = c
    BY <1>2, <1>4, <1>5, <2>1 DEF TypeOK
  <2>2. CASE d # c
    BY <1>4, <2>2 DEF TypeOK, Local, Active
  <2>3. QED
    BY <2>1, <2>2
<1>7. TypeOK'
  BY <1>2, <1>4, <1>5, <1>6 DEF TypeOK, results, Active, Uploadable
<1>8. \/ /\ op'[c].op = "Put" /\ pc' = [pc EXCEPT ![c] = "upload"]
         /\ uploads'[c] = Objects(op'[c].ref)
      \/ op'[c].op = "Get" /\ pc' = [pc EXCEPT ![c] = "lookup"]
  <2>1. uploads \in [Calls -> Seq(Uploadable)]
    BY DEF TypeOK, Uploadable
  <2>2. QED
    BY <1>2, <1>4, <2>1
<1>9. QED
  BY <1>2, <1>4, <1>7, <1>8

\* A step that ends a running call.
LEMMA TypeReply ==
  ASSUME TypeOK, NEW c \in Calls, Active(c), NEW m \in Answer, Reply(c, m),
         UNCHANGED <<op, progress>>, CASType', CacheType', late' \in SUBSET StoredPut
  PROVE  TypeOK' /\ Local(c)
<1>1. /\ pc' \in [Calls -> Running \cup {"idle", "done"}] /\ pc'[c] = "done"
      /\ response' \in [Calls -> Answer \cup {NoOperation}] /\ response'[c] # NoOperation
      /\ \A d \in Calls \ {c} : pc'[d] = pc[d] /\ response'[d] = response[d]
  BY ReplyEffect
<1>2. Local(c)
  BY <1>1 DEF Local, progress
<1>3. /\ uploads' \in [Calls -> Seq(Uploadable)] /\ unread' \in [Calls -> Seq(Digests)]
      /\ children' \in [Calls -> Seq(Directories)]
  BY DEF TypeOK, progress, Uploadable
<1>4. QED
  BY <1>1, <1>2, <1>3, TypeStep

\* A step that moves a running call on.
LEMMA TypeGoto ==
  ASSUME TypeOK, NEW c \in Calls, Active(c), NEW l \in Running \ {"lookup"}, Goto(c, l),
         pc[c] # "lookup", UNCHANGED <<op, response>>, CASType', CacheType',
         late' \in SUBSET StoredPut,
         uploads' \in [Calls -> Seq(Uploadable)],
         unread' \in [Calls -> Seq(Digests)],
         children' \in [Calls -> Seq(Directories)],
         \A d \in Calls \ {c} : /\ uploads'[d] = uploads[d] /\ unread'[d] = unread[d]
                                /\ children'[d] = children[d],
         l = "upload" => uploads'[c] # << >>,
         l \in {"root", "children", "tree"} => op[c].asset.type = "DIRECTORY",
         l = "children" => unread'[c] # << >>
  PROVE  TypeOK' /\ Local(c)
<1>1. /\ pc' \in [Calls -> Running \cup {"idle", "done"}] /\ pc'[c] = l
      /\ \A d \in Calls \ {c} : pc'[d] = pc[d]
  BY GotoEffect
<1>2. Local(c)
  BY <1>1 DEF Local
<1>3. /\ l # "idle" /\ l # "done" /\ l # "lookup"
  BY DEF Running
<1>4. response' \in [Calls -> Answer \cup {NoOperation}] /\ response'[c] = NoOperation
  BY DEF TypeOK, Active, Running
<1>5. QED
  BY <1>1, <1>2, <1>3, <1>4, TypeStep

\* A running call has an operation, and one that is not a Get has an asset.
LEMMA RunningType ==
  ASSUME TypeOK, NEW c \in Calls, Active(c)
  PROVE  /\ op[c] \in Operations /\ Ref(c) \in {o.ref : o \in Operations}
         /\ pc[c] # "lookup" => op[c].op = "Put" /\ op[c].asset \in StoredAsset
         /\ uploads[c] \in Seq(Uploadable) /\ unread[c] \in Seq(Digests)
         /\ children[c] \in Seq(Directories)
         /\ response[c] = NoOperation
<1>1. op[c] \in Operations /\ (pc[c] # "lookup" => op[c].op = "Put") /\ response[c] = NoOperation
  BY DEF TypeOK, Active, Running
<1>2. /\ uploads[c] \in Seq(Uploadable) /\ unread[c] \in Seq(Digests)
      /\ children[c] \in Seq(Directories)
  BY DEF TypeOK, Uploadable
<1>3. QED
  BY <1>1, <1>2, OperationType DEF Ref

\* What is in the directory that a call reads.
LEMMA DirectoryType ==
  ASSUME NEW c, NEW d, IsDirectory(c, d)
  PROVE  /\ d \in Directories /\ Subdirectories[d] \in Seq(Digests)
         /\ Key(Ref(c), Content(d)) \in cas
BY DirectoriesAssumption DEF IsDirectory, InCAS

\* Objects are uploaded.
LEMMA TypeUploadObject ==
  ASSUME TypeOK, NEW c \in Calls, UploadObject(c)
  PROVE  TypeOK' /\ Local(c)
<1>1. Active(c) /\ pc[c] = "upload" /\ uploads[c] # << >>
  BY DEF UploadObject, Active, Running, TypeOK
<1>2. uploads[c] \in Seq(Uploadable)
  BY <1>1, RunningType
<1>3. Tail(uploads[c]) \in Seq(Uploadable) /\ (MoreUploads(c) => Tail(uploads[c]) # << >>)
  BY <1>1, <1>2, TakeFirst DEF MoreUploads
<1> DEFINE rest == Tail(uploads[c])
<1>4. /\ uploads' = [uploads EXCEPT ![c] = rest] /\ ToCAS(c, Head(uploads[c]))
      /\ \/ MoreUploads(c) /\ UNCHANGED pc
         \/ op[c].asset.type = "DIRECTORY" /\ Goto(c, "root")
         \/ Goto(c, "result")
      /\ UNCHANGED <<results, op, unread, children, response>>
  BY DEF UploadObject
<1> HIDE DEF rest
<1>5. /\ uploads' \in [Calls -> Seq(Uploadable)] /\ uploads'[c] = rest
      /\ unread' \in [Calls -> Seq(Digests)] /\ children' \in [Calls -> Seq(Directories)]
      /\ \A d \in Calls \ {c} : /\ uploads'[d] = uploads[d] /\ unread'[d] = unread[d]
                                /\ children'[d] = children[d]
  <2>1. rest \in Seq(Uploadable)
    BY <1>3 DEF rest
  <2>2. QED
    BY <1>4, <2>1 DEF TypeOK, Uploadable
<1>6. CASType' /\ CacheType' /\ late' \in SUBSET StoredPut
  <2>1. UNCHANGED <<actionCache, late>>
    BY <1>4 DEF results
  <2>2. QED
    BY <1>1, <1>4, <2>1, EffectType DEF TypeOK
<1>7. \/ MoreUploads(c) /\ Goto(c, "upload")
      \/ op[c].asset.type = "DIRECTORY" /\ Goto(c, "root")
      \/ Goto(c, "result")
  BY <1>1, <1>4 DEF Goto, TypeOK
<1>8. /\ UNCHANGED <<op, response>> /\ pc[c] # "lookup"
      /\ {"upload", "root", "result"} \subseteq Running \ {"lookup"}
  BY <1>1, <1>4 DEF Running
<1>9. MoreUploads(c) => uploads'[c] # << >>
  BY <1>3, <1>5 DEF rest
<1>10. CASE MoreUploads(c) /\ Goto(c, "upload")
  BY <1>1, <1>5, <1>6, <1>8, <1>9, <1>10, TypeGoto
<1>11. CASE op[c].asset.type = "DIRECTORY" /\ Goto(c, "root")
  BY <1>1, <1>5, <1>6, <1>8, <1>11, TypeGoto
<1>12. CASE Goto(c, "result")
  BY <1>1, <1>5, <1>6, <1>8, <1>12, TypeGoto
<1>13. QED
  BY <1>7, <1>10, <1>11, <1>12

\* Reading a directory: the list of those to read next, and where to go.
LEMMA TypeRead ==
  ASSUME TypeOK, NEW c \in Calls, pc[c] \in {"root", "children"},
         NEW todo \in Seq(Digests), unread' = [unread EXCEPT ![c] = todo],
         Goto(c, IF todo = << >> THEN "tree" ELSE "children"),
         children' \in [Calls -> Seq(Directories)],
         \A d \in Calls \ {c} : children'[d] = children[d],
         UNCHANGED <<cas, results, op, uploads, response>>
  PROVE  TypeOK' /\ Local(c)
<1>1. Active(c) /\ pc[c] # "lookup" /\ op[c].asset.type = "DIRECTORY"
  BY DEF TypeOK, Active, Running
<1>2. CASType' /\ CacheType' /\ late' \in SUBSET StoredPut
  <2>1. UNCHANGED <<actionCache, late>>
    BY DEF results
  <2>2. QED
    BY <2>1, EffectType DEF TypeOK
<1>3. /\ unread' \in [Calls -> Seq(Digests)] /\ unread'[c] = todo
      /\ uploads' \in [Calls -> Seq(Uploadable)]
      /\ \A d \in Calls \ {c} : /\ uploads'[d] = uploads[d] /\ unread'[d] = unread[d]
                                /\ children'[d] = children[d]
  BY DEF TypeOK, Uploadable
<1>4. {"tree", "children"} \subseteq Running \ {"lookup"}
  BY DEF Running
<1>5. CASE todo = << >>
  <2>1. Goto(c, "tree")
    BY <1>5
  <2>2. QED
    BY <1>1, <1>2, <1>3, <1>4, <2>1, TypeGoto
<1>6. CASE todo # << >>
  <2>1. Goto(c, "children")
    BY <1>6
  <2>2. QED
    BY <1>1, <1>2, <1>3, <1>4, <1>6, <2>1, TypeGoto
<1>7. QED
  BY <1>5, <1>6

\* The root of the directory is read.
LEMMA TypeReadRoot ==
  ASSUME TypeOK, NEW c \in Calls, ReadRoot(c)
  PROVE  TypeOK' /\ Local(c)
<1> DEFINE todo == Subdirectories[op[c].asset.digest]
<1>1. todo \in Seq(Digests)
  BY DirectoryType DEF ReadRoot
<1> HIDE DEF todo
<1>2. unread' = [unread EXCEPT ![c] = todo] /\ unread'[c] = todo
  BY DEF ReadRoot, TypeOK, todo
<1>3. Goto(c, IF todo = << >> THEN "tree" ELSE "children")
  BY <1>2 DEF ReadRoot
<1>4. /\ pc[c] \in {"root", "children"} /\ UNCHANGED children
      /\ UNCHANGED <<cas, results, op, uploads, response>>
  BY DEF ReadRoot
<1>5. /\ children' \in [Calls -> Seq(Directories)]
      /\ \A d \in Calls \ {c} : children'[d] = children[d]
  BY <1>4 DEF TypeOK
<1>6. QED
  BY <1>1, <1>2, <1>3, <1>4, <1>5, TypeRead

\* The next directory, and what reading it adds to the lists.
LEMMA ReadChildEffect ==
  ASSUME TypeOK, NEW c \in Calls, ReadChild(c)
  PROVE  LET d == Head(unread[c])
         IN  /\ pc[c] = "children" /\ IsDirectory(c, d) /\ d \in Directories
             /\ children' = [children EXCEPT ![c] = Append(children[c], d)]
             /\ Append(children[c], d) \in Seq(Directories)
             /\ unread' = [unread EXCEPT ![c] = Below(d) \o Tail(unread[c])]
             /\ Below(d) \o Tail(unread[c]) \in Seq(Digests)
             /\ unread'[c] = Below(d) \o Tail(unread[c])
             /\ Goto(c, IF unread'[c] = << >> THEN "tree" ELSE "children")
             /\ UNCHANGED <<cas, results, op, uploads, response>>
<1> DEFINE d == Head(unread[c])
<1>1. /\ pc[c] = "children" /\ IsDirectory(c, d)
      /\ children' = [children EXCEPT ![c] = Append(children[c], d)]
      /\ unread' = [unread EXCEPT ![c] = Below(d) \o Tail(unread[c])]
      /\ Goto(c, IF unread'[c] = << >> THEN "tree" ELSE "children")
      /\ UNCHANGED <<cas, results, op, uploads, response>>
  BY DEF ReadChild
<1>2. d \in Directories /\ Below(d) \in Seq(Digests)
  BY <1>1, DirectoryType DEF Below
<1>3. unread[c] \in Seq(Digests) /\ unread[c] # << >> /\ children[c] \in Seq(Directories)
  BY <1>1 DEF TypeOK
<1>4. Tail(unread[c]) \in Seq(Digests)
  BY <1>3, TakeFirst
<1> HIDE DEF d
<1>5. Append(children[c], d) \in Seq(Directories)
  BY <1>2, <1>3
<1>6. ASSUME NEW s \in Seq(Digests), NEW t \in Seq(Digests) PROVE s \o t \in Seq(Digests)
  OBVIOUS
<1>7. Below(d) \o Tail(unread[c]) \in Seq(Digests)
  BY <1>2, <1>4, <1>6
<1> DEFINE todo == Below(d) \o Tail(unread[c])
<1>8. unread' = [unread EXCEPT ![c] = todo]
  BY <1>1
<1> HIDE DEF todo
<1>9. unread'[c] = todo
  BY <1>8 DEF TypeOK
<1>10. QED
  BY <1>1, <1>2, <1>5, <1>7, <1>9 DEF d, todo

\* A subdirectory is read.
LEMMA TypeReadChild ==
  ASSUME TypeOK, NEW c \in Calls, ReadChild(c)
  PROVE  TypeOK' /\ Local(c)
<1> DEFINE todo == Below(Head(unread[c])) \o Tail(unread[c])
           list == Append(children[c], Head(unread[c]))
<1>1. /\ pc[c] = "children" /\ children' = [children EXCEPT ![c] = list]
      /\ list \in Seq(Directories) /\ todo \in Seq(Digests)
      /\ unread' = [unread EXCEPT ![c] = todo] /\ unread'[c] = todo
      /\ Goto(c, IF unread'[c] = << >> THEN "tree" ELSE "children")
      /\ UNCHANGED <<cas, results, op, uploads, response>>
  BY ReadChildEffect
<1> HIDE DEF todo, list
<1>2. Goto(c, IF todo = << >> THEN "tree" ELSE "children")
  BY <1>1
<1>3. /\ children' \in [Calls -> Seq(Directories)]
      /\ \A d \in Calls \ {c} : children'[d] = children[d]
  BY <1>1 DEF TypeOK
<1>4. QED
  BY <1>1, <1>2, <1>3, TypeRead

\* The tree is uploaded.
LEMMA TypeUploadTree ==
  ASSUME TypeOK, NEW c \in Calls, UploadTree(c)
  PROVE  TypeOK' /\ Local(c)
<1>1. /\ Active(c) /\ pc[c] # "lookup" /\ Goto(c, "result") /\ "result" \in Running \ {"lookup"}
      /\ ToCAS(c, Tree(op[c].asset.digest, children[c]))
      /\ UNCHANGED <<actionCache, late, op, uploads, unread, children, response>>
  BY DEF UploadTree, Active, Running, results, progress
<1>2. CASType' /\ CacheType' /\ late' \in SUBSET StoredPut
  BY <1>1, EffectType DEF TypeOK
<1>3. /\ uploads' \in [Calls -> Seq(Uploadable)] /\ unread' \in [Calls -> Seq(Digests)]
      /\ children' \in [Calls -> Seq(Directories)]
      /\ \A d \in Calls \ {c} : /\ uploads'[d] = uploads[d] /\ unread'[d] = unread[d]
                                /\ children'[d] = children[d]
  BY <1>1 DEF TypeOK, Uploadable
<1>4. QED
  BY <1>1, <1>2, <1>3, TypeGoto

\* The steps that end a call with an answer.
Ends(c) ==
  \/ NotADirectory(c) \/ ChildMissing(c) \/ PutResult(c) \/ Lookup(c) \/ LookupFails(c)
  \/ CASFails(c) \/ ActionCacheFails(c)

\* Such a step has an answer, and leaves the call's lists alone.
LEMMA EndEffect ==
  ASSUME TypeOK, NEW c \in Calls, Ends(c)
  PROVE  /\ Active(c) /\ UNCHANGED <<op, progress>>
         /\ \E m \in Answer : Reply(c, m)
<1>1. \A code \in Codes : Code(code) \in Answer
  BY AnswerType
<1>2. CASE NotADirectory(c)
  <2> DEFINE code == IF ValidDigest(c, op[c].asset.digest) /\ ~ InCAS(c, Content(op[c].asset.digest))
                     THEN "NotFound" ELSE "InvalidArgument"
  <2>1. Reply(c, Code(code)) /\ pc[c] = "root" /\ UNCHANGED <<op, progress>>
    BY <1>2 DEF NotADirectory
  <2>2. code \in Codes
    BY DEF Codes
  <2> HIDE DEF code
  <2>3. QED
    BY <1>1, <2>1, <2>2 DEF Active, Running
<1>3. CASE ChildMissing(c)
  <2>1. Reply(c, Code("InvalidArgument")) /\ pc[c] = "children" /\ UNCHANGED <<op, progress>>
    BY <1>3 DEF ChildMissing
  <2>2. QED
    BY <1>1, <2>1 DEF Active, Running, Codes
<1>4. CASE PutResult(c)
  <2>1. Reply(c, Code("OK")) /\ pc[c] = "result" /\ UNCHANGED <<op, progress>>
    BY <1>4 DEF PutResult
  <2>2. QED
    BY <1>1, <2>1 DEF Active, Running, Codes
<1>5. CASE Lookup(c)
  <2> DEFINE result == actionCache[ActionKey(Ref(c))]
             answer == [code |-> "OK", asset |-> AssetOf(result)]
  <2>1. /\ pc[c] = "lookup" /\ UNCHANGED <<op, progress>>
        /\ Reply(c, Code("InvalidArgument")) \/ Reply(c, answer)
        /\ AssetOf(result) \in StoredAsset
    BY <1>5 DEF Lookup, TypeOK
  <2>2. answer \in Answer
    BY <2>1, AnswerType
  <2> HIDE DEF answer
  <2>3. QED
    BY <1>1, <2>1, <2>2 DEF Active, Running, Codes
<1>6. CASE LookupFails(c)
  <2>1. Reply(c, Code("NotFound")) /\ pc[c] = "lookup" /\ UNCHANGED <<op, progress>>
    BY <1>6 DEF LookupFails
  <2>2. QED
    BY <1>1, <2>1 DEF Active, Running, Codes
<1>7. CASE CASFails(c)
  <2> DEFINE code == IF pc[c] = "children" THEN "InvalidArgument" ELSE "Unavailable"
  <2>1. /\ Reply(c, Code(code)) /\ UNCHANGED <<op, progress>>
        /\ pc[c] \in {"upload", "root", "children", "tree"}
    BY <1>7 DEF CASFails
  <2>2. code \in Codes
    BY DEF Codes
  <2> HIDE DEF code
  <2>3. QED
    BY <1>1, <2>1, <2>2 DEF Active, Running
<1>8. CASE ActionCacheFails(c)
  <2>1. /\ Reply(c, Code("Unavailable")) /\ UNCHANGED <<op, progress>>
        /\ pc[c] \in {"result", "lookup"}
    BY <1>8 DEF ActionCacheFails
  <2>2. QED
    BY <1>1, <2>1 DEF Active, Running, Codes
<1>9. QED
  BY <1>2, <1>3, <1>4, <1>5, <1>6, <1>7, <1>8 DEF Ends

\* What such a step may do to the CAS and to the Action Cache.
LEMMA EndRequests ==
  ASSUME NEW c \in Calls, Ends(c)
  PROVE  /\ \/ UNCHANGED cas
            \/ \E object : ToCAS(c, object)
         /\ \/ UNCHANGED <<actionCache, late>>
            \/ pc[c] = "result" /\ StoreResult(PutOf(c)) /\ UNCHANGED late
            \/ pc[c] = "result" /\ UNCHANGED actionCache /\ late' = late \cup {PutOf(c)}
<1>1. CASE NotADirectory(c) \/ ChildMissing(c) \/ Lookup(c) \/ LookupFails(c)
  BY <1>1 DEF NotADirectory, ChildMissing, Lookup, LookupFails, results
<1>2. CASE PutResult(c)
  BY <1>2 DEF PutResult
<1>3. CASE CASFails(c)
  BY <1>3 DEF CASFails, results
<1>4. CASE ActionCacheFails(c)
  BY <1>4 DEF ActionCacheFails, results
<1>5. QED
  BY <1>1, <1>2, <1>3, <1>4 DEF Ends

\* A call ends.
LEMMA TypeEnds ==
  ASSUME TypeOK, NEW c \in Calls, Ends(c)
  PROVE  TypeOK' /\ Local(c)
<1>1. Active(c) /\ UNCHANGED <<op, progress>> /\ \E m \in Answer : Reply(c, m)
  BY EndEffect
<1>2. CASType'
  BY <1>1, EndRequests, EffectType
<1>3. CacheType' /\ late' \in SUBSET StoredPut
  <2>1. late \in SUBSET StoredPut
    BY DEF TypeOK
  <2>2. CASE UNCHANGED <<actionCache, late>>
    BY <2>1, <2>2, EffectType
  <2>3. CASE pc[c] = "result" /\ StoreResult(PutOf(c)) /\ UNCHANGED late
    BY <2>1, <2>3, PutType, EffectType
  <2>4. CASE pc[c] = "result" /\ UNCHANGED actionCache /\ late' = late \cup {PutOf(c)}
    BY <2>1, <2>4, PutType, EffectType
  <2>5. QED
    BY <2>2, <2>3, <2>4, EndRequests
<1>4. QED
  BY <1>1, <1>2, <1>3, TypeReply

\* A step of a call.
LEMMA TypeOfStep ==
  ASSUME TypeOK, NEW c \in Calls, Step(c)
  PROVE  TypeOK' /\ Local(c) /\ Active(c) /\ UNCHANGED op
<1>1. CASE UploadObject(c)
  BY <1>1, TypeUploadObject DEF UploadObject, Active, Running
<1>2. CASE ReadRoot(c)
  BY <1>2, TypeReadRoot DEF ReadRoot, Active, Running
<1>3. CASE ReadChild(c)
  BY <1>3, TypeReadChild DEF ReadChild, Active, Running
<1>4. CASE UploadTree(c)
  BY <1>4, TypeUploadTree DEF UploadTree, Active, Running
<1>5. CASE Ends(c)
  BY <1>5, TypeEnds, EndEffect
<1>6. QED
  BY <1>1, <1>2, <1>3, <1>4, <1>5 DEF Step, Ends

\* A Put arrives late, a client uploads, the process dies, or nothing happens.
LEMMA TypeEnvironment ==
  ASSUME TypeOK, LateResult \/ ClientUploads \/ Crash \/ UNCHANGED vars
  PROVE  TypeOK'
<1>1. CASE LateResult
  <2>1. PICK put \in late : StoreResult(put) /\ late' = late \ {put}
    BY <1>1 DEF LateResult
  <2>2. UNCHANGED <<cas, pc, op, uploads, unread, children, response>>
    BY <1>1 DEF LateResult, progress
  <2>3. put \in StoredPut /\ late' \subseteq StoredPut
    BY <2>1 DEF TypeOK
  <2>4. CacheType'
    BY <2>1, <2>3, EffectType
  <2>5. QED
    BY <2>2, <2>3, <2>4 DEF TypeOK, CacheType, Active
<1>2. CASE ClientUploads
  <2>1. UNCHANGED <<actionCache, late, pc, op, uploads, unread, children, response>>
    BY <1>2 DEF ClientUploads, results, progress
  <2>2. CASType'
    <3>1. PICK key \in {Key(o.ref, Content(d)) : o \in Operations, d \in Digests} \ cas :
            cas' = cas \cup {key}
      BY <1>2 DEF ClientUploads
    <3>2. PICK o \in Operations, d \in Digests : key = Key(o.ref, Content(d))
      BY <3>1
    <3>3. key.instance \in Instances /\ key.function \in DigestFunctions
      BY <3>2, OperationType DEF Key, Reference
    <3>4. QED
      BY <3>1, <3>3 DEF CASType, TypeOK
  <2>3. CacheType'
    BY <2>1, EffectType
  <2>4. QED
    BY <2>1, <2>2, <2>3 DEF TypeOK, CASType, CacheType, Active
<1>3. CASE Crash
  <2>1. /\ UNCHANGED <<cas, actionCache, late, op, uploads, unread, children>>
        /\ pc' = [c \in Calls |-> IF Active(c) THEN "done" ELSE pc[c]]
        /\ response' = [c \in Calls |-> IF Active(c) THEN Code("Unavailable") ELSE response[c]]
    BY <1>3 DEF Crash, results, progress
  <2>2. Code("Unavailable") \in Answer /\ Code("Unavailable") # NoOperation
    BY AnswerType DEF Codes
  <2>3. /\ pc' \in [Calls -> Running \cup {"idle", "done"}]
        /\ response' \in [Calls -> Answer \cup {NoOperation}]
    BY <2>1, <2>2 DEF TypeOK
  <2>4. ASSUME NEW c \in Calls
        PROVE  /\ pc'[c] # "idle" => op[c] \in Operations
               /\ pc'[c] \notin Running
               /\ pc'[c] = "done" <=> response'[c] # NoOperation
    <3>1. CASE Active(c)
      BY <2>1, <2>2, <3>1 DEF TypeOK, Active, Running
    <3>2. CASE ~ Active(c)
      BY <2>1, <3>2 DEF TypeOK, Active
    <3>3. QED
      BY <3>1, <3>2
  <2>5. CASType' /\ CacheType'
    BY <2>1, EffectType
  <2>6. QED
    BY <2>1, <2>3, <2>4, <2>5 DEF TypeOK, CASType, CacheType, Active, Running
<1>4. CASE UNCHANGED vars
  <2>1. UNCHANGED <<cas, actionCache, late, pc, op, uploads, unread, children, response>>
    BY <1>4 DEF vars
  <2>2. CacheType'
    BY <2>1, EffectType
  <2>3. QED
    BY <2>1, <2>2 DEF TypeOK, CacheType, Active
<1>5. QED
  BY <1>1, <1>2, <1>3, <1>4

-----------------------------------------------------------------------------
(* The invariant                                                           *)

\* Nothing is taken out of the CAS.
LEMMA CASGrows ==
  ASSUME [Next]_vars
  PROVE  cas \subseteq cas'
<1>1. ASSUME NEW c \in Calls, Begin(c)
      PROVE  cas \subseteq cas'
  BY <1>1 DEF Begin, BeginPut, BeginGet
<1>2. ASSUME NEW c \in Calls, Ends(c)
      PROVE  cas \subseteq cas'
  BY <1>2, EndRequests DEF ToCAS
<1>3. ASSUME NEW c \in Calls, UploadObject(c) \/ ReadRoot(c) \/ ReadChild(c) \/ UploadTree(c)
      PROVE  cas \subseteq cas'
  BY <1>3 DEF UploadObject, ReadRoot, ReadChild, UploadTree, ToCAS
<1>4. CASE LateResult \/ ClientUploads \/ Crash \/ UNCHANGED vars
  BY <1>4 DEF LateResult, ClientUploads, Crash, vars
<1>5. QED
  BY <1>1, <1>2, <1>3, <1>4 DEF Next, Step, Ends, Quiescent

\* What is supported remains so.
LEMMA SupportStays ==
  ASSUME cas \subseteq cas', NEW ref, NEW a, NEW descendants,
         Supported(ref, a, descendants)
  PROVE  Supported(ref, a, descendants)'
BY DEF Supported, HasDirectories

\* A call that does not move keeps its invariant.
LEMMA CallStays ==
  ASSUME cas \subseteq cas', NEW c \in Calls, CallInv(c), pc'[c] = pc[c], op'[c] = op[c],
         uploads'[c] = uploads[c], unread'[c] = unread[c], children'[c] = children[c]
  PROVE  CallInv(c)'
BY DEF CallInv, Uploaded, DirectoriesAreRead, Supported, HasDirectories, Ref, InCAS, Left

\* A call that looks up a reference, or that is over, has nothing to keep.
LEMMA CallOver ==
  ASSUME NEW c \in Calls, pc'[c] \in {"lookup", "done"}
  PROVE  CallInv(c)'
BY DEF CallInv, Uploaded, DirectoriesAreRead

\* An object is uploaded.
LEMMA UploadObjectKeeps ==
  ASSUME Inv, NEW c \in Calls, UploadObject(c)
  PROVE  CallInv(c)'
<1>1. /\ TypeOK /\ Active(c) /\ pc[c] = "upload" /\ uploads[c] # << >>
      /\ uploads[c] \in Seq(Uploadable) /\ pc \in [Calls -> Running \cup {"idle", "done"}]
  <2>1. TypeOK /\ Active(c) /\ pc[c] = "upload"
    BY DEF Inv, UploadObject, Active, Running
  <2>2. QED
    BY <2>1, RunningType DEF TypeOK
<1> DEFINE first == Head(uploads[c])
           rest == Tail(uploads[c])
<1>2. /\ Left(c) \subseteq {first} \cup {rest[i] : i \in 1 .. Len(rest)}
      /\ ~ MoreUploads(c) => Left(c) = {first}
  BY <1>1, TakeFirst DEF Left, MoreUploads
<1>3. /\ uploads' = [uploads EXCEPT ![c] = rest] /\ cas' = cas \cup {Key(Ref(c), first)}
      /\ UNCHANGED <<op, children>>
      /\ IF MoreUploads(c) THEN UNCHANGED pc
         ELSE IF op[c].asset.type = "DIRECTORY" THEN Goto(c, "root") ELSE Goto(c, "result")
  BY DEF UploadObject, ToCAS
<1> HIDE DEF first, rest
<1>4. uploads'[c] = rest
  <2>1. uploads \in [Calls -> Seq(Uploadable)]
    BY <1>1 DEF TypeOK, Uploadable
  <2>2. QED
    BY <1>3, <2>1
<1>5. ASSUME NEW o \in ObjectsOf(Ref(c))
      PROVE  /\ MoreUploads(c) => Key(Ref(c), o) \in cas' \/ o \in {rest[i] : i \in 1 .. Len(rest)}
             /\ ~ MoreUploads(c) => Key(Ref(c), o) \in cas'
  <2>1. Key(Ref(c), o) \in cas \/ o \in Left(c)
    BY <1>1 DEF Inv, CallInv, Uploaded, InCAS
  <2>2. QED
    BY <1>2, <1>3, <2>1
<1>6. children'[c] = << >>
  BY <1>1, <1>3 DEF Inv, CallInv, DirectoriesAreRead
<1>7. CASE MoreUploads(c)
  <2>1. pc'[c] = "upload"
    BY <1>1, <1>3, <1>7
  <2>2. QED
    BY <1>3, <1>4, <1>5, <1>6, <1>7, <2>1
    DEF CallInv, Uploaded, DirectoriesAreRead, Ref, InCAS, Left
<1>8. CASE ~ MoreUploads(c)
  <2>1. /\ op[c].asset.type = "DIRECTORY" => pc'[c] = "root"
        /\ op[c].asset.type # "DIRECTORY" => pc'[c] = "result"
    BY <1>1, <1>3, <1>8 DEF Goto
  <2>2. QED
    BY <1>3, <1>5, <1>6, <1>8, <2>1
    DEF CallInv, Uploaded, DirectoriesAreRead, Ref, InCAS, Supported
<1>9. QED
  BY <1>7, <1>8

\* One more directory adds its entries.
LEMMA PlacesOfOneMore ==
  ASSUME NEW s \in Seq(Directories), NEW e \in Directories, NEW d,
         IsFiniteSet(Places(Subdirectories, s, d))
  PROVE  /\ IsFiniteSet(Places(Subdirectories, Append(s, e), d))
         /\ Cardinality(Places(Subdirectories, Append(s, e), d))
              = Cardinality(Places(Subdirectories, s, d)) + Count(Subdirectories[e], d)
<1>1. Subdirectories \in [Directories -> Seq(Digests)]
  BY DirectoriesAssumption
<1>2. QED
  BY <1>1, PlacesAppend, SMTT(30)

\* Of a directory that has just been read, everything is left to do.
LEMMA CompleteRoot ==
  ASSUME NEW root \in Directories
  PROVE  Complete(root, << >>, Subdirectories[root])
<1>1. ASSUME NEW d
      PROVE  /\ IsFiniteSet(Places(Subdirectories, <<root>>, d))
             /\ Cardinality(Places(Subdirectories, <<root>>, d)) = Count(Subdirectories[root], d)
  <2>1. << >> \in Seq(Directories) /\ Append(<< >>, root) = <<root>>
    OBVIOUS
  <2>2. /\ IsFiniteSet(Places(Subdirectories, Append(<< >>, root), d))
        /\ Cardinality(Places(Subdirectories, Append(<< >>, root), d))
             = 0 + Count(Subdirectories[root], d)
    BY <2>1, PlacesOfNone, PlacesOfOneMore
  <2>3. Count(Subdirectories[root], d) \in Nat
    BY CountType, DirectoriesAssumption
  <2>4. QED
    BY <2>1, <2>2, <2>3
<1>2. <<root>> \o << >> = <<root>>
  OBVIOUS
<1>3. ASSUME NEW d
      PROVE  Count(<< >>, d) + Count(Subdirectories[root], d) = Count(Subdirectories[root], d)
  BY CountType, CountEmpty, DirectoriesAssumption
<1>4. QED
  BY <1>1, <1>2, <1>3 DEF Complete

\* A directory that is read moves to the list of descendants, and its own
\* entries to the list of those to read.
LEMMA CompleteChild ==
  ASSUME NEW root \in Directories, NEW list \in Seq(Directories), NEW todo \in Seq(Digests),
         todo # << >>, Head(todo) \in Directories, Complete(root, list, todo)
  PROVE  Complete(root, Append(list, Head(todo)), Subdirectories[Head(todo)] \o Tail(todo))
<1> DEFINE e == Head(todo)
           rest == Tail(todo)
           below == Subdirectories[e]
           listed == <<root>> \o list
           One(d) == IF e = d THEN 1 ELSE 0
<1>1. /\ e \in Directories /\ below \in Seq(Digests) /\ rest \in Seq(Digests)
      /\ Directories \subseteq Digests
  BY TakeFirst, DirectoriesAssumption
<1>2. \A d : Count(todo, d) = One(d) + Count(rest, d)
  BY CountTail
<1> HIDE DEF e, rest, below
<1>3. listed \in Seq(Directories) /\ <<root>> \o Append(list, e) = Append(listed, e)
  BY <1>1
<1> HIDE DEF listed
<1>4. ASSUME NEW d \in Digests
      PROVE  LET places == Places(Subdirectories, Append(listed, e), d)
             IN  /\ IsFiniteSet(places)
                 /\ Count(Append(list, e), d) + Count(below \o rest, d) = Cardinality(places)
  <2> DEFINE places == Places(Subdirectories, listed, d)
             more == Places(Subdirectories, Append(listed, e), d)
  <2>1. IsFiniteSet(places) /\ Count(list, d) + Count(todo, d) = Cardinality(places)
    BY <1>4 DEF Complete, listed
  <2>2. IsFiniteSet(more) /\ Cardinality(more) = Cardinality(places) + Count(below, d)
    BY <1>1, <1>3, <2>1, PlacesOfOneMore DEF below
  <2>3. Count(Append(list, e), d) = Count(list, d) + One(d)
    BY <1>1, CountAppend
  <2>4. Count(below \o rest, d) = Count(below, d) + Count(rest, d)
    BY <1>1, CountConcat
  <2>5. /\ Count(list, d) \in Nat /\ Count(below, d) \in Nat /\ Count(rest, d) \in Nat
        /\ One(d) \in Nat
    BY <1>1, CountType
  <2> HIDE DEF places, more, One
  <2>6. Count(list, d) + One(d) + (Count(below, d) + Count(rest, d))
          = Count(list, d) + (One(d) + Count(rest, d)) + Count(below, d)
    BY <2>5
  <2>7. IsFiniteSet(more) /\ Count(Append(list, e), d) + Count(below \o rest, d) = Cardinality(more)
    BY <1>2, <2>1, <2>2, <2>3, <2>4, <2>6
  <2>8. QED
    BY <2>7 DEF more
<1>5. Complete(root, Append(list, e), below \o rest)
  BY <1>3, <1>4 DEF Complete
<1>6. QED
  BY <1>5 DEF e, below, rest

\* The root of a directory is read.
LEMMA ReadRootKeeps ==
  ASSUME Inv, NEW c \in Calls, ReadRoot(c)
  PROVE  CallInv(c)'
<1>1. /\ pc[c] = "root" /\ pc'[c] \in {"tree", "children"} /\ UNCHANGED <<cas, op, children>>
      /\ pc'[c] = "tree" => unread'[c] = << >>
      /\ unread'[c] = Subdirectories[op[c].asset.digest]
  BY DEF ReadRoot, Goto, Inv, TypeOK
<1>2. /\ Key(Ref(c), Content(op[c].asset.digest)) \in cas /\ children[c] = << >>
      /\ op[c].asset.digest \in Directories
  BY <1>1, DirectoryType DEF ReadRoot, Inv, CallInv, DirectoriesAreRead
<1>3. \A i \in 1 .. Len(children[c]) : FALSE
  <2>1. Len(children[c]) = 0
    BY <1>2
  <2>2. QED
    BY <2>1
<1>4. \A o \in ObjectsOf(Ref(c)) : InCAS(c, o)
  BY <1>1 DEF Inv, CallInv, Uploaded
<1>5. Complete(op[c].asset.digest, children[c], Subdirectories[op[c].asset.digest])
  BY <1>2, CompleteRoot
<1>6. QED
  BY <1>1, <1>2, <1>3, <1>4, <1>5
  DEF CallInv, Uploaded, DirectoriesAreRead, HasDirectories, Ref, InCAS

\* A subdirectory is read.
LEMMA ReadChildKeeps ==
  ASSUME Inv, NEW c \in Calls, ReadChild(c)
  PROVE  CallInv(c)'
<1> DEFINE d == Head(unread[c])
           list == Append(children[c], d)
<1>1. TypeOK
  BY DEF Inv
<1>2. /\ pc[c] = "children" /\ IsDirectory(c, d) /\ children' = [children EXCEPT ![c] = list]
      /\ Goto(c, IF unread'[c] = << >> THEN "tree" ELSE "children")
      /\ UNCHANGED <<cas, op>>
  BY <1>1, ReadChildEffect
<1>3. Key(Ref(c), Content(d)) \in cas
  BY <1>2, DirectoryType
<1>4. children[c] \in Seq(Directories) /\ d \in Directories
  BY <1>1, ReadChildEffect DEF TypeOK
<1>5. /\ \A o \in ObjectsOf(Ref(c)) : InCAS(c, o)
      /\ HasDirectories(Ref(c), op[c].asset.digest, children[c])
      /\ op[c].asset.digest \in Directories
      /\ Complete(op[c].asset.digest, children[c], unread[c])
  BY <1>2 DEF Inv, CallInv, Uploaded, DirectoriesAreRead
<1>6. HasDirectories(Ref(c), op[c].asset.digest, list)
  <2> HIDE DEF d
  <2>1. /\ Len(list) = Len(children[c]) + 1 /\ list[Len(children[c]) + 1] = d
        /\ Len(children[c]) \in Nat
        /\ \A i \in 1 .. Len(children[c]) : list[i] = children[c][i]
    BY <1>4
  <2> HIDE DEF list
  <2>2. ASSUME NEW i \in 1 .. Len(list) PROVE Key(Ref(c), Content(list[i])) \in cas
    <3>1. i \in 1 .. Len(children[c]) \/ i = Len(children[c]) + 1
      BY <2>1
    <3>2. QED
      BY <1>3, <1>5, <2>1, <3>1 DEF HasDirectories
  <2>3. QED
    BY <1>5, <2>2 DEF HasDirectories
<1>7. Complete(op[c].asset.digest, list, Below(d) \o Tail(unread[c]))
  <2>1. unread[c] \in Seq(Digests) /\ unread[c] # << >>
    BY <1>1, <1>2 DEF TypeOK
  <2>2. QED
    BY <1>4, <1>5, <2>1, CompleteChild DEF Below
<1>8. unread'[c] = Below(d) \o Tail(unread[c])
  BY <1>1, ReadChildEffect
<1> HIDE DEF d, list
<1>9. /\ pc'[c] \in {"children", "tree"} /\ children'[c] = list
      /\ pc'[c] = "tree" => unread'[c] = << >>
  BY <1>1, <1>2 DEF Goto, TypeOK
<1>10. QED
  BY <1>2, <1>5, <1>6, <1>7, <1>8, <1>9 DEF CallInv, Uploaded, DirectoriesAreRead, HasDirectories, Ref, InCAS

\* The tree is uploaded.
LEMMA UploadTreeKeeps ==
  ASSUME Inv, NEW c \in Calls, UploadTree(c)
  PROVE  CallInv(c)'
<1>1. /\ pc[c] = "tree" /\ pc'[c] = "result" /\ UNCHANGED <<op, children>>
      /\ cas' = cas \cup {Key(Ref(c), Tree(op[c].asset.digest, children[c]))}
  BY DEF UploadTree, Goto, ToCAS, progress, Inv, TypeOK
<1>2. /\ \A o \in ObjectsOf(Ref(c)) : InCAS(c, o)
      /\ HasDirectories(Ref(c), op[c].asset.digest, children[c])
      /\ Complete(op[c].asset.digest, children[c], << >>)
  BY <1>1 DEF Inv, CallInv, Uploaded, DirectoriesAreRead
<1>3. QED
  BY <1>1, <1>2 DEF CallInv, Uploaded, DirectoriesAreRead, Supported, HasDirectories, Ref, InCAS

\* A call begins: everything is left to upload.
LEMMA BeginKeeps ==
  ASSUME Inv, NEW c \in Calls, Begin(c)
  PROVE  CallInv(c)'
<1>1. /\ pc[c] = "idle" /\ UNCHANGED <<children>> /\ pc \in [Calls -> Running \cup {"idle", "done"}]
      /\ \/ pc' = [pc EXCEPT ![c] = "upload"] /\ uploads'[c] = Objects(op'[c].ref)
         \/ pc' = [pc EXCEPT ![c] = "lookup"]
  BY TypeBegin DEF Inv, TypeOK
<1>2. CASE pc'[c] = "lookup"
  BY <1>2, CallOver
<1>3. CASE pc'[c] = "upload" /\ uploads'[c] = Objects(op'[c].ref)
  <2>1. children'[c] = << >>
    BY <1>1 DEF Inv, CallInv, DirectoriesAreRead
  <2>2. {uploads'[c][i] : i \in 1 .. Len(uploads'[c])} = ObjectsOf(op'[c].ref)
    BY <1>3, ObjectsType
  <2>3. QED
    BY <1>3, <2>1, <2>2 DEF CallInv, Uploaded, DirectoriesAreRead, Left, Ref
<1>4. QED
  BY <1>1, <1>2, <1>3

\* Every step keeps the invariant of every call.
LEMMA CallsKeep ==
  ASSUME Inv, [Next]_vars
  PROVE  \A c \in Calls : CallInv(c)'
<1> USE CASGrows
<1>1. TypeOK /\ \A c \in Calls : CallInv(c)
  BY DEF Inv
<1>2. ASSUME NEW c \in Calls, Local(c), CallInv(c)'
      PROVE  \A d \in Calls : CallInv(d)'
  <2>1. ASSUME NEW d \in Calls \ {c} PROVE CallInv(d)'
    BY <1>1, <1>2, CallStays DEF Local
  <2>2. QED
    BY <1>2, <2>1
<1>3. ASSUME NEW c \in Calls, Begin(c)
      PROVE  \A d \in Calls : CallInv(d)'
  BY <1>1, <1>2, <1>3, BeginKeeps, TypeBegin
<1>4. ASSUME NEW c \in Calls, Step(c)
      PROVE  \A d \in Calls : CallInv(d)'
  <2>1. Local(c)
    BY <1>1, <1>4, TypeOfStep
  <2>2. CASE Ends(c)
    <3>1. pc'[c] = "done"
      BY <1>1, <2>2, EndEffect, ReplyEffect
    <3>2. QED
      BY <1>2, <2>1, <3>1, CallOver
  <2>3. CASE UploadObject(c) \/ ReadRoot(c) \/ ReadChild(c) \/ UploadTree(c)
    BY <1>2, <2>1, <2>3, UploadObjectKeeps, ReadRootKeeps, ReadChildKeeps, UploadTreeKeeps
  <2>4. QED
    BY <1>4, <2>2, <2>3 DEF Step, Ends
<1>5. CASE LateResult \/ ClientUploads \/ UNCHANGED vars
  <2>1. UNCHANGED <<pc, op, uploads, unread, children>>
    BY <1>5 DEF LateResult, ClientUploads, vars, progress
  <2>2. QED
    BY <1>1, <2>1, CallStays
<1>6. CASE Crash
  <2>1. ASSUME NEW c \in Calls PROVE CallInv(c)'
    <3>1. /\ UNCHANGED <<op, uploads, unread, children>>
          /\ pc'[c] = IF Active(c) THEN "done" ELSE pc[c]
      BY <1>6 DEF Crash, progress
    <3>2. QED
      BY <1>1, <3>1, CallStays, CallOver
  <2>2. QED
    BY <2>1
<1>7. QED
  BY <1>3, <1>4, <1>5, <1>6 DEF Next, Quiescent

\* What a step does to the Action Cache and to the Puts on their way.
LEMMA ResultSteps ==
  ASSUME Inv, [Next]_vars
  PROVE  \/ UNCHANGED <<actionCache, late>>
         \/ \E put \in late : StoreResult(put) /\ late' = late \ {put} /\ UNCHANGED pc
         \/ \E c \in Calls :
              /\ pc[c] = "result" /\ pc'[c] = "done" /\ Local(c)
              /\ \/ StoreResult(PutOf(c)) /\ UNCHANGED late
                 \/ UNCHANGED actionCache /\ late' = late \cup {PutOf(c)}
<1>1. ASSUME NEW c \in Calls, Begin(c)
      PROVE  UNCHANGED <<actionCache, late>>
  BY <1>1 DEF Begin, BeginPut, BeginGet, results
<1>2. ASSUME NEW c \in Calls, UploadObject(c) \/ ReadRoot(c) \/ ReadChild(c) \/ UploadTree(c)
      PROVE  UNCHANGED <<actionCache, late>>
  BY <1>2 DEF UploadObject, ReadRoot, ReadChild, UploadTree, results
<1>3. ASSUME NEW c \in Calls, Ends(c)
      PROVE  \/ UNCHANGED <<actionCache, late>>
             \/ /\ pc[c] = "result" /\ pc'[c] = "done" /\ Local(c)
                /\ \/ StoreResult(PutOf(c)) /\ UNCHANGED late
                   \/ UNCHANGED actionCache /\ late' = late \cup {PutOf(c)}
  <2>1. pc'[c] = "done" /\ Local(c)
    BY <1>3, EndEffect, ReplyEffect, TypeEnds DEF Inv
  <2>2. QED
    BY <1>3, <2>1, EndRequests
<1>4. CASE LateResult
  BY <1>4 DEF LateResult
<1>5. CASE ClientUploads \/ Crash \/ UNCHANGED vars
  BY <1>5 DEF ClientUploads, Crash, results, vars
<1>6. QED
  BY <1>1, <1>2, <1>3, <1>4, <1>5 DEF Next, Step, Ends, Quiescent

\* What the Put of a call is made of.
LEMMA PutParts ==
  ASSUME NEW c
  PROVE  /\ PutOf(c).call = c /\ PutOf(c).ref = Ref(c) /\ PutOf(c).asset = op[c].asset
         /\ PutOf(c).children = children[c]
BY DEF PutOf

\* A Put that is supported reaches the Action Cache.
LEMMA StoreKeeps ==
  ASSUME ResultsAreSupported, cas \subseteq cas', NEW put \in StoredPut, StoreResult(put),
         Supported(put.ref, put.asset, put.children)
  PROVE  ResultsAreSupported'
<1>1. ASSUME NEW key \in DOMAIN actionCache'
      PROVE  \E w \in StoredPut : /\ key = ActionKey(w.ref)
                                  /\ actionCache'[key] = Result(w.asset, w.children)
                                  /\ Supported(w.ref, w.asset, w.children)'
  <2>1. CASE key = ActionKey(put.ref)
    BY <2>1, SupportStays DEF StoreResult
  <2>2. CASE key # ActionKey(put.ref)
    <3>1. key \in DOMAIN actionCache /\ actionCache'[key] = actionCache[key]
      BY <2>2 DEF StoreResult
    <3>2. QED
      BY <3>1, SupportStays DEF ResultsAreSupported
  <2>3. QED
    BY <2>1, <2>2
<1>2. QED
  BY <1>1 DEF ResultsAreSupported

\* What is in the Action Cache, or on its way there, is supported, and one
\* Put of a call at most is on its way.
LEMMA ResultsKeep ==
  ASSUME Inv, [Next]_vars
  PROVE  LateIsSupported' /\ ResultsAreSupported' /\ OneLatePutPerCall'
<1>1. /\ TypeOK /\ LateIsSupported /\ ResultsAreSupported /\ OneLatePutPerCall
      /\ cas \subseteq cas' /\ \A c \in Calls : CallInv(c)
  BY CASGrows DEF Inv
<1>2. \A put \in late : put \in StoredPut /\ put.call \in Calls
  BY <1>1 DEF TypeOK, StoredPut
<1>3. \A put \in late : Supported(put.ref, put.asset, put.children)'
  BY <1>1, SupportStays DEF LateIsSupported
<1>4. \A put \in late : pc'[put.call] = "done"
  <2>1. ASSUME NEW c \in Calls, pc[c] = "done" PROVE pc'[c] = "done"
    <3>1. ASSUME NEW d \in Calls, Begin(d) \/ Step(d)
          PROVE  pc'[c] = "done"
      <4>1. Local(d) /\ pc[d] # "done"
        BY <1>1, <3>1, TypeBegin, TypeOfStep DEF Active, Running
      <4>2. QED
        BY <2>1, <4>1 DEF Local
    <3>2. CASE LateResult \/ ClientUploads \/ Crash \/ UNCHANGED vars
      BY <2>1, <3>2 DEF LateResult, ClientUploads, Crash, vars, Active, Running
    <3>3. QED
      BY <3>1, <3>2 DEF Next, Quiescent
  <2>2. QED
    BY <1>1, <1>2, <2>1 DEF OneLatePutPerCall
<1>5. CASE UNCHANGED <<actionCache, late>>
  <2>1. ResultsAreSupported'
    BY <1>1, <1>5, SupportStays DEF ResultsAreSupported
  <2>2. QED
    BY <1>1, <1>3, <1>4, <1>5, <2>1 DEF LateIsSupported, OneLatePutPerCall
<1>6. ASSUME NEW put \in late, StoreResult(put), late' = late \ {put}
      PROVE  LateIsSupported' /\ ResultsAreSupported' /\ OneLatePutPerCall'
  <2>1. ResultsAreSupported'
    BY <1>1, <1>2, <1>6, StoreKeeps DEF LateIsSupported
  <2>2. QED
    BY <1>1, <1>3, <1>4, <1>6, <2>1 DEF LateIsSupported, OneLatePutPerCall
<1>7. ASSUME NEW c \in Calls, pc[c] = "result", pc'[c] = "done",
             \/ StoreResult(PutOf(c)) /\ UNCHANGED late
             \/ UNCHANGED actionCache /\ late' = late \cup {PutOf(c)}
      PROVE  LateIsSupported' /\ ResultsAreSupported' /\ OneLatePutPerCall'
  <2>1. PICK put \in StoredPut :
          put = PutOf(c) /\ put.call = c /\ Supported(put.ref, put.asset, put.children)
    BY <1>1, <1>7, PutType, PutParts DEF CallInv
  <2>2. \A other \in late : other.call # c
    BY <1>1, <1>7 DEF OneLatePutPerCall
  <2>3. Supported(put.ref, put.asset, put.children)'
    BY <1>1, <2>1, SupportStays
  <2>4. CASE StoreResult(put) /\ UNCHANGED late
    <3>1. ResultsAreSupported'
      BY <1>1, <2>1, <2>4, StoreKeeps
    <3>2. QED
      BY <1>1, <1>3, <1>4, <2>4, <3>1 DEF LateIsSupported, OneLatePutPerCall
  <2>5. CASE UNCHANGED actionCache /\ late' = late \cup {put}
    <3>1. ResultsAreSupported'
      BY <1>1, <2>5, SupportStays DEF ResultsAreSupported
    <3>2. OneLatePutPerCall'
      BY <1>1, <1>4, <1>7, <2>1, <2>2, <2>5 DEF OneLatePutPerCall
    <3>3. LateIsSupported'
      BY <1>3, <2>3, <2>5 DEF LateIsSupported
    <3>4. QED
      BY <3>1, <3>2, <3>3
  <2>6. QED
    BY <1>7, <2>1, <2>4, <2>5
<1>8. QED
  BY <1>5, <1>6, <1>7, ResultSteps

\* At the start nothing is stored and no call has begun.
LEMMA InitInv ==
  ASSUME Init
  PROVE  Inv
<1>1. DOMAIN actionCache = {} /\ late = {} /\ cas = {}
  BY DEF Init
<1>2. /\ << >> \in Seq(Uploadable) /\ << >> \in Seq(Digests) /\ << >> \in Seq(Directories)
  OBVIOUS
<1>3. /\ pc \in [Calls -> Running \cup {"idle", "done"}]
      /\ op \in [Calls -> Operations \cup {NoOperation}]
      /\ response \in [Calls -> Answer \cup {NoOperation}]
      /\ \A c \in Calls : pc[c] = "idle" /\ response[c] = NoOperation /\ children[c] = << >>
  BY DEF Init
<1>4. /\ uploads \in [Calls -> Seq(Uploadable)] /\ unread \in [Calls -> Seq(Digests)]
      /\ children \in [Calls -> Seq(Directories)]
  BY <1>2 DEF Init
<1>5. TypeOK
  BY <1>1, <1>3, <1>4 DEF TypeOK, Active, Running, Uploadable
<1>6. \A c \in Calls : CallInv(c)
  BY <1>3 DEF CallInv, Uploaded, DirectoriesAreRead
<1>7. LateIsSupported /\ ResultsAreSupported /\ OneLatePutPerCall
  BY <1>1 DEF LateIsSupported, ResultsAreSupported, OneLatePutPerCall
<1>8. QED
  BY <1>5, <1>6, <1>7 DEF Inv

\* Every step keeps the invariant.
LEMMA NextInv ==
  ASSUME Inv, [Next]_vars
  PROVE  Inv'
<1>1. TypeOK'
  BY TypeBegin, TypeOfStep, TypeEnvironment DEF Inv, Next, Quiescent
<1>2. QED
  BY <1>1, CallsKeep, ResultsKeep DEF Inv

\* The invariant holds in every state of the store, whatever calls overlap and
\* whichever of their requests fail.
THEOREM StoreInvariant == Spec => []Inv
<1>1. Init => Inv
  BY InitInv
<1>2. Inv /\ [Next]_vars => Inv'
  BY NextInv
<1>3. QED
  BY <1>1, <1>2, PTL DEF Spec

\* Every variable of the store holds a value of its kind, and a call has what
\* the step it is about to take works on.
THEOREM StoreTypeCorrect == Spec => []TypeOK
<1>1. Inv => TypeOK
  BY DEF Inv
<1>2. QED
  BY <1>1, StoreInvariant, PTL

\* What an entry for a supported Put mentions is in the CAS.
LEMMA SupportIsIntegrity ==
  ASSUME NEW put \in StoredPut, Supported(put.ref, put.asset, put.children)
  PROVE  LET key == ActionKey(put.ref)
             action == key.object
             result == Result(put.asset, put.children)
             Has(object) == [key EXCEPT !.object = object] \in cas
         IN  /\ Has(action) /\ Has(action.command)
             /\ action.inputRoot # EmptyDirectory =>
                  Has(action.inputRoot) /\ Has(action.inputRoot.assetReference)
             /\ result.type = "DIRECTORY" =>
                  /\ Has(result.tree)
                  /\ \A d \in {result.digest} \cup Range(result.tree.children) : Has(Content(d))
<1> DEFINE ref == put.ref
           key == ActionKey(ref)
           result == Result(put.asset, put.children)
           Has(object) == [key EXCEPT !.object = object] \in cas
<1>1. \A object : Key(ref, object) \in cas => Has(object)
  BY DEF ActionKey, Key
<1>2. /\ key.object = Action(ref) /\ Action(ref).command = Command(ref)
      /\ Action(ref).inputRoot = InputRoot(ref)
      /\ QualifierDirectory(ref).assetReference = QualifierReference(ref)
      /\ InputRoot(ref) # EmptyDirectory => InputRoot(ref) = QualifierDirectory(ref)
  BY DEF ActionKey, Key, Action, QualifierDirectory, InputRoot
<1>3. /\ Key(ref, Action(ref)) \in cas /\ Key(ref, Command(ref)) \in cas
      /\ Key(ref, QualifierDirectory(ref)) \in cas /\ Key(ref, QualifierReference(ref)) \in cas
  BY DEF Supported, ObjectsOf
<1>4. /\ result.digest = put.asset.digest /\ result.type = put.asset.type
      /\ result.type = "DIRECTORY" => /\ result.tree = Tree(put.asset.digest, put.children)
                                      /\ result.tree.children = put.children
  BY DEF Result, Tree
<1>5. Range(put.children) = {put.children[i] : i \in 1 .. Len(put.children)}
  <2>1. put.children \in Seq(Directories)
    BY DEF StoredPut
  <2>2. ASSUME NEW s \in Seq(Directories) PROVE Range(s) = {s[i] : i \in 1 .. Len(s)}
    BY DEF Range
  <2>3. QED
    BY <2>1, <2>2
<1>6. ASSUME put.asset.type = "DIRECTORY",
             NEW d \in {put.asset.digest} \cup Range(put.children)
      PROVE  Key(ref, Content(d)) \in cas
  BY <1>5, <1>6 DEF Supported, HasDirectories
<1>7. put.asset.type = "DIRECTORY" => Key(ref, Tree(put.asset.digest, put.children)) \in cas
  BY DEF Supported
<1> HIDE DEF key, result, Has
<1>8. /\ Has(key.object) /\ Has(key.object.command)
      /\ key.object.inputRoot # EmptyDirectory =>
           Has(key.object.inputRoot) /\ Has(key.object.inputRoot.assetReference)
  BY <1>1, <1>2, <1>3
<1>9. result.type = "DIRECTORY" =>
        /\ Has(result.tree)
        /\ \A d \in {result.digest} \cup Range(result.tree.children) : Has(Content(d))
  BY <1>1, <1>4, <1>6, <1>7
<1>10. QED
  BY <1>8, <1>9 DEF key, result, Has

\* Whatever Puts overlap, fail or die half way, an entry of the Action Cache
\* mentions only objects that are in the CAS: Put uploads them all before it
\* writes the entry, and a Put that was given up had uploaded its own.
THEOREM StoreReferentialIntegrity == Spec => []ReferentialIntegrity
<1>1. ASSUME Inv PROVE ReferentialIntegrity
  <2>1. ASSUME NEW key \in DOMAIN actionCache
        PROVE  \E put \in StoredPut : /\ key = ActionKey(put.ref)
                                      /\ actionCache[key] = Result(put.asset, put.children)
                                      /\ Supported(put.ref, put.asset, put.children)
    BY <1>1, <2>1 DEF Inv, ResultsAreSupported
  <2>2. QED
    BY <2>1, SupportIsIntegrity DEF ReferentialIntegrity
<1>2. QED
  BY <1>1, StoreInvariant, PTL

\* Whatever directories are nested, shared or read by other calls meanwhile,
\* the tree that a Put stores for a directory lists every directory below the
\* root, once for each place where it occurs.
THEOREM StoreTreeIsComplete == Spec => []TreeIsComplete
<1>1. ASSUME Inv PROVE TreeIsComplete
  <2>1. ASSUME NEW key \in DOMAIN actionCache, actionCache[key].type = "DIRECTORY"
        PROVE  LET tree == actionCache[key].tree
               IN  /\ tree.root = actionCache[key].digest
                   /\ \A d \in Digests :
                        Cardinality(At(tree.children, d))
                          = Cardinality(Places(Subdirectories, <<tree.root>> \o tree.children, d))
    <3>1. PICK put \in StoredPut : /\ actionCache[key] = Result(put.asset, put.children)
                                   /\ Supported(put.ref, put.asset, put.children)
      BY <1>1, <2>1 DEF Inv, ResultsAreSupported
    <3> DEFINE tree == actionCache[key].tree
    <3>2. /\ put.asset.type = "DIRECTORY" /\ actionCache[key].digest = put.asset.digest
          /\ tree.root = put.asset.digest /\ tree.children = put.children
      BY <2>1, <3>1 DEF Result, Tree
    <3>3. Complete(put.asset.digest, put.children, << >>)
      BY <3>1, <3>2 DEF Supported
    <3>4. put.children \in Seq(Directories)
      BY DEF StoredPut
    <3>5. ASSUME NEW d \in Digests
          PROVE  Count(put.children, d)
                   = Cardinality(Places(Subdirectories, <<put.asset.digest>> \o put.children, d))
      <4>1. Count(put.children, d) \in Nat /\ Count(<< >>, d) = 0
        BY <3>4, CountType, CountEmpty
      <4>2. Count(put.children, d) + Count(<< >>, d)
              = Cardinality(Places(Subdirectories, <<put.asset.digest>> \o put.children, d))
        BY <3>3 DEF Complete
      <4>3. QED
        BY <4>1, <4>2
    <3> HIDE DEF tree
    <3>6. QED
      BY <3>2, <3>5 DEF tree, Count
  <2>2. QED
    BY <2>1 DEF TreeIsComplete, At, Places
<1>2. QED
  BY <1>1, StoreInvariant, PTL

-----------------------------------------------------------------------------
(* Refinement                                                              *)

\* References whose actions are the same are the same.
LEMMA ActionsTellReferencesApart ==
  ASSUME NoQualifierIsIgnored, NEW o \in Operations, NEW p \in Operations,
         ActionKey(o.ref) = ActionKey(p.ref)
  PROVE  o.ref = p.ref
<1> DEFINE r == o.ref
           s == p.ref
<1>1. r \in Reference /\ s \in Reference
  BY OperationType
<1>2. r.instance = s.instance /\ r.function = s.function /\ Action(r) = Action(s)
  BY DEF ActionKey, Key
<1>3. Command(r) = Command(s) /\ InputRoot(r) = InputRoot(s)
  BY <1>2 DEF Action
<1>4. /\ Generated(r) => r.qualifiers \subseteq GeneratorOf(r) \cup InScript(r)
      /\ Generated(s) => s.qualifiers \subseteq GeneratorOf(s) \cup InScript(s)
  BY DEF NoQualifierIsIgnored
<1> HIDE DEF r, s
<1>5. /\ GeneratorOf(r) \cup InScript(r) \subseteq r.qualifiers
      /\ GeneratorOf(s) \cup InScript(s) \subseteq s.qualifiers
  BY DEF GeneratorOf, InScript
<1>6. Generated(r) <=> Generated(s)
  BY <1>3 DEF Command
<1>7. r.uris = s.uris /\ r.qualifiers = s.qualifiers
  <2>1. CASE Generated(r)
    <3>1. r.uris = s.uris /\ GeneratorOf(r) = GeneratorOf(s) /\ InScript(r) = InScript(s)
      BY <1>3, <1>6, <2>1 DEF Command
    <3>2. QED
      BY <1>4, <1>5, <1>6, <2>1, <3>1
  <2>2. CASE ~ Generated(r)
    BY <1>3, <1>6, <2>2 DEF Command, InputRoot, QualifierDirectory, QualifierReference
  <2>3. QED
    BY <2>1, <2>2
<1>8. QED
  BY <1>1, <1>2, <1>7 DEF Reference, r, s

\* The variables of the AssetStore.
StoreBar == [r \in Visible |-> AssetOf(actionCache[ActionKey(r)])]

Image(put) == [call |-> put.call, ref |-> put.ref, asset |-> put.asset]

PendingBar == {[call |-> put.call, ref |-> put.ref, asset |-> put.asset] : put \in late}

RunningBar == [c \in Calls |-> IF Active(c) THEN op[c] ELSE NoOperation]

\* A result that is stored is an assignment of the asset to its reference.
LEMMA StoreBarAssigned ==
  ASSUME NoQualifierIsIgnored, NEW put \in StoredPut, StoreResult(put)
  PROVE  Store!Assign(put.ref, put.asset)
<1>1. PICK o \in Operations : put.ref = o.ref
  BY DEF StoredPut
<1>2. put.asset \in StoredAsset
  BY DEF StoredPut
<1> DEFINE refs == {p.ref : p \in Operations}
           new == AssetOf(Result(put.asset, put.children))
<1>3. \A r \in refs : ActionKey(r) = ActionKey(put.ref) => r = put.ref
  BY <1>1, ActionsTellReferencesApart
<1>4. new = [put.asset EXCEPT !.expire = 0]
  BY <1>2, ResultType
<1>5. /\ DOMAIN actionCache' = DOMAIN actionCache \cup {ActionKey(put.ref)}
      /\ actionCache'[ActionKey(put.ref)] = Result(put.asset, put.children)
      /\ \A key \in DOMAIN actionCache : key # ActionKey(put.ref) =>
           actionCache'[key] = actionCache[key]
  BY DEF StoreResult
<1>6. Visible' = Visible \cup {put.ref}
  BY <1>1, <1>3, <1>5 DEF Visible
<1>7. StoreBar' = [r \in Visible' |-> IF r = put.ref THEN new ELSE AssetOf(actionCache[ActionKey(r)])]
  <2>1. ASSUME NEW r \in Visible'
        PROVE  AssetOf(actionCache'[ActionKey(r)])
                 = IF r = put.ref THEN new ELSE AssetOf(actionCache[ActionKey(r)])
    <3>1. CASE r = put.ref
      BY <1>5, <3>1
    <3>2. CASE r # put.ref
      <4>1. r \in refs /\ ActionKey(r) \in DOMAIN actionCache /\ ActionKey(r) # ActionKey(put.ref)
        BY <1>3, <1>6, <3>2 DEF Visible
      <4>2. QED
        BY <1>5, <3>2, <4>1
    <3>3. QED
      BY <3>1, <3>2
  <2>2. StoreBar' = [r \in Visible' |-> AssetOf(actionCache'[ActionKey(r)])]
    BY DEF StoreBar, AssetOf
  <2> HIDE DEF new
  <2>3. QED
    BY <2>1, <2>2
<1>8. StoreBar' = [x \in Visible \cup {put.ref} |->
                     IF x = put.ref THEN [put.asset EXCEPT !.expire = 0] ELSE StoreBar[x]]
  <2> HIDE DEF new
  <2>1. \A r \in Visible : AssetOf(actionCache[ActionKey(r)]) = StoreBar[r]
    BY DEF StoreBar
  <2>2. QED
    BY <1>4, <1>6, <1>7, <2>1
<1>9. QED
  BY <1>8 DEF Store!Assign, Store!Retained, StoreBar

\* Nothing that callers can see of the store changes.
LEMMA BarSame ==
  /\ UNCHANGED actionCache => UNCHANGED StoreBar
  /\ UNCHANGED late => UNCHANGED PendingBar
  /\ UNCHANGED <<pc, op>> => UNCHANGED RunningBar
BY DEF StoreBar, Visible, AssetOf, PendingBar, RunningBar, Active

\* The operation that the AssetStore runs for a call.
LEMMA BarType ==
  ASSUME TypeOK, NEW c \in Calls
  PROVE  /\ Active(c) => RunningBar[c] = op[c] /\ RunningBar[c] # NoOperation
         /\ ~ Active(c) => RunningBar[c] = NoOperation
BY RunningType, OperationType DEF RunningBar

\* A step that ends a call removes its operation.
LEMMA BarEnds ==
  ASSUME TypeOK, NEW c \in Calls, Local(c), Active(c), NEW m \in Answer, Reply(c, m)
  PROVE  /\ RunningBar' = [RunningBar EXCEPT ![c] = NoOperation]
         /\ response' = [response EXCEPT ![c] = m]
<1>1. pc'[c] = "done"
  BY ReplyEffect
<1>2. RunningBar' = [RunningBar EXCEPT ![c] = NoOperation]
  BY <1>1 DEF RunningBar, Local, Active, Running
<1>3. QED
  BY <1>2 DEF Reply

\* An answer that is an error, or the bare OK of a Put.
LEMMA BarEndsWith ==
  ASSUME TypeOK, NEW c \in Calls, Local(c), Active(c), NEW code \in Codes, Reply(c, Code(code))
  PROVE  Store!End(c, code)
<1>1. Code(code) \in Answer
  BY AnswerType
<1>2. /\ RunningBar' = [RunningBar EXCEPT ![c] = NoOperation]
      /\ response' = [response EXCEPT ![c] = [code |-> code]]
  BY <1>1, BarEnds DEF Code
<1>3. QED
  BY <1>2 DEF Store!End, RunningBar, NoOperation, Store!NoOperation

\* A Put is given up: it is on its way ...
LEMMA PendingAdded ==
  ASSUME NEW c, late' = late \cup {PutOf(c)}
  PROVE  PendingBar' = PendingBar \cup {[call |-> c, ref |-> op[c].ref, asset |-> op[c].asset]}
<1>1. Image(PutOf(c)) = [call |-> c, ref |-> op[c].ref, asset |-> op[c].asset]
  BY PutParts DEF Image, Ref
<1>2. PendingBar = {Image(put) : put \in late} /\ PendingBar' = {Image(put) : put \in late'}
  BY DEF PendingBar, Image
<1>3. QED
  BY <1>1, <1>2

\* ... until it arrives.
LEMMA PendingArrives ==
  ASSUME OneLatePutPerCall, NEW put \in late, late' = late \ {put}
  PROVE  PendingBar' = PendingBar \ {Image(put)} /\ Image(put) \in PendingBar
<1>1. PendingBar = {Image(p) : p \in late} /\ PendingBar' = {Image(p) : p \in late'}
  BY DEF PendingBar, Image
<1>2. \A p \in late : Image(p) = Image(put) => p = put
  BY DEF OneLatePutPerCall, Image
<1>3. QED
  BY <1>1, <1>2

\* A call that begins.
LEMMA StoreBeginImplements ==
  ASSUME Inv, NEW c \in Calls, Begin(c)
  PROVE  Store!Next
<1>1. /\ TypeOK /\ Local(c) /\ pc[c] = "idle" /\ op'[c] \in Operations
      /\ pc'[c] \in {"upload", "lookup"}
      /\ UNCHANGED <<actionCache, late, response>>
  <2>1. TypeOK /\ pc \in [Calls -> Running \cup {"idle", "done"}]
    BY DEF Inv, TypeOK
  <2>2. QED
    BY <2>1, TypeBegin DEF results
<1>2. ~ Active(c) /\ response[c] = NoOperation
  BY <1>1 DEF TypeOK, Active, Running
<1>3. RunningBar[c] = NoOperation
  BY <1>1, <1>2, BarType
<1>4. RunningBar' = [RunningBar EXCEPT ![c] = op'[c]]
  BY <1>1 DEF RunningBar, Local, Active, Running
<1>5. \E o \in Operations : RunningBar' = [RunningBar EXCEPT ![c] = o]
  BY <1>1, <1>4
<1>6. UNCHANGED <<StoreBar, PendingBar, response>>
  BY <1>1, BarSame
<1>7. Store!Begin(c)
  BY <1>2, <1>3, <1>5, <1>6
  DEF Store!Begin, StoreBar, PendingBar, RunningBar, NoOperation, Store!NoOperation
<1>8. QED
  BY <1>7 DEF Store!Next

\* A Put that ends without an effect on the Action Cache.
LEMMA StoreRejectImplements ==
  ASSUME TypeOK, NEW c \in Calls, Local(c), Active(c), pc[c] # "lookup",
         NEW code \in {"InvalidArgument", "NotFound", "Unavailable"}, Reply(c, Code(code)),
         UNCHANGED <<actionCache, late>>
  PROVE  Store!Next
<1>1. RunningBar[c].op = "Put"
  BY BarType, RunningType
<1>2. UNCHANGED <<StoreBar, PendingBar>>
  BY BarSame
<1>3. Store!End(c, code)
  BY BarEndsWith DEF Codes
<1>4. Store!PutRejected(c) \/ Store!PutUnavailable(c)
  BY <1>1, <1>2, <1>3 DEF Store!PutRejected, Store!PutUnavailable, StoreBar, PendingBar, RunningBar
<1>5. QED
  BY <1>4 DEF Store!Next

\* A Put whose result is stored, with an OK or with an error.
LEMMA StorePutImplements ==
  ASSUME NoQualifierIsIgnored, TypeOK, NEW c \in Calls, Local(c), pc[c] = "result",
         NEW code \in {"OK", "Unavailable"}, Reply(c, Code(code)),
         StoreResult(PutOf(c)), UNCHANGED late
  PROVE  Store!Next
<1>1. Active(c)
  BY DEF Active, Running
<1>2. RunningBar[c].op = "Put" /\ RunningBar[c] = op[c]
  BY <1>1, BarType, RunningType
<1>3. Store!Assign(op[c].ref, op[c].asset)
  <2>1. PutOf(c) \in StoredPut /\ PutOf(c).ref = op[c].ref /\ PutOf(c).asset = op[c].asset
    BY PutType, PutParts DEF Ref
  <2>2. QED
    BY <2>1, StoreBarAssigned
<1>4. UNCHANGED PendingBar
  BY BarSame
<1>5. Store!End(c, code)
  BY <1>1, BarEndsWith DEF Codes
<1>6. Store!Assign(RunningBar[c].ref, RunningBar[c].asset)
  BY <1>2, <1>3
<1>7. Store!Put(c) \/ Store!PutUnavailable(c)
  BY <1>2, <1>4, <1>5, <1>6 DEF Store!Put, Store!PutUnavailable, PendingBar, RunningBar
<1>8. QED
  BY <1>7 DEF Store!Next

\* A Put that is given up and may arrive later.
LEMMA StoreGiveUpImplements ==
  ASSUME TypeOK, NEW c \in Calls, Local(c), pc[c] = "result", Reply(c, Code("Unavailable")),
         UNCHANGED actionCache, late' = late \cup {PutOf(c)}
  PROVE  Store!Next
<1>1. Active(c)
  BY DEF Active, Running
<1>2. RunningBar[c].op = "Put" /\ RunningBar[c] = op[c]
  BY <1>1, BarType, RunningType
<1>3. PendingBar' = PendingBar \cup {[call |-> c, ref |-> RunningBar[c].ref,
                                      asset |-> RunningBar[c].asset]}
  BY <1>2, PendingAdded
<1>4. UNCHANGED StoreBar
  BY BarSame
<1>5. Store!End(c, "Unavailable")
  BY <1>1, BarEndsWith DEF Codes
<1>6. Store!PutUnavailable(c)
  BY <1>2, <1>3, <1>4, <1>5 DEF Store!PutUnavailable, StoreBar, PendingBar, RunningBar
<1>7. QED
  BY <1>6 DEF Store!Next

\* A Get.
LEMMA StoreGetImplements ==
  ASSUME TypeOK, NEW c \in Calls, Local(c), Lookup(c) \/ LookupFails(c)
  PROVE  Store!Next
<1>1. Active(c) /\ pc[c] = "lookup" /\ UNCHANGED <<actionCache, late>>
  BY DEF Lookup, LookupFails, Active, Running, results
<1>2. /\ RunningBar[c].op = "Get" /\ RunningBar[c] = op[c]
      /\ op[c].ref \in {o.ref : o \in Operations}
  BY <1>1, BarType, RunningType DEF TypeOK, Ref
<1>3. UNCHANGED <<StoreBar, PendingBar>>
  BY <1>1, BarSame
<1>4. DOMAIN StoreBar = Visible /\ (op[c].ref \in Visible <=> ActionKey(Ref(c)) \in DOMAIN actionCache)
  BY <1>2 DEF StoreBar, Visible, Ref
<1>5. CASE LookupFails(c)
  <2>1. Store!End(c, "NotFound")
    BY <1>1, <1>5, BarEndsWith DEF LookupFails, Codes
  <2>2. RunningBar[c].ref \notin DOMAIN StoreBar
    BY <1>2, <1>4, <1>5 DEF LookupFails
  <2>3. Store!GetNothing(c)
    BY <1>2, <1>3, <2>1, <2>2 DEF Store!GetNothing, StoreBar, PendingBar, RunningBar
  <2>4. QED
    BY <2>3 DEF Store!Next
<1>6. CASE Lookup(c)
  <2> DEFINE result == actionCache[ActionKey(Ref(c))]
             answer == [code |-> "OK", asset |-> AssetOf(result)]
  <2>1. /\ RunningBar[c].ref \in DOMAIN StoreBar
        /\ StoreBar[RunningBar[c].ref] = AssetOf(result)
        /\ AssetOf(result) \in StoredAsset /\ AssetOf(result).digest = result.digest
    BY <1>2, <1>4, <1>6 DEF Lookup, StoreBar, TypeOK, Ref, AssetOf
  <2>2. IF result.digest = NoDigest THEN Reply(c, Code("InvalidArgument")) ELSE Reply(c, answer)
    BY <1>6 DEF Lookup
  <2>3. CASE result.digest = NoDigest
    <3>1. Store!End(c, "InvalidArgument")
      BY <1>1, <2>2, <2>3, BarEndsWith DEF Codes
    <3>2. StoreBar[RunningBar[c].ref].digest \notin Digests
      BY <2>1, <2>3, DirectoriesAssumption
    <3>3. Store!GetUnusable(c)
      BY <1>2, <1>3, <2>1, <3>1, <3>2 DEF Store!GetUnusable, StoreBar, PendingBar, RunningBar
    <3>4. QED
      BY <3>3 DEF Store!Next
  <2>4. CASE result.digest # NoDigest
    <3>1. answer \in Answer /\ Reply(c, answer)
      BY <2>1, <2>2, <2>4, AnswerType
    <3>2. StoreBar[RunningBar[c].ref].digest \in Digests
      BY <2>1, <2>4 DEF StoredAsset
    <3>3. /\ RunningBar' = [RunningBar EXCEPT ![c] = NoOperation]
          /\ response' = [response EXCEPT ![c] =
                            [code |-> "OK", asset |-> StoreBar[RunningBar[c].ref]]]
      BY <1>1, <2>1, <3>1, BarEnds
    <3>4. Store!Get(c)
      BY <1>2, <1>3, <2>1, <3>2, <3>3
      DEF Store!Get, StoreBar, PendingBar, RunningBar, NoOperation, Store!NoOperation
    <3>5. QED
      BY <3>4 DEF Store!Next
  <2>5. QED
    BY <2>3, <2>4
<1>7. QED
  BY <1>5, <1>6

\* A Get that finds the Action Cache unavailable.
LEMMA StoreGetFailsImplements ==
  ASSUME TypeOK, NEW c \in Calls, Local(c), pc[c] = "lookup", Reply(c, Code("Unavailable")),
         UNCHANGED <<actionCache, late>>
  PROVE  Store!Next
<1>1. Active(c)
  BY DEF Active, Running
<1>2. RunningBar[c].op = "Get"
  BY <1>1, BarType DEF TypeOK
<1>3. UNCHANGED <<StoreBar, PendingBar>>
  BY BarSame
<1>4. Store!End(c, "Unavailable")
  BY <1>1, BarEndsWith DEF Codes
<1>5. Store!GetUnavailable(c)
  BY <1>2, <1>3, <1>4 DEF Store!GetUnavailable, StoreBar, PendingBar, RunningBar
<1>6. QED
  BY <1>5 DEF Store!Next

\* Every step of a call is one of the AssetStore, or none that callers see.
LEMMA StoreStepImplements ==
  ASSUME NoQualifierIsIgnored, Inv, NEW c \in Calls, Step(c)
  PROVE  Store!Next \/ UNCHANGED <<StoreBar, PendingBar, RunningBar, response>>
<1>1. TypeOK /\ Local(c) /\ Active(c) /\ UNCHANGED op
  BY TypeOfStep DEF Inv
<1>2. CASE UploadObject(c) \/ ReadRoot(c) \/ ReadChild(c) \/ UploadTree(c)
  <2>1. UNCHANGED <<actionCache, late, response>>
    BY <1>2 DEF UploadObject, ReadRoot, ReadChild, UploadTree, results
  <2>2. Active(c)'
    BY <1>1, <1>2 DEF UploadObject, ReadRoot, ReadChild, UploadTree, Goto, Active, Running, TypeOK
  <2>3. UNCHANGED RunningBar
    BY <1>1, <2>2 DEF RunningBar, Local, Active
  <2>4. QED
    BY <2>1, <2>3, BarSame
<1>3. CASE NotADirectory(c)
  <2>1. /\ Reply(c, Code("NotFound")) \/ Reply(c, Code("InvalidArgument"))
        /\ pc[c] # "lookup" /\ UNCHANGED <<actionCache, late>>
    BY <1>3 DEF NotADirectory, results
  <2>2. QED
    BY <1>1, <2>1, StoreRejectImplements
<1>4. CASE ChildMissing(c)
  <2>1. Reply(c, Code("InvalidArgument")) /\ pc[c] # "lookup" /\ UNCHANGED <<actionCache, late>>
    BY <1>4 DEF ChildMissing, results
  <2>2. QED
    BY <1>1, <2>1, StoreRejectImplements
<1>5. CASE PutResult(c)
  <2>1. pc[c] = "result" /\ Reply(c, Code("OK")) /\ StoreResult(PutOf(c)) /\ UNCHANGED late
    BY <1>5 DEF PutResult
  <2>2. QED
    BY <1>1, <2>1, StorePutImplements
<1>6. CASE Lookup(c) \/ LookupFails(c)
  BY <1>1, <1>6, StoreGetImplements
<1>7. CASE CASFails(c)
  <2>1. /\ Reply(c, Code("InvalidArgument")) \/ Reply(c, Code("Unavailable"))
        /\ pc[c] # "lookup" /\ UNCHANGED <<actionCache, late>>
    BY <1>7 DEF CASFails, results
  <2>2. QED
    BY <1>1, <2>1, StoreRejectImplements
<1>8. CASE ActionCacheFails(c)
  <2>1. /\ Reply(c, Code("Unavailable"))
        /\ \/ pc[c] = "result" /\ StoreResult(PutOf(c)) /\ UNCHANGED late
           \/ pc[c] = "result" /\ UNCHANGED <<actionCache, late>>
           \/ pc[c] = "lookup" /\ UNCHANGED <<actionCache, late>>
           \/ pc[c] = "result" /\ late' = late \cup {PutOf(c)} /\ UNCHANGED actionCache
    BY <1>8 DEF ActionCacheFails, results
  <2>2. CASE pc[c] = "result" /\ StoreResult(PutOf(c)) /\ UNCHANGED late
    BY <1>1, <2>1, <2>2, StorePutImplements
  <2>3. CASE pc[c] = "result" /\ UNCHANGED <<actionCache, late>>
    BY <1>1, <2>1, <2>3, StoreRejectImplements
  <2>4. CASE pc[c] = "lookup" /\ UNCHANGED <<actionCache, late>>
    BY <1>1, <2>1, <2>4, StoreGetFailsImplements
  <2>5. CASE pc[c] = "result" /\ late' = late \cup {PutOf(c)} /\ UNCHANGED actionCache
    BY <1>1, <2>1, <2>5, StoreGiveUpImplements
  <2>6. QED
    BY <2>1, <2>2, <2>3, <2>4, <2>5
<1>9. QED
  BY <1>2, <1>3, <1>4, <1>5, <1>6, <1>7, <1>8 DEF Step

\* A Put that was given up arrives.
LEMMA StoreLateImplements ==
  ASSUME NoQualifierIsIgnored, Inv, LateResult
  PROVE  Store!Next
<1>1. PICK put \in late : StoreResult(put) /\ late' = late \ {put}
  BY DEF LateResult
<1>2. put \in StoredPut /\ OneLatePutPerCall
  BY <1>1 DEF Inv, TypeOK
<1>3. Store!Assign(put.ref, put.asset)
  BY <1>1, <1>2, StoreBarAssigned
<1>4. PendingBar' = PendingBar \ {Image(put)} /\ Image(put) \in PendingBar
  BY <1>1, <1>2, PendingArrives
<1>5. Image(put).ref = put.ref /\ Image(put).asset = put.asset
  BY DEF Image
<1>6. UNCHANGED <<RunningBar, response>>
  BY BarSame DEF LateResult
<1>7. \E w \in PendingBar : Store!Assign(w.ref, w.asset) /\ PendingBar' = PendingBar \ {w}
  BY <1>3, <1>4, <1>5
<1>8. Store!LatePut
  BY <1>6, <1>7 DEF Store!LatePut, PendingBar, RunningBar
<1>9. QED
  BY <1>8 DEF Store!Next

\* The process dies.
LEMMA StoreCrashImplements ==
  ASSUME Inv, Crash
  PROVE  Store!Next
<1>1. TypeOK /\ (\E c \in Calls : Active(c)) /\ UNCHANGED <<actionCache, late, op>>
  BY DEF Inv, Crash, results
<1>2. \E c \in Calls : RunningBar[c] # NoOperation
  BY <1>1, BarType
<1>3. RunningBar' = [c \in Calls |-> NoOperation]
  <2>1. \A c \in Calls : pc'[c] \notin Running
    BY DEF Crash, Active, Running
  <2>2. QED
    BY <2>1 DEF RunningBar, Active
<1>4. response' = [c \in Calls |-> IF RunningBar[c] = NoOperation THEN response[c]
                                   ELSE [code |-> "Unavailable"]]
  <2>1. \A c \in Calls : RunningBar[c] = NoOperation <=> ~ Active(c)
    BY <1>1, BarType
  <2>2. QED
    BY <2>1 DEF Crash, Code
<1>5. UNCHANGED <<StoreBar, PendingBar>>
  BY <1>1, BarSame
<1>6. Store!Crash
  BY <1>2, <1>3, <1>4, <1>5
  DEF Store!Crash, StoreBar, PendingBar, RunningBar, NoOperation, Store!NoOperation
<1>7. QED
  BY <1>6 DEF Store!Next

\* The Action Cache store keeps the promise of the AssetStore interface as
\* long as no command ignores a qualifier: a Put takes effect at once, whatever
\* it has to upload first and whatever calls overlap, fails or dies, and a Get
\* returns what the last Put of its reference stored.
THEOREM StoreImplementsAssetStore ==
  ASSUME NoQualifierIsIgnored
  PROVE  Spec => ImplementsAssetStore
<1>1. Init => Store!Init
  <2>1. ASSUME Init PROVE DOMAIN actionCache = {} /\ Visible = {}
    BY <2>1 DEF Init, Visible
  <2>2. QED
    BY <2>1 DEF Init, Store!Init, NoOperation, Store!NoOperation, Active, Running
<1>2. Inv /\ [Next]_vars => [Store!Next]_<<StoreBar, PendingBar, RunningBar, response>>
  <2> SUFFICES ASSUME Inv, Next \/ UNCHANGED vars
               PROVE  Store!Next \/ UNCHANGED <<StoreBar, PendingBar, RunningBar, response>>
    OBVIOUS
  <2>1. CASE ClientUploads \/ UNCHANGED vars
    <3>1. UNCHANGED <<actionCache, late, pc, op, response>>
      BY <2>1 DEF ClientUploads, vars, results
    <3>2. QED
      BY <3>1, BarSame
  <2>2. QED
    BY <2>1, StoreBeginImplements, StoreStepImplements, StoreLateImplements, StoreCrashImplements
    DEF Next, Quiescent
<1>3. QED
  BY <1>1, <1>2, StoreInvariant, PTL
  DEF Spec, ImplementsAssetStore, Store!Spec, StoreBar, PendingBar, RunningBar
===============================================================================
