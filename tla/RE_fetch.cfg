CONSTANTS
  c1 = c1
  c2 = c2
  tree = tree
  root = root
  leaf = leaf
  blob = blob
  empty = empty
  Uris <- MCUris
  Qualifiers <- MCQualifiers
  VolatileQualifiers = {}
  SupportedQualifiers <- MCQualifiers
  Instances = {"main"}
  DigestFunctions = {"SHA256"}
  Digests = {tree, root, leaf, blob, empty}
  HashFunction <- MCHashFunction
  Calls = {c1, c2}
  Requests <- MCRequests
  Generators = {"application/x-git"}
  EmptyBlobs = {empty}
  Nothing = Nothing
  Trees <- MCTrees
  Results <- MCResults
  Faults = {"cas", "execution", "crash"}
SPECIFICATION FairSpec
INVARIANTS
  TypeOK
  ExecutedActionsAreStored
  FetchedDirectoryIsComplete
PROPERTIES
  ImplementsUpstream
  FetchesEnd
