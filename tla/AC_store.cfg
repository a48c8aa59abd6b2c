CONSTANTS
  c1 = c1
  c2 = c2
  root = root
  sub = sub
  leaf = leaf
  blob = blob
  other = other
  Uris <- MCUris
  Qualifiers <- MCQualifiers
  VolatileQualifiers = {}
  SupportedQualifiers <- MCQualifiers
  Instances <- MCInstances
  DigestFunctions <- MCDigestFunctions
  Digests = {root, sub, leaf, blob, other}
  HashFunction <- MCHashFunction
  Calls = {c1, c2}
  Operations <- Mixed
  NoDigest = NoDigest
  Directories = {root, sub, leaf, other}
  Subdirectories <- MCSubdirectories
  Generators <- MCGenerators
  ScriptQualifiers <- MCScriptQualifiers
  Faults = {"cas", "actionCache", "crash"}
SPECIFICATION Spec
SYMMETRY MCSymmetry
INVARIANTS
  TypeOK
  ReferentialIntegrity
  TreeIsComplete
PROPERTY ImplementsAssetStore
