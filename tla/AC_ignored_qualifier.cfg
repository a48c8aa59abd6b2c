CONSTANTS
  c1 = c1
  c2 = c2
  root = root
  sub = sub
  leaf = leaf
  blob = blob
  other = other
  Uris <- MCUris
  Qualifiers <- MCQualifiers
  VolatileQualifiers = {}
  SupportedQualifiers <- MCQualifiers
  Instances <- MCInstances
  DigestFunctions <- MCDigestFunctions
  Digests = {root, sub, leaf, blob, other}
  HashFunction <- MCHashFunction
  Calls = {c1, c2}
  Operations <- Ignored
  NoDigest = NoDigest
  Directories = {root, sub, leaf, other}
  Subdirectories <- MCSubdirectories
  Generators <- MCGenerators
  ScriptQualifiers <- MCScriptQualifiers
  Faults = {}
SPECIFICATION Spec
SYMMETRY MCSymmetry
INVARIANT QualifiersAllMatch
