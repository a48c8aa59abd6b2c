CONSTANTS
  c1 = c1
  c2 = c2
  c3 = c3
  a = a
  b = b
  x = x
  Uris <- MCUris
  Qualifiers <- MCQualifiers
  VolatileQualifiers <- MCVolatileQualifiers
  SupportedQualifiers <- MCSupportedQualifiers
  Instances <- MCInstances
  DigestFunctions <- MCDigestFunctions
  Digests = {a, b}
  HashFunction <- MCHashFunction
  Calls = {c1, c2, c3}
  Requests <- Contending
  FetchAuthorized = {"main", "readonly"}
  PushAuthorized = {"main"}
  AllowUpdates = {"main", "readonly"}
  Backends = {"blobAccess", "actionCache"}
  Generators <- MCGenerators
  ScriptQualifiers <- MCScriptQualifiers
  InvalidTimes = {3}
  UpstreamErrors = {"NotFound"}
  Faults = {"put", "late", "crash"}
  MaxTime = 2
SPECIFICATION Spec
SYMMETRY MCSymmetry
INVARIANTS
  MissIsJustified
  HitIsCurrent
  HitRespectsRealTime
