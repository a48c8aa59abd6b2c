CONSTANTS
  c1 = c1
  c2 = c2
  c3 = c3
  a = a
  b = b
  x = x
  Uris <- MCUris
  Qualifiers <- MCQualifiers
  VolatileQualifiers <- MCVolatileQualifiers
  SupportedQualifiers <- MCSupportedQualifiers
  Instances <- MCInstances
  DigestFunctions <- MCDigestFunctions
  Digests = {a}
  HashFunction <- MCHashFunction
  Calls = {c1, c2}
  Requests <- Expiring
  FetchAuthorized = {"main", "readonly"}
  PushAuthorized = {"main"}
  AllowUpdates = {"main", "readonly"}
  Backends = {"actionCache"}
  Generators <- MCGenerators
  ScriptQualifiers <- MCScriptQualifiers
  InvalidTimes = {3}
  UpstreamErrors = {"NotFound"}
  Faults = {}
  MaxTime = 2
SPECIFICATION Spec
INVARIANT HitIsUnexpired
