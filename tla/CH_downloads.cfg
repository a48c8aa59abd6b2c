CONSTANTS
  c1 = c1
  c2 = c2
  a = a
  b = b
  Uris <- MCUris
  Qualifiers <- MCQualifiers
  VolatileQualifiers <- MCVolatile
  SupportedQualifiers <- MCQualifiers
  Instances = {"main"}
  DigestFunctions = {"SHA256"}
  Digests = {a, b}
  HashFunction <- MCHashFunction
  Calls = {c1, c2}
  Requests <- MCRequests
  FetchAuthorized = {"main"}
  PushAuthorized = {"main"}
  AllowUpdates = {"main"}
  Backends = {"blobAccess", "none"}
  Generators = {}
  ScriptQualifiers <- MCScriptQualifiers
  InvalidTimes = {}
  UpstreamErrors <- MCErrors
  Faults = {"put", "late", "crash"}
  MaxTime = 2
  Expected <- MCExpected
  EmptyHash = {}
  Malformed = {}
  Headers <- MCHeaders
SPECIFICATION JointFairSpec
INVARIANTS
  MissIsJustified
  AnswersAreVerified
  HeadersReachTheirMirror
PROPERTIES
  ImplementsHttpFetcher
  CallsComplete
