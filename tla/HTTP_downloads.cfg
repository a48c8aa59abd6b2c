CONSTANTS
  c1 = c1
  c2 = c2
  a = a
  b = b
  x = x
  Uris <- MCUris
  Qualifiers <- MCQualifiers
  VolatileQualifiers = {}
  SupportedQualifiers <- MCQualifiers
  Instances = {"main"}
  DigestFunctions <- MCDigestFunctions
  Digests = {a, b, x}
  HashFunction <- MCHashFunction
  Calls = {c1, c2}
  Requests <- Downloads
  Expected <- MCExpected
  EmptyHash = {"sri of nothing"}
  Malformed <- MCMalformed
  Headers <- MCHeaders
  Faults = {"crash"}
SPECIFICATION Spec
SYMMETRY MCSymmetry
INVARIANTS
  TypeOK
  StoredIsVerified
  TriesEveryUri
  NoTemporaryFiles
  OpenBodiesAreErrors
  HeadersStayWithTheirUri
PROPERTY ImplementsUpstream
