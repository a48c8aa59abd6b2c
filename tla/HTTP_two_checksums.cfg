CONSTANTS
  c1 = c1
  c2 = c2
  a = a
  b = b
  x = x
  Uris <- MCUris
  Qualifiers <- MCQualifiers
  VolatileQualifiers = {}
  SupportedQualifiers <- MCQualifiers
  Instances = {"main"}
  DigestFunctions <- MCDigestFunctions
  Digests = {a, b, x}
  HashFunction <- MCHashFunction
  Calls = {c1}
  Requests <- TwoChecksums
  Expected <- MCExpected
  EmptyHash = {"sri of nothing"}
  Malformed <- MCMalformed
  Headers <- MCHeaders
  Faults = {}
SPECIFICATION Spec
INVARIANT MultipleChecksumsRefused
