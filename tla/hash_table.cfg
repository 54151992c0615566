SPECIFICATION Spec
CONSTANTS
  Key <- MCKey
  Value <- MCValue
  Null = Null
  Hash <- MCHash
  Primes <- MCPrimes
  Faults = {"table", "entry"}
INVARIANTS Hashed IterationComplete
PROPERTY IsDict
