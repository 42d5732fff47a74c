SPECIFICATION Spec
CONSTANTS
  c1 = c1
  c2 = c2
  NoCaller = NoCaller
  Callers = {c1, c2}
  Configurations <- Compressing
  MaxEntries = 2
  PackageTtl = 1
  CacheEntries = 1
  CacheTtl = 1
INVARIANTS
  ParsersAgree
