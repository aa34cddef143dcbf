SPECIFICATION Spec
CONSTANTS
  o1 = o1  o2 = o2
  NoOwner = NoOwner
  Owner <- MCOwners2
  Path = {"d", "c"}
  Anc <- MCAnc
  Files = {}
  InitDirs = {}
  Batches <- MCBatches
  LeaseId = {1, 2}
  Provider = "memory"
  Crashable = {}
  Stallable = {}
  Patient = {}
SYMMETRY Symmetry2
INVARIANTS MutualExclusion TokensMatchLeases
PROPERTY TokenKept
