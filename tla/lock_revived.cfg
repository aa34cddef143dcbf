SPECIFICATION Spec
CONSTANTS
  o1 = o1  o2 = o2
  NoOwner = NoOwner
  Owner <- MCOwners2
  Path = {"d", "c"}
  Anc <- MCAnc
  Files = {}
  InitDirs = {}
  Batches <- MCBatchesFew
  LeaseId = {1}
  Provider = "filesystem"
  Crashable = {}
  Stallable <- MCOwners2
  Patient = {}
INVARIANT WriteExclusive
