SPECIFICATION FairSpec
CONSTANTS
  o1 = o1  o2 = o2
  NoOwner = NoOwner
  Owner <- MCOwners2
  Path = {"d", "c"}
  Anc <- MCAnc
  Files = {"c"}
  InitDirs = {}
  Batches <- MCBatchesFile
  LeaseId = {1}
  Provider = "filesystem"
  Crashable <- MCCrash
  Stallable <- MCOwners2
  Patient <- MCPatient
INVARIANTS TypeOK MutualExclusion TokensMatchLeases
PROPERTIES TokenKept AcquireReturns OrphansRecovered
