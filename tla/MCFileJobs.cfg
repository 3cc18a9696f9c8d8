SPECIFICATION FairSpec
CONSTANTS
  e1 = e1
  e2 = e2
  e3 = e3
  d3 = d3
  d4 = d4
  d1 = d1
  d2 = d2
  Jobs = {e1, e2, e3, d1, d2, d3, d4}
  Plans <- MCPlans
  Job <- MCJob
  InitFiles <- MCFiles
  Old = Old
  OldPlain <- MCOldPlain
  WriteFaults = {"lost", "torn", "kept"}
  Absent = Absent
  Missing <- MCMissing
CHECK_DEADLOCK FALSE
INVARIANTS TypeOK DecryptedIsWhole OutputIsPrefix EncryptedReadsBack InPlaceLosesAll
PROPERTY JobsEnd
