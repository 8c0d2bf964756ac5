SPECIFICATION LiveSpec
CONSTANTS
  c1 = c1
  c2 = c2
  CRs = {c1}
  Names = {c1}
  FsName <- DistinctNames
  Ids = {i1, i2}
  Operators = {p1}
  Policies = {"Retain", "Delete"}
  Pauses = {FALSE}
  Foreground = {TRUE, FALSE}
  Outcomes = {"available", "error"}
  NoId = NoId
  NoCR = NoCR
  Absent = Absent
PROPERTIES DeletionCompletes Converges ServesVolumes
CHECK_DEADLOCK FALSE
