SPECIFICATION Spec
CONSTANTS
  c1 = c1
  c2 = c2
  CRs = {c1}
  Names = {c1}
  FsName <- DistinctNames
  Ids = {i1, i2}
  Operators = {p1}
  Policies = {"Delete"}
  Pauses = {FALSE}
  Foreground = {FALSE}
  Outcomes = {"available", "error"}
  NoId = NoId
  NoCR = NoCR
  Absent = Absent
PROPERTIES NoLeakedFs
CHECK_DEADLOCK FALSE
