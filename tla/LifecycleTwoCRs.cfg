SPECIFICATION Spec
CONSTANTS
  c1 = c1
  c2 = c2
  CRs = {c1, c2}
  Names = {c1, c2}
  FsName <- DistinctNames
  Ids = {i1, i2}
  Operators = {p1}
  Policies = {"Delete"}
  Pauses = {FALSE}
  Foreground = {FALSE}
  Outcomes = {"available"}
  NoId = NoId
  NoCR = NoCR
  Absent = Absent
INVARIANTS OneFsPerName IndInv
SYMMETRY Symmetry
CHECK_DEADLOCK FALSE
