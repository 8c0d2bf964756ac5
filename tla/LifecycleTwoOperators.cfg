SPECIFICATION Spec
CONSTANTS
  c1 = c1
  c2 = c2
  CRs = {c1}
  Names = {c1}
  FsName <- DistinctNames
  Ids = {i1, i2}
  Operators = {p1, p2}
  Policies = {"Delete"}
  Pauses = {FALSE}
  Foreground = {FALSE}
  Outcomes = {}
  NoId = NoId
  NoCR = NoCR
  Absent = Absent
INVARIANTS DeletingMarkerSound
PROPERTIES RecordedNotForgotten DeleteHonoured
SYMMETRY Symmetry
CHECK_DEADLOCK FALSE
