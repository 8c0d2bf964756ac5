SPECIFICATION Spec
CONSTANTS
  c1 = c1
  c2 = c2
  CRs = {c1}
  Names = {c1}
  FsName <- DistinctNames
  Ids = {i1, i2}
  Operators = {p1}
  Policies = {"Retain", "Delete"}
  Pauses = {TRUE, FALSE}
  Foreground = {TRUE, FALSE}
  Outcomes = {"available", "error"}
  NoId = NoId
  NoCR = NoCR
  Absent = Absent
INVARIANTS TypeOK CopyExact OldCopies DeletingMarkerSound ReadyAgrees
PROPERTIES Implements RecordedNotForgotten DeleteHonoured CreateUnderFinalizer DeleteOnlyTerminating
CHECK_DEADLOCK FALSE
