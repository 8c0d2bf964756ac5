SPECIFICATION LiveSpec
CONSTANTS
  Operators = {p1}
  Sizes = {2, 3}
  Groups = {g1, g2}
  AutoGroup = AutoGroup
  Keys = {k1}
  Values = {v1}
  NoValue = NoValue
  Moves = {TRUE, FALSE}
  MaxEdits = 1
  NoGroup = NoGroup
  NoObject = NoObject
INVARIANTS TypeOK ExpandingMarkerSound DriftInv
PROPERTIES Converges
CHECK_DEADLOCK FALSE
