SPECIFICATION LiveSpec
CONSTANTS
  Operators = {p1}
  Sizes = {2, 3, 4}
  Groups = {g1}
  AutoGroup = AutoGroup
  Keys = {}
  Values = {v1}
  NoValue = NoValue
  Moves = {FALSE}
  MaxEdits = 1
  NoGroup = NoGroup
  NoObject = NoObject
PROPERTIES Grows
CHECK_DEADLOCK FALSE
