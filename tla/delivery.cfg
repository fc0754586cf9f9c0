SPECIFICATION Spec
CONSTANTS
  a = a
  b = b
  w1 = w1
  w2 = w2
  Users = {a, b}
  Workers = {w1, w2}
  Texts <- MCTexts
  MaxMessages = 3
  None = None
SYMMETRY Symmetry
CHECK_DEADLOCK FALSE
INVARIANTS
  TypeOK
  
  LostForReason
  HiddenByEmpties
  ShownOnce
  FirstSeenInOrder
PROPERTIES
  RefinesMailbox
