SPECIFICATION Spec
CONSTANTS
  me1 = me1
  me2 = me2
  o1 = o1
  o2 = o2
  MyIds = {me1, me2}
  Others = {o1}
  Names = {"a", "b"}
  DummyId = DummyId
  Types = {"text", "key"}
  MaxMail = 1
  MaxLate = 1
  NoFile = NoFile
  ShortId = ShortId
  OddId = OddId
  NoId = NoId
  NoOp = NoOp
  NoAnswer = NoAnswer
INVARIANTS
  KeySaved
