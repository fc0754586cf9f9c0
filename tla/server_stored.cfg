SPECIFICATION Spec
CONSTANTS
  w1 = w1
  w2 = w2
  w3 = w3
  alice = alice
  Workers = {w1, w2}
  Founders = {alice}
  Names = {"a", "b"}
  MsgIds <- MCIds
  Draws <- MCDraws
  OldMail <- MCOldMail
  Asked <- MCAsked
  NoReply = NoReply
  NoMsg = NoMsg
  NoReq = NoReq


CHECK_DEADLOCK FALSE
INVARIANT
  RegisteredIsStored
