SPECIFICATION Spec
CONSTANTS
  ReqHeader = 2
  MaxPacket = 3
  RespHeader = 2
  MsgHeader = 2
  MaxPayload = 8
  Calls <- MCCalls
CHECK_DEADLOCK FALSE
INVARIANTS
  NoMoreData
