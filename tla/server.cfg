SPECIFICATION Spec
CONSTANTS
  w1 = w1
  w2 = w2
  w3 = w3
  alice = alice
  Workers = {w1, w2, w3}
  Founders = {alice}
  Names = {"a", "b"}
  MsgIds <- MCIds
  Draws <- MCDraws
  OldMail <- MCOldMail
  Asked <- MCAsked
  NoReply = NoReply
  NoMsg = NoMsg
  NoReq = NoReq
SYMMETRY Symmetry
CHECK_DEADLOCK FALSE
INVARIANTS
  TypeOK
  MessagesHaveRecipients
  RacedNamesOnly
  MailKept
  OwnMailOnly
PROPERTIES
  RefinesMailbox
