SPECIFICATION Spec
CONSTANTS
  t1 = t1
  t2 = t2
  t3 = t3
  clients = clients
  messages = messages
  Threads = {t1, t2, t3}
  Managers = {clients, messages}
  Rows = {1}
  Issues <- MCIssues
  Conns = {1, 2, 3, 4, 5, 6}
  Uses <- MessagesShared
  NoConn = NoConn
  NoThread = NoThread
  NoCall = NoCall
SYMMETRY Symmetry
INVARIANTS
  TypeOK
  DirtyInFlight
  UndisturbedExact
PROPERTIES
  RefinesContract
  PublishesOwn
