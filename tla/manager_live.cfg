SPECIFICATION FairSpec
CONSTANTS
  t1 = t1
  t2 = t2
  t3 = t3
  clients = clients
  messages = messages
  Threads = {t1, t2}
  Managers = {clients, messages}
  Rows = {1}
  Issues <- MCIssues
  Conns = {1, 2, 3, 4, 5}
  Uses <- LiveUses
  NoConn = NoConn
  NoThread = NoThread
  NoCall = NoCall
PROPERTIES
  LockReleased
  DirtyResolved
