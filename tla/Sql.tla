--------------------------------- MODULE Sql ---------------------------------
(****************************************************************************)
(* The SQL statements that the two managers of the server send to           *)
(* server.db, reduced to what concurrency can tell apart.  A row is its     *)
(* primary key, and the database is the set of the rows of all tables, each *)
(* tagged with the manager that owns its table ("clients" belongs to        *)
(* ClientManager, "messages" to MessageManager).                            *)
(****************************************************************************)
CONSTANTS
  Managers,   \* the Manager objects of the process, one table each
  Rows,       \* primary keys
  Issues      \* Issues[m]: the kinds of statement manager m issues

Ops == {"select", "insert", "delete"}

ASSUME IssuesAssumption == Issues \in [Managers -> SUBSET Ops]

Calls == {c \in [mgr : Managers, op : Ops, row : Rows] : c.op \in Issues[c.mgr]}

Database == SUBSET (Managers \X Rows)

Key(call) == <<call.mgr, call.row>>

IsWrite(call) == call.op # "select"

\* An INSERT of a key that is already there is refused (PRIMARY KEY).
Conflicts(call, db) == call.op = "insert" /\ Key(call) \in db

Effect(call, db) ==
  CASE call.op = "insert" -> db \cup {Key(call)}
    [] call.op = "delete" -> db \ {Key(call)}
    [] OTHER              -> db
=============================================================================
