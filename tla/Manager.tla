------------------------------ MODULE Manager -------------------------------
(****************************************************************************)
(* manager.py: Manager.do_sql as the worker threads of the server run it.   *)
(*                                                                          *)
(* Each manager object keeps ONE attribute __connection and one lock, and   *)
(* every call assigns a fresh connection to that attribute.  The lock       *)
(* covers execute and commit only: creating the connection, fetchall and    *)
(* closing happen outside it, and each of them loads self.__connection      *)
(* anew.  A thread can therefore execute on a connection another thread     *)
(* created, commit a connection it did not execute on, and close the one    *)
(* another thread is about to use.                                          *)
(*                                                                          *)
(* The environment of the code is modelled as the code relies on it:        *)
(*  - Python opens a transaction implicitly before an INSERT or a DELETE    *)
(*    and keeps it open until commit, close or the death of the connection; *)
(*  - CPython reference counting closes a connection, rolling it back, as   *)
(*    soon as neither a manager nor a cursor refers to it;                  *)
(*  - SQLite lets one connection at a time hold a write transaction; a      *)
(*    writer waits or gives up ("database is locked"), and a commit waits   *)
(*    for the readers of other connections.  That a reader stalls for the   *)
(*    whole 5 s busy timeout between execute and fetchall is left out.      *)
(****************************************************************************)
EXTENDS Sql

CONSTANTS
  Threads,
  Conns,      \* identities for connection objects; one is reused when dead
  Uses,       \* Uses[t]: the managers thread t calls
  NoConn, NoThread, NoCall

ASSUME ConstantsAssumption ==
  /\ Uses \in [Threads -> SUBSET Managers]
  /\ NoConn \notin Conns
  /\ NoThread \notin Threads
  /\ NoCall \notin Calls

VARIABLES
  connection, \* Manager.__connection (NoConn: the closed one init_table left)
  lock,       \* Manager.__lock: its holder
  pc,         \* where each thread is in do_sql
  call,       \* the statement it was called with
  cursor,     \* the connection its local cursor belongs to
  found,      \* whether its SELECT saw the row
  result,     \* how its last call ended
  applied,    \* history: its write has been committed
  disturbed,  \* history: its call overlapped another call of the same manager
  open,       \* the connections that are not closed
  writer,     \* the connection with an open write transaction
  view,       \* the database as that transaction sees it
  table       \* the committed database

local == <<pc, call, cursor, found, result, applied, disturbed>>
store == <<open, writer, view, table>>
vars == <<connection, lock, local, store>>

PCs == {"idle", "acquire", "execute", "commit", "fetch", "cleanup"}

TypeOK ==
  /\ connection \in [Managers -> Conns \cup {NoConn}]
  /\ lock \in [Managers -> Threads \cup {NoThread}]
  /\ pc \in [Threads -> PCs]
  /\ call \in [Threads -> Calls \cup {NoCall}]
  /\ \A t \in Threads : pc[t] # "idle" => call[t] \in Calls
  /\ cursor \in [Threads -> Conns \cup {NoConn}]
  /\ found \in [Threads -> BOOLEAN]
  /\ result \in [Threads -> {"none", "ok", "raised"}]
  /\ applied \in [Threads -> BOOLEAN]
  /\ disturbed \in [Threads -> BOOLEAN]
  /\ open \in SUBSET Conns
  /\ writer \in Conns \cup {NoConn}
  /\ view \in Database
  /\ table \in Database

Init ==
  /\ connection = [m \in Managers |-> NoConn]
  /\ lock = [m \in Managers |-> NoThread]
  /\ pc = [t \in Threads |-> "idle"]
  /\ call = [t \in Threads |-> NoCall]
  /\ cursor = [t \in Threads |-> NoConn]
  /\ found = [t \in Threads |-> FALSE]
  /\ result = [t \in Threads |-> "none"]
  /\ applied = [t \in Threads |-> FALSE]
  /\ disturbed = [t \in Threads |-> FALSE]
  /\ open = {}
  /\ writer = NoConn
  /\ view = {}
  /\ table \in Database
-----------------------------------------------------------------------------
Current(t) == connection[call[t].mgr]

\* The thread has executed its statement and holds the cursor.
HasCursor(t) == pc[t] \in {"commit", "fetch", "cleanup"}

\* The connection objects that something still refers to.
Held == {connection[m] : m \in Managers} \cup {cursor[t] : t \in Threads}

NewConn == CHOOSE c \in Conns : c \notin Held

\* What a statement on connection c sees: its own transaction or the file.
Visible(c) == IF c = writer THEN view ELSE table

\* Fault: connections live until they are closed, as under a tracing collector.
ReclaimNever(opened) ==
  /\ open' = opened
  /\ writer' = IF writer \in opened THEN writer ELSE NoConn
  /\ view' = IF writer \in opened THEN view ELSE {}

\* Of the connections in opened, those nothing refers to any more die.  A
\* connection that is closed or dies rolls its transaction back.
Reclaim(opened) ==
  LET held == {connection'[m] : m \in Managers} \cup {cursor'[t] : t \in Threads}
  IN  /\ open' = opened \cap held
      /\ writer' = IF writer \in opened \cap held THEN writer ELSE NoConn
      /\ view' = IF writer \in opened \cap held THEN view ELSE {}

\* The call leaves do_sql, and its cursor goes with it.
Leave(t, r) ==
  /\ pc' = [pc EXCEPT ![t] = "idle"]
  /\ result' = [result EXCEPT ![t] = r]
  /\ cursor' = [cursor EXCEPT ![t] = NoConn]
  /\ UNCHANGED <<call, found, applied, disturbed>>

Release(t) == lock' = [lock EXCEPT ![call[t].mgr] = NoThread]

\* Fault: no finally clause.
RaiseHolding(t) == Leave(t, "raised") /\ UNCHANGED lock

\* An exception inside the try block: finally releases the lock, and neither
\* fetchall nor __cleanup runs.
RaiseLocked(t) ==
  /\ Leave(t, "raised")
  /\ Release(t)
-----------------------------------------------------------------------------
\* Thread t is in a call of manager m.
Inside(t, m) == pc[t] # "idle" /\ call[t].mgr = m

\* do_sql is entered and __create_connection replaces self.__connection.
Call(t, c) ==
  /\ pc[t] = "idle"
  /\ c.mgr \in Uses[t]
  /\ Conns \ Held # {}
  /\ connection' = [connection EXCEPT ![c.mgr] = NewConn]
  /\ pc' = [pc EXCEPT ![t] = "acquire"]
  /\ call' = [call EXCEPT ![t] = c]
  /\ found' = [found EXCEPT ![t] = FALSE]
  /\ result' = [result EXCEPT ![t] = "none"]
  /\ applied' = [applied EXCEPT ![t] = FALSE]
  /\ disturbed' = [u \in Threads |->
                    IF u = t THEN \E v \in Threads \ {t} : Inside(v, c.mgr)
                             ELSE disturbed[u] \/ Inside(u, c.mgr)]
  /\ UNCHANGED <<lock, cursor, table>>
  /\ Reclaim(open \cup {NewConn})

\* Fault: the lock is not taken.
AcquireUnlocked(t) ==
  /\ pc[t] = "acquire"
  /\ pc' = [pc EXCEPT ![t] = "execute"]
  /\ UNCHANGED <<connection, lock, call, cursor, found, result, applied, disturbed, store>>

Acquire(t) ==
  /\ pc[t] = "acquire"
  /\ lock[call[t].mgr] = NoThread
  /\ lock' = [lock EXCEPT ![call[t].mgr] = t]
  /\ pc' = [pc EXCEPT ![t] = "execute"]
  /\ UNCHANGED <<connection, call, cursor, found, result, applied, disturbed, store>>

\* execute on a connection that another thread has closed meanwhile.
ExecuteClosed(t) ==
  /\ pc[t] = "execute"
  /\ Current(t) \notin open
  /\ RaiseLocked(t)
  /\ UNCHANGED <<connection, table>>
  /\ Reclaim(open)

\* "database is locked": another connection's write transaction is open.
ExecuteBusy(t) ==
  /\ pc[t] = "execute"
  /\ Current(t) \in open
  /\ IsWrite(call[t])
  /\ writer \notin {NoConn, Current(t)}
  /\ RaiseLocked(t)
  /\ UNCHANGED <<connection, table>>
  /\ Reclaim(open)

\* IntegrityError: the transaction opened for the INSERT stays open.
ExecuteConflict(t) ==
  /\ pc[t] = "execute"
  /\ Current(t) \in open
  /\ writer \in {NoConn, Current(t)}
  /\ Conflicts(call[t], Visible(Current(t)))
  /\ writer' = Current(t)
  /\ view' = Visible(Current(t))
  /\ RaiseLocked(t)
  /\ UNCHANGED <<connection, open, table>>

\* Fault: the connection is in autocommit mode.
ExecuteAutocommit(t) ==
  /\ pc[t] = "execute"
  /\ Current(t) \in open
  /\ IsWrite(call[t])
  /\ writer \in {NoConn, Current(t)}
  /\ ~Conflicts(call[t], table)
  /\ table' = Effect(call[t], table)
  /\ cursor' = [cursor EXCEPT ![t] = Current(t)]
  /\ pc' = [pc EXCEPT ![t] = "commit"]
  /\ UNCHANGED <<connection, lock, call, found, result, applied, disturbed, open, writer, view>>

ExecuteWrite(t) ==
  /\ pc[t] = "execute"
  /\ Current(t) \in open
  /\ IsWrite(call[t])
  /\ writer \in {NoConn, Current(t)}
  /\ ~Conflicts(call[t], Visible(Current(t)))
  /\ writer' = Current(t)
  /\ view' = Effect(call[t], Visible(Current(t)))
  /\ cursor' = [cursor EXCEPT ![t] = Current(t)]
  /\ pc' = [pc EXCEPT ![t] = "commit"]
  /\ UNCHANGED <<connection, lock, call, found, result, applied, disturbed, open, table>>

\* Fault: a SELECT without rows leaves None where a verdict is expected.
ExecuteReadNone(t) ==
  /\ pc[t] = "execute"
  /\ Current(t) \in open
  /\ ~IsWrite(call[t])
  /\ found' = [found EXCEPT ![t] = IF Key(call[t]) \in Visible(Current(t)) THEN TRUE ELSE NoCall]
  /\ cursor' = [cursor EXCEPT ![t] = Current(t)]
  /\ pc' = [pc EXCEPT ![t] = "commit"]
  /\ UNCHANGED <<connection, lock, call, result, applied, disturbed, store>>

ExecuteRead(t) ==
  /\ pc[t] = "execute"
  /\ Current(t) \in open
  /\ ~IsWrite(call[t])
  /\ found' = [found EXCEPT ![t] = Key(call[t]) \in Visible(Current(t))]
  /\ cursor' = [cursor EXCEPT ![t] = Current(t)]
  /\ pc' = [pc EXCEPT ![t] = "commit"]
  /\ UNCHANGED <<connection, lock, call, result, applied, disturbed, store>>

\* A SELECT that found a row keeps the file locked for reading until fetchall.
Reading(t) ==
  /\ pc[t] \in {"commit", "fetch"}
  /\ found[t]
  /\ cursor[t] \in open

\* commit is called on the connection self.__connection names NOW.
CommitClosed(t) ==
  /\ pc[t] = "commit"
  /\ Current(t) \notin open
  /\ RaiseLocked(t)
  /\ UNCHANGED <<connection, table>>
  /\ Reclaim(open)

\* It publishes that connection's transaction, if it has one.
CommitTransaction(t) ==
  /\ pc[t] = "commit"
  /\ Current(t) \in open
  /\ Current(t) = writer
  /\ \A u \in Threads : Reading(u) => cursor[u] = writer
  /\ table' = view
  /\ writer' = NoConn
  /\ view' = {}
  /\ applied' = [applied EXCEPT ![t] = cursor[t] = writer /\ IsWrite(call[t])]
  /\ Release(t)
  /\ pc' = [pc EXCEPT ![t] = "fetch"]
  /\ UNCHANGED <<connection, call, cursor, found, result, disturbed, open>>

\* Fault: commit is forgotten.
CommitForgotten(t) ==
  /\ pc[t] = "commit"
  /\ Current(t) \in open
  /\ Release(t)
  /\ pc' = [pc EXCEPT ![t] = "fetch"]
  /\ UNCHANGED <<connection, call, cursor, found, result, applied, disturbed, store>>

CommitNothing(t) ==
  /\ pc[t] = "commit"
  /\ Current(t) \in open
  /\ Current(t) # writer
  /\ Release(t)
  /\ pc' = [pc EXCEPT ![t] = "fetch"]
  /\ UNCHANGED <<connection, call, cursor, found, result, applied, disturbed, store>>

\* fetchall runs without the lock.
FetchClosed(t) ==
  /\ pc[t] = "fetch"
  /\ cursor[t] \notin open
  /\ Leave(t, "raised")
  /\ UNCHANGED <<connection, lock, table>>
  /\ Reclaim(open)

Fetch(t) ==
  /\ pc[t] = "fetch"
  /\ cursor[t] \in open
  /\ pc' = [pc EXCEPT ![t] = "cleanup"]
  /\ UNCHANGED <<connection, lock, call, cursor, found, result, applied, disturbed, store>>

\* __cleanup closes whatever self.__connection names, and the call returns.
Cleanup(t) ==
  /\ pc[t] = "cleanup"
  /\ Leave(t, "ok")
  /\ UNCHANGED <<connection, lock, table>>
  /\ Reclaim(open \ {Current(t)})

Execute(t) ==
  ExecuteClosed(t) \/ ExecuteBusy(t) \/ ExecuteConflict(t) \/ ExecuteWrite(t) \/ ExecuteRead(t)

Commit(t) == CommitClosed(t) \/ CommitTransaction(t) \/ CommitNothing(t)

Unlocked(t) == FetchClosed(t) \/ Fetch(t) \/ Cleanup(t)

Step(t) == Acquire(t) \/ Execute(t) \/ Commit(t) \/ Unlocked(t)

Next ==
  \E t \in Threads :
    \/ \E c \in Calls : Call(t, c)
    \/ Step(t)

Spec == Init /\ [][Next]_vars

\* A worker that entered do_sql keeps being scheduled.  Whoever waits for a
\* commit does not starve behind readers: SQLite's PENDING lock lets no new
\* reader in.  threading.Lock promises its waiters no order, so nothing
\* stronger is assumed of Acquire.
Fairness ==
  \A t \in Threads : WF_vars(Step(t)) /\ SF_vars(CommitTransaction(t))

FairSpec == Spec /\ Fairness
-----------------------------------------------------------------------------
(****************************************************************************)
(* Properties                                                               *)
(****************************************************************************)

\* The call has taken effect: a SELECT when it has executed, a write when its
\* own transaction has been committed.
Served(t) == HasCursor(t) /\ (IsWrite(call[t]) => applied[t])

phase ==
  [t \in Threads |->
    IF pc[t] = "idle" THEN "idle" ELSE IF Served(t) THEN "served" ELSE "called"]

Contract == INSTANCE SqlStore

\* do_sql keeps the contract of SqlStore however the threads interleave: every
\* call takes effect at most once, at one instant, and an abandoned or foreign
\* transaction never reaches the file (manager.py:43-58).
RefinesContract == Contract!Spec

\* What is not committed is on its way out: some call in do_sql still refers
\* to the connection of a dirty transaction, and if a manager still names that
\* connection, the next to commit it is the thread that wrote.  An exception
\* between execute and commit skips __cleanup and must leave nothing behind
\* that a later call would commit (manager.py:50-56).
DirtyInFlight ==
  writer # NoConn /\ view # table =>
    /\ \E t \in Threads : HasCursor(t) /\ cursor[t] = writer
    /\ \A m \in Managers :
         connection[m] = writer =>
           \E t \in Threads :
             /\ pc[t] = "commit" /\ lock[m] = t /\ cursor[t] = writer
             /\ view = Effect(call[t], table)

\* What commit publishes is the statement of the thread that calls it and of
\* no other, though it commits the connection self.__connection names by then
\* and not the one execute ran on (manager.py:50-51).
PublishesOwn ==
  [][table' # table =>
       \E t \in Threads :
         /\ pc[t] = "commit" /\ pc'[t] = "fetch"
         /\ ~applied[t] /\ applied'[t]
         /\ table' = Effect(call[t], table)]_vars

\* A call that no other call of its manager overlaps gives what a caller expects
\* of do_sql, whatever happened before and whatever the other manager does to
\* the file: success means the write is committed, an exception means that it is
\* not, and lookups do not raise (message_manager.py:51 while client_manager.py:38
\* runs in another thread).
UndisturbedExact ==
  \A t \in Threads :
    pc[t] = "idle" /\ call[t] # NoCall /\ ~disturbed[t] =>
      /\ result[t] = "ok" /\ IsWrite(call[t]) => applied[t]
      /\ result[t] = "raised" => IsWrite(call[t]) /\ ~applied[t]

\* The lock is always given back, by whichever of the five ways out a thread
\* takes (manager.py:48-53).
LockReleased ==
  \A m \in Managers : lock[m] # NoThread ~> lock[m] = NoThread

\* A dirty transaction does not block the other writers of server.db for good:
\* it is committed, or rolled back with its connection (manager.py:50-58).
DirtyResolved == writer # NoConn /\ view # table ~> writer = NoConn \/ view = table

\* A lookup does not raise: "should always succeed" (client_manager.py:50).
LookupsSucceed ==
  \A t \in Threads :
    pc[t] = "idle" /\ call[t] # NoCall /\ ~IsWrite(call[t]) => result[t] = "ok"
-----------------------------------------------------------------------------
(****************************************************************************)
(* The inductive invariant behind the safety properties.                    *)
(****************************************************************************)

\* The lock of a manager is held exactly between acquire and release.
LockInv ==
  \A t \in Threads, m \in Managers :
    lock[m] = t <=> pc[t] \in {"execute", "commit"} /\ call[t].mgr = m

\* Which connection belongs to whom: a cursor never refers to a connection of
\* another manager, and managers never share one.
ConnInv ==
  /\ \A t \in Threads : cursor[t] # NoConn <=> HasCursor(t)
  /\ \A t \in Threads : pc[t] # "idle" => Current(t) # NoConn
  /\ \A m, n \in Managers :
       connection[m] = connection[n] /\ connection[m] # NoConn => m = n
  /\ \A t \in Threads, m \in Managers :
       HasCursor(t) /\ connection[m] = cursor[t] => call[t].mgr = m
  /\ \A t, u \in Threads :
       HasCursor(t) /\ HasCursor(u) /\ cursor[t] = cursor[u] => call[t].mgr = call[u].mgr

\* Only connections that something refers to are open or write.
OpenInv ==
  /\ open \subseteq Held
  /\ writer # NoConn => writer \in open

\* t executed a write in the open transaction.
Wrote(t) == HasCursor(t) /\ cursor[t] = writer /\ IsWrite(call[t])

\* A transaction that can still be committed holds the one statement of the
\* thread that is about to commit it, or nothing at all.
WriteInv ==
  /\ \A t \in Threads :
       Wrote(t) /\ pc[t] = "commit" =>
         /\ ~Conflicts(call[t], table)
         /\ view = Effect(call[t], table)
  /\ writer # NoConn /\ view # table =>
       \A m \in Managers :
         connection[m] = writer =>
           \E t \in Threads : Wrote(t) /\ pc[t] = "commit" /\ call[t].mgr = m
  /\ \A t \in Threads : pc[t] \in {"acquire", "execute", "commit"} => ~applied[t]

\* What a thread that is alone in its manager can rely on.
Exact(t) ==
  /\ Current(t) \in open
  /\ HasCursor(t) => cursor[t] = Current(t)
  /\ pc[t] = "commit" /\ IsWrite(call[t]) => writer = cursor[t]
  /\ pc[t] \in {"fetch", "cleanup"} /\ IsWrite(call[t]) => applied[t]

\* Calls that overlap know it, and nobody interferes with the others.
OverlapInv ==
  /\ \A t, u \in Threads, m \in Managers :
       t # u /\ Inside(t, m) /\ Inside(u, m) => disturbed[t]
  /\ \A t \in Threads : pc[t] # "idle" /\ ~disturbed[t] => Exact(t)

IInv == TypeOK /\ LockInv /\ ConnInv /\ OpenInv /\ WriteInv /\ OverlapInv
=============================================================================
