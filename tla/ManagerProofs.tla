--------------------------- MODULE ManagerProofs ----------------------------
(****************************************************************************)
(* Theorems about do_sql for any number of threads, managers, rows and      *)
(* connections: the properties the runs of MCManager check on one instance. *)
(* IInv is inductive; its parts are proved one at a time, each from the     *)
(* parts before it.                                                         *)
(****************************************************************************)
EXTENDS Manager, TLAPS

\* A new connection is one that nothing refers to.
LEMMA NewConnFresh ==
  ASSUME Conns \ Held # {}
  PROVE  NewConn \in Conns /\ NewConn \notin Held
  BY DEF NewConn

\* A statement turns a database into a database.
LEMMA EffectType ==
  ASSUME NEW c \in Calls, NEW db \in Database
  PROVE  Effect(c, db) \in Database
  BY DEF Effect, Key, Calls, Database

\* Reclaiming connections keeps the types of what describes them.
LEMMA ReclaimType ==
  ASSUME TypeOK, NEW opened \in SUBSET Conns, Reclaim(opened)
  PROVE  /\ open' \in SUBSET Conns
         /\ writer' \in Conns \cup {NoConn}
         /\ view' \in Database
  BY DEF Reclaim, TypeOK, Database

\* Every action keeps the types.
LEMMA TypeStep ==
  ASSUME TypeOK, [Next]_vars
  PROVE  TypeOK'
<1> USE DEF TypeOK, PCs
<1>1. CASE UNCHANGED vars
  BY <1>1 DEF vars, local, store
<1>2. ASSUME NEW t \in Threads, NEW c \in Calls, Call(t, c)
      PROVE  TypeOK'
  <2>1. NewConn \in Conns
    BY <1>2, NewConnFresh DEF Call
  <2>2. c.mgr \in Managers
    BY DEF Calls
  <2>3. open \cup {NewConn} \in SUBSET Conns /\ Reclaim(open \cup {NewConn})
    BY <1>2, <2>1 DEF Call
  <2>4. open' \in SUBSET Conns /\ writer' \in Conns \cup {NoConn} /\ view' \in Database
    BY <2>3, ReclaimType
  <2> QED
    BY <1>2, <2>1, <2>2, <2>4 DEF Call
<1>3. ASSUME NEW t \in Threads, Acquire(t)
      PROVE  TypeOK'
  BY <1>3 DEF Acquire, store
<1>4. ASSUME NEW t \in Threads, ExecuteClosed(t) \/ ExecuteBusy(t) \/ CommitClosed(t)
      PROVE  TypeOK'
  <2>1. open' \in SUBSET Conns /\ writer' \in Conns \cup {NoConn} /\ view' \in Database
    BY <1>4, ReclaimType DEF ExecuteClosed, ExecuteBusy, CommitClosed
  <2> QED
    BY <1>4, <2>1 DEF ExecuteClosed, ExecuteBusy, CommitClosed, RaiseLocked, Leave, Release
<1>5. ASSUME NEW t \in Threads, ExecuteConflict(t)
      PROVE  TypeOK'
  BY <1>5 DEF ExecuteConflict, RaiseLocked, Leave, Release, Visible
<1>6. ASSUME NEW t \in Threads, ExecuteWrite(t)
      PROVE  TypeOK'
  <2>1. Visible(Current(t)) \in Database
    BY DEF Visible
  <2>2. Effect(call[t], Visible(Current(t))) \in Database
    BY <1>6, <2>1, EffectType DEF ExecuteWrite
  <2> QED
    BY <1>6, <2>2 DEF ExecuteWrite
<1>7. ASSUME NEW t \in Threads, ExecuteRead(t)
      PROVE  TypeOK'
  BY <1>7 DEF ExecuteRead, store
<1>8. ASSUME NEW t \in Threads, CommitTransaction(t)
      PROVE  TypeOK'
  <2>1. (cursor[t] = writer /\ IsWrite(call[t])) \in BOOLEAN
    OBVIOUS
  <2>2. applied' \in [Threads -> BOOLEAN]
    BY <1>8, <2>1 DEF CommitTransaction
  <2> QED
    BY <1>8, <2>2 DEF CommitTransaction, Release, Database
<1>9. ASSUME NEW t \in Threads, CommitNothing(t)
      PROVE  TypeOK'
  BY <1>9 DEF CommitNothing, Release, store
<1>10. ASSUME NEW t \in Threads, FetchClosed(t) \/ Cleanup(t)
       PROVE  TypeOK'
  <2>1. open' \in SUBSET Conns /\ writer' \in Conns \cup {NoConn} /\ view' \in Database
    BY <1>10, ReclaimType DEF FetchClosed, Cleanup
  <2> QED
    BY <1>10, <2>1 DEF FetchClosed, Cleanup, Leave
<1>11. ASSUME NEW t \in Threads, Fetch(t)
       PROVE  TypeOK'
  BY <1>11 DEF Fetch, store
<1> QED
  BY <1>1, <1>2, <1>3, <1>4, <1>5, <1>6, <1>7, <1>8, <1>9, <1>10, <1>11
     DEF Next, Step, Execute, Commit, Unlocked

\* The variables keep their types for every number of threads and managers.
THEOREM TypeCorrect == Spec => []TypeOK
<1>1. Init => TypeOK
  BY DEF Init, TypeOK, PCs, Database
<1> QED
  BY <1>1, TypeStep, PTL DEF Spec
-----------------------------------------------------------------------------
\* A thread in do_sql was called with a statement.
LEMMA Called ==
  ASSUME TypeOK, NEW t \in Threads, pc[t] # "idle"
  PROVE  call[t] \in Calls /\ call[t].mgr \in Managers
  BY DEF TypeOK, Calls

\* Who holds a lock is known from the program counters.
LEMMA LockStep ==
  ASSUME TypeOK, LockInv, [Next]_vars
  PROVE  LockInv'
<1> USE ConstantsAssumption
<1>1. CASE UNCHANGED vars
  BY <1>1 DEF vars, local, store, LockInv
<1>2. ASSUME NEW t \in Threads, NEW c \in Calls, Call(t, c)
      PROVE  LockInv'
  BY <1>2 DEF Call, LockInv, TypeOK
<1>3. ASSUME NEW t \in Threads, Acquire(t)
      PROVE  LockInv'
  BY <1>3, Called DEF Acquire, LockInv, TypeOK
<1>4. ASSUME NEW t \in Threads, pc[t] \in {"execute", "commit"}, Release(t),
             pc' = [pc EXCEPT ![t] = "idle"] \/ pc' = [pc EXCEPT ![t] = "fetch"],
             UNCHANGED call
      PROVE  LockInv'
  BY <1>4, Called DEF Release, LockInv, TypeOK
<1>5. ASSUME NEW t \in Threads,
             ExecuteClosed(t) \/ ExecuteBusy(t) \/ ExecuteConflict(t) \/ Commit(t)
      PROVE  LockInv'
  BY <1>4, <1>5 DEF ExecuteClosed, ExecuteBusy, ExecuteConflict, RaiseLocked, Leave,
                    Commit, CommitClosed, CommitTransaction, CommitNothing
<1>6. ASSUME NEW t \in Threads, ExecuteWrite(t) \/ ExecuteRead(t)
      PROVE  LockInv'
  BY <1>6 DEF ExecuteWrite, ExecuteRead, LockInv, TypeOK
<1>7. ASSUME NEW t \in Threads, Unlocked(t)
      PROVE  LockInv'
  BY <1>7 DEF Unlocked, FetchClosed, Fetch, Cleanup, Leave, LockInv, TypeOK
<1> QED
  BY <1>1, <1>2, <1>3, <1>5, <1>6, <1>7 DEF Next, Step, Execute

\* The lock excludes: two threads of one manager are never both between
\* acquire and release.
LEMMA Exclusion ==
  ASSUME TypeOK, LockInv, NEW t \in Threads, NEW u \in Threads,
         pc[t] \in {"execute", "commit"}, pc[u] \in {"execute", "commit"},
         call[t].mgr = call[u].mgr
  PROVE  t = u
  BY Called DEF LockInv

\* Cursors and managers refer to connections as ConnInv says.
LEMMA ConnStep ==
  ASSUME TypeOK, ConnInv, [Next]_vars
  PROVE  ConnInv'
<1> USE ConstantsAssumption
<1>1. CASE UNCHANGED vars
  BY <1>1 DEF vars, local, store, ConnInv, HasCursor, Current
<1>2. ASSUME NEW t \in Threads, NEW c \in Calls, Call(t, c)
      PROVE  ConnInv'
  <2>1. /\ NewConn \in Conns
        /\ \A m \in Managers : connection[m] # NewConn
        /\ \A u \in Threads : cursor[u] # NewConn
    BY <1>2, NewConnFresh DEF Call, Held
  <2>2. c.mgr \in Managers
    BY DEF Calls
  <2>3. /\ connection' = [connection EXCEPT ![c.mgr] = NewConn]
        /\ pc' = [pc EXCEPT ![t] = "acquire"]
        /\ call' = [call EXCEPT ![t] = c]
        /\ UNCHANGED cursor
        /\ pc[t] = "idle"
    BY <1>2 DEF Call
  <2>4. \A u \in Threads : u # t => HasCursor(u)' = HasCursor(u)
    BY <2>3 DEF HasCursor, TypeOK
  <2>5. ~HasCursor(t) /\ ~HasCursor(t)'
    BY <2>3 DEF HasCursor, TypeOK
  <2>6. (\A u \in Threads : cursor[u] # NoConn <=> HasCursor(u))'
    BY <2>3, <2>4, <2>5 DEF ConnInv
  <2>7. (\A u \in Threads : pc[u] # "idle" => Current(u) # NoConn)'
    BY <2>1, <2>2, <2>3, Called DEF ConnInv, Current, TypeOK
  <2>8. (\A m, n \in Managers :
           connection[m] = connection[n] /\ connection[m] # NoConn => m = n)'
    BY <2>1, <2>2, <2>3 DEF ConnInv, TypeOK
  <2>9. (\A u \in Threads, m \in Managers :
           HasCursor(u) /\ connection[m] = cursor[u] => call[u].mgr = m)'
    BY <2>1, <2>2, <2>3, <2>4, <2>5 DEF ConnInv, TypeOK
  <2>10. (\A u, v \in Threads :
            HasCursor(u) /\ HasCursor(v) /\ cursor[u] = cursor[v] => call[u].mgr = call[v].mgr)'
    BY <2>3, <2>4, <2>5 DEF ConnInv, TypeOK
  <2> QED
    BY <2>6, <2>7, <2>8, <2>9, <2>10 DEF ConnInv
<1>3. ASSUME NEW t \in Threads, UNCHANGED <<connection, call, cursor>>,
             \E p \in PCs : pc' = [pc EXCEPT ![t] = p],
             pc[t] # "idle", HasCursor(t)' = HasCursor(t)
      PROVE  ConnInv'
  BY <1>3 DEF ConnInv, HasCursor, Current, TypeOK
<1>4. ASSUME NEW t \in Threads, Acquire(t) \/ Fetch(t) \/ CommitTransaction(t) \/ CommitNothing(t)
      PROVE  ConnInv'
  <2>1. /\ UNCHANGED <<connection, call, cursor>>
        /\ \E p \in PCs : pc' = [pc EXCEPT ![t] = p]
        /\ pc[t] # "idle"
    BY <1>4 DEF Acquire, Fetch, CommitTransaction, CommitNothing, PCs
  <2>2. HasCursor(t)' = HasCursor(t)
    BY <1>4 DEF Acquire, Fetch, CommitTransaction, CommitNothing, HasCursor, TypeOK
  <2> QED
    BY <1>3, <2>1, <2>2
<1>5. ASSUME NEW t \in Threads, NEW r, Leave(t, r), UNCHANGED connection
      PROVE  ConnInv'
  BY <1>5 DEF Leave, ConnInv, HasCursor, Current, TypeOK
<1>6. ASSUME NEW t \in Threads,
             \/ ExecuteClosed(t) \/ ExecuteBusy(t) \/ ExecuteConflict(t)
             \/ CommitClosed(t) \/ FetchClosed(t) \/ Cleanup(t)
      PROVE  ConnInv'
  BY <1>5, <1>6 DEF ExecuteClosed, ExecuteBusy, ExecuteConflict, CommitClosed,
                    FetchClosed, Cleanup, RaiseLocked
<1>7. ASSUME NEW t \in Threads, ExecuteWrite(t) \/ ExecuteRead(t)
      PROVE  ConnInv'
  <2>1. /\ pc[t] = "execute"
        /\ pc' = [pc EXCEPT ![t] = "commit"]
        /\ cursor' = [cursor EXCEPT ![t] = Current(t)]
        /\ UNCHANGED <<connection, call>>
    BY <1>7 DEF ExecuteWrite, ExecuteRead
  <2>2. Current(t) # NoConn /\ call[t].mgr \in Managers
    BY <2>1, Called DEF ConnInv
  <2>3. \A u \in Threads : u # t => HasCursor(u)' = HasCursor(u) /\ cursor'[u] = cursor[u]
    BY <2>1 DEF HasCursor, TypeOK
  <2>4. HasCursor(t)' /\ cursor'[t] = connection[call[t].mgr]
    BY <2>1 DEF HasCursor, Current, TypeOK
  <2>5. (\A u \in Threads : cursor[u] # NoConn <=> HasCursor(u))'
    BY <2>2, <2>3, <2>4 DEF ConnInv, Current
  <2>6. (\A u \in Threads : pc[u] # "idle" => Current(u) # NoConn)'
    BY <2>1 DEF ConnInv, Current, TypeOK
  <2>7. (\A u \in Threads, m \in Managers :
           HasCursor(u) /\ connection[m] = cursor[u] => call[u].mgr = m)'
    BY <2>1, <2>2, <2>3, <2>4 DEF ConnInv, Current
  <2>8. (\A u, v \in Threads :
           HasCursor(u) /\ HasCursor(v) /\ cursor[u] = cursor[v] => call[u].mgr = call[v].mgr)'
    BY <2>1, <2>2, <2>3, <2>4 DEF ConnInv
  <2> QED
    BY <2>1, <2>5, <2>6, <2>7, <2>8 DEF ConnInv
<1> QED
  BY <1>1, <1>2, <1>4, <1>6, <1>7 DEF Next, Step, Execute, Commit, Unlocked

\* Whatever closes or dies leaves the set of open connections.
LEMMA OpenStep ==
  ASSUME TypeOK, ConnInv, OpenInv, [Next]_vars
  PROVE  OpenInv'
<1> USE ConstantsAssumption
<1>1. CASE UNCHANGED vars
  BY <1>1 DEF vars, local, store, OpenInv, Held
<1>2. ASSUME NEW opened, Reclaim(opened)
      PROVE  OpenInv'
  BY <1>2 DEF Reclaim, OpenInv, Held
<1>3. ASSUME NEW t \in Threads,
             \/ \E c \in Calls : Call(t, c)
             \/ ExecuteClosed(t) \/ ExecuteBusy(t) \/ CommitClosed(t)
             \/ FetchClosed(t) \/ Cleanup(t)
      PROVE  OpenInv'
  BY <1>2, <1>3 DEF Call, ExecuteClosed, ExecuteBusy, CommitClosed, FetchClosed, Cleanup
<1>4. ASSUME NEW t \in Threads, Acquire(t) \/ Fetch(t) \/ CommitNothing(t)
      PROVE  OpenInv'
  BY <1>4 DEF Acquire, Fetch, CommitNothing, store, OpenInv, Held
<1>5. ASSUME NEW t \in Threads, CommitTransaction(t)
      PROVE  OpenInv'
  BY <1>5 DEF CommitTransaction, OpenInv, Held
<1>6. ASSUME NEW t \in Threads, ExecuteConflict(t)
      PROVE  OpenInv'
  <2>1. Current(t) \in open /\ writer' = Current(t) /\ UNCHANGED <<connection, open>>
    BY <1>6 DEF ExecuteConflict
  <2>2. call[t].mgr \in Managers /\ cursor' = [cursor EXCEPT ![t] = NoConn]
    BY <1>6, Called DEF ExecuteConflict, RaiseLocked, Leave
  <2>3. cursor[t] = NoConn
    BY <1>6 DEF ExecuteConflict, ConnInv, HasCursor
  <2> QED
    BY <2>1, <2>2, <2>3 DEF OpenInv, Held, TypeOK
<1>7. ASSUME NEW t \in Threads, ExecuteWrite(t) \/ ExecuteRead(t)
      PROVE  OpenInv'
  <2>1. /\ Current(t) \in open
        /\ writer' \in {writer, Current(t)}
        /\ cursor' = [cursor EXCEPT ![t] = Current(t)]
        /\ UNCHANGED <<connection, open>>
    BY <1>7 DEF ExecuteWrite, ExecuteRead, store
  <2>2. cursor[t] = NoConn
    BY <1>7 DEF ExecuteWrite, ExecuteRead, ConnInv, HasCursor
  <2> QED
    BY <2>1, <2>2 DEF OpenInv, Held, TypeOK
<1> QED
  BY <1>1, <1>3, <1>4, <1>5, <1>6, <1>7 DEF Next, Step, Execute, Commit, Unlocked
-----------------------------------------------------------------------------
\* When a thread executes, the connection it uses shows the committed table:
\* what an earlier call left on it has changed nothing.
LEMMA CleanAtExecute ==
  ASSUME TypeOK, LockInv, ConnInv, WriteInv,
         NEW t \in Threads, pc[t] = "execute"
  PROVE  Visible(Current(t)) = table
<1> SUFFICES ASSUME Current(t) = writer, view # table
             PROVE  FALSE
  BY DEF Visible
<1>1. Current(t) # NoConn /\ call[t].mgr \in Managers
  BY Called DEF ConnInv
<1>2. PICK u \in Threads : pc[u] = "commit" /\ call[u].mgr = call[t].mgr
  BY <1>1 DEF WriteInv, Current
<1> QED
  BY <1>2, Exclusion

\* No other thread is about to commit the connection a thread executes on.
LEMMA AloneOnConnection ==
  ASSUME TypeOK, LockInv, ConnInv, NEW t \in Threads, NEW u \in Threads,
         pc[t] = "execute", pc[u] = "commit"
  PROVE  cursor[u] # Current(t)
<1>1. call[t].mgr \in Managers /\ HasCursor(u)
  BY Called DEF HasCursor
<1>2. cursor[u] = Current(t) => call[u].mgr = call[t].mgr
  BY <1>1 DEF ConnInv, Current
<1> QED
  BY <1>2, Exclusion

\* A step that keeps the transaction, the writers' cursors and the managers'
\* references to it keeps WriteInv.
LEMMA WriteFrame ==
  ASSUME TypeOK, ConnInv, OpenInv, WriteInv, ConnInv', UNCHANGED table,
         \/ UNCHANGED <<writer, view>>
         \/ writer' = NoConn,
         \A u \in Threads : pc'[u] = "commit" =>
           pc[u] = "commit" /\ cursor'[u] = cursor[u] /\ call'[u] = call[u],
         \A m \in Managers : connection'[m] = writer => connection[m] = writer,
         \A u \in Threads : Wrote(u) /\ pc[u] = "commit" =>
           \/ pc'[u] = "commit" /\ cursor'[u] = cursor[u] /\ call'[u] = call[u]
           \/ Current(u) # writer,
         \A u \in Threads : pc'[u] \in {"acquire", "execute", "commit"} => ~applied'[u]
  PROVE  WriteInv'
<1>1. (\A u \in Threads : Wrote(u) /\ pc[u] = "commit" =>
         /\ ~Conflicts(call[u], table)
         /\ view = Effect(call[u], table))'
  <2> SUFFICES ASSUME NEW u \in Threads, Wrote(u)', pc'[u] = "commit"
               PROVE  /\ ~Conflicts(call'[u], table')
                      /\ view' = Effect(call'[u], table')
    BY DEF Conflicts, Effect, Key
  <2>1. writer' # NoConn
    BY DEF Wrote, ConnInv
  <2>2. Wrote(u) /\ pc[u] = "commit" /\ call'[u] = call[u]
    BY <2>1 DEF Wrote, HasCursor
  <2> QED
    BY <2>1, <2>2 DEF WriteInv
<1>2. (writer # NoConn /\ view # table =>
         \A m \in Managers :
           connection[m] = writer =>
             \E u \in Threads : Wrote(u) /\ pc[u] = "commit" /\ call[u].mgr = m)'
  <2> SUFFICES ASSUME writer' # NoConn, view' # table', NEW m \in Managers,
                      connection'[m] = writer'
               PROVE  \E u \in Threads : Wrote(u)' /\ pc'[u] = "commit" /\ call'[u].mgr = m
    OBVIOUS
  <2>1. PICK u \in Threads : Wrote(u) /\ pc[u] = "commit" /\ call[u].mgr = m
    BY DEF WriteInv
  <2>2. Current(u) = writer
    BY <2>1 DEF Current
  <2>3. pc'[u] = "commit" /\ cursor'[u] = cursor[u] /\ call'[u] = call[u]
    BY <2>1, <2>2
  <2> QED
    BY <2>1, <2>3 DEF Wrote, HasCursor
<1> QED
  BY <1>1, <1>2 DEF WriteInv

\* Reclaiming keeps the open transaction or ends it.
LEMMA ReclaimWriter ==
  ASSUME NEW opened, Reclaim(opened)
  PROVE  UNCHANGED <<writer, view>> \/ writer' = NoConn
  BY DEF Reclaim

\* Nothing but the statement of the thread about to commit is ever in a
\* transaction that can still be committed.
LEMMA WriteStep ==
  ASSUME TypeOK, LockInv, ConnInv, OpenInv, WriteInv, ConnInv', [Next]_vars
  PROVE  WriteInv'
<1> USE ConstantsAssumption
<1>1. CASE UNCHANGED vars
  BY <1>1 DEF vars, local, store, WriteInv, Wrote, HasCursor, Current, Conflicts, Effect, Key
<1>2. ASSUME NEW t \in Threads, NEW c \in Calls, Call(t, c)
      PROVE  WriteInv'
  <2>1. /\ pc[t] = "idle" /\ c.mgr \in Managers
        /\ UNCHANGED <<cursor, table>>
        /\ pc' = [pc EXCEPT ![t] = "acquire"]
        /\ call' = [call EXCEPT ![t] = c]
        /\ applied' = [applied EXCEPT ![t] = FALSE]
        /\ connection' = [connection EXCEPT ![c.mgr] = NewConn]
    BY <1>2 DEF Call, Calls
  <2>2. UNCHANGED <<writer, view>> \/ writer' = NoConn
    BY <1>2, ReclaimWriter DEF Call
  <2>3. NewConn # writer
    BY <1>2, NewConnFresh DEF Call, OpenInv
  <2>4. \A u \in Threads : pc[u] = "commit" <=> pc'[u] = "commit"
    BY <2>1 DEF TypeOK
  <2>5. \A u \in Threads : u # t => call'[u] = call[u] /\ applied'[u] = applied[u] /\ pc'[u] = pc[u]
    BY <2>1 DEF TypeOK
  <2>6. ~applied'[t] /\ pc'[t] = "acquire"
    BY <2>1 DEF TypeOK
  <2>7. \A m \in Managers : connection'[m] = writer => connection[m] = writer
    BY <2>1, <2>3 DEF TypeOK
  <2>8. \A u \in Threads : pc'[u] \in {"acquire", "execute", "commit"} => ~applied'[u]
    BY <2>5, <2>6 DEF WriteInv
  <2> QED
    BY <2>1, <2>2, <2>4, <2>5, <2>6, <2>7, <2>8, WriteFrame
<1>3. ASSUME NEW t \in Threads, Acquire(t) \/ Fetch(t)
      PROVE  WriteInv'
  <2>1. /\ UNCHANGED <<connection, call, cursor, applied, writer, view, table>>
        /\ \/ pc[t] = "acquire" /\ pc' = [pc EXCEPT ![t] = "execute"]
           \/ pc[t] = "fetch" /\ pc' = [pc EXCEPT ![t] = "cleanup"]
    BY <1>3 DEF Acquire, Fetch, store
  <2>2. \A u \in Threads : pc[u] = "commit" <=> pc'[u] = "commit"
    BY <2>1 DEF TypeOK
  <2>3. \A u \in Threads : pc'[u] \in {"acquire", "execute", "commit"} => ~applied'[u]
    BY <2>1 DEF WriteInv, TypeOK
  <2> QED
    BY <2>1, <2>2, <2>3, WriteFrame
<1>4. ASSUME NEW t \in Threads, NEW r, Leave(t, r), UNCHANGED <<connection, table>>,
             UNCHANGED <<writer, view>> \/ writer' = NoConn,
             Wrote(t) /\ pc[t] = "commit" => Current(t) # writer
      PROVE  WriteInv'
  <2>1. /\ \A u \in Threads : pc'[u] = IF u = t THEN "idle" ELSE pc[u]
        /\ \A u \in Threads : cursor'[u] = IF u = t THEN NoConn ELSE cursor[u]
        /\ UNCHANGED <<call, applied>>
    BY <1>4 DEF Leave, TypeOK
  <2>2. \A u \in Threads : pc'[u] \in {"acquire", "execute", "commit"} => ~applied'[u]
    BY <2>1 DEF WriteInv
  <2> QED
    BY <1>4, <2>1, <2>2, WriteFrame
<1>5. ASSUME NEW t \in Threads,
             \/ ExecuteClosed(t) \/ ExecuteBusy(t) \/ CommitClosed(t)
             \/ FetchClosed(t) \/ Cleanup(t)
      PROVE  WriteInv'
  <2>1. /\ UNCHANGED <<connection, table>>
        /\ \E r \in {"ok", "raised"} : Leave(t, r)
        /\ \E opened \in SUBSET Conns : Reclaim(opened)
    BY <1>5 DEF ExecuteClosed, ExecuteBusy, CommitClosed, FetchClosed, Cleanup, RaiseLocked, TypeOK
  <2>2. UNCHANGED <<writer, view>> \/ writer' = NoConn
    BY <2>1, ReclaimWriter
  <2>3. pc[t] = "commit" => Current(t) \notin open
    BY <1>5 DEF ExecuteClosed, ExecuteBusy, CommitClosed, FetchClosed, Cleanup
  <2>4. Wrote(t) /\ pc[t] = "commit" => Current(t) # writer
    BY <2>3 DEF Wrote, ConnInv, OpenInv
  <2> QED
    BY <1>4, <2>1, <2>2, <2>4
<1>6. ASSUME NEW t \in Threads, ExecuteConflict(t)
      PROVE  WriteInv'
  <2>1. /\ writer' = Current(t) /\ view' = table
        /\ UNCHANGED <<connection, table, call, applied>>
        /\ pc[t] = "execute"
        /\ \A u \in Threads : pc'[u] = IF u = t THEN "idle" ELSE pc[u]
        /\ \A u \in Threads : cursor'[u] = IF u = t THEN NoConn ELSE cursor[u]
    BY <1>6, CleanAtExecute DEF ExecuteConflict, RaiseLocked, Leave, TypeOK
  <2>2. \A u \in Threads : pc'[u] = "commit" => cursor'[u] # writer'
    BY <2>1, AloneOnConnection
  <2>3. (\A u \in Threads : pc[u] \in {"acquire", "execute", "commit"} => ~applied[u])'
    BY <2>1 DEF WriteInv
  <2> QED
    BY <2>1, <2>2, <2>3 DEF WriteInv, Wrote
<1>7. ASSUME NEW t \in Threads, ExecuteWrite(t)
      PROVE  WriteInv'
  <2>1. /\ writer' = Current(t)
        /\ view' = Effect(call[t], table)
        /\ ~Conflicts(call[t], table)
        /\ UNCHANGED <<connection, table, call, applied>>
        /\ pc[t] = "execute" /\ IsWrite(call[t])
        /\ \A u \in Threads : pc'[u] = IF u = t THEN "commit" ELSE pc[u]
        /\ \A u \in Threads : cursor'[u] = IF u = t THEN Current(t) ELSE cursor[u]
    BY <1>7, CleanAtExecute DEF ExecuteWrite, TypeOK
  <2>2. \A u \in Threads : u # t /\ pc'[u] = "commit" => cursor'[u] # writer'
    BY <2>1, AloneOnConnection
  <2>3. (\A u \in Threads : Wrote(u) /\ pc[u] = "commit" =>
           /\ ~Conflicts(call[u], table)
           /\ view = Effect(call[u], table))'
    BY <2>1, <2>2 DEF Wrote, Conflicts, Effect, Key
  <2>4. Wrote(t)' /\ pc'[t] = "commit" /\ call'[t] = call[t]
    BY <2>1 DEF Wrote, HasCursor
  <2>5. \A m \in Managers : connection'[m] = writer' => m = call[t].mgr
    BY <2>1, Called DEF ConnInv, Current
  <2>6. (\A u \in Threads : pc[u] \in {"acquire", "execute", "commit"} => ~applied[u])'
    BY <2>1 DEF WriteInv
  <2> QED
    BY <2>3, <2>4, <2>5, <2>6 DEF WriteInv
<1>8. ASSUME NEW t \in Threads, ExecuteRead(t)
      PROVE  WriteInv'
  <2>1. /\ UNCHANGED <<connection, table, call, applied, writer, view>>
        /\ pc[t] = "execute" /\ ~IsWrite(call[t])
        /\ \A u \in Threads : pc'[u] = IF u = t THEN "commit" ELSE pc[u]
        /\ \A u \in Threads : cursor'[u] = IF u = t THEN Current(t) ELSE cursor[u]
    BY <1>8 DEF ExecuteRead, store, TypeOK
  <2>2. \A u \in Threads : pc'[u] = "commit" => u = t \/ pc[u] = "commit"
    BY <2>1
  <2>3. \A u \in Threads : Wrote(u)' /\ pc'[u] = "commit" => Wrote(u) /\ pc[u] = "commit"
    BY <2>1 DEF Wrote, HasCursor
  <2>4. \A u \in Threads : Wrote(u) /\ pc[u] = "commit" => Wrote(u)' /\ pc'[u] = "commit"
    BY <2>1 DEF Wrote, HasCursor
  <2>5. (\A u \in Threads : Wrote(u) /\ pc[u] = "commit" =>
           /\ ~Conflicts(call[u], table)
           /\ view = Effect(call[u], table))'
    BY <2>1, <2>3 DEF WriteInv, Conflicts, Effect, Key
  <2>6. (\A u \in Threads : pc[u] \in {"acquire", "execute", "commit"} => ~applied[u])'
    BY <2>1 DEF WriteInv
  <2> QED
    BY <2>1, <2>4, <2>5, <2>6 DEF WriteInv
<1>9. ASSUME NEW t \in Threads, CommitNothing(t)
      PROVE  WriteInv'
  <2>1. /\ UNCHANGED <<connection, table, call, cursor, applied, writer, view>>
        /\ Current(t) # writer
        /\ \A u \in Threads : pc'[u] = IF u = t THEN "fetch" ELSE pc[u]
    BY <1>9 DEF CommitNothing, store, TypeOK
  <2>2. \A u \in Threads : pc'[u] \in {"acquire", "execute", "commit"} => ~applied'[u]
    BY <2>1 DEF WriteInv
  <2> QED
    BY <2>1, <2>2, WriteFrame
<1>10. ASSUME NEW t \in Threads, CommitTransaction(t)
       PROVE  WriteInv'
  <2>1. /\ writer' = NoConn
        /\ \A u \in Threads : pc'[u] = IF u = t THEN "fetch" ELSE pc[u]
        /\ \A u \in Threads : u # t => applied'[u] = applied[u]
    BY <1>10 DEF CommitTransaction, TypeOK
  <2>2. \A u \in Threads : ~Wrote(u)'
    BY <2>1 DEF Wrote, ConnInv
  <2>3. (\A u \in Threads : pc[u] \in {"acquire", "execute", "commit"} => ~applied[u])'
    BY <2>1 DEF WriteInv
  <2> QED
    BY <2>1, <2>2, <2>3 DEF WriteInv
<1> QED
  BY <1>1, <1>2, <1>3, <1>5, <1>6, <1>7, <1>8, <1>9, <1>10
     DEF Next, Step, Execute, Commit, Unlocked
-----------------------------------------------------------------------------
\* Calls that overlap in one manager go on being marked.
LEMMA OverlapMarked ==
  ASSUME TypeOK, OverlapInv, [Next]_vars,
         NEW t \in Threads, NEW u \in Threads, t # u, NEW m \in Managers,
         Inside(t, m)', Inside(u, m)'
  PROVE  disturbed'[t]
<1> USE DEF Inside
<1>1. CASE UNCHANGED vars
  BY <1>1 DEF vars, local, OverlapInv
<1>2. ASSUME NEW x \in Threads, NEW c \in Calls, Call(x, c)
      PROVE  disturbed'[t]
  <2>1. /\ \A y \in Threads : y # x => pc'[y] = pc[y] /\ call'[y] = call[y]
        /\ pc'[x] = "acquire" /\ call'[x] = c
        /\ disturbed' = [y \in Threads |->
                          IF y = x THEN \E v \in Threads \ {x} : Inside(v, c.mgr)
                                   ELSE disturbed[y] \/ Inside(y, c.mgr)]
    BY <1>2 DEF Call, TypeOK
  <2>2. CASE x = t
    BY <2>1, <2>2
  <2>3. CASE x = u
    BY <2>1, <2>3
  <2>4. CASE x # t /\ x # u
    <3>1. disturbed[t]
      BY <2>1, <2>4 DEF OverlapInv
    <3> QED
      BY <2>1, <2>4, <3>1
  <2> QED
    BY <2>2, <2>3, <2>4
<1>3. ASSUME NEW x \in Threads, Step(x)
      PROVE  disturbed'[t]
  <2>1. /\ UNCHANGED <<call, disturbed>> /\ pc[x] # "idle"
        /\ \A y \in Threads : y # x => pc'[y] = pc[y]
    BY <1>3 DEF Step, Acquire, Execute, ExecuteClosed, ExecuteBusy, ExecuteConflict,
                ExecuteWrite, ExecuteRead, Commit, CommitClosed, CommitTransaction, CommitNothing,
                Unlocked, FetchClosed, Fetch, Cleanup, RaiseLocked, Leave, TypeOK
  <2>2. Inside(t, m) /\ Inside(u, m)
    BY <2>1
  <2> QED
    BY <2>1, <2>2 DEF OverlapInv
<1> QED
  BY <1>1, <1>2, <1>3 DEF Next

\* A step of one thread leaves alone what an undisturbed thread relies on.
LEMMA OthersKeepOut ==
  ASSUME TypeOK, ConnInv, OverlapInv,
         NEW t \in Threads, ~disturbed'[t], pc[t] # "idle",
         NEW x \in Threads, x # t,
         (\E c \in Calls : Call(x, c)) \/ Step(x)
  PROVE  /\ UNCHANGED <<pc[t], call[t], cursor[t], applied[t], disturbed[t], Current(t)>>
         /\ Current(t) \in open'
         /\ pc[t] = "commit" /\ IsWrite(call[t]) => writer' = writer
<1> USE ConstantsAssumption
<1> DEFINE m == call[t].mgr
<1>0. /\ UNCHANGED disturbed[t]
      /\ \A c \in Calls : Call(x, c) => c.mgr # m
  <2>1. ASSUME NEW c \in Calls, Call(x, c)
        PROVE  UNCHANGED disturbed[t] /\ c.mgr # m
    <3>1. disturbed'[t] = (disturbed[t] \/ Inside(t, c.mgr))
      BY <2>1 DEF Call
    <3>2. disturbed[t] = FALSE /\ disturbed'[t] = FALSE
      BY <3>1 DEF TypeOK, Inside
    <3>3. c.mgr # m
      BY <3>1 DEF Inside
    <3> QED
      BY <3>2, <3>3
  <2>2. CASE Step(x)
    <3>1. UNCHANGED disturbed
      BY <2>2 DEF Step, Acquire, Execute, ExecuteClosed, ExecuteBusy, ExecuteConflict,
                  ExecuteWrite, ExecuteRead, Commit, CommitClosed, CommitTransaction, CommitNothing,
                  Unlocked, FetchClosed, Fetch, Cleanup, RaiseLocked, Leave
    <3>2. pc[x] # "idle"
      BY <2>2 DEF Step, Acquire, Execute, ExecuteClosed, ExecuteBusy, ExecuteConflict,
                  ExecuteWrite, ExecuteRead, Commit, CommitClosed, CommitTransaction, CommitNothing,
                  Unlocked, FetchClosed, Fetch, Cleanup
    <3> QED
      BY <2>1, <3>1
  <2> QED
    BY <2>1, <2>2
<1>1. /\ m \in Managers /\ ~disturbed[t]
      /\ Current(t) = connection[m] /\ Current(t) \in open /\ Current(t) # NoConn
  BY <1>0, Called DEF OverlapInv, Exact, ConnInv, TypeOK, Current
<1>3. pc[x] # "idle" => /\ call[x].mgr \in Managers
                         /\ call[x].mgr # m
                         /\ Current(x) # Current(t)
  <2>1. pc[x] # "idle" => call[x].mgr \in Managers
    BY Called
  <2>2. pc[x] # "idle" => call[x].mgr # m
    BY <1>1 DEF OverlapInv, Inside
  <2> QED
    BY <1>1, <2>1, <2>2 DEF ConnInv, Current
<1>4. pc[t] = "commit" /\ IsWrite(call[t]) => writer = Current(t)
  BY <1>1 DEF OverlapInv, Exact, HasCursor
<1>5. ASSUME NEW opened, Reclaim(opened), Current(t) \in opened, connection'[m] = connection[m]
      PROVE  /\ Current(t) \in open'
             /\ pc[t] = "commit" /\ IsWrite(call[t]) => writer' = writer
  BY <1>1, <1>4, <1>5 DEF Reclaim
<1>6. CASE \E c \in Calls : Call(x, c)
  <2>1. PICK c \in Calls : Call(x, c)
    BY <1>6
  <2>2. c.mgr # m
    BY <1>0, <2>1
  <2>3. connection'[m] = connection[m] /\ Reclaim(open \cup {NewConn})
    BY <1>1, <2>1, <2>2 DEF Call, TypeOK
  <2>4. UNCHANGED <<pc[t], call[t], cursor[t], applied[t]>>
    BY <2>1 DEF Call, TypeOK
  <2> QED
    BY <1>0, <1>1, <1>5, <2>3, <2>4 DEF Current
<1>7. CASE Step(x)
  <2>1. pc[x] # "idle" /\ UNCHANGED connection /\ UNCHANGED <<pc[t], call[t], cursor[t], applied[t]>>
    BY <1>7 DEF Step, Acquire, Execute, ExecuteClosed, ExecuteBusy, ExecuteConflict,
                ExecuteWrite, ExecuteRead, Commit, CommitClosed, CommitTransaction, CommitNothing,
                Unlocked, FetchClosed, Fetch, Cleanup, RaiseLocked, Leave, TypeOK
  <2>2. UNCHANGED Current(t)
    BY <2>1 DEF Current
  <2>3. CASE Reclaim(open) \/ Reclaim(open \ {Current(x)})
    BY <1>0, <1>1, <1>3, <1>5, <2>1, <2>2, <2>3
  <2>4. CASE UNCHANGED open /\ (UNCHANGED writer \/ writer \in {NoConn, Current(x)})
    BY <1>0, <1>1, <1>3, <1>4, <2>1, <2>2, <2>4
  <2>5. \/ Reclaim(open) \/ Reclaim(open \ {Current(x)})
        \/ UNCHANGED open /\ (UNCHANGED writer \/ writer \in {NoConn, Current(x)})
    BY <1>7 DEF Step, Acquire, Execute, ExecuteClosed, ExecuteBusy, ExecuteConflict,
                ExecuteWrite, ExecuteRead, Commit, CommitClosed, CommitTransaction, CommitNothing,
                Unlocked, FetchClosed, Fetch, Cleanup, store
  <2> QED
    BY <1>0, <2>1, <2>2, <2>3, <2>4, <2>5
<1> QED
  BY <1>6, <1>7

\* An undisturbed thread finds its connection open and its own
\* transaction in it, at every step of a call.
LEMMA OverlapStep ==
  ASSUME TypeOK, LockInv, ConnInv, OpenInv, WriteInv, OverlapInv, [Next]_vars
  PROVE  OverlapInv'
<1> USE ConstantsAssumption
<1> USE DEF Exact
<1>1. CASE UNCHANGED vars
  BY <1>1 DEF vars, local, store, OverlapInv, Inside, HasCursor, Current, IsWrite
<1>2. ASSUME NEW x \in Threads, (\E c \in Calls : Call(x, c)) \/ Step(x)
      PROVE  OverlapInv'
  <2>1. (\A t, u \in Threads, m \in Managers :
           t # u /\ Inside(t, m) /\ Inside(u, m) => disturbed[t])'
    BY OverlapMarked
  <2>2. ASSUME NEW t \in Threads, ~disturbed'[t], pc'[t] # "idle", t # x
        PROVE  Exact(t)'
    <3>1. pc[t] # "idle"
      BY <1>2, <2>2
         DEF Call, Step, Acquire, Execute, ExecuteClosed, ExecuteBusy, ExecuteConflict,
             ExecuteWrite, ExecuteRead, Commit, CommitClosed, CommitTransaction, CommitNothing,
             Unlocked, FetchClosed, Fetch, Cleanup, RaiseLocked, Leave, TypeOK
    <3>2. ~disturbed[t]
      BY <1>2, <2>2, <3>1, OthersKeepOut
    <3>3. Exact(t)
      BY <3>1, <3>2 DEF OverlapInv
    <3> QED
      BY <1>2, <2>2, <3>1, <3>3, OthersKeepOut DEF HasCursor, IsWrite
  <2>3. ASSUME ~disturbed'[x], pc'[x] # "idle"
        PROVE  Exact(x)'
    <3>1. CASE \E c \in Calls : Call(x, c)
      <4>1. PICK c \in Calls : Call(x, c)
        BY <3>1
      <4>2. /\ c.mgr \in Managers /\ pc'[x] = "acquire" /\ call'[x] = c
            /\ connection' = [connection EXCEPT ![c.mgr] = NewConn]
            /\ Reclaim(open \cup {NewConn})
        BY <4>1 DEF Call, TypeOK, Calls
      <4>3. Current(x)' = NewConn /\ connection'[c.mgr] = NewConn
        BY <4>2 DEF Current, TypeOK
      <4>4. NewConn \in open'
        BY <4>2, <4>3 DEF Reclaim
      <4> QED
        BY <4>2, <4>3, <4>4 DEF HasCursor
    <3>2. CASE pc[x] # "idle" /\ UNCHANGED <<connection, call, disturbed, open>>
      <4>1. Exact(x) /\ UNCHANGED Current(x) /\ UNCHANGED IsWrite(call[x])
        BY <2>3, <3>2 DEF OverlapInv, Current, IsWrite
      <4>2. CASE Acquire(x) \/ Fetch(x) \/ CommitNothing(x)
        BY <4>1, <4>2 DEF Acquire, Fetch, CommitNothing, store, HasCursor, TypeOK
      <4>3. CASE ExecuteWrite(x) \/ ExecuteRead(x)
        <5>1. /\ pc'[x] = "commit" /\ cursor'[x] = Current(x) /\ open' = open
              /\ IsWrite(call[x]) => writer' = Current(x)
          <6>1. CASE ExecuteWrite(x)
            BY <6>1 DEF ExecuteWrite, TypeOK
          <6>2. CASE ExecuteRead(x)
            BY <6>2 DEF ExecuteRead, TypeOK, store
          <6> QED
            BY <4>3, <6>1, <6>2
        <5> QED
          BY <4>1, <5>1
      <4>4. CASE CommitTransaction(x)
        BY <4>1, <4>4 DEF CommitTransaction, HasCursor, TypeOK
      <4>5. Step(x)
        BY <1>2, <3>2 DEF Call
      <4>6. ~ExecuteClosed(x) /\ ~ExecuteBusy(x) /\ ~ExecuteConflict(x) /\ ~CommitClosed(x)
        BY <2>3 DEF ExecuteClosed, ExecuteBusy, ExecuteConflict, CommitClosed, RaiseLocked,
                    Leave, TypeOK
      <4>7. ~FetchClosed(x) /\ ~Cleanup(x)
        BY <2>3 DEF FetchClosed, Cleanup, Leave, TypeOK
      <4> QED
        BY <4>2, <4>3, <4>4, <4>5, <4>6, <4>7 DEF Step, Execute, Commit, Unlocked
    <3> QED
      BY <1>2, <2>3, <3>1, <3>2
         DEF Step, Acquire, Execute, ExecuteClosed, ExecuteBusy, ExecuteConflict,
             ExecuteWrite, ExecuteRead, Commit, CommitClosed, CommitTransaction, CommitNothing,
             Unlocked, FetchClosed, Fetch, Cleanup, RaiseLocked, Leave, TypeOK, store
  <2>4. (\A t \in Threads : pc[t] # "idle" /\ ~disturbed[t] => Exact(t))'
    BY <2>2, <2>3
  <2> QED
    BY <2>1, <2>4 DEF OverlapInv
<1> QED
  BY <1>1, <1>2 DEF Next
-----------------------------------------------------------------------------
\* In the initial states nothing runs, so every part of IInv holds.
LEMMA InitIInv == Init => IInv
<1> USE ConstantsAssumption
<1> SUFFICES ASSUME Init PROVE IInv
  OBVIOUS
<1>1. TypeOK
  BY DEF Init, TypeOK, PCs, Database
<1>2. LockInv /\ ConnInv /\ OpenInv /\ WriteInv /\ OverlapInv
  BY DEF Init, LockInv, ConnInv, OpenInv, WriteInv, OverlapInv, Inside, HasCursor, Wrote, Current, Held
<1> QED
  BY <1>1, <1>2 DEF IInv

\* Every step keeps the whole invariant.
LEMMA StepIInv == IInv /\ [Next]_vars => IInv'
<1> SUFFICES ASSUME IInv, [Next]_vars PROVE IInv'
  OBVIOUS
<1>1. TypeOK' /\ LockInv' /\ ConnInv' /\ OpenInv'
  BY TypeStep, LockStep, ConnStep, OpenStep DEF IInv
<1>2. WriteInv' /\ OverlapInv'
  BY <1>1, WriteStep, OverlapStep DEF IInv
<1> QED
  BY <1>1, <1>2 DEF IInv

\* The inductive invariant holds in every reachable state.
THEOREM Invariance == Spec => []IInv
  BY InitIInv, StepIInv, PTL DEF Spec

\* No dirty transaction waits on a connection that another call might commit
\* (manager.py:50-56), for any number of threads.
THEOREM NoAbandonedWrite == Spec => []DirtyInFlight
<1>1. IInv => DirtyInFlight
  <2> SUFFICES ASSUME IInv, writer # NoConn, view # table
               PROVE  /\ \E t \in Threads : HasCursor(t) /\ cursor[t] = writer
                      /\ \A m \in Managers :
                           connection[m] = writer =>
                             \E t \in Threads :
                               /\ pc[t] = "commit" /\ lock[m] = t /\ cursor[t] = writer
                               /\ view = Effect(call[t], table)
    BY DEF DirtyInFlight
  <2>1. ASSUME NEW m \in Managers, connection[m] = writer
        PROVE  \E t \in Threads :
                 /\ pc[t] = "commit" /\ lock[m] = t /\ cursor[t] = writer
                 /\ view = Effect(call[t], table)
    <3>1. PICK t \in Threads : Wrote(t) /\ pc[t] = "commit" /\ call[t].mgr = m
      BY <2>1 DEF IInv, WriteInv
    <3>2. view = Effect(call[t], table) /\ lock[m] = t /\ cursor[t] = writer
      BY <3>1 DEF IInv, WriteInv, LockInv, Wrote
    <3> QED
      BY <3>1, <3>2
  <2>2. writer \in Held
    BY DEF IInv, OpenInv
  <2>3. \E t \in Threads : cursor[t] = writer
    BY <2>1, <2>2 DEF Held
  <2> QED
    BY <2>1, <2>3 DEF IInv, ConnInv
<1> QED
  BY <1>1, Invariance, PTL

\* A thread that commits a transaction that changes the table is the thread
\* whose write is in it.
LEMMA CommitsOwn ==
  ASSUME IInv, NEW t \in Threads, CommitTransaction(t), view # table
  PROVE  Wrote(t)
<1>1. call[t].mgr \in Managers /\ connection[call[t].mgr] = writer /\ writer # NoConn
  BY Called DEF CommitTransaction, Current, IInv, ConnInv
<1>2. PICK u \in Threads : Wrote(u) /\ pc[u] = "commit" /\ call[u].mgr = call[t].mgr
  BY <1>1 DEF IInv, WriteInv
<1>3. pc[t] = "commit"
  BY DEF CommitTransaction
<1> QED
  BY <1>2, <1>3, Exclusion DEF IInv

\* The table changes only when a thread commits, and then by that thread's own
\* statement, once.
THEOREM OwnWritesOnly == Spec => PublishesOwn
<1> DEFINE A == table' # table =>
                  \E t \in Threads :
                    /\ pc[t] = "commit" /\ pc'[t] = "fetch"
                    /\ ~applied[t] /\ applied'[t]
                    /\ table' = Effect(call[t], table)
<1>1. IInv /\ [Next]_vars => [A]_vars
  <2> SUFFICES ASSUME IInv, Next, table' # table
               PROVE  A
    OBVIOUS
  <2>1. PICK t \in Threads : (\E c \in Calls : Call(t, c)) \/ Step(t)
    BY DEF Next
  <2>2. CommitTransaction(t)
    BY <2>1 DEF Call, Step, Acquire, Execute, ExecuteClosed, ExecuteBusy, ExecuteConflict,
                ExecuteWrite, ExecuteRead, Commit, CommitClosed, CommitNothing,
                Unlocked, FetchClosed, Fetch, Cleanup, store
  <2>3. Wrote(t) /\ pc[t] = "commit" /\ table' = view
    BY <2>2, CommitsOwn DEF CommitTransaction
  <2>4. ~applied[t] /\ table' = Effect(call[t], table)
    BY <2>3 DEF IInv, WriteInv
  <2>5. pc'[t] = "fetch" /\ applied'[t]
    BY <2>2, <2>3 DEF CommitTransaction, Wrote, IInv, TypeOK
  <2> QED
    BY <2>3, <2>4, <2>5
<1> QED
  BY <1>1, Invariance, PTL DEF Spec, PublishesOwn
-----------------------------------------------------------------------------
\* The verdict of an undisturbed call is right when the call returns, and nobody
\* changes it afterwards.
LEMMA ExactStep ==
  ASSUME IInv, UndisturbedExact, [Next]_vars
  PROVE  UndisturbedExact'
<1> SUFFICES ASSUME NEW t \in Threads, ~disturbed'[t], pc'[t] = "idle", call'[t] # NoCall
             PROVE  /\ result'[t] = "ok" /\ IsWrite(call'[t]) => applied'[t]
                    /\ result'[t] = "raised" => IsWrite(call'[t]) /\ ~applied'[t]
  BY DEF UndisturbedExact, IsWrite
<1>1. CASE UNCHANGED <<pc[t], call[t], result[t], applied[t], disturbed[t]>>
  BY <1>1 DEF UndisturbedExact
<1>2. CASE pc[t] # "idle" /\ (ExecuteBusy(t) \/ ExecuteConflict(t))
  <2>1. IsWrite(call[t]) /\ pc[t] = "execute"
    BY <1>2 DEF ExecuteBusy, ExecuteConflict, Conflicts, IsWrite
  <2>2. ~applied[t]
    BY <2>1 DEF IInv, WriteInv
  <2>3. UNCHANGED <<call, applied>> /\ result'[t] = "raised"
    BY <1>2 DEF ExecuteBusy, ExecuteConflict, RaiseLocked, Leave, IInv, TypeOK
  <2> QED
    BY <2>1, <2>2, <2>3 DEF IsWrite
<1>3. CASE Cleanup(t) /\ ~disturbed[t]
  <2>1. IsWrite(call[t]) => applied[t]
    BY <1>3 DEF Cleanup, IInv, OverlapInv, Exact
  <2>2. UNCHANGED <<call, applied>> /\ result'[t] = "ok"
    BY <1>3 DEF Cleanup, Leave, IInv, TypeOK
  <2> QED
    BY <2>1, <2>2 DEF IsWrite
<1>4. CASE pc[t] # "idle" /\ ~disturbed[t] /\ Step(t)
  <2>1. Current(t) \in open /\ (HasCursor(t) => cursor[t] \in open)
    BY <1>4 DEF IInv, OverlapInv, Exact
  <2>2. ~ExecuteClosed(t) /\ ~CommitClosed(t) /\ ~FetchClosed(t)
    BY <2>1 DEF ExecuteClosed, CommitClosed, FetchClosed, HasCursor
  <2>3. ~Acquire(t) /\ ~ExecuteWrite(t) /\ ~ExecuteRead(t) /\ ~Fetch(t)
    BY DEF Acquire, ExecuteWrite, ExecuteRead, Fetch, IInv, TypeOK
  <2>4. ~CommitTransaction(t) /\ ~CommitNothing(t)
    BY DEF CommitTransaction, CommitNothing, IInv, TypeOK
  <2> QED
    BY <1>2, <1>3, <1>4, <2>2, <2>3, <2>4 DEF Step, Execute, Commit, Unlocked
<1>5. ASSUME NEW x \in Threads, x # t, (\E c \in Calls : Call(x, c)) \/ Step(x)
      PROVE  UNCHANGED <<pc[t], call[t], result[t], applied[t], disturbed[t]>>
  <2>1. CASE \E c \in Calls : Call(x, c)
    BY <1>5, <2>1 DEF Call, IInv, TypeOK
  <2>2. CASE Step(x)
    BY <1>5, <2>2 DEF Step, Acquire, Execute, ExecuteClosed, ExecuteBusy, ExecuteConflict,
                ExecuteWrite, ExecuteRead, Commit, CommitClosed, CommitTransaction, CommitNothing,
                Unlocked, FetchClosed, Fetch, Cleanup, RaiseLocked, Leave, IInv, TypeOK
  <2> QED
    BY <1>5, <2>1, <2>2
<1>6. ASSUME NEW c \in Calls, Call(t, c)
      PROVE  FALSE
  BY <1>6 DEF Call, IInv, TypeOK
<1>7. Step(t) => pc[t] # "idle" /\ UNCHANGED disturbed
  BY DEF Step, Acquire, Execute, ExecuteClosed, ExecuteBusy, ExecuteConflict,
         ExecuteWrite, ExecuteRead, Commit, CommitClosed, CommitTransaction, CommitNothing,
         Unlocked, FetchClosed, Fetch, Cleanup, RaiseLocked, Leave
<1>8. UNCHANGED vars => UNCHANGED <<pc[t], call[t], result[t], applied[t], disturbed[t]>>
  BY DEF vars, local
<1> QED
  BY <1>1, <1>4, <1>5, <1>6, <1>7, <1>8 DEF Next

\* A thread that is alone in a manager is told the truth about its writes, and
\* its lookups never raise, although other managers use the same file and though
\* other calls may have failed before (message_manager.py:51, client_manager.py:50).
THEOREM UndisturbedAreServed == Spec => []UndisturbedExact
<1>1. Init => UndisturbedExact
  BY DEF Init, UndisturbedExact
<1> QED
  BY <1>1, ExactStep, Invariance, PTL DEF Spec
-----------------------------------------------------------------------------
\* The initial states are those of the contract.
LEMMA RefineInit == Init => Contract!Init
  BY DEF Init, Contract!Init, phase, Served, HasCursor, Database, Contract!Database

\* A return from do_sql is the contract's Return.
LEMMA RefineLeave ==
  ASSUME IInv, NEW t \in Threads, NEW r \in {"ok", "raised"}, Leave(t, r), UNCHANGED table,
         pc[t] # "idle",
         r = "ok" => pc[t] = "cleanup"
  PROVE  Contract!Return(t, r)
<1>1. phase[t] # "idle"
  BY DEF phase
<1>2. r = "ok" => phase[t] = "served" \/ IsWrite(call[t])
  BY DEF phase, Served, HasCursor
<1>3. phase' = [phase EXCEPT ![t] = "idle"]
  BY DEF phase, Served, HasCursor, IsWrite, Leave, IInv, TypeOK
<1> QED
  BY <1>1, <1>2, <1>3 DEF Contract!Return, Contract!IsWrite, IsWrite, Leave

\* Every step of do_sql is a step of the contract or changes nothing it sees.
LEMMA RefineStep ==
  ASSUME IInv, IInv', [Next]_vars
  PROVE  [Contract!Next]_Contract!vars
<1> USE DEF Contract!vars
<1>1. CASE UNCHANGED vars
  BY <1>1 DEF vars, local, store, phase, Served, HasCursor, IsWrite
<1>2. ASSUME NEW t \in Threads, NEW c \in Calls, Call(t, c)
      PROVE  Contract!Invoke(t, c)
  <2>1. pc[t] = "idle" /\ pc' = [pc EXCEPT ![t] = "acquire"]
        /\ call' = [call EXCEPT ![t] = c] /\ applied' = [applied EXCEPT ![t] = FALSE]
    BY <1>2 DEF Call
  <2>2. phase[t] = "idle" /\ phase' = [phase EXCEPT ![t] = "called"]
    BY <2>1 DEF phase, Served, HasCursor, IsWrite, IInv, TypeOK
  <2> QED
    BY <1>2, <2>2 DEF Contract!Invoke, Call
<1>3. ASSUME NEW t \in Threads, Acquire(t) \/ Fetch(t) \/ CommitNothing(t)
      PROVE  UNCHANGED Contract!vars
  <2>1. /\ UNCHANGED <<table, call, found, result, cursor, applied>>
        /\ pc[t] # "idle"
        /\ \A u \in Threads : pc'[u] # "idle" <=> pc[u] # "idle"
        /\ \A u \in Threads : HasCursor(u)' = HasCursor(u)
    BY <1>3 DEF Acquire, Fetch, CommitNothing, store, HasCursor, IInv, TypeOK
  <2>2. UNCHANGED phase
    BY <2>1 DEF phase, Served, IsWrite
  <2> QED
    BY <2>1, <2>2
<1>4. ASSUME NEW t \in Threads,
             \/ ExecuteClosed(t) \/ ExecuteBusy(t) \/ ExecuteConflict(t) \/ CommitClosed(t)
             \/ FetchClosed(t) \/ Cleanup(t)
      PROVE  \E r \in {"ok", "raised"} : Contract!Return(t, r)
  <2>1. PICK r \in {"ok", "raised"} :
          Leave(t, r) /\ UNCHANGED table /\ pc[t] # "idle" /\ (r = "ok" => pc[t] = "cleanup")
    BY <1>4 DEF ExecuteClosed, ExecuteBusy, ExecuteConflict, CommitClosed, FetchClosed, Cleanup,
                RaiseLocked
  <2> QED
    BY <2>1, RefineLeave
<1>5. ASSUME NEW t \in Threads, ExecuteWrite(t)
      PROVE  UNCHANGED Contract!vars
  <2>1. /\ UNCHANGED <<table, call, found, result, applied>>
        /\ pc[t] = "execute" /\ pc' = [pc EXCEPT ![t] = "commit"]
        /\ IsWrite(call[t])
    BY <1>5 DEF ExecuteWrite
  <2>2. ~applied[t]
    BY <2>1 DEF IInv, WriteInv
  <2>3. UNCHANGED phase
    BY <2>1, <2>2 DEF phase, Served, HasCursor, IsWrite, IInv, TypeOK
  <2> QED
    BY <2>1, <2>3
<1>6. ASSUME NEW t \in Threads, ExecuteRead(t)
      PROVE  Contract!Read(t)
  <2>1. /\ pc[t] = "execute" /\ pc' = [pc EXCEPT ![t] = "commit"]
        /\ found' = [found EXCEPT ![t] = Key(call[t]) \in table]
        /\ UNCHANGED <<table, call, result, applied>>
    BY <1>6, CleanAtExecute DEF ExecuteRead, store, IInv
  <2>2. ~IsWrite(call[t])
    BY <1>6 DEF ExecuteRead
  <2>3. phase[t] = "called" /\ phase' = [phase EXCEPT ![t] = "served"]
    BY <2>1, <2>2 DEF phase, Served, HasCursor, IsWrite, IInv, TypeOK
  <2> QED
    BY <2>1, <2>2, <2>3 DEF Contract!Read, Contract!IsWrite, IsWrite, Contract!Key, Key
<1>7. ASSUME NEW t \in Threads, CommitTransaction(t)
      PROVE  Contract!Write(t) \/ UNCHANGED Contract!vars
  <2>1. /\ pc[t] = "commit" /\ pc' = [pc EXCEPT ![t] = "fetch"]
        /\ table' = view
        /\ applied' = [applied EXCEPT ![t] = cursor[t] = writer /\ IsWrite(call[t])]
        /\ UNCHANGED <<call, found, result>>
    BY <1>7 DEF CommitTransaction
  <2>2. ~applied[t]
    BY <2>1 DEF IInv, WriteInv
  <2>3. CASE Wrote(t)
    <3>1. ~Conflicts(call[t], table) /\ table' = Effect(call[t], table)
      BY <2>1, <2>3 DEF IInv, WriteInv
    <3>2. IsWrite(call[t]) /\ applied' = [applied EXCEPT ![t] = TRUE]
      BY <2>1, <2>3 DEF Wrote
    <3>3. phase[t] = "called" /\ phase' = [phase EXCEPT ![t] = "served"]
      BY <2>1, <2>2, <3>2 DEF phase, Served, HasCursor, IsWrite, IInv, TypeOK
    <3>4. Contract!IsWrite(call[t]) /\ ~Contract!Conflicts(call[t], table)
          /\ table' = Contract!Effect(call[t], table)
      BY <3>1, <3>2 DEF Contract!IsWrite, IsWrite, Contract!Conflicts, Conflicts,
                        Contract!Effect, Effect, Contract!Key, Key
    <3> QED
      BY <2>1, <3>3, <3>4 DEF Contract!Write
  <2>4. CASE ~Wrote(t)
    <3>1. view = table
      BY <1>7, <2>4, CommitsOwn
    <3>2. ~(cursor[t] = writer /\ IsWrite(call[t]))
      BY <2>1, <2>4 DEF Wrote, HasCursor
    <3>3. applied' = applied
      BY <2>1, <2>2, <3>2 DEF IInv, TypeOK
    <3>4. UNCHANGED phase
      BY <2>1, <3>3 DEF phase, Served, HasCursor, IsWrite, IInv, TypeOK
    <3> QED
      BY <2>1, <3>1, <3>4
  <2> QED
    BY <2>3, <2>4
<1>8. Calls = Contract!Calls
  BY DEF Calls, Contract!Calls, Ops, Contract!Ops
<1> QED
  BY <1>1, <1>2, <1>3, <1>4, <1>5, <1>6, <1>7, <1>8
     DEF Next, Step, Execute, Commit, Unlocked, Contract!Next

\* do_sql implements its contract for any number of threads and managers.
THEOREM Refinement == Spec => RefinesContract
<1>1. IInv /\ IInv' /\ [Next]_vars => [Contract!Next]_Contract!vars
  BY RefineStep
<1> QED
  BY <1>1, RefineInit, Invariance, PTL DEF Spec, RefinesContract, Contract!Spec
=============================================================================
