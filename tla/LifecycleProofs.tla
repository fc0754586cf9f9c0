-------------------------- MODULE LifecycleProofs ---------------------------
(****************************************************************************)
(* Theorems about the server's process for any number of sessions, any      *)
(* backlog and any number of interrupts.                                    *)
(****************************************************************************)
EXTENDS Lifecycle, TLAPS

\* Between accept and the end of __spawn_worker the loop has a socket.
SockInv ==
  main \in {"accepted", "spawn", "started", "failed", "append"} => sock \in Sessions

\* Only an interrupt ends the accept loop, and only one more kills.
CutInv ==
  /\ main \in {"join", "finalise", "down"} => interrupts >= 1
  /\ \A s \in Sessions : worker[s] = "killed" => interrupts >= 2

\* Before the first interrupt a thread that runs is in the list, or the main
\* thread is about to enter it.
ListInv ==
  /\ interrupts = 0 => \A s \in Sessions : Running(s) =>
       s \in listed \/ (main \in {"started", "append"} /\ s = sock)
  /\ CleanupMissesNone

IInv == TypeOK /\ SockInv /\ CutInv /\ ListInv

\* The backlog is a queue of at most as many connections as listen was told.
LEMMA QueueType ==
  ASSUME TypeOK
  PROVE  /\ \A s \in Sessions : Append(queue, s) \in Seq(Sessions)
                                  /\ Len(Append(queue, s)) = Len(queue) + 1
         /\ queue # <<>> => /\ Head(queue) \in Sessions
                            /\ Tail(queue) \in Seq(Sessions)
                            /\ Len(Tail(queue)) <= Len(queue)
  BY DEF TypeOK

\* The initial state.
LEMMA InitIInv == Init => IInv
<1> SUFFICES ASSUME Init PROVE IInv
  OBVIOUS
<1> USE LifecycleAssumption DEF Init
<1>1. TypeOK
  <2>1. <<>> \in Seq(Sessions) /\ Len(<<>>) = 0
    OBVIOUS
  <2> QED
    BY <2>1 DEF TypeOK, Points
<1>2. SockInv /\ CutInv
  BY DEF SockInv, CutInv
<1>3. ListInv
  BY DEF ListInv, CleanupMissesNone, Running, Alive
<1> QED
  BY <1>1, <1>2, <1>3 DEF IInv

\* The types of the variables, for every step.
LEMMA TypeStep ==
  ASSUME TypeOK, SockInv, [Next]_vars
  PROVE  TypeOK'
<1> USE LifecycleAssumption DEF TypeOK, Points, Alive
<1>1. CASE UNCHANGED vars
  BY <1>1 DEF vars
<1>2. ASSUME NEW s \in Sessions, Connect(s)
      PROVE  TypeOK'
  <2>1. queue' \in Seq(Sessions) /\ Len(queue') <= Backlog
    BY <1>2, QueueType DEF Connect
  <2> QED
    BY <1>2, <2>1 DEF Connect
<1>3. ASSUME NEW s \in Sessions, Ask(s) \/ LeaveMenu(s) \/ Released(s)
      PROVE  TypeOK'
  BY <1>3 DEF Ask, LeaveMenu, Released
<1>4. ASSUME NEW s \in Sessions, Work(s)
      PROVE  TypeOK'
  BY <1>4 DEF Work, Receive, ReceiveNothing, Handle, Send, WorkerAt
<1>5. CASE Accept
  <2>1. sock' \in Sessions /\ queue' \in Seq(Sessions) /\ Len(queue') <= Backlog
    BY <1>5, QueueType DEF Accept
  <2> QED
    BY <1>5, <2>1 DEF Accept, MainAt
<1>6. CASE Spawn \/ StartFails \/ LogFailure \/ Started
  BY <1>6 DEF Spawn, StartFails, LogFailure, Started, MainAt
<1>7. CASE StartThread
  BY <1>7 DEF StartThread, MainAt
<1>8. CASE AppendWorker
  BY <1>8 DEF AppendWorker, MainAt, SockInv
<1>9. CASE Joined \/ ExitProcess
  BY <1>9 DEF Joined, ExitProcess, MainAt
<1>10. CASE Interrupt
  <2>1. Killed \in [Sessions -> Alive \cup {"none", "ended", "killed"}]
    BY DEF Killed
  <2>2. interrupts' \in 0 .. MaxInterrupts
    BY <1>10 DEF Interrupt
  <2> QED
    BY <1>10, <2>1, <2>2 DEF Interrupt
<1> QED
  BY <1>1, <1>2, <1>3, <1>4, <1>5, <1>6, <1>7, <1>8, <1>9, <1>10 DEF Next, Main

\* The steps of the users leave the main thread, the threads that run and the
\* list of those alone.
LEMMA UserStep ==
  ASSUME TypeOK, NEW s \in Sessions,
         Connect(s) \/ Ask(s) \/ LeaveMenu(s) \/ Released(s)
  PROVE  /\ UNCHANGED <<main, sock, interrupts>>
         /\ \A u \in Sessions : Running(u)' <=> Running(u)
         /\ \A u \in Sessions : Running(u) /\ u \in listed => u \in listed'
         /\ \A u \in Sessions : worker'[u] \in {worker[u], "none"}
<1>1. CASE Connect(s)
  <2>1. ~Running(s) /\ worker' = [worker EXCEPT ![s] = "none"] /\ listed' = listed \ {s}
    BY <1>1 DEF Connect, Held
  <2> QED
    BY <1>1, <2>1 DEF Connect, Running, Alive, TypeOK
<1>2. CASE Ask(s) \/ LeaveMenu(s) \/ Released(s)
  BY <1>2 DEF Ask, LeaveMenu, Released, Running
<1> QED
  BY <1>1, <1>2

\* A worker's step starts no other and does not touch the main thread.
LEMMA WorkStep ==
  ASSUME TypeOK, NEW s \in Sessions, Work(s)
  PROVE  /\ UNCHANGED <<main, sock, listed, interrupts>>
         /\ \A u \in Sessions : Running(u)' => Running(u)
         /\ \A u \in Sessions : worker'[u] = "killed" => worker[u] = "killed"
  BY DEF Work, Receive, ReceiveNothing, Handle, Send, WorkerAt, Running, Alive, TypeOK

\* The loop's socket.
LEMMA SockStep ==
  ASSUME TypeOK, SockInv, [Next]_vars
  PROVE  SockInv'
<1> USE DEF SockInv
<1>1. CASE UNCHANGED vars
  BY <1>1 DEF vars
<1>2. ASSUME NEW s \in Sessions, Connect(s) \/ Ask(s) \/ LeaveMenu(s) \/ Released(s)
      PROVE  SockInv'
  BY <1>2, UserStep
<1>3. ASSUME NEW s \in Sessions, Work(s)
      PROVE  SockInv'
  BY <1>3, WorkStep
<1>4. CASE Accept
  BY <1>4, QueueType DEF Accept, MainAt
<1>5. CASE Spawn \/ StartFails \/ LogFailure \/ Started \/ StartThread \/ AppendWorker
  BY <1>5 DEF Spawn, StartFails, LogFailure, Started, StartThread, AppendWorker, MainAt
<1>6. CASE Joined \/ ExitProcess
  BY <1>6 DEF Joined, ExitProcess, MainAt
<1>7. CASE Interrupt
  BY <1>7 DEF Interrupt
<1> QED
  BY <1>1, <1>2, <1>3, <1>4, <1>5, <1>6, <1>7 DEF Next, Main

\* What has to be interrupted how often.
LEMMA CutStep ==
  ASSUME TypeOK, SockInv, CutInv, [Next]_vars
  PROVE  CutInv'
<1> USE DEF CutInv
<1>1. CASE UNCHANGED vars
  BY <1>1 DEF vars
<1>2. ASSUME NEW s \in Sessions, Connect(s) \/ Ask(s) \/ LeaveMenu(s) \/ Released(s)
      PROVE  CutInv'
  BY <1>2, UserStep
<1>3. ASSUME NEW s \in Sessions, Work(s)
      PROVE  CutInv'
  BY <1>3, WorkStep
<1>4. CASE Accept \/ Spawn \/ StartFails \/ LogFailure \/ Started \/ AppendWorker
  BY <1>4 DEF Accept, Spawn, StartFails, LogFailure, Started, AppendWorker, MainAt
<1>5. CASE StartThread
  BY <1>5 DEF StartThread, MainAt, TypeOK
<1>6. CASE Joined \/ ExitProcess
  BY <1>6 DEF Joined, ExitProcess, MainAt
<1>7. CASE Interrupt
  <2>1. interrupts' = interrupts + 1 /\ interrupts \in Nat
    BY <1>7 DEF Interrupt, TypeOK
  <2>2. CASE main # "finalise"
    BY <1>7, <2>1, <2>2 DEF Interrupt
  <2>3. CASE main = "finalise"
    BY <1>7, <2>1, <2>3 DEF Interrupt
  <2> QED
    BY <2>2, <2>3
<1> QED
  BY <1>1, <1>2, <1>3, <1>4, <1>5, <1>6, <1>7 DEF Next, Main

\* The list of threads.
LEMMA ListStep ==
  ASSUME TypeOK, SockInv, CutInv, ListInv, [Next]_vars
  PROVE  ListInv'
<1> USE DEF ListInv, CleanupMissesNone
<1>1. CASE UNCHANGED vars
  BY <1>1 DEF vars, Running
<1>2. ASSUME NEW s \in Sessions, Connect(s) \/ Ask(s) \/ LeaveMenu(s) \/ Released(s)
      PROVE  ListInv'
  BY <1>2, UserStep
<1>3. ASSUME NEW s \in Sessions, Work(s)
      PROVE  ListInv'
  BY <1>3, WorkStep
<1>4. CASE Accept \/ Spawn \/ StartFails \/ LogFailure
  BY <1>4 DEF Accept, Spawn, StartFails, LogFailure, MainAt, Running
<1>5. CASE StartThread
  <2>1. main = "spawn" /\ main' = "started" /\ UNCHANGED <<sock, listed, interrupts>>
    BY <1>5 DEF StartThread, MainAt
  <2>2. \A u \in Sessions : u # sock => worker'[u] = worker[u]
    BY <1>5 DEF StartThread, TypeOK
  <2> QED
    BY <2>1, <2>2 DEF Running
<1>6. CASE Started
  BY <1>6 DEF Started, MainAt, Running
<1>7. CASE AppendWorker
  BY <1>7 DEF AppendWorker, MainAt, Running
<1>8. CASE Joined \/ ExitProcess
  BY <1>8 DEF Joined, ExitProcess, MainAt, CutInv, Running
<1>9. CASE Interrupt
  <2>1. interrupts' = interrupts + 1 /\ interrupts \in Nat /\ listed' = listed
    BY <1>9 DEF Interrupt, TypeOK
  <2>2. main' = "join" => main = "accept" /\ UNCHANGED worker
    BY <1>9 DEF Interrupt
  <2> QED
    BY <2>1, <2>2 DEF Running
<1> QED
  BY <1>1, <1>2, <1>3, <1>4, <1>5, <1>6, <1>7, <1>8, <1>9 DEF Next, Main

\* The invariant holds in every reachable state.
THEOREM LifecycleInvariance == Spec => []IInv
<1>1. IInv /\ [Next]_vars => IInv'
  BY TypeStep, SockStep, CutStep, ListStep DEF IInv
<1> QED
  BY InitIInv, <1>1, PTL DEF Spec

\* The variables keep their types; the backlog is never longer than asked for
\* (server.py:158).
THEOREM LifecycleTypeCorrect == Spec => []TypeOK
<1>1. IInv => TypeOK
  BY DEF IInv
<1> QED
  BY LifecycleInvariance, <1>1, PTL

\* One Ctrl-C never cuts a worker short (server.py:37, :52, :127).
THEOREM OneInterruptCutsNone == Spec => []NoneCutByOne
<1>1. IInv => NoneCutByOne
  BY DEF IInv, CutInv, NoneCutByOne
<1> QED
  BY LifecycleInvariance, <1>1, PTL

\* __cleanup joins every thread that runs (server.py:127).
THEOREM CleanupJoinsAll == Spec => []CleanupMissesNone
<1>1. IInv => CleanupMissesNone
  BY DEF IInv, ListInv
<1> QED
  BY LifecycleInvariance, <1>1, PTL
=============================================================================
