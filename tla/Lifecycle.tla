----------------------------- MODULE Lifecycle ------------------------------
(****************************************************************************)
(* The server's process from its start to its exit (server.py): the accept  *)
(* loop, the threads it starts, and what KeyboardInterrupt does to the main *)
(* thread wherever it is; beside it the users' programs, each of which      *)
(* connects before it shows its menu (client.cpp:96).                       *)
(*                                                                          *)
(* A session is one pass of the loop in Client::start, from connect to      *)
(* closesocket.  What is said on the connection is module Exchange's        *)
(* matter: here a request arrives whole and a response too.                 *)
(****************************************************************************)
EXTENDS Naturals, Sequences, SequencesExt

CONSTANTS
  Sessions,       \* as many as the server has to do with at one time
  Backlog,        \* MAX_PARALLEL_CONNECTIONS, what listen is called with
  MaxInterrupts,  \* bound: how often the operator presses Ctrl-C
  NoSession

ASSUME LifecycleAssumption ==
  /\ NoSession \notin Sessions
  /\ Backlog \in Nat \ {0}
  /\ MaxInterrupts \in Nat

VARIABLES
  main,        \* where the main thread is
  sock,        \* what connection_socket in loop refers to
  queue,       \* connections made and not yet accepted
  worker,      \* worker[s]: the thread that serves s
  listed,      \* the sessions whose thread is in __connection_workers
  cl,          \* cl[s]: the user's side of s
  answered,    \* the sessions whose response was sent
  interrupts   \* how often Ctrl-C was pressed

vars == <<main, sock, queue, worker, listed, cl, answered, interrupts>>

\* accepted: outside of any try; spawn, started: inside the try of
\* __spawn_worker, before and after the thread runs; failed: in its except;
\* append: behind it; join: in __cleanup;
\* finalise: the interpreter waits for the threads that are left.
Points ==
  {"accept", "accepted", "spawn", "started", "failed", "append", "join", "finalise",
   "down"}

Alive == {"recv", "handle", "send"}

TypeOK ==
  /\ main \in Points
  /\ sock \in Sessions \cup {NoSession}
  /\ queue \in Seq(Sessions) /\ Len(queue) <= Backlog
  /\ worker \in [Sessions -> Alive \cup {"none", "ended", "killed"}]
  /\ listed \in SUBSET Sessions
  /\ cl \in [Sessions -> {"closed", "menu", "waiting"}]
  /\ answered \in SUBSET Sessions
  /\ interrupts \in 0 .. MaxInterrupts

Init ==
  /\ main = "accept" /\ sock = NoSession /\ queue = <<>>
  /\ worker = [s \in Sessions |-> "none"] /\ listed = {}
  /\ cl = [s \in Sessions |-> "closed"] /\ answered = {}
  /\ interrupts = 0

Running(s) == worker[s] \in Alive

\* What the server refers to: a connection it has yet to accept, the accept
\* loop's variable, and a running thread's argument.
Held(s) == Running(s) \/ s \in ToSet(queue) \/ sock = s

\* Fault: the sockets are kept in a list of the server's.
ClosedAtExit(s) == main = "down"

\* A socket that nothing refers to is closed, and so are all at the end.
Closed(s) == main = "down" \/ ~Held(s)
-----------------------------------------------------------------------------
\* The users.

\* Fault: listen is called with one more.
ConnectLonger(s) ==
  /\ cl[s] = "closed" /\ ~Held(s)
  /\ main # "down" /\ Len(queue) <= Backlog
  /\ queue' = Append(queue, s)
  /\ cl' = [cl EXCEPT ![s] = "menu"]
  /\ worker' = [worker EXCEPT ![s] = "none"]
  /\ listed' = listed \ {s}
  /\ answered' = answered \ {s}
  /\ UNCHANGED <<main, sock, interrupts>>

\* A connection that finds the queue full is refused and ends the program.
Connect(s) ==
  /\ cl[s] = "closed" /\ ~Held(s)
  /\ main # "down" /\ Len(queue) < Backlog
  /\ queue' = Append(queue, s)
  /\ cl' = [cl EXCEPT ![s] = "menu"]
  /\ worker' = [worker EXCEPT ![s] = "none"]
  /\ listed' = listed \ {s}
  /\ answered' = answered \ {s}
  /\ UNCHANGED <<main, sock, interrupts>>

Ask(s) ==
  /\ cl[s] = "menu"
  /\ cl' = [cl EXCEPT ![s] = "waiting"]
  /\ UNCHANGED <<main, sock, queue, worker, listed, answered, interrupts>>

\* 0, a number that is no operation, an operation that needs no server, or the
\* program is killed: the connection is closed and nothing was sent.
LeaveMenu(s) ==
  /\ cl[s] = "menu"
  /\ cl' = [cl EXCEPT ![s] = "closed"]
  /\ UNCHANGED <<main, sock, queue, worker, listed, answered, interrupts>>

\* The response, or the end of the connection, which ends the program.
Released(s) ==
  /\ cl[s] = "waiting"
  /\ s \in answered \/ Closed(s)
  /\ cl' = [cl EXCEPT ![s] = "closed"]
  /\ UNCHANGED <<main, sock, queue, worker, listed, answered, interrupts>>
-----------------------------------------------------------------------------
\* The workers.

WorkerAt(s, p, q) ==
  /\ worker[s] = p
  /\ worker' = [worker EXCEPT ![s] = q]
  /\ UNCHANGED <<main, sock, queue, listed, cl, interrupts>>

Receive(s) == cl[s] = "waiting" /\ WorkerAt(s, "recv", "handle") /\ UNCHANGED answered

\* Fault: an empty header is received again.
ReceiveAgain(s) == cl[s] = "closed" /\ WorkerAt(s, "recv", "recv") /\ UNCHANGED answered

ReceiveNothing(s) == cl[s] = "closed" /\ WorkerAt(s, "recv", "ended") /\ UNCHANGED answered

\* The handler returns or raises (module Server).
Handle(s) ==
  /\ WorkerAt(s, "handle", "send") \/ WorkerAt(s, "handle", "ended")
  /\ UNCHANGED answered

Send(s) == WorkerAt(s, "send", "ended") /\ answered' = answered \cup {s}

Work(s) == Receive(s) \/ ReceiveNothing(s) \/ Handle(s) \/ Send(s)
-----------------------------------------------------------------------------
\* The main thread.

MainAt(p, q) ==
  /\ main = p
  /\ main' = q
  /\ UNCHANGED <<cl, answered, interrupts>>

Accept ==
  /\ MainAt("accept", "accepted")
  /\ queue # <<>>
  /\ sock' = Head(queue)
  /\ queue' = Tail(queue)
  /\ UNCHANGED <<worker, listed>>

Spawn == MainAt("accepted", "spawn") /\ UNCHANGED <<sock, queue, worker, listed>>

StartThread ==
  /\ MainAt("spawn", "started")
  /\ worker' = [worker EXCEPT ![sock] = "recv"]
  /\ UNCHANGED <<sock, queue, listed>>

\* "Failed to spawn new worker"; the socket stays with the loop's variable.
StartFails == MainAt("spawn", "failed") /\ UNCHANGED <<sock, queue, worker, listed>>

LogFailure == MainAt("failed", "accept") /\ UNCHANGED <<sock, queue, worker, listed>>

Started == MainAt("started", "append") /\ UNCHANGED <<sock, queue, worker, listed>>

\* Fault: the thread is not entered in the list.
AppendNothing == MainAt("append", "accept") /\ UNCHANGED <<sock, queue, worker, listed>>

AppendWorker ==
  /\ MainAt("append", "accept")
  /\ listed' = listed \cup {sock}
  /\ UNCHANGED <<sock, queue, worker>>

\* __cleanup has joined every thread of the list; sys.exit unwinds loop.
Joined ==
  /\ MainAt("join", "finalise")
  /\ \A s \in listed : ~Running(s)
  /\ sock' = NoSession
  /\ UNCHANGED <<queue, worker, listed>>

Killed == [s \in Sessions |-> IF Running(s) THEN "killed" ELSE worker[s]]

\* Fault: the workers are daemon threads.
ExitAtOnce ==
  /\ MainAt("finalise", "down")
  /\ worker' = Killed
  /\ UNCHANGED <<sock, queue, listed>>

\* The interpreter waits for all threads that are no daemons.
ExitProcess ==
  /\ MainAt("finalise", "down")
  /\ \A s \in Sessions : ~Running(s)
  /\ UNCHANGED <<sock, queue, worker, listed>>

\* KeyboardInterrupt, raised where the main thread is.  Only accept is prepared
\* for it.  The bare except of __spawn_worker takes it for a failure to start a
\* thread, although the thread may run by then; elsewhere it ends loop.  The
\* interpreter gives up waiting when it is interrupted once more.
Interrupt ==
  /\ interrupts < MaxInterrupts
  /\ interrupts' = interrupts + 1
  /\ \/ main = "accept" /\ main' = "join" /\ UNCHANGED worker
     \/ main \in {"spawn", "started"} /\ main' = "failed" /\ UNCHANGED worker
     \/ main \in {"accepted", "failed", "append", "join"} /\ main' = "finalise" /\ UNCHANGED worker
     \/ main = "finalise" /\ main' = "down" /\ worker' = Killed
  /\ UNCHANGED <<sock, queue, listed, cl, answered>>

Main ==
  \/ Accept \/ Spawn \/ StartThread \/ StartFails \/ LogFailure \/ Started
  \/ AppendWorker \/ Joined \/ ExitProcess

Next ==
  \/ Main \/ Interrupt
  \/ \E s \in Sessions : Connect(s) \/ Ask(s) \/ LeaveMenu(s) \/ Released(s) \/ Work(s)

Spec == Init /\ [][Next]_vars

\* All threads of the server run, and a client that waits sees what arrives.
\* Nothing makes a user choose, connect or press Ctrl-C.
FairSpec ==
  Spec /\ WF_vars(Main) /\ \A s \in Sessions : WF_vars(Work(s)) /\ WF_vars(Released(s))
-----------------------------------------------------------------------------
(****************************************************************************)
(* Properties                                                               *)
(****************************************************************************)

\* One Ctrl-C never cuts a worker short, wherever it hits the main thread: the
\* process ends under a running worker only when it is pressed again
\* (server.py:37, :52, :127).
NoneCutByOne == (\E s \in Sessions : worker[s] = "killed") => interrupts >= 2

\* __cleanup joins every thread there is (server.py:127), unless an earlier
\* Ctrl-C came between the start of a thread and its entry in the list.
CleanupMissesNone ==
  main = "join" /\ interrupts = 1 => \A s \in Sessions : Running(s) => s \in listed

Idle(s) == cl[s] = "menu" /\ worker[s] = "recv"

\* After an interrupt that accept has caught, or that has ended loop, the server
\* exits, unless some user stays at the menu for ever: a worker waits for the
\* header of a client that has connected and not chosen (server.py:69, :129).
StopsUnlessIdle ==
  (\E s \in Sessions : <>[]Idle(s)) \/ (main \in {"join", "finalise"} ~> main = "down")

\* What a request may be waiting for without end: an exit that waits for another
\* user's menu, or the next connection, because loop's variable holds the socket
\* of a thread that has died or never ran.
HeldUp(s) ==
  \/ main \in {"join", "finalise"} /\ \E u \in Sessions : Idle(u)
  \/ sock = s /\ ~Running(s)

\* Nothing else holds a user up: a request that was sent is answered, or its
\* connection ends, through interrupts, threads that do not start and handlers
\* that raise (server.py:36, :55, :129).
RequestsReleased ==
  \A s \in Sessions : <>[]HeldUp(s) \/ (cl[s] = "waiting" ~> cl[s] # "waiting")
=============================================================================
