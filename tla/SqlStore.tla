------------------------------ MODULE SqlStore ------------------------------
(****************************************************************************)
(* What Manager.do_sql promises its callers when several threads share a    *)
(* manager: the abstract specification that module Manager implements.      *)
(*                                                                          *)
(* A call takes effect at one instant between its invocation and its        *)
(* return, at most once, and nothing else ever changes the database.  A     *)
(* SELECT that returns has read the database as it stood at one instant of  *)
(* the call.  That is all: a write may report success without having taken  *)
(* effect, and any call may raise, whether or not it took effect.           *)
(****************************************************************************)
EXTENDS Sql

CONSTANTS Threads, NoCall

VARIABLES
  table,    \* the committed contents of server.db
  call,     \* the last statement of each thread
  phase,    \* "idle", "called" (no effect so far) or "served" (effect taken)
  found,    \* what the thread's SELECT saw
  result    \* how the thread's last call ended

vars == <<table, call, phase, found, result>>

Init ==
  /\ table \in Database
  /\ call = [t \in Threads |-> NoCall]
  /\ phase = [t \in Threads |-> "idle"]
  /\ found = [t \in Threads |-> FALSE]
  /\ result = [t \in Threads |-> "none"]

Invoke(t, c) ==
  /\ phase[t] = "idle"
  /\ call' = [call EXCEPT ![t] = c]
  /\ phase' = [phase EXCEPT ![t] = "called"]
  /\ found' = [found EXCEPT ![t] = FALSE]
  /\ result' = [result EXCEPT ![t] = "none"]
  /\ UNCHANGED table

Read(t) ==
  /\ phase[t] = "called" /\ ~IsWrite(call[t])
  /\ found' = [found EXCEPT ![t] = Key(call[t]) \in table]
  /\ phase' = [phase EXCEPT ![t] = "served"]
  /\ UNCHANGED <<table, call, result>>

Write(t) ==
  /\ phase[t] = "called" /\ IsWrite(call[t])
  /\ ~Conflicts(call[t], table)
  /\ table' = Effect(call[t], table)
  /\ phase' = [phase EXCEPT ![t] = "served"]
  /\ UNCHANGED <<call, found, result>>

Return(t, r) ==
  /\ phase[t] # "idle"
  /\ r = "ok" => phase[t] = "served" \/ IsWrite(call[t])
  /\ phase' = [phase EXCEPT ![t] = "idle"]
  /\ result' = [result EXCEPT ![t] = r]
  /\ UNCHANGED <<table, call, found>>

Next ==
  \E t \in Threads :
    \/ \E c \in Calls : Invoke(t, c)
    \/ Read(t)
    \/ Write(t)
    \/ \E r \in {"ok", "raised"} : Return(t, r)

Spec == Init /\ [][Next]_vars
=============================================================================
