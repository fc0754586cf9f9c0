----------------------------- MODULE MCManager ------------------------------
(* Manager for TLC: two workers share one manager, a third one is the only  *)
(* user of the other.                                                       *)
EXTENDS Manager, TLC

CONSTANTS t1, t2, t3, clients, messages

\* ClientManager never deletes a row.
MCIssues == [m \in Managers |-> IF m = clients THEN {"select", "insert"} ELSE Ops]

MessagesShared == [t \in Threads |-> IF t = t3 THEN {clients} ELSE {messages}]

LiveUses == [t \in Threads |-> IF t = t1 THEN Managers ELSE {messages}]

Symmetry == Permutations({t1, t2})
=============================================================================
