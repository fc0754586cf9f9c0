------------------------------ MODULE Mailbox -------------------------------
(****************************************************************************)
(* What the server promises about mail: the abstract specification that     *)
(* module Server implements as long as message ids do not repeat.           *)
(*                                                                          *)
(* A message waits from its deposit until it is removed, and it is removed  *)
(* only after some collector has taken a copy for its addressee.  Copies    *)
(* may be taken more than once, and whether a collector ever reaches the    *)
(* client is not promised.                                                  *)
(****************************************************************************)
CONSTANTS
  Collectors, \* those who take copies
  Mail,       \* all messages there can be
  To          \* To[m]: the addressee of m

VARIABLES
  waiting,    \* the messages in the box
  taken       \* taken[w]: the copies collector w holds

vars == <<waiting, taken>>

Init ==
  /\ waiting \in SUBSET Mail
  /\ taken = [w \in Collectors |-> {}]

Deposit(m) ==
  /\ m \notin waiting
  /\ waiting' = waiting \cup {m}
  /\ UNCHANGED taken

\* A collector looks once and copies later: by then the message may already
\* have been taken by another collector and removed.
Take(w, m) ==
  /\ m \in waiting \/ \E u \in Collectors : m \in taken[u]
  /\ \A x \in taken[w] : To[x] = To[m]
  /\ taken' = [taken EXCEPT ![w] = @ \cup {m}]
  /\ UNCHANGED waiting

Remove(m) ==
  /\ m \in waiting
  /\ \E w \in Collectors : m \in taken[w]
  /\ waiting' = waiting \ {m}
  /\ UNCHANGED taken

Next ==
  \/ \E m \in Mail : Deposit(m) \/ Remove(m)
  \/ \E w \in Collectors, m \in Mail : Take(w, m)

Spec == Init /\ [][Next]_vars
=============================================================================
