------------------------------ MODULE Terminal ------------------------------
(****************************************************************************)
(* What a line typed at the menu means (client/terminal.cpp,                *)
(* client/operation_factory.cpp).  A character is the value of its digit,   *)
(* or Other.                                                                *)
(****************************************************************************)
EXTENDS Naturals, Sequences

Digits == 0 .. 9
Other == 10  \* no digit, and nothing that strtoul skips before digits

\* get_operation_num asks again for a line that is empty or longer.
Lines == UNION {[1 .. n -> Digits \cup {Other}] : n \in 1 .. 2}

\* strtoul of two characters: the digits up to the first other one, or 0.
Number(c, d) ==
  IF c = Other THEN 0 ELSE IF d = Other THEN c ELSE 10 * c + d

\* A single character stands for a number of tens.
OperationNum(line) == Number(line[1], IF Len(line) = 2 THEN line[2] ELSE 0)

OP_EXIT == 0

\* OperationFactory: which operation a number stands for.
Factory ==
  [n \in {10, 20, 30, 40, 50, 51, 52} |->
     CASE n = 10 -> "register"
       [] n = 20 -> "list"
       [] n = 30 -> "key"
       [] n = 40 -> "fetch"
       [] OTHER  -> "send"]

\* The user can type something that create_operation turns into this kind, that
\* ends the program, or that is "Invalid Operation specified".
Offers(kind) == \E line \in Lines :
  OperationNum(line) \in DOMAIN Factory /\ Factory[OperationNum(line)] = kind

OffersExit == \E line \in Lines : OperationNum(line) = OP_EXIT

OffersNothing == \E line \in Lines : OperationNum(line) \notin DOMAIN Factory \cup {OP_EXIT}
=============================================================================
