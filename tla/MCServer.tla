------------------------------ MODULE MCServer ------------------------------
(* Server for TLC: three connections, one client registered earlier with a  *)
(* message that may be waiting for it, and message ids that never repeat.   *)
EXTENDS Server, TLC

CONSTANTS w1, w2, w3, alice

MCIds == Workers \cup Founders

MCDraws == [w \in Workers |-> {w}]

MCOldMail == {[id |-> alice, to |-> alice, by |-> alice]}

MCAsked ==
  {r \in Requests :
    CASE r.code = "register"        -> r.name = "b"
      [] r.code \in {"list", "key"} -> r.who = alice
      [] OTHER                      -> TRUE}

Symmetry == Permutations({w1, w2, w3})
=============================================================================
