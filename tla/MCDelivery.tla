----------------------------- MODULE MCDelivery -----------------------------
(* Delivery for TLC: three messages between two users, two fetches; texts   *)
(* of the greatest length that can be displayed and of the least that       *)
(* cannot be typed, and with the keys and the requests for keys a short and *)
(* an empty message.                                                        *)
EXTENDS Delivery

CONSTANTS a, b, w1, w2

MCTexts == {65511, 65516}

Symmetry == Permutations({a, b}) \cup Permutations({w1, w2})
=============================================================================
