----------------------------- MODULE MCExchange -----------------------------
(* Exchange for TLC: headers of two bytes and packets of three, and requests *)
(* and responses of every length around them.                                *)
EXTENDS Exchange, SequencesExt

Mails == BoundedSeq(0 .. 2, 3)

MCCalls ==
  [kind : {"checked", "unchecked"}, size : 1 .. 7, body : {1, 3}, mail : {<<>>}]
    \cup [kind : {"list"}, size : {0}, body : 0 .. 9, mail : {<<>>}]
    \cup {[kind |-> "fetch", size |-> 0, mail |-> m,
           body |-> FoldLeft(LAMBDA total, content : total + MsgHeader + content, 0, m)] :
            m \in Mails}
=============================================================================
