----------------------------- MODULE MCMessage -----------------------------
(***************************************************************************)
(* Instances of Message for TLC.  Messages and senders are model values;   *)
(* the messages that are not empty are interchangeable.                    *)
(***************************************************************************)
EXTENDS Message, TLC

CONSTANTS m1, m2, m3, e1, n1, f1

MCMessages  == {m1, m2, e1}
MC3Messages == {m1, m2, m3}
MCEmpty     == {e1}
NoMessages  == {}
OneNet      == {n1}
OneFile     == {f1}

Symmetry3 == Permutations({m1, m2, m3})
=============================================================================
