---------------------------- MODULE MCFrontEnds ----------------------------
(***************************************************************************)
(* An instance of FrontEnds for TLC.  The requests name a partition, a     *)
(* number that is 0 when it is cut to the width of an int (4 values here), *)
(* and none with nothing to send; two more never get to the queue.         *)
(***************************************************************************)
EXTENDS FrontEnds, TLC

CONSTANTS m1, m2, e1, o1, b1, n1, n2, t1

Ask(door, form, number) ==
    [door |-> door, topic |-> t1, form |-> form, number |-> number]

AllRequests == m1 :> Ask("set", "number", 1) @@ m2 :> Ask("index", "number", 4)
               @@ e1 :> Ask("set", "none", 0) @@ o1 :> Ask("other", "none", 0)
               @@ b1 :> Ask("set", "extra", 0)

MCRequests == [m \in Messages |-> AllRequests[m]]

OnePart == {[t \in Topics |-> {0}]}

Symmetry == Permutations({n1, n2})
=============================================================================
