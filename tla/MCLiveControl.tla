--------------------------- MODULE MCLiveControl ----------------------------
(* Instances of LiveControl for TLC: the load plans of its runs. *)
EXTENDS LiveControl

Stage(len, target) == [len |-> len, target |-> target]

\* Up by one and down by two within four seconds.
UpDown == [start |-> 1, stages |-> <<Stage(2, 3), Stage(2, 1)>>]

\* A steady load.
Steady == [start |-> 2, stages |-> <<Stage(2, 2)>>]

\* A first stage of no length: the plan begins with a jump.
Jump == [start |-> 1, stages |-> <<Stage(0, 2), Stage(2, 2)>>]

\* Up for a moment, then back where it was.
Blip == [start |-> 1, stages |-> <<Stage(1, 2), Stage(1, 1), Stage(3, 1)>>]
=============================================================================
