----------------------------- MODULE MCRenamer -----------------------------
(* Instances of Renamer for TLC. *)
EXTENDS Renamer, TLC

Producer == [dest |-> TRUE, log |-> 0, checkpoint |-> FALSE]
Call     == [dest |-> TRUE, log |-> 0, checkpoint |-> TRUE]
Branch   == [dest |-> FALSE, log |-> 0, checkpoint |-> TRUE]

AllKinds == {Producer, Call, Branch}

RegisterSymmetry == Permutations(PhysRegs)
=============================================================================
