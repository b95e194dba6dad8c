----------------------------- MODULE MCDatapath -----------------------------
(* Instances of Datapath for TLC. *)
EXTENDS Datapath, TLC

Producer(depth) == [dest |-> TRUE, load |-> FALSE, checkpoint |-> FALSE, depth |-> depth]
Load   == [dest |-> TRUE, load |-> TRUE, checkpoint |-> FALSE, depth |-> 1]
Branch == [dest |-> FALSE, load |-> FALSE, checkpoint |-> TRUE, depth |-> 1]

\* Producers of one and of two cycles
TwoLatencies == {Producer(1), Producer(2)}

\* Loads and branches among producers with the latency of a second execute stage
SlowLoadsAndBranches == {Producer(2), Load, Branch}

RegisterSymmetry == Permutations(PhysRegs) \cup Permutations(LogRegs)
=============================================================================
