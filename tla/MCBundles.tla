----------------------------- MODULE MCBundles -----------------------------
(* Instances of Bundles for TLC. *)
EXTENDS Bundles

Plain == [dest |-> TRUE, checkpoint |-> FALSE, eligible |-> TRUE,
          serializing |-> FALSE]

\* A predictable producer, a branch, a call and an atomic memory operation
AllKinds ==
  {Plain,
   [Plain EXCEPT !.dest = FALSE, !.checkpoint = TRUE, !.eligible = FALSE],
   [Plain EXCEPT !.checkpoint = TRUE, !.eligible = FALSE],
   [Plain EXCEPT !.eligible = FALSE, !.serializing = TRUE]}
=============================================================================
