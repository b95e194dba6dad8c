------------------------------- MODULE MCVpu -------------------------------
(* Instances of Vpu for TLC: addresses are multiples of 4. *)
EXTENDS Vpu

\* Two instructions that share an SVP entry and differ in their tags
TwoTags == {0, 4}

\* The same and a third one with the index and the tag of the first
AliasedTags == {0, 4, 8}
=============================================================================
