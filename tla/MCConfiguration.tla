---------------------------- MODULE MCConfiguration ----------------------------
(* Instances of Configuration for TLC. *)
EXTENDS Configuration

AllMatrices == [FuTypes -> SUBSET LaneBits]

\* every unit somewhere among the first two lanes
FullMatrices == {m \in AllMatrices : \A fu \in FuTypes : m[fu] \cap {0, 1} # {}}

\* no latency, which --lat accepts, one cycle or two
AllLatencies == [FuTypes -> 0 .. 2]
=============================================================================
