---------------------------- MODULE StrideStream ----------------------------
(***************************************************************************)
(* The predictor of Vpu on the programs it is made for: the instances of   *)
(* an instruction compute an arithmetic sequence, the n-th one             *)
(* base + n * stride, whatever branches, load violations and exceptions    *)
(* squash and re-execute on the way.                                       *)
(***************************************************************************)
EXTENDS Vpu

CONSTANT Streams  \* the programs: functions from some of the PCs to sequences

\* Two instructions never share both an SVP entry and its tag.
NoAliasing ==
  \A p, q \in PCs : Index(p) = Index(q) /\ Tag(p) = Tag(q) => p = q

\* With a single confirmation (or none) an untagged entry can take its
\* initial zeros for a trained stride.
ASSUME StrideAssumption ==
  /\ NoAliasing
  /\ ConfMax >= 1 /\ (TagSpace = 1 => ConfMax >= 2)
  /\ \A program \in Streams :
       /\ DOMAIN program \subseteq PCs
       /\ program \in [DOMAIN program -> [base : Values, stride : Values]]

VARIABLES
  stream,    \* base and stride of every eligible instruction of the program
  committed  \* instances of it that have retired, modulo ValueSpace

streamVars == <<vars, stream, committed>>

StreamValue(pc, n) == (stream[pc].base + n * stream[pc].stride) % ValueSpace

\* The older instances of the same instruction that are still in flight
Rank(i) == Cardinality({j \in 1 .. i - 1 : window[j].pc = window[i].pc})

ValueOf(i) == StreamValue(window[i].pc, committed[window[i].pc] + Rank(i))

\* Only instructions of the program are fetched, and they compute its sequences.
FollowsStream ==
  \A i \in EligibleInFlight :
    /\ window[i].pc \in DOMAIN stream
    /\ window[i].completed => window[i].result = ValueOf(i)

PopsVpq == vpq_head' # vpq_head

StreamInit ==
  /\ Init
  /\ stream \in Streams
  /\ committed = [pc \in DOMAIN stream |-> 0]

StreamNext ==
  /\ Next
  /\ committed' = IF PopsVpq
                  THEN [committed EXCEPT
                          ![window[1].pc] = (@ + 1) % ValueSpace]
                  ELSE committed
  /\ UNCHANGED stream
  /\ FollowsStream'

StreamSpec == StreamInit /\ [][StreamNext]_streamVars

-----------------------------------------------------------------------------
(* Properties *)

\* On an arithmetic sequence every confident prediction is the value the
\* instruction is going to compute, also for instructions renamed while many
\* older instances are in flight or after a squash (vpu.cc:105-108 with the
\* training of retire.cc:111-146 and all rollbacks).
ConfidentPredictionExact ==
  \A i \in EligibleInFlight : window[i].predicted => window[i].value = ValueOf(i)

\* An instruction that keeps retiring and shares its entry with no other is
\* eventually predicted with confidence for good.
StrideLearned ==
  \A pc \in PCs :
    []<><<PopsVpq /\ window[1].pc = pc>>_streamVars
    /\ [](\A other \in DOMAIN stream : Index(other) = Index(pc) => other = pc)
      => <>[](svp[Index(pc)].conf = ConfMax)
=============================================================================
