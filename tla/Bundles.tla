------------------------------ MODULE Bundles ------------------------------
(***************************************************************************)
(* Bundles of instructions on their way from the fetch queue to the active *)
(* list, the stalls that stop them, and the payload buffer that holds all  *)
(* instructions in flight.                                                 *)
(*                                                                         *)
(* What is left of a resource is counted from the instructions in flight:  *)
(* that free list, branch mask, active list and VPQ count the same way is  *)
(* what FreeListInOrder, BranchMasksExact and ActiveListInStep of Renamer  *)
(* and VpqLockstep of Vpu say.                                             *)
(***************************************************************************)
EXTENDS Integers, Sequences, FiniteSets

CONSTANTS
  DispatchWidth, \* dispatch_width
  FrontSize,     \* instructions in the fetch unit, the DECODE register and the FQ
  FreeListSize,  \* m_fl_length
  NBranches,     \* m_n_branches
  NActive,       \* m_n_active
  VpqSize,       \* m_vpq_size
  Kinds          \* instruction kinds, see Kind

\* serializing: AMO and CSR instructions and fetch exceptions
Kind == [dest : BOOLEAN, checkpoint : BOOLEAN, eligible : BOOLEAN,
         serializing : BOOLEAN]

\* No branch is serializing: a promise of the decoder.
ASSUME BundlesAssumption ==
  /\ {DispatchWidth, FrontSize, FreeListSize, NBranches, NActive, VpqSize}
       \subseteq Nat \ {0}
  /\ Kinds \subseteq Kind
  /\ \A k \in Kinds : ~(k.serializing /\ k.checkpoint)

MaxInFlight == FrontSize + 2 * DispatchWidth + NActive

VARIABLES
  fetch_active,  \* the fetch unit does not wait for a serializing instruction
  window,        \* the instructions in flight in program order
  pay            \* PAY: head, tail and length

vars == <<fetch_active, window, pay>>

Stages == {"FQ", "RENAME2", "DISPATCH", "active", "completed"}

\* Mutant: one entry per instruction in flight
PayloadSizeUnsplit ==
  CHOOSE size \in {2 ^ k : k \in 0 .. MaxInFlight} :
    MaxInFlight <= size /\ size < 2 * MaxInFlight

\* PAYLOAD_BUFFER_SIZE: a power of 2, with two entries per instruction
PayloadSize ==
  CHOOSE size \in {2 ^ k : k \in 0 .. 2 * MaxInFlight} :
    2 * MaxInFlight <= size /\ size < 4 * MaxInFlight

\* Such a size exists, as the constructor asserts (payload.cc:105-110).
ASSUME PayloadAssumption ==
  LET sizes == {2 ^ k : k \in 0 .. 2 * MaxInFlight}
  IN /\ sizes \subseteq Nat
     /\ \E size \in sizes : 2 * MaxInFlight <= size /\ size < 4 * MaxInFlight

In(stages) == {i \in 1 .. Len(window) : window[i].stage \in stages}

Moved(from, to) ==
  [i \in 1 .. Len(window) |->
     IF i \in from THEN [window[i] EXCEPT !.stage = to] ELSE window[i]]

-----------------------------------------------------------------------------
(* The payload buffer *)

Pushed == [pay EXCEPT !.tail = (@ + 2) % PayloadSize, !.length = @ + 2]

\* pop() twice: an instruction that is not split has two entries.
Popped == [pay EXCEPT !.head = (@ + 2) % PayloadSize, !.length = @ - 2]

\* Mutant: the instruction at the index goes as well
RolledBackOnto(index) ==
  [pay EXCEPT !.tail = index,
              !.length = (PayloadSize + index - pay.head) % PayloadSize]

\* rollback(): the length follows from head and tail.
RolledBack(index) ==
  LET tail == (index + 2) % PayloadSize
  IN [pay EXCEPT !.tail = tail,
                 !.length = (PayloadSize + tail - pay.head) % PayloadSize]

Cleared == [head |-> 0, tail |-> 0, length |-> 0]

-----------------------------------------------------------------------------
(* Fetch and decode are not part of the repository.  The fetch unit stops     *)
(* behind a serializing instruction.                                          *)

Fetch(kind) ==
  /\ fetch_active
  /\ Cardinality(In({"FQ"})) < FrontSize
  /\ fetch_active' = ~kind.serializing
  /\ window' = Append(window, [kind |-> kind, stage |-> "FQ", index |-> pay.tail])
  /\ pay' = Pushed

-----------------------------------------------------------------------------
(* Rename and Dispatch *)

\* Mutant: only full bundles are taken from the FQ
WaitForFullBundle == Cardinality(In({"FQ"})) < DispatchWidth

\* A partial bundle waits for more instructions only if they can come.
WaitForBundle == fetch_active /\ Cardinality(In({"FQ"})) < DispatchWidth

Rename1 ==
  LET queue  == In({"FQ"})
      bundle == {i \in queue : Cardinality({j \in queue : j < i}) < DispatchWidth}
  IN /\ In({"RENAME2"}) = {}
     /\ ~WaitForBundle
     /\ queue # {}
     /\ window' = Moved(bundle, "RENAME2")
     /\ UNCHANGED <<fetch_active, pay>>

Renamed == In({"DISPATCH", "active", "completed"})
Writers(set)    == {i \in set : window[i].kind.dest}
Unresolved(set) == {i \in set : window[i].kind.checkpoint
                                /\ window[i].stage # "completed"}
Eligible(set)   == {i \in set : window[i].kind.eligible}

\* Not enough checkpoints, registers or VPQ entries for the whole bundle
RenameStall ==
  LET bundle == In({"RENAME2"})
      Short(Users(_), size) ==
        size - Cardinality(Users(Renamed)) < Cardinality(Users(bundle))
  IN \/ Short(Unresolved, NBranches)
     \/ Short(Writers, FreeListSize)
     \/ Short(Eligible, VpqSize)

Rename2 ==
  /\ In({"RENAME2"}) # {} /\ In({"DISPATCH"}) = {}
  /\ ~RenameStall
  /\ window' = Moved(In({"RENAME2"}), "DISPATCH")
  /\ UNCHANGED <<fetch_active, pay>>

\* stall_dispatch(dispatch_width): there must be room for a full bundle,
\* whatever the size of this one.
DispatchStall == NActive - Cardinality(In({"active", "completed"})) < DispatchWidth

Dispatch ==
  /\ In({"DISPATCH"}) # {}
  /\ ~DispatchStall
  /\ window' = Moved(In({"DISPATCH"}), "active")
  /\ UNCHANGED <<fetch_active, pay>>

-----------------------------------------------------------------------------
(* Writeback and Retire *)

Complete(i) ==
  /\ i \in In({"active"})
  /\ window' = Moved({i}, "completed")
  /\ UNCHANGED <<fetch_active, pay>>

\* The fetch unit goes on at the other target of the branch.
Mispredict(i) ==
  /\ i \in In({"active"}) /\ window[i].kind.checkpoint
  /\ window' = SubSeq(Moved({i}, "completed"), 1, i)
  /\ pay' = RolledBack(window[i].index)
  /\ fetch_active' = TRUE

HeadCompleted == window # <<>> /\ window[1].stage = "completed"

\* Mutant: every commit resumes the fetch unit
FetchResumed == TRUE

\* The fetch unit is resumed by the commit of a serializing instruction, which
\* squashes nothing.
FetchAfterCommit == fetch_active \/ window[1].kind.serializing

RetireCommit ==
  /\ HeadCompleted
  /\ window' = Tail(window)
  /\ pay' = Popped
  /\ fetch_active' = FetchAfterCommit

\* Value misprediction, load violation or exception: the payload buffer is
\* cleared and the fetch unit flushed.
RetireSquash ==
  /\ HeadCompleted
  /\ window' = <<>>
  /\ pay' = Cleared
  /\ fetch_active' = TRUE

-----------------------------------------------------------------------------
Init ==
  /\ fetch_active = TRUE
  /\ window = <<>>
  /\ pay = Cleared

Next ==
  \/ \E kind \in Kinds : Fetch(kind)
  \/ Rename1
  \/ Rename2
  \/ Dispatch
  \/ \E i \in 1 .. Len(window) : Complete(i) \/ Mispredict(i)
  \/ RetireCommit
  \/ RetireSquash

\* Every stage is called in every cycle (pipeline.cc:572-632).  That there is
\* always something to fetch and that what is in the active list completes are
\* promises of the fetch unit and of the units that execute.
Fairness ==
  /\ WF_vars(\E kind \in Kinds : Fetch(kind))
  /\ WF_vars(Rename1)
  /\ WF_vars(Rename2)
  /\ WF_vars(Dispatch)
  /\ WF_vars(\E i \in 1 .. Len(window) : Complete(i))
  /\ WF_vars(RetireCommit \/ RetireSquash)

Spec == Init /\ [][Next]_vars /\ Fairness

-----------------------------------------------------------------------------
(* Properties *)

Indices == 0 .. PayloadSize - 1

TypeOK ==
  /\ fetch_active \in BOOLEAN
  /\ window \in Seq([kind : Kinds, stage : Stages, index : Indices])
  /\ pay \in [head : Indices, tail : Indices, length : 0 .. PayloadSize]

\* PAY holds the instructions in flight in program order, two entries each:
\* its head, which Retire takes for the head of the active list
\* (retire.cc:59-446), is the oldest one; no two share an entry; the length that
\* rollback() recomputes modulo the size (payload.cc:279) is not taken for 0
\* when it is the size, and the assertions of push() and pop() hold.
PayloadInStep ==
  /\ pay.length = 2 * Len(window)
  /\ pay.length <= PayloadSize
  /\ pay.tail = (pay.head + pay.length) % PayloadSize
  /\ \A i \in 1 .. Len(window) :
       window[i].index = (pay.head + 2 * (i - 1)) % PayloadSize

\* "The serializing instruction stalled the fetch unit so the pipeline is now
\* empty" (retire.cc:241): Retire resumes the fetch unit after such a commit
\* without squashing, so anything younger would be executed twice.
NothingBehindSerializing ==
  \A i \in 1 .. Len(window) :
    window[i].kind.serializing => i = Len(window) /\ ~fetch_active

\* The resources of a bundle of any kinds fit the machine.  Nothing checks it
\* (main.cc:384-399, renamer.cc:7-94); with one resource less, a bundle may need
\* more of it than there will ever be.
BundlesFit ==
  \A size \in {FrontSize, FreeListSize, NBranches, NActive, VpqSize} : size >= DispatchWidth

\* Where the bundles fit, and if only just, none stalls for ever: partial bundles
\* in front of a serializing instruction, bundles that need all checkpoints,
\* registers or VPQ entries at once, a full active list.  The simulator asserts
\* it every four million cycles (pipeline.cc:660-662).
RetirementGoesOn == BundlesFit => []<><<RetireCommit \/ RetireSquash>>_vars
=============================================================================
