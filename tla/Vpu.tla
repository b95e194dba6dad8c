-------------------------------- MODULE Vpu --------------------------------
(***************************************************************************)
(* The value predictor: the stride value predictor (SVP) and the value     *)
(* prediction queue (VPQ) of vpu.h and vpu.cc, with every place of the     *)
(* pipeline that reads or writes them: prediction and allocation in        *)
(* rename2(), the deposit of the result in execute() and load_replay(),    *)
(* the selective rollback of writeback() and the training, the pop and the *)
(* three complete rollbacks of retire().                                   *)
(*                                                                         *)
(* window is the part of the payload buffer the predictor depends on: the  *)
(* instructions between Rename and Retire in program order, oldest first.  *)
(* Stages run one after the other inside a cycle and treat their           *)
(* instructions one at a time, so one action is one instruction in one     *)
(* stage; a bundle is a run of such actions.                               *)
(***************************************************************************)
EXTENDS Ring, Sequences, FiniteSets

CONSTANTS
  PCs,          \* addresses of the eligible instructions of the program
  SvpSize,      \* m_svp_size = 2^index bits
  TagSpace,     \* 2^m_svp_num_tag_bits: 1 when the SVP has no tags
  ConfMax,      \* m_svp_conf_max
  VpqSize,      \* m_vpq_size
  ValueSpace,   \* 2^64 in the code: values and strides wrap around at it
  Modes,        \* configurations: subset of {"svp", "oracle", "perf"}
  MaxInFlight   \* bound on the instructions between Rename and Retire

ASSUME VpuAssumption ==
  /\ PCs \subseteq Nat
  /\ SvpSize \in Nat \ {0}
  /\ TagSpace \in Nat \ {0}
  /\ ConfMax \in Nat
  /\ VpqSize \in Nat \ {0}
  /\ ValueSpace \in Nat \ {0}
  /\ Modes \subseteq {"svp", "oracle", "perf"}
  /\ MaxInFlight \in Nat

VARIABLES
  mode,      \* perf_mode and oracle_conf_mode, fixed by the constructor
  svp,       \* m_svp
  vpq,       \* m_vpq
  vpq_head,  \* m_vpq_head, m_vpq_head_phase
  vpq_tail,  \* m_vpq_tail, m_vpq_tail_phase
  window     \* the vp_ and vpq_ fields of PAY.buf, PAY.head to PAY.tail

vars == <<mode, svp, vpq, vpq_head, vpq_tail, window>>

Values == 0 .. ValueSpace - 1
Slots  == 0 .. VpqSize - 1

\* What new vpq_entry_t[] leaves in an entry, and the -1 of an unused field
Junk == -1

-----------------------------------------------------------------------------
(* The SVP *)

\* pc_index and pc_tag & tag_mask.  Without tags every tag is 0.
Index(pc) == (pc \div 4) % SvpSize
Tag(pc)   == (pc \div (4 * SvpSize)) % TagSpace

SvpEntry ==
  [valid : BOOLEAN, tag : 0 .. TagSpace - 1, conf : 0 .. ConfMax,
   retval : Values, stride : Values, instcount : Int]

\* A valid entry whose tag matches; the tags are all 0 when there are none.
Matches(entry, pc) == entry.valid /\ entry.tag = Tag(pc)

\* Mutant: predicts the instance before this one
PredictedFromOldCount(entry) ==
  (entry.retval + entry.instcount * entry.stride) % ValueSpace

\* m_vpu_predict() on a hit: the counter is incremented, then used.
PredictedValue(entry) ==
  (entry.retval + (entry.instcount + 1) * entry.stride) % ValueSpace

CountInstance(table, pc) ==
  IF Matches(table[Index(pc)], pc)
  THEN [table EXCEPT ![Index(pc)].instcount = @ + 1]
  ELSE table

\* Mutant: the confidence counter does not saturate
TrainedBeyondMax(entry, value) ==
  LET new_stride == (value - entry.retval) % ValueSpace
  IN [entry EXCEPT
        !.stride    = new_stride,
        !.conf      = IF new_stride = entry.stride THEN @ + 1 ELSE 0,
        !.retval    = value,
        !.instcount = @ - 1]

\* Mutant: a mismatch resets the confidence and keeps the stride
TrainedKeepingStride(entry, value) ==
  LET new_stride == (value - entry.retval) % ValueSpace
  IN [entry EXCEPT
        !.conf      = CASE new_stride # entry.stride -> 0
                        [] new_stride = entry.stride /\ @ < ConfMax -> @ + 1
                        [] OTHER -> @,
        !.retval    = value,
        !.instcount = @ - 1]

\* TRAIN at retirement
Trained(entry, value) ==
  LET new_stride == (value - entry.retval) % ValueSpace
  IN [entry EXCEPT
        !.stride    = new_stride,
        !.conf      = CASE new_stride # entry.stride -> 0
                        [] new_stride = entry.stride /\ @ < ConfMax -> @ + 1
                        [] OTHER -> @,
        !.retval    = value,
        !.instcount = @ - 1]

\* The slots from head + 1 up to the tail pointer; the loop does not look at
\* the phase bits.
YoungerSlots ==
  LET first == Advance(vpq_head, VpqSize).ptr
      walk  == IF vpq_tail.ptr >= first THEN vpq_tail.ptr - first
                                        ELSE vpq_tail.ptr + VpqSize - first
  IN {s \in Slots : Offset([ptr |-> first], s, VpqSize) < walk}

\* Mutant: a new owner starts with no instance in flight
ReplacedFromZero(pc, value) ==
  [valid |-> TRUE, tag |-> Tag(pc), conf |-> 0, retval |-> value,
   stride |-> value, instcount |-> 0]

\* REPLACE at retirement: the in-flight instances of the new owner are
\* counted by their full address.
Replaced(pc, value) ==
  [valid |-> TRUE, tag |-> Tag(pc), conf |-> 0, retval |-> value,
   stride |-> value,
   instcount |-> Cardinality({s \in YoungerSlots : vpq[s].pc = pc})]

TrainSvp(table, pc, value) ==
  LET entry == table[Index(pc)]
  IN [table EXCEPT ![Index(pc)] = IF Matches(entry, pc)
                                  THEN Trained(entry, value)
                                  ELSE Replaced(pc, value)]

\* Mutant: a rollback restores the tail and leaves the counters
Unrepaired(table, slots) == table

\* The backward walk of a rollback: every rolled back entry of the VPQ takes
\* its instance back from the SVP entry it matches now.
Repaired(table, slots) ==
  [x \in DOMAIN table |->
     [table[x] EXCEPT !.instcount =
        @ - Cardinality({s \in slots : /\ Index(vpq[s].pc) = x
                                       /\ Matches(table[x], vpq[s].pc)})]]

-----------------------------------------------------------------------------
(* Rename: rename2() *)

VpqEntry == [pc : PCs \cup {Junk}, val : Values \cup {Junk}]

Instruction ==
  [pc : PCs \cup {Junk}, eligible : BOOLEAN, checkpoint : BOOLEAN,
   vpq_index : Slots \cup {Junk}, vpq_tail_checkpoint : Cursor(VpqSize),
   predicted : BOOLEAN, value : Values,
   completed : BOOLEAN, result : Values \cup {Junk}, val_misp : BOOLEAN]

NoPrediction == [predicted |-> FALSE, value |-> 0]

\* What rename2() can store in vp_predicted and vp_value.  In the oracle and
\* perfect modes the debug buffer, which is external, decides.
Predictions(pc) ==
  LET entry == svp[Index(pc)]
      value == PredictedValue(entry)
  IN CASE mode = "perf" ->
            {NoPrediction} \cup [predicted : {TRUE}, value : Values]
       [] mode # "perf" /\ ~Matches(entry, pc) -> {NoPrediction}
       [] mode = "svp" /\ Matches(entry, pc) ->
            {[predicted |-> entry.conf = ConfMax, value |-> value]}
       [] mode = "oracle" /\ Matches(entry, pc) ->
            [predicted : BOOLEAN, value : {value}]

\* The stall condition on the VPQ, for a bundle with one eligible instruction
VpqStall == FreeEntries(vpq_head, vpq_tail, VpqSize) < 1

RenameEligible(pc) ==
  /\ Len(window) < MaxInFlight
  /\ ~VpqStall
  /\ \E prediction \in Predictions(pc) :
       window' = Append(window,
         [pc |-> pc, eligible |-> TRUE, checkpoint |-> FALSE,
          vpq_index |-> vpq_tail.ptr, vpq_tail_checkpoint |-> vpq_tail,
          predicted |-> prediction.predicted, value |-> prediction.value,
          completed |-> FALSE, result |-> Junk, val_misp |-> FALSE])
  /\ svp' = IF mode = "perf" THEN svp ELSE CountInstance(svp, pc)
  /\ vpq' = [vpq EXCEPT ![vpq_tail.ptr].pc = pc]
  /\ vpq_tail' = Advance(vpq_tail, VpqSize)
  /\ UNCHANGED <<mode, vpq_head>>

\* Mutant: a branch saves the head of the VPQ for its tail
RenameSavingHead(checkpoint) ==
  /\ Len(window) < MaxInFlight
  /\ window' = Append(window,
       [pc |-> Junk, eligible |-> FALSE, checkpoint |-> checkpoint,
        vpq_index |-> Junk, vpq_tail_checkpoint |-> vpq_head,
        predicted |-> FALSE, value |-> 0,
        completed |-> FALSE, result |-> Junk, val_misp |-> FALSE])
  /\ UNCHANGED <<mode, svp, vpq, vpq_head, vpq_tail>>

\* Branches, which save the tail of the VPQ, and all other ineligible ones
RenameIneligible(checkpoint) ==
  /\ Len(window) < MaxInFlight
  /\ window' = Append(window,
       [pc |-> Junk, eligible |-> FALSE, checkpoint |-> checkpoint,
        vpq_index |-> Junk, vpq_tail_checkpoint |-> vpq_tail,
        predicted |-> FALSE, value |-> 0,
        completed |-> FALSE, result |-> Junk, val_misp |-> FALSE])
  /\ UNCHANGED <<mode, svp, vpq, vpq_head, vpq_tail>>

-----------------------------------------------------------------------------
(* Execute, load replay and Writeback *)

\* Mutant: the result goes to the head of the VPQ
ExecuteAtHead(i, value) ==
  /\ window[i].eligible /\ ~window[i].completed
  /\ vpq' = [vpq EXCEPT ![vpq_head.ptr].val = value]
  /\ window' = [window EXCEPT
       ![i].completed = TRUE,
       ![i].result    = value,
       ![i].val_misp  = window[i].predicted /\ value # window[i].value]
  /\ UNCHANGED <<mode, svp, vpq_head, vpq_tail>>

\* execute() or load_replay(): the result of an eligible instruction goes to
\* its own VPQ entry and is compared with a confident prediction.
Execute(i, value) ==
  /\ window[i].eligible /\ ~window[i].completed
  /\ vpq' = [vpq EXCEPT ![window[i].vpq_index].val = value]
  /\ window' = [window EXCEPT
       ![i].completed = TRUE,
       ![i].result    = value,
       ![i].val_misp  = window[i].predicted /\ value # window[i].value]
  /\ UNCHANGED <<mode, svp, vpq_head, vpq_tail>>

\* writeback() of an ineligible instruction or a correctly predicted branch
Complete(i) ==
  /\ ~window[i].eligible /\ ~window[i].completed
  /\ window' = [window EXCEPT ![i].completed = TRUE]
  /\ UNCHANGED <<mode, svp, vpq, vpq_head, vpq_tail>>

\* Mutant: the tail pointer is restored without its phase bit
RollbackPointer(table, tail) ==
  /\ svp' = IF mode = "perf" THEN table
            ELSE Repaired(table, Span(tail, vpq_tail, VpqSize))
  /\ vpq_tail' = [tail EXCEPT !.phase = vpq_tail.phase]

\* The VPQ goes back to a former tail, the SVP forgets the instances that
\* leave it.  table is the SVP the walk starts from.
RollbackTo(table, tail) ==
  /\ svp' = IF mode = "perf" THEN table
            ELSE Repaired(table, Span(tail, vpq_tail, VpqSize))
  /\ vpq_tail' = tail

\* writeback() of a mispredicted branch
ResolveMispredicted(i) ==
  /\ window[i].checkpoint /\ ~window[i].completed
  /\ RollbackTo(svp, window[i].vpq_tail_checkpoint)
  /\ window' = [SubSeq(window, 1, i) EXCEPT ![i].completed = TRUE]
  /\ UNCHANGED <<mode, vpq, vpq_head>>

-----------------------------------------------------------------------------
(* Retire: retire() *)

HeadCompleted == Len(window) > 0 /\ window[1].completed

\* Training from the head of the VPQ
TrainedSvp ==
  IF window[1].eligible /\ mode # "perf"
  THEN TrainSvp(svp, vpq[vpq_head.ptr].pc, vpq[vpq_head.ptr].val)
  ELSE svp

\* VPQ - POP
PoppedHead ==
  IF window[1].eligible THEN Advance(vpq_head, VpqSize) ELSE vpq_head

\* The head commits: it trains the SVP and leaves the VPQ.
Retire ==
  /\ HeadCompleted /\ ~window[1].val_misp
  /\ svp' = TrainedSvp
  /\ vpq_head' = PoppedHead
  /\ window' = Tail(window)
  /\ UNCHANGED <<mode, vpq, vpq_tail>>

\* The head commits and was value mispredicted: VR-1 recovery squashes all
\* that is younger, after the head has trained the SVP.
RetireValueMispredicted ==
  /\ HeadCompleted /\ window[1].val_misp
  /\ vpq_head' = PoppedHead
  /\ RollbackTo(TrainedSvp, PoppedHead)
  /\ window' = <<>>
  /\ UNCHANGED <<mode, vpq>>

\* A load violation or an exception squashes the head as well.
RetireSquash ==
  /\ HeadCompleted
  /\ RollbackTo(svp, vpq_head)
  /\ window' = <<>>
  /\ UNCHANGED <<mode, vpq, vpq_head>>

-----------------------------------------------------------------------------
Init ==
  /\ mode \in Modes
  /\ svp = [x \in 0 .. SvpSize - 1 |->
              [valid |-> TagSpace = 1, tag |-> 0, conf |-> 0, retval |-> 0,
               stride |-> 0, instcount |-> 0]]
  /\ vpq = [s \in Slots |-> [pc |-> Junk, val |-> Junk]]
  /\ vpq_head = [ptr |-> 0, phase |-> FALSE]
  /\ vpq_tail = [ptr |-> 0, phase |-> FALSE]
  /\ window = <<>>

Next ==
  \/ \E pc \in PCs : RenameEligible(pc)
  \/ \E checkpoint \in BOOLEAN : RenameIneligible(checkpoint)
  \/ \E i \in 1 .. Len(window) :
       \/ \E value \in Values : Execute(i, value)
       \/ Complete(i)
       \/ ResolveMispredicted(i)
  \/ Retire
  \/ RetireValueMispredicted
  \/ RetireSquash

Spec == Init /\ [][Next]_vars

-----------------------------------------------------------------------------
(* Properties *)

TypeOK ==
  /\ mode \in Modes
  /\ svp \in [0 .. SvpSize - 1 -> SvpEntry]
  /\ vpq \in [Slots -> VpqEntry]
  /\ vpq_head \in Cursor(VpqSize)
  /\ vpq_tail \in Cursor(VpqSize)
  /\ window \in Seq(Instruction)

InFlightSlots == Span(vpq_head, vpq_tail, VpqSize)
EligibleInFlight == {i \in 1 .. Len(window) : window[i].eligible}
PositionInVpq(i) == Offset(vpq_head, window[i].vpq_index, VpqSize)

\* The VPQ and the window stay in step: the entries between head and tail
\* belong to the eligible instructions in flight, one each, in program order.
\* retire() relies on it when it takes the head of the VPQ for the entry of
\* the instruction at the head of the active list (retire.cc:94-95, 151-160),
\* whatever branches, squashes and wrap-arounds came before.
VpqLockstep ==
  /\ Coherent(vpq_head, vpq_tail, VpqSize)
  /\ \A i \in EligibleInFlight : window[i].vpq_index \in InFlightSlots
  /\ \A i, j \in EligibleInFlight : i < j => PositionInVpq(i) < PositionInVpq(j)
  /\ \A s \in InFlightSlots :
       \E i \in EligibleInFlight : window[i].vpq_index = s

\* The tail a branch saved separates the entries of older instructions from
\* those of younger ones, so that the selective rollback (writeback.cc:135-163)
\* removes what is younger than the branch and nothing else, even when older
\* entries have been popped since the checkpoint.
CheckpointsSplitVpq ==
  \A b \in 1 .. Len(window) : window[b].checkpoint =>
    LET saved == window[b].vpq_tail_checkpoint
        kept  == Occupancy(vpq_head, saved, VpqSize)
    IN /\ kept \in 0 .. Occupancy(vpq_head, vpq_tail, VpqSize)
       /\ \A i \in EligibleInFlight : PositionInVpq(i) < kept <=> i < b

\* The entry at the head of the VPQ holds the address and the result of the
\* very instruction that retires: a value left in the slot by an earlier
\* owner, which allocation does not clear (rename.cc:287-290), never trains
\* the SVP (retire.cc:94-125).
TrainsWithOwnResult ==
  HeadCompleted /\ window[1].eligible =>
    vpq[vpq_head.ptr] = [pc |-> window[1].pc, val |-> window[1].result]

MatchingInFlight(x) ==
  {s \in InFlightSlots : /\ Index(vpq[s].pc) = x
                         /\ Matches(svp[x], vpq[s].pc)}

\* The instance counter of a valid SVP entry is the number of its instances in
\* flight, through predictions, training, replacement, selective and complete
\* rollback (vpu.cc:105, retire.cc:124-144 and 262-288, writeback.cc:135-160):
\* the factor of the stride in every later prediction depends on it.
InstCountExact ==
  mode # "perf" =>
    \A x \in DOMAIN svp :
      svp[x].valid => svp[x].instcount = Cardinality(MatchingInFlight(x))

=============================================================================
