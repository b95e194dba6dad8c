----------------------------- MODULE VpuProofs -----------------------------
(***************************************************************************)
(* The invariants of Vpu for every SVP, every VPQ and every program.  The  *)
(* queue and the window have to be taken together: IInv says that the      *)
(* entries of the VPQ belong to the eligible instructions of the window in *)
(* order, that the tails saved by branches split both at the same place,   *)
(* and that each entry holds what its owner wrote into it.                 *)
(*                                                                         *)
(* On top of it come the instance counters, and with them StrideStream:    *)
(* what the SVP knows about a sequence (Learned) and how many instances    *)
(* are in flight make a confident prediction exact.  Only the last theorem *)
(* uses StrideAssumption.                                                  *)
(***************************************************************************)
EXTENDS StrideStream, RingProofs, FiniteSetTheorems, SequenceTheorems

\* Branches are not eligible, and a result is there once it is computed.
InstructionOK ==
  \A i \in 1 .. Len(window) :
    /\ window[i].checkpoint => ~window[i].eligible
    /\ window[i].eligible => /\ window[i].pc \in PCs
                             /\ window[i].vpq_index \in Slots
    /\ window[i].eligible /\ window[i].completed => window[i].result \in Values

Kept(b) == Occupancy(vpq_head, window[b].vpq_tail_checkpoint, VpqSize)

\* Younger branches saved tails that are not older.
CheckpointsOrdered ==
  \A b, c \in 1 .. Len(window) :
    b < c /\ window[b].checkpoint /\ window[c].checkpoint => Kept(b) <= Kept(c)

\* Every entry in flight holds what its owner wrote.
EntriesOfOwners ==
  \A i \in EligibleInFlight :
    /\ vpq[window[i].vpq_index].pc = window[i].pc
    /\ window[i].completed => vpq[window[i].vpq_index].val = window[i].result

Queue == VpqLockstep /\ CheckpointsSplitVpq /\ CheckpointsOrdered

IInv == TypeOK /\ InstructionOK /\ Queue /\ EntriesOfOwners

-----------------------------------------------------------------------------
(* Types *)

LEMMA ModType ==
  ASSUME NEW a \in Int, NEW n \in Nat \ {0}
  PROVE  a % n \in 0 .. n - 1
  OBVIOUS

LEMMA IndexType ==
  ASSUME NEW pc \in PCs
  PROVE  Index(pc) \in 0 .. SvpSize - 1
<1>1. pc \div 4 \in Int /\ SvpSize \in Nat \ {0}
  BY VpuAssumption
<1> QED BY <1>1, ModType DEF Index

LEMMA TagType ==
  ASSUME NEW pc \in PCs
  PROVE  Tag(pc) \in 0 .. TagSpace - 1
<1>1. pc \in Nat /\ 4 * SvpSize \in Nat \ {0} /\ TagSpace \in Nat \ {0}
  BY VpuAssumption
<1>2. pc \div (4 * SvpSize) \in Int
  BY <1>1
<1> QED BY <1>1, <1>2, ModType DEF Tag

\* A set of slots has a cardinality.
LEMMA SlotsFinite ==
  ASSUME NEW S, S \subseteq Slots
  PROVE  IsFiniteSet(S) /\ Cardinality(S) \in Nat
<1>1. IsFiniteSet(Slots)
  BY VpuAssumption, FS_Interval DEF Slots
<1> QED BY <1>1, FS_Subset, FS_CardinalityType

\* A rollback keeps the SVP well-typed.
LEMMA RepairedType ==
  ASSUME NEW table \in [0 .. SvpSize - 1 -> SvpEntry], NEW slots, slots \subseteq Slots
  PROVE  Repaired(table, slots) \in [0 .. SvpSize - 1 -> SvpEntry]
<1> DEFINE Leaving(x) == {s \in slots : /\ Index(vpq[s].pc) = x
                                        /\ Matches(table[x], vpq[s].pc)}
<1>1. ASSUME NEW x \in 0 .. SvpSize - 1
      PROVE  [table[x] EXCEPT !.instcount = @ - Cardinality(Leaving(x))] \in SvpEntry
  <2>1. Cardinality(Leaving(x)) \in Nat
    BY SlotsFinite
  <2>2. table[x] \in SvpEntry
    OBVIOUS
  <2> HIDE DEF Leaving
  <2> QED BY <2>1, <2>2 DEF SvpEntry
<1>2. DOMAIN table = 0 .. SvpSize - 1
  OBVIOUS
<1> QED BY <1>1, <1>2 DEF Repaired

LEMMA SpanType ==
  ASSUME NEW from, NEW to
  PROVE  Span(from, to, VpqSize) \subseteq Slots
  BY DEF Span, Slots

\* Training keeps it well-typed, too.
LEMMA TrainSvpType ==
  ASSUME NEW table \in [0 .. SvpSize - 1 -> SvpEntry], NEW pc \in PCs,
         NEW value \in Values
  PROVE  TrainSvp(table, pc, value) \in [0 .. SvpSize - 1 -> SvpEntry]
<1> DEFINE entry == table[Index(pc)]
           new_stride == (value - entry.retval) % ValueSpace
<1>1. Index(pc) \in 0 .. SvpSize - 1 /\ Tag(pc) \in 0 .. TagSpace - 1
  BY IndexType, TagType
<1>2. entry \in SvpEntry
  BY <1>1
<1>3. new_stride \in Values
  <2>1. value - entry.retval \in Int
    BY <1>2 DEF SvpEntry, Values
  <2> QED BY <2>1, VpuAssumption, ModType DEF Values
<1>4. Trained(entry, value) \in SvpEntry
  <2> DEFINE new_conf == CASE new_stride # entry.stride -> 0
                           [] new_stride = entry.stride /\ entry.conf < ConfMax
                                -> entry.conf + 1
                           [] OTHER -> entry.conf
  <2>1. new_conf \in 0 .. ConfMax
    <3>1. entry.conf \in 0 .. ConfMax /\ ConfMax \in Nat
      BY <1>2, VpuAssumption DEF SvpEntry
    <3> HIDE DEF entry, new_stride
    <3>2. CASE new_stride # entry.stride
      BY <3>1, <3>2
    <3>3. CASE new_stride = entry.stride /\ entry.conf < ConfMax
      BY <3>1, <3>3
    <3>4. CASE new_stride = entry.stride /\ ~(entry.conf < ConfMax)
      BY <3>1, <3>4
    <3> QED BY <3>2, <3>3, <3>4
  <2>2. Trained(entry, value) =
          [entry EXCEPT !.stride = new_stride, !.conf = new_conf,
                        !.retval = value, !.instcount = @ - 1]
    BY DEF Trained
  <2> HIDE DEF new_stride, entry, new_conf
  <2>3. entry.instcount - 1 \in Int
    BY <1>2 DEF SvpEntry
  <2>4. [entry EXCEPT !.stride = new_stride, !.conf = new_conf,
                      !.retval = value, !.instcount = entry.instcount - 1]
          \in SvpEntry
    BY <1>2, <1>3, <2>1, <2>3, Zenon DEF SvpEntry
  <2> QED BY <2>2, <2>4
<1>5. Replaced(pc, value) \in SvpEntry
  <2>1. Cardinality({s \in YoungerSlots : vpq[s].pc = pc}) \in Nat
    <3>1. {s \in YoungerSlots : vpq[s].pc = pc} \subseteq Slots
      BY DEF YoungerSlots
    <3> QED BY <3>1, SlotsFinite
  <2> QED BY <1>1, <2>1, VpuAssumption DEF Replaced, SvpEntry, Values
<1> QED BY <1>1, <1>4, <1>5 DEF TrainSvp

LEMMA PredictionsType ==
  ASSUME TypeOK, NEW pc \in PCs, NEW prediction \in Predictions(pc)
  PROVE  prediction.predicted \in BOOLEAN /\ prediction.value \in Values
<1> DEFINE entry == svp[Index(pc)]
<1>1. entry \in SvpEntry
  BY IndexType DEF TypeOK
<1>2. PredictedValue(entry) \in Values
  <2>1. entry.retval \in Int /\ entry.stride \in Int /\ entry.instcount + 1 \in Int
    BY <1>1 DEF SvpEntry, Values
  <2>2. (entry.instcount + 1) * entry.stride \in Int
    BY <2>1
  <2>3. entry.retval + (entry.instcount + 1) * entry.stride \in Int
    BY <2>1, <2>2
  <2> HIDE DEF entry
  <2> QED BY <2>3, VpuAssumption, ModType DEF PredictedValue, Values
<1>3. 0 \in Values
  BY VpuAssumption DEF Values
<1>4. mode \in {"svp", "oracle", "perf"}
  BY VpuAssumption DEF TypeOK
<1> DEFINE value == PredictedValue(entry)
<1> HIDE DEF value
<1>5. ASSUME prediction = NoPrediction
      PROVE  prediction.predicted \in BOOLEAN /\ prediction.value \in Values
  <2>1. prediction.predicted = FALSE /\ prediction.value = 0
    BY <1>5, Zenon DEF NoPrediction
  <2> QED BY <1>3, <2>1
<1>6. CASE mode = "perf"
  <2>1. Predictions(pc) = {NoPrediction} \cup [predicted : {TRUE}, value : Values]
    BY <1>6 DEF Predictions
  <2>2. CASE prediction \in [predicted : {TRUE}, value : Values]
    BY <2>2
  <2> QED BY <1>5, <2>1, <2>2
<1>7. CASE mode # "perf" /\ ~Matches(entry, pc)
  <2>1. Predictions(pc) = {NoPrediction}
    BY <1>7 DEF Predictions
  <2> QED BY <1>5, <2>1
<1>8. CASE mode = "svp" /\ Matches(entry, pc)
  <2> DEFINE confident == entry.conf = ConfMax
  <2>1. confident \in BOOLEAN
    OBVIOUS
  <2>2. Predictions(pc) = {[predicted |-> confident, value |-> value]}
    BY <1>8 DEF Predictions, value
  <2>3. value \in Values
    BY <1>2 DEF value
  <2> HIDE DEF confident
  <2>4. prediction = [predicted |-> confident, value |-> value]
    BY <2>2
  <2>5. prediction.predicted = confident /\ prediction.value = value
    BY <2>4, Zenon
  <2> QED BY <2>1, <2>3, <2>5, Zenon
<1>9. CASE mode = "oracle" /\ Matches(entry, pc)
  <2>1. Predictions(pc) = [predicted : BOOLEAN, value : {value}]
    BY <1>9 DEF Predictions, value
  <2>2. value \in Values
    BY <1>2 DEF value
  <2> QED BY <2>1, <2>2
<1> QED BY <1>4, <1>6, <1>7, <1>8, <1>9

-----------------------------------------------------------------------------
(* The instruction at the head of the window owns the head of the VPQ. *)

LEMMA HeadOwner ==
  ASSUME IInv, Len(window) > 0, window[1].eligible
  PROVE  /\ Occupancy(vpq_head, vpq_tail, VpqSize) \in 1 .. VpqSize
         /\ window[1].vpq_index = vpq_head.ptr
         /\ vpq_head.ptr \in Slots
<1> DEFINE occ == Occupancy(vpq_head, vpq_tail, VpqSize)
           Off(s) == Offset(vpq_head, s, VpqSize)
<1>1. /\ VpqSize \in Nat \ {0} /\ vpq_head \in Cursor(VpqSize)
      /\ vpq_tail \in Cursor(VpqSize) /\ vpq_head.ptr \in Slots
  BY VpuAssumption DEF IInv, TypeOK, Cursor, Slots
<1>2. 1 \in EligibleInFlight /\ occ \in 0 .. VpqSize
  BY DEF IInv, Queue, VpqLockstep, Coherent, EligibleInFlight, TypeOK
<1>3. window[1].vpq_index \in Slots /\ Off(window[1].vpq_index) < occ
  BY <1>2 DEF IInv, Queue, VpqLockstep, InFlightSlots, Span, Slots
<1>4. Off(window[1].vpq_index) \in 0 .. VpqSize - 1
  BY <1>1, <1>3, OffsetType DEF Slots
<1>5. occ \in 1 .. VpqSize
  BY <1>1, <1>2, <1>3, <1>4
<1>6. vpq_head.ptr \in InFlightSlots /\ Off(vpq_head.ptr) = 0
  BY <1>1, <1>5, HeadOffset DEF InFlightSlots, Span, Slots
<1>7. PICK i \in EligibleInFlight : window[i].vpq_index = vpq_head.ptr
  BY <1>6 DEF IInv, Queue, VpqLockstep
<1>8. i = 1
  <2>1. SUFFICES ASSUME 1 < i PROVE FALSE
    BY DEF EligibleInFlight
  <2>2. PositionInVpq(1) < PositionInVpq(i)
    BY <1>2, <2>1 DEF IInv, Queue, VpqLockstep
  <2> QED BY <1>4, <1>6, <1>7, <2>2, VpuAssumption DEF PositionInVpq
<1> QED BY <1>1, <1>5, <1>7, <1>8

-----------------------------------------------------------------------------
(* Execute and Complete leave the queue alone. *)

LEMMA QueueUnchanged ==
  ASSUME IInv, vpq_head' = vpq_head, vpq_tail' = vpq_tail,
         Len(window') = Len(window),
         \A i \in 1 .. Len(window) :
           /\ window'[i].eligible = window[i].eligible
           /\ window'[i].checkpoint = window[i].checkpoint
           /\ window'[i].vpq_index = window[i].vpq_index
           /\ window'[i].vpq_tail_checkpoint = window[i].vpq_tail_checkpoint
  PROVE  Queue'
<1>1. EligibleInFlight' = EligibleInFlight
  BY DEF EligibleInFlight
<1>2. InFlightSlots' = InFlightSlots
  BY DEF InFlightSlots
<1>3. \A i \in EligibleInFlight : PositionInVpq(i)' = PositionInVpq(i)
  BY DEF EligibleInFlight, PositionInVpq
<1>4. \A b \in 1 .. Len(window) : Kept(b)' = Kept(b)
  BY DEF Kept
<1>5. VpqLockstep'
  <2>1. \A i \in EligibleInFlight : window'[i].vpq_index = window[i].vpq_index
    BY DEF EligibleInFlight
  <2> QED BY <1>1, <1>2, <1>3, <2>1 DEF IInv, Queue, VpqLockstep
<1>6. CheckpointsSplitVpq'
  BY <1>1, <1>3 DEF IInv, Queue, CheckpointsSplitVpq
<1>7. CheckpointsOrdered'
  BY <1>4 DEF IInv, Queue, CheckpointsOrdered
<1> QED BY <1>5, <1>6, <1>7 DEF Queue

LEMMA CompleteStep ==
  ASSUME IInv, NEW i \in 1 .. Len(window), Complete(i)
  PROVE  IInv'
<1> DEFINE entry == [window[i] EXCEPT !.completed = TRUE]
<1>1. window \in Seq(Instruction) /\ window[i] \in Instruction /\ ~window[i].eligible
  BY DEF IInv, TypeOK, Complete
<1>2. entry \in Instruction
  BY <1>1, Zenon DEF Instruction
<1>3. /\ window' = [window EXCEPT ![i] = entry]
      /\ UNCHANGED <<mode, svp, vpq, vpq_head, vpq_tail>>
  BY DEF Complete
<1>4. \A f \in {"eligible", "checkpoint", "vpq_index", "vpq_tail_checkpoint",
                "pc", "result"} : entry[f] = window[i][f]
  BY <1>1 DEF Instruction
<1> HIDE DEF entry
<1>5. /\ window' \in Seq(Instruction) /\ Len(window') = Len(window)
      /\ \A j \in 1 .. Len(window) : window'[j] = IF j = i THEN entry ELSE window[j]
  BY <1>1, <1>2, <1>3, ExceptSeq
<1>6. TypeOK'
  BY <1>3, <1>5 DEF IInv, TypeOK
<1>7. InstructionOK'
  BY <1>1, <1>4, <1>5 DEF IInv, InstructionOK
<1>8. Queue'
  BY <1>3, <1>4, <1>5, QueueUnchanged
<1>9. EntriesOfOwners'
  BY <1>1, <1>3, <1>4, <1>5 DEF IInv, EntriesOfOwners, EligibleInFlight
<1> QED BY <1>6, <1>7, <1>8, <1>9 DEF IInv

\* Two eligible instructions in flight own different entries.
LEMMA OwnersDiffer ==
  ASSUME IInv, NEW i \in EligibleInFlight, NEW j \in EligibleInFlight, i # j
  PROVE  window[i].vpq_index # window[j].vpq_index
<1>1. vpq_head \in Cursor(VpqSize) /\ VpqSize \in Nat \ {0}
  BY VpuAssumption DEF IInv, TypeOK
<1>2. \A k \in EligibleInFlight : k \in Nat /\ PositionInVpq(k) \in Int
  BY <1>1, OffsetType
     DEF IInv, InstructionOK, EligibleInFlight, PositionInVpq, Slots
<1>3. i < j \/ j < i
  BY <1>2
<1>4. PositionInVpq(i) < PositionInVpq(j) \/ PositionInVpq(j) < PositionInVpq(i)
  BY <1>3 DEF IInv, Queue, VpqLockstep
<1> QED BY <1>2, <1>4 DEF PositionInVpq

LEMMA ExecuteStep ==
  ASSUME IInv, NEW i \in 1 .. Len(window), NEW value \in Values, Execute(i, value)
  PROVE  IInv'
<1> DEFINE misp  == window[i].predicted /\ value # window[i].value
           entry == [window[i] EXCEPT !.completed = TRUE, !.result = value,
                                      !.val_misp = misp]
           slot  == window[i].vpq_index
<1>1. /\ window \in Seq(Instruction) /\ window[i] \in Instruction
      /\ window[i].eligible /\ slot \in Slots
  BY DEF IInv, TypeOK, InstructionOK, Execute
<1>2. entry \in Instruction
  <2>1. misp \in BOOLEAN /\ value \in Values \cup {Junk}
    OBVIOUS
  <2> HIDE DEF misp
  <2> QED BY <1>1, <2>1, Zenon DEF Instruction
<1>3. /\ window' = [window EXCEPT ![i] = entry]
      /\ vpq' = [vpq EXCEPT ![slot].val = value]
      /\ UNCHANGED <<mode, svp, vpq_head, vpq_tail>>
  BY DEF Execute
<1>4. /\ \A f \in {"eligible", "checkpoint", "vpq_index", "vpq_tail_checkpoint",
                   "pc"} : entry[f] = window[i][f]
      /\ entry.result = value
  BY <1>1 DEF Instruction
<1> HIDE DEF entry
<1>5. /\ window' \in Seq(Instruction) /\ Len(window') = Len(window)
      /\ \A j \in 1 .. Len(window) : window'[j] = IF j = i THEN entry ELSE window[j]
  BY <1>1, <1>2, <1>3, ExceptSeq
<1>6. /\ vpq' \in [Slots -> VpqEntry]
      /\ \A s \in Slots : /\ vpq'[s].pc = vpq[s].pc
                          /\ s # slot => vpq'[s] = vpq[s]
      /\ vpq'[slot].val = value
  <2>1. vpq \in [Slots -> VpqEntry] /\ vpq[slot] \in VpqEntry
    BY <1>1 DEF IInv, TypeOK
  <2>2. [vpq[slot] EXCEPT !.val = value] \in VpqEntry
    BY <2>1 DEF VpqEntry
  <2> QED BY <1>1, <1>3, <2>1, <2>2 DEF VpqEntry
<1>7. TypeOK'
  BY <1>3, <1>5, <1>6 DEF IInv, TypeOK
<1>8. InstructionOK'
  BY <1>1, <1>4, <1>5 DEF IInv, InstructionOK
<1>9. Queue'
  BY <1>3, <1>4, <1>5, QueueUnchanged
<1>10. EntriesOfOwners'
  <2> SUFFICES ASSUME NEW j \in EligibleInFlight'
               PROVE  /\ vpq'[window'[j].vpq_index].pc = window'[j].pc
                      /\ window'[j].completed =>
                           vpq'[window'[j].vpq_index].val = window'[j].result
    BY DEF EntriesOfOwners
  <2>1. j \in EligibleInFlight /\ i \in EligibleInFlight
    BY <1>1, <1>4, <1>5 DEF EligibleInFlight
  <2>2. window[j].vpq_index \in Slots
    BY <2>1 DEF IInv, InstructionOK, EligibleInFlight
  <2>3. CASE j = i
    BY <1>4, <1>5, <1>6, <2>1, <2>2, <2>3 DEF IInv, EntriesOfOwners
  <2>4. CASE j # i
    BY <1>5, <1>6, <2>1, <2>2, <2>4, OwnersDiffer
       DEF IInv, EntriesOfOwners, EligibleInFlight
  <2> QED BY <2>3, <2>4
<1> QED BY <1>7, <1>8, <1>9, <1>10 DEF IInv

-----------------------------------------------------------------------------
(* Rename appends to the window and, for an eligible instruction, to the VPQ. *)

LEMMA RenameIneligibleStep ==
  ASSUME IInv, NEW checkpoint \in BOOLEAN, RenameIneligible(checkpoint)
  PROVE  IInv'
<1> DEFINE new == [pc |-> Junk, eligible |-> FALSE, checkpoint |-> checkpoint,
                   vpq_index |-> Junk, vpq_tail_checkpoint |-> vpq_tail,
                   predicted |-> FALSE, value |-> 0,
                   completed |-> FALSE, result |-> Junk, val_misp |-> FALSE]
           occ == Occupancy(vpq_head, vpq_tail, VpqSize)
<1>1. /\ window \in Seq(Instruction) /\ vpq_tail \in Cursor(VpqSize)
      /\ window' = Append(window, new)
      /\ UNCHANGED <<mode, svp, vpq, vpq_head, vpq_tail>>
  BY DEF IInv, TypeOK, RenameIneligible
<1>2. new \in Instruction
  <2>1. 0 \in Values
    BY VpuAssumption DEF Values
  <2> QED BY <1>1, <2>1 DEF Instruction
<1>3. ~new.eligible /\ new.vpq_tail_checkpoint = vpq_tail
  OBVIOUS
<1> HIDE DEF new
<1>4. /\ window' \in Seq(Instruction) /\ Len(window') = Len(window) + 1
      /\ \A j \in 1 .. Len(window) : window'[j] = window[j]
      /\ window'[Len(window) + 1] = new
      /\ Len(window) \in Nat
  BY <1>1, <1>2, AppendProperties, LenProperties
<1>5. TypeOK'
  BY <1>1, <1>4 DEF IInv, TypeOK
<1>6. InstructionOK'
  BY <1>3, <1>4 DEF IInv, InstructionOK
<1>7. /\ EligibleInFlight' = EligibleInFlight
      /\ InFlightSlots' = InFlightSlots
      /\ \A i \in EligibleInFlight : /\ PositionInVpq(i)' = PositionInVpq(i)
                                     /\ window'[i] = window[i]
      /\ \A b \in 1 .. Len(window) : Kept(b)' = Kept(b)
      /\ \A b \in 1 .. Len(window') : b \notin 1 .. Len(window) => Kept(b)' = occ
  <2>1. EligibleInFlight' = EligibleInFlight
    BY <1>3, <1>4 DEF EligibleInFlight
  <2>2. InFlightSlots' = InFlightSlots
    BY <1>1 DEF InFlightSlots
  <2>3. \A i \in EligibleInFlight : /\ PositionInVpq(i)' = PositionInVpq(i)
                                    /\ window'[i] = window[i]
    BY <1>1, <1>4 DEF EligibleInFlight, PositionInVpq
  <2>4. \A b \in 1 .. Len(window) : Kept(b)' = Kept(b)
    BY <1>1, <1>4 DEF Kept
  <2>5. \A b \in 1 .. Len(window') : b \notin 1 .. Len(window) => Kept(b)' = occ
    BY <1>1, <1>3, <1>4 DEF Kept
  <2> QED BY <2>1, <2>2, <2>3, <2>4, <2>5
<1>8. VpqLockstep'
  BY <1>1, <1>7 DEF IInv, Queue, VpqLockstep
<1>9. /\ occ \in 0 .. VpqSize
      /\ \A i \in EligibleInFlight : i \in 1 .. Len(window) /\ PositionInVpq(i) < occ
      /\ \A b \in 1 .. Len(window) : window[b].checkpoint => Kept(b) \in 0 .. occ
  BY DEF IInv, Queue, VpqLockstep, CheckpointsSplitVpq, Kept, Coherent,
         EligibleInFlight, InFlightSlots, PositionInVpq, Span
<1>10. CheckpointsSplitVpq'
  <2> SUFFICES ASSUME NEW b \in 1 .. Len(window'), window'[b].checkpoint
               PROVE  /\ Kept(b)' \in 0 .. occ
                      /\ \A i \in EligibleInFlight : PositionInVpq(i) < Kept(b)' <=> i < b
    BY <1>1, <1>7 DEF CheckpointsSplitVpq, Kept
  <2>1. CASE b = Len(window) + 1
    BY <1>4, <1>7, <1>9, <2>1, VpuAssumption
  <2>2. CASE b \in 1 .. Len(window)
    BY <1>4, <1>7, <2>2 DEF IInv, Queue, CheckpointsSplitVpq, Kept
  <2> QED BY <1>4, <2>1, <2>2
<1>11. CheckpointsOrdered'
  BY <1>4, <1>7, <1>9, VpuAssumption DEF IInv, Queue, CheckpointsOrdered
<1>12. EntriesOfOwners'
  BY <1>1, <1>7 DEF IInv, EntriesOfOwners
<1> QED BY <1>5, <1>6, <1>8, <1>10, <1>11, <1>12 DEF IInv, Queue

LEMMA RenameEligibleStep ==
  ASSUME IInv, NEW pc \in PCs, RenameEligible(pc)
  PROVE  IInv'
<1> DEFINE occ == Occupancy(vpq_head, vpq_tail, VpqSize)
<1>1. /\ window \in Seq(Instruction) /\ Len(window) \in Nat
      /\ vpq_head \in Cursor(VpqSize) /\ vpq_tail \in Cursor(VpqSize)
      /\ VpqSize \in Nat \ {0} /\ vpq_tail.ptr \in Slots
  BY LenProperties, VpuAssumption DEF IInv, TypeOK, Cursor, Slots
<1>2. PICK prediction \in Predictions(pc) :
        window' = Append(window,
          [pc |-> pc, eligible |-> TRUE, checkpoint |-> FALSE,
           vpq_index |-> vpq_tail.ptr, vpq_tail_checkpoint |-> vpq_tail,
           predicted |-> prediction.predicted, value |-> prediction.value,
           completed |-> FALSE, result |-> Junk, val_misp |-> FALSE])
  BY DEF RenameEligible
<1> DEFINE new == [pc |-> pc, eligible |-> TRUE, checkpoint |-> FALSE,
           vpq_index |-> vpq_tail.ptr, vpq_tail_checkpoint |-> vpq_tail,
           predicted |-> prediction.predicted, value |-> prediction.value,
           completed |-> FALSE, result |-> Junk, val_misp |-> FALSE]
<1>3. /\ svp' = IF mode = "perf" THEN svp ELSE CountInstance(svp, pc)
      /\ vpq' = [vpq EXCEPT ![vpq_tail.ptr].pc = pc]
      /\ vpq_tail' = Advance(vpq_tail, VpqSize)
      /\ UNCHANGED <<mode, vpq_head>>
  BY DEF RenameEligible
<1>4. new \in Instruction
  <2>1. prediction.predicted \in BOOLEAN /\ prediction.value \in Values
    BY PredictionsType DEF IInv
  <2> QED BY <1>1, <2>1, Zenon DEF Instruction
<1>5. /\ new.eligible /\ ~new.checkpoint /\ ~new.completed
      /\ new.vpq_index = vpq_tail.ptr /\ new.pc = pc
  BY Zenon
<1> HIDE DEF new
<1>6. /\ window' \in Seq(Instruction) /\ Len(window') = Len(window) + 1
      /\ \A j \in 1 .. Len(window) : window'[j] = window[j]
      /\ \A j \in 1 .. Len(window') : j \notin 1 .. Len(window) =>
            j = Len(window) + 1 /\ window'[j] = new
  BY <1>1, <1>2, <1>4, AppendProperties DEF new
<1>7. /\ occ \in 0 .. VpqSize - 1
      /\ Occupancy(vpq_head, vpq_tail', VpqSize) = occ + 1
      /\ Offset(vpq_head, vpq_tail.ptr, VpqSize) = occ
  <2>1. occ \in 0 .. VpqSize
    BY DEF IInv, Queue, VpqLockstep, Coherent
  <2>2. VpqSize - occ >= 1
    BY <1>1, FreeEntriesComplement, OccupancyType DEF RenameEligible, VpqStall
  <2>3. occ \in 0 .. VpqSize - 1
    BY <1>1, <2>1, <2>2
  <2> QED BY <1>1, <1>3, <2>3, PushOccupancy, TailOffset
<1>8. /\ vpq' \in [Slots -> VpqEntry]
      /\ \A s \in Slots : s # vpq_tail.ptr => vpq'[s] = vpq[s]
      /\ vpq'[vpq_tail.ptr].pc = pc
  <2>1. vpq \in [Slots -> VpqEntry] /\ vpq[vpq_tail.ptr] \in VpqEntry
    BY <1>1 DEF IInv, TypeOK
  <2>2. [vpq[vpq_tail.ptr] EXCEPT !.pc = pc] \in VpqEntry
    BY <2>1 DEF VpqEntry
  <2> QED BY <1>1, <1>3, <2>1, <2>2 DEF VpqEntry
<1>9. TypeOK'
  <2>1. svp' \in [0 .. SvpSize - 1 -> SvpEntry]
    <3>1. svp \in [0 .. SvpSize - 1 -> SvpEntry] /\ svp[Index(pc)] \in SvpEntry
      BY IndexType DEF IInv, TypeOK
    <3>2. svp[Index(pc)].instcount + 1 \in Int
      BY <3>1 DEF SvpEntry
    <3>3. [svp[Index(pc)] EXCEPT !.instcount = @ + 1] \in SvpEntry
      BY <3>1, <3>2 DEF SvpEntry
    <3> QED BY <1>3, <3>1, <3>3, IndexType DEF CountInstance
  <2>2. vpq_tail' \in Cursor(VpqSize)
    BY <1>1, <1>3, AdvanceType
  <2> QED BY <1>3, <1>6, <1>8, <2>1, <2>2 DEF IInv, TypeOK
<1>10. InstructionOK'
  BY <1>1, <1>5, <1>6 DEF IInv, InstructionOK
<1>11. EligibleInFlight' = EligibleInFlight \cup {Len(window) + 1}
  BY <1>1, <1>5, <1>6 DEF EligibleInFlight
<1>12. \A i \in EligibleInFlight :
         /\ i \in 1 .. Len(window) /\ window'[i] = window[i]
         /\ window[i].vpq_index \in Slots
         /\ PositionInVpq(i)' = PositionInVpq(i)
         /\ PositionInVpq(i) \in 0 .. occ - 1
  <2> SUFFICES ASSUME NEW i \in EligibleInFlight
               PROVE  /\ i \in 1 .. Len(window) /\ window'[i] = window[i]
                      /\ window[i].vpq_index \in Slots
                      /\ PositionInVpq(i)' = PositionInVpq(i)
                      /\ PositionInVpq(i) \in 0 .. occ - 1
    OBVIOUS
  <2>1. i \in 1 .. Len(window) /\ window'[i] = window[i]
    BY <1>6 DEF EligibleInFlight
  <2>2. window[i].vpq_index \in Slots /\ PositionInVpq(i) < occ
    BY DEF IInv, Queue, VpqLockstep, InFlightSlots, Span, Slots, PositionInVpq
  <2>3. PositionInVpq(i) \in 0 .. VpqSize - 1
    BY <1>1, <2>2, OffsetType DEF PositionInVpq, Slots
  <2> QED BY <1>3, <1>7, <2>1, <2>2, <2>3 DEF PositionInVpq
<1>13. /\ window'[Len(window) + 1] = new
       /\ \A i \in EligibleInFlight' : i = Len(window) + 1 => PositionInVpq(i)' = occ
  BY <1>1, <1>3, <1>5, <1>6, <1>7 DEF PositionInVpq
<1>14. VpqLockstep'
  <2>1. Coherent(vpq_head, vpq_tail, VpqSize)'
    BY <1>1, <1>3, <1>7 DEF Coherent
  <2>2. \A i \in EligibleInFlight' : (window[i].vpq_index \in InFlightSlots)'
    BY <1>1, <1>3, <1>5, <1>7, <1>11, <1>12, <1>13
       DEF InFlightSlots, Span, Slots, PositionInVpq
  <2>3. \A i, j \in EligibleInFlight' : i < j => (PositionInVpq(i) < PositionInVpq(j))'
    BY <1>1, <1>7, <1>11, <1>12, <1>13 DEF IInv, Queue, VpqLockstep
  <2>4. ASSUME NEW s \in InFlightSlots'
        PROVE  \E i \in EligibleInFlight' : window'[i].vpq_index = s
    <3>1. s \in Slots /\ Offset(vpq_head, s, VpqSize) < occ + 1
      BY <1>3, <1>7 DEF InFlightSlots, Span, Slots
    <3>2. CASE Offset(vpq_head, s, VpqSize) < occ
      BY <1>11, <1>12, <3>1, <3>2
         DEF IInv, Queue, VpqLockstep, InFlightSlots, Span, Slots
    <3>3. CASE Offset(vpq_head, s, VpqSize) = occ
      <4>1. s = vpq_tail.ptr
        BY <1>1, <1>7, <3>1, <3>3, OffsetInjective DEF Slots
      <4> QED BY <1>5, <1>11, <1>13, <4>1
    <3>4. Offset(vpq_head, s, VpqSize) \in 0 .. VpqSize - 1
      BY <1>1, <3>1, OffsetType DEF Slots
    <3>5. Offset(vpq_head, s, VpqSize) < occ \/ Offset(vpq_head, s, VpqSize) = occ
      BY <1>7, <3>1, <3>4
    <3> QED BY <3>2, <3>3, <3>5
  <2> QED BY <2>1, <2>2, <2>3, <2>4 DEF VpqLockstep
<1>15. \A b \in 1 .. Len(window') : window'[b].checkpoint =>
         /\ b \in 1 .. Len(window) /\ window'[b] = window[b]
         /\ Kept(b)' = Kept(b) /\ Kept(b) \in 0 .. occ
         /\ \A i \in EligibleInFlight : PositionInVpq(i) < Kept(b) <=> i < b
  BY <1>3, <1>5, <1>6 DEF Kept, IInv, Queue, CheckpointsSplitVpq
<1>16. CheckpointsSplitVpq'
  <2> SUFFICES ASSUME NEW b \in 1 .. Len(window'), window'[b].checkpoint
               PROVE  /\ Kept(b)' \in 0 .. Occupancy(vpq_head, vpq_tail, VpqSize)'
                      /\ \A i \in EligibleInFlight' : (PositionInVpq(i) < Kept(b))' <=> i < b
    BY DEF CheckpointsSplitVpq, Kept
  <2> QED BY <1>1, <1>3, <1>7, <1>11, <1>12, <1>13, <1>15
<1>17. CheckpointsOrdered'
  BY <1>15 DEF IInv, Queue, CheckpointsOrdered
<1>18. EntriesOfOwners'
  <2>1. \A i \in EligibleInFlight : window[i].vpq_index # vpq_tail.ptr
    BY <1>1, <1>7, <1>12 DEF PositionInVpq
  <2> QED BY <1>5, <1>8, <1>11, <1>12, <1>13, <2>1 DEF IInv, EntriesOfOwners
<1> QED BY <1>9, <1>10, <1>14, <1>16, <1>17, <1>18 DEF IInv, Queue

-----------------------------------------------------------------------------
(* Rollbacks *)

LEMMA RollbackType ==
  ASSUME NEW table \in [0 .. SvpSize - 1 -> SvpEntry], NEW tail,
         RollbackTo(table, tail)
  PROVE  svp' \in [0 .. SvpSize - 1 -> SvpEntry] /\ vpq_tail' = tail
<1>1. Repaired(table, Span(tail, vpq_tail, VpqSize)) \in [0 .. SvpSize - 1 -> SvpEntry]
  BY SpanType, RepairedType
<1> QED BY <1>1 DEF RollbackTo

LEMMA ResolveMispredictedStep ==
  ASSUME IInv, NEW i \in 1 .. Len(window), ResolveMispredicted(i)
  PROVE  IInv'
<1> DEFINE entry == [window[i] EXCEPT !.completed = TRUE]
           occ   == Occupancy(vpq_head, vpq_tail, VpqSize)
<1>1. /\ window \in Seq(Instruction) /\ Len(window) \in Nat
      /\ window[i] \in Instruction
      /\ window[i].checkpoint /\ ~window[i].eligible
      /\ vpq_head \in Cursor(VpqSize) /\ VpqSize \in Nat \ {0}
      /\ window[i].vpq_tail_checkpoint \in Cursor(VpqSize)
      /\ occ \in 0 .. VpqSize /\ Kept(i) \in 0 .. occ
  <2>1. /\ window \in Seq(Instruction) /\ vpq_head \in Cursor(VpqSize)
        /\ VpqSize \in Nat \ {0}
    BY VpuAssumption DEF IInv, TypeOK
  <2>2. Len(window) \in Nat /\ window[i] \in Instruction
    BY <2>1, LenProperties
  <2>3. window[i].vpq_tail_checkpoint \in Cursor(VpqSize)
    BY <2>2 DEF Instruction
  <2>4. window[i].checkpoint /\ ~window[i].eligible
    BY DEF IInv, InstructionOK, ResolveMispredicted
  <2>5. occ \in 0 .. VpqSize /\ Kept(i) \in 0 .. occ
    BY <2>4 DEF IInv, Queue, VpqLockstep, Coherent, CheckpointsSplitVpq, Kept
  <2> QED BY <2>1, <2>2, <2>3, <2>4, <2>5
<1>2. entry \in Instruction
  BY <1>1, Zenon DEF Instruction
<1>3. /\ window' = [SubSeq(window, 1, i) EXCEPT ![i] = entry]
      /\ UNCHANGED <<mode, vpq, vpq_head>>
  <2>1. SubSeq(window, 1, i)[i] = window[i]
    BY <1>1, SubSeqProperties
  <2> QED BY <1>1, <2>1 DEF ResolveMispredicted
<1>4. /\ svp' \in [0 .. SvpSize - 1 -> SvpEntry]
      /\ vpq_tail' = window[i].vpq_tail_checkpoint
  BY RollbackType DEF ResolveMispredicted, IInv, TypeOK
<1>5. \A f \in {"eligible", "checkpoint", "vpq_index", "vpq_tail_checkpoint",
                "pc", "result"} : entry[f] = window[i][f]
  BY <1>1 DEF Instruction
<1> HIDE DEF entry
<1>6. /\ window' \in Seq(Instruction) /\ Len(window') = i
      /\ \A j \in 1 .. i : window'[j] = IF j = i THEN entry ELSE window[j]
  <2> DEFINE short == SubSeq(window, 1, i)
  <2>1. /\ short \in Seq(Instruction) /\ Len(short) = i
        /\ \A j \in 1 .. i : short[j] = window[j]
    <3>1. \A j \in 1 .. i : window[j] \in Instruction
      BY <1>1
    <3> QED BY <1>1, <3>1, SubSeqProperties
  <2>2. window' = [short EXCEPT ![i] = entry]
    BY <1>3
  <2> HIDE DEF short
  <2>3. i \in 1 .. Len(short)
    BY <1>1, <2>1
  <2> QED BY <1>2, <2>1, <2>2, <2>3, ExceptSeq
<1>7. TypeOK'
  BY <1>1, <1>3, <1>4, <1>6 DEF IInv, TypeOK
<1>8. InstructionOK'
  BY <1>1, <1>5, <1>6 DEF IInv, InstructionOK
<1>9. \A j \in 1 .. i : /\ j \in 1 .. Len(window)
                        /\ window'[j].eligible = window[j].eligible
                        /\ window'[j].checkpoint = window[j].checkpoint
                        /\ window'[j].vpq_index = window[j].vpq_index
                        /\ Kept(j)' = Kept(j)
                        /\ PositionInVpq(j)' = PositionInVpq(j)
  BY <1>1, <1>3, <1>5, <1>6 DEF Kept, PositionInVpq
<1>10. EligibleInFlight' = {j \in EligibleInFlight : j < i}
  BY <1>1, <1>6, <1>9 DEF EligibleInFlight
<1>11. Occupancy(vpq_head, vpq_tail, VpqSize)' = Kept(i)
  BY <1>3, <1>4 DEF Kept
<1>12. \A j \in EligibleInFlight : PositionInVpq(j) < Kept(i) <=> j < i
  BY <1>1 DEF IInv, Queue, CheckpointsSplitVpq, Kept
<1>13. VpqLockstep'
  <2>1. Coherent(vpq_head, vpq_tail, VpqSize)'
    BY <1>1, <1>11 DEF Coherent
  <2>2. \A s \in Slots : s \in InFlightSlots' <=> Offset(vpq_head, s, VpqSize) < Kept(i)
    BY <1>3, <1>11 DEF InFlightSlots, Span, Slots
  <2>3. \A s \in Slots : s \in InFlightSlots' => s \in InFlightSlots
    BY <1>1, <2>2, OffsetType DEF InFlightSlots, Span, Slots
  <2>4. \A j \in EligibleInFlight' : (window[j].vpq_index \in InFlightSlots)'
    BY <1>9, <1>10, <1>12, <2>2 DEF IInv, InstructionOK, PositionInVpq, EligibleInFlight
  <2>5. \A j, k \in EligibleInFlight' : j < k => (PositionInVpq(j) < PositionInVpq(k))'
    BY <1>9, <1>10 DEF IInv, Queue, VpqLockstep, EligibleInFlight
  <2>6. ASSUME NEW s \in InFlightSlots'
        PROVE  \E j \in EligibleInFlight' : window'[j].vpq_index = s
    <3>1. s \in Slots
      BY DEF InFlightSlots, Span, Slots
    <3>2. PICK j \in EligibleInFlight : window[j].vpq_index = s
      BY <2>3, <3>1 DEF IInv, Queue, VpqLockstep
    <3>3. j < i
      BY <1>12, <2>2, <3>1, <3>2 DEF PositionInVpq
    <3> QED BY <1>9, <1>10, <3>2, <3>3 DEF EligibleInFlight
  <2> QED BY <2>1, <2>4, <2>5, <2>6 DEF VpqLockstep
<1>14. \A b \in 1 .. i : window[b].checkpoint => Kept(b) \in 0 .. Kept(i)
  BY <1>1 DEF IInv, Queue, CheckpointsOrdered, CheckpointsSplitVpq, Kept
<1>15. CheckpointsSplitVpq'
  <2> SUFFICES ASSUME NEW b \in 1 .. i, window'[b].checkpoint
               PROVE  /\ Kept(b)' \in 0 .. Kept(i)
                      /\ \A j \in EligibleInFlight' : (PositionInVpq(j) < Kept(b))' <=> j < b
    BY <1>6, <1>11 DEF CheckpointsSplitVpq, Kept
  <2>1. window[b].checkpoint /\ b \in 1 .. Len(window) /\ Kept(b)' = Kept(b)
    BY <1>9
  <2>2. \A j \in EligibleInFlight : PositionInVpq(j) < Kept(b) <=> j < b
    BY <2>1 DEF IInv, Queue, CheckpointsSplitVpq, Kept
  <2>3. \A j \in EligibleInFlight' : /\ j \in EligibleInFlight
                                    /\ PositionInVpq(j)' = PositionInVpq(j)
    BY <1>9, <1>10 DEF EligibleInFlight
  <2> QED BY <1>14, <2>1, <2>2, <2>3
<1>16. CheckpointsOrdered'
  BY <1>6, <1>9 DEF IInv, Queue, CheckpointsOrdered
<1>17. EntriesOfOwners'
  BY <1>1, <1>3, <1>5, <1>6, <1>10 DEF IInv, EntriesOfOwners, EligibleInFlight
<1> QED BY <1>7, <1>8, <1>13, <1>15, <1>16, <1>17 DEF IInv, Queue

\* After a complete squash nothing is left in the window and in the VPQ.
LEMMA EmptyStep ==
  ASSUME IInv, mode' = mode, svp' \in [0 .. SvpSize - 1 -> SvpEntry], vpq' = vpq,
         vpq_head' \in Cursor(VpqSize), vpq_tail' = vpq_head', window' = <<>>
  PROVE  IInv'
<1>1. Occupancy(vpq_head, vpq_tail, VpqSize)' = 0
  BY EmptyOccupancy, VpuAssumption
<1>2. Len(window') = 0 /\ window' \in Seq(Instruction)
  BY EmptySeq
<1>3. TypeOK'
  BY <1>2 DEF IInv, TypeOK
<1>4. EligibleInFlight' = {}
  BY <1>2 DEF EligibleInFlight
<1>5. InFlightSlots' = {}
  <2>1. \A s \in 0 .. VpqSize - 1 : Offset(vpq_head', s, VpqSize) \in 0 .. VpqSize - 1
    BY OffsetType, VpuAssumption
  <2> QED BY <1>1, <2>1 DEF InFlightSlots, Span
<1>6. VpqLockstep'
  BY <1>1, <1>4, <1>5, VpuAssumption DEF VpqLockstep, Coherent
<1>7. InstructionOK' /\ CheckpointsSplitVpq' /\ CheckpointsOrdered'
  BY <1>2 DEF InstructionOK, CheckpointsSplitVpq, CheckpointsOrdered
<1>8. EntriesOfOwners'
  BY <1>4 DEF EntriesOfOwners
<1> QED BY <1>3, <1>6, <1>7, <1>8 DEF IInv, Queue

LEMMA RetireSquashStep ==
  ASSUME IInv, RetireSquash
  PROVE  IInv'
<1>1. /\ svp' \in [0 .. SvpSize - 1 -> SvpEntry] /\ vpq_tail' = vpq_head
      /\ vpq_head \in Cursor(VpqSize)
  BY RollbackType DEF RetireSquash, IInv, TypeOK
<1> QED BY <1>1, EmptyStep DEF RetireSquash

-----------------------------------------------------------------------------
(* Retirement *)

\* The head trains the SVP with an address and a value of its own.
LEMMA HeadEntry ==
  ASSUME IInv, HeadCompleted, window[1].eligible
  PROVE  /\ vpq[vpq_head.ptr] = [pc |-> window[1].pc, val |-> window[1].result]
         /\ window[1].pc \in PCs /\ window[1].result \in Values
<1>1. /\ 1 \in 1 .. Len(window) /\ 1 \in EligibleInFlight /\ window[1].completed
  BY LenProperties DEF HeadCompleted, EligibleInFlight, IInv, TypeOK
<1>2. window[1].vpq_index = vpq_head.ptr /\ vpq_head.ptr \in Slots
  BY HeadOwner DEF HeadCompleted
<1>3. vpq[vpq_head.ptr] \in VpqEntry
  BY <1>2 DEF IInv, TypeOK
<1>4. vpq[vpq_head.ptr].pc = window[1].pc /\ vpq[vpq_head.ptr].val = window[1].result
  BY <1>1, <1>2 DEF IInv, EntriesOfOwners
<1>5. window[1].pc \in PCs /\ window[1].result \in Values
  BY <1>1 DEF IInv, InstructionOK
<1> QED BY <1>3, <1>4, <1>5 DEF VpqEntry

LEMMA TrainedSvpType ==
  ASSUME IInv, HeadCompleted
  PROVE  TrainedSvp \in [0 .. SvpSize - 1 -> SvpEntry]
<1>1. svp \in [0 .. SvpSize - 1 -> SvpEntry]
  BY DEF IInv, TypeOK
<1>2. CASE window[1].eligible /\ mode # "perf"
  <2>1. /\ vpq[vpq_head.ptr].pc \in PCs /\ vpq[vpq_head.ptr].val \in Values
    BY <1>2, HeadEntry
  <2> QED BY <1>1, <1>2, <2>1, TrainSvpType DEF TrainedSvp
<1> QED BY <1>1, <1>2 DEF TrainedSvp

LEMMA PoppedHeadType ==
  ASSUME IInv
  PROVE  PoppedHead \in Cursor(VpqSize)
  BY AdvanceType, VpuAssumption DEF PoppedHead, IInv, TypeOK

LEMMA RetireValueMispredictedStep ==
  ASSUME IInv, RetireValueMispredicted
  PROVE  IInv'
<1>1. TrainedSvp \in [0 .. SvpSize - 1 -> SvpEntry]
  BY TrainedSvpType DEF RetireValueMispredicted
<1>2. svp' \in [0 .. SvpSize - 1 -> SvpEntry] /\ vpq_tail' = PoppedHead
  BY <1>1, RollbackType DEF RetireValueMispredicted
<1> QED BY <1>2, PoppedHeadType, EmptyStep DEF RetireValueMispredicted

\* Everything in the window moves one place to the front; in the VPQ it does
\* when the head leaves it.
LEMMA RetireStep ==
  ASSUME IInv, Retire
  PROVE  IInv'
<1> DEFINE occ == Occupancy(vpq_head, vpq_tail, VpqSize)
           pop == IF window[1].eligible THEN 1 ELSE 0
<1>1. /\ window \in Seq(Instruction) /\ Len(window) \in Nat \ {0}
      /\ vpq_head \in Cursor(VpqSize) /\ vpq_tail \in Cursor(VpqSize)
      /\ VpqSize \in Nat \ {0} /\ occ \in 0 .. VpqSize /\ pop \in {0, 1}
      /\ vpq_head' = PoppedHead /\ UNCHANGED <<mode, vpq, vpq_tail>>
  <2>1. window \in Seq(Instruction) /\ Len(window) \in Nat
    BY LenProperties DEF IInv, TypeOK
  <2>2. occ \in 0 .. VpqSize
    BY DEF IInv, Queue, VpqLockstep, Coherent
  <2> QED BY <2>1, <2>2, VpuAssumption DEF IInv, TypeOK, Retire, HeadCompleted
<1>2. /\ window' \in Seq(Instruction) /\ Len(window') = Len(window) - 1
      /\ \A j \in 1 .. Len(window') : window'[j] = window[j + 1]
  <2>1. window # <<>>
    BY <1>1
  <2> QED BY <1>1, <2>1, HeadTailProperties DEF Retire
<1>3. /\ \A j \in 1 .. Len(window') : j + 1 \in 1 .. Len(window) /\ j \in Nat
      /\ 1 \in 1 .. Len(window)
  BY <1>1, <1>2
<1>4. TypeOK'
  BY <1>1, <1>2, TrainedSvpType, PoppedHeadType DEF Retire, IInv, TypeOK
<1>5. InstructionOK'
  BY <1>2, <1>3 DEF IInv, InstructionOK
<1>6. \A j \in 1 .. Len(window') : j \in EligibleInFlight' <=> j + 1 \in EligibleInFlight
  BY <1>2, <1>3 DEF EligibleInFlight
<1>7. ASSUME ~window[1].eligible PROVE Queue'
  <2>1. vpq_head' = vpq_head /\ InFlightSlots' = InFlightSlots
    BY <1>1, <1>7 DEF PoppedHead, InFlightSlots
  <2>2. \A j \in 1 .. Len(window') : /\ PositionInVpq(j)' = PositionInVpq(j + 1)
                                     /\ Kept(j)' = Kept(j + 1)
    BY <1>2, <2>1 DEF PositionInVpq, Kept
  <2>3. \A i \in EligibleInFlight : i - 1 \in EligibleInFlight' /\ i \in Nat
    BY <1>1, <1>2, <1>3, <1>7 DEF EligibleInFlight
  <2>4. VpqLockstep'
    <3>1. Coherent(vpq_head, vpq_tail, VpqSize)'
      BY <1>1, <2>1 DEF IInv, Queue, VpqLockstep
    <3>2. \A i \in EligibleInFlight' : (window[i].vpq_index \in InFlightSlots)'
      BY <1>2, <1>6, <2>1 DEF IInv, Queue, VpqLockstep, EligibleInFlight
    <3>3. \A i, j \in EligibleInFlight' : i < j => (PositionInVpq(i) < PositionInVpq(j))'
      BY <1>3, <1>6, <2>2 DEF IInv, Queue, VpqLockstep, EligibleInFlight
    <3>4. ASSUME NEW s \in InFlightSlots'
          PROVE  \E i \in EligibleInFlight' : window'[i].vpq_index = s
      <4>1. PICK i \in EligibleInFlight : window[i].vpq_index = s
        BY <2>1 DEF IInv, Queue, VpqLockstep
      <4>2. i - 1 \in EligibleInFlight' /\ window'[i - 1] = window[i]
        BY <1>2, <2>3 DEF EligibleInFlight
      <4> QED BY <4>1, <4>2
    <3> QED BY <3>1, <3>2, <3>3, <3>4 DEF VpqLockstep
  <2>5. CheckpointsSplitVpq'
    <3> SUFFICES ASSUME NEW b \in 1 .. Len(window'), window'[b].checkpoint
                 PROVE  /\ Kept(b)' \in 0 .. occ
                        /\ \A i \in EligibleInFlight' : (PositionInVpq(i) < Kept(b))' <=> i < b
      BY <1>1, <2>1 DEF CheckpointsSplitVpq, Kept
    <3>1. /\ b + 1 \in 1 .. Len(window) /\ window[b + 1].checkpoint
          /\ Kept(b)' = Kept(b + 1)
      BY <1>2, <1>3, <2>2
    <3>2. /\ Kept(b + 1) \in 0 .. occ
          /\ \A i \in EligibleInFlight : PositionInVpq(i) < Kept(b + 1) <=> i < b + 1
      BY <3>1 DEF IInv, Queue, CheckpointsSplitVpq, Kept
    <3>3. \A i \in EligibleInFlight' : /\ i \in 1 .. Len(window') /\ i + 1 \in EligibleInFlight
                                       /\ PositionInVpq(i)' = PositionInVpq(i + 1)
      BY <1>6, <2>2 DEF EligibleInFlight
    <3> QED BY <3>1, <3>2, <3>3
  <2>6. CheckpointsOrdered'
    BY <1>2, <1>3, <2>2 DEF IInv, Queue, CheckpointsOrdered
  <2> QED BY <2>4, <2>5, <2>6 DEF Queue
<1>8. ASSUME window[1].eligible PROVE Queue'
  <2>1. /\ occ \in 1 .. VpqSize /\ window[1].vpq_index = vpq_head.ptr
        /\ vpq_head.ptr \in Slots /\ 1 \in EligibleInFlight
    BY <1>1, <1>3, <1>8, HeadOwner DEF EligibleInFlight
  <2>2. /\ vpq_head' = Advance(vpq_head, VpqSize)
        /\ Occupancy(vpq_head, vpq_tail, VpqSize)' = occ - 1
    BY <1>1, <1>8, <2>1, PopOccupancy DEF PoppedHead
  <2>3. \A s \in Slots : s # vpq_head.ptr =>
          /\ Offset(vpq_head, s, VpqSize) \in 1 .. VpqSize - 1
          /\ Offset(vpq_head', s, VpqSize) = Offset(vpq_head, s, VpqSize) - 1
    <3> SUFFICES ASSUME NEW s \in Slots, s # vpq_head.ptr
                 PROVE  /\ Offset(vpq_head, s, VpqSize) \in 1 .. VpqSize - 1
                        /\ Offset(vpq_head', s, VpqSize) = Offset(vpq_head, s, VpqSize) - 1
      OBVIOUS
    <3>1. Offset(vpq_head, s, VpqSize) \in 0 .. VpqSize - 1
      BY <1>1, OffsetType DEF Slots
    <3>2. Offset(vpq_head, s, VpqSize) # 0
      BY <1>1, <2>1, HeadOffset, OffsetInjective DEF Slots
    <3>3. Offset(vpq_head, s, VpqSize) \in 1 .. VpqSize - 1
      BY <1>1, <3>1, <3>2
    <3> QED BY <1>1, <2>2, <3>3, PopOffset DEF Slots
  <2>4. InFlightSlots' = InFlightSlots \ {vpq_head.ptr}
    <3>1. Offset(vpq_head', vpq_head.ptr, VpqSize) = VpqSize - 1
      BY <1>1, <2>2, PoppedOffset
    <3>2. vpq_head.ptr \notin InFlightSlots'
      BY <1>1, <2>1, <2>2, <3>1 DEF InFlightSlots, Span
    <3>3. ASSUME NEW s \in Slots, s # vpq_head.ptr
          PROVE  s \in InFlightSlots' <=> s \in InFlightSlots
      BY <1>1, <2>1, <2>2, <2>3, <3>3 DEF InFlightSlots, Span, Slots
    <3> QED BY <3>2, <3>3 DEF InFlightSlots, Span, Slots
  <2>5. \A j \in EligibleInFlight' :
          /\ j \in 1 .. Len(window') /\ j + 1 \in EligibleInFlight
          /\ window'[j] = window[j + 1]
          /\ window[j + 1].vpq_index \in Slots \ {vpq_head.ptr}
          /\ PositionInVpq(j)' = PositionInVpq(j + 1) - 1
          /\ PositionInVpq(j + 1) \in 1 .. VpqSize - 1
    <3> SUFFICES ASSUME NEW j \in EligibleInFlight'
                 PROVE  /\ j \in 1 .. Len(window') /\ j + 1 \in EligibleInFlight
                        /\ window'[j] = window[j + 1]
                        /\ window[j + 1].vpq_index \in Slots \ {vpq_head.ptr}
                        /\ PositionInVpq(j)' = PositionInVpq(j + 1) - 1
                        /\ PositionInVpq(j + 1) \in 1 .. VpqSize - 1
      OBVIOUS
    <3>1. /\ j \in 1 .. Len(window') /\ j + 1 \in EligibleInFlight /\ j + 1 # 1
          /\ window'[j] = window[j + 1]
      BY <1>2, <1>3, <1>6 DEF EligibleInFlight
    <3>2. window[j + 1].vpq_index \in Slots
      BY <3>1 DEF IInv, InstructionOK, EligibleInFlight
    <3>3. window[j + 1].vpq_index # vpq_head.ptr
      BY <2>1, <3>1, OwnersDiffer
    <3> QED BY <2>3, <3>1, <3>2, <3>3 DEF PositionInVpq
  <2>6. VpqLockstep'
    <3>1. Coherent(vpq_head, vpq_tail, VpqSize)'
      BY <1>1, <2>1, <2>2 DEF Coherent
    <3>2. \A i \in EligibleInFlight' : (window[i].vpq_index \in InFlightSlots)'
      BY <2>4, <2>5 DEF IInv, Queue, VpqLockstep
    <3>3. \A i, j \in EligibleInFlight' : i < j => (PositionInVpq(i) < PositionInVpq(j))'
      <4> SUFFICES ASSUME NEW i \in EligibleInFlight', NEW j \in EligibleInFlight', i < j
                   PROVE  PositionInVpq(i)' < PositionInVpq(j)'
        OBVIOUS
      <4>1. PositionInVpq(i + 1) < PositionInVpq(j + 1)
        BY <2>5 DEF IInv, Queue, VpqLockstep
      <4> QED BY <1>1, <2>5, <4>1
    <3>4. ASSUME NEW s \in InFlightSlots'
          PROVE  \E i \in EligibleInFlight' : window'[i].vpq_index = s
      <4>1. PICK i \in EligibleInFlight : window[i].vpq_index = s
        BY <2>4 DEF IInv, Queue, VpqLockstep
      <4>2. i # 1
        BY <2>1, <2>4, <4>1
      <4>3. i - 1 \in EligibleInFlight' /\ window'[i - 1] = window[i]
        BY <1>1, <1>2, <4>2 DEF EligibleInFlight
      <4> QED BY <4>1, <4>3
    <3> QED BY <3>1, <3>2, <3>3, <3>4 DEF VpqLockstep
  <2>7. ASSUME NEW b \in 1 .. Len(window'), window'[b].checkpoint
        PROVE  /\ b + 1 \in 1 .. Len(window) /\ window[b + 1].checkpoint
               /\ Kept(b + 1) \in 1 .. occ /\ Kept(b)' = Kept(b + 1) - 1
    <3>1. b + 1 \in 1 .. Len(window) /\ window[b + 1].checkpoint /\ 1 < b + 1
      BY <1>2, <1>3, <2>7
    <3>2. /\ Kept(b + 1) \in 0 .. occ
          /\ PositionInVpq(1) < Kept(b + 1)
      BY <2>1, <3>1 DEF IInv, Queue, CheckpointsSplitVpq, Kept
    <3>3. PositionInVpq(1) = 0
      BY <1>1, <2>1, HeadOffset DEF PositionInVpq
    <3>4. Kept(b + 1) \in 1 .. occ
      BY <1>1, <3>2, <3>3
    <3>5. window[b + 1].vpq_tail_checkpoint \in Cursor(VpqSize)
      <4>1. window[b + 1] \in Instruction
        BY <1>1, <3>1
      <4> QED BY <4>1 DEF Instruction
    <3>6. Kept(b)' = Occupancy(vpq_head', window[b + 1].vpq_tail_checkpoint, VpqSize)
      BY <1>2 DEF Kept
    <3> QED BY <1>1, <2>2, <3>1, <3>4, <3>5, <3>6, PopOccupancy DEF Kept
  <2>8. CheckpointsSplitVpq'
    <3> SUFFICES ASSUME NEW b \in 1 .. Len(window'), window'[b].checkpoint
                 PROVE  /\ Kept(b)' \in 0 .. occ - 1
                        /\ \A i \in EligibleInFlight' : (PositionInVpq(i) < Kept(b))' <=> i < b
      BY <2>2 DEF CheckpointsSplitVpq, Kept
    <3>1. /\ b + 1 \in 1 .. Len(window) /\ window[b + 1].checkpoint
          /\ Kept(b + 1) \in 1 .. occ /\ Kept(b)' = Kept(b + 1) - 1
      BY <2>7
    <3>2. \A i \in EligibleInFlight : PositionInVpq(i) < Kept(b + 1) <=> i < b + 1
      BY <3>1 DEF IInv, Queue, CheckpointsSplitVpq, Kept
    <3> QED BY <1>1, <2>5, <3>1, <3>2
  <2>9. CheckpointsOrdered'
    <3> SUFFICES ASSUME NEW b \in 1 .. Len(window'), NEW c \in 1 .. Len(window'),
                        b < c, window'[b].checkpoint, window'[c].checkpoint
                 PROVE  Kept(b)' <= Kept(c)'
      BY DEF CheckpointsOrdered
    <3>1. Kept(b + 1) <= Kept(c + 1)
      BY <1>3, <2>7 DEF IInv, Queue, CheckpointsOrdered
    <3> QED BY <1>1, <2>7, <3>1
  <2> QED BY <2>6, <2>8, <2>9 DEF Queue
<1>9. EntriesOfOwners'
  BY <1>1, <1>2, <1>6 DEF IInv, EntriesOfOwners, EligibleInFlight
<1> QED BY <1>4, <1>5, <1>7, <1>8, <1>9 DEF IInv

-----------------------------------------------------------------------------
(* The instance counters.  They are exact when no two instructions share    *)
(* index and tag: training looks the counter up by index and tag, but a new *)
(* owner counts its instances by their full address (retire.cc:124-144).    *)

Table == [0 .. SvpSize - 1 -> SvpEntry]

\* The instances of entry x among the entries of a queue
Instances(table, queue, slots, x) ==
  {s \in slots : Index(queue[s].pc) = x /\ Matches(table[x], queue[s].pc)}

Exact(table, queue, slots) ==
  \A x \in 0 .. SvpSize - 1 :
    table[x].valid => table[x].instcount = Cardinality(Instances(table, queue, slots, x))

LEMMA ExactIs ==
  ASSUME TypeOK
  PROVE  InstCountExact <=> (mode # "perf" => Exact(svp, vpq, InFlightSlots))
<1>1. DOMAIN svp = 0 .. SvpSize - 1
  BY DEF TypeOK
<1>2. \A x \in 0 .. SvpSize - 1 : MatchingInFlight(x) = Instances(svp, vpq, InFlightSlots, x)
  BY DEF MatchingInFlight, Instances
<1> QED BY <1>1, <1>2 DEF InstCountExact, Exact

LEMMA InstancesType ==
  ASSUME NEW table, NEW queue, NEW slots, slots \subseteq Slots, NEW x
  PROVE  /\ IsFiniteSet(Instances(table, queue, slots, x))
         /\ Cardinality(Instances(table, queue, slots, x)) \in Nat
<1>1. Instances(table, queue, slots, x) \subseteq Slots
  BY DEF Instances
<1> QED BY <1>1, SlotsFinite

\* The entries in flight have addresses of the program.
LEMMA SlotOwner ==
  ASSUME IInv, NEW s \in InFlightSlots
  PROVE  vpq[s].pc \in PCs
<1>1. PICK i \in EligibleInFlight : window[i].vpq_index = s
  BY DEF IInv, Queue, VpqLockstep
<1>2. vpq[s].pc = window[i].pc /\ window[i].pc \in PCs
  BY <1>1 DEF IInv, EntriesOfOwners, InstructionOK, EligibleInFlight
<1> QED BY <1>2

\* A rollback takes back the instances that leave the queue, and no others.
LEMMA RepairedExact ==
  ASSUME NEW table \in Table, NEW kept, NEW leaving,
         kept \subseteq Slots, leaving \subseteq Slots, kept \cap leaving = {},
         Exact(table, vpq, kept \cup leaving)
  PROVE  Exact(Repaired(table, leaving), vpq, kept)
<1> DEFINE new == Repaired(table, leaving)
<1> SUFFICES ASSUME NEW x \in 0 .. SvpSize - 1, new[x].valid
             PROVE  new[x].instcount = Cardinality(Instances(new, vpq, kept, x))
  BY DEF Exact
<1> DEFINE K == Instances(table, vpq, kept, x)
           L == Instances(table, vpq, leaving, x)
           n == table[x].instcount - Cardinality(L)
<1>1. new[x] = [table[x] EXCEPT !.instcount = n] /\ table[x] \in SvpEntry
  BY DEF Repaired, Instances, Table
<1>2. /\ new[x].valid = table[x].valid /\ new[x].tag = table[x].tag
      /\ new[x].instcount = n
  BY <1>1 DEF SvpEntry
<1>3. Instances(new, vpq, kept, x) = K
  <2> HIDE DEF new
  <2> QED BY <1>2 DEF Instances, Matches
<1>4. /\ Instances(table, vpq, kept \cup leaving, x) = K \cup L
      /\ K \cap L = {}
  BY DEF Instances
<1>5. /\ IsFiniteSet(K) /\ Cardinality(K) \in Nat
      /\ IsFiniteSet(L) /\ Cardinality(L) \in Nat
  BY InstancesType
<1>6. table[x].instcount = Cardinality(K \cup L)
  BY <1>2, <1>4 DEF Exact
<1> HIDE DEF K, L
<1>7. Cardinality(K \cup L) = Cardinality(K) + Cardinality(L)
  <2>1. Cardinality(K \cup L) = Cardinality(K) + Cardinality(L) - Cardinality(K \cap L)
    BY <1>5, FS_Union
  <2>2. Cardinality(K \cap L) = 0
    BY <1>4, FS_EmptySet
  <2> QED BY <1>5, <2>1, <2>2
<1>8. n = Cardinality(K)
  BY <1>5, <1>6, <1>7
<1> QED BY <1>2, <1>3, <1>8

\* A prediction counts the new instance in the entry it matches
\* (vpu.cc:101-106).
LEMMA CountedExact ==
  ASSUME NEW table \in Table, NEW queue, NEW pc \in PCs, NEW slots,
         slots \subseteq Slots, NEW s \in Slots, s \notin slots, queue[s].pc = pc,
         Exact(table, queue, slots)
  PROVE  Exact(CountInstance(table, pc), queue, slots \cup {s})
<1> DEFINE new == CountInstance(table, pc)
<1>0. Index(pc) \in 0 .. SvpSize - 1
  BY IndexType
<1> SUFFICES ASSUME NEW x \in 0 .. SvpSize - 1, new[x].valid
             PROVE  new[x].instcount = Cardinality(Instances(new, queue, slots \cup {s}, x))
  BY DEF Exact
<1> DEFINE I == Instances(table, queue, slots, x)
<1>1. IsFiniteSet(I) /\ Cardinality(I) \in Nat /\ s \notin I
  <2>1. IsFiniteSet(I) /\ Cardinality(I) \in Nat
    BY InstancesType
  <2> QED BY <2>1 DEF Instances
<1>2. table[x] \in SvpEntry /\ DOMAIN table = 0 .. SvpSize - 1
  BY DEF Table
<1>3. CASE x = Index(pc) /\ Matches(table[x], pc)
  <2>1. new = [table EXCEPT ![x].instcount = table[x].instcount + 1]
    BY <1>3 DEF CountInstance
  <2>2. /\ new[x].valid = table[x].valid /\ new[x].tag = table[x].tag
        /\ new[x].instcount = table[x].instcount + 1
    BY <1>2, <2>1 DEF SvpEntry
  <2> HIDE DEF new
  <2>3. Instances(new, queue, slots \cup {s}, x) = I \cup {s}
    BY <1>3, <2>2 DEF Instances, Matches
  <2>4. table[x].instcount = Cardinality(I)
    BY <2>2 DEF Exact
  <2>5. Cardinality(I \cup {s}) = Cardinality(I) + 1
    BY <1>1, FS_AddElement
  <2> QED BY <2>2, <2>3, <2>4, <2>5
<1>4. CASE ~(x = Index(pc) /\ Matches(table[x], pc))
  <2>1. new[x] = table[x]
    BY <1>0, <1>4 DEF CountInstance
  <2> HIDE DEF new
  <2>2. Instances(new, queue, slots \cup {s}, x) = I
    BY <1>4, <2>1 DEF Instances
  <2>3. table[x].instcount = Cardinality(I)
    BY <2>1 DEF Exact
  <2> QED BY <2>1, <2>2, <2>3
<1> QED BY <1>3, <1>4

\* The counting walk of a replacement visits what stays in flight behind the
\* head, although it does not look at the phases (retire.cc:127-143).
LEMMA YoungerInFlight ==
  ASSUME TypeOK, Occupancy(vpq_head, vpq_tail, VpqSize) \in 1 .. VpqSize
  PROVE  YoungerSlots = InFlightSlots \ {vpq_head.ptr}
<1> DEFINE next == Advance(vpq_head, VpqSize)
           walk == IF vpq_tail.ptr >= next.ptr THEN vpq_tail.ptr - next.ptr
                                               ELSE vpq_tail.ptr + VpqSize - next.ptr
<1>1. /\ VpqSize \in Nat \ {0} /\ vpq_head \in Cursor(VpqSize)
      /\ vpq_tail \in Cursor(VpqSize) /\ next \in Cursor(VpqSize)
  BY AdvanceType, VpuAssumption DEF TypeOK
<1>2. Occupancy(next, vpq_tail, VpqSize) = walk
  <2>1. Occupancy(next, vpq_tail, VpqSize) \in 0 .. VpqSize - 1
    BY <1>1, PopOccupancy
  <2> HIDE DEF next
  <2> QED BY <1>1, <2>1 DEF Cursor, Occupancy
<1>3. YoungerSlots = Span(next, vpq_tail, VpqSize)
  BY <1>2 DEF YoungerSlots, Span, Offset, Slots
<1> QED BY <1>1, <1>3, SpanPop DEF InFlightSlots

\* The training of the head leaves the counters right for the entries behind it.
LEMMA TrainedExact ==
  ASSUME IInv, NoAliasing, mode # "perf", HeadCompleted, window[1].eligible,
         Exact(svp, vpq, InFlightSlots)
  PROVE  Exact(TrainedSvp, vpq, InFlightSlots \ {vpq_head.ptr})
<1> DEFINE head == vpq_head.ptr
           pc   == vpq[head].pc
           new  == TrainedSvp
           rest == InFlightSlots \ {head}
           I(x) == Instances(svp, vpq, InFlightSlots, x)
<1>1. /\ Occupancy(vpq_head, vpq_tail, VpqSize) \in 1 .. VpqSize
      /\ head \in Slots /\ head \in InFlightSlots
  <2>1. Len(window) > 0
    BY DEF HeadCompleted
  <2>2. Occupancy(vpq_head, vpq_tail, VpqSize) \in 1 .. VpqSize /\ head \in Slots
    BY <2>1, HeadOwner
  <2> QED BY <2>2, SpanPop, VpuAssumption DEF IInv, TypeOK, InFlightSlots
<1>2. pc \in PCs /\ vpq[head].val \in Values
  BY HeadEntry
<1>3. svp \in Table /\ Index(pc) \in 0 .. SvpSize - 1
  BY <1>2, IndexType DEF IInv, TypeOK, Table
<1>4. InFlightSlots \subseteq Slots
  BY SpanType DEF InFlightSlots
<1> DEFINE entry == IF Matches(svp[Index(pc)], pc)
                    THEN Trained(svp[Index(pc)], vpq[head].val)
                    ELSE Replaced(pc, vpq[head].val)
<1>5. new = [svp EXCEPT ![Index(pc)] = entry]
  BY DEF TrainedSvp, TrainSvp
<1> SUFFICES ASSUME NEW x \in 0 .. SvpSize - 1, new[x].valid
             PROVE  new[x].instcount = Cardinality(Instances(new, vpq, rest, x))
  BY DEF Exact
<1>6. /\ IsFiniteSet(I(x)) /\ Cardinality(I(x)) \in Nat
      /\ svp[x].valid => svp[x].instcount = Cardinality(I(x))
  BY <1>4, InstancesType DEF Exact
<1>7. CASE x # Index(pc)
  <2>1. new[x] = svp[x]
    BY <1>3, <1>5, <1>7
  <2> HIDE DEF new
  <2>2. Instances(new, vpq, rest, x) = I(x)
    BY <1>7, <2>1 DEF Instances
  <2> QED BY <1>6, <2>1, <2>2
<1>8. CASE x = Index(pc) /\ Matches(svp[x], pc)
  <2>1. new[x] = Trained(svp[x], vpq[head].val) /\ svp[x] \in SvpEntry
    BY <1>3, <1>5, <1>8 DEF Table
  <2>2. /\ new[x].valid = svp[x].valid /\ new[x].tag = svp[x].tag
        /\ new[x].instcount = svp[x].instcount - 1
    <3> HIDE DEF new
    <3> QED BY <2>1 DEF Trained, SvpEntry
  <2> HIDE DEF new
  <2>3. Instances(new, vpq, rest, x) = I(x) \ {head} /\ head \in I(x)
    BY <1>1, <1>8, <2>2 DEF Instances, Matches
  <2>4. Cardinality(I(x) \ {head}) = Cardinality(I(x)) - 1
    BY <1>6, <2>3, FS_RemoveElement
  <2>5. svp[x].instcount = Cardinality(I(x))
    BY <1>6, <1>8 DEF Matches
  <2> QED BY <2>2, <2>3, <2>4, <2>5
<1>9. CASE x = Index(pc) /\ ~Matches(svp[x], pc)
  <2>1. new[x] = Replaced(pc, vpq[head].val)
    BY <1>3, <1>5, <1>9 DEF Table
  <2>2. /\ new[x].valid /\ new[x].tag = Tag(pc)
        /\ new[x].instcount = Cardinality({s \in rest : vpq[s].pc = pc})
    <3>1. YoungerSlots = rest
      BY <1>1, YoungerInFlight DEF IInv
    <3> HIDE DEF new, rest
    <3> QED BY <2>1, <3>1 DEF Replaced
  <2> HIDE DEF new
  <2>3. ASSUME NEW s \in rest
        PROVE  vpq[s].pc = pc <=> Index(vpq[s].pc) = x /\ Matches(new[x], vpq[s].pc)
    <3>1. vpq[s].pc \in PCs
      BY SlotOwner
    <3>2. Matches(new[x], vpq[s].pc) <=> Tag(vpq[s].pc) = Tag(pc)
      BY <2>2 DEF Matches
    <3> HIDE DEF pc
    <3> QED BY <1>2, <1>9, <3>1, <3>2 DEF NoAliasing
  <2>4. Instances(new, vpq, rest, x) = {s \in rest : vpq[s].pc = pc}
    BY <2>3 DEF Instances
  <2> QED BY <2>2, <2>4
<1> QED BY <1>7, <1>8, <1>9

-----------------------------------------------------------------------------
(* The theorems *)

LEMMA InitIInv == Init => IInv
<1> SUFFICES ASSUME Init PROVE IInv
  OBVIOUS
<1>1. /\ Len(window) = 0 /\ window \in Seq(Instruction)
      /\ vpq_tail = vpq_head /\ vpq_head \in Cursor(VpqSize)
  BY EmptySeq, VpuAssumption DEF Init, Cursor
<1>2. TypeOK
  <2>1. svp \in [0 .. SvpSize - 1 -> SvpEntry]
    BY VpuAssumption DEF Init, SvpEntry, Values
  <2>2. vpq \in [Slots -> VpqEntry]
    BY DEF Init, VpqEntry
  <2> QED BY <1>1, <2>1, <2>2 DEF TypeOK, Init
<1>3. Occupancy(vpq_head, vpq_tail, VpqSize) = 0
  BY <1>1, EmptyOccupancy, VpuAssumption
<1>4. EligibleInFlight = {}
  BY <1>1 DEF EligibleInFlight
<1>5. InFlightSlots = {}
  <2>1. \A s \in 0 .. VpqSize - 1 : Offset(vpq_head, s, VpqSize) \in 0 .. VpqSize - 1
    BY <1>1, OffsetType, VpuAssumption
  <2> QED BY <1>3, <2>1 DEF InFlightSlots, Span
<1>6. VpqLockstep
  BY <1>3, <1>4, <1>5, VpuAssumption DEF VpqLockstep, Coherent
<1>7. InstructionOK /\ CheckpointsSplitVpq /\ CheckpointsOrdered
  BY <1>1 DEF InstructionOK, CheckpointsSplitVpq, CheckpointsOrdered
<1>8. EntriesOfOwners
  BY <1>4 DEF EntriesOfOwners
<1> QED BY <1>2, <1>6, <1>7, <1>8 DEF IInv, Queue

LEMMA NextIInv == IInv /\ [Next]_vars => IInv'
<1> SUFFICES ASSUME IInv, [Next]_vars PROVE IInv'
  OBVIOUS
<1>1. ASSUME NEW pc \in PCs, RenameEligible(pc) PROVE IInv'
  BY <1>1, RenameEligibleStep
<1>2. ASSUME NEW checkpoint \in BOOLEAN, RenameIneligible(checkpoint) PROVE IInv'
  BY <1>2, RenameIneligibleStep
<1>3. ASSUME NEW i \in 1 .. Len(window), NEW value \in Values, Execute(i, value)
      PROVE  IInv'
  BY <1>3, ExecuteStep
<1>4. ASSUME NEW i \in 1 .. Len(window), Complete(i) PROVE IInv'
  BY <1>4, CompleteStep
<1>5. ASSUME NEW i \in 1 .. Len(window), ResolveMispredicted(i) PROVE IInv'
  BY <1>5, ResolveMispredictedStep
<1>6. CASE Retire
  BY <1>6, RetireStep
<1>7. CASE RetireValueMispredicted
  BY <1>7, RetireValueMispredictedStep
<1>8. CASE RetireSquash
  BY <1>8, RetireSquashStep
<1>9. CASE UNCHANGED vars
  <2>1. UNCHANGED <<TypeOK, InstructionOK, EntriesOfOwners>>
    BY <1>9 DEF vars, TypeOK, InstructionOK, EntriesOfOwners, EligibleInFlight
  <2>2. Queue'
    BY <1>9, QueueUnchanged DEF vars
  <2> QED BY <2>1, <2>2 DEF IInv
<1> QED BY <1>1, <1>2, <1>3, <1>4, <1>5, <1>6, <1>7, <1>8, <1>9 DEF Next

LEMMA ExactNext ==
  ASSUME svp' \in Table, mode' # "perf" => Exact(svp', vpq', InFlightSlots')
  PROVE  InstCountExact'
<1>1. DOMAIN svp' = 0 .. SvpSize - 1
  BY DEF Table
<1>2. \A x \in 0 .. SvpSize - 1 :
        MatchingInFlight(x)' = Instances(svp', vpq', InFlightSlots', x)
  BY DEF MatchingInFlight, Instances
<1> QED BY <1>1, <1>2 DEF InstCountExact, Exact

\* Only the addresses of the entries in flight count.
LEMMA ExactSame ==
  ASSUME NEW table, NEW queue, NEW new, NEW slots,
         \A s \in slots : new[s].pc = queue[s].pc, Exact(table, queue, slots)
  PROVE  Exact(table, new, slots)
<1>1. \A x \in 0 .. SvpSize - 1 :
        Instances(table, new, slots, x) = Instances(table, queue, slots, x)
  BY DEF Instances
<1> QED BY <1>1 DEF Exact

LEMMA RenameEligibleExact ==
  ASSUME IInv, mode # "perf", Exact(svp, vpq, InFlightSlots),
         NEW pc \in PCs, RenameEligible(pc)
  PROVE  Exact(svp', vpq', InFlightSlots')
<1>1. /\ svp' = CountInstance(svp, pc)
      /\ vpq' = [vpq EXCEPT ![vpq_tail.ptr].pc = pc]
      /\ vpq_tail' = Advance(vpq_tail, VpqSize)
      /\ vpq_head' = vpq_head
  BY DEF RenameEligible
<1>2. /\ VpqSize \in Nat \ {0} /\ vpq_head \in Cursor(VpqSize)
      /\ vpq_tail \in Cursor(VpqSize) /\ vpq_tail.ptr \in Slots
      /\ svp \in Table /\ InFlightSlots \subseteq Slots
  BY VpuAssumption, SpanType DEF IInv, TypeOK, Cursor, Slots, Table, InFlightSlots
<1>3. Occupancy(vpq_head, vpq_tail, VpqSize) \in 0 .. VpqSize - 1
  <2>1. Occupancy(vpq_head, vpq_tail, VpqSize) \in 0 .. VpqSize
    BY DEF IInv, Queue, VpqLockstep, Coherent
  <2>2. VpqSize - Occupancy(vpq_head, vpq_tail, VpqSize) >= 1
    BY <1>2, FreeEntriesComplement, OccupancyType DEF RenameEligible, VpqStall
  <2> QED BY <1>2, <2>1, <2>2
<1>4. /\ InFlightSlots' = InFlightSlots \cup {vpq_tail.ptr}
      /\ vpq_tail.ptr \notin InFlightSlots
  BY <1>1, <1>2, <1>3, SpanPush DEF InFlightSlots
<1>5. /\ vpq'[vpq_tail.ptr].pc = pc
      /\ \A s \in InFlightSlots : vpq'[s].pc = vpq[s].pc
  <2>1. vpq \in [Slots -> VpqEntry] /\ vpq[vpq_tail.ptr] \in VpqEntry
    BY <1>2 DEF IInv, TypeOK
  <2> QED BY <1>1, <1>2, <1>4, <2>1 DEF VpqEntry
<1>6. Exact(svp, vpq', InFlightSlots)
  BY <1>5, ExactSame
<1>7. Exact(CountInstance(svp, pc), vpq', InFlightSlots \cup {vpq_tail.ptr})
  BY <1>2, <1>4, <1>5, <1>6, CountedExact
<1> QED BY <1>1, <1>4, <1>7

\* A rollback to a former tail, from a table that is exact for the queue as it
\* is after the head was popped
LEMMA RollbackExact ==
  ASSUME IInv, mode # "perf", NEW table \in Table,
         NEW head \in Cursor(VpqSize), NEW tail \in Cursor(VpqSize),
         Occupancy(head, vpq_tail, VpqSize) \in 0 .. VpqSize,
         Occupancy(head, tail, VpqSize) \in 0 .. Occupancy(head, vpq_tail, VpqSize),
         Exact(table, vpq, Span(head, vpq_tail, VpqSize)),
         RollbackTo(table, tail), vpq_head' = head, vpq' = vpq
  PROVE  Exact(svp', vpq', InFlightSlots')
<1> DEFINE kept    == Span(head, tail, VpqSize)
           leaving == Span(tail, vpq_tail, VpqSize)
<1>1. VpqSize \in Nat \ {0} /\ vpq_tail \in Cursor(VpqSize)
  BY VpuAssumption DEF IInv, TypeOK
<1>2. /\ Span(head, vpq_tail, VpqSize) = kept \cup leaving
      /\ kept \cap leaving = {}
  BY <1>1, SpanSplit
<1>3. kept \subseteq Slots /\ leaving \subseteq Slots
  BY SpanType
<1>4. /\ svp' = Repaired(table, leaving) /\ InFlightSlots' = kept
  BY DEF RollbackTo, InFlightSlots
<1> HIDE DEF kept, leaving
<1>5. Exact(Repaired(table, leaving), vpq, kept)
  BY <1>2, <1>3, RepairedExact
<1> QED BY <1>4, <1>5

\* The entries behind the head, when it has an entry
LEMMA PoppedSlots ==
  ASSUME IInv, HeadCompleted
  PROVE  /\ PoppedHead \in Cursor(VpqSize)
         /\ Occupancy(PoppedHead, vpq_tail, VpqSize) \in 0 .. VpqSize
         /\ Span(PoppedHead, vpq_tail, VpqSize) =
              IF window[1].eligible THEN InFlightSlots \ {vpq_head.ptr} ELSE InFlightSlots
<1>1. /\ VpqSize \in Nat \ {0} /\ vpq_head \in Cursor(VpqSize)
      /\ vpq_tail \in Cursor(VpqSize)
      /\ Occupancy(vpq_head, vpq_tail, VpqSize) \in 0 .. VpqSize
  BY VpuAssumption DEF IInv, TypeOK, Queue, VpqLockstep, Coherent
<1>2. PoppedHead \in Cursor(VpqSize)
  BY PoppedHeadType
<1>3. CASE window[1].eligible
  <2>1. Occupancy(vpq_head, vpq_tail, VpqSize) \in 1 .. VpqSize
    BY <1>3, HeadOwner DEF HeadCompleted
  <2>2. Occupancy(PoppedHead, vpq_tail, VpqSize) \in 0 .. VpqSize
    BY <1>1, <1>3, <2>1, PopOccupancy DEF PoppedHead
  <2>3. Span(PoppedHead, vpq_tail, VpqSize) = InFlightSlots \ {vpq_head.ptr}
    BY <1>1, <1>3, <2>1, SpanPop DEF PoppedHead, InFlightSlots
  <2> QED BY <1>2, <1>3, <2>2, <2>3
<1>4. CASE ~window[1].eligible
  BY <1>1, <1>2, <1>4 DEF PoppedHead, InFlightSlots
<1> QED BY <1>3, <1>4

LEMMA TrainedSvpExact ==
  ASSUME IInv, NoAliasing, mode # "perf", HeadCompleted, Exact(svp, vpq, InFlightSlots)
  PROVE  /\ TrainedSvp \in Table
         /\ Exact(TrainedSvp, vpq, Span(PoppedHead, vpq_tail, VpqSize))
<1>1. TrainedSvp \in Table
  BY TrainedSvpType DEF Table
<1>2. CASE window[1].eligible
  BY <1>1, <1>2, TrainedExact, PoppedSlots
<1>3. CASE ~window[1].eligible
  <2>1. TrainedSvp = svp /\ Span(PoppedHead, vpq_tail, VpqSize) = InFlightSlots
    BY <1>3, PoppedSlots DEF TrainedSvp
  <2> QED BY <1>1, <2>1
<1> QED BY <1>2, <1>3

LEMMA NextExact ==
  ASSUME NoAliasing
  PROVE  IInv /\ InstCountExact /\ [Next]_vars => InstCountExact'
<1> SUFFICES ASSUME IInv, InstCountExact, [Next]_vars
             PROVE  InstCountExact'
  OBVIOUS
<1>1. svp' \in Table
  BY NextIInv DEF IInv, TypeOK, Table
<1> SUFFICES ASSUME mode' # "perf"
             PROVE  Exact(svp', vpq', InFlightSlots')
  BY <1>1, ExactNext
<1>2. mode # "perf"
  BY DEF Next, RenameEligible, RenameIneligible, Execute, Complete,
         ResolveMispredicted, Retire, RetireValueMispredicted, RetireSquash, vars
<1>3. /\ VpqSize \in Nat \ {0} /\ vpq_head \in Cursor(VpqSize)
      /\ vpq_tail \in Cursor(VpqSize) /\ svp \in Table
      /\ Occupancy(vpq_head, vpq_tail, VpqSize) \in 0 .. VpqSize
      /\ Exact(svp, vpq, InFlightSlots)
      /\ Exact(svp, vpq, Span(vpq_head, vpq_tail, VpqSize))
  <2>1. Exact(svp, vpq, InFlightSlots)
    BY <1>2, ExactIs DEF IInv
  <2> QED BY <2>1, VpuAssumption
          DEF IInv, TypeOK, Queue, VpqLockstep, Coherent, Table, InFlightSlots
<1>4. ASSUME NEW pc \in PCs, RenameEligible(pc)
      PROVE  Exact(svp', vpq', InFlightSlots')
  BY <1>2, <1>3, <1>4, RenameEligibleExact
<1>5. ASSUME svp' = svp, vpq' = vpq, vpq_head' = vpq_head, vpq_tail' = vpq_tail
      PROVE  Exact(svp', vpq', InFlightSlots')
  BY <1>3, <1>5 DEF InFlightSlots
<1>6. ASSUME NEW checkpoint \in BOOLEAN, RenameIneligible(checkpoint)
      PROVE  Exact(svp', vpq', InFlightSlots')
  BY <1>5, <1>6 DEF RenameIneligible
<1>7. ASSUME NEW i \in 1 .. Len(window), NEW value \in Values, Execute(i, value)
      PROVE  Exact(svp', vpq', InFlightSlots')
  <2>1. /\ vpq' = [vpq EXCEPT ![window[i].vpq_index].val = value]
        /\ svp' = svp /\ InFlightSlots' = InFlightSlots
    BY <1>7 DEF Execute, InFlightSlots
  <2>2. \A s \in InFlightSlots : vpq'[s].pc = vpq[s].pc
    <3>1. InFlightSlots \subseteq Slots /\ vpq \in [Slots -> VpqEntry]
      BY SpanType DEF InFlightSlots, IInv, TypeOK
    <3>2. \A s \in Slots : vpq[s] \in VpqEntry
      BY <3>1
    <3> QED BY <2>1, <3>1, <3>2 DEF VpqEntry
  <2> QED BY <1>3, <2>1, <2>2, ExactSame
<1>8. ASSUME NEW i \in 1 .. Len(window), Complete(i)
      PROVE  Exact(svp', vpq', InFlightSlots')
  BY <1>5, <1>8 DEF Complete
<1>9. ASSUME NEW i \in 1 .. Len(window), ResolveMispredicted(i)
      PROVE  Exact(svp', vpq', InFlightSlots')
  <2> DEFINE tail == window[i].vpq_tail_checkpoint
  <2>1. tail \in Cursor(VpqSize)
    <3>1. window[i] \in Instruction
      BY DEF IInv, TypeOK
    <3> QED BY <3>1 DEF Instruction
  <2>2. Occupancy(vpq_head, tail, VpqSize) \in 0 .. Occupancy(vpq_head, vpq_tail, VpqSize)
    BY <1>9 DEF IInv, Queue, CheckpointsSplitVpq, ResolveMispredicted
  <2>3. RollbackTo(svp, tail) /\ vpq_head' = vpq_head /\ vpq' = vpq
    BY <1>9 DEF ResolveMispredicted
  <2> HIDE DEF tail
  <2> QED BY <1>2, <1>3, <2>1, <2>2, <2>3, RollbackExact
<1>10. CASE Retire
  <2>1. /\ HeadCompleted /\ svp' = TrainedSvp /\ vpq' = vpq
        /\ InFlightSlots' = Span(PoppedHead, vpq_tail, VpqSize)
    BY <1>10 DEF Retire, InFlightSlots
  <2> QED BY <1>2, <1>3, <2>1, TrainedSvpExact
<1>11. CASE RetireValueMispredicted
  <2>1. /\ HeadCompleted /\ RollbackTo(TrainedSvp, PoppedHead)
        /\ vpq_head' = PoppedHead /\ vpq' = vpq
    BY <1>11 DEF RetireValueMispredicted
  <2>2. /\ PoppedHead \in Cursor(VpqSize)
        /\ Occupancy(PoppedHead, vpq_tail, VpqSize) \in 0 .. VpqSize
    BY <2>1, PoppedSlots
  <2>3. Occupancy(PoppedHead, PoppedHead, VpqSize)
          \in 0 .. Occupancy(PoppedHead, vpq_tail, VpqSize)
    BY <1>3, <2>2, EmptyOccupancy
  <2>4. /\ TrainedSvp \in Table
        /\ Exact(TrainedSvp, vpq, Span(PoppedHead, vpq_tail, VpqSize))
    BY <1>2, <1>3, <2>1, TrainedSvpExact
  <2> QED BY <1>2, <2>1, <2>2, <2>3, <2>4, RollbackExact
<1>12. CASE RetireSquash
  <2>1. RollbackTo(svp, vpq_head) /\ vpq_head' = vpq_head /\ vpq' = vpq
    BY <1>12 DEF RetireSquash
  <2>2. Occupancy(vpq_head, vpq_head, VpqSize)
          \in 0 .. Occupancy(vpq_head, vpq_tail, VpqSize)
    BY <1>3, EmptyOccupancy
  <2> QED BY <1>2, <1>3, <2>1, <2>2, RollbackExact
<1>13. CASE UNCHANGED vars
  BY <1>5, <1>13 DEF vars
<1> QED BY <1>4, <1>6, <1>7, <1>8, <1>9, <1>10, <1>11, <1>12, <1>13 DEF Next

LEMMA InitExact == Init => InstCountExact
<1> SUFFICES ASSUME Init
             PROVE  InstCountExact
  OBVIOUS
<1>1. InFlightSlots = {}
  <2>1. vpq_tail = vpq_head /\ vpq_head \in Cursor(VpqSize) /\ VpqSize \in Nat \ {0}
    BY VpuAssumption DEF Init, Cursor
  <2>2. Occupancy(vpq_head, vpq_tail, VpqSize) = 0
    BY <2>1, EmptyOccupancy
  <2>3. \A s \in 0 .. VpqSize - 1 : Offset(vpq_head, s, VpqSize) \in 0 .. VpqSize - 1
    BY <2>1, OffsetType
  <2> QED BY <2>2, <2>3 DEF InFlightSlots, Span
<1>2. \A x \in DOMAIN svp : svp[x].instcount = 0 /\ Cardinality(MatchingInFlight(x)) = 0
  <2>1. \A x : MatchingInFlight(x) = {}
    BY <1>1 DEF MatchingInFlight
  <2> QED BY <2>1, FS_EmptySet DEF Init
<1> QED BY <1>2 DEF InstCountExact

\* The invariant the others are read off from.
THEOREM Invariance == Spec => []IInv
<1>1. Init => IInv
  BY InitIInv
<1>2. IInv /\ [Next]_vars => IInv'
  BY NextIInv
<1> QED BY <1>1, <1>2, PTL DEF Spec

\* Confidence never exceeds m_svp_conf_max, cursors stay in their arrays and no
\* uninitialized word of the VPQ reaches the SVP, whatever the parameters.
THEOREM TypeCorrect == Spec => []TypeOK
<1>1. IInv => TypeOK
  BY DEF IInv
<1> QED BY <1>1, Invariance, PTL

\* The VPQ and the window stay in step for every VPQ size, also one that is not
\* a power of two (retire.cc:94-95, 151-160).
THEOREM Lockstep == Spec => []VpqLockstep
<1>1. IInv => VpqLockstep
  BY DEF IInv, Queue
<1> QED BY <1>1, Invariance, PTL

\* A selective rollback removes what is younger than the branch and nothing else
\* (writeback.cc:135-163).
THEOREM SelectiveRollback == Spec => []CheckpointsSplitVpq
<1>1. IInv => CheckpointsSplitVpq
  BY DEF IInv, Queue
<1> QED BY <1>1, Invariance, PTL

\* Training at retirement uses the result of the retiring instruction
\* (retire.cc:94-125).
THEOREM OwnResult == Spec => []TrainsWithOwnResult
<1>1. IInv => TrainsWithOwnResult
  BY HeadEntry DEF TrainsWithOwnResult
<1> QED BY <1>1, Invariance, PTL

\* The instance counter of an SVP entry is the number of its instances in
\* flight, through predictions, training, replacement and rollbacks, as long as
\* no two eligible instructions share index and tag (retire.cc:124-144): with
\* full tags, always.
THEOREM InstancesCounted == NoAliasing => (Spec => []InstCountExact)
<1> SUFFICES ASSUME NoAliasing
             PROVE  Spec => []InstCountExact
  OBVIOUS
<1>1. Init => InstCountExact
  BY InitExact
<1>2. IInv /\ InstCountExact /\ [Next]_vars => InstCountExact'
  BY NextExact
<1> QED BY <1>1, <1>2, Invariance, PTL DEF Spec

-----------------------------------------------------------------------------
(* Arithmetic sequences, see StrideStream.  Values are the terms of a       *)
(* sequence modulo n; c counts the instances that have retired.             *)

\* The prediction made from the c-th term, for an instance behind m others
LEMMA TermAhead ==
  ASSUME NEW n \in Nat \ {0}, NEW base \in Int, NEW c \in Int, NEW m \in Int, NEW s \in Int
  PROVE  (((base + (c - 1) * s) % n) + (m + 1) * s) % n = (base + (c + m) * s) % n
<1>1. PICK p \in Int : p = base + (c - 1) * s
  OBVIOUS
<1>2. PICK r \in 0 .. n - 1, k \in Int : r = p % n /\ r = p + k * n
  BY Remainder
<1>3. PICK x \in Int, y \in Int : x = r + (m + 1) * s /\ y = base + (c + m) * s
  OBVIOUS
<1>4. x = y + k * n
  BY <1>1, <1>2, <1>3
<1>5. x % n = y % n
  BY <1>4, SameRemainder
<1> QED BY <1>1, <1>2, <1>3, <1>5

\* The stride learned from two terms in a row
LEMMA TermDifference ==
  ASSUME NEW n \in Nat \ {0}, NEW base \in Int, NEW c \in Int, NEW s \in 0 .. n - 1
  PROVE  (((base + c * s) % n) - ((base + (c - 1) * s) % n)) % n = s
<1>1. PICK p \in Int, q \in Int : p = base + c * s /\ q = base + (c - 1) * s
  OBVIOUS
<1>2. PICK x \in 0 .. n - 1, i \in Int : x = p % n /\ x = p + i * n
  BY Remainder
<1>3. PICK y \in 0 .. n - 1, j \in Int : y = q % n /\ y = q + j * n
  BY Remainder
<1>4. PICK k \in Int : k = i - j
  OBVIOUS
<1>5. PICK d \in Int : d = x - y
  OBVIOUS
<1>6. d = s + k * n /\ s \in Int
  BY <1>1, <1>2, <1>3, <1>4, <1>5
<1>7. d % n = s % n
  BY ONLY <1>6, d \in Int, k \in Int, n \in Nat \ {0}, SameRemainder
<1>8. s % n = s
  BY Wraps
<1> QED BY <1>1, <1>2, <1>3, <1>5, <1>7, <1>8

\* How often an entry has to see a stride before the stride is right: without
\* tags the first time may be by the initial zeros.
Confirmations == IF TagSpace = 1 THEN 2 ELSE 1

Untrained(entry) ==
  TagSpace = 1 /\ entry.conf = 0 /\ entry.retval = 0 /\ entry.stride = 0

\* The entry has the value of the youngest instance that has retired.
Follows(entry, pc, count) ==
  /\ entry.retval = StreamValue(pc, count[pc] - 1)
  /\ entry.conf >= Confirmations => entry.stride = stream[pc].stride

Learned(table, count) ==
  \A pc \in DOMAIN stream :
    Matches(table[Index(pc)], pc) =>
      Untrained(table[Index(pc)]) \/ Follows(table[Index(pc)], pc, count)

Ineligible(inst) == ~inst.eligible /\ inst.pc = Junk

\* The invariant of StrideStream on top of that of Vpu: what every entry of the
\* SVP knows about the sequence of its instruction
StreamIInv ==
  /\ IInv /\ InstCountExact
  /\ mode = "svp" /\ stream \in Streams /\ committed \in [DOMAIN stream -> Values]
  /\ \A i \in 1 .. Len(window) : window[i].eligible \/ Ineligible(window[i])
  /\ FollowsStream
  /\ Learned(svp, committed)
  /\ ConfidentPredictionExact

LEMMA StreamType ==
  ASSUME StreamIInv, NEW pc \in DOMAIN stream
  PROVE  /\ pc \in PCs /\ Index(pc) \in 0 .. SvpSize - 1 /\ ValueSpace \in Nat \ {0}
         /\ stream[pc].base \in Values /\ stream[pc].stride \in Values
         /\ committed[pc] \in Values /\ committed[pc] \in Int
         /\ stream[pc].base \in Int /\ stream[pc].stride \in Int
         /\ svp[Index(pc)] \in SvpEntry
<1>1. stream \in [DOMAIN stream -> [base : Values, stride : Values]] /\ DOMAIN stream \subseteq PCs
  BY StrideAssumption DEF StreamIInv
<1>2. stream[pc] \in [base : Values, stride : Values] /\ pc \in PCs /\ committed[pc] \in Values
  BY <1>1 DEF StreamIInv
<1>3. svp \in [0 .. SvpSize - 1 -> SvpEntry]
  BY DEF StreamIInv, IInv, TypeOK
<1>4. Values \subseteq Int
  BY VpuAssumption DEF Values
<1> QED BY <1>2, <1>3, <1>4, IndexType, VpuAssumption

-----------------------------------------------------------------------------
(* Instances in flight *)

\* The first n instructions with address pc
Sharing(w, n, pc) == {j \in 1 .. n : w[j].pc = pc}

LEMMA SharingType ==
  ASSUME NEW w, NEW n \in Nat, NEW pc
  PROVE  IsFiniteSet(Sharing(w, n, pc)) /\ Cardinality(Sharing(w, n, pc)) \in Nat
<1>1. IsFiniteSet(1 .. n)
  BY FS_Interval
<1>2. Sharing(w, n, pc) \subseteq 1 .. n
  BY DEF Sharing
<1> QED BY <1>1, <1>2, FS_Subset, FS_CardinalityType

LEMMA RankIs ==
  \A i : /\ Rank(i) = Cardinality(Sharing(window, i - 1, window[i].pc))
         /\ Rank(i)' = Cardinality(Sharing(window', i - 1, window'[i].pc))
BY DEF Rank, Sharing

\* v goes on where w does, but without its oldest instruction.
Shifted(v, w, n) == \A j \in 1 .. n : v[j] = w[j + 1]

LEMMA SharingTail ==
  ASSUME NEW v, NEW w, NEW n \in Nat, NEW m, m = n + 1, NEW pc, Shifted(v, w, n)
  PROVE  Cardinality(Sharing(w, m, pc)) =
           Cardinality(Sharing(v, n, pc)) + (IF w[1].pc = pc THEN 1 ELSE 0)
<1>1. PICK S, T : S = Sharing(v, n, pc) /\ T = Sharing(w, n + 1, pc)
  OBVIOUS
<1>2. IsFiniteSet(S) /\ IsFiniteSet(T) /\ Cardinality(T) \in Nat
  BY <1>1, SharingType
<1>3. PICK f : f = [j \in S |-> j + 1]
  OBVIOUS
<1>4. S \subseteq 1 .. n /\ T \subseteq 1 .. n + 1
  BY <1>1 DEF Sharing
<1>5. ASSUME NEW j \in S
      PROVE  f[j] \in T \ {1}
  <2>1. j \in 1 .. n /\ v[j].pc = pc /\ f[j] = j + 1
    BY <1>1, <1>3 DEF Sharing
  <2>2. w[j + 1].pc = pc /\ j + 1 \in 1 .. n + 1 /\ j + 1 # 1
    BY <2>1 DEF Shifted
  <2> QED BY <1>1, <2>1, <2>2 DEF Sharing
<1>6. ASSUME NEW k \in T \ {1}
      PROVE  \E j \in S : f[j] = k
  <2>1. k \in 1 .. n + 1 /\ w[k].pc = pc /\ k # 1
    BY <1>1 DEF Sharing
  <2>2. PICK j \in 1 .. n : k = j + 1
    BY <2>1
  <2>3. v[j].pc = pc
    BY <2>1, <2>2 DEF Shifted
  <2>4. j \in S
    BY <1>1, <2>3 DEF Sharing
  <2> QED BY <1>3, <2>2, <2>4
<1>7. ASSUME NEW i \in S, NEW j \in S, f[i] = f[j]
      PROVE  i = j
  <2>1. i + 1 = j + 1
    BY <1>3, <1>7
  <2>2. i \in Int /\ j \in Int
    BY <1>4
  <2> QED BY ONLY <2>1, <2>2
<1>8. f \in Surjection(S, T \ {1}) /\ f \in Injection(S, T \ {1})
  <2>1. f \in [S -> T \ {1}]
    BY <1>3, <1>5
  <2> QED BY <1>6, <1>7, <2>1 DEF Surjection, Injection, IsInjective
<1>9. Cardinality(T \ {1}) = Cardinality(S)
  BY <1>2, <1>8, FS_Surjection
<1>10. Cardinality(T \ {1}) = IF 1 \in T THEN Cardinality(T) - 1 ELSE Cardinality(T)
  BY <1>2, FS_RemoveElement
<1>11. 1 \in T <=> w[1].pc = pc
  BY <1>1 DEF Sharing
<1> QED BY <1>1, <1>2, <1>9, <1>10, <1>11

\* The instance counter of a matching entry is the number of instances in the
\* window.
LEMMA CountIsRank ==
  ASSUME StreamIInv, NEW pc \in PCs, Matches(svp[Index(pc)], pc)
  PROVE  svp[Index(pc)].instcount = Cardinality(Sharing(window, Len(window), pc))
<1>1. PICK S, M : S = Sharing(window, Len(window), pc) /\ M = MatchingInFlight(Index(pc))
  OBVIOUS
<1>2. /\ window \in Seq(Instruction) /\ Len(window) \in Nat
      /\ DOMAIN svp = 0 .. SvpSize - 1 /\ Index(pc) \in 0 .. SvpSize - 1
  BY LenProperties, IndexType DEF StreamIInv, IInv, TypeOK
<1>3. svp[Index(pc)].instcount = Cardinality(M)
  BY <1>1, <1>2 DEF StreamIInv, InstCountExact, Matches
<1>4. IsFiniteSet(S)
  BY <1>1, <1>2, SharingType
<1>5. PICK f : f = [j \in S |-> window[j].vpq_index]
  OBVIOUS
<1>6. ASSUME NEW j \in S
      PROVE  /\ j \in EligibleInFlight /\ window[j].pc = pc
             /\ f[j] = window[j].vpq_index /\ f[j] \in M
  <2>1. j \in 1 .. Len(window) /\ window[j].pc = pc
    BY <1>1 DEF Sharing
  <2>2. pc # Junk
    BY VpuAssumption DEF Junk
  <2>3. j \in EligibleInFlight
    BY <2>1, <2>2 DEF StreamIInv, Ineligible, EligibleInFlight
  <2>4. window[j].vpq_index \in InFlightSlots /\ vpq[window[j].vpq_index].pc = pc
    BY <2>1, <2>3 DEF StreamIInv, IInv, Queue, VpqLockstep, EntriesOfOwners
  <2> QED BY <1>1, <1>5, <2>1, <2>3, <2>4 DEF MatchingInFlight
<1>7. ASSUME NEW s \in M
      PROVE  \E j \in S : f[j] = s
  <2>1. /\ s \in InFlightSlots /\ Index(vpq[s].pc) = Index(pc)
        /\ Matches(svp[Index(pc)], vpq[s].pc)
    BY <1>1 DEF MatchingInFlight
  <2>2. PICK j \in EligibleInFlight : window[j].vpq_index = s
    BY <2>1 DEF StreamIInv, IInv, Queue, VpqLockstep
  <2>3. vpq[s].pc = window[j].pc /\ vpq[s].pc \in PCs
    BY <2>1, <2>2, SlotOwner DEF StreamIInv, IInv, EntriesOfOwners
  <2>4. Tag(vpq[s].pc) = Tag(pc)
    BY <2>1 DEF Matches
  <2>5. window[j].pc = pc
    BY <2>1, <2>3, <2>4, StrideAssumption DEF NoAliasing
  <2>6. j \in S
    BY <1>1, <2>5 DEF Sharing, EligibleInFlight
  <2> QED BY <1>5, <2>2, <2>6
<1>8. ASSUME NEW i \in S, NEW j \in S, f[i] = f[j]
      PROVE  i = j
  BY <1>6, <1>8, OwnersDiffer DEF StreamIInv
<1>9. f \in Surjection(S, M) /\ f \in Injection(S, M)
  <2>1. f \in [S -> M]
    BY <1>5, <1>6
  <2> QED BY <1>7, <1>8, <2>1 DEF Surjection, Injection, IsInjective
<1> QED BY <1>1, <1>3, <1>4, <1>9, FS_Surjection

-----------------------------------------------------------------------------
(* What training and rollbacks make of the entries *)

\* Tables that differ in the instance counters at most
SameLearning(t, u) ==
  \A x \in 0 .. SvpSize - 1 :
    /\ t[x].valid = u[x].valid /\ t[x].tag = u[x].tag /\ t[x].conf = u[x].conf
    /\ t[x].retval = u[x].retval /\ t[x].stride = u[x].stride

LEMMA LearnedSame ==
  ASSUME StreamIInv, NEW t, NEW u, NEW count, SameLearning(t, u), Learned(u, count)
  PROVE  Learned(t, count)
<1> SUFFICES ASSUME NEW pc \in DOMAIN stream, Matches(t[Index(pc)], pc)
             PROVE  Untrained(t[Index(pc)]) \/ Follows(t[Index(pc)], pc, count)
  BY DEF Learned
<1>1. PICK x \in 0 .. SvpSize - 1 : x = Index(pc)
  BY StreamType
<1>2. Matches(u[x], pc)
  BY <1>1 DEF SameLearning, Matches
<1>3. Untrained(u[x]) \/ Follows(u[x], pc, count)
  BY <1>1, <1>2 DEF Learned
<1> QED BY <1>1, <1>3 DEF SameLearning, Untrained, Follows

LEMMA RepairedLearning ==
  ASSUME NEW table \in Table, NEW slots
  PROVE  SameLearning(Repaired(table, slots), table)
<1> SUFFICES ASSUME NEW x \in 0 .. SvpSize - 1, NEW u, u = Repaired(table, slots)[x]
             PROVE  /\ u.valid = table[x].valid /\ u.tag = table[x].tag
                    /\ u.conf = table[x].conf /\ u.retval = table[x].retval
                    /\ u.stride = table[x].stride
  BY DEF SameLearning
<1>1. table[x] \in SvpEntry /\ DOMAIN table = 0 .. SvpSize - 1
  BY DEF Table
<1>2. PICK count : count = table[x].instcount -
                     Cardinality({s \in slots : /\ Index(vpq[s].pc) = x
                                                /\ Matches(table[x], vpq[s].pc)})
  OBVIOUS
<1>3. u = [table[x] EXCEPT !.instcount = count]
  BY <1>1, <1>2 DEF Repaired
<1> QED BY <1>1, <1>3 DEF SvpEntry

LEMMA CountInstanceLearning ==
  ASSUME NEW table \in Table, NEW pc \in PCs
  PROVE  SameLearning(CountInstance(table, pc), table)
<1> SUFFICES ASSUME NEW x \in 0 .. SvpSize - 1
             PROVE  LET u == CountInstance(table, pc)[x]
                    IN /\ u.valid = table[x].valid /\ u.tag = table[x].tag
                       /\ u.conf = table[x].conf /\ u.retval = table[x].retval
                       /\ u.stride = table[x].stride
  BY DEF SameLearning
<1>1. table[x] \in SvpEntry /\ DOMAIN table = 0 .. SvpSize - 1 /\ Index(pc) \in 0 .. SvpSize - 1
  BY IndexType DEF Table
<1>2. PICK u, i : u = CountInstance(table, pc)[x] /\ i = table[x].instcount + 1
  OBVIOUS
<1>3. u = table[x] \/ u = [table[x] EXCEPT !.instcount = i]
  BY <1>1, <1>2 DEF CountInstance
<1> QED BY <1>1, <1>2, <1>3 DEF SvpEntry

\* The instruction that retires has computed the term after the last one.
LEMMA HeadTerm ==
  ASSUME StreamIInv, HeadCompleted, window[1].eligible
  PROVE  /\ window[1].pc \in DOMAIN stream
         /\ window[1].result = StreamValue(window[1].pc, committed[window[1].pc])
<1>1. 1 \in EligibleInFlight /\ window[1].completed
  BY LenProperties DEF HeadCompleted, EligibleInFlight, StreamIInv, IInv, TypeOK
<1>2. window[1].pc \in DOMAIN stream /\ window[1].result = ValueOf(1)
  BY <1>1 DEF StreamIInv, FollowsStream
<1>3. Rank(1) = 0
  <2>1. {j \in 1 .. 1 - 1 : window[j].pc = window[1].pc} = {}
    OBVIOUS
  <2> QED BY <2>1, FS_EmptySet DEF Rank
<1>4. committed[window[1].pc] + 0 = committed[window[1].pc]
  BY <1>2, StreamType
<1> QED BY <1>2, <1>3, <1>4 DEF ValueOf

Committed(pc) == [committed EXCEPT ![pc] = (@ + 1) % ValueSpace]

\* The terms repeat: the count may be taken modulo ValueSpace.
LEMMA SameTerm ==
  ASSUME StreamIInv, NEW pc \in DOMAIN stream, NEW x \in Int, NEW y \in Int,
         \E k \in Int : x = y + k * ValueSpace
  PROVE  StreamValue(pc, x) = StreamValue(pc, y)
<1>1. PICK b \in Int, s \in Int, n \in Nat \ {0} :
        b = stream[pc].base /\ s = stream[pc].stride /\ n = ValueSpace
  BY StreamType
<1>2. PICK k \in Int : x = y + k * n
  BY <1>1
<1>3. PICK p \in Int, q \in Int, j \in Int : p = b + x * s /\ q = b + y * s /\ j = k * s
  OBVIOUS
<1>4. p = q + j * n
  <2>1. PICK z \in Int : z = k * n
    OBVIOUS
  <2>2. x = y + z
    BY <1>2, <2>1
  <2>3. (y + z) * s = y * s + z * s
    BY ONLY y \in Int, z \in Int, s \in Int
  <2>4. (k * n) * s = (k * s) * n
    OBVIOUS
  <2>5. x * s = y * s + z * s
    BY <2>2, <2>3
  <2>6. z * s = j * n
    BY <1>3, <2>1, <2>4
  <2>7. PICK u \in Int, v \in Int, w \in Int : u = x * s /\ v = y * s /\ w = j * n
    OBVIOUS
  <2>8. u = v + w
    BY <2>5, <2>6, <2>7
  <2>9. p = b + u /\ q = b + v
    BY <1>3, <2>7
  <2>10. p = q + w
    BY ONLY <2>8, <2>9, b \in Int, u \in Int, v \in Int, w \in Int
  <2> QED BY <2>7, <2>10
<1>5. p % n = q % n
  BY <1>4, SameRemainder
<1> QED BY <1>1, <1>3, <1>5 DEF StreamValue

\* One more commit
LEMMA CommittedIs ==
  ASSUME StreamIInv, NEW pc \in DOMAIN stream
  PROVE  /\ Committed(pc) \in [DOMAIN stream -> Values]
         /\ Committed(pc)[pc] \in Int
         /\ \E k \in Int : Committed(pc)[pc] = committed[pc] + 1 + k * ValueSpace
         /\ \A other \in DOMAIN stream \ {pc} : Committed(pc)[other] = committed[other]
<1>1. PICK c \in Int, d \in Int, n \in Nat \ {0} :
        c = committed[pc] /\ d = c + 1 /\ n = ValueSpace
  BY StreamType
<1>2. PICK r \in 0 .. n - 1, k \in Int : r = d % n /\ r = d + k * n
  BY Remainder
<1>3. committed \in [DOMAIN stream -> Values]
  BY DEF StreamIInv
<1>4. Committed(pc) = [committed EXCEPT ![pc] = r]
  BY <1>1, <1>2, <1>3 DEF Committed
<1>5. r \in Values /\ r \in Int
  BY <1>1 DEF Values
<1> QED BY <1>1, <1>2, <1>3, <1>4, <1>5

LEMMA LastTerm ==
  ASSUME StreamIInv, NEW pc \in DOMAIN stream
  PROVE  StreamValue(pc, Committed(pc)[pc] - 1) = StreamValue(pc, committed[pc])
<1>1. PICK k \in Int : Committed(pc)[pc] = committed[pc] + 1 + k * ValueSpace
  BY CommittedIs
<1>2. PICK c \in Int, r \in Int, n \in Int :
        c = committed[pc] /\ r = Committed(pc)[pc] /\ n = ValueSpace
  BY StreamType, CommittedIs
<1>3. PICK x \in Int : x = r - 1
  OBVIOUS
<1>4. x = c + k * n
  BY <1>1, <1>2, <1>3
<1>5. StreamValue(pc, x) = StreamValue(pc, c)
  BY <1>2, <1>4, SameTerm
<1> QED BY <1>2, <1>3, <1>5

LEMMA TrainedFollows ==
  ASSUME StreamIInv, NEW pc \in DOMAIN stream, NEW entry \in SvpEntry,
         Untrained(entry) \/ Follows(entry, pc, committed),
         NEW value, value = StreamValue(pc, committed[pc])
  PROVE  Follows(Trained(entry, value), pc, Committed(pc))
<1>1. PICK new : new = (value - entry.retval) % ValueSpace
  OBVIOUS
<1>2. PICK conf : conf = CASE new # entry.stride -> 0
                           [] new = entry.stride /\ entry.conf < ConfMax -> entry.conf + 1
                           [] OTHER -> entry.conf
  OBVIOUS
<1>3. Trained(entry, value) =
        [entry EXCEPT !.stride = new, !.conf = conf, !.retval = value, !.instcount = @ - 1]
  BY <1>1, <1>2 DEF Trained
<1>4. PICK u : u = Trained(entry, value)
  OBVIOUS
<1>5. u.stride = new /\ u.conf = conf /\ u.retval = value
  BY <1>3, <1>4 DEF SvpEntry
<1>6. u.retval = StreamValue(pc, Committed(pc)[pc] - 1)
  BY <1>5, LastTerm
<1>7. CASE Untrained(entry)
  <2>1. entry.conf = 0 /\ Confirmations = 2
    BY <1>7 DEF Untrained, Confirmations
  <2>2. conf = 0 \/ conf = 1
    BY <1>2, <2>1
  <2>3. ~(u.conf >= Confirmations)
    BY <1>5, <2>1, <2>2
  <2> QED BY <1>4, <1>6, <2>3 DEF Follows
<1>8. CASE Follows(entry, pc, committed)
  <2>1. PICK b \in Int, s \in 0 .. ValueSpace - 1, n \in Nat \ {0}, c \in Int :
          /\ b = stream[pc].base /\ s = stream[pc].stride /\ n = ValueSpace
          /\ c = committed[pc]
    BY StreamType DEF Values
  <2>2. value = (b + c * s) % n /\ entry.retval = (b + (c - 1) * s) % n
    BY <1>8, <2>1 DEF Follows, StreamValue
  <2>3. (((b + c * s) % n) - ((b + (c - 1) * s) % n)) % n = s
    BY <2>1, TermDifference
  <2>4. new = s
    BY <1>1, <2>1, <2>2, <2>3
  <2> QED BY <1>4, <1>5, <1>6, <2>1, <2>4 DEF Follows
<1> QED BY <1>7, <1>8

\* The head trains its entry, or takes it over.
LEMMA TrainedLearned ==
  ASSUME StreamIInv, HeadCompleted, window[1].eligible,
         NEW pc, pc = window[1].pc
  PROVE  Learned(TrainedSvp, Committed(pc))
<1>1. PICK value : value = window[1].result
  OBVIOUS
<1>2. /\ pc \in DOMAIN stream /\ value = StreamValue(pc, committed[pc])
      /\ pc \in PCs /\ Index(pc) \in 0 .. SvpSize - 1 /\ svp[Index(pc)] \in SvpEntry
      /\ committed \in [DOMAIN stream -> Values]
      /\ svp \in [0 .. SvpSize - 1 -> SvpEntry]
  BY <1>1, HeadTerm, StreamType DEF StreamIInv, IInv, TypeOK
<1>3. TrainedSvp = TrainSvp(svp, pc, value)
  <2>1. vpq[vpq_head.ptr].pc = pc /\ vpq[vpq_head.ptr].val = value
    BY <1>1, HeadEntry DEF StreamIInv
  <2> QED BY <2>1 DEF TrainedSvp, StreamIInv
<1>4. PICK old, new : /\ old = svp[Index(pc)]
                      /\ new = IF Matches(old, pc) THEN Trained(old, value)
                                                   ELSE Replaced(pc, value)
  OBVIOUS
<1>5. TrainedSvp = [svp EXCEPT ![Index(pc)] = new]
  BY <1>3, <1>4 DEF TrainSvp
<1>6. new.tag = Tag(pc) /\ Follows(new, pc, Committed(pc))
  <2>1. CASE Matches(old, pc)
    <3>1. Untrained(old) \/ Follows(old, pc, committed)
      BY <1>2, <1>4, <2>1 DEF StreamIInv, Learned
    <3>2. Follows(new, pc, Committed(pc))
      BY <1>2, <1>4, <2>1, <3>1, TrainedFollows
    <3>3. new.tag = old.tag
      BY <1>2, <1>4, <2>1 DEF Trained, SvpEntry
    <3> QED BY <2>1, <3>2, <3>3 DEF Matches
  <2>2. CASE ~Matches(old, pc)
    <3>1. new.tag = Tag(pc) /\ new.conf = 0 /\ new.retval = value
      BY <1>4, <2>2 DEF Replaced
    <3>2. ~(new.conf >= Confirmations)
      BY <3>1 DEF Confirmations
    <3> QED BY <1>2, <3>1, <3>2, LastTerm DEF Follows
  <2> QED BY <2>1, <2>2
<1>7. ASSUME NEW q \in DOMAIN stream, Matches(TrainedSvp[Index(q)], q)
      PROVE  \/ Untrained(TrainedSvp[Index(q)])
             \/ Follows(TrainedSvp[Index(q)], q, Committed(pc))
  <2>1. q \in PCs /\ Index(q) \in 0 .. SvpSize - 1
    BY StreamType
  <2>2. CASE Index(q) = Index(pc)
    <3>1. TrainedSvp[Index(q)] = new
      BY <1>2, <1>5, <2>2
    <3>2. Tag(q) = Tag(pc)
      BY <1>6, <1>7, <3>1 DEF Matches
    <3>3. q = pc
      BY <1>2, <2>1, <2>2, <3>2, StrideAssumption DEF NoAliasing
    <3> QED BY <1>6, <3>1, <3>3
  <2>3. CASE Index(q) # Index(pc)
    <3>1. TrainedSvp[Index(q)] = svp[Index(q)]
      BY <1>2, <1>5, <2>1, <2>3
    <3>2. Committed(pc)[q] = committed[q]
      BY <1>2, <2>3 DEF Committed
    <3>3. Untrained(svp[Index(q)]) \/ Follows(svp[Index(q)], q, committed)
      BY <1>7, <3>1 DEF StreamIInv, Learned
    <3> QED BY <3>1, <3>2, <3>3 DEF Follows
  <2> QED BY <2>2, <2>3
<1> QED BY <1>7 DEF Learned

-----------------------------------------------------------------------------
(* The steps *)

\* The oldest n instructions stay, as far as the sequences are concerned.
LEMMA KeptValues ==
  ASSUME StreamIInv, IInv', stream' = stream, committed' = committed,
         NEW n \in 0 .. Len(window),
         \A i \in 1 .. n : /\ window'[i].pc = window[i].pc
                           /\ window'[i].eligible = window[i].eligible
                           /\ window'[i].predicted = window[i].predicted
                           /\ window'[i].value = window[i].value
  PROVE  \A i \in 1 .. n :
           /\ ValueOf(i)' = ValueOf(i)
           /\ window'[i].eligible /\ window'[i].predicted =>
                window'[i].value = ValueOf(i)'
<1> SUFFICES ASSUME NEW i \in 1 .. n
             PROVE  /\ ValueOf(i)' = ValueOf(i)
                    /\ window'[i].eligible /\ window'[i].predicted =>
                         window'[i].value = ValueOf(i)'
  OBVIOUS
<1>1. Len(window) \in Nat /\ n \in Nat /\ i \in 1 .. Len(window)
  BY LenProperties DEF StreamIInv, IInv, TypeOK
<1>2. {j \in 1 .. i - 1 : window'[j].pc = window'[i].pc}
        = {j \in 1 .. i - 1 : window[j].pc = window[i].pc}
  <2>1. \A j \in 1 .. i - 1 : j \in 1 .. n
    BY <1>1
  <2> QED BY <2>1
<1>3. Rank(i)' = Rank(i)
  BY <1>2 DEF Rank
<1>4. ValueOf(i)' = ValueOf(i)
  BY <1>3 DEF ValueOf, StreamValue
<1>5. window[i].eligible /\ window[i].predicted => window[i].value = ValueOf(i)
  BY <1>1 DEF StreamIInv, ConfidentPredictionExact, EligibleInFlight
<1> QED BY <1>4, <1>5

\* A step that trains nothing and adds no eligible instruction
LEMMA QuietStep ==
  ASSUME StreamIInv, IInv', InstCountExact', FollowsStream',
         mode' = mode, stream' = stream, committed' = committed,
         SameLearning(svp', svp),
         NEW n \in 0 .. Len(window),
         \A i \in 1 .. n : /\ window'[i].pc = window[i].pc
                           /\ window'[i].eligible = window[i].eligible
                           /\ window'[i].predicted = window[i].predicted
                           /\ window'[i].value = window[i].value,
         \A i \in 1 .. Len(window') : i \in 1 .. n \/ Ineligible(window'[i])
  PROVE  StreamIInv'
<1>1. Learned(svp', committed)
  BY LearnedSame DEF StreamIInv
<1>2. Learned(svp, committed)'
  BY <1>1 DEF Learned, Follows, StreamValue
<1>3. n \in Nat /\ 1 .. n \subseteq 1 .. Len(window)
  BY LenProperties DEF StreamIInv, IInv, TypeOK
<1>4. \A i \in 1 .. Len(window') : window'[i].eligible \/ Ineligible(window'[i])
  BY <1>3 DEF StreamIInv, Ineligible
<1>5. ConfidentPredictionExact'
  <2> SUFFICES ASSUME NEW i \in EligibleInFlight', window'[i].predicted
               PROVE  window'[i].value = ValueOf(i)'
    BY DEF ConfidentPredictionExact
  <2>1. i \in 1 .. Len(window') /\ window'[i].eligible
    BY DEF EligibleInFlight
  <2>2. i \in 1 .. n
    BY <2>1 DEF Ineligible
  <2> QED BY <2>1, <2>2, KeptValues
<1>6. \A i \in 1 .. Len(window') : window'[i].eligible \/ Ineligible(window[i])'
  BY <1>4 DEF Ineligible
<1> QED BY <1>2, <1>5, <1>6 DEF StreamIInv

\* All that is not trained is given up.
LEMMA EmptyWindow ==
  ASSUME StreamIInv, IInv', InstCountExact', FollowsStream',
         mode' = mode, stream' = stream, committed' \in [DOMAIN stream -> Values],
         window' = <<>>, Learned(svp', committed')
  PROVE  StreamIInv'
<1>1. Learned(svp, committed)'
  BY DEF Learned, Follows, StreamValue
<1>2. Len(window') = 0
  BY EmptySeq
<1>3. EligibleInFlight' = {}
  BY <1>2 DEF EligibleInFlight
<1>4. ConfidentPredictionExact'
  BY <1>3 DEF ConfidentPredictionExact
<1>5. (\A i \in 1 .. Len(window) : window[i].eligible \/ Ineligible(window[i]))'
  BY <1>2
<1> QED BY <1>1, <1>4, <1>5 DEF StreamIInv

\* A confident prediction is the term after those of all instances in flight.
LEMMA ConfidentPrediction ==
  ASSUME StreamIInv, NEW pc \in DOMAIN stream,
         NEW prediction \in Predictions(pc), prediction.predicted
  PROVE  prediction.value =
           StreamValue(pc, committed[pc] + Cardinality(Sharing(window, Len(window), pc)))
<1>1. PICK e : e = svp[Index(pc)]
  OBVIOUS
<1>2. /\ Matches(e, pc)
      /\ prediction = [predicted |-> e.conf = ConfMax, value |-> PredictedValue(e)]
  BY <1>1 DEF Predictions, StreamIInv, NoPrediction
<1>3. e.conf = ConfMax /\ prediction.value = PredictedValue(e)
  BY <1>2
<1>4. e.conf >= Confirmations /\ e.conf # 0
  BY <1>3, StrideAssumption, VpuAssumption DEF Confirmations
<1>5. Follows(e, pc, committed)
  BY <1>1, <1>2, <1>4 DEF StreamIInv, Learned, Untrained
<1>6. PICK m : m = Cardinality(Sharing(window, Len(window), pc))
  OBVIOUS
<1>7. m \in Int
  <2>1. Len(window) \in Nat
    BY LenProperties DEF StreamIInv, IInv, TypeOK
  <2> QED BY <1>6, <2>1, SharingType
<1>8. e.instcount = m
  BY <1>1, <1>2, <1>6, StreamType, CountIsRank
<1>9. PICK b \in Int, s \in Int, n \in Nat \ {0}, c \in Int :
        /\ b = stream[pc].base /\ s = stream[pc].stride /\ n = ValueSpace
        /\ c = committed[pc]
  BY StreamType
<1>10. e.retval = (b + (c - 1) * s) % n /\ e.stride = s
  BY <1>4, <1>5, <1>9 DEF Follows, StreamValue
<1>11. PredictedValue(e) = (((b + (c - 1) * s) % n) + (m + 1) * s) % n
  BY <1>8, <1>9, <1>10 DEF PredictedValue
<1>12. (((b + (c - 1) * s) % n) + (m + 1) * s) % n = (b + (c + m) * s) % n
  BY <1>7, TermAhead
<1> QED BY <1>3, <1>6, <1>9, <1>11, <1>12 DEF StreamValue

LEMMA RenameEligibleExactly ==
  ASSUME StreamIInv, IInv', InstCountExact', FollowsStream',
         stream' = stream, committed' = committed,
         NEW pc \in PCs, RenameEligible(pc)
  PROVE  StreamIInv'
<1>1. PICK prediction \in Predictions(pc) :
        window' = Append(window,
          [pc |-> pc, eligible |-> TRUE, checkpoint |-> FALSE,
           vpq_index |-> vpq_tail.ptr, vpq_tail_checkpoint |-> vpq_tail,
           predicted |-> prediction.predicted, value |-> prediction.value,
           completed |-> FALSE, result |-> Junk, val_misp |-> FALSE])
  BY DEF RenameEligible
<1>2. PICK n \in Nat : n = Len(window)
  BY LenProperties DEF StreamIInv, IInv, TypeOK
<1>3. /\ Len(window') = n + 1
      /\ \A i \in 1 .. n : window'[i] = window[i]
      /\ window'[n + 1].pc = pc /\ window'[n + 1].eligible
      /\ window'[n + 1].predicted = prediction.predicted
      /\ window'[n + 1].value = prediction.value
  <2> window \in Seq(Instruction)
    BY DEF StreamIInv, IInv, TypeOK
  <2> QED BY <1>1, <1>2, AppendProperties
<1>4. mode' = mode /\ svp' = CountInstance(svp, pc)
  BY DEF RenameEligible, StreamIInv
<1>5. Learned(svp', committed)
  BY <1>4, LearnedSame, CountInstanceLearning DEF StreamIInv, IInv, TypeOK, Table
<1>6. Learned(svp, committed)'
  BY <1>5 DEF Learned, Follows, StreamValue
<1>7. (\A i \in 1 .. Len(window) : window[i].eligible \/ Ineligible(window[i]))'
  <2> SUFFICES ASSUME NEW i \in 1 .. n + 1
               PROVE  window'[i].eligible \/ Ineligible(window'[i])
    BY <1>3
  <2>1. i \in 1 .. n \/ i = n + 1
    OBVIOUS
  <2> QED BY <1>2, <1>3, <2>1 DEF StreamIInv, Ineligible
<1>8. pc \in DOMAIN stream
  <2>1. n + 1 \in EligibleInFlight'
    BY <1>3 DEF EligibleInFlight
  <2> QED BY <1>3, <2>1 DEF FollowsStream
<1>9. ValueOf(n + 1)' =
        StreamValue(pc, committed[pc] + Cardinality(Sharing(window, Len(window), pc)))
  <2>1. Sharing(window', n, pc) = Sharing(window, n, pc)
    BY <1>3 DEF Sharing
  <2>2. PICK r : r = Cardinality(Sharing(window, Len(window), pc))
    OBVIOUS
  <2>3. Rank(n + 1)' = r
    <3>1. (n + 1) - 1 = n
      OBVIOUS
    <3> QED BY <1>2, <1>3, <2>1, <2>2, <3>1, RankIs
  <2>4. ValueOf(n + 1)' = StreamValue(pc, committed[pc] + r)'
    BY <1>3, <2>3 DEF ValueOf
  <2> QED BY <2>2, <2>4 DEF StreamValue
<1>10. ConfidentPredictionExact'
  <2> SUFFICES ASSUME NEW i \in EligibleInFlight', window'[i].predicted
               PROVE  window'[i].value = ValueOf(i)'
    BY DEF ConfidentPredictionExact
  <2>1. i \in 1 .. n + 1 /\ window'[i].eligible
    BY <1>3 DEF EligibleInFlight
  <2>2. CASE i = n + 1
    BY <1>3, <1>8, <1>9, <2>2, ConfidentPrediction
  <2>3. CASE i \in 1 .. n
    <3>1. n \in 0 .. Len(window)
      BY <1>2
    <3>2. \A j \in 1 .. n :
            /\ ValueOf(j)' = ValueOf(j)
            /\ window'[j].eligible /\ window'[j].predicted =>
                 window'[j].value = ValueOf(j)'
      BY <1>3, <3>1, KeptValues
    <3> QED BY <2>1, <2>3, <3>2
  <2> QED BY <2>1, <2>2, <2>3
<1> QED BY <1>4, <1>6, <1>7, <1>10 DEF StreamIInv

\* The older instances are one fewer, the retired ones one more.
LEMMA ShiftedValues ==
  ASSUME StreamIInv, HeadCompleted, window' = Tail(window), stream' = stream,
         committed' = IF window[1].eligible THEN Committed(window[1].pc) ELSE committed
  PROVE  \A i \in EligibleInFlight' :
           /\ i + 1 \in EligibleInFlight /\ window'[i] = window[i + 1]
           /\ ValueOf(i)' = ValueOf(i + 1)
<1> SUFFICES ASSUME NEW i \in EligibleInFlight'
             PROVE  /\ i + 1 \in EligibleInFlight /\ window'[i] = window[i + 1]
                    /\ ValueOf(i)' = ValueOf(i + 1)
  OBVIOUS
<1>1. /\ Len(window) \in Nat \ {0} /\ Len(window') = Len(window) - 1
      /\ \A j \in 1 .. Len(window) - 1 : window'[j] = window[j + 1]
  <2>1. window \in Seq(Instruction) /\ window # <<>>
    BY EmptySeq DEF HeadCompleted, StreamIInv, IInv, TypeOK
  <2> QED BY <2>1, HeadTailProperties, LenProperties DEF HeadCompleted
<1>2. /\ i \in 1 .. Len(window) - 1 /\ i - 1 \in Nat /\ window'[i] = window[i + 1]
      /\ i + 1 \in EligibleInFlight
  BY <1>1 DEF EligibleInFlight
<1>3. PICK pc \in DOMAIN stream : pc = window[i + 1].pc
  BY <1>2 DEF StreamIInv, FollowsStream
<1>4. PICK r, q : /\ r = Cardinality(Sharing(window', i - 1, pc))
                  /\ q = Cardinality(Sharing(window, i, pc))
  OBVIOUS
<1>5. r \in Nat /\ q = r + (IF window[1].pc = pc THEN 1 ELSE 0)
  <2>1. PICK k \in Nat : k = i - 1 /\ i = k + 1
    BY <1>2
  <2>2. Shifted(window', window, k)
    BY <1>1, <1>2, <2>1 DEF Shifted
  <2>3. Cardinality(Sharing(window, i, pc)) =
          Cardinality(Sharing(window', k, pc)) + (IF window[1].pc = pc THEN 1 ELSE 0)
    BY <2>1, <2>2, SharingTail
  <2> QED BY <1>4, <2>1, <2>3, SharingType
<1>6. ValueOf(i + 1) = StreamValue(pc, committed[pc] + q)
  <2>1. (i + 1) - 1 = i
    BY <1>2
  <2> QED BY <1>3, <1>4, <2>1, RankIs DEF ValueOf
<1>7. ValueOf(i)' = StreamValue(pc, committed'[pc] + r)
  BY <1>2, <1>3, <1>4 DEF ValueOf, Rank, StreamValue, Sharing
<1>8. PICK c \in Int : c = committed[pc]
  BY StreamType
<1>9. CASE window[1].pc = pc
  <2>1. pc # Junk
    BY StreamType, VpuAssumption DEF Junk
  <2>2. window[1].eligible
    BY <1>1, <1>9, <2>1 DEF StreamIInv, Ineligible
  <2>3. committed' = Committed(pc)
    BY <1>9, <2>2
  <2>4. PICK d \in Int, k \in Int : d = committed'[pc] /\ d = c + 1 + k * ValueSpace
    BY <1>8, <2>3, CommittedIs
  <2>5. PICK x \in Int, y \in Int : x = d + r /\ y = c + q
    BY <1>5, <1>9
  <2>6. x = y + k * ValueSpace
    <3>1. k * ValueSpace \in Int
      BY StreamType
    <3> QED BY <1>5, <1>9, <2>4, <2>5, <3>1
  <2>7. StreamValue(pc, x) = StreamValue(pc, y)
    BY <2>6, SameTerm
  <2> QED BY <1>2, <1>6, <1>7, <1>8, <2>4, <2>5, <2>7
<1>10. CASE window[1].pc # pc
  <2>1. committed'[pc] = committed[pc]
    BY <1>10, HeadTerm, CommittedIs
  <2>2. q = r
    BY <1>5, <1>10
  <2> QED BY <1>2, <1>6, <1>7, <2>1, <2>2
<1> QED BY <1>9, <1>10

\* A commit leaves the VPQ exactly if it has an entry there.
LEMMA CommitCounted ==
  ASSUME StreamIInv, vpq_head' = PoppedHead,
         committed' = IF PopsVpq
                      THEN [committed EXCEPT ![window[1].pc] = (@ + 1) % ValueSpace]
                      ELSE committed
  PROVE  committed' = IF window[1].eligible THEN Committed(window[1].pc) ELSE committed
<1>1. vpq_head \in Cursor(VpqSize) /\ VpqSize \in Nat \ {0}
  BY VpuAssumption DEF StreamIInv, IInv, TypeOK
<1>2. Advance(vpq_head, VpqSize) # vpq_head
  BY <1>1 DEF Advance, Cursor
<1> QED BY <1>2 DEF PoppedHead, PopsVpq, Committed

\* What a commit makes of the table and of the counts
LEMMA CommitLearned ==
  ASSUME StreamIInv, HeadCompleted,
         committed' = IF window[1].eligible THEN Committed(window[1].pc) ELSE committed
  PROVE  Learned(TrainedSvp, committed') /\ committed' \in [DOMAIN stream -> Values]
<1>1. CASE window[1].eligible
  BY <1>1, TrainedLearned, HeadTerm, CommittedIs
<1>2. CASE ~window[1].eligible
  BY <1>2 DEF TrainedSvp, StreamIInv
<1> QED BY <1>1, <1>2

LEMMA RetireExactly ==
  ASSUME StreamIInv, IInv', InstCountExact', FollowsStream', stream' = stream,
         committed' = IF window[1].eligible THEN Committed(window[1].pc) ELSE committed,
         Retire
  PROVE  StreamIInv'
<1>1. /\ HeadCompleted /\ svp' = TrainedSvp /\ window' = Tail(window) /\ mode' = mode
  BY DEF Retire
<1>2. Learned(svp', committed') /\ committed' \in [DOMAIN stream -> Values]
  BY <1>1, CommitLearned
<1>3. Learned(svp, committed)'
  BY <1>2 DEF Learned, Follows, StreamValue
<1>4. (\A i \in 1 .. Len(window) : window[i].eligible \/ Ineligible(window[i]))'
  <2>1. /\ Len(window) \in Nat \ {0} /\ Len(window') = Len(window) - 1
        /\ \A j \in 1 .. Len(window) - 1 : window'[j] = window[j + 1]
    <3>1. window \in Seq(Instruction) /\ window # <<>>
      BY <1>1, EmptySeq DEF HeadCompleted, StreamIInv, IInv, TypeOK
    <3> QED BY <1>1, <3>1, HeadTailProperties, LenProperties DEF HeadCompleted
  <2> QED BY <2>1 DEF StreamIInv, Ineligible
<1>5. ConfidentPredictionExact'
  <2> SUFFICES ASSUME NEW i \in EligibleInFlight', window'[i].predicted
               PROVE  window'[i].value = ValueOf(i)'
    BY DEF ConfidentPredictionExact
  <2>1. /\ i + 1 \in EligibleInFlight /\ window'[i] = window[i + 1]
        /\ ValueOf(i)' = ValueOf(i + 1)
    BY <1>1, ShiftedValues
  <2> QED BY <2>1 DEF StreamIInv, ConfidentPredictionExact
<1> QED BY <1>1, <1>2, <1>3, <1>4, <1>5 DEF StreamIInv

LEMMA StreamStep ==
  StreamIInv /\ [StreamNext]_streamVars => StreamIInv'
<1> SUFFICES ASSUME StreamIInv, [StreamNext]_streamVars
             PROVE  StreamIInv'
  OBVIOUS
<1>1. CASE UNCHANGED streamVars
  <2>1. UNCHANGED <<IInv, InstCountExact, FollowsStream>>
    BY <1>1 DEF streamVars, vars, IInv, TypeOK, InstructionOK, Queue, VpqLockstep,
         CheckpointsSplitVpq, CheckpointsOrdered, Kept, EntriesOfOwners, PositionInVpq,
         InFlightSlots, EligibleInFlight, InstCountExact, MatchingInFlight,
         FollowsStream, ValueOf, StreamValue, Rank
  <2>2. UNCHANGED <<stream, committed, mode, window, svp>>
    BY <1>1 DEF streamVars, vars
  <2>3. ConfidentPredictionExact' = ConfidentPredictionExact
    BY <2>2 DEF ConfidentPredictionExact, EligibleInFlight, ValueOf, StreamValue, Rank
  <2>4. Learned(svp, committed)' = Learned(svp, committed)
    BY <2>2 DEF Learned, Follows, StreamValue
  <2> QED BY <2>1, <2>2, <2>3, <2>4 DEF StreamIInv, Ineligible
<1>2. CASE StreamNext
  <2>1. IInv' /\ InstCountExact' /\ FollowsStream' /\ stream' = stream /\ Next
    <3>1. [Next]_vars /\ FollowsStream' /\ stream' = stream /\ Next
      BY <1>2 DEF StreamNext
    <3>2. IInv'
      BY <3>1, NextIInv DEF StreamIInv
    <3>3. InstCountExact'
      BY <3>1, NextExact, StrideAssumption DEF StreamIInv
    <3> QED BY <3>1, <3>2, <3>3
  <2>2. committed' = IF PopsVpq
                     THEN [committed EXCEPT ![window[1].pc] = (@ + 1) % ValueSpace]
                     ELSE committed
    BY <1>2 DEF StreamNext
  <2>3. window \in Seq(Instruction) /\ Len(window) \in Nat
    BY LenProperties DEF StreamIInv, IInv, TypeOK
  <2>4. svp \in Table /\ SameLearning(svp, svp)
    BY DEF StreamIInv, IInv, TypeOK, Table, SameLearning
  <2>5. ASSUME NEW pc \in PCs, RenameEligible(pc) PROVE StreamIInv'
    <3>1. committed' = committed
      BY <2>2, <2>5 DEF RenameEligible, PopsVpq
    <3> QED BY <2>1, <2>5, <3>1, RenameEligibleExactly
  <2>6. ASSUME NEW checkpoint \in BOOLEAN, RenameIneligible(checkpoint) PROVE StreamIInv'
    <3>1. committed' = committed /\ mode' = mode /\ svp' = svp
      BY <2>2, <2>6 DEF RenameIneligible, PopsVpq
    <3>2. PICK n \in Nat : n = Len(window)
      BY <2>3
    <3>3. /\ Len(window') = n + 1 /\ \A i \in 1 .. n : window'[i] = window[i]
          /\ Ineligible(window'[n + 1])
      BY <2>3, <2>6, <3>2, AppendProperties DEF RenameIneligible, Ineligible
    <3>4. \A i \in 1 .. Len(window') : i \in 1 .. n \/ Ineligible(window'[i])
      BY <3>3
    <3>5. n \in 0 .. Len(window) /\ SameLearning(svp', svp)
      BY <2>4, <3>1, <3>2
    <3> QED BY <2>1, <3>1, <3>3, <3>4, <3>5, QuietStep
  <2>7. ASSUME NEW i \in 1 .. Len(window), NEW value \in Values, Execute(i, value)
        PROVE  StreamIInv'
    <3>1. committed' = committed /\ mode' = mode /\ svp' = svp
      BY <2>2, <2>7 DEF Execute, PopsVpq
    <3>2. PICK n \in Nat : n = Len(window)
      BY <2>3
    <3>3. /\ Len(window') = n
          /\ \A j \in 1 .. n : /\ window'[j].pc = window[j].pc
                               /\ window'[j].eligible = window[j].eligible
                               /\ window'[j].predicted = window[j].predicted
                               /\ window'[j].value = window[j].value
      <4>1. window \in [1 .. n -> Instruction]
        BY <2>3, <3>2, LenProperties
      <4> QED BY <2>7, <3>2, <4>1 DEF Execute, Instruction
    <3>4. n \in 0 .. Len(window) /\ SameLearning(svp', svp)
      BY <2>4, <3>1, <3>2
    <3>5. \A j \in 1 .. Len(window') : j \in 1 .. n \/ Ineligible(window'[j])
      BY <3>3
    <3> QED BY <2>1, <3>1, <3>3, <3>4, <3>5, QuietStep
  <2>8. ASSUME NEW i \in 1 .. Len(window), Complete(i)
        PROVE  StreamIInv'
    <3>1. committed' = committed /\ mode' = mode /\ svp' = svp
      BY <2>2, <2>8 DEF Complete, PopsVpq
    <3>2. PICK n \in Nat : n = Len(window)
      BY <2>3
    <3>3. /\ Len(window') = n
          /\ \A j \in 1 .. n : /\ window'[j].pc = window[j].pc
                               /\ window'[j].eligible = window[j].eligible
                               /\ window'[j].predicted = window[j].predicted
                               /\ window'[j].value = window[j].value
      <4>1. window \in [1 .. n -> Instruction]
        BY <2>3, <3>2, LenProperties
      <4> QED BY <2>8, <3>2, <4>1 DEF Complete, Instruction
    <3>4. n \in 0 .. Len(window) /\ SameLearning(svp', svp)
      BY <2>4, <3>1, <3>2
    <3>5. \A j \in 1 .. Len(window') : j \in 1 .. n \/ Ineligible(window'[j])
      BY <3>3
    <3> QED BY <2>1, <3>1, <3>3, <3>4, <3>5, QuietStep
  <2>9. ASSUME NEW i \in 1 .. Len(window), ResolveMispredicted(i)
        PROVE  StreamIInv'
    <3>1. committed' = committed /\ mode' = mode
      BY <2>2, <2>9 DEF ResolveMispredicted, PopsVpq
    <3>2. SameLearning(svp', svp)
      BY <2>4, <2>9, RepairedLearning DEF ResolveMispredicted, RollbackTo, StreamIInv
    <3>3. i \in Nat /\ i \in 0 .. Len(window)
      BY <2>3
    <3>4. /\ Len(window') = i
          /\ \A j \in 1 .. i : /\ window'[j].pc = window[j].pc
                               /\ window'[j].eligible = window[j].eligible
                               /\ window'[j].predicted = window[j].predicted
                               /\ window'[j].value = window[j].value
      <4>1. PICK kept : kept = SubSeq(window, 1, i)
        OBVIOUS
      <4>2. kept \in [1 .. i -> Instruction] /\ \A j \in 1 .. i : kept[j] = window[j]
        <5>1. /\ kept \in Seq(Instruction) /\ Len(kept) = i
              /\ \A j \in 1 .. i : kept[j] = window[j]
          <6>1. \A j \in 1 .. i : window[j] \in Instruction
            BY <2>3, <3>3
          <6> QED BY <3>3, <4>1, <6>1, SubSeqProperties
        <5> QED BY <5>1, LenProperties
      <4>3. window' = [kept EXCEPT ![i].completed = TRUE]
        BY <2>9, <4>1 DEF ResolveMispredicted
      <4>4. Len(window') = i
        BY <3>3, <4>2, <4>3
      <4> QED BY <4>2, <4>3, <4>4 DEF Instruction
    <3>5. \A j \in 1 .. Len(window') : j \in 1 .. i \/ Ineligible(window'[j])
      BY <3>4
    <3> QED BY <2>1, <3>1, <3>2, <3>3, <3>4, <3>5, QuietStep
  <2>10. CASE Retire
    <3>1. committed' = IF window[1].eligible THEN Committed(window[1].pc) ELSE committed
      BY <2>2, <2>10, CommitCounted DEF Retire
    <3> QED BY <2>1, <2>10, <3>1, RetireExactly
  <2>11. CASE RetireValueMispredicted
    <3>1. committed' = IF window[1].eligible THEN Committed(window[1].pc) ELSE committed
      BY <2>2, <2>11, CommitCounted DEF RetireValueMispredicted
    <3>2. HeadCompleted /\ mode' = mode /\ window' = <<>> /\ RollbackTo(TrainedSvp, PoppedHead)
      BY <2>11 DEF RetireValueMispredicted
    <3>3. Learned(TrainedSvp, committed') /\ committed' \in [DOMAIN stream -> Values]
      BY <3>1, <3>2, CommitLearned
    <3>4. SameLearning(svp', TrainedSvp)
      <4>1. TrainedSvp \in Table
        BY <3>2, TrainedSvpType DEF StreamIInv, Table
      <4> QED BY <3>2, <4>1, RepairedLearning DEF RollbackTo, StreamIInv
    <3>5. Learned(svp', committed')
      BY <3>3, <3>4, LearnedSame
    <3> QED BY <2>1, <3>2, <3>3, <3>5, EmptyWindow
  <2>12. CASE RetireSquash
    <3>1. committed' = committed /\ mode' = mode /\ window' = <<>>
      BY <2>2, <2>12 DEF RetireSquash, PopsVpq
    <3>2. SameLearning(svp', svp)
      BY <2>4, <2>12, RepairedLearning DEF RetireSquash, RollbackTo, StreamIInv
    <3>3. Learned(svp', committed') /\ committed' \in [DOMAIN stream -> Values]
      BY <3>1, <3>2, LearnedSame DEF StreamIInv
    <3> QED BY <2>1, <3>1, <3>3, EmptyWindow
  <2> QED BY <2>1, <2>5, <2>6, <2>7, <2>8, <2>9, <2>10, <2>11, <2>12 DEF Next
<1> QED BY <1>1, <1>2

LEMMA StreamStart == StreamInit /\ mode = "svp" => StreamIInv
<1> SUFFICES ASSUME StreamInit, mode = "svp"
             PROVE  StreamIInv
  OBVIOUS
<1>1. Init /\ stream \in Streams /\ committed = [pc \in DOMAIN stream |-> 0]
  BY DEF StreamInit
<1>2. IInv /\ InstCountExact
  BY <1>1, InitIInv, InitExact
<1>3. committed \in [DOMAIN stream -> Values]
  BY <1>1, VpuAssumption DEF Values
<1>4. Len(window) = 0 /\ EligibleInFlight = {}
  BY <1>1, EmptySeq DEF Init, EligibleInFlight
<1>5. FollowsStream /\ ConfidentPredictionExact
  BY <1>4 DEF FollowsStream, ConfidentPredictionExact
<1>6. Learned(svp, committed)
  <2> SUFFICES ASSUME NEW pc \in DOMAIN stream, Matches(svp[Index(pc)], pc)
               PROVE  Untrained(svp[Index(pc)])
    BY DEF Learned
  <2>1. Index(pc) \in 0 .. SvpSize - 1
    BY <1>1, IndexType, StrideAssumption
  <2>2. svp[Index(pc)] = [valid |-> TagSpace = 1, tag |-> 0, conf |-> 0, retval |-> 0,
                          stride |-> 0, instcount |-> 0]
    BY <1>1, <2>1 DEF Init
  <2>3. TagSpace = 1
    <3>1. PICK v \in BOOLEAN : v <=> TagSpace = 1
      OBVIOUS
    <3>2. svp[Index(pc)] = [valid |-> v, tag |-> 0, conf |-> 0, retval |-> 0,
                            stride |-> 0, instcount |-> 0]
      BY <2>2, <3>1, Zenon
    <3>3. svp[Index(pc)].valid = v
      BY <3>2
    <3> QED BY <3>1, <3>3 DEF Matches
  <2> QED BY <2>2, <2>3 DEF Untrained
<1> QED BY <1>1, <1>2, <1>3, <1>4, <1>5, <1>6 DEF StreamIInv

\* The constructor chooses the mode once and for all.
LEMMA ModeFixed == [StreamNext]_streamVars => mode' = mode
BY DEF StreamNext, streamVars, vars, Next, RenameEligible, RenameIneligible, Execute,
       Complete, ResolveMispredicted, Retire, RetireValueMispredicted, RetireSquash

\* Every confident prediction on an arithmetic sequence is the value the
\* instruction is going to compute, whatever is in flight and whatever has been
\* squashed (vpu.cc:105-108, retire.cc:111-146), when the predictor has its own
\* confidence: in the oracle and perfect modes the debug buffer decides.
THEOREM ConfidenceIsExact ==
  StreamSpec => [](mode = "svp" => ConfidentPredictionExact)
<1> DEFINE J == mode = "svp" => StreamIInv
<1>1. StreamInit => J
  BY StreamStart
<1>2. J /\ [StreamNext]_streamVars => J'
  BY StreamStep, ModeFixed
<1>3. J => (mode = "svp" => ConfidentPredictionExact)
  BY DEF StreamIInv
<1> QED BY <1>1, <1>2, <1>3, PTL DEF StreamSpec

=============================================================================
