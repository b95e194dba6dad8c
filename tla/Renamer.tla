------------------------------ MODULE Renamer ------------------------------
(***************************************************************************)
(* The register renamer of renamer.h and renamer.cc under the calls the    *)
(* pipeline makes to it: rename map table (RMT), architectural map table   *)
(* (AMT), free list (FL), active list (AL), global branch mask             *)
(* (GBM) and branch checkpoints.                                           *)
(*                                                                         *)
(* window is the payload buffer from the Rename to the Retire Stage:       *)
(* instructions in program order, oldest first, with the registers and the *)
(* indices the stages carry for them.  One action is one instruction in    *)
(* one stage; a bundle is a run of such actions.                           *)
(***************************************************************************)
EXTENDS Ring, Sequences, FiniteSets

CONSTANTS
  NLog,         \* n_log_regs
  PhysRegs,     \* the physical registers, n_phys_regs of them
  NBranches,    \* n_branches
  NActive,      \* n_active
  Kinds,        \* instruction kinds: destination, if any, and whether checkpointed
  BundleSize    \* dispatch_width: bound on instructions between Rename and Dispatch

ASSUME RenamerAssumption ==
  /\ NLog \in Nat \ {0}
  /\ IsFiniteSet(PhysRegs) /\ Cardinality(PhysRegs) > NLog
  /\ NBranches \in Nat \ {0}
  /\ NActive \in Nat \ {0}
  /\ Kinds \subseteq [dest : BOOLEAN, log : 0 .. NLog - 1, checkpoint : BOOLEAN]
  /\ BundleSize \in Nat \ {0}

VARIABLES
  rmt, amt,                     \* m_rmt, m_amt
  fl_fifo, fl_head, fl_tail,    \* m_fl_fifo and its cursors
  al_fifo, al_head, al_tail,    \* m_al_fifo and its cursors
  GBM,                          \* the set of the bits that are 1
  checkpoints,                  \* m_branch_checkpoints
  window                        \* PAY.buf, PAY.head to PAY.tail

vars == <<rmt, amt, fl_fifo, fl_head, fl_tail, al_fifo, al_head, al_tail,
          GBM, checkpoints, window>>

FlLength  == Cardinality(PhysRegs) - NLog
LogRegs   == 0 .. NLog - 1
BranchIDs == 0 .. NBranches - 1
AlSlots   == 0 .. NActive - 1
FlSlots   == 0 .. FlLength - 1

\* The content of a field no function has written
Junk == -1

ActiveListEntry ==
  [dest : BOOLEAN, log : LogRegs \cup {Junk}, phys : PhysRegs \cup {Junk},
   completed : BOOLEAN]

Checkpoint ==
  [smt : [LogRegs -> PhysRegs], fl_head : Cursor(FlLength),
   GBM : SUBSET BranchIDs]

Stages == {"renamed", "dispatched", "completed"}

Instruction ==
  [dest : BOOLEAN, log : LogRegs \cup {Junk}, phys : PhysRegs \cup {Junk},
   checkpoint : BOOLEAN, branch_ID : BranchIDs \cup {Junk},
   branch_mask : SUBSET BranchIDs, AL_index : AlSlots \cup {Junk},
   stage : Stages]

-----------------------------------------------------------------------------
(* Rename *)

FirstFree(mask) ==
  CHOOSE b \in BranchIDs \ mask : \A c \in BranchIDs \ mask : b <= c

\* Mutant: a branch that writes a register saves the map from before it
SavedWithOldMap == [smt |-> rmt, fl_head |-> fl_head', GBM |-> GBM]

\* What checkpoint() saves: the map and the head of the free list as the branch
\* leaves them, and the older unresolved branches
Saved == [smt |-> rmt', fl_head |-> fl_head', GBM |-> GBM]

\* stall_reg() and stall_branch(); rename_rdst(), get_branch_mask() and
\* checkpoint(), in the order rename2() calls them
Rename(dest, log, checkpoint) ==
  LET phys == fl_fifo[fl_head.ptr]
      id   == FirstFree(GBM)
  IN /\ Cardinality({i \in 1 .. Len(window) : window[i].stage = "renamed"})
          < BundleSize
     /\ dest => ~IsEmpty(fl_head, fl_tail)
     /\ checkpoint => GBM # BranchIDs
     /\ rmt' = IF dest THEN [rmt EXCEPT ![log] = phys] ELSE rmt
     /\ fl_head' = IF dest THEN Advance(fl_head, FlLength) ELSE fl_head
     /\ window' = Append(window,
          [dest |-> dest, log |-> IF dest THEN log ELSE Junk,
           phys |-> IF dest THEN phys ELSE Junk,
           checkpoint |-> checkpoint,
           branch_ID |-> IF checkpoint THEN id ELSE Junk,
           branch_mask |-> GBM, AL_index |-> Junk,
           stage |-> "renamed"])
     /\ IF checkpoint
        THEN /\ checkpoints' = [checkpoints EXCEPT ![id] = Saved]
             /\ GBM' = GBM \cup {id}
        ELSE UNCHANGED <<checkpoints, GBM>>
     /\ UNCHANGED <<amt, fl_fifo, fl_tail, al_fifo, al_head, al_tail>>

-----------------------------------------------------------------------------
(* Dispatch *)

\* stall_dispatch() and dispatch_inst(), for the oldest instruction that
\* waits in the DISPATCH register
Dispatch(i) ==
  /\ window[i].stage = "renamed"
  /\ \A j \in 1 .. i - 1 : window[j].stage # "renamed"
  /\ FreeEntries(al_head, al_tail, NActive) >= 1
  /\ al_fifo' = [al_fifo EXCEPT ![al_tail.ptr] =
       [dest |-> window[i].dest,
        log  |-> IF window[i].dest THEN window[i].log ELSE @.log,
        phys |-> IF window[i].dest THEN window[i].phys ELSE @.phys,
        completed |-> FALSE]]
  /\ al_tail' = Advance(al_tail, NActive)
  /\ window' = [window EXCEPT ![i].AL_index = al_tail.ptr,
                              ![i].stage = "dispatched"]
  /\ UNCHANGED <<rmt, amt, fl_fifo, fl_head, fl_tail, al_head, GBM, checkpoints>>

-----------------------------------------------------------------------------
(* Writeback *)

\* set_complete() of an instruction that is not a checkpointed branch
Complete(i) ==
  /\ window[i].stage = "dispatched" /\ ~window[i].checkpoint
  /\ al_fifo' = [al_fifo EXCEPT ![window[i].AL_index].completed = TRUE]
  /\ window' = [window EXCEPT ![i].stage = "completed"]
  /\ UNCHANGED <<rmt, amt, fl_fifo, fl_head, fl_tail, al_head, al_tail,
                 GBM, checkpoints>>

\* Mutant: the bit of the branch stays in the checkpointed masks
UncleanedCheckpoints(id) == checkpoints

\* A correctly resolved branch leaves the masks of all checkpoints.
CleanedCheckpoints(id) ==
  [b \in BranchIDs |-> [checkpoints[b] EXCEPT !.GBM = @ \ {id}]]

\* resolve(AL_index, branch_ID, true) of the renamer and of the pipeline
ResolveCorrect(i) ==
  LET id == window[i].branch_ID
  IN /\ window[i].stage = "dispatched" /\ window[i].checkpoint
     /\ GBM' = GBM \ {id}
     /\ checkpoints' = CleanedCheckpoints(id)
     /\ al_fifo' = [al_fifo EXCEPT ![window[i].AL_index].completed = TRUE]
     /\ window' = [j \in 1 .. Len(window) |->
          [window[j] EXCEPT !.branch_mask = @ \ {id},
                            !.stage = IF j = i THEN "completed" ELSE @]]
     /\ UNCHANGED <<rmt, amt, fl_fifo, fl_head, fl_tail, al_head, al_tail>>

\* Mutant: the restored tail does not wrap around
AlTailAfterUnwrapped(index) ==
  [ptr |-> index + 1,
   phase |-> IF al_head.ptr < index + 1 THEN al_head.phase ELSE ~al_head.phase]

\* Mutant: a tail that reaches the head is taken for an empty list
AlTailAfterNeverFull(index) ==
  LET ptr == IF index + 1 = NActive THEN 0 ELSE index + 1
  IN [ptr |-> ptr, phase |-> IF al_head.ptr <= ptr THEN al_head.phase
                                                   ELSE ~al_head.phase]

\* The tail of the active list after the entry at index.  The phase bit was
\* not saved: it is inferred from the position of the head.
AlTailAfter(index) ==
  LET ptr == IF index + 1 = NActive THEN 0 ELSE index + 1
  IN [ptr |-> ptr, phase |-> IF al_head.ptr < ptr THEN al_head.phase
                                                  ELSE ~al_head.phase]

\* resolve(AL_index, branch_ID, false) of the renamer and of the pipeline,
\* and PAY.rollback()
ResolveMispredicted(i) ==
  LET saved == checkpoints[window[i].branch_ID]
  IN /\ window[i].stage = "dispatched" /\ window[i].checkpoint
     /\ GBM' = saved.GBM
     /\ rmt' = saved.smt
     /\ fl_head' = saved.fl_head
     /\ al_tail' = AlTailAfter(window[i].AL_index)
     /\ al_fifo' = [al_fifo EXCEPT ![window[i].AL_index].completed = TRUE]
     /\ window' = [SubSeq(window, 1, i) EXCEPT ![i].stage = "completed"]
     /\ UNCHANGED <<amt, fl_fifo, fl_tail, al_head, checkpoints>>

-----------------------------------------------------------------------------
(* Retire *)

AlHead == al_fifo[al_head.ptr]

\* precommit(): there is a head, and it is completed
HeadCompleted == ~IsEmpty(al_head, al_tail) /\ AlHead.completed

\* Mutant: the register of the committing instruction is freed
CommitFreeingNew ==
  /\ IF AlHead.dest
     THEN /\ fl_fifo' = [fl_fifo EXCEPT ![fl_tail.ptr] = AlHead.phys]
          /\ fl_tail' = Advance(fl_tail, FlLength)
          /\ amt' = [amt EXCEPT ![AlHead.log] = AlHead.phys]
     ELSE UNCHANGED <<fl_fifo, fl_tail, amt>>
  /\ al_head' = Advance(al_head, NActive)

\* commit(): the former mapping is freed, the new one becomes architectural
Commit ==
  /\ IF AlHead.dest
     THEN /\ fl_fifo' = [fl_fifo EXCEPT ![fl_tail.ptr] = amt[AlHead.log]]
          /\ fl_tail' = Advance(fl_tail, FlLength)
          /\ amt' = [amt EXCEPT ![AlHead.log] = AlHead.phys]
     ELSE UNCHANGED <<fl_fifo, fl_tail, amt>>
  /\ al_head' = Advance(al_head, NActive)

\* Mutant: the free list comes out empty rather than full
SquashKeepingPhase ==
  /\ rmt' = amt'
  /\ al_tail' = al_head'
  /\ fl_head' = fl_tail'
  /\ GBM' = {}

\* Mutant: the maps are copied before the head commits
SquashToOldMap ==
  /\ rmt' = amt
  /\ al_tail' = al_head'
  /\ fl_head' = [ptr |-> fl_tail'.ptr, phase |-> ~fl_tail'.phase]
  /\ GBM' = {}

\* squash(), from the architectural state the retiring instruction leaves
Squash ==
  /\ rmt' = amt'
  /\ al_tail' = al_head'
  /\ fl_head' = [ptr |-> fl_tail'.ptr, phase |-> ~fl_tail'.phase]
  /\ GBM' = {}

\* Whether the head carries an exception, a load violation or a value
\* misprediction is decided by other units: any completed head may.
RetireCommit ==
  /\ HeadCompleted
  /\ Commit
  /\ window' = Tail(window)
  /\ UNCHANGED <<rmt, fl_head, al_fifo, al_tail, GBM, checkpoints>>

\* VR-1: the mispredicted instruction commits, all that is younger goes.
RetireValueMispredicted ==
  /\ HeadCompleted
  /\ Commit
  /\ Squash
  /\ window' = <<>>
  /\ UNCHANGED <<al_fifo, checkpoints>>

\* A load violation or an exception: the head goes as well.
RetireOffending ==
  /\ HeadCompleted
  /\ UNCHANGED <<amt, fl_fifo, fl_tail, al_head>>
  /\ Squash
  /\ window' = <<>>
  /\ UNCHANGED <<al_fifo, checkpoints>>

-----------------------------------------------------------------------------
\* the ways to number the physical registers
Numberings ==
  {number \in [0 .. Cardinality(PhysRegs) - 1 -> PhysRegs] :
     \A m, n \in DOMAIN number : number[m] = number[n] => m = n}

\* The code uses the numbers for nothing but their order here.
Init ==
  /\ \E number \in Numberings :
       /\ amt = [l \in LogRegs |-> number[l]]
       /\ fl_fifo = [s \in FlSlots |-> number[s + NLog]]
  /\ rmt = amt
  /\ fl_head = [ptr |-> 0, phase |-> FALSE]
  /\ fl_tail = [ptr |-> 0, phase |-> TRUE]
  /\ al_fifo = [s \in AlSlots |->
                  [dest |-> FALSE, log |-> Junk, phys |-> Junk,
                   completed |-> FALSE]]
  /\ al_head = [ptr |-> 0, phase |-> FALSE]
  /\ al_tail = [ptr |-> 0, phase |-> FALSE]
  /\ GBM = {}
  /\ checkpoints = [b \in BranchIDs |->
                      [smt |-> rmt, fl_head |-> fl_head, GBM |-> {}]]
  /\ window = <<>>

Next ==
  \/ \E kind \in Kinds : Rename(kind.dest, kind.log, kind.checkpoint)
  \/ \E i \in 1 .. Len(window) :
       \/ Dispatch(i)
       \/ Complete(i)
       \/ ResolveCorrect(i)
       \/ ResolveMispredicted(i)
  \/ RetireCommit
  \/ RetireValueMispredicted
  \/ RetireOffending

Spec == Init /\ [][Next]_vars

-----------------------------------------------------------------------------
(* Properties *)

TypeOK ==
  /\ rmt \in [LogRegs -> PhysRegs]
  /\ amt \in [LogRegs -> PhysRegs]
  /\ fl_fifo \in [FlSlots -> PhysRegs]
  /\ fl_head \in Cursor(FlLength)
  /\ fl_tail \in Cursor(FlLength)
  /\ al_fifo \in [AlSlots -> ActiveListEntry]
  /\ al_head \in Cursor(NActive)
  /\ al_tail \in Cursor(NActive)
  /\ GBM \in SUBSET BranchIDs
  /\ checkpoints \in [BranchIDs -> Checkpoint]
  /\ window \in Seq(Instruction)

\* The registers of the instructions in flight, whatever stage they are in
Renamed ==
  [i \in 1 .. Len(window) |->
     [dest |-> window[i].dest, log |-> window[i].log, phys |-> window[i].phys]]

Abstract == INSTANCE RenamerSpec WITH inflight <- Renamed

Writers == Abstract!WritersUpTo(Len(window))

\* No register is lost and none is held twice: the array of the free list and
\* the AMT are together a permutation of the physical registers, although
\* the array is never rewritten on a rollback (renamer.cc:392-393, 533-534) and
\* a commit overwrites the slot at the tail (renamer.cc:504, 584).
RegistersConserved ==
  /\ \A s, t \in FlSlots : fl_fifo[s] = fl_fifo[t] => s = t
  /\ \A k, l \in LogRegs : amt[k] = amt[l] => k = l
  /\ \A s \in FlSlots, l \in LogRegs : fl_fifo[s] # amt[l]

\* The slots whose registers are in flight: from the tail of the free list,
\* seen as a head, up to its head.
FlBase == [ptr |-> fl_tail.ptr, phase |-> ~fl_tail.phase]
AllocatedSlots == Span(FlBase, fl_head, FlLength)
PositionInFl(s) == Offset(FlBase, s, FlLength)

\* The registers in flight are the ones popped from the free list and not
\* pushed over, in program order.  The assertions of helper_fl_pop() and
\* helper_fl_push() (renamer.cc:561, 581) follow from it.
FreeListInOrder ==
  /\ Coherent(FlBase, fl_head, FlLength)
  /\ \A i \in Writers : \E s \in AllocatedSlots : fl_fifo[s] = window[i].phys
  /\ \A i, j \in Writers : \A s, t \in AllocatedSlots :
       i < j /\ fl_fifo[s] = window[i].phys /\ fl_fifo[t] = window[j].phys
         => PositionInFl(s) < PositionInFl(t)
  /\ \A s \in AllocatedSlots : \E i \in Writers : window[i].phys = fl_fifo[s]

\* The RMT maps every logical register to its youngest writer in flight, or to
\* its committed version when there is none: so do the copies of it that the
\* unresolved branches saved (renamer.cc:230-232), up to the branch, although
\* commits go on after the copy was made.
MapsPrecise ==
  /\ rmt = Abstract!MapAfter(Len(window))
  /\ \A b \in 1 .. Len(window) :
       window[b].checkpoint /\ window[b].stage # "completed" =>
         checkpoints[window[b].branch_ID].smt = Abstract!MapAfter(b)

UnresolvedUpTo(n) ==
  {i \in 1 .. n : window[i].checkpoint /\ window[i].stage # "completed"}

IDsOf(branches) == {window[i].branch_ID : i \in branches}

\* Branch IDs are reused as soon as they are free.  Still, no two unresolved
\* branches share one, the GBM and every checkpointed GBM hold the unresolved
\* branches that are older, and the masks that decide what a misprediction
\* squashes in the pipeline registers (squash.cc:130-148) single out exactly
\* the instructions that are younger than the branch.
BranchMasksExact ==
  /\ GBM = IDsOf(UnresolvedUpTo(Len(window)))
  /\ \A i, j \in UnresolvedUpTo(Len(window)) :
       window[i].branch_ID = window[j].branch_ID => i = j
  /\ \A i \in UnresolvedUpTo(Len(window)) :
       checkpoints[window[i].branch_ID].GBM = IDsOf(UnresolvedUpTo(i - 1))
  /\ \A i \in 1 .. Len(window) :
       window[i].stage # "completed" =>
         window[i].branch_mask = IDsOf(UnresolvedUpTo(i - 1))

Dispatched == {i \in 1 .. Len(window) : window[i].stage # "renamed"}

\* The active list holds the dispatched instructions in program order, also
\* after its tail phase bit was inferred rather than restored
\* (renamer.cc:396-418), and what an index in the payload points to is the
\* entry of that instruction: completion and misprediction marks never land
\* on another one.
ActiveListInStep ==
  /\ Coherent(al_head, al_tail, NActive)
  /\ Occupancy(al_head, al_tail, NActive) = Cardinality(Dispatched)
  /\ \A i \in Dispatched :
       LET entry == al_fifo[window[i].AL_index]
       IN /\ Offset(al_head, window[i].AL_index, NActive) = i - 1
          /\ entry.dest = window[i].dest
          /\ entry.dest => /\ entry.log = window[i].log
                           /\ entry.phys = window[i].phys
          /\ entry.completed <=> window[i].stage = "completed"

\* The renamer does what RenamerSpec says: sources map to the youngest older
\* writer, a destination gets a register nothing else refers to, and branch
\* recovery, with a map copied when the branch was renamed and a free list of
\* which only the head moves back (renamer.cc:379-420), is the same as undoing
\* the younger instructions one by one.
ImplementsRenamerSpec == Abstract!Spec

=============================================================================
