--------------------------- MODULE RenamerProofs ---------------------------
(***************************************************************************)
(* The invariants of Renamer for every number of registers, branches and   *)
(* active list entries, and that Renamer implements RenamerSpec.           *)
(***************************************************************************)
EXTENDS Renamer, RingProofs, FiniteSetTheorems, SequenceTheorems

-----------------------------------------------------------------------------
(* The parts of the inductive invariant *)

InstructionOK ==
  \A i \in 1 .. Len(window) :
    /\ window[i].dest => window[i].log \in LogRegs /\ window[i].phys \in PhysRegs
    /\ window[i].checkpoint => window[i].branch_ID \in BranchIDs

InActiveList == Occupancy(al_head, al_tail, NActive)

\* ActiveListInStep with the dispatched instructions as a prefix of the window
ActiveListQueue ==
  /\ InActiveList \in 0 .. NActive
  /\ InActiveList <= Len(window)
  /\ \A i \in 1 .. Len(window) : window[i].stage # "renamed" <=> i <= InActiveList
  /\ \A i \in 1 .. InActiveList :
       /\ window[i].AL_index \in AlSlots
       /\ Offset(al_head, window[i].AL_index, NActive) = i - 1
       /\ al_fifo[window[i].AL_index].dest = window[i].dest
       /\ window[i].dest => /\ al_fifo[window[i].AL_index].log = window[i].log
                            /\ al_fifo[window[i].AL_index].phys = window[i].phys
       /\ al_fifo[window[i].AL_index].completed <=> window[i].stage = "completed"

\* The branch IDs of the unresolved branches among the first n of w
UnresolvedIDs(w, n) ==
  {id \in BranchIDs : \E i \in 1 .. n : /\ w[i].checkpoint /\ w[i].stage # "completed"
                                        /\ id = w[i].branch_ID}

\* BranchMasksExact with the window as a parameter
BranchMasks ==
  /\ GBM = UnresolvedIDs(window, Len(window))
  /\ \A i, j \in UnresolvedUpTo(Len(window)) :
       window[i].branch_ID = window[j].branch_ID => i = j
  /\ \A i \in UnresolvedUpTo(Len(window)) :
       checkpoints[window[i].branch_ID].GBM = UnresolvedIDs(window, i - 1)
  /\ \A i \in 1 .. Len(window) :
       window[i].stage # "completed" =>
         window[i].branch_mask = UnresolvedIDs(window, i - 1)

Allocated == Occupancy(FlBase, fl_head, FlLength)

\* Slot s of the free list holds the register of instruction i.
Owns(i, s) ==
  window[i].dest /\ PositionInFl(s) < Allocated /\ fl_fifo[s] = window[i].phys

OwnersHaveSlots ==
  \A i \in 1 .. Len(window) : window[i].dest => \E s \in FlSlots : Owns(i, s)

SlotsInOrder ==
  \A i, j \in 1 .. Len(window) : \A s, t \in FlSlots :
    i < j /\ Owns(i, s) /\ Owns(j, t) => PositionInFl(s) < PositionInFl(t)

SlotsHaveOwners ==
  \A s \in FlSlots : PositionInFl(s) < Allocated =>
    \E i \in 1 .. Len(window) : Owns(i, s)

\* FreeListInOrder in terms of positions and owners
FreeListQueue ==
  /\ Allocated \in 0 .. FlLength
  /\ OwnersHaveSlots
  /\ SlotsInOrder
  /\ SlotsHaveOwners

\* What is allocated when the free list goes back to where branch b left it
Kept(b) == Occupancy(FlBase, checkpoints[window[b].branch_ID].fl_head, FlLength)

\* The saved head splits the registers in flight at the branch, whatever has
\* committed since; younger branches saved heads that are not older.
CheckpointsSplitFl ==
  /\ \A b \in UnresolvedUpTo(Len(window)) :
       /\ Kept(b) \in 0 .. Allocated
       /\ \A i \in 1 .. Len(window), s \in FlSlots :
            Owns(i, s) => (i <= b <=> PositionInFl(s) < Kept(b))
  /\ \A b, c \in UnresolvedUpTo(Len(window)) : b < c => Kept(b) <= Kept(c)

Writes(w, i, l) == w[i].dest /\ w[i].log = l

\* map is base overwritten by the first n instructions of w in turn.
Follows(map, base, w, n) ==
  \A l \in LogRegs :
    \/ map[l] = base[l] /\ \A i \in 1 .. n : ~Writes(w, i, l)
    \/ \E i \in 1 .. n : /\ Writes(w, i, l) /\ map[l] = w[i].phys
                         /\ \A j \in i + 1 .. n : ~Writes(w, j, l)

MapsFollow ==
  /\ Follows(rmt, amt, window, Len(window))
  /\ \A b \in UnresolvedUpTo(Len(window)) :
       Follows(checkpoints[window[b].branch_ID].smt, amt, window, b)

IInv ==
  /\ TypeOK
  /\ InstructionOK
  /\ ActiveListQueue
  /\ BranchMasks
  /\ RegistersConserved
  /\ FreeListQueue
  /\ CheckpointsSplitFl
  /\ MapsFollow

-----------------------------------------------------------------------------
(* Sizes and types *)

LEMMA Sizes ==
  /\ FlLength \in Nat \ {0}
  /\ NActive \in Nat \ {0} /\ NBranches \in Nat \ {0} /\ NLog \in Nat \ {0}
  /\ LogRegs # {} /\ IsFiniteSet(PhysRegs)
<1>1. Cardinality(PhysRegs) \in Nat
  BY RenamerAssumption, FS_CardinalityType
<1> QED BY <1>1, RenamerAssumption DEF FlLength, LogRegs

LEMMA Shape ==
  ASSUME TypeOK
  PROVE  /\ window \in Seq(Instruction) /\ Len(window) \in Nat
         /\ \A i \in 1 .. Len(window) : window[i] \in Instruction
         /\ fl_head \in Cursor(FlLength) /\ fl_tail \in Cursor(FlLength)
         /\ FlBase \in Cursor(FlLength)
         /\ al_head \in Cursor(NActive) /\ al_tail \in Cursor(NActive)
<1>1. FlBase \in Cursor(FlLength)
  BY Sizes DEF TypeOK, FlBase, Cursor
<1> QED BY <1>1, LenProperties, ElementOfSeq DEF TypeOK

\* A branch gets an ID that is free.
LEMMA FirstFreeType ==
  ASSUME NEW mask \in SUBSET BranchIDs, mask # BranchIDs
  PROVE  FirstFree(mask) \in BranchIDs \ mask
<1> DEFINE T == BranchIDs \ mask
           Less == {ss \in Nat \X Nat : ss[1] < ss[2]}
<1>1. T \subseteq Nat /\ T # {}
  <2>1. T # {}
    BY Zenon
  <2>2. BranchIDs \subseteq Nat
    BY Sizes DEF BranchIDs
  <2> QED BY <2>1, <2>2
<1>2. IsWellFoundedOn(Less, Nat)
  BY NatLessThanWellFounded DEF OpToRel
<1>3. \E b \in T : \A c \in T : ~(<<c, b>> \in Less)
  <2> HIDE DEF T, Less
  <2> QED BY <1>1, <1>2, WFMin
<1>4. \A b, c \in T : ~(<<c, b>> \in Less) => b <= c
  BY <1>1
<1>5. \E b \in T : \A c \in T : b <= c
  <2> HIDE DEF T, Less
  <2> QED BY <1>3, <1>4
<1> QED BY <1>5 DEF FirstFree

-----------------------------------------------------------------------------
(* Windows that differ in nothing a part of the invariant looks at *)

SameRegisters(x, y) ==
  /\ x.dest = y.dest /\ x.log = y.log /\ x.phys = y.phys

SameBranch(x, y) ==
  /\ x.checkpoint = y.checkpoint /\ x.branch_ID = y.branch_ID
  /\ x.checkpoint => (x.stage = "completed" <=> y.stage = "completed")

LEMMA FollowsSame ==
  ASSUME NEW map, NEW base, NEW v, NEW w, NEW n \in Nat,
         \A i \in 1 .. n : SameRegisters(v[i], w[i]),
         Follows(map, base, w, n)
  PROVE  Follows(map, base, v, n)
<1> SUFFICES ASSUME NEW l \in LogRegs
             PROVE  \/ map[l] = base[l] /\ \A i \in 1 .. n : ~Writes(v, i, l)
                    \/ \E i \in 1 .. n : /\ Writes(v, i, l) /\ map[l] = v[i].phys
                                         /\ \A j \in i + 1 .. n : ~Writes(v, j, l)
  BY DEF Follows
<1>1. \A i \in 1 .. n : /\ Writes(v, i, l) <=> Writes(w, i, l)
                        /\ v[i].phys = w[i].phys
  BY DEF SameRegisters, Writes
<1> HIDE DEF Writes
<1>2. CASE map[l] = base[l] /\ \A i \in 1 .. n : ~Writes(w, i, l)
  BY <1>1, <1>2
<1>3. CASE \E i \in 1 .. n : /\ Writes(w, i, l) /\ map[l] = w[i].phys
                             /\ \A j \in i + 1 .. n : ~Writes(w, j, l)
  <2>1. PICK i \in 1 .. n : /\ Writes(w, i, l) /\ map[l] = w[i].phys
                            /\ \A j \in i + 1 .. n : ~Writes(w, j, l)
    BY <1>3
  <2> QED BY <1>1, <2>1
<1> QED BY <1>2, <1>3 DEF Follows

\* A map goes on following when one more instruction writes it or not.
LEMMA FollowsNext ==
  ASSUME NEW map \in [LogRegs -> PhysRegs], NEW base, NEW w, NEW n \in Nat,
         Follows(map, base, w, n),
         w[n + 1].dest => w[n + 1].log \in LogRegs,
         NEW next,
         next = IF w[n + 1].dest THEN [map EXCEPT ![w[n + 1].log] = w[n + 1].phys]
                                 ELSE map
  PROVE  Follows(next, base, w, n + 1)
<1> SUFFICES ASSUME NEW l \in LogRegs
             PROVE  \/ /\ next[l] = base[l]
                       /\ \A i \in 1 .. n + 1 : ~Writes(w, i, l)
                    \/ \E i \in 1 .. n + 1 :
                         /\ Writes(w, i, l) /\ next[l] = w[i].phys
                         /\ \A j \in i + 1 .. n + 1 : ~Writes(w, j, l)
  BY DEF Follows
<1>1. CASE Writes(w, n + 1, l)
  <2>1. next[l] = w[n + 1].phys
    BY <1>1 DEF Writes
  <2>2. n + 1 \in 1 .. n + 1 /\ \A j \in n + 1 + 1 .. n + 1 : ~Writes(w, j, l)
    OBVIOUS
  <2> QED BY <1>1, <2>1, <2>2
<1>2. CASE ~Writes(w, n + 1, l)
  <2>1. next[l] = map[l]
    BY <1>2 DEF Writes
  <2>2. CASE map[l] = base[l] /\ \A i \in 1 .. n : ~Writes(w, i, l)
    <3>1. \A i \in 1 .. n + 1 : i \in 1 .. n \/ i = n + 1
      OBVIOUS
    <3> QED BY <1>2, <2>1, <2>2, <3>1
  <2>3. CASE \E i \in 1 .. n : /\ Writes(w, i, l) /\ map[l] = w[i].phys
                               /\ \A j \in i + 1 .. n : ~Writes(w, j, l)
    <3>1. PICK i \in 1 .. n : /\ Writes(w, i, l) /\ map[l] = w[i].phys
                              /\ \A j \in i + 1 .. n : ~Writes(w, j, l)
      BY <2>3
    <3>2. \A j \in i + 1 .. n + 1 : ~Writes(w, j, l)
      <4>1. \A j \in i + 1 .. n + 1 : j \in i + 1 .. n \/ j = n + 1
        OBVIOUS
      <4> QED BY <1>2, <3>1, <4>1
    <3>3. i \in 1 .. n + 1
      OBVIOUS
    <3> QED BY <2>1, <3>1, <3>2, <3>3
  <2> QED BY <2>2, <2>3 DEF Follows
<1> QED BY <1>1, <1>2

\* The oldest instruction commits: the base takes what it wrote.
LEMMA FollowsTail ==
  ASSUME NEW map, NEW base \in [LogRegs -> PhysRegs], NEW v, NEW w,
         NEW n \in Nat,
         \A i \in 1 .. n : SameRegisters(v[i], w[i + 1]),
         Follows(map, base, w, n + 1),
         w[1].dest => w[1].log \in LogRegs,
         NEW next,
         next = IF w[1].dest THEN [base EXCEPT ![w[1].log] = w[1].phys] ELSE base
  PROVE  Follows(map, next, v, n)
<1> SUFFICES ASSUME NEW l \in LogRegs
             PROVE  \/ map[l] = next[l] /\ \A i \in 1 .. n : ~Writes(v, i, l)
                    \/ \E i \in 1 .. n :
                         /\ Writes(v, i, l) /\ map[l] = v[i].phys
                         /\ \A j \in i + 1 .. n : ~Writes(v, j, l)
  BY DEF Follows
<1>1. \A i \in 1 .. n : /\ i + 1 \in 1 .. n + 1
                        /\ Writes(v, i, l) <=> Writes(w, i + 1, l)
                        /\ v[i].phys = w[i + 1].phys
  BY DEF SameRegisters, Writes
<1>2. next[l] = IF Writes(w, 1, l) THEN w[1].phys ELSE base[l]
  BY DEF Writes
<1>3. CASE map[l] = base[l] /\ \A i \in 1 .. n + 1 : ~Writes(w, i, l)
  <2>1. ~Writes(w, 1, l)
    BY <1>3
  <2> QED BY <1>1, <1>2, <1>3, <2>1
<1>4. CASE \E i \in 1 .. n + 1 :
             /\ Writes(w, i, l) /\ map[l] = w[i].phys
             /\ \A j \in i + 1 .. n + 1 : ~Writes(w, j, l)
  <2>1. PICK i \in 1 .. n + 1 :
          /\ Writes(w, i, l) /\ map[l] = w[i].phys
          /\ \A j \in i + 1 .. n + 1 : ~Writes(w, j, l)
    BY <1>4
  <2>2. CASE i = 1
    <3>1. \A k \in 1 .. n : k + 1 \in i + 1 .. n + 1
      BY <2>2
    <3> QED BY <1>1, <1>2, <2>1, <2>2, <3>1
  <2>3. CASE i # 1
    <3>1. PICK k \in 1 .. n : k + 1 = i
      <4>1. i - 1 \in 1 .. n /\ i - 1 + 1 = i
        BY <2>3
      <4> QED BY <4>1
    <3>2. Writes(v, k, l) /\ map[l] = v[k].phys
      BY <1>1, <2>1, <3>1
    <3>3. \A j \in k + 1 .. n : j \in 1 .. n /\ j + 1 \in i + 1 .. n + 1
      BY <3>1
    <3>4. \A j \in k + 1 .. n : ~Writes(v, j, l)
      BY <1>1, <2>1, <3>3
    <3> QED BY <3>2, <3>4
  <2> QED BY <2>2, <2>3
<1> QED BY <1>3, <1>4 DEF Follows

\* What Follows says determines the map, so it is the one of RenamerSpec.
LEMMA FollowsIsMapAfter ==
  ASSUME TypeOK, NEW map \in [LogRegs -> PhysRegs], NEW n \in 0 .. Len(window),
         Follows(map, amt, window, n)
  PROVE  map = Abstract!MapAfter(n)
<1> DEFINE Wr(l) == {i \in Abstract!WritersUpTo(n) : Renamed[i].log = l}
           After(l) == IF Wr(l) = {} THEN amt[l]
                       ELSE Renamed[CHOOSE i \in Wr(l) : \A j \in Wr(l) : j <= i].phys
<1>1. Len(window) \in Nat
  BY LenProperties DEF TypeOK
<1>2. \A l, i : i \in Wr(l) <=> i \in 1 .. n /\ Writes(window, i, l)
  BY <1>1 DEF Abstract!WritersUpTo, Renamed, Writes
<1>3. \A i \in 1 .. n : Renamed[i].phys = window[i].phys
  BY <1>1 DEF Renamed
<1>4. Abstract!MapAfter(n) = [l \in LogRegs |-> After(l)]
  BY DEF Abstract!MapAfter
<1>5. ASSUME NEW l \in LogRegs
      PROVE  map[l] = After(l)
  <2> HIDE DEF Wr
  <2>1. CASE map[l] = amt[l] /\ \A i \in 1 .. n : ~Writes(window, i, l)
    <3>1. Wr(l) = {}
      BY <1>2, <2>1
    <3> QED BY <2>1, <3>1
  <2>2. CASE \E i \in 1 .. n : /\ Writes(window, i, l) /\ map[l] = window[i].phys
                               /\ \A j \in i + 1 .. n : ~Writes(window, j, l)
    <3>1. PICK i \in 1 .. n : /\ Writes(window, i, l) /\ map[l] = window[i].phys
                              /\ \A j \in i + 1 .. n : ~Writes(window, j, l)
      BY <2>2
    <3>2. i \in Wr(l) /\ \A j \in Wr(l) : j <= i
      <4>1. i \in Wr(l)
        BY <1>2, <3>1
      <4>2. ASSUME NEW j \in Wr(l), ~(j <= i)
            PROVE  FALSE
        <5>1. j \in 1 .. n /\ Writes(window, j, l)
          BY <1>2
        <5>2. j \in i + 1 .. n
          BY <4>2, <5>1
        <5> QED BY <3>1, <5>1, <5>2
      <4> QED BY <4>1, <4>2
    <3>3. \A k \in Wr(l) : (\A j \in Wr(l) : j <= k) => k = i
      <4>1. \A k \in Wr(l) : k \in 1 .. n
        BY <1>2
      <4>2. \A k \in Wr(l) : k <= i
        BY <3>2
      <4>3. ASSUME NEW k \in Wr(l), \A j \in Wr(l) : j <= k
            PROVE  k = i
        <5>1. i <= k /\ k <= i
          BY <3>2, <4>3
        <5> QED BY <5>1, <4>1
      <4> QED BY <4>3
    <3>4. (CHOOSE k \in Wr(l) : \A j \in Wr(l) : j <= k) = i
      BY <3>2, <3>3
    <3>5. Wr(l) # {}
      BY <3>2
    <3> QED BY <1>3, <3>1, <3>4, <3>5
  <2> QED BY <2>1, <2>2 DEF Follows
<1>6. map = [l \in LogRegs |-> map[l]]
  OBVIOUS
<1> HIDE DEF After
<1> QED BY <1>4, <1>5, <1>6

LEMMA UnresolvedSame ==
  ASSUME NEW v, NEW w, NEW n,
         \A i \in 1 .. n : SameBranch(v[i], w[i])
  PROVE  UnresolvedIDs(v, n) = UnresolvedIDs(w, n)
  BY DEF UnresolvedIDs, SameBranch

LEMMA UnresolvedTail ==
  ASSUME NEW v, NEW w, NEW n \in Nat,
         \A i \in 1 .. n : SameBranch(v[i], w[i + 1]),
         w[1].stage = "completed"
  PROVE  UnresolvedIDs(v, n) = UnresolvedIDs(w, n + 1)
<1>1. ASSUME NEW id \in UnresolvedIDs(v, n)
      PROVE  id \in UnresolvedIDs(w, n + 1)
  <2>1. PICK i \in 1 .. n : v[i].checkpoint /\ v[i].stage # "completed"
                            /\ id = v[i].branch_ID
    BY DEF UnresolvedIDs
  <2>2. i + 1 \in 1 .. n + 1 /\ SameBranch(v[i], w[i + 1])
    OBVIOUS
  <2> QED BY <2>1, <2>2 DEF UnresolvedIDs, SameBranch
<1>2. ASSUME NEW id \in UnresolvedIDs(w, n + 1)
      PROVE  id \in UnresolvedIDs(v, n)
  <2>1. PICK i \in 1 .. n + 1 : w[i].checkpoint /\ w[i].stage # "completed"
                                /\ id = w[i].branch_ID
    BY DEF UnresolvedIDs
  <2>2. i - 1 \in 1 .. n /\ SameBranch(v[i - 1], w[i - 1 + 1]) /\ i - 1 + 1 = i
    BY <2>1
  <2> QED BY <2>1, <2>2 DEF UnresolvedIDs, SameBranch
<1> QED BY <1>1, <1>2

\* One more instruction adds its ID if it is checkpointed.
LEMMA UnresolvedNext ==
  ASSUME NEW w, NEW n \in Nat,
         w[n + 1].checkpoint => w[n + 1].branch_ID \in BranchIDs,
         w[n + 1].stage # "completed"
  PROVE  UnresolvedIDs(w, n + 1) =
           UnresolvedIDs(w, n) \cup
             (IF w[n + 1].checkpoint THEN {w[n + 1].branch_ID} ELSE {})
<1>1. 1 .. n + 1 = 1 .. n \cup {n + 1}
  OBVIOUS
<1> QED BY <1>1 DEF UnresolvedIDs

\* From w to v, branch i of m resolves.
ResolvesAt(v, w, m, i) ==
  /\ \A j \in 1 .. m : j # i => SameBranch(v[j], w[j])
  /\ v[i].stage = "completed"
  /\ w[i].checkpoint /\ w[i].stage # "completed"
  /\ \A j \in 1 .. m : /\ w[j].checkpoint /\ w[j].stage # "completed"
                       /\ w[j].branch_ID = w[i].branch_ID
                       => j = i

\* A branch that resolves takes its ID out of every mask.
LEMMA UnresolvedResolved ==
  ASSUME NEW v, NEW w, NEW m \in Nat, NEW i \in 1 .. m, NEW n \in 0 .. m,
         ResolvesAt(v, w, m, i)
  PROVE  UnresolvedIDs(v, n) = UnresolvedIDs(w, n) \ {w[i].branch_ID}
<1> USE DEF ResolvesAt
<1>1. ASSUME NEW id \in UnresolvedIDs(v, n)
      PROVE  id \in UnresolvedIDs(w, n) /\ id # w[i].branch_ID
  <2>1. PICK j \in 1 .. n : v[j].checkpoint /\ v[j].stage # "completed"
                            /\ id = v[j].branch_ID
    BY DEF UnresolvedIDs
  <2>2. j \in 1 .. m /\ j # i
    BY <2>1
  <2>3. w[j].checkpoint /\ w[j].stage # "completed" /\ id = w[j].branch_ID
    BY <2>1, <2>2 DEF SameBranch
  <2> QED BY <2>2, <2>3 DEF UnresolvedIDs
<1>2. ASSUME NEW id \in UnresolvedIDs(w, n), id # w[i].branch_ID
      PROVE  id \in UnresolvedIDs(v, n)
  <2>1. PICK j \in 1 .. n : w[j].checkpoint /\ w[j].stage # "completed"
                            /\ id = w[j].branch_ID
    BY DEF UnresolvedIDs
  <2>2. j \in 1 .. m /\ j # i
    BY <1>2, <2>1
  <2> QED BY <2>1, <2>2 DEF UnresolvedIDs, SameBranch
<1> QED BY <1>1, <1>2

-----------------------------------------------------------------------------
(* Steps that leave the registers of the instructions in flight alone *)

LEMMA RenamingKept ==
  ASSUME IInv,
         Len(window') = Len(window),
         \A i \in 1 .. Len(window) : /\ SameRegisters(window'[i], window[i])
                                     /\ window'[i].checkpoint = window[i].checkpoint
                                     /\ window'[i].branch_ID = window[i].branch_ID,
         \A i \in 1 .. Len(window) :
           window[i].stage = "completed" => window'[i].stage = "completed",
         \A b \in BranchIDs : /\ checkpoints'[b].smt = checkpoints[b].smt
                              /\ checkpoints'[b].fl_head = checkpoints[b].fl_head,
         UNCHANGED <<rmt, amt, fl_fifo, fl_head, fl_tail>>
  PROVE  /\ InstructionOK' /\ RegistersConserved' /\ FreeListQueue'
         /\ CheckpointsSplitFl' /\ MapsFollow'
<1>1. /\ Len(window) \in Nat
      /\ UnresolvedUpTo(Len(window))' \subseteq UnresolvedUpTo(Len(window))
  BY LenProperties DEF IInv, TypeOK, UnresolvedUpTo
<1>2. \A b \in UnresolvedUpTo(Len(window)) :
        b \in 1 .. Len(window) /\ window[b].branch_ID \in BranchIDs
  BY DEF IInv, InstructionOK, UnresolvedUpTo
<1>3. InstructionOK'
  BY DEF IInv, InstructionOK, SameRegisters
<1>4. RegistersConserved'
  BY DEF IInv, RegistersConserved
<1>5. /\ FlBase' = FlBase /\ Allocated' = Allocated
      /\ \A s : PositionInFl(s)' = PositionInFl(s)
  BY DEF FlBase, Allocated, PositionInFl
<1>6. \A i \in 1 .. Len(window), s \in FlSlots : Owns(i, s)' <=> Owns(i, s)
  BY <1>5 DEF Owns, SameRegisters
<1>7. FreeListQueue'
  <2>1. OwnersHaveSlots'
    BY <1>6 DEF IInv, FreeListQueue, OwnersHaveSlots, SameRegisters
  <2>2. SlotsInOrder'
    BY <1>5, <1>6 DEF IInv, FreeListQueue, SlotsInOrder
  <2>3. SlotsHaveOwners'
    BY <1>5, <1>6 DEF IInv, FreeListQueue, SlotsHaveOwners
  <2> QED BY <1>5, <2>1, <2>2, <2>3 DEF IInv, FreeListQueue
<1>8. CheckpointsSplitFl'
  <2>1. \A b \in UnresolvedUpTo(Len(window))' :
          b \in UnresolvedUpTo(Len(window)) /\ Kept(b)' = Kept(b)
    BY <1>1, <1>2, <1>5 DEF Kept
  <2> QED BY <1>5, <1>6, <2>1 DEF IInv, CheckpointsSplitFl
<1>9. MapsFollow'
  <2>1. Follows(rmt', amt', window', Len(window'))
    BY <1>1, FollowsSame DEF IInv, MapsFollow
  <2>2. ASSUME NEW b \in UnresolvedUpTo(Len(window))'
        PROVE  Follows(checkpoints[window[b].branch_ID].smt, amt, window, b)'
    <3>1. Follows(checkpoints[window[b].branch_ID].smt, amt, window, b)
      BY <1>1 DEF IInv, MapsFollow
    <3>2. /\ checkpoints'[window'[b].branch_ID].smt
               = checkpoints[window[b].branch_ID].smt
          /\ b \in Nat
          /\ \A i \in 1 .. b : SameRegisters(window'[i], window[i])
      BY <1>1, <1>2
    <3> QED BY <3>1, <3>2, FollowsSame
  <2> QED BY <2>1, <2>2 DEF MapsFollow
<1> QED BY <1>3, <1>4, <1>7, <1>8, <1>9

-----------------------------------------------------------------------------
(* The active list *)

\* A dispatched instruction completes; what is younger than n may go.
LEMMA MarkCompleted ==
  ASSUME IInv, NEW i \in 1 .. Len(window), NEW n \in i .. Len(window),
         window[i].stage = "dispatched",
         al_fifo' = [al_fifo EXCEPT ![window[i].AL_index].completed = TRUE],
         al_head' = al_head,
         InActiveList' = IF InActiveList <= n THEN InActiveList ELSE n,
         Len(window') = n,
         \A j \in 1 .. n :
           /\ SameRegisters(window'[j], window[j])
           /\ window'[j].AL_index = window[j].AL_index
           /\ window'[j].stage = IF j = i THEN "completed" ELSE window[j].stage
  PROVE  /\ ActiveListQueue'
         /\ al_fifo' \in [AlSlots -> ActiveListEntry]
<1> DEFINE slot  == window[i].AL_index
           entry == [al_fifo[slot] EXCEPT !.completed = TRUE]
<1>1. /\ Len(window) \in Nat /\ InActiveList \in 0 .. NActive
      /\ InActiveList <= Len(window) /\ i <= InActiveList /\ slot \in AlSlots
      /\ NActive \in Nat
  BY Shape, Sizes DEF IInv, ActiveListQueue
<1>2. al_fifo \in [AlSlots -> ActiveListEntry] /\ al_fifo[slot] \in ActiveListEntry
  BY <1>1 DEF IInv, TypeOK
<1>3. /\ entry \in ActiveListEntry /\ entry.completed = TRUE
      /\ entry.dest = al_fifo[slot].dest /\ entry.log = al_fifo[slot].log
      /\ entry.phys = al_fifo[slot].phys
  BY <1>2, Zenon DEF ActiveListEntry
<1>4. al_fifo' = [al_fifo EXCEPT ![slot] = entry]
  OBVIOUS
<1> HIDE DEF entry
<1>5. /\ al_fifo' \in [AlSlots -> ActiveListEntry]
      /\ \A s \in AlSlots : al_fifo'[s] = IF s = slot THEN entry ELSE al_fifo[s]
  BY <1>1, <1>2, <1>3, <1>4
<1>6. InActiveList' \in 0 .. NActive /\ InActiveList' <= Len(window')
  BY <1>1
<1>7. \A j \in 1 .. Len(window') : window'[j].stage # "renamed" <=> j <= InActiveList'
  <2>1. \A j \in 1 .. n : window'[j].stage # "renamed" <=> window[j].stage # "renamed"
    OBVIOUS
  <2> QED BY <1>1, <2>1 DEF IInv, ActiveListQueue
<1>8. ASSUME NEW j \in 1 .. InActiveList'
      PROVE  /\ window'[j].AL_index \in AlSlots
             /\ Offset(al_head', window'[j].AL_index, NActive) = j - 1
             /\ al_fifo'[window'[j].AL_index].dest = window'[j].dest
             /\ window'[j].dest =>
                  /\ al_fifo'[window'[j].AL_index].log = window'[j].log
                  /\ al_fifo'[window'[j].AL_index].phys = window'[j].phys
             /\ al_fifo'[window'[j].AL_index].completed
                  <=> window'[j].stage = "completed"
  <2>1. j \in 1 .. InActiveList /\ j \in 1 .. n /\ i \in 1 .. InActiveList
    BY <1>1
  <2>2. /\ window[j].AL_index \in AlSlots
        /\ Offset(al_head, window[j].AL_index, NActive) = j - 1
        /\ Offset(al_head, slot, NActive) = i - 1
    BY <2>1 DEF IInv, ActiveListQueue
  <2>3. window[j].AL_index = slot => j = i
    BY <2>2
  <2>4. /\ al_fifo'[window[j].AL_index].dest = al_fifo[window[j].AL_index].dest
        /\ al_fifo'[window[j].AL_index].log = al_fifo[window[j].AL_index].log
        /\ al_fifo'[window[j].AL_index].phys = al_fifo[window[j].AL_index].phys
        /\ al_fifo'[window[j].AL_index].completed
             <=> j = i \/ al_fifo[window[j].AL_index].completed
    BY <1>3, <1>5, <2>2, <2>3
  <2>5. /\ window'[j].AL_index = window[j].AL_index
        /\ window'[j].dest = window[j].dest /\ window'[j].log = window[j].log
        /\ window'[j].phys = window[j].phys
        /\ window'[j].stage = IF j = i THEN "completed" ELSE window[j].stage
    BY <2>1 DEF SameRegisters
  <2>6. /\ al_fifo[window[j].AL_index].dest = window[j].dest
        /\ window[j].dest => /\ al_fifo[window[j].AL_index].log = window[j].log
                             /\ al_fifo[window[j].AL_index].phys = window[j].phys
        /\ al_fifo[window[j].AL_index].completed <=> window[j].stage = "completed"
    BY <2>1 DEF IInv, ActiveListQueue
  <2>7. CASE j = i
    BY <2>2, <2>4, <2>5, <2>6, <2>7
  <2>8. CASE j # i
    BY <2>2, <2>4, <2>5, <2>6, <2>8
  <2> QED BY <2>7, <2>8
<1> QED BY <1>5, <1>6, <1>7, <1>8 DEF ActiveListQueue

-----------------------------------------------------------------------------
(* Dispatch and completion *)

LEMMA MasksKept ==
  ASSUME IInv, Len(window') = Len(window),
         \A i \in 1 .. Len(window) :
           /\ SameBranch(window'[i], window[i])
           /\ window'[i].branch_mask = window[i].branch_mask
           /\ window[i].stage = "completed" => window'[i].stage = "completed",
         UNCHANGED <<GBM, checkpoints>>
  PROVE  BranchMasks'
<1>1. Len(window) \in Nat
  BY Shape DEF IInv
<1>2. \A n \in 0 .. Len(window) : UnresolvedIDs(window', n) = UnresolvedIDs(window, n)
  BY <1>1, UnresolvedSame
<1>3. UnresolvedUpTo(Len(window))' = UnresolvedUpTo(Len(window))
  BY DEF UnresolvedUpTo, SameBranch
<1>4. \A i \in UnresolvedUpTo(Len(window)) :
        i \in 1 .. Len(window) /\ window'[i].branch_ID = window[i].branch_ID
  BY DEF UnresolvedUpTo, SameBranch
<1>5. \A i \in 1 .. Len(window) :
        UnresolvedIDs(window', i - 1) = UnresolvedIDs(window, i - 1)
  <2>1. \A i \in 1 .. Len(window) : i - 1 \in 0 .. Len(window)
    BY <1>1
  <2> QED BY <1>2, <2>1
<1>6. GBM' = UnresolvedIDs(window', Len(window'))
  BY <1>1, <1>2 DEF IInv, BranchMasks
<1>7. \A i, j \in UnresolvedUpTo(Len(window))' :
        window'[i].branch_ID = window'[j].branch_ID => i = j
  BY <1>3, <1>4 DEF IInv, BranchMasks
<1>8. \A i \in UnresolvedUpTo(Len(window))' :
        checkpoints'[window'[i].branch_ID].GBM = UnresolvedIDs(window', i - 1)
  BY <1>3, <1>4, <1>5 DEF IInv, BranchMasks
<1>9. \A i \in 1 .. Len(window') : window'[i].stage # "completed" =>
        window'[i].branch_mask = UnresolvedIDs(window', i - 1)
  BY <1>5 DEF IInv, BranchMasks
<1> QED BY <1>6, <1>7, <1>8, <1>9 DEF BranchMasks

LEMMA CompleteStep ==
  ASSUME IInv, NEW i \in 1 .. Len(window), Complete(i)
  PROVE  IInv'
<1> DEFINE entry == [window[i] EXCEPT !.stage = "completed"]
<1>1. /\ window \in Seq(Instruction) /\ window[i] \in Instruction
      /\ Len(window) \in Nat /\ ~window[i].checkpoint
  BY Shape DEF IInv, Complete
<1>2. entry \in Instruction
  BY <1>1, Zenon DEF Instruction, Stages
<1>3. /\ window' = [window EXCEPT ![i] = entry]
      /\ UNCHANGED <<rmt, amt, fl_fifo, fl_head, fl_tail, al_head, al_tail,
                     GBM, checkpoints>>
  BY DEF Complete
<1>4. /\ SameRegisters(entry, window[i]) /\ SameBranch(entry, window[i])
      /\ entry.AL_index = window[i].AL_index
      /\ entry.branch_mask = window[i].branch_mask /\ entry.stage = "completed"
  BY <1>1 DEF Instruction, SameRegisters, SameBranch
<1> HIDE DEF entry
<1>5. /\ window' \in Seq(Instruction) /\ Len(window') = Len(window)
      /\ \A j \in 1 .. Len(window) : window'[j] = IF j = i THEN entry ELSE window[j]
  BY <1>1, <1>2, <1>3, ExceptSeq
<1>6. \A j \in 1 .. Len(window) :
        /\ SameRegisters(window'[j], window[j]) /\ SameBranch(window'[j], window[j])
        /\ window'[j].AL_index = window[j].AL_index
        /\ window'[j].branch_mask = window[j].branch_mask
        /\ window'[j].stage = IF j = i THEN "completed" ELSE window[j].stage
  BY <1>4, <1>5 DEF SameRegisters, SameBranch
<1>7. BranchMasks'
  BY <1>3, <1>5, <1>6, MasksKept
<1>8. /\ InstructionOK' /\ RegistersConserved' /\ FreeListQueue'
      /\ CheckpointsSplitFl' /\ MapsFollow'
  <2>1. \A j \in 1 .. Len(window) :
          /\ window'[j].checkpoint = window[j].checkpoint
          /\ window'[j].branch_ID = window[j].branch_ID
    BY <1>6 DEF SameBranch
  <2> QED BY <1>3, <1>5, <1>6, <2>1, RenamingKept
<1>9. ActiveListQueue' /\ al_fifo' \in [AlSlots -> ActiveListEntry]
  <2>1. InActiveList' = InActiveList /\ InActiveList <= Len(window)
    BY <1>3 DEF IInv, InActiveList, ActiveListQueue
  <2>2. Len(window) \in i .. Len(window)
    BY <1>1
  <2> QED BY <1>1, <1>3, <1>5, <1>6, <2>1, <2>2, MarkCompleted DEF Complete
<1>10. TypeOK'
  BY <1>3, <1>5, <1>9 DEF IInv, TypeOK
<1> QED BY <1>7, <1>8, <1>9, <1>10 DEF IInv

LEMMA DispatchStep ==
  ASSUME IInv, NEW i \in 1 .. Len(window), Dispatch(i)
  PROVE  IInv'
<1> DEFINE entry == [window[i] EXCEPT !.AL_index = al_tail.ptr,
                                      !.stage = "dispatched"]
           slot  == al_tail.ptr
           filled == [dest |-> window[i].dest,
                      log  |-> IF window[i].dest THEN window[i].log
                                                 ELSE al_fifo[slot].log,
                      phys |-> IF window[i].dest THEN window[i].phys
                                                 ELSE al_fifo[slot].phys,
                      completed |-> FALSE]
<1>1. /\ window \in Seq(Instruction) /\ window[i] \in Instruction
      /\ Len(window) \in Nat /\ NActive \in Nat \ {0}
      /\ al_head \in Cursor(NActive) /\ al_tail \in Cursor(NActive)
      /\ slot \in AlSlots /\ al_fifo \in [AlSlots -> ActiveListEntry]
  BY Shape, Sizes DEF IInv, TypeOK, Cursor, AlSlots
<1>2. /\ entry \in Instruction /\ filled \in ActiveListEntry
  <2>1. al_fifo[slot] \in ActiveListEntry
    BY <1>1
  <2> QED BY <1>1, <2>1 DEF Instruction, Stages, ActiveListEntry
<1>3. /\ window' = [window EXCEPT ![i] = entry]
      /\ al_fifo' = [al_fifo EXCEPT ![slot] = filled]
      /\ al_tail' = Advance(al_tail, NActive)
      /\ UNCHANGED <<rmt, amt, fl_fifo, fl_head, fl_tail, al_head, GBM, checkpoints>>
      /\ window[i].stage = "renamed"
      /\ \A j \in 1 .. i - 1 : window[j].stage # "renamed"
      /\ FreeEntries(al_head, al_tail, NActive) >= 1
  BY <1>1 DEF Dispatch, AlSlots
<1>4. /\ SameRegisters(entry, window[i]) /\ SameBranch(entry, window[i])
      /\ entry.AL_index = slot
      /\ entry.branch_mask = window[i].branch_mask /\ entry.stage = "dispatched"
  BY <1>1, <1>3 DEF Instruction, SameRegisters, SameBranch
<1>5. /\ filled.dest = window[i].dest /\ filled.completed = FALSE
      /\ window[i].dest => filled.log = window[i].log /\ filled.phys = window[i].phys
  OBVIOUS
<1> HIDE DEF entry, filled
<1>6. /\ window' \in Seq(Instruction) /\ Len(window') = Len(window)
      /\ \A j \in 1 .. Len(window) : window'[j] = IF j = i THEN entry ELSE window[j]
  BY <1>1, <1>2, <1>3, ExceptSeq
<1>7. /\ al_fifo' \in [AlSlots -> ActiveListEntry]
      /\ \A s \in AlSlots : al_fifo'[s] = IF s = slot THEN filled ELSE al_fifo[s]
  BY <1>1, <1>2, <1>3
<1>8. \A j \in 1 .. Len(window) :
        /\ SameRegisters(window'[j], window[j]) /\ SameBranch(window'[j], window[j])
        /\ window'[j].AL_index = IF j = i THEN slot ELSE window[j].AL_index
        /\ window'[j].branch_mask = window[j].branch_mask
        /\ window'[j].stage = IF j = i THEN "dispatched" ELSE window[j].stage
  BY <1>4, <1>6 DEF SameRegisters, SameBranch
<1>9. BranchMasks'
  BY <1>3, <1>6, <1>8, MasksKept
<1>10. /\ InstructionOK' /\ RegistersConserved' /\ FreeListQueue'
       /\ CheckpointsSplitFl' /\ MapsFollow'
  <2>1. \A j \in 1 .. Len(window) :
          /\ window'[j].checkpoint = window[j].checkpoint
          /\ window'[j].branch_ID = window[j].branch_ID
          /\ window[j].stage = "completed" => window'[j].stage = "completed"
    BY <1>3, <1>8 DEF SameBranch
  <2> QED BY <1>3, <1>6, <1>8, <2>1, RenamingKept
<1>11. ActiveListQueue'
  <2>1. /\ InActiveList \in 0 .. NActive - 1 /\ i = InActiveList + 1
        /\ Offset(al_head, slot, NActive) = i - 1
    <3>1. InActiveList \in 0 .. NActive - 1
      BY <1>1, <1>3, FreeEntriesComplement DEF IInv, ActiveListQueue, InActiveList
    <3>2. i > InActiveList
      BY <1>3 DEF IInv, ActiveListQueue
    <3>3. ~(InActiveList + 1 < i)
      <4>1. InActiveList + 1 < i => InActiveList + 1 \in 1 .. i - 1
                                    /\ InActiveList + 1 \in 1 .. Len(window)
        BY <1>1, <3>1
      <4> QED BY <1>3, <3>1, <4>1 DEF IInv, ActiveListQueue
    <3> QED BY <1>1, <3>1, <3>2, <3>3, TailOffset DEF InActiveList
  <2>2. InActiveList' = InActiveList + 1
    BY <1>1, <1>3, <2>1, PushOccupancy DEF InActiveList
  <2>3. InActiveList' \in 0 .. NActive /\ InActiveList' <= Len(window')
    BY <1>1, <1>6, <2>1, <2>2
  <2>4. \A j \in 1 .. Len(window') : window'[j].stage # "renamed" <=> j <= InActiveList'
    <3>1. \A j \in 1 .. Len(window) : window[j].stage # "renamed" <=> j <= InActiveList
      BY DEF IInv, ActiveListQueue
    <3>2. window'[i].stage # "renamed" /\ i <= InActiveList'
      BY <1>8, <2>1, <2>2
    <3>3. ASSUME NEW j \in 1 .. Len(window), j # i
          PROVE  window'[j].stage # "renamed" <=> j <= InActiveList'
      <4>1. window'[j].stage = window[j].stage
        BY <1>8, <3>3
      <4>2. j <= InActiveList <=> j <= InActiveList'
        BY <2>1, <2>2, <3>3
      <4> QED BY <3>1, <4>1, <4>2
    <3> QED BY <1>6, <3>2, <3>3
  <2>5. ASSUME NEW j \in 1 .. InActiveList'
        PROVE  /\ window'[j].AL_index \in AlSlots
               /\ Offset(al_head', window'[j].AL_index, NActive) = j - 1
               /\ al_fifo'[window'[j].AL_index].dest = window'[j].dest
               /\ window'[j].dest =>
                    /\ al_fifo'[window'[j].AL_index].log = window'[j].log
                    /\ al_fifo'[window'[j].AL_index].phys = window'[j].phys
               /\ al_fifo'[window'[j].AL_index].completed
                    <=> window'[j].stage = "completed"
    <3>1. CASE j = i
      BY <1>1, <1>3, <1>5, <1>7, <1>8, <2>1, <3>1 DEF SameRegisters
    <3>2. CASE j # i
      <4>1. j \in 1 .. InActiveList /\ j \in 1 .. Len(window)
        BY <1>1, <2>1, <2>2, <3>2
      <4>2. /\ window[j].AL_index \in AlSlots
            /\ Offset(al_head, window[j].AL_index, NActive) = j - 1
            /\ al_fifo[window[j].AL_index].dest = window[j].dest
            /\ window[j].dest => /\ al_fifo[window[j].AL_index].log = window[j].log
                                 /\ al_fifo[window[j].AL_index].phys = window[j].phys
            /\ al_fifo[window[j].AL_index].completed <=> window[j].stage = "completed"
        BY <4>1 DEF IInv, ActiveListQueue
      <4>3. window[j].AL_index # slot
        BY <2>1, <3>2, <4>1, <4>2
      <4>4. al_fifo'[window[j].AL_index] = al_fifo[window[j].AL_index]
        BY <1>7, <4>2, <4>3
      <4> QED BY <1>3, <1>8, <3>2, <4>1, <4>2, <4>4 DEF SameRegisters
    <3> QED BY <3>1, <3>2
  <2> QED BY <2>3, <2>4, <2>5 DEF ActiveListQueue
<1>12. TypeOK'
  BY <1>1, <1>3, <1>6, <1>7, AdvanceType DEF IInv, TypeOK
<1> QED BY <1>9, <1>10, <1>11, <1>12 DEF IInv

-----------------------------------------------------------------------------
(* Resolution of branches *)

\* Unresolved branches have different IDs.
LEMMA OwnID ==
  ASSUME IInv, NEW i \in 1 .. Len(window),
         window[i].checkpoint, window[i].stage # "completed"
  PROVE  /\ i \in UnresolvedUpTo(Len(window))
         /\ window[i].branch_ID \in BranchIDs
         /\ \A j \in 1 .. Len(window) :
              /\ window[j].checkpoint /\ window[j].stage # "completed"
              /\ window[j].branch_ID = window[i].branch_ID
              => j = i
<1>1. i \in UnresolvedUpTo(Len(window))
  BY DEF UnresolvedUpTo
<1>2. \A j \in 1 .. Len(window) :
        window[j].checkpoint /\ window[j].stage # "completed"
        => j \in UnresolvedUpTo(Len(window))
  BY DEF UnresolvedUpTo
<1>3. window[i].branch_ID \in BranchIDs
  BY DEF IInv, InstructionOK
<1> QED BY <1>1, <1>2, <1>3 DEF IInv, BranchMasks

LEMMA ResolveCorrectStep ==
  ASSUME IInv, NEW i \in 1 .. Len(window), ResolveCorrect(i)
  PROVE  IInv'
<1> DEFINE id == window[i].branch_ID
           entry(j) == [window[j] EXCEPT !.branch_mask = @ \ {id},
                                         !.stage = IF j = i THEN "completed" ELSE @]
<1>1. /\ window \in Seq(Instruction) /\ Len(window) \in Nat
      /\ \A j \in 1 .. Len(window) : window[j] \in Instruction
      /\ window[i].checkpoint /\ window[i].stage = "dispatched"
      /\ id \in BranchIDs
      /\ checkpoints \in [BranchIDs -> Checkpoint]
  BY Shape DEF IInv, TypeOK, InstructionOK, ResolveCorrect
<1>2. ASSUME NEW j \in 1 .. Len(window)
      PROVE  /\ entry(j) \in Instruction
             /\ SameRegisters(entry(j), window[j])
             /\ entry(j).checkpoint = window[j].checkpoint
             /\ entry(j).branch_ID = window[j].branch_ID
             /\ entry(j).AL_index = window[j].AL_index
             /\ entry(j).branch_mask = window[j].branch_mask \ {id}
             /\ entry(j).stage = IF j = i THEN "completed" ELSE window[j].stage
  <2> DEFINE stage == IF j = i THEN "completed" ELSE window[j].stage
             mask == window[j].branch_mask \ {id}
  <2>1. window[j] \in Instruction
    BY <1>1
  <2>2. stage \in Stages /\ mask \in SUBSET BranchIDs
    BY <2>1 DEF Instruction, Stages
  <2>3. entry(j) = [window[j] EXCEPT !.branch_mask = mask, !.stage = stage]
    BY <2>1
  <2> HIDE DEF stage, mask, entry
  <2>4. /\ entry(j) \in Instruction
        /\ SameRegisters(entry(j), window[j])
        /\ entry(j).checkpoint = window[j].checkpoint
        /\ entry(j).branch_ID = window[j].branch_ID
        /\ entry(j).AL_index = window[j].AL_index
        /\ entry(j).branch_mask = mask
        /\ entry(j).stage = stage
    BY <2>1, <2>2, <2>3 DEF Instruction, SameRegisters
  <2> QED BY <2>4 DEF stage, mask
<1>3. /\ window' = [j \in 1 .. Len(window) |-> entry(j)]
      /\ GBM' = GBM \ {id}
      /\ checkpoints' = [b \in BranchIDs |-> [checkpoints[b] EXCEPT !.GBM = @ \ {id}]]
      /\ al_fifo' = [al_fifo EXCEPT ![window[i].AL_index].completed = TRUE]
      /\ UNCHANGED <<rmt, amt, fl_fifo, fl_head, fl_tail, al_head, al_tail>>
  BY DEF ResolveCorrect, CleanedCheckpoints
<1> HIDE DEF entry
<1>4. /\ window' \in Seq(Instruction) /\ Len(window') = Len(window)
      /\ \A j \in 1 .. Len(window) : window'[j] = entry(j)
  <2>1. window' \in [1 .. Len(window) -> Instruction]
    BY <1>2, <1>3
  <2>2. window' \in Seq(Instruction)
    BY <1>1, <2>1, SeqDef
  <2>3. DOMAIN window' = 1 .. Len(window') /\ Len(window') \in Nat
    BY <2>2, LenProperties
  <2>4. DOMAIN window' = 1 .. Len(window)
    BY <1>3
  <2>5. Len(window') = Len(window)
    BY <1>1, <2>3, <2>4
  <2> QED BY <1>3, <2>2, <2>5
<1>5. ASSUME NEW b \in BranchIDs
      PROVE  /\ checkpoints'[b] \in Checkpoint
             /\ checkpoints'[b].smt = checkpoints[b].smt
             /\ checkpoints'[b].fl_head = checkpoints[b].fl_head
             /\ checkpoints'[b].GBM = checkpoints[b].GBM \ {id}
  <2>1. checkpoints[b] \in Checkpoint
    BY <1>1
  <2>2. checkpoints'[b] = [checkpoints[b] EXCEPT !.GBM = @ \ {id}]
    BY <1>3
  <2> QED BY <2>1, <2>2 DEF Checkpoint
<1>6. checkpoints' \in [BranchIDs -> Checkpoint]
  BY <1>3, <1>5
<1>7. \A j \in 1 .. Len(window) :
        /\ SameRegisters(window'[j], window[j])
        /\ window'[j].checkpoint = window[j].checkpoint
        /\ window'[j].branch_ID = window[j].branch_ID
        /\ window'[j].AL_index = window[j].AL_index
        /\ window'[j].branch_mask = window[j].branch_mask \ {id}
        /\ window'[j].stage = IF j = i THEN "completed" ELSE window[j].stage
  BY <1>2, <1>4
<1>8. /\ InstructionOK' /\ RegistersConserved' /\ FreeListQueue'
      /\ CheckpointsSplitFl' /\ MapsFollow'
  BY <1>3, <1>4, <1>5, <1>7, RenamingKept
<1>9. ActiveListQueue' /\ al_fifo' \in [AlSlots -> ActiveListEntry]
  <2>1. InActiveList' = InActiveList /\ InActiveList <= Len(window)
    BY <1>3 DEF IInv, InActiveList, ActiveListQueue
  <2>2. Len(window) \in i .. Len(window)
    BY <1>1
  <2> QED BY <1>1, <1>3, <1>4, <1>7, <2>1, <2>2, MarkCompleted
<1>10. BranchMasks'
  <2>1. \A n \in 0 .. Len(window) :
          UnresolvedIDs(window', n) = UnresolvedIDs(window, n) \ {id}
    <3>1. \A j \in 1 .. Len(window) : j # i => SameBranch(window'[j], window[j])
      BY <1>7 DEF SameBranch
    <3>2. window'[i].stage = "completed" /\ window[i].stage # "completed"
      BY <1>1, <1>7
    <3>3. ResolvesAt(window', window, Len(window), i)
      BY <1>1, <3>1, <3>2, OwnID DEF ResolvesAt
    <3> QED BY <1>1, <3>3, UnresolvedResolved
  <2>2. \A j \in UnresolvedUpTo(Len(window))' :
          /\ j \in UnresolvedUpTo(Len(window)) /\ j \in 1 .. Len(window)
          /\ window'[j].branch_ID = window[j].branch_ID
          /\ window[j].branch_ID \in BranchIDs
    BY <1>4, <1>7 DEF IInv, InstructionOK, UnresolvedUpTo
  <2>3. \A j \in 1 .. Len(window) :
          UnresolvedIDs(window', j - 1) = UnresolvedIDs(window, j - 1) \ {id}
    <3>1. \A j \in 1 .. Len(window) : j - 1 \in 0 .. Len(window)
      BY <1>1
    <3> QED BY <2>1, <3>1
  <2>4. GBM' = UnresolvedIDs(window', Len(window'))
    BY <1>1, <1>3, <1>4, <2>1 DEF IInv, BranchMasks
  <2>5. \A j, k \in UnresolvedUpTo(Len(window))' :
          window'[j].branch_ID = window'[k].branch_ID => j = k
    BY <2>2 DEF IInv, BranchMasks
  <2>6. \A j \in UnresolvedUpTo(Len(window))' :
          checkpoints'[window'[j].branch_ID].GBM = UnresolvedIDs(window', j - 1)
    <3>1. \A j \in UnresolvedUpTo(Len(window)) :
            checkpoints[window[j].branch_ID].GBM = UnresolvedIDs(window, j - 1)
      BY DEF IInv, BranchMasks
    <3> QED BY <1>5, <2>2, <2>3, <3>1, ZenonT(30)
  <2>7. \A j \in 1 .. Len(window') : window'[j].stage # "completed" =>
          window'[j].branch_mask = UnresolvedIDs(window', j - 1)
    <3>1. \A j \in 1 .. Len(window) :
            window'[j].stage # "completed" => window[j].stage # "completed"
      BY <1>7
    <3>2. \A j \in 1 .. Len(window) : window[j].stage # "completed" =>
            window[j].branch_mask = UnresolvedIDs(window, j - 1)
      BY DEF IInv, BranchMasks
    <3> QED BY <1>4, <1>7, <2>3, <3>1, <3>2, ZenonT(30)
  <2> QED BY <2>4, <2>5, <2>6, <2>7 DEF BranchMasks
<1>11. TypeOK'
  BY <1>3, <1>4, <1>6, <1>9 DEF IInv, TypeOK
<1> QED BY <1>8, <1>9, <1>10, <1>11 DEF IInv

\* The inferred phase bit is the right one: the restored tail delimits the
\* entries up to the one at index (renamer.cc:396-418).
LEMMA AlTailAfterOccupancy ==
  ASSUME al_head \in Cursor(NActive), NEW index \in AlSlots
  PROVE  /\ AlTailAfter(index) \in Cursor(NActive)
         /\ Occupancy(al_head, AlTailAfter(index), NActive)
              = Offset(al_head, index, NActive) + 1
<1>1. NActive \in Nat \ {0}
  BY Sizes
<1> DEFINE tail == AlTailAfter(index)
<1>2. CASE index + 1 = NActive
  <2>1. tail = [ptr |-> 0, phase |-> ~al_head.phase]
    BY <1>1, <1>2 DEF Cursor, AlTailAfter
  <2> QED BY <1>1, <1>2, <2>1 DEF Cursor, AlSlots, Occupancy, Offset
<1>3. CASE index + 1 # NActive /\ al_head.ptr < index + 1
  <2>1. tail = [ptr |-> index + 1, phase |-> al_head.phase]
    BY <1>3 DEF AlTailAfter
  <2> QED BY <1>1, <1>3, <2>1 DEF Cursor, AlSlots, Occupancy, Offset
<1>4. CASE index + 1 # NActive /\ ~(al_head.ptr < index + 1)
  <2>1. tail = [ptr |-> index + 1, phase |-> ~al_head.phase]
    BY <1>4 DEF AlTailAfter
  <2> QED BY <1>1, <1>4, <2>1 DEF Cursor, AlSlots, Occupancy, Offset
<1> QED BY <1>2, <1>3, <1>4

LEMMA ResolveMispredictedStep ==
  ASSUME IInv, NEW i \in 1 .. Len(window), ResolveMispredicted(i)
  PROVE  IInv'
<1> DEFINE saved == checkpoints[window[i].branch_ID]
           kept  == SubSeq(window, 1, i)
           entry == [window[i] EXCEPT !.stage = "completed"]
<1>1. /\ window \in Seq(Instruction) /\ Len(window) \in Nat /\ i \in Nat
      /\ \A j \in 1 .. Len(window) : window[j] \in Instruction
      /\ \A j \in 1 .. i : j \in 1 .. Len(window)
      /\ window[i].checkpoint /\ window[i].stage = "dispatched"
      /\ window[i].branch_ID \in BranchIDs
      /\ i \in UnresolvedUpTo(Len(window))
      /\ saved \in Checkpoint
  BY Shape DEF IInv, TypeOK, InstructionOK, ResolveMispredicted, UnresolvedUpTo
<1>2. /\ entry \in Instruction
      /\ SameRegisters(entry, window[i])
      /\ entry.checkpoint = window[i].checkpoint
      /\ entry.branch_ID = window[i].branch_ID
      /\ entry.AL_index = window[i].AL_index
      /\ entry.branch_mask = window[i].branch_mask
      /\ entry.stage = "completed"
  <2>1. window[i] \in Instruction
    BY <1>1
  <2> QED BY <2>1 DEF Instruction, Stages, SameRegisters
<1>3. /\ kept \in Seq(Instruction) /\ Len(kept) = i
      /\ \A j \in 1 .. i : kept[j] = window[j]
  <2>1. \A j \in 1 .. i : window[j] \in Instruction
    BY <1>1
  <2>2. \A j \in 1 .. i - 1 + 1 : kept[j] = window[1 + j - 1]
    BY <1>1, <2>1, SubSeqProperties
  <2> QED BY <1>1, <2>1, <2>2, SubSeqProperties
<1>4. /\ window' = [kept EXCEPT ![i] = entry]
      /\ GBM' = saved.GBM /\ rmt' = saved.smt /\ fl_head' = saved.fl_head
      /\ al_tail' = AlTailAfter(window[i].AL_index)
      /\ al_fifo' = [al_fifo EXCEPT ![window[i].AL_index].completed = TRUE]
      /\ UNCHANGED <<amt, fl_fifo, fl_tail, al_head, checkpoints>>
  <2>1. i \in DOMAIN kept /\ kept[i] = window[i]
    BY <1>1, <1>3, LenProperties
  <2> QED BY <2>1 DEF ResolveMispredicted
<1> HIDE DEF entry, kept
<1>5. /\ window' \in Seq(Instruction) /\ Len(window') = i
      /\ \A j \in 1 .. i : window'[j] = IF j = i THEN entry ELSE window[j]
  <2>1. i \in 1 .. Len(kept)
    BY <1>1, <1>3
  <2> QED BY <1>2, <1>3, <1>4, <2>1, ExceptSeq
<1>6. \A j \in 1 .. i :
        /\ SameRegisters(window'[j], window[j])
        /\ window'[j].checkpoint = window[j].checkpoint
        /\ window'[j].branch_ID = window[j].branch_ID
        /\ window'[j].AL_index = window[j].AL_index
        /\ window'[j].branch_mask = window[j].branch_mask
        /\ window'[j].stage = IF j = i THEN "completed" ELSE window[j].stage
  BY <1>2, <1>5 DEF SameRegisters
<1>7. ASSUME NEW b \in UnresolvedUpTo(Len(window))'
      PROVE  /\ b \in UnresolvedUpTo(Len(window)) /\ b \in 1 .. i /\ b < i
             /\ b \in 1 .. Len(window)
             /\ window'[b].branch_ID = window[b].branch_ID
  BY <1>1, <1>5, <1>6 DEF UnresolvedUpTo
<1>8. InstructionOK'
  BY <1>1, <1>5, <1>6 DEF IInv, InstructionOK, SameRegisters
<1>9. ActiveListQueue' /\ al_tail' \in Cursor(NActive)
      /\ al_fifo' \in [AlSlots -> ActiveListEntry]
  <2>1. /\ al_head \in Cursor(NActive) /\ NActive \in Nat
        /\ i <= InActiveList /\ InActiveList \in 0 .. NActive
    BY <1>1, Shape, Sizes DEF IInv, ActiveListQueue
  <2>2. /\ window[i].AL_index \in AlSlots
        /\ Offset(al_head, window[i].AL_index, NActive) = i - 1
    BY <1>1, <2>1 DEF IInv, ActiveListQueue
  <2>3. al_tail' \in Cursor(NActive) /\ InActiveList' = i
    BY <1>1, <1>4, <2>1, <2>2, AlTailAfterOccupancy DEF InActiveList
  <2>4. InActiveList' = IF InActiveList <= i THEN InActiveList ELSE i
    BY <1>1, <2>1, <2>3
  <2>5. i \in i .. Len(window)
    BY <1>1
  <2> QED BY <1>1, <1>4, <1>5, <1>6, <2>3, <2>4, <2>5, MarkCompleted
<1>10. BranchMasks'
  <2>1. ASSUME NEW n \in 0 .. i - 1
        PROVE  UnresolvedIDs(window', n) = UnresolvedIDs(window, n)
    <3>1. \A j \in 1 .. n : SameBranch(window'[j], window[j])
      BY <1>1, <1>6 DEF SameBranch
    <3> QED BY <3>1, UnresolvedSame
  <2>2. \A j \in 1 .. i :
          UnresolvedIDs(window', j - 1) = UnresolvedIDs(window, j - 1)
    <3>1. \A j \in 1 .. i : j - 1 \in 0 .. i - 1
      BY <1>1
    <3> QED BY <2>1, <3>1
  <2>3. UnresolvedIDs(window', i) = UnresolvedIDs(window', i - 1)
    <3>1. 1 .. i = 1 .. i - 1 \cup {i}
      BY <1>1
    <3>2. window'[i].stage = "completed"
      BY <1>1, <1>6
    <3> QED BY <3>1, <3>2 DEF UnresolvedIDs
  <2>4. GBM' = UnresolvedIDs(window', Len(window'))
    <3>1. saved.GBM = UnresolvedIDs(window, i - 1)
      BY <1>1 DEF IInv, BranchMasks
    <3>2. UnresolvedIDs(window', i - 1) = UnresolvedIDs(window, i - 1)
      BY <1>1, <2>2
    <3> QED BY <1>4, <1>5, <2>3, <3>1, <3>2
  <2>5. \A j, k \in UnresolvedUpTo(Len(window))' :
          window'[j].branch_ID = window'[k].branch_ID => j = k
    BY <1>7 DEF IInv, BranchMasks
  <2>6. \A j \in UnresolvedUpTo(Len(window))' :
          checkpoints'[window'[j].branch_ID].GBM = UnresolvedIDs(window', j - 1)
    <3>1. \A j \in UnresolvedUpTo(Len(window)) :
            checkpoints[window[j].branch_ID].GBM = UnresolvedIDs(window, j - 1)
      BY DEF IInv, BranchMasks
    <3> QED BY <1>4, <1>7, <2>2, <3>1, ZenonT(30)
  <2>7. \A j \in 1 .. Len(window') : window'[j].stage # "completed" =>
          window'[j].branch_mask = UnresolvedIDs(window', j - 1)
    <3>1. \A j \in 1 .. i :
            window'[j].stage # "completed" => window[j].stage # "completed"
      BY <1>6
    <3>2. \A j \in 1 .. Len(window) : window[j].stage # "completed" =>
            window[j].branch_mask = UnresolvedIDs(window, j - 1)
      BY DEF IInv, BranchMasks
    <3> QED BY <1>1, <1>5, <1>6, <2>2, <3>1, <3>2, ZenonT(30)
  <2> QED BY <2>4, <2>5, <2>6, <2>7 DEF BranchMasks
<1>11. RegistersConserved'
  BY <1>4 DEF IInv, RegistersConserved
<1>12. /\ FlBase' = FlBase /\ Allocated' = Kept(i)
       /\ Kept(i) \in 0 .. Allocated /\ Allocated \in 0 .. FlLength
       /\ FlLength \in Nat
  BY <1>1, <1>4, Sizes
     DEF FlBase, Allocated, Kept, IInv, FreeListQueue, CheckpointsSplitFl
<1>13. \A s \in FlSlots : PositionInFl(s)' = PositionInFl(s) /\ PositionInFl(s) \in Int
  <2>1. \A s \in FlSlots : PositionInFl(s) \in 0 .. FlLength - 1
    BY Shape, Sizes, OffsetType DEF IInv, FlSlots, PositionInFl
  <2> QED BY <1>12, <2>1 DEF PositionInFl
<1>14. \A j \in 1 .. i, s \in FlSlots : Owns(j, s)' <=> Owns(j, s)
  <2>1. \A j \in 1 .. Len(window), s \in FlSlots :
          Owns(j, s) => (j <= i <=> PositionInFl(s) < Kept(i))
    BY <1>1 DEF IInv, CheckpointsSplitFl
  <2>2. ASSUME NEW j \in 1 .. i, NEW s \in FlSlots
        PROVE  Owns(j, s)' <=> Owns(j, s)
    <3>1. Owns(j, s)' <=> /\ window[j].dest /\ PositionInFl(s) < Kept(i)
                          /\ fl_fifo[s] = window[j].phys
      BY <1>4, <1>6, <1>12, <1>13 DEF Owns, SameRegisters
    <3>2. PositionInFl(s) < Kept(i) => PositionInFl(s) < Allocated
      BY <1>12, <1>13
    <3>3. Owns(j, s) => PositionInFl(s) < Kept(i)
      BY <1>1, <2>1
    <3> QED BY <3>1, <3>2, <3>3 DEF Owns
  <2> QED BY <2>2
<1>15. FreeListQueue'
  <2>1. Allocated' \in 0 .. FlLength
    BY <1>12
  <2>2. OwnersHaveSlots'
    BY <1>1, <1>5, <1>6, <1>14
       DEF IInv, FreeListQueue, OwnersHaveSlots, SameRegisters
  <2>3. SlotsInOrder'
    BY <1>1, <1>5, <1>13, <1>14 DEF IInv, FreeListQueue, SlotsInOrder
  <2>4. SlotsHaveOwners'
    <3> SUFFICES ASSUME NEW s \in FlSlots, PositionInFl(s)' < Allocated'
                 PROVE  \E j \in 1 .. Len(window') : Owns(j, s)'
      BY DEF SlotsHaveOwners
    <3>1. PositionInFl(s) < Kept(i) /\ PositionInFl(s) < Allocated
      BY <1>12, <1>13
    <3>2. PICK j \in 1 .. Len(window) : Owns(j, s)
      BY <3>1 DEF IInv, FreeListQueue, SlotsHaveOwners
    <3>3. j <= i
      BY <1>1, <3>1, <3>2 DEF IInv, CheckpointsSplitFl
    <3> QED BY <1>5, <1>14, <3>2, <3>3
  <2> QED BY <2>1, <2>2, <2>3, <2>4 DEF FreeListQueue
<1>16. CheckpointsSplitFl'
  <2>1. \A b \in UnresolvedUpTo(Len(window))' : Kept(b)' = Kept(b)
    BY <1>4, <1>7, <1>12 DEF Kept
  <2>2. \A b \in UnresolvedUpTo(Len(window))' : Kept(b)' \in 0 .. Allocated'
    <3>1. \A b \in UnresolvedUpTo(Len(window))' :
            Kept(b) \in 0 .. Allocated /\ Kept(b) <= Kept(i)
      BY <1>1, <1>7 DEF IInv, CheckpointsSplitFl
    <3> QED BY <1>12, <2>1, <3>1
  <2>3. ASSUME NEW b \in UnresolvedUpTo(Len(window))',
               NEW j \in 1 .. Len(window'), NEW s \in FlSlots, Owns(j, s)'
        PROVE  j <= b <=> PositionInFl(s)' < Kept(b)'
    <3>1. b \in UnresolvedUpTo(Len(window)) /\ j \in 1 .. Len(window) /\ Owns(j, s)
      BY <1>1, <1>5, <1>7, <1>14, <2>3
    <3>2. j <= b <=> PositionInFl(s) < Kept(b)
      BY <3>1 DEF IInv, CheckpointsSplitFl
    <3> QED BY <1>13, <2>1, <3>2
  <2>4. \A b, c \in UnresolvedUpTo(Len(window))' : b < c => Kept(b)' <= Kept(c)'
    BY <1>7, <2>1 DEF IInv, CheckpointsSplitFl
  <2> QED BY <2>2, <2>3, <2>4 DEF CheckpointsSplitFl
<1>17. MapsFollow'
  <2>1. Follows(rmt', amt', window', Len(window'))
    <3>1. Follows(saved.smt, amt, window, i)
      BY <1>1 DEF IInv, MapsFollow
    <3> QED BY <1>1, <1>4, <1>5, <1>6, <3>1, FollowsSame
  <2>2. ASSUME NEW b \in UnresolvedUpTo(Len(window))'
        PROVE  Follows(checkpoints[window[b].branch_ID].smt, amt, window, b)'
    <3>1. Follows(checkpoints[window[b].branch_ID].smt, amt, window, b)
      BY <1>7 DEF IInv, MapsFollow
    <3>2. b \in Nat /\ \A j \in 1 .. b : SameRegisters(window'[j], window[j])
      BY <1>1, <1>6, <1>7
    <3> QED BY <1>4, <1>7, <3>1, <3>2, FollowsSame
  <2> QED BY <2>1, <2>2 DEF MapsFollow
<1>18. TypeOK'
  BY <1>1, <1>4, <1>5, <1>9 DEF IInv, TypeOK, Checkpoint
<1> QED BY <1>8, <1>9, <1>10, <1>11, <1>15, <1>16, <1>17, <1>18 DEF IInv

-----------------------------------------------------------------------------
(* Rename *)

\* The register a destination gets is one that is not in flight.
LEMMA NextFree ==
  ASSUME IInv, ~IsEmpty(fl_head, fl_tail)
  PROVE  /\ Allocated \in 0 .. FlLength - 1
         /\ fl_head.ptr \in FlSlots
         /\ PositionInFl(fl_head.ptr) = Allocated
         /\ Occupancy(FlBase, Advance(fl_head, FlLength), FlLength) = Allocated + 1
<1>1. /\ fl_head \in Cursor(FlLength) /\ fl_tail \in Cursor(FlLength)
      /\ FlBase \in Cursor(FlLength) /\ FlLength \in Nat \ {0}
      /\ Allocated \in 0 .. FlLength
  BY Shape, Sizes DEF IInv, FreeListQueue
<1>2. Allocated = FlLength - Occupancy(fl_head, fl_tail, FlLength)
  BY <1>1, OtherSideOccupancy DEF Allocated, FlBase
<1>3. /\ Occupancy(fl_head, fl_tail, FlLength) # 0
      /\ Occupancy(fl_head, fl_tail, FlLength) \in Int
  BY <1>1, NotEmptyOccupancy, OccupancyType
<1>4. Allocated \in 0 .. FlLength - 1
  BY <1>1, <1>2, <1>3
<1>5. fl_head.ptr \in FlSlots
  BY <1>1 DEF Cursor, FlSlots
<1> QED BY <1>1, <1>4, <1>5, TailOffset, PushOccupancy DEF Allocated, PositionInFl

LEMMA PositionType ==
  ASSUME IInv
  PROVE  /\ \A s \in FlSlots : PositionInFl(s) \in 0 .. FlLength - 1
         /\ \A s, t \in FlSlots : PositionInFl(s) = PositionInFl(t) => s = t
  BY Shape, Sizes, OffsetType, OffsetInjective DEF IInv, FlSlots, PositionInFl

LEMMA RenameStep ==
  ASSUME IInv, NEW dest \in BOOLEAN, NEW log \in LogRegs, NEW checkpoint \in BOOLEAN,
         Rename(dest, log, checkpoint)
  PROVE  IInv'
<1> PICK n \in Nat : n = Len(window)
  BY Shape DEF IInv
<1> DEFINE slot  == fl_head.ptr
           phys  == fl_fifo[slot]
           id    == FirstFree(GBM)
           entry == [dest |-> dest, log |-> IF dest THEN log ELSE Junk,
                     phys |-> IF dest THEN phys ELSE Junk,
                     checkpoint |-> checkpoint,
                     branch_ID |-> IF checkpoint THEN id ELSE Junk,
                     branch_mask |-> GBM, AL_index |-> Junk,
                     stage |-> "renamed"]
<1>1. /\ window \in Seq(Instruction) /\ n \in Nat
      /\ rmt \in [LogRegs -> PhysRegs] /\ fl_fifo \in [FlSlots -> PhysRegs]
      /\ checkpoints \in [BranchIDs -> Checkpoint] /\ GBM \in SUBSET BranchIDs
      /\ fl_head \in Cursor(FlLength) /\ FlBase \in Cursor(FlLength)
      /\ FlLength \in Nat \ {0} /\ Allocated \in 0 .. FlLength
      /\ slot \in FlSlots /\ phys \in PhysRegs
  <2>1. fl_head.ptr \in FlSlots
    BY Shape, Sizes DEF IInv, Cursor, FlSlots
  <2> QED BY <2>1, Shape, Sizes DEF IInv, TypeOK, FreeListQueue
<1>2. /\ dest => ~IsEmpty(fl_head, fl_tail)
      /\ checkpoint => GBM # BranchIDs
      /\ rmt' = IF dest THEN [rmt EXCEPT ![log] = phys] ELSE rmt
      /\ fl_head' = IF dest THEN Advance(fl_head, FlLength) ELSE fl_head
      /\ window' = Append(window, entry)
      /\ checkpoint => /\ checkpoints' = [checkpoints EXCEPT ![id] = Saved]
                       /\ GBM' = GBM \cup {id}
      /\ ~checkpoint => UNCHANGED <<checkpoints, GBM>>
      /\ UNCHANGED <<amt, fl_fifo, fl_tail, al_fifo, al_head, al_tail>>
  BY DEF Rename
<1>3. checkpoint => id \in BranchIDs \ GBM
  BY <1>1, <1>2, FirstFreeType
<1>4. /\ entry \in Instruction
      /\ entry.dest = dest /\ entry.checkpoint = checkpoint
      /\ entry.branch_mask = GBM /\ entry.stage = "renamed"
      /\ dest => entry.log = log /\ entry.phys = phys
      /\ checkpoint => entry.branch_ID = id
  BY <1>1, <1>3 DEF Instruction, Stages
<1>5. /\ rmt' \in [LogRegs -> PhysRegs] /\ fl_head' \in Cursor(FlLength)
  BY <1>1, <1>2, AdvanceType
<1>6. /\ Saved \in Checkpoint /\ Saved.smt = rmt' /\ Saved.fl_head = fl_head'
      /\ Saved.GBM = GBM
  BY <1>1, <1>5 DEF Saved, Checkpoint
<1> HIDE DEF entry, id, phys
<1>7. /\ window' \in Seq(Instruction) /\ Len(window') = n + 1
      /\ \A j \in 1 .. n : window'[j] = window[j]
      /\ window'[n + 1] = entry
  BY <1>1, <1>2, <1>4, AppendProperties
<1>8. /\ 1 .. Len(window') = 1 .. n \cup {n + 1}
      /\ \A j \in 1 .. n : j # n + 1 /\ j < n + 1
  BY <1>1, <1>7
<1>9. /\ checkpoints' \in [BranchIDs -> Checkpoint]
      /\ GBM' \in SUBSET BranchIDs
      /\ \A b \in BranchIDs : (checkpoint => b # id) => checkpoints'[b] = checkpoints[b]
      /\ checkpoint => checkpoints'[id] = Saved
  <2>1. CASE checkpoint
    BY <1>1, <1>2, <1>3, <1>6, <2>1
  <2>2. CASE ~checkpoint
    BY <1>1, <1>2, <2>2
  <2> QED BY <2>1, <2>2
<1>10. UnresolvedUpTo(Len(window))' =
         UnresolvedUpTo(n) \cup (IF checkpoint THEN {n + 1} ELSE {})
  BY <1>1, <1>4, <1>7, <1>8 DEF UnresolvedUpTo
<1>11. ASSUME NEW b \in UnresolvedUpTo(n)
       PROVE  /\ b \in 1 .. n /\ window[b].branch_ID \in BranchIDs
              /\ window'[b].branch_ID = window[b].branch_ID
              /\ checkpoint => window[b].branch_ID # id
              /\ checkpoints'[window'[b].branch_ID] = checkpoints[window[b].branch_ID]
  <2>1. /\ b \in 1 .. n /\ window[b].branch_ID \in BranchIDs
        /\ window[b].checkpoint /\ window[b].stage # "completed"
    BY DEF IInv, InstructionOK, UnresolvedUpTo
  <2>2. window[b].branch_ID \in GBM
    BY <2>1 DEF IInv, BranchMasks, UnresolvedIDs
  <2>3. checkpoint => window[b].branch_ID # id
    BY <1>3, <2>2
  <2> QED BY <1>7, <1>9, <2>1, <2>3
<1>12. InstructionOK'
  BY <1>1, <1>3, <1>4, <1>7, <1>8 DEF IInv, InstructionOK
<1>13. ActiveListQueue'
  <2>1. InActiveList' = InActiveList /\ InActiveList \in Nat /\ InActiveList <= n
    BY <1>2 DEF IInv, InActiveList, ActiveListQueue
  <2>2. \A j \in 1 .. InActiveList : j \in 1 .. n
    BY <1>1, <2>1
  <2>3. InActiveList' <= Len(window')
    BY <1>1, <1>7, <2>1
  <2>4. \A j \in 1 .. Len(window') :
          window'[j].stage # "renamed" <=> j <= InActiveList'
    <3>1. ~(n + 1 <= InActiveList') /\ window'[n + 1].stage = "renamed"
      BY <1>4, <1>7, <2>1
    <3>2. \A j \in 1 .. n : window'[j].stage # "renamed" <=> j <= InActiveList'
      BY <1>7, <2>1 DEF IInv, ActiveListQueue
    <3> QED BY <1>8, <3>1, <3>2
  <2>5. \A j \in 1 .. InActiveList' : window'[j] = window[j]
    BY <1>7, <2>1, <2>2
  <2>6. InActiveList' \in 0 .. NActive
    BY <2>1 DEF IInv, ActiveListQueue
  <2>7. ASSUME NEW j \in 1 .. InActiveList
        PROVE  /\ window[j].AL_index \in AlSlots
               /\ Offset(al_head, window[j].AL_index, NActive) = j - 1
               /\ al_fifo[window[j].AL_index].dest = window[j].dest
               /\ window[j].dest =>
                    /\ al_fifo[window[j].AL_index].log = window[j].log
                    /\ al_fifo[window[j].AL_index].phys = window[j].phys
               /\ al_fifo[window[j].AL_index].completed <=> window[j].stage = "completed"
    BY DEF IInv, ActiveListQueue
  <2>8. /\ al_head' = al_head /\ al_fifo' = al_fifo
        /\ 1 .. InActiveList' = 1 .. InActiveList
    BY <1>2, <2>1
  <2> QED BY <2>3, <2>4, <2>5, <2>6, <2>7, <2>8 DEF ActiveListQueue
<1>14. BranchMasks'
  <2>1. ASSUME NEW m \in 0 .. n
        PROVE  UnresolvedIDs(window', m) = UnresolvedIDs(window, m)
    <3>1. \A j \in 1 .. m : SameBranch(window'[j], window[j])
      BY <1>1, <1>7 DEF SameBranch
    <3> QED BY <3>1, UnresolvedSame
  <2>2. \A j \in 1 .. n : UnresolvedIDs(window', j - 1) = UnresolvedIDs(window, j - 1)
    <3>1. \A j \in 1 .. n : j - 1 \in 0 .. n
      BY <1>1
    <3> QED BY <2>1, <3>1
  <2>3. GBM = UnresolvedIDs(window', n + 1 - 1)
    <3>1. n \in 0 .. n /\ n + 1 - 1 = n
      BY <1>1
    <3> QED BY <2>1, <3>1 DEF IInv, BranchMasks
  <2>4. GBM' = UnresolvedIDs(window', Len(window'))
    <3>1. UnresolvedIDs(window', n + 1) =
            UnresolvedIDs(window', n) \cup (IF checkpoint THEN {id} ELSE {})
      BY <1>1, <1>3, <1>4, <1>7, UnresolvedNext
    <3>2. n + 1 - 1 = n
      BY <1>1
    <3>3. CASE checkpoint
      BY <1>2, <1>7, <2>3, <3>1, <3>2, <3>3
    <3>4. CASE ~checkpoint
      BY <1>2, <1>7, <2>3, <3>1, <3>2, <3>4
    <3> QED BY <3>3, <3>4
  <2>5. \A j, k \in UnresolvedUpTo(Len(window))' :
          window'[j].branch_ID = window'[k].branch_ID => j = k
    <3>1. \A j, k \in UnresolvedUpTo(n) :
            window[j].branch_ID = window[k].branch_ID => j = k
      BY DEF IInv, BranchMasks
    <3>2. checkpoint => window'[n + 1].branch_ID = id
      BY <1>4, <1>7
    <3> QED BY <1>10, <1>11, <3>1, <3>2
  <2>6. ASSUME NEW j \in UnresolvedUpTo(Len(window))'
        PROVE  checkpoints'[window'[j].branch_ID].GBM = UnresolvedIDs(window', j - 1)
    <3>1. CASE j \in UnresolvedUpTo(n)
      <4>1. checkpoints[window[j].branch_ID].GBM = UnresolvedIDs(window, j - 1)
        BY <3>1 DEF IInv, BranchMasks
      <4>2. UnresolvedIDs(window', j - 1) = UnresolvedIDs(window, j - 1)
        BY <1>11, <2>2, <3>1
      <4> QED BY <1>11, <3>1, <4>1, <4>2
    <3>2. CASE j = n + 1 /\ checkpoint
      BY <1>4, <1>6, <1>7, <1>9, <2>3, <3>2
    <3> QED BY <1>10, <3>1, <3>2
  <2>7. ASSUME NEW j \in 1 .. Len(window'), window'[j].stage # "completed"
        PROVE  window'[j].branch_mask = UnresolvedIDs(window', j - 1)
    <3>1. CASE j \in 1 .. n
      <4>1. window[j].branch_mask = UnresolvedIDs(window, j - 1)
        BY <1>7, <2>7, <3>1 DEF IInv, BranchMasks
      <4> QED BY <1>7, <2>2, <3>1, <4>1
    <3>2. CASE j = n + 1
      BY <1>4, <1>7, <2>3, <3>2
    <3> QED BY <1>8, <3>1, <3>2
  <2> QED BY <2>4, <2>5, <2>6, <2>7 DEF BranchMasks
<1>15. RegistersConserved'
  BY <1>2 DEF IInv, RegistersConserved
<1>16. /\ FlBase' = FlBase
       /\ \A s \in FlSlots : PositionInFl(s)' = PositionInFl(s)
       /\ Allocated' = IF dest THEN Allocated + 1 ELSE Allocated
       /\ Allocated' \in 0 .. FlLength
       /\ dest => PositionInFl(slot) = Allocated
  <2>1. FlBase' = FlBase
    BY <1>2 DEF FlBase
  <2>2. \A s \in FlSlots : PositionInFl(s)' = PositionInFl(s)
    BY <2>1 DEF PositionInFl
  <2>3. CASE dest
    BY <1>1, <1>2, <2>1, <2>2, <2>3, NextFree DEF Allocated
  <2>4. CASE ~dest
    BY <1>1, <1>2, <2>1, <2>2, <2>4 DEF Allocated
  <2> QED BY <2>1, <2>2, <2>3, <2>4
<1>17. \A s \in FlSlots : PositionInFl(s) \in 0 .. FlLength - 1
  BY PositionType
<1>18. ASSUME NEW j \in 1 .. n, NEW s \in FlSlots
       PROVE  Owns(j, s)' <=> Owns(j, s)
  <2>1. Owns(j, s)' <=> /\ window[j].dest /\ PositionInFl(s) < Allocated'
                        /\ fl_fifo[s] = window[j].phys
    BY <1>2, <1>7, <1>16 DEF Owns
  <2>2. PositionInFl(s) < Allocated => PositionInFl(s) < Allocated'
    BY <1>1, <1>16, <1>17
  <2>3. ASSUME window[j].dest, fl_fifo[s] = window[j].phys
        PROVE  PositionInFl(s) < Allocated
    <3>1. PICK t \in FlSlots : Owns(j, t)
      BY <2>3 DEF IInv, FreeListQueue, OwnersHaveSlots
    <3>2. s = t
      BY <2>3, <3>1 DEF IInv, RegistersConserved, Owns
    <3> QED BY <3>1, <3>2 DEF Owns
  <2> QED BY <2>1, <2>2, <2>3 DEF Owns
<1>19. ASSUME NEW s \in FlSlots
       PROVE  Owns(n + 1, s)' <=> dest /\ s = slot
  <2>1. Owns(n + 1, s)' <=> /\ dest /\ PositionInFl(s) < Allocated'
                            /\ fl_fifo[s] = entry.phys
    BY <1>2, <1>4, <1>7, <1>16 DEF Owns
  <2>2. dest => /\ entry.phys = fl_fifo[slot]
                /\ PositionInFl(slot) < Allocated'
    BY <1>1, <1>4, <1>16 DEF phys
  <2>3. fl_fifo[s] = fl_fifo[slot] => s = slot
    BY <1>1 DEF IInv, RegistersConserved
  <2> QED BY <2>1, <2>2, <2>3
<1>20. FreeListQueue'
  <2>1. OwnersHaveSlots'
    <3> SUFFICES ASSUME NEW j \in 1 .. Len(window'), window'[j].dest
                 PROVE  \E s \in FlSlots : Owns(j, s)'
      BY DEF OwnersHaveSlots
    <3>1. CASE j \in 1 .. n
      BY <1>7, <1>18, <3>1 DEF IInv, FreeListQueue, OwnersHaveSlots
    <3>2. CASE j = n + 1
      BY <1>1, <1>4, <1>7, <1>19, <3>2
    <3> QED BY <1>8, <3>1, <3>2
  <2>2. SlotsInOrder'
    <3> SUFFICES ASSUME NEW j \in 1 .. Len(window'), NEW k \in 1 .. Len(window'),
                        NEW s \in FlSlots, NEW t \in FlSlots,
                        j < k, Owns(j, s)', Owns(k, t)'
                 PROVE  PositionInFl(s) < PositionInFl(t)
      BY <1>16 DEF SlotsInOrder
    <3>1. j \in 1 .. n /\ Owns(j, s)
      BY <1>1, <1>7, <1>18
    <3>2. CASE k \in 1 .. n
      BY <1>18, <3>1, <3>2 DEF IInv, FreeListQueue, SlotsInOrder
    <3>3. CASE k = n + 1
      BY <1>16, <1>19, <3>1, <3>3 DEF Owns
    <3> QED BY <1>8, <3>2, <3>3
  <2>3. SlotsHaveOwners'
    <3> SUFFICES ASSUME NEW s \in FlSlots, PositionInFl(s) < Allocated'
                 PROVE  \E j \in 1 .. Len(window') : Owns(j, s)'
      BY <1>16 DEF SlotsHaveOwners
    <3>1. CASE PositionInFl(s) < Allocated
      <4>1. PICK j \in 1 .. n : Owns(j, s)
        BY <3>1 DEF IInv, FreeListQueue, SlotsHaveOwners
      <4> QED BY <1>8, <1>18, <4>1
    <3>2. CASE ~(PositionInFl(s) < Allocated)
      <4>1. dest /\ PositionInFl(s) = PositionInFl(slot)
        BY <1>1, <1>16, <1>17, <3>2
      <4>2. s = slot
        BY <1>1, <4>1, PositionType
      <4> QED BY <1>8, <1>19, <4>1, <4>2
    <3> QED BY <3>1, <3>2
  <2> QED BY <1>16, <2>1, <2>2, <2>3 DEF FreeListQueue
<1>21. CheckpointsSplitFl'
  <2>1. ASSUME NEW b \in UnresolvedUpTo(n)
        PROVE  Kept(b)' = Kept(b) /\ Kept(b) \in 0 .. Allocated
    BY <1>11, <1>16 DEF Kept, IInv, CheckpointsSplitFl
  <2>2. checkpoint => Kept(n + 1)' = Allocated'
    BY <1>4, <1>6, <1>7, <1>9 DEF Kept, Allocated
  <2>3. Allocated <= Allocated'
    BY <1>1, <1>16
  <2>4. \A b \in UnresolvedUpTo(Len(window))' : Kept(b)' \in 0 .. Allocated'
    BY <1>1, <1>10, <1>16, <2>1, <2>2, <2>3
  <2>5. ASSUME NEW b \in UnresolvedUpTo(Len(window))',
               NEW j \in 1 .. Len(window'), NEW s \in FlSlots, Owns(j, s)'
        PROVE  j <= b <=> PositionInFl(s)' < Kept(b)'
    <3>1. CASE b \in UnresolvedUpTo(n) /\ j \in 1 .. n
      <4>1. j <= b <=> PositionInFl(s) < Kept(b)
        BY <1>18, <2>5, <3>1 DEF IInv, CheckpointsSplitFl
      <4> QED BY <1>16, <2>1, <3>1, <4>1
    <3>2. CASE b \in UnresolvedUpTo(n) /\ j = n + 1
      <4>1. PositionInFl(s) = Allocated
        BY <1>16, <1>19, <2>5, <3>2
      <4>2. ~(PositionInFl(s) < Kept(b)) /\ ~(j <= b)
        BY <1>1, <1>11, <2>1, <3>2, <4>1
      <4> QED BY <1>16, <2>1, <3>2, <4>2
    <3>3. CASE b = n + 1 /\ checkpoint
      <4>1. j <= b
        BY <1>1, <1>7, <3>3
      <4>2. PositionInFl(s)' < Allocated'
        BY <2>5 DEF Owns
      <4> QED BY <2>2, <3>3, <4>1, <4>2
    <3> QED BY <1>8, <1>10, <3>1, <3>2, <3>3
  <2>6. ASSUME NEW b \in UnresolvedUpTo(Len(window))',
               NEW c \in UnresolvedUpTo(Len(window))', b < c
        PROVE  Kept(b)' <= Kept(c)'
    <3>1. CASE c \in UnresolvedUpTo(n)
      <4>1. b \in UnresolvedUpTo(n)
        BY <1>1, <1>10, <1>11, <2>6, <3>1
      <4> QED BY <2>1, <2>6, <3>1, <4>1 DEF IInv, CheckpointsSplitFl
    <3>2. CASE c = n + 1 /\ checkpoint
      <4>1. b \in UnresolvedUpTo(n)
        BY <1>1, <1>10, <2>6, <3>2
      <4> QED BY <1>1, <1>16, <2>1, <2>2, <2>3, <3>2, <4>1
    <3> QED BY <1>10, <3>1, <3>2
  <2> QED BY <2>4, <2>5, <2>6 DEF CheckpointsSplitFl
<1>22. MapsFollow'
  <2>1. ASSUME NEW map, NEW m \in 0 .. n, Follows(map, amt, window, m)
        PROVE  Follows(map, amt', window', m)
    <3>1. m \in Nat /\ \A j \in 1 .. m : SameRegisters(window'[j], window[j])
      BY <1>1, <1>7 DEF SameRegisters
    <3> QED BY <1>2, <2>1, <3>1, FollowsSame
  <2>2. Follows(rmt', amt', window', n + 1)
    <3>1. Follows(rmt, amt', window', n)
      BY <1>1, <2>1 DEF IInv, MapsFollow
    <3>2. /\ window'[n + 1].dest => window'[n + 1].log \in LogRegs
          /\ rmt' = IF window'[n + 1].dest
                    THEN [rmt EXCEPT ![window'[n + 1].log] = window'[n + 1].phys]
                    ELSE rmt
      BY <1>2, <1>4, <1>7
    <3> QED BY <1>1, <3>1, <3>2, FollowsNext
  <2>3. ASSUME NEW b \in UnresolvedUpTo(Len(window))'
        PROVE  Follows(checkpoints'[window'[b].branch_ID].smt, amt', window', b)
    <3>1. CASE b \in UnresolvedUpTo(n)
      <4>1. /\ Follows(checkpoints[window[b].branch_ID].smt, amt, window, b)
            /\ b \in 0 .. n
        BY <1>1, <1>11, <3>1 DEF IInv, MapsFollow
      <4> QED BY <1>11, <2>1, <3>1, <4>1
    <3>2. CASE b = n + 1 /\ checkpoint
      BY <1>4, <1>6, <1>7, <1>9, <2>2, <3>2
    <3> QED BY <1>10, <3>1, <3>2
  <2> QED BY <1>7, <2>2, <2>3 DEF MapsFollow
<1>23. TypeOK'
  BY <1>2, <1>5, <1>7, <1>9 DEF IInv, TypeOK
<1> QED BY <1>12, <1>13, <1>14, <1>15, <1>20, <1>21, <1>22, <1>23 DEF IInv

-----------------------------------------------------------------------------
(* Retirement *)

\* The head of the active list is the entry of the oldest instruction.
LEMMA HeadEntry ==
  ASSUME IInv, HeadCompleted
  PROVE  /\ InActiveList \in 1 .. NActive /\ 1 \in 1 .. Len(window)
         /\ window[1].stage = "completed"
         /\ AlHead.dest = window[1].dest
         /\ window[1].dest => /\ AlHead.log = window[1].log
                              /\ AlHead.phys = window[1].phys
<1>1. /\ al_head \in Cursor(NActive) /\ al_tail \in Cursor(NActive)
      /\ NActive \in Nat \ {0} /\ Len(window) \in Nat
      /\ InActiveList \in 0 .. NActive /\ InActiveList <= Len(window)
  BY Shape, Sizes DEF IInv, ActiveListQueue
<1>2. InActiveList # 0
  BY <1>1, NotEmptyOccupancy DEF HeadCompleted, InActiveList
<1>3. InActiveList \in 1 .. NActive /\ 1 \in 1 .. InActiveList /\ 1 \in 1 .. Len(window)
  BY <1>1, <1>2
<1>4. /\ window[1].AL_index \in AlSlots
      /\ Offset(al_head, window[1].AL_index, NActive) = 0
      /\ al_fifo[window[1].AL_index].dest = window[1].dest
      /\ window[1].dest => /\ al_fifo[window[1].AL_index].log = window[1].log
                           /\ al_fifo[window[1].AL_index].phys = window[1].phys
      /\ al_fifo[window[1].AL_index].completed <=> window[1].stage = "completed"
  BY <1>3 DEF IInv, ActiveListQueue
<1>5. window[1].AL_index = al_head.ptr
  BY <1>1, <1>4 DEF Cursor, AlSlots, Offset
<1> QED BY <1>3, <1>4, <1>5 DEF HeadCompleted, AlHead

\* The slot a commit writes is the one whose register the committing
\* instruction took (renamer.cc:584).
LEMMA CommittedSlot ==
  ASSUME IInv, HeadCompleted, window[1].dest
  PROVE  /\ fl_tail.ptr \in FlSlots /\ PositionInFl(fl_tail.ptr) = 0
         /\ Allocated \in 1 .. FlLength
         /\ Owns(1, fl_tail.ptr)
<1>1. /\ 1 \in 1 .. Len(window) /\ FlLength \in Nat \ {0}
      /\ fl_tail \in Cursor(FlLength) /\ FlBase \in Cursor(FlLength)
      /\ Allocated \in 0 .. FlLength
  BY HeadEntry, Shape, Sizes DEF IInv, FreeListQueue
<1>2. fl_tail.ptr \in FlSlots /\ PositionInFl(fl_tail.ptr) = 0
  <2>1. FlBase.ptr = fl_tail.ptr
    BY DEF FlBase
  <2> QED BY <1>1, <2>1, HeadOffset DEF PositionInFl, Cursor, FlSlots
<1>3. PICK s \in FlSlots : Owns(1, s)
  BY <1>1 DEF IInv, FreeListQueue, OwnersHaveSlots
<1>4. PositionInFl(s) \in Nat /\ PositionInFl(s) < Allocated
  BY <1>3, PositionType, Sizes DEF Owns
<1>5. Allocated \in 1 .. FlLength /\ PositionInFl(fl_tail.ptr) < Allocated
  BY <1>1, <1>2, <1>4
<1>6. PICK i \in 1 .. Len(window) : Owns(i, fl_tail.ptr)
  BY <1>2, <1>5 DEF IInv, FreeListQueue, SlotsHaveOwners
<1>7. ~(1 < i)
  BY <1>1, <1>2, <1>3, <1>4, <1>6 DEF IInv, FreeListQueue, SlotsInOrder
<1>8. i = 1
  BY <1>7
<1> QED BY <1>2, <1>5, <1>6, <1>8

\* A commit exchanges a register of the free list with one of the AMT.
LEMMA CommitKeeps ==
  ASSUME IInv, HeadCompleted, Commit
  PROVE  /\ RegistersConserved'
         /\ amt' = IF window[1].dest THEN [amt EXCEPT ![window[1].log] = window[1].phys]
                                     ELSE amt
         /\ amt' \in [LogRegs -> PhysRegs] /\ fl_fifo' \in [FlSlots -> PhysRegs]
         /\ \A s \in FlSlots : (window[1].dest => s # fl_tail.ptr)
                               => fl_fifo'[s] = fl_fifo[s]
         /\ fl_tail' \in Cursor(FlLength) /\ al_head' = Advance(al_head, NActive)
         /\ al_head' \in Cursor(NActive)
         /\ FlBase' = IF window[1].dest THEN Advance(FlBase, FlLength) ELSE FlBase
<1>1. /\ amt \in [LogRegs -> PhysRegs] /\ fl_fifo \in [FlSlots -> PhysRegs]
      /\ fl_tail \in Cursor(FlLength) /\ FlLength \in Nat \ {0}
      /\ al_head \in Cursor(NActive) /\ NActive \in Nat \ {0}
  BY Sizes DEF IInv, TypeOK
<1>2. al_head' = Advance(al_head, NActive) /\ al_head' \in Cursor(NActive)
  BY <1>1, AdvanceType DEF Commit
<1>3. CASE window[1].dest
  <2> DEFINE slot == fl_tail.ptr
             log  == window[1].log
             phys == window[1].phys
  <2>1. /\ slot \in FlSlots /\ fl_fifo[slot] = phys
        /\ log \in LogRegs /\ phys \in PhysRegs
    BY <1>3, HeadEntry, CommittedSlot DEF IInv, InstructionOK, Owns
  <2>2. /\ fl_fifo' = [fl_fifo EXCEPT ![slot] = amt[log]]
        /\ amt' = [amt EXCEPT ![log] = phys]
        /\ fl_tail' = Advance(fl_tail, FlLength)
    BY <1>3, HeadEntry DEF Commit
  <2> HIDE DEF slot, log, phys
  <2>3. amt' \in [LogRegs -> PhysRegs] /\ fl_fifo' \in [FlSlots -> PhysRegs]
    BY <1>1, <2>1, <2>2
  <2>4. RegistersConserved'
    <3>1. /\ \A s \in FlSlots : fl_fifo'[s] = IF s = slot THEN amt[log] ELSE fl_fifo[s]
          /\ \A l \in LogRegs : amt'[l] = IF l = log THEN fl_fifo[slot] ELSE amt[l]
      BY <1>1, <2>1, <2>2
    <3> QED BY <2>1, <3>1 DEF IInv, RegistersConserved
  <2>5. fl_tail' \in Cursor(FlLength)
    BY <1>1, <2>2, AdvanceType
  <2>6. FlBase' = Advance(FlBase, FlLength)
    BY <1>1, <2>2 DEF FlBase, Advance, Cursor
  <2>7. \A s \in FlSlots : s # slot => fl_fifo'[s] = fl_fifo[s]
    BY <1>1, <2>2
  <2> QED BY <1>2, <1>3, <2>2, <2>3, <2>4, <2>5, <2>6, <2>7 DEF slot, log, phys
<1>4. CASE ~window[1].dest
  <2>1. UNCHANGED <<fl_fifo, fl_tail, amt>>
    BY <1>4, HeadEntry DEF Commit
  <2>2. RegistersConserved' /\ FlBase' = FlBase
    BY <2>1 DEF IInv, RegistersConserved, FlBase
  <2> QED BY <1>1, <1>2, <1>4, <2>1, <2>2
<1> QED BY <1>3, <1>4

\* After a squash nothing is in flight and the free list is full.
LEMMA SquashStep ==
  ASSUME TypeOK, Squash, window' = <<>>, UNCHANGED <<al_fifo, checkpoints>>,
         RegistersConserved',
         amt' \in [LogRegs -> PhysRegs], fl_fifo' \in [FlSlots -> PhysRegs],
         fl_tail' \in Cursor(FlLength), al_head' \in Cursor(NActive)
  PROVE  IInv'
<1>1. /\ window' \in Seq(Instruction) /\ Len(window') = 0
      /\ \A i : i \notin 1 .. Len(window')
  BY EmptySeq
<1>2. /\ FlLength \in Nat \ {0} /\ NActive \in Nat \ {0}
      /\ fl_head' = FlBase' /\ fl_head' \in Cursor(FlLength)
      /\ al_tail' = al_head'
  BY Sizes, OtherSideOccupancy DEF Squash, FlBase
<1>3. Allocated' = 0 /\ InActiveList' = 0
  BY <1>2, EmptyOccupancy DEF Allocated, InActiveList
<1>4. UnresolvedUpTo(Len(window))' = {}
  BY <1>1 DEF UnresolvedUpTo
<1>5. TypeOK'
  BY <1>1, <1>2 DEF TypeOK, Squash
<1>6. InstructionOK'
  BY <1>1 DEF InstructionOK
<1>7. ActiveListQueue'
  BY <1>1, <1>2, <1>3 DEF ActiveListQueue
<1>8. BranchMasks'
  <2>1. UnresolvedIDs(window', Len(window')) = {}
    BY <1>1 DEF UnresolvedIDs
  <2> QED BY <1>1, <1>4, <2>1 DEF BranchMasks, Squash
<1>9. FreeListQueue'
  <2>1. \A s \in FlSlots : ~(PositionInFl(s)' < 0)
    <3>1. \A s \in FlSlots : PositionInFl(s)' \in 0 .. FlLength - 1
      BY <1>2, OffsetType DEF PositionInFl, FlSlots
    <3> QED BY <3>1
  <2> QED BY <1>1, <1>2, <1>3, <2>1
          DEF FreeListQueue, OwnersHaveSlots, SlotsInOrder, SlotsHaveOwners
<1>10. CheckpointsSplitFl'
  BY <1>4 DEF CheckpointsSplitFl
<1>11. MapsFollow'
  <2>1. Follows(rmt', amt', window', Len(window'))
    BY <1>1 DEF Follows, Squash
  <2> QED BY <1>4, <2>1 DEF MapsFollow
<1> QED BY <1>5, <1>6, <1>7, <1>8, <1>9, <1>10, <1>11 DEF IInv

LEMMA RetireValueMispredictedStep ==
  ASSUME IInv, RetireValueMispredicted
  PROVE  IInv'
  BY CommitKeeps, SquashStep DEF RetireValueMispredicted, IInv

LEMMA RetireOffendingStep ==
  ASSUME IInv, RetireOffending
  PROVE  IInv'
<1>1. RegistersConserved'
  BY DEF RetireOffending, IInv, RegistersConserved
<1> QED BY <1>1, SquashStep DEF RetireOffending, IInv, TypeOK

LEMMA RetireCommitStep ==
  ASSUME IInv, RetireCommit
  PROVE  IInv'
<1> PICK n \in Nat : n = Len(window)
  BY Shape DEF IInv
<1> DEFINE writes == window[1].dest
           slot   == fl_tail.ptr
<1>1. /\ window \in Seq(Instruction) /\ n \in Nat \ {0}
      /\ 1 \in 1 .. n /\ window[1].stage = "completed" /\ window[1] \in Instruction
      /\ HeadCompleted /\ Commit
      /\ window' = Tail(window)
      /\ UNCHANGED <<rmt, fl_head, al_fifo, al_tail, GBM, checkpoints>>
  BY HeadEntry, Shape DEF IInv, RetireCommit
<1>2. /\ window' \in Seq(Instruction) /\ Len(window') = n - 1
      /\ \A j \in 1 .. n - 1 : window'[j] = window[j + 1]
  <2>1. window # <<>>
    BY <1>1, EmptySeq
  <2> QED BY <1>1, <2>1, HeadTailProperties
<1>3. \A j \in 1 .. n - 1 : j + 1 \in 1 .. n /\ j + 1 # 1
  OBVIOUS
<1>4. /\ RegistersConserved'
      /\ amt' = IF writes THEN [amt EXCEPT ![window[1].log] = window[1].phys] ELSE amt
      /\ amt' \in [LogRegs -> PhysRegs] /\ fl_fifo' \in [FlSlots -> PhysRegs]
      /\ \A s \in FlSlots : (writes => s # slot) => fl_fifo'[s] = fl_fifo[s]
      /\ fl_tail' \in Cursor(FlLength)
      /\ al_head' = Advance(al_head, NActive) /\ al_head' \in Cursor(NActive)
      /\ FlBase' = IF writes THEN Advance(FlBase, FlLength) ELSE FlBase
  BY <1>1, CommitKeeps
<1>5. ASSUME NEW b \in UnresolvedUpTo(Len(window))'
      PROVE  /\ b \in 1 .. n - 1 /\ b + 1 \in UnresolvedUpTo(n)
             /\ window'[b] = window[b + 1]
  BY <1>2, <1>3 DEF UnresolvedUpTo
<1>6. InstructionOK'
  BY <1>2, <1>3 DEF IInv, InstructionOK
<1>7. ActiveListQueue'
  <2>1. /\ al_head \in Cursor(NActive) /\ al_tail \in Cursor(NActive)
        /\ NActive \in Nat \ {0}
        /\ InActiveList \in 1 .. NActive /\ InActiveList <= n
    BY <1>1, Shape, Sizes, HeadEntry DEF IInv, ActiveListQueue
  <2>2. InActiveList' = InActiveList - 1
    BY <1>1, <1>4, <2>1, PopOccupancy DEF InActiveList
  <2>3. InActiveList' \in 0 .. NActive /\ InActiveList' <= Len(window')
    BY <1>2, <2>1, <2>2
  <2>4. ASSUME NEW j \in 1 .. Len(window')
        PROVE  window'[j].stage # "renamed" <=> j <= InActiveList'
    <3>1. j \in 1 .. n - 1 /\ (j + 1 <= InActiveList <=> j <= InActiveList')
      BY <1>2, <2>1, <2>2
    <3>2. window[j + 1].stage # "renamed" <=> j + 1 <= InActiveList
      BY <1>3, <3>1 DEF IInv, ActiveListQueue
    <3> QED BY <1>2, <3>1, <3>2
  <2>5. ASSUME NEW j \in 1 .. InActiveList'
        PROVE  /\ window'[j] = window[j + 1] /\ j + 1 \in 1 .. InActiveList
               /\ window[j + 1].AL_index \in AlSlots
               /\ Offset(al_head', window[j + 1].AL_index, NActive) = j - 1
    <3>1. j \in 1 .. n - 1 /\ j + 1 \in 1 .. InActiveList
      BY <1>2, <2>1, <2>2
    <3>2. /\ window[j + 1].AL_index \in AlSlots
          /\ Offset(al_head, window[j + 1].AL_index, NActive) = j + 1 - 1
      BY <3>1 DEF IInv, ActiveListQueue
    <3>3. Offset(al_head, window[j + 1].AL_index, NActive) > 0
      BY <3>1, <3>2
    <3>4. Offset(al_head', window[j + 1].AL_index, NActive)
            = Offset(al_head, window[j + 1].AL_index, NActive) - 1
      BY <1>4, <2>1, <3>2, <3>3, PopOffset DEF AlSlots
    <3> QED BY <1>2, <3>1, <3>2, <3>4
  <2>6. \A j \in 1 .. InActiveList :
          /\ al_fifo[window[j].AL_index].dest = window[j].dest
          /\ window[j].dest => /\ al_fifo[window[j].AL_index].log = window[j].log
                               /\ al_fifo[window[j].AL_index].phys = window[j].phys
          /\ al_fifo[window[j].AL_index].completed <=> window[j].stage = "completed"
    BY DEF IInv, ActiveListQueue
  <2>7. ASSUME NEW j \in 1 .. InActiveList'
        PROVE  /\ al_fifo'[window'[j].AL_index].dest = window'[j].dest
               /\ window'[j].dest =>
                    /\ al_fifo'[window'[j].AL_index].log = window'[j].log
                    /\ al_fifo'[window'[j].AL_index].phys = window'[j].phys
               /\ al_fifo'[window'[j].AL_index].completed
                    <=> window'[j].stage = "completed"
    <3>1. j + 1 \in 1 .. InActiveList /\ window'[j] = window[j + 1]
      BY <2>5
    <3>2. al_fifo' = al_fifo
      BY <1>1
    <3> QED BY <2>6, <3>1, <3>2
  <2> QED BY <2>3, <2>4, <2>5, <2>7 DEF ActiveListQueue
<1>8. BranchMasks'
  <2>1. ASSUME NEW m \in 0 .. n - 1
        PROVE  UnresolvedIDs(window', m) = UnresolvedIDs(window, m + 1)
    <3>1. \A j \in 1 .. m : SameBranch(window'[j], window[j + 1])
      BY <1>2 DEF SameBranch
    <3>2. m \in Nat
      OBVIOUS
    <3> QED BY <1>1, <3>1, <3>2, UnresolvedTail
  <2>2. GBM' = UnresolvedIDs(window', Len(window'))
    <3>1. n - 1 \in 0 .. n - 1 /\ n - 1 + 1 = n
      BY <1>1
    <3>2. UnresolvedIDs(window', n - 1) = UnresolvedIDs(window, n)
      BY <2>1, <3>1
    <3> QED BY <1>1, <1>2, <3>2 DEF IInv, BranchMasks
  <2>3. \A j \in 1 .. n - 1 :
          UnresolvedIDs(window', j - 1) = UnresolvedIDs(window, j + 1 - 1)
    <3>1. \A j \in 1 .. n - 1 : j - 1 \in 0 .. n - 1 /\ j - 1 + 1 = j + 1 - 1
      OBVIOUS
    <3> QED BY <2>1, <3>1
  <2>4. ASSUME NEW j \in UnresolvedUpTo(Len(window))',
               NEW k \in UnresolvedUpTo(Len(window))',
               window'[j].branch_ID = window'[k].branch_ID
        PROVE  j = k
    <3>1. j + 1 = k + 1
      BY <1>5, <2>4 DEF IInv, BranchMasks
    <3> QED BY <1>5, <3>1
  <2>5. ASSUME NEW j \in UnresolvedUpTo(Len(window))'
        PROVE  checkpoints'[window'[j].branch_ID].GBM = UnresolvedIDs(window', j - 1)
    <3>1. checkpoints[window[j + 1].branch_ID].GBM = UnresolvedIDs(window, j + 1 - 1)
      BY <1>5 DEF IInv, BranchMasks
    <3> QED BY <1>1, <1>5, <2>3, <3>1
  <2>6. ASSUME NEW j \in 1 .. Len(window'), window'[j].stage # "completed"
        PROVE  window'[j].branch_mask = UnresolvedIDs(window', j - 1)
    <3>1. j \in 1 .. n - 1 /\ window'[j] = window[j + 1]
      BY <1>2
    <3>2. window[j + 1].branch_mask = UnresolvedIDs(window, j + 1 - 1)
      BY <1>3, <2>6, <3>1 DEF IInv, BranchMasks
    <3> QED BY <2>3, <3>1, <3>2
  <2> QED BY <2>2, <2>4, <2>5, <2>6 DEF BranchMasks
<1>9. /\ FlBase \in Cursor(FlLength) /\ fl_head \in Cursor(FlLength)
      /\ FlLength \in Nat \ {0} /\ Allocated \in 0 .. FlLength
      /\ slot \in FlSlots /\ slot = FlBase.ptr
  <2>1. slot \in FlSlots
    BY Shape, Sizes DEF IInv, Cursor, FlSlots
  <2> QED BY <2>1, Shape, Sizes DEF IInv, FreeListQueue, FlBase
<1>10. /\ writes => /\ PositionInFl(slot) = 0 /\ Allocated \in 1 .. FlLength
                    /\ Owns(1, slot)
       /\ \A s \in FlSlots : PositionInFl(s) \in 0 .. FlLength - 1
       /\ \A s \in FlSlots : writes /\ s # slot => PositionInFl(s) # 0
  BY <1>1, <1>9, CommittedSlot, PositionType
<1>11. Allocated' = IF writes THEN Allocated - 1 ELSE Allocated
  <2>1. CASE writes
    BY <1>1, <1>4, <1>9, <1>10, <2>1, PopOccupancy DEF Allocated
  <2>2. CASE ~writes
    BY <1>1, <1>4, <2>2 DEF Allocated
  <2> QED BY <2>1, <2>2
<1>12. ASSUME NEW s \in FlSlots
       PROVE  PositionInFl(s)' = IF ~writes THEN PositionInFl(s)
                                 ELSE IF s = slot THEN FlLength - 1
                                 ELSE PositionInFl(s) - 1
  <2>1. CASE ~writes
    BY <1>4, <2>1 DEF PositionInFl
  <2>2. CASE writes /\ s = slot
    BY <1>4, <1>9, <2>2, PoppedOffset DEF PositionInFl
  <2>3. CASE writes /\ s # slot
    <3>1. PositionInFl(s) > 0
      BY <1>10, <2>3
    <3> QED BY <1>4, <1>9, <2>3, <3>1, PopOffset DEF PositionInFl, FlSlots
  <2> QED BY <2>1, <2>2, <2>3
<1>13. ASSUME NEW j \in 1 .. n - 1, NEW s \in FlSlots
       PROVE  Owns(j, s)' <=> Owns(j + 1, s)
  <2>1. /\ window'[j].dest = window[j + 1].dest
        /\ window'[j].phys = window[j + 1].phys
        /\ j + 1 \in 1 .. n /\ 1 < j + 1
    BY <1>2
  <2>2. CASE writes /\ s = slot
    <3>1. ~Owns(j, s)'
      BY <1>9, <1>10, <1>11, <1>12, <2>2 DEF Owns
    <3>2. ~Owns(j + 1, s)
      BY <1>1, <1>9, <1>10, <2>1, <2>2 DEF IInv, FreeListQueue, SlotsInOrder
    <3> QED BY <3>1, <3>2
  <2>3. CASE ~writes \/ s # slot
    <3>1. fl_fifo'[s] = fl_fifo[s]
      BY <1>4, <2>3
    <3>2. PositionInFl(s)' < Allocated' <=> PositionInFl(s) < Allocated
      BY <1>9, <1>10, <1>11, <1>12, <2>3
    <3> QED BY <2>1, <3>1, <3>2 DEF Owns
  <2> QED BY <2>2, <2>3
<1>14. ASSUME NEW i \in 1 .. n, NEW s \in FlSlots, Owns(i, s), writes => s # slot
       PROVE  i # 1
  <2> SUFFICES ASSUME i = 1 PROVE FALSE
    OBVIOUS
  <2>1. writes /\ fl_fifo[s] = fl_fifo[slot]
    BY <1>10, <1>14 DEF Owns
  <2> QED BY <1>9, <1>14, <2>1 DEF IInv, RegistersConserved
<1>15. FreeListQueue'
  <2>1. Allocated' \in 0 .. FlLength
    BY <1>9, <1>10, <1>11
  <2>2. OwnersHaveSlots'
    <3> SUFFICES ASSUME NEW j \in 1 .. Len(window'), window'[j].dest
                 PROVE  \E s \in FlSlots : Owns(j, s)'
      BY DEF OwnersHaveSlots
    <3>1. j \in 1 .. n - 1 /\ j + 1 \in 1 .. n /\ window[j + 1].dest
      BY <1>2
    <3> QED BY <1>13, <3>1 DEF IInv, FreeListQueue, OwnersHaveSlots
  <2>3. SlotsInOrder'
    <3> SUFFICES ASSUME NEW j \in 1 .. Len(window'), NEW k \in 1 .. Len(window'),
                        NEW s \in FlSlots, NEW t \in FlSlots,
                        j < k, Owns(j, s)', Owns(k, t)'
                 PROVE  PositionInFl(s)' < PositionInFl(t)'
      BY DEF SlotsInOrder
    <3>1. /\ j \in 1 .. n - 1 /\ k \in 1 .. n - 1
          /\ j + 1 \in 1 .. n /\ k + 1 \in 1 .. n /\ j + 1 < k + 1
      BY <1>2
    <3>2. Owns(j + 1, s) /\ Owns(k + 1, t)
      BY <1>13, <3>1
    <3>3. PositionInFl(s) < PositionInFl(t)
      BY <3>1, <3>2 DEF IInv, FreeListQueue, SlotsInOrder
    <3>4. writes => s # slot /\ t # slot
      BY <1>9, <1>10, <3>1, <3>2 DEF IInv, FreeListQueue, SlotsInOrder
    <3> QED BY <1>10, <1>12, <3>3, <3>4
  <2>4. SlotsHaveOwners'
    <3> SUFFICES ASSUME NEW s \in FlSlots, PositionInFl(s)' < Allocated'
                 PROVE  \E j \in 1 .. Len(window') : Owns(j, s)'
      BY DEF SlotsHaveOwners
    <3>1. writes => s # slot
      BY <1>9, <1>10, <1>11, <1>12
    <3>2. PositionInFl(s) < Allocated
      BY <1>9, <1>10, <1>11, <1>12, <3>1
    <3>3. PICK i \in 1 .. n : Owns(i, s)
      BY <3>2 DEF IInv, FreeListQueue, SlotsHaveOwners
    <3>4. i - 1 \in 1 .. n - 1 /\ i - 1 + 1 = i
      BY <1>14, <3>1, <3>3
    <3>5. Owns(i - 1, s)' <=> Owns(i - 1 + 1, s)
      BY <1>13, <3>4
    <3> QED BY <1>2, <3>3, <3>4, <3>5
  <2> QED BY <2>1, <2>2, <2>3, <2>4 DEF FreeListQueue
<1>16. CheckpointsSplitFl'
  <2>1. ASSUME NEW b \in UnresolvedUpTo(Len(window))'
        PROVE  /\ Kept(b)' = IF writes THEN Kept(b + 1) - 1 ELSE Kept(b + 1)
               /\ Kept(b + 1) \in 0 .. Allocated
               /\ writes => Kept(b + 1) \in 1 .. Allocated
    <3>1. Kept(b + 1) \in 0 .. Allocated /\ b + 1 \in 1 .. n /\ 1 <= b + 1
      BY <1>3, <1>5 DEF IInv, CheckpointsSplitFl
    <3>2. writes => Kept(b + 1) \in 1 .. Allocated
      <4>1. ASSUME writes
            PROVE  PositionInFl(slot) < Kept(b + 1)
        BY <1>1, <1>5, <1>9, <1>10, <3>1, <4>1 DEF IInv, CheckpointsSplitFl
      <4> QED BY <1>10, <3>1, <4>1
    <3>3. Kept(b)' = Occupancy(FlBase', checkpoints[window[b + 1].branch_ID].fl_head,
                               FlLength)
      BY <1>1, <1>5 DEF Kept
    <3>4. checkpoints[window[b + 1].branch_ID].fl_head \in Cursor(FlLength)
      <4>1. window[b + 1].branch_ID \in BranchIDs
        BY <1>5 DEF IInv, InstructionOK, UnresolvedUpTo
      <4>2. checkpoints[window[b + 1].branch_ID] \in Checkpoint
        BY <4>1 DEF IInv, TypeOK
      <4> QED BY <4>2 DEF Checkpoint
    <3>5. CASE writes
      <4>1. Kept(b + 1) \in 1 .. FlLength
        BY <1>9, <3>2, <3>5
      <4> QED BY <1>4, <1>9, <3>1, <3>2, <3>3, <3>4, <3>5, <4>1, PopOccupancy DEF Kept
    <3>6. CASE ~writes
      BY <1>4, <3>1, <3>3, <3>6 DEF Kept
    <3> QED BY <3>5, <3>6
  <2>2. \A b \in UnresolvedUpTo(Len(window))' : Kept(b)' \in 0 .. Allocated'
    BY <1>9, <1>10, <1>11, <2>1
  <2>3. ASSUME NEW b \in UnresolvedUpTo(Len(window))',
               NEW j \in 1 .. Len(window'), NEW s \in FlSlots, Owns(j, s)'
        PROVE  j <= b <=> PositionInFl(s)' < Kept(b)'
    <3>1. j \in 1 .. n - 1 /\ j + 1 \in 1 .. n /\ 1 < j + 1
      BY <1>2
    <3>2. Owns(j + 1, s)
      BY <1>13, <2>3, <3>1
    <3>3. j + 1 <= b + 1 <=> PositionInFl(s) < Kept(b + 1)
      BY <1>5, <3>1, <3>2 DEF IInv, CheckpointsSplitFl
    <3>4. writes => s # slot
      BY <1>1, <1>9, <1>10, <3>1, <3>2 DEF IInv, FreeListQueue, SlotsInOrder
    <3> QED BY <1>5, <1>10, <1>12, <2>1, <3>1, <3>3, <3>4
  <2>4. ASSUME NEW b \in UnresolvedUpTo(Len(window))',
               NEW c \in UnresolvedUpTo(Len(window))', b < c
        PROVE  Kept(b)' <= Kept(c)'
    <3>1. Kept(b + 1) <= Kept(c + 1)
      BY <1>5, <2>4 DEF IInv, CheckpointsSplitFl
    <3> QED BY <1>9, <2>1, <3>1
  <2> QED BY <2>2, <2>3, <2>4 DEF CheckpointsSplitFl
<1>17. MapsFollow'
  <2>1. ASSUME NEW map, NEW m \in 0 .. n - 1, Follows(map, amt, window, m + 1)
        PROVE  Follows(map, amt', window', m)
    <3>1. /\ m \in Nat /\ amt \in [LogRegs -> PhysRegs]
          /\ writes => window[1].log \in LogRegs
          /\ \A j \in 1 .. m : SameRegisters(window'[j], window[j + 1])
      BY <1>1, <1>2 DEF IInv, TypeOK, InstructionOK, SameRegisters
    <3> QED BY <1>4, <2>1, <3>1, FollowsTail
  <2>2. Follows(rmt', amt', window', Len(window'))
    <3>1. n - 1 \in 0 .. n - 1 /\ n - 1 + 1 = n
      BY <1>1
    <3>2. Follows(rmt, amt, window, n - 1 + 1)
      BY <3>1 DEF IInv, MapsFollow
    <3> QED BY <1>1, <1>2, <2>1, <3>1, <3>2
  <2>3. ASSUME NEW b \in UnresolvedUpTo(Len(window))'
        PROVE  Follows(checkpoints'[window'[b].branch_ID].smt, amt', window', b)
    <3>1. Follows(checkpoints[window[b + 1].branch_ID].smt, amt, window, b + 1)
      BY <1>5 DEF IInv, MapsFollow
    <3>2. b \in 0 .. n - 1
      BY <1>5
    <3>3. Follows(checkpoints[window[b + 1].branch_ID].smt, amt', window', b)
      BY <2>1, <3>1, <3>2
    <3> QED BY <1>1, <1>5, <3>3
  <2> QED BY <2>2, <2>3 DEF MapsFollow
<1>18. TypeOK'
  BY <1>1, <1>2, <1>4 DEF IInv, TypeOK
<1> QED BY <1>4, <1>6, <1>7, <1>8, <1>15, <1>16, <1>17, <1>18 DEF IInv

-----------------------------------------------------------------------------
(* The theorems *)

LEMMA InitIInv == Init => IInv
<1> SUFFICES ASSUME Init PROVE IInv
  OBVIOUS
<1> DEFINE m == Cardinality(PhysRegs)
<1>1. /\ m \in Nat /\ NLog \in Nat \ {0} /\ FlLength = m - NLog
      /\ FlLength \in Nat \ {0} /\ NActive \in Nat \ {0}
  BY Sizes, RenamerAssumption, FS_CardinalityType DEF FlLength
<1>2. PICK number \in [0 .. m - 1 -> PhysRegs] :
        /\ \A i, j \in 0 .. m - 1 : number[i] = number[j] => i = j
        /\ amt = [l \in LogRegs |-> number[l]]
        /\ fl_fifo = [s \in FlSlots |-> number[s + NLog]]
  <2>1. PICK number \in Numberings :
          /\ amt = [l \in LogRegs |-> number[l]]
          /\ fl_fifo = [s \in FlSlots |-> number[s + NLog]]
    BY DEF Init
  <2>2. number \in [0 .. m - 1 -> PhysRegs] /\ DOMAIN number = 0 .. m - 1
    BY DEF Numberings
  <2>3. \A i, j \in 0 .. m - 1 : number[i] = number[j] => i = j
    BY <2>2 DEF Numberings
  <2> QED BY <2>1, <2>2, <2>3
<1> HIDE DEF m
<1>3. /\ \A l \in LogRegs : l \in 0 .. m - 1
      /\ \A s \in FlSlots : s + NLog \in 0 .. m - 1
      /\ \A l \in LogRegs, s \in FlSlots : s + NLog # l
      /\ \A s, t \in FlSlots : s + NLog = t + NLog => s = t
  BY <1>1 DEF LogRegs, FlSlots
<1>4. /\ amt \in [LogRegs -> PhysRegs] /\ fl_fifo \in [FlSlots -> PhysRegs]
      /\ \A l \in LogRegs : amt[l] = number[l]
      /\ \A s \in FlSlots : fl_fifo[s] = number[s + NLog]
  BY <1>2, <1>3
<1>5. /\ window \in Seq(Instruction) /\ Len(window) = 0
      /\ \A i : i \notin 1 .. Len(window)
  BY EmptySeq DEF Init
<1>6. /\ fl_head \in Cursor(FlLength) /\ fl_tail \in Cursor(FlLength)
      /\ al_head \in Cursor(NActive) /\ al_tail = al_head /\ FlBase = fl_head
  <2>1. /\ fl_head = [ptr |-> 0, phase |-> FALSE]
        /\ fl_tail = [ptr |-> 0, phase |-> TRUE]
        /\ al_head = [ptr |-> 0, phase |-> FALSE]
        /\ al_tail = [ptr |-> 0, phase |-> FALSE]
    BY DEF Init
  <2>2. FlBase = fl_head
    BY <2>1, Zenon DEF FlBase
  <2> QED BY <1>1, <2>1, <2>2 DEF Cursor
<1>7. Allocated = 0 /\ InActiveList = 0
  BY <1>1, <1>6, EmptyOccupancy DEF Allocated, InActiveList
<1>8. UnresolvedUpTo(Len(window)) = {}
  BY <1>5 DEF UnresolvedUpTo
<1>9. TypeOK
  <2>1. al_fifo \in [AlSlots -> ActiveListEntry]
    BY DEF Init, ActiveListEntry
  <2>2. checkpoints \in [BranchIDs -> Checkpoint]
    BY <1>4, <1>6 DEF Init, Checkpoint
  <2>3. rmt = amt /\ GBM = {}
    BY DEF Init
  <2> QED BY <1>4, <1>5, <1>6, <2>1, <2>2, <2>3 DEF TypeOK
<1>10. InstructionOK /\ CheckpointsSplitFl
  BY <1>5, <1>8 DEF InstructionOK, CheckpointsSplitFl
<1>11. ActiveListQueue
  BY <1>1, <1>5, <1>7 DEF ActiveListQueue
<1>12. BranchMasks
  <2>1. UnresolvedIDs(window, Len(window)) = {}
    BY <1>5 DEF UnresolvedIDs
  <2> QED BY <1>5, <1>8, <2>1 DEF BranchMasks, Init
<1>13. RegistersConserved
  <2>1. \A s, t \in FlSlots : fl_fifo[s] = fl_fifo[t] => s = t
    BY <1>2, <1>3, <1>4
  <2>2. \A k, l \in LogRegs : amt[k] = amt[l] => k = l
    BY <1>2, <1>3, <1>4
  <2>3. \A s \in FlSlots, l \in LogRegs : fl_fifo[s] # amt[l]
    BY <1>2, <1>3, <1>4
  <2> QED BY <2>1, <2>2, <2>3 DEF RegistersConserved
<1>14. FreeListQueue
  <2>1. \A s \in FlSlots : ~(PositionInFl(s) < 0)
    <3>1. \A s \in FlSlots : PositionInFl(s) \in 0 .. FlLength - 1
      BY <1>1, <1>6, OffsetType DEF PositionInFl, FlSlots
    <3> QED BY <3>1
  <2> QED BY <1>1, <1>5, <1>7, <2>1
          DEF FreeListQueue, OwnersHaveSlots, SlotsInOrder, SlotsHaveOwners
<1>15. MapsFollow
  <2>1. Follows(rmt, amt, window, Len(window))
    BY <1>5 DEF Follows, Init
  <2> QED BY <1>8, <2>1 DEF MapsFollow
<1> QED BY <1>9, <1>10, <1>11, <1>12, <1>13, <1>14, <1>15 DEF IInv

LEMMA NextIInv == IInv /\ [Next]_vars => IInv'
<1> SUFFICES ASSUME IInv, [Next]_vars PROVE IInv'
  OBVIOUS
<1>1. ASSUME NEW kind \in Kinds, Rename(kind.dest, kind.log, kind.checkpoint)
      PROVE  IInv'
  <2>1. kind.dest \in BOOLEAN /\ kind.log \in LogRegs /\ kind.checkpoint \in BOOLEAN
    BY RenamerAssumption DEF LogRegs
  <2> QED BY <1>1, <2>1, RenameStep
<1>2. ASSUME NEW i \in 1 .. Len(window), Dispatch(i)
      PROVE  IInv'
  BY <1>2, DispatchStep
<1>3. ASSUME NEW i \in 1 .. Len(window), Complete(i)
      PROVE  IInv'
  BY <1>3, CompleteStep
<1>4. ASSUME NEW i \in 1 .. Len(window), ResolveCorrect(i)
      PROVE  IInv'
  BY <1>4, ResolveCorrectStep
<1>5. ASSUME NEW i \in 1 .. Len(window), ResolveMispredicted(i)
      PROVE  IInv'
  BY <1>5, ResolveMispredictedStep
<1>6. CASE RetireCommit
  BY <1>6, RetireCommitStep
<1>7. CASE RetireValueMispredicted
  BY <1>7, RetireValueMispredictedStep
<1>8. CASE RetireOffending
  BY <1>8, RetireOffendingStep
<1>9. CASE UNCHANGED vars
  BY <1>9 DEF vars, IInv, TypeOK, InstructionOK, ActiveListQueue, InActiveList,
              BranchMasks, UnresolvedUpTo, RegistersConserved, FreeListQueue,
              Allocated, Owns, OwnersHaveSlots, SlotsInOrder, SlotsHaveOwners,
              PositionInFl, FlBase, CheckpointsSplitFl, Kept, MapsFollow
<1> QED BY <1>1, <1>2, <1>3, <1>4, <1>5, <1>6, <1>7, <1>8, <1>9 DEF Next

\* The inductive invariant holds.
THEOREM Invariance == Spec => []IInv
<1>1. Init => IInv
  BY InitIInv
<1>2. IInv /\ [Next]_vars => IInv'
  BY NextIInv
<1> QED BY <1>1, <1>2, PTL DEF Spec

\* Every variable of the renamer keeps its type: the indices and the pointers
\* stay inside their arrays.
THEOREM TypeCorrect == Spec => []TypeOK
<1>1. IInv => TypeOK
  BY DEF IInv
<1> QED BY <1>1, Invariance, PTL

\* No physical register is lost or held twice by free list and AMT, although the
\* list is never rewritten on a rollback (renamer.cc:392-393, 533-534) and a commit
\* writes the slot at its tail (renamer.cc:504, 584).
THEOREM Conservation == Spec => []RegistersConserved
<1>1. IInv => RegistersConserved
  BY DEF IInv
<1> QED BY <1>1, Invariance, PTL

\* The free list's allocated slots are the registers in flight, in order, so that
\* the assertions of its pop and push (renamer.cc:561, 581) hold.
THEOREM FreeListOrder == Spec => []FreeListInOrder
<1>1. ASSUME IInv
      PROVE  FreeListInOrder
  <2>1. Writers = {i \in 1 .. Len(window) : window[i].dest}
    BY DEF Writers, Abstract!WritersUpTo, Renamed
  <2>2. AllocatedSlots = {s \in FlSlots : PositionInFl(s) < Allocated}
    BY DEF AllocatedSlots, Span, FlSlots, PositionInFl, Allocated
  <2>3. Coherent(FlBase, fl_head, FlLength)
    BY <1>1 DEF IInv, FreeListQueue, Coherent, Allocated
  <2>4. \A i \in Writers : \E s \in AllocatedSlots : fl_fifo[s] = window[i].phys
    BY <1>1, <2>1, <2>2 DEF IInv, FreeListQueue, OwnersHaveSlots, Owns
  <2>5. \A i, j \in Writers : \A s, t \in AllocatedSlots :
          i < j /\ fl_fifo[s] = window[i].phys /\ fl_fifo[t] = window[j].phys
            => PositionInFl(s) < PositionInFl(t)
    BY <1>1, <2>1, <2>2 DEF IInv, FreeListQueue, SlotsInOrder, Owns
  <2>6. \A s \in AllocatedSlots : \E i \in Writers : window[i].phys = fl_fifo[s]
    BY <1>1, <2>1, <2>2 DEF IInv, FreeListQueue, SlotsHaveOwners, Owns
  <2> QED BY <2>3, <2>4, <2>5, <2>6 DEF FreeListInOrder
<1> QED BY <1>1, Invariance, PTL

LEMMA MapsPreciseIfIInv == IInv => MapsPrecise
<1> SUFFICES ASSUME IInv PROVE MapsPrecise
  OBVIOUS
<1>1. Len(window) \in Nat /\ TypeOK
  BY Shape DEF IInv
<1>2. rmt = Abstract!MapAfter(Len(window))
  <2>1. /\ rmt \in [LogRegs -> PhysRegs] /\ Len(window) \in 0 .. Len(window)
        /\ Follows(rmt, amt, window, Len(window))
    BY <1>1 DEF IInv, TypeOK, MapsFollow
  <2> QED BY <1>1, <2>1, FollowsIsMapAfter
<1>3. ASSUME NEW b \in 1 .. Len(window), window[b].checkpoint,
             window[b].stage # "completed"
      PROVE  checkpoints[window[b].branch_ID].smt = Abstract!MapAfter(b)
  <2>1. b \in UnresolvedUpTo(Len(window)) /\ b \in 0 .. Len(window)
    BY <1>3 DEF UnresolvedUpTo
  <2>2. Follows(checkpoints[window[b].branch_ID].smt, amt, window, b)
    BY <2>1 DEF IInv, MapsFollow
  <2>3. checkpoints[window[b].branch_ID].smt \in [LogRegs -> PhysRegs]
    <3>1. checkpoints[window[b].branch_ID] \in Checkpoint
      BY <1>3 DEF IInv, TypeOK, InstructionOK
    <3> QED BY <3>1 DEF Checkpoint
  <2> QED BY <1>1, <2>1, <2>2, <2>3, FollowsIsMapAfter
<1> QED BY <1>2, <1>3 DEF MapsPrecise

\* The RMT and the maps saved with branches (renamer.cc:230-232) are the ones the
\* program order prescribes.
THEOREM PreciseMaps == Spec => []MapsPrecise
  BY MapsPreciseIfIInv, Invariance, PTL

\* Masks and branch IDs single out the instructions younger than a branch, which
\* is what resolution squashes by (squash.cc:130-148).
THEOREM ExactMasks == Spec => []BranchMasksExact
<1>1. ASSUME IInv
      PROVE  BranchMasksExact
  <2>1. ASSUME NEW n \in 0 .. Len(window)
        PROVE  IDsOf(UnresolvedUpTo(n)) = UnresolvedIDs(window, n)
    <3>1. \A i \in 1 .. n : i \in 1 .. Len(window)
      BY <1>1, Shape DEF IInv
    <3> QED BY <1>1, <3>1
            DEF IInv, InstructionOK, IDsOf, UnresolvedUpTo, UnresolvedIDs
  <2>2. /\ Len(window) \in 0 .. Len(window)
        /\ \A i \in 1 .. Len(window) : i - 1 \in 0 .. Len(window)
        /\ \A i \in UnresolvedUpTo(Len(window)) : i \in 1 .. Len(window)
    BY <1>1, Shape DEF IInv, UnresolvedUpTo
  <2>3. \A i \in 1 .. Len(window) :
          IDsOf(UnresolvedUpTo(i - 1)) = UnresolvedIDs(window, i - 1)
    BY <2>1, <2>2
  <2>4. IDsOf(UnresolvedUpTo(Len(window))) = UnresolvedIDs(window, Len(window))
    BY <2>1, <2>2
  <2> QED BY <1>1, <2>2, <2>3, <2>4, ZenonT(60) DEF IInv, BranchMasks, BranchMasksExact
<1> QED BY <1>1, Invariance, PTL

\* The active list holds the dispatched instructions in program order, also after
\* the phase of its tail was inferred (renamer.cc:413-418).
THEOREM ActiveListOrder == Spec => []ActiveListInStep
<1>1. ASSUME IInv
      PROVE  ActiveListInStep
  <2>1. /\ InActiveList \in Nat /\ InActiveList \in 0 .. NActive
        /\ InActiveList <= Len(window) /\ Len(window) \in Nat
    BY <1>1, Shape, Sizes DEF IInv, ActiveListQueue
  <2>2. Dispatched = 1 .. InActiveList
    BY <1>1, <2>1 DEF Dispatched, IInv, ActiveListQueue
  <2>3. Cardinality(1 .. InActiveList) = InActiveList
    BY <2>1, FS_Interval
  <2>4. ASSUME NEW i \in Dispatched
        PROVE  LET entry == al_fifo[window[i].AL_index]
               IN /\ Offset(al_head, window[i].AL_index, NActive) = i - 1
                  /\ entry.dest = window[i].dest
                  /\ entry.dest => /\ entry.log = window[i].log
                                   /\ entry.phys = window[i].phys
                  /\ entry.completed <=> window[i].stage = "completed"
    <3>1. i \in 1 .. InActiveList
      BY <2>2
    <3> QED BY <1>1, <3>1 DEF IInv, ActiveListQueue
  <2> QED BY <2>1, <2>2, <2>3, <2>4
          DEF ActiveListInStep, Coherent, InActiveList
<1> QED BY <1>1, Invariance, PTL

-----------------------------------------------------------------------------
(* Renamer implements RenamerSpec *)

Version ==
  [dest : BOOLEAN, log : LogRegs \cup {Junk}, phys : PhysRegs \cup {Junk}]

VersionOf(x) == [dest |-> x.dest, log |-> x.log, phys |-> x.phys]

\* Renamed with the window as a parameter
VersionsOf(w) == [i \in 1 .. Len(w) |-> VersionOf(w[i])]

LEMMA VersionsType ==
  ASSUME NEW w \in Seq(Instruction)
  PROVE  /\ VersionsOf(w) \in Seq(Version)
         /\ Len(VersionsOf(w)) = Len(w)
         /\ \A i \in 1 .. Len(w) : VersionsOf(w)[i] = VersionOf(w[i])
<1>1. Len(w) \in Nat /\ \A i \in 1 .. Len(w) : w[i] \in Instruction
  BY LenProperties, ElementOfSeq
<1>2. \A i \in 1 .. Len(w) : VersionOf(w[i]) \in Version
  BY <1>1 DEF VersionOf, Version, Instruction
<1>3. VersionsOf(w) \in [1 .. Len(w) -> Version]
  BY <1>2 DEF VersionsOf
<1>4. VersionsOf(w) \in Seq(Version)
  BY <1>1, <1>3, SeqDef
<1>5. /\ DOMAIN VersionsOf(w) = 1 .. Len(VersionsOf(w))
      /\ Len(VersionsOf(w)) \in Nat
      /\ DOMAIN VersionsOf(w) = 1 .. Len(w)
  BY <1>4, LenProperties DEF VersionsOf
<1>6. Len(VersionsOf(w)) = Len(w)
  BY <1>1, <1>5
<1> QED BY <1>4, <1>6 DEF VersionsOf

LEMMA RenamedIsVersions ==
  Renamed = VersionsOf(window) /\ Renamed' = VersionsOf(window')
  BY DEF Renamed, VersionsOf, VersionOf

\* Two windows with the same registers are the same to RenamerSpec.
LEMMA SameVersions ==
  ASSUME NEW v, NEW w, Len(v) = Len(w),
         \A i \in 1 .. Len(w) : SameRegisters(v[i], w[i])
  PROVE  VersionsOf(v) = VersionsOf(w)
  BY DEF VersionsOf, VersionOf, SameRegisters

LEMMA InitRefines == Init => Abstract!Init
<1> SUFFICES ASSUME Init PROVE Abstract!Init
  OBVIOUS
<1>1. IInv
  BY InitIInv
<1>2. Renamed = <<>>
  <2>1. window = <<>> /\ window \in Seq(Instruction) /\ Len(window) = 0
    BY EmptySeq DEF Init
  <2>2. Renamed \in Seq(Version) /\ Len(Renamed) = 0
    BY <2>1, VersionsType, RenamedIsVersions
  <2> QED BY <2>2, EmptySeq
<1> QED BY <1>1, <1>2 DEF Abstract!Init, IInv, TypeOK, RegistersConserved, Init

LEMMA IntervalEnd ==
  ASSUME NEW m \in Nat, NEW n \in Nat, 1 .. m = 1 .. n
  PROVE  m = n
<1>1. ~ m < n
  <2> SUFFICES ASSUME m < n PROVE n \in 1 .. m
    OBVIOUS
  <2>1. n \in 1 .. n
    OBVIOUS
  <2> QED BY <2>1
<1>2. ~ n < m
  <2> SUFFICES ASSUME n < m PROVE m \in 1 .. n
    OBVIOUS
  <2>1. m \in 1 .. m
    OBVIOUS
  <2> QED BY <2>1
<1> QED BY <1>1, <1>2

\* Dispatch and completion are not visible.
LEMMA StutterRefines ==
  ASSUME IInv, IInv', NEW i \in 1 .. Len(window),
         Dispatch(i) \/ Complete(i) \/ ResolveCorrect(i)
  PROVE  UNCHANGED Abstract!specVars
<1>1. /\ window \in Seq(Instruction) /\ window' \in Seq(Instruction)
      /\ \A j \in 1 .. Len(window) : window[j] \in Instruction
      /\ DOMAIN window = 1 .. Len(window) /\ Len(window) \in Nat
      /\ DOMAIN window' = 1 .. Len(window') /\ Len(window') \in Nat
  BY LenProperties, ElementOfSeq DEF IInv, TypeOK
<1>2. DOMAIN window' = 1 .. Len(window)
  BY <1>1 DEF Dispatch, Complete, ResolveCorrect
<1>3. Len(window') = Len(window)
  BY <1>1, <1>2, IntervalEnd
<1>4. ASSUME NEW j \in 1 .. Len(window)
      PROVE  SameRegisters(window'[j], window[j])
  <2>1. window[j] \in Instruction /\ j \in DOMAIN window
    BY <1>1
  <2>2. CASE Dispatch(i)
    BY <2>1, <2>2 DEF Dispatch, SameRegisters, Instruction
  <2>3. CASE Complete(i)
    BY <2>1, <2>3 DEF Complete, SameRegisters, Instruction
  <2>4. CASE ResolveCorrect(i)
    BY <2>1, <2>4 DEF ResolveCorrect, SameRegisters, Instruction
  <2> QED BY <2>2, <2>3, <2>4
<1>5. Renamed' = Renamed
  BY <1>3, <1>4, SameVersions, RenamedIsVersions
<1>6. UNCHANGED <<rmt, amt>>
  BY DEF Dispatch, Complete, ResolveCorrect
<1> QED BY <1>5, <1>6 DEF Abstract!specVars

\* A renamed destination is a register nothing else refers to.
LEMMA RenameRefines ==
  ASSUME IInv, IInv', NEW dest \in BOOLEAN, NEW log \in LogRegs,
         NEW checkpoint \in BOOLEAN, Rename(dest, log, checkpoint)
  PROVE  Abstract!Add
<1> PICK n \in Nat : n = Len(window)
  BY Shape DEF IInv
<1> DEFINE phys  == fl_fifo[fl_head.ptr]
           added == [dest |-> dest, log |-> IF dest THEN log ELSE Junk,
                     phys |-> IF dest THEN phys ELSE Junk]
           entry == [dest |-> dest, log |-> IF dest THEN log ELSE Junk,
                     phys |-> IF dest THEN phys ELSE Junk,
                     checkpoint |-> checkpoint,
                     branch_ID |-> IF checkpoint THEN FirstFree(GBM) ELSE Junk,
                     branch_mask |-> GBM, AL_index |-> Junk,
                     stage |-> "renamed"]
<1>1. /\ window \in Seq(Instruction) /\ window' \in Seq(Instruction)
      /\ fl_head.ptr \in FlSlots /\ phys \in PhysRegs
      /\ window' = Append(window, entry)
      /\ rmt' = IF dest THEN [rmt EXCEPT ![log] = phys] ELSE rmt
      /\ amt' = amt
      /\ dest => ~IsEmpty(fl_head, fl_tail)
  <2>1. fl_head.ptr \in FlSlots
    BY Shape, Sizes DEF IInv, Cursor, FlSlots
  <2> QED BY <2>1 DEF IInv, TypeOK, Rename
<1>2. entry \in Instruction
  <2>1. checkpoint => FirstFree(GBM) \in BranchIDs
    BY FirstFreeType DEF IInv, TypeOK, Rename
  <2>2. GBM \in SUBSET BranchIDs
    BY DEF IInv, TypeOK
  <2> HIDE DEF phys
  <2> QED BY <1>1, <2>1, <2>2 DEF Instruction, Stages
<1>3. VersionOf(entry) = added
  BY DEF VersionOf
<1>4. added \in Version
  BY <1>1 DEF Version
<1> HIDE DEF entry
<1>5. /\ Len(window') = n + 1 /\ window'[n + 1] = entry
      /\ \A i \in 1 .. n : window'[i] = window[i]
  BY <1>1, <1>2, AppendProperties
<1>6. /\ Renamed \in Seq(Version) /\ Len(Renamed) = n
      /\ \A i \in 1 .. n : Renamed[i] = VersionOf(window[i])
      /\ Renamed' \in Seq(Version) /\ Len(Renamed') = n + 1
      /\ \A i \in 1 .. n + 1 : Renamed'[i] = VersionOf(window'[i])
  BY <1>1, <1>5, VersionsType, RenamedIsVersions
<1>7. Renamed'[n + 1] = added /\ \A i \in 1 .. n : Renamed'[i] = Renamed[i]
  <2>1. /\ n + 1 \in 1 .. n + 1
        /\ \A i \in 1 .. n : i \in 1 .. n + 1
    OBVIOUS
  <2> QED BY <1>3, <1>5, <1>6, <2>1
<1> HIDE DEF added
<1>8. Renamed' = Append(Renamed, added)
  <2>1. /\ Append(Renamed, added) \in Seq(Version)
        /\ Len(Append(Renamed, added)) = n + 1
        /\ \A i \in 1 .. n : Append(Renamed, added)[i] = Renamed[i]
        /\ Append(Renamed, added)[n + 1] = added
    BY <1>4, <1>6, AppendProperties
  <2>2. \A i \in 1 .. n + 1 : Renamed'[i] = Append(Renamed, added)[i]
    BY <1>7, <2>1
  <2> QED BY <1>6, <2>1, <2>2, SeqEqual
<1>9. CASE dest
  <2>1. /\ added.dest /\ added.log = log /\ added.phys = phys
    BY <1>9 DEF added
  <2>2. phys \in Abstract!FreeRegs
    <3>1. \A l \in LogRegs : amt[l] # phys
      BY <1>1 DEF IInv, RegistersConserved
    <3>2. ASSUME NEW i \in Abstract!WritersUpTo(Len(Renamed))
          PROVE  Renamed[i].phys # phys
      <4>1. /\ i \in 1 .. n /\ window[i].dest
            /\ Renamed[i].phys = window[i].phys
        <5>1. i \in 1 .. Len(Renamed) /\ Renamed[i].dest
          BY DEF Abstract!WritersUpTo
        <5>2. i \in 1 .. n /\ Renamed[i] = VersionOf(window[i])
          BY <1>6, <5>1
        <5> QED BY <5>1, <5>2 DEF VersionOf
      <4>2. PICK s \in FlSlots : Owns(i, s)
        BY <4>1 DEF IInv, FreeListQueue, OwnersHaveSlots
      <4>3. PositionInFl(fl_head.ptr) = Allocated /\ Allocated \in Nat
        BY <1>1, <1>9, NextFree, Sizes
      <4>4. s # fl_head.ptr
        BY <4>2, <4>3 DEF Owns
      <4> QED BY <1>1, <4>1, <4>2, <4>4 DEF Owns, IInv, RegistersConserved
    <3> QED BY <1>1, <3>1, <3>2 DEF Abstract!FreeRegs
  <2>3. Abstract!AddWriter(added)
    BY <1>1, <1>8, <1>9, <2>1, <2>2 DEF Abstract!AddWriter
  <2> QED BY <1>6, <1>7, <2>3 DEF Abstract!Add
<1>10. CASE ~dest
  <2>1. ~added.dest
    BY <1>10 DEF added
  <2>2. Abstract!AddOther(added)
    BY <1>1, <1>8, <1>10, <2>1 DEF Abstract!AddOther
  <2> QED BY <1>6, <1>7, <2>2 DEF Abstract!Add
<1> QED BY <1>9, <1>10

\* Branch recovery goes back to the map after the branch.
LEMMA ResolveMispredictedRefines ==
  ASSUME IInv, IInv', NEW i \in 1 .. Len(window), ResolveMispredicted(i)
  PROVE  i \in 1 .. Len(Renamed) /\ Abstract!Recover(i)
<1> DEFINE kept == SubSeq(window, 1, i)
<1>1. /\ window \in Seq(Instruction) /\ window' \in Seq(Instruction)
      /\ Len(window) \in Nat
      /\ \A j \in 1 .. i : j \in 1 .. Len(window) /\ window[j] \in Instruction
  BY Shape DEF IInv, TypeOK
<1>2. /\ kept \in Seq(Instruction) /\ Len(kept) = i
      /\ \A j \in 1 .. i : kept[j] = window[j]
  <2>1. \A j \in 1 .. i - 1 + 1 : kept[j] = window[1 + j - 1]
    BY <1>1, SubSeqProperties
  <2> QED BY <1>1, <2>1, SubSeqProperties
<1>3. /\ window' = [kept EXCEPT ![i].stage = "completed"]
      /\ rmt' = checkpoints[window[i].branch_ID].smt /\ amt' = amt
      /\ window[i].checkpoint /\ window[i].stage = "dispatched"
  BY DEF ResolveMispredicted
<1> HIDE DEF kept
<1>4. Len(window') = i
  <2>1. DOMAIN window' = 1 .. i
    BY <1>2, <1>3, LenProperties
  <2>2. DOMAIN window' = 1 .. Len(window') /\ Len(window') \in Nat
    BY <1>1, LenProperties
  <2> QED BY <2>1, <2>2
<1>5. ASSUME NEW j \in 1 .. i
      PROVE  VersionOf(window'[j]) = VersionOf(window[j])
  <2>1. window[j] \in Instruction /\ kept[j] = window[j] /\ j \in DOMAIN kept
    BY <1>1, <1>2, LenProperties
  <2> QED BY <1>3, <2>1 DEF VersionOf, Instruction
<1>6. Renamed' = SubSeq(Renamed, 1, i)
  <2>1. /\ Renamed \in Seq(Version) /\ Len(Renamed) = Len(window)
        /\ Renamed' \in Seq(Version) /\ Len(Renamed') = i
        /\ \A j \in 1 .. i : Renamed[j] = VersionOf(window[j])
        /\ \A j \in 1 .. i : Renamed'[j] = VersionOf(window'[j])
    BY <1>1, <1>4, VersionsType, RenamedIsVersions
  <2>2. \A j \in 1 .. i : Renamed[j] \in Version
    BY <1>1, <2>1, ElementOfSeq
  <2>3. /\ SubSeq(Renamed, 1, i) \in Seq(Version)
        /\ Len(SubSeq(Renamed, 1, i)) = i
        /\ \A j \in 1 .. i - 1 + 1 : SubSeq(Renamed, 1, i)[j] = Renamed[1 + j - 1]
    BY <2>2, SubSeqProperties
  <2>4. \A j \in 1 .. i : Renamed'[j] = SubSeq(Renamed, 1, i)[j]
    BY <1>5, <2>1, <2>3
  <2> QED BY <2>1, <2>3, <2>4, SeqEqual
<1>7. rmt' = Abstract!MapAfter(i)
  BY <1>3, MapsPreciseIfIInv DEF MapsPrecise
<1>8. Len(Renamed) = Len(window)
  BY <1>1, VersionsType, RenamedIsVersions
<1> QED BY <1>3, <1>6, <1>7, <1>8 DEF Abstract!Recover

\* A commit makes the version of the oldest instruction the committed one.
LEMMA CommitRefines ==
  ASSUME IInv, HeadCompleted, Commit
  PROVE  Renamed # <<>> /\ Abstract!CommitHead
<1>1. /\ window \in Seq(Instruction) /\ 1 \in 1 .. Len(window)
      /\ Len(window) \in Nat
      /\ amt' = IF window[1].dest THEN [amt EXCEPT ![window[1].log] = window[1].phys]
                                  ELSE amt
  BY HeadEntry, CommitKeeps, Shape DEF IInv
<1>2. /\ Renamed \in Seq(Version) /\ Len(Renamed) = Len(window)
      /\ Renamed[1] = VersionOf(window[1])
  BY <1>1, VersionsType, RenamedIsVersions
<1>3. Renamed # <<>>
  BY <1>1, <1>2, EmptySeq
<1>4. Head(Renamed) = Renamed[1]
  <2>1. Len(Renamed) \in 1 .. Len(Renamed) /\ 1 \in 1 .. Len(Renamed)
    BY <1>1, <1>2
  <2> QED BY <1>2, <2>1, HeadTailOfSubSeq, SubSeqFull
<1>5. /\ Head(Renamed).dest = window[1].dest /\ Head(Renamed).log = window[1].log
      /\ Head(Renamed).phys = window[1].phys
  BY <1>2, <1>4 DEF VersionOf
<1> QED BY <1>1, <1>3, <1>5 DEF Abstract!CommitHead

LEMMA RetireRefines ==
  ASSUME IInv, IInv',
         RetireCommit \/ RetireValueMispredicted \/ RetireOffending
  PROVE  Abstract!Retire \/ Abstract!RetireAndFlush \/ Abstract!Flush
<1>1. window \in Seq(Instruction) /\ window' \in Seq(Instruction)
  BY DEF IInv, TypeOK
<1>2. window' = <<>> => Renamed' = <<>>
  <2>1. Renamed' \in Seq(Version) /\ Len(Renamed') = Len(window')
    BY <1>1, VersionsType, RenamedIsVersions
  <2> QED BY <2>1, EmptySeq
<1>3. CASE RetireCommit
  <2>1. HeadCompleted /\ Commit /\ window' = Tail(window) /\ rmt' = rmt
    BY <1>3 DEF RetireCommit
  <2>2. Renamed # <<>> /\ Abstract!CommitHead
    BY <2>1, CommitRefines
  <2>3. Renamed' = Tail(Renamed)
    <3>1. /\ Renamed \in Seq(Version) /\ Len(Renamed) = Len(window)
          /\ Renamed' \in Seq(Version) /\ Len(Renamed') = Len(window')
          /\ \A j \in 1 .. Len(window) : Renamed[j] = VersionOf(window[j])
          /\ \A j \in 1 .. Len(window') : Renamed'[j] = VersionOf(window'[j])
      BY <1>1, VersionsType, RenamedIsVersions
    <3>2. /\ window # <<>> /\ Len(window) \in Nat
      BY <1>1, <2>2, <3>1, EmptySeq, LenProperties
    <3>3. /\ Len(window') = Len(window) - 1
          /\ \A j \in 1 .. Len(window') : window'[j] = window[j + 1]
      BY <1>1, <2>1, <3>2, HeadTailProperties
    <3>4. /\ Tail(Renamed) \in Seq(Version)
          /\ Len(Tail(Renamed)) = Len(Renamed) - 1
          /\ \A j \in 1 .. Len(Tail(Renamed)) : Tail(Renamed)[j] = Renamed[j + 1]
      BY <2>2, <3>1, HeadTailProperties
    <3>5. \A j \in 1 .. Len(window') : j + 1 \in 1 .. Len(window)
      BY <3>2, <3>3
    <3>6. \A j \in 1 .. Len(Renamed') : Renamed'[j] = Tail(Renamed)[j]
      BY <3>1, <3>3, <3>4, <3>5
    <3> QED BY <3>1, <3>3, <3>4, <3>6, SeqEqual
  <2> QED BY <2>1, <2>2, <2>3 DEF Abstract!Retire
<1>4. CASE RetireValueMispredicted
  BY <1>2, <1>4, CommitRefines
     DEF RetireValueMispredicted, Squash, Abstract!RetireAndFlush
<1>5. CASE RetireOffending
  BY <1>2, <1>5 DEF RetireOffending, Squash, Abstract!Flush
<1> QED BY <1>3, <1>4, <1>5

LEMMA NextRefines ==
  IInv /\ IInv' /\ [Next]_vars => [Abstract!Next]_(Abstract!specVars)
<1> SUFFICES ASSUME IInv, IInv', [Next]_vars
             PROVE  [Abstract!Next]_(Abstract!specVars)
  OBVIOUS
<1>1. ASSUME NEW kind \in Kinds, Rename(kind.dest, kind.log, kind.checkpoint)
      PROVE  Abstract!Next
  <2>1. kind.dest \in BOOLEAN /\ kind.log \in LogRegs /\ kind.checkpoint \in BOOLEAN
    BY RenamerAssumption DEF LogRegs
  <2> QED BY <1>1, <2>1, RenameRefines DEF Abstract!Next
<1>2. ASSUME NEW i \in 1 .. Len(window),
             Dispatch(i) \/ Complete(i) \/ ResolveCorrect(i)
      PROVE  UNCHANGED Abstract!specVars
  BY <1>2, StutterRefines
<1>3. ASSUME NEW i \in 1 .. Len(window), ResolveMispredicted(i)
      PROVE  Abstract!Next
  BY <1>3, ResolveMispredictedRefines DEF Abstract!Next
<1>4. CASE RetireCommit \/ RetireValueMispredicted \/ RetireOffending
  BY <1>4, RetireRefines DEF Abstract!Next
<1>5. CASE UNCHANGED vars
  BY <1>5 DEF vars, Abstract!specVars, Renamed
<1> QED BY <1>1, <1>2, <1>3, <1>4, <1>5 DEF Next

\* Checkpoints, free list and active list of renamer.cc implement a map that follows
\* the instructions in flight: recovery (renamer.cc:392-420, 533-534) undoes the
\* younger ones, whatever the masks and lists contain.
THEOREM Implements == Spec => ImplementsRenamerSpec
<1>1. Init => Abstract!Init
  BY InitRefines
<1>2. IInv /\ IInv' /\ [Next]_vars => [Abstract!Next]_(Abstract!specVars)
  BY NextRefines
<1> QED BY <1>1, <1>2, Invariance, PTL DEF Spec, ImplementsRenamerSpec, Abstract!Spec

=============================================================================
