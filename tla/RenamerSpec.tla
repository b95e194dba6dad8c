---------------------------- MODULE RenamerSpec ----------------------------
(***************************************************************************)
(* What the pipeline may expect of the register renamer: a map from        *)
(* logical to physical registers that follows the instructions in flight   *)
(* in program order, and physical registers that nothing else uses.  No    *)
(* free list, no active list, no checkpoint: recovery goes back to the map *)
(* after any prefix of the instructions in flight.                         *)
(***************************************************************************)
EXTENDS Integers, Sequences

CONSTANTS LogRegs, PhysRegs

VARIABLES
  amt,      \* the committed version of each logical register
  rmt,      \* its youngest version
  inflight  \* renamed instructions in program order: records with at least
            \* the fields dest, log and phys

specVars == <<amt, rmt, inflight>>

WritersUpTo(n) == {i \in 1 .. n : inflight[i].dest}

\* The mapping after the first n instructions in flight
MapAfter(n) ==
  [l \in LogRegs |->
     LET writers == {i \in WritersUpTo(n) : inflight[i].log = l}
     IN IF writers = {} THEN amt[l]
        ELSE inflight[CHOOSE i \in writers : \A j \in writers : j <= i].phys]

\* The registers that hold neither a committed version nor one in flight
FreeRegs ==
  {p \in PhysRegs : /\ \A l \in LogRegs : amt[l] # p
                    /\ \A i \in WritersUpTo(Len(inflight)) : inflight[i].phys # p}

-----------------------------------------------------------------------------
\* An instruction with a destination gets a free register,
AddWriter(instruction) ==
  /\ instruction.dest
  /\ instruction.log \in LogRegs
  /\ instruction.phys \in FreeRegs
  /\ inflight' = Append(inflight, instruction)
  /\ rmt' = [rmt EXCEPT ![instruction.log] = instruction.phys]
  /\ UNCHANGED amt

\* any other none.
AddOther(instruction) ==
  /\ ~instruction.dest
  /\ inflight' = Append(inflight, instruction)
  /\ UNCHANGED <<amt, rmt>>

\* Recovery to the point right after the n-th instruction in flight
Recover(n) ==
  /\ inflight' = SubSeq(inflight, 1, n)
  /\ rmt' = MapAfter(n)
  /\ UNCHANGED amt

CommitHead ==
  amt' = IF Head(inflight).dest
         THEN [amt EXCEPT ![Head(inflight).log] = Head(inflight).phys]
         ELSE amt

\* The oldest instruction leaves and its version becomes the committed one.
Retire ==
  /\ inflight # <<>>
  /\ CommitHead
  /\ inflight' = Tail(inflight)
  /\ UNCHANGED rmt

\* The same, and all younger instructions are given up.
RetireAndFlush ==
  /\ inflight # <<>>
  /\ CommitHead
  /\ inflight' = <<>>
  /\ rmt' = amt'

\* Everything in flight is given up.
Flush ==
  /\ inflight' = <<>>
  /\ rmt' = amt
  /\ UNCHANGED amt

-----------------------------------------------------------------------------
Init ==
  /\ amt \in [LogRegs -> PhysRegs]
  /\ \A k, l \in LogRegs : amt[k] = amt[l] => k = l
  /\ rmt = amt
  /\ inflight = <<>>

Add == LET added == inflight'[Len(inflight')]
       IN Len(inflight') > 0 /\ (AddWriter(added) \/ AddOther(added))

Next ==
  \/ Add
  \/ \E n \in 1 .. Len(inflight) : Recover(n)
  \/ Retire
  \/ RetireAndFlush
  \/ Flush

Spec == Init /\ [][Next]_specVars
=============================================================================
