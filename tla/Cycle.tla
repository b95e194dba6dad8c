--------------------------------- MODULE Cycle ---------------------------------
(***************************************************************************)
(* step_micro(): what one call does besides running the stages.            *)
(*                                                                         *)
(* The instructions that retire drive the timer, the timer and the caller  *)
(* limit how many may retire in a cycle, the option -e stops the machine,  *)
(* and every BeatCycles cycles the machine looks whether it still moves.   *)
(* What retire() finds is any choice; Retirement has its inside.           *)
(***************************************************************************)
EXTENDS Integers

CONSTANTS
  CounterSize,  \* 2^32, the range of compare and of the part of count it is compared with
  RetireWidth,
  CallerLimits, \* the instret_limit the caller passes
  StopAmount,   \* stop_amt, NoStop without the option -e
  BeatCycles,   \* 0x400000
  MaxCommits    \* bound on the instructions that retire

NoStop == 0

ASSUME CycleAssumption ==
  /\ RetireWidth \in Nat \ {0} /\ BeatCycles \in Nat \ {0}
  /\ StopAmount \in Nat /\ MaxCommits \in Nat
  /\ CounterSize \in Nat /\ CounterSize > 2
  /\ CallerLimits \subseteq Nat \ {0}

VARIABLES
  count, compare,     \* state_t; of count only the 32 bits the timer looks at
  pending, ei,        \* the timer's bit and SR_EI in the status register
  instret, instret_limit,
  lane_number,        \* calls of retire() made in this cycle
  drained,            \* the pipeline was squashed, or waits behind a serializing instruction
  commit_count,       \* num_insn too
  num_insn_last_beat,
  cycle,              \* modulo BeatCycles
  hung,               \* nothing completes any more
  status              \* of step_micro(): "between" calls, "retiring", "stopped", "deadlock"

state == <<count, compare, pending, ei>>
vars == <<state, instret, instret_limit, lane_number, drained, commit_count,
          num_insn_last_beat, cycle, hung, status>>

Counter == 0 .. CounterSize - 1

\* Counters have 32 bits.
Wrapped(n) == IF n >= CounterSize THEN n - CounterSize ELSE n

next_timer == Wrapped(compare + CounterSize - count)

\* instructions since the timer was due
Overdue == Wrapped(count + CounterSize - compare)

Odd(n) == IF n % 2 = 0 THEN n + 1 ELSE n

Smaller(m, n) == IF m <= n THEN m ELSE n

\* Mutant: no | 1
EvenLimit(limit) == Smaller(limit, next_timer)

\* Mutant: only the limit of the caller
CallerLimit(limit) == limit

InstretLimit(limit) == Smaller(limit, Odd(next_timer))

\* Mutant: all instructions of this cycle are added each time (the line that is
\* commented out at the end of step_micro())
CountedAgain(n) == Wrapped(count + instret + n)

\* Mutant: no cast to 32 bits
CountedUncast(n) == count + n

Counted(n) == Wrapped(count + n)

\* Mutant: the comparison is off by one
PassesLate(n, cmp) == (count - cmp <= 0) # (count - cmp + n <= 0)

\* update_timer(): the sign of the 64-bit difference changes
Passes(n, cmp) == (count - cmp < 0) # (count - cmp + n < 0)

-----------------------------------------------------------------------------
\* The trap_t thrown by take_interrupt() ends the call; no cycle is counted.
TakeInterrupt ==
  /\ status = "between" /\ pending /\ ei
  /\ ei' = FALSE
  /\ UNCHANGED <<count, compare, pending, instret, instret_limit, lane_number, drained,
                 commit_count, num_insn_last_beat, cycle, hung, status>>

BeginCycle(limit) ==
  /\ status = "between" /\ ~(pending /\ ei)
  /\ status' = "retiring"
  /\ instret' = 0
  /\ instret_limit' = InstretLimit(limit)
  /\ lane_number' = 0
  /\ drained' = FALSE
  /\ UNCHANGED <<state, commit_count, num_insn_last_beat, cycle, hung>>

\* Mutant: off by one
StopsAfterMore(commits) == StopAmount # NoStop /\ commits > StopAmount

StopsAfter(commits) == StopAmount # NoStop /\ commits >= StopAmount

\* The loop around retire() goes on, is broken off or ends the simulation. The
\* limit is looked at first.
AfterRetire ==
  IF instret' = instret_limit
  THEN lane_number' = RetireWidth /\ UNCHANGED status
  ELSE IF StopsAfter(commit_count')
  THEN status' = "stopped" /\ UNCHANGED lane_number
  ELSE lane_number' = lane_number + 1 /\ UNCHANGED status

\* one call of retire() in which an instruction retires, with its update_timer()
RetireOne ==
  /\ status = "retiring" /\ lane_number < RetireWidth
  /\ ~drained /\ ~hung /\ commit_count < MaxCommits
  /\ instret' = instret + 1
  /\ commit_count' = commit_count + 1
  /\ count' = Counted(1)
  /\ AfterRetire
  /\ UNCHANGED <<instret_limit, num_insn_last_beat, cycle, hung>>

\* Nothing is squashed, or younger instructions are with the counters unchanged.
RetirePlain ==
  /\ RetireOne
  /\ pending' = (pending \/ Passes(1, compare))
  /\ drained' \in BOOLEAN
  /\ UNCHANGED <<compare, ei>>

\* A trap switches interrupts off, an instruction that writes the status
\* register switches them on or off.
RetireStatusChange ==
  /\ RetireOne
  /\ pending' = (pending \/ Passes(1, compare))
  /\ ei' \in BOOLEAN
  /\ drained' = TRUE
  /\ UNCHANGED compare

\* The instruction that writes the register compare acknowledges the interrupt.
RetireCompareWrite(value) ==
  /\ RetireOne
  /\ compare' = value
  /\ pending' = Passes(1, value)
  /\ drained' = TRUE
  /\ UNCHANGED ei

\* No instruction is ready, or the oldest one is squashed with all the others
\* and fetched again.
RetireNone ==
  /\ status = "retiring" /\ lane_number < RetireWidth
  /\ drained' \in {drained, TRUE}
  /\ UNCHANGED <<instret, commit_count>>
  /\ AfterRetire
  /\ UNCHANGED <<state, instret_limit, num_insn_last_beat, cycle, hung>>

\* Mutant: the last beat is not recorded
BeatForgotten == num_insn_last_beat

BeatRecorded == commit_count

\* the other stages and the bookkeeping at the end of the cycle
FinishCycle ==
  LET beat == cycle + 1 = BeatCycles
  IN /\ status = "retiring" /\ lane_number = RetireWidth
     /\ cycle' = IF beat THEN 0 ELSE cycle + 1
     /\ status' = IF beat /\ commit_count = num_insn_last_beat THEN "deadlock" ELSE "between"
     /\ num_insn_last_beat' = IF beat THEN BeatRecorded ELSE num_insn_last_beat
     /\ UNCHANGED <<state, instret, instret_limit, lane_number, drained, commit_count, hung>>

\* Something waits for ever.
Hang ==
  /\ ~hung /\ hung' = TRUE
  /\ UNCHANGED <<state, instret, instret_limit, lane_number, drained, commit_count,
                 num_insn_last_beat, cycle, status>>

Init ==
  /\ count = 0 /\ compare = 0
  /\ pending = FALSE /\ ei = FALSE
  /\ instret = 0 /\ instret_limit = 0
  /\ lane_number = 0 /\ drained = FALSE
  /\ commit_count = 0 /\ num_insn_last_beat = 0 /\ cycle = 0
  /\ hung = FALSE
  /\ status = "between"

step_micro ==
  \/ TakeInterrupt
  \/ \E limit \in CallerLimits : BeginCycle(limit)
  \/ RetirePlain \/ RetireStatusChange \/ RetireNone
  \/ \E value \in Counter : RetireCompareWrite(value)
  \/ FinishCycle

Next == step_micro \/ Hang

Spec == Init /\ [][Next]_vars

\* The simulator calls step_micro() again and again.
FairSpec == Spec /\ WF_vars(step_micro)

-----------------------------------------------------------------------------
(* Properties *)

TypeOK ==
  /\ count \in Counter /\ compare \in Counter
  /\ pending \in BOOLEAN /\ ei \in BOOLEAN /\ drained \in BOOLEAN /\ hung \in BOOLEAN
  /\ instret \in 0 .. RetireWidth /\ instret_limit \in Nat
  /\ lane_number \in 0 .. RetireWidth
  /\ commit_count \in 0 .. MaxCommits /\ num_insn_last_beat \in 0 .. MaxCommits
  /\ cycle \in 0 .. BeatCycles - 1
  /\ status \in {"between", "retiring", "stopped", "deadlock"}

\* The counter that software and the timer see has counted every retired
\* instruction once, although it is brought up to date in steps, within cycles
\* that are broken off and across calls (pipeline.cc:586-601, retire.cc:226-228).
CountsAgree == count = commit_count % CounterSize

\* The loop tests the limit with ==; it is never stepped over, not even when the
\* timer is due at once (pipeline.cc:558, 592).
WithinLimit == status = "retiring" => instret <= instret_limit

\* The timer's bit comes with the very instruction that makes the counter equal
\* to compare and with no other, through wrap-arounds and rewrites of compare.
\* A compare of 0 is the exception: it is passed unnoticed (pipeline.cc:533-539).
TimerExact ==
  [][count' # count =>
       /\ count' = compare' /\ compare' # 0 => pending'
       /\ pending' /\ ~pending => count' = compare']_vars

\* An interrupt that is due and enabled is taken before more than one further
\* instruction retires, whatever the width of the retire stage: a cycle ends at
\* the timer (pipeline.cc:558), and what rewrites compare or switches interrupts
\* on is the last to retire in its cycle.
InterruptPrompt ==
  pending /\ ei => drained \/ Overdue <= 1

\* The test for the end is skipped in a cycle that ends at the timer, so that the
\* n-th commit of the option -e need not be the last (main.cc:29).  Even so
\* the machine never gets going again past the end: a cycle that passes it
\* commits one instruction and no more (pipeline.cc:592-601).
OneMoreThanStop == StopAmount # NoStop /\ commit_count > StopAmount => instret <= 1

\* A machine in which nothing retires any more is found out (pipeline.cc:649-664).
HangReported == hung ~> status \in {"deadlock", "stopped"}
=============================================================================
