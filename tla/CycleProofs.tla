------------------------------ MODULE CycleProofs ------------------------------
(***************************************************************************)
(* Proofs about Cycle, for every width of the retire stage and every size  *)
(* of the counters.                                                        *)
(*                                                                         *)
(* The argument for the timer: while a cycle may still retire, what is     *)
(* left of its limit is at most one more than what is left until the timer *)
(* is due (Ahead).  The limit was computed from the timer at the beginning *)
(* of the cycle, and both shrink together, because whatever moves compare  *)
(* or switches interrupts on is the last to retire.                        *)
(***************************************************************************)
EXTENDS Cycle, TLAPS

\* The loop is left as soon as the limit is reached, and instret counts some of
\* the calls of retire().
LoopInv ==
  status = "retiring" =>
    /\ instret <= lane_number
    /\ instret <= instret_limit
    /\ lane_number < RetireWidth => instret < instret_limit

\* The limit and the timer
Ahead ==
  status = "retiring" /\ ei /\ ~drained =>
    /\ pending => instret_limit + Overdue <= instret + 1
    /\ ~pending => instret_limit - instret <= next_timer + 1

\* Past the end, a cycle that still retires has not committed anything yet.
StopInv ==
  StopAmount # NoStop =>
    /\ status = "retiring" /\ lane_number < RetireWidth /\ commit_count >= StopAmount
       => instret = 0
    /\ commit_count > StopAmount => instret <= 1

Inv == TypeOK /\ LoopInv /\ Ahead /\ InterruptPrompt /\ StopInv

-----------------------------------------------------------------------------
(* Arithmetic *)

\* Odd() rounds up by at most one and never gives zero.
LEMMA OddBounds ==
  ASSUME NEW n \in Nat
  PROVE Odd(n) \in Nat /\ Odd(n) >= 1 /\ Odd(n) <= n + 1
BY DEF Odd

\* The counters are natural numbers below CounterSize.
LEMMA Counters ==
  ASSUME TypeOK
  PROVE /\ next_timer \in Counter /\ Overdue \in Counter
        /\ Counted(1) \in Counter
BY CycleAssumption DEF TypeOK, next_timer, Overdue, Counted, Wrapped, Counter

\* A cycle may retire something, and not more than one instruction beyond the timer.
LEMMA LimitBounds ==
  ASSUME TypeOK, NEW limit \in CallerLimits
  PROVE /\ InstretLimit(limit) \in Nat \ {0}
        /\ InstretLimit(limit) <= next_timer + 1
<1>1. next_timer \in Nat
  BY Counters, CycleAssumption DEF Counter
<1>2. limit \in Nat \ {0}
  BY CycleAssumption
<1> QED
  BY <1>1, <1>2, OddBounds DEF InstretLimit, Smaller

\* The sign changes when the counter reaches compare.
LEMMA PassesExact ==
  ASSUME NEW a \in Counter, NEW cmp \in Counter, count = a
  PROVE Passes(1, cmp) <=> a + 1 = cmp
BY CycleAssumption DEF Passes, Counter

\* One instruction later the timer is one instruction nearer, or further behind.
LEMMA TimerMoves ==
  ASSUME TypeOK, count' = Counted(1), compare' = compare
  PROVE /\ Passes(1, compare) => next_timer' = 0 /\ Overdue' = 0 /\ next_timer = 1
        /\ next_timer # 0 => next_timer' = next_timer - 1
        /\ Overdue < CounterSize - 1 => Overdue' = Overdue + 1
        /\ next_timer' \in Counter
BY CycleAssumption DEF TypeOK, Passes, next_timer, Overdue, Counted, Wrapped, Counter

-----------------------------------------------------------------------------
(* The inductive invariant *)

LEMMA InitInv == Init => Inv
<1> SUFFICES ASSUME Init PROVE Inv
  OBVIOUS
<1>1. TypeOK
  <2>1. pending \in BOOLEAN /\ ei \in BOOLEAN /\ drained \in BOOLEAN /\ hung \in BOOLEAN
    BY Zenon DEF Init
  <2>2. count \in Counter /\ compare \in Counter /\ cycle \in 0 .. BeatCycles - 1
    BY CycleAssumption DEF Init, Counter
  <2>3. /\ instret \in 0 .. RetireWidth /\ instret_limit \in Nat
        /\ lane_number \in 0 .. RetireWidth
        /\ commit_count \in 0 .. MaxCommits /\ num_insn_last_beat \in 0 .. MaxCommits
    BY CycleAssumption DEF Init
  <2> QED
    BY <2>1, <2>2, <2>3 DEF Init, TypeOK
<1>2. LoopInv /\ Ahead
  BY DEF Init, LoopInv, Ahead
<1>3. InterruptPrompt
  BY DEF Init, InterruptPrompt
<1>4. StopInv
  BY CycleAssumption DEF Init, StopInv
<1> QED
  BY <1>1, <1>2, <1>3, <1>4 DEF Inv

\* What a call of retire() that retires an instruction does to the loop
LEMMA RetireLoop ==
  ASSUME Inv, RetireOne
  PROVE /\ LoopInv' /\ StopInv'
        /\ count' \in Counter
        /\ instret' \in 0 .. RetireWidth /\ instret_limit' \in Nat
        /\ lane_number' \in 0 .. RetireWidth
        /\ commit_count' \in 0 .. MaxCommits
        /\ status' \in {"retiring", "stopped"}
<1> USE CycleAssumption
<1>1. /\ status = "retiring" /\ lane_number < RetireWidth /\ commit_count < MaxCommits
      /\ instret' = instret + 1 /\ commit_count' = commit_count + 1
      /\ instret_limit' = instret_limit
  BY DEF RetireOne
<1>2. /\ instret <= lane_number /\ instret < instret_limit
      /\ lane_number \in Nat /\ instret \in Nat /\ instret_limit \in Nat
      /\ commit_count \in Nat
  BY <1>1 DEF Inv, TypeOK, LoopInv
<1>3. count' \in Counter
  BY Counters DEF RetireOne, Inv
<1>4. \/ lane_number' = RetireWidth /\ status' = status /\ instret' = instret_limit
      \/ /\ status' = "stopped" /\ lane_number' = lane_number
      \/ /\ lane_number' = lane_number + 1 /\ status' = status /\ instret' # instret_limit
         /\ StopAmount # NoStop => commit_count' < StopAmount
  BY <1>1, <1>2 DEF RetireOne, AfterRetire, StopsAfter
<1>5. LoopInv'
  BY <1>1, <1>2, <1>4 DEF LoopInv
<1>6. StopAmount # NoStop /\ commit_count' > StopAmount => instret' <= 1
  BY <1>1, <1>2 DEF Inv, StopInv
<1>7. StopInv'
  BY <1>1, <1>2, <1>4, <1>6 DEF StopInv
<1> QED
  BY <1>1, <1>2, <1>3, <1>4, <1>5, <1>7

\* and what it does to the timer when compare and SR_EI stay as they are
LEMMA RetireTimer ==
  ASSUME Inv, RetirePlain, ei, ~drained'
  PROVE /\ pending' => instret_limit' + Overdue' <= instret' + 1
        /\ ~pending' => instret_limit' - instret' <= next_timer' + 1
        /\ pending' => Overdue' <= 1
<1> USE CycleAssumption
<1>1. /\ status = "retiring" /\ ~drained /\ lane_number < RetireWidth
      /\ instret' = instret + 1 /\ instret_limit' = instret_limit
      /\ count' = Counted(1) /\ compare' = compare
      /\ pending' = (pending \/ Passes(1, compare))
  BY DEF RetirePlain, RetireOne
<1>2. instret < instret_limit /\ instret \in Nat /\ instret_limit \in Nat
  BY <1>1 DEF Inv, TypeOK, LoopInv
<1>3. TypeOK /\ next_timer \in Counter /\ Overdue \in Counter
  BY Counters DEF Inv
<1>4. /\ pending => instret_limit + Overdue <= instret + 1
      /\ ~pending => instret_limit - instret <= next_timer + 1
  BY <1>1 DEF Inv, Ahead
<1>5. /\ Passes(1, compare) => next_timer' = 0 /\ Overdue' = 0 /\ next_timer = 1
      /\ next_timer # 0 => next_timer' = next_timer - 1
      /\ Overdue < CounterSize - 1 => Overdue' = Overdue + 1
      /\ next_timer' \in Counter
  BY <1>1, <1>3, TimerMoves
<1>6. CASE pending
  <2>1. Overdue = 0 /\ instret_limit = instret + 1
    BY <1>2, <1>3, <1>4, <1>6 DEF Counter
  <2>2. Overdue' = 1
    BY <1>5, <2>1
  <2>3. pending'
    BY <1>1, <1>6, Zenon
  <2> QED
    BY <1>1, <1>2, <2>1, <2>2, <2>3
<1>7. CASE ~pending /\ Passes(1, compare)
  <2>1. instret_limit - instret <= 2 /\ Overdue' = 0
    BY <1>4, <1>5, <1>7
  <2>2. pending'
    BY <1>1, <1>7, Zenon
  <2> QED
    BY <1>1, <1>2, <2>1, <2>2
<1>8. CASE ~pending /\ ~Passes(1, compare)
  <2>1. instret_limit - instret <= next_timer + 1 /\ next_timer \in Nat /\ next_timer' \in Nat
    BY <1>3, <1>4, <1>5, <1>8 DEF Counter
  <2>3. next_timer # 0 => next_timer' = next_timer - 1
    BY <1>5
  <2>4. instret_limit - (instret + 1) <= next_timer' + 1
    <3>1. CASE next_timer = 0
      <4>1. instret_limit - instret <= 1
        BY <2>1, <3>1
      <4>2. instret_limit - (instret + 1) <= 0
        BY <1>2, <4>1
      <4>3. \A n \in Nat : instret_limit - (instret + 1) <= n + 1
        BY <1>2, <4>2
      <4> QED
        BY <2>1, <4>3
    <3>2. CASE next_timer # 0
      BY <1>2, <2>1, <2>3, <3>2
    <3> QED
      BY <3>1, <3>2
  <2>2. ~pending'
    BY <1>1, <1>8, Zenon
  <2> QED
    BY <1>1, <2>2, <2>4
<1> QED
  BY <1>6, <1>7, <1>8

\* Every step preserves the invariant.
LEMMA NextInv == Inv /\ [Next]_vars => Inv'
<1> SUFFICES ASSUME Inv, [Next]_vars PROVE Inv'
  OBVIOUS
<1> USE CycleAssumption
<1>1. CASE TakeInterrupt
  BY <1>1 DEF TakeInterrupt, Inv, TypeOK, LoopInv, Ahead, InterruptPrompt, StopInv
<1>2. ASSUME NEW limit \in CallerLimits, BeginCycle(limit)
      PROVE Inv'
  <2>1. /\ InstretLimit(limit) \in Nat \ {0}
        /\ InstretLimit(limit) <= next_timer + 1
    BY LimitBounds DEF Inv
  <2>2. TypeOK'
    <3>1. /\ instret' = 0 /\ lane_number' = 0 /\ instret_limit' = InstretLimit(limit)
          /\ drained' = FALSE /\ status' = "retiring"
          /\ count' = count /\ compare' = compare /\ pending' = pending /\ ei' = ei
          /\ commit_count' = commit_count /\ num_insn_last_beat' = num_insn_last_beat
          /\ cycle' = cycle /\ hung' = hung
      BY <1>2 DEF BeginCycle, state
    <3>2. drained' \in BOOLEAN
      BY <3>1, Zenon
    <3>3. instret' \in 0 .. RetireWidth /\ lane_number' \in 0 .. RetireWidth
      BY <3>1
    <3> QED
      BY <2>1, <3>1, <3>2, <3>3 DEF Inv, TypeOK
  <2>3. LoopInv' /\ StopInv'
    BY <1>2, <2>1 DEF BeginCycle, LoopInv, StopInv
  <2>4. next_timer' = next_timer /\ Overdue' = Overdue
    BY <1>2 DEF BeginCycle, state, next_timer, Overdue, Wrapped
  <2>5. Ahead' /\ InterruptPrompt'
    BY <1>2, <2>1, <2>4, Counters DEF BeginCycle, Inv, Ahead, InterruptPrompt, state, Counter
  <2> QED
    BY <2>2, <2>3, <2>5 DEF Inv
<1>3. CASE RetirePlain
  <2>1. RetireOne
    BY <1>3 DEF RetirePlain
  <2>2. TypeOK'
    BY <1>3, <2>1, RetireLoop DEF RetirePlain, RetireOne, Inv, TypeOK
  <2>3. Ahead' /\ InterruptPrompt'
    BY <1>3, RetireTimer DEF RetirePlain, Ahead, InterruptPrompt
  <2> QED
    BY <2>1, <2>2, <2>3, RetireLoop DEF Inv
<1>4. CASE RetireStatusChange
  <2>1. RetireOne /\ drained'
    BY <1>4 DEF RetireStatusChange
  <2>2. TypeOK'
    BY <1>4, <2>1, RetireLoop DEF RetireStatusChange, RetireOne, Inv, TypeOK
  <2> QED
    BY <2>1, <2>2, RetireLoop DEF Inv, Ahead, InterruptPrompt
<1>5. ASSUME NEW value \in Counter, RetireCompareWrite(value)
      PROVE Inv'
  <2>1. RetireOne /\ drained'
    BY <1>5 DEF RetireCompareWrite
  <2>2. TypeOK'
    BY <1>5, <2>1, RetireLoop DEF RetireCompareWrite, RetireOne, Inv, TypeOK, Passes
  <2> QED
    BY <2>1, <2>2, RetireLoop DEF Inv, Ahead, InterruptPrompt
<1>6. CASE RetireNone
  <2>1. TypeOK' /\ LoopInv' /\ StopInv'
    <3>1. /\ status = "retiring" /\ lane_number < RetireWidth
          /\ instret' = instret /\ instret_limit' = instret_limit
          /\ commit_count' = commit_count
          /\ \/ lane_number' = RetireWidth /\ status' = status
             \/ status' = "stopped" /\ lane_number' = lane_number
             \/ lane_number' = lane_number + 1 /\ status' = status
      BY <1>6 DEF RetireNone, AfterRetire
    <3>2. /\ instret <= lane_number /\ instret < instret_limit /\ lane_number \in Nat
          /\ instret \in Nat /\ instret_limit \in Nat
      BY <3>1 DEF Inv, LoopInv, TypeOK
    <3>3. LoopInv'
      BY <3>1, <3>2 DEF LoopInv
    <3>4. StopInv'
      BY <3>1, <3>2 DEF Inv, StopInv
    <3>5. lane_number' \in 0 .. RetireWidth /\ status' \in {"retiring", "stopped"}
      BY <3>1, <3>2
    <3>6. /\ count' = count /\ compare' = compare /\ pending' = pending /\ ei' = ei
          /\ drained' \in {drained, TRUE} /\ hung' = hung /\ cycle' = cycle
          /\ num_insn_last_beat' = num_insn_last_beat
      BY <1>6 DEF RetireNone, state
    <3>7. TypeOK'
      <4>1. drained' \in BOOLEAN
        BY <3>6, Zenon DEF Inv, TypeOK
      <4> QED
        BY <3>1, <3>5, <3>6, <4>1 DEF Inv, TypeOK
    <3> QED
      BY <3>3, <3>4, <3>7
  <2>2. next_timer' = next_timer /\ Overdue' = Overdue
    BY <1>6 DEF RetireNone, state, next_timer, Overdue, Wrapped
  <2>3. Ahead' /\ InterruptPrompt'
    <3>1. /\ status = "retiring" /\ ei' = ei /\ pending' = pending
          /\ instret' = instret /\ instret_limit' = instret_limit
      BY <1>6 DEF RetireNone, state
    <3>2. ~drained' => ~drained
      BY <1>6, Zenon DEF RetireNone
    <3>3. CASE drained'
      BY <3>3 DEF Ahead, InterruptPrompt
    <3>4. CASE ~drained'
      BY <2>2, <3>1, <3>2, <3>4 DEF Inv, Ahead, InterruptPrompt
    <3> QED
      BY <3>3, <3>4
  <2> QED
    BY <2>1, <2>3 DEF Inv
<1>7. CASE FinishCycle
  <2>1. TypeOK'
    BY <1>7 DEF FinishCycle, BeatRecorded, Inv, TypeOK, state
  <2>2. LoopInv' /\ Ahead' /\ StopInv'
    BY <1>7 DEF FinishCycle, Inv, LoopInv, Ahead, StopInv
  <2>3. InterruptPrompt'
    <3>1. /\ status = "retiring" /\ ei' = ei /\ pending' = pending /\ drained' = drained
          /\ Overdue' = Overdue
      BY <1>7 DEF FinishCycle, state, Overdue, Wrapped
    <3>2. pending /\ ei => drained \/ Overdue <= 1
      BY DEF Inv, InterruptPrompt
    <3> QED
      BY <3>1, <3>2, Zenon DEF InterruptPrompt
  <2> QED
    BY <2>1, <2>2, <2>3 DEF Inv
<1>8. CASE Hang
  BY <1>8 DEF Hang, Inv, TypeOK, LoopInv, Ahead, InterruptPrompt, StopInv, state,
              next_timer, Overdue, Wrapped
<1>9. CASE UNCHANGED vars
  BY <1>9 DEF vars, Inv, TypeOK, LoopInv, Ahead, InterruptPrompt, StopInv, state,
              next_timer, Overdue, Wrapped
<1> QED
  BY <1>1, <1>2, <1>3, <1>4, <1>5, <1>6, <1>7, <1>8, <1>9 DEF Next, step_micro

-----------------------------------------------------------------------------
\* The inductive invariant holds in every reachable state.
THEOREM Invariance == Spec => []Inv
BY InitInv, NextInv, PTL DEF Spec

\* Every variable keeps its type.
THEOREM TypeCorrect == Spec => []TypeOK
<1>1. Inv => TypeOK
  BY DEF Inv
<1> QED
  BY <1>1, Invariance, PTL

\* The loop around retire() never steps over its limit.
THEOREM LimitKept == Spec => []WithinLimit
<1>1. Inv => WithinLimit
  BY DEF Inv, LoopInv, WithinLimit
<1> QED
  BY <1>1, Invariance, PTL

\* A timer interrupt that is due and enabled is taken within one instruction.
THEOREM Prompt == Spec => []InterruptPrompt
<1>1. Inv => InterruptPrompt
  BY DEF Inv
<1> QED
  BY <1>1, Invariance, PTL

\* Past the end of the simulation a cycle commits at most one instruction.
THEOREM StopSoon == Spec => []OneMoreThanStop
<1>1. Inv => OneMoreThanStop
  BY DEF Inv, StopInv, OneMoreThanStop
<1> QED
  BY <1>1, Invariance, PTL

\* The timer's bit comes with the instruction that reaches compare.
THEOREM TimerBit == Spec => TimerExact
<1> DEFINE Exact == count' # count =>
                      /\ count' = compare' /\ compare' # 0 => pending'
                      /\ pending' /\ ~pending => count' = compare'
<1>1. Inv /\ [Next]_vars => [Exact]_vars
  <2> SUFFICES ASSUME Inv, [Next]_vars, count' # count PROVE Exact
    OBVIOUS
  <2>1. PICK cmp \in Counter :
          /\ compare' = cmp /\ count' = Counted(1)
          /\ pending' = Passes(1, cmp) \/ pending' = (pending \/ Passes(1, cmp))
    BY DEF Next, step_micro, TakeInterrupt, BeginCycle, RetirePlain, RetireStatusChange,
           RetireCompareWrite, RetireNone, RetireOne, FinishCycle, Hang, state, vars,
           Inv, TypeOK
  <2>2. count \in Counter
    BY DEF Inv, TypeOK
  <2>3. Passes(1, cmp) <=> count + 1 = cmp
    BY <2>2, PassesExact
  <2>4. /\ count' = cmp /\ cmp # 0 => count + 1 = cmp
        /\ count + 1 = cmp => count' = cmp
    BY <2>1, <2>2, CycleAssumption DEF Counted, Wrapped, Counter
  <2> QED
    BY <2>1, <2>3, <2>4, Zenon
<1> QED
  BY <1>1, Invariance, PTL DEF Spec, TimerExact

-----------------------------------------------------------------------------
(* The two counts of retired instructions *)

\* The counter has wrapped around a whole number of times.
Laps == \E laps \in Nat : commit_count = laps * CounterSize + count

LEMMA ModUnique ==
  ASSUME NEW C \in Nat \ {0}, NEW q \in Nat, NEW r \in 0 .. C - 1
  PROVE (q * C + r) % C = r
OBVIOUS

\* The counter has counted every retired instruction once.
THEOREM CountsExact == Spec => []CountsAgree
<1> USE CycleAssumption
<1>1. Init => Laps
  <2> SUFFICES ASSUME Init PROVE commit_count = 0 * CounterSize + count
    BY DEF Laps
  <2> QED
    BY DEF Init
<1>2. Inv /\ Laps /\ [Next]_vars => Laps'
  <2> SUFFICES ASSUME Inv, Laps, [Next]_vars PROVE Laps'
    OBVIOUS
  <2>1. count \in Counter /\ commit_count \in Nat
    BY DEF Inv, TypeOK
  <2>2. PICK laps \in Nat : commit_count = laps * CounterSize + count
    BY DEF Laps
  <2>3. CASE RetireOne
    <3>1. commit_count' = commit_count + 1 /\ count' = Counted(1)
      BY <2>3 DEF RetireOne
    <3>4. /\ laps * CounterSize \in Nat /\ laps + 1 \in Nat
          /\ (laps + 1) * CounterSize = laps * CounterSize + CounterSize
      OBVIOUS
    <3>2. CASE count + 1 = CounterSize
      <4>1. count' = 0
        BY <2>1, <3>1, <3>2 DEF Counted, Wrapped
      <4>2. commit_count' = (laps + 1) * CounterSize + count'
        BY <2>1, <2>2, <3>1, <3>2, <3>4, <4>1 DEF Counter
      <4> QED
        BY <3>4, <4>2 DEF Laps
    <3>3. CASE count + 1 # CounterSize
      <4>1. count' = count + 1
        BY <2>1, <3>1, <3>3 DEF Counted, Wrapped, Counter
      <4>2. commit_count' = laps * CounterSize + count'
        BY <2>1, <2>2, <3>1, <3>4, <4>1 DEF Counter
      <4> QED
        BY <4>2 DEF Laps
    <3> QED
      BY <3>2, <3>3
  <2>4. CASE UNCHANGED <<count, commit_count>>
    BY <2>4 DEF Laps
  <2>5. RetireOne \/ UNCHANGED <<count, commit_count>>
    BY DEF Next, step_micro, TakeInterrupt, BeginCycle, RetirePlain, RetireStatusChange,
           RetireCompareWrite, RetireNone, FinishCycle, Hang, state, vars
  <2> QED
    BY <2>3, <2>4, <2>5
<1>3. Inv /\ Laps => CountsAgree
  <2> SUFFICES ASSUME Inv, Laps PROVE CountsAgree
    OBVIOUS
  <2>1. PICK laps \in Nat : commit_count = laps * CounterSize + count
    BY DEF Laps
  <2>2. count \in 0 .. CounterSize - 1 /\ CounterSize \in Nat \ {0}
    BY DEF Inv, TypeOK, Counter
  <2> QED
    BY <2>1, <2>2, ModUnique DEF CountsAgree
<1> QED
  BY <1>1, <1>2, <1>3, Invariance, PTL DEF Spec
=============================================================================
