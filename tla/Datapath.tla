------------------------------ MODULE Datapath ------------------------------
(***************************************************************************)
(* The way of a value through the pipeline: physical register file, ready  *)
(* bits, issue queue, execution lanes and the injection of predictions,    *)
(* from the Rename to the Retire Stage, cycle by cycle.                    *)
(*                                                                         *)
(* step_micro() calls the stages in reverse order, from Retire to Rename;  *)
(* phase is the stage whose turn it is.  The register maps are those of    *)
(* RenamerSpec, which Renamer implements.  A prediction is any value: what *)
(* the machine computes must not depend on it.                             *)
(***************************************************************************)
EXTENDS Integers, Sequences

CONSTANTS
  LogRegs, PhysRegs,
  ValueSpace,   \* number of values of a register
  Kinds,        \* instruction kinds, see Kind
  MaxInFlight   \* bound on the instructions from Rename to Retire

Values == 0 .. ValueSpace - 1

\* depth is ex_depth of the lanes that execute the kind.  Loads to x0 have no
\* destination.
Kind == [dest : BOOLEAN, load : BOOLEAN, checkpoint : BOOLEAN, depth : Nat \ {0}]

ASSUME DatapathAssumption ==
  /\ ValueSpace \in Nat \ {0}
  /\ Kinds \subseteq Kind
  /\ MaxInFlight \in Nat \ {0}

VARIABLES
  phase,   \* the stage to be called next in this cycle
  prf,     \* m_prf
  ready,   \* m_prf_ready_bit_arr
  rmt, amt,
  window   \* instructions from the DISPATCH register to the active-list head

vars == <<phase, prf, ready, rmt, amt, window>>

Maps == INSTANCE RenamerSpec WITH inflight <- window

Phases ==
  {"retire", "writeback", "load_replay", "execute", "register_read",
   "schedule", "dispatch", "rename"}

\* An instruction in stage "ex" is in the sub-stage ex[sub - 1] of its lane;
\* in stage "LSU" it is a load that missed.
Stages ==
  {"DISPATCH", "IQ", "rr", "ex", "wb", "LSU", "completed"}

Junk == -1      \* the content of a field no stage has written
NotPredicted == -2

\* A_ready is the ready bit in the issue queue, vp_value the prediction of a
\* confidently predicted instruction.
Instruction ==
  [kind : Kinds, dest : BOOLEAN, log : LogRegs \cup {Junk},
   phys : PhysRegs \cup {Junk}, A_log : LogRegs, A_phys : PhysRegs,
   A_ready : BOOLEAN, A_value : Values \cup {Junk},
   C_value : Values \cup {Junk}, vp_value : Values \cup {NotPredicted},
   stage : Stages, sub : Nat, val_misp : BOOLEAN]

InFlight == 1 .. Len(window)
In(stage) == {i \in InFlight : window[i].stage = stage}

\* What every instruction computes: different from its operand
Result(operand) == (operand + 1) % ValueSpace

\* The registers the instructions in a set write
Dests(set) == {window[i].phys : i \in {j \in set : window[j].dest}}

\* Wakeup is left out for confidently predicted producers.
WakeupTags(set) == Dests({i \in set : window[i].vp_value = NotPredicted})

Woken(inst, tags) ==
  [inst EXCEPT !.A_ready = @ \/ (inst.stage = "IQ" /\ inst.A_phys \in tags)]

SetReady(set) == [p \in PhysRegs |-> ready[p] \/ p \in Dests(set)]

\* Mutant: the prediction is not compared with the result
WithResultUnchecked(inst) == [inst EXCEPT !.C_value = Result(inst.A_value)]

\* The deposit of a result in the payload, with the check of the prediction
WithResult(inst) ==
  LET value == Result(inst.A_value)
  IN [inst EXCEPT !.C_value = value,
                  !.val_misp = inst.vp_value \notin {NotPredicted, value}]

Written(set) ==
  [p \in PhysRegs |->
     IF p \in Dests(set)
     THEN Result(window[CHOOSE i \in set : window[i].dest /\ window[i].phys = p].A_value)
     ELSE prf[p]]

-----------------------------------------------------------------------------
(* Retire *)

HeadCompleted == phase = "retire" /\ window # <<>> /\ window[1].stage = "completed"

\* squash() of the renamer sets the ready bits of the committed versions.
CommittedReady ==
  [p \in PhysRegs |-> ready[p] \/ \E l \in LogRegs : amt'[l] = p]

\* The head commits; if its prediction was wrong, everything younger goes.
RetireHead ==
  /\ HeadCompleted
  /\ IF window[1].val_misp
     THEN Maps!RetireAndFlush /\ ready' = CommittedReady
     ELSE Maps!Retire /\ UNCHANGED ready
  /\ UNCHANGED <<phase, prf>>

\* A load violation or an exception, which other units decide: the head goes too.
RetireOffending ==
  /\ HeadCompleted
  /\ Maps!Flush
  /\ ready' = CommittedReady
  /\ UNCHANGED <<phase, prf>>

\* retire() was called RETIRE_WIDTH times, or there is nothing to retire.
EndRetire ==
  /\ phase = "retire"
  /\ phase' = "writeback"
  /\ UNCHANGED <<prf, ready, rmt, amt, window>>

-----------------------------------------------------------------------------
(* Writeback, lane by lane in any order *)

Writeback(i) ==
  /\ phase = "writeback" /\ window[i].stage = "wb"
  /\ window' = [window EXCEPT ![i].stage = "completed"]
  /\ UNCHANGED <<phase, prf, ready, rmt, amt>>

\* A mispredicted branch: every younger instruction leaves the pipeline
\* registers, the issue queue and the payload buffer.
WritebackMispredicted(i) ==
  /\ phase = "writeback" /\ window[i].stage = "wb" /\ window[i].kind.checkpoint
  /\ window' = [SubSeq(window, 1, i) EXCEPT ![i].stage = "completed"]
  /\ rmt' = Maps!MapAfter(i)
  /\ UNCHANGED <<phase, prf, ready, amt>>

EndWriteback ==
  /\ phase = "writeback" /\ In("wb") = {}
  /\ phase' = "load_replay"
  /\ UNCHANGED <<prf, ready, rmt, amt, window>>

-----------------------------------------------------------------------------
(* Load replay: at most one load per cycle *)

LoadReplay(i) ==
  /\ phase = "load_replay" /\ window[i].stage = "LSU"
  /\ phase' = "execute"
  /\ prf' = Written({i})
  /\ ready' = SetReady({i})
  /\ window' = [j \in InFlight |->
       IF j = i THEN [WithResult(window[i]) EXCEPT !.stage = "completed"]
                ELSE Woken(window[j], WakeupTags({i}))]
  /\ UNCHANGED <<rmt, amt>>

NoLoadReplay ==
  /\ phase = "load_replay"
  /\ phase' = "execute"
  /\ UNCHANGED <<prf, ready, rmt, amt, window>>

-----------------------------------------------------------------------------
(* Execute *)

\* the instructions in the n-th sub-stage before the last one
BeforeLast(n) == {i \in In("ex") : window[i].sub + n = window[i].kind.depth}

\* All lanes together: hits are the loads that get a value.  Producers wake up
\* their consumers from the second-to-last sub-stage, loads when they hit.
Execute(hits) ==
  LET missing == {i \in BeforeLast(0) : window[i].kind.load} \ hits
      done    == BeforeLast(0) \ missing
      waking  == {i \in BeforeLast(1) : ~window[i].kind.load} \cup hits
  IN /\ phase = "execute"
     /\ hits \subseteq {i \in BeforeLast(0) : window[i].kind.load}
     /\ phase' = "register_read"
     /\ prf' = Written(done)
     /\ ready' = SetReady(waking)
     /\ window' = [i \in InFlight |->
          CASE i \in missing -> [window[i] EXCEPT !.stage = "LSU"]
            [] i \in done -> [WithResult(window[i]) EXCEPT !.stage = "wb"]
            [] i \in In("ex") \ BeforeLast(0) -> [window[i] EXCEPT !.sub = @ + 1]
            [] OTHER -> Woken(window[i], WakeupTags(waking))]
     /\ UNCHANGED <<rmt, amt>>

-----------------------------------------------------------------------------
(* Register Read *)

\* Mutant: every producer that is no load wakes up its consumers from here
AllWakeFromRegisterRead == {i \in In("rr") : ~window[i].kind.load}

\* Single-cycle producers wake up their consumers from here.
WakeFromRegisterRead ==
  {i \in In("rr") : ~window[i].kind.load /\ window[i].kind.depth = 1}

\* All lanes together
RegisterRead ==
  /\ phase = "register_read"
  /\ phase' = "schedule"
  /\ ready' = SetReady(WakeFromRegisterRead)
  /\ window' = [i \in InFlight |->
       IF i \in In("rr")
       THEN [window[i] EXCEPT !.stage = "ex", !.sub = 1,
                              !.A_value = prf[window[i].A_phys]]
       ELSE Woken(window[i], WakeupTags(WakeFromRegisterRead))]
  /\ UNCHANGED <<prf, rmt, amt>>

-----------------------------------------------------------------------------
(* Schedule: the issue queue is not part of the repository.  Any instructions *)
(* whose operand is ready may issue.                                          *)

Issuable == {i \in In("IQ") : window[i].A_ready}

Schedule(issued) ==
  /\ phase = "schedule"
  /\ phase' = "dispatch"
  /\ window' = [i \in InFlight |->
       IF i \in issued THEN [window[i] EXCEPT !.stage = "rr"] ELSE window[i]]
  /\ UNCHANGED <<prf, ready, rmt, amt>>

-----------------------------------------------------------------------------
(* Dispatch *)

\* Mutant: the ready bit is cleared after the prediction was injected
InjectedThenCleared(inst) == [ready EXCEPT ![inst.phys] = FALSE]

\* clear_ready(), and set_ready() for an injected prediction
ReadyAfterDispatch(inst) ==
  [ready EXCEPT ![inst.phys] = inst.vp_value # NotPredicted]

\* Mutant: whatever is in the field for the prediction is injected
InjectedAlways(inst) ==
  IF inst.dest THEN [prf EXCEPT ![inst.phys] = inst.vp_value] ELSE prf

\* The prediction is injected into the register file.
PrfAfterDispatch(inst) ==
  IF inst.vp_value # NotPredicted
  THEN [prf EXCEPT ![inst.phys] = inst.vp_value] ELSE prf

\* The oldest instruction in the DISPATCH register enters the issue queue.  A
\* stall ends the stage.
Dispatch(i) ==
  LET inst == window[i]
  IN /\ phase = "dispatch"
     /\ i \in In("DISPATCH") /\ \A j \in In("DISPATCH") : i <= j
     /\ window' = [window EXCEPT ![i].stage = "IQ",
                                 ![i].A_ready = ready[inst.A_phys]]
     /\ ready' = IF inst.dest THEN ReadyAfterDispatch(inst) ELSE ready
     /\ prf' = PrfAfterDispatch(inst)
     /\ UNCHANGED <<phase, rmt, amt>>

EndDispatch ==
  /\ phase = "dispatch"
  /\ phase' = "rename"
  /\ UNCHANGED <<prf, ready, rmt, amt, window>>

-----------------------------------------------------------------------------
(* Rename *)

\* A source is renamed before the destination of the same instruction.  A
\* prediction needs a destination (eligible()).
Rename(kind, log, source, prediction) ==
  LET Renamed(phys) ==
        [kind |-> kind, dest |-> kind.dest, log |-> IF kind.dest THEN log ELSE Junk,
         phys |-> phys, A_log |-> source, A_phys |-> rmt[source],
         A_ready |-> FALSE, A_value |-> Junk, C_value |-> Junk,
         vp_value |-> prediction, stage |-> "DISPATCH", sub |-> 0,
         val_misp |-> FALSE]
  IN /\ phase = "rename"
     /\ Len(window) < MaxInFlight
     /\ prediction # NotPredicted => kind.dest
     /\ \/ \E phys \in PhysRegs : Maps!AddWriter(Renamed(phys))
        \/ Maps!AddOther(Renamed(Junk))
     /\ UNCHANGED <<phase, prf, ready>>

EndRename ==
  /\ phase = "rename"
  /\ phase' = "retire"
  /\ UNCHANGED <<prf, ready, rmt, amt, window>>

-----------------------------------------------------------------------------
\* The ready bits of registers that are not mapped initially are uninitialized.
Init ==
  /\ phase = "retire"
  /\ amt \in [LogRegs -> PhysRegs]
  /\ \A k, l \in LogRegs : amt[k] = amt[l] => k = l
  /\ rmt = amt
  /\ \E values \in [LogRegs -> Values] :
       prf = [p \in PhysRegs |->
                IF \E l \in LogRegs : amt[l] = p
                THEN values[CHOOSE l \in LogRegs : amt[l] = p] ELSE 0]
  /\ ready \in [PhysRegs -> BOOLEAN]
  /\ \A l \in LogRegs : ready[amt[l]]
  /\ window = <<>>

Next ==
  \/ RetireHead
  \/ RetireOffending
  \/ EndRetire
  \/ \E i \in InFlight : Writeback(i) \/ WritebackMispredicted(i)
  \/ EndWriteback
  \/ \E i \in InFlight : LoadReplay(i)
  \/ NoLoadReplay
  \/ \E hits \in SUBSET InFlight : Execute(hits)
  \/ RegisterRead
  \/ \E issued \in SUBSET Issuable : Schedule(issued)
  \/ \E i \in InFlight : Dispatch(i)
  \/ EndDispatch
  \/ \E kind \in Kinds, log, source \in LogRegs,
        prediction \in Values \cup {NotPredicted} :
       Rename(kind, log, source, prediction)
  \/ EndRename

Spec == Init /\ [][Next]_vars

Oldest(set) == {i \in set : \A j \in set : i <= j}

\* step_micro() calls every stage in every cycle.  retire() handles a completed
\* head in its first call.  The other three are promises of units outside of the
\* repository: the issue queue does not pass over its oldest ready instruction
\* for ever, the LSU does not withhold its oldest load for ever, and stalls of
\* the Dispatch Stage end.
Fairness ==
  /\ WF_vars(Next)
  /\ SF_vars(RetireHead \/ RetireOffending)
  /\ SF_vars(\E i \in Oldest(In("LSU")) : LoadReplay(i))
  /\ SF_vars(\E issued \in SUBSET Issuable :
               Oldest(Issuable) \subseteq issued /\ issued # {} /\ Schedule(issued))
  /\ SF_vars(\E i \in InFlight : Dispatch(i))

FairSpec == Spec /\ Fairness

-----------------------------------------------------------------------------
(* Properties *)

TypeOK ==
  /\ phase \in Phases
  /\ prf \in [PhysRegs -> Values]
  /\ ready \in [PhysRegs -> BOOLEAN]
  /\ rmt \in [LogRegs -> PhysRegs]
  /\ amt \in [LogRegs -> PhysRegs]
  /\ window \in Seq(Instruction)

Architectural == [l \in LogRegs |-> prf[amt[l]]]

\* The registers before the n-th instruction in flight, were the instructions
\* executed one after the other
Sequential[n \in Nat] ==
  IF n <= 1 THEN Architectural
  ELSE LET older == window[n - 1]
           before == Sequential[n - 1]
       IN IF older.dest
          THEN [before EXCEPT ![older.log] = Result(before[older.A_log])]
          ELSE before

TrueOperand(i) == Sequential[i][window[i].A_log]

\* A step changes the architectural registers only by committing the oldest
\* instruction, and then to what executing it on these registers gives: never
\* to a mispredicted value or to one computed from it, however far the
\* consumers of a wrong prediction got before it was found out (execute.cc:77-103
\* and 169-179, load_replay() and retire.cc:248-302).
CommitsSequentially ==
  [][Architectural' =
       IF RetireHead /\ window[1].dest
       THEN [Architectural EXCEPT ![window[1].log] =
               Result(Architectural[window[1].A_log])]
       ELSE Architectural]_vars

WellPredicted(i) ==
  window[i].vp_value \in {NotPredicted, Result(TrueOperand(i))}

\* Wrong operands come from value mispredictions only: an instruction all of
\* whose elders were predicted right, or not at all, reads its true operand,
\* although its producer wakes it up before the value is written and the
\* register held other values before (register_read.cc:47-62, 103-115 and
\* execute.cc:207-252).
WrongOperandsAreSpeculative ==
  \A i \in InFlight :
    /\ window[i].stage \in {"ex", "wb", "LSU", "completed"}
    /\ \A j \in 1 .. i - 1 : WellPredicted(j)
    => window[i].A_value = TrueOperand(i)

\* The dispatched producers that have not announced their value yet
Silent ==
  {i \in InFlight :
     /\ window[i].dest /\ window[i].vp_value = NotPredicted
     /\ \/ window[i].stage \in {"IQ", "rr"}
        \/ window[i].stage = "LSU"
        \/ window[i].stage = "ex" /\ (window[i].kind.load
                                      \/ window[i].sub < window[i].kind.depth)}

\* No wakeup is lost: an operand that waits in the issue queue has an older
\* producer in flight that will still wake it up, although predicted producers
\* never do (execute.cc:79, 241) and producers come and go by squashes; and an
\* operand that is ready has none.  So the ready bit a dispatched instruction
\* takes over is never one from a former life of the register
\* (dispatch.cc:185-244).
WakeupsExact ==
  /\ \A i \in In("IQ") : ~window[i].A_ready <=> window[i].A_phys \in Dests(Silent)
  /\ \A l \in LogRegs :
       rmt[l] \notin Dests(In("DISPATCH")) =>
         (~ready[rmt[l]] <=> rmt[l] \in Dests(Silent))

\* As long as there are instructions in flight the head of the active list
\* retires again and again: what the deadlock detector of step_micro() watches
\* for (pipeline.cc:649-664).  No consumer of a predicted, missed or squashed
\* producer waits for ever.
RetirementGoesOn ==
  []<><<RetireHead \/ RetireOffending>>_vars \/ <>[](window = <<>>)
=============================================================================
