------------------------------ MODULE Retirement -------------------------------
(***************************************************************************)
(* Precise state: the control flow of speculative execution, from the      *)
(* fetch unit to retire() with all its exits.                              *)
(*                                                                         *)
(* Instructions enter the window when they have passed the front end, read *)
(* their operand as soon as there is a value for it, right or predicted,   *)
(* execute in any order and retire in program order.  Branches are         *)
(* predicted, values are predicted, loads overtake stores, and faults come *)
(* up at dispatch, in execution and at retirement.  Isa says what all this *)
(* must look like from the outside; it also is the functional simulator.   *)
(***************************************************************************)
EXTENDS Integers, Sequences

CONSTANTS
  CodeLength, BranchTarget, TrapVector, Programs,
  MaxInFlight, \* bound on the instructions in flight
  Predictors   \* the settings considered with each program

VARIABLES
  code,        \* the program
  predictors,  \* and the settings of the predictors; both do not change
  fetch,       \* fetch unit: address, and whether it waits behind a serializing instruction
  window,      \* the instructions in flight: payload buffer and active list
  arch,        \* committed registers and memory, and state_t
  functional   \* oldest entry of the debug buffer: what the functional simulator executes next

vars == <<code, predictors, fetch, window, arch, functional>>

\* the address of the next instruction to retire
ArchPC == IF window = <<>> THEN fetch.pc ELSE window[1].pc

Software == INSTANCE Isa WITH pc <- ArchPC

Values == Software!Values
NoValue == -1

\* vpu is "svp" (any prediction), "oracle" (confidence) or "perf" (all predictions
\* right), perfect_branches is PERFECT_BRANCH_PRED.
Settings == [vpu : {"svp", "oracle", "perf"}, perfect_branches : BOOLEAN]

ASSUME RetirementAssumption ==
  /\ CodeLength \in Nat \ {0}
  /\ {BranchTarget, TrapVector} \subseteq Software!Addresses
  /\ Programs \subseteq [Software!Addresses -> Software!Kinds]
  /\ MaxInFlight \in Nat \ {0}
  /\ Predictors \in [Programs -> SUBSET Settings]

Serializing == {"lr", "sc", "amo", "csr", "counter", "sret"}
WithDest == {"alu", "fp", "load", "lr", "amo", "csr", "counter"}

\* next_pc is the predicted successor, actual the entry of the debug buffer of
\* a good instruction; C_value holds the data of a store and of an AMO.
Instruction ==
  [pc : Software!Addresses, next_pc : Software!Addresses,
   good_instruction : BOOLEAN, actual : [pc : Software!Addresses, arch : Software!ArchState]
                                        \cup {[pc |-> NoValue]},
   vp_value : Values \cup {NoValue}, C_value : Values \cup {NoValue},
   completed : BOOLEAN, exception : BOOLEAN, trap : Software!Causes,
   load_viol : BOOLEAN, val_misp : BOOLEAN]

InFlight == 1 .. Len(window)
Kind(i) == code[window[i].pc]

-----------------------------------------------------------------------------
(* From fetch to dispatch *)

\* map_to_actual(): whether the instruction at this address is the one the
\* functional simulator executes in this place
Good(at) ==
  \/ window = <<>>
  \/ /\ window[Len(window)].good_instruction
     /\ Software!Executed(code, window[Len(window)].actual).pc = at

Actual(at) ==
  IF ~Good(at) THEN [pc |-> NoValue]
  ELSE IF window = <<>> THEN functional
  ELSE Software!Executed(code, window[Len(window)].actual)

\* predict(): off the right path conditional branches are predicted not taken.
Successors(at) ==
  IF code[at] # "branch" THEN {Software!IncrementPC(at)}
  ELSE IF ~predictors.perfect_branches THEN {Software!IncrementPC(at), BranchTarget}
  ELSE IF Good(at) THEN {Software!Executed(code, Actual(at)).pc}
  ELSE {Software!IncrementPC(at)}

Eligible(kind) == kind \in {"alu", "fp", "load"}

\* Mutant: the result of the functional simulator is taken on any path
TrustedAnywhere(at) ==
  IF predictors.vpu = "svp" THEN Values
  ELSE {Software!Executed(code, functional).arch.acc}

\* The confident predictions the VPU may make.  With a perfect predictor, or
\* with oracle confidence, they come from or are compared with the result of the
\* functional simulator.
ConfidentPredictions(at) ==
  IF predictors.vpu = "svp" THEN Values
  ELSE IF Good(at) THEN {Software!Executed(code, Actual(at)).arch.acc} ELSE {}

\* A perfect predictor predicts whenever it can.
Predictions(at) ==
  IF ~Eligible(code[at]) THEN {NoValue}
  ELSE IF predictors.vpu = "perf" /\ Good(at) THEN ConfidentPredictions(at)
  ELSE ConfidentPredictions(at) \cup {NoValue}

\* dispatch(): instructions that need no execution complete here, and a disabled
\* floating-point unit is noticed here.
DispatchTrap(kind) ==
  CASE kind = "syscall" -> "syscall"
    [] kind = "fp" /\ ~arch.ef -> "fp_disabled"
    [] OTHER -> "none"

Dispatch(next_pc, prediction) ==
  LET at == fetch.pc
      trap == DispatchTrap(code[at])
  IN /\ ~fetch.stalled
     /\ Len(window) < MaxInFlight
     /\ window' = Append(window,
          [pc |-> at, next_pc |-> next_pc,
           good_instruction |-> Good(at), actual |-> Actual(at),
           vp_value |-> prediction, C_value |-> NoValue,
           completed |-> code[at] = "syscall",
           exception |-> trap # "none", trap |-> trap,
           load_viol |-> FALSE, val_misp |-> FALSE])
     /\ fetch' = [pc |-> next_pc, stalled |-> code[at] \in Serializing]
     /\ UNCHANGED <<code, predictors, arch, functional>>

-----------------------------------------------------------------------------
(* Execution, from issue to writeback *)

\* The value the register file holds for the operand of instruction i: that of
\* the youngest older producer, which is a prediction until the result is known
Operand(i) ==
  LET producers == {j \in 1 .. i - 1 : Kind(j) \in WithDest}
      producer == CHOOSE j \in producers : \A k \in producers : k <= j
  IN IF producers = {} THEN arch.acc
     ELSE IF window[producer].completed THEN window[producer].C_value
     ELSE window[producer].vp_value

CanExecute(i) == ~window[i].completed /\ Operand(i) # NoValue

\* The LSU forwards from the youngest older store that has executed.
LoadedValue(i) ==
  LET stores == {j \in 1 .. i - 1 : Kind(j) \in {"store", "sc"} /\ window[j].completed}
      store == CHOOSE j \in stores : \A k \in stores : k <= j
  IN IF stores = {} THEN arch.mem ELSE window[store].C_value

\* trap_storage_t::post() and set_exception()
Posted(inst, cause) ==
  [inst EXCEPT !.exception = TRUE, !.trap = IF @ = "none" THEN cause ELSE @]

\* Mutant: the prediction is not compared with the result
DoneUnchecked(inst, value) == [inst EXCEPT !.completed = TRUE, !.C_value = value]

Done(inst, value) ==
  [inst EXCEPT !.completed = TRUE, !.C_value = value,
               !.val_misp = inst.vp_value \notin {NoValue, value}]

Faults(i) == Kind(i) \in Software!CanFault \ {"amo"} /\ Operand(i) = Software!Faulty

\* Some value is written although the instruction faults.
ExecuteFaulting(i, junk) ==
  /\ CanExecute(i) /\ Faults(i)
  /\ window' = [window EXCEPT ![i] = Posted(Done(@, junk), "fault")]
  /\ UNCHANGED <<code, predictors, fetch, arch, functional>>

\* AMO and CSR instructions only pass through the lanes and keep their operand.
ComputedValue(i) ==
  CASE Kind(i) \in {"alu", "fp"}  -> Software!Result(Operand(i))
    [] Kind(i) \in {"load", "lr"} -> LoadedValue(i)
    [] OTHER -> Operand(i)

Execute(i) ==
  /\ CanExecute(i) /\ ~Faults(i) /\ Kind(i) \notin {"branch", "store", "sc"}
  /\ window' = [window EXCEPT ![i] = Done(@, ComputedValue(i))]
  /\ UNCHANGED <<code, predictors, fetch, arch, functional>>

\* Mutant: only the next load can be in violation
NearestViolated(i) ==
  {j \in i + 1 .. Len(window) :
     /\ j = i + 1
     /\ Kind(j) \in {"load", "lr"} /\ window[j].completed}

\* The loads that read memory too early: set_load_violation(), called by the LSU
Violated(i) ==
  {j \in i + 1 .. Len(window) :
     /\ Kind(j) \in {"load", "lr"} /\ window[j].completed
     /\ \A k \in i + 1 .. j - 1 : ~(Kind(k) \in {"store", "sc"} /\ window[k].completed)}

ExecuteStore(i) ==
  /\ CanExecute(i) /\ ~Faults(i) /\ Kind(i) \in {"store", "sc"}
  /\ window' = [j \in InFlight |->
       IF j = i THEN Done(window[i], Operand(i))
       ELSE IF j \in Violated(i) THEN [window[j] EXCEPT !.load_viol = TRUE]
       ELSE window[j]]
  /\ UNCHANGED <<code, predictors, fetch, arch, functional>>

\* writeback(): with perfect branch prediction the outcome is not looked at.
ResolveBranch(i) ==
  LET c_next_pc == IF Operand(i) = Software!Taken THEN BranchTarget
                   ELSE Software!IncrementPC(window[i].pc)
      resolved == [window EXCEPT ![i] = Done(@, Operand(i))]
  IN /\ CanExecute(i) /\ Kind(i) = "branch"
     /\ IF predictors.perfect_branches \/ window[i].next_pc = c_next_pc
        THEN window' = resolved /\ UNCHANGED fetch
        ELSE /\ window' = SubSeq(resolved, 1, i)
             /\ fetch' = [pc |-> c_next_pc, stalled |-> FALSE]
     /\ UNCHANGED <<code, predictors, arch, functional>>

-----------------------------------------------------------------------------
(* Retire *)

HeadCompleted == window # <<>> /\ window[1].completed
Oldest == window[1]
OldestKind == Kind(1)

\* checker() compares with the oldest entry of the debug buffer and pops it.
Checked == functional' = Software!Executed(code, functional)

SquashComplete(jump_PC) ==
  /\ window' = <<>>
  /\ fetch' = [pc |-> jump_PC, stalled |-> FALSE]

\* What execute_amo() and execute_csr() find when the head is otherwise in order
RetireTrap ==
  CASE OldestKind = "amo" /\ Oldest.C_value = Software!Faulty -> "fault"
    [] OldestKind = "sret" /\ ~arch.sup -> "privileged"
    [] OldestKind = "counter" /\ ~arch.serialized -> "csr_instruction"
    [] OTHER -> "none"

Commits ==
  HeadCompleted /\ ~Oldest.exception /\ RetireTrap = "none" /\ ~Oldest.load_viol

\* the committed state after execute_amo(), execute_csr(), commit() of renamer and LSU
Committed ==
  CASE OldestKind = "amo" -> [arch EXCEPT !.acc = arch.mem, !.mem = Oldest.C_value]
    [] OldestKind = "csr" -> [arch EXCEPT !.acc = Software!OldStatus(arch), !.ef = ~@]
    [] OldestKind = "counter" -> [arch EXCEPT !.acc = 0, !.serialized = FALSE]
    [] OldestKind = "sret" -> [arch EXCEPT !.sup = arch.psup]
    [] OldestKind \in {"store", "sc"} -> [arch EXCEPT !.mem = Oldest.C_value]
    [] OldestKind \in {"alu", "fp", "load", "lr"} -> [arch EXCEPT !.acc = Oldest.C_value]
    [] OTHER -> arch

ResumePC == IF OldestKind = "sret" THEN arch.epc ELSE Software!IncrementPC(Oldest.pc)

\* A serializing instruction restarts the fetch unit and squashes nothing.
CommitSerializing ==
  /\ Commits /\ OldestKind \in Serializing
  /\ arch' = Committed
  /\ Checked
  /\ window' = Tail(window)
  /\ fetch' = [pc |-> ResumePC, stalled |-> FALSE]
  /\ UNCHANGED <<code, predictors>>

\* "approach #1 recovery" of a wrong value prediction
CommitMispredicted ==
  /\ Commits /\ OldestKind \notin Serializing /\ Oldest.val_misp
  /\ arch' = Committed
  /\ Checked
  /\ SquashComplete(Software!IncrementPC(Oldest.pc))
  /\ UNCHANGED <<code, predictors>>

Commit ==
  /\ Commits /\ OldestKind \notin Serializing /\ ~Oldest.val_misp
  /\ arch' = Committed
  /\ Checked
  /\ window' = Tail(window)
  /\ UNCHANGED <<code, predictors, fetch>>

SquashViolation ==
  /\ HeadCompleted /\ ~Oldest.exception /\ RetireTrap = "none" /\ Oldest.load_viol
  /\ SquashComplete(Oldest.pc)
  /\ UNCHANGED <<code, predictors, arch, functional>>

\* A trap found before retirement goes ahead of whatever retire() would find.
TrapAtHead == IF Oldest.exception THEN Oldest.trap ELSE RetireTrap

\* Mutant: the entry of the debug buffer is not popped
TakeTrapUnchecked ==
  /\ HeadCompleted
  /\ TrapAtHead \notin {"none", "csr_instruction"}
  /\ arch' = [arch EXCEPT !.psup = arch.sup, !.sup = TRUE,
                          !.epc = Oldest.pc, !.cause = TrapAtHead]
  /\ SquashComplete(TrapVector)
  /\ UNCHANGED <<code, predictors, functional>>

TakeTrap ==
  /\ HeadCompleted
  /\ TrapAtHead \notin {"none", "csr_instruction"}
  /\ arch' = [arch EXCEPT !.psup = arch.sup, !.sup = TRUE,
                          !.epc = Oldest.pc, !.cause = TrapAtHead]
  /\ Checked
  /\ SquashComplete(TrapVector)
  /\ UNCHANGED <<code, predictors>>

\* Mutant: the next attempt starts over again
AttemptForgotten == arch

FirstAttempt == [arch EXCEPT !.serialized = TRUE]

\* The first read of a counter is thrown away and fetched again.
RefetchCsr ==
  /\ HeadCompleted /\ TrapAtHead = "csr_instruction"
  /\ arch' = FirstAttempt
  /\ Checked
  /\ SquashComplete(Oldest.pc)
  /\ UNCHANGED <<code, predictors>>

Retire ==
  \/ CommitSerializing \/ CommitMispredicted \/ Commit
  \/ SquashViolation \/ TakeTrap \/ RefetchCsr

-----------------------------------------------------------------------------
Init ==
  /\ fetch = [pc |-> 0, stalled |-> FALSE]
  /\ window = <<>>
  /\ Software!Init
  /\ predictors \in Predictors[code]
  /\ functional = [pc |-> 0, arch |-> arch]

FetchToDispatch ==
  \E next_pc \in Successors(fetch.pc), prediction \in Predictions(fetch.pc) :
    Dispatch(next_pc, prediction)

ExecuteAny(i) ==
  \/ \E junk \in Values : ExecuteFaulting(i, junk)
  \/ Execute(i)
  \/ ExecuteStore(i)
  \/ ResolveBranch(i)

Next ==
  \/ FetchToDispatch
  \/ \E i \in InFlight : ExecuteAny(i)
  \/ Retire

Spec == Init /\ [][Next]_vars

\* Every stage is called in every cycle; the oldest instruction in flight is
\* never passed over for ever (RetirementGoesOn in Datapath).
Fairness ==
  /\ WF_vars(FetchToDispatch /\ window = <<>>)
  /\ WF_vars(window # <<>> /\ ExecuteAny(1))
  /\ WF_vars(Retire)

FairSpec == Spec /\ Fairness

-----------------------------------------------------------------------------
(* Properties *)

TypeOK ==
  /\ code \in Programs
  /\ predictors \in Settings
  /\ fetch \in [pc : Software!Addresses, stalled : BOOLEAN]
  /\ window \in Seq(Instruction)
  /\ arch \in Software!ArchState
  /\ functional \in [pc : Software!Addresses, arch : Software!ArchState]

\* However instructions overlap, overtake each other and are thrown away,
\* software sees one instruction after the other, in program order: results of
\* wrong predictions and stale loads never commit, traps are precise, the first
\* of several faults of an instruction counts, and what is fetched after a
\* squash, a trap or a serializing instruction is what comes next
\* (retire.cc:77-446).
Precise == Software!Spec

\* And software advances: an instruction that is squashed together with its
\* younger ones, after a load violation or for reading a counter, gets through
\* when it is fetched again (retire.cc:303-355, 382-387).
Progress == Software!FairSpec

\* Whatever way out of retire() the head takes, it leaves nobody behind who may
\* have computed with its wrong prediction, although the test of val_misp comes
\* after that of amo and csr, which squashes nothing (retire.cc:233-302).
WrongValuesSquashed ==
  [][Commits /\ Oldest.vp_value \notin {NoValue, Oldest.C_value} /\ Retire
     => window' = <<>>]_vars

\* The oldest instruction is linked to the oldest entry of the debug buffer, the
\* one checker() compares it with, although the link was made from one fetched
\* instruction to the next, on right and wrong paths and behind instructions
\* that are gone (payload.cc:179-217).
OldestOnPath ==
  window # <<>> => Oldest.good_instruction /\ Oldest.actual = functional

\* With a perfect predictor and with oracle confidence no instruction that
\* commits was mispredicted: the value of the functional simulator is taken for
\* the right instance of the instruction and not on a wrong path
\* (rename.cc:241-282).
OracleNeverMispredicts ==
  predictors.vpu # "svp" /\ Commits => ~Oldest.val_misp
=============================================================================
