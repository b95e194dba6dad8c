---------------------------------- MODULE Isa ----------------------------------
(***************************************************************************)
(* What software sees of the machine: one instruction after the other.     *)
(*                                                                         *)
(* This is the functional simulator, which is not part of the repository:  *)
(* src/ runs it ahead, links fetched instructions to its results (payload  *)
(* buffer) and compares with it at retirement (checker()).  The registers  *)
(* and the memory are one register acc and one word mem.                   *)
(***************************************************************************)
EXTENDS Integers

CONSTANTS
  CodeLength,   \* addresses are 0 .. CodeLength - 1 and wrap around
  BranchTarget, \* where a taken branch goes
  TrapVector,   \* evec
  Programs      \* the programs considered: functions from addresses to Kinds

Addresses == 0 .. CodeLength - 1
Values == 0 .. 2
Faulty == 2     \* operand with which an instruction in CanFault faults
Taken  == 1     \* operand with which a branch is taken

Kinds ==
  {"alu", "fp", "load", "store", "branch", "lr", "sc", "amo", "csr", "counter",
   "sret", "syscall"}
CanFault == {"fp", "load", "store", "lr", "amo"}
Causes == {"none", "fault", "fp_disabled", "privileged", "syscall"}

VARIABLES code, pc, arch

\* sup, psup and ef are the bits SR_S, SR_PS and SR_EF of the status register;
\* serialized is set between the two executions of a read of a counter.
ArchState ==
  [acc : Values, mem : Values, sup : BOOLEAN, psup : BOOLEAN, ef : BOOLEAN,
   epc : Addresses, cause : Causes, serialized : BOOLEAN]

IncrementPC(a) == (a + 1) % CodeLength

\* Mutant: results outgrow the registers
ResultUnwrapped(v) == v + 1

Result(v) == (v + 1) % 3

OldStatus(a) == IF a.ef THEN 1 ELSE 0

\* The floating-point unit being switched off comes first.
Cause(kind, a) ==
  CASE kind = "syscall" -> "syscall"
    [] kind = "sret" /\ ~a.sup -> "privileged"
    [] kind = "fp" /\ ~a.ef -> "fp_disabled"
    [] kind \in CanFault /\ a.acc = Faulty /\ (kind = "fp" => a.ef) -> "fault"
    [] OTHER -> "none"

Trapped(a, at, cause) ==
  [a EXCEPT !.psup = a.sup, !.sup = TRUE, !.epc = at, !.cause = cause]

Effect(kind, a) ==
  CASE kind \in {"alu", "fp"}  -> [a EXCEPT !.acc = Result(@)]
    [] kind \in {"load", "lr"} -> [a EXCEPT !.acc = a.mem]
    [] kind \in {"store", "sc"} -> [a EXCEPT !.mem = a.acc]
    [] kind = "amo"     -> [a EXCEPT !.acc = a.mem, !.mem = a.acc]
    [] kind = "csr"     -> [a EXCEPT !.acc = OldStatus(a), !.ef = ~@]
    [] kind = "counter" -> [a EXCEPT !.acc = 0, !.serialized = FALSE]
    [] kind = "sret"    -> [a EXCEPT !.sup = a.psup]
    [] OTHER -> a

NextPC(kind, at, a) ==
  CASE kind = "branch" /\ a.acc = Taken -> BranchTarget
    [] kind = "sret" -> a.epc
    [] OTHER -> IncrementPC(at)

\* One instruction, or the first attempt to read a counter.
Executed(program, s) ==
  LET kind == program[s.pc]
      cause == Cause(kind, s.arch)
  IN IF cause # "none"
     THEN [pc |-> TrapVector, arch |-> Trapped(s.arch, s.pc, cause)]
     ELSE IF kind = "counter" /\ ~s.arch.serialized
     THEN [s EXCEPT !.arch.serialized = TRUE]
     ELSE [pc |-> NextPC(kind, s.pc, s.arch), arch |-> Effect(kind, s.arch)]

InitialArch(value) ==
  [acc |-> value, mem |-> 0, sup |-> FALSE, psup |-> FALSE, ef |-> FALSE,
   epc |-> 0, cause |-> "none", serialized |-> FALSE]

Init ==
  /\ code \in Programs
  /\ pc = 0
  /\ \E value \in Values : arch = InitialArch(value)

Next ==
  /\ LET after == Executed(code, [pc |-> pc, arch |-> arch])
     IN pc' = after.pc /\ arch' = after.arch
  /\ UNCHANGED code

Spec == Init /\ [][Next]_<<code, pc, arch>>

FairSpec == Spec /\ WF_<<code, pc, arch>>(Next)
=============================================================================
