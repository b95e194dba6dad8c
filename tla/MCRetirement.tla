---------------------------- MODULE MCRetirement ----------------------------
(* Instances of Retirement for TLC. *)
EXTENDS Retirement

ProgramsOver(kinds) == [0 .. CodeLength - 1 -> kinds]
MemoryPrograms == ProgramsOver({"alu", "load", "store", "branch"})
SystemPrograms ==
  ProgramsOver({"fp", "load", "store", "branch", "lr", "sc", "amo", "csr", "counter", "sret", "syscall"})

AllPrograms == MemoryPrograms \cup SystemPrograms

Realistic == [vpu |-> "svp", perfect_branches |-> FALSE]

\* Every predictor where there is something to predict
AllPredictors ==
  [program \in AllPrograms |->
     IF program \in MemoryPrograms THEN Settings ELSE {Realistic}]

\* Loops with violations, traps, refetches and serialization
Loops ==
  {<<"store", "load", "branch">>, <<"fp", "load", "store">>,
   <<"counter", "store", "load">>, <<"syscall", "alu", "sret">>,
   <<"amo", "lr", "csr">>}
LivePrograms == {[a \in 0 .. 2 |-> loop[a + 1]] : loop \in Loops}
LivePredictors == [program \in LivePrograms |-> {Realistic}]
=============================================================================
