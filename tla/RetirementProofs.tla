-------------------------- MODULE RetirementProofs --------------------------
(***************************************************************************)
(* Precise state for every program, every setting of the predictors and    *)
(* every number of instructions in flight: Retirement implements Isa.      *)
(*                                                                         *)
(* Nothing is assumed to be right about an instruction in flight, except   *)
(* that it did its work with what the register file and the LSU hold now,  *)
(* or else something older faults, was mispredicted, or it is known to be  *)
(* in violation (Sound).  The oldest instruction has nothing older, and    *)
(* what the register file holds for it is the committed state.             *)
(***************************************************************************)
EXTENDS Retirement, RingProofs, SequenceTheorems, TLAPS

State == [pc : Software!Addresses, arch : Software!ArchState]

\* The entries of the debug buffer the window is linked to are consecutive ones.
Linked ==
  /\ functional = [pc |-> ArchPC, arch |-> arch]
  /\ \A i \in InFlight : window[i].good_instruction =>
       window[i].actual \in State /\ window[i].actual.pc = window[i].pc
  /\ \A i \in 1 .. Len(window) - 1 :
       /\ window[i + 1].good_instruction <=>
            /\ window[i].good_instruction
            /\ Software!Executed(code, window[i].actual).pc = window[i + 1].pc
       /\ window[i + 1].good_instruction =>
            window[i + 1].actual = Software!Executed(code, window[i].actual)

\* the address of what was or will be fetched behind instruction i
Following(i) == IF i < Len(window) THEN window[i + 1].pc ELSE fetch.pc

Outcome(i) ==
  IF window[i].C_value = Software!Taken THEN BranchTarget
  ELSE Software!IncrementPC(window[i].pc)

\* Instructions follow each other as they were predicted or resolved to.
Connected(i) ==
  /\ Kind(i) # "branch" => Following(i) = Software!IncrementPC(window[i].pc)
  /\ Kind(i) = "branch" /\ predictors.perfect_branches /\ window[i].good_instruction =>
       Following(i) = Software!Executed(code, window[i].actual).pc
  /\ Kind(i) = "branch" /\ ~predictors.perfect_branches =>
       Following(i) = IF window[i].completed THEN Outcome(i) ELSE window[i].next_pc

\* What holds of every instruction in flight, on whatever path
InstructionOK(i) ==
  LET inst == window[i]
  IN /\ inst.vp_value # NoValue => Eligible(Kind(i))
     /\ Kind(i) = "syscall" => inst.completed
     /\ ~inst.completed => ~inst.val_misp
     /\ inst.completed => (inst.val_misp <=> inst.vp_value \notin {NoValue, inst.C_value})
     /\ inst.completed /\ Kind(i) # "syscall" => inst.C_value \in Values
     /\ inst.exception <=> inst.trap # "none"
     /\ inst.trap \in {DispatchTrap(Kind(i)), "fault"}
     /\ ~inst.completed \/ DispatchTrap(Kind(i)) # "none" => inst.trap = DispatchTrap(Kind(i))
     /\ Kind(i) \in Serializing => i = Len(window) /\ fetch.stalled
     /\ predictors.vpu # "svp" /\ inst.vp_value # NoValue =>
          /\ inst.good_instruction
          /\ inst.vp_value = Software!Executed(code, inst.actual).arch.acc

\* Nothing older than instruction i is known to squash it.
Quiet(i) == \A j \in 1 .. i - 1 : ~window[j].exception /\ ~window[j].val_misp

\* A completed instruction did with its present operand what it has to do.
Sound(i) ==
  Quiet(i) /\ window[i].completed /\ Kind(i) # "syscall" =>
    /\ Operand(i) # NoValue
    /\ DispatchTrap(Kind(i)) = "none" => (window[i].trap = "fault" <=> Faults(i))
    /\ ~window[i].exception =>
         \/ window[i].C_value = ComputedValue(i)
         \/ window[i].load_viol /\ Kind(i) \in {"load", "lr"}

IInv ==
  /\ TypeOK
  /\ OldestOnPath
  /\ Linked
  /\ \A i \in InFlight : Connected(i) /\ InstructionOK(i) /\ Sound(i)

-----------------------------------------------------------------------------
(* The youngest of a set of instructions *)

\* the youngest of a set of instructions
Last(S) == CHOOSE p \in S : \A k \in S : k <= p

LEMMA LastOfSome ==
  ASSUME NEW n \in Nat, NEW S, S \subseteq 1 .. n, S # {}
  PROVE  Last(S) \in S /\ \A k \in S : k <= Last(S)
<1>1. S \subseteq 0 .. n
  OBVIOUS
<1>2. \E p \in S : \A k \in S : k <= p
  BY <1>1, Greatest
<1> QED BY <1>2 DEF Last

LEMMA LastIs ==
  ASSUME NEW n \in Nat, NEW S, S \subseteq 1 .. n, NEW p \in S,
         \A k \in S : k <= p
  PROVE  Last(S) = p
<1>1. S # {}
  OBVIOUS
<1>2. Last(S) \in S /\ p <= Last(S)
  BY <1>1, LastOfSome
<1> HIDE DEF Last
<1>3. \A k \in S : k \in Int /\ k <= p
  OBVIOUS
<1>4. p \in Int /\ Last(S) \in Int /\ Last(S) <= p
  BY <1>2, <1>3
<1> QED BY <1>2, <1>4

\* Without the oldest instruction the youngest one is still the same.
LEMMA LastShifted ==
  ASSUME NEW n \in Nat, NEW S, S \subseteq 1 .. n, S # {},
         NEW T, T \subseteq 1 .. n + 1,
         \A j \in 1 .. n : j \in S <=> j + 1 \in T
  PROVE  Last(T) = Last(S) + 1
<1>1. Last(S) \in S /\ \A k \in S : k <= Last(S)
  BY LastOfSome
<1> HIDE DEF Last
<1>2. Last(S) + 1 \in T /\ Last(S) \in 1 .. n
  BY <1>1
<1>3. ASSUME NEW k \in T
      PROVE  k <= Last(S) + 1
  <2>1. CASE k = 1
    BY <1>2, <2>1
  <2>2. CASE k # 1
    <3>1. k - 1 \in 1 .. n /\ k - 1 + 1 = k
      BY <2>2
    <3>2. k - 1 \in S
      BY <3>1
    <3>3. k - 1 <= Last(S)
      BY <1>1, <3>2
    <3> QED BY <1>2, <3>1, <3>3
  <2> QED BY <2>1, <2>2
<1>4. n + 1 \in Nat
  OBVIOUS
<1> QED BY <1>2, <1>3, <1>4, LastIs

-----------------------------------------------------------------------------
(* What the register file and the LSU hold, for any window *)

StoreKinds == {"store", "sc"}

\* What a consumer of this instruction reads
Read(inst) == IF inst.completed THEN inst.C_value ELSE inst.vp_value

ProducersIn(c, w, i) == {j \in 1 .. i - 1 : c[w[j].pc] \in WithDest}

OperandIn(c, w, acc, i) ==
  IF ProducersIn(c, w, i) = {} THEN acc ELSE Read(w[Last(ProducersIn(c, w, i))])

StoresIn(c, w, i) == {j \in 1 .. i - 1 : c[w[j].pc] \in StoreKinds /\ w[j].completed}

LoadedIn(c, w, mem, i) ==
  IF StoresIn(c, w, i) = {} THEN mem ELSE w[Last(StoresIn(c, w, i))].C_value

LEMMA OperandIsIn ==
  ASSUME NEW i
  PROVE  /\ Operand(i) = OperandIn(code, window, arch.acc, i)
         /\ Operand(i)' = OperandIn(code', window', arch'.acc, i)
  BY DEF Operand, OperandIn, ProducersIn, Read, Kind, Last

LEMMA LoadedIsIn ==
  ASSUME NEW i
  PROVE  /\ LoadedValue(i) = LoadedIn(code, window, arch.mem, i)
         /\ LoadedValue(i)' = LoadedIn(code', window', arch'.mem, i)
  BY DEF LoadedValue, LoadedIn, StoresIn, StoreKinds, Kind, Last

\* An operand that is there stays the same as long as nobody reads anything else.
LEMMA OperandFrame ==
  ASSUME NEW c, NEW v, NEW w, NEW acc, NEW i \in Nat \ {0},
         \A j \in 1 .. i - 1 :
           /\ v[j].pc = w[j].pc
           /\ c[w[j].pc] \in WithDest => Read(v[j]) = Read(w[j]) \/ Read(w[j]) = NoValue
  PROVE  \/ OperandIn(c, v, acc, i) = OperandIn(c, w, acc, i)
         \/ OperandIn(c, w, acc, i) = NoValue
<1> DEFINE P == ProducersIn(c, w, i)
<1>1. ProducersIn(c, v, i) = P
  BY DEF ProducersIn
<1>2. P \subseteq 1 .. i - 1 /\ i - 1 \in Nat
  BY DEF ProducersIn
<1>3. CASE P = {}
  BY <1>1, <1>3 DEF OperandIn
<1>4. CASE P # {}
  <2>1. Last(P) \in P
    BY <1>2, <1>4, LastOfSome
  <2>2. Last(P) \in 1 .. i - 1 /\ c[w[Last(P)].pc] \in WithDest
    BY <2>1 DEF ProducersIn
  <2>3. Read(v[Last(P)]) = Read(w[Last(P)]) \/ Read(w[Last(P)]) = NoValue
    BY <2>2
  <2> QED BY <1>1, <1>4, <2>3 DEF OperandIn
<1> QED BY <1>3, <1>4

LEMMA LoadedFrame ==
  ASSUME NEW c, NEW v, NEW w, NEW mem, NEW i \in Nat \ {0},
         \A j \in 1 .. i - 1 :
           /\ v[j].pc = w[j].pc
           /\ c[w[j].pc] \in StoreKinds =>
                /\ v[j].completed <=> w[j].completed
                /\ w[j].completed => v[j].C_value = w[j].C_value
  PROVE  LoadedIn(c, v, mem, i) = LoadedIn(c, w, mem, i)
<1> DEFINE S == StoresIn(c, w, i)
<1>1. StoresIn(c, v, i) = S
  BY DEF StoresIn
<1>2. S \subseteq 1 .. i - 1 /\ i - 1 \in Nat
  BY DEF StoresIn
<1>3. CASE S = {}
  BY <1>1, <1>3 DEF LoadedIn
<1>4. CASE S # {}
  <2>1. Last(S) \in S
    BY <1>2, <1>4, LastOfSome
  <2>2. Last(S) \in 1 .. i - 1 /\ c[w[Last(S)].pc] \in StoreKinds /\ w[Last(S)].completed
    BY <2>1 DEF StoresIn
  <2>3. v[Last(S)].C_value = w[Last(S)].C_value
    BY <2>2
  <2> QED BY <1>1, <1>4, <2>3 DEF LoadedIn
<1> QED BY <1>3, <1>4

\* A store hides the ones before it.
LEMMA LoadedBehindStore ==
  ASSUME NEW c, NEW v, NEW w, NEW mem, NEW i \in Nat \ {0},
         NEW k \in 1 .. i - 1, NEW s \in k + 1 .. i - 1,
         c[w[s].pc] \in StoreKinds, w[s].completed,
         \A j \in 1 .. i - 1 : v[j].pc = w[j].pc,
         \A j \in k + 1 .. i - 1 :
           c[w[j].pc] \in StoreKinds =>
                /\ v[j].completed <=> w[j].completed
                /\ w[j].completed => v[j].C_value = w[j].C_value
  PROVE  LoadedIn(c, v, mem, i) = LoadedIn(c, w, mem, i)
<1> DEFINE S == StoresIn(c, w, i)
           T == StoresIn(c, v, i)
<1>1. /\ S \subseteq 1 .. i - 1 /\ T \subseteq 1 .. i - 1 /\ i - 1 \in Nat
      /\ \A j \in k + 1 .. i - 1 : j \in 1 .. i - 1
  BY DEF StoresIn
<1>2. \A j \in k + 1 .. i - 1 : j \in T <=> j \in S
  BY <1>1 DEF StoresIn
<1>3. s \in S /\ s \in T
  BY <1>1, <1>2 DEF StoresIn
<1>4. Last(S) \in S /\ \A j \in S : j <= Last(S)
  BY <1>1, <1>3, LastOfSome
<1> HIDE DEF S, T
<1>5. Last(S) \in k + 1 .. i - 1
  <2>1. Last(S) \in 1 .. i - 1 /\ s <= Last(S)
    BY <1>1, <1>3, <1>4
  <2> QED BY <2>1
<1>6. ASSUME NEW j \in T PROVE j <= Last(S)
  <2>1. CASE j \in k + 1 .. i - 1
    BY <1>2, <1>4, <2>1
  <2>2. CASE j \notin k + 1 .. i - 1
    BY <1>1, <1>5, <2>2
  <2> QED BY <2>1, <2>2
<1>7. Last(S) \in T
  BY <1>2, <1>4, <1>5
<1>8. Last(T) = Last(S)
  BY <1>1, <1>6, <1>7, LastIs
<1>9. v[Last(S)].C_value = w[Last(S)].C_value
  <2>1. c[w[Last(S)].pc] \in StoreKinds /\ w[Last(S)].completed
    BY <1>4 DEF S, StoresIn
  <2> QED BY <1>5, <2>1
<1> QED BY <1>3, <1>8, <1>9 DEF LoadedIn, S, T

\* When the oldest instruction leaves, its result is the committed one.
LEMMA OperandShift ==
  ASSUME NEW c, NEW v, NEW w, NEW acc, NEW next, NEW i \in Nat \ {0},
         \A j \in 1 .. i - 1 : v[j] = w[j + 1],
         next = IF c[w[1].pc] \in WithDest THEN Read(w[1]) ELSE acc
  PROVE  OperandIn(c, v, next, i) = OperandIn(c, w, acc, i + 1)
<1> DEFINE S == ProducersIn(c, v, i)
           T == ProducersIn(c, w, i + 1)
<1>1. /\ S \subseteq 1 .. i - 1 /\ T \subseteq 1 .. i - 1 + 1 /\ i - 1 \in Nat
      /\ \A j \in 1 .. i - 1 : j \in S <=> j + 1 \in T
      /\ 1 \in T <=> c[w[1].pc] \in WithDest
  BY DEF ProducersIn
<1>2. T = {} \/ T = {1} => S = {}
  <2>1. \A j \in 1 .. i - 1 : j + 1 # 1
    OBVIOUS
  <2> HIDE DEF S, T
  <2> QED BY <1>1, <2>1
<1>3. CASE S = {}
  <2>1. T \subseteq {1}
    <3> SUFFICES ASSUME NEW j \in T, j # 1 PROVE FALSE
      OBVIOUS
    <3>1. j - 1 \in 1 .. i - 1 /\ j - 1 + 1 = j
      BY <1>1
    <3>2. j - 1 \in S
      BY <1>1, <3>1
    <3> QED BY <1>3, <3>2
  <2>2. CASE c[w[1].pc] \in WithDest
    <3>1. 1 \in T /\ T # {} /\ \A j \in T : j <= 1
      BY <1>1, <2>1, <2>2
    <3>2. i - 1 + 1 \in Nat
      OBVIOUS
    <3> HIDE DEF S, T
    <3>3. Last(T) = 1
      BY <1>1, <3>1, <3>2, LastIs
    <3> QED BY <1>3, <2>2, <3>1, <3>3 DEF OperandIn, S, T
  <2>3. CASE c[w[1].pc] \notin WithDest
    <3>1. T = {}
      BY <1>1, <2>1, <2>3
    <3> QED BY <1>3, <2>3, <3>1 DEF OperandIn
  <2> QED BY <2>2, <2>3
<1>4. CASE S # {}
  <2>1. Last(S) \in S /\ Last(T) = Last(S) + 1 /\ T # {}
    <3> HIDE DEF S, T
    <3> QED BY <1>1, <1>2, <1>4, LastOfSome, LastShifted
  <2>2. v[Last(S)] = w[Last(T)]
    BY <1>1, <2>1
  <2> QED BY <1>4, <2>1, <2>2 DEF OperandIn
<1> QED BY <1>3, <1>4

LEMMA LoadedShift ==
  ASSUME NEW c, NEW v, NEW w, NEW mem, NEW next, NEW i \in Nat \ {0},
         \A j \in 1 .. i - 1 : v[j] = w[j + 1],
         w[1].completed,
         next = IF c[w[1].pc] \in StoreKinds THEN w[1].C_value ELSE mem
  PROVE  LoadedIn(c, v, next, i) = LoadedIn(c, w, mem, i + 1)
<1> DEFINE S == StoresIn(c, v, i)
           T == StoresIn(c, w, i + 1)
<1>1. /\ S \subseteq 1 .. i - 1 /\ T \subseteq 1 .. i - 1 + 1 /\ i - 1 \in Nat
      /\ \A j \in 1 .. i - 1 : j \in S <=> j + 1 \in T
      /\ 1 \in T <=> c[w[1].pc] \in StoreKinds
  BY DEF StoresIn
<1>2. T = {} \/ T = {1} => S = {}
  <2>1. \A j \in 1 .. i - 1 : j + 1 # 1
    OBVIOUS
  <2> HIDE DEF S, T
  <2> QED BY <1>1, <2>1
<1>3. CASE S = {}
  <2>1. T \subseteq {1}
    <3> SUFFICES ASSUME NEW j \in T, j # 1 PROVE FALSE
      OBVIOUS
    <3>1. j - 1 \in 1 .. i - 1 /\ j - 1 + 1 = j
      BY <1>1
    <3>2. j - 1 \in S
      BY <1>1, <3>1
    <3> QED BY <1>3, <3>2
  <2>2. CASE c[w[1].pc] \in StoreKinds
    <3>1. 1 \in T /\ T # {} /\ \A j \in T : j <= 1
      BY <1>1, <2>1, <2>2
    <3>2. i - 1 + 1 \in Nat
      OBVIOUS
    <3> HIDE DEF S, T
    <3>3. Last(T) = 1
      BY <1>1, <3>1, <3>2, LastIs
    <3> QED BY <1>3, <2>2, <3>1, <3>3 DEF LoadedIn, S, T
  <2>3. CASE c[w[1].pc] \notin StoreKinds
    <3>1. T = {}
      BY <1>1, <2>1, <2>3
    <3> QED BY <1>3, <2>3, <3>1 DEF LoadedIn
  <2> QED BY <2>2, <2>3
<1>4. CASE S # {}
  <2>1. Last(S) \in S /\ Last(T) = Last(S) + 1 /\ T # {}
    <3> HIDE DEF S, T
    <3> QED BY <1>1, <1>2, <1>4, LastOfSome, LastShifted
  <2>2. v[Last(S)] = w[Last(T)]
    BY <1>1, <2>1
  <2> QED BY <1>4, <2>1, <2>2 DEF LoadedIn
<1> QED BY <1>3, <1>4

\* The oldest instruction reads the committed state.
LEMMA OldestReadsCommitted ==
  Operand(1) = arch.acc /\ LoadedValue(1) = arch.mem
<1>1. ProducersIn(code, window, 1) = {} /\ StoresIn(code, window, 1) = {}
  BY DEF ProducersIn, StoresIn
<1> QED BY <1>1, OperandIsIn, LoadedIsIn DEF OperandIn, LoadedIn

-----------------------------------------------------------------------------
(* Types *)

\* state_t and the instruction set, for every program
LEMMA Assumed ==
  /\ CodeLength \in Nat \ {0}
  /\ BranchTarget \in Software!Addresses /\ TrapVector \in Software!Addresses
  /\ 0 \in Software!Addresses
  /\ \A a \in Software!Addresses : Software!IncrementPC(a) \in Software!Addresses
  /\ \A c \in Programs : c \in [Software!Addresses -> Software!Kinds]
<1>1. /\ CodeLength \in Nat \ {0}
      /\ BranchTarget \in Software!Addresses /\ TrapVector \in Software!Addresses
      /\ \A c \in Programs : c \in [Software!Addresses -> Software!Kinds]
  BY RetirementAssumption
<1>2. ASSUME NEW a \in Software!Addresses
      PROVE  Software!IncrementPC(a) \in Software!Addresses
  <2>1. a \in Nat /\ a + 1 \in Nat /\ CodeLength \in Nat /\ CodeLength > 0
    BY <1>1 DEF Software!Addresses
  <2>2. (a + 1) % CodeLength \in 0 .. CodeLength - 1
    BY <2>1
  <2> QED BY <2>2 DEF Software!Addresses, Software!IncrementPC
<1>3. 0 \in Software!Addresses
  BY <1>1 DEF Software!Addresses
<1> QED BY <1>1, <1>2, <1>3

LEMMA CauseTyped ==
  ASSUME NEW kind, NEW a
  PROVE  Software!Cause(kind, a) \in Software!Causes
  BY DEF Software!Cause, Software!Causes

LEMMA EffectTyped ==
  ASSUME NEW kind, NEW a \in Software!ArchState
  PROVE  Software!Effect(kind, a) \in Software!ArchState
<1>1. a.acc \in 0 .. 2 => Software!Result(a.acc) \in Values
  BY DEF Software!Result, Values, Software!Values
<1>2. Software!OldStatus(a) \in Values
  BY DEF Software!OldStatus, Values, Software!Values
<1>3. a.acc \in 0 .. 2
  BY DEF Software!ArchState, Software!Values
<1>4. 0 \in Values /\ (~a.ef) \in BOOLEAN
  BY DEF Values, Software!Values
<1>5. \A v \in Values, u \in Values, b \in BOOLEAN :
        /\ [a EXCEPT !.acc = v] \in Software!ArchState
        /\ [a EXCEPT !.mem = v] \in Software!ArchState
        /\ [a EXCEPT !.acc = v, !.mem = u] \in Software!ArchState
        /\ [a EXCEPT !.acc = v, !.ef = b] \in Software!ArchState
        /\ [a EXCEPT !.acc = v, !.serialized = FALSE] \in Software!ArchState
  BY DEF Software!ArchState, Values
<1>6. a.acc \in Values /\ a.mem \in Values /\ a.psup \in BOOLEAN
  BY DEF Software!ArchState, Values
<1>7. [a EXCEPT !.sup = a.psup] \in Software!ArchState
  BY <1>6 DEF Software!ArchState
<1>8. [a EXCEPT !.acc = Software!OldStatus(a), !.ef = ~a.ef] \in Software!ArchState
  BY <1>2, <1>4, <1>5, Zenon
<1> QED
  BY <1>1, <1>3, <1>4, <1>5, <1>6, <1>7, <1>8 DEF Software!Effect

LEMMA ExecutedTyped ==
  ASSUME NEW s \in State
  PROVE  Software!Executed(code, s) \in State
<1> DEFINE kind == code[s.pc]
           cause == Software!Cause(kind, s.arch)
<1>1. cause \in Software!Causes
  BY CauseTyped
<1>2. s.pc \in Software!Addresses /\ s.arch \in Software!ArchState
  BY DEF State
<1>3. Software!Trapped(s.arch, s.pc, cause) \in Software!ArchState
  BY <1>1, <1>2 DEF Software!Trapped, Software!ArchState
<1>4. Software!NextPC(kind, s.pc, s.arch) \in Software!Addresses
  BY <1>2, Assumed DEF Software!NextPC, Software!ArchState
<1>5. Software!Effect(kind, s.arch) \in Software!ArchState
  BY <1>2, EffectTyped
<1>6. [s EXCEPT !.arch.serialized = TRUE] \in State
  BY DEF State, Software!ArchState
<1> QED BY <1>3, <1>4, <1>5, <1>6, Assumed DEF Software!Executed, State

LEMMA TypedWindow ==
  ASSUME TypeOK
  PROVE  /\ Len(window) \in Nat
         /\ \A i \in InFlight : window[i] \in Instruction
         /\ \A i \in InFlight : window[i].pc \in Software!Addresses
         /\ \A i \in InFlight : Kind(i) \in Software!Kinds
<1>1. window \in Seq(Instruction) /\ code \in [Software!Addresses -> Software!Kinds]
  BY Assumed DEF TypeOK
<1>2. /\ Len(window) \in Nat
      /\ \A i \in InFlight : window[i] \in Instruction
  BY <1>1 DEF InFlight
<1>3. \A i \in InFlight : window[i].pc \in Software!Addresses
  BY <1>2 DEF Instruction
<1> QED BY <1>1, <1>2, <1>3 DEF Kind

\* With nothing in flight there is little to say.
LEMMA EmptyWindow ==
  ASSUME TypeOK, window = <<>>, functional = [pc |-> fetch.pc, arch |-> arch]
  PROVE  IInv
<1>1. InFlight = {} /\ 1 .. Len(window) - 1 = {} /\ ArchPC = fetch.pc
  BY DEF InFlight, ArchPC
<1> QED BY <1>1 DEF IInv, OldestOnPath, Linked

LEMMA InitIInv ==
  ASSUME Init
  PROVE  IInv
<1>1. PICK value \in Values : arch = Software!InitialArch(value)
  BY DEF Init, Software!Init, Values
<1>2. arch \in Software!ArchState
  <2>1. 0 \in Values /\ value \in Values /\ "none" \in Software!Causes
    BY DEF Values, Software!Values, Software!Causes
  <2> QED BY <1>1, <2>1, Assumed DEF Software!InitialArch, Software!ArchState, Values
<1>3. code \in Programs /\ predictors \in Settings
  BY RetirementAssumption DEF Init, Software!Init
<1>4. fetch = [pc |-> 0, stalled |-> FALSE] /\ window = <<>>
      /\ functional = [pc |-> 0, arch |-> arch]
  BY DEF Init
<1>5. TypeOK
  BY <1>2, <1>3, <1>4, Assumed DEF TypeOK
<1> QED BY <1>4, <1>5, EmptyWindow

-----------------------------------------------------------------------------
(* Dispatch *)

LEMMA SameReads ==
  ASSUME NEW c, NEW v, NEW w, NEW acc, NEW mem, NEW i \in Nat \ {0},
         \A j \in 1 .. i - 1 : v[j] = w[j]
  PROVE  /\ OperandIn(c, v, acc, i) = OperandIn(c, w, acc, i)
         /\ LoadedIn(c, v, mem, i) = LoadedIn(c, w, mem, i)
<1>1. LoadedIn(c, v, mem, i) = LoadedIn(c, w, mem, i)
  BY LoadedFrame
<1>2. \/ OperandIn(c, v, acc, i) = OperandIn(c, w, acc, i)
      \/ OperandIn(c, w, acc, i) = NoValue
  BY OperandFrame
<1>3. \/ OperandIn(c, w, acc, i) = OperandIn(c, v, acc, i)
      \/ OperandIn(c, v, acc, i) = NoValue
  BY OperandFrame
<1> QED BY <1>1, <1>2, <1>3

\* Nothing that is younger matters.
LEMMA SoundSame ==
  ASSUME NEW i \in Nat \ {0}, UNCHANGED <<code, arch>>,
         \A j \in 1 .. i : window'[j] = window[j],
         Sound(i)
  PROVE  Sound(i)'
<1>1. window'[i] = window[i] /\ \A j \in 1 .. i - 1 : window'[j] = window[j]
  OBVIOUS
<1>2. Operand(i)' = Operand(i) /\ LoadedValue(i)' = LoadedValue(i)
  <2>1. /\ OperandIn(code, window', arch.acc, i) = OperandIn(code, window, arch.acc, i)
        /\ LoadedIn(code, window', arch.mem, i) = LoadedIn(code, window, arch.mem, i)
    BY <1>1, SameReads
  <2> QED BY <2>1, OperandIsIn, LoadedIsIn
<1>3. Kind(i)' = Kind(i) /\ (Quiet(i)' <=> Quiet(i))
  BY <1>1 DEF Kind, Quiet
<1>4. (Faults(i)' <=> Faults(i)) /\ ComputedValue(i)' = ComputedValue(i)
  BY <1>2, <1>3 DEF Faults, ComputedValue
<1>5. DispatchTrap(Kind(i))' = DispatchTrap(Kind(i))
  BY <1>3 DEF DispatchTrap
<1> QED BY <1>1, <1>2, <1>3, <1>4, <1>5 DEF Sound

\* map_to_actual() keeps the link to the functional simulator.
LEMMA GoodIsLinked ==
  ASSUME IInv, Good(fetch.pc)
  PROVE  Actual(fetch.pc) \in State /\ Actual(fetch.pc).pc = fetch.pc
<1>1. CASE window = <<>>
  BY <1>1 DEF IInv, TypeOK, Linked, ArchPC, Actual, State
<1>2. CASE window # <<>>
  <2>1. Len(window) \in InFlight
    BY <1>2 DEF IInv, TypeOK, InFlight
  <2>2. window[Len(window)].actual \in State
    BY <1>2, <2>1 DEF Good, IInv, Linked
  <2>3. Software!Executed(code, window[Len(window)].actual).pc = fetch.pc
    BY <1>2 DEF Good
  <2>4. Software!Executed(code, window[Len(window)].actual) \in State
    BY <2>2, ExecutedTyped
  <2> QED BY <1>2, <2>3, <2>4 DEF Actual
<1> QED BY <1>1, <1>2

LEMMA DispatchTypeOK ==
  ASSUME IInv, NEW next_pc \in Successors(fetch.pc),
         NEW prediction \in Predictions(fetch.pc),
         Dispatch(next_pc, prediction)
  PROVE  TypeOK' /\ next_pc \in Software!Addresses
<1> DEFINE at == fetch.pc
<1>1. at \in Software!Addresses /\ predictors \in Settings
  BY DEF IInv, TypeOK
<1>2. /\ Actual(at) \in State \cup {[pc |-> NoValue]}
      /\ Good(at) => Actual(at) \in State
  BY GoodIsLinked DEF Actual
<1>3. Good(at) => Software!Executed(code, Actual(at)) \in State
  BY <1>2, ExecutedTyped
<1>4. next_pc \in Software!Addresses
  BY <1>1, <1>3, Assumed DEF Successors, State
<1>5. prediction \in Values \cup {NoValue}
  BY <1>3 DEF Predictions, ConfidentPredictions, State, Software!ArchState, Values
<1>6. DispatchTrap(code[at]) \in Software!Causes
  BY DEF DispatchTrap, Software!Causes
<1>7. Good(at) \in BOOLEAN
  BY DEF Good
<1>8. [pc |-> at, next_pc |-> next_pc,
       good_instruction |-> Good(at), actual |-> Actual(at),
       vp_value |-> prediction, C_value |-> NoValue,
       completed |-> code[at] = "syscall",
       exception |-> DispatchTrap(code[at]) # "none", trap |-> DispatchTrap(code[at]),
       load_viol |-> FALSE, val_misp |-> FALSE] \in Instruction
  BY <1>1, <1>2, <1>4, <1>5, <1>6, <1>7 DEF Instruction, State
<1>9. window' \in Seq(Instruction)
  BY <1>8 DEF Dispatch, IInv, TypeOK
<1> QED BY <1>4, <1>9 DEF Dispatch, IInv, TypeOK

LEMMA DispatchStep ==
  ASSUME IInv, NEW next_pc \in Successors(fetch.pc),
         NEW prediction \in Predictions(fetch.pc),
         Dispatch(next_pc, prediction)
  PROVE  IInv' /\ ArchPC' = ArchPC
<1> DEFINE at == fetch.pc
           n == Len(window)
           inst == [pc |-> at, next_pc |-> next_pc,
                    good_instruction |-> Good(at), actual |-> Actual(at),
                    vp_value |-> prediction, C_value |-> NoValue,
                    completed |-> code[at] = "syscall",
                    exception |-> DispatchTrap(code[at]) # "none",
                    trap |-> DispatchTrap(code[at]),
                    load_viol |-> FALSE, val_misp |-> FALSE]
<1>1. TypeOK' /\ next_pc \in Software!Addresses
  BY DispatchTypeOK
<1>2. /\ n \in Nat /\ window \in Seq(Instruction)
      /\ ~fetch.stalled
      /\ fetch' = [pc |-> next_pc, stalled |-> code[at] \in Serializing]
      /\ UNCHANGED <<code, predictors, arch, functional>>
  BY DEF IInv, TypeOK, Dispatch
<1>3. /\ Len(window') = n + 1
      /\ window'[n + 1] = inst
      /\ \A i \in 1 .. n : window'[i] = window[i]
  <2>1. window' = Append(window, inst)
    BY DEF Dispatch
  <2> HIDE DEF inst
  <2> QED BY <1>2, <2>1
<1>10. LET new == window'[n + 1]
       IN /\ new.pc = at /\ new.next_pc = next_pc
          /\ new.good_instruction <=> Good(at)
          /\ new.actual = Actual(at)
          /\ new.vp_value = prediction
          /\ new.completed <=> code[at] = "syscall"
          /\ new.trap = DispatchTrap(code[at])
          /\ new.exception <=> new.trap # "none"
          /\ ~new.load_viol /\ ~new.val_misp
  <2>1. /\ inst.good_instruction = Good(at)
        /\ inst.completed = (code[at] = "syscall")
        /\ inst.exception = (DispatchTrap(code[at]) # "none")
    BY Zenon
  <2>2. /\ inst.pc = at /\ inst.next_pc = next_pc
        /\ inst.actual = Actual(at) /\ inst.vp_value = prediction
        /\ inst.trap = DispatchTrap(code[at])
        /\ inst.load_viol = FALSE /\ inst.val_misp = FALSE
    BY Zenon
  <2> HIDE DEF inst
  <2> QED BY <1>3, <2>1, <2>2, Zenon
<1> HIDE DEF inst
<1>4. window = <<>> <=> n = 0
  BY <1>2
<1>5. ArchPC' = ArchPC
  BY <1>2, <1>3, <1>4, <1>10 DEF ArchPC
<1>6. Good(at) => Actual(at) \in State /\ Actual(at).pc = at
  BY GoodIsLinked
<1>7. OldestOnPath'
  <2>1. CASE n = 0
    BY <1>2, <1>3, <1>4, <1>10, <2>1 DEF OldestOnPath, Oldest, Good, Actual
  <2>2. CASE n # 0
    BY <1>2, <1>3, <1>4, <2>2 DEF OldestOnPath, Oldest, IInv
  <2> QED BY <2>1, <2>2
<1>8. Linked'
  <2>1. functional' = [pc |-> ArchPC', arch |-> arch']
    BY <1>2, <1>5 DEF IInv, Linked
  <2>2. ASSUME NEW i \in InFlight', window'[i].good_instruction
        PROVE  window'[i].actual \in State /\ window'[i].actual.pc = window'[i].pc
    <3>1. i \in 1 .. n \/ i = n + 1
      BY <1>2, <1>3 DEF InFlight
    <3> QED BY <1>3, <1>10, <1>6, <2>2, <3>1 DEF InFlight, IInv, Linked
  <2>3. ASSUME NEW i \in 1 .. Len(window') - 1
        PROVE  /\ window'[i + 1].good_instruction <=>
                    /\ window'[i].good_instruction
                    /\ Software!Executed(code', window'[i].actual).pc = window'[i + 1].pc
               /\ window'[i + 1].good_instruction =>
                    window'[i + 1].actual = Software!Executed(code', window'[i].actual)
    <3>1. CASE i < n
      <4>1. i \in 1 .. n - 1 /\ i \in 1 .. n /\ i + 1 \in 1 .. n
        BY <1>2, <1>3, <3>1
      <4> QED BY <1>2, <1>3, <4>1 DEF IInv, Linked
    <3>2. CASE i = n
      <4>1. n # 0 /\ i + 1 = n + 1 /\ window'[i] = window[n]
        BY <1>2, <1>3, <3>2
      <4>2. /\ Good(at) <=> /\ window[n].good_instruction
                            /\ Software!Executed(code, window[n].actual).pc = at
            /\ Good(at) => Actual(at) = Software!Executed(code, window[n].actual)
        BY <1>4, <4>1 DEF Good, Actual
      <4> QED BY <1>2, <1>3, <1>10, <4>1, <4>2
    <3> QED BY <1>2, <1>3, <3>1, <3>2
  <2> QED BY <2>1, <2>2, <2>3 DEF Linked
<1>9. ASSUME NEW i \in InFlight'
      PROVE  (Connected(i) /\ InstructionOK(i) /\ Sound(i))'
  <2>1. CASE i \in 1 .. n
    <3>1. /\ i \in InFlight /\ window'[i] = window[i] /\ Kind(i)' = Kind(i)
          /\ Connected(i) /\ InstructionOK(i) /\ Sound(i)
      BY <1>2, <1>3, <2>1 DEF InFlight, Kind, IInv
    <3>2. Following(i)' = Following(i)
      <4>1. CASE i < n
        BY <1>2, <1>3, <2>1, <4>1 DEF Following
      <4>2. CASE i = n
        BY <1>2, <1>3, <1>10, <2>1, <4>2 DEF Following
      <4> QED BY <1>2, <2>1, <4>1, <4>2
    <3>3. Connected(i)'
      BY <1>2, <3>1, <3>2 DEF Connected, Outcome
    <3>4. InstructionOK(i)'
      BY <1>2, <3>1 DEF InstructionOK, DispatchTrap
    <3>5. Sound(i)'
      <4>1. i \in Nat \ {0} /\ \A j \in 1 .. i : window'[j] = window[j]
        BY <1>2, <1>3, <2>1
      <4> QED BY <1>2, <3>1, <4>1, SoundSame
    <3> QED BY <3>3, <3>4, <3>5
  <2>2. CASE i = n + 1
    <3>1. Kind(i)' = code[at] /\ Len(window') = i
      BY <1>2, <1>3, <1>10, <2>2 DEF Kind
    <3>2. Connected(i)'
      <4>1. Following(i)' = next_pc
        BY <1>2, <3>1, <2>2 DEF Following
      <4> QED BY <1>2, <1>10, <2>2, <3>1, <4>1 DEF Connected, Successors
    <3>3. InstructionOK(i)'
      <4>1. prediction # NoValue =>
              /\ Eligible(code[at])
              /\ predictors.vpu # "svp" =>
                   Good(at) /\ prediction = Software!Executed(code, Actual(at)).arch.acc
        BY DEF Predictions, ConfidentPredictions
      <4>2. Kind(i)' \in Serializing => i = Len(window') /\ fetch'.stalled
        <5>1. fetch'.stalled = (code[at] \in Serializing)
          BY <1>2, Zenon
        <5> QED BY <3>1, <5>1, Zenon
      <4>3. /\ DispatchTrap(Kind(i))' = DispatchTrap(code[at])
            /\ code[at] = "syscall" => DispatchTrap(code[at]) # "none"
        BY <1>2, <3>1 DEF DispatchTrap
      <4> HIDE DEF at
      <4> QED BY <1>2, <1>10, <3>1, <4>1, <4>2, <4>3, <2>2 DEF InstructionOK, Eligible
    <3>4. Sound(i)'
      BY <1>10, <2>2, <3>1 DEF Sound
    <3> QED BY <3>2, <3>3, <3>4
  <2> QED BY <1>2, <1>3, <2>1, <2>2 DEF InFlight
<1> QED BY <1>1, <1>5, <1>7, <1>8, <1>9 DEF IInv

-----------------------------------------------------------------------------
(* Execution *)

LEMMA DoneFields ==
  ASSUME NEW inst \in Instruction, NEW v \in Values
  PROVE  LET out == Done(inst, v)
         IN /\ out \in Instruction
            /\ out.completed /\ out.C_value = v
            /\ out.val_misp <=> inst.vp_value \notin {NoValue, v}
            /\ out.pc = inst.pc /\ out.next_pc = inst.next_pc
            /\ out.good_instruction = inst.good_instruction /\ out.actual = inst.actual
            /\ out.vp_value = inst.vp_value /\ out.load_viol = inst.load_viol
            /\ out.exception = inst.exception /\ out.trap = inst.trap
<1>1. ASSUME NEW b \in BOOLEAN
      PROVE  LET out == [inst EXCEPT !.completed = TRUE, !.C_value = v, !.val_misp = b]
             IN /\ out \in Instruction
                /\ out.completed /\ out.C_value = v
                /\ out.val_misp = b
                /\ out.pc = inst.pc /\ out.next_pc = inst.next_pc
                /\ out.good_instruction = inst.good_instruction /\ out.actual = inst.actual
                /\ out.vp_value = inst.vp_value /\ out.load_viol = inst.load_viol
                /\ out.exception = inst.exception /\ out.trap = inst.trap
  BY DEF Instruction
<1>2. (inst.vp_value \notin {NoValue, v}) \in BOOLEAN
  OBVIOUS
<1> QED BY <1>1, <1>2, Zenon DEF Done

LEMMA PostedFields ==
  ASSUME NEW inst \in Instruction
  PROVE  LET out == Posted(inst, "fault")
         IN /\ out \in Instruction
            /\ out.exception
            /\ out.trap = IF inst.trap = "none" THEN "fault" ELSE inst.trap
            /\ out.pc = inst.pc /\ out.next_pc = inst.next_pc
            /\ out.good_instruction = inst.good_instruction /\ out.actual = inst.actual
            /\ out.vp_value = inst.vp_value /\ out.load_viol = inst.load_viol
            /\ out.completed = inst.completed /\ out.C_value = inst.C_value
            /\ out.val_misp = inst.val_misp
<1> DEFINE cause == IF inst.trap = "none" THEN "fault" ELSE inst.trap
<1>1. cause \in Software!Causes
  BY DEF Instruction, Software!Causes
<1>2. ASSUME NEW t \in Software!Causes
      PROVE  LET out == [inst EXCEPT !.exception = TRUE, !.trap = t]
             IN /\ out \in Instruction
                /\ out.exception
                /\ out.trap = t
                /\ out.pc = inst.pc /\ out.next_pc = inst.next_pc
                /\ out.good_instruction = inst.good_instruction /\ out.actual = inst.actual
                /\ out.vp_value = inst.vp_value /\ out.load_viol = inst.load_viol
                /\ out.completed = inst.completed /\ out.C_value = inst.C_value
                /\ out.val_misp = inst.val_misp
  BY DEF Instruction
<1>3. Posted(inst, "fault") = [inst EXCEPT !.exception = TRUE, !.trap = cause]
  BY DEF Posted
<1> HIDE DEF cause
<1>4. LET out == [inst EXCEPT !.exception = TRUE, !.trap = cause]
      IN /\ out \in Instruction
         /\ out.exception
         /\ out.trap = cause
         /\ out.pc = inst.pc /\ out.next_pc = inst.next_pc
         /\ out.good_instruction = inst.good_instruction /\ out.actual = inst.actual
         /\ out.vp_value = inst.vp_value /\ out.load_viol = inst.load_viol
         /\ out.completed = inst.completed /\ out.C_value = inst.C_value
         /\ out.val_misp = inst.val_misp
  BY <1>1, <1>2
<1> QED BY <1>3, <1>4, Zenon DEF cause

LEMMA ViolatedFields ==
  ASSUME NEW inst \in Instruction
  PROVE  LET out == [inst EXCEPT !.load_viol = TRUE]
         IN /\ out \in Instruction
            /\ out.load_viol
            /\ out.pc = inst.pc /\ out.next_pc = inst.next_pc
            /\ out.good_instruction = inst.good_instruction /\ out.actual = inst.actual
            /\ out.vp_value = inst.vp_value
            /\ out.exception = inst.exception /\ out.trap = inst.trap
            /\ out.completed = inst.completed /\ out.C_value = inst.C_value
            /\ out.val_misp = inst.val_misp
BY DEF Instruction

\* What all ways to execute instruction k with this result have in common: it is
\* marked, loads behind it may be marked, and if it is a branch that was
\* mispredicted nothing is left behind it.
Executes(k, value) ==
  LET inst == window'[k]
  IN /\ ~window[k].completed /\ Operand(k) # NoValue /\ value \in Values
     /\ inst = IF Faults(k) THEN Posted(Done(window[k], value), "fault")
               ELSE Done(window[k], value)
     /\ Faults(k) \/ value = ComputedValue(k)
     /\ window' = [j \in 1 .. Len(window') |-> window'[j]]
     /\ \A j \in InFlight' \ {k} :
          \/ window'[j] = window[j]
          \/ j > k /\ window'[j] = [window[j] EXCEPT !.load_viol = TRUE]
     /\ Kind(k) \in StoreKinds /\ ~Faults(k) =>
          \A j \in Violated(k) : window'[j].load_viol
     /\ UNCHANGED <<code, predictors, arch, functional>>
     /\ \/ /\ Len(window') = Len(window) /\ UNCHANGED fetch
           /\ \/ Kind(k) # "branch" \/ predictors.perfect_branches
              \/ window[k].next_pc = Outcome(k)'
        \/ /\ Len(window') = k /\ fetch' = [pc |-> Outcome(k)', stalled |-> FALSE]
           /\ Kind(k) = "branch" /\ ~predictors.perfect_branches

LEMMA ExecutedFields ==
  ASSUME IInv, NEW k \in InFlight, NEW value, Executes(k, value)
  PROVE  /\ Len(window') \in k .. Len(window)
         /\ k \in InFlight'
         /\ \A j \in InFlight' : j \in InFlight
         /\ \A j \in InFlight' :
              /\ window'[j] \in Instruction
              /\ window'[j].pc = window[j].pc
              /\ window'[j].next_pc = window[j].next_pc
              /\ window'[j].good_instruction = window[j].good_instruction
              /\ window'[j].actual = window[j].actual
              /\ window'[j].vp_value = window[j].vp_value
              /\ Kind(j)' = Kind(j)
         /\ \A j \in InFlight' \ {k} :
              /\ window'[j].exception = window[j].exception
              /\ window'[j].trap = window[j].trap
              /\ window'[j].completed = window[j].completed
              /\ window'[j].C_value = window[j].C_value
              /\ window'[j].val_misp = window[j].val_misp
              /\ window[j].load_viol => window'[j].load_viol
         /\ \A j \in 1 .. k - 1 : window'[j] = window[j]
         /\ window'[k].completed /\ window'[k].C_value = value
         /\ window'[k].val_misp <=> window[k].vp_value \notin {NoValue, value}
         /\ ~Faults(k) => /\ window'[k].exception = window[k].exception
                          /\ window'[k].trap = window[k].trap
         /\ Faults(k) => /\ window'[k].exception
                         /\ window'[k].trap = IF window[k].trap = "none" THEN "fault"
                                              ELSE window[k].trap
<1> DEFINE m == Len(window')
<1>1. /\ Len(window) \in Nat
      /\ \A j \in InFlight : window[j] \in Instruction
  BY TypedWindow DEF IInv
<1>2. m \in k .. Len(window)
  BY <1>1 DEF Executes, InFlight
<1>3. k \in InFlight' /\ \A j \in InFlight' : j \in InFlight
  BY <1>1, <1>2 DEF InFlight
<1>4. /\ window'[k] \in Instruction
      /\ window'[k].pc = window[k].pc
      /\ window'[k].next_pc = window[k].next_pc
      /\ window'[k].good_instruction = window[k].good_instruction
      /\ window'[k].actual = window[k].actual
      /\ window'[k].vp_value = window[k].vp_value
      /\ window'[k].completed /\ window'[k].C_value = value
      /\ window'[k].val_misp <=> window[k].vp_value \notin {NoValue, value}
      /\ ~Faults(k) => /\ window'[k].exception = window[k].exception
                       /\ window'[k].trap = window[k].trap
      /\ Faults(k) => /\ window'[k].exception
                      /\ window'[k].trap = IF window[k].trap = "none" THEN "fault"
                                           ELSE window[k].trap
  <2>1. window[k] \in Instruction /\ value \in Values
    BY <1>1 DEF Executes
  <2>2. CASE Faults(k)
    <3>1. window'[k] = Posted(Done(window[k], value), "fault")
      BY <2>2 DEF Executes
    <3> QED BY <2>1, <2>2, <3>1, DoneFields, PostedFields
  <2>3. CASE ~Faults(k)
    <3>1. window'[k] = Done(window[k], value)
      BY <2>3 DEF Executes
    <3> QED BY <2>1, <2>3, <3>1, DoneFields
  <2> QED BY <2>2, <2>3
<1>5. ASSUME NEW j \in InFlight' \ {k}
      PROVE  /\ window'[j] \in Instruction
             /\ window'[j].pc = window[j].pc
             /\ window'[j].next_pc = window[j].next_pc
             /\ window'[j].good_instruction = window[j].good_instruction
             /\ window'[j].actual = window[j].actual
             /\ window'[j].vp_value = window[j].vp_value
             /\ window'[j].exception = window[j].exception
             /\ window'[j].trap = window[j].trap
             /\ window'[j].completed = window[j].completed
             /\ window'[j].C_value = window[j].C_value
             /\ window'[j].val_misp = window[j].val_misp
             /\ window[j].load_viol => window'[j].load_viol
  <2>1. window[j] \in Instruction
    BY <1>1, <1>3
  <2>2. CASE window'[j] = window[j]
    BY <2>1, <2>2
  <2>3. CASE window'[j] = [window[j] EXCEPT !.load_viol = TRUE]
    BY <2>1, <2>3, ViolatedFields
  <2> QED BY <2>2, <2>3 DEF Executes
<1>6. \A j \in 1 .. k - 1 : window'[j] = window[j]
  <2>1. ASSUME NEW j \in 1 .. k - 1
        PROVE  j \in InFlight' \ {k} /\ ~(j > k)
    BY <1>1, <1>2 DEF InFlight
  <2> QED BY <2>1 DEF Executes
<1>7. \A j \in InFlight' : Kind(j)' = Kind(j)
  BY <1>4, <1>5 DEF Kind, Executes
<1> QED BY <1>2, <1>3, <1>4, <1>5, <1>6, <1>7

\* What behind instruction k relied on a value that has changed is not quiet,
\* or in violation.
LEMMA SoundBehind ==
  ASSUME IInv, NEW k \in InFlight, NEW value, Executes(k, value),
         NEW j \in InFlight', j > k
  PROVE  Sound(j)'
<1> SUFFICES ASSUME Quiet(j)', window'[j].completed, Kind(j)' # "syscall"
             PROVE  /\ Operand(j)' # NoValue
                    /\ (DispatchTrap(Kind(j)) = "none" =>
                          (window[j].trap = "fault" <=> Faults(j)))'
                    /\ ~window'[j].exception =>
                         \/ window'[j].C_value = ComputedValue(j)'
                         \/ window'[j].load_viol /\ Kind(j)' \in {"load", "lr"}
  BY DEF Sound
<1>1. /\ j \in InFlight /\ k \in InFlight /\ j \in Nat \ {0} /\ k \in Nat \ {0}
      /\ j # k /\ k \in 1 .. j - 1
      /\ \A l \in 1 .. j - 1 : l \in InFlight' /\ l \in InFlight
  <2>1. Len(window') \in Nat /\ Len(window) \in Nat /\ j \in InFlight /\ j \in InFlight'
    BY ExecutedFields, TypedWindow DEF IInv, InFlight
  <2> QED BY <2>1, ExecutedFields DEF InFlight
<1>2. /\ ~window'[k].exception /\ ~window'[k].val_misp
      /\ ~Faults(k)
      /\ window[k].vp_value \in {NoValue, value}
      /\ ~window[k].exception /\ ~window[k].val_misp
  <2>1. ~window'[k].exception /\ ~window'[k].val_misp
    BY <1>1 DEF Quiet
  <2>2. ~window[k].val_misp
    BY DEF Executes, IInv, InstructionOK
  <2> QED BY <2>1, <2>2, ExecutedFields
<1>3. Quiet(j)
  <2>1. ASSUME NEW l \in 1 .. j - 1
        PROVE  ~window[l].exception /\ ~window[l].val_misp
    <3>1. CASE l = k
      BY <1>2, <3>1
    <3>2. CASE l # k
      <4>1. l \in InFlight' \ {k} /\ ~window'[l].exception /\ ~window'[l].val_misp
        BY <1>1, <3>2 DEF Quiet
      <4> QED BY <4>1, ExecutedFields
    <3> QED BY <3>1, <3>2
  <2> QED BY <2>1 DEF Quiet
<1>4. /\ window[j].completed /\ Kind(j) = Kind(j)'
      /\ window'[j].C_value = window[j].C_value
      /\ window'[j].trap = window[j].trap
      /\ window'[j].exception = window[j].exception
      /\ window[j].load_viol => window'[j].load_viol
  <2>1. j \in InFlight' \ {k} /\ j \in InFlight'
    BY <1>1
  <2> QED BY <2>1, ExecutedFields
<1>5. /\ Operand(j) # NoValue
      /\ DispatchTrap(Kind(j)) = "none" => (window[j].trap = "fault" <=> Faults(j))
      /\ ~window[j].exception =>
           \/ window[j].C_value = ComputedValue(j)
           \/ window[j].load_viol /\ Kind(j) \in {"load", "lr"}
  BY <1>1, <1>3, <1>4 DEF IInv, Sound
<1>6. code' = code /\ arch' = arch
  BY DEF Executes
<1>7. Operand(j)' = Operand(j)
  <2>1. ASSUME NEW l \in 1 .. j - 1
        PROVE  /\ window'[l].pc = window[l].pc
               /\ Read(window'[l]) = Read(window[l]) \/ Read(window[l]) = NoValue
    <3>1. l \in InFlight'
      BY <1>1
    <3>2. CASE l = k
      <4>1. ~window[k].completed
        BY DEF Executes
      <4>2. window'[k].completed /\ window'[k].C_value = value /\ window'[l].pc = window[l].pc
        BY <3>1, <3>2, ExecutedFields
      <4> QED BY <1>2, <3>2, <4>1, <4>2 DEF Read
    <3>3. CASE l # k
      BY <3>1, <3>3, ExecutedFields DEF Read
    <3> QED BY <3>1, <3>2, <3>3, ExecutedFields
  <2>2. \/ OperandIn(code, window', arch.acc, j) = OperandIn(code, window, arch.acc, j)
        \/ OperandIn(code, window, arch.acc, j) = NoValue
    BY <1>1, <2>1, OperandFrame
  <2> QED BY <1>5, <1>6, <2>2, OperandIsIn
<1>8. (Faults(j)' <=> Faults(j)) /\ DispatchTrap(Kind(j))' = DispatchTrap(Kind(j))
  BY <1>4, <1>6, <1>7 DEF Faults, DispatchTrap
<1>9. \/ LoadedValue(j)' = LoadedValue(j)
      \/ Kind(j) \notin {"load", "lr"}
      \/ window'[j].load_viol
  <2>1. CASE Kind(k) \notin StoreKinds
    <3>1. ASSUME NEW l \in 1 .. j - 1
          PROVE  /\ window'[l].pc = window[l].pc
                 /\ code[window[l].pc] \in StoreKinds =>
                      /\ window'[l].completed <=> window[l].completed
                      /\ window[l].completed => window'[l].C_value = window[l].C_value
      <4>1. l \in InFlight'
        BY <1>1
      <4>2. CASE l = k
        BY <2>1, <4>1, <4>2, ExecutedFields DEF Kind
      <4>3. CASE l # k
        BY <4>1, <4>3, ExecutedFields
      <4> QED BY <4>2, <4>3
    <3>2. LoadedIn(code, window', arch.mem, j) = LoadedIn(code, window, arch.mem, j)
      BY <1>1, <3>1, LoadedFrame
    <3> QED BY <1>6, <3>2, LoadedIsIn
  <2>2. CASE j \in Violated(k)
    <3>1. Kind(k) \in StoreKinds
      \/ Kind(k) \notin StoreKinds
      OBVIOUS
    <3> QED BY <1>2, <2>1, <2>2, <3>1 DEF Executes
  <2>3. CASE Kind(k) \in StoreKinds /\ Kind(j) \in {"load", "lr"} /\ j \notin Violated(k)
    <3>1. PICK s \in k + 1 .. j - 1 : Kind(s) \in StoreKinds /\ window[s].completed
      <4>1. j \in k + 1 .. Len(window)
        BY <1>1 DEF InFlight
      <4> QED BY <1>4, <2>3, <4>1 DEF Violated, StoreKinds
    <3>2. \A l \in 1 .. j - 1 : window'[l].pc = window[l].pc
      BY <1>1, ExecutedFields
    <3>3. ASSUME NEW l \in k + 1 .. j - 1
          PROVE  /\ window'[l].completed = window[l].completed
                 /\ window'[l].C_value = window[l].C_value
      <4>1. l \in 1 .. j - 1 /\ l # k
        BY <1>1
      <4>2. l \in InFlight' \ {k}
        BY <1>1, <4>1
      <4> QED BY <4>2, ExecutedFields
    <3>4. code[window[s].pc] \in StoreKinds
      BY <3>1 DEF Kind
    <3>5. LoadedIn(code, window', arch.mem, j) = LoadedIn(code, window, arch.mem, j)
      BY <1>1, <3>1, <3>2, <3>3, <3>4, LoadedBehindStore
    <3> QED BY <1>6, <3>5, LoadedIsIn
  <2> QED BY <2>1, <2>2, <2>3
<1>10. \/ ComputedValue(j)' = ComputedValue(j)
       \/ window'[j].load_viol /\ Kind(j) \in {"load", "lr"}
  BY <1>4, <1>7, <1>9 DEF ComputedValue
<1>11. Operand(j)' # NoValue
  BY <1>5, <1>7
<1>12. (DispatchTrap(Kind(j)) = "none" => (window[j].trap = "fault" <=> Faults(j)))'
  BY <1>4, <1>5, <1>8
<1>13. ~window'[j].exception =>
         \/ window'[j].C_value = ComputedValue(j)'
         \/ window'[j].load_viol /\ Kind(j)' \in {"load", "lr"}
  BY <1>4, <1>5, <1>10
<1> QED BY <1>11, <1>12, <1>13

LEMMA SoundHere ==
  ASSUME IInv, NEW k \in InFlight, NEW value, Executes(k, value)
  PROVE  Sound(k)'
<1>1. k \in Nat \ {0} /\ k \in InFlight' /\ Kind(k)' = Kind(k)
  BY ExecutedFields DEF InFlight
<1>2. UNCHANGED <<code, arch>> /\ Operand(k) # NoValue
      /\ (Faults(k) \/ value = ComputedValue(k))
  BY DEF Executes
<1>3. Operand(k)' = Operand(k) /\ LoadedValue(k)' = LoadedValue(k)
  <2>1. \A j \in 1 .. k - 1 : window'[j] = window[j]
    BY ExecutedFields
  <2>2. /\ OperandIn(code, window', arch.acc, k) = OperandIn(code, window, arch.acc, k)
        /\ LoadedIn(code, window', arch.mem, k) = LoadedIn(code, window, arch.mem, k)
    BY <1>1, <2>1, SameReads
  <2> QED BY <1>2, <2>2, OperandIsIn, LoadedIsIn
<1>4. /\ Faults(k)' <=> Faults(k)
      /\ ComputedValue(k)' = ComputedValue(k)
      /\ DispatchTrap(Kind(k))' = DispatchTrap(Kind(k))
  BY <1>1, <1>2, <1>3 DEF Faults, ComputedValue, DispatchTrap
<1>5. window[k].trap = DispatchTrap(Kind(k))
  BY DEF IInv, InstructionOK, Executes
<1>6. DispatchTrap(Kind(k)) = "none" => (window'[k].trap = "fault" <=> Faults(k))
  BY <1>5, ExecutedFields
<1>7. ~window'[k].exception => window'[k].C_value = ComputedValue(k)
  BY <1>2, ExecutedFields
<1> QED BY <1>2, <1>3, <1>4, <1>6, <1>7 DEF Sound

LEMMA ExecutionStep ==
  ASSUME IInv, NEW k \in InFlight, NEW value, Executes(k, value)
  PROVE  IInv' /\ ArchPC' = ArchPC
<1> DEFINE m == Len(window')
<1>1. /\ Len(window) \in Nat /\ m \in k .. Len(window) /\ m \in Nat \ {0}
      /\ InFlight' = 1 .. m /\ InFlight = 1 .. Len(window)
      /\ UNCHANGED <<code, predictors, arch, functional>>
  <2>1. Len(window) \in Nat /\ m \in k .. Len(window)
    BY ExecutedFields, TypedWindow DEF IInv
  <2> QED BY <2>1 DEF InFlight, Executes
<1>2. window' # <<>> /\ window # <<>> /\ 1 \in InFlight'
  BY <1>1
<1>3. TypeOK'
  <2>1. window' \in Seq(Instruction)
    <3>1. window' = [j \in 1 .. m |-> window'[j]]
      BY DEF Executes
    <3>2. \A j \in 1 .. m : window'[j] \in Instruction
      BY <1>1, ExecutedFields
    <3>3. window' \in [1 .. m -> Instruction]
      BY <3>1, <3>2, Zenon
    <3> HIDE DEF m
    <3> QED BY <1>1, <3>3
  <2>2. fetch' \in [pc : Software!Addresses, stalled : BOOLEAN]
    <3>1. CASE UNCHANGED fetch
      BY <3>1 DEF IInv, TypeOK
    <3>2. CASE fetch' = [pc |-> Outcome(k)', stalled |-> FALSE]
      <4>1. window'[k].pc \in Software!Addresses
        BY ExecutedFields DEF Instruction
      <4>2. Outcome(k)' \in Software!Addresses
        BY <4>1, Assumed DEF Outcome
      <4> QED BY <3>2, <4>2
    <3> QED BY <3>1, <3>2 DEF Executes
  <2> QED BY <1>1, <2>1, <2>2 DEF IInv, TypeOK
<1>4. ArchPC' = ArchPC
  BY <1>2, ExecutedFields DEF ArchPC
<1>5. OldestOnPath'
  BY <1>1, <1>2, ExecutedFields DEF IInv, OldestOnPath, Oldest
<1>6. Linked'
  <2>1. functional' = [pc |-> ArchPC', arch |-> arch']
    BY <1>1, <1>4 DEF IInv, Linked
  <2>2. \A i \in InFlight' : window'[i].good_instruction =>
          window'[i].actual \in State /\ window'[i].actual.pc = window'[i].pc
    BY ExecutedFields DEF IInv, Linked
  <2>3. ASSUME NEW i \in 1 .. m - 1
        PROVE  /\ window'[i + 1].good_instruction <=>
                    /\ window'[i].good_instruction
                    /\ Software!Executed(code', window'[i].actual).pc = window'[i + 1].pc
               /\ window'[i + 1].good_instruction =>
                    window'[i + 1].actual = Software!Executed(code', window'[i].actual)
    <3>1. i \in 1 .. Len(window) - 1 /\ i \in InFlight' /\ i + 1 \in InFlight'
      BY <1>1
    <3>2. /\ window'[i].good_instruction = window[i].good_instruction
          /\ window'[i].actual = window[i].actual
          /\ window'[i + 1].good_instruction = window[i + 1].good_instruction
          /\ window'[i + 1].actual = window[i + 1].actual
          /\ window'[i + 1].pc = window[i + 1].pc
      BY <3>1, ExecutedFields
    <3> QED BY <1>1, <3>1, <3>2 DEF IInv, Linked
  <2> QED BY <2>1, <2>2, <2>3 DEF Linked
<1>7. ASSUME NEW i \in InFlight'
      PROVE  Connected(i)'
  <2>1. /\ i \in InFlight /\ Connected(i)
        /\ window'[i].pc = window[i].pc /\ window'[i].next_pc = window[i].next_pc
        /\ window'[i].good_instruction = window[i].good_instruction
        /\ window'[i].actual = window[i].actual
        /\ Kind(i)' = Kind(i)
    BY ExecutedFields DEF IInv
  <2>2. CASE i # m \/ (m = Len(window) /\ fetch' = fetch)
    <3>1. Following(i)' = Following(i)
      <4>1. CASE i < m
        <5>1. i + 1 \in InFlight' /\ i < Len(window)
          BY <1>1, <4>1
        <5> QED BY <4>1, <5>1, ExecutedFields DEF Following
      <4>2. CASE i = m
        BY <1>1, <2>2, <4>2 DEF Following
      <4> QED BY <1>1, <4>1, <4>2
    <3>2. CASE i # k
      <4>1. window'[i].completed = window[i].completed /\ window'[i].C_value = window[i].C_value
        BY <3>2, ExecutedFields
      <4> QED BY <1>1, <2>1, <3>1, <4>1 DEF Connected, Outcome
    <3>3. CASE i = k
      <4>1. ~window[k].completed /\ window'[k].completed
        BY ExecutedFields DEF Executes
      <4>2. \/ Kind(k) # "branch" \/ predictors.perfect_branches
            \/ window[k].next_pc = Outcome(k)'
            \/ m = k /\ fetch' = [pc |-> Outcome(k)', stalled |-> FALSE]
        BY DEF Executes
      <4>3. m = k /\ fetch' = [pc |-> Outcome(k)', stalled |-> FALSE]
              => Following(k)' = Outcome(k)'
        BY <1>1 DEF Following
      <4> QED BY <1>1, <2>1, <3>1, <3>3, <4>1, <4>2, <4>3 DEF Connected
    <3> QED BY <3>2, <3>3
  <2>3. CASE i = m /\ ~(m = Len(window) /\ fetch' = fetch)
    <3>1. /\ m = k /\ fetch' = [pc |-> Outcome(k)', stalled |-> FALSE]
          /\ Kind(k) = "branch" /\ ~predictors.perfect_branches
      BY <2>3 DEF Executes
    <3>2. Following(i)' = Outcome(i)'
      BY <1>1, <2>3, <3>1 DEF Following
    <3>3. window'[i].completed
      BY <2>3, <3>1, ExecutedFields
    <3>4. Kind(i)' = "branch" /\ ~predictors'.perfect_branches
      BY <1>1, <2>1, <2>3, <3>1
    <3>5. Following(i)' = IF window'[i].completed THEN Outcome(i)' ELSE window'[i].next_pc
      BY <3>2, <3>3
    <3> QED BY <3>4, <3>5, Zenon DEF Connected
  <2> QED BY <2>2, <2>3
<1>8. ASSUME NEW i \in InFlight'
      PROVE  InstructionOK(i)'
  <2>1. /\ i \in InFlight /\ InstructionOK(i)
        /\ window'[i].vp_value = window[i].vp_value
        /\ window'[i].good_instruction = window[i].good_instruction
        /\ window'[i].actual = window[i].actual
        /\ Kind(i)' = Kind(i)
        /\ DispatchTrap(Kind(i))' = DispatchTrap(Kind(i))
    BY <1>1, ExecutedFields DEF IInv, DispatchTrap
  <2>2. Kind(i) \in Serializing => i = Len(window') /\ fetch'.stalled
    <3>1. SUFFICES ASSUME Kind(i) \in Serializing
                   PROVE  i = Len(window') /\ fetch'.stalled
      OBVIOUS
    <3>2. i = Len(window) /\ fetch.stalled
      BY <2>1, <3>1 DEF InstructionOK
    <3>3. i = m /\ m = Len(window)
      BY <1>1, <3>2
    <3>4. UNCHANGED fetch
      <4>1. CASE m = k
        BY <3>1, <3>3, <4>1 DEF Executes, Serializing
      <4>2. CASE m # k
        BY <4>2 DEF Executes
      <4> QED BY <4>1, <4>2
    <3> QED BY <3>2, <3>3, <3>4
  <2>3. CASE i # k
    <3>1. /\ window'[i].exception = window[i].exception
          /\ window'[i].trap = window[i].trap
          /\ window'[i].completed = window[i].completed
          /\ window'[i].C_value = window[i].C_value
          /\ window'[i].val_misp = window[i].val_misp
      BY <2>3, ExecutedFields
    <3> QED BY <1>1, <2>1, <2>2, <3>1 DEF InstructionOK
  <2>4. CASE i = k
    <3>1. window[k].trap = DispatchTrap(Kind(k))
          /\ (window[k].exception <=> window[k].trap # "none")
      BY <2>1, <2>4 DEF InstructionOK, Executes
    <3>2. /\ window'[k].completed /\ window'[k].C_value \in Values
          /\ window'[k].val_misp <=> window'[k].vp_value \notin {NoValue, window'[k].C_value}
          /\ window'[k].exception <=> window'[k].trap # "none"
          /\ window'[k].trap \in {DispatchTrap(Kind(k)), "fault"}
          /\ DispatchTrap(Kind(k)) # "none" => window'[k].trap = DispatchTrap(Kind(k))
      <4>1. value \in Values
        BY DEF Executes
      <4>2. k \in InFlight'
        BY ExecutedFields
      <4>3. CASE Faults(k)
        BY <3>1, <4>1, <4>2, <4>3, ExecutedFields
      <4>4. CASE ~Faults(k)
        BY <3>1, <4>1, <4>2, <4>4, ExecutedFields
      <4> QED BY <4>3, <4>4
    <3> QED BY <1>1, <2>1, <2>2, <2>4, <3>2 DEF InstructionOK
  <2> QED BY <2>3, <2>4
<1>9. ASSUME NEW i \in InFlight'
      PROVE  Sound(i)'
  <2>1. CASE i < k
    <3>1. i \in Nat \ {0} /\ \A j \in 1 .. i : window'[j] = window[j]
      <4>1. i \in 1 .. k - 1 /\ k \in Nat
        BY <1>1, <2>1
      <4>2. \A j \in 1 .. i : j \in 1 .. k - 1
        BY <4>1
      <4> QED BY <4>1, <4>2, ExecutedFields
    <3>2. Sound(i)
      BY ExecutedFields DEF IInv
    <3> QED BY <1>1, <3>1, <3>2, SoundSame
  <2>2. CASE i = k
    BY <2>2, SoundHere
  <2>3. CASE i > k
    BY <2>3, SoundBehind
  <2> QED BY <1>1, <2>1, <2>2, <2>3
<1> QED BY <1>3, <1>4, <1>5, <1>6, <1>7, <1>8, <1>9 DEF IInv

LEMMA ReadsTyped ==
  ASSUME IInv, NEW k \in InFlight
  PROVE  /\ Operand(k) \in Values \cup {NoValue}
         /\ LoadedValue(k) \in Values
         /\ Operand(k) # NoValue => ComputedValue(k) \in Values
<1>1. /\ Len(window) \in Nat /\ k \in Nat \ {0}
      /\ \A j \in InFlight : window[j] \in Instruction
      /\ \A j \in 1 .. k - 1 : j \in InFlight
      /\ k - 1 \in Nat
      /\ arch.acc \in Values /\ arch.mem \in Values
  BY TypedWindow DEF IInv, InFlight, TypeOK, Software!ArchState, Values
<1>2. Operand(k) \in Values \cup {NoValue}
  <2> DEFINE P == ProducersIn(code, window, k)
  <2>1. CASE P = {}
    BY <1>1, <2>1, OperandIsIn DEF OperandIn
  <2>2. CASE P # {}
    <3>1. P \subseteq 1 .. k - 1
      BY DEF ProducersIn
    <3>2. Last(P) \in InFlight
      BY <1>1, <2>2, <3>1, LastOfSome
    <3>3. Read(window[Last(P)]) \in Values \cup {NoValue}
      BY <1>1, <3>2 DEF Read, Instruction
    <3> QED BY <2>2, <3>3, OperandIsIn DEF OperandIn
  <2> QED BY <2>1, <2>2
<1>3. LoadedValue(k) \in Values
  <2> DEFINE S == StoresIn(code, window, k)
  <2>1. CASE S = {}
    BY <1>1, <2>1, LoadedIsIn DEF LoadedIn
  <2>2. CASE S # {}
    <3>1. S \subseteq 1 .. k - 1
      BY DEF StoresIn
    <3>2. Last(S) \in S /\ Last(S) \in InFlight
      BY <1>1, <2>2, <3>1, LastOfSome
    <3>3. window[Last(S)].completed /\ Kind(Last(S)) \in StoreKinds
      BY <3>2 DEF StoresIn, Kind
    <3>4. window[Last(S)].C_value \in Values
      BY <3>2, <3>3 DEF IInv, InstructionOK, StoreKinds
    <3> QED BY <2>2, <3>4, LoadedIsIn DEF LoadedIn
  <2> QED BY <2>1, <2>2
<1>4. \A v \in Values : Software!Result(v) \in Values
  BY DEF Values, Software!Values, Software!Result
<1> QED BY <1>2, <1>3, <1>4 DEF ComputedValue

\* To replace an entry of the window is all that most executions do.
LEMMA Marks ==
  ASSUME IInv, NEW k \in InFlight, NEW inst, window' = [window EXCEPT ![k] = inst]
  PROVE  /\ Len(window') = Len(window)
         /\ window'[k] = inst
         /\ window' = [j \in 1 .. Len(window') |-> window'[j]]
         /\ \A j \in InFlight' \ {k} : window'[j] = window[j]
<1>1. window \in Seq(Instruction) /\ Len(window) \in Nat
  BY TypedWindow DEF IInv, TypeOK
<1>2. DOMAIN window = 1 .. Len(window)
      /\ window = [j \in 1 .. Len(window) |-> window[j]]
  BY <1>1
<1>3. DOMAIN window' = 1 .. Len(window)
      /\ window' = [j \in 1 .. Len(window) |-> IF j = k THEN inst ELSE window[j]]
  BY <1>2 DEF InFlight
<1>4. Len(window') = Len(window)
  BY <1>1, <1>3
<1> QED BY <1>3, <1>4 DEF InFlight

LEMMA EachExecutes ==
  ASSUME IInv, NEW k \in InFlight, ExecuteAny(k)
  PROVE  \E value : Executes(k, value)
<1>1. CASE \E junk \in Values : ExecuteFaulting(k, junk)
  <2>1. PICK junk \in Values : ExecuteFaulting(k, junk)
    BY <1>1
  <2>2. /\ ~window[k].completed /\ Operand(k) # NoValue /\ Faults(k)
        /\ window' = [window EXCEPT ![k] = Posted(Done(window[k], junk), "fault")]
        /\ UNCHANGED <<code, predictors, fetch, arch, functional>>
    BY <2>1 DEF ExecuteFaulting, CanExecute
  <2>3. Kind(k) # "branch"
    BY <2>2 DEF Faults, Software!CanFault
  <2>4. Executes(k, junk)
    BY <2>2, <2>3, Marks DEF Executes
  <2> QED BY <2>4
<1>2. CASE Execute(k)
  <2>1. /\ ~window[k].completed /\ Operand(k) # NoValue /\ ~Faults(k)
        /\ Kind(k) \notin StoreKinds /\ Kind(k) # "branch"
        /\ window' = [window EXCEPT ![k] = Done(window[k], ComputedValue(k))]
        /\ UNCHANGED <<code, predictors, fetch, arch, functional>>
    BY <1>2 DEF Execute, CanExecute, StoreKinds
  <2>2. Executes(k, ComputedValue(k))
    BY <2>1, Marks, ReadsTyped DEF Executes
  <2> QED BY <2>2
<1>3. CASE ExecuteStore(k)
  <2>1. /\ ~window[k].completed /\ Operand(k) # NoValue /\ ~Faults(k)
        /\ Kind(k) \in StoreKinds /\ Kind(k) # "branch"
        /\ window' = [j \in InFlight |->
             IF j = k THEN Done(window[k], Operand(k))
             ELSE IF j \in Violated(k) THEN [window[j] EXCEPT !.load_viol = TRUE]
             ELSE window[j]]
        /\ UNCHANGED <<code, predictors, fetch, arch, functional>>
    BY <1>3 DEF ExecuteStore, CanExecute, StoreKinds
  <2>2. ComputedValue(k) = Operand(k)
    BY <2>1 DEF ComputedValue, StoreKinds
  <2>3. Operand(k) \in Values
    BY <2>1, ReadsTyped
  <2>4. /\ Len(window) \in Nat /\ InFlight = 1 .. Len(window)
        /\ \A j \in Violated(k) : j \in InFlight /\ j # k /\ j > k
    BY TypedWindow DEF IInv, InFlight, Violated
  <2>5. /\ Len(window') = Len(window) /\ InFlight' = InFlight
        /\ window' = [j \in 1 .. Len(window') |-> window'[j]]
    <3>1. DOMAIN window' = 1 .. Len(window)
      BY <2>1, <2>4
    <3>2. Len(window') = Len(window)
      BY <2>4, <3>1
    <3> QED BY <2>1, <2>4, <3>2 DEF InFlight
  <2>6. /\ window'[k] = Done(window[k], Operand(k))
        /\ \A j \in InFlight' \ {k} :
             \/ window'[j] = window[j]
             \/ j > k /\ window'[j] = [window[j] EXCEPT !.load_viol = TRUE]
    BY <2>1, <2>4, <2>5
  <2>7. ASSUME NEW j \in Violated(k)
        PROVE  window'[j].load_viol
    <3>1. window'[j] = [window[j] EXCEPT !.load_viol = TRUE]
      BY <2>1, <2>4
    <3>2. window[j] \in Instruction
      BY <2>4, TypedWindow DEF IInv
    <3> QED BY <3>1, <3>2, ViolatedFields
  <2>8. Executes(k, Operand(k))
    BY <2>1, <2>2, <2>3, <2>5, <2>6, <2>7 DEF Executes
  <2> QED BY <2>8
<1>4. CASE ResolveBranch(k)
  <2> DEFINE c_next_pc == IF Operand(k) = Software!Taken THEN BranchTarget
                          ELSE Software!IncrementPC(window[k].pc)
             resolved == [window EXCEPT ![k] = Done(window[k], Operand(k))]
  <2>1. /\ ~window[k].completed /\ Operand(k) # NoValue /\ Kind(k) = "branch"
        /\ IF predictors.perfect_branches \/ window[k].next_pc = c_next_pc
           THEN window' = resolved /\ UNCHANGED fetch
           ELSE /\ window' = SubSeq(resolved, 1, k)
                /\ fetch' = [pc |-> c_next_pc, stalled |-> FALSE]
        /\ UNCHANGED <<code, predictors, arch, functional>>
    BY <1>4 DEF ResolveBranch, CanExecute
  <2>2. ComputedValue(k) = Operand(k) /\ ~Faults(k) /\ Kind(k) \notin StoreKinds
    BY <2>1 DEF ComputedValue, StoreKinds, Faults, Software!CanFault
  <2>3. Operand(k) \in Values
    BY <2>1, ReadsTyped
  <2>4. /\ Len(window) \in Nat /\ InFlight = 1 .. Len(window) /\ k \in Nat \ {0}
        /\ window \in Seq(Instruction) /\ window[k] \in Instruction
    BY TypedWindow DEF IInv, InFlight, TypeOK
  <2>5. Done(window[k], Operand(k)) \in Instruction
        /\ Done(window[k], Operand(k)).C_value = Operand(k)
        /\ Done(window[k], Operand(k)).pc = window[k].pc
    BY <2>3, <2>4, DoneFields
  <2>6. window'[k] = Done(window[k], Operand(k)) => Outcome(k)' = c_next_pc
    BY <2>5 DEF Outcome
  <2>7. CASE predictors.perfect_branches \/ window[k].next_pc = c_next_pc
    <3>1. window' = [window EXCEPT ![k] = Done(window[k], Operand(k))] /\ UNCHANGED fetch
      BY <2>1, <2>7
    <3>2. /\ Len(window') = Len(window)
          /\ window'[k] = Done(window[k], Operand(k))
          /\ window' = [j \in 1 .. Len(window') |-> window'[j]]
          /\ \A j \in InFlight' \ {k} : window'[j] = window[j]
      BY <3>1, Marks
    <3>3. predictors.perfect_branches \/ window[k].next_pc = Outcome(k)'
      BY <2>6, <2>7, <3>2
    <3> HIDE DEF c_next_pc, resolved
    <3>4. Executes(k, Operand(k))
      BY <2>1, <2>2, <2>3, <3>1, <3>2, <3>3 DEF Executes
    <3> QED BY <3>4
  <2>8. CASE ~(predictors.perfect_branches \/ window[k].next_pc = c_next_pc)
    <3>1. /\ window' = SubSeq(resolved, 1, k)
          /\ fetch' = [pc |-> c_next_pc, stalled |-> FALSE]
      BY <2>1, <2>8
    <3>2. /\ resolved \in Seq(Instruction) /\ Len(resolved) = Len(window)
          /\ resolved[k] = Done(window[k], Operand(k))
          /\ \A j \in InFlight \ {k} : resolved[j] = window[j]
      BY <2>4, <2>5
    <3> HIDE DEF resolved
    <3>3. /\ Len(window') = k /\ window' \in Seq(Instruction)
          /\ \A j \in 1 .. k : window'[j] = resolved[j]
      BY <2>4, <3>1, <3>2
    <3>4. /\ window' = [j \in 1 .. Len(window') |-> window'[j]]
          /\ window'[k] = Done(window[k], Operand(k))
          /\ \A j \in InFlight' \ {k} : window'[j] = window[j]
      BY <2>4, <3>2, <3>3 DEF InFlight
    <3>5. fetch' = [pc |-> Outcome(k)', stalled |-> FALSE]
      BY <2>6, <3>1, <3>4
    <3> HIDE DEF c_next_pc
    <3>6. Executes(k, Operand(k))
      BY <2>1, <2>2, <2>3, <2>8, <3>3, <3>4, <3>5 DEF Executes
    <3> QED BY <3>6
  <2> QED BY <2>7, <2>8
<1> QED BY <1>1, <1>2, <1>3, <1>4 DEF ExecuteAny

-----------------------------------------------------------------------------
(* The oldest instruction *)

LEMMA HeadFacts ==
  ASSUME IInv, HeadCompleted
  PROVE  /\ 1 \in InFlight /\ Len(window) \in Nat \ {0} /\ window # <<>>
         /\ Oldest \in Instruction /\ OldestKind = code[Oldest.pc]
         /\ functional = [pc |-> Oldest.pc, arch |-> arch]
         /\ functional \in State
         /\ Oldest.good_instruction /\ Oldest.actual = functional
         /\ OldestKind # "syscall" =>
              /\ DispatchTrap(OldestKind) = "none" =>
                   (Oldest.trap = "fault" <=> Faults(1))
              /\ ~Oldest.exception /\ ~Oldest.load_viol => Oldest.C_value = ComputedValue(1)
              /\ ~Oldest.exception /\ OldestKind \notin {"load", "lr"} =>
                   Oldest.C_value = ComputedValue(1)
         /\ Faults(1) <=> OldestKind \in Software!CanFault \ {"amo"} /\ arch.acc = Software!Faulty
         /\ ComputedValue(1) =
              CASE OldestKind \in {"alu", "fp"}  -> Software!Result(arch.acc)
                [] OldestKind \in {"load", "lr"} -> arch.mem
                [] OTHER -> arch.acc
         /\ InstructionOK(1) /\ Connected(1)
<1>1. window # <<>> /\ window[1].completed
  BY DEF HeadCompleted
<1>2. 1 \in InFlight /\ Len(window) \in Nat \ {0}
  BY <1>1 DEF IInv, TypeOK, InFlight
<1>3. Oldest \in Instruction /\ OldestKind = code[Oldest.pc]
  BY <1>2, TypedWindow DEF IInv, Oldest, OldestKind, Kind
<1>4. functional = [pc |-> Oldest.pc, arch |-> arch] /\ functional \in State
  BY <1>1 DEF IInv, Linked, ArchPC, Oldest, TypeOK, State
<1>5. Oldest.good_instruction /\ Oldest.actual = functional
  BY <1>1 DEF IInv, OldestOnPath
<1>6. Operand(1) = arch.acc /\ LoadedValue(1) = arch.mem
  BY OldestReadsCommitted
<1>7. Faults(1) <=> OldestKind \in Software!CanFault \ {"amo"} /\ arch.acc = Software!Faulty
  BY <1>6 DEF Faults, OldestKind
<1>8. ComputedValue(1) =
        CASE OldestKind \in {"alu", "fp"}  -> Software!Result(arch.acc)
          [] OldestKind \in {"load", "lr"} -> arch.mem
          [] OTHER -> arch.acc
  BY <1>6 DEF ComputedValue, OldestKind
<1>9. Quiet(1)
  BY DEF Quiet
<1>10. OldestKind # "syscall" =>
         /\ DispatchTrap(OldestKind) = "none" => (Oldest.trap = "fault" <=> Faults(1))
         /\ ~Oldest.exception =>
              \/ Oldest.C_value = ComputedValue(1)
              \/ Oldest.load_viol /\ OldestKind \in {"load", "lr"}
  BY <1>1, <1>2, <1>9 DEF IInv, Sound, Oldest, OldestKind
<1>11. InstructionOK(1) /\ Connected(1)
  BY <1>2 DEF IInv
<1> QED BY <1>1, <1>2, <1>3, <1>4, <1>5, <1>7, <1>8, <1>10, <1>11

\* What was found before retirement, or is found now, is what software causes.
LEMMA HeadTraps ==
  ASSUME IInv, HeadCompleted, TrapAtHead \notin {"none", "csr_instruction"}
  PROVE  Software!Cause(OldestKind, arch) = TrapAtHead
<1>1. CASE Oldest.exception
  <2>1. /\ Oldest.trap # "none"
        /\ Oldest.trap \in {DispatchTrap(OldestKind), "fault"}
        /\ DispatchTrap(OldestKind) # "none" => Oldest.trap = DispatchTrap(OldestKind)
    BY <1>1, HeadFacts DEF InstructionOK, Oldest, OldestKind
  <2>2. CASE DispatchTrap(OldestKind) # "none"
    <3>1. TrapAtHead = DispatchTrap(OldestKind)
      BY <1>1, <2>1, <2>2 DEF TrapAtHead
    <3>2. OldestKind = "syscall" \/ (OldestKind = "fp" /\ ~arch.ef)
      BY <2>2 DEF DispatchTrap
    <3>3. CASE OldestKind = "syscall"
      BY <3>1, <3>3 DEF DispatchTrap, Software!Cause
    <3>4. CASE OldestKind = "fp" /\ ~arch.ef
      BY <3>1, <3>4 DEF DispatchTrap, Software!Cause
    <3> QED BY <3>2, <3>3, <3>4
  <2>3. CASE DispatchTrap(OldestKind) = "none"
    <3>1. Oldest.trap = "fault" /\ OldestKind # "syscall"
      BY <2>1, <2>3 DEF DispatchTrap
    <3>2. OldestKind \in Software!CanFault \ {"amo"} /\ arch.acc = Software!Faulty
      BY <2>3, <3>1, HeadFacts
    <3> QED BY <1>1, <2>3, <3>1, <3>2
            DEF TrapAtHead, DispatchTrap, Software!Cause, Software!CanFault
  <2> QED BY <2>2, <2>3
<1>2. CASE ~Oldest.exception
  <2>1. TrapAtHead = RetireTrap
    BY <1>2 DEF TrapAtHead
  <2>2. OldestKind = "amo" => Oldest.C_value = arch.acc
    BY <1>2, HeadFacts
  <2> QED BY <2>1, <2>2 DEF RetireTrap, Software!Cause, Software!CanFault
<1> QED BY <1>1, <1>2

LEMMA HeadRefetches ==
  ASSUME IInv, HeadCompleted, TrapAtHead = "csr_instruction"
  PROVE  Software!Executed(code, functional) = [pc |-> Oldest.pc, arch |-> FirstAttempt]
<1>1. ~Oldest.exception
  <2>1. Oldest.trap # "csr_instruction"
    BY HeadFacts DEF Instruction, Software!Causes
  <2> QED BY <2>1 DEF TrapAtHead
<1>2. OldestKind = "counter" /\ ~arch.serialized
  BY <1>1 DEF TrapAtHead, RetireTrap
<1>3. Software!Cause("counter", arch) = "none"
  BY DEF Software!Cause, Software!CanFault
<1>4. /\ code[functional.pc] = "counter" /\ functional.arch = arch
      /\ functional = [pc |-> Oldest.pc, arch |-> arch]
  BY <1>2, HeadFacts
<1>5. Software!Executed(code, functional) = [functional EXCEPT !.arch.serialized = TRUE]
  BY <1>2, <1>3, <1>4 DEF Software!Executed
<1>6. [functional EXCEPT !.arch.serialized = TRUE] =
        [pc |-> Oldest.pc, arch |-> [arch EXCEPT !.serialized = TRUE]]
  <2>1. ASSUME NEW p, NEW a
        PROVE  [[pc |-> p, arch |-> a] EXCEPT !.arch.serialized = TRUE] =
                 [pc |-> p, arch |-> [a EXCEPT !.serialized = TRUE]]
    <3> DEFINE r == [pc |-> p, arch |-> a]
               b == [a EXCEPT !.serialized = TRUE]
    <3>1. r.arch = a
      OBVIOUS
    <3>2. [r EXCEPT !.arch.serialized = TRUE] = [r EXCEPT !.arch = [r.arch EXCEPT !.serialized = TRUE]]
      BY Zenon
    <3>3. [r EXCEPT !.arch.serialized = TRUE] = [r EXCEPT !.arch = b]
      BY <3>1, <3>2, Zenon
    <3> HIDE DEF b
    <3>4. [r EXCEPT !.arch = b] = [pc |-> p, arch |-> b]
      OBVIOUS
    <3> QED BY <3>3, <3>4, Zenon DEF b
  <2> QED BY <1>4, <2>1
<1> QED BY <1>5, <1>6 DEF FirstAttempt

\* The result that commits is the one of software.
LEMMA HeadCommits ==
  ASSUME IInv, Commits
  PROVE  /\ Software!Executed(code, functional) =
              [pc |-> Software!NextPC(OldestKind, Oldest.pc, arch), arch |-> Committed]
         /\ OldestKind # "syscall" /\ ~Oldest.exception /\ Oldest.C_value = ComputedValue(1)
<1>1. HeadCompleted /\ ~Oldest.exception /\ RetireTrap = "none" /\ ~Oldest.load_viol
  BY DEF Commits
<1>2. Oldest.trap = "none" /\ DispatchTrap(OldestKind) = "none"
  <2>1. /\ Oldest.exception <=> Oldest.trap # "none"
        /\ DispatchTrap(OldestKind) # "none" => Oldest.trap = DispatchTrap(OldestKind)
    BY <1>1, HeadFacts DEF InstructionOK, Oldest, OldestKind
  <2> QED BY <1>1, <2>1
<1>3. OldestKind # "syscall" /\ ~(OldestKind = "fp" /\ ~arch.ef)
  BY <1>2 DEF DispatchTrap
<1>4. Oldest.C_value = ComputedValue(1) /\ ~Faults(1)
  BY <1>1, <1>2, <1>3, HeadFacts
<1>5. ~(OldestKind = "sret" /\ ~arch.sup) /\ ~(OldestKind = "counter" /\ ~arch.serialized)
      /\ ~(OldestKind = "amo" /\ Oldest.C_value = Software!Faulty)
  BY <1>1 DEF RetireTrap
<1>6. ComputedValue(1) =
        CASE OldestKind \in {"alu", "fp"}  -> Software!Result(arch.acc)
          [] OldestKind \in {"load", "lr"} -> arch.mem
          [] OTHER -> arch.acc
  BY <1>1, HeadFacts
<1>7. Software!Cause(OldestKind, arch) = "none"
  <2>1. ~(OldestKind \in Software!CanFault /\ arch.acc = Software!Faulty)
    <3>1. CASE OldestKind = "amo"
      BY <1>4, <1>5, <1>6, <3>1
    <3>2. CASE OldestKind # "amo"
      BY <1>1, <1>4, <3>2, HeadFacts
    <3> QED BY <3>1, <3>2
  <2> QED BY <1>3, <1>5, <2>1 DEF Software!Cause
<1>8. Committed = Software!Effect(OldestKind, arch)
  BY <1>3, <1>4, <1>6 DEF Committed, Software!Effect
<1>9. functional = [pc |-> Oldest.pc, arch |-> arch] /\ code[Oldest.pc] = OldestKind
  BY <1>1, HeadFacts
<1>10. Software!Executed(code, functional) =
         [pc |-> Software!NextPC(OldestKind, Oldest.pc, arch),
          arch |-> Software!Effect(OldestKind, arch)]
  BY <1>5, <1>7, <1>9 DEF Software!Executed
<1> QED BY <1>1, <1>3, <1>4, <1>8, <1>10

\* What is fetched behind it is what software executes next.
LEMMA HeadFollowed ==
  ASSUME IInv, Commits
  PROVE  Following(1) = Software!Executed(code, functional).pc
         \/ OldestKind \in Serializing
<1>1. HeadCompleted /\ Oldest.completed
  BY DEF Commits, HeadCompleted, Oldest
<1>2. /\ Connected(1) /\ Oldest.good_instruction /\ Oldest.actual = functional
  BY <1>1, HeadFacts
<1>3. CASE OldestKind # "branch" /\ OldestKind \notin Serializing
  <2>1. Following(1) = Software!IncrementPC(Oldest.pc)
    BY <1>2, <1>3 DEF Connected, Oldest, OldestKind
  <2> QED BY <1>3, <2>1, HeadCommits DEF Software!NextPC, Serializing
<1>4. CASE OldestKind = "branch" /\ predictors.perfect_branches
  BY <1>2, <1>4 DEF Connected, Oldest, OldestKind
<1>5. CASE OldestKind = "branch" /\ ~predictors.perfect_branches
  <2>1. Following(1) = Outcome(1)
    BY <1>1, <1>2, <1>5 DEF Connected, Oldest, OldestKind
  <2>2. Oldest.C_value = arch.acc
    BY <1>1, <1>5, HeadCommits, HeadFacts
  <2>3. Outcome(1) = Software!NextPC(OldestKind, Oldest.pc, arch)
    BY <1>5, <2>2 DEF Outcome, Oldest, Software!NextPC
  <2> QED BY <2>1, <2>3, HeadCommits
<1> QED BY <1>3, <1>4, <1>5

-----------------------------------------------------------------------------
(* Retirement *)

\* Every squash at retirement goes where software goes on.
LEMMA SquashStep ==
  ASSUME IInv, UNCHANGED <<code, predictors>>,
         window' = <<>>, fetch'.stalled = FALSE,
         fetch' = [pc |-> functional'.pc, stalled |-> FALSE],
         functional' \in State, arch' = functional'.arch
  PROVE  IInv'
<1>1. functional' = [pc |-> fetch'.pc, arch |-> arch']
  BY DEF State
<1>2. TypeOK'
  BY <1>1 DEF IInv, TypeOK, State
<1>3. InFlight' = {} /\ (1 .. Len(window) - 1)' = {} /\ ArchPC' = fetch'.pc
  BY DEF InFlight, ArchPC
<1> QED BY <1>1, <1>2, <1>3 DEF IInv, OldestOnPath, Linked

LEMMA SerializingStep ==
  ASSUME IInv, CommitSerializing
  PROVE  IInv' /\ Checked /\ window' = <<>>
<1>1. /\ Commits /\ OldestKind \in Serializing /\ arch' = Committed /\ Checked
      /\ window' = Tail(window) /\ fetch' = [pc |-> ResumePC, stalled |-> FALSE]
      /\ UNCHANGED <<code, predictors>>
  BY DEF CommitSerializing
<1>2. HeadCompleted
  BY <1>1 DEF Commits
<1>3. 1 = Len(window) /\ window \in Seq(Instruction)
  BY <1>1, <1>2, HeadFacts DEF InstructionOK, OldestKind, IInv, TypeOK
<1>4. window' = <<>>
  BY <1>1, <1>3
<1>5. functional \in State
  BY <1>2, HeadFacts
<1>6. functional' \in State
  BY <1>1, <1>5, ExecutedTyped DEF Checked
<1>7. functional' = [pc |-> Software!NextPC(OldestKind, Oldest.pc, arch), arch |-> Committed]
  BY <1>1, HeadCommits DEF Checked
<1>8. ResumePC = Software!NextPC(OldestKind, Oldest.pc, arch)
  BY <1>1 DEF ResumePC, Software!NextPC, Serializing
<1> QED BY <1>1, <1>4, <1>6, <1>7, <1>8, SquashStep

LEMMA MispredictedStep ==
  ASSUME IInv, CommitMispredicted
  PROVE  IInv' /\ Checked /\ window' = <<>>
<1>1. /\ Commits /\ Oldest.val_misp /\ arch' = Committed /\ Checked
      /\ window' = <<>>
      /\ fetch' = [pc |-> Software!IncrementPC(Oldest.pc), stalled |-> FALSE]
      /\ UNCHANGED <<code, predictors>>
  BY DEF CommitMispredicted, SquashComplete
<1>2. HeadCompleted /\ Oldest.completed
  BY <1>1 DEF Commits, HeadCompleted, Oldest
<1>3. OldestKind \in {"alu", "fp", "load"}
  BY <1>1, <1>2, HeadFacts DEF InstructionOK, Eligible, Oldest, OldestKind
<1>4. functional \in State
  BY <1>2, HeadFacts
<1>5. functional' \in State
  BY <1>1, <1>4, ExecutedTyped DEF Checked
<1>6. functional' = [pc |-> Software!NextPC(OldestKind, Oldest.pc, arch), arch |-> Committed]
  BY <1>1, HeadCommits DEF Checked
<1>7. Software!NextPC(OldestKind, Oldest.pc, arch) = Software!IncrementPC(Oldest.pc)
  BY <1>3 DEF Software!NextPC
<1> QED BY <1>1, <1>5, <1>6, <1>7, SquashStep

LEMMA ViolationStep ==
  ASSUME IInv, SquashViolation
  PROVE  IInv' /\ functional' = functional
<1>1. /\ HeadCompleted /\ window' = <<>>
      /\ fetch' = [pc |-> Oldest.pc, stalled |-> FALSE]
      /\ UNCHANGED <<code, predictors, arch, functional>>
  BY DEF SquashViolation, SquashComplete
<1>2. functional = [pc |-> Oldest.pc, arch |-> arch] /\ functional \in State
  BY <1>1, HeadFacts
<1> QED BY <1>1, <1>2, SquashStep

LEMMA TrapStep ==
  ASSUME IInv, TakeTrap
  PROVE  IInv' /\ Checked /\ window' = <<>>
<1>1. /\ HeadCompleted /\ TrapAtHead \notin {"none", "csr_instruction"}
      /\ arch' = [arch EXCEPT !.psup = arch.sup, !.sup = TRUE,
                              !.epc = Oldest.pc, !.cause = TrapAtHead]
      /\ Checked /\ window' = <<>>
      /\ fetch' = [pc |-> TrapVector, stalled |-> FALSE]
      /\ UNCHANGED <<code, predictors>>
  BY DEF TakeTrap, SquashComplete
<1>2. /\ functional = [pc |-> Oldest.pc, arch |-> arch] /\ functional \in State
      /\ code[Oldest.pc] = OldestKind
  BY <1>1, HeadFacts
<1>3. functional' \in State
  BY <1>1, <1>2, ExecutedTyped DEF Checked
<1>4. Software!Cause(OldestKind, arch) = TrapAtHead
  BY <1>1, HeadTraps
<1>5. Software!Executed(code, functional) =
        [pc |-> TrapVector, arch |-> Software!Trapped(arch, Oldest.pc, TrapAtHead)]
  BY <1>1, <1>2, <1>4 DEF Software!Executed
<1>6. functional' = [pc |-> TrapVector, arch |-> arch']
  BY <1>1, <1>5 DEF Checked, Software!Trapped
<1> QED BY <1>1, <1>3, <1>6, SquashStep

LEMMA RefetchStep ==
  ASSUME IInv, RefetchCsr
  PROVE  IInv' /\ Checked /\ window' = <<>>
<1>1. /\ HeadCompleted /\ TrapAtHead = "csr_instruction"
      /\ arch' = FirstAttempt /\ Checked /\ window' = <<>>
      /\ fetch' = [pc |-> Oldest.pc, stalled |-> FALSE]
      /\ UNCHANGED <<code, predictors>>
  BY DEF RefetchCsr, SquashComplete
<1>2. functional' \in State
  BY <1>1, HeadFacts, ExecutedTyped DEF Checked
<1>3. functional' = [pc |-> Oldest.pc, arch |-> arch']
  BY <1>1, HeadRefetches DEF Checked
<1> QED BY <1>1, <1>2, <1>3, SquashStep

LEMMA CommitStep ==
  ASSUME IInv, Commit
  PROVE  IInv' /\ Checked
<1> DEFINE n == Len(window)
<1>1. /\ Commits /\ OldestKind \notin Serializing /\ ~Oldest.val_misp
      /\ arch' = Committed /\ Checked /\ window' = Tail(window)
      /\ UNCHANGED <<code, predictors, fetch>>
  BY DEF Commit
<1>2. HeadCompleted /\ Oldest.completed /\ ~Oldest.exception
  BY <1>1 DEF Commits, HeadCompleted, Oldest
<1>3. /\ n \in Nat \ {0} /\ window \in Seq(Instruction) /\ window # <<>>
      /\ functional \in State /\ Oldest.good_instruction /\ Oldest.actual = functional
      /\ OldestKind = code[Oldest.pc]
  BY <1>2, HeadFacts DEF IInv, TypeOK
<1>4. /\ Len(window') = n - 1 /\ window' \in Seq(Instruction)
      /\ \A i \in 1 .. n - 1 : window'[i] = window[i + 1]
      /\ window' = <<>> <=> n = 1
      /\ InFlight' = 1 .. n - 1 /\ InFlight = 1 .. n
  <2>1. /\ Tail(window) \in Seq(Instruction) /\ Len(Tail(window)) = n - 1
        /\ \A i \in 1 .. n - 1 : Tail(window)[i] = window[i + 1]
    BY <1>3
  <2>2. window' \in Seq(Instruction) /\ Len(window') = n - 1
        /\ \A i \in 1 .. n - 1 : window'[i] = window[i + 1]
    BY <1>1, <2>1
  <2>3. window' = <<>> <=> n = 1
    BY <1>3, <2>2
  <2> QED BY <2>2, <2>3 DEF InFlight
<1>5. functional' = [pc |-> Following(1), arch |-> arch'] /\ functional' \in State
  <2>1. Software!Executed(code, functional) \in State
    BY <1>3, ExecutedTyped
  <2>2. Following(1) = Software!Executed(code, functional).pc
    BY <1>1, HeadFollowed
  <2>3. arch' = Software!Executed(code, functional).arch
    BY <1>1, HeadCommits
  <2> QED BY <1>1, <2>1, <2>2, <2>3 DEF Checked, State
<1>6. TypeOK'
  BY <1>1, <1>4, <1>5 DEF IInv, TypeOK, State
<1>7. ArchPC' = Following(1)
  <2>1. CASE n = 1
    BY <1>1, <1>4, <2>1 DEF ArchPC, Following
  <2>2. CASE n # 1
    BY <1>1, <1>3, <1>4, <2>2 DEF ArchPC, Following
  <2> QED BY <2>1, <2>2
<1>8. OldestOnPath'
  <2>1. SUFFICES ASSUME n > 1
                 PROVE  window'[1].good_instruction /\ window'[1].actual = functional'
    BY <1>3, <1>4 DEF OldestOnPath, Oldest
  <2>2. 1 \in 1 .. n - 1 /\ window'[1] = window[2] /\ Following(1) = window[2].pc
    BY <1>3, <1>4, <2>1 DEF Following
  <2>3. Software!Executed(code, window[1].actual) = functional' /\ window[1].good_instruction
    BY <1>1, <1>3 DEF Checked, Oldest
  <2>4. functional'.pc = window[2].pc
    BY <1>5, <2>2
  <2>5. /\ window[1 + 1].good_instruction <=>
             /\ window[1].good_instruction
             /\ Software!Executed(code, window[1].actual).pc = window[1 + 1].pc
        /\ window[1 + 1].good_instruction =>
             window[1 + 1].actual = Software!Executed(code, window[1].actual)
    BY <2>2 DEF IInv, Linked
  <2> QED BY <2>2, <2>3, <2>4, <2>5
<1>9. Linked'
  <2>1. \A i \in InFlight' : window'[i].good_instruction =>
          window'[i].actual \in State /\ window'[i].actual.pc = window'[i].pc
    <3>1. ASSUME NEW i \in InFlight'
          PROVE  i + 1 \in InFlight /\ window'[i] = window[i + 1]
      BY <1>3, <1>4
    <3> QED BY <3>1 DEF IInv, Linked
  <2>2. ASSUME NEW i \in 1 .. Len(window') - 1
        PROVE  /\ window'[i + 1].good_instruction <=>
                    /\ window'[i].good_instruction
                    /\ Software!Executed(code', window'[i].actual).pc = window'[i + 1].pc
               /\ window'[i + 1].good_instruction =>
                    window'[i + 1].actual = Software!Executed(code', window'[i].actual)
    <3>1. /\ i + 1 \in 1 .. Len(window) - 1
          /\ window'[i] = window[i + 1] /\ window'[i + 1] = window[i + 1 + 1]
      BY <1>3, <1>4
    <3>2. /\ window[i + 1 + 1].good_instruction <=>
               /\ window[i + 1].good_instruction
               /\ Software!Executed(code, window[i + 1].actual).pc = window[i + 1 + 1].pc
          /\ window[i + 1 + 1].good_instruction =>
               window[i + 1 + 1].actual = Software!Executed(code, window[i + 1].actual)
      BY <3>1 DEF IInv, Linked
    <3> QED BY <1>1, <3>1, <3>2
  <2> QED BY <1>5, <1>7, <2>1, <2>2 DEF Linked
<1>10. arch'.ef = arch.ef
  <2>1. arch' = Committed /\ OldestKind # "csr" /\ arch \in Software!ArchState
    BY <1>1 DEF Serializing, IInv, TypeOK
  <2> QED BY <2>1 DEF Committed, Software!ArchState
<1>11. ASSUME NEW i \in InFlight'
       PROVE  (Connected(i) /\ InstructionOK(i) /\ Sound(i))'
  <2>1. /\ i \in Nat \ {0} /\ i + 1 \in InFlight /\ i < n /\ window'[i] = window[i + 1]
        /\ Kind(i)' = Kind(i + 1)
        /\ DispatchTrap(Kind(i))' = DispatchTrap(Kind(i + 1))
    BY <1>1, <1>3, <1>4, <1>10 DEF Kind, DispatchTrap
  <2>2. Connected(i + 1) /\ InstructionOK(i + 1) /\ Sound(i + 1)
    BY <2>1 DEF IInv
  <2>3. Connected(i)'
    <3>1. Following(i)' = Following(i + 1)
      BY <1>1, <1>3, <1>4, <2>1 DEF Following
    <3> QED BY <1>1, <2>1, <2>2, <3>1 DEF Connected, Outcome
  <2>4. InstructionOK(i)'
    <3>1. i + 1 = Len(window) => i = Len(window')
      BY <1>3, <1>4, <2>1
    <3> QED BY <1>1, <2>1, <2>2, <3>1 DEF InstructionOK
  <2>5. Sound(i)'
    <3>1. \A j \in 1 .. i - 1 : window'[j] = window[j + 1]
      BY <1>3, <1>4, <2>1
    <3>2. Quiet(i)' => Quiet(i + 1)
      <4> SUFFICES ASSUME Quiet(i)' PROVE Quiet(i + 1)
        OBVIOUS
      <4>1. ASSUME NEW j \in 1 .. i
            PROVE  ~window[j].exception /\ ~window[j].val_misp
        <5>1. CASE j = 1
          BY <1>1, <1>2, <5>1 DEF Oldest
        <5>2. CASE j # 1
          <6>1. j - 1 \in 1 .. i - 1 /\ j - 1 + 1 = j
            BY <2>1, <5>2
          <6>2. window'[j - 1] = window[j]
            BY <3>1, <6>1
          <6> QED BY <6>1, <6>2 DEF Quiet
        <5> QED BY <5>1, <5>2
      <4> QED BY <2>1, <4>1 DEF Quiet
    <3>3. /\ arch'.acc = IF code[window[1].pc] \in WithDest THEN Read(window[1]) ELSE arch.acc
          /\ arch'.mem = IF code[window[1].pc] \in StoreKinds THEN window[1].C_value ELSE arch.mem
      <4>1. /\ arch' = Committed /\ arch \in Software!ArchState
            /\ code[window[1].pc] = OldestKind /\ Read(window[1]) = Oldest.C_value
            /\ OldestKind \notin Serializing /\ window[1].C_value = Oldest.C_value
        BY <1>1, <1>2, <1>3 DEF IInv, TypeOK, Read, Oldest
      <4>2. CASE OldestKind \in {"alu", "fp", "load"}
        BY <4>1, <4>2 DEF Committed, WithDest, StoreKinds, Software!ArchState
      <4>3. CASE OldestKind = "store"
        BY <4>1, <4>3 DEF Committed, WithDest, StoreKinds, Software!ArchState
      <4>4. CASE OldestKind \notin {"alu", "fp", "load", "store"}
        BY <4>1, <4>4 DEF Committed, WithDest, StoreKinds, Serializing
      <4> QED BY <4>2, <4>3, <4>4
    <3>4. /\ OperandIn(code, window', arch'.acc, i) = OperandIn(code, window, arch.acc, i + 1)
          /\ LoadedIn(code, window', arch'.mem, i) = LoadedIn(code, window, arch.mem, i + 1)
      <4>1. window[1].completed
        BY <1>2 DEF Oldest
      <4>2. i \in Nat \ {0}
        BY <2>1
      <4>3. OperandIn(code, window', arch'.acc, i) = OperandIn(code, window, arch.acc, i + 1)
        BY <3>1, <3>3, <4>2, OperandShift
      <4>4. LoadedIn(code, window', arch'.mem, i) = LoadedIn(code, window, arch.mem, i + 1)
        BY <3>1, <3>3, <4>1, <4>2, LoadedShift
      <4> QED BY <4>3, <4>4
    <3>5. Operand(i)' = Operand(i + 1) /\ LoadedValue(i)' = LoadedValue(i + 1)
      BY <1>1, <3>4, OperandIsIn, LoadedIsIn
    <3>6. (Faults(i)' <=> Faults(i + 1)) /\ ComputedValue(i)' = ComputedValue(i + 1)
      BY <2>1, <3>5 DEF Faults, ComputedValue
    <3> QED BY <2>1, <2>2, <3>2, <3>5, <3>6 DEF Sound
  <2> QED BY <2>3, <2>4, <2>5
<1> QED BY <1>1, <1>6, <1>8, <1>9, <1>11 DEF IInv

-----------------------------------------------------------------------------
(* Theorems *)

LEMMA NextIInv ==
  ASSUME IInv, [Next]_vars
  PROVE  IInv' /\ code' = code /\ (Checked \/ functional' = functional)
<1>1. CASE FetchToDispatch
  <2>1. PICK next_pc \in Successors(fetch.pc), prediction \in Predictions(fetch.pc) :
          Dispatch(next_pc, prediction)
    BY <1>1 DEF FetchToDispatch
  <2> QED BY <2>1, DispatchStep DEF Dispatch
<1>2. CASE \E i \in InFlight : ExecuteAny(i)
  <2>1. PICK k \in InFlight : ExecuteAny(k)
    BY <1>2
  <2>2. PICK value : Executes(k, value)
    BY <2>1, EachExecutes
  <2> QED BY <2>2, ExecutionStep DEF Executes
<1>3. CASE CommitSerializing
  BY <1>3, SerializingStep DEF CommitSerializing
<1>4. CASE CommitMispredicted
  BY <1>4, MispredictedStep DEF CommitMispredicted
<1>5. CASE Commit
  BY <1>5, CommitStep DEF Commit
<1>6. CASE SquashViolation
  BY <1>6, ViolationStep DEF SquashViolation
<1>7. CASE TakeTrap
  BY <1>7, TrapStep DEF TakeTrap
<1>8. CASE RefetchCsr
  BY <1>8, RefetchStep DEF RefetchCsr
<1>9. CASE UNCHANGED vars
  <2>1. UNCHANGED <<code, predictors, fetch, window, arch, functional>>
    BY <1>9 DEF vars
  <2>2. TypeOK' /\ OldestOnPath' /\ InFlight' = InFlight
    BY <2>1 DEF IInv, TypeOK, OldestOnPath, Oldest, InFlight
  <2>3. Linked'
    BY <2>1, <2>2 DEF IInv, Linked, ArchPC
  <2>4. ASSUME NEW i \in InFlight'
        PROVE  (Connected(i) /\ InstructionOK(i) /\ Sound(i))'
    <3>1. i \in InFlight /\ i \in Nat \ {0}
      BY <2>2, TypedWindow DEF IInv, InFlight
    <3>2. Connected(i)'
      BY <2>1, <3>1 DEF IInv, Connected, Kind, Following, Outcome
    <3>3. InstructionOK(i)'
      BY <2>1, <3>1 DEF IInv, InstructionOK, Kind, DispatchTrap
    <3>4. Sound(i)'
      BY <2>1, <3>1, SoundSame DEF IInv
    <3> QED BY <3>2, <3>3, <3>4
  <2> QED BY <2>1, <2>2, <2>3, <2>4 DEF IInv
<1> QED BY <1>1, <1>2, <1>3, <1>4, <1>5, <1>6, <1>7, <1>8, <1>9 DEF Next, Retire

\* What holds of every instruction in flight, for every program, every setting
\* of the predictors and every size of the machine; the others are read off from
\* it (dispatch.cc, lane code, writeback.cc and retire.cc:77-446).
THEOREM Invariance == Spec => []IInv
<1>1. Init => IInv
  BY InitIInv
<1>2. IInv /\ [Next]_vars => IInv'
  BY NextIInv
<1> QED BY <1>1, <1>2, PTL DEF Spec

\* Every field of the payload holds a value of its type.
THEOREM TypeCorrect == Spec => []TypeOK
<1>1. IInv => TypeOK
  BY DEF IInv
<1> QED BY <1>1, Invariance, PTL

\* checker() compares every instruction with its own entry of the debug buffer,
\* whatever was fetched on wrong paths in between (payload.cc:179-217).
THEOREM OnPath == Spec => []OldestOnPath
<1>1. IInv => OldestOnPath
  BY DEF IInv
<1> QED BY <1>1, Invariance, PTL

\* Perfect value prediction and oracle confidence are right about everything that
\* commits, for every program and bound (rename.cc:241-282).
THEOREM OraclePerfect == Spec => []OracleNeverMispredicts
<1>1. IInv => OracleNeverMispredicts
  <2> SUFFICES ASSUME IInv, predictors.vpu # "svp", Commits, Oldest.val_misp
               PROVE  FALSE
    BY DEF OracleNeverMispredicts
  <2>1. HeadCompleted /\ Oldest.completed
    BY DEF Commits, HeadCompleted, Oldest
  <2>2. /\ Oldest.vp_value \notin {NoValue, Oldest.C_value}
        /\ OldestKind \in {"alu", "fp", "load"}
        /\ Oldest.vp_value = Software!Executed(code, Oldest.actual).arch.acc
    BY <2>1, HeadFacts DEF InstructionOK, Eligible, Oldest, OldestKind
  <2>3. Oldest.vp_value = Committed.acc
    BY <2>1, <2>2, HeadFacts, HeadCommits
  <2>4. Committed.acc = Oldest.C_value
    BY <2>2 DEF Committed, IInv, TypeOK, Software!ArchState
  <2> QED BY <2>2, <2>3, <2>4
<1> QED BY <1>1, Invariance, PTL

\* No exit of retire() leaves an instruction in flight behind a head whose value
\* prediction was wrong (retire.cc:233-302).
THEOREM NoWrongValueLeft == Spec => WrongValuesSquashed
<1> DEFINE Squashes ==
      Commits /\ Oldest.vp_value \notin {NoValue, Oldest.C_value} /\ Retire
        => window' = <<>>
<1>1. IInv /\ [Next]_vars => [Squashes]_vars
  <2> SUFFICES ASSUME IInv, Commits, Retire,
                      Oldest.vp_value \notin {NoValue, Oldest.C_value}
               PROVE  window' = <<>>
    OBVIOUS
  <2>1. CASE CommitSerializing
    BY <2>1, SerializingStep
  <2>2. CASE CommitMispredicted
    BY <2>2, MispredictedStep
  <2>3. CASE Commit
    <3>1. HeadCompleted /\ Oldest.completed
      BY DEF Commits, HeadCompleted, Oldest
    <3>2. Oldest.val_misp
      BY <3>1, HeadFacts DEF InstructionOK, Oldest
    <3> QED BY <2>3, <3>2 DEF Commit
  <2>4. CASE SquashViolation
    BY <2>4 DEF SquashViolation, SquashComplete
  <2>5. CASE TakeTrap
    BY <2>5, TrapStep
  <2>6. CASE RefetchCsr
    BY <2>6, RefetchStep
  <2> QED BY <2>1, <2>2, <2>3, <2>4, <2>5, <2>6 DEF Retire
<1> QED BY <1>1, Invariance, PTL DEF Spec, WrongValuesSquashed

\* Whatever executes out of order, is predicted, overtakes, faults or is thrown
\* away: what retires is the program, one instruction after the other, with its
\* traps in their places (retire.cc:77-446).  The registers, the memory, state_t
\* and the address of the next instruction to retire implement Isa.
THEOREM PreciseState == Spec => Precise
<1>1. Init => Software!Init
  BY DEF Init
<1>2. IInv /\ [Next]_vars => [Software!Next]_<<code, ArchPC, arch>>
  <2> SUFFICES ASSUME IInv, [Next]_vars
               PROVE  [Software!Next]_<<code, ArchPC, arch>>
    OBVIOUS
  <2>1. /\ functional = [pc |-> ArchPC, arch |-> arch]
        /\ functional' = [pc |-> ArchPC', arch |-> arch']
        /\ code' = code
        /\ Checked \/ functional' = functional
    BY NextIInv DEF IInv, Linked
  <2>2. CASE Checked
    <3>1. /\ ArchPC' = Software!Executed(code, [pc |-> ArchPC, arch |-> arch]).pc
          /\ arch' = Software!Executed(code, [pc |-> ArchPC, arch |-> arch]).arch
      BY <2>1, <2>2 DEF Checked
    <3>2. Software!Next
      BY <2>1, <3>1 DEF Software!Next
    <3> QED BY <3>2
  <2>3. CASE functional' = functional
    <3>1. ArchPC' = ArchPC /\ arch' = arch
      BY <2>1, <2>3
    <3> QED BY <2>1, <3>1
  <2> QED BY <2>1, <2>2, <2>3
<1> QED BY <1>1, <1>2, Invariance, PTL DEF Spec, Precise, Software!Spec

=============================================================================
