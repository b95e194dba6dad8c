---------------------------- MODULE DatapathProofs ----------------------------
(***************************************************************************)
(* Wakeup, bypass and injection are right for every number of registers,   *)
(* values and instructions in flight, for all latencies and for every      *)
(* prediction.  A value is followed along the register versions: the       *)
(* operand of an instruction is the version the youngest older writer of   *)
(* its logical register made, or the committed one.                        *)
(***************************************************************************)
EXTENDS Datapath, RingProofs, SequenceTheorems

(* Versions, in any sequence of instructions w behind the committed map a *)

Writes(inst, l) == inst.dest /\ inst.log = l

\* None of the first n instructions writes l.
Untouched(w, n, l) == \A k \in 1 .. n : ~Writes(w[k], l)

\* Instruction j made the version of l after the first n instructions.
Maker(w, j, n, l) ==
  Writes(w[j], l) /\ \A k \in j + 1 .. n : ~Writes(w[k], l)

\* p holds the version of l after the first n instructions.
Version(w, a, n, l, p) ==
  \/ Untouched(w, n, l) /\ p = a[l]
  \/ \E j \in 1 .. n : Maker(w, j, n, l) /\ p = w[j].phys

\* No two versions share a register.
Distinct(w, a) ==
  /\ \A k, l \in LogRegs : a[k] = a[l] => k = l
  /\ \A i \in 1 .. Len(w), l \in LogRegs : w[i].dest => w[i].phys # a[l]
  /\ \A i, j \in 1 .. Len(w) :
       w[i].dest /\ w[j].dest /\ w[i].phys = w[j].phys => i = j

Linked(w, a) ==
  \A i \in 1 .. Len(w) : Version(w, a, i - 1, w[i].A_log, w[i].A_phys)

\* Instructions are dispatched in order.
InOrder(w) ==
  \A i, j \in 1 .. Len(w) :
    i < j /\ w[i].stage = "DISPATCH" => w[j].stage = "DISPATCH"

\* What an instruction is by itself
Sane(inst) ==
  /\ inst.dest => inst.log \in LogRegs /\ inst.phys \in PhysRegs
  /\ inst.vp_value # NotPredicted => inst.dest
  /\ inst.stage = "ex" => inst.sub \in 1 .. inst.kind.depth

Renaming(w, a, r) ==
  /\ Distinct(w, a)
  /\ Linked(w, a)
  /\ \A l \in LogRegs : Version(w, a, Len(w), l, r[l])
  /\ InOrder(w)
  /\ \A i \in 1 .. Len(w) : Sane(w[i])

-----------------------------------------------------------------------------
(* Ready bits and values *)

\* Between dispatch and wakeup, for an instruction that is not predicted
Unannounced(inst) ==
  /\ inst.vp_value = NotPredicted
  /\ \/ inst.stage \in {"IQ", "rr"}
     \/ inst.stage = "LSU"
     \/ inst.stage = "ex" /\ (inst.kind.load \/ inst.sub < inst.kind.depth)

ReadyBits(w, a, bits) ==
  /\ \A l \in LogRegs : bits[a[l]]
  /\ \A i \in 1 .. Len(w) :
       /\ w[i].dest /\ w[i].stage # "DISPATCH" => (bits[w[i].phys] <=> ~Unannounced(w[i]))
       /\ w[i].stage = "IQ" => (bits[w[i].A_phys] <=> w[i].A_ready)
       /\ w[i].stage = "rr" => bits[w[i].A_phys]

HasRead(inst) == inst.stage \in {"ex", "wb", "LSU", "completed"}
HasWritten(inst) == inst.stage \in {"wb", "completed"}

\* The register holds the prediction until it holds the result.
Held(inst, f) ==
  /\ inst.dest /\ HasWritten(inst) => f[inst.phys] = Result(inst.A_value)
  /\ inst.vp_value # NotPredicted /\ inst.stage \in {"IQ", "rr", "ex", "LSU"} =>
       f[inst.phys] = inst.vp_value
  /\ HasWritten(inst) =>
       (inst.val_misp <=> inst.vp_value \notin {NotPredicted, Result(inst.A_value)})

\* What the n + 1st instruction may have read: a prediction, or a result that
\* is there.
MayRead(w, a, f, n, l, value) ==
  /\ Untouched(w, n, l) => value = f[a[l]]
  /\ \A j \in 1 .. n : Maker(w, j, n, l) =>
       \/ value = w[j].vp_value
       \/ HasWritten(w[j]) /\ value = Result(w[j].A_value)

RegisterValues(w, a, f) ==
  \A i \in 1 .. Len(w) :
    /\ Held(w[i], f)
    /\ HasRead(w[i]) => MayRead(w, a, f, i - 1, w[i].A_log, w[i].A_value)

\* When the Register Read Stage is called, results that are not predicted are
\* there for the instructions that are going to read them.
Bypassed(w) ==
  \A i \in 1 .. Len(w), j \in 1 .. Len(w) :
    /\ w[i].stage = "rr" /\ j < i /\ Maker(w, j, i - 1, w[i].A_log)
    /\ w[j].vp_value = NotPredicted
    => HasWritten(w[j])

\* The inductive invariant: how registers are named, what the ready bits mean
\* for the instructions that look at them, what the registers hold, and where
\* every operand that was read came from.
IInv ==
  /\ TypeOK
  /\ Renaming(window, amt, rmt)
  /\ ReadyBits(window, amt, ready)
  /\ RegisterValues(window, amt, prf)
  /\ phase = "register_read" => Bypassed(window)

-----------------------------------------------------------------------------
(* Register versions *)

SameNames(u, inst) ==
  /\ u.dest = inst.dest /\ u.log = inst.log /\ u.phys = inst.phys
  /\ u.A_log = inst.A_log /\ u.A_phys = inst.A_phys

LEMMA VersionSame ==
  ASSUME NEW v, NEW w, NEW a, NEW n \in Nat, NEW l, NEW p,
         \A k \in 1 .. n : SameNames(v[k], w[k])
  PROVE  /\ Untouched(v, n, l) <=> Untouched(w, n, l)
         /\ \A j \in 1 .. n : Maker(v, j, n, l) <=> Maker(w, j, n, l)
         /\ Version(v, a, n, l, p) <=> Version(w, a, n, l, p)
<1>1. \A k \in 1 .. n : /\ Writes(v[k], l) <=> Writes(w[k], l)
                        /\ v[k].phys = w[k].phys
  BY DEF SameNames, Writes
<1>2. Untouched(v, n, l) <=> Untouched(w, n, l)
  BY <1>1 DEF Untouched
<1>3. ASSUME NEW j \in 1 .. n
      PROVE  Maker(v, j, n, l) <=> Maker(w, j, n, l)
  <2>1. j + 1 .. n \subseteq 1 .. n
    OBVIOUS
  <2> QED BY <1>1, <2>1 DEF Maker
<1> QED BY <1>1, <1>2, <1>3 DEF Version

\* One more instruction makes a version of its register and keeps the others.
LEMMA VersionNext ==
  ASSUME NEW w, NEW a, NEW n \in Nat, NEW l, NEW p
  PROVE  /\ Version(w, a, n, l, p) /\ ~Writes(w[n + 1], l) => Version(w, a, n + 1, l, p)
         /\ Writes(w[n + 1], l) => Version(w, a, n + 1, l, w[n + 1].phys)
<1>1. 1 .. n + 1 = (1 .. n) \cup {n + 1}
  OBVIOUS
<1>2. ASSUME Writes(w[n + 1], l)
      PROVE  Version(w, a, n + 1, l, w[n + 1].phys)
  <2>1. Maker(w, n + 1, n + 1, l)
    BY <1>2 DEF Maker
  <2> QED BY <1>1, <2>1 DEF Version
<1>3. ASSUME Version(w, a, n, l, p), ~Writes(w[n + 1], l)
      PROVE  Version(w, a, n + 1, l, p)
  <2>1. Untouched(w, n, l) => Untouched(w, n + 1, l)
    BY <1>1, <1>3 DEF Untouched
  <2>2. ASSUME NEW j \in 1 .. n, Maker(w, j, n, l)
        PROVE  Maker(w, j, n + 1, l)
    <3>1. \A k \in j + 1 .. n + 1 : k \in j + 1 .. n \/ k = n + 1
      OBVIOUS
    <3> QED BY <1>3, <2>2, <3>1 DEF Maker
  <2> QED BY <1>1, <1>3, <2>1, <2>2 DEF Version
<1> QED BY <1>2, <1>3

\* When the oldest instruction commits, its version is the committed one.
LEMMA VersionTail ==
  ASSUME NEW v, NEW w, NEW a, NEW b, NEW n \in Nat, NEW l,
         \A k \in 1 .. n : v[k] = w[k + 1],
         Writes(w[1], l) => b[l] = w[1].phys,
         ~Writes(w[1], l) => b[l] = a[l]
  PROVE  /\ \A p : Version(w, a, n + 1, l, p) => Version(v, b, n, l, p)
         /\ Untouched(v, n, l) /\ ~Writes(w[1], l) => Untouched(w, n + 1, l)
         /\ Untouched(v, n, l) /\ Writes(w[1], l) => Maker(w, 1, n + 1, l)
         /\ \A j \in 1 .. n : Maker(v, j, n, l) => Maker(w, j + 1, n + 1, l)
<1>1. \A k \in 2 .. n + 1 : k - 1 \in 1 .. n /\ k - 1 + 1 = k /\ w[k] = v[k - 1]
  OBVIOUS
<1>2. Untouched(v, n, l) <=> \A k \in 2 .. n + 1 : ~Writes(w[k], l)
  BY <1>1 DEF Untouched
<1>3. /\ Untouched(v, n, l) /\ ~Writes(w[1], l) => Untouched(w, n + 1, l)
      /\ Untouched(v, n, l) /\ Writes(w[1], l) => Maker(w, 1, n + 1, l)
  <2>1. \A k \in 1 .. n + 1 : k = 1 \/ k \in 2 .. n + 1
    OBVIOUS
  <2> QED BY <1>2, <2>1 DEF Untouched, Maker
<1>4. ASSUME NEW j \in 1 .. n
      PROVE  Maker(v, j, n, l) <=> Maker(w, j + 1, n + 1, l)
  <2>1. \A k \in j + 1 .. n : k \in 1 .. n /\ k + 1 \in j + 1 + 1 .. n + 1
    OBVIOUS
  <2>2. \A k \in j + 1 + 1 .. n + 1 : k \in 2 .. n + 1 /\ k - 1 \in j + 1 .. n
    OBVIOUS
  <2> QED BY <1>1, <2>1, <2>2 DEF Maker
<1>5. ASSUME NEW p, Version(w, a, n + 1, l, p)
      PROVE  Version(v, b, n, l, p)
  <2>1. CASE Untouched(w, n + 1, l) /\ p = a[l]
    <3>1. ~Writes(w[1], l) /\ \A k \in 2 .. n + 1 : ~Writes(w[k], l)
      BY <2>1 DEF Untouched
    <3> QED BY <1>2, <2>1, <3>1 DEF Version
  <2>2. CASE Maker(w, 1, n + 1, l) /\ p = w[1].phys
    <3>1. Writes(w[1], l) /\ \A k \in 2 .. n + 1 : ~Writes(w[k], l)
      BY <2>2 DEF Maker
    <3> QED BY <1>2, <2>2, <3>1 DEF Version
  <2>3. ASSUME NEW j \in 2 .. n + 1, Maker(w, j, n + 1, l), p = w[j].phys
        PROVE  Version(v, b, n, l, p)
    <3>1. PICK i \in 1 .. n : j = i + 1
      BY <1>1
    <3>2. Maker(v, i, n, l) /\ p = v[i].phys
      BY <1>4, <2>3, <3>1
    <3> QED BY <3>2 DEF Version
  <2>4. \A j \in 1 .. n + 1 : j = 1 \/ j \in 2 .. n + 1
    OBVIOUS
  <2> QED BY <1>5, <2>1, <2>2, <2>3, <2>4 DEF Version
<1> QED BY <1>3, <1>4, <1>5

\* The map that a recovery goes back to
LEMMA VersionOfMapAfter ==
  ASSUME NEW n \in Nat, NEW l \in LogRegs
  PROVE  Version(window, amt, n, l, Maps!MapAfter(n)[l])
<1> DEFINE writers == {i \in Maps!WritersUpTo(n) : window[i].log = l}
<1>1. /\ writers = {i \in 1 .. n : Writes(window[i], l)}
      /\ writers \subseteq 0 .. n
  BY DEF Maps!WritersUpTo, Writes
<1>2. Maps!MapAfter(n)[l] =
        IF writers = {} THEN amt[l]
        ELSE window[CHOOSE i \in writers : \A j \in writers : j <= i].phys
  BY DEF Maps!MapAfter
<1>3. CASE writers = {}
  BY <1>1, <1>2, <1>3 DEF Version, Untouched
<1>4. CASE writers # {}
  <2>1. \E i \in writers : \A j \in writers : j <= i
    BY <1>1, <1>4, Greatest
  <2>2. PICK i : /\ i = CHOOSE m \in writers : \A j \in writers : j <= m
                 /\ i \in writers /\ \A j \in writers : j <= i
    BY <2>1, Zenon
  <2>3. Maps!MapAfter(n)[l] = window[i].phys
    BY <1>2, <1>4, <2>2
  <2>4. i \in 1 .. n /\ Writes(window[i], l)
    BY <1>1, <2>2
  <2>5. \A k \in i + 1 .. n : k \in 1 .. n /\ ~(k <= i)
    BY <2>4
  <2>6. Maker(window, i, n, l)
    BY <1>1, <2>2, <2>4, <2>5 DEF Maker
  <2> QED BY <2>3, <2>4, <2>6 DEF Version
<1> QED BY <1>3, <1>4

\* A version is in no register of a younger instruction.
LEMMA VersionElsewhere ==
  ASSUME NEW w, NEW a, Len(w) \in Nat, Distinct(w, a),
         NEW i \in 1 .. Len(w), w[i].dest,
         NEW n \in 0 .. i - 1, NEW l \in LogRegs, NEW p, Version(w, a, n, l, p)
  PROVE  p # w[i].phys
<1>1. CASE p = a[l]
  BY <1>1 DEF Distinct
<1>2. ASSUME NEW j \in 1 .. n, Maker(w, j, n, l), p = w[j].phys
      PROVE  p # w[i].phys
  <2>1. j \in 1 .. Len(w) /\ j # i /\ w[j].dest
    BY <1>2 DEF Maker, Writes
  <2> QED BY <1>2, <2>1 DEF Distinct
<1> QED BY <1>1, <1>2 DEF Version

\* A prefix of the instructions, with the map after it, is renamed as before,
\* whatever stages its instructions got to.
LEMMA RenamingPrefix ==
  ASSUME NEW v, NEW w, NEW a, NEW r, NEW s, Len(w) \in Nat, Renaming(w, a, r),
         Len(v) \in 0 .. Len(w),
         \A k \in 1 .. Len(v) : SameNames(v[k], w[k]) /\ Sane(v[k]),
         InOrder(v),
         \A l \in LogRegs : Version(w, a, Len(v), l, s[l])
  PROVE  Renaming(v, a, s)
<1>1. 1 .. Len(v) \subseteq 1 .. Len(w)
  OBVIOUS
<1>2. Distinct(v, a)
  BY <1>1 DEF Renaming, Distinct, SameNames
<1>3. ASSUME NEW i \in 1 .. Len(v)
      PROVE  Version(v, a, i - 1, v[i].A_log, v[i].A_phys)
  <2>1. i - 1 \in Nat /\ \A k \in 1 .. i - 1 : SameNames(v[k], w[k])
    OBVIOUS
  <2>2. Version(w, a, i - 1, w[i].A_log, w[i].A_phys)
    BY <1>1 DEF Renaming, Linked
  <2>3. Version(v, a, i - 1, w[i].A_log, w[i].A_phys)
    BY <2>1, <2>2, VersionSame
  <2> QED BY <2>3 DEF SameNames
<1>4. ASSUME NEW l \in LogRegs
      PROVE  Version(v, a, Len(v), l, s[l])
  <2>1. Len(v) \in Nat /\ Version(w, a, Len(v), l, s[l])
    OBVIOUS
  <2> QED BY <2>1, VersionSame
<1> QED BY <1>2, <1>3, <1>4 DEF Renaming, Linked

LEMMA RenamingTail ==
  ASSUME NEW v, NEW w, NEW a, NEW b, NEW r, Len(w) \in Nat \ {0}, Renaming(w, a, r),
         \A i \in 1 .. Len(w) : w[i].A_log \in LogRegs,
         Len(v) = Len(w) - 1, \A k \in 1 .. Len(v) : v[k] = w[k + 1],
         \A l \in LogRegs : b[l] = IF Writes(w[1], l) THEN w[1].phys ELSE a[l]
  PROVE  Renaming(v, b, r)
<1>1. /\ Len(v) \in Nat /\ 1 \in 1 .. Len(w)
      /\ \A k \in 1 .. Len(v) : k + 1 \in 1 .. Len(w) /\ k + 1 # 1
  OBVIOUS
<1>2. Distinct(w, a)
  BY DEF Renaming
<1>3. Distinct(v, b)
  <2>1. \A k, l \in LogRegs : b[k] = b[l] => k = l
    BY <1>1, <1>2 DEF Distinct, Writes
  <2>2. ASSUME NEW i \in 1 .. Len(v), NEW l \in LogRegs, v[i].dest
        PROVE  v[i].phys # b[l]
    <3>1. w[i + 1].dest /\ v[i].phys = w[i + 1].phys
      BY <2>2
    <3>2. w[1].dest => w[i + 1].phys # w[1].phys
      BY <1>1, <1>2, <3>1 DEF Distinct
    <3>3. w[i + 1].phys # a[l]
      BY <1>1, <1>2, <3>1 DEF Distinct
    <3> QED BY <3>1, <3>2, <3>3 DEF Writes
  <2>3. ASSUME NEW i \in 1 .. Len(v), NEW j \in 1 .. Len(v),
               v[i].dest, v[j].dest, v[i].phys = v[j].phys
        PROVE  i = j
    <3>1. i + 1 = j + 1
      BY <1>1, <1>2, <2>3 DEF Distinct
    <3> QED BY <3>1
  <2> QED BY <2>1, <2>2, <2>3 DEF Distinct
<1>4. ASSUME NEW n \in 0 .. Len(v), NEW l \in LogRegs, NEW p, Version(w, a, n + 1, l, p)
      PROVE  Version(v, b, n, l, p)
  <2>1. n \in Nat /\ \A k \in 1 .. n : v[k] = w[k + 1]
    OBVIOUS
  <2>2. /\ Writes(w[1], l) => b[l] = w[1].phys
        /\ ~Writes(w[1], l) => b[l] = a[l]
    OBVIOUS
  <2> QED BY <1>4, <2>1, <2>2, VersionTail
<1>5. ASSUME NEW i \in 1 .. Len(v)
      PROVE  Version(v, b, i - 1, v[i].A_log, v[i].A_phys)
  <2>1. i - 1 \in 0 .. Len(v) /\ i - 1 + 1 = i + 1 - 1 /\ v[i] = w[i + 1]
    OBVIOUS
  <2>2. Version(w, a, i + 1 - 1, w[i + 1].A_log, w[i + 1].A_phys)
    BY <1>1 DEF Renaming, Linked
  <2>3. w[i + 1].A_log \in LogRegs
    BY <1>1
  <2> QED BY <1>4, <2>1, <2>2, <2>3
<1>6. \A l \in LogRegs : Version(v, b, Len(v), l, r[l])
  <2>1. Len(v) \in 0 .. Len(v) /\ Len(v) + 1 = Len(w)
    OBVIOUS
  <2> QED BY <1>4, <2>1 DEF Renaming
<1>7. InOrder(v)
  <2> SUFFICES ASSUME NEW i \in 1 .. Len(v), NEW j \in 1 .. Len(v), i < j,
                      v[i].stage = "DISPATCH"
               PROVE  v[j].stage = "DISPATCH"
    BY DEF InOrder
  <2>1. i + 1 < j + 1 /\ w[i + 1].stage = "DISPATCH"
    OBVIOUS
  <2> QED BY <1>1, <2>1 DEF Renaming, InOrder
<1>8. \A i \in 1 .. Len(v) : Sane(v[i])
  BY <1>1 DEF Renaming
<1> QED BY <1>3, <1>5, <1>6, <1>7, <1>8 DEF Renaming, Linked

LEMMA RenamingAppend ==
  ASSUME NEW v, NEW w, NEW a, NEW r, NEW s, NEW new, Len(w) \in Nat, Renaming(w, a, r),
         Len(v) = Len(w) + 1, \A k \in 1 .. Len(w) : v[k] = w[k], v[Len(v)] = new,
         new.A_log \in LogRegs, new.A_phys = r[new.A_log],
         new.stage = "DISPATCH", Sane(new),
         new.dest => /\ \A l \in LogRegs : a[l] # new.phys
                     /\ \A k \in 1 .. Len(w) : w[k].dest => w[k].phys # new.phys,
         \A l \in LogRegs : s[l] = IF Writes(new, l) THEN new.phys ELSE r[l]
  PROVE  Renaming(v, a, s)
<1>1. /\ 1 .. Len(v) = (1 .. Len(w)) \cup {Len(v)} /\ Len(v) \notin 1 .. Len(w)
      /\ Len(v) \in Nat
  OBVIOUS
<1>2. Distinct(v, a)
  <2>1. Distinct(w, a)
    BY DEF Renaming
  <2> QED BY <1>1, <2>1 DEF Distinct
<1>3. ASSUME NEW n \in 0 .. Len(w), NEW l, NEW p, Version(w, a, n, l, p)
      PROVE  Version(v, a, n, l, p)
  <2>1. n \in Nat /\ \A k \in 1 .. n : SameNames(v[k], w[k])
    BY DEF SameNames
  <2> QED BY <1>3, <2>1, VersionSame
<1>4. ASSUME NEW i \in 1 .. Len(v)
      PROVE  Version(v, a, i - 1, v[i].A_log, v[i].A_phys)
  <2>1. CASE i \in 1 .. Len(w)
    <3>1. i - 1 \in 0 .. Len(w) /\ v[i] = w[i]
      BY <2>1
    <3>2. Version(w, a, i - 1, w[i].A_log, w[i].A_phys)
      BY <2>1 DEF Renaming, Linked
    <3> QED BY <1>3, <3>1, <3>2
  <2>2. CASE i = Len(v)
    <3>1. i - 1 \in 0 .. Len(w) /\ i - 1 = Len(w) /\ v[i] = new
      BY <2>2
    <3>2. Version(w, a, Len(w), new.A_log, r[new.A_log])
      BY DEF Renaming
    <3> QED BY <1>3, <3>1, <3>2
  <2> QED BY <1>1, <2>1, <2>2
<1>5. ASSUME NEW l \in LogRegs
      PROVE  Version(v, a, Len(v), l, s[l])
  <2>1. Version(v, a, Len(w), l, r[l])
    BY <1>3 DEF Renaming
  <2>2. v[Len(w) + 1] = new
    OBVIOUS
  <2>3. CASE Writes(new, l)
    BY <2>2, <2>3, VersionNext
  <2>4. CASE ~Writes(new, l)
    BY <2>1, <2>2, <2>4, VersionNext
  <2> QED BY <2>3, <2>4
<1>6. InOrder(v)
  <2> SUFFICES ASSUME NEW i \in 1 .. Len(v), NEW j \in 1 .. Len(v), i < j,
                      v[i].stage = "DISPATCH"
               PROVE  v[j].stage = "DISPATCH"
    BY DEF InOrder
  <2>1. CASE j = Len(v)
    BY <2>1
  <2>2. CASE j \in 1 .. Len(w)
    <3>1. i \in 1 .. Len(w)
      BY <2>2
    <3> QED BY <2>2, <3>1 DEF Renaming, InOrder
  <2> QED BY <1>1, <2>1, <2>2
<1>7. \A i \in 1 .. Len(v) : Sane(v[i])
  BY <1>1 DEF Renaming
<1> QED BY <1>2, <1>4, <1>5, <1>6, <1>7 DEF Renaming, Linked

-----------------------------------------------------------------------------
(* Values *)

\* What stages do to an instruction never changes how it was renamed, nor an
\* operand once it was read.
Progressed(u, inst) ==
  /\ SameNames(u, inst) /\ u.vp_value = inst.vp_value
  /\ HasRead(inst) => HasRead(u) /\ u.A_value = inst.A_value
  /\ HasWritten(inst) => HasWritten(u)

LEMMA MayReadKept ==
  ASSUME NEW v, NEW w, NEW a, NEW f, NEW g, NEW n \in Nat, NEW l, NEW value,
         \A k \in 1 .. n : Progressed(v[k], w[k]),
         g[a[l]] = f[a[l]],
         MayRead(w, a, f, n, l, value)
  PROVE  MayRead(v, a, g, n, l, value)
<1>1. \A k \in 1 .. n : SameNames(v[k], w[k])
  BY DEF Progressed
<1>2. /\ Untouched(v, n, l) <=> Untouched(w, n, l)
      /\ \A j \in 1 .. n : Maker(v, j, n, l) <=> Maker(w, j, n, l)
  BY <1>1, VersionSame
<1>3. ASSUME NEW j \in 1 .. n, Maker(v, j, n, l)
      PROVE  \/ value = v[j].vp_value
             \/ HasWritten(v[j]) /\ value = Result(v[j].A_value)
  <2>1. \/ value = w[j].vp_value
        \/ HasWritten(w[j]) /\ value = Result(w[j].A_value)
    BY <1>2, <1>3 DEF MayRead
  <2>2. HasWritten(w[j]) => HasRead(w[j])
    BY DEF HasRead, HasWritten
  <2> QED BY <2>1, <2>2 DEF Progressed
<1> QED BY <1>2, <1>3 DEF MayRead

\* When the head commits a right value, or a value that was not predicted, its
\* readers read the committed one.
LEMMA MayReadTail ==
  ASSUME NEW v, NEW w, NEW a, NEW b, NEW f, NEW n \in Nat, NEW l, NEW value,
         \A k \in 1 .. n : v[k] = w[k + 1],
         Writes(w[1], l) => b[l] = w[1].phys,
         ~Writes(w[1], l) => b[l] = a[l],
         value # NotPredicted,
         Held(w[1], f), HasWritten(w[1]), ~w[1].val_misp,
         MayRead(w, a, f, n + 1, l, value)
  PROVE  MayRead(v, b, f, n, l, value)
<1>1. ASSUME Untouched(v, n, l)
      PROVE  value = f[b[l]]
  <2>1. CASE Writes(w[1], l)
    <3>1. Maker(w, 1, n + 1, l)
      BY <1>1, <2>1, VersionTail
    <3>2. value = w[1].vp_value \/ value = Result(w[1].A_value)
      BY <3>1 DEF MayRead
    <3>3. w[1].vp_value \in {NotPredicted, Result(w[1].A_value)}
      BY DEF Held
    <3> QED BY <2>1, <3>2, <3>3 DEF Held, Writes
  <2>2. CASE ~Writes(w[1], l)
    <3>1. Untouched(w, n + 1, l)
      BY <1>1, <2>2, VersionTail
    <3> QED BY <2>2, <3>1 DEF MayRead
  <2> QED BY <2>1, <2>2
<1>2. ASSUME NEW j \in 1 .. n, Maker(v, j, n, l)
      PROVE  \/ value = v[j].vp_value
             \/ HasWritten(v[j]) /\ value = Result(v[j].A_value)
  <2>1. Maker(w, j + 1, n + 1, l)
    BY <1>2, VersionTail
  <2>2. j + 1 \in 1 .. n + 1
    OBVIOUS
  <2> QED BY <2>1, <2>2 DEF MayRead
<1> QED BY <1>1, <1>2 DEF MayRead

\* The register of a predicted or finished instruction, whatever it does next
LEMMA HeldSame ==
  ASSUME NEW u, NEW inst, NEW f, NEW g, Held(inst, f),
         SameNames(u, inst), u.vp_value = inst.vp_value,
         Sane(inst), inst.dest => g[inst.phys] = f[inst.phys],
         HasWritten(u) =>
           HasWritten(inst) /\ u.val_misp = inst.val_misp /\ u.A_value = inst.A_value,
         u.stage \in {"IQ", "rr", "ex", "LSU"} => inst.stage \in {"IQ", "rr", "ex", "LSU"}
  PROVE  Held(u, g)
BY DEF Held, Sane, SameNames

LEMMA ValuesKept ==
  ASSUME NEW v, NEW w, NEW a, NEW f, NEW g, RegisterValues(w, a, f),
         Len(w) \in Nat, Len(v) \in 0 .. Len(w),
         \A l \in LogRegs : g[a[l]] = f[a[l]],
         \A i \in 1 .. Len(v) :
           /\ w[i].A_log \in LogRegs
           /\ Progressed(v[i], w[i])
           /\ Held(v[i], g)
           /\ HasRead(v[i]) /\ ~HasRead(w[i]) =>
                MayRead(w, a, f, i - 1, w[i].A_log, v[i].A_value)
  PROVE  RegisterValues(v, a, g)
<1> SUFFICES ASSUME NEW i \in 1 .. Len(v), HasRead(v[i])
             PROVE  MayRead(v, a, g, i - 1, v[i].A_log, v[i].A_value)
  BY DEF RegisterValues
<1>1. i \in 1 .. Len(w) /\ i - 1 \in Nat /\ \A k \in 1 .. i - 1 : Progressed(v[k], w[k])
  OBVIOUS
<1>2. v[i].A_log = w[i].A_log /\ w[i].A_log \in LogRegs
  BY DEF Progressed, SameNames
<1>3. MayRead(w, a, f, i - 1, w[i].A_log, v[i].A_value)
  <2>1. CASE HasRead(w[i])
    <3>1. v[i].A_value = w[i].A_value
      BY <2>1 DEF Progressed
    <3> QED BY <1>1, <2>1, <3>1 DEF RegisterValues
  <2>2. CASE ~HasRead(w[i])
    BY <2>2
  <2> QED BY <2>1, <2>2
<1>4. g[a[w[i].A_log]] = f[a[w[i].A_log]]
  BY <1>2
<1> QED BY <1>1, <1>2, <1>3, <1>4, MayReadKept

\* Producers in a set announce their values: who waits for one of them that is
\* not predicted is woken up, and only who is awake leaves the issue queue.
Moved(v, w, set) ==
  \A i \in 1 .. Len(v) :
    /\ v[i].stage = "DISPATCH" <=> w[i].stage = "DISPATCH"
    /\ i \in set => w[i].stage # "DISPATCH" /\ ~Unannounced(v[i])
    /\ i \notin set => (Unannounced(v[i]) <=> Unannounced(w[i]))
    /\ v[i].stage = "IQ" =>
         /\ w[i].stage = "IQ"
         /\ v[i].A_ready <=>
              \/ w[i].A_ready
              \/ \E j \in set : /\ w[j].dest /\ w[j].vp_value = NotPredicted
                                /\ w[j].phys = w[i].A_phys
    /\ v[i].stage = "rr" => w[i].stage = "rr" \/ (w[i].stage = "IQ" /\ w[i].A_ready)

\* The ready bits after the announcement
Announced(bits, new, w, set) ==
  \A p \in PhysRegs :
    new[p] <=> bits[p] \/ \E j \in set : w[j].dest /\ w[j].phys = p

LEMMA ReadyKept ==
  ASSUME NEW v, NEW w, NEW a \in [LogRegs -> PhysRegs], NEW r, NEW bits, NEW new, NEW set,
         Renaming(w, a, r), ReadyBits(w, a, bits),
         Len(w) \in Nat, Len(v) \in 0 .. Len(w), set \subseteq 1 .. Len(v),
         Announced(bits, new, w, set),
         \A i \in 1 .. Len(w) : w[i].A_phys \in PhysRegs,
         \A i \in 1 .. Len(v) : Progressed(v[i], w[i]),
         Moved(v, w, set)
  PROVE  ReadyBits(v, a, new)
<1>1. 1 .. Len(v) \subseteq 1 .. Len(w) /\ Distinct(w, a) /\ \A i \in 1 .. Len(w) : Sane(w[i])
  BY DEF Renaming
<1>2. \A l \in LogRegs : new[a[l]]
  BY DEF ReadyBits, Announced
<1>3. ASSUME NEW i \in 1 .. Len(v), v[i].dest, v[i].stage # "DISPATCH"
      PROVE  new[v[i].phys] <=> ~Unannounced(v[i])
  <2>1. /\ w[i].dest /\ w[i].stage # "DISPATCH" /\ v[i].phys = w[i].phys
        /\ w[i].phys \in PhysRegs
    BY <1>1, <1>3 DEF Moved, Progressed, SameNames, Sane
  <2>2. bits[w[i].phys] <=> ~Unannounced(w[i])
    BY <1>1, <2>1 DEF ReadyBits
  <2>3. CASE i \in set
    BY <2>1, <2>3 DEF Moved, Announced
  <2>4. CASE i \notin set
    <3>1. \A j \in set : w[j].dest => w[j].phys # w[i].phys
      BY <1>1, <2>1, <2>4 DEF Distinct
    <3> QED BY <2>1, <2>2, <2>4, <3>1 DEF Moved, Announced
  <2> QED BY <2>3, <2>4
<1>4. ASSUME NEW j \in set, w[j].dest, w[j].vp_value # NotPredicted
      PROVE  bits[w[j].phys]
  <2>1. j \in 1 .. Len(w) /\ w[j].stage # "DISPATCH" /\ ~Unannounced(w[j])
    BY <1>1, <1>4 DEF Moved, Unannounced
  <2> QED BY <1>4, <2>1 DEF ReadyBits
<1>5. ASSUME NEW i \in 1 .. Len(v)
      PROVE  /\ v[i].stage = "IQ" => (new[v[i].A_phys] <=> v[i].A_ready)
             /\ v[i].stage = "rr" => new[v[i].A_phys]
  <2>1. v[i].A_phys = w[i].A_phys /\ w[i].A_phys \in PhysRegs /\ i \in 1 .. Len(w)
    BY <1>1 DEF Progressed, SameNames
  <2>2. new[w[i].A_phys] <=>
          bits[w[i].A_phys] \/ \E j \in set : w[j].dest /\ w[j].phys = w[i].A_phys
    BY <2>1 DEF Announced
  <2>3. /\ w[i].stage = "IQ" => (bits[w[i].A_phys] <=> w[i].A_ready)
        /\ w[i].stage = "rr" => bits[w[i].A_phys]
    BY <2>1 DEF ReadyBits
  <2>4. v[i].stage = "IQ" => (new[w[i].A_phys] <=> v[i].A_ready)
    BY <1>4, <2>2, <2>3 DEF Moved
  <2>5. v[i].stage = "rr" => new[w[i].A_phys]
    BY <2>2, <2>3 DEF Moved
  <2> QED BY <2>1, <2>4, <2>5
<1> QED BY <1>2, <1>3, <1>5 DEF ReadyBits

-----------------------------------------------------------------------------
(* What the definitions of the model give *)

LEMMA Typed ==
  ASSUME TypeOK
  PROVE  /\ Len(window) \in Nat /\ InFlight = 1 .. Len(window) /\ DOMAIN window = InFlight
         /\ \A i \in InFlight : window[i] \in Instruction
         /\ \A i \in 1 .. Len(window) :
              /\ window[i] \in Instruction
              /\ window[i].A_log \in LogRegs /\ window[i].A_phys \in PhysRegs
              /\ window[i].kind.depth \in Nat \ {0} /\ window[i].kind.load \in BOOLEAN
              /\ window[i].sub \in Nat /\ window[i].stage \in Stages
<1>1. window \in Seq(Instruction) /\ Len(window) \in Nat /\ DOMAIN window = 1 .. Len(window)
  BY DEF TypeOK
<1>2. \A i \in 1 .. Len(window) : window[i] \in Instruction
  BY <1>1
<1>3. \A k \in Kinds : k.depth \in Nat \ {0} /\ k.load \in BOOLEAN
  BY DatapathAssumption DEF Kind
<1> QED BY <1>1, <1>2, <1>3 DEF InFlight, Instruction

LEMMA ResultType ==
  ASSUME NEW operand \in Values \cup {Junk}
  PROVE  Result(operand) \in Values
<1>1. ValueSpace \in Nat \ {0} /\ operand + 1 \in Nat
  BY DatapathAssumption DEF Values, Junk
<1>2. (operand + 1) % ValueSpace \in 0 .. ValueSpace - 1
  BY <1>1
<1> QED BY <1>2 DEF Result, Values

LEMMA SetReadyIs ==
  ASSUME NEW set, ready \in [PhysRegs -> BOOLEAN]
  PROVE  /\ SetReady(set) \in [PhysRegs -> BOOLEAN]
         /\ Announced(ready, SetReady(set), window, set)
<1>1. \A p \in PhysRegs :
        p \in Dests(set) <=> \E j \in set : window[j].dest /\ window[j].phys = p
  BY DEF Dests
<1> QED BY <1>1 DEF SetReady, Announced

LEMMA WrittenIs ==
  ASSUME TypeOK, Renaming(window, amt, rmt), NEW done, done \subseteq InFlight
  PROVE  /\ Written(done) \in [PhysRegs -> Values]
         /\ \A i \in done : window[i].dest =>
              Written(done)[window[i].phys] = Result(window[i].A_value)
         /\ \A p \in PhysRegs :
              (\A i \in done : ~(window[i].dest /\ window[i].phys = p)) =>
                Written(done)[p] = prf[p]
<1>1. /\ done \subseteq 1 .. Len(window) /\ prf \in [PhysRegs -> Values]
      /\ \A i \in done : window[i] \in Instruction
  BY Typed DEF TypeOK
<1>2. ASSUME NEW p \in PhysRegs
      PROVE  p \in Dests(done) <=> \E i \in done : window[i].dest /\ window[i].phys = p
  BY DEF Dests
<1>3. ASSUME NEW p \in PhysRegs
      PROVE  Written(done)[p] =
               IF p \in Dests(done)
               THEN Result(window[CHOOSE i \in done : window[i].dest /\ window[i].phys = p].A_value)
               ELSE prf[p]
  BY DEF Written
<1>4. ASSUME NEW i \in done, window[i].dest
      PROVE  /\ window[i].phys \in PhysRegs
             /\ Written(done)[window[i].phys] = Result(window[i].A_value)
  <2>1. window[i].phys \in PhysRegs
    BY <1>1, <1>4 DEF Renaming, Sane
  <2>2. PICK p \in PhysRegs : p = window[i].phys
    BY <2>1
  <2>3. PICK j : /\ j = CHOOSE k \in done : window[k].dest /\ window[k].phys = p
                 /\ j \in done /\ window[j].dest /\ window[j].phys = p
    BY <1>4, <2>2, Zenon
  <2>4. j = i
    BY <1>1, <1>4, <2>2, <2>3 DEF Renaming, Distinct
  <2>5. p \in Dests(done)
    BY <1>2, <1>4, <2>2
  <2> QED BY <1>3, <2>2, <2>3, <2>4, <2>5
<1>5. ASSUME NEW p \in PhysRegs
      PROVE  Written(done)[p] \in Values
  <2>1. CASE p \in Dests(done)
    <3>1. PICK i \in done : window[i].dest /\ window[i].phys = p
      BY <1>2, <2>1
    <3>2. window[i].A_value \in Values \cup {Junk}
      BY <1>1 DEF Instruction
    <3> QED BY <1>4, <3>1, <3>2, ResultType
  <2>2. CASE p \notin Dests(done)
    BY <1>1, <1>3, <2>2
  <2> QED BY <2>1, <2>2
<1>6. Written(done) \in [PhysRegs -> Values]
  <2>1. /\ DOMAIN Written(done) = PhysRegs
        /\ Written(done) = [p \in PhysRegs |-> Written(done)[p]]
    BY DEF Written
  <2> QED BY <1>5, <2>1
<1>7. \A p \in PhysRegs :
        (\A i \in done : ~(window[i].dest /\ window[i].phys = p)) =>
          Written(done)[p] = prf[p]
  BY <1>2, <1>3
<1> QED BY <1>4, <1>6, <1>7

-----------------------------------------------------------------------------
(* Steps in which instructions move on *)

SameButStage(u, inst) ==
  /\ SameNames(u, inst) /\ u.vp_value = inst.vp_value /\ u.kind = inst.kind
  /\ u.sub = inst.sub /\ u.A_ready = inst.A_ready /\ u.A_value = inst.A_value
  /\ u.val_misp = inst.val_misp

LEMMA Staged ==
  ASSUME NEW inst \in Instruction, NEW s \in Stages,
         NEW u, u = [inst EXCEPT !.stage = s]
  PROVE  u \in Instruction /\ u.stage = s /\ SameButStage(u, inst)
BY DEF Instruction, SameButStage, SameNames

\* The parts of the invariant that a step of the stages has to look at
LEMMA MoveOn ==
  ASSUME IInv, window' \in Seq(Instruction), Len(window') \in 0 .. Len(window),
         amt' = amt, rmt' \in [LogRegs -> PhysRegs],
         \A l \in LogRegs : Version(window, amt, Len(window'), l, rmt'[l]),
         phase' \in Phases, prf' \in [PhysRegs -> Values], ready' \in [PhysRegs -> BOOLEAN],
         phase' = "register_read" => Bypassed(window'),
         \A l \in LogRegs : prf'[amt[l]] = prf[amt[l]],
         NEW set, set \subseteq 1 .. Len(window'),
         Announced(ready, ready', window, set),
         \A i \in 1 .. Len(window') :
           /\ Progressed(window'[i], window[i])
           /\ Sane(window'[i])
           /\ Held(window'[i], prf')
           /\ HasRead(window'[i]) /\ ~HasRead(window[i]) =>
                MayRead(window, amt, prf, i - 1, window[i].A_log, window'[i].A_value),
         Moved(window', window, set)
  PROVE  IInv'
<1>1. /\ TypeOK /\ Renaming(window, amt, rmt) /\ ReadyBits(window, amt, ready)
      /\ RegisterValues(window, amt, prf) /\ amt \in [LogRegs -> PhysRegs]
  BY DEF IInv, TypeOK
<1>2. /\ Len(window) \in Nat
      /\ \A i \in 1 .. Len(window') :
           /\ i \in 1 .. Len(window)
           /\ window[i].A_log \in LogRegs /\ window[i].A_phys \in PhysRegs
  BY <1>1, Typed
<1>3. InOrder(window')
  <2> SUFFICES ASSUME NEW i \in 1 .. Len(window'), NEW j \in 1 .. Len(window'), i < j,
                      window'[i].stage = "DISPATCH"
               PROVE  window'[j].stage = "DISPATCH"
    BY DEF InOrder
  <2>1. window[i].stage = "DISPATCH"
    BY DEF Moved
  <2>2. window[j].stage = "DISPATCH"
    BY <1>1, <1>2, <2>1 DEF Renaming, InOrder
  <2> QED BY <2>2 DEF Moved
<1>4. Renaming(window', amt, rmt')
  <2>1. \A i \in 1 .. Len(window') : SameNames(window'[i], window[i]) /\ Sane(window'[i])
    BY DEF Progressed
  <2> QED BY <1>1, <1>2, <1>3, <2>1, RenamingPrefix
<1>5. ReadyBits(window', amt, ready')
  <2>1. /\ \A i \in 1 .. Len(window) : window[i].A_phys \in PhysRegs
        /\ \A i \in 1 .. Len(window') : Progressed(window'[i], window[i])
    BY <1>1, <1>2, Typed
  <2> QED BY <1>1, <1>2, <2>1, ReadyKept
<1>6. RegisterValues(window', amt, prf')
  BY <1>1, <1>2, ValuesKept
<1>7. TypeOK'
  BY <1>1 DEF TypeOK
<1> QED BY <1>4, <1>5, <1>6, <1>7 DEF IInv

LEMMA SameMap ==
  ASSUME IInv
  PROVE  \A l \in LogRegs : Version(window, amt, Len(window), l, rmt[l])
BY DEF IInv, Renaming

\* Writeback, alone or with a misprediction
LEMMA WritebackStep ==
  ASSUME IInv, NEW i \in InFlight, Writeback(i) \/ WritebackMispredicted(i)
  PROVE  IInv'
<1>1. /\ TypeOK /\ Renaming(window, amt, rmt) /\ window \in Seq(Instruction)
      /\ RegisterValues(window, amt, prf)
      /\ window[i] \in Instruction /\ Len(window) \in Nat /\ i \in 1 .. Len(window)
      /\ \A k \in 1 .. Len(window) : window[k] \in Instruction
      /\ amt \in [LogRegs -> PhysRegs]
  BY Typed DEF IInv, TypeOK
<1>2. /\ phase' = "writeback" /\ phase = "writeback" /\ window[i].stage = "wb"
      /\ UNCHANGED <<prf, ready, amt>>
  BY DEF Writeback, WritebackMispredicted
<1> DEFINE u == [window[i] EXCEPT !.stage = "completed"]
<1>3. u \in Instruction /\ u.stage = "completed" /\ SameButStage(u, window[i])
  BY <1>1, Staged DEF Stages
<1> HIDE DEF u
<1>4. /\ window' \in Seq(Instruction) /\ Len(window') \in 0 .. Len(window)
      /\ \A k \in 1 .. Len(window') : window'[k] = IF k = i THEN u ELSE window[k]
      /\ rmt' \in [LogRegs -> PhysRegs]
      /\ \A l \in LogRegs : Version(window, amt, Len(window'), l, rmt'[l])
  <2>1. CASE Writeback(i)
    <3>1. window' = [window EXCEPT ![i] = u] /\ rmt' = rmt
      BY <2>1 DEF Writeback, u
    <3>2. /\ window' \in Seq(Instruction) /\ Len(window') = Len(window)
          /\ \A k \in 1 .. Len(window') : window'[k] = IF k = i THEN u ELSE window[k]
      BY <1>1, <1>3, <3>1
    <3> QED BY <1>1, <3>1, <3>2, SameMap DEF TypeOK
  <2>2. CASE WritebackMispredicted(i)
    <3>1. /\ window' = [SubSeq(window, 1, i) EXCEPT ![i].stage = "completed"]
          /\ rmt' = Maps!MapAfter(i)
      BY <2>2 DEF WritebackMispredicted
    <3>2. PICK older : older = SubSeq(window, 1, i)
      OBVIOUS
    <3>3. /\ older \in Seq(Instruction) /\ Len(older) = i
          /\ \A k \in 1 .. i : older[k] = window[k]
      <4>1. /\ 1 \in Int /\ i \in Int /\ i >= 1 /\ 1 .. i - 1 + 1 = 1 .. i
            /\ \A k \in 1 .. i : window[k] \in Instruction /\ 1 + k - 1 = k
        BY <1>1
      <4>2. /\ older \in Seq(Instruction)
            /\ Len(older) = IF 1 <= i THEN i - 1 + 1 ELSE 0
            /\ \A k \in 1 .. i - 1 + 1 : older[k] = window[1 + k - 1]
        BY <3>2, <4>1, SubSeqProperties
      <4> QED BY <4>1, <4>2
    <3>4. window' = [older EXCEPT ![i] = u]
      <4>1. window' = [older EXCEPT ![i].stage = "completed"]
        BY <3>1, <3>2
      <4>2. older[i] = window[i]
        BY <1>1, <3>3
      <4> QED BY <4>1, <4>2 DEF u
    <3>5. /\ window' \in Seq(Instruction) /\ Len(window') = i
          /\ \A k \in 1 .. i : window'[k] = IF k = i THEN u ELSE window[k]
      <4>1. i \in Nat /\ i \in 1 .. Len(older) /\ DOMAIN older = 1 .. Len(older)
        BY <1>1, <3>3
      <4>2. Len(window') = i /\ window' \in Seq(Instruction)
        BY <1>3, <3>3, <3>4, <4>1
      <4>3. \A k \in 1 .. i : window'[k] = IF k = i THEN u ELSE older[k]
        BY <3>3, <3>4, <4>1
      <4> QED BY <3>3, <4>2, <4>3
    <3>6. ASSUME NEW l \in LogRegs
          PROVE  Version(window, amt, i, l, rmt'[l])
      <4>1. i \in Nat /\ Version(window, amt, i, l, Maps!MapAfter(i)[l])
        BY <1>1, VersionOfMapAfter
      <4> QED BY <3>1, <4>1
    <3>7. rmt' \in [LogRegs -> PhysRegs]
      <4>1. \A l \in LogRegs : rmt'[l] \in PhysRegs
        BY <1>1, <3>6 DEF Version, Maker, Writes, Renaming, Sane
      <4>2. rmt' = [l \in LogRegs |-> rmt'[l]]
        BY <3>1 DEF Maps!MapAfter
      <4> QED BY <4>1, <4>2
    <3> QED BY <1>1, <3>5, <3>6, <3>7
  <2> QED BY <2>1, <2>2
<1>5. ASSUME NEW k \in 1 .. Len(window')
      PROVE  /\ k \in 1 .. Len(window)
             /\ SameButStage(window'[k], window[k])
             /\ \/ window'[k].stage = window[k].stage
                \/ window'[k].stage = "completed" /\ window[k].stage = "wb"
  BY <1>1, <1>2, <1>3, <1>4 DEF SameButStage, SameNames
<1>6. ASSUME NEW k \in 1 .. Len(window')
      PROVE  /\ Progressed(window'[k], window[k])
             /\ Sane(window'[k])
             /\ Held(window'[k], prf)
             /\ HasRead(window'[k]) => HasRead(window[k])
             /\ window'[k].stage = "DISPATCH" <=> window[k].stage = "DISPATCH"
             /\ Unannounced(window'[k]) <=> Unannounced(window[k])
             /\ window'[k].stage = "IQ" =>
                  /\ window[k].stage = "IQ" /\ window'[k].A_ready = window[k].A_ready
             /\ window'[k].stage = "rr" => window[k].stage = "rr"
  <2>1. Sane(window[k]) /\ Held(window[k], prf)
    BY <1>1, <1>5 DEF Renaming, RegisterValues
  <2>2. /\ SameButStage(window'[k], window[k])
        /\ \/ window'[k].stage = window[k].stage
           \/ window'[k].stage = "completed" /\ window[k].stage = "wb"
    BY <1>5
  <2>3. Held(window'[k], prf)
    BY <2>1, <2>2, HeldSame DEF SameButStage, HasWritten
  <2>4. Sane(window'[k])
    BY <2>1, <2>2 DEF SameButStage, SameNames, Sane
  <2>5. /\ Progressed(window'[k], window[k])
        /\ HasRead(window'[k]) => HasRead(window[k])
        /\ Unannounced(window'[k]) <=> Unannounced(window[k])
    BY <2>2 DEF SameButStage, Progressed, HasRead, HasWritten, Unannounced
  <2> QED BY <2>2, <2>3, <2>4, <2>5 DEF SameButStage
<1>7. /\ phase' \in Phases /\ phase' # "register_read"
      /\ prf' \in [PhysRegs -> Values] /\ ready' \in [PhysRegs -> BOOLEAN]
      /\ amt' = amt /\ prf' = prf /\ ready' = ready
  BY <1>1, <1>2 DEF TypeOK, Phases
<1>8. PICK none : none = {}
  OBVIOUS
<1>9. Announced(ready, ready', window, none)
  BY <1>7, <1>8 DEF Announced
<1>10. Moved(window', window, none)
  BY <1>6, <1>8 DEF Moved
<1> QED BY <1>4, <1>6, <1>7, <1>8, <1>9, <1>10, MoveOn

\* There is one version, of which the two lemmas name the register.
LEMMA UntouchedIs ==
  ASSUME NEW w, NEW a, NEW n \in Nat, NEW l, NEW p, Version(w, a, n, l, p),
         Untouched(w, n, l)
  PROVE  p = a[l]
BY DEF Version, Maker, Untouched

LEMMA MakerIs ==
  ASSUME NEW w, NEW a, NEW n \in Nat, NEW l, NEW p, Version(w, a, n, l, p),
         NEW j \in 1 .. n, Maker(w, j, n, l)
  PROVE  p = w[j].phys
<1>1. ~Untouched(w, n, l)
  BY DEF Maker, Untouched
<1>2. PICK i \in 1 .. n : Maker(w, i, n, l) /\ p = w[i].phys
  BY <1>1 DEF Version
<1>3. ~(i < j) /\ ~(j < i)
  BY <1>2 DEF Maker
<1> QED BY <1>2, <1>3

LEMMA WokenIs ==
  ASSUME NEW inst \in Instruction, NEW tags
  PROVE  /\ Woken(inst, tags) \in Instruction
         /\ Woken(inst, tags).stage = inst.stage
         /\ Woken(inst, tags).A_ready <=>
              inst.A_ready \/ (inst.stage = "IQ" /\ inst.A_phys \in tags)
         /\ SameNames(Woken(inst, tags), inst)
         /\ Woken(inst, tags).vp_value = inst.vp_value
         /\ Woken(inst, tags).kind = inst.kind /\ Woken(inst, tags).sub = inst.sub
         /\ Woken(inst, tags).A_value = inst.A_value
         /\ Woken(inst, tags).val_misp = inst.val_misp
<1>1. inst.A_ready \in BOOLEAN
  BY DEF Instruction
<1>2. PICK bit \in BOOLEAN : bit = (inst.A_ready \/ (inst.stage = "IQ" /\ inst.A_phys \in tags))
  BY <1>1
<1>3. Woken(inst, tags) = [inst EXCEPT !.A_ready = bit]
  BY <1>2 DEF Woken
<1> QED BY <1>2, <1>3 DEF Instruction, SameNames

LEMMA WithResultIs ==
  ASSUME NEW inst \in Instruction, NEW s \in {"wb", "completed"},
         NEW u, u = [WithResult(inst) EXCEPT !.stage = s]
  PROVE  /\ u \in Instruction /\ u.stage = s
         /\ SameNames(u, inst) /\ u.vp_value = inst.vp_value
         /\ u.kind = inst.kind /\ u.A_value = inst.A_value
         /\ u.val_misp <=> inst.vp_value \notin {NotPredicted, Result(inst.A_value)}
<1>1. inst.A_value \in Values \cup {Junk}
  BY DEF Instruction
<1>2. PICK value \in Values : value = Result(inst.A_value)
  BY <1>1, ResultType
<1>3. PICK wrong \in BOOLEAN : wrong = (inst.vp_value \notin {NotPredicted, value})
  OBVIOUS
<1>4. u = [[inst EXCEPT !.C_value = value, !.val_misp = wrong] EXCEPT !.stage = s]
  BY <1>2, <1>3 DEF WithResult
<1>5. s \in Stages
  BY DEF Stages
<1> QED BY <1>2, <1>3, <1>4, <1>5 DEF Instruction, SameNames

LEMMA WakeupTagsIs ==
  ASSUME NEW set, NEW p
  PROVE  p \in WakeupTags(set) <=>
           \E j \in set : /\ window[j].dest /\ window[j].vp_value = NotPredicted
                          /\ window[j].phys = p
BY DEF WakeupTags, Dests

-----------------------------------------------------------------------------
(* Execution *)

Finished(u, inst) ==
  /\ inst.stage \in {"ex", "LSU"} /\ HasWritten(u)
  /\ SameNames(u, inst) /\ u.vp_value = inst.vp_value /\ u.A_value = inst.A_value
  /\ u.val_misp <=> inst.vp_value \notin {NotPredicted, Result(inst.A_value)}

Unfinished(u, inst) ==
  /\ SameNames(u, inst) /\ u.vp_value = inst.vp_value
  /\ u.A_value = inst.A_value /\ u.val_misp = inst.val_misp
  /\ HasRead(u) <=> HasRead(inst)
  /\ HasWritten(u) <=> HasWritten(inst)
  /\ u.stage \in {"IQ", "rr", "ex", "LSU"} <=> inst.stage \in {"IQ", "rr", "ex", "LSU"}
  /\ Sane(u)

LEMMA FinishedHeld ==
  ASSUME NEW u, NEW inst, NEW f, Finished(u, inst),
         inst.dest => f[inst.phys] = Result(inst.A_value)
  PROVE  Held(u, f)
BY DEF Finished, Held, HasWritten, SameNames

\* Results of the instructions in done are written, those in waking announced.
LEMMA ResultsStep ==
  ASSUME IInv, NEW done, NEW waking, done \subseteq InFlight, waking \subseteq InFlight,
         window' \in Seq(Instruction), Len(window') = Len(window),
         UNCHANGED <<amt, rmt>>,
         prf' = Written(done), ready' = SetReady(waking),
         phase' \in Phases, phase' = "register_read" => Bypassed(window'),
         \A i \in InFlight : i \in done => Finished(window'[i], window[i]),
         \A i \in InFlight : i \notin done => Unfinished(window'[i], window[i]),
         Moved(window', window, waking)
  PROVE  IInv'
<1>1. /\ TypeOK /\ Renaming(window, amt, rmt) /\ RegisterValues(window, amt, prf)
      /\ Len(window) \in Nat /\ InFlight = 1 .. Len(window)
      /\ amt \in [LogRegs -> PhysRegs] /\ rmt \in [LogRegs -> PhysRegs]
      /\ ready \in [PhysRegs -> BOOLEAN]
  BY Typed DEF IInv, TypeOK
<1>2. /\ prf' \in [PhysRegs -> Values]
      /\ \A i \in done : window[i].dest => prf'[window[i].phys] = Result(window[i].A_value)
      /\ \A p \in PhysRegs :
           (\A i \in done : ~(window[i].dest /\ window[i].phys = p)) => prf'[p] = prf[p]
  BY <1>1, WrittenIs
<1>3. ready' \in [PhysRegs -> BOOLEAN] /\ Announced(ready, ready', window, waking)
  BY <1>1, SetReadyIs
<1>4. \A l \in LogRegs : prf'[amt[l]] = prf[amt[l]]
  BY <1>1, <1>2 DEF Renaming, Distinct
<1>5. ASSUME NEW i \in 1 .. Len(window')
      PROVE  /\ Progressed(window'[i], window[i])
             /\ Sane(window'[i])
             /\ Held(window'[i], prf')
             /\ HasRead(window'[i]) => HasRead(window[i])
  <2>1. i \in InFlight /\ Sane(window[i]) /\ Held(window[i], prf)
    BY <1>1 DEF Renaming, RegisterValues
  <2>2. CASE i \in done
    <3>1. Finished(window'[i], window[i])
      BY <2>1, <2>2
    <3>2. Held(window'[i], prf')
      BY <1>2, <2>2, <3>1, FinishedHeld
    <3>3. Progressed(window'[i], window[i]) /\ Sane(window'[i]) /\ HasRead(window[i])
      BY <2>1, <3>1 DEF Finished, Progressed, Sane, HasRead, HasWritten, SameNames
    <3> QED BY <3>2, <3>3
  <2>3. CASE i \notin done
    <3>1. Unfinished(window'[i], window[i])
      BY <2>1, <2>3
    <3>2. window[i].dest => prf'[window[i].phys] = prf[window[i].phys]
      BY <1>1, <1>2, <2>1, <2>3 DEF Renaming, Distinct, Sane
    <3>3. Held(window'[i], prf')
      BY <2>1, <3>1, <3>2, HeldSame DEF Unfinished
    <3> QED BY <3>1, <3>3 DEF Unfinished, Progressed
  <2> QED BY <2>2, <2>3
<1>6. \A l \in LogRegs : Version(window, amt, Len(window'), l, rmt'[l])
  BY SameMap
<1>7. /\ waking \subseteq 1 .. Len(window') /\ Len(window') \in 0 .. Len(window)
      /\ amt' = amt /\ rmt' \in [LogRegs -> PhysRegs]
  BY <1>1
<1> QED BY <1>2, <1>3, <1>4, <1>5, <1>6, <1>7, MoveOn

LEMMA LoadReplayStep ==
  ASSUME IInv, NEW i \in InFlight, LoadReplay(i)
  PROVE  IInv'
<1>1. /\ TypeOK /\ Renaming(window, amt, rmt)
      /\ Len(window) \in Nat /\ InFlight = 1 .. Len(window)
      /\ \A j \in InFlight : window[j] \in Instruction /\ Sane(window[j])
  BY Typed DEF IInv, Renaming
<1>2. /\ window[i].stage = "LSU" /\ phase' = "execute" /\ UNCHANGED <<amt, rmt>>
      /\ prf' = Written({i}) /\ ready' = SetReady({i})
      /\ window' = [j \in InFlight |->
            IF j = i THEN [WithResult(window[i]) EXCEPT !.stage = "completed"]
                     ELSE Woken(window[j], WakeupTags({i}))]
  BY DEF LoadReplay
<1>3. Finished(window'[i], window[i]) /\ window'[i] \in Instruction /\ window'[i].stage = "completed"
  <2>1. window'[i] = [WithResult(window[i]) EXCEPT !.stage = "completed"]
    BY <1>2
  <2>2. /\ window'[i] \in Instruction /\ window'[i].stage = "completed"
        /\ SameNames(window'[i], window[i]) /\ window'[i].vp_value = window[i].vp_value
        /\ window'[i].A_value = window[i].A_value
        /\ window'[i].val_misp <=>
             window[i].vp_value \notin {NotPredicted, Result(window[i].A_value)}
    BY <1>1, <2>1, WithResultIs
  <2> QED BY <1>2, <2>2 DEF Finished, HasWritten
<1>4. ASSUME NEW j \in InFlight, j # i
      PROVE  /\ window'[j] \in Instruction
             /\ Unfinished(window'[j], window[j])
             /\ window'[j].stage = window[j].stage
             /\ Unannounced(window'[j]) <=> Unannounced(window[j])
             /\ window'[j].stage = "IQ" =>
                  (window'[j].A_ready <=> window[j].A_ready \/ window[j].A_phys \in WakeupTags({i}))
  <2>1. window'[j] = Woken(window[j], WakeupTags({i}))
    BY <1>2, <1>4
  <2>2. /\ window'[j] \in Instruction
        /\ window'[j].stage = window[j].stage
        /\ window'[j].A_ready <=>
             window[j].A_ready \/ (window[j].stage = "IQ" /\ window[j].A_phys \in WakeupTags({i}))
        /\ SameNames(window'[j], window[j])
        /\ window'[j].vp_value = window[j].vp_value
        /\ window'[j].kind = window[j].kind /\ window'[j].sub = window[j].sub
        /\ window'[j].A_value = window[j].A_value
        /\ window'[j].val_misp = window[j].val_misp
    BY <1>1, <2>1, WokenIs
  <2>3. Sane(window[j])
    BY <1>1
  <2> QED BY <2>2, <2>3 DEF Unfinished, Unannounced, HasRead, HasWritten, Sane, SameNames
<1>5. window' \in Seq(Instruction) /\ Len(window') = Len(window)
  <2>1. \A j \in 1 .. Len(window) : window'[j] \in Instruction
    BY <1>1, <1>3, <1>4
  <2>2. DOMAIN window' = 1 .. Len(window) /\ window' = [j \in 1 .. Len(window) |-> window'[j]]
    BY <1>1, <1>2
  <2> QED BY <1>1, <2>1, <2>2
<1>6. Moved(window', window, {i})
  <2> SUFFICES ASSUME NEW j \in 1 .. Len(window')
               PROVE  /\ window'[j].stage = "DISPATCH" <=> window[j].stage = "DISPATCH"
                      /\ j \in {i} => window[j].stage # "DISPATCH" /\ ~Unannounced(window'[j])
                      /\ j \notin {i} => (Unannounced(window'[j]) <=> Unannounced(window[j]))
                      /\ window'[j].stage = "IQ" =>
                           /\ window[j].stage = "IQ"
                           /\ window'[j].A_ready <=>
                                window[j].A_ready \/ window[j].A_phys \in WakeupTags({i})
                      /\ window'[j].stage = "rr" => window[j].stage = "rr"
    BY WakeupTagsIs DEF Moved
  <2>1. CASE j = i
    BY <1>2, <1>3, <2>1 DEF Unannounced
  <2>2. CASE j # i
    BY <1>1, <1>4, <1>5, <2>2
  <2> QED BY <2>1, <2>2
<1>7. phase' \in Phases /\ phase' # "register_read" /\ {i} \subseteq InFlight
  BY <1>2 DEF Phases
<1>8. /\ \A j \in InFlight : j \in {i} => Finished(window'[j], window[j])
      /\ \A j \in InFlight : j \notin {i} => Unfinished(window'[j], window[j])
  BY <1>3, <1>4
<1> QED BY <1>2, <1>5, <1>6, <1>7, <1>8, ResultsStep

\* Whoever is going to read finds the result of a producer that was not
\* predicted, if it was announced before this cycle.
LEMMA AnnouncedInTime ==
  ASSUME IInv, NEW i \in InFlight, NEW j \in InFlight, j < i,
         window[i].stage = "rr", Maker(window, j, i - 1, window[i].A_log),
         window[j].vp_value = NotPredicted
  PROVE  \/ HasWritten(window[j])
         \/ /\ window[j].stage = "ex" /\ ~window[j].kind.load
            /\ window[j].sub = window[j].kind.depth
<1>1. /\ Renaming(window, amt, rmt) /\ ReadyBits(window, amt, ready)
      /\ Len(window) \in Nat /\ InFlight = 1 .. Len(window)
      /\ window[j].stage \in Stages /\ Sane(window[j])
      /\ window[j].kind.depth \in Nat
  BY Typed DEF IInv, Renaming
<1>2. window[i].A_phys = window[j].phys
  <2>1. i - 1 \in Nat /\ j \in 1 .. i - 1
    BY <1>1
  <2>2. Version(window, amt, i - 1, window[i].A_log, window[i].A_phys)
    BY <1>1 DEF Renaming, Linked
  <2> QED BY <2>1, <2>2, MakerIs
<1>3. window[j].dest /\ window[j].stage # "DISPATCH"
  BY <1>1 DEF Renaming, InOrder, Maker, Writes
<1>4. ready[window[j].phys]
  BY <1>1, <1>2 DEF ReadyBits
<1>5. ~Unannounced(window[j])
  BY <1>1, <1>3, <1>4 DEF ReadyBits
<1> QED BY <1>1, <1>3, <1>5 DEF Unannounced, HasWritten, Sane, Stages

LEMMA ExecuteStep ==
  ASSUME IInv, NEW hits, Execute(hits)
  PROVE  IInv'
<1> DEFINE missing == {i \in BeforeLast(0) : window[i].kind.load} \ hits
           done    == BeforeLast(0) \ missing
           waking  == {i \in BeforeLast(1) : ~window[i].kind.load} \cup hits
<1>1. /\ TypeOK /\ Renaming(window, amt, rmt)
      /\ Len(window) \in Nat /\ InFlight = 1 .. Len(window)
      /\ \A i \in InFlight :
           /\ window[i] \in Instruction /\ Sane(window[i])
           /\ window[i].kind.depth \in Nat \ {0} /\ window[i].kind.load \in BOOLEAN
           /\ window[i].sub \in Nat
  BY Typed DEF IInv, Renaming
<1>2. /\ hits \subseteq {i \in BeforeLast(0) : window[i].kind.load}
      /\ phase' = "register_read" /\ UNCHANGED <<amt, rmt>>
      /\ prf' = Written(done) /\ ready' = SetReady(waking)
      /\ window' = [i \in InFlight |->
           CASE i \in missing -> [window[i] EXCEPT !.stage = "LSU"]
             [] i \in done -> [WithResult(window[i]) EXCEPT !.stage = "wb"]
             [] i \in In("ex") \ BeforeLast(0) -> [window[i] EXCEPT !.sub = @ + 1]
             [] OTHER -> Woken(window[i], WakeupTags(waking))]
  BY DEF Execute
<1>3. \A n : BeforeLast(n) = {i \in InFlight : window[i].stage = "ex"
                                               /\ window[i].sub + n = window[i].kind.depth}
  BY DEF BeforeLast, In
<1>4. ASSUME NEW i \in InFlight
      PROVE  /\ i \in missing <=> /\ window[i].stage = "ex" /\ window[i].sub = window[i].kind.depth
                                  /\ window[i].kind.load /\ i \notin hits
             /\ i \in done <=> /\ window[i].stage = "ex" /\ window[i].sub = window[i].kind.depth
                               /\ window[i].kind.load => i \in hits
             /\ i \in In("ex") \ BeforeLast(0) <=>
                  window[i].stage = "ex" /\ window[i].sub # window[i].kind.depth
             /\ i \in waking <=>
                  \/ /\ window[i].stage = "ex" /\ window[i].sub + 1 = window[i].kind.depth
                     /\ ~window[i].kind.load
                  \/ i \in hits
             /\ i \in hits => /\ window[i].stage = "ex" /\ window[i].sub = window[i].kind.depth
                              /\ window[i].kind.load
  BY <1>1, <1>2, <1>3 DEF In
<1>5. done \subseteq InFlight /\ waking \subseteq InFlight
  BY <1>2, <1>3
<1> HIDE DEF missing, done, waking
<1>6. ASSUME NEW i \in InFlight, i \in missing
      PROVE  /\ window'[i] \in Instruction /\ window'[i].stage = "LSU"
             /\ Unfinished(window'[i], window[i])
             /\ i \notin waking /\ (Unannounced(window'[i]) <=> Unannounced(window[i]))
  <2>0. /\ i \notin done /\ i \notin In("ex") \ BeforeLast(0)
        /\ window[i] \in Instruction /\ "LSU" \in Stages
    BY <1>1, <1>4, <1>6 DEF Stages
  <2>1. window'[i] = [window[i] EXCEPT !.stage = "LSU"]
    BY <1>2, <1>6, <2>0
  <2>2. /\ window'[i] \in Instruction /\ window'[i].stage = "LSU"
        /\ SameButStage(window'[i], window[i])
    BY <2>0, <2>1, Staged
  <2>3. /\ window[i].stage = "ex" /\ window[i].sub = window[i].kind.depth
        /\ window[i].kind.load /\ i \notin waking
    BY <1>1, <1>4, <1>6
  <2> QED BY <1>1, <2>2, <2>3
          DEF SameButStage, SameNames, Unfinished, Unannounced, HasRead, HasWritten, Sane
<1>7. ASSUME NEW i \in InFlight, i \in done
      PROVE  /\ window'[i] \in Instruction /\ window'[i].stage = "wb"
             /\ Finished(window'[i], window[i]) /\ window[i].stage = "ex"
             /\ i \notin waking => ~Unannounced(window[i])
  <2>0. /\ i \notin missing /\ i \notin In("ex") \ BeforeLast(0)
        /\ window[i] \in Instruction /\ "wb" \in {"wb", "completed"}
    BY <1>1, <1>4, <1>7
  <2>1. window'[i] = [WithResult(window[i]) EXCEPT !.stage = "wb"]
    BY <1>2, <1>7, <2>0
  <2>2. /\ window'[i] \in Instruction /\ window'[i].stage = "wb"
        /\ SameNames(window'[i], window[i]) /\ window'[i].vp_value = window[i].vp_value
        /\ window'[i].A_value = window[i].A_value
        /\ window'[i].val_misp <=>
             window[i].vp_value \notin {NotPredicted, Result(window[i].A_value)}
    BY <2>0, <2>1, WithResultIs
  <2>3. /\ window[i].stage = "ex" /\ window[i].sub = window[i].kind.depth
        /\ i \notin waking => ~window[i].kind.load
    BY <1>4, <1>7
  <2> QED BY <1>1, <2>2, <2>3 DEF Finished, HasWritten, Unannounced
<1>8. ASSUME NEW i \in InFlight, i \in In("ex") \ BeforeLast(0)
      PROVE  /\ window'[i] \in Instruction /\ window'[i].stage = "ex" /\ window[i].stage = "ex"
             /\ Unfinished(window'[i], window[i])
             /\ i \in waking => ~Unannounced(window'[i])
             /\ i \notin waking => (Unannounced(window'[i]) <=> Unannounced(window[i]))
  <2>1. /\ i \notin missing /\ i \notin done
        /\ window[i].stage = "ex" /\ window[i].sub # window[i].kind.depth
        /\ i \in waking <=> window[i].sub + 1 = window[i].kind.depth /\ ~window[i].kind.load
    BY <1>4, <1>8
  <2>2. window'[i] = [window[i] EXCEPT !.sub = @ + 1]
    BY <1>2, <1>8, <2>1
  <2>3. /\ window'[i] \in Instruction /\ window'[i].stage = "ex"
        /\ window'[i].sub = window[i].sub + 1 /\ window'[i].kind = window[i].kind
        /\ SameNames(window'[i], window[i]) /\ window'[i].vp_value = window[i].vp_value
        /\ window'[i].A_value = window[i].A_value
        /\ window'[i].val_misp = window[i].val_misp
    BY <1>1, <2>1, <2>2 DEF Instruction, SameNames
  <2>4. window[i].sub \in 1 .. window[i].kind.depth
    BY <1>1, <2>1 DEF Sane
  <2>5. Sane(window'[i])
    BY <1>1, <2>1, <2>3, <2>4 DEF Sane, SameNames
  <2>6. /\ i \in waking => ~Unannounced(window'[i])
        /\ i \notin waking => (Unannounced(window'[i]) <=> Unannounced(window[i]))
    BY <1>1, <2>1, <2>3, <2>4 DEF Unannounced
  <2> QED BY <2>1, <2>3, <2>5, <2>6 DEF Unfinished, HasRead, HasWritten
<1>9. ASSUME NEW i \in InFlight, i \notin missing, i \notin done, i \notin In("ex") \ BeforeLast(0)
      PROVE  /\ window'[i] \in Instruction /\ window'[i].stage = window[i].stage
             /\ Unfinished(window'[i], window[i]) /\ window[i].stage # "ex"
             /\ i \notin waking /\ (Unannounced(window'[i]) <=> Unannounced(window[i]))
             /\ window'[i].stage = "IQ" =>
                  (window'[i].A_ready <=> window[i].A_ready \/ window[i].A_phys \in WakeupTags(waking))
  <2>1. window'[i] = Woken(window[i], WakeupTags(waking))
    BY <1>2, <1>9
  <2>2. window[i].stage # "ex" /\ i \notin waking
    BY <1>4, <1>9
  <2>3. /\ window'[i] \in Instruction
        /\ window'[i].stage = window[i].stage
        /\ window'[i].A_ready <=>
             window[i].A_ready \/ (window[i].stage = "IQ" /\ window[i].A_phys \in WakeupTags(waking))
        /\ SameNames(window'[i], window[i])
        /\ window'[i].vp_value = window[i].vp_value
        /\ window'[i].kind = window[i].kind /\ window'[i].sub = window[i].sub
        /\ window'[i].A_value = window[i].A_value
        /\ window'[i].val_misp = window[i].val_misp
    BY <1>1, <2>1, WokenIs
  <2>4. Sane(window[i])
    BY <1>1
  <2> QED BY <2>2, <2>3, <2>4 DEF Unfinished, Unannounced, HasRead, HasWritten, Sane, SameNames
<1>10. window' \in Seq(Instruction) /\ Len(window') = Len(window)
  <2>1. \A j \in 1 .. Len(window) : window'[j] \in Instruction
    BY <1>1, <1>6, <1>7, <1>8, <1>9
  <2>2. DOMAIN window' = 1 .. Len(window) /\ window' = [j \in 1 .. Len(window) |-> window'[j]]
    BY <1>1, <1>2
  <2> QED BY <1>1, <2>1, <2>2
<1>11. Moved(window', window, waking)
  <2> SUFFICES ASSUME NEW j \in InFlight
               PROVE  /\ window'[j].stage = "DISPATCH" <=> window[j].stage = "DISPATCH"
                      /\ j \in waking => window[j].stage # "DISPATCH" /\ ~Unannounced(window'[j])
                      /\ j \notin waking => (Unannounced(window'[j]) <=> Unannounced(window[j]))
                      /\ window'[j].stage = "IQ" =>
                           /\ window[j].stage = "IQ"
                           /\ window'[j].A_ready <=>
                                window[j].A_ready \/ window[j].A_phys \in WakeupTags(waking)
                      /\ window'[j].stage = "rr" => window[j].stage = "rr"
    BY <1>1, <1>10, WakeupTagsIs DEF Moved
  <2>1. CASE j \in missing
    BY <1>4, <1>6, <2>1
  <2>2. CASE j \in done
    BY <1>7, <2>2 DEF Unannounced
  <2>3. CASE j \in In("ex") \ BeforeLast(0)
    BY <1>8, <2>3
  <2>4. CASE j \notin missing /\ j \notin done /\ j \notin In("ex") \ BeforeLast(0)
    BY <1>9, <2>4
  <2> QED BY <2>1, <2>2, <2>3, <2>4
<1>12. /\ \A j \in InFlight : j \in done => Finished(window'[j], window[j])
       /\ \A j \in InFlight : j \notin done => Unfinished(window'[j], window[j])
  BY <1>6, <1>7, <1>8, <1>9
<1>13. Bypassed(window')
  <2> SUFFICES ASSUME NEW i \in InFlight, NEW j \in InFlight,
                      window'[i].stage = "rr", j < i,
                      Maker(window', j, i - 1, window'[i].A_log),
                      window'[j].vp_value = NotPredicted
               PROVE  HasWritten(window'[j])
    BY <1>1, <1>10 DEF Bypassed
  <2>1. \A k \in InFlight : SameNames(window'[k], window[k]) /\ window'[k].vp_value = window[k].vp_value
    BY <1>12 DEF Finished, Unfinished
  <2>2. window[i].stage = "rr"
    <3>1. i \notin missing
      BY <1>6
    <3>2. i \notin done
      BY <1>7
    <3>3. i \notin In("ex") \ BeforeLast(0)
      BY <1>8
    <3> QED BY <1>9, <3>1, <3>2, <3>3
  <2>3. Maker(window, j, i - 1, window[i].A_log)
    <3>1. /\ i - 1 \in Nat /\ j \in 1 .. i - 1
          /\ \A k \in 1 .. i - 1 : SameNames(window'[k], window[k])
      BY <1>1, <2>1
    <3>2. window'[i].A_log = window[i].A_log
      BY <2>1 DEF SameNames
    <3> QED BY <3>1, <3>2, VersionSame
  <2>4. \/ HasWritten(window[j])
        \/ /\ window[j].stage = "ex" /\ ~window[j].kind.load
           /\ window[j].sub = window[j].kind.depth
    BY <2>1, <2>2, <2>3, AnnouncedInTime
  <2>5. CASE HasWritten(window[j])
    BY <1>12, <2>5 DEF Finished, Unfinished
  <2>6. CASE ~HasWritten(window[j])
    <3>1. j \in done
      BY <1>4, <2>4, <2>6
    <3> QED BY <1>12, <3>1 DEF Finished
  <2> QED BY <2>5, <2>6
<1> QED BY <1>2, <1>5, <1>10, <1>11, <1>12, <1>13, ResultsStep DEF Phases

-----------------------------------------------------------------------------
(* Register Read, Schedule, and the end of the other stages *)

LEMMA RegisterReadStep ==
  ASSUME IInv, RegisterRead
  PROVE  IInv'
<1>0. PICK set : set = WakeFromRegisterRead
  OBVIOUS
<1>1. /\ TypeOK /\ Renaming(window, amt, rmt) /\ RegisterValues(window, amt, prf)
      /\ Len(window) \in Nat /\ InFlight = 1 .. Len(window)
      /\ amt \in [LogRegs -> PhysRegs] /\ rmt \in [LogRegs -> PhysRegs]
      /\ prf \in [PhysRegs -> Values] /\ ready \in [PhysRegs -> BOOLEAN]
      /\ \A i \in InFlight :
           /\ window[i] \in Instruction /\ Sane(window[i]) /\ Held(window[i], prf)
           /\ window[i].kind.depth \in Nat \ {0} /\ window[i].kind.load \in BOOLEAN
           /\ window[i].A_phys \in PhysRegs /\ window[i].A_log \in LogRegs
           /\ window[i].stage \in Stages
  BY Typed DEF IInv, Renaming, TypeOK, RegisterValues
<1>2. /\ phase = "register_read" /\ phase' = "schedule"
      /\ ready' = SetReady(set)
      /\ window' = [i \in InFlight |->
            IF i \in In("rr")
            THEN [window[i] EXCEPT !.stage = "ex", !.sub = 1,
                                   !.A_value = prf[window[i].A_phys]]
            ELSE Woken(window[i], WakeupTags(set))]
      /\ UNCHANGED <<prf, rmt, amt>>
  BY <1>0 DEF RegisterRead
<1>3. ASSUME NEW i \in InFlight
      PROVE  i \in set <=> /\ window[i].stage = "rr" /\ ~window[i].kind.load
                           /\ window[i].kind.depth = 1
  BY <1>0 DEF WakeFromRegisterRead, In
<1>4. set \subseteq InFlight
  BY <1>0 DEF WakeFromRegisterRead, In
<1>5. ASSUME NEW i \in InFlight, window[i].stage = "rr"
      PROVE  /\ window'[i] \in Instruction /\ window'[i].stage = "ex" /\ window'[i].sub = 1
             /\ window'[i].kind = window[i].kind
             /\ SameNames(window'[i], window[i]) /\ window'[i].vp_value = window[i].vp_value
             /\ window'[i].val_misp = window[i].val_misp
             /\ window'[i].A_value = prf[window[i].A_phys]
  <2>1. window'[i] = [window[i] EXCEPT !.stage = "ex", !.sub = 1,
                                       !.A_value = prf[window[i].A_phys]]
    BY <1>2, <1>5 DEF In
  <2>2. PICK value \in Values : value = prf[window[i].A_phys]
    BY <1>1
  <2>3. window[i] \in Instruction /\ "ex" \in Stages /\ 1 \in Nat
    BY <1>1 DEF Stages
  <2> QED BY <2>1, <2>2, <2>3 DEF Instruction, SameNames
<1>6. ASSUME NEW i \in InFlight, window[i].stage # "rr"
      PROVE  /\ window'[i] \in Instruction
             /\ window'[i].stage = window[i].stage
             /\ window'[i].A_ready <=>
                  window[i].A_ready \/ (window[i].stage = "IQ" /\ window[i].A_phys \in WakeupTags(set))
             /\ SameNames(window'[i], window[i])
             /\ window'[i].vp_value = window[i].vp_value
             /\ window'[i].kind = window[i].kind /\ window'[i].sub = window[i].sub
             /\ window'[i].A_value = window[i].A_value
             /\ window'[i].val_misp = window[i].val_misp
  <2>1. window'[i] = Woken(window[i], WakeupTags(set))
    BY <1>2, <1>6 DEF In
  <2> QED BY <1>1, <2>1, WokenIs
<1>7. window' \in Seq(Instruction) /\ Len(window') = Len(window)
  <2>1. \A j \in 1 .. Len(window) : window'[j] \in Instruction
    BY <1>1, <1>5, <1>6
  <2>2. DOMAIN window' = 1 .. Len(window) /\ window' = [j \in 1 .. Len(window) |-> window'[j]]
    BY <1>1, <1>2
  <2> QED BY <1>1, <2>1, <2>2
<1>8. ASSUME NEW i \in InFlight, window[i].stage = "rr"
      PROVE  MayRead(window, amt, prf, i - 1, window[i].A_log, prf[window[i].A_phys])
  <2>1. i - 1 \in Nat /\ \A j \in 1 .. i - 1 : j \in InFlight /\ j < i
    BY <1>1
  <2>2. Version(window, amt, i - 1, window[i].A_log, window[i].A_phys)
    BY <1>1 DEF Renaming, Linked
  <2>3. Untouched(window, i - 1, window[i].A_log) => window[i].A_phys = amt[window[i].A_log]
    BY <2>1, <2>2, UntouchedIs
  <2>4. ASSUME NEW j \in 1 .. i - 1, Maker(window, j, i - 1, window[i].A_log)
        PROVE  \/ prf[window[i].A_phys] = window[j].vp_value
               \/ /\ HasWritten(window[j])
                  /\ prf[window[i].A_phys] = Result(window[j].A_value)
    <3>0. window[i].A_phys = window[j].phys
      <4>1. i - 1 \in Nat /\ j \in 1 .. i - 1
        BY <2>1
      <4> QED BY <2>2, <2>4, <4>1, MakerIs
    <3>1. /\ window[i].A_phys = window[j].phys /\ j \in InFlight /\ j < i
          /\ window[j].dest
      BY <2>1, <2>4, <3>0 DEF Maker, Writes
    <3>2. window[j].stage # "DISPATCH"
      BY <1>1, <1>8, <3>1 DEF Renaming, InOrder
    <3>3. CASE HasWritten(window[j])
      BY <1>1, <3>1, <3>3 DEF Held
    <3>4. CASE ~HasWritten(window[j])
      <4>1. Bypassed(window)
        BY <1>2 DEF IInv
      <4>2. window[j].vp_value # NotPredicted
        BY <1>1, <1>8, <2>4, <3>1, <3>4, <4>1 DEF Bypassed
      <4>3. window[j].stage \in {"IQ", "rr", "ex", "LSU"}
        BY <1>1, <3>1, <3>2, <3>4 DEF Stages, HasWritten
      <4> QED BY <1>1, <3>1, <4>2, <4>3 DEF Held
    <3> QED BY <3>3, <3>4
  <2> QED BY <2>3, <2>4 DEF MayRead
<1>9. ASSUME NEW i \in 1 .. Len(window')
      PROVE  /\ Progressed(window'[i], window[i])
             /\ Sane(window'[i])
             /\ Held(window'[i], prf')
             /\ HasRead(window'[i]) /\ ~HasRead(window[i]) =>
                  MayRead(window, amt, prf, i - 1, window[i].A_log, window'[i].A_value)
  <2>1. i \in InFlight /\ window[i] \in Instruction /\ Sane(window[i]) /\ Held(window[i], prf)
    BY <1>1, <1>7
  <2>2. CASE window[i].stage = "rr"
    <3>1. /\ window'[i].stage = "ex" /\ window'[i].sub = 1 /\ window'[i].kind = window[i].kind
          /\ SameNames(window'[i], window[i]) /\ window'[i].vp_value = window[i].vp_value
          /\ window'[i].A_value = prf[window[i].A_phys]
      BY <1>5, <2>1, <2>2
    <3>2. Held(window'[i], prf') /\ Progressed(window'[i], window[i])
      BY <1>2, <2>1, <2>2, <3>1
         DEF Held, HasWritten, SameNames, Progressed, HasRead
    <3>3. Sane(window'[i])
      BY <1>1, <2>1, <3>1 DEF Sane, SameNames
    <3> QED BY <1>8, <2>1, <2>2, <3>1, <3>2, <3>3
  <2>3. CASE window[i].stage # "rr"
    <3>1. /\ window'[i].stage = window[i].stage
          /\ SameNames(window'[i], window[i])
          /\ window'[i].vp_value = window[i].vp_value
          /\ window'[i].kind = window[i].kind /\ window'[i].sub = window[i].sub
          /\ window'[i].A_value = window[i].A_value
          /\ window'[i].val_misp = window[i].val_misp
      BY <1>6, <2>1, <2>3
    <3>2. Held(window'[i], prf')
      BY <1>2, <2>1, <3>1, HeldSame DEF HasWritten
    <3> QED BY <2>1, <3>1, <3>2 DEF Progressed, HasRead, HasWritten, Sane, SameNames
  <2> QED BY <2>2, <2>3
<1>10. Moved(window', window, set)
  <2> SUFFICES ASSUME NEW j \in InFlight
               PROVE  /\ window'[j].stage = "DISPATCH" <=> window[j].stage = "DISPATCH"
                      /\ j \in set => window[j].stage # "DISPATCH" /\ ~Unannounced(window'[j])
                      /\ j \notin set => (Unannounced(window'[j]) <=> Unannounced(window[j]))
                      /\ window'[j].stage = "IQ" =>
                           /\ window[j].stage = "IQ"
                           /\ window'[j].A_ready <=>
                                window[j].A_ready \/ window[j].A_phys \in WakeupTags(set)
                      /\ window'[j].stage = "rr" => window[j].stage = "rr"
    <3>1. InFlight = 1 .. Len(window')
      BY <1>1, <1>7
    <3> QED BY <3>1, WakeupTagsIs DEF Moved
  <2>1. CASE window[j].stage = "rr"
    <3>1. /\ window'[j].stage = "ex" /\ window'[j].sub = 1 /\ window'[j].kind = window[j].kind
          /\ window'[j].vp_value = window[j].vp_value
      BY <1>5, <2>1
    <3>2. window[j].kind.depth \in Nat \ {0} /\ window[j].kind.load \in BOOLEAN
      BY <1>1
    <3> QED BY <1>3, <2>1, <3>1, <3>2 DEF Unannounced
  <2>2. CASE window[j].stage # "rr"
    BY <1>3, <1>6, <2>2 DEF Unannounced
  <2> QED BY <2>1, <2>2
<1>11. ready' \in [PhysRegs -> BOOLEAN] /\ Announced(ready, ready', window, set)
  BY <1>1, <1>2, SetReadyIs
<1>12. /\ phase' \in Phases /\ phase' # "register_read"
       /\ prf' \in [PhysRegs -> Values] /\ amt' = amt /\ rmt' \in [LogRegs -> PhysRegs]
       /\ Len(window') \in 0 .. Len(window) /\ set \subseteq 1 .. Len(window')
       /\ \A l \in LogRegs : prf'[amt[l]] = prf[amt[l]]
  <2>1. phase' \in Phases /\ phase' # "register_read"
    BY <1>2 DEF Phases
  <2>2. Len(window') \in 0 .. Len(window) /\ set \subseteq 1 .. Len(window')
    BY <1>1, <1>4, <1>7
  <2> QED BY <1>1, <1>2, <2>1, <2>2
<1>13. \A l \in LogRegs : Version(window, amt, Len(window'), l, rmt'[l])
  BY <1>2, <1>7, SameMap
<1> QED BY <1>7, <1>9, <1>10, <1>11, <1>12, <1>13, MoveOn

LEMMA ScheduleStep ==
  ASSUME IInv, NEW issued, issued \subseteq Issuable, Schedule(issued)
  PROVE  IInv'
<1>1. /\ TypeOK /\ Renaming(window, amt, rmt) /\ RegisterValues(window, amt, prf)
      /\ Len(window) \in Nat /\ InFlight = 1 .. Len(window)
      /\ amt \in [LogRegs -> PhysRegs] /\ rmt \in [LogRegs -> PhysRegs]
      /\ prf \in [PhysRegs -> Values] /\ ready \in [PhysRegs -> BOOLEAN]
      /\ \A i \in InFlight :
           window[i] \in Instruction /\ Sane(window[i]) /\ Held(window[i], prf)
  BY Typed DEF IInv, Renaming, TypeOK, RegisterValues
<1>2. /\ phase' = "dispatch" /\ UNCHANGED <<prf, ready, rmt, amt>>
      /\ window' = [i \in InFlight |->
           IF i \in issued THEN [window[i] EXCEPT !.stage = "rr"] ELSE window[i]]
      /\ \A i \in issued : window[i].stage = "IQ" /\ window[i].A_ready
  BY DEF Schedule, Issuable, In
<1>3. ASSUME NEW i \in InFlight
      PROVE  /\ window'[i] \in Instruction /\ SameButStage(window'[i], window[i])
             /\ \/ window'[i].stage = window[i].stage
                \/ /\ window'[i].stage = "rr"
                   /\ window[i].stage = "IQ" /\ window[i].A_ready
  <2>1. CASE i \in issued
    <3>1. window'[i] = [window[i] EXCEPT !.stage = "rr"] /\ "rr" \in Stages
      BY <1>2, <2>1 DEF Stages
    <3> QED BY <1>1, <1>2, <2>1, <3>1, Staged
  <2>2. CASE i \notin issued
    <3>1. window'[i] = window[i]
      BY <1>2, <2>2
    <3> QED BY <1>1, <3>1 DEF SameButStage, SameNames
  <2> QED BY <2>1, <2>2
<1>4. window' \in Seq(Instruction) /\ Len(window') = Len(window)
  <2>1. \A j \in 1 .. Len(window) : window'[j] \in Instruction
    BY <1>1, <1>3
  <2>2. DOMAIN window' = 1 .. Len(window) /\ window' = [j \in 1 .. Len(window) |-> window'[j]]
    BY <1>1, <1>2
  <2> QED BY <1>1, <2>1, <2>2
<1>5. ASSUME NEW i \in 1 .. Len(window')
      PROVE  /\ Progressed(window'[i], window[i])
             /\ Sane(window'[i])
             /\ Held(window'[i], prf')
             /\ HasRead(window'[i]) => HasRead(window[i])
             /\ window'[i].stage = "DISPATCH" <=> window[i].stage = "DISPATCH"
             /\ Unannounced(window'[i]) <=> Unannounced(window[i])
             /\ window'[i].stage = "IQ" =>
                  /\ window[i].stage = "IQ" /\ window'[i].A_ready = window[i].A_ready
             /\ window'[i].stage = "rr" =>
                  window[i].stage = "rr" \/ (window[i].stage = "IQ" /\ window[i].A_ready)
  <2>1. i \in InFlight /\ window[i] \in Instruction /\ Sane(window[i]) /\ Held(window[i], prf)
    BY <1>1, <1>4
  <2>2. /\ SameButStage(window'[i], window[i])
        /\ \/ window'[i].stage = window[i].stage
           \/ /\ window'[i].stage = "rr"
              /\ window[i].stage = "IQ" /\ window[i].A_ready
    BY <1>3, <2>1
  <2>3. Held(window'[i], prf')
    BY <1>2, <2>1, <2>2, HeldSame DEF SameButStage, HasWritten
  <2>4. Sane(window'[i])
    BY <2>1, <2>2 DEF SameButStage, SameNames, Sane
  <2>5. /\ Progressed(window'[i], window[i])
        /\ HasRead(window'[i]) => HasRead(window[i])
        /\ Unannounced(window'[i]) <=> Unannounced(window[i])
    BY <2>2 DEF SameButStage, Progressed, HasRead, HasWritten, Unannounced
  <2> QED BY <2>2, <2>3, <2>4, <2>5 DEF SameButStage
<1>6. PICK none : none = {}
  OBVIOUS
<1>7. Announced(ready, ready', window, none) /\ Moved(window', window, none)
  BY <1>2, <1>5, <1>6 DEF Announced, Moved
<1>8. /\ phase' \in Phases /\ phase' # "register_read" /\ none \subseteq 1 .. Len(window')
      /\ prf' \in [PhysRegs -> Values] /\ amt' = amt /\ rmt' \in [LogRegs -> PhysRegs]
      /\ Len(window') \in 0 .. Len(window) /\ ready' \in [PhysRegs -> BOOLEAN]
      /\ \A l \in LogRegs : prf'[amt[l]] = prf[amt[l]]
      /\ \A l \in LogRegs : Version(window, amt, Len(window'), l, rmt'[l])
  BY <1>1, <1>2, <1>4, <1>6, SameMap DEF Phases
<1> QED BY <1>4, <1>5, <1>7, <1>8, MoveOn

LEMMA EndStep ==
  ASSUME IInv,
         \/ EndRetire \/ EndWriteback \/ NoLoadReplay \/ EndDispatch \/ EndRename
         \/ UNCHANGED vars
  PROVE  IInv'
<1>1. /\ UNCHANGED <<prf, ready, rmt, amt, window>>
      /\ phase' \in Phases /\ (phase' = "register_read" => phase = "register_read")
  BY DEF EndRetire, EndWriteback, NoLoadReplay, EndDispatch, EndRename, vars, Phases, IInv, TypeOK
<1>2. TypeOK'
  BY <1>1 DEF IInv, TypeOK
<1> QED BY <1>1, <1>2 DEF IInv

-----------------------------------------------------------------------------
(* Dispatch *)

LEMMA DispatchStep ==
  ASSUME IInv, NEW i \in InFlight, Dispatch(i)
  PROVE  IInv'
<1>1. /\ TypeOK /\ Renaming(window, amt, rmt) /\ RegisterValues(window, amt, prf)
      /\ ReadyBits(window, amt, ready) /\ Distinct(window, amt)
      /\ Len(window) \in Nat /\ InFlight = 1 .. Len(window) /\ window \in Seq(Instruction)
      /\ amt \in [LogRegs -> PhysRegs] /\ rmt \in [LogRegs -> PhysRegs]
      /\ prf \in [PhysRegs -> Values] /\ ready \in [PhysRegs -> BOOLEAN]
      /\ \A j \in InFlight :
           /\ window[j] \in Instruction /\ Sane(window[j]) /\ Held(window[j], prf)
           /\ window[j].A_phys \in PhysRegs /\ window[j].A_log \in LogRegs
  BY Typed DEF IInv, Renaming, TypeOK, RegisterValues
<1>2. PICK inst : inst = window[i]
  OBVIOUS
<1>3. /\ inst \in Instruction /\ Sane(inst) /\ inst.A_phys \in PhysRegs
      /\ inst.vp_value # NotPredicted => inst.vp_value \in Values /\ inst.dest
      /\ inst.dest => inst.phys \in PhysRegs
  BY <1>1, <1>2 DEF Sane, Instruction
<1>4. /\ inst.stage = "DISPATCH" /\ \A j \in InFlight : window[j].stage = "DISPATCH" => i <= j
      /\ window' = [window EXCEPT ![i].stage = "IQ", ![i].A_ready = ready[inst.A_phys]]
      /\ ready' = IF inst.dest THEN [ready EXCEPT ![inst.phys] = inst.vp_value # NotPredicted]
                  ELSE ready
      /\ prf' = IF inst.vp_value # NotPredicted THEN [prf EXCEPT ![inst.phys] = inst.vp_value]
                ELSE prf
      /\ UNCHANGED <<phase, rmt, amt>> /\ phase = "dispatch"
  BY <1>2 DEF Dispatch, ReadyAfterDispatch, PrfAfterDispatch, In
<1>5. PICK bit \in BOOLEAN : bit = ready[inst.A_phys]
  BY <1>1, <1>3
<1>6. PICK u : u = [inst EXCEPT !.stage = "IQ", !.A_ready = bit]
  OBVIOUS
<1>7. /\ u \in Instruction /\ u.stage = "IQ" /\ u.A_ready = bit
      /\ SameNames(u, inst) /\ u.vp_value = inst.vp_value
  <2>1. "IQ" \in Stages
    BY DEF Stages
  <2> QED BY <1>3, <1>5, <1>6, <2>1 DEF Instruction, SameNames
<1>8. /\ window' \in Seq(Instruction) /\ Len(window') = Len(window)
      /\ window'[i] = u
      /\ \A j \in 1 .. Len(window) : j # i => window'[j] = window[j]
  <2>1. window' = [window EXCEPT ![i] = u]
    BY <1>1, <1>2, <1>4, <1>5, <1>6
  <2> QED BY <1>1, <1>7, <2>1
<1>9. /\ prf' \in [PhysRegs -> Values] /\ ready' \in [PhysRegs -> BOOLEAN]
      /\ inst.dest => ready'[inst.phys] = (inst.vp_value # NotPredicted)
      /\ inst.vp_value # NotPredicted => prf'[inst.phys] = inst.vp_value
      /\ \A p \in PhysRegs : (inst.dest => p # inst.phys) =>
           ready'[p] = ready[p] /\ prf'[p] = prf[p]
  BY <1>1, <1>3, <1>4
<1>10. /\ \A l \in LogRegs : amt[l] \in PhysRegs /\ (inst.dest => amt[l] # inst.phys)
       /\ \A j \in InFlight : j # i /\ window[j].dest =>
            window[j].phys \in PhysRegs /\ (inst.dest => window[j].phys # inst.phys)
  BY <1>1, <1>2 DEF Distinct, Sane
<1>11. ASSUME NEW j \in InFlight, j <= i, inst.dest
       PROVE  window[j].A_phys # inst.phys
  <2>1. Version(window, amt, j - 1, window[j].A_log, window[j].A_phys)
    BY <1>1 DEF Renaming, Linked
  <2>2. j - 1 \in 0 .. i - 1 /\ i \in 1 .. Len(window) /\ window[j].A_log \in LogRegs
    BY <1>1, <1>11
  <2> QED BY <1>1, <1>2, <1>11, <2>1, <2>2, VersionElsewhere
<1>12. \A j \in InFlight : i < j => window[j].stage = "DISPATCH"
  BY <1>1, <1>2, <1>4 DEF Renaming, InOrder
<1>13. Renaming(window', amt, rmt)
  <2>1. \A j \in 1 .. Len(window') : SameNames(window'[j], window[j]) /\ Sane(window'[j])
    BY <1>1, <1>2, <1>7, <1>8 DEF SameNames, Sane
  <2>2. InOrder(window')
    <3> SUFFICES ASSUME NEW j \in 1 .. Len(window'), NEW k \in 1 .. Len(window'), j < k,
                        window'[j].stage = "DISPATCH"
                 PROVE  window'[k].stage = "DISPATCH"
      BY DEF InOrder
    <3>1. j # i /\ window[j].stage = "DISPATCH" /\ j \in InFlight /\ k \in InFlight
      BY <1>1, <1>7, <1>8
    <3>2. i < k
      BY <1>1, <1>4, <3>1
    <3> QED BY <1>1, <1>8, <1>12, <3>1, <3>2
  <2>3. \A l \in LogRegs : Version(window, amt, Len(window'), l, rmt[l])
    BY <1>8, SameMap
  <2> QED BY <1>1, <1>8, <2>1, <2>2, <2>3, RenamingPrefix
<1>14. ReadyBits(window', amt, ready')
  <2>1. \A l \in LogRegs : ready'[amt[l]]
    BY <1>1, <1>9, <1>10 DEF ReadyBits
  <2>2. /\ inst.dest => (ready'[u.phys] <=> ~Unannounced(u))
        /\ ready'[u.A_phys] <=> u.A_ready
    <3>1. ready'[inst.A_phys] = ready[inst.A_phys]
      BY <1>1, <1>2, <1>3, <1>9, <1>11
    <3> QED BY <1>5, <1>7, <1>9, <3>1 DEF SameNames, Unannounced
  <2>3. ASSUME NEW j \in 1 .. Len(window'), j # i
        PROVE  /\ window'[j].dest /\ window'[j].stage # "DISPATCH" =>
                    (ready'[window'[j].phys] <=> ~Unannounced(window'[j]))
               /\ window'[j].stage = "IQ" => (ready'[window'[j].A_phys] <=> window'[j].A_ready)
               /\ window'[j].stage = "rr" => ready'[window'[j].A_phys]
    <3>1. j \in InFlight /\ window'[j] = window[j]
      BY <1>1, <1>8, <2>3
    <3>2. window[j].stage # "DISPATCH" => j <= i
      BY <1>1, <1>12, <3>1
    <3>3. window[j].stage # "DISPATCH" => ready'[window[j].A_phys] = ready[window[j].A_phys]
      BY <1>1, <1>9, <1>11, <3>1, <3>2
    <3>4. window[j].dest => ready'[window[j].phys] = ready[window[j].phys]
      BY <1>9, <1>10, <2>3, <3>1
    <3> QED BY <1>1, <3>1, <3>3, <3>4 DEF ReadyBits
  <2>4. u.dest = inst.dest /\ u.stage = "IQ"
    BY <1>7 DEF SameNames
  <2> QED BY <1>8, <2>1, <2>2, <2>3, <2>4 DEF ReadyBits
<1>15. RegisterValues(window', amt, prf')
  <2>1. ASSUME NEW j \in 1 .. Len(window')
        PROVE  /\ window[j].A_log \in LogRegs
               /\ Progressed(window'[j], window[j])
               /\ Held(window'[j], prf')
               /\ HasRead(window'[j]) => HasRead(window[j])
    <3>1. CASE j = i
      <4>1. Held(u, prf') /\ ~HasRead(u) /\ Progressed(u, inst)
        BY <1>4, <1>7, <1>9 DEF Held, HasRead, HasWritten, SameNames, Progressed
      <4> QED BY <1>1, <1>2, <1>8, <3>1, <4>1
    <3>2. CASE j # i
      <4>1. j \in InFlight /\ window'[j] = window[j]
        BY <1>1, <1>8, <3>2
      <4>2. window[j].dest => prf'[window[j].phys] = prf[window[j].phys]
        BY <1>9, <1>10, <3>2, <4>1
      <4>3. SameNames(window[j], window[j])
        BY DEF SameNames
      <4>4. Held(window[j], prf')
        BY <1>1, <4>1, <4>2, <4>3, HeldSame
      <4> QED BY <1>1, <4>1, <4>3, <4>4 DEF Progressed
    <3> QED BY <3>1, <3>2
  <2>2. \A l \in LogRegs : prf'[amt[l]] = prf[amt[l]]
    BY <1>9, <1>10
  <2> QED BY <1>1, <1>8, <2>1, <2>2, ValuesKept
<1>16. TypeOK'
  BY <1>1, <1>4, <1>8, <1>9 DEF TypeOK
<1> QED BY <1>4, <1>13, <1>14, <1>15, <1>16 DEF IInv

-----------------------------------------------------------------------------
(* Rename *)

LEMMA AddStep ==
  ASSUME IInv, NEW new \in Instruction, Sane(new),
         new.stage = "DISPATCH", new.A_phys = rmt[new.A_log],
         new.dest => /\ \A l \in LogRegs : amt[l] # new.phys
                     /\ \A k \in 1 .. Len(window) : window[k].dest => window[k].phys # new.phys,
         window' = Append(window, new), rmt' \in [LogRegs -> PhysRegs],
         \A l \in LogRegs : rmt'[l] = IF Writes(new, l) THEN new.phys ELSE rmt[l],
         UNCHANGED <<phase, prf, ready, amt>>, phase = "rename"
  PROVE  IInv'
<1>1. /\ TypeOK /\ Renaming(window, amt, rmt) /\ RegisterValues(window, amt, prf)
      /\ ReadyBits(window, amt, ready)
      /\ Len(window) \in Nat /\ InFlight = 1 .. Len(window) /\ window \in Seq(Instruction)
      /\ new.A_log \in LogRegs
  BY Typed DEF IInv, TypeOK, Instruction
<1>2. /\ window' \in Seq(Instruction) /\ Len(window') = Len(window) + 1
      /\ \A k \in 1 .. Len(window) : window'[k] = window[k]
      /\ window'[Len(window')] = new
      /\ 1 .. Len(window') = (1 .. Len(window)) \cup {Len(window')}
  BY <1>1
<1>3. Renaming(window', amt, rmt')
  <2>1. PICK v, s : v = window' /\ s = rmt'
    OBVIOUS
  <2>2. /\ Len(v) = Len(window) + 1 /\ v[Len(v)] = new
        /\ \A k \in 1 .. Len(window) : v[k] = window[k]
        /\ \A l \in LogRegs : s[l] = IF Writes(new, l) THEN new.phys ELSE rmt[l]
    BY <1>2, <2>1
  <2>3. Renaming(v, amt, s)
    BY <1>1, <2>2, RenamingAppend
  <2> QED BY <2>1, <2>3
<1>4. ReadyBits(window', amt, ready')
  BY <1>1, <1>2 DEF ReadyBits
<1>5. ASSUME NEW i \in 1 .. Len(window')
      PROVE  /\ Held(window'[i], prf')
             /\ HasRead(window'[i]) =>
                  MayRead(window', amt, prf', i - 1, window'[i].A_log, window'[i].A_value)
  <2>1. CASE i = Len(window')
    <3>1. new.vp_value # NotPredicted => new.dest
      BY DEF Sane
    <3> QED BY <1>2, <2>1 DEF Held, HasRead, HasWritten
  <2>2. CASE i \in 1 .. Len(window)
    <3>1. window'[i] = window[i] /\ Held(window[i], prf)
      BY <1>1, <1>2, <2>2 DEF RegisterValues
    <3>2. ASSUME HasRead(window[i])
          PROVE  MayRead(window', amt, prf, i - 1, window[i].A_log, window[i].A_value)
      <4>1. i - 1 \in Nat /\ \A k \in 1 .. i - 1 : k \in 1 .. Len(window)
        BY <2>2
      <4>2. \A k \in 1 .. i - 1 : Progressed(window'[k], window[k])
        BY <1>2, <4>1 DEF Progressed, SameNames
      <4>3. MayRead(window, amt, prf, i - 1, window[i].A_log, window[i].A_value)
        BY <1>1, <2>2, <3>2 DEF RegisterValues
      <4> QED BY <4>1, <4>2, <4>3, MayReadKept
    <3> QED BY <3>1, <3>2
  <2> QED BY <1>2, <2>1, <2>2
<1>6. TypeOK'
  BY <1>1, <1>2 DEF TypeOK
<1> QED BY <1>3, <1>4, <1>5, <1>6 DEF IInv, RegisterValues

LEMMA RenameStep ==
  ASSUME IInv, NEW kind \in Kinds, NEW log \in LogRegs, NEW source \in LogRegs,
         NEW prediction \in Values \cup {NotPredicted},
         Rename(kind, log, source, prediction)
  PROVE  IInv'
<1> DEFINE renamed(phys) ==
      [kind |-> kind, dest |-> kind.dest, log |-> IF kind.dest THEN log ELSE Junk,
       phys |-> phys, A_log |-> source, A_phys |-> rmt[source],
       A_ready |-> FALSE, A_value |-> Junk, C_value |-> Junk,
       vp_value |-> prediction, stage |-> "DISPATCH", sub |-> 0,
       val_misp |-> FALSE]
<1>1. /\ rmt \in [LogRegs -> PhysRegs] /\ Len(window) \in Nat /\ window \in Seq(Instruction)
      /\ \A i \in 1 .. Len(window) : window[i] \in Instruction
  BY Typed DEF IInv, TypeOK
<1>2. /\ \/ \E phys \in PhysRegs : Maps!AddWriter(renamed(phys))
         \/ Maps!AddOther(renamed(Junk))
      /\ UNCHANGED <<phase, prf, ready>> /\ phase = "rename"
      /\ prediction # NotPredicted => kind.dest
  BY DEF Rename
<1>3. kind.dest \in BOOLEAN
  BY DatapathAssumption DEF Kind
<1>4. ASSUME NEW phys \in PhysRegs \cup {Junk}, NEW new, new = renamed(phys)
      PROVE  /\ new \in Instruction
             /\ new.stage = "DISPATCH" /\ new.A_phys = rmt[new.A_log]
             /\ new.dest = kind.dest /\ new.phys = phys /\ new.vp_value = prediction
             /\ new.dest => new.log = log
  <2>1. rmt[source] \in PhysRegs /\ "DISPATCH" \in Stages
    BY <1>1 DEF Stages
  <2> QED BY <1>3, <1>4, <2>1 DEF Instruction
<1>5. CASE \E phys \in PhysRegs : Maps!AddWriter(renamed(phys))
  <2>1. PICK phys \in PhysRegs : Maps!AddWriter(renamed(phys))
    BY <1>5
  <2>2. PICK new : new = renamed(phys)
    OBVIOUS
  <2>3. /\ new \in Instruction
        /\ new.stage = "DISPATCH" /\ new.A_phys = rmt[new.A_log]
        /\ new.dest = kind.dest /\ new.phys = phys /\ new.vp_value = prediction
        /\ new.dest => new.log = log
    BY <1>4, <2>2
  <2>4. Maps!AddWriter(new)
    BY <2>1, <2>2
  <2>5. /\ new.dest /\ window' = Append(window, new)
        /\ rmt' = [rmt EXCEPT ![new.log] = new.phys] /\ amt' = amt
        /\ new.phys \in Maps!FreeRegs
    BY <2>4 DEF Maps!AddWriter
  <2>6. /\ \A l \in LogRegs : amt[l] # new.phys
        /\ \A k \in 1 .. Len(window) : window[k].dest => window[k].phys # new.phys
    BY <2>5 DEF Maps!FreeRegs, Maps!WritersUpTo
  <2>7. /\ rmt' \in [LogRegs -> PhysRegs]
        /\ \A l \in LogRegs : rmt'[l] = IF Writes(new, l) THEN new.phys ELSE rmt[l]
    BY <1>1, <2>3, <2>5 DEF Writes
  <2>8. Sane(new)
    BY <2>3, <2>5 DEF Sane
  <2> QED BY <1>2, <2>3, <2>5, <2>6, <2>7, <2>8, AddStep
<1>6. CASE Maps!AddOther(renamed(Junk))
  <2>2. PICK new : new = renamed(Junk)
    OBVIOUS
  <2>3. /\ new \in Instruction
        /\ new.stage = "DISPATCH" /\ new.A_phys = rmt[new.A_log]
        /\ new.dest = kind.dest /\ new.vp_value = prediction
    BY <1>4, <2>2
  <2>4. Maps!AddOther(new)
    BY <1>6, <2>2
  <2>5. ~new.dest /\ window' = Append(window, new) /\ rmt' = rmt /\ amt' = amt
    BY <2>4 DEF Maps!AddOther
  <2>6. Sane(new)
    BY <1>2, <2>3, <2>5 DEF Sane
  <2>7. \A l \in LogRegs : rmt'[l] = IF Writes(new, l) THEN new.phys ELSE rmt[l]
    BY <2>5 DEF Writes
  <2>8. rmt' \in [LogRegs -> PhysRegs]
    BY <1>1, <2>5
  <2> QED BY <1>2, <2>3, <2>5, <2>6, <2>7, <2>8, AddStep
<1> QED BY <1>2, <1>5, <1>6

-----------------------------------------------------------------------------
(* Retire *)

LEMMA Committed ==
  ASSUME IInv, HeadCompleted, Maps!CommitHead
  PROVE  /\ amt' \in [LogRegs -> PhysRegs]
         /\ \A l \in LogRegs : amt'[l] = IF Writes(window[1], l) THEN window[1].phys ELSE amt[l]
         /\ Renaming(Tail(window), amt', rmt)
<1>1. /\ TypeOK /\ Renaming(window, amt, rmt) /\ window # <<>> /\ window \in Seq(Instruction)
      /\ amt \in [LogRegs -> PhysRegs]
  BY DEF IInv, TypeOK, HeadCompleted
<1>2. /\ Len(window) \in Nat \ {0} /\ Head(window) = window[1] /\ 1 \in 1 .. Len(window)
      /\ Len(Tail(window)) = Len(window) - 1
      /\ \A k \in 1 .. Len(Tail(window)) : Tail(window)[k] = window[k + 1]
  BY <1>1
<1>3. Sane(window[1])
  BY <1>1, <1>2 DEF Renaming
<1>4. amt' = IF window[1].dest THEN [amt EXCEPT ![window[1].log] = window[1].phys] ELSE amt
  BY <1>2 DEF Maps!CommitHead
<1>5. /\ amt' \in [LogRegs -> PhysRegs]
      /\ \A l \in LogRegs : amt'[l] = IF Writes(window[1], l) THEN window[1].phys ELSE amt[l]
  BY <1>1, <1>3, <1>4 DEF Sane, Writes
<1>6. \A i \in 1 .. Len(window) : window[i].A_log \in LogRegs
  BY <1>1, Typed
<1>7. Renaming(Tail(window), amt', rmt)
  <2>1. PICK v, b : v = Tail(window) /\ b = amt'
    OBVIOUS
  <2>2. /\ Len(v) = Len(window) - 1 /\ \A k \in 1 .. Len(v) : v[k] = window[k + 1]
        /\ \A l \in LogRegs : b[l] = IF Writes(window[1], l) THEN window[1].phys ELSE amt[l]
    BY <1>2, <1>5, <2>1
  <2>3. Renaming(v, b, rmt)
    BY <1>1, <1>2, <1>6, <2>2, RenamingTail
  <2> QED BY <2>1, <2>3
<1> QED BY <1>5, <1>7

\* Nothing is in flight, and the rename map is the committed one.
LEMMA FlushedStep ==
  ASSUME IInv, phase = "retire", UNCHANGED <<phase, prf>>, window' = <<>>, rmt' = amt',
         amt' \in [LogRegs -> PhysRegs],
         \A k, l \in LogRegs : amt'[k] = amt'[l] => k = l,
         ready' = CommittedReady
  PROVE  IInv'
<1>1. prf \in [PhysRegs -> Values] /\ ready \in [PhysRegs -> BOOLEAN] /\ phase \in Phases
  BY DEF IInv, TypeOK
<1>2. PICK v : v = <<>>
  OBVIOUS
<1>3. v \in Seq(Instruction) /\ Len(v) = 0 /\ 1 .. Len(v) = {} /\ window' = v
  BY <1>2
<1>4. \A l \in LogRegs : Version(v, amt', Len(v), l, rmt'[l])
  BY <1>3 DEF Version, Untouched
<1>5. Renaming(v, amt', rmt')
  BY <1>3, <1>4 DEF Renaming, Distinct, Linked, InOrder
<1>6. ready' \in [PhysRegs -> BOOLEAN] /\ \A l \in LogRegs : ready'[amt'[l]]
  BY <1>1 DEF CommittedReady
<1>7. ReadyBits(v, amt', ready') /\ RegisterValues(v, amt', prf')
  BY <1>3, <1>6 DEF ReadyBits, RegisterValues
<1>8. TypeOK'
  BY <1>1, <1>3, <1>6 DEF TypeOK
<1> QED BY <1>3, <1>5, <1>7, <1>8 DEF IInv

LEMMA RetireStep ==
  ASSUME IInv, RetireHead
  PROVE  IInv'
<1>1. /\ TypeOK /\ Renaming(window, amt, rmt) /\ RegisterValues(window, amt, prf)
      /\ ReadyBits(window, amt, ready) /\ window \in Seq(Instruction) /\ window # <<>>
      /\ prf \in [PhysRegs -> Values] /\ ready \in [PhysRegs -> BOOLEAN]
      /\ rmt \in [LogRegs -> PhysRegs]
      /\ window[1].stage = "completed" /\ UNCHANGED <<phase, prf>>
      /\ HeadCompleted /\ phase = "retire"
  BY DEF IInv, TypeOK, RetireHead, HeadCompleted
<1>2. Maps!CommitHead
  BY DEF RetireHead, Maps!RetireAndFlush, Maps!Retire
<1>3. /\ amt' \in [LogRegs -> PhysRegs]
      /\ \A l \in LogRegs : amt'[l] = IF Writes(window[1], l) THEN window[1].phys ELSE amt[l]
      /\ Renaming(Tail(window), amt', rmt)
  BY <1>1, <1>2, Committed
<1>4. CASE window[1].val_misp
  <2>1. window' = <<>> /\ rmt' = amt' /\ ready' = CommittedReady
    BY <1>4 DEF RetireHead, Maps!RetireAndFlush
  <2>2. \A k, l \in LogRegs : amt'[k] = amt'[l] => k = l
    BY <1>3 DEF Renaming, Distinct
  <2> QED BY <1>1, <1>3, <2>1, <2>2, FlushedStep
<1>5. CASE ~window[1].val_misp
  <2>1. window' = Tail(window) /\ rmt' = rmt /\ ready' = ready
    BY <1>5 DEF RetireHead, Maps!Retire
  <2>2. /\ Len(window) \in Nat \ {0} /\ 1 \in 1 .. Len(window)
        /\ Len(window') = Len(window) - 1 /\ window' \in Seq(Instruction)
        /\ \A k \in 1 .. Len(window') : k + 1 \in 1 .. Len(window) /\ window'[k] = window[k + 1]
    BY <1>1, <2>1
  <2>3. Held(window[1], prf) /\ HasWritten(window[1])
    BY <1>1, <2>2 DEF RegisterValues, HasWritten
  <2>4. window[1].dest => ready[window[1].phys]
    BY <1>1, <2>2 DEF ReadyBits, Unannounced
  <2>5. \A l \in LogRegs : ready'[amt'[l]]
    BY <1>1, <1>3, <2>1, <2>4 DEF ReadyBits, Writes
  <2>6. ReadyBits(window', amt', ready')
    BY <1>1, <2>1, <2>2, <2>5 DEF ReadyBits
  <2>7. ASSUME NEW i \in 1 .. Len(window'), HasRead(window'[i])
        PROVE  MayRead(window', amt', prf, i - 1, window'[i].A_log, window'[i].A_value)
    <3>1. PICK inst : inst = window[i + 1]
      OBVIOUS
    <3>2. /\ i + 1 \in 1 .. Len(window) /\ window'[i] = inst /\ inst \in Instruction
          /\ i - 1 \in Nat /\ i + 1 - 1 = i - 1 + 1
          /\ \A k \in 1 .. i - 1 : window'[k] = window[k + 1]
      <4>1. i + 1 \in 1 .. Len(window) /\ window'[i] = inst
        BY <2>2, <3>1
      <4>2. inst \in Instruction
        BY <1>1, <3>1, <4>1
      <4>3. \A k \in 1 .. i - 1 : k \in 1 .. Len(window')
        BY <2>2
      <4>4. i - 1 \in Nat /\ i + 1 - 1 = i - 1 + 1
        OBVIOUS
      <4> QED BY <2>2, <4>1, <4>2, <4>3, <4>4
    <3>3. inst.A_log \in LogRegs /\ inst.A_value # NotPredicted
      BY <3>2 DEF Instruction, Values, Junk, NotPredicted
    <3>4. MayRead(window, amt, prf, i - 1 + 1, inst.A_log, inst.A_value)
      BY <1>1, <2>7, <3>1, <3>2 DEF RegisterValues
    <3>5. /\ Writes(window[1], inst.A_log) => amt'[inst.A_log] = window[1].phys
          /\ ~Writes(window[1], inst.A_log) => amt'[inst.A_log] = amt[inst.A_log]
      BY <1>3, <3>3
    <3>6. PICK n \in Nat : n = i - 1
      BY <3>2
    <3>7. MayRead(window', amt', prf, n, inst.A_log, inst.A_value)
      BY <1>5, <2>3, <3>2, <3>3, <3>4, <3>5, <3>6, MayReadTail
    <3> QED BY <3>2, <3>6, <3>7
  <2>8. RegisterValues(window', amt', prf')
    BY <1>1, <2>2, <2>7 DEF RegisterValues
  <2>9. TypeOK'
    BY <1>1, <1>3, <2>1, <2>2 DEF TypeOK
  <2> QED BY <1>1, <1>3, <2>1, <2>6, <2>8, <2>9 DEF IInv
<1> QED BY <1>4, <1>5

LEMMA FlushStep ==
  ASSUME IInv, RetireOffending
  PROVE  IInv'
<1>1. /\ window' = <<>> /\ rmt' = amt' /\ ready' = CommittedReady /\ amt' = amt
      /\ phase = "retire" /\ UNCHANGED <<phase, prf>>
  BY DEF RetireOffending, Maps!Flush, HeadCompleted
<1>2. amt \in [LogRegs -> PhysRegs] /\ \A k, l \in LogRegs : amt[k] = amt[l] => k = l
  BY DEF IInv, TypeOK, Renaming, Distinct
<1> QED BY <1>1, <1>2, FlushedStep

-----------------------------------------------------------------------------
(* The invariant *)

LEMMA InitIInv ==
  ASSUME Init
  PROVE  IInv
<1>1. /\ phase = "retire" /\ amt \in [LogRegs -> PhysRegs] /\ rmt = amt
      /\ \A k, l \in LogRegs : amt[k] = amt[l] => k = l
      /\ ready \in [PhysRegs -> BOOLEAN] /\ \A l \in LogRegs : ready[amt[l]]
      /\ window = <<>>
  BY DEF Init
<1>2. prf \in [PhysRegs -> Values]
  <2>1. PICK values \in [LogRegs -> Values] :
          prf = [p \in PhysRegs |->
                   IF \E l \in LogRegs : amt[l] = p
                   THEN values[CHOOSE l \in LogRegs : amt[l] = p] ELSE 0]
    BY DEF Init
  <2>2. 0 \in Values
    BY DatapathAssumption DEF Values
  <2>3. ASSUME NEW p \in PhysRegs
        PROVE  prf[p] \in Values
    <3>1. CASE \E l \in LogRegs : amt[l] = p
      <4>1. PICK reg : reg = (CHOOSE l \in LogRegs : amt[l] = p) /\ reg \in LogRegs
        BY <3>1, Zenon
      <4> QED BY <2>1, <3>1, <4>1
    <3>2. CASE ~ \E l \in LogRegs : amt[l] = p
      BY <2>1, <2>2, <3>2
    <3> QED BY <3>1, <3>2
  <2>4. prf = [p \in PhysRegs |-> prf[p]]
    BY <2>1
  <2> QED BY <2>3, <2>4
<1>3. PICK v : v = <<>>
  OBVIOUS
<1>4. v \in Seq(Instruction) /\ Len(v) = 0 /\ 1 .. Len(v) = {} /\ window = v
  BY <1>1, <1>3
<1>5. \A l \in LogRegs : Version(v, amt, Len(v), l, rmt[l])
  BY <1>1, <1>4 DEF Version, Untouched
<1>6. Renaming(v, amt, rmt)
  BY <1>1, <1>4, <1>5 DEF Renaming, Distinct, Linked, InOrder
<1>7. ReadyBits(v, amt, ready) /\ RegisterValues(v, amt, prf)
  BY <1>1, <1>4 DEF ReadyBits, RegisterValues
<1>8. TypeOK
  BY <1>1, <1>2, <1>4 DEF TypeOK, Phases
<1> QED BY <1>1, <1>4, <1>6, <1>7, <1>8 DEF IInv

LEMMA NextIInv ==
  ASSUME IInv, [Next]_vars
  PROVE  IInv'
<1>1. CASE RetireHead
  BY <1>1, RetireStep
<1>2. CASE RetireOffending
  BY <1>2, FlushStep
<1>3. CASE \E i \in InFlight : Writeback(i) \/ WritebackMispredicted(i)
  BY <1>3, WritebackStep
<1>4. CASE \E i \in InFlight : LoadReplay(i)
  BY <1>4, LoadReplayStep
<1>5. CASE \E hits \in SUBSET InFlight : Execute(hits)
  BY <1>5, ExecuteStep
<1>6. CASE RegisterRead
  BY <1>6, RegisterReadStep
<1>7. CASE \E issued \in SUBSET Issuable : Schedule(issued)
  BY <1>7, ScheduleStep
<1>8. CASE \E i \in InFlight : Dispatch(i)
  BY <1>8, DispatchStep
<1>9. CASE \E kind \in Kinds, log, source \in LogRegs,
              prediction \in Values \cup {NotPredicted} :
             Rename(kind, log, source, prediction)
  BY <1>9, RenameStep
<1>10. CASE EndRetire \/ EndWriteback \/ NoLoadReplay \/ EndDispatch \/ EndRename
            \/ UNCHANGED vars
  BY <1>10, EndStep
<1> QED BY <1>1, <1>2, <1>3, <1>4, <1>5, <1>6, <1>7, <1>8, <1>9, <1>10 DEF Next

\* The invariant of the machine from Rename to Retire, in every reachable state
THEOREM Invariance == Spec => []IInv
<1>1. Init => IInv
  BY InitIInv
<1>2. IInv /\ [Next]_vars => IInv'
  BY NextIInv
<1> QED BY <1>1, <1>2, PTL DEF Spec

\* The register file holds values only, and no field of an instruction in
\* flight gets out of its type: no operand, prediction or result leaves the
\* value space, and both maps name registers (renamer.h: m_prf,
\* m_prf_ready_bit_arr, m_rmt, m_amt; payload.h: the fields of an entry).
THEOREM TypeCorrect == Spec => []TypeOK
<1>1. IInv => TypeOK
  BY DEF IInv
<1> QED BY <1>1, Invariance, PTL

-----------------------------------------------------------------------------
(* Wakeups *)

LEMMA SilentIs ==
  ASSUME NEW p
  PROVE  p \in Dests(Silent) <=>
           \E j \in InFlight : window[j].dest /\ Unannounced(window[j]) /\ window[j].phys = p
BY DEF Dests, Silent, Unannounced

\* A version of a dispatched or a retired producer is ready unless its producer
\* is silent.
LEMMA VersionReady ==
  ASSUME IInv, NEW n \in 0 .. Len(window), NEW l \in LogRegs, NEW p,
         Version(window, amt, n, l, p),
         \A j \in 1 .. n : window[j].dest /\ window[j].phys = p => window[j].stage # "DISPATCH"
  PROVE  ~ready[p] <=> p \in Dests(Silent)
<1>1. /\ Distinct(window, amt) /\ ReadyBits(window, amt, ready)
      /\ InFlight = 1 .. Len(window) /\ Len(window) \in Nat
  BY Typed DEF IInv, Renaming
<1>2. CASE p = amt[l]
  <2>1. ready[p]
    BY <1>1, <1>2 DEF ReadyBits
  <2>2. \A j \in InFlight : window[j].dest => window[j].phys # p
    BY <1>1, <1>2 DEF Distinct
  <2> QED BY <2>1, <2>2, SilentIs
<1>3. ASSUME NEW j \in 1 .. n, Maker(window, j, n, l), p = window[j].phys
      PROVE  ~ready[p] <=> p \in Dests(Silent)
  <2>1. j \in InFlight /\ window[j].dest /\ window[j].stage # "DISPATCH"
    BY <1>1, <1>3 DEF Maker, Writes
  <2>2. ready[p] <=> ~Unannounced(window[j])
    BY <1>1, <1>3, <2>1 DEF ReadyBits
  <2>3. \A k \in InFlight : window[k].dest /\ window[k].phys = p => k = j
    BY <1>1, <1>3, <2>1 DEF Distinct
  <2> QED BY <1>3, <2>1, <2>2, <2>3, SilentIs
<1> QED BY <1>2, <1>3 DEF Version

\* No wakeup is lost and no ready bit is left over from a former life of a
\* register, for every number of registers and instructions and for all lane
\* depths: an operand waits in the issue queue exactly as long as an older
\* producer in flight has still to announce it (execute.cc:79 and 207-252,
\* register_read.cc:47-62, dispatch.cc:185-244, squash() in renamer.cc).
THEOREM NoWakeupLost == Spec => []WakeupsExact
<1>1. ASSUME IInv
      PROVE  WakeupsExact
  <2>1. /\ Renaming(window, amt, rmt) /\ ReadyBits(window, amt, ready)
        /\ Len(window) \in Nat /\ InFlight = 1 .. Len(window)
        /\ \A i \in InFlight : window[i].A_log \in LogRegs
    BY <1>1, Typed DEF IInv
  <2>2. ASSUME NEW i \in In("IQ")
        PROVE  ~window[i].A_ready <=> window[i].A_phys \in Dests(Silent)
    <3>1. i \in 1 .. Len(window) /\ window[i].stage = "IQ" /\ i - 1 \in 0 .. Len(window)
      BY <2>1 DEF In
    <3>2. Version(window, amt, i - 1, window[i].A_log, window[i].A_phys)
      BY <2>1, <3>1 DEF Renaming, Linked
    <3>3. \A j \in 1 .. i - 1 : j \in 1 .. Len(window) /\ j < i
      BY <3>1
    <3>4. \A j \in 1 .. i - 1 : window[j].stage # "DISPATCH"
      BY <2>1, <3>1, <3>3 DEF Renaming, InOrder
    <3>5. ~ready[window[i].A_phys] <=> window[i].A_phys \in Dests(Silent)
      BY <1>1, <2>1, <3>1, <3>2, <3>4, VersionReady
    <3>6. ready[window[i].A_phys] <=> window[i].A_ready
      BY <2>1, <3>1 DEF ReadyBits
    <3> QED BY <3>5, <3>6
  <2>3. ASSUME NEW l \in LogRegs, rmt[l] \notin Dests(In("DISPATCH"))
        PROVE  ~ready[rmt[l]] <=> rmt[l] \in Dests(Silent)
    <3>1. Version(window, amt, Len(window), l, rmt[l])
      BY <2>1 DEF Renaming
    <3>2. \A j \in 1 .. Len(window) :
            window[j].dest /\ window[j].phys = rmt[l] => window[j].stage # "DISPATCH"
      BY <2>1, <2>3 DEF Dests, In
    <3>3. Len(window) \in 0 .. Len(window)
      BY <2>1
    <3> QED BY <1>1, <3>1, <3>2, <3>3, VersionReady
  <2> QED BY <2>2, <2>3 DEF WakeupsExact
<1> QED BY <1>1, Invariance, PTL

-----------------------------------------------------------------------------
(* Committed registers *)

LEMMA CommittedValuesKept ==
  ASSUME IInv, [Next]_vars, ~RetireHead
  PROVE  amt' = amt /\ \A l \in LogRegs : prf'[amt[l]] = prf[amt[l]]
<1>1. /\ TypeOK /\ Renaming(window, amt, rmt) /\ Distinct(window, amt)
      /\ amt \in [LogRegs -> PhysRegs] /\ prf \in [PhysRegs -> Values]
      /\ InFlight = 1 .. Len(window) /\ \A i \in InFlight : Sane(window[i])
  BY Typed DEF IInv, TypeOK, Renaming
<1>2. ASSUME NEW done, done \subseteq InFlight
      PROVE  \A l \in LogRegs : Written(done)[amt[l]] = prf[amt[l]]
  <2> SUFFICES ASSUME NEW l \in LogRegs
               PROVE  Written(done)[amt[l]] = prf[amt[l]]
    OBVIOUS
  <2>1. amt[l] \in PhysRegs /\ \A i \in done : ~(window[i].dest /\ window[i].phys = amt[l])
    BY <1>1, <1>2 DEF Distinct
  <2> QED BY <1>1, <1>2, <2>1, WrittenIs
<1>3. ASSUME NEW i \in InFlight, LoadReplay(i)
      PROVE  amt' = amt /\ \A l \in LogRegs : prf'[amt[l]] = prf[amt[l]]
  <2>1. prf' = Written({i}) /\ amt' = amt /\ {i} \subseteq InFlight
    BY <1>3 DEF LoadReplay
  <2> QED BY <1>2, <2>1
<1>4. ASSUME NEW hits, Execute(hits)
      PROVE  amt' = amt /\ \A l \in LogRegs : prf'[amt[l]] = prf[amt[l]]
  <2>1. PICK done : prf' = Written(done) /\ done \subseteq BeforeLast(0) /\ amt' = amt
    BY <1>4 DEF Execute
  <2>2. done \subseteq InFlight
    BY <2>1 DEF BeforeLast, In
  <2> QED BY <1>2, <2>1, <2>2
<1>5. ASSUME NEW i \in InFlight, Dispatch(i)
      PROVE  amt' = amt /\ \A l \in LogRegs : prf'[amt[l]] = prf[amt[l]]
  <2>1. prf' = PrfAfterDispatch(window[i]) /\ amt' = amt
    BY <1>5 DEF Dispatch
  <2>2. window[i].vp_value # NotPredicted => window[i].dest /\ window[i].phys \in PhysRegs
    BY <1>1 DEF Sane
  <2>3. window[i].dest => \A l \in LogRegs : amt[l] # window[i].phys
    BY <1>1 DEF Distinct
  <2> QED BY <1>1, <2>1, <2>2, <2>3 DEF PrfAfterDispatch
<1>6. ASSUME \/ RetireOffending \/ EndRetire \/ EndWriteback \/ NoLoadReplay \/ RegisterRead
             \/ EndDispatch \/ EndRename \/ UNCHANGED vars
      PROVE  amt' = amt /\ prf' = prf
  BY <1>6 DEF RetireOffending, EndRetire, EndWriteback, NoLoadReplay, RegisterRead,
              EndDispatch, EndRename, Maps!Flush, vars
<1>7. ASSUME NEW i \in InFlight, Writeback(i) \/ WritebackMispredicted(i)
      PROVE  amt' = amt /\ prf' = prf
  BY <1>7 DEF Writeback, WritebackMispredicted
<1>8. ASSUME NEW issued, Schedule(issued)
      PROVE  amt' = amt /\ prf' = prf
  BY <1>8 DEF Schedule
<1>9. ASSUME NEW kind, NEW log, NEW source, NEW prediction,
             Rename(kind, log, source, prediction)
      PROVE  amt' = amt /\ prf' = prf
  BY <1>9 DEF Rename, Maps!AddWriter, Maps!AddOther
<1> QED BY <1>3, <1>4, <1>5, <1>6, <1>7, <1>8, <1>9 DEF Next

\* The step of CommitsSequentially
CommitStep ==
  Architectural' =
    IF RetireHead /\ window[1].dest
    THEN [Architectural EXCEPT ![window[1].log] = Result(Architectural[window[1].A_log])]
    ELSE Architectural

LEMMA CommitHolds ==
  ASSUME IInv, [Next]_vars
  PROVE  CommitStep
<1>1. CASE ~RetireHead
  <2>1. \A l \in LogRegs : prf'[amt'[l]] = prf[amt[l]]
    BY <1>1, CommittedValuesKept
  <2> QED BY <1>1, <2>1 DEF CommitStep, Architectural
<1>2. CASE RetireHead
  <2>1. /\ TypeOK /\ RegisterValues(window, amt, prf) /\ HeadCompleted /\ Maps!CommitHead
        /\ window # <<>> /\ window \in Seq(Instruction) /\ window[1].stage = "completed"
        /\ prf' = prf
    BY <1>2 DEF IInv, TypeOK, RetireHead, HeadCompleted, Maps!RetireAndFlush, Maps!Retire
  <2>2. 1 \in 1 .. Len(window) /\ window[1].A_log \in LogRegs
    BY <2>1, Typed
  <2>3. \A l \in LogRegs : amt'[l] = IF Writes(window[1], l) THEN window[1].phys ELSE amt[l]
    BY <2>1, Committed
  <2>4. /\ window[1].dest => prf[window[1].phys] = Result(window[1].A_value)
        /\ MayRead(window, amt, prf, 1 - 1, window[1].A_log, window[1].A_value)
    BY <2>1, <2>2 DEF RegisterValues, Held, HasRead, HasWritten
  <2>5. Untouched(window, 1 - 1, window[1].A_log)
    BY DEF Untouched
  <2>6. window[1].A_value = Architectural[window[1].A_log]
    BY <2>2, <2>4, <2>5 DEF MayRead, Architectural
  <2>7. ASSUME NEW l \in LogRegs
        PROVE  prf'[amt'[l]] = IF Writes(window[1], l)
                               THEN Result(Architectural[window[1].A_log])
                               ELSE Architectural[l]
    <3>1. CASE Writes(window[1], l)
      BY <2>1, <2>3, <2>4, <2>6, <3>1 DEF Writes
    <3>2. CASE ~Writes(window[1], l)
      BY <2>1, <2>3, <3>2 DEF Architectural
    <3> QED BY <3>1, <3>2
  <2>8. Architectural' = [l \in LogRegs |-> prf'[amt'[l]]]
    BY DEF Architectural
  <2>9. CASE window[1].dest
    <3>1. PICK value : value = Result(Architectural[window[1].A_log])
      OBVIOUS
    <3>2. [Architectural EXCEPT ![window[1].log] = value] =
            [l \in LogRegs |-> IF l = window[1].log THEN value ELSE Architectural[l]]
      BY DEF Architectural
    <3>3. \A l \in LogRegs :
            prf'[amt'[l]] = IF l = window[1].log THEN value ELSE Architectural[l]
      BY <2>7, <2>9, <3>1 DEF Writes
    <3> QED BY <1>2, <2>8, <2>9, <3>1, <3>2, <3>3 DEF CommitStep
  <2>10. CASE ~window[1].dest
    <3>1. \A l \in LogRegs : prf'[amt'[l]] = Architectural[l]
      BY <2>7, <2>10 DEF Writes
    <3> QED BY <2>8, <2>10, <3>1 DEF CommitStep, Architectural
  <2> QED BY <2>9, <2>10
<1> QED BY <1>1, <1>2

\* The architectural registers only ever change by the head of the active list
\* committing what executing it on them gives, for every program, number of
\* registers, size of the window, latency and prediction: no wrong value ever
\* becomes architectural (execute.cc:77-103 and 169-179, load_replay() and
\* retire.cc:248-302).
THEOREM CommitsAreSequential == Spec => CommitsSequentially
<1>1. IInv /\ [Next]_vars => [CommitStep]_vars
  BY CommitHolds
<1>2. Spec => [][CommitStep]_vars
  BY <1>1, Invariance, PTL DEF Spec
<1> QED BY <1>2 DEF CommitsSequentially, CommitStep

-----------------------------------------------------------------------------
(* The sequential execution.  Sequential is a recursive function: that it    *)
(* exists is proved by Least, from the partial functions on 0 .. n.           *)

\* The registers before instruction n, from those before the previous one
After(before, n) ==
  IF n <= 1 THEN Architectural
  ELSE LET older == window[n - 1]
       IN IF older.dest
          THEN [before EXCEPT ![older.log] = Result(before[older.A_log])]
          ELSE before

Partial(g, n) == \A k \in 0 .. n : g[k] = After(g[k - 1], k)

LEMMA AfterStart ==
  ASSUME NEW f, NEW g
  PROVE  After(f, 0) = After(g, 0)
BY DEF After

LEMMA PartialUnique ==
  ASSUME NEW m \in Nat, NEW n \in Nat, NEW g, NEW h, Partial(g, m), Partial(h, n)
  PROVE  \A k \in Nat : k <= m /\ k <= n => g[k] = h[k]
<1> DEFINE bad == {k \in Nat : k <= m /\ k <= n /\ g[k] # h[k]}
<1>1. SUFFICES ASSUME bad # {}
               PROVE  FALSE
  OBVIOUS
<1>2. PICK k \in bad : \A j \in bad : k <= j
  <2>1. bad \subseteq Nat
    OBVIOUS
  <2> HIDE DEF bad
  <2> QED BY <1>1, <2>1, Least
<1>3. k \in 0 .. m /\ k \in 0 .. n /\ g[k] # h[k]
  OBVIOUS
<1>4. g[k] = After(g[k - 1], k) /\ h[k] = After(h[k - 1], k)
  BY <1>3 DEF Partial
<1>5. CASE k = 0
  <2>1. After(g[k - 1], 0) = After(h[k - 1], 0)
    BY AfterStart
  <2> QED BY <1>3, <1>4, <1>5, <2>1
<1>6. CASE k # 0
  <2>1. k - 1 \in Nat /\ k - 1 <= m /\ k - 1 <= n /\ ~(k <= k - 1)
    BY <1>3, <1>6
  <2>2. g[k - 1] = h[k - 1]
    BY <1>2, <2>1
  <2> QED BY <1>3, <1>4, <2>2
<1> QED BY <1>5, <1>6

LEMMA PartialExists == \A n \in Nat : \E g : Partial(g, n)
<1> DEFINE bad == {n \in Nat : ~ \E g : Partial(g, n)}
<1>1. SUFFICES ASSUME bad # {}
               PROVE  FALSE
  OBVIOUS
<1>2. PICK n \in bad : \A m \in bad : n <= m
  <2>1. bad \subseteq Nat
    OBVIOUS
  <2> HIDE DEF bad
  <2> QED BY <1>1, <2>1, Least
<1>3. n \in Nat /\ ~ \E g : Partial(g, n)
  OBVIOUS
<1>4. CASE n = 0
  <2>1. PICK first : first = After(0, 0)
    OBVIOUS
  <2>2. PICK g : g = [k \in 0 .. 0 |-> first]
    OBVIOUS
  <2>3. g[0] = After(g[0 - 1], 0)
    <3>1. After(g[0 - 1], 0) = After(0, 0)
      BY AfterStart
    <3> QED BY <2>1, <2>2, <3>1
  <2>4. Partial(g, n)
    BY <1>4, <2>3 DEF Partial
  <2> QED BY <1>3, <2>4
<1>5. CASE n # 0
  <2>1. n - 1 \in Nat /\ ~(n <= n - 1)
    BY <1>3, <1>5
  <2>2. PICK g : Partial(g, n - 1)
    BY <1>2, <2>1
  <2>3. PICK last : last = After(g[n - 1], n)
    OBVIOUS
  <2>4. PICK h : h = [k \in 0 .. n |-> IF k = n THEN last ELSE g[k]]
    OBVIOUS
  <2>5. ASSUME NEW k \in 0 .. n
        PROVE  h[k] = After(h[k - 1], k)
    <3>1. CASE k = n
      <4>1. h[k - 1] = g[n - 1] /\ h[k] = last
        BY <1>3, <2>1, <2>4, <3>1
      <4> QED BY <2>3, <3>1, <4>1
    <3>2. CASE k = 0
      <4>1. h[0] = g[0] /\ 0 \in 0 .. n - 1
        BY <1>3, <1>5, <2>1, <2>4
      <4>2. g[0] = After(g[0 - 1], 0)
        BY <2>2, <4>1 DEF Partial
      <4>3. After(g[0 - 1], 0) = After(h[0 - 1], 0)
        BY AfterStart
      <4> QED BY <3>2, <4>1, <4>2, <4>3
    <3>3. CASE k # n /\ k # 0
      <4>1. k \in 0 .. n - 1 /\ k - 1 \in 0 .. n /\ k - 1 # n
        BY <1>3, <3>3
      <4>2. h[k] = g[k] /\ h[k - 1] = g[k - 1]
        BY <2>4, <3>3, <4>1
      <4>3. g[k] = After(g[k - 1], k)
        BY <2>2, <4>1 DEF Partial
      <4> QED BY <4>2, <4>3
    <3> QED BY <3>1, <3>2, <3>3
  <2>6. Partial(h, n)
    BY <2>5 DEF Partial
  <2> QED BY <1>3, <2>6
<1> QED BY <1>4, <1>5

LEMMA SequentialIs == \A n \in Nat : Sequential[n] = After(Sequential[n - 1], n)
<1>1. PICK G : G = [n \in Nat |-> CHOOSE g : Partial(g, n)]
  OBVIOUS
<1>2. ASSUME NEW n \in Nat
      PROVE  Partial(G[n], n)
  <2>1. G[n] = CHOOSE g : Partial(g, n)
    BY <1>1
  <2>2. \E g : Partial(g, n)
    BY PartialExists
  <2>3. Partial(CHOOSE g : Partial(g, n), n)
    BY <2>2, Zenon
  <2> QED BY <2>1, <2>3
<1>3. PICK f : f = [n \in Nat |-> G[n][n]]
  OBVIOUS
<1>4. ASSUME NEW n \in Nat
      PROVE  f[n] = After(f[n - 1], n)
  <2>1. f[n] = G[n][n]
    BY <1>3
  <2>2. G[n][n] = After(G[n][n - 1], n)
    BY <1>2 DEF Partial
  <2>3. CASE n = 0
    <3>1. After(G[0][0 - 1], 0) = After(f[0 - 1], 0)
      BY AfterStart
    <3> QED BY <2>1, <2>2, <2>3, <3>1
  <2>4. CASE n # 0
    <3>1. n - 1 \in Nat /\ n - 1 <= n - 1 /\ n - 1 <= n
      BY <2>4
    <3>2. G[n - 1][n - 1] = G[n][n - 1]
      BY <1>2, <3>1, PartialUnique
    <3>3. f[n - 1] = G[n - 1][n - 1]
      BY <1>3, <3>1
    <3> QED BY <2>1, <2>2, <3>2, <3>3
  <2> QED BY <2>3, <2>4
<1>5. f = [n \in Nat |-> After(f[n - 1], n)]
  BY <1>3, <1>4
<1>6. Sequential = CHOOSE g : g = [n \in Nat |-> After(g[n - 1], n)]
  BY DEF Sequential, After
<1>7. Sequential = [n \in Nat |-> After(Sequential[n - 1], n)]
  BY <1>5, <1>6, Zenon
<1> QED BY <1>7

\* What the sequential execution has in a register: the committed value, or the
\* result of the maker of the version
Registers(n) ==
  /\ DOMAIN Sequential[n + 1] = LogRegs
  /\ \A l \in LogRegs :
       /\ Untouched(window, n, l) => Sequential[n + 1][l] = Architectural[l]
       /\ \A j \in 1 .. n :
            Maker(window, j, n, l) => Sequential[n + 1][l] = Result(TrueOperand(j))

LEMMA RegistersStart == Registers(0)
<1>1. Sequential[1] = Architectural
  <2>1. Sequential[1] = After(Sequential[1 - 1], 1)
    BY SequentialIs
  <2> QED BY <2>1 DEF After
<1>2. DOMAIN Architectural = LogRegs
  BY DEF Architectural
<1> QED BY <1>1, <1>2 DEF Registers

LEMMA RegistersNext ==
  ASSUME NEW n \in Nat \ {0}, Registers(n - 1),
         window[n].dest => window[n].log \in LogRegs
  PROVE  Registers(n)
<1>1. PICK before : before = Sequential[n]
  OBVIOUS
<1>2. DOMAIN before = LogRegs
  BY <1>1 DEF Registers
<1>3. PICK value : value = Result(TrueOperand(n))
  OBVIOUS
<1>4. value = Result(before[window[n].A_log])
  BY <1>1, <1>3 DEF TrueOperand
<1>5. Sequential[n + 1] =
        IF window[n].dest THEN [before EXCEPT ![window[n].log] = value] ELSE before
  <2>1. Sequential[n + 1] = After(before, n + 1)
    <3>1. Sequential[n + 1] = After(Sequential[n + 1 - 1], n + 1)
      BY SequentialIs
    <3> QED BY <1>1, <3>1
  <2>2. ~(n + 1 <= 1) /\ n + 1 - 1 = n
    OBVIOUS
  <2> QED BY <1>4, <2>1, <2>2 DEF After
<1>6. ASSUME NEW l \in LogRegs
      PROVE  Sequential[n + 1][l] = IF Writes(window[n], l) THEN value ELSE before[l]
  <2>1. CASE window[n].dest
    <3>1. Sequential[n + 1] = [before EXCEPT ![window[n].log] = value]
      BY <1>5, <2>1
    <3>2. Sequential[n + 1][l] = IF l = window[n].log THEN value ELSE before[l]
      BY <1>2, <3>1
    <3> QED BY <2>1, <3>2 DEF Writes
  <2>2. CASE ~window[n].dest
    BY <1>5, <2>2 DEF Writes
  <2> QED BY <2>1, <2>2
<1>7. DOMAIN Sequential[n + 1] = LogRegs
  BY <1>2, <1>5
<1>8. ASSUME NEW l \in LogRegs, Untouched(window, n, l)
      PROVE  Sequential[n + 1][l] = Architectural[l]
  <2>1. ~Writes(window[n], l) /\ Untouched(window, n - 1, l)
    BY <1>8 DEF Untouched
  <2>2. before[l] = Architectural[l]
    BY <1>1, <2>1 DEF Registers
  <2> QED BY <1>6, <2>1, <2>2
<1>9. ASSUME NEW l \in LogRegs, NEW j \in 1 .. n, Maker(window, j, n, l)
      PROVE  Sequential[n + 1][l] = Result(TrueOperand(j))
  <2>1. CASE j = n
    BY <1>3, <1>6, <1>9, <2>1 DEF Maker
  <2>2. CASE j # n
    <3>1. j \in 1 .. n - 1 /\ n \in j + 1 .. n /\ \A k \in j + 1 .. n - 1 : k \in j + 1 .. n
      BY <2>2
    <3>2. ~Writes(window[n], l) /\ Maker(window, j, n - 1, l)
      BY <1>9, <3>1 DEF Maker
    <3>3. before[l] = Result(TrueOperand(j))
      BY <1>1, <3>1, <3>2 DEF Registers
    <3> QED BY <1>6, <3>2, <3>3
  <2> QED BY <2>1, <2>2
<1> QED BY <1>7, <1>8, <1>9 DEF Registers

LEMMA RegistersHold ==
  ASSUME IInv
  PROVE  \A n \in 0 .. Len(window) : Registers(n)
<1>1. Len(window) \in Nat /\ \A i \in 1 .. Len(window) : Sane(window[i])
  BY Typed DEF IInv, Renaming
<1> DEFINE bad == {n \in 0 .. Len(window) : ~Registers(n)}
<1>2. SUFFICES ASSUME bad # {}
               PROVE  FALSE
  OBVIOUS
<1>3. PICK n \in bad : \A m \in bad : n <= m
  <2>1. bad \subseteq Nat
    BY <1>1
  <2> HIDE DEF bad
  <2> QED BY <1>2, <2>1, Least
<1>4. n \in 0 .. Len(window) /\ ~Registers(n)
  OBVIOUS
<1>5. n # 0
  BY <1>4, RegistersStart
<1>6. n \in Nat \ {0} /\ n - 1 \in 0 .. Len(window) /\ ~(n <= n - 1) /\ n \in 1 .. Len(window)
  BY <1>1, <1>4, <1>5
<1>7. Registers(n - 1)
  BY <1>3, <1>6
<1>8. window[n].dest => window[n].log \in LogRegs
  BY <1>1, <1>6 DEF Sane
<1> QED BY <1>4, <1>6, <1>7, <1>8, RegistersNext

\* An operand that was read is right if all elders were predicted right.
RightIfEldersAre(i) ==
  HasRead(window[i]) /\ (\A j \in 1 .. i - 1 : WellPredicted(j)) =>
    window[i].A_value = TrueOperand(i)

LEMMA RightOperand ==
  ASSUME IInv, NEW i \in 1 .. Len(window), \A j \in 1 .. i - 1 : RightIfEldersAre(j)
  PROVE  RightIfEldersAre(i)
<1> SUFFICES ASSUME HasRead(window[i]), \A j \in 1 .. i - 1 : WellPredicted(j)
             PROVE  window[i].A_value = TrueOperand(i)
  BY DEF RightIfEldersAre
<1>1. /\ TypeOK /\ Renaming(window, amt, rmt) /\ RegisterValues(window, amt, prf)
      /\ Len(window) \in Nat /\ window[i] \in Instruction
  BY Typed DEF IInv
<1>2. PICK l \in LogRegs : l = window[i].A_log
  BY <1>1, Typed
<1>3. window[i].A_value # NotPredicted
  BY <1>1 DEF Instruction, Values, Junk, NotPredicted
<1>4. MayRead(window, amt, prf, i - 1, l, window[i].A_value)
  BY <1>1, <1>2 DEF RegisterValues
<1>5. PICK n \in 0 .. Len(window) : n = i - 1 /\ n + 1 = i
  BY <1>1
<1>6. Registers(n)
  BY RegistersHold
<1>7. TrueOperand(i) = Sequential[n + 1][l]
  BY <1>2, <1>5 DEF TrueOperand
<1>8. CASE Untouched(window, n, l)
  <2>1. Sequential[n + 1][l] = Architectural[l]
    BY <1>6, <1>8 DEF Registers
  <2>2. window[i].A_value = prf[amt[l]]
    BY <1>4, <1>5, <1>8 DEF MayRead
  <2> QED BY <1>7, <2>1, <2>2 DEF Architectural
<1>9. ASSUME NEW j \in 1 .. n, Maker(window, j, n, l)
      PROVE  window[i].A_value = TrueOperand(i)
  <2>1. TrueOperand(i) = Result(TrueOperand(j))
    BY <1>6, <1>7, <1>9 DEF Registers
  <2>2. j \in 1 .. i - 1 /\ \A k \in 1 .. j - 1 : k \in 1 .. i - 1
    BY <1>5
  <2>3. CASE window[i].A_value = window[j].vp_value
    <3>1. WellPredicted(j)
      BY <2>2
    <3> QED BY <1>3, <2>1, <2>3, <3>1 DEF WellPredicted
  <2>4. CASE HasWritten(window[j]) /\ window[i].A_value = Result(window[j].A_value)
    <3>1. HasRead(window[j])
      BY <2>4 DEF HasWritten, HasRead
    <3>2. \A k \in 1 .. j - 1 : WellPredicted(k)
      BY <2>2
    <3>3. window[j].A_value = TrueOperand(j)
      BY <2>2, <3>1, <3>2 DEF RightIfEldersAre
    <3> QED BY <2>1, <2>4, <3>3
  <2>5. \/ window[i].A_value = window[j].vp_value
        \/ HasWritten(window[j]) /\ window[i].A_value = Result(window[j].A_value)
    BY <1>4, <1>5, <1>9, <2>2 DEF MayRead
  <2> QED BY <2>3, <2>4, <2>5
<1>10. Version(window, amt, n, l, window[i].A_phys)
  BY <1>1, <1>2, <1>5 DEF Renaming, Linked
<1> QED BY <1>8, <1>9, <1>10 DEF Version

\* Wrong operands come from value mispredictions only, for every number of
\* registers, latency and window: an instruction whose elders were predicted
\* right, or not at all, has read what the sequential execution gives it, from
\* the register file, a bypass or an injected prediction (register_read.cc:47-62
\* and 103-115, execute.cc:207-252, dispatch.cc:236-244).
THEOREM OperandsAreRight == Spec => []WrongOperandsAreSpeculative
<1>1. ASSUME IInv
      PROVE  WrongOperandsAreSpeculative
  <2>1. Len(window) \in Nat /\ InFlight = 1 .. Len(window)
    BY <1>1, Typed DEF IInv
  <2> DEFINE bad == {i \in 1 .. Len(window) : ~RightIfEldersAre(i)}
  <2>2. bad = {}
    <3>1. SUFFICES ASSUME bad # {}
                   PROVE  FALSE
      OBVIOUS
    <3>2. PICK i \in bad : \A j \in bad : i <= j
      <4>1. bad \subseteq Nat
        OBVIOUS
      <4> HIDE DEF bad
      <4> QED BY <3>1, <4>1, Least
    <3>3. i \in 1 .. Len(window) /\ ~RightIfEldersAre(i)
      OBVIOUS
    <3>4. ASSUME NEW j \in 1 .. i - 1
          PROVE  RightIfEldersAre(j)
      <4>1. j \in 1 .. Len(window) /\ ~(i <= j)
        BY <2>1, <3>3
      <4> QED BY <3>2, <4>1
    <3> QED BY <1>1, <3>3, <3>4, RightOperand
  <2>3. \A i \in 1 .. Len(window) : RightIfEldersAre(i)
    BY <2>2
  <2> QED BY <2>1, <2>3 DEF WrongOperandsAreSpeculative, RightIfEldersAre, HasRead
<1> QED BY <1>1, Invariance, PTL

=============================================================================
