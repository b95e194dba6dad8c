--------------------------- MODULE BundlesProofs ---------------------------
(***************************************************************************)
(* Nothing is fetched behind a serializing instruction, and the payload    *)
(* buffer stays in step with the instructions in flight, for every width,  *)
(* every size of the resources and every mix of instruction kinds.         *)
(*                                                                         *)
(* That the payload buffer never overflows rests on the stalls: each stage *)
(* holds a limited number of instructions (Limits).  That a rollback never *)
(* takes a full buffer for an empty one rests on their order (Ordered):    *)
(* a branch that resolves has left the front end behind it.                *)
(***************************************************************************)
EXTENDS Bundles, RingProofs, FiniteSetTheorems, SequenceTheorems

Entry == [kind : Kinds, stage : Stages, index : Indices]

PayType == [head : Indices, tail : Indices, length : Int]

\* The types the steps rely on: TypeOK without the bound on the length
FlowOK ==
  /\ fetch_active \in BOOLEAN
  /\ window \in Seq(Entry)
  /\ pay \in PayType

Back == {"active", "completed"}

\* No stage overtakes another.
Ordered ==
  \A i, j \in 1 .. Len(window) : i < j =>
    /\ window[j].stage \in Back => window[i].stage \in Back
    /\ window[j].stage = "DISPATCH" => window[i].stage \in Back \cup {"DISPATCH"}
    /\ window[j].stage = "RENAME2" => window[i].stage # "FQ"

Limits ==
  /\ Cardinality(In({"FQ"})) <= FrontSize
  /\ Cardinality(In({"RENAME2"})) <= DispatchWidth
  /\ Cardinality(In({"DISPATCH"})) <= DispatchWidth
  /\ Cardinality(In(Back)) <= NActive

\* The entry n instructions behind the head
At(head, n) == (head + 2 * n) % PayloadSize

\* PayloadInStep without the bound, which follows from Limits
InStep ==
  /\ pay.length = 2 * Len(window)
  /\ pay.tail = At(pay.head, Len(window))
  /\ \A i \in 1 .. Len(window) : window[i].index = At(pay.head, i - 1)

IInv == FlowOK /\ NothingBehindSerializing /\ Ordered /\ Limits /\ InStep

-----------------------------------------------------------------------------
(* Sizes and counts *)

LEMMA Sizes ==
  /\ DispatchWidth \in Nat \ {0} /\ NActive \in Nat \ {0} /\ FrontSize \in Nat \ {0}
  /\ MaxInFlight \in Nat \ {0} /\ MaxInFlight > NActive
  /\ PayloadSize \in Nat \ {0} /\ 2 * MaxInFlight <= PayloadSize
<1>1. DispatchWidth \in Nat \ {0} /\ NActive \in Nat \ {0} /\ FrontSize \in Nat \ {0}
  BY BundlesAssumption
<1>2. MaxInFlight \in Nat \ {0} /\ MaxInFlight > NActive
  BY <1>1 DEF MaxInFlight
<1> DEFINE sizes == {2 ^ k : k \in 0 .. 2 * MaxInFlight}
<1>3. /\ sizes \subseteq Nat
      /\ \E size \in sizes : 2 * MaxInFlight <= size /\ size < 4 * MaxInFlight
  BY PayloadAssumption
<1>4. PayloadSize = CHOOSE size \in sizes : 2 * MaxInFlight <= size /\ size < 4 * MaxInFlight
  BY DEF PayloadSize
<1> HIDE DEF sizes
<1>5. PayloadSize \in sizes /\ 2 * MaxInFlight <= PayloadSize
  BY <1>3, <1>4, Zenon
<1>6. PayloadSize \in Nat
  BY <1>3, <1>5
<1>7. PayloadSize # 0
  BY <1>2, <1>5, <1>6
<1> QED BY <1>1, <1>2, <1>5, <1>6, <1>7

LEMMA IndexType ==
  ASSUME NEW a \in Int
  PROVE  a % PayloadSize \in Indices
<1>1. \A n \in Nat \ {0} : a % n \in 0 .. n - 1
  OBVIOUS
<1> QED BY <1>1, Sizes DEF Indices

LEMMA InFinite ==
  ASSUME FlowOK, NEW stages
  PROVE  /\ IsFiniteSet(In(stages)) /\ Cardinality(In(stages)) \in Nat
         /\ In(stages) \subseteq 1 .. Len(window)
<1>1. Len(window) \in Int /\ In(stages) \subseteq 1 .. Len(window)
  BY DEF FlowOK, In
<1>2. IsFiniteSet(1 .. Len(window))
  BY <1>1, FS_Interval
<1> QED BY <1>1, <1>2, FS_Subset, FS_CardinalityType

\* The resources of all stages together bound the instructions in flight.
LEMMA InFlightBounded ==
  ASSUME IInv
  PROVE  /\ Len(window) <= Cardinality(In({"FQ"})) + 2 * DispatchWidth + NActive
         /\ Len(window) <= MaxInFlight
<1> DEFINE FQ == In({"FQ"})
           R2 == In({"RENAME2"})
           D  == In({"DISPATCH"})
           B  == In(Back)
           n  == Len(window)
<1>1. n \in Nat /\ \A i \in 1 .. n : window[i].stage \in Stages
  <2>1. n \in Nat /\ \A i \in 1 .. n : window[i] \in Entry
    BY DEF IInv, FlowOK
  <2> QED BY <2>1 DEF Entry
<1>2. 1 .. n = (FQ \cup R2) \cup (D \cup B)
  BY <1>1 DEF In, Stages, Back
<1>3. /\ IsFiniteSet(FQ) /\ Cardinality(FQ) \in Nat
      /\ IsFiniteSet(R2) /\ Cardinality(R2) \in Nat
      /\ IsFiniteSet(D) /\ Cardinality(D) \in Nat
      /\ IsFiniteSet(B) /\ Cardinality(B) \in Nat
  BY InFinite DEF IInv
<1>4. \A S, T : IsFiniteSet(S) /\ IsFiniteSet(T) =>
        /\ IsFiniteSet(S \cup T)
        /\ Cardinality(S \cup T) <= Cardinality(S) + Cardinality(T)
  <2> SUFFICES ASSUME NEW S, NEW T, IsFiniteSet(S), IsFiniteSet(T)
               PROVE  /\ IsFiniteSet(S \cup T)
                      /\ Cardinality(S \cup T) <= Cardinality(S) + Cardinality(T)
    OBVIOUS
  <2>1. /\ IsFiniteSet(S \cup T)
        /\ Cardinality(S \cup T) = Cardinality(S) + Cardinality(T) - Cardinality(S \cap T)
    BY FS_Union
  <2>2. /\ Cardinality(S \cap T) \in Nat /\ Cardinality(S) \in Nat /\ Cardinality(T) \in Nat
    BY FS_Intersection, FS_CardinalityType
  <2> QED BY <2>1, <2>2
<1>5. Cardinality(1 .. n) = n
  <2>1. 1 \in Int /\ n \in Int
    BY <1>1
  <2>2. Cardinality(1 .. n) = IF 1 > n THEN 0 ELSE n - 1 + 1
    BY <2>1, FS_Interval
  <2> QED BY <1>1, <2>2
<1>6. /\ Cardinality(FQ) <= FrontSize /\ Cardinality(R2) <= DispatchWidth
      /\ Cardinality(D) <= DispatchWidth /\ Cardinality(B) <= NActive
  BY DEF IInv, Limits
<1> HIDE DEF FQ, R2, D, B
<1>7. /\ IsFiniteSet(FQ \cup R2) /\ IsFiniteSet(D \cup B)
      /\ Cardinality(FQ \cup R2) <= Cardinality(FQ) + Cardinality(R2)
      /\ Cardinality(D \cup B) <= Cardinality(D) + Cardinality(B)
  BY <1>3, <1>4
<1>8. /\ Cardinality(FQ \cup R2) \in Nat /\ Cardinality(D \cup B) \in Nat
      /\ Cardinality(1 .. n) <= Cardinality(FQ \cup R2) + Cardinality(D \cup B)
  BY <1>2, <1>4, <1>7, FS_CardinalityType
<1>9. n <= Cardinality(FQ) + 2 * DispatchWidth + NActive
  BY <1>1, <1>3, <1>5, <1>6, <1>7, <1>8, Sizes
<1>10. n <= MaxInFlight
  BY <1>1, <1>3, <1>6, <1>9, Sizes DEF MaxInFlight
<1> QED BY <1>9, <1>10 DEF FQ

\* The first instructions of a set that have less than n before them are at
\* most n.
LEMMA FirstOnes ==
  ASSUME NEW m \in Nat, NEW S, S \subseteq 1 .. m, NEW n \in Nat
  PROVE  Cardinality({i \in S : Cardinality({j \in S : j < i}) < n}) <= n
<1> DEFINE Before(i) == {j \in S : j < i}
           T == {i \in S : Cardinality(Before(i)) < n}
<1>1. IsFiniteSet(S) /\ IsFiniteSet(T)
  <2>1. IsFiniteSet(1 .. m)
    BY FS_Interval
  <2>2. IsFiniteSet(S)
    BY <2>1, FS_Subset
  <2> QED BY <2>2, FS_Subset
<1>2. Cardinality(T) <= n
  <2>1. T \subseteq S /\ \A i \in T : Cardinality(Before(i)) < n
    OBVIOUS
  <2> HIDE DEF T
  <2>2. T \subseteq 0 .. m
    BY <2>1
  <2>3. CASE T = {}
    BY <2>3, FS_EmptySet
  <2>4. CASE T # {}
    <3>1. PICK p \in T : \A k \in T : k <= p
      BY <2>2, <2>4, Greatest
    <3>2. p \in S /\ Cardinality(Before(p)) < n
      BY <2>1
    <3>3. T \ {p} \subseteq Before(p) /\ Before(p) \subseteq S
      BY <2>1, <2>2, <3>1
    <3>4. IsFiniteSet(Before(p)) /\ Cardinality(T \ {p}) <= Cardinality(Before(p))
      BY <1>1, <3>3, FS_Subset
    <3>5. Cardinality(T \ {p}) = Cardinality(T) - 1
      BY <1>1, FS_RemoveElement
    <3>6. Cardinality(T) \in Nat /\ Cardinality(Before(p)) \in Nat
      BY <1>1, <3>4, FS_CardinalityType
    <3> HIDE DEF Before
    <3> QED BY <3>2, <3>4, <3>5, <3>6
  <2> QED BY <2>3, <2>4
<1> QED BY <1>2

-----------------------------------------------------------------------------
(* The arithmetic of the payload buffer *)

LEMMA AtIs ==
  ASSUME NEW head \in Indices, NEW n \in Nat, 2 * n <= PayloadSize
  PROVE  /\ At(head, n) \in Indices
         /\ At(head, n) = IF head + 2 * n < PayloadSize THEN head + 2 * n
                    ELSE head + 2 * n - PayloadSize
<1>1. PayloadSize \in Nat \ {0} /\ head \in 0 .. PayloadSize - 1
  BY Sizes DEF Indices
<1>2. head + 2 * n \in 0 .. 2 * PayloadSize - 1
  BY <1>1
<1> DEFINE x == head + 2 * n
<1> HIDE DEF x
<1>3. x % PayloadSize = IF x < PayloadSize THEN x ELSE x - PayloadSize
  BY <1>1, <1>2, Wraps DEF x
<1>4. At(head, n) = x % PayloadSize
  BY DEF At, x
<1> QED BY <1>1, <1>2, <1>3, <1>4 DEF Indices, x

\* push() and rollback() go to the entry behind the one given.
LEMMA NextEntry ==
  ASSUME NEW head \in Indices, NEW n \in Nat, 2 * (n + 1) <= PayloadSize
  PROVE  (At(head, n) + 2) % PayloadSize = At(head, n + 1)
<1>1. PayloadSize \in Nat \ {0} /\ head \in 0 .. PayloadSize - 1
      /\ n + 1 \in Nat /\ 2 * n <= PayloadSize
  BY Sizes DEF Indices
<1>2. At(head, n) = IF head + 2 * n < PayloadSize THEN head + 2 * n
              ELSE head + 2 * n - PayloadSize
  BY <1>1, AtIs
<1>3. At(head, n + 1) = IF head + 2 * (n + 1) < PayloadSize THEN head + 2 * (n + 1)
                  ELSE head + 2 * (n + 1) - PayloadSize
  BY <1>1, AtIs
<1> DEFINE x == At(head, n) + 2
<1>4. /\ x \in 0 .. 2 * PayloadSize - 1
      /\ At(head, n + 1) = IF x < PayloadSize THEN x ELSE x - PayloadSize
  BY <1>1, <1>2, <1>3
<1> HIDE DEF x
<1>5. x % PayloadSize = At(head, n + 1)
  BY <1>1, <1>4, Wraps
<1> QED BY <1>5 DEF x

\* rollback(): the length is right as long as the buffer is not full.
LEMMA RolledBackLength ==
  ASSUME NEW head \in Indices, NEW n \in Nat, 2 * n < PayloadSize
  PROVE  (PayloadSize + At(head, n) - head) % PayloadSize = 2 * n
<1>1. PayloadSize \in Nat \ {0} /\ head \in 0 .. PayloadSize - 1
      /\ 2 * n <= PayloadSize
  BY Sizes DEF Indices
<1>2. At(head, n) = IF head + 2 * n < PayloadSize THEN head + 2 * n
              ELSE head + 2 * n - PayloadSize
  BY <1>1, AtIs
<1> DEFINE x == PayloadSize + At(head, n) - head
<1>3. x \in 0 .. 2 * PayloadSize - 1 /\ (x = 2 * n \/ x = PayloadSize + 2 * n)
  BY <1>1, <1>2
<1> HIDE DEF x
<1>4. x % PayloadSize = IF x < PayloadSize THEN x ELSE x - PayloadSize
  BY <1>1, <1>3, Wraps
<1>5. x % PayloadSize = 2 * n
  BY <1>1, <1>3, <1>4
<1> QED BY <1>5 DEF x

\* pop() twice: the entries stay where they are.
LEMMA PoppedAt ==
  ASSUME NEW head \in Indices, NEW n \in Nat, 2 * (n + 1) <= PayloadSize
  PROVE  (((head + 2) % PayloadSize) + 2 * n) % PayloadSize = At(head, n + 1)
<1>1. PayloadSize \in Nat \ {0} /\ head \in 0 .. PayloadSize - 1
  BY Sizes DEF Indices
<1>2. At(head, n + 1) = IF head + 2 * (n + 1) < PayloadSize THEN head + 2 * (n + 1)
                  ELSE head + 2 * (n + 1) - PayloadSize
  <2>1. n + 1 \in Nat
    OBVIOUS
  <2> QED BY <2>1, AtIs
<1> DEFINE x == head + 2
           y == (x % PayloadSize) + 2 * n
<1>3. x \in 0 .. 2 * PayloadSize - 1
  BY <1>1
<1> HIDE DEF x
<1>4. x % PayloadSize = IF x < PayloadSize THEN x ELSE x - PayloadSize
  BY <1>1, <1>3, Wraps
<1>5. /\ y \in 0 .. 2 * PayloadSize - 1
      /\ At(head, n + 1) = IF y < PayloadSize THEN y ELSE y - PayloadSize
  BY <1>1, <1>2, <1>4 DEF x
<1> HIDE DEF y
<1>6. y % PayloadSize = At(head, n + 1)
  BY <1>1, <1>5, Wraps
<1> QED BY <1>6 DEF x, y

-----------------------------------------------------------------------------
(* Stages move instructions *)

LEMMA EntryOf ==
  ASSUME FlowOK, NEW i \in 1 .. Len(window)
  PROVE  /\ window[i] \in Entry /\ window[i].kind \in Kinds
         /\ window[i].stage \in Stages /\ window[i].index \in Indices
<1>1. window[i] \in Entry
  BY DEF FlowOK
<1> QED BY <1>1 DEF Entry

\* The stages keep the number, the order, the kinds and the entries of the
\* instructions.
LEMMA MovedWindow ==
  ASSUME FlowOK, NEW from, NEW to \in Stages
  PROVE  /\ Moved(from, to) \in Seq(Entry)
         /\ Len(Moved(from, to)) = Len(window)
         /\ \A i \in 1 .. Len(window) :
              /\ Moved(from, to)[i].kind = window[i].kind
              /\ Moved(from, to)[i].index = window[i].index
              /\ i \in from => Moved(from, to)[i].stage = to
              /\ i \notin from => Moved(from, to)[i].stage = window[i].stage
<1> DEFINE Entry1(i) == [window[i] EXCEPT !.stage = to]
           new == [i \in 1 .. Len(window) |-> IF i \in from THEN Entry1(i) ELSE window[i]]
<1>1. ASSUME NEW i \in 1 .. Len(window)
      PROVE  /\ window[i] \in Entry /\ Entry1(i) \in Entry
             /\ Entry1(i).kind = window[i].kind /\ Entry1(i).index = window[i].index
             /\ Entry1(i).stage = to
  <2>1. window[i] \in Entry
    BY EntryOf
  <2> QED BY <2>1 DEF Entry
<1>2. Len(window) \in Nat
  BY DEF FlowOK
<1> HIDE DEF Entry1
<1>3. \A i \in 1 .. Len(window) :
        /\ new[i] \in Entry
        /\ new[i].kind = window[i].kind
        /\ new[i].index = window[i].index
        /\ i \in from => new[i].stage = to
        /\ i \notin from => new[i].stage = window[i].stage
  BY <1>1
<1>4. new \in [1 .. Len(window) -> Entry]
  BY <1>3
<1>5. new \in Seq(Entry) /\ Len(new) = Len(window)
  BY <1>2, <1>4
<1>6. Moved(from, to) = new
  BY DEF Moved, Entry1
<1> QED BY <1>3, <1>5, <1>6

LEMMA MovedIn ==
  ASSUME FlowOK, NEW from, NEW to \in Stages, window' = Moved(from, to),
         from \subseteq 1 .. Len(window), NEW stages
  PROVE  In(stages)' = IF to \in stages THEN In(stages) \cup from
                       ELSE In(stages) \ from
<1> DEFINE moved == Moved(from, to)
<1>1. /\ Len(moved) = Len(window)
      /\ \A i \in 1 .. Len(window) :
           /\ i \in from => moved[i].stage = to
           /\ i \notin from => moved[i].stage = window[i].stage
  BY MovedWindow
<1>2. window' = moved
  OBVIOUS
<1> HIDE DEF moved
<1> QED BY <1>1, <1>2 DEF In

\* What a step that only moves instructions preserves, whatever it moves
LEMMA MoveStep ==
  ASSUME IInv, NEW from, NEW to \in Stages, window' = Moved(from, to),
         UNCHANGED <<fetch_active, pay>>
  PROVE  FlowOK' /\ NothingBehindSerializing' /\ InStep'
<1>1. FlowOK
  BY DEF IInv
<1>2. /\ window' \in Seq(Entry) /\ Len(window') = Len(window)
      /\ \A i \in 1 .. Len(window) : /\ window'[i].kind = window[i].kind
                                     /\ window'[i].index = window[i].index
  BY <1>1, MovedWindow
<1>3. FlowOK'
  BY <1>2 DEF IInv, FlowOK
<1>4. NothingBehindSerializing'
  BY <1>2 DEF IInv, NothingBehindSerializing
<1>5. InStep'
  BY <1>2 DEF IInv, InStep
<1> QED BY <1>3, <1>4, <1>5

\* A stage that only loses instructions keeps within its limit.
LEMMA LimitKept ==
  ASSUME FlowOK, NEW limit \in Nat, NEW stages,
         Cardinality(In(stages)) <= limit, In(stages)' \subseteq In(stages)
  PROVE  Cardinality(In(stages)') <= limit
<1> DEFINE new == In(stages)'
           old == In(stages)
<1>1. IsFiniteSet(old) /\ Cardinality(old) \in Nat /\ new \subseteq old
  BY InFinite
<1>2. Cardinality(old) <= limit
  OBVIOUS
<1> HIDE DEF new, old
<1>3. Cardinality(new) <= Cardinality(old) /\ Cardinality(new) \in Nat
  BY <1>1, FS_Subset, FS_CardinalityType
<1>4. Cardinality(new) <= limit
  BY <1>1, <1>2, <1>3
<1> QED BY <1>4 DEF new

LEMMA LimitsKept ==
  ASSUME FlowOK, Limits,
         In({"FQ"})' \subseteq In({"FQ"}), In({"RENAME2"})' \subseteq In({"RENAME2"}),
         In({"DISPATCH"})' \subseteq In({"DISPATCH"}), In(Back)' \subseteq In(Back)
  PROVE  Limits'
<1>1. FrontSize \in Nat /\ DispatchWidth \in Nat /\ NActive \in Nat
  BY Sizes
<1>2. Cardinality(In({"FQ"})') <= FrontSize
  BY <1>1, LimitKept DEF Limits
<1>3. Cardinality(In({"RENAME2"})') <= DispatchWidth
  BY <1>1, LimitKept DEF Limits
<1>4. Cardinality(In({"DISPATCH"})') <= DispatchWidth
  BY <1>1, LimitKept DEF Limits
<1>5. Cardinality(In(Back)') <= NActive
  BY <1>1, LimitKept DEF Limits
<1> QED BY <1>2, <1>3, <1>4, <1>5 DEF Limits

LEMMA Rename1Step ==
  ASSUME IInv, Rename1
  PROVE  IInv'
<1> DEFINE queue == In({"FQ"})
           bundle == {i \in queue : Cardinality({j \in queue : j < i}) < DispatchWidth}
<1>1. /\ window' = Moved(bundle, "RENAME2") /\ UNCHANGED <<fetch_active, pay>>
      /\ In({"RENAME2"}) = {}
  BY DEF Rename1
<1>2. FlowOK /\ bundle \subseteq In({"FQ"}) /\ Len(window) \in Nat
      /\ DispatchWidth \in Nat /\ "RENAME2" \in Stages
  BY Sizes DEF IInv, FlowOK, Stages
<1>3. Cardinality(bundle) <= DispatchWidth
  BY <1>2, InFinite, FirstOnes
<1>4. ASSUME NEW i, NEW j \in bundle, i \in In({"FQ"}), i < j
      PROVE  i \in bundle
  <2> DEFINE Before(k) == {q \in queue : q < k}
  <2>1. i \in Int /\ j \in Int /\ queue \subseteq Int
    BY <1>2, <1>4 DEF In
  <2>2. Before(i) \subseteq Before(j) /\ Before(j) \subseteq In({"FQ"})
    BY <1>4, <2>1
  <2>3. IsFiniteSet(Before(j))
    BY <1>2, <2>2, InFinite, FS_Subset
  <2>4. Cardinality(Before(i)) <= Cardinality(Before(j))
        /\ Cardinality(Before(i)) \in Nat /\ Cardinality(Before(j)) \in Nat
    BY <2>2, <2>3, FS_Subset, FS_CardinalityType
  <2>5. Cardinality(Before(j)) < DispatchWidth
    BY <1>4
  <2>6. Cardinality(Before(i)) < DispatchWidth
    <3> HIDE DEF Before
    <3> QED BY <1>2, <2>4, <2>5
  <2> QED BY <1>4, <2>6
<1> HIDE DEF bundle
<1>5. bundle \subseteq 1 .. Len(window)
  BY <1>2 DEF In
<1>6. FlowOK' /\ NothingBehindSerializing' /\ InStep'
  BY <1>1, <1>2, <1>5, MoveStep
<1>7. /\ In({"FQ"})' \subseteq In({"FQ"}) /\ In({"RENAME2"})' = bundle
      /\ In({"DISPATCH"})' \subseteq In({"DISPATCH"}) /\ In(Back)' \subseteq In(Back)
  <2>1. "RENAME2" \notin {"FQ"} \cup {"DISPATCH"} \cup Back
    BY DEF Back
  <2>2. In({"RENAME2"})' = In({"RENAME2"}) \cup bundle
    <3>1. "RENAME2" \in {"RENAME2"}
      OBVIOUS
    <3> QED BY <1>1, <1>2, <1>5, <3>1, MovedIn
  <2>3. In({"RENAME2"})' = bundle
    BY <1>1, <2>2
  <2>4. In({"FQ"})' = In({"FQ"}) \ bundle
    BY <1>1, <1>2, <1>5, <2>1, MovedIn
  <2>5. In({"DISPATCH"})' = In({"DISPATCH"}) \ bundle
    BY <1>1, <1>2, <1>5, <2>1, MovedIn
  <2>6. In(Back)' = In(Back) \ bundle
    BY <1>1, <1>2, <1>5, <2>1, MovedIn
  <2> QED BY <2>3, <2>4, <2>5, <2>6
<1>8. Limits'
  <2>1. FrontSize \in Nat /\ DispatchWidth \in Nat /\ NActive \in Nat /\ Limits
    BY Sizes DEF IInv
  <2>2. Cardinality(In({"FQ"})') <= FrontSize
    BY <1>2, <1>7, <2>1, LimitKept DEF Limits
  <2>3. Cardinality(In({"RENAME2"})') <= DispatchWidth
    BY <1>3, <1>7
  <2>4. Cardinality(In({"DISPATCH"})') <= DispatchWidth
    BY <1>2, <1>7, <2>1, LimitKept DEF Limits
  <2>5. Cardinality(In(Back)') <= NActive
    BY <1>2, <1>7, <2>1, LimitKept DEF Limits
  <2> QED BY <2>2, <2>3, <2>4, <2>5 DEF Limits
<1>9. Ordered'
  <2>1. /\ Len(window') = Len(window)
        /\ \A i \in 1 .. Len(window) :
             window'[i].stage = IF i \in bundle THEN "RENAME2" ELSE window[i].stage
    BY <1>1, <1>2, <1>5, MovedWindow
  <2>2. \A i \in bundle : window[i].stage = "FQ"
    BY <1>2 DEF In
  <2>3. \A i \in 1 .. Len(window) : window[i].stage # "RENAME2"
    BY <1>1 DEF In
  <2>4. \A i, j \in 1 .. Len(window) :
          i < j /\ j \in bundle => i \in bundle \/ window[i].stage # "FQ"
    BY <1>4 DEF In
  <2> QED BY <2>1, <2>2, <2>3, <2>4 DEF IInv, Ordered, Back
<1> QED BY <1>6, <1>8, <1>9 DEF IInv

LEMMA Rename2Step ==
  ASSUME IInv, Rename2
  PROVE  IInv'
<1> DEFINE bundle == In({"RENAME2"})
<1>1. /\ window' = Moved(bundle, "DISPATCH") /\ UNCHANGED <<fetch_active, pay>>
      /\ In({"DISPATCH"}) = {}
  BY DEF Rename2
<1>2. FlowOK /\ bundle \subseteq 1 .. Len(window) /\ "DISPATCH" \in Stages
  BY DEF IInv, In, Stages
<1>3. FlowOK' /\ NothingBehindSerializing' /\ InStep'
  BY <1>1, <1>2, MoveStep
<1>4. /\ In({"FQ"})' \subseteq In({"FQ"}) /\ In({"RENAME2"})' \subseteq In({"RENAME2"})
      /\ In({"DISPATCH"})' = bundle /\ In(Back)' \subseteq In(Back)
  <2>1. "DISPATCH" \notin {"FQ"} \cup {"RENAME2"} \cup Back
    BY DEF Back
  <2>2. In({"DISPATCH"})' = bundle
    <3>1. In({"DISPATCH"})' = In({"DISPATCH"}) \cup bundle
      BY <1>1, <1>2, MovedIn
    <3> QED BY <1>1, <3>1
  <2> QED BY <1>1, <1>2, <2>1, <2>2, MovedIn
<1>5. Limits'
  <2>1. FrontSize \in Nat /\ DispatchWidth \in Nat /\ NActive \in Nat /\ Limits
    BY Sizes DEF IInv
  <2>2. Cardinality(In({"FQ"})') <= FrontSize
    BY <1>2, <1>4, <2>1, LimitKept DEF Limits
  <2>3. Cardinality(In({"RENAME2"})') <= DispatchWidth
    BY <1>2, <1>4, <2>1, LimitKept DEF Limits
  <2>4. Cardinality(In({"DISPATCH"})') <= DispatchWidth
    BY <1>4, <2>1 DEF Limits
  <2>5. Cardinality(In(Back)') <= NActive
    BY <1>2, <1>4, <2>1, LimitKept DEF Limits
  <2> QED BY <2>2, <2>3, <2>4, <2>5 DEF Limits
<1>6. Ordered'
  <2>1. /\ Len(window') = Len(window)
        /\ \A i \in 1 .. Len(window) :
             window'[i].stage = IF i \in bundle THEN "DISPATCH" ELSE window[i].stage
    BY <1>1, <1>2, MovedWindow
  <2>2. \A i \in 1 .. Len(window) : i \in bundle <=> window[i].stage = "RENAME2"
    BY DEF In
  <2>3. \A i \in 1 .. Len(window) : window[i].stage # "DISPATCH" /\ window[i].stage \in Stages
    BY <1>1, <1>2, EntryOf DEF In
  <2> HIDE DEF bundle
  <2> QED BY <2>1, <2>2, <2>3 DEF IInv, Ordered, Back, Stages
<1> QED BY <1>3, <1>5, <1>6 DEF IInv

\* stall_dispatch(): there is room for a full bundle.
LEMMA DispatchStep ==
  ASSUME IInv, Dispatch
  PROVE  IInv'
<1> DEFINE bundle == In({"DISPATCH"})
<1>1. /\ window' = Moved(bundle, "active") /\ UNCHANGED <<fetch_active, pay>>
      /\ NActive - Cardinality(In(Back)) >= DispatchWidth
  <2>1. FlowOK /\ DispatchWidth \in Int /\ NActive \in Int
    BY Sizes DEF IInv
  <2>2. Cardinality(In(Back)) \in Nat
    BY <2>1, InFinite
  <2>3. ~(NActive - Cardinality(In(Back)) < DispatchWidth)
    BY DEF Dispatch, DispatchStall, Back
  <2>4. NActive - Cardinality(In(Back)) >= DispatchWidth
    BY <2>1, <2>2, <2>3
  <2> QED BY <2>4 DEF Dispatch
<1>2. FlowOK /\ bundle \subseteq 1 .. Len(window) /\ "active" \in Stages
  BY DEF IInv, In, Stages
<1>3. FlowOK' /\ NothingBehindSerializing' /\ InStep'
  BY <1>1, <1>2, MoveStep
<1>4. /\ In({"FQ"})' \subseteq In({"FQ"}) /\ In({"RENAME2"})' \subseteq In({"RENAME2"})
      /\ In({"DISPATCH"})' \subseteq In({"DISPATCH"}) /\ In(Back)' = In(Back) \cup bundle
  <2>1. "active" \notin {"FQ"} \cup {"RENAME2"} \cup {"DISPATCH"} /\ "active" \in Back
    BY DEF Back
  <2> QED BY <1>1, <1>2, <2>1, MovedIn
<1>5. Cardinality(In(Back) \cup bundle) <= NActive
  <2>1. /\ IsFiniteSet(In(Back)) /\ IsFiniteSet(bundle)
        /\ Cardinality(In(Back)) \in Nat /\ Cardinality(bundle) \in Nat
    BY <1>2, InFinite
  <2>2. /\ Cardinality(In(Back) \cup bundle)
             = Cardinality(In(Back)) + Cardinality(bundle) - Cardinality(In(Back) \cap bundle)
        /\ Cardinality(In(Back) \cap bundle) \in Nat
    BY <2>1, FS_Union, FS_Intersection, FS_CardinalityType
  <2>3. Cardinality(bundle) <= DispatchWidth
    BY DEF IInv, Limits
  <2> HIDE DEF bundle
  <2> QED BY <1>1, <2>1, <2>2, <2>3, Sizes
<1>6. Limits'
  <2>1. FrontSize \in Nat /\ DispatchWidth \in Nat /\ NActive \in Nat /\ Limits
    BY Sizes DEF IInv
  <2>2. Cardinality(In({"FQ"})') <= FrontSize
    BY <1>2, <1>4, <2>1, LimitKept DEF Limits
  <2>3. Cardinality(In({"RENAME2"})') <= DispatchWidth
    BY <1>2, <1>4, <2>1, LimitKept DEF Limits
  <2>4. Cardinality(In({"DISPATCH"})') <= DispatchWidth
    BY <1>2, <1>4, <2>1, LimitKept DEF Limits
  <2>5. Cardinality(In(Back)') <= NActive
    BY <1>4, <1>5
  <2> QED BY <2>2, <2>3, <2>4, <2>5 DEF Limits
<1>7. Ordered'
  <2>1. /\ Len(window') = Len(window)
        /\ \A i \in 1 .. Len(window) :
             window'[i].stage = IF i \in bundle THEN "active" ELSE window[i].stage
    BY <1>1, <1>2, MovedWindow
  <2>2. \A i \in 1 .. Len(window) : i \in bundle <=> window[i].stage = "DISPATCH"
    BY DEF In
  <2> HIDE DEF bundle
  <2> QED BY <2>1, <2>2 DEF IInv, Ordered, Back
<1> QED BY <1>3, <1>6, <1>7 DEF IInv

LEMMA CompleteStep ==
  ASSUME IInv, NEW i \in 1 .. Len(window), Complete(i)
  PROVE  IInv'
<1>1. /\ window' = Moved({i}, "completed") /\ UNCHANGED <<fetch_active, pay>>
      /\ i \in In(Back)
  BY DEF Complete, In, Back
<1>2. FlowOK /\ {i} \subseteq 1 .. Len(window) /\ "completed" \in Stages
  BY DEF IInv, Stages
<1>3. FlowOK' /\ NothingBehindSerializing' /\ InStep'
  BY <1>1, <1>2, MoveStep
<1>4. /\ In({"FQ"})' \subseteq In({"FQ"}) /\ In({"RENAME2"})' \subseteq In({"RENAME2"})
      /\ In({"DISPATCH"})' \subseteq In({"DISPATCH"}) /\ In(Back)' \subseteq In(Back)
  <2>1. "completed" \notin {"FQ"} \cup {"RENAME2"} \cup {"DISPATCH"} /\ "completed" \in Back
    BY DEF Back
  <2> QED BY <1>1, <1>2, <2>1, MovedIn
<1>5. Limits'
  BY <1>2, <1>4, LimitsKept DEF IInv
<1>6. Ordered'
  <2>1. /\ Len(window') = Len(window)
        /\ \A j \in 1 .. Len(window) :
             window'[j].stage = IF j = i THEN "completed" ELSE window[j].stage
    BY <1>1, <1>2, MovedWindow
  <2>2. window[i].stage \in Back
    BY <1>1 DEF In
  <2> QED BY <2>1, <2>2 DEF IInv, Ordered, Back
<1> QED BY <1>3, <1>5, <1>6 DEF IInv

-----------------------------------------------------------------------------
(* Fetch and squash *)

LEMMA FetchStep ==
  ASSUME IInv, NEW kind \in Kinds, Fetch(kind)
  PROVE  IInv'
<1> DEFINE new == [kind |-> kind, stage |-> "FQ", index |-> pay.tail]
           n   == Len(window)
<1>1. /\ window \in Seq(Entry) /\ n \in Nat /\ pay \in PayType /\ FlowOK
      /\ kind.serializing \in BOOLEAN
  BY BundlesAssumption DEF IInv, FlowOK, Kind
<1>2. new \in Entry /\ new.kind = kind /\ new.stage = "FQ" /\ new.index = pay.tail
  BY <1>1 DEF Entry, PayType, Stages
<1>3. /\ window' = Append(window, new) /\ pay' = Pushed /\ fetch_active
      /\ fetch_active' = ~kind.serializing
      /\ Cardinality(In({"FQ"})) < FrontSize
  BY DEF Fetch
<1> HIDE DEF new
<1>4. /\ window' \in Seq(Entry) /\ Len(window') = n + 1
      /\ window'[n + 1] = new
      /\ \A i \in 1 .. n : window'[i] = window[i]
  BY <1>1, <1>2, <1>3
<1>5. 2 * (n + 1) <= PayloadSize
  <2>1. n <= Cardinality(In({"FQ"})) + 2 * DispatchWidth + NActive
    BY InFlightBounded
  <2>2. Cardinality(In({"FQ"})) \in Nat
    BY <1>1, InFinite
  <2> QED BY <1>1, <1>3, <2>1, <2>2, Sizes DEF MaxInFlight
<1>6. /\ pay.head \in Indices /\ pay.length = 2 * n /\ pay.tail = At(pay.head, n)
      /\ \A i \in 1 .. n : window[i].index = At(pay.head, i - 1)
  BY <1>1 DEF IInv, InStep, PayType
<1>7. /\ pay'.head = pay.head /\ pay'.length = 2 * (n + 1)
      /\ pay'.tail = At(pay.head, n + 1)
      /\ pay' \in PayType
  <2>1. (pay.tail + 2) % PayloadSize = At(pay.head, n + 1)
    BY <1>1, <1>5, <1>6, NextEntry
  <2>2. At(pay.head, n + 1) \in Indices
    <3>1. n + 1 \in Nat
      BY <1>1
    <3> QED BY <1>5, <1>6, <3>1, AtIs
  <2>3. pay' = [pay EXCEPT !.tail = At(pay.head, n + 1), !.length = pay.length + 2]
    BY <1>3, <2>1 DEF Pushed
  <2>4. pay.length + 2 = 2 * (n + 1) /\ 2 * (n + 1) \in Int
    BY <1>1, <1>6
  <2> QED BY <1>1, <2>2, <2>3, <2>4 DEF PayType
<1>8. FlowOK'
  BY <1>1, <1>3, <1>4, <1>7 DEF FlowOK
<1>9. NothingBehindSerializing'
  <2>1. \A i \in 1 .. n : ~window[i].kind.serializing
    BY <1>3 DEF IInv, NothingBehindSerializing
  <2> SUFFICES ASSUME NEW i \in 1 .. n + 1, window'[i].kind.serializing
               PROVE  i = n + 1 /\ ~fetch_active'
    BY <1>4 DEF NothingBehindSerializing
  <2>2. i = n + 1
    BY <1>1, <1>4, <2>1
  <2>3. kind.serializing
    BY <1>2, <1>4, <2>2
  <2> QED BY <1>3, <2>2, <2>3
<1>10. InStep'
  <2>1. \A i \in 1 .. n + 1 : window'[i].index = At(pay.head, i - 1)
    <3> SUFFICES ASSUME NEW i \in 1 .. n + 1
                 PROVE  window'[i].index = At(pay.head, i - 1)
      OBVIOUS
    <3>1. CASE i \in 1 .. n
      BY <1>4, <1>6, <3>1
    <3>2. CASE i = n + 1
      <4>1. i - 1 = n
        BY <1>1, <3>2
      <4> QED BY <1>2, <1>4, <1>6, <3>2, <4>1
    <3> QED BY <1>1, <3>1, <3>2
  <2> QED BY <1>4, <1>7, <2>1 DEF InStep
<1>11. Ordered'
  BY <1>1, <1>2, <1>4 DEF IInv, Ordered, Back
<1>12. Limits'
  <2>1. ASSUME NEW stages, "FQ" \notin stages
        PROVE  In(stages)' = In(stages)
    BY <1>1, <1>2, <1>4, <2>1 DEF In
  <2>2. In({"FQ"})' = In({"FQ"}) \cup {n + 1} /\ n + 1 \notin In({"FQ"})
    BY <1>1, <1>2, <1>4 DEF In
  <2>3. /\ Cardinality(In({"FQ"}) \cup {n + 1}) = Cardinality(In({"FQ"})) + 1
        /\ Cardinality(In({"FQ"})) \in Nat
    BY <1>1, <2>2, InFinite, FS_AddElement
  <2>4. Cardinality(In({"FQ"}) \cup {n + 1}) <= FrontSize
    BY <1>3, <2>3, Sizes
  <2>5. /\ In({"RENAME2"})' = In({"RENAME2"}) /\ In({"DISPATCH"})' = In({"DISPATCH"})
        /\ In(Back)' = In(Back)
    BY <2>1 DEF Back
  <2> QED BY <2>2, <2>4, <2>5 DEF IInv, Limits
<1> QED BY <1>8, <1>9, <1>10, <1>11, <1>12 DEF IInv

\* A branch that resolves is in the active list with everything before it: there
\* are not enough instructions before it to fill the payload buffer.
LEMMA MispredictStep ==
  ASSUME IInv, NEW i \in 1 .. Len(window), Mispredict(i)
  PROVE  IInv'
<1> DEFINE moved == Moved({i}, "completed")
<1>1. /\ window \in Seq(Entry) /\ Len(window) \in Nat
      /\ pay \in PayType /\ FlowOK
  BY DEF IInv, FlowOK
<1>2. /\ moved \in Seq(Entry) /\ Len(moved) = Len(window)
      /\ \A j \in 1 .. Len(window) :
           /\ moved[j].kind = window[j].kind /\ moved[j].index = window[j].index
           /\ j = i => moved[j].stage = "completed"
           /\ j # i => moved[j].stage = window[j].stage
  BY <1>1, MovedWindow DEF Stages
<1>3. /\ window' = SubSeq(moved, 1, i) /\ pay' = RolledBack(window[i].index)
      /\ fetch_active' = TRUE /\ window[i].kind.checkpoint
      /\ window[i].stage = "active"
  BY DEF Mispredict, In
<1> HIDE DEF moved
<1>4. /\ window' \in Seq(Entry) /\ Len(window') = i
      /\ \A j \in 1 .. i : window'[j] = moved[j]
  BY <1>1, <1>2, <1>3
<1>0. 1 .. i \subseteq In(Back)
  BY <1>1, <1>3 DEF IInv, Ordered, In, Back
<1>5. i <= NActive
  <2>2. Cardinality(1 .. i) = i
    <3>1. 1 \in Int /\ i \in Int /\ i >= 1
      BY <1>1
    <3>2. Cardinality(1 .. i) = IF 1 > i THEN 0 ELSE i - 1 + 1
      BY <3>1, FS_Interval
    <3> QED BY <3>1, <3>2
  <2>3. Cardinality(1 .. i) <= Cardinality(In(Back)) /\ Cardinality(In(Back)) \in Nat
    BY <1>0, <1>1, InFinite, FS_Subset
  <2>4. Cardinality(In(Back)) <= NActive
    BY DEF IInv, Limits
  <2> QED BY <2>2, <2>3, <2>4, Sizes
<1>6. /\ i \in Nat /\ i - 1 \in Nat /\ 2 * i < PayloadSize /\ (i - 1) + 1 = i
      /\ pay.head \in Indices /\ pay.head \in Int /\ PayloadSize \in Int
  BY <1>1, <1>5, Sizes DEF PayType, Indices
<1>7. pay' \in PayType /\ pay'.head = pay.head /\ pay'.length = 2 * i
      /\ pay'.tail = At(pay.head, i)
  <2>1. window[i].index = At(pay.head, i - 1)
    BY DEF IInv, InStep
  <2>2. 2 * ((i - 1) + 1) <= PayloadSize /\ 2 * i <= PayloadSize
    BY <1>6
  <2>3. (window[i].index + 2) % PayloadSize = At(pay.head, i)
    BY <1>6, <2>1, <2>2, NextEntry
  <2>4. (PayloadSize + At(pay.head, i) - pay.head) % PayloadSize = 2 * i
    BY <1>6, RolledBackLength
  <2>5. At(pay.head, i) \in Indices /\ 2 * i \in Int
    BY <1>6, <2>2, AtIs
  <2>6. pay' = [pay EXCEPT !.tail = At(pay.head, i), !.length = 2 * i]
    BY <1>3, <2>3, <2>4 DEF RolledBack
  <2> QED BY <1>1, <2>5, <2>6 DEF PayType
<1>8. FlowOK'
  BY <1>3, <1>4, <1>7 DEF FlowOK
<1>9. NothingBehindSerializing'
  <2>1. ASSUME NEW j \in 1 .. i
        PROVE  ~window[j].kind.serializing
    <3>1. CASE j = i
      BY <1>1, <1>3, <3>1, EntryOf, BundlesAssumption
    <3>2. CASE j < i
      BY <1>1, <3>2 DEF IInv, NothingBehindSerializing
    <3> QED BY <1>1, <3>1, <3>2
  <2> QED BY <1>1, <1>2, <1>4, <2>1 DEF NothingBehindSerializing
<1>10. InStep'
  <2>1. \A j \in 1 .. i : window'[j].index = At(pay.head, j - 1)
    <3> SUFFICES ASSUME NEW j \in 1 .. i
                 PROVE  window'[j].index = At(pay.head, j - 1)
      OBVIOUS
    <3>1. j \in 1 .. Len(window)
      BY <1>1
    <3>2. window[j].index = At(pay.head, j - 1)
      BY <3>1 DEF IInv, InStep
    <3> QED BY <1>2, <1>4, <3>1, <3>2
  <2> QED BY <1>4, <1>7, <2>1 DEF InStep
<1>11. Ordered'
  <2>1. \A j \in 1 .. i : window'[j].stage \in Back
    BY <1>0, <1>1, <1>2, <1>4 DEF In, Back
  <2> QED BY <1>4, <2>1 DEF Ordered, Back
<1>12. Limits'
  <2>1. /\ In({"FQ"})' \subseteq In({"FQ"}) /\ In({"RENAME2"})' \subseteq In({"RENAME2"})
        /\ In({"DISPATCH"})' \subseteq In({"DISPATCH"}) /\ In(Back)' \subseteq In(Back)
    BY <1>1, <1>2, <1>3, <1>4 DEF In, Back
  <2> QED BY <1>1, <2>1, LimitsKept DEF IInv
<1> QED BY <1>8, <1>9, <1>10, <1>11, <1>12 DEF IInv

-----------------------------------------------------------------------------
(* Retire *)

\* All instructions come one nearer to the head.
LEMMA TailIn ==
  ASSUME FlowOK, window # <<>>, window' = Tail(window), NEW stages
  PROVE  Cardinality(In(stages)') <= Cardinality(In(stages))
<1>1. /\ Len(window) \in Nat \ {0} /\ Len(window') = Len(window) - 1
      /\ \A i \in 1 .. Len(window') : window'[i] = window[i + 1]
  BY DEF FlowOK
<1> DEFINE new == In(stages)'
           old == In(stages)
<1>2. /\ new \subseteq 1 .. Len(window) - 1
      /\ \A i \in new : i + 1 \in old
  BY <1>1 DEF In
<1>3. IsFiniteSet(old)
  BY InFinite
<1> HIDE DEF new, old
<1> DEFINE f == [i \in new |-> i + 1]
<1>4. f \in Injection(new, old)
  <2>1. f \in [new -> old]
    BY <1>2
  <2>2. \A i, j \in new : f[i] = f[j] => i = j
    BY <1>1, <1>2
  <2> QED BY <2>1, <2>2 DEF Injection, IsInjective
<1>5. Cardinality(new) <= Cardinality(old)
  BY <1>3, <1>4, FS_Injection
<1> QED BY <1>5 DEF new, old

LEMMA RetireCommitStep ==
  ASSUME IInv, RetireCommit
  PROVE  IInv'
<1> DEFINE n == Len(window)
<1>1. /\ window \in Seq(Entry) /\ n \in Nat /\ window # <<>>
      /\ pay \in PayType /\ fetch_active \in BOOLEAN /\ FlowOK
  BY DEF IInv, FlowOK, RetireCommit, HeadCompleted
<1>2. /\ window' \in Seq(Entry) /\ Len(window') = n - 1
      /\ \A i \in 1 .. n - 1 : window'[i] = window[i + 1]
      /\ n >= 1
      /\ window' = Tail(window)
  BY <1>1 DEF RetireCommit
<1>3. 2 * n <= PayloadSize
  BY <1>1, InFlightBounded, Sizes
<1>4. /\ pay.head \in Indices /\ pay.head \in Int
      /\ pay.length = 2 * n /\ pay.tail = At(pay.head, n)
      /\ \A i \in 1 .. n : window[i].index = At(pay.head, i - 1)
  BY <1>1, Sizes DEF IInv, InStep, PayType, Indices
<1> DEFINE head == (pay.head + 2) % PayloadSize
<1>5. head \in Indices
  <2>1. pay.head + 2 \in Int
    BY <1>4
  <2> QED BY <2>1, IndexType
<1>6. /\ pay' \in PayType /\ pay'.head = head /\ pay'.length = 2 * (n - 1)
      /\ pay'.tail = pay.tail
  <2>1. pay.length - 2 = 2 * (n - 1) /\ 2 * (n - 1) \in Int
    BY <1>1, <1>4
  <2>2. pay' = [pay EXCEPT !.head = head, !.length = 2 * (n - 1)]
    BY <2>1 DEF RetireCommit, Popped
  <2> HIDE DEF head
  <2> QED BY <1>1, <1>5, <2>1, <2>2 DEF PayType
<1>7. ASSUME NEW k \in 0 .. n - 1
      PROVE  At(head, k) = At(pay.head, k + 1)
  <2>1. k \in Nat /\ 2 * (k + 1) <= PayloadSize
    BY <1>1, <1>3, <1>7, Sizes
  <2>2. (head + 2 * k) % PayloadSize = At(pay.head, k + 1)
    BY <1>4, <2>1, PoppedAt
  <2> QED BY <2>2 DEF At
<1> HIDE DEF head
<1>8. FlowOK'
  <2>1. window[1].kind.serializing \in BOOLEAN
    <3>1. window[1].kind \in Kind
      BY <1>1, <1>2, EntryOf, BundlesAssumption
    <3> QED BY <3>1 DEF Kind
  <2>2. fetch_active' \in BOOLEAN
    BY <1>1, <2>1 DEF RetireCommit, FetchAfterCommit
  <2> QED BY <1>2, <1>6, <2>2 DEF FlowOK
<1>9. NothingBehindSerializing'
  <2> SUFFICES ASSUME NEW i \in 1 .. n - 1, window'[i].kind.serializing
               PROVE  i = n - 1 /\ ~fetch_active'
    BY <1>2 DEF NothingBehindSerializing
  <2>1. i + 1 \in 1 .. n /\ window[i + 1].kind.serializing
    BY <1>1, <1>2
  <2>2. i + 1 = n /\ ~fetch_active
    BY <2>1 DEF IInv, NothingBehindSerializing
  <2>3. ~window[1].kind.serializing
    BY <1>1, <2>1, <2>2 DEF IInv, NothingBehindSerializing
  <2>4. ~fetch_active'
    BY <2>2, <2>3, Zenon DEF RetireCommit, FetchAfterCommit
  <2> QED BY <1>1, <2>2, <2>4
<1>10. InStep'
  <2>1. At(head, n - 1) = At(pay.head, n)
    <3>1. n - 1 \in 0 .. n - 1 /\ (n - 1) + 1 = n
      BY <1>1, <1>2
    <3> QED BY <1>7, <3>1
  <2>2. \A i \in 1 .. n - 1 : window'[i].index = At(head, i - 1)
    <3> SUFFICES ASSUME NEW i \in 1 .. n - 1
                 PROVE  window'[i].index = At(head, i - 1)
      OBVIOUS
    <3>1. /\ i + 1 \in 1 .. n /\ (i + 1) - 1 = i
          /\ i - 1 \in 0 .. n - 1 /\ (i - 1) + 1 = i
      BY <1>1
    <3>2. window[i + 1].index = At(pay.head, i)
      BY <1>4, <3>1
    <3>3. At(head, i - 1) = At(pay.head, i)
      BY <1>7, <3>1
    <3> QED BY <1>2, <3>2, <3>3
  <2> QED BY <1>2, <1>4, <1>6, <2>1, <2>2 DEF InStep
<1>11. Ordered'
  <2> SUFFICES ASSUME NEW i \in 1 .. n - 1, NEW j \in 1 .. n - 1, i < j
               PROVE  /\ window[j + 1].stage \in Back => window[i + 1].stage \in Back
                      /\ window[j + 1].stage = "DISPATCH" =>
                           window[i + 1].stage \in Back \cup {"DISPATCH"}
                      /\ window[j + 1].stage = "RENAME2" => window[i + 1].stage # "FQ"
    BY <1>2 DEF Ordered
  <2>1. i + 1 \in 1 .. n /\ j + 1 \in 1 .. n /\ i + 1 < j + 1
    BY <1>1
  <2> QED BY <2>1 DEF IInv, Ordered
<1>12. Limits'
  <2>1. ASSUME NEW stages
        PROVE  /\ Cardinality(In(stages)') <= Cardinality(In(stages))
               /\ Cardinality(In(stages)') \in Nat /\ Cardinality(In(stages)) \in Nat
    <3>1. In(stages)' \subseteq 1 .. n - 1
      BY <1>2 DEF In
    <3>2. IsFiniteSet(1 .. n - 1)
      BY <1>1, FS_Interval
    <3> QED BY <1>1, <1>2, <3>1, <3>2, TailIn, InFinite, FS_Subset, FS_CardinalityType
  <2>2. /\ Cardinality(In({"FQ"})') <= FrontSize
        /\ Cardinality(In({"RENAME2"})') <= DispatchWidth
        /\ Cardinality(In({"DISPATCH"})') <= DispatchWidth
        /\ Cardinality(In(Back)') <= NActive
    BY <2>1, Sizes DEF IInv, Limits
  <2> QED BY <2>2 DEF Limits
<1> QED BY <1>8, <1>9, <1>10, <1>11, <1>12 DEF IInv

LEMMA InitHolds == Init => IInv
<1> SUFFICES ASSUME Init
             PROVE  IInv
  OBVIOUS
<1>1. /\ fetch_active = TRUE /\ window = <<>> /\ Len(window) = 0
      /\ pay = [head |-> 0, tail |-> 0, length |-> 0] /\ 0 \in Indices
  BY Sizes DEF Init, Cleared, Indices
<1>2. FlowOK
  BY <1>1 DEF FlowOK, PayType
<1>3. NothingBehindSerializing /\ Ordered
  BY <1>1 DEF NothingBehindSerializing, Ordered
<1>4. Limits
  <2>1. ASSUME NEW stages, NEW limit \in Nat
        PROVE  Cardinality(In(stages)) <= limit
    <3>1. In(stages) = {}
      BY <1>1 DEF In
    <3> QED BY <3>1, FS_EmptySet
  <2> QED BY <2>1, Sizes DEF Limits
<1>5. InStep
  <2>1. 0 \in Nat /\ 2 * 0 <= PayloadSize
    BY Sizes
  <2>2. At(0, 0) = 0
    BY <1>1, <2>1, AtIs, Sizes
  <2> QED BY <1>1, <2>2 DEF InStep
<1> QED BY <1>2, <1>3, <1>4, <1>5 DEF IInv

\* A complete squash leaves the state the machine starts from.
LEMMA RetireSquashStep ==
  ASSUME IInv, RetireSquash
  PROVE  IInv'
<1>1. Init'
  BY DEF RetireSquash, Init, Cleared
<1> QED BY <1>1, InitHolds, PTL

LEMMA NextStep == IInv /\ [Next]_vars => IInv'
<1> SUFFICES ASSUME IInv, [Next]_vars
             PROVE  IInv'
  OBVIOUS
<1>1. ASSUME NEW kind \in Kinds, Fetch(kind)
      PROVE  IInv'
  BY <1>1, FetchStep
<1>2. CASE Rename1
  BY <1>2, Rename1Step
<1>3. CASE Rename2
  BY <1>3, Rename2Step
<1>4. CASE Dispatch
  BY <1>4, DispatchStep
<1>5. ASSUME NEW i \in 1 .. Len(window), Complete(i)
      PROVE  IInv'
  BY <1>5, CompleteStep
<1>6. ASSUME NEW i \in 1 .. Len(window), Mispredict(i)
      PROVE  IInv'
  BY <1>6, MispredictStep
<1>7. CASE RetireCommit
  BY <1>7, RetireCommitStep
<1>8. CASE RetireSquash
  BY <1>8, RetireSquashStep
<1>9. CASE UNCHANGED vars
  BY <1>9 DEF vars, IInv, FlowOK, NothingBehindSerializing, Ordered, Limits, InStep, In
<1> QED BY <1>1, <1>2, <1>3, <1>4, <1>5, <1>6, <1>7, <1>8, <1>9 DEF Next

-----------------------------------------------------------------------------
(* The theorems *)

\* The inductive invariant of the flow of instructions: no stage overtakes
\* another or holds more than its resources allow, and the payload buffer has
\* the entries of exactly the instructions in flight.
THEOREM Invariance == Spec => []IInv
BY InitHolds, NextStep, PTL DEF Spec

\* Stages, payload indices and the length of the payload buffer keep their
\* types: its cursors never leave the array (payload.cc:96-118).
THEOREM TypeCorrect == Spec => []TypeOK
<1>1. IInv => TypeOK
  <2> SUFFICES ASSUME IInv
               PROVE  TypeOK
    OBVIOUS
  <2>1. Len(window) \in Nat /\ pay.length = 2 * Len(window) /\ Len(window) <= MaxInFlight
    BY InFlightBounded DEF IInv, FlowOK, InStep
  <2>2. pay.length \in 0 .. PayloadSize
    BY <2>1, Sizes
  <2> QED BY <2>2 DEF IInv, FlowOK, Entry, PayType, TypeOK
<1> QED BY <1>1, Invariance, PTL

\* The payload buffer holds two entries for every instruction in flight, in
\* program order from its head, and never more than it has, through pushes,
\* pops, rollbacks that recompute the length, and complete squashes
\* (payload.cc:136-279).
THEOREM PayloadStep == Spec => []PayloadInStep
<1>1. IInv => PayloadInStep
  <2> SUFFICES ASSUME IInv
               PROVE  PayloadInStep
    OBVIOUS
  <2>1. Len(window) \in Nat /\ Len(window) <= MaxInFlight
    BY InFlightBounded DEF IInv, FlowOK
  <2>2. pay.length = 2 * Len(window) /\ pay.length <= PayloadSize
    BY <2>1, Sizes DEF IInv, InStep
  <2> QED BY <2>2 DEF IInv, InStep, At, PayloadInStep
<1> QED BY <1>1, Invariance, PTL

\* Whatever is squashed, resumed or retired, a serializing instruction is the
\* last one in flight and the fetch unit waits for it (retire.cc:233-247).
THEOREM SerializingAlone == Spec => []NothingBehindSerializing
<1>1. IInv => NothingBehindSerializing
  BY DEF IInv
<1> QED BY <1>1, Invariance, PTL
=============================================================================
