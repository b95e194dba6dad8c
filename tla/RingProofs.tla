----------------------------- MODULE RingProofs -----------------------------
(***************************************************************************)
(* What the cursors of Ring do, for every size of the FIFO, and what the   *)
(* proofs of the other modules need of natural numbers.                    *)
(***************************************************************************)
EXTENDS Ring, WellFoundedInduction, TLAPS

\* Advancing a cursor gives a cursor (the wrap-around checks of renamer.cc:570
\* and its like).
LEMMA AdvanceType ==
  ASSUME NEW n \in Nat \ {0}, NEW c \in Cursor(n)
  PROVE  Advance(c, n) \in Cursor(n)
  BY DEF Cursor, Advance

\* The two ways the code counts, from the head and from the tail, agree
\* (renamer.cc:123-128 and vpu.cc:57-62).
LEMMA FreeEntriesComplement ==
  ASSUME NEW n \in Nat \ {0}, NEW h \in Cursor(n), NEW t \in Cursor(n)
  PROVE  FreeEntries(h, t, n) = n - Occupancy(h, t, n)
  BY DEF Cursor, FreeEntries, Occupancy

LEMMA OccupancyType ==
  ASSUME NEW n \in Nat \ {0}, NEW h \in Cursor(n), NEW t \in Cursor(n)
  PROVE  Occupancy(h, t, n) \in Int
  BY DEF Cursor, Occupancy

\* A push into a FIFO that is not full adds one entry.
LEMMA PushOccupancy ==
  ASSUME NEW n \in Nat \ {0}, NEW h \in Cursor(n), NEW t \in Cursor(n),
         Occupancy(h, t, n) \in 0 .. n - 1
  PROVE  Occupancy(h, Advance(t, n), n) = Occupancy(h, t, n) + 1
  BY DEF Cursor, Occupancy, Advance

\* A pop from a FIFO that is not empty takes one entry.
LEMMA PopOccupancy ==
  ASSUME NEW n \in Nat \ {0}, NEW h \in Cursor(n), NEW t \in Cursor(n),
         Occupancy(h, t, n) \in 1 .. n
  PROVE  Occupancy(Advance(h, n), t, n) = Occupancy(h, t, n) - 1
  BY DEF Cursor, Occupancy, Advance

LEMMA EmptyOccupancy ==
  ASSUME NEW n \in Nat \ {0}, NEW c \in Cursor(n)
  PROVE  Occupancy(c, c, n) = 0
  BY DEF Cursor, Occupancy

LEMMA OffsetType ==
  ASSUME NEW n \in Nat \ {0}, NEW c \in Cursor(n), NEW s \in 0 .. n - 1
  PROVE  Offset(c, s, n) \in 0 .. n - 1
  BY DEF Cursor, Offset

\* Different slots are at different distances.
LEMMA OffsetInjective ==
  ASSUME NEW n \in Nat \ {0}, NEW c \in Cursor(n),
         NEW s \in 0 .. n - 1, NEW t \in 0 .. n - 1,
         Offset(c, s, n) = Offset(c, t, n)
  PROVE  s = t
  BY DEF Cursor, Offset

\* The slot a push is going to use is the first one past the entries.
LEMMA TailOffset ==
  ASSUME NEW n \in Nat \ {0}, NEW h \in Cursor(n), NEW t \in Cursor(n),
         Occupancy(h, t, n) \in 0 .. n - 1
  PROVE  Offset(h, t.ptr, n) = Occupancy(h, t, n)
  BY DEF Cursor, Occupancy, Offset

LEMMA HeadOffset ==
  ASSUME NEW n \in Nat \ {0}, NEW h \in Cursor(n)
  PROVE  Offset(h, h.ptr, n) = 0
  BY DEF Cursor, Offset

\* A pop brings every other slot one step nearer.
LEMMA PopOffset ==
  ASSUME NEW n \in Nat \ {0}, NEW h \in Cursor(n), NEW s \in 0 .. n - 1,
         Offset(h, s, n) > 0
  PROVE  Offset(Advance(h, n), s, n) = Offset(h, s, n) - 1
  BY DEF Cursor, Offset, Advance

\* The converse of the two above: the slot at the head goes to the far end.
LEMMA PoppedOffset ==
  ASSUME NEW n \in Nat \ {0}, NEW h \in Cursor(n)
  PROVE  Offset(Advance(h, n), h.ptr, n) = n - 1
  BY DEF Cursor, Offset, Advance

\* Cursors that differ have entries between them.
LEMMA NotEmptyOccupancy ==
  ASSUME NEW n \in Nat \ {0}, NEW h \in Cursor(n), NEW t \in Cursor(n),
         ~IsEmpty(h, t)
  PROVE  Occupancy(h, t, n) # 0
  BY DEF Cursor, Occupancy, IsEmpty

\* Seen from the tail with its phase flipped, the entries are the slots that
\* are not between head and tail (renamer.cc:533-534).
LEMMA OtherSideOccupancy ==
  ASSUME NEW n \in Nat \ {0}, NEW h \in Cursor(n), NEW t \in Cursor(n)
  PROVE  /\ [ptr |-> t.ptr, phase |-> ~t.phase] \in Cursor(n)
         /\ Occupancy([ptr |-> t.ptr, phase |-> ~t.phase], h, n)
              = n - Occupancy(h, t, n)
<1>1. [ptr |-> t.ptr, phase |-> ~t.phase] \in Cursor(n)
  BY DEF Cursor
<1>2. CASE h.phase = t.phase
  BY <1>2 DEF Cursor, Occupancy
<1>3. CASE h.phase # t.phase
  BY <1>3 DEF Cursor, Occupancy
<1> QED BY <1>1, <1>2, <1>3

-----------------------------------------------------------------------------
(* Segments *)

\* A push adds the slot at the tail.
LEMMA SpanPush ==
  ASSUME NEW n \in Nat \ {0}, NEW h \in Cursor(n), NEW t \in Cursor(n),
         Occupancy(h, t, n) \in 0 .. n - 1
  PROVE  /\ Span(h, Advance(t, n), n) = Span(h, t, n) \cup {t.ptr}
         /\ t.ptr \notin Span(h, t, n)
<1>1. t.ptr \in 0 .. n - 1
  BY DEF Cursor
<1>2. Occupancy(h, Advance(t, n), n) = Occupancy(h, t, n) + 1
  BY PushOccupancy
<1>3. Offset(h, t.ptr, n) = Occupancy(h, t, n)
  BY TailOffset
<1>4. \A s \in 0 .. n - 1 : Offset(h, s, n) \in 0 .. n - 1
                            /\ (Offset(h, s, n) = Offset(h, t.ptr, n) => s = t.ptr)
  BY <1>1, OffsetType, OffsetInjective
<1> QED BY <1>1, <1>2, <1>3, <1>4 DEF Span

\* A pop takes the slot at the head.
LEMMA SpanPop ==
  ASSUME NEW n \in Nat \ {0}, NEW h \in Cursor(n), NEW t \in Cursor(n),
         Occupancy(h, t, n) \in 1 .. n
  PROVE  /\ Span(Advance(h, n), t, n) = Span(h, t, n) \ {h.ptr}
         /\ h.ptr \in Span(h, t, n)
<1>1. h.ptr \in 0 .. n - 1 /\ Offset(h, h.ptr, n) = 0
  BY HeadOffset DEF Cursor
<1>2. Occupancy(Advance(h, n), t, n) = Occupancy(h, t, n) - 1
  BY PopOccupancy
<1>3. Offset(Advance(h, n), h.ptr, n) = n - 1
  BY PoppedOffset
<1>4. ASSUME NEW s \in 0 .. n - 1, s # h.ptr
      PROVE  /\ Offset(h, s, n) \in 1 .. n - 1
             /\ Offset(Advance(h, n), s, n) = Offset(h, s, n) - 1
  <2>1. Offset(h, s, n) \in 0 .. n - 1 /\ Offset(h, s, n) # 0
    BY <1>1, <1>4, OffsetType, OffsetInjective
  <2> QED BY <2>1, PopOffset
<1>5. ASSUME NEW s \in 0 .. n - 1
      PROVE  s \in Span(Advance(h, n), t, n) <=> s \in Span(h, t, n) \ {h.ptr}
  <2>1. CASE s = h.ptr
    BY <1>2, <1>3, <2>1 DEF Span
  <2>2. CASE s # h.ptr
    BY <1>2, <1>4, <2>2 DEF Span
  <2> QED BY <2>1, <2>2
<1>6. h.ptr \in Span(h, t, n)
  BY <1>1 DEF Span
<1> QED BY <1>5, <1>6 DEF Span

\* A former tail splits the entries into older and younger ones.
LEMMA SpanSplit ==
  ASSUME NEW n \in Nat \ {0}, NEW h \in Cursor(n), NEW m \in Cursor(n),
         NEW t \in Cursor(n),
         Occupancy(h, t, n) \in 0 .. n, Occupancy(h, m, n) \in 0 .. Occupancy(h, t, n)
  PROVE  /\ Span(h, t, n) = Span(h, m, n) \cup Span(m, t, n)
         /\ Span(h, m, n) \cap Span(m, t, n) = {}
<1>1. Occupancy(m, t, n) = Occupancy(h, t, n) - Occupancy(h, m, n)
  BY DEF Cursor, Occupancy
<1>2. ASSUME NEW s \in 0 .. n - 1
      PROVE  s \in Span(m, t, n) <=> s \in Span(h, t, n) /\ s \notin Span(h, m, n)
  <2>1. Offset(h, s, n) \in 0 .. n - 1 /\ Offset(m, s, n) \in 0 .. n - 1
    BY OffsetType
  <2>2. Offset(h, s, n) >= Occupancy(h, m, n) =>
          Offset(m, s, n) = Offset(h, s, n) - Occupancy(h, m, n)
    BY DEF Cursor, Occupancy, Offset
  <2>3. Offset(h, s, n) < Occupancy(h, m, n) =>
          Offset(m, s, n) = n + Offset(h, s, n) - Occupancy(h, m, n)
    BY DEF Cursor, Occupancy, Offset
  <2> QED BY <1>1, <2>1, <2>2, <2>3 DEF Span
<1>3. Span(h, m, n) \subseteq Span(h, t, n)
  <2>1. \A s \in 0 .. n - 1 : Offset(h, s, n) \in Int
    BY OffsetType
  <2> QED BY <2>1 DEF Span
<1> QED BY <1>2, <1>3 DEF Span

-----------------------------------------------------------------------------
(* Numbers *)

\* A set of natural numbers has a least element: the way to prove by induction.
LEMMA Least ==
  ASSUME NEW S, S \subseteq Nat, S # {}
  PROVE  \E m \in S : \A n \in S : m <= n
<1> DEFINE R == OpToRel(<, Nat)
<1>1. IsWellFoundedOn(R, Nat)
  BY NatLessThanWellFounded
<1>2. \A m, n \in Nat : m < n => <<m, n>> \in R
  BY DEF OpToRel
<1> HIDE DEF R
<1>3. PICK m \in S : \A n \in S : ~ (<<n, m>> \in R)
  BY <1>1, WFMin
<1>4. ASSUME NEW n \in S PROVE m <= n
  <2>1. m \in Nat /\ n \in Nat
    OBVIOUS
  <2>2. ~(<<n, m>> \in R)
    BY <1>3
  <2>3. ~(n < m)
    BY <1>2, <2>1, <2>2
  <2> QED BY <2>1, <2>3
<1> QED BY <1>4

LEMMA Greatest ==
  ASSUME NEW n \in Nat, NEW S, S \subseteq 0 .. n, S # {}
  PROVE  \E p \in S : \A k \in S : k <= p
<1> DEFINE T == {n - k : k \in S}
<1>1. T \subseteq Nat /\ T # {}
  <2>1. \A k \in S : n - k \in Nat
    OBVIOUS
  <2> QED BY <2>1
<1>2. PICK m \in T : \A t \in T : m <= t
  BY <1>1, Least
<1>3. PICK p \in S : m = n - p
  OBVIOUS
<1>4. ASSUME NEW k \in S PROVE k <= p
  <2>1. n - k \in T /\ k \in Nat /\ p \in Nat
    OBVIOUS
  <2>2. n - p <= n - k
    BY <1>2, <1>3, <2>1
  <2> QED BY <2>1, <2>2
<1> QED BY <1>4

\* One wrap-around
LEMMA Wraps ==
  ASSUME NEW n \in Nat \ {0}, NEW x \in 0 .. 2 * n - 1
  PROVE  x % n = IF x < n THEN x ELSE x - n
  OBVIOUS

\* The only multiple of n between -n and n is zero.
LEMMA SmallMultiple ==
  ASSUME NEW n \in Nat \ {0}, NEW d \in Int, d * n < n, -n < d * n
  PROVE  d = 0
<1>1. CASE d >= 1
  <2>1. PICK e \in Nat : d = e + 1
    BY <1>1
  <2>2. e * n >= 0
    OBVIOUS
  <2>3. d * n = e * n + n
    BY <2>1
  <2> QED BY <2>2, <2>3
<1>2. CASE d <= -1
  <2>1. PICK e \in Nat : d = -e - 1
    BY <1>2
  <2>2. e * n >= 0
    OBVIOUS
  <2>3. d * n = -(e * n) - n
    BY <2>1
  <2> QED BY <2>2, <2>3
<1> QED BY <1>1, <1>2

\* A remainder differs from its number by a multiple,
LEMMA Remainder ==
  ASSUME NEW n \in Nat \ {0}, NEW a \in Int
  PROVE  a % n \in 0 .. n - 1 /\ \E k \in Int : a % n = a + k * n
<1>1. a % n \in 0 .. n - 1 /\ a \div n \in Int
  OBVIOUS
<1>2. a = n * (a \div n) + (a % n)
  OBVIOUS
<1>3. PICK q \in Int, r \in Int : r = a % n /\ a = n * q + r
  BY <1>1, <1>2
<1>4. -q \in Int /\ r = a + (-q) * n
  BY <1>3
<1>5. \E k \in Int : r = a + k * n
  BY <1>4
<1> QED BY <1>1, <1>3, <1>5

\* and numbers that differ by a multiple have the same one.
LEMMA SameRemainder ==
  ASSUME NEW n \in Nat \ {0}, NEW a \in Int, NEW b \in Int, NEW k \in Int, a = b + k * n
  PROVE  a % n = b % n
<1>1. PICK r \in 0 .. n - 1, i \in Int : r = a % n /\ r = a + i * n
  BY Remainder
<1>2. PICK s \in 0 .. n - 1, j \in Int : s = b % n /\ s = b + j * n
  BY Remainder
<1>3. PICK d \in Int : d = k + i - j
  OBVIOUS
<1>4. r - s = d * n
  BY <1>1, <1>2, <1>3
<1>5. d * n < n /\ -n < d * n
  BY <1>4
<1>6. d = 0
  BY <1>5, SmallMultiple
<1> QED BY <1>1, <1>2, <1>4, <1>6

=============================================================================
