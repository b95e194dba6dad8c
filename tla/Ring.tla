------------------------------- MODULE Ring -------------------------------
(***************************************************************************)
(* The circular FIFO the program uses four times: the free list and the    *)
(* active list of renamer.cc, the value prediction queue of vpu.cc.  A     *)
(* FIFO of n entries is an array and two cursors.  A cursor is a pointer   *)
(* into the array and a phase bit that flips each time the pointer wraps,  *)
(* so that equal pointers mean "empty" when the phases agree and "full"    *)
(* when they differ.  The unsigned arithmetic of the code never leaves     *)
(* the range 0..n as long as the two cursors are Coherent.                 *)
(***************************************************************************)
EXTENDS Integers

Cursor(n) == [ptr : 0 .. n - 1, phase : BOOLEAN]

\* ptr++, and the wrap-around check that follows every such increment
Advance(c, n) ==
  IF c.ptr + 1 = n THEN [ptr |-> 0, phase |-> ~c.phase]
                   ELSE [ptr |-> c.ptr + 1, phase |-> c.phase]

\* the number of entries between the head and the tail
Occupancy(head, tail, n) ==
  IF head.phase = tail.phase THEN tail.ptr - head.ptr
                             ELSE n - (head.ptr - tail.ptr)

\* the number of entries outside of them
FreeEntries(head, tail, n) ==
  IF head.phase = tail.phase THEN n - (tail.ptr - head.ptr)
                             ELSE head.ptr - tail.ptr

IsEmpty(head, tail) == head.ptr = tail.ptr /\ head.phase = tail.phase

\* The two cursors delimit a segment of at most n entries.
Coherent(head, tail, n) == Occupancy(head, tail, n) \in 0 .. n

\* How many steps slot s is behind cursor c, going in the direction of Advance
Offset(c, s, n) == IF s >= c.ptr THEN s - c.ptr ELSE n + s - c.ptr

\* The slots a walk from one cursor to another visits
Span(from, to, n) ==
  {s \in 0 .. n - 1 : Offset(from, s, n) < Occupancy(from, to, n)}
=============================================================================
