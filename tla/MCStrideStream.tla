--------------------------- MODULE MCStrideStream ---------------------------
(* Instances of StrideStream for TLC. *)
EXTENDS StrideStream, TLC

TwoPCs == {0, 4}

Sequence(base, stride) == [base |-> base, stride |-> stride]

\* Counting down (a negative stride) beside counting up, and a constant
\* beside a step of two
PairedStreams ==
  {0 :> Sequence(1, ValueSpace - 1) @@ 4 :> Sequence(0, 1),
   0 :> Sequence(0, 0) @@ 4 :> Sequence(3, 2)}

\* Every sequence there is, for an instruction on its own
SingleStreams == [{0} -> [base : Values, stride : Values]]

SingleAndPairedStreams == SingleStreams \cup PairedStreams
=============================================================================
