------------------------------- MODULE Picking --------------------------------
(***************************************************************************)
(* Taking some elements of a sequence, in their order.  SelectSeq would do *)
(* it as well, but takes an operator, which the provers cannot instantiate.*)
(***************************************************************************)
EXTENDS Integers, Sequences, FiniteSets

\* A finite set of numbers as a sequence, the least first.
Ascending(ids) ==
  CHOOSE f \in [1 .. Cardinality(ids) -> ids] :
    \A m, n \in DOMAIN f : m < n => f[m] < f[n]

\* What a sequence has at some of its places.
Picked(sequence, places) ==
  [n \in 1 .. Cardinality(places) |-> sequence[Ascending(places)[n]]]
===============================================================================
