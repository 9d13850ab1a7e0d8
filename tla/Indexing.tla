-------------------------------- MODULE Indexing --------------------------------
(***************************************************************************)
(* The indices of arrays: an index for each of the sizes.                  *)
(***************************************************************************)
EXTENDS Integers, Sequences, SequencesExt

Indices(sizes) ==
    {ix \in [DOMAIN sizes -> UNION {0..(sizes[d] - 1) : d \in DOMAIN sizes}] :
       \A d \in DOMAIN sizes : ix[d] < sizes[d]}

\* How many elements are written before this one.
Position(sizes, ix) == FoldLeftDomain(LAMBDA p, d : p * sizes[d] + ix[d], 0, sizes)
===============================================================================
