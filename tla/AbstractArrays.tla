----------------------------- MODULE AbstractArrays -----------------------------
(***************************************************************************)
(* What a program expects of its arrays: each is a function from its       *)
(* indices to values, made with its sizes, all zero or with the values of  *)
(* its declaration in the order they are written, and changed one element  *)
(* at a time.                                                              *)
(***************************************************************************)
EXTENDS Indexing

CONSTANTS
    Shapes,     \* the sizes an array may have, a sequence of them
    Contents,   \* the values of a declaration
    Values      \* what is stored in an element

VARIABLE arrays

Zeros(sizes)          == [ix \in Indices(sizes) |-> 0]
Filled(sizes, values) == [ix \in Indices(sizes) |-> values[Position(sizes, ix) + 1]]

Init == arrays = <<>>

Declare(sizes) == arrays' = Append(arrays, Zeros(sizes))

DeclareWith(sizes, values) ==
    /\ \A ix \in Indices(sizes) : Position(sizes, ix) < Len(values)
    /\ arrays' = Append(arrays, Filled(sizes, values))

Store(a, ix, v) == arrays' = [arrays EXCEPT ![a][ix] = v]

Next ==
    \/ \E sizes \in Shapes : Declare(sizes)
    \/ \E sizes \in Shapes, values \in Contents : DeclareWith(sizes, values)
    \/ \E a \in DOMAIN arrays : \E ix \in DOMAIN arrays[a], v \in Values : Store(a, ix, v)

Spec == Init /\ [][Next]_arrays
===============================================================================
