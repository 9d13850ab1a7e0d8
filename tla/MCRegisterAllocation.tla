------------------------- MODULE MCRegisterAllocation -------------------------
(***************************************************************************)
(* Small programs for the register allocator: with two registers, five     *)
(* temporaries are enough for simple nodes, potential and actual spills,   *)
(* and for a round with a temporary more than the one before.              *)
(***************************************************************************)
EXTENDS RegisterAllocation

OneOwner == [t \in Temps |-> 1]

SmallPrograms ==
    {\* one function without parameters, with one and with two
     [temps |-> 5, owner |-> OneOwner, params |-> <<<<>>, <<>>>>],
     [temps |-> 4, owner |-> OneOwner, params |-> <<<<1>>, <<>>>>],
     [temps |-> 4, owner |-> OneOwner, params |-> <<<<1, 2>>, <<>>>>],
     \* a function nested in another: their temporaries never interfere,
     \* and both have a parameter in the same register
     [temps |-> 5, owner |-> <<1, 1, 2, 2, 2>>, params |-> <<<<1>>, <<3>>>>],
     [temps |-> 4, owner |-> <<1, 2, 2, 2, 1>>, params |-> <<<<>>, <<>>>>]}
===============================================================================
