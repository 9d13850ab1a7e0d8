----------------------------- MODULE MCScopeCheck -----------------------------
(***************************************************************************)
(* Two names, which every kind of declaration can take, and headers with a *)
(* result and without, with no parameter, one, and the same one twice.     *)
(***************************************************************************)
EXTENDS ScopeCheck

MCNames == {"a", "f"}

Header(name, params, void) == [name |-> name, params |-> params, void |-> void]

MCFunctions ==
    {Header("main", <<>>, TRUE), Header("f", <<"a">>, FALSE),
     Header("a", <<"f", "f">>, TRUE)}
===============================================================================
