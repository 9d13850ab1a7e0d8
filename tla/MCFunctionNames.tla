---------------------------- MODULE MCFunctionNames ----------------------------
(***************************************************************************)
(* Names of one letter, one that begins with another name, which a         *)
(* parameter may have as well, and one that another name's label may be.   *)
(***************************************************************************)
EXTENDS FunctionNames

CONSTANTS first, second, third

MCMain           == <<third>>
MCNames          == {<<first>>, <<second>>, <<first, second>>, <<first, 1>>, MCMain}
MCParameterLists == {<<>>, <<(<<first, second>>)>>}
===============================================================================
