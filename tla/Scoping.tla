-------------------------------- MODULE Scoping --------------------------------
(***************************************************************************)
(* The functions of a program as the scope checker leaves them: each one,  *)
(* but the module around them all, is declared directly in another.  The   *)
(* depths are those the code generator compares, frame by frame in         *)
(* CG_frame_depth and for an identifier in func_nesting_depth.             *)
(***************************************************************************)
EXTENDS Integers

CONSTANTS
    Functions,   \* the frames of the program
    Module,      \* the frame of the module level
    Outer,       \* the frame a function is declared in
    Depth,       \* CG_frame_depth while the code of a frame is generated
    Enclosing    \* a function and the functions around it

ASSUME ModuleAssumption ==
    Module \in Functions /\ Enclosing[Module] = {Module}
ASSUME DepthAssumption  ==
    Depth \in [Functions -> Nat] /\ Enclosing \in [Functions -> SUBSET Functions]
ASSUME OuterAssumption  ==
    \A f \in Functions \ {Module} :
      /\ Outer[f] \in Functions
      /\ Depth[f] = Depth[Outer[f]] + 1
      /\ Enclosing[f] = {f} \cup Enclosing[Outer[f]]
      /\ f \notin Enclosing[Outer[f]]
ASSUME NestingAssumption ==
    \A f \in Functions :
      /\ f \in Enclosing[f]
      /\ Module \in Enclosing[f]
      /\ \A h \in Enclosing[f] \ {f} : Depth[h] < Depth[f]
ASSUME AroundAssumption ==
    \A f \in Functions : \A h \in Enclosing[f] : Enclosing[h] \subseteq Enclosing[f]

\* The functions f may call: those declared in it or in a function around it.
Visible(f) == {g \in Functions \ {Module} : Outer[g] \in Enclosing[f]}
===============================================================================
