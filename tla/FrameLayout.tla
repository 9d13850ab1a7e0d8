------------------------------ MODULE FrameLayout ------------------------------
(***************************************************************************)
(* Where the code generator puts what a frame keeps: the registers the     *)
(* prologue saves, the variables that escape, and the parameters that      *)
(* escape.  Both numbers come from walks over the frame's segments that    *)
(* stop at different operations.  Offsets count quadwords below rbp.       *)
(***************************************************************************)
EXTENDS Scoping, Sequences, FiniteSets, FiniteSetsExt

CONSTANTS
    MAX_REG,    \* the general registers, coloured 1..MAX_REG
    Segments,   \* [ops, left, right]; a segment is its index, 0 is NULL
    Body        \* the first segment of a function

(***************************************************************************)
(* An operation has its code, the colour of its first operand when that is *)
(* a temporary and else 0, and for a declaration the variable declared or  *)
(* the escaping parameter read, <<>> for other operations.                 *)
(***************************************************************************)
Operation ==
    [op    : {"ASSIGN", "VAR_DECL", "CALL", "RET", "GOTO", "IF"},
     color : 0..(MAX_REG + 5),
     var   : {<<>>} \cup ({"var", "param"} \X Nat)]

ASSUME SegmentAssumption ==
    /\ MAX_REG \in Nat \ {0}
    /\ Segments \in Seq([ops : Seq(Operation), left : Nat, right : Nat])
    /\ \A s \in DOMAIN Segments :
         Segments[s].left \in 0..Len(Segments) /\ Segments[s].right \in 0..Len(Segments)
    /\ Body \in [Functions -> DOMAIN Segments]

\* The operations met from every segment on, before the first of those that
\* end the walk; a segment without operations ends it too.  A path visits no
\* segment twice, so that it is no longer than there are segments.
Walks(ends) ==
  LET walked[d \in 0..Len(Segments)] ==
        LET further == walked[d - 1]
        IN  [s \in 0..Len(Segments) |->
               IF d = 0 \/ s = 0 THEN <<>>
               ELSE LET ops   == Segments[s].ops
                        stops == {i \in DOMAIN ops : ops[i].op \in ends}
                    IN  IF ops = <<>> THEN <<>>
                        ELSE IF stops # {} THEN SubSeq(ops, 1, Min(stops) - 1)
                        ELSE ops \o further[Segments[s].left] \o further[Segments[s].right]]
  IN  walked[Len(Segments)]

Walked(f, ends) == Walks(ends)[Body[f]]

\* The highest register an operation before the first return or jump defines.
regs_used ==
  [f \in Functions |->
    LET ops == Walked(f, {"GOTO", "RET"})
    IN  Max({0} \cup {c \in 1..MAX_REG : \E i \in DOMAIN ops :
                        ops[i].op # "VAR_DECL" /\ ops[i].color = c})]

\* The registers the function defines, on whatever path.
Written ==
  [f \in Functions |->
    LET ops == Walked(f, {})
    IN  {c \in 1..MAX_REG : \E i \in DOMAIN ops : ops[i].color = c}]

\* The declarations of the variables, or of the escaping parameters, among the
\* operations CG_find_offset meets.
Declarations(ops, kind) ==
    {i \in DOMAIN ops : ops[i].op = "VAR_DECL" /\ ops[i].var # <<>> /\ ops[i].var[1] = kind}

\* The number each of them has among those of its kind, in the order they are
\* met; a variable met twice has the later of its numbers.
Numbered(f, kind) ==
    LET ops   == Walked(f, {"GOTO"})
        decls == Declarations(ops, kind)
    IN  [v \in {ops[i].var[2] : i \in decls} |->
           LET last == Max({i \in decls : ops[i].var[2] = v})
           IN  Cardinality({i \in decls : i <= last})]

\* What each walk finds, once for every function.
locals   == [f \in Functions |-> Numbered(f, "var")]
escapes  == [f \in Functions |-> Numbered(f, "param")]
declared == [f \in Functions |-> Cardinality(Declarations(Walked(f, {"GOTO"}), "var"))]

\* Mutant: the first variable is placed among the saved registers.
MutantCG_offset(f) == IF f = Module THEN 1 ELSE regs_used[f] - 1

\* CG_offset at the start of a frame's walk: codegen makes the module's at least 1.
CG_offset(f) == IF f = Module /\ regs_used[f] = 0 THEN 1 ELSE regs_used[f]

max_offset == [f \in Functions |-> CG_offset(f) + declared[f]]

\* Mutant: the pushed parameters are taken to begin where the variables end.
MutantOffset(f, kind, v) ==
    IF kind = "var" THEN CG_offset(f) - 1 + locals[f][v]
                    ELSE max_offset[f] - 1 + escapes[f][v]

\* The offset of a variable or of an escaping parameter.
Offset(f, kind, v) ==
    IF kind = "var" THEN CG_offset(f) - 1 + locals[f][v]
                    ELSE max_offset[f] + escapes[f][v]
===============================================================================
