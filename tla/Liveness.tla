------------------------------- MODULE Liveness -------------------------------
(***************************************************************************)
(* The liveness analysis of ir.c: passes over a work list of segments,     *)
(* from the last segment backwards, until a pass changes no set.  A step   *)
(* is one turn of the loop over the work list; the sets of all operations  *)
(* of a segment are computed in one step.                                  *)
(*                                                                         *)
(* A dereferenced NULL pointer (a segment without operations where one     *)
(* with operations is expected) ends the compiler: pc becomes "crashed".   *)
(***************************************************************************)
EXTENDS Integers, Sequences, FiniteSets

CONSTANTS
    Functions,  \* [segs, last]: the graphs IRGen makes
    MaxWork     \* bound on the length of the work list

VARIABLES
    fun,            \* the function analysed
    in, out,        \* the sets of each operation: in[s][k]
    iter,           \* seg->iteration
    iteration,
    new_segments,   \* the work list
    change,
    pc

sets == <<in, out>>
vars == <<fun, sets, iter, iteration, new_segments, change, pc>>

Seg(s)     == fun.segs[s]
Segments   == 1..Len(fun.segs)
Size(s)    == Len(Seg(s).ops)
IsEmpty(s) == Seg(s).ops = <<>>
Last(s)    == Seg(s).ops[Size(s)]
EndsIn(s, code) == ~IsEmpty(s) /\ Last(s).code = code
\* Mutant: a segment of this pass is processed again.
MutantUnvisited(s) == iter[s] >= iteration
Unvisited(s)    == iter[s] = iteration

NoSets == [s \in Segments |-> [k \in 1..Size(s) |-> {}]]

Init ==
    /\ fun \in Functions
    /\ in = NoSets /\ out = NoSets
    /\ iter = [s \in Segments |-> 0]
    /\ iteration = 0
    /\ new_segments = <<>>
    /\ change = TRUE
    /\ pc = "pass"

StartPass ==
    /\ pc = "pass"
    /\ change
    /\ new_segments' = Append(new_segments, fun.last)
    /\ change' = FALSE
    /\ pc' = "scan"
    /\ UNCHANGED <<fun, sets, iter, iteration>>

EndPass ==
    /\ pc = "scan"
    /\ new_segments = <<>>
    /\ iteration' = iteration + 1
    /\ pc' = IF change THEN "pass" ELSE "done"
    /\ UNCHANGED <<fun, sets, iter, new_segments, change>>

-------------------------------------------------------------------------------
Crash ==
    /\ pc' = "crashed"
    /\ UNCHANGED <<fun, sets, iter, iteration, new_segments, change>>

Continue(work) ==
    /\ Len(work) <= MaxWork
    /\ new_segments' = work
    /\ UNCHANGED <<fun, sets, iter, iteration, change, pc>>

(***************************************************************************)
(* The last segment of the body of a while: from the first one, past the   *)
(* loops in it, until the left is the segment the while starts with; NULL  *)
(* if the way there ends before.  In a body without such a segment the     *)
(* code would walk on forever, and Scan has no step.                       *)
(***************************************************************************)
BodyEnd(s, start) ==
    LET onward[t \in 0..Len(fun.segs)] ==
            IF t = 0 THEN 0
            ELSE IF Seg(t).left = start THEN t
            ELSE IF EndsIn(t, "while") THEN Seg(t).right ELSE Seg(t).left
        at[k \in 1..(Len(fun.segs) + 1)] ==
            IF k = 1 THEN Seg(s).left ELSE onward[at[k - 1]]
    IN  at[Len(fun.segs) + 1]

\* Mutant: the right is forgotten.
MutantTailOut(s) ==
    LET first(t) == IF t = 0 \/ IsEmpty(t) THEN {} ELSE in[t][1]
    IN  first(Seg(s).left)

\* Mutant: the right counts only while the left is empty.
MutantEitherOut(s) ==
    LET first(t) == IF t = 0 \/ IsEmpty(t) THEN {} ELSE in[t][1]
    IN  IF first(Seg(s).left) # {} \/ Seg(s).left = 0 THEN first(Seg(s).left)
        ELSE first(Seg(s).right)

\* The sets of the operations of s, backwards from what is live after it.
TailOut(s) ==
    LET first(t) == IF t = 0 \/ IsEmpty(t) THEN {} ELSE in[t][1]
    IN  first(Seg(s).left) \cup (IF Seg(s).left = 0 THEN {} ELSE first(Seg(s).right))
NewIn(s) ==
    LET ops == Seg(s).ops
        new[k \in 1..Size(s)] ==
            ((IF k = Size(s) THEN TailOut(s) ELSE new[k + 1]) \ ops[k].def) \cup ops[k].use
    IN  new
NewOut(s) == [k \in 1..Size(s) |-> IF k = Size(s) THEN TailOut(s) ELSE NewIn(s)[k + 1]]

SizesChange(s) ==
    \E k \in 1..Size(s) :
        \/ Cardinality(in[s][k])  # Cardinality(NewIn(s)[k])
        \/ Cardinality(out[s][k]) # Cardinality(NewOut(s)[k])

Process(s, work) ==
    /\ Len(work \o Seg(s).pred) <= MaxWork
    /\ iter' = [iter EXCEPT ![s] = @ + 1]
    /\ in' = [in EXCEPT ![s] = NewIn(s)]
    /\ out' = [out EXCEPT ![s] = NewOut(s)]
    /\ change' = (change \/ SizesChange(s))
    /\ new_segments' = work \o Seg(s).pred
    /\ UNCHANGED <<fun, iteration, pc>>

(***************************************************************************)
(* What a turn does with segment s, work being the rest of the list: the   *)
(* branches of an if come first, and a segment whose right is a jump waits *)
(* for its left.                                                           *)
(***************************************************************************)
UnvisitedBranches(s) ==
    (IF Seg(s).right # 0 /\ Unvisited(Seg(s).right) THEN <<Seg(s).right>> ELSE <<>>)
    \o (IF Unvisited(Seg(s).left) THEN <<Seg(s).left>> ELSE <<>>)

IsBranching(s)  == EndsIn(s, "if") /\ UnvisitedBranches(s) # <<>>
RightIsEmpty(s) == Seg(s).right # 0 /\ IsEmpty(Seg(s).right)

\* Mutant: it waits even when its left was visited.
MutantWaitsForLeft(s) ==
    Seg(s).right # 0 /\ EndsIn(Seg(s).right, "logical_jump")

WaitsForLeft(s) ==
    Seg(s).right # 0 /\ EndsIn(Seg(s).right, "logical_jump") /\ Unvisited(Seg(s).left)

Turn(s, work) ==
    \/ /\ IsBranching(s)
       /\ Continue(UnvisitedBranches(s) \o Append(work, s))
    \/ /\ ~IsBranching(s) /\ RightIsEmpty(s)
       /\ Crash
    \/ /\ ~IsBranching(s) /\ ~RightIsEmpty(s) /\ WaitsForLeft(s)
       /\ Continue(Append(work, s))
    \/ /\ ~IsBranching(s) /\ ~RightIsEmpty(s) /\ ~WaitsForLeft(s)
       /\ \/ ~Unvisited(s) /\ Continue(work)
          \/ Unvisited(s) /\ Process(s, work)

Scan(s, work) ==
    \/ /\ IsEmpty(s)
       /\ Continue(work \o Seg(s).pred)
    \/ /\ EndsIn(s, "while") /\ Unvisited(Seg(s).left)
       /\ LET body == BodyEnd(s, Last(s).start)
          IN  \/ body = 0 /\ Crash
              \/ /\ body # 0
                 /\ Seg(body).left = Last(s).start
                 /\ \/ ~Unvisited(body) /\ Continue(Append(work, s))
                    \/ Unvisited(body) /\ Turn(body, Append(work, s))
    \/ /\ ~IsEmpty(s)
       /\ ~(EndsIn(s, "while") /\ Unvisited(Seg(s).left))
       /\ Turn(s, work)

ScanSegment ==
    /\ pc = "scan"
    /\ new_segments # <<>>
    /\ Scan(Head(new_segments), Tail(new_segments))

Finished == pc \in {"done", "crashed"} /\ UNCHANGED vars

Next == StartPass \/ ScanSegment \/ EndPass \/ Finished

Spec == Init /\ [][Next]_vars /\ WF_vars(StartPass \/ ScanSegment \/ EndPass)

-------------------------------------------------------------------------------
(***************************************************************************)
(* The reference: the operations the generated code executes one after     *)
(* another (recurse_segment of ir_codegen.c prints the left after the      *)
(* segment, and jumps go to their labels), and the textbook definition of  *)
(* a temporary that is live on that flow.                                  *)
(***************************************************************************)
Operations == UNION {{<<s, k>> : k \in 1..Size(s)} : s \in Segments}
Operation(o) == Seg(o[1]).ops[o[2]]

\* The operation the code comes to first in segment s, or none.
First(s) ==
    LET onward[t \in 0..Len(fun.segs)] ==
            IF t # 0 /\ IsEmpty(t) THEN Seg(t).left ELSE t
        at[n \in 0..Len(fun.segs)] == IF n = 0 THEN s ELSE onward[at[n - 1]]
        end == at[Len(fun.segs)]
    IN  IF end = 0 THEN {} ELSE {<<end, 1>>}

After(o) ==
    LET s    == o[1]
        k    == o[2]
        code == Operation(o).code
        goto == First(Operation(o).dest)
    IN  CASE code = "ret"  -> {}
          [] code = "goto" -> goto
          [] code = "logical_jump" /\ Seg(s).ops[k - 1].code = "assign" -> goto
          [] code \in {"logical_jump", "if", "while"} -> goto \cup First(Seg(s).left)
          [] OTHER -> IF k < Size(s) THEN {<<s, k + 1>>} ELSE First(Seg(s).left)

Temps == UNION {Operation(o).use : o \in Operations}

\* The steps of the generated code, from an operation to the next.
Flow == UNION {{<<o, next>> : next \in After(o)} : o \in Operations}

\* The operations from which the code comes to some of ops and does not define t
\* on the way, those included.
RECURSIVE Backwards(_, _, _)
Backwards(t, ops, flow) ==
    LET before == {step[1] : step \in
                     {f \in flow : f[2] \in ops /\ t \notin Operation(f[1]).def}}
    IN  IF before \subseteq ops THEN ops ELSE Backwards(t, ops \cup before, flow)

LiveAfter(t, flow) ==
    LET before == Backwards(t, {o \in Operations : t \in Operation(o).use}, flow)
    IN  {step[1] : step \in {f \in flow : f[2] \in before}}

-------------------------------------------------------------------------------
(* Properties *)

TypeOK ==
    /\ fun.last \in Segments
    /\ \A s \in Segments :
         /\ DOMAIN in[s] = 1..Size(s) /\ DOMAIN out[s] = 1..Size(s)
         /\ iter[s] \in 0..(iteration + 1)
    /\ \A j \in 1..Len(new_segments) : new_segments[j] \in Segments
    /\ change \in BOOLEAN
    /\ pc \in {"pass", "scan", "done", "crashed"}

\* When the analysis ends, out holds every temporary the code may still read:
\* a temporary it misses shares its register with one that overwrites it.
Out(t) == {o \in Operations : t \in out[o[1]][o[2]]}
LivenessSound ==
    pc = "done" =>
        LET flow == Flow IN \A t \in Temps : LiveAfter(t, flow) \subseteq Out(t)

\* ... and no other: the short cuts over left and right add nothing.
LivenessExact ==
    pc = "done" =>
        LET flow == Flow IN \A t \in Temps : LiveAfter(t, flow) = Out(t)

\* The code jumps where the analysis looks: a loop is left to the right of its
\* condition, a skipped branch goes to the right, a goto to the left, and the
\* segment of every label is one the code generator comes to.
Reached ==
    LET step(S) == S \cup (({Seg(s).left : s \in S} \cup {Seg(s).right : s \in S}) \ {0})
        reach[n \in 0..Len(fun.segs)] == IF n = 0 THEN {1} ELSE step(reach[n - 1])
    IN  reach[Len(fun.segs)]
LabelsAgree ==
    pc = "pass" /\ iteration = 0 =>
        \A s \in Reached :
            /\ EndsIn(s, "while") => Last(s).dest = Seg(s).right
            /\ EndsIn(s, "if") /\ Seg(s).right # 0 => Last(s).dest = Seg(s).right
            /\ EndsIn(s, "goto") => Last(s).dest = Seg(s).left
            /\ \A k \in 1..Size(s) :
                 Seg(s).ops[k].dest # 0 => Seg(s).ops[k].dest \in Reached

\* The code after a loop is a segment without operations that falls into the
\* end of an if: the loop is the last statement of a branch.
LoopEndsBranch(s) ==
    EndsIn(s, "while") /\ IsEmpty(Seg(s).right) /\ Seg(Seg(s).right).left # 0

\* Every segment finds operations where it looks for them (ir.c 1257-1273),
\* unless the function has a loop that ends a branch.
NoCrash == pc = "crashed" => \E s \in Segments : LoopEndsBranch(s)

\* No pass takes a temporary out of a set.  The test for a change compares
\* sizes, which tells different sets apart only if they grow.
SetsGrow ==
    [][\A s \in Segments : \A k \in 1..Size(s) :
         in[s][k] \subseteq in'[s][k] /\ out[s][k] \subseteq out'[s][k]]_vars

\* A pass that waits for an unvisited segment comes to an end, and so do the
\* passes.
Terminates == <>(pc \in {"done", "crashed"})
===============================================================================
