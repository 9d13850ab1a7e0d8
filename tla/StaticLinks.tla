------------------------------ MODULE StaticLinks ------------------------------
(***************************************************************************)
(* What the static links of the generated code promise.  A program calls   *)
(* and returns, and reads variables of the functions around the running    *)
(* one.  The code finds the frame it needs by following, from the running  *)
(* frame, a number of links that the compiler computes from two depths;    *)
(* env is what the language means: the activation each enclosing function  *)
(* had when the running function was called.                               *)
(***************************************************************************)
EXTENDS Scoping, Sequences

CONSTANT MaxActive   \* bound on the activations at one time

VARIABLES
    acts,   \* the activations, the running one last: [fn, link, env]
    pc,     \* "body", or a traversal of links to "call" or to "find"
    goal,   \* the function called, or the owner of the variable sought
    rax,    \* the activation the traversal has reached
    hops    \* depth_diff: the links still to follow

vars == <<acts, pc, goal, rax, hops>>

Activation == [fn : Functions, link : Nat, env : [Functions -> Nat]]

Running == acts[Len(acts)]
\* The frame whose activation must be found.
Target  == IF pc = "call" THEN Outer[goal] ELSE goal

TypeOK ==
    /\ acts \in Seq(Activation)
    /\ pc \in {"body", "call", "find"}
    /\ goal \in Functions
    /\ rax \in Nat /\ hops \in Nat

Init ==
    /\ acts = << [fn   |-> Module, link |-> 0,
                  env  |-> [h \in Functions |-> IF h = Module THEN 1 ELSE 0]] >>
    /\ pc = "body" /\ goal = Module /\ rax = 0 /\ hops = 0

\* The first step of a traversal: the running frame, or its link.
Seek(target) ==
    IF Depth[Running.fn] = Depth[target]
      THEN rax' = Len(acts) /\ hops' = 0
      ELSE rax' = Running.link /\ hops' = (Depth[Running.fn] - 1) - Depth[target]

Call(g) ==
    /\ pc = "body"
    /\ g \in Visible(Running.fn)
    /\ Seek(Outer[g])
    /\ pc' = "call" /\ goal' = g
    /\ UNCHANGED acts

Find(h) ==
    /\ pc = "body"
    /\ h \in Enclosing[Running.fn]
    /\ Seek(h)
    /\ pc' = "find" /\ goal' = h
    /\ UNCHANGED acts

Hop ==
    /\ pc # "body" /\ hops > 0
    /\ rax' = acts[rax].link
    /\ hops' = hops - 1
    /\ UNCHANGED <<acts, pc, goal>>

Idle == pc' = "body" /\ goal' = Module /\ rax' = 0 /\ hops' = 0

Enter ==
    /\ pc = "call" /\ hops = 0
    /\ Len(acts) < MaxActive
    /\ acts' = Append(acts,
         [fn   |-> goal, link |-> rax,
          env  |-> [h \in Functions |->
                      IF h = goal THEN Len(acts) + 1
                      ELSE IF h \in Enclosing[goal] THEN Running.env[h] ELSE 0]])
    /\ Idle

Found  == pc = "find" /\ hops = 0 /\ Idle /\ UNCHANGED acts

Return ==
    /\ pc = "body" /\ Len(acts) > 1
    /\ acts' = SubSeq(acts, 1, Len(acts) - 1)
    /\ UNCHANGED <<pc, goal, rax, hops>>

Next ==
    \/ \E g \in Functions : Call(g) \/ Find(g)
    \/ Hop \/ Enter \/ Found \/ Return

Spec == Init /\ [][Next]_vars

\* A traversal ends at the activation the language means, however the
\* functions are nested and however often each of them is active.
ReachesFrame == pc # "body" /\ hops = 0 => rax = Running.env[Target]

\* Every activation is linked to the activation its function was declared in.
LinkedToOuter ==
    \A i \in 2..Len(acts) : acts[i].link = acts[i].env[Outer[acts[i].fn]]
===============================================================================
