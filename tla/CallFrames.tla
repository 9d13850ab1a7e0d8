------------------------------- MODULE CallFrames -------------------------------
(***************************************************************************)
(* The calling convention of the code ir_codegen.c emits, executed: the    *)
(* stack, the registers and the frame pointer, operation by operation, of  *)
(* any run of the given functions.  A value is named for what it is, so    *)
(* that a register or a slot can be asked whether it still holds what the  *)
(* program put there: <<"temp", i, c>> is what activation i computed into  *)
(* register c, <<"param", i, k>> and <<"var", i, v>> are its parameters    *)
(* and variables, <<"fp", a>> the address a of a frame, <<"return", i>>    *)
(* the return into activation i.                                           *)
(*                                                                         *)
(* Addresses count quadwords from the module's frame, at 0: [rbp+8j] is    *)
(* stack[rbp - j], and rsp is the length of the stack.                     *)
(***************************************************************************)
EXTENDS FrameLayout, SequencesExt

CONSTANTS
    Params,           \* how many parameters each function has
    Calls,            \* the functions each function calls
    Live,             \* registers whose value is used after a call
    Captures,         \* <<h, kind, v>>: variables v of h a function reads
    Divides,          \* functions with a division
    Arrays,           \* functions that declare arrays
    Strings,          \* registers in which a function has strings it prints
    Orderly,          \* no argument is read from a register already overwritten
    NestedArguments,  \* a call may be among the later arguments of another
    LazyArguments,    \* a lazy logical expression may be among them
    Reprints,         \* a string in a register may be used after it is printed
    MaxActive         \* bound on the activations at one time

Kinds == {"var", "param"}

ASSUME ProgramAssumption ==
    /\ Params \in [Functions -> Nat] /\ Params[Module] = 0
    /\ \A f \in Functions :
         /\ Calls[f] \subseteq Visible(f)
         /\ Live[f] \subseteq Written[f] /\ Strings[f] \subseteq Written[f]
         /\ \A c \in Captures[f] :
              /\ c[1] \in Enclosing[f]
              /\ c[2] \in Kinds /\ (c[2] = "param" => c[1] # f)
              /\ c[3] \in DOMAIN Numbered(c[1], c[2])
    /\ Divides \cup Arrays \subseteq Functions
    /\ {Orderly, NestedArguments, LazyArguments, Reprints} \subseteq BOOLEAN
    /\ MaxActive \in Nat \ {0}

VARIABLES
    stack, reg, rbp,
    acts,      \* the activations: what the compiler knows at the operation
               \* each is at, and for the properties what is meant
    pc,        \* "body", "call", "find", "pop", or "lost" when control is
    goal, rax, hops,
    sought     \* the variable a "find" is after

vars == <<stack, reg, rbp, acts, pc, goal, rax, hops, sought>>

\* RDI, RSI, RCX and RDX by their number as parameter registers.
ParamReg(k) == MAX_REG + 2 + k
ParamRegs   == {ParamReg(k) : k \in 0..3}
Registers   == 1..MAX_REG \cup ParamRegs
Junk        == <<"junk">>

n       == Len(acts)
Running == acts[n]
P       == Params[Running.fn]
call    == Last(Running.calls)     \* the call being prepared or made

Least(a, b)  == IF a < b THEN a ELSE b
Read(a)      == IF a \in DOMAIN stack THEN stack[a] ELSE Junk
Address(v)   == IF v[1] = "fp" THEN v[2] ELSE -1
Link(fp)     == Address(Read(fp - 2))
Unwound(rsp) == SubSeq(stack, 1, rsp)
\* Mutant: pushed in the order they are popped in.
MutantSaved(from, to) == [i \in 1..(to - from) |-> reg[ParamReg(to - i)]]
\* The parameter registers from..to - 1 of the running function, in order.
Saved(from, to) == [i \in 1..(to - from) |-> reg[ParamReg(from + i - 1)]]
\* The registers after popping back what Saved pushed.
Restored(from, to, s) ==
    [c \in Registers |->
       IF \E k \in from..(to - 1) : c = ParamReg(k)
         THEN s[Len(s) - (to - 1 - (c - ParamReg(0)))] ELSE reg[c]]

\* An activation of f.  count is the param_count of the segment it is in: the
\* arguments passed there and not yet popped.
NewActivation(f, fp, env) ==
    [fn |-> f, fp |-> fp, env |-> env, holds |-> {}, declared |-> {},
     count |-> 0, calls |-> <<>>]

Init ==
    /\ stack = [i \in 1..max_offset[Module] |-> Junk]
    /\ reg = [c \in Registers |-> Junk] /\ rbp = 0
    /\ acts = << NewActivation(Module, 0,
                   [h \in Functions |-> IF h = Module THEN 1 ELSE 0]) >>
    /\ pc = "body" /\ goal = Module /\ rax = 0 /\ hops = 0 /\ sought = <<>>

(***************************************************************************)
(* Computing, declaring and printing.                                      *)
(***************************************************************************)

\* Any operation whose result is the temporary in register c; the registers
\* a function uses are filled lowest first.
Compute(c) ==
    /\ pc = "body" /\ c \in Written[Running.fn] \ Running.holds
    /\ \A d \in Written[Running.fn] \ Running.holds : c <= d
    /\ reg' = [reg EXCEPT ![c] = <<"temp", n, c>>]
    /\ acts' = [acts EXCEPT ![n].holds = @ \cup {c}]
    /\ UNCHANGED <<stack, rbp, pc, goal, rax, hops, sought>>

Variables(f) == DOMAIN locals[f]

\* IR_VAR_DECL of a variable that escapes, once its value is computed: stored
\* at its offset.
Declare(v) ==
    /\ pc = "body" /\ Running.calls = <<>> /\ Running.holds # {}
    /\ v \in Variables(Running.fn) \ Running.declared
    /\ \A w \in Variables(Running.fn) \ Running.declared : v <= w
    /\ stack' = [stack EXCEPT ![rbp + Offset(Running.fn, "var", v)] = <<"var", n, v>>]
    /\ acts' = [acts EXCEPT ![n].declared = @ \cup {v}]
    /\ UNCHANGED <<reg, rbp, pc, goal, rax, hops, sought>>

\* IR_DIV clears rdx and saves it only in a function with four parameters.
Divide ==
    /\ pc = "body" /\ Running.fn \in Divides /\ P <= 3
    /\ reg' = [reg EXCEPT ![ParamReg(3)] = Junk]
    /\ UNCHANGED <<stack, rbp, acts, pc, goal, rax, hops, sought>>

\* The registers after an IR_PRINT, which pushes the function's register
\* parameters, calls a routine that overwrites all four registers, and pops.
Printed ==
    LET top == stack \o Saved(0, Least(P, 4))
    IN  [c \in Registers |->
           IF c \in ParamRegs /\ c >= ParamReg(P) THEN Junk
           ELSE Restored(0, Least(P, 4), top)[c]]

PrintValue ==
    /\ pc = "body" /\ Running.calls = <<>>
    /\ reg' = Printed
    /\ UNCHANGED <<stack, rbp, acts, pc, goal, rax, hops, sought>>

\* Printing the string whose address is in register c: its length is read from
\* there, and the register itself is moved past the length.
PrintString(c) ==
    /\ pc = "body" /\ Running.calls = <<>>
    /\ c \in Running.holds \cap Strings[Running.fn]
    /\ reg' = [Printed EXCEPT ![c] = Junk]
    /\ acts' = [acts EXCEPT ![n].holds = IF Reprints THEN @ ELSE @ \ {c}]
    /\ UNCHANGED <<stack, rbp, pc, goal, rax, hops, sought>>

\* Whether an IR_PARAM, the k-th from 0, saves the register it is about to
\* overwrite, and an IR_POP_PARAM with k parameters left restores one.
Saves(k)    == P > 0 /\ k <= P
\* Mutant: the last parameter is left on the stack.
MutantRestores(k) == k < P
Restores(k) == k <= P

\* An array declaration: two parameters, the dimensions on the stack, a
\* runtime routine, and the pops of all of them.
DeclareArray ==
    /\ pc = "body" /\ Running.calls = <<>> /\ Running.fn \in Arrays
    /\ LET pushed == Saved(0, IF Saves(1) THEN 2 ELSE IF Saves(0) THEN 1 ELSE 0)
           popped == IF Restores(2) THEN 2 ELSE IF Restores(1) THEN 1 ELSE 0
           top    == stack \o pushed
       IN  /\ stack' = SubSeq(top, 1, Len(top) - popped)
           /\ reg' = [c \in Registers |->
                        IF c \in {ParamReg(k) : k \in popped..1} THEN Junk
                        ELSE Restored(0, popped, top)[c]]
    /\ UNCHANGED <<rbp, acts, pc, goal, rax, hops, sought>>

(***************************************************************************)
(* Calls.                                                                  *)
(***************************************************************************)

\* The arguments of a call to g are about to be evaluated.  Every register
\* the function uses holds a value then: the most a call can destroy.  The
\* module calls main when all its declarations have run.
StartCall(g) ==
    /\ pc = "body" /\ g \in Calls[Running.fn] /\ n < MaxActive
    /\ Running.holds = Written[Running.fn]
    /\ Running.fn = Module => Running.declared = Variables(Module)
    /\ Running.calls = <<>> \/ Running.count = 0 \/ NestedArguments
    /\ Len(Running.calls) < 2
    /\ acts' = [acts EXCEPT ![n].calls = Append(@, [fn |-> g, args |-> <<>>, pops |-> 0])]
    /\ UNCHANGED <<stack, reg, rbp, pc, goal, rax, hops, sought>>

\* What the program means by the temporary in register c.
Meant(c) == IF c <= MAX_REG THEN <<"temp", n, c>> ELSE <<"param", n, c - MAX_REG - 1>>
\* The registers an argument may be in: a value computed, or a parameter.
Sources  == Running.holds
            \cup {ParamReg(k) : k \in (IF Orderly THEN Running.count ELSE 0)..Least(P, 4) - 1}

\* IR_PARAM: the first four parameters go into registers, the others, last
\* one first, onto the stack.
Argument(c) ==
    /\ pc = "body" /\ Running.calls # <<>> /\ Len(call.args) < Params[call.fn]
    /\ c \in Sources
    /\ LET k == Running.count
       IN  IF k < 4
             THEN /\ stack' = IF Saves(k) THEN Append(stack, reg[ParamReg(k)]) ELSE stack
                  /\ reg' = [reg EXCEPT ![ParamReg(k)] = reg[c]]
             ELSE stack' = Append(stack, reg[c]) /\ reg' = reg
    /\ acts' = [acts EXCEPT ![n].count = @ + 1,
                            ![n].calls[Len(Running.calls)].args = Append(@, Meant(c))]
    /\ UNCHANGED <<rbp, pc, goal, rax, hops, sought>>

\* Control goes on in another segment of the function, in which param_count
\* starts at 0: between statements, and where a lazy logical expression is
\* evaluated, which may be an argument.
NextSegment ==
    /\ pc = "body"
    /\ Running.calls = <<>> \/ Running.count = 0 \/ LazyArguments
    /\ acts' = [acts EXCEPT ![n].count = 0]
    /\ UNCHANGED <<stack, reg, rbp, pc, goal, rax, hops, sought>>

\* Mutant: the depth of the function called, not of the one it is declared in.
MutantSeek(target) ==
    IF Depth[Running.fn] = Depth[target]
      THEN rax' = rbp /\ hops' = 0
      ELSE rax' = Link(rbp) /\ hops' = (Depth[Running.fn] - 1) - (Depth[target] + 1)

\* The first loads of a traversal from the running frame to the target's.
Seek(target) ==
    IF Depth[Running.fn] = Depth[target]
      THEN rax' = rbp /\ hops' = 0
      ELSE rax' = Link(rbp) /\ hops' = (Depth[Running.fn] - 1) - Depth[target]

\* IR_CALL up to the traversal: the parameter registers that no argument has
\* displaced are pushed, and the static link is sought.
MakeCall ==
    /\ pc = "body" /\ Running.calls # <<>> /\ Len(call.args) = Params[call.fn]
    /\ stack' = stack \o Saved(Running.count, Least(P, 4))
    /\ Seek(Outer[call.fn])
    /\ pc' = "call" /\ goal' = call.fn
    /\ UNCHANGED <<reg, rbp, acts, sought>>

\* Mutant: every step starts again from rbp.
MutantHop ==
    /\ pc \in {"call", "find"} /\ hops > 0
    /\ rax' = Link(rbp) /\ hops' = hops - 1
    /\ UNCHANGED <<stack, reg, rbp, acts, pc, goal, sought>>

Hop ==
    /\ pc \in {"call", "find"} /\ hops > 0
    /\ rax' = Link(rax) /\ hops' = hops - 1
    /\ UNCHANGED <<stack, reg, rbp, acts, pc, goal, sought>>

Idle == goal' = Module /\ rax' = 0 /\ hops' = 0 /\ sought' = <<>>

\* The parameter the i-th of the arguments, in the order they are passed, is for.
ParamOf(i, count) == IF i <= 4 THEN i ELSE count + 5 - i
\* v is named as parameter k of a new activation if it is what was passed.
Received(v, k) ==
    IF \E i \in DOMAIN call.args : ParamOf(i, Len(call.args)) = k /\ call.args[i] = v
      THEN <<"param", n + 1, k>> ELSE Junk

\* The pushes of the link, the return address and rbp, and the prologue.
Enter ==
    /\ pc = "call" /\ hops = 0
    /\ LET g     == call.fn
           rest  == [i \in 1..Len(stack) |->
                       IF i \in Len(stack) - (Params[g] - 5)..Len(stack)
                         THEN Received(stack[i], 5 + (Len(stack) - i)) ELSE stack[i]]
           frame == [i \in 1..max_offset[g] |->
                       IF i <= regs_used[g] THEN reg[regs_used[g] + 1 - i] ELSE Junk]
       IN  /\ stack' = rest \o << <<"fp", rax>>, <<"return", n>>, <<"fp", rbp>> >> \o frame
           /\ rbp' = Len(stack) + 3
           /\ reg' = [c \in Registers |->
                        IF \E k \in 1..Params[g] : c = ParamReg(k - 1) /\ k <= 4
                          THEN Received(reg[c], c - MAX_REG - 1) ELSE reg[c]]
           /\ acts' = Append([acts EXCEPT ![n].holds = @ \cap Live[Running.fn],
                                       ![n].calls[Len(Running.calls)].args = <<>>],
                NewActivation(g, Len(stack) + 3,
                  [h \in Functions |-> IF h = g THEN n + 1
                                       ELSE IF h \in Enclosing[g] THEN Running.env[h] ELSE 0]))
    /\ pc' = "body" /\ Idle

\* The arguments have all been popped again.
EndCall(a) == [a EXCEPT ![Len(a)].calls = Front(@)]

\* What is left of an activation's values when it has returned.
Forget(v) == IF Len(v) = 3 /\ v[2] = n THEN Junk ELSE v

\* IR_RET, and the rest of the caller's IR_CALL.
Return ==
    /\ pc = "body" /\ Running.calls = <<>> /\ n > 1
    /\ LET f      == Running.fn
           top    == Len(stack) - (max_offset[f] - regs_used[f])
           popped == [c \in Registers |-> IF c <= regs_used[f] THEN Read(top + 1 - c) ELSE reg[c]]
           caller == acts[n - 1]
           kept   == Least(Params[caller.fn], 4)
           below  == rbp - 3          \* rbp, the return address and the link popped
           saved  == IF kept > caller.count THEN kept - caller.count ELSE 0
           pops   == Least(Params[f], 4) + (IF Params[f] > 4 THEN 1 ELSE 0)
           rest   == [acts EXCEPT ![n - 1].calls[Len(caller.calls)].pops = pops]
       IN  IF Read(rbp - 1) # <<"return", n - 1>> \/ Read(rbp)[1] # "fp"
             THEN pc' = "lost" /\ UNCHANGED <<stack, reg, rbp, acts>>
             ELSE /\ rbp' = Address(Read(rbp))
                  /\ stack' = [i \in 1..(below - saved) |-> Forget(stack[i])]
                  /\ reg' = [c \in Registers |->
                               IF c >= ParamReg(caller.count) /\ c < ParamReg(kept)
                                 THEN Forget(Read(below - (ParamReg(kept) - 1 - c)))
                                 ELSE Forget(popped[c])]
                  /\ acts' = IF pops = 0 THEN EndCall(Front(rest)) ELSE Front(rest)
                  /\ pc' = IF pops = 0 THEN "body" ELSE "pop"
    /\ UNCHANGED <<goal, rax, hops, sought>>

\* IR_POP_PARAM: the arguments on the stack go at once, the registers the
\* others displaced come back one by one.
PopParam ==
    /\ pc = "pop"
    /\ LET k == Running.count
           a == [acts EXCEPT ![n].count = IF k > 4 THEN 4 ELSE k - 1,
                             ![n].calls[Len(Running.calls)].pops = @ - 1]
       IN  /\ stack' = IF k > 4 THEN Unwound(Len(stack) - (Params[call.fn] - 4))
                       ELSE IF Restores(k) THEN Unwound(Len(stack) - 1) ELSE stack
           /\ reg' = IF k <= 4 /\ Restores(k)
                       THEN [reg EXCEPT ![ParamReg(k - 1)] = Read(Len(stack))] ELSE reg
           /\ acts' = IF call.pops = 1 THEN EndCall(a) ELSE a
           /\ pc' = IF call.pops = 1 THEN "body" ELSE "pop"
    /\ UNCHANGED <<rbp, goal, rax, hops, sought>>

(***************************************************************************)
(* Access to the variables that escape.                                    *)
(***************************************************************************)

\* CG_var_address: the frame of the owner is found, then the variable in it.
Find(h, kind, v) ==
    /\ pc = "body" /\ <<h, kind, v>> \in Captures[Running.fn]
    /\ kind = "var" => v \in acts[Running.env[h]].declared
    /\ Seek(h)
    /\ pc' = "find" /\ goal' = h /\ sought' = <<kind, v>>
    /\ UNCHANGED <<stack, reg, rbp, acts>>

Found ==
    /\ pc = "find" /\ hops = 0
    /\ pc' = "body" /\ Idle
    /\ UNCHANGED <<stack, reg, rbp, acts>>

Next ==
    \/ \E c \in Registers : Compute(c) \/ Argument(c) \/ PrintString(c)
    \/ \E v \in Variables(Running.fn) : Declare(v)
    \/ \E c \in Captures[Running.fn] : Find(c[1], c[2], c[3])
    \/ \E g \in Functions : StartCall(g)
    \/ Divide \/ PrintValue \/ DeclareArray \/ NextSegment
    \/ MakeCall \/ Hop \/ Enter \/ Return \/ PopParam \/ Found

Spec == Init /\ [][Next]_vars

(***************************************************************************)
(* Properties.                                                             *)
(***************************************************************************)

Value ==
    {Junk} \cup ({"fp", "return"} \X Nat)
           \cup ({"temp", "param", "var"} \X (1..MaxActive) \X Nat)

TypeOK ==
    /\ stack \in Seq(Value) /\ reg \in [Registers -> Value]
    /\ rbp \in 0..Len(stack) /\ rax \in 0..Len(stack)
    /\ n <= MaxActive /\ goal \in Functions /\ hops \in Nat
    /\ \A i \in 1..n : acts[i].holds \subseteq Written[acts[i].fn]

\* Between two statements the frame is exactly as long as the prologue made
\* it and rbp is where it left it: whatever was pushed for calls, arguments,
\* prints and arrays is gone, and control never returns to a wrong place.
FrameBalanced ==
    /\ pc # "lost"
    /\ pc = "body" /\ Running.calls = <<>> =>
         rbp = Running.fp /\ Len(stack) = rbp + max_offset[Running.fn]

\* A temporary that is used after a call has its value then: the callee saved
\* every register it uses, and nothing it stores lands on what it saved.
TempsKept ==
    pc = "body" => \A c \in Running.holds : reg[c] = <<"temp", n, c>>

\* The parameters a function reads are what its caller passed, in registers
\* and above the frame, and still are after calls that displaced them.
ParametersKept ==
    pc = "body" => \A k \in Running.count + 1..P :
      (IF k <= 4 THEN reg[ParamReg(k - 1)] ELSE Read(Running.fp - (k - 2)))
        = <<"param", n, k>>

\* A traversal ends where the captured variable of the right activation is:
\* an escaping variable in its slot, a parameter where its owner pushed it.
CapturedFound ==
    pc = "find" /\ hops = 0 =>
      Read(rax + Offset(goal, sought[1], sought[2]))
        = <<sought[1], Running.env[goal], sought[2]>>

(***************************************************************************)
(* The programs the generated code is right for: the conditions under      *)
(* which the properties above hold whatever the other constants are.       *)
(***************************************************************************)

\* What is pushed is popped: no call and no lazy logical expression among the
\* later arguments of a call, no function with parameters passes more of them
\* in registers than it has, an array is not declared with one parameter, and
\* a variable that escapes is stored after a register of the function has held
\* its value.
Balanced ==
    /\ ~NestedArguments /\ ~LazyArguments
    /\ \A f \in Functions : \A g \in Calls[f] : Params[f] = 0 \/ Least(Params[g], 4) <= Params[f]
    /\ \A f \in Arrays : Params[f] # 1
    /\ \A f \in Functions \ {Module} : Variables(f) # {} => regs_used[f] > 0

\* The registers g restores: the first variable that escapes takes the slot of
\* the last one pushed.
SavedBy(g) == IF Variables(g) = {} THEN 1..regs_used[g] ELSE 2..regs_used[g]

\* No register is used after its value is lost: a string is printed once, and
\* each function called, and each it calls itself, restores or leaves alone the
\* registers keeps gives it.
Keeps(keeps) ==
    /\ ~Reprints
    /\ keeps \in [Functions -> SUBSET (1..MAX_REG)]
    /\ \A f \in Functions : \A g \in Calls[f] :
         /\ Live[f] \subseteq keeps[g]
         /\ keeps[f] \ SavedBy(f) \subseteq keeps[g]
    /\ \A g \in Functions : \A c \in keeps[g] \ SavedBy(g) :
         c > regs_used[g] /\ c \notin Written[g]

\* No argument is read from a register already overwritten, and a division
\* does not destroy a fourth argument.
Passed ==
    /\ Orderly
    /\ \A f \in Divides : Params[f] <= 3 => \A g \in Calls[f] : Params[g] <= 3

\* The parameters that escape are the first ones, in order, and in registers.
EscapeInOrder ==
    \A f \in Functions : \A k \in DOMAIN escapes[f] :
      k \in 1..Least(Params[f], 4) /\ escapes[f][k] = k

(***************************************************************************)
(* The links in memory behave as StaticLinks says: an activation is linked *)
(* to the one whose frame the word above its return address points at.     *)
(***************************************************************************)
FrameAt(fp) == IF \E i \in 1..n : acts[i].fp = fp
                 THEN CHOOSE i \in 1..n : acts[i].fp = fp ELSE 0
LinkedActs  == [i \in 1..n |-> [fn   |-> acts[i].fn, env |-> acts[i].env,
                                link |-> IF i = 1 THEN 0 ELSE FrameAt(Link(acts[i].fp))]]
Walking     == pc \in {"call", "find"}

Links == INSTANCE StaticLinks WITH
    acts <- LinkedActs, pc <- IF Walking THEN pc ELSE "body",
    rax  <- IF Walking THEN FrameAt(rax) ELSE 0

FollowsLinks == Links!Spec
===============================================================================
