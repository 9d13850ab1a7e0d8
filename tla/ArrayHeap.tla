-------------------------------- MODULE ArrayHeap --------------------------------
(***************************************************************************)
(* The arrays of a compiled program: the assembly routines _better_alloc   *)
(* and _initialize_array that ir_codegen.c emits, the code a declaration   *)
(* calls them with, and the address an index expression computes.  A step  *)
(* is a stretch of a routine between two labels or calls.                  *)
(*                                                                         *)
(* An address counts quadwords from heap; the heap is zero until written.  *)
(* An array has its element size at its base, then its dimensions, the     *)
(* number of its elements and a reference count, then its elements, which  *)
(* are the bases of its rows when it has more than one dimension.          *)
(***************************************************************************)
EXTENDS Indexing

CONSTANTS
    Shapes,      \* the sizes a program declares arrays with
    Values,      \* what it stores in an element, once they exist
    MaxArrays,   \* bounds on a run
    MaxStores

ASSUME ShapeAssumption ==
    /\ Shapes \subseteq Seq(Nat) \ {<<>>} /\ Values \subseteq Int
    /\ {MaxArrays, MaxStores} \subseteq Nat

VARIABLES
    heap, heap_pointer,
    reg,       \* the registers the routines use
    stack, rbp,
    pc,        \* a label of the code, "main" between statements
    sizes,     \* of the declaration that is running, <<>> for none
    bases,     \* the arrays declared so far: where they are, their sizes
    stores

vars == <<heap, heap_pointer, reg, stack, rbp, pc, sizes, bases, stores>>

\* The registers of a program's temporaries that the routines use or save, and
\* the others.
Temporaries == {"r8", "r9", "r10", "r11", "r12", "rbx"}
Registers   == Temporaries \cup {"rax", "rdi", "rsi"}

\* What the program keeps in its registers, as numbers that are no addresses.
Kept(r) == CASE r = "r8" -> -8 [] r = "r9" -> -9 [] r = "r10" -> -10
             [] r = "r11" -> -11 [] r = "r12" -> -12 [] r = "rbx" -> -13
             [] OTHER -> 0

\* Return addresses are where a call continues; on the stack, their number.
Returns == <<"declared", "keep_row", "initialised", "next_row">>
Return(label) == -(100 + CHOOSE k \in DOMAIN Returns : Returns[k] = label)
Continues(v)  == IF -v - 100 \in DOMAIN Returns THEN Returns[-v - 100] ELSE "lost"

Word(a)      == IF a \in DOMAIN heap THEN heap[a] ELSE 0
Written(h, ws) == [a \in DOMAIN h \cup DOMAIN ws |-> IF a \in DOMAIN ws THEN ws[a] ELSE h[a]]
Popped(s, n) == SubSeq(s, 1, Len(s) - n)

\* Mutant: r12 is not among the registers saved.
Mutantalloc_saves == <<"r8", "r9", "r10", "r11", "rbx", "rbx">>
\* What the prologues push, in that order.
alloc_saves == <<"r8", "r9", "r10", "r11", "r12", "rbx">>
init_saves  == <<"r8", "r9", "r10", "r11", "rbx">>

Pushed(saves) == Append(stack, rbp) \o [k \in DOMAIN saves |-> reg[saves[k]]]

\* The epilogue: saves popped off a stack, then rsp from rbp, rbp and the return.
Epilogue(saves, s, r) ==
    /\ reg' = [x \in Registers |->
                 IF \E k \in DOMAIN saves : saves[k] = x
                   THEN s[Len(s) - Len(saves) + CHOOSE k \in DOMAIN saves : saves[k] = x]
                   ELSE r[x]]
    /\ rbp' = stack[rbp]
    /\ pc' = Continues(stack[rbp - 1])
    /\ stack' = SubSeq(stack, 1, rbp - 2)

Init ==
    /\ heap = [a \in {} |-> 0] /\ heap_pointer = 0
    /\ reg = [r \in Registers |-> Kept(r)]
    /\ stack = <<>> /\ rbp = 0
    /\ pc = "main" /\ sizes = <<>>
    /\ bases = <<>> /\ stores = 0

(***************************************************************************)
(* A_ARRAY_DECL: the sizes are pushed, the first one last, and rsi is the  *)
(* number of dimensions; with values, _initialize_array is called next.    *)
(***************************************************************************)
Declare(s) ==
    /\ pc = "main" /\ Len(bases) < MaxArrays
    /\ reg' = [reg EXCEPT !["rdi"] = 8, !["rsi"] = Len(s)]
    /\ stack' = Append(stack \o Reverse(s), Return("declared"))
    /\ sizes' = s
    /\ pc' = "alloc"
    /\ UNCHANGED <<heap, heap_pointer, rbp, bases, stores>>

\* The array is bound to the register the address is moved to.
Bound(base) == bases' = Append(bases, [base |-> base, sizes |-> sizes])

Declared ==
    /\ pc = "declared"
    /\ stack' = Popped(stack, Len(sizes))
    /\ Bound(reg["rax"])
    /\ pc' = "main" /\ sizes' = <<>>
    /\ UNCHANGED <<heap, heap_pointer, reg, rbp, stores>>

\* The values of an array are at an address of their own in the data section;
\* the value at address k there is k.
Data == 10 * (Len(bases) + 1)

Initialise ==
    /\ pc = "declared" /\ \A d \in DOMAIN sizes : sizes[d] > 0
    /\ stack' = Append(Popped(stack, Len(sizes)), Return("initialised"))
    /\ reg' = [reg EXCEPT !["rdi"] = reg["rax"], !["rsi"] = Data]
    /\ pc' = "init"
    /\ UNCHANGED <<heap, heap_pointer, rbp, sizes, bases, stores>>

Initialised ==
    /\ pc = "initialised"
    /\ Bound(reg["rax"])
    /\ pc' = "main" /\ sizes' = <<>>
    /\ UNCHANGED <<heap, heap_pointer, reg, stack, rbp, stores>>

(***************************************************************************)
(* _better_alloc.                                                          *)
(***************************************************************************)

\* Mutant: the header is not counted.
MutantRoom(n) == n
\* The quadwords of an array with n elements.
Room(n) == 4 + n

\* Up to the test of the dimensions; the base is pushed last.
Alloc ==
    /\ pc = "alloc"
    /\ LET base == heap_pointer
           n    == stack[Len(stack) - 1]
       IN  /\ stack' = Append(Pushed(alloc_saves), base)
           /\ rbp' = Len(stack) + 1
           /\ heap' = Written(heap, [a \in base..(base + 3) |->
                         CASE a = base -> 1 [] a = base + 1 -> reg["rsi"]
                           [] a = base + 2 -> n [] a = base + 3 -> 1])
           /\ heap_pointer' = base + Room(n)
           /\ reg' = [reg EXCEPT !["r8"] = base + 4, !["r9"] = n,
                                 !["r10"] = base + Room(n), !["r12"] = base]
    /\ pc' = IF reg["rsi"] = 1 THEN "end_alloc" ELSE "get_stack_variables"
    /\ UNCHANGED <<sizes, bases, stores>>

\* The sizes of the rows, the last one first, among the arguments.
RowSizes(n) == [k \in 1..n |-> stack[rbp - 3 - n + k]]

\* The sizes of the rows are pushed again for the calls that make the rows.
GetStackVariables ==
    /\ pc = "get_stack_variables"
    /\ LET n == reg["rsi"] - 1
       IN  /\ stack' = stack \o RowSizes(n)
           /\ reg' = [reg EXCEPT !["rsi"] = n, !["rbx"] = heap_pointer,
                                 !["r11"] = stack[rbp - 3]]
    /\ pc' = "allocate_sub_arrays"
    /\ UNCHANGED <<heap, heap_pointer, rbp, sizes, bases, stores>>

AllocateSubArrays ==
    /\ pc = "allocate_sub_arrays"
    /\ stack' = Append(stack, Return("keep_row"))
    /\ pc' = "alloc"
    /\ UNCHANGED <<heap, heap_pointer, reg, rbp, sizes, bases, stores>>

\* Until the rows fill the elements; then the sizes are dropped.
KeepRow ==
    /\ pc = "keep_row"
    /\ heap' = Written(heap, [a \in {reg["r8"]} |-> reg["rax"]])
    /\ IF reg["r8"] + 1 < reg["rbx"]
         THEN pc' = "allocate_sub_arrays" /\ UNCHANGED stack
         ELSE pc' = "end_alloc" /\ stack' = Popped(stack, reg["rsi"])
    /\ reg' = [reg EXCEPT !["r8"] = @ + 1]
    /\ UNCHANGED <<heap_pointer, rbp, sizes, bases, stores>>

EndAlloc ==
    /\ pc = "end_alloc"
    /\ Epilogue(alloc_saves, Front(stack), [reg EXCEPT !["rax"] = Last(stack)])
    /\ UNCHANGED <<heap, heap_pointer, sizes, bases, stores>>

(***************************************************************************)
(* _initialize_array.                                                      *)
(***************************************************************************)
InitializeArray ==
    /\ pc = "init"
    /\ LET array == reg["rdi"]
           leaf  == Word(array + 1) = 1
       IN  /\ stack' = Pushed(init_saves) \o (IF leaf THEN <<>> ELSE <<array>>)
           /\ pc' = IF leaf THEN "values" ELSE "recurse_subarrays"
           /\ reg' = [reg EXCEPT !["r8"] = array + 4, !["r9"] = Word(array + 2),
                                 !["r10"] = Word(array + 1), !["rbx"] = 0]
    /\ rbp' = Len(stack) + 1
    /\ UNCHANGED <<heap, heap_pointer, sizes, bases, stores>>

RecurseSubArrays ==
    /\ pc = "recurse_subarrays"
    /\ stack' = stack \o <<reg["rbx"], Return("next_row")>>
    /\ reg' = [reg EXCEPT !["rdi"] = Word(reg["r8"])]
    /\ pc' = "init"
    /\ UNCHANGED <<heap, heap_pointer, rbp, sizes, bases, stores>>

\* rbx comes back from the stack; the address of the array after the last row.
NextRow ==
    /\ pc = "next_row"
    /\ LET rbx  == Last(stack) + 1
           more == rbx # reg["r9"]
       IN  /\ stack' = Popped(stack, IF more THEN 1 ELSE 2)
           /\ reg' = [reg EXCEPT !["rbx"] = rbx, !["r8"] = @ + 1,
                                 !["rdi"] = IF more THEN @ ELSE Last(Front(stack))]
           /\ pc' = IF more THEN "recurse_subarrays" ELSE "end_init"
    /\ UNCHANGED <<heap, heap_pointer, rbp, sizes, bases, stores>>

\* rsi goes on through the rows.
PutValue ==
    /\ pc = "values"
    /\ heap' = Written(heap, [a \in {reg["r8"]} |-> reg["rsi"]])
    /\ reg' = [reg EXCEPT !["r8"] = @ + 1, !["rsi"] = @ + 1, !["rbx"] = @ + 1,
                          !["r10"] = reg["rsi"]]
    /\ pc' = IF reg["rbx"] + 1 # reg["r9"] THEN "values" ELSE "end_init"
    /\ UNCHANGED <<heap_pointer, stack, rbp, sizes, bases, stores>>

EndInit ==
    /\ pc = "end_init"
    /\ Epilogue(init_saves, stack, reg)
    /\ UNCHANGED <<heap, heap_pointer, sizes, bases, stores>>

(***************************************************************************)
(* A_INDEX_EXPR: an index at a time, past the header by index times the    *)
(* element size, and through the base of a row to the next.                *)
(***************************************************************************)
Address(base, ix) ==
    LET at(b, i) == b + 4 + i * Word(b)
    IN  at(FoldLeft(LAMBDA b, i : Word(at(b, i)), base, Front(ix)), Last(ix))

Elements(a) ==
    [ix \in Indices(bases[a].sizes) |-> Word(Address(bases[a].base, ix))]

\* An assignment to an element.
Store(a, ix, v) ==
    /\ pc = "main" /\ Len(bases) = MaxArrays /\ stores < MaxStores
    /\ heap' = Written(heap, [x \in {Address(bases[a].base, ix)} |-> v])
    /\ stores' = stores + 1
    /\ UNCHANGED <<heap_pointer, reg, stack, rbp, pc, sizes, bases>>

Next ==
    \/ \E s \in Shapes : Declare(s)
    \/ Declared \/ Initialise \/ Initialised
    \/ Alloc \/ GetStackVariables \/ AllocateSubArrays \/ KeepRow \/ EndAlloc
    \/ InitializeArray \/ RecurseSubArrays \/ NextRow \/ PutValue \/ EndInit
    \/ \E a \in DOMAIN bases : \E ix \in Indices(bases[a].sizes), v \in Values :
         Store(a, ix, v)

Spec == Init /\ [][Next]_vars

(***************************************************************************)
(* Properties.                                                             *)
(***************************************************************************)

\* Read through the addresses that index expressions compute, the arrays on
\* the heap are arrays: no two elements share an address, none lies in a
\* header, values are where the declaration writes them, and allocating
\* changes nothing that is there.
Arrays == INSTANCE AbstractArrays WITH
    arrays   <- [a \in DOMAIN bases |-> Elements(a)],
    Contents <- {[k \in 1..9 |-> 10 * n + k - 1] : n \in 1..MaxArrays}
BehavesAsArrays == Arrays!Spec

\* The routines call themselves and save what they use: what _better_alloc is
\* about to pop into rax is the address its call began to write the array at,
\* and a declaration leaves the program's temporaries, the stack and the frame
\* pointer as they were.
RegistersKept ==
    /\ pc = "end_alloc" => Last(stack) = reg["r12"]
    /\ pc = "main" => /\ \A r \in Temporaries : reg[r] = Kept(r)
                      /\ stack = <<>> /\ rbp = 0
===============================================================================
