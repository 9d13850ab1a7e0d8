# A verification project for the OC compiler

The repository is a compiler for the small imperative language OC: `frontend.c`
runs a bison parser, a scope checker, a type checker, constant folding, the
generation of an intermediate representation (IR) with liveness analysis, a
graph-colouring register allocator and a generator of x86-64 assembly, one after
the other and in one process. This directory holds TLA+ modules translated from
that code, TLC configurations that check them on small instances, and proofs
that TLAPS checks.

The compiler has no concurrency, nothing persistent and no messages. What is hard
about it is of another kind: linked data structures that are changed in many
orders, work lists that wait for each other, passes that start again on the
result of the last one, phases that each read what an earlier one left, and
shapes of input programs that nobody wrote a test for.

## Inventory

All paths are below `src/frontend`.

| component | state | operations | used by | what makes it correct |
|---|---|---|---|---|
| linked list (`linked_list.c`) | head, tail and size of a list; next, prev and data of a node; the heap | new, delete, append, pop_front, find, remove, put_front, put_next, copy_to | everything | both directions and the size agree; lists share no node; a list is a sequence |
| hash map (`hashmap.c`) | buckets of entries, the list of keys, size | create, insert, delete, get, contains, destroy | symbol tables, locals of a frame, variables of a segment | a dictionary that lists its keys in order; no freed entry is reachable |
| symbol table (`symbol_table.c`) | a map and the outer table | insert, get, contains, delete, get_keys | scope and type checker, IR, code generation | the innermost binding wins; deletion removes that one |
| scope checker (`scope.c`) | current table, two nesting depths, flags | one case per node of the tree | driver | depths fit the static links generated later; a variable used in an inner function is marked escaping; every function returns |
| type checker (`type_checking.c`) | types of names, the return type | one case per node | driver | accepted programs have one type per expression |
| constant folding (`optimiser.c`) | the tree | one case per node | driver | folding keeps the value |
| IR generation (`ir.c` 1-1100) | frames, segments, the current segment, counters | one case per node, `CG_remove_segment` | driver | labels, left, right and pred describe one graph; each name finds its function |
| liveness (`ir.c` 1112-1339) | in and out of each operation, iteration of each segment, the work list | `liveness` | IR generation | it ends, and out is what the code still reads |
| register allocation (`register_allocation.c`) | interference graph, colours, three arrays of nodes | connect, simplify, sort, select, rewrite, remake | driver | live temporaries have different registers, parameters keep theirs |
| code generation (`ir_codegen.c`) | frame depth, offsets, registers used, output | one case per operation | driver | offsets are distinct, static links lead to the right frame, saved registers are those used |
| runtime (`ir_codegen.c` 1-310) | heap pointer | allocation, initialisation, printing | generated code | arrays do not overlap |
| lexer, parser (`rules.l`, `grammar.y`) | start conditions, positions | one action per rule | driver | comments and strings end where they should |
| driver (`frontend.c`) | the results of the phases | the phases | | no phase runs after a failed one |
| tree, errors (`ast.c`, `oc_errors.c`) | | constructors, printers | all | data only |
| superseded generator (`codegen.c`, `frontend_old.c`) | | | nobody | not part of the compiler |

Components talk by calls and by data left in shared structures: the IR keeps
pointers to the symbol tables, register allocation reads the out sets liveness
left and rewrites the operations, code generation reads the colours. The two
passes over segments (`liveness`, `connect_graph`) share the field `iteration`.

`PROJECT.json` lists the hazards at their lines, each with the properties that
would catch it going wrong, or with the reason why none does.

## Modules

| module | models | kind |
|---|---|---|
| `LinkedList` | `linked_list.c` | state machine over a finite heap |
| `AbstractList` | the promise of `linked_list.h` | abstract specification, implemented by `LinkedList` |
| `HashMap` | `hashmap.c` | state machine over a finite set of entries |
| `Dictionary` | the promise of `hashmap.h` | abstract specification, implemented by `HashMap` |
| `SymbolTable` | `symbol_table.c`: chains of tables | operators |
| `ScopeCheck` | `scope.c` on `SymbolTable` | state machine that makes up the tree it walks |
| `Expressions` | expressions of `ast.c`, literals and their widths, evaluation | recursive operators |
| `TypeCheck` | `type_checking.c` | state machine over the nodes of a tree |
| `ConstantFolding` | `optimiser.c`, run after `TypeCheck` | state machine over the same tree |
| `FunctionNames` | labels and frames of functions in `ir.c`, `symbol_table.c` with the order of keys | state machine that makes up the tree it walks |
| `IRGen` | control flow of `recurse_IR_tree` | recursive operators |
| `Liveness` | `liveness` of `ir.c` | state machine on the graphs of `IRGen` |
| `RegisterAllocation` | `register_allocation.c` without the rewriting of segments | state machine |
| `GraphColouring` | the promise of an allocator | abstract specification, implemented by `RegisterAllocation` |
| `Scoping` | the nesting of functions | constants and assumptions |
| `StaticLinks` | the traversals of `ir_codegen.c` next to the meaning of nesting | abstract specification, implemented by `CallFrames` |
| `FrameLayout` | offsets and saved registers of `ir_codegen.c` | functions over the segments of a frame |
| `CallFrames` | calls, frames, parameters and traversals, executed as emitted | state machine: stack and registers |
| `Indexing`, `AbstractArrays` | arrays as functions from indices to values | abstract specification, implemented by `ArrayHeap` |
| `ArrayHeap` | `_better_alloc`, `_initialize_array`, declarations and addresses | state machine: heap, stack and registers |
| `RegisterAllocationProofs`, `StaticLinksProofs`, `LinkedListProofs`, `HashMapProofs`, `ScopeCheckProofs`, `CallFramesProofs`, `ArrayHeapProofs` | the module each is named after | theorems |
| `ChainFacts` | chains of nodes linked by a pointer, and the least number principle | lemmas of the proofs above |
| `MC...` | | instances for TLC |

Definitions whose name begins with `Mutant` are not used by the specifications.
Each is a version of the definition that follows it with a bug in it, and a
property of the module fails when it takes that definition's place:
`PROJECT.json` says which.

### RegisterAllocation

One step per node or operation of each pass; `pc` is the pass and `i` its loop
index. `adj` is the adjacency matrix, `conn` the connections (a node's degree is
the number of them), `color` the colours, 0 for none. `LoadParam`,
`HandleOperation` and `NextFrame` are `connect_graph`; `Simplify` is
`RA_simplify` with `RA_disconnect_node`; `SortNode` is one insertion of
`sort_nodes`; `SelectSimple` and `SelectSpill` are the two loops of `RA_select`
and connect the node again; `Rebuild` is the loop of `register_allocation`
around `remake_graph`.

The operations of the compiled program are abstracted to their out sets, which may
be *any* sets of temporaries of one frame, in any order and number. That covers
every program and every liveness analysis, right or wrong. `Programs` gives the
number of temporaries, the frame of each and the parameters. `Rebuild` abstracts
`rewrite_program`: it adds some temporaries, or none.

An array entry 0 ends `simple` and `potential_spill` in the code; the model uses
the lengths of sequences. The branch `node->color > MAX_REG` of the first loop of
`RA_select` is never taken, because `RA_simplify` skips coloured nodes, and is
left out.

### LinkedList and HashMap

The nodes and the entries are a finite set. `malloc` returns any unused node and
fails when there is none; freeing a node makes it unused, with its pointers as
they were. The operations of a list that test for NULL then do nothing, and
`linked_list_put_next`, which does not, crashes. `linked_list_copy_to` is one step
per element, because its appends may fail one by one; nothing else runs between
them. A list that is deleted is created anew before it is used again.

In `HashMap` the hash function is a constant, so that collisions are chosen by the
instance. The map has an entry for every key and does not test for memory. A freed
entry forgets its contents, since `create_entry` overwrites them, and no operation
starts on a map that reaches a freed entry (`Intact`): what it would read is not
defined.

`KeepsSequences` and `KeepsDictionary` are refinements: the mapped lists are the
sequences of data read along `next`, the mapped map has the value that `Get` finds
for every key, and the order of the key list. `AbstractList` says of each operation
what its comment in `linked_list.h` says: where it inserts or removes, and that a copy
appends the elements of its source in order. An element is not stored only when
there is no memory (`memory`). Since a refinement allows any of these at any time,
`OperationsAsPromised` adds that a step of each operation of the code is a step of
the abstract operation of the same purpose.

### SymbolTable and ScopeCheck

`SymbolTable` has a chain of tables as a sequence, the innermost last; each table
is a map, what `Dictionary` promises and `HashMap` implements. A key is the plain
name of a function or a parameter, or the label made of a depth and a name; a label
begins with a digit, so that the two never meet.

`ScopeCheck` is `recurse_scope`. The walk goes down and up the tree with one table
for each node it is in, so that `node`, the stack of calls, has the length of
`scope`. The tree is not given: each action is a node the walk may come to next,
and the grammar of `grammar.y` is in the guards (a branch is a block, functions
come in modules and blocks). Functions are chosen when the body they are in is
entered, since the code binds them before it visits the body, and are entered in
that order between the other statements. An expression is the identifiers and the
calls in it. `EnterFunction` goes as far as the block of the function, so that
nothing is left between the two changes of `nesting_depth`.

`errors` is the set of the messages on the list. The driver stops after the pass
when there is one; the pass goes on, and so does the model. A call of an
undefined name ends the process. `captured` and `ends` are history: which bindings
an inner function used, and whether all paths through a block return.

### IRGen and Liveness

`IRGen` builds the segments as the code does, with the current segment and the
numbering of `create_segment`, for assignments, prints, returns, `if`, `while`,
arithmetic and lazy logical expressions. An operation keeps its code, what it
defines and uses, and the segments its labels name. `CG_remove_segment` expects
its predecessors to have operations, as does the model: the instances have no
function in which they have none.

`Liveness` is the machine around the work list `new_segments`; a step is one turn
of its loop. Where the code dereferences the tail of an empty list, or walks off the
left of the last segment, `pc` becomes `crashed`. The sets of one segment are
computed in one step, from the last operation to the first, like the loop at
`ir.c` 1283. `fun` never changes; it is a variable so that one run covers many
functions.

The reference `LivenessExact` and `LivenessSound` compare with is the textbook
definition on the flow of the *generated* code: `After` says which operations come
next when `recurse_segment` of `ir_codegen.c` prints the left of a segment after
it and jumps go to their labels. It uses neither `right` nor `pred` nor any set of
the analysis.

### Expressions, TypeCheck and ConstantFolding

`frontend.c` runs the two passes one after the other over one tree, and so does
the model: `phase` is the pass, `at` the node it has come to. The tree is the
sequence of its nodes in the order both passes visit them, a function between its
`FUNC_DEF` and its `END`; a node holds whole expressions, and what a case of
`recurse_type` or of the folding does with an expression is an operator on it.
`type` is what the `var_info` of each name holds; it is 0 until the declaration
is reached. `old_return_type` is the stack of that local of `recurse_type`.

A literal keeps the width the constructors of `ast.c` give it: an integer is
`LongBits` wide, and read as a truth value it is its low `ShortBits`, as the union
of `ast.h` makes it. The pass ends in `overflow` where it calls itself on the same
unary node for ever, and in `dangling` where a block keeps a node that was freed.

`Run` of `TypeCheck` and `Expressions` is the reference: what an expression of the
source evaluates to, or that it is stuck, in any of the environments.
`TypesSound` says that an accepted program is never stuck, `FoldingKeepsMeaning`
compares each expression before and after the pass in every environment. Named
conditions in the two say where they are not true of the code, and the instance has
such programs:

* `Overlooked`: an array or a row is an operand, an index, a size, a condition or a
  value, or is assigned to something of other dimensions that `recurse_type` does not
  compare (`type_checking.c:171`, `type_checking.c:281`); or the index of what is
  assigned to is not an integer (144-155 visit only the name).
* `TruthTruncated`: a constant operand of a logical operator is not 0 but its low
  bits are (`optimiser.c:113`).
* `ComparesStale`: a comparison of two `CHAR` or `BOOL` literals reads bytes that
  nobody wrote (`optimiser.c:154`).

### FunctionNames

The scope checker leaves functions bound under their names. `recurse_IR_tree`
gives each a label, the name and a counter, when it enters the body that declares
it: the plain name is deleted from the symbol tables, the label inserted, and a
frame made and entered in a table of frames (`Rename`). A definition then looks
for the first frame of the current one whose label begins with its name
(`FrameName`), a call for the first *key* on the chain of tables, parameters
included, that begins with the name called (`FrameCalled`). `walk` is the stack of bodies
with their tables, `nested_frames` the list each frame has. As in `ScopeCheck` the
tree is made up while it is walked, of functions the scope checker accepts.

Names are sequences of letters and digits, and a label is a name followed by the
decimal digits of the counter (`Decimal`), so that a name or a label can begin with another name.
`CallsReach` and `BodiesPlaced` say when the search is right: unless another label
that begins with the name is found first, which `CallMistaken` and `Misplaced` say in
terms of the names in the source. Such a label is that of a longer name (`Longer`), or that of a
name which lacks only digits at its end (`LabelOf`): `f` becomes `f1`, which a search
for the function `f1` finds. The order of keys matters here, so that the tables are
sequences; `symbol_table_delete` deletes from the nearest table that has the key.
That a bucket of three entries breaks deletion is a matter of `HashMap`.

### Scoping, StaticLinks, FrameLayout and CallFrames

`Scoping` has the nesting of functions as constants with their assumptions:
`Outer`, `Depth` (`CG_frame_depth`) and `Enclosing`. `StaticLinks` is the
traversal both `CG_create_static_link` and `CG_var_address` emit, next to what the
language means: `env` is, for each enclosing function, the activation that was
current when the running function was called.

`FrameLayout` computes what the generator computes from a frame's segments:
`regs_used` and the offsets, each with the walk the code makes and where that walk ends.
The walk is a function of the number of segments it may still go through, so that it can be
proved about; a segment is not reached from itself except by a jump, which no walk follows.
`CallFrames` executes the emitted code: `stack` holds a value per quadword, `reg`
the registers, `rbp` the frame pointer, and a value is named for what the program
put there. `acts` is what the compiler knows at the operation an activation has
come to, such as `count` (`param_count`), and what the properties compare with.
`StartCall`, `Argument`, `Seek`, `MakeCall`, `Hop`, `Enter` and `EndCall`,
`Return`, `PopParam` are the operations of a call in the order they are emitted;
`Compute`, `Declare`, `Divide`, `PrintValue`, `PrintString` and `DeclareArray` the others that
touch registers or the stack. Which instructions compute a value is abstracted to
`Compute`. `PrintString` moves the register of the string past its header, for
good (`ir_codegen.c:738`). `NextSegment` sets `count` back to 0, since `param_count`
is a local of `recurse_segment` and each segment is a call of it (439, 804, 812). A
segment may end anywhere; among the arguments of a call it does so only for a lazy
logical expression (`ir.c` 686-748), and that matters only when something is counted
already. `FollowsLinks` maps the links in memory to those of `StaticLinks`.

The constants of `CallFrames` state the shape of the program, and six of them
confine the passing run to what the code gets right (see *Met while modelling*):

* `Orderly`, `NestedArguments` and `LazyArguments`: what the arguments of a call are.
  An argument is not read from a register an earlier one was put in; no call, and no
  lazy logical expression, is among the arguments after the first.
* `Reprints`: no string in a register is used after it was printed.
* `Divides`: which functions divide where that clears `rdx`.
* `Live`: which registers a function needs after a call. The code does not keep all of
  them: a variable is stored over a saved register (`ir_codegen.c:846`), and registers used only
  after a branch that returns are not saved (854). The instance of the passing run gives
  each function registers that its callees keep (`CallsKeep` of `MCCallFrames`, an
  `ASSUME`). The run `saved_register` has the same program with every register live,
  and is violated.

What they come to for a program of any shape is said by `Balanced`, `Keeps`, `Passed`
and `EscapeInOrder`, the hypotheses of the theorems, which TLC evaluates on the
instance of the run. `count` is a natural number in `Balanced` programs only; in others
the code pops what it did not push.

### Indexing, AbstractArrays and ArrayHeap

A step of `ArrayHeap` is a stretch of an assembly routine between two labels or
calls; `pc` is the label, return addresses are on the stack. `_better_alloc` and
`_initialize_array` call themselves for the rows of an array, with their
registers pushed by the prologue and copies of their arguments on the stack.
`Declare`, `Declared` and `Initialised` are the operations `A_ARRAY_DECL` emits
around the calls, `Address` is the address an index expression computes, and
`Store` an assignment. The heap is zero where nothing was written.

`BehavesAsArrays` maps each array to the function from its indices to the words
found at their addresses, and says that these behave as `AbstractArrays`: no two
elements share a word, none lies in a header, declaring an array changes no other.

## Runs

| run | instance | what it shows |
|---|---|---|
| `register_allocation` | 2 registers, 5 temporaries, 2 frames, 5 programs with 0 to 2 parameters | type correctness, proper colouring, justified spills, completeness, parameters, refinement of `GraphColouring` |
| `linked_list` | 2 lists, 4 nodes, 2 data | links, separation, refinement of `AbstractList`, and that each operation acts where `linked_list.h` says |
| `hash_map` | 4 keys, 2 to a bucket, 2 values | chains, key list and refinement of `Dictionary` |
| `delete_middle` | 4 keys, 3 in one bucket | **violated**: deleting the second of three entries |
| `scope_check` | 2 names, 3 headers, 8 scopes, 6 constructs | depths, resolution, escaping marks, lookups, returns |
| `constant_folding` | 20,000 programs, 6 environments | accepted programs are not stuck but for what is overlooked, folding keeps values but for truncated truths and stale bytes, one pass folds all |
| `function_names` | 5 names, 4 functions, 2 in a body | calls and bodies find their frames, unless a name or a label that begins like theirs comes first |
| `liveness` | 990 functions | exactness, labels, no crash but where a loop ends a branch, growing sets, termination |
| `skipped_branch` | one function | **violated**: `if` without `else` |
| `call_frames` | 5 functions, 2 registers, 5 activations, two registers hold strings that are printed once | frames, temporaries, parameters, captured variables, refinement of `StaticLinks` |
| `saved_register` | the same, every register live | **violated**: a variable stored over a saved register |
| `array_heap` | 2 arrays of 1 or 2 dimensions, 2 stores | registers and stack, refinement of `AbstractArrays` |

Bounds. With two registers, three temporaries alive together force a spill; five
temporaries give simple nodes, potential spills, actual spills and a second round
with one more node. A list of three nodes has a node that is neither head nor
tail, and a fourth node makes reuse and exhaustion meet. Two keys in a bucket
reach every branch of `hash_map_delete`; the third is what the code gets wrong,
so that the passing run is below it. Eight scopes are the global one, the module, two nested functions with their
blocks, and a branch with its block; six constructs are a module with a function,
a function in it, and three declarations, uses or branches inside. Both names may be
taken by anything. `MaxErrors` is 0: a program does not grow after its first
error, which the properties speak of as well, but the walk ends. The functions of
`WellShaped` combine a
statement before and after each of: `if` with `else`, `while`, a loop in a branch,
a branch in a loop, a loop in a loop and two loops in a row, with conditions
without operations, with one, and with two and three lazy operands. In
`WellShaped` a block begins and ends with a simple statement and every `if` has an
`else`; in `LoopLast` a loop ends a branch, which `NoCrash` names as the one case in
which the analysis stops (`LoopEndsBranch`); the violated run is the other shape left out. A `return` is only
the last statement: after an earlier one the analysis goes on as if the code did.
`MaxWork` bounds the work list at 12 segments; a list that reached it would be
reported as a deadlock, and none does.

The programs of `constant_folding` have every operator between every two kinds of
operands, operators nested on either side and both, and an expression in every
place the grammar has for one. Integers of 4 bits with a truth value of 2 wrap
around, and 4 is the integer whose low bits are 0, as 65536 is in the code; longer
ones add no case. `MAX_PARAMETERS` is 1, so that a function with
two is refused, as one with more than 64 is by the code.

Four functions make two of a name in different bodies, a body inside another with
the same name before and after it, two modules, a name that begins with another, and one that is another's label.
`MaxDeclared` is 2: a third function of a body is found or missed as the second is.

The five functions of `call_frames` nest three deep, call inwards, outwards,
themselves and each other, so that up to five activations have several of one
function at a time with links that skip some; one has five parameters, the fifth
on the stack; one declares a variable in a branch. `MaxActive` bounds a run by a
guard of the calls. Two arrays show that the second changes nothing in the first;
sizes 0 to 3, and 0 to 2 in two dimensions, are no elements, no rows, rows without
elements, and rows of different numbers.

TLC checks deadlock in every run but `constant_folding` and `array_heap`, where the
compiled program and the passes end. In the others `Finished` and `Stopped` are the
states in which the code has returned or the process has ended.

Symmetry is used for nodes, entries and values, which the actions never tell
apart; no run with symmetry checks a liveness property.

Fairness. `Terminates` assumes weak fairness of the steps of `liveness`. The
analysis is sequential code: as long as it has not returned, its next step is
taken. No other run has a liveness property. Whether spilling ends
depends on `rewrite_segment`, which is abstracted; the walks of the other passes
end with the tree; a compiled program may run for ever.

## Proofs

### RegisterAllocationProofs

It holds for every number of registers, temporaries and
frames, all programs with the shape `IsProgram` and all out sets. The assumptions
are `RegAssumption`, `NodesAssumption` and `ProgramAssumption`: there is at least
one register, temporary and frame; the register parameters of a frame are at most
four different temporaries of that frame.

* `TypeCorrect`: `TypeOK`, from `InitType` and `NextType`, one step per action.
* `Invariance`: `IInv`, the inductive invariant. `ProperColouring` alone is not
  inductive: that a register `RA_select` picks by looking at some neighbours is
  free at *all* of them depends on which of the others may have a colour already.
  `IInv` says what each array holds at each position of each pass (which nodes
  are still to come, that the lists are disjoint, without repetitions and
  ascending before the sort, together with the precoloured nodes all of them),
  that `adj` is symmetric, irreflexive and stays inside a frame, that nodes not
  yet reached are uncoloured, and which colour a loaded parameter has.
* `ColouringIsProper`: `ProperColouring`. Simple nodes are visited in ascending
  order, so that every simple neighbour that has a colour is a lower one;
  potential spills are coloured afterwards, looking at all; parameters have
  colours of their own, different ones within a frame.
* `SpillsAreJustified`, `EveryTempColoured`: `SpillJustified` and `AllColoured`.
* `ParametersKeepRegister`: `ParametersStay`, an action property.
* `Refinement`: `KeepsPromise`, the allocator implements `GraphColouring`.

### StaticLinksProofs

It holds for every nesting of functions, every depth of calls and every recursion.
The assumptions are those of `Scoping`: a function is one deeper than the one it
is declared in, is enclosed by itself and by what encloses that one, and the
module encloses all. `ScopeCheck!StaticDepths` checks that the depths are so.

* `TypeCorrect`: `TypeOK`.
* `LinksReachFrame`: `ReachesFrame`. It is not inductive: in the middle of a
  traversal the frame reached is another function's, with an environment of its
  own. `IInv` says that activations *agree* (`Agrees`): what an activation knows of
  the functions around an enclosing one is what that one's activation knows. So
  each hop keeps the target, and the links left are as many as the levels.
  `PushSound` is the step of a call, `SeekFinds` the first step of a traversal.
* `LinksLeadOut`: `LinkedToOuter`.

That the theorems speak of the emitted code is `LinksFollowed`, next.

### CallFramesProofs

The six properties of the run `call_frames`, for any segments, nesting, number of
registers and parameters and any depth of calls and recursion, from the assumptions of
`Scoping`, `FrameLayout` and `CallFrames` about the shape of a program. The code is not
right for every program (see *Met while modelling*); the hypotheses say for which it is,
each because of the lines named. `MCCallFrames` has all of them as `ASSUME`s.

| hypothesis | says | for the sake of |
|---|---|---|
| `Balanced` | no call and no lazy logical expression is among the later arguments of a call; a function with parameters passes no more of them in registers than it has; none with one parameter declares an array; one with a variable that escapes uses a register | `ir_codegen.c:439`, 804 and 812 with `ir.c` 686-748; 528 and 566; 1003 |
| `Keeps(keeps)` | no string is used after it is printed, and there is an assignment `keeps` of registers to functions such that each function keeps what its callers use after the call, by restoring it, or by not writing it and calling only functions that keep it | `ir_codegen.c:738`, 846, 854 |
| `Passed` | no argument is read from a parameter register already overwritten; a function with a division that clears `rdx` passes no fourth argument | `ir_codegen.c:439`, 592 |
| `EscapeInOrder` | the parameters that escape are the first ones and are in registers | `ir_codegen.c:1006` |

* `TypeCorrect` and `BalancedFrames`: `TypeOK` and `FrameBalanced`, for `Balanced`
  programs. That the length of a frame is right between two statements does not follow from
  itself: what a return leaves depends on what was pushed by a caller that is in the
  middle of a call. `IInv` follows the whole stack of activations: every one but the last waits in a
  call to the next (`Waits`), whose frame begins after exactly the words it has
  pushed (`Words`, `Rest`); the three words around each frame pointer are the frame of
  the caller, the return into it and the static link (`Framed`); the last is at a point
  of its code from which the length of the stack follows (`AtPoint`); activations agree about those
  that enclose them (`Knows`); and `rax` is a frame from which the links left lead to the
  target (`Traverses`). Overwriting a word that frames another is what each step has to be shown not to do.
  In a balanced program the segments that end among the arguments of a call find nothing
  counted, so that a new count is the old one (`NextSegmentIs`).
* `LinksFollowed`: `FollowsLinks`, the refinement of `StaticLinks`. The initial state
  and each step map to the initial state, a step or a stutter of `Links`; two activations
  never have one frame pointer, so that `FrameAt` finds the one meant. With
  `StaticLinksProofs!LinksReachFrame` every traversal of the *emitted* code ends in the frame
  of the right activation.
* `TemporariesSurvive`: `TempsKept`, with `Keeps`. A caller's value may be many frames up,
  saved by none, one or several of the activations since. `Temps` says where it is: in
  its register as long as no later activation saves that register, and otherwise in
  the slot of the *first* that does (`KeptAt`, `Unsaved`); all those in between keep it. Calls push the
  word, returns bring it back, and a declaration stores beside it: the slots are the
  prologue's but for the one `Offset` gives to the first variable (`SavedBy`).
* `ParametersHold`: `ParametersKept`, with `Passed` besides. `Parameters` says of an
  activation that waits that all its register parameters are on the stack (`Waited`), of all that
  those after the fourth are above the frame (`Above`), and of the running one that
  those displaced are on the stack, the others in their registers and the arguments given
  so far where the callee will look for them (`Handed`).
* `CapturesReached`: `CapturedFound`, with `EscapeInOrder` besides. A declared variable is in its
  slot and is not overwritten (`VarsHeld`, which rests on `Numbered` giving different
  numbers), what is sought has been declared or is the parameter of an activation that waits
  (`Sought`), and the traversal ends in its frame, by `Traverses`.

`keeps` is found for a program by looking at its calls; the theorem holds for any that
satisfies `Keeps`. In the instance it is register 2 for every function but the module, which no function calls;
for the run `saved_register` there is none.

### ChainFacts

`From` of `HashMap` and `NodesOf` of `LinkedList` walk along pointers with a
recursive function. What such a function computes would take an induction over its
argument, which cannot be had as a rule of inference here. `ChainFacts` does without: the least
number principle (`LeastNumber`, from the well-foundedness of `<`) is a fact about
sets, and a function that satisfies the recursion at every argument is equal to the
recursive function, for there is no least argument at which they differ
(`WalkFollows`). So the proofs name the sequence of nodes a walk ought to meet,
which is a state function with no recursion, and cite that the walk meets it.

### LinkedListProofs

It holds for any number of lists and nodes and any data, from the assumption
`HeapAssumption` of `LinkedList`.

* `TypesKept`, `LinksAgree`, `ListsApart`: `TypeOK`, `WellLinked` and `NoSharing`.
  None of them is inductive: they follow from walks along the pointers, and say
  nothing of what a pointer in the middle of a list may be. `IInv` says that there
  is a *path*, for each list the sequence of its nodes (`Sound`): `next` and `prev`
  are the neighbours in it, `head` and `tail` its ends, `size` its length, and no
  node is in it twice, in two of them, or unused. A copy under way (`CopySound`)
  stands on a node of its source. The proof of a step gives the path after it: the
  same with a node inserted (`InsertedAt`) or removed (`RemovedAt`).
* `OperationsKeepPromises`: `OperationsAsPromised`. The sequence of data along the path
  changes as the comment of each operation in `linked_list.h` says, at the place it
  says; what a failed allocation and a step of a copy do is said, too.
* `ListsAreSequences`: `KeepsSequences`, the refinement of `AbstractList`, from the
  same lemmas. A step is one of the abstract operations or, after a crash, a stutter.

### HashMapProofs

It holds for any finite set of keys, any values, buckets and hash function, from
`MapAssumption`.

* `MapTyped`: `TypeOK`, in every state, those after a wrong deletion included.
* `IntactMapSound`: as long as the map is `Intact`, `ChainsSound` and `KeysListed`
  hold. `IInv` has a path for each bucket, as above: the entries of the
  path are allocated, hash to the bucket, have different keys, and are together
  those of the key list, once each.
* `OnlyDeleteBreaks`: a step that ends `Intact` deletes an entry that lies between
  two others of its chain. This is the reach of finding 1, for every map and not
  for the one of the run: no other sequence of calls meets it.
* `ShortChainsIntact`, `ShortChainsSound`, `ShortChainsListed` and
  `ShortChainsDictionary`: `DeletesOneEntry`, `ChainsSound`, `KeysListed` and the
  refinement `KeepsDictionary`, *under the hypothesis* `TwoKeysPerBucket`, that no three
  keys have one hash. Without it they are false, as the run `delete_middle` shows.
  The instance of `hash_map` satisfies it (`TwoEach`), that of `delete_middle` does
  not (`ThreeOne`). The hypothesis speaks of the keys that may be inserted, not of
  those in the map at a time.

### ScopeCheckProofs

It holds for any names, headers, arguments and bounds, from `ScopeAssumption`:
programs nest as deeply as one likes, and the walk is as long. `MaxScopes` is at
least 2 there, since the module's table is next to the program's.

* `DepthsAreStatic`: `StaticDepths`. `Counters` of the invariant is its first half, but
  what `LeaveFunction` puts back into `is_in_function` is the flag kept at the
  function's own node, so that `NodeSound` says of every node being visited what
  the flag was when it was entered. It says as well what may be around a node (the
  module is second, a block is in a function, an `if` or a `while`), and that there
  is room for the functions and the `else` it still has to visit.
* `ResolutionIsLexical`: `ResolvesLexically`. `TableSound` says that a table has
  labels of its own depth only. A table further inside has no smaller
  depth, so that the greatest depth at which a label is bound and the innermost
  table with a label are the same; tables of one depth are told apart by the search
  from the inside (`NearestIs`).
* `EscapesAreCaptures`: `EscapesMarked`. The counter of functions is the same at the
  binding and at the use exactly if no function was opened between the
  two (`CountGrows`).
* `LookupsAreStable`: `LookupsStay`, an action property. A label that is inserted
  is made of the current depth, and only the innermost table has that depth inside
  of a module or a block (`FreshLabel`): it was bound nowhere before.
* `EveryMissingReturnReported`: `MissingReturnReported`, an action property. `r` is 1
  only at a node all of whose paths return.
* `ScopeTyped`: `TypeOK`.

### ArrayHeapProofs

* `TemporariesSurvive`: `RegistersKept`, for any number of arrays of any size, from
  `ShapeAssumption` and `TwoDimensions`: every array has one or two dimensions. With
  three it fails (see *Met while modelling*, `ir_codegen.c:234`).

`RegistersKept` speaks of two labels; what makes it true is spread over the stack.
`IInv` says for each label how long the stack is and which words of it are saved
registers, saved frame pointers and return addresses. Inside `_better_alloc` that is
the frame of the first call and at most one more, for a row (`OuterFrame`,
`InnerFrame`): a row has one dimension, which is where the hypothesis is used, and
`rsi`, which is not saved, is 1 from there on. `_initialize_array` is followed to any
depth: `Frames(m)` places the nine words of each of `m` calls. The heap is left free
there, so that this half needs no hypothesis about the arrays it runs through.
`EpilogueRestores` says that an epilogue puts back what the matching prologue pushed
(`PushedIs`), and `r12`, the only temporary `_initialize_array` does not save, is
never written by it. The run checks the invariant's consequence for arrays with up
to three elements a row.

### Only model-checked

`Terminates` is a liveness property. `IRGen`, `Liveness`, `Expressions`,
`TypeCheck` and `ConstantFolding` are built from, or
on, RECURSIVE operators, which TLAPS does not reason about here; what the recursive
operators compute for every expression or graph is an induction over data besides. `FunctionNames` names
frames with a fold over the functions of a body, and `Position`, which `BehavesAsArrays`
rests on, is a fold over sizes: what a fold does for every sequence is an induction,
which would have to be done by hand from `LeastNumber` of `ChainFacts`. Neither has
been proved about yet.

## Findings

Shown by a violated run:

1. `hashmap.c:98`: deleting an entry that is not the first of its bucket frees
   the entries after it.
2. `ir.c:1299` with `ir.c:471`: liveness does not flow past the branch of an `if`
   without `else`.
3. `ir_codegen.c:846`: the first variable of a frame that escapes is stored where the prologue
   saved register 1, which the caller then loses.

Met while modelling, in the model, and left out of the properties by a named
condition or constant, or described here only:

* `register_allocation.c:265`: nodes the comment calls simple are spilled,
  because they are coloured in the order of their removal.
* `linked_list.c:122`: inserting after the last node dereferences NULL.
* `ir.c:1270`: a loop at the end of a branch of an `if` without `else` leaves a segment
  without operations, whose tail liveness dereferences (`LoopEndsBranch`).
* `ir.c:211`: a loop at the beginning of a loop's body takes over the outer
  loop's exit label.
* `ir.c:1295`: liveness does not flow through a segment without operations, the
  end of an `if` that ends an `else` branch (`LivenessSound` on such a function).
* `ir.c:290` and `ir.c:895`: a function, or a parameter, whose name begins with
  that of a function is found for it (`CallMistaken`, `Misplaced`): a
  function `f` with a parameter `first` cannot call itself. The frame of a
  parameter is NULL. So is a function whose *label* begins with the name
  (`ir.c` 120-123): next to `f`, labelled `f1`, and `f1`, labelled `f12`, a call of `f1`
  runs `f`, and the body of `f1` is generated into its frame.
* `scope.c:106`: a function in the block of an `if` is accepted when an outer
  function has its name.
* `scope.c:213` and `scope.c:238`: variables are looked up by plain name, arrays by
  label, before they are bound by label: a second variable in a scope and an array
  that takes the name of a parameter are accepted. The array is then never found:
  its name means the parameter (`HidesPlain`).
* `scope.c:329`: a function is accepted as a variable, and a variable that hides an
  outer function is never found (`HidesPlain`).
* `scope.c:286`: `l` and `r` are never assigned, so that a function whose `if` and
  `else` both return is refused.
* `scope.c:373`: a call of an undefined function dereferences NULL (`Call`).
* `type_checking.c:171` and `type_checking.c:281`: an array is accepted as an operand and assigned to
  a scalar, a scalar to an array, and an array is indexed with too many indices (`Overlooked`).
* `type_checking.c:144`: the indices of an assignment's target are not visited, so that
  `a[true] = 1` is accepted (`Overlooked`).
* `optimiser.c:113`: an integer literal whose low 16 bits are 0 counts as false
  (`TruthTruncated`).
* `optimiser.c:128`: `3 || x` becomes a `BOOL` of value 3, which differs from any
  other true value when it is compared (`SameValue` takes both for true).
* `optimiser.c:154`: two `CHAR` or `BOOL` literals are compared with bytes that
  were never written (`ComparesStale`).
* `optimiser.c:61`: an expression statement that is folded leaves the block with
  the freed node (phase `dangling`).
* `optimiser.c:225`: a unary operator recurses for ever (phase `overflow`).
* `optimiser.c:208`: a division by the literal 0 becomes a division by 1.
* `ir_codegen.c:439`: `param_count` counts what is pending in the segment, so that
  a call among the arguments of another puts its arguments in the wrong registers
  (`NestedArguments`); an argument that reads a parameter after its register was
  overwritten gets the new value (`Orderly`).
* `ir_codegen.c:439`, `ir_codegen.c:804` and `ir_codegen.c:812`: `param_count` begins at 0 in every
  segment, and a lazy logical expression begins new ones. In `f(x, a && b)` the second
  argument goes into `rdi`, over the first, and the pops at 566 are as many as were
  counted in the last segment (`LazyArguments`). A lazy expression as the first argument is harmless.
* `ir.c:392`: a call or a lazy logical expression among the sizes of an array, as in
  `int a[r5()]`, is evaluated after the first two arguments of the allocation were put in
  their registers and counted, so that a call takes them for its own and a lazy expression forgets
  the count. `DeclareArray` leaves such sizes out.
* `ir_codegen.c:738`: printing a string adds 8 to its register, so that a string in a
  register that is printed again is printed from 8 bytes further on (`Reprints`).
* `ir_codegen.c:528` and `ir_codegen.c:566`: a caller with one parameter that calls with two arguments
  pops what it did not push.
* `ir_codegen.c:592`: `rdx` is cleared before `idiv`, also when the fourth
  parameter, an argument, or the divisor is there (`Divides`).
* `ir_codegen.c:854`: registers are counted up to the first return or jump, so that those
  used only after a branch that returns are not saved (`Live`).
* `ir_codegen.c:1003`: a nested function that uses no register has its first
  variable on the saved frame pointer. Parameters that escape are found again only
  when all before them escape as well, and the fifth and later ones never; an
  array of another frame is read from the running one.
* `ir.c:878` and `ir.c:882`: arguments after the fourth are generated twice.
* `ir_codegen.c:234`: `_better_alloc` does not save `rsi`, so that with three
  dimensions a caller drops too few sizes and returns a size for the address
  (with a shape such as `<<2, 1, 1>>` `RegistersKept` fails).
* `ir_codegen.c:912`: a value of an array that is an identifier repeats the value
  before it. `ast.c:161`: the sizes of an array are those of the first row, and a
  ragged one is only reported, so that `_initialize_array` may read past the data.
* `ir_codegen.c:1029`: the heap has a fixed size that no allocation compares with.

## Not modelled

* `rewrite_segment` and `rewrite_program` (`register_allocation.c` 299-457). The
  definition of a spilled temporary becomes a declaration whatever the operation was (329), `p3` is
  uninitialised when `p2` is true (387), an `if` that begins a segment dereferences
  its missing predecessor, and operands of a parameter, `and` or `or` take the
  colour of a node that was removed. A model would have nothing to hold it to: no
  property of what the program computes survives a spill. `Rebuild` has its
  effect on the allocator, more temporaries.
* Instructions: how the code generator picks registers and memory operands for each operation, and
  that a condition is tested through the operation before it (`ir_codegen.c:681`).
  `CallFrames` says where values are, not how they are computed.
* `printint`, `printchar`, `printbool` and the printers of trees, types and errors are
  formatting; the tables of the parser are generated; the tree and the error lists have no
  behaviour of their own; freeing the tree follows its shape; the superseded
  generator is not called.
* The start conditions of the lexer, and the driver: `ConstantFolding` has its order
  of two passes and that it stops after an error, the others are called once.

## Plan

Done: all modules above and eight modules of proofs. What is left, in this order:

1. Proofs: `ArrayHeap`, that the arrays are disjoint, for any sizes (`Position` is a fold,
   so that this begins with its recursion, from `LeastNumber`); `FunctionNames`, that tables and frames hold the same labels.
2. `TypeCheck` with its operators on expressions as functions of their height, as
   `FrameLayout` has its walk.
3. `Lexer` start conditions.
