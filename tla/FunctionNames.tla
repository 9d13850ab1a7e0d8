----------------------------- MODULE FunctionNames -----------------------------
(***************************************************************************)
(* How recurse_IR_tree of ir.c gives functions their frames.  The checked  *)
(* tree has every function bound under its plain name; the generator       *)
(* renames it to a label, in the symbol table and for its frame, when it   *)
(* enters the body the function is declared in.  Definitions and calls     *)
(* then find the label again: they look for one that begins with the name. *)
(*                                                                         *)
(* The tree is made up while it is walked, as in ScopeCheck, of functions  *)
(* that the scope checker accepts.  A name is a sequence of letters and    *)
(* digits, a label is a name with the digits of a number appended, which   *)
(* may be another function's name.  Variables have labels that begin with  *)
(* a digit and are found by no name; the tables of branches hold nothing   *)
(* else: both are left out.                                                *)
(***************************************************************************)
EXTENDS Integers, SequencesExt

CONSTANTS
    Names,          \* of functions and parameters
    Main,
    ParameterLists,
    MaxFunctions,   \* bounds the functions of a program, ...
    MaxDeclared     \* ... and of one body

ASSUME FunctionNamesAssumption ==
    /\ Main \in Names
    /\ \A ps \in ParameterLists : ToSet(ps) \subseteq Names
    /\ {MaxFunctions, MaxDeclared} \subseteq Nat

VARIABLES
    walk,                  \* the module and functions being generated, inner last
    nested_frames,         \* of each frame: the frames of its functions
    IR_function_counter,
    main_def,              \* whether the program has its main function
    made,                  \* the functions declared so far
    callee,                \* the frame of the call generated last
    phase                  \* "walk", or "crashed" on a NULL frame

vars == <<walk, nested_frames, IR_function_counter, main_def, made, callee, phase>>

ModuleFrame == 0
NoFrame     == -1
NoCall      == [name |-> <<>>, frame |-> NoFrame]

Top == Len(walk)

Init ==
    /\ walk = <<>>
    /\ nested_frames = [f \in 0..MaxFunctions |-> <<>>]
    /\ IR_function_counter = 0
    /\ main_def = FALSE
    /\ made = 0
    /\ callee = NoCall
    /\ phase = "walk"

(***************************************************************************)
(* Symbol tables whose keys are enumerated: the entries of a table, in the *)
(* order of the list of keys, and a chain of tables, the innermost last.   *)
(***************************************************************************)
Entry(key, value) == [key |-> key, value |-> value]

Holding(chain, key) ==
    {i \in DOMAIN chain : \E e \in ToSet(chain[i]) : e.key = key}

Inserted(table, key, value) ==
    IF Holding(<<table>>, key) = {} THEN Append(table, Entry(key, value)) ELSE table

\* Mutant: the search begins at the outer table.
MutantDelete(chain, key) ==
    LET holding == Holding(Front(chain), key)
    IN  IF holding = {} THEN chain
        ELSE [chain EXCEPT ![Max(holding)] = SelectSeq(@, LAMBDA e : e.key # key)]

symbol_table_delete(chain, key) ==
    LET holding == Holding(chain, key)
    IN  IF holding = {} THEN chain
        ELSE [chain EXCEPT ![Max(holding)] = SelectSeq(@, LAMBDA e : e.key # key)]

symbol_table_get(chain, key) ==
    LET holding == Holding(chain, key)
    IN  IF holding = {} THEN NoFrame
        ELSE (CHOOSE e \in ToSet(chain[Max(holding)]) : e.key = key).value

get_keys(chain) ==
    FlattenSeq([i \in DOMAIN chain |->
                  LET table == chain[Len(chain) + 1 - i]
                  IN  [k \in DOMAIN table |-> table[k].key]])

\* The tables of a body and around it: of its parameters, then of its block.
current_table ==
    FlattenSeq([k \in DOMAIN walk |-> <<walk[k].table, walk[k].block>>])

current_frame_table == [k \in DOMAIN walk |-> walk[k].frames]

(***************************************************************************)
(* What the scope checker accepts.  Names lists what a body and those      *)
(* around it bind: functions, and parameters.                              *)
(***************************************************************************)
Declares(body, x) == \E f \in ToSet(body.declared) : f.name = x
Binds(body, x)    == Declares(body, x) \/ x \in ToSet(body.params)

\* The function a call of x means: the nearest binding, when it is a function.
Binding(x)  == {k \in 1..Top : Binds(walk[k], x)}
Callable(x) == Binding(x) # {} /\ Declares(walk[Max(Binding(x))], x)
Meant(x) ==
    (CHOOSE f \in ToSet(walk[Max(Binding(x))].declared) : f.name = x).fun

\* Function names are new on the whole chain and in the function's parameters.
Accepted(fs, params) ==
    /\ made + Len(fs) <= MaxFunctions
    /\ \A k \in DOMAIN fs :
         /\ fs[k].name \notin ToSet(params)
         /\ Binding(fs[k].name) = {}
         /\ \A j \in 1..(k - 1) : fs[j].name # fs[k].name

Headers == [name : Names, params : ParameterLists]
Bodies  == BoundedSeq(Headers, MaxDeclared)

Numbered(fs) ==
    [k \in DOMAIN fs |-> [fun    |-> made + k, name |-> fs[k].name,
                          params |-> fs[k].params]]

(***************************************************************************)
(* The loop over the functions of a body, before the body is generated:    *)
(* a frame and a label for each.  A module keeps the name of main.         *)
(***************************************************************************)
Width(i)   == CHOOSE n \in 1..(i + 1) : i < 10^n /\ (n = 1 \/ i >= 10^(n - 1))
Decimal(i) == [k \in 1..Width(i) |-> (i \div 10^(Width(i) - k)) % 10]

IR_generate_label(name, i) == name \o Decimal(i)

CreateFrame(gen, name, f) ==
    [gen EXCEPT !.nested = Append(@, Entry(name, f.fun)),
                !.frames = Inserted(@, name, f.fun)]

Rename(gen, f) ==
    LET label  == IR_generate_label(f.name, gen.counter)
        tables == symbol_table_delete(gen.tables, f.name)
    IN  [CreateFrame(gen, label, f) EXCEPT
           !.tables  = [tables EXCEPT ![2] = Inserted(@, label, f.fun)],
           !.counter = @ + 1]

NameFrames(gen, fs, is_module) ==
    FoldLeft(LAMBDA g, f : IF is_module /\ f.name = Main
                           THEN CreateFrame(g, Main, f) ELSE Rename(g, f),
             gen, fs)

\* The tables the scope checker left: functions first, then parameters.
FunctionEntries(fs)      == [k \in DOMAIN fs |-> Entry(fs[k].name, fs[k].fun)]
ParameterEntries(params) == [k \in DOMAIN params |-> Entry(params[k], NoFrame)]

\* A body, up to the visits of its statements, is generated into a frame.
Enter(outer, f, frame, before, tables, fs, is_module) ==
    LET gen == NameFrames([tables |-> tables, frames |-> <<>>, nested |-> before,
                           counter |-> IR_function_counter],
                          fs, is_module)
    IN  /\ walk' = Append(outer, [fun |-> f.fun, name |-> f.name, frame |-> frame,
                                  params |-> f.params, declared |-> fs, pending |-> fs,
                                  table |-> gen.tables[1], block |-> gen.tables[2],
                                  frames |-> gen.frames])
        /\ nested_frames' = [nested_frames EXCEPT ![frame] = gen.nested]
        /\ IR_function_counter' = gen.counter
        /\ made' = made + Len(fs)
        /\ callee' = NoCall
        /\ UNCHANGED phase

\* A_MODULE has one table, where the labels go as well.
EnterModule(fs) ==
    /\ walk = <<>>
    /\ Accepted(fs, <<>>)
    /\ LET mains == {k \in DOMAIN fs : fs[k].name = Main}
       IN  /\ main_def => mains = {}
           /\ main_def' = (main_def \/ mains # {})
    /\ Enter(<<>>, [fun |-> ModuleFrame, name |-> <<>>, params |-> <<>>],
             ModuleFrame, <<>>, << <<>>, FunctionEntries(Numbered(fs))>>, Numbered(fs), TRUE)

\* Mutant: the last frame whose name begins so is taken.
MutantFrameName(name) ==
    LET begins(e) == IsPrefix(name, e.key)
        found     == SelectSeq(nested_frames[walk[Top].frame], begins)
    IN  found[Len(found)].key

\* A_FUNC_DEF takes the first frame of the body whose name begins with its own.
FrameName(name) ==
    LET begins(e) == IsPrefix(name, e.key)
    IN  Head(SelectSeq(nested_frames[walk[Top].frame], begins)).key

FrameFor(name) == symbol_table_get(current_frame_table, FrameName(name))

AtDefinition == phase = "walk" /\ walk # <<>> /\ walk[Top].pending # <<>>

\* Its nested functions and parameters are in a table outside of its block's.
EnterFunction(fs) ==
    /\ AtDefinition
    /\ LET f     == Head(walk[Top].pending)
           frame == FrameFor(f.name)
           outer == [walk EXCEPT ![Top].pending = Tail(@)]
       IN  /\ frame # NoFrame
           /\ Accepted(fs, f.params)
           /\ Enter(outer, f, frame, nested_frames[frame],
                    <<FunctionEntries(Numbered(fs)) \o ParameterEntries(f.params), <<>> >>,
                    Numbered(fs), FALSE)
    /\ UNCHANGED main_def

\* The label is that of a frame no table has any more.
FrameMissing ==
    /\ AtDefinition
    /\ FrameFor(Head(walk[Top].pending).name) = NoFrame
    /\ phase' = "crashed"
    /\ UNCHANGED <<walk, nested_frames, IR_function_counter, main_def, made, callee>>

Leave ==
    /\ phase = "walk" /\ walk # <<>>
    /\ walk[Top].pending = <<>>
    /\ walk' = Front(walk)
    /\ callee' = NoCall
    /\ UNCHANGED <<nested_frames, IR_function_counter, main_def, made, phase>>

\* The end of A_CALL_EXPR: the first key that begins with the name, and its frame.
FrameCalled(name) ==
    LET begins(key) == IsPrefix(name, key)
        found       == SelectSeq(get_keys(current_table), begins)
    IN  IF found = <<>> THEN NoFrame    \* exit(1)
        ELSE symbol_table_get(current_frame_table, Head(found))

Call(x) ==
    /\ phase = "walk"
    /\ Callable(x)
    /\ callee' = [name |-> x, frame |-> FrameCalled(x)]
    /\ UNCHANGED <<walk, nested_frames, IR_function_counter, main_def, made, phase>>

Stopped == phase = "crashed" /\ UNCHANGED vars

Next ==
    \/ \E fs \in Bodies : EnterModule(fs)
    \/ \E fs \in Bodies : EnterFunction(fs)
    \/ \E x \in Names : Call(x)
    \/ FrameMissing
    \/ Leave
    \/ Stopped

Spec == Init /\ [][Next]_vars

-------------------------------------------------------------------------------
(***************************************************************************)
(* Labels of other functions that begin with a name: of one with a longer  *)
(* name, or of one whose name lacks only digits at its end.  A call is     *)
(* mistaken for a call of such a function, of the same body or of one      *)
(* between, or finds such a parameter of one between.                      *)
(***************************************************************************)
Longer(x, y) == x # y /\ IsPrefix(x, y)

LabelOf(x, y) ==
    Longer(y, x) /\ \A k \in (Len(y) + 1)..Len(x) : x[k] \in 0..9

Similar(x, y) == Longer(x, y) \/ LabelOf(x, y)

CallMistaken(x) ==
    \E y \in Names, k \in Max(Binding(x))..Top :
        \/ Similar(x, y) /\ Declares(walk[k], y)
        \/ Longer(x, y) /\ k > Max(Binding(x)) /\ Binds(walk[k], y)

\* A definition is mistaken for that of one declared before it in the same body.
Mistaken(body, f) ==
    \E g \in ToSet(body.declared) : g.fun < f.fun /\ Similar(f.name, g.name)

Misplaced(k) == Mistaken(walk[k - 1], walk[k])

(***************************************************************************)
(* A call reaches the frame of the function its name means in the source,  *)
(* though every body on the way renamed its functions, and functions of    *)
(* other bodies and modules have the same name: of ir.c 881-899 with       *)
(* 254-276 and 304-327.                                                    *)
(***************************************************************************)
CallsReach ==
    callee # NoCall /\ ~CallMistaken(callee.name) => callee.frame = Meant(callee.name)

(***************************************************************************)
(* The body of a function is generated into the frame that calls of it     *)
(* reach, and there is one, also when functions of the same name were      *)
(* generated before: the search of A_FUNC_DEF, ir.c 287-295.               *)
(***************************************************************************)
BodiesPlaced ==
    /\ \A k \in 2..Top :
         (\A j \in 2..k : ~Misplaced(j)) => walk[k].frame = walk[k].fun
    /\ phase = "crashed" => \/ \E j \in 2..Top : Misplaced(j)
                            \/ Mistaken(walk[Top], Head(walk[Top].pending))
===============================================================================
