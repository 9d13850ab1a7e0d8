---------------------------- MODULE ArrayHeapProofs ----------------------------
(***************************************************************************)
(* In programs whose arrays have at most two dimensions, the routines that *)
(* make and fill them restore what they save, at any depth of their calls. *)
(***************************************************************************)
EXTENDS ArrayHeap, TLAPS

(***************************************************************************)
(* The invariant: what lies where on the stack, by the label of the code.  *)
(***************************************************************************)
Labels ==
    {"main", "declared", "initialised", "alloc", "get_stack_variables",
     "allocate_sub_arrays", "keep_row", "end_alloc", "init", "recurse_subarrays",
     "next_row", "values", "end_init"}

Types ==
    /\ \A a \in DOMAIN heap : heap[a] \in Int
    /\ heap_pointer \in Int
    /\ reg \in [Registers -> Int]
    /\ stack \in Seq(Int) /\ rbp \in Nat
    /\ pc \in Labels
    /\ sizes \in Seq(Nat)
    /\ bases \in Seq([base : Int, sizes : Seq(Nat)])

Untouched == rbp = 0 /\ \A r \in Temporaries : reg[r] = Kept(r)

\* A declaration of an array with at most two dimensions is running.
Declaring == Len(sizes) \in {1, 2}

\* What the first call of _better_alloc keeps, below what it works with.
OuterFrame ==
    /\ Declaring
    /\ stack[Len(sizes) + 1] = Return("declared")
    /\ stack[Len(sizes) + 2] = 0
    /\ \A k \in 1..6 : stack[Len(sizes) + 2 + k] = Kept(alloc_saves[k])

\* It makes the rows of an array with two dimensions.
MakesRows == OuterFrame /\ Len(sizes) = 2 /\ reg["rsi"] = 1

InRows(length) ==
    /\ MakesRows /\ rbp = 4 /\ Len(stack) = length
    /\ stack[11] = reg["r12"]

\* ... and calls itself for each of them.
InnerFrame ==
    /\ MakesRows /\ rbp = 14 /\ Len(stack) = 21
    /\ stack[13] = Return("keep_row") /\ stack[14] = 4
    /\ stack[19] = stack[11]
    /\ stack[21] = reg["r12"]

\* _initialize_array has called itself m times, with nine words for each call.
Frames(m) ==
    /\ rbp = 9 * m + 2
    /\ stack[1] = Return("initialised") /\ stack[2] = 0
    /\ \A k \in 1..5 : stack[2 + k] = Kept(init_saves[k])
    /\ \A k \in 1..m : stack[9 * k + 1] = Return("next_row") /\ stack[9 * k + 2] = 9 * k - 7
    /\ reg["r12"] = Kept("r12")

InFrames(m, length) == Frames(m) /\ Len(stack) = 9 * m + length

AtMain        == pc \in {"main", "initialised"} => Untouched /\ stack = <<>>
AtDeclared    == pc = "declared" => Untouched /\ Declaring /\ Len(stack) = Len(sizes)
AtAlloc ==
    pc = "alloc" =>
        \/ /\ Untouched /\ Declaring /\ Len(stack) = Len(sizes) + 1
           /\ Last(stack) = Return("declared") /\ reg["rsi"] = Len(sizes)
        \/ InRows(13) /\ Last(stack) = Return("keep_row")
AtVariables ==
    pc = "get_stack_variables" =>
        /\ OuterFrame /\ Len(sizes) = 2 /\ reg["rsi"] = 2
        /\ rbp = 4 /\ Len(stack) = 11 /\ stack[11] = reg["r12"]
AtRows        == pc \in {"allocate_sub_arrays", "keep_row"} => InRows(12)
AtEndAlloc ==
    pc = "end_alloc" =>
        \/ /\ OuterFrame /\ rbp = Len(sizes) + 2 /\ Len(stack) = Len(sizes) + 9
           /\ Last(stack) = reg["r12"]
        \/ InnerFrame
AtInit ==
    pc = "init" =>
        \/ Untouched /\ stack = <<Return("initialised")>>
        \/ \E m \in Nat : InFrames(m, 10) /\ Last(stack) = Return("next_row")
AtValues      == pc \in {"values", "end_init"} => \E m \in Nat : InFrames(m, 7)
AtSubArrays   == pc = "recurse_subarrays" => \E m \in Nat : InFrames(m, 8)
AtNextRow     == pc = "next_row" => \E m \in Nat : InFrames(m, 9)

AllocLabels == AtMain /\ AtDeclared /\ AtAlloc /\ AtVariables /\ AtRows /\ AtEndAlloc
InitLabels  == AtInit /\ AtValues /\ AtSubArrays /\ AtNextRow

IInv == Types /\ AllocLabels /\ InitLabels

(***************************************************************************)
(* Operators of the model.                                                 *)
(***************************************************************************)

\* What Return writes on the stack, Continues reads.
LEMMA ReturnNumbers ==
    /\ Return("declared") = -101 /\ Continues(-101) = "declared"
    /\ Return("keep_row") = -102 /\ Continues(-102) = "keep_row"
    /\ Return("initialised") = -103 /\ Continues(-103) = "initialised"
    /\ Return("next_row") = -104 /\ Continues(-104) = "next_row"
<1>1. DOMAIN Returns = 1..4
  BY DEF Returns
<1>2. /\ Returns[1] = "declared" /\ Returns[2] = "keep_row"
      /\ Returns[3] = "initialised" /\ Returns[4] = "next_row"
  BY DEF Returns
<1>3. ASSUME NEW i \in 1..4
      PROVE  (CHOOSE k \in 1..4 : Returns[k] = Returns[i]) = i
  <2>1. \A k \in 1..4 : Returns[k] = Returns[i] => k = i
    BY <1>2
  <2> QED BY <2>1
<1>4. \A i \in 1..4 : Return(Returns[i]) = -(100 + i)
  BY <1>1, <1>3 DEF Return
<1>5. \A i \in 1..4 : Continues(-(100 + i)) = Returns[i]
  BY <1>1 DEF Continues
<1>6. /\ Return(Returns[1]) = -101 /\ Return(Returns[2]) = -102
      /\ Return(Returns[3]) = -103 /\ Return(Returns[4]) = -104
  BY <1>4
<1>7. /\ Continues(-101) = Returns[1] /\ Continues(-102) = Returns[2]
      /\ Continues(-103) = Returns[3] /\ Continues(-104) = Returns[4]
  BY <1>5
<1> QED BY <1>2, <1>6, <1>7

\* What a program keeps in a register is no address of a call.
LEMMA KeptIsInt == \A r \in Registers : Kept(r) \in Int
BY DEF Kept, Registers, Temporaries

\* A stack with words above it.
Extends(t, s, words) ==
    /\ t \in Seq(Int) /\ Len(t) = Len(s) + Len(words)
    /\ \A k \in 1..Len(s) : t[k] = s[k]
    /\ \A k \in 1..Len(words) : t[Len(s) + k] = words[k]

LEMMA Concatenated ==
    ASSUME NEW s \in Seq(Int), NEW words \in Seq(Int)
    PROVE  Extends(s \o words, s, words)
BY DEF Extends

LEMMA Appended ==
    ASSUME NEW s \in Seq(Int), NEW word \in Int
    PROVE  Extends(Append(s, word), s, <<word>>)
BY DEF Extends

\* What is left under the words popped.
Under(t, s, n) ==
    /\ t \in Seq(Int) /\ Len(t) = Len(s) - n
    /\ \A k \in 1..(Len(s) - n) : t[k] = s[k]

LEMMA PrefixIs ==
    ASSUME NEW s \in Seq(Int), NEW m \in 0..Len(s)
    PROVE  LET t == SubSeq(s, 1, m)
           IN  t \in Seq(Int) /\ Len(t) = m /\ \A k \in 1..m : t[k] = s[k]
OBVIOUS

LEMMA PoppedIs ==
    ASSUME NEW s \in Seq(Int), NEW n \in 0..Len(s)
    PROVE  Under(Popped(s, n), s, n)
BY DEF Popped, Under

\* A prologue pushes rbp, then the registers it saves.
Saves(t, saves) ==
    /\ t \in Seq(Int) /\ Len(t) = Len(stack) + 1 + Len(saves)
    /\ \A k \in 1..Len(stack) : t[k] = stack[k]
    /\ t[Len(stack) + 1] = rbp
    /\ \A k \in 1..Len(saves) : t[Len(stack) + 1 + k] = reg[saves[k]]

LEMMA PushedIs ==
    ASSUME Types, NEW saves \in Seq(Registers)
    PROVE  Saves(Pushed(saves), saves)
<1> DEFINE kept == [k \in DOMAIN saves |-> reg[saves[k]]]
<1>1. kept \in Seq(Int) /\ Len(kept) = Len(saves)
  BY DEF Types
<1>2. \A k \in 1..Len(saves) : kept[k] = reg[saves[k]]
  OBVIOUS
<1> DEFINE below == Append(stack, rbp)
<1>3. Extends(below, stack, <<rbp>>)
  BY Appended DEF Types
<1>4. below \in Seq(Int) /\ Len(below) = Len(stack) + 1 /\ Len(stack) \in Nat
  BY <1>3 DEF Extends, Types
<1>5. Pushed(saves) = below \o kept
  BY DEF Pushed
<1> HIDE DEF kept, below
<1>6. Extends(below \o kept, below, kept)
  BY <1>1, <1>4, Concatenated
<1> DEFINE all == below \o kept
<1>7. /\ all \in Seq(Int) /\ Len(all) = Len(stack) + 1 + Len(saves)
      /\ \A k \in 1..(Len(stack) + 1) : all[k] = below[k]
      /\ \A k \in 1..Len(saves) : all[Len(stack) + 1 + k] = kept[k]
  BY <1>1, <1>4, <1>6 DEF Extends
<1>8. /\ \A k \in 1..Len(stack) : below[k] = stack[k]
      /\ below[Len(stack) + 1] = rbp
  BY <1>3 DEF Extends
<1> HIDE DEF all
<1>9. /\ \A k \in 1..Len(stack) : all[k] = stack[k]
      /\ all[Len(stack) + 1] = rbp
      /\ \A k \in 1..Len(saves) : all[Len(stack) + 1 + k] = reg[saves[k]]
  BY <1>2, <1>4, <1>7, <1>8
<1>10. Saves(all, saves)
  BY <1>7, <1>9 DEF Saves
<1> QED BY <1>5, <1>10 DEF all

LEMMA SavesAre ==
    /\ alloc_saves \in Seq(Registers) /\ Len(alloc_saves) = 6
    /\ init_saves \in Seq(Registers) /\ Len(init_saves) = 5
    /\ alloc_saves[1] = "r8" /\ alloc_saves[2] = "r9" /\ alloc_saves[3] = "r10"
    /\ alloc_saves[4] = "r11" /\ alloc_saves[5] = "r12" /\ alloc_saves[6] = "rbx"
    /\ init_saves[1] = "r8" /\ init_saves[2] = "r9" /\ init_saves[3] = "r10"
    /\ init_saves[4] = "r11" /\ init_saves[5] = "rbx"
BY DEF alloc_saves, init_saves, Registers, Temporaries

\* An epilogue pops the registers it saved, each from where it was pushed.
Restores(saves, s, r) ==
    /\ reg' \in [Registers -> Int]
    /\ \A k \in 1..Len(saves) : reg'[saves[k]] = s[Len(s) - Len(saves) + k]
    /\ \A x \in Registers : (\A k \in 1..Len(saves) : saves[k] # x) => reg'[x] = r[x]
    /\ rbp' = stack[rbp]
    /\ pc' = Continues(stack[rbp - 1])
    /\ stack' = SubSeq(stack, 1, rbp - 2)

LEMMA EpilogueRestores ==
    ASSUME NEW saves \in Seq(Registers), NEW s \in Seq(Int),
           NEW r \in [Registers -> Int], Len(saves) =< Len(s), Epilogue(saves, s, r),
           \A i, j \in 1..Len(saves) : saves[i] = saves[j] => i = j
    PROVE  Restores(saves, s, r)
<1> DEFINE saved(x) == \E k \in DOMAIN saves : saves[k] = x
           place(x) == CHOOSE k \in DOMAIN saves : saves[k] = x
<1>1. DOMAIN saves = 1..Len(saves) /\ Len(saves) \in Nat /\ Len(s) \in Nat
  OBVIOUS
<1>2. ASSUME NEW x, saved(x)
      PROVE  place(x) \in 1..Len(saves) /\ saves[place(x)] = x
  BY <1>1, <1>2
<1>3. reg' = [x \in Registers |->
                IF saved(x) THEN s[Len(s) - Len(saves) + place(x)] ELSE r[x]]
  BY DEF Epilogue
<1>4. \A k \in 1..Len(saves) : saved(saves[k]) /\ saves[k] \in Registers
  <2>1. ASSUME NEW k \in 1..Len(saves)
        PROVE  k \in DOMAIN saves /\ saves[k] \in Registers
    BY <1>1
  <2> QED BY <2>1
<1>5. ASSUME NEW k \in 1..Len(saves)
      PROVE  place(saves[k]) = k
  <2>1. place(saves[k]) \in 1..Len(saves) /\ saves[place(saves[k])] = saves[k]
    BY <1>2, <1>4
  <2> QED BY <2>1
<1>6. \A x : saved(x) <=> \E k \in 1..Len(saves) : saves[k] = x
  BY <1>1
<1> HIDE DEF saved, place
<1>7. \A k \in 1..Len(saves) : reg'[saves[k]] = s[Len(s) - Len(saves) + k]
  BY <1>3, <1>4, <1>5
<1>8. \A x \in Registers : (\A k \in 1..Len(saves) : saves[k] # x) => reg'[x] = r[x]
  BY <1>3, <1>6
<1>9. reg' \in [Registers -> Int]
  <2>1. ASSUME NEW x \in Registers
        PROVE  (IF saved(x) THEN s[Len(s) - Len(saves) + place(x)] ELSE r[x]) \in Int
    <3>1. CASE saved(x)
      <4>1. place(x) \in 1..Len(saves)
        BY <1>2, <3>1
      <4>2. Len(s) - Len(saves) + place(x) \in 1..Len(s)
        BY <4>1, <1>1
      <4>3. s[Len(s) - Len(saves) + place(x)] \in Int
        BY <4>2
      <4> QED BY <4>3, <3>1
    <3>2. CASE ~saved(x)
      BY <3>2
    <3> QED BY <3>1, <3>2
  <2> QED BY <2>1, <1>3
<1> QED BY <1>7, <1>8, <1>9 DEF Epilogue, Restores

(***************************************************************************)
(* A step that ends at a label has to show what holds there.               *)
(***************************************************************************)
LEMMA WrittenIsInt ==
    ASSUME Types, NEW ws, \A a \in DOMAIN ws : ws[a] \in Int
    PROVE  \A a \in DOMAIN Written(heap, ws) : Written(heap, ws)[a] \in Int
BY DEF Written, Types

LEMMA WordIsInt ==
    ASSUME Types, NEW a
    PROVE  Word(a) \in Int
BY DEF Types, Word

LEMMA InitHolds == Init => IInv
<1> SUFFICES ASSUME Init PROVE IInv
  OBVIOUS
<1>1. Types
  BY KeptIsInt DEF Init, Types, Labels
<1>2. Untouched
  BY DEF Init, Untouched, Registers
<1> QED
  BY <1>1, <1>2 DEF Init, IInv, AllocLabels, InitLabels, AtMain, AtDeclared, AtAlloc,
     AtVariables, AtRows, AtEndAlloc, AtInit, AtValues, AtSubArrays, AtNextRow

LEMMA StutterKeeps == IInv /\ UNCHANGED vars => IInv'
BY DEF vars, IInv, Types, Untouched, Declaring, OuterFrame, MakesRows, InRows, InnerFrame,
   Frames, InFrames, AllocLabels, InitLabels, AtMain, AtDeclared, AtAlloc,
   AtVariables, AtRows, AtEndAlloc, AtInit, AtValues, AtSubArrays, AtNextRow

LEMMA DeclareKeeps ==
    ASSUME IInv, NEW s \in Shapes, Len(s) \in {1, 2}, Declare(s)
    PROVE  IInv'
<1>1. Types /\ Untouched /\ stack = <<>>
  BY DEF IInv, AllocLabels, AtMain, Declare
<1>2. s \in Seq(Nat)
  BY ShapeAssumption
<1> DEFINE pushed == stack \o Reverse(s)
<1>3. pushed \in Seq(Int) /\ Len(pushed) = Len(s)
  BY <1>1, <1>2 DEF Reverse
<1> HIDE DEF pushed
<1>4. Extends(stack', pushed, <<Return("declared")>>)
  <2>1. stack' = Append(pushed, Return("declared"))
    BY DEF Declare, pushed
  <2>2. Return("declared") \in Int
    BY ReturnNumbers
  <2> QED BY <1>3, <2>1, <2>2, Appended
<1>5. stack' \in Seq(Int) /\ Len(stack') = Len(s) + 1 /\ Last(stack') = Return("declared")
  BY <1>3, <1>4 DEF Extends, Last
<1>6. reg' \in [Registers -> Int] /\ reg'["rsi"] = Len(s)
      /\ \A r \in Temporaries : reg'[r] = reg[r]
  <2>1. reg \in [Registers -> Int] /\ Len(s) \in Int
    BY <1>1, <1>2 DEF Types
  <2>2. reg' = [reg EXCEPT !["rdi"] = 8, !["rsi"] = Len(s)]
    BY DEF Declare
  <2> QED BY <2>1, <2>2 DEF Registers, Temporaries
<1>7. Types'
  BY <1>1, <1>2, <1>5, <1>6 DEF Declare, Types, Labels
<1>8. Untouched' /\ Declaring'
  BY <1>1, <1>6 DEF Declare, Untouched, Declaring
<1>9. AtAlloc'
  BY <1>5, <1>6, <1>8 DEF Declare, AtAlloc
<1> QED
  BY <1>7, <1>9 DEF Declare, IInv, AllocLabels, InitLabels, AtMain, AtDeclared,
     AtVariables, AtRows, AtEndAlloc, AtInit, AtValues, AtSubArrays, AtNextRow

\* The arguments are dropped.
LEMMA DropsSizes ==
    ASSUME Types, Declaring, Len(stack) = Len(sizes)
    PROVE  Popped(stack, Len(sizes)) = <<>>
BY DEF Types, Popped

LEMMA BoundIs ==
    ASSUME Types, Bound(reg["rax"])
    PROVE  bases' \in Seq([base : Int, sizes : Seq(Nat)])
<1>1. reg["rax"] \in Int /\ sizes \in Seq(Nat)
  BY DEF Types, Registers
<1>2. [base |-> reg["rax"], sizes |-> sizes] \in [base : Int, sizes : Seq(Nat)]
  BY <1>1
<1> QED BY <1>2 DEF Types, Bound

LEMMA DeclaredKeeps == IInv /\ Declared => IInv'
<1> SUFFICES ASSUME IInv, Declared PROVE IInv'
  OBVIOUS
<1>1. Types /\ Untouched /\ Declaring /\ Len(stack) = Len(sizes)
  BY DEF IInv, AllocLabels, AtDeclared, Declared
<1>2. stack' = <<>>
  BY <1>1, DropsSizes DEF Declared
<1>3. Types'
  BY <1>1, <1>2, BoundIs DEF Declared, Types, Labels
<1>4. AtMain'
  BY <1>1, <1>2 DEF Declared, AtMain, Untouched
<1> QED
  BY <1>3, <1>4 DEF Declared, IInv, AllocLabels, InitLabels, AtDeclared, AtAlloc,
     AtVariables, AtRows, AtEndAlloc, AtInit, AtValues, AtSubArrays, AtNextRow

LEMMA InitialisedKeeps == IInv /\ Initialised => IInv'
<1> SUFFICES ASSUME IInv, Initialised PROVE IInv'
  OBVIOUS
<1>1. Types /\ Untouched /\ stack = <<>>
  BY DEF IInv, AllocLabels, AtMain, Initialised
<1>2. Types'
  BY <1>1, BoundIs DEF Initialised, Types, Labels
<1>3. AtMain'
  BY <1>1 DEF Initialised, AtMain, Untouched
<1> QED
  BY <1>2, <1>3 DEF Initialised, IInv, AllocLabels, InitLabels, AtDeclared, AtAlloc,
     AtVariables, AtRows, AtEndAlloc, AtInit, AtValues, AtSubArrays, AtNextRow

LEMMA StoreKeeps ==
    ASSUME IInv, Values \subseteq Int, NEW a, NEW ix, NEW v \in Values, Store(a, ix, v)
    PROVE  IInv'
<1>1. Types /\ Untouched /\ stack = <<>>
  BY DEF IInv, AllocLabels, AtMain, Store
<1>2. \A x \in DOMAIN heap' : heap'[x] \in Int
  <2> DEFINE ws == [x \in {Address(bases[a].base, ix)} |-> v]
  <2>1. \A x \in DOMAIN ws : ws[x] \in Int
    OBVIOUS
  <2>2. heap' = Written(heap, ws)
    BY DEF Store
  <2> QED BY <1>1, <2>1, <2>2, WrittenIsInt
<1>3. Types'
  BY <1>1, <1>2 DEF Store, Types
<1>4. AtMain'
  BY <1>1 DEF Store, AtMain, Untouched
<1> QED
  BY <1>3, <1>4 DEF Store, IInv, AllocLabels, InitLabels, AtDeclared, AtAlloc,
     AtVariables, AtRows, AtEndAlloc, AtInit, AtValues, AtSubArrays, AtNextRow

LEMMA InitialiseKeeps == IInv /\ Initialise => IInv'
<1> SUFFICES ASSUME IInv, Initialise PROVE IInv'
  OBVIOUS
<1>1. Types /\ Untouched /\ Declaring /\ Len(stack) = Len(sizes)
  BY DEF IInv, AllocLabels, AtDeclared, Initialise
<1>2. stack' = <<Return("initialised")>> /\ stack' \in Seq(Int)
  <2>1. stack' = <<Return("initialised")>>
    BY <1>1, DropsSizes DEF Initialise
  <2>2. Return("initialised") \in Int
    BY ReturnNumbers
  <2> QED BY <2>1, <2>2
<1>3. Data \in Int
  BY <1>1 DEF Types, Data
<1>4. reg' \in [Registers -> Int] /\ \A r \in Temporaries : reg'[r] = reg[r]
  BY <1>1, <1>3 DEF Initialise, Types, Registers, Temporaries
<1>5. Types'
  BY <1>1, <1>2, <1>4 DEF Initialise, Types, Labels
<1>6. AtInit'
  BY <1>1, <1>2, <1>4 DEF Initialise, AtInit, Untouched
<1> QED
  BY <1>5, <1>6 DEF Initialise, IInv, AllocLabels, InitLabels, AtMain, AtDeclared, AtAlloc,
     AtVariables, AtRows, AtEndAlloc, AtValues, AtSubArrays, AtNextRow

(***************************************************************************)
(* _better_alloc.                                                          *)
(***************************************************************************)

\* The stack when a call of it starts, whichever call that is.
LEMMA AllocStarts ==
    ASSUME IInv, pc = "alloc"
    PROVE  /\ Types /\ Declaring /\ Len(stack) \in {2, 3, 13}
           /\ \/ /\ Untouched /\ Len(stack) = Len(sizes) + 1
                 /\ Last(stack) = Return("declared") /\ reg["rsi"] = Len(sizes)
              \/ InRows(13) /\ Last(stack) = Return("keep_row")
<1>1. /\ Types
      /\ \/ /\ Untouched /\ Declaring /\ Len(stack) = Len(sizes) + 1
            /\ Last(stack) = Return("declared") /\ reg["rsi"] = Len(sizes)
         \/ InRows(13) /\ Last(stack) = Return("keep_row")
  BY DEF IInv, AllocLabels, AtAlloc
<1>2. InRows(13) => Declaring /\ Len(stack) = 13
  BY DEF InRows, MakesRows, OuterFrame
<1>3. Declaring /\ Len(stack) = Len(sizes) + 1 => Len(stack) \in {2, 3}
  <2>1. Declaring => Len(sizes) = 1 \/ Len(sizes) = 2
    BY DEF Declaring
  <2>2. Len(sizes) = 1 /\ Len(stack) = Len(sizes) + 1 => Len(stack) = 2
    OBVIOUS
  <2>3. Len(sizes) = 2 /\ Len(stack) = Len(sizes) + 1 => Len(stack) = 3
    OBVIOUS
  <2> QED BY <2>1, <2>2, <2>3, Zenon
<1> QED BY <1>1, <1>2, <1>3, Zenon

\* The array it begins: the stack under its base, and the registers.
Begins ==
    /\ stack' \in Seq(Int) /\ Len(stack') = Len(stack) + 8
    /\ \A k \in 1..Len(stack) : stack'[k] = stack[k]
    /\ stack'[Len(stack) + 1] = rbp
    /\ \A k \in 1..6 : stack'[Len(stack) + 1 + k] = reg[alloc_saves[k]]
    /\ stack'[Len(stack) + 8] = reg'["r12"]
    /\ reg' \in [Registers -> Int] /\ reg'["rsi"] = reg["rsi"]

LEMMA AllocBegins ==
    ASSUME Types, 2 =< Len(stack), Alloc
    PROVE  Begins
<1> DEFINE t == Pushed(alloc_saves)
<1>1. Saves(t, alloc_saves) /\ Len(alloc_saves) = 6
  BY PushedIs, SavesAre
<1>2. Len(stack) \in Nat /\ heap_pointer \in Int
  BY DEF Types
<1>3. t \in Seq(Int) /\ Len(t) = Len(stack) + 7
  BY <1>1, <1>2 DEF Saves
<1>4. stack' = Append(t, heap_pointer)
  BY DEF Alloc
<1> HIDE DEF t
<1>5. Extends(stack', t, <<heap_pointer>>)
  BY <1>2, <1>3, <1>4, Appended
<1>6. stack' \in Seq(Int) /\ Len(stack') = Len(stack) + 8
  BY <1>2, <1>3, <1>5 DEF Extends
<1>7. (\A k \in 1..Len(t) : stack'[k] = t[k]) /\ stack'[Len(t) + 1] = heap_pointer
  BY <1>5 DEF Extends
<1>14. PICK n \in Nat : n = Len(stack)
  BY <1>2
<1>15. /\ \A k \in 1..n : t[k] = stack[k]
       /\ t[n + 1] = rbp
       /\ \A k \in 1..6 : t[n + 1 + k] = reg[alloc_saves[k]]
  BY <1>1, <1>14 DEF Saves
<1>16. (\A k \in 1..(n + 7) : stack'[k] = t[k]) /\ stack'[n + 8] = heap_pointer
  BY <1>3, <1>7, <1>14
<1>8. \A k \in 1..Len(stack) : stack'[k] = stack[k]
  BY <1>14, <1>15, <1>16
<1>9. stack'[Len(stack) + 1] = rbp
  BY <1>14, <1>15, <1>16
<1>10. \A k \in 1..6 : stack'[Len(stack) + 1 + k] = reg[alloc_saves[k]]
  <2>1. ASSUME NEW k \in 1..6
        PROVE  stack'[n + 1 + k] = t[n + 1 + k] /\ t[n + 1 + k] = reg[alloc_saves[k]]
    <3>1. n + 1 + k \in 1..(n + 7)
      OBVIOUS
    <3> QED BY <3>1, <1>15, <1>16
  <2> QED BY <2>1, <1>14
<1>11. stack[Len(stack) - 1] \in Int
  BY <1>2 DEF Types
<1>12. /\ reg' \in [Registers -> Int] /\ reg'["rsi"] = reg["rsi"]
       /\ reg'["r12"] = heap_pointer
  <2>1. reg \in [Registers -> Int]
    BY DEF Types
  <2>2. reg' = [reg EXCEPT !["r8"] = heap_pointer + 4, !["r9"] = stack[Len(stack) - 1],
                           !["r10"] = heap_pointer + Room(stack[Len(stack) - 1]),
                           !["r12"] = heap_pointer]
    BY DEF Alloc
  <2>3. heap_pointer + 4 \in Int /\ heap_pointer + Room(stack[Len(stack) - 1]) \in Int
    BY <1>2, <1>11 DEF Room
  <2> QED BY <1>2, <1>11, <2>1, <2>2, <2>3 DEF Registers, Temporaries
<1>13. stack'[Len(stack) + 8] = reg'["r12"]
  BY <1>12, <1>14, <1>16
<1> QED BY <1>6, <1>8, <1>9, <1>10, <1>12, <1>13 DEF Begins

LEMMA AllocTypes ==
    ASSUME Types, 2 =< Len(stack), Alloc
    PROVE  Types'
<1>1. Begins
  BY AllocBegins
<1>2. heap_pointer \in Int /\ stack[Len(stack) - 1] \in Int /\ reg["rsi"] \in Int
  BY DEF Types, Registers
<1>3. \A a \in DOMAIN heap' : heap'[a] \in Int
  <2> DEFINE ws == [a \in heap_pointer..(heap_pointer + 3) |->
                      CASE a = heap_pointer -> 1 [] a = heap_pointer + 1 -> reg["rsi"]
                        [] a = heap_pointer + 2 -> stack[Len(stack) - 1]
                        [] a = heap_pointer + 3 -> 1]
  <2>1. ASSUME NEW a \in heap_pointer..(heap_pointer + 3)
        PROVE  ws[a] \in Int
    <3>1. \/ a = heap_pointer \/ a = heap_pointer + 1
          \/ a = heap_pointer + 2 \/ a = heap_pointer + 3
      BY <1>2
    <3>2. CASE a = heap_pointer
      BY <1>2, <3>2
    <3>3. CASE a = heap_pointer + 1
      BY <1>2, <3>3
    <3>4. CASE a = heap_pointer + 2
      BY <1>2, <3>4
    <3>5. CASE a = heap_pointer + 3
      BY <1>2, <3>5
    <3> QED BY <3>1, <3>2, <3>3, <3>4, <3>5
  <2>2. heap' = Written(heap, ws)
    BY DEF Alloc
  <2>3. \A a \in DOMAIN ws : ws[a] \in Int
    BY <2>1
  <2> HIDE DEF ws
  <2> QED BY <2>2, <2>3, WrittenIsInt
<1>4. heap_pointer' \in Int
  BY <1>2 DEF Alloc, Room
<1>5. rbp' \in Nat
  BY DEF Alloc, Types
<1>6. pc' \in Labels
  BY DEF Alloc, Labels
<1> QED BY <1>1, <1>3, <1>4, <1>5, <1>6 DEF Alloc, Types, Begins

LEMMA AllocKeeps == IInv /\ Alloc => IInv'
<1> SUFFICES ASSUME IInv, Alloc PROVE IInv'
  OBVIOUS
<1>1. pc = "alloc"
  BY DEF Alloc
<1>2. Types /\ Declaring /\ Len(stack) \in {2, 3, 13}
  BY <1>1, AllocStarts
<1>3. Types' /\ Begins
  <2>1. 2 =< Len(stack)
    <3>1. \A n \in {2, 3, 13} : 2 =< n
      OBVIOUS
    <3> QED BY <1>2, <3>1, Zenon
  <2> QED BY <1>2, <2>1, AllocTypes, AllocBegins
<1>4. rbp' = Len(stack) + 1 /\ sizes' = sizes
  BY DEF Alloc
<1>5. CASE /\ Untouched /\ Len(stack) = Len(sizes) + 1
           /\ Last(stack) = Return("declared") /\ reg["rsi"] = Len(sizes)
  <2>7. PICK n \in {1, 2} : n = Len(sizes)
    BY <1>2 DEF Declaring
  <2>8. Len(stack) = n + 1 /\ stack[n + 1] = Return("declared") /\ rbp = 0
    BY <1>5, <2>7 DEF Last, Untouched
  <2>9. /\ stack'[n + 1] = stack[n + 1] /\ stack'[n + 2] = rbp /\ Len(stack') = n + 9
        /\ stack'[n + 9] = reg'["r12"]
    <3>1. n + 1 \in 1..Len(stack) /\ Len(stack) + 1 = n + 2 /\ Len(stack) + 8 = n + 9
      BY <2>8
    <3> QED BY <1>3, <3>1 DEF Begins
  <2>10. \A k \in 1..6 : stack'[n + 2 + k] = reg[alloc_saves[k]]
    <3>1. \A k \in 1..6 : stack'[Len(stack) + 1 + k] = reg[alloc_saves[k]]
      BY <1>3 DEF Begins
    <3> QED BY <2>8, <3>1
  <2>1. /\ stack'[Len(sizes) + 1] = Return("declared")
        /\ stack'[Len(sizes) + 2] = 0
        /\ Len(stack') = Len(sizes) + 9 /\ stack'[Len(sizes) + 9] = reg'["r12"]
    BY <2>7, <2>8, <2>9
  <2>2. \A k \in 1..6 : stack'[Len(sizes) + 2 + k] = Kept(alloc_saves[k])
    <3>1. ASSUME NEW k \in 1..6 PROVE alloc_saves[k] \in Temporaries
      BY SavesAre DEF Temporaries
    <3>2. \A k \in 1..6 : stack'[Len(sizes) + 2 + k] = reg[alloc_saves[k]]
      BY <2>7, <2>10
    <3> QED BY <1>5, <3>1, <3>2 DEF Untouched
  <2>3. OuterFrame'
    BY <1>2, <1>4, <2>1, <2>2 DEF OuterFrame, Declaring
  <2>4. rbp' = Len(sizes') + 2 /\ Last(stack') = reg'["r12"]
    BY <1>2, <1>4, <1>5, <2>1 DEF Last, Declaring
  <2>5. CASE Len(sizes) = 1
    <3>1. pc' = "end_alloc"
      BY <1>5, <2>5 DEF Alloc
    <3>2. AtEndAlloc'
      BY <1>4, <2>1, <2>3, <2>4 DEF AtEndAlloc
    <3> QED
      BY <1>3, <3>1, <3>2 DEF IInv, AllocLabels, InitLabels, AtMain, AtDeclared, AtAlloc,
         AtVariables, AtRows, AtInit, AtValues, AtSubArrays, AtNextRow
  <2>6. CASE Len(sizes) = 2
    <3>1. pc' = "get_stack_variables"
      BY <1>5, <2>6 DEF Alloc
    <3>2. AtVariables'
      BY <1>3, <1>4, <1>5, <2>1, <2>3, <2>4, <2>6 DEF AtVariables, Begins
    <3> QED
      BY <1>3, <3>1, <3>2 DEF IInv, AllocLabels, InitLabels, AtMain, AtDeclared, AtAlloc,
         AtRows, AtEndAlloc, AtInit, AtValues, AtSubArrays, AtNextRow
  <2> QED BY <1>2, <2>5, <2>6 DEF Declaring
<1>6. CASE InRows(13) /\ Last(stack) = Return("keep_row")
  <2>1. MakesRows /\ rbp = 4 /\ Len(stack) = 13 /\ stack[11] = reg["r12"]
    BY <1>6 DEF InRows
  <2>2. pc' = "end_alloc"
    BY <2>1 DEF Alloc, MakesRows
  <2>3. Len(stack') = 21 /\ \A k \in 1..13 : stack'[k] = stack[k]
    BY <1>3, <2>1 DEF Begins
  <2>4. MakesRows'
    BY <1>3, <1>4, <2>1, <2>3 DEF MakesRows, OuterFrame, Declaring, Begins
  <2>5. stack'[13] = Return("keep_row") /\ stack'[14] = 4
    BY <1>3, <1>6, <2>1 DEF Begins, Last
  <2>6. stack'[19] = stack'[11] /\ stack'[21] = reg'["r12"]
    <3>1. stack'[13 + 1 + 5] = reg[alloc_saves[5]] /\ stack'[13 + 8] = reg'["r12"]
      BY <1>3, <2>1 DEF Begins
    <3>2. alloc_saves[5] = "r12"
      BY SavesAre
    <3> QED BY <2>1, <2>3, <3>1, <3>2
  <2>7. AtEndAlloc'
    BY <1>4, <2>1, <2>3, <2>4, <2>5, <2>6 DEF AtEndAlloc, InnerFrame
  <2> QED
    BY <1>3, <2>2, <2>7 DEF IInv, AllocLabels, InitLabels, AtMain, AtDeclared, AtAlloc,
       AtVariables, AtRows, AtInit, AtValues, AtSubArrays, AtNextRow
<1> QED BY <1>1, <1>5, <1>6, AllocStarts

\* A frame below stays as it is while the stack above it changes.
LEMMA OuterFrameStays ==
    ASSUME OuterFrame, sizes' = sizes, NEW n \in Nat, Len(sizes) + 8 =< n,
           \A k \in 1..n : stack'[k] = stack[k]
    PROVE  OuterFrame'
<1>1. PICK m \in {1, 2} : m = Len(sizes)
  BY DEF OuterFrame, Declaring
<1>2. /\ stack[m + 1] = Return("declared") /\ stack[m + 2] = 0
      /\ \A k \in 1..6 : stack[m + 2 + k] = Kept(alloc_saves[k])
  BY <1>1 DEF OuterFrame
<1>3. m + 8 =< n
  BY <1>1
<1>4. stack'[m + 1] = stack[m + 1] /\ stack'[m + 2] = stack[m + 2]
  BY <1>3
<1>5. \A k \in 1..6 : stack'[m + 2 + k] = stack[m + 2 + k]
  BY <1>3
<1>6. Len(sizes') = m
  BY <1>1
<1> QED BY <1>2, <1>4, <1>5, <1>6 DEF OuterFrame, Declaring

LEMMA MakesRowsStays ==
    ASSUME MakesRows, sizes' = sizes, reg'["rsi"] = 1, NEW n \in Nat, 10 =< n,
           \A k \in 1..n : stack'[k] = stack[k]
    PROVE  MakesRows'
<1>1. OuterFrame /\ Len(sizes) = 2
  BY DEF MakesRows
<1>2. Len(sizes) + 8 =< n
  BY <1>1
<1>3. OuterFrame'
  BY <1>1, <1>2, OuterFrameStays
<1> QED BY <1>1, <1>3 DEF MakesRows

LEMMA GetStackVariablesKeeps == IInv /\ GetStackVariables => IInv'
<1> SUFFICES ASSUME IInv, GetStackVariables PROVE IInv'
  OBVIOUS
<1>1. /\ Types /\ OuterFrame /\ Len(sizes) = 2 /\ reg["rsi"] = 2
      /\ rbp = 4 /\ Len(stack) = 11 /\ stack[11] = reg["r12"]
  BY DEF IInv, AllocLabels, AtVariables, GetStackVariables
<1>11. stack \in Seq(Int) /\ stack[1] \in Int /\ rbp - 3 = 1
  <2>1. stack \in Seq(Int) /\ 1 \in 1..Len(stack)
    BY <1>1 DEF Types
  <2>2. stack[1] \in Int
    BY <2>1
  <2>3. rbp - 3 = 1
    BY <1>1
  <2> QED BY <2>1, <2>2, <2>3
<1> DEFINE row == RowSizes(1)
<1>2. row \in Seq(Int) /\ Len(row) = 1
  <2>1. row = [k \in 1..1 |-> stack[rbp - 3 - 1 + k]]
    BY DEF RowSizes
  <2>2. ASSUME NEW k \in 1..1
        PROVE  rbp - 3 - 1 + k = 1
    BY <1>1
  <2>3. row = [k \in 1..1 |-> stack[1]]
    BY <2>1, <2>2
  <2> HIDE DEF row
  <2> QED BY <1>11, <2>3
<1>3. reg["rsi"] - 1 = 1
  BY <1>1
<1>4. stack' = stack \o row
  BY <1>3 DEF GetStackVariables
<1> HIDE DEF row
<1>5. Extends(stack', stack, row)
  BY <1>1, <1>2, <1>4, Concatenated DEF Types
<1>6. /\ stack' \in Seq(Int) /\ Len(stack') = 12
      /\ \A k \in 1..11 : stack'[k] = stack[k]
  BY <1>1, <1>2, <1>5 DEF Extends
<1>7. reg' \in [Registers -> Int] /\ reg'["rsi"] = 1 /\ reg'["r12"] = reg["r12"]
  <2>1. /\ reg \in [Registers -> Int] /\ heap_pointer \in Int /\ stack[rbp - 3] \in Int
    BY <1>1, <1>11 DEF Types
  <2>2. reg' = [reg EXCEPT !["rsi"] = 1, !["rbx"] = heap_pointer, !["r11"] = stack[rbp - 3]]
    BY <1>3 DEF GetStackVariables
  <2> QED BY <2>1, <2>2 DEF Registers, Temporaries
<1>8. OuterFrame'
  <2>1. sizes' = sizes
    BY DEF GetStackVariables
  <2>2. OuterFrame /\ Len(sizes) + 8 =< 11
    BY <1>1 DEF MakesRows
  <2>3. \A k \in 1..11 : stack'[k] = stack[k]
    BY <1>6
  <2> QED BY <2>1, <2>2, <2>3, OuterFrameStays
<1>12. MakesRows'
  BY <1>1, <1>7, <1>8 DEF GetStackVariables, MakesRows
<1>13. stack'[11] = reg'["r12"] /\ rbp' = 4
  <2>1. stack'[11] = stack[11]
    BY <1>6
  <2>2. rbp' = rbp
    BY DEF GetStackVariables
  <2> QED BY <1>1, <1>7, <2>1, <2>2, Zenon
<1>9. AtRows'
  BY <1>6, <1>12, <1>13 DEF AtRows, InRows
<1>10. Types'
  BY <1>1, <1>6, <1>7 DEF GetStackVariables, Types, Labels
<1> QED
  BY <1>9, <1>10 DEF GetStackVariables, IInv, AllocLabels, InitLabels, AtMain, AtDeclared,
     AtAlloc, AtVariables, AtEndAlloc, AtInit, AtValues, AtSubArrays, AtNextRow

LEMMA AllocateSubArraysKeeps == IInv /\ AllocateSubArrays => IInv'
<1> SUFFICES ASSUME IInv, AllocateSubArrays PROVE IInv'
  OBVIOUS
<1>1. /\ Types /\ MakesRows /\ rbp = 4 /\ Len(stack) = 12 /\ stack[11] = reg["r12"]
  BY DEF IInv, AllocLabels, AtRows, AllocateSubArrays, InRows
<1>2. Extends(stack', stack, <<Return("keep_row")>>)
  <2>1. Return("keep_row") \in Int
    BY ReturnNumbers
  <2> QED BY <1>1, <2>1, Appended DEF AllocateSubArrays, Types
<1>3. /\ stack' \in Seq(Int) /\ Len(stack') = 13 /\ Last(stack') = Return("keep_row")
      /\ \A k \in 1..12 : stack'[k] = stack[k]
  BY <1>1, <1>2 DEF Extends, Last
<1>4. MakesRows'
  <2>1. sizes' = sizes /\ reg'["rsi"] = 1
    BY <1>1 DEF AllocateSubArrays, MakesRows
  <2>2. MakesRows /\ \A k \in 1..12 : stack'[k] = stack[k]
    BY <1>1, <1>3
  <2> QED BY <2>1, <2>2, MakesRowsStays
<1>7. stack'[11] = reg'["r12"] /\ rbp' = 4
  <2>1. stack'[11] = stack[11] /\ reg' = reg /\ rbp' = rbp
    BY <1>3 DEF AllocateSubArrays
  <2> QED BY <1>1, <2>1, Zenon
<1>8. InRows(13)'
  BY <1>3, <1>4, <1>7 DEF InRows
<1>5. AtAlloc'
  BY <1>3, <1>8 DEF AtAlloc
<1>6. Types'
  BY <1>1, <1>3 DEF AllocateSubArrays, Types, Labels
<1> QED
  BY <1>5, <1>6 DEF AllocateSubArrays, IInv, AllocLabels, InitLabels, AtMain, AtDeclared,
     AtVariables, AtRows, AtEndAlloc, AtInit, AtValues, AtSubArrays, AtNextRow

LEMMA KeepRowKeeps == IInv /\ KeepRow => IInv'
<1> SUFFICES ASSUME IInv, KeepRow PROVE IInv'
  OBVIOUS
<1>1. /\ Types /\ MakesRows /\ rbp = 4 /\ Len(stack) = 12 /\ stack[11] = reg["r12"]
  BY DEF IInv, AllocLabels, AtRows, KeepRow, InRows
<1>2. sizes' = sizes /\ reg["rsi"] = 1
  BY <1>1 DEF KeepRow, MakesRows
<1>3. \A a \in DOMAIN heap' : heap'[a] \in Int
  <2> DEFINE ws == [a \in {reg["r8"]} |-> reg["rax"]]
  <2>1. \A a \in DOMAIN ws : ws[a] \in Int
    BY <1>1 DEF Types, Registers
  <2>2. heap' = Written(heap, ws)
    BY DEF KeepRow
  <2> HIDE DEF ws
  <2> QED BY <1>1, <2>1, <2>2, WrittenIsInt
<1>4. reg' \in [Registers -> Int] /\ reg'["rsi"] = 1 /\ reg'["r12"] = reg["r12"]
  BY <1>1, <1>2 DEF KeepRow, Types, Registers, Temporaries
<1>5. CASE reg["r8"] + 1 < reg["rbx"]
  <2>1. pc' = "allocate_sub_arrays" /\ stack' = stack
    BY <1>5 DEF KeepRow
  <2>2. MakesRows'
    <3>1. \A k \in 1..10 : stack'[k] = stack[k]
      BY <2>1
    <3> QED BY <1>1, <1>2, <1>4, <3>1, MakesRowsStays
  <2>3. AtRows'
    BY <1>1, <1>4, <2>1, <2>2 DEF KeepRow, AtRows, InRows
  <2>4. Types'
    BY <1>1, <1>3, <1>4, <2>1 DEF KeepRow, Types, Labels
  <2> QED
    BY <2>1, <2>3, <2>4 DEF IInv, AllocLabels, InitLabels, AtMain, AtDeclared,
       AtAlloc, AtVariables, AtEndAlloc, AtInit, AtValues, AtSubArrays, AtNextRow
<1>6. CASE ~(reg["r8"] + 1 < reg["rbx"])
  <2>1. pc' = "end_alloc" /\ stack' = Popped(stack, 1)
    BY <1>2, <1>6 DEF KeepRow
  <2>2. Under(stack', stack, 1)
    <3>1. stack \in Seq(Int) /\ 1 \in 0..Len(stack)
      BY <1>1 DEF Types
    <3> QED BY <2>1, <3>1, PoppedIs
  <2>3. stack' \in Seq(Int) /\ Len(stack') = 11 /\ \A k \in 1..11 : stack'[k] = stack[k]
    BY <1>1, <2>2 DEF Under
  <2>4. OuterFrame' /\ Len(sizes') = 2
    <3>1. MakesRows'
      <4>1. \A k \in 1..10 : stack'[k] = stack[k]
        BY <2>3
      <4> QED BY <1>1, <1>2, <1>4, <4>1, MakesRowsStays
    <3> QED BY <3>1 DEF MakesRows
  <2>5. AtEndAlloc'
    BY <1>1, <1>4, <2>3, <2>4 DEF KeepRow, AtEndAlloc, Last
  <2>6. Types'
    BY <1>1, <1>3, <1>4, <2>1, <2>3 DEF KeepRow, Types, Labels
  <2> QED
    BY <2>1, <2>5, <2>6 DEF IInv, AllocLabels, InitLabels, AtMain, AtDeclared,
       AtAlloc, AtVariables, AtRows, AtInit, AtValues, AtSubArrays, AtNextRow
<1> QED BY <1>5, <1>6

\* What an epilogue of _better_alloc leaves, with the base in rax.
LEMMA EndAllocRestores ==
    ASSUME Types, EndAlloc, NEW n \in Nat, n >= 9, Len(stack) = n
    PROVE  /\ reg' \in [Registers -> Int] /\ reg'["rsi"] = reg["rsi"]
           /\ \A k \in 1..6 : reg'[alloc_saves[k]] = stack[n - 7 + k]
           /\ rbp' = stack[rbp] /\ pc' = Continues(stack[rbp - 1])
           /\ stack' = SubSeq(stack, 1, rbp - 2)
<1> DEFINE s == Front(stack)
           r == [reg EXCEPT !["rax"] = Last(stack)]
<1>1. Under(s, stack, 1)
  <2>1. stack \in Seq(Int) /\ 1 \in 0..Len(stack)
    BY DEF Types
  <2>2. s = Popped(stack, 1)
    BY DEF Front, Popped
  <2> QED BY <2>1, <2>2, PoppedIs
<1>2. Last(stack) \in Int /\ reg \in [Registers -> Int]
  BY DEF Last, Types
<1>3. r \in [Registers -> Int] /\ r["rsi"] = reg["rsi"]
  BY <1>2 DEF Registers, Temporaries
<1>4. Epilogue(alloc_saves, s, r)
  BY DEF EndAlloc
<1> HIDE DEF s, r
<1>5. s \in Seq(Int) /\ Len(s) = n - 1 /\ \A k \in 1..(n - 1) : s[k] = stack[k]
  BY <1>1 DEF Under
<1>6. \A i, j \in 1..6 : alloc_saves[i] = alloc_saves[j] => i = j
  <2> HIDE DEF alloc_saves
  <2> QED BY SavesAre
<1>7. Restores(alloc_saves, s, r)
  <2>1. Len(alloc_saves) = 6 /\ alloc_saves \in Seq(Registers) /\ Len(alloc_saves) =< Len(s)
    BY <1>5, SavesAre
  <2> QED BY <1>3, <1>4, <1>5, <1>6, <2>1, EpilogueRestores
<1>8. \A k \in 1..6 : reg'[alloc_saves[k]] = s[n - 7 + k]
  <2>1. Len(alloc_saves) = 6 /\ Len(s) - 6 = n - 7
    BY <1>5, SavesAre
  <2>2. \A k \in 1..Len(alloc_saves) :
          reg'[alloc_saves[k]] = s[Len(s) - Len(alloc_saves) + k]
    BY <1>7 DEF Restores
  <2> QED BY <2>1, <2>2
<1>9. \A k \in 1..6 : s[n - 7 + k] = stack[n - 7 + k]
  BY <1>5
<1>10. reg'["rsi"] = reg["rsi"]
  <2>1. \A k \in 1..6 : alloc_saves[k] # "rsi"
    BY SavesAre
  <2>2. Len(alloc_saves) = 6
    BY SavesAre
  <2>3. "rsi" \in Registers
    BY DEF Registers
  <2> QED BY <1>3, <1>7, <2>1, <2>2, <2>3 DEF Restores
<1> QED BY <1>7, <1>8, <1>9, <1>10 DEF Restores

LEMMA EndAllocKeeps == IInv /\ EndAlloc => IInv'
<1> SUFFICES ASSUME IInv, EndAlloc PROVE IInv'
  OBVIOUS
<1>1. Types /\ sizes' = sizes /\ pc = "end_alloc"
  BY DEF IInv, EndAlloc
<1>2. CASE /\ OuterFrame /\ rbp = Len(sizes) + 2 /\ Len(stack) = Len(sizes) + 9
  <2>1. PICK m \in {1, 2} : m = Len(sizes)
    BY <1>2 DEF OuterFrame, Declaring
  <2>2. /\ stack[m + 1] = Return("declared") /\ stack[m + 2] = 0
        /\ \A k \in 1..6 : stack[m + 2 + k] = Kept(alloc_saves[k])
    BY <1>2, <2>1 DEF OuterFrame
  <2>3. rbp = m + 2 /\ Len(stack) = m + 9 /\ m + 9 \in Nat /\ m + 9 >= 9
    BY <1>2, <2>1
  <2>4. /\ reg' \in [Registers -> Int]
        /\ \A k \in 1..6 : reg'[alloc_saves[k]] = stack[m + 9 - 7 + k]
        /\ rbp' = stack[rbp] /\ pc' = Continues(stack[rbp - 1])
        /\ stack' = SubSeq(stack, 1, rbp - 2)
    BY <1>1, <2>3, EndAllocRestores
  <2>5. rbp' = 0 /\ pc' = "declared"
    <3>1. rbp - 1 = m + 1
      BY <2>3
    <3> QED BY <2>2, <2>3, <2>4, <3>1, ReturnNumbers
  <2>6. stack' \in Seq(Int) /\ Len(stack') = m
    <3>1. rbp - 2 = m /\ stack \in Seq(Int)
      BY <1>1, <2>3 DEF Types
    <3>2. stack' = SubSeq(stack, 1, m)
      BY <2>4, <3>1
    <3>3. m \in 0..Len(stack)
      BY <2>3
    <3> QED BY <3>1, <3>2, <3>3, PrefixIs
  <2>7. \A r \in Temporaries : reg'[r] = Kept(r)
    <3>1. \A k \in 1..6 : reg'[alloc_saves[k]] = Kept(alloc_saves[k])
      <4>1. \A k \in 1..6 : m + 9 - 7 + k = m + 2 + k
        OBVIOUS
      <4> QED BY <2>2, <2>4, <4>1
    <3>2. ASSUME NEW r \in Temporaries
          PROVE  \E k \in 1..6 : alloc_saves[k] = r
      BY SavesAre DEF Temporaries
    <3> QED BY <3>1, <3>2
  <2>8. AtDeclared'
    BY <1>1, <2>1, <2>5, <2>6, <2>7 DEF AtDeclared, Untouched, Declaring
  <2>9. Types'
    BY <1>1, <2>4, <2>5, <2>6 DEF EndAlloc, Types, Labels
  <2> QED
    BY <2>5, <2>8, <2>9 DEF IInv, AllocLabels, InitLabels, AtMain, AtAlloc, AtVariables,
       AtRows, AtEndAlloc, AtInit, AtValues, AtSubArrays, AtNextRow
<1>3. CASE InnerFrame
  <2>1. /\ MakesRows /\ rbp = 14 /\ Len(stack) = 21
        /\ stack[13] = Return("keep_row") /\ stack[14] = 4 /\ stack[19] = stack[11]
    BY <1>3 DEF InnerFrame
  <2>2. /\ reg' \in [Registers -> Int] /\ reg'["rsi"] = reg["rsi"]
        /\ \A k \in 1..6 : reg'[alloc_saves[k]] = stack[21 - 7 + k]
        /\ rbp' = stack[rbp] /\ pc' = Continues(stack[rbp - 1])
        /\ stack' = SubSeq(stack, 1, rbp - 2)
    <3>1. 21 \in Nat /\ 21 >= 9
      OBVIOUS
    <3> QED BY <1>1, <2>1, <3>1, EndAllocRestores
  <2>3. rbp' = 4 /\ pc' = "keep_row"
    <3>1. rbp - 1 = 13
      BY <2>1
    <3> QED BY <2>1, <2>2, <3>1, ReturnNumbers
  <2>4. /\ stack' \in Seq(Int) /\ Len(stack') = 12
        /\ \A k \in 1..12 : stack'[k] = stack[k]
    <3>1. rbp - 2 = 12 /\ stack \in Seq(Int)
      BY <1>1, <2>1 DEF Types
    <3>2. stack' = SubSeq(stack, 1, 12)
      BY <2>2, <3>1
    <3>3. 12 \in 0..Len(stack)
      BY <2>1
    <3> QED BY <3>1, <3>2, <3>3, PrefixIs
  <2>5. stack'[11] = reg'["r12"]
    <3>1. reg'[alloc_saves[5]] = stack[21 - 7 + 5] /\ 21 - 7 + 5 = 19
      BY <2>2
    <3>2. alloc_saves[5] = "r12"
      BY SavesAre
    <3>3. stack'[11] = stack[11]
      BY <2>4
    <3> QED BY <2>1, <3>1, <3>2, <3>3
  <2>6. MakesRows'
    <3>1. \A k \in 1..10 : stack'[k] = stack[k]
      BY <2>4
    <3>2. reg'["rsi"] = 1
      BY <2>1, <2>2 DEF MakesRows
    <3> QED BY <1>1, <2>1, <3>1, <3>2, MakesRowsStays
  <2>7. AtRows'
    BY <2>3, <2>4, <2>5, <2>6 DEF AtRows, InRows
  <2>8. Types'
    <3>1. reg' \in [Registers -> Int] /\ stack' \in Seq(Int)
      BY <2>2, <2>4
    <3>2. rbp' \in Nat /\ pc' \in Labels
      BY <2>3 DEF Labels
    <3> QED BY <1>1, <3>1, <3>2 DEF EndAlloc, Types
  <2> QED
    BY <2>3, <2>7, <2>8 DEF IInv, AllocLabels, InitLabels, AtMain, AtDeclared, AtAlloc,
       AtVariables, AtEndAlloc, AtInit, AtValues, AtSubArrays, AtNextRow
<1> QED BY <1>1, <1>2, <1>3 DEF IInv, AllocLabels, AtEndAlloc

(***************************************************************************)
(* _initialize_array.                                                      *)
(***************************************************************************)

\* The frames below the stack of the running call stay.
LEMMA FramesStay ==
    ASSUME NEW m \in Nat, Frames(m), rbp' = rbp, reg'["r12"] = reg["r12"],
           \A k \in 1..(9 * m + 7) : stack'[k] = stack[k]
    PROVE  Frames(m)'
<1>1. 9 * m + 7 \in Nat /\ 9 * m + 7 >= 7
  OBVIOUS
<1>2. stack'[1] = stack[1] /\ stack'[2] = stack[2]
  BY <1>1
<1>3. \A k \in 1..5 : stack'[2 + k] = stack[2 + k]
  BY <1>1
<1>4. \A k \in 1..m : stack'[9 * k + 1] = stack[9 * k + 1] /\ stack'[9 * k + 2] = stack[9 * k + 2]
  <2>1. ASSUME NEW k \in 1..m
        PROVE  9 * k + 1 \in 1..(9 * m + 7) /\ 9 * k + 2 \in 1..(9 * m + 7)
    OBVIOUS
  <2> QED BY <2>1
<1> QED BY <1>2, <1>3, <1>4 DEF Frames

\* The stack when a call of it has saved its registers, t.
Entered(t) ==
    /\ t \in Seq(Int) /\ Len(t) = Len(stack) + 6
    /\ \A k \in 1..Len(stack) : t[k] = stack[k]
    /\ t[Len(stack) + 1] = rbp
    /\ \A k \in 1..5 : t[Len(stack) + 1 + k] = reg[init_saves[k]]

LEMMA InitEnters ==
    ASSUME Types
    PROVE  Entered(Pushed(init_saves))
<1>1. Saves(Pushed(init_saves), init_saves) /\ Len(init_saves) = 5
  BY PushedIs, SavesAre
<1>2. Len(stack) \in Nat
  BY DEF Types
<1> DEFINE t == Pushed(init_saves)
<1> HIDE DEF t
<1>3. Saves(t, init_saves)
  BY <1>1 DEF t
<1>4. Len(t) = Len(stack) + 6
  BY <1>1, <1>2, <1>3 DEF Saves
<1>5. \A k \in 1..5 : t[Len(stack) + 1 + k] = reg[init_saves[k]]
  <2>1. \A k \in 1..5 : t[Len(stack) + 1 + k] = reg[init_saves[k]]
    BY <1>1, <1>3 DEF Saves
  <2> QED BY <2>1
<1>6. Entered(t)
  BY <1>3, <1>4, <1>5 DEF Saves, Entered
<1> QED BY <1>6 DEF t

\* A call adds a frame.
LEMMA CallAddsFrame ==
    ASSUME Types, AtInit, pc = "init", rbp' = Len(stack) + 1, reg'["r12"] = reg["r12"],
           NEW t, Entered(t), \A k \in 1..Len(t) : stack'[k] = t[k]
    PROVE  \E m \in Nat : Frames(m)' /\ Len(t) = 9 * m + 7
<1>1. CASE Untouched /\ stack = <<Return("initialised")>>
  <2>1. Len(stack) = 1 /\ stack[1] = Return("initialised") /\ rbp = 0
    BY <1>1 DEF Untouched
  <2>2. /\ Len(t) = 7 /\ t[1] = Return("initialised") /\ t[2] = 0
        /\ \A k \in 1..5 : t[2 + k] = reg[init_saves[k]]
    <3>1. /\ Len(t) = Len(stack) + 6 /\ \A k \in 1..Len(stack) : t[k] = stack[k]
          /\ t[Len(stack) + 1] = rbp
          /\ \A k \in 1..5 : t[Len(stack) + 1 + k] = reg[init_saves[k]]
      BY DEF Entered
    <3> QED BY <2>1, <3>1
  <2>3. /\ stack'[1] = Return("initialised") /\ stack'[2] = 0
        /\ \A k \in 1..5 : stack'[2 + k] = reg[init_saves[k]]
    BY <2>2
  <2>4. ASSUME NEW k \in 1..5 PROVE init_saves[k] \in Temporaries
    BY SavesAre DEF Temporaries
  <2>5. \A k \in 1..5 : stack'[2 + k] = Kept(init_saves[k])
    BY <1>1, <2>3, <2>4 DEF Untouched
  <2>6. reg'["r12"] = Kept("r12")
    BY <1>1 DEF Untouched, Temporaries
  <2>7. rbp' = 2
    BY <2>1
  <2>8. Frames(0)'
    BY <2>3, <2>5, <2>6, <2>7 DEF Frames
  <2>9. Len(t) = 9 * 0 + 7 /\ 0 \in Nat
    BY <2>2
  <2> QED BY <2>8, <2>9
<1>2. CASE \E m \in Nat : InFrames(m, 10) /\ Last(stack) = Return("next_row")
  <2>1. PICK m \in Nat : InFrames(m, 10) /\ Last(stack) = Return("next_row")
    BY <1>2
  <2>2. /\ Frames(m) /\ Len(stack) = 9 * m + 10
        /\ stack[9 * m + 10] = Return("next_row") /\ rbp = 9 * m + 2
    BY <2>1 DEF InFrames, Frames, Last
  <2>3. PICK n \in Nat : n = m + 1
    OBVIOUS
  <2>4. /\ Len(t) = 9 * n + 7 /\ \A k \in 1..(9 * n + 1) : t[k] = stack[k]
        /\ t[9 * n + 2] = rbp
    <3>1. /\ Len(t) = Len(stack) + 6 /\ \A k \in 1..Len(stack) : t[k] = stack[k]
          /\ t[Len(stack) + 1] = rbp
      BY DEF Entered
    <3>2. Len(stack) = 9 * n + 1
      BY <2>2, <2>3
    <3> QED BY <2>3, <3>1, <3>2
  <2>5. \A k \in 1..(9 * n + 1) : stack'[k] = stack[k]
    BY <2>3, <2>4
  <2>6. stack'[9 * n + 2] = rbp
    BY <2>3, <2>4
  <2>7. stack'[1] = stack[1] /\ stack'[2] = stack[2]
    BY <2>3, <2>5
  <2>8. \A k \in 1..5 : stack'[2 + k] = stack[2 + k]
    BY <2>3, <2>5
  <2>9. ASSUME NEW k \in 1..n
        PROVE  stack'[9 * k + 1] = Return("next_row") /\ stack'[9 * k + 2] = 9 * k - 7
    <3>1. CASE k = n
      <4>1. stack'[9 * n + 1] = stack[9 * n + 1] /\ 9 * n + 1 = 9 * m + 10
        BY <2>3, <2>5
      <4>2. rbp = 9 * n - 7
        BY <2>2, <2>3
      <4> QED BY <2>2, <2>6, <3>1, <4>1, <4>2
    <3>2. CASE k # n
      <4>1. k \in 1..m /\ 9 * k + 1 \in 1..(9 * n + 1) /\ 9 * k + 2 \in 1..(9 * n + 1)
        BY <2>3, <3>2
      <4>2. stack[9 * k + 1] = Return("next_row") /\ stack[9 * k + 2] = 9 * k - 7
        BY <2>2, <4>1 DEF Frames
      <4> QED BY <2>5, <4>1, <4>2
    <3> QED BY <3>1, <3>2
  <2>10. rbp' = 9 * n + 2
    BY <2>2, <2>3
  <2>11. Frames(n)'
    BY <2>2, <2>7, <2>8, <2>9, <2>10 DEF Frames
  <2> QED BY <2>4, <2>11
<1> QED BY <1>1, <1>2 DEF AtInit

LEMMA InitializeArrayKeeps == IInv /\ InitializeArray => IInv'
<1> SUFFICES ASSUME IInv, InitializeArray PROVE IInv'
  OBVIOUS
<1>1. Types /\ AtInit /\ pc = "init"
  BY DEF IInv, InitLabels, InitializeArray
<1>2. PICK t : t = Pushed(init_saves)
  OBVIOUS
<1>3. Entered(t)
  BY <1>1, <1>2, InitEnters
<1>4. t \in Seq(Int) /\ Len(t) \in Nat
  BY <1>3 DEF Entered
<1>5. reg["rdi"] \in Int
  BY <1>1 DEF Types, Registers
<1>6. reg' \in [Registers -> Int] /\ reg'["r12"] = reg["r12"]
  <2>1. /\ reg \in [Registers -> Int] /\ reg["rdi"] + 4 \in Int
        /\ Word(reg["rdi"] + 2) \in Int /\ Word(reg["rdi"] + 1) \in Int
    BY <1>1, <1>5, WordIsInt DEF Types
  <2>2. reg' = [reg EXCEPT !["r8"] = reg["rdi"] + 4, !["r9"] = Word(reg["rdi"] + 2),
                           !["r10"] = Word(reg["rdi"] + 1), !["rbx"] = 0]
    BY DEF InitializeArray
  <2> QED BY <2>1, <2>2 DEF Registers, Temporaries
<1>7. rbp' = Len(stack) + 1
  BY DEF InitializeArray
<1>8. /\ \A a \in DOMAIN heap' : heap'[a] \in Int
      /\ heap_pointer' \in Int /\ rbp' \in Nat
      /\ sizes' \in Seq(Nat) /\ bases' \in Seq([base : Int, sizes : Seq(Nat)])
  BY <1>1, <1>7 DEF Types, InitializeArray
<1>9. CASE Word(reg["rdi"] + 1) = 1
  <2>1. pc' = "values" /\ stack' = t
    BY <1>2, <1>4, <1>9 DEF InitializeArray
  <2>2. \E m \in Nat : Frames(m)' /\ Len(t) = 9 * m + 7
    <3>1. \A k \in 1..Len(t) : stack'[k] = t[k]
      BY <2>1
    <3> QED BY <1>1, <1>3, <1>6, <1>7, <3>1, CallAddsFrame
  <2>3. AtValues'
    BY <2>1, <2>2 DEF AtValues, InFrames
  <2>4. Types'
    BY <1>4, <1>6, <1>8, <2>1 DEF Types, Labels
  <2> QED
    BY <2>1, <2>3, <2>4 DEF IInv, AllocLabels, InitLabels, AtMain, AtDeclared, AtAlloc,
       AtVariables, AtRows, AtEndAlloc, AtInit, AtSubArrays, AtNextRow
<1>10. CASE Word(reg["rdi"] + 1) # 1
  <2>1. pc' = "recurse_subarrays" /\ stack' = t \o <<reg["rdi"]>>
    BY <1>2, <1>10 DEF InitializeArray
  <2>2. Extends(stack', t, <<reg["rdi"]>>)
    <3>1. <<reg["rdi"]>> \in Seq(Int)
      BY <1>5
    <3> QED BY <1>4, <2>1, <3>1, Concatenated
  <2>3. /\ stack' \in Seq(Int) /\ Len(stack') = Len(t) + 1
        /\ \A k \in 1..Len(t) : stack'[k] = t[k]
    BY <1>4, <2>2 DEF Extends
  <2>4. \E m \in Nat : Frames(m)' /\ Len(t) = 9 * m + 7
    BY <1>1, <1>3, <1>6, <1>7, <2>3, CallAddsFrame
  <2>5. PICK m \in Nat : Frames(m)' /\ Len(t) = 9 * m + 7
    BY <2>4
  <2>6. Len(stack') = 9 * m + 8
    BY <2>3, <2>5
  <2>7. AtSubArrays'
    BY <2>5, <2>6 DEF AtSubArrays, InFrames
  <2>8. Types'
    BY <1>6, <1>8, <2>1, <2>3 DEF Types, Labels
  <2> QED
    BY <2>1, <2>7, <2>8 DEF IInv, AllocLabels, InitLabels, AtMain, AtDeclared, AtAlloc,
       AtVariables, AtRows, AtEndAlloc, AtInit, AtValues, AtNextRow
<1> QED BY <1>9, <1>10

LEMMA RecurseSubArraysKeeps == IInv /\ RecurseSubArrays => IInv'
<1> SUFFICES ASSUME IInv, RecurseSubArrays PROVE IInv'
  OBVIOUS
<1>1. Types /\ \E m \in Nat : InFrames(m, 8)
  BY DEF IInv, InitLabels, AtSubArrays, RecurseSubArrays
<1>2. PICK m \in Nat : Frames(m) /\ Len(stack) = 9 * m + 8
  BY <1>1 DEF InFrames
<1>3. Extends(stack', stack, <<reg["rbx"], Return("next_row")>>)
  <2>1. Return("next_row") \in Int /\ reg["rbx"] \in Int /\ stack \in Seq(Int)
    BY <1>1, ReturnNumbers DEF Types, Registers, Temporaries
  <2>2. <<reg["rbx"], Return("next_row")>> \in Seq(Int)
    BY <2>1
  <2>3. stack' = stack \o <<reg["rbx"], Return("next_row")>>
    BY DEF RecurseSubArrays
  <2> QED BY <2>1, <2>2, <2>3, Concatenated
<1>4. /\ stack' \in Seq(Int) /\ Len(stack') = 9 * m + 10
      /\ \A k \in 1..(9 * m + 8) : stack'[k] = stack[k]
      /\ stack'[9 * m + 10] = Return("next_row")
  <2>1. /\ stack' \in Seq(Int) /\ Len(stack') = Len(stack) + 2
        /\ \A k \in 1..Len(stack) : stack'[k] = stack[k]
        /\ stack'[Len(stack) + 2] = Return("next_row")
    BY <1>3 DEF Extends
  <2> QED BY <1>2, <2>1
<1>5. reg' \in [Registers -> Int] /\ reg'["r12"] = reg["r12"]
  <2>1. reg \in [Registers -> Int] /\ Word(reg["r8"]) \in Int
    BY <1>1, WordIsInt DEF Types
  <2>2. reg' = [reg EXCEPT !["rdi"] = Word(reg["r8"])]
    BY DEF RecurseSubArrays
  <2> QED BY <2>1, <2>2 DEF Registers, Temporaries
<1>6. Frames(m)'
  <2>1. \A k \in 1..(9 * m + 7) : stack'[k] = stack[k]
    BY <1>4
  <2>2. rbp' = rbp
    BY DEF RecurseSubArrays
  <2> QED BY <1>2, <1>5, <2>1, <2>2, FramesStay
<1>7. AtInit'
  <2>1. Last(stack') = Return("next_row")
    BY <1>4 DEF Last
  <2> QED BY <1>4, <1>6, <2>1 DEF AtInit, InFrames
<1>8. Types'
  BY <1>1, <1>4, <1>5 DEF RecurseSubArrays, Types, Labels
<1> QED
  BY <1>7, <1>8 DEF RecurseSubArrays, IInv, AllocLabels, InitLabels, AtMain, AtDeclared,
     AtAlloc, AtVariables, AtRows, AtEndAlloc, AtValues, AtSubArrays, AtNextRow

LEMMA NextRowKeeps == IInv /\ NextRow => IInv'
<1> SUFFICES ASSUME IInv, NextRow PROVE IInv'
  OBVIOUS
<1>1. Types /\ \E m \in Nat : InFrames(m, 9)
  BY DEF IInv, InitLabels, AtNextRow, NextRow
<1>2. PICK m \in Nat : Frames(m) /\ Len(stack) = 9 * m + 9
  BY <1>1 DEF InFrames
<1>3. stack \in Seq(Int) /\ stack[9 * m + 9] \in Int /\ stack[9 * m + 8] \in Int
  <2>1. stack \in Seq(Int) /\ 9 * m + 9 \in 1..Len(stack) /\ 9 * m + 8 \in 1..Len(stack)
    BY <1>1, <1>2 DEF Types
  <2> QED BY <2>1
<1>4. Last(stack) = stack[9 * m + 9] /\ Last(Front(stack)) = stack[9 * m + 8]
  BY <1>2, <1>3 DEF Last, Front
<1>5. reg' \in [Registers -> Int] /\ reg'["r12"] = reg["r12"]
  <2>1. PICK x \in Int : x = Last(stack) + 1
    BY <1>3, <1>4
  <2>2. PICK y \in Int : y = IF x # reg["r9"] THEN reg["rdi"] ELSE Last(Front(stack))
    BY <1>1, <1>3, <1>4 DEF Types, Registers
  <2>3. reg' = [reg EXCEPT !["rbx"] = x, !["r8"] = reg["r8"] + 1, !["rdi"] = y]
    BY <2>1, <2>2 DEF NextRow
  <2>4. reg \in [Registers -> Int] /\ reg["r8"] + 1 \in Int
    BY <1>1 DEF Types, Registers, Temporaries
  <2> QED BY <2>3, <2>4 DEF Registers, Temporaries
<1>6. ASSUME NEW n \in {1, 2}, stack' = Popped(stack, n)
      PROVE  Frames(m)' /\ stack' \in Seq(Int) /\ Len(stack') = 9 * m + 9 - n
  <2>1. n \in 0..Len(stack)
    BY <1>2
  <2>2. Under(stack', stack, n)
    BY <1>3, <1>6, <2>1, PoppedIs
  <2>3. /\ stack' \in Seq(Int) /\ Len(stack') = 9 * m + 9 - n
        /\ \A k \in 1..(9 * m + 7) : stack'[k] = stack[k]
    <3>1. /\ stack' \in Seq(Int) /\ Len(stack') = 9 * m + 9 - n
          /\ \A k \in 1..(9 * m + 9 - n) : stack'[k] = stack[k]
      BY <1>2, <2>2 DEF Under
    <3>2. ASSUME NEW k \in 1..(9 * m + 7)
          PROVE  stack'[k] = stack[k]
      <4>1. k \in 1..(9 * m + 9 - n)
        BY <1>6
      <4> QED BY <3>1, <4>1
    <3> QED BY <3>1, <3>2
  <2>4. rbp' = rbp
    BY DEF NextRow
  <2>5. Frames(m)'
    BY <1>2, <1>5, <2>3, <2>4, FramesStay
  <2> QED BY <2>3, <2>5
<1>7. CASE Last(stack) + 1 # reg["r9"]
  <2>1. pc' = "recurse_subarrays" /\ stack' = Popped(stack, 1)
    BY <1>7 DEF NextRow
  <2>2. Frames(m)' /\ stack' \in Seq(Int) /\ Len(stack') = 9 * m + 8
    <3>1. Frames(m)' /\ stack' \in Seq(Int) /\ Len(stack') = 9 * m + 9 - 1
      BY <1>6, <2>1
    <3> QED BY <3>1
  <2>3. AtSubArrays'
    BY <2>2 DEF AtSubArrays, InFrames
  <2>4. Types'
    BY <1>1, <1>5, <2>1, <2>2 DEF NextRow, Types, Labels
  <2> QED
    BY <2>1, <2>3, <2>4 DEF IInv, AllocLabels, InitLabels, AtMain, AtDeclared, AtAlloc,
       AtVariables, AtRows, AtEndAlloc, AtInit, AtValues, AtNextRow
<1>8. CASE Last(stack) + 1 = reg["r9"]
  <2>1. pc' = "end_init" /\ stack' = Popped(stack, 2)
    BY <1>8 DEF NextRow
  <2>2. Frames(m)' /\ stack' \in Seq(Int) /\ Len(stack') = 9 * m + 7
    <3>1. Frames(m)' /\ stack' \in Seq(Int) /\ Len(stack') = 9 * m + 9 - 2
      BY <1>6, <2>1
    <3> QED BY <3>1
  <2>3. AtValues'
    BY <2>2 DEF AtValues, InFrames
  <2>4. Types'
    BY <1>1, <1>5, <2>1, <2>2 DEF NextRow, Types, Labels
  <2> QED
    BY <2>1, <2>3, <2>4 DEF IInv, AllocLabels, InitLabels, AtMain, AtDeclared, AtAlloc,
       AtVariables, AtRows, AtEndAlloc, AtInit, AtSubArrays, AtNextRow
<1> QED BY <1>7, <1>8

LEMMA PutValueKeeps == IInv /\ PutValue => IInv'
<1> SUFFICES ASSUME IInv, PutValue PROVE IInv'
  OBVIOUS
<1>1. Types /\ \E m \in Nat : InFrames(m, 7)
  BY DEF IInv, InitLabels, AtValues, PutValue
<1>2. PICK m \in Nat : Frames(m) /\ Len(stack) = 9 * m + 7
  BY <1>1 DEF InFrames
<1>3. stack' = stack /\ rbp' = rbp
  BY DEF PutValue
<1>4. \A a \in DOMAIN heap' : heap'[a] \in Int
  <2> DEFINE ws == [a \in {reg["r8"]} |-> reg["rsi"]]
  <2>1. \A a \in DOMAIN ws : ws[a] \in Int
    BY <1>1 DEF Types, Registers
  <2>2. heap' = Written(heap, ws)
    BY DEF PutValue
  <2> HIDE DEF ws
  <2> QED BY <1>1, <2>1, <2>2, WrittenIsInt
<1>5. reg' \in [Registers -> Int] /\ reg'["r12"] = reg["r12"]
  BY <1>1 DEF PutValue, Types, Registers, Temporaries
<1>6. Frames(m)' /\ Len(stack') = 9 * m + 7
  <2>1. \A k \in 1..(9 * m + 7) : stack'[k] = stack[k]
    BY <1>3
  <2>2. Frames(m)'
    BY <1>2, <1>3, <1>5, <2>1, FramesStay
  <2> QED BY <1>2, <1>3, <2>2
<1>7. AtValues'
  BY <1>6 DEF AtValues, InFrames
<1>8. Types'
  BY <1>1, <1>3, <1>4, <1>5 DEF PutValue, Types, Labels
<1>9. pc' \in {"values", "end_init"}
  BY DEF PutValue
<1> QED
  BY <1>7, <1>8, <1>9 DEF IInv, AllocLabels, InitLabels, AtMain, AtDeclared, AtAlloc,
     AtVariables, AtRows, AtEndAlloc, AtInit, AtSubArrays, AtNextRow

\* What an epilogue of _initialize_array leaves.
LEMMA EndInitRestores ==
    ASSUME Types, EndInit, NEW n \in Nat, 5 =< n, Len(stack) = n
    PROVE  /\ reg' \in [Registers -> Int] /\ reg'["r12"] = reg["r12"]
           /\ \A k \in 1..5 : reg'[init_saves[k]] = stack[n - 5 + k]
           /\ rbp' = stack[rbp] /\ pc' = Continues(stack[rbp - 1])
           /\ stack' = SubSeq(stack, 1, rbp - 2)
<1>1. \A i, j \in 1..5 : init_saves[i] = init_saves[j] => i = j
  BY SavesAre
<1>2. Restores(init_saves, stack, reg)
  <2>1. stack \in Seq(Int) /\ reg \in [Registers -> Int]
    BY DEF Types
  <2>2. Len(init_saves) = 5 /\ init_saves \in Seq(Registers) /\ Len(init_saves) =< Len(stack)
    BY SavesAre
  <2>3. Epilogue(init_saves, stack, reg)
    BY DEF EndInit
  <2> QED BY <1>1, <2>1, <2>2, <2>3, EpilogueRestores
<1>3. \A k \in 1..5 : reg'[init_saves[k]] = stack[n - 5 + k]
  <2>1. Len(init_saves) = 5
    BY SavesAre
  <2>2. \A k \in 1..Len(init_saves) :
          reg'[init_saves[k]] = stack[Len(stack) - Len(init_saves) + k]
    BY <1>2 DEF Restores
  <2> QED BY <2>1, <2>2
<1>4. reg'["r12"] = reg["r12"]
  <2>1. \A k \in 1..5 : init_saves[k] # "r12"
    BY SavesAre
  <2>2. Len(init_saves) = 5
    BY SavesAre
  <2>3. "r12" \in Registers
    BY DEF Registers, Temporaries
  <2> QED BY <1>2, <2>1, <2>2, <2>3 DEF Restores
<1> QED BY <1>2, <1>3, <1>4 DEF Restores

LEMMA EndInitKeeps == IInv /\ EndInit => IInv'
<1> SUFFICES ASSUME IInv, EndInit PROVE IInv'
  OBVIOUS
<1>1. Types /\ \E m \in Nat : InFrames(m, 7)
  BY DEF IInv, InitLabels, AtValues, EndInit
<1>2. PICK m \in Nat : Frames(m) /\ Len(stack) = 9 * m + 7
  BY <1>1 DEF InFrames
<1>3. rbp = 9 * m + 2 /\ reg["r12"] = Kept("r12")
  BY <1>2 DEF Frames
<1>4. /\ reg' \in [Registers -> Int] /\ reg'["r12"] = reg["r12"]
      /\ \A k \in 1..5 : reg'[init_saves[k]] = stack[9 * m + 7 - 5 + k]
      /\ rbp' = stack[rbp] /\ pc' = Continues(stack[rbp - 1])
      /\ stack' = SubSeq(stack, 1, rbp - 2)
  <2>1. 9 * m + 7 \in Nat /\ 5 =< 9 * m + 7
    OBVIOUS
  <2> QED BY <1>1, <1>2, <2>1, EndInitRestores
<1>5. pc' = Continues(stack[9 * m + 1]) /\ stack' = SubSeq(stack, 1, 9 * m)
  <2>1. rbp - 1 = 9 * m + 1 /\ rbp - 2 = 9 * m
    BY <1>3
  <2> QED BY <1>4, <2>1
<1>6. /\ stack' \in Seq(Int) /\ Len(stack') = 9 * m
      /\ \A k \in 1..(9 * m) : stack'[k] = stack[k]
  <2>1. stack \in Seq(Int) /\ 9 * m \in 0..Len(stack)
    BY <1>1, <1>2 DEF Types
  <2> QED BY <1>5, <2>1, PrefixIs
<1>7. /\ \A a \in DOMAIN heap' : heap'[a] \in Int
      /\ heap_pointer' \in Int
      /\ sizes' \in Seq(Nat) /\ bases' \in Seq([base : Int, sizes : Seq(Nat)])
  BY <1>1 DEF Types, EndInit
<1>8. CASE m = 0
  <2>1. /\ stack[1] = Return("initialised") /\ stack[2] = 0
        /\ \A k \in 1..5 : stack[2 + k] = Kept(init_saves[k])
    BY <1>2 DEF Frames
  <2>2. pc' = "initialised" /\ rbp' = 0 /\ stack' = <<>>
    <3>1. 9 * m + 1 = 1 /\ rbp = 2 /\ 9 * m = 0
      BY <1>3, <1>8
    <3>2. stack' = <<>>
      BY <1>6, <3>1
    <3> QED BY <1>4, <1>5, <2>1, <3>1, <3>2, ReturnNumbers
  <2>3. \A k \in 1..5 : reg'[init_saves[k]] = Kept(init_saves[k])
    <3>1. \A k \in 1..5 : 9 * m + 7 - 5 + k = 2 + k
      BY <1>8
    <3> QED BY <1>4, <2>1, <3>1
  <2>4. \A r \in Temporaries : reg'[r] = Kept(r)
    <3>1. ASSUME NEW r \in Temporaries, r # "r12"
          PROVE  \E k \in 1..5 : init_saves[k] = r
      BY <3>1, SavesAre DEF Temporaries
    <3> QED BY <1>3, <1>4, <2>3, <3>1
  <2>5. AtMain'
    BY <2>2, <2>4 DEF AtMain, Untouched
  <2>6. Types'
    BY <1>4, <1>6, <1>7, <2>2 DEF Types, Labels
  <2> QED
    BY <2>2, <2>5, <2>6 DEF IInv, AllocLabels, InitLabels, AtDeclared, AtAlloc,
       AtVariables, AtRows, AtEndAlloc, AtInit, AtValues, AtSubArrays, AtNextRow
<1>9. CASE m # 0
  <2>1. PICK n \in Nat : m = n + 1
    <3>1. m - 1 \in Nat /\ m = (m - 1) + 1
      BY <1>9
    <3> QED BY <3>1
  <2>2. stack[9 * m + 1] = Return("next_row") /\ stack[9 * m + 2] = 9 * m - 7
    <3>1. m \in 1..m
      BY <1>9
    <3> QED BY <1>2, <3>1 DEF Frames
  <2>3. pc' = "next_row" /\ rbp' = 9 * n + 2
    BY <1>3, <1>4, <1>5, <2>1, <2>2, ReturnNumbers
  <2>4. \A k \in 1..(9 * n + 9) : stack'[k] = stack[k]
    BY <1>6, <2>1
  <2>5. /\ stack'[1] = Return("initialised") /\ stack'[2] = 0
        /\ \A k \in 1..5 : stack'[2 + k] = Kept(init_saves[k])
    <3>1. /\ stack[1] = Return("initialised") /\ stack[2] = 0
          /\ \A k \in 1..5 : stack[2 + k] = Kept(init_saves[k])
      BY <1>2 DEF Frames
    <3>2. stack'[1] = stack[1] /\ stack'[2] = stack[2]
      BY <2>4
    <3>3. \A k \in 1..5 : stack'[2 + k] = stack[2 + k]
      BY <2>4
    <3> QED BY <3>1, <3>2, <3>3
  <2>6. ASSUME NEW k \in 1..n
        PROVE  stack'[9 * k + 1] = Return("next_row") /\ stack'[9 * k + 2] = 9 * k - 7
    <3>1. k \in 1..m /\ 9 * k + 1 \in 1..(9 * n + 9) /\ 9 * k + 2 \in 1..(9 * n + 9)
      BY <2>1
    <3>2. stack[9 * k + 1] = Return("next_row") /\ stack[9 * k + 2] = 9 * k - 7
      BY <1>2, <3>1 DEF Frames
    <3> QED BY <2>4, <3>1, <3>2
  <2>7. Frames(n)'
    BY <1>3, <1>4, <2>3, <2>5, <2>6 DEF Frames
  <2>8. Len(stack') = 9 * n + 9
    BY <1>6, <2>1
  <2>9. AtNextRow'
    BY <2>7, <2>8 DEF AtNextRow, InFrames
  <2>10. rbp' \in Nat
    BY <2>3
  <2>11. Types'
    BY <1>4, <1>6, <1>7, <2>3, <2>10 DEF Types, Labels
  <2> QED
    BY <2>3, <2>9, <2>11 DEF IInv, AllocLabels, InitLabels, AtMain, AtDeclared, AtAlloc,
       AtVariables, AtRows, AtEndAlloc, AtInit, AtValues, AtSubArrays
<1> QED BY <1>8, <1>9

(***************************************************************************)
(* Programs with arrays of one and two dimensions.  An array with three    *)
(* makes its rows with rsi as a call for one of them left it, which        *)
(* _better_alloc does not save.                                            *)
(***************************************************************************)
TwoDimensions == \A s \in Shapes : Len(s) \in {1, 2}

LEMMA StepKeeps ==
    ASSUME TwoDimensions, IInv, [Next]_vars
    PROVE  IInv'
<1>1. ASSUME NEW s \in Shapes, Declare(s) PROVE IInv'
  <2>1. Len(s) \in {1, 2}
    BY DEF TwoDimensions
  <2> QED BY <1>1, <2>1, DeclareKeeps
<1>2. CASE Declared         BY <1>2, DeclaredKeeps
<1>3. CASE Initialise       BY <1>3, InitialiseKeeps
<1>4. CASE Initialised      BY <1>4, InitialisedKeeps
<1>5. CASE Alloc            BY <1>5, AllocKeeps
<1>6. CASE GetStackVariables BY <1>6, GetStackVariablesKeeps
<1>7. CASE AllocateSubArrays BY <1>7, AllocateSubArraysKeeps
<1>8. CASE KeepRow          BY <1>8, KeepRowKeeps
<1>9. CASE EndAlloc         BY <1>9, EndAllocKeeps
<1>10. CASE InitializeArray BY <1>10, InitializeArrayKeeps
<1>11. CASE RecurseSubArrays BY <1>11, RecurseSubArraysKeeps
<1>12. CASE NextRow         BY <1>12, NextRowKeeps
<1>13. CASE PutValue        BY <1>13, PutValueKeeps
<1>14. CASE EndInit         BY <1>14, EndInitKeeps
<1>15. ASSUME NEW a \in DOMAIN bases, NEW ix \in Indices(bases[a].sizes), NEW v \in Values,
              Store(a, ix, v)
       PROVE  IInv'
  <2>1. Values \subseteq Int
    BY ShapeAssumption
  <2> QED BY <1>15, <2>1, StoreKeeps
<1>16. CASE UNCHANGED vars  BY <1>16, StutterKeeps
<1> QED
  BY <1>1, <1>2, <1>3, <1>4, <1>5, <1>6, <1>7, <1>8, <1>9, <1>10, <1>11, <1>12, <1>13,
     <1>14, <1>15, <1>16, Zenon DEF Next

\* Of the invariant, what the run checks.
LEMMA KeepsRegisters == IInv => RegistersKept
<1> SUFFICES ASSUME IInv PROVE RegistersKept
  OBVIOUS
<1>1. ASSUME pc = "end_alloc" PROVE Last(stack) = reg["r12"]
  <2>1. CASE Last(stack) = reg["r12"]
    BY <2>1
  <2>2. CASE InnerFrame
    BY <2>2 DEF InnerFrame, Last
  <2> QED BY <1>1, <2>1, <2>2 DEF IInv, AllocLabels, AtEndAlloc
<1>2. ASSUME pc = "main" PROVE Untouched /\ stack = <<>>
  BY <1>2 DEF IInv, AllocLabels, AtMain
<1> QED BY <1>1, <1>2 DEF RegistersKept, Untouched

\* Whatever arrays of one or two dimensions a program declares, and however
\* deep _initialize_array calls itself, what _better_alloc pops into rax is
\* the address it wrote the array at, and after a declaration the temporaries,
\* the stack and the frame pointer are what they were before it.
THEOREM TemporariesSurvive ==
    ASSUME TwoDimensions
    PROVE  Spec => []RegistersKept
<1>1. IInv /\ [Next]_vars => IInv'
  BY StepKeeps
<1> QED BY <1>1, InitHolds, KeepsRegisters, PTL DEF Spec

===============================================================================
