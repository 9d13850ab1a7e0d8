----------------------------- MODULE AbstractList -----------------------------
(***************************************************************************)
(* What linked_list.h promises: a list is a sequence of data, and each     *)
(* operation inserts, removes or copies where its comment says.            *)
(*                                                                         *)
(* An insertion needs memory.  Without it the list stays as it is, and a   *)
(* copy goes on without the element.  linked_list_pop_front keeps the node *)
(* it takes from the list; linked_list_remove gives it back.               *)
(***************************************************************************)
EXTENDS Integers, Sequences

CONSTANTS Lists, Data, NULL

VARIABLES
    contents,   \* the sequence of each list
    rest, dest, \* what linked_list_copy_to has still to copy, and to which list
    memory      \* there is memory for one more node

vars == <<contents, rest, dest, memory>>

Init ==
    /\ contents = [l \in Lists |-> <<>>]
    /\ rest = <<>> /\ dest = NULL
    /\ memory \in BOOLEAN

InsertAfter(s, k, d) == SubSeq(s, 1, k) \o <<d>> \o SubSeq(s, k + 1, Len(s))
RemoveAt(s, k)       == SubSeq(s, 1, k - 1) \o SubSeq(s, k + 1, Len(s))

Change(l, s) ==
    /\ rest = <<>>
    /\ contents' = [contents EXCEPT ![l] = s]
    /\ UNCHANGED <<rest, dest>>

Grow(l, s)   == memory /\ Change(l, s) /\ memory' \in BOOLEAN
NoMemory     == ~memory /\ rest = <<>> /\ UNCHANGED vars

\* "Append a the given element to the list."
PutLast(l, d) == Grow(l, Append(contents[l], d)) \/ NoMemory

\* "Appends the provided data to the front of the linked list"
PutFront(l, d) == Grow(l, InsertAfter(contents[l], 0, d)) \/ NoMemory

\* "Adds a new linked list node to ll after lln", which is not the last one.
PutNext(l, k, d) ==
    /\ k \in 1..(Len(contents[l]) - 1)
    /\ Grow(l, InsertAfter(contents[l], k, d))

\* "Remove and return the first element from the given list."
PopFront(l) ==
    /\ contents[l] # <<>>
    /\ Change(l, RemoveAt(contents[l], 1))
    /\ UNCHANGED memory

\* "Remove the given node from the given linked list (and deallocate it)."
Remove(l, k) ==
    /\ k \in 1..Len(contents[l])
    /\ Change(l, RemoveAt(contents[l], k))
    /\ memory' = TRUE

\* "Deallocate the given linked list, including all nodes"
Clear(l) ==
    /\ Change(l, <<>>)
    /\ memory' = (memory \/ contents[l] # <<>>)

\* Every element of l is appended to m, in order.
StartCopy(l, m) ==
    /\ rest = <<>> /\ l # m /\ contents[l] # <<>>
    /\ rest' = contents[l] /\ dest' = m
    /\ UNCHANGED <<contents, memory>>

CopyNext ==
    /\ rest # <<>>
    /\ rest' = Tail(rest)
    /\ dest' = IF Tail(rest) = <<>> THEN NULL ELSE dest
    /\ \/ /\ memory
          /\ contents' = [contents EXCEPT ![dest] = Append(@, Head(rest))]
          /\ memory' \in BOOLEAN
       \/ ~memory /\ UNCHANGED <<contents, memory>>

Next ==
    \/ \E l \in Lists, d \in Data :
         \/ PutLast(l, d) \/ PutFront(l, d)
         \/ \E k \in 1..Len(contents[l]) : PutNext(l, k, d)
    \/ \E l \in Lists :
         \/ PopFront(l) \/ Clear(l)
         \/ \E k \in 1..Len(contents[l]) : Remove(l, k)
    \/ \E l, m \in Lists : StartCopy(l, m)
    \/ CopyNext

Spec == Init /\ [][Next]_vars
===============================================================================
