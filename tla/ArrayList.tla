------------------------------- MODULE ArrayList -------------------------------
(***************************************************************************)
(* ARRAYLIST (arraylist.c) as a value [list, capacity]; its size is the    *)
(* length of list.                                                         *)
(***************************************************************************)
EXTENDS Naturals, Sequences

CONSTANT Junk   \* a pointer whose bytes were overwritten

\* arraylist(capacity).
NewList(capacity) == [list |-> <<>>, capacity |-> capacity]

\* Mutant of ListAdd: the list grows one item too late.
ListAddLate(al, obj) ==
    IF Len(al.list) <= al.capacity THEN [al EXCEPT !.list = Append(@, obj)]
    ELSE [list |-> Append([k \in DOMAIN al.list |-> Junk], obj), capacity |-> al.capacity * 2]

\* arraylist_add(): in a list that is full, memset() is meant to clear what
\* realloc() added, but begins at the first item and writes the low byte of
\* the size over every item there is.
ListAdd(al, obj) ==
    IF Len(al.list) < al.capacity THEN [al EXCEPT !.list = Append(@, obj)]
    ELSE [list |-> Append([k \in DOMAIN al.list |-> Junk], obj), capacity |-> al.capacity * 2]

\* arraylist_set().
ListSet(al, k, obj) == [al EXCEPT !.list[k] = obj]
=============================================================================
