-------------------------------- MODULE Vector --------------------------------
(***************************************************************************)
(* VECTOR (vect.c) as a value [data, capacity]: what the calls made by the *)
(* client library do to it.  vector_bsearch() and vector_walk() hold the   *)
(* lock of the vector from beginning to end.                               *)
(***************************************************************************)
EXTENDS Integers, Sequences, Functions

CONSTANTS Compare(_, _),  \* compare: below, at or above zero
          Replace(_, _)   \* the replace() that callers pass: what becomes of an item that is found

\* create_vector(capacity, width, cmp).
CreateVector(capacity) == [data |-> <<>>, capacity |-> capacity]

\* upsize_vector(): room for one item more.
UpsizeVector(v) ==
    IF v.capacity < Len(v.data) + 1 THEN [v EXCEPT !.capacity = @ * 2] ELSE v

\* qsort(): the items in an order in which none is above one behind it.
Qsort(items) ==
    LET places == 1..Len(items)
        order  == CHOOSE p \in Bijection(places, places) :
                    \A i, j \in places : i < j => Compare(items[p[i]], items[p[j]]) <= 0
    IN  [i \in places |-> items[order[i]]]

\* Mutant of VectorAdd: the items are not sorted.
VectorAddLast(v, item) == [UpsizeVector(v) EXCEPT !.data = Append(@, item)]

\* _vector_add(): behind the last item, then qsort().
VectorAdd(v, item) == [UpsizeVector(v) EXCEPT !.data = Qsort(Append(@, item))]

\* bsearch() of the C library: the place of an item equal to key, or 0.  In
\* data that is not sorted it may pass over it.
BSearch(data, key) ==
    LET place[r \in (1..(Len(data) + 1)) \X (0..Len(data))] ==
          LET mid == (r[1] + r[2]) \div 2
          IN  IF r[1] > r[2] THEN 0
              ELSE IF Compare(key, data[mid]) < 0 THEN place[<<r[1], mid - 1>>]
              ELSE IF Compare(key, data[mid]) > 0 THEN place[<<mid + 1, r[2]>>]
              ELSE mid
    IN  place[<<1, Len(data)>>]

\* vector_bsearch(v, key, buf, NULL, NULL, NULL, 0): is it there, and the copy.
VectorHas(v, key)  == BSearch(v.data, key) # 0
VectorFind(v, key) == v.data[BSearch(v.data, key)]

\* vector_bsearch(v, key, buf, replace, new_item, replaced, add): an item that
\* is found is replaced by what replace() makes of it and new; if none is, key
\* itself is added.
VectorBSearch(v, key, new, add) ==
    LET k == BSearch(v.data, key)
    IN  IF k # 0 THEN [v EXCEPT !.data[k] = Replace(@, new)]
        ELSE IF add THEN VectorAdd(v, key)
        ELSE v

\* The items a vector_walk() visits, in their order.
VectorWalk(v) == v.data
-----------------------------------------------------------------------------
(* What holds of a vector between calls *)

\* The items are sorted, without two that are equal, and fit into the memory.
WellFormed(v) ==
    /\ \A j, k \in DOMAIN v.data : j < k => Compare(v.data[j], v.data[k]) < 0
    /\ Len(v.data) <= v.capacity
=============================================================================
