------------------------------ MODULE AbstractMap ------------------------------
(***************************************************************************)
(* What a map from keys to values promises: a key has the value that was   *)
(* put under it last, and none before that or after it was removed.        *)
(***************************************************************************)
CONSTANTS Keys, Values, NULL

VARIABLE map
vars == map

Init == map = [k \in Keys |-> NULL]

Put(k, v) == map' = [map EXCEPT ![k] = v]
Remove(k) == map' = [map EXCEPT ![k] = NULL]

Next == \E k \in Keys : Remove(k) \/ \E v \in Values : Put(k, v)

Spec == Init /\ [][Next]_vars
=============================================================================
