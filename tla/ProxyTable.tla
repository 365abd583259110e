------------------------------ MODULE ProxyTable ------------------------------
(***************************************************************************)
(* The managing server's list of proxies, proxy_data, as a value: what     *)
(* register_proxy() does to it and what find_proxy() finds in it.  An      *)
(* entry is [addr, nclients, fresh]; fresh says that it was registered at  *)
(* most registration_period seconds ago.                                   *)
(***************************************************************************)
EXTENDS Integers, Sequences

CONSTANT NoProxy   \* INADDR_NONE: no proxy found or none assigned yet

Entries(A, N) == [addr : A, nclients : N, fresh : BOOLEAN]

Proxy(a, n) == [addr |-> a, nclients |-> n, fresh |-> TRUE]

\* Mutant of Register: the list is not searched for the address.
RegisterAppends(table, p) == Append(table, p)

\* register_proxy(): the entry with the same address is replaced in its place,
\* a new address goes to the end.
Register(table, p) ==
    LET same == {k \in DOMAIN table : table[k].addr = p.addr}
    IN  IF same = {} THEN Append(table, p)
        ELSE [table EXCEPT ![CHOOSE k \in same : \A j \in same : k <= j] = p]

\* What find_proxy() has found: an address, and the load found with it.  -1 is
\* its mark for no load yet.
NothingFound == [addr |-> NoProxy, nclients |-> -1]
TakenFrom(p) == [addr |-> p.addr, nclients |-> p.nclients]

\* Mutant of Consider: the reported proxies are not looked at.
ConsiderLoad(found, p, bad) ==
    IF found.nclients = -1 \/ found.nclients > p.nclients THEN TakenFrom(p) ELSE found

\* One turn of the inner loop: the first candidate is taken, a later one only
\* if it has fewer clients and was not reported bad.
Consider(found, p, bad) ==
    IF found.nclients = -1 \/ (found.nclients > p.nclients /\ p.addr \notin bad)
    THEN TakenFrom(p) ELSE found

\* One pass of the outer loop, over the entries with the numbers in ks.
Pass(table, bad, ks) ==
    LET found[k \in 0..Len(table)] ==
          IF k = 0 THEN NothingFound
          ELSE IF k \in ks THEN Consider(found[k - 1], table[k], bad) ELSE found[k - 1]
    IN  found[Len(table)]

\* Entries that are not stale.
FreshOnes(table) == {k \in DOMAIN table : table[k].fresh}

\* find_proxy(): the address chosen for a client that reported the addresses
\* bad.  The second pass, over all entries, is made only if the first found none.
FindProxy(table, bad) ==
    LET first == Pass(table, bad, FreshOnes(table)).addr
    IN  IF first # NoProxy THEN first ELSE Pass(table, bad, DOMAIN table).addr
-----------------------------------------------------------------------------
(* Reference definitions, for the checks *)

\* At most one entry for an address, so that an address has one load.
Unique(table) ==
    \A j, k \in DOMAIN table : table[j].addr = table[k].addr => j = k

\* Stale entries compete only if all are stale.
Competing(table) == IF FreshOnes(table) # {} THEN FreshOnes(table) ELSE DOMAIN table

\* What a choice promises: it is the address of an entry that competes, no other
\* that was not reported bad has fewer clients, and only the first can be one
\* that was reported bad.
GoodChoice(table, bad, choice) ==
    IF table = <<>> THEN choice = NoProxy
    ELSE \E k \in Competing(table) :
           /\ choice = table[k].addr
           /\ \A j \in Competing(table) :
                /\ table[j].addr \notin bad => table[k].nclients <= table[j].nclients
                /\ choice \in bad => k <= j
=============================================================================
