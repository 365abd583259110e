------------------------------- MODULE MCTables -------------------------------
(***************************************************************************)
(* The containers of the program, one in each behaviour:                   *)
(*   "proxies"  the list of proxies, as a sequence of ProxyTable and as    *)
(*              the ARRAYLIST that register_proxy() works on               *)
(*   "hashmap"  the HASHMAP of Hashmap                                     *)
(*   "pool"     the VECTOR with the sockets of a client, by their numbers  *)
(***************************************************************************)
EXTENDS Hashmap, MCProxyTable, ArrayList

CONSTANTS InitialCapacity,  \* of an ARRAYLIST: 10 in the program
          Socks             \* numbers of sockets

ASSUME MCTablesAssumption ==
    /\ MaxClients \in Nat /\ InitialCapacity \in Nat \ {0} /\ Socks \subseteq Nat
    /\ Junk \notin Entries(Addrs, Nat)
    /\ NULL \notin [sock : Socks, bound : BOOLEAN]

VARIABLES what, al, pool, stored
others == <<what, al, pool, stored>>

\* compare_proxy_socket() and set_socket_fields() of the pool.
Item(s, b) == [sock |-> s, bound |-> b]
CompareSockets(x, y) == x.sock - y.sock
SetSocketFields(old, new) == [old EXCEPT !.sock = new.sock, !.bound = new.bound]
P == INSTANCE Vector WITH Compare <- CompareSockets, Replace <- SetSocketFields

TablesInit ==
    /\ what \in {"proxies", "hashmap", "pool"}
    /\ MapInit /\ TableInit
    /\ al = NewList(InitialCapacity)
    /\ pool = P!CreateVector(1)
    /\ stored = [s \in Socks |-> NULL]

\* register_proxy() on the ARRAYLIST.
ListRegister(p) ==
    LET same == {k \in DOMAIN al.list : al.list[k].addr = p.addr}
    IN  al' = IF same = {} THEN ListAdd(al, p)
              ELSE ListSet(al, CHOOSE k \in same : \A j \in same : k <= j, p)

\* A list with overwritten items is not read again: the process ends there.
Registered ==
    /\ what = "proxies"
    /\ Junk \notin {al.list[k] : k \in DOMAIN al.list}
    /\ \E a \in Addrs, n \in 0..MaxClients :
         table' = Register(table, Proxy(a, n)) /\ ListRegister(Proxy(a, n))
    /\ UNCHANGED <<mapvars, what, pool, stored>>

Aged ==
    /\ what = "proxies"
    /\ Junk \notin {al.list[k] : k \in DOMAIN al.list}
    /\ \E k \in DOMAIN table : /\ table' = [table EXCEPT ![k].fresh = FALSE]
                               /\ al' = ListSet(al, k, table'[k])
    /\ UNCHANGED <<mapvars, what, pool, stored>>

MapStep == what = "hashmap" /\ MapNext /\ UNCHANGED <<table, others>>

\* proxy_socket() adds, proxy_bind() and proxy_close() replace.
Pooled ==
    /\ what = "pool"
    /\ \E s \in Socks, b \in BOOLEAN, add \in BOOLEAN :
         /\ pool' = P!VectorBSearch(pool, Item(s, b), Item(s, b), add)
         /\ stored' = IF add \/ stored[s] # NULL THEN [stored EXCEPT ![s] = Item(s, b)]
                      ELSE stored
    /\ UNCHANGED <<mapvars, table, what, al>>

\* The process has read an overwritten item, and is gone.
Ended ==
    /\ Junk \in {al.list[k] : k \in DOMAIN al.list}
    /\ UNCHANGED <<mapvars, table, others>>

TablesNext == Ended \/ Registered \/ Aged \/ MapStep \/ Pooled

TablesSpec == TablesInit /\ [][TablesNext]_<<mapvars, table, others>>
-----------------------------------------------------------------------------
\* The list that register_proxy() keeps in an ARRAYLIST is the table exactly up
\* to the initial capacity: the address after that destroys what is there.
ListIsTable == al.list = table <=> Len(table) <= InitialCapacity

\* A socket is found in the pool, by a binary search, with what was stored for
\* it last, exactly if it was added; and the pool stays within its memory.
PoolFinds ==
    /\ P!WellFormed(pool)
    /\ \A s \in Socks :
         LET key == Item(s, FALSE)
         IN  /\ P!VectorHas(pool, key) <=> stored[s] # NULL
             /\ P!VectorHas(pool, key) => P!VectorFind(pool, key) = stored[s]
=============================================================================
