-------------------------------- MODULE Hashmap --------------------------------
(***************************************************************************)
(* HASHMAP (hashmap.c) as the threads of a program use it.  hashmap_put()  *)
(* and hashmap_remove() are called by add_socket(), rm_socket() and        *)
(* walk_master(), under the lock of MASTER_FD: one at a time, and each     *)
(* makes one store that others can see.  hashmap_get() of the select loop  *)
(* and the walks over all chains (hashmap_snprint() of the console,        *)
(* binding() that looks for a free port) take no lock, so writers come     *)
(* between their loads.                                                    *)
(***************************************************************************)
EXTENDS Integers, Sequences

CONSTANTS Keys, Values, Readers, NULL,
          Buckets    \* 1024 in the program

ASSUME KeyAssumption  == Keys \subseteq Nat /\ Buckets \in Nat \ {0}
ASSUME NullAssumption == NULL \notin Values

VARIABLES
  list,   \* list[h]: the entries of chain h, the head of the chain last
  rd,     \* rd[t]: the call of reader t, see ReaderCalls
  hist    \* history: what was true at some or all moments of that call
mapvars == <<list, rd, hist>>

Chains  == 0..(Buckets - 1)
ChainEntries == [key : Keys, value : Values \cup {NULL}]

\* Where a reader stands: it loads the head of chain h, tests ptr (as the
\* number of entries from there to the end, 0 for NULL), or loads the value.
ReaderCalls == [op : {"get", "walk"}, at : {"head", "test", "value", "done"},
          key : Keys, h : Chains, ptr : Nat, res : Values \cup {NULL},
          found : SUBSET Keys]

\* Of a get: the values its key had.  Of a walk: the keys that had a value at
\* some moment, and those that had one all the time.
Moments == [seen : SUBSET (Values \cup {NULL}), ever : SUBSET Keys, always : SUBSET Keys]

MapTypeOK ==
    /\ list \in [Chains -> Seq(ChainEntries)]
    /\ rd \in [Readers -> ReaderCalls]
    /\ hist \in [Readers -> Moments]
-----------------------------------------------------------------------------
Hash(k)      == k % Buckets
Slots(c, k)  == {i \in DOMAIN c : c[i].key = k}

\* The entry of k that is met first from the head.
Slot(c, k)   == CHOOSE i \in Slots(c, k) : \A j \in Slots(c, k) : j <= i

\* The value hashmap_get() returns if nobody writes meanwhile.
Lookup(k) ==
    LET c == list[Hash(k)]
    IN  IF Slots(c, k) = {} THEN NULL ELSE c[Slot(c, k)].value

Mapped == {k \in Keys : Lookup(k) # NULL}

MapInit ==
    /\ list = [h \in Chains |-> <<>>]
    /\ rd \in [Readers -> [op : {"get"}, at : {"done"}, key : Keys, h : {0}, ptr : {0},
                           res : {NULL}, found : {{}}]]
    /\ hist = [t \in Readers |-> [seen |-> {NULL}, ever |-> {}, always |-> {}]]
-----------------------------------------------------------------------------
(* The writers, each inside the lock *)

\* What the calls of the readers have seen after a store.
Observed ==
    hist' = [t \in Readers |->
              [seen   |-> hist[t].seen \cup {Lookup(rd[t].key)'},
               ever   |-> hist[t].ever \cup Mapped',
               always |-> hist[t].always \cap Mapped']]

\* hashmap_put(): an entry of the key gets the value, or a new entry becomes
\* the head of the chain.
Put(k, v) ==
    /\ LET c == list[Hash(k)]
       IN  list' = IF Slots(c, k) # {}
                   THEN [list EXCEPT ![Hash(k)][Slot(c, k)].value = v]
                   ELSE [list EXCEPT ![Hash(k)] = Append(@, [key |-> k, value |-> v])]
    /\ UNCHANGED rd
    /\ Observed

\* Mutant of Remove: the entries before the one removed go with it.
RemoveCuts(k) ==
    /\ LET c == list[Hash(k)]
       IN  /\ Slots(c, k) # {}
           /\ list' = [list EXCEPT ![Hash(k)] = SubSeq(c, 1, Slot(c, k) - 1)]
    /\ UNCHANGED rd
    /\ Observed

\* hashmap_remove(): the value is cleared, the entry stays in the chain.
Remove(k) ==
    /\ LET c == list[Hash(k)]
       IN  /\ Slots(c, k) # {}
           /\ list' = [list EXCEPT ![Hash(k)][Slot(c, k)].value = NULL]
    /\ UNCHANGED rd
    /\ Observed
-----------------------------------------------------------------------------
(* The readers *)

Calling(t, call) ==
    /\ rd' = [rd EXCEPT ![t] = call]
    /\ hist' = [hist EXCEPT ![t] = [seen |-> {Lookup(call.key)}, ever |-> Mapped,
                                    always |-> Mapped]]

\* hashmap_get(k) is called.
GetCall(t, k) ==
    /\ rd[t].at = "done"
    /\ Calling(t, [op |-> "get", at |-> "head", key |-> k, h |-> Hash(k), ptr |-> 0,
                   res |-> NULL, found |-> {}])
    /\ UNCHANGED list

\* A walk over all chains begins with chain 0.
WalkCall(t) ==
    /\ rd[t].at = "done"
    /\ Calling(t, [op |-> "walk", at |-> "head", key |-> rd[t].key, h |-> 0, ptr |-> 0,
                   res |-> NULL, found |-> {}])
    /\ UNCHANGED list

\* ptr = hm->list[h].
LoadHead(t) ==
    /\ rd[t].at = "head"
    /\ rd' = [rd EXCEPT ![t].at = "test", ![t].ptr = Len(list[rd[t].h])]
    /\ UNCHANGED <<list, hist>>

\* The entry ptr points to.
Here(t) == list[rd[t].h][rd[t].ptr]

\* Mutant of GetTest: the last entry of a chain is not looked at.
GetTestShort(t) ==
    /\ rd[t].at = "test" /\ rd[t].op = "get"
    /\ rd' = IF rd[t].ptr <= 1 THEN [rd EXCEPT ![t].at = "done"]
             ELSE IF Here(t).key = rd[t].key THEN [rd EXCEPT ![t].at = "value"]
             ELSE [rd EXCEPT ![t].ptr = @ - 1]
    /\ UNCHANGED <<list, hist>>

\* hashmap_get() at an entry: not the key, the next one; none, NULL.
GetTest(t) ==
    /\ rd[t].at = "test" /\ rd[t].op = "get"
    /\ rd' = IF rd[t].ptr = 0 THEN [rd EXCEPT ![t].at = "done"]
             ELSE IF Here(t).key = rd[t].key THEN [rd EXCEPT ![t].at = "value"]
             ELSE [rd EXCEPT ![t].ptr = @ - 1]
    /\ UNCHANGED <<list, hist>>

\* return ptr->value.
GetValue(t) ==
    /\ rd[t].at = "value"
    /\ rd' = [rd EXCEPT ![t].at = "done", ![t].res = Here(t).value]
    /\ UNCHANGED <<list, hist>>

\* A walk at an entry: its key counts if its value is not NULL.
WalkEntry(t) ==
    /\ rd[t].at = "test" /\ rd[t].op = "walk" /\ rd[t].ptr > 0
    /\ rd' = [rd EXCEPT ![t].found = IF Here(t).value # NULL THEN @ \cup {Here(t).key} ELSE @,
                        ![t].ptr = @ - 1]
    /\ UNCHANGED <<list, hist>>

\* Mutant of WalkNext: the last chain is left out.
WalkNextShort(t) ==
    /\ rd[t].at = "test" /\ rd[t].op = "walk" /\ rd[t].ptr = 0
    /\ rd' = IF rd[t].h + 2 < Buckets THEN [rd EXCEPT ![t].at = "head", ![t].h = @ + 1]
             ELSE [rd EXCEPT ![t].at = "done"]
    /\ UNCHANGED <<list, hist>>

\* ... at the end of a chain.
WalkNext(t) ==
    /\ rd[t].at = "test" /\ rd[t].op = "walk" /\ rd[t].ptr = 0
    /\ rd' = IF rd[t].h + 1 < Buckets THEN [rd EXCEPT ![t].at = "head", ![t].h = @ + 1]
             ELSE [rd EXCEPT ![t].at = "done"]
    /\ UNCHANGED <<list, hist>>

Reader(t) ==
    \/ WalkCall(t) \/ \E k \in Keys : GetCall(t, k)
    \/ LoadHead(t) \/ GetTest(t) \/ GetValue(t) \/ WalkEntry(t) \/ WalkNext(t)

Writer(k) == Remove(k) \/ \E v \in Values : Put(k, v)

MapNext == (\E k \in Keys : Writer(k)) \/ (\E t \in Readers : Reader(t))

MapSpec == MapInit /\ [][MapNext]_mapvars
-----------------------------------------------------------------------------
(* Properties *)

\* hashmap_get() without the lock returns a value that the key had at some
\* moment of the call, whatever is put and removed meanwhile: a socket that is
\* in the map all along is not taken for an unknown one by the loop.
GetsCurrent ==
    \A t \in Readers :
      rd[t].at = "done" /\ rd[t].op = "get" => rd[t].res \in hist[t].seen

\* A walk without the lock passes over no key that is in the map all along, and
\* shows none that is not in it at any moment: binding() does not miss a port
\* that a socket has (proxy/client_handler.c:451-461).
WalksAll ==
    \A t \in Readers :
      rd[t].at = "done" /\ rd[t].op = "walk" =>
        hist[t].always \subseteq rd[t].found /\ rd[t].found \subseteq hist[t].ever

\* Chains, entries that are kept with a cleared value and prepending implement
\* a map from keys to values.
Map == INSTANCE AbstractMap WITH map <- [k \in Keys |-> Lookup(k)]
RefinesMap == Map!Spec
=============================================================================
