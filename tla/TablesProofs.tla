----------------------------- MODULE TablesProofs -----------------------------
(***************************************************************************)
(* The containers, for any contents.  HASHMAP is a map, and its readers    *)
(* need no lock: for any keys, values, number of chains and of readers.    *)
(* The ARRAYLIST is the list of proxies up to its first capacity; and the  *)
(* binary search in the VECTOR of the sockets finds what was stored.       *)
(***************************************************************************)
EXTENDS MCTables, ValueProofs

\* Lookup() and Mapped in the chains L, so that facts about them serve before
\* and after a store.
LookupIn(L, k) ==
    LET c == L[Hash(k)]
    IN  IF Slots(c, k) = {} THEN NULL ELSE c[Slot(c, k)].value

MappedIn(L) == {k \in Keys : LookupIn(L, k) # NULL}

\* Every entry is in the chain of its key, and is the only one of its key.
GoodChains(L) ==
    /\ L \in [Chains -> Seq(ChainEntries)]
    /\ \A h \in Chains : \A i \in DOMAIN L[h] :
         /\ Hash(L[h][i].key) = h
         /\ \A j \in DOMAIN L[h] : L[h][i].key = L[h][j].key => i = j

\* What a store leaves alone: an entry keeps its place and its key, and a key
\* that gets an entry had none.
Store(L, M) ==
    \A h \in Chains :
      /\ Len(L[h]) <= Len(M[h])
      /\ \A i \in DOMAIN L[h] : M[h][i].key = L[h][i].key
      /\ \A i \in DOMAIN M[h] \ DOMAIN L[h] : LookupIn(L, M[h][i].key) = NULL

\* The two stores of the writers: a value into entry i of the chain of k, and
\* a new head of that chain.
SetsValue(L, M, k, i, v) == M = [L EXCEPT ![Hash(k)][i].value = v]
AddsEntry(L, M, k, v) ==
    M = [L EXCEPT ![Hash(k)] = Append(L[Hash(k)], [key |-> k, value |-> v])]

\* How a store changes what a call has seen.
After(L, k, m) ==
    [seen   |-> m.seen \cup {LookupIn(L, k)},
     ever   |-> m.ever \cup MappedIn(L),
     always |-> m.always \cap MappedIn(L)]

\* The moments recorded for a call r include the present one.
Recorded(L, r, m) ==
    /\ LookupIn(L, r.key) \in m.seen
    /\ MappedIn(L) \subseteq m.ever
    /\ m.always \subseteq MappedIn(L)

\* A get has not passed the entry of its key, unless it came after the get
\* began: then the key had no value at some moment.
Getting(L, r, m) ==
    /\ r.at # "done" => r.h = Hash(r.key) /\ r.res = NULL
    /\ r.at = "test" => NULL \in m.seen \/ \E i \in 1..r.ptr : L[r.h][i].key = r.key
    /\ r.at = "value" => r.ptr \in DOMAIN L[r.h] /\ L[r.h][r.ptr].key = r.key
    /\ r.at = "done" => r.res \in m.seen

\* A walk has found the keys that always had a value in the chains, and in the
\* part of the present chain, that it has passed.
Walking(L, r, m) ==
    /\ r.at # "value"
    /\ \A k \in m.always : Hash(k) < r.h \/ r.at = "done" => k \in r.found
    /\ r.at = "test" =>
         \A i \in DOMAIN L[r.h] : i > r.ptr /\ L[r.h][i].key \in m.always => L[r.h][i].key \in r.found

Reading(L, r, m) ==
    /\ Recorded(L, r, m)
    /\ r.found \subseteq m.ever
    /\ r.at = "test" => r.ptr <= Len(L[r.h])
    /\ r.op = "get" => Getting(L, r, m)
    /\ r.op = "walk" => Walking(L, r, m)

IInv ==
    /\ MapTypeOK
    /\ GoodChains(list)
    /\ \A t \in Readers : Reading(list, rd[t], hist[t])
-----------------------------------------------------------------------------
(* Facts about chains *)

\* A key has one chain.
LEMMA HashInChains == \A k \in Keys : Hash(k) \in Chains
BY KeyAssumption DEF Hash, Chains

\* What an entry is made of.
LEMMA EntryOf ==
  ASSUME NEW c \in Seq(ChainEntries), NEW i \in DOMAIN c
  PROVE  i \in 1..Len(c) /\ c[i] \in ChainEntries /\ c[i].key \in Keys /\ c[i].value \in Values \cup {NULL}
<1>1. i \in 1..Len(c) /\ c[i] \in ChainEntries
  OBVIOUS
<1> QED BY <1>1 DEF ChainEntries

\* The value of a key is that of its one entry, or NULL if it has none.
LEMMA LookupOf ==
  ASSUME NEW L, GoodChains(L), NEW k \in Keys
  PROVE  /\ \A i \in DOMAIN L[Hash(k)] :
              L[Hash(k)][i].key = k => /\ Slots(L[Hash(k)], k) = {i}
                                       /\ Slot(L[Hash(k)], k) = i
                                       /\ LookupIn(L, k) = L[Hash(k)][i].value
         /\ (\A i \in DOMAIN L[Hash(k)] : L[Hash(k)][i].key # k)
              => Slots(L[Hash(k)], k) = {} /\ LookupIn(L, k) = NULL
         /\ LookupIn(L, k) \in Values \cup {NULL}
<1> DEFINE c == L[Hash(k)]
<1>1. Hash(k) \in Chains /\ c \in Seq(ChainEntries) /\ DOMAIN c \in SUBSET Nat
  BY HashInChains DEF GoodChains
<1>2. ASSUME NEW i \in DOMAIN c, c[i].key = k
      PROVE  Slots(c, k) = {i} /\ Slot(c, k) = i /\ LookupIn(L, k) = c[i].value
  <2>1. \A j \in DOMAIN c : c[j].key = k => j = i
    BY <1>1, <1>2 DEF GoodChains
  <2>2. Slots(c, k) = {i}
    BY <1>2, <2>1 DEF Slots
  <2>3. Slot(c, k) = i
    BY <2>2, <1>1 DEF Slot
  <2> QED BY <2>2, <2>3 DEF LookupIn
<1>3. (\A i \in DOMAIN c : c[i].key # k) => Slots(c, k) = {} /\ LookupIn(L, k) = NULL
  BY DEF Slots, LookupIn
<1>4. \A i \in DOMAIN c : c[i].value \in Values \cup {NULL}
  BY <1>1, EntryOf
<1> QED BY <1>2, <1>3, <1>4

\* A new value in an entry of k is the value of k from then on.
LEMMA StoreValue ==
  ASSUME NEW L, GoodChains(L), NEW k \in Keys, NEW i \in DOMAIN L[Hash(k)],
         L[Hash(k)][i].key = k, NEW v \in Values \cup {NULL},
         NEW M, SetsValue(L, M, k, i, v)
  PROVE  /\ GoodChains(M) /\ Store(L, M)
         /\ \A q \in Keys : LookupIn(M, q) = IF q = k THEN v ELSE LookupIn(L, q)
<1> DEFINE c == L[Hash(k)]
           d == [c EXCEPT ![i].value = v]
<1>1. Hash(k) \in Chains /\ L \in [Chains -> Seq(ChainEntries)] /\ c \in Seq(ChainEntries)
  BY HashInChains DEF GoodChains
<1>2. M = [L EXCEPT ![Hash(k)] = d]
  BY DEF SetsValue
<1>3. /\ d \in Seq(ChainEntries) /\ Len(d) = Len(c) /\ DOMAIN d = DOMAIN c
      /\ \A j \in DOMAIN c : d[j].key = c[j].key /\ d[j].value = IF j = i THEN v ELSE c[j].value
  <2>1. c[i] \in ChainEntries /\ [c[i] EXCEPT !.value = v] \in ChainEntries
    <3>1. c[i] \in ChainEntries
      BY <1>1, EntryOf
    <3> QED BY <3>1 DEF ChainEntries
  <2>2. d = [c EXCEPT ![i] = [c[i] EXCEPT !.value = v]]
    OBVIOUS
  <2>3. [c[i] EXCEPT !.value = v].key = c[i].key /\ [c[i] EXCEPT !.value = v].value = v
    BY <2>1 DEF ChainEntries
  <2> HIDE DEF d
  <2> QED BY <1>1, <2>1, <2>2, <2>3
<1>4. M \in [Chains -> Seq(ChainEntries)] /\ M[Hash(k)] = d
      /\ \A h \in Chains : h # Hash(k) => M[h] = L[h]
  BY <1>1, <1>2, <1>3
<1> HIDE DEF d
<1>5. \A h \in Chains : /\ Len(M[h]) = Len(L[h]) /\ DOMAIN M[h] = DOMAIN L[h]
                        /\ \A j \in DOMAIN L[h] : M[h][j].key = L[h][j].key
  BY <1>1, <1>3, <1>4
<1>6. GoodChains(M)
  BY <1>4, <1>5 DEF GoodChains
<1>7. Store(L, M)
  <2>1. \A h \in Chains : Len(L[h]) \in Nat
    BY <1>1
  <2> QED BY <1>5, <2>1 DEF Store
<1>8. ASSUME NEW q \in Keys
      PROVE  LookupIn(M, q) = IF q = k THEN v ELSE LookupIn(L, q)
  <2>1. CASE q = k
    <3>1. i \in DOMAIN M[Hash(k)] /\ M[Hash(k)][i].key = k /\ M[Hash(k)][i].value = v
      BY <1>3, <1>4
    <3>2. LookupIn(M, k) = M[Hash(k)][i].value
      BY <3>1, <1>6, LookupOf
    <3> QED BY <2>1, <3>1, <3>2
  <2>2. CASE q # k /\ \E j \in DOMAIN L[Hash(q)] : L[Hash(q)][j].key = q
    <3> PICK j \in DOMAIN L[Hash(q)] : L[Hash(q)][j].key = q
      BY <2>2
    <3>1. Hash(q) \in Chains /\ LookupIn(L, q) = L[Hash(q)][j].value
      BY LookupOf, HashInChains
    <3>2. M[Hash(q)][j].value = L[Hash(q)][j].value
      <4>1. CASE Hash(q) = Hash(k)
        <5>1. j # i /\ j \in DOMAIN c
          BY <4>1, <2>2
        <5>2. d[j].value = c[j].value
          BY <5>1, <1>3
        <5>3. M[Hash(q)] = d
          BY <4>1, <1>4
        <5> QED BY <4>1, <5>2, <5>3
      <4>2. CASE Hash(q) # Hash(k)
        BY <4>2, <1>4, <3>1
      <4> QED BY <4>1, <4>2
    <3>3. j \in DOMAIN M[Hash(q)] /\ M[Hash(q)][j].key = q
      BY <1>5, <3>1
    <3>4. LookupIn(M, q) = M[Hash(q)][j].value
      BY <1>6, <3>3, LookupOf
    <3> QED BY <2>2, <3>1, <3>2, <3>4
  <2>3. CASE q # k /\ \A j \in DOMAIN L[Hash(q)] : L[Hash(q)][j].key # q
    <3>1. LookupIn(L, q) = NULL
      BY <2>3, LookupOf
    <3>2. \A j \in DOMAIN M[Hash(q)] : M[Hash(q)][j].key # q
      BY <2>3, <1>5, HashInChains
    <3>3. LookupIn(M, q) = NULL
      BY <3>2, <1>6, LookupOf
    <3> QED BY <2>3, <3>1, <3>3
  <2> QED BY <2>1, <2>2, <2>3
<1> QED BY <1>6, <1>7, <1>8

\* A key without an entry gets one, at the head of its chain.
LEMMA StoreEntry ==
  ASSUME NEW L, GoodChains(L), NEW k \in Keys,
         \A i \in DOMAIN L[Hash(k)] : L[Hash(k)][i].key # k, NEW v \in Values,
         NEW M, AddsEntry(L, M, k, v)
  PROVE  /\ GoodChains(M) /\ Store(L, M)
         /\ \A q \in Keys : LookupIn(M, q) = IF q = k THEN v ELSE LookupIn(L, q)
<1> DEFINE c == L[Hash(k)]
           e == [key |-> k, value |-> v]
           n == Len(c) + 1
           d == Append(c, e)
<1>1. Hash(k) \in Chains /\ L \in [Chains -> Seq(ChainEntries)] /\ c \in Seq(ChainEntries)
  BY HashInChains DEF GoodChains
<1>2. e \in ChainEntries /\ e.key = k /\ e.value = v
  BY DEF ChainEntries
<1>2a. M = [L EXCEPT ![Hash(k)] = d]
  BY DEF AddsEntry
<1> HIDE DEF e
<1>3. /\ d \in Seq(ChainEntries) /\ Len(d) = n /\ DOMAIN d = 1..n /\ d[n] = e
      /\ n \notin DOMAIN c /\ DOMAIN d = DOMAIN c \cup {n}
      /\ \A j \in DOMAIN c : d[j] = c[j]
  BY <1>1, <1>2
<1>4. M \in [Chains -> Seq(ChainEntries)] /\ M[Hash(k)] = d
      /\ \A h \in Chains : h # Hash(k) => M[h] = L[h]
  BY <1>1, <1>3, <1>2a
<1> HIDE DEF d
<1>5. \A h \in Chains : DOMAIN L[h] \subseteq DOMAIN M[h] /\ \A j \in DOMAIN L[h] : M[h][j] = L[h][j]
  BY <1>1, <1>3, <1>4
<1>6. GoodChains(M)
  <2> SUFFICES ASSUME NEW h \in Chains, NEW i \in DOMAIN M[h]
               PROVE  /\ Hash(M[h][i].key) = h
                      /\ \A j \in DOMAIN M[h] : M[h][i].key = M[h][j].key => i = j
    BY <1>4 DEF GoodChains
  <2>1. CASE h # Hash(k)
    BY <2>1, <1>4 DEF GoodChains
  <2>2. CASE h = Hash(k)
    <3>1. \A j \in DOMAIN c : d[j].key # k /\ Hash(d[j].key) = h
      BY <1>1, <1>3, <2>2 DEF GoodChains
    <3>2. \A j, m \in DOMAIN c : d[j].key = d[m].key => j = m
      BY <1>1, <1>3 DEF GoodChains
    <3>3. M[h] = d /\ d[n].key = k /\ DOMAIN d = DOMAIN c \cup {n}
      BY <1>2, <1>3, <1>4, <2>2
    <3>4. Hash(d[i].key) = h
      BY <3>1, <3>3, <2>2
    <3>5. \A j \in DOMAIN d : d[i].key = d[j].key => i = j
      BY <3>1, <3>2, <3>3
    <3> QED BY <3>3, <3>4, <3>5
  <2> QED BY <2>1, <2>2
<1>7. LookupIn(L, k) = NULL
  BY LookupOf
<1>8. Store(L, M)
  <2> SUFFICES ASSUME NEW h \in Chains
               PROVE  /\ Len(L[h]) <= Len(M[h])
                      /\ \A i \in DOMAIN L[h] : M[h][i].key = L[h][i].key
                      /\ \A i \in DOMAIN M[h] \ DOMAIN L[h] : LookupIn(L, M[h][i].key) = NULL
    BY DEF Store
  <2>1. CASE h # Hash(k)
    <3>1. M[h] = L[h]
      BY <2>1, <1>4
    <3>2. Len(L[h]) \in Nat
      BY <1>1
    <3>3. Len(L[h]) <= Len(M[h])
      BY <3>1, <3>2
    <3> QED BY <3>1, <3>3
  <2>2. CASE h = Hash(k)
    <3>1. Len(c) \in Nat
      BY <1>1
    <3>2. Len(L[h]) <= Len(M[h])
      BY <3>1, <1>3, <1>4, <2>2
    <3>3. \A i \in DOMAIN M[h] \ DOMAIN L[h] : M[h][i].key = k
      BY <1>2, <1>3, <1>4, <2>2
    <3> QED BY <3>2, <3>3, <1>5, <1>7
  <2> QED BY <2>1, <2>2
<1>9. ASSUME NEW q \in Keys
      PROVE  LookupIn(M, q) = IF q = k THEN v ELSE LookupIn(L, q)
  <2>0. Hash(q) \in Chains
    BY HashInChains
  <2>1. CASE q = k
    <3>1. n \in DOMAIN M[Hash(k)] /\ M[Hash(k)][n].key = k /\ M[Hash(k)][n].value = v
      BY <1>2, <1>3, <1>4
    <3>2. LookupIn(M, k) = M[Hash(k)][n].value
      BY <3>1, <1>6, LookupOf
    <3> QED BY <2>1, <3>1, <3>2
  <2>2. CASE q # k /\ \E j \in DOMAIN L[Hash(q)] : L[Hash(q)][j].key = q
    <3> PICK j \in DOMAIN L[Hash(q)] : L[Hash(q)][j].key = q
      BY <2>2
    <3>1. LookupIn(L, q) = L[Hash(q)][j].value
      BY LookupOf
    <3>2. j \in DOMAIN M[Hash(q)] /\ M[Hash(q)][j] = L[Hash(q)][j]
      BY <1>5, <2>0
    <3>3. LookupIn(M, q) = M[Hash(q)][j].value
      BY <1>6, <3>2, LookupOf
    <3> QED BY <2>2, <3>1, <3>2, <3>3
  <2>3. CASE q # k /\ \A j \in DOMAIN L[Hash(q)] : L[Hash(q)][j].key # q
    <3>1. LookupIn(L, q) = NULL
      BY <2>3, LookupOf
    <3>2. \A j \in DOMAIN M[Hash(q)] : M[Hash(q)][j].key # q
      <4>1. CASE Hash(q) # Hash(k)
        BY <4>1, <2>0, <2>3, <1>4
      <4>2. CASE Hash(q) = Hash(k)
        <5>1. M[Hash(q)] = d /\ DOMAIN d = DOMAIN c \cup {n} /\ d[n].key = k
          BY <4>2, <1>2, <1>3, <1>4
        <5>2. \A j \in DOMAIN c : d[j] = c[j] /\ c[j].key # q
          BY <4>2, <2>3, <1>3
        <5> HIDE DEF c, n
        <5> QED BY <2>3, <5>1, <5>2
      <4> QED BY <4>1, <4>2
    <3>3. LookupIn(M, q) = NULL
      BY <3>2, <1>6, LookupOf
    <3> QED BY <2>3, <3>1, <3>3
  <2> QED BY <2>1, <2>2, <2>3
<1> QED BY <1>6, <1>8, <1>9

\* Each call of a writer leaves good chains, is a store to the readers, and
\* gives the one key its value.
LEMMA Writes ==
  ASSUME MapTypeOK, GoodChains(list), NEW k \in Keys
  PROVE  /\ \A v \in Values : Put(k, v) =>
              /\ GoodChains(list') /\ Store(list, list')
              /\ \A q \in Keys : LookupIn(list', q) = IF q = k THEN v ELSE LookupIn(list, q)
         /\ Remove(k) =>
              /\ GoodChains(list') /\ Store(list, list')
              /\ \A q \in Keys : LookupIn(list', q) = IF q = k THEN NULL ELSE LookupIn(list, q)
<1> DEFINE c == list[Hash(k)]
<1>1. CASE \E i \in DOMAIN c : c[i].key = k
  <2> PICK i \in DOMAIN c : c[i].key = k
    BY <1>1
  <2>1. Slots(c, k) # {} /\ Slot(c, k) = i
    BY LookupOf
  <2>2. ASSUME NEW v \in Values, Put(k, v)
        PROVE  SetsValue(list, list', k, i, v)
    BY <2>1, <2>2 DEF Put, SetsValue
  <2>3. ASSUME Remove(k)
        PROVE  SetsValue(list, list', k, i, NULL)
    BY <2>1, <2>3 DEF Remove, SetsValue
  <2>4. ASSUME NEW v \in Values, Put(k, v)
        PROVE  /\ GoodChains(list') /\ Store(list, list')
               /\ \A q \in Keys : LookupIn(list', q) = IF q = k THEN v ELSE LookupIn(list, q)
    BY <2>2, <2>4, StoreValue
  <2>5. ASSUME Remove(k)
        PROVE  /\ GoodChains(list') /\ Store(list, list')
               /\ \A q \in Keys : LookupIn(list', q) = IF q = k THEN NULL ELSE LookupIn(list, q)
    BY <2>3, <2>5, StoreValue
  <2> QED BY <2>4, <2>5
<1>2. CASE \A i \in DOMAIN c : c[i].key # k
  <2>1. Slots(c, k) = {}
    BY <1>2, LookupOf
  <2>2. ASSUME NEW v \in Values, Put(k, v)
        PROVE  AddsEntry(list, list', k, v)
    BY <2>1, <2>2 DEF Put, AddsEntry
  <2>3. ASSUME NEW v \in Values, Put(k, v)
        PROVE  /\ GoodChains(list') /\ Store(list, list')
               /\ \A q \in Keys : LookupIn(list', q) = IF q = k THEN v ELSE LookupIn(list, q)
    BY <2>2, <2>3, <1>2, StoreEntry
  <2>4. ~Remove(k)
    BY <2>1 DEF Remove
  <2> QED BY <2>3, <2>4
<1> QED BY <1>1, <1>2
-----------------------------------------------------------------------------
(* The steps of the writers, as a reader sees them *)

\* A store keeps what holds of every call.
LEMMA StoreReading ==
  ASSUME NEW L, NEW M, GoodChains(L), GoodChains(M), Store(L, M),
         NEW r \in ReaderCalls, NEW m \in Moments, Reading(L, r, m)
  PROVE  Reading(M, r, After(M, r.key, m))
<1> DEFINE w == After(M, r.key, m)
<1>1. /\ w.seen = m.seen \cup {LookupIn(M, r.key)} /\ w.ever = m.ever \cup MappedIn(M)
      /\ w.always = m.always \cap MappedIn(M)
  BY DEF After
<1> HIDE DEF w
<1>2. r.h \in Chains /\ r.key \in Keys /\ r.ptr \in Nat
  BY DEF ReaderCalls
<1>3. /\ L[r.h] \in Seq(ChainEntries) /\ M[r.h] \in Seq(ChainEntries)
      /\ DOMAIN L[r.h] = 1..Len(L[r.h]) /\ DOMAIN M[r.h] = 1..Len(M[r.h])
      /\ Len(L[r.h]) \in Nat /\ Len(M[r.h]) \in Nat
  BY <1>2 DEF GoodChains
<1>4. /\ Len(L[r.h]) <= Len(M[r.h])
      /\ \A i \in DOMAIN L[r.h] : M[r.h][i].key = L[r.h][i].key
      /\ \A i \in DOMAIN M[r.h] \ DOMAIN L[r.h] : LookupIn(L, M[r.h][i].key) = NULL
  BY <1>2 DEF Store
<1>5. Recorded(M, r, w)
  BY <1>1 DEF Recorded
<1>6. r.found \subseteq w.ever
  BY <1>1 DEF Reading
<1>7. r.at = "test" => r.ptr <= Len(M[r.h])
  BY <1>2, <1>3, <1>4 DEF Reading
<1>8. ASSUME r.op = "get" PROVE Getting(M, r, w)
  <2>1. Getting(L, r, m)
    BY <1>8 DEF Reading
  <2>2. ASSUME r.at = "test" PROVE NULL \in w.seen \/ \E i \in 1..r.ptr : M[r.h][i].key = r.key
    <3>1. CASE NULL \in m.seen
      BY <3>1, <1>1
    <3>2. CASE \E i \in 1..r.ptr : L[r.h][i].key = r.key
      <4> PICK i \in 1..r.ptr : L[r.h][i].key = r.key
        BY <3>2
      <4>1. i \in DOMAIN L[r.h]
        BY <2>2, <1>2, <1>3 DEF Reading
      <4> QED BY <4>1, <1>4
    <3> QED BY <2>1, <2>2, <3>1, <3>2 DEF Getting
  <2>3. ASSUME r.at = "value" PROVE r.ptr \in DOMAIN M[r.h] /\ M[r.h][r.ptr].key = r.key
    <3>1. r.ptr \in DOMAIN L[r.h] /\ L[r.h][r.ptr].key = r.key
      BY <2>1, <2>3 DEF Getting
    <3> QED BY <3>1, <1>3, <1>4
  <2>4. r.at = "done" => r.res \in w.seen
    BY <2>1, <1>1 DEF Getting
  <2> QED BY <2>1, <2>2, <2>3, <2>4 DEF Getting
<1>9. ASSUME r.op = "walk" PROVE Walking(M, r, w)
  <2>1. Walking(L, r, m)
    BY <1>9 DEF Reading
  <2>2. ASSUME r.at = "test", NEW i \in DOMAIN M[r.h], i > r.ptr, M[r.h][i].key \in w.always
        PROVE  M[r.h][i].key \in r.found
    <3>1. M[r.h][i].key \in m.always
      BY <2>2, <1>1
    <3>2. LookupIn(L, M[r.h][i].key) # NULL
      BY <3>1 DEF Reading, Recorded, MappedIn
    <3>3. i \in DOMAIN L[r.h] /\ M[r.h][i].key = L[r.h][i].key
      BY <3>2, <1>4
    <3> QED BY <2>1, <2>2, <3>1, <3>3 DEF Walking
  <2> QED BY <2>1, <2>2, <1>1 DEF Walking
<1> QED BY <1>5, <1>6, <1>7, <1>8, <1>9 DEF Reading, w

\* What a call starts with.
LEMMA CallReading ==
  ASSUME NEW L, NEW r \in ReaderCalls, r.at = "head", r.found = {}, r.res = NULL,
         r.op = "get" => r.h = Hash(r.key), r.op = "walk" => r.h = 0,
         NEW m, m = [seen |-> {LookupIn(L, r.key)}, ever |-> MappedIn(L), always |-> MappedIn(L)]
  PROVE  Reading(L, r, m)
<1>1. Recorded(L, r, m)
  BY DEF Recorded
<1>2. \A k \in m.always : ~(Hash(k) < 0)
  <2> SUFFICES ASSUME NEW k \in Keys
               PROVE  ~(Hash(k) < 0)
    BY DEF MappedIn
  <2>1. Hash(k) \in 0..(Buckets - 1) /\ Buckets \in Nat
    BY HashInChains, KeyAssumption DEF Chains
  <2> QED BY <2>1
<1> QED BY <1>1, <1>2 DEF Reading, Getting, Walking

\* The head of a chain is read: all its entries are still to be looked at.
LEMMA HeadReading ==
  ASSUME NEW L, GoodChains(L), NEW r \in ReaderCalls, NEW m \in Moments, Reading(L, r, m), r.at = "head",
         NEW q \in ReaderCalls, q = [r EXCEPT !.at = "test", !.ptr = Len(L[r.h])]
  PROVE  Reading(L, q, m)
<1>1. /\ q.op = r.op /\ q.at = "test" /\ q.key = r.key /\ q.h = r.h /\ q.ptr = Len(L[r.h])
      /\ q.res = r.res /\ q.found = r.found
  BY DEF ReaderCalls
<1>2. r.h \in Chains /\ r.key \in Keys
  BY DEF ReaderCalls
<1>3. L[r.h] \in Seq(ChainEntries) /\ Len(L[r.h]) \in Nat /\ DOMAIN L[r.h] = 1..Len(L[r.h])
  BY <1>2 DEF GoodChains
<1>4. Recorded(L, q, m)
  BY <1>1 DEF Reading, Recorded
<1>5. ASSUME r.op = "get" PROVE Getting(L, q, m)
  <2>1. r.h = Hash(r.key) /\ r.res = NULL
    BY <1>5 DEF Reading, Getting
  <2>2. NULL \in m.seen \/ \E i \in DOMAIN L[r.h] : L[r.h][i].key = r.key
    <3>1. (\A i \in DOMAIN L[r.h] : L[r.h][i].key # r.key) => LookupIn(L, r.key) = NULL
      BY <1>2, <2>1, LookupOf
    <3> QED BY <3>1 DEF Reading, Recorded
  <2> QED BY <1>1, <1>3, <2>1, <2>2 DEF Getting
<1>6. ASSUME r.op = "walk" PROVE Walking(L, q, m)
  BY <1>1, <1>3, <1>6 DEF Reading, Walking
<1> QED BY <1>1, <1>3, <1>4, <1>5, <1>6 DEF Reading

\* A get looks at an entry.
LEMMA TestReading ==
  ASSUME NEW L, GoodChains(L), NEW r \in ReaderCalls, NEW m \in Moments, Reading(L, r, m),
         r.at = "test", r.op = "get", NEW q \in ReaderCalls,
         q = IF r.ptr = 0 THEN [r EXCEPT !.at = "done"]
             ELSE IF L[r.h][r.ptr].key = r.key THEN [r EXCEPT !.at = "value"]
             ELSE [r EXCEPT !.ptr = @ - 1]
  PROVE  Reading(L, q, m)
<1>1. r.h \in Chains /\ r.ptr \in Nat /\ r.ptr <= Len(L[r.h]) /\ r.op # "walk"
  BY DEF ReaderCalls, Reading
<1>2. L[r.h] \in Seq(ChainEntries) /\ Len(L[r.h]) \in Nat /\ DOMAIN L[r.h] = 1..Len(L[r.h])
  BY <1>1 DEF GoodChains
<1>3. /\ q.op = "get" /\ q.key = r.key /\ q.h = r.h /\ q.res = r.res /\ q.found = r.found
  BY DEF ReaderCalls
<1>4. Recorded(L, q, m) /\ q.found \subseteq m.ever
  BY <1>3 DEF Reading, Recorded
<1>5. Getting(L, r, m) /\ r.h = Hash(r.key) /\ r.res = NULL
  BY DEF Reading, Getting
<1>6. CASE r.ptr = 0
  <2>1. q.at = "done"
    BY <1>6 DEF ReaderCalls
  <2>2. NULL \in m.seen
    BY <1>5, <1>6 DEF Getting
  <2> QED BY <1>3, <1>4, <1>5, <2>1, <2>2 DEF Reading, Getting
<1>7. CASE r.ptr # 0 /\ L[r.h][r.ptr].key = r.key
  <2>1. q.at = "value" /\ q.ptr = r.ptr
    BY <1>7 DEF ReaderCalls
  <2>2. r.ptr \in DOMAIN L[r.h]
    BY <1>1, <1>2, <1>7
  <2> QED BY <1>3, <1>4, <1>5, <1>7, <2>1, <2>2 DEF Reading, Getting
<1>8. CASE r.ptr # 0 /\ L[r.h][r.ptr].key # r.key
  <2>1. q.at = "test" /\ q.ptr = r.ptr - 1
    BY <1>8 DEF ReaderCalls
  <2>2. NULL \in m.seen \/ \E i \in 1..r.ptr : L[r.h][i].key = r.key
    BY <1>5 DEF Getting
  <2>3. NULL \in m.seen \/ \E i \in 1..q.ptr : L[r.h][i].key = r.key
    BY <2>1, <2>2, <1>1, <1>8
  <2>4. q.ptr <= Len(L[r.h])
    BY <2>1, <1>1, <1>2
  <2> QED BY <1>3, <1>4, <1>5, <2>1, <2>3, <2>4 DEF Reading, Getting
<1> QED BY <1>6, <1>7, <1>8

\* A get loads the value of the entry it has found.
LEMMA ValueReading ==
  ASSUME NEW L, GoodChains(L), NEW r \in ReaderCalls, NEW m \in Moments, Reading(L, r, m),
         r.at = "value", NEW q \in ReaderCalls,
         q = [r EXCEPT !.at = "done", !.res = L[r.h][r.ptr].value]
  PROVE  Reading(L, q, m)
<1>1. r.op = "get" /\ Getting(L, r, m) /\ r.key \in Keys /\ r.h = Hash(r.key)
  BY DEF ReaderCalls, Reading, Walking, Getting
<1>2. /\ q.op = "get" /\ q.at = "done" /\ q.key = r.key /\ q.found = r.found
      /\ q.res = L[r.h][r.ptr].value
  BY <1>1 DEF ReaderCalls
<1>3. LookupIn(L, r.key) = L[r.h][r.ptr].value
  BY <1>1, LookupOf DEF Getting
<1>4. q.res \in m.seen
  BY <1>2, <1>3 DEF Reading, Recorded
<1> QED BY <1>2, <1>4 DEF Reading, Recorded, Getting

\* A walk counts an entry.
LEMMA EntryReading ==
  ASSUME NEW L, GoodChains(L), NEW r \in ReaderCalls, NEW m \in Moments, Reading(L, r, m),
         r.at = "test", r.op = "walk", r.ptr > 0, NEW q \in ReaderCalls,
         q = [r EXCEPT !.found = IF L[r.h][r.ptr].value # NULL THEN @ \cup {L[r.h][r.ptr].key} ELSE @,
                       !.ptr = @ - 1]
  PROVE  Reading(L, q, m)
<1> DEFINE e == L[r.h][r.ptr]
<1>1. r.h \in Chains /\ r.ptr \in Nat /\ r.ptr <= Len(L[r.h]) /\ r.op # "get"
  BY DEF ReaderCalls, Reading
<1>2. L[r.h] \in Seq(ChainEntries) /\ Len(L[r.h]) \in Nat /\ DOMAIN L[r.h] = 1..Len(L[r.h])
  BY <1>1 DEF GoodChains
<1>3. r.ptr \in DOMAIN L[r.h] /\ e.key \in Keys /\ Hash(e.key) = r.h
  <2>1. r.ptr \in DOMAIN L[r.h]
    BY <1>1, <1>2
  <2> QED BY <2>1, <1>1, <1>2, EntryOf DEF GoodChains
<1>4. LookupIn(L, e.key) = e.value
  BY <1>3, LookupOf
<1>5. /\ q.op = "walk" /\ q.at = "test" /\ q.key = r.key /\ q.h = r.h /\ q.ptr = r.ptr - 1
      /\ q.found = IF e.value # NULL THEN r.found \cup {e.key} ELSE r.found
  BY DEF ReaderCalls
<1> HIDE DEF e
<1>6. e.value # NULL => e.key \in m.ever
  BY <1>3, <1>4 DEF Reading, Recorded, MappedIn
<1>7. e.key \in m.always => e.key \in q.found
  BY <1>4, <1>5 DEF Reading, Recorded, MappedIn
<1>8. q.found \subseteq m.ever /\ r.found \subseteq q.found
  BY <1>5, <1>6 DEF Reading
<1>9. ASSUME NEW i \in DOMAIN L[r.h], i > q.ptr, L[r.h][i].key \in m.always
      PROVE  L[r.h][i].key \in q.found
  <2>1. i = r.ptr \/ i > r.ptr
    BY <1>9, <1>1, <1>2, <1>5
  <2>2. CASE i = r.ptr
    BY <2>2, <1>7, <1>9 DEF e
  <2>3. CASE i > r.ptr
    BY <2>3, <1>8, <1>9 DEF Reading, Walking
  <2> QED BY <2>1, <2>2, <2>3
<1>10. Walking(L, q, m)
  BY <1>5, <1>8, <1>9 DEF Reading, Walking
<1>11. Recorded(L, q, m) /\ q.ptr <= Len(L[q.h])
  BY <1>1, <1>2, <1>5 DEF Reading, Recorded
<1> QED BY <1>5, <1>8, <1>10, <1>11 DEF Reading

\* A walk goes on with the next chain, or ends.
LEMMA NextReading ==
  ASSUME NEW L, GoodChains(L), NEW r \in ReaderCalls, NEW m \in Moments, Reading(L, r, m),
         r.at = "test", r.op = "walk", r.ptr = 0, NEW q \in ReaderCalls,
         q = IF r.h + 1 < Buckets THEN [r EXCEPT !.at = "head", !.h = @ + 1]
             ELSE [r EXCEPT !.at = "done"]
  PROVE  Reading(L, q, m)
<1>1. r.h \in Chains /\ r.h \in Nat /\ r.h < Buckets /\ Buckets \in Nat /\ r.op # "get"
  BY KeyAssumption DEF ReaderCalls, Chains
<1>2. L[r.h] \in Seq(ChainEntries) /\ DOMAIN L[r.h] = 1..Len(L[r.h])
  BY <1>1 DEF GoodChains
<1>3. /\ q.op = "walk" /\ q.key = r.key /\ q.found = r.found /\ q.at \in {"head", "done"}
      /\ q.at = "head" => q.h = r.h + 1
      /\ q.at = "done" => ~(r.h + 1 < Buckets)
  BY DEF ReaderCalls
<1>4. ASSUME NEW k \in m.always, Hash(k) <= r.h
      PROVE  k \in r.found
  <2>1. k \in Keys /\ LookupIn(L, k) # NULL /\ Hash(k) \in Nat
    BY HashInChains, KeyAssumption DEF Reading, Recorded, MappedIn, Chains
  <2>2. CASE Hash(k) < r.h
    BY <2>2 DEF Reading, Walking
  <2>3. CASE Hash(k) = r.h
    <3>1. PICK i \in DOMAIN L[Hash(k)] : L[Hash(k)][i].key = k
      BY <2>1, LookupOf
    <3>2. i > r.ptr
      BY <3>1, <1>2, <2>3
    <3> QED BY <2>3, <3>1, <3>2 DEF Reading, Walking
  <2> QED BY <1>1, <1>4, <2>1, <2>2, <2>3
<1>5. ASSUME NEW k \in m.always, Hash(k) < q.h \/ q.at = "done"
      PROVE  k \in q.found
  <2>1. Hash(k) \in Nat /\ Hash(k) < Buckets
    BY HashInChains, KeyAssumption DEF Reading, Recorded, MappedIn, Chains
  <2>2. Hash(k) <= r.h
    BY <1>1, <1>3, <1>5, <2>1
  <2> QED BY <1>3, <1>4, <2>2
<1>6. Recorded(L, q, m) /\ q.found \subseteq m.ever
  BY <1>3 DEF Reading, Recorded
<1> QED BY <1>3, <1>5, <1>6 DEF Reading, Walking
-----------------------------------------------------------------------------
(* The invariant *)

\* The operators of the model and those about any chains are the same.
LEMMA SameLookup ==
  /\ \A k : Lookup(k) = LookupIn(list, k) /\ Lookup(k)' = LookupIn(list', k)
  /\ Mapped = MappedIn(list) /\ Mapped' = MappedIn(list')
BY DEF Lookup, LookupIn, Mapped, MappedIn

\* In the beginning the chains are empty and no call is under way.
LEMMA InitIInv == MapInit => IInv
<1> SUFFICES ASSUME MapInit PROVE IInv
  OBVIOUS
<1>1. 0 \in Chains
  BY KeyAssumption DEF Chains
<1>2. GoodChains(list)
  BY DEF MapInit, GoodChains
<1>3. MapTypeOK
  BY <1>1, <1>2 DEF MapInit, MapTypeOK, ReaderCalls, Moments, GoodChains
<1>4. \A k \in Keys : LookupIn(list, k) = NULL
  <2> SUFFICES ASSUME NEW k \in Keys
               PROVE  LookupIn(list, k) = NULL
    OBVIOUS
  <2>1. list[Hash(k)] = <<>>
    BY HashInChains DEF MapInit
  <2>2. Slots(list[Hash(k)], k) = {}
    BY <2>1 DEF Slots
  <2> QED BY <2>2 DEF LookupIn
<1>5. ASSUME NEW t \in Readers PROVE Reading(list, rd[t], hist[t])
  <2>1. /\ rd[t].op = "get" /\ rd[t].at = "done" /\ rd[t].res = NULL /\ rd[t].found = {}
        /\ rd[t].key \in Keys
        /\ hist[t] = [seen |-> {NULL}, ever |-> {}, always |-> {}]
    BY DEF MapInit
  <2> QED BY <1>4, <2>1 DEF Reading, Recorded, Getting, MappedIn
<1> QED BY <1>2, <1>3, <1>5 DEF IInv

\* A call of a writer.
LEMMA WriterIInv ==
  ASSUME IInv, NEW k \in Keys, Writer(k)
  PROVE  IInv'
<1>1. GoodChains(list') /\ Store(list, list') /\ rd' = rd /\ Observed
  BY Writes DEF IInv, Writer, Put, Remove
<1>2. ASSUME NEW t \in Readers
      PROVE  /\ hist'[t] = After(list', rd[t].key, hist[t])
             /\ hist'[t] \in Moments
             /\ Reading(list', rd'[t], hist'[t])
  <2>1. rd[t] \in ReaderCalls /\ hist[t] \in Moments /\ Reading(list, rd[t], hist[t]) /\ GoodChains(list)
    BY DEF IInv, MapTypeOK
  <2>2. hist'[t] = After(list', rd[t].key, hist[t])
    BY <1>1, SameLookup DEF Observed, After
  <2>3. LookupIn(list', rd[t].key) \in Values \cup {NULL} /\ MappedIn(list') \subseteq Keys
    BY <1>1, <2>1, LookupOf DEF ReaderCalls, MappedIn
  <2>4. hist'[t] \in Moments
    BY <2>1, <2>2, <2>3 DEF After, Moments
  <2>5. Reading(list', rd[t], hist'[t])
    BY <1>1, <2>1, <2>2, StoreReading
  <2> QED BY <1>1, <2>2, <2>4, <2>5
<1>3. MapTypeOK'
  <2>1. hist' \in [Readers -> Moments]
    BY <1>1, <1>2 DEF Observed
  <2> QED BY <1>1, <2>1 DEF IInv, MapTypeOK, GoodChains
<1> QED BY <1>1, <1>2, <1>3 DEF IInv

\* A step of a call: only what holds of that call is in question.
LEMMA OneReader ==
  ASSUME IInv, NEW t \in Readers, list' = list,
         NEW q \in ReaderCalls, rd' = [rd EXCEPT ![t] = q],
         NEW m \in Moments, hist' = [hist EXCEPT ![t] = m], Reading(list, q, m)
  PROVE  IInv'
<1>1. rd \in [Readers -> ReaderCalls] /\ hist \in [Readers -> Moments]
  BY DEF IInv, MapTypeOK
<1>2. MapTypeOK'
  BY <1>1 DEF IInv, MapTypeOK
<1>3. \A u \in Readers : Reading(list, rd'[u], hist'[u])
  BY <1>1 DEF IInv
<1> QED BY <1>2, <1>3 DEF IInv

\* A step of a reader.
LEMMA ReaderIInv ==
  ASSUME IInv, NEW t \in Readers, Reader(t)
  PROVE  IInv'
<1> DEFINE r == rd[t]
           m == hist[t]
<1>1. /\ r \in ReaderCalls /\ m \in Moments /\ Reading(list, r, m) /\ GoodChains(list)
      /\ hist \in [Readers -> Moments] /\ rd \in [Readers -> ReaderCalls]
  BY DEF IInv, MapTypeOK
<1>2. r.h \in Chains /\ r.key \in Keys /\ r.ptr \in Nat /\ r.res \in Values \cup {NULL} /\ r.found \in SUBSET Keys
  BY <1>1 DEF ReaderCalls
<1>3. list[r.h] \in Seq(ChainEntries) /\ Len(list[r.h]) \in Nat /\ DOMAIN list[r.h] = 1..Len(list[r.h])
  BY <1>1, <1>2 DEF GoodChains
<1>4. hist = [hist EXCEPT ![t] = m]
  BY <1>1
<1>5. MappedIn(list) \subseteq Keys /\ 0 \in Chains
  BY KeyAssumption DEF MappedIn, Chains
<1>6. ASSUME NEW q \in ReaderCalls, Calling(t, q), UNCHANGED list, q.at = "head", q.found = {}, q.res = NULL,
             q.op = "get" => q.h = Hash(q.key), q.op = "walk" => q.h = 0
      PROVE  IInv'
  <2> DEFINE n == [seen |-> {LookupIn(list, q.key)}, ever |-> MappedIn(list), always |-> MappedIn(list)]
  <2>1. rd' = [rd EXCEPT ![t] = q] /\ hist' = [hist EXCEPT ![t] = n]
    BY <1>6, SameLookup DEF Calling
  <2>2. LookupIn(list, q.key) \in Values \cup {NULL}
    BY <1>1, LookupOf DEF ReaderCalls
  <2>3. n \in Moments
    BY <1>5, <2>2 DEF Moments
  <2>4. Reading(list, q, n)
    BY <1>6, CallReading
  <2> HIDE DEF n
  <2> QED BY <1>6, <2>1, <2>3, <2>4, OneReader
<1>7. CASE WalkCall(t)
  <2> DEFINE q == [op |-> "walk", at |-> "head", key |-> r.key, h |-> 0, ptr |-> 0, res |-> NULL, found |-> {}]
  <2>1. q \in ReaderCalls
    BY <1>2, <1>5 DEF ReaderCalls
  <2>2. Calling(t, q) /\ UNCHANGED list
    BY <1>7 DEF WalkCall
  <2>3. /\ q.at = "head" /\ q.found = {} /\ q.res = NULL
        /\ q.op = "get" => q.h = Hash(q.key)
        /\ q.op = "walk" => q.h = 0
    OBVIOUS
  <2> HIDE DEF q
  <2> QED BY <1>6, <2>1, <2>2, <2>3
<1>8. ASSUME NEW k \in Keys, GetCall(t, k) PROVE IInv'
  <2> DEFINE q == [op |-> "get", at |-> "head", key |-> k, h |-> Hash(k), ptr |-> 0, res |-> NULL, found |-> {}]
  <2>1. q \in ReaderCalls
    BY HashInChains DEF ReaderCalls
  <2>2. Calling(t, q) /\ UNCHANGED list
    BY <1>8 DEF GetCall
  <2>3. /\ q.at = "head" /\ q.found = {} /\ q.res = NULL
        /\ q.op = "get" => q.h = Hash(q.key)
        /\ q.op = "walk" => q.h = 0
    OBVIOUS
  <2> HIDE DEF q
  <2> QED BY <1>6, <2>1, <2>2, <2>3
<1>9. ASSUME NEW q \in ReaderCalls, rd' = [rd EXCEPT ![t] = q], UNCHANGED <<list, hist>>, Reading(list, q, m)
      PROVE  IInv'
  BY <1>1, <1>4, <1>9, OneReader
<1>10. CASE LoadHead(t)
  <2> DEFINE q == [r EXCEPT !.at = "test", !.ptr = Len(list[r.h])]
  <2>1. q \in ReaderCalls
    BY <1>1, <1>3 DEF ReaderCalls
  <2>2. r.at = "head" /\ rd' = [rd EXCEPT ![t] = q] /\ UNCHANGED <<list, hist>>
    BY <1>10 DEF LoadHead
  <2>3. Reading(list, q, m)
    BY <1>1, <2>1, <2>2, HeadReading
  <2> HIDE DEF q
  <2> QED BY <1>9, <2>1, <2>2, <2>3
<1>11. CASE GetTest(t)
  <2> DEFINE q == IF r.ptr = 0 THEN [r EXCEPT !.at = "done"]
                  ELSE IF list[r.h][r.ptr].key = r.key THEN [r EXCEPT !.at = "value"]
                  ELSE [r EXCEPT !.ptr = @ - 1]
  <2>1. q \in ReaderCalls
    <3>1. r.ptr # 0 => r.ptr - 1 \in Nat
      BY <1>2
    <3>2. r.ptr # 0 => [r EXCEPT !.ptr = @ - 1] \in ReaderCalls
      BY <1>1, <3>1 DEF ReaderCalls
    <3>3. [r EXCEPT !.at = "done"] \in ReaderCalls /\ [r EXCEPT !.at = "value"] \in ReaderCalls
      BY <1>1 DEF ReaderCalls
    <3> QED BY <3>2, <3>3
  <2>2. r.at = "test" /\ r.op = "get" /\ rd' = [rd EXCEPT ![t] = q] /\ UNCHANGED <<list, hist>>
    BY <1>11 DEF GetTest, Here
  <2>3. Reading(list, q, m)
    BY <1>1, <2>1, <2>2, TestReading
  <2> HIDE DEF q
  <2> QED BY <1>9, <2>1, <2>2, <2>3
<1>12. CASE GetValue(t)
  <2> DEFINE q == [r EXCEPT !.at = "done", !.res = list[r.h][r.ptr].value]
  <2>1. r.at = "value" /\ rd' = [rd EXCEPT ![t] = q] /\ UNCHANGED <<list, hist>>
    BY <1>12 DEF GetValue, Here
  <2>2. r.ptr \in DOMAIN list[r.h]
    BY <1>1, <2>1 DEF ReaderCalls, Reading, Getting, Walking
  <2>3. q \in ReaderCalls
    <3>1. list[r.h][r.ptr].value \in Values \cup {NULL}
      BY <1>3, <2>2, EntryOf
    <3> QED BY <1>1, <3>1 DEF ReaderCalls
  <2>4. Reading(list, q, m)
    BY <1>1, <2>1, <2>3, ValueReading
  <2> HIDE DEF q
  <2> QED BY <1>9, <2>1, <2>3, <2>4
<1>13. CASE WalkEntry(t)
  <2> DEFINE q == [r EXCEPT !.found = IF list[r.h][r.ptr].value # NULL
                                      THEN @ \cup {list[r.h][r.ptr].key} ELSE @,
                            !.ptr = @ - 1]
  <2>1. /\ r.at = "test" /\ r.op = "walk" /\ r.ptr > 0
        /\ rd' = [rd EXCEPT ![t] = q] /\ UNCHANGED <<list, hist>>
    BY <1>13 DEF WalkEntry, Here
  <2>2. r.ptr \in DOMAIN list[r.h]
    BY <1>1, <1>2, <1>3, <2>1 DEF Reading
  <2>3. q \in ReaderCalls
    <3>1. list[r.h][r.ptr].key \in Keys
      BY <1>3, <2>2, EntryOf
    <3>2. r.ptr - 1 \in Nat
      BY <1>2, <2>1
    <3> DEFINE f == IF list[r.h][r.ptr].value # NULL
                    THEN r.found \cup {list[r.h][r.ptr].key} ELSE r.found
    <3>3. f \in SUBSET Keys /\ q = [r EXCEPT !.found = f, !.ptr = r.ptr - 1]
      BY <1>2, <3>1
    <3> HIDE DEF f, q
    <3> QED BY <1>1, <3>2, <3>3 DEF ReaderCalls
  <2>4. Reading(list, q, m)
    BY <1>1, <2>1, <2>3, EntryReading
  <2> HIDE DEF q
  <2> QED BY <1>9, <2>1, <2>3, <2>4
<1>14. CASE WalkNext(t)
  <2> DEFINE q == IF r.h + 1 < Buckets THEN [r EXCEPT !.at = "head", !.h = @ + 1]
                  ELSE [r EXCEPT !.at = "done"]
  <2>1. /\ r.at = "test" /\ r.op = "walk" /\ r.ptr = 0
        /\ rd' = [rd EXCEPT ![t] = q] /\ UNCHANGED <<list, hist>>
    BY <1>14 DEF WalkNext
  <2>2. q \in ReaderCalls
    <3>1. r.h + 1 < Buckets => r.h + 1 \in Chains
      BY <1>2, KeyAssumption DEF Chains
    <3> QED BY <1>1, <3>1 DEF ReaderCalls
  <2>3. Reading(list, q, m)
    BY <1>1, <2>1, <2>2, NextReading
  <2> HIDE DEF q
  <2> QED BY <1>9, <2>1, <2>2, <2>3
<1> QED BY <1>7, <1>8, <1>10, <1>11, <1>12, <1>13, <1>14 DEF Reader

\* Every step keeps the invariant.
LEMMA NextIInv == IInv /\ [MapNext]_mapvars => IInv'
<1> SUFFICES ASSUME IInv, [MapNext]_mapvars PROVE IInv'
  OBVIOUS
<1>1. CASE \E k \in Keys : Writer(k)
  BY <1>1, WriterIInv
<1>2. CASE \E t \in Readers : Reader(t)
  BY <1>2, ReaderIInv
<1>3. CASE UNCHANGED mapvars
  BY <1>3 DEF mapvars, IInv, MapTypeOK
<1> QED BY <1>1, <1>2, <1>3 DEF MapNext

\* The invariant holds in every state.
LEMMA Invariant == MapSpec => []IInv
BY InitIInv, NextIInv, PTL DEF MapSpec
-----------------------------------------------------------------------------
(* The theorems *)

\* A hashmap_get() without the lock, whatever is written meanwhile, returns a
\* value that the key had at some moment of the call.
THEOREM GetIsCurrent == MapSpec => []GetsCurrent
<1>1. IInv => GetsCurrent
  BY DEF IInv, Reading, Getting, GetsCurrent
<1> QED BY <1>1, Invariant, PTL

\* A walk without the lock, whatever is written meanwhile, passes over no key
\* that has a value all along and shows none that has one at no moment.
THEOREM WalkIsComplete == MapSpec => []WalksAll
<1>1. IInv => WalksAll
  BY DEF IInv, Reading, Walking, WalksAll
<1> QED BY <1>1, Invariant, PTL

\* Every step of the HASHMAP is a step of a map or leaves the map as it is.
LEMMA StepRefines == IInv /\ [MapNext]_mapvars => [Map!Next]_(Map!vars)
<1> SUFFICES ASSUME IInv, [MapNext]_mapvars PROVE [Map!Next]_(Map!vars)
  OBVIOUS
<1> DEFINE map == [q \in Keys |-> Lookup(q)]
<1>1. Map!vars = map /\ Map!vars' = map'
  BY DEF Map!vars
<1>2. map = [q \in Keys |-> LookupIn(list, q)] /\ map' = [q \in Keys |-> LookupIn(list', q)]
  BY SameLookup
<1>3. ASSUME NEW k \in Keys, NEW v \in Values, Put(k, v)
      PROVE  Map!Next
  <2>1. \A q \in Keys : LookupIn(list', q) = IF q = k THEN v ELSE LookupIn(list, q)
    BY <1>3, Writes DEF IInv
  <2>2. map' = [map EXCEPT ![k] = v]
    BY <1>2, <2>1
  <2> QED BY <2>2 DEF Map!Next, Map!Put
<1>4. ASSUME NEW k \in Keys, Remove(k)
      PROVE  Map!Next
  <2>1. \A q \in Keys : LookupIn(list', q) = IF q = k THEN NULL ELSE LookupIn(list, q)
    BY <1>4, Writes DEF IInv
  <2>2. map' = [map EXCEPT ![k] = NULL]
    BY <1>2, <2>1
  <2> QED BY <2>2 DEF Map!Next, Map!Remove
<1>5. ASSUME list' = list
      PROVE  UNCHANGED Map!vars
  BY <1>1, <1>2, <1>5
<1>6. CASE UNCHANGED mapvars
  BY <1>5, <1>6 DEF mapvars
<1>7. ASSUME NEW t \in Readers, Reader(t)
      PROVE  list' = list
  BY <1>7 DEF Reader, WalkCall, GetCall, LoadHead, GetTest, GetValue, WalkEntry, WalkNext
<1> QED BY <1>3, <1>4, <1>5, <1>6, <1>7 DEF MapNext, Writer

\* Chains, entries that stay with a cleared value, and prepending: to its
\* callers a HASHMAP is a map from keys to values.
THEOREM IsMap == MapSpec => RefinesMap
<1>1. MapInit => Map!Init
  <2> SUFFICES ASSUME MapInit PROVE Map!Init
    OBVIOUS
  <2>1. \A k \in Keys : Lookup(k) = NULL
    <3> TAKE k \in Keys
    <3>1. list[Hash(k)] = <<>>
      BY HashInChains DEF MapInit
    <3>2. Slots(list[Hash(k)], k) = {}
      BY <3>1 DEF Slots
    <3> QED BY <3>2 DEF Lookup
  <2> QED BY <2>1 DEF Map!Init
<1> QED BY <1>1, Invariant, StepRefines, PTL DEF MapSpec, RefinesMap, Map!Spec
-----------------------------------------------------------------------------
(* The list of proxies and its ARRAYLIST *)

\* The steps of all containers include those of the HASHMAP alone, and those of
\* the list of proxies alone.
THEOREM TablesAreContainers == TablesSpec => MapSpec /\ TableSpec
<1>1. TablesInit => MapInit /\ TableInit
  BY DEF TablesInit
<1>2. [TablesNext]_<<mapvars, table, others>> => [MapNext]_mapvars
  BY DEF TablesNext, Ended, Registered, Aged, MapStep, Pooled
<1>3. [TablesNext]_<<mapvars, table, others>> => [TableNext]_table
  BY DEF TablesNext, Ended, Registered, Aged, MapStep, Pooled, TableNext
<1> QED BY <1>1, <1>2, <1>3, PTL DEF TablesSpec, MapSpec, TableSpec

\* The table is a list of proxies.  The ARRAYLIST holds the same entries and has
\* its first capacity, or it has overwritten items and is longer than that.
ListSound ==
    /\ table \in Seq(Entries(Addrs, Nat)) /\ Unique(table)
    /\ \/ Len(table) <= InitialCapacity /\ al = [list |-> table, capacity |-> InitialCapacity]
       \/ Len(table) > InitialCapacity /\ Junk \in {al.list[k] : k \in DOMAIN al.list}

\* A registration keeps it: the address after the first capacity writes over
\* the items that are there.
LEMMA RegisteredListSound == ListSound /\ Registered => ListSound'
<1> SUFFICES ASSUME ListSound, Registered PROVE ListSound'
  OBVIOUS
<1>1. PICK a \in Addrs, n \in 0..MaxClients :
        table' = Register(table, Proxy(a, n)) /\ ListRegister(Proxy(a, n))
  BY DEF Registered
<1> DEFINE p == Proxy(a, n)
           same == {k \in DOMAIN table : table[k].addr = p.addr}
           m == CHOOSE k \in same : \A j \in same : k <= j
<1>2. p \in Entries(Addrs, Nat)
  <2>1. n \in Nat
    BY MCTablesAssumption
  <2> QED BY <2>1 DEF Proxy, Entries
<1>3. table' \in Seq(Entries(Addrs, Nat)) /\ Unique(table')
  BY <1>1, <1>2, RegisterKeeps DEF ListSound
<1>4. /\ Len(table) <= InitialCapacity /\ al = [list |-> table, capacity |-> InitialCapacity]
      /\ InitialCapacity \in Nat \ {0} /\ Len(table) \in Nat
  BY MCTablesAssumption DEF ListSound, Registered
<1>5. table' = IF same = {} THEN Append(table, p) ELSE [table EXCEPT ![m] = p]
  BY <1>1 DEF Register
<1>6. al' = IF same = {} THEN ListAdd(al, p) ELSE ListSet(al, m, p)
  BY <1>1, <1>4 DEF ListRegister
<1> HIDE DEF p, m
<1>7. CASE same # {}
  <2>1. al' = [list |-> table', capacity |-> InitialCapacity]
    BY <1>4, <1>5, <1>6, <1>7 DEF ListSet
  <2>2. Len(table') = Len(table)
    BY <1>5, <1>7 DEF ListSound
  <2> QED BY <1>3, <1>4, <2>1, <2>2 DEF ListSound
<1>8. CASE same = {} /\ Len(table) < InitialCapacity
  <2>1. al' = [list |-> table', capacity |-> InitialCapacity]
    BY <1>4, <1>5, <1>6, <1>8 DEF ListAdd
  <2>2. Len(table') <= InitialCapacity
    BY <1>4, <1>5, <1>8 DEF ListSound
  <2> QED BY <1>3, <2>1, <2>2 DEF ListSound
<1>9. CASE same = {} /\ ~ (Len(table) < InitialCapacity)
  <2>1. Len(table') > InitialCapacity
    BY <1>4, <1>5, <1>9 DEF ListSound
  <2> DEFINE overwritten == [k \in DOMAIN table |-> Junk]
  <2>2. al'.list = Append(overwritten, p)
    BY <1>4, <1>6, <1>9 DEF ListAdd
  <2>3. overwritten \in Seq({Junk}) /\ 1 \in DOMAIN overwritten /\ overwritten[1] = Junk
    BY <1>4, <1>9 DEF ListSound
  <2> HIDE DEF overwritten
  <2>4. 1 \in DOMAIN Append(overwritten, p) /\ Append(overwritten, p)[1] = Junk
    BY <2>3
  <2> QED BY <1>3, <2>1, <2>2, <2>4 DEF ListSound
<1> QED BY <1>7, <1>8, <1>9

\* So does the passing of time, which is for both the same.
LEMMA AgedListSound == ListSound /\ Aged => ListSound'
<1> SUFFICES ASSUME ListSound, Aged PROVE ListSound'
  OBVIOUS
<1>1. PICK k \in DOMAIN table : table' = [table EXCEPT ![k].fresh = FALSE] /\ al' = ListSet(al, k, table'[k])
  BY DEF Aged
<1>2. Len(table) <= InitialCapacity /\ al = [list |-> table, capacity |-> InitialCapacity]
  BY DEF ListSound, Aged
<1>3. k \in 1..Len(table) /\ table[k] \in Entries(Addrs, Nat)
  BY DEF ListSound
<1> DEFINE q == [table[k] EXCEPT !.fresh = FALSE]
<1>4. q \in Entries(Addrs, Nat) /\ q.addr = table[k].addr
  BY <1>3 DEF Entries
<1>5. table' = [table EXCEPT ![k] = q]
  BY <1>1
<1> HIDE DEF q
<1>6. /\ table' \in Seq(Entries(Addrs, Nat)) /\ Len(table') = Len(table)
      /\ \A j \in DOMAIN table : table'[j].addr = table[j].addr
      /\ DOMAIN table' = DOMAIN table /\ table'[k] = q
  BY <1>3, <1>4, <1>5 DEF ListSound
<1>7. Unique(table')
  BY <1>6 DEF ListSound, Unique
<1>8. al' = [list |-> table', capacity |-> InitialCapacity]
  BY <1>1, <1>2, <1>5, <1>6 DEF ListSet
<1> QED BY <1>2, <1>6, <1>7, <1>8 DEF ListSound

\* It holds in every state.
LEMMA ListAlwaysSound == TablesSpec => []ListSound
<1>1. TablesInit => ListSound
  <2> SUFFICES ASSUME TablesInit PROVE ListSound
    OBVIOUS
  <2>1. table = <<>> /\ al = [list |-> <<>>, capacity |-> InitialCapacity]
    BY DEF TablesInit, TableInit, NewList
  <2>2. table \in Seq(Entries(Addrs, Nat)) /\ Len(table) = 0 /\ DOMAIN table = {}
    BY <2>1
  <2>3. Unique(table)
    BY <2>2 DEF Unique
  <2> QED BY <2>1, <2>2, <2>3, MCTablesAssumption DEF ListSound
<1>2. ListSound /\ [TablesNext]_<<mapvars, table, others>> => ListSound'
  <2>1. ListSound /\ UNCHANGED <<table, al>> => ListSound'
    BY DEF ListSound
  <2> QED BY <2>1, RegisteredListSound, AgedListSound
        DEF TablesNext, Ended, MapStep, Pooled, others
<1> QED BY <1>1, <1>2, PTL DEF TablesSpec

\* The list that register_proxy() keeps in an ARRAYLIST is the table exactly as
\* long as no more addresses are in it than the list was made for.
THEOREM ListIsTableUpToCapacity == TablesSpec => []ListIsTable
<1>1. ListSound => ListIsTable
  <2> SUFFICES ASSUME ListSound PROVE ListIsTable
    OBVIOUS
  <2>1. \A k \in DOMAIN table : table[k] # Junk
    BY MCTablesAssumption DEF ListSound
  <2>2. Len(table) \in Nat /\ InitialCapacity \in Nat
    BY MCTablesAssumption DEF ListSound
  <2>3. CASE Len(table) <= InitialCapacity /\ al = [list |-> table, capacity |-> InitialCapacity]
    BY <2>3 DEF ListIsTable
  <2>4. CASE Len(table) > InitialCapacity /\ Junk \in {al.list[k] : k \in DOMAIN al.list}
    BY <2>1, <2>2, <2>4 DEF ListIsTable
  <2> QED BY <2>3, <2>4 DEF ListSound
<1> QED BY <1>1, ListAlwaysSound, PTL

\* For any list that registrations can build, of any length: one entry for an
\* address, and a search that keeps its promise for every set of reported
\* addresses.
THEOREM TablesSearched == TablesSpec => [](UniqueAddresses /\ ChoosesWell)
<1>1. ListSound => UniqueAddresses /\ ChoosesWell
  BY AddrAssumption, FindChoosesWell DEF ListSound, UniqueAddresses, ChoosesWell
<1> QED BY <1>1, ListAlwaysSound, PTL
-----------------------------------------------------------------------------
(* The pool of sockets *)

Items == [sock : Socks, bound : BOOLEAN]

\* The items in the order of their sockets, no two of one socket.
Ascending(data) == \A j, k \in 1..Len(data) : j < k => data[j].sock < data[k].sock

\* Where the item of socket s is, or 0: what a search from the first item to
\* the last comes to.
PlaceOf(data, s, at) ==
    \/ at = 0 /\ \A j \in 1..Len(data) : data[j].sock # s
    \/ at \in 1..Len(data) /\ data[at].sock = s

Ranges(data) == (1..(Len(data) + 1)) \X (0..Len(data))

\* One step of the binary search for socket s in the range r, with the answers
\* f of the steps after it.
SearchStep(f, data, s, r) ==
    LET mid == (r[1] + r[2]) \div 2
    IN  IF r[1] > r[2] THEN 0
        ELSE IF s - data[mid].sock < 0 THEN f[<<r[1], mid - 1>>]
        ELSE IF s - data[mid].sock > 0 THEN f[<<mid + 1, r[2]>>]
        ELSE mid

Searches(f, data, s) == f = [r \in Ranges(data) |-> SearchStep(f, data, s, r)]

\* The answer in a range: the place, if it is inside.
Within(at, r) == IF r[1] <= at /\ at <= r[2] THEN at ELSE 0

\* The items of a pool have sockets, and these are numbers.
LEMMA ItemSock ==
  ASSUME NEW data \in Seq(Items)
  PROVE  /\ Len(data) \in Nat
         /\ \A j \in 1..Len(data) : data[j] \in Items /\ data[j].sock \in Nat
<1>1. \A j \in 1..Len(data) : data[j] \in Items
  OBVIOUS
<1>2. \A i \in Items : i.sock \in Nat
  BY MCTablesAssumption DEF Items
<1>3. Len(data) \in Nat
  OBVIOUS
<1> QED BY <1>1, <1>2, <1>3

\* A step keeps to the range: the item in the middle tells on which side of it
\* the socket is.
LEMMA StepWithin ==
  ASSUME NEW data \in Seq(Items), Ascending(data), NEW s \in Nat,
         NEW at, PlaceOf(data, s, at), NEW f, NEW r \in Ranges(data),
         \A q \in Ranges(data) :
           q[2] - q[1] < r[2] - r[1] => f[q] = Within(at, q)
  PROVE  SearchStep(f, data, s, r) = Within(at, r)
<1> DEFINE lo == r[1]
           hi == r[2]
           mid == (lo + hi) \div 2
<1>1. lo \in 1..(Len(data) + 1) /\ hi \in 0..Len(data) /\ Len(data) \in Nat /\ at \in 0..Len(data)
  BY ItemSock DEF Ranges, PlaceOf
<1>2. CASE lo > hi
  BY <1>1, <1>2 DEF SearchStep, Within
<1>3. CASE lo <= hi
  <2>1. mid \in 1..Len(data) /\ lo <= mid /\ mid <= hi
    BY <1>1, <1>3
  <2>2. data[mid].sock \in Nat
    BY <2>1, ItemSock
  <2>3. \A j \in 1..Len(data) : /\ j < mid => data[j].sock < data[mid].sock
                                /\ j > mid => data[mid].sock < data[j].sock
    BY <2>1 DEF Ascending
  <2>4. SearchStep(f, data, s, r) =
          IF s - data[mid].sock < 0 THEN f[<<lo, mid - 1>>]
          ELSE IF s - data[mid].sock > 0 THEN f[<<mid + 1, hi>>]
          ELSE mid
    BY <1>1, <1>3 DEF SearchStep
  <2> DEFINE left == <<lo, mid - 1>>
             right == <<mid + 1, hi>>
  <2>5. left \in Ranges(data) /\ left[1] = lo /\ left[2] = mid - 1 /\ left[2] - left[1] < hi - lo
    <3>1. mid - 1 \in 0..Len(data) /\ (mid - 1) - lo < hi - lo
      BY <1>1, <2>1
    <3> QED BY <1>1, <3>1 DEF Ranges
  <2>6. right \in Ranges(data) /\ right[1] = mid + 1 /\ right[2] = hi /\ right[2] - right[1] < hi - lo
    <3>1. mid + 1 \in 1..(Len(data) + 1) /\ hi - (mid + 1) < hi - lo
      BY <1>1, <2>1
    <3> QED BY <1>1, <3>1 DEF Ranges
  <2>7. f[left] = Within(at, left) /\ f[right] = Within(at, right)
    BY <2>5, <2>6
  <2> HIDE DEF left, right, mid
  <2>11. at # 0 => at \in 1..Len(data) /\ data[at].sock = s
    BY DEF PlaceOf
  <2>8. CASE s < data[mid].sock
    <3>1. at < mid
      BY <1>1, <2>1, <2>2, <2>3, <2>8, ItemSock DEF PlaceOf
    <3>2. SearchStep(f, data, s, r) = f[left]
      BY <2>2, <2>4, <2>8 DEF left
    <3> QED BY <1>1, <2>1, <2>5, <2>7, <3>1, <3>2 DEF Within
  <2>9. CASE s > data[mid].sock
    <3>1. at = 0 \/ at > mid
      <4>1. SUFFICES ASSUME at # 0 PROVE at > mid
        BY <1>1
      <4>2. at \in 1..Len(data) /\ data[at].sock = s
        BY <2>11, <4>1
      <4>3. ~ (at < mid) /\ at # mid
        BY <2>2, <2>3, <2>9, <4>2
      <4> QED BY <1>1, <2>1, <4>2, <4>3
    <3>2. SearchStep(f, data, s, r) = f[right]
      BY <2>2, <2>4, <2>9 DEF right
    <3> QED BY <1>1, <2>1, <2>6, <2>7, <3>1, <3>2 DEF Within
  <2>10. CASE s = data[mid].sock
    <3>1. at = mid
      <4>1. at # 0 /\ at \in 1..Len(data) /\ data[at].sock = s
        <5>1. ~ \A j \in 1..Len(data) : data[j].sock # s
          BY <2>1, <2>10
        <5>2. at \in 1..Len(data) /\ data[at].sock = s
          BY <5>1 DEF PlaceOf
        <5> QED BY <1>1, <5>2
      <4>2. ~ (at < mid) /\ ~ (at > mid)
        BY <2>2, <2>3, <2>10, <4>1
      <4> QED BY <1>1, <2>1, <4>1, <4>2
    <3>2. SearchStep(f, data, s, r) = mid
      BY <2>2, <2>4, <2>10
    <3> QED BY <1>1, <2>1, <3>1, <3>2 DEF Within
  <2> QED BY <2>2, <2>8, <2>9, <2>10
<1> QED BY <1>1, <1>2, <1>3

\* Some function makes these steps.
LEMMA SearchExists ==
  ASSUME NEW data \in Seq(Items), Ascending(data), NEW s \in Nat,
         NEW at, PlaceOf(data, s, at)
  PROVE  \E f : Searches(f, data, s)
<1> DEFINE f == [r \in Ranges(data) |-> Within(at, r)]
<1>1. \A r \in Ranges(data) : SearchStep(f, data, s, r) = Within(at, r)
  <2> TAKE r \in Ranges(data)
  <2>1. \A q \in Ranges(data) : q[2] - q[1] < r[2] - r[1] => f[q] = Within(at, q)
    OBVIOUS
  <2> HIDE DEF f
  <2> QED BY <2>1, StepWithin
<1>2. Searches(f, data, s)
  BY <1>1 DEF Searches
<1> QED BY <1>2

\* And every one that does comes to the place: the shortest range in which it
\* does not would be one where a step fails.
LEMMA SearchWithin ==
  ASSUME NEW data \in Seq(Items), Ascending(data), NEW s \in Nat,
         NEW at, PlaceOf(data, s, at), NEW f, Searches(f, data, s)
  PROVE  \A r \in Ranges(data) : f[r] = Within(at, r)
<1> DEFINE Length(r) == r[2] + Len(data) + 1 - r[1]
           wrong == {r \in Ranges(data) : f[r] # Within(at, r)}
           lengths == {Length(r) : r \in wrong}
<1>1. SUFFICES ASSUME wrong # {} PROVE FALSE
  OBVIOUS
<1>2. \A r \in Ranges(data) : r[1] \in Nat /\ r[2] \in Nat /\ Length(r) \in Nat
  BY ItemSock DEF Ranges
<1>3. lengths \in SUBSET Nat /\ lengths # {}
  BY <1>1, <1>2
<1>4. PICK r \in wrong : \A q \in wrong : Length(r) <= Length(q)
  <2> HIDE DEF Length, wrong
  <2>1. PICK n \in lengths : \A x \in lengths : n <= x
    BY <1>3, LeastExists
  <2> QED BY <2>1
<1>5. \A q \in Ranges(data) : q[2] - q[1] < r[2] - r[1] => f[q] = Within(at, q)
  <2> SUFFICES ASSUME NEW q \in Ranges(data), q[2] - q[1] < r[2] - r[1], q \in wrong PROVE FALSE
    OBVIOUS
  <2>1. Length(r) <= Length(q)
    BY <1>4
  <2>2. r[1] \in Nat /\ r[2] \in Nat /\ q[1] \in Nat /\ q[2] \in Nat /\ Len(data) \in Nat
    <3>1. r \in Ranges(data) /\ Len(data) \in Nat
      BY <1>4, ItemSock
    <3> HIDE DEF wrong, Length
    <3> QED BY <1>2, <3>1
  <2>3. r[2] + Len(data) + 1 - r[1] <= q[2] + Len(data) + 1 - q[1]
    BY <2>1
  <2>4. \A a, b, c, d, n \in Nat : c - d < a - b => ~ (a + n + 1 - b <= c + n + 1 - d)
    OBVIOUS
  <2> HIDE DEF wrong, Length
  <2> QED BY <2>2, <2>3, <2>4
<1>6. SearchStep(f, data, s, r) = Within(at, r)
  BY <1>4, <1>5, StepWithin
<1>7. f[r] = SearchStep(f, data, s, r)
  BY <1>4 DEF Searches
<1> QED BY <1>4, <1>6, <1>7

\* bsearch() finds the place of the socket if there is one.
LEMMA BSearchFinds ==
  ASSUME NEW data \in Seq(Items), Ascending(data), NEW key \in Items
  PROVE  PlaceOf(data, key.sock, P!BSearch(data, key))
<1> DEFINE s == key.sock
           found == CHOOSE f : Searches(f, data, s)
<1>1. s \in Nat
  BY MCTablesAssumption DEF Items
<1>2. PICK at : PlaceOf(data, s, at)
  <2>1. CASE \E j \in 1..Len(data) : data[j].sock = s
    BY <2>1 DEF PlaceOf
  <2>2. CASE ~ \E j \in 1..Len(data) : data[j].sock = s
    BY <2>2 DEF PlaceOf
  <2> QED BY <2>1, <2>2
<1>3. P!BSearch(data, key) = found[<<1, Len(data)>>]
  BY DEF P!BSearch, Searches, SearchStep, Ranges, CompareSockets
<1> HIDE DEF s
<1>4. Searches(found, data, s)
  BY <1>1, <1>2, SearchExists
<1> HIDE DEF found
<1>5. <<1, Len(data)>> \in Ranges(data) /\ Len(data) \in Nat
  BY ItemSock DEF Ranges
<1>6. found[<<1, Len(data)>>] = at
  <2>1. found[<<1, Len(data)>>] = Within(at, <<1, Len(data)>>)
    BY <1>1, <1>2, <1>4, <1>5, SearchWithin
  <2> QED BY <1>2, <1>5, <2>1 DEF Within, PlaceOf
<1> QED BY <1>2, <1>3, <1>6 DEF s

\* The permutations that qsort() may make of items.
Sortings(items) ==
    LET places == 1..Len(items)
    IN  {p \in P!Bijection(places, places) :
           \A i, j \in places : i < j => CompareSockets(items[p[i]], items[p[j]]) <= 0}

\* Behind items that are in order there is one more: some permutation brings
\* it to its place.
LEMMA SortingExists ==
  ASSUME NEW data \in Seq(Items), Ascending(data), NEW key \in Items,
         \A j \in 1..Len(data) : data[j].sock # key.sock
  PROVE  Sortings(Append(data, key)) # {}
<1> DEFINE items == Append(data, key)
           N == Len(data) + 1
           above == {i \in 1..N : i = N \/ key.sock < data[i].sock}
<1>1. /\ Len(data) \in Nat /\ N \in Nat /\ Len(items) = N
      /\ key.sock \in Nat /\ \A j \in 1..Len(data) : data[j].sock \in Nat
      /\ items[N] = key /\ \A j \in 1..Len(data) : items[j] = data[j]
  <2>1. key.sock \in Nat
    BY MCTablesAssumption DEF Items
  <2> QED BY <2>1, ItemSock
<1>2. PICK c \in above : \A i \in above : c <= i
  <2>1. above \in SUBSET Nat /\ N \in above
    BY <1>1
  <2> HIDE DEF above
  <2> QED BY <2>1, LeastExists
<1>3. c \in 1..N /\ \A j \in 1..Len(data) : /\ j < c => data[j].sock < key.sock
                                            /\ j >= c => key.sock < data[j].sock
  <2>1. c \in 1..N
    BY <1>2
  <2>2. ASSUME NEW j \in 1..Len(data), j < c PROVE data[j].sock < key.sock
    <3>1. j \in 1..N /\ j \notin above
      BY <1>1, <1>2, <2>1, <2>2
    <3>2. ~ (key.sock < data[j].sock)
      BY <3>1
    <3> QED BY <1>1, <3>2
  <2>3. ASSUME NEW j \in 1..Len(data), j >= c PROVE key.sock < data[j].sock
    <3>1. c # N /\ c \in 1..Len(data)
      BY <1>1, <2>1, <2>3
    <3>2. key.sock < data[c].sock
      BY <1>2, <3>1
    <3>3. c = j \/ data[c].sock < data[j].sock
      BY <2>1, <2>3, <3>1 DEF Ascending
    <3> QED BY <1>1, <3>1, <3>2, <3>3
  <2> QED BY <2>1, <2>2, <2>3
<1> HIDE DEF above
<1> DEFINE p == [i \in 1..N |-> IF i < c THEN i ELSE IF i = c THEN N ELSE i - 1]
<1>4. p \in P!Bijection(1..N, 1..N)
  <2>1. p \in [1..N -> 1..N]
    BY <1>1, <1>3
  <2>2. \A i, j \in 1..N : p[i] = p[j] => i = j
    BY <1>1, <1>3
  <2>3. ASSUME NEW w \in 1..N PROVE \E i \in 1..N : p[i] = w
    <3>1. CASE w = N
      BY <1>1, <1>3, <3>1
    <3>2. CASE w < c
      BY <1>1, <1>3, <3>2
    <3>3. CASE w # N /\ w >= c
      <4>1. w + 1 \in 1..N /\ p[w + 1] = w
        BY <1>1, <1>3, <3>3
      <4> QED BY <4>1
    <3> QED BY <1>1, <1>3, <3>1, <3>2, <3>3
  <2> HIDE DEF p
  <2> QED BY <2>1, <2>2, <2>3 DEF P!Bijection, P!Injection, P!Surjection, P!IsInjective
<1>5. ASSUME NEW i \in 1..N, NEW j \in 1..N, i < j
      PROVE  CompareSockets(items[p[i]], items[p[j]]) <= 0
  <2>1. \A x \in 1..N : items[p[x]] = IF x < c THEN data[x] ELSE IF x = c THEN key ELSE data[x - 1]
    <3> TAKE x \in 1..N
    <3>1. CASE x < c
      BY <1>1, <1>3, <3>1
    <3>2. CASE x = c
      BY <1>1, <1>3, <3>2
    <3>3. CASE x > c
      BY <1>1, <1>3, <3>3
    <3> QED BY <1>1, <1>3, <3>1, <3>2, <3>3
  <2> HIDE DEF p, items
  <2>2. items[p[i]].sock < items[p[j]].sock /\ items[p[i]].sock \in Nat /\ items[p[j]].sock \in Nat
    <3>1. CASE j < c
      <4>1. i \in 1..Len(data) /\ j \in 1..Len(data) /\ i < c
        BY <1>1, <1>3, <1>5, <3>1
      <4>2. items[p[i]] = data[i] /\ items[p[j]] = data[j]
        BY <2>1, <3>1, <4>1
      <4> QED BY <1>1, <1>5, <4>1, <4>2 DEF Ascending
    <3>2. CASE j = c
      <4>1. i \in 1..Len(data) /\ i < c
        BY <1>1, <1>3, <1>5, <3>2
      <4>2. items[p[i]] = data[i] /\ items[p[j]] = key
        BY <1>3, <2>1, <3>2, <4>1
      <4> QED BY <1>1, <1>3, <4>1, <4>2
    <3>3. CASE j > c
      <4>1. j - 1 \in 1..Len(data) /\ j - 1 >= c /\ ~ (j < c) /\ j # c
        BY <1>1, <1>3, <3>3
      <4>2. items[p[j]] = data[j - 1] /\ key.sock < data[j - 1].sock
        BY <1>3, <2>1, <4>1
      <4>3. CASE i < c
        <5>1. i \in 1..Len(data) /\ i < j - 1
          BY <1>1, <1>3, <3>3, <4>3
        <5>2. items[p[i]] = data[i]
          BY <2>1, <4>3
        <5> QED BY <1>1, <4>1, <4>2, <5>1, <5>2 DEF Ascending
      <4>4. CASE i = c
        <5>1. items[p[i]] = key
          BY <1>3, <2>1, <4>4
        <5> QED BY <1>1, <4>1, <4>2, <5>1
      <4>5. CASE i > c
        <5>1. i - 1 \in 1..Len(data) /\ i - 1 < j - 1 /\ ~ (i < c) /\ i # c
          BY <1>1, <1>3, <1>5, <4>5
        <5>2. items[p[i]] = data[i - 1]
          BY <2>1, <5>1
        <5> QED BY <1>1, <4>1, <4>2, <5>1, <5>2 DEF Ascending
      <4> QED BY <1>3, <4>3, <4>4, <4>5
    <3> QED BY <1>3, <3>1, <3>2, <3>3
  <2> QED BY <2>2 DEF CompareSockets
<1> HIDE DEF p, items
<1>6. p \in Sortings(items)
  BY <1>1, <1>4, <1>5 DEF Sortings
<1> QED BY <1>6 DEF items

\* qsort() keeps the items and puts them in their order.
LEMMA SortAdds ==
  ASSUME NEW data \in Seq(Items), Ascending(data), NEW key \in Items,
         \A j \in 1..Len(data) : data[j].sock # key.sock,
         NEW new, new = P!Qsort(Append(data, key))
  PROVE  /\ new \in Seq(Items) /\ Len(new) = Len(data) + 1 /\ Ascending(new)
         /\ \A k \in 1..Len(new) : new[k] = key \/ \E j \in 1..Len(data) : new[k] = data[j]
         /\ \E k \in 1..Len(new) : new[k] = key
         /\ \A j \in 1..Len(data) : \E k \in 1..Len(new) : new[k] = data[j]
<1> DEFINE items == Append(data, key)
           N == Len(data) + 1
           order == CHOOSE p \in P!Bijection(1..Len(items), 1..Len(items)) :
                      \A i, j \in 1..Len(items) : i < j => CompareSockets(items[p[i]], items[p[j]]) <= 0
<1>1. new = [i \in 1..Len(items) |-> items[order[i]]]
  BY DEF P!Qsort
<1>2. order \in Sortings(items)
  BY SortingExists DEF Sortings
<1> HIDE DEF order
<1>3. /\ Len(data) \in Nat /\ N \in Nat /\ Len(items) = N
      /\ items[N] = key /\ \A j \in 1..Len(data) : items[j] = data[j]
  OBVIOUS
<1>4. items \in Seq(Items) /\ \A i \in 1..N : items[i] \in Items /\ items[i].sock \in Nat
  <2>1. items \in Seq(Items)
    OBVIOUS
  <2> HIDE DEF items
  <2> QED BY <1>3, <2>1, ItemSock
<1>5. \A i, j \in 1..N : items[i].sock = items[j].sock => i = j
  <2>1. \A i, j \in 1..Len(data) : data[i].sock = data[j].sock => i = j
    <3> SUFFICES ASSUME NEW i \in 1..Len(data), NEW j \in 1..Len(data), i < j
                 PROVE  data[i].sock # data[j].sock
      BY <1>3
    <3>1. data[i].sock < data[j].sock
      BY DEF Ascending
    <3> QED BY <3>1, ItemSock
  <2> HIDE DEF items
  <2>2. \A i \in 1..N : i = N \/ i \in 1..Len(data)
    BY <1>3
  <2> QED BY <1>3, <2>1, <2>2
<1> HIDE DEF items, N
<1>6. /\ order \in [1..N -> 1..N]
      /\ \A i, j \in 1..N : order[i] = order[j] => i = j
      /\ \A w \in 1..N : \E i \in 1..N : order[i] = w
      /\ \A i, j \in 1..N : i < j => CompareSockets(items[order[i]], items[order[j]]) <= 0
  <2>1. /\ order \in P!Injection(1..N, 1..N) /\ order \in P!Surjection(1..N, 1..N)
        /\ \A i, j \in 1..N : i < j => CompareSockets(items[order[i]], items[order[j]]) <= 0
    BY <1>2, <1>3 DEF Sortings, P!Bijection
  <2>2. order \in [1..N -> 1..N] /\ \A w \in 1..N : \E i \in 1..N : order[i] = w
    BY <2>1 DEF P!Surjection
  <2>3. \A i, j \in 1..N : order[i] = order[j] => i = j
    BY <2>1 DEF P!Injection, P!IsInjective
  <2> QED BY <2>1, <2>2, <2>3
<1>7. new = [i \in 1..N |-> items[order[i]]] /\ new \in [1..N -> Items]
  <2>1. new = [i \in 1..N |-> items[order[i]]]
    BY <1>1, <1>3
  <2>2. \A i \in 1..N : order[i] \in 1..N
    BY <1>6
  <2>3. \A i \in 1..N : items[order[i]] \in Items
    BY <1>4, <2>2
  <2> QED BY <2>1, <2>3
<1>8. new \in Seq(Items) /\ Len(new) = N
  BY <1>3, <1>7
<1>9. Ascending(new)
  <2> SUFFICES ASSUME NEW i \in 1..N, NEW j \in 1..N, i < j
               PROVE  new[i].sock < new[j].sock
    BY <1>8 DEF Ascending
  <2> DEFINE x == order[i]
             y == order[j]
  <2>1. x \in 1..N /\ y \in 1..N /\ x # y
    <3>1. x \in 1..N /\ y \in 1..N
      BY <1>6
    <3>2. i # j
      OBVIOUS
    <3> QED BY <1>6, <3>1, <3>2
  <2>2. CompareSockets(items[x], items[y]) <= 0
    BY <1>6
  <2>3. new[i] = items[x] /\ new[j] = items[y]
    BY <1>7
  <2> HIDE DEF x, y
  <2>4. items[x].sock \in Nat /\ items[y].sock \in Nat /\ items[x].sock # items[y].sock
    BY <1>4, <1>5, <2>1
  <2> QED BY <2>2, <2>3, <2>4 DEF CompareSockets
<1>10. N = Len(data) + 1 /\ N \in 1..N /\ \A i \in 1..N : i = N \/ i \in 1..Len(data)
  BY <1>3 DEF N
<1>11. ASSUME NEW k \in 1..N PROVE new[k] = key \/ \E j \in 1..Len(data) : new[k] = data[j]
  <2>1. order[k] \in 1..N /\ new[k] = items[order[k]]
    BY <1>6, <1>7
  <2>2. order[k] = N \/ order[k] \in 1..Len(data)
    BY <1>10, <2>1
  <2> QED BY <1>3, <2>1, <2>2
<1>12. \A w \in 1..N : \E k \in 1..N : new[k] = items[w]
  BY <1>6, <1>7
<1>13. \E k \in 1..N : new[k] = key
  BY <1>3, <1>10, <1>12
<1>14. ASSUME NEW j \in 1..Len(data) PROVE \E k \in 1..N : new[k] = data[j]
  <2>1. j \in 1..N /\ items[j] = data[j]
    BY <1>3, <1>10
  <2> QED BY <1>12, <2>1
<1> QED BY <1>8, <1>9, <1>10, <1>11, <1>13, <1>14

\* The items are those stored last: one for each socket that was added.
Matches(data, st) ==
    /\ \A s \in Socks : st[s] # NULL => \E k \in 1..Len(data) : data[k].sock = s
    /\ \A k \in 1..Len(data) : st[data[k].sock] = data[k]

\* The pool is in order, has room for its items, and holds what was stored.
PoolSound ==
    /\ pool = [data |-> pool.data, capacity |-> pool.capacity]
    /\ pool.data \in Seq(Items) /\ Ascending(pool.data)
    /\ pool.capacity \in Nat \ {0} /\ Len(pool.data) <= pool.capacity
    /\ stored \in [Socks -> Items \cup {NULL}]
    /\ Matches(pool.data, stored)

\* vector_bsearch() with a replacement and an item to add keeps it.
LEMMA PooledSound == PoolSound /\ Pooled => PoolSound'
<1> SUFFICES ASSUME PoolSound, Pooled PROVE PoolSound'
  OBVIOUS
<1>1. PICK s \in Socks, b \in BOOLEAN, add \in BOOLEAN :
        /\ pool' = P!VectorBSearch(pool, Item(s, b), Item(s, b), add)
        /\ stored' = IF add \/ stored[s] # NULL THEN [stored EXCEPT ![s] = Item(s, b)] ELSE stored
  BY DEF Pooled
<1> DEFINE key == Item(s, b)
           data == pool.data
           k == P!BSearch(data, key)
<1>2. key \in Items /\ key.sock = s /\ s \in Nat /\ NULL \notin Items
  BY MCTablesAssumption DEF Item, Items
<1>3. /\ data \in Seq(Items) /\ Ascending(data) /\ Len(data) \in Nat
      /\ stored \in [Socks -> Items \cup {NULL}] /\ Matches(data, stored)
      /\ pool.capacity \in Nat \ {0} /\ Len(data) <= pool.capacity
      /\ pool = [data |-> data, capacity |-> pool.capacity]
  BY DEF PoolSound
<1>4. PlaceOf(data, s, k)
  BY <1>2, <1>3, BSearchFinds
<1>5. pool' = IF k # 0 THEN [pool EXCEPT !.data[k] = SetSocketFields(@, key)]
              ELSE IF add THEN P!VectorAdd(pool, key) ELSE pool
  BY <1>1 DEF P!VectorBSearch
<1> HIDE DEF k, key, data
<1>6. \A j \in 1..Len(data) : data[j] \in Items /\ data[j].sock \in Socks /\ stored[data[j].sock] = data[j]
  <2>1. \A j \in 1..Len(data) : data[j] \in Items
    BY <1>3
  <2>2. \A i \in Items : i.sock \in Socks
    BY DEF Items
  <2> QED BY <1>3, <2>1, <2>2 DEF Matches
<1>7. stored' \in [Socks -> Items \cup {NULL}]
  BY <1>1, <1>2, <1>3 DEF key
<1>8. CASE k # 0
  <2>1. k \in 1..Len(data) /\ data[k].sock = s /\ data[k] \in Items /\ stored[s] # NULL
    BY <1>2, <1>4, <1>6, <1>8 DEF PlaceOf
  <2>2. SetSocketFields(data[k], key) = key
    BY <2>1 DEF SetSocketFields, key, Item, Items
  <2> DEFINE new == [data EXCEPT ![k] = key]
  <2>3. pool' = [data |-> new, capacity |-> pool.capacity]
    <3>1. pool' = [pool EXCEPT !.data = [data EXCEPT ![k] = SetSocketFields(data[k], key)]]
      BY <1>3, <1>5, <1>8, <2>1 DEF data
    <3> QED BY <1>3, <2>2, <3>1
  <2>4. stored' = [stored EXCEPT ![s] = key]
    BY <1>1, <2>1 DEF key
  <2>5. /\ new \in Seq(Items) /\ Len(new) = Len(data)
        /\ \A j \in 1..Len(data) : new[j] = IF j = k THEN key ELSE data[j]
    BY <1>2, <1>3, <2>1
  <2> HIDE DEF new
  <2>6. \A j \in 1..Len(data) : new[j].sock = data[j].sock
    BY <1>2, <2>1, <2>5
  <2>7. Ascending(new)
    BY <1>3, <2>5, <2>6 DEF Ascending
  <2>8. Matches(new, stored')
    <3>1. ASSUME NEW t \in Socks, stored'[t] # NULL
          PROVE  \E j \in 1..Len(new) : new[j].sock = t
      <4>1. stored[t] # NULL
        BY <1>3, <2>1, <2>4, <3>1
      <4> QED BY <1>3, <2>5, <2>6, <4>1 DEF Matches
    <3>2. ASSUME NEW j \in 1..Len(new) PROVE stored'[new[j].sock] = new[j]
      <4>1. j \in 1..Len(data) /\ data[j].sock \in Socks /\ stored[data[j].sock] = data[j]
        BY <1>6, <2>5, <3>2
      <4>2. CASE data[j].sock = s
        <5>1. j = k
          <6>1. data[j] = data[k]
            BY <1>6, <2>1, <4>1, <4>2
          <6>2. ~ (j < k) /\ ~ (k < j)
            BY <1>2, <1>3, <2>1, <4>1, <4>2 DEF Ascending
          <6> QED BY <1>3, <2>1, <4>1, <6>2
        <5> QED BY <1>2, <1>3, <2>4, <2>5, <4>1, <5>1
      <4>3. CASE data[j].sock # s
        <5>1. new[j] = data[j]
          BY <2>1, <2>5, <4>1, <4>3
        <5> QED BY <1>3, <2>4, <4>1, <4>3, <5>1
      <4> QED BY <4>2, <4>3
    <3> QED BY <3>1, <3>2 DEF Matches
  <2>9. pool'.data = new /\ pool'.capacity = pool.capacity
    BY <2>3
  <2> QED BY <1>3, <1>7, <2>3, <2>5, <2>7, <2>8, <2>9 DEF PoolSound
<1>9. CASE k = 0 /\ add
  <2>1. \A j \in 1..Len(data) : data[j].sock # s
    BY <1>4, <1>9 DEF PlaceOf
  <2> DEFINE new == P!Qsort(Append(data, key))
             room == IF pool.capacity < Len(data) + 1 THEN pool.capacity * 2 ELSE pool.capacity
  <2>2. pool' = [data |-> new, capacity |-> room]
    <3>1. P!UpsizeVector(pool) = [data |-> data, capacity |-> room]
      BY <1>3 DEF P!UpsizeVector, data
    <3>2. P!VectorAdd(pool, key) = [data |-> new, capacity |-> room]
      BY <3>1 DEF P!VectorAdd
    <3> QED BY <1>5, <1>9, <3>2
  <2>3. room \in Nat \ {0} /\ Len(data) + 1 <= room
    BY <1>3
  <2> HIDE DEF new, room
  <2>4. /\ new \in Seq(Items) /\ Len(new) = Len(data) + 1 /\ Ascending(new)
        /\ \A j \in 1..Len(new) : new[j] = key \/ \E i \in 1..Len(data) : new[j] = data[i]
        /\ \E j \in 1..Len(new) : new[j] = key
        /\ \A i \in 1..Len(data) : \E j \in 1..Len(new) : new[j] = data[i]
    BY <1>2, <1>3, <2>1, SortAdds DEF new
  <2>5. stored' = [stored EXCEPT ![s] = key]
    BY <1>1, <1>9 DEF key
  <2>6. ASSUME NEW t \in Socks, stored'[t] # NULL
        PROVE  \E j \in 1..Len(new) : new[j].sock = t
    <3>1. CASE t = s
      BY <1>2, <2>4, <3>1
    <3>2. CASE t # s
      <4>1. stored[t] # NULL
        BY <1>3, <2>5, <2>6, <3>2
      <4>2. PICK i \in 1..Len(data) : data[i].sock = t
        BY <1>3, <4>1 DEF Matches
      <4>3. PICK j \in 1..Len(new) : new[j] = data[i]
        BY <2>4
      <4> QED BY <4>2, <4>3
    <3> QED BY <3>1, <3>2
  <2>7. ASSUME NEW j \in 1..Len(new) PROVE stored'[new[j].sock] = new[j]
    <3>1. CASE new[j] = key
      BY <1>2, <1>3, <2>5, <3>1
    <3>2. ASSUME NEW i \in 1..Len(data), new[j] = data[i] PROVE stored'[new[j].sock] = new[j]
      <4>1. data[i].sock \in Socks /\ data[i].sock # s /\ stored[data[i].sock] = data[i]
        BY <1>6, <2>1
      <4> QED BY <1>3, <2>5, <3>2, <4>1
    <3> QED BY <2>4, <3>1, <3>2
  <2>8. Matches(new, stored')
    BY <2>6, <2>7 DEF Matches
  <2>9. pool'.data = new /\ pool'.capacity = room
    BY <2>2
  <2> QED BY <1>7, <2>2, <2>3, <2>4, <2>8, <2>9 DEF PoolSound
<1>10. CASE k = 0 /\ ~ add
  <2>1. stored[s] = NULL
    BY <1>3, <1>4, <1>10 DEF PlaceOf, Matches
  <2>2. pool' = pool /\ stored' = stored
    BY <1>1, <1>5, <1>10, <2>1
  <2> QED BY <2>2 DEF PoolSound
<1> QED BY <1>8, <1>9, <1>10

\* It holds in every state.
LEMMA PoolAlwaysSound == TablesSpec => []PoolSound
<1>1. TablesInit => PoolSound
  <2> SUFFICES ASSUME TablesInit PROVE PoolSound
    OBVIOUS
  <2>1. pool = [data |-> <<>>, capacity |-> 1] /\ stored = [s \in Socks |-> NULL]
    BY DEF TablesInit, P!CreateVector
  <2>2. pool.data = <<>> /\ pool.capacity = 1
    BY <2>1
  <2>3. pool.data \in Seq(Items) /\ Len(pool.data) = 0
    BY <2>2
  <2>4. Ascending(pool.data) /\ Matches(pool.data, stored)
    BY <2>1, <2>3 DEF Ascending, Matches
  <2> QED BY <2>1, <2>2, <2>3, <2>4 DEF PoolSound
<1>2. PoolSound /\ [TablesNext]_<<mapvars, table, others>> => PoolSound'
  <2>1. PoolSound /\ UNCHANGED <<pool, stored>> => PoolSound'
    BY DEF PoolSound
  <2> QED BY <2>1, PooledSound DEF TablesNext, Ended, Registered, Aged, MapStep, others
<1> QED BY <1>1, <1>2, PTL DEF TablesSpec

\* A pool of any size: the binary search finds a socket exactly if it was added,
\* with what was stored for it last, and the items stay within their memory.
THEOREM PoolAlwaysFinds == TablesSpec => []PoolFinds
<1>1. PoolSound => PoolFinds
  <2> SUFFICES ASSUME PoolSound PROVE PoolFinds
    OBVIOUS
  <2> DEFINE data == pool.data
  <2>1. /\ data \in Seq(Items) /\ Ascending(data) /\ Len(data) \in Nat
        /\ Matches(data, stored) /\ Len(data) <= pool.capacity
    BY DEF PoolSound
  <2>2. P!WellFormed(pool)
    <3>1. ASSUME NEW j \in DOMAIN data, NEW k \in DOMAIN data, j < k
          PROVE  CompareSockets(data[j], data[k]) < 0
      <4>1. j \in 1..Len(data) /\ k \in 1..Len(data)
        BY <2>1
      <4>2. data[j].sock < data[k].sock /\ data[j].sock \in Nat /\ data[k].sock \in Nat
        BY <2>1, <3>1, <4>1, ItemSock DEF Ascending
      <4> QED BY <4>2 DEF CompareSockets
    <3> QED BY <2>1, <3>1 DEF P!WellFormed
  <2>3. ASSUME NEW s \in Socks
        PROVE  LET key == Item(s, FALSE)
               IN  /\ P!VectorHas(pool, key) <=> stored[s] # NULL
                   /\ P!VectorHas(pool, key) => P!VectorFind(pool, key) = stored[s]
    <3> DEFINE key == Item(s, FALSE)
               k == P!BSearch(data, key)
    <3>0. SUFFICES /\ P!VectorHas(pool, key) <=> stored[s] # NULL
                   /\ P!VectorHas(pool, key) => P!VectorFind(pool, key) = stored[s]
      OBVIOUS
    <3>1. key \in Items /\ key.sock = s /\ NULL \notin Items
      BY MCTablesAssumption DEF Item, Items
    <3>2. PlaceOf(data, s, k)
      BY <2>1, <3>1, BSearchFinds
    <3>3. P!VectorHas(pool, key) = (k # 0) /\ P!VectorFind(pool, key) = data[k]
      BY DEF P!VectorHas, P!VectorFind
    <3> HIDE DEF key, k, data
    <3>4. CASE k # 0
      <4>1. k \in 1..Len(data) /\ data[k].sock = s
        BY <3>2, <3>4 DEF PlaceOf
      <4>2. stored[s] = data[k] /\ data[k] \in Items
        BY <2>1, <4>1 DEF Matches
      <4> QED BY <3>1, <3>3, <3>4, <4>2
    <3>5. CASE k = 0
      <4>1. stored[s] = NULL
        BY <2>1, <3>2, <3>5 DEF PlaceOf, Matches
      <4> QED BY <3>3, <3>5, <4>1
    <3> QED BY <3>4, <3>5
  <2> QED BY <2>2, <2>3 DEF PoolFinds
<1> QED BY <1>1, PoolAlwaysSound, PTL
=============================================================================
