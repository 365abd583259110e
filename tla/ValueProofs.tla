----------------------------- MODULE ValueProofs -----------------------------
(***************************************************************************)
(* Facts about the values that several components work on.  The operations *)
(* on MASTER_FD keep the bounds exact, for every set of positive descriptor*)
(* numbers; register_proxy() and find_proxy() do what they promise for a   *)
(* list of any length.                                                     *)
(***************************************************************************)
EXTENDS MasterSet, ProxyTable, WellFoundedInduction, TLAPS

\* The order of the naturals as a relation.
Below == {ss \in Nat \X Nat : ss[1] < ss[2]}

\* The order of the naturals is well founded.
LEMMA BelowWellFounded == IsWellFoundedOn(Below, Nat)
  BY NatLessThanWellFounded DEF Below, OpToRel

\* A non-empty set of naturals has a least element.
LEMMA LeastExists ==
  ASSUME NEW S \in SUBSET Nat, S # {}
  PROVE  \E m \in S : \A x \in S : m <= x
<1>1. PICK m \in S : \A y \in S : ~ (<<y, m>> \in Below)
  BY BelowWellFounded, WFMin
<1>2. \A y \in S : ~ (y < m)
  BY <1>1 DEF Below
<1>. QED BY <1>2

\* A non-empty bounded set of naturals has a greatest element.
LEMMA GreatestExists ==
  ASSUME NEW S \in SUBSET Nat, S # {}, NEW b \in Nat, \A x \in S : x <= b
  PROVE  \E m \in S : \A x \in S : x <= m
<1>. DEFINE T == {b - x : x \in S}
<1>1. T \in SUBSET Nat /\ T # {}
  <2>1. \A x \in S : x \in Nat /\ b - x \in Nat
    OBVIOUS
  <2>2. PICK x \in S : TRUE
    OBVIOUS
  <2>3. b - x \in T
    OBVIOUS
  <2>. QED BY <2>1, <2>3
<1>2. PICK t \in T : \A y \in T : t <= y
  BY <1>1, LeastExists
<1>3. PICK m \in S : t = b - m
  BY <1>2
<1>4. ASSUME NEW x \in S PROVE x <= m
  <2>1. b - x \in T
    OBVIOUS
  <2>2. b - m <= b - x
    BY <1>2, <1>3, <2>1
  <2>. QED BY <2>2
<1>. QED BY <1>4

-----------------------------------------------------------------------------
(* MASTER_FD *)

\* Min picks the least element.
LEMMA MinOfSet ==
  ASSUME NEW S \in SUBSET Nat, S # {}
  PROVE  Min(S) \in S /\ \A x \in S : Min(S) <= x
  BY LeastExists DEF Min

\* Max picks the greatest element.
LEMMA MaxOfSet ==
  ASSUME NEW S \in SUBSET Nat, S # {}, NEW b \in Nat, \A x \in S : x <= b
  PROVE  Max(S) \in S /\ \A x \in S : x <= Max(S)
  BY GreatestExists DEF Max

\* Every loop over fdmin..fdmax sees all of the sets.
Covered(m) == \A fd \in Watched(m) : m.fdmin <= fd /\ fd <= m.fdmax

\* The fields of a master have their types.
LEMMA MasterTypes ==
  ASSUME NEW F \in SUBSET (Nat \ {0}), NEW m \in Masters(F)
  PROVE  /\ m.fdmin \in Nat /\ m.fdmax \in Nat
         /\ Watched(m) \in SUBSET F
<1>1. F \cup {0} \subseteq Nat
  OBVIOUS
<1>2. m.fdmin \in F \cup {0} /\ m.fdmax \in F \cup {0}
  BY DEF Masters
<1>3. Watched(m) \in SUBSET F
  BY DEF Masters, Watched
<1>. QED BY <1>1, <1>2, <1>3

\* init_master() leaves the empty master.
LEMMA InitMasterExact ==
  ASSUME NEW F
  PROVE  InitMaster \in Masters(F) /\ Watched(InitMaster) = {} /\ Exact(InitMaster)
  BY DEF InitMaster, Masters, Watched, Exact, Kinds

\* add_socket() keeps a master a master, and its bounds exact.
LEMMA AddSocketExact ==
  ASSUME NEW F \in SUBSET (Nat \ {0}), NEW m \in Masters(F), NEW fd \in F,
         NEW flags \in SUBSET Kinds, flags # {}
  PROVE  /\ AddSocket(m, fd, flags) \in Masters(F)
         /\ Watched(AddSocket(m, fd, flags)) = Watched(m) \cup {fd}
         /\ Exact(m) => Exact(AddSocket(m, fd, flags))
<1>. DEFINE n == AddSocket(m, fd, flags)
<1>1. n \in Masters(F)
  BY DEF AddSocket, Masters, SetBits, LowerBound, UpperBound
<1>2. Watched(n) = Watched(m) \cup {fd}
  BY DEF AddSocket, Masters, SetBits, Watched
<1>3. n.fdmin = LowerBound(m.fdmin, fd) /\ n.fdmax = UpperBound(m.fdmax, fd)
  BY DEF AddSocket
<1>4. Watched(m) \subseteq Nat \ {0} /\ m.fdmin \in Nat /\ m.fdmax \in Nat
  BY MasterTypes
<1>5. ASSUME Exact(m) PROVE Exact(n)
  <2>. HIDE DEF n
  <2>. QED BY <1>2, <1>3, <1>4, <1>5 DEF Exact, LowerBound, UpperBound
<1>. QED BY <1>1, <1>2, <1>5

\* calc_min_max() makes the bounds exact whenever the old ones cover the sets.
LEMMA CalcMinMaxExact ==
  ASSUME NEW F \in SUBSET (Nat \ {0}), NEW m \in Masters(F)
  PROVE  /\ CalcMinMax(m) \in Masters(F)
         /\ Covered(m) => Exact(CalcMinMax(m))
<1>. DEFINE seen == InBounds(m)
            n == CalcMinMax(m)
<1>1. seen \in SUBSET F /\ seen \in SUBSET Nat
  BY DEF InBounds, Masters, Watched
<1>2. m.fdmax \in Nat /\ m.fdmin \in Nat /\ \A x \in seen : x <= m.fdmax
  BY MasterTypes DEF InBounds
<1>3. seen # {} => /\ Min(seen) \in seen /\ \A x \in seen : Min(seen) <= x
                   /\ Max(seen) \in seen /\ \A x \in seen : x <= Max(seen)
  <2>. HIDE DEF seen
  <2>. QED BY <1>1, <1>2, MinOfSet, MaxOfSet
<1>4. /\ n.set = m.set
      /\ n.fdmin = IF seen = {} THEN 0 ELSE Min(seen)
      /\ n.fdmax = IF seen = {} THEN 0 ELSE Max(seen)
      /\ n = [set |-> n.set, fdmin |-> n.fdmin, fdmax |-> n.fdmax]
  BY DEF CalcMinMax
<1>5. n \in Masters(F)
  <2>1. n.set \in [Kinds -> SUBSET F]
    BY <1>4 DEF Masters
  <2>2. n.fdmin \in F \cup {0} /\ n.fdmax \in F \cup {0}
    <3>. HIDE DEF seen, n
    <3>. QED BY <1>1, <1>3, <1>4
  <2>. HIDE DEF n
  <2>. QED BY <1>4, <2>1, <2>2 DEF Masters
<1>6. ASSUME Covered(m) PROVE Exact(n)
  <2>1. seen = Watched(m) /\ Watched(n) = Watched(m)
    BY <1>4, <1>6 DEF Covered, InBounds, Watched
  <2>. HIDE DEF seen, n
  <2>. QED BY <1>3, <1>4, <2>1 DEF Exact
<1>. QED BY <1>5, <1>6

\* rm_socket() and walk_master() keep a master a master, and its bounds exact.
LEMMA RmSocketExact ==
  ASSUME NEW F \in SUBSET (Nat \ {0}), NEW m \in Masters(F), NEW fd \in F,
         NEW flags \in SUBSET Kinds
  PROVE  /\ RmSocket(m, fd, flags) \in Masters(F)
         /\ Exact(m) => Exact(RmSocket(m, fd, flags))
<1>. DEFINE c == [set   |-> ClearBits(m.set, fd, flags),
                  fdmin |-> m.fdmin, fdmax |-> m.fdmax]
<1>1. c \in Masters(F)
  BY DEF Masters, ClearBits
<1>2. Watched(m) \ {fd} \subseteq Watched(c) /\ Watched(c) \subseteq Watched(m)
  BY DEF Masters, ClearBits, Watched
<1>3. RmSocket(m, fd, flags) = IF fd \in Watched(c) THEN c ELSE CalcMinMax(c)
  BY DEF RmSocket
<1>4. c.fdmin = m.fdmin /\ c.fdmax = m.fdmax
  OBVIOUS
<1>. HIDE DEF c
<1>5. CASE fd \in Watched(c)
  <2>1. Watched(c) = Watched(m)
    BY <1>2, <1>5
  <2>. QED BY <1>1, <1>3, <1>4, <1>5, <2>1 DEF Exact
<1>6. CASE fd \notin Watched(c)
  <2>1. Exact(m) => Covered(c)
    BY <1>2, <1>4 DEF Exact, Covered
  <2>. QED BY <1>1, <1>3, <1>6, <2>1, CalcMinMaxExact
<1>. QED BY <1>5, <1>6

\* walk_master() keeps a master a master, and its bounds exact.
LEMMA WalkMasterExact ==
  ASSUME NEW F \in SUBSET (Nat \ {0}), NEW m \in Masters(F), NEW dropped \in SUBSET F
  PROVE  /\ WalkMaster(m, dropped) \in Masters(F)
         /\ Exact(m) => Exact(WalkMaster(m, dropped))
<1>. DEFINE c == [set   |-> [k \in Kinds |-> m.set[k] \ dropped],
                  fdmin |-> m.fdmin, fdmax |-> m.fdmax]
<1>1. c \in Masters(F)
  BY DEF Masters
<1>2. Watched(c) \subseteq Watched(m) /\ c.fdmin = m.fdmin /\ c.fdmax = m.fdmax
  BY DEF Masters, Watched
<1>3. WalkMaster(m, dropped) = IF dropped = {} THEN m ELSE CalcMinMax(c)
  BY DEF WalkMaster
<1>. HIDE DEF c
<1>4. Exact(m) => Covered(c)
  BY <1>2 DEF Exact, Covered
<1>. QED BY <1>1, <1>3, <1>4, CalcMinMaxExact
-----------------------------------------------------------------------------
(* The list of proxies *)

\* What one turn makes of what was found before, when entry k is looked at or not.
Turn(f, k, t, bad, ks) == IF k \in ks THEN Consider(f, t[k], bad) ELSE f

\* f is what was found after each turn, up to the m-th.
Turns(f, m, t, bad, ks) ==
    f = [k \in 0..m |-> IF k = 0 THEN NothingFound ELSE Turn(f[k - 1], k, t, bad, ks)]

\* The loop has a value after each turn.
LEMMA TurnsExist ==
  ASSUME NEW t, NEW bad, NEW ks, NEW n \in Nat
  PROVE  \E f : Turns(f, n, t, bad, ks)
<1>. DEFINE S == {m \in Nat : ~ \E f : Turns(f, m, t, bad, ks)}
<1>1. SUFFICES ASSUME S # {} PROVE FALSE
  OBVIOUS
<1>2. PICK m \in S : \A x \in S : m <= x
  BY <1>1, LeastExists
<1>3. CASE m = 0
  <2>. DEFINE f == [k \in 0..0 |-> NothingFound]
  <2>1. Turns(f, 0, t, bad, ks)
    BY DEF Turns
  <2>. QED BY <1>2, <1>3, <2>1
<1>4. CASE m # 0
  <2>1. m \in Nat /\ m - 1 \in Nat /\ m - 1 \notin S
    BY <1>2, <1>4
  <2>2. PICK g : Turns(g, m - 1, t, bad, ks)
    BY <2>1
  <2>. DEFINE f == [k \in 0..m |-> IF k = m THEN Turn(g[m - 1], m, t, bad, ks) ELSE g[k]]
  <2>3. ASSUME NEW k \in 0..m
        PROVE  f[k] = IF k = 0 THEN NothingFound ELSE Turn(f[k - 1], k, t, bad, ks)
    <3>1. CASE k = m
      <4>1. f[k] = Turn(g[m - 1], m, t, bad, ks) /\ f[k - 1] = g[m - 1]
        BY <1>4, <2>1, <3>1
      <4>. QED BY <1>4, <3>1, <4>1
    <3>2. CASE k # m
      <4>1. k \in 0..m - 1 /\ f[k] = g[k] /\ (k # 0 => f[k - 1] = g[k - 1])
        BY <2>1, <3>2
      <4>2. g[k] = IF k = 0 THEN NothingFound ELSE Turn(g[k - 1], k, t, bad, ks)
        BY <4>1, <2>2 DEF Turns
      <4>. QED BY <4>1, <4>2
    <3>. QED BY <3>1, <3>2
  <2>4. Turns(f, m, t, bad, ks)
    BY <2>3 DEF Turns
  <2>. QED BY <1>2, <2>4
<1>. QED BY <1>3, <1>4

\* A pass is the last of its turns.
LEMMA PassTurns ==
  ASSUME NEW t, NEW bad, NEW ks, Len(t) \in Nat
  PROVE  \E f : /\ f[0] = NothingFound
                /\ \A k \in 1..Len(t) : f[k] = Turn(f[k - 1], k, t, bad, ks)
                /\ Pass(t, bad, ks) = f[Len(t)]
<1>. DEFINE f == CHOOSE g : Turns(g, Len(t), t, bad, ks)
<1>1. Turns(f, Len(t), t, bad, ks)
  BY TurnsExist
<1>2. Pass(t, bad, ks) = f[Len(t)]
  BY DEF Pass, Turns, Turn
<1>. HIDE DEF f
<1>3. f[0] = NothingFound
  BY <1>1 DEF Turns
<1>4. ASSUME NEW k \in 1..Len(t) PROVE f[k] = Turn(f[k - 1], k, t, bad, ks)
  BY <1>1 DEF Turns
<1>. QED BY <1>2, <1>3, <1>4

\* What was found after k turns among the entries of ks: nothing while there was
\* none; then one of them, with no load above that of another not reported bad,
\* and itself reported bad only if it was the first.
Found(f, k, t, bad, ks) ==
    LET seen == {j \in ks : j <= k}
    IN  IF seen = {} THEN f = NothingFound
        ELSE \E b \in seen :
               /\ f = TakenFrom(t[b])
               /\ \A j \in seen : /\ t[j].addr \notin bad => t[b].nclients <= t[j].nclients
                                  /\ t[b].addr \in bad => b <= j

\* One more turn keeps it.
LEMMA TurnFinds ==
  ASSUME NEW t, NEW bad, NEW ks \in SUBSET (Nat \ {0}), \A j \in ks : t[j].nclients \in Nat,
         NEW k \in Nat \ {0}, NEW f, Found(f, k - 1, t, bad, ks)
  PROVE  Found(Turn(f, k, t, bad, ks), k, t, bad, ks)
<1>. DEFINE old == {j \in ks : j <= k - 1}
            new == {j \in ks : j <= k}
<1>0. \A j \in ks : j \in Nat /\ (j <= k <=> j <= k - 1 \/ j = k)
  <2>1. ASSUME NEW j \in ks PROVE j \in Nat /\ (j <= k <=> j <= k - 1 \/ j = k)
    <3>1. j \in Nat
      OBVIOUS
    <3>. QED BY <3>1
  <2>. QED BY <2>1
<1>1. CASE k \notin ks
  <2>1. new = old
    BY <1>0, <1>1
  <2>. QED BY <1>1, <2>1 DEF Found, Turn
<1>2. CASE k \in ks
  <2>1. new = old \cup {k} /\ k \notin old /\ (\A j \in old : j < k) /\ new # {} /\ t[k].nclients \in Nat
    <3>1. \A j \in old : j < k
      BY <1>0
    <3>2. k \notin old /\ k \in new
      BY <1>2, <3>1
    <3>. QED BY <1>0, <1>2, <3>1, <3>2
  <2>. DEFINE g == Consider(f, t[k], bad)
  <2>2. Turn(f, k, t, bad, ks) = g
    BY <1>2 DEF Turn
  <2>3. CASE old = {}
    <3>1. f = NothingFound
      BY <2>3 DEF Found
    <3>2. g = TakenFrom(t[k])
      BY <3>1 DEF Consider, NothingFound
    <3>3. \A j \in new : j = k
      BY <2>1, <2>3
    <3>. HIDE DEF g
    <3>. QED BY <2>1, <2>2, <3>2, <3>3 DEF Found
  <2>4. CASE old # {}
    <3>1. PICK b \in old : /\ f = TakenFrom(t[b])
                           /\ \A j \in old : /\ t[j].addr \notin bad => t[b].nclients <= t[j].nclients
                                             /\ t[b].addr \in bad => b <= j
      BY <2>4 DEF Found
    <3>2. t[b].nclients \in Nat /\ f.nclients = t[b].nclients /\ f.nclients # -1 /\ b < k /\ b \in Nat
      BY <2>1, <3>1 DEF TakenFrom
    <3>3. CASE t[b].nclients > t[k].nclients /\ t[k].addr \notin bad
      <4>1. g = TakenFrom(t[k])
        BY <3>2, <3>3 DEF Consider
      <4>2. ASSUME NEW j \in new
            PROVE  /\ t[j].addr \notin bad => t[k].nclients <= t[j].nclients
                   /\ t[k].addr \in bad => k <= j
        <5>1. t[j].nclients \in Nat
          OBVIOUS
        <5>2. CASE j = k
          BY <5>1, <5>2, <3>3
        <5>3. CASE j \in old
          BY <5>1, <5>3, <2>1, <3>1, <3>2, <3>3
        <5>. QED BY <2>1, <5>2, <5>3
      <4>. HIDE DEF g
      <4>. QED BY <2>1, <2>2, <4>1, <4>2 DEF Found
    <3>4. CASE ~(t[b].nclients > t[k].nclients /\ t[k].addr \notin bad)
      <4>1. g = TakenFrom(t[b])
        BY <3>1, <3>2, <3>4 DEF Consider
      <4>2. ASSUME NEW j \in new
            PROVE  /\ t[j].addr \notin bad => t[b].nclients <= t[j].nclients
                   /\ t[b].addr \in bad => b <= j
        <5>1. CASE j = k
          BY <5>1, <2>1, <3>2, <3>4
        <5>2. CASE j \in old
          BY <5>2, <3>1
        <5>. QED BY <2>1, <5>1, <5>2
      <4>3. b \in new
        BY <2>1
      <4>. HIDE DEF g
      <4>. QED BY <2>1, <2>2, <4>1, <4>2, <4>3 DEF Found
    <3>. QED BY <3>3, <3>4
  <2>. QED BY <2>3, <2>4
<1>. QED BY <1>1, <1>2

\* A pass finds what it should among all its entries.
LEMMA PassFinds ==
  ASSUME NEW t, NEW bad, Len(t) \in Nat, NEW ks \in SUBSET (1..Len(t)),
         \A j \in ks : t[j].nclients \in Nat
  PROVE  Found(Pass(t, bad, ks), Len(t), t, bad, ks)
<1>1. PICK f : /\ f[0] = NothingFound
               /\ \A k \in 1..Len(t) : f[k] = Turn(f[k - 1], k, t, bad, ks)
               /\ Pass(t, bad, ks) = f[Len(t)]
  BY PassTurns
<1>. DEFINE S == {k \in 0..Len(t) : ~ Found(f[k], k, t, bad, ks)}
<1>2. ASSUME S # {} PROVE FALSE
  <2>0. S \in SUBSET Nat
    OBVIOUS
  <2>1. PICK k \in S : \A j \in S : k <= j
    BY <1>2, <2>0, LeastExists
  <2>2. k # 0
    <3>1. {j \in ks : j <= 0} = {}
      <4>1. \A j \in ks : j \in Nat /\ ~(j <= 0)
        OBVIOUS
      <4>. QED BY <4>1
    <3>2. Found(f[0], 0, t, bad, ks)
      BY <1>1, <3>1 DEF Found
    <3>. QED BY <2>1, <3>2
  <2>3. k \in 1..Len(t) /\ k - 1 \in 0..Len(t) /\ k - 1 \notin S
    BY <2>1, <2>2
  <2>4. Found(f[k - 1], k - 1, t, bad, ks)
    BY <2>3
  <2>5. ks \in SUBSET (Nat \ {0}) /\ k \in Nat \ {0}
    BY <2>3
  <2>6. Found(Turn(f[k - 1], k, t, bad, ks), k, t, bad, ks)
    BY <2>4, <2>5, TurnFinds
  <2>7. f[k] = Turn(f[k - 1], k, t, bad, ks)
    BY <1>1, <2>3
  <2>8. Found(f[k], k, t, bad, ks)
    BY <2>6, <2>7
  <2>. QED BY <2>1, <2>8
<1>3. Len(t) \notin S
  BY <1>2
<1>. QED BY <1>1, <1>3

\* find_proxy() keeps its promise for a list of any length.
LEMMA FindChoosesWell ==
  ASSUME NEW A, NoProxy \notin A, NEW t \in Seq(Entries(A, Nat)), NEW bad
  PROVE  GoodChoice(t, bad, FindProxy(t, bad))
<1>0. /\ Len(t) \in Nat /\ DOMAIN t = 1..Len(t)
      /\ \A j \in DOMAIN t : t[j].nclients \in Nat /\ t[j].addr \in A
  <2>1. \A j \in DOMAIN t : t[j] \in Entries(A, Nat)
    OBVIOUS
  <2>2. Len(t) \in Nat /\ DOMAIN t = 1..Len(t)
    OBVIOUS
  <2>. QED BY <2>1, <2>2 DEF Entries
<1>. DEFINE all   == DOMAIN t
            fresh == FreshOnes(t)
            Choice(ks, c) == \E k \in ks :
               /\ c = t[k].addr
               /\ \A j \in ks : /\ t[j].addr \notin bad => t[k].nclients <= t[j].nclients
                                /\ c \in bad => k <= j
<1>1. fresh \in SUBSET (1..Len(t)) /\ all \in SUBSET (1..Len(t))
  BY <1>0 DEF FreshOnes
<1>2. ASSUME NEW ks \in SUBSET (1..Len(t))
      PROVE  IF ks = {} THEN Pass(t, bad, ks).addr = NoProxy
             ELSE Choice(ks, Pass(t, bad, ks).addr) /\ Pass(t, bad, ks).addr # NoProxy
  <2>0. \A j \in ks : j <= Len(t)
    BY <1>0
  <2>1. {j \in ks : j <= Len(t)} = ks
    BY <2>0
  <2>2. Found(Pass(t, bad, ks), Len(t), t, bad, ks)
    BY <1>0, PassFinds
  <2>3. CASE ks = {}
    BY <2>1, <2>2, <2>3 DEF Found, NothingFound
  <2>4. CASE ks # {}
    <3>1. PICK b \in ks : /\ Pass(t, bad, ks) = TakenFrom(t[b])
                          /\ \A j \in ks : /\ t[j].addr \notin bad => t[b].nclients <= t[j].nclients
                                           /\ t[b].addr \in bad => b <= j
      BY <2>1, <2>2, <2>4 DEF Found
    <3>2. Pass(t, bad, ks).addr = t[b].addr /\ t[b].addr # NoProxy
      BY <1>0, <3>1 DEF TakenFrom
    <3>. QED BY <2>4, <3>1, <3>2
  <2>. QED BY <2>3, <2>4
<1>3. CASE t = <<>>
  <2>1. all = {} /\ fresh = {}
    BY <1>3 DEF FreshOnes
  <2>2. Pass(t, bad, all).addr = NoProxy /\ Pass(t, bad, fresh).addr = NoProxy
    BY <1>1, <1>2, <2>1
  <2>. QED BY <1>3, <2>2 DEF GoodChoice, FindProxy
<1>4. CASE t # <<>>
  <2>1. all # {}
    BY <1>0, <1>4
  <2>2. CASE fresh # {}
    <3>1. Choice(fresh, Pass(t, bad, fresh).addr) /\ Pass(t, bad, fresh).addr # NoProxy
      BY <1>1, <1>2, <2>2
    <3>2. FindProxy(t, bad) = Pass(t, bad, fresh).addr /\ Competing(t) = fresh
      BY <2>2, <3>1 DEF FindProxy, Competing
    <3>. QED BY <1>4, <3>1, <3>2 DEF GoodChoice
  <2>3. CASE fresh = {}
    <3>1. Choice(all, Pass(t, bad, all).addr) /\ Pass(t, bad, fresh).addr = NoProxy
      BY <1>1, <1>2, <2>1, <2>3
    <3>2. FindProxy(t, bad) = Pass(t, bad, all).addr /\ Competing(t) = all
      BY <2>3, <3>1 DEF FindProxy, Competing
    <3>. QED BY <1>4, <3>1, <3>2 DEF GoodChoice
  <2>. QED BY <2>2, <2>3
<1>. QED BY <1>3, <1>4

\* What find_proxy() finds is an address of the list, or none.
LEMMA FindsOrNone ==
  ASSUME NEW A, NoProxy \notin A, NEW t \in Seq(Entries(A, Nat)), NEW bad
  PROVE  FindProxy(t, bad) \in A \cup {NoProxy}
<1>1. GoodChoice(t, bad, FindProxy(t, bad))
  BY FindChoosesWell
<1>2. Competing(t) \subseteq DOMAIN t
  BY DEF Competing, FreshOnes
<1>3. \A k \in DOMAIN t : t[k].addr \in A
  <2>1. \A k \in DOMAIN t : t[k] \in Entries(A, Nat)
    OBVIOUS
  <2>. QED BY <2>1 DEF Entries
<1>. QED BY <1>1, <1>2, <1>3 DEF GoodChoice

\* register_proxy() keeps the list a list, with one entry for an address.
LEMMA RegisterKeeps ==
  ASSUME NEW A, NEW N, NEW t \in Seq(Entries(A, N)), NEW p \in Entries(A, N)
  PROVE  /\ Register(t, p) \in Seq(Entries(A, N))
         /\ Unique(t) => Unique(Register(t, p))
<1>. DEFINE same == {k \in DOMAIN t : t[k].addr = p.addr}
            r == Register(t, p)
<1>1. CASE same = {}
  <2>1. r = Append(t, p)
    BY <1>1 DEF Register
  <2>. QED BY <1>1, <2>1 DEF Unique
<1>2. CASE same # {}
  <2>. DEFINE m == CHOOSE k \in same : \A j \in same : k <= j
  <2>1. m \in same
    <3>0. same \in SUBSET Nat
      OBVIOUS
    <3>1. PICK x \in same : \A y \in same : x <= y
      BY <1>2, <3>0, LeastExists
    <3>. QED BY <3>1
  <2>2. r = [t EXCEPT ![m] = p]
    BY <1>2 DEF Register
  <2>. HIDE DEF m
  <2>3. r \in Seq(Entries(A, N)) /\ DOMAIN r = DOMAIN t
    BY <2>1, <2>2
  <2>4. \A k \in DOMAIN t : r[k].addr = t[k].addr
    BY <2>1, <2>2
  <2>. QED BY <2>3, <2>4 DEF Unique
<1>. QED BY <1>1, <1>2
=============================================================================
