--------------------------- MODULE ServerLoopProofs ---------------------------
(***************************************************************************)
(* Invariants of the select() loop for every set of descriptor numbers and *)
(* every number of connections.                                            *)
(***************************************************************************)
EXTENDS ServerLoop, ValueProofs

\* Descriptor numbers are positive.
LEMMA FdPositive == Fd \in SUBSET (Nat \ {0}) /\ Listener \in Fd /\ Fds \subseteq Fd
  BY FdAssumption DEF Fd

\* What handlers and threads pass as flags are sets of kinds.
LEMMA FlagsAreKinds ==
  /\ {"read"} \in SUBSET Kinds /\ {"write"} \in SUBSET Kinds
  /\ \A r \in Results : r \in SUBSET Kinds
  BY DEF Kinds, Results, MasterAll

\* The steps that change the master do it through the operators of MasterSet.
LEMMA AddIsMaster ==
  ASSUME NEW m \in Masters(Fd), NEW f \in Fd, NEW k \in {"read", "write"}
  PROVE  AddSocket(m, f, {k}) \in Masters(Fd)
<1>1. {k} \in SUBSET Kinds /\ {k} # {}
  BY DEF Kinds
<1>. QED BY <1>1, FdPositive, AddSocketExact

\* add_socket() in the loop or a thread keeps the bounds exact.
LEMMA AddIsExact ==
  ASSUME NEW m \in Masters(Fd), NEW f \in Fd, NEW k \in {"read", "write"}, Exact(m)
  PROVE  Exact(AddSocket(m, f, {k}))
<1>1. {k} \in SUBSET Kinds /\ {k} # {}
  BY DEF Kinds
<1>. QED BY <1>1, FdPositive, AddSocketExact

\* A number read from a record, released or not, is a descriptor number.
LEMMA SockFieldType == \A c : SockField(c) \subseteq Fd
  BY DEF SockField

\* Closing numbers keeps a map from numbers a map from numbers.
LEMMA DropType ==
  ASSUME NEW S, NoItem \in S, NEW s \in [Fd -> S], NEW dropped
  PROVE  Drop(s, dropped) \in [Fd -> S]
  BY DEF Drop

\* accept() finds a free number when there is one.
LEMMA LeastFree == Free # {} => Min(Free) \in Free /\ Min(Free) \in Fds
<1>1. Free \in SUBSET Nat /\ Free \subseteq Fds
  BY FdAssumption DEF Free
<1>. QED BY <1>1, MinOfSet

\* accept() opens a number that was free, and registers that number.
LEMMA AcceptOpens ==
  ASSUME Accept
  PROVE  \E f \in Fds : /\ sock[f] = NoItem
                        /\ sock' = [sock EXCEPT ![f] = nconn + 1]
                        /\ master' = AddSocket(master, f, {"read"})
<1>1. Min(Free) \in Fds /\ sock[Min(Free)] = NoItem
  BY LeastFree DEF Accept, Free
<1>2. /\ sock' = [sock EXCEPT ![Min(Free)] = nconn + 1]
      /\ master' = AddSocket(master, Min(Free), {"read"})
  BY DEF Accept
<1>. QED BY <1>1, <1>2

\* One step of the three-test sweep keeps i and what in their types.
LEMMA NextTestType ==
  ASSUME i \in Nat, what \in Kinds, NextTest
  PROVE  pc' = "scan" /\ i' \in Nat /\ what' \in Kinds
  BY DEF NextTest, Kinds

\* The types hold when server_loop() enters its loop.
LEMMA InitType == Init => TypeOK
<1>. SUFFICES ASSUME Init PROVE TypeOK
  OBVIOUS
<1>1. master \in Masters(Fd)
  BY InitMasterExact, AddIsMaster, FdPositive DEF Init
<1>2. {} \in Results
  BY DEF Results
<1>3. hm \in [Fd -> Conn \cup {NoItem}] /\ sock \in [Fd -> Conn \cup {NoItem, ListenSock}]
  BY DEF Init
<1>4. nconn \in 0..MaxConn /\ i \in Nat /\ what \in Kinds
  BY ConnAssumption DEF Init, Kinds
<1>5. ready \in [Kinds -> SUBSET Fd]
  BY DEF Init, NoSets
<1>. QED BY <1>1, <1>2, <1>3, <1>4, <1>5 DEF Init, TypeOK

\* Every step keeps the variables in their types.
LEMMA NextType == TypeOK /\ [Next]_vars => TypeOK'
<1>. SUFFICES ASSUME TypeOK, [Next]_vars PROVE TypeOK'
  OBVIOUS
<1>. USE DEF shared, kernel, locals
<1>1. CASE SetSockets
  <2>1. master.set \in [Kinds -> SUBSET Fd]
    BY DEF TypeOK, Masters
  <2>2. ready' \in [Kinds -> SUBSET Fd]
    BY <1>1, <2>1 DEF SetSockets
  <2>. QED BY <1>1, <2>2 DEF SetSockets, TypeOK
<1>2. CASE SelectReturns
  <2>1. ready' \in [Kinds -> SUBSET Fd]
    BY <1>2 DEF SelectReturns, TypeOK, Kinds
  <2>2. i' \in Nat
    BY <1>2, MasterTypes, FdPositive DEF SelectReturns, TypeOK
  <2>. QED BY <1>2, <2>1, <2>2 DEF SelectReturns, TypeOK
<1>3. CASE SelectFails
  <2>1. NoSets \in [Kinds -> SUBSET Fd]
    BY DEF NoSets
  <2>2. master' \in Masters(Fd)
    BY <1>3, <2>1 DEF SelectFails, TypeOK, Masters
  <2>. QED BY <1>3, <2>1, <2>2 DEF SelectFails, TypeOK
<1>4. CASE ZeroBounds
  <2>1. master' \in Masters(Fd)
    BY <1>4 DEF ZeroBounds, TypeOK, Masters
  <2>. QED BY <1>4, <2>1 DEF ZeroBounds, TypeOK
<1>5. CASE AddListener
  <2>1. master' \in Masters(Fd)
    BY <1>5, AddIsMaster, FdPositive DEF AddListener, TypeOK
  <2>. QED BY <1>5, <2>1 DEF AddListener, TypeOK
<1>6. CASE SweepDone
  BY <1>6 DEF SweepDone, TypeOK, NoSets
<1>7. CASE Skip \/ NoRecord
  <2>1. i' \in Nat /\ what' \in Kinds /\ pc' = "scan"
    BY <1>7, NextTestType DEF Skip, NoRecord, TypeOK
  <2>. QED BY <1>7, <2>1 DEF Skip, NoRecord, TypeOK
<1>8. CASE Dispatch
  <2>1. item' \in Conn /\ item' # NoItem /\ i \in Fd
    BY <1>8, ConnAssumption DEF Dispatch, Sweeping, TypeOK
  <2>. QED BY <1>8, <2>1 DEF Dispatch, TypeOK
<1>9. CASE Accept
  <2>. DEFINE f == Min(Free)
              c == nconn + 1
  <2>1. f \in Fd /\ c \in Conn /\ nconn' = c /\ c \in 0..MaxConn /\ c # NoItem
    <3>1. f \in Fd
      BY <1>9, LeastFree, FdPositive DEF Accept
    <3>2. nconn \in 0..MaxConn /\ nconn < MaxConn /\ nconn' = c
      BY <1>9 DEF Accept, TypeOK
    <3>3. c \in Conn /\ c \in 0..MaxConn
      BY <3>2, ConnAssumption DEF Conn
    <3>. QED BY <3>1, <3>2, <3>3, ConnAssumption
  <2>2. master' \in Masters(Fd)
    BY <1>9, <2>1, AddIsMaster DEF Accept, TypeOK
  <2>3. hm' \in [Fd -> Conn \cup {NoItem}]
    BY <1>9, <2>1 DEF Accept, TypeOK
  <2>4. sock' \in [Fd -> Conn \cup {NoItem, ListenSock}]
    BY <1>9, <2>1 DEF Accept, TypeOK
  <2>5. item' \in Conn /\ item' # NoItem /\ i \in Fd
    BY <1>9, <2>1, FdPositive DEF Accept, AtListener
  <2>. HIDE DEF f, c
  <2>. QED BY <1>9, <2>1, <2>2, <2>3, <2>4, <2>5 DEF Accept, TypeOK
<1>10. CASE AcceptFails
  <2>1. /\ i' \in Nat /\ what' \in Kinds
        /\ \/ pc' = "scan"
           \/ pc' = "call" /\ i' = Listener /\ item # NoItem
    BY <1>10, NextTestType DEF AcceptFails, AtListener, TypeOK
  <2>. QED BY <1>10, <2>1, FdPositive DEF AcceptFails, TypeOK
<1>11. CASE Handler
  <2>1. PICK r \in Results, add \in BOOLEAN, spawn \in BOOLEAN, reads \in BOOLEAN,
             dropped \in SUBSET {f \in InBounds(master) \cap Fds : hm[f] \notin {NoItem, item}},
             own \in SockField(item) :
             HandlerEffect(r, add, spawn, reads, dropped, own)
    BY <1>11 DEF Handler
  <2>0. pc = "call"
    BY <1>11 DEF Handler
  <2>2. dropped \in SUBSET Fd /\ own \in Fd
    BY FdPositive, SockFieldType
  <2>3. WalkMaster(master, dropped) \in Masters(Fd)
    BY <2>2, FdPositive, WalkMasterExact DEF TypeOK
  <2>4. master' \in Masters(Fd)
    BY <2>1, <2>2, <2>3, AddIsMaster DEF HandlerEffect
  <2>5. hm' \in [Fd -> Conn \cup {NoItem}] /\ sock' \in [Fd -> Conn \cup {NoItem, ListenSock}]
    BY <2>1, DropType DEF TypeOK, HandlerEffect
  <2>6. i' \in Nat /\ what' \in Kinds /\ pc' \in {"scan", "rm"}
        /\ (pc' = "rm" => i' \in Fd)
    BY <2>0, <2>1, NextTestType DEF TypeOK, HandlerEffect
  <2>7. input' \in SUBSET Fd /\ helpers' \in SUBSET Conn /\ res' \in Results
    <3>1. item \in Conn
      BY <2>0 DEF TypeOK
    <3>. QED BY <2>1, <3>1 DEF TypeOK, HandlerEffect
  <2>8. UNCHANGED <<torn, nconn, ready, item>>
    BY <2>1 DEF HandlerEffect
  <2>. QED BY <2>4, <2>5, <2>6, <2>7, <2>8 DEF TypeOK
<1>12. CASE RmHandled
  <2>1. i' \in Nat /\ what' \in Kinds /\ pc' = "scan"
    BY <1>12, NextTestType DEF RmHandled, TypeOK
  <2>2. RmTarget \in Fd /\ res \in SUBSET Kinds /\ res' \in Results
    BY <1>12, FlagsAreKinds DEF RmHandled, RmTarget, TypeOK, Results
  <2>3. master' \in Masters(Fd)
    BY <1>12, <2>2, FdPositive, RmSocketExact DEF RmHandled, TypeOK
  <2>4. hm' \in [Fd -> Conn \cup {NoItem}] /\ sock' \in [Fd -> Conn \cup {NoItem, ListenSock}]
    BY <1>12, DropType DEF RmHandled, TypeOK
  <2>. QED BY <1>12, <2>1, <2>2, <2>3, <2>4 DEF RmHandled, TypeOK
<1>13. ASSUME NEW c \in Conn, HelperAdds(c) PROVE TypeOK'
  <2>1. master' \in Masters(Fd)
    BY <1>13, AddIsMaster, SockFieldType DEF HelperAdds, TypeOK
  <2>. QED BY <1>13, <2>1 DEF HelperAdds, TypeOK
<1>14. ASSUME NEW f \in Fd, Arrive(f) PROVE TypeOK'
  BY <1>14 DEF Arrive, TypeOK
<1>15. CASE Exited \/ UNCHANGED vars
  BY <1>15 DEF Exited, TypeOK, vars
<1>. QED
  BY <1>1, <1>2, <1>3, <1>4, <1>5, <1>6, <1>7, <1>8, <1>9, <1>10, <1>11, <1>12,
     <1>13, <1>14, <1>15 DEF Next, Loop

\* The variables of the loop keep their types.
THEOREM TypeCorrect == Spec => []TypeOK
  BY InitType, NextType, PTL DEF Spec
-----------------------------------------------------------------------------
(* The bounds *)

\* BoundsExact is not inductive: between the two halves of init_master() the
\* sets are empty and the bounds are still the old ones.
BoundsInv ==
    ~torn => IF pc = "zeroed" THEN Watched(master) = {} ELSE Exact(master)

\* A step that leaves init_master() alone keeps BoundsInv if it keeps the
\* bounds of the master exact.
LEMMA BoundsStep ==
  ASSUME BoundsInv, pc # "zeroed", pc' # "zeroed", torn' = torn,
         Exact(master) => Exact(master')
  PROVE  BoundsInv'
  BY DEF BoundsInv

\* The bounds are exact when the listening socket alone is registered.
LEMMA InitBounds == Init => BoundsInv
  BY InitMasterExact, AddIsExact, FdPositive DEF Init, BoundsInv

\* Every step keeps the bounds exact, or is inside init_master().
LEMMA NextBounds == TypeOK /\ BoundsInv /\ [Next]_vars => BoundsInv'
<1>. SUFFICES ASSUME TypeOK, BoundsInv, [Next]_vars PROVE BoundsInv'
  OBVIOUS
<1>. USE DEF shared, kernel, locals
<1>0. master \in Masters(Fd)
  BY DEF TypeOK
<1>1. CASE SetSockets \/ SelectReturns \/ SweepDone \/ Skip \/ NoRecord \/ Dispatch
           \/ AcceptFails
  <2>1. /\ pc # "zeroed" /\ pc' # "zeroed"
        /\ torn' = torn /\ master' = master
    BY <1>1 DEF SetSockets, SelectReturns, SweepDone, Skip, NoRecord, Dispatch,
                AcceptFails, Sweeping, AtListener, NextTest
  <2>. QED BY <2>1, BoundsStep
<1>2. CASE SelectFails
  <2>1. CASE pc' = "zeroed"
    <3>1. master'.set = NoSets /\ torn' = torn
      BY <1>2, <2>1, <1>0 DEF SelectFails, Masters
    <3>. QED BY <2>1, <3>1 DEF BoundsInv, Watched, NoSets
  <2>2. CASE pc' # "zeroed"
    <3>1. pc # "zeroed" /\ master' = master /\ torn' = torn
      BY <1>2, <2>2 DEF SelectFails
    <3>. QED BY <2>2, <3>1, BoundsStep
  <2>. QED BY <2>1, <2>2
<1>3. CASE ZeroBounds
  <2>1. /\ pc = "zeroed" /\ pc' = "listen" /\ torn' = torn
        /\ master'.set = master.set /\ master'.fdmin = 0 /\ master'.fdmax = 0
    BY <1>3, <1>0 DEF ZeroBounds, Masters
  <2>. QED BY <2>1 DEF BoundsInv, Exact, Watched
<1>4. CASE AddListener
  <2>1. /\ pc # "zeroed" /\ pc' # "zeroed" /\ torn' = torn
        /\ master' = AddSocket(master, Listener, {"read"})
    BY <1>4 DEF AddListener
  <2>. QED BY <1>0, <2>1, BoundsStep, AddIsExact, FdPositive
<1>5. CASE Accept
  <2>1. /\ pc # "zeroed" /\ pc' # "zeroed" /\ torn' = torn
        /\ Min(Free) \in Fd /\ master' = AddSocket(master, Min(Free), {"read"})
    BY <1>5, LeastFree, FdPositive DEF Accept, AtListener, Sweeping
  <2>. QED BY <1>0, <2>1, BoundsStep, AddIsExact
<1>6. CASE Handler
  <2>1. PICK dropped \in SUBSET (InBounds(master) \cap Fds), own \in Fd, add \in BOOLEAN :
          master' = IF add THEN AddSocket(WalkMaster(master, dropped), own, {"write"})
                    ELSE WalkMaster(master, dropped)
    BY <1>6, SockFieldType DEF Handler, HandlerEffect
  <2>2. pc # "zeroed" /\ pc' # "zeroed" /\ torn' = torn
    BY <1>6 DEF Handler, HandlerEffect, NextTest
  <2>3. dropped \in SUBSET Fd
    BY FdPositive
  <2>4. /\ WalkMaster(master, dropped) \in Masters(Fd)
        /\ Exact(master) => Exact(WalkMaster(master, dropped))
    BY <1>0, <2>3, WalkMasterExact, FdPositive
  <2>5. Exact(master) => Exact(master')
    BY <2>1, <2>4, AddIsExact
  <2>. QED BY <2>2, <2>5, BoundsStep
<1>7. CASE RmHandled
  <2>1. pc # "zeroed" /\ pc' # "zeroed" /\ torn' = torn
    BY <1>7 DEF RmHandled, NextTest
  <2>2. RmTarget \in Fd /\ res \in SUBSET Kinds
    BY <1>7, FlagsAreKinds DEF RmHandled, RmTarget, TypeOK
  <2>3. Exact(master) => Exact(master')
    BY <1>0, <1>7, <2>2, RmSocketExact, FdPositive DEF RmHandled
  <2>. QED BY <2>1, <2>3, BoundsStep
<1>8. ASSUME NEW c \in Conn, HelperAdds(c) PROVE BoundsInv'
  <2>1. CASE pc = "zeroed"
    BY <1>8, <2>1 DEF HelperAdds, BoundsInv
  <2>2. CASE pc # "zeroed"
    <3>1. pc' = pc /\ (torn \in BOOLEAN => torn' = torn)
      BY <1>8, <2>2 DEF HelperAdds
    <3>2. PICK f \in Fd : master' = AddSocket(master, f, {"write"})
      BY <1>8, SockFieldType DEF HelperAdds
    <3>3. Exact(master) => Exact(master')
      BY <1>0, <3>2, AddIsExact
    <3>. QED BY <2>2, <3>1, <3>3, BoundsStep DEF TypeOK
  <2>. QED BY <2>1, <2>2
<1>9. ASSUME NEW f \in Fd, Arrive(f) PROVE BoundsInv'
  BY <1>9 DEF Arrive, BoundsInv
<1>10. CASE Exited \/ UNCHANGED vars
  BY <1>10 DEF Exited, vars, BoundsInv
<1>. QED
  BY <1>1, <1>2, <1>3, <1>4, <1>5, <1>6, <1>7, <1>8, <1>9, <1>10 DEF Next, Loop

\* For every number of descriptors: unless a helper's add_socket() ran inside
\* the unlocked init_master(), fdmin and fdmax are exact at every select(),
\* sweep, walk and calc_min_max.
THEOREM BoundsAreExact == Spec => []BoundsExact
<1>1. BoundsInv => BoundsExact
  BY DEF BoundsInv, BoundsExact
<1>. QED BY InitBounds, NextBounds, TypeCorrect, <1>1, PTL DEF Spec

\* For every number of descriptors: when a sweep ends, what select() reported
\* and is still registered lies behind it, whatever handlers, rm_socket() and
\* threads did to the bounds while it ran.
THEOREM SweepsAreComplete == Spec => SweepComplete
<1>1. ASSUME TypeOK, BoundsInv, [Next]_vars, SweepDone, ~torn,
             NEW k \in Kinds, NEW f \in ready[k] \cap Watched(master)
      PROVE  f < i
  <2>1. pc = "scan" /\ i > master.fdmax /\ i \in Nat /\ master \in Masters(Fd)
    BY <1>1 DEF SweepDone, TypeOK
  <2>2. f <= master.fdmax
    BY <1>1, <2>1 DEF BoundsInv, Exact
  <2>3. f \in Nat /\ master.fdmax \in Nat
    BY <1>1, <2>1, MasterTypes, FdPositive
  <2>. QED BY <2>1, <2>2, <2>3
<1>2. TypeOK /\ BoundsInv /\ [Next]_vars =>
        [SweepDone /\ ~torn => \A k \in Kinds : \A f \in ready[k] \cap Watched(master) : f < i]_vars
  BY <1>1
<1>. QED BY InitBounds, NextBounds, TypeCorrect, <1>2, PTL DEF Spec, SweepComplete
-----------------------------------------------------------------------------
(* The map from numbers to records *)

\* What data_item holds outside a call matters only if accept() fails.  It is
\* set by the numbers swept before, and the listening socket is the first.
ItemInv ==
    /\ item # NoItem =>
          Listener < i \/ (i = Listener /\ (pc \in {"call", "rm"} \/ what = "write"))
    /\ pc \notin {"scan", "call", "rm"} => item = NoItem
    /\ pc \in {"call", "rm"} /\ i = Listener => what = "read"
    /\ pc \in {"call", "rm"} => Listener <= i

\* There is no current record when the loop is entered.
LEMMA InitItem == Init => ItemInv
  BY DEF Init, ItemInv

\* Going to the next test keeps what is known of the current record.
LEMMA NextTestItem ==
  ASSUME TypeOK, ItemInv, NextTest, item' = item \/ item' = NoItem,
         pc \in {"call", "rm", "scan"}
  PROVE  ItemInv'
<1>1. i \in Nat /\ Listener \in Nat /\ what \in Kinds
  BY FdAssumption DEF TypeOK
<1>2. pc' = "scan" /\ what' \in Kinds
  BY <1>1 DEF NextTest, Kinds
<1>3. CASE what = "write"
  BY <1>1, <1>2, <1>3 DEF ItemInv, NextTest
<1>4. CASE what # "write"
  <2>1. i' = i /\ (what = "read" => what' = "write") /\ (what = "exc" => what' = "read")
    BY <1>4 DEF NextTest
  <2>2. what = "read" \/ what = "exc"
    BY <1>1, <1>4 DEF Kinds
  <2>. QED BY <1>1, <1>2, <2>1, <2>2 DEF ItemInv
<1>. QED BY <1>3, <1>4

\* Every step keeps what is known of the current record.
LEMMA NextItem == TypeOK /\ ItemInv /\ [Next]_vars => ItemInv'
<1>. SUFFICES ASSUME TypeOK, ItemInv, [Next]_vars PROVE ItemInv'
  OBVIOUS
<1>. USE DEF shared, kernel, locals
<1>0. /\ i \in Nat /\ Listener \in Nat /\ what \in Kinds
      /\ pc \in {"call", "rm"} => i \in Fd
      /\ \A f \in Fd : Listener <= f /\ f \in Nat
  BY FdAssumption DEF TypeOK, Fd
<1>1. CASE SetSockets \/ SelectReturns \/ SelectFails \/ ZeroBounds \/ AddListener
  BY <1>1
  DEF SetSockets, SelectReturns, SelectFails, ZeroBounds, AddListener, ItemInv
<1>2. CASE SweepDone
  BY <1>2 DEF SweepDone, ItemInv
<1>3. CASE Skip \/ NoRecord
  <2>1. NextTest /\ pc = "scan" /\ (item' = item \/ item' = NoItem)
    BY <1>3 DEF Skip, NoRecord, Sweeping
  <2>. QED BY <2>1, NextTestItem
<1>4. CASE Dispatch
  <2>1. i \in Fd \ {Listener} /\ i' = i /\ what' = what
    BY <1>4 DEF Dispatch, TypeOK
  <2>2. Listener < i
    BY <1>0, <2>1
  <2>3. pc = "scan" /\ pc' = "call"
    BY <1>4 DEF Dispatch, Sweeping
  <2>. QED BY <2>1, <2>2, <2>3, <1>0 DEF ItemInv
<1>5. CASE Accept
  BY <1>5, <1>0 DEF Accept, AtListener, ItemInv
<1>6. CASE AcceptFails
  <2>1. item = NoItem
    BY <1>6, <1>0 DEF AcceptFails, AtListener, Sweeping, ItemInv
  <2>. QED BY <1>6, <2>1, NextTestItem DEF AcceptFails, AtListener, Sweeping
<1>7. CASE Handler
  <2>1. /\ pc = "call" /\ item' = item
        /\ NextTest \/ (pc' = "rm" /\ UNCHANGED <<i, what>>)
    BY <1>7 DEF Handler, HandlerEffect
  <2>. QED BY <2>1, NextTestItem DEF ItemInv
<1>8. CASE RmHandled
  BY <1>8, NextTestItem DEF RmHandled
<1>9. ASSUME NEW c \in Conn, HelperAdds(c) PROVE ItemInv'
  BY <1>9 DEF HelperAdds, ItemInv
<1>10. ASSUME NEW f \in Fd, Arrive(f) PROVE ItemInv'
  BY <1>10 DEF Arrive, ItemInv
<1>11. CASE Exited \/ UNCHANGED vars
  BY <1>11 DEF Exited, vars, ItemInv
<1>. QED
  BY <1>1, <1>2, <1>3, <1>4, <1>5, <1>6, <1>7, <1>8, <1>9, <1>10, <1>11 DEF Next, Loop

\* No record is in the map when the loop is entered.
LEMMA InitLive == Init => HashmapLive
  BY DEF Init, HashmapLive

\* The same numbers are dropped from the map and from the open files.
LEMMA DropLive ==
  ASSUME NEW dropped, hm' = Drop(hm, dropped), sock' = Drop(sock, dropped),
         \A f \in Fd : hm[f] # NoItem => sock[f] = hm[f]
  PROVE  \A f \in Fd : hm'[f] # NoItem => sock'[f] = hm'[f]
  BY DEF Drop

\* Every step keeps the map on live records.
LEMMA NextLive == TypeOK /\ ItemInv /\ HashmapLive /\ [Next]_vars => HashmapLive'
<1>. SUFFICES ASSUME TypeOK, ItemInv, HashmapLive, [Next]_vars PROVE HashmapLive'
  OBVIOUS
<1>. USE DEF shared, kernel, locals
<1>1. CASE SetSockets \/ SelectReturns \/ SelectFails \/ ZeroBounds \/ AddListener
           \/ SweepDone \/ Skip \/ NoRecord \/ AcceptFails
  <2>0. i \in Nat /\ Listener \in Nat
    BY FdAssumption DEF TypeOK
  <2>1. hm' = hm /\ sock' = sock /\ pc' # "call"
    BY <1>1, <2>0
    DEF SetSockets, SelectReturns, SelectFails, ZeroBounds, AddListener, SweepDone, Skip,
        NoRecord, AcceptFails, AtListener, Sweeping, NextTest, ItemInv
  <2>. QED BY <2>1 DEF HashmapLive
<1>2. CASE Dispatch
  <2>1. hm' = hm /\ sock' = sock /\ item' = hm[i] /\ i \in Fd /\ hm[i] # NoItem
    BY <1>2 DEF Dispatch, Sweeping, TypeOK
  <2>. QED BY <2>1 DEF HashmapLive, Live
<1>3. CASE Accept
  <2>. DEFINE f == Min(Free)
              c == nconn + 1
  <2>1. f \in Fd /\ sock[f] = NoItem
    BY <1>3, LeastFree, FdPositive DEF Accept, Free
  <2>2. hm[f] = NoItem
    BY <2>1 DEF HashmapLive
  <2>3. hm' = [hm EXCEPT ![f] = c] /\ sock' = [sock EXCEPT ![f] = c] /\ item' = c
    BY <1>3, <2>2 DEF Accept
  <2>4. c \in Conn /\ c # NoItem
    <3>1. nconn \in 0..MaxConn /\ nconn < MaxConn
      BY <1>3 DEF Accept, TypeOK
    <3>2. c \in Conn
      BY <3>1, ConnAssumption DEF Conn
    <3>. QED BY <3>2, ConnAssumption
  <2>5. /\ hm \in [Fd -> Conn \cup {NoItem}]
        /\ sock \in [Fd -> Conn \cup {NoItem, ListenSock}]
    BY DEF TypeOK
  <2>. HIDE DEF f, c
  <2>6. \A g \in Fd : hm'[g] # NoItem => sock'[g] = hm'[g]
    BY <2>1, <2>3, <2>5 DEF HashmapLive
  <2>7. item' \in {hm'[g] : g \in Fd} \ {NoItem}
    BY <2>1, <2>3, <2>4, <2>5
  <2>. QED BY <2>6, <2>7 DEF HashmapLive, Live
<1>4. CASE Handler
  <2>1. PICK dropped \in SUBSET Fds : hm' = Drop(hm, dropped) /\ sock' = Drop(sock, dropped)
    BY <1>4 DEF Handler, HandlerEffect
  <2>2. pc' # "call"
    BY <1>4 DEF Handler, HandlerEffect, NextTest
  <2>. QED BY <2>1, <2>2, DropLive DEF HashmapLive
<1>5. CASE RmHandled
  <2>1. /\ \E closed : hm' = Drop(hm, closed) /\ sock' = Drop(sock, closed)
        /\ pc' # "call"
    BY <1>5 DEF RmHandled, NextTest
  <2>. QED BY <2>1, DropLive DEF HashmapLive
<1>6. ASSUME NEW c \in Conn, HelperAdds(c) PROVE HashmapLive'
  BY <1>6 DEF HelperAdds, HashmapLive, Live
<1>7. ASSUME NEW f \in Fd, Arrive(f) PROVE HashmapLive'
  BY <1>7 DEF Arrive, HashmapLive, Live
<1>8. CASE Exited \/ UNCHANGED vars
  BY <1>8 DEF Exited, vars, HashmapLive, Live
<1>. QED
  BY <1>1, <1>2, <1>3, <1>4, <1>5, <1>6, <1>7, <1>8 DEF Next, Loop

\* For every number of descriptors and connections, with any number of helper
\* threads ending late and any number of resets: no handler is called with a
\* released record or with the record of another connection.
THEOREM MapHoldsLiveRecords == Spec => []HashmapLive
  BY InitItem, NextItem, InitLive, NextLive, TypeCorrect, PTL DEF Spec
=============================================================================
