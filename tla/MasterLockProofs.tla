--------------------------- MODULE MasterLockProofs ---------------------------
(***************************************************************************)
(* Under a critical section, any number of threads change MASTER_FD as if  *)
(* each add_socket() and rm_socket() were one step.                        *)
(***************************************************************************)
EXTENDS MCLocks, ValueProofs, FiniteSetTheorems

\* Only one thread is inside, and the lock says whether one is.
Mutex ==
    /\ \A t, u \in Threads : at[t] \in Inside /\ at[u] \in Inside => t = u
    /\ lock = 0 => \A t \in Threads : at[t] \notin Inside
    /\ \A t \in Threads : at[t] # "raise"

\* Only the read set is used, and the committed bounds are exact.
Committed ==
    /\ Exact(committed)
    /\ \A k \in Kinds \ {"read"} : committed.set[k] = {}

\* What the call of thread t will have made of the master.
Added(t)   == AddSocket(committed, Fd(t), {"read"})
Removed(t) == RmSocket(committed, Fd(t), {"read"})

\* How far the call of thread t has got.
Progress(t) ==
    /\ at[t] \in {"load", "store"} => mem = committed
    /\ at[t] = "store" => loc[t].set = committed.set["read"]
    /\ at[t] \in {"low", "setlow", "high", "sethigh"} =>
         call[t].op = "add" /\ mem.set = Added(t).set /\ mem.fdmax = committed.fdmax
    /\ at[t] \in {"low", "setlow"} => mem.fdmin = committed.fdmin
    /\ at[t] = "setlow" => Added(t).fdmin = Fd(t)
    /\ at[t] \in {"high", "sethigh"} => mem.fdmin = Added(t).fdmin
    /\ at[t] = "sethigh" => Added(t).fdmax = Fd(t)
    /\ at[t] \in {"scan", "putmax", "putmin"} =>
         call[t].op = "rm" /\ mem.set = ClearBits(committed.set, Fd(t), {"read"})
    /\ at[t] = "scan" => mem.fdmin = committed.fdmin /\ mem.fdmax = committed.fdmax
    /\ at[t] \in {"putmax", "putmin"} => loc[t].fdmin = Removed(t).fdmin
    /\ at[t] = "putmax" => loc[t].fdmax = Removed(t).fdmax
    /\ at[t] = "putmin" => mem.fdmax = Removed(t).fdmax
    /\ at[t] = "leave" => mem = IF call[t].op = "add" THEN Added(t) ELSE Removed(t)

IInv ==
    /\ TypeOK
    /\ Mutex
    /\ Committed
    /\ (\A t \in Threads : at[t] \notin Inside) => mem = committed
    /\ \A t \in Threads : at[t] \in Inside => Progress(t)

USE DEF Fd
-----------------------------------------------------------------------------
(* Facts about the values *)

\* The two results a call can have are masters with exact bounds, in which
\* only the read set is used.
LEMMA Results ==
  ASSUME TypeOK, Committed, NEW t \in Threads
  PROVE  /\ Added(t) \in Masters(Fds) /\ Removed(t) \in Masters(Fds)
         /\ Exact(Added(t)) /\ Exact(Removed(t))
         /\ \A k \in Kinds \ {"read"} : Added(t).set[k] = {} /\ Removed(t).set[k] = {}
<1>1. /\ Fds \in SUBSET (Nat \ {0}) /\ committed \in Masters(Fds) /\ Exact(committed)
      /\ call[t].fd \in Fds /\ {"read"} \in SUBSET Kinds /\ {"read"} # {}
  BY FdsAssumption DEF TypeOK, Committed, Calls, Kinds
<1>2. /\ Added(t) \in Masters(Fds) /\ Removed(t) \in Masters(Fds)
      /\ Exact(Added(t)) /\ Exact(Removed(t))
  BY <1>1, AddSocketExact, RmSocketExact DEF Added, Removed
<1>3. ASSUME NEW k \in Kinds \ {"read"}
      PROVE  Added(t).set[k] = {} /\ Removed(t).set[k] = {}
  BY <1>3 DEF Added, Removed, AddSocket, SetBits, RmSocket, ClearBits, CalcMinMax, Committed
<1>. QED BY <1>2, <1>3

\* After its last bit is cleared no descriptor is left in a set, so rm_socket()
\* always goes on to calc_min_max() here.
LEMMA RemovedIsRecalculated ==
  ASSUME TypeOK, Committed, NEW t \in Threads
  PROVE  /\ Removed(t) = CalcMinMax([set   |-> ClearBits(committed.set, Fd(t), {"read"}),
                                     fdmin |-> committed.fdmin, fdmax |-> committed.fdmax])
         /\ Removed(t).set = ClearBits(committed.set, Fd(t), {"read"})
<1>. DEFINE c == [set   |-> ClearBits(committed.set, Fd(t), {"read"}),
                  fdmin |-> committed.fdmin, fdmax |-> committed.fdmax]
<1>1. \A k \in Kinds : Fd(t) \notin c.set[k]
  BY DEF Committed, ClearBits, Kinds
<1>2. Fd(t) \notin Watched(c)
  BY <1>1 DEF Watched
<1>3. Removed(t) = CalcMinMax(c)
  BY <1>2 DEF Removed, RmSocket
<1>4. \A m : CalcMinMax(m).set = m.set
  BY DEF CalcMinMax
<1>5. Removed(t).set = c.set
  <2>. HIDE DEF c
  <2>. QED BY <1>3, <1>4
<1>. QED BY <1>3, <1>5

\* A master is determined by its three fields.
LEMMA MasterExt ==
  ASSUME NEW F, NEW a \in Masters(F), NEW b \in Masters(F),
         a.set = b.set, a.fdmin = b.fdmin, a.fdmax = b.fdmax
  PROVE  a = b
  BY DEF Masters
-----------------------------------------------------------------------------
(* The inductive invariant *)

\* The invariant holds before any call.
LEMMA InitIInv == Init => IInv
<1>. SUFFICES ASSUME Init PROVE IInv
  OBVIOUS
<1>1. InitMaster \in Masters(Fds) /\ Exact(InitMaster)
  BY InitMasterExact
<1>2. TypeOK
  BY <1>1 DEF Init, TypeOK, Labels, NoLoc
<1>3. Committed
  BY <1>1 DEF Init, Committed, InitMaster
<1>. QED BY <1>2, <1>3 DEF Init, IInv, Mutex, Inside

\* A step inside a call: only the progress of its own thread is at stake.
LEMMA InsideStep ==
  ASSUME IInv, NEW t \in Threads, NEW l \in Inside,
         at[t] \in Inside, at' = [at EXCEPT ![t] = l],
         lock' = lock, committed' = committed, call' = call,
         mem' \in Masters(Fds),
         loc' \in [Threads -> [set : SUBSET Fds, fdmin : Fds \cup {0}, fdmax : Fds \cup {0}]],
         Progress(t)'
  PROVE  IInv'
<1>. USE DEF IInv
<1>1. TypeOK'
  BY DEF TypeOK, Labels
<1>2. at' \in [Threads -> Labels] /\ at'[t] = l /\ \A u \in Threads \ {t} : at'[u] = at[u]
  BY DEF TypeOK, Labels
<1>3. Mutex'
  BY <1>2 DEF Mutex, Inside
<1>4. Committed'
  BY DEF Committed
<1>5. \A u \in Threads : at'[u] \in Inside => u = t
  BY <1>2 DEF Mutex
<1>. QED BY <1>1, <1>2, <1>3, <1>4, <1>5

\* Under a critical section the invariant is inductive.
LEMMA NextIInv == LockKind = "critical_section" /\ IInv /\ [Next]_vars => IInv'
<1>. SUFFICES ASSUME LockKind = "critical_section", IInv, [Next]_vars PROVE IInv'
  OBVIOUS
<1>0. TypeOK /\ Mutex /\ Committed
  BY DEF IInv
<1>1. CASE UNCHANGED vars
  BY <1>1 DEF vars, IInv, TypeOK, Mutex, Committed, Progress, Added, Removed
<1>2. ASSUME NEW t \in Threads, Begin(t) PROVE IInv'
  <2>1. /\ at' = [at EXCEPT ![t] = "enter"] /\ at[t] = "idle"
        /\ call' \in [Threads -> Calls] /\ \A u \in Threads \ {t} : call'[u] = call[u]
        /\ UNCHANGED <<mem, lock, loc, committed>>
    BY <1>0, <1>2 DEF Begin, Goto, TypeOK
  <2>2. TypeOK'
    BY <1>0, <2>1 DEF TypeOK, Labels
  <2>3. \A u \in Threads : at'[u] \in Inside <=> at[u] \in Inside /\ u # t
    BY <1>0, <2>1 DEF TypeOK, Inside
  <2>4. Mutex' /\ Committed'
    BY <1>0, <2>1, <2>3 DEF Mutex, Committed, TypeOK
  <2>5. (\A u \in Threads : at'[u] \notin Inside) => mem' = committed'
    BY <2>1, <2>3 DEF IInv, Inside
  <2>6. ASSUME NEW u \in Threads, at'[u] \in Inside PROVE Progress(u)'
    <3>1. u # t /\ at'[u] = at[u] /\ call'[u] = call[u] /\ Progress(u)
      BY <1>0, <2>1, <2>3, <2>6 DEF IInv, TypeOK
    <3>. QED BY <2>1, <3>1 DEF Progress, Added, Removed
  <2>. QED BY <2>2, <2>4, <2>5, <2>6 DEF IInv
<1>3. ASSUME NEW t \in Threads, Enter(t) PROVE IInv'
  <2>1. /\ at' = [at EXCEPT ![t] = "load"] /\ lock = 0 /\ lock' = 1
        /\ UNCHANGED <<mem, call, loc, committed>>
    BY <1>3 DEF Enter, Goto
  <2>2. \A u \in Threads : at[u] \notin Inside
    BY <1>0, <2>1 DEF Mutex
  <2>3. mem = committed
    BY <2>2 DEF IInv
  <2>4. TypeOK'
    BY <1>0, <2>1 DEF TypeOK, Labels, Inside
  <2>5. at'[t] = "load" /\ \A u \in Threads \ {t} : at'[u] = at[u]
    BY <1>0, <2>1 DEF TypeOK
  <2>6. \A u \in Threads : at'[u] \in Inside => u = t
    BY <2>2, <2>5
  <2>7. Mutex' /\ Committed'
    BY <1>0, <2>1, <2>5, <2>6 DEF Mutex, Committed, Inside
  <2>8. Progress(t)'
    BY <2>1, <2>3, <2>5 DEF Progress
  <2>9. mem' = committed'
    BY <2>1, <2>3
  <2>. QED BY <2>4, <2>6, <2>7, <2>8, <2>9 DEF IInv
<1>4. ASSUME NEW t \in Threads, Raise(t) PROVE IInv'
  BY <1>0, <1>4 DEF Raise, Mutex
<1>5. ASSUME NEW t \in Threads, Leave(t) PROVE IInv'
  <2>1. /\ at[t] = "leave" /\ at' = [at EXCEPT ![t] = "idle"]
        /\ committed' = mem /\ loc' = [loc EXCEPT ![t] = NoLoc]
        /\ lock \in Nat /\ lock > 0 /\ lock' = lock - 1 /\ UNCHANGED <<mem, call>>
    BY <1>0, <1>5 DEF Leave, Goto, TypeOK
  <2>2. mem = IF call[t].op = "add" THEN Added(t) ELSE Removed(t)
    BY <2>1 DEF IInv, Progress, Inside
  <2>3. mem \in Masters(Fds) /\ Exact(mem) /\ \A k \in Kinds \ {"read"} : mem.set[k] = {}
    BY <1>0, <2>2, Results
  <2>4. TypeOK'
    BY <1>0, <2>1, <2>3 DEF TypeOK, Labels, NoLoc
  <2>5. \A u \in Threads : at'[u] \notin Inside /\ at'[u] # "raise"
    BY <1>0, <2>1 DEF TypeOK, Mutex, Inside
  <2>. QED BY <2>1, <2>3, <2>4, <2>5 DEF IInv, Mutex, Committed
<1>6. ASSUME NEW t \in Threads, LoadWord(t) PROVE IInv'
  <2>1. /\ at[t] = "load" /\ at' = [at EXCEPT ![t] = "store"] /\ at'[t] = "store"
        /\ loc'[t].set = mem.set["read"] /\ UNCHANGED <<mem, lock, call, committed>>
        /\ loc' \in [Threads -> [set : SUBSET Fds, fdmin : Fds \cup {0}, fdmax : Fds \cup {0}]]
    BY <1>0, <1>6 DEF LoadWord, Goto, TypeOK, Masters, Kinds
  <2>2. Progress(t)'
    BY <2>1 DEF IInv, Progress, Inside
  <2>. QED BY <1>0, <2>1, <2>2, InsideStep DEF Inside, TypeOK
<1>7. ASSUME NEW t \in Threads, StoreWord(t) PROVE IInv'
  <2>. DEFINE l == IF call[t].op = "add" THEN "low" ELSE "scan"
              new == IF call[t].op = "add" THEN loc[t].set \cup {Fd(t)} ELSE loc[t].set \ {Fd(t)}
  <2>1. /\ at[t] = "store" /\ at' = [at EXCEPT ![t] = l] /\ at'[t] = l
        /\ mem' = [mem EXCEPT !.set["read"] = new] /\ UNCHANGED <<lock, call, loc, committed>>
    BY <1>0, <1>7 DEF StoreWord, Goto, TypeOK
  <2>2. mem = committed /\ loc[t].set = committed.set["read"]
    BY <2>1 DEF IInv, Progress, Inside
  <2>3. call[t].op \in {"add", "rm"} /\ Fd(t) \in Fds /\ new \in SUBSET Fds
    BY <1>0 DEF TypeOK, Calls
  <2>4. /\ mem' \in Masters(Fds)
        /\ mem'.set = [mem.set EXCEPT !["read"] = new]
        /\ mem'.fdmin = mem.fdmin /\ mem'.fdmax = mem.fdmax
    BY <1>0, <2>1, <2>3 DEF TypeOK, Masters, Kinds
  <2>5. committed.set \in [Kinds -> SUBSET Fds]
    BY <1>0 DEF TypeOK, Masters
  <2>6. CASE call[t].op = "add"
    <3>1. mem'.set = Added(t).set
      BY <2>2, <2>4, <2>5, <2>6 DEF Added, AddSocket, SetBits
    <3>2. Progress(t)'
      BY <2>1, <2>2, <2>4, <2>6, <3>1 DEF Progress, Added
    <3>. QED BY <1>0, <2>1, <2>4, <2>6, <3>2, InsideStep DEF Inside, TypeOK
  <2>7. CASE call[t].op = "rm"
    <3>. DEFINE cleared == ClearBits(committed.set, Fd(t), {"read"})
    <3>1. cleared \in [Kinds -> SUBSET Fds] /\ mem'.set \in [Kinds -> SUBSET Fds]
      BY <2>4, <2>5 DEF ClearBits, Masters
    <3>2. ASSUME NEW k \in Kinds PROVE mem'.set[k] = cleared[k]
      BY <2>2, <2>4, <2>5, <2>7 DEF ClearBits
    <3>3. mem'.set = cleared
      <4>. HIDE DEF cleared
      <4>. QED BY <3>1, <3>2
    <3>4. Progress(t)'
      BY <2>1, <2>2, <2>4, <2>7, <3>3 DEF Progress
    <3>. QED BY <1>0, <2>1, <2>4, <2>7, <3>4, InsideStep DEF Inside, TypeOK
  <2>. QED BY <2>3, <2>6, <2>7
<1>8. ASSUME NEW t \in Threads, TestLow(t) PROVE IInv'
  <2>. DEFINE l == IF mem.fdmin = 0 \/ mem.fdmin > Fd(t) THEN "setlow" ELSE "high"
  <2>1. /\ at[t] = "low" /\ at' = [at EXCEPT ![t] = l] /\ at'[t] = l
        /\ UNCHANGED <<mem, lock, call, loc, committed>>
    BY <1>0, <1>8 DEF TestLow, Goto, TypeOK
  <2>2. /\ call[t].op = "add" /\ mem.set = Added(t).set
        /\ mem.fdmax = committed.fdmax /\ mem.fdmin = committed.fdmin
    BY <2>1 DEF IInv, Progress, Inside
  <2>3. Added(t).fdmin = IF mem.fdmin = 0 \/ mem.fdmin > Fd(t) THEN Fd(t) ELSE mem.fdmin
    BY <2>2 DEF Added, AddSocket, LowerBound
  <2>4. Progress(t)'
    BY <2>1, <2>2, <2>3 DEF Progress, Added
  <2>. QED BY <1>0, <2>1, <2>4, InsideStep DEF Inside, TypeOK
<1>9. ASSUME NEW t \in Threads, SetLow(t) PROVE IInv'
  <2>1. /\ at[t] = "setlow" /\ at' = [at EXCEPT ![t] = "high"] /\ at'[t] = "high"
        /\ mem' = [mem EXCEPT !.fdmin = Fd(t)] /\ UNCHANGED <<lock, call, loc, committed>>
    BY <1>0, <1>9 DEF SetLow, Goto, TypeOK
  <2>2. /\ call[t].op = "add" /\ mem.set = Added(t).set
        /\ mem.fdmax = committed.fdmax /\ Added(t).fdmin = Fd(t)
    BY <2>1 DEF IInv, Progress, Inside
  <2>3. /\ mem' \in Masters(Fds) /\ mem'.set = mem.set
        /\ mem'.fdmin = Fd(t) /\ mem'.fdmax = mem.fdmax
    BY <1>0, <2>1 DEF TypeOK, Masters, Calls
  <2>4. Progress(t)'
    BY <2>1, <2>2, <2>3 DEF Progress, Added
  <2>. QED BY <1>0, <2>1, <2>3, <2>4, InsideStep DEF Inside, TypeOK
<1>10. ASSUME NEW t \in Threads, TestHigh(t) PROVE IInv'
  <2>. DEFINE l == IF mem.fdmax < Fd(t) THEN "sethigh" ELSE "leave"
  <2>1. /\ at[t] = "high" /\ at' = [at EXCEPT ![t] = l] /\ at'[t] = l
        /\ UNCHANGED <<mem, lock, call, loc, committed>>
    BY <1>0, <1>10 DEF TestHigh, Goto, TypeOK
  <2>2. /\ call[t].op = "add" /\ mem.set = Added(t).set
        /\ mem.fdmax = committed.fdmax /\ mem.fdmin = Added(t).fdmin
    BY <2>1 DEF IInv, Progress, Inside
  <2>3. Added(t).fdmax = IF mem.fdmax < Fd(t) THEN Fd(t) ELSE mem.fdmax
    BY <2>2 DEF Added, AddSocket, UpperBound
  <2>4. mem.fdmax < Fd(t) \/ mem = Added(t)
    BY <1>0, <2>2, <2>3, MasterExt, Results DEF TypeOK
  <2>5. Progress(t)'
    BY <2>1, <2>2, <2>3, <2>4 DEF Progress, Added
  <2>. QED BY <1>0, <2>1, <2>5, InsideStep DEF Inside, TypeOK
<1>11. ASSUME NEW t \in Threads, SetHigh(t) PROVE IInv'
  <2>1. /\ at[t] = "sethigh" /\ at' = [at EXCEPT ![t] = "leave"] /\ at'[t] = "leave"
        /\ mem' = [mem EXCEPT !.fdmax = Fd(t)] /\ UNCHANGED <<lock, call, loc, committed>>
    BY <1>0, <1>11 DEF SetHigh, Goto, TypeOK
  <2>2. /\ call[t].op = "add" /\ mem.set = Added(t).set
        /\ Added(t).fdmax = Fd(t) /\ mem.fdmin = Added(t).fdmin
    BY <2>1 DEF IInv, Progress, Inside
  <2>3. /\ mem' \in Masters(Fds) /\ mem'.set = mem.set
        /\ mem'.fdmax = Fd(t) /\ mem'.fdmin = mem.fdmin
    BY <1>0, <2>1 DEF TypeOK, Masters, Calls
  <2>4. mem' = Added(t)
    BY <1>0, <2>2, <2>3, MasterExt, Results
  <2>5. Progress(t)'
    BY <2>1, <2>2, <2>4 DEF Progress, Added
  <2>. QED BY <1>0, <2>1, <2>3, <2>5, InsideStep DEF Inside, TypeOK
<1>12. ASSUME NEW t \in Threads, Scan(t) PROVE IInv'
  <2>1. /\ at[t] = "scan" /\ at' = [at EXCEPT ![t] = "putmax"] /\ at'[t] = "putmax"
        /\ loc'[t].fdmin = CalcMinMax(mem).fdmin /\ loc'[t].fdmax = CalcMinMax(mem).fdmax
        /\ UNCHANGED <<mem, lock, call, committed>>
    BY <1>0, <1>12 DEF Scan, Goto, TypeOK
  <2>2. /\ call[t].op = "rm" /\ mem.set = ClearBits(committed.set, Fd(t), {"read"})
        /\ mem.fdmin = committed.fdmin /\ mem.fdmax = committed.fdmax
    BY <2>1 DEF IInv, Progress, Inside
  <2>3. mem = [set |-> mem.set, fdmin |-> mem.fdmin, fdmax |-> mem.fdmax]
    BY <1>0 DEF TypeOK, Masters
  <2>4. Removed(t) = CalcMinMax(mem)
    BY <1>0, <2>2, <2>3, RemovedIsRecalculated
  <2>5. Progress(t)'
    BY <2>1, <2>2, <2>4 DEF Progress, Removed
  <2>6. CalcMinMax(mem) \in Masters(Fds)
    BY <1>0, FdsAssumption, CalcMinMaxExact DEF TypeOK
  <2>7. loc' \in [Threads -> [set : SUBSET Fds, fdmin : Fds \cup {0}, fdmax : Fds \cup {0}]]
    <3>1. CalcMinMax(mem).fdmin \in Fds \cup {0} /\ CalcMinMax(mem).fdmax \in Fds \cup {0}
      BY <2>6 DEF Masters
    <3>. QED BY <1>0, <1>12, <3>1 DEF Scan, TypeOK
  <2>. QED BY <1>0, <2>1, <2>5, <2>7, InsideStep DEF Inside, TypeOK
<1>13. ASSUME NEW t \in Threads, PutMax(t) PROVE IInv'
  <2>1. /\ at[t] = "putmax" /\ at' = [at EXCEPT ![t] = "putmin"] /\ at'[t] = "putmin"
        /\ mem' = [mem EXCEPT !.fdmax = loc[t].fdmax] /\ UNCHANGED <<lock, call, loc, committed>>
    BY <1>0, <1>13 DEF PutMax, Goto, TypeOK
  <2>2. /\ call[t].op = "rm" /\ mem.set = ClearBits(committed.set, Fd(t), {"read"})
        /\ loc[t].fdmin = Removed(t).fdmin /\ loc[t].fdmax = Removed(t).fdmax
    BY <2>1 DEF IInv, Progress, Inside
  <2>3. mem' \in Masters(Fds) /\ mem'.set = mem.set /\ mem'.fdmax = loc[t].fdmax
    BY <1>0, <2>1 DEF TypeOK, Masters
  <2>4. Progress(t)'
    BY <2>1, <2>2, <2>3 DEF Progress, Removed
  <2>. QED BY <1>0, <2>1, <2>3, <2>4, InsideStep DEF Inside, TypeOK
<1>14. ASSUME NEW t \in Threads, PutMin(t) PROVE IInv'
  <2>1. /\ at[t] = "putmin" /\ at' = [at EXCEPT ![t] = "leave"] /\ at'[t] = "leave"
        /\ mem' = [mem EXCEPT !.fdmin = loc[t].fdmin] /\ UNCHANGED <<lock, call, loc, committed>>
    BY <1>0, <1>14 DEF PutMin, Goto, TypeOK
  <2>2. /\ call[t].op = "rm" /\ mem.set = ClearBits(committed.set, Fd(t), {"read"})
        /\ loc[t].fdmin = Removed(t).fdmin /\ mem.fdmax = Removed(t).fdmax
    BY <2>1 DEF IInv, Progress, Inside
  <2>3. /\ mem' \in Masters(Fds) /\ mem'.set = mem.set
        /\ mem'.fdmin = loc[t].fdmin /\ mem'.fdmax = mem.fdmax
    BY <1>0, <2>1 DEF TypeOK, Masters
  <2>4. Removed(t).set = ClearBits(committed.set, Fd(t), {"read"})
    BY <1>0, RemovedIsRecalculated
  <2>5. mem' = Removed(t)
    BY <1>0, <2>2, <2>3, <2>4, MasterExt, Results
  <2>6. Progress(t)'
    BY <2>1, <2>2, <2>5 DEF Progress, Removed
  <2>. QED BY <1>0, <2>1, <2>3, <2>6, InsideStep DEF Inside, TypeOK
<1>. QED
  BY <1>1, <1>2, <1>3, <1>4, <1>5, <1>6, <1>7, <1>8, <1>9, <1>10, <1>11, <1>12,
     <1>13, <1>14 DEF Next, Step
-----------------------------------------------------------------------------
(* The theorems *)

\* For every number of threads and descriptors, the bounds are exact whenever
\* no thread is inside a call of the critical section.
THEOREM QuietIsExact ==
  ASSUME LockKind = "critical_section"
  PROVE  Spec => []QuietExact
<1>1. IInv => QuietExact
  <2>. SUFFICES ASSUME IInv, Quiet PROVE Exact(mem)
    BY DEF QuietExact
  <2>1. mem = committed
    BY DEF IInv, Quiet, Inside
  <2>. QED BY <2>1 DEF IInv, Committed
<1>2. IInv /\ [Next]_vars => IInv'
  BY NextIInv
<1>. QED BY InitIInv, <1>1, <1>2, PTL DEF Spec

\* The abstract module has its own copies of the operators of MasterSet.
LEMMA SameOperators ==
  /\ Atomic!InitMaster = InitMaster
  /\ \A m, fd, flags : /\ Atomic!AddSocket(m, fd, flags) = AddSocket(m, fd, flags)
                       /\ Atomic!RmSocket(m, fd, flags) = RmSocket(m, fd, flags)
<1>1. Atomic!InitMaster = InitMaster
  BY DEF Atomic!InitMaster, InitMaster, Atomic!Kinds, Kinds
<1>2. \A m : Atomic!Watched(m) = Watched(m)
  BY DEF Atomic!Watched, Watched, Atomic!Kinds, Kinds
<1>3. \A m : Atomic!InBounds(m) = InBounds(m)
  BY <1>2 DEF Atomic!InBounds, InBounds
<1>4. \A S : Atomic!Min(S) = Min(S) /\ Atomic!Max(S) = Max(S)
  BY DEF Atomic!Min, Min, Atomic!Max, Max
<1>5. \A m : Atomic!CalcMinMax(m) = CalcMinMax(m)
  BY <1>3, <1>4 DEF Atomic!CalcMinMax, CalcMinMax
<1>6. \A s, fd, flags : /\ Atomic!SetBits(s, fd, flags) = SetBits(s, fd, flags)
                       /\ Atomic!ClearBits(s, fd, flags) = ClearBits(s, fd, flags)
  BY DEF Atomic!SetBits, SetBits, Atomic!ClearBits, ClearBits, Atomic!Kinds, Kinds
<1>7. \A m, fd, flags : Atomic!AddSocket(m, fd, flags) = AddSocket(m, fd, flags)
  BY <1>6 DEF Atomic!AddSocket, AddSocket, Atomic!LowerBound, LowerBound,
              Atomic!UpperBound, UpperBound
<1>8. \A m, fd, flags : Atomic!RmSocket(m, fd, flags) = RmSocket(m, fd, flags)
  BY <1>2, <1>5, <1>6 DEF Atomic!RmSocket, RmSocket
<1>. QED BY <1>1, <1>7, <1>8

\* Every step leaves the committed master alone or applies one whole call to it.
LEMMA StepRefines == IInv /\ [Next]_vars => [Atomic!Next]_committed
<1>. SUFFICES ASSUME IInv, [Next]_vars, committed' # committed PROVE Atomic!Next
  OBVIOUS
<1>1. PICK t \in Threads : Leave(t)
  BY DEF Next, Step, vars, Begin, Enter, Raise, LoadWord, StoreWord, TestLow, SetLow,
         TestHigh, SetHigh, Scan, PutMax, PutMin
<1>2. at[t] = "leave" /\ committed' = mem
  BY <1>1 DEF Leave
<1>3. committed' = IF call[t].op = "add" THEN Added(t) ELSE Removed(t)
  BY <1>2 DEF IInv, Progress, Inside
<1>4. call[t].fd \in Fds
  BY DEF IInv, TypeOK, Calls
<1>. QED BY <1>3, <1>4, SameOperators DEF Atomic!Next, Added, Removed

\* A step keeps the types, whoever else is inside: no access writes a number
\* that it has not read or been called with.
LEMMA TypesNext == TypeOK /\ [Next]_vars => TypeOK'
<1>. SUFFICES ASSUME TypeOK, [Next]_vars PROVE TypeOK'
  OBVIOUS
<1>0. Fds \in SUBSET (Nat \ {0}) /\ "read" \in Kinds
  BY FdsAssumption DEF Kinds
<1>1. CASE UNCHANGED vars
  BY <1>1 DEF vars, TypeOK
<1>2. ASSUME NEW t \in Threads, Begin(t) PROVE TypeOK'
  BY <1>2 DEF Begin, Goto, TypeOK, Labels
<1>3. ASSUME NEW t \in Threads, Enter(t) \/ Raise(t) PROVE TypeOK'
  BY <1>3 DEF Enter, Raise, Goto, TypeOK, Labels, Inside
<1>4. ASSUME NEW t \in Threads, Leave(t) PROVE TypeOK'
  BY <1>4 DEF Leave, Goto, TypeOK, Labels, NoLoc
<1>5. ASSUME NEW t \in Threads, LoadWord(t) PROVE TypeOK'
  <2>1. mem.set["read"] \in SUBSET Fds
    BY <1>0 DEF TypeOK, Masters
  <2>. QED BY <1>5, <2>1 DEF LoadWord, Goto, TypeOK, Labels, Inside
<1>6. ASSUME NEW t \in Threads, StoreWord(t) PROVE TypeOK'
  <2>1. PICK new \in SUBSET Fds : mem' = [mem EXCEPT !.set["read"] = new]
    BY <1>6 DEF StoreWord, TypeOK, Calls
  <2>2. mem' \in Masters(Fds)
    BY <2>1 DEF TypeOK, Masters
  <2>. QED BY <1>6, <2>2 DEF StoreWord, Goto, TypeOK, Labels, Inside
<1>7. ASSUME NEW t \in Threads, TestLow(t) \/ TestHigh(t) PROVE TypeOK'
  BY <1>7 DEF TestLow, TestHigh, Goto, TypeOK, Labels, Inside
<1>8. ASSUME NEW t \in Threads, SetLow(t) \/ SetHigh(t) PROVE TypeOK'
  <2>1. call[t].fd \in Fds
    BY DEF TypeOK, Calls
  <2>2. mem' \in Masters(Fds)
    BY <1>8, <2>1 DEF SetLow, SetHigh, TypeOK, Masters
  <2>. QED BY <1>8, <2>2 DEF SetLow, SetHigh, Goto, TypeOK, Labels, Inside
<1>9. ASSUME NEW t \in Threads, Scan(t) PROVE TypeOK'
  <2>1. CalcMinMax(mem) \in Masters(Fds)
    BY <1>0, CalcMinMaxExact DEF TypeOK
  <2>2. CalcMinMax(mem).fdmin \in Fds \cup {0} /\ CalcMinMax(mem).fdmax \in Fds \cup {0}
    BY <2>1 DEF Masters
  <2>. QED BY <1>9, <2>2 DEF Scan, Goto, TypeOK, Labels, Inside
<1>10. ASSUME NEW t \in Threads, PutMax(t) \/ PutMin(t) PROVE TypeOK'
  <2>1. mem' \in Masters(Fds)
    BY <1>10 DEF PutMax, PutMin, TypeOK, Masters
  <2>. QED BY <1>10, <2>1 DEF PutMax, PutMin, Goto, TypeOK, Labels, Inside
<1>. QED BY <1>1, <1>2, <1>3, <1>4, <1>5, <1>6, <1>7, <1>8, <1>9, <1>10 DEF Next, Step

\* With either lock no access finds a value of another type: even where two
\* threads are inside at once, what is written over is a bound or a set of
\* numbers that the program was given, or 0.
THEOREM TypeCorrect == Spec => []TypeOK
<1>1. Init => TypeOK
  BY InitIInv DEF IInv
<1>. QED BY <1>1, TypesNext, PTL DEF Spec

\* Under a critical section the detailed calls implement the atomic ones, for
\* every number of threads and descriptors.
THEOREM ImplementsAtomic ==
  ASSUME LockKind = "critical_section"
  PROVE  Spec => RefinesAtomic
<1>1. Init => Atomic!Init
  BY SameOperators DEF Init, Atomic!Init
<1>2. IInv /\ [Next]_vars => IInv'
  BY NextIInv
<1>. QED BY InitIInv, <1>1, <1>2, StepRefines, PTL DEF Spec, RefinesAtomic, Atomic!Spec
-----------------------------------------------------------------------------
(* The value of the lock, for both kinds *)

\* What a lock of kind k counts: n, the threads of T that are inside when they are
\* at a.  The memory, which a lost update spoils on POSIX, does not matter to it.
Counted(T, k, a, n) ==
    /\ a \in [T -> Labels]
    /\ n = Cardinality({t \in T : a[t] \in Inside})
    /\ k = "critical_section" => \A t \in T : a[t] # "raise"

\* One thread goes on, and the value is changed exactly when it gets in or out.
Moves(T, k, a, n, b, m) ==
    \E t \in T, l \in Labels :
      /\ b = [a EXCEPT ![t] = l]
      /\ k = "critical_section" => l # "raise"
      /\ \/ (a[t] \in Inside <=> l \in Inside) /\ m = n
         \/ a[t] \notin Inside /\ l \in Inside /\ m = n + 1
         \/ a[t] \in Inside /\ l \notin Inside /\ m = n - 1

\* The threads inside are finitely many, so that one more or one less of them
\* is counted.
LEMMA CountOne ==
  ASSUME NEW T, IsFiniteSet(T), NEW S \in SUBSET T
  PROVE  /\ Cardinality(S) \in Nat
         /\ \A t \in T \ S : Cardinality(S \cup {t}) = Cardinality(S) + 1
         /\ \A t \in S : Cardinality(S \ {t}) = Cardinality(S) - 1
  BY FS_Subset, FS_CardinalityType, FS_AddElement, FS_RemoveElement

\* Before the first call nobody is inside.
LEMMA CountedAtFirst ==
  ASSUME NEW T, NEW k
  PROVE  Counted(T, k, [t \in T |-> "idle"], 0)
<1>1. {t \in T : [u \in T |-> "idle"][t] \in Inside} = {}
  BY DEF Inside
<1>. QED BY <1>1, FS_EmptySet DEF Counted, Labels

\* The lock counts on.
LEMMA MovesCounted ==
  ASSUME NEW T, IsFiniteSet(T), NEW k, NEW a, NEW n, NEW b, NEW m,
         Counted(T, k, a, n), Moves(T, k, a, n, b, m)
  PROVE  Counted(T, k, b, m)
<1>. DEFINE A == {t \in T : a[t] \in Inside}
            B == {t \in T : b[t] \in Inside}
<1>1. PICK t \in T, l \in Labels :
        /\ b = [a EXCEPT ![t] = l]
        /\ k = "critical_section" => l # "raise"
        /\ \/ (a[t] \in Inside <=> l \in Inside) /\ m = n
           \/ a[t] \notin Inside /\ l \in Inside /\ m = n + 1
           \/ a[t] \in Inside /\ l \notin Inside /\ m = n - 1
  BY DEF Moves
<1>2. b \in [T -> Labels] /\ \A u \in T : b[u] = IF u = t THEN l ELSE a[u]
  BY <1>1 DEF Counted
<1>3. n = Cardinality(A) /\ A \in SUBSET T
  BY DEF Counted
<1>4. m = Cardinality(B)
  <2>1. CASE (a[t] \in Inside <=> l \in Inside) /\ m = n
    <3>1. B = A
      BY <1>2, <2>1
    <3>. QED BY <2>1, <3>1, <1>3
  <2>2. CASE a[t] \notin Inside /\ l \in Inside /\ m = n + 1
    <3>1. B = A \cup {t} /\ t \in T \ A
      BY <1>2, <2>2
    <3>. HIDE DEF A, B
    <3>. QED BY <2>2, <3>1, <1>3, CountOne
  <2>3. CASE a[t] \in Inside /\ l \notin Inside /\ m = n - 1
    <3>1. B = A \ {t} /\ t \in A
      BY <1>2, <2>3
    <3>. HIDE DEF A, B
    <3>. QED BY <2>3, <3>1, <1>3, CountOne
  <2>. QED BY <1>1, <2>1, <2>2, <2>3
<1>5. k = "critical_section" => \A u \in T : b[u] # "raise"
  BY <1>1, <1>2 DEF Counted
<1>. QED BY <1>2, <1>4, <1>5 DEF Counted

\* What is inside a call, and what is not.
LEMMA LabelsApart ==
  /\ Inside \subseteq Labels /\ "raise" \notin Inside
  /\ \A l \in {"idle", "enter", "raise"} : l \in Labels /\ l \notin Inside
BY DEF Labels, Inside

\* Every step of MasterLock is such a move, or leaves the lock and the places alone.
LEMMA StepMoves ==
  ASSUME [Next]_vars
  PROVE  UNCHANGED <<at, lock>> \/ Moves(Threads, LockKind, at, lock, at', lock')
<1>1. CASE UNCHANGED vars
  BY <1>1 DEF vars
<1>2. ASSUME NEW t \in Threads, Begin(t) PROVE Moves(Threads, LockKind, at, lock, at', lock')
  BY <1>2, LabelsApart DEF Begin, Goto, Moves
<1>3. ASSUME NEW t \in Threads, Enter(t) PROVE Moves(Threads, LockKind, at, lock, at', lock')
  <2>1. CASE LockKind = "critical_section"
    <3>1. /\ at[t] = "enter" /\ at' = [at EXCEPT ![t] = "load"] /\ lock' = lock + 1
          /\ "load" \in Inside
      BY <1>3, <2>1 DEF Enter, Goto, Inside
    <3>. QED BY <3>1, LabelsApart DEF Moves
  <2>2. CASE LockKind # "critical_section"
    BY <1>3, <2>2, LabelsApart DEF Enter, Goto, Moves
  <2>. QED BY <2>1, <2>2
<1>4. ASSUME NEW t \in Threads, Raise(t) PROVE Moves(Threads, LockKind, at, lock, at', lock')
  <2>1. "load" \in Inside
    BY DEF Inside
  <2>. QED BY <1>4, <2>1, LabelsApart DEF Raise, Goto, Moves
<1>5. ASSUME NEW t \in Threads, Leave(t) PROVE Moves(Threads, LockKind, at, lock, at', lock')
  <2>1. "leave" \in Inside
    BY DEF Inside
  <2>. QED BY <1>5, <2>1, LabelsApart DEF Leave, Goto, Moves
<1>6. ASSUME NEW t \in Threads,
             \/ LoadWord(t) \/ StoreWord(t) \/ TestLow(t) \/ SetLow(t)
             \/ TestHigh(t) \/ SetHigh(t) \/ Scan(t) \/ PutMax(t) \/ PutMin(t)
      PROVE  Moves(Threads, LockKind, at, lock, at', lock')
  <2>1. PICK l \in Inside : at' = [at EXCEPT ![t] = l] /\ at[t] \in Inside /\ lock' = lock
    BY <1>6 DEF LoadWord, StoreWord, TestLow, SetLow, TestHigh, SetHigh, Scan, PutMax, PutMin,
                Goto, Inside
  <2>. QED BY <2>1, LabelsApart DEF Moves
<1>. QED BY <1>1, <1>2, <1>3, <1>4, <1>5, <1>6 DEF Next, Step

\* The lock never jams, for any number of threads, on Windows and on POSIX: its
\* value is the number of threads inside, although on POSIX these may be several.
THEOREM LockNeverJams == Spec => []LockCounts
<1>. DEFINE I == Counted(Threads, LockKind, at, lock)
<1>1. Init => I
  BY CountedAtFirst DEF Init
<1>2. I /\ [Next]_vars => I'
  <2>. SUFFICES ASSUME I, [Next]_vars PROVE I'
    OBVIOUS
  <2>1. CASE UNCHANGED <<at, lock>>
    BY <2>1 DEF Counted
  <2>2. CASE Moves(Threads, LockKind, at, lock, at', lock')
    BY <2>2, ThreadsAssumption, MovesCounted
  <2>. QED BY <2>1, <2>2, StepMoves
<1>3. I => LockCounts
  BY DEF Counted, LockCounts
<1>. QED BY <1>1, <1>2, <1>3, PTL DEF Spec
-----------------------------------------------------------------------------
(* The semaphore of MCLocks *)

\* Every step of its threads is a move, too.
LEMMA SemMoves ==
  ASSUME Sem!Next
  PROVE  Moves({t1, t2}, "semaphore", at2, lock2, at2', lock2')
<1>. DEFINE M == Moves({t1, t2}, "semaphore", at2, lock2, at2', lock2')
<1>1. PICK t \in {t1, t2} : Sem!Begin(t) \/ Sem!Step(t)
  BY DEF Sem!Next
<1>2. CASE Sem!Begin(t) \/ Sem!Enter(t)
  <2>1. PICK l \in {"enter", "raise"} :
          at2' = [at2 EXCEPT ![t] = l] /\ at2[t] \in {"idle", "enter"} /\ lock2' = lock2
    BY <1>2 DEF Sem!Begin, Sem!Enter, Sem!Goto
  <2>. QED BY <2>1, LabelsApart DEF Moves
<1>3. CASE Sem!Raise(t)
  <2>1. at2' = [at2 EXCEPT ![t] = "load"] /\ at2[t] = "raise" /\ lock2' = lock2 + 1
    BY <1>3 DEF Sem!Raise, Sem!Goto
  <2>2. "load" \in Inside
    BY DEF Inside
  <2>. QED BY <2>1, <2>2, LabelsApart DEF Moves
<1>4. CASE Sem!Leave(t)
  <2>1. at2' = [at2 EXCEPT ![t] = "idle"] /\ at2[t] = "leave" /\ lock2' = lock2 - 1
    BY <1>4 DEF Sem!Leave, Sem!Goto
  <2>2. "leave" \in Inside
    BY DEF Inside
  <2>. QED BY <2>1, <2>2, LabelsApart DEF Moves
<1>5. CASE \/ Sem!LoadWord(t) \/ Sem!StoreWord(t) \/ Sem!TestLow(t) \/ Sem!SetLow(t)
           \/ Sem!TestHigh(t) \/ Sem!SetHigh(t) \/ Sem!Scan(t) \/ Sem!PutMax(t) \/ Sem!PutMin(t)
  <2>1. PICK l \in Inside : at2' = [at2 EXCEPT ![t] = l] /\ at2[t] \in Inside /\ lock2' = lock2
    BY <1>5 DEF Sem!LoadWord, Sem!StoreWord, Sem!TestLow, Sem!SetLow, Sem!TestHigh, Sem!SetHigh,
                Sem!Scan, Sem!PutMax, Sem!PutMin, Sem!Goto, Inside
  <2>. QED BY <2>1, LabelsApart DEF Moves
<1>. QED BY <1>1, <1>2, <1>3, <1>4, <1>5 DEF Sem!Step

\* In the behaviours of MCLocks, one lock after the other, the semaphore of two
\* threads never jams.
THEOREM SemaphoreNeverJams == LocksSpec => []SemaphoreCounts
<1>. DEFINE I == Counted({t1, t2}, "semaphore", at2, lock2)
<1>1. LocksInit => I
  BY CountedAtFirst DEF LocksInit, Sem!Init
<1>2. I /\ [LocksNext]_<<kind, vars, vars2>> => I'
  <2>. SUFFICES ASSUME I, [LocksNext]_<<kind, vars, vars2>> PROVE I'
    OBVIOUS
  <2>1. CASE UNCHANGED <<at2, lock2>>
    BY <2>1 DEF Counted
  <2>2. CASE Sem!Next
    <3>1. IsFiniteSet({t1} \cup {t2})
      BY FS_Singleton, FS_AddElement
    <3>2. IsFiniteSet({t1, t2})
      <4>1. {t1, t2} = {t1} \cup {t2}
        OBVIOUS
      <4>. QED BY <3>1, <4>1
    <3>. QED BY <2>2, <3>2, SemMoves, MovesCounted
  <2>. QED BY <2>1, <2>2 DEF LocksNext, vars2
<1>3. I => SemaphoreCounts
  <2>1. Sem!Cardinality({t \in {t1, t2} : at2[t] \in Sem!Inside})
        = Cardinality({t \in {t1, t2} : at2[t] \in Inside})
    <3>1. Sem!Inside = Inside
      BY DEF Inside, Sem!Inside
    <3>2. \A S : Sem!Cardinality(S) = Cardinality(S)
      BY DEF Cardinality, Sem!Cardinality
    <3>. QED BY <3>1, <3>2
  <2>. QED BY <2>1 DEF Counted, SemaphoreCounts, Sem!LockCounts
<1>. QED BY <1>1, <1>2, <1>3, PTL DEF LocksSpec
=============================================================================
