----------------------------- MODULE ProxyProofs -----------------------------
(***************************************************************************)
(* The tables of the proxy, for any number of descriptors, records,        *)
(* clients and UDP sockets: they keep their types; up to the first use of  *)
(* a stale pointer or number no pointer of the map dangles, select() is    *)
(* handed no closed number, and a UDP socket loses its client only to      *)
(* another one of that client; no client is counted that is not there, if  *)
(* none has to authenticate.                                               *)
(*                                                                         *)
(* What an action does to the tables is first stated as a relation of the  *)
(* tables before and after (GoesOn, Allocates, Freed, Loses); the          *)
(* invariant is then carried over each relation once.                      *)
(***************************************************************************)
EXTENDS Proxy, WellFoundedInduction, FiniteSetTheorems, TLAPS

\* The order of the naturals as a relation.
Below == {ss \in Nat \X Nat : ss[1] < ss[2]}

\* A non-empty set of naturals has a least element, and Min picks it.
LEMMA MinOfSet ==
  ASSUME NEW S \in SUBSET Nat, S # {}
  PROVE  Min(S) \in S
<1>1. IsWellFoundedOn(Below, Nat)
  BY NatLessThanWellFounded DEF Below, OpToRel
<1>2. PICK m \in S : \A y \in S : ~ (<<y, m>> \in Below)
  BY <1>1, WFMin
<1>3. \A y \in S : ~ (y < m)
  BY <1>2 DEF Below
<1>4. \A y \in S : m <= y
  BY <1>3
<1>. QED BY <1>4 DEF Min

\* The next number and the next record are free ones, if there is room.
LEMMA RoomGives ==
  ASSUME NEW T, Room(T)
  PROVE  NextFd(T) \in Free(T) /\ NextRec(T) \in Unused(T)
  BY MinOfSet, RecAssumption DEF Room, NextFd, NextRec, Free, Unused

\* NULL and the dangling pointer are no records.
LEMMA PtrFacts ==
  /\ Recs \subseteq Ptrs /\ NoRec \in Ptrs /\ Gone \in Ptrs /\ NoRec \notin Recs
  /\ Gone \notin Recs /\ NoRec # Gone /\ NoRec \notin Fds
  BY RecAssumption DEF Ptrs

\* free() leaves the tables tables.
LEMMA ReleaseTypes ==
  ASSUME NEW T \in Tables, NEW R \in SUBSET Recs
  PROVE  Release(T, R) \in Tables
<1>. DEFINE ptr(p) == IF p \in R THEN Gone ELSE p
            rec == [r \in Recs |-> IF r \in R THEN NoRecord
                                  ELSE [T.rec[r] EXCEPT !.control = ptr(@)]]
            thread == [r \in Recs |-> [T.thread[r] EXCEPT !.control = ptr(@)]]
            hm == [f \in Fds |-> ptr(T.hm[f])]
<1>. USE PtrFacts
<1>1. rec \in [Recs -> Records]
  BY DEF Tables, Records, NoRecord, New
<1>2. thread \in [Recs -> Threads]
  BY DEF Tables, Threads
<1>3. hm \in [Fds -> Ptrs] /\ ptr(T.server) \in Ptrs
  BY DEF Tables
<1>4. Release(T, R) = [T EXCEPT !.rec = rec, !.thread = thread, !.hm = hm, !.server = ptr(T.server)]
  BY DEF Release
<1>. HIDE DEF rec, thread, hm, ptr
<1>. QED BY <1>1, <1>2, <1>3, <1>4 DEF Tables

\* rm_socket(..., MASTER_ALL) and walk_master() leave the tables tables.
LEMMA DropTypes ==
  ASSUME NEW T \in Tables, NEW F
  PROVE  Drop(T, F) \in Tables
<1>. DEFINE D == [T EXCEPT !.watch = [f \in Fds |-> IF f \in F THEN {} ELSE T.watch[f]],
                      !.open = [f \in Fds |-> IF f \in F THEN NoRec ELSE T.open[f]],
                      !.hm = [f \in Fds |-> IF f \in F THEN NoRec ELSE T.hm[f]]]
<1>1. D \in Tables
  BY PtrFacts DEF Tables
<1>2. {T.hm[f] : f \in F} \cap Recs \in SUBSET Recs
  OBVIOUS
<1>3. Drop(T, F) = Release(D, {T.hm[f] : f \in F} \cap Recs)
  BY DEF Drop
<1>. HIDE DEF D
<1>. QED BY <1>1, <1>2, <1>3, ReleaseTypes

\* add_socket() leaves the tables tables.
LEMMA AddSocketTypes ==
  ASSUME NEW T \in Tables, NEW f, NEW r \in Ptrs, NEW k \in Kinds
  PROVE  AddSocket(T, f, r, k) \in Tables
  BY DEF AddSocket, Tables

\* closesocket() leaves the tables tables.
LEMMA CloseTypes ==
  ASSUME NEW T \in Tables, NEW f
  PROVE  Close(T, f) \in Tables
  BY PtrFacts DEF Close, Tables

\* A new record with its socket leaves the tables tables.
LEMMA OpensTypes ==
  ASSUME NEW T \in Tables, NEW r \in Recs, NEW rec \in Records
  PROVE  Opens(T, r, rec) \in Tables
  BY PtrFacts DEF Opens, Tables

\* A new record is a record.
LEMMA NewTypes ==
  ASSUME NEW kind \in {"client", "server", "udp"}, NEW f \in Fds,
         NEW step \in {"connected", "request"}, NEW c \in Ptrs
  PROVE  New(kind, f, step, c) \in Records
  BY DEF New, Records

\* A record with another step, closed or reply is a record, and so are records
\* of which one is changed.
LEMMA RecTypes ==
  ASSUME NEW R \in [Recs -> Records], NEW r
  PROVE  /\ [R EXCEPT ![r].step = "request"] \in [Recs -> Records]
         /\ [R EXCEPT ![r].closed = TRUE] \in [Recs -> Records]
         /\ \A b \in BOOLEAN : [R EXCEPT ![r].reply = b] \in [Recs -> Records]
<1>1. \A q \in Recs : R[q] \in Records
  OBVIOUS
<1>2. ASSUME NEW q \in Recs
      PROVE  /\ [R[q] EXCEPT !.step = "request"] \in Records
             /\ [R[q] EXCEPT !.closed = TRUE] \in Records
             /\ \A b \in BOOLEAN : [R[q] EXCEPT !.reply = b] \in Records
  BY <1>1 DEF Records
<1>. QED BY <1>2

\* The tables with one of them replaced are tables.
LEMMA FieldTypes ==
  ASSUME NEW T \in Tables
  PROVE  /\ \A R \in [Recs -> Records] : [T EXCEPT !.rec = R] \in Tables
         /\ \A H \in [Recs -> Threads] : [T EXCEPT !.thread = H] \in Tables
         /\ \A W \in [Fds -> SUBSET Kinds] : [T EXCEPT !.watch = W] \in Tables
         /\ \A p \in Ptrs : [T EXCEPT !.server = p] \in Tables
  BY DEF Tables

\* A step of a record leaves the tables tables.
LEMMA RecordTypes ==
  ASSUME NEW T \in Tables, NEW r
  PROVE  /\ [T EXCEPT !.rec[r].step = "request"] \in Tables
         /\ [T EXCEPT !.rec[r].closed = TRUE] \in Tables
         /\ \A b \in BOOLEAN : [T EXCEPT !.rec[r].reply = b] \in Tables
<1>1. T.rec \in [Recs -> Records]
  BY DEF Tables
<1>2. /\ [T EXCEPT !.rec[r].step = "request"] = [T EXCEPT !.rec = [T.rec EXCEPT ![r].step = "request"]]
      /\ [T EXCEPT !.rec[r].closed = TRUE] = [T EXCEPT !.rec = [T.rec EXCEPT ![r].closed = TRUE]]
      /\ \A b \in BOOLEAN : [T EXCEPT !.rec[r].reply = b] = [T EXCEPT !.rec = [T.rec EXCEPT ![r].reply = b]]
  OBVIOUS
<1>. QED BY <1>1, <1>2, RecTypes, FieldTypes

\* A thread that goes on leaves the tables tables.
LEMMA ThreadAtTypes ==
  ASSUME NEW T \in Tables, NEW r, NEW a \in {"none", "connect", "bind", "register", "reply", "write"}
  PROVE  [T EXCEPT !.thread[r].at = a] \in Tables
<1>1. T.thread \in [Recs -> Threads]
  BY DEF Tables
<1>2. [T EXCEPT !.thread[r].at = a] = [T EXCEPT !.thread = [T.thread EXCEPT ![r].at = a]]
  OBVIOUS
<1>3. \A q \in Recs : [T.thread[q] EXCEPT !.at = a] \in Threads
  BY <1>1 DEF Threads
<1>4. [T.thread EXCEPT ![r].at = a] \in [Recs -> Threads]
  BY <1>1, <1>3
<1>. QED BY <1>2, <1>4, FieldTypes

\* A thread that starts or ends leaves the tables tables.
LEMMA ThreadTypes ==
  ASSUME NEW T \in Tables, NEW r, NEW h \in Threads
  PROVE  [T EXCEPT !.thread[r] = h] \in Tables
<1>1. [T EXCEPT !.thread[r] = h] = [T EXCEPT !.thread = [T.thread EXCEPT ![r] = h]]
  OBVIOUS
<1>2. [T.thread EXCEPT ![r] = h] \in [Recs -> Threads]
  BY DEF Tables
<1>. QED BY <1>1, <1>2, FieldTypes

\* Sets of which bits are taken out leave the tables tables.
LEMMA WatchTypes ==
  ASSUME NEW T \in Tables, NEW f, NEW K
  PROVE  [T EXCEPT !.watch[f] = @ \ K] \in Tables
<1>1. [T EXCEPT !.watch[f] = @ \ K] = [T EXCEPT !.watch = [T.watch EXCEPT ![f] = @ \ K]]
  OBVIOUS
<1>2. [T.watch EXCEPT ![f] = @ \ K] \in [Fds -> SUBSET Kinds]
  BY DEF Tables
<1>. QED BY <1>1, <1>2, FieldTypes

\* register_on_server() leaves the tables tables.
LEMMA RegisterTypes ==
  ASSUME NEW T \in Tables
  PROVE  Register(T) \in Tables
<1>1. CASE ~Room(T)
  BY <1>1 DEF Register
<1>2. CASE Room(T)
  <2>. DEFINE r == NextRec(T)
              O == Opens(T, r, New("server", NextFd(T), "request", NoRec))
  <2>1. r \in Recs /\ NextFd(T) \in Fds
    BY <1>2, RoomGives DEF Free, Unused
  <2>2. O \in Tables
    BY <2>1, OpensTypes, NewTypes, PtrFacts
  <2>3. Register(T) = [O EXCEPT !.server = r, !.thread[r].at = "connect"]
    BY <1>2 DEF Register
  <2>4. [O EXCEPT !.server = r, !.thread[r].at = "connect"]
          = [[O EXCEPT !.server = r] EXCEPT !.thread[r].at = "connect"]
    <3>. HIDE DEF O, r
    <3>. QED BY <2>2 DEF Tables
  <2>. HIDE DEF O, r
  <2>5. [O EXCEPT !.server = r] \in Tables
    BY <2>1, <2>2, FieldTypes, PtrFacts
  <2>6. [[O EXCEPT !.server = r] EXCEPT !.thread[r].at = "connect"] \in Tables
    BY <2>5, ThreadAtTypes
  <2>. QED BY <2>3, <2>4, <2>6
<1>. QED BY <1>1, <1>2
-----------------------------------------------------------------------------
\* RmSocket leaves the tables tables.
LEMMA RmSocketTypes ==
  ASSUME NEW T \in Tables, NEW f \in Fds, NEW flags \in SUBSET Kinds
  PROVE  RmSocket(T, f, flags) \in Tables
<1>1. CASE T.watch[f] \subseteq flags
  BY <1>1, DropTypes DEF RmSocket
<1>2. CASE ~ (T.watch[f] \subseteq flags)
  BY <1>2, WatchTypes DEF RmSocket
<1>. QED BY <1>1, <1>2

\* Every action leaves the tables tables.
LEMMA TablesKept ==
  ASSUME TypeOK, Next
  PROVE  tab' \in Tables
<1>0. tab \in Tables /\ tab.hm \in [Fds -> Ptrs] /\ \A f \in Fds, c \in Recs : Walked(tab, c) \cup {f} \in SUBSET Fds
  BY DEF TypeOK, Tables, Walked
<1>. USE <1>0, PtrFacts
<1>1. CASE Accept
  <2>. DEFINE f == NextFd(tab)
              c == NextRec(tab)
              T == Opens(tab, c, New("client", f, "connected", NoRec))
              S == AddSocket(T, f, c, "read")
  <2>1. f \in Fds /\ c \in Recs
    BY <1>1, RoomGives DEF Accept, Free, Unused
  <2>2. T \in Tables
    BY <2>1, OpensTypes, NewTypes
  <2>3. S \in Tables
    <3>. HIDE DEF T, c, f
    <3>. QED BY <2>1, <2>2, AddSocketTypes DEF Kinds
  <2>4. Greets(S, c)
    BY <1>1 DEF Accept
  <2>. HIDE DEF S, c
  <2>. QED BY <2>3, <2>4, RecordTypes DEF Greets
<1>2. ASSUME NEW f \in Fds, Garbage(f) PROVE tab' \in Tables
  BY <1>2, DropTypes DEF Garbage
<1>3. ASSUME NEW f \in Fds, NEW c \in Recs, Handler(f, c) PROVE tab' \in Tables
  <2>1. CASE Hello(f, c)
    <3>1. Drop(tab, {f}) \in Tables
      BY DropTypes
    <3>2. [tab EXCEPT !.rec[c].step = "request"] \in Tables
      BY RecordTypes
    <3>. QED BY <2>1, <3>1, <3>2 DEF Hello
  <2>2. CASE HangUp(f, c)
    BY <2>2, DropTypes DEF HangUp
  <2>3. CASE AuthFails(f, c)
    BY <2>3, DropTypes DEF AuthFails
  <2>4. CASE Bind(f, c)
    <3>1. CASE ~Room(tab)
      BY <2>4, <3>1 DEF Bind
    <3>2. CASE Room(tab)
      <4>. DEFINE u == NextRec(tab)
                  O == Opens(tab, u, New("udp", NextFd(tab), "connected", c))
                  h == [at |-> "bind", control |-> c]
      <4>1. u \in Recs /\ NextFd(tab) \in Fds
        BY <3>2, RoomGives DEF Free, Unused
      <4>2. O \in Tables
        BY <4>1, OpensTypes, NewTypes
      <4>3. h \in Threads
        BY DEF Threads
      <4>4. tab' = [O EXCEPT !.thread[u] = h]
        BY <2>4, <3>2 DEF Bind
      <4>. HIDE DEF O, u, h
      <4>. QED BY <4>2, <4>3, <4>4, ThreadTypes
    <3>. QED BY <3>1, <3>2
  <2>5. CASE Reset(f, c)
    <3>1. [tab EXCEPT !.rec[c].closed = TRUE] \in Tables
      BY RecordTypes
    <3>. QED BY <2>5, <3>1, DropTypes DEF Reset
  <2>6. ASSUME NEW g \in Fds, CloseReply(f, c, g) PROVE tab' \in Tables
    <3>1. [tab EXCEPT !.rec[c].closed = TRUE] \in Tables
      BY RecordTypes
    <3>. QED BY <2>6, <3>1, DropTypes DEF CloseReply
  <2>7. CASE Datagram(f, c)
    BY <2>7 DEF Datagram
  <2>8. CASE Registered(f, c)
    BY <2>8, DropTypes DEF Registered
  <2>9. CASE ClientWrite(f, c)
    <3>1. [tab EXCEPT !.rec[c].reply = FALSE] \in Tables
      BY RecordTypes
    <3>. QED BY <2>9, <3>1, RmSocketTypes DEF ClientWrite, Kinds
  <2>. QED BY <1>3, <2>1, <2>2, <2>3, <2>4, <2>5, <2>6, <2>7, <2>8, <2>9 DEF Handler
<1>4. CASE SelectFails
  <2>1. [f \in Fds |-> {}] \in [Fds -> SUBSET Kinds]
    OBVIOUS
  <2>2. [tab EXCEPT !.watch = [f \in Fds |-> {}]] \in Tables
    BY <2>1, FieldTypes
  <2>. QED BY <1>4, <2>2 DEF SelectFails
<1>5. CASE TimerStep
  <2>1. CASE TimerRegisters
    BY <2>1, RegisterTypes DEF TimerRegisters
  <2>2. CASE TimerExpires
    BY <2>2, CloseTypes DEF TimerExpires
  <2>3. CASE TimerRm
    BY <2>3, DropTypes DEF TimerRm
  <2>. QED BY <1>5, <2>1, <2>2, <2>3 DEF TimerStep
<1>6. CASE Tick
  BY <1>6 DEF Tick
<1>7. ASSUME NEW r \in Recs, ThreadStep(r) PROVE tab' \in Tables
  <2>0. NoThread \in Threads
    BY DEF NoThread, Threads
  <2>1. CASE ConnectEnds(r)
    <3>1. AddSocket(tab, tab.rec[r].sock, r, "read") \in Tables
      BY AddSocketTypes DEF Kinds
    <3>2. Ends(tab, r) \in Tables /\ Ends(AddSocket(tab, tab.rec[r].sock, r, "read"), r) \in Tables
      BY <2>0, <3>1, ThreadTypes DEF Ends
    <3>. QED BY <2>1, <3>2 DEF ConnectEnds
  <2>2. CASE BindPort(r)
    <3>. DEFINE f == tab.rec[r].sock
                A == AddSocket(tab, f, r, "read")
                L == Release(Close(tab, f), {r})
    <3>1. A \in Tables /\ L \in Tables
      BY AddSocketTypes, ReleaseTypes, CloseTypes DEF Kinds
    <3>2. \/ tab' = [A EXCEPT !.rec[r].step = "request", !.thread[r].at = "register"]
          \/ tab' = [L EXCEPT !.thread[r].at = "reply"]
      BY <2>2 DEF BindPort
    <3>. HIDE DEF A, L
    <3>3. [A EXCEPT !.rec[r].step = "request", !.thread[r].at = "register"]
            = [[A EXCEPT !.rec[r].step = "request"] EXCEPT !.thread[r].at = "register"]
      BY <3>1 DEF Tables
    <3>4. [A EXCEPT !.rec[r].step = "request"] \in Tables
      BY <3>1, RecordTypes
    <3>5. [[A EXCEPT !.rec[r].step = "request"] EXCEPT !.thread[r].at = "register"] \in Tables
      BY <3>4, ThreadAtTypes
    <3>6. [L EXCEPT !.thread[r].at = "reply"] \in Tables
      BY <3>1, ThreadAtTypes
    <3>. QED BY <3>2, <3>3, <3>5, <3>6
  <2>3. CASE BindRegisters(r)
    <3>1. Register(tab) \in Tables
      BY RegisterTypes
    <3>. QED BY <2>3, <3>1, ThreadAtTypes DEF BindRegisters
  <2>4. CASE BindReplies(r)
    <3>. DEFINE T == [tab EXCEPT !.thread[r].at = "write"]
                c == tab.thread[r].control
    <3>1. T \in Tables
      BY ThreadAtTypes
    <3>2. tab' = T \/ tab' = [T EXCEPT !.rec[c].reply = TRUE]
      BY <2>4 DEF BindReplies
    <3>. HIDE DEF T, c
    <3>. QED BY <3>1, <3>2, RecordTypes
  <2>5. CASE BindWrites(r)
    <3>. DEFINE c == tab.thread[r].control
    <3>1. c \in Ptrs
      BY DEF Tables, Threads
    <3>2. PICK f : tab' = Ends(AddSocket(tab, f, c, "write"), r)
      BY <2>5 DEF BindWrites
    <3>. HIDE DEF c
    <3>3. AddSocket(tab, f, c, "write") \in Tables
      BY <3>1, AddSocketTypes DEF Kinds
    <3>. QED BY <2>0, <3>2, <3>3, ThreadTypes DEF Ends
  <2>. QED BY <1>7, <2>1, <2>2, <2>3, <2>4, <2>5 DEF ThreadStep
<1>8. CASE Exited
  BY <1>8 DEF Exited, vars
<1>. QED BY <1>1, <1>2, <1>3, <1>4, <1>5, <1>6, <1>7, <1>8 DEF Next

\* The types of what is not in the tables.
ScalarsOK ==
    /\ nclients \in 0..MaxClients
    /\ disabled \in BOOLEAN /\ listening \in BOOLEAN /\ late \in BOOLEAN
    /\ age \in Ages
    /\ pc \in {"loop", "rm", "exit"}

\* Every action keeps those types.
LEMMA ScalarsKept ==
  ASSUME TypeOK, Next
  PROVE  ScalarsOK'
<1>0. ScalarsOK /\ MaxClients \in Nat
  BY BoundAssumption DEF ScalarsOK, TypeOK
<1>. USE <1>0 DEF ScalarsOK, Ages
<1>1. CASE Accept
  <2>1. PICK T, c : Greets(T, c)
    BY <1>1 DEF Accept
  <2>2. nclients' \in 0..MaxClients /\ age' \in Ages /\ listening' \in BOOLEAN
    <3>1. \/ nclients < MaxClients /\ nclients' = nclients + 1 /\ age' = "stale" /\ listening' = listening
          \/ listening' = FALSE /\ nclients' = nclients /\ age' = age
      BY <2>1 DEF Greets
    <3>2. nclients' \in 0..MaxClients
      <4>1. nclients \in 0..MaxClients /\ MaxClients \in Nat
        BY <1>0
      <4>2. \/ nclients' = nclients
            \/ nclients < MaxClients /\ nclients' = nclients + 1
        BY <3>1
      <4>. QED BY ONLY <4>1, <4>2
    <3>3. age' \in Ages
      BY <3>1
    <3>4. listening' \in BOOLEAN
      BY <3>1, Zenon
    <3>. QED BY <3>2, <3>3, <3>4
  <2>. QED BY <1>1, <2>2 DEF Accept
<1>2. ASSUME NEW f \in Fds, Garbage(f) PROVE ScalarsOK'
  BY <1>2 DEF Garbage
<1>3. ASSUME NEW f \in Fds, NEW c \in Recs, Handler(f, c) PROVE ScalarsOK'
  <2>1. CASE Hello(f, c)
    BY <2>1 DEF Hello
  <2>2. CASE HangUp(f, c)
    BY <2>2 DEF HangUp
  <2>3. CASE AuthFails(f, c) \/ Bind(f, c) \/ (\E g \in Fds : CloseReply(f, c, g)) \/ ClientWrite(f, c)
    BY <2>3 DEF AuthFails, Bind, CloseReply, ClientWrite
  <2>4. CASE Reset(f, c)
    BY <2>4 DEF Reset
  <2>5. CASE Datagram(f, c) \/ Registered(f, c)
    BY <2>5 DEF Datagram, Registered
  <2>. QED BY <1>3, <2>1, <2>2, <2>3, <2>4, <2>5 DEF Handler
<1>4. CASE SelectFails
  BY <1>4 DEF SelectFails
<1>5. CASE TimerStep
  <2>1. CASE TimerRegisters
    BY <2>1 DEF TimerRegisters
  <2>2. CASE TimerExpires
    BY <2>2 DEF TimerExpires
  <2>3. CASE TimerRm
    BY <2>3 DEF TimerRm
  <2>. QED BY <1>5, <2>1, <2>2, <2>3 DEF TimerStep
<1>6. CASE Tick
  BY <1>6 DEF Tick
<1>7. ASSUME NEW r \in Recs, ThreadStep(r) PROVE ScalarsOK'
  <2>1. CASE ConnectEnds(r)
    BY <2>1 DEF ConnectEnds
  <2>2. CASE BindPort(r)
    BY <2>2 DEF BindPort
  <2>3. CASE BindRegisters(r)
    BY <2>3 DEF BindRegisters
  <2>4. CASE BindReplies(r)
    BY <2>4 DEF BindReplies
  <2>5. CASE BindWrites(r)
    BY <2>5 DEF BindWrites
  <2>. QED BY <1>7, <2>1, <2>2, <2>3, <2>4, <2>5 DEF ThreadStep
<1>8. CASE Exited
  BY <1>8 DEF Exited, vars
<1>. QED BY <1>1, <1>2, <1>3, <1>4, <1>5, <1>6, <1>7, <1>8 DEF Next

\* Every step keeps the types.
LEMMA TypesKept ==
  ASSUME TypeOK, [Next]_vars
  PROVE  TypeOK'
<1>1. CASE UNCHANGED vars
  BY <1>1 DEF vars, TypeOK
<1>2. CASE Next
  <2>1. tab' \in Tables
    BY <1>2, TablesKept
  <2>2. ScalarsOK'
    BY <1>2, ScalarsKept
  <2>. QED BY <2>1, <2>2 DEF TypeOK, ScalarsOK
<1>. QED BY <1>1, <1>2

\* Records, threads, tables and counters keep their types, whatever stale
\* pointer or number the threads and the timer have used.
THEOREM ProxyTypes == Spec => []TypeOK
<1>1. Init => TypeOK
  <2>1. NoRecord \in Records /\ NoThread \in Threads
    BY PtrFacts DEF NoRecord, New, Records, NoThread, Threads
  <2>2. Init => tab \in Tables
    BY <2>1, PtrFacts DEF Init, Tables
  <2>3. Init => ScalarsOK
    <3>1. 0 \in 0..MaxClients
      BY BoundAssumption
    <3>. QED BY <3>1 DEF Init, ScalarsOK, Ages
  <2>. QED BY <2>2, <2>3 DEF TypeOK, ScalarsOK
<1>. QED BY <1>1, TypesKept, PTL DEF Spec
-----------------------------------------------------------------------------
\* A record has a number, and that of an attempt to register is complete.
RecordsOK(T) ==
    \A r \in Recs : /\ T.rec[r].kind # "none" => T.rec[r].sock \in Fds
                    /\ T.rec[r].kind = "server" => T.rec[r].step = "request"

\* A socket is open for the record that has its number.
OpenOK(T) ==
    \A f \in Fds : T.open[f] \in Recs =>
      T.rec[T.open[f]].kind # "none" /\ T.rec[T.open[f]].sock = f

\* The map holds no dangling pointer but the record of the number, which is
\* watched for reading; a number without a record is not watched.
MapOK(T) ==
    \A f \in Fds :
      /\ T.hm[f] # Gone
      /\ T.watch[f] # {} => T.hm[f] \in Recs
      /\ T.hm[f] \in Recs =>
           /\ T.rec[T.hm[f]].kind # "none" /\ T.rec[T.hm[f]].sock = f
           /\ "read" \in T.watch[f]
           /\ T.rec[T.hm[f]].step = "connected" => T.rec[T.hm[f]].kind = "client"

\* Record c is that of a client that was greeted and is still in the map.
IsClient(T, c) == /\ T.rec[c].kind = "client" /\ T.rec[c].step = "request"
                  /\ T.hm[T.rec[c].sock] = c

\* A thread that connects or is to bind has a record of its own, outside the
\* map; a thread of binding() has a client, or had one.
ThreadsOK(T) ==
    \A u \in Recs :
      /\ T.thread[u].at = "connect" => T.rec[u].kind = "server" /\ T.hm[T.rec[u].sock] # u
      /\ T.thread[u].at = "bind" => /\ T.rec[u].kind = "udp" /\ T.hm[T.rec[u].sock] # u
                                    /\ T.thread[u].control = T.rec[u].control
      /\ T.thread[u].at \notin {"none", "connect"} => T.thread[u].control # NoRec
      /\ T.thread[u].control \in Recs => IsClient(T, T.thread[u].control)

\* Only a UDP record has a control, a client; server is an attempt to register.
PointersOK(T) ==
    /\ \A u \in Recs : /\ T.rec[u].control # NoRec => T.rec[u].kind = "udp"
                       /\ T.rec[u].control \in Recs => IsClient(T, T.rec[u].control)
    /\ T.server \in Recs => T.rec[T.server].kind = "server"

\* No UDP socket of D has lost its client that had one in T.
NoneLost(T, D) == Orphans(D) \subseteq Orphans(T)

Sound(T) ==
    RecordsOK(T) /\ OpenOK(T) /\ MapOK(T) /\ ThreadsOK(T) /\ PointersOK(T)

\* A record in the map has its socket open, but, inside timer_event(), for that
\* of the attempt that timed out, unless binding() has made another one.
ShutOK(T, p) ==
    /\ p = "rm" => T.server \in Recs /\ T.open[T.rec[T.server].sock] \in {NoRec, T.server}
    /\ \A f \in Fds : T.hm[f] \in Recs /\ T.open[f] # T.hm[f] =>
         /\ p = "rm" /\ T.rec[T.hm[f]].kind = "server"
         /\ T.open[f] \in Recs => T.rec[T.open[f]].kind = "server"
         /\ T.open[T.rec[T.server].sock] = NoRec => f = T.rec[T.server].sock

\* The records that go with the numbers F.
Dropped(T, F) == {T.hm[f] : f \in F} \cap Recs

Dangling(p, R) == IF p \in R THEN Gone ELSE p

\* D is T after the records R were released, as to records, threads and server.
Freed(T, D, R) ==
    /\ \A r \in Recs :
         /\ r \in R => /\ D.rec[r].kind = "none" /\ D.rec[r].step = "connected"
                       /\ D.rec[r].sock = NoRec /\ D.rec[r].control = NoRec
         /\ r \notin R => /\ D.rec[r].kind = T.rec[r].kind /\ D.rec[r].step = T.rec[r].step
                          /\ D.rec[r].sock = T.rec[r].sock
                          /\ D.rec[r].control = Dangling(T.rec[r].control, R)
         /\ D.thread[r].at = T.thread[r].at
         /\ D.thread[r].control = Dangling(T.thread[r].control, R)
    /\ D.server = Dangling(T.server, R)

\* Release() frees, and leaves the sets and the sockets alone.
LEMMA ReleaseFacts ==
  ASSUME NEW T \in Tables, NEW R \in SUBSET Recs
  PROVE  /\ Freed(T, Release(T, R), R)
         /\ \A f \in Fds : Release(T, R).hm[f] = Dangling(T.hm[f], R)
         /\ Release(T, R).watch = T.watch /\ Release(T, R).open = T.open
<1>. DEFINE D == Release(T, R)
<1>0. \A r \in Recs : T.rec[r] \in Records /\ T.thread[r] \in Threads
  BY DEF Tables
<1>1. /\ D.rec = [r \in Recs |-> IF r \in R THEN NoRecord
                                  ELSE [T.rec[r] EXCEPT !.control = Dangling(@, R)]]
      /\ D.thread = [r \in Recs |-> [T.thread[r] EXCEPT !.control = Dangling(@, R)]]
      /\ D.hm = [f \in Fds |-> Dangling(T.hm[f], R)]
      /\ D.server = Dangling(T.server, R)
      /\ D.watch = T.watch /\ D.open = T.open
  BY DEF Release, Tables, Dangling
<1>. HIDE DEF D
<1>2. ASSUME NEW r \in Recs, r \in R
      PROVE  /\ D.rec[r].kind = "none" /\ D.rec[r].step = "connected"
             /\ D.rec[r].sock = NoRec /\ D.rec[r].control = NoRec
  BY <1>1, <1>2 DEF NoRecord, New
<1>3. ASSUME NEW r \in Recs, r \notin R
      PROVE  /\ D.rec[r].kind = T.rec[r].kind /\ D.rec[r].step = T.rec[r].step
             /\ D.rec[r].sock = T.rec[r].sock
             /\ D.rec[r].control = Dangling(T.rec[r].control, R)
  <2>1. D.rec[r] = [T.rec[r] EXCEPT !.control = Dangling(@, R)]
    BY <1>1, <1>3
  <2>. QED BY <1>0, <2>1 DEF Records
<1>4. ASSUME NEW r \in Recs
      PROVE  /\ D.thread[r].at = T.thread[r].at
             /\ D.thread[r].control = Dangling(T.thread[r].control, R)
  <2>1. D.thread[r] = [T.thread[r] EXCEPT !.control = Dangling(@, R)]
    BY <1>1
  <2>. QED BY <1>0, <2>1 DEF Threads
<1>5. Freed(T, D, R)
  BY <1>1, <1>2, <1>3, <1>4 DEF Freed
<1>. QED BY <1>1, <1>5 DEF D

\* Drop() frees the records of the numbers and clears what the tables have on them.
LEMMA DropFacts ==
  ASSUME NEW T \in Tables, NEW F
  PROVE  /\ Freed(T, Drop(T, F), Dropped(T, F))
         /\ \A f \in Fds :
              /\ Drop(T, F).hm[f] = IF f \in F THEN NoRec ELSE Dangling(T.hm[f], Dropped(T, F))
              /\ Drop(T, F).watch[f] = IF f \in F THEN {} ELSE T.watch[f]
              /\ Drop(T, F).open[f] = IF f \in F THEN NoRec ELSE T.open[f]
<1>. DEFINE C == [T EXCEPT !.watch = [f \in Fds |-> IF f \in F THEN {} ELSE T.watch[f]],
                      !.open = [f \in Fds |-> IF f \in F THEN NoRec ELSE T.open[f]],
                      !.hm = [f \in Fds |-> IF f \in F THEN NoRec ELSE T.hm[f]]]
            R == Dropped(T, F)
<1>1. C \in Tables
  BY PtrFacts DEF Tables
<1>2. /\ C.rec = T.rec /\ C.thread = T.thread /\ C.server = T.server
      /\ C.watch = [f \in Fds |-> IF f \in F THEN {} ELSE T.watch[f]]
      /\ C.open = [f \in Fds |-> IF f \in F THEN NoRec ELSE T.open[f]]
      /\ C.hm = [f \in Fds |-> IF f \in F THEN NoRec ELSE T.hm[f]]
  BY DEF Tables
<1>3. Drop(T, F) = Release(C, R)
  BY DEF Drop, Dropped
<1>4. R \in SUBSET Recs /\ Dangling(NoRec, R) = NoRec
  BY PtrFacts DEF Dropped, Dangling
<1>. HIDE DEF C, R
<1>5. /\ Freed(C, Release(C, R), R)
      /\ \A f \in Fds : Release(C, R).hm[f] = Dangling(C.hm[f], R)
      /\ Release(C, R).watch = C.watch /\ Release(C, R).open = C.open
  BY <1>1, <1>4, ReleaseFacts
<1>6. Freed(T, Release(C, R), R)
  BY <1>2, <1>5 DEF Freed
<1>. QED BY <1>2, <1>3, <1>4, <1>5, <1>6 DEF R

\* A pointer that the release of R leaves to a record was there before, and
\* not to one of them.
LEMMA DanglingFacts ==
  ASSUME NEW p, NEW R \in SUBSET Recs, Dangling(p, R) \in Recs
  PROVE  p \in Recs /\ p \notin R /\ Dangling(p, R) = p
  BY PtrFacts DEF Dangling

\* No number but those of F is that of a UDP socket with its client among F.
Complete(T, F) ==
    \A g \in Fds \ F : T.hm[g] \in Recs => T.rec[T.hm[g]].control \notin Dropped(T, F)

\* Drop() leaves the tables sound, and no UDP socket without its client if it
\* takes the UDP sockets of a client along.
LEMMA DropSound ==
  ASSUME NEW T \in Tables, NEW F \in SUBSET Fds, Sound(T)
  PROVE  Sound(Drop(T, F)) /\ (Complete(T, F) => NoneLost(T, Drop(T, F)))
<1>. DEFINE D == Drop(T, F)
            R == Dropped(T, F)
<1>1. Freed(T, D, R)
  BY DropFacts
<1>2. ASSUME NEW f \in Fds
      PROVE  /\ D.hm[f] = IF f \in F THEN NoRec ELSE Dangling(T.hm[f], R)
             /\ D.watch[f] = IF f \in F THEN {} ELSE T.watch[f]
             /\ D.open[f] = IF f \in F THEN NoRec ELSE T.open[f]
  <2>. HIDE DEF D, R
  <2>1. /\ Drop(T, F).hm[f] = IF f \in F THEN NoRec ELSE Dangling(T.hm[f], Dropped(T, F))
        /\ Drop(T, F).watch[f] = IF f \in F THEN {} ELSE T.watch[f]
        /\ Drop(T, F).open[f] = IF f \in F THEN NoRec ELSE T.open[f]
    BY DropFacts
  <2>. QED BY <2>1 DEF D, R
<1>3. R \in SUBSET Recs
  BY DEF Dropped
<1>4. \A f \in Fds : T.hm[f] \in R => f \in F
  <2>. SUFFICES ASSUME NEW f \in Fds, T.hm[f] \in R PROVE f \in F
    OBVIOUS
  <2>1. PICK g \in F : T.hm[g] = T.hm[f]
    BY DEF Dropped
  <2>. QED BY <1>3, <2>1 DEF Sound, MapOK
<1>5. \A f \in Fds : f \in F /\ T.hm[f] \in Recs => T.hm[f] \in R
  BY DEF Dropped
<1>. HIDE DEF D, R
\* What is left in the map was there before.
<1>6. \A f \in Fds : f \notin F => D.hm[f] = T.hm[f] /\ T.hm[f] \notin R
  BY <1>2, <1>4 DEF Dangling
<1>7. RecordsOK(D)
  BY <1>1, <1>3 DEF RecordsOK, Sound, Freed
<1>8. OpenOK(D)
  <2>. SUFFICES ASSUME NEW f \in Fds, D.open[f] \in Recs
                PROVE  D.rec[D.open[f]].kind # "none" /\ D.rec[D.open[f]].sock = f
    BY DEF OpenOK
  <2>1. f \notin F /\ D.open[f] = T.open[f]
    BY <1>2, PtrFacts
  <2>2. T.rec[T.open[f]].kind # "none" /\ T.rec[T.open[f]].sock = f
    BY <2>1 DEF Sound, OpenOK
  <2>3. T.open[f] \notin R
    <3>1. SUFFICES ASSUME T.open[f] \in R PROVE FALSE
      OBVIOUS
    <3>2. PICK g \in F : T.hm[g] = T.open[f]
      BY <3>1 DEF R, Dropped
    <3>3. T.rec[T.open[f]].sock = g
      BY <2>1, <3>2 DEF Sound, MapOK
    <3>. QED BY <2>1, <2>2, <3>3
  <2>. QED BY <1>1, <2>1, <2>2, <2>3 DEF Freed
<1>9. MapOK(D)
  <2>. SUFFICES ASSUME NEW f \in Fds
                PROVE  /\ D.hm[f] # Gone
                       /\ D.watch[f] # {} => D.hm[f] \in Recs
                       /\ D.hm[f] \in Recs =>
                            /\ D.rec[D.hm[f]].kind # "none" /\ D.rec[D.hm[f]].sock = f
                            /\ "read" \in D.watch[f]
                            /\ D.rec[D.hm[f]].step = "connected" => D.rec[D.hm[f]].kind = "client"
    BY DEF MapOK
  <2>1. CASE f \in F
    BY <1>2, <2>1, PtrFacts
  <2>2. CASE f \notin F
    <3>1. D.hm[f] = T.hm[f] /\ T.hm[f] \notin R /\ D.watch[f] = T.watch[f]
      BY <1>2, <1>6, <2>2
    <3>2. /\ T.hm[f] # Gone
          /\ T.watch[f] # {} => T.hm[f] \in Recs
          /\ T.hm[f] \in Recs =>
               /\ T.rec[T.hm[f]].kind # "none" /\ T.rec[T.hm[f]].sock = f
               /\ "read" \in T.watch[f]
               /\ T.rec[T.hm[f]].step = "connected" => T.rec[T.hm[f]].kind = "client"
      BY DEF Sound, MapOK
    <3>. QED BY <1>1, <3>1, <3>2 DEF Freed
  <2>. QED BY <2>1, <2>2
<1>10. \A c \in Recs : IsClient(T, c) /\ c \notin R => IsClient(D, c)
  <2>. SUFFICES ASSUME NEW c \in Recs, IsClient(T, c), c \notin R PROVE IsClient(D, c)
    OBVIOUS
  <2>1. T.rec[c].sock \in Fds /\ T.hm[T.rec[c].sock] = c
    BY DEF IsClient, Sound, RecordsOK
  <2>2. T.rec[c].sock \notin F
    BY <1>5, <2>1
  <2>3. D.hm[T.rec[c].sock] = c
    BY <1>6, <2>1, <2>2
  <2>. QED BY <1>1, <2>3 DEF IsClient, Freed
\* A record outside the map stays.
<1>11. \A u \in Recs : T.rec[u].kind # "none" /\ T.hm[T.rec[u].sock] # u =>
         u \notin R /\ D.hm[T.rec[u].sock] # u
  <2>. SUFFICES ASSUME NEW u \in Recs, T.rec[u].kind # "none", T.hm[T.rec[u].sock] # u
                PROVE  u \notin R /\ D.hm[T.rec[u].sock] # u
    OBVIOUS
  <2>1. T.rec[u].sock \in Fds
    BY DEF Sound, RecordsOK
  <2>2. \A g \in Fds : T.hm[g] = u => T.rec[u].sock = g
    BY DEF Sound, MapOK
  <2>3. u \notin R
    BY <2>2 DEF R, Dropped
  <2>. QED BY <1>2, <2>1, <2>3, PtrFacts DEF Dangling
<1>12. ThreadsOK(D)
  <2>. SUFFICES ASSUME NEW u \in Recs
                PROVE  /\ D.thread[u].at = "connect" => D.rec[u].kind = "server" /\ D.hm[D.rec[u].sock] # u
                       /\ D.thread[u].at = "bind" => /\ D.rec[u].kind = "udp" /\ D.hm[D.rec[u].sock] # u
                                                     /\ D.thread[u].control = D.rec[u].control
                       /\ D.thread[u].at \notin {"none", "connect"} => D.thread[u].control # NoRec
                       /\ D.thread[u].control \in Recs => IsClient(D, D.thread[u].control)
    BY DEF ThreadsOK
  <2>1. D.thread[u].at = T.thread[u].at /\ D.thread[u].control = Dangling(T.thread[u].control, R)
    BY <1>1 DEF Freed
  <2>2. /\ T.thread[u].at = "connect" => T.rec[u].kind = "server" /\ T.hm[T.rec[u].sock] # u
        /\ T.thread[u].at = "bind" => /\ T.rec[u].kind = "udp" /\ T.hm[T.rec[u].sock] # u
                                      /\ T.thread[u].control = T.rec[u].control
        /\ T.thread[u].at \notin {"none", "connect"} => T.thread[u].control # NoRec
        /\ T.thread[u].control \in Recs => IsClient(T, T.thread[u].control)
    BY DEF Sound, ThreadsOK
  <2>3. T.thread[u].at \in {"connect", "bind"} => u \notin R /\ D.hm[T.rec[u].sock] # u
    BY <1>11, <2>2
  <2>4. u \notin R => /\ D.rec[u].kind = T.rec[u].kind /\ D.rec[u].sock = T.rec[u].sock
                      /\ D.rec[u].control = Dangling(T.rec[u].control, R)
    BY <1>1 DEF Freed
  <2>5. D.thread[u].control \in Recs => IsClient(D, D.thread[u].control)
    BY <1>3, <1>10, <2>1, <2>2, DanglingFacts
  <2>6. D.thread[u].control = NoRec => T.thread[u].control = NoRec
    BY <2>1, PtrFacts DEF Dangling
  <2>. QED BY <2>1, <2>2, <2>3, <2>4, <2>5, <2>6
<1>13. PointersOK(D)
  <2>1. ASSUME NEW u \in Recs
        PROVE  /\ D.rec[u].control # NoRec => D.rec[u].kind = "udp"
               /\ D.rec[u].control \in Recs => IsClient(D, D.rec[u].control)
    <3>1. CASE u \in R
      BY <1>1, <3>1, PtrFacts DEF Freed
    <3>2. CASE u \notin R
      <4>1. D.rec[u].control = Dangling(T.rec[u].control, R) /\ D.rec[u].kind = T.rec[u].kind
        BY <1>1, <3>2 DEF Freed
      <4>2. D.rec[u].control # NoRec => T.rec[u].control # NoRec
        BY <1>3, <4>1, PtrFacts DEF Dangling
      <4>3. D.rec[u].control \in Recs =>
              /\ T.rec[u].control \in Recs /\ T.rec[u].control \notin R
              /\ D.rec[u].control = T.rec[u].control
        BY <1>3, <4>1, DanglingFacts
      <4>. QED BY <1>10, <4>1, <4>2, <4>3 DEF Sound, PointersOK
    <3>. QED BY <3>1, <3>2
  <2>2. ASSUME D.server \in Recs PROVE D.rec[D.server].kind = "server"
    <3>1. D.server = Dangling(T.server, R)
      BY <1>1 DEF Freed
    <3>2. T.server \in Recs /\ T.server \notin R /\ D.server = T.server
      BY <1>3, <2>2, <3>1, DanglingFacts
    <3>. QED BY <1>1, <3>2 DEF Sound, PointersOK, Freed
  <2>. QED BY <2>1, <2>2 DEF PointersOK
<1>14. ASSUME Complete(T, F) PROVE NoneLost(T, D)
  <2>. SUFFICES ASSUME NEW f \in Fds, D.hm[f] \in Recs, D.rec[D.hm[f]].control = Gone
                PROVE  T.hm[f] \in Recs /\ T.rec[T.hm[f]].control = Gone
    BY DEF NoneLost, Orphans
  <2>1. f \notin F /\ D.hm[f] = T.hm[f] /\ T.hm[f] \notin R
    BY <1>2, <1>6, PtrFacts
  <2>2. D.rec[T.hm[f]].control = Dangling(T.rec[T.hm[f]].control, R)
    BY <1>1, <2>1 DEF Freed
  <2>3. T.rec[T.hm[f]].control \notin R
    BY <1>14, <2>1 DEF Complete, R
  <2>. QED BY <2>1, <2>2, <2>3 DEF Dangling
<1>. QED BY <1>7, <1>8, <1>9, <1>12, <1>13, <1>14 DEF Sound, D
-----------------------------------------------------------------------------
\* D is T after a step that neither allocates nor releases a record: a record
\* goes on to "request", a thread goes on or ends, a record is put into the map
\* at its number and watched, bits that are no record's "read" come and go, a
\* socket is closed.
GoesOn(T, D) ==
    /\ \A r \in Recs :
         /\ D.rec[r].kind = T.rec[r].kind /\ D.rec[r].sock = T.rec[r].sock
         /\ D.rec[r].control = T.rec[r].control
         /\ D.rec[r].step = T.rec[r].step \/ D.rec[r].step = "request"
         /\ \/ D.thread[r].at = T.thread[r].at /\ D.thread[r].control = T.thread[r].control
            \/ /\ D.thread[r].at = "none" /\ D.thread[r].control = NoRec
               /\ T.thread[r].at # "bind"
            \/ /\ T.thread[r].at \notin {"none", "connect"}
               /\ D.thread[r].at \notin {"none", "connect", "bind"}
               /\ D.thread[r].control = T.thread[r].control
               /\ T.thread[r].at = "bind" => D.hm[T.rec[r].sock] = r
    /\ \A f \in Fds :
         /\ \/ D.hm[f] = T.hm[f]
            \/ /\ T.hm[f] = NoRec /\ D.hm[f] \in Recs
               /\ T.rec[D.hm[f]].kind # "none" /\ T.rec[D.hm[f]].sock = f
               /\ T.rec[D.hm[f]].control # Gone
               /\ D.rec[D.hm[f]].step = "request" \/ T.rec[D.hm[f]].kind = "client"
               /\ D.thread[D.hm[f]].at \notin {"connect", "bind"}
               /\ "read" \in D.watch[f]
         /\ D.watch[f] = T.watch[f] \/ (D.hm[f] \in Recs /\ "read" \in D.watch[f])
         /\ D.open[f] = T.open[f] \/ D.open[f] = NoRec
    /\ D.server = T.server

\* Such a step leaves the tables sound, and the UDP sockets their clients.
LEMMA GoesOnSound ==
  ASSUME NEW T, NEW D, Sound(T), GoesOn(T, D)
  PROVE  Sound(D) /\ NoneLost(T, D)
<1>. USE PtrFacts
<1>1. RecordsOK(D)
  BY DEF Sound, RecordsOK, GoesOn
<1>2. OpenOK(D)
  BY DEF Sound, OpenOK, GoesOn
<1>3. MapOK(D)
  <2>. SUFFICES ASSUME NEW f \in Fds
                PROVE  /\ D.hm[f] # Gone
                       /\ D.watch[f] # {} => D.hm[f] \in Recs
                       /\ D.hm[f] \in Recs =>
                            /\ D.rec[D.hm[f]].kind # "none" /\ D.rec[D.hm[f]].sock = f
                            /\ "read" \in D.watch[f]
                            /\ D.rec[D.hm[f]].step = "connected" => D.rec[D.hm[f]].kind = "client"
    BY DEF MapOK
  <2>1. /\ T.hm[f] # Gone
        /\ T.watch[f] # {} => T.hm[f] \in Recs
        /\ T.hm[f] \in Recs =>
             /\ T.rec[T.hm[f]].kind # "none" /\ T.rec[T.hm[f]].sock = f
             /\ "read" \in T.watch[f]
             /\ T.rec[T.hm[f]].step = "connected" => T.rec[T.hm[f]].kind = "client"
    BY DEF Sound, MapOK
  <2>. QED BY <2>1 DEF GoesOn
<1>4. \A c \in Recs : IsClient(T, c) => IsClient(D, c)
  <2>. SUFFICES ASSUME NEW c \in Recs, IsClient(T, c) PROVE IsClient(D, c)
    OBVIOUS
  <2>1. T.rec[c].sock \in Fds /\ T.hm[T.rec[c].sock] = c
    BY DEF IsClient, Sound, RecordsOK
  <2>. QED BY <2>1 DEF IsClient, GoesOn
<1>5. ThreadsOK(D)
  <2>. SUFFICES ASSUME NEW u \in Recs
                PROVE  /\ D.thread[u].at = "connect" => D.rec[u].kind = "server" /\ D.hm[D.rec[u].sock] # u
                       /\ D.thread[u].at = "bind" => /\ D.rec[u].kind = "udp" /\ D.hm[D.rec[u].sock] # u
                                                     /\ D.thread[u].control = D.rec[u].control
                       /\ D.thread[u].at \notin {"none", "connect"} => D.thread[u].control # NoRec
                       /\ D.thread[u].control \in Recs => IsClient(D, D.thread[u].control)
    BY DEF ThreadsOK
  <2>1. /\ T.thread[u].at = "connect" => T.rec[u].kind = "server" /\ T.hm[T.rec[u].sock] # u
        /\ T.thread[u].at = "bind" => /\ T.rec[u].kind = "udp" /\ T.hm[T.rec[u].sock] # u
                                      /\ T.thread[u].control = T.rec[u].control
        /\ T.thread[u].at \notin {"none", "connect"} => T.thread[u].control # NoRec
        /\ T.thread[u].control \in Recs => IsClient(T, T.thread[u].control)
    BY DEF Sound, ThreadsOK
  <2>2. D.thread[u].at \in {"connect", "bind"} => T.thread[u].at = D.thread[u].at
    BY DEF GoesOn
  <2>3. D.thread[u].at \in {"connect", "bind"} => D.rec[u].sock \in Fds /\ D.hm[D.rec[u].sock] # u
    <3>1. T.rec[u].kind # "none" => T.rec[u].sock \in Fds
      BY DEF Sound, RecordsOK
    <3>. QED BY <2>1, <2>2, <3>1 DEF GoesOn
  <2>4. D.thread[u].control = T.thread[u].control \/ (D.thread[u].at = "none" /\ D.thread[u].control = NoRec)
    BY DEF GoesOn
  <2>5. D.thread[u].at \notin {"none", "connect"} => D.thread[u].control # NoRec
    BY <2>1 DEF GoesOn
  <2>6. D.thread[u].control \in Recs => IsClient(D, D.thread[u].control)
    BY <1>4, <2>1, <2>4
  <2>. QED BY <2>1, <2>2, <2>3, <2>4, <2>5, <2>6 DEF GoesOn
<1>6. PointersOK(D)
  BY <1>4 DEF Sound, PointersOK, GoesOn
<1>7. NoneLost(T, D)
  BY DEF NoneLost, Orphans, GoesOn
<1>. QED BY <1>1, <1>2, <1>3, <1>5, <1>6, <1>7 DEF Sound

\* D is T with a new record r and a new socket f for it.
Allocates(T, D, r, f) ==
    /\ r \in Unused(T) /\ f \in Free(T)
    /\ \A q \in Recs \ {r} :
         /\ D.rec[q].kind = T.rec[q].kind /\ D.rec[q].sock = T.rec[q].sock
         /\ D.rec[q].control = T.rec[q].control /\ D.rec[q].step = T.rec[q].step
         /\ D.thread[q].at = T.thread[q].at /\ D.thread[q].control = T.thread[q].control
    /\ D.rec[r].kind # "none" /\ D.rec[r].sock = f
    /\ D.rec[r].kind = "server" => D.rec[r].step = "request"
    /\ \A g \in Fds : D.hm[g] = T.hm[g] /\ D.watch[g] = T.watch[g]
    /\ \A g \in Fds \ {f} : D.open[g] = T.open[g]
    /\ D.open[f] = r

\* The thread and the pointers that a new record r comes with.
Starts(T, D, r) ==
    /\ D.thread[r].at \in {"none", "connect", "bind"}
    /\ D.thread[r].at = "connect" => D.rec[r].kind = "server"
    /\ D.thread[r].at = "bind" => /\ D.rec[r].kind = "udp" /\ D.thread[r].control = D.rec[r].control
                                  /\ D.thread[r].control # NoRec
    /\ D.thread[r].control \in Recs => IsClient(T, D.thread[r].control)
    /\ D.rec[r].control # NoRec => D.rec[r].kind = "udp" /\ IsClient(T, D.rec[r].control)
    /\ D.server = T.server \/ (D.server = r /\ D.rec[r].kind = "server")

\* A new record leaves the tables sound, and the UDP sockets their clients.
LEMMA AllocatesSound ==
  ASSUME NEW T, NEW D, NEW r, NEW f, Sound(T), Allocates(T, D, r, f), Starts(T, D, r)
  PROVE  Sound(D) /\ NoneLost(T, D)
<1>. USE PtrFacts
<1>0. r \in Recs /\ f \in Fds /\ T.rec[r].kind = "none" /\ T.open[f] = NoRec
  BY DEF Allocates, Unused, Free
<1>1. RecordsOK(D)
  BY <1>0 DEF Sound, RecordsOK, Allocates
<1>2. OpenOK(D)
  BY <1>0 DEF Sound, OpenOK, Allocates
<1>3. \A g \in Fds : T.hm[g] # r
  BY <1>0 DEF Sound, MapOK
<1>4. MapOK(D)
  <2>. SUFFICES ASSUME NEW g \in Fds
                PROVE  /\ D.hm[g] # Gone
                       /\ D.watch[g] # {} => D.hm[g] \in Recs
                       /\ D.hm[g] \in Recs =>
                            /\ D.rec[D.hm[g]].kind # "none" /\ D.rec[D.hm[g]].sock = g
                            /\ "read" \in D.watch[g]
                            /\ D.rec[D.hm[g]].step = "connected" => D.rec[D.hm[g]].kind = "client"
    BY DEF MapOK
  <2>. QED BY <1>3 DEF Sound, MapOK, Allocates
<1>5. \A c \in Recs : IsClient(T, c) => c # r /\ IsClient(D, c)
  <2>. SUFFICES ASSUME NEW c \in Recs, IsClient(T, c) PROVE c # r /\ IsClient(D, c)
    OBVIOUS
  <2>1. c # r
    BY <1>0 DEF IsClient
  <2>2. T.rec[c].sock \in Fds /\ T.hm[T.rec[c].sock] = c
    BY DEF IsClient, Sound, RecordsOK
  <2>. QED BY <2>1, <2>2 DEF IsClient, Allocates
<1>6. ThreadsOK(D)
  <2>1. ASSUME NEW u \in Recs, u # r
        PROVE  /\ D.thread[u].at = "connect" => D.rec[u].kind = "server" /\ D.hm[D.rec[u].sock] # u
               /\ D.thread[u].at = "bind" => /\ D.rec[u].kind = "udp" /\ D.hm[D.rec[u].sock] # u
                                             /\ D.thread[u].control = D.rec[u].control
               /\ D.thread[u].at \notin {"none", "connect"} => D.thread[u].control # NoRec
               /\ D.thread[u].control \in Recs => IsClient(D, D.thread[u].control)
    <3>1. /\ D.thread[u].at = T.thread[u].at /\ D.thread[u].control = T.thread[u].control
          /\ D.rec[u].kind = T.rec[u].kind /\ D.rec[u].sock = T.rec[u].sock
          /\ D.rec[u].control = T.rec[u].control
      BY <2>1 DEF Allocates
    <3>2. /\ T.thread[u].at = "connect" => T.rec[u].kind = "server" /\ T.hm[T.rec[u].sock] # u
          /\ T.thread[u].at = "bind" => /\ T.rec[u].kind = "udp" /\ T.hm[T.rec[u].sock] # u
                                        /\ T.thread[u].control = T.rec[u].control
          /\ T.thread[u].at \notin {"none", "connect"} => T.thread[u].control # NoRec
          /\ T.thread[u].control \in Recs => IsClient(T, T.thread[u].control)
      BY DEF Sound, ThreadsOK
    <3>3. T.rec[u].kind # "none" => T.rec[u].sock \in Fds /\ D.hm[T.rec[u].sock] = T.hm[T.rec[u].sock]
      BY DEF Sound, RecordsOK, Allocates
    <3>. QED BY <1>5, <3>1, <3>2, <3>3
  <2>2. /\ D.thread[r].at = "connect" => D.rec[r].kind = "server" /\ D.hm[D.rec[r].sock] # r
        /\ D.thread[r].at = "bind" => /\ D.rec[r].kind = "udp" /\ D.hm[D.rec[r].sock] # r
                                      /\ D.thread[r].control = D.rec[r].control
        /\ D.thread[r].at \notin {"none", "connect"} => D.thread[r].control # NoRec
        /\ D.thread[r].control \in Recs => IsClient(D, D.thread[r].control)
    BY <1>0, <1>3, <1>5 DEF Allocates, Starts
  <2>. QED BY <2>1, <2>2 DEF ThreadsOK
<1>7. PointersOK(D)
  <2>1. ASSUME NEW u \in Recs
        PROVE  /\ D.rec[u].control # NoRec => D.rec[u].kind = "udp"
               /\ D.rec[u].control \in Recs => IsClient(D, D.rec[u].control)
    <3>1. CASE u = r
      BY <1>5, <3>1 DEF Starts
    <3>2. CASE u # r
      BY <1>5, <3>2 DEF Allocates, Sound, PointersOK
    <3>. QED BY <3>1, <3>2
  <2>2. ASSUME D.server \in Recs PROVE D.rec[D.server].kind = "server"
    BY <1>0, <2>2 DEF Starts, Allocates, Sound, PointersOK
  <2>. QED BY <2>1, <2>2 DEF PointersOK
<1>8. NoneLost(T, D)
  BY <1>3 DEF NoneLost, Orphans, Allocates
<1>. QED BY <1>1, <1>2, <1>4, <1>6, <1>7, <1>8 DEF Sound
-----------------------------------------------------------------------------
\* Outside timer_event() every record in the map has its socket open.
AllOpen(T) == \A f \in Fds : T.hm[f] \in Recs => T.open[f] = T.hm[f]

\* Outside timer_event() what is shut is not in the map.
LEMMA ShutAtLoop ==
  ASSUME NEW T, NEW p, p # "rm"
  PROVE  ShutOK(T, p) <=> AllOpen(T)
  BY DEF ShutOK, AllOpen

\* A step that closes nothing and puts into the map only what is open.
LEMMA GoesOnShut ==
  ASSUME NEW T, NEW D, NEW p, Sound(T), ShutOK(T, p), GoesOn(T, D),
         \A f \in Fds : D.open[f] = T.open[f] /\ (D.hm[f] = T.hm[f] \/ D.hm[f] = T.open[f])
  PROVE  ShutOK(D, p)
<1>1. ASSUME p = "rm"
      PROVE  /\ D.server \in Recs /\ D.server = T.server
             /\ D.rec[D.server].sock = T.rec[T.server].sock
             /\ D.open[D.rec[D.server].sock] = T.open[T.rec[T.server].sock]
             /\ D.open[D.rec[D.server].sock] \in {NoRec, D.server}
  <2>1. T.server \in Recs /\ T.open[T.rec[T.server].sock] \in {NoRec, T.server}
    BY <1>1 DEF ShutOK
  <2>2. T.rec[T.server].sock \in Fds
    BY <2>1 DEF Sound, PointersOK, RecordsOK
  <2>. QED BY <2>1, <2>2 DEF GoesOn
<1>2. ASSUME NEW f \in Fds, D.hm[f] \in Recs, D.open[f] # D.hm[f]
      PROVE  /\ p = "rm" /\ D.rec[D.hm[f]].kind = "server"
             /\ D.open[f] \in Recs => D.rec[D.open[f]].kind = "server"
             /\ D.open[D.rec[D.server].sock] = NoRec => f = D.rec[D.server].sock
  <2>1. D.hm[f] = T.hm[f] /\ D.open[f] = T.open[f]
    BY <1>2
  <2>2. /\ p = "rm" /\ T.rec[T.hm[f]].kind = "server"
        /\ T.open[f] \in Recs => T.rec[T.open[f]].kind = "server"
        /\ T.open[T.rec[T.server].sock] = NoRec => f = T.rec[T.server].sock
    BY <1>2, <2>1 DEF ShutOK
  <2>. QED BY <1>1, <1>2, <2>1, <2>2 DEF GoesOn
<1>. QED BY <1>1, <1>2 DEF ShutOK

\* Drop() at the loop closes no socket whose record stays in the map.
LEMMA DropOpen ==
  ASSUME NEW T \in Tables, NEW F, AllOpen(T)
  PROVE  AllOpen(Drop(T, F))
<1>. SUFFICES ASSUME NEW f \in Fds, Drop(T, F).hm[f] \in Recs
              PROVE  Drop(T, F).open[f] = Drop(T, F).hm[f]
  BY DEF AllOpen
<1>1. /\ Drop(T, F).hm[f] = IF f \in F THEN NoRec ELSE Dangling(T.hm[f], Dropped(T, F))
      /\ Drop(T, F).open[f] = IF f \in F THEN NoRec ELSE T.open[f]
  BY DropFacts
<1>2. f \notin F /\ Dangling(T.hm[f], Dropped(T, F)) \in Recs
  BY <1>1, PtrFacts
<1>3. T.hm[f] \in Recs /\ Dangling(T.hm[f], Dropped(T, F)) = T.hm[f]
  BY <1>2, DanglingFacts DEF Dropped
<1>. QED BY <1>1, <1>2, <1>3 DEF AllOpen

\* Marks on records that neither the pointers nor the maps depend on.
LEMMA MarksGoOn ==
  ASSUME NEW T \in Tables, NEW c
  PROVE  /\ GoesOn(T, [T EXCEPT !.rec[c].closed = TRUE])
         /\ \A b : GoesOn(T, [T EXCEPT !.rec[c].reply = b])
         /\ GoesOn(T, [T EXCEPT !.rec[c].step = "request"])
<1>0. T.rec \in [Recs -> Records] /\ \A r \in Recs : T.rec[r] \in Records
  BY DEF Tables
<1>1. ASSUME NEW D, NEW v, D = [T EXCEPT !.rec = v],
             \A r \in Recs : /\ v[r].kind = T.rec[r].kind /\ v[r].sock = T.rec[r].sock
                             /\ v[r].control = T.rec[r].control
                             /\ v[r].step = T.rec[r].step \/ v[r].step = "request"
      PROVE  GoesOn(T, D)
  <2>1. D.rec = v /\ D.thread = T.thread /\ D.hm = T.hm /\ D.watch = T.watch /\ D.open = T.open /\ D.server = T.server
    BY <1>1 DEF Tables
  <2>. QED BY <1>1, <2>1 DEF GoesOn
<1>2. GoesOn(T, [T EXCEPT !.rec[c].closed = TRUE])
  <2>. DEFINE v == [T.rec EXCEPT ![c].closed = TRUE]
  <2>1. [T EXCEPT !.rec[c].closed = TRUE] = [T EXCEPT !.rec = v]
    OBVIOUS
  <2>2. \A r \in Recs : /\ v[r].kind = T.rec[r].kind /\ v[r].sock = T.rec[r].sock
                        /\ v[r].control = T.rec[r].control /\ v[r].step = T.rec[r].step
    BY <1>0 DEF Records
  <2>. HIDE DEF v
  <2>. QED BY <1>1, <2>1, <2>2
<1>3. ASSUME NEW b PROVE GoesOn(T, [T EXCEPT !.rec[c].reply = b])
  <2>. DEFINE v == [T.rec EXCEPT ![c].reply = b]
  <2>1. [T EXCEPT !.rec[c].reply = b] = [T EXCEPT !.rec = v]
    OBVIOUS
  <2>2. \A r \in Recs : /\ v[r].kind = T.rec[r].kind /\ v[r].sock = T.rec[r].sock
                        /\ v[r].control = T.rec[r].control /\ v[r].step = T.rec[r].step
    BY <1>0 DEF Records
  <2>. HIDE DEF v
  <2>. QED BY <1>1, <2>1, <2>2
<1>4. GoesOn(T, [T EXCEPT !.rec[c].step = "request"])
  <2>. DEFINE v == [T.rec EXCEPT ![c].step = "request"]
  <2>1. [T EXCEPT !.rec[c].step = "request"] = [T EXCEPT !.rec = v]
    OBVIOUS
  <2>2. \A r \in Recs : /\ v[r].kind = T.rec[r].kind /\ v[r].sock = T.rec[r].sock
                        /\ v[r].control = T.rec[r].control
                        /\ v[r].step = T.rec[r].step \/ v[r].step = "request"
    BY <1>0 DEF Records
  <2>. HIDE DEF v
  <2>. QED BY <1>1, <2>1, <2>2
<1>. QED BY <1>2, <1>3, <1>4

\* What add_socket() does to the map and to the sets.
LEMMA AddSocketFacts ==
  ASSUME NEW T \in Tables, NEW f \in Fds, NEW r, NEW k
  PROVE  LET D == AddSocket(T, f, r, k)
         IN  /\ D.rec = T.rec /\ D.thread = T.thread /\ D.open = T.open /\ D.server = T.server
             /\ D.hm[f] = IF T.hm[f] = NoRec THEN r ELSE T.hm[f]
             /\ D.watch[f] = T.watch[f] \cup {k}
             /\ \A g \in Fds \ {f} : D.hm[g] = T.hm[g] /\ D.watch[g] = T.watch[g]
<1>. DEFINE D == AddSocket(T, f, r, k)
<1>1. /\ D.rec = T.rec /\ D.thread = T.thread /\ D.open = T.open /\ D.server = T.server
      /\ D.hm = [T.hm EXCEPT ![f] = IF @ = NoRec THEN r ELSE @]
      /\ D.watch = [T.watch EXCEPT ![f] = @ \cup {k}]
  BY DEF AddSocket, Tables
<1>2. T.hm \in [Fds -> Ptrs] /\ T.watch \in [Fds -> SUBSET Kinds]
  BY DEF Tables
<1>. HIDE DEF D
<1>. QED BY <1>1, <1>2 DEF D

\* What socket() and get_client_data() do for a new record.
LEMMA OpensFacts ==
  ASSUME NEW T \in Tables, Room(T), NEW kind \in {"client", "server", "udp"},
         NEW step \in {"connected", "request"}, NEW c \in Ptrs
  PROVE  LET r == NextRec(T)
             f == NextFd(T)
             D == Opens(T, r, New(kind, f, step, c))
         IN  /\ D \in Tables /\ r \in Recs /\ f \in Fds
             /\ D.rec[r].kind = kind /\ D.rec[r].sock = f
             /\ D.rec[r].step = step /\ D.rec[r].control = c
             /\ D.thread = T.thread /\ D.hm = T.hm /\ D.watch = T.watch /\ D.server = T.server
             /\ T.thread[r] = NoThread
             /\ (kind = "server" => step = "request") => Allocates(T, D, r, f)
<1>. DEFINE r == NextRec(T)
            f == NextFd(T)
            rec == New(kind, f, step, c)
            D == Opens(T, r, rec)
<1>1. r \in Unused(T) /\ f \in Free(T)
  BY RoomGives
<1>2. r \in Recs /\ f \in Fds /\ T.thread[r] = NoThread
  BY <1>1 DEF Unused, Free
<1>3. D \in Tables
  <2>. HIDE DEF r, f
  <2>. QED BY <1>2, NewTypes, OpensTypes
<1>4. /\ rec.kind = kind /\ rec.sock = f /\ rec.step = step /\ rec.control = c
  BY DEF New
<1>. HIDE DEF r, f, rec
<1>5. /\ D.rec = [T.rec EXCEPT ![r] = rec] /\ D.open = [T.open EXCEPT ![f] = r]
      /\ D.thread = T.thread /\ D.hm = T.hm /\ D.watch = T.watch /\ D.server = T.server
  BY <1>4 DEF Opens, Tables
<1>6. D.rec[r] = rec /\ \A q \in Recs \ {r} : D.rec[q] = T.rec[q]
  BY <1>2, <1>5 DEF Tables
<1>7. D.open[f] = r /\ \A g \in Fds \ {f} : D.open[g] = T.open[g]
  BY <1>2, <1>5 DEF Tables
<1>. HIDE DEF D
<1>8. (kind = "server" => step = "request") => Allocates(T, D, r, f)
  BY <1>1, <1>4, <1>5, <1>6, <1>7 DEF Allocates
<1>. QED BY <1>2, <1>3, <1>4, <1>5, <1>6, <1>8 DEF D, r, f, rec

\* A new record keeps what is shut, inside timer_event() if it is the server's.
LEMMA AllocatesShut ==
  ASSUME NEW T, NEW D, NEW p, NEW r, NEW f, Sound(T), ShutOK(T, p), Allocates(T, D, r, f),
         p = "rm" => D.server = r /\ D.rec[r].kind = "server"
  PROVE  ShutOK(D, p)
<1>0. r \in Recs /\ f \in Fds /\ T.rec[r].kind = "none" /\ T.open[f] = NoRec
  BY DEF Allocates, Unused, Free
<1>1. ASSUME p = "rm"
      PROVE  D.server = r /\ D.open[D.rec[D.server].sock] = r /\ r # NoRec
  BY <1>0, <1>1, PtrFacts DEF Allocates
<1>2. ASSUME NEW g \in Fds, D.hm[g] \in Recs, D.open[g] # D.hm[g]
      PROVE  /\ p = "rm" /\ D.rec[D.hm[g]].kind = "server"
             /\ D.open[g] \in Recs => D.rec[D.open[g]].kind = "server"
  <2>1. D.hm[g] = T.hm[g] /\ T.rec[T.hm[g]].kind # "none"
    BY <1>2 DEF Allocates, Sound, MapOK
  <2>2. T.open[g] # T.hm[g]
    <3>1. CASE g = f
      BY <1>0, <1>2, <2>1, <3>1, PtrFacts
    <3>2. CASE g # f
      BY <1>2, <2>1, <3>2 DEF Allocates
    <3>. QED BY <3>1, <3>2
  <2>3. /\ p = "rm" /\ T.rec[T.hm[g]].kind = "server"
        /\ T.open[g] \in Recs => T.rec[T.open[g]].kind = "server"
    BY <1>2, <2>1, <2>2 DEF ShutOK
  <2>4. T.hm[g] # r
    BY <1>0, <2>1
  <2>5. T.open[g] \in Recs => T.open[g] # r
    BY <1>0 DEF Sound, OpenOK
  <2>6. D.open[g] \in Recs => D.rec[D.open[g]].kind = "server"
    <3>1. CASE g = f
      BY <2>3, <3>1 DEF Allocates
    <3>2. CASE g # f
      BY <2>3, <2>5, <3>2 DEF Allocates
    <3>. QED BY <3>1, <3>2
  <2>. QED BY <1>2, <2>1, <2>3, <2>4, <2>6 DEF Allocates
<1>. QED BY <1>0, <1>1, <1>2 DEF ShutOK

\* register_on_server() leaves the tables sound, and the UDP sockets their clients.
LEMMA RegisterSound ==
  ASSUME NEW T \in Tables, NEW p, Sound(T), ShutOK(T, p)
  PROVE  /\ Sound(Register(T)) /\ ShutOK(Register(T), p) /\ NoneLost(T, Register(T))
         /\ \A q \in Recs : T.thread[q] # NoThread => Register(T).thread[q] = T.thread[q]
<1>1. CASE ~Room(T)
  BY <1>1 DEF Register, NoneLost
<1>2. CASE Room(T)
  <2>. DEFINE r == NextRec(T)
              f == NextFd(T)
              O == Opens(T, r, New("server", f, "request", NoRec))
              D == [O EXCEPT !.server = r, !.thread[r].at = "connect"]
  <2>1. Register(T) = D
    BY <1>2 DEF Register
  <2>2. /\ O \in Tables /\ r \in Recs /\ O.rec[r].kind = "server"
        /\ O.rec[r].control = NoRec /\ O.thread = T.thread
        /\ T.thread[r] = NoThread /\ Allocates(T, O, r, f)
    BY <1>2, OpensFacts, PtrFacts
  <2>. HIDE DEF O, r, f
  <2>3. /\ D.rec = O.rec /\ D.hm = O.hm /\ D.watch = O.watch /\ D.open = O.open /\ D.server = r
        /\ D.thread = [O.thread EXCEPT ![r].at = "connect"]
    BY <2>2 DEF Tables
  <2>4. \A q \in Recs \ {r} : D.thread[q] = T.thread[q]
    BY <2>2, <2>3 DEF Tables
  <2>5. D.thread[r].at = "connect" /\ D.thread[r].control = NoRec
    BY <2>2, <2>3 DEF Tables, NoThread, Threads
  <2>. HIDE DEF D
  <2>6. Allocates(T, D, r, f)
    BY <2>2, <2>3, <2>4 DEF Allocates
  <2>7. Starts(T, D, r)
    BY <2>2, <2>3, <2>5, PtrFacts DEF Starts
  <2>8. Sound(D) /\ NoneLost(T, D)
    BY <2>6, <2>7, AllocatesSound
  <2>9. ShutOK(D, p)
    BY <2>2, <2>3, <2>6, AllocatesShut
  <2>. QED BY <2>1, <2>2, <2>4, <2>8, <2>9
<1>. QED BY <1>1, <1>2
-----------------------------------------------------------------------------
\* The inductive invariant: up to the first use of something stale.
Safe == ~late => Sound(tab) /\ ShutOK(tab, pc)

\* A UDP socket that lost its client had the client of one that ended.
LostToAnother(T, D) ==
    \A f \in Orphans(D) \ Orphans(T) :
      \E g \in Fds : /\ g # f /\ {T.hm[f], T.hm[g]} \subseteq Recs /\ D.hm[g] = NoRec
                     /\ T.rec[T.hm[f]].control = T.rec[T.hm[g]].control

\* If none is lost, there is nothing to show, and step by step none is lost.
LEMMA NoneLostFacts ==
  /\ \A T, D : NoneLost(T, D) => LostToAnother(T, D)
  /\ \A T : NoneLost(T, T)
  /\ \A T, D, U : NoneLost(T, D) /\ NoneLost(D, U) => NoneLost(T, U)
  BY DEF NoneLost, LostToAnother

\* Nothing stale is used up to the end of the step.
Before == TypeOK /\ Sound(tab) /\ ShutOK(tab, pc) /\ ~late'
After  == Sound(tab)' /\ ShutOK(tab, pc)' /\ LostToAnother(tab, tab')

\* Numbers that are dropped at the loop.
LEMMA DropSafe ==
  ASSUME Before, pc = "loop", pc' = "loop", NEW T \in Tables, GoesOn(tab, T),
         \A f \in Fds : T.hm[f] = tab.hm[f] /\ T.open[f] = tab.open[f],
         NEW F \in SUBSET Fds, tab' = Drop(T, F)
  PROVE  /\ Sound(tab)' /\ ShutOK(tab, pc)'
         /\ Complete(tab, F) => After
<1>0. Complete(tab, F) => Complete(T, F)
  <2>1. Dropped(T, F) = Dropped(tab, F)
    BY DEF Dropped
  <2>2. \A r \in Recs : T.rec[r].control = tab.rec[r].control
    BY DEF GoesOn
  <2>. QED BY <2>1, <2>2 DEF Complete
<1>1. Sound(T) /\ NoneLost(tab, T)
  BY GoesOnSound DEF Before
<1>2. AllOpen(T)
  BY ShutAtLoop DEF Before, AllOpen
<1>3. /\ Sound(Drop(T, F)) /\ AllOpen(Drop(T, F))
      /\ Complete(tab, F) => NoneLost(T, Drop(T, F))
  BY <1>0, <1>1, <1>2, DropSound, DropOpen
<1>4. Sound(tab)' /\ ShutOK(tab, pc)'
  BY <1>3, ShutAtLoop
<1>5. Complete(tab, F) => LostToAnother(tab, tab')
  BY <1>1, <1>3, NoneLostFacts
<1>. QED BY <1>4, <1>5 DEF After

\* No step.
LEMMA GoesOnSelf == \A T : GoesOn(T, T)
  BY DEF GoesOn

\* accept() and the greeting.
LEMMA AcceptSafe ==
  ASSUME Before, Accept
  PROVE  After
<1>. DEFINE c == NextRec(tab)
            f == NextFd(tab)
            O == Opens(tab, c, New("client", f, "connected", NoRec))
            A == AddSocket(O, f, c, "read")
            B == [A EXCEPT !.rec[c].step = "request"]
<1>1. pc = "loop" /\ pc' = "loop" /\ Room(tab) /\ (tab' = A \/ tab' = B)
  BY DEF Accept, Greets
<1>2. tab \in Tables /\ Sound(tab) /\ AllOpen(tab)
  BY <1>1, ShutAtLoop DEF Before, TypeOK
<1>3. /\ O \in Tables /\ c \in Recs /\ f \in Fds
      /\ O.rec[c].kind = "client" /\ O.rec[c].sock = f /\ O.rec[c].control = NoRec
      /\ O.thread = tab.thread /\ O.hm = tab.hm /\ O.server = tab.server
      /\ tab.thread[c] = NoThread /\ Allocates(tab, O, c, f)
  BY <1>1, <1>2, OpensFacts, PtrFacts
<1>. HIDE DEF O, c, f
<1>4. Starts(tab, O, c)
  BY <1>3, PtrFacts DEF Starts, NoThread
<1>5. Sound(O) /\ NoneLost(tab, O)
  BY <1>2, <1>3, <1>4, AllocatesSound
<1>6. tab.hm[f] = NoRec /\ O.open[f] = c
  <2>1. tab.open[f] = NoRec /\ O.open[f] = c
    BY <1>3 DEF Allocates, Free
  <2>2. tab.hm[f] \notin Recs
    BY <1>2, <1>3, <2>1, PtrFacts DEF AllOpen
  <2>3. tab.hm[f] \in Ptrs /\ tab.hm[f] # Gone
    BY <1>2, <1>3 DEF Tables, Sound, MapOK
  <2>. QED BY <2>1, <2>2, <2>3 DEF Ptrs
<1>7. AllOpen(O)
  BY <1>1, <1>2, <1>3, AllocatesShut, ShutAtLoop
<1>8. /\ A.rec = O.rec /\ A.thread = O.thread /\ A.open = O.open /\ A.server = O.server
      /\ A.hm[f] = c /\ "read" \in A.watch[f]
      /\ \A g \in Fds \ {f} : A.hm[g] = O.hm[g] /\ A.watch[g] = O.watch[g]
  BY <1>3, <1>6, AddSocketFacts
<1>9. A \in Tables
  BY <1>3, AddSocketTypes, PtrFacts DEF Kinds
<1>. HIDE DEF A
<1>10. GoesOn(O, A)
  BY <1>3, <1>6, <1>8, PtrFacts DEF GoesOn, NoThread
<1>11. Sound(A) /\ AllOpen(A) /\ NoneLost(O, A)
  BY <1>5, <1>6, <1>7, <1>8, <1>10, GoesOnSound DEF AllOpen
<1>12. GoesOn(A, B) /\ B.hm = A.hm /\ B.open = A.open
  BY <1>9, MarksGoOn DEF Tables
<1>13. Sound(B) /\ AllOpen(B) /\ NoneLost(A, B)
  BY <1>11, <1>12, GoesOnSound DEF AllOpen
<1>. HIDE DEF B
<1>14. NoneLost(tab, A) /\ NoneLost(tab, B)
  BY <1>5, <1>11, <1>13, NoneLostFacts
<1>. QED BY <1>1, <1>11, <1>13, <1>14, ShutAtLoop, NoneLostFacts DEF After

\* Only clients are anybody's control.
LEMMA OthersComplete ==
  ASSUME NEW T, Sound(T), NEW F \in SUBSET Fds,
         \A h \in F : T.hm[h] \in Recs => ~IsClient(T, T.hm[h])
  PROVE  Complete(T, F)
  BY PtrFacts DEF Complete, Dropped, Sound, PointersOK

\* disconnect() and rm_socket(): a client takes its UDP sockets along; a UDP
\* socket takes its client along, and leaves the others of that client.
LEMMA HangUpLoses ==
  ASSUME NEW T \in Tables, Sound(T), NEW f \in Fds, NEW c \in Recs, T.hm[f] = c,
         NEW g \in Orphans(Drop(T, Walked(T, c) \cup {f})) \ Orphans(T)
  PROVE  /\ g # f /\ T.hm[g] \in Recs /\ T.rec[c].kind = "udp"
         /\ T.rec[T.hm[g]].control = T.rec[c].control
<1>. DEFINE F == Walked(T, c) \cup {f}
            D == Drop(T, F)
            R == Dropped(T, F)
            q == T.hm[g]
            d == T.rec[q].control
<1>1. /\ g \in Fds /\ D.hm[g] \in Recs /\ D.rec[D.hm[g]].control = Gone
      /\ D.hm[g] = IF g \in F THEN NoRec ELSE Dangling(T.hm[g], R)
  BY DropFacts DEF Orphans
<1>2. g \notin F /\ q \in Recs /\ q \notin R /\ D.hm[g] = q
  <2>1. R \in SUBSET Recs
    BY DEF Dropped
  <2>. HIDE DEF D, R, F
  <2>. QED BY <1>1, <2>1, DanglingFacts, PtrFacts
<1>3. D.rec[q].control = Dangling(d, R)
  <2>1. Freed(T, D, R)
    BY DropFacts
  <2>. HIDE DEF D, R
  <2>. QED BY <1>2, <2>1 DEF Freed
<1>4. d \in R
  <2>1. d # Gone
    BY <1>1, <1>2 DEF Orphans
  <2>. HIDE DEF D, R, d
  <2>. QED BY <1>1, <1>2, <1>3, <2>1 DEF Dangling
<1>5. d \in Recs /\ IsClient(T, d) /\ T.rec[q].kind = "udp"
  BY <1>2, <1>4, PtrFacts DEF Dropped, Sound, PointersOK
<1>6. PICK h \in F : T.hm[h] = d
  BY <1>4 DEF Dropped
<1>7. T.rec[q].sock = g /\ T.watch[g] # {}
  BY <1>1, <1>2 DEF Sound, MapOK
<1>8. CASE h = f
  <2>1. T.rec[c].kind = "client" /\ d = c
    BY <1>5, <1>6, <1>8 DEF IsClient
  <2>2. g \in Walked(T, c)
    BY <1>1, <1>2, <1>7, <2>1 DEF Walked
  <2>. QED BY <1>2, <2>2
<1>9. CASE h \in Walked(T, c)
  <2>1. CASE T.rec[c].kind = "client" /\ T.rec[d].control = c
    <3>1. T.rec[d].control # NoRec
      BY <2>1, PtrFacts
    <3>2. T.rec[d].kind = "udp"
      BY <1>5, <3>1 DEF Sound, PointersOK
    <3>. QED BY <1>5, <3>2 DEF IsClient
  <2>2. CASE T.rec[c].kind = "udp" /\ T.rec[c].control = d
    BY <1>2, <2>2
  <2>. QED BY <1>6, <1>9, <2>1, <2>2 DEF Walked
<1>. QED BY <1>6, <1>8, <1>9

\* The handler, but for proxy_bind_reply().
LEMMA HandlerSafe ==
  ASSUME Before, NEW f \in Fds, NEW c \in Recs, Handler(f, c), ~Bind(f, c)
  PROVE  After
<1>0. /\ tab \in Tables /\ Sound(tab) /\ ShutOK(tab, pc) /\ GoesOn(tab, tab)
      /\ tab.hm[f] = c /\ pc = "loop"
  BY GoesOnSelf DEF Before, TypeOK, Handler, Hello, HangUp, AuthFails, Reset, CloseReply,
     Datagram, Registered, ClientWrite, Request, Reads, Event
<1>a. ASSUME NEW F \in SUBSET Fds, pc' = "loop", tab' = Drop(tab, F)
      PROVE  Sound(tab)' /\ ShutOK(tab, pc)' /\ (Complete(tab, F) => After)
  BY <1>0, <1>a, DropSafe
<1>b. ASSUME NEW g \in Fds, tab.hm[g] \in Recs => ~IsClient(tab, tab.hm[g])
      PROVE  Complete(tab, {g})
  BY <1>0, <1>b, OthersComplete
<1>1. CASE Hello(f, c)
  <2>. DEFINE B == [tab EXCEPT !.rec[c].step = "request"]
  <2>1. pc' = "loop" /\ tab.rec[c].step = "connected" /\ (tab' = B \/ tab' = Drop(tab, {f}))
    BY <1>1 DEF Hello, Event
  <2>2. GoesOn(tab, B) /\ B.hm = tab.hm /\ B.open = tab.open
    BY <1>0, MarksGoOn DEF Tables
  <2>3. Sound(B) /\ ShutOK(B, pc) /\ NoneLost(tab, B)
    BY <1>0, <2>2, GoesOnSound, GoesOnShut
  <2>4. Complete(tab, {f})
    BY <1>0, <1>b, <2>1 DEF IsClient
  <2>. HIDE DEF B
  <2>. QED BY <1>0, <1>a, <2>1, <2>3, <2>4, NoneLostFacts DEF After
<1>2. CASE HangUp(f, c)
  <2>. DEFINE F == Walked(tab, c) \cup {f}
  <2>1. F \in SUBSET Fds
    BY DEF Walked
  <2>2. tab' = Drop(tab, F) /\ pc' = "loop"
    BY <1>0, <1>2 DEF HangUp, Before
  <2>3. LostToAnother(tab, tab')
    <3>. SUFFICES ASSUME NEW g \in Orphans(tab') \ Orphans(tab)
                  PROVE  /\ f # g /\ {tab.hm[g], tab.hm[f]} \subseteq Recs /\ tab'.hm[f] = NoRec
                         /\ tab.rec[tab.hm[g]].control = tab.rec[tab.hm[f]].control
      BY DEF LostToAnother
    <3>1. tab'.hm[f] = NoRec
      BY <1>0, <2>2, DropFacts
    <3>2. g # f /\ tab.hm[g] \in Recs /\ tab.rec[tab.hm[g]].control = tab.rec[c].control
      BY <1>0, <2>2, HangUpLoses
    <3>. QED BY <1>0, <3>1, <3>2
  <2>. QED BY <1>a, <2>1, <2>2, <2>3 DEF After
<1>3. CASE AuthFails(f, c)
  <2>1. Complete(tab, {f})
    BY <1>0, <1>3 DEF AuthFails, Bound, Complete, Dropped
  <2>. QED BY <1>0, <1>3, <1>a, <2>1 DEF AuthFails, Request, Reads, Event
<1>4. ASSUME NEW g \in Fds, pc' = "loop", g \in Bound(tab, c),
             tab' = Drop([tab EXCEPT !.rec[c].closed = TRUE], {g})
      PROVE  After
  <2>. DEFINE T == [tab EXCEPT !.rec[c].closed = TRUE]
  <2>1. GoesOn(tab, T) /\ T.hm = tab.hm /\ T.open = tab.open /\ T \in Tables
    BY <1>0, MarksGoOn, RecordTypes DEF Tables
  <2>2. tab.rec[tab.hm[g]].kind = "udp"
    BY <1>0, <1>4, PtrFacts DEF Bound, Sound, PointersOK
  <2>3. Complete(tab, {g})
    BY <1>b, <2>2 DEF IsClient
  <2>. HIDE DEF T
  <2>. QED BY <1>0, <1>4, <2>1, <2>3, DropSafe DEF T
<1>5. ASSUME pc' = pc, tab' = [tab EXCEPT !.rec[c].closed = TRUE] PROVE After
  <2>. DEFINE T == [tab EXCEPT !.rec[c].closed = TRUE]
  <2>1. GoesOn(tab, T) /\ T.hm = tab.hm /\ T.open = tab.open
    BY <1>0, MarksGoOn DEF Tables
  <2>2. tab' = T
    BY <1>5
  <2>. HIDE DEF T
  <2>3. Sound(T) /\ ShutOK(T, pc) /\ NoneLost(tab, T)
    BY <1>0, <2>1, GoesOnSound, GoesOnShut
  <2>. QED BY <1>5, <2>2, <2>3, NoneLostFacts DEF After
<1>6. CASE Reset(f, c)
  <2>1. ~late'
    BY DEF Before
  <2>. QED BY <1>0, <1>4, <1>5, <1>6, <2>1 DEF Reset
<1>7. ASSUME NEW g \in Fds, CloseReply(f, c, g) PROVE After
  BY <1>0, <1>4, <1>7 DEF CloseReply
<1>8. CASE Datagram(f, c)
  BY <1>0, <1>8, NoneLostFacts DEF Datagram, After
<1>9. CASE Registered(f, c)
  <2>1. tab.rec[c].kind = "server" /\ pc' = "loop" /\ tab' = Drop(tab, {f})
    BY <1>0, <1>9 DEF Registered, Request
  <2>2. Complete(tab, {f})
    BY <1>0, <1>b, <2>1 DEF IsClient
  <2>. QED BY <1>a, <2>1, <2>2
<1>10. CASE ClientWrite(f, c)
  <2>. DEFINE T == [tab EXCEPT !.rec[c].reply = FALSE]
              W == [T EXCEPT !.watch[f] = @ \ {"write"}]
  <2>1. tab.hm[f] = c /\ pc = "loop" /\ pc' = "loop" /\ (tab' = tab \/ tab' = RmSocket(T, f, {"write"}))
    BY <1>10 DEF ClientWrite, Event
  <2>2. GoesOn(tab, T) /\ T \in Tables
    BY <1>0, MarksGoOn, RecordTypes
  <2>3. T.hm = tab.hm /\ T.open = tab.open /\ T.watch = tab.watch
    BY <1>0 DEF Tables
  <2>4. Sound(T) /\ ShutOK(T, pc) /\ NoneLost(tab, T)
    BY <1>0, <2>2, <2>3, GoesOnSound, GoesOnShut
  <2>. HIDE DEF T
  <2>5. T.hm[f] = c /\ "read" \in T.watch[f]
    BY <2>1, <2>3, <2>4 DEF Sound, MapOK
  <2>6. RmSocket(T, f, {"write"}) = W
    BY <2>5 DEF RmSocket
  <2>7. /\ W.rec = T.rec /\ W.thread = T.thread /\ W.hm = T.hm /\ W.open = T.open /\ W.server = T.server
        /\ W.watch = [T.watch EXCEPT ![f] = @ \ {"write"}]
    BY <2>2 DEF Tables
  <2>8. GoesOn(T, W)
    <3>1. /\ "read" \in W.watch[f] /\ W.hm[f] \in Recs
          /\ \A g \in Fds \ {f} : W.watch[g] = T.watch[g]
      BY <2>2, <2>5, <2>7 DEF Tables
    <3>. HIDE DEF W
    <3>. QED BY <2>7, <3>1 DEF GoesOn
  <2>9. Sound(W) /\ ShutOK(W, pc) /\ NoneLost(T, W)
    BY <2>4, <2>7, <2>8, GoesOnSound, GoesOnShut
  <2>. HIDE DEF W
  <2>10. NoneLost(tab, tab) /\ NoneLost(tab, W)
    BY <2>4, <2>9, NoneLostFacts
  <2>. QED BY <1>0, <2>1, <2>6, <2>9, <2>10, NoneLostFacts DEF After
<1>. QED BY <1>1, <1>2, <1>3, <1>6, <1>7, <1>8, <1>9, <1>10 DEF Handler

\* proxy_bind_reply(): a thread and a record for it, or nothing.
LEMMA BindSafe ==
  ASSUME Before, NEW f \in Fds, NEW c \in Recs, Bind(f, c)
  PROVE  After
<1>0. /\ tab \in Tables /\ Sound(tab) /\ ShutOK(tab, pc)
      /\ tab.hm[f] = c /\ pc = "loop" /\ pc' = "loop"
      /\ tab.rec[c].step = "request" /\ tab.rec[c].kind = "client"
  BY DEF Before, TypeOK, Bind, Request, Reads, Event
<1>1. CASE ~Room(tab)
  BY <1>0, <1>1, NoneLostFacts DEF Bind, After
<1>2. CASE Room(tab)
  <2>. DEFINE u == NextRec(tab)
              g == NextFd(tab)
              O == Opens(tab, u, New("udp", g, "connected", c))
              h == [at |-> "bind", control |-> c]
              D == [O EXCEPT !.thread[u] = h]
  <2>1. tab' = D
    BY <1>2 DEF Bind
  <2>2. /\ O \in Tables /\ u \in Recs
        /\ O.rec[u].kind = "udp" /\ O.rec[u].control = c
        /\ O.thread = tab.thread /\ O.server = tab.server /\ Allocates(tab, O, u, g)
    BY <1>0, <1>2, OpensFacts, PtrFacts
  <2>. HIDE DEF O, u, g
  <2>3. /\ D.rec = O.rec /\ D.hm = O.hm /\ D.watch = O.watch /\ D.open = O.open
        /\ D.server = O.server /\ D.thread = [O.thread EXCEPT ![u] = h]
    BY <2>2 DEF Tables
  <2>4. D.thread[u] = h /\ \A q \in Recs \ {u} : D.thread[q] = O.thread[q]
    BY <2>2, <2>3 DEF Tables
  <2>. HIDE DEF D
  <2>5. Allocates(tab, D, u, g)
    BY <2>2, <2>3, <2>4 DEF Allocates
  <2>6. IsClient(tab, c)
    BY <1>0 DEF IsClient, Sound, MapOK
  <2>7. Starts(tab, D, u)
    BY <2>2, <2>3, <2>4, <2>6, PtrFacts DEF Starts
  <2>8. Sound(D) /\ ShutOK(D, pc) /\ NoneLost(tab, D)
    BY <1>0, <2>5, <2>7, AllocatesSound, AllocatesShut
  <2>. QED BY <1>0, <2>1, <2>8, NoneLostFacts DEF After
<1>. QED BY <1>1, <1>2

\* timer_event().
LEMMA TimerSafe ==
  ASSUME Before, TimerStep
  PROVE  After
<1>0. tab \in Tables /\ Sound(tab) /\ ShutOK(tab, pc) /\ ~late'
  BY DEF Before, TypeOK
<1>1. CASE TimerRegisters
  BY <1>0, <1>1, RegisterSound, NoneLostFacts DEF TimerRegisters, After
<1>2. CASE TimerExpires
  <2>1. CASE tab.server = NoRec
    <3>1. tab' = tab /\ pc = "loop" /\ pc' = "exit"
      BY <1>2, <2>1 DEF TimerExpires
    <3>. QED BY <1>0, <3>1, ShutAtLoop, NoneLostFacts DEF After
  <2>2. CASE tab.server # NoRec
    <3>1. PICK f \in ServerSock : tab' = Close(tab, f) /\ ~Stray(f) /\ pc' = "rm" /\ pc = "loop"
      BY <1>0, <1>2, <2>2 DEF TimerExpires
    <3>2. tab.server \in Recs
      BY <1>0, <2>2, <3>1 DEF Stray, Tables, Ptrs
    <3>3. f = tab.rec[tab.server].sock /\ tab.open[f] \in {tab.server, NoRec}
      BY <3>1, <3>2, PtrFacts DEF ServerSock, Stray
    <3>4. f \in Fds /\ tab.rec[tab.server].kind = "server"
      BY <1>0, <3>2, <3>3 DEF Sound, PointersOK, RecordsOK
    <3>5. /\ tab'.rec = tab.rec /\ tab'.thread = tab.thread /\ tab'.hm = tab.hm /\ tab'.watch = tab.watch
          /\ tab'.server = tab.server /\ tab'.open[f] = NoRec
          /\ \A g \in Fds \ {f} : tab'.open[g] = tab.open[g]
      BY <1>0, <3>1, <3>4 DEF Close, Tables
    <3>6. GoesOn(tab, tab')
      BY <3>5 DEF GoesOn
    <3>7. AllOpen(tab)
      BY <1>0, <3>1, ShutAtLoop
    <3>8. ShutOK(tab', "rm")
      BY <3>2, <3>3, <3>4, <3>5, <3>7, PtrFacts DEF ShutOK, AllOpen
    <3>. QED BY <1>0, <3>1, <3>6, <3>8, GoesOnSound, NoneLostFacts DEF After
  <2>. QED BY <2>1, <2>2
<1>3. CASE TimerRm
  <2>1. PICK f \in ServerSock : tab' = Drop(tab, {f}) /\ ~Stray(f) /\ tab.open[f] = NoRec /\ pc = "rm" /\ pc' = "loop"
    BY <1>0, <1>3 DEF TimerRm
  <2>2. tab.server \in Recs
    BY <1>0, <2>1 DEF ShutOK
  <2>3. f = tab.rec[tab.server].sock
    BY <2>1, <2>2, PtrFacts DEF ServerSock
  <2>4. f \in Fds
    BY <1>0, <2>2, <2>3 DEF Sound, PointersOK, RecordsOK
  <2>5. \A g \in Fds : tab.hm[g] \in Recs /\ g # f => tab.open[g] = tab.hm[g]
    BY <1>0, <2>1, <2>3 DEF ShutOK
  <2>6. AllOpen(Drop(tab, {f}))
    <3>. SUFFICES ASSUME NEW g \in Fds, Drop(tab, {f}).hm[g] \in Recs
                  PROVE  Drop(tab, {f}).open[g] = Drop(tab, {f}).hm[g]
      BY DEF AllOpen
    <3>1. /\ Drop(tab, {f}).hm[g] = IF g \in {f} THEN NoRec ELSE Dangling(tab.hm[g], Dropped(tab, {f}))
          /\ Drop(tab, {f}).open[g] = IF g \in {f} THEN NoRec ELSE tab.open[g]
      BY <1>0, DropFacts
    <3>2. g # f /\ Dangling(tab.hm[g], Dropped(tab, {f})) \in Recs
      BY <3>1, PtrFacts
    <3>3. tab.hm[g] \in Recs /\ Dangling(tab.hm[g], Dropped(tab, {f})) = tab.hm[g]
      BY <3>2, DanglingFacts DEF Dropped
    <3>. QED BY <2>5, <3>1, <3>2, <3>3
  <2>7. Sound(Drop(tab, {f})) /\ NoneLost(tab, Drop(tab, {f}))
    <3>1. tab.hm[f] \in Recs => tab.rec[tab.hm[f]].kind = "server"
      BY <1>0, <2>1, <2>4, PtrFacts DEF ShutOK
    <3>2. Complete(tab, {f})
      BY <1>0, <2>4, <3>1, OthersComplete DEF IsClient
    <3>. QED BY <1>0, <2>4, <3>2, DropSound
  <2>. QED BY <2>1, <2>6, <2>7, ShutAtLoop, NoneLostFacts DEF After
<1>. QED BY <1>1, <1>2, <1>3 DEF TimerStep

\* A thread that goes on to another place.
LEMMA ThreadGoesOn ==
  ASSUME NEW T \in Tables, NEW u \in Recs, NEW place \in {"register", "reply", "write"},
         T.thread[u].at \notin {"none", "connect", "bind"}
  PROVE  LET D == [T EXCEPT !.thread[u].at = place]
         IN  /\ GoesOn(T, D) /\ D.rec = T.rec /\ D.hm = T.hm /\ D.open = T.open /\ D.watch = T.watch
             /\ D.server = T.server
<1>. DEFINE D == [T EXCEPT !.thread[u].at = place]
<1>1. /\ D.rec = T.rec /\ D.hm = T.hm /\ D.open = T.open /\ D.watch = T.watch /\ D.server = T.server
      /\ D.thread = [T.thread EXCEPT ![u].at = place]
  BY DEF Tables
<1>2. \A q \in Recs : T.thread[q] \in Threads
  BY DEF Tables
<1>3. /\ \A q \in Recs \ {u} : D.thread[q] = T.thread[q]
      /\ D.thread[u].at = place /\ D.thread[u].control = T.thread[u].control
  BY <1>1, <1>2 DEF Tables, Threads
<1>. HIDE DEF D
<1>4. GoesOn(T, D)
  BY <1>1, <1>3 DEF GoesOn
<1>. QED BY <1>1, <1>4 DEF D

\* A thread that ends.
LEMMA ThreadEnds ==
  ASSUME NEW T \in Tables, NEW u \in Recs
  PROVE  /\ Ends(T, u).rec = T.rec /\ Ends(T, u).hm = T.hm /\ Ends(T, u).open = T.open
         /\ Ends(T, u).watch = T.watch /\ Ends(T, u).server = T.server
         /\ Ends(T, u).thread[u] = NoThread
         /\ \A q \in Recs \ {u} : Ends(T, u).thread[q] = T.thread[q]
  BY DEF Ends, Tables

\* connect() of an attempt to register ends.
LEMMA ConnectSafe ==
  ASSUME Before, NEW r \in Recs, ConnectEnds(r)
  PROVE  After
<1>0. tab \in Tables /\ Sound(tab) /\ ShutOK(tab, pc) /\ pc' = pc /\ tab.thread[r].at = "connect"
  BY DEF Before, TypeOK, ConnectEnds, Thread
<1>1. CASE tab' = Ends(tab, r)
  <2>1. GoesOn(tab, tab')
    BY <1>0, <1>1, ThreadEnds DEF GoesOn, NoThread
  <2>. QED BY <1>0, <1>1, <2>1, ThreadEnds, GoesOnSound, GoesOnShut, NoneLostFacts DEF After
<1>2. CASE /\ tab' = Ends(AddSocket(tab, tab.rec[r].sock, r, "read"), r)
           /\ late' = (late \/ tab.open[tab.rec[r].sock] # r)
  <2>. DEFINE f == tab.rec[r].sock
              A == AddSocket(tab, f, r, "read")
  <2>1. /\ tab.rec[r].kind = "server" /\ tab.rec[r].step = "request" /\ tab.hm[f] # r
        /\ f \in Fds /\ tab.open[f] = r /\ tab.rec[r].control # Gone
    BY <1>0, <1>2, RecAssumption DEF Before, Sound, ThreadsOK, RecordsOK, PointersOK
  <2>2. tab.hm[f] = NoRec \/ tab.hm[f] \in Recs
    BY <1>0, <2>1 DEF Tables, Ptrs, Sound, MapOK
  <2>3. tab' = Ends(A, r)
    BY <1>2
  <2>. HIDE DEF f
  <2>4. /\ A.rec = tab.rec /\ A.thread = tab.thread /\ A.open = tab.open /\ A.server = tab.server
        /\ A.hm[f] = IF tab.hm[f] = NoRec THEN r ELSE tab.hm[f]
        /\ A.watch[f] = tab.watch[f] \cup {"read"}
        /\ \A g \in Fds \ {f} : A.hm[g] = tab.hm[g] /\ A.watch[g] = tab.watch[g]
    BY <1>0, <2>1, AddSocketFacts
  <2>5. A \in Tables
    BY <1>0, AddSocketTypes, PtrFacts DEF Kinds
  <2>. HIDE DEF A
  <2>6. /\ tab'.rec = A.rec /\ tab'.hm = A.hm /\ tab'.open = A.open
        /\ tab'.watch = A.watch /\ tab'.server = A.server
        /\ tab'.thread[r] = NoThread
        /\ \A q \in Recs \ {r} : tab'.thread[q] = A.thread[q]
    BY <2>3, <2>5, ThreadEnds
  <2>t. tab.thread[r].at = "connect"
    BY <1>0
  <2>7. GoesOn(tab, tab')
    <3>1. /\ tab'.rec = tab.rec /\ tab'.server = tab.server /\ tab'.open = tab.open
          /\ tab'.thread[r].at = "none" /\ tab'.thread[r].control = NoRec
          /\ \A q \in Recs \ {r} : tab'.thread[q] = tab.thread[q]
      BY <2>4, <2>6 DEF NoThread
    <3>2. /\ \A g \in Fds \ {f} : tab'.hm[g] = tab.hm[g] /\ tab'.watch[g] = tab.watch[g]
          /\ "read" \in tab'.watch[f] /\ tab'.hm[f] = IF tab.hm[f] = NoRec THEN r ELSE tab.hm[f]
      BY <2>4, <2>6
    <3>3. tab.rec[r].sock = f
      BY DEF f
    <3>4. /\ \A q \in Recs :
               /\ tab'.rec[q] = tab.rec[q]
               /\ \/ tab'.thread[q] = tab.thread[q]
                  \/ /\ tab'.thread[q].at = "none" /\ tab'.thread[q].control = NoRec
                     /\ tab.thread[q].at # "bind"
      BY <2>t, <3>1
    <3>5. \A g \in Fds :
            /\ \/ tab'.hm[g] = tab.hm[g]
               \/ /\ g = f /\ tab.hm[g] = NoRec /\ tab'.hm[g] = r
                  /\ tab'.thread[r].at = "none"
            /\ tab'.watch[g] = tab.watch[g] \/ (g = f /\ tab'.hm[g] \in Recs)
      BY <2>2, <3>1, <3>2
    <3>. QED BY <2>1, <3>1, <3>2, <3>3, <3>4, <3>5 DEF GoesOn
  <2>8. \A g \in Fds : tab'.open[g] = tab.open[g] /\ (tab'.hm[g] = tab.hm[g] \/ tab'.hm[g] = tab.open[g])
    BY <2>1, <2>4, <2>6
  <2>. QED BY <1>0, <2>7, <2>8, GoesOnSound, GoesOnShut, NoneLostFacts DEF After
<1>. QED BY <1>1, <1>2 DEF ConnectEnds

\* binding() has a port: the UDP socket goes into the map.
LEMMA PortSafe ==
  ASSUME Before, NEW u \in Recs, tab.thread[u].at = "bind", pc' = pc,
         tab.open[tab.rec[u].sock] = u, tab.thread[u].control # Gone,
         tab' = [AddSocket(tab, tab.rec[u].sock, u, "read") EXCEPT
                   !.rec[u].step = "request", !.thread[u].at = "register"]
  PROVE  After
<1>. DEFINE f == tab.rec[u].sock
            A == AddSocket(tab, f, u, "read")
            B == [A EXCEPT !.rec[u].step = "request"]
            C == [B EXCEPT !.thread[u].at = "register"]
<1>0. tab \in Tables /\ Sound(tab) /\ ShutOK(tab, pc)
  BY DEF Before, TypeOK
<1>1. tab.rec[u].kind = "udp" /\ tab.hm[f] # u /\ f \in Fds
  BY <1>0 DEF Sound, ThreadsOK, RecordsOK
<1>2. tab.hm[f] = NoRec /\ tab.rec[u].control # Gone
  <2>1. tab.hm[f] = NoRec \/ tab.hm[f] \in Recs
    BY <1>0, <1>1 DEF Tables, Ptrs, Sound, MapOK
  <2>2. tab.hm[f] \notin Recs
    BY <1>0, <1>1 DEF ShutOK
  <2>3. tab.rec[u].control = tab.thread[u].control
    BY <1>0 DEF Sound, ThreadsOK
  <2>. QED BY <2>1, <2>2, <2>3
<1>3. A \in Tables
  BY <1>0, AddSocketTypes, PtrFacts DEF Kinds
<1>4. /\ A.rec = tab.rec /\ A.thread = tab.thread /\ A.open = tab.open /\ A.server = tab.server
      /\ A.hm[f] = IF tab.hm[f] = NoRec THEN u ELSE tab.hm[f]
      /\ A.watch[f] = tab.watch[f] \cup {"read"}
      /\ \A g \in Fds \ {f} : A.hm[g] = tab.hm[g] /\ A.watch[g] = tab.watch[g]
  BY <1>0, <1>1, AddSocketFacts
<1>5. tab' = C
  <2>1. tab' = [A EXCEPT !.rec[u].step = "request", !.thread[u].at = "register"]
    OBVIOUS
  <2>. HIDE DEF A
  <2>. QED BY <1>3, <2>1 DEF Tables
<1>. HIDE DEF A, f
<1>6. /\ tab'.hm = A.hm /\ tab'.open = A.open /\ tab'.watch = A.watch /\ tab'.server = A.server
      /\ tab'.rec = [A.rec EXCEPT ![u].step = "request"]
      /\ tab'.thread = [A.thread EXCEPT ![u].at = "register"]
  BY <1>3, <1>5 DEF Tables
<1>7. /\ A.rec \in [Recs -> Records] /\ A.thread \in [Recs -> Threads]
      /\ \A q \in Recs : A.rec[q] \in Records /\ A.thread[q] \in Threads
  BY <1>3 DEF Tables
<1>8. /\ \A q \in Recs \ {u} : tab'.rec[q] = A.rec[q] /\ tab'.thread[q] = A.thread[q]
      /\ tab'.rec[u].kind = A.rec[u].kind /\ tab'.rec[u].sock = A.rec[u].sock
      /\ tab'.rec[u].control = A.rec[u].control /\ tab'.rec[u].step = "request"
      /\ tab'.thread[u].at = "register" /\ tab'.thread[u].control = A.thread[u].control
  <2>1. \A q \in Recs \ {u} : tab'.rec[q] = A.rec[q] /\ tab'.thread[q] = A.thread[q]
    BY <1>3, <1>6 DEF Tables
  <2>2. tab'.rec[u] = [A.rec[u] EXCEPT !.step = "request"]
    BY ONLY <1>6, <1>7, u \in Recs
  <2>3. tab'.thread[u] = [A.thread[u] EXCEPT !.at = "register"]
    BY ONLY <1>6, <1>7, u \in Recs
  <2>4. A.rec[u] \in Records /\ A.thread[u] \in Threads
    BY <1>7
  <2>5. /\ tab'.rec[u].kind = A.rec[u].kind /\ tab'.rec[u].sock = A.rec[u].sock
        /\ tab'.rec[u].control = A.rec[u].control /\ tab'.rec[u].step = "request"
    BY <2>2, <2>4 DEF Records
  <2>6. tab'.thread[u].at = "register" /\ tab'.thread[u].control = A.thread[u].control
    BY <2>3, <2>4 DEF Threads
  <2>. QED BY <2>1, <2>5, <2>6
<1>9. GoesOn(tab, tab')
  <2>1. /\ tab'.server = tab.server
        /\ \A q \in Recs \ {u} : tab'.rec[q] = tab.rec[q] /\ tab'.thread[q] = tab.thread[q]
        /\ tab'.rec[u].kind = tab.rec[u].kind /\ tab'.rec[u].sock = tab.rec[u].sock
        /\ tab'.rec[u].control = tab.rec[u].control /\ tab'.rec[u].step = "request"
        /\ tab'.thread[u].at = "register" /\ tab'.thread[u].control = tab.thread[u].control
    <3>1. A.rec = tab.rec /\ A.thread = tab.thread /\ A.server = tab.server /\ tab'.server = A.server
      BY <1>4, <1>6
    <3>. QED BY ONLY <1>8, <3>1
  <2>2. \A g \in Fds \ {f} : tab'.hm[g] = tab.hm[g] /\ tab'.watch[g] = tab.watch[g] /\ tab'.open[g] = tab.open[g]
    BY <1>4, <1>6
  <2>3. /\ tab'.open[f] = tab.open[f] /\ "read" \in tab'.watch[f]
        /\ tab'.hm[f] = IF tab.hm[f] = NoRec THEN u ELSE tab.hm[f]
    BY <1>4, <1>6
  <2>4. tab.thread[u].at = "bind" /\ tab.rec[u].sock = f
    BY DEF f
  <2>. QED BY <1>1, <1>2, <2>1, <2>2, <2>3, <2>4, PtrFacts DEF GoesOn
<1>10. \A g \in Fds : tab'.open[g] = tab.open[g] /\ (tab'.hm[g] = tab.hm[g] \/ tab'.hm[g] = tab.open[g])
  BY <1>4, <1>6 DEF f
<1>11. Sound(tab') /\ ShutOK(tab', pc) /\ NoneLost(tab, tab')
  BY <1>0, <1>9, <1>10, GoesOnSound, GoesOnShut
<1>. QED BY <1>11, NoneLostFacts DEF After

\* Writes to the record of the client and registration for writing.
LEMMA ReplySafe ==
  ASSUME Before, NEW u \in Recs, BindReplies(u) \/ BindWrites(u)
  PROVE  After
<1>. DEFINE c == tab.thread[u].control
<1>0. tab \in Tables /\ Sound(tab) /\ ShutOK(tab, pc) /\ pc' = pc
  BY DEF Before, TypeOK, BindReplies, BindWrites
<1>1. tab.thread[u].at \in {"reply", "write"} /\ c # Gone
  BY DEF Before, BindReplies, BindWrites, Thread
<1>2. c \in Recs /\ IsClient(tab, c) /\ tab.rec[c].sock \in Fds
  <2>1. c \in Ptrs
    BY <1>0 DEF Tables, Threads
  <2>2. c \in Recs
    BY <1>0, <1>1, <2>1 DEF Ptrs, Sound, ThreadsOK
  <2>. QED BY <1>0, <2>2 DEF Sound, ThreadsOK, IsClient, RecordsOK
<1>3. CASE BindReplies(u)
  <2>. DEFINE T == [tab EXCEPT !.thread[u].at = "write"]
              D == [T EXCEPT !.rec[c].reply = TRUE]
  <2>1. tab' = D
    BY <1>1, <1>3 DEF BindReplies
  <2>2. GoesOn(tab, T) /\ T.hm = tab.hm /\ T.open = tab.open /\ T \in Tables
    BY <1>0, <1>1, ThreadGoesOn, ThreadAtTypes
  <2>3. Sound(T) /\ ShutOK(T, pc) /\ NoneLost(tab, T)
    BY <1>0, <2>2, GoesOnSound, GoesOnShut
  <2>. HIDE DEF T, c
  <2>4. GoesOn(T, D) /\ D.hm = T.hm /\ D.open = T.open
    BY <2>2, MarksGoOn DEF Tables
  <2>5. Sound(D) /\ ShutOK(D, pc) /\ NoneLost(T, D)
    BY <2>3, <2>4, GoesOnSound, GoesOnShut
  <2>6. NoneLost(tab, D)
    BY <2>3, <2>5, NoneLostFacts
  <2>. QED BY <1>0, <2>1, <2>5, <2>6, NoneLostFacts DEF After
<1>4. CASE BindWrites(u)
  <2>. DEFINE f == tab.rec[c].sock
              A == AddSocket(tab, f, c, "write")
  <2>1. tab' = Ends(A, u)
    BY <1>1, <1>4 DEF BindWrites
  <2>2. f \in Fds /\ tab.hm[f] = c /\ "read" \in tab.watch[f] /\ c # NoRec
    BY <1>0, <1>2, PtrFacts DEF IsClient, Sound, MapOK
  <2>. HIDE DEF f, c
  <2>3. A \in Tables
    BY <1>0, <1>2, AddSocketTypes, PtrFacts DEF Kinds
  <2>4. /\ A.rec = tab.rec /\ A.thread = tab.thread /\ A.open = tab.open /\ A.server = tab.server
        /\ A.hm[f] = tab.hm[f]
        /\ A.watch[f] = tab.watch[f] \cup {"write"}
        /\ \A g \in Fds \ {f} : A.hm[g] = tab.hm[g] /\ A.watch[g] = tab.watch[g]
    BY <1>0, <2>2, AddSocketFacts
  <2>. HIDE DEF A
  <2>5. /\ tab'.rec = A.rec /\ tab'.hm = A.hm /\ tab'.open = A.open
        /\ tab'.watch = A.watch /\ tab'.server = A.server
        /\ tab'.thread[u] = NoThread
        /\ \A q \in Recs \ {u} : tab'.thread[q] = A.thread[q]
    BY <2>1, <2>3, ThreadEnds
  <2>6. GoesOn(tab, tab')
    BY <1>1, <1>2, <2>2, <2>4, <2>5 DEF GoesOn, NoThread
  <2>7. \A g \in Fds : tab'.open[g] = tab.open[g] /\ tab'.hm[g] = tab.hm[g]
    BY <2>4, <2>5
  <2>. QED BY <1>0, <2>6, <2>7, GoesOnSound, GoesOnShut, NoneLostFacts DEF After
<1>. QED BY <1>3, <1>4

\* D is T without record u and its socket f, to which no pointer led, and with
\* its thread about to reply.
Loses(T, D, u, f) ==
    /\ u \in Recs /\ f \in Fds /\ T.rec[u].kind = "udp" /\ T.thread[u].at = "bind"
    /\ \A q \in Recs \ {u} :
         /\ D.rec[q].kind = T.rec[q].kind /\ D.rec[q].sock = T.rec[q].sock
         /\ D.rec[q].control = T.rec[q].control /\ D.rec[q].step = T.rec[q].step
         /\ D.thread[q].at = T.thread[q].at /\ D.thread[q].control = T.thread[q].control
    /\ D.rec[u].kind = "none" /\ D.rec[u].control = NoRec
    /\ D.thread[u].at = "reply" /\ D.thread[u].control = T.thread[u].control
    /\ \A g \in Fds : D.hm[g] = T.hm[g] /\ T.hm[g] # u /\ D.watch[g] = T.watch[g]
    /\ \A g \in Fds \ {f} : D.open[g] = T.open[g]
    /\ D.open[f] = NoRec
    /\ D.server = T.server /\ T.server # u

\* binding() has no port.
LEMMA NoPortFacts ==
  ASSUME NEW T \in Tables, Sound(T), NEW u \in Recs, T.thread[u].at = "bind"
  PROVE  Loses(T, [Release(Close(T, T.rec[u].sock), {u}) EXCEPT !.thread[u].at = "reply"],
               u, T.rec[u].sock)
<1>. DEFINE f == T.rec[u].sock
            C == Close(T, f)
            L == Release(C, {u})
            D == [L EXCEPT !.thread[u].at = "reply"]
<1>1. /\ f \in Fds /\ T.rec[u].kind = "udp" /\ T.hm[f] # u
      /\ \A g \in Fds : T.hm[g] # u
  BY DEF Sound, ThreadsOK, RecordsOK, MapOK
<1>2. /\ T.server # u
      /\ \A q \in Recs : T.rec[q].control # u /\ T.thread[q].control # u
  BY <1>1 DEF Sound, PointersOK, ThreadsOK, IsClient
<1>3. /\ C \in Tables /\ C.rec = T.rec /\ C.thread = T.thread /\ C.hm = T.hm /\ C.watch = T.watch
      /\ C.server = T.server /\ C.open[f] = NoRec /\ \A g \in Fds \ {f} : C.open[g] = T.open[g]
  BY <1>1, PtrFacts DEF Close, Tables
<1>. HIDE DEF C, f
<1>4. /\ Freed(C, L, {u}) /\ \A g \in Fds : L.hm[g] = Dangling(C.hm[g], {u})
      /\ L.watch = C.watch /\ L.open = C.open /\ L \in Tables
  <2>1. {u} \in SUBSET Recs
    OBVIOUS
  <2>. QED BY <1>3, <2>1, ReleaseFacts, ReleaseTypes
<1>5. /\ \A q \in Recs : /\ Dangling(T.rec[q].control, {u}) = T.rec[q].control
                        /\ Dangling(T.thread[q].control, {u}) = T.thread[q].control
      /\ \A g \in Fds : Dangling(T.hm[g], {u}) = T.hm[g]
      /\ Dangling(T.server, {u}) = T.server
  BY <1>1, <1>2 DEF Dangling
<1>. HIDE DEF L
<1>6. /\ D.rec = L.rec /\ D.hm = L.hm /\ D.watch = L.watch /\ D.open = L.open /\ D.server = L.server
      /\ D.thread = [L.thread EXCEPT ![u].at = "reply"]
      /\ L.thread \in [Recs -> Threads]
  BY <1>4 DEF Tables
<1>7. /\ \A q \in Recs \ {u} : D.thread[q] = L.thread[q]
      /\ D.thread[u].at = "reply" /\ D.thread[u].control = L.thread[u].control
  <2>1. \A q \in Recs \ {u} : D.thread[q] = L.thread[q]
    BY ONLY <1>6
  <2>2. D.thread[u] = [L.thread[u] EXCEPT !.at = "reply"]
    BY ONLY <1>6, u \in Recs
  <2>3. L.thread[u] \in Threads
    BY <1>6
  <2>. QED BY <2>1, <2>2, <2>3 DEF Threads
<1>. HIDE DEF D
<1>8. ASSUME NEW q \in Recs \ {u}
      PROVE  /\ D.rec[q].kind = T.rec[q].kind /\ D.rec[q].sock = T.rec[q].sock
             /\ D.rec[q].control = T.rec[q].control /\ D.rec[q].step = T.rec[q].step
             /\ D.thread[q].at = T.thread[q].at /\ D.thread[q].control = T.thread[q].control
  <2>1. /\ L.rec[q].kind = C.rec[q].kind /\ L.rec[q].sock = C.rec[q].sock
        /\ L.rec[q].control = Dangling(C.rec[q].control, {u}) /\ L.rec[q].step = C.rec[q].step
        /\ L.thread[q].at = C.thread[q].at
        /\ L.thread[q].control = Dangling(C.thread[q].control, {u})
    <3>1. q \in Recs /\ q \notin {u}
      OBVIOUS
    <3>2. Freed(C, L, {u})
      BY <1>4
    <3>. QED BY ONLY <3>1, <3>2 DEF Freed
  <2>2. D.rec[q] = L.rec[q] /\ D.thread[q] = L.thread[q]
    BY <1>6, <1>7
  <2>3. C.rec[q] = T.rec[q] /\ C.thread[q] = T.thread[q]
    BY <1>3
  <2>4. /\ Dangling(T.rec[q].control, {u}) = T.rec[q].control
        /\ Dangling(T.thread[q].control, {u}) = T.thread[q].control
    BY <1>5
  <2>. QED BY ONLY <2>1, <2>2, <2>3, <2>4
<1>9. /\ D.rec[u].kind = "none" /\ D.rec[u].control = NoRec
      /\ D.thread[u].control = T.thread[u].control /\ D.server = T.server
  <2>1. /\ L.rec[u].kind = "none" /\ L.rec[u].control = NoRec
        /\ L.thread[u].control = Dangling(C.thread[u].control, {u})
        /\ L.server = Dangling(C.server, {u})
    <3>1. Freed(C, L, {u}) /\ u \in {u}
      BY <1>4
    <3>. QED BY ONLY <3>1, u \in Recs DEF Freed
  <2>2. /\ Dangling(T.thread[u].control, {u}) = T.thread[u].control
        /\ Dangling(T.server, {u}) = T.server
    BY <1>5
  <2>3. C.thread = T.thread /\ C.server = T.server
    BY <1>3
  <2>4. D.rec = L.rec /\ D.server = L.server /\ D.thread[u].control = L.thread[u].control
    BY <1>6, <1>7
  <2>. QED BY ONLY <2>1, <2>2, <2>3, <2>4
<1>10. ASSUME NEW g \in Fds
       PROVE  D.hm[g] = T.hm[g] /\ T.hm[g] # u /\ D.watch[g] = T.watch[g]
  <2>1. L.hm[g] = Dangling(C.hm[g], {u}) /\ L.watch = C.watch
    BY <1>4
  <2>2. Dangling(T.hm[g], {u}) = T.hm[g]
    BY <1>5
  <2>3. C.hm = T.hm /\ C.watch = T.watch /\ D.hm = L.hm /\ D.watch = L.watch
    BY <1>3, <1>6
  <2>4. T.hm[g] # u
    BY <1>1
  <2>. QED BY ONLY <2>1, <2>2, <2>3, <2>4
<1>11. D.open[f] = NoRec /\ \A g \in Fds \ {f} : D.open[g] = T.open[g]
  BY <1>3, <1>4, <1>6
<1>12. Loses(T, D, u, f)
  BY <1>1, <1>2, <1>7, <1>8, <1>9, <1>10, <1>11 DEF Loses
<1>. QED BY <1>12 DEF D, L, C, f

\* The tables stay sound, and so does what is shut, if the socket was the record's.
LEMMA LosesSound ==
  ASSUME NEW T, NEW D, NEW p, NEW u, NEW f, Sound(T), ShutOK(T, p), Loses(T, D, u, f), T.open[f] = u
  PROVE  Sound(D) /\ ShutOK(D, p) /\ NoneLost(T, D)
<1>0. T.rec[u].kind = "udp" /\ u \in Recs /\ f \in Fds
  BY DEF Loses
<1>2. RecordsOK(D)
  BY <1>0 DEF Sound, RecordsOK, Loses
<1>3. OpenOK(D)
  <2>. SUFFICES ASSUME NEW g \in Fds, D.open[g] \in Recs
                PROVE  D.rec[D.open[g]].kind # "none" /\ D.rec[D.open[g]].sock = g
    BY DEF OpenOK
  <2>1. g # f /\ D.open[g] = T.open[g]
    BY <1>0, PtrFacts DEF Loses
  <2>2. T.rec[T.open[g]].kind # "none" /\ T.rec[T.open[g]].sock = g
    BY <1>0, <2>1 DEF Sound, OpenOK
  <2>3. T.open[g] # u
    <3>1. T.rec[u].sock = f
      BY <1>0 DEF Sound, OpenOK
    <3>. QED BY <2>1, <2>2, <3>1
  <2>. QED BY <1>0, <2>1, <2>2, <2>3 DEF Loses
<1>4. MapOK(D)
  BY <1>0 DEF Sound, MapOK, Loses
<1>5. \A c \in Recs : IsClient(T, c) => IsClient(D, c)
  <2>. SUFFICES ASSUME NEW c \in Recs, IsClient(T, c) PROVE IsClient(D, c)
    OBVIOUS
  <2>1. c # u /\ T.rec[c].sock \in Fds
    BY <1>0 DEF IsClient, Sound, RecordsOK
  <2>. QED BY <1>0, <2>1 DEF IsClient, Loses
<1>6. ThreadsOK(D)
  <2>. SUFFICES ASSUME NEW q \in Recs
                PROVE  /\ D.thread[q].at = "connect" =>
                            D.rec[q].kind = "server" /\ D.hm[D.rec[q].sock] # q
                       /\ D.thread[q].at = "bind" =>
                            /\ D.rec[q].kind = "udp" /\ D.hm[D.rec[q].sock] # q
                            /\ D.thread[q].control = D.rec[q].control
                       /\ D.thread[q].at \notin {"none", "connect"} => D.thread[q].control # NoRec
                       /\ D.thread[q].control \in Recs => IsClient(D, D.thread[q].control)
    BY DEF ThreadsOK
  <2>1. /\ T.thread[q].at = "connect" => T.rec[q].kind = "server" /\ T.hm[T.rec[q].sock] # q
        /\ T.thread[q].at = "bind" => /\ T.rec[q].kind = "udp" /\ T.hm[T.rec[q].sock] # q
                                        /\ T.thread[q].control = T.rec[q].control
        /\ T.thread[q].at \notin {"none", "connect"} => T.thread[q].control # NoRec
        /\ T.thread[q].control \in Recs => IsClient(T, T.thread[q].control)
    BY <1>0 DEF Sound, ThreadsOK
  <2>2. T.rec[q].kind # "none" => T.rec[q].sock \in Fds
    BY <1>0 DEF Sound, RecordsOK
  <2>3. CASE q = u
    BY <1>0, <1>5, <2>1, <2>3 DEF Loses
  <2>4. CASE q # u
    BY <1>0, <1>5, <2>1, <2>2, <2>4 DEF Loses
  <2>. QED BY <2>3, <2>4
<1>7. PointersOK(D)
  <2>1. ASSUME NEW q \in Recs
        PROVE  /\ D.rec[q].control # NoRec => D.rec[q].kind = "udp"
               /\ D.rec[q].control \in Recs => IsClient(D, D.rec[q].control)
    <3>1. CASE q = u
      BY <1>0, <3>1, PtrFacts DEF Loses
    <3>2. CASE q # u
      BY <1>0, <1>5, <3>2, PtrFacts DEF Sound, PointersOK, Loses
    <3>. QED BY <3>1, <3>2
  <2>2. ASSUME D.server \in Recs PROVE D.rec[D.server].kind = "server"
    BY <1>0, <2>2 DEF Sound, PointersOK, Loses
  <2>. QED BY <2>1, <2>2 DEF PointersOK
<1>8. Sound(D)
  BY <1>2, <1>3, <1>4, <1>6, <1>7 DEF Sound
<1>9. ASSUME p = "rm"
      PROVE  /\ T.server \in Recs /\ D.rec[T.server].sock = T.rec[T.server].sock
             /\ T.rec[T.server].sock # f
             /\ D.open[T.rec[T.server].sock] = T.open[T.rec[T.server].sock]
             /\ T.open[T.rec[T.server].sock] \in {NoRec, T.server}
  <2>1. T.server \in Recs /\ T.open[T.rec[T.server].sock] \in {NoRec, T.server}
    BY <1>0, <1>9 DEF ShutOK
  <2>2. T.rec[T.server].sock \in Fds
    BY <1>0, <2>1 DEF Sound, PointersOK, RecordsOK
  <2>3. T.rec[T.server].sock # f
    BY <1>0, <2>1, PtrFacts DEF Loses
  <2>. QED BY <1>0, <2>1, <2>2, <2>3 DEF Loses
<1>10. ASSUME NEW g \in Fds, D.hm[g] \in Recs, D.open[g] # D.hm[g]
       PROVE  /\ p = "rm" /\ D.rec[D.hm[g]].kind = "server"
              /\ D.open[g] \in Recs => D.rec[D.open[g]].kind = "server"
              /\ D.open[D.rec[D.server].sock] = NoRec => g = D.rec[D.server].sock
  <2>1. T.open[g] # T.hm[g]
    BY <1>0, <1>10 DEF Loses
  <2>2. /\ p = "rm" /\ T.rec[T.hm[g]].kind = "server"
        /\ T.open[g] \in Recs => T.rec[T.open[g]].kind = "server"
        /\ T.open[T.rec[T.server].sock] = NoRec => g = T.rec[T.server].sock
    BY <1>0, <1>10, <2>1 DEF ShutOK, Loses
  <2>3. D.open[g] \in Recs => D.open[g] = T.open[g] /\ T.open[g] # u
    BY <1>0, <2>2, PtrFacts DEF Loses
  <2>4. D.open[g] \in Recs => D.rec[D.open[g]].kind = "server"
    BY <2>2, <2>3 DEF Loses
  <2>. QED BY <1>0, <1>9, <1>10, <2>2, <2>4 DEF Loses
<1>11. ShutOK(D, p)
  BY <1>0, <1>9, <1>10 DEF ShutOK, Loses
<1>12. NoneLost(T, D)
  BY DEF NoneLost, Orphans, Loses
<1>. QED BY <1>8, <1>11, <1>12

\* binding(), up to the reply.
LEMMA BindPortSafe ==
  ASSUME Before, NEW u \in Recs, BindPort(u)
  PROVE  After
<1>. DEFINE f == tab.rec[u].sock
<1>0. tab \in Tables /\ Sound(tab) /\ ShutOK(tab, pc) /\ pc' = pc /\ tab.thread[u].at = "bind"
      /\ ~late'
  BY DEF Before, TypeOK, BindPort, Thread
<1>1. tab.open[f] = u
  BY <1>0 DEF BindPort
<1>2. CASE /\ tab' = [AddSocket(tab, f, u, "read") EXCEPT
                        !.rec[u].step = "request", !.thread[u].at = "register"]
           /\ tab.thread[u].control # Gone
  BY <1>0, <1>1, <1>2, PortSafe
<1>3. CASE tab' = [Release(Close(tab, f), {u}) EXCEPT !.thread[u].at = "reply"]
  <2>1. Loses(tab, tab', u, f)
    BY <1>0, <1>3, NoPortFacts
  <2>2. Sound(tab') /\ ShutOK(tab', pc) /\ NoneLost(tab, tab')
    BY <1>0, <1>1, <2>1, LosesSound
  <2>. QED BY <1>0, <2>2, NoneLostFacts DEF After
<1>. QED BY <1>0, <1>2, <1>3 DEF BindPort

\* binding() registers the proxy anew.
LEMMA BindRegistersSafe ==
  ASSUME Before, NEW u \in Recs, BindRegisters(u)
  PROVE  After
<1>. DEFINE T == Register(tab)
            D == [T EXCEPT !.thread[u].at = "reply"]
<1>0. tab \in Tables /\ Sound(tab) /\ ShutOK(tab, pc) /\ pc' = pc /\ tab' = D
      /\ tab.thread[u].at = "register"
  BY DEF Before, TypeOK, BindRegisters, Thread
<1>1. T \in Tables /\ Sound(T) /\ ShutOK(T, pc) /\ NoneLost(tab, T)
  BY <1>0, RegisterTypes, RegisterSound
<1>2. T.thread[u].at = "register"
  <2>1. tab.thread[u] # NoThread
    BY <1>0 DEF NoThread
  <2>2. T.thread[u] = tab.thread[u]
    BY <1>0, <2>1, RegisterSound
  <2>. QED BY <1>0, <2>2
<1>. HIDE DEF T
<1>3. GoesOn(T, D) /\ D.hm = T.hm /\ D.open = T.open
  BY <1>1, <1>2, ThreadGoesOn
<1>. HIDE DEF D
<1>4. Sound(D) /\ ShutOK(D, pc) /\ NoneLost(T, D)
  BY <1>1, <1>3, GoesOnSound, GoesOnShut
<1>5. NoneLost(tab, D)
  BY <1>1, <1>4, NoneLostFacts
<1>. QED BY <1>0, <1>4, <1>5, NoneLostFacts DEF After

\* What is stale once stays so.
LEMMA LateForEver ==
  ASSUME TypeOK, Next, ~late'
  PROVE  ~late
<1>1. CASE Accept
  BY <1>1 DEF Accept
<1>2. ASSUME NEW f \in Fds, NEW c \in Recs, Handler(f, c) PROVE ~late
  BY <1>2 DEF Handler, Hello, HangUp, AuthFails, Bind, Reset, CloseReply, Datagram, Registered, ClientWrite
<1>3. ASSUME NEW f \in Fds, Garbage(f) PROVE ~late
  BY <1>3 DEF Garbage
<1>4. CASE SelectFails
  BY <1>4 DEF SelectFails
<1>5. CASE TimerStep
  BY <1>5 DEF TimerStep, TimerRegisters, TimerExpires, TimerRm
<1>6. CASE Tick
  BY <1>6 DEF Tick
<1>7. ASSUME NEW r \in Recs, ThreadStep(r) PROVE ~late
  BY <1>7 DEF ThreadStep, ConnectEnds, BindPort, BindRegisters, BindReplies, BindWrites
<1>8. CASE Exited
  BY <1>8 DEF Exited, vars
<1>. QED BY <1>1, <1>2, <1>3, <1>4, <1>5, <1>6, <1>7, <1>8 DEF Next

\* Each step, up to the first that uses something stale.
LEMMA SafeStep ==
  ASSUME TypeOK, Safe, [Next]_vars
  PROVE  Safe' /\ (~late' => LostToAnother(tab, tab'))
<1>1. CASE UNCHANGED vars
  BY <1>1, NoneLostFacts DEF vars, Safe
<1>2. CASE Next
  <2>. SUFFICES ASSUME ~late' PROVE After
    BY DEF Safe, After
  <2>0. Before
    BY <1>2, LateForEver DEF Safe, Before
  <2>1. CASE Accept
    BY <2>0, <2>1, AcceptSafe
  <2>2. ASSUME NEW f \in Fds, NEW c \in Recs, Handler(f, c) PROVE After
    BY <2>0, <2>2, HandlerSafe, BindSafe
  <2>3. ASSUME NEW f \in Fds, Garbage(f) PROVE After
    BY <2>3 DEF Garbage
  <2>4. CASE SelectFails
    <3>1. PICK f \in Fds : tab.watch[f] # {} /\ tab.open[f] = NoRec /\ pc = "loop"
      BY <2>4 DEF SelectFails
    <3>2. tab.hm[f] \in Recs
      BY <2>0, <3>1 DEF Before, Sound, MapOK
    <3>3. tab.open[f] = tab.hm[f]
      BY <2>0, <3>1, <3>2 DEF Before, ShutOK
    <3>. QED BY <3>1, <3>2, <3>3, PtrFacts
  <2>5. CASE TimerStep
    BY <2>0, <2>5, TimerSafe
  <2>6. CASE Tick
    BY <2>0, <2>6, NoneLostFacts DEF Tick, Before, After
  <2>7. ASSUME NEW r \in Recs, ThreadStep(r) PROVE After
    BY <2>0, <2>7, ConnectSafe, BindPortSafe, BindRegistersSafe, ReplySafe DEF ThreadStep
  <2>8. CASE Exited
    BY <2>0, <2>8, NoneLostFacts DEF Exited, vars, Before, After
  <2>. QED BY <1>2, <2>1, <2>2, <2>3, <2>4, <2>5, <2>6, <2>7, <2>8 DEF Next
<1>. QED BY <1>1, <1>2

\* The tables are sound to begin with.
LEMMA SafeInit == Init => Safe
<1>. SUFFICES ASSUME Init PROVE Sound(tab) /\ ShutOK(tab, pc)
  BY DEF Safe
<1>1. /\ \A r \in Recs : /\ tab.rec[r].kind = "none" /\ tab.rec[r].control = NoRec
                          /\ tab.thread[r].at = "none" /\ tab.thread[r].control = NoRec
      /\ \A f \in Fds : tab.hm[f] = NoRec /\ tab.watch[f] = {} /\ tab.open[f] = NoRec
      /\ tab.server = NoRec /\ pc = "loop"
  BY DEF Init, NoRecord, New, NoThread
<1>2. Sound(tab)
  BY <1>1, PtrFacts DEF Sound, RecordsOK, OpenOK, MapOK, ThreadsOK, PointersOK
<1>3. ShutOK(tab, pc)
  BY <1>1, PtrFacts DEF ShutOK
<1>. QED BY <1>2, <1>3

\* Up to the first use of something stale, no pointer of the map dangles, every
\* record in it has its socket open, every thread its client or knows that it
\* is gone, and only the record of a client is anybody's control.
THEOREM TablesSound == Spec => []Safe
<1>. QED BY SafeInit, ProxyTypes, SafeStep, PTL DEF Spec

\* select() is never handed a closed number, so that the loop never forgets its
\* clients, unless a thread or the timer used what was released: whatever the
\* clients ask for and however many they are.
THEOREM SelectGetsOpen == Spec => []WatchedOpen
<1>1. Safe => WatchedOpen
  <2>. SUFFICES ASSUME Safe, ~late, pc = "loop", NEW f \in Fds, tab.watch[f] # {}
                PROVE  tab.open[f] # NoRec
    BY DEF WatchedOpen
  <2>1. tab.hm[f] \in Recs
    BY DEF Safe, Sound, MapOK
  <2>2. tab.open[f] = tab.hm[f]
    BY <2>1 DEF Safe, ShutOK
  <2>. QED BY <2>1, <2>2, PtrFacts
<1>. QED BY <1>1, TablesSound, PTL

\* A UDP socket in the map keeps the record of its client, whichever of the two
\* ends, wherever the threads of binding() stand and however many UDP sockets
\* the client has, but for one event: the end of another UDP socket of that
\* client, which takes the client along.
THEOREM ClientKept == Spec => ControlKept
<1>1. TypeOK /\ Safe /\ [Next]_vars =>
        [~late' => \A f \in Orphans(tab)' \ Orphans(tab) :
           \E g \in Fds : /\ g # f /\ {tab.hm[f], tab.hm[g]} \subseteq Recs /\ tab'.hm[g] = NoRec
                          /\ tab.rec[tab.hm[f]].control = tab.rec[tab.hm[g]].control]_vars
  BY SafeStep DEF LostToAnother
<1>. QED BY <1>1, ProxyTypes, TablesSound, PTL DEF Spec, ControlKept
-----------------------------------------------------------------------------
\* The clients of D are those of T that were greeted, and maybe others.
Stays(T, D) ==
    \A q \in Recs : T.rec[q].kind = "client" /\ T.rec[q].step = "request" =>
                      D.rec[q].kind = "client" /\ D.rec[q].step = "request"

\* The record c is that of a client that was greeted.
IsGreeted(T, c) == T.rec[c].kind = "client" /\ T.rec[c].step = "request"

\* Drop() of other records, and each but one.
LEMMA DropStays ==
  ASSUME NEW T \in Tables, NEW F, NEW x,
         \A h \in F : T.hm[h] \in Recs /\ IsGreeted(T, T.hm[h]) => T.hm[h] = x,
         NEW q \in Recs, q # x, IsGreeted(T, q)
  PROVE  IsGreeted(Drop(T, F), q)
<1>1. Freed(T, Drop(T, F), Dropped(T, F))
  BY DropFacts
<1>2. q \notin Dropped(T, F)
  BY DEF Dropped
<1>. QED BY <1>1, <1>2 DEF Freed, IsGreeted

\* Whatever goes on, is allocated or has no port, the clients stay.
LEMMA OthersStay ==
  /\ \A T, D : GoesOn(T, D) => Stays(T, D)
  /\ \A T, D, r, f : Allocates(T, D, r, f) => Stays(T, D)
  /\ \A T, D, u, f : Loses(T, D, u, f) => Stays(T, D)
<1>1. \A T, D : GoesOn(T, D) => Stays(T, D)
  BY DEF GoesOn, Stays
<1>2. \A T, D, r, f : Allocates(T, D, r, f) => Stays(T, D)
  BY DEF Allocates, Unused, Stays
<1>3. \A T, D, u, f : Loses(T, D, u, f) => Stays(T, D)
  BY DEF Loses, Stays
<1>. QED BY <1>1, <1>2, <1>3

\* register_on_server() touches no client.
LEMMA RegisterStays ==
  ASSUME NEW T \in Tables
  PROVE  Stays(T, Register(T))
<1>1. CASE ~Room(T)
  BY <1>1 DEF Register, Stays
<1>2. CASE Room(T)
  <2>. DEFINE r == NextRec(T)
              O == Opens(T, r, New("server", NextFd(T), "request", NoRec))
              D == [O EXCEPT !.server = r, !.thread[r].at = "connect"]
  <2>1. Register(T) = D
    BY <1>2 DEF Register
  <2>2. O \in Tables /\ Allocates(T, O, r, NextFd(T))
    BY <1>2, OpensFacts, PtrFacts
  <2>. HIDE DEF O, r
  <2>3. D.rec = O.rec
    BY <2>2 DEF Tables
  <2>. QED BY <2>1, <2>2, <2>3, OthersStay DEF Stays
<1>. QED BY <1>1, <1>2

\* The count after a step by which the clients stay, come or go.
LEMMA CountFacts ==
  ASSUME TypeOK
  PROVE  /\ IsFiniteSet(Greeted) /\ Cardinality(Greeted) \in Nat /\ nclients \in Nat
         /\ \A S \in SUBSET Recs : IsFiniteSet(S) /\ Cardinality(S) \in Nat
         /\ \A S \in SUBSET Recs : \A R \in SUBSET S : Cardinality(R) <= Cardinality(S)
         /\ \A S \in SUBSET Recs : \A x :
              /\ Cardinality(S \ {x}) >= Cardinality(S) - 1
              /\ x \notin S => Cardinality(S \cup {x}) = Cardinality(S) + 1
<1>1. ASSUME NEW S \in SUBSET Recs PROVE IsFiniteSet(S) /\ Cardinality(S) \in Nat
  BY RecAssumption, FS_Subset, FS_CardinalityType
<1>2. ASSUME NEW S \in SUBSET Recs, NEW R \in SUBSET S PROVE Cardinality(R) <= Cardinality(S)
  BY <1>1, FS_Subset
<1>3. ASSUME NEW S \in SUBSET Recs, NEW x
      PROVE  /\ Cardinality(S \ {x}) >= Cardinality(S) - 1
             /\ x \notin S => Cardinality(S \cup {x}) = Cardinality(S) + 1
  BY <1>1, FS_RemoveElement, FS_AddElement
<1>4. nclients \in Nat
  BY BoundAssumption DEF TypeOK
<1>. QED BY <1>1, <1>2, <1>3, <1>4 DEF Greeted

\* accept() counts the client that it greets.
LEMMA AcceptCounts ==
  ASSUME Before, Accept
  PROVE  \/ Stays(tab, tab') /\ nclients' = nclients
         \/ /\ Stays(tab, tab') /\ nclients' = nclients + 1
            /\ \E c \in Recs : ~IsGreeted(tab, c) /\ IsGreeted(tab', c)
<1>. DEFINE c == NextRec(tab)
            f == NextFd(tab)
            O == Opens(tab, c, New("client", f, "connected", NoRec))
            A == AddSocket(O, f, c, "read")
            B == [A EXCEPT !.rec[c].step = "request"]
<1>1. /\ Room(tab)
      /\ \/ tab' = A /\ nclients' = nclients
         \/ tab' = B /\ nclients' = nclients + 1
  BY DEF Accept, Greets
<1>2. /\ O \in Tables /\ c \in Recs /\ f \in Fds /\ O.rec[c].kind = "client"
      /\ Allocates(tab, O, c, f)
  BY <1>1, OpensFacts, PtrFacts DEF Before, TypeOK
<1>. HIDE DEF O, c, f
<1>3. A.rec = O.rec
  BY <1>2, AddSocketFacts
<1>4. A \in Tables
  BY <1>2, AddSocketTypes, PtrFacts DEF Kinds
<1>5. Stays(tab, A)
  BY <1>2, <1>3, OthersStay DEF Stays
<1>. HIDE DEF A
<1>6. B.rec = [A.rec EXCEPT ![c].step = "request"]
  BY <1>4 DEF Tables
<1>7. A.rec \in [Recs -> Records]
  BY <1>4 DEF Tables
<1>8. B.rec[c].kind = "client" /\ B.rec[c].step = "request"
  <2>1. B.rec[c] = [A.rec[c] EXCEPT !.step = "request"]
    BY ONLY <1>2, <1>6, <1>7
  <2>2. A.rec[c] \in Records /\ A.rec[c].kind = "client"
    BY <1>2, <1>3, <1>7
  <2>. QED BY <2>1, <2>2 DEF Records
<1>9. \A q \in Recs \ {c} : B.rec[q] = A.rec[q]
  BY ONLY <1>6, <1>7
<1>. HIDE DEF B
<1>10. Stays(tab, B)
  BY <1>5, <1>8, <1>9 DEF Stays
<1>11. ~IsGreeted(tab, c)
  BY <1>2 DEF Allocates, Unused, IsGreeted
<1>. QED BY <1>1, <1>2, <1>5, <1>8, <1>10, <1>11 DEF IsGreeted

\* A handler counts the client that it greets, and takes off at most one.
LEMMA HandlerCounts ==
  ASSUME Before, ~KeyPair, NEW f \in Fds, NEW c \in Recs, Handler(f, c)
  PROVE  \/ Stays(tab, tab') /\ nclients' = nclients
         \/ /\ Stays(tab, tab') /\ nclients' = nclients + 1
            /\ \E q \in Recs : ~IsGreeted(tab, q) /\ IsGreeted(tab', q)
         \/ /\ nclients' = IF nclients > 0 THEN nclients - 1 ELSE 0
            /\ \E x \in Recs : \A q \in Recs \ {x} : IsGreeted(tab, q) => IsGreeted(tab', q)
<1>0. /\ tab \in Tables /\ Sound(tab) /\ Stays(tab, tab) /\ ~late'
      /\ tab.hm[f] = c
  BY DEF Before, TypeOK, Stays, Handler, Hello, HangUp, AuthFails, Bind, Reset, CloseReply,
     Datagram, Registered, ClientWrite, Request, Reads, Event
<1>a. ASSUME NEW T \in Tables, GoesOn(tab, T), T.hm = tab.hm, NEW g \in Fds,
             tab.hm[g] \in Recs => ~IsGreeted(T, tab.hm[g]), tab' = Drop(T, {g})
      PROVE  Stays(tab, tab')
  <2>1. \A q \in Recs : IsGreeted(tab, q) => IsGreeted(T, q)
    BY <1>a, OthersStay DEF Stays, IsGreeted
  <2>2. \A q \in Recs : IsGreeted(T, q) => IsGreeted(tab', q)
    BY <1>a, PtrFacts, DropStays
  <2>. QED BY <2>1, <2>2 DEF Stays, IsGreeted
<1>b. GoesOn(tab, tab)
  BY GoesOnSelf
<1>1. CASE Hello(f, c)
  <2>. DEFINE B == [tab EXCEPT !.rec[c].step = "request"]
  <2>1. /\ tab.rec[c].step = "connected"
        /\ \/ tab' = B /\ nclients' = nclients + 1
           \/ tab' = Drop(tab, {f}) /\ nclients' = nclients
    BY <1>1 DEF Hello
  <2>2. ~IsGreeted(tab, c) /\ tab.rec[c].kind = "client"
    BY <1>0, <2>1 DEF Sound, MapOK, IsGreeted
  <2>3. tab' = Drop(tab, {f}) => Stays(tab, tab')
    BY <1>0, <1>a, <1>b, <2>2
  <2>4. GoesOn(tab, B)
    BY <1>0, MarksGoOn
  <2>5. B.rec[c].step = "request"
    BY <1>0 DEF Tables, Records
  <2>. HIDE DEF B
  <2>6. IsGreeted(B, c) /\ Stays(tab, B)
    BY <2>2, <2>4, <2>5, OthersStay DEF IsGreeted, GoesOn
  <2>. QED BY <2>1, <2>2, <2>3, <2>6
<1>2. CASE HangUp(f, c)
  <2>. DEFINE F == Walked(tab, c) \cup {f}
              x == IF tab.rec[c].kind = "udp" /\ tab.rec[c].control \in Recs
                   THEN tab.rec[c].control ELSE c
  <2>1. tab' = Drop(tab, F) /\ nclients' = IF nclients > 0 THEN nclients - 1 ELSE 0
    BY <1>0, <1>2 DEF HangUp
  <2>2. x \in Recs
    OBVIOUS
  <2>3. ASSUME NEW h \in F, tab.hm[h] \in Recs, IsGreeted(tab, tab.hm[h])
        PROVE  tab.hm[h] = x
    <3>1. CASE h \in Walked(tab, c)
      <4>1. CASE tab.rec[c].kind = "client" /\ tab.rec[tab.hm[h]].control = c
        <5>1. tab.rec[tab.hm[h]].control # NoRec
          BY <4>1, PtrFacts
        <5>2. tab.rec[tab.hm[h]].kind = "udp"
          BY <1>0, <2>3, <5>1 DEF Sound, PointersOK
        <5>. QED BY <2>3, <5>2 DEF IsGreeted
      <4>2. CASE tab.rec[c].kind = "udp" /\ tab.rec[c].control = tab.hm[h]
        BY <2>3, <4>2
      <4>. QED BY <3>1, <4>1, <4>2 DEF Walked
    <3>2. CASE h = f
      BY <1>0, <2>3, <3>2 DEF IsGreeted
    <3>. QED BY <3>1, <3>2
  <2>. HIDE DEF F, x
  <2>4. \A q \in Recs \ {x} : IsGreeted(tab, q) => IsGreeted(tab', q)
    BY <1>0, <2>1, <2>3, DropStays
  <2>. QED BY <2>1, <2>2, <2>4
<1>3. CASE AuthFails(f, c)
  BY <1>3 DEF AuthFails
<1>4. CASE Bind(f, c)
  <2>. DEFINE u == NextRec(tab)
              O == Opens(tab, u, New("udp", NextFd(tab), "connected", c))
              D == [O EXCEPT !.thread[u] = [at |-> "bind", control |-> c]]
  <2>1. nclients' = nclients /\ tab' = IF ~Room(tab) THEN tab ELSE D
    BY <1>4 DEF Bind
  <2>2. CASE ~Room(tab)
    BY <1>0, <2>1, <2>2
  <2>3. CASE Room(tab)
    <3>1. O \in Tables /\ Allocates(tab, O, u, NextFd(tab))
      BY <1>0, <2>3, OpensFacts, PtrFacts
    <3>. HIDE DEF O, u
    <3>2. D.rec = O.rec
      BY <3>1 DEF Tables
    <3>3. Stays(tab, O)
      BY <3>1, OthersStay
    <3>4. tab'.rec = O.rec
      BY <2>1, <2>3, <3>2
    <3>. QED BY <2>1, <3>3, <3>4 DEF Stays
  <2>. QED BY <2>2, <2>3
<1>. DEFINE T == [tab EXCEPT !.rec[c].closed = TRUE]
<1>5. GoesOn(tab, T) /\ T.hm = tab.hm /\ T \in Tables
  BY <1>0, MarksGoOn, RecordTypes DEF Tables
<1>6. ASSUME NEW g \in Bound(tab, c), tab' = Drop(T, {g})
      PROVE  Stays(tab, tab')
  <2>. HIDE DEF T
  <2>1. tab.rec[tab.hm[g]].kind = "udp" /\ tab.hm[g] \in Recs /\ g \in Fds
    BY <1>0, PtrFacts DEF Bound, Sound, PointersOK
  <2>2. ~IsGreeted(T, tab.hm[g])
    BY <1>5, <2>1 DEF IsGreeted, GoesOn
  <2>. QED BY <1>5, <1>6, <1>a, <2>1, <2>2
<1>7. CASE Reset(f, c)
  <2>1. nclients' = nclients /\ (tab' = T \/ \E g \in Bound(tab, c) : tab' = Drop(T, {g}))
    BY <1>0, <1>7 DEF Reset
  <2>. HIDE DEF T
  <2>. QED BY <1>5, <1>6, <2>1, OthersStay
<1>8. ASSUME NEW g \in Fds, CloseReply(f, c, g)
      PROVE  Stays(tab, tab') /\ nclients' = nclients
  BY <1>6, <1>8 DEF CloseReply
<1>9. CASE Datagram(f, c)
  BY <1>0, <1>9 DEF Datagram
<1>10. CASE Registered(f, c)
  <2>1. /\ tab.rec[c].kind = "server" /\ nclients' = nclients /\ tab' = Drop(tab, {f})
    BY <1>10 DEF Registered, Request
  <2>. QED BY <1>0, <1>a, <1>b, <2>1 DEF IsGreeted
<1>11. CASE ClientWrite(f, c)
  <2>. DEFINE U == [tab EXCEPT !.rec[c].reply = FALSE]
  <2>1. nclients' = nclients /\ (tab' = tab \/ tab' = RmSocket(U, f, {"write"}))
    BY <1>11 DEF ClientWrite
  <2>2. GoesOn(tab, U) /\ U.watch = tab.watch /\ U.rec \in [Recs -> Records] /\ U \in Tables
    BY <1>0, MarksGoOn, RecordTypes DEF Tables
  <2>. HIDE DEF U
  <2>3. "read" \in U.watch[f]
    BY <1>0, <2>2 DEF Sound, MapOK
  <2>4. RmSocket(U, f, {"write"}).rec = U.rec
    BY <2>2, <2>3 DEF RmSocket, Tables
  <2>5. Stays(tab, U)
    BY <2>2, OthersStay
  <2>. QED BY <1>0, <2>1, <2>4, <2>5 DEF Stays
<1>. QED BY <1>1, <1>2, <1>3, <1>4, <1>7, <1>8, <1>9, <1>10, <1>11 DEF Handler

\* Neither the timer nor a thread takes a client away, or counts one.
LEMMA RestCounts ==
  ASSUME Before, TimerStep \/ \E u \in Recs : ThreadStep(u)
  PROVE  Stays(tab, tab') /\ nclients' = nclients
<1>0. tab \in Tables /\ Sound(tab) /\ ShutOK(tab, pc) /\ ~late' /\ Stays(tab, tab)
  BY DEF Before, TypeOK, Stays
<1>1. CASE TimerRegisters
  BY <1>0, <1>1, RegisterStays DEF TimerRegisters
<1>2. CASE TimerExpires
  <2>1. tab' = tab \/ \E f \in ServerSock : tab' = Close(tab, f)
    BY <1>2 DEF TimerExpires
  <2>2. tab'.rec = tab.rec
    BY <1>0, <2>1 DEF Close, Tables
  <2>. QED BY <1>2, <2>2 DEF TimerExpires, Stays
<1>3. CASE TimerRm
  <2>1. PICK f \in ServerSock : tab' = Drop(tab, {f}) /\ ~Stray(f) /\ tab.open[f] = NoRec /\ pc = "rm"
    BY <1>0, <1>3 DEF TimerRm
  <2>2. tab.server \in Recs
    BY <1>0, <2>1 DEF ShutOK
  <2>3. f = tab.rec[tab.server].sock
    BY <2>1, <2>2, PtrFacts DEF ServerSock
  <2>4. f \in Fds
    BY <1>0, <2>2, <2>3 DEF Sound, PointersOK, RecordsOK
  <2>5. tab.hm[f] \in Recs => tab.rec[tab.hm[f]].kind = "server"
    BY <1>0, <2>1, <2>4, PtrFacts DEF ShutOK
  <2>6. \A q \in Recs : IsGreeted(tab, q) => IsGreeted(tab', q)
    <3>1. \A h \in {f} : tab.hm[h] \in Recs /\ IsGreeted(tab, tab.hm[h]) => tab.hm[h] = NoRec
      BY <2>5 DEF IsGreeted
    <3>2. \A q \in Recs : q # NoRec /\ IsGreeted(tab, q) => IsGreeted(Drop(tab, {f}), q)
      BY <1>0, <3>1, DropStays
    <3>. QED BY <2>1, <3>2, PtrFacts
  <2>. QED BY <1>3, <2>6 DEF TimerRm, Stays, IsGreeted
<1>4. ASSUME NEW u \in Recs, ThreadStep(u) PROVE Stays(tab, tab') /\ nclients' = nclients
  <2>1. CASE ConnectEnds(u)
    <3>. DEFINE A == AddSocket(tab, tab.rec[u].sock, u, "read")
    <3>1. tab.thread[u].at = "connect" /\ nclients' = nclients
          /\ (tab' = Ends(tab, u) \/ tab' = Ends(A, u))
      BY <2>1 DEF ConnectEnds, Thread
    <3>2. A \in Tables /\ A.rec = tab.rec
      BY <1>0, AddSocketTypes, PtrFacts DEF Kinds, AddSocket, Tables
    <3>. HIDE DEF A
    <3>3. tab'.rec = tab.rec
      BY <1>0, <3>1, <3>2, ThreadEnds
    <3>. QED BY <3>1, <3>3 DEF Stays
  <2>2. CASE BindPort(u)
    <3>1. tab.thread[u].at = "bind" /\ nclients' = nclients
      BY <2>2 DEF BindPort, Thread
    <3>2. tab.rec[u].kind = "udp"
      BY <1>0, <3>1 DEF Sound, ThreadsOK
    <3>3. CASE tab' = [AddSocket(tab, tab.rec[u].sock, u, "read") EXCEPT
                         !.rec[u].step = "request", !.thread[u].at = "register"]
      <4>. DEFINE A == AddSocket(tab, tab.rec[u].sock, u, "read")
      <4>1. A \in Tables /\ A.rec = tab.rec
        BY <1>0, AddSocketTypes, PtrFacts DEF Kinds, AddSocket, Tables
      <4>2. tab' = [A EXCEPT !.rec[u].step = "request", !.thread[u].at = "register"]
        BY <3>3
      <4>. HIDE DEF A
      <4>3. tab'.rec = [A.rec EXCEPT ![u].step = "request"] /\ A.rec \in [Recs -> Records]
        BY <4>1, <4>2 DEF Tables
      <4>4. \A q \in Recs \ {u} : tab'.rec[q] = A.rec[q]
        BY ONLY <4>3
      <4>. QED BY <3>1, <3>2, <4>1, <4>4 DEF Stays
    <3>4. CASE tab' = [Release(Close(tab, tab.rec[u].sock), {u}) EXCEPT !.thread[u].at = "reply"]
      <4>1. Loses(tab, tab', u, tab.rec[u].sock)
        BY <1>0, <3>1, <3>4, NoPortFacts
      <4>. QED BY <3>1, <4>1, OthersStay
    <3>. QED BY <2>2, <3>3, <3>4 DEF BindPort
  <2>3. CASE BindRegisters(u)
    <3>. DEFINE R == Register(tab)
    <3>1. tab' = [R EXCEPT !.thread[u].at = "reply"] /\ nclients' = nclients
      BY <2>3 DEF BindRegisters
    <3>2. Stays(tab, R) /\ R \in Tables
      BY <1>0, RegisterStays, RegisterTypes
    <3>. HIDE DEF R
    <3>3. tab'.rec = R.rec
      BY <3>1, <3>2 DEF Tables
    <3>. QED BY <3>1, <3>2, <3>3 DEF Stays
  <2>4. CASE BindReplies(u)
    <3>. DEFINE c == tab.thread[u].control
                T == [tab EXCEPT !.thread[u].at = "write"]
    <3>1. (tab' = T \/ tab' = [T EXCEPT !.rec[c].reply = TRUE]) /\ nclients' = nclients
      BY <2>4 DEF BindReplies
    <3>2. T \in Tables /\ T.rec = tab.rec
      BY <1>0, ThreadAtTypes DEF Tables
    <3>. HIDE DEF T, c
    <3>3. Stays(T, tab')
      <4>1. GoesOn(T, T) /\ GoesOn(T, [T EXCEPT !.rec[c].reply = TRUE])
        BY <3>2, GoesOnSelf, MarksGoOn
      <4>. QED BY <3>1, <4>1, OthersStay
    <3>. QED BY <3>1, <3>2, <3>3 DEF Stays
  <2>5. CASE BindWrites(u)
    <3>. DEFINE c == tab.thread[u].control
                A == AddSocket(tab, tab.rec[c].sock, c, "write")
    <3>1. tab' = Ends(A, u) /\ nclients' = nclients /\ c # Gone
      BY <1>0, <2>5 DEF BindWrites
    <3>2. c \in Ptrs
      BY <1>0 DEF Tables, Threads
    <3>3. A \in Tables /\ A.rec = tab.rec
      BY <1>0, <3>2, AddSocketTypes DEF Kinds, AddSocket, Tables
    <3>. HIDE DEF A
    <3>4. tab'.rec = tab.rec
      BY <3>1, <3>3, ThreadEnds
    <3>. QED BY <3>1, <3>4 DEF Stays
  <2>. QED BY <1>4, <2>1, <2>2, <2>3, <2>4, <2>5 DEF ThreadStep
<1>. QED BY <1>1, <1>2, <1>3, <1>4 DEF TimerStep

\* The count is never above the number of clients.
LEMMA CountKept ==
  ASSUME ~KeyPair, TypeOK, Safe, CountBounded, [Next]_vars
  PROVE  CountBounded'
<1>. SUFFICES ASSUME ~late' PROVE nclients' <= Cardinality(Greeted')
  BY DEF CountBounded
<1>. DEFINE S == {q \in Recs : IsGreeted(tab, q)}
            D == {q \in Recs : IsGreeted(tab', q)}
<1>1. Greeted = S /\ Greeted' = D /\ S \in SUBSET Recs /\ D \in SUBSET Recs
  BY DEF Greeted, IsGreeted
<1>2. nclients \in Nat /\ Cardinality(S) \in Nat /\ Cardinality(D) \in Nat
  BY <1>1, CountFacts
<1>3. ~late => nclients <= Cardinality(S)
  BY <1>1 DEF CountBounded
<1>4. Stays(tab, tab') => S \subseteq D
  BY DEF Stays, IsGreeted
<1>. SUFFICES nclients' <= Cardinality(D)
  BY <1>1
<1>5. ASSUME ~late, Stays(tab, tab'), nclients' = nclients PROVE nclients' <= Cardinality(D)
  <2>1. Cardinality(S) <= Cardinality(D)
    BY <1>1, <1>4, <1>5, CountFacts
  <2>. QED BY <1>2, <1>3, <1>5, <2>1
<1>6. ASSUME ~late, Stays(tab, tab'), nclients' = nclients + 1,
             NEW c \in Recs, ~IsGreeted(tab, c), IsGreeted(tab', c)
      PROVE  nclients' <= Cardinality(D)
  <2>1. c \notin S /\ S \cup {c} \in SUBSET D
    BY <1>4, <1>6
  <2>2. Cardinality(S \cup {c}) <= Cardinality(D)
    BY <1>1, <2>1, CountFacts
  <2>3. Cardinality(S \cup {c}) = Cardinality(S) + 1
    BY <1>1, <2>1, CountFacts
  <2>. QED BY <1>2, <1>3, <1>6, <2>2, <2>3
<1>7. ASSUME ~late, nclients' = IF nclients > 0 THEN nclients - 1 ELSE 0, NEW x \in Recs,
             \A q \in Recs \ {x} : IsGreeted(tab, q) => IsGreeted(tab', q)
      PROVE  nclients' <= Cardinality(D)
  <2>1. S \ {x} \in SUBSET D
    BY <1>7
  <2>2. Cardinality(S \ {x}) <= Cardinality(D)
    BY <1>1, <2>1, CountFacts
  <2>3. Cardinality(S \ {x}) >= Cardinality(S) - 1 /\ Cardinality(S \ {x}) \in Nat
    BY <1>1, CountFacts
  <2>. QED BY <1>2, <1>3, <1>7, <2>2, <2>3
<1>. HIDE DEF S, D
<1>8. CASE UNCHANGED vars
  BY <1>5, <1>8 DEF vars, Stays
<1>9. CASE Next
  <2>0. Before /\ ~late
    BY <1>9, LateForEver DEF Safe, Before
  <2>1. CASE Accept
    BY <1>5, <1>6, <2>0, <2>1, AcceptCounts
  <2>2. ASSUME NEW f \in Fds, NEW c \in Recs, Handler(f, c) PROVE nclients' <= Cardinality(D)
    BY <1>5, <1>6, <1>7, <2>0, <2>2, HandlerCounts
  <2>3. ASSUME NEW f \in Fds, Garbage(f) PROVE FALSE
    BY <2>3 DEF Garbage
  <2>4. CASE SelectFails
    <3>1. tab'.rec = tab.rec /\ nclients' = nclients
      BY <2>0, <2>4 DEF SelectFails, Before, TypeOK, Tables
    <3>. QED BY <1>5, <2>0, <3>1 DEF Stays
  <2>5. CASE TimerStep \/ \E u \in Recs : ThreadStep(u)
    BY <1>5, <2>0, <2>5, RestCounts
  <2>6. CASE Tick \/ Exited
    <3>1. tab' = tab /\ nclients' = nclients
      BY <2>6 DEF Tick, Exited, vars
    <3>. QED BY <1>5, <2>0, <3>1 DEF Stays
  <2>. QED BY <1>9, <2>1, <2>2, <2>3, <2>4, <2>5, <2>6 DEF Next
<1>. QED BY <1>8, <1>9

\* The proxy never registers more clients than it has greeted and still has,
\* so that the server does not pass it over for clients it does not have: as
\* long as no client has to authenticate.  With a pair of keys the code does
\* lose count, when a client fails to.
THEOREM ClientsCounted ==
  ASSUME ~KeyPair
  PROVE  Spec => []CountBounded
<1>1. Init => CountBounded
  <2>. SUFFICES ASSUME Init PROVE nclients <= Cardinality(Greeted)
    BY DEF CountBounded
  <2>1. Greeted \in SUBSET Recs /\ nclients = 0
    BY DEF Init, Greeted
  <2>2. Cardinality(Greeted) \in Nat
    BY <2>1, RecAssumption, FS_Subset, FS_CardinalityType
  <2>. QED BY <2>1, <2>2
<1>. QED BY <1>1, ProxyTypes, TablesSound, CountKept, PTL DEF Spec
=============================================================================
