------------------------- MODULE ManagingServerProofs -------------------------
(***************************************************************************)
(* The managing server implements the loop of ServerLoop, so what is       *)
(* proved of the loop holds for it; its list of proxies has one entry for  *)
(* an address, and find_proxy() chooses well from it; its select() never   *)
(* fails and no client is answered unasked unless a thread outlived its    *)
(* record.                                                                 *)
(***************************************************************************)
EXTENDS ManagingServer, ServerLoopProofs
\* A list of the server is one find_proxy() works on, and what it finds is an
\* address or none.
LEMMA FindsAddress ==
  ASSUME NEW t \in Seq(Entries(Addrs, Loads)), NEW bad
  PROVE  /\ t \in Seq(Entries(Addrs, Nat))
         /\ FindProxy(t, bad) \in Addrs \cup {NoProxy}
<1>1. t \in Seq(Entries(Addrs, Nat))
  <2>1. Entries(Addrs, Loads) \subseteq Entries(Addrs, Nat)
    BY OptionAssumption DEF Entries
  <2>. QED BY <2>1
<1>. QED BY <1>1, AddrAssumption, FindsOrNone
-----------------------------------------------------------------------------
(* The records of the handler *)

\* The handler's records have their types, and the list of proxies is one, with
\* an entry for each address.
Shaped == cd \in [Conn -> Records]
Listed == table \in Seq(Entries(Addrs, Loads)) /\ Unique(table)

\* Connections not accepted yet have fresh records and no thread; the handler
\* is called from accept() with a record in its first step; a thread runs only
\* on the record of a client.
Unused    == \A c \in Conn : nconn < c => cd[c] = Fresh /\ c \notin helpers
MapUsed   == \A f \in Fd : hm[f] # NoItem => hm[f] \in Conn /\ hm[f] <= nconn
Greeting  == pc = "call" /\ i = Listener => cd[item].step = "connected"
Testing   == \A c \in helpers : c \in Live => cd[c].type # "unknown"
ServerInv == Shaped /\ Listed /\ Unused /\ MapUsed /\ Greeting /\ Testing

LoopInv == TypeOK /\ ItemInv /\ HashmapLive

\* get_client_data() makes a record.
LEMMA FreshShaped == Fresh \in Records
  BY DEF Fresh, Records

\* The invariant of the handler's records holds at the start.
LEMMA ServerInvInit == ServerInit => ServerInv
<1>. SUFFICES ASSUME ServerInit PROVE ServerInv
  OBVIOUS
<1>1. Shaped
  BY FreshShaped DEF ServerInit, Shaped
<1>2. Listed
  BY DEF ServerInit, Listed, Unique
<1>3. Unused /\ MapUsed /\ Greeting /\ Testing
  BY DEF ServerInit, Init, Unused, MapUsed, Greeting, Testing
<1>. QED BY <1>1, <1>2, <1>3 DEF ServerInv
-----------------------------------------------------------------------------
(* A call of the server's handler is a call of a handler of ServerLoop *)

\* What reply_behind_firewall() assigns is an address of the list, so that the
\* record is still that of a client.
LEMMA ChosenClient ==
  ASSUME Listed, NEW e \in Records, e.type = "client"
  PROVE  /\ Chosen(e) \in Records /\ Chosen(e).type = "client"
         /\ [Chosen(e) EXCEPT !.step = "last"] \in Records
         /\ [Chosen(e) EXCEPT !.step = "last"].type = "client"
         /\ [Chosen(e) EXCEPT !.step = "last"].step = "last"
<1>1. FindProxy(table, e.bad) \in Addrs \cup {NoProxy}
  BY FindsAddress DEF Listed
<1>2. Chosen(e) \in Records /\ Chosen(e).type = "client"
  BY <1>1 DEF Chosen, Records
<1>. QED BY <1>2 DEF Records

\* reply_behind_firewall() is a return of the handler that keeps a client a client.
LEMMA ReplyReturns ==
  ASSUME Listed, NEW e \in Records, e.type = "client", Reply(e)
  PROVE  \E r \in Results, add \in BOOLEAN, x \in Records :
           /\ Return(r, add, FALSE, x)
           /\ x.type = "client"
           /\ (~add /\ "write" \in r) \/ x.step = "last"
<1>. DEFINE y == Chosen(e)
            z == [y EXCEPT !.step = "last"]
<1>1. /\ y \in Records /\ y.type = "client"
      /\ z \in Records /\ z.type = "client" /\ z.step = "last"
  BY ChosenClient
<1>2. \/ Return(MasterAll, FALSE, FALSE, y)
      \/ Return({"write"}, FALSE, FALSE, y)
      \/ Return({}, TRUE, FALSE, z)
  BY DEF Reply
<1>3. /\ MasterAll \in Results /\ {"write"} \in Results /\ {} \in Results
      /\ "write" \in MasterAll
  BY DEF Results, MasterAll, Kinds
<1>. HIDE DEF y, z
<1>. QED BY <1>1, <1>2, <1>3

\* What all the handlers have in common.
Returns ==
    \E r \in Results, add \in BOOLEAN, spawn \in BOOLEAN, x \in Records :
      /\ Return(r, add, spawn, x)
      /\ spawn => r = {} /\ d.type = "unknown" /\ x.type = "client"
      /\ x.type = d.type \/ x.type # "unknown"

\* Each branch of the handler is a return with some result and record.
LEMMA HandlerReturns ==
  ASSUME LoopInv, ServerInv, ServerHandler
  PROVE  Returns
<1>1. item \in Conn /\ d \in Records /\ Listed
  BY DEF ServerHandler, LoopInv, TypeOK, ServerInv, Shaped, d
<1>2. MasterAll \in Results /\ {} \in Results
  BY DEF Results
<1>3. CASE Hello \/ HangUp \/ Ignore \/ LastStep
  <2>1. [d EXCEPT !.step = "request"] \in Records
        /\ [d EXCEPT !.step = "request"].type = d.type
    BY <1>1 DEF Records
  <2>2. \E r \in Results, x \in Records : Return(r, FALSE, FALSE, x) /\ x.type = d.type
    BY <1>1, <1>2, <1>3, <2>1 DEF Hello, HangUp, Ignore, LastStep
  <2>. QED BY <2>2 DEF Returns
<1>4. CASE BehindFirewall
  <2>1. AsClient \in Records /\ AsClient.type = "client"
    BY <1>1 DEF AsClient, Records
  <2>2. \/ Return({}, FALSE, TRUE, AsClient)
        \/ Return(MasterAll, FALSE, FALSE, AsClient)
    BY <1>4 DEF BehindFirewall
  <2>3. d.type = "unknown"
    BY <1>4 DEF BehindFirewall
  <2>. QED BY <1>2, <2>1, <2>2, <2>3 DEF Returns
<1>5. CASE RegisterProxy
  <2>. DEFINE x == [d EXCEPT !.type = "proxy", !.step = "last"]
  <2>1. x \in Records /\ x.type = "proxy"
    BY <1>1 DEF Records
  <2>2. Return({}, TRUE, FALSE, x) \/ Return(MasterAll, FALSE, FALSE, d)
    BY <1>5 DEF RegisterProxy
  <2>. HIDE DEF x
  <2>. QED BY <1>1, <1>2, <2>1, <2>2 DEF Returns
<1>6. CASE GetProxy
  <2>. DEFINE e == [d EXCEPT !.need = TRUE, !.bad = @ \cup ({d.proxy} \ {NoProxy})]
  <2>1. d.type = "client" /\ Reply(e)
    BY <1>6 DEF GetProxy
  <2>2. e \in Records /\ e.type = "client"
    BY <1>1, <2>1 DEF Records
  <2>. HIDE DEF e
  <2>3. \E r \in Results, add \in BOOLEAN, x \in Records :
          Return(r, add, FALSE, x) /\ x.type = "client"
    BY <1>1, <2>1, <2>2, ReplyReturns
  <2>. QED BY <2>1, <2>3 DEF Returns
<1>7. CASE ClientWrite
  <2>1. CASE d.type = "client" /\ Reply(d)
    <3>1. \E r \in Results, add \in BOOLEAN, x \in Records :
            Return(r, add, FALSE, x) /\ x.type = "client"
      BY <1>1, <2>1, ReplyReturns
    <3>. QED BY <2>1, <3>1 DEF Returns
  <2>2. CASE Return({}, FALSE, FALSE, d)
    BY <1>1, <1>2, <2>2 DEF Returns
  <2>. QED BY <1>7, <2>1, <2>2 DEF ClientWrite
<1>. QED BY <1>3, <1>4, <1>5, <1>6, <1>7 DEF ServerHandler

\* A call of the server's handler is a call ServerLoop allows.
LEMMA HandlerImplements ==
  ASSUME LoopInv, ServerInv, ServerHandler
  PROVE  Handler
<1>3. PICK r \in Results, add \in BOOLEAN, spawn \in BOOLEAN, x \in Records :
        /\ Return(r, add, spawn, x)
        /\ spawn => r = {} /\ d.type = "unknown"
  BY HandlerReturns DEF Returns
<1>. DEFINE reads == what = "read" /\ d.step = "request"
<1>4. PICK own \in SockField(item) : HandlerEffect(r, add, spawn, reads, {}, own)
  BY <1>3 DEF Return
<1>5. pc = "call" /\ item \in Live
  BY DEF ServerHandler, LoopInv, HashmapLive
<1>6. reads \in BOOLEAN /\ (reads => what = "read" /\ i # Listener)
  BY <1>5 DEF ServerInv, Greeting, d
<1>7. spawn => r = {} /\ item \notin helpers
  BY <1>3, <1>5 DEF ServerInv, Testing, d
<1>8. {} \in SUBSET {f \in InBounds(master) \cap Fds : hm[f] \notin {NoItem, item}}
  OBVIOUS
<1>. HIDE DEF reads
<1>. QED BY <1>4, <1>5, <1>6, <1>7, <1>8 DEF Handler

\* Every step of the managing server is a step of the loop or leaves it alone.
LEMMA StepImplements == LoopInv /\ ServerInv /\ [ServerNext]_svars => [Next]_vars
<1>. SUFFICES ASSUME LoopInv, ServerInv, [ServerNext]_svars PROVE [Next]_vars
  OBVIOUS
<1>1. CASE Quiet
  BY <1>1 DEF Quiet, Next, Loop
<1>2. CASE ServerHandler
  BY <1>2, HandlerImplements DEF Next, Loop
<1>3. CASE ServerRm
  BY <1>3 DEF ServerRm, Next, Loop
<1>4. ASSUME NEW c \in Conn, ProbeEnds(c) PROVE [Next]_vars
  BY <1>4 DEF ProbeEnds
<1>5. ASSUME NEW c \in Conn, ProbeAdds(c) PROVE [Next]_vars
  BY <1>5 DEF ProbeAdds, Next
<1>6. ASSUME NEW f \in Fd, Arrive(f) PROVE [Next]_vars
  BY <1>6 DEF Next
<1>7. ASSUME NEW k \in DOMAIN table, Expire(k) PROVE [Next]_vars
  BY <1>7 DEF Expire
<1>8. CASE Exited \/ UNCHANGED svars
  BY <1>8 DEF Next, svars
<1>. QED
  BY <1>1, <1>2, <1>3, <1>4, <1>5, <1>6, <1>7, <1>8 DEF ServerNext, ServerLoopStep
-----------------------------------------------------------------------------
(* ServerInv is inductive *)

\* Every step keeps the records well formed.
LEMMA ShapedNext ==
  ASSUME LoopInv, ServerInv, [ServerNext]_svars
  PROVE  Shaped'
<1>1. Shaped
  BY DEF ServerInv
<1>2. CASE cd' = cd
  BY <1>1, <1>2 DEF Shaped
<1>3. CASE ServerHandler
  <2>1. PICK x \in Records : cd' = [cd EXCEPT ![item] = x]
    BY <1>3, HandlerReturns DEF Returns, Return
  <2>. QED BY <1>1, <2>1 DEF Shaped
<1>4. CASE ServerRm
  BY <1>1, <1>4, FreshShaped DEF ServerRm, Shaped
<1>5. ASSUME NEW c \in Conn, ProbeEnds(c) PROVE Shaped'
  <2>1. PICK n \in BOOLEAN, x \in Conn \cup Live :
          cd' = cd \/ cd' = [cd EXCEPT ![x] = [@ EXCEPT !.tested = TRUE, !.need = n]]
    BY <1>5 DEF ProbeEnds
  <2>2. \A y \in Records : [y EXCEPT !.tested = TRUE, !.need = n] \in Records
    BY DEF Records
  <2>. QED BY <1>1, <2>1, <2>2 DEF Shaped
<1>6. cd' = cd \/ ServerHandler \/ ServerRm \/ \E c \in Conn : ProbeEnds(c)
  BY DEF ServerNext, ServerLoopStep, Quiet, ProbeAdds, Expire, svars, server
<1>. QED BY <1>2, <1>3, <1>4, <1>5, <1>6

\* Every step keeps the list a list with one entry for each address.
LEMMA ListedNext ==
  ASSUME Listed, [ServerNext]_svars
  PROVE  Listed'
<1>1. CASE table' = table
  BY <1>1 DEF Listed
<1>2. ASSUME NEW a \in Addrs, NEW n \in Loads, table' = Register(table, Proxy(a, n))
      PROVE  Listed'
  <2>1. Proxy(a, n) \in Entries(Addrs, Loads)
    BY DEF Proxy, Entries
  <2>. QED BY <1>2, <2>1, RegisterKeeps DEF Listed
<1>3. ASSUME NEW k \in DOMAIN table, Expire(k) PROVE Listed'
  <2>1. table' = [table EXCEPT ![k].fresh = FALSE] /\ table \in Seq(Entries(Addrs, Loads))
    BY <1>3 DEF Expire, Listed
  <2>2. table[k] \in Entries(Addrs, Loads)
    BY <2>1
  <2>3. [table[k] EXCEPT !.fresh = FALSE] \in Entries(Addrs, Loads)
        /\ [table[k] EXCEPT !.fresh = FALSE].addr = table[k].addr
    BY <2>2 DEF Entries
  <2>. DEFINE e == [table[k] EXCEPT !.fresh = FALSE]
  <2>4. table' = [table EXCEPT ![k] = e]
    BY <2>1
  <2>. HIDE DEF e
  <2>5. table' \in Seq(Entries(Addrs, Loads)) /\ DOMAIN table' = DOMAIN table
    BY <2>1, <2>3, <2>4 DEF e
  <2>6. \A j \in DOMAIN table : table'[j].addr = table[j].addr
    BY <2>3, <2>4 DEF e
  <2>. QED BY <2>5, <2>6 DEF Listed, Unique
<1>4. CASE ServerHandler
  BY <1>1, <1>2, <1>4
  DEF ServerHandler, Hello, HangUp, Ignore, BehindFirewall, RegisterProxy, GetProxy, ClientWrite,
      LastStep, Keep
<1>5. table' = table \/ ServerHandler \/ \E k \in DOMAIN table : Expire(k)
  BY DEF ServerNext, ServerLoopStep, Quiet, ServerRm, ProbeEnds, ProbeAdds, svars, server
<1>. QED BY <1>1, <1>3, <1>4, <1>5

\* Steps that leave the map, the threads and the kinds of records as they are.
LEMMA SameKinds ==
  ASSUME ServerInv, hm' = hm, helpers' \subseteq helpers, nconn' = nconn,
         \A c \in Conn : /\ nconn < c => cd'[c] = cd[c]
                         /\ cd'[c].type = cd[c].type,
         helpers \subseteq Conn
  PROVE  Unused' /\ MapUsed' /\ Testing'
<1>1. Live' = Live
  BY DEF Live
<1>. QED BY <1>1 DEF ServerInv, Unused, MapUsed, Testing

\* Only used records are typed, and only records of clients are tested.
LEMMA KindsNext ==
  ASSUME LoopInv, ServerInv, [ServerNext]_svars
  PROVE  Unused' /\ MapUsed' /\ Testing'
<1>. USE DEF shared, kernel, locals
<1>0. /\ helpers \subseteq Conn /\ nconn \in Nat
      /\ Live \subseteq Conn
      /\ \A c \in Live : ~(nconn < c)
      /\ \A c \in Conn : c \in Nat
      /\ cd = [c \in Conn |-> cd[c]]
  BY ConnAssumption DEF LoopInv, TypeOK, Conn, ServerInv, MapUsed, Live, Shaped
<1>1. CASE Quiet /\ ~Accept
  <2>1. hm' = hm /\ helpers' = helpers /\ nconn' = nconn /\ cd' = cd
    BY <1>1 DEF Quiet, SetSockets, SelectReturns, SelectFails, ZeroBounds, AddListener,
                SweepDone, Skip, NoRecord, Dispatch, AcceptFails, server
  <2>. QED BY <1>0, <2>1, SameKinds
<1>2. CASE Accept /\ cd' = cd
  <2>1. /\ nconn' = nconn + 1 /\ helpers' = helpers /\ nconn < MaxConn
        /\ \A f \in Fd : hm'[f] = hm[f] \/ hm'[f] = nconn'
    BY <1>2 DEF Accept, LoopInv, TypeOK
  <2>2. nconn' \in Conn /\ nconn < nconn'
    BY <1>0, <2>1, ConnAssumption DEF Conn
  <2>3. MapUsed'
    BY <1>0, <2>1, <2>2 DEF ServerInv, MapUsed
  <2>4. Unused'
    BY <1>0, <1>2, <2>1 DEF ServerInv, Unused
  <2>5. nconn' \notin helpers
    BY <2>2 DEF ServerInv, Unused
  <2>6. \A c \in Live' : c \in Live \/ c = nconn'
    BY <2>1 DEF Live
  <2>7. Testing'
    BY <1>2, <2>1, <2>5, <2>6 DEF ServerInv, Testing
  <2>. QED BY <2>3, <2>4, <2>7
<1>3. CASE ServerHandler
  <2>3. PICK r \in Results, add \in BOOLEAN, spawn \in BOOLEAN, x \in Records :
          /\ Return(r, add, spawn, x)
          /\ spawn => x.type = "client"
          /\ x.type = d.type \/ x.type # "unknown"
    BY <1>3, HandlerReturns DEF Returns
  <2>4. item \in Live /\ item \in Conn
    BY <1>0, <1>3 DEF ServerHandler, LoopInv, HashmapLive
  <2>5. /\ cd' = [cd EXCEPT ![item] = x]
        /\ hm' = Drop(hm, {}) /\ nconn' = nconn
        /\ helpers' = IF spawn THEN helpers \cup {item} ELSE helpers
    BY <2>3 DEF Return, HandlerEffect
  <2>6. hm' = hm
    BY <2>5 DEF Drop, LoopInv, TypeOK
  <2>7. Live' = Live
    BY <2>6 DEF Live
  <2>8. Unused' /\ MapUsed'
    BY <1>0, <2>4, <2>5, <2>6 DEF ServerInv, Unused, MapUsed
  <2>9. Testing'
    BY <1>0, <2>3, <2>4, <2>5, <2>7 DEF ServerInv, Testing, d
  <2>. QED BY <2>8, <2>9
<1>4. CASE ServerRm
  <2>1. PICK closed : hm' = Drop(hm, closed)
    BY <1>4 DEF ServerRm, RmHandled
  <2>2. Live' \subseteq Live
    BY <2>1 DEF Live, Drop
  <2>3. nconn' = nconn /\ helpers' = helpers
    BY <1>4 DEF ServerRm, RmHandled
  <2>4. \A c \in Conn : cd'[c] = IF c \in Live' THEN cd[c] ELSE Fresh
    BY <1>4 DEF ServerRm
  <2>5. Unused' /\ Testing'
    BY <1>0, <2>2, <2>3, <2>4 DEF ServerInv, Unused, Testing
  <2>6. MapUsed'
    BY <2>1, <2>3 DEF ServerInv, MapUsed, Drop
  <2>. QED BY <2>5, <2>6
<1>5. ASSUME NEW c \in Conn, ProbeEnds(c) PROVE Unused' /\ MapUsed' /\ Testing'
  <2>1. hm' = hm /\ helpers' = helpers /\ nconn' = nconn
    BY <1>5 DEF ProbeEnds, vars
  <2>2. CASE cd' = cd
    BY <1>0, <2>1, <2>2, SameKinds
  <2>3. ASSUME NEW n \in BOOLEAN, NEW x \in Live,
               cd' = [cd EXCEPT ![x] = [@ EXCEPT !.tested = TRUE, !.need = n]]
        PROVE  Unused' /\ MapUsed' /\ Testing'
    <3>1. cd \in [Conn -> Records]
      BY DEF ServerInv, Shaped
    <3>2. \A y \in Records : [y EXCEPT !.tested = TRUE, !.need = n].type = y.type
      BY DEF Records
    <3>3. \A b \in Conn : cd'[b].type = cd[b].type /\ (nconn < b => cd'[b] = cd[b])
      BY <1>0, <2>3, <3>1, <3>2
    <3>. QED BY <1>0, <2>1, <3>3, SameKinds
  <2>. QED BY <1>5, <2>2, <2>3 DEF ProbeEnds
<1>6. ASSUME NEW c \in Conn, ProbeAdds(c) PROVE Unused' /\ MapUsed' /\ Testing'
  BY <1>0, <1>6, SameKinds DEF ProbeAdds, HelperAdds
<1>7. ASSUME NEW f \in Fd, Arrive(f), UNCHANGED server PROVE Unused' /\ MapUsed' /\ Testing'
  BY <1>0, <1>7, SameKinds DEF Arrive, server
<1>8. ASSUME NEW k \in DOMAIN table, Expire(k) PROVE Unused' /\ MapUsed' /\ Testing'
  BY <1>0, <1>8, SameKinds DEF Expire, vars
<1>9. CASE (Exited /\ UNCHANGED server) \/ UNCHANGED svars
  BY <1>0, <1>9, SameKinds DEF Exited, vars, svars, server
<1>. QED
  BY <1>1, <1>2, <1>3, <1>4, <1>5, <1>6, <1>7, <1>8, <1>9
  DEF ServerNext, ServerLoopStep, Quiet, server

\* A record still to be greeted is the one accept() just made.
LEMMA GreetingNext ==
  ASSUME LoopInv, ServerInv, [ServerNext]_svars
  PROVE  Greeting'
<1>. USE DEF shared, kernel, locals
<1>1. CASE Quiet
  <2>1. CASE Accept
    <3>1. item' = nconn + 1 /\ nconn < MaxConn /\ cd' = cd
      BY <1>1, <2>1 DEF Accept, Quiet, server
    <3>2. item' \in Conn /\ nconn < item'
      BY <3>1, ConnAssumption DEF Conn, LoopInv, TypeOK
    <3>3. cd'[item'].step = "connected"
      BY <3>1, <3>2 DEF ServerInv, Unused, Fresh
    <3>. QED BY <3>3 DEF Greeting
  <2>2. CASE Dispatch
    BY <2>2 DEF Dispatch, Greeting
  <2>3. CASE AcceptFails
    <3>1. i \in Nat
      BY DEF LoopInv, TypeOK
    <3>2. item = NoItem
      BY <2>3, <3>1, FdAssumption DEF AcceptFails, AtListener, Sweeping, LoopInv, ItemInv
    <3>. QED BY <2>3, <3>2 DEF AcceptFails, NextTest, Greeting
  <2>4. CASE ~Accept /\ ~Dispatch /\ ~AcceptFails
    <3>1. pc' # "call"
      BY <1>1, <2>4
      DEF Quiet, SetSockets, SelectReturns, SelectFails, ZeroBounds, AddListener, SweepDone,
          Skip, NoRecord, NextTest
    <3>. QED BY <3>1 DEF Greeting
  <2>. QED BY <2>1, <2>2, <2>3, <2>4
<1>2. CASE ServerHandler \/ ServerRm
  <2>1. pc' # "call"
    BY <1>2, HandlerImplements
    DEF Handler, HandlerEffect, NextTest, ServerRm, RmHandled
  <2>. QED BY <2>1 DEF Greeting
<1>3. ASSUME NEW c \in Conn, ProbeEnds(c) PROVE Greeting'
  <2>1. UNCHANGED <<pc, i, item>>
    BY <1>3 DEF ProbeEnds, vars
  <2>2. CASE cd' = cd
    BY <2>1, <2>2 DEF ServerInv, Greeting
  <2>3. ASSUME NEW n \in BOOLEAN, NEW x \in Live, pc = "call",
               cd' = [cd EXCEPT ![x] = [@ EXCEPT !.tested = TRUE, !.need = n]]
        PROVE  cd'[item].step = cd[item].step
    <3>1. cd \in [Conn -> Records]
      BY DEF ServerInv, Shaped
    <3>2. \A y \in Records : [y EXCEPT !.tested = TRUE, !.need = n].step = y.step
      BY DEF Records
    <3>3. item \in Conn
      BY <2>3 DEF LoopInv, TypeOK
    <3>. QED BY <2>3, <3>1, <3>2, <3>3
  <2>4. pc = "call" => cd'[item].step = cd[item].step
    BY <1>3, <2>3 DEF ProbeEnds
  <2>. QED BY <2>1, <2>4 DEF ServerInv, Greeting
<1>4. ASSUME NEW c \in Conn, ProbeAdds(c) PROVE Greeting'
  BY <1>4 DEF ProbeAdds, HelperAdds, ServerInv, Greeting
<1>5. ASSUME NEW f \in Fd, Arrive(f), UNCHANGED server PROVE Greeting'
  BY <1>5 DEF Arrive, server, ServerInv, Greeting
<1>6. ASSUME NEW k \in DOMAIN table, Expire(k) PROVE Greeting'
  BY <1>6 DEF Expire, vars, ServerInv, Greeting
<1>7. CASE (Exited /\ UNCHANGED server) \/ UNCHANGED svars
  BY <1>7 DEF Exited, vars, svars, server, ServerInv, Greeting
<1>. QED
  BY <1>1, <1>2, <1>3, <1>4, <1>5, <1>6, <1>7 DEF ServerNext, ServerLoopStep

\* The invariant of the records is inductive.
LEMMA ServerInvNext == LoopInv /\ ServerInv /\ [ServerNext]_svars => ServerInv'
  BY ShapedNext, ListedNext, KindsNext, GreetingNext DEF ServerInv

\* The invariants of the loop, carried along by the step simulation.
LEMMA LoopInvInit == ServerInit => LoopInv
  BY InitType, InitItem, InitLive DEF ServerInit, LoopInv

\* Every step of the loop keeps its invariants.
LEMMA LoopInvNext == LoopInv /\ [Next]_vars => LoopInv'
  BY NextType, NextItem, NextLive DEF LoopInv

\* Every behaviour of the managing server is a behaviour of ServerLoop.
THEOREM ServerImplementsLoop == ServerSpec => LoopSpec
<1>1. ServerInit => Init
  BY DEF ServerInit
<1>. QED
  BY <1>1, ServerInvInit, LoopInvInit, ServerInvNext, LoopInvNext, StepImplements, PTL
  DEF ServerSpec, LoopSpec, Spec

\* So the server calls its handler with live records only.
THEOREM ServerMapHoldsLiveRecords == ServerSpec => []HashmapLive
  BY ServerImplementsLoop, MapHoldsLiveRecords, PTL DEF LoopSpec

\* The list of proxies has one entry for an address, whoever registers and how
\* often, so that an address has one load and one time of registration.
THEOREM ServerUniqueAddresses == ServerSpec => []UniqueAddresses
<1>1. Listed => UniqueAddresses
  BY DEF Listed, UniqueAddresses
<1>2. ServerInit => Listed
  BY DEF ServerInit, Listed, Unique
<1>3. Listed /\ [ServerNext]_svars => Listed'
  BY ListedNext
<1>. QED BY <1>1, <1>2, <1>3, PTL DEF ServerSpec

\* Of whatever list the registrations made, find_proxy() chooses the least
\* loaded of those that compete and were not reported bad; only the first of the
\* list can be one that was.
THEOREM ServerChoosesWell == ServerSpec => []ChoosesWell
<1>1. Listed => ChoosesWell
  BY FindsAddress, FindChoosesWell, AddrAssumption DEF Listed, ChoosesWell
<1>2. ServerInit => Listed
  BY DEF ServerInit, Listed, Unique
<1>3. Listed /\ [ServerNext]_svars => Listed'
  BY ListedNext
<1>. QED BY <1>1, <1>2, <1>3, PTL DEF ServerSpec

\* What is left of the types: the threads in connect(), the history and the clock.
Counted ==
    /\ probing \subseteq helpers
    /\ owed \in [Conn -> Int]
    /\ late \in BOOLEAN
    /\ expired \in 0..MaxExpire

\* Every step of the server keeps them.
LEMMA CountedNext ==
  ASSUME LoopInv, ServerInv, Counted, [ServerNext]_svars
  PROVE  Counted'
<1>. USE DEF shared, kernel, locals, Counted
<1>1. CASE Quiet
  BY <1>1
  DEF Quiet, server, SetSockets, SelectReturns, SelectFails, ZeroBounds, AddListener, SweepDone,
      Skip, NoRecord, Dispatch, Accept, AcceptFails
<1>2. CASE ServerHandler
  <2>1. PICK r \in Results, add \in BOOLEAN, spawn \in BOOLEAN, x \in Records : Return(r, add, spawn, x)
    BY <1>2, HandlerReturns DEF Returns
  <2>2. /\ probing' = IF spawn THEN probing \cup {item} ELSE probing
        /\ helpers' = IF spawn THEN helpers \cup {item} ELSE helpers
        /\ UNCHANGED <<late, expired>>
    BY <2>1 DEF Return, HandlerEffect
  <2>3. \/ owed' = owed
        \/ owed' = [owed EXCEPT ![item] = @ + 1]
        \/ owed' = [owed EXCEPT ![item] = @ + (-1)]
    BY <1>2
    DEF ServerHandler, Hello, HangUp, Ignore, BehindFirewall, RegisterProxy, GetProxy, ClientWrite,
        LastStep, Keep, Asked, Answer
  <2>. QED BY <2>2, <2>3
<1>3. CASE ServerRm
  BY <1>3 DEF ServerRm, RmHandled
<1>4. ASSUME NEW c \in Conn, ProbeEnds(c) PROVE Counted'
  BY <1>4 DEF ProbeEnds, vars
<1>5. ASSUME NEW c \in Conn, ProbeAdds(c) PROVE Counted'
  BY <1>5 DEF ProbeAdds, HelperAdds
<1>6. ASSUME NEW k \in DOMAIN table, Expire(k) PROVE Counted'
  BY <1>6, OptionAssumption DEF Expire, vars
<1>7. ASSUME NEW f \in Fd, Arrive(f), UNCHANGED server PROVE Counted'
  BY <1>7 DEF Arrive, server
<1>8. CASE (Exited /\ UNCHANGED server) \/ UNCHANGED svars
  BY <1>8 DEF Exited, vars, svars, server
<1>. QED
  BY <1>1, <1>2, <1>3, <1>4, <1>5, <1>6, <1>7, <1>8 DEF ServerNext, ServerLoopStep

\* Records, list, threads and counters keep their types, for any number of
\* connections and addresses, although a thread may write to a record that was
\* released and given out again.
THEOREM ServerTypes == ServerSpec => []ServerTypeOK
<1>1. LoopInv /\ ServerInv /\ Counted => ServerTypeOK
  <2>1. LoopInv => TypeOK
    BY DEF LoopInv
  <2>2. ServerInv => cd \in [Conn -> Records] /\ table \in Seq(Entries(Addrs, Loads))
    BY DEF ServerInv, Shaped, Listed
  <2>. QED BY <2>1, <2>2 DEF Counted, ServerTypeOK
<1>2. ServerInit => LoopInv /\ ServerInv /\ Counted
  <2>1. ServerInit => Counted
    <3>1. 0 \in 0..MaxExpire /\ [c \in Conn |-> 0] \in [Conn -> Int]
      BY OptionAssumption
    <3>. QED BY <3>1 DEF ServerInit, Counted
  <2>. QED BY <2>1, LoopInvInit, ServerInvInit
<1>3. LoopInv /\ ServerInv /\ Counted /\ [ServerNext]_svars => (LoopInv /\ ServerInv /\ Counted)'
  BY LoopInvNext, ServerInvNext, StepImplements, CountedNext
<1>. QED BY <1>1, <1>2, <1>3, PTL DEF ServerSpec
-----------------------------------------------------------------------------
(* Only open descriptors are watched *)

\* add_socket() watches one more number.
LEMMA WatchedAdd ==
  ASSUME NEW m, NEW f, NEW flags
  PROVE  Watched(AddSocket(m, f, flags)) \subseteq Watched(m) \cup {f}
  BY DEF Watched, AddSocket, SetBits

\* rm_socket() watches no new number, and no longer the one it closes.
LEMMA WatchedRm ==
  ASSUME NEW m, NEW f, NEW flags
  PROVE  /\ Watched(RmSocket(m, f, flags)) \subseteq Watched(m)
         /\ RmCloses(m, f, flags) => f \notin Watched(RmSocket(m, f, flags))
<1>. DEFINE s == ClearBits(m.set, f, flags)
<1>1. RmSocket(m, f, flags).set = s
  BY DEF RmSocket, CalcMinMax
<1>2. \A k \in Kinds : s[k] \subseteq m.set[k] /\ (k \in flags => f \notin s[k])
  BY DEF ClearBits
<1>. HIDE DEF s
<1>3. Watched(RmSocket(m, f, flags)) \subseteq Watched(m)
  BY <1>1, <1>2 DEF Watched
<1>4. ASSUME RmCloses(m, f, flags) PROVE f \notin Watched(RmSocket(m, f, flags))
  BY <1>1, <1>2, <1>4 DEF Watched, RmCloses
<1>. QED BY <1>3, <1>4

\* WatchedOpen with what set_sockets() copied out of the sets.
ReadyOpen == \A k \in Kinds : \A f \in ready[k] : sock[f] # NoItem
OpenInv   == WatchedOpen /\ (~late /\ pc = "wait" => ReadyOpen)

\* At the start only the open listening socket is watched.
LEMMA OpenInit == ServerInit => OpenInv
<1>. SUFFICES ASSUME ServerInit PROVE OpenInv
  OBVIOUS
<1>1. Watched(master) \subseteq {Listener}
  BY WatchedAdd DEF ServerInit, Init, InitMaster, Watched
<1>2. sock[Listener] # NoItem
  BY FdPositive, ConnAssumption DEF ServerInit, Init
<1>. QED BY <1>1, <1>2 DEF ServerInit, Init, OpenInv, WatchedOpen

\* A step of the loop outside select() keeps the watched numbers open.
LEMMA OpenStep ==
  ASSUME ~late => pc \notin {"zeroed", "listen", "exit"},
         pc' \notin {"zeroed", "listen", "exit", "wait"}, late' = late,
         ~late => \A f \in Watched(master)' : sock'[f] # NoItem
  PROVE  OpenInv'
  BY DEF OpenInv, WatchedOpen

\* Every step keeps watched numbers open, or a thread was late.
LEMMA OpenNext ==
  ASSUME LoopInv, ServerInv, OpenInv, [ServerNext]_svars
  PROVE  OpenInv'
<1>. USE DEF shared, kernel, locals
<1>0. ~late => /\ \A f \in Watched(master) : sock[f] # NoItem
               /\ pc \notin {"zeroed", "listen", "exit"}
  BY DEF OpenInv, WatchedOpen
<1>1. CASE SetSockets /\ late' = late
  <2>1. \A k \in Kinds : ready'[k] \subseteq Watched(master)
    BY <1>1 DEF SetSockets, Watched
  <2>. QED BY <1>0, <1>1, <2>1 DEF SetSockets, OpenInv, WatchedOpen, ReadyOpen
<1>2. CASE SelectReturns /\ late' = late
  BY <1>0, <1>2, OpenStep DEF SelectReturns
<1>3. CASE (SelectFails \/ ZeroBounds \/ AddListener) /\ late' = late
  <2>1. late
    BY <1>0, <1>3 DEF SelectFails, ZeroBounds, AddListener, BadFd, OpenInv, ReadyOpen
  <2>. QED BY <1>3, <2>1 DEF OpenInv, WatchedOpen
<1>4. CASE (SweepDone \/ Skip \/ NoRecord \/ Dispatch \/ AcceptFails) /\ late' = late
  <2>1. /\ master' = master /\ sock' = sock
        /\ pc' \in {"copy", "scan", "call"}
    BY <1>4 DEF SweepDone, Skip, NoRecord, Dispatch, AcceptFails, NextTest
  <2>. QED BY <1>0, <1>4, <2>1, OpenStep
<1>5. CASE Accept /\ late' = late
  <2>1. PICK f \in Fds : /\ sock' = [sock EXCEPT ![f] = nconn + 1]
                         /\ master' = AddSocket(master, f, {"read"})
    BY <1>5, AcceptOpens
  <2>2. /\ f \in Fd /\ sock \in [Fd -> Conn \cup {NoItem, ListenSock}]
        /\ pc' = "call" /\ nconn < MaxConn
    BY <1>5, FdPositive DEF Accept, LoopInv, TypeOK
  <2>3. nconn + 1 # NoItem
    BY <2>2, ConnAssumption DEF LoopInv, TypeOK, Conn
  <2>4. Watched(master') \subseteq Watched(master) \cup {f}
    BY <2>1, WatchedAdd
  <2>5. ~late => \A g \in Watched(master') : sock'[g] # NoItem
    BY <1>0, <2>1, <2>2, <2>3, <2>4
  <2>. QED BY <1>0, <1>5, <2>2, <2>5, OpenStep
<1>6. CASE ServerHandler
  <2>3. PICK r \in Results, add \in BOOLEAN, spawn \in BOOLEAN, x \in Records :
          Return(r, add, spawn, x)
    BY <1>6, HandlerReturns DEF Returns
  <2>4. PICK own \in SockField(item) :
          HandlerEffect(r, add, spawn, what = "read" /\ d.step = "request", {}, own)
    BY <2>3 DEF Return
  <2>5. item \in Live /\ item # NoItem
    BY <1>6 DEF ServerHandler, LoopInv, HashmapLive, Live
  <2>6. sock[own] # NoItem
    BY <2>4, <2>5 DEF SockField
  <2>7. /\ master' = IF add THEN AddSocket(master, own, {"write"}) ELSE master
        /\ sock' = sock
    BY <2>4 DEF HandlerEffect, WalkMaster, Drop, LoopInv, TypeOK
  <2>8. Watched(master') \subseteq Watched(master) \cup {own}
    BY <2>7, WatchedAdd
  <2>9. pc' \in {"scan", "rm"} /\ late' = late
    BY <2>3, <2>4 DEF HandlerEffect, NextTest, Return
  <2>. QED BY <1>0, <2>6, <2>7, <2>8, <2>9, OpenStep
<1>7. CASE ServerRm
  <2>1. /\ master' = RmSocket(master, RmTarget, res)
        /\ sock' = Drop(sock, IF RmCloses(master, RmTarget, res) THEN {RmTarget} ELSE {})
        /\ pc' = "scan" /\ late' = late
    BY <1>7 DEF ServerRm, RmHandled, NextTest
  <2>2. /\ Watched(master') \subseteq Watched(master)
        /\ RmCloses(master, RmTarget, res) => RmTarget \notin Watched(master')
    BY <2>1, WatchedRm
  <2>3. Watched(master') \subseteq Fd
    <3>1. Watched(master) \subseteq Fd
      BY DEF LoopInv, TypeOK, Masters, Watched
    <3>. QED BY <2>2, <3>1
  <2>4. ~late => \A g \in Watched(master') : sock'[g] # NoItem
    BY <1>0, <2>1, <2>2, <2>3 DEF Drop
  <2>. QED BY <1>0, <2>1, <2>4, OpenStep
<1>8. ASSUME NEW c \in Conn, ProbeAdds(c) PROVE OpenInv'
  <2>1. ~late' => ~late /\ c \in Live
    BY <1>8 DEF ProbeAdds
  <2>2. PICK f \in SockField(c) : master' = AddSocket(master, f, {"write"})
    BY <1>8 DEF ProbeAdds, HelperAdds
  <2>3. UNCHANGED <<sock, pc, ready>>
    BY <1>8 DEF ProbeAdds, HelperAdds
  <2>4. ~late' => sock[f] # NoItem
    BY <2>1, <2>2, ConnAssumption DEF SockField
  <2>5. Watched(master') \subseteq Watched(master) \cup {f}
    BY <2>2, WatchedAdd
  <2>. QED BY <1>0, <2>1, <2>3, <2>4, <2>5 DEF OpenInv, WatchedOpen, ReadyOpen
<1>9. ASSUME NEW c \in Conn, ProbeEnds(c) PROVE OpenInv'
  BY <1>0, <1>9 DEF ProbeEnds, vars, OpenInv, WatchedOpen, ReadyOpen
<1>10. ASSUME NEW f \in Fd, Arrive(f), UNCHANGED server PROVE OpenInv'
  BY <1>0, <1>10 DEF Arrive, server, OpenInv, WatchedOpen, ReadyOpen
<1>11. ASSUME NEW k \in DOMAIN table, Expire(k) PROVE OpenInv'
  BY <1>0, <1>11 DEF Expire, vars, OpenInv, WatchedOpen, ReadyOpen
<1>12. CASE (Exited /\ UNCHANGED server) \/ UNCHANGED svars
  BY <1>0, <1>12 DEF Exited, vars, svars, server, OpenInv, WatchedOpen, ReadyOpen
<1>13. Quiet => late' = late
  BY DEF Quiet, server
<1>. QED
  BY <1>1, <1>2, <1>3, <1>4, <1>5, <1>6, <1>7, <1>8, <1>9, <1>10, <1>11, <1>12, <1>13
  DEF ServerNext, ServerLoopStep, Quiet

\* For every number of descriptors, connections and proxies: only a thread that
\* outlived its record makes select() fail, and with it all connections.
THEOREM WatchedStayOpen == ServerSpec => []WatchedOpen
<1>1. OpenInv => WatchedOpen
  BY DEF OpenInv
<1>2. ServerInit => LoopInv /\ ServerInv /\ OpenInv
  BY LoopInvInit, ServerInvInit, OpenInit
<1>3. LoopInv /\ ServerInv /\ OpenInv /\ [ServerNext]_svars => (LoopInv /\ ServerInv /\ OpenInv)'
  BY LoopInvNext, ServerInvNext, StepImplements, OpenNext
<1>. QED BY <1>1, <1>2, <1>3, PTL DEF ServerSpec
-----------------------------------------------------------------------------
(* No client is sent more answers than it asked for *)

\* Number f is registered for writing, unless the loop is about to withdraw that.
WriteAsked(f) == f \in master.set["write"] /\ ~(pc = "rm" /\ i = f /\ "write" \in res)

\* Number f is among those the sweep has still to test for writing.
WriteLeft(f) ==
    /\ f \in ready["write"]
    /\ pc \in {"scan", "call", "rm"} => i < f \/ (i = f /\ (what # "write" \/ pc = "scan"))

\* The handler of connection c is called for writing, or may yet be.
Due(c) ==
    \/ \E f \in Fd : sock[f] = c /\ (WriteAsked(f) \/ WriteLeft(f))
    \/ pc = "call" /\ what = "write" /\ item = c

\* A connection whose handler may be called for writing is owed an answer or
\* past all answers; while its test runs it is owed one and nothing calls it.
Debt(c) ==
    IF c \in Live
    THEN /\ owed[c] >= 0
         /\ Due(c) => /\ cd[c].type # "unknown" /\ c \notin helpers
                      /\ cd[c].type = "client" /\ cd[c].step # "last" => owed[c] >= 1
         /\ c \in helpers => owed[c] >= 1
    ELSE owed[c] = 0

\* A connection has one number and the handler is called for the connection of
\* the number the sweep stands at.
OneNumber ==
    /\ \A f, g \in Fd : sock[f] = sock[g] /\ sock[f] \in Conn => f = g
    /\ \A f \in Fd : sock[f] \in Conn => sock[f] <= nconn
OwnCall   == pc = "call" /\ i # Listener => sock[i] = item

\* Until accept() the sweep has numbers only that were open at select(): what
\* accept() opens is not among them.
FirstOpen == pc = "scan" /\ (i < Listener \/ (i = Listener /\ what # "write")) => ReadyOpen

DebtInv ==
    /\ OneNumber /\ OwnCall
    /\ ~late => owed \in [Conn -> Int] /\ FirstOpen /\ \A c \in Conn : Debt(c)

\* At the start no connection is owed anything.
LEMMA DebtInit == ServerInit => DebtInv
<1>. SUFFICES ASSUME ServerInit PROVE DebtInv
  OBVIOUS
<1>1. \A f \in Fd : sock[f] \notin Conn
  BY ConnAssumption DEF ServerInit, Init
<1>2. Live = {}
  BY DEF ServerInit, Init, Live
<1>. QED
  BY <1>1, <1>2 DEF ServerInit, Init, DebtInv, OneNumber, OwnCall, FirstOpen, Debt

\* Going to the next test leaves no new number to be tested for writing.
LEMMA LeftAfterTest ==
  ASSUME TypeOK, NextTest, pc \in {"scan", "call", "rm"}, ready' = ready,
         NEW f \in Fd, WriteLeft(f)'
  PROVE  WriteLeft(f)
<1>1. i \in Nat /\ f \in Nat /\ what \in Kinds
  BY FdPositive DEF TypeOK
<1>2. f \in ready["write"] /\ (i' < f \/ i' = f)
  BY DEF WriteLeft, NextTest
<1>3. CASE what = "write"
  BY <1>1, <1>2, <1>3 DEF NextTest, WriteLeft
<1>4. CASE what # "write"
  BY <1>1, <1>2, <1>4 DEF NextTest, WriteLeft
<1>. QED BY <1>3, <1>4

\* Steps of the loop outside accept(), the handler and rm_socket() make no
\* handler due to be called for writing that was not.
LEMMA QuietDue ==
  ASSUME LoopInv, Quiet, ~SelectFails, ~ZeroBounds, ~AddListener, ~Accept, NEW c \in Conn, Due(c)'
  PROVE  Due(c)
<1>. USE DEF shared, kernel, locals
<1>1. CASE SetSockets
  <2>1. /\ pc = "copy" /\ pc' = "wait" /\ UNCHANGED <<master, sock>>
        /\ ready'["write"] \subseteq master.set["write"]
    BY <1>1 DEF SetSockets, Kinds
  <2>2. ASSUME NEW f \in Fd, WriteAsked(f)' \/ WriteLeft(f)' PROVE WriteAsked(f)
    BY <2>1, <2>2 DEF WriteAsked, WriteLeft
  <2>. QED BY <2>1, <2>2 DEF Due
<1>2. CASE SelectReturns
  BY <1>2 DEF SelectReturns, Due, WriteAsked, WriteLeft
<1>3. CASE SweepDone
  BY <1>3 DEF SweepDone, Due, WriteAsked, WriteLeft, NoSets, Kinds
<1>4. CASE Skip \/ NoRecord \/ AcceptFails
  <2>1. i \in Nat /\ Listener \in Nat
    BY FdPositive DEF LoopInv, TypeOK
  <2>2. AcceptFails => item = NoItem
    BY <2>1 DEF AcceptFails, AtListener, Sweeping, LoopInv, ItemInv
  <2>3. /\ pc = "scan" /\ NextTest
        /\ UNCHANGED <<master, sock, ready, res>>
    BY <1>4, <2>2 DEF Skip, NoRecord, AcceptFails, AtListener, Sweeping
  <2>4. pc' = "scan"
    BY <2>3 DEF NextTest
  <2>. QED BY <2>3, <2>4, LeftAfterTest DEF LoopInv, Due, WriteAsked
<1>5. CASE Dispatch
  <2>1. /\ pc = "scan" /\ pc' = "call" /\ i \in ready[what] /\ item' = hm[i] /\ hm[i] # NoItem
        /\ UNCHANGED <<master, sock, ready, i, what>>
    BY <1>5 DEF Dispatch, Sweeping
  <2>2. i \in Fd
    BY <2>1 DEF LoopInv, TypeOK
  <2>3. sock[i] = hm[i]
    BY <2>1, <2>2 DEF LoopInv, HashmapLive
  <2>4. ASSUME NEW f \in Fd, WriteAsked(f)' \/ WriteLeft(f)'
        PROVE  WriteAsked(f) \/ WriteLeft(f)
    BY <2>1, <2>4 DEF WriteAsked, WriteLeft
  <2>5. what = "write" => WriteLeft(i)
    BY <2>1 DEF WriteLeft
  <2>. QED BY <2>1, <2>2, <2>3, <2>4, <2>5 DEF Due
<1>. QED BY <1>1, <1>2, <1>3, <1>4, <1>5 DEF Quiet

\* A return of the handler makes due at most its own connection, and that only
\* if it registers it for writing; a return that withdraws the registration at
\* the number the handler was called for leaves its connection not due.
LEMMA HandlerDue ==
  ASSUME LoopInv, OneNumber, OwnCall, pc = "call",
         NEW r \in Results, NEW add \in BOOLEAN, NEW spawn, NEW reads, NEW own \in SockField(item),
         HandlerEffect(r, add, spawn, reads, {}, own), NEW c \in Conn, Due(c)'
  PROVE  /\ (add /\ c = item) \/ Due(c)
         /\ ~add /\ what = "write" /\ "write" \in r => c # item
<1>0. /\ TypeOK /\ item \in Live /\ item \in Conn /\ i \in Fd
      /\ what = "write" => sock[i] = item
  BY DEF LoopInv, HashmapLive, TypeOK, ItemInv, OwnCall
<1>1. sock[own] = item
  BY <1>0 DEF SockField
<1>2. /\ sock' = sock /\ ready' = ready /\ item' = item
      /\ master' = IF add THEN AddSocket(master, own, {"write"}) ELSE master
      /\ res' = r
      /\ IF r = {} THEN NextTest ELSE pc' = "rm" /\ UNCHANGED <<i, what>>
  BY <1>0 DEF HandlerEffect, WalkMaster, Drop, TypeOK
<1>3. pc' # "call"
  BY <1>2 DEF NextTest
<1>4. PICK f \in Fd : sock[f] = c /\ (WriteAsked(f)' \/ WriteLeft(f)')
  BY <1>2, <1>3 DEF Due
<1>5. WriteLeft(f)' => WriteLeft(f)
  <2>1. CASE r = {}
    BY <1>0, <1>2, <2>1, LeftAfterTest
  <2>2. CASE r # {}
    BY <1>2, <2>2 DEF WriteLeft
  <2>. QED BY <2>1, <2>2
<1>6. WriteAsked(f)' => WriteAsked(f) \/ (add /\ f = own)
  <2>1. \A k \in Kinds : AddSocket(master, own, {"write"}).set[k] \subseteq master.set[k] \cup {own}
    BY DEF AddSocket, SetBits
  <2>2. "write" \in Kinds
    BY DEF Kinds
  <2>. QED BY <1>2, <2>1, <2>2 DEF WriteAsked
<1>7. (add /\ c = item) \/ Due(c)
  BY <1>1, <1>4, <1>5, <1>6 DEF Due
<1>8. ASSUME ~add, what = "write", "write" \in r, c = item PROVE FALSE
  <2>1. f = i
    BY <1>0, <1>4, <1>8 DEF OneNumber
  <2>2. pc' = "rm" /\ i' = i /\ what' = what
    BY <1>2, <1>8
  <2>3. ~WriteAsked(f)'
    BY <1>2, <1>8, <2>1, <2>2 DEF WriteAsked
  <2>4. i \in Nat
    BY <1>0 DEF TypeOK
  <2>5. ~WriteLeft(f)'
    BY <1>8, <2>1, <2>2, <2>4 DEF WriteLeft
  <2>. QED BY <1>4, <2>3, <2>5
<1>. QED BY <1>7, <1>8

\* rm_socket() withdraws what the handler asked it to and makes nothing due.
LEMMA RmDue ==
  ASSUME LoopInv, RmHandled, NEW c \in Conn, Due(c)'
  PROVE  Due(c)
<1>1. /\ pc = "rm" /\ NextTest /\ ready' = ready
      /\ master' = RmSocket(master, i, res)
      /\ \E closed : sock' = Drop(sock, closed)
  BY DEF RmHandled, RmTarget
<1>2. pc' = "scan"
  BY <1>1 DEF NextTest
<1>3. \A f \in Fd : sock'[f] = c => sock[f] = c
  BY <1>1, ConnAssumption DEF Drop
<1>4. master'.set = ClearBits(master.set, i, res)
  BY <1>1 DEF RmSocket, CalcMinMax
<1>5. ASSUME NEW f \in Fd, WriteAsked(f)' PROVE WriteAsked(f)
  BY <1>4, <1>5 DEF WriteAsked, ClearBits, Kinds
<1>6. ASSUME NEW f \in Fd, WriteLeft(f)' PROVE WriteLeft(f)
  BY <1>1, <1>6, LeftAfterTest DEF LoopInv
<1>. QED BY <1>2, <1>3, <1>5, <1>6 DEF Due

\* What a call of the server's handler leaves of the record d and of the debt.
Leaves(r, add, spawn, e) ==
    \* most branches
    \/ ~add /\ ~spawn /\ e.type = d.type /\ (d.step = "last" => e.step = "last")
       /\ owed' = owed
    \* behind_firewall(), with and without a socket for the test
    \/ what = "read" /\ ~add /\ spawn /\ d.type = "unknown" /\ e.type = "client"
       /\ owed' = [owed EXCEPT ![item] = @ + 1]
    \/ ~add /\ ~spawn /\ d.type = "unknown" /\ owed' = owed
    \* register_proxy()
    \/ ~spawn /\ d.type = "unknown" /\ e.type = "proxy" /\ owed' = owed
    \* get_proxy()
    \/ ~spawn /\ d.type = "client" /\ d.step # "last" /\ owed[item] = 0 /\ owed' = owed
       /\ e.type = "client" /\ (~add \/ e.step = "last")
    \* client_write() with an answer
    \/ what = "write" /\ ~spawn /\ d.type = "client" /\ d.step # "last"
       /\ owed' = [owed EXCEPT ![item] = @ + (-1)]
       /\ e.type = "client" /\ ((~add /\ "write" \in r) \/ e.step = "last")

\* Each branch of the handler is one of these.
LEMMA HandlerLeaves ==
  ASSUME LoopInv, ServerInv, ServerHandler
  PROVE  \E e : \E r \in Results, add \in BOOLEAN, spawn \in BOOLEAN :
           Return(r, add, spawn, e) /\ Leaves(r, add, spawn, e)
<1>1. Listed
  BY DEF ServerInv
<1>2. item \in Conn /\ d \in Records
  BY DEF ServerHandler, LoopInv, TypeOK, ServerInv, Shaped, d
<1>3. MasterAll \in Results /\ {} \in Results
  BY DEF Results
<1>4. CASE Hello \/ HangUp \/ Ignore \/ LastStep
  <2>1. /\ [d EXCEPT !.step = "request"].type = d.type
        /\ [d EXCEPT !.step = "request"].step = "request"
    BY <1>2 DEF Records
  <2>2. CASE Hello
    <3>. DEFINE x == [d EXCEPT !.step = "request"]
    <3>1. Return({}, FALSE, FALSE, x) \/ Return(MasterAll, FALSE, FALSE, d)
      BY <2>2 DEF Hello
    <3>2. d.step # "last" /\ owed' = owed
      BY <2>2 DEF Hello, Keep
    <3>. HIDE DEF x
    <3>3. Leaves({}, FALSE, FALSE, x) /\ Leaves(MasterAll, FALSE, FALSE, d)
      BY <2>1, <3>2 DEF Leaves, x
    <3>. QED BY <1>3, <3>1, <3>3
  <2>3. CASE HangUp \/ Ignore \/ LastStep
    <3>1. Return({}, FALSE, FALSE, d) \/ Return(MasterAll, FALSE, FALSE, d)
      BY <2>3 DEF HangUp, Ignore, LastStep
    <3>2. owed' = owed
      BY <2>3 DEF HangUp, Ignore, LastStep, Keep
    <3>3. Leaves({}, FALSE, FALSE, d) /\ Leaves(MasterAll, FALSE, FALSE, d)
      BY <3>2 DEF Leaves
    <3>. QED BY <1>3, <3>1, <3>3
  <2>. QED BY <1>4, <2>2, <2>3
<1>5. CASE BehindFirewall
  <2>1. d.type = "unknown" /\ what = "read"
    BY <1>5 DEF BehindFirewall, Reads
  <2>2. AsClient.type = "client"
    BY <1>2 DEF AsClient, Records
  <2>3. CASE Return({}, FALSE, TRUE, AsClient) /\ Asked
    <3>1. Leaves({}, FALSE, TRUE, AsClient)
      BY <2>1, <2>2, <2>3 DEF Leaves, Asked
    <3>. QED BY <1>3, <2>3, <3>1
  <2>4. CASE Return(MasterAll, FALSE, FALSE, AsClient) /\ UNCHANGED owed
    <3>1. Leaves(MasterAll, FALSE, FALSE, AsClient)
      BY <2>1, <2>4 DEF Leaves
    <3>. QED BY <1>3, <2>4, <3>1
  <2>. QED BY <1>5, <2>3, <2>4 DEF BehindFirewall
<1>6. CASE RegisterProxy
  <2>. DEFINE x == [d EXCEPT !.type = "proxy", !.step = "last"]
  <2>1. x.type = "proxy"
    BY <1>2 DEF Records
  <2>2. Return({}, TRUE, FALSE, x) \/ Return(MasterAll, FALSE, FALSE, d)
    BY <1>6 DEF RegisterProxy
  <2>3. d.type = "unknown" /\ owed' = owed
    BY <1>6 DEF RegisterProxy
  <2>. HIDE DEF x
  <2>4. Leaves({}, TRUE, FALSE, x) /\ Leaves(MasterAll, FALSE, FALSE, d)
    BY <2>1, <2>3 DEF Leaves
  <2>. QED BY <1>3, <2>2, <2>4
<1>7. CASE GetProxy
  <2>. DEFINE e == [d EXCEPT !.need = TRUE, !.bad = @ \cup ({d.proxy} \ {NoProxy})]
  <2>1. /\ d.type = "client" /\ d.step # "last" /\ owed[item] = 0 /\ owed' = owed
        /\ Reply(e)
    BY <1>7 DEF GetProxy, Reads, Keep
  <2>2. e \in Records /\ e.type = "client"
    BY <1>2, <2>1 DEF Records
  <2>. HIDE DEF e
  <2>3. PICK x : \E r \in Results, add \in BOOLEAN :
           /\ Return(r, add, FALSE, x)
           /\ x.type = "client"
           /\ (~add /\ "write" \in r) \/ x.step = "last"
    BY <1>1, <2>1, <2>2, ReplyReturns
  <2>4. ASSUME NEW r, NEW add, x.type = "client", (~add /\ "write" \in r) \/ x.step = "last"
        PROVE  Leaves(r, add, FALSE, x)
    BY <2>1, <2>4 DEF Leaves
  <2>. QED BY <2>3, <2>4
<1>8. CASE ClientWrite
  <2>1. CASE d.type = "client" /\ Reply(d) /\ Answer(-1)
    <3>1. PICK x : \E r \in Results, add \in BOOLEAN :
             /\ Return(r, add, FALSE, x)
             /\ x.type = "client"
             /\ (~add /\ "write" \in r) \/ x.step = "last"
      BY <1>1, <1>2, <2>1, ReplyReturns
    <3>2. owed' = [owed EXCEPT ![item] = @ + (-1)]
      BY <2>1 DEF Answer
    <3>3. what = "write" /\ d.step # "last"
      BY <1>8 DEF ClientWrite
    <3>4. ASSUME NEW r, NEW add, x.type = "client", (~add /\ "write" \in r) \/ x.step = "last"
          PROVE  Leaves(r, add, FALSE, x)
      BY <2>1, <3>2, <3>3, <3>4 DEF Leaves
    <3>. QED BY <3>1, <3>4
  <2>2. CASE Return({}, FALSE, FALSE, d) /\ UNCHANGED owed
    <3>1. Leaves({}, FALSE, FALSE, d)
      BY <2>2 DEF Leaves
    <3>. QED BY <1>3, <2>2, <3>1
  <2>. QED BY <1>8, <2>1, <2>2 DEF ClientWrite
<1>. QED BY <1>4, <1>5, <1>6, <1>7, <1>8 DEF ServerHandler

\* Closing numbers, or opening none, keeps the numbers apart.
LEMMA NumbersLess ==
  ASSUME OneNumber, \A f \in Fd : sock'[f] = sock[f] \/ sock'[f] = NoItem, nconn' = nconn
  PROVE  OneNumber'
  BY ConnAssumption DEF OneNumber

\* Every step of the loop keeps the numbers apart and its call with the
\* connection of the number it stands at.
LEMMA NumbersNext ==
  ASSUME LoopInv, OneNumber, OwnCall, [Next]_vars
  PROVE  OneNumber' /\ OwnCall'
<1>. USE DEF shared, kernel, locals
<1>1. CASE SetSockets \/ SelectReturns \/ SelectFails \/ ZeroBounds \/ AddListener
           \/ SweepDone \/ Skip \/ NoRecord \/ AcceptFails
  <2>1. i \in Nat /\ Listener \in Nat
    BY FdPositive DEF LoopInv, TypeOK
  <2>2. sock' = sock /\ nconn' = nconn /\ pc' # "call"
    BY <1>1, <2>1
    DEF SetSockets, SelectReturns, SelectFails, ZeroBounds, AddListener, SweepDone, Skip,
        NoRecord, AcceptFails, AtListener, Sweeping, NextTest, LoopInv, ItemInv
  <2>. QED BY <2>2, NumbersLess DEF OwnCall
<1>2. CASE Dispatch
  <2>1. sock' = sock /\ nconn' = nconn /\ i' = i /\ item' = hm[i] /\ i \in Fd /\ hm[i] # NoItem
    BY <1>2 DEF Dispatch, Sweeping, LoopInv, TypeOK
  <2>2. sock[i] = hm[i]
    BY <2>1 DEF LoopInv, HashmapLive
  <2>. QED BY <2>1, <2>2, NumbersLess DEF OwnCall
<1>3. CASE Accept
  <2>1. PICK f \in Fds : sock' = [sock EXCEPT ![f] = nconn + 1]
    BY <1>3, AcceptOpens
  <2>2. /\ f \in Fd /\ nconn \in Nat /\ nconn' = nconn + 1
        /\ sock \in [Fd -> Conn \cup {NoItem, ListenSock}]
        /\ \A c \in Conn : c \in Nat
        /\ i' = Listener
    BY <1>3, FdPositive DEF Accept, AtListener, LoopInv, TypeOK, Conn
  <2>3. PICK n : n = nconn + 1
    OBVIOUS
  <2>4. \A g \in Fd : sock'[g] = IF g = f THEN n ELSE sock[g]
    BY <2>1, <2>2, <2>3
  <2>5. \A g \in Fd : sock[g] \in Conn => sock[g] # n /\ sock[g] <= n
    BY <2>2, <2>3 DEF OneNumber
  <2>6. \A g, h \in Fd : sock'[g] = sock'[h] /\ sock'[g] \in Conn => g = h
    BY <2>4, <2>5 DEF OneNumber
  <2>7. ASSUME NEW g \in Fd, sock'[g] \in Conn PROVE sock'[g] <= nconn'
    <3>1. n <= nconn'
      BY <2>2, <2>3
    <3>. QED BY <2>2, <2>3, <2>4, <2>5, <2>7, <3>1
  <2>. QED BY <2>2, <2>6, <2>7 DEF OneNumber, OwnCall
<1>4. CASE Handler \/ RmHandled
  <2>1. /\ \E closed : sock' = Drop(sock, closed)
        /\ nconn' = nconn /\ pc' # "call"
    BY <1>4 DEF Handler, HandlerEffect, RmHandled, NextTest
  <2>2. \A f \in Fd : sock'[f] = sock[f] \/ sock'[f] = NoItem
    BY <2>1 DEF Drop
  <2>. QED BY <2>1, <2>2, NumbersLess DEF OwnCall
<1>5. ASSUME NEW c \in Conn, HelperAdds(c) PROVE OneNumber' /\ OwnCall'
  BY <1>5 DEF HelperAdds, OneNumber, OwnCall
<1>6. ASSUME NEW f \in Fd, Arrive(f) PROVE OneNumber' /\ OwnCall'
  BY <1>6 DEF Arrive, OneNumber, OwnCall
<1>7. CASE Exited \/ UNCHANGED vars
  BY <1>7 DEF Exited, vars, OneNumber, OwnCall
<1>. QED BY <1>1, <1>2, <1>3, <1>4, <1>5, <1>6, <1>7 DEF Next, Loop

\* A step that leaves a connection's record, thread and debt alone and does not
\* make it due keeps what is known of it.
LEMMA DebtSame ==
  ASSUME NEW c \in Conn, Debt(c),
         c \in Live' => /\ c \in Live /\ (Due(c)' => Due(c))
                        /\ cd'[c].type = cd[c].type
                        /\ cd[c].step = "last" => cd'[c].step = "last"
                        /\ owed'[c] = owed[c]
                        /\ c \in helpers' <=> c \in helpers,
         c \notin Live' => owed'[c] = 0
  PROVE  Debt(c)'
  BY DEF Debt

\* Every call of the handler keeps the debts.
LEMMA DebtHandler ==
  ASSUME LoopInv, ServerInv, DebtInv, ServerHandler, ~late
  PROVE  /\ owed' \in [Conn -> Int]
         /\ UNCHANGED <<sock, nconn, late>>
         /\ pc' # "call"
         /\ \A c \in Conn : Debt(c)'
<1>1. PICK e : \E r \in Results, add \in BOOLEAN, spawn \in BOOLEAN :
                 Return(r, add, spawn, e) /\ Leaves(r, add, spawn, e)
  BY HandlerLeaves
<1>2. PICK r \in Results, add \in BOOLEAN, spawn \in BOOLEAN :
             Return(r, add, spawn, e) /\ Leaves(r, add, spawn, e)
  BY <1>1
<1>. DEFINE reads == what = "read" /\ d.step = "request"
<1>3. PICK own \in SockField(item) : HandlerEffect(r, add, spawn, reads, {}, own)
  BY <1>2 DEF Return
<1>. HIDE DEF reads
<1>4. /\ pc = "call" /\ item \in Live /\ item \in Conn /\ TypeOK
      /\ \A c \in Conn : Debt(c)
      /\ owed \in [Conn -> Int] /\ OneNumber /\ OwnCall
      /\ cd = [c \in Conn |-> cd[c]]
  BY DEF ServerHandler, LoopInv, HashmapLive, TypeOK, DebtInv, ServerInv, Shaped
<1>5. /\ hm' = hm /\ sock' = sock /\ nconn' = nconn /\ late' = late
      /\ helpers' = IF spawn THEN helpers \cup {item} ELSE helpers
      /\ cd' = [cd EXCEPT ![item] = e]
      /\ pc' # "call"
  BY <1>2, <1>3, <1>4 DEF HandlerEffect, Drop, TypeOK, Return, NextTest
<1>6. Live' = Live
  BY <1>5 DEF Live
<1>0. PICK me \in Conn : me = item
  BY <1>4
<1>7. ASSUME NEW c \in Conn, Due(c)'
      PROVE  /\ (add /\ c = me) \/ Due(c)
             /\ ~add /\ what = "write" /\ "write" \in r => c # me
  BY <1>0, <1>3, <1>4, <1>7, HandlerDue DEF LoopInv
<1>8. d = cd[me] /\ cd'[me] = e /\ me \in Live
  BY <1>0, <1>4, <1>5 DEF d
<1>9. d.type = "unknown" => ~Due(me) /\ me \notin helpers
  BY <1>0, <1>4, <1>8 DEF Debt, ServerInv, Testing
<1>10. ASSUME NEW c \in Conn, c # me, owed'[c] = owed[c] PROVE Debt(c)'
  <2>1. cd'[c] = cd[c] /\ (c \in helpers' <=> c \in helpers) /\ (Due(c)' => Due(c))
    BY <1>0, <1>4, <1>5, <1>7, <1>10
  <2>. QED BY <1>4, <1>6, <1>10, <2>1, DebtSame DEF Debt
<1>11. CASE owed' = owed
  <2>1. Debt(me)'
    <3>1. owed[me] >= 0 /\ owed'[me] = owed[me]
      BY <1>0, <1>4, <1>8, <1>11 DEF Debt
    <3>2. CASE ~add /\ ~spawn /\ e.type = d.type /\ (d.step = "last" => e.step = "last")
      <4>1. Due(me)' => Due(me)
        BY <1>0, <1>4, <1>8, <1>7, <3>2
      <4>. QED BY <1>0, <1>4, <1>8, <1>5, <1>6, <3>1, <3>2, <4>1, DebtSame
    <3>3. CASE ~add /\ ~spawn /\ d.type = "unknown"
      <4>1. ~Due(me)' /\ me \notin helpers'
        BY <1>0, <1>4, <1>8, <1>5, <1>7, <1>9, <3>3
      <4>. QED BY <1>0, <1>4, <1>8, <1>6, <3>1, <4>1 DEF Debt
    <3>4. CASE ~spawn /\ d.type = "unknown" /\ e.type = "proxy"
      <4>1. me \notin helpers'
        BY <1>0, <1>5, <1>9, <3>4
      <4>. QED BY <1>0, <1>4, <1>6, <1>8, <3>1, <3>4, <4>1 DEF Debt
    <3>5. CASE ~spawn /\ d.type = "client" /\ d.step # "last" /\ owed[me] = 0
               /\ e.type = "client" /\ (~add \/ e.step = "last")
      <4>1. me \notin helpers' /\ ~Due(me)
        BY <1>0, <1>4, <1>8, <1>5, <3>5 DEF Debt
      <4>2. Due(me)' => add
        BY <1>0, <1>4, <1>8, <1>7, <4>1
      <4>. QED BY <1>0, <1>4, <1>6, <1>8, <3>1, <3>5, <4>1, <4>2 DEF Debt
    <3>6. CASE /\ what = "write" /\ ~spawn /\ d.type = "client" /\ d.step # "last"
               /\ owed' = [owed EXCEPT ![me] = @ + (-1)]
      BY <1>0, <1>4, <1>8, <1>11, <3>6
    <3>7. CASE /\ what = "read" /\ ~add /\ spawn
               /\ owed' = [owed EXCEPT ![me] = @ + 1]
      BY <1>0, <1>4, <1>8, <1>11, <3>7
    <3>. QED BY <1>2, <3>2, <3>3, <3>4, <3>5, <3>6, <3>7, <1>0 DEF Leaves
  <2>. QED BY <1>0, <1>4, <1>8, <1>5, <1>10, <1>11, <2>1
<1>12. CASE /\ what = "read" /\ ~add /\ spawn /\ d.type = "unknown" /\ e.type = "client"
            /\ owed' = [owed EXCEPT ![me] = @ + 1]
  <2>1. owed'[me] = owed[me] + 1 /\ owed[me] \in Int /\ owed[me] >= 0
    BY <1>0, <1>4, <1>8, <1>12 DEF Debt
  <2>2. ~Due(me)'
    BY <1>0, <1>4, <1>8, <1>7, <1>9, <1>12
  <2>3. owed'[me] >= 1 /\ owed'[me] >= 0
    BY <2>1
  <2>4. Debt(me)'
    BY <1>0, <1>4, <1>8, <1>6, <2>2, <2>3 DEF Debt
  <2>. QED BY <1>0, <1>4, <1>8, <1>5, <1>10, <1>12, <2>4
<1>13. CASE /\ what = "write" /\ ~spawn /\ d.type = "client" /\ d.step # "last"
            /\ owed' = [owed EXCEPT ![me] = @ + (-1)]
            /\ e.type = "client" /\ ((~add /\ "write" \in r) \/ e.step = "last")
  <2>1. Due(me)
    BY <1>0, <1>4, <1>8, <1>13 DEF Due
  <2>2. me \notin helpers' /\ owed[me] >= 1 /\ owed[me] \in Int
    BY <1>0, <1>4, <1>8, <1>5, <1>13, <2>1 DEF Debt
  <2>3. owed'[me] = owed[me] + (-1)
    BY <1>0, <1>4, <1>8, <1>13
  <2>4. owed'[me] >= 0
    BY <2>2, <2>3
  <2>5. Due(me)' => e.step = "last"
    BY <1>0, <1>4, <1>8, <1>7, <1>13
  <2>6. Debt(me)'
    BY <1>0, <1>4, <1>6, <1>8, <1>13, <2>2, <2>4, <2>5 DEF Debt
  <2>. QED BY <1>0, <1>4, <1>8, <1>5, <1>10, <1>13, <2>6
<1>. QED BY <1>0, <1>2, <1>11, <1>12, <1>13 DEF Leaves

\* accept() opens a number that was not registered, was not reported and was no
\* other connection's, for a connection that owes and is owed nothing.
LEMMA DebtAccept ==
  ASSUME LoopInv, ServerInv, OpenInv, DebtInv, Accept, UNCHANGED server, ~late
  PROVE  \A c \in Conn : Debt(c)'
<1>1. PICK f \in Fds : /\ sock[f] = NoItem
                       /\ sock' = [sock EXCEPT ![f] = nconn + 1]
                       /\ hm' = IF hm[f] = NoItem THEN [hm EXCEPT ![f] = nconn + 1] ELSE hm
                       /\ master' = AddSocket(master, f, {"read"})
  <2>1. Min(Free) \in Fds /\ sock[Min(Free)] = NoItem
    BY LeastFree DEF Accept, Free
  <2>2. /\ sock' = [sock EXCEPT ![Min(Free)] = nconn + 1]
        /\ hm' = IF hm[Min(Free)] = NoItem THEN [hm EXCEPT ![Min(Free)] = nconn + 1] ELSE hm
        /\ master' = AddSocket(master, Min(Free), {"read"})
    BY DEF Accept
  <2>. QED BY <2>1, <2>2
<1>2. /\ pc = "scan" /\ i = Listener /\ what = "read" /\ pc' = "call"
      /\ nconn' = nconn + 1 /\ item' = nconn + 1
      /\ UNCHANGED <<helpers, i, what, ready, res, cd, owed, late>>
  BY DEF Accept, AtListener, Sweeping, server
<1>3. /\ f \in Fd /\ nconn \in Nat /\ nconn + 1 \in Conn /\ TypeOK
      /\ sock \in [Fd -> Conn \cup {NoItem, ListenSock}]
      /\ \A c \in Conn : c \in Nat /\ Debt(c)
      /\ OneNumber
      /\ \A g \in Fd : hm[g] # NoItem => sock[g] = hm[g]
  BY <1>1, FdPositive, ConnAssumption DEF Accept, LoopInv, HashmapLive, TypeOK, Conn, DebtInv
<1>0. PICK n \in Conn : n = nconn + 1
  BY <1>3
<1>4. n \in Conn /\ n \in Nat /\ \A c \in Conn : c <= nconn => c # n
  BY <1>0, <1>3
<1>5. \A g \in Fd : sock[g] # n
  <2>1. n # NoItem /\ n # ListenSock
    BY <1>4, ConnAssumption
  <2>2. \A g \in Fd : sock[g] \in Conn => sock[g] <= nconn
    BY <1>3 DEF OneNumber
  <2>. QED BY <1>0, <1>3, <1>4, <2>1, <2>2
<1>7. \A c \in Live' : c \in Live \/ c = n
  BY <1>0, <1>1, <1>3 DEF Live
<1>8. \A g \in Fd : sock'[g] = IF g = f THEN n ELSE sock[g]
  BY <1>0, <1>1, <1>3
<1>9. master'.set["write"] = master.set["write"]
  BY <1>1 DEF AddSocket, SetBits, Kinds
<1>10. ASSUME NEW c \in Conn, c # n PROVE Debt(c)'
  <2>1. Due(c)' => Due(c)
    BY <1>2, <1>8, <1>9, <1>10 DEF Due, WriteAsked, WriteLeft
  <2>2. c \in Live' => c \in Live
    BY <1>7, <1>10
  <2>3. c \notin Live' => c \notin Live
    <3>1. hm[f] = NoItem
      BY <1>1, <1>3
    <3>. QED BY <1>1, <1>3, <3>1 DEF Live, TypeOK
  <2>. QED BY <1>2, <1>3, <2>1, <2>2, <2>3 DEF Debt
<1>11. Debt(n)'
  <2>1. owed'[n] = 0
    <3>1. n \notin Live
      BY <1>3, <1>4, <1>5 DEF Live
    <3>. QED BY <1>2, <1>3, <1>4, <3>1 DEF Debt
  <2>2. n \notin helpers'
    BY <1>0, <1>2, <1>3, <1>4 DEF ServerInv, Unused
  <2>3. f \notin master.set["write"]
    BY <1>1 DEF OpenInv, WatchedOpen, Watched, Kinds
  <2>4. f \notin ready["write"]
    <3>1. ReadyOpen
      BY <1>2 DEF DebtInv, FirstOpen
    <3>. QED BY <1>1, <3>1 DEF ReadyOpen, Kinds
  <2>5. ~Due(n)'
    BY <1>2, <1>5, <1>8, <1>9, <2>3, <2>4 DEF Due, WriteAsked, WriteLeft
  <2>. QED BY <1>4, <2>1, <2>2, <2>5 DEF Debt
<1>. QED BY <1>10, <1>11

\* Going on in the sweep keeps FirstOpen: nothing is closed before the listening
\* socket, the lowest number, was tested.
LEMMA FirstTest ==
  ASSUME LoopInv, FirstOpen, NextTest, ready' = ready, pc \in {"scan", "call", "rm"},
         pc = "scan" => sock' = sock
  PROVE  FirstOpen'
<1>1. i \in Nat /\ Listener \in Nat /\ what \in Kinds /\ ItemInv
  BY FdPositive DEF LoopInv, TypeOK
<1>2. CASE pc = "scan"
  <2>1. i' < Listener \/ (i' = Listener /\ what' # "write")
          => i < Listener \/ (i = Listener /\ what # "write")
    BY <1>1 DEF NextTest, Kinds
  <2>2. ReadyOpen => ReadyOpen'
    BY <1>2 DEF ReadyOpen
  <2>. QED BY <1>2, <2>1, <2>2 DEF FirstOpen
<1>3. CASE pc # "scan"
  <2>1. Listener <= i /\ (i = Listener => what = "read")
    BY <1>1, <1>3 DEF ItemInv
  <2>2. ~(i' < Listener \/ (i' = Listener /\ what' # "write"))
    BY <1>1, <2>1 DEF NextTest
  <2>. QED BY <2>2 DEF FirstOpen
<1>. QED BY <1>2, <1>3

\* The loop keeps FirstOpen unless select() fails.
LEMMA FirstOpenNext ==
  ASSUME LoopInv, ServerInv, FirstOpen, [ServerNext]_svars,
         ~SelectFails, ~ZeroBounds, ~AddListener
  PROVE  FirstOpen'
<1>. USE DEF shared, kernel, locals
<1>1. CASE SetSockets \/ SweepDone \/ Accept \/ Dispatch
  BY <1>1 DEF SetSockets, SweepDone, Accept, Dispatch, FirstOpen
<1>2. CASE SelectReturns
  <2>1. \A k \in Kinds : ready'[k] \subseteq ready[k]
    BY <1>2 DEF SelectReturns, Kinds
  <2>2. sock' = sock /\ ReadyOpen
    BY <1>2 DEF SelectReturns, BadFd, ReadyOpen
  <2>. QED BY <2>1, <2>2 DEF FirstOpen, ReadyOpen
<1>3. CASE Skip \/ NoRecord \/ AcceptFails
  <2>1. i \in Nat /\ Listener \in Nat
    BY FdPositive DEF LoopInv, TypeOK
  <2>2. NextTest /\ ready' = ready /\ pc = "scan" /\ sock' = sock
    BY <1>3, <2>1 DEF Skip, NoRecord, AcceptFails, AtListener, Sweeping, LoopInv, ItemInv
  <2>. QED BY <2>2, FirstTest
<1>4. CASE ServerHandler \/ ServerRm
  <2>1. \/ pc' = "rm"
        \/ NextTest /\ ready' = ready /\ pc \in {"call", "rm"}
    BY <1>4, HandlerImplements DEF Handler, HandlerEffect, ServerRm, RmHandled
  <2>2. CASE pc' = "rm"
    BY <2>2 DEF FirstOpen
  <2>. QED BY <2>1, <2>2, FirstTest
<1>5. ASSUME NEW c \in Conn, ProbeEnds(c) \/ ProbeAdds(c) PROVE FirstOpen'
  BY <1>5 DEF ProbeEnds, ProbeAdds, HelperAdds, vars, FirstOpen, ReadyOpen
<1>6. ASSUME NEW f \in Fd, Arrive(f) PROVE FirstOpen'
  BY <1>6 DEF Arrive, FirstOpen, ReadyOpen
<1>7. CASE UNCHANGED vars
  BY <1>7 DEF vars, FirstOpen, ReadyOpen
<1>. QED
  BY <1>1, <1>2, <1>3, <1>4, <1>5, <1>6, <1>7
  DEF ServerNext, ServerLoopStep, Quiet, Expire, Exited, svars

\* Every step keeps the debts, unless a thread is or was late.
LEMMA DebtNext ==
  ASSUME LoopInv, ServerInv, OpenInv, DebtInv, [ServerNext]_svars
  PROVE  DebtInv'
<1>. USE DEF shared, kernel, locals
<1>0. OneNumber' /\ OwnCall'
  BY StepImplements, NumbersNext DEF DebtInv
<1>. SUFFICES ASSUME ~late, ~late'
              PROVE  owed' \in [Conn -> Int] /\ FirstOpen' /\ \A c \in Conn : Debt(c)'
  <2>1. late => late'
    BY DEF ServerNext, ServerLoopStep, Quiet, ServerHandler, ServerRm, ProbeEnds, ProbeAdds,
           Expire, svars, server, Hello, HangUp, Ignore, BehindFirewall, RegisterProxy,
           GetProxy, ClientWrite, LastStep, Return, Reply
  <2>. QED BY <1>0, <2>1 DEF DebtInv
<1>1. /\ owed \in [Conn -> Int] /\ FirstOpen /\ \A c \in Conn : Debt(c)
      /\ OneNumber /\ OwnCall
  BY DEF DebtInv
<1>2. ~SelectFails /\ ~ZeroBounds /\ ~AddListener
  BY DEF SelectFails, ZeroBounds, AddListener, BadFd, OpenInv, WatchedOpen, ReadyOpen
<1>3. FirstOpen'
  BY <1>1, <1>2, FirstOpenNext
<1>4. CASE Quiet /\ ~Accept
  <2>1. hm' = hm /\ UNCHANGED <<cd, owed, helpers>>
    BY <1>2, <1>4
    DEF Quiet, SetSockets, SelectReturns, SweepDone, Skip, NoRecord, Dispatch, AcceptFails, server
  <2>2. Live' = Live
    BY <2>1 DEF Live
  <2>3. \A c \in Conn : Due(c)' => Due(c)
    BY <1>2, <1>4, QuietDue
  <2>4. ASSUME NEW c \in Conn PROVE Debt(c)'
    BY <1>1, <2>1, <2>2, <2>3, DebtSame DEF Debt
  <2>. QED BY <1>1, <1>3, <2>1, <2>4
<1>5. CASE Quiet /\ Accept
  <2>1. UNCHANGED server
    BY <1>5 DEF Quiet
  <2>. QED BY <1>1, <1>3, <1>5, <2>1, DebtAccept DEF server
<1>6. CASE ServerHandler
  BY <1>3, <1>6, DebtHandler
<1>7. CASE ServerRm
  <2>1. /\ RmHandled /\ helpers' = helpers
        /\ cd' = [c \in Conn |-> IF c \in Live' THEN cd[c] ELSE Fresh]
        /\ owed' = [c \in Conn |-> IF c \in Live' THEN owed[c] ELSE 0]
    BY <1>7 DEF ServerRm, RmHandled
  <2>2. Live' \subseteq Live
    BY <2>1 DEF RmHandled, Drop, Live
  <2>3. \A c \in Conn : Due(c)' => Due(c)
    BY <2>1, RmDue
  <2>4. ASSUME NEW c \in Conn PROVE Debt(c)'
    <3>1. c \in Live' => cd'[c] = cd[c] /\ owed'[c] = owed[c]
      BY <2>1
    <3>2. c \notin Live' => owed'[c] = 0
      BY <2>1
    <3>. QED BY <1>1, <2>1, <2>2, <2>3, <3>1, <3>2, DebtSame
  <2>5. owed' \in [Conn -> Int]
    BY <1>1, <2>1
  <2>. QED BY <1>3, <2>4, <2>5
<1>8. ASSUME NEW c \in Conn, ProbeEnds(c) PROVE \A b \in Conn : Debt(b)'
  <2>1. UNCHANGED <<vars, owed>>
    BY <1>8 DEF ProbeEnds
  <2>2. Live' = Live /\ \A b \in Conn : Due(b)' => Due(b)
    BY <2>1 DEF vars, Live, Due, WriteAsked, WriteLeft
  <2>3. cd \in [Conn -> Records]
    BY DEF ServerInv, Shaped
  <2>4. \A b \in Conn : cd'[b].type = cd[b].type /\ cd'[b].step = cd[b].step
    <3>1. \A y \in Records, n \in BOOLEAN :
            /\ [y EXCEPT !.tested = TRUE, !.need = n].type = y.type
            /\ [y EXCEPT !.tested = TRUE, !.need = n].step = y.step
      BY DEF Records
    <3>2. \/ cd' = cd
          \/ \E x \in Conn \cup Live, n \in BOOLEAN :
               cd' = [cd EXCEPT ![x] = [@ EXCEPT !.tested = TRUE, !.need = n]]
      BY <1>8 DEF ProbeEnds
    <3>3. ASSUME NEW x \in Conn \cup Live, NEW n \in BOOLEAN,
                 cd' = [cd EXCEPT ![x] = [@ EXCEPT !.tested = TRUE, !.need = n]],
                 NEW b \in Conn
          PROVE  cd'[b].type = cd[b].type /\ cd'[b].step = cd[b].step
      <4>1. cd'[b] = IF b = x THEN [cd[b] EXCEPT !.tested = TRUE, !.need = n] ELSE cd[b]
        BY <2>3, <3>3
      <4>2. cd[b] \in Records
        BY <2>3
      <4>. QED BY <3>1, <4>1, <4>2
    <3>. QED BY <3>2, <3>3
  <2>5. ASSUME NEW b \in Conn PROVE Debt(b)'
    BY <1>1, <2>1, <2>2, <2>4, DebtSame DEF Debt, vars
  <2>. QED BY <2>5
<1>9. ASSUME NEW c \in Conn, ProbeAdds(c) PROVE \A b \in Conn : Debt(b)'
  <2>1. /\ c \in Live /\ c \in helpers /\ helpers' = helpers \ {c}
        /\ UNCHANGED <<hm, sock, cd, owed, pc, i, what, ready, item, res>>
    BY <1>9 DEF ProbeAdds, HelperAdds
  <2>2. PICK f \in SockField(c) : master' = AddSocket(master, f, {"write"})
    BY <1>9 DEF ProbeAdds, HelperAdds
  <2>3. Live' = Live /\ sock[f] = c
    BY <2>1, <2>2 DEF Live, SockField
  <2>4. master'.set["write"] = master.set["write"] \cup {f}
    BY <2>2 DEF AddSocket, SetBits, Kinds
  <2>5. ASSUME NEW b \in Conn, b # c PROVE Debt(b)'
    <3>1. Due(b)' => Due(b)
      BY <2>1, <2>3, <2>4, <2>5 DEF Due, WriteAsked, WriteLeft
    <3>2. b \in helpers' <=> b \in helpers
      BY <2>1, <2>5
    <3>. QED BY <1>1, <2>1, <2>3, <3>1, <3>2, DebtSame DEF Debt
  <2>6. Debt(c)'
    <3>1. owed[c] >= 1 /\ owed[c] >= 0
      BY <1>1, <2>1 DEF Debt
    <3>2. cd[c].type # "unknown"
      BY <2>1 DEF ServerInv, Testing
    <3>. QED BY <2>1, <2>3, <3>1, <3>2 DEF Debt
  <2>. QED BY <2>5, <2>6
<1>10. CASE \/ \E f \in Fd : Arrive(f) /\ UNCHANGED server
            \/ \E k \in DOMAIN table : Expire(k)
            \/ UNCHANGED svars
            \/ Exited /\ UNCHANGED server
  <2>1. UNCHANGED <<master, hm, helpers, sock, pc, i, what, ready, item, res, cd, owed>>
    BY <1>10 DEF Arrive, Expire, Exited, svars, vars, server
  <2>2. Live' = Live /\ \A c \in Conn : Due(c)' => Due(c)
    BY <2>1 DEF Live, Due, WriteAsked, WriteLeft
  <2>3. ASSUME NEW c \in Conn PROVE Debt(c)'
    BY <1>1, <2>1, <2>2, DebtSame DEF Debt
  <2>. QED BY <1>1, <1>3, <2>1, <2>3
<1>11. \A c \in Conn : ProbeEnds(c) \/ ProbeAdds(c) => owed' = owed
  BY DEF ProbeEnds, ProbeAdds
<1>. QED
  BY <1>1, <1>3, <1>4, <1>5, <1>6, <1>7, <1>8, <1>9, <1>10, <1>11
  DEF ServerNext, ServerLoopStep

\* For every number of descriptors, connections and proxies: no client is sent
\* more answers than it asked for, unless a thread outlived its record.
THEOREM NoAnswerUnasked == ServerSpec => []NoExtraAnswer
<1>1. DebtInv => NoExtraAnswer
  BY DEF DebtInv, Debt, NoExtraAnswer
<1>2. ServerInit => LoopInv /\ ServerInv /\ OpenInv /\ DebtInv
  BY LoopInvInit, ServerInvInit, OpenInit, DebtInit
<1>3. LoopInv /\ ServerInv /\ OpenInv /\ DebtInv /\ [ServerNext]_svars
        => (LoopInv /\ ServerInv /\ OpenInv /\ DebtInv)'
  BY LoopInvNext, ServerInvNext, StepImplements, OpenNext, DebtNext
<1>. QED BY <1>1, <1>2, <1>3, PTL DEF ServerSpec
=============================================================================
