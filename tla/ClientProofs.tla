----------------------------- MODULE ClientProofs -----------------------------
(***************************************************************************)
(* A session of the client library, for any number of descriptors, proxies *)
(* and sockets at the proxy: no call leaves a descriptor open, proxy_bind()*)
(* only goes on with a link to the proxy the program knows, on which the   *)
(* client is authorized, or with the connection to the managing server     *)
(* that a stale number names; and what the pool has as bound is bound at   *)
(* the proxy.                                                              *)
(*                                                                         *)
(* The invariant has two layers.  Sound is about descriptors and the link  *)
(* and stands on its own; PoolOK, about the numbers of the sockets at the  *)
(* proxy, needs it, and fails once a Proxy-close names another socket.     *)
(* Steps that do the same to the link are collected in a relation (Drops,  *)
(* Opens, Passes) over which both layers are carried once.                 *)
(***************************************************************************)
EXTENDS Client, ValueProofs, FiniteSetTheorems
-----------------------------------------------------------------------------
(* Messages on their way *)

\* What a recv() leaves of a queue is a queue of later messages.
LEMMA TailOf ==
  ASSUME NEW q \in Seq(Msgs), NEW k \in 1..Len(q)
  PROVE  /\ Tail1(q, k) \in Seq(Msgs) /\ Len(Tail1(q, k)) = Len(q) - k
         /\ \A i \in 1..Len(q) - k : Tail1(q, k)[i] = q[i + k] /\ i + k \in 2..Len(q)
  BY DEF Tail1

\* A message that is sent goes to the end.
LEMMA SentLast ==
  ASSUME NEW q \in Seq(Msgs), NEW m \in Msgs
  PROVE  /\ Append(q, m) \in Seq(Msgs) /\ Len(Append(q, m)) = Len(q) + 1
         /\ \A i \in 1..Len(q) : Append(q, m)[i] = q[i]
         /\ Append(q, m)[Len(q) + 1] = m
  OBVIOUS

\* The numbers of sockets that messages of a kind in q name, each once.
Told(q, kind)    == {q[i].psock : i \in {j \in 1..Len(q) : q[j].kind = kind}} \cap PSocks
NoTwice(q, kind) ==
    \A i, j \in 1..Len(q) :
      q[i].kind = kind /\ q[j].kind = kind /\ q[i].psock = q[j].psock /\ q[i].psock \in PSocks => i = j

\* A recv() takes numbers away, that of the first message for good.
LEMMA ToldTail ==
  ASSUME NEW q \in Seq(Msgs), NEW k \in 1..Len(q), NEW kind
  PROVE  /\ Told(Tail1(q, k), kind) \subseteq Told(q, kind)
         /\ NoTwice(q, kind) => NoTwice(Tail1(q, k), kind)
         /\ NoTwice(q, kind) /\ q[1].kind = kind => q[1].psock \notin Told(Tail1(q, k), kind)
         /\ q[1].kind = kind /\ q[1].psock \in PSocks => q[1].psock \in Told(q, kind)
<1>. DEFINE t == Tail1(q, k)
<1>1. /\ t \in Seq(Msgs) /\ Len(t) = Len(q) - k
      /\ \A i \in 1..Len(q) - k : t[i] = q[i + k] /\ i + k \in 2..Len(q)
  BY TailOf
<1>2. Len(q) \in Nat /\ k >= 1 /\ k <= Len(q)
  OBVIOUS
<1>. HIDE DEF t
<1>3. Told(t, kind) \subseteq Told(q, kind)
  BY <1>1, <1>2 DEF Told
<1>4. NoTwice(q, kind) => NoTwice(t, kind)
  <2>1. ASSUME NoTwice(q, kind), NEW i \in 1..Len(t), NEW j \in 1..Len(t),
               t[i].kind = kind, t[j].kind = kind, t[i].psock = t[j].psock, t[i].psock \in PSocks
        PROVE  i = j
    <3>1. i \in 1..Len(q) - k /\ j \in 1..Len(q) - k
      BY <1>1
    <3>2. i + k \in 1..Len(q) /\ j + k \in 1..Len(q) /\ t[i] = q[i + k] /\ t[j] = q[j + k]
      BY <3>1, <1>1, <1>2
    <3>3. i + k = j + k
      BY <3>2, <2>1 DEF NoTwice
    <3>. QED BY <3>1, <3>3, <1>2
  <2>. QED BY <2>1 DEF NoTwice
<1>5. NoTwice(q, kind) /\ q[1].kind = kind => q[1].psock \notin Told(t, kind)
  <2>1. ASSUME NoTwice(q, kind), q[1].kind = kind, q[1].psock \in PSocks, NEW i \in 1..Len(t),
               t[i].kind = kind, t[i].psock = q[1].psock
        PROVE  FALSE
    <3>1. i \in 1..Len(q) - k
      BY <1>1
    <3>2. i + k \in 2..Len(q) /\ t[i] = q[i + k]
      BY <3>1, <1>1
    <3>3. 1 \in 1..Len(q) /\ i + k \in 1..Len(q)
      BY <3>2, <1>2
    <3>4. i + k = 1
      BY <3>2, <3>3, <2>1 DEF NoTwice
    <3>. QED BY <3>2, <3>4
  <2>. QED BY <2>1 DEF Told
<1>6. q[1].kind = kind /\ q[1].psock \in PSocks => q[1].psock \in Told(q, kind)
  BY <1>2 DEF Told
<1>. QED BY <1>3, <1>4, <1>5, <1>6 DEF t

\* A message of the kind adds its number, others none.
LEMMA ToldSent ==
  ASSUME NEW q \in Seq(Msgs), NEW m \in Msgs, NEW kind
  PROVE  /\ Told(Append(q, m), kind) =
              IF m.kind = kind THEN Told(q, kind) \cup ({m.psock} \cap PSocks) ELSE Told(q, kind)
         /\ NoTwice(q, kind) /\ (m.kind = kind => m.psock \notin Told(q, kind)) =>
              NoTwice(Append(q, m), kind)
<1>. DEFINE t == Append(q, m)
<1>1. /\ t \in Seq(Msgs) /\ Len(t) = Len(q) + 1 /\ t[Len(q) + 1] = m
      /\ \A i \in 1..Len(q) : t[i] = q[i]
  BY SentLast
<1>2. Len(q) \in Nat
  OBVIOUS
<1>. HIDE DEF t
<1>3. \A i : i \in 1..Len(t) <=> i \in 1..Len(q) \/ i = Len(q) + 1
  BY <1>1, <1>2
<1>4. Told(t, kind) \subseteq IF m.kind = kind THEN Told(q, kind) \cup ({m.psock} \cap PSocks) ELSE Told(q, kind)
  BY <1>1, <1>3 DEF Told
<1>5. Told(q, kind) \subseteq Told(t, kind)
  BY <1>1, <1>3 DEF Told
<1>6. m.kind = kind => {m.psock} \cap PSocks \subseteq Told(t, kind)
  BY <1>1, <1>3 DEF Told
<1>7. ASSUME NoTwice(q, kind), m.kind = kind => m.psock \notin Told(q, kind)
      PROVE  NoTwice(t, kind)
  <2>1. ASSUME NEW i \in 1..Len(q), NEW j \in 1..Len(t), t[i].kind = kind, t[j].kind = kind,
               t[i].psock = t[j].psock, t[i].psock \in PSocks
        PROVE  i = j
    BY <2>1, <1>1, <1>3, <1>7 DEF NoTwice, Told
  <2>. QED BY <2>1, <1>3, <1>1 DEF NoTwice
<1>. QED BY <1>4, <1>5, <1>6, <1>7 DEF t
-----------------------------------------------------------------------------
(* The link and the descriptors *)

\* A message that the library sends is the last one on its way, if the proxy
\* has the link open.
LEMMA UpKeeps ==
  ASSUME NEW l \in Links, NEW kind \in MsgKinds, NEW n \in PSocks \cup {Foreign}
  PROVE  /\ Up(l, kind, n) \in Links
         /\ Up(l, kind, n) = [l EXCEPT !.up = IF l.open THEN Append(l.up, Msg(kind, n)) ELSE l.up]
         /\ Msg(kind, n) \in Msgs
<1>1. Msg(kind, n) \in Msgs
  BY DEF Msg, Msgs
<1>2. l.up \in Seq(Msgs)
  BY DEF Links, Msgs
<1>3. Append(l.up, Msg(kind, n)) \in Seq(Msgs)
  BY <1>1, <1>2
<1>4. (IF l.open THEN Append(l.up, Msg(kind, n)) ELSE l.up) \in Seq(Msgs)
  BY <1>2, <1>3
<1>. QED BY <1>1, <1>4 DEF Up, Links, Msgs

\* ... and so is one that the proxy sends.
LEMMA DownKeeps ==
  ASSUME NEW l \in Links, NEW kind \in MsgKinds, NEW n \in PSocks \cup {Foreign}
  PROVE  /\ Down(l, kind, n) \in Links
         /\ Down(l, kind, n) = [l EXCEPT !.down = Append(l.down, Msg(kind, n))]
         /\ Msg(kind, n) \in Msgs
<1>1. Msg(kind, n) \in Msgs
  BY DEF Msg, Msgs
<1>2. l.down \in Seq(Msgs)
  BY DEF Links, Msgs
<1>3. Append(l.down, Msg(kind, n)) \in Seq(Msgs)
  BY <1>1, <1>2
<1>. QED BY <1>1, <1>3 DEF Down, Links, Msgs

\* A recv() changes the queue only.
LEMMA TakesKeep ==
  ASSUME link \in Links, NEW k
  PROVE  /\ k \in 1..Len(link.down) => After(k) \in Links
         /\ k \in 1..Len(link.up) => [link EXCEPT !.up = Tail1(@, k)] \in Links
<1>1. link.down \in Seq(Msgs) /\ link.up \in Seq(Msgs)
  BY DEF Links, Msgs
<1>2. k \in 1..Len(link.down) => Tail1(link.down, k) \in Seq(Msgs)
  BY <1>1, TailOf
<1>3. k \in 1..Len(link.up) => Tail1(link.up, k) \in Seq(Msgs)
  BY <1>1, TailOf
<1>. QED BY <1>2, <1>3 DEF Links, After

\* The end of the link changes neither its number nor what the proxy has sent.
LEMMA HungUpKeeps ==
  ASSUME NEW l \in Links
  PROVE  /\ HungUp(l) \in Links
         /\ HungUp(l).fd = l.fd /\ HungUp(l).to = l.to /\ HungUp(l).down = l.down
         /\ HungUp(l).authorized = l.authorized /\ ~HungUp(l).open /\ HungUp(l).udp = {}
<1>1. <<>> \in Seq(Msgs)
  OBVIOUS
<1>. QED BY <1>1 DEF Links, HungUp

\* No link is a link, too.
LEMMA NoLinkTyped == NoLink \in Links
<1>1. <<>> \in Seq(Msgs)
  OBVIOUS
<1>. QED BY <1>1 DEF Links, NoLink

\* What a closed or forgotten descriptor is, and what the pool keeps.
LEMMA UsedKeeps ==
  ASSUME NEW c \in Clients, NEW F, NEW use \in Uses
  PROVE  /\ Used(c, F, use) \in Clients
         /\ \A n \in Nums : Used(c, F, use).fd[n] = IF n \in F THEN use ELSE c.fd[n]
         /\ Used(c, F, use).pool = c.pool /\ Used(c, F, use).addr = c.addr
         /\ Used(c, F, use).behind = c.behind /\ Used(c, F, use).proxy = c.proxy
         /\ Used(c, F, use).keys = c.keys
<1>1. [n \in Nums |-> IF n \in F THEN use ELSE c.fd[n]] \in [Nums -> Uses]
  BY DEF Clients
<1>. QED BY <1>1 DEF Used, Clients

\* Without the link no socket of the pool is bound there.
LEMMA UnlinkedKeeps ==
  ASSUME NEW c \in Clients
  PROVE  /\ Unlinked(c) \in Clients
         /\ Unlinked(c).fd = c.fd /\ Unlinked(c).addr = c.addr /\ Unlinked(c).behind = c.behind
         /\ Unlinked(c).proxy = c.proxy /\ Unlinked(c).keys = c.keys
         /\ \A n \in Nums : /\ Unlinked(c).pool[n].psock \notin PSocks
                            /\ c.pool[n] \in Items => Unlinked(c).pool[n] \in Items
<1>. DEFINE item(n) == IF c.pool[n].psock \in PSocks THEN [c.pool[n] EXCEPT !.psock = Foreign] ELSE c.pool[n]
            pool == [n \in Nums |-> item(n)]
<1>1. ASSUME NEW n \in Nums
      PROVE  /\ item(n) \in Items \cup {NoItem} /\ item(n).psock \notin PSocks
             /\ c.pool[n] \in Items => item(n) \in Items
  <2>1. c.pool[n] \in Items \cup {NoItem}
    BY DEF Clients
  <2>2. NoFd \notin PSocks /\ Foreign \notin PSocks
    BY NamesAssumption
  <2>. QED BY <2>1, <2>2 DEF Items, NoItem
<1>2. pool \in [Nums -> Items \cup {NoItem}]
  BY <1>1
<1>3. Unlinked(c) = [c EXCEPT !.pool = pool]
  BY DEF Unlinked
<1>. HIDE DEF item
<1>4. \A n \in Nums : pool[n] = item(n)
  OBVIOUS
<1>. HIDE DEF pool
<1>. QED BY <1>1, <1>2, <1>3, <1>4 DEF Clients
-----------------------------------------------------------------------------
(* The invariant *)

\* The types of the program, the call, the link and the history; the pool knows
\* the sockets of the program.
TypesOK ==
    /\ cl \in Clients /\ call \in Calls /\ link \in Links /\ hist \in Histories
    /\ \A n \in Nums : cl.fd[n] \in {"app", "named"} => cl.pool[n] \in Items

\* The descriptors of a call and of the link are those that the call and the
\* link name; a call that has not opened test_sock and my_sock names none.
DescriptorsOK ==
    /\ \A n \in Nums : /\ cl.fd[n] = "test" => call.test = n
                       /\ cl.fd[n] = "server" => call.server = n
                       /\ cl.fd[n] = "link" => link.fd = n
    /\ call.test = NoFd => call.server = NoFd
    /\ call.at \in {"idle", "loop", "ask", "pong", "local", "wait"} => call.test = NoFd

\* proxy is the number of a link that was closed, of a socket in one of the
\* uses U by now.
Names(U) == hist.stale /\ cl.proxy \in Nums /\ cl.fd[cl.proxy] \in U

\* The variable proxy is the link, if there is one, to the proxy whose address
\* is known; where the call is says if there is one; OK from the proxy means
\* that the client is authorized there.  A call that waits on another connection,
\* or has taken one for the link, names one to the managing server, in the end
\* one that no call has any more.
LinkOK ==
    /\ link.fd # NoFd => cl.proxy = link.fd /\ link.to = cl.addr /\ cl.addr \in Proxies
    /\ link.fd = NoFd => link = NoLink
    /\ call.at \in {"ask", "asking", "try", "stale"} => link.fd = NoFd
    /\ call.at \in {"pong", "hello", "auth1", "auth2"} => link.fd # NoFd
    /\ call.at = "stale" => Names({"server", "conn"})
    /\ call.at \in {"local", "wait"} /\ cl.behind => link.fd # NoFd \/ Names({"conn"})
    /\ \A i \in 1..Len(link.down) : link.down[i].kind = "ok" => link.authorized
    /\ cl.keys /\ link.open /\ call.at \notin {"hello", "auth1", "auth2"} => link.authorized

Sound == TypesOK /\ DescriptorsOK /\ LinkOK

\* No socket of the pool is bound on the link.
Unbound(c) == \A n \in Nums : c.pool[n].psock \notin PSocks

\* There is no link any more, and if there was one, no socket is bound on it.
Drops == /\ link' = NoLink
         /\ Unbound(cl) \/ link.fd # NoFd => Unbound(cl')

\* NoFd names no descriptor and is none of the numbers at the proxy.
LEMMA NoFdFacts == NoFd \notin Nums /\ NoFd \notin PSocks /\ Foreign \notin PSocks /\ NULL \notin Proxies
                   /\ Self \notin Proxies /\ NoProxy \notin Proxies
  BY NumsAssumption, NamesAssumption

\* closesocket() frees the descriptors, and the pool forgets the link with it.
LEMMA CloseFdsGives ==
  ASSUME link \in Links, NEW c \in Clients, NEW F, CloseFds(c, F)
  PROVE  /\ cl' \in Clients /\ link' \in Links
         /\ \A n \in Nums : cl'.fd[n] = IF n \in F THEN "free" ELSE c.fd[n]
         /\ cl'.addr = c.addr /\ cl'.behind = c.behind /\ cl'.proxy = c.proxy /\ cl'.keys = c.keys
         /\ link' = IF link.fd \in F THEN NoLink ELSE link
         /\ \A n \in Nums : c.pool[n] \in Items => cl'.pool[n] \in Items
         /\ Unbound(c) \/ link.fd \in F => Unbound(cl')
<1>. DEFINE d == Used(c, F, "free")
<1>1. /\ d \in Clients /\ (\A n \in Nums : d.fd[n] = IF n \in F THEN "free" ELSE c.fd[n])
      /\ d.pool = c.pool /\ d.addr = c.addr /\ d.behind = c.behind /\ d.proxy = c.proxy /\ d.keys = c.keys
  BY UsedKeeps DEF Uses
<1>2. /\ Unlinked(d) \in Clients
      /\ Unlinked(d).fd = d.fd /\ Unlinked(d).addr = d.addr /\ Unlinked(d).behind = d.behind
      /\ Unlinked(d).proxy = d.proxy /\ Unlinked(d).keys = d.keys
      /\ \A n \in Nums : /\ Unlinked(d).pool[n].psock \notin PSocks
                         /\ d.pool[n] \in Items => Unlinked(d).pool[n] \in Items
  BY <1>1, UnlinkedKeeps
<1>3. NoLink \in Links
  BY NoLinkTyped
<1>4. \/ link.fd \in F /\ cl' = Unlinked(d) /\ link' = NoLink
      \/ link.fd \notin F /\ cl' = d /\ link' = link
  BY DEF CloseFds, Closed
<1>. HIDE DEF d
<1>5. CASE link.fd \in F /\ cl' = Unlinked(d) /\ link' = NoLink
  BY <1>1, <1>2, <1>3, <1>5 DEF Unbound
<1>6. CASE link.fd \notin F /\ cl' = d /\ link' = link
  BY <1>1, <1>6 DEF Unbound
<1>. QED BY <1>4, <1>5, <1>6

\* Forgetting the link is like closing it, but for the descriptor.
LEMMA LeakLinkGives ==
  ASSUME Sound, NEW c \in Clients, c.fd = cl.fd, c.pool = cl.pool, LeakLink(c)
  PROVE  /\ cl' \in Clients /\ Drops
         /\ \A n \in Nums : cl'.fd[n] = IF n = link.fd THEN "leak" ELSE cl.fd[n]
         /\ cl'.addr = c.addr /\ cl'.behind = c.behind /\ cl'.proxy = c.proxy /\ cl'.keys = c.keys
         /\ \A n \in Nums : cl.pool[n] \in Items => cl'.pool[n] \in Items
<1>. DEFINE d == Used(c, {link.fd}, "leak")
<1>1. /\ d \in Clients /\ (\A n \in Nums : d.fd[n] = IF n \in {link.fd} THEN "leak" ELSE c.fd[n])
      /\ d.pool = c.pool /\ d.addr = c.addr /\ d.behind = c.behind /\ d.proxy = c.proxy /\ d.keys = c.keys
  BY UsedKeeps DEF Uses
<1>2. /\ Unlinked(d) \in Clients
      /\ Unlinked(d).fd = d.fd /\ Unlinked(d).addr = d.addr /\ Unlinked(d).behind = d.behind
      /\ Unlinked(d).proxy = d.proxy /\ Unlinked(d).keys = d.keys
      /\ \A n \in Nums : /\ Unlinked(d).pool[n].psock \notin PSocks
                         /\ d.pool[n] \in Items => Unlinked(d).pool[n] \in Items
  BY <1>1, UnlinkedKeeps
<1>3. \/ link.fd = NoFd /\ cl' = c /\ link' = link /\ link = NoLink
      \/ link.fd # NoFd /\ cl' = Unlinked(d) /\ link' = NoLink
  BY DEF LeakLink, Sound, LinkOK
<1>4. cl.fd \in [Nums -> Uses]
  BY DEF Sound, TypesOK, Clients
<1>. HIDE DEF d
<1>5. CASE link.fd = NoFd /\ cl' = c /\ link' = link /\ link = NoLink
  BY <1>5, <1>4, NoFdFacts DEF Unbound, Drops
<1>6. CASE link.fd # NoFd /\ cl' = Unlinked(d) /\ link' = NoLink
  BY <1>1, <1>2, <1>6 DEF Unbound, Drops
<1>. QED BY <1>3, <1>5, <1>6

\* What a call leaves of a descriptor when it ends.
Left == {"free", "leak", "conn", "half"}

\* A step that leaves no link, and of the descriptors of a call none or those
\* that the call still names, keeps the invariant.
LEMMA Settles ==
  ASSUME Sound, hist' \in Histories, cl' \in Clients, call' \in Calls, Drops,
         \A n \in Nums : cl.pool[n] \in Items => cl'.pool[n] \in Items,
         \A n \in Nums : cl'.fd[n] \in {cl.fd[n]} \cup Left /\ cl'.fd[n] # "link",
         \/ call'.test = call.test /\ call'.server = call.server
         \/ /\ call'.test = NoFd /\ call'.server = NoFd
            /\ \A n \in Nums : cl'.fd[n] \notin {"test", "server"},
         call'.at \in {"idle", "loop", "ask", "asking"},
         call'.at # "asking" => call'.test = NoFd
  PROVE  Sound'
<1>1. NoLink \in Links /\ NoLink.fd = NoFd /\ ~NoLink.open /\ Len(NoLink.down) = 0
  BY NoLinkTyped DEF NoLink
<1>2. link' = NoLink
  BY DEF Drops
<1>3. TypesOK'
  BY <1>1, <1>2 DEF Sound, TypesOK, Left
<1>4. DescriptorsOK'
  <2>1. \A n \in Nums : /\ cl'.fd[n] \in {"test", "server"} => cl'.fd[n] = cl.fd[n]
                        /\ cl'.fd[n] # "link"
    BY DEF Left
  <2>. QED BY <2>1 DEF Sound, DescriptorsOK
<1>5. LinkOK'
  BY <1>1, <1>2 DEF LinkOK
<1>. QED BY <1>3, <1>4, <1>5 DEF Sound

\* What Goto and Idle are.
LEMMA GotoGives ==
  ASSUME call \in Calls,
         NEW label \in {"idle", "loop", "ask", "asking", "try", "pong", "hello", "auth1", "auth2",
                        "stale", "local", "wait", "stuck"}
  PROVE  /\ Goto(label) \in Calls /\ Goto(label).at = label
         /\ Goto(label).test = call.test /\ Goto(label).server = call.server
         /\ [Goto(label) EXCEPT !.test = NoFd, !.server = NoFd] \in Calls
         /\ [Goto(label) EXCEPT !.test = NoFd, !.server = NoFd].at = label
         /\ [Goto(label) EXCEPT !.test = NoFd, !.server = NoFd].test = NoFd
         /\ [Goto(label) EXCEPT !.test = NoFd, !.server = NoFd].server = NoFd
  BY DEF Goto, Calls

\* Messages that are thrown away change only what is known of it.
LEMMA LosingGives ==
  ASSUME call \in Calls, NEW q, NEW k
  PROVE  /\ Losing(q, k) \in Calls /\ Losing(q, k).at = call.at
         /\ Losing(q, k).test = call.test /\ Losing(q, k).server = call.server
         /\ Losing(q, k).sock = call.sock
         /\ [Losing(q, k) EXCEPT !.at = "local"] \in Calls
         /\ [Losing(q, k) EXCEPT !.at = "local"].at = "local"
         /\ [Losing(q, k) EXCEPT !.at = "local"].test = call.test
         /\ [Losing(q, k) EXCEPT !.at = "local"].server = call.server
<1>1. (call.lost \/ \E j \in 2..k : q[j].kind \notin {"beat", "over"}) \in BOOLEAN
  BY DEF Calls
<1>2. Losing(q, k) = [call EXCEPT !.lost = call.lost \/ \E j \in 2..k : q[j].kind \notin {"beat", "over"}]
  BY DEF Losing
<1>. QED BY <1>1, <1>2 DEF Calls

\* An idle call has no sockets of its own.
LEMMA IdleGives == Idle \in Calls /\ Idle.at = "idle" /\ Idle.test = NoFd /\ Idle.server = NoFd
  BY DEF Idle, Calls

\* A refused connection is closed, and the server is asked next, or again, or the
\* call ends.
LEMMA RefusedKeeps ==
  ASSUME Sound, hist' \in Histories,
         NEW c \in Clients, c.fd = cl.fd, c.pool = cl.pool,
         NEW F, link.fd # NoFd => link.fd \in F, Refused(c, F)
  PROVE  Sound' /\ Drops
<1>. DEFINE d == [c EXCEPT !.addr = NULL]
<1>1. link \in Links /\ call \in Calls /\ (link.fd = NoFd => link = NoLink)
  BY DEF Sound, TypesOK, LinkOK
<1>2. d \in Clients /\ d.fd = cl.fd /\ d.pool = cl.pool
  BY DEF Clients
<1>3. \A n \in Nums : cl.fd[n] = "link" => n \in F
  BY NoFdFacts DEF Sound, DescriptorsOK
<1>4. (Unbound(c) <=> Unbound(cl)) /\ (Unbound(d) <=> Unbound(cl))
  BY <1>2 DEF Unbound
<1>. HIDE DEF d
<1>5. CASE ~Asking /\ CloseFds(c, F) /\ call' = Goto("ask")
  <2>1. /\ cl' \in Clients /\ link' \in Links
        /\ \A n \in Nums : cl'.fd[n] = IF n \in F THEN "free" ELSE c.fd[n]
        /\ link' = IF link.fd \in F THEN NoLink ELSE link
        /\ \A n \in Nums : c.pool[n] \in Items => cl'.pool[n] \in Items
        /\ Unbound(c) \/ link.fd \in F => Unbound(cl')
    BY <1>1, <1>5, CloseFdsGives
  <2>2. Drops
    BY <2>1, <1>1, <1>4 DEF Drops
  <2>3. /\ call' \in Calls /\ call'.at = "ask" /\ call'.test = call.test /\ call'.server = call.server
        /\ call'.test = NoFd
    BY <1>1, <1>5, GotoGives DEF Asking
  <2>4. \A n \in Nums : cl'.fd[n] \in {cl.fd[n]} \cup Left /\ cl'.fd[n] # "link"
    BY <2>1, <1>3 DEF Left
  <2>. QED BY <2>1, <2>2, <2>3, <2>4, Settles
<1>6. CASE CloseFds(d, F) /\ call' = Goto("asking")
  <2>1. /\ cl' \in Clients /\ link' \in Links
        /\ \A n \in Nums : cl'.fd[n] = IF n \in F THEN "free" ELSE d.fd[n]
        /\ link' = IF link.fd \in F THEN NoLink ELSE link
        /\ \A n \in Nums : d.pool[n] \in Items => cl'.pool[n] \in Items
        /\ Unbound(d) \/ link.fd \in F => Unbound(cl')
    BY <1>1, <1>2, <1>6, CloseFdsGives
  <2>2. Drops
    BY <2>1, <1>1, <1>4 DEF Drops
  <2>3. call' \in Calls /\ call'.at = "asking" /\ call'.test = call.test /\ call'.server = call.server
    BY <1>1, <1>6, GotoGives
  <2>4. \A n \in Nums : cl'.fd[n] \in {cl.fd[n]} \cup Left /\ cl'.fd[n] # "link"
    BY <2>1, <1>2, <1>3 DEF Left
  <2>. QED BY <2>1, <2>2, <2>3, <2>4, <1>2, Settles
<1>7. CASE CloseFds(d, F \cup AskSockets) /\ call' = Idle
  <2>. DEFINE G == F \cup AskSockets
  <2>1. /\ cl' \in Clients /\ link' \in Links
        /\ \A n \in Nums : cl'.fd[n] = IF n \in G THEN "free" ELSE d.fd[n]
        /\ link' = IF link.fd \in G THEN NoLink ELSE link
        /\ \A n \in Nums : d.pool[n] \in Items => cl'.pool[n] \in Items
        /\ Unbound(d) \/ link.fd \in G => Unbound(cl')
    BY <1>1, <1>2, <1>7, CloseFdsGives
  <2>2. Drops
    BY <2>1, <1>1, <1>4 DEF Drops
  <2>3. call' \in Calls /\ call'.at = "idle" /\ call'.test = NoFd /\ call'.server = NoFd
    BY <1>7, IdleGives
  <2>4. \A n \in Nums : cl'.fd[n] \in {cl.fd[n]} \cup Left /\ cl'.fd[n] # "link"
    BY <2>1, <1>2, <1>3 DEF Left
  <2>5. \A n \in Nums : cl'.fd[n] \notin {"test", "server"}
    BY <2>1, <1>2 DEF Sound, DescriptorsOK, AskSockets
  <2>. QED BY <2>1, <2>2, <2>3, <2>4, <2>5, <1>2, Settles
<1>. QED BY <1>5, <1>6, <1>7 DEF Refused, d

\* ask_for_proxy() ends only where its sockets are closed or forgotten.
LEMMA AskReturnsKeeps ==
  ASSUME Sound, hist' \in Histories, link.fd = NoFd,
         NEW c \in Clients, c.pool = cl.pool, NEW F, NEW G,
         \A n \in Nums : /\ c.fd[n] \in {cl.fd[n]} \cup Left
                         /\ cl.fd[n] \in {"test", "server"} => n \in F \cup G \/ c.fd[n] \in Left,
         AskReturns(c, F, G)
  PROVE  Sound' /\ Drops
<1>. DEFINE d == Used(c, G, "leak")
<1>1. link \in Links /\ call \in Calls /\ link = NoLink
  BY DEF Sound, TypesOK, LinkOK
<1>2. d \in Clients /\ (\A n \in Nums : d.fd[n] = IF n \in G THEN "leak" ELSE c.fd[n]) /\ d.pool = cl.pool
  BY UsedKeeps DEF Uses
<1>3. Unbound(d) <=> Unbound(cl)
  BY <1>2 DEF Unbound
<1>4. CloseFds(d, F) /\ call' = Idle
  BY DEF AskReturns
<1>. HIDE DEF d
<1>5. /\ cl' \in Clients /\ link' \in Links
      /\ \A n \in Nums : cl'.fd[n] = IF n \in F THEN "free" ELSE d.fd[n]
      /\ link' = IF link.fd \in F THEN NoLink ELSE link
      /\ \A n \in Nums : d.pool[n] \in Items => cl'.pool[n] \in Items
      /\ Unbound(d) \/ link.fd \in F => Unbound(cl')
  BY <1>1, <1>2, <1>4, CloseFdsGives
<1>6. Drops
  BY <1>5, <1>1, <1>3 DEF Drops
<1>7. call' \in Calls /\ call'.at = "idle" /\ call'.test = NoFd /\ call'.server = NoFd
  BY <1>4, IdleGives
<1>8. \A n \in Nums : cl.fd[n] # "link"
  BY NoFdFacts DEF Sound, DescriptorsOK
<1>9. \A n \in Nums : cl'.fd[n] \in {cl.fd[n]} \cup Left /\ cl'.fd[n] \notin {"link", "test", "server"}
  BY <1>5, <1>2, <1>8 DEF Left
<1>. QED BY <1>5, <1>6, <1>7, <1>9, <1>2, Settles

\* A connection that is accepted is the link, and the sockets of ask_for_proxy()
\* are closed.
LEMMA AcceptedKeeps ==
  ASSUME Sound, hist' \in Histories, NEW l \in Links, Accepted(l),
         l.fd = link.fd, l.to = link.to, l.open = link.open, l.authorized = link.authorized,
         l.fd = NoFd => l = NoLink,
         \A i \in 1..Len(l.down) : l.down[i].kind = "ok" => l.authorized,
         cl.behind => link.fd # NoFd \/ Names({"server", "conn"}), hist.stale => hist'.stale,
         cl.keys /\ link.open => link.authorized
  PROVE  Sound' /\ link' = l /\ cl'.pool = cl.pool
<1>. DEFINE d == Used(cl, AskSockets, "free")
<1>1. /\ d \in Clients /\ (\A n \in Nums : d.fd[n] = IF n \in AskSockets THEN "free" ELSE cl.fd[n])
      /\ d.pool = cl.pool /\ d.addr = cl.addr /\ d.behind = cl.behind
      /\ d.proxy = cl.proxy /\ d.keys = cl.keys
  BY UsedKeeps DEF Uses, Sound, TypesOK
<1>2. call \in Calls /\ Sound
  BY DEF Sound, TypesOK
<1>3. link' = l
  BY DEF Accepted
<1>. HIDE DEF d
<1>4. /\ cl' \in Clients /\ cl'.pool = cl.pool /\ cl'.addr = cl.addr /\ cl'.behind = cl.behind
      /\ cl'.proxy = cl.proxy /\ cl'.keys = cl.keys
      /\ call' \in Calls /\ call'.at \in {"local", "loop", "idle"}
      /\ call'.test = NoFd /\ call'.server = NoFd
      /\ call'.at = "local" => cl'.fd = cl.fd
      /\ \A n \in Nums : cl'.fd[n] \in {cl.fd[n], "free"} /\ cl'.fd[n] \notin {"test", "server"}
  <2>1. CASE ~Asking /\ call' = Goto("local") /\ UNCHANGED cl
    <3>1. call.test = NoFd /\ call.server = NoFd
      BY <2>1 DEF Asking, Sound, DescriptorsOK
    <3>2. \A n \in Nums : cl.fd[n] \notin {"test", "server"}
      BY <3>1, NoFdFacts DEF Sound, DescriptorsOK
    <3>3. /\ call' \in Calls /\ call'.at = "local" /\ call'.test = NoFd /\ call'.server = NoFd
      BY <3>1, <2>1, <1>2, GotoGives
    <3>. QED BY <3>2, <3>3, <2>1 DEF Sound, TypesOK
  <2>2. CASE cl' = d /\ (call' = [Goto("loop") EXCEPT !.test = NoFd, !.server = NoFd] \/ call' = Idle)
    <3>1. /\ [Goto("loop") EXCEPT !.test = NoFd, !.server = NoFd] \in Calls
          /\ [Goto("loop") EXCEPT !.test = NoFd, !.server = NoFd].at = "loop"
          /\ [Goto("loop") EXCEPT !.test = NoFd, !.server = NoFd].test = NoFd
          /\ [Goto("loop") EXCEPT !.test = NoFd, !.server = NoFd].server = NoFd
      BY <1>2, GotoGives
    <3>2. call' \in Calls /\ call'.at \in {"loop", "idle"} /\ call'.test = NoFd /\ call'.server = NoFd
      BY ONLY <2>2, <3>1, IdleGives
    <3>3. \A n \in Nums : cl'.fd[n] \in {cl.fd[n], "free"} /\ cl'.fd[n] \notin {"test", "server"}
      BY <2>2, <1>1 DEF Sound, DescriptorsOK, AskSockets
    <3>. QED BY <3>2, <3>3, <2>2, <1>1
  <2>. QED BY <2>1, <2>2 DEF Accepted, Closed, d
<1>5. TypesOK'
  BY <1>3, <1>4 DEF Sound, TypesOK
<1>6. DescriptorsOK'
  BY <1>3, <1>4 DEF Sound, DescriptorsOK
<1>7. LinkOK'
  <2>1. call'.at = "local" /\ cl'.behind => link'.fd # NoFd \/ Names({"conn"})'
    BY <1>3, <1>4 DEF Names
  <2>. QED BY <2>1, <1>3, <1>4 DEF Sound, LinkOK
<1>. QED BY <1>3, <1>4, <1>5, <1>6, <1>7 DEF Sound
-----------------------------------------------------------------------------
(* Messages that leave the bindings as they are *)

\* OK from the proxy means that the client is authorized there.
OkMeans(l) == \A i \in 1..Len(l.down) : l.down[i].kind = "ok" => l.authorized

\* From l to m the link is the same, no socket of the client is made or closed,
\* and no Proxy-bound, Proxy-close or OK is sent that says something new.
Passes(l, m) ==
    /\ m \in Links
    /\ m.fd = l.fd /\ m.to = l.to /\ m.open = l.open /\ m.udp = l.udp
    /\ l.authorized => m.authorized
    /\ OkMeans(l) => OkMeans(m)
    /\ Told(m.down, "bound") \subseteq Told(l.down, "bound")
    /\ NoTwice(l.down, "bound") => NoTwice(m.down, "bound")
    /\ Told(m.up, "close") \subseteq Told(l.up, "close")
    /\ NoTwice(l.up, "close") => NoTwice(m.up, "close")

\* Such steps may follow one another.
LEMMA PassesOn ==
  ASSUME NEW l, NEW m, NEW o, Passes(l, m), Passes(m, o)
  PROVE  Passes(l, o)
  BY DEF Passes

\* ... and none may be taken.
LEMMA PassesSelf ==
  ASSUME NEW l \in Links
  PROVE  Passes(l, l)
  BY DEF Passes

\* A recv() at either end.
LEMMA TakenPasses ==
  ASSUME link \in Links, NEW k
  PROVE  /\ k \in 1..Len(link.down) => Passes(link, After(k))
         /\ k \in 1..Len(link.up) => Passes(link, [link EXCEPT !.up = Tail1(@, k)])
<1>1. link.down \in Seq(Msgs) /\ link.up \in Seq(Msgs)
  BY DEF Links
<1>2. ASSUME k \in 1..Len(link.down)
      PROVE  Passes(link, After(k))
  <2>. DEFINE t == Tail1(link.down, k)
  <2>1. After(k) \in Links
    BY <1>2, TakesKeep
  <2>2. /\ t \in Seq(Msgs) /\ Len(t) = Len(link.down) - k
        /\ \A i \in 1..Len(link.down) - k : t[i] = link.down[i + k] /\ i + k \in 2..Len(link.down)
    BY <1>1, <1>2, TailOf
  <2>3. Told(t, "bound") \subseteq Told(link.down, "bound") /\ (NoTwice(link.down, "bound") => NoTwice(t, "bound"))
    BY <1>1, <1>2, ToldTail
  <2>. HIDE DEF t
  <2>4. After(k) = [link EXCEPT !.down = t]
    BY DEF After, t
  <2>5. 2..Len(link.down) \subseteq 1..Len(link.down) /\ 1..Len(t) = 1..Len(link.down) - k
    BY <1>1, <2>2
  <2>6. /\ After(k).fd = link.fd /\ After(k).to = link.to /\ After(k).open = link.open
        /\ After(k).authorized = link.authorized /\ After(k).udp = link.udp /\ After(k).up = link.up
        /\ After(k).down = t
    BY <2>4 DEF Links
  <2>7. OkMeans(link) => OkMeans(After(k))
    BY <2>2, <2>5, <2>6 DEF OkMeans
  <2>. QED BY <2>1, <2>3, <2>6, <2>7 DEF Passes
<1>3. ASSUME k \in 1..Len(link.up)
      PROVE  Passes(link, [link EXCEPT !.up = Tail1(@, k)])
  <2>. DEFINE t == Tail1(link.up, k)
              m == [link EXCEPT !.up = Tail1(@, k)]
  <2>1. m \in Links
    BY <1>3, TakesKeep
  <2>2. Told(t, "close") \subseteq Told(link.up, "close") /\ (NoTwice(link.up, "close") => NoTwice(t, "close"))
    BY <1>1, <1>3, ToldTail
  <2>3. /\ m.fd = link.fd /\ m.to = link.to /\ m.open = link.open
        /\ m.authorized = link.authorized /\ m.udp = link.udp /\ m.up = t
        /\ m.down = link.down
    BY DEF Links
  <2>. HIDE DEF t, m
  <2>4. OkMeans(link) => OkMeans(m)
    BY <2>3 DEF OkMeans
  <2>5. Passes(link, m)
    BY <2>1, <2>2, <2>3, <2>4 DEF Passes
  <2>. QED BY <2>5 DEF m
<1>. QED BY <1>2, <1>3

\* What has arrived is thrown away.
LEMMA ForgottenPasses ==
  ASSUME link \in Links
  PROVE  Passes(link, [link EXCEPT !.down = <<>>])
<1>. DEFINE m == [link EXCEPT !.down = <<>>]
<1>1. <<>> \in Seq(Msgs) /\ Len(<<>>) = 0
  OBVIOUS
<1>2. /\ m \in Links /\ m.fd = link.fd /\ m.to = link.to /\ m.open = link.open
      /\ m.authorized = link.authorized /\ m.udp = link.udp /\ m.up = link.up
      /\ m.down = <<>>
  BY <1>1 DEF Links
<1>. HIDE DEF m
<1>3. Told(m.down, "bound") = {} /\ NoTwice(m.down, "bound") /\ OkMeans(m)
  BY <1>1, <1>2 DEF Told, NoTwice, OkMeans
<1>4. Passes(link, m)
  BY <1>2, <1>3 DEF Passes
<1>. QED BY <1>4 DEF m

\* A message of the library but Proxy-close.
LEMMA UpPasses ==
  ASSUME NEW l \in Links, NEW kind \in MsgKinds \ {"close"}, NEW n \in PSocks \cup {Foreign}
  PROVE  Passes(l, Up(l, kind, n))
<1>. DEFINE m == Up(l, kind, n)
            q == Append(l.up, Msg(kind, n))
<1>1. m \in Links /\ m = [l EXCEPT !.up = IF l.open THEN q ELSE l.up] /\ Msg(kind, n) \in Msgs
  BY UpKeeps
<1>2. l.up \in Seq(Msgs) /\ Msg(kind, n).kind # "close"
  BY DEF Links, Msg
<1>3. Told(q, "close") = Told(l.up, "close") /\ (NoTwice(l.up, "close") => NoTwice(q, "close"))
  BY <1>1, <1>2, ToldSent
<1>. HIDE DEF m, q
<1>4. /\ m.fd = l.fd /\ m.to = l.to /\ m.open = l.open /\ m.authorized = l.authorized
      /\ m.udp = l.udp /\ m.down = l.down /\ m.up \in {q, l.up}
  BY <1>1 DEF Links
<1>5. OkMeans(l) => OkMeans(m)
  BY <1>4 DEF OkMeans
<1>6. Passes(l, m)
  BY <1>1, <1>3, <1>4, <1>5 DEF Passes
<1>. QED BY <1>6 DEF m

\* A message of the proxy but Proxy-bound; OK only if the client is authorized.
LEMMA DownPasses ==
  ASSUME NEW l \in Links, NEW kind \in MsgKinds \ {"bound"}, NEW n \in PSocks \cup {Foreign},
         kind = "ok" => l.authorized
  PROVE  Passes(l, Down(l, kind, n))
<1>. DEFINE m == Down(l, kind, n)
            q == Append(l.down, Msg(kind, n))
<1>1. m \in Links /\ m = [l EXCEPT !.down = q] /\ Msg(kind, n) \in Msgs
  BY DownKeeps
<1>2. l.down \in Seq(Msgs) /\ Msg(kind, n).kind = kind
  BY DEF Links, Msg
<1>3. Told(q, "bound") = Told(l.down, "bound") /\ (NoTwice(l.down, "bound") => NoTwice(q, "bound"))
  BY <1>1, <1>2, ToldSent
<1>4. Len(q) = Len(l.down) + 1 /\ (\A i \in 1..Len(l.down) : q[i] = l.down[i]) /\ q[Len(l.down) + 1] = Msg(kind, n)
  BY <1>1, <1>2, SentLast
<1>. HIDE DEF m, q
<1>5. /\ m.fd = l.fd /\ m.to = l.to /\ m.open = l.open /\ m.authorized = l.authorized
      /\ m.udp = l.udp /\ m.up = l.up /\ m.down = q
  BY <1>1 DEF Links
<1>6. \A i \in 1..Len(q) : i \in 1..Len(l.down) \/ i = Len(l.down) + 1
  BY <1>2, <1>4
<1>7. OkMeans(l) => OkMeans(m)
  BY <1>2, <1>4, <1>5, <1>6 DEF OkMeans
<1>8. Passes(l, m)
  BY <1>1, <1>3, <1>5, <1>7 DEF Passes
<1>. QED BY <1>8 DEF m

\* Where messages arrive or the proxy listens, there is a link.
LEMMA LinkThere ==
  ASSUME Sound, link.open \/ Len(link.down) > 0
  PROVE  link.fd # NoFd
  BY DEF Sound, LinkOK, NoLink

\* A step that sends and receives keeps the invariant, if the call goes where it may.
LEMMA LinkStepKeeps ==
  ASSUME Sound, hist' \in Histories, cl' = cl, call' \in Calls, Passes(link, link'), link.fd # NoFd,
         call'.test = call.test, call'.server = call.server,
         call'.at \in {"idle", "loop", "pong", "local", "wait"} => call.test = NoFd,
         call'.at \notin {"ask", "asking", "try", "stale"},
         call'.at \notin {"hello", "auth1", "auth2"} /\ cl.keys /\ link.open => link'.authorized
  PROVE  Sound'
<1>1. TypesOK'
  BY DEF Sound, TypesOK, Passes
<1>2. DescriptorsOK'
  BY DEF Sound, DescriptorsOK, Passes
<1>3. LinkOK'
  BY DEF Sound, LinkOK, Passes, OkMeans
<1>. QED BY <1>1, <1>2, <1>3 DEF Sound
-----------------------------------------------------------------------------
(* Each step keeps the invariant *)

\* A number that is picked is one of those there are.
LEMMA LeastNumber ==
  ASSUME NEW S \in SUBSET Nums, S # {}
  PROVE  Min(S) \in S
  BY MinOfSet, NumsAssumption

\* The calls of the program: no descriptor of a call is open, and the link stays
\* what it is or goes.
LEMMA ProgramKeeps ==
  ASSUME Sound, Program
  PROVE  Sound'
<1>. USE DEF Sound
<1>0. /\ link \in Links /\ cl \in Clients /\ call \in Calls
      /\ cl.fd \in [Nums -> Uses] /\ cl.pool \in [Nums -> Items \cup {NoItem}]
  BY DEF TypesOK, Clients
<1>1. CASE Socket
  <2>. DEFINE new == {n \in Free : cl.pool[n] = NoItem}
              old == {n \in Free : \A m \in new : n < m}
              c   == Used(cl, old, "udp")
  <2>1. hist' = hist /\ link' = link /\ call.at = "idle"
    BY <1>1 DEF Socket, IsIdle
  <2>2. CASE new = {} /\ cl' = c /\ call' = Goto("stuck")
    <3>1. /\ cl' \in Clients /\ cl'.pool = cl.pool /\ cl'.addr = cl.addr /\ cl'.proxy = cl.proxy
          /\ cl'.behind = cl.behind /\ cl'.keys = cl.keys
          /\ \A n \in Nums : cl'.fd[n] \in {cl.fd[n], "udp"}
      BY <1>0, <2>2, UsedKeeps DEF Uses
    <3>2. call' \in Calls /\ call'.at = "stuck" /\ call'.test = call.test /\ call'.server = call.server
      BY <1>0, <2>2, GotoGives
    <3>3. TypesOK'
      BY <2>1, <3>1, <3>2 DEF TypesOK
    <3>4. DescriptorsOK'
      BY <2>1, <3>1, <3>2 DEF DescriptorsOK
    <3>5. LinkOK'
      BY <2>1, <3>1, <3>2 DEF LinkOK
    <3>. QED BY <3>3, <3>4, <3>5
  <2>3. CASE new # {} /\ cl' = [c EXCEPT !.fd[Min(new)] = "app", !.pool[Min(new)] = NewItem] /\ call' = call
    <3>. DEFINE n == Min(new)
    <3>1. n \in Nums
      BY <2>3, LeastNumber DEF Free
    <3>2. NewItem \in Items /\ {"app"} \subseteq Uses
      BY DEF NewItem, Items, Uses
    <3>3. /\ c \in Clients /\ c.addr = cl.addr /\ c.proxy = cl.proxy /\ c.behind = cl.behind
          /\ c.keys = cl.keys /\ c.pool = cl.pool /\ \A m \in Nums : c.fd[m] \in {cl.fd[m], "udp"}
      BY <1>0, UsedKeeps DEF Uses
    <3>4. cl' = [c EXCEPT !.fd = [c.fd EXCEPT ![n] = "app"], !.pool = [c.pool EXCEPT ![n] = NewItem]]
      BY <2>3
    <3>. HIDE DEF n, c
    <3>5. c.fd \in [Nums -> Uses] /\ c.pool \in [Nums -> Items \cup {NoItem}]
      BY <3>3 DEF Clients
    <3>6. /\ [c.fd EXCEPT ![n] = "app"] \in [Nums -> Uses]
          /\ [c.pool EXCEPT ![n] = NewItem] \in [Nums -> Items \cup {NoItem}]
      BY <3>1, <3>2, <3>5
    <3>7. /\ cl' \in Clients /\ cl'.addr = c.addr /\ cl'.proxy = c.proxy
          /\ cl'.behind = c.behind /\ cl'.keys = c.keys
          /\ cl'.fd = [c.fd EXCEPT ![n] = "app"] /\ cl'.pool = [c.pool EXCEPT ![n] = NewItem]
      BY <3>3, <3>4, <3>6 DEF Clients
    <3>8. /\ \A m \in Nums : cl'.fd[m] = IF m = n THEN "app" ELSE c.fd[m]
          /\ \A m \in Nums : cl'.pool[m] = IF m = n THEN NewItem ELSE c.pool[m]
      BY <3>7, <3>5
    <3>9. call' = call
      BY <2>3
    <3>10. TypesOK'
      BY <2>1, <3>9, <3>3, <3>7, <3>8, <3>2 DEF TypesOK
    <3>11. DescriptorsOK'
      BY <2>1, <3>9, <3>3, <3>8 DEF DescriptorsOK
    <3>12. LinkOK'
      BY <2>1, <3>9, <3>3, <3>7 DEF LinkOK
    <3>. QED BY <3>10, <3>11, <3>12
  <2>. QED BY <1>1, <2>2, <2>3 DEF Socket
<1>2. CASE SetServer
  <2>. DEFINE c == [cl EXCEPT !.addr = NULL, !.proxy = NoFd]
  <2>1. c \in Clients /\ c.fd = cl.fd /\ c.pool = cl.pool
    BY <1>0 DEF Clients
  <2>2. LeakLink(c) /\ call' = call /\ hist' = hist /\ call.at = "idle"
    BY <1>2 DEF SetServer, IsIdle
  <2>. HIDE DEF c
  <2>3. /\ cl' \in Clients /\ Drops
        /\ \A n \in Nums : cl'.fd[n] = IF n = link.fd THEN "leak" ELSE cl.fd[n]
        /\ \A n \in Nums : cl.pool[n] \in Items => cl'.pool[n] \in Items
    BY <2>1, <2>2, LeakLinkGives
  <2>4. \A n \in Nums : cl'.fd[n] \in {cl.fd[n]} \cup Left /\ cl'.fd[n] # "link"
    BY <2>3 DEF DescriptorsOK, Left
  <2>5. call.test = NoFd /\ hist' \in Histories
    BY <2>2 DEF DescriptorsOK, TypesOK
  <2>. QED BY <1>0, <2>2, <2>3, <2>4, <2>5, Settles
<1>3. CASE SelectEnd
  <2>. DEFINE c == [cl EXCEPT !.proxy = NoFd]
  <2>1. c \in Clients /\ c.fd = cl.fd /\ c.pool = cl.pool
    BY <1>0 DEF Clients
  <2>2. LeakLink(c) /\ call' = call /\ hist' = hist /\ call.at = "idle"
    BY <1>3 DEF SelectEnd, IsIdle
  <2>. HIDE DEF c
  <2>3. /\ cl' \in Clients /\ Drops
        /\ \A n \in Nums : cl'.fd[n] = IF n = link.fd THEN "leak" ELSE cl.fd[n]
        /\ \A n \in Nums : cl.pool[n] \in Items => cl'.pool[n] \in Items
    BY <2>1, <2>2, LeakLinkGives
  <2>4. \A n \in Nums : cl'.fd[n] \in {cl.fd[n]} \cup Left /\ cl'.fd[n] # "link"
    BY <2>3 DEF DescriptorsOK, Left
  <2>5. call.test = NoFd /\ hist' \in Histories
    BY <2>2 DEF DescriptorsOK, TypesOK
  <2>. QED BY <1>0, <2>2, <2>3, <2>4, <2>5, Settles
<1>4. CASE Select
  <2>1. PICK k \in 1..Len(link.down) : Takes(k, {"beat", "pong"}) /\ link' = After(k)
    BY <1>4 DEF Select
  <2>2. cl' = cl /\ call' = call /\ hist' = hist /\ call.at = "idle"
    BY <1>4 DEF Select, IsIdle
  <2>3. hist' \in Histories /\ call.test = NoFd /\ (cl.keys /\ link.open => link.authorized)
    BY <2>2 DEF TypesOK, DescriptorsOK, LinkOK
  <2>4. Len(link.down) > 0
    BY <2>1, <1>0 DEF Links
  <2>5. link.fd # NoFd
    BY <2>4, LinkThere
  <2>6. Passes(link, link')
    BY <2>1, <1>0, TakenPasses
  <2>7. (cl.keys /\ link.open) => link'.authorized
    BY <2>3, <2>6 DEF Passes
  <2>. QED BY <1>0, <2>2, <2>3, <2>5, <2>6, <2>7, LinkStepKeeps
<1>5. ASSUME NEW s \in Sockets, Bind(s)
      PROVE  Sound'
  <2>1. call' = [Idle EXCEPT !.at = "loop", !.sock = s] /\ cl' = cl /\ link' = link /\ hist' = hist /\ call.at = "idle"
    BY <1>5 DEF Bind, IsIdle
  <2>2. s \in Nums
    BY DEF Sockets
  <2>3. call' \in Calls /\ call'.at = "loop" /\ call'.test = NoFd /\ call'.server = NoFd
    BY <2>1, <2>2 DEF Idle, Calls
  <2>4. TypesOK'
    BY <2>1, <2>3 DEF TypesOK
  <2>5. DescriptorsOK'
    BY <2>1, <2>3 DEF DescriptorsOK
  <2>6. LinkOK'
    BY <2>1, <2>3 DEF LinkOK
  <2>. QED BY <2>4, <2>5, <2>6
<1>6. ASSUME NEW s \in Sockets, Close(s)
      PROVE  Sound'
  <2>1. PICK n \in Named(s) : /\ link' = IF cl.proxy = link.fd THEN Up(link, "close", n) ELSE link
                              /\ hist' = [hist EXCEPT !.stray = @ \/ (link.open /\ n # cl.pool[s].psock)]
    BY <1>6 DEF Close
  <2>2. cl' = [Closed(cl, {s}) EXCEPT !.pool[s] = NewItem] /\ call' = call /\ call.at = "idle"
    BY <1>6 DEF Close, IsIdle
  <2>3. s \in Nums /\ n \in PSocks \cup {Foreign}
    BY DEF Named, Sockets, TypesOK, Items
  <2>4. hist' \in Histories
    BY <2>1 DEF TypesOK, Histories
  <2>5. /\ link' \in Links /\ link'.fd = link.fd /\ link'.to = link.to /\ link'.open = link.open
        /\ link'.authorized = link.authorized /\ link'.down = link.down
        /\ link.fd = NoFd => link' = link
    <3>1. link.fd = NoFd => link = NoLink
      BY DEF LinkOK
    <3>2. /\ Up(link, "close", n) \in Links
          /\ Up(link, "close", n) = [link EXCEPT !.up = IF link.open THEN Append(link.up, Msg("close", n)) ELSE link.up]
      <4>1. "close" \in MsgKinds
        BY DEF MsgKinds
      <4>. QED BY ONLY <4>1, <2>3, <1>0, UpKeeps
    <3>3. CASE link.fd = NoFd
      BY <3>3, <3>1, <3>2, <2>1, <1>0 DEF Links, NoLink
    <3>4. CASE link.fd # NoFd
      BY <3>4, <3>2, <2>1, <1>0 DEF Links
    <3>. QED BY <3>3, <3>4
  <2>. DEFINE c == Used(cl, {s}, "free")
              pool == [cl.pool EXCEPT ![s] = NewItem]
  <2>6. /\ c \in Clients /\ (\A m \in Nums : c.fd[m] = IF m \in {s} THEN "free" ELSE cl.fd[m])
        /\ c.pool = cl.pool /\ c.addr = cl.addr /\ c.behind = cl.behind /\ c.proxy = cl.proxy /\ c.keys = cl.keys
    BY <1>0, UsedKeeps DEF Uses
  <2>7. pool \in [Nums -> Items \cup {NoItem}] /\ \A m \in Nums : pool[m] = IF m = s THEN NewItem ELSE cl.pool[m]
    BY <1>0, <2>3 DEF NewItem, Items
  <2>. HIDE DEF c, pool
  <2>8. cl' = [c EXCEPT !.pool = pool]
    BY <2>2, <2>6 DEF Closed, c, pool
  <2>9. /\ cl' \in Clients /\ (\A m \in Nums : cl'.fd[m] = IF m \in {s} THEN "free" ELSE cl.fd[m])
        /\ cl'.pool = pool /\ cl'.addr = cl.addr /\ cl'.behind = cl.behind /\ cl'.proxy = cl.proxy /\ cl'.keys = cl.keys
    BY <2>6, <2>7, <2>8 DEF Clients
  <2>13. call' = call /\ call.at = "idle" /\ NewItem \in Items
    BY <2>2 DEF NewItem, Items
  <2>10. TypesOK'
    BY <2>9, <2>7, <2>5, <2>4, <2>13 DEF TypesOK
  <2>11. DescriptorsOK'
    BY <2>9, <2>5, <2>13 DEF DescriptorsOK
  <2>12. LinkOK'
    BY <2>9, <2>5, <2>13 DEF LinkOK
  <2>. QED BY <2>10, <2>11, <2>12
<1>7. ASSUME NEW s \in Sockets, CloseDirect(s)
      PROVE  Sound'
  <2>1. cl' = Used(cl, {s}, "free") /\ call' = call /\ link' = link /\ hist' = hist /\ call.at = "idle"
    BY <1>7 DEF CloseDirect, Closed, IsIdle
  <2>2. /\ cl' \in Clients /\ (\A m \in Nums : cl'.fd[m] = IF m \in {s} THEN "free" ELSE cl.fd[m])
        /\ cl'.pool = cl.pool /\ cl'.addr = cl.addr /\ cl'.behind = cl.behind /\ cl'.proxy = cl.proxy
        /\ cl'.keys = cl.keys
    BY <2>1, <1>0, UsedKeeps DEF Uses
  <2>3. TypesOK'
    BY <2>1, <2>2 DEF TypesOK
  <2>4. DescriptorsOK'
    BY <2>1, <2>2 DEF DescriptorsOK
  <2>5. LinkOK'
    BY <2>1, <2>2 DEF LinkOK
  <2>. QED BY <2>3, <2>4, <2>5
<1>. QED BY <1>1, <1>2, <1>3, <1>4, <1>5, <1>6, <1>7 DEF Program

\* A step of ask_for_proxy() that only changes what the program knows, without a
\* link, keeps the invariant.
LEMMA KnownKeeps ==
  ASSUME Sound, hist' = hist, link' = link, link.fd = NoFd, cl' \in Clients, call' \in Calls,
         cl'.fd = cl.fd, cl'.pool = cl.pool, call'.test = call.test, call'.server = call.server,
         call'.at \in {"asking", "try"}
  PROVE  Sound'
<1>1. TypesOK'
  BY DEF Sound, TypesOK
<1>2. DescriptorsOK'
  BY DEF Sound, DescriptorsOK
<1>3. LinkOK'
  BY DEF Sound, LinkOK, NoLink
<1>. QED BY <1>1, <1>2, <1>3 DEF Sound

\* ask_for_proxy(): there is no link while it runs; it opens two descriptors, and
\* closes or forgets them when it returns.
LEMMA AsksKeep ==
  ASSUME Sound, Asks
  PROVE  Sound' /\ (\/ Drops
                    \/ link' = link /\ cl'.pool = cl.pool)
<1>. USE DEF Sound
<1>0. /\ link \in Links /\ cl \in Clients /\ call \in Calls /\ hist \in Histories
      /\ cl.fd \in [Nums -> Uses] /\ cl.pool \in [Nums -> Items \cup {NoItem}]
  BY DEF TypesOK, Clients
<1>1. CASE AskUnserved
  <2>1. hist' \in Histories /\ AskStarts
    BY <1>0, <1>1 DEF AskUnserved
  <2>2. link.fd = NoFd /\ call.test = NoFd
    BY <2>1, NoFdFacts DEF AskStarts, LinkOK, DescriptorsOK
  <2>. DEFINE c == [cl EXCEPT !.addr = NULL]
              m == Min(Free \ {NextFd})
              d == Used(c, {m}, "half")
  <2>3. /\ c \in Clients /\ c.fd = cl.fd /\ c.pool = cl.pool
        /\ d \in Clients /\ (\A n \in Nums : d.fd[n] = IF n \in {m} THEN "half" ELSE c.fd[n]) /\ d.pool = c.pool
    <3>1. c \in Clients /\ c.fd = cl.fd /\ c.pool = cl.pool
      BY <1>0 DEF Clients
    <3>. HIDE DEF c, m
    <3>2. /\ Used(c, {m}, "half") \in Clients /\ Used(c, {m}, "half").pool = c.pool
          /\ \A n \in Nums : Used(c, {m}, "half").fd[n] = IF n \in {m} THEN "half" ELSE c.fd[n]
      BY <3>1, UsedKeeps DEF Uses
    <3>. QED BY <3>1, <3>2
  <2>4. \/ \E G : AskReturns(cl, {}, G) \/ AskReturns(c, {}, G)
        \/ AskReturns(d, {}, {NextFd})
    BY <1>1 DEF AskUnserved
  <2>5. \A n \in Nums : cl.fd[n] \notin {"test", "server"}
    BY <2>2, NoFdFacts DEF DescriptorsOK
  <2>. HIDE DEF c, d, m
  <2>6. \A n \in Nums : d.fd[n] \in {cl.fd[n]} \cup Left
    BY <2>3 DEF Left
  <2>. QED BY <2>1, <2>2, <2>3, <2>4, <2>5, <2>6, <1>0, AskReturnsKeeps
<1>2. CASE Ask
  <2>. DEFINE t == NextFd
              m == Min(Free \ {t})
  <2>1. Free # {} /\ Free \ {t} # {} /\ Free \subseteq Nums
    <3>1. Free \subseteq Nums /\ Cardinality(Free) > 1
      BY <1>2 DEF Ask, Free
    <3>2. Cardinality({}) = 0 /\ Cardinality({t}) = 1
      BY FS_EmptySet, FS_Singleton
    <3>. HIDE DEF t
    <3>3. ASSUME Free = {} \/ Free = {t} PROVE FALSE
      <4>1. Cardinality(Free) = 0 \/ Cardinality(Free) = 1
        BY ONLY <3>2, <3>3
      <4>. QED BY ONLY <3>1, <4>1
    <3>. QED BY <3>1, <3>3
  <2>2. t \in Free /\ m \in Free \ {t}
    BY <2>1, LeastNumber DEF NextFd
  <2>3. /\ cl' = [cl EXCEPT !.fd[t] = "test", !.fd[m] = "server"]
        /\ call' = [call EXCEPT !.at = "asking", !.test = t, !.server = m]
        /\ link' = link /\ hist' = hist /\ AskStarts
    BY <1>2 DEF Ask
  <2>4. t \in Nums /\ m \in Nums /\ t # m
    BY <2>2 DEF Free
  <2>. HIDE DEF t, m
  <2>5. link.fd = NoFd /\ call.test = NoFd /\ call.server = NoFd
    BY <2>3, NoFdFacts DEF AskStarts, LinkOK, DescriptorsOK
  <2>. DEFINE f == [cl.fd EXCEPT ![t] = "test", ![m] = "server"]
  <2>6. f \in [Nums -> Uses] /\ \A n \in Nums : f[n] = IF n = m THEN "server" ELSE IF n = t THEN "test" ELSE cl.fd[n]
    BY <1>0, <2>4 DEF Uses
  <2>7. cl' = [cl EXCEPT !.fd = f]
    BY <2>3, <1>0, <2>4 DEF Clients
  <2>. HIDE DEF f
  <2>8. /\ cl' \in Clients /\ cl'.fd = f /\ cl'.pool = cl.pool /\ cl'.addr = cl.addr
        /\ cl'.behind = cl.behind /\ cl'.proxy = cl.proxy /\ cl'.keys = cl.keys
    BY <2>6, <2>7, <1>0 DEF Clients
  <2>9. call' \in Calls /\ call'.at = "asking" /\ call'.test = t /\ call'.server = m
    BY <2>3, <2>4, <1>0 DEF Calls
  <2>10. TypesOK'
    BY <2>3, <2>6, <2>8, <2>9 DEF TypesOK
  <2>11. \A n \in Nums : cl.fd[n] \notin {"test", "server", "link"}
    BY <2>5, NoFdFacts DEF DescriptorsOK
  <2>12. DescriptorsOK'
    BY <2>11, <2>4, <2>6, <2>8, <2>9, NoFdFacts DEF DescriptorsOK
  <2>13. LinkOK'
    BY <2>3, <2>5, <2>8, <2>9 DEF LinkOK, NoLink
  <2>. QED BY <2>10, <2>12, <2>13, <2>3, <2>8
<1>3. CASE AskReset
  <2>1. AskReturns(cl, AskSockets, {}) /\ hist' = hist /\ call.at = "asking"
    BY <1>3 DEF AskReset
  <2>2. link.fd = NoFd
    BY <2>1 DEF LinkOK
  <2>3. \A n \in Nums : cl.fd[n] \in {"test", "server"} => n \in AskSockets
    BY DEF DescriptorsOK, AskSockets
  <2>. QED BY <2>1, <2>2, <2>3, <1>0, AskReturnsKeeps
<1>4. ASSUME NEW k \in 1..Len(srv.out), AskDirect(k) \/ AskBehind(k) \/ AskOffered(k) \/ AskNone(k)
      PROVE  Sound' /\ (Drops \/ (link' = link /\ cl'.pool = cl.pool))
  <2>1. call.at = "asking" /\ hist' = hist
    BY <1>4 DEF AskDirect, AskBehind, AskOffered, AskNone, Answer
  <2>2. /\ link.fd = NoFd /\ hist' \in Histories
        /\ \A n \in Nums : cl.fd[n] \in {"test", "server"} => n \in AskSockets
    BY <2>1, <1>0 DEF LinkOK, DescriptorsOK, AskSockets
  <2>3. CASE AskDirect(k)
    <3>. DEFINE c == [cl EXCEPT !.addr = Self, !.behind = FALSE]
    <3>1. c \in Clients /\ c.fd = cl.fd /\ c.pool = cl.pool
      BY <1>0 DEF Clients
    <3>2. \/ AskReturns(c, AskSockets, {})
          \/ CloseFds(c, AskSockets) /\ call' = [Goto("loop") EXCEPT !.test = NoFd, !.server = NoFd]
      BY <2>3 DEF AskDirect
    <3>. HIDE DEF c
    <3>3. CASE AskReturns(c, AskSockets, {})
      BY <3>1, <3>3, <2>2, AskReturnsKeeps
    <3>4. CASE CloseFds(c, AskSockets) /\ call' = [Goto("loop") EXCEPT !.test = NoFd, !.server = NoFd]
      <4>1. /\ cl' \in Clients /\ link' \in Links
            /\ \A n \in Nums : cl'.fd[n] = IF n \in AskSockets THEN "free" ELSE c.fd[n]
            /\ link' = IF link.fd \in AskSockets THEN NoLink ELSE link
            /\ \A n \in Nums : c.pool[n] \in Items => cl'.pool[n] \in Items
            /\ Unbound(c) \/ link.fd \in AskSockets => Unbound(cl')
        BY <1>0, <3>1, <3>4, CloseFdsGives
      <4>2. Drops
        BY <4>1, <3>1, <2>2 DEF Drops, Unbound, LinkOK
      <4>3. call' \in Calls /\ call'.at = "loop" /\ call'.test = NoFd /\ call'.server = NoFd
        BY <1>0, <3>4, GotoGives
      <4>4. \A n \in Nums : /\ cl'.fd[n] \in {cl.fd[n]} \cup Left
                            /\ cl'.fd[n] \notin {"link", "test", "server"}
        BY <4>1, <3>1, <2>2, NoFdFacts DEF DescriptorsOK, AskSockets, Left
      <4>5. Sound'
        BY <4>1, <4>2, <4>3, <4>4, <3>1, <2>2, Settles
      <4>. QED BY <4>2, <4>5
    <3>. QED BY <3>2, <3>3, <3>4
  <2>4. CASE AskBehind(k)
    <3>. DEFINE c == [cl EXCEPT !.addr = NULL, !.behind = TRUE]
    <3>1. c \in Clients /\ c.fd = cl.fd /\ c.pool = cl.pool
      BY <1>0 DEF Clients
    <3>2. (cl' = c /\ call' = call /\ link' = link) \/ AskReturns(c, AskSockets, {})
      BY <2>4 DEF AskBehind
    <3>. HIDE DEF c
    <3>3. CASE AskReturns(c, AskSockets, {})
      BY <3>1, <3>3, <2>2, AskReturnsKeeps
    <3>4. CASE cl' = c /\ call' = call /\ link' = link
      BY <3>1, <3>4, <2>1, <2>2, <1>0, KnownKeeps
    <3>. QED BY <3>2, <3>3, <3>4
  <2>5. CASE AskOffered(k)
    <3>1. cl' = [cl EXCEPT !.addr = srv.out[1], !.behind = TRUE] /\ srv.out[1] \in Proxies
          /\ call' = Goto("try") /\ link' = link
      BY <2>5 DEF AskOffered
    <3>2. cl' \in Clients /\ cl'.fd = cl.fd /\ cl'.pool = cl.pool
      BY <3>1, <1>0 DEF Clients
    <3>3. call' \in Calls /\ call'.at = "try" /\ call'.test = call.test /\ call'.server = call.server
      BY <3>1, <1>0, GotoGives
    <3>. QED BY <3>1, <3>2, <3>3, <2>1, <2>2, KnownKeeps
  <2>6. CASE AskNone(k)
    <3>. DEFINE c == [cl EXCEPT !.addr = NoProxy, !.behind = TRUE]
    <3>1. c \in Clients /\ c.fd = cl.fd /\ c.pool = cl.pool
      BY <1>0 DEF Clients
    <3>. DEFINE d == Used(c, {call.server}, "conn")
    <3>2. AskReturns(d, {}, {call.test})
      BY <2>6 DEF AskNone
    <3>. HIDE DEF c
    <3>3. /\ d \in Clients /\ d.pool = c.pool
          /\ \A n \in Nums : d.fd[n] = IF n \in {call.server} THEN "conn" ELSE c.fd[n]
      BY <3>1, UsedKeeps DEF Uses
    <3>. HIDE DEF d
    <3>4. \A n \in Nums : /\ d.fd[n] \in {cl.fd[n]} \cup Left
                          /\ cl.fd[n] \in {"test", "server"} => n \in {} \cup {call.test} \/ d.fd[n] \in Left
      BY <3>1, <3>3, <2>2 DEF Left, AskSockets
    <3>. QED BY <3>1, <3>2, <3>3, <3>4, <2>2, AskReturnsKeeps
  <2>. QED BY <1>4, <2>3, <2>4, <2>5, <2>6
<1>. QED BY <1>1, <1>2, <1>3, <1>4 DEF Asks

\* A new link: no message but the greeting, and no socket yet.
Opens == /\ link.fd = NoFd /\ cl'.pool = cl.pool /\ link'.udp = {}
         /\ Told(link'.down, "bound") = {} /\ NoTwice(link'.down, "bound")
         /\ Told(link'.up, "close") = {} /\ NoTwice(link'.up, "close")

\* What a step of connect_to_proxy() or of the rest of proxy_bind() does to the
\* bindings: there is no link any more, or a new one, or nothing.
Rebinds == Drops \/ Opens \/ (cl'.pool = cl.pool /\ Passes(link, link'))

\* The proxy greets on a socket that was of no use, which becomes the link.
LEMMA GreetedKeeps ==
  ASSUME Sound, hist' \in Histories, NEW n \in Nums, cl.fd[n] \in {"free", "half"},
         link.fd = NoFd, cl.addr \in Proxies, Greeted(n)
  PROVE  Sound' /\ Opens
<1>. USE DEF Sound
<1>0. /\ link \in Links /\ cl \in Clients /\ call \in Calls /\ cl.fd \in [Nums -> Uses]
  BY DEF TypesOK, Clients
<1>1. cl' = [cl EXCEPT !.fd[n] = "link", !.proxy = n] /\ call' = Goto("hello")
  BY DEF Greeted
<1>2. PICK b \in BOOLEAN :
        link' = [NoLink EXCEPT !.fd = n, !.to = cl.addr, !.open = TRUE, !.authorized = b,
                               !.down = <<Msg("hello", Foreign)>>]
  BY DEF Greeted
<1>3. [cl.fd EXCEPT ![n] = "link"] \in [Nums -> Uses]
  BY <1>0 DEF Uses
<1>4. cl' = [cl EXCEPT !.fd = [cl.fd EXCEPT ![n] = "link"], !.proxy = n]
  BY <1>1
<1>5. /\ cl' \in Clients /\ cl'.fd = [cl.fd EXCEPT ![n] = "link"] /\ cl'.pool = cl.pool /\ cl'.addr = cl.addr
      /\ cl'.proxy = n /\ cl'.behind = cl.behind /\ cl'.keys = cl.keys
  BY <1>3, <1>4, <1>0 DEF Clients
<1>6. \A m \in Nums : cl'.fd[m] = IF m = n THEN "link" ELSE cl.fd[m]
  BY <1>5, <1>0
<1>7. <<Msg("hello", Foreign)>> \in Seq(Msgs) /\ <<>> \in Seq(Msgs) /\ Len(<<>>) = 0
  BY DEF Msg, Msgs, MsgKinds
<1>8. /\ Len(<<Msg("hello", Foreign)>>) = 1
      /\ \A i \in 1..1 : <<Msg("hello", Foreign)>>[i].kind = "hello"
  BY DEF Msg
<1>9. /\ link' \in Links /\ link'.fd = n /\ link'.to = cl.addr /\ link'.open /\ link'.udp = {}
      /\ link'.up = <<>> /\ link'.down = <<Msg("hello", Foreign)>>
  BY <1>2, <1>7 DEF Links, NoLink
<1>10. \A i \in 1..Len(link'.down) : link'.down[i].kind = "hello"
  BY <1>8, <1>9
<1>11. Opens
  BY <1>5, <1>7, <1>9, <1>10 DEF Opens, Told, NoTwice
<1>12. call' \in Calls /\ call'.at = "hello" /\ call'.test = call.test /\ call'.server = call.server
  BY <1>1, <1>0, GotoGives
<1>13. TypesOK'
  BY <1>5, <1>6, <1>9, <1>12 DEF TypesOK
<1>14. DescriptorsOK'
  BY <1>6, <1>9, <1>12, NoFdFacts DEF DescriptorsOK
<1>15. LinkOK'
  BY <1>5, <1>9, <1>10, <1>12, NoFdFacts DEF LinkOK
<1>. QED BY <1>11, <1>13, <1>14, <1>15

\* A number that is given up is closed, be it one of the call that asks, too.
LEMMA GivenUpKeeps ==
  ASSUME Sound, hist' \in Histories, link.fd = NoFd, GivenUp
  PROVE  Sound' /\ Drops
<1>. DEFINE c == [cl EXCEPT !.proxy = NoFd]
            d == [c EXCEPT !.addr = NULL]
<1>1. link = NoLink /\ link \in Links /\ cl \in Clients /\ call \in Calls
  BY DEF Sound, TypesOK, LinkOK
<1>2. /\ c \in Clients /\ c.fd = cl.fd /\ c.pool = cl.pool
      /\ d \in Clients /\ d.fd = cl.fd /\ d.pool = cl.pool
  BY <1>1 DEF Clients
<1>. HIDE DEF c, d
<1>3. CASE Refused(c, {cl.proxy})
  BY <1>2, <1>3, RefusedKeeps
<1>4. CASE /\ CloseFds(d, AskSockets)
           /\ call' = Idle \/ call' = [Goto("loop") EXCEPT !.test = NoFd, !.server = NoFd]
  <2>1. /\ cl' \in Clients /\ link' \in Links
        /\ \A n \in Nums : cl'.fd[n] = IF n \in AskSockets THEN "free" ELSE d.fd[n]
        /\ link' = IF link.fd \in AskSockets THEN NoLink ELSE link
        /\ \A n \in Nums : d.pool[n] \in Items => cl'.pool[n] \in Items
        /\ Unbound(d) \/ link.fd \in AskSockets => Unbound(cl')
    BY <1>1, <1>2, <1>4, CloseFdsGives
  <2>2. Drops
    BY <2>1, <1>1, <1>2 DEF Drops, Unbound
  <2>3. /\ [Goto("loop") EXCEPT !.test = NoFd, !.server = NoFd] \in Calls
        /\ [Goto("loop") EXCEPT !.test = NoFd, !.server = NoFd].at = "loop"
        /\ [Goto("loop") EXCEPT !.test = NoFd, !.server = NoFd].test = NoFd
        /\ [Goto("loop") EXCEPT !.test = NoFd, !.server = NoFd].server = NoFd
    BY <1>1, GotoGives
  <2>4. call' \in Calls /\ call'.at \in {"idle", "loop"} /\ call'.test = NoFd /\ call'.server = NoFd
    BY ONLY <1>4, <2>3, IdleGives
  <2>5. \A n \in Nums : cl'.fd[n] \in {cl.fd[n]} \cup Left /\ cl'.fd[n] \notin {"link", "test", "server"}
    BY <2>1, <1>2, NoFdFacts DEF Sound, DescriptorsOK, AskSockets, Left
  <2>6. \A n \in Nums : cl.pool[n] \in Items => cl'.pool[n] \in Items
    BY <2>1, <1>2
  <2>. QED BY <2>1, <2>2, <2>4, <2>5, <2>6, Settles
<1>. QED BY <1>3, <1>4 DEF GivenUp, c, d

\* connect_to_proxy(): what is refused is closed, and where the call goes on
\* without an error there is the link, and OK on it.
LEMMA ConnectsKeep ==
  ASSUME Sound, ConnectsToProxy
  PROVE  Sound' /\ Rebinds
<1>. USE DEF Sound
<1>0. /\ link \in Links /\ cl \in Clients /\ call \in Calls /\ hist \in Histories
      /\ cl.fd \in [Nums -> Uses] /\ cl.pool \in [Nums -> Items \cup {NoItem}]
  BY DEF TypesOK, Clients
<1>1. /\ Passes(link, link)
      /\ [cl EXCEPT !.proxy = NoFd] \in Clients
      /\ [cl EXCEPT !.proxy = NoFd].fd = cl.fd /\ [cl EXCEPT !.proxy = NoFd].pool = cl.pool
  BY <1>0, PassesSelf DEF Clients
<1>2. link.fd # NoFd => cl.proxy = link.fd /\ cl.addr \in Proxies
  BY DEF LinkOK
<1>3. CASE ConnectNone
  <2>1. Accepted(link) /\ ~cl.behind /\ hist' = hist /\ call.at \in {"try", "loop"}
    BY <1>3 DEF ConnectNone, ConnectStarts
  <2>2. /\ link.fd = NoFd => link = NoLink
        /\ \A i \in 1..Len(link.down) : link.down[i].kind = "ok" => link.authorized
        /\ cl.keys /\ link.open => link.authorized
    BY <2>1 DEF LinkOK
  <2>3. Sound' /\ link' = link /\ cl'.pool = cl.pool
    BY <1>0, <2>1, <2>2, AcceptedKeeps
  <2>. QED BY <1>1, <2>3 DEF Rebinds
<1>4. CASE ConnectNowhere
  <2>1. Refused(cl, {}) /\ hist' = hist /\ (cl.addr \notin Proxies \/ cl.proxy = NoFd)
    BY <1>4 DEF ConnectNowhere
  <2>. QED BY <2>1, <1>0, <1>2, RefusedKeeps DEF Rebinds
<1>5. CASE Ping
  <2>1. /\ link.fd # NoFd /\ call.at \in {"try", "loop"} /\ link' = Up(link, "ping", Foreign)
        /\ call' = Goto("pong") /\ cl' = cl /\ hist' = hist
    BY <1>5 DEF Ping, Connects, ConnectStarts
  <2>2. /\ call' \in Calls /\ call'.at = "pong" /\ call'.test = call.test /\ call'.server = call.server
    BY <2>1, <1>0, GotoGives
  <2>3. "ping" \in MsgKinds \ {"close"} /\ call.test = NoFd /\ (cl.keys /\ link.open => link.authorized)
    BY <2>1 DEF MsgKinds, LinkOK, DescriptorsOK
  <2>4. Passes(link, link')
    BY <2>1, <2>3, <1>0, UpPasses
  <2>5. cl.keys /\ link.open => link'.authorized
    BY <2>3, <2>4 DEF Passes
  <2>6. Sound'
    BY <2>1, <2>2, <2>3, <2>4, <2>5, <1>0, LinkStepKeeps
  <2>. QED BY <2>1, <2>4, <2>6 DEF Rebinds
<1>6. CASE PingFails
  <2>1. Refused([cl EXCEPT !.proxy = NoFd], {cl.proxy}) /\ hist' = hist
    BY <1>6 DEF PingFails
  <2>. QED BY <2>1, <1>0, <1>1, <1>2, RefusedKeeps DEF Rebinds
<1>7. CASE Pong
  <2>1. call.at = "pong" /\ cl' = cl /\ hist' = hist
    BY <1>7 DEF Pong
  <2>2. link.fd # NoFd /\ call.test = NoFd /\ (cl.keys /\ link.open => link.authorized)
    BY <2>1 DEF LinkOK, DescriptorsOK
  <2>3. Passes(link, link')
    BY <1>7, <1>0, <1>1, TakenPasses DEF Pong
  <2>4. call' \in Calls /\ call'.at = "local" /\ call'.test = call.test /\ call'.server = call.server
    <3>1. call' = Goto("local") \/ \E k : call' = [Losing(link.down, k) EXCEPT !.at = "local"]
      BY <1>7 DEF Pong
    <3>2. CASE call' = Goto("local")
      BY <3>2, <1>0, GotoGives
    <3>3. ASSUME NEW k, call' = [Losing(link.down, k) EXCEPT !.at = "local"]
          PROVE  call' \in Calls /\ call'.at = "local" /\ call'.test = call.test /\ call'.server = call.server
      <4>1. /\ [Losing(link.down, k) EXCEPT !.at = "local"] \in Calls
            /\ [Losing(link.down, k) EXCEPT !.at = "local"].at = "local"
            /\ [Losing(link.down, k) EXCEPT !.at = "local"].test = call.test
            /\ [Losing(link.down, k) EXCEPT !.at = "local"].server = call.server
        BY <1>0, LosingGives
      <4>. QED BY ONLY <4>1, <3>3
    <3>. QED BY <3>1, <3>2, <3>3
  <2>5. cl.keys /\ link.open => link'.authorized
    BY <2>2, <2>3 DEF Passes
  <2>6. Sound'
    BY <2>1, <2>2, <2>3, <2>4, <2>5, <1>0, LinkStepKeeps
  <2>. QED BY <2>1, <2>3, <2>6 DEF Rebinds
<1>8. CASE ConnectFails
  <2>1. Refused(cl, {}) /\ hist' = hist /\ cl.proxy = NoFd
    BY <1>8 DEF ConnectFails
  <2>. QED BY <2>1, <1>0, <1>2, RefusedKeeps DEF Rebinds
<1>9. CASE Connect
  <2>1. NextFd \in Nums /\ cl.fd[NextFd] = "free" /\ hist' = hist
    BY <1>9, LeastNumber DEF Connect, NextFd, Free
  <2>2. Greeted(NextFd) /\ link.fd = NoFd /\ cl.addr \in Proxies
    BY <1>9, <1>2, NoFdFacts DEF Connect, Connects
  <2>. QED BY <2>1, <2>2, <1>0, GreetedKeeps DEF Rebinds
<1>10. ASSUME Stale, UseStale
       PROVE  link.fd = NoFd /\ cl.addr \in Proxies /\ cl.proxy \in Nums /\ hist' \in Histories /\ hist'.stale
  BY <1>10, <1>0, <1>2 DEF Stale, Connects, UseStale, Histories, Clients
<1>17. CASE StaleFails
  <2>1. GivenUp /\ Stale /\ UseStale
    BY <1>17 DEF StaleFails
  <2>. QED BY <2>1, <1>10, GivenUpKeeps DEF Rebinds
<1>18. CASE (Stale /\ UseStale) /\ call' \in {Goto("stuck"), Goto("stale")} /\ UNCHANGED <<cl, link>>
             /\ (call' = Goto("stale") => NamedUse \in {"server", "conn"})
  <2>1. /\ call' \in Calls /\ call'.at \in {"stuck", "stale"} /\ call'.test = call.test /\ call'.server = call.server
        /\ call'.at = "stale" => NamedUse \in {"server", "conn"}
    BY <1>18, <1>0, GotoGives
  <2>2. TypesOK'
    BY <2>1, <1>18, <1>10 DEF TypesOK
  <2>3. DescriptorsOK'
    BY <2>1, <1>18 DEF DescriptorsOK
  <2>4. LinkOK'
    BY <2>1, <1>18, <1>10 DEF LinkOK, NoLink, Names, NamedUse
  <2>. QED BY <2>2, <2>3, <2>4, <1>18, <1>1 DEF Rebinds
<1>19. CASE StaleConnects
  <2>1. Stale /\ UseStale
    BY <1>19 DEF StaleConnects
  <2>2. CASE NamedUse = "half" /\ Greeted(cl.proxy)
    BY <2>1, <2>2, <1>10, GreetedKeeps DEF Rebinds, NamedUse
  <2>3. CASE call' = Goto("stuck") /\ UNCHANGED <<cl, srv, link>>
    <3>1. Goto("stuck") # Goto("stale")
      BY <1>0, GotoGives
    <3>. QED BY <2>1, <2>3, <3>1, <1>18
  <2>4. CASE Refused(cl, {cl.proxy})
    BY <2>1, <2>4, <1>0, <1>10, RefusedKeeps DEF Rebinds
  <2>. QED BY <1>19, <2>2, <2>3, <2>4 DEF StaleConnects
<1>20. CASE StaleSends
  BY <1>18, <1>20 DEF StaleSends
<1>21. CASE StaleAnswer
  <2>1. call.at = "stale" /\ hist' = hist /\ (Accepted(link) \/ GivenUp)
    BY <1>21 DEF StaleAnswer
  <2>2. link.fd = NoFd /\ link = NoLink /\ Names({"server", "conn"})
    BY <2>1 DEF LinkOK
  <2>3. CASE GivenUp
    BY <2>1, <2>2, <2>3, <1>0, GivenUpKeeps DEF Rebinds
  <2>4. CASE Accepted(link)
    <3>1. ~link.open /\ \A i \in 1..Len(link.down) : link.down[i].kind = "ok" => link.authorized
      BY <2>2 DEF LinkOK, NoLink
    <3>2. Sound' /\ link' = link /\ cl'.pool = cl.pool
      BY <2>1, <2>2, <2>4, <3>1, <1>0, AcceptedKeeps
    <3>. QED BY <3>2, <1>1 DEF Rebinds
  <2>. QED BY <2>1, <2>3, <2>4
<1>11. CASE LinkReset
  <2>1. Refused([cl EXCEPT !.proxy = NoFd], {cl.proxy}) /\ hist' = hist
    BY <1>11 DEF LinkReset
  <2>. QED BY <2>1, <1>0, <1>1, <1>2, RefusedKeeps DEF Rebinds
<1>12. CASE NoKeys
  <2>. DEFINE l == [link EXCEPT !.down = <<>>]
  <2>1. Accepted(l) /\ ~cl.keys /\ hist' = hist /\ call.at = "hello"
    BY <1>12 DEF NoKeys
  <2>2. link.fd # NoFd
    BY <2>1 DEF LinkOK
  <2>3. Passes(link, l)
    BY <1>0, ForgottenPasses
  <2>4. l.authorized = link.authorized /\ Len(l.down) = 0
    BY <1>0 DEF Links
  <2>. HIDE DEF l
  <2>5. Sound' /\ link' = l /\ cl'.pool = cl.pool
    BY <1>0, <2>1, <2>2, <2>3, <2>4, AcceptedKeeps DEF Passes
  <2>. QED BY <2>3, <2>5 DEF Rebinds
<1>13. CASE Authenticate
  <2>. DEFINE l == [link EXCEPT !.down = <<>>]
  <2>1. /\ link' = Up(l, "auth1", Foreign) /\ call' = Goto("auth1") /\ cl' = cl /\ hist' = hist
        /\ call.at = "hello"
    BY <1>13 DEF Authenticate
  <2>2. link.fd # NoFd
    BY <2>1 DEF LinkOK
  <2>3. Passes(link, l)
    BY <1>0, ForgottenPasses
  <2>4. "auth1" \in MsgKinds \ {"close"} /\ l \in Links
    BY <2>3 DEF MsgKinds, Passes
  <2>. HIDE DEF l
  <2>5. Passes(l, link')
    BY <2>1, <2>4, UpPasses
  <2>6. Passes(link, link')
    BY <2>3, <2>5, PassesOn
  <2>7. call' \in Calls /\ call'.at = "auth1" /\ call'.test = call.test /\ call'.server = call.server
    BY <2>1, <1>0, GotoGives
  <2>8. Sound'
    BY <2>1, <2>2, <2>6, <2>7, <1>0, LinkStepKeeps
  <2>. QED BY <2>1, <2>6, <2>8 DEF Rebinds
<1>14. CASE AuthFails
  <2>1. Refused(cl, {cl.proxy}) /\ hist' = hist
    BY <1>14 DEF AuthFails
  <2>. QED BY <2>1, <1>0, <1>2, RefusedKeeps DEF Rebinds
<1>15. ASSUME NEW k \in 1..Len(link.down), AuthKey(k)
       PROVE  Sound' /\ Rebinds
  <2>1. /\ link' = Up(After(k), "auth2", Foreign) /\ call' = Goto("auth2") /\ cl' = cl /\ hist' = hist
        /\ call.at = "auth1"
    BY <1>15 DEF AuthKey
  <2>2. link.fd # NoFd
    BY <2>1 DEF LinkOK
  <2>3. Passes(link, After(k))
    BY <1>0, TakenPasses
  <2>4. "auth2" \in MsgKinds \ {"close"} /\ After(k) \in Links
    BY <2>3 DEF MsgKinds, Passes
  <2>5. Passes(After(k), link')
    BY <2>1, <2>4, UpPasses
  <2>6. Passes(link, link')
    BY <2>3, <2>5, PassesOn
  <2>7. call' \in Calls /\ call'.at = "auth2" /\ call'.test = call.test /\ call'.server = call.server
    BY <2>1, <1>0, GotoGives
  <2>8. Sound'
    BY <2>1, <2>2, <2>6, <2>7, <1>0, LinkStepKeeps
  <2>. QED BY <2>1, <2>6, <2>8 DEF Rebinds
<1>16. ASSUME NEW k \in 1..Len(link.down), AuthOk(k)
       PROVE  Sound' /\ Rebinds
  <2>1. Accepted(After(k)) /\ hist' = hist /\ link.down[1].kind = "ok" /\ call.at \in {"auth1", "auth2"}
    BY <1>16 DEF AuthOk, Takes
  <2>2. link.fd # NoFd /\ OkMeans(link)
    BY <2>1 DEF LinkOK, OkMeans
  <2>3. 1 \in 1..Len(link.down)
    BY <1>0 DEF Links
  <2>4. link.authorized
    BY <2>1, <2>2, <2>3 DEF OkMeans
  <2>5. Passes(link, After(k))
    BY <1>0, TakenPasses
  <2>6. After(k).authorized = link.authorized
    BY <1>0 DEF After, Links
  <2>7. \A i \in 1..Len(After(k).down) : After(k).down[i].kind = "ok" => After(k).authorized
    BY <2>4, <2>6
  <2>8. Sound' /\ link' = After(k) /\ cl'.pool = cl.pool
    BY <1>0, <2>1, <2>2, <2>4, <2>5, <2>6, <2>7, AcceptedKeeps DEF Passes
  <2>. QED BY <2>5, <2>8 DEF Rebinds
<1>. QED BY <1>3, <1>4, <1>5, <1>6, <1>7, <1>8, <1>9, <1>11, <1>12, <1>13, <1>14, <1>15, <1>16,
         <1>17, <1>19, <1>20, <1>21 DEF ConnectsToProxy

\* The rest of proxy_bind(): what it receives and sends leaves the link as it is.
LEMMA BindsKeep ==
  ASSUME Sound, Binds
  PROVE  Sound'
<1>. USE DEF Sound
<1>0. /\ link \in Links /\ cl \in Clients /\ call \in Calls /\ hist \in Histories
      /\ cl.fd \in [Nums -> Uses] /\ cl.pool \in [Nums -> Items \cup {NoItem}] /\ Passes(link, link)
  BY PassesSelf DEF TypesOK, Clients
<1>1. /\ call.at \in {"local", "wait"} /\ hist' = hist /\ call.test = NoFd /\ call.server = NoFd
      /\ cl.keys /\ link.open => link.authorized
  BY DEF Binds, LocalFails, Local, WaitReset, Bound, Unauthorized, PassedOver, LinkOK, DescriptorsOK
<1>2. Idle \in Calls /\ Idle.at = "idle" /\ Idle.test = NoFd /\ Idle.server = NoFd
  BY IdleGives
<1>3. ASSUME NEW k \in 1..Len(link.down)
      PROVE  link.fd # NoFd /\ Passes(link, After(k)) /\ Arrived \in Msgs
  <2>1. Len(link.down) > 0 /\ link.down \in Seq(Msgs)
    BY <1>0 DEF Links
  <2>2. link.fd # NoFd
    BY <2>1, LinkThere
  <2>3. Passes(link, After(k))
    BY <1>0, TakenPasses
  <2>4. Arrived \in Msgs
    BY <2>1 DEF Arrived
  <2>. QED BY <2>2, <2>3, <2>4
<1>4. CASE LocalFails \/ WaitReset
  <2>1. call' = Idle /\ cl' = cl /\ link' = link
    BY <1>4 DEF LocalFails, WaitReset
  <2>2. TypesOK'
    BY <2>1, <1>1, <1>2 DEF TypesOK
  <2>3. DescriptorsOK'
    BY <2>1, <1>1, <1>2, NoFdFacts DEF DescriptorsOK
  <2>4. LinkOK'
    BY <2>1, <1>1, <1>2 DEF LinkOK
  <2>. QED BY <2>2, <2>3, <2>4, <1>1
<1>5. CASE Local
  <2>1. cl' = [cl EXCEPT !.fd[Sock] = "named"] /\ cl.fd[Sock] = "app" /\ call.at = "local"
    BY <1>5 DEF Local
  <2>. DEFINE f == [cl.fd EXCEPT ![Sock] = "named"]
  <2>2. f \in [Nums -> Uses] /\ \A m \in Nums : f[m] = IF m = Sock THEN "named" ELSE cl.fd[m]
    BY <1>0 DEF Uses
  <2>3. cl' = [cl EXCEPT !.fd = f]
    BY <2>1
  <2>. HIDE DEF f
  <2>4. /\ cl' \in Clients /\ cl'.fd = f /\ cl'.pool = cl.pool /\ cl'.addr = cl.addr
        /\ cl'.proxy = cl.proxy /\ cl'.behind = cl.behind /\ cl'.keys = cl.keys
    BY <2>2, <2>3, <1>0 DEF Clients
  <2>5. /\ call' \in Calls /\ call'.test = NoFd /\ call'.server = NoFd
        /\ call'.at = "idle" \/ call'.at = "wait"
    BY <1>5, <1>0, <1>1, <1>2, GotoGives DEF Local
  <2>6. "bind" \in MsgKinds \ {"close"}
    BY DEF MsgKinds
  <2>7. Passes(link, link')
    <3>1. link' = link \/ link' = Up(link, "bind", Foreign)
      BY <1>5 DEF Local
    <3>2. Passes(link, Up(link, "bind", Foreign))
      BY <2>6, <1>0, UpPasses
    <3>3. CASE link' = link
      BY <3>3, <1>0
    <3>4. CASE link' = Up(link, "bind", Foreign)
      BY <3>2, <3>4
    <3>. QED BY <3>1, <3>3, <3>4
  <2>8. link.fd = NoFd => link' = link
    <3>1. link.fd = NoFd => Up(link, "bind", Foreign) = link
      BY DEF LinkOK, NoLink, Up
    <3>. QED BY <3>1, <1>5 DEF Local
  <2>12. call'.at = "wait" /\ cl.behind => link.fd # NoFd \/ Names({"conn"})'
    <3>1. Names({"conn"}) => Names({"conn"})'
      BY <2>1, <2>2, <2>4, <1>1 DEF Names
    <3>. QED BY <3>1, <2>1 DEF LinkOK
  <2>9. TypesOK'
    BY <2>1, <2>2, <2>4, <2>5, <2>7, <1>1 DEF TypesOK, Passes
  <2>10. DescriptorsOK'
    BY <2>2, <2>4, <2>5, <2>7, <1>1, NoFdFacts DEF DescriptorsOK, Passes
  <2>11. LinkOK'
    BY <2>1, <2>4, <2>5, <2>7, <2>8, <2>12, <1>1 DEF LinkOK, Passes, OkMeans
  <2>. QED BY <2>9, <2>10, <2>11
<1>6. ASSUME NEW k \in 1..Len(link.down), Bound(k)
      PROVE  Sound'
  <2>. DEFINE p == IF link.open THEN Arrived.psock ELSE Foreign
              item == [bound |-> TRUE, psock |-> p]
              pool == [cl.pool EXCEPT ![Sock] = item]
  <2>1. /\ cl' = [cl EXCEPT !.pool[Sock] = item] /\ call' = Idle
        /\ link' \in {After(k), Up(After(k), "over", Foreign)}
    BY <1>6 DEF Bound
  <2>2. p \in PSocks \cup {Foreign}
    BY <1>3 DEF Msgs
  <2>. HIDE DEF p
  <2>3. item \in Items
    BY <2>2 DEF Items
  <2>. HIDE DEF item
  <2>4. pool \in [Nums -> Items \cup {NoItem}] /\ \A m \in Nums : pool[m] = IF m = Sock THEN item ELSE cl.pool[m]
    BY <1>0, <2>3
  <2>5. cl' = [cl EXCEPT !.pool = pool]
    BY <2>1
  <2>. HIDE DEF pool
  <2>6. /\ cl' \in Clients /\ cl'.fd = cl.fd /\ cl'.pool = pool /\ cl'.addr = cl.addr
        /\ cl'.proxy = cl.proxy /\ cl'.behind = cl.behind /\ cl'.keys = cl.keys
    BY <2>4, <2>5, <1>0 DEF Clients
  <2>7. Passes(link, link')
    <3>1. "over" \in MsgKinds \ {"close"} /\ Passes(link, After(k)) /\ After(k) \in Links
      BY <1>3 DEF MsgKinds, Passes
    <3>2. Passes(After(k), Up(After(k), "over", Foreign))
      BY <3>1, UpPasses
    <3>3. Passes(link, Up(After(k), "over", Foreign))
      BY <3>1, <3>2, PassesOn
    <3>4. CASE link' = After(k)
      BY <3>1, <3>4
    <3>5. CASE link' = Up(After(k), "over", Foreign)
      BY <3>3, <3>5
    <3>. QED BY <2>1, <3>4, <3>5
  <2>8. call' \in Calls /\ call'.at = "idle" /\ call'.test = NoFd /\ call'.server = NoFd
    BY <2>1, <1>2
  <2>9. TypesOK'
    BY <2>3, <2>4, <2>6, <2>7, <2>8, <1>1 DEF TypesOK, Passes
  <2>10. DescriptorsOK'
    BY <2>6, <2>7, <2>8, <1>1, NoFdFacts DEF DescriptorsOK, Passes
  <2>11. LinkOK'
    BY <2>6, <2>7, <2>8, <1>1, <1>3 DEF LinkOK, Passes, OkMeans
  <2>. QED BY <2>9, <2>10, <2>11
<1>7. ASSUME NEW k \in 1..Len(link.down), Unauthorized(k) \/ PassedOver(k)
      PROVE  Sound'
  <2>1. link' = After(k) /\ cl' = cl
    BY <1>7 DEF Unauthorized, PassedOver
  <2>2. /\ call' \in Calls /\ call'.test = call.test /\ call'.server = call.server
        /\ call'.at = "idle" \/ call'.at = call.at
    <3>1. CASE call' = Idle
      BY <3>1, <1>1, <1>2
    <3>2. CASE call' = [Losing(link.down, k) EXCEPT !.denied = @ \/ Arrived.kind = "error"]
      <4>1. /\ Losing(link.down, k) \in Calls /\ Losing(link.down, k).at = call.at
            /\ Losing(link.down, k).test = call.test /\ Losing(link.down, k).server = call.server
        BY <1>0, LosingGives
      <4>. DEFINE c == Losing(link.down, k)
                  b == c.denied \/ Arrived.kind = "error"
      <4>2. b \in BOOLEAN
        BY <4>1 DEF Calls
      <4>3. call' = [c EXCEPT !.denied = b]
        BY <3>2
      <4>. HIDE DEF c, b
      <4>4. c \in Calls /\ c.at = call.at /\ c.test = call.test /\ c.server = call.server
        BY <4>1 DEF c
      <4>. QED BY <4>2, <4>3, <4>4 DEF Calls
    <3>. QED BY <1>7, <3>1, <3>2 DEF Unauthorized, PassedOver
  <2>3. Passes(link, link') /\ link.fd # NoFd
    BY <2>1, <1>3
  <2>4. cl.keys /\ link.open => link'.authorized
    BY <2>3, <1>1 DEF Passes
  <2>. QED BY <2>1, <2>2, <2>3, <2>4, <1>0, <1>1, LinkStepKeeps
<1>. QED BY <1>4, <1>5, <1>6, <1>7 DEF Binds

\* A step of the proxy: the link keeps its number, OK is only sent to a client
\* that is authorized, and of the pool only the numbers there are forgotten.
LEMMA ProxyStepKeeps ==
  ASSUME Sound, hist' = hist, cl' \in {cl, Unlinked(cl)},
         call' \in Calls, call'.at = call.at, call'.test = call.test, call'.server = call.server,
         link' \in Links, link.fd # NoFd, link'.fd = link.fd, link'.to = link.to,
         link'.open => link.open, link.authorized => link'.authorized, OkMeans(link')
  PROVE  Sound'
<1>1. cl \in Clients
  BY DEF Sound, TypesOK
<1>2. /\ cl' \in Clients /\ cl'.fd = cl.fd /\ cl'.addr = cl.addr /\ cl'.behind = cl.behind
      /\ cl'.proxy = cl.proxy /\ cl'.keys = cl.keys
      /\ \A n \in Nums : cl.pool[n] \in Items => cl'.pool[n] \in Items
  BY <1>1, UnlinkedKeeps
<1>3. TypesOK'
  BY <1>2 DEF Sound, TypesOK
<1>4. DescriptorsOK'
  BY <1>2 DEF Sound, DescriptorsOK
<1>5. LinkOK'
  BY <1>2 DEF Sound, LinkOK, OkMeans
<1>. QED BY <1>3, <1>4, <1>5 DEF Sound

\* What every message to the proxy changes.
LEMMA HandlesGives ==
  ASSUME Sound, NEW m, NEW k, NEW l, Handles(m, k, l)
  PROVE  /\ link.open /\ link.fd # NoFd /\ k \in 1..Len(link.up) /\ m = link.up[1] /\ m \in Msgs
         /\ l = [link EXCEPT !.up = Tail1(@, k)] /\ Passes(link, l) /\ OkMeans(l) /\ l.open
         /\ l.authorized = link.authorized /\ l.up = Tail1(link.up, k) /\ l.down = link.down
         /\ hist' = hist /\ call' \in Calls
         /\ call'.at = call.at /\ call'.test = call.test /\ call'.server = call.server
<1>1. /\ link.open /\ k \in 1..Len(link.up) /\ m = link.up[1] /\ l = [link EXCEPT !.up = Tail1(@, k)]
      /\ hist' = hist /\ (call' = call \/ call' = Losing(link.up, k))
  BY DEF Handles
<1>2. link \in Links /\ call \in Calls /\ OkMeans(link)
  BY DEF Sound, TypesOK, LinkOK, OkMeans
<1>3. link.fd # NoFd
  BY <1>1, LinkThere
<1>4. m \in Msgs
  BY <1>1, <1>2 DEF Links
<1>5. Passes(link, l)
  BY <1>1, <1>2, TakenPasses
<1>6. l.authorized = link.authorized /\ l.up = Tail1(link.up, k) /\ l.down = link.down
  BY <1>1, <1>2 DEF Links
<1>7. call' \in Calls /\ call'.at = call.at /\ call'.test = call.test /\ call'.server = call.server
  <2>1. CASE call' = call
    BY <2>1, <1>2
  <2>2. CASE call' = Losing(link.up, k)
    <3>1. /\ Losing(link.up, k) \in Calls /\ Losing(link.up, k).at = call.at
          /\ Losing(link.up, k).test = call.test /\ Losing(link.up, k).server = call.server
      BY <1>2, LosingGives
    <3>. QED BY <2>2, <3>1
  <2>. QED BY <1>1, <2>1, <2>2
<1>8. OkMeans(l) /\ l.open
  BY <1>1, <1>2, <1>5 DEF Passes
<1>. QED BY <1>1, <1>3, <1>4, <1>5, <1>6, <1>7, <1>8

\* The proxy closes the link after a message or without one.
LEMMA HungUpOk ==
  ASSUME NEW l \in Links, OkMeans(l)
  PROVE  OkMeans(HungUp(l)) /\ HungUp(l) \in Links
  BY HungUpKeeps DEF OkMeans

\* What the proxy handles, and its end.
LEMMA ProxyKeeps ==
  ASSUME Sound, ProxyHandles \/ ProxyHangsUp \/ Beat
  PROVE  Sound'
<1>0. link \in Links /\ call \in Calls /\ OkMeans(link) /\ (link.open => link.fd # NoFd)
  BY LinkThere DEF Sound, TypesOK, LinkOK, OkMeans
<1>1. CASE ProxyHangsUp
  <2>1. link' = HungUp(link) /\ link.open /\ cl' = Unlinked(cl) /\ call' = call /\ hist' = hist
    BY <1>1 DEF ProxyHangsUp
  <2>2. /\ HungUp(link).fd = link.fd /\ HungUp(link).to = link.to /\ HungUp(link).authorized = link.authorized
        /\ ~HungUp(link).open /\ HungUp(link) \in Links /\ OkMeans(HungUp(link))
    BY <1>0, HungUpKeeps, HungUpOk
  <2>. QED BY <2>1, <2>2, <1>0, ProxyStepKeeps
<1>2. CASE Beat
  <2>1. link' = Down(link, "beat", Foreign) /\ link.open /\ cl' = cl /\ call' = call /\ hist' = hist
    BY <1>2 DEF Beat
  <2>2. "beat" \in MsgKinds \ {"bound"}
    BY DEF MsgKinds
  <2>3. Passes(link, link')
    BY <2>1, <2>2, <1>0, DownPasses
  <2>. QED BY <2>1, <2>3, <1>0, ProxyStepKeeps DEF Passes
<1>3. ASSUME NEW m, NEW k, NEW l, Handles(m, k, l),
             \/ ProxyPing(m, k, l) \/ ProxyOver(m, k, l) \/ ProxyAuth(m, k, l)
             \/ ProxyBind(m, k, l) \/ ProxyRefuses(m, k, l) \/ ProxyClose(m, k, l)
      PROVE  Sound'
  <2>1. /\ link.open /\ link.fd # NoFd /\ Passes(link, l) /\ OkMeans(l) /\ l \in Links /\ m \in Msgs
        /\ l.fd = link.fd /\ l.to = link.to /\ l.authorized = link.authorized /\ hist' = hist /\ call' \in Calls
        /\ call'.at = call.at /\ call'.test = call.test /\ call'.server = call.server
    BY <1>3, HandlesGives DEF Passes
  <2>2. /\ link' \in Links /\ link'.fd = l.fd /\ link'.to = l.to
        /\ l.authorized => link'.authorized
        /\ OkMeans(link') /\ cl' \in {cl, Unlinked(cl)}
    <3>1. CASE ProxyPing(m, k, l)
      <4>1. link' = Down(l, "pong", Foreign) /\ cl' = cl
        BY <3>1 DEF ProxyPing
      <4>2. "pong" \in MsgKinds \ {"bound"}
        BY DEF MsgKinds
      <4>3. Passes(l, link')
        BY <4>1, <4>2, <2>1, DownPasses
      <4>. QED BY <4>1, <4>3, <2>1 DEF Passes
    <3>2. CASE ProxyOver(m, k, l)
      BY <3>2, <2>1 DEF ProxyOver
    <3>3. CASE ProxyAuth(m, k, l)
      <4>0. "ok" \in MsgKinds \ {"bound"} /\ "key" \in MsgKinds \ {"bound"} /\ "failed" \in MsgKinds \ {"bound"} /\ cl' = cl
        BY <3>3 DEF MsgKinds, ProxyAuth
      <4>1. CASE l.authorized /\ link' = Down(l, "ok", Foreign)
        <5>1. Passes(l, link')
          BY <4>0, <4>1, <2>1, DownPasses
        <5>. QED BY <4>0, <5>1, <2>1 DEF Passes
      <4>2. CASE link' = Down(l, "key", Foreign)
        <5>1. Passes(l, link')
          BY <4>0, <4>2, <2>1, DownPasses
        <5>. QED BY <4>0, <5>1, <2>1 DEF Passes
      <4>3. CASE link' = HungUp(l)
        <5>. QED BY <4>0, <4>3, <2>1, HungUpKeeps, HungUpOk
      <4>4. CASE link' = Down([l EXCEPT !.authorized = TRUE], "ok", Foreign)
        <5>. DEFINE a == [l EXCEPT !.authorized = TRUE]
        <5>1. /\ a \in Links /\ a.fd = l.fd /\ a.to = l.to /\ a.authorized /\ a.down = l.down
          BY <2>1 DEF Links
        <5>. HIDE DEF a
        <5>2. OkMeans(a)
          BY <5>1, <2>1 DEF OkMeans
        <5>3. link' = Down(a, "ok", Foreign)
          BY <4>4 DEF a
        <5>4. Passes(a, link')
          BY <4>0, <5>1, <5>3, DownPasses
        <5>. QED BY <4>0, <5>1, <5>2, <5>4 DEF Passes
      <4>5. CASE link' = HungUp(Down(l, "failed", Foreign))
        <5>1. Passes(l, Down(l, "failed", Foreign))
          BY <4>0, <2>1, DownPasses
        <5>2. /\ Down(l, "failed", Foreign) \in Links /\ OkMeans(Down(l, "failed", Foreign))
              /\ Down(l, "failed", Foreign).fd = l.fd /\ Down(l, "failed", Foreign).to = l.to
              /\ l.authorized => Down(l, "failed", Foreign).authorized
          BY <5>1, <2>1 DEF Passes
        <5>. QED BY <4>0, <4>5, <5>2, HungUpKeeps, HungUpOk
      <4>. QED BY <3>3, <4>1, <4>2, <4>3, <4>4, <4>5 DEF ProxyAuth
    <3>4. CASE ProxyBind(m, k, l)
      <4>0. "bound" \in MsgKinds /\ "error" \in MsgKinds \ {"bound"} /\ cl' = cl
        BY <3>4 DEF MsgKinds, ProxyBind
      <4>1. CASE link' = Down(l, "error", Foreign)
        <5>1. Passes(l, link')
          BY <4>0, <4>1, <2>1, DownPasses
        <5>. QED BY <4>0, <5>1, <2>1 DEF Passes
      <4>2. ASSUME NEW n \in PSocks, link' = [Down(l, "bound", n) EXCEPT !.udp = @ \cup {n}]
            PROVE  /\ link' \in Links /\ link'.fd = l.fd /\ link'.to = l.to
                   /\ l.authorized => link'.authorized
                   /\ OkMeans(link')
        <5>1. /\ Down(l, "bound", n) \in Links
              /\ Down(l, "bound", n) = [l EXCEPT !.down = Append(l.down, Msg("bound", n))]
              /\ Msg("bound", n) \in Msgs
          BY <4>0, <2>1, DownKeeps
        <5>2. l.down \in Seq(Msgs) /\ Msg("bound", n).kind # "ok"
          BY <2>1 DEF Links, Msg
        <5>3. /\ link' \in Links /\ link'.fd = l.fd /\ link'.to = l.to /\ link'.authorized = l.authorized
              /\ link'.down = Append(l.down, Msg("bound", n))
          BY <4>2, <5>1, <2>1 DEF Links
        <5>. DEFINE q == Append(l.down, Msg("bound", n))
        <5>4. /\ Len(q) = Len(l.down) + 1 /\ (\A i \in 1..Len(l.down) : q[i] = l.down[i])
              /\ q[Len(l.down) + 1] = Msg("bound", n) /\ Len(l.down) \in Nat
          BY <5>1, <5>2, SentLast
        <5>. HIDE DEF q
        <5>5. \A i \in 1..Len(q) : i \in 1..Len(l.down) \/ i = Len(l.down) + 1
          BY <5>4
        <5>6. OkMeans(link')
          BY <5>2, <5>3, <5>4, <5>5, <2>1 DEF OkMeans, q
        <5>. QED BY <5>3, <5>6
      <4>. QED BY <3>4, <4>0, <4>1, <4>2 DEF ProxyBind
    <3>5. CASE ProxyRefuses(m, k, l)
      <4>0. "failed" \in MsgKinds \ {"bound"}
        BY DEF MsgKinds
      <4>1. Passes(l, Down(l, "failed", Foreign))
        BY <4>0, <2>1, DownPasses
      <4>2. /\ Down(l, "failed", Foreign) \in Links /\ OkMeans(Down(l, "failed", Foreign))
            /\ Down(l, "failed", Foreign).fd = l.fd /\ Down(l, "failed", Foreign).to = l.to
            /\ l.authorized => Down(l, "failed", Foreign).authorized
        BY <4>1, <2>1 DEF Passes
      <4>. QED BY <3>5, <4>2, HungUpKeeps, HungUpOk DEF ProxyRefuses
    <3>6. CASE ProxyClose(m, k, l)
      <4>1. link' = [l EXCEPT !.udp = @ \ {m.psock}] /\ cl' = cl
        BY <3>6 DEF ProxyClose
      <4>2. /\ link' \in Links /\ link'.fd = l.fd /\ link'.to = l.to /\ link'.authorized = l.authorized
            /\ link'.down = l.down
        BY <4>1, <2>1 DEF Links
      <4>. QED BY <4>1, <4>2, <2>1 DEF OkMeans
    <3>. QED BY <1>3, <3>1, <3>2, <3>3, <3>4, <3>5, <3>6
  <2>. QED BY <2>1, <2>2, ProxyStepKeeps
<1>. QED BY <1>1, <1>2, <1>3 DEF ProxyHandles, ProxyPing, ProxyOver, ProxyAuth, ProxyBind, ProxyRefuses, ProxyClose
-----------------------------------------------------------------------------
(* The bindings *)

\* The sockets that the pool has as bound, those whose Proxy-bound is on its way
\* and those whose Proxy-close is are different sockets of the client at the
\* proxy; there are none without a link, and none before it is authorized.
PoolOK ==
    /\ \A n \in Nums : cl.pool[n].psock \in PSocks =>
         /\ cl.pool[n].bound /\ cl.pool[n].psock \in link.udp
         /\ \A m \in Nums : cl.pool[m].psock = cl.pool[n].psock => m = n
         /\ link.open => cl.pool[n].psock \notin Told(link.down, "bound") \cup Told(link.up, "close")
    /\ link.open =>
         /\ Told(link.down, "bound") \subseteq link.udp /\ NoTwice(link.down, "bound")
         /\ Told(link.up, "close") \subseteq link.udp /\ NoTwice(link.up, "close")
         /\ Told(link.down, "bound") \cap Told(link.up, "close") = {}
    /\ ~link.open \/ ~link.authorized => link.udp = {}

\* A step that says nothing new on the link and binds no socket of the pool.
LEMMA PoolPasses ==
  ASSUME PoolOK, Passes(link, link'),
         \A n \in Nums : cl'.pool[n] = cl.pool[n] \/ cl'.pool[n].psock \notin PSocks
  PROVE  PoolOK'
<1>1. /\ link'.open = link.open /\ link'.udp = link.udp /\ (link.authorized => link'.authorized)
      /\ Told(link'.down, "bound") \subseteq Told(link.down, "bound")
      /\ NoTwice(link.down, "bound") => NoTwice(link'.down, "bound")
      /\ Told(link'.up, "close") \subseteq Told(link.up, "close")
      /\ NoTwice(link.up, "close") => NoTwice(link'.up, "close")
  BY DEF Passes
<1>. QED BY <1>1 DEF PoolOK

\* No socket is bound at the proxy any more, or a new link begins.
LEMMA PoolLeft ==
  ASSUME Unbound(cl'), link'.udp = {},
         link'.open => /\ Told(link'.down, "bound") = {} /\ NoTwice(link'.down, "bound")
                       /\ Told(link'.up, "close") = {} /\ NoTwice(link'.up, "close")
  PROVE  PoolOK'
  BY DEF PoolOK, Unbound

\* Without a socket at the proxy the pool has none.
LEMMA NoneThere ==
  ASSUME PoolOK, link.udp = {}
  PROVE  Unbound(cl)
  BY DEF PoolOK, Unbound

\* Where the link goes, the bindings go.
LEMMA PoolDrops ==
  ASSUME Sound, PoolOK, Drops
  PROVE  PoolOK'
<1>1. link.fd = NoFd => link.udp = {}
  BY DEF Sound, LinkOK, NoLink
<1>2. Unbound(cl') /\ link' = NoLink
  BY <1>1, NoneThere DEF Drops
<1>3. NoLink.udp = {} /\ ~NoLink.open
  BY DEF NoLink
<1>. QED BY <1>2, <1>3, PoolLeft

\* What connect_to_proxy() does to the link keeps the bindings right.
LEMMA PoolRebinds ==
  ASSUME Sound, PoolOK, Rebinds
  PROVE  PoolOK'
<1>1. CASE Drops
  BY <1>1, PoolDrops
<1>2. CASE Opens
  <2>1. link.udp = {}
    BY <1>2 DEF Opens, Sound, LinkOK, NoLink
  <2>2. Unbound(cl')
    BY <2>1, <1>2, NoneThere DEF Opens, Unbound
  <2>. QED BY <2>2, <1>2, PoolLeft DEF Opens
<1>3. CASE cl'.pool = cl.pool /\ Passes(link, link')
  BY <1>3, PoolPasses
<1>. QED BY <1>1, <1>2, <1>3 DEF Rebinds

\* proxy_close(): the number goes from the pool to the Proxy-close on its way.
LEMMA PoolCloses ==
  ASSUME Sound, PoolOK, NEW s \in Sockets, Close(s), ~hist'.stray
  PROVE  PoolOK'
<1>0. /\ link \in Links /\ cl \in Clients /\ cl.pool \in [Nums -> Items \cup {NoItem}]
      /\ link.up \in Seq(Msgs) /\ hist \in Histories
  BY DEF Sound, TypesOK, Clients, Links
<1>1. PICK n \in Named(s) : /\ link' = IF cl.proxy = link.fd THEN Up(link, "close", n) ELSE link
                            /\ hist' = [hist EXCEPT !.stray = @ \/ (link.open /\ n # cl.pool[s].psock)]
  BY DEF Close
<1>2. link.open => n = cl.pool[s].psock
  BY <1>0, <1>1 DEF Histories
<1>3. s \in Nums /\ n \in PSocks \cup {Foreign}
  BY DEF Named, Sockets, Sound, TypesOK, Items
<1>4. cl' = [Closed(cl, {s}) EXCEPT !.pool[s] = NewItem]
  BY DEF Close
<1>5. /\ \A m \in Nums \ {s} : cl'.pool[m] = cl.pool[m]
      /\ cl'.pool[s].psock = Foreign /\ Foreign \notin PSocks
  <2>. DEFINE c == Used(cl, {s}, "free")
              pool == [cl.pool EXCEPT ![s] = NewItem]
  <2>1. c \in Clients /\ c.pool = cl.pool
    BY <1>0, UsedKeeps DEF Uses
  <2>2. cl' = [c EXCEPT !.pool = pool]
    BY <1>4, <2>1 DEF Closed
  <2>3. pool[s] = NewItem /\ \A m \in Nums \ {s} : pool[m] = cl.pool[m]
    BY <1>0, <1>3
  <2>. HIDE DEF c, pool
  <2>4. cl'.pool = pool
    BY <2>1, <2>2 DEF Clients
  <2>. QED BY <2>3, <2>4, NoFdFacts DEF NewItem
<1>6. CASE cl.proxy # link.fd \/ n \notin PSocks \/ ~link.open
  <2>1. Passes(link, link')
    <3>1. CASE cl.proxy # link.fd
      BY <3>1, <1>0, <1>1, PassesSelf
    <3>2. CASE cl.proxy = link.fd /\ ~link.open
      <4>1. Up(link, "close", n) = link
        BY <3>2, <1>0 DEF Up, Links
      <4>. QED BY <4>1, <3>2, <1>0, <1>1, PassesSelf
    <3>3. CASE cl.proxy = link.fd /\ n \notin PSocks /\ link.open
      <4>. DEFINE q == Append(link.up, Msg("close", n))
      <4>1. "close" \in MsgKinds
        BY DEF MsgKinds
      <4>2. Up(link, "close", n) \in Links /\ Msg("close", n) \in Msgs
            /\ Up(link, "close", n) = [link EXCEPT !.up = IF link.open THEN q ELSE link.up]
        BY <4>1, <1>0, <1>3, UpKeeps
      <4>3. /\ Told(q, "close") \subseteq Told(link.up, "close")
            /\ NoTwice(link.up, "close") => NoTwice(q, "close")
        <5>1. Msg("close", n).kind = "close" /\ Msg("close", n).psock = n
          BY DEF Msg
        <5>2. n \notin Told(link.up, "close")
          BY <3>3 DEF Told
        <5>. QED BY <5>1, <5>2, <4>2, <1>0, <3>3, ToldSent
      <4>. HIDE DEF q
      <4>4. /\ link' \in Links /\ link'.fd = link.fd /\ link'.to = link.to /\ link'.open = link.open
            /\ link'.udp = link.udp /\ link'.authorized = link.authorized /\ link'.down = link.down
            /\ link'.up = q
        BY <4>2, <1>0, <1>1, <3>3 DEF Links
      <4>5. OkMeans(link) => OkMeans(link')
        BY <4>4 DEF OkMeans
      <4>. QED BY <4>3, <4>4, <4>5 DEF Passes
    <3>. QED BY <3>1, <3>2, <3>3, <1>6
  <2>. QED BY <2>1, <1>5, PoolPasses
<1>7. CASE cl.proxy = link.fd /\ n \in PSocks /\ link.open
  <2>. DEFINE q == Append(link.up, Msg("close", n))
  <2>1. "close" \in MsgKinds
    BY DEF MsgKinds
  <2>2. Up(link, "close", n) \in Links /\ Msg("close", n) \in Msgs
        /\ Up(link, "close", n) = [link EXCEPT !.up = IF link.open THEN q ELSE link.up]
    BY <2>1, <1>0, <1>3, UpKeeps
  <2>3. n = cl.pool[s].psock /\ n \in link.udp /\ n \notin Told(link.up, "close")
        /\ n \notin Told(link.down, "bound") /\ \A m \in Nums \ {s} : cl.pool[m].psock # n
    BY <1>2, <1>3, <1>7 DEF PoolOK
  <2>4. /\ Told(q, "close") = Told(link.up, "close") \cup {n}
        /\ NoTwice(link.up, "close") => NoTwice(q, "close")
    <3>1. Msg("close", n).kind = "close" /\ Msg("close", n).psock = n
      BY DEF Msg
    <3>. QED BY <3>1, <2>2, <2>3, <1>0, <1>7, ToldSent
  <2>. HIDE DEF q
  <2>5. /\ link'.open = link.open /\ link'.udp = link.udp /\ link'.authorized = link.authorized
        /\ link'.down = link.down /\ link'.up = q
    BY <2>2, <1>0, <1>1, <1>7 DEF Links
  <2>. QED BY <2>3, <2>4, <2>5, <1>5, <1>7 DEF PoolOK
<1>. QED BY <1>6, <1>7

\* Proxy-bound: the number goes from the message to the pool, once.
LEMMA PoolBinds ==
  ASSUME Sound, PoolOK, NEW k \in 1..Len(link.down), Bound(k)
  PROVE  PoolOK'
<1>0. /\ link \in Links /\ cl \in Clients /\ cl.pool \in [Nums -> Items \cup {NoItem}]
      /\ link.down \in Seq(Msgs)
  BY DEF Sound, TypesOK, Clients, Links
<1>. DEFINE p == IF link.open THEN Arrived.psock ELSE Foreign
            item == [bound |-> TRUE, psock |-> p]
<1>1. /\ cl' = [cl EXCEPT !.pool[Sock] = item]
      /\ link' \in {After(k), Up(After(k), "over", Foreign)}
      /\ Arrived.kind = "bound"
  BY DEF Bound, Takes, Arrived
<1>2. /\ Passes(link, After(k)) /\ After(k) \in Links
      /\ After(k).down = Tail1(link.down, k)
  BY <1>0, TakenPasses DEF Passes, After, Links
<1>3. Passes(link, link') /\ link'.down = Tail1(link.down, k)
  <2>1. "over" \in MsgKinds \ {"close"}
    BY DEF MsgKinds
  <2>2. Passes(After(k), Up(After(k), "over", Foreign))
    BY <2>1, <1>2, UpPasses
  <2>3. Passes(link, Up(After(k), "over", Foreign))
    BY <1>2, <2>2, PassesOn
  <2>4. Up(After(k), "over", Foreign).down = Tail1(link.down, k)
    BY <1>2 DEF Up, Links
  <2>5. CASE link' = After(k)
    BY <2>5, <1>2
  <2>6. CASE link' = Up(After(k), "over", Foreign)
    BY <2>6, <2>3, <2>4
  <2>. QED BY <1>1, <2>5, <2>6
<1>4. item.psock = p /\ item.bound
  OBVIOUS
<1>. HIDE DEF item, p
<1>5. \A m \in Nums : cl'.pool[m] = IF m = Sock THEN item ELSE cl.pool[m]
  BY <1>0, <1>1 DEF Clients
<1>6. CASE p \notin PSocks
  <2>1. \A m \in Nums : cl'.pool[m] = cl.pool[m] \/ cl'.pool[m].psock \notin PSocks
    BY <1>4, <1>5, <1>6
  <2>. QED BY <2>1, <1>3, PoolPasses
<1>7. CASE p \in PSocks
  <2>1. link.open /\ p = link.down[1].psock /\ link.down[1].kind = "bound"
    BY <1>7, <1>1, NoFdFacts DEF p, Arrived
  <2>2. /\ Told(link'.down, "bound") \subseteq Told(link.down, "bound")
        /\ NoTwice(link'.down, "bound")
        /\ p \notin Told(link'.down, "bound") /\ p \in Told(link.down, "bound")
    BY <2>1, <1>0, <1>3, <1>7, ToldTail DEF PoolOK
  <2>3. /\ link'.open = link.open /\ link'.udp = link.udp /\ (link.authorized => link'.authorized)
        /\ Told(link'.up, "close") \subseteq Told(link.up, "close")
        /\ NoTwice(link.up, "close") => NoTwice(link'.up, "close")
    BY <1>3 DEF Passes
  <2>4. \A m \in Nums : cl.pool[m].psock # p
    BY <2>1, <2>2, <1>7 DEF PoolOK
  <2>5. p \in link.udp /\ p \notin Told(link.up, "close")
    BY <2>1, <2>2 DEF PoolOK
  <2>6. \A m \in Nums : cl'.pool[m].psock \in PSocks =>
          /\ cl'.pool[m].bound /\ cl'.pool[m].psock \in link.udp
          /\ \A i \in Nums : cl'.pool[i].psock = cl'.pool[m].psock => i = m
          /\ cl'.pool[m].psock \notin Told(link'.down, "bound") \cup Told(link'.up, "close")
    BY <2>1, <2>2, <2>3, <2>4, <2>5, <1>4, <1>5 DEF PoolOK
  <2>. QED BY <2>1, <2>2, <2>3, <2>6 DEF PoolOK
<1>. QED BY <1>6, <1>7

\* A proxy that closes the link closes its sockets, and there were none before
\* the client was authorized.
LEMMA PoolHangsUp ==
  ASSUME PoolOK, NEW l \in Links, link' = HungUp(l), Unbound(cl')
  PROVE  PoolOK'
<1>1. ~HungUp(l).open /\ HungUp(l).udp = {}
  BY HungUpKeeps
<1>. QED BY <1>1, PoolLeft

\* What the proxy handles, and its end: Proxy-bound names a socket that is new,
\* Proxy-close one that the pool has no more.
LEMMA PoolServed ==
  ASSUME Sound, PoolOK, ProxyHandles \/ ProxyHangsUp \/ Beat
  PROVE  PoolOK'
<1>0. link \in Links /\ cl \in Clients /\ link.up \in Seq(Msgs) /\ link.down \in Seq(Msgs)
  BY DEF Sound, TypesOK, Links
<1>. DEFINE Same == \A n \in Nums : cl'.pool[n] = cl.pool[n] \/ cl'.pool[n].psock \notin PSocks
<1>1. cl' = cl => Same
  OBVIOUS
<1>2. Unbound(Unlinked(cl))
  BY <1>0, UnlinkedKeeps DEF Unbound
<1>3. CASE ProxyHangsUp
  BY <1>0, <1>2, <1>3, PoolHangsUp DEF ProxyHangsUp
<1>4. CASE Beat
  <2>1. link' = Down(link, "beat", Foreign) /\ cl' = cl
    BY <1>4 DEF Beat
  <2>2. "beat" \in MsgKinds \ {"bound"}
    BY DEF MsgKinds
  <2>3. Passes(link, link')
    BY <2>1, <2>2, <1>0, DownPasses
  <2>. QED BY <2>1, <2>3, <1>1, PoolPasses
<1>5. ASSUME NEW m, NEW k, NEW l, Handles(m, k, l),
             \/ ProxyPing(m, k, l) \/ ProxyOver(m, k, l) \/ ProxyAuth(m, k, l)
             \/ ProxyBind(m, k, l) \/ ProxyRefuses(m, k, l) \/ ProxyClose(m, k, l)
      PROVE  PoolOK'
  <2>1. /\ link.open /\ Passes(link, l) /\ l \in Links /\ m \in Msgs /\ m = link.up[1] /\ k \in 1..Len(link.up)
        /\ l.authorized = link.authorized /\ l.up = Tail1(link.up, k) /\ l.down = link.down /\ l.open
        /\ l.udp = link.udp
    BY <1>5, HandlesGives DEF Passes
  <2>2. ASSUME Passes(l, link'), cl' = cl
        PROVE  PoolOK'
    <3>1. Passes(link, link')
      BY <2>1, <2>2, PassesOn
    <3>. QED BY <3>1, <2>2, <1>1, PoolPasses
  <2>3. CASE ProxyPing(m, k, l)
    <3>1. link' = Down(l, "pong", Foreign) /\ cl' = cl /\ "pong" \in MsgKinds \ {"bound"}
      BY <2>3 DEF ProxyPing, MsgKinds
    <3>2. Passes(l, link')
      BY <3>1, <2>1, DownPasses
    <3>. QED BY <3>1, <3>2, <2>2
  <2>4. CASE ProxyOver(m, k, l)
    <3>1. link' = l /\ cl' = cl
      BY <2>4 DEF ProxyOver
    <3>2. Passes(l, link')
      BY <3>1, <2>1, PassesSelf
    <3>. QED BY <3>1, <3>2, <2>2
  <2>5. CASE ProxyAuth(m, k, l)
    <3>0. "ok" \in MsgKinds \ {"bound"} /\ "key" \in MsgKinds \ {"bound"} /\ "failed" \in MsgKinds \ {"bound"} /\ cl' = cl
      BY <2>5 DEF MsgKinds, ProxyAuth
    <3>1. CASE l.authorized /\ link' = Down(l, "ok", Foreign)
      <4>1. Passes(l, link')
        BY <3>0, <3>1, <2>1, DownPasses
      <4>. QED BY <3>0, <4>1, <2>2
    <3>2. CASE link' = Down(l, "key", Foreign)
      <4>1. Passes(l, link')
        BY <3>0, <3>2, <2>1, DownPasses
      <4>. QED BY <3>0, <4>1, <2>2
    <3>3. CASE ~l.authorized /\ (link' = HungUp(l) \/ link' = HungUp(Down(l, "failed", Foreign)))
      <4>1. Down(l, "failed", Foreign) \in Links
        BY <3>0, <2>1, DownKeeps
      <4>2. link.udp = {}
        BY <3>3, <2>1 DEF PoolOK
      <4>3. Unbound(cl')
        BY <4>2, <3>0, NoneThere
      <4>. QED BY <4>1, <4>3, <3>3, <2>1, PoolHangsUp
    <3>4. CASE link' = Down([l EXCEPT !.authorized = TRUE], "ok", Foreign)
      <4>. DEFINE a == [l EXCEPT !.authorized = TRUE]
      <4>1. /\ a \in Links /\ a.fd = l.fd /\ a.to = l.to /\ a.authorized /\ a.down = l.down /\ a.up = l.up
            /\ a.open = l.open /\ a.udp = l.udp
        BY <2>1 DEF Links
      <4>. HIDE DEF a
      <4>2. OkMeans(l) => OkMeans(a)
        BY <4>1 DEF OkMeans
      <4>3. Passes(l, a)
        BY <4>1, <4>2 DEF Passes
      <4>4. link' = Down(a, "ok", Foreign)
        BY <3>4 DEF a
      <4>5. Passes(a, link')
        BY <3>0, <4>1, <4>4, DownPasses
      <4>6. Passes(l, link')
        BY <4>3, <4>5, PassesOn
      <4>. QED BY <3>0, <4>6, <2>2
    <3>. QED BY <2>5, <3>1, <3>2, <3>3, <3>4 DEF ProxyAuth
  <2>6. CASE ProxyBind(m, k, l)
    <3>0. "bound" \in MsgKinds /\ "error" \in MsgKinds \ {"bound"} /\ cl' = cl
      BY <2>6 DEF MsgKinds, ProxyBind
    <3>1. CASE link' = Down(l, "error", Foreign)
      <4>1. Passes(l, link')
        BY <3>0, <3>1, <2>1, DownPasses
      <4>. QED BY <3>0, <4>1, <2>2
    <3>2. ASSUME NEW n \in PSocks, n \notin l.udp, l.authorized,
                 link' = [Down(l, "bound", n) EXCEPT !.udp = @ \cup {n}]
          PROVE  PoolOK'
      <4>. DEFINE q == Append(l.down, Msg("bound", n))
      <4>1. Down(l, "bound", n) \in Links /\ Msg("bound", n) \in Msgs /\ Down(l, "bound", n) = [l EXCEPT !.down = q]
        BY <3>0, <2>1, DownKeeps
      <4>2. /\ Told(link.down, "bound") \subseteq link.udp /\ NoTwice(link.down, "bound")
            /\ Told(link.up, "close") \subseteq link.udp /\ NoTwice(link.up, "close")
            /\ Told(link.down, "bound") \cap Told(link.up, "close") = {}
        BY <2>1 DEF PoolOK
      <4>3. Told(q, "bound") = Told(link.down, "bound") \cup {n} /\ NoTwice(q, "bound")
        <5>1. Msg("bound", n).kind = "bound" /\ Msg("bound", n).psock = n
          BY DEF Msg
        <5>. QED BY <5>1, <4>1, <4>2, <3>2, <2>1, <1>0, ToldSent
      <4>4. /\ Told(l.up, "close") \subseteq Told(link.up, "close") /\ NoTwice(l.up, "close")
        BY <4>2, <2>1 DEF Passes
      <4>. HIDE DEF q
      <4>5. /\ link'.open /\ link'.udp = link.udp \cup {n} /\ link'.authorized
            /\ link'.down = q /\ link'.up = l.up
        BY <4>1, <3>2, <2>1 DEF Links
      <4>6. \A i \in Nums : cl.pool[i].psock \in PSocks =>
              /\ cl.pool[i].bound /\ cl.pool[i].psock \in link.udp
              /\ \A j \in Nums : cl.pool[j].psock = cl.pool[i].psock => j = i
              /\ cl.pool[i].psock \notin Told(link.down, "bound") \cup Told(link.up, "close")
        BY <2>1 DEF PoolOK
      <4>. QED BY <4>2, <4>3, <4>4, <4>5, <4>6, <3>0, <3>2, <2>1 DEF PoolOK
    <3>. QED BY <2>6, <3>0, <3>1, <3>2 DEF ProxyBind
  <2>7. CASE ProxyRefuses(m, k, l)
    <3>1. link' = HungUp(Down(l, "failed", Foreign)) /\ cl' = Unlinked(cl) /\ "failed" \in MsgKinds
      BY <2>7 DEF ProxyRefuses, MsgKinds
    <3>2. Down(l, "failed", Foreign) \in Links
      BY <3>1, <2>1, DownKeeps
    <3>. QED BY <3>1, <3>2, <1>2, PoolHangsUp
  <2>8. CASE ProxyClose(m, k, l)
    <3>1. link' = [l EXCEPT !.udp = @ \ {m.psock}] /\ cl' = cl /\ m.kind = "close"
      BY <2>8 DEF ProxyClose
    <3>2. /\ link'.open /\ link'.udp = link.udp \ {m.psock} /\ link'.authorized = link.authorized
          /\ link'.down = link.down /\ link'.up = l.up
      BY <3>1, <2>1 DEF Links
    <3>3. /\ Told(link.down, "bound") \subseteq link.udp /\ NoTwice(link.down, "bound")
          /\ Told(link.up, "close") \subseteq link.udp /\ NoTwice(link.up, "close")
          /\ Told(link.down, "bound") \cap Told(link.up, "close") = {}
      BY <2>1 DEF PoolOK
    <3>4. /\ Told(l.up, "close") \subseteq Told(link.up, "close") /\ NoTwice(l.up, "close")
          /\ m.psock \notin Told(l.up, "close")
          /\ m.psock \in PSocks => m.psock \in Told(link.up, "close")
      BY <3>1, <3>3, <2>1, <1>0, ToldTail
    <3>5. \A i \in Nums : cl.pool[i].psock \in PSocks =>
            /\ cl.pool[i].bound /\ cl.pool[i].psock \in link.udp
            /\ \A j \in Nums : cl.pool[j].psock = cl.pool[i].psock => j = i
            /\ cl.pool[i].psock \notin Told(link.down, "bound") \cup Told(link.up, "close")
      BY <2>1 DEF PoolOK
    <3>6. Told(link.down, "bound") \subseteq PSocks
      BY DEF Told
    <3>. QED BY <3>1, <3>2, <3>3, <3>4, <3>5, <3>6, <2>1 DEF PoolOK
  <2>. QED BY <1>5, <2>3, <2>4, <2>5, <2>6, <2>7, <2>8
<1>. QED BY <1>3, <1>4, <1>5 DEF ProxyHandles, ProxyPing, ProxyOver, ProxyAuth, ProxyBind, ProxyRefuses, ProxyClose

\* The other calls of the program.
LEMMA PoolCalled ==
  ASSUME Sound, PoolOK, Program, ~hist'.stray
  PROVE  PoolOK'
<1>0. /\ link \in Links /\ cl \in Clients /\ cl.pool \in [Nums -> Items \cup {NoItem}]
      /\ Passes(link, link) /\ NewItem.psock = Foreign
  BY PassesSelf DEF Sound, TypesOK, Clients, NewItem
<1>1. CASE Socket
  <2>. DEFINE new == {n \in Free : cl.pool[n] = NoItem}
              c   == Used(cl, {n \in Free : \A m \in new : n < m}, "udp")
  <2>1. c \in Clients /\ c.pool = cl.pool
    BY <1>0, UsedKeeps DEF Uses
  <2>2. /\ link' = link
        /\ cl' = c \/ cl' = [c EXCEPT !.fd[Min(new)] = "app", !.pool[Min(new)] = NewItem]
    BY <1>1 DEF Socket
  <2>. HIDE DEF c, new
  <2>3. cl'.pool = cl.pool \/ cl'.pool = [cl.pool EXCEPT ![Min(new)] = NewItem]
    BY <2>1, <2>2 DEF Clients
  <2>4. \A n \in Nums : cl'.pool[n] = cl.pool[n] \/ cl'.pool[n].psock \notin PSocks
    BY <2>3, <1>0, NoFdFacts
  <2>. QED BY <2>2, <2>4, <1>0, PoolPasses
<1>2. CASE SetServer \/ SelectEnd
  <2>1. PICK c \in Clients : c.fd = cl.fd /\ c.pool = cl.pool /\ LeakLink(c)
    <3>1. /\ [cl EXCEPT !.addr = NULL, !.proxy = NoFd] \in Clients
          /\ [cl EXCEPT !.addr = NULL, !.proxy = NoFd].fd = cl.fd
          /\ [cl EXCEPT !.addr = NULL, !.proxy = NoFd].pool = cl.pool
      BY <1>0 DEF Clients
    <3>2. /\ [cl EXCEPT !.proxy = NoFd] \in Clients
          /\ [cl EXCEPT !.proxy = NoFd].fd = cl.fd /\ [cl EXCEPT !.proxy = NoFd].pool = cl.pool
      BY <1>0 DEF Clients
    <3>3. LeakLink([cl EXCEPT !.addr = NULL, !.proxy = NoFd]) \/ LeakLink([cl EXCEPT !.proxy = NoFd])
      BY <1>2 DEF SetServer, SelectEnd
    <3>. QED BY <3>1, <3>2, <3>3
  <2>2. Drops
    BY <2>1, LeakLinkGives
  <2>. QED BY <2>2, PoolDrops
<1>3. CASE Select
  <2>1. PICK k \in 1..Len(link.down) : link' = After(k)
    BY <1>3 DEF Select
  <2>2. cl' = cl
    BY <1>3 DEF Select
  <2>3. Passes(link, link')
    BY <2>1, <1>0, TakenPasses
  <2>. QED BY <2>2, <2>3, PoolPasses
<1>4. ASSUME NEW s \in Sockets, Bind(s) \/ CloseDirect(s)
      PROVE  PoolOK'
  <2>1. link' = link /\ (cl' = cl \/ cl' = Used(cl, {s}, "free"))
    BY <1>4 DEF Bind, CloseDirect, Closed
  <2>2. Used(cl, {s}, "free").pool = cl.pool
    BY <1>0, UsedKeeps DEF Uses
  <2>3. cl'.pool = cl.pool
    BY <2>1, <2>2
  <2>. QED BY <2>1, <2>3, <1>0, PoolPasses
<1>5. ASSUME NEW s \in Sockets, Close(s)
      PROVE  PoolOK'
  BY <1>5, PoolCloses
<1>. QED BY <1>1, <1>2, <1>3, <1>4, <1>5 DEF Program

\* The rest of proxy_bind().
LEMMA PoolBound ==
  ASSUME Sound, PoolOK, Binds
  PROVE  PoolOK'
<1>0. link \in Links /\ cl \in Clients /\ Passes(link, link)
  BY PassesSelf DEF Sound, TypesOK
<1>1. ASSUME NEW k \in 1..Len(link.down), Bound(k)
      PROVE  PoolOK'
  BY <1>1, PoolBinds
<1>2. ASSUME NEW k \in 1..Len(link.down), Unauthorized(k) \/ PassedOver(k)
      PROVE  PoolOK'
  <2>1. link' = After(k) /\ cl' = cl
    BY <1>2 DEF Unauthorized, PassedOver
  <2>2. Passes(link, link')
    BY <2>1, <1>0, TakenPasses
  <2>. QED BY <2>1, <2>2, PoolPasses
<1>3. CASE LocalFails \/ WaitReset
  BY <1>0, <1>3, PoolPasses DEF LocalFails, WaitReset
<1>4. CASE Local
  <2>1. cl'.pool = cl.pool
    BY <1>0, <1>4 DEF Local, Clients
  <2>2. "bind" \in MsgKinds \ {"close"}
    BY DEF MsgKinds
  <2>3. link' = link \/ link' = Up(link, "bind", Foreign)
    BY <1>4 DEF Local
  <2>4. Passes(link, Up(link, "bind", Foreign))
    BY <2>2, <1>0, UpPasses
  <2>5. CASE link' = link
    BY <2>1, <2>5, <1>0, PoolPasses
  <2>6. CASE link' = Up(link, "bind", Foreign)
    BY <2>1, <2>4, <2>6, PoolPasses
  <2>. QED BY <2>3, <2>5, <2>6
<1>. QED BY <1>1, <1>2, <1>3, <1>4 DEF Binds
-----------------------------------------------------------------------------
(* The server's side *)

\* The server has its types; before it has tested the connection, a request that
\* it can answer is there.
ServerSound == srv \in Servers /\ (srv.open /\ ~srv.tested => srv.reqs > 0)

\* What a call does to the server's side: nothing, the connection is closed, or
\* opened for the first request, another proxy is asked for, or answers are read.
Requests ==
    \/ srv' = srv \/ srv' = NoServer
    \/ \E T \in Tables : srv' = [NoServer EXCEPT !.open = TRUE, !.reqs = 1, !.table = T]
    \/ srv' = [srv EXCEPT !.reqs = @ + 1]
    \/ \E k \in 1..Len(srv.out) : srv' = Answered(k) \/ srv' = [Answered(k) EXCEPT !.reqs = @ + 2]

\* No step but the server's own does anything else.
LEMMA CallRequests ==
  ASSUME SessionNext, ~ServerAnswers, ~ServerHangsUp
  PROVE  Requests
<1>1. CASE Program
  BY <1>1 DEF Program, Socket, SetServer, Select, SelectEnd, Bind, Close, CloseDirect, Requests
<1>2. CASE Asks
  <2>1. CASE AskUnserved \/ Ask \/ AskReset
    BY <2>1 DEF AskUnserved, Ask, AskReset, AskReturns, Requests
  <2>2. ASSUME NEW k \in 1..Len(srv.out), AskDirect(k) \/ AskBehind(k) \/ AskOffered(k) \/ AskNone(k)
        PROVE  Requests
    BY <2>2 DEF AskDirect, AskBehind, AskOffered, AskNone, AskReturns, Requests
  <2>. QED BY <1>2, <2>1, <2>2 DEF Asks
<1>3. CASE ConnectsToProxy
  <2>1. \A c, F : Refused(c, F) => Requests
    BY DEF Refused, Requests
  <2>2. \A l : Accepted(l) => Requests
    BY DEF Accepted, Requests
  <2>3. CASE ConnectNone \/ ConnectNowhere \/ Ping \/ PingFails \/ Pong \/ ConnectFails \/ Connect
    BY <2>1, <2>2, <2>3 DEF ConnectNone, ConnectNowhere, Ping, PingFails, Pong, ConnectFails, Connect, Greeted, Requests
  <2>4. CASE LinkReset \/ NoKeys \/ Authenticate \/ AuthFails
    BY <2>1, <2>2, <2>4 DEF LinkReset, NoKeys, Authenticate, AuthFails, Requests
  <2>6. CASE StaleFails \/ StaleConnects \/ StaleSends \/ StaleAnswer
    <3>1. GivenUp => Requests
      BY <2>1 DEF GivenUp, Requests
    <3>2. \A n : Greeted(n) => Requests
      BY DEF Greeted, Requests
    <3>. QED BY <2>1, <2>2, <2>6, <3>1, <3>2 DEF StaleFails, StaleConnects, StaleSends, StaleAnswer, Requests
  <2>5. CASE \E k \in 1..Len(link.down) : AuthKey(k) \/ AuthOk(k)
    BY <2>2, <2>5 DEF AuthKey, AuthOk, Requests
  <2>. QED BY <1>3, <2>3, <2>4, <2>5, <2>6 DEF ConnectsToProxy
<1>4. CASE Binds
  BY <1>4 DEF Binds, LocalFails, Local, WaitReset, Bound, Unauthorized, PassedOver, Requests
<1>5. CASE ProxyHandles \/ ProxyHangsUp \/ Beat
  BY <1>5 DEF ProxyHandles, ProxyHangsUp, Beat, ProxyPing, ProxyOver, ProxyAuth, ProxyBind, ProxyRefuses,
              ProxyClose, Handles, Requests
<1>6. CASE Spins
  BY <1>6 DEF Spins, vars, Requests
<1>. QED BY <1>1, <1>2, <1>3, <1>4, <1>5, <1>6 DEF SessionNext

\* The connection to the server before it is made.
LEMMA NoServerTyped == NoServer \in Servers
<1>1. <<>> \in Seq(Proxies \cup {"no", NoProxy}) /\ <<>> \in Tables \cup {<<>>}
  OBVIOUS
<1>. QED BY <1>1 DEF NoServer, Servers

\* Requests and answers keep the types of the server's side.
LEMMA RequestsKeep ==
  ASSUME ServerSound, Requests
  PROVE  ServerSound'
<1>1. CASE srv' = srv
  BY <1>1 DEF ServerSound
<1>2. CASE srv' = NoServer
  BY <1>2, NoServerTyped DEF ServerSound, NoServer
<1>3. ASSUME NEW T \in Tables, srv' = [NoServer EXCEPT !.open = TRUE, !.reqs = 1, !.table = T]
      PROVE  ServerSound'
  <2>1. srv' = [open |-> TRUE, tested |-> FALSE, reqs |-> 1, out |-> <<>>,
                assigned |-> NoProxy, bad |-> {}, again |-> FALSE, table |-> T]
    BY <1>3 DEF NoServer
  <2>2. <<>> \in Seq(Proxies \cup {"no", NoProxy})
    OBVIOUS
  <2>. QED BY <2>1, <2>2 DEF ServerSound, Servers
<1>4. CASE srv' = [srv EXCEPT !.reqs = @ + 1]
  BY <1>4 DEF ServerSound, Servers
<1>5. ASSUME NEW k \in 1..Len(srv.out), NEW n \in {0, 2},
             srv' = [srv EXCEPT !.out = Tail1(@, k), !.reqs = @ + n]
      PROVE  ServerSound'
  <2>1. Tail1(srv.out, k) \in Seq(Proxies \cup {"no", NoProxy})
    BY DEF ServerSound, Servers, Tail1
  <2>2. srv.reqs + n \in Nat /\ (srv.reqs > 0 => srv.reqs + n > 0)
    BY DEF ServerSound, Servers
  <2>3. srv' = [open |-> srv.open, tested |-> srv.tested, reqs |-> srv.reqs + n, out |-> Tail1(srv.out, k),
                assigned |-> srv.assigned, bad |-> srv.bad, again |-> srv.again, table |-> srv.table]
    BY <1>5 DEF ServerSound, Servers
  <2>. QED BY <2>1, <2>2, <2>3 DEF ServerSound, Servers
<1>6. ASSUME NEW k \in 1..Len(srv.out), srv' = Answered(k) \/ srv' = [Answered(k) EXCEPT !.reqs = @ + 2]
      PROVE  ServerSound'
  <2>1. srv.reqs \in Nat /\ srv.reqs + 0 = srv.reqs
    BY DEF ServerSound, Servers
  <2>2. \E n \in {0, 2} : srv' = [srv EXCEPT !.out = Tail1(@, k), !.reqs = @ + n]
    BY <1>6, <2>1 DEF Answered, ServerSound, Servers
  <2>. QED BY <1>5, <2>2
<1>. QED BY <1>1, <1>2, <1>3, <1>4, <1>6 DEF Requests

\* What the server does keeps them: find_proxy() assigns one of its proxies or
\* none, and no request is answered that did not arrive.
LEMMA AnswersKeep ==
  ASSUME ServerSound, ServerAnswers \/ ServerHangsUp
  PROVE  ServerSound'
<1>1. CASE ServerTests
  <2>1. srv.reqs - 1 \in Nat /\ Append(srv.out, "no") \in Seq(Proxies \cup {"no", NoProxy})
    BY <1>1 DEF ServerTests, ServerSound, Servers
  <2>. QED BY <1>1, <2>1 DEF ServerTests, ServerSound, Servers
<1>2. ASSUME NEW k \in 1..srv.reqs, ServerAssigns(k)
      PROVE  ServerSound'
  <2>. DEFINE bad == srv.bad \cup ({srv.assigned} \ {NoProxy})
              p   == FindProxy(srv.table, bad)
  <2>1. bad \in SUBSET Proxies /\ srv.reqs - k \in Nat
    BY DEF ServerSound, Servers
  <2>2. srv.table \in Seq(Entries(Proxies, Nat))
    <3>1. srv.table \in Tables \/ srv.table = <<>>
      BY DEF ServerSound, Servers
    <3>2. <<>> \in Seq(Entries(Proxies, Nat))
      OBVIOUS
    <3>3. Tables \subseteq Seq(Entries(Proxies, Nat))
      BY TablesAssumption
    <3>. QED BY <3>1, <3>2, <3>3
  <2>3. p \in Proxies \cup {NoProxy}
    BY <2>2, NoFdFacts, FindsOrNone
  <2>4. srv' = [srv EXCEPT !.tested = TRUE, !.reqs = @ - k, !.out = Append(@, p),
                           !.assigned = p, !.bad = bad, !.again = @ \/ p \in bad]
    BY <1>2 DEF ServerAssigns
  <2>. HIDE DEF p, bad
  <2>5. /\ Append(srv.out, p) \in Seq(Proxies \cup {"no", NoProxy})
        /\ (srv.again \/ p \in bad) \in BOOLEAN
    BY <2>3 DEF ServerSound, Servers
  <2>. QED BY <2>1, <2>3, <2>4, <2>5 DEF ServerSound, Servers
<1>3. CASE ServerHangsUp
  BY <1>3 DEF ServerHangsUp, ServerSound, Servers
<1>. QED BY <1>1, <1>2, <1>3 DEF ServerAnswers

-----------------------------------------------------------------------------
(* The theorems *)

\* At the start there is no link and nothing is bound.
LEMMA SessionBegins ==
  ASSUME SessionInit
  PROVE  Sound /\ PoolOK
<1>1. NoItem \in Items \cup {NoItem} /\ NoItem.psock = NoFd
  BY DEF NoItem
<1>2. /\ cl \in Clients /\ (\A n \in Nums : cl.fd[n] = "free" /\ cl.pool[n] = NoItem)
      /\ call = Idle /\ link = NoLink /\ hist = [stale |-> FALSE, stray |-> FALSE]
  <2>. DEFINE fd   == [n \in Nums |-> "free"]
              pool == [n \in Nums |-> NoItem]
  <2>1. /\ cl \in [fd : {fd}, pool : {pool}, addr : {NULL}, behind : {FALSE}, proxy : {NoFd}, keys : BOOLEAN]
        /\ call = Idle /\ link = NoLink /\ hist = [stale |-> FALSE, stray |-> FALSE]
    BY DEF SessionInit
  <2>2. fd \in [Nums -> Uses] /\ (\A n \in Nums : fd[n] = "free")
    BY DEF Uses
  <2>3. pool \in [Nums -> Items \cup {NoItem}] /\ \A n \in Nums : pool[n] = NoItem
    BY <1>1
  <2>. HIDE DEF fd, pool
  <2>4. cl \in Clients /\ cl.fd = fd /\ cl.pool = pool
    BY <2>1, <2>2, <2>3 DEF Clients
  <2>. QED BY <2>1, <2>2, <2>3, <2>4
<1>3. NoLink \in Links /\ NoLink.fd = NoFd /\ ~NoLink.open /\ NoLink.udp = {} /\ Len(NoLink.down) = 0
  BY NoLinkTyped DEF NoLink
<1>4. TypesOK
  BY <1>2, <1>3, IdleGives DEF TypesOK, Histories
<1>5. DescriptorsOK
  BY <1>2, IdleGives DEF DescriptorsOK
<1>6. LinkOK
  BY <1>2, <1>3, IdleGives DEF LinkOK
<1>7. PoolOK
  BY <1>1, <1>2, <1>3, NoFdFacts DEF PoolOK
<1>. QED BY <1>4, <1>5, <1>6, <1>7 DEF Sound

\* A step that changes neither the program nor its call nor the link.
LEMMA ElsewhereKeeps ==
  ASSUME Sound, UNCHANGED <<cl, call, link, hist>>
  PROVE  Sound' /\ (PoolOK => PoolOK')
  BY DEF Sound, TypesOK, DescriptorsOK, LinkOK, Names, PoolOK

\* Every step keeps the invariant, and a close that went astray stays known.
LEMMA SessionStep ==
  ASSUME Sound, ~hist.stray => PoolOK, [SessionNext]_vars
  PROVE  Sound' /\ (~hist'.stray => PoolOK')
<1>1. ~hist'.stray => ~hist.stray
  <2>1. hist \in Histories
    BY DEF Sound, TypesOK
  <2>2. CASE Program
    <3>1. ASSUME NEW s \in Sockets, Close(s)
          PROVE  hist.stray => hist'.stray
      BY <2>1, <3>1 DEF Close, Histories
    <3>2. hist' = hist \/ \E s \in Sockets : Close(s)
      BY <2>2 DEF Program, Socket, SetServer, Select, SelectEnd, Bind, CloseDirect
    <3>. QED BY <3>1, <3>2
  <2>3. CASE StaleFails \/ StaleConnects \/ StaleSends
    BY <2>1, <2>3 DEF StaleFails, StaleConnects, StaleSends, UseStale, Histories
  <2>4. CASE ConnectsToProxy /\ ~(StaleFails \/ StaleConnects \/ StaleSends)
    BY <2>4 DEF StaleAnswer, ConnectsToProxy, ConnectNone, ConnectNowhere, Ping, PingFails, Pong, ConnectFails, Connect,
                LinkReset, NoKeys, Authenticate, AuthFails, AuthKey, AuthOk
  <2>5. CASE Asks
    BY <2>5 DEF Asks, AskUnserved, Ask, AskReset, AskDirect, AskBehind, AskOffered, AskNone
  <2>6. CASE Binds
    BY <2>6 DEF Binds, LocalFails, Local, WaitReset, Bound, Unauthorized, PassedOver
  <2>7. CASE ProxyHandles \/ ProxyHangsUp \/ Beat
    BY <2>7 DEF ProxyHandles, ProxyHangsUp, Beat, ProxyPing, ProxyOver, ProxyAuth, ProxyBind, ProxyRefuses,
                ProxyClose, Handles
  <2>8. CASE ServerAnswers \/ ServerHangsUp
    BY <2>8 DEF ServerAnswers, ServerTests, ServerAssigns, ServerHangsUp
  <2>9. CASE Spins \/ UNCHANGED vars
    BY <2>9 DEF Spins, vars
  <2>. QED BY <2>2, <2>3, <2>4, <2>5, <2>6, <2>7, <2>8, <2>9 DEF SessionNext
<1>2. CASE Program
  BY <1>1, <1>2, ProgramKeeps, PoolCalled
<1>3. CASE Asks
  <2>1. Sound' /\ (Drops \/ (link' = link /\ cl'.pool = cl.pool))
    BY <1>3, AsksKeep
  <2>2. link \in Links
    BY DEF Sound, TypesOK
  <2>3. Rebinds
    BY <2>1, <2>2, PassesSelf DEF Rebinds
  <2>4. PoolOK => PoolOK'
    BY <2>3, PoolRebinds
  <2>. QED BY <2>1, <2>4, <1>1
<1>4. CASE ConnectsToProxy
  <2>1. Sound' /\ Rebinds
    BY <1>4, ConnectsKeep
  <2>2. PoolOK => PoolOK'
    BY <2>1, PoolRebinds
  <2>. QED BY <2>1, <2>2, <1>1
<1>5. CASE Binds
  <2>1. Sound' /\ (PoolOK => PoolOK')
    BY <1>5, BindsKeep, PoolBound
  <2>. QED BY <2>1, <1>1
<1>6. CASE ProxyHandles \/ ProxyHangsUp \/ Beat
  <2>1. Sound' /\ (PoolOK => PoolOK')
    BY <1>6, ProxyKeeps, PoolServed
  <2>. QED BY <2>1, <1>1
<1>7. CASE ServerAnswers \/ ServerHangsUp \/ Spins \/ UNCHANGED vars
  <2>1. UNCHANGED <<cl, call, link, hist>>
    BY <1>7 DEF ServerAnswers, ServerTests, ServerAssigns, ServerHangsUp, Spins, vars
  <2>2. Sound' /\ (PoolOK => PoolOK')
    BY <2>1, ElsewhereKeeps
  <2>. QED BY <2>2, <1>1
<1>. QED BY <1>2, <1>3, <1>4, <1>5, <1>6, <1>7 DEF SessionNext

\* The program, its call, the link and the history keep their types, the
\* descriptors of a call and of the link are the ones they name, and the link is
\* where the call takes it to be, but for the connection to the managing server
\* that has the number of one that was closed; up to a Proxy-close that names another socket,
\* the numbers of the pool are those of this client's sockets at the proxy.
THEOREM SessionSound == SessionSpec => [](Sound /\ (~hist.stray => PoolOK))
<1>1. SessionInit => Sound /\ (~hist.stray => PoolOK)
  BY SessionBegins
<1>2. Sound /\ (~hist.stray => PoolOK) /\ [SessionNext]_vars => (Sound /\ (~hist.stray => PoolOK))'
  BY SessionStep
<1>. QED BY <1>1, <1>2, PTL DEF SessionSpec

\* A call that has returned has left no test_sock, no my_sock and no connection
\* open that the variable proxy does not name, whichever way it took.
THEOREM NothingLeaks == SessionSpec => []NoLeak
<1>1. Sound => NoLeak
  BY NoFdFacts DEF Sound, DescriptorsOK, LinkOK, NoLeak
<1>. QED BY <1>1, SessionSound, PTL

\* Behind the loop of proxy_bind() there is the link to the proxy whose address
\* the program is given, and a client with keys is authorized there; or the
\* number of a link that was closed, which a connection to the managing server
\* has by now.
THEOREM LinkThereToBind == SessionSpec => []Linked
<1>1. Sound => Linked
  BY DEF Sound, LinkOK, Names, Linked
<1>. QED BY <1>1, SessionSound, PTL

\* What the pool has as bound is a socket of this client at the proxy, unless a
\* Proxy-close named another socket.
THEOREM SocketsBoundThere == SessionSpec => []BoundThere
<1>1. (~hist.stray => PoolOK) => BoundThere
  BY DEF PoolOK, BoundThere
<1>. QED BY <1>1, SessionSound, PTL

\* Both sides of a session keep their types: what the program and the library
\* hold, the messages on their way, and the answers of the server, which names
\* none but the proxies of its list and answers no request that did not arrive.
THEOREM SessionTypes == SessionSpec => []SessionTypeOK
<1>1. SessionInit => ServerSound
  BY NoServerTyped DEF SessionInit, ServerSound, NoServer
<1>2. ServerSound /\ [SessionNext]_vars => ServerSound'
  <2>1. UNCHANGED vars => srv' = srv
    BY DEF vars
  <2>. QED BY <2>1, CallRequests, RequestsKeep, AnswersKeep DEF ServerSound
<1>3. SessionSpec => []ServerSound
  BY <1>1, <1>2, PTL DEF SessionSpec
<1>4. Sound /\ ServerSound => SessionTypeOK
  BY DEF Sound, TypesOK, ServerSound, SessionTypeOK
<1>. QED BY <1>3, <1>4, SessionSound, PTL
=============================================================================
