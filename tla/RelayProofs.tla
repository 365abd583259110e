------------------------------ MODULE RelayProofs ------------------------------
(***************************************************************************)
(* Datagrams that go by UDP, in the connection, or part of the way each,   *)
(* arrive where they were sent: for any number of sockets, peers, ports    *)
(* and datagrams, and any capacity of the connection.                      *)
(***************************************************************************)
EXTENDS Relay, TLAPS

\* A datagram on its way: from a peer, a heartbeat, from the client to the
\* proxy, from the proxy to a peer, from the proxy to the client, and one of the
\* client's own that the proxy took for a peer's.
FromPeer(d) == \E p \in Peers, s \in Socks : d = Packet(p, ProxyAt(s), NoAddr, <<p, s>>)
Beats(d)    == \E s \in Socks, n \in 1..MaxPort : d = Packet(ClientAt(s, n), ProxyAt(s), NoAddr, BeatData)
ForPeer(d)  == \E s \in Socks, n \in 1..MaxPort, p \in Peers :
                 d = Packet(ClientAt(s, n), ProxyAt(s), p, <<s, p>>)
ToPeer(d)   == \E s \in Socks, p \in Peers : d = Packet(ProxyAt(s), p, NoAddr, <<s, p>>)
ToClient(d) == \E s \in Socks, n \in 1..MaxPort, p \in Peers :
                 d = Packet(ProxyAt(s), ClientAt(s, n), p, <<p, s>>)
Back(d)     == \E s \in Socks, n, m \in 1..MaxPort, x \in Payloads :
                 d = Packet(ProxyAt(s), ClientAt(s, n), ClientAt(s, m), x)

Honest(d) == FromPeer(d) \/ Beats(d) \/ ForPeer(d) \/ ToPeer(d) \/ ToClient(d) \/ Back(d)

\* What a connection holds.
Pieces == {Header(s) : s \in Socks} \cup {BeatOk} \cup {IsOver(b) : b \in BOOLEAN}
          \cup {Body(a, x) : a \in Peers \cup Outside, x \in Payloads}

\* A header with the body that belongs to it, in both directions.
UpPairs   == UNION {{<<Header(s), Body(p, <<s, p>>)>> : p \in Peers} : s \in Socks}
DownPairs == {<<Header(s), Body(p, <<p, s>>)>> : s \in Socks, p \in Peers}
             \cup {<<Header(s), Body(a, x)>> : s \in Socks, a \in Outside, x \in Payloads}

\* Behind each header is its body, though a body may have lost its header.
Paired(q, T) ==
    /\ q \in Seq(Pieces)
    /\ \A j \in DOMAIN q : q[j].kind = "over" => j + 1 \in DOMAIN q /\ <<q[j], q[j + 1]>> \in T

\* A program that reads after select() reads the socket at the head.
SaidHead == at.do = "recv" /\ at.said => AtHead(down, "over") /\ down[1].sock = at.sock

Shapes ==
    /\ port \in [Socks -> 1..MaxPort]
    /\ px.port \in [Socks -> 0..MaxPort]
    /\ px = [port |-> px.port, over |-> px.over, out |-> px.out]
    /\ at = [do |-> at.do, sock |-> at.sock, said |-> at.said, out |-> at.out]
    /\ at.do = "recv" => at.sock \in Socks
    /\ lib.bound \subseteq Socks

IInv ==
    /\ Shapes
    /\ \A d \in net : Honest(d)
    /\ Paired(up, UpPairs) /\ Paired(at.out, UpPairs)
    /\ Paired(down, DownPairs) /\ Paired(px.out, DownPairs)
    /\ SaidHead
    /\ wrong = FALSE
-----------------------------------------------------------------------------
(* Facts about the connection *)

\* No peer has an address at which the client is let out.
LEMMA OutsideApart == PeersApart => \A a \in Outside : a \notin Peers
<1>1. MaxPort \in Nat \ {0} => 1..MaxPort \subseteq 0..MaxPort
  OBVIOUS
<1> QED BY <1>1 DEF PeersApart, Outside

\* What is sent behind what is there: pairs stay together.
LEMMA PairedConcat ==
  ASSUME NEW T, NEW q, Paired(q, T), NEW r, Paired(r, T)
  PROVE  Paired(q \o r, T)
<1>1. q \in Seq(Pieces) /\ r \in Seq(Pieces) /\ Len(q) \in Nat /\ Len(r) \in Nat
  BY DEF Paired
<1> DEFINE s == q \o r
<1>2. /\ s \in Seq(Pieces) /\ DOMAIN s = 1..(Len(q) + Len(r))
      /\ DOMAIN q = 1..Len(q) /\ DOMAIN r = 1..Len(r)
      /\ \A j \in 1..Len(q) : s[j] = q[j]
      /\ \A j \in 1..(Len(q) + Len(r)) : j > Len(q) => s[j] = r[j - Len(q)]
  BY <1>1
<1> HIDE DEF s
<1>3. ASSUME NEW j \in DOMAIN s, s[j].kind = "over"
      PROVE  j + 1 \in DOMAIN s /\ <<s[j], s[j + 1]>> \in T
  <2>1. CASE j \in 1..Len(q)
    <3>1. j + 1 \in DOMAIN q /\ <<q[j], q[j + 1]>> \in T
      BY <1>2, <1>3, <2>1 DEF Paired
    <3>2. s[j] = q[j] /\ s[j + 1] = q[j + 1] /\ j + 1 \in DOMAIN s
      BY <3>1, <1>1, <1>2, <2>1
    <3> QED BY <3>1, <3>2
  <2>2. CASE j > Len(q)
    <3> DEFINE i == j - Len(q)
    <3>1. i \in DOMAIN r /\ s[j] = r[i]
      BY <1>1, <1>2, <1>3, <2>2
    <3>2. i + 1 \in DOMAIN r /\ <<r[i], r[i + 1]>> \in T
      BY <3>1, <1>3 DEF Paired
    <3>3. j + 1 \in 1..(Len(q) + Len(r)) /\ j + 1 > Len(q) /\ (j + 1) - Len(q) = i + 1
      BY <1>1, <1>2, <1>3, <2>2, <3>2
    <3>4. s[j + 1] = r[i + 1] /\ j + 1 \in DOMAIN s
      <4> HIDE DEF i
      <4> QED BY <3>3, <1>2
    <3> QED BY <3>1, <3>2, <3>4
  <2> QED BY <2>1, <2>2, <1>1, <1>2, <1>3
<1> QED BY <1>2, <1>3 DEF Paired, s

\* What is left behind the pieces taken.
LEMMA PairedRest ==
  ASSUME NEW T, NEW q, Paired(q, T), NEW k \in 1..Len(q)
  PROVE  Paired(Rest(q, k), T)
<1> DEFINE r == Rest(q, k)
<1>1. q \in Seq(Pieces) /\ Len(q) \in Nat /\ DOMAIN q = 1..Len(q)
  BY DEF Paired
<1>2. /\ r \in Seq(Pieces) /\ DOMAIN r = 1..(Len(q) - k)
      /\ \A j \in 1..(Len(q) - k) : r[j] = q[j + k] /\ j + k \in DOMAIN q
  BY <1>1 DEF Rest
<1> HIDE DEF r
<1>3. ASSUME NEW j \in DOMAIN r, r[j].kind = "over"
      PROVE  j + 1 \in DOMAIN r /\ <<r[j], r[j + 1]>> \in T
  <2>1. j + k \in DOMAIN q /\ r[j] = q[j + k]
    BY <1>2, <1>3
  <2>2. (j + k) + 1 \in DOMAIN q /\ <<q[j + k], q[(j + k) + 1]>> \in T
    BY <2>1, <1>3 DEF Paired
  <2>3. j + 1 \in 1..(Len(q) - k) /\ (j + 1) + k = (j + k) + 1
    BY <2>2, <1>1, <1>2, <1>3
  <2>4. r[j + 1] = q[(j + k) + 1] /\ j + 1 \in DOMAIN r
    <3>1. r[j + 1] = q[(j + 1) + k]
      BY <2>3, <1>2
    <3> QED BY <3>1, <2>3, <1>2
  <2> QED BY <2>1, <2>2, <2>4
<1> QED BY <1>2, <1>3 DEF Paired, r

\* The small messages.
LEMMA PairedSmall ==
  ASSUME NEW T
  PROVE  /\ Paired(<<>>, T) /\ Paired(<<BeatOk>>, T)
         /\ \A b \in BOOLEAN : Paired(<<IsOver(b)>>, T)
<1>1. BeatOk \in Pieces /\ \A b \in BOOLEAN : IsOver(b) \in Pieces
  BY DEF Pieces
<1>2. BeatOk.kind # "over" /\ \A b \in BOOLEAN : IsOver(b).kind # "over"
  BY DEF BeatOk, IsOver
<1> QED BY <1>1, <1>2 DEF Paired

\* A header and its body.
LEMMA PairedPair ==
  ASSUME NEW T, NEW s \in Socks, NEW a \in Peers \cup Outside, NEW x \in Payloads,
         <<Header(s), Body(a, x)>> \in T
  PROVE  Paired(<<Header(s), Body(a, x)>>, T)
<1>1. Header(s) \in Pieces /\ Body(a, x) \in Pieces
  BY DEF Pieces
<1>2. Body(a, x).kind # "over"
  BY DEF Body
<1> QED BY <1>1, <1>2 DEF Paired

\* What is at the head of the connection.
LEMMA HeadUp ==
  ASSUME NEW q, Paired(q, UpPairs), AtHead(q, "over")
  PROVE  \E s \in Socks, p \in Peers : q[1] = Header(s) /\ q[2] = Body(p, <<s, p>>)
<1>1. 1 \in DOMAIN q
  BY DEF Paired, AtHead
<1>2. <<q[1], q[1 + 1]>> \in UpPairs
  BY <1>1 DEF Paired, AtHead
<1>2a. <<q[1], q[2]>> \in UpPairs
  BY <1>2
<1>3. PICK s \in Socks, p \in Peers : <<q[1], q[2]>> = <<Header(s), Body(p, <<s, p>>)>>
  BY <1>2a DEF UpPairs
<1> QED BY <1>3

\* ... on its way to the client: the body names a peer only if it is from it.
LEMMA HeadDown ==
  ASSUME PeersApart, NEW q, Paired(q, DownPairs), AtHead(q, "over")
  PROVE  \E s \in Socks : /\ q[1] = Header(s)
                          /\ q[2].addr \in Peers => q[2].data = <<q[2].addr, s>>
<1>1. 1 \in DOMAIN q
  BY DEF Paired, AtHead
<1>2. <<q[1], q[1 + 1]>> \in DownPairs
  BY <1>1 DEF Paired, AtHead
<1>2a. <<q[1], q[2]>> \in DownPairs
  BY <1>2
<1>3. CASE \E s \in Socks, p \in Peers : q[1] = Header(s) /\ q[2] = Body(p, <<p, s>>)
  BY <1>3 DEF Body
<1>4. CASE \E s \in Socks, a \in Outside, x \in Payloads : q[1] = Header(s) /\ q[2] = Body(a, x)
  <2>1. PICK s \in Socks, a \in Outside, x \in Payloads : q[1] = Header(s) /\ q[2] = Body(a, x)
    BY <1>4
  <2>2. q[2].addr \notin Peers
    BY <2>1, OutsideApart DEF Body
  <2> QED BY <2>1, <2>2
<1>5. \/ \E s \in Socks, p \in Peers : <<q[1], q[2]>> = <<Header(s), Body(p, <<p, s>>)>>
      \/ \E s \in Socks, a \in Outside, x \in Payloads : <<q[1], q[2]>> = <<Header(s), Body(a, x)>>
  BY <1>2a DEF DownPairs
<1> QED BY <1>5, <1>3, <1>4
-----------------------------------------------------------------------------
(* Steps *)

\* The data of a datagram between a socket and a peer are a payload.
LEMMA PayloadOf ==
  \A s \in Socks, p \in Peers : <<s, p>> \in Payloads /\ <<p, s>> \in Payloads /\ BeatData \in Payloads
BY DEF Payloads

\* Data name a sender and a receiver, a heartbeat does not.
LEMMA NotBeat == \A x, y : <<x, y>> # BeatData
BY DEF BeatData

\* What a datagram is, by where it goes.
LEMMA ToAPeer ==
  ASSUME PeersApart, NEW d, Honest(d), d.to \in Peers
  PROVE  ToPeer(d)
<1>1. \A s \in Socks, n \in 1..MaxPort : ProxyAt(s) \notin Peers /\ ClientAt(s, n) \notin Peers
  BY OutsideApart DEF PeersApart, Outside
<1>2. ~FromPeer(d) /\ ~Beats(d) /\ ~ForPeer(d)
  <2>1. ASSUME FromPeer(d) \/ Beats(d) \/ ForPeer(d)
        PROVE  \E s \in Socks : d.to = ProxyAt(s)
    BY <2>1 DEF FromPeer, Beats, ForPeer, Packet
  <2>2. \A s \in Socks : d.to # ProxyAt(s)
    BY <1>1 DEF PeersApart
  <2> QED BY <2>1, <2>2
<1>3. ~ToClient(d) /\ ~Back(d)
  BY <1>1 DEF ToClient, Back, Packet
<1> QED BY <1>2, <1>3 DEF Honest

\* To a port of the proxy.
LEMMA ToTheProxy ==
  ASSUME PeersApart, NEW d, Honest(d), NEW t \in Socks, d.to = ProxyAt(t)
  PROVE  FromPeer(d) \/ Beats(d) \/ ForPeer(d)
<1>1. ProxyAt(t) \notin Peers /\ \A s \in Socks, n \in 1..MaxPort : ProxyAt(t) # ClientAt(s, n)
  BY DEF PeersApart, ProxyAt, ClientAt
<1>2. ~ToPeer(d) /\ ~ToClient(d) /\ ~Back(d)
  BY <1>1 DEF ToPeer, ToClient, Back, Packet
<1> QED BY <1>2 DEF Honest

\* To the client.
LEMMA ToTheClient ==
  ASSUME PeersApart, NEW d, Honest(d), NEW t \in Socks, NEW i \in 1..MaxPort, d.to = ClientAt(t, i)
  PROVE  ToClient(d) \/ Back(d)
<1>1. ClientAt(t, i) \notin Peers /\ \A s \in Socks : ProxyAt(s) # ClientAt(t, i)
  BY DEF PeersApart, ProxyAt, ClientAt, Outside
<1>2. ~FromPeer(d) /\ ~Beats(d) /\ ~ForPeer(d) /\ ~ToPeer(d)
  BY <1>1 DEF FromPeer, Beats, ForPeer, ToPeer, Packet
<1> QED BY <1>2 DEF Honest

\* The client sends a pair or Is-over-TCP, all at once or not yet.
LEMMA ClientSendsPaired ==
  ASSUME IInv, NEW ps, Paired(ps, UpPairs), ClientSends(ps, NoCall)
  PROVE  /\ Paired(up', UpPairs) /\ Paired(at'.out, UpPairs)
         /\ at' = [do |-> at'.do, sock |-> at'.sock, said |-> at'.said, out |-> at'.out]
         /\ at'.do # "recv"
<1>1. CASE up' = up \o ps /\ at' = NoCall
  BY <1>1, PairedConcat, PairedSmall DEF IInv, NoCall
<1>2. CASE UNCHANGED up /\ at' = [NoCall EXCEPT !.do = "send", !.out = ps]
  BY <1>2 DEF IInv, NoCall
<1> QED BY <1>1, <1>2 DEF ClientSends

\* The proxy sends a pair or the answer to a heartbeat, all at once or not yet:
\* the head of the connection stays.
LEMMA ProxySendsPaired ==
  ASSUME IInv, NEW ps, Paired(ps, DownPairs), NEW p, Paired(p.out, DownPairs),
         p = [port |-> p.port, over |-> p.over, out |-> p.out],
         p.port \in [Socks -> 0..MaxPort], ProxySends(ps, p)
  PROVE  /\ Paired(down', DownPairs) /\ Paired(px'.out, DownPairs)
         /\ px' = [port |-> px'.port, over |-> px'.over, out |-> px'.out]
         /\ px'.port \in [Socks -> 0..MaxPort]
         /\ down # <<>> => down' # <<>> /\ down'[1] = down[1]
<1>1. CASE down' = down \o ps /\ px' = p
  <2>1. Paired(down', DownPairs)
    BY <1>1, PairedConcat DEF IInv
  <2>2. down \in Seq(Pieces) /\ ps \in Seq(Pieces)
    BY DEF IInv, Paired
  <2>3. down # <<>> => down' # <<>> /\ down'[1] = down[1]
    BY <1>1, <2>2
  <2> QED BY <1>1, <2>1, <2>3
<1>2. CASE UNCHANGED down /\ px' = [p EXCEPT !.out = ps]
  <2>1. px' = [port |-> p.port, over |-> p.over, out |-> ps]
    BY <1>2
  <2> QED BY <1>2, <2>1 DEF IInv
<1> QED BY <1>1, <1>2 DEF ProxySends

\* The steps of the network, the firewall and the peers.
LEMMA OutsideIInv ==
  ASSUME PeersApart, IInv,
         \/ \E s \in Socks : PingOut(s) \/ NewPort(s)
         \/ \E s \in Socks, p \in Peers : PeerSends(p, s)
         \/ \E d \in net : Lose(d) \/ \E p \in Peers : PeerGets(p, d)
  PROVE  IInv'
<1>1. ASSUME NEW s \in Socks, PingOut(s) PROVE IInv'
  <2>1. port[s] \in 1..MaxPort
    BY DEF IInv, Shapes
  <2>2. Honest(Heartbeat(s))
    BY <2>1 DEF Honest, Beats, Heartbeat, FromSock
  <2> QED BY <1>1, <2>2 DEF PingOut, IInv, Shapes, SaidHead
<1>2. ASSUME NEW s \in Socks, NewPort(s) PROVE IInv'
  <2>1. port' \in [Socks -> 1..MaxPort]
    <3>1. port[s] \in 1..MaxPort /\ port[s] < MaxPort
      BY <1>2 DEF IInv, Shapes, NewPort
    <3>2. port[s] + 1 \in 1..MaxPort
      BY <3>1 DEF PeersApart
    <3> QED BY <1>2, <3>2 DEF IInv, Shapes, NewPort
  <2> QED BY <1>2, <2>1 DEF NewPort, IInv, Shapes, SaidHead
<1>3. ASSUME NEW s \in Socks, NEW p \in Peers, PeerSends(p, s) PROVE IInv'
  <2>1. Honest(Packet(p, ProxyAt(s), NoAddr, <<p, s>>))
    BY DEF Honest, FromPeer
  <2> QED BY <1>3, <2>1 DEF PeerSends, IInv, Shapes, SaidHead
<1>4. ASSUME NEW d \in net, Lose(d) PROVE IInv'
  BY <1>4 DEF Lose, IInv, Shapes, SaidHead
<1>5. ASSUME NEW d \in net, NEW p \in Peers, PeerGets(p, d) PROVE IInv'
  <2>1. d.to = p /\ Honest(d)
    BY <1>5 DEF PeerGets, IInv
  <2>2. ToPeer(d)
    BY <2>1, ToAPeer
  <2>3. PICK s \in Socks, q \in Peers : d = Packet(ProxyAt(s), q, NoAddr, <<s, q>>)
    BY <2>2 DEF ToPeer
  <2>4. d.from[1] = s /\ d.data = <<s, p>>
    BY <2>1, <2>3 DEF Packet, ProxyAt
  <2>5. wrong' = FALSE
    BY <1>5, <2>4 DEF PeerGets, Given, IInv
  <2> QED BY <1>5, <2>5 DEF PeerGets, IInv, Shapes, SaidHead
<1> QED BY <1>1, <1>2, <1>3, <1>4, <1>5

\* The steps of the client.
LEMMA ClientIInv ==
  ASSUME PeersApart, IInv,
         \/ \E s \in Socks : BindEnd(s) \/ Recv(s)
         \/ \E s \in Socks, p \in Peers : SendTo(s, p)
         \/ Sent \/ Selects \/ Receives
  PROVE  IInv'
<1>1. ASSUME NEW s \in Socks, BindEnd(s) PROVE IInv'
  <2>1. port[s] \in 1..MaxPort
    BY DEF IInv, Shapes
  <2>2. Honest(Heartbeat(s))
    BY <2>1 DEF Honest, Beats, Heartbeat, FromSock
  <2>3. PICK over \in BOOLEAN : /\ lib' = [over |-> over, bound |-> lib.bound \cup {s}]
                                /\ up' = <<IsOver(over)>>
    BY <1>1 DEF BindEnd
  <2>4. Paired(up', UpPairs) /\ Paired(down', DownPairs)
    BY <1>1, <2>3, PairedSmall DEF BindEnd
  <2>5. Shapes'
    BY <1>1, <2>3 DEF BindEnd, IInv, Shapes
  <2>6. SaidHead'
    BY <1>1 DEF BindEnd, SaidHead
  <2> QED BY <1>1, <2>2, <2>4, <2>5, <2>6 DEF BindEnd, IInv
<1>2. ASSUME NEW s \in Socks, Recv(s) PROVE IInv'
  <2>1. at' = [do |-> "recv", sock |-> s, said |-> FALSE, out |-> <<>>]
    BY <1>2 DEF Recv, NoCall
  <2>2. Paired(at'.out, UpPairs) /\ Shapes' /\ SaidHead'
    <3>1. Paired(at'.out, UpPairs)
      BY <2>1, PairedSmall
    <3>2. SaidHead'
      BY <2>1 DEF SaidHead
    <3>3. Shapes'
      BY <1>2, <2>1 DEF Recv, IInv, Shapes
    <3> QED BY <3>1, <3>2, <3>3
  <2> QED BY <1>2, <2>2 DEF Recv, IInv
<1>3. ASSUME NEW s \in Socks, NEW p \in Peers, SendTo(s, p) PROVE IInv'
  <2> DEFINE ps == <<Header(s), Body(p, <<s, p>>)>>
  <2>1. CASE lib.over
    <3>1. ps \in UpPairs
      BY DEF UpPairs
    <3>2. Paired(ps, UpPairs)
      BY <3>1, PairedPair, PayloadOf
    <3>3. ClientSends(ps, NoCall) /\ UNCHANGED <<net, down, lib, port, px, wrong>>
      BY <1>3, <2>1 DEF SendTo
    <3> HIDE DEF ps
    <3>4. /\ Paired(up', UpPairs) /\ Paired(at'.out, UpPairs) /\ at'.do # "recv"
          /\ at' = [do |-> at'.do, sock |-> at'.sock, said |-> at'.said, out |-> at'.out]
      BY <3>2, <3>3, ClientSendsPaired
    <3>5. Shapes' /\ SaidHead'
      BY <3>3, <3>4 DEF IInv, Shapes, SaidHead
    <3> QED BY <3>3, <3>4, <3>5 DEF IInv
  <2>2. CASE ~lib.over
    <3>1. port[s] \in 1..MaxPort
      BY DEF IInv, Shapes
    <3>2. Honest(Packet(FromSock(s), ProxyAt(s), p, <<s, p>>))
      BY <3>1 DEF Honest, ForPeer, FromSock
    <3>3. /\ net' = net \cup {Packet(FromSock(s), ProxyAt(s), p, <<s, p>>)}
          /\ UNCHANGED <<up, at, down, lib, port, px, wrong>>
      BY <1>3, <2>2 DEF SendTo
    <3> QED BY <3>2, <3>3 DEF IInv, Shapes, SaidHead
  <2> QED BY <2>1, <2>2
<1>4. ASSUME Sent PROVE IInv'
  <2>1. Paired(at.out, UpPairs) /\ ClientSends(at.out, NoCall) /\ UNCHANGED <<net, down, lib, port, px, wrong>>
    BY <1>4 DEF Sent, IInv
  <2>2. /\ Paired(up', UpPairs) /\ Paired(at'.out, UpPairs) /\ at'.do # "recv"
        /\ at' = [do |-> at'.do, sock |-> at'.sock, said |-> at'.said, out |-> at'.out]
    BY <2>1, ClientSendsPaired
  <2>3. Shapes' /\ SaidHead'
    BY <2>1, <2>2 DEF IInv, Shapes, SaidHead
  <2> QED BY <2>1, <2>2, <2>3 DEF IInv
<1>5. ASSUME SelectOver PROVE IInv'
  <2>1. /\ at' = [do |-> "recv", sock |-> down[1].sock, said |-> TRUE, out |-> <<>>]
        /\ AtHead(down, "over") /\ UNCHANGED <<net, up, down, lib, port, px, wrong>>
    BY <1>5 DEF SelectOver, NoCall
  <2>2. down[1].sock \in Socks
    <3>1. PICK s \in Socks : down[1] = Header(s)
      BY <2>1, HeadDown DEF IInv
    <3> QED BY <3>1 DEF Header
  <2>3. Shapes' /\ SaidHead'
    BY <2>1, <2>2 DEF IInv, Shapes, SaidHead, AtHead
  <2> QED BY <2>1, <2>3, PairedSmall DEF IInv
<1>6. ASSUME NEW k \in 1..Len(down), SelectBeat(k) PROVE IInv'
  <2>1. /\ at.do = "idle" /\ down' = Rest(down, k) /\ UNCHANGED <<net, up, lib, at, port, px, wrong>>
    BY <1>6 DEF SelectBeat
  <2>2. Paired(down', DownPairs)
    BY <2>1, PairedRest DEF IInv
  <2> QED BY <2>1, <2>2 DEF IInv, Shapes, SaidHead
<1>7. ASSUME NEW d \in net, RecvUdp(d) PROVE IInv'
  <2>1. /\ at.do = "recv" /\ ~lib.over /\ d.to = FromSock(at.sock) /\ net' = net \ {d}
        /\ Reads(at.sock, d.addr, d.data) /\ at' = NoCall
        /\ UNCHANGED <<up, down, lib, port, px>>
    BY <1>7 DEF RecvUdp
  <2>2. at.sock \in Socks /\ port[at.sock] \in 1..MaxPort /\ Honest(d)
    BY <2>1 DEF IInv, Shapes
  <2>3. ToClient(d) \/ Back(d)
    BY <2>1, <2>2, ToTheClient DEF FromSock
  <2>4. wrong' = FALSE
    <3>1. CASE d.addr \in Peers
      <4>1. ~Back(d)
        BY <3>1 DEF Back, Packet, PeersApart, Outside
      <4>2. PICK s \in Socks, n \in 1..MaxPort, p \in Peers :
              d = Packet(ProxyAt(s), ClientAt(s, n), p, <<p, s>>)
        BY <2>3, <4>1 DEF ToClient
      <4>3. s = at.sock
        BY <4>2, <2>1 DEF Packet, ClientAt, FromSock
      <4>4. d.data = <<d.addr, at.sock>>
        BY <4>2, <4>3 DEF Packet
      <4> QED BY <2>1, <4>4 DEF Reads, Given, IInv
    <3>2. CASE d.addr \notin Peers
      BY <3>2, <2>1 DEF Reads, IInv
    <3> QED BY <3>1, <3>2
  <2>5. Shapes' /\ SaidHead' /\ Paired(at'.out, UpPairs)
    BY <2>1, PairedSmall DEF IInv, Shapes, SaidHead, NoCall
  <2> QED BY <2>1, <2>4, <2>5 DEF IInv
<1>8. ASSUME NEW k \in 1..Len(down), RecvOver(k) PROVE IInv'
  <2>1. /\ at.do = "recv" /\ lib.over /\ AtHead(down, "over") /\ down' = Rest(down, k)
        /\ Reads(at.sock, down[2].addr, down[2].data) /\ at' = NoCall
        /\ UNCHANGED <<net, up, lib, port, px>>
    BY <1>8 DEF RecvOver, Whole
  <2>2. PICK s \in Socks : /\ down[1] = Header(s)
                           /\ down[2].addr \in Peers => down[2].data = <<down[2].addr, s>>
    BY <2>1, HeadDown DEF IInv
  <2>3. at.said => s = at.sock
    BY <2>1, <2>2 DEF IInv, SaidHead, Header
  <2>4. wrong' = FALSE
    BY <2>1, <2>2, <2>3 DEF Reads, Given, IInv
  <2>5. Paired(down', DownPairs)
    BY <2>1, PairedRest DEF IInv
  <2>6. Shapes' /\ SaidHead' /\ Paired(at'.out, UpPairs)
    BY <2>1, PairedSmall DEF IInv, Shapes, SaidHead, NoCall
  <2> QED BY <2>1, <2>4, <2>5, <2>6 DEF IInv
<1>9. ASSUME NEW k \in 1..Len(down), RecvBeat(k) PROVE IInv'
  <2>1. /\ at.do = "recv" /\ AtHead(down, "beat") /\ down' = Rest(down, k)
        /\ UNCHANGED <<net, up, lib, at, port, px, wrong>>
    BY <1>9 DEF RecvBeat
  <2>2. Paired(down', DownPairs)
    BY <2>1, PairedRest DEF IInv
  <2>3. SaidHead'
    BY <2>1 DEF IInv, SaidHead, AtHead
  <2> QED BY <2>1, <2>2, <2>3 DEF IInv, Shapes
<1> QED BY <1>1, <1>2, <1>3, <1>4, <1>5, <1>6, <1>7, <1>8, <1>9 DEF Selects, Receives

\* The steps of the proxy.
LEMMA ProxyIInv ==
  ASSUME PeersApart, IInv,
         \/ ProxySent \/ ProxyReads \/ ProxyTells
         \/ \E s \in Socks, d \in net : ProxyBeat(s, d)
  PROVE  IInv'
<1>1. ASSUME ProxySent PROVE IInv'
  <2> DEFINE p == [px EXCEPT !.out = <<>>]
  <2>1. ProxySends(px.out, p) /\ UNCHANGED <<net, up, lib, at, port, wrong>>
    BY <1>1 DEF ProxySent
  <2>2. p = [port |-> px.port, over |-> px.over, out |-> <<>>]
    BY DEF IInv, Shapes
  <2> HIDE DEF p
  <2>3. /\ Paired(down', DownPairs) /\ Paired(px'.out, DownPairs)
        /\ px' = [port |-> px'.port, over |-> px'.over, out |-> px'.out]
        /\ px'.port \in [Socks -> 0..MaxPort]
        /\ down # <<>> => down' # <<>> /\ down'[1] = down[1]
    <3>1. Paired(p.out, DownPairs) /\ p.port \in [Socks -> 0..MaxPort]
          /\ p = [port |-> p.port, over |-> p.over, out |-> p.out]
      BY <2>2, PairedSmall DEF IInv, Shapes
    <3>2. Paired(px.out, DownPairs)
      BY DEF IInv
    <3> QED BY <2>1, <3>1, <3>2, ProxySendsPaired
  <2>4. Shapes' /\ SaidHead'
    BY <2>1, <2>3 DEF IInv, Shapes, SaidHead, AtHead
  <2> QED BY <2>1, <2>3, <2>4 DEF IInv
<1>2. ASSUME NEW k \in 1..Len(up), ProxySendOver(k) PROVE IInv'
  <2>1. /\ AtHead(up, "over") /\ up' = Rest(up, k)
        /\ net' = net \cup {Packet(ProxyAt(up[1].sock), up[2].addr, NoAddr, up[2].data)}
        /\ UNCHANGED <<down, lib, at, port, px, wrong>>
    BY <1>2 DEF ProxySendOver, Whole
  <2>2. PICK s \in Socks, p \in Peers : up[1] = Header(s) /\ up[2] = Body(p, <<s, p>>)
    BY <2>1, HeadUp DEF IInv
  <2>3. Packet(ProxyAt(up[1].sock), up[2].addr, NoAddr, up[2].data) = Packet(ProxyAt(s), p, NoAddr, <<s, p>>)
    BY <2>2 DEF Header, Body
  <2>4. Honest(Packet(ProxyAt(s), p, NoAddr, <<s, p>>))
    BY DEF Honest, ToPeer
  <2>5. Paired(up', UpPairs)
    BY <2>1, PairedRest DEF IInv
  <2> QED BY <2>1, <2>3, <2>4, <2>5 DEF IInv, Shapes, SaidHead
<1>3. ASSUME NEW k \in 1..Len(up), ProxyIsOver(k) PROVE IInv'
  <2>1. /\ up' = Rest(up, k) /\ px' = [px EXCEPT !.over = up[1].over]
        /\ UNCHANGED <<net, down, lib, at, port, wrong>>
    BY <1>3 DEF ProxyIsOver
  <2>2. px' = [port |-> px.port, over |-> up[1].over, out |-> px.out]
    BY <2>1 DEF IInv, Shapes
  <2>3. Paired(up', UpPairs)
    BY <2>1, PairedRest DEF IInv
  <2> QED BY <2>1, <2>2, <2>3 DEF IInv, Shapes, SaidHead
<1>4. ASSUME NEW k \in 1..Len(up), ProxyIgnores(k) PROVE IInv'
  <2>1. up' = Rest(up, k) /\ UNCHANGED <<net, down, lib, at, port, px, wrong>>
    BY <1>4 DEF ProxyIgnores
  <2>2. Paired(up', UpPairs)
    BY <2>1, PairedRest DEF IInv
  <2> QED BY <2>1, <2>2 DEF IInv, Shapes, SaidHead
<1>5. ASSUME NEW s \in Socks, NEW d \in net, ProxyResend(s, d) PROVE IInv'
  <2>1. /\ d.to = ProxyAt(s) /\ d.data # BeatData /\ d.from = ClientAt(s, px.port[s])
        /\ net' = (net \ {d}) \cup {Packet(ProxyAt(s), d.addr, NoAddr, d.data)}
        /\ UNCHANGED <<up, down, lib, at, port, px, wrong>>
    BY <1>5 DEF ProxyResend, ToProxy, IsData
  <2>2. FromPeer(d) \/ Beats(d) \/ ForPeer(d)
    BY <2>1, ToTheProxy DEF IInv
  <2>3. ~Beats(d)
    BY <2>1 DEF Beats, Packet
  <2>4. ~FromPeer(d)
    <3>1. ClientAt(s, px.port[s]) \notin Peers
      BY DEF IInv, Shapes, PeersApart
    <3> QED BY <3>1, <2>1 DEF FromPeer, Packet
  <2>5. ASSUME ForPeer(d) PROVE Honest(Packet(ProxyAt(s), d.addr, NoAddr, d.data))
    <3>1. PICK t \in Socks, n \in 1..MaxPort, p \in Peers :
            d = Packet(ClientAt(t, n), ProxyAt(t), p, <<t, p>>)
      BY <2>5 DEF ForPeer
    <3>2. t = s /\ d.addr = p /\ d.data = <<s, p>>
      BY <2>1, <3>1 DEF Packet, ProxyAt
    <3> QED BY <3>2 DEF Honest, ToPeer
  <2> QED BY <2>1, <2>2, <2>3, <2>4, <2>5 DEF IInv, Shapes, SaidHead
<1>6. ASSUME NEW s \in Socks, NEW d \in net, ProxyReceive(s, d) PROVE IInv'
  <2>1. /\ d.to = ProxyAt(s) /\ d.data # BeatData /\ ProxyIdle
        /\ UNCHANGED <<up, lib, at, port, wrong>>
    BY <1>6 DEF ProxyReceive, ToProxy, IsData
  <2>2. FromPeer(d) \/ ForPeer(d)
    <3>1. ~Beats(d)
      BY <2>1 DEF Beats, Packet
    <3> QED BY <2>1, <3>1, ToTheProxy DEF IInv
  <2>3. \/ d.from \in Peers /\ d.data = <<d.from, s>>
        \/ \E n \in 1..MaxPort : d.from = ClientAt(s, n) /\ d.data \in Payloads
    <3>1. CASE FromPeer(d)
      <4>1. PICK p \in Peers, t \in Socks : d = Packet(p, ProxyAt(t), NoAddr, <<p, t>>)
        BY <3>1 DEF FromPeer
      <4> QED BY <4>1, <2>1 DEF Packet, ProxyAt
    <3>2. CASE ForPeer(d)
      <4>1. PICK t \in Socks, n \in 1..MaxPort, p \in Peers :
              d = Packet(ClientAt(t, n), ProxyAt(t), p, <<t, p>>)
        BY <3>2 DEF ForPeer
      <4>2. t = s /\ d.from = ClientAt(s, n) /\ d.data = <<s, p>>
        BY <2>1, <4>1 DEF Packet, ProxyAt
      <4> QED BY <4>2, PayloadOf
    <3> QED BY <2>2, <3>1, <3>2
  <2>4. CASE px.over
    <3> DEFINE ps == <<Header(s), Body(d.from, d.data)>>
    <3>1. net' = net \ {d} /\ ProxySends(ps, px)
      BY <1>6, <2>4 DEF ProxyReceive
    <3>2. ps \in DownPairs /\ d.from \in Peers \cup Outside /\ d.data \in Payloads
      <4>1. CASE d.from \in Peers /\ d.data = <<d.from, s>>
        <5>1. ps = <<Header(s), Body(d.from, <<d.from, s>>)>>
          BY <4>1
        <5>2. <<Header(s), Body(d.from, <<d.from, s>>)>> \in DownPairs
          BY <4>1 DEF DownPairs
        <5> QED BY <4>1, <5>1, <5>2, PayloadOf
      <4>2. CASE \E n \in 1..MaxPort : d.from = ClientAt(s, n) /\ d.data \in Payloads
        BY <4>2 DEF DownPairs, Outside
      <4> QED BY <2>3, <4>1, <4>2
    <3>3. Paired(ps, DownPairs)
      BY <3>2, PairedPair
    <3> HIDE DEF ps
    <3>4. /\ Paired(px.out, DownPairs) /\ px.port \in [Socks -> 0..MaxPort]
          /\ px = [port |-> px.port, over |-> px.over, out |-> px.out]
      BY DEF IInv, Shapes
    <3>5. /\ Paired(down', DownPairs) /\ Paired(px'.out, DownPairs)
          /\ px' = [port |-> px'.port, over |-> px'.over, out |-> px'.out]
          /\ px'.port \in [Socks -> 0..MaxPort]
          /\ down # <<>> => down' # <<>> /\ down'[1] = down[1]
      BY <3>1, <3>3, <3>4, ProxySendsPaired
    <3>6. Shapes' /\ SaidHead'
      BY <2>1, <3>5 DEF IInv, Shapes, SaidHead, AtHead
    <3> QED BY <2>1, <3>1, <3>5, <3>6 DEF IInv
  <2>5. CASE ~px.over
    <3>1. /\ net' = (net \ {d}) \cup
               {Packet(ProxyAt(s), ClientAt(s, n), d.from, d.data) : n \in {px.port[s]} \ {0}}
          /\ UNCHANGED <<down, px>>
      BY <1>6, <2>5 DEF ProxyReceive
    <3>2. ASSUME NEW n \in {px.port[s]} \ {0}
          PROVE  Honest(Packet(ProxyAt(s), ClientAt(s, n), d.from, d.data))
      <4>1. n \in 1..MaxPort
        <5>1. px.port[s] \in 0..MaxPort /\ n = px.port[s] /\ n # 0
          BY <3>2 DEF IInv, Shapes
        <5> QED BY <5>1 DEF PeersApart
      <4>2. CASE d.from \in Peers /\ d.data = <<d.from, s>>
        BY <4>1, <4>2 DEF Honest, ToClient
      <4>3. CASE \E m \in 1..MaxPort : d.from = ClientAt(s, m) /\ d.data \in Payloads
        BY <4>1, <4>3 DEF Honest, Back
      <4> QED BY <2>3, <4>2, <4>3
    <3> QED BY <2>1, <3>1, <3>2 DEF IInv, Shapes, SaidHead
  <2> QED BY <2>4, <2>5
<1>7. ASSUME NEW s \in Socks, NEW d \in net, ProxyBeat(s, d) PROVE IInv'
  <2> DEFINE p == [px EXCEPT !.port[s] = d.from[2]]
  <2>1. /\ d.to = ProxyAt(s) /\ d.data = BeatData /\ net' = net \ {d} /\ ProxySends(<<BeatOk>>, p)
        /\ UNCHANGED <<up, lib, at, port, wrong>>
    BY <1>7 DEF ProxyBeat, ToProxy
  <2>2. Beats(d)
    <3>1. ~FromPeer(d) /\ ~ForPeer(d)
      BY <2>1, NotBeat DEF FromPeer, ForPeer, Packet
    <3> QED BY <2>1, <3>1, ToTheProxy DEF IInv
  <2>3. d.from[2] \in 1..MaxPort
    BY <2>2 DEF Beats, Packet, ClientAt
  <2>4. /\ p.port \in [Socks -> 0..MaxPort] /\ p.out = px.out
        /\ p = [port |-> p.port, over |-> p.over, out |-> p.out]
    <3>1. d.from[2] \in 0..MaxPort
      BY <2>3 DEF PeersApart
    <3>2. p = [port |-> [px.port EXCEPT ![s] = d.from[2]], over |-> px.over, out |-> px.out]
      BY DEF IInv, Shapes
    <3> HIDE DEF p
    <3> QED BY <3>1, <3>2 DEF IInv, Shapes
  <2> HIDE DEF p
  <2>5. /\ Paired(down', DownPairs) /\ Paired(px'.out, DownPairs)
        /\ px' = [port |-> px'.port, over |-> px'.over, out |-> px'.out]
        /\ px'.port \in [Socks -> 0..MaxPort]
        /\ down # <<>> => down' # <<>> /\ down'[1] = down[1]
    <3>1. Paired(p.out, DownPairs) /\ Paired(<<BeatOk>>, DownPairs)
      BY <2>4, PairedSmall DEF IInv
    <3> QED BY <2>1, <2>4, <3>1, ProxySendsPaired
  <2>6. Shapes' /\ SaidHead'
    BY <2>1, <2>5 DEF IInv, Shapes, SaidHead, AtHead
  <2> QED BY <2>1, <2>5, <2>6 DEF IInv
<1> QED BY <1>1, <1>2, <1>3, <1>4, <1>5, <1>6, <1>7 DEF ProxyReads, ProxyTells

\* In the beginning nothing is on its way.
LEMMA InitIInv ==
  ASSUME PeersApart
  PROVE  RelayInit => IInv
BY PairedSmall DEF RelayInit, IInv, Shapes, SaidHead, NoCall, PeersApart

\* Every step keeps the invariant.
LEMMA NextIInv ==
  ASSUME PeersApart
  PROVE  IInv /\ [RelayNext]_relayVars => IInv'
<1> SUFFICES ASSUME IInv, [RelayNext]_relayVars PROVE IInv'
  OBVIOUS
<1>1. CASE RelayNext
  BY <1>1, OutsideIInv, ClientIInv, ProxyIInv DEF RelayNext
<1>2. CASE UNCHANGED relayVars
  BY <1>2 DEF relayVars, IInv, Shapes, SaidHead
<1> QED BY <1>1, <1>2
-----------------------------------------------------------------------------
(* What the connection holds, and the room in it *)

UpPieces   == {Header(s) : s \in Socks} \cup {Body(p, d) : p \in Peers, d \in Payloads}
              \cup {IsOver(b) : b \in BOOLEAN}
DownPieces == {BeatOk} \cup {Header(s) : s \in Socks}
              \cup {Body(a, d) : a \in Peers \cup Outside, d \in Payloads}

\* Each direction holds only what is sent in it, and no more than there is room for.
UpTyped   == up \in Seq(UpPieces) /\ Len(up) <= MaxTcp /\ at.out \in Seq(UpPieces)
DownTyped == down \in Seq(DownPieces) /\ Len(down) <= MaxTcp /\ px.out \in Seq(DownPieces)

\* The rest of the types, with those of IInv.
CallTyped == at.do \in {"idle", "recv", "send"} /\ at.said \in BOOLEAN /\ at.sock \in Socks \cup {NoAddr}
RestTyped == lib \in Libs /\ px.over \in BOOLEAN /\ lost \in BOOLEAN

Typed == UpTyped /\ DownTyped /\ CallTyped /\ RestTyped

\* What a recv() leaves, and whether it threw anything away.
LEMMA RestOf ==
  ASSUME NEW T, NEW q \in Seq(T), NEW k \in 1..Len(q)
  PROVE  Rest(q, k) \in Seq(T) /\ Len(Rest(q, k)) <= Len(q)
  BY DEF Rest

LEMMA LosesOf ==
  ASSUME lost \in BOOLEAN, NEW q, NEW k, NEW need, Loses(q, k, need)
  PROVE  lost' \in BOOLEAN
  BY DEF Loses

LEMMA EmptyTyped == <<>> \in Seq(UpPieces) /\ <<>> \in Seq(DownPieces) /\ Len(<<>>) = 0
  OBVIOUS

\* The idle call.
LEMMA IdleTyped == /\ NoCall.do = "idle" /\ NoCall.said = FALSE /\ NoCall.sock = NoAddr /\ NoCall.out = <<>>
                   /\ NoCall.out \in Seq(UpPieces)
<1>1. NoCall.do = "idle" /\ NoCall.said = FALSE /\ NoCall.sock = NoAddr /\ NoCall.out = <<>>
  BY DEF NoCall
<1> QED BY <1>1, EmptyTyped

\* There is room for a pair and for Is-over-TCP in a connection.
LEMMA SmallTyped ==
  /\ MaxTcp \in Nat /\ MaxTcp >= 2
  /\ \A b \in BOOLEAN : <<IsOver(b)>> \in Seq(UpPieces) /\ Len(<<IsOver(b)>>) <= MaxTcp
  /\ \A s \in Socks, p \in Peers : <<Header(s), Body(p, <<s, p>>)>> \in Seq(UpPieces)
  /\ <<BeatOk>> \in Seq(DownPieces)
  /\ \A s \in Socks, a \in Peers \cup Outside, x \in Payloads : <<Header(s), Body(a, x)>> \in Seq(DownPieces)
<1>1. MaxTcp \in Nat /\ MaxTcp >= 2
  BY RelayAssumption
<1>2. \A b \in BOOLEAN : <<IsOver(b)>> \in Seq(UpPieces) /\ Len(<<IsOver(b)>>) <= MaxTcp
  BY <1>1 DEF UpPieces
<1>3. ASSUME NEW s \in Socks, NEW p \in Peers PROVE <<Header(s), Body(p, <<s, p>>)>> \in Seq(UpPieces)
  <2>0. <<s, p>> \in Payloads
    BY PayloadOf
  <2>1. Header(s) \in UpPieces
    BY DEF UpPieces
  <2>2. Body(p, <<s, p>>) \in UpPieces
    BY <2>0 DEF UpPieces
  <2> QED BY <2>1, <2>2
<1>4. <<BeatOk>> \in Seq(DownPieces)
  <2>1. BeatOk \in DownPieces
    BY DEF DownPieces
  <2> QED BY <2>1
<1>5. ASSUME NEW s \in Socks, NEW a \in Peers \cup Outside, NEW x \in Payloads
      PROVE  <<Header(s), Body(a, x)>> \in Seq(DownPieces)
  <2>1. Header(s) \in DownPieces /\ Body(a, x) \in DownPieces
    BY DEF DownPieces
  <2> QED BY <2>1
<1> QED BY <1>1, <1>2, <1>3, <1>4, <1>5

\* The datagrams on their way have addresses and data of the kinds there are.
LEMMA HonestTyped ==
  ASSUME NEW d, Honest(d)
  PROVE  /\ d.from \in Peers \cup Outside \cup {ProxyAt(s) : s \in Socks}
         /\ d.to \in Peers \cup Outside \cup {ProxyAt(s) : s \in Socks}
         /\ d.addr \in Peers \cup Outside \cup {NoAddr} /\ d.data \in Payloads
<1>0. \A s \in Socks, n \in 1..MaxPort : ClientAt(s, n) \in Outside
  BY DEF Outside
<1>1. ASSUME NEW from \in Peers \cup Outside \cup {ProxyAt(s) : s \in Socks},
             NEW to \in Peers \cup Outside \cup {ProxyAt(s) : s \in Socks},
             NEW addr \in Peers \cup Outside \cup {NoAddr}, NEW x \in Payloads,
             d = Packet(from, to, addr, x)
      PROVE  /\ d.from \in Peers \cup Outside \cup {ProxyAt(s) : s \in Socks}
             /\ d.to \in Peers \cup Outside \cup {ProxyAt(s) : s \in Socks}
             /\ d.addr \in Peers \cup Outside \cup {NoAddr} /\ d.data \in Payloads
  BY <1>1 DEF Packet
<1>2. CASE FromPeer(d)
  <2>1. PICK p \in Peers, s \in Socks : d = Packet(p, ProxyAt(s), NoAddr, <<p, s>>)
    BY <1>2 DEF FromPeer
  <2>2. <<p, s>> \in Payloads
    BY PayloadOf
  <2> QED BY <2>1, <2>2, <1>1
<1>3. CASE Beats(d)
  <2>1. PICK s \in Socks, n \in 1..MaxPort : d = Packet(ClientAt(s, n), ProxyAt(s), NoAddr, BeatData)
    BY <1>3 DEF Beats
  <2>2. BeatData \in Payloads
    BY DEF Payloads
  <2> QED BY <2>1, <2>2, <1>0, <1>1
<1>4. CASE ForPeer(d)
  <2>1. PICK s \in Socks, n \in 1..MaxPort, p \in Peers : d = Packet(ClientAt(s, n), ProxyAt(s), p, <<s, p>>)
    BY <1>4 DEF ForPeer
  <2>2. <<s, p>> \in Payloads
    BY PayloadOf
  <2> QED BY <2>1, <2>2, <1>0, <1>1
<1>5. CASE ToPeer(d)
  <2>1. PICK s \in Socks, p \in Peers : d = Packet(ProxyAt(s), p, NoAddr, <<s, p>>)
    BY <1>5 DEF ToPeer
  <2>2. <<s, p>> \in Payloads
    BY PayloadOf
  <2> QED BY <2>1, <2>2, <1>1
<1>6. CASE ToClient(d)
  <2>1. PICK s \in Socks, n \in 1..MaxPort, p \in Peers : d = Packet(ProxyAt(s), ClientAt(s, n), p, <<p, s>>)
    BY <1>6 DEF ToClient
  <2>2. <<p, s>> \in Payloads
    BY PayloadOf
  <2> QED BY <2>1, <2>2, <1>0, <1>1
<1>7. CASE Back(d)
  <2>1. PICK s \in Socks, n, m \in 1..MaxPort, x \in Payloads : d = Packet(ProxyAt(s), ClientAt(s, n), ClientAt(s, m), x)
    BY <1>7 DEF Back
  <2> QED BY <2>1, <1>0, <1>1
<1> QED BY <1>2, <1>3, <1>4, <1>5, <1>6, <1>7 DEF Honest

\* The client sends what there is room for, or keeps it.
LEMMA ClientSendsTyped ==
  ASSUME Typed, NEW ps \in Seq(UpPieces), ClientSends(ps, NoCall)
  PROVE  UpTyped' /\ CallTyped'
<1>1. CASE Fits(up, ps) /\ up' = up \o ps /\ at' = NoCall
  <2>1. up' \in Seq(UpPieces) /\ Len(up') = Len(up) + Len(ps)
    BY <1>1 DEF Typed, UpTyped
  <2>2. at'.out \in Seq(UpPieces) /\ at'.do = "idle" /\ at'.said = FALSE /\ at'.sock = NoAddr
    BY <1>1, IdleTyped
  <2> QED BY <1>1, <2>1, <2>2 DEF Fits, UpTyped, CallTyped
<1>2. CASE UNCHANGED up /\ at' = [NoCall EXCEPT !.do = "send", !.out = ps]
  <2>1. at'.out = ps /\ at'.do = "send" /\ at'.said = FALSE /\ at'.sock = NoAddr
    BY <1>2 DEF NoCall
  <2> QED BY <1>2, <2>1 DEF Typed, UpTyped, CallTyped
<1> QED BY <1>1, <1>2 DEF ClientSends

\* So does the proxy.
LEMMA ProxySendsTyped ==
  ASSUME Typed, NEW ps \in Seq(DownPieces), NEW p,
         p = [port |-> p.port, over |-> px.over, out |-> p.out], p.out \in Seq(DownPieces), ProxySends(ps, p)
  PROVE  DownTyped' /\ px'.over = px.over
<1>1. CASE Fits(down, ps) /\ down' = down \o ps /\ px' = p
  <2>1. down' \in Seq(DownPieces) /\ Len(down') = Len(down) + Len(ps)
    BY <1>1 DEF Typed, DownTyped
  <2>2. px'.out = p.out /\ px'.over = px.over
    BY <1>1
  <2> QED BY <1>1, <2>1, <2>2 DEF Fits, DownTyped
<1>2. CASE UNCHANGED down /\ px' = [p EXCEPT !.out = ps]
  <2>1. px'.out = ps /\ px'.over = px.over
    BY <1>2
  <2> QED BY <1>2, <2>1 DEF Typed, DownTyped
<1> QED BY <1>1, <1>2 DEF ProxySends

\* The steps of the network, the firewall, the peers and the pinger.
LEMMA OutsideTyped ==
  ASSUME Typed,
         \/ \E s \in Socks : PingOut(s) \/ NewPort(s)
         \/ \E s \in Socks, p \in Peers : PeerSends(p, s)
         \/ \E d \in net : Lose(d) \/ \E p \in Peers : PeerGets(p, d)
  PROVE  Typed'
<1>1. UNCHANGED <<up, down, lib, at, px, lost>>
  BY DEF PingOut, NewPort, PeerSends, Lose, PeerGets
<1> QED BY <1>1 DEF Typed, UpTyped, DownTyped, CallTyped, RestTyped

\* The steps of the client.
LEMMA ClientTyped ==
  ASSUME IInv, IInv', Typed,
         \/ \E s \in Socks : BindEnd(s) \/ Recv(s)
         \/ \E s \in Socks, p \in Peers : SendTo(s, p)
         \/ Sent \/ Selects \/ Receives
  PROVE  Typed'
<1> USE DEF Typed
<1>1. ASSUME NEW s \in Socks, BindEnd(s) PROVE Typed'
  <2>1. PICK over \in BOOLEAN : /\ lib' = [over |-> over, bound |-> lib.bound \cup {s}]
                                /\ up' = <<IsOver(over)>>
    BY <1>1 DEF BindEnd
  <2>2. UpTyped'
    BY <1>1, <2>1, SmallTyped DEF BindEnd, UpTyped
  <2>3. DownTyped'
    <3>1. down' = <<>> /\ UNCHANGED px
      BY <1>1 DEF BindEnd
    <3>2. down' \in Seq(DownPieces) /\ Len(down') = 0
      BY <3>1, EmptyTyped
    <3> QED BY <3>1, <3>2, SmallTyped DEF DownTyped
  <2>4. lib' \in Libs
    BY <2>1 DEF RestTyped, Libs
  <2> QED BY <1>1, <2>2, <2>3, <2>4 DEF BindEnd, CallTyped, RestTyped
<1>2. ASSUME NEW s \in Socks, Recv(s) PROVE Typed'
  <2>1. at'.do = "recv" /\ at'.sock = s /\ at'.said = FALSE /\ at'.out = <<>>
    BY <1>2 DEF Recv, NoCall
  <2>2. at'.out \in Seq(UpPieces)
    BY <2>1, EmptyTyped
  <2> QED BY <1>2, <2>1, <2>2 DEF Recv, UpTyped, DownTyped, CallTyped, RestTyped
<1>3. ASSUME NEW s \in Socks, NEW p \in Peers, SendTo(s, p) PROVE Typed'
  <2>1. /\ UNCHANGED <<down, lib, px, lost>>
        /\ ClientSends(<<Header(s), Body(p, <<s, p>>)>>, NoCall) \/ UNCHANGED <<up, at>>
    BY <1>3 DEF SendTo
  <2>2. UpTyped' /\ CallTyped'
    BY <2>1, SmallTyped, ClientSendsTyped DEF UpTyped, CallTyped
  <2> QED BY <2>1, <2>2 DEF DownTyped, RestTyped
<1>4. CASE Sent
  <2>1. UNCHANGED <<down, lib, px, lost>> /\ ClientSends(at.out, NoCall)
    BY <1>4 DEF Sent
  <2>2. UpTyped' /\ CallTyped'
    BY <2>1, ClientSendsTyped DEF UpTyped
  <2> QED BY <2>1, <2>2 DEF DownTyped, RestTyped
<1>5. CASE SelectOver
  <2>1. /\ UNCHANGED <<up, down, lib, px, lost>>
        /\ at'.do = "recv" /\ at'.said = TRUE /\ at'.out = <<>>
    BY <1>5 DEF SelectOver, NoCall
  <2>2. at'.sock \in Socks
    BY <2>1 DEF IInv, Shapes
  <2>3. at'.out \in Seq(UpPieces)
    BY <2>1, EmptyTyped
  <2> QED BY <2>1, <2>2, <2>3 DEF UpTyped, DownTyped, CallTyped, RestTyped
<1>6. ASSUME NEW k \in 1..Len(down), SelectBeat(k) \/ RecvBeat(k) \/ RecvOver(k) PROVE Typed'
  <2>1. UNCHANGED <<up, lib, px>> /\ down' = Rest(down, k) /\ (at' = at \/ at' = NoCall)
    BY <1>6 DEF SelectBeat, RecvBeat, RecvOver
  <2>2. lost' \in BOOLEAN
    BY <1>6, LosesOf DEF SelectBeat, RecvBeat, RecvOver, RestTyped
  <2>3. down' \in Seq(DownPieces) /\ Len(down') <= MaxTcp
    <3>1. down \in Seq(DownPieces) /\ Len(down) <= MaxTcp /\ Len(down) \in Nat
      BY DEF DownTyped
    <3>2. down' \in Seq(DownPieces) /\ Len(down') <= Len(down) /\ Len(down') \in Nat
      BY <2>1, <3>1, RestOf
    <3> QED BY <3>1, <3>2, SmallTyped
  <2>4. CallTyped' /\ at'.out \in Seq(UpPieces)
    <3>1. CASE at' = at
      BY <3>1 DEF CallTyped, UpTyped
    <3>2. CASE at' = NoCall
      BY <3>2, IdleTyped DEF CallTyped
    <3> QED BY <2>1, <3>1, <3>2
  <2> QED BY <2>1, <2>2, <2>3, <2>4 DEF UpTyped, DownTyped, RestTyped
<1>7. ASSUME NEW d \in net, RecvUdp(d) PROVE Typed'
  <2>1. UNCHANGED <<up, down, lib, px, lost>> /\ at' = NoCall
    BY <1>7 DEF RecvUdp
  <2>2. at'.do = "idle" /\ at'.said = FALSE /\ at'.sock = NoAddr /\ at'.out \in Seq(UpPieces)
    BY <2>1, IdleTyped
  <2> QED BY <2>1, <2>2 DEF UpTyped, DownTyped, CallTyped, RestTyped
<1> QED BY <1>1, <1>2, <1>3, <1>4, <1>5, <1>6, <1>7 DEF Selects, Receives

\* The steps of the proxy.
LEMMA ProxyTyped ==
  ASSUME PeersApart, IInv, Typed,
         ProxySent \/ ProxyReads \/ ProxyTells \/ \E s \in Socks, d \in net : ProxyBeat(s, d)
  PROVE  Typed'
<1> USE DEF Typed
<1>0. px = [port |-> px.port, over |-> px.over, out |-> px.out] /\ <<>> \in Seq(DownPieces)
  BY DEF IInv, Shapes
<1>1. CASE ProxySent
  <2> DEFINE p == [port |-> px.port, over |-> px.over, out |-> <<>>]
  <2>1. UNCHANGED <<up, lib, at, lost>> /\ ProxySends(px.out, p)
    BY <1>0, <1>1 DEF ProxySent
  <2>2. p = [port |-> p.port, over |-> px.over, out |-> p.out] /\ p.out \in Seq(DownPieces)
    BY <1>0
  <2> HIDE DEF p
  <2>3. px.out \in Seq(DownPieces)
    BY DEF DownTyped
  <2>4. DownTyped' /\ px'.over = px.over
    BY <2>1, <2>2, <2>3, ProxySendsTyped
  <2> QED BY <2>1, <2>4 DEF UpTyped, CallTyped, RestTyped
<1>2. ASSUME NEW k \in 1..Len(up), ProxySendOver(k) \/ ProxyIsOver(k) \/ ProxyIgnores(k) PROVE Typed'
  <2>1. UNCHANGED <<down, lib, at>> /\ up' = Rest(up, k)
    BY <1>2 DEF ProxySendOver, ProxyIsOver, ProxyIgnores
  <2>2. lost' \in BOOLEAN
    BY <1>2, LosesOf DEF ProxySendOver, ProxyIsOver, ProxyIgnores, RestTyped
  <2>3. up' \in Seq(UpPieces) /\ Len(up') <= MaxTcp
    <3>1. up \in Seq(UpPieces) /\ Len(up) <= MaxTcp /\ Len(up) \in Nat
      BY DEF UpTyped
    <3>2. up' \in Seq(UpPieces) /\ Len(up') <= Len(up) /\ Len(up') \in Nat
      BY <2>1, <3>1, RestOf
    <3> QED BY <3>1, <3>2, SmallTyped
  <2>4. px'.over \in BOOLEAN /\ px'.out = px.out
    <3>1. CASE ProxySendOver(k) \/ ProxyIgnores(k)
      BY <3>1 DEF ProxySendOver, ProxyIgnores, RestTyped
    <3>2. CASE ProxyIsOver(k)
      <4>1. up[1].kind = "isover" /\ up[1] \in UpPieces
        BY <3>2 DEF ProxyIsOver, AtHead, UpTyped
      <4>2. up[1].over \in BOOLEAN
        BY <4>1 DEF UpPieces, Header, Body, IsOver
      <4>3. px' = [port |-> px.port, over |-> up[1].over, out |-> px.out]
        BY <1>0, <3>2 DEF ProxyIsOver
      <4> QED BY <4>2, <4>3
    <3> QED BY <1>2, <3>1, <3>2
  <2> QED BY <2>1, <2>2, <2>3, <2>4 DEF UpTyped, DownTyped, CallTyped, RestTyped
<1>3. ASSUME NEW s \in Socks, NEW d \in net, ProxyResend(s, d) PROVE Typed'
  BY <1>3 DEF ProxyResend, UpTyped, DownTyped, CallTyped, RestTyped
<1>4. ASSUME NEW s \in Socks, NEW d \in net, ProxyReceive(s, d) PROVE Typed'
  <2>1. UNCHANGED <<up, lib, at, lost>>
    BY <1>4 DEF ProxyReceive
  <2>2. CASE UNCHANGED <<down, px>>
    BY <2>1, <2>2 DEF UpTyped, DownTyped, CallTyped, RestTyped
  <2>3. CASE ProxySends(<<Header(s), Body(d.from, d.data)>>, px)
    <3>1. FromPeer(d) \/ Beats(d) \/ ForPeer(d)
      BY <1>4, ToTheProxy DEF ProxyReceive, ToProxy, IInv
    <3>2. d.from \in Peers \cup Outside
      <4>1. CASE FromPeer(d)
        BY <4>1 DEF FromPeer, Packet
      <4>2. CASE Beats(d) \/ ForPeer(d)
        <5>1. \E t \in Socks, n \in 1..MaxPort : d.from = ClientAt(t, n)
          BY <4>2 DEF Beats, ForPeer, Packet
        <5> QED BY <5>1 DEF Outside
      <4> QED BY <3>1, <4>1, <4>2
    <3>3. d.data \in Payloads
      BY HonestTyped DEF IInv
    <3>4. DownTyped' /\ px'.over = px.over
      <4>1. <<Header(s), Body(d.from, d.data)>> \in Seq(DownPieces)
        BY <3>2, <3>3, SmallTyped
      <4>2. px.out \in Seq(DownPieces)
        BY DEF DownTyped
      <4> QED BY <1>0, <2>3, <4>1, <4>2, ProxySendsTyped
    <3> QED BY <2>1, <3>4 DEF UpTyped, CallTyped, RestTyped
  <2> QED BY <1>4, <2>2, <2>3 DEF ProxyReceive
<1>5. ASSUME NEW s \in Socks, NEW d \in net, ProxyBeat(s, d) PROVE Typed'
  <2> DEFINE p == [px EXCEPT !.port[s] = d.from[2]]
  <2>1. UNCHANGED <<up, lib, at, lost>> /\ ProxySends(<<BeatOk>>, p)
    BY <1>5 DEF ProxyBeat
  <2>2. p = [port |-> [px.port EXCEPT ![s] = d.from[2]], over |-> px.over, out |-> px.out]
    BY <1>0
  <2> HIDE DEF p
  <2>3. p = [port |-> p.port, over |-> px.over, out |-> p.out] /\ p.out \in Seq(DownPieces)
    BY <2>2 DEF DownTyped
  <2>4. DownTyped' /\ px'.over = px.over
    BY <2>1, <2>3, SmallTyped, ProxySendsTyped
  <2> QED BY <2>1, <2>4 DEF UpTyped, CallTyped, RestTyped
<1> QED BY <1>1, <1>2, <1>3, <1>4, <1>5 DEF ProxyReads, ProxyTells

\* In the beginning, and with every step.
LEMMA InitTyped == RelayInit => Typed
<1> SUFFICES ASSUME RelayInit PROVE Typed
  OBVIOUS
<1>1. /\ at = NoCall /\ up = <<>> /\ down = <<>> /\ lost = FALSE
      /\ px.over = FALSE /\ px.out = <<>> /\ lib \in Libs
  BY DEF RelayInit, Libs
<1>2. UpTyped /\ CallTyped
  <2>1. up \in Seq(UpPieces) /\ Len(up) = 0
    BY <1>1, EmptyTyped
  <2>2. at.do = "idle" /\ at.said = FALSE /\ at.sock = NoAddr /\ at.out \in Seq(UpPieces)
    BY <1>1, IdleTyped
  <2>3. Len(up) <= MaxTcp
    BY <2>1, SmallTyped
  <2> QED BY <2>1, <2>2, <2>3 DEF UpTyped, CallTyped
<1>3. DownTyped
  <2>1. down \in Seq(DownPieces) /\ Len(down) = 0 /\ px.out \in Seq(DownPieces)
    BY <1>1, EmptyTyped
  <2>2. Len(down) <= MaxTcp
    BY <2>1, SmallTyped
  <2> QED BY <2>1, <2>2 DEF DownTyped
<1> QED BY <1>1, <1>2, <1>3 DEF Typed, RestTyped

LEMMA NextTyped ==
  ASSUME PeersApart
  PROVE  IInv /\ IInv' /\ Typed /\ [RelayNext]_relayVars => Typed'
<1> SUFFICES ASSUME IInv, IInv', Typed, [RelayNext]_relayVars PROVE Typed'
  OBVIOUS
<1>1. CASE RelayNext
  BY <1>1, OutsideTyped, ClientTyped, ProxyTyped DEF RelayNext
<1>2. CASE UNCHANGED relayVars
  BY <1>2 DEF relayVars, Typed, UpTyped, DownTyped, CallTyped, RestTyped
<1> QED BY <1>1, <1>2

\* Both parts together give the types.
LEMMA AllTyped == IInv /\ Typed => RelayTypeOK
<1> SUFFICES ASSUME IInv, Typed PROVE RelayTypeOK
  OBVIOUS
<1>1. at \in Ats
  <2>1. at = [do |-> at.do, sock |-> at.sock, said |-> at.said, out |-> at.out]
    BY DEF IInv, Shapes
  <2>2. /\ at.do \in {"idle", "recv", "send"} /\ at.sock \in Socks \cup {NoAddr} /\ at.said \in BOOLEAN
        /\ at.out \in Seq(UpPieces)
    BY DEF Typed, CallTyped, UpTyped
  <2>3. Ats = [do : {"idle", "recv", "send"}, sock : Socks \cup {NoAddr}, said : BOOLEAN, out : Seq(UpPieces)]
    BY DEF Ats, UpPieces
  <2> HIDE DEF UpPieces
  <2> QED BY <2>1, <2>2, <2>3
<1>2. px \in Pxs
  <2>1. px = [port |-> px.port, over |-> px.over, out |-> px.out] /\ px.port \in [Socks -> 0..MaxPort]
    BY DEF IInv, Shapes
  <2>2. px.over \in BOOLEAN /\ px.out \in Seq(DownPieces)
    BY DEF Typed, RestTyped, DownTyped
  <2>3. Pxs = [port : [Socks -> 0..MaxPort], over : BOOLEAN, out : Seq(DownPieces)]
    BY DEF Pxs, DownPieces
  <2> QED BY <2>1, <2>2, <2>3
<1>3. \A d \in net : Honest(d)
  BY DEF IInv
<1> QED BY <1>1, <1>2, <1>3, HonestTyped DEF RelayTypeOK, IInv, Shapes, Typed, UpTyped, DownTyped, RestTyped
-----------------------------------------------------------------------------
\* A datagram that a program is given was sent by the one it is said to be from
\* to the one who gets it, whichever way it went, and however often UDP loses
\* and reorders, the firewall changes a port, a recv() takes what belongs to
\* the next message and throws it away, or the way is changed from UDP to TCP.
THEOREM DeliveredWhereSent == RelaySpec => []Delivered
<1>1. IInv => Delivered
  BY DEF IInv, Delivered
<1>2. PeersApart
  BY RelayAssumption
<1>3. RelayInit => IInv
  BY <1>2, InitIInv
<1>4. IInv /\ [RelayNext]_relayVars => IInv'
  BY <1>2, NextIInv
<1> QED BY <1>1, <1>3, <1>4, PTL DEF RelaySpec

\* Nothing goes by UDP or in the connection but what the other side knows how to
\* take: the addresses are those of peers, of the proxy or of the client outside
\* the firewall, a direction holds only its own kinds of pieces and never more
\* than there is room for, and a call keeps what it has not sent yet.
THEOREM RelayTypes == RelaySpec => []RelayTypeOK
<1>1. PeersApart
  BY RelayAssumption
<1>2. RelayInit => IInv /\ Typed
  BY <1>1, InitIInv, InitTyped
<1>3. IInv /\ Typed /\ [RelayNext]_relayVars => (IInv /\ Typed)'
  BY <1>1, NextIInv, NextTyped
<1> QED BY <1>2, <1>3, AllTyped, PTL DEF RelaySpec
=============================================================================
