--------------------------------- MODULE Relay ---------------------------------
(***************************************************************************)
(* The datagrams of a client behind a firewall: proxy_sendto(),            *)
(* proxy_recvfrom(), proxy_select() and the heartbeats of proxy_socket.c,  *)
(* and what the proxy does with them (over_tcp.c and the UDP part of       *)
(* proxy/client_handler.c).  They travel as UDP, with the address of the   *)
(* peer in front, or in the connection to the proxy, with a header.  The   *)
(* sockets of one client are bound here and the connection lasts; Client   *)
(* has the calls that bind and close.                                      *)
(*                                                                         *)
(* UDP loses and reorders datagrams, and the firewall may give a socket    *)
(* another port.  TCP has room for MaxTcp pieces, a header or a body each; *)
(* a recv() takes any number of those that are there.                      *)
(***************************************************************************)
EXTENDS Naturals, Sequences, FiniteSets

CONSTANTS Socks, Peers,   \* the client's sockets, the addresses of others
          NoAddr,         \* INADDR_NONE
          MaxNet,         \* bound: datagrams of programs on their way
          MaxTcp,         \* pieces that a direction of the connection holds
          MaxPort         \* bound: ports that the firewall gives a socket, one after the other

VARIABLES
  net,    \* the UDP datagrams on their way
  up,     \* the connection, from the client to the proxy
  down,   \* ... and from the proxy to the client
  lib,    \* the library, see Libs
  at,     \* the call under way, see Ats
  port,   \* the port at which the firewall lets each socket out
  px,     \* the proxy, see Pxs
  wrong,  \* history: a program was given a datagram that was not sent to it, see Given
  lost    \* history: a recv() threw away what came behind the first message
relayVars == <<net, up, down, lib, at, port, px, wrong, lost>>

\* Addresses: the client as the proxy sees it, and the proxy's port of a socket.
\* Port 0 is that of the connection, no socket has it.
ClientAt(s, n) == <<s, n>>
ProxyAt(s)     == <<s>>
Outside        == {ClientAt(s, n) : s \in Socks, n \in 1..MaxPort}

\* A peer has none of these addresses, nor that of a client without a port.
PeersApart ==
    /\ \A s \in Socks : ProxyAt(s) \notin Peers
    /\ \A s \in Socks, n \in 0..MaxPort : ClientAt(s, n) \notin Peers
    /\ MaxPort \in Nat \ {0}

ASSUME RelayAssumption ==
    PeersApart /\ NoAddr \notin Peers /\ MaxNet \in Nat /\ MaxTcp \in Nat \ {0, 1}

\* What programs send names the sender and the receiver.
BeatData     == <<NoAddr>>
Payloads == (Socks \X Peers) \cup (Peers \X Socks) \cup {BeatData}
Packet(from, to, addr, data) == [from |-> from, to |-> to, addr |-> addr, data |-> data]

\* Over-TCP header, body behind it, answer to a heartbeat, Is-over-TCP.
Header(s)        == [kind |-> "over", sock |-> s]
Body(addr, data) == [kind |-> "body", addr |-> addr, data |-> data]
BeatOk           == [kind |-> "beat"]
IsOver(b)        == [kind |-> "isover", over |-> b]

\* proxy_over_tcp, and the sockets of the pool that are bound.
Libs == [over : BOOLEAN, bound : SUBSET Socks]

\* The call: in recvfrom() (that select() said would not block), or in send()
\* with the pieces out.
Ats  == [do : {"idle", "recv", "send"}, sock : Socks \cup {NoAddr}, said : BOOLEAN,
         out : Seq({Header(s) : s \in Socks} \cup {Body(p, d) : p \in Peers, d \in Payloads}
                   \cup {IsOver(b) : b \in BOOLEAN})]
NoCall == [do |-> "idle", sock |-> NoAddr, said |-> FALSE, out |-> <<>>]

\* cd->addr of each UDP socket (its port), over_tcp of the client, and what the
\* proxy is sending on the connection.
Pxs == [port : [Socks -> 0..MaxPort], over : BOOLEAN,
        out : Seq({BeatOk} \cup {Header(s) : s \in Socks}
                  \cup {Body(a, d) : a \in Peers \cup Outside, d \in Payloads})]

RelayTypeOK ==
    /\ \A d \in net :
         /\ d.from \in Peers \cup Outside \cup {ProxyAt(s) : s \in Socks}
         /\ d.to \in Peers \cup Outside \cup {ProxyAt(s) : s \in Socks}
         /\ d.addr \in Peers \cup Outside \cup {NoAddr} /\ d.data \in Payloads
    /\ Len(up) <= MaxTcp /\ Len(down) <= MaxTcp
    /\ lib \in Libs /\ at \in Ats /\ px \in Pxs
    /\ port \in [Socks -> 1..MaxPort]
    /\ wrong \in BOOLEAN /\ lost \in BOOLEAN

RelayInit ==
    /\ net = {} /\ up = <<>> /\ down = <<>>
    /\ lib = [over |-> FALSE, bound |-> {}]
    /\ at = NoCall
    /\ port = [s \in Socks |-> 1]
    /\ px = [port |-> [s \in Socks |-> 0], over |-> FALSE, out |-> <<>>]
    /\ wrong = FALSE
    /\ lost = FALSE
-----------------------------------------------------------------------------
(* Pieces of the connection *)

Fits(q, ps) == Len(q) + Len(ps) <= MaxTcp

\* The client sends ps and is then at a; send() blocks while there is no room.
ClientSends(ps, a) ==
    IF Fits(up, ps) THEN up' = up \o ps /\ at' = a
    ELSE UNCHANGED up /\ at' = [a EXCEPT !.do = "send", !.out = ps]

\* The proxy sends ps, and is p otherwise.
ProxySends(ps, p) ==
    IF Fits(down, ps) THEN down' = down \o ps /\ px' = p
    ELSE UNCHANGED down /\ px' = [p EXCEPT !.out = ps]

\* A recv() takes k pieces of q, of which need are looked at.
Rest(q, k)       == SubSeq(q, k + 1, Len(q))
Loses(q, k, need) == lost' = (lost \/ \E j \in need + 1 .. k : q[j].kind # "beat")

\* A header is at the head of q, its body behind it: the whole is read.
AtHead(q, kind) == q # <<>> /\ q[1].kind = kind
Whole(q)        == AtHead(q, "over") /\ Len(q) >= 2

NetRoom == Cardinality({d \in net : d.data # BeatData}) < MaxNet
-----------------------------------------------------------------------------
(* The client *)

FromSock(s) == ClientAt(s, port[s])

\* ping_proxy() of a socket that is bound: the pinger, and proxy_bind().
Heartbeat(s) == Packet(FromSock(s), ProxyAt(s), NoAddr, BeatData)
PingOut(s) ==
    /\ s \in lib.bound
    /\ net' = net \cup {Heartbeat(s)}
    /\ UNCHANGED <<up, down, lib, at, port, px, wrong, lost>>

\* The end of proxy_bind(), when the proxy handles Proxy-bind: what else came
\* down is thrown away and the first heartbeat sent.  Then the path is tested: UDP
\* is used if any datagram comes in time, as the network likes.
BindEnd(s) ==
    /\ at.do = "idle" /\ s \notin lib.bound
    /\ up = <<>> /\ px.out = <<>>
    /\ net' = net \cup {Heartbeat(s)}
    /\ down' = <<>>
    /\ \E over \in BOOLEAN :
         /\ lib' = [over |-> over, bound |-> lib.bound \cup {s}]
         /\ up' = <<IsOver(over)>>
    /\ UNCHANGED <<at, port, px, wrong, lost>>

\* proxy_sendto(): in the connection, or as UDP with the address in front.
SendTo(s, p) ==
    /\ at.do = "idle" /\ s \in lib.bound
    /\ IF lib.over
       THEN /\ ClientSends(<<Header(s), Body(p, <<s, p>>)>>, NoCall)
            /\ UNCHANGED net
       ELSE /\ NetRoom
            /\ net' = net \cup {Packet(FromSock(s), ProxyAt(s), p, <<s, p>>)}
            /\ UNCHANGED <<up, at>>
    /\ UNCHANGED <<down, lib, port, px, wrong, lost>>

Sent ==
    /\ at.do = "send" /\ Fits(up, at.out)
    /\ ClientSends(at.out, NoCall)
    /\ UNCHANGED <<net, down, lib, port, px, wrong, lost>>

\* proxy_recvfrom() of any socket.
Recv(s) ==
    /\ at.do = "idle" /\ s \in lib.bound
    /\ at' = [NoCall EXCEPT !.do = "recv", !.sock = s]
    /\ UNCHANGED <<net, up, down, lib, port, px, wrong, lost>>

\* Mutant of SelectOver: whatever socket was asked for can be read.
SelectAny ==
    /\ at.do = "idle" /\ AtHead(down, "over")
    /\ \E s \in lib.bound : at' = [NoCall EXCEPT !.do = "recv", !.sock = s, !.said = TRUE]
    /\ UNCHANGED <<net, up, down, lib, port, px, wrong, lost>>

\* proxy_select(): the socket a header names can be read, and the program does
\* so; an answer to a heartbeat is read.
SelectOver ==
    /\ at.do = "idle" /\ AtHead(down, "over")
    /\ at' = [NoCall EXCEPT !.do = "recv", !.sock = down[1].sock, !.said = TRUE]
    /\ UNCHANGED <<net, up, down, lib, port, px, wrong, lost>>

\* Mutant of SelectBeat: the answer is looked at and left there.
SelectBeatPeeks(k) ==
    /\ at.do = "idle" /\ AtHead(down, "beat") /\ k \in 1..Len(down)
    /\ Loses(down, k, 1)
    /\ UNCHANGED <<net, up, down, lib, at, port, px, wrong>>

SelectBeat(k) ==
    /\ at.do = "idle" /\ AtHead(down, "beat") /\ k \in 1..Len(down)
    /\ down' = Rest(down, k)
    /\ Loses(down, k, 1)
    /\ UNCHANGED <<net, up, lib, at, port, px, wrong>>

\* A program is given data as a datagram that from sent to the receiver: true?
Given(receiver, from, data) == wrong' = (wrong \/ data # <<from, receiver>>)

\* ... by recvfrom(), in the connection after select() named the socket.  What
\* comes from the client itself is left out.
Reads(s, from, data) ==
    IF from \in Peers /\ (at.said \/ ~lib.over) THEN Given(s, from, data) ELSE UNCHANGED wrong

RecvUdp(d) ==
    /\ at.do = "recv" /\ ~lib.over /\ d.to = FromSock(at.sock)
    /\ net' = net \ {d}
    /\ Reads(at.sock, d.addr, d.data)
    /\ at' = NoCall
    /\ UNCHANGED <<up, down, lib, port, px, lost>>

\* The datagram is given to the socket that is read, whichever the header names.
RecvOver(k) ==
    /\ at.do = "recv" /\ lib.over /\ Whole(down) /\ k \in 2..Len(down)
    /\ down' = Rest(down, k)
    /\ Loses(down, k, 2)
    /\ Reads(at.sock, down[2].addr, down[2].data)
    /\ at' = NoCall
    /\ UNCHANGED <<net, up, lib, port, px>>

RecvBeat(k) ==
    /\ at.do = "recv" /\ lib.over /\ AtHead(down, "beat") /\ k \in 1..Len(down)
    /\ down' = Rest(down, k)
    /\ Loses(down, k, 1)
    /\ UNCHANGED <<net, up, lib, at, port, px, wrong>>
-----------------------------------------------------------------------------
(* The proxy: one thread, that blocks in send() *)

ProxyIdle == px.out = <<>>

ProxySent ==
    /\ px.out # <<>> /\ Fits(down, px.out)
    /\ ProxySends(px.out, [px EXCEPT !.out = <<>>])
    /\ UNCHANGED <<net, up, lib, at, port, wrong, lost>>

\* send_over_tcp(): the rest of the body is waited for.
ProxySendOver(k) ==
    /\ ProxyIdle /\ Whole(up) /\ k \in 2..Len(up)
    /\ up' = Rest(up, k)
    /\ Loses(up, k, 2)
    /\ net' = net \cup {Packet(ProxyAt(up[1].sock), up[2].addr, NoAddr, up[2].data)}
    /\ UNCHANGED <<down, lib, at, port, px, wrong>>

\* Mutant of ProxyIsOver: Yes is not recognized.
ProxyIsOverNo(k) ==
    /\ ProxyIdle /\ AtHead(up, "isover") /\ k \in 1..Len(up)
    /\ up' = Rest(up, k)
    /\ Loses(up, k, 1)
    /\ px' = [px EXCEPT !.over = FALSE]
    /\ UNCHANGED <<net, down, lib, at, port, wrong>>

\* is_over_tcp_reply()
ProxyIsOver(k) ==
    /\ ProxyIdle /\ AtHead(up, "isover") /\ k \in 1..Len(up)
    /\ up' = Rest(up, k)
    /\ Loses(up, k, 1)
    /\ px' = [px EXCEPT !.over = up[1].over]
    /\ UNCHANGED <<net, down, lib, at, port, wrong>>

\* A body whose header was thrown away is no command.
ProxyIgnores(k) ==
    /\ ProxyIdle /\ AtHead(up, "body") /\ k \in 1..Len(up)
    /\ up' = Rest(up, k)
    /\ Loses(up, k, 1)
    /\ UNCHANGED <<net, down, lib, at, port, px, wrong>>

\* A datagram for the port of s; from the client if it is its address, whatever
\* the port.
ToProxy(s, d)  == ProxyIdle /\ d \in net /\ d.to = ProxyAt(s)
FromClient(d)  == d.from \in Outside

\* Mutant of ProxyBeat: the address is kept once it is known.
ProxyBeatFirst(s, d) ==
    /\ ToProxy(s, d) /\ FromClient(d) /\ d.data = BeatData
    /\ net' = net \ {d}
    /\ ProxySends(<<BeatOk>>, [px EXCEPT !.port[s] = IF @ = 0 THEN d.from[2] ELSE @])
    /\ UNCHANGED <<up, lib, at, port, wrong, lost>>

\* proxy_bound_ok_replay()
ProxyBeat(s, d) ==
    /\ ToProxy(s, d) /\ FromClient(d) /\ d.data = BeatData
    /\ net' = net \ {d}
    /\ ProxySends(<<BeatOk>>, [px EXCEPT !.port[s] = d.from[2]])
    /\ UNCHANGED <<up, lib, at, port, wrong, lost>>

IsData(d) == d.data # BeatData

\* Mutant of ProxyResend: heartbeats are sent on as well.
ProxyResendAll(s, d) ==
    /\ ToProxy(s, d) /\ d.from = ClientAt(s, px.port[s])
    /\ net' = (net \ {d}) \cup {Packet(ProxyAt(s), d.addr, NoAddr, d.data)}
    /\ UNCHANGED <<up, down, lib, at, port, px, wrong, lost>>

\* resend_packet(): the client's address and port, as far as the proxy knows.
ProxyResend(s, d) ==
    /\ ToProxy(s, d) /\ IsData(d) /\ d.from = ClientAt(s, px.port[s])
    /\ net' = (net \ {d}) \cup {Packet(ProxyAt(s), d.addr, NoAddr, d.data)}
    /\ UNCHANGED <<up, down, lib, at, port, px, wrong, lost>>

\* receive_packet(): everything else is for the client, as UDP or in the
\* connection.  At port 0 nobody gets it.
ProxyReceive(s, d) ==
    /\ ToProxy(s, d) /\ IsData(d) /\ d.from # ClientAt(s, px.port[s])
    /\ IF px.over
       THEN /\ net' = net \ {d}
            /\ ProxySends(<<Header(s), Body(d.from, d.data)>>, px)
       ELSE /\ net' = (net \ {d}) \cup
                 {Packet(ProxyAt(s), ClientAt(s, n), d.from, d.data) : n \in {px.port[s]} \ {0}}
            /\ UNCHANGED <<down, px>>
    /\ UNCHANGED <<up, lib, at, port, wrong, lost>>
-----------------------------------------------------------------------------
(* Peers, network and firewall *)

PeerSends(p, s) ==
    /\ s \in lib.bound /\ NetRoom
    /\ net' = net \cup {Packet(p, ProxyAt(s), NoAddr, <<p, s>>)}
    /\ UNCHANGED <<up, down, lib, at, port, px, wrong, lost>>

PeerGets(p, d) ==
    /\ d \in net /\ d.to = p
    /\ net' = net \ {d}
    /\ Given(p, d.from[1], d.data)
    /\ UNCHANGED <<up, down, lib, at, port, px, lost>>

\* What comes while the proxy sends waits at its socket.
Lose(d) ==
    /\ d \in net /\ ProxyIdle
    /\ net' = net \ {d}
    /\ UNCHANGED <<up, down, lib, at, port, px, wrong, lost>>

NewPort(s) ==
    /\ s \in lib.bound /\ port[s] < MaxPort
    /\ port' = [port EXCEPT ![s] = @ + 1]
    /\ UNCHANGED <<net, up, down, lib, at, px, wrong, lost>>
-----------------------------------------------------------------------------
Selects  == SelectOver \/ \E k \in 1..Len(down) : SelectBeat(k)
Receives == \/ \E d \in net : RecvUdp(d)
            \/ \E k \in 1..Len(down) : RecvOver(k) \/ RecvBeat(k)

ProxyReads == \E k \in 1..Len(up) : ProxySendOver(k) \/ ProxyIsOver(k) \/ ProxyIgnores(k)
ProxyTells == \E s \in Socks, d \in net : ProxyResend(s, d) \/ ProxyReceive(s, d)

RelayNext ==
    \/ \E s \in Socks : BindEnd(s) \/ Recv(s) \/ PingOut(s) \/ NewPort(s)
    \/ \E s \in Socks, p \in Peers : SendTo(s, p) \/ PeerSends(p, s)
    \/ Sent \/ Selects \/ Receives
    \/ ProxySent \/ ProxyReads \/ ProxyTells
    \/ \E s \in Socks, d \in net : ProxyBeat(s, d)
    \/ \E d \in net : Lose(d) \/ \E p \in Peers : PeerGets(p, d)

RelaySpec == RelayInit /\ [][RelayNext]_relayVars

\* The pinger goes on, and the proxy: its loop serves every descriptor that can
\* be read; a heartbeat sent again and again arrives; calls go on while they can,
\* and the program, when it is in no call, calls proxy_select().
RelayFair ==
    /\ WF_relayVars(ProxySent) /\ SF_relayVars(ProxyReads)
    /\ WF_relayVars(Sent) /\ WF_relayVars(Receives) /\ SF_relayVars(Selects)
    /\ \A s \in Socks : /\ WF_relayVars(PingOut(s))
                        /\ SF_relayVars(\E d \in net : ProxyBeat(s, d))
FairRelay == RelaySpec /\ RelayFair
-----------------------------------------------------------------------------
(* Properties *)

\* A datagram that a program is given was sent by the one it is said to be
\* from to the one who gets it - when the program reads the socket that
\* proxy_select() named, and when it does not come from the client itself.
Delivered == ~wrong

\* The client does not go on: it is in send(), or in a read, or what is at the
\* head of the connection is neither read nor passed over.
ClientWaits == at.do \in {"send", "recv"} \/ AtHead(down, "body")

\* The heartbeats tell the proxy where the client is, however often they are
\* lost and the firewall changes the port, unless the client waits for ever.
AddressTold ==
    \A s \in Socks : []<>(s \in lib.bound => px.port[s] = port[s]) \/ <>[]ClientWaits

\* Both sides agree on UDP or TCP in the end, unless Is-over-TCP was thrown
\* away or the client waits for ever.
ModeTold == []<>(lib.over = px.over) \/ <>[](lost \/ ClientWaits)

\* The proxy, which serves all clients with one thread, does not wait for ever
\* in a send() to this one, unless the client waits for ever, too.
SendEnds == []<>(px.out = <<>>) \/ <>[]ClientWaits
=============================================================================
