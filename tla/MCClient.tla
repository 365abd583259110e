------------------------------- MODULE MCClient -------------------------------
(***************************************************************************)
(* The two halves of the client library, explored one after the other: a   *)
(* session with the server and the proxies (Client), and the datagrams of  *)
(* the sockets that a session has bound (Relay).  They have no state in    *)
(* common here: a step of one is taken only while the other has not begun. *)
(***************************************************************************)
EXTENDS Client, Relay

CONSTANTS p1, p2, s1, s2, peer

\* No proxy is registered, or a loaded one and an idle one.
Lists == {<<>>, <<Proxy(p1, 1), Proxy(p2, 0)>>}

\* The first step of a session makes a socket, the first one of the other binds it.
SessionBegun == \E n \in Nums : cl.pool[n] # NoItem
RelayBegun   == lib.bound # {}

MCInit == SessionInit /\ RelayInit
MCNext == \/ ~RelayBegun /\ SessionNext /\ UNCHANGED relayVars
          \/ ~SessionBegun /\ ~cl.keys /\ RelayNext /\ UNCHANGED vars
MCSpec == /\ MCInit /\ [][MCNext]_<<vars, relayVars>>
          /\ SessionFair /\ RelayFair

\* Bound: with two sockets bound, the firewall changes no port, UDP or TCP is as
\* before, and the connection holds one datagram.
Small == lib.bound = Socks =>
           /\ Len(up) + Len(down) <= 2
           /\ lib.over = px.over /\ \A s \in Socks : port[s] = 1
=============================================================================
