-------------------------------- MODULE Client --------------------------------
(***************************************************************************)
(* A session of the client library (proxy_socket.c, authenticating.c) with *)
(* the managing server and the proxies: how a program gets a proxy, binds  *)
(* sockets there and closes them.  The program has one thread that calls   *)
(* the library; a call runs from one blocking recv() to the next.  The     *)
(* server chooses proxies with ProxyTable; of a proxy there is what it     *)
(* does with the connection of this client (proxy/client_handler.c,        *)
(* auth.c).  A recv() takes any number of messages that have arrived, and  *)
(* both sides look at the first one only.                                  *)
(***************************************************************************)
EXTENDS ProxyTable, FiniteSetsExt

CONSTANTS Nums,       \* the numbers of the descriptors of the program
          Proxies, PSocks,   \* addresses of proxies, numbers of sockets there
          Tables,     \* the lists of proxies the server may have
          NULL, Self, \* no address, the address of the client
          NoFd,       \* no descriptor, or -1
          Foreign,    \* a number of no socket of this client at the proxy
          MaxSocks,   \* bound: the open sockets of the program
          MaxQueue    \* bound: messages on their way when a call begins

ASSUME NumsAssumption   == IsFiniteSet(Nums) /\ Nums \subseteq Nat /\ NoFd \notin Nums
ASSUME NamesAssumption  == /\ {NULL, Self, NoProxy} \cap Proxies = {}
                           /\ {Foreign, NoFd} \cap PSocks = {}
ASSUME TablesAssumption == Tables \subseteq Seq(Entries(Proxies, Nat))

VARIABLES
  cl,      \* the program and the library, see Clients
  call,    \* the call of the library under way, see Calls
  srv,     \* the managing server's side of the connection of ask_for_proxy()
  link,    \* the connection to a proxy, see Links
  hist     \* history, see Histories
vars == <<cl, call, srv, link, hist>>

\* What a descriptor is open for: a socket of the program, and one that is
\* bound to a local port; test_sock, my_sock and the variable proxy; or what no
\* variable of the program was meant to name any more: a listening socket or a
\* link, a UDP socket, a connection to the server, one that failed.
Uses == {"free", "app", "named", "test", "server", "link", "leak", "udp", "conn", "half"}

\* An item of the pool.  The number of the socket at the proxy is Foreign while
\* it is not initialized, and again when the link on which it was bound is gone.
Items   == [bound : BOOLEAN, psock : PSocks \cup {Foreign}]
NewItem == [bound |-> FALSE, psock |-> Foreign]
NoItem  == [bound |-> FALSE, psock |-> NoFd]

Clients == [fd : [Nums -> Uses], pool : [Nums -> Items \cup {NoItem}],
            addr : Proxies \cup {NULL, Self, NoProxy}, behind : BOOLEAN,
            proxy : Nums \cup {NoFd}, keys : BOOLEAN]

\* Where the call is: the loop of proxy_bind(), ask_for_proxy() before its
\* sockets are open ("ask"), in its select() ("asking") and calling
\* connect_to_proxy() ("try"), one of the recv() of that ("stale": on another
\* connection than the link), behind that loop ("local"), and the recv() for
\* Proxy-bound ("wait").  A call that is stuck never returns.
\* History, lost: a message was thrown away unread; denied: a refusal to bind was.
Calls == [at : {"idle", "loop", "ask", "asking", "try", "pong", "hello", "auth1", "auth2",
                "stale", "local", "wait", "stuck"},
          sock : Nums \cup {NoFd}, test : Nums \cup {NoFd}, server : Nums \cup {NoFd},
          lost : BOOLEAN, denied : BOOLEAN]
Idle  == [at |-> "idle", sock |-> NoFd, test |-> NoFd, server |-> NoFd,
          lost |-> FALSE, denied |-> FALSE]

\* The server: requests that have arrived and answers on their way, whether the
\* connection was tested, the proxy assigned last, those reported bad; again: it
\* assigned one that was (history).
Servers  == [open : BOOLEAN, tested : BOOLEAN, reqs : Nat, out : Seq(Proxies \cup {"no", NoProxy}),
             assigned : Proxies \cup {NoProxy}, bad : SUBSET Proxies, again : BOOLEAN, table : Tables \cup {<<>>}]
NoServer == [open |-> FALSE, tested |-> FALSE, reqs |-> 0, out |-> <<>>,
             assigned |-> NoProxy, bad |-> {}, again |-> FALSE, table |-> <<>>]

\* The link: its number, the proxy, what is on its way up and down, whether the
\* proxy has it open, cd->authorized, and the numbers of the UDP sockets that
\* the proxy has for it.  All others there are those of other clients.
MsgKinds  == {"hello", "auth1", "key", "auth2", "ok", "failed", "ping", "pong", "bind", "bound",
              "error", "over", "close", "beat"}
Msg(k, n) == [kind |-> k, psock |-> n]
Msgs      == [kind : MsgKinds, psock : PSocks \cup {Foreign}]
Links  == [fd : Nums \cup {NoFd}, to : Proxies \cup {NULL}, up : Seq(Msgs), down : Seq(Msgs),
           open : BOOLEAN, authorized : BOOLEAN, udp : SUBSET PSocks]
NoLink == [fd |-> NoFd, to |-> NULL, up |-> <<>>, down |-> <<>>, open |-> FALSE, authorized |-> FALSE,
           udp |-> {}]

\* stale: the number of a socket that was closed was used for the link; stray: a
\* Proxy-close named another socket.
Histories == [stale : BOOLEAN, stray : BOOLEAN]

SessionTypeOK ==
    /\ cl \in Clients /\ call \in Calls
    /\ srv \in Servers /\ link \in Links
    /\ hist \in Histories

SessionInit ==
    /\ cl \in [fd : {[n \in Nums |-> "free"]}, pool : {[n \in Nums |-> NoItem]},
               addr : {NULL}, behind : {FALSE}, proxy : {NoFd}, keys : BOOLEAN]
    /\ call = Idle
    /\ srv = NoServer
    /\ link = NoLink
    /\ hist = [stale |-> FALSE, stray |-> FALSE]
-----------------------------------------------------------------------------
(* Descriptors, the link and messages *)

Free   == {n \in Nums : cl.fd[n] = "free"}
NextFd == Min(Free)
Goto(label) == [call EXCEPT !.at = label]

\* The numbers F are put to a use in c.
Used(c, F, use) == [c EXCEPT !.fd = [n \in Nums |-> IF n \in F THEN use ELSE c.fd[n]]]
Closed(c, F)    == Used(c, F, "free")

\* No socket of the pool is bound on the present link any more.
Unlinked(c) ==
    [c EXCEPT !.pool = [n \in Nums |-> IF c.pool[n].psock \in PSocks
                                      THEN [c.pool[n] EXCEPT !.psock = Foreign] ELSE c.pool[n]]]

\* closesocket(F): the link may be one of them.
CloseFds(c, F) ==
    IF link.fd \in F
    THEN cl' = Unlinked(Closed(c, F)) /\ link' = NoLink
    ELSE cl' = Closed(c, F) /\ UNCHANGED link

\* The link is forgotten, not closed.
LeakLink(c) ==
    IF link.fd = NoFd THEN cl' = c /\ UNCHANGED link
    ELSE cl' = Unlinked(Used(c, {link.fd}, "leak")) /\ link' = NoLink

Up(l, k, n) == [l EXCEPT !.up = IF l.open THEN Append(@, Msg(k, n)) ELSE @]
Tail1(q, k) == SubSeq(q, k + 1, Len(q))

\* Of the k messages of q that a recv() took, one after the first matters.
Losing(q, k) ==
    [call EXCEPT !.lost = @ \/ \E j \in 2..k : q[j].kind \notin {"beat", "over"}]

\* connect_to_proxy() is called by ask_for_proxy(), or by proxy_bind().
Asking     == call.test # NoFd
AskSockets == {call.test, call.server}

\* connect_to_proxy() returns 0, with the link as l: the server is told, and
\* ask_for_proxy() returns to the loop of proxy_bind(), which makes the call
\* once more.
Accepted(l) ==
    /\ link' = l
    /\ IF ~Asking THEN call' = Goto("local") /\ UNCHANGED <<cl, srv>>
       ELSE /\ cl' = Closed(cl, AskSockets)
            /\ srv' = NoServer
            /\ \/ call' = [Goto("loop") EXCEPT !.test = NoFd, !.server = NoFd]
               \/ ~srv.open /\ call' = Idle

\* Mutant of Refused: no other proxy is asked for.
RefusedSilently(c, F) ==
    IF ~Asking THEN CloseFds(c, F) /\ call' = Goto("ask") /\ UNCHANGED srv
    ELSE /\ CloseFds([c EXCEPT !.addr = NULL], F)
         /\ call' = Goto("asking")
         /\ UNCHANGED srv

\* connect_to_proxy() returns 1 and has closed F: the server is asked, or asked
\* for another one.
Refused(c, F) ==
    IF ~Asking THEN CloseFds(c, F) /\ call' = Goto("ask") /\ UNCHANGED srv
    ELSE \/ /\ CloseFds([c EXCEPT !.addr = NULL], F)
            /\ call' = Goto("asking")
            /\ srv' = [srv EXCEPT !.reqs = @ + 1]
         \/ /\ ~srv.open
            /\ CloseFds([c EXCEPT !.addr = NULL], F \cup AskSockets)
            /\ call' = Idle
            /\ srv' = NoServer

\* ask_for_proxy() returns an error and proxy_bind() passes it on.
AskReturns(c, close, leak) ==
    /\ CloseFds(Used(c, leak, "leak"), close)
    /\ call' = Idle
    /\ srv' = NoServer
-----------------------------------------------------------------------------
(* Calls of the program *)

IsIdle == call.at = "idle"
Room   == Len(link.up) < MaxQueue /\ Len(link.down) < MaxQueue

\* The sockets of the program.
Sockets == {n \in Nums : cl.fd[n] \in {"app", "named"}}

\* proxy_socket(): a number that the pool knows from a socket closed before is
\* not used, and the socket under it is forgotten; without a number left the
\* loop goes on for ever.
Socket ==
    /\ IsIdle /\ Cardinality(Sockets) < MaxSocks
    /\ LET new == {n \in Free : cl.pool[n] = NoItem}
           old == {n \in Free : \A m \in new : n < m}
           c   == Used(cl, old, "udp")
       IN  IF new = {} THEN cl' = c /\ call' = Goto("stuck")
           ELSE /\ cl' = [c EXCEPT !.fd[Min(new)] = "app",
                                   !.pool[Min(new)] = NewItem]
                /\ UNCHANGED call
    /\ UNCHANGED <<srv, link, hist>>

\* proxy_bind() of a socket that is not bound.
Bind(s) ==
    /\ IsIdle /\ Room
    /\ ~cl.pool[s].bound
    /\ call' = [Idle EXCEPT !.at = "loop", !.sock = s]
    /\ UNCHANGED <<cl, srv, link, hist>>

\* What Proxy-close names: a foreign number is one of another client's sockets,
\* of another socket of this client, or of none (then it is Foreign still).
Named(s) == IF cl.pool[s].psock = Foreign THEN PSocks \cup {Foreign} ELSE {cl.pool[s].psock}

\* proxy_close() behind a firewall.  The item stays in the pool, so that its
\* number is not used again; the number at the proxy is not read any more.  What
\* is sent if proxy is not the link says nothing to whoever gets it.
Close(s) ==
    /\ IsIdle /\ Room /\ cl.behind
    /\ \E n \in Named(s) :
         /\ link' = IF cl.proxy = link.fd THEN Up(link, "close", n) ELSE link
         /\ hist' = [hist EXCEPT !.stray = @ \/ (link.open /\ n # cl.pool[s].psock)]
    /\ cl' = [Closed(cl, {s}) EXCEPT !.pool[s] = NewItem]
    /\ UNCHANGED <<call, srv>>

\* ... in front of it: the pool is not told.
CloseDirect(s) ==
    /\ IsIdle /\ ~cl.behind
    /\ cl' = Closed(cl, {s})
    /\ UNCHANGED <<call, srv, link, hist>>

\* set_server_address(): the link is forgotten.
SetServer ==
    /\ IsIdle
    /\ LeakLink([cl EXCEPT !.addr = NULL, !.proxy = NoFd])
    /\ UNCHANGED <<call, srv, hist>>

\* A recv() on the link takes k messages that have arrived; what is behind the
\* first one is not looked at.
Takes(k, kinds) == k \in 1..Len(link.down) /\ link.down[1].kind \in kinds
After(k)        == [link EXCEPT !.down = Tail1(@, k)]
Arrived         == link.down[1]

\* recv() finds no more messages and the end of the stream.
AtEnd == ~link.open /\ link.down = <<>>

\* The part of proxy_select() that looks at the link: answers to heartbeats
\* and pings are read there.
Select ==
    /\ IsIdle /\ cl.behind /\ cl.proxy # NoFd /\ cl.proxy = link.fd
    /\ \E k \in 1..Len(link.down) :
         /\ Takes(k, {"beat", "pong"})
         /\ link' = After(k)
    /\ UNCHANGED <<cl, call, srv, hist>>

\* ... or its end: the variable is cleared, the socket stays open.  So it is if
\* proxy names another socket, of which recv() gives nothing or an error.
SelectEnd ==
    /\ IsIdle /\ cl.behind /\ cl.proxy # NoFd
    /\ IF cl.proxy = link.fd THEN AtEnd ELSE cl.fd[cl.proxy] \in {"named", "leak", "conn", "half"}
    /\ LeakLink([cl EXCEPT !.proxy = NoFd])
    /\ UNCHANGED <<call, srv, hist>>
-----------------------------------------------------------------------------
(* ask_for_proxy() *)

AskStarts == call.at = "ask" \/ (call.at = "loop" /\ cl.addr = NULL)

\* No number for test_sock, or for my_sock; or the server is out of reach:
\* connect() fails, and my_sock stays open as test_sock does, or recv() fails,
\* or the request cannot be sent, and the address of the last proxy is kept.
AskUnserved ==
    /\ AskStarts
    /\ \/ AskReturns(cl, {}, {})
       \/ /\ Free # {}
          /\ LET t == NextFd
                 c == [cl EXCEPT !.addr = NULL]
             IN  \/ AskReturns(c, {}, {t})
                 \/ Free # {t} /\ AskReturns(Used(c, {Min(Free \ {t})}, "half"), {}, {t})
                 \/ Free # {t} /\ AskReturns(cl, {}, {t})
    /\ UNCHANGED hist

\* test_sock listens, the server greets and is asked to test it.
Ask ==
    /\ AskStarts
    /\ Cardinality(Free) > 1
    /\ LET t == NextFd
           m == Min(Free \ {t})
       IN  /\ cl' = [cl EXCEPT !.fd[t] = "test", !.fd[m] = "server"]
           /\ call' = [call EXCEPT !.at = "asking", !.test = t, !.server = m]
    /\ \E T \in Tables : srv' = [NoServer EXCEPT !.open = TRUE, !.reqs = 1, !.table = T]
    /\ UNCHANGED <<link, hist>>

\* recv() at the server's socket takes k answers.
Answer(k)   == call.at = "asking" /\ k \in 1..Len(srv.out)
Answered(k) == [srv EXCEPT !.out = Tail1(@, k)]

\* Mutant of AskDirect: test_sock stays open.
AskDirectOpen(k) ==
    /\ Answer(k) /\ srv.out[1] = "no"
    /\ CloseFds([cl EXCEPT !.addr = Self, !.behind = FALSE], {call.server})
    /\ call' = [Goto("loop") EXCEPT !.test = NoFd, !.server = NoFd]
    /\ srv' = NoServer
    /\ UNCHANGED hist

\* NO: the client is at the address that the server sees and not behind a
\* firewall, if it can connect there to itself.
AskDirect(k) ==
    /\ Answer(k) /\ srv.out[1] = "no"
    /\ LET c == [cl EXCEPT !.addr = Self, !.behind = FALSE]
       IN  IF Free = {} THEN AskReturns(c, AskSockets, {})
           ELSE /\ CloseFds(c, AskSockets)
                /\ call' = [Goto("loop") EXCEPT !.test = NoFd, !.server = NoFd]
                /\ srv' = NoServer
    /\ UNCHANGED hist

\* ... if it cannot, a proxy is asked for, and once more after the call of
\* connect_to_proxy() that follows without an address.
AskBehind(k) ==
    /\ Answer(k) /\ srv.out[1] = "no" /\ Free # {}
    /\ LET c == [cl EXCEPT !.addr = NULL, !.behind = TRUE]
       IN  \/ /\ cl' = c
              /\ srv' = [Answered(k) EXCEPT !.reqs = @ + 2]
              /\ UNCHANGED <<call, link>>
           \/ ~srv.open /\ AskReturns(c, AskSockets, {})
    /\ UNCHANGED hist

\* YES with a proxy.
AskOffered(k) ==
    /\ Answer(k) /\ srv.out[1] \in Proxies
    /\ cl' = [cl EXCEPT !.addr = srv.out[1], !.behind = TRUE]
    /\ call' = Goto("try")
    /\ srv' = Answered(k)
    /\ UNCHANGED <<link, hist>>

\* YES without one: both sockets stay open.  The port is 0 then, so that the
\* address is none (reply_behind_firewall(), connect_to_proxy()).
AskNone(k) ==
    /\ Answer(k) /\ srv.out[1] = NoProxy
    /\ LET c == [cl EXCEPT !.addr = NoProxy, !.behind = TRUE]
       IN  AskReturns(Used(c, {call.server}, "conn"), {}, {call.test})
    /\ UNCHANGED hist

\* The server reset the connection.  Its end is not noticed: the loop goes on.
AskReset ==
    /\ call.at = "asking" /\ ~srv.open /\ srv.out = <<>>
    /\ AskReturns(cl, AskSockets, {})
    /\ UNCHANGED hist
-----------------------------------------------------------------------------
(* The managing server's side *)

\* It has tested the connection: NO, or as for Get-proxy.
ServerTests ==
    /\ srv.open /\ ~srv.tested
    /\ srv' = [srv EXCEPT !.tested = TRUE, !.reqs = @ - 1, !.out = Append(@, "no")]
    /\ UNCHANGED <<cl, call, link, hist>>

\* A proxy is assigned to whoever is behind a firewall, or sends Get-proxy (k of
\* them that arrive together are one), the last one assigned being bad.
ServerAssigns(k) ==
    /\ srv.open /\ k \in 1..srv.reqs
    /\ LET bad == srv.bad \cup ({srv.assigned} \ {NoProxy})
           p   == FindProxy(srv.table, bad)
       IN  srv' = [srv EXCEPT !.tested = TRUE, !.reqs = @ - k, !.out = Append(@, p),
                                 !.assigned = p, !.bad = bad, !.again = @ \/ p \in bad]
    /\ UNCHANGED <<cl, call, link, hist>>

ServerHangsUp ==
    /\ srv.open
    /\ srv' = [srv EXCEPT !.open = FALSE]
    /\ UNCHANGED <<cl, call, link, hist>>
-----------------------------------------------------------------------------
(* connect_to_proxy() *)

ConnectStarts == call.at = "try" \/ (call.at = "loop" /\ cl.addr # NULL)

\* Without a firewall there is nothing to do.
ConnectNone ==
    /\ ConnectStarts /\ ~cl.behind
    /\ Accepted(link)
    /\ UNCHANGED hist

\* There is no address or port, or no number for a socket.
ConnectNowhere ==
    /\ ConnectStarts /\ cl.behind
    /\ cl.addr \notin Proxies \/ (cl.proxy = NoFd /\ Free = {})
    /\ Refused(cl, {})
    /\ UNCHANGED hist

Connects == ConnectStarts /\ cl.behind /\ cl.addr \in Proxies

\* The link is there: a ping is sent.
Ping ==
    /\ Connects /\ cl.proxy # NoFd /\ cl.proxy = link.fd
    /\ link' = Up(link, "ping", Foreign)
    /\ call' = Goto("pong")
    /\ UNCHANGED <<cl, srv, hist>>

\* ... which fails, as does connect() on the same socket.
PingFails ==
    /\ Connects /\ cl.proxy # NoFd /\ cl.proxy = link.fd
    /\ ~link.open
    /\ Refused([cl EXCEPT !.proxy = NoFd], {cl.proxy})
    /\ UNCHANGED hist

\* Whatever comes is taken for the answer, and so is the end of the stream.
Pong ==
    /\ call.at = "pong"
    /\ \/ \E k \in 1..Len(link.down) :
            /\ call' = [Losing(link.down, k) EXCEPT !.at = "local"]
            /\ link' = After(k)
       \/ AtEnd /\ call' = Goto("local") /\ UNCHANGED link
    /\ UNCHANGED <<cl, srv, hist>>

\* The proxy cannot be reached.
ConnectFails ==
    /\ Connects /\ cl.proxy = NoFd /\ Free # {}
    /\ Refused(cl, {})
    /\ UNCHANGED hist

\* It is, by socket n, and greets; without a key pair it asks for no
\* authentication.
Greeted(n) ==
    /\ cl' = [cl EXCEPT !.fd[n] = "link", !.proxy = n]
    /\ \E b \in BOOLEAN :
         link' = [NoLink EXCEPT !.fd = n, !.to = cl.addr, !.open = TRUE, !.authorized = b,
                                !.down = <<Msg("hello", Foreign)>>]
    /\ call' = Goto("hello")
    /\ UNCHANGED srv

Connect ==
    /\ Connects /\ cl.proxy = NoFd /\ Free # {}
    /\ Greeted(NextFd)
    /\ UNCHANGED hist

\* proxy is the number of a link that was closed (AuthFails): of another socket
\* by now, or of none.
Stale    == Connects /\ cl.proxy \notin {NoFd, link.fd}
NamedUse == cl.fd[cl.proxy]
UseStale == hist' = [hist EXCEPT !.stale = TRUE]

\* ... it is closed and given up.  If it was test_sock the next select() fails,
\* and ask_for_proxy() returns 0; if it was my_sock the next request does.
GivenUp ==
    LET c == [cl EXCEPT !.proxy = NoFd]
    IN  IF cl.proxy \notin AskSockets THEN Refused(c, {cl.proxy})
        ELSE /\ CloseFds([c EXCEPT !.addr = NULL], AskSockets)
             /\ srv' = NoServer
             /\ \/ (cl.proxy = call.server \/ ~srv.open) /\ call' = Idle
                \/ /\ cl.proxy = call.test
                   /\ call' = [Goto("loop") EXCEPT !.test = NoFd, !.server = NoFd]

\* send() and connect() fail, as on a socket that listens or none at all.
StaleFails ==
    /\ Stale /\ ~(NamedUse = "server" /\ srv.open)
    /\ GivenUp
    /\ UseStale

\* send() fails and connect() succeeds: on a socket whose first connect() did
\* not, which becomes the link; on a UDP socket, where no greeting ever comes,
\* or a datagram that is there is taken for it and the authentication fails.
StaleConnects ==
    /\ Stale
    /\ \/ NamedUse = "half" /\ Greeted(cl.proxy)
       \/ /\ NamedUse \in {"app", "named", "udp"}
          /\ call' = Goto("stuck")
          /\ UNCHANGED <<cl, srv, link>>
       \/ NamedUse = "named" /\ Refused(cl, {cl.proxy})
    /\ UseStale

\* send() succeeds, on a connection to the managing server: my_sock, or the one
\* that AskNone left open.
StaleSends ==
    /\ Stale /\ NamedUse \in {"server", "conn"}
    /\ call' = Goto("stale")
    /\ UNCHANGED <<cl, srv, link>>
    /\ UseStale

\* ... whatever comes from there is taken for the answer of the proxy, and so
\* is the end of the stream, so that the connection is taken for the link; or
\* recv() fails.  The server closes the one it had no proxy for.
StaleAnswer ==
    /\ call.at = "stale"
    /\ \/ (NamedUse = "conn" \/ srv.out # <<>> \/ ~srv.open) /\ Accepted(link)
       \/ (NamedUse = "conn" \/ ~srv.open) /\ GivenUp
    /\ UNCHANGED hist

\* recv() fails: in the ping and after connect().
LinkReset ==
    /\ call.at \in {"pong", "hello"}
    /\ AtEnd
    /\ Refused([cl EXCEPT !.proxy = NoFd], {cl.proxy})
    /\ UNCHANGED hist

\* authenticating(), after the greeting: without keys there is nothing to do.
NoKeys ==
    /\ call.at = "hello" /\ ~cl.keys
    /\ link.down # <<>> \/ ~link.open
    /\ Accepted([link EXCEPT !.down = <<>>])
    /\ UNCHANGED hist

Authenticate ==
    /\ call.at = "hello" /\ cl.keys
    /\ link.down # <<>> \/ ~link.open
    /\ link' = Up([link EXCEPT !.down = <<>>], "auth1", Foreign)
    /\ call' = Goto("auth1")
    /\ UNCHANGED <<cl, srv, hist>>

\* The name and the key of the proxy: the shared secret is proved.
AuthKey(k) ==
    /\ call.at = "auth1" /\ Takes(k, {"key"})
    /\ link' = Up(After(k), "auth2", Foreign)
    /\ call' = Goto("auth2")
    /\ UNCHANGED <<cl, srv, hist>>

AuthOk(k) ==
    /\ call.at \in {"auth1", "auth2"} /\ Takes(k, {"ok"})
    /\ Accepted(After(k))
    /\ UNCHANGED hist

\* Anything else: the socket is closed, the variable keeps its number.
AuthFails ==
    /\ \/ call.at = "auth1" /\ link.down # <<>> /\ Arrived.kind \notin {"key", "ok"}
       \/ call.at = "auth2" /\ link.down # <<>> /\ Arrived.kind # "ok"
       \/ call.at \in {"auth1", "auth2"} /\ AtEnd
    /\ Refused(cl, {cl.proxy})
    /\ UNCHANGED hist
-----------------------------------------------------------------------------
(* proxy_bind(), behind its loop *)

Sock == call.sock

\* bind() fails, as it does for a socket that is bound already.
LocalFails ==
    /\ call.at = "local"
    /\ call' = Idle
    /\ UNCHANGED <<cl, srv, link, hist>>

\* There is a port.  With a firewall the proxy is asked for one, too.
Local ==
    /\ call.at = "local" /\ cl.fd[Sock] = "app"
    /\ cl' = [cl EXCEPT !.fd[Sock] = "named"]
    /\ \/ cl.behind /\ call' = Goto("wait") /\ link' = Up(link, "bind", Foreign)
       \/ cl.behind /\ ~link.open /\ call' = Idle /\ UNCHANGED link
       \/ ~cl.behind /\ call' = Idle /\ UNCHANGED link
    /\ UNCHANGED <<srv, hist>>

\* Mutant of Bound: the number is that of the socket in the client.
BoundOther(k) ==
    /\ call.at = "wait" /\ Takes(k, {"bound"})
    /\ cl' = [cl EXCEPT !.pool[Sock] = [bound |-> TRUE, psock |-> IF link.open THEN Min(PSocks) ELSE Foreign]]
    /\ link' \in {After(k), Up(After(k), "over", Foreign)}
    /\ call' = Idle
    /\ UNCHANGED <<srv, hist>>

\* Proxy-bound: the pool is told, the path tested and the proxy told how it is
\* (unless the test fails).
Bound(k) ==
    /\ call.at = "wait" /\ Takes(k, {"bound"})
    /\ cl' = [cl EXCEPT !.pool[Sock] = [bound |-> TRUE, psock |-> IF link.open THEN Arrived.psock ELSE Foreign]]
    /\ link' \in {After(k), Up(After(k), "over", Foreign)}
    /\ call' = Idle
    /\ UNCHANGED <<srv, hist>>

\* Proxy-auth-1: Failed.
Unauthorized(k) ==
    /\ call.at = "wait" /\ Takes(k, {"failed"})
    /\ link' = After(k)
    /\ call' = Idle
    /\ UNCHANGED <<cl, srv, hist>>

\* Anything else is passed over, Proxy-bind-error with it.
PassedOver(k) ==
    /\ call.at = "wait" /\ Takes(k, {"pong", "beat", "error"})
    /\ link' = After(k)
    /\ call' = [Losing(link.down, k) EXCEPT !.denied = @ \/ Arrived.kind = "error"]
    /\ UNCHANGED <<cl, srv, hist>>

\* recv() fails.  At the end of the stream the loop goes on.
WaitReset ==
    /\ call.at = "wait" /\ AtEnd
    /\ call' = Idle
    /\ UNCHANGED <<cl, srv, link, hist>>
-----------------------------------------------------------------------------
(* The proxy's side *)

Down(l, k, n) == [l EXCEPT !.down = Append(@, Msg(k, n))]

\* The proxy has closed the link.
HungUp(l) == [l EXCEPT !.open = FALSE, !.up = <<>>, !.udp = {}]

\* The first of k messages that are received together is m; l is the link
\* without them.
Handles(m, k, l) ==
    /\ link.open /\ k \in 1..Len(link.up) /\ m = link.up[1]
    /\ l = [link EXCEPT !.up = Tail1(@, k)]
    /\ call' = IF IsIdle THEN call ELSE Losing(link.up, k)
    /\ UNCHANGED <<srv, hist>>

\* Mutant of ProxyPing: it is not answered.
ProxyPingNot(m, k, l) ==
    /\ Handles(m, k, l) /\ m.kind = "ping"
    /\ link' = l
    /\ UNCHANGED cl

ProxyPing(m, k, l) ==
    /\ Handles(m, k, l) /\ m.kind = "ping"
    /\ link' = Down(l, "pong", Foreign)
    /\ UNCHANGED cl

\* Is-over-TCP.
ProxyOver(m, k, l) ==
    /\ Handles(m, k, l) /\ m.kind = "over"
    /\ link' = l
    /\ UNCHANGED cl

\* Mutant of ProxyAuth: auth_2() does not note that the client is authorized.
ProxyAuthForgets(m, k, l) ==
    /\ Handles(m, k, l)
    /\ \/ m.kind = "auth1" /\ l.authorized /\ link' = Down(l, "ok", Foreign)
       \/ m.kind = "auth1" /\ ~l.authorized /\ link' = Down(l, "key", Foreign)
       \/ m.kind = "auth2" /\ link' = Down(l, "ok", Foreign)
    /\ UNCHANGED cl

\* auth_1(): OK without a key pair, else the key of the proxy if the user's is
\* right, the link is closed if it is not, and Failed sent before if there is
\* no such user.  auth_2(): OK, or Failed.
ProxyAuth(m, k, l) ==
    /\ Handles(m, k, l)
    /\ \/ m.kind = "auth1" /\ l.authorized /\ link' = Down(l, "ok", Foreign)
       \/ m.kind = "auth1" /\ ~l.authorized /\ link' = Down(l, "key", Foreign)
       \/ m.kind = "auth1" /\ ~l.authorized /\ link' = HungUp(l)
       \/ m.kind = "auth2" /\ link' = Down([l EXCEPT !.authorized = TRUE], "ok", Foreign)
       \/ ~l.authorized /\ m.kind \in {"auth1", "auth2"} /\ link' = HungUp(Down(l, "failed", Foreign))
    /\ UNCHANGED cl

\* Mutant of ProxyBind: the number is not tested, -1 is told as well.
ProxyBindUntested(m, k, l) ==
    /\ Handles(m, k, l) /\ m.kind = "bind" /\ l.authorized
    /\ \E n \in PSocks \cup {NoFd} :
         /\ n \notin l.udp
         /\ link' = [Down(l, "bound", n) EXCEPT !.udp = @ \cup {n}]
    /\ UNCHANGED cl

\* Proxy-bind of a client that is authorized, and one that is not.
ProxyBind(m, k, l) ==
    /\ Handles(m, k, l) /\ m.kind = "bind" /\ l.authorized
    /\ \/ \E n \in PSocks :
            /\ n \notin l.udp
            /\ link' = [Down(l, "bound", n) EXCEPT !.udp = @ \cup {n}]
       \/ link' = Down(l, "error", Foreign)
    /\ UNCHANGED cl

ProxyRefuses(m, k, l) ==
    /\ Handles(m, k, l) /\ m.kind = "bind" /\ ~l.authorized
    /\ link' = HungUp(Down(l, "failed", Foreign))
    /\ cl' = Unlinked(cl)

\* Proxy-close: whoever has the socket of that number.
ProxyClose(m, k, l) ==
    /\ Handles(m, k, l) /\ m.kind = "close"
    /\ link' = [l EXCEPT !.udp = @ \ {m.psock}]
    /\ UNCHANGED cl

ProxyHandles ==
    \E k \in 1..Len(link.up) :
      LET m == link.up[1]
          l == [link EXCEPT !.up = Tail1(@, k)]
      IN  \/ ProxyPing(m, k, l) \/ ProxyOver(m, k, l) \/ ProxyAuth(m, k, l)
          \/ ProxyBind(m, k, l) \/ ProxyRefuses(m, k, l) \/ ProxyClose(m, k, l)

\* The proxy ends, or the connection does.
ProxyHangsUp ==
    /\ link.open
    /\ link' = HungUp(link)
    /\ cl' = Unlinked(cl)
    /\ UNCHANGED <<call, srv, hist>>

\* A heartbeat of proxy_pinger() for a bound socket arrives at the proxy and is
\* answered on the link.
Beat ==
    /\ link.open /\ Len(link.down) < MaxQueue
    /\ \E n \in Nums : cl.pool[n].psock \in link.udp
    /\ link' = Down(link, "beat", Foreign)
    /\ UNCHANGED <<cl, call, srv, hist>>
-----------------------------------------------------------------------------
Program == \/ Socket \/ SetServer \/ Select \/ SelectEnd
           \/ \E s \in Sockets : Bind(s) \/ Close(s) \/ CloseDirect(s)

Asks == \/ AskUnserved \/ Ask \/ AskReset
        \/ \E k \in 1..Len(srv.out) :
             AskDirect(k) \/ AskBehind(k) \/ AskOffered(k) \/ AskNone(k)

ConnectsToProxy ==
    \/ ConnectNone \/ ConnectNowhere \/ Ping \/ PingFails \/ Pong
    \/ ConnectFails \/ Connect \/ LinkReset
    \/ StaleFails \/ StaleConnects \/ StaleSends \/ StaleAnswer
    \/ NoKeys \/ Authenticate \/ AuthFails
    \/ \E k \in 1..Len(link.down) : AuthKey(k) \/ AuthOk(k)

Binds == \/ LocalFails \/ Local \/ WaitReset
         \/ \E k \in 1..Len(link.down) : Bound(k) \/ Unauthorized(k) \/ PassedOver(k)

ServerAnswers == ServerTests \/ \E k \in 1..srv.reqs : ServerAssigns(k)

\* A loop that does not end: no number is left, the end of the stream is read
\* again and again, or nothing comes.
Spins ==
    /\ call.at = "stuck" \/ (call.at = "asking" /\ ~srv.open) \/ (call.at \in {"pong", "wait"} /\ AtEnd)
    /\ UNCHANGED vars

SessionNext ==
    \/ Spins
    \/ Program \/ Asks \/ ConnectsToProxy \/ Binds
    \/ ServerAnswers \/ ServerHangsUp
    \/ ProxyHandles \/ ProxyHangsUp \/ Beat

SessionSpec == SessionInit /\ [][SessionNext]_vars

\* A call goes on while it can; server and proxy handle what arrives.
SessionFair ==
    /\ WF_vars(Asks) /\ WF_vars(ConnectsToProxy) /\ WF_vars(Binds)
    /\ WF_vars(ServerAnswers) /\ WF_vars(ProxyHandles)
FairSession == SessionSpec /\ SessionFair
-----------------------------------------------------------------------------
(* Properties *)

\* Behind the loop of proxy_bind() with a firewall, the variable proxy is a link
\* to the proxy whose address the program is given, and a client that has keys
\* is authorized there: connect_to_proxy() takes no refused connection and not
\* the last one for it.  The one thing it does take for it, under the number of
\* a link whose authentication failed, is a connection to the managing server
\* that ask_for_proxy() left open (proxy_socket.c:367, 155).
Linked ==
    call.at \in {"local", "wait"} /\ cl.behind =>
      \/ /\ cl.proxy = link.fd /\ link.fd # NoFd /\ link.to = cl.addr
         /\ cl.keys /\ link.open => link.authorized
      \/ hist.stale /\ cl.proxy \in Nums /\ cl.fd[cl.proxy] = "conn"

\* "returns: 0 - Success" (proxy_socket.c:250): when ask_for_proxy() returns 0
\* to the loop of proxy_bind() with the address of a proxy, the variable proxy
\* is a connection to a proxy ("Connected to Proxy", line 458).
AskSucceeds ==
    [][Asking /\ call'.at = "loop" /\ cl'.addr \in Proxies => cl'.proxy = link'.fd /\ link'.fd # NoFd]_vars

\* A socket that the pool has as bound is a socket of this client at the proxy,
\* for as long as the link lasts and no close went astray.
BoundThere ==
    ~hist.stray =>
      \A n \in Nums : cl.pool[n].psock \in PSocks => cl.pool[n].bound /\ cl.pool[n].psock \in link.udp

\* No call leaves a descriptor open that nobody can close: those it leaves are
\* left where the code does so, and there only.
NoLeak ==
    call.at = "idle" =>
      \A n \in Nums :
        /\ cl.fd[n] \notin {"test", "server"}
        /\ cl.fd[n] = "link" => cl.proxy = n

\* ask_for_proxy() ends: proxies that cannot be reached or refuse the client
\* are passed over one by one, unless the server hangs up without a reset or
\* assigns again a proxy that was reported, or something else than the link is
\* waited on under the number of one that was closed.
AskEnds == []<>(Asking => ~srv.open \/ srv.again \/ call.at \in {"stale", "stuck"})

\* proxy_bind() returns when the proxy has bound the socket, unless the answer
\* was thrown away, was a refusal, or the proxy hung up.
BindEnds == []<>(call.at \in {"pong", "local", "wait"} => call.lost \/ call.denied \/ ~link.open)
=============================================================================
