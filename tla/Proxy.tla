-------------------------------- MODULE Proxy --------------------------------
(***************************************************************************)
(* The proxy (proxy/client_handler.c): connections of clients, the UDP     *)
(* sockets bound for them, the connection on which the proxy registers     *)
(* with the managing server, timer_event(), and the threads that connect   *)
(* to the server and bind.  The loop is that of ServerLoop; here one event *)
(* with all that its handler and the rm_socket() after it do is one step,  *)
(* and so is a stretch of a thread up to its next use of shared memory.    *)
(***************************************************************************)
EXTENDS Naturals, FiniteSetsExt

CONSTANTS Fds,        \* descriptor numbers, besides those of the listener
          Recs,       \* bound: the CLIENT_DATA records allocated at a time
          MaxClients, \* bound: what nclients is counted up to
          KeyPair,    \* clients and proxy have keys: clients authenticate
          NoRec,      \* NULL
          Gone        \* a pointer to a record that was released

ASSUME RecAssumption ==
    /\ IsFiniteSet(Recs) /\ Recs \subseteq Nat
    /\ IsFiniteSet(Fds) /\ Fds \subseteq Nat
    /\ {NoRec, Gone} \cap Recs = {} /\ NoRec # Gone
    /\ NoRec \notin Fds
ASSUME BoundAssumption == MaxClients \in Nat /\ KeyPair \in BOOLEAN

VARIABLES
  tab,        \* the tables of the process, see Tables
  nclients,   \* the number of clients that is registered
  disabled,   \* timer_disabled: an attempt to register is under way
  age,        \* now - last_registration, see Ages
  pc,         \* the loop: "loop", "rm" inside timer_event(), or "exit"
  listening,  \* the listening socket is open
  late        \* history: a stale record, number, pointer or buffer was used
vars == <<tab, nclients, disabled, age, pc, listening, late>>

\* At most registration_timeout, at most registration_period, or longer ago.
Ages  == {"fresh", "late", "stale"}
Kinds == {"read", "write"}
Ptrs  == Recs \cup {NoRec, Gone}

\* A record: what the connection is for, the number it was opened under, the
\* step, control of a UDP record, nsize > 0 of a client, and closed.
Records == [kind : {"none", "client", "server", "udp"}, sock : Fds \cup {NoRec},
            step : {"connected", "request"}, control : Ptrs,
            reply : BOOLEAN, closed : BOOLEAN]

\* A thread is given a record; binding() copies its control pointer.
Threads == [at : {"none", "connect", "bind", "register", "reply", "write"},
            control : Ptrs]
NoThread == [at |-> "none", control |-> NoRec]

\* The records, the threads by the record they were given, sock_data, the sets
\* of master, whose socket is open under a number, and the pointer server.
Tables == [rec : [Recs -> Records], thread : [Recs -> Threads],
           hm : [Fds -> Ptrs], watch : [Fds -> SUBSET Kinds],
           open : [Fds -> Recs \cup {NoRec}], server : Ptrs]

TypeOK ==
    /\ tab \in Tables
    /\ nclients \in 0..MaxClients
    /\ disabled \in BOOLEAN /\ listening \in BOOLEAN /\ late \in BOOLEAN
    /\ age \in Ages
    /\ pc \in {"loop", "rm", "exit"}

New(kind, f, step, control) ==
    [kind |-> kind, sock |-> f, step |-> step, control |-> control,
     reply |-> FALSE, closed |-> FALSE]

\* A place where no record is allocated.
NoRecord == New("none", NoRec, "connected", NoRec)

Init ==
    /\ tab = [rec |-> [r \in Recs |-> NoRecord], thread |-> [r \in Recs |-> NoThread],
              hm |-> [f \in Fds |-> NoRec], watch |-> [f \in Fds |-> {}],
              open |-> [f \in Fds |-> NoRec], server |-> NoRec]
    /\ nclients = 0
    /\ disabled = FALSE
    /\ age = "stale"
    /\ pc = "loop"
    /\ listening = TRUE
    /\ late = FALSE
-----------------------------------------------------------------------------
(* What calls do to the tables *)

Free(T)   == {f \in Fds : T.open[f] = NoRec}
Unused(T) == {r \in Recs : T.rec[r].kind = "none" /\ T.thread[r] = NoThread}

\* The number the next socket gets, the lowest free one, and the next record.
\* Which record that is makes no difference, as dangling pointers are Gone.
NextFd(T)  == Min(Free(T))
NextRec(T) == Min(Unused(T))

\* free() of the records R: every pointer to one of them dangles.
Release(T, R) ==
    LET ptr(p) == IF p \in R THEN Gone ELSE p
    IN  [T EXCEPT
          !.rec = [r \in Recs |-> IF r \in R THEN NoRecord
                                  ELSE [T.rec[r] EXCEPT !.control = ptr(@)]],
          !.thread = [r \in Recs |-> [T.thread[r] EXCEPT !.control = ptr(@)]],
          !.hm = [f \in Fds |-> ptr(T.hm[f])],
          !.server = ptr(@)]

\* Mutant of Drop: the bits are not cleared.
DropKeepsBits(T, F) ==
    Release([T EXCEPT !.open = [f \in Fds |-> IF f \in F THEN NoRec ELSE T.open[f]],
                      !.hm = [f \in Fds |-> IF f \in F THEN NoRec ELSE T.hm[f]]],
            {T.hm[f] : f \in F} \cap Recs)

\* Each number of F is taken out of the sets and out of the map, is closed, and
\* its record released: rm_socket(..., MASTER_ALL), and walk_master().
Drop(T, F) ==
    Release([T EXCEPT !.watch = [f \in Fds |-> IF f \in F THEN {} ELSE T.watch[f]],
                      !.open = [f \in Fds |-> IF f \in F THEN NoRec ELSE T.open[f]],
                      !.hm = [f \in Fds |-> IF f \in F THEN NoRec ELSE T.hm[f]]],
            {T.hm[f] : f \in F} \cap Recs)

\* rm_socket(f, sock_data, &master, flags).
RmSocket(T, f, flags) ==
    IF T.watch[f] \subseteq flags THEN Drop(T, {f})
    ELSE [T EXCEPT !.watch[f] = @ \ flags]

\* add_socket(f, sock_data, r, &master, {k}): a record in the map stays there.
AddSocket(T, f, r, k) ==
    [T EXCEPT !.hm[f] = IF @ = NoRec THEN r ELSE @, !.watch[f] = @ \cup {k}]

Close(T, f) == [T EXCEPT !.open[f] = NoRec]

\* socket() and get_client_data(): the tables with a new record r that has a
\* new socket f.
Opens(T, r, rec) == [T EXCEPT !.rec[r] = rec, !.open[rec.sock] = r]

\* There is a number for another socket; the bound on records counts as one
\* on numbers.
Room(T) == Free(T) # {} /\ Unused(T) # {}

\* register_on_server().  If socket() fails, the pointer server stays as it is.
Register(T) ==
    IF ~Room(T) THEN T
    ELSE LET r == NextRec(T)
         IN  [Opens(T, r, New("server", NextFd(T), "request", NoRec)) EXCEPT
                !.server = r, !.thread[r].at = "connect"]

\* Mutant of Walked: the UDP sockets of a client stay.
WalkedControl(T, c) ==
    {f \in Fds : /\ T.watch[f] # {} /\ T.hm[f] \in Recs
                 /\ T.rec[c].kind = "udp" /\ T.rec[c].control = T.hm[f]}

\* The numbers walk_master() drops with master_walker() for record c: the UDP
\* sockets of a client, the client of a UDP socket.
Walked(T, c) ==
    {f \in Fds : /\ T.watch[f] # {} /\ T.hm[f] \in Recs
                 /\ \/ T.rec[c].kind = "client" /\ T.rec[T.hm[f]].control = c
                    \/ T.rec[c].kind = "udp" /\ T.rec[c].control = T.hm[f]}

\* The UDP sockets whose client is gone, see HangUp.
Orphans(T) == {f \in Fds : T.hm[f] \in Recs /\ T.rec[T.hm[f]].control = Gone}

\* What it may drop as well: a control that dangles is equal to c, or is c's and
\* equal to another record, if that is where the client was that is gone.
Mistaken(T, c) ==
    {{}} \cup IF T.rec[c].kind = "client" THEN SUBSET Orphans(T)
             ELSE IF T.rec[c].control = Gone
                  THEN {{f} : f \in {g \in Fds : T.watch[g] # {} /\ T.hm[g] \in Recs \ {c}}}
                  ELSE {}
-----------------------------------------------------------------------------
(* The handler.  Each action handles one event of number f. *)

\* The loop finds f ready for k and record c in the map.
Event(f, c, k) == tab.hm[f] = c /\ pc = "loop" /\ k \in tab.watch[f]

Reads(f, c) == Event(f, c, "read") /\ tab.rec[c].step = "request"

Request(f, c, kind) == Reads(f, c) /\ tab.rec[c].kind = kind

\* Mutant of Greets: the client is counted before the greeting is sent.
GreetsEarly(T, c) ==
    \/ /\ nclients < MaxClients
       /\ tab' = [T EXCEPT !.rec[c].step = "request"]
       /\ nclients' = nclients + 1
       /\ age' = "stale"
       /\ UNCHANGED listening
    \/ /\ nclients < MaxClients
       /\ tab' = T /\ listening' = FALSE
       /\ nclients' = nclients + 1
       /\ age' = "stale"

\* client_connected() after accept(): if the greeting cannot be sent, the loop
\* removes the listening socket.
Greets(T, c) ==
    \/ /\ nclients < MaxClients
       /\ tab' = [T EXCEPT !.rec[c].step = "request"]
       /\ nclients' = nclients + 1
       /\ age' = "stale"
       /\ UNCHANGED listening
    \/ /\ tab' = T /\ listening' = FALSE
       /\ UNCHANGED <<nclients, age>>

Accept ==
    /\ pc = "loop" /\ listening
    /\ Room(tab)
    /\ LET f == NextFd(tab)
           c == NextRec(tab)
           T == Opens(tab, c, New("client", f, "connected", NoRec))
       IN  Greets(AddSocket(T, f, c, "read"), c)
    /\ UNCHANGED <<disabled, pc, late>>

\* client_connected() of a client that could not be greeted at accept().
Hello(f, c) ==
    /\ Event(f, c, "read") /\ tab.rec[c].step = "connected"
    /\ \/ /\ nclients < MaxClients
          /\ tab' = [tab EXCEPT !.rec[c].step = "request"]
          /\ nclients' = nclients + 1
          /\ age' = "stale"
       \/ /\ tab' = Drop(tab, {f})
          /\ UNCHANGED <<nclients, age>>
    /\ UNCHANGED <<disabled, pc, listening, late>>

\* Mutant of HangUp: nclients is not tested for zero.
HangUpUnguarded(f, c) ==
    /\ Reads(f, c)
    /\ nclients' = nclients - 1
    /\ age' = "stale"
    /\ tab' = Drop(tab, Walked(tab, c) \cup {f})
    /\ UNCHANGED <<disabled, pc, listening, late>>

\* End of file, an error of recv(), or a command that needs an authentication
\* the client lacks: disconnect(), then rm_socket().  A UDP socket on which an
\* error or an empty datagram arrives takes its client along, and leaves the
\* others of that client without one.
HangUp(f, c) ==
    /\ Reads(f, c)
    /\ nclients' = IF nclients > 0 THEN nclients - 1 ELSE 0
    /\ age' = "stale"
    /\ \E F \in Mistaken(tab, c) :
         /\ tab' = Drop(tab, Walked(tab, c) \cup {f} \cup F)
         /\ late' = (late \/ F # {})
    /\ UNCHANGED <<disabled, pc, listening>>

\* The client waits for the answer to a bind, and asks for nothing else.
Waiting(c) == tab.rec[c].reply \/ \E u \in Recs : tab.thread[u].control = c

\* The UDP sockets of c in the map.
Bound(T, c) == {g \in Fds : T.hm[g] \in Recs /\ T.rec[T.hm[g]].control = c}

\* auth_1() returns DISCONNECT, for a key that is not that of the user: the
\* loop closes the connection, without disconnect().  Clients authenticate
\* before they bind.
AuthFails(f, c) ==
    /\ KeyPair
    /\ Request(f, c, "client") /\ ~Waiting(c) /\ Bound(tab, c) = {}
    /\ tab' = Drop(tab, {f})
    /\ UNCHANGED <<nclients, disabled, age, pc, listening, late>>

\* proxy_bind_reply(): a thread is started; if socket() fails the client is
\* told so at once.
Bind(f, c) ==
    /\ Request(f, c, "client") /\ ~Waiting(c)
    /\ tab' = IF ~Room(tab) THEN tab
              ELSE LET u == NextRec(tab)
                   IN  [Opens(tab, u, New("udp", NextFd(tab), "connected", c)) EXCEPT
                          !.thread[u] = [at |-> "bind", control |-> c]]
    /\ UNCHANGED <<nclients, disabled, age, pc, listening, late>>

\* proxy_close_reply(): the client names one of its UDP sockets.
CloseReply(f, c, g) ==
    /\ Request(f, c, "client") /\ ~Waiting(c)
    /\ g \in Bound(tab, c)
    /\ tab' = Drop([tab EXCEPT !.rec[c].closed = TRUE], {g})
    /\ UNCHANGED <<nclients, disabled, age, pc, listening, late>>

\* ECONNRESET: proxy_close_reply() parses what is left in buf of whatever was
\* received or sent last, which names no number or any.
Reset(f, c) ==
    /\ Reads(f, c) /\ tab.rec[c].kind \in {"client", "server"}
    /\ ~tab.rec[c].closed
    /\ LET T == [tab EXCEPT !.rec[c].closed = TRUE]
       IN  \/ tab' = T /\ UNCHANGED late
           \/ \E g \in Fds : /\ tab.hm[g] # NoRec
                             /\ tab' = Drop(T, {g})
                             /\ late' = (late \/ g \notin Bound(tab, c))
    /\ UNCHANGED <<nclients, disabled, age, pc, listening>>

\* A datagram or a heartbeat on a UDP socket: control is looked at.
Datagram(f, c) ==
    /\ Request(f, c, "udp")
    /\ late' = (late \/ tab.rec[c].control = Gone)
    /\ UNCHANGED <<tab, nclients, disabled, age, pc, listening>>

\* server_read(): "Registered-proxy".  The connection is closed.
Registered(f, c) ==
    /\ Request(f, c, "server")
    /\ disabled' = FALSE
    /\ tab' = Drop(tab, {f})
    /\ UNCHANGED <<nclients, age, pc, listening, late>>

\* client_write(): the answer to a bind.
ClientWrite(f, c) ==
    /\ Event(f, c, "write")
    /\ tab' = IF tab.rec[c].reply
              THEN RmSocket([tab EXCEPT !.rec[c].reply = FALSE], f, {"write"}) ELSE tab
    /\ UNCHANGED <<nclients, disabled, age, pc, listening, late>>

\* The map holds a released record: its handler does anything.
Garbage(f) ==
    /\ pc = "loop" /\ tab.watch[f] # {} /\ tab.hm[f] = Gone
    /\ tab' \in {tab, Drop(tab, {f})}
    /\ late' = TRUE
    /\ UNCHANGED <<nclients, disabled, age, pc, listening>>

Handler(f, c) ==
    \/ Hello(f, c) \/ HangUp(f, c) \/ AuthFails(f, c)
    \/ Bind(f, c) \/ Reset(f, c)
    \/ \E g \in Fds : CloseReply(f, c, g)
    \/ Datagram(f, c) \/ Registered(f, c) \/ ClientWrite(f, c)

\* select() fails on a closed number: the sets are emptied, or, if the
\* listening socket is gone, the process exits.
SelectFails ==
    /\ pc = "loop"
    /\ \E f \in Fds : tab.watch[f] # {} /\ tab.open[f] = NoRec
    /\ IF listening
       THEN /\ tab' = [tab EXCEPT !.watch = [f \in Fds |-> {}]]
            /\ pc' = pc
       ELSE /\ pc' = "exit"
            /\ tab' = tab
    /\ UNCHANGED <<nclients, disabled, age, listening, late>>
-----------------------------------------------------------------------------
(* timer_event() *)

\* It is time to register.
TimerRegisters ==
    /\ pc = "loop" /\ ~disabled /\ age = "stale"
    /\ disabled' = TRUE
    /\ age' = "fresh"
    /\ tab' = Register(tab)
    /\ UNCHANGED <<nclients, pc, listening, late>>

\* server->sock: any number if server dangles.
ServerSock == IF tab.server = Gone THEN Fds ELSE {tab.rec[tab.server].sock}

\* The number f is, or is open for, something else than the attempt that
\* timed out.
Stray(f) == tab.server = Gone \/ tab.open[f] \notin {tab.server, NoRec}

\* Mutant of TimerExpires: timer_disabled stays set.
TimerExpiresOnce ==
    /\ pc = "loop" /\ disabled /\ age # "fresh"
    /\ disabled' = disabled
    /\ IF tab.server = NoRec
       THEN pc' = "exit" /\ UNCHANGED <<tab, late>>
       ELSE \E f \in ServerSock : /\ tab' = Close(tab, f)
                                  /\ late' = (late \/ Stray(f))
                                  /\ pc' = "rm"
    /\ UNCHANGED <<nclients, age, listening>>

\* The attempt timed out: closesocket(server->sock).  If no socket was to be
\* had at the first attempt of all, server is NULL and the process dies.
TimerExpires ==
    /\ pc = "loop" /\ disabled /\ age # "fresh"
    /\ disabled' = FALSE
    /\ IF tab.server = NoRec
       THEN pc' = "exit" /\ UNCHANGED <<tab, late>>
       ELSE \E f \in ServerSock : /\ tab' = Close(tab, f)
                                  /\ late' = (late \/ Stray(f))
                                  /\ pc' = "rm"
    /\ UNCHANGED <<nclients, age, listening>>

\* ... then rm_socket(server->sock, ..., MASTER_ALL), where server may be the
\* record of an attempt that binding() made meanwhile: its number is open.
TimerRm ==
    /\ pc = "rm"
    /\ pc' = "loop"
    /\ \E f \in ServerSock : /\ tab' = Drop(tab, {f})
                             /\ late' = (late \/ Stray(f) \/ tab.open[f] # NoRec)
    /\ UNCHANGED <<nclients, disabled, age, listening>>

Tick ==
    /\ age # "stale"
    /\ age' = IF age = "fresh" THEN "late" ELSE "stale"
    /\ UNCHANGED <<tab, nclients, disabled, pc, listening, late>>
-----------------------------------------------------------------------------
(* The threads *)

Thread(r, place) == tab.thread[r].at = place /\ pc # "exit"
Ends(T, r)       == [T EXCEPT !.thread[r] = NoThread]

\* server_registration(): connect() ends.  The socket may be closed by then.
ConnectEnds(r) ==
    /\ Thread(r, "connect")
    /\ \/ tab' = Ends(tab, r) /\ UNCHANGED late
       \/ LET f == tab.rec[r].sock
          IN  /\ tab' = Ends(AddSocket(tab, f, r, "read"), r)
              /\ late' = (late \/ tab.open[f] # r)
    /\ UNCHANGED <<nclients, disabled, age, pc, listening>>

\* binding(): bind() succeeds for a port, control->proxy_ip is set and the UDP
\* socket registered; or there is no port, and socket and record are released.
BindPort(u) ==
    /\ Thread(u, "bind")
    /\ LET f == tab.rec[u].sock
       IN  \/ /\ tab' = [AddSocket(tab, f, u, "read") EXCEPT
                           !.rec[u].step = "request", !.thread[u].at = "register"]
              /\ late' = (late \/ tab.thread[u].control = Gone \/ tab.open[f] # u)
           \/ /\ tab' = [Release(Close(tab, f), {u}) EXCEPT !.thread[u].at = "reply"]
              /\ late' = (late \/ tab.open[f] # u)
    /\ UNCHANGED <<nclients, disabled, age, pc, listening>>

\* ... register_on_server(), for the server to learn of the new client.
BindRegisters(u) ==
    /\ Thread(u, "register")
    /\ tab' = [Register(tab) EXCEPT !.thread[u].at = "reply"]
    /\ UNCHANGED <<nclients, disabled, age, pc, listening, late>>

\* ... the answer is put into the record of the client ...
BindReplies(u) ==
    /\ Thread(u, "reply")
    /\ LET c == tab.thread[u].control
           T == [tab EXCEPT !.thread[u].at = "write"]
       IN  /\ tab' = IF c = Gone THEN T ELSE [T EXCEPT !.rec[c].reply = TRUE]
           /\ late' = (late \/ c = Gone)
    /\ UNCHANGED <<nclients, disabled, age, pc, listening>>

\* Mutant of BindWrites: the loop is not told.
BindWritesNot(u) ==
    /\ Thread(u, "write")
    /\ LET c == tab.thread[u].control
       IN  tab' = Ends(tab, u) /\ late' = (late \/ c = Gone)
    /\ UNCHANGED <<nclients, disabled, age, pc, listening>>

\* ... and the client registered for writing, even if it was released.
BindWrites(u) ==
    /\ Thread(u, "write")
    /\ LET c == tab.thread[u].control
           F == IF c = Gone THEN Fds ELSE {tab.rec[c].sock}
       IN  /\ \E f \in F : tab' = Ends(AddSocket(tab, f, c, "write"), u)
           /\ late' = (late \/ c = Gone)
    /\ UNCHANGED <<nclients, disabled, age, pc, listening>>

ThreadStep(r) ==
    \/ ConnectEnds(r) \/ BindPort(r) \/ BindRegisters(r) \/ BindReplies(r)
    \/ BindWrites(r)

Exited == pc = "exit" /\ UNCHANGED vars

TimerStep == TimerRegisters \/ TimerExpires \/ TimerRm

Next ==
    \/ Accept
    \/ \E f \in Fds : Garbage(f) \/ \E c \in Recs \cap {tab.hm[f]} : Handler(f, c)
    \/ SelectFails \/ TimerStep \/ Tick
    \/ \E r \in Recs : ThreadStep(r)
    \/ Exited

Spec == Init /\ [][Next]_vars

\* select() returns at least every SELECT_TIMEOUT_SEC, and timer_event() is
\* called; time passes; connect(), bind() and the threads end; a client that is
\* waited for takes its answer.
Fair ==
    /\ WF_vars(TimerStep) /\ WF_vars(Tick)
    /\ \A r \in Recs : WF_vars(ThreadStep(r))
    /\ \A f \in Fds : SF_vars(\E c \in Recs : ClientWrite(f, c))
FairSpec == Spec /\ Fair
-----------------------------------------------------------------------------
(* Properties *)

\* A UDP socket that datagrams can arrive on keeps the record of its client,
\* whichever of the two ends and wherever binding() stands, but for one event:
\* the end of another UDP socket of that client, which takes the client along.
ControlKept ==
    [][~late' => \A f \in Orphans(tab)' \ Orphans(tab) :
         \E g \in Fds : /\ g # f /\ {tab.hm[f], tab.hm[g]} \subseteq Recs /\ tab'.hm[g] = NoRec
                        /\ tab.rec[tab.hm[f]].control = tab.rec[tab.hm[g]].control]_vars

\* "from our client" and "to our client" (client_handler.c:396, 403): a UDP
\* socket whose datagrams the proxy forwards has a client.
OurClient == ~late => Orphans(tab) = {}

\* select() is never handed a closed number, upon which the loop would forget
\* every client, unless a thread or the timer used what was released.
WatchedOpen ==
    ~late /\ pc = "loop" => \A f \in Fds : tab.watch[f] # {} => tab.open[f] # NoRec

\* The clients that were greeted.
Greeted == {r \in Recs : tab.rec[r].kind = "client" /\ tab.rec[r].step = "request"}

\* "Register-proxy: <IP>; <Port>; <NumClients>" (protocol.c:5): the number the
\* proxy registers is never above that of its clients, so that it is not passed
\* over for clients it does not have.
CountBounded == ~late => nclients <= Cardinality(Greeted)

\* No attempt to register blocks the next one for ever: lost connections, lost
\* answers and threads that register on their own notwithstanding.
AttemptEnds == disabled ~> ~disabled \/ pc = "exit"

\* A client that asked for a UDP socket gets an answer, whatever else happens,
\* unless it is gone or a thread used what was released.
BindAnswered == \A c \in Recs : Waiting(c) ~> ~Waiting(c) \/ late \/ pc = "exit"
=============================================================================
