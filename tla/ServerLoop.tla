------------------------------ MODULE ServerLoop ------------------------------
(***************************************************************************)
(* server_loop(): the select() loop that both the managing server and the  *)
(* proxy run, over the shared MASTER_FD and the HASHMAP that finds the     *)
(* record of a descriptor.  The handler is a parameter of the C function,  *)
(* so here a call to it has any of the effects a handler of the repository *)
(* has.  Helper threads (test_connection, binding) run beside the loop:    *)
(* each was given the record of a connection and ends with an add_socket() *)
(* on the descriptor it reads from that record, which may be released by   *)
(* then.  The calls that take lock_master() are single steps.              *)
(***************************************************************************)
EXTENDS MasterSet

CONSTANTS Fds,        \* descriptor numbers the process can give to connections
          Listener,   \* the descriptor number of the listening socket
          MaxConn,    \* bound: how many connections are ever accepted
          NoItem,     \* NULL
          ListenSock  \* the open file behind Listener

Fd   == Fds \cup {Listener}
Conn == 1..MaxConn    \* connections, and their records, in order of accept()

\* The listening socket is opened before any connection, and POSIX gives the
\* lowest free number, so it is below all the others; 0 is standard input.
ASSUME FdAssumption ==
    /\ IsFiniteSet(Fds)
    /\ Fds \subseteq Nat \ {0}
    /\ Listener \in Nat \ {0}
    /\ \A f \in Fds : Listener < f
ASSUME ConnAssumption ==
    /\ MaxConn \in Nat
    /\ NoItem \notin Conn \cup {ListenSock}
    /\ ListenSock \notin Conn

VARIABLES
  \* shared memory
  master,   \* *master, as a record of MasterSet
  hm,       \* sock_data: hm[fd] is the record found for fd, or NoItem
  helpers,  \* the records that a helper thread still holds a pointer to
  torn,     \* a helper's add_socket() ran inside the unlocked init_master()
  \* the kernel
  sock,     \* sock[fd]: what is open under the number fd, NoItem if nothing
  input,    \* descriptors with unread input; Listener: a connection waits
  nconn,    \* connections accepted so far
  \* locals of server_loop()
  pc, i, what, ready, item, res

shared == <<master, hm, helpers, torn>>
kernel == <<sock, input, nconn>>
locals == <<pc, i, what, ready, item, res>>
vars   == <<shared, kernel, locals>>

Results == {{}, {"write"}, MasterAll}   \* what the handlers return
NoSets  == [k \in Kinds |-> {}]
Free    == {f \in Fds : sock[f] = NoItem}
Live    == {hm[f] : f \in Fd} \ {NoItem}

\* The values a thread can read from the sock field of record c: the number
\* of its connection, or, once the record is released, any number.
SockField(c) == IF c \in Live THEN {f \in Fd : sock[f] = c} ELSE Fd

TypeOK ==
    /\ master \in Masters(Fd)
    /\ hm \in [Fd -> Conn \cup {NoItem}]
    /\ helpers \in SUBSET Conn
    /\ torn \in BOOLEAN
    /\ sock \in [Fd -> Conn \cup {NoItem, ListenSock}]
    /\ input \in SUBSET Fd
    /\ nconn \in 0..MaxConn
    /\ pc \in {"copy", "wait", "zeroed", "listen", "scan", "call", "rm", "exit"}
    /\ i \in Nat /\ (pc \in {"call", "rm"} => i \in Fd)
    /\ what \in Kinds
    /\ ready \in [Kinds -> SUBSET Fd]
    /\ item \in Conn \cup {NoItem} /\ (pc = "call" => item # NoItem)
    /\ res \in Results

\* Lines 43-83: the listening socket is open and registered for reading.
Init ==
    /\ master = AddSocket(InitMaster, Listener, {"read"})
    /\ hm = [f \in Fd |-> NoItem]
    /\ helpers = {}
    /\ torn = FALSE
    /\ sock = [f \in Fd |-> IF f = Listener THEN ListenSock ELSE NoItem]
    /\ input = {}
    /\ nconn = 0
    /\ pc = "copy"
    /\ i = 0
    /\ what = "exc"
    /\ ready = NoSets
    /\ item = NoItem
    /\ res = {}
-----------------------------------------------------------------------------
(* select() and its failure *)

\* set_sockets copies the three sets under the lock; select(fdmax + 1, ...)
\* looks at the numbers up to fdmax only.
SetSockets ==
    /\ pc = "copy"
    /\ pc' = "wait"
    /\ ready' = [k \in Kinds |-> {f \in master.set[k] : f <= master.fdmax}]
    /\ UNCHANGED <<shared, kernel, i, what, item, res>>

BadFd == \E k \in Kinds : \E f \in ready[k] : sock[f] = NoItem

\* select() returns: a positive result starts the sweep, a timeout goes round
\* again.  Input is level triggered; a peer may or may not take more output.
SelectReturns ==
    /\ pc = "wait"
    /\ ~BadFd
    /\ \E w \in SUBSET (ready.write \ {Listener}) :
         LET r == ready.read \cap input
         IN  /\ ready' = [read |-> r, write |-> w, exc |-> {}]
             /\ pc' = IF r \cup w = {} THEN "copy" ELSE "scan"
             /\ i' = IF r \cup w = {} THEN 0 ELSE master.fdmin
    /\ UNCHANGED <<shared, kernel, what, item, res>>

\* select() fails on a closed descriptor.  listen() is called again: the
\* process exits if the listening socket is gone, else init_master() begins,
\* which takes no lock: first the sets are emptied.
SelectFails ==
    /\ pc = "wait"
    /\ BadFd
    /\ ready' = NoSets
    /\ IF sock[Listener] = ListenSock
       THEN /\ pc' = "zeroed"
            /\ master' = [master EXCEPT !.set = NoSets]
       ELSE /\ pc' = "exit"
            /\ UNCHANGED master
    /\ UNCHANGED <<hm, helpers, torn, kernel, i, what, item, res>>

\* ... then init_master() zeroes the bounds.
ZeroBounds ==
    /\ pc = "zeroed"
    /\ pc' = "listen"
    /\ master' = [master EXCEPT !.fdmin = 0, !.fdmax = 0]
    /\ UNCHANGED <<hm, helpers, torn, kernel, i, what, ready, item, res>>

\* ... and the listening socket alone is registered again.
AddListener ==
    /\ pc = "listen"
    /\ pc' = "copy"
    /\ master' = AddSocket(master, Listener, {"read"})
    /\ UNCHANGED <<hm, helpers, torn, kernel, i, what, ready, item, res>>
-----------------------------------------------------------------------------
(* The sweep over fdmin..fdmax: exception, read and write for each number. *)

\* Mutant of NextTest: the read test is left out.
NextTestNoRead ==
    /\ pc' = "scan"
    /\ what' = IF what = "exc" THEN "write" ELSE "exc"
    /\ i' = IF what = "write" THEN i + 1 ELSE i

\* The three FD_ISSET tests of one number, then the next number.
NextTest ==
    /\ pc' = "scan"
    /\ what' = CASE what = "exc" -> "read" [] what = "read" -> "write"
                 [] what = "write" -> "exc"
    /\ i' = IF what = "write" THEN i + 1 ELSE i

\* Mutant of SweepDone: "<" for "<=" in the loop over the numbers.
SweepDoneEarly ==
    /\ pc = "scan"
    /\ what = "exc" /\ i >= master.fdmax
    /\ pc' = "copy"
    /\ i' = 0
    /\ ready' = NoSets
    /\ item' = NoItem
    /\ UNCHANGED <<shared, kernel, what, res>>

\* fdmax is read anew before every number; data_item dies with the round.
SweepDone ==
    /\ pc = "scan"
    /\ what = "exc" /\ i > master.fdmax
    /\ pc' = "copy"
    /\ i' = 0
    /\ ready' = NoSets
    /\ item' = NoItem
    /\ UNCHANGED <<shared, kernel, what, res>>

Sweeping == pc = "scan" /\ (what = "exc" => i <= master.fdmax)

\* The bit is clear; the listening socket is only read from.
Skip ==
    /\ Sweeping
    /\ i \notin ready[what] \/ (i = Listener /\ what # "read")
    /\ NextTest
    /\ UNCHANGED <<shared, kernel, ready, item, res>>

\* Mutant of NoRecord: the handler is called with NULL.
NoRecordUnchecked ==
    /\ Sweeping
    /\ i \in ready[what] \ {Listener}
    /\ hm[i] = NoItem
    /\ item' = NoItem
    /\ pc' = "call"
    /\ UNCHANGED <<shared, kernel, i, what, ready, res>>

\* No record is found for the number: data_item is NULL.
NoRecord ==
    /\ Sweeping
    /\ i \in ready[what] \ {Listener}
    /\ hm[i] = NoItem
    /\ item' = NoItem
    /\ NextTest
    /\ UNCHANGED <<shared, kernel, ready, res>>

\* Mutant of Dispatch: the record is looked up once per sweep.
DispatchKeepsItem ==
    /\ Sweeping
    /\ i \in ready[what] \ {Listener}
    /\ hm[i] # NoItem
    /\ pc' = "call"
    /\ item' = IF item = NoItem THEN hm[i] ELSE item
    /\ UNCHANGED <<shared, kernel, i, what, ready, res>>

\* The record is looked up and the handler is called with it.
Dispatch ==
    /\ Sweeping
    /\ i \in ready[what] \ {Listener}
    /\ hm[i] # NoItem
    /\ pc' = "call"
    /\ item' = hm[i]
    /\ UNCHANGED <<shared, kernel, i, what, ready, res>>

\* The loop finds the listening socket readable.
AtListener == Sweeping /\ i = Listener /\ what = "read" /\ i \in ready.read

\* accept() gets the lowest free number; get_data_item() makes the record,
\* add_socket() puts it in the map (if nothing is there) and registers it; the
\* handler is then called to say hello.
Accept ==
    /\ AtListener
    /\ Free # {} /\ nconn < MaxConn
    /\ LET f == Min(Free)
           c == nconn + 1
       IN  /\ nconn' = c
           /\ sock' = [sock EXCEPT ![f] = c]
           /\ hm' = IF hm[f] = NoItem THEN [hm EXCEPT ![f] = c] ELSE hm
           /\ master' = AddSocket(master, f, {"read"})
           /\ item' = c
    /\ input' = input \ {Listener}
    /\ pc' = "call"
    /\ UNCHANGED <<helpers, torn, i, what, ready, res>>

\* No number is free: accept() fails and the connection stays in the backlog.
\* data_item is left as it was, and the handler is called with it if it is set.
AcceptFails ==
    /\ AtListener
    /\ Free = {}
    /\ IF item = NoItem THEN NextTest ELSE pc' = "call" /\ UNCHANGED <<i, what>>
    /\ UNCHANGED <<shared, kernel, ready, item, res>>

\* What walk_master() does to the map and to the open files.
Drop(s, dropped) == [f \in Fd |-> IF f \in dropped THEN NoItem ELSE s[f]]

\* A call of the handler that returns r.  add: it registers its descriptor own
\* for writing; spawn: it starts a helper thread on the record; reads: it takes
\* the input; dropped: what it had walk_master() close.
HandlerEffect(r, add, spawn, reads, dropped, own) ==
    LET walked == WalkMaster(master, dropped)
    IN  /\ master' = IF add THEN AddSocket(walked, own, {"write"}) ELSE walked
        /\ hm' = Drop(hm, dropped)
        /\ sock' = Drop(sock, dropped)
        /\ input' = input \ (dropped \cup IF reads THEN {own} ELSE {})
        /\ helpers' = IF spawn THEN helpers \cup {item} ELSE helpers
        /\ res' = r
        /\ IF r = {} THEN NextTest ELSE pc' = "rm" /\ UNCHANGED <<i, what>>
        /\ UNCHANGED <<torn, nconn, ready, item>>

\* client_handler(): a positive result goes to rm_socket().
Handler ==
    /\ pc = "call"
    /\ \E r \in Results, add, spawn, reads \in BOOLEAN,
          dropped \in SUBSET {f \in InBounds(master) \cap Fds : hm[f] \notin {NoItem, item}},
          own \in SockField(item) :
         /\ reads => what = "read" /\ i # Listener
         /\ spawn => r = {} /\ item \notin helpers
         /\ HandlerEffect(r, add, spawn, reads, dropped, own)

\* rm_socket(i, ...): i is the number the loop stands at, which after an
\* accept() is the listening socket and not the new connection.
RmTarget == i

RmHandled ==
    /\ pc = "rm"
    /\ LET closed == IF RmCloses(master, RmTarget, res) THEN {RmTarget} ELSE {}
       IN  /\ master' = RmSocket(master, RmTarget, res)
           /\ hm' = Drop(hm, closed)
           /\ sock' = Drop(sock, closed)
           /\ input' = input \ closed
    /\ res' = {}
    /\ NextTest
    /\ UNCHANGED <<helpers, torn, nconn, ready, item>>
-----------------------------------------------------------------------------
(* The other actors *)

\* A helper thread ends: add_socket(cd->sock, NULL, NULL, master, MASTER_WRITE).
HelperAdds(c) ==
    /\ c \in helpers
    /\ pc # "exit"
    /\ helpers' = helpers \ {c}
    /\ \E f \in SockField(c) : master' = AddSocket(master, f, {"write"})
    /\ torn' = (torn \/ pc = "zeroed")
    /\ UNCHANGED <<hm, kernel, locals>>

\* Data or end of file on a connection; a connection for the listening socket.
Arrive(f) ==
    /\ f \notin input
    /\ sock[f] # NoItem
    /\ f = Listener => nconn < MaxConn
    /\ input' = input \cup {f}
    /\ UNCHANGED <<shared, sock, nconn, locals>>

Exited == pc = "exit" /\ UNCHANGED vars

Loop ==
    \/ SetSockets \/ SelectReturns \/ SelectFails \/ ZeroBounds \/ AddListener
    \/ SweepDone \/ Skip \/ NoRecord \/ Dispatch \/ Accept \/ AcceptFails
    \/ Handler \/ RmHandled

Next ==
    \/ Loop
    \/ \E c \in Conn : HelperAdds(c)
    \/ \E f \in Fd : Arrive(f)
    \/ Exited

Spec == Init /\ [][Next]_vars
\* The loop's thread keeps running; nothing is assumed of threads and peers.
FairSpec == Spec /\ WF_vars(Loop)
-----------------------------------------------------------------------------
(* Properties *)

\* Whenever no call holds the lock and init_master() is not half done, fdmin
\* and fdmax are exactly the least and the greatest registered descriptor, so
\* no loop over fdmin..fdmax misses one - unless a helper's add_socket() ever
\* ran inside the unlocked init_master() (server_loop.c:115).
BoundsExact == ~torn /\ pc # "zeroed" => Exact(master)

\* The record sock_data holds for a number is the record of the connection
\* open under that number: through closing, reuse of numbers by accept(), late
\* helpers and resets, no handler is called with a released record or with the
\* record of another connection.
HashmapLive ==
    /\ \A f \in Fd : hm[f] # NoItem => sock[f] = hm[f]
    /\ pc = "call" => item \in Live

\* A sweep is complete: when it ends, the numbers that select() reported and
\* that are still registered all lie behind it, although fdmin and fdmax move
\* while the sweep runs.
SweepComplete ==
    [][SweepDone /\ ~torn => \A k \in Kinds : \A f \in ready[k] \cap Watched(master) : f < i]_vars

\* Once readable, a registered descriptor with a record (or the listening
\* socket while a number is free) is dispatched, unless it is dropped from the
\* set meanwhile or the process exits.
Readable(f) == f \in input /\ f \in master.set["read"] /\ (f # Listener => hm[f] # NoItem)
Dispatched(f) == pc = "call" /\ what = "read" /\ i = f
Served == \A f \in Fd :
    Readable(f) ~> \/ Dispatched(f)
                   \/ f \notin master.set["read"]
                   \/ torn \/ pc = "exit"
                   \/ f = Listener /\ Free = {}

\* "close connection" (server_loop.c:154): a positive result of the handler
\* closes the connection the handler was called for, so no result of a handler
\* ever closes the listening socket.
ListenerKept == [][RmHandled => sock'[Listener] = sock[Listener]]_vars
=============================================================================
