# FWT in TLA+

FWT lets a program behind a firewall receive UDP packets: a *client library*
asks a *managing server* whether it can be reached directly, and, if not, for
the address of a *proxy*; the proxy binds a UDP port for the client and passes
packets through.  This directory holds TLA+ models of the programs, the TLC
runs that check them and the theorems that TLAPS proves about them.  Paths
below are relative to `trunk/`.

## 1. The system

| Part | Code | State | Operations |
|---|---|---|---|
| select loop | `server_loop.c` (the same text in `server/`, `proxy/`, `lib_proxy_socket/`) | `MASTER_FD`: three fd_sets, `fdmin`, `fdmax`, a lock; locals `i`, `data_item`, copies of the sets | `server_loop`, `add_socket`, `rm_socket`, `walk_master`, `calc_min_max`, `set_sockets`, `init_master` |
| lock | `lock_master`, `unlock_master` | a critical section (Windows) or a semaphore (POSIX) | enter, leave |
| HASHMAP | `hashmap.c` | descriptor number -> record | `put`, `get`, `remove`, walks |
| managing server | `server/client_handler.c` | one `CLIENT_DATA` per connection: step, type, `is_tested`, `need_proxy`, `proxy_ip`, `bad_proxies` | `client_handler` and the functions it calls; a `test_connection` thread per test |
| list of proxies | `register_proxy`, `find_proxy`, `arraylist.c` | `proxy_data`: address, number of clients, time of registration | register, find |
| proxy | `proxy/client_handler.c`, `over_tcp.c` | `CLIENT_DATA` of kinds client, server, UDP; `nclients`, `timer_disabled`, `last_registration`, `server` | `client_handler`, `timer_event`, threads `server_registration`, `binding`, `console_session` |
| authentication | `proxy/auth.c`, `lib_proxy_socket/authenticating.c` | `authorized`, `key` per connection | `auth_1`, `auth_2`, `authenticating` |
| client library | `lib_proxy_socket/proxy_socket.c` | `proxy` (the connection), `proxy_address`, `behind_firewall`, `proxy_over_tcp`, `pool` (the sockets), pinger threads | `proxy_socket`, `proxy_bind`, `proxy_close`, `proxy_select`, `proxy_sendto`, `proxy_recvfrom`, `ask_for_proxy`, `connect_to_proxy` |
| containers | `vect.c`, `arraylist.c` | sorted vector with a lock; growing list | search, replace, add, walk; add, set, get |
| the rest | `protocol.c`, `common.c`, `error_handler.c`, `input_params.c`, `usage.c`, `test_client/` | none worth a model | texts, logging, options, a demonstration |

**Interaction.**  The server and the proxy are each one process: one thread
runs `server_loop()`, which calls the program's handler for each descriptor that
`select()` reports.  A handler may change its record, send, register its
descriptor for writing, close others with `walk_master()`, or start a thread
with a pointer to the record.  Such a thread blocks in `connect()` or `bind()`
and ends with `add_socket()` on the number it reads from the record.  Loop and
threads share `MASTER_FD` (under its lock) and the records (under none).  The
programs talk through TCP lines: a proxy sends *Register-proxy* to the server;
a client sends *Is-behind-firewall* and *Get-proxy* to the server and
*Proxy-bind*, *Proxy-close*, *Over-TCP* and the *Proxy-auth* commands to the
proxy.  Once a socket is bound its datagrams travel between client and proxy as
UDP with the peer's address in front, or, if the firewall lets no UDP through,
as pieces of the TCP connection; heartbeats (*Proxy-bound-OK*) keep the
firewall open and tell the proxy where the client is.

**What is hard here.**  Threads end in any phase of a sweep, before or after
the record they hold is released; `accept()` gives a number out again in the
same sweep in which it was closed; the bounds move while the sweep runs; an
error of `select()` resets everything without taking the lock; the POSIX lock
is not atomic; nothing but a later event closes a connection in its last step.
In the client library every call blocks in `recv()` or `send()`: a message that
is not the one expected, two that arrive together and of which the second is
never looked at, or an end of the stream that is not an error decide whether it
returns.  Descriptors are forgotten, closed twice or used after they were closed.
UDP loses and reorders, and the firewall changes ports, while TCP fills up.
`PROJECT.json` lists each of these hazards at its line with the properties
that would catch it, and says where a property excepts the hazard itself, so that
the models show it and only the rest is forbidden.

**What makes each part correct.**

* loop: no registered descriptor lies outside the bounds (`BoundsExact`,
  `SweepComplete`), every handler call gets the record of the connection now
  open under the number (`HashmapLive`), readable connections are served
  (`Served`), the listening socket stays (`ListenerKept`, which does not hold);
* lock: calls take effect one at a time (`RefinesAtomic`, `QuietExact`, which do
  not hold for POSIX) and the lock never jams (`LockCounts`, `SemaphoreCounts`);
* server: only open numbers are handed to `select()` (`WatchedOpen`); a request
  is answered, once (`Answered`, `NoExtraAnswer`); told all there is, a client
  is hung up on (`LastCloses`);
* list of proxies: one entry per address (`UniqueAddresses`), the choice is the
  least loaded fresh proxy not reported bad, but for the first entry
  (`ChoosesWell`), and a client that reports a proxy gets another
  (`AnotherProxy`, which does not hold);
* proxy: only the end of another UDP socket of its client takes a UDP socket's
  client away (`ControlKept`; that nothing does, `OurClient`, does not hold),
  only open numbers are handed to `select()` (`WatchedOpen`), the number registered is not
  above that of the clients (`CountBounded`, which does not hold with
  authentication), no attempt to register blocks the next (`AttemptEnds`), and
  a bind is answered (`BindAnswered`);
* containers: the chains of the hashmap implement a map (`RefinesMap`), also for
  readers without the lock (`GetsCurrent`, `WalksAll`); bisection finds what was
  stored in the pool (`PoolFinds`); the ARRAYLIST is the list up to its initial
  capacity and no further (`ListIsTable`);
* client library, session: behind the loop of `proxy_bind()` there is a link to
  the proxy the program was told, and authorized, with one exception (`Linked`),
  which makes "Success" of `ask_for_proxy()` wrong (`AskSucceeds`, which does not
  hold); pool and proxy
  agree on what is bound (`BoundThere`); no descriptor is left behind but where
  the code does so (`NoLeak`); getting a proxy ends (`AskEnds`), binding ends
  (`BindEnds`), each with the exceptions the code has;
* client library, datagrams: who is given a datagram is the one it was sent to
  (`Delivered`); the proxy learns each socket's address (`AddressTold`); both
  sides agree on UDP or TCP (`ModeTold`); one client does not hold up the proxy
  (`SendEnds`).

## 2. Modules

```
MasterSet            operators on MASTER_FD           ValueProofs
  ServerLoop         the loop, any handler            ServerLoopProofs
    ManagingServer   the loop with the server's       ManagingServerProofs
                     handler and threads
  AtomicMaster       calls one after the other
  MasterLock         their memory accesses, the lock
    MCLocks          one kind of lock in each         MasterLockProofs
                     behaviour
AbstractMap          what a map promises
  Hashmap            chains, lock-free readers        TablesProofs
Vector, ArrayList    as values                        TablesProofs
ProxyTable           register_proxy, find_proxy       ValueProofs
  ProxyList          the list as a variable
    ManagingServer   see above
    MCProxyTable     every table they can build
      MCTables       all containers, one in each      TablesProofs
                     behaviour
  MCShared           MCLocks or MCTables
Proxy                the proxy's records, threads     ProxyProofs
                     and timer
  MCProxy            up to the first stale use
Client               session of the library with      ClientProofs
                     server and proxies
Relay                datagrams by UDP and over TCP    RelayProofs
  MCClient           a session or its datagrams, for
                     a few lists of proxies
```

**MasterSet.**  A `MASTER_FD` is a record of three sets and two bounds.
`AddSocket`, `RmSocket`, `CalcMinMax` and `WalkMaster` are what the C functions
do to it; `RmCloses` says when `rm_socket()` closes the descriptor.  `0` is the
code's mark for "no bound".

**ServerLoop.**  `pc` is the place in `server_loop()`: `copy` before
`set_sockets()`, `wait` in `select()`, `zeroed` and `listen` inside the reset
after an error, `scan` at one of the three FD_ISSET tests of number `i`
(`what` says which), `call` at the call of the handler, `rm` at the
`rm_socket()` after it.  `item` is `data_item`, which keeps its value from one
number of the sweep to the next.  The kernel is `sock` (what is open under a
number; `accept()` takes the lowest free one), `input` (level-triggered) and
`nconn`.  A connection and its record have the same number in `Conn`, in order
of `accept()`; a record is *live* while the map holds it.  Actions are named
for the statement: `SetSockets`, `SelectReturns`, `SelectFails`, `ZeroBounds`,
`AddListener`, `SweepDone`, `Skip`, `NoRecord`, `Dispatch`, `Accept`,
`AcceptFails`, `Handler`, `RmHandled`, and `HelperAdds`, `Arrive` for threads
and peers.  The handler is a function parameter in C; here it may return any
result that a handler of the repository returns, register itself for writing,
start a thread, read, and have others dropped.  A call made under the lock is
one step (MasterLock justifies this for the critical section).  A thread whose
record is released reads any number from it (`SockField`): freed memory.

**ManagingServer** extends ServerLoop.  `Quiet` are its steps outside the
handler; the handler is one action per branch of `server/client_handler.c`:
`Hello` (client_connected), `HangUp`, `Ignore`, `BehindFirewall`,
`RegisterProxy`, `GetProxy`, `ClientWrite`, `LastStep`.  `Reply` is
`reply_behind_firewall()`.  `test_connection()` is two steps, `ProbeEnds` (the
result is written to the record, or to whatever replaced it) and `ProbeAdds`;
`Expire` lets an entry grow stale.  `owed` and `late` are history variables:
tests asked for less answers sent, and whether a thread ever used a record
after its release.

**MasterLock.**  The accesses of `add_socket()` and `rm_socket()` one by one:
the word of the fd_set is loaded and stored, then the bounds are tested and
written.  `LockKind` chooses `EnterCriticalSection` or the two `semop()` calls
of POSIX (wait for zero; then add one).  **AtomicMaster** is the abstract
specification; `RefinesAtomic` maps it to the master each call leaves behind.
**MCLocks** runs one kind of lock or the other: three threads with the critical
section, or two with the semaphore.

**ProxyTable.**  `Register` and `FindProxy`: two passes (`Pass`), the first over
fresh entries; `Consider` is one turn of the inner loop, on the address and
load found so far, with `-1` for no load as in the code.  As reference
definitions, `Unique` and `GoodChoice`.  **ProxyList** has the list as the
variable `table`, with the properties of it, for ManagingServer and
MCProxyTable.

**Proxy.**  The loop is that of ServerLoop; to keep the state small one event
with all that `client_handler()` and the `rm_socket()` after it do is one step,
and a thread moves from one use of shared memory to the next.  `tab` holds the
records (`rec`; the three kinds of `CLIENT_DATA`), the threads, by the record
each was given (`thread`), `sock_data` (`hm`), the sets of `master` (`watch`),
what is open under each number (`open`) and the pointer `server`.  `nclients`,
`disabled` and `age` are `nclients`, `timer_disabled` and `now -
last_registration` in three classes.  `pc` is `rm` between the two calls of
`timer_event()` that read `server->sock`.  `Release` is `free()`: every pointer
to the record becomes `Gone`; a UDP record with such a `control` is an orphan
(`Orphans`), and what `master_walker()` makes of one is open (`Mistaken`, in
`HangUp`): the dangling pointer is equal to any record or none.  A step that
follows `Gone`, or uses a number
that was closed or given out again, sets the history variable `late`.  Actions:
`Accept`, `Hello` (client_connected), `HangUp` (disconnect), `AuthFails`,
`Bind`, `CloseReply`, `Reset` (ECONNRESET), `Datagram`, `Registered`
(server_read), `ClientWrite`, `Garbage` (the map holds a released record),
`SelectFails`, `TimerRegisters`, `TimerExpires`, `TimerRm`, and for the threads
`ConnectEnds` (server_registration), `BindPort`, `BindRegisters`, `BindReplies`,
`BindWrites` (binding).  A client asks for nothing while it waits for the
answer to a bind, as `proxy_bind()` of the library does, but may hang up.

**Hashmap.**  `list[h]` is a chain, its head last, as `hashmap_put()` prepends.
Writers hold the lock of `MASTER_FD`, so a call of theirs is one step: its one
store that others can see.  A reader is four kinds of loads (`LoadHead`,
`GetTest`/`WalkEntry`, `GetValue`, `WalkNext`) with writers between them.
`Lookup` is what `hashmap_get()` returns alone, and the refinement mapping to
**AbstractMap**.  `hist` is history: the values the key had, and the keys that
were there, during the call.

**Vector**, **ArrayList**.  Values with a capacity and the operators of the C
functions on them; `Qsort` is any permutation that sorts, and `BSearch` is
bisection as the C library does it, so that a vector out of order is searched as
the program would.  An overwritten pointer
is `Junk`; `Replace` is the function that callers pass to `vector_bsearch()`.

**MCTables** drives them as the program does: `register_proxy()` on an
ARRAYLIST next to the sequence of ProxyTable, `proxy_socket()`, `proxy_bind()`
and `proxy_close()` on the pool.  **MCShared** runs MCLocks or MCTables in each
behaviour: what the threads of a process share.

**Client.**  A call of the library runs from one blocking `recv()` to the next;
`call.at` is the place (`loop` in `proxy_bind()`; `ask`, `asking`, `try` in
`ask_for_proxy()`; `pong`, `hello`, `auth1`, `auth2` in `connect_to_proxy()` and
`authenticating()`; `local`, `wait` behind the loop).  `cl.fd` says what each
descriptor is open for, `cl.pool` is the pool, `cl.proxy` the variable `proxy`,
which may hold the number of a descriptor that was closed and opened again for
something else (`Stale`).  What comes of that depends on what is open under the
number: `send()` and `connect()` fail (`StaleFails`), `connect()` succeeds
(`StaleConnects`), or `send()` does (`StaleSends`), whereupon anything that is
received, the end of the stream too, is taken for the answer of the proxy
(`StaleAnswer`).  `link` is the TCP connection to the proxy with
what is on its way in both directions, the proxy's `authorized` and its UDP
sockets; `srv` is the server's side of the connection of `ask_for_proxy()`,
which chooses with ProxyTable.  Any `recv()` takes any number of messages that
have arrived and looks at the first only, as the code does.  Server and proxy
may end, or the connection break, at any step (`ServerHangsUp`,
`ProxyHangsUp`).  History variables mark what the code does wrong and what the
properties therefore except: `stale` (a closed number was used as the link),
`stray` (a *Proxy-close* named another socket), `lost` (a message was thrown
away unread), `denied` (a refusal to bind was), `again` (the server assigned a
proxy that was reported); descriptors that a return forgets are `leak`.

**Relay.**  `net` is the set of UDP datagrams on their way (lost with `Lose`,
taken in any order); `up` and `down` are the TCP connection as pieces, header
and body apart, with room for `MaxTcp`: a `send()` blocks while there is none
(`at.do = "send"`, `px.out`).  `port` is where the firewall lets each socket
out, `px.port` what the proxy knows.  Actions: `BindEnd` (the end of
`proxy_bind()`: heartbeat, test of UDP, *Is-over-TCP*), `SendTo`, `Recv`,
`SelectOver`/`SelectBeat` (proxy_select), `RecvUdp`/`RecvOver`/`RecvBeat`
(proxy_recvfrom), `PingOut` (the pinger), and in the proxy `ProxySendOver`,
`ProxyIsOver`, `ProxyIgnores`, `ProxyBeat`, `ProxyResend`, `ProxyReceive`.

**MCClient** gives Client the lists of proxies that a server may have, bounds
Relay, and runs one of the two in each behaviour.  They share no state: Relay
begins where a `Bound` of Client ends.

## 3. Runs

| Run | Bounds | What it shows |
|---|---|---|
| `server_loop` | 2 numbers besides the listener, 3 connections | bounds, map, complete sweeps and service, for any handler |
| `listener_kept` | 2 connections | a handler result after `accept()` closes the listening socket |
| `lock_semaphore_lost` | 2 threads, 2 numbers | the POSIX lock loses an update |
| `shared` | lock: 2 numbers; 3 threads with the critical section, 2 with the semaphore; containers: 4 addresses, 0..2 clients, capacity 3; 2 chains, 3 keys, 2 values, 1 reader; 5 sockets | with the critical section the accesses are atomic calls; the semaphore, though not exclusive, counts the threads inside and never jams; tables against all sets of reported addresses; growth of the list; map; pool |
| `another_proxy` | 3 addresses | a reported proxy is assigned again |
| `server` | 2 numbers, 2 connections, 1 proxy address | the server's safety with reuse of numbers and late threads; it implements the loop, answers, hangs up |
| `proxy` | 3 numbers, 3 records, no authentication | a client with two UDP sockets, or with one and a registration: no dangling control but for one event, no closed number, no client counted that is not there |
| `proxy_live` | 2 numbers, 3 records, authentication | the end of each attempt, the answer to each bind |
| `proxy_orphan` | as `proxy`, 1 client | the end of one UDP socket leaves another without its client |
| `proxy_count` | as `proxy_live` | a failed authentication leaves the client counted |
| `client` | session: 4 descriptors, 1 socket of the program, 2 proxies, 2 messages per direction when a call begins; datagrams: 2 sockets, 1 peer, 1 datagram of a program on its way, 3 pieces of TCP, 2 ports | the client library with server and proxies: a link to bind over, pool and proxy agree, no leak, every call ends; its datagrams go where they were sent, and nobody waits for ever but the client |
| `client_ask` | as `client` | `ask_for_proxy()` takes the managing server for the proxy and reports success |

*Why the bounds are enough.*  What is at stake in the loop is the reuse of a
number and of a record, the change of the bounds at either end, and a thread
that outlives its connection: two numbers are needed for the bounds to move at
both ends, a third connection for a number to be given out again while the
other is still served and a thread of the first still runs.  `server` has two
connections, which may have the same number one after the other while a thread
of the first still runs: liveness of a third is too much for TLC, and its safety
properties are proved for any number (section 4).  The listening
socket has the lowest number, as POSIX gives it out.  A lost update needs two
threads; the third shows that waiting ones do no harm.  A choice among proxies
needs a first, a better and a reported one: three.  In `server` one address is
enough, since ProxyTable has its own run; the growth of staleness is bounded by
`MaxExpire`.  `Loads = {0}` and `AlwaysProxy = FALSE` there: the load does not
change the path of the handler, and `need_proxy` alone gives both answers.

In the proxy, three numbers and records are a client, a UDP socket and a
connection to the server, so that each closing can meet each thread, and a
released number goes to any of the others; or a client and two UDP sockets, of
which one may end before the other.  `MaxClients` bounds `nclients`.  What the
program does after a stale use is undefined and the properties are stated for
what comes before, so the constraint `UntilLate` ends a behaviour there; in the
run `proxy` it goes on, when no thread is under way (`UntilFailure`,
`ThenFails`), to the handler of a released record and to `select()` with a
closed number.  `late` stays set and satisfies
what `BindAnswered` waits for; `AttemptEnds` is checked on the behaviours without a stale use.

In `shared` a chain needs two keys (3 and 5 share one of two chains) and a
writer between any two loads of the reader; the capacity is 3 instead of 10,
and a fourth address makes the list grow.  In `client`, four descriptors are a
socket of the program, `test_sock`, the connection to the server and the link;
with one fewer each call that opens one also fails for want of a number.  One
socket at a time is closed and made again, so that numbers are reused.  Two
proxies are a loaded and an idle one, so that a refused one can be replaced;
without any, the client is told so.  In the relay, two sockets are needed for a
datagram to be given to the wrong one, two ports for the firewall to change
one, and three pieces of TCP for a datagram with its header not to fit behind
anything else.  The constraint `Small` keeps the part with two sockets bound
to one port each, one mode on both sides and one datagram in the connection;
loss of ports and modes is explored with one socket.  A datagram is lost only
while the proxy does not wait in `send()` (it waits at the proxy's socket
otherwise, and is lost before or after).

*Disagreements found* (`findings` in PROJECT.json): after `accept()` the
handler's result is applied to the listening socket (`server_loop.c:157`); the
POSIX lock is two `semop()` calls (`server_loop.c:189`); `find_proxy()` takes the first
entry without looking at the reported proxies (`client_handler.c:311`);
`auth_1()` of the proxy ends a connection without `disconnect()`, so that
`nclients` counts it for ever (`auth.c:62`); `disconnect()` of a UDP socket takes
the client along and leaves the client's other UDP sockets with a pointer to its
released record (`client_handler.c:150`); after a failed authentication
`connect_to_proxy()` keeps the number of the closed connection, so that
`ask_for_proxy()` takes its own connection to the managing server for the proxy
and reports success (`proxy_socket.c:188`).  The models also show, as steps that
set `late`, where released records and closed numbers are used: a `connect()`
that ends after the timer closed its socket, `binding()` for a client that hung
up, `timer_event()` with a `server` that was released, and `server` being NULL
when the very first `socket()` fails.

*Fairness.*  Weak fairness of the loop's thread: the scheduler runs it and
`select()` returns when something is ready.  In ManagingServer, also of each
`test_connection()` thread (`connect()` ends with success, refusal or timeout),
and strong fairness of a descriptor being reported writable while it is
registered for writing: its peer reads what it is sent.  In Proxy: the timer (`select()` returns every `SELECT_TIMEOUT_SEC`), the
clock, each thread (`connect()` and `bind()` end), and strong fairness of a
number being reported writable.  In Client: each call goes on while it can, and
server and proxy handle what arrives (their loops serve every readable
descriptor, `Served`).  In Relay: the pinger goes on (it is a thread that
sleeps), a heartbeat sent again and again arrives in the end and is handled
(strong fairness of `ProxyBeat`), the proxy reads what a client sends whenever
it is not in `send()` (strong, since others keep it in `send()` now and then),
and the program calls `proxy_select()` again and again when it is in no other
call, as the test client does.  Nothing is assumed of
arriving data, of new connections or of the handler's choices.
The liveness properties of the library name what the code itself does: a
session may spin when the server or proxy hung up, when something else than the
link is waited on under a stale number, or when an answer was thrown away or
was a refusal (`AskEnds`, `BindEnds`); a relay in which the client waits
for ever in `send()`, in `proxy_recvfrom()` or on a piece without its header
promises nothing (`ClientWaits`).
`Served` is stated with its exceptions: the number was dropped from the set,
the process exited, no number was free for `accept()`, or a thread ran inside
the unlocked reset.

*Mutants.*  Each property has a variant of one definition (an operator above
it, commented `Mutant of`) that models a plausible slip, such as `<` for `<=`
in the sweep, a bound one too high, a missing `add_socket()` or a write request
that is not withdrawn; with it in place TLC finds the property violated.

## 4. Proofs

Each theorem holds for every value of the constants, under the assumptions named
in the modules: of the loop and its callers, that descriptor numbers are positive
and finitely many, the listening socket has the lowest, and `NULL` is no record;
of MasterLock, that the threads are finitely many;
of the others, see below.

* **ValueProofs**: lemmas on values that several components work on.  Each
  operator of MasterSet maps masters to masters and exact bounds to exact bounds;
  `calc_min_max()` looks between the old bounds only, so the lemma on it needs
  that these cover the sets.  `register_proxy()` keeps one entry for an address
  (`RegisterKeeps`), and `find_proxy()` keeps its promise (`FindChoosesWell`,
  `FindsOrNone`), for lists of any length, any loads and any set of reported
  addresses.  `Pass` is a recursive function; that it has a value after each turn
  (`TurnsExist`) and what it has found then (`Found`) are shown by taking the
  least turn at which they would fail (`LeastExists`).
* **ServerLoopProofs**: `TypeCorrect`; `BoundsAreExact`, for which
  `BoundsExact` alone is not inductive: between the two halves of the reset the
  sets are empty and the bounds old, so `BoundsInv` adds what holds there;
  `MapHoldsLiveRecords`, which rests on `ItemInv`: `data_item` is only kept
  from one number of a sweep to higher ones, and the listener is the lowest, so
  a failing `accept()` never meets a stale `data_item`; and the action
  property `SweepsAreComplete`, since the sweep ends above `fdmax` and exact
  bounds leave nothing registered there.
* **ManagingServerProofs**: `ServerImplementsLoop` (every step of the server is
  a step of ServerLoop; it needs `ServerInv`, that a thread's record is typed
  and that `accept()` calls the handler in the first step only, so that it does
  not read input there), hence `ServerMapHoldsLiveRecords`; and `WatchedStayOpen`, from
  `OpenInv`, which adds that the copies given to `select()` hold open numbers.
  `NoAnswerUnasked` rests on `DebtInv`: a handler that may yet be called for
  writing (`Due`: its number is registered for writing, reported and not yet
  passed, or the call is under way) belongs to a connection that is owed an
  answer or past all answers, and while a test runs its connection is owed one
  and not due.  For this a connection must have one number (`OneNumber`), and
  what `accept()` opens must not be among the numbers still reported
  (`FirstOpen`).  On the list of proxies, `ServerUniqueAddresses` and
  `ServerChoosesWell`.  `ServerTypes` needs these: an assigned proxy is an
  address because it is one of the list.
* **MasterLockProofs**: for a critical section, `QuietIsExact` and
  `ImplementsAtomic`.  `IInv` says that at most one thread is inside, and how
  much of its call the memory shows, relative to the last committed master.
  For both kinds of lock and any finite number of threads, `TypeCorrect` (the
  accesses of threads that are inside together spoil the bounds, but every one
  stores a number or 0) and `LockNeverJams`: the value of the lock is the number
  of threads inside.  The invariant `Counted` says nothing of the memory, which
  POSIX spoils, and every step of a thread keeps it because it is one of three
  moves (`Moves`): in, out, or neither.  The semaphore of MCLocks makes the same
  moves (`SemaphoreNeverJams`).
* **TablesProofs**: for any keys, values, number of chains and readers,
  `GetIsCurrent`, `WalkIsComplete` and `IsMap` (a HASHMAP refines
  `AbstractMap`).  The three rest on `GoodChains` (an entry is in the chain of
  its key and alone of its key) and on `Store`: a store of a writer moves no
  entry, and a key that gets an entry had no value.  `Getting` and `Walking`
  say how far a reader is: it has not passed the entry of its key, unless the
  key was without a value at some moment; it has found the keys that always had
  one where it has passed.  Facts about two states at once are stated for any
  chains `L`, `M`, so that they serve before and after a step.
  `TablesAreContainers` carries the three over to the behaviours of MCTables.
  There, for any capacity and any registrations, `ListIsTableUpToCapacity`: the
  invariant `ListSound` says that the ARRAYLIST and the sequence are equal, or
  that the list is longer than it was made for and has an overwritten item,
  which no entry is.  For any numbers of sockets, `PoolAlwaysFinds`: `PoolSound`
  says that the pool is in order (`Ascending`), has room, and holds one item for
  each socket that was added, the one stored last (`Matches`).  It rests on two
  lemmas about the C library's functions.  `BSearchFinds`: the bisection, a
  recursive function on ranges, has a value (`SearchExists` names it: the place,
  if it is in the range), and in the shortest range in which it were another, a
  step would fail (`SearchWithin`, `StepWithin`).  `SortAdds`: there is a
  permutation that sorts a pool with one item more behind it (`SortingExists`:
  the one that moves this item to its place), and any that does keeps the items
  and leaves them strictly in order, as no two are of one socket.
* **RelayProofs**: `DeliveredWhereSent`, for any number of sockets, peers,
  ports and datagrams and any capacity of the connection of at least two pieces;
  no peer has an address of the client or the proxy (`PeersApart`).  `IInv` says of each
  datagram on its way which of six kinds it is (`Honest`), of each direction of
  the connection that the body behind a header is the one that belongs to it
  (`Paired`; a body may have lost its header, not the reverse), and that a read
  after `proxy_select()` finds the header that was named (`SaidHead`).
  `RelayTypes` adds that each direction holds only what is sent in it and no
  more than fits (`UpTyped`, `DownTyped`), which needs what `Honest` says: the
  address in front of a body that the proxy passes on is one of a peer or of a
  client of it.
* **ProxyProofs**: `ProxyTypes`; `TablesSound`, that up to the first stale use
  (`late`) the tables agree (`Safe`): each number in the map has a live record
  with an open socket, each thread has its client or knows that it is gone, and
  only the record of a client is anybody's `control`.  What the actions do to
  the tables is stated as a few relations (`GoesOn`, `Allocates`, `Freed`,
  `Loses`) and the invariant is carried over each of these once.
  `SelectGetsOpen` follows, and `ClientKept`: for any number of UDP sockets of a
  client, a step that is no stale use leaves a UDP socket without its client only
  if another socket of that client goes (`LostToAnother`), and no other kind of
  step loses one (`NoneLost`).  `ClientsCounted` assumes no pair of keys: with one
  the code violates it (section 3).
* **ClientProofs**: `SessionSound`, whose invariant has two layers: `Sound`
  (types, that each descriptor is open for what the call, the pool or the link
  has it for, and that the link is the one the call takes it to be, or the one
  connection to the managing server that the code takes for it under a stale
  number) and
  `PoolOK` (each number of a socket at the proxy that the pool has is bound
  there, and no answer and no *Proxy-close* on its way names it).  The second
  ends with the first *Proxy-close* that names another socket (`hist.stray`).
  Hence `NothingLeaks`, `LinkThereToBind` and `SocketsBoundThere`.  The proofs
  take what server and proxies answer, and in what portions it arrives, as any
  value at all.  For `SessionTypes` the server's side is followed, too
  (`ServerSound`): what a call can do to it is one of five things (`Requests`),
  it has a request to answer before its test, and what it answers is an address
  of its list or none (`FindsOrNone`).

Proved is so every invariant that a passing run checks, and every action property and
refinement.  Only model-checked is liveness, which is out of the prover's reach:
`Served`, `Answered`, `LastCloses`, `AttemptEnds`, `BindAnswered`, `AskEnds`,
`BindEnds`, `AddressTold`, `ModeTold` and `SendEnds`.  `CountBounded` is proved
under the hypothesis named above, and `QuietExact` and
`RefinesAtomic` for the critical section.

## 5. What the models leave out

* Message texts, logging, option parsing and `snprint_master`.
* Errors of `socket`, `bind` and `listen` before the loop: the process exits.
* A client sends *Is-behind-firewall* once per connection and *Get-proxy* only
  after its answer, as the library does; a second *Is-behind-firewall* is
  ignored by the code because the type is no longer unknown.
* The descriptors of `test_sock` of the server, which are never closed.
* `SIGPIPE`, which ends the process.
* Of the proxy (module Proxy): the console, `authorized` (a command without it
  is a hang-up) and packets, which are in Client and Relay, and the order of
  events within a sweep, which ServerLoop has.  When the listening socket is lost its number is not
  given out again in the model.  A client closes only UDP sockets it bound.
* Of the library: `proxy_getsockname()` (it changes nothing; it returns the port
  without `htons()`), the build without `PROXY_SOCKET_FUNCTIONS` and the mode in
  which the functions only wrap system calls, several threads of a program in
  the library at once, `proxy_bind()` of a socket that is bound already.  A
  link is replaced by `connect_to_proxy()`; the pinger threads it starts are
  one in Relay, as they do the same.  What is sent on a
  closed number that is a connection to the managing server now is not followed
  there: the server ignores the lines of the proxy's protocol.
* Lines and keys arrive whole.  A key cut in two makes both sides wait in a loop
  that does not notice the end of the stream.
* `delete_vector()` at exit; `_vector_insert()`, `_vector_delete()` and
  `print_item()`, which no program calls.
* The library's copy of `server_loop.c` is the same text; `map` spreads the
  definitions over the three copies.

## 6. Plan

Done: all the components of section 1 that keep state.  What could follow:

1. **Registration**, composing the proxy's period with the server's staleness,
   both with clocks.
2. **Sessions and datagrams in one**: the loss of the link while datagrams are
   on their way, several clients at one proxy.
3. Partial lines and keys, with the loops that wait for the rest.
