---------------------------- MODULE ManagingServer ----------------------------
(***************************************************************************)
(* The managing server: the select() loop of ServerLoop with the handler   *)
(* of server/client_handler.c, the list of proxies of ProxyTable, and the  *)
(* test_connection() threads.  A proxy connects, registers and is let go;  *)
(* a client asks whether it is behind a firewall, a thread tries to        *)
(* connect back to it, and the answer may name a proxy; the client asks    *)
(* for another proxy as long as the one it was given fails.                *)
(***************************************************************************)
EXTENDS ServerLoop, ProxyList

CONSTANTS Loads,        \* numbers of clients they report
          AlwaysProxy,  \* always_proxy: clients are told YES without need
          MaxExpire     \* bound: how often an entry grows stale

ASSUME OptionAssumption == AlwaysProxy \in BOOLEAN /\ Loads \subseteq Nat /\ MaxExpire \in Nat

VARIABLES
  cd,       \* cd[c]: the CLIENT_DATA of connection c
  probing,  \* records whose test_connection() is still in connect()
  owed,     \* history: requests taken from c less answers sent to it
  late,     \* history: a thread used a record after its release
  expired   \* how often an entry grew stale

server == <<cd, table, probing, owed, late, expired>>
svars  == <<vars, server>>

Records ==
    [step : {"connected", "request", "last"}, type : {"unknown", "client", "proxy"},
     tested : BOOLEAN, need : BOOLEAN, proxy : Addrs \cup {NoProxy}, bad : SUBSET Addrs]

\* get_client_data() makes it; also stands for a record not in use.
Fresh == [step |-> "connected", type |-> "unknown", tested |-> FALSE, need |-> FALSE,
          proxy |-> NoProxy, bad |-> {}]

ServerTypeOK ==
    /\ TypeOK
    /\ cd \in [Conn -> Records]
    /\ table \in Seq(Entries(Addrs, Loads))
    /\ probing \subseteq helpers
    /\ owed \in [Conn -> Int]
    /\ late \in BOOLEAN
    /\ expired \in 0..MaxExpire

ServerInit ==
    /\ Init
    /\ cd = [c \in Conn |-> Fresh]
    /\ table = <<>>
    /\ probing = {}
    /\ owed = [c \in Conn |-> 0]
    /\ late = FALSE
    /\ expired = 0
-----------------------------------------------------------------------------
(* The handler.  d is the record it is called with. *)

d == cd[item]

\* The handler returns r and leaves record e; add and spawn as in ServerLoop.
\* Input is read in the request step only.
Return(r, add, spawn, e) ==
    /\ \E own \in SockField(item) :
         HandlerEffect(r, add, spawn, what = "read" /\ d.step = "request", {}, own)
    /\ cd' = [cd EXCEPT ![item] = e]
    /\ probing' = IF spawn THEN probing \cup {item} ELSE probing
    /\ UNCHANGED <<late, expired>>

Keep  == UNCHANGED <<table, owed>>
Asked == owed' = [owed EXCEPT ![item] = @ + 1]

\* client_connected(): sends the greeting.
Hello ==
    /\ what = "read" /\ d.step = "connected"
    /\ \/ Return({}, FALSE, FALSE, [d EXCEPT !.step = "request"])
       \/ Return(MasterAll, FALSE, FALSE, d)
    /\ Keep

\* A request is there to be read.
Reads == what = "read" /\ d.step = "request"

\* Mutant of HangUp: MASTER_READ is returned, the connection stays open.
HangUpReadOnly ==
    /\ Reads
    /\ Return({"read"}, FALSE, FALSE, d)
    /\ Keep

\* End of file or an error of recv().
HangUp ==
    /\ Reads
    /\ Return(MasterAll, FALSE, FALSE, d)
    /\ Keep

\* The request is not one that the type of the connection allows.
Ignore ==
    /\ Reads
    /\ Return({}, FALSE, FALSE, d)
    /\ Keep

\* The record behind_firewall() leaves.
AsClient == [d EXCEPT !.type = "client", !.proxy = NoProxy, !.tested = FALSE]

\* behind_firewall(): a thread is started that connects back to the client; if
\* no socket is to be had for it the connection is closed.
BehindFirewall ==
    /\ Reads /\ d.type = "unknown"
    /\ \/ Return({}, FALSE, TRUE, AsClient) /\ Asked
       \/ Return(MasterAll, FALSE, FALSE, AsClient) /\ UNCHANGED owed
    /\ UNCHANGED table

\* Mutant of RegisterProxy: no add_socket() for the last step.
RegisterProxyOnly ==
    /\ Reads /\ d.type = "unknown"
    /\ \E a \in Addrs, n \in Loads : table' = Register(table, Proxy(a, n))
    /\ \/ Return({}, FALSE, FALSE, [d EXCEPT !.type = "proxy", !.step = "last"])
       \/ Return(MasterAll, FALSE, FALSE, d)
    /\ UNCHANGED owed

\* register_proxy(): the entry is made even if the answer cannot be sent.
RegisterProxy ==
    /\ Reads /\ d.type = "unknown"
    /\ \E a \in Addrs, n \in Loads : table' = Register(table, Proxy(a, n))
    /\ \/ Return({}, TRUE, FALSE, [d EXCEPT !.type = "proxy", !.step = "last"])
       \/ Return(MasterAll, FALSE, FALSE, d)
    /\ UNCHANGED owed

\* What reply_behind_firewall() leaves of record e before it sends the answer.
Chosen(e) ==
    IF ~e.need /\ ~AlwaysProxy THEN e ELSE [e EXCEPT !.proxy = FindProxy(table, e.bad)]

\* Mutant of Reply: the request for writing is not withdrawn.
ReplyKeepsWrite(e) ==
    LET last == (e.need \/ AlwaysProxy) /\ Chosen(e).proxy = NoProxy
    IN  \/ Return(MasterAll, FALSE, FALSE, Chosen(e))
        \/ ~last /\ Return({}, FALSE, FALSE, Chosen(e))
        \/ last /\ Return({}, TRUE, FALSE, [Chosen(e) EXCEPT !.step = "last"])

\* reply_behind_firewall(): NO, or YES with a proxy, or YES without one, after
\* which the connection is closed as soon as it can be written to.
Reply(e) ==
    LET last == (e.need \/ AlwaysProxy) /\ Chosen(e).proxy = NoProxy
    IN  \/ Return(MasterAll, FALSE, FALSE, Chosen(e))
        \/ ~last /\ Return({"write"}, FALSE, FALSE, Chosen(e))
        \/ last /\ Return({}, TRUE, FALSE, [Chosen(e) EXCEPT !.step = "last"])

Answer(n) == owed' = [owed EXCEPT ![item] = @ + n]

\* get_proxy(): the proxy assigned before is one more bad one.  A client asks
\* only when it has the answer to its last request.
GetProxy ==
    /\ Reads /\ d.type = "client" /\ owed[item] = 0
    /\ Reply([d EXCEPT !.need = TRUE, !.bad = @ \cup ({d.proxy} \ {NoProxy})])
    /\ Keep

\* client_write(): the answer, once the connection was tested.
ClientWrite ==
    /\ what = "write" /\ d.step # "last"
    /\ IF d.type = "client" /\ d.tested
       THEN Reply(d) /\ Answer(-1)
       ELSE Return({}, FALSE, FALSE, d) /\ UNCHANGED owed
    /\ UNCHANGED table

\* Any event in the last step closes the connection.
LastStep ==
    /\ d.step = "last"
    /\ Return(MasterAll, FALSE, FALSE, d)
    /\ Keep

ServerHandler ==
    /\ pc = "call"
    /\ \/ Hello \/ HangUp \/ Ignore \/ BehindFirewall \/ RegisterProxy
       \/ GetProxy \/ ClientWrite \/ LastStep
-----------------------------------------------------------------------------
(* The loop, the threads and time *)

\* rm_socket() frees the record of a number it closes.
ServerRm ==
    /\ RmHandled
    /\ cd' = [c \in Conn |-> IF c \in Live' THEN cd[c] ELSE Fresh]
    /\ owed' = [c \in Conn |-> IF c \in Live' THEN owed[c] ELSE 0]
    /\ UNCHANGED <<table, probing, late, expired>>

\* The steps of the loop that are not calls of the handler.
Quiet ==
    /\ \/ SetSockets \/ SelectReturns \/ SelectFails \/ ZeroBounds \/ AddListener
       \/ SweepDone \/ Skip \/ NoRecord \/ Dispatch \/ Accept \/ AcceptFails
    /\ UNCHANGED server

\* test_connection(): connect() ends and its result is written to the record,
\* or to what the allocator put in the place of a released one.
ProbeEnds(c) ==
    /\ c \in probing
    /\ pc # "exit"
    /\ probing' = probing \ {c}
    /\ \E n \in BOOLEAN :
         LET written(x) == [cd EXCEPT ![x] = [@ EXCEPT !.tested = TRUE, !.need = n]]
         IN  IF c \in Live THEN cd' = written(c)
             ELSE \/ cd' = cd
                  \/ \E x \in Live : cd' = written(x)
    /\ late' = (late \/ c \notin Live)
    /\ UNCHANGED <<vars, table, owed, expired>>

\* Mutants of ProbeAdds: connect() is not waited for; add_socket() is missing.
ProbeAddsEarly(c) ==
    /\ HelperAdds(c)
    /\ late' = (late \/ c \notin Live)
    /\ UNCHANGED <<cd, table, probing, owed, expired>>
ProbeAddsNothing(c) ==
    /\ c \in helpers \ probing
    /\ helpers' = helpers \ {c}
    /\ UNCHANGED <<master, hm, torn, kernel, locals, server>>

\* ... and it makes the loop wait for the connection to be writable.
ProbeAdds(c) ==
    /\ c \notin probing
    /\ HelperAdds(c)
    /\ late' = (late \/ c \notin Live)
    /\ UNCHANGED <<cd, table, probing, owed, expired>>

\* registration_period seconds pass for an entry.
Expire(k) ==
    /\ expired < MaxExpire
    /\ table[k].fresh
    /\ table' = [table EXCEPT ![k].fresh = FALSE]
    /\ expired' = expired + 1
    /\ UNCHANGED <<vars, cd, probing, owed, late>>

ServerLoopStep == Quiet \/ ServerHandler \/ ServerRm

ServerNext ==
    \/ ServerLoopStep
    \/ \E c \in Conn : ProbeEnds(c) \/ ProbeAdds(c)
    \/ \E f \in Fd : Arrive(f) /\ UNCHANGED server
    \/ \E k \in DOMAIN table : Expire(k)
    \/ Exited /\ UNCHANGED server

ServerSpec == ServerInit /\ [][ServerNext]_svars

\* The loop and the threads keep running (connect() ends), and a connection
\* that select() waits on for writing is reported writable now and then: its
\* peer takes the answers.
ServerFair ==
    /\ WF_svars(ServerLoopStep)
    /\ \A c \in Conn : WF_svars(ProbeEnds(c)) /\ WF_svars(ProbeAdds(c))
    /\ \A f \in Fds : SF_svars(Quiet /\ SelectReturns /\ f \in ready'.write)
FairServerSpec == ServerSpec /\ ServerFair
-----------------------------------------------------------------------------
(* Properties *)

\* Every behaviour of the managing server is one of the loop: its handlers do
\* no more than ServerLoop allows a handler.
LoopSpec == Spec

\* Only a thread that outlived its record can make select() fail, upon which
\* the loop forgets every connection or the process exits: otherwise each
\* number in the sets is open.
WatchedOpen == ~late => /\ \A f \in Watched(master) : sock[f] # NoItem
                        /\ pc \notin {"zeroed", "listen", "exit"}

\* No client is sent an answer it did not ask for: the request for writing
\* that a finished test makes is used up by one answer.
NoExtraAnswer == ~late => \A c \in Conn : owed[c] >= 0

\* Every request that starts a test is answered, or its connection closed,
\* even if the test ends in the middle of a sweep.
Answered == \A c \in Conn : owed[c] > 0 ~> owed[c] = 0 \/ late

\* A connection that was told all there is to tell is closed.
LastCloses == \A c \in Conn : cd[c].step = "last" ~> cd[c].step # "last" \/ late
=============================================================================
