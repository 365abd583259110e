----------------------------- MODULE MCProxyTable -----------------------------
(***************************************************************************)
(* Every table that registrations and the passing of time can build from a *)
(* few addresses, against every set of reported addresses.                 *)
(***************************************************************************)
EXTENDS ProxyList
CONSTANT MaxClients

TableInit == table = <<>>
TableNext == \/ \E a \in Addrs, n \in 0..MaxClients : table' = Register(table, Proxy(a, n))
             \/ \E k \in DOMAIN table : table' = [table EXCEPT ![k].fresh = FALSE]
TableSpec == TableInit /\ [][TableNext]_table

\* "Connection to Proxy failed. Asking Server for another."
\* (lib_proxy_socket/proxy_socket.c:427): a client that reports the proxy it
\* was assigned is not assigned it again while there is another of its kind.
AnotherProxy ==
    LET first  == FindProxy(table, {})
        second == FindProxy(table, {first})
    IN  (\E j, k \in Competing(table) : j # k) => second # first
=============================================================================
