------------------------------ MODULE ProxyList ------------------------------
(***************************************************************************)
(* The list of proxies as a variable of whoever keeps one, and what the    *)
(* program relies on in it.                                                *)
(***************************************************************************)
EXTENDS ProxyTable

CONSTANT Addrs    \* addresses proxies register under
VARIABLE table    \* proxy_data

ASSUME AddrAssumption == NoProxy \notin Addrs

\* register_proxy() never leaves two entries for one address, so a proxy has
\* one load and one time of registration (client_handler.c:104-117).
UniqueAddresses == Unique(table)

\* find_proxy() keeps its promise for every set of reported addresses.
ChoosesWell == \A bad \in SUBSET Addrs : GoodChoice(table, bad, FindProxy(table, bad))
=============================================================================
