------------------------------- MODULE MCShared -------------------------------
(***************************************************************************)
(* What the threads of one process share: an execution is one of MCLocks,  *)
(* the set of the MASTER under its lock, or one of MCTables, a container.  *)
(* The part that stands still has one initial state.                       *)
(***************************************************************************)
EXTENDS MCLocks, MCTables

VARIABLE part  \* the part that moves

SharedInit ==
    /\ part \in {"locks", "tables"}
    /\ LocksInit /\ TablesInit
    /\ part = "locks" => what = "proxies"
    /\ part = "tables" => kind = "critical_section" /\ call = [t \in Threads |-> SomeCall]

SharedNext ==
    \/ part = "locks" /\ LocksNext /\ UNCHANGED <<part, mapvars, table, others>>
    \/ part = "tables" /\ TablesNext /\ UNCHANGED <<part, kind, vars, vars2>>

SharedSpec == SharedInit /\ [][SharedNext]_<<part, kind, vars, vars2, mapvars, table, others>>
=============================================================================
