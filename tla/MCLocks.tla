------------------------------- MODULE MCLocks -------------------------------
(***************************************************************************)
(* Both kinds of lock_master(): an execution is one of MasterLock with the *)
(* critical section of Windows, or one of two threads with the semaphore   *)
(* of POSIX.                                                               *)
(***************************************************************************)
EXTENDS MasterLock

CONSTANTS t1, t2, t3

VARIABLES kind, mem2, lock2, at2, call2, loc2, committed2
vars2 == <<mem2, lock2, at2, call2, loc2, committed2>>

Sem == INSTANCE MasterLock
         WITH Threads <- {t1, t2}, LockKind <- "semaphore", mem <- mem2, lock <- lock2, at <- at2,
              call <- call2, loc <- loc2, committed <- committed2

\* What the threads of the one that stands still would call.
SomeCall == CHOOSE c \in Calls : TRUE

LocksInit ==
    /\ kind \in {"critical_section", "semaphore"}
    /\ Init /\ Sem!Init
    /\ kind = "semaphore" => call = [t \in Threads |-> SomeCall]
    /\ kind = "critical_section" => call2 = [t \in {t1, t2} |-> SomeCall]

LocksNext ==
    \/ kind = "critical_section" /\ Next /\ UNCHANGED <<kind, mem2, lock2, at2, call2, loc2, committed2>>
    \/ kind = "semaphore" /\ Sem!Next /\ UNCHANGED <<kind, vars>>

LocksSpec == LocksInit /\ [][LocksNext]_<<kind, vars, vars2>>

\* The semaphore never jams, see LockCounts.
SemaphoreCounts == Sem!LockCounts
=============================================================================
