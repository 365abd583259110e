------------------------------ MODULE MasterLock ------------------------------
(***************************************************************************)
(* The memory accesses of add_socket() and rm_socket() and the lock around *)
(* them.  Threads of the program share one MASTER_FD; each call loads and  *)
(* stores the word of the fd_set, then reads and writes the bounds.        *)
(* lock_master() depends on the platform:                                  *)
(*   critical_section  Windows: EnterCriticalSection()                     *)
(*   semaphore         POSIX: one semop() that waits for zero, then a      *)
(*                     second one that adds one                            *)
(***************************************************************************)
EXTENDS MasterSet

CONSTANTS Threads, Fds, LockKind

ASSUME FdsAssumption == IsFiniteSet(Fds) /\ Fds \subseteq Nat \ {0}
ASSUME ThreadsAssumption == IsFiniteSet(Threads)
ASSUME LockAssumption == LockKind \in {"critical_section", "semaphore"}

VARIABLES mem,       \* the MASTER_FD in memory
          lock,      \* the critical section or the value of the semaphore
          at,        \* at[t]: the access thread t makes next
          call,      \* call[t]: the call thread t makes, with its descriptor
          loc,       \* loc[t]: what thread t holds in registers and locals
          committed  \* history: the master when a call last released the lock
vars == <<mem, lock, at, call, loc, committed>>

Calls == [op : {"add", "rm"}, fd : Fds]
Inside == {"load", "store", "low", "setlow", "high", "sethigh", "scan", "putmax", "putmin", "leave"}
Labels == Inside \cup {"idle", "enter", "raise"}
NoLoc == [set |-> {}, fdmin |-> 0, fdmax |-> 0]

TypeOK ==
    /\ mem \in Masters(Fds)
    /\ lock \in Nat
    /\ at \in [Threads -> Labels]
    /\ call \in [Threads -> Calls]
    /\ loc \in [Threads -> [set : SUBSET Fds, fdmin : Fds \cup {0}, fdmax : Fds \cup {0}]]
    /\ committed \in Masters(Fds)

Init ==
    /\ mem = InitMaster
    /\ lock = 0
    /\ at = [t \in Threads |-> "idle"]
    /\ call \in [Threads -> Calls]
    /\ loc = [t \in Threads |-> NoLoc]
    /\ committed = InitMaster

Goto(t, label) == at' = [at EXCEPT ![t] = label]
Fd(t) == call[t].fd

\* add_socket(fd, ...) or rm_socket(fd, ...) is called.
Begin(t) ==
    /\ at[t] = "idle"
    /\ \E c \in Calls : call' = [call EXCEPT ![t] = c]
    /\ Goto(t, "enter")
    /\ UNCHANGED <<mem, lock, loc, committed>>
-----------------------------------------------------------------------------
(* lock_master and unlock_master *)

\* Mutant of Enter: nothing waits for the lock.
EnterNoWait(t) ==
    /\ at[t] = "enter"
    /\ lock' = 1
    /\ Goto(t, "load")
    /\ UNCHANGED <<mem, call, loc, committed>>

\* EnterCriticalSection(), or the semop() that waits until the value is 0.
Enter(t) ==
    /\ at[t] = "enter"
    /\ lock = 0
    /\ IF LockKind = "critical_section"
       THEN lock' = 1 /\ Goto(t, "load")
       ELSE lock' = lock /\ Goto(t, "raise")
    /\ UNCHANGED <<mem, call, loc, committed>>

\* Mutant of Raise: the value is set instead of added to.
RaiseSets(t) ==
    /\ at[t] = "raise"
    /\ lock' = 1
    /\ Goto(t, "load")
    /\ UNCHANGED <<mem, call, loc, committed>>

\* The semop() that adds one; it never waits.
Raise(t) ==
    /\ at[t] = "raise"
    /\ lock' = lock + 1
    /\ Goto(t, "load")
    /\ UNCHANGED <<mem, call, loc, committed>>

\* LeaveCriticalSection(), or the semop() that subtracts one.
Leave(t) ==
    /\ at[t] = "leave"
    /\ lock > 0
    /\ lock' = lock - 1
    /\ committed' = mem
    /\ loc' = [loc EXCEPT ![t] = NoLoc]
    /\ Goto(t, "idle")
    /\ UNCHANGED <<mem, call>>
-----------------------------------------------------------------------------
(* The accesses to the record.  FD_SET and FD_CLR load a word and store it. *)

LoadWord(t) ==
    /\ at[t] = "load"
    /\ loc' = [loc EXCEPT ![t].set = mem.set["read"]]
    /\ Goto(t, "store")
    /\ UNCHANGED <<mem, lock, call, committed>>

\* Mutant of StoreWord: rm_socket() leaves without calc_min_max().
StoreWordOnly(t) ==
    /\ at[t] = "store"
    /\ LET new == IF call[t].op = "add" THEN loc[t].set \cup {Fd(t)} ELSE loc[t].set \ {Fd(t)}
       IN  mem' = [mem EXCEPT !.set["read"] = new]
    /\ Goto(t, IF call[t].op = "add" THEN "low" ELSE "leave")
    /\ UNCHANGED <<lock, call, loc, committed>>

StoreWord(t) ==
    /\ at[t] = "store"
    /\ LET new == IF call[t].op = "add" THEN loc[t].set \cup {Fd(t)} ELSE loc[t].set \ {Fd(t)}
       IN  mem' = [mem EXCEPT !.set["read"] = new]
    /\ Goto(t, IF call[t].op = "add" THEN "low" ELSE "scan")
    /\ UNCHANGED <<lock, call, loc, committed>>

\* add_socket(): fdmin is tested, then written if fd is below it.
TestLow(t) ==
    /\ at[t] = "low"
    /\ Goto(t, IF mem.fdmin = 0 \/ mem.fdmin > Fd(t) THEN "setlow" ELSE "high")
    /\ UNCHANGED <<mem, lock, call, loc, committed>>

SetLow(t) ==
    /\ at[t] = "setlow"
    /\ mem' = [mem EXCEPT !.fdmin = Fd(t)]
    /\ Goto(t, "high")
    /\ UNCHANGED <<lock, call, loc, committed>>

TestHigh(t) ==
    /\ at[t] = "high"
    /\ Goto(t, IF mem.fdmax < Fd(t) THEN "sethigh" ELSE "leave")
    /\ UNCHANGED <<mem, lock, call, loc, committed>>

SetHigh(t) ==
    /\ at[t] = "sethigh"
    /\ mem' = [mem EXCEPT !.fdmax = Fd(t)]
    /\ Goto(t, "leave")
    /\ UNCHANGED <<lock, call, loc, committed>>

\* calc_min_max() at the end of rm_socket(): the sets are scanned between the
\* bounds, then fdmax is written, then fdmin.
Scan(t) ==
    /\ at[t] = "scan"
    /\ loc' = [loc EXCEPT ![t] = [set |-> @.set, fdmin |-> CalcMinMax(mem).fdmin,
                                  fdmax |-> CalcMinMax(mem).fdmax]]
    /\ Goto(t, "putmax")
    /\ UNCHANGED <<mem, lock, call, committed>>

\* Mutant of PutMax: the argument of select(), one above the greatest number.
PutMaxPlusOne(t) ==
    /\ at[t] = "putmax"
    /\ mem' = [mem EXCEPT !.fdmax = loc[t].fdmax + 1]
    /\ Goto(t, "putmin")
    /\ UNCHANGED <<lock, call, loc, committed>>

PutMax(t) ==
    /\ at[t] = "putmax"
    /\ mem' = [mem EXCEPT !.fdmax = loc[t].fdmax]
    /\ Goto(t, "putmin")
    /\ UNCHANGED <<lock, call, loc, committed>>

PutMin(t) ==
    /\ at[t] = "putmin"
    /\ mem' = [mem EXCEPT !.fdmin = loc[t].fdmin]
    /\ Goto(t, "leave")
    /\ UNCHANGED <<lock, call, loc, committed>>

Step(t) ==
    \/ Enter(t) \/ Raise(t) \/ Leave(t)
    \/ LoadWord(t) \/ StoreWord(t) \/ TestLow(t) \/ SetLow(t)
    \/ TestHigh(t) \/ SetHigh(t) \/ Scan(t) \/ PutMax(t) \/ PutMin(t)

Next == \E t \in Threads : Begin(t) \/ Step(t)

Spec == Init /\ [][Next]_vars
-----------------------------------------------------------------------------
(* Properties *)

\* No call lost: the master that each release of the lock leaves behind is the
\* previous one with one whole add_socket() or rm_socket() applied.
Atomic == INSTANCE AtomicMaster WITH m <- committed
RefinesAtomic == Atomic!Spec

Quiet == \A t \in Threads : at[t] \in {"idle", "enter"}

\* When no thread is inside a call, the bounds are exact: every registered
\* descriptor is inside the loops over fdmin..fdmax.
QuietExact == Quiet => Exact(mem)

\* The lock never jams: its value counts the threads inside, so it is back at
\* zero when they have left, even where two of them got in together.
LockCounts == lock = Cardinality({t \in Threads : at[t] \in Inside})
=============================================================================
