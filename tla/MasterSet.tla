------------------------------- MODULE MasterSet -------------------------------
(***************************************************************************)
(* The MASTER_FD record of server_loop.c and its operations, as values.    *)
(* A master holds the three descriptor sets handed to select() and the     *)
(* bounds fdmin and fdmax between which every loop over them runs.  Each   *)
(* operator is what one call made under lock_master() does to the record.  *)
(***************************************************************************)
EXTENDS Naturals, FiniteSetsExt

Kinds == {"read", "write", "exc"}   \* MASTER_READ, MASTER_WRITE, MASTER_EXCEPTION
MasterAll == Kinds                  \* MASTER_ALL; DISCONNECT clears the same bits

\* A MASTER_FD over the descriptor numbers in F.
Masters(F) == [set : [Kinds -> SUBSET F], fdmin : F \cup {0}, fdmax : F \cup {0}]

\* The descriptors in at least one of the three sets.
Watched(m) == UNION {m.set[k] : k \in Kinds}

\* init_master: empty sets; 0 is the "no descriptor" mark of both bounds.
InitMaster == [set |-> [k \in Kinds |-> {}], fdmin |-> 0, fdmax |-> 0]

SetBits(s, fd, flags) ==
    [k \in Kinds |-> IF k \in flags THEN s[k] \cup {fd} ELSE s[k]]

ClearBits(s, fd, flags) ==
    [k \in Kinds |-> IF k \in flags THEN s[k] \ {fd} ELSE s[k]]

LowerBound(fdmin, fd) == IF fdmin = 0 \/ fdmin > fd THEN fd ELSE fdmin
UpperBound(fdmax, fd) == IF fdmax < fd THEN fd ELSE fdmax

\* add_socket: set the bits asked for and widen the bounds.
AddSocket(m, fd, flags) ==
    [set   |-> SetBits(m.set, fd, flags),
     fdmin |-> LowerBound(m.fdmin, fd),
     fdmax |-> UpperBound(m.fdmax, fd)]

\* The descriptors the loops over fdmin..fdmax find in a set.
InBounds(m) == {fd \in Watched(m) : m.fdmin <= fd /\ fd <= m.fdmax}

\* Mutant of CalcMinMax: the loop stops one short of fdmax.
CalcMinMaxShort(m) ==
    LET seen == {fd \in Watched(m) : m.fdmin <= fd /\ fd < m.fdmax}
    IN  [set   |-> m.set,
         fdmin |-> IF seen = {} THEN 0 ELSE Min(seen),
         fdmax |-> IF seen = {} THEN 0 ELSE Max(seen)]

\* calc_min_max: tighten the bounds.  Only numbers inside the old bounds are
\* looked at.
CalcMinMax(m) ==
    LET seen == InBounds(m)
    IN  [set   |-> m.set,
         fdmin |-> IF seen = {} THEN 0 ELSE Min(seen),
         fdmax |-> IF seen = {} THEN 0 ELSE Max(seen)]

\* The master of rm_socket: clear the bits asked for; when none is left the
\* bounds are computed again (and the caller closes the descriptor).
RmSocket(m, fd, flags) ==
    LET cleared == [set   |-> ClearBits(m.set, fd, flags),
                    fdmin |-> m.fdmin, fdmax |-> m.fdmax]
    IN  IF fd \in Watched(cleared) THEN cleared ELSE CalcMinMax(cleared)

\* Mutant of RmCloses: no test whether a bit is left.
RmClosesAlways(m, fd, flags) == TRUE

\* rm_socket closes the descriptor and releases its record exactly when the
\* call leaves it in none of the sets.
RmCloses(m, fd, flags) == \A k \in Kinds \ flags : fd \notin m.set[k]

\* The master of walk_master, for the descriptors its walker asked to drop.
WalkMaster(m, dropped) ==
    IF dropped = {} THEN m
    ELSE CalcMinMax([set   |-> [k \in Kinds |-> m.set[k] \ dropped],
                     fdmin |-> m.fdmin, fdmax |-> m.fdmax])

\* fdmin and fdmax are exactly the least and the greatest watched descriptor,
\* and both are 0 when nothing is watched.
Exact(m) ==
    /\ Watched(m) = {} => m.fdmin = 0 /\ m.fdmax = 0
    /\ Watched(m) # {} => /\ m.fdmin \in Watched(m) /\ m.fdmax \in Watched(m)
                          /\ \A fd \in Watched(m) : m.fdmin <= fd /\ fd <= m.fdmax
=============================================================================
