----------------------------- MODULE AtomicMaster -----------------------------
(***************************************************************************)
(* What the lock around MASTER_FD promises: add_socket() and rm_socket()   *)
(* happen one after the other, each as a whole.                            *)
(***************************************************************************)
EXTENDS MasterSet

CONSTANT Fds
VARIABLE m

Init == m = InitMaster

Next == \E fd \in Fds : \/ m' = AddSocket(m, fd, {"read"})
                        \/ m' = RmSocket(m, fd, {"read"})

Spec == Init /\ [][Next]_m
=============================================================================
