------------------------------- MODULE MCProxy -------------------------------
(***************************************************************************)
(* The proxy for TLC.  A behaviour is followed up to the first use of      *)
(* something stale (late), or up to what the loop makes of that: no        *)
(* property speaks of what comes after it, and the outcomes are many.      *)
(***************************************************************************)
EXTENDS Proxy

UntilLate == ~late

\* The loop is to handle a released record, or a closed number, and no thread is
\* under way: up to there ...
UntilFailure ==
    late => /\ \A r \in Recs : tab.thread[r] = NoThread
            /\ \E f \in Fds : /\ tab.watch[f] # {}
                              /\ tab.open[f] = NoRec \/ tab.hm[f] = Gone

\* ... and one step more.
ThenFails == late => SelectFails \/ \E f \in Fds : Garbage(f)
=============================================================================
