----------------------------- MODULE MCLeaseJobs -----------------------------
(* Which windows of LeaseJobs the scheduler triggers together.             *)
EXTENDS LeaseJobs

CONSTANT Triggered  \* sets of windows

(* The other windows have failed for good.  Leases and people change only  *)
(* while somebody mails about them.                                        *)
MCInit ==
    /\ JobsInit
    /\ {w \in Windows : run[w] = None} \in Triggered
    /\ IF \E w \in Notices : run[w] = None
       THEN active = Leases /\ moved = {} ELSE active = {} /\ staff = {} /\ moved = People

MCSpec == MCInit /\ [][JobsNext]_jobVars /\ JobsFairness
=============================================================================
