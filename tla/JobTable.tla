------------------------------ MODULE JobTable ------------------------------
(***************************************************************************)
(* What the job endpoints of ace-server promise their clients: a submitted *)
(* job can be asked about until it has ended, it ends once and for good,   *)
(* and only then may it be forgotten, the oldest first, when the table     *)
(* outgrows its limit.  Jobs are numbered in the order of their creation.  *)
(* JobServer implements this specification.                                *)
(***************************************************************************)
EXTENDS Integers, FiniteSets

CONSTANTS Job,     \* the jobs, 1, 2, ... in the order of creation
          Limit    \* how many jobs the table aims to keep at most

VARIABLE phase     \* job -> where it stands for a client

Ended == {"DONE", "FAILED", "CANCELLED"}
Phase == {"NONE", "RUNNING", "GONE"} \cup Ended

In(p, S) == {j \in Job : p[j] \in S}

TableTypeOK == phase \in [Job -> Phase]

TableInit == phase = [j \in Job |-> "NONE"]

\* A new job may push old ones out: ended ones only, the oldest first, no more
\* than needed, and no fewer unless only running jobs are left.
Create(j) ==
    /\ phase[j] = "NONE"
    /\ \E out \in SUBSET In(phase, Ended) :
          /\ phase' = [i \in Job |-> IF i = j THEN "RUNNING"
                                     ELSE IF i \in out THEN "GONE" ELSE phase[i]]
          /\ \A i \in out, k \in In(phase, Ended) \ out : i < k
          /\ LET kept == In(phase', Ended \cup {"RUNNING"})
             IN  /\ out # {} => Cardinality(kept) >= Limit
                 /\ Cardinality(kept) > Limit => In(phase', Ended) = {}

Finish(j) ==
    /\ phase[j] = "RUNNING"
    /\ \E s \in Ended : phase' = [phase EXCEPT ![j] = s]

TableNext == \E j \in Job : Create(j) \/ Finish(j)

TableSpec == TableInit /\ [][TableNext]_phase
=============================================================================
