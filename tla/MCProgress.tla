------------------------------ MODULE MCProgress ------------------------------
(***************************************************************************)
(* The loops of ace-server that must come to an end, one at a time: `part` *)
(* says which of the modules runs, the others stay where they start.  The  *)
(* modules share no state; each is explored in full.                       *)
(*   jobs    JobServer   two jobs of two kinds, one cancel poll each       *)
(*   batch   LmBatch     one sequence, a cache too small for some calls    *)
(*   log     LogRing     a ring of two lines, two clients                  *)
(***************************************************************************)
EXTENDS JobServer, LmBatch, LogRing

VARIABLE part

ProgressInit == part \in {"jobs", "batch", "log"} /\ Init /\ BatchInit /\ RingInit

ProgressNext ==
    \/ part = "jobs" /\ Next /\ UNCHANGED <<batchVars, ringVars, part>>
    \/ part = "batch" /\ BatchNext /\ UNCHANGED <<vars, ringVars, part>>
    \/ part = "log" /\ RingNext /\ UNCHANGED <<vars, batchVars, part>>

\* Where it does not run, LmBatch has no call and LogRing no stream, and their
\* fairness asks for nothing; the worker of JobServer is about to wait.
ProgressSpec ==
    /\ ProgressInit
    /\ [][ProgressNext]_<<vars, batchVars, ringVars, part>>
    /\ part = "jobs" => Fairness
    /\ BatchFairness /\ RingFairness
=============================================================================
