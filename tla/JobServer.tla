----------------------------- MODULE JobServer ------------------------------
(***************************************************************************)
(* The job system of ace-server (src/tools/ace-server.cpp) without worker  *)
(* isolation: HTTP handler threads create jobs and cancel them, one worker *)
(* thread takes them from a FIFO queue and runs the pipelines, the main    *)
(* thread shuts everything down after SIGINT or SIGTERM.  A step is what a *)
(* thread does between two points where another can interfere.             *)
(*                                                                         *)
(* Job ids are random in the code and only compared; here job i is the     *)
(* i-th created, so g_job_order is g_jobs in increasing order.             *)
(***************************************************************************)
EXTENDS Integers, Sequences, FiniteSets

CONSTANTS
    MAX_JOBS,   \* jobs kept in the table before ended ones are evicted
    Kind,       \* the kinds of jobs clients submit
    Polls,      \* how often a pipeline asks whether it was cancelled
    Submits,    \* bound: the jobs submitted in a behaviour
    NoJob

ASSUME JobServerAssumption ==
    /\ MAX_JOBS \in Nat \ {0}
    /\ Kind \subseteq {"LM", "UNDERSTAND", "SYNTH", "ENCODE", "DECODE"}
    /\ Polls \in Nat /\ Submits \in Nat
    /\ NoJob \notin 1..Submits

Job == 1..Submits

VARIABLES
    created,      \* number of jobs created so far
    g_jobs,       \* the jobs in the table (g_jobs, g_job_order)
    kind,         \* job -> what was asked for
    status,       \* job -> JobStatus
    cancel,       \* job -> its cancel flag
    result,       \* job -> are result_body and result_mime written
    submitting,   \* jobs of the handlers between job_create and work_push
    cancelling,   \* jobs of the cancel handlers that have seen RUNNING
    g_work_queue,
    g_work_stop,
    worker,       \* the worker thread: [pc, job, polls]
    main          \* the main thread

tableVars == <<created, g_jobs, kind>>
workVars  == <<g_work_queue, g_work_stop>>
vars == <<created, g_jobs, kind, status, cancel, result, submitting, cancelling,
          g_work_queue, g_work_stop, worker, main>>

Ended == {"DONE", "FAILED", "CANCELLED"}

WorkerPc == {"ready", "asleep", "start", "compute", "publish", "exited"}
MainPc   == {"listening", "draining", "drained", "stopped", "joining", "freed"}

TypeOK ==
    /\ created \in 0..Submits
    /\ g_jobs \subseteq 1..created
    /\ kind \in [Job -> Kind \cup {"none"}]
    /\ status \in [Job -> {"RUNNING"} \cup Ended]
    /\ cancel \in [Job -> BOOLEAN]
    /\ result \in [Job -> BOOLEAN]
    /\ submitting \subseteq 1..created
    /\ cancelling \subseteq 1..created
    /\ g_work_queue \in Seq(Job)
    /\ g_work_stop \in BOOLEAN
    /\ worker \in [pc : WorkerPc, job : Job \cup {NoJob}, polls : 0..Polls]
    /\ main \in MainPc

Idle(pc) == [pc |-> pc, job |-> NoJob, polls |-> 0]

Init ==
    /\ created = 0 /\ g_jobs = {}
    /\ kind = [j \in Job |-> "none"]
    /\ status = [j \in Job |-> "RUNNING"]
    /\ cancel = [j \in Job |-> FALSE]
    /\ result = [j \in Job |-> FALSE]
    /\ submitting = {} /\ cancelling = {}
    /\ g_work_queue = <<>> /\ g_work_stop = FALSE
    /\ worker = Idle("ready")
    /\ main = "listening"
-----------------------------------------------------------------------------
(***************************************************************************)
(* Handlers: POST /lm, /synth, /understand, /vae                           *)
(***************************************************************************)
\* (A ...Bug operator is a plausible mistake in the definition that follows,
\* there to show which property would notice it.)
EvictableBug(S) == S

\* Whatever is not RUNNING may be evicted.
Evictable(S) == {j \in S : status[j] # "RUNNING"}

EvictedOnceBug(S) ==
    {j \in Evictable(S) :
        Cardinality(S) > MAX_JOBS /\ \A i \in Evictable(S) : j <= i}

\* job_create evicts one job at a time, the oldest that may go, as long as
\* more than MAX_JOBS are left: the oldest `excess` of those that may go.
Evicted(S) ==
    LET excess == Cardinality(S) - MAX_JOBS
    IN  {j \in Evictable(S) : Cardinality({i \in Evictable(S) : i <= j}) <= excess}

\* The validated request becomes a job (job_create, under mtx_jobs).
Submit(k) ==
    LET j == created + 1
    IN  /\ main = "listening" /\ created < Submits
        /\ created' = j
        /\ kind' = [kind EXCEPT ![j] = k]
        /\ g_jobs' = (g_jobs \cup {j}) \ Evicted(g_jobs \cup {j})
        /\ submitting' = submitting \cup {j}
        /\ UNCHANGED <<status, cancel, result, cancelling, workVars, worker, main>>

\* notify_one reaches the worker only if it waits.
Woken == IF worker.pc = "asleep" THEN Idle("ready") ELSE worker

WorkPushUnnotifiedBug(j) ==
    /\ j \in submitting
    /\ g_work_queue' = Append(g_work_queue, j)
    /\ submitting' = submitting \ {j}
    /\ UNCHANGED <<tableVars, status, cancel, result, cancelling, g_work_stop,
                   worker, main>>

WorkPush(j) ==
    /\ j \in submitting
    /\ g_work_queue' = Append(g_work_queue, j)
    /\ worker' = Woken
    /\ submitting' = submitting \ {j}
    /\ UNCHANGED <<tableVars, status, cancel, result, cancelling, g_work_stop, main>>
-----------------------------------------------------------------------------
(***************************************************************************)
(* Handler: POST /job?id=N&cancel=1.  The status is loaded, then the flag  *)
(* stored and the client told; the status itself is left alone.            *)
(***************************************************************************)
CancelLoad(j) ==
    /\ main = "listening"
    /\ j \in g_jobs \ cancelling /\ status[j] = "RUNNING"
    /\ cancelling' = cancelling \cup {j}
    /\ UNCHANGED <<tableVars, status, cancel, result, submitting, workVars,
                   worker, main>>

CancelStore(j) ==
    /\ j \in cancelling
    /\ cancel' = [cancel EXCEPT ![j] = TRUE]
    /\ cancelling' = cancelling \ {j}
    /\ UNCHANGED <<tableVars, status, result, submitting, workVars, worker, main>>
-----------------------------------------------------------------------------
(***************************************************************************)
(* The worker thread: worker_main and the *_worker functions               *)
(***************************************************************************)
\* Kinds whose pipeline is given the cancel callback, and kinds that look at
\* the flag once more when everything is computed.
Polling   == {"LM", "UNDERSTAND", "SYNTH"}
Rechecked == {"SYNTH", "ENCODE", "DECODE"}

WorkerKeeps == <<tableVars, cancel, submitting, cancelling, g_work_stop, main>>

WorkerWait ==
    /\ worker.pc = "ready" /\ ~ g_work_stop /\ g_work_queue = <<>>
    /\ worker' = Idle("asleep")
    /\ UNCHANGED <<WorkerKeeps, status, result, g_work_queue>>

SpuriousWakeup ==
    /\ worker.pc = "asleep"
    /\ worker' = Idle("ready")
    /\ UNCHANGED <<WorkerKeeps, status, result, g_work_queue>>

WorkerTakeUnstoppedBug ==
    /\ worker.pc = "ready" /\ g_work_queue # <<>>
    /\ worker' = [pc |-> "start", job |-> Head(g_work_queue), polls |-> 0]
    /\ g_work_queue' = Tail(g_work_queue)
    /\ UNCHANGED <<WorkerKeeps, status, result>>

WorkerTake ==
    /\ worker.pc = "ready" /\ ~ g_work_stop /\ g_work_queue # <<>>
    /\ worker' = [pc |-> "start", job |-> Head(g_work_queue), polls |-> 0]
    /\ g_work_queue' = Tail(g_work_queue)
    /\ UNCHANGED <<WorkerKeeps, status, result>>

WorkerExit ==
    /\ worker.pc = "ready" /\ g_work_stop
    /\ worker' = Idle("exited")
    /\ UNCHANGED <<WorkerKeeps, status, result, g_work_queue>>

\* The job of the worker ends with status s, the worker is free again.
Settle(s) ==
    /\ status' = [status EXCEPT ![worker.job] = s]
    /\ worker' = Idle("ready")
    /\ UNCHANGED <<WorkerKeeps, result, g_work_queue>>

\* First thing a *_worker does: was the job cancelled while it was queued?
StartCancelled ==
    /\ worker.pc = "start" /\ cancel[worker.job]
    /\ Settle("CANCELLED")

\* No such model, or it does not load.
StartFails ==
    /\ worker.pc = "start" /\ ~ cancel[worker.job]
    /\ Settle("FAILED")

StartRunsUncheckedBug ==
    /\ worker.pc = "start"
    /\ worker' = [worker EXCEPT !.pc = "compute",
                    !.polls = IF kind[worker.job] \in Polling THEN Polls ELSE 0]
    /\ UNCHANGED <<WorkerKeeps, status, result, g_work_queue>>

StartRuns ==
    /\ worker.pc = "start" /\ ~ cancel[worker.job]
    /\ worker' = [worker EXCEPT !.pc = "compute",
                    !.polls = IF kind[worker.job] \in Polling THEN Polls ELSE 0]
    /\ UNCHANGED <<WorkerKeeps, status, result, g_work_queue>>

PollPastEndBug ==
    /\ worker.pc = "compute"
    /\ IF cancel[worker.job]
       THEN Settle("CANCELLED")
       ELSE /\ worker' = [worker EXCEPT !.polls = @ - 1]
            /\ UNCHANGED <<WorkerKeeps, status, result, g_work_queue>>

\* server_cancel_job between two steps of a pipeline.
Poll ==
    /\ worker.pc = "compute" /\ worker.polls > 0
    /\ IF cancel[worker.job]
       THEN Settle("CANCELLED")
       ELSE /\ worker' = [worker EXCEPT !.polls = @ - 1]
            /\ UNCHANGED <<WorkerKeeps, status, result, g_work_queue>>

\* rc # 0 for another reason.  The VAE-only workers do not look at the flag.
PipelineFails ==
    /\ worker.pc = "compute"
    /\ Settle(IF kind[worker.job] \in Polling /\ cancel[worker.job]
              THEN "CANCELLED" ELSE "FAILED")

StatusFirstBug ==
    /\ worker.pc = "compute" /\ worker.polls = 0
    /\ status' = [status EXCEPT ![worker.job] = "DONE"]
    /\ worker' = [worker EXCEPT !.pc = "publish"]
    /\ UNCHANGED <<WorkerKeeps, result, g_work_queue>>

\* result_body and result_mime are written before the status.
PipelineEnds ==
    /\ worker.pc = "compute" /\ worker.polls = 0
    /\ result' = [result EXCEPT ![worker.job] = TRUE]
    /\ worker' = [worker EXCEPT !.pc = "publish"]
    /\ UNCHANGED <<WorkerKeeps, status, g_work_queue>>

FinalStatus(k, cancelled) == IF k \in Rechecked /\ cancelled THEN "CANCELLED" ELSE "DONE"

Publish ==
    /\ worker.pc = "publish"
    /\ Settle(FinalStatus(kind[worker.job], cancel[worker.job]))

WorkerStep ==
    \/ WorkerWait \/ WorkerTake \/ WorkerExit
    \/ StartCancelled \/ StartFails \/ StartRuns
    \/ Poll \/ PipelineFails \/ PipelineEnds \/ Publish
-----------------------------------------------------------------------------
(***************************************************************************)
(* The main thread                                                         *)
(***************************************************************************)
MainKeeps == <<tableVars, status, cancel, result, submitting, cancelling, g_work_queue>>

\* on_signal: no connection is accepted any more.
Signal ==
    /\ main = "listening"
    /\ main' = "draining"
    /\ UNCHANGED <<MainKeeps, g_work_stop, worker>>

\* listen() returns once the handlers under way have finished.
ListenReturns ==
    /\ main = "draining" /\ submitting = {} /\ cancelling = {}
    /\ main' = "drained"
    /\ UNCHANGED <<MainKeeps, g_work_stop, worker>>

SetStop ==
    /\ main = "drained"
    /\ main' = "stopped"
    /\ g_work_stop' = TRUE
    /\ UNCHANGED <<MainKeeps, worker>>

NotifyStopLostBug ==
    /\ main = "stopped"
    /\ main' = "joining"
    /\ UNCHANGED <<MainKeeps, g_work_stop, worker>>

NotifyStop ==
    /\ main = "stopped"
    /\ main' = "joining"
    /\ worker' = Woken
    /\ UNCHANGED <<MainKeeps, g_work_stop>>

\* worker.join() returned: store_free.
Cleanup ==
    /\ main = "joining" /\ worker.pc = "exited"
    /\ main' = "freed"
    /\ UNCHANGED <<MainKeeps, g_work_stop, worker>>

MainStep == ListenReturns \/ SetStop \/ NotifyStop \/ Cleanup

Next ==
    \/ \E k \in Kind : Submit(k)
    \/ \E j \in Job : WorkPush(j) \/ CancelLoad(j) \/ CancelStore(j)
    \/ WorkerStep
    \/ SpuriousWakeup
    \/ Signal
    \/ MainStep

\* Threads that can run do run; clients and signals may or may not come, and
\* a wakeup that nobody asked for is not counted on.
Fairness ==
    /\ \A j \in Job : WF_vars(WorkPush(j)) /\ WF_vars(CancelStore(j))
    /\ WF_vars(WorkerStep)
    /\ WF_vars(MainStep)

Spec == Init /\ [][Next]_vars /\ Fairness
-----------------------------------------------------------------------------
(***************************************************************************)
(* Properties                                                              *)
(***************************************************************************)
Created == 1..created

Queued(j) == {i \in 1..Len(g_work_queue) : g_work_queue[i] = j}

\* A job that still says RUNNING is found in the table, and one party alone is
\* to bring it to its end: the handler that will queue it, the queue, or the
\* worker.  No job is lost between them, run twice, or evicted under them.
NoJobLost ==
    \A j \in Created :
        status[j] = "RUNNING" =>
            /\ j \in g_jobs
            /\ \/ j \in submitting /\ Queued(j) = {} /\ worker.job # j
               \/ j \notin submitting /\ Cardinality(Queued(j)) = 1 /\ worker.job # j
               \/ j \notin submitting /\ Queued(j) = {} /\ worker.job = j

\* The memory-ordering contract of struct Job: a client that reads "done" can
\* read the whole result, and nobody writes it any more.
DoneMeansResult ==
    \A j \in Created : status[j] = "DONE" => result[j] /\ worker.job # j

\* A job is never without an owner or without its answer: whoever polls the table
\* is told the truth (job_create, work_push, worker_main).
JobsAreAccountedFor == TypeOK /\ NoJobLost /\ DoneMeansResult

\* Shutdown is orderly: once the worker can see g_work_stop it begins no other
\* job, and the store is freed under no pipeline, for the worker is gone.
ShutdownIsOrderly ==
    [][/\ g_work_stop => worker'.job \in {worker.job, NoJob}
       /\ main' = "freed" => g_work_stop /\ worker'.pc = "exited" /\ worker'.job = NoJob]_vars

\* A job cancelled while it waits in the queue computes nothing: it ends as
\* cancelled, neither done nor failed, unless the server is shut down first.
CancelInQueueWins ==
    \A j \in Job :
        (cancel[j] /\ Queued(j) # {}) ~> (status[j] = "CANCELLED" \/ g_work_stop)

\* Every job comes to an end as long as the server is up: the worker misses no
\* wakeup and no job is starved.
EveryJobEnds ==
    \A j \in Job : (j \in Created) ~> (status[j] # "RUNNING" \/ main # "listening")

\* A signal leads to the end of the process, whatever the threads were doing:
\* handlers drain, the worker wakes up, finishes its job and is joined.
ShutdownCompletes == (main = "draining") ~> (main = "freed")

\* What a client sees of a job.
PhaseOf ==
    [j \in Job |-> IF j \notin Created THEN "NONE"
                   ELSE IF j \notin g_jobs THEN "GONE" ELSE status[j]]

Table == INSTANCE JobTable WITH Limit <- MAX_JOBS, phase <- PhaseOf

\* The table forgets no running job, ended ones oldest first and only beyond
\* MAX_JOBS; an ended job never changes again.
ImplementsJobTable == Table!TableSpec
=============================================================================
