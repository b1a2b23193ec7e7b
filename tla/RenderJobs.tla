------------------------------- MODULE RenderJobs -------------------------------
(***************************************************************************)
(* The job system of songgen-server.cpp; sa3-server.cpp has the same one   *)
(* without the separation step.  Every compute request runs in a thread of *)
(* its own: a detached one that a client polls, or the handler's when the  *)
(* client waits.  g_compute_mtx lets one of them at the GPU, in the order  *)
(* the mutex happens to choose.                                            *)
(*                                                                         *)
(* A render is a subprocess, or a RUN frame to the warm worker             *)
(* (RenderWorker).  Stem separation is always a subprocess.                *)
(***************************************************************************)
EXTENDS RenderWorker, RenderRequests

CONSTANTS Forms,        \* what clients send, see Answers
          Cancels       \* cancel and /unload requests, together

ASSUME JobsAssumption ==
    Cancels \in Nat /\ Requests \in SUBSET (Nat \ {0}) /\ Forms \subseteq Answers

VARIABLES req,       \* what the handler made of each request, see RenderRequests
          pc,        \* its thread
          status, cancel, pid, result,   \* struct Job
          table,     \* g_jobs
          cur,       \* who holds g_compute_mtx, 0 for nobody
          rc,        \* return code of what it ran last
          proc,      \* its subprocess: [st, stage]
          files,     \* what a request has left in tmpdir
          killer,    \* the thread in job_cancel or handle_unload
          served     \* how often a job's bytes were sent

jobVars == <<req, pc, status, cancel, pid, result, table, cur, rc, proc, files, killer,
             served>>
vars == <<workerVars, jobVars>>

NoProc == [st |-> "none", stage |-> "none"]
NoKiller == [pc |-> "idle", todo |-> {}, job |-> 0, all |-> FALSE, left |-> Cancels]

Ended == {"DONE", "FAILED", "CANCELLED"}

Init ==
    /\ WorkerInit
    /\ req = [t \in Requests |-> NotYet]
    /\ pc = [t \in Requests |-> "none"]
    /\ status = [t \in Requests |-> "PENDING"]
    /\ cancel = [t \in Requests |-> FALSE]
    /\ pid = [t \in Requests |-> "none"]
    /\ result = [t \in Requests |-> FALSE]
    /\ table = {}
    /\ cur = 0 /\ rc = "ok" /\ proc = NoProc
    /\ files = [t \in Requests |-> {}]
    /\ killer = NoKiller
    /\ served = [t \in Requests |-> 0]

\* g_jobs_mtx is held for a whole /unload.
TableFree == ~killer.all

Goto(t, l) == pc' = [pc EXCEPT ![t] = l]

-----------------------------------------------------------------------------
(* Handlers.                                                               *)

\* A handler parses the request, saves the uploads, and refuses it or goes on to
\* respond_compute: job_submit for a client that polls, or the work itself.
respond_compute(t) ==
    \E o \in Forms, g \in Gpus \cup {NoGpu} :
        /\ pc[t] = "none" /\ \A u \in Requests : u < t => pc[u] # "none"
        /\ o.named /\ g # NoGpu => ~Locked
        /\ g_next_gpu' = IF g = NoGpu \/ ~o.named THEN g_next_gpu ELSE g
        /\ req' = [req EXCEPT ![t] = o]
        /\ files' = [files EXCEPT ![t] = o.files]
        /\ IF ~o.ok
           THEN Goto(t, "ended") /\ UNCHANGED table
           ELSE IF o.sync
                THEN Goto(t, "lock") /\ UNCHANGED table
                ELSE Goto(t, "start") /\ TableFree /\ table' = table \cup {t}
        /\ UNCHANGED <<isolation, g_wk_pid, g_wk_gpu, g_wk_busy, recent, watchdog, kids, disp,
                       status, cancel, pid, result, cur, rc, proc, killer, served>>

\* job_cancel, called for the jobs of killer.todo one after the other.
CancelFlag ==
    /\ killer.pc = "next" /\ killer.todo # {}
    /\ \E t \in killer.todo :
          IF status[t] \in {"PENDING", "RUNNING"}
          THEN /\ cancel' = [cancel EXCEPT ![t] = TRUE]
               /\ killer' = [killer EXCEPT !.pc = "pid", !.todo = @ \ {t}, !.job = t]
          ELSE /\ killer' = [killer EXCEPT !.todo = @ \ {t}]
               /\ UNCHANGED cancel
    /\ UNCHANGED <<workerVars, req, pc, status, pid, result, table, cur, rc, proc, files,
                   served>>

\* The pid, if the job's thread has published one, is sent SIGKILL.
CancelKill ==
    /\ killer.pc = "pid"
    /\ proc' = IF cur = killer.job /\ pid[cur] # "none" /\ proc.st = "running"
               THEN [proc EXCEPT !.st = "killed"] ELSE proc
    /\ killer' = [killer EXCEPT !.pc = IF isolation THEN "worker" ELSE "next", !.job = 0]
    /\ UNCHANGED <<workerVars, req, pc, status, cancel, pid, result, table, cur, rc, files,
                   served>>

\* The warm worker goes whatever it was doing, and for whom.
CancelWorker ==
    /\ killer.pc = "worker"
    /\ WorkerUnload
    /\ killer' = [killer EXCEPT !.pc = "next"]
    /\ UNCHANGED <<req, pc, status, cancel, pid, result, table, cur, rc, proc, files, served>>

\* /unload ends by taking the worker down once more, with g_jobs_mtx released.
CancelDone ==
    /\ killer.pc = "next" /\ killer.todo = {}
    /\ killer' = [killer EXCEPT !.pc = IF killer.all /\ isolation THEN "last" ELSE "idle",
                                !.all = FALSE]
    /\ UNCHANGED <<workerVars, req, pc, status, cancel, pid, result, table, cur, rc, proc,
                   files, served>>

UnloadWorker ==
    /\ killer.pc = "last"
    /\ WorkerUnload
    /\ killer' = [killer EXCEPT !.pc = "idle"]
    /\ UNCHANGED <<req, pc, status, cancel, pid, result, table, cur, rc, proc, files, served>>

\* GET /job?cancel=1 finds one job, POST /unload goes through the table.
handle_cancel ==
    /\ killer.pc = "idle" /\ killer.left > 0
    /\ \E t \in table : killer' = [killer EXCEPT !.pc = "next", !.todo = {t}, !.left = @ - 1]
    /\ UNCHANGED <<workerVars, req, pc, status, cancel, pid, result, table, cur, rc, proc,
                   files, served>>

handle_unload ==
    /\ killer.pc = "idle" /\ killer.left > 0
    /\ killer' = [killer EXCEPT !.pc = "next", !.todo = table, !.all = TRUE, !.left = @ - 1]
    /\ UNCHANGED <<workerVars, req, pc, status, cancel, pid, result, table, cur, rc, proc,
                   files, served>>

\* Copies the bytes instead of taking them.
handle_downloadBug(t) ==
    /\ TableFree /\ t \in table /\ status[t] = "DONE"
    /\ served' = [served EXCEPT ![t] = IF result[t] THEN @ + 1 ELSE @]
    /\ UNCHANGED <<workerVars, req, pc, status, cancel, pid, result, table, cur, rc, proc,
                   files, killer>>

\* GET /job?download=1.  DONE is final, so that only the swap of the bytes, under
\* the mutex, matters: whoever comes second gets 410.
handle_download(t) ==
    /\ TableFree /\ t \in table /\ status[t] = "DONE"
    /\ served' = [served EXCEPT ![t] = IF result[t] THEN @ + 1 ELSE @]
    /\ result' = [result EXCEPT ![t] = FALSE]
    /\ UNCHANGED <<workerVars, req, pc, status, cancel, pid, table, cur, rc, proc, files,
                   killer>>

\* The reaper, long after: ended jobs leave the table, and their bytes with them.
jobs_reaper(t) ==
    /\ TableFree /\ t \in table /\ status[t] \in Ended
    /\ table' = table \ {t}
    /\ result' = [result EXCEPT ![t] = FALSE]
    /\ UNCHANGED <<workerVars, req, pc, status, cancel, pid, cur, rc, proc, files,
                   killer, served>>

-----------------------------------------------------------------------------
(* job_run, and the same steps of a handler whose client waits.            *)

\* A job cancelled before it starts returns at once, before the unlinks.
RunStart(t) ==
    /\ pc[t] = "start"
    /\ IF cancel[t]
       THEN status' = [status EXCEPT ![t] = "CANCELLED"] /\ Goto(t, "ended")
       ELSE UNCHANGED status /\ Goto(t, "lock")
    /\ UNCHANGED <<workerVars, req, cancel, pid, result, table, cur, rc, proc, files, killer,
                   served>>

\* Returns with the mutex in its hands.
RunLockedBug(t) ==
    /\ pc[t] = "lock" /\ cur = 0
    /\ cur' = t
    /\ IF ~req[t].sync /\ cancel[t]
       THEN status' = [status EXCEPT ![t] = "CANCELLED"] /\ Goto(t, "ended")
       ELSE /\ status' = IF req[t].sync THEN status ELSE [status EXCEPT ![t] = "RUNNING"]
            /\ Goto(t, IF req[t].pre THEN "fork" ELSE "dispatch")
    /\ UNCHANGED <<workerVars, req, cancel, pid, result, table, rc, proc, files, killer,
                   served>>

\* A handler whose client waits takes no mutex.
RunLockedSyncBug(t) ==
    /\ pc[t] = "lock" /\ (cur = 0 \/ req[t].sync)
    /\ cur' = t
    /\ status' = IF req[t].sync THEN status ELSE [status EXCEPT ![t] = "RUNNING"]
    /\ Goto(t, IF req[t].pre THEN "fork" ELSE "dispatch")
    /\ UNCHANGED <<workerVars, req, cancel, pid, result, table, rc, proc, files, killer,
                   served>>

\* So does one that was cancelled while it waited for the GPU.
RunLocked(t) ==
    /\ pc[t] = "lock" /\ cur = 0
    /\ IF ~req[t].sync /\ cancel[t]
       THEN status' = [status EXCEPT ![t] = "CANCELLED"] /\ Goto(t, "ended") /\ UNCHANGED cur
       ELSE /\ status' = IF req[t].sync THEN status ELSE [status EXCEPT ![t] = "RUNNING"]
            /\ Goto(t, IF req[t].pre THEN "fork" ELSE "dispatch")
            /\ cur' = t
    /\ UNCHANGED <<workerVars, req, cancel, pid, result, table, rc, proc, files, killer, served>>

Stage(t) == IF pc[t] = "fork" THEN "pre" ELSE "main"

\* run_subprocess: fork; publish the pid; wait; retract it.
Fork(t) ==
    /\ pc[t] = "fork" \/ (pc[t] = "dispatch" /\ ~isolation)
    /\ proc.st = "none"
    /\ proc' = [st |-> "running", stage |-> Stage(t)]
    /\ Goto(t, "publish")
    /\ UNCHANGED <<workerVars, req, status, cancel, pid, result, table, cur, rc, files, killer,
                   served>>

ForkFails(t) ==
    /\ pc[t] = "fork" \/ (pc[t] = "dispatch" /\ ~isolation)
    /\ rc' = "lost"
    /\ Goto(t, "finish")
    /\ UNCHANGED <<workerVars, req, status, cancel, pid, result, table, cur, proc, files, killer,
                   served>>

\* Only jobs have a place for the pid: a client that waits cannot be cancelled.
Publish(t) ==
    /\ pc[t] = "publish"
    /\ pid' = IF req[t].sync THEN pid ELSE [pid EXCEPT ![t] = proc.stage]
    /\ Goto(t, "wait")
    /\ UNCHANGED <<workerVars, req, status, cancel, result, table, cur, rc, proc, files, killer,
                   served>>

\* The child writes its output when it succeeds.
ProcExits(code) ==
    /\ proc.st = "running"
    /\ proc' = [proc EXCEPT !.st = code]
    /\ files' = IF code = "ok"
                THEN [files EXCEPT ![cur] = @ \cup Written(req[cur], proc.stage)]
                ELSE files
    /\ UNCHANGED <<workerVars, req, pc, status, cancel, pid, result, table, cur, rc, killer,
                   served>>

Reap(t) ==
    /\ pc[t] = "wait" /\ proc.st \in {"ok", "failed", "killed"}
    /\ rc' = IF proc.st = "killed" THEN "lost" ELSE proc.st
    /\ proc' = [proc EXCEPT !.st = "none", !.stage = "none"]
    /\ Goto(t, IF proc.stage = "pre" THEN "retract_pre" ELSE "retract")
    /\ UNCHANGED <<workerVars, req, status, cancel, pid, result, table, cur, files, killer,
                   served>>

\* The render follows a separation that succeeded and was not cancelled.
Retract(t) ==
    /\ pc[t] \in {"retract_pre", "retract"}
    /\ pid' = [pid EXCEPT ![t] = "none"]
    /\ Goto(t, IF /\ pc[t] = "retract_pre" /\ req[t].main /\ rc = "ok"
                  /\ req[t].sync \/ ~cancel[t]
               THEN "dispatch" ELSE "finish")
    /\ UNCHANGED <<workerVars, req, status, cancel, result, table, cur, rc, proc, files, killer,
                   served>>

\* dispatch_remote, from its call to its return.
Remote(t) ==
    /\ pc[t] = "dispatch" /\ isolation
    /\ disp' = [Idle EXCEPT !.pc = "ensure", !.run = t]
    /\ Goto(t, "remote")
    /\ UNCHANGED <<isolation, g_wk_pid, g_wk_gpu, g_next_gpu, g_wk_busy, recent, watchdog, kids,
                   req, status, cancel, pid, result, table, cur, rc, proc, files, killer,
                   served>>

RemoteReturns(t) ==
    /\ pc[t] = "remote" /\ disp.pc = "done"
    /\ rc' = disp.rc
    /\ disp' = Idle
    /\ Goto(t, "finish")
    /\ UNCHANGED <<isolation, g_wk_pid, g_wk_gpu, g_next_gpu, g_wk_busy, recent, watchdog, kids,
                   req, status, cancel, pid, result, table, cur, proc, files, killer, served>>

\* The mutex is released before the outcome is decided.
Unlock(t) ==
    /\ pc[t] = "finish"
    /\ cur' = 0 /\ rc' = "ok"
    /\ Goto(t, IF rc = "ok" THEN "publish_ok" ELSE "publish_bad")
    /\ UNCHANGED <<workerVars, req, status, cancel, pid, result, table, proc, files, killer,
                   served>>

\* What the client gets, and then the unlinks.  (Nobody else looks at the files.)
FinalStatus(t) ==
    /\ pc[t] \in {"publish_ok", "publish_bad"}
    /\ LET ok == pc[t] = "publish_ok" /\ Output(req[t]) \subseteq files[t]
       IN  IF req[t].sync
           THEN /\ served' = [served EXCEPT ![t] = IF ok THEN 1 ELSE 0]
                /\ UNCHANGED <<status, result>>
           ELSE /\ status' = [status EXCEPT ![t] = IF cancel[t] THEN "CANCELLED"
                                                   ELSE IF ok THEN "DONE" ELSE "FAILED"]
                /\ result' = [result EXCEPT ![t] = ~cancel[t] /\ ok]
                /\ UNCHANGED served
    /\ files' = [files EXCEPT ![t] = @ \ (Output(req[t]) \cup req[t].cleanup)]
    /\ Goto(t, "ended")
    /\ UNCHANGED <<workerVars, req, cancel, pid, table, cur, rc, proc, killer>>

\* A render in the warm worker writes its output before it replies.
Replies(p, code) ==
    /\ KidReplies(p, code)
    /\ files' = IF code = "ok"
                THEN [files EXCEPT ![kids[p].run] = @ \cup Output(req[kids[p].run])]
                ELSE files
    /\ UNCHANGED <<req, pc, status, cancel, pid, result, table, cur, rc, proc, killer, served>>

-----------------------------------------------------------------------------
Thread(t) ==
    \/ RunStart(t) \/ RunLocked(t) \/ Fork(t) \/ ForkFails(t) \/ Publish(t) \/ Reap(t)
    \/ Retract(t) \/ Remote(t) \/ RemoteReturns(t) \/ Unlock(t) \/ FinalStatus(t)

Dispatcher ==
    (DispatchWarm \/ DispatchSpawn \/ Hello \/ HelloFails \/ Recv \/ Settle) /\ UNCHANGED jobVars

Proc == \E code \in {"ok", "failed"} : ProcExits(code)

Kid(p) ==
    \/ KidHello(p) /\ UNCHANGED jobVars
    \/ \E code \in {"ok", "failed"} : Replies(p, code)
    \/ KidDies(p) /\ UNCHANGED jobVars

Killer ==
    CancelFlag \/ CancelKill \/ CancelWorker \/ CancelDone \/ UnloadWorker

Watchdog == WatchdogActs /\ UNCHANGED jobVars

Next ==
    \/ \E t \in Requests : Thread(t) \/ respond_compute(t)
    \/ \E t \in Requests : handle_download(t) \/ jobs_reaper(t)
    \/ handle_cancel \/ handle_unload \/ Killer
    \/ Dispatcher \/ Proc \/ Watchdog
    \/ (WatchdogLook \/ Elapse) /\ UNCHANGED jobVars
    \/ \E p \in Pids : Kid(p)

\* Threads run, processes end.  Nothing is assumed of clients, of the watchdog's
\* first look, or of the time that passes.
Fairness ==
    /\ \A t \in Requests : WF_vars(Thread(t))
    /\ WF_vars(Dispatcher) /\ WF_vars(Proc) /\ WF_vars(Killer) /\ WF_vars(Watchdog)
    /\ \A p \in Pids : WF_vars(Kid(p))

Spec == Init /\ [][Next]_vars /\ Fairness

-----------------------------------------------------------------------------
(* Properties.                                                             *)

\* Two renders, or a render and a separation, are never in video memory together,
\* whoever cancels, unloads or relocates: every kill waits for the process to be
\* gone before the next one may start.
OneRenderAlive ==
    Cardinality({p \in Pids : kids[p].st = "rendering"})
        + (IF proc.st = "running" THEN 1 ELSE 0) <= 1

\* The bytes of a job are sent once at most, however many downloads race, and
\* only those of a job that ended DONE.
ServedOnce ==
    \A t \in Requests : /\ served[t] <= 1
                        /\ served[t] = 1 /\ ~req[t].sync => status[t] = "DONE"

\* Cancelled, killed, crashed or refused, in the queue or at the GPU: every request
\* is answered in the end, and the GPU lock passes on.  (Requests are finitely many
\* and what has ended stays so: to have none under way again and again is to have
\* each of them end.)
EveryRequestEnds == []<>(\A t \in Requests : pc[t] \in {"none", "ended"})

\* The uploads and the output of a job that ended DONE or FAILED, and of every
\* request with ?wait=1, are unlinked when it ends, and no process it left behind
\* writes them again.  (Nothing is said of a CANCELLED job: one cancelled before it
\* had the GPU keeps its uploads, because job_run returns before the unlinks.)
FilesGone ==
    \A t \in Requests :
        pc[t] = "ended" /\ (req[t].sync \/ status[t] \in {"DONE", "FAILED"}) => files[t] = {}

\* A result reaches its client once and nothing of it stays on disk.
OutputIsHandedOver == ServedOnce /\ FilesGone
=============================================================================
