-------------------------- MODULE WorkerIsolation ---------------------------
(***************************************************************************)
(* ace-server with worker isolation (src/tools/ace-server.cpp): the parent *)
(* owns no GPU context.  Its worker thread sends each job as a RUN frame   *)
(* over a DATA socket to a child process it forks on demand, and waits for *)
(* the RESULT; cancels go over a CONTROL socket that a thread of the child *)
(* reads.  /unload and an idle watchdog kill the child at any time, and it *)
(* may crash at any time.                                                  *)
(*                                                                         *)
(* g_wk_mtx guards the parent's view of the child.  Critical sections are  *)
(* single steps, except the one that blocks for HELLO under the lock.      *)
(***************************************************************************)
EXTENDS Integers, Sequences, FiniteSets

CONSTANTS
    Submits,     \* bound: jobs submitted
    Spawns,      \* bound: children forked (further forks fail)
    Crashes,     \* bound: crashes of a child
    Gpu,         \* the GPU targets a request may carry
    DefaultGpu,  \* WORKER_DEFAULT_GPU
    None

ASSUME WorkerIsolationAssumption ==
    /\ Submits \in Nat /\ Spawns \in Nat /\ Crashes \in Nat
    /\ None \notin Gpu \cup {DefaultGpu} /\ None \notin 1..Submits

Job == 1..Submits
Pid == 1..Spawns
NoPid == 0          \* g_wk_pid = -1

VARIABLES
    clients,        \* requests are under way or still to come
    \* parent: jobs and queue
    created,        \* jobs created, numbered in order of creation
    wants,          \* job -> the `gpu` of its request, or None
    status, cancel, \* job -> JobStatus, cancel flag
    result,         \* job -> the job whose output is in result_body, or None
    submitting,     \* handlers between ace_parse_gpu_target and work_push
    cancelling,     \* job -> how far its cancel handler is: no, seen, stored
    g_work_queue,
    \* parent: the worker child, under g_wk_mtx
    g_next_gpu, g_wk_pid, g_wk_gpu, g_wk_busy,
    stale,          \* g_idle_unload_seconds have passed since g_wk_last_activity
    disp,           \* the worker thread in dispatch_remote
    watchdog,       \* sleeping, or past its unlocked checks
    \* the children and their sockets
    child, forked, crashed

jobVars    == <<clients, created, wants, submitting, g_work_queue>>
statusVars == <<status, result>>
cancelVars == <<cancel, cancelling>>
wkVars     == <<g_wk_pid, g_wk_gpu>>
idleVars   == <<g_wk_busy, stale>>
childVars  == <<child, forked, crashed>>
vars == <<jobVars, statusVars, cancelVars, g_next_gpu, wkVars, idleVars, disp,
          watchdog, childVars>>

Ended == {"DONE", "FAILED", "CANCELLED"}

\* A frame from the child; a Job of the child is named by the parent's job.
NoFrame == [type |-> "none", job |-> None, status |-> "none"]
Hello   == [NoFrame EXCEPT !.type = "HELLO"]
Result(j, s) == [type |-> "RESULT", job |-> j, status |-> s]

\* st: none, booting, serving, computing, replying, dead, reaped.
NoChild == [st |-> "none", inbox |-> None, job |-> None, flag |-> FALSE, active |-> FALSE,
            end |-> "none", ctrl |-> 0, loaded |-> None, out |-> NoFrame]

LiveState == {"booting", "serving", "computing", "replying"}
Live(p) == p \in Pid /\ child[p].st \in LiveState

IdleDisp == [pc |-> "idle", job |-> None, pid |-> NoPid, gpu |-> None, got |-> NoFrame]
DispPc == {"idle", "ensure", "hello", "recv", "got", "store", "publish", "lost"}

\* Blocked for HELLO, the worker thread keeps g_wk_mtx.
Unlocked == disp.pc # "hello"

Frame == [type : {"none", "HELLO", "RESULT"}, job : Job \cup {None},
          status : Ended \cup {"none"}]

TypeOK ==
    /\ clients \in BOOLEAN
    /\ created \in 0..Submits
    /\ wants \in [Job -> Gpu \cup {None}]
    /\ status \in [Job -> {"RUNNING"} \cup Ended]
    /\ cancel \in [Job -> BOOLEAN]
    /\ result \in [Job -> Job \cup {None}]
    /\ submitting \subseteq 1..created
    /\ cancelling \in [Job -> {"no", "seen", "stored"}]
    /\ g_work_queue \in Seq(Job)
    /\ g_next_gpu \in Gpu \cup {None}
    /\ g_wk_pid \in Pid \cup {NoPid}
    /\ g_wk_gpu \in Gpu \cup {DefaultGpu, None}
    /\ g_wk_busy \in BOOLEAN /\ stale \in BOOLEAN
    /\ disp \in [pc : DispPc, job : Job \cup {None}, pid : Pid \cup {NoPid},
                 gpu : Gpu \cup {DefaultGpu, None}, got : Frame]
    /\ watchdog \in {"sleeping", "armed"}
    /\ forked \in 0..Spawns /\ crashed \in 0..Crashes
    /\ child \in [Pid -> [st : LiveState \cup {"none", "dead", "reaped"},
                          inbox : Job \cup {None}, job : Job \cup {None},
                          flag : BOOLEAN, active : BOOLEAN, end : Ended \cup {"none"},
                          ctrl : 0..Submits, loaded : Job \cup {None}, out : Frame]]

Init ==
    /\ clients = TRUE
    /\ created = 0 /\ submitting = {} /\ g_work_queue = <<>>
    /\ wants = [j \in Job |-> None]
    /\ status = [j \in Job |-> "RUNNING"] /\ result = [j \in Job |-> None]
    /\ cancel = [j \in Job |-> FALSE] /\ cancelling = [j \in Job |-> "no"]
    /\ g_next_gpu = None /\ g_wk_pid = NoPid /\ g_wk_gpu = None
    /\ g_wk_busy = FALSE /\ stale = FALSE
    /\ disp = IdleDisp /\ watchdog = "sleeping"
    /\ child = [p \in Pid |-> NoChild] /\ forked = 0 /\ crashed = 0
-----------------------------------------------------------------------------
(***************************************************************************)
(* Handlers.  job_create and work_push are one step here (JobServer tells  *)
(* them apart); the GPU target of the request is set before both.          *)
(* Before its handler runs, each request touches the idle clock.           *)
(***************************************************************************)
\* The pre-routing handler: worker_touch for every request.
Touch == clients /\ stale' = FALSE

\* A request whose handler changes nothing more: a poll, the result, the logs,
\* /health, /props, /unload without a child, a rejected submit, ...
AnyRequest ==
    /\ stale /\ Touch
    /\ UNCHANGED <<jobVars, statusVars, cancelVars, g_next_gpu, wkVars, g_wk_busy, disp,
                   watchdog, childVars>>

\* The last request was answered (there need be no last one).
ClientsLeave ==
    /\ clients /\ submitting = {} /\ \A j \in Job : cancelling[j] = "no"
    /\ clients' = FALSE
    /\ UNCHANGED <<created, wants, submitting, g_work_queue, statusVars, cancelVars,
                   g_next_gpu, wkVars, idleVars, disp, watchdog, childVars>>

\* ace_parse_gpu_target: the target goes to a global, whatever becomes of the
\* request afterwards.
ParseGpuTarget(g) ==
    /\ Touch
    /\ created < Submits /\ Unlocked
    /\ created' = created + 1
    /\ wants' = [wants EXCEPT ![created + 1] = g]
    /\ submitting' = submitting \cup {created + 1}
    /\ g_next_gpu' = IF g = None THEN g_next_gpu ELSE g
    /\ UNCHANGED <<clients, g_work_queue, statusVars, cancelVars, wkVars, g_wk_busy, disp,
                   watchdog, childVars>>

WorkPush(j) ==
    /\ j \in submitting
    /\ submitting' = submitting \ {j}
    /\ g_work_queue' = Append(g_work_queue, j)
    /\ UNCHANGED <<clients, created, wants, statusVars, cancelVars, g_next_gpu, wkVars,
                   idleVars, disp, watchdog, childVars>>

\* Known to its client, and not ended (bound: one cancel a job).
CancelLoad(j) ==
    /\ Touch
    /\ j \in (1..created) \ submitting
    /\ cancelling[j] = "no" /\ ~ cancel[j] /\ status[j] = "RUNNING"
    /\ cancelling' = [cancelling EXCEPT ![j] = "seen"]
    /\ UNCHANGED <<jobVars, statusVars, cancel, g_next_gpu, wkVars, g_wk_busy, disp,
                   watchdog, childVars>>

CancelStore(j) ==
    /\ cancelling[j] = "seen"
    /\ cancel' = [cancel EXCEPT ![j] = TRUE]
    /\ cancelling' = [cancelling EXCEPT ![j] = "stored"]
    /\ UNCHANGED <<jobVars, statusVars, g_next_gpu, wkVars, idleVars, disp, watchdog,
                   childVars>>

\* worker_forward_cancel: a CANCEL frame without a job id, to whichever child
\* there is; a write to a dead one fails unnoticed.
ForwardCancel(j) ==
    /\ cancelling[j] = "stored" /\ Unlocked
    /\ cancelling' = [cancelling EXCEPT ![j] = "no"]
    /\ child' = IF Live(g_wk_pid) THEN [child EXCEPT ![g_wk_pid].ctrl = @ + 1] ELSE child
    /\ UNCHANGED <<jobVars, statusVars, cancel, g_next_gpu, wkVars, idleVars, disp,
                   watchdog, forked, crashed>>
-----------------------------------------------------------------------------
(***************************************************************************)
(* kill_worker_locked and its callers outside dispatch_remote              *)
(***************************************************************************)
\* The children once the worker was killed, waited for and its sockets closed.
Reaped(p) == [child EXCEPT ![p] = [NoChild EXCEPT !.st = "reaped"]]
Killed == IF g_wk_pid = NoPid THEN child ELSE Reaped(g_wk_pid)

KillWorker ==
    /\ child' = Killed
    /\ g_wk_pid' = NoPid
    /\ UNCHANGED <<g_wk_gpu, forked, crashed>>

\* worker_unload: POST /unload, and the end of main.
Unload ==
    /\ Unlocked /\ g_wk_pid # NoPid
    /\ KillWorker
    /\ Touch \/ UNCHANGED stale
    /\ UNCHANGED <<jobVars, statusVars, cancelVars, g_next_gpu, g_wk_busy, disp, watchdog>>

\* The clock of the idle threshold.
TimePasses ==
    /\ ~ stale
    /\ stale' = TRUE
    /\ UNCHANGED <<jobVars, statusVars, cancelVars, g_next_gpu, wkVars, g_wk_busy, disp,
                   watchdog, childVars>>

\* worker_watchdog_main looks without the lock ...
WatchdogArm ==
    /\ watchdog = "sleeping" /\ ~ g_wk_busy /\ stale
    /\ watchdog' = "armed"
    /\ UNCHANGED <<jobVars, statusVars, cancelVars, g_next_gpu, wkVars, idleVars, disp,
                   childVars>>

\* (A ...Bug operator is a plausible mistake in the definition that follows,
\* there to show which property would notice it.)
WatchdogFireUncheckedBug ==
    /\ watchdog = "armed" /\ Unlocked
    /\ watchdog' = "sleeping"
    /\ KillWorker
    /\ UNCHANGED <<jobVars, statusVars, cancelVars, g_next_gpu, idleVars, disp>>

\* ... and once more with it, before it kills.
WatchdogFire ==
    /\ watchdog = "armed" /\ Unlocked
    /\ watchdog' = "sleeping"
    /\ IF g_wk_pid # NoPid /\ ~ g_wk_busy /\ stale
       THEN KillWorker
       ELSE UNCHANGED <<wkVars, childVars>>
    /\ UNCHANGED <<jobVars, statusVars, cancelVars, g_next_gpu, idleVars, disp>>
-----------------------------------------------------------------------------
(***************************************************************************)
(* The parent's worker thread: worker_main, run_*, dispatch_remote         *)
(***************************************************************************)
DispKeeps == <<clients, created, wants, submitting, cancelVars, g_next_gpu, watchdog>>

Take ==
    /\ disp.pc = "idle" /\ g_work_queue # <<>>
    /\ disp' = [IdleDisp EXCEPT !.pc = "ensure", !.job = Head(g_work_queue)]
    /\ g_work_queue' = Tail(g_work_queue)
    /\ UNCHANGED <<DispKeeps, statusVars, wkVars, idleVars, childVars>>

\* The job ends with status s and the thread takes the next one.
Settle(s) ==
    /\ status' = [status EXCEPT ![disp.job] = s]
    /\ disp' = IdleDisp

WantGpu == IF g_next_gpu = None THEN DefaultGpu ELSE g_next_gpu

\* RUN goes to child p of `ch`, or finds it dead: then it is reaped.
SendRun(p, g, ch) ==
    IF ch[p].st \in LiveState
    THEN /\ child' = [ch EXCEPT ![p].inbox = disp.job]
         /\ g_wk_pid' = p /\ g_wk_gpu' = g
         /\ g_wk_busy' = TRUE
         /\ disp' = [disp EXCEPT !.pc = "recv", !.pid = p, !.gpu = None]
         /\ UNCHANGED <<statusVars, stale>>
    ELSE /\ child' = [ch EXCEPT ![p] = [NoChild EXCEPT !.st = "reaped"]]
         /\ g_wk_pid' = NoPid /\ g_wk_gpu' = g
         /\ g_wk_busy' = FALSE /\ stale' = FALSE
         /\ Settle("FAILED")
         /\ UNCHANGED result

\* ensure_worker_locked: the child there is serves if it is on the right GPU.
Usable == g_wk_pid # NoPid /\ g_wk_gpu = WantGpu

EnsureReuses ==
    /\ disp.pc = "ensure" /\ Usable
    /\ SendRun(g_wk_pid, g_wk_gpu, child)
    /\ UNCHANGED <<DispKeeps, g_work_queue, forked, crashed>>

EnsureSpawnsKeepingOldBug ==
    /\ disp.pc = "ensure" /\ ~ Usable /\ forked < Spawns
    /\ forked' = forked + 1
    /\ child' = [child EXCEPT ![forked + 1].st = "booting"]
    /\ g_wk_pid' = NoPid
    /\ disp' = [disp EXCEPT !.pc = "hello", !.pid = forked + 1, !.gpu = WantGpu]
    /\ UNCHANGED <<DispKeeps, g_work_queue, statusVars, idleVars, g_wk_gpu, crashed>>

\* Otherwise it is killed and another one forked; then the thread waits for
\* HELLO and keeps the lock.
EnsureSpawns ==
    /\ disp.pc = "ensure" /\ ~ Usable /\ forked < Spawns
    /\ forked' = forked + 1
    /\ child' = [Killed EXCEPT ![forked + 1].st = "booting"]
    /\ g_wk_pid' = NoPid
    /\ disp' = [disp EXCEPT !.pc = "hello", !.pid = forked + 1, !.gpu = WantGpu]
    /\ UNCHANGED <<DispKeeps, g_work_queue, statusVars, idleVars, g_wk_gpu, crashed>>

\* socketpair or fork failed.
EnsureFails ==
    /\ disp.pc = "ensure" /\ ~ Usable
    /\ KillWorker
    /\ Settle("FAILED")
    /\ UNCHANGED <<DispKeeps, g_work_queue, result, idleVars>>

HelloArrives ==
    /\ disp.pc = "hello" /\ child[disp.pid].out = Hello
    /\ SendRun(disp.pid, disp.gpu, [child EXCEPT ![disp.pid].out = NoFrame])
    /\ UNCHANGED <<DispKeeps, g_work_queue, forked, crashed>>

\* The child died before it said HELLO.
HelloFails ==
    /\ disp.pc = "hello" /\ child[disp.pid].st = "dead" /\ child[disp.pid].out # Hello
    /\ child' = Reaped(disp.pid)
    /\ Settle("FAILED")
    /\ UNCHANGED <<DispKeeps, g_work_queue, result, wkVars, idleVars, forked, crashed>>

RecvGivesUpOnCancelBug ==
    /\ disp.pc = "recv" /\ (cancel[disp.job] \/ child[disp.pid].out.type = "RESULT")
    /\ disp' = [disp EXCEPT !.pc = "got",
                  !.got = IF child[disp.pid].out.type = "RESULT" THEN child[disp.pid].out
                          ELSE Result(disp.job, "CANCELLED")]
    /\ child' = IF child[disp.pid].out.type = "RESULT"
                THEN [child EXCEPT ![disp.pid].out = NoFrame] ELSE child
    /\ UNCHANGED <<DispKeeps, g_work_queue, statusVars, wkVars, idleVars, forked, crashed>>

\* What a child wrote before it died can still be read.
RecvResult ==
    /\ disp.pc = "recv" /\ child[disp.pid].out.type = "RESULT"
    /\ disp' = [disp EXCEPT !.pc = "got", !.got = child[disp.pid].out]
    /\ child' = [child EXCEPT ![disp.pid].out = NoFrame]
    /\ UNCHANGED <<DispKeeps, g_work_queue, statusVars, wkVars, idleVars, forked, crashed>>

\* End of file, or the descriptor was closed under the reader.
RecvFails ==
    /\ disp.pc = "recv"
    /\ child[disp.pid].st \in {"dead", "reaped"} /\ child[disp.pid].out = NoFrame
    /\ disp' = [disp EXCEPT !.pc = "lost"]
    /\ UNCHANGED <<DispKeeps, g_work_queue, statusVars, wkVars, idleVars, childVars>>

FinishGotStaysBusyBug ==
    /\ disp.pc = "got"
    /\ disp' = [disp EXCEPT !.pc = "store"]
    /\ UNCHANGED <<DispKeeps, g_work_queue, statusVars, wkVars, idleVars, childVars>>

FinishGot ==
    /\ disp.pc = "got"
    /\ g_wk_busy' = FALSE /\ stale' = FALSE
    /\ disp' = [disp EXCEPT !.pc = "store"]
    /\ UNCHANGED <<DispKeeps, g_work_queue, statusVars, wkVars, childVars>>

FinishLostNotFinalBug ==
    /\ disp.pc = "lost"
    /\ g_wk_busy' = FALSE /\ stale' = FALSE
    /\ IF g_wk_pid = disp.pid THEN KillWorker ELSE UNCHANGED <<wkVars, childVars>>
    /\ disp' = IdleDisp
    /\ UNCHANGED <<DispKeeps, g_work_queue, status, result>>

\* The child is gone; reset, unless somebody else did.
FinishLost ==
    /\ disp.pc = "lost"
    /\ g_wk_busy' = FALSE /\ stale' = FALSE
    /\ IF g_wk_pid = disp.pid THEN KillWorker ELSE UNCHANGED <<wkVars, childVars>>
    /\ Settle(IF cancel[disp.job] THEN "CANCELLED" ELSE "FAILED")
    /\ UNCHANGED <<DispKeeps, g_work_queue, result>>

StoreResult ==
    /\ disp.pc = "store"
    /\ result' = [result EXCEPT ![disp.job] = disp.got.job]
    /\ disp' = [disp EXCEPT !.pc = "publish"]
    /\ UNCHANGED <<DispKeeps, g_work_queue, status, wkVars, idleVars, childVars>>

Publish ==
    /\ disp.pc = "publish"
    /\ Settle(disp.got.status)
    /\ UNCHANGED <<DispKeeps, g_work_queue, result, wkVars, idleVars, childVars>>

Dispatcher ==
    \/ Take \/ EnsureReuses \/ EnsureSpawns \/ EnsureFails
    \/ HelloArrives \/ HelloFails \/ RecvResult \/ RecvFails
    \/ FinishGot \/ FinishLost \/ StoreResult \/ Publish
-----------------------------------------------------------------------------
(***************************************************************************)
(* The child: worker_run_loop and its CONTROL reader thread                *)
(***************************************************************************)
ChildKeeps == <<jobVars, statusVars, cancelVars, g_next_gpu, wkVars, idleVars, disp,
                watchdog, forked, crashed>>

ChildHello(p) ==
    /\ child[p].st = "booting"
    /\ child' = [child EXCEPT ![p].st = "serving", ![p].out = Hello]
    /\ UNCHANGED ChildKeeps

\* A fresh Job object, whose flag the CONTROL reader can reach from now on.
ChildRun(p) ==
    /\ child[p].st = "serving" /\ child[p].inbox # None
    /\ child' = [child EXCEPT ![p].st = "computing", ![p].job = child[p].inbox,
                              ![p].inbox = None, ![p].flag = FALSE, ![p].active = TRUE]
    /\ UNCHANGED ChildKeeps

\* The *_worker ends.  It may or may not have looked at the flag since it was
\* set (which worker looks when is JobServer's matter).
ChildEnds(p) ==
    /\ child[p].st = "computing" /\ child[p].active
    /\ \E s \in {"DONE", "FAILED"} \cup (IF child[p].flag THEN {"CANCELLED"} ELSE {}) :
          child' = [child EXCEPT ![p].st = "replying", ![p].end = s]
    /\ UNCHANGED ChildKeeps

\* g_child_active_cancel.store(nullptr)
ChildDeactivates(p) ==
    /\ child[p].st = "replying" /\ child[p].active
    /\ child' = [child EXCEPT ![p].active = FALSE]
    /\ UNCHANGED ChildKeeps

\* RESULT goes out; the Job object dies with the loop body.
ChildReplies(p) ==
    /\ child[p].st = "replying" /\ ~ child[p].active
    /\ child' = [child EXCEPT ![p].st = "serving", ![p].out = Result(child[p].job, child[p].end),
                              ![p].job = None, ![p].flag = FALSE, ![p].end = "none"]
    /\ UNCHANGED ChildKeeps

\* The reader takes a CANCEL and loads the pointer: to the flag of the active
\* job, if there is one.
ReaderLoads(p) ==
    /\ Live(p) /\ child[p].ctrl > 0 /\ child[p].loaded = None
    /\ child' = [child EXCEPT ![p].ctrl = @ - 1,
                              ![p].loaded = IF child[p].active THEN child[p].job ELSE None]
    /\ UNCHANGED ChildKeeps

\* It stores through the pointer.  If that Job is gone, the write goes to freed
\* memory: undefined, and where the next Job got the same place, its flag.
ReaderStores(p) ==
    /\ Live(p) /\ child[p].loaded # None
    /\ \E hit \in IF child[p].loaded = child[p].job THEN {TRUE}
                  ELSE IF child[p].job # None THEN BOOLEAN ELSE {FALSE} :
          child' = [child EXCEPT ![p].loaded = None, ![p].flag = @ \/ hit]
    /\ UNCHANGED ChildKeeps

\* Out of memory, a CUDA error, a failed assertion, ...
Crash(p) ==
    /\ Live(p) /\ crashed < Crashes
    /\ crashed' = crashed + 1
    /\ child' = [child EXCEPT ![p] = [NoChild EXCEPT !.st = "dead", !.out = child[p].out]]
    /\ UNCHANGED <<jobVars, statusVars, cancelVars, g_next_gpu, wkVars, idleVars, disp,
                   watchdog, forked>>

ChildStep(p) ==
    \/ ChildHello(p) \/ ChildRun(p) \/ ChildEnds(p)
    \/ ChildDeactivates(p) \/ ChildReplies(p)
ReaderStep(p) == ReaderLoads(p) \/ ReaderStores(p)

Next ==
    \/ \E g \in Gpu \cup {None} : ParseGpuTarget(g)
    \/ \E j \in Job : WorkPush(j) \/ CancelLoad(j) \/ CancelStore(j) \/ ForwardCancel(j)
    \/ Unload \/ AnyRequest \/ ClientsLeave
    \/ TimePasses \/ WatchdogArm \/ WatchdogFire
    \/ Dispatcher
    \/ \E p \in Pid : ChildStep(p) \/ ReaderStep(p) \/ Crash(p)

\* Threads and processes that can run do run; requests, cancels, unloads and
\* crashes may or may not come.  While somebody polls, the idle threshold may
\* never pass: it passes for certain only after the last request.
Fairness ==
    /\ \A j \in Job : WF_vars(WorkPush(j)) /\ WF_vars(CancelStore(j)) /\ WF_vars(ForwardCancel(j))
    /\ WF_vars(Dispatcher)
    /\ \A p \in Pid : WF_vars(ChildStep(p)) /\ WF_vars(ReaderStep(p))
    /\ WF_vars(~ clients /\ TimePasses) /\ WF_vars(WatchdogArm) /\ WF_vars(WatchdogFire)

Spec == Init /\ [][Next]_vars /\ Fairness
-----------------------------------------------------------------------------
(***************************************************************************)
(* Properties                                                              *)
(***************************************************************************)
Created == 1..created

\* Children that exist, the dead ones nobody waited for included.
Extant == {p \in Pid : child[p].st \notin {"none", "reaped"}}

\* No child is orphaned and two never share the GPUs: what exists is the one
\* child g_wk_pid, or the one whose HELLO is awaited.
OneKnownChild ==
    /\ Extant \subseteq {g_wk_pid} \cup (IF disp.pc = "hello" THEN {disp.pid} ELSE {})
    /\ Cardinality(Extant) <= 1

\* RESULT frames carry no job id: a job is given the output of its own RUN, and
\* never that of one before it that was cancelled, killed or given up.
ResultIsItsOwn ==
    \A j \in Created : status[j] = "DONE" => result[j] = j

\* The watchdog never takes the child away under a RUN in flight, however long
\* it waited for the lock.
WatchdogSparesBusy ==
    [][watchdog = "armed" /\ watchdog' = "sleeping" /\ disp.pc \in {"recv", "got"}
          => g_wk_pid' = g_wk_pid]_vars

\* Crash, unload or watchdog, whenever it strikes: the job that was dispatched
\* is finalized, and the ones behind it get their turn.  (Jobs are Submits at
\* most and an ended one stays ended: to have none running again and again is
\* to have each of them end.)
EveryJobEnds == []<>(\A j \in Created : status[j] # "RUNNING")

\* With nothing left to do and nobody left who asks, the child, and with it the
\* VRAM, is let go.  (A client that keeps polling keeps it warm: nothing is
\* promised then.)
NothingToDo == g_work_queue = <<>> /\ disp.pc = "idle" /\ submitting = {} /\ ~ clients
IdleFreesVram == NothingToDo ~> (Extant = {})

\* The same promise as without isolation: a job says cancelled only if its own
\* flag was set.  (The CANCEL frame carries no id, so it is not kept.)
CancelledWasAskedFor == \A j \in Created : status[j] = "CANCELLED" => cancel[j]
=============================================================================
