------------------------------ MODULE RenderWorker ------------------------------
(***************************************************************************)
(* The warm worker of sa3-server.cpp (songgen-server.cpp has the same one: *)
(* a render names its program there, nothing else differs).  A child,      *)
(* forked on demand, keeps the weights in VRAM from one render to the      *)
(* next.  Whoever wants the memory back kills it: a cancel, /unload, the   *)
(* idle watchdog, a request for another GPU.                               *)
(*                                                                         *)
(* One thread at a time dispatches (it holds g_compute_mtx).  g_wk_mtx is  *)
(* held while disp.pc = "hello" and in no other state.                     *)
(***************************************************************************)
EXTENDS Naturals, FiniteSets

CONSTANTS Spawns,     \* the children that can be forked; then fork fails
          Requests,   \* identities of requests
          Gpus,       \* GPU targets a request may name
          NoGpu       \* no target named: WORKER_DEFAULT_GPU

ASSUME SpawnsAssumption == Spawns \in Nat

VARIABLES isolation,      \* g_isolation, from the command line
          g_wk_pid,       \* the child the parent knows, 0 for none
          g_wk_gpu,       \* the GPU it was started on
          g_next_gpu,     \* the target the last request named
          g_wk_busy,
          recent,         \* g_wk_last_activity is younger than the limit
          watchdog,       \* "asleep", or "armed": it has seen an idle worker
          kids,           \* the children, in the order they were forked
          disp            \* the thread in dispatch_remote

workerVars == <<isolation, g_wk_pid, g_wk_gpu, g_next_gpu, g_wk_busy, recent, watchdog,
                kids, disp>>

Pids == 1 .. Spawns

\* A child: unborn, starting, idle, rendering or dead; the request it renders;
\* the frame in its socket (the return code, or none) and whether the parent
\* still has the descriptor.
Unborn == [st |-> "unborn", run |-> 0, reply |-> "none", open |-> FALSE]

Idle == [pc |-> "idle", run |-> 0, pid |-> 0, rc |-> "none"]

WorkerInit ==
    /\ isolation \in BOOLEAN
    /\ g_wk_pid = 0 /\ g_wk_gpu = NoGpu /\ g_next_gpu = NoGpu
    /\ g_wk_busy = FALSE /\ recent = TRUE /\ watchdog = "asleep"
    /\ kids = [p \in Pids |-> Unborn]
    /\ disp = Idle

Locked == disp.pc = "hello"

Alive(p) == kids[p].st \in {"starting", "idle", "rendering"}

-----------------------------------------------------------------------------
(* Parent.                                                                 *)

\* SIGKILL, waitpid and close: what is left of child p.
Killed(p) == [kids EXCEPT ![p].st = "dead", ![p].run = 0, ![p].open = FALSE]

kill_worker_locked ==
    /\ kids' = IF g_wk_pid = 0 THEN kids ELSE Killed(g_wk_pid)
    /\ g_wk_pid' = 0

\* The descriptor is the parent's until it kills the child; a child that died by
\* itself makes the write fail.
SendRun(p, K) ==
    IF K[p].st = "dead"
    THEN /\ kids' = [K EXCEPT ![p].open = FALSE]
         /\ g_wk_pid' = 0 /\ g_wk_busy' = FALSE /\ recent' = TRUE
         /\ disp' = [disp EXCEPT !.pc = "done", !.rc = "lost"]
    ELSE /\ kids' = [K EXCEPT ![p].st = "rendering", ![p].run = disp.run]
         /\ g_wk_pid' = p /\ g_wk_busy' = TRUE /\ UNCHANGED recent
         /\ disp' = [disp EXCEPT !.pc = "recv", !.pid = p]

\* The child is there and on the right GPU: the RUN frame goes out.
DispatchWarm ==
    /\ disp.pc = "ensure" /\ g_wk_pid # 0 /\ g_wk_gpu = g_next_gpu
    /\ SendRun(g_wk_pid, kids)
    /\ UNCHANGED <<isolation, g_wk_gpu, g_next_gpu, watchdog>>

\* No child, or one on another GPU, which is killed first: fork.
DispatchSpawn ==
    /\ disp.pc = "ensure" /\ ~(g_wk_pid # 0 /\ g_wk_gpu = g_next_gpu)
    /\ LET K == IF g_wk_pid = 0 THEN kids ELSE Killed(g_wk_pid)
           unborn == {p \in Pids : K[p].st = "unborn"}
       IN  IF unborn = {}
           THEN kids' = K /\ disp' = [disp EXCEPT !.pc = "done", !.rc = "lost"]
           ELSE LET p == CHOOSE q \in unborn : \A r \in unborn : q <= r
                IN  /\ kids' = [K EXCEPT ![p].st = "starting", ![p].open = TRUE]
                    /\ disp' = [disp EXCEPT !.pc = "hello", !.pid = p]
    /\ g_wk_pid' = 0
    /\ UNCHANGED <<isolation, g_wk_gpu, g_next_gpu, g_wk_busy, recent, watchdog>>

\* HELLO arrives; the same critical section sends the RUN.
Hello ==
    /\ disp.pc = "hello" /\ kids[disp.pid].st = "idle"
    /\ g_wk_gpu' = g_next_gpu
    /\ SendRun(disp.pid, kids)
    /\ UNCHANGED <<isolation, g_next_gpu, watchdog>>

\* The child ended before its HELLO.
HelloFails ==
    /\ disp.pc = "hello" /\ kids[disp.pid].st = "dead"
    /\ kids' = [kids EXCEPT ![disp.pid].open = FALSE]
    /\ disp' = [disp EXCEPT !.pc = "done", !.rc = "lost"]
    /\ UNCHANGED <<isolation, g_wk_pid, g_wk_gpu, g_next_gpu, g_wk_busy, recent, watchdog>>

\* RESULT, read without g_wk_mtx: a frame that was sent before the child was
\* killed may still be read, and the read fails once there is nobody to send one.
Recv ==
    /\ disp.pc = "recv"
    /\ \/ /\ kids[disp.pid].reply # "none"
          /\ disp' = [disp EXCEPT !.pc = "settle", !.rc = kids[disp.pid].reply]
          /\ kids' = [kids EXCEPT ![disp.pid].reply = "none"]
       \/ /\ kids[disp.pid].st = "dead" /\ (kids[disp.pid].reply = "none" \/ ~kids[disp.pid].open)
          /\ disp' = [disp EXCEPT !.pc = "settle", !.rc = "lost"]
          /\ UNCHANGED kids
    /\ UNCHANGED <<isolation, g_wk_pid, g_wk_gpu, g_next_gpu, g_wk_busy, recent, watchdog>>

Settle ==
    /\ disp.pc = "settle"
    /\ g_wk_busy' = FALSE /\ recent' = TRUE
    /\ IF disp.rc = "lost" /\ g_wk_pid = disp.pid
       THEN kill_worker_locked
       ELSE UNCHANGED <<kids, g_wk_pid>>
    /\ disp' = [disp EXCEPT !.pc = "done"]
    /\ UNCHANGED <<isolation, g_wk_gpu, g_next_gpu, watchdog>>

\* worker_unload: killed whatever it does.
WorkerUnload ==
    /\ ~Locked
    /\ kill_worker_locked
    /\ UNCHANGED <<isolation, g_wk_gpu, g_next_gpu, g_wk_busy, recent, watchdog, disp>>

\* The watchdog looks without the lock, and again under it.
WatchdogLook ==
    /\ isolation /\ watchdog = "asleep" /\ ~g_wk_busy /\ ~recent
    /\ watchdog' = "armed"
    /\ UNCHANGED <<isolation, g_wk_pid, g_wk_gpu, g_next_gpu, g_wk_busy, recent, kids, disp>>

WatchdogActs ==
    /\ watchdog = "armed" /\ ~Locked
    /\ watchdog' = "asleep"
    /\ IF g_wk_pid # 0 /\ ~g_wk_busy /\ ~recent
       THEN kill_worker_locked
       ELSE UNCHANGED <<kids, g_wk_pid>>
    /\ UNCHANGED <<isolation, g_wk_gpu, g_next_gpu, g_wk_busy, recent, disp>>

\* Time passes.  (It does during a render too, but the end of one counts as
\* activity.)
Elapse ==
    /\ isolation /\ recent /\ g_wk_pid # 0 /\ ~g_wk_busy
    /\ recent' = FALSE
    /\ UNCHANGED <<isolation, g_wk_pid, g_wk_gpu, g_next_gpu, g_wk_busy, watchdog, kids, disp>>

-----------------------------------------------------------------------------
(* Child: worker_run_loop.                                                 *)

KidHello(p) ==
    /\ kids[p].st = "starting"
    /\ kids' = [kids EXCEPT ![p].st = "idle"]
    /\ UNCHANGED <<isolation, g_wk_pid, g_wk_gpu, g_next_gpu, g_wk_busy, recent, watchdog, disp>>

KidReplies(p, rc) ==
    /\ kids[p].st = "rendering"
    /\ kids' = [kids EXCEPT ![p].st = "idle", ![p].run = 0, ![p].reply = rc]
    /\ UNCHANGED <<isolation, g_wk_pid, g_wk_gpu, g_next_gpu, g_wk_busy, recent, watchdog, disp>>

\* A crash, or the system's out-of-memory killer.
KidDies(p) ==
    /\ Alive(p)
    /\ kids' = [kids EXCEPT ![p].st = "dead", ![p].run = 0]
    /\ UNCHANGED <<isolation, g_wk_pid, g_wk_gpu, g_next_gpu, g_wk_busy, recent, watchdog, disp>>
=============================================================================
