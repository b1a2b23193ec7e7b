--------------------------- MODULE RenderJobs_proofs ---------------------------
(***************************************************************************)
(* Proofs about RenderJobs, for any number of requests, children, forms    *)
(* and cancels: one render at most is alive, and what a request left on    *)
(* disk or in memory is handed over once.                                  *)
(*                                                                         *)
(* Both follow from who may act.  The thread that holds g_compute_mtx is   *)
(* the only one past "lock" and before its Unlock; it has a subprocess, or *)
(* it is in dispatch_remote, never both; and a child renders for the       *)
(* thread that waits for its RESULT and for no other.  A child that gave   *)
(* its answer up to a reader who never came is dead: that is why a late    *)
(* answer cannot be taken for that of the next render.                     *)
(***************************************************************************)
EXTENDS RenderJobs, FiniteSetTheorems, WellFoundedInduction, TLAPS

-----------------------------------------------------------------------------
(* The inductive invariant.                                                *)

AtGpu == {"fork", "dispatch", "publish", "wait", "retract_pre", "retract", "remote", "finish"}
Pcs == AtGpu \cup {"none", "start", "lock", "publish_ok", "publish_bad", "ended"}

KidRecord == [st : {"unborn", "starting", "idle", "rendering", "dead"},
              run : Requests \cup {0}, reply : {"none", "ok", "failed"}, open : BOOLEAN]
DispRecord == [pc : {"idle", "ensure", "hello", "recv", "settle", "done"},
               run : Requests \cup {0}, pid : Pids \cup {0},
               rc : {"none", "ok", "failed", "lost"}]
ProcRecord == [st : {"none", "running", "ok", "failed", "killed"},
               stage : {"none", "pre", "main"}]
Statuses == Ended \cup {"PENDING", "RUNNING"}
FileNames == {"out", "vocal_out", "bgm_out", "vocal", "bgm", "mix", "input"}

WorkerTypeOK ==
    /\ g_wk_pid \in Pids \cup {0}
    /\ kids \in [Pids -> KidRecord]
    /\ disp \in DispRecord

JobTypeOK ==
    /\ req \in [Requests -> Forms \cup {NotYet}]
    /\ pc \in [Requests -> Pcs]
    /\ status \in [Requests -> Statuses]
    /\ result \in [Requests -> BOOLEAN]
    /\ cancel \in [Requests -> BOOLEAN]
    /\ cur \in Requests \cup {0}
    /\ proc \in ProcRecord
    /\ files \in [Requests -> SUBSET FileNames]
    /\ served \in [Requests -> {0, 1}]

\* g_compute_mtx has the holder its threads say it has.
LockInv == \A t \in Requests : pc[t] \in AtGpu <=> cur = t

\* A subprocess belongs to the holder, which is waiting for it.
ProcInv ==
    proc.st # "none" => /\ cur \in Requests /\ pc[cur] \in {"publish", "wait"}
                        /\ proc.stage = "pre" => req[cur].pre

\* So does a dispatch.
DispInv ==
    /\ disp.pc # "idle" => cur \in Requests /\ pc[cur] = "remote" /\ disp.run = cur
    /\ disp.pc \in {"hello", "recv"} => disp.pid \in Pids

\* A child renders for the thread that reads its socket; an answer in a socket
\* nobody reads is that of a dead child.
KidOK(p, k, d) ==
    /\ k.st = "rendering" => d.pc = "recv" /\ d.pid = p /\ k.run = d.run /\ k.reply = "none"
    /\ k.reply # "none" => k.st = "dead" \/ (d.pc = "recv" /\ d.pid = p)

KidInv == \A p \in Pids : KidOK(p, kids[p], disp)

\* Refused requests never start; only a job can be cancelled before it does; only
\* a request with stems to separate forks for it.
Started(t) ==
    /\ pc[t] = "none" => status[t] = "PENDING"
    /\ ~req[t].ok => pc[t] \in {"none", "ended"} /\ status[t] = "PENDING"
    /\ pc[t] = "start" => ~req[t].sync
    /\ pc[t] = "fork" => req[t].pre

\* What is on disk of a request under way is what it will unlink.
OnDisk(t) ==
    /\ req[t].ok => files[t] \subseteq Output(req[t]) \cup req[t].cleanup
    /\ pc[t] = "ended" /\ (req[t].sync \/ status[t] \in {"DONE", "FAILED"}) => files[t] = {}

\* Bytes are there once the job has ended and until they are sent.
Handed(t) ==
    /\ pc[t] # "ended" => served[t] = 0 /\ result[t] = FALSE
    /\ result[t] = TRUE => served[t] = 0
    /\ served[t] = 1 /\ ~req[t].sync => status[t] = "DONE"

RequestInv == \A t \in Requests : Started(t) /\ OnDisk(t) /\ Handed(t)

WorkerInv == WorkerTypeOK /\ DispInv /\ KidInv
JobInv == JobTypeOK /\ LockInv /\ ProcInv /\ RequestInv

IInv == WorkerInv /\ JobInv

-----------------------------------------------------------------------------
(***************************************************************************)
(* The warm worker                                                         *)
(***************************************************************************)
LEMMA LeastPid ==
    ASSUME NEW S, S \subseteq Pids, S # {}
    PROVE  \E m \in S : \A x \in S : m <= x
<1> DEFINE R == {q \in Nat \X Nat : q[1] < q[2]}
<1>1. IsWellFoundedOn(R, Nat)
  BY NatLessThanWellFounded DEF OpToRel
<1>2. S \subseteq Nat
  BY SpawnsAssumption DEF Pids
<1> HIDE DEF R
<1>3. PICK m \in S : \A x \in S : ~ (<<x, m>> \in R)
  BY <1>1, <1>2, WFMin
<1>4. \A x \in S : ~ (x < m)
  BY <1>2, <1>3 DEF R
<1>5. QED BY <1>2, <1>4

LEMMA PidFacts == 0 \notin Pids /\ 0 \notin Requests
BY SpawnsAssumption, JobsAssumption DEF Pids

LEMMA KilledKids ==
    ASSUME WorkerTypeOK, NEW p \in Pids
    PROVE  /\ Killed(p) \in [Pids -> KidRecord]
           /\ Killed(p)[p].st = "dead" /\ Killed(p)[p].reply = kids[p].reply
           /\ \A q \in Pids : q # p => Killed(p)[q] = kids[q]
<1> DEFINE c == [kids[p] EXCEPT !.st = "dead", !.run = 0, !.open = FALSE]
<1>1. kids \in [Pids -> KidRecord] /\ kids[p] \in KidRecord
  BY DEF WorkerTypeOK
<1>2. c \in KidRecord /\ c.st = "dead" /\ c.reply = kids[p].reply
  BY <1>1 DEF KidRecord
<1>3. Killed(p) = [kids EXCEPT ![p] = c]
  BY <1>1 DEF Killed
<1> HIDE DEF c
<1>4. QED BY <1>1, <1>2, <1>3

\* Out of recv, nobody renders and no living child has an answer left.
LEMMA Quiet ==
    ASSUME WorkerInv, disp.pc # "recv", NEW p \in Pids
    PROVE  kids[p].st # "rendering" /\ (kids[p].reply # "none" => kids[p].st = "dead")
BY DEF WorkerInv, KidInv, KidOK

\* A dead child is no hazard to anybody.
LEMMA DeadOK ==
    ASSUME NEW p, NEW k, NEW d, k.st = "dead"
    PROVE  KidOK(p, k, d)
BY DEF KidOK

\* A step of the worker's side that keeps the holder waiting.
LEMMA WorkerStep ==
    ASSUME WorkerInv, UNCHANGED <<cur, pc>>,
           kids' \in [Pids -> KidRecord], disp' \in DispRecord, g_wk_pid' \in Pids \cup {0},
           disp'.pc # "idle" => disp.pc # "idle" /\ disp'.run = disp.run,
           disp'.pc \in {"hello", "recv"} => disp'.pid \in Pids,
           \A q \in Pids : KidOK(q, kids'[q], disp')
    PROVE  WorkerInv'
<1>1. WorkerTypeOK'
  BY DEF WorkerTypeOK, Pids, KidRecord, DispRecord
<1>2. DispInv'
  BY DEF WorkerInv, DispInv, Pids
<1>3. KidInv'
  BY DEF KidInv, Pids, KidOK
<1>4. QED BY <1>1, <1>2, <1>3 DEF WorkerInv

LEMMA KillStep ==
    ASSUME WorkerInv, kill_worker_locked
    PROVE  /\ kids' \in [Pids -> KidRecord] /\ g_wk_pid' \in Pids \cup {0}
           /\ \A q \in Pids : kids'[q] = kids[q] \/ kids'[q].st = "dead"
<1>1. WorkerTypeOK
  BY DEF WorkerInv
<1>2. CASE g_wk_pid = 0
  BY <1>1, <1>2 DEF kill_worker_locked, WorkerTypeOK
<1>3. CASE g_wk_pid # 0
  <2>1. g_wk_pid \in Pids /\ kids' = Killed(g_wk_pid) /\ g_wk_pid' = 0
    BY <1>1, <1>3 DEF kill_worker_locked, WorkerTypeOK
  <2>2. QED BY <1>1, <2>1, KilledKids
<1>4. QED BY <1>2, <1>3

\* However it comes to it, a kill leaves the dispatch as it was.
LEMMA UnloadInv ==
    ASSUME WorkerInv, kill_worker_locked, UNCHANGED <<disp, cur, pc>>
    PROVE  WorkerInv'
<1>1. \A q \in Pids : KidOK(q, kids[q], disp)
  BY DEF WorkerInv, KidInv
<1>2. \A q \in Pids : KidOK(q, kids'[q], disp)
  BY <1>1, KillStep, DeadOK
<1>3. disp \in DispRecord /\ (disp.pc \in {"hello", "recv"} => disp.pid \in Pids)
  BY DEF WorkerInv, WorkerTypeOK, DispInv
<1>4. QED BY <1>2, <1>3, KillStep, WorkerStep

LEMMA KidTyped ==
    ASSUME WorkerInv, NEW p \in Pids
    PROVE  /\ kids \in [Pids -> KidRecord] /\ kids[p] \in KidRecord /\ KidOK(p, kids[p], disp)
           /\ disp \in DispRecord /\ (disp.pc \in {"hello", "recv"} => disp.pid \in Pids)
           /\ g_wk_pid \in Pids \cup {0}
BY DEF WorkerInv, WorkerTypeOK, KidInv, DispInv

\* A child acts by itself.
LEMMA OneKidInv ==
    ASSUME WorkerInv, NEW p \in Pids, NEW c \in KidRecord,
           kids' = [kids EXCEPT ![p] = c], KidOK(p, c, disp),
           UNCHANGED <<disp, g_wk_pid, cur, pc>>
    PROVE  WorkerInv'
<1>1. kids' \in [Pids -> KidRecord] /\ \A q \in Pids : KidOK(q, kids'[q], disp)
  BY DEF WorkerInv, WorkerTypeOK, KidInv
<1>2. QED BY <1>1, KidTyped, WorkerStep

LEMMA KidHelloInv ==
    ASSUME WorkerInv, NEW p \in Pids, KidHello(p), UNCHANGED <<cur, pc>>
    PROVE  WorkerInv'
<1> DEFINE c == [kids[p] EXCEPT !.st = "idle"]
<1>1. c \in KidRecord /\ c.st = "idle" /\ c.reply = kids[p].reply /\ kids[p].st = "starting"
  BY KidTyped DEF KidRecord, KidHello
<1>2. kids' = [kids EXCEPT ![p] = c]
  BY KidTyped DEF KidHello
<1> HIDE DEF c
<1>3. KidOK(p, c, disp)
  BY <1>1, KidTyped DEF KidOK
<1>4. UNCHANGED <<disp, g_wk_pid>>
  BY DEF KidHello
<1>5. QED BY <1>1, <1>2, <1>3, <1>4, OneKidInv

LEMMA KidRepliesInv ==
    ASSUME WorkerInv, NEW p \in Pids, NEW code \in {"ok", "failed"}, KidReplies(p, code),
           UNCHANGED <<cur, pc>>
    PROVE  WorkerInv'
<1> DEFINE c == [kids[p] EXCEPT !.st = "idle", !.run = 0, !.reply = code]
<1>1. c \in KidRecord /\ c.st = "idle" /\ kids[p].st = "rendering"
  BY KidTyped DEF KidRecord, KidReplies
<1>2. kids' = [kids EXCEPT ![p] = c]
  BY KidTyped DEF KidReplies
<1> HIDE DEF c
<1>3. KidOK(p, c, disp)
  BY <1>1, KidTyped DEF KidOK
<1>4. UNCHANGED <<disp, g_wk_pid>>
  BY DEF KidReplies
<1>5. QED BY <1>1, <1>2, <1>3, <1>4, OneKidInv

LEMMA KidDiesInv ==
    ASSUME WorkerInv, NEW p \in Pids, KidDies(p), UNCHANGED <<cur, pc>>
    PROVE  WorkerInv'
<1> DEFINE c == [kids[p] EXCEPT !.st = "dead", !.run = 0]
<1>1. c \in KidRecord /\ c.st = "dead"
  BY KidTyped DEF KidRecord
<1>2. kids' = [kids EXCEPT ![p] = c]
  BY KidTyped DEF KidDies
<1> HIDE DEF c
<1>3. UNCHANGED <<disp, g_wk_pid>>
  BY DEF KidDies
<1>4. QED BY <1>1, <1>2, <1>3, DeadOK, OneKidInv

-----------------------------------------------------------------------------
(* The dispatcher.                                                         *)

LEMMA SendRunInv ==
    ASSUME WorkerInv, disp.pc \in {"ensure", "hello"}, NEW p \in Pids, SendRun(p, kids),
           UNCHANGED <<cur, pc>>
    PROVE  WorkerInv'
<1>1. /\ kids \in [Pids -> KidRecord] /\ kids[p] \in KidRecord /\ disp \in DispRecord
      /\ \A q \in Pids : kids[q].st # "rendering" /\ (kids[q].reply # "none" => kids[q].st = "dead")
  BY KidTyped, Quiet
<1>2. CASE kids[p].st = "dead"
  <2> DEFINE c == [kids[p] EXCEPT !.open = FALSE]
             d == [disp EXCEPT !.pc = "done", !.rc = "lost"]
  <2>1. c \in KidRecord /\ c.st = "dead" /\ kids' = [kids EXCEPT ![p] = c]
    BY <1>1, <1>2 DEF KidRecord, SendRun
  <2>2. d \in DispRecord /\ d.pc = "done" /\ d.run = disp.run /\ disp' = d /\ g_wk_pid' = 0
    BY <1>1, <1>2 DEF DispRecord, SendRun
  <2> HIDE DEF c, d
  <2>3. \A q \in Pids : KidOK(q, kids'[q], disp')
    BY <1>1, <2>1 DEF KidOK
  <2>4. kids' \in [Pids -> KidRecord]
    BY <1>1, <2>1
  <2>5. QED BY <2>2, <2>3, <2>4, WorkerStep
<1>3. CASE kids[p].st # "dead"
  <2> DEFINE c == [kids[p] EXCEPT !.st = "rendering", !.run = disp.run]
             d == [disp EXCEPT !.pc = "recv", !.pid = p]
  <2>1. /\ c \in KidRecord /\ c.run = disp.run /\ c.reply = "none"
        /\ kids' = [kids EXCEPT ![p] = c]
    BY <1>1, <1>3 DEF KidRecord, DispRecord, SendRun
  <2>2. /\ d \in DispRecord /\ d.pc = "recv" /\ d.run = disp.run /\ d.pid = p
        /\ disp' = d /\ g_wk_pid' = p
    BY <1>1, <1>3 DEF DispRecord, SendRun
  <2> HIDE DEF c, d
  <2>3. \A q \in Pids : KidOK(q, kids'[q], disp')
    BY <1>1, <2>1, <2>2 DEF KidOK
  <2>4. kids' \in [Pids -> KidRecord]
    BY <1>1, <2>1
  <2>5. QED BY <2>2, <2>3, <2>4, WorkerStep
<1>4. QED BY <1>2, <1>3

LEMMA DispatchWarmInv ==
    ASSUME WorkerInv, DispatchWarm, UNCHANGED <<cur, pc>>
    PROVE  WorkerInv'
<1>1. g_wk_pid \in Pids /\ disp.pc = "ensure" /\ SendRun(g_wk_pid, kids)
  BY DEF DispatchWarm, WorkerInv, WorkerTypeOK
<1>2. QED BY <1>1, SendRunInv

LEMMA HelloInv ==
    ASSUME WorkerInv, Hello, UNCHANGED <<cur, pc>>
    PROVE  WorkerInv'
<1>1. disp.pid \in Pids /\ disp.pc = "hello" /\ SendRun(disp.pid, kids)
  BY DEF Hello, WorkerInv, DispInv
<1>2. QED BY <1>1, SendRunInv

LEMMA DispatchSpawnInv ==
    ASSUME WorkerInv, DispatchSpawn, UNCHANGED <<cur, pc>>
    PROVE  WorkerInv'
<1> DEFINE K == IF g_wk_pid = 0 THEN kids ELSE Killed(g_wk_pid)
           unborn == {q \in Pids : K[q].st = "unborn"}
           p == CHOOSE q \in unborn : \A r \in unborn : q <= r
<1>1. /\ disp \in DispRecord /\ disp.pc = "ensure" /\ g_wk_pid' = 0
      /\ \A q \in Pids : kids[q].st # "rendering" /\ (kids[q].reply # "none" => kids[q].st = "dead")
  BY Quiet DEF WorkerInv, WorkerTypeOK, DispatchSpawn
<1>2. /\ K \in [Pids -> KidRecord]
      /\ \A q \in Pids : K[q].st # "rendering" /\ (K[q].reply # "none" => K[q].st = "dead")
  <2>1. WorkerTypeOK
    BY DEF WorkerInv
  <2>2. CASE g_wk_pid = 0
    BY <1>1, <2>1, <2>2 DEF WorkerTypeOK
  <2>3. CASE g_wk_pid # 0
    <3>1. g_wk_pid \in Pids /\ K = Killed(g_wk_pid)
      BY <2>1, <2>3 DEF WorkerTypeOK
    <3> HIDE DEF K
    <3>2. QED BY <1>1, <2>1, <3>1, KilledKids
  <2>4. QED BY <2>2, <2>3
<1>3. CASE unborn = {}
  <2> DEFINE d == [disp EXCEPT !.pc = "done", !.rc = "lost"]
  <2>1. kids' = K
    BY <1>3 DEF DispatchSpawn
  <2>2. d \in DispRecord /\ d.pc = "done" /\ d.run = disp.run /\ disp' = d
    BY <1>1, <1>3 DEF DispatchSpawn, DispRecord
  <2> HIDE DEF K, d
  <2>3. \A q \in Pids : KidOK(q, kids'[q], disp')
    BY <1>2, <2>1 DEF KidOK
  <2>4. QED BY <1>1, <1>2, <2>1, <2>2, <2>3, WorkerStep
<1>4. CASE unborn # {}
  <2> DEFINE c == [K[p] EXCEPT !.st = "starting", !.open = TRUE]
             d == [disp EXCEPT !.pc = "hello", !.pid = p]
  <2>1. kids' = [K EXCEPT ![p].st = "starting", ![p].open = TRUE] /\ disp' = d
    BY <1>4 DEF DispatchSpawn
  <2>2. p \in Pids /\ K[p].st = "unborn"
    <3> HIDE DEF K
    <3>1. unborn \subseteq Pids
      OBVIOUS
    <3>2. \E q \in unborn : \A r \in unborn : q <= r
      BY <1>4, <3>1, LeastPid
    <3>3. p \in unborn
      BY <3>2
    <3>4. QED BY <3>3
  <2> HIDE DEF p, K, unborn
  <2>3. K[p] \in KidRecord /\ K[p].reply = "none"
    BY <1>2, <2>2
  <2>4. c \in KidRecord /\ c.st = "starting" /\ c.reply = "none" /\ kids' = [K EXCEPT ![p] = c]
    BY <1>2, <2>1, <2>2, <2>3 DEF KidRecord
  <2>5. d \in DispRecord /\ d.pc = "hello" /\ d.run = disp.run /\ d.pid = p
    BY <1>1, <2>2 DEF DispRecord
  <2> HIDE DEF c, d
  <2>6. \A q \in Pids : KidOK(q, kids'[q], disp')
    BY <1>2, <2>2, <2>4 DEF KidOK
  <2>7. kids' \in [Pids -> KidRecord]
    BY <1>2, <2>4
  <2>8. QED BY <1>1, <2>1, <2>2, <2>5, <2>6, <2>7, WorkerStep
<1>5. QED BY <1>3, <1>4

LEMMA HelloFailsInv ==
    ASSUME WorkerInv, HelloFails, UNCHANGED <<cur, pc>>
    PROVE  WorkerInv'
<1> DEFINE p == disp.pid
           c == [kids[p] EXCEPT !.open = FALSE]
           d == [disp EXCEPT !.pc = "done", !.rc = "lost"]
<1>1. /\ disp.pc = "hello" /\ disp' = d /\ UNCHANGED g_wk_pid
      /\ kids' = [kids EXCEPT ![p].open = FALSE] /\ kids[p].st = "dead"
  BY DEF HelloFails
<1>2. p \in Pids /\ disp \in DispRecord
  BY <1>1 DEF WorkerInv, DispInv, WorkerTypeOK
<1>3. /\ kids \in [Pids -> KidRecord] /\ kids[p] \in KidRecord /\ g_wk_pid \in Pids \cup {0}
      /\ \A q \in Pids : kids[q].st # "rendering" /\ (kids[q].reply # "none" => kids[q].st = "dead")
  BY <1>1, <1>2, KidTyped, Quiet
<1>4. d \in DispRecord /\ d.pc = "done" /\ d.run = disp.run
  BY <1>2 DEF DispRecord
<1> HIDE DEF d, p
<1>5. c \in KidRecord /\ c.st = "dead" /\ kids' = [kids EXCEPT ![p] = c]
  BY <1>1, <1>2, <1>3 DEF KidRecord
<1> HIDE DEF c
<1>6. \A q \in Pids : KidOK(q, kids'[q], disp')
  BY <1>2, <1>3, <1>5 DEF KidOK
<1>7. kids' \in [Pids -> KidRecord]
  BY <1>3, <1>5
<1>8. QED BY <1>1, <1>3, <1>4, <1>6, <1>7, WorkerStep

\* The answer that is read is the one awaited; a child that is gone has no other.
LEMMA RecvInv ==
    ASSUME WorkerInv, Recv, UNCHANGED <<cur, pc>>
    PROVE  WorkerInv'
<1> DEFINE p == disp.pid
<1>1. disp.pc = "recv" /\ UNCHANGED g_wk_pid
  BY DEF Recv
<1>2. p \in Pids /\ disp \in DispRecord
  BY <1>1 DEF WorkerInv, DispInv, WorkerTypeOK
<1>3. /\ kids \in [Pids -> KidRecord] /\ kids[p] \in KidRecord /\ g_wk_pid \in Pids \cup {0}
      /\ \A q \in Pids : KidOK(q, kids[q], disp)
  BY <1>2, KidTyped
<1>4. CASE kids[p].reply # "none" /\ disp' = [disp EXCEPT !.pc = "settle", !.rc = kids[p].reply]
           /\ kids' = [kids EXCEPT ![p].reply = "none"]
  <2> DEFINE c == [kids[p] EXCEPT !.reply = "none"]
             d == [disp EXCEPT !.pc = "settle", !.rc = kids[p].reply]
  <2>1. d \in DispRecord /\ d.pc = "settle" /\ d.run = disp.run
    BY <1>2, <1>3 DEF DispRecord, KidRecord
  <2>2. kids[p].st # "rendering"
    BY <1>2, <1>3, <1>4 DEF KidOK
  <2> HIDE DEF d, p
  <2>3. c \in KidRecord /\ c.st # "rendering" /\ c.reply = "none" /\ kids' = [kids EXCEPT ![p] = c]
    BY <1>2, <1>3, <1>4, <2>2 DEF KidRecord
  <2> HIDE DEF c
  <2>4. \A q \in Pids : q # p => kids[q].st # "rendering" /\ (kids[q].reply # "none" => kids[q].st = "dead")
    BY <1>1, <1>3 DEF KidOK, p
  <2>5. \A q \in Pids : KidOK(q, kids'[q], disp')
    BY <1>2, <1>3, <2>3, <2>4 DEF KidOK
  <2>6. kids' \in [Pids -> KidRecord]
    BY <1>3, <2>3
  <2>7. disp' = d
    BY <1>4 DEF d
  <2>8. QED BY <1>1, <1>3, <2>1, <2>5, <2>6, <2>7, WorkerStep
<1>5. CASE kids[p].st = "dead" /\ disp' = [disp EXCEPT !.pc = "settle", !.rc = "lost"]
           /\ UNCHANGED kids
  <2> DEFINE d == [disp EXCEPT !.pc = "settle", !.rc = "lost"]
  <2>1. d \in DispRecord /\ d.pc = "settle" /\ d.run = disp.run
    BY <1>2 DEF DispRecord
  <2>2. disp' = d
    BY <1>5
  <2> HIDE DEF d
  <2>3. \A q \in Pids : q # p => kids[q].st # "rendering" /\ (kids[q].reply # "none" => kids[q].st = "dead")
    BY <1>1, <1>3 DEF KidOK
  <2>4. \A q \in Pids : KidOK(q, kids'[q], disp')
    BY <1>3, <1>5, <2>3 DEF KidOK
  <2>5. kids' \in [Pids -> KidRecord]
    BY <1>3, <1>5
  <2>6. QED BY <1>1, <1>3, <2>1, <2>2, <2>4, <2>5, WorkerStep
<1>6. QED BY <1>4, <1>5 DEF Recv

LEMMA SettleInv ==
    ASSUME WorkerInv, Settle, UNCHANGED <<cur, pc>>
    PROVE  WorkerInv'
<1> DEFINE d == [disp EXCEPT !.pc = "done"]
<1>1. disp.pc = "settle" /\ disp' = d
  BY DEF Settle
<1>2. /\ disp \in DispRecord /\ kids \in [Pids -> KidRecord] /\ g_wk_pid \in Pids \cup {0}
      /\ \A q \in Pids : kids[q].st # "rendering" /\ (kids[q].reply # "none" => kids[q].st = "dead")
  BY <1>1, Quiet DEF WorkerInv, WorkerTypeOK
<1>3. d \in DispRecord /\ d.pc = "done" /\ d.run = disp.run
  BY <1>2 DEF DispRecord
<1> HIDE DEF d
<1>4. /\ kids' \in [Pids -> KidRecord] /\ g_wk_pid' \in Pids \cup {0}
      /\ \A q \in Pids : kids'[q] = kids[q] \/ kids'[q].st = "dead"
  <2>1. kill_worker_locked \/ UNCHANGED <<kids, g_wk_pid>>
    BY DEF Settle
  <2>2. CASE kill_worker_locked
    BY <2>2, KillStep
  <2>3. CASE UNCHANGED <<kids, g_wk_pid>>
    BY <1>2, <2>3
  <2>4. QED BY <2>1, <2>2, <2>3
<1>5. \A q \in Pids : KidOK(q, kids'[q], disp')
  BY <1>2, <1>4 DEF KidOK
<1>6. QED BY <1>1, <1>3, <1>4, <1>5, WorkerStep

-----------------------------------------------------------------------------
(***************************************************************************)
(* Requests                                                                *)
(***************************************************************************)

\* What the handlers promise of an answer: the job is told to unlink the uploads,
\* and a separation before a render writes what it is told to unlink.
AnswerOK(r) ==
    /\ r.files \subseteq FileNames
    /\ r.ok => r.files \subseteq Output(r) \cup r.cleanup
    /\ r.pre /\ r.main => {"vocal", "bgm"} \subseteq r.cleanup
    /\ ~r.ok => ~r.sync

LEMMA RefusedOK ==
    ASSUME NEW named, NEW fs \in SUBSET FileNames
    PROVE  AnswerOK(Refuse(named, fs))
BY DEF AnswerOK, Refuse

LEMMA AcceptedOK ==
    ASSUME NEW named, NEW sync, NEW pre, NEW fs \in SUBSET FileNames, NEW cl,
           fs \subseteq cl, pre => {"vocal", "bgm"} \subseteq cl
    PROVE  AnswerOK(Accept(named, sync, pre, fs, cl))
BY DEF AnswerOK, Accept

LEMMA AnswersOK == \A r \in Answers \cup {NotYet} : AnswerOK(r)
<1>1. AnswerOK(NotYet)
  BY RefusedOK DEF NotYet
<1>2. \A f \in SonggenForms : AnswerOK(songgen_generate(f))
  BY RefusedOK, AcceptedOK DEF songgen_generate
<1>3. \A f \in Sa3Forms : AnswerOK(sa3_generate(f))
  BY RefusedOK, AcceptedOK DEF sa3_generate
<1>4. \A f \in EditForms : AnswerOK(handle_edit(f))
  BY RefusedOK, AcceptedOK DEF handle_edit, FileNames
<1>5. \A f \in SeparateForms : AnswerOK(handle_separate(f))
  <2> SUFFICES ASSUME NEW f \in SeparateForms PROVE AnswerOK(handle_separate(f))
    OBVIOUS
  <2>1. CASE ~f.mix
    BY <2>1, RefusedOK DEF handle_separate
  <2>2. CASE f.mix
    BY <2>2 DEF handle_separate, Accept, AnswerOK, FileNames
  <2>3. QED BY <2>1, <2>2
<1>6. \A f \in StemForms : AnswerOK(run_stem_job(f))
  <2> SUFFICES ASSUME NEW f \in StemForms PROVE AnswerOK(run_stem_job(f))
    OBVIOUS
  <2> DEFINE mix   == IF f.full_mix \/ f.mix THEN {"mix"} ELSE {}
             both  == f.vocal /\ f.bgm
             stems == Present(f, {"vocal", "bgm"})
             auto  == ~both /\ mix # {}
             saved == (IF auto THEN {} ELSE stems) \cup mix
             cl    == {"vocal", "bgm"} \cup mix
  <2>1. saved \subseteq cl /\ cl \subseteq FileNames /\ stems \subseteq {"vocal", "bgm"}
    BY DEF Present, FileNames
  <2>2. \/ run_stem_job(f) = Refuse(FALSE, {})
        \/ run_stem_job(f) = Refuse(FALSE, (stems \cup mix) \ {"vocal", "bgm", "mix"})
        \/ run_stem_job(f) = Refuse(FALSE, saved \ {"vocal", "bgm", "mix"})
        \/ run_stem_job(f) = Accept(FALSE, f.wait, auto, saved, cl)
    BY DEF run_stem_job
  <2>3. /\ (stems \cup mix) \ {"vocal", "bgm", "mix"} \in SUBSET FileNames
        /\ saved \ {"vocal", "bgm", "mix"} \in SUBSET FileNames /\ {} \in SUBSET FileNames
    BY <2>1
  <2> HIDE DEF mix, both, stems, auto, saved, cl
  <2>4. AnswerOK(Accept(FALSE, f.wait, auto, saved, cl))
    <3>1. {"vocal", "bgm"} \subseteq cl
      BY DEF cl
    <3>2. saved \in SUBSET FileNames
      BY <2>1
    <3>3. QED BY <2>1, <3>1, <3>2, AcceptedOK
  <2>5. QED BY <2>2, <2>3, <2>4, RefusedOK
<1>7. QED BY <1>1, <1>2, <1>3, <1>4, <1>5, <1>6 DEF Answers

LEMMA FormsOK == \A r \in Forms \cup {NotYet} : AnswerOK(r)
BY AnswersOK, JobsAssumption

LEMMA OutputNames == \A r : Output(r) \subseteq FileNames
BY DEF Output, FileNames

\* A subprocess writes what its request will unlink.
LEMMA WrittenOK ==
    ASSUME NEW r \in Forms \cup {NotYet}, NEW stage, stage = "pre" => r.pre
    PROVE  /\ Written(r, stage) \subseteq Output(r) \cup r.cleanup
           /\ Written(r, stage) \subseteq FileNames
<1>1. AnswerOK(r)
  BY FormsOK
<1>2. CASE stage = "pre" /\ r.main
  BY <1>1, <1>2 DEF Written, AnswerOK, FileNames
<1>3. CASE ~(stage = "pre" /\ r.main)
  BY <1>3, OutputNames DEF Written
<1>4. QED BY <1>2, <1>3

-----------------------------------------------------------------------------
(* What a step leaves alone.                                               *)

LEMMA WorkerFrame ==
    ASSUME WorkerInv, UNCHANGED <<g_wk_pid, kids, disp>>,
           disp.pc # "idle" => cur' = cur /\ pc'[cur] = pc[cur]
    PROVE  WorkerInv'
<1>1. WorkerTypeOK'
  BY DEF WorkerInv, WorkerTypeOK, Pids, KidRecord, DispRecord
<1>2. DispInv'
  BY DEF WorkerInv, DispInv, Pids
<1>3. KidInv'
  BY DEF WorkerInv, KidInv, Pids, KidOK
<1>4. QED BY <1>1, <1>2, <1>3 DEF WorkerInv

LEMMA JobFrame ==
    ASSUME JobInv, UNCHANGED <<req, pc, status, result, cur, proc, files, served>>,
           cancel' \in [Requests -> BOOLEAN]
    PROVE  JobInv'
<1>1. JobTypeOK'
  BY DEF JobInv, JobTypeOK, Pcs, AtGpu, Statuses, ProcRecord, FileNames, Ended
<1>2. LockInv' /\ ProcInv'
  BY DEF JobInv, LockInv, ProcInv, AtGpu
<1>3. RequestInv'
  BY DEF JobInv, RequestInv, Started, OnDisk, Handed, Output
<1>4. QED BY <1>1, <1>2, <1>3 DEF JobInv

\* A step of one request's.
LEMMA RequestStep ==
    ASSUME JobInv, NEW t \in Requests, JobTypeOK', ProcInv',
           \A u \in Requests \ {t} :
               /\ req'[u] = req[u] /\ pc'[u] = pc[u] /\ status'[u] = status[u]
               /\ result'[u] = result[u] /\ files'[u] = files[u] /\ served'[u] = served[u]
               /\ cur' = u <=> cur = u,
           pc'[t] \in AtGpu <=> cur' = t,
           Started(t)', OnDisk(t)', Handed(t)'
    PROVE  JobInv'
<1>1. LockInv'
  BY DEF JobInv, LockInv, AtGpu
<1>2. \A u \in Requests \ {t} : Started(u)' /\ OnDisk(u)' /\ Handed(u)'
  BY DEF JobInv, RequestInv, Started, OnDisk, Handed, Output
<1>3. RequestInv'
  BY <1>2 DEF RequestInv
<1>4. QED BY <1>1, <1>3 DEF JobInv

-----------------------------------------------------------------------------
(* Handlers.                                                               *)

LEMMA JobTyped ==
    ASSUME JobInv, NEW t \in Requests
    PROVE  /\ Started(t) /\ OnDisk(t) /\ Handed(t) /\ (pc[t] \in AtGpu <=> cur = t)
           /\ req[t] \in Forms \cup {NotYet} /\ pc[t] \in Pcs /\ files[t] \in SUBSET FileNames
           /\ result[t] \in BOOLEAN /\ served[t] \in {0, 1} /\ status[t] \in Statuses
BY DEF JobInv, RequestInv, LockInv, JobTypeOK

LEMMA InitInv == Init => IInv
<1> SUFFICES ASSUME Init PROVE IInv
  OBVIOUS
<1>1. WorkerInv
  <2>1. Unborn \in KidRecord /\ Idle \in DispRecord
    BY DEF Unborn, Idle, KidRecord, DispRecord
  <2>2. WorkerTypeOK
    BY <2>1 DEF Init, WorkerInit, WorkerTypeOK
  <2>3. DispInv /\ KidInv
    BY DEF Init, WorkerInit, DispInv, KidInv, KidOK, Unborn, Idle
  <2>4. QED BY <2>2, <2>3 DEF WorkerInv
<1>2. JobInv
  <2>1. JobTypeOK
    BY DEF Init, JobTypeOK, Pcs, Statuses, NoProc, ProcRecord
  <2>2. LockInv /\ ProcInv
    BY PidFacts DEF Init, LockInv, ProcInv, NoProc, AtGpu
  <2>3. RequestInv
    BY DEF Init, RequestInv, Started, OnDisk, Handed, NotYet, Refuse
  <2>4. QED BY <2>1, <2>2, <2>3 DEF JobInv
<1>3. QED BY <1>1, <1>2 DEF IInv

LEMMA RespondInv ==
    ASSUME IInv, NEW t \in Requests, respond_compute(t)
    PROVE  IInv'
<1>1. WorkerInv /\ JobInv
  BY DEF IInv
<1>2. PICK o \in Forms :
        /\ pc[t] = "none" /\ req' = [req EXCEPT ![t] = o] /\ files' = [files EXCEPT ![t] = o.files]
        /\ pc' = [pc EXCEPT ![t] = IF ~o.ok THEN "ended" ELSE IF o.sync THEN "lock" ELSE "start"]
        /\ UNCHANGED <<g_wk_pid, kids, disp, status, cancel, result, cur, proc, served>>
  BY DEF respond_compute, Goto
<1>3. AnswerOK(o)
  BY FormsOK
<1>4. cur # t /\ status[t] = "PENDING" /\ served[t] = 0 /\ result[t] = FALSE
  BY <1>1, <1>2, JobTyped DEF Started, Handed, AtGpu
<1>5. WorkerInv'
  <2>1. disp.pc # "idle" => cur \in Requests
    BY <1>1 DEF WorkerInv, DispInv
  <2>2. disp.pc # "idle" => pc'[cur] = pc[cur]
    BY <1>1, <1>2, <1>4, <2>1 DEF JobInv, JobTypeOK
  <2>3. QED BY <1>1, <1>2, <2>2, WorkerFrame
<1>6. JobTypeOK'
  <2>1. o.files \in SUBSET FileNames
    BY <1>3 DEF AnswerOK
  <2>2. pc' \in [Requests -> Pcs]
    BY <1>1, <1>2 DEF JobInv, JobTypeOK, Pcs
  <2>3. req' \in [Requests -> Forms \cup {NotYet}] /\ files' \in [Requests -> SUBSET FileNames]
    BY <1>1, <1>2, <2>1 DEF JobInv, JobTypeOK
  <2>4. QED BY <1>1, <1>2, <2>2, <2>3
            DEF JobInv, JobTypeOK, Pcs, AtGpu, Statuses, ProcRecord, FileNames, Ended
<1>7. ProcInv'
  BY <1>1, <1>2, <1>4 DEF JobInv, JobTypeOK, ProcInv
<1>8. /\ req'[t] = o /\ files'[t] = o.files /\ status'[t] = "PENDING" /\ served'[t] = 0
      /\ result'[t] = FALSE
      /\ pc'[t] = IF ~o.ok THEN "ended" ELSE IF o.sync THEN "lock" ELSE "start"
  BY <1>1, <1>2, <1>4 DEF JobInv, JobTypeOK
<1>9. Started(t)' /\ OnDisk(t)' /\ Handed(t)'
  BY <1>3, <1>8 DEF AnswerOK, Started, OnDisk, Handed, Output
<1>10. JobInv'
  <2>1. pc'[t] \in AtGpu <=> cur' = t
    BY <1>2, <1>4, <1>8 DEF AtGpu
  <2>2. \A u \in Requests \ {t} :
            /\ req'[u] = req[u] /\ pc'[u] = pc[u] /\ status'[u] = status[u]
            /\ result'[u] = result[u] /\ files'[u] = files[u] /\ served'[u] = served[u]
            /\ cur' = u <=> cur = u
    BY <1>1, <1>2 DEF JobInv, JobTypeOK
  <2>3. QED BY <1>1, <1>6, <1>7, <1>9, <2>1, <2>2, RequestStep
<1>11. QED BY <1>5, <1>10 DEF IInv

\* A cancel flags, an /unload goes from job to job.
LEMMA KillerWalksInv ==
    ASSUME IInv, CancelFlag \/ CancelDone \/ handle_cancel \/ handle_unload
    PROVE  IInv'
<1>1. WorkerInv /\ JobInv
  BY DEF IInv
<1>2. UNCHANGED <<g_wk_pid, kids, disp, req, pc, status, result, cur, proc, files, served>>
  BY DEF CancelFlag, CancelDone, handle_cancel, handle_unload, workerVars
<1>3. cancel' \in [Requests -> BOOLEAN]
  <2>1. cancel \in [Requests -> BOOLEAN]
    BY <1>1 DEF JobInv, JobTypeOK
  <2>2. QED BY <2>1 DEF CancelFlag, CancelDone, handle_cancel, handle_unload
<1>4. WorkerInv'
  BY <1>1, <1>2, WorkerFrame
<1>5. JobInv'
  BY <1>1, <1>2, <1>3, JobFrame
<1>6. QED BY <1>4, <1>5 DEF IInv

LEMMA CancelKillInv ==
    ASSUME IInv, CancelKill
    PROVE  IInv'
<1>1. WorkerInv /\ JobInv
  BY DEF IInv
<1>2. /\ proc' = proc \/ (proc.st = "running" /\ proc' = [proc EXCEPT !.st = "killed"])
      /\ UNCHANGED <<g_wk_pid, kids, disp, req, pc, status, cancel, result, cur, files, served>>
  BY DEF CancelKill, workerVars
<1>3. WorkerInv'
  BY <1>1, <1>2, WorkerFrame
<1>4. /\ proc' \in ProcRecord /\ proc'.stage = proc.stage
      /\ proc'.st # "none" <=> proc.st # "none"
  BY <1>1, <1>2 DEF JobInv, JobTypeOK, ProcRecord
<1>5. JobTypeOK' /\ ProcInv'
  BY <1>1, <1>2, <1>4 DEF JobInv, JobTypeOK, ProcInv, Pcs, AtGpu, Statuses, ProcRecord, FileNames, Ended
<1>6. LockInv'
  BY <1>1, <1>2 DEF JobInv, LockInv, AtGpu
<1>7. RequestInv'
  BY <1>1, <1>2 DEF JobInv, RequestInv, Started, OnDisk, Handed, Output
<1>8. QED BY <1>3, <1>5, <1>6, <1>7 DEF IInv, JobInv

\* The children's side of it, whatever the requests do.
LEMMA WorkerSideInv ==
    ASSUME IInv,
           \/ CancelWorker \/ UnloadWorker \/ Dispatcher \/ Watchdog
           \/ (WatchdogLook \/ Elapse) /\ UNCHANGED jobVars
           \/ \E p \in Pids : (KidHello(p) \/ KidDies(p)) /\ UNCHANGED jobVars
    PROVE  IInv'
<1>1. WorkerInv /\ JobInv
  BY DEF IInv
<1>2. UNCHANGED <<req, pc, status, cancel, result, cur, proc, files, served>>
  BY DEF CancelWorker, UnloadWorker, Dispatcher, Watchdog, jobVars
<1>3. JobInv'
  <2>1. cancel' \in [Requests -> BOOLEAN]
    BY <1>1, <1>2 DEF JobInv, JobTypeOK
  <2>2. QED BY <1>1, <1>2, <2>1, JobFrame
<1>4. WorkerInv'
  <2>1. CASE CancelWorker \/ UnloadWorker
    <3>1. kill_worker_locked /\ UNCHANGED disp
      BY <2>1 DEF CancelWorker, UnloadWorker, WorkerUnload
    <3>2. QED BY <1>1, <1>2, <3>1, UnloadInv
  <2>2. CASE Dispatcher
    <3>1. DispatchWarm \/ DispatchSpawn \/ Hello \/ HelloFails \/ Recv \/ Settle
      BY <2>2 DEF Dispatcher
    <3>2. QED BY <1>1, <1>2, <3>1, DispatchWarmInv, DispatchSpawnInv, HelloInv, HelloFailsInv,
                 RecvInv, SettleInv
  <2>3. CASE Watchdog
    <3>1. UNCHANGED disp /\ (kill_worker_locked \/ UNCHANGED <<kids, g_wk_pid>>)
      BY <2>3 DEF Watchdog, WatchdogActs
    <3>2. QED BY <1>1, <1>2, <3>1, UnloadInv, WorkerFrame
  <2>4. CASE WatchdogLook \/ Elapse
    <3>1. UNCHANGED <<g_wk_pid, kids, disp>>
      BY <2>4 DEF WatchdogLook, Elapse
    <3>2. QED BY <1>1, <1>2, <3>1, WorkerFrame
  <2>5. CASE \E p \in Pids : KidHello(p) \/ KidDies(p)
    BY <1>1, <1>2, <2>5, KidHelloInv, KidDiesInv
  <2>6. QED BY <2>1, <2>2, <2>3, <2>4, <2>5
<1>5. QED BY <1>3, <1>4 DEF IInv

\* The bytes of a job that ended are sent, or reaped with it.
LEMMA BytesGoInv ==
    ASSUME IInv, NEW t \in Requests, handle_download(t) \/ jobs_reaper(t)
    PROVE  IInv'
<1>1. WorkerInv /\ JobInv
  BY DEF IInv
<1>2. /\ result' = [result EXCEPT ![t] = FALSE] /\ status[t] \in Ended
      /\ \/ served' = [served EXCEPT ![t] = IF result[t] THEN @ + 1 ELSE @] /\ status[t] = "DONE"
         \/ served' = served
      /\ UNCHANGED <<g_wk_pid, kids, disp, req, pc, status, cancel, cur, proc, files>>
  BY DEF handle_download, jobs_reaper, workerVars, Ended
<1>3. WorkerInv'
  BY <1>1, <1>2, WorkerFrame
<1>4. /\ Started(t) /\ OnDisk(t) /\ Handed(t) /\ (pc[t] \in AtGpu <=> cur = t)
      /\ result[t] \in BOOLEAN /\ served[t] \in {0, 1}
  BY <1>1, JobTyped
<1>5. /\ result'[t] = FALSE /\ served'[t] \in {0, 1} /\ served' \in [Requests -> {0, 1}]
      /\ served'[t] # served[t] => result[t] = TRUE /\ status[t] = "DONE"
      /\ \A u \in Requests \ {t} : served'[u] = served[u] /\ result'[u] = result[u]
  <2>1. result[t] = TRUE => served[t] = 0
    BY <1>4 DEF Handed
  <2>2. served \in [Requests -> {0, 1}] /\ result \in [Requests -> BOOLEAN]
    BY <1>1 DEF JobInv, JobTypeOK
  <2>3. CASE result[t] = TRUE
    BY <1>2, <2>1, <2>2, <2>3
  <2>4. CASE result[t] = FALSE
    BY <1>2, <1>4, <2>2, <2>4
  <2>5. QED BY <1>4, <2>3, <2>4
<1>6. JobTypeOK'
  <2>1. result' \in [Requests -> BOOLEAN]
    BY <1>1, <1>2 DEF JobInv, JobTypeOK
  <2>2. QED BY <1>1, <1>2, <1>5, <2>1
            DEF JobInv, JobTypeOK, Pcs, AtGpu, Statuses, ProcRecord, FileNames, Ended
<1>7. ProcInv'
  BY <1>1, <1>2 DEF JobInv, ProcInv
<1>8. Started(t)' /\ OnDisk(t)'
  BY <1>2, <1>4 DEF Started, OnDisk, Output
<1>9. Handed(t)'
  <2>1. pc[t] # "ended" => served'[t] = 0
    BY <1>4, <1>5 DEF Handed
  <2>2. served'[t] = 1 /\ ~req[t].sync => status[t] = "DONE"
    BY <1>4, <1>5 DEF Handed
  <2>3. QED BY <1>2, <1>5, <2>1, <2>2 DEF Handed
<1>10. JobInv'
  <2>1. pc'[t] \in AtGpu <=> cur' = t
    BY <1>2, <1>4 DEF AtGpu
  <2>2. \A u \in Requests \ {t} :
            /\ req'[u] = req[u] /\ pc'[u] = pc[u] /\ status'[u] = status[u]
            /\ result'[u] = result[u] /\ files'[u] = files[u] /\ served'[u] = served[u]
            /\ cur' = u <=> cur = u
    BY <1>2, <1>5
  <2>3. QED BY <1>1, <1>6, <1>7, <1>8, <1>9, <2>1, <2>2, RequestStep
<1>11. QED BY <1>3, <1>10 DEF IInv

-----------------------------------------------------------------------------
(* The thread of a request.                                                *)

\* A step with g_compute_mtx in hand.
LEMMA GpuStep ==
    ASSUME JobInv, NEW t \in Requests, NEW l \in AtGpu \ {"fork"}, pc[t] \in AtGpu,
           pc' = [pc EXCEPT ![t] = l],
           UNCHANGED <<req, status, cancel, result, cur, files, served>>,
           proc' \in ProcRecord, ProcInv'
    PROVE  JobInv'
<1>1. /\ Started(t) /\ OnDisk(t) /\ Handed(t) /\ cur = t
  BY JobTyped
<1>2. pc' \in [Requests -> Pcs] /\ pc'[t] = l /\ \A u \in Requests \ {t} : pc'[u] = pc[u]
  BY DEF JobInv, JobTypeOK, Pcs
<1>3. JobTypeOK'
  BY <1>2 DEF JobInv, JobTypeOK, Pcs, AtGpu, Statuses, ProcRecord, FileNames, Ended
<1>4. Started(t)' /\ OnDisk(t)' /\ Handed(t)'
  BY <1>1, <1>2 DEF Started, OnDisk, Handed, Output, AtGpu
<1>5. pc'[t] \in AtGpu <=> cur' = t
  BY <1>1, <1>2
<1>6. \A u \in Requests \ {t} :
          /\ req'[u] = req[u] /\ pc'[u] = pc[u] /\ status'[u] = status[u]
          /\ result'[u] = result[u] /\ files'[u] = files[u] /\ served'[u] = served[u]
          /\ cur' = u <=> cur = u
  BY <1>2
<1>7. QED BY <1>3, <1>4, <1>5, <1>6, RequestStep

\* The holder that is not in dispatch_remote leaves no dispatch behind.
LEMMA Holder ==
    ASSUME IInv, NEW t \in Requests, pc[t] \in AtGpu
    PROVE  /\ cur = t
           /\ pc[t] # "remote" => disp.pc = "idle"
           /\ pc[t] \notin {"publish", "wait"} => proc.st = "none"
BY JobTyped DEF IInv, WorkerInv, DispInv, JobInv, ProcInv

LEMMA NotHolder ==
    ASSUME IInv, NEW t \in Requests, pc[t] \notin AtGpu
    PROVE  /\ cur # t
           /\ disp.pc # "idle" => cur \in Requests /\ cur # t
           /\ proc.st # "none" => cur \in Requests /\ cur # t
BY JobTyped DEF IInv, WorkerInv, DispInv, JobInv, ProcInv

LEMMA ForkInv ==
    ASSUME IInv, NEW t \in Requests, Fork(t) \/ ForkFails(t)
    PROVE  IInv'
<1>1. WorkerInv /\ JobInv /\ pc[t] \in AtGpu \ {"remote"} /\ Started(t)
  BY JobTyped DEF IInv, Fork, ForkFails, AtGpu
<1>2. cur = t /\ disp.pc = "idle"
  BY <1>1, Holder
<1>3. UNCHANGED <<g_wk_pid, kids, disp, req, status, cancel, result, cur, files, served>>
  BY DEF Fork, ForkFails, workerVars
<1>4. WorkerInv'
  BY <1>1, <1>2, <1>3, WorkerFrame
<1>5. CASE Fork(t)
  <2>1. /\ pc' = [pc EXCEPT ![t] = "publish"]
        /\ proc' = [st |-> "running", stage |-> Stage(t)]
        /\ Stage(t) \in {"pre", "main"} /\ (Stage(t) = "pre" => req[t].pre)
    BY <1>1, <1>5 DEF Fork, Goto, Stage, Started
  <2>2. proc' \in ProcRecord /\ proc'.stage = Stage(t)
    BY <2>1 DEF ProcRecord
  <2>3. pc'[t] = "publish"
    BY <1>1, <2>1 DEF JobInv, JobTypeOK
  <2>4. ProcInv'
    BY <1>2, <1>3, <2>1, <2>2, <2>3 DEF ProcInv
  <2>5. JobInv'
    BY <1>1, <1>3, <2>1, <2>2, <2>4, GpuStep DEF AtGpu
  <2>6. QED BY <1>4, <2>5 DEF IInv
<1>6. CASE ForkFails(t)
  <2>1. pc' = [pc EXCEPT ![t] = "finish"] /\ proc' = proc
    BY <1>6 DEF ForkFails, Goto
  <2>2. proc.st = "none"
    BY <1>1, <1>6, Holder DEF ForkFails
  <2>3. proc' \in ProcRecord /\ ProcInv'
    BY <1>1, <2>1, <2>2 DEF JobInv, JobTypeOK, ProcInv
  <2>4. JobInv'
    BY <1>1, <1>3, <2>1, <2>3, GpuStep DEF AtGpu
  <2>5. QED BY <1>4, <2>4 DEF IInv
<1>7. QED BY <1>5, <1>6

\* The holder goes on with its subprocess, or without one.
LEMMA WithProcInv ==
    ASSUME IInv, NEW t \in Requests, Publish(t) \/ Reap(t) \/ Retract(t)
    PROVE  IInv'
<1>1. WorkerInv /\ JobInv /\ pc[t] \in AtGpu \ {"remote"} /\ proc \in ProcRecord
  BY DEF IInv, Publish, Reap, Retract, AtGpu, JobInv, JobTypeOK
<1>2. cur = t /\ disp.pc = "idle" /\ (pc[t] \notin {"publish", "wait"} => proc.st = "none")
  BY <1>1, Holder
<1>3. UNCHANGED <<g_wk_pid, kids, disp, req, status, cancel, result, cur, files, served>>
  BY DEF Publish, Reap, Retract, workerVars
<1>4. WorkerInv'
  BY <1>1, <1>2, <1>3, WorkerFrame
<1>5. \E l \in AtGpu \ {"fork"} : pc' = [pc EXCEPT ![t] = l] /\ (Publish(t) => l = "wait")
  <2>1. CASE Publish(t)
    BY <2>1 DEF Publish, Goto, AtGpu
  <2>2. CASE Reap(t)
    BY <1>2, <2>2 DEF Reap, Goto, AtGpu, Publish
  <2>3. CASE Retract(t)
    BY <1>2, <2>3 DEF Retract, Goto, AtGpu, Publish
  <2>4. QED BY <2>1, <2>2, <2>3
<1>6. PICK l \in AtGpu \ {"fork"} : pc' = [pc EXCEPT ![t] = l] /\ (Publish(t) => l = "wait")
  BY <1>5
<1>7. proc' \in ProcRecord /\ ProcInv'
  <2>1. CASE Publish(t)
    <3>1. pc'[t] = "wait" /\ proc' = proc
      BY <1>1, <1>6, <2>1 DEF Publish, JobInv, JobTypeOK
    <3>2. QED BY <1>1, <1>2, <1>3, <3>1 DEF ProcInv, JobInv
  <2>2. CASE Reap(t)
    <3>1. proc' \in ProcRecord /\ proc'.st = "none"
      BY <1>1, <2>2 DEF Reap, ProcRecord
    <3>2. QED BY <3>1 DEF ProcInv
  <2>3. CASE Retract(t)
    BY <1>1, <1>2, <2>3 DEF Retract, ProcInv
  <2>4. QED BY <2>1, <2>2, <2>3
<1>8. JobInv'
  BY <1>1, <1>3, <1>6, <1>7, GpuStep
<1>9. QED BY <1>4, <1>8 DEF IInv

\* To the warm worker and back.
LEMMA RemoteInv ==
    ASSUME IInv, NEW t \in Requests, Remote(t) \/ RemoteReturns(t)
    PROVE  IInv'
<1>1. WorkerInv /\ JobInv /\ pc[t] \in AtGpu \ {"publish", "wait"} /\ proc \in ProcRecord
  BY DEF IInv, Remote, RemoteReturns, AtGpu, JobInv, JobTypeOK
<1>2. cur = t /\ proc.st = "none" /\ disp.pc # "recv"
  BY <1>1, Holder DEF Remote, RemoteReturns
<1>3. UNCHANGED <<g_wk_pid, kids, req, status, cancel, result, cur, files, served, proc>>
  BY DEF Remote, RemoteReturns
<1>4. PICK l \in {"remote", "finish"} :
        /\ pc' = [pc EXCEPT ![t] = l]
        /\ l = "remote" => disp' = [Idle EXCEPT !.pc = "ensure", !.run = t]
        /\ l = "finish" => disp' = Idle
  BY DEF Remote, RemoteReturns, Goto
<1>5. pc'[t] = l
  BY <1>1, <1>4 DEF JobInv, JobTypeOK
<1>6. /\ disp' \in DispRecord /\ disp'.pc \in {"idle", "ensure"}
      /\ disp'.pc # "idle" => pc'[t] = "remote" /\ disp'.run = t
  <2>1. CASE l = "remote"
    <3>1. disp' = [pc |-> "ensure", run |-> t, pid |-> 0, rc |-> "none"]
      BY <1>4, <2>1 DEF Idle
    <3>2. QED BY <1>5, <2>1, <3>1 DEF DispRecord
  <2>2. CASE l = "finish"
    <3>1. disp' = [pc |-> "idle", run |-> 0, pid |-> 0, rc |-> "none"]
      BY <1>4, <2>2 DEF Idle
    <3>2. QED BY <3>1 DEF DispRecord
  <2>3. QED BY <2>1, <2>2
<1>7. WorkerInv'
  <2>1. WorkerTypeOK'
    BY <1>1, <1>3, <1>6 DEF WorkerInv, WorkerTypeOK, Pids, KidRecord, DispRecord
  <2>2. DispInv'
    BY <1>2, <1>3, <1>6 DEF DispInv
  <2>3. KidInv'
    BY <1>1, <1>2, <1>3 DEF WorkerInv, KidInv, Pids, KidOK
  <2>4. QED BY <2>1, <2>2, <2>3 DEF WorkerInv
<1>8. JobInv'
  <2>1. l \in AtGpu \ {"fork"} /\ ProcInv'
    BY <1>2, <1>3 DEF AtGpu, ProcInv
  <2>2. QED BY <1>1, <1>3, <1>4, <2>1, GpuStep
<1>9. QED BY <1>7, <1>8 DEF IInv

\* A job that finds itself cancelled, before the lock or with it.
LEMMA RunInv ==
    ASSUME IInv, NEW t \in Requests, RunStart(t) \/ RunLocked(t)
    PROVE  IInv'
<1>1. WorkerInv /\ JobInv /\ pc[t] \in {"start", "lock"} /\ pc[t] \notin AtGpu
  BY DEF IInv, RunStart, RunLocked, AtGpu
<1>2. /\ cur # t /\ (disp.pc # "idle" => cur \in Requests) /\ (proc.st # "none" => cur \in Requests)
      /\ Started(t) /\ OnDisk(t) /\ Handed(t)
  BY <1>1, NotHolder, JobTyped
<1>3. UNCHANGED <<g_wk_pid, kids, disp, req, cancel, result, proc, files, served>>
  BY DEF RunStart, RunLocked, workerVars
<1>4. PICK l \in {"lock", "ended", "fork", "dispatch"}, s \in {"CANCELLED", "RUNNING", status[t]} :
        /\ pc' = [pc EXCEPT ![t] = l] /\ status' = [status EXCEPT ![t] = s]
        /\ l = "ended" => ~req[t].sync /\ s = "CANCELLED"
        /\ l = "fork" => req[t].pre
        /\ IF l \in AtGpu THEN cur = 0 /\ cur' = t ELSE cur' = cur
  <2>1. status = [status EXCEPT ![t] = status[t]]
    BY <1>1 DEF JobInv, JobTypeOK
  <2>2. CASE RunStart(t)
    <3>1. ~req[t].sync
      BY <1>2, <2>2 DEF RunStart, Started
    <3>2. QED BY <2>1, <2>2, <3>1 DEF RunStart, Goto, AtGpu
  <2>3. CASE RunLocked(t)
    <3>1. CASE ~req[t].sync /\ cancel[t]
      BY <2>3, <3>1 DEF RunLocked, Goto, AtGpu
    <3>2. CASE ~(~req[t].sync /\ cancel[t])
      <4> DEFINE l == IF req[t].pre THEN "fork" ELSE "dispatch"
                 s == IF req[t].sync THEN status[t] ELSE "RUNNING"
      <4>1. pc' = [pc EXCEPT ![t] = l] /\ cur = 0 /\ cur' = t
        BY <2>3, <3>2 DEF RunLocked, Goto
      <4>2. status' = [status EXCEPT ![t] = s]
        BY <2>1, <2>3, <3>2 DEF RunLocked
      <4>3. l \in AtGpu /\ l \in {"fork", "dispatch"} /\ (l = "fork" => req[t].pre)
        BY DEF AtGpu
      <4>4. s \in {"RUNNING", status[t]}
        OBVIOUS
      <4> HIDE DEF l, s
      <4>5. QED BY <4>1, <4>2, <4>3, <4>4
    <3>3. QED BY <3>1, <3>2
  <2>4. QED BY <2>2, <2>3
<1>5. l \in AtGpu => disp.pc = "idle" /\ proc.st = "none"
  BY <1>2, <1>4, PidFacts
<1>6. /\ pc' \in [Requests -> Pcs] /\ pc'[t] = l /\ \A u \in Requests \ {t} : pc'[u] = pc[u]
      /\ status' \in [Requests -> Statuses] /\ status'[t] = s
      /\ \A u \in Requests \ {t} : status'[u] = status[u]
  BY <1>1, <1>4 DEF JobInv, JobTypeOK, Pcs, AtGpu, Statuses, Ended
<1>7. WorkerInv'
  <2>1. disp.pc # "idle" => cur' = cur /\ pc'[cur] = pc[cur]
    BY <1>2, <1>4, <1>5, <1>6
  <2>2. QED BY <1>1, <1>3, <2>1, WorkerFrame
<1>8. JobTypeOK'
  <2>1. cur' \in Requests \cup {0}
    BY <1>1, <1>4 DEF JobInv, JobTypeOK
  <2>2. QED BY <1>1, <1>3, <1>6, <2>1
            DEF JobInv, JobTypeOK, Pcs, AtGpu, Statuses, ProcRecord, FileNames, Ended
<1>9. ProcInv'
  <2>1. CASE proc.st = "none"
    BY <1>3, <2>1 DEF ProcInv
  <2>2. CASE proc.st # "none"
    <3>1. cur' = cur /\ cur \in Requests \ {t}
      BY <1>2, <1>4, <1>5, <2>2
    <3>2. QED BY <1>1, <1>3, <1>6, <3>1 DEF JobInv, ProcInv
  <2>3. QED BY <2>1, <2>2
<1>10. req[t].ok
  BY <1>1, <1>2 DEF Started
<1>11. Started(t)' /\ OnDisk(t)' /\ Handed(t)'
  <2>1. Started(t)'
    BY <1>3, <1>4, <1>6, <1>10 DEF Started
  <2>2. OnDisk(t)'
    BY <1>2, <1>3, <1>4, <1>6 DEF OnDisk, Output
  <2>3. Handed(t)'
    <3>1. served[t] = 0 /\ result[t] = FALSE
      BY <1>1, <1>2 DEF Handed
    <3>2. QED BY <1>3, <3>1 DEF Handed
  <2>4. QED BY <2>1, <2>2, <2>3
<1>12. JobInv'
  <2>1. pc'[t] \in AtGpu <=> cur' = t
    BY <1>2, <1>4, <1>6
  <2>2. \A u \in Requests \ {t} : cur' = u <=> cur = u
    BY <1>4, PidFacts
  <2>3. \A u \in Requests \ {t} :
            /\ req'[u] = req[u] /\ pc'[u] = pc[u] /\ status'[u] = status[u]
            /\ result'[u] = result[u] /\ files'[u] = files[u] /\ served'[u] = served[u]
            /\ cur' = u <=> cur = u
    BY <1>3, <1>6, <2>2
  <2>4. QED BY <1>1, <1>8, <1>9, <1>11, <2>1, <2>3, RequestStep
<1>13. QED BY <1>7, <1>12 DEF IInv

\* The lock passes on before the outcome is decided.
LEMMA UnlockInv ==
    ASSUME IInv, NEW t \in Requests, Unlock(t)
    PROVE  IInv'
<1>1. WorkerInv /\ JobInv /\ pc[t] = "finish" /\ cur' = 0 /\ pc[t] \in AtGpu
  BY DEF IInv, Unlock, AtGpu
<1>2. cur = t /\ disp.pc = "idle" /\ proc.st = "none" /\ Started(t) /\ OnDisk(t) /\ Handed(t)
  BY <1>1, Holder, JobTyped
<1>3. UNCHANGED <<g_wk_pid, kids, disp, req, status, cancel, result, proc, files, served>>
  BY DEF Unlock, workerVars
<1>4. PICK l \in {"publish_ok", "publish_bad"} : pc' = [pc EXCEPT ![t] = l]
  BY DEF Unlock, Goto
<1>5. /\ pc' \in [Requests -> Pcs] /\ pc'[t] = l /\ \A u \in Requests \ {t} : pc'[u] = pc[u]
      /\ l \notin AtGpu
  BY <1>1, <1>4 DEF JobInv, JobTypeOK, Pcs, AtGpu
<1>6. WorkerInv'
  BY <1>1, <1>2, <1>3, WorkerFrame
<1>7. JobTypeOK'
  BY <1>1, <1>3, <1>5 DEF JobInv, JobTypeOK, Pcs, AtGpu, Statuses, ProcRecord, FileNames, Ended
<1>8. ProcInv'
  BY <1>2, <1>3 DEF ProcInv
<1>9. Started(t)' /\ OnDisk(t)' /\ Handed(t)'
  BY <1>1, <1>2, <1>3, <1>5 DEF Started, OnDisk, Handed, Output
<1>10. pc'[t] \in AtGpu <=> cur' = t
  BY <1>1, <1>5, PidFacts
<1>11. \A u \in Requests \ {t} : cur' = u <=> cur = u
  BY <1>1, <1>2, PidFacts
<1>12. \A u \in Requests \ {t} :
          /\ req'[u] = req[u] /\ pc'[u] = pc[u] /\ status'[u] = status[u]
          /\ result'[u] = result[u] /\ files'[u] = files[u] /\ served'[u] = served[u]
          /\ cur' = u <=> cur = u
  BY <1>3, <1>5, <1>11
<1>13. JobInv'
  BY <1>1, <1>7, <1>8, <1>9, <1>10, <1>12, RequestStep
<1>14. QED BY <1>6, <1>13 DEF IInv

\* The outcome, and the unlinks after it.
LEMMA FinalStatusInv ==
    ASSUME IInv, NEW t \in Requests, FinalStatus(t)
    PROVE  IInv'
<1>1. WorkerInv /\ JobInv /\ pc[t] \in {"publish_ok", "publish_bad"} /\ pc[t] \notin AtGpu
  BY DEF IInv, FinalStatus, AtGpu
<1>2. /\ cur # t /\ (disp.pc # "idle" => cur \in Requests) /\ (proc.st # "none" => cur \in Requests)
      /\ Started(t) /\ OnDisk(t) /\ Handed(t)
  BY <1>1, NotHolder, JobTyped
<1>3. UNCHANGED <<g_wk_pid, kids, disp, req, cancel, cur, proc>>
  BY DEF FinalStatus, workerVars
<1>4. /\ req[t].ok /\ files[t] \subseteq Output(req[t]) \cup req[t].cleanup
      /\ served[t] = 0 /\ result[t] = FALSE /\ files[t] \in SUBSET FileNames
  BY <1>1, <1>2, JobTyped DEF Started, OnDisk, Handed
<1>5. /\ pc' \in [Requests -> Pcs] /\ pc'[t] = "ended" /\ \A u \in Requests \ {t} : pc'[u] = pc[u]
  BY <1>1 DEF FinalStatus, Goto, JobInv, JobTypeOK, Pcs
<1>6. files' \in [Requests -> SUBSET FileNames] /\ files'[t] = {}
      /\ \A u \in Requests \ {t} : files'[u] = files[u]
  <2>1. files' = [files EXCEPT ![t] = files[t] \ (Output(req[t]) \cup req[t].cleanup)]
    BY DEF FinalStatus
  <2>2. files' = [files EXCEPT ![t] = {}]
    BY <1>4, <2>1
  <2>3. QED BY <1>1, <2>2 DEF JobInv, JobTypeOK
<1>7. PICK s \in Statuses, b \in BOOLEAN, n \in {0, 1} :
        /\ status' = [status EXCEPT ![t] = s] /\ result' = [result EXCEPT ![t] = b]
        /\ served' = [served EXCEPT ![t] = n]
        /\ b = TRUE => n = 0
        /\ ~req[t].sync => n = 0
  <2> DEFINE ok == pc[t] = "publish_ok" /\ Output(req[t]) \subseteq files[t]
  <2>1. CASE req[t].sync
    <3>1. /\ served' = [served EXCEPT ![t] = IF ok THEN 1 ELSE 0]
          /\ UNCHANGED <<status, result>>
      BY <2>1 DEF FinalStatus
    <3>2. status' = [status EXCEPT ![t] = status[t]] /\ result' = [result EXCEPT ![t] = FALSE]
      BY <1>1, <1>4, <3>1 DEF JobInv, JobTypeOK
    <3>3. status[t] \in Statuses
      BY <1>1, JobTyped
    <3>4. QED BY <2>1, <3>1, <3>2, <3>3
  <2>2. CASE ~req[t].sync
    <3> DEFINE s == IF cancel[t] THEN "CANCELLED" ELSE IF ok THEN "DONE" ELSE "FAILED"
               b == ~cancel[t] /\ ok
    <3>1. /\ status' = [status EXCEPT ![t] = s] /\ result' = [result EXCEPT ![t] = b]
          /\ UNCHANGED served
      BY <2>2 DEF FinalStatus
    <3>2. served' = [served EXCEPT ![t] = 0]
      BY <1>1, <1>4, <3>1 DEF JobInv, JobTypeOK
    <3>3. s \in Statuses
      BY DEF Statuses, Ended
    <3>4. b \in BOOLEAN
      OBVIOUS
    <3> HIDE DEF s, b
    <3>5. QED BY <3>1, <3>2, <3>3, <3>4
  <2>3. QED BY <2>1, <2>2
<1>8. /\ status' \in [Requests -> Statuses] /\ status'[t] = s
      /\ result' \in [Requests -> BOOLEAN] /\ result'[t] = b
      /\ served' \in [Requests -> {0, 1}] /\ served'[t] = n
      /\ \A u \in Requests \ {t} :
            status'[u] = status[u] /\ result'[u] = result[u] /\ served'[u] = served[u]
  BY <1>1, <1>7 DEF JobInv, JobTypeOK
<1>9. WorkerInv'
  <2>1. disp.pc # "idle" => pc'[cur] = pc[cur]
    BY <1>2, <1>5
  <2>2. QED BY <1>1, <1>3, <2>1, WorkerFrame
<1>10. JobTypeOK'
  BY <1>1, <1>3, <1>5, <1>6, <1>8 DEF JobInv, JobTypeOK, Pcs, AtGpu, Statuses, ProcRecord, FileNames, Ended
<1>11. ProcInv'
  BY <1>1, <1>2, <1>3, <1>5 DEF JobInv, ProcInv
<1>12. Started(t)' /\ OnDisk(t)'
  BY <1>3, <1>4, <1>5, <1>6 DEF Started, OnDisk, Output
<1>13. Handed(t)'
  <2>1. n = 1 => req[t].sync
    BY <1>7
  <2>2. QED BY <1>3, <1>5, <1>7, <1>8, <2>1 DEF Handed
<1>14. JobInv'
  <2>1. pc'[t] \in AtGpu <=> cur' = t
    BY <1>2, <1>3, <1>5 DEF AtGpu
  <2>2. \A u \in Requests \ {t} :
            /\ req'[u] = req[u] /\ pc'[u] = pc[u] /\ status'[u] = status[u]
            /\ result'[u] = result[u] /\ files'[u] = files[u] /\ served'[u] = served[u]
            /\ cur' = u <=> cur = u
    BY <1>3, <1>5, <1>6, <1>8
  <2>3. QED BY <1>1, <1>10, <1>11, <1>12, <1>13, <2>1, <2>2, RequestStep
<1>15. QED BY <1>9, <1>14 DEF IInv

-----------------------------------------------------------------------------
(* What a process writes goes to the request it works for.                 *)

LEMMA OutputStep ==
    ASSUME JobInv, cur \in Requests, pc[cur] \in {"publish", "wait", "remote"},
           NEW W \in SUBSET FileNames, W \subseteq Output(req[cur]) \cup req[cur].cleanup,
           files' = [files EXCEPT ![cur] = files[cur] \cup W] \/ files' = files,
           UNCHANGED <<req, pc, status, cancel, result, cur, served>>,
           proc' \in ProcRecord, ProcInv'
    PROVE  JobInv'
<1> DEFINE t == cur
<1>1. Started(t) /\ OnDisk(t) /\ Handed(t) /\ files[t] \in SUBSET FileNames
  BY JobTyped
<1>2. /\ files' \in [Requests -> SUBSET FileNames]
      /\ files'[t] \subseteq files[t] \cup W
      /\ \A u \in Requests \ {t} : files'[u] = files[u]
  BY <1>1 DEF JobInv, JobTypeOK
<1>3. JobTypeOK'
  BY <1>2 DEF JobInv, JobTypeOK, Pcs, AtGpu, Statuses, ProcRecord, FileNames, Ended
<1>4. LockInv'
  BY DEF JobInv, LockInv, AtGpu
<1>5. \A u \in Requests : Started(u)' /\ Handed(u)'
  BY DEF JobInv, RequestInv, Started, Handed
<1>6. \A u \in Requests : OnDisk(u)'
  <2>1. \A u \in Requests \ {t} : OnDisk(u)'
    BY <1>2 DEF JobInv, RequestInv, OnDisk, Output
  <2>2. OnDisk(t)'
    BY <1>1, <1>2 DEF OnDisk, Output
  <2>3. QED BY <2>1, <2>2
<1>7. QED BY <1>3, <1>4, <1>5, <1>6 DEF JobInv, RequestInv

LEMMA ProcInvStep ==
    ASSUME IInv, Proc
    PROVE  IInv'
<1>1. WorkerInv /\ JobInv
  BY DEF IInv
<1>2. PICK code \in {"ok", "failed"} : ProcExits(code)
  BY DEF Proc
<1> DEFINE W == Written(req[cur], proc.stage)
<1>3. /\ cur \in Requests /\ pc[cur] \in {"publish", "wait"}
      /\ proc.stage = "pre" => req[cur].pre
      /\ proc \in ProcRecord /\ req[cur] \in Forms \cup {NotYet}
  BY <1>1, <1>2 DEF ProcExits, JobInv, ProcInv, JobTypeOK
<1>4. W \in SUBSET FileNames /\ W \subseteq Output(req[cur]) \cup req[cur].cleanup
  BY <1>3, WrittenOK
<1>5. /\ files' = [files EXCEPT ![cur] = files[cur] \cup W] \/ files' = files
      /\ UNCHANGED <<g_wk_pid, kids, disp, req, pc, status, cancel, result, cur, served>>
      /\ proc' = [proc EXCEPT !.st = code]
  BY <1>2 DEF ProcExits, workerVars
<1>6. proc' \in ProcRecord /\ proc'.stage = proc.stage
  BY <1>3, <1>5 DEF ProcRecord
<1> HIDE DEF W
<1>7. ProcInv'
  BY <1>3, <1>5, <1>6 DEF ProcInv
<1>8. JobInv'
  BY <1>1, <1>3, <1>4, <1>5, <1>6, <1>7, OutputStep
<1>9. QED BY <1>1, <1>5, <1>8, WorkerFrame DEF IInv

LEMMA RepliesInv ==
    ASSUME IInv, NEW p \in Pids, NEW code \in {"ok", "failed"}, Replies(p, code)
    PROVE  IInv'
<1>1. WorkerInv /\ JobInv
  BY DEF IInv
<1>2. KidReplies(p, code) /\ UNCHANGED <<req, pc, status, cancel, result, cur, proc, served>>
  BY DEF Replies
<1>3. WorkerInv'
  BY <1>1, <1>2, KidRepliesInv
<1>4. disp.pc = "recv" /\ kids[p].run = disp.run
  BY <1>1, <1>2 DEF KidReplies, WorkerInv, KidInv, KidOK
<1>5. kids[p].run = cur /\ cur \in Requests /\ pc[cur] = "remote"
  BY <1>1, <1>4 DEF WorkerInv, DispInv
<1> DEFINE W == Output(req[cur])
<1>6. files' = [files EXCEPT ![cur] = files[cur] \cup W] \/ files' = files
  BY <1>5 DEF Replies
<1>7. W \in SUBSET FileNames /\ W \subseteq Output(req[cur]) \cup req[cur].cleanup
  BY OutputNames
<1> HIDE DEF W
<1>8. proc' \in ProcRecord /\ ProcInv'
  BY <1>1, <1>2 DEF JobInv, JobTypeOK, ProcInv
<1>9. JobInv'
  BY <1>1, <1>2, <1>5, <1>6, <1>7, <1>8, OutputStep
<1>10. QED BY <1>3, <1>9 DEF IInv

-----------------------------------------------------------------------------
(***************************************************************************)
(* Theorems                                                                *)
(***************************************************************************)
LEMMA NextInv == IInv /\ [Next]_vars => IInv'
<1> SUFFICES ASSUME IInv, [Next]_vars PROVE IInv'
  OBVIOUS
<1>1. CASE \E t \in Requests : Thread(t) \/ respond_compute(t)
  <2>1. PICK t \in Requests : Thread(t) \/ respond_compute(t)
    BY <1>1
  <2>2. CASE respond_compute(t)
    BY <2>2, RespondInv
  <2>3. CASE Thread(t)
    <3>1. \/ RunStart(t) \/ RunLocked(t) \/ Fork(t) \/ ForkFails(t) \/ Publish(t) \/ Reap(t)
          \/ Retract(t) \/ Remote(t) \/ RemoteReturns(t) \/ Unlock(t) \/ FinalStatus(t)
      BY <2>3 DEF Thread
    <3>2. QED BY <3>1, RunInv, ForkInv, WithProcInv, RemoteInv, UnlockInv, FinalStatusInv
  <2>4. QED BY <2>1, <2>2, <2>3
<1>2. CASE \E t \in Requests : handle_download(t) \/ jobs_reaper(t)
  BY <1>2, BytesGoInv
<1>3. CASE handle_cancel \/ handle_unload \/ CancelFlag \/ CancelDone
  BY <1>3, KillerWalksInv
<1>4. CASE CancelKill
  BY <1>4, CancelKillInv
<1>5. CASE \/ CancelWorker \/ UnloadWorker \/ Dispatcher \/ Watchdog
           \/ (WatchdogLook \/ Elapse) /\ UNCHANGED jobVars
  BY <1>5, WorkerSideInv
<1>6. CASE Proc
  BY <1>6, ProcInvStep
<1>7. CASE \E p \in Pids : Kid(p)
  <2>1. PICK p \in Pids : Kid(p)
    BY <1>7
  <2>2. \/ (KidHello(p) \/ KidDies(p)) /\ UNCHANGED jobVars
        \/ \E code \in {"ok", "failed"} : Replies(p, code)
    BY <2>1 DEF Kid
  <2>3. QED BY <2>2, WorkerSideInv, RepliesInv
<1>8. CASE UNCHANGED vars
  <2>1. /\ UNCHANGED <<g_wk_pid, kids, disp>>
        /\ UNCHANGED <<req, pc, status, cancel, result, cur, proc, files, served>>
    BY <1>8 DEF vars, workerVars, jobVars
  <2>2. WorkerInv /\ JobInv /\ cancel' \in [Requests -> BOOLEAN]
    BY <2>1 DEF IInv, JobInv, JobTypeOK
  <2>3. QED BY <2>1, <2>2, WorkerFrame, JobFrame DEF IInv
<1>9. QED BY <1>1, <1>2, <1>3, <1>4, <1>5, <1>6, <1>7, <1>8 DEF Next, Killer

LEMMA Always == Spec => []IInv
<1>1. Init => IInv
  BY InitInv
<1>2. IInv /\ [Next]_vars => IInv'
  BY NextInv
<1>3. QED BY <1>1, <1>2, PTL DEF Spec

\* Whoever cancels, unloads, relocates or dies: two renders, or a render and a
\* separation, are never in video memory together.  The child that renders is the
\* one whose RESULT the holder of the lock waits for, and a holder that waits there
\* has no subprocess (songgen-server.cpp, sa3-server.cpp: g_compute_mtx around
\* run_subprocess and dispatch_remote).
THEOREM OneRenderEver == Spec => []OneRenderAlive
<1>1. IInv => OneRenderAlive
  <2> SUFFICES ASSUME IInv PROVE OneRenderAlive
    OBVIOUS
  <2> DEFINE S == {p \in Pids : kids[p].st = "rendering"}
  <2>1. S \subseteq {disp.pid} /\ (S # {} => disp.pc = "recv")
    BY DEF IInv, WorkerInv, KidInv, KidOK
  <2>2. IsFiniteSet({disp.pid}) /\ Cardinality({disp.pid}) = 1
    BY FS_Singleton
  <2>3. IsFiniteSet(S) /\ Cardinality(S) \in Nat /\ Cardinality(S) <= 1
    BY <2>1, <2>2, FS_Subset, FS_CardinalityType
  <2>4. CASE S = {}
    <3>1. Cardinality(S) = 0
      BY <2>4, FS_EmptySet
    <3> HIDE DEF S
    <3>2. Cardinality(S) + (IF proc.st = "running" THEN 1 ELSE 0) <= 1
      BY <3>1
    <3>3. QED BY <3>2 DEF OneRenderAlive, S
  <2>5. CASE S # {}
    <3>1. cur \in Requests /\ pc[cur] = "remote"
      BY <2>1, <2>5 DEF IInv, WorkerInv, DispInv
    <3>2. proc.st = "none"
      BY <3>1 DEF IInv, JobInv, ProcInv
    <3> HIDE DEF S
    <3>3. Cardinality(S) + (IF proc.st = "running" THEN 1 ELSE 0) <= 1
      BY <2>3, <3>2
    <3>4. QED BY <3>3 DEF OneRenderAlive, S
  <2>6. QED BY <2>4, <2>5
<1>2. QED BY <1>1, Always, PTL

\* A result reaches its client once, however many downloads and reapers race, and
\* nothing stays on disk of a request that had the GPU: no process writes for a
\* request that has ended, and what it wrote before is what the request unlinks.
THEOREM HandedOverOnce == Spec => []OutputIsHandedOver
<1>1. IInv => OutputIsHandedOver
  BY DEF IInv, JobInv, JobTypeOK, RequestInv, OnDisk, Handed, OutputIsHandedOver, ServedOnce, FilesGone
<1>2. QED BY <1>1, Always, PTL
=============================================================================
