--------------------------- MODULE JobServer_proofs ---------------------------
(***************************************************************************)
(* Proofs about the job system of ace-server, for every size of the table, *)
(* every set of kinds and any number of jobs, and about its log.           *)
(*                                                                         *)
(* The safety properties of JobServer follow from one inductive invariant: *)
(* a job that is RUNNING has exactly one owner (the handler that created   *)
(* it, one place in the queue, or the worker), and whoever owns a job      *)
(* finds it RUNNING.  The log has one of its own, at the end.              *)
(***************************************************************************)
EXTENDS JobServer, LogRing, FiniteSetTheorems, WellFoundedInduction, TLAPS

\* The jobs somebody is to bring to their end.
Waiting == {g_work_queue[i] : i \in 1..Len(g_work_queue)}
Owned == submitting \cup Waiting \cup ({worker.job} \ {NoJob})

\* No job has two owners.
OneOwner ==
    /\ \A i \in 1..Len(g_work_queue) :
          g_work_queue[i] \in Created /\ g_work_queue[i] \notin submitting \cup {worker.job}
    /\ \A i, k \in 1..Len(g_work_queue) : g_work_queue[i] = g_work_queue[k] => i = k
    /\ worker.job \notin submitting

\* The worker has a job exactly while it works on one.
WorkerInv ==
    /\ worker.job # NoJob <=> worker.pc \in {"start", "compute", "publish"}
    /\ worker.job # NoJob => worker.job \in Created
    /\ worker.pc = "publish" => result[worker.job]

OwnerInv ==
    /\ \A j \in Owned : status[j] = "RUNNING"
    /\ \A j \in Created : status[j] = "RUNNING" => j \in Owned \cap g_jobs
    /\ \A j \in Job \ Created : status[j] = "RUNNING"
    /\ \A j \in Job : status[j] = "DONE" => result[j]

StopInv ==
    /\ g_work_stop <=> main \in {"stopped", "joining", "freed"}
    /\ main = "freed" => worker.pc = "exited"

IInv == TypeOK /\ OneOwner /\ WorkerInv /\ OwnerInv /\ StopInv

-----------------------------------------------------------------------------
\* What is created, submitted or waiting is a job, and no job is NoJob.
LEMMA Jobs ==
    ASSUME TypeOK
    PROVE  /\ Created \subseteq Job /\ Job \subseteq Nat /\ NoJob \notin Job
           /\ submitting \subseteq Created /\ g_jobs \subseteq Created
           /\ Owned \subseteq Job
<1>1. created \in Nat /\ created <= Submits /\ Submits \in Nat
  BY JobServerAssumption DEF TypeOK
<1>2. Created \subseteq Job /\ Job \subseteq Nat
  BY <1>1 DEF Created, Job
<1>3. NoJob \notin Job /\ submitting \subseteq Created /\ g_jobs \subseteq Created
  BY JobServerAssumption DEF TypeOK, Created, Job
<1>4. Waiting \subseteq Job
  BY DEF TypeOK, Waiting
<1>5. worker.job \in Job \cup {NoJob}
  BY DEF TypeOK
<1>6. QED BY <1>2, <1>3, <1>4, <1>5 DEF Owned

LEMMA InitInv == Init => IInv
<1> SUFFICES ASSUME Init PROVE IInv
  OBVIOUS
<1>1. TypeOK
  <2>1. worker \in [pc : WorkerPc, job : Job \cup {NoJob}, polls : 0..Polls]
    BY JobServerAssumption DEF Init, Idle, WorkerPc
  <2>2. created \in 0..Submits /\ main \in MainPc
    BY JobServerAssumption DEF Init, MainPc
  <2>3. g_jobs \subseteq 1..created /\ submitting \subseteq 1..created /\ cancelling \subseteq 1..created
    BY DEF Init
  <2>4. g_work_queue \in Seq(Job)
    BY DEF Init
  <2>5. /\ kind \in [Job -> Kind \cup {"none"}] /\ status \in [Job -> {"RUNNING"} \cup Ended]
        /\ cancel \in [Job -> BOOLEAN] /\ result \in [Job -> BOOLEAN] /\ g_work_stop \in BOOLEAN
    BY DEF Init
  <2>6. QED BY <2>1, <2>2, <2>3, <2>4, <2>5 DEF TypeOK
<1>2. OneOwner /\ WorkerInv /\ StopInv
  BY DEF Init, OneOwner, WorkerInv, StopInv, Idle
<1>3. OwnerInv
  BY JobServerAssumption DEF Init, OwnerInv, Owned, Waiting, Idle, Created, Job
<1>4. QED BY <1>1, <1>2, <1>3 DEF IInv

\* A new job: RUNNING, in the hands of its handler, and not among the evicted.
LEMMA SubmitInv ==
    ASSUME IInv, NEW k \in Kind, Submit(k)
    PROVE  IInv'
<1> DEFINE j == created + 1
<1>1. /\ created \in 0..Submits /\ j \in Job /\ j \notin Created
      /\ Created' = Created \cup {j} /\ Created \subseteq Job
      /\ status[j] = "RUNNING" /\ j # worker.job
  BY JobServerAssumption DEF IInv, TypeOK, Submit, Job, Created, OwnerInv, WorkerInv
<1>2. /\ \A i \in Evicted(g_jobs \cup {j}) : i \in g_jobs \cup {j} /\ status[i] # "RUNNING"
  BY DEF Evicted, Evictable
<1>3. /\ g_jobs' \subseteq g_jobs \cup {j} /\ j \in g_jobs'
      /\ \A i \in g_jobs : status[i] = "RUNNING" => i \in g_jobs'
  BY <1>1, <1>2 DEF Submit
<1> HIDE DEF j
<1>4. TypeOK'
  <2>1. created' \in 0..Submits /\ created' = j
    BY <1>1, JobServerAssumption DEF Submit, j, Job
  <2>2. g_jobs' \subseteq 1..created' /\ submitting' \subseteq 1..created' /\ cancelling' \subseteq 1..created'
    BY <1>1, <1>3, <2>1 DEF IInv, TypeOK, Submit, j, Created
  <2>3. kind' \in [Job -> Kind \cup {"none"}]
    BY <1>1 DEF IInv, TypeOK, Submit
  <2>4. QED BY <2>1, <2>2, <2>3 DEF IInv, TypeOK, Submit, workVars
<1>5. OneOwner' /\ WorkerInv' /\ StopInv'
  BY <1>1 DEF IInv, OneOwner, WorkerInv, StopInv, Submit, j, workVars
<1>6. OwnerInv'
  <2>1. Owned' = Owned \cup {j}
    BY DEF Owned, Waiting, Submit, j, workVars
  <2>2. status' = status /\ result' = result /\ (Job \ Created)' = (Job \ Created) \ {j}
    BY <1>1 DEF Submit, j, Job
  <2>3. QED BY <1>1, <1>3, <2>1, <2>2 DEF IInv, OwnerInv
<1>7. QED BY <1>4, <1>5, <1>6 DEF IInv

\* The job passes from its handler to the end of the queue.
LEMMA WorkPushInv ==
    ASSUME IInv, NEW j \in Job, WorkPush(j)
    PROVE  IInv'
<1>1. j \in submitting /\ j \in Created /\ g_work_queue \in Seq(Job)
  BY DEF WorkPush, IInv, TypeOK, Created
<1>2. worker'.job = worker.job /\ worker' \in [pc : WorkerPc, job : Job \cup {NoJob}, polls : 0..Polls]
  BY JobServerAssumption DEF WorkPush, Woken, IInv, TypeOK, WorkerInv, Idle, WorkerPc
<1>3. /\ Len(g_work_queue') = Len(g_work_queue) + 1
      /\ \A i \in 1..Len(g_work_queue) : g_work_queue'[i] = g_work_queue[i]
      /\ g_work_queue'[Len(g_work_queue) + 1] = j
      /\ g_work_queue' \in Seq(Job)
  BY <1>1 DEF WorkPush
<1>4. TypeOK'
  BY <1>2, <1>3 DEF IInv, TypeOK, WorkPush, tableVars
<1>5. OneOwner'
  BY <1>1, <1>2, <1>3 DEF IInv, OneOwner, WorkPush, tableVars, Created
<1>6. WorkerInv' /\ StopInv'
  BY DEF IInv, WorkerInv, StopInv, WorkPush, Woken, Idle, tableVars, Created
<1>7. Owned' = Owned
  BY <1>1, <1>2, <1>3 DEF Owned, Waiting, WorkPush
<1>8. OwnerInv'
  <2>1. /\ Created' = Created /\ g_jobs' = g_jobs /\ status' = status /\ result' = result
        /\ Job \ Created = (Job \ Created)'
    BY DEF WorkPush, tableVars, Created, Job
  <2>2. QED BY <1>7, <2>1 DEF IInv, OwnerInv
<1>9. QED BY <1>4, <1>5, <1>6, <1>8 DEF IInv

\* Whoever changes neither the table nor the queue, and leaves the worker with the
\* job it has, leaves the ownership alone.
LEMMA OwnersKept ==
    ASSUME IInv, worker'.job = worker.job,
           UNCHANGED <<created, g_jobs, status, submitting, g_work_queue>>,
           \A j \in Job : result[j] => result'[j]
    PROVE  OneOwner' /\ OwnerInv'
<1>1. OneOwner'
  BY DEF IInv, OneOwner, Created
<1>2. Owned' = Owned /\ (Job \ Created)' = Job \ Created /\ Created' = Created
  BY DEF Owned, Waiting, Created, Job
<1>3. QED BY <1>1, <1>2 DEF IInv, OwnerInv

\* A cancel handler touches the flag alone.
LEMMA CancelInv ==
    ASSUME IInv, NEW j \in Job, CancelLoad(j) \/ CancelStore(j)
    PROVE  IInv'
<1>1. /\ UNCHANGED <<created, g_jobs, kind, status, result, submitting, g_work_queue, g_work_stop,
                     worker, main>>
      /\ cancel' \in [Job -> BOOLEAN] /\ cancelling' \subseteq 1..created
  BY DEF CancelLoad, CancelStore, tableVars, workVars, IInv, TypeOK
<1>2. OneOwner' /\ OwnerInv'
  BY <1>1, OwnersKept
<1>3. QED
  BY <1>1, <1>2 DEF IInv, TypeOK, WorkerInv, StopInv, Created

\* Steps of the worker that change only its place, its job and its polls staying
\* in their ranges.
LEMMA WorkerMovesInv ==
    ASSUME IInv, UNCHANGED <<WorkerKeeps, status, g_work_queue>>,
           worker' \in [pc : WorkerPc, job : Job \cup {NoJob}, polls : 0..Polls],
           worker'.job = worker.job,
           worker.pc # "exited",
           worker.job # NoJob <=> worker'.pc \in {"start", "compute", "publish"},
           result' \in [Job -> BOOLEAN],
           \A j \in Job : result[j] => result'[j],
           worker'.pc = "publish" => result'[worker.job]
    PROVE  IInv'
<1>1. UNCHANGED <<created, g_jobs, kind, status, cancel, submitting, cancelling, g_work_queue,
                  g_work_stop, main>>
  BY DEF WorkerKeeps, tableVars
<1>2. OneOwner' /\ OwnerInv'
  BY <1>1, OwnersKept
<1>3. TypeOK'
  BY <1>1 DEF IInv, TypeOK
<1>4. WorkerInv' /\ StopInv'
  BY <1>1 DEF IInv, WorkerInv, StopInv, Created
<1>5. QED BY <1>2, <1>3, <1>4 DEF IInv

LEMMA WorkerWaitsInv ==
    ASSUME IInv, WorkerWait \/ SpuriousWakeup \/ WorkerExit
    PROVE  IInv'
<1>1. worker.pc \in {"ready", "asleep"} /\ worker.job = NoJob
  BY DEF WorkerWait, SpuriousWakeup, WorkerExit, IInv, WorkerInv
<1>2. /\ worker' \in [pc : WorkerPc, job : Job \cup {NoJob}, polls : 0..Polls]
      /\ worker'.job = NoJob /\ worker'.pc \in {"ready", "asleep", "exited"}
  BY JobServerAssumption DEF WorkerWait, SpuriousWakeup, WorkerExit, Idle, WorkerPc
<1>3. UNCHANGED <<WorkerKeeps, status, result, g_work_queue>>
  BY DEF WorkerWait, SpuriousWakeup, WorkerExit
<1>4. result \in [Job -> BOOLEAN]
  BY DEF IInv, TypeOK
<1>5. QED BY <1>1, <1>2, <1>3, <1>4, WorkerMovesInv

\* The worker takes the head of the queue over.
LEMMA WorkerTakeInv ==
    ASSUME IInv, WorkerTake
    PROVE  IInv'
<1>1. g_work_queue \in Seq(Job) /\ g_work_queue # <<>> /\ Len(g_work_queue) \in Nat \ {0}
  BY DEF WorkerTake, IInv, TypeOK
<1>2. /\ worker.job = NoJob
      /\ worker'.job = g_work_queue[1] /\ worker'.pc = "start" /\ g_work_queue[1] \in Job
      /\ worker' \in [pc : WorkerPc, job : Job \cup {NoJob}, polls : 0..Polls]
  BY <1>1, JobServerAssumption DEF WorkerTake, IInv, WorkerInv, WorkerPc
<1>3. /\ g_work_queue' \in Seq(Job) /\ Len(g_work_queue') = Len(g_work_queue) - 1
      /\ \A i \in 1..Len(g_work_queue') : g_work_queue'[i] = g_work_queue[i + 1]
  BY <1>1 DEF WorkerTake
<1>4. UNCHANGED <<created, g_jobs, kind, status, cancel, result, submitting, cancelling,
                  g_work_stop, main>>
  BY DEF WorkerTake, WorkerKeeps, tableVars
<1>5. TypeOK'
  BY <1>2, <1>3, <1>4 DEF IInv, TypeOK
<1>6. OneOwner'
  <2>1. \A i \in 1..Len(g_work_queue') :
           i + 1 \in 1..Len(g_work_queue) /\ g_work_queue'[i] = g_work_queue[i + 1] /\ i + 1 # 1
    BY <1>1, <1>3
  <2>2. 1 \in 1..Len(g_work_queue) /\ Created' = Created /\ submitting' = submitting
    BY <1>1, <1>4 DEF Created
  <2>3. \A i \in 1..Len(g_work_queue') :
           /\ g_work_queue'[i] \in Created' /\ g_work_queue'[i] \notin submitting'
           /\ g_work_queue'[i] # worker'.job
    BY <1>2, <2>1, <2>2 DEF IInv, OneOwner
  <2>4. ASSUME NEW i \in 1..Len(g_work_queue'), NEW k \in 1..Len(g_work_queue'),
               g_work_queue'[i] = g_work_queue'[k]
        PROVE  i = k
    <3>1. i + 1 = k + 1
      BY <2>1, <2>4 DEF IInv, OneOwner
    <3>2. QED BY <3>1
  <2>5. worker'.job \notin submitting'
    BY <1>2, <2>2 DEF IInv, OneOwner
  <2>6. QED BY <2>3, <2>4, <2>5 DEF OneOwner
<1>7. worker'.job \in Created /\ worker'.job # NoJob
  BY <1>1, <1>2, JobServerAssumption DEF IInv, OneOwner, Job
<1>8. WorkerInv' /\ StopInv'
  BY <1>2, <1>4, <1>7, WorkerTake DEF IInv, WorkerInv, StopInv, Created, WorkerTake
<1>9. Owned' = Owned
  <2>1. ASSUME NEW i \in 1..Len(g_work_queue)
        PROVE  g_work_queue[i] = worker'.job \/ g_work_queue[i] \in Waiting'
    <3>1. CASE i = 1
      BY <1>2, <3>1
    <3>2. CASE i > 1
      <4>1. i - 1 \in 1..Len(g_work_queue') /\ (i - 1) + 1 = i
        BY <1>1, <1>3, <3>2
      <4>2. g_work_queue'[i - 1] = g_work_queue[i]
        BY <1>3, <4>1
      <4>3. QED BY <4>1, <4>2 DEF Waiting
    <3>3. QED BY <3>1, <3>2
  <2>2. Waiting' \subseteq Waiting
    BY <1>1, <1>3 DEF Waiting
  <2>3. worker'.job \in Waiting
    BY <1>1, <1>2 DEF Waiting
  <2>4. Waiting = Waiting' \cup {worker'.job}
    BY <2>1, <2>2, <2>3 DEF Waiting
  <2>5. QED BY <1>2, <1>4, <1>7, <2>4 DEF Owned
<1>10. OwnerInv'
  BY <1>4, <1>9 DEF IInv, OwnerInv, Created, Job
<1>11. QED BY <1>5, <1>6, <1>8, <1>10 DEF IInv

\* The worker ends its job: it was RUNNING and the worker's alone, and nobody's now.
LEMMA SettleInv ==
    ASSUME IInv, NEW s \in Ended, Settle(s),
           worker.pc \in {"start", "compute", "publish"},
           s = "DONE" => worker.pc = "publish"
    PROVE  IInv'
<1> DEFINE w == worker.job
<1>1. w \in Created /\ w \in Job /\ w # NoJob /\ created \in 0..Submits
  BY DEF IInv, TypeOK, WorkerInv, Created, Job
<1>2. /\ UNCHANGED <<created, g_jobs, kind, cancel, result, submitting, cancelling, g_work_queue,
                     g_work_stop, main>>
      /\ status' = [status EXCEPT ![w] = s]
      /\ worker' = Idle("ready")
  BY DEF Settle, WorkerKeeps, tableVars
<1>3. /\ worker' \in [pc : WorkerPc, job : Job \cup {NoJob}, polls : 0..Polls]
      /\ worker'.job = NoJob /\ worker'.pc = "ready"
  BY <1>2, JobServerAssumption DEF Idle, WorkerPc
<1> HIDE DEF w
<1>4. TypeOK'
  BY <1>1, <1>2, <1>3 DEF IInv, TypeOK, Ended
<1>5. OneOwner'
  <2>1. NoJob \notin Created /\ NoJob \notin submitting
    BY Jobs DEF IInv
  <2>2. QED BY <1>2, <1>3, <2>1 DEF IInv, OneOwner, Created
<1>6. WorkerInv' /\ StopInv'
  BY <1>2, <1>3 DEF IInv, WorkerInv, StopInv
<1>7. OwnerInv'
  <2>1. Owned' = Owned \ {w} /\ w \in Owned
    BY <1>1, <1>2, <1>3 DEF IInv, OneOwner, Owned, Waiting, w
  <2>2. Created' = Created /\ (Job \ Created)' = Job \ Created
    BY <1>2 DEF Created, Job
  <2>3. /\ \A j \in Job \ {w} : status'[j] = status[j]
        /\ status'[w] = s /\ s # "RUNNING"
    BY <1>1, <1>2 DEF IInv, TypeOK, Ended
  <2>4. Owned \subseteq Job
    BY Jobs DEF IInv
  <2>5. Created \subseteq Job
    BY Jobs DEF IInv
  <2>6. \A j \in Owned' : status'[j] = "RUNNING"
    BY <2>1, <2>3, <2>4 DEF IInv, OwnerInv
  <2>7. \A j \in Created' : status'[j] = "RUNNING" => j \in Owned' \cap g_jobs'
    BY <1>2, <2>1, <2>2, <2>3, <2>5 DEF IInv, OwnerInv
  <2>8. \A j \in (Job \ Created)' : status'[j] = "RUNNING"
    BY <1>1, <2>2, <2>3 DEF IInv, OwnerInv
  <2>9. \A j \in Job : status'[j] = "DONE" => result'[j]
    BY <1>2, <2>3 DEF IInv, OwnerInv, WorkerInv, w
  <2>10. QED BY <2>6, <2>7, <2>8, <2>9 DEF OwnerInv
<1>8. QED BY <1>4, <1>5, <1>6, <1>7 DEF IInv

\* The worker on its job: it starts, polls, computes, publishes.
LEMMA WorkerWorksInv ==
    ASSUME IInv, StartCancelled \/ StartFails \/ StartRuns \/ Poll \/ PipelineFails
                   \/ PipelineEnds \/ Publish
    PROVE  IInv'
<1>1. /\ worker \in [pc : WorkerPc, job : Job \cup {NoJob}, polls : 0..Polls]
      /\ result \in [Job -> BOOLEAN]
  BY DEF IInv, TypeOK
<1>2. CASE \/ StartCancelled \/ StartFails \/ PipelineFails \/ Publish
           \/ Poll /\ cancel[worker.job]
  <2>1. PICK s \in Ended : /\ Settle(s)
                           /\ worker.pc \in {"start", "compute", "publish"}
                           /\ s = "DONE" => worker.pc = "publish"
    BY <1>2 DEF StartCancelled, StartFails, PipelineFails, Publish, Poll, FinalStatus, Ended
  <2>2. QED BY <2>1, SettleInv
<1>3. CASE StartRuns \/ (Poll /\ ~ cancel[worker.job])
  <2>1. /\ UNCHANGED <<WorkerKeeps, status, result, g_work_queue>>
        /\ worker'.pc = "compute" /\ worker'.job = worker.job
        /\ worker' \in [pc : WorkerPc, job : Job \cup {NoJob}, polls : 0..Polls]
        /\ worker.pc \in {"start", "compute"}
    <3>1. CASE StartRuns
      <4> DEFINE n == IF kind[worker.job] \in Polling THEN Polls ELSE 0
      <4>1. n \in 0..Polls
        BY JobServerAssumption
      <4>2. worker' = [worker EXCEPT !.pc = "compute", !.polls = n]
        BY <3>1 DEF StartRuns
      <4> HIDE DEF n
      <4>3. QED BY <1>1, <3>1, <4>1, <4>2 DEF StartRuns, WorkerPc
    <3>2. CASE Poll /\ ~ cancel[worker.job]
      <4>1. worker' = [worker EXCEPT !.polls = worker.polls - 1] /\ worker.polls > 0
        BY <3>2 DEF Poll
      <4>2. worker.polls - 1 \in 0..Polls
        BY <1>1, <4>1, JobServerAssumption
      <4>3. QED BY <1>1, <3>2, <4>1, <4>2 DEF Poll, WorkerPc
    <3>3. QED BY <1>3, <3>1, <3>2
  <2>2. worker.job # NoJob
    BY <2>1 DEF IInv, WorkerInv
  <2>3. QED BY <1>1, <2>1, <2>2, WorkerMovesInv
<1>4. CASE PipelineEnds
  <2>1. /\ UNCHANGED <<WorkerKeeps, status, g_work_queue>>
        /\ worker'.pc = "publish" /\ worker'.job = worker.job
        /\ worker' \in [pc : WorkerPc, job : Job \cup {NoJob}, polls : 0..Polls]
        /\ worker.pc = "compute"
        /\ result' = [result EXCEPT ![worker.job] = TRUE]
    BY <1>1, <1>4 DEF PipelineEnds, WorkerPc
  <2>2. worker.job # NoJob /\ worker.job \in Job
    BY <1>1, <2>1 DEF IInv, WorkerInv
  <2>3. /\ result' \in [Job -> BOOLEAN] /\ result'[worker.job]
        /\ \A j \in Job : result[j] => result'[j]
    BY <1>1, <2>1, <2>2
  <2>4. QED BY <2>1, <2>2, <2>3, WorkerMovesInv
<1>5. QED BY <1>2, <1>3, <1>4

\* The main thread and the signal: at most a sleeping worker is woken.
LEMMA MainInv ==
    ASSUME IInv, Signal \/ MainStep
    PROVE  IInv'
<1>1. UNCHANGED <<created, g_jobs, kind, status, cancel, result, submitting, cancelling,
                  g_work_queue>>
  BY DEF Signal, MainStep, ListenReturns, SetStop, NotifyStop, Cleanup, MainKeeps, tableVars
<1>2. /\ worker' \in [pc : WorkerPc, job : Job \cup {NoJob}, polls : 0..Polls]
      /\ worker'.job = worker.job
      /\ worker'.pc = worker.pc \/ (worker.pc = "asleep" /\ worker'.pc = "ready")
  BY JobServerAssumption
     DEF Signal, MainStep, ListenReturns, SetStop, NotifyStop, Cleanup, Woken, Idle, IInv, TypeOK,
         WorkerInv, WorkerPc
<1>3. /\ g_work_stop' \in BOOLEAN /\ main' \in MainPc
      /\ g_work_stop' <=> main' \in {"stopped", "joining", "freed"}
      /\ main' = "freed" => worker.pc = "exited"
  <2>1. g_work_stop \in BOOLEAN /\ main \in MainPc /\ StopInv
    BY DEF IInv, TypeOK
  <2>2. CASE Signal \/ ListenReturns \/ NotifyStop
    BY <2>1, <2>2 DEF Signal, ListenReturns, NotifyStop, StopInv, MainPc
  <2>3. CASE SetStop \/ Cleanup
    BY <2>1, <2>3 DEF SetStop, Cleanup, StopInv, MainPc
  <2>4. QED BY <2>2, <2>3 DEF MainStep
<1>4. OneOwner' /\ OwnerInv'
  BY <1>1, <1>2, OwnersKept
<1>5. TypeOK'
  BY <1>1, <1>2, <1>3 DEF IInv, TypeOK
<1>6. WorkerInv' /\ StopInv'
  BY <1>1, <1>2, <1>3 DEF IInv, WorkerInv, StopInv, Created
<1>7. QED BY <1>4, <1>5, <1>6 DEF IInv

LEMMA NextInv == IInv /\ [Next]_vars => IInv'
<1> SUFFICES ASSUME IInv, [Next]_vars PROVE IInv'
  OBVIOUS
<1>1. CASE \E k \in Kind : Submit(k)
  BY <1>1, SubmitInv
<1>2. CASE \E j \in Job : WorkPush(j) \/ CancelLoad(j) \/ CancelStore(j)
  BY <1>2, WorkPushInv, CancelInv
<1>3. CASE WorkerStep \/ SpuriousWakeup
  BY <1>3, WorkerWaitsInv, WorkerTakeInv, WorkerWorksInv DEF WorkerStep
<1>4. CASE Signal \/ MainStep
  BY <1>4, MainInv
<1>5. CASE UNCHANGED vars
  <2>1. /\ worker'.job = worker.job
        /\ UNCHANGED <<created, g_jobs, kind, status, cancel, result, submitting, cancelling,
                       g_work_queue, g_work_stop, worker, main>>
    BY <1>5 DEF vars
  <2>2. OneOwner' /\ OwnerInv'
    BY <2>1, OwnersKept
  <2>3. QED BY <2>1, <2>2 DEF IInv, TypeOK, WorkerInv, StopInv, Created
<1>6. QED BY <1>1, <1>2, <1>3, <1>4, <1>5 DEF Next

LEMMA Invariance == Spec => []IInv
BY InitInv, NextInv, PTL DEF Spec

-----------------------------------------------------------------------------
(***************************************************************************)
(* The properties                                                          *)
(***************************************************************************)
\* A queue that holds a job once holds it at one place.
LEMMA QueuedOnce ==
    ASSUME IInv, NEW j \in Job
    PROVE  /\ j \in Waiting => Cardinality(Queued(j)) = 1
           /\ j \notin Waiting => Queued(j) = {}
<1>1. ASSUME j \in Waiting PROVE Cardinality(Queued(j)) = 1
  <2>1. PICK i \in 1..Len(g_work_queue) : g_work_queue[i] = j
    BY <1>1 DEF Waiting
  <2>2. Queued(j) = {i}
    BY <2>1 DEF Queued, IInv, OneOwner
  <2>3. QED BY <2>2, FS_Singleton
<1>2. j \notin Waiting => Queued(j) = {}
  BY DEF Queued, Waiting
<1>3. QED BY <1>1, <1>2

LEMMA InvAccounts == IInv => JobsAreAccountedFor
<1> SUFFICES ASSUME IInv PROVE JobsAreAccountedFor
  OBVIOUS
<1>1. Created \subseteq Job /\ NoJob \notin Job
  BY Jobs DEF IInv
<1>2. ASSUME NEW j \in Created, status[j] = "RUNNING"
      PROVE  /\ j \in g_jobs
             /\ \/ j \in submitting /\ Queued(j) = {} /\ worker.job # j
                \/ j \notin submitting /\ Cardinality(Queued(j)) = 1 /\ worker.job # j
                \/ j \notin submitting /\ Queued(j) = {} /\ worker.job = j
  <2>1. j \in Owned /\ j \in g_jobs /\ j \in Job
    BY <1>1, <1>2 DEF IInv, OwnerInv
  <2>2. CASE j \in submitting
    <3>1. j \notin Waiting /\ worker.job # j
      BY <2>2 DEF IInv, OneOwner, Waiting
    <3>2. QED BY <2>1, <2>2, <3>1, QueuedOnce
  <2>3. CASE j \in Waiting
    <3>1. j \notin submitting /\ worker.job # j
      BY <2>3 DEF IInv, OneOwner, Waiting
    <3>2. QED BY <2>1, <2>3, <3>1, QueuedOnce
  <2>4. CASE j = worker.job
    <3>1. j \notin submitting /\ j \notin Waiting
      BY <2>4 DEF IInv, OneOwner, Waiting
    <3>2. QED BY <2>1, <2>4, <3>1, QueuedOnce
  <2>5. QED BY <2>1, <2>2, <2>3, <2>4 DEF Owned
<1>3. ASSUME NEW j \in Created, status[j] = "DONE"
      PROVE  result[j] /\ worker.job # j
  <2>1. j \notin Owned /\ result[j]
    BY <1>1, <1>3 DEF IInv, OwnerInv
  <2>2. QED BY <1>1, <2>1 DEF Owned
<1>4. QED BY <1>2, <1>3 DEF JobsAreAccountedFor, NoJobLost, DoneMeansResult, IInv

\* A job that says RUNNING is in the table and has exactly one owner, and one that
\* says DONE has its whole result: for any load (job_create, work_push, worker_main).
THEOREM JobsStayAccountedFor == Spec => []JobsAreAccountedFor
BY Invariance, InvAccounts, PTL

\* Once the worker can see g_work_stop no job is begun, and store_free runs after
\* the worker has gone (main after listen()).
THEOREM ShutdownStaysOrderly == Spec => ShutdownIsOrderly
<1>1. ASSUME IInv, IInv', [Next]_vars
      PROVE  [/\ g_work_stop => worker'.job \in {worker.job, NoJob}
              /\ main' = "freed" => g_work_stop /\ worker'.pc = "exited"
                                    /\ worker'.job = NoJob]_vars
  <2> SUFFICES ASSUME Next
               PROVE  /\ g_work_stop => worker'.job \in {worker.job, NoJob}
                      /\ main' = "freed" => g_work_stop /\ worker'.pc = "exited"
                                            /\ worker'.job = NoJob
    BY <1>1
  <2>1. ASSUME g_work_stop PROVE worker'.job \in {worker.job, NoJob}
    <3>1. worker \in [pc : WorkerPc, job : Job \cup {NoJob}, polls : 0..Polls] /\ ~ WorkerTake
      BY <1>1, <2>1 DEF IInv, TypeOK, WorkerTake
    <3>2. worker' = worker \/ worker'.job = NoJob \/ StartRuns \/ Poll \/ PipelineEnds
      BY <3>1 DEF Next, Submit, WorkPush, CancelLoad, CancelStore, WorkerStep, WorkerWait, WorkerExit,
             StartCancelled, StartFails, PipelineFails, Publish, SpuriousWakeup, Settle, Signal,
             MainStep, ListenReturns, SetStop, NotifyStop, Cleanup, Woken, Idle
    <3>3. ASSUME StartRuns \/ Poll \/ PipelineEnds PROVE worker'.job \in {worker.job, NoJob}
      <4>1. CASE StartRuns \/ PipelineEnds
        BY <3>1, <4>1 DEF StartRuns, PipelineEnds
      <4>2. CASE Poll
        BY <3>1, <4>2 DEF Poll, Settle, Idle
      <4>3. QED BY <3>3, <4>1, <4>2
    <3>4. QED BY <3>2, <3>3
  <2>2. ASSUME main' = "freed"
        PROVE  g_work_stop /\ worker'.pc = "exited" /\ worker'.job = NoJob
    <3>1. worker'.pc = "exited" /\ worker'.job = NoJob
      BY <1>1, <2>2 DEF IInv, StopInv, WorkerInv
    <3>2. ~ SetStop
      BY <2>2 DEF SetStop
    <3>3. main = "freed" \/ main = "joining"
      BY <2>2, <3>2
      DEF Next, Submit, WorkPush, CancelLoad, CancelStore, WorkerStep, WorkerWait, WorkerTake,
          WorkerExit, StartCancelled, StartFails, StartRuns, Poll, PipelineFails, PipelineEnds,
          Publish, SpuriousWakeup, Settle, WorkerKeeps, Signal, MainStep, ListenReturns, NotifyStop,
          Cleanup
    <3>4. QED BY <1>1, <3>1, <3>3 DEF IInv, StopInv
  <2>3. QED BY <2>1, <2>2
<1>2. QED BY <1>1, Invariance, PTL DEF Spec, ShutdownIsOrderly

-----------------------------------------------------------------------------
(***************************************************************************)
(* The job table: JobServer implements JobTable                            *)
(***************************************************************************)
LEMMA LeastElement ==
    ASSUME NEW S, S \subseteq Nat, S # {}
    PROVE  \E m \in S : \A x \in S : m <= x
<1> DEFINE R == {p \in Nat \X Nat : p[1] < p[2]}
<1>1. IsWellFoundedOn(R, Nat)
  BY NatLessThanWellFounded DEF OpToRel
<1> HIDE DEF R
<1>2. PICK m \in S : \A x \in S : ~ (<<x, m>> \in R)
  BY <1>1, WFMin
<1>3. \A x \in S : ~ (x < m)
  BY <1>2 DEF R
<1>4. QED BY <1>3

LEMMA GreatestElement ==
    ASSUME NEW n \in Nat, NEW S, S \subseteq 1..n, S # {}
    PROVE  \E m \in S : \A x \in S : x <= m
<1> DEFINE D == {d \in 0..n : n - d \in S}
<1>0. \A d : d \in D <=> d \in 0..n /\ n - d \in S
  OBVIOUS
<1> HIDE DEF D
<1>1. D \subseteq Nat /\ D # {}
  <2>1. PICK x \in S : x \in 1..n
    OBVIOUS
  <2>2. n - x \in 0..n /\ n - (n - x) = x
    BY <2>1
  <2>3. n - x \in D
    BY <1>0, <2>1, <2>2
  <2>4. D \subseteq Nat
    BY <1>0
  <2>5. QED BY <2>3, <2>4
<1>2. PICK d \in D : \A e \in D : d <= e
  BY <1>1, LeastElement
<1>3. ASSUME NEW x \in S PROVE x <= n - d
  <2>1. x \in 1..n /\ n - x \in 0..n /\ n - (n - x) = x
    BY <1>3
  <2>2. n - x \in D
    BY <1>0, <2>1, <1>3
  <2>3. d <= n - x /\ d \in 0..n
    BY <1>0, <1>2, <2>2
  <2>4. QED BY <2>1, <2>3
<1>4. n - d \in S
  BY <1>0, <1>2
<1>5. QED BY <1>3, <1>4

\* The oldest k of a set: ordered before the rest, k at most, and fewer only when
\* the set has no more.
LEMMA OldestFew ==
    ASSUME NEW n \in Nat, NEW E, E \subseteq 1..n, NEW k \in Int
    PROVE  LET out == {j \in E : Cardinality({i \in E : i <= j}) <= k}
           IN  /\ \A i \in out, j \in E \ out : i < j
               /\ out # {} => Cardinality(out) <= k
               /\ out # E => Cardinality(out) >= k
<1> DEFINE Upto(j) == {i \in E : i <= j}
           out == {j \in E : Cardinality(Upto(j)) <= k}
<1>1. E \subseteq Nat /\ E \subseteq Int /\ IsFiniteSet(E)
  <2>1. IsFiniteSet(1..n)
    BY FS_Interval
  <2>2. IsFiniteSet(E)
    BY <2>1, FS_Subset
  <2>3. 1..n \subseteq Nat /\ Nat \subseteq Int
    OBVIOUS
  <2>4. E \subseteq Nat
    BY <2>3, Zenon
  <2>5. QED BY <2>2, <2>3, <2>4, Zenon
<1>2. \A j : IsFiniteSet(Upto(j)) /\ Cardinality(Upto(j)) \in Nat
  BY <1>1, FS_Subset, FS_CardinalityType
<1>3. IsFiniteSet(out) /\ Cardinality(out) \in Nat
  BY <1>1, FS_Subset, FS_CardinalityType
<1>0. /\ \A j : j \in out <=> j \in E /\ Cardinality(Upto(j)) <= k
      /\ \A i, j : i \in Upto(j) <=> i \in E /\ i <= j
  OBVIOUS
<1> HIDE DEF out, Upto
<1>4. ASSUME NEW i \in out, NEW j \in E \ out PROVE i < j
  <2>0. i \in Int /\ j \in Int
    <3>1. i \in E /\ j \in E
      BY <1>0
    <3>2. QED BY <1>1, <3>1
  <2>1. SUFFICES ASSUME j <= i PROVE FALSE
    BY <2>0
  <2>2. Upto(j) \subseteq Upto(i)
    <3>1. \A x \in Int : x <= j => x <= i
      BY <2>0, <2>1
    <3>2. QED BY <1>0, <1>1, <3>1
  <2>3. Cardinality(Upto(j)) <= Cardinality(Upto(i))
    BY <1>2, <2>2, FS_Subset
  <2>4. Cardinality(Upto(i)) <= k /\ ~ (Cardinality(Upto(j)) <= k)
    BY <1>0
  <2>5. QED BY <1>2, <2>3, <2>4
<1>5. ASSUME out # {} PROVE Cardinality(out) <= k
  <2>1. out \subseteq 1..n
    BY <1>0
  <2>2. PICK m \in out : \A x \in out : x <= m
    BY <1>5, <2>1, GreatestElement
  <2>3. out \subseteq Upto(m)
    BY <1>0, <2>2
  <2>4. Cardinality(out) <= Cardinality(Upto(m)) /\ Cardinality(Upto(m)) <= k
    BY <1>0, <1>2, <2>2, <2>3, FS_Subset
  <2>5. QED BY <1>2, <1>3, <2>4
<1>6. ASSUME out # E PROVE Cardinality(out) >= k
  <2>1. E \ out \subseteq Nat /\ E \ out # {}
    <3>1. out \subseteq E
      BY <1>0
    <3>2. QED BY <1>1, <1>6, <3>1, Zenon
  <2>2. PICK m \in E \ out : \A x \in E \ out : m <= x
    BY <2>1, LeastElement
  <2>3. Upto(m) \subseteq out \cup {m}
    <3>1. \A x \in Upto(m) : x \in E /\ (x \in E \ out => x = m)
      <4>1. m \in Int /\ \A x \in E : x \in Int
        BY <1>1, <2>2
      <4>2. \A x \in Int : x <= m /\ m <= x => x = m
        BY <4>1
      <4>3. QED BY <1>0, <2>2, <4>1, <4>2
    <3>2. QED BY <3>1
  <2>4. IsFiniteSet(out \cup {m}) /\ Cardinality(out \cup {m}) = Cardinality(out) + 1
    BY <1>3, <2>2, FS_AddElement
  <2>5. Cardinality(Upto(m)) <= Cardinality(out) + 1
    BY <2>3, <2>4, FS_Subset
  <2>6. ~ (Cardinality(Upto(m)) <= k)
    BY <1>0, <2>2
  <2>7. QED BY <1>2, <1>3, <2>5, <2>6
<1>7. QED BY <1>4, <1>5, <1>6 DEF out, Upto

LEMMA TableInitMaps == Init => Table!TableInit
BY DEF Init, Table!TableInit, PhaseOf, Created

\* What clients see of the table when the invariant holds.
LEMMA TableView ==
    ASSUME IInv
    PROVE  /\ \A i \in Job : PhaseOf[i] = IF i \notin Created THEN "NONE"
                                          ELSE IF i \notin g_jobs THEN "GONE" ELSE status[i]
           /\ Table!In(PhaseOf, Ended) = Evictable(g_jobs)
           /\ Table!In(PhaseOf, Ended \cup {"RUNNING"}) = g_jobs
<1>1. \A i \in Job : PhaseOf[i] = IF i \notin Created THEN "NONE"
                                  ELSE IF i \notin g_jobs THEN "GONE" ELSE status[i]
  BY DEF PhaseOf
<1>2. g_jobs \subseteq Created /\ g_jobs \subseteq Job /\ status \in [Job -> {"RUNNING"} \cup Ended]
  BY Jobs DEF IInv, TypeOK
<1>3. Table!In(PhaseOf, Ended) = Evictable(g_jobs)
  BY <1>1, <1>2 DEF Table!In, Evictable, Ended
<1>4. Table!In(PhaseOf, Ended \cup {"RUNNING"}) = g_jobs
  BY <1>1, <1>2 DEF Table!In, Ended
<1>5. QED BY <1>1, <1>3, <1>4

\* job_create puts the new job in and the evicted ones out.
LEMMA SubmitCreates ==
    ASSUME IInv, IInv', NEW k \in Kind, Submit(k)
    PROVE  \E j \in Job : Table!Create(j)
<1> DEFINE j == created + 1
           S == g_jobs \cup {j}
           out == Evicted(S)
<1>1. /\ created \in 0..Submits /\ Submits \in Nat /\ j \in Job /\ j \notin Created
      /\ Created' = Created \cup {j} /\ Created \subseteq Job
      /\ g_jobs \subseteq Created /\ status[j] = "RUNNING"
  BY JobServerAssumption DEF IInv, TypeOK, Submit, Job, Created, OwnerInv
<1>2. /\ g_jobs' = S \ out /\ status' = status
  BY DEF Submit
<1>3. Evictable(S) = Evictable(g_jobs) /\ out \subseteq Evictable(g_jobs)
  BY <1>1 DEF Evictable, Evicted
<1>4. /\ S \subseteq 1..Submits /\ IsFiniteSet(S) /\ Cardinality(S) \in Nat
      /\ MAX_JOBS \in Nat
  <2>1. S \subseteq 1..Submits
    BY <1>1 DEF Job
  <2>2. IsFiniteSet(1..Submits)
    BY <1>1, FS_Interval
  <2> HIDE DEF S
  <2>3. IsFiniteSet(S)
    BY <2>1, <2>2, FS_Subset
  <2>4. QED BY <2>1, <2>3, FS_CardinalityType, JobServerAssumption
<1>5. IsFiniteSet(out) /\ Cardinality(out) \in Nat
  BY <1>3, <1>4, FS_Subset, FS_CardinalityType DEF Evictable
<1>6. IsFiniteSet(g_jobs') /\ Cardinality(g_jobs') = Cardinality(S) - Cardinality(out)
  <2>1. S \cap out = out
    BY <1>3 DEF Evictable
  <2> HIDE DEF S, out
  <2>2. IsFiniteSet(S \ out) /\ Cardinality(S \ out) = Cardinality(S) - Cardinality(S \cap out)
    BY <1>4, FS_Difference
  <2>3. QED BY <1>2, <2>1, <2>2
<1>7. /\ \A i \in out, l \in Evictable(S) \ out : i < l
      /\ out # {} => Cardinality(out) <= Cardinality(S) - MAX_JOBS
      /\ out # Evictable(S) => Cardinality(out) >= Cardinality(S) - MAX_JOBS
  <2> DEFINE n == Cardinality(S) - MAX_JOBS
             E == Evictable(S)
  <2>1. n \in Int /\ E \subseteq 1..Submits
    <3> HIDE DEF S
    <3>1. n \in Int
      BY <1>4
    <3>2. E \subseteq S
      BY DEF Evictable
    <3>3. QED BY <1>4, <3>1, <3>2
  <2>2. out = {i \in E : Cardinality({l \in E : l <= i}) <= n}
    BY DEF Evicted
  <2> HIDE DEF n, E, out
  <2>3. /\ \A i \in out, l \in E \ out : i < l
        /\ out # {} => Cardinality(out) <= n
        /\ out # E => Cardinality(out) >= n
    BY <1>1, <2>1, <2>2, OldestFew
  <2>4. QED BY <2>3 DEF n, E
<1>8. /\ Table!In(PhaseOf, Ended) = Evictable(S)
      /\ Table!In(PhaseOf', Ended \cup {"RUNNING"}) = g_jobs'
      /\ Table!In(PhaseOf', Ended) = Evictable(S) \ out
  <2>1. Table!In(PhaseOf, Ended) = Evictable(S)
    BY <1>3, TableView
  <2>2. \A i \in Job : PhaseOf'[i] = IF i \notin Created' THEN "NONE"
                                     ELSE IF i \notin g_jobs' THEN "GONE" ELSE status[i]
    BY <1>2 DEF PhaseOf, Job
  <2>3. /\ g_jobs' \subseteq Created' /\ g_jobs' \subseteq Job
        /\ status \in [Job -> {"RUNNING"} \cup Ended]
    BY <1>1, <1>2 DEF IInv, TypeOK
  <2> HIDE DEF out, S
  <2>4. Table!In(PhaseOf', Ended \cup {"RUNNING"}) = g_jobs'
    BY <2>2, <2>3 DEF Table!In, Ended
  <2>5. Table!In(PhaseOf', Ended) = {i \in g_jobs' : status[i] # "RUNNING"}
    BY <2>2, <2>3 DEF Table!In, Ended
  <2>6. QED BY <1>2, <2>1, <2>4, <2>5 DEF Evictable
<1>9. PhaseOf' = [i \in Job |-> IF i = j THEN "RUNNING"
                                ELSE IF i \in out THEN "GONE" ELSE PhaseOf[i]]
  <2>1. PhaseOf' = [i \in Job |-> IF i \notin Created' THEN "NONE"
                                  ELSE IF i \notin g_jobs' THEN "GONE" ELSE status[i]]
    BY <1>2 DEF PhaseOf, Job
  <2>2. \A i \in out : i \in g_jobs /\ i # j
    BY <1>1, <1>3 DEF Evictable
  <2> HIDE DEF out
  <2>3. \A i \in Job :
           (IF i \notin Created' THEN "NONE" ELSE IF i \notin g_jobs' THEN "GONE" ELSE status[i])
             = IF i = j THEN "RUNNING" ELSE IF i \in out THEN "GONE" ELSE PhaseOf[i]
    BY <1>1, <1>2, <2>2, TableView
  <2>4. QED BY <2>1, <2>3
<1>10. Table!Create(j)
  <2>1. PhaseOf[j] = "NONE"
    BY <1>1, TableView
  <2>2. out \in SUBSET Table!In(PhaseOf, Ended)
    BY <1>3, <1>8
  <2>3. out # {} => Cardinality(g_jobs') >= MAX_JOBS
    BY <1>4, <1>5, <1>6, <1>7
  <2>4. Cardinality(g_jobs') > MAX_JOBS => Evictable(S) \ out = {}
    BY <1>4, <1>5, <1>6, <1>7
  <2> HIDE DEF out, S, j
  <2>5. \A i \in out, l \in Table!In(PhaseOf, Ended) \ out : i < l
    BY <1>7, <1>8
  <2>6. LET kept == Table!In(PhaseOf', Ended \cup {"RUNNING"})
        IN  /\ out # {} => Cardinality(kept) >= MAX_JOBS
            /\ Cardinality(kept) > MAX_JOBS => Table!In(PhaseOf', Ended) = {}
    BY <1>8, <2>3, <2>4
  <2>7. Table!Ended = Ended /\ \A T : Table!Cardinality(T) = Cardinality(T)
    BY DEF Table!Ended, Ended, Table!Cardinality, Cardinality
  <2>8. QED BY <1>9, <2>1, <2>2, <2>5, <2>6, <2>7 DEF Table!Create
<1>11. QED BY <1>1, <1>10

\* Only the end of the worker's job shows in the table otherwise.
LEMMA SettleFinishes ==
    ASSUME IInv, NEW s \in Ended, Settle(s),
           worker.pc \in {"start", "compute", "publish"}
    PROVE  \E j \in Job : Table!Finish(j)
<1> DEFINE w == worker.job
<1>1. w \in Created /\ w \in Job /\ w \in g_jobs /\ status[w] = "RUNNING"
  <2>1. w \in Created /\ w \in Job /\ w # NoJob
    BY DEF IInv, TypeOK, WorkerInv, Created, Job
  <2>2. w \in Owned
    BY <2>1 DEF Owned
  <2>3. QED BY <2>1, <2>2 DEF IInv, OwnerInv
<1>2. /\ UNCHANGED <<created, g_jobs>>
      /\ status' = [status EXCEPT ![w] = s]
  BY DEF Settle, WorkerKeeps, tableVars
<1> HIDE DEF w
<1>3. PhaseOf' = [PhaseOf EXCEPT ![w] = s]
  <2>1. PhaseOf' = [j \in Job |-> IF j \notin Created THEN "NONE"
                                  ELSE IF j \notin g_jobs THEN "GONE" ELSE status'[j]]
    BY <1>2 DEF PhaseOf, Job, Created
  <2>2. \A j \in Job : status'[j] = IF j = w THEN s ELSE status[j]
    BY <1>1, <1>2 DEF IInv, TypeOK
  <2>3. QED BY <1>1, <2>1, <2>2 DEF PhaseOf
<1>4. PhaseOf[w] = "RUNNING"
  BY <1>1 DEF PhaseOf
<1>5. QED BY <1>1, <1>3, <1>4 DEF Table!Finish, Table!Ended, Ended

LEMMA TableStepMaps == IInv /\ IInv' /\ [Next]_vars => [Table!TableNext]_PhaseOf
<1> SUFFICES ASSUME IInv, IInv', [Next]_vars PROVE [Table!TableNext]_PhaseOf
  OBVIOUS
<1>1. CASE \E k \in Kind : Submit(k)
  BY <1>1, SubmitCreates DEF Table!TableNext
<1>2. CASE \/ StartCancelled \/ StartFails \/ PipelineFails \/ Publish
           \/ Poll /\ cancel[worker.job]
  <2>1. PICK s \in Ended : Settle(s) /\ worker.pc \in {"start", "compute", "publish"}
    BY <1>2 DEF StartCancelled, StartFails, PipelineFails, Publish, Poll, FinalStatus, Ended
  <2>2. QED BY <2>1, SettleFinishes DEF Table!TableNext
<1>3. CASE UNCHANGED <<created, g_jobs, status>>
  <2>1. QED BY <1>3 DEF PhaseOf, Created, Job
<1>4. CASE \/ \E j \in Job : WorkPush(j) \/ CancelLoad(j) \/ CancelStore(j)
           \/ WorkerWait \/ WorkerTake \/ WorkerExit \/ StartRuns \/ PipelineEnds
           \/ Poll /\ ~ cancel[worker.job]
           \/ SpuriousWakeup \/ Signal \/ MainStep \/ UNCHANGED vars
  <2>1. UNCHANGED <<created, g_jobs, status>>
    BY <1>4 DEF WorkPush, CancelLoad, CancelStore, WorkerWait, WorkerTake, WorkerExit, StartRuns,
                PipelineEnds, Poll, SpuriousWakeup, Signal, MainStep, ListenReturns, SetStop,
                NotifyStop, Cleanup, WorkerKeeps, MainKeeps, tableVars, vars
  <2>2. QED BY <1>3, <2>1
<1>5. QED BY <1>1, <1>2, <1>4 DEF Next, WorkerStep

\* The table of ace-server keeps what it promises clients: no running job is
\* forgotten, ended ones go oldest first, no more of them than the limit asks for,
\* and an ended job stays as it ended.
THEOREM ServerImplementsJobTable == Spec => ImplementsJobTable
<1>1. IInv /\ IInv' /\ [Next]_vars => [Table!TableNext]_PhaseOf
  BY TableStepMaps
<1>2. QED BY <1>1, TableInitMaps, Invariance, PTL DEF Spec, ImplementsJobTable, Table!TableSpec

-----------------------------------------------------------------------------
(***************************************************************************)
(* LogRing, for every size of the ring, any number of lines and any set of *)
(* clients.  A client that was not lapped reads slots of the ring that     *)
(* still hold the lines they were written with: two lines fall into the    *)
(* same slot only a whole turn apart.                                      *)
(***************************************************************************)

StreamPc == {"none", "backlog", "again", "waiting", "drain", "closed"}

RingTypeOK ==
    /\ log_seq \in Nat
    /\ log_ring \in [0 .. RingSize - 1 -> Nat]
    /\ sse \in [Clients -> [pc : StreamPc, cursor : Nat, sent : Seq(Nat), first : Nat,
                            lapped : BOOLEAN]]

\* The last RingSize lines are in their slots.
LastTurnKept ==
    \A n \in Nat : n < log_seq /\ log_seq <= n + RingSize => RingSlot(n) = n + 1

\* No cursor is ahead of the log.
CursorsBehind == \A c \in Clients : sse[c].cursor <= log_seq

RingInv == RingTypeOK /\ LastTurnKept /\ CursorsBehind /\ StreamInOrder

-----------------------------------------------------------------------------
\* Two numbers less than R apart leave different remainders.
LEMMA Division ==
    ASSUME NEW R \in Nat \ {0}, NEW a \in Nat
    PROVE  a \div R \in Int /\ a % R \in Int /\ a = R * (a \div R) + (a % R)
<1>1. a \div R \in Int
  OBVIOUS
<1>2. a % R \in Int
  OBVIOUS
<1>3. a = R * (a \div R) + (a % R)
  OBVIOUS
<1>4. QED BY <1>1, <1>2, <1>3

LEMMA SlotsDiffer ==
    ASSUME NEW R \in Nat \ {0}, NEW a \in Nat, NEW b \in Nat, a < b, b < a + R
    PROVE  a % R # b % R
<1>1. PICK m \in Int, r \in Int : m = a \div R /\ r = a % R /\ a = R * m + r
  BY Division
<1>2. PICK n \in Int, s \in Int : n = b \div R /\ s = b % R /\ b = R * n + s
  BY Division
<1>3. SUFFICES ASSUME r = s PROVE FALSE
  BY <1>1, <1>2
<1> DEFINE q == n - m
<1>4. q \in Int /\ b - a = R * q
  BY <1>1, <1>2, <1>3
<1> HIDE DEF q
<1>5. 0 < R * q /\ R * q < R
  BY <1>4
<1>6. q <= 0 \/ q >= 1
  BY <1>4
<1>7. QED BY <1>4, <1>5, <1>6

LEMMA SlotInRange ==
    ASSUME NEW n \in Nat
    PROVE  n % RingSize \in 0 .. RingSize - 1
BY RingAssumption

LEMMA RingInitInv == RingInit => RingInv
<1> SUFFICES ASSUME RingInit PROVE RingInv
  OBVIOUS
<1>1. RingTypeOK
  BY DEF RingInit, RingTypeOK, NoStream, StreamPc
<1>2. LastTurnKept /\ CursorsBehind
  BY DEF RingInit, LastTurnKept, CursorsBehind, NoStream
<1>3. StreamInOrder
  BY DEF RingInit, StreamInOrder, NoStream
<1>4. QED BY <1>1, <1>2, <1>3 DEF RingInv

\* The new line takes the slot of the one a whole turn before it, and no other's.
LEMMA LogPushInv ==
    ASSUME RingInv, LogPush
    PROVE  RingInv'
<1>1. /\ log_seq \in Nat /\ RingSize \in Nat \ {0} /\ log_seq' = log_seq + 1
      /\ log_ring \in [0 .. RingSize - 1 -> Nat]
      /\ log_ring' = [log_ring EXCEPT ![log_seq % RingSize] = log_seq + 1]
      /\ log_seq % RingSize \in 0 .. RingSize - 1
  BY RingAssumption, SlotInRange DEF RingInv, RingTypeOK, LogPush
<1>2. \A c \in Clients :
         /\ sse'[c].cursor = sse[c].cursor /\ sse'[c].sent = sse[c].sent
         /\ sse'[c].first = sse[c].first /\ sse'[c].lapped = sse[c].lapped
  BY DEF RingInv, RingTypeOK, LogPush
<1>3. RingTypeOK'
  <2>1. sse' \in [Clients -> [pc : StreamPc, cursor : Nat, sent : Seq(Nat), first : Nat,
                              lapped : BOOLEAN]]
    BY DEF RingInv, RingTypeOK, LogPush, StreamPc
  <2>2. log_ring' \in [0 .. RingSize - 1 -> Nat]
    BY <1>1
  <2>3. QED BY <1>1, <2>1, <2>2 DEF RingTypeOK
<1>4. LastTurnKept'
  <2>1. SUFFICES ASSUME NEW n \in Nat, n < log_seq', log_seq' <= n + RingSize
                 PROVE  log_ring'[n % RingSize] = n + 1
    BY DEF LastTurnKept, RingSlot
  <2>2. CASE n = log_seq
    BY <1>1, <2>2
  <2>3. CASE n < log_seq
    <3>0. log_seq < n + RingSize
      BY <1>1, <2>1
    <3>1. n % RingSize # log_seq % RingSize
      BY <1>1, <2>3, <3>0, SlotsDiffer
    <3>2. log_ring[n % RingSize] = n + 1
      <4>1. n < log_seq /\ log_seq <= n + RingSize
        BY <1>1, <2>3, <3>0
      <4>2. RingSlot(n) = n + 1
        BY <4>1 DEF RingInv, LastTurnKept
      <4>3. QED BY <4>2 DEF RingSlot
    <3>3. n % RingSize \in 0 .. RingSize - 1
      BY SlotInRange
    <3>4. QED BY <1>1, <3>1, <3>2, <3>3
  <2>4. QED BY <1>1, <2>1, <2>2, <2>3
<1>5. CursorsBehind'
  BY <1>1, <1>2 DEF RingInv, RingTypeOK, CursorsBehind
<1>6. StreamInOrder'
  BY <1>2 DEF RingInv, StreamInOrder
<1>7. QED BY <1>3, <1>4, <1>5, <1>6 DEF RingInv

\* What a step of a handler may do to its stream.
StreamOK(s) ==
    /\ s \in [pc : StreamPc, cursor : Nat, sent : Seq(Nat), first : Nat, lapped : BOOLEAN]
    /\ s.cursor <= log_seq
    /\ ~s.lapped => /\ s.cursor = s.first + Len(s.sent)
                    /\ \A i \in 1 .. Len(s.sent) : s.sent[i] = s.first + i

LEMMA StreamStepInv ==
    ASSUME RingInv, NEW c \in Clients, NEW s, StreamOK(s),
           sse' = [sse EXCEPT ![c] = s], UNCHANGED <<log_ring, log_seq>>
    PROVE  RingInv'
<1>1. \A d \in Clients : StreamOK(sse[d])
  BY DEF RingInv, RingTypeOK, CursorsBehind, StreamInOrder, StreamOK
<1>2. \A d \in Clients : StreamOK(sse'[d])
  BY <1>1 DEF RingInv, RingTypeOK
<1>3. RingTypeOK'
  BY DEF RingInv, RingTypeOK, StreamOK
<1>4. CursorsBehind' /\ StreamInOrder'
  BY <1>2 DEF CursorsBehind, StreamInOrder, StreamOK
<1>5. LastTurnKept'
  BY DEF RingInv, LastTurnKept, RingSlot
<1>6. QED BY <1>3, <1>4, <1>5 DEF RingInv

\* A line sent to a client that was not lapped is the next one.
LEMMA DeliveredOK ==
    ASSUME RingInv, NEW c \in Clients, sse[c].cursor < log_seq
    PROVE  StreamOK(Delivered(sse[c]))
<1> DEFINE s == sse[c]
           l == RingSlot(s.cursor)
           b == s.lapped \/ log_seq > s.cursor + RingSize
<1>1. /\ s \in [pc : StreamPc, cursor : Nat, sent : Seq(Nat), first : Nat, lapped : BOOLEAN]
      /\ log_seq \in Nat /\ RingSize \in Nat \ {0} /\ s.cursor < log_seq
  BY RingAssumption DEF RingInv, RingTypeOK
<1>2. l \in Nat /\ (~b => l = s.cursor + 1)
  <2>1. s.cursor % RingSize \in 0 .. RingSize - 1
    BY <1>1, SlotInRange
  <2>2. l \in Nat
    BY <2>1 DEF RingInv, RingTypeOK, RingSlot
  <2>3. ~b => l = s.cursor + 1
    BY <1>1 DEF RingInv, LastTurnKept
  <2>4. QED BY <2>2, <2>3
<1>3. Delivered(s) = [s EXCEPT !.sent = Append(s.sent, l), !.cursor = s.cursor + 1, !.lapped = b]
  BY DEF Delivered
<1>4. ~s.lapped => /\ s.cursor = s.first + Len(s.sent)
                   /\ \A i \in 1 .. Len(s.sent) : s.sent[i] = s.first + i
  BY DEF RingInv, StreamInOrder
<1>5. b \in BOOLEAN /\ (~b => ~s.lapped)
  BY <1>1
<1> HIDE DEF l, b, s
<1> DEFINE t == Append(s.sent, l)
<1>6. /\ t \in Seq(Nat) /\ Len(t) = Len(s.sent) + 1 /\ Len(s.sent) \in Nat
      /\ \A i \in 1 .. Len(s.sent) : t[i] = s.sent[i]
      /\ t[Len(s.sent) + 1] = l
  BY <1>1, <1>2
<1> HIDE DEF t
<1>7. Delivered(s) = [s EXCEPT !.sent = t, !.cursor = s.cursor + 1, !.lapped = b]
  BY <1>3 DEF t
<1>8. ASSUME ~b
      PROVE  /\ s.cursor + 1 = s.first + Len(t)
             /\ \A i \in 1 .. Len(t) : t[i] = s.first + i
  <2>1. ~s.lapped /\ l = s.cursor + 1
    BY <1>2, <1>5, <1>8
  <2>2. PICK n \in Nat : n = Len(s.sent)
    BY <1>6
  <2>3. s.cursor = s.first + n /\ s.first \in Nat /\ Len(t) = n + 1
    BY <1>1, <1>4, <1>6, <2>1, <2>2
  <2>4. \A i \in 1 .. n : t[i] = s.first + i
    BY <1>4, <1>6, <2>1, <2>2
  <2>5. t[n + 1] = s.first + (n + 1)
    BY <1>6, <2>1, <2>2, <2>3
  <2>6. \A i \in 1 .. n + 1 : i \in 1 .. n \/ i = n + 1
    BY <2>2
  <2>7. QED BY <2>3, <2>4, <2>5, <2>6
<1>9. StreamOK(Delivered(s))
  <2> DEFINE r == [s EXCEPT !.sent = t, !.cursor = s.cursor + 1, !.lapped = b]
  <2>0. s.cursor + 1 \in Nat
    BY <1>1
  <2>1. /\ r \in [pc : StreamPc, cursor : Nat, sent : Seq(Nat), first : Nat, lapped : BOOLEAN]
        /\ r.sent = t /\ r.cursor = s.cursor + 1 /\ r.first = s.first /\ r.lapped = b
    BY <1>1, <1>5, <1>6, <2>0
  <2> HIDE DEF r
  <2>2. r.cursor <= log_seq
    BY <1>1, <2>1
  <2>3. StreamOK(r)
    BY <1>8, <2>1, <2>2 DEF StreamOK
  <2>4. QED BY <1>7, <2>3 DEF r
<1>10. QED BY <1>9 DEF s

\* A handler that goes elsewhere sends nothing.
LEMMA MovedOK ==
    ASSUME RingInv, NEW c \in Clients, NEW l \in StreamPc
    PROVE  StreamOK([sse[c] EXCEPT !.pc = l])
<1>1. StreamOK(sse[c])
  BY DEF RingInv, RingTypeOK, CursorsBehind, StreamInOrder, StreamOK
<1>2. QED BY <1>1 DEF StreamOK

LEMMA LogOpenInv ==
    ASSUME RingInv, NEW c \in Clients, LogOpen(c)
    PROVE  RingInv'
<1> DEFINE n == log_seq - IF log_seq < RingSize THEN log_seq ELSE RingSize
           s == [NoStream EXCEPT !.pc = "backlog", !.cursor = n, !.first = n]
<1>1. log_seq \in Nat /\ RingSize \in Nat \ {0}
  BY RingAssumption DEF RingInv, RingTypeOK
<1>2. n \in Nat /\ n <= log_seq
  BY <1>1
<1>3. sse' = [sse EXCEPT ![c] = s] /\ UNCHANGED <<log_ring, log_seq>>
  BY DEF LogOpen
<1> HIDE DEF n
<1>4. NoStream \in [pc : StreamPc, cursor : Nat, sent : Seq(Nat), first : Nat, lapped : BOOLEAN]
  BY DEF NoStream, StreamPc
<1>5. NoStream.sent = <<>>
  BY DEF NoStream
<1>6. /\ s \in [pc : StreamPc, cursor : Nat, sent : Seq(Nat), first : Nat, lapped : BOOLEAN]
      /\ s.cursor = n /\ s.first = n /\ s.sent = <<>>
  BY <1>2, <1>4, <1>5 DEF StreamPc
<1> HIDE DEF s
<1>7. StreamOK(s)
  BY <1>2, <1>6 DEF StreamOK
<1>8. QED BY <1>3, <1>7, StreamStepInv

LEMMA LogHandlerInv ==
    ASSUME RingInv, NEW c \in Clients, LogStream(c) \/ LogClose(c)
    PROVE  RingInv'
<1>1. PICK s : /\ sse' = [sse EXCEPT ![c] = s]
               /\ UNCHANGED <<log_ring, log_seq>>
               /\ \/ sse[c].cursor < log_seq /\ s = Delivered(sse[c])
                  \/ \E l \in StreamPc : s = [sse[c] EXCEPT !.pc = l]
  <2>1. CASE LogBacklog(c)
    BY <2>1 DEF LogBacklog, StreamPc
  <2>2. CASE LogDrain(c)
    BY <2>2 DEF LogDrain, StreamPc
  <2>3. CASE LogWait(c) \/ LogTimeout(c) \/ LogClose(c)
    BY <2>3 DEF LogWait, LogTimeout, LogClose, StreamPc
  <2>4. QED BY <2>1, <2>2, <2>3 DEF LogStream
<1>2. StreamOK(s)
  BY <1>1, DeliveredOK, MovedOK
<1>3. QED BY <1>1, <1>2, StreamStepInv

LEMMA RingNextInv == RingInv /\ [RingNext]_ringVars => RingInv'
<1> SUFFICES ASSUME RingInv, [RingNext]_ringVars PROVE RingInv'
  OBVIOUS
<1>1. CASE LogPush
  BY <1>1, LogPushInv
<1>2. CASE \E c \in Clients : LogOpen(c) \/ LogStream(c) \/ LogClose(c)
  BY <1>2, LogOpenInv, LogHandlerInv
<1>3. CASE UNCHANGED ringVars
  BY <1>3 DEF ringVars, RingInv, RingTypeOK, LastTurnKept, RingSlot, CursorsBehind, StreamInOrder
<1>4. QED BY <1>1, <1>2, <1>3 DEF RingNext

\* A client of GET /logs that the ring has not lapped gets every line once and in
\* order, however long it kept its handler waiting (the SSE content provider).
THEOREM StreamsStayInOrder == RingSpec => []StreamInOrder
<1>1. RingInv => StreamInOrder
  BY DEF RingInv
<1>2. QED BY <1>1, RingInitInv, RingNextInv, PTL DEF RingSpec
=============================================================================
