------------------------- MODULE WorkerIsolation_proofs -------------------------
(***************************************************************************)
(* Proofs about ace-server with worker isolation, for any number of jobs,  *)
(* forks, crashes and GPUs.  The inductive invariant follows the talk with *)
(* the child: whatever a child has been given, computes or has written is  *)
(* about the one job the worker thread waits for, and nothing is left over *)
(* once it waits no longer.                                                *)
(***************************************************************************)
EXTENDS WorkerIsolation, FiniteSetTheorems, TLAPS

DispType == [pc : DispPc, job : Job \cup {None}, pid : Pid \cup {NoPid},
             gpu : Gpu \cup {DefaultGpu, None}, got : Frame]

ChildType == [st : LiveState \cup {"none", "dead", "reaped"},
              inbox : Job \cup {None}, job : Job \cup {None},
              flag : BOOLEAN, active : BOOLEAN, end : Ended \cup {"none"},
              ctrl : 0..Submits, loaded : Job \cup {None}, out : Frame]

\* The child the parent knows of, the one the worker thread awaits a HELLO or a
\* RESULT from.
Known == IF disp.pc = "hello" THEN disp.pid ELSE g_wk_pid
Boots(p) == disp.pc = "hello" /\ disp.pid = p
Talks(p) == disp.pc = "recv" /\ disp.pid = p

\* A child in state c: what it holds belongs to the job of the worker thread.
ChildOK(p, c) ==
    /\ p # Known => c.st \in {"none", "reaped"}
    /\ c.st = "booting" => Boots(p) /\ c.out.type = "none"
    /\ c.st \in {"computing", "replying"} => c.job # None
    /\ c.st = "replying" => c.end \in Ended
    /\ c.inbox # None => /\ Talks(p) /\ c.inbox = disp.job
                         /\ c.st = "serving" /\ c.out.type = "none"
    /\ c.job # None => /\ Talks(p) /\ c.job = disp.job
                       /\ c.st \in {"computing", "replying"} /\ c.out.type = "none"
    /\ c.out.type = "HELLO" => Boots(p)
    /\ c.out.type = "RESULT" => /\ Talks(p) /\ c.out.job = disp.job
                                /\ c.out.status \in Ended

TalkInv == \A p \in Pid : ChildOK(p, child[p])

\* Children are forked in turn.
ForkInv ==
    /\ \A p \in Pid : p > forked => child[p] = NoChild
    /\ g_wk_pid <= forked /\ disp.pid <= forked

\* The worker thread: what it has, and that the child counts as busy meanwhile.
DispInv ==
    /\ disp.pc # "idle" => disp.job \in Job
    /\ disp.pc \notin {"idle", "ensure"} => disp.pid \in Pid
    /\ disp.pc \in {"got", "store"} => disp.got.job = disp.job
    /\ disp.pc \in {"got", "store", "publish"} => disp.got.status \in Ended
    /\ disp.pc = "publish" => result[disp.job] = disp.job
    /\ g_wk_busy <=> disp.pc \in {"recv", "got", "lost"}

OwnInv == \A j \in Job : status[j] = "DONE" => result[j] = j

\* The jobs whose cancel has been forwarded: one CANCEL frame each.
Spent == {j \in Job : cancel[j] /\ cancelling[j] = "no"}

CtrlInv ==
    /\ \A j \in Job : cancelling[j] = "stored" => cancel[j]
    /\ \A p \in Pid : child[p].ctrl <= Cardinality(Spent)

IInv == TypeOK /\ TalkInv /\ ForkInv /\ DispInv /\ OwnInv /\ CtrlInv

-----------------------------------------------------------------------------
(***************************************************************************)
(* Facts every step uses                                                   *)
(***************************************************************************)
LEMMA Typing ==
    ASSUME TypeOK
    PROVE  /\ child \in [Pid -> ChildType] /\ disp \in DispType
           /\ Pid \subseteq Nat \ {0} /\ NoPid = 0 /\ None \notin Job
           /\ forked \in 0..Spawns /\ g_wk_pid \in Pid \cup {NoPid}
           /\ Spawns \in Nat /\ Submits \in Nat /\ Crashes \in Nat
BY WorkerIsolationAssumption DEF TypeOK, ChildType, DispType, Pid, NoPid, Job

LEMMA Frames ==
    /\ NoFrame \in Frame /\ NoFrame.type = "none"
    /\ Hello \in Frame /\ Hello.type = "HELLO"
    /\ \A j \in Job, s \in Ended : /\ Result(j, s) \in Frame /\ Result(j, s).type = "RESULT"
                                   /\ Result(j, s).job = j /\ Result(j, s).status = s
BY DEF NoFrame, Hello, Frame, Result, Ended

\* A child that is not there.
LEMMA NoChildType ==
    ASSUME Submits \in Nat
    PROVE  /\ NoChild \in ChildType /\ NoChild.st = "none" /\ NoChild.inbox = None
           /\ NoChild.job = None /\ NoChild.out = NoFrame /\ NoChild.ctrl = 0
           /\ NoChild.end = "none"
BY Frames DEF NoChild, ChildType

LEMMA Absent ==
    ASSUME Submits \in Nat, NEW st \in {"none", "dead", "reaped"}, NEW o \in Frame
    PROVE  LET c == [NoChild EXCEPT !.st = st]
               d == [NoChild EXCEPT !.st = st, !.out = o]
           IN  /\ c \in ChildType /\ c.st = st /\ c.inbox = None /\ c.job = None
               /\ c.out = NoFrame /\ c.ctrl = 0 /\ c.end = "none"
               /\ d \in ChildType /\ d.st = st /\ d.inbox = None /\ d.job = None
               /\ d.out = o /\ d.ctrl = 0 /\ d.end = "none"
BY NoChildType DEF ChildType

LEMMA ReapedChild ==
    /\ [NoChild EXCEPT !.st = "reaped"] \in ChildType
    /\ [NoChild EXCEPT !.st = "reaped"].st = "reaped"
    /\ [NoChild EXCEPT !.st = "reaped"].inbox = None
    /\ [NoChild EXCEPT !.st = "reaped"].job = None
    /\ [NoChild EXCEPT !.st = "reaped"].ctrl = 0
    /\ [NoChild EXCEPT !.st = "reaped"].out.type = "none"
BY Absent, Frames, WorkerIsolationAssumption

LEMMA JobsBounded ==
    ASSUME NEW S, S \subseteq Job
    PROVE  IsFiniteSet(S) /\ Cardinality(S) \in 0..Submits
<1>1. Submits \in Nat /\ S \subseteq 1..Submits
  BY WorkerIsolationAssumption DEF Job
<1>2. IsFiniteSet(1..Submits) /\ Cardinality(1..Submits) = Submits
  BY <1>1, FS_Interval
<1>3. IsFiniteSet(S) /\ Cardinality(S) <= Submits
  BY <1>1, <1>2, FS_Subset
<1>4. QED BY <1>1, <1>3, FS_CardinalityType

\* Every job is forwarded at most once.
LEMMA SpentBounded == IsFiniteSet(Spent) /\ Cardinality(Spent) \in 0..Submits
BY JobsBounded DEF Spent

LEMMA InitInv == Init => IInv
<1> SUFFICES ASSUME Init PROVE IInv
  OBVIOUS
<1>0. Submits \in Nat /\ Spawns \in Nat /\ Crashes \in Nat /\ NoPid = 0
  BY WorkerIsolationAssumption DEF NoPid
<1>1. TypeOK
  <2>1. child \in [Pid -> ChildType]
    BY <1>0, NoChildType DEF Init
  <2>2. disp \in DispType /\ disp.pc = "idle" /\ disp.pid = NoPid
    BY Frames DEF Init, IdleDisp, DispType, DispPc
  <2>3. created \in 0..Submits /\ forked \in 0..Spawns /\ crashed \in 0..Crashes
    BY <1>0 DEF Init
  <2>4. /\ wants \in [Job -> Gpu \cup {None}] /\ status \in [Job -> {"RUNNING"} \cup Ended]
        /\ cancel \in [Job -> BOOLEAN] /\ result \in [Job -> Job \cup {None}]
        /\ cancelling \in [Job -> {"no", "seen", "stored"}]
        /\ submitting \subseteq 1..created /\ g_work_queue \in Seq(Job)
    BY DEF Init
  <2>5. QED BY <2>1, <2>2, <2>3, <2>4 DEF TypeOK, Init, ChildType, DispType
<1>2. disp.pc = "idle" /\ disp.pid = NoPid /\ g_wk_pid = NoPid
  BY DEF Init, IdleDisp
<1>3. TalkInv
  BY <1>0, NoChildType, Frames DEF Init, TalkInv, ChildOK
<1>4. ForkInv /\ DispInv /\ OwnInv
  BY <1>0, <1>2 DEF Init, ForkInv, DispInv, OwnInv
<1>5. CtrlInv
  BY <1>0, <1>1, NoChildType, SpentBounded DEF Init, CtrlInv
<1>6. QED BY <1>1, <1>3, <1>4, <1>5 DEF IInv

-----------------------------------------------------------------------------
(***************************************************************************)
(* Handlers, and the clock                                                 *)
(***************************************************************************)
\* Whoever leaves the child, the worker thread and the results alone leaves
\* everything alone that was said about them.
LEMMA TalkKept ==
    ASSUME IInv, UNCHANGED <<child, disp, g_wk_pid, forked, g_wk_busy, status, result>>
    PROVE  TalkInv' /\ ForkInv' /\ DispInv' /\ OwnInv'
<1>1. TalkInv'
  BY DEF IInv, TalkInv, ChildOK, Known, Boots, Talks
<1>2. ForkInv' /\ DispInv' /\ OwnInv'
  BY DEF IInv, ForkInv, DispInv, OwnInv
<1>3. QED BY <1>1, <1>2

LEMMA CtrlKept ==
    ASSUME IInv, UNCHANGED <<cancel, cancelling>>, child' \in [Pid -> ChildType],
           \A p \in Pid : child'[p].ctrl <= child[p].ctrl
    PROVE  CtrlInv'
<1>1. Spent' = Spent /\ Cardinality(Spent) \in Int
  BY SpentBounded, WorkerIsolationAssumption DEF Spent, Job
<1>2. \A p \in Pid : child'[p].ctrl \in Int /\ child[p].ctrl \in Int
  BY Typing DEF IInv, ChildType
<1>3. QED BY <1>1, <1>2 DEF CtrlInv, IInv, Job, Pid

LEMMA RequestInv ==
    ASSUME IInv, \/ \E g \in Gpu \cup {None} : ParseGpuTarget(g)
                 \/ \E j \in Job : WorkPush(j)
    PROVE  IInv'
<1>1. /\ UNCHANGED <<clients, child, disp, g_wk_pid, g_wk_gpu, forked, crashed, g_wk_busy, status,
                     result, cancel, cancelling, watchdog>>
      /\ stale' \in BOOLEAN /\ TypeOK
  BY DEF IInv, TypeOK, ParseGpuTarget, WorkPush, Touch, statusVars, cancelVars, wkVars, idleVars,
         childVars
<1>2. /\ created' \in 0..Submits /\ created <= created'
      /\ wants' \in [Job -> Gpu \cup {None}] /\ g_next_gpu' \in Gpu \cup {None}
      /\ submitting' \subseteq 1..created' /\ g_work_queue' \in Seq(Job)
  <2>1. CASE \E g \in Gpu \cup {None} : ParseGpuTarget(g)
    BY <1>1, <2>1, WorkerIsolationAssumption DEF ParseGpuTarget, TypeOK, Job
  <2>2. CASE \E j \in Job : WorkPush(j)
    BY <1>1, <2>2 DEF WorkPush, TypeOK
  <2>3. QED BY <2>1, <2>2
<1>3. TypeOK'
  BY <1>1, <1>2 DEF TypeOK
<1>4. CtrlInv'
  <2>1. child' \in [Pid -> ChildType] /\ child' = child
    BY <1>1, Typing
  <2>2. \A p \in Pid : child'[p].ctrl <= child[p].ctrl
    BY <1>1, Typing DEF ChildType
  <2>3. QED BY <1>1, <2>1, <2>2, CtrlKept
<1>5. QED BY <1>1, <1>3, <1>4, TalkKept DEF IInv

LEMMA CancelInv ==
    ASSUME IInv, NEW j \in Job, CancelLoad(j) \/ CancelStore(j)
    PROVE  IInv'
<1>1. /\ UNCHANGED <<child, disp, g_wk_pid, forked, g_wk_busy, status, result>> /\ TypeOK
      /\ cancel' \in [Job -> BOOLEAN] /\ cancelling' \in [Job -> {"no", "seen", "stored"}]
      /\ stale' \in BOOLEAN
      /\ UNCHANGED <<jobVars, g_next_gpu, g_wk_gpu, watchdog, crashed>>
  BY DEF IInv, CancelLoad, CancelStore, Touch, statusVars, wkVars, idleVars, childVars, TypeOK
<1>2. TypeOK'
  BY <1>1 DEF jobVars, TypeOK
<1>3. CtrlInv'
  <2>1. Spent' = Spent
    <3>1. CASE CancelLoad(j)
      BY <1>1, <3>1 DEF CancelLoad, Spent, TypeOK, Job
    <3>2. CASE CancelStore(j)
      BY <1>1, <3>2 DEF CancelStore, Spent, TypeOK, Job
    <3>3. QED BY <3>1, <3>2
  <2>2. \A i \in Job : cancelling'[i] = "stored" => cancel'[i]
    BY <1>1 DEF CancelLoad, CancelStore, TypeOK, IInv, CtrlInv
  <2>3. QED BY <1>1, <2>1, <2>2 DEF IInv, CtrlInv, Job, Pid
<1>4. QED BY <1>1, <1>2, <1>3, TalkKept DEF IInv

LEMMA TimeInv ==
    ASSUME IInv, TimePasses \/ WatchdogArm \/ AnyRequest \/ ClientsLeave
    PROVE  IInv'
<1>1. /\ UNCHANGED <<created, wants, submitting, g_work_queue, statusVars, cancelVars, g_next_gpu, wkVars, g_wk_busy, disp, childVars>>
      /\ clients' \in BOOLEAN /\ stale' \in BOOLEAN /\ watchdog' \in {"sleeping", "armed"}
      /\ TypeOK
  BY DEF IInv, TypeOK, TimePasses, WatchdogArm, AnyRequest, ClientsLeave, Touch, jobVars, idleVars
<1>2. TypeOK'
  BY <1>1 DEF TypeOK, statusVars, cancelVars, wkVars, childVars
<1>3. /\ UNCHANGED <<child, disp, g_wk_pid, forked, g_wk_busy, status, result, cancel, cancelling>>
      /\ child' \in [Pid -> ChildType]
  BY <1>1, Typing DEF statusVars, cancelVars, wkVars, childVars
<1>4. CtrlInv'
  BY <1>3, CtrlKept, Typing DEF IInv, ChildType
<1>5. QED BY <1>2, <1>3, <1>4, TalkKept DEF IInv

\* One CANCEL frame more, and one job fewer that may send another.
LEMMA ForwardCancelInv ==
    ASSUME IInv, NEW j \in Job, ForwardCancel(j)
    PROVE  IInv'
<1>1. /\ UNCHANGED <<jobVars, statusVars, cancel, g_next_gpu, wkVars, idleVars, disp, watchdog,
                     forked, crashed>>
      /\ cancelling[j] = "stored" /\ cancelling' = [cancelling EXCEPT ![j] = "no"]
      /\ TypeOK /\ cancel[j]
  BY DEF ForwardCancel, IInv, CtrlInv
<1>2. /\ child \in [Pid -> ChildType] /\ Submits \in Nat
      /\ \A p \in Pid : child[p] \in ChildType /\ child[p].ctrl \in Nat
  BY Typing DEF IInv, ChildType
<1>3. Cardinality(Spent') = Cardinality(Spent) + 1 /\ Cardinality(Spent') \in 0..Submits
  <2>1. Spent' = Spent \cup {j} /\ j \notin Spent
    BY <1>1 DEF TypeOK, Spent, Job
  <2>2. Spent' \subseteq Job
    BY <2>1 DEF Spent
  <2>3. QED BY <2>1, <2>2, SpentBounded, JobsBounded, FS_AddElement
<1>4. /\ DOMAIN child' = Pid /\ child' = [p \in Pid |-> child'[p]]
      /\ \A p \in Pid : \E n \in {child[p].ctrl, child[p].ctrl + 1} :
            child'[p] = [child[p] EXCEPT !.ctrl = n]
  <2> DEFINE k == g_wk_pid
             f == [child EXCEPT ![k] = [child[k] EXCEPT !.ctrl = child[k].ctrl + 1]]
  <2>1. child' = IF Live(k) THEN f ELSE child
    BY DEF ForwardCancel
  <2>2. \A p \in Pid : child[p] = [child[p] EXCEPT !.ctrl = child[p].ctrl]
    BY <1>2 DEF ChildType
  <2>3. \A p \in Pid : f[p] = IF p = k THEN [child[p] EXCEPT !.ctrl = child[p].ctrl + 1]
                              ELSE child[p]
    BY <1>2
  <2>4. DOMAIN f = Pid /\ f = [p \in Pid |-> f[p]] /\ child = [p \in Pid |-> child[p]]
    BY <1>2
  <2> HIDE DEF f, k
  <2>5. CASE Live(k)
    BY <2>1, <2>2, <2>3, <2>4, <2>5
  <2>6. CASE ~ Live(k)
    BY <1>2, <2>1, <2>2, <2>4, <2>6
  <2>7. QED BY <2>5, <2>6
<1>5. \A p \in Pid : child'[p].ctrl \in 0..Submits /\ child'[p].ctrl <= Cardinality(Spent')
  <2> SUFFICES ASSUME NEW p \in Pid
               PROVE  child'[p].ctrl \in 0..Submits /\ child'[p].ctrl <= Cardinality(Spent')
    OBVIOUS
  <2> DEFINE m == Cardinality(Spent)
  <2>1. m \in Int /\ Cardinality(Spent') = m + 1 /\ m + 1 <= Submits
    BY <1>2, <1>3, SpentBounded
  <2>2. child[p].ctrl \in Nat /\ child[p].ctrl <= m
    BY <1>2 DEF IInv, CtrlInv
  <2>3. child'[p].ctrl \in {child[p].ctrl, child[p].ctrl + 1}
    BY <1>2, <1>4 DEF ChildType
  <2> HIDE DEF m
  <2>4. QED BY <1>2, <2>1, <2>2, <2>3
<1>6. child' \in [Pid -> ChildType]
  <2>1. \A p \in Pid : child'[p] \in ChildType
    <3> SUFFICES ASSUME NEW p \in Pid PROVE child'[p] \in ChildType
      OBVIOUS
    <3>1. PICK n : child'[p] = [child[p] EXCEPT !.ctrl = n]
      BY <1>4
    <3>2. n \in 0..Submits
      BY <1>2, <1>5, <3>1 DEF ChildType
    <3>3. QED BY <1>2, <3>1, <3>2 DEF ChildType
  <2>2. QED BY <1>4, <2>1
<1>7. TypeOK'
  BY <1>1, <1>6 DEF TypeOK, jobVars, statusVars, wkVars, idleVars, ChildType
<1>8. CtrlInv'
  BY <1>1, <1>5 DEF IInv, CtrlInv, TypeOK, Pid, Job
<1>9. ForkInv'
  <2>1. \A p \in Pid : p > forked => child'[p] = child[p]
    <3>1. forked \in Nat /\ g_wk_pid <= forked
      BY <1>1, Typing DEF IInv, ForkInv
    <3>2. Live(g_wk_pid) => g_wk_pid \in Pid
      BY DEF Live
    <3>3. QED BY <1>1, <1>2, <3>1, <3>2, Typing DEF ForwardCancel, Pid
  <2>2. QED BY <1>1, <2>1 DEF IInv, ForkInv, wkVars, Pid
<1>10. TalkInv'
  <2>1. \A p \in Pid : /\ child'[p].st = child[p].st /\ child'[p].inbox = child[p].inbox
                       /\ child'[p].job = child[p].job /\ child'[p].out = child[p].out
                       /\ child'[p].end = child[p].end
    <3> SUFFICES ASSUME NEW p \in Pid
                 PROVE  /\ child'[p].st = child[p].st /\ child'[p].inbox = child[p].inbox
                        /\ child'[p].job = child[p].job /\ child'[p].out = child[p].out
                        /\ child'[p].end = child[p].end
      OBVIOUS
    <3>1. PICK n : child'[p] = [child[p] EXCEPT !.ctrl = n]
      BY <1>4
    <3>2. QED BY <1>2, <3>1 DEF ChildType
  <2>2. UNCHANGED <<disp, g_wk_pid>>
    BY <1>1 DEF wkVars
  <2>3. QED BY <2>1, <2>2 DEF IInv, TalkInv, ChildOK, Known, Boots, Talks, Pid
<1>11. DispInv' /\ OwnInv'
  BY <1>1 DEF IInv, DispInv, OwnInv, statusVars, idleVars, Pid, Job
<1>12. QED BY <1>7, <1>8, <1>9, <1>10, <1>11 DEF IInv

\* The children once the known one was killed.
LEMMA KilledKnown ==
    ASSUME TypeOK
    PROVE  /\ Killed \in [Pid -> ChildType]
           /\ \A p \in Pid : Killed[p] = IF p = g_wk_pid THEN [NoChild EXCEPT !.st = "reaped"]
                                         ELSE child[p]
           /\ \A p \in Pid : Killed[p].ctrl <= child[p].ctrl
<1>1. /\ child \in [Pid -> ChildType] /\ Submits \in Nat /\ NoPid \notin Pid
      /\ \A p \in Pid : child[p] \in ChildType /\ child[p].ctrl \in Nat
  BY Typing DEF ChildType
<1>2. /\ [NoChild EXCEPT !.st = "reaped"] \in ChildType
      /\ [NoChild EXCEPT !.st = "reaped"].ctrl = 0
  BY <1>1, Absent, Frames
<1>3. \A p \in Pid : Killed[p] = IF p = g_wk_pid THEN [NoChild EXCEPT !.st = "reaped"]
                                 ELSE child[p]
  BY <1>1 DEF Killed, Reaped
<1>4. Killed \in [Pid -> ChildType]
  BY <1>1, <1>2 DEF Killed, Reaped
<1>5. ASSUME NEW p \in Pid PROVE Killed[p].ctrl <= child[p].ctrl
  <2>1. child[p].ctrl \in Nat
    BY <1>1
  <2>2. CASE p = g_wk_pid
    <3>1. Killed[p].ctrl = 0
      BY <1>2, <1>3, <2>2
    <3>2. QED BY <2>1, <3>1
  <2>3. CASE p # g_wk_pid
    BY <1>3, <2>1, <2>3
  <2>4. QED BY <2>2, <2>3
<1>6. QED BY <1>3, <1>4, <1>5

\* POST /unload and the watchdog.
LEMMA KillInv ==
    ASSUME IInv, Unload \/ WatchdogFire
    PROVE  IInv'
<1>1. /\ UNCHANGED <<jobVars, statusVars, cancelVars, g_next_gpu, g_wk_gpu, g_wk_busy, disp,
                     forked, crashed>>
      /\ watchdog' \in {"sleeping", "armed"} /\ stale' \in BOOLEAN /\ disp.pc # "hello" /\ TypeOK
  BY DEF IInv, Unload, WatchdogFire, Unlocked, KillWorker, Touch, wkVars, idleVars, childVars, TypeOK
<1>2. CASE UNCHANGED <<child, g_wk_pid>>
  <2>1. TypeOK'
    BY <1>1, <1>2 DEF TypeOK, jobVars, statusVars, cancelVars
  <2>2. CtrlInv'
    BY <1>1, <1>2, CtrlKept, Typing DEF IInv, ChildType, cancelVars
  <2>3. QED BY <1>1, <1>2, <2>1, <2>2, TalkKept DEF IInv, statusVars
<1>3. CASE child' = Killed /\ g_wk_pid' = NoPid
  <2>1. child' \in [Pid -> ChildType] /\ \A p \in Pid : child'[p].ctrl <= child[p].ctrl
    BY <1>1, <1>3, KilledKnown
  <2>2. TypeOK'
    BY <1>1, <1>3, <2>1 DEF TypeOK, jobVars, statusVars, cancelVars, ChildType
  <2>3. CtrlInv'
    BY <1>1, <2>1, CtrlKept DEF cancelVars
  <2>4. \A p \in Pid : child'[p] = IF p = g_wk_pid THEN [NoChild EXCEPT !.st = "reaped"]
                                   ELSE child[p]
    BY <1>1, <1>3, KilledKnown
  <2>5. ForkInv'
    BY <1>1, <1>3, <2>4, Typing DEF IInv, ForkInv, Pid
  <2>6. TalkInv'
    <3>1. /\ [NoChild EXCEPT !.st = "reaped"].st = "reaped"
          /\ [NoChild EXCEPT !.st = "reaped"].inbox = None
          /\ [NoChild EXCEPT !.st = "reaped"].job = None
          /\ [NoChild EXCEPT !.st = "reaped"].out.type = "none"
      BY <1>1, Absent, Frames, Typing
    <3>2. SUFFICES ASSUME NEW p \in Pid PROVE ChildOK(p, child[p])'
      BY DEF TalkInv, Pid
    <3>3. CASE p = g_wk_pid
      BY <1>1, <2>4, <3>1, <3>3 DEF ChildOK
    <3>4. CASE p # g_wk_pid
      BY <1>1, <1>3, <2>4, <3>4 DEF IInv, TalkInv, ChildOK, Known, Boots, Talks
    <3>5. QED BY <3>3, <3>4
  <2>7. DispInv' /\ OwnInv'
    BY <1>1 DEF IInv, DispInv, OwnInv, statusVars, Pid, Job
  <2>8. QED BY <2>2, <2>3, <2>5, <2>6, <2>7 DEF IInv
<1>4. QED BY <1>2, <1>3 DEF Unload, WatchdogFire, KillWorker, wkVars, childVars

-----------------------------------------------------------------------------
(***************************************************************************)
(* The worker thread                                                       *)
(***************************************************************************)
\* A step of the worker thread, put together from what it does to each part.
LEMMA DispatcherStep ==
    ASSUME IInv, UNCHANGED DispKeeps,
           disp' \in DispType, child' \in [Pid -> ChildType],
           \A p \in Pid : child'[p].ctrl <= child[p].ctrl,
           g_work_queue' \in Seq(Job),
           status' \in [Job -> {"RUNNING"} \cup Ended], result' \in [Job -> Job \cup {None}],
           g_wk_pid' \in Pid \cup {NoPid}, g_wk_gpu' \in Gpu \cup {DefaultGpu, None},
           g_wk_busy' \in BOOLEAN, stale' \in BOOLEAN,
           forked' \in 0..Spawns, crashed' = crashed,
           TalkInv', ForkInv', DispInv', OwnInv'
    PROVE  IInv'
<1>1. /\ UNCHANGED <<clients, created, wants, submitting, cancel, cancelling, g_next_gpu, watchdog>>
      /\ TypeOK
  BY DEF IInv, DispKeeps, cancelVars
<1>2. TypeOK'
  BY <1>1 DEF TypeOK, DispType, ChildType
<1>3. CtrlInv'
  BY <1>1, CtrlKept
<1>4. QED BY <1>2, <1>3 DEF IInv

\* While the worker thread talks to no child, only the known one is there at all, and
\* it has been given nothing and has written nothing but a HELLO.
LEMMA Quiet ==
    ASSUME TalkInv, disp.pc # "recv", NEW p \in Pid
    PROVE  /\ child[p].inbox = None /\ child[p].job = None
           /\ child[p].st \notin {"computing", "replying"}
           /\ child[p].out.type # "RESULT"
           /\ disp.pc # "hello" => child[p].st # "booting" /\ child[p].out.type # "HELLO"
           /\ p # Known => /\ child[p].st \in {"none", "reaped"}
                           /\ child[p].out.type # "HELLO"
BY DEF TalkInv, ChildOK, Talks, Boots, Known

LEMMA SettleOwn ==
    ASSUME IInv, NEW s \in Ended, status' = [status EXCEPT ![disp.job] = s], disp.job \in Job,
           s = "DONE" => disp.pc = "publish", result' = result
    PROVE  status' \in [Job -> {"RUNNING"} \cup Ended] /\ OwnInv'
<1>1. status \in [Job -> {"RUNNING"} \cup Ended]
  BY DEF IInv, TypeOK
<1>2. \A j \in Job : status'[j] = IF j = disp.job THEN s ELSE status[j]
  BY <1>1
<1>3. QED BY <1>1, <1>2 DEF IInv, DispInv, OwnInv, Job

LEMMA IdleType ==
    IdleDisp \in DispType /\ IdleDisp.pc = "idle" /\ IdleDisp.pid = NoPid
BY Frames DEF IdleDisp, DispType, DispPc

LEMMA TakeInv ==
    ASSUME IInv, Take
    PROVE  IInv'
<1>1. /\ TypeOK /\ TalkInv /\ UNCHANGED DispKeeps /\ disp.pc = "idle"
      /\ UNCHANGED <<status, result, g_wk_pid, g_wk_gpu, g_wk_busy, stale, child, forked, crashed>>
      /\ g_work_queue \in Seq(Job) /\ g_work_queue # <<>>
  BY DEF Take, IInv, TypeOK, statusVars, wkVars, idleVars, childVars
<1>2. Head(g_work_queue) \in Job /\ g_work_queue' \in Seq(Job)
  BY <1>1 DEF Take
<1>3. /\ disp' \in DispType /\ disp'.pc = "ensure" /\ disp'.job \in Job /\ disp'.pid = NoPid
  BY <1>2, IdleType DEF Take, DispType, DispPc
<1>4. child' \in [Pid -> ChildType] /\ \A p \in Pid : child'[p].ctrl <= child[p].ctrl
  BY <1>1, Typing DEF ChildType
<1>5. TalkInv'
  <2>1. SUFFICES ASSUME NEW p \in Pid PROVE ChildOK(p, child[p])'
    BY DEF TalkInv, Pid
  <2>2. QED BY <1>1, <1>3, Quiet, Typing DEF ChildOK, Known, Talks, Boots, TalkInv
<1>6. ForkInv' /\ DispInv' /\ OwnInv'
  BY <1>1, <1>3, Typing DEF IInv, ForkInv, DispInv, OwnInv, Pid, Job, NoPid
<1>7. QED BY <1>1, <1>2, <1>3, <1>4, <1>5, <1>6, DispatcherStep DEF TypeOK

\* RUN to the known child, which is quiet: it is the only one that gets a job.
LEMMA SendRunInv ==
    ASSUME IInv, UNCHANGED DispKeeps, g_work_queue' = g_work_queue, UNCHANGED <<forked, crashed>>,
           disp.pc \in {"ensure", "hello"}, NEW p \in Pid, p = Known, p <= forked,
           NEW g \in Gpu \cup {DefaultGpu, None},
           NEW ch \in [Pid -> ChildType], ch[p].out.type = "none", ch[p].st # "booting",
           ch[p].inbox = None, ch[p].job = None, ch[p].st \notin {"computing", "replying"},
           ch[p].ctrl = child[p].ctrl, \A q \in Pid \ {p} : ch[q] = child[q],
           SendRun(p, g, ch)
    PROVE  IInv'
<1>1. /\ TypeOK /\ TalkInv /\ disp \in DispType /\ disp.job \in Job
      /\ g_work_queue' \in Seq(Job) /\ g_wk_gpu' = g
      /\ \A q \in Pid : child[q].ctrl \in Nat /\ ch[q].ctrl = child[q].ctrl
      /\ Submits \in Nat
  <2>1. TypeOK /\ TalkInv /\ disp \in DispType /\ disp.job \in Job /\ Submits \in Nat
    BY Typing DEF IInv, DispInv
  <2>2. \A q \in Pid : child[q].ctrl \in Nat /\ ch[q].ctrl = child[q].ctrl
    BY <2>1, Typing DEF ChildType
  <2>3. g_work_queue' \in Seq(Job) /\ g_wk_gpu' = g
    BY <2>1 DEF TypeOK, SendRun
  <2>4. QED BY <2>1, <2>2, <2>3
<1>2. CASE ch[p].st \in LiveState
  <2>1. /\ child' = [ch EXCEPT ![p].inbox = disp.job]
        /\ disp' = [disp EXCEPT !.pc = "recv", !.pid = p, !.gpu = None]
        /\ g_wk_pid' = p /\ g_wk_busy' = TRUE /\ UNCHANGED <<status, result, stale>>
    BY <1>2 DEF SendRun, statusVars
  <2>2. /\ disp' \in DispType /\ disp'.pc = "recv" /\ disp'.pid = p /\ disp'.job = disp.job
    BY <1>1, <2>1 DEF DispType, DispPc
  <2>3. /\ child' \in [Pid -> ChildType]
        /\ child'[p].inbox = disp.job /\ child'[p].st = ch[p].st /\ child'[p].job = None
        /\ child'[p].out = ch[p].out /\ child'[p].ctrl = ch[p].ctrl /\ child'[p].end = ch[p].end
        /\ \A q \in Pid \ {p} : child'[q] = child[q]
    <3> DEFINE c == [ch[p] EXCEPT !.inbox = disp.job]
    <3>1. child' = [ch EXCEPT ![p] = c]
      BY <2>1
    <3>2. /\ c \in ChildType /\ c.inbox = disp.job /\ c.st = ch[p].st /\ c.job = None
          /\ c.out = ch[p].out /\ c.ctrl = ch[p].ctrl /\ c.end = ch[p].end
      BY <1>1 DEF ChildType
    <3> HIDE DEF c
    <3>3. QED BY <3>1, <3>2
  <2>4. \A q \in Pid : child'[q].ctrl <= child[q].ctrl
    BY <1>1, <2>3
  <2>5. TalkInv'
    <3>1. SUFFICES ASSUME NEW q \in Pid PROVE ChildOK(q, child[q])'
      BY DEF TalkInv, Pid
    <3>2. CASE q = p
      <4>1. ch[p].st = "serving"
        BY <1>2 DEF LiveState
      <4>2. QED BY <1>1, <2>1, <2>2, <2>3, <3>2, <4>1 DEF ChildOK, Known, Talks, Boots
    <3>3. CASE q # p
      BY <1>1, <2>1, <2>2, <2>3, <3>3, Quiet DEF ChildOK, Known, Talks, Boots
    <3>4. QED BY <3>2, <3>3
  <2>6. ForkInv'
    BY <1>1, <2>1, <2>2, <2>3, Typing DEF IInv, ForkInv, Pid
  <2>7. DispInv' /\ OwnInv'
    BY <1>1, <2>1, <2>2 DEF IInv, DispInv, OwnInv, Pid, Job
  <2>8. QED BY <1>1, <2>1, <2>2, <2>3, <2>4, <2>5, <2>6, <2>7, DispatcherStep, Typing DEF TypeOK
<1>3. CASE ch[p].st \notin LiveState
  <2>1. /\ child' = [ch EXCEPT ![p] = [NoChild EXCEPT !.st = "reaped"]]
        /\ disp' = IdleDisp /\ status' = [status EXCEPT ![disp.job] = "FAILED"]
        /\ g_wk_pid' = NoPid /\ g_wk_busy' = FALSE /\ stale' = FALSE /\ result' = result
    BY <1>3 DEF SendRun, Settle
  <2>2. /\ [NoChild EXCEPT !.st = "reaped"] \in ChildType
        /\ [NoChild EXCEPT !.st = "reaped"].st = "reaped"
        /\ [NoChild EXCEPT !.st = "reaped"].inbox = None
        /\ [NoChild EXCEPT !.st = "reaped"].job = None
        /\ [NoChild EXCEPT !.st = "reaped"].ctrl = 0
        /\ [NoChild EXCEPT !.st = "reaped"].out.type = "none"
    BY <1>1, Absent, Frames
  <2>3. /\ child' \in [Pid -> ChildType] /\ child'[p] = [NoChild EXCEPT !.st = "reaped"]
        /\ \A q \in Pid \ {p} : child'[q] = child[q]
    BY <2>1, <2>2
  <2>4. ASSUME NEW q \in Pid PROVE child'[q].ctrl <= child[q].ctrl
    <3>1. child[q].ctrl \in Nat
      BY <1>1
    <3>2. CASE q = p
      <4>1. child'[q].ctrl = 0
        BY <2>2, <2>3, <3>2
      <4>2. QED BY <3>1, <4>1
    <3>3. CASE q # p
      BY <2>3, <3>1, <3>3
    <3>4. QED BY <3>2, <3>3
  <2>5. TalkInv'
    <3>1. SUFFICES ASSUME NEW q \in Pid PROVE ChildOK(q, child[q])'
      BY DEF TalkInv, Pid
    <3>2. CASE q = p
      BY <2>2, <2>3, <3>2 DEF ChildOK
    <3>3. CASE q # p
      BY <1>1, <2>1, <2>3, <3>3, Quiet, IdleType DEF ChildOK, Known, Talks, Boots
    <3>4. QED BY <3>2, <3>3
  <2>6. ForkInv'
    BY <1>1, <2>1, <2>3, IdleType, Typing DEF IInv, ForkInv, Pid
  <2>7. status' \in [Job -> {"RUNNING"} \cup Ended] /\ OwnInv'
    BY <1>1, <2>1, SettleOwn DEF Ended
  <2>8. DispInv'
    BY <2>1, IdleType DEF DispInv
  <2>9. QED BY <1>1, <2>1, <2>3, <2>4, <2>5, <2>6, <2>7, <2>8, IdleType, DispatcherStep, Typing
            DEF TypeOK
<1>4. QED BY <1>2, <1>3

LEMMA SendInv ==
    ASSUME IInv, EnsureReuses \/ HelloArrives
    PROVE  IInv'
<1>1. /\ TypeOK /\ TalkInv /\ ForkInv /\ DispInv /\ child \in [Pid -> ChildType]
      /\ UNCHANGED DispKeeps /\ g_work_queue' = g_work_queue /\ UNCHANGED <<forked, crashed>>
  BY Typing DEF IInv, EnsureReuses, HelloArrives
<1>2. CASE EnsureReuses
  <2>1. /\ disp.pc = "ensure" /\ g_wk_pid \in Pid /\ g_wk_pid = Known /\ g_wk_pid <= forked
        /\ g_wk_gpu \in Gpu \cup {DefaultGpu, None} /\ SendRun(g_wk_pid, g_wk_gpu, child)
    BY <1>1, <1>2 DEF EnsureReuses, Usable, Known, ForkInv, TypeOK
  <2>2. child[g_wk_pid].out.type = "none"
    <3>1. child[g_wk_pid].out \in Frame
      BY <1>1, <2>1 DEF ChildType
    <3>2. QED BY <1>1, <2>1, <3>1, Quiet DEF Frame
  <2>3. QED BY <1>1, <2>1, <2>2, Quiet, SendRunInv
<1>3. CASE HelloArrives
  <2> DEFINE p == disp.pid
             ch == [child EXCEPT ![p].out = NoFrame]
  <2>1. /\ disp.pc = "hello" /\ p \in Pid /\ p = Known /\ p <= forked /\ child[p].out = Hello
        /\ disp.gpu \in Gpu \cup {DefaultGpu, None} /\ SendRun(p, disp.gpu, ch)
    BY <1>1, <1>3, Typing DEF HelloArrives, Known, ForkInv, DispInv, DispType
  <2>2. child[p].st # "booting"
    BY <1>1, <2>1, Frames DEF TalkInv, ChildOK
  <2> DEFINE c == [child[p] EXCEPT !.out = NoFrame]
  <2>3. /\ c \in ChildType /\ c.out = NoFrame /\ c.st = child[p].st /\ c.inbox = child[p].inbox
        /\ c.job = child[p].job /\ c.ctrl = child[p].ctrl
    BY <1>1, <2>1, Frames DEF ChildType
  <2>4. ch = [child EXCEPT ![p] = c]
    BY <1>1, <2>1
  <2> HIDE DEF c
  <2>5. /\ ch \in [Pid -> ChildType] /\ ch[p] = c /\ \A q \in Pid \ {p} : ch[q] = child[q]
    BY <1>1, <2>1, <2>3, <2>4
  <2> HIDE DEF ch
  <2>6. /\ child[p].inbox = None /\ child[p].job = None
        /\ child[p].st \notin {"computing", "replying"}
    BY <1>1, <2>1, Quiet
  <2> HIDE DEF p
  <2>7. QED BY <1>1, <2>1, <2>2, <2>3, <2>5, <2>6, Frames, SendRunInv
<1>4. QED BY <1>2, <1>3

\* The old child gone, a new one boots.
LEMMA EnsureSpawnsInv ==
    ASSUME IInv, EnsureSpawns
    PROVE  IInv'
<1> DEFINE n == forked + 1
           c == [NoChild EXCEPT !.st = "booting"]
<1>1. /\ TypeOK /\ TalkInv /\ ForkInv /\ DispInv /\ disp \in DispType /\ disp.job \in Job
      /\ UNCHANGED DispKeeps /\ g_work_queue' = g_work_queue
      /\ UNCHANGED <<status, result, g_wk_busy, stale, g_wk_gpu, crashed>>
      /\ g_wk_pid' = NoPid /\ disp.pc = "ensure" /\ forked' = n /\ n \in Pid /\ Submits \in Nat
  BY Typing DEF IInv, EnsureSpawns, statusVars, idleVars, DispInv, Pid
<1>2. /\ disp' = [disp EXCEPT !.pc = "hello", !.pid = n, !.gpu = WantGpu]
      /\ child' = [Killed EXCEPT ![n].st = "booting"]
  BY DEF EnsureSpawns
<1>3. WantGpu \in Gpu \cup {DefaultGpu, None}
  BY <1>1 DEF WantGpu, TypeOK
<1>4. disp' \in DispType /\ disp'.pc = "hello" /\ disp'.pid = n /\ disp'.job = disp.job
  BY <1>1, <1>2, <1>3 DEF DispType, DispPc
<1>5. Killed[n] = NoChild /\ child[n] = NoChild
  <2>1. n > forked /\ n # g_wk_pid
    BY <1>1, Typing DEF ForkInv, Pid, NoPid
  <2>2. child[n] = NoChild
    BY <1>1, <2>1 DEF ForkInv
  <2>3. QED BY <1>1, <2>1, <2>2, KilledKnown
<1>6. /\ c \in ChildType /\ c.st = "booting" /\ c.inbox = None /\ c.job = None
      /\ c.out.type = "none" /\ c.ctrl = 0
  BY <1>1, NoChildType, Frames DEF ChildType, LiveState
<1>7. child' = [Killed EXCEPT ![n] = c]
  BY <1>1, <1>2, <1>5, KilledKnown
<1> HIDE DEF c
<1>8. /\ child' \in [Pid -> ChildType] /\ child'[n] = c
      /\ \A q \in Pid \ {n} : child'[q] = Killed[q]
  BY <1>1, <1>6, <1>7, KilledKnown
<1>9. \A q \in Pid : child'[q].ctrl <= child[q].ctrl
  BY <1>1, <1>5, <1>6, <1>8, KilledKnown, NoChildType
<1>10. \A q \in Pid \ {n} : /\ child'[q].st \in {"none", "reaped"} /\ child'[q].inbox = None
                            /\ child'[q].job = None
                            /\ child'[q].out.type \notin {"HELLO", "RESULT"}
  <2>1. SUFFICES ASSUME NEW q \in Pid \ {n}
                 PROVE  /\ Killed[q].st \in {"none", "reaped"} /\ Killed[q].inbox = None
                        /\ Killed[q].job = None /\ Killed[q].out.type \notin {"HELLO", "RESULT"}
    BY <1>8
  <2>2. CASE q = g_wk_pid
    BY <1>1, <2>2, KilledKnown, ReapedChild
  <2>3. CASE q # g_wk_pid
    BY <1>1, <2>3, KilledKnown, Quiet DEF Known
  <2>4. QED BY <2>2, <2>3
<1>11. TalkInv'
  <2>1. SUFFICES ASSUME NEW q \in Pid PROVE ChildOK(q, child[q])'
    BY DEF TalkInv, Pid
  <2>2. CASE q = n
    BY <1>4, <1>6, <1>8, <2>2 DEF ChildOK, Known, Talks, Boots
  <2>3. CASE q # n
    BY <1>10, <2>3 DEF ChildOK
  <2>4. QED BY <2>2, <2>3
<1>12. ForkInv'
  <2>1. \A q \in Pid : q > n => child'[q] = NoChild
    <3>1. SUFFICES ASSUME NEW q \in Pid, q > n PROVE child'[q] = NoChild
      OBVIOUS
    <3>2. q # n /\ q > forked /\ q # g_wk_pid
      BY <1>1, <3>1, Typing DEF ForkInv, Pid, NoPid
    <3>3. QED BY <1>1, <1>8, <3>2, KilledKnown DEF ForkInv
  <2>2. g_wk_pid' <= n /\ disp'.pid <= n
    BY <1>1, <1>4, Typing
  <2>3. QED BY <1>1, <2>1, <2>2 DEF ForkInv, Pid
<1>13. DispInv' /\ OwnInv'
  BY <1>1, <1>4 DEF IInv, DispInv, OwnInv, Pid, Job
<1>14. QED
  <2>1. forked' \in 0..Spawns
    BY <1>1, Typing DEF Pid
  <2> HIDE DEF n
  <2>2. QED BY <1>1, <1>4, <1>8, <1>9, <1>11, <1>12, <1>13, <2>1, DispatcherStep DEF TypeOK

\* The job ends with a status other than DONE, or with the one in the frame; a child
\* that is gone is reset.
LEMMA EndsInv ==
    ASSUME IInv, UNCHANGED <<DispKeeps, g_work_queue, result, forked, crashed>>,
           NEW s \in Ended, Settle(s), disp.pc \notin {"idle", "recv", "hello"},
           s = "DONE" => disp.pc = "publish",
           g_wk_gpu' = g_wk_gpu, stale' \in BOOLEAN, g_wk_busy' = FALSE,
           \/ child' = child /\ g_wk_pid' = g_wk_pid
           \/ child' = Killed /\ g_wk_pid' = NoPid
    PROVE  IInv'
<1>1. /\ TypeOK /\ TalkInv /\ disp.job \in Job /\ disp' = IdleDisp
      /\ status' = [status EXCEPT ![disp.job] = s]
      /\ child \in [Pid -> ChildType] /\ Submits \in Nat
  BY Typing DEF IInv, DispInv, Settle
<1>2. status' \in [Job -> {"RUNNING"} \cup Ended] /\ OwnInv'
  BY <1>1, SettleOwn
<1>3. /\ child' \in [Pid -> ChildType] /\ \A p \in Pid : child'[p].ctrl <= child[p].ctrl
      /\ g_wk_pid' \in Pid \cup {NoPid}
      /\ \A p \in Pid : \/ child'[p] = child[p] /\ (p = g_wk_pid => g_wk_pid' = g_wk_pid)
                        \/ child'[p] = [NoChild EXCEPT !.st = "reaped"] /\ p = g_wk_pid
  <2>1. CASE child' = child /\ g_wk_pid' = g_wk_pid
    BY <1>1, <2>1 DEF TypeOK, ChildType
  <2>2. CASE child' = Killed /\ g_wk_pid' = NoPid
    BY <1>1, <2>2, KilledKnown
  <2>3. QED BY <2>1, <2>2
<1>4. TalkInv'
  <2>1. SUFFICES ASSUME NEW p \in Pid PROVE ChildOK(p, child[p])'
    BY DEF TalkInv, Pid
  <2>2. CASE child'[p] = child[p] /\ (p = g_wk_pid => g_wk_pid' = g_wk_pid)
    BY <1>1, <2>2, Quiet, IdleType DEF ChildOK, Known, Talks, Boots
  <2>3. CASE child'[p] = [NoChild EXCEPT !.st = "reaped"]
    BY <2>3, ReapedChild DEF ChildOK
  <2>4. QED BY <1>3, <2>2, <2>3
<1>5. ForkInv'
  <2>1. forked \in Nat /\ NoPid = 0
    BY <1>1, Typing
  <2>2. ASSUME NEW p \in Pid, p > forked PROVE child'[p] = NoChild
    <3>1. p # g_wk_pid
      BY <1>1, <2>1, <2>2, Typing DEF IInv, ForkInv, Pid
    <3>2. QED BY <1>3, <2>2, <3>1 DEF IInv, ForkInv
  <2>3. g_wk_pid' <= forked /\ disp'.pid <= forked
    BY <1>1, <2>1, IdleType DEF IInv, ForkInv
  <2>4. QED BY <2>2, <2>3 DEF ForkInv, Pid
<1>6. DispInv'
  BY <1>1, IdleType DEF DispInv
<1>7. QED
  <2>1. disp' \in DispType /\ g_work_queue' \in Seq(Job) /\ forked' \in 0..Spawns
        /\ result' \in [Job -> Job \cup {None}] /\ g_wk_gpu' \in Gpu \cup {DefaultGpu, None}
        /\ UNCHANGED DispKeeps /\ crashed' = crashed
    BY <1>1, IdleType DEF TypeOK
  <2>2. g_wk_busy' \in BOOLEAN
    OBVIOUS
  <2>3. QED BY <1>2, <1>3, <1>4, <1>5, <1>6, <2>1, <2>2, DispatcherStep

LEMMA FailsInv ==
    ASSUME IInv, EnsureFails \/ FinishLost \/ Publish
    PROVE  IInv'
<1>1. TypeOK /\ DispInv
  BY DEF IInv
<1>2. CASE EnsureFails
  <2>1. /\ UNCHANGED <<DispKeeps, g_work_queue, result, forked, crashed>> /\ disp.pc = "ensure"
        /\ Settle("FAILED") /\ g_wk_gpu' = g_wk_gpu /\ stale' = stale /\ g_wk_busy' = g_wk_busy
        /\ child' = Killed /\ g_wk_pid' = NoPid
    BY <1>2 DEF EnsureFails, KillWorker, idleVars
  <2>2. stale' \in BOOLEAN /\ g_wk_busy' = FALSE /\ "FAILED" \in Ended
    BY <1>1, <2>1 DEF TypeOK, DispInv, Ended
  <2>3. QED BY <2>1, <2>2, EndsInv
<1>3. CASE FinishLost
  <2> DEFINE s == IF cancel[disp.job] THEN "CANCELLED" ELSE "FAILED"
  <2>1. /\ UNCHANGED <<DispKeeps, g_work_queue, result, forked, crashed>> /\ disp.pc = "lost"
        /\ Settle(s) /\ g_wk_gpu' = g_wk_gpu /\ stale' \in BOOLEAN /\ g_wk_busy' = FALSE
        /\ \/ child' = child /\ g_wk_pid' = g_wk_pid
           \/ child' = Killed /\ g_wk_pid' = NoPid
    BY <1>3 DEF FinishLost, KillWorker, wkVars, childVars
  <2>2. s \in Ended /\ s # "DONE"
    BY DEF Ended
  <2> HIDE DEF s
  <2>3. QED BY <2>1, <2>2, EndsInv
<1>4. CASE Publish
  <2>1. /\ UNCHANGED <<DispKeeps, g_work_queue, result, forked, crashed>> /\ disp.pc = "publish"
        /\ Settle(disp.got.status) /\ g_wk_gpu' = g_wk_gpu /\ stale' = stale
        /\ g_wk_busy' = g_wk_busy /\ child' = child /\ g_wk_pid' = g_wk_pid
    BY <1>4 DEF Publish, idleVars, wkVars, childVars
  <2>2. stale' \in BOOLEAN /\ g_wk_busy' = FALSE /\ disp.got.status \in Ended
    BY <1>1, <2>1 DEF TypeOK, DispInv
  <2>3. QED BY <2>1, <2>2, EndsInv
<1>5. QED BY <1>2, <1>3, <1>4

\* The child that died before its HELLO is reaped.
LEMMA HelloFailsInv ==
    ASSUME IInv, HelloFails
    PROVE  IInv'
<1> DEFINE p == disp.pid
<1>1. /\ TypeOK /\ TalkInv /\ disp.job \in Job /\ disp' = IdleDisp /\ disp.pc = "hello"
      /\ p \in Pid /\ p = Known /\ child' = Reaped(p)
      /\ status' = [status EXCEPT ![disp.job] = "FAILED"]
      /\ UNCHANGED <<DispKeeps, g_work_queue, result, g_wk_pid, g_wk_gpu, g_wk_busy, stale,
                     forked, crashed>>
      /\ child \in [Pid -> ChildType]
  BY Typing DEF IInv, DispInv, HelloFails, Settle, wkVars, idleVars, Known
<1> HIDE DEF p
<1>2. /\ child' \in [Pid -> ChildType] /\ child'[p] = [NoChild EXCEPT !.st = "reaped"]
      /\ \A q \in Pid \ {p} : child'[q] = child[q]
  BY <1>1, ReapedChild DEF Reaped
<1>3. ASSUME NEW q \in Pid PROVE child'[q].ctrl <= child[q].ctrl
  <2>1. child[q].ctrl \in Nat
    BY <1>1 DEF ChildType
  <2>2. CASE q = p
    <3>1. child'[q].ctrl = 0
      BY <1>2, <2>2, ReapedChild
    <3>2. QED BY <2>1, <3>1
  <2>3. CASE q # p
    BY <1>2, <2>1, <2>3
  <2>4. QED BY <2>2, <2>3
<1>4. TalkInv'
  <2>1. SUFFICES ASSUME NEW q \in Pid PROVE ChildOK(q, child[q])'
    BY DEF TalkInv, Pid
  <2>2. CASE q = p
    BY <1>2, <2>2, ReapedChild DEF ChildOK
  <2>3. CASE q # p
    BY <1>1, <1>2, <2>3, Quiet, IdleType DEF ChildOK, Known, Talks, Boots
  <2>4. QED BY <2>2, <2>3
<1>5. ForkInv'
  <2>1. p <= forked /\ p \in Nat /\ forked \in Nat /\ NoPid = 0
    BY <1>1, Typing DEF IInv, ForkInv, p
  <2>2. ASSUME NEW q \in Pid, q > forked PROVE child'[q] = NoChild
    <3>1. q # p
      BY <2>1, <2>2
    <3>2. QED BY <1>2, <2>2, <3>1 DEF IInv, ForkInv
  <2>3. g_wk_pid' <= forked /\ disp'.pid <= forked
    BY <1>1, <2>1, IdleType DEF IInv, ForkInv
  <2>4. QED BY <1>1, <2>2, <2>3 DEF ForkInv, Pid
<1>6. status' \in [Job -> {"RUNNING"} \cup Ended] /\ OwnInv'
  BY <1>1, SettleOwn DEF Ended
<1>7. DispInv'
  BY <1>1, IdleType DEF IInv, DispInv
<1>8. QED BY <1>1, <1>2, <1>3, <1>4, <1>5, <1>6, <1>7, IdleType, DispatcherStep DEF TypeOK

\* The RESULT is read: the child has nothing left.
LEMMA RecvResultInv ==
    ASSUME IInv, RecvResult
    PROVE  IInv'
<1> DEFINE p == disp.pid
           c == [child[p] EXCEPT !.out = NoFrame]
<1>1. /\ TypeOK /\ TalkInv /\ disp.job \in Job /\ disp.pc = "recv"
      /\ p \in Pid /\ child[p].out.type = "RESULT"
      /\ UNCHANGED <<DispKeeps, g_work_queue, status, result, g_wk_pid, g_wk_gpu, g_wk_busy, stale,
                     forked, crashed>>
      /\ child \in [Pid -> ChildType] /\ disp \in DispType
      /\ disp' = [disp EXCEPT !.pc = "got", !.got = child[p].out]
  BY Typing DEF IInv, DispInv, RecvResult, statusVars, wkVars, idleVars
<1>2. child' = [child EXCEPT ![p] = c]
  BY <1>1 DEF RecvResult
<1>3. /\ c \in ChildType /\ c.out = NoFrame /\ c.st = child[p].st /\ c.inbox = child[p].inbox
      /\ c.job = child[p].job /\ c.ctrl = child[p].ctrl /\ c.end = child[p].end
      /\ child[p].out \in Frame
  BY <1>1, Frames DEF ChildType
<1>4. /\ disp' \in DispType /\ disp'.pc = "got" /\ disp'.got = child[p].out
      /\ disp'.pid = p /\ disp'.job = disp.job
  BY <1>1, <1>3 DEF DispType, DispPc
<1>5. /\ child[p].out.job = disp.job /\ child[p].out.status \in Ended
      /\ child[p].inbox = None /\ child[p].job = None
      /\ child[p].st \notin {"booting", "computing", "replying"}
  BY <1>1 DEF TalkInv, ChildOK
<1> HIDE DEF c, p
<1>6. /\ child' \in [Pid -> ChildType] /\ child'[p] = c
      /\ \A q \in Pid \ {p} : child'[q] = child[q]
  BY <1>1, <1>2, <1>3
<1>7. \A q \in Pid : child'[q].ctrl = child[q].ctrl /\ child[q].ctrl \in Nat
  BY <1>1, <1>3, <1>6 DEF ChildType
<1>8. TalkInv'
  <2>1. SUFFICES ASSUME NEW q \in Pid PROVE ChildOK(q, child[q])'
    BY DEF TalkInv, Pid
  <2>2. CASE q = p
    BY <1>1, <1>3, <1>4, <1>5, <1>6, <2>2, Frames DEF TalkInv, ChildOK, Known, Talks, Boots
  <2>3. CASE q # p
    BY <1>1, <1>4, <1>6, <2>3 DEF TalkInv, ChildOK, Known, Talks, Boots, p
  <2>4. QED BY <2>2, <2>3
<1>9. ForkInv'
  <2>1. p <= forked /\ p \in Nat /\ forked \in Nat
    BY <1>1, Typing DEF IInv, ForkInv, p
  <2>2. ASSUME NEW q \in Pid, q > forked PROVE child'[q] = NoChild
    <3>1. q # p
      BY <2>1, <2>2
    <3>2. QED BY <1>6, <2>2, <3>1 DEF IInv, ForkInv
  <2>3. QED BY <1>1, <1>4, <2>1, <2>2 DEF IInv, ForkInv, Pid
<1>10. DispInv' /\ OwnInv'
  BY <1>1, <1>4, <1>5 DEF IInv, DispInv, OwnInv, Pid, Job
<1>11. QED BY <1>1, <1>4, <1>6, <1>7, <1>8, <1>9, <1>10, DispatcherStep DEF TypeOK

\* Steps of the worker thread that leave the children alone.
LEMMA MovesOnInv ==
    ASSUME IInv, RecvFails \/ FinishGot \/ StoreResult
    PROVE  IInv'
<1>1. /\ TypeOK /\ TalkInv /\ DispInv /\ disp.job \in Job /\ disp.pid \in Pid /\ disp \in DispType
      /\ disp.pc \in {"recv", "got", "store"}
      /\ UNCHANGED <<DispKeeps, g_work_queue, status, g_wk_pid, g_wk_gpu, child, forked, crashed>>
      /\ child \in [Pid -> ChildType]
  BY Typing DEF IInv, DispInv, RecvFails, FinishGot, StoreResult, statusVars, wkVars, idleVars,
                childVars
<1>2. PICK l \in {"lost", "store", "publish"} : disp' = [disp EXCEPT !.pc = l]
  BY DEF RecvFails, FinishGot, StoreResult
<1>3. /\ disp' \in DispType /\ disp'.pc = l /\ disp'.job = disp.job /\ disp'.pid = disp.pid
      /\ disp'.got = disp.got
  BY <1>1, <1>2 DEF DispType, DispPc
<1>4. /\ l = "lost" => RecvFails
      /\ l = "store" => FinishGot
      /\ l = "publish" => StoreResult
  <2>1. RecvFails => disp' = [disp EXCEPT !.pc = "lost"]
    BY DEF RecvFails
  <2>2. FinishGot => disp' = [disp EXCEPT !.pc = "store"]
    BY DEF FinishGot
  <2>3. StoreResult => disp' = [disp EXCEPT !.pc = "publish"]
    BY DEF StoreResult
  <2>4. QED BY <1>1, <1>3, <2>1, <2>2, <2>3 DEF DispType
<1>5. /\ result' \in [Job -> Job \cup {None}] /\ OwnInv'
      /\ l = "publish" => result'[disp.job] = disp.job
  <2>1. CASE StoreResult
    <3>1. result' = [result EXCEPT ![disp.job] = disp.job]
      BY <1>1, <2>1 DEF StoreResult, DispInv
    <3>2. QED BY <1>1, <3>1 DEF IInv, OwnInv, TypeOK, Job
  <2>2. CASE RecvFails \/ FinishGot
    <3>1. result' = result /\ ~ StoreResult
      BY <2>2 DEF RecvFails, FinishGot, StoreResult, statusVars
    <3>2. QED BY <1>1, <1>4, <3>1 DEF IInv, OwnInv, TypeOK, Job
  <2>3. QED BY <2>1, <2>2
<1>6. /\ g_wk_busy' \in BOOLEAN /\ stale' \in BOOLEAN
      /\ g_wk_busy' <=> l = "lost"
  <2>1. CASE RecvFails
    <3>1. l = "lost"
      BY <1>4, <2>1 DEF RecvFails, FinishGot, StoreResult
    <3>2. QED BY <1>1, <2>1, <3>1 DEF RecvFails, idleVars, DispInv, TypeOK
  <2>2. CASE FinishGot
    <3>1. l # "lost"
      BY <1>4, <2>2 DEF RecvFails, FinishGot
    <3>2. QED BY <2>2, <3>1 DEF FinishGot
  <2>3. CASE StoreResult
    <3>1. l # "lost"
      BY <1>4, <2>3 DEF RecvFails, StoreResult
    <3>2. QED BY <1>1, <2>3, <3>1 DEF StoreResult, idleVars, DispInv, TypeOK
  <2>4. QED BY <2>1, <2>2, <2>3
<1>7. DispInv'
  BY <1>1, <1>3, <1>4, <1>5, <1>6 DEF DispInv, RecvFails, FinishGot, StoreResult, Pid, Job
<1>8. TalkInv'
  <2>1. SUFFICES ASSUME NEW p \in Pid PROVE ChildOK(p, child[p])'
    BY DEF TalkInv, Pid
  <2>2. ChildOK(p, child[p])
    BY <1>1 DEF TalkInv
  <2>3. CASE disp.pc # "recv"
    BY <1>1, <1>2, <1>3, <2>2, <2>3 DEF ChildOK, Known, Talks, Boots
  <2>4. CASE disp.pc = "recv" /\ p = disp.pid
    <3>1. RecvFails
      BY <2>4 DEF RecvFails, FinishGot, StoreResult
    <3>2. child[p].st \in {"dead", "reaped"} /\ child[p].out.type = "none"
      BY <2>4, <3>1, Frames DEF RecvFails
    <3>3. QED BY <1>1, <1>2, <1>3, <2>2, <2>4, <3>2 DEF ChildOK, Known, Talks, Boots
  <2>5. CASE disp.pc = "recv" /\ p # disp.pid
    BY <1>1, <1>2, <1>3, <2>2, <2>5 DEF ChildOK, Known, Talks, Boots
  <2>6. QED BY <2>3, <2>4, <2>5
<1>9. ForkInv'
  BY <1>1, <1>3 DEF IInv, ForkInv, Pid
<1>10. QED
  <2>1. \A p \in Pid : child'[p].ctrl <= child[p].ctrl
    BY <1>1 DEF ChildType
  <2>2. QED BY <1>1, <1>3, <1>5, <1>6, <1>7, <1>8, <1>9, <2>1, DispatcherStep DEF TypeOK

-----------------------------------------------------------------------------
(***************************************************************************)
(* The child                                                               *)
(***************************************************************************)
\* A step of child p to state c.
LEMMA ChildStepInv ==
    ASSUME IInv, NEW p \in Pid, child[p].st # "none", NEW c \in ChildType,
           child' = [child EXCEPT ![p] = c], c.ctrl <= child[p].ctrl, ChildOK(p, c),
           UNCHANGED <<jobVars, statusVars, cancelVars, g_next_gpu, wkVars, idleVars, disp,
                       watchdog, forked>>,
           crashed' \in 0..Crashes
    PROVE  IInv'
<1>1. /\ UNCHANGED <<clients, created, wants, submitting, g_work_queue, status, result, cancel,
                     cancelling, g_next_gpu, g_wk_pid, g_wk_gpu, g_wk_busy, stale, disp, watchdog, forked>>
      /\ TypeOK /\ child \in [Pid -> ChildType]
  BY Typing DEF IInv, jobVars, statusVars, cancelVars, wkVars, idleVars
<1>2. /\ child' \in [Pid -> ChildType] /\ child'[p] = c
      /\ \A q \in Pid \ {p} : child'[q] = child[q]
  BY <1>1
<1>3. TypeOK'
  BY <1>1, <1>2 DEF TypeOK, ChildType
<1>4. TalkInv'
  <2>1. \A q \in Pid : ChildOK(q, child'[q])
    BY <1>2 DEF IInv, TalkInv
  <2>2. QED BY <1>1, <2>1 DEF TalkInv, ChildOK, Known, Talks, Boots, Pid
<1>5. ForkInv'
  <2>1. ~ (p > forked)
    BY NoChildType, WorkerIsolationAssumption DEF IInv, ForkInv
  <2>2. \A q \in Pid : q > forked => child'[q] = NoChild
    BY <1>2, <2>1 DEF IInv, ForkInv
  <2>3. QED BY <1>1, <2>2 DEF IInv, ForkInv, Pid
<1>6. DispInv' /\ OwnInv'
  BY <1>1 DEF IInv, DispInv, OwnInv, Pid, Job
<1>7. CtrlInv'
  <2>1. \A q \in Pid : child'[q].ctrl <= child[q].ctrl
    BY <1>1, <1>2 DEF ChildType
  <2>2. QED BY <1>1, <1>2, <2>1, CtrlKept
<1>8. QED BY <1>3, <1>4, <1>5, <1>6, <1>7 DEF IInv

\* What is known of a child that takes a step.
LEMMA ChildFacts ==
    ASSUME IInv, NEW p \in Pid
    PROVE  /\ child \in [Pid -> ChildType] /\ child[p] \in ChildType /\ child[p].ctrl \in 0..Submits
           /\ ChildOK(p, child[p]) /\ Submits \in Nat
           /\ crashed \in 0..Crashes /\ Crashes \in Nat
<1>1. child \in [Pid -> ChildType] /\ Submits \in Nat /\ crashed \in 0..Crashes /\ Crashes \in Nat
  BY Typing DEF IInv, TypeOK
<1>2. child[p] \in ChildType /\ child[p].ctrl \in 0..Submits
  BY <1>1 DEF ChildType
<1>3. QED BY <1>1, <1>2 DEF IInv, TalkInv

LEMMA ChildHelloInv ==
    ASSUME IInv, NEW p \in Pid, ChildHello(p)
    PROVE  IInv'
<1> DEFINE k == child[p]
           c == [k EXCEPT !.st = "serving", !.out = Hello]
<1>1. /\ child \in [Pid -> ChildType] /\ k \in ChildType /\ k.ctrl \in 0..Submits /\ ChildOK(p, k)
      /\ Submits \in Nat /\ crashed \in 0..Crashes
  BY ChildFacts
<1>2. k.st = "booting" /\ child' = [child EXCEPT ![p] = c] /\ UNCHANGED ChildKeeps
  BY <1>1 DEF ChildHello
<1> HIDE DEF k
<1>3. /\ c \in ChildType /\ c.st = "serving" /\ c.out = Hello /\ c.inbox = k.inbox
      /\ c.job = k.job /\ c.ctrl = k.ctrl
  BY <1>1, Frames DEF ChildType, LiveState
<1> HIDE DEF c
<1>4. ChildOK(p, c)
  BY <1>1, <1>2, <1>3, Frames DEF ChildOK
<1>5. c.ctrl <= k.ctrl /\ k.st # "none"
  BY <1>1, <1>2, <1>3
<1>6. /\ UNCHANGED <<jobVars, statusVars, cancelVars, g_next_gpu, wkVars, idleVars, disp,
                      watchdog, forked>>
      /\ crashed' \in 0..Crashes
  BY <1>1, <1>2 DEF ChildKeeps
<1>7. QED BY <1>1, <1>2, <1>3, <1>4, <1>5, <1>6, ChildStepInv DEF k

LEMMA ChildRunInv ==
    ASSUME IInv, NEW p \in Pid, ChildRun(p)
    PROVE  IInv'
<1> DEFINE k == child[p]
           c == [k EXCEPT !.st = "computing", !.job = k.inbox, !.inbox = None, !.flag = FALSE,
                          !.active = TRUE]
<1>1. /\ child \in [Pid -> ChildType] /\ k \in ChildType /\ k.ctrl \in 0..Submits /\ ChildOK(p, k)
      /\ Submits \in Nat /\ crashed \in 0..Crashes
  BY ChildFacts
<1>2. /\ k.st = "serving" /\ k.inbox # None
      /\ child' = [child EXCEPT ![p] = c] /\ UNCHANGED ChildKeeps
  BY <1>1 DEF ChildRun
<1> HIDE DEF k
<1>3. /\ c \in ChildType /\ c.st = "computing" /\ c.out = k.out /\ c.inbox = None
      /\ c.job = k.inbox /\ c.ctrl = k.ctrl
  BY <1>1 DEF ChildType, LiveState
<1> HIDE DEF c
<1>4. ChildOK(p, c)
  BY <1>1, <1>2, <1>3 DEF ChildOK
<1>5. c.ctrl <= k.ctrl /\ k.st # "none"
  BY <1>1, <1>2, <1>3
<1>6. /\ UNCHANGED <<jobVars, statusVars, cancelVars, g_next_gpu, wkVars, idleVars, disp,
                      watchdog, forked>>
      /\ crashed' \in 0..Crashes
  BY <1>1, <1>2 DEF ChildKeeps
<1>7. QED BY <1>1, <1>2, <1>3, <1>4, <1>5, <1>6, ChildStepInv DEF k

LEMMA ChildEndsInv ==
    ASSUME IInv, NEW p \in Pid, ChildEnds(p)
    PROVE  IInv'
<1> DEFINE k == child[p]
<1>1. /\ child \in [Pid -> ChildType] /\ k \in ChildType /\ k.ctrl \in 0..Submits /\ ChildOK(p, k)
      /\ Submits \in Nat /\ crashed \in 0..Crashes
  BY ChildFacts
<1>2. PICK s \in Ended : child' = [child EXCEPT ![p] = [k EXCEPT !.st = "replying", !.end = s]]
  BY <1>1 DEF ChildEnds, Ended
<1> DEFINE c == [k EXCEPT !.st = "replying", !.end = s]
<1>3. k.st = "computing" /\ UNCHANGED ChildKeeps
  BY DEF ChildEnds
<1> HIDE DEF k
<1>4. /\ c \in ChildType /\ c.st = "replying" /\ c.out = k.out /\ c.inbox = k.inbox
      /\ c.job = k.job /\ c.ctrl = k.ctrl /\ c.end = s
  BY <1>1 DEF ChildType, LiveState
<1>5. child' = [child EXCEPT ![p] = c]
  BY <1>2 DEF k
<1> HIDE DEF c
<1>6. ChildOK(p, c)
  BY <1>1, <1>3, <1>4 DEF ChildOK
<1>7. c.ctrl <= k.ctrl /\ k.st # "none"
  BY <1>1, <1>3, <1>4
<1>8. /\ UNCHANGED <<jobVars, statusVars, cancelVars, g_next_gpu, wkVars, idleVars, disp,
                      watchdog, forked>>
      /\ crashed' \in 0..Crashes
  BY <1>1, <1>3, <1>5 DEF ChildKeeps
<1>9. QED BY <1>1, <1>3, <1>5, <1>4, <1>6, <1>7, <1>8, ChildStepInv DEF k

\* Neither the flags nor the pointer of the CONTROL reader matter to the talk.
LEMMA FlagsInv ==
    ASSUME IInv, NEW p \in Pid, ChildDeactivates(p) \/ ReaderLoads(p) \/ ReaderStores(p)
    PROVE  IInv'
<1> DEFINE k == child[p]
<1>1. /\ child \in [Pid -> ChildType] /\ k \in ChildType /\ k.ctrl \in 0..Submits /\ ChildOK(p, k)
      /\ Submits \in Nat /\ crashed \in 0..Crashes
  BY ChildFacts
<1>2. UNCHANGED ChildKeeps /\ k.st # "none"
  BY DEF ChildDeactivates, ReaderLoads, ReaderStores, Live, LiveState
<1>3. PICK c \in ChildType : /\ child' = [child EXCEPT ![p] = c] /\ c.ctrl <= k.ctrl
                             /\ c.st = k.st /\ c.out = k.out /\ c.inbox = k.inbox
                             /\ c.job = k.job /\ c.end = k.end
  <2>1. CASE ChildDeactivates(p)
    <3> DEFINE c == [k EXCEPT !.active = FALSE]
    <3>1. child' = [child EXCEPT ![p] = c]
      BY <1>1, <2>1 DEF ChildDeactivates
    <3> HIDE DEF k
    <3>2. /\ c \in ChildType /\ c.ctrl = k.ctrl /\ c.st = k.st /\ c.out = k.out
          /\ c.inbox = k.inbox /\ c.job = k.job /\ c.end = k.end
      BY <1>1 DEF ChildType
    <3>3. c.ctrl <= k.ctrl
      BY <1>1, <3>2
    <3>4. QED BY <3>1, <3>2, <3>3
  <2>2. CASE ReaderLoads(p)
    <3> DEFINE n == k.ctrl - 1
               l == IF k.active THEN k.job ELSE None
               c == [k EXCEPT !.ctrl = n, !.loaded = l]
    <3>1. child' = [child EXCEPT ![p] = c] /\ k.ctrl > 0
      BY <1>1, <2>2 DEF ReaderLoads
    <3>2. n \in 0..Submits /\ n <= k.ctrl /\ l \in Job \cup {None}
      BY <1>1, <3>1 DEF ChildType
    <3> HIDE DEF k, n, l
    <3>3. /\ c \in ChildType /\ c.ctrl = n /\ c.st = k.st /\ c.out = k.out
          /\ c.inbox = k.inbox /\ c.job = k.job /\ c.end = k.end
      BY <1>1, <3>2 DEF ChildType
    <3>4. QED BY <3>1, <3>2, <3>3
  <2>3. CASE ReaderStores(p)
    <3>1. PICK hit \in BOOLEAN :
             child' = [child EXCEPT ![p].loaded = None, ![p].flag = k.flag \/ hit]
      BY <1>1, <2>3 DEF ReaderStores
    <3> DEFINE f == k.flag \/ hit
               c == [k EXCEPT !.loaded = None, !.flag = f]
    <3>2. child' = [child EXCEPT ![p] = c] /\ f \in BOOLEAN
      BY <1>1, <3>1
    <3> HIDE DEF k, f
    <3>3. /\ c \in ChildType /\ c.ctrl = k.ctrl /\ c.st = k.st /\ c.out = k.out
          /\ c.inbox = k.inbox /\ c.job = k.job /\ c.end = k.end
      BY <1>1, <3>2 DEF ChildType
    <3>4. c.ctrl <= k.ctrl
      BY <1>1, <3>3
    <3>5. QED BY <3>2, <3>3, <3>4
  <2>4. QED BY <2>1, <2>2, <2>3
<1>4. ChildOK(p, c)
  BY <1>1, <1>3 DEF ChildOK
<1>5. QED BY <1>1, <1>2, <1>3, <1>4, ChildStepInv DEF ChildKeeps

\* The RESULT goes out, of the job it was given.
LEMMA ChildRepliesInv ==
    ASSUME IInv, NEW p \in Pid, ChildReplies(p)
    PROVE  IInv'
<1> DEFINE k == child[p]
           r == Result(k.job, k.end)
           c == [k EXCEPT !.st = "serving", !.out = r, !.job = None, !.flag = FALSE, !.end = "none"]
<1>1. /\ child \in [Pid -> ChildType] /\ k \in ChildType /\ k.ctrl \in 0..Submits /\ ChildOK(p, k)
      /\ Submits \in Nat /\ crashed \in 0..Crashes
  BY ChildFacts
<1>2. /\ k.st = "replying" /\ child' = [child EXCEPT ![p] = c] /\ UNCHANGED ChildKeeps
  BY <1>1 DEF ChildReplies
<1>3. k.job \in Job /\ k.end \in Ended
  BY <1>1, <1>2 DEF ChildOK, ChildType
<1> HIDE DEF k
<1>4. r \in Frame /\ r.type = "RESULT" /\ r.job = k.job /\ r.status = k.end
  BY <1>3, Frames
<1> HIDE DEF r
<1>5. /\ c \in ChildType /\ c.st = "serving" /\ c.out = r /\ c.inbox = k.inbox
      /\ c.job = None /\ c.ctrl = k.ctrl
  BY <1>1, <1>4 DEF ChildType, LiveState
<1> HIDE DEF c
<1>6. ChildOK(p, c)
  BY <1>1, <1>2, <1>3, <1>4, <1>5 DEF ChildOK
<1>7. c.ctrl <= k.ctrl /\ k.st # "none"
  BY <1>1, <1>2, <1>5
<1>8. /\ UNCHANGED <<jobVars, statusVars, cancelVars, g_next_gpu, wkVars, idleVars, disp,
                      watchdog, forked>>
      /\ crashed' \in 0..Crashes
  BY <1>1, <1>2 DEF ChildKeeps
<1>9. QED BY <1>1, <1>2, <1>5, <1>6, <1>7, <1>8, ChildStepInv DEF k

\* A crash leaves what was written.
LEMMA CrashInv ==
    ASSUME IInv, NEW p \in Pid, Crash(p)
    PROVE  IInv'
<1> DEFINE k == child[p]
           c == [NoChild EXCEPT !.st = "dead", !.out = k.out]
<1>1. /\ child \in [Pid -> ChildType] /\ k \in ChildType /\ k.ctrl \in 0..Submits /\ ChildOK(p, k)
      /\ Submits \in Nat /\ crashed \in 0..Crashes /\ Crashes \in Nat
  BY ChildFacts
<1>2. /\ k.st \in LiveState /\ child' = [child EXCEPT ![p] = c] /\ crashed' \in 0..Crashes
      /\ UNCHANGED <<jobVars, statusVars, cancelVars, g_next_gpu, wkVars, idleVars, disp,
                     watchdog, forked>>
  BY <1>1 DEF Crash, Live
<1>3. k.out \in Frame
  BY <1>1 DEF ChildType
<1> HIDE DEF k
<1>4. /\ c \in ChildType /\ c.st = "dead" /\ c.inbox = None /\ c.job = None /\ c.out = k.out
      /\ c.ctrl = 0
  BY <1>1, <1>3, Absent, ZenonT(30)
<1> HIDE DEF c
<1>5. ChildOK(p, c)
  BY <1>1, <1>2, <1>4 DEF ChildOK, LiveState
<1>6. c.ctrl <= k.ctrl /\ k.st # "none"
  BY <1>1, <1>2, <1>4 DEF LiveState
<1>7. QED BY <1>1, <1>2, <1>4, <1>5, <1>6, ChildStepInv DEF k

LEMMA NextInv == IInv /\ [Next]_vars => IInv'
<1> SUFFICES ASSUME IInv, [Next]_vars PROVE IInv'
  OBVIOUS
<1>1. CASE \/ \E g \in Gpu \cup {None} : ParseGpuTarget(g)
           \/ \E j \in Job : WorkPush(j) \/ CancelLoad(j) \/ CancelStore(j) \/ ForwardCancel(j)
  BY <1>1, RequestInv, CancelInv, ForwardCancelInv
<1>2. CASE \/ Unload \/ AnyRequest \/ ClientsLeave
           \/ TimePasses \/ WatchdogArm \/ WatchdogFire
  BY <1>2, KillInv, TimeInv
<1>3. CASE Dispatcher
  BY <1>3, TakeInv, SendInv, EnsureSpawnsInv, FailsInv, HelloFailsInv, RecvResultInv, MovesOnInv
     DEF Dispatcher
<1>4. CASE \E p \in Pid : ChildStep(p) \/ ReaderStep(p) \/ Crash(p)
  BY <1>4, ChildHelloInv, ChildRunInv, ChildEndsInv, FlagsInv, ChildRepliesInv, CrashInv
     DEF ChildStep, ReaderStep
<1>5. CASE UNCHANGED vars
  <2>1. /\ UNCHANGED <<child, disp, g_wk_pid, forked, g_wk_busy, status, result, cancel, cancelling>>
        /\ TypeOK
    BY <1>5 DEF vars, statusVars, cancelVars, wkVars, idleVars, childVars, IInv
  <2>2. TypeOK'
    BY <1>5, <2>1 DEF vars, jobVars, statusVars, cancelVars, wkVars, idleVars, childVars, TypeOK
  <2>3. CtrlInv'
    BY <2>1, CtrlKept, Typing DEF ChildType
  <2>4. QED BY <2>1, <2>2, <2>3, TalkKept DEF IInv
<1>6. QED BY <1>1, <1>2, <1>3, <1>4, <1>5 DEF Next

LEMMA Invariance == Spec => []IInv
BY InitInv, NextInv, PTL DEF Spec

-----------------------------------------------------------------------------
(***************************************************************************)
(* The properties                                                          *)
(***************************************************************************)
\* No child is orphaned and no two of them hold the GPUs: ensure_worker_locked kills
\* before it forks, whoever unloads or crashes meanwhile.
THEOREM OneChildAtMost == Spec => []OneKnownChild
<1>1. ASSUME IInv PROVE OneKnownChild
  <2>1. \A p \in Extant : p = Known
    BY <1>1 DEF IInv, TalkInv, ChildOK, Extant
  <2>2. Extant \subseteq {g_wk_pid} \cup (IF disp.pc = "hello" THEN {disp.pid} ELSE {})
    BY <2>1 DEF Known
  <2>3. IsFiniteSet({Known}) /\ Cardinality({Known}) = 1 /\ Extant \subseteq {Known}
    BY <2>1, FS_Singleton
  <2>4. Cardinality(Extant) <= 1
    BY <2>3, FS_Subset
  <2>5. QED BY <2>2, <2>4 DEF OneKnownChild
<1>2. QED BY <1>1, Invariance, PTL

\* RESULT frames carry no job id, and still a job that is DONE has its own output
\* (dispatch_remote, worker_run_loop).
THEOREM ResultsAreTheirOwn == Spec => []ResultIsItsOwn
<1>1. ASSUME IInv PROVE ResultIsItsOwn
  <2>1. Created \subseteq Job
    BY <1>1, WorkerIsolationAssumption DEF IInv, TypeOK, Created, Job
  <2>2. QED BY <1>1, <2>1 DEF IInv, OwnInv, ResultIsItsOwn
<1>2. QED BY <1>1, Invariance, PTL

\* The second look of worker_watchdog_main, with the lock, keeps it off a child that
\* has a RUN in flight.
THEOREM WatchdogStaysOff == Spec => WatchdogSparesBusy
<1>1. ASSUME IInv, [Next]_vars
      PROVE  [watchdog = "armed" /\ watchdog' = "sleeping" /\ disp.pc \in {"recv", "got"}
                => g_wk_pid' = g_wk_pid]_vars
  <2>1. SUFFICES ASSUME Next, watchdog = "armed", watchdog' = "sleeping",
                        disp.pc \in {"recv", "got"}
                 PROVE  g_wk_pid' = g_wk_pid
    BY <1>1
  <2>2. WatchdogFire
    BY <2>1 DEF Next, ParseGpuTarget, WorkPush, CancelLoad, CancelStore, ForwardCancel, Unload,
                AnyRequest, ClientsLeave, TimePasses, WatchdogArm, Dispatcher, Take, EnsureReuses, EnsureSpawns, EnsureFails,
                HelloArrives, HelloFails, RecvResult, RecvFails, FinishGot, FinishLost, StoreResult,
                DispKeeps, ChildStep, ChildHello, ChildRun, ChildEnds, ChildDeactivates,
                ChildReplies, ReaderStep, ReaderLoads, ReaderStores, Crash, ChildKeeps, Publish
  <2>3. g_wk_busy
    BY <1>1, <2>1 DEF IInv, DispInv
  <2>4. QED BY <2>2, <2>3 DEF WatchdogFire, wkVars
<1>2. QED BY <1>1, Invariance, PTL DEF Spec, WatchdogSparesBusy
=============================================================================
