------------------------------ MODULE Pipelines ------------------------------
(***************************************************************************)
(* The pipelines over the model store: what each kind of job requires,     *)
(* holds and releases, in which order, and what it does when a module      *)
(* cannot be loaded or a computation fails or is cancelled.                *)
(*                                                                         *)
(*   synth       src/src/pipeline-synth.cpp and -ops.cpp, run over groups  *)
(*               of requests by src/tools/synth-batch-runner.h             *)
(*   lm          ace_lm_generate       (src/src/pipeline-lm.cpp)           *)
(*   understand  ace_understand_generate (src/src/pipeline-understand.cpp) *)
(*   encode, decode   the /vae workers (src/tools/ace-server.cpp)          *)
(*                                                                         *)
(* One job runs at a time: the server has one worker thread.  A job is a   *)
(* sequence of steps; the steps that use the store are its actions.        *)
(***************************************************************************)
EXTENDS ModelStore, Sequences

CONSTANTS
    Groups,         \* how many groups of requests a synth job may have
    outer, inner    \* the ModelHandle objects: of a function, of a scope within

ModuleKind == {"LM", "TEXT_ENC", "COND_ENC", "FSQ_TOK", "FSQ_DETOK", "DIT", "VAE_ENC", "VAE_DEC"}

ASSUME PipelineAssumption ==
    /\ outer # inner /\ Handle = {outer, inner}
    /\ Groups \subseteq Nat \ {0}
    /\ \A kind \in ModuleKind : \E k \in ModelKey : k.kind = kind

VARIABLES
    job,        \* the job being run, or NULL
    group,      \* the group it has reached
    phase,      \* "dit", then "vae" for a synth job
    at,         \* index of the next step of the program of that phase
    jobs,       \* the groups whose AceSynthJob exists
    slots       \* the groups whose audio_out slots were written

pipe == <<job, group, phase, at, jobs, slots>>

\* Where audio or latents come from; latents win over audio.
Input == {"none", "audio", "latents"}

\* "cover-nofsq" stands for extract, complete and lego as well, "repaint" for
\* lego with a region: they use the store in the same way.
Jobs ==
    [op : {"synth"}, src : Input, ref : Input, codes : BOOLEAN, groups : Groups,
     task : {"text2music", "cover", "cover-nofsq", "repaint"}]
    \cup
    [op : {"lm", "encode", "decode"}, src : {"none"}] \cup
    [op : {"understand"}, src : Input]

\* The key a pipeline builds for a kind of module.
KeyOf(kind) == CHOOSE k \in ModelKey : k.kind = kind
-----------------------------------------------------------------------------
(***************************************************************************)
(* Programs.  A step says what it does and where a job goes from there     *)
(* when the module or table is not to be had, or the work on it fails:     *)
(* "next", "skip" (the step after the next one) or "stop".  "never" marks  *)
(* work that cannot fail.                                                  *)
(*   scope   require, work, release, within one C++ scope                  *)
(*   pin     require a module that the steps up to unpin run under         *)
(*   table   an accessor of the store's CPU side                           *)
(*   check   work that needs no module                                     *)
(***************************************************************************)
Step(do, kind, null, fail) == [do |-> do, kind |-> kind, null |-> null, fail |-> fail]
Scope(kind, null, fail) == <<Step("scope", kind, null, fail)>>
Pin(kind) == <<Step("pin", kind, "stop", "never")>>
Unpin == <<Step("unpin", "none", "stop", "never")>>
Table(t) == <<Step("table", t, "stop", "never")>>
Check == <<Step("check", "none", "stop", "stop")>>
If(c, steps) == IF c THEN steps ELSE <<>>

\* need_vae_pin: one side at least goes through the encoder (text2music
\* passes no source).
SrcOf(j) == IF j.task = "text2music" THEN "none" ELSE j.src
NeedVaePin(j) == "audio" \in {SrcOf(j), j.ref}

\* pinned_encode_src_and_timbre: a source that fails stops the job, a timbre
\* that fails is replaced by silence.
EncodeSrcAndTimbre(j) ==
    If(NeedVaePin(j), Pin("VAE_ENC"))
    \o If(SrcOf(j) = "audio", Scope("VAE_ENC", "stop", "stop"))
    \o If(j.ref = "audio", Scope("VAE_ENC", "next", "next"))
    \o If(NeedVaePin(j), Unpin)

\* ops_fsq_roundtrip reports nothing: a failure leaves the clean latents.
FsqRoundtrip == Scope("FSQ_TOK", "skip", "skip") \o Scope("FSQ_DETOK", "next", "next")

EncodeTextTogetherBug ==
    Table("bpe") \o Pin("TEXT_ENC") \o Scope("COND_ENC", "stop", "never") \o Unpin

\* ops_encode_text in its two phases.
EncodeText ==
    Table("bpe") \o Scope("TEXT_ENC", "stop", "never") \o Scope("COND_ENC", "stop", "never")

\* Codes are only looked at without a source.
DecodesCodes(j) == SrcOf(j) = "none" /\ j.codes

\* run_tail: the checks are ops_resolve_T (no length, or too long).
RunTail(j) ==
    Check \o EncodeText
    \o If(DecodesCodes(j), Scope("FSQ_DETOK", "stop", "stop"))
    \o Scope("DIT", "stop", "stop")

Refuses(j) == j.task # "text2music" /\ j.src = "none"

\* ace_synth_job_run_dit: every task but text2music refuses to run without a
\* source; repaint also checks its region, after the encoding.
DitProgram(j) ==
    If(Refuses(j), <<Step("refuse", "none", "stop", "stop")>>)
    \o EncodeSrcAndTimbre(j)
    \o If(j.task = "cover", FsqRoundtrip)
    \o If(j.task = "repaint", Check)
    \o RunTail(j)

\* ops_vae_decode: a track that fails leaves its slot empty and the others
\* go on; only a missing decoder or a cancel stops the job.
VaeProgram == Scope("VAE_DEC", "stop", "stop")

\* ace_lm_generate and the decoding of ace_understand_generate: the LM is
\* held to the end of the call, tables included.
LmProgram == Pin("LM") \o Table("bpe") \o Table("fsm") \o Check \o Unpin

UnderstandProgram(j) ==
    If(j.src = "none", <<Step("refuse", "none", "stop", "stop")>>)
    \o If(j.src = "audio", Scope("VAE_ENC", "stop", "stop"))
    \o Table("silence") \o Scope("FSQ_TOK", "stop", "stop")
    \o LmProgram

\* The workers of the server first resolve names against the registry.
Program ==
    CASE job.op = "synth" /\ phase = "load" -> Check \o Table("dit_meta")
      [] job.op = "synth" /\ phase = "dit"  -> DitProgram(job)
      [] job.op = "synth" /\ phase = "vae"  -> VaeProgram
      [] job.op = "lm"                      -> Check \o LmProgram
      [] job.op = "understand"              -> Check \o UnderstandProgram(job)
      [] job.op = "encode"                  -> Check \o Scope("VAE_ENC", "stop", "stop")
      [] job.op = "decode"                  -> Check \o Scope("VAE_DEC", "stop", "stop")

Busy == proc = "running" /\ job # NULL /\ at > 0
Stopping == proc = "running" /\ job # NULL /\ at = 0

InProgram == Busy /\ at <= Len(Program)
Doing(what) == InProgram /\ Program[at].do = what
-----------------------------------------------------------------------------
PipeInit ==
    /\ Init
    /\ job = NULL /\ group = 0 /\ phase = "load" /\ at = 0
    /\ jobs = {} /\ slots = {}

\* The worker takes a job from the queue; synth_worker loads its context.
StartJob ==
    /\ proc = "running" /\ job = NULL
    /\ job' \in Jobs
    /\ group' = 1 /\ phase' = "load" /\ at' = 1
    /\ slots' = {}
    /\ UNCHANGED <<vars, jobs>>

\* Going on, skipping a step, or unwinding (at = 0).
Goto(where) ==
    /\ at' = CASE where = "next" -> at + 1
               [] where = "skip" -> at + 2
               [] where = "stop" -> 0
    /\ UNCHANGED <<job, group, phase, jobs, slots>>

HandleOf(step) == IF step.do = "pin" THEN outer ELSE inner

\* A require, whatever its outcome: a pin goes on, a scope works on what it
\* got, NULL leads where the step says; an abort or exit ends the process.
Acquire ==
    /\ Doing("pin") \/ (Doing("scope") /\ handle[inner] = NULL)
    /\ LET step == Program[at]
           h == HandleOf(step)
       IN  /\ Require(h, KeyOf(step.kind))
           /\ IF proc' # "running" THEN UNCHANGED pipe
              ELSE IF handle'[h] = NULL THEN Goto(step.null)
              ELSE IF step.do = "pin" THEN Goto("next")
              ELSE UNCHANGED pipe

LeakyFinishBug ==
    /\ Doing("scope") /\ handle[inner] # NULL
    /\ \/ Release(inner) /\ Goto("next")
       \/ Program[at].fail # "never" /\ Goto(Program[at].fail) /\ UNCHANGED vars

\* The work of a scope is done or failed: its ModelHandle goes either way.
Finish ==
    /\ Doing("scope") /\ handle[inner] # NULL
    /\ Release(inner)
    /\ \/ Goto("next")
       \/ Program[at].fail # "never" /\ Goto(Program[at].fail)

Unhold == Doing("unpin") /\ Release(outer) /\ Goto("next")

\* store_bpe, store_silence, store_fsm, store_dit_meta: found, loaded, NULL.
ReadTable ==
    /\ Doing("table")
    /\ \E p \in CpuPath :
          LET t == Program[at].kind
          IN  \/ <<t, p>> \in cpu /\ Goto("next") /\ UNCHANGED vars
              \/ CpuLoad(t, p) /\ Goto("next")
              \/ t = "fsm" /\ FsmLoad(p) /\ Goto("next")
              \/ <<t, p>> \notin cpu /\ Goto("stop") /\ UNCHANGED vars

\* A check passes or fails; a refusal always fails.
Verify ==
    /\ Doing("check") \/ Doing("refuse")
    /\ (Doing("check") /\ Goto("next")) \/ Goto("stop")
    /\ UNCHANGED vars
-----------------------------------------------------------------------------
(***************************************************************************)
(* synth_batch_run: all groups through phase 1, then all through phase 2   *)
(***************************************************************************)
AtEnd == Busy /\ at > Len(Program)

\* alloc_job, before anything a group does; a refusal comes earlier still.
BeginGroup(g) == IF Refuses(job) THEN jobs ELSE jobs \cup {g}

\* The context is loaded: the first group starts.
Loaded ==
    /\ AtEnd /\ job.op = "synth" /\ phase = "load"
    /\ phase' = "dit" /\ at' = 1 /\ jobs' = BeginGroup(1)
    /\ UNCHANGED <<vars, job, group, slots>>

NextGroup ==
    /\ AtEnd /\ job.op = "synth" /\ phase = "dit" /\ group < job.groups
    /\ group' = group + 1 /\ at' = 1 /\ jobs' = BeginGroup(group + 1)
    /\ UNCHANGED <<vars, job, phase, slots>>

ToPhase2EarlyBug ==
    /\ AtEnd /\ job.op = "synth" /\ phase = "dit"
    /\ phase' = "vae" /\ group' = 1 /\ at' = 1
    /\ UNCHANGED <<vars, job, jobs, slots>>

ToPhase2 ==
    /\ AtEnd /\ job.op = "synth" /\ phase = "dit" /\ group = job.groups
    /\ phase' = "vae" /\ group' = 1 /\ at' = 1
    /\ UNCHANGED <<vars, job, jobs, slots>>

\* The AceSynthJob of a group is freed as soon as it is decoded.
NextDecode ==
    /\ AtEnd /\ job.op = "synth" /\ phase = "vae" /\ group < job.groups
    /\ group' = group + 1 /\ at' = 1
    /\ jobs' = jobs \ {group} /\ slots' = slots \cup {group}
    /\ UNCHANGED <<vars, job, phase>>

EndJob ==
    /\ AtEnd /\ (job.op = "synth" => phase = "vae" /\ group = job.groups)
    /\ job' = NULL /\ at' = 0
    /\ jobs' = jobs \ {group}
    /\ slots' = IF job.op = "synth" THEN slots \cup {group} ELSE slots
    /\ UNCHANGED <<vars, group, phase>>

\* What the runner deletes when group fails: in phase 1 the group itself (its
\* task function does that) and those before it, in phase 2 the group and
\* those after it.
FreedOnlyAfterBug == {g \in jobs : g >= group}

FreedOnFailure ==
    IF phase = "vae" THEN {g \in jobs : g >= group} ELSE {g \in jobs : g <= group}

\* return -1 all the way up: destructors run, the runner frees its jobs.
Unwind ==
    /\ Stopping
    /\ IF handle[outer] # NULL THEN Release(outer) ELSE UNCHANGED vars
    /\ job' = NULL
    /\ jobs' = jobs \ FreedOnFailure
    /\ UNCHANGED <<group, phase, at, slots>>

\* The store is freed when the worker is idle (JobServer shows that it is).
Shutdown ==
    /\ job = NULL
    /\ StoreFree
    /\ UNCHANGED pipe

Ended == proc # "running" /\ UNCHANGED <<vars, pipe>>

PipeNext ==
    \/ StartJob \/ Acquire \/ Finish \/ Unhold \/ ReadTable \/ Verify
    \/ Loaded \/ NextGroup \/ ToPhase2 \/ NextDecode \/ EndJob \/ Unwind
    \/ Shutdown \/ Ended

PipeSpec == PipeInit /\ [][PipeNext]_<<vars, pipe>>

-----------------------------------------------------------------------------
(***************************************************************************)
(* Properties                                                              *)
(***************************************************************************)
PipeTypeOK ==
    /\ TypeOK
    /\ job = NULL \/ job \in Jobs
    /\ phase \in {"load", "dit", "vae"}
    /\ at \in Nat /\ group \in Nat
    /\ job # NULL => at <= Len(Program) + 1
    /\ job # NULL /\ job.op = "synth" => group \in 1 .. job.groups
    /\ jobs \cup slots \subseteq UNION {1 .. n : n \in Groups}

\* No pipeline, on any path through it, requires a module while it holds a
\* different one: the default policy never aborts the server.
NeverAborts == proc # "aborted"

\* A job that is over, however it ended, holds no module and has left no
\* AceSynthJob behind; under the default policy the card is empty again.
IdleHoldsNothing ==
    proc = "running" /\ job = NULL =>
        jobs = {} /\ Held = {} /\ (Policy = "STRICT" => Resident = {})

\* Phase 2 decodes only what phase 1 finished: while it runs, the groups up
\* to the current one are decoded and every other still has its latents; a
\* phase 1 that fails writes no slot.
SlotsAfterPhase1 ==
    job # NULL /\ job.op = "synth" =>
        IF phase = "vae" THEN slots = 1 .. group - 1 /\ jobs = group .. job.groups
                         ELSE slots = {}

\* Nothing is left behind by a phase or a job: neither modules nor latents nor
\* slots, whichever step failed.
NothingLeftBehind == PipeTypeOK /\ IdleHoldsNothing /\ SlotsAfterPhase1
=============================================================================
