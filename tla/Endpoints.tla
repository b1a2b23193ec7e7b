------------------------------- MODULE Endpoints -------------------------------
(***************************************************************************)
(* The compute endpoints of ace-server (tools/ace-server.cpp): what a      *)
(* handler takes from the parts of a request or refuses, how a job crosses *)
(* the pipe to the worker process, and which models it runs on, out of     *)
(* those the registry found (src/src/model-registry.h).  One request after *)
(* another; their interleaving is in JobServer and WorkerIsolation.        *)
(***************************************************************************)
EXTENDS Integers, SequencesExt

CONSTANTS Dirs,        \* model directories tried: sets of [name, gguf, arch], names being naturals
          AdapterDir,  \* set of [name, file, peft]: .safetensors files and subdirectories
          Sent,        \* requests tried, see MCText
          Posts,       \* bound: how many are posted
          DefaultDit   \* ACE_DEFAULT_DIT, 0 for none

NoName == 0
\* A request goes to one of the four endpoints, as JSON or as a form, each part of
\* which is absent, empty, unreadable, too long or good.
ASSUME EndpointsAssumption ==
    /\ Posts \in Nat /\ DefaultDit \in Nat
    /\ \A s \in Sent :
          /\ s.to \in {"/lm", "/synth", "/understand", "/vae"} /\ s.form \in BOOLEAN
          /\ {s.audio, s.src_latents, s.ref_audio, s.ref_latents}
                \subseteq {"none", "empty", "bad", "long", "good"}

VARIABLES dir, isolated, keepLoaded,
          loaded,      \* bucket -> g_loaded_lm, g_loaded_dit, g_loaded_und_dit, g_loaded_vae
          sent,        \* the request accepted last
          posts,
          epPc,
          job,         \* what the handler gave to work_push
          ran,         \* what the worker was called with, and the models it took
          lastUsed     \* bucket -> the model of the last job of this process that ended well

epVars == <<dir, isolated, keepLoaded, loaded, sent, posts, epPc, job, ran, lastUsed>>

Buckets == {"acestep-lm", "acestep-dit", "acestep-text-enc", "acestep-vae"}
Lm == "acestep-lm"
Dit == "acestep-dit"
Enc == "acestep-text-enc"
Vae == "acestep-vae"
Nothing == [b \in Buckets |-> NoName]

\* registry_scan: the .gguf files of a known architecture, by name.
ByName(files) == SetToSortSeq({f.name : f \in files}, LAMBDA a, b : a < b)
Registry(b) == ByName({f \in dir : f.gguf /\ f.arch = b})

\* registry_scan_adapters: files first, then the PEFT directories.
Adapters == ByName({a \in AdapterDir : a.file})
            \o ByName({a \in AdapterDir : ~a.file /\ a.peft})

Installed(b, name) == \E i \in DOMAIN Registry(b) : Registry(b)[i] = name

\* resolve_name.
Resolve(b, asked) ==
    IF asked # NoName THEN asked
    ELSE IF loaded[b] # NoName THEN loaded[b]
    ELSE IF b = Dit /\ DefaultDit # NoName /\ Installed(b, DefaultDit) THEN DefaultDit
    ELSE IF Registry(b) # <<>> THEN Registry(b)[1] ELSE NoName

Asked(req, b) == CASE b = Lm -> req.lm_model [] b = Dit -> req.synth_model [] b = Vae -> req.vae [] OTHER -> NoName

Needs(kind) ==
    CASE kind = "LM" -> {Lm}
      [] kind = "SYNTH" -> {Dit, Vae}
      [] kind = "UND" -> {Lm, Dit, Vae}
      [] OTHER -> {Vae}
-----------------------------------------------------------------------------
EpInit ==
    /\ dir \in Dirs /\ isolated \in BOOLEAN /\ keepLoaded \in BOOLEAN
    /\ \E f \in dir : f.gguf /\ f.arch \in Buckets
    /\ loaded = Nothing /\ lastUsed = Nothing
    /\ sent = <<>> /\ posts = 0 /\ epPc = "idle" /\ job = <<>> /\ ran = <<>>

\* Parts of a form: absent, empty, what cannot be read, what is too long, or good.
Audio(part) == IF part = "good" THEN "samples" ELSE "none"
Latents(part) == IF part = "good" THEN "frames" ELSE "none"
BadLatents(part) == part \in {"empty", "bad", "long"}
BadAudio(part) == part \in {"empty", "bad"}
WithoutCaption == {"lego", "extract", "complete"}

Missing(buckets) == \E b \in buckets : Registry(b) = <<>>

\* handle_lm.
LmAnswer(s) ==
    IF Missing({Lm}) THEN 501
    ELSE IF s.json = "bad" \/ ~s.req.caption \/ ~s.req.mode_ok THEN 400 ELSE 200
\* handle_synth.
SynthAnswer(s) ==
    IF Missing({Dit, Enc, Vae}) THEN 501
    ELSE IF s.json # "good" THEN 400
    ELSE IF s.form /\ s.src_latents = "long" THEN 413
    ELSE IF s.form /\ (BadLatents(s.src_latents) \/ BadAudio(s.audio)) THEN 400
    ELSE IF s.form /\ s.ref_latents = "long" THEN 413
    ELSE IF s.form /\ BadLatents(s.ref_latents) THEN 400
    ELSE IF ~s.req.caption /\ s.req.task_type \notin WithoutCaption THEN 400
    ELSE IF ~s.req.format_ok THEN 400 ELSE 200
\* handle_understand: audio that cannot be used is refused even beside good latents.
UnderstandAnswer(s) ==
    IF Missing({Lm, Dit, Vae}) THEN 501
    ELSE IF ~s.form \/ s.json = "bad" THEN 400
    ELSE IF s.src_latents = "long" THEN 413
    ELSE IF BadLatents(s.src_latents) \/ BadAudio(s.audio) THEN 400
    ELSE IF s.audio = "none" /\ s.src_latents = "none" THEN 400 ELSE 200
\* handle_vae.
VaeAnswer(s) ==
    IF Missing({Vae}) THEN 501
    ELSE IF ~s.form \/ s.json = "bad" \/ (s.audio = "none") = (s.src_latents = "none") THEN 400
    ELSE IF s.audio = "long" \/ s.src_latents = "long" THEN 413
    ELSE IF BadAudio(s.audio) \/ BadLatents(s.src_latents) THEN 400
    ELSE IF s.src_latents # "none" /\ ~s.req.format_ok THEN 400 ELSE 200

Answer(s) ==
    CASE s.to = "/lm" -> LmAnswer(s)
      [] s.to = "/synth" -> SynthAnswer(s)
      [] s.to = "/understand" -> UnderstandAnswer(s)
      [] s.to = "/vae" -> VaeAnswer(s)

\* Audio longer than the models take is cut or refused further on; only /vae looks.
InForm(s, x) == IF s.form THEN x ELSE "none"
Samples(part) == IF part = "long" THEN "many samples" ELSE Audio(part)
Kind(s) ==
    CASE s.to = "/lm" -> "LM" [] s.to = "/synth" -> "SYNTH" [] s.to = "/understand" -> "UND"
      [] s.to = "/vae" /\ s.audio # "none" -> "ENC" [] OTHER -> "DEC"

Accepted(s) ==
    LET k == Kind(s)
    IN  [kind |-> k, req |-> s.req,
         src |-> IF k \in {"LM", "DEC"} THEN "none" ELSE InForm(s, Samples(s.audio)),
         src_latents |-> IF k \in {"LM", "ENC"} THEN "none" ELSE InForm(s, Latents(s.src_latents)),
         ref |-> IF k # "SYNTH" THEN "none" ELSE InForm(s, Samples(s.ref_audio)),
         ref_latents |-> IF k # "SYNTH" THEN "none" ELSE InForm(s, Latents(s.ref_latents))]

Post(s) ==
    /\ epPc = "idle" /\ posts < Posts
    /\ posts' = posts + 1
    /\ IF Answer(s) = 200 THEN epPc' = "queued" /\ sent' = s /\ job' = Accepted(s)
       ELSE epPc' = "idle" /\ sent' = <<>> /\ job' = <<>>
    /\ ran' = <<>>
    /\ UNCHANGED <<dir, isolated, keepLoaded, loaded, lastUsed>>
-----------------------------------------------------------------------------
(***************************************************************************)
(* The pipe.  run_* packs a job into words, worker_dispatch takes them off *)
(* one after another; the two lists are kept by hand.                      *)
(***************************************************************************)
\* (A ...Bug operator is a plausible mistake in the definition that follows,
\* there to show which property would notice it.)
PackBug(j) ==
    <<j.kind, j.req>> \o
    CASE j.kind = "SYNTH" -> <<j.src, j.ref, j.src_latents, j.ref_latents, j.req.format_ok>>
      [] j.kind = "UND" -> <<j.src, j.src_latents>>
      [] j.kind = "ENC" -> <<j.src>>
      [] j.kind = "DEC" -> <<j.src_latents, j.req.format_ok>>
      [] OTHER -> <<>>

Pack(j) ==
    <<j.kind, j.req>> \o
    CASE j.kind = "SYNTH" -> <<j.src, j.src_latents, j.ref, j.ref_latents, j.req.format_ok>>
      [] j.kind = "UND" -> <<j.src, j.src_latents>>
      [] j.kind = "ENC" -> <<j.src>>
      [] j.kind = "DEC" -> <<j.src_latents, j.req.format_ok>>
      [] OTHER -> <<>>

\* Rd: a read past the end gives nothing.
Word(p, i) == IF i \in DOMAIN p THEN p[i] ELSE "none"
Unpack(p) ==
    LET k == Word(p, 1)
    IN  [kind |-> k, req |-> Word(p, 2),
         src |-> IF k \in {"SYNTH", "UND", "ENC"} THEN Word(p, 3) ELSE "none",
         src_latents |-> IF k \in {"SYNTH", "UND"} THEN Word(p, 4) ELSE IF k = "DEC" THEN Word(p, 3) ELSE "none",
         ref |-> IF k = "SYNTH" THEN Word(p, 5) ELSE "none",
         ref_latents |-> IF k = "SYNTH" THEN Word(p, 6) ELSE "none"]

\* MAX_FRAME_PAYLOAD: hours of audio do not fit in a frame.
Oversized(j) == j.src = "many samples" /\ j.ref = "many samples"
-----------------------------------------------------------------------------
Taken(j) == [b \in Buckets |-> IF b \in Needs(j.kind) THEN Resolve(b, Asked(j.req, b)) ELSE NoName]
AllFound(j) == \A b \in Needs(j.kind) : Installed(b, Taken(j)[b])
AdapterFound(j) == j.req.adapter # NoName => \E i \in DOMAIN Adapters : Adapters[i] = j.req.adapter

StickyBug(j, named) == [b \in Buckets |-> IF ~keepLoaded \/ j.kind = "DEC" THEN NoName
                                          ELSE IF b \in named THEN Taken(j)[b] ELSE loaded[b]]

\* g_loaded_lm and the others after a job that ended well: kept, or forgotten where
\* the models do not stay.
Sticky(j, named) ==
    [b \in Buckets |-> IF b \notin named THEN loaded[b] ELSE IF keepLoaded THEN Taken(j)[b] ELSE NoName]

Ran(j, ended) == <<[job |-> j, ended |-> ended, models |-> Taken(j), before |-> lastUsed]>>
Ends(j, named) ==
    /\ AllFound(j)
    /\ loaded' = Sticky(j, named)
    /\ lastUsed' = [b \in Buckets |-> IF b \in named THEN Taken(j)[b] ELSE lastUsed[b]]
    /\ ran' = Ran(j, TRUE)

LmWorker(j) == j.kind = "LM" /\ Ends(j, {Lm})
SynthWorker(j) == j.kind = "SYNTH" /\ AdapterFound(j) /\ Ends(j, {Dit, Vae})
\* What understand says of the DiT goes to g_loaded_und_dit, which nothing reads: it
\* only takes the tokenizer from that file.
UnderstandWorker(j) == j.kind = "UND" /\ Ends(j, {Lm, Vae})
DecodeWorker(j) == j.kind = "DEC" /\ Ends(j, {Vae})
EncodeWorker(j) == j.kind = "ENC" /\ Ends(j, {Vae})

\* A model that is not there, a load or a run that fails, a cancel.
Fails(j) == ran' = Ran(j, FALSE) /\ UNCHANGED <<loaded, lastUsed>>

\* One job in the worker thread, or in the worker process.  A frame that is too long
\* is not sent, and the process is killed, with the names it kept.
Run ==
    /\ epPc = "queued"
    /\ IF isolated /\ Oversized(job)
       THEN loaded' = Nothing /\ lastUsed' = Nothing /\ ran' = <<>>
       ELSE LET j == IF isolated THEN Unpack(Pack(job)) ELSE job
            IN  \/ LmWorker(j) \/ SynthWorker(j) \/ UnderstandWorker(j)
                \/ DecodeWorker(j) \/ EncodeWorker(j) \/ Fails(j)
    /\ epPc' = "idle"
    /\ UNCHANGED <<dir, isolated, keepLoaded, sent, posts, job>>

\* /unload, the idle watchdog, a crash: another process serves the next job.
WorkerGone ==
    /\ isolated /\ epPc = "idle"
    /\ loaded' = Nothing /\ lastUsed' = Nothing
    /\ ran' = <<>> /\ sent' = <<>> /\ job' = <<>>
    /\ UNCHANGED <<dir, isolated, keepLoaded, posts, epPc>>

EpNext == (\E s \in Sent : Post(s)) \/ Run \/ WorkerGone

EpSpec == EpInit /\ [][EpNext]_epVars
-----------------------------------------------------------------------------
\* Whichever process runs it, a job is run on the parts its client sent and no
\* others; understand has a source, /vae exactly one, and nothing unreadable is run.
RunsOnWhatWasSent ==
    ran # <<>> =>
        LET j == ran[1].job
            given(part, x) == x # "none" <=> sent.form /\ part # "none"
        IN  /\ j = job
            /\ j.kind = "SYNTH" => given(sent.src_latents, j.src_latents) /\ given(sent.audio, j.src)
                                   /\ given(sent.ref_latents, j.ref_latents)
            /\ j.kind = "UND" => j.src # "none" \/ j.src_latents # "none"
            /\ j.kind \in {"ENC", "DEC"} => (j.src = "none") # (j.src_latents = "none")

\* A request that names no model gets the one the process loaded last for that
\* purpose, as long as models stay loaded, whatever jobs came between; a named one
\* is never replaced.
StaysOnItsModels ==
    ran # <<>> /\ ran[1].ended =>
        \A b \in Needs(ran[1].job.kind) :
            LET asked == Asked(ran[1].job.req, b)
            IN  /\ asked # NoName => ran[1].models[b] = asked
                /\ asked = NoName /\ keepLoaded /\ ran[1].before[b] # NoName =>
                      ran[1].models[b] = ran[1].before[b]
                /\ Installed(b, ran[1].models[b])

\* A job is run on what its client sent and on the models it asked for, in
\* this process and in the worker (pk_*, worker_dispatch, resolve_name).
JobsRunAsAsked == RunsOnWhatWasSent /\ StaysOnItsModels
=============================================================================
