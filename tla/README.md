# hbd-acestep.cpp: a TLA+ verification project

This directory models the parts of hbd-acestep.cpp where several actors, several
steps or several owners of one resource meet, and the arithmetic that decides what is
heard when: the GPU model store and its users, the job systems of the three servers,
worker-process isolation, the log stream, what becomes of a request on its way through
endpoints, language model and its caches, what a synthesis request means for each frame
of audio, the denoising loop, the SongGen programs, and the MP3 encoder. The modules are
translated from `src/`; TLC checks them on small instances, and TLAPS proves for every
instance each safety property that the passing runs check. Liveness is checked only.

Contents: [the system](#1-the-system), [what is hard](#2-what-is-hard),
[the modules](#3-the-modules), [the runs](#4-the-runs), [bounds](#5-bounds),
[fairness](#6-fairness), [proofs](#7-proofs),
[disagreements](#8-disagreements-between-code-and-documentation),
[not modelled](#9-what-is-not-modelled), [the plan](#10-plan).

Paths start with `src/`, the root of the source tree; where the text is about one
component they are shortened to the file. A definition is named after the
function it stands for wherever that was possible.

## 1. The system

`ace-server` turns a caption, lyrics, source audio or audio codes into music. A
request passes a language model (LM) that writes metadata, lyrics and audio codes, a
diffusion transformer (DiT) that denoises latents at 25 frames a second, and a VAE
that decodes latents to 48 kHz audio. Every network is a GGUF file that may have to
be loaded into video memory first, and by default only one is allowed there.

| component | state it keeps | operations | talks to |
|---|---|---|---|
| **Model store** `src/src/model-store.*` | GPU modules by key with refcounts, address → key map, CPU tables (tokenizer, silence latents, FSM, DiT metadata), eviction policy | `store_require_*`, `store_release` (RAII `ModelHandle`), CPU accessors, `store_free`, eviction | called by every pipeline, under one mutex |
| **Job system** `src/tools/ace-server.cpp` 149–241, 406–433, 628–1500, 2749–2831 | job table, creation order, FIFO queue, stop flag; per job status, cancel flag, result | `job_create`, `work_push`, `worker_main`, five `*_worker` functions, `GET/POST /job`, signal and shutdown | HTTP threads ↔ one worker thread ↔ main thread |
| **Worker isolation** same file 1826–2330 | pid, DATA and CONTROL sockets, GPU of the child, busy flag, last activity | fork/exec, `HELLO`/`RUN`/`RESULT`/`CANCEL` frames, `/unload`, idle watchdog, relocation to another GPU | parent worker thread, HTTP threads and watchdog ↔ child main and reader threads |
| **LM decoding** `src/src/pipeline-lm.cpp`, `pipeline-understand.cpp`, `qwen3-lm.h` | KV sets with their positions, the sequences being written | prefill, copy, lockstep decode, compaction, guidance, cancel | one shared LM instance from the store |
| **LM cache sizing** `ace-server.cpp` 636–673, 1205–1228, 2605–2641 | templates of LM parameters, `--kv-budget` | key construction per request | job system → store |
| **Synthesis pipeline** `src/src/pipeline-synth*.cpp`, `src/tools/synth-batch-runner.h` | `SynthState`: padding, region, T, context, latents, output | encode source and timbre, pad, resolve T, encode text, build context, denoise, splice, decode; two-phase batches | requires one module after the other |
| **Metadata FSM** `src/src/metadata-fsm.h`, `prompt.h` | state per sequence: field, prefix accumulated, forced values, tokens to inject | mask logits, update by token, parse the block, merge into the request | LM phase 1 |
| **DiT sampler** `src/src/dit-sampler.h`, `solvers/` | latents, schedule, momentum buffers, solver history, graph inputs | step loop with cancel poll, context switch, guidance in one pass or two | DiT graph, solvers |
| **Requests** `src/src/request.*` | `AceRequest` | parse, write (sparse and full), seeds, expansion into tracks | every front end |
| **Compute endpoints and registry** `ace-server.cpp` 600–2014, `model-registry.h` | registry, sticky model names, the job's arguments | validate, pack and unpack for the child, resolve names | HTTP threads → worker or child |
| **Log capture and SSE** `ace-server.cpp` 457–579 | ring of 512 lines, cursors of readers | `log_reader_main`, `GET /logs` | stderr thread ↔ HTTP threads |
| **SongGen and Stable Audio 3 servers** `src/tools/songgen-server.cpp`, `sa3-server.cpp` | job table, GPU mutex, pid per job, warm worker | compute endpoints, cancel, `/unload`, download, reaper, watchdog | handler and job threads ↔ subprocesses, warm worker |
| **SongGen pipeline** `src/src/songgen-*.h`, `src/tools/songgen-*.cpp` | growing KV cache, rows of codes, overlap buffers | token loop, prompt encoding, chunked decode, stem separation | subprocesses of its server |
| **MP3 encoder** `src/mp3/`, `audio-io.h` 570–790 | per thread: frame buffer, held frame, padding remainder | encode, flush, reservoir, bit search and noise loop | every audio answer |
| VAE tiling `src/src/vae*.h` | tile bounds | encode and decode by overlapping tiles | synthesis pipeline |
| Adapters, weights, tokenizer, sampling, resampling, WAV | files and tables | data algorithms | pipelines |
| CLI tools, web UI | none of interest | front ends | |

`PROJECT.json` lists every component with its status.

**How they interact.** A handler validates a request, creates a job (table, RUNNING),
queues a closure and answers with the id. The worker thread takes one closure at a
time. Without isolation it runs the pipeline itself; with isolation it marshals the
arguments to a child process that does. The pipeline acquires modules from the store,
one at a time under the default policy, and polls the job's cancel flag through a
callback. Clients poll the status, which the worker publishes last. A signal stops
the listener, drains handlers, stops and joins the worker and frees the store.

The SongGen and Stable Audio servers are built differently: each compute request has a
thread of its own, a mutex lets one of them at the GPU, and a render is a subprocess or
a frame to a warm worker that anyone who wants the memory back kills.

## 2. What is hard

`PROJECT.json` lists each hazard at its line. In short:

- *One overlap aborts the server.* Under the default policy the store calls `abort()`
  if a pipeline requires a module while a different one is held. Each of some twenty
  acquisition sites, with each of its early returns, has to release first.
- *Refcounts, two maps and reused addresses* in the store.
- *Check-then-act across threads*: job creation and queueing, loading the status and
  storing the cancel flag, the watchdog's unlocked checks, reading a socket that
  another thread may close.
- *Messages without identity*: `CANCEL` and `RESULT` frames carry no job id.
- *A child that dies or is killed* anywhere, under a job or between two.
- *Lost wakeups*, of a job or of the shutdown.
- *State left behind by the previous call*: KV sets after a cancel, arrays reused from
  step to step while sequences move to other slots.
- *Boundaries*: table limit, KV capacity, padding and zone cut to frames or samples
  with three different roundings, windows with a shorter last one, a nine-bit back
  pointer.
- *State carried across passes that reuse its buffers*: graph inputs, solver histories,
  a KV cache that moves while it grows, the best try of a search that goes on.
- *One value in many representations*: a request as JSON, as arguments, as a frame on
  a pipe and as a card posted back.

## 3. The modules

| module | models | lines |
|---|---|---|
| `ModelCache` | abstract: what callers may rely on in the store | specification |
| `ModelStore` | the store, one action per call | `model-store.cpp`, `.h` |
| `Pipelines` (extends `ModelStore`) | what every job requires and releases, with all failure paths, and the two-phase runner | `pipeline-synth*.cpp`, `pipeline-lm.cpp`, `pipeline-understand.cpp`, `/vae` workers, `synth-batch-runner.h` |
| `JobTable` | abstract: what a client sees of the jobs | specification |
| `JobServer` | handlers, worker, cancel, shutdown | `ace-server.cpp` |
| `WorkerIsolation` | parent, sockets, children, watchdog | `ace-server.cpp` |
| `LmBatch` | KV sets and the three decoding loops | `pipeline-lm.cpp`, `pipeline-understand.cpp`, `qwen3-lm.h` |
| `LmSizing` | the key of the LM, its instances and its capacity | `ace-server.cpp`, `pipeline-lm.cpp` |
| `MetadataFsm` | the automaton of one sequence, the parser of its block, the merge | `metadata-fsm.h`, `prompt.h`, `pipeline-lm.cpp` |
| `RequestCards` | requests as JSON: card → LM → cards → tracks | `request.cpp`, `ace-server.cpp` |
| `Endpoints` | handlers, the pipe's frames, name resolution, sticky models | `ace-server.cpp`, `model-registry.h` |
| `SynthRegion` | padding, region, T, context, mask, splices | `pipeline-synth*.cpp` |
| `DitLoop` | schedule, context switch, passes, guidance, solvers | `pipeline-synth-ops.cpp`, `dit-sampler.h`, `solvers/` |
| `LogRing` | the log ring and its streams | `ace-server.cpp` |
| `RenderWorker` | the warm worker of the other two servers | `sa3-server.cpp` |
| `RenderRequests` | what their handlers make of a form | `songgen-server.cpp`, `sa3-server.cpp` |
| `RenderJobs` (extends both) | their job system | `songgen-server.cpp` |
| `SonggenTokens` | the token loop of three programs on a growing KV cache | `songgen-lelm-gen.h`, `songgen-{generate,continue,clone}.cpp` |
| `SonggenWindows` | prompt clips, chunked decode, continuation, separation | `songgen-decode-post.h`, `songgen-clone-encode.h`, `songgen-separate.cpp` |
| `Mp3Stream` | frames, padding, reservoir, threads over one song | `mp3enc.h`, `audio-io.h` |
| `Mp3Quant` | bit search and noise loop of a granule | `mp3enc-quant.h`, `mp3enc-huff.h` |
| `Pipelines_proofs` | theorems about `ModelStore`, `Pipelines` ([proofs](#7-proofs)) | |
| `JobServer_proofs` | theorems about `JobServer`, `LogRing` | |
| `WorkerIsolation_proofs`, `RenderJobs_proofs`, `LmBatch_proofs` | theorems about the modules they are named after | |
| `Requests_proofs` | theorems about `Endpoints`, `MetadataFsm`, `LmSizing`, `RequestCards` | |
| `Sound_proofs` | theorems about `DitLoop`, `SynthRegion`, `Mp3Stream`, `Mp3Quant` | |
| `Songgen_proofs` | theorems about `SonggenTokens`, `SonggenWindows` | |
| `MCModelStore`, `MCSynthRegion`, `MCRenderJobs`, `MCMp3Stream` | keys, requests, forms, songs for TLC | |
| `MCText`, `MCSound`, `MCProgress` | several of the modules in one run | |

`MCText`, `MCSound` and `MCProgress` hold modules that answer one question together but
share no state. Their variable `part` is chosen in the initial state and says which
module runs; the others stay where they start, so each is explored exactly as in a run
of its own, and the states of the run are the sum of the parts.

Operators called `...Bug` are plausible mistakes in the definition that follows them;
`PROJECT.json` says which property notices each. They are not part of any
specification.

### ModelStore and ModelCache

The store has one mutex, held for the whole of every call, so each call is one action
with one disjunct per outcome: `RequireHit`, `RequireLoad`, `RequireLoadFails`,
`RequireExits` (the VAE loaders call `exit(1)`), `RequireAborts`. `gpu` and
`handle_to_key` are the two maps, `heap` the live module objects, `handle` what each
`ModelHandle` points to. Addresses are a small set so that they are *reused*: a load
may be given the address of a module that the same call has just evicted. `Ident`
keeps the fields of a key that `ModelKeyEq` compares for its kind. `ModelCache` says
nothing of policies, refcounts or address maps: a borrowed module has one instance
that neither moves nor goes until its last borrower returns it. `ImplementsCache` is
the refinement; a handle maps to the loan of the module under its address.

### Pipelines

The single worker runs one job at a time; a job is a program of steps over the
store. A program is the concatenation of what the called functions do, in their
order, and every step says where the job goes when the module is not to be had
(`null`) and when the work fails or is cancelled (`fail`): on, past the next step (a
roundtrip without its tokenizer), or out. `Scope` is a `ModelHandle` in a C++ block;
`Pin`/`Unpin` is one that spans other acquisitions (the VAE encoder between source
and timbre, the LM for a whole call). The module is composed with `ModelStore` by
conjoining its actions, so hits, evictions and aborts are those of the store.
`synth_batch_run` is `Loaded`, `NextGroup`, `ToPhase2`, `NextDecode`, `EndJob`,
`Unwind`.

### JobServer and JobTable

A step is what a thread does between two points where another can interfere: a
critical section, an atomic load or store. The condition variable is modelled with
its waiter: `WorkerWait` tests the predicate and sleeps in one step (it holds the
mutex), `WorkPush` and `NotifyStop` wake only a sleeper, and `SpuriousWakeup` may
happen. `NotifyStop` is a step apart from `SetStop`, as in the code. `Poll` stands for
the cancel callback, `FinalStatus` for the final look at the flag that `/synth` and
`/vae` jobs take and `/lm` and `/understand` jobs do not. `JobTable` is the client's
view: RUNNING, then one final state for good, then possibly forgotten, oldest first.

### WorkerIsolation

Critical sections of `g_wk_mtx` are single steps, except `ensure_worker_locked`, which
blocks for `HELLO` under the lock: while `disp.pc = "hello"`, everything that needs the
lock waits. `dispatch_remote` then reads the DATA socket *without* the lock, so
`/unload`, the watchdog and relocation can kill the child under it. A child is a
record: its pending `RUN`, the flag its pipeline polls, the `CANCEL` frames its reader
has not read yet, the pointer the reader has loaded, the frame it is about to be read
from. A killed child's last frame stays readable in its socket only as long as the
parent keeps the descriptor.

The pre-routing handler resets the idle clock on *every* request, polls and `/logs`
included (`ace-server.cpp:2683–2688`). `stale` says that the threshold has passed since;
`Touch` resets it in every action that begins a request, `AnyRequest` is a request whose
handler changes nothing else, and `ClientsLeave` is the moment after which none comes, which
there need not be. A client that keeps polling keeps the child, and its VRAM, for as long as
it likes; `IdleFreesVram` promises something only once nobody asks any more.

### LmBatch and LmSizing

A KV set is represented by the tokens whose keys and values it holds, logits by the
histories they were computed from. `seen[i]` is what sequence `i` was last sampled
from, so "the logits in slot *a* are those of the right sequence" is a statement about
values. `batch_tokens` and `batch_sets` keep their stale tails from step to step as
the C++ arrays do. Sampling is a free choice between text, end of text and end of
reasoning. `LmSizing` does the arithmetic of the LM key for sequences of requests and
counts positions only.

### SynthRegion and DitLoop

Times are exact multiples of a sample; a frame of latents or a sample of audio is
represented by where it comes from: the source at a time, silence, the generator or
the codes. That makes "outside the region you hear the source, at its own time" a
property of origins. The three roundings of the code are kept: nearest frame for the
padding of latents, exact samples for the padding of audio, truncation for the zone.

In `DitLoop` a velocity is the record of what the graph's inputs held when it was
computed. `host` are the staging arrays (`input_buf`, `enc_buf`, `ca_data`), `device` the
inputs of the graph; after a pass every one of them may have been overwritten
(`Clobbered`), which is what the uploads of `BeginStep` and `Reupload` are for.
`PrepareRun` truncates the schedule to the nearest level of the noise blending and only
then places the context switch. Solvers are their histories; `StorkStaysInTables` walks
the whole degree search of stork4 over the real sizes of its tables.

### MetadataFsm

One sequence. `fsm.at` is the automaton's state, `Allowed` the tokens its mask leaves,
`Update` what the sampled token does to it, `SampleToken` the body of the phase-1 loop
with the injected tokens. Free text includes tokens that look like the beginning, the
rest or the whole of a field name, because the caption ends when a line starts with one.
`Merge` parses the text, fills the gaps of the request (`GapFill`) and gives it a duration
between the default and the limit (`Clamp`). Two given values do not come out as they went
in, and the model has both: the language `"unknown"` (`Unknown`) is not forced on the LM
(`Forcing`) and counts as a gap, and a duration above 600 s (`LongDurations`) becomes 600.

### RequestCards and Endpoints

A card is a partial function of fields to typed values. `Parse`, `Write` (sparse or
full), `Marshal` (through the pipe) and the writer's two decimals are the conversions;
`PostLm`, `PostRound` and `PostSynth` the round trip of a client that posts what it was
given. `Endpoints` asks the other question: which parts of a form a handler takes or
refuses, what the packed frame of each of the five jobs holds in which order, which
model a name resolves to, and which names stick under `--keep-loaded`, through failures,
an unloaded child and a frame that is too big.

### LogRing

`LogPush` writes and notifies; a stream replays what the ring holds, waits with a
timeout, and lets the mutex go for each line it sends (`LogBacklog`, `LogDrain`), so the
ring may turn under it. The wakeup may be lost: whoever is not waiting is not woken.

### RenderWorker, RenderRequests, RenderJobs

`RenderJobs` follows `songgen-server.cpp`; `sa3-server.cpp` has the same system without
the separation step. A job thread is a program counter: `RunStart`, `RunLocked` (got the
GPU; looks at the flag), `Fork`/`Publish`/`Reap`/`Retract` (the pid is stored after the
fork and cleared after the wait, in steps of their own), or `Remote`, `Unlock`,
`FinalStatus`. A cancel is `CancelFlag`, `CancelKill`, `CancelWorker`; `/unload` cancels
every job with the table locked and then unloads. `RenderWorker` is the warm worker:
`DispatchWarm`/`DispatchSpawn`, `Hello`, `Recv`, `Settle`, and the three who kill it.
`RenderRequests` turns forms into answers: refused or accepted, with which uploads on
disk and which of them to unlink.

### SonggenTokens and SonggenWindows

A code is the number of the column it was drawn in, a KV cell the conditioning entry or
column it holds, so that histories and pairings are statements about values. `kv` has
the cells of two stacks and two runs; `sggen_grow_kv` moves them, `sggen_step_batch` and
`sggen_step` are the two ways to write. In `SonggenWindows` a frame of sound is where it
comes from, and an output frame the set of what was mixed into it; the windows, hops,
overlaps and trims are those of the code.

### Mp3Stream and Mp3Quant

`Mp3Stream` keeps byte counts exact and abstracts the spectra to the bits that granules
ask for. A frame knows its length, how much of its area it uses, where its data begins
and what it lent to the next. Threads encode their runs concurrently, with a private
encoder warmed up on the frames before. `Mp3Quant` is one granule: the gain search with
its hint, the scalefactors with their compressions, and the best try that is restored. A
spectrum is the line where values fall below two and the line where they are zero.

## 4. The runs

All runs together fire every action of every module.

| run | question | distinct states |
|---|---|---|
| `store_strict` | is a held module always alive under its key, is one module resident, does the store implement the cache | 1,450 |
| `store_keep_loaded` | are refcounts exact under `--keep-loaded` | 13,264 |
| `jobs` | is a job ever lost, evicted while running or done without its result; is shutdown orderly, the store freed under nobody; does it implement `JobTable` | 947,784 |
| `progress` | does every job end, a cancel in the queue win, a signal end the process (`JobServer`); does every LM call return (`LmBatch`); is the log streamed in order and to its newest line (`LogRing`) | 67,793 |
| `isolation` | can a job get another's output, can a second child exist, is a busy child spared, do jobs end and does a server nobody asks free its VRAM | 602,152 |
| `servers` | can two renders be alive, is an output served twice or too early, does a job that ended done or failed leave files, does every request end (`RenderJobs`) | 475,038 |
| `text` | `LmBatch`, `LmSizing`, `MetadataFsm`, `RequestCards`, `Endpoints`, each with its properties | 371,944 |
| `sound` | `Pipelines`, `SynthRegion`, `DitLoop`, `SonggenTokens`, `SonggenWindows`, `Mp3Stream`, `Mp3Quant`, each with its properties | 209,235 |
| `isolation_other_cancel` | *violation*: a cancel ends the wrong job | |
| `region_lego_zone` | *violation*: lego with a region has an empty zone | |
| `lm_sizing_overrun` | *violation*: a request for 60 s overruns the cache sized for it | |
| `mp3_backpointer` | *violation*: data written where the back pointer cannot reach | |

Some properties join several statements, each an operator of its own with its comment:

| property | parts |
|---|---|
| `JobsAreAccountedFor` | `TypeOK`, `NoJobLost`, `DoneMeansResult` |
| `SequencesStayApart` | `BatchTypeOK`, `SampledFromOwnHistory`, `KvInBounds` |
| `CachesWithinBudget` | `OneLmInstance` (no budget), `WithinBudget` |
| `CardsReplayInFull` | `CardReplays`, `TracksAccountedFor` |
| `JobsRunAsAsked` | `RunsOnWhatWasSent`, `StaysOnItsModels` |
| `OutputIsHandedOver` | `ServedOnce`, `FilesGone` |
| `NothingLeftBehind` | `PipeTypeOK`, `IdleHoldsNothing`, `SlotsAfterPhase1` |
| `RegionHeardAsAsked` | `RegionTypeOK`, `ContextAsDocumented`, `MaskMatchesSplice` |
| `OnlyRegionChanges` | `OutsideIsSource`, `InsideIsGenerated`, `PaddingIsGenerated` |
| `SolverKeepsItsPlace` | `OwnPast`, `StorkStaysInTables` |
| `WindowsJoinUp` | `SeamsJoinTheSameMoment`, `EverySampleSeparated` |

Some things the passing runs show are not obvious from the code:

- *A miss never evicts anything under the default policy.* What is resident is held
  (the last release unloads), so a miss finds either nothing or a module in use, and
  then aborts. The eviction loop of `evict_all_except` is dead code as long as the
  policy does not change; `MissKeepsAll` is the lemma that says so.
- *`NeverAborts`* depends on scopes that end one statement before the next
  acquisition (`EncodeText` has two). Joining two such scopes violates it at once.
- *The watchdog* decides on values read without the lock, and is nevertheless safe,
  because it checks the busy flag again under the lock (`WatchdogSparesBusy`).
- *A `RESULT` left in a socket* never reaches the next job, because whoever gives up on
  a job also kills the child and closes the socket (`ResultIsItsOwn`).
- *Finished sequences of phase 1 keep writing to their KV sets* and can be the ones
  that overrun; the guard of `qw3lm_forward_batch` covers them (`KvInBounds`).
- *A log stream depends on its timeout.* A line pushed while the handler writes to a
  slow client notifies nobody; only the two-second `wait_for` finds it
  (`StreamCatchesUp`). That a lapped reader still ends with the newest line is due to
  indices that are taken modulo the ring.
- *`OneRenderAlive`* rests on every kill waiting for the process to be reaped with the
  lock held: without it the next render starts beside a dying one.
- *The context switch* has to be placed after the schedule is cut (`EveryPassIsFed`),
  and *a KV cache that grows* must be moved by its strides, not as one slab
  (`ContextIsOwnHistory`).

Deadlock is not checked where the system may really stop: after `store_free`, abort or
exit (store, `LmSizing`), after shutdown or with no request left (`jobs`, `progress`,
`isolation`, `servers`), with all cards or posts answered (`text`), at the end of a song
(`mp3_backpointer`). The parts of `sound` have an explicit end and are checked for
deadlock; elsewhere liveness properties find a system that waits for ever.

## 5. Bounds

- *Store*: three handles and three addresses, four keys (two that the store must
  distinguish, two that it must not). Two holders of one module and a bystander, and
  an address that is reused, need no more. The proofs remove the bound.
- *Pipelines*: up to three groups, two addresses, one path. Three groups have a first,
  an inner and a last one, and so a failure with groups before and after it.
- *Jobs*: three submissions, a table of one. With three jobs the table is beyond its
  limit with one or two running jobs in front, and eviction has to catch up with two
  at once. `Polls = 1`: one poll is enough to separate "cancelled before" from
  "cancelled after" the last poll. The part of `progress` has two jobs and both kinds
  of ends.
- *Isolation*: two jobs, two forks, one crash, one GPU besides the default. Two forks
  allow a replacement, and a fork that fails when they are used up; with a third job
  nothing new can be left over, because sockets do not outlive a child. (Runs with
  three jobs and three forks, without the liveness properties, found no more.)
- *LM*: two sequences (neighbour and compaction), sets of four positions, prompts of
  one, three and five tokens, so that a prompt fits with room, fills the set in the
  middle of a loop, or does not fit at all. In `progress`, where only the end of a loop
  matters, one sequence.
- *Log*: a ring of two lines, five lines, two clients: a reader can be lapped twice, and
  differently from the other.
- *Servers*: two requests, two forks of the warm worker, one GPU besides the default, one
  cancel or `/unload`, one form for each path through the job. The mutex has one owner
  and one waiter; a cancel can hit either.
- *FSM*: digits and two lengths of values, one a prefix of the other; nothing, one field
  or several given, in and out of the tree, the language `"unknown"` and a duration above
  the limit among them, and a block that names either; captions of up to three tokens.
- *Cards*: each field alone with values of its own type, of another and out of range;
  batches with seeds unset, zero and at the wrap (`SeedMod` stands for 2^32), counts
  below, at and above both limits.
- *Endpoints*: three model directories (all, no text encoder, only a language model),
  three posts, every part of a form missing, empty, unreadable, too long or good.
- *Sizing*: durations below, at and beyond ten minutes, budgets around `--max-seq`.
- *Region*: frames of four samples, patches of two frames, sources of an odd and an
  even number of frames with and without a partial one, region bounds before, inside,
  at and after the source, on and off frame boundaries.

- *DiT*: two tracks, one, two and six steps, strengths in quarters (products with the
  number of steps that are and are not whole), the tables of stork4 at their real size.
- *SongGen*: delays, segments and frames of a few columns, buckets and growth blocks that
  do not divide each other; songs around one window, two windows and their overlaps,
  every length up to 30 frames for the decode and the separation.
- *MP3*: four samples to a frame, real byte counts; rates with and without padding, one
  thread and two, granules that need nothing, everything, and much after little. The
  bands of 44.1 kHz for `Mp3Quant`, with budgets that starve, bind and exceed.

Counters bounded in guards: `Submits`, `Spawns`, `Crashes`, `Cancels`, `Lines`, `Posts`,
`CaptionTokens`, and the loops' own limits.

## 6. Fairness

- *JobServer*: weak fairness of each handler that has started, of the worker and of
  the main thread. These are threads: what can run does run. None for clients, the
  signal or spurious wakeups, so nothing depends on them.
- *WorkerIsolation*: the same for handlers, dispatcher, child and reader, and for the
  watchdog's timer. None for requests, cancels, `/unload` or crashes, and none for
  their end. That the idle threshold passes is assumed only once requests have stopped
  (`WF(~ clients /\ TimePasses)`): before, each of them puts it off. A child that has
  been forked says `HELLO` or dies: one that hangs before it would block the lock for
  ever (a hazard listed without a property).
- *LmBatch*: weak fairness of the decoding loop of a call that was made. The sampler
  is not fair: a model that never emits an end token is among the behaviours.
- *LogRing*: weak fairness of each open stream's handler. A client that stops reading is
  outside: its handler is blocked in a write, which is between two of these steps only
  for as long as the client wants; the property is about clients that read or close.
- *RenderJobs*: weak fairness of every job thread, of the dispatcher, of subprocesses
  and children (a render ends or fails), of the thread that kills, and of the watchdog
  once it has seen an idle worker. None of clients, deaths or time.
- All other modules have safety properties only.

In `progress` the fairness of `JobServer` is required of its own part only; the other
modules ask nothing where they do not run.

## 7. Proofs

Eight modules hold theorems; each extends the modules it is about. TLC came first: the
property, and for the servers, the store, the pipelines and the LM also the inductive
invariant, was an invariant of a run before it was proved. A proof shows that the
invariant holds at the start, that every action keeps it (a lemma per action), and that it
implies the property. The last step of each theorem is temporal and short.

| module | theorem | statement |
|---|---|---|
| `Pipelines_proofs` | `TypeCorrect` | `Spec => []TypeOK` |
| | `HandlesStayLive` | `Spec => []HeldHandlesLive` |
| | `StoreMapsAgree` | `Spec => []MapsAgree` |
| | `RefcountIsExact` | `Spec => []RefcountCountsHolders` |
| | `StrictKeepsOne` | `Spec => []StrictOneResident` |
| | `StrictReturnsMemory` | `Spec => []StrictIdleIsEmpty` |
| | `AbortsOnlyOnOverlap` | `Spec => []AbortMeansOverlap` |
| | `KeepLoadedKeeps` | `Spec => KeepLoadedNeverUnloads` |
| | `StoreImplementsCache` | `Spec => ImplementsCache` |
| | `PipelinesNeverAbort` | `PipeSpec => []NeverAborts` |
| | `PipelinesLeaveNothing` | `PipeSpec => []NothingLeftBehind` |
| `JobServer_proofs` | `JobsStayAccountedFor` | `Spec => []JobsAreAccountedFor` |
| | `ShutdownStaysOrderly` | `Spec => ShutdownIsOrderly` |
| | `ServerImplementsJobTable` | `Spec => ImplementsJobTable` |
| | `StreamsStayInOrder` | `RingSpec => []StreamInOrder` |
| `WorkerIsolation_proofs` | `OneChildAtMost` | `Spec => []OneKnownChild` |
| | `ResultsAreTheirOwn` | `Spec => []ResultIsItsOwn` |
| | `WatchdogStaysOff` | `Spec => WatchdogSparesBusy` |
| `RenderJobs_proofs` | `OneRenderEver` | `Spec => []OneRenderAlive` |
| | `HandedOverOnce` | `Spec => []OutputIsHandedOver` |
| `LmBatch_proofs` | `SequencesNeverMix` | `BatchSpec => []SequencesStayApart` |
| `Requests_proofs` | `RequestsRunAsAsked` | `EpSpec => []JobsRunAsAsked` |
| | `BlockStaysWellFormed` | `FsmSpec => []BlockIsWellFormed` |
| | `GivenStays` | `FsmSpec => []GivenIsKept` |
| | `CardsComeBack` | `CardSpec => []CardsReplayInFull` |
| | `CachesStayWithinBudget` | `SizingSpec => []CachesWithinBudget` |
| `Sound_proofs` | `PassesAreFed` | `DitSpec => []EveryPassIsFed` |
| | `SolverStaysInPlace` | `DitSpec => []SolverKeepsItsPlace` |
| | `RegionHeard` | `RegionSpec => []RegionHeardAsAsked` |
| | `RegionIsReplaced` | `RegionSpec => []OnlyRegionChanges` |
| | `DecoderFindsData` | `Mp3Spec => []DecoderFindsMainData` |
| | `SmallFramesDecode` | `SmallFrames` implies `Mp3Spec => []BackpointerWorks` |
| | `SamplesComeOnce` | `Mp3Spec => []EverySampleOnce` |
| | `GranulesFit` | `QuantSpec => []WrittenAsAnnounced` |
| `Songgen_proofs` | `FramesPaired` | `TokSpec => []FramesArePaired` |
| | `RunsSeeTheirOwnHistory` | `TokSpec => []ContextIsOwnHistory` |
| | `PromptsInStep` | `WinSpec => []PromptStreamsInStep` |
| | `SeamsHold` | `WinSpec => []WindowsJoinUp` |

Every property in the table but `MapsAgree`, `StrictIdleIsEmpty`, `AbortMeansOverlap`,
`KeepLoadedNeverUnloads` and the store's own `TypeOK`, which are corollaries of the same
invariant, is also checked by a passing run, and `BackpointerWorks`, which holds at small bit
rates only, by the run `mp3_backpointer`, which shows that it fails at larger ones. The
steps that have to be excluded are the interesting ones; each paragraph below names the
fact without which the property is not inductive.

**Model store.** *Assumed* (`StoreAssumption`, `NullIsNoModule`): the policy is one of
the two, keys have the fields of `ModelKey`, handles are finitely many, NULL is neither
an address nor a module. That a held module is alive needs that releases unload only at
the last holder, so the refcount must be exact; that the count is exact needs that two
resident modules never share an address, so the maps must agree; and that an eviction
harms no holder under STRICT needs that nothing idle is resident. `StoreInv` joins these
facts:

1. `heap` is exactly the addresses of resident modules;
2. `handle_to_key` maps each of them back and every other address to NULL;
3. a module that is not resident has the empty entry;
4. a held address is in `heap`;
5. a refcount is the number of handles at that address;
6. under STRICT every resident module has a positive count, and there is one at most.

`IInv` adds types and `AbortMeansOverlap` (whose proof at the step that aborts needs
5: a positive count has a holder). Three counting lemmas (`CountTaken`, `CountDropped`,
`CountMoved`) rest on the library's facts on cardinalities; `MissKeepsAll` turns a load
into the simple case. For the refinement, `View` describes what the mapping shows in
terms of the invariant, and each action is shown to be a `Borrow`, `Return`,
`HandOver`, `Close` or a stutter.

**Pipelines.** *Assumed* (`PipelineAssumption`, and those of the store): there are two
handles, the one of the function and the one of a scope within it, jobs have one group
at least, and each kind of module has a key. Any number of groups, any keys, both
policies. The proof has two halves. The first is about text: `Runs(p, x, y)` says that
program `p`, started with `x` pinned, only requires what is compatible with what is
pinned at that place, wherever failures lead, and ends with `y` pinned. It holds of a
step by looking at it and of a concatenation by `ConcatRuns`, hence of every program
of every job (`ProgramsAreNested`) without unfolding one. The second half is the
invariant `PInv`: the outer handle lends exactly what the text says is pinned at `at`, the
inner one lends only within a scope, and nothing at the end. It speaks of *loans*, the
variables of `ModelCache`: what `Require` and `Release` do to them is read off the
refinement of the store, and `ConflictIsLent` says that a module the store would abort
for is on loan to somebody. So an abort would need a handle that lends something else
than what is pinned. `RunnerInv` says which groups' jobs exist in which phase; a job that is
refused is refused at its first step, so it never reaches phase 2 (`RefusedFirst`).

**Job system.** *Assumed* (`JobServerAssumption`): the table has room for one, kinds are
those of the code, `NoJob` is no job. For any number of jobs, polls and table size. That
a job is not lost is not inductive: one must know that nobody else owns it. `OneOwner`
and the ownership of `WorkerInv` say that the handlers, the places of the queue and the
worker never have a job in common, and that whoever owns one finds it RUNNING, which is why
eviction cannot take it. The refinement to `JobTable` maps a status to itself and a
forgotten job to one that is no longer in the table; eviction runs over the oldest first.

**Worker isolation.** *Assumed* (`WorkerIsolationAssumption`): bounds are numbers, `None` is
no job and no GPU. For any number of jobs, forks, crashes and GPUs. Frames carry no
identity, so the invariant follows the talk with the child (`TalkInv`): the pending
`RUN`, the job the child is on, its last frame and the job the worker thread waits for
are the same one, or there is none; only the child at `g_wk_pid`, or the one awaiting
its `HELLO`, exists at all. `CtrlInv` bounds the `CANCEL` frames in flight by the jobs that
were cancelled (the counter's type is not inductive without it). This does not contradict the
run `isolation_other_cancel`: a cancel may end another job, but no job is given another's
*result*.

**SongGen and Stable Audio 3 servers.** *Assumed* (`JobsAssumption`, `SpawnsAssumption`):
bounds are numbers and forms are answers of `RenderRequests`. The argument is who may act:
the holder of the mutex is the only thread past it (`LockInv`), it has a subprocess or
is in the dispatcher, never both (`ProcInv`, `DispInv`), a child renders for the thread
that waits for it, and an unread answer belongs to a dead child (`KidInv`): so a late
answer cannot be taken for that of the next render. Files are followed per request: what
is on disk is what the request will unlink.

**Log.** *Assumed* (`RingAssumption`): a ring of one line at least. The stream of a
client is in order because the slots it will read still hold the lines they were written
with (`LastTurnKept`), and that is because two numbers less than a ring apart have
different remainders (`SlotsDiffer`, from `Division`): a push overwrites the line
a whole turn before, no other.

**LM decoding.** *Assumed* (`LmBatchAssumption`): sizes are numbers, batches and prompts
are not empty. For any batch, cache and prompt lengths. The property speaks of the moment
of sampling; what it needs is what the cache holds *between* samplings (`BatchKv`): the
prompt and all but the last token of every active sequence, in its own set, and the same
behind the unconditional prompt in its twin's. The dangerous step is the compaction of
phase 2, where the token of a sequence goes to the place of its rank among the active
ones: ranks are a bijection (`Ranks`), so `batch_sets` sends every token to its own set whatever
the tails of the two arrays still hold.

**LM cache sizing.** *Assumed* (`LmSizingAssumption`): flags, budgets and lengths are
numbers in their ranges. The proof corrected the property: a budget that admits one
sequence of `--max-seq` does not bound the caches when `--max-seq` is below 512, because
`lm_worker` raises what it wants to 512 positions (`ace-server.cpp:659–661`). No run had
tried so small a flag. The condition is now a budget of at least the larger of the two.

**Endpoints.** *Assumed* (`EndpointsAssumption`): paths and states of a part are those of
the code, bounds are numbers. For any set of requests and of models. `EpInv` says that
what is queued is what the handler took from a request it answered with 200, and that
under `--keep-loaded` the model that is loaded is the one last used. `PipeIsFaithful` is
the lemma on frames: each field is read back where it stands, whichever of the optional
ones a job of that kind has.

**Metadata block.** *Assumed* (`FsmAssumption`): every field but the caption has a set of
values, what is given is not empty and never the caption, and neither 120 nor 600 is above
600. For any
vocabulary of values, any caption and any tokens drawn. That the block is well formed
needs what is true in the middle of a value: `Spelling`, what has been spelt begins one of the
field's values; `Queued`, the tokens still to be injected are the rest of the given one up
to its newline; `Waiting`, only a caption waits for the end of its line. `InOrder` ties the
fields written to the automaton's place: `bpm`, then a run of the following fields that ends
just before it, because skipping leaves from one place only.

**Cards.** *Assumed* (`CardsAssumption`): a field of a card is a typed value, numbers are
numbers, limits are at least one. For any cards and batches. `CardInv` says that each
answer is what is written of a request that was made (`Answered`), and that what is
posted is a list of documents. The lemma under it is `WrittenIsRead`: reading what was
written, sparse or full, gives `Back(r, f)`, the field itself but for the two decimals and
the language of an instrumental; applied twice it changes nothing more. `Batched` says what
the expansion of a post has produced after each of its requests.

**Denoising.** *Assumed* (`DitAssumption`): there is a track, a schedule is not empty,
strengths are the quarters. For any number of tracks, steps and sub steps. `HostInv` says that
between passes the staging arrays are those of the step's side of the context switch, `PassInv`
that the device holds what was uploaded from them, or uploaded again after the first pass, and
that a conditional prediction was made of nothing else. `PastInv` gives momentum, noise keys and
solver history their contents as functions of the step: nothing of another track or of a
step that was cut from the schedule is in them.

**Regions.** *Assumed* (`RegionAssumption`): lengths are positive, bounds are integers, a
track has codes. For every frame length, patch, source and request. There are no repeated
steps, so the invariant (`RegionAll`) states what each variable is as a function of the
request at each place of the program; the work is in the arithmetic of the three roundings,
with division as its only source. One thing appeared only here: when a region starts beyond
the end of the source, the silence between the two is padding that nothing asks to be
generated, and it is kept. `PaddingIsGenerated` now speaks of the padding from the region
on, and the run has such a request.

**SongGen tokens.** *Assumed* (`SonggenTokensAssumption`, `AsksAssumption`): sizes are
positive, and codes are enough to name each column of a layout, which is how the model
tells columns apart and no limit of the code. For any delay, prompt, bucket and growth of
the cache. Frames are read along a diagonal of rows; that they belong together needs that
a row that has drawn EOS draws no code any more (`RowInv`). `KvInv` says that each row of
each stack holds the conditioning and then what that row was fed, each at its position,
and lemmas show that of one step batched, one step alone and a move to a larger cache.

**SongGen windows.** *Assumed* (`SonggenWindowsAssumption`, `ErrandsAssumption`): a clip lies
within the prompt it is cut from, a frame is a multiple of four samples, windows and segments
have room for an overlap, and there is a frame to decode. For any lengths and requests.
`StreamInv`: the three prompt streams are encoded equally long. `SeamInv`: a window begins
at a whole hop and what is left before the last overlap is one (`LineFits`), so the sound
ends where the next overlap does and the latents kept are those of that overlap (`Played`).
For the separation, `Separated` counts the segments that weigh in a sample: one or two up
to the next segment, one at most where that will overlap, none beyond.

**MP3 frames.** *Assumed* (`Mp3StreamAssumption`): the sample rates of MPEG-1 and bit rates from
32 kbps, the lowest of Layer III. For every song, contents, thread count and warm-up.
`ChainInv`: each frame leads on from the one before (`Linked`), the frame that is held back
leads on from the last given out (`Held`), and the first points back at nothing; `Linked` makes no
claim where more was lent than a back pointer can say, which is the disagreement of `mp3_backpointer`.
So `DecoderFindsData` speaks of the first frame and of frames after one with at most 511
bytes free. `SmallFramesDecode` says when these are all of them: where no frame has more than
511 bytes of main data, at up to 160 kbit/s (112 at 32 kHz). `EverySampleOnce` says of a
cancelled encode that it returns nothing, and leaves out those with a failed allocation
(section 8).
`SampleInv`: a run has been fed exactly the samples from its start (`Fed`), wherever it is
cut into threads, and what its warm-up encoded is dropped.

**MP3 granules.** *Assumed* (`Mp3QuantAssumption`): a budget fits its field of twelve bits,
and a spectrum reaches no further than gain 243, so that gain 255 silences it. The code
justifies it: samples are clipped or normalised to full scale before they are encoded. For every
spectrum, noise and budget within. `QuantInv`: the side information of the current try, and of
the best one kept, says what is in its spectrum (`Priced`) and is within the budget. For
the tries that amplify bands this is checked by the code, which drops one that is too
long; the first, flat one is taken as it comes, so there it is what the binary search
promises: `SearchFinds` shows that it ends at a gain that fits if 255 does, rather than at its
default of 210 (`SearchExists` gives the recursive search its meaning first).

*Recursive functions.* The induction theorems of the library take an operator as a
parameter, which this prover cannot instantiate. Where a proof needs what a recursive
function computes (the bit search, the bands, the expansion of posts, sequences joined by
a fold) it shows that a solution of the equation exists and argues from the smallest
counterexample (`LeastElement`, from the library's `WFMin`). No module
declares RECURSIVE operators; recursion is by functions and folds.

*Left to TLC.* Liveness under fairness and ENABLED are beyond this prover: `EveryJobEnds`
(of `JobServer` and of `WorkerIsolation`), `CancelInQueueWins`, `ShutdownCompletes`, `StreamCatchesUp`,
`EveryRequestEnds`, `EveryCallReturns`, `IdleFreesVram`. Every other property of a passing
run is a theorem. The four runs that end in a violation show one behaviour each, on a
small instance; there is nothing to prove about them.

## 8. Disagreements between code and documentation

Four are kept as runs that end in a counterexample and listed as findings:

- **lego with a region generates nothing** (`region_lego_zone`). `ops_build_context`
  computes the zone for repaint only (`pipeline-synth-ops.cpp:606`); mask and splices
  use it for lego too. The mask is 0 everywhere and the source comes out unchanged.
- **a cancel can end the wrong job** (`isolation_other_cancel`). `CANCEL` frames name no
  job; the child applies one to whatever is active.
- **a cache too small** (`lm_sizing_overrun`). With `--kv-budget`, a request for 60 s gets
  60 · 5 + 2048 = 2348 positions (`ace-server.cpp:655`). A prompt of 700 tokens and the 2048
  that phase 1 may write after it are more, and `qw3lm_forward_batch` calls `exit(1)`
  (`qwen3-lm.h:576–578`), although the comments (`649–652`, `667`) promise "fewer songs
  rather than crashing". It is not the only way: a request without a duration gets 4096, and
  a prompt of 200 with 1200 tokens of phase 1 leaves no room for the 3000 codes of ten minutes
  if the LM chooses them.
- **a back pointer too short** (`mp3_backpointer`). `mp3enc_encode_frame` caps
  `main_data_begin` at 511 bytes but writes right after the held frame's data, so the
  frame after one with more than 511 free bytes (near silence at 192 kbit/s and more)
  cannot be decoded.

Others were seen while modelling and are not kept as runs. Each names the code; the
models follow it.

*Jobs and isolation of `ace-server`*
- a client told "cancelled" may find its `/lm` or `/understand` job done
  (`ace-server.cpp:717`, `1267`: no last look at the flag; the flag is stored after the
  status was read);
- under isolation a job cancelled while queued is rendered in full: the flag stays in
  the parent (`ace-server.cpp:2211–2254`);
- the GPU target is one global read at dispatch, so a later request moves the jobs
  queued before it (`ace-server.cpp:2172`), and even a request that is refused sets it;
- a frame above 1 GiB (two long uploads) makes the child close the connection: the warm
  worker is lost with the job;
- a reader of `/logs` that was lapped gets lines twice: each cursor position shows
  whatever the ring holds there now; a forked child inherits the pipe of stderr.

*Requests*
- a `vocal_language` of `"unknown"` is not kept: the merge treats it as a gap
  (`metadata-fsm.h:655`) and writes the language of the metadata block over it, although
  `docs/ARCHITECTURE.md:565` calls it an explicit signal to the DiT and
  `pipeline-lm.cpp:688` says "Filled = don't touch". `GivenIsKept` names it as an exception;
  without that exception the run `text` ends in such a counterexample;
- with `--kv-budget` each request shape has its own LM key, against the "exactly ONE LM
  instance" of `model-store.h:17–22`; and a budget below one sequence is exceeded: one below `--max-seq`, or below the 512
  positions that `lm_worker` gives any request (`ace-server.cpp:659–661`) when
  `--max-seq` is smaller;
- a prompt that does not fit its cache is dropped with a message and generation goes on
  (`qwen3-lm.h:435`);
- the caption leaves the automaton, so a field written inside it or skipped by it is not
  constrained, duration included, against `docs/ARCHITECTURE.md:551–552`; `get_field`
  finds `key:` inside the caption;
- a request that crosses the pipe loses its third decimal (`top_p` 0.975);
- tracks of cards with consecutive seeds share the noise of the sde solver;
- `handle_synth` takes format, peak clip and models from the first request only, leaks
  the decoded source on later refusals, and `/understand` forgets its defaults when a
  `request` part is given; `g_loaded_und_dit` and `g_loaded_adapter` are never read.

*Synthesis*
- lego with a start and the default end counts as lego without a region
  (`pipeline-synth.cpp:498`, against `docs/ARCHITECTURE.md:616–617`);
- a source roundtrip or a timbre encoding that fails is not reported: the job goes on
  with clean latents or with silence (`pipeline-synth-ops.cpp:190`); a track that fails
  to decode leaves an empty slot (`919`).

*SongGen and Stable Audio servers*
- the comment of `job_cancel` (`songgen-server.cpp:357`) says a reaped pid is never
  signalled; between `waitpid` and the store of -1 (`181–190`) it can be;
- under isolation, cancelling a job that waits for the GPU kills the worker of another
  (`367`); a render with `?wait=1` cannot be cancelled; `/unload` holds the job table
  while it waits for the worker's lock;
- uploads of a job cancelled before it runs stay on disk (`261–272`).

*SongGen programs*
- `SG_CHUNK_FRAMES` of one to three gives a hop of zero; `sgclone_encode_stream` does not
  end on an empty stem; `SGLM_NO_EOS` plays end codes as the last code;
- a continuation starts with the last frame of the prompt and loses its own last frame
  (`songgen-decode-post.h:226–228` against `355–367`);
- the description reaches `build()` although `songgen-clone.cpp:183` says otherwise;
  `songgen-generate` writes its tokens below a fixed home directory.

*MP3 and tools*
- a chunk that cannot be allocated, or whose encoder cannot be set up, leaves a gap in a
  stream that is returned as complete (`audio-io.h:582` promises an empty one);
- `scalefac_compress` falls back to 0 when a high band's factor exceeds 7
  (`mp3enc-quant.h:279–281`);
- `ace-synth`, `ace-lm` and `neural-codec` exit 0 although a write failed; `ace-synth`
  given one file twice overwrites its own output.

## 9. What is not modelled

- *Numerics*: networks, the arithmetic of solvers, sampling, resampling, filter banks,
  psychoacoustics. Modules see them as work that succeeds, fails or is cancelled, or as
  values named by what they were made from.
- *Weak memory*: atomics are sequentially consistent in the code (default order).
- *Descriptors and pids whose numbers are reused*: the descriptor of `dispatch_remote`
  closed between unlock and read, and a pid signalled after it was reaped. A read is
  taken to fail, a signal to miss.
- *Malformed frames* between parent and child: both run the same binary.
- *Floating-point time* in `SynthRegion` and rounding of the context switch: exact.
- *Formats*: the text of JSON, multipart, GGUF, safetensors, WAV; MP3 code tables.
- *Code without state of its own*: text, condition and FSQ networks, the Stable Audio
  networks, adapters and weights, BPE, command line tools, the web page.
- *Vendored code*: cpp-httplib is used as documented (`listen` returns after `stop`
  once handlers have finished).
- Windows, where isolation is compiled out.

## 10. Plan

Done, in this order: `ModelCache`, `ModelStore` and its proofs (everything else
stands on the store); `JobTable`, `JobServer`; `WorkerIsolation`; `LmBatch`, `LmSizing`;
`Pipelines`; `SynthRegion`; `LogRing`; `RenderWorker`, `RenderRequests`, `RenderJobs`;
`DitLoop`; `MetadataFsm`; `RequestCards`, `Endpoints`; `SonggenTokens`,
`SonggenWindows`; `Mp3Stream`, `Mp3Quant`.

Proved: every safety property of the passing runs (section 7).

Next, models, each with its invariants proved after TLC has checked them: VAE tiles
(`vae.h`, `vae-enc.h`) against a reference that covers every frame once; the solvers that
keep no history; the merge of adapters by tensor name; BPE merges and the sampler's filters
as functions.

Theorems that belong together share a module, so that the proofs stay few enough to be
checked in one sitting.
