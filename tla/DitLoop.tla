-------------------------------- MODULE DitLoop --------------------------------
(***************************************************************************)
(* The denoising loop: ops_build_schedule, ops_build_context_silence and   *)
(* ops_init_noise (src/src/pipeline-synth-ops.cpp), dit_ggml_generate      *)
(* (src/src/dit-sampler.h) and the solvers.  Numbers are left out: a       *)
(* tensor is the name of what it was made from, so a velocity says which   *)
(* latent, timestep, context and encoder states the DiT saw when it was    *)
(* computed.  After a forward pass the scheduler may have reused the       *)
(* buffer of any input for its own purposes.                               *)
(***************************************************************************)
EXTENDS Integers, Sequences, FiniteSets

CONSTANTS
    Tracks,        \* batch_n: tracks 0 .. Tracks - 1
    Asked,         \* inference_steps tried
    Substeps,      \* stork_substeps tried, besides the default 10
    Quarters       \* audio_cover_strength and cover_noise_strength tried, in quarters

ASSUME DitAssumption ==
    Tracks \in Nat \ {0} /\ Asked \subseteq Nat \ {0} /\ Substeps \subseteq Int /\ Quarters \subseteq 0 .. 4

DitPlan ==
    [cover : BOOLEAN, strength : Quarters, noise : Quarters, asked : Asked,
     cfg : {"off", "batched", "2-pass"}, solver : {"euler", "sde", "dpm3m", "stork4"},
     substeps : Substeps \cup {10}]

VARIABLES
    ditPc,         \* where the run is
    plan,          \* the request, as far as the loop is concerned
    schedule,      \* the noise levels of the steps, out of asked
    cover_steps,   \* the step at which the context is switched, or -1
    step,
    host,          \* input_buf, enc_buf, ca_data, slot by slot
    device,        \* what the graph's input buffers hold
    vt,            \* vt_cond and vt_uncond, track by track
    mbuf,          \* the steps each track's momentum buffer has averaged
    solver,        \* SolverState: the velocities it keeps
    noise,         \* the Philox keys each track has used
    latents

ditVars == <<ditPc, plan, schedule, cover_steps, step, host, device, vt, mbuf, solver, noise, latents>>

Track == 0 .. Tracks - 1
Nothing == <<>>
Inputs == {"t", "enc", "pos", "sa_mask", "ca_mask", "input"}
Batched == plan.cfg = "batched"
GraphSlots == 0 .. (IF Batched THEN 2 ELSE 1) * Tracks - 1

\* Slots [0, N) are the tracks, [N, 2N) the same tracks without condition.
OfTrack(s) == s % Tracks
IsCond(s) == s < Tracks

DitInit ==
    /\ ditPc = "schedule"
    /\ plan \in {p \in DitPlan : /\ ~p.cover => p.strength = 4 /\ p.noise = 0
                                 /\ p.substeps # 10 => p.solver = "stork4" /\ ~p.cover}
    /\ schedule = <<>> /\ cover_steps = -1 /\ step = 0
    /\ host = Nothing /\ device = [i \in Inputs |-> [s \in GraphSlots |-> Nothing]]
    /\ vt = [b \in Track |-> Nothing] /\ mbuf = [b \in Track |-> <<>>]
    /\ solver = <<>> /\ noise = [b \in Track |-> <<>>] /\ latents = Nothing
-----------------------------------------------------------------------------
\* ops_build_schedule: descending levels, in units of 1 / asked; the last value,
\* zero, is left to the sampler.
Levels == [i \in 1 .. plan.asked |-> plan.asked - i + 1]

\* The step nearest to the noise level asked for, the first of two.
Distance(i) == LET d == 4 * Levels[i] - plan.asked * (4 - plan.noise) IN IF d < 0 THEN -d ELSE d
NearestStep ==
    CHOOSE i \in 1 .. plan.asked :
        \A j \in 1 .. plan.asked : Distance(i) < Distance(j) \/ (Distance(i) = Distance(j) /\ i <= j)

\* (A ...Bug operator is a plausible mistake in the definition that follows,
\* there to show which property would notice it.)
SwitchUntruncatedBug(n) == IF plan.cover /\ plan.strength < 4 THEN (plan.asked * plan.strength) \div 4 ELSE -1

\* cover_steps, of the steps that remain.
SwitchAt(n) == IF plan.cover /\ plan.strength < 4 THEN (n * plan.strength) \div 4 ELSE -1

\* Noise comes from a track's own seed; with cover_noise_strength it is blended
\* with the source and the schedule starts later.
PrepareRun ==
    /\ ditPc = "schedule"
    /\ LET first == IF plan.noise > 0 THEN NearestStep ELSE 1
           left == SubSeq(Levels, first, plan.asked)
       IN  schedule' = left /\ cover_steps' = SwitchAt(Len(left))
    /\ noise' = [b \in Track |-> <<0>>]
    /\ ditPc' = "graph"
    /\ UNCHANGED <<plan, step, host, device, vt, mbuf, solver, latents>>

\* Host buffers are filled, or the graph cannot be allocated.
BuildGraph ==
    /\ ditPc = "graph"
    /\ \/ /\ ditPc' = "poll"
          /\ host' = [ctx |-> [s \in GraphSlots |-> <<"context", OfTrack(s)>>],
                      enc |-> [s \in GraphSlots |-> IF IsCond(s) THEN <<"enc", s>> ELSE <<"null">>],
                      ca |-> [s \in GraphSlots |-> <<"enc", OfTrack(s)>>],
                      x |-> 0]
       \/ ditPc' = "failed" /\ host' = host
    /\ UNCHANGED <<plan, schedule, cover_steps, step, device, vt, mbuf, solver, noise, latents>>

\* At cover_steps: context of silence in every slot, encoder states and mask of
\* the text2music prompt in the conditional ones.
Switched(h) ==
    [h EXCEPT !.ctx = [s \in GraphSlots |-> <<"silence">>],
              !.enc = [s \in GraphSlots |-> IF IsCond(s) THEN <<"enc_nc", s>> ELSE @[s]],
              !.ca = [s \in GraphSlots |-> IF IsCond(s) THEN <<"enc_nc", s>> ELSE @[s]]]

\* Everything a pass reads is uploaded again: enc is enc_buf, or null_enc_buf.
Uploaded(h, enc) ==
    [i \in Inputs |-> [s \in GraphSlots |->
        CASE i = "t" -> <<schedule[step + 1]>>
          [] i = "enc" -> enc[s]
          [] i = "ca_mask" -> h.ca[s]
          [] i = "input" -> <<h.ctx[s], h.x>>
          [] OTHER -> <<"set">>]]

\* The cancel poll at the head of the loop, or the step's uploads.
BeginStep ==
    /\ ditPc = "poll" /\ step < Len(schedule)
    /\ LET h == IF cover_steps >= 0 /\ step >= cover_steps THEN Switched(host) ELSE host
       IN  host' = h /\ device' = Uploaded(h, h.enc)
    /\ ditPc' = "cond"
    /\ UNCHANGED <<plan, schedule, cover_steps, step, vt, mbuf, solver, noise, latents>>

CancelRun ==
    /\ ditPc = "poll" /\ step < Len(schedule)
    /\ ditPc' = "cancelled"
    /\ UNCHANGED <<plan, schedule, cover_steps, step, host, device, vt, mbuf, solver, noise, latents>>

\* What one slot of a pass has seen, and which inputs survive it.
Velocity(s) ==
    [i \in Inputs |-> device[i][s]]
Clobbered ==
    \E S \in {{}, Inputs} \cup {{i} : i \in Inputs} :
        device' = [i \in Inputs |-> [s \in GraphSlots |-> IF i \in S THEN Nothing ELSE device[i][s]]]

CondPass ==
    /\ ditPc = "cond"
    /\ vt' = [b \in Track |-> [cond |-> Velocity(b),
                               uncond |-> IF Batched THEN Velocity(Tracks + b) ELSE Nothing]]
    /\ Clobbered
    /\ ditPc' = IF plan.cfg = "2-pass" THEN "reupload" ELSE "guide"
    /\ UNCHANGED <<plan, schedule, cover_steps, step, host, mbuf, solver, noise, latents>>

NullEnc == [s \in GraphSlots |-> <<"null">>]

ReuploadedEncBug == [device EXCEPT !["enc"] = NullEnc]

\* 2-pass guidance uploads everything again for its second pass.
Reuploaded == Uploaded(host, NullEnc)

Reupload ==
    /\ ditPc = "reupload"
    /\ device' = Reuploaded
    /\ ditPc' = "uncond"
    /\ UNCHANGED <<plan, schedule, cover_steps, step, host, vt, mbuf, solver, noise, latents>>

UncondPass ==
    /\ ditPc = "uncond"
    /\ vt' = [b \in Track |-> [vt[b] EXCEPT !.uncond = Velocity(b)]]
    /\ Clobbered
    /\ ditPc' = "guide"
    /\ UNCHANGED <<plan, schedule, cover_steps, step, host, mbuf, solver, noise, latents>>

\* apg_forward, track by track: the difference joins that track's running average.
Guide ==
    /\ ditPc = "guide"
    /\ mbuf' = IF plan.cfg = "off" THEN mbuf ELSE [b \in Track |-> Append(mbuf[b], step)]
    /\ ditPc' = "update"
    /\ UNCHANGED <<plan, schedule, cover_steps, step, host, device, vt, solver, noise, latents>>

\* dpm3m keeps the last two velocities; stork4 the last three, with their step sizes.
DpmHistory(v) == SubSeq(<<v>> \o solver, 1, IF Len(solver) = 0 THEN 1 ELSE 2)

StorkHistoryNewestBug(v) == IF Len(solver) = 3 THEN solver ELSE <<v>> \o solver

StorkHistory(v) == IF Len(solver) = 3 THEN <<v, solver[1], solver[2]>> ELSE <<v>> \o solver

\* The registry's four solvers, latest velocity first.
History(v) == CASE plan.solver = "dpm3m" -> DpmHistory(v)
                [] plan.solver = "stork4" -> StorkHistory(v)
                [] OTHER -> <<>>

\* sde draws fresh noise for every step, under a key of seed + step + 1.
Renoise == [b \in Track |-> IF plan.solver = "sde" THEN Append(noise[b], step + 1) ELSE noise[b]]

\* The solver moves xt to the next level.
SolverStep ==
    /\ ditPc = "update" /\ step < Len(schedule) - 1
    /\ solver' = History([of |-> step, dt |-> schedule[step + 1] - schedule[step + 2]])
    /\ noise' = Renoise
    /\ host' = [host EXCEPT !.x = step + 1]
    /\ step' = step + 1
    /\ ditPc' = "poll"
    /\ UNCHANGED <<plan, schedule, cover_steps, device, vt, mbuf, latents>>

\* The last step predicts the clean latent instead.
FinalStep ==
    /\ ditPc = "update" /\ step = Len(schedule) - 1
    /\ latents' = <<host.x, schedule[step + 1]>>
    /\ step' = step + 1
    /\ ditPc' = "done"
    /\ UNCHANGED <<plan, schedule, cover_steps, host, device, vt, mbuf, solver, noise>>

-----------------------------------------------------------------------------
\* solver-stork.h: how stork4 finds its coefficients for a number of sub steps.
MS == <<1, 2, 3, 4, 5, 6, 7, 8, 9, 10, 11, 12, 13, 14, 15, 16, 17, 18, 19, 20, 22, 24, 26, 28, 30,
        32, 34, 36, 38, 41, 44, 47, 50, 53, 56, 59, 63, 67, 71, 76, 81, 86, 92, 98, 105, 112, 120,
        129, 138, 148>>
RecfSize == 4382
FpRows == 50

\* _rock4_mdegr: the first degree that is enough, its row, and where its
\* coefficients start, behind those of every smaller degree; or, past the table,
\* the last row with an offset behind the whole table.
RowStart[i \in 1 .. Len(MS) + 1] == IF i = 1 THEN 0 ELSE RowStart[i - 1] + 2 * MS[i - 1] - 1
rock4_mdegr(s) ==
    IF \E i \in DOMAIN MS : MS[i] >= s
    THEN LET mz == CHOOSE i \in DOMAIN MS : MS[i] >= s /\ \A j \in 1 .. i - 1 : MS[j] < s
         IN  [mdeg |-> MS[mz], mz |-> mz, mr |-> RowStart[mz]]
    ELSE [mdeg |-> MS[Len(MS)], mz |-> Len(MS), mr |-> RowStart[Len(MS) + 1]]

RockUnclampedBug(s) == rock4_mdegr(s)

Rock(s) == rock4_mdegr(IF s > MS[Len(MS)] THEN MS[Len(MS)] ELSE s)

\* solver_stork4_step: a pass that is not finite is tried again with half the sub
\* steps, down to two; then a plain Euler step is taken.
Attempts(substeps) ==
    LET s == IF substeps >= 2 THEN substeps ELSE 2
    IN  {n \in {s \div (2 ^ k) : k \in 0 .. 12} : n >= 2}

DitNext ==
    \/ PrepareRun \/ BuildGraph \/ BeginStep \/ CancelRun \/ CondPass
    \/ Reupload \/ UncondPass \/ Guide \/ SolverStep \/ FinalStep

DitSpec == DitInit /\ [][DitNext]_ditVars
-----------------------------------------------------------------------------
\* The share of the remaining steps that hears the source is the strength asked
\* for, however many steps the noise blending has dropped.
HearsSource(k) == plan.strength = 4 \/ 4 * (k + 1) <= plan.strength * Len(schedule)

Ctx(b, k) == IF HearsSource(k) THEN <<"context", b>> ELSE <<"silence">>
Enc(b, k) == IF HearsSource(k) THEN <<"enc", b>> ELSE <<"enc_nc", b>>

\* Each prediction is made from the latent, the timestep and the context of its own
\* step and track, the conditional one with the track's encoder states and their
\* mask, the other with the null state and the same context; whatever buffers
\* earlier passes have overwritten, in one pass or two.
EveryPassIsFed ==
    ditPc = "update" => \A b \in Track :
        LET seen(enc) == [i \in Inputs |-> CASE i = "t" -> <<schedule[step + 1]>>
                                              [] i = "enc" -> enc
                                              [] i = "ca_mask" -> Enc(b, step)
                                              [] i = "input" -> <<Ctx(b, step), step>>
                                              [] OTHER -> <<"set">>]
        IN  /\ vt[b].cond = seen(Enc(b, step))
            /\ plan.cfg # "off" =>
                  \* all rows of the null state are one vector, so its mask is any length
                  \E m \in {<<"enc", b>>, <<"enc_nc", b>>} :
                      vt[b].uncond = [seen(<<"null">>) EXCEPT !["ca_mask"] = m]

\* How many velocities the order of the solver calls for.
Order == CASE plan.solver = "dpm3m" -> 2 [] plan.solver = "stork4" -> 3 [] OTHER -> 0

\* What is carried from step to step is the track's own past, each step once, in
\* order and without a gap: momentum, the solver's velocities with the step they
\* belong to, Philox keys.  The output comes from the last latent at the last level.
OwnPast ==
    /\ \A b \in Track : mbuf[b] = [i \in 1 .. Len(mbuf[b]) |-> i - 1]
    /\ ditPc = "update" /\ plan.cfg # "off" => \A b \in Track : Len(mbuf[b]) = step + 1
    /\ ditPc = "poll" /\ step < Len(schedule) =>
          /\ Len(solver) = (IF step < Order THEN step ELSE Order)
          /\ \A i \in 1 .. Len(solver) :
                /\ solver[i].of = step - i
                /\ solver[i].dt = schedule[solver[i].of + 1] - schedule[solver[i].of + 2]
    /\ \A b \in Track : Cardinality({noise[b][i] : i \in DOMAIN noise[b]}) = Len(noise[b])
    /\ ditPc = "done" <=> latents # Nothing
    /\ ditPc = "done" => latents = <<Len(schedule) - 1, schedule[Len(schedule)]>>

\* Whatever number of sub steps a request asks for, every attempt finds as many
\* coefficients as its degree takes, from a row of its own, inside the tables.
StorkStaysInTables ==
    ditPc = "update" /\ plan.solver = "stork4" => \A s \in Attempts(plan.substeps) :
        LET r == Rock(s)
            last == IF r.mdeg = 1 THEN r.mr ELSE r.mr + 2 * (r.mdeg - 2) + 2
        IN  /\ r.mz <= FpRows /\ last < RecfSize
            /\ \A i \in DOMAIN MS : i > r.mz => last < RowStart[i]

\* Whatever the solver carries or looks up belongs to the track, the step and
\* the degree it is used for (sampler state and stork4 tables).
SolverKeepsItsPlace == OwnPast /\ StorkStaysInTables
=============================================================================
