------------------------------- MODULE MCSound -------------------------------
(***************************************************************************)
(* From tokens to sound, one machine at a time: `part` says which of the   *)
(* modules runs, the others stay where they start.  The modules share no   *)
(* state; each is explored in full.                                        *)
(*   store    Pipelines      every kind of job, one module of each kind    *)
(*   region   SynthRegion    frames of four samples; bounds before, in,    *)
(*                           at and after the source                       *)
(*   dit      DitLoop        two tracks, all solvers                       *)
(*   tokens   SonggenTokens  delay 2, segments of a few frames             *)
(*   windows  SonggenWindows songs around one and two windows              *)
(*   stream   Mp3Stream      three songs, one or two threads               *)
(*   quant    Mp3Quant       the bands of 44.1 kHz                         *)
(***************************************************************************)
EXTENDS Pipelines, MCSynthRegion, DitLoop, SonggenTokens, SonggenWindows, MCMp3Stream, Mp3Quant

VARIABLE part

-----------------------------------------------------------------------------
(* Pipelines: one module of every kind. *)
OneOfEach ==
    [kind : {"LM", "TEXT_ENC", "COND_ENC", "FSQ_TOK", "FSQ_DETOK", "DIT", "VAE_ENC", "VAE_DEC"},
     path : {"p"}, max_seq : {1}, n_kv_sets : {2}, adapter_path : {""}, adapter_scale : {1}]

-----------------------------------------------------------------------------
(* DitLoop: out of range, small, around the last row of the tables, the cap. *)
TriedSubsteps == {-3, 0, 1, 2, 3, 21, 137, 148, 149, 1000}

-----------------------------------------------------------------------------
(* SonggenTokens *)
Ask0 ==
    [tool |-> "generate", frames |-> -1, duration |-> -1, no_batch |-> FALSE, no_eos |-> FALSE,
     static |-> FALSE, prompt |-> 0]

\* Frames and seconds asked for: none, seconds, both.
Lengths == {<<-1, -1>>, <<-1, 1>>, <<2, 8>>}

TokenAsks ==
    {[Ask0 EXCEPT !.frames = l[1], !.duration = l[2], !.no_batch = b, !.static = f] :
       l \in Lengths, b, f \in BOOLEAN}
      \cup {[Ask0 EXCEPT !.frames = 2, !.no_eos = TRUE]}
      \cup {[Ask0 EXCEPT !.tool = t, !.duration = d, !.no_batch = b, !.prompt = n] :
              t \in {"continue", "clone"}, d \in {-1, 6}, b \in BOOLEAN, n \in {1, 5}}

-----------------------------------------------------------------------------
(* SonggenWindows *)
Song(t, v, b, m, f, c) ==
    [tool |-> t, vocal |-> v, bgm |-> b, mix |-> m, frames |-> f, chunk |-> c]

WindowErrands ==
    {Song("generate", 0, 0, 0, f, c) : f \in 1 .. 30, c \in {4, 6, 8, 12}}
      \cup {Song("clone", v, b, m, 5, 4) : v \in {3, 16, 40, 41}, b \in {16, 43}, m \in {0, 10, 42}}
      \cup {Song("continue", v, b, m, f, c) :
              v \in {6, 13, 40, 70}, b \in {40, 50, 55}, m \in {0, 12, 18, 40},
              f \in {1, 7, 12}, c \in {4, 8, 12}}
      \cup {Song("separate", 0, 0, m, 0, 4) : m \in 1 .. 30}

-----------------------------------------------------------------------------
(* Mp3Quant: mp3enc_sfb_long at 44.1 kHz; quiet and loud granules, budgets   *)
(* that starve, that bind and that are the most a granule can have.          *)
BandWidths == <<4, 4, 4, 4, 4, 4, 6, 6, 8, 8, 10, 12, 16, 20, 24, 28, 34, 42, 50, 54, 76, 158>>

QuantGranules ==
    {[reach |-> n, budget |-> b, noisy |-> z, psy |-> TRUE] :
       n \in {60, 240}, b \in {40, 400, 4095}, z \in {{}, 0 .. 20, 11 .. 20, 15 .. 20}}
      \cup {[reach |-> n, budget |-> b, noisy |-> {}, psy |-> FALSE] :
              n \in {0, 60, 240}, b \in {0, 1500}}

-----------------------------------------------------------------------------
storeVars == <<vars, pipe>>

SoundInit ==
    /\ part \in {"store", "region", "dit", "tokens", "windows", "stream", "quant"}
    /\ part # "region"  => rq = CHOOSE q \in Request : q.task = "cover" /\ q.src = "audio"
    /\ part # "dit"     => plan = CHOOSE p \in DitPlan : ~p.cover /\ p.strength = 4 /\ p.noise = 0
                                                         /\ p.substeps = 10
    /\ part # "tokens"  => song = Ask0
    /\ part # "windows" => errand = Song("generate", 0, 0, 0, 1, 4)
    /\ part # "stream"  => input = Pcm(11, 32000, 320, 1)
    /\ part # "quant"   => granule = CHOOSE g \in Granules : TRUE
    /\ PipeInit /\ RegionInit /\ DitInit /\ TokInit /\ WinInit /\ Mp3Init /\ QuantInit

\* A machine that has come to its end stays there.
Finished ==
    /\ \/ part = "dit" /\ ditPc \in {"done", "failed", "cancelled"}
       \/ part = "tokens" /\ codes.end # "running"
       \/ part = "windows" /\ windowPc = "done"
       \/ part = "stream" /\ stream.done
       \/ part = "quant" /\ quantPc = "done"
    /\ UNCHANGED <<storeVars, regionVars, ditVars, tokVars, winVars, mp3Vars, quantVars, part>>

SoundNext ==
    \/ /\ part = "store" /\ PipeNext
       /\ UNCHANGED <<regionVars, ditVars, tokVars, winVars, mp3Vars, quantVars, part>>
    \/ /\ part = "region" /\ RegionNext
       /\ UNCHANGED <<storeVars, ditVars, tokVars, winVars, mp3Vars, quantVars, part>>
    \/ /\ part = "dit" /\ DitNext
       /\ UNCHANGED <<storeVars, regionVars, tokVars, winVars, mp3Vars, quantVars, part>>
    \/ /\ part = "tokens" /\ TokNext
       /\ UNCHANGED <<storeVars, regionVars, ditVars, winVars, mp3Vars, quantVars, part>>
    \/ /\ part = "windows" /\ WinNext
       /\ UNCHANGED <<storeVars, regionVars, ditVars, tokVars, mp3Vars, quantVars, part>>
    \/ /\ part = "stream" /\ Mp3Next
       /\ UNCHANGED <<storeVars, regionVars, ditVars, tokVars, winVars, quantVars, part>>
    \/ /\ part = "quant" /\ QuantNext
       /\ UNCHANGED <<storeVars, regionVars, ditVars, tokVars, winVars, mp3Vars, part>>
    \/ Finished

SoundSpec ==
    /\ SoundInit
    /\ [][SoundNext]_<<storeVars, regionVars, ditVars, tokVars, winVars, mp3Vars, quantVars, part>>
=============================================================================
