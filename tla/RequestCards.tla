------------------------------ MODULE RequestCards ------------------------------
(***************************************************************************)
(* AceRequest as JSON (src/src/request.cpp) on its way through ace-server: *)
(* a card is posted to /lm, the worker gets it as parsed or, isolated, out *)
(* of JSON once more; each result is a card of its own, and cards are      *)
(* posted to /synth, alone or in one array, where they become tracks.      *)
(* Values are typed pairs, so that a string is never taken for a number;   *)
(* reals are in thousandths, of which the writer keeps two decimals.       *)
(***************************************************************************)
EXTENDS Integers, Sequences

CONSTANTS Cards,       \* documents posted first: partial functions of fields to values
          SeedMod,     \* 2^32
          LmBatchCap,  \* --max-batch
          MaxTracks    \* 9, what the DiT takes

ASSUME CardsAssumption ==
    /\ SeedMod \in Nat \ {0} /\ LmBatchCap \in Nat \ {0} /\ MaxTracks \in Nat \ {0}
    /\ \A c \in Cards : \A f \in DOMAIN c :
          /\ c[f] = <<c[f][1], c[f][2]>> /\ c[f][1] \in {"str", "int", "real", "bool"}
          /\ c[f][1] \in {"int", "real"} => c[f][2] \in Int

VARIABLES card,     \* the document posted to /lm
          piped,    \* --isolate: every job crosses a pipe
          cardPc,
          made,     \* the requests the LM worker wrote
          results,  \* the documents of its answer
          posted,   \* the documents posted to /synth
          tracks    \* the requests the DiT batch is made of

cardVars == <<card, piped, cardPc, made, results, posted, tracks>>

Str(s) == <<"str", s>>
Whole(n) == <<"int", n>>
Real(n) == <<"real", n>>
Flag(b) == <<"bool", b>>
Blank == ""

Texts == {"caption", "lyrics", "keyscale", "timesignature", "vocal_language", "lm_negative_prompt",
          "audio_codes", "dcw_mode", "custom_timesteps", "track", "synth_model", "lm_model", "adapter", "vae"}
\* An empty string leaves these as they are.
ChoiceFields == {"task_type", "solver", "lm_mode", "output_format"}
Ints == {"bpm", "lm_batch_size", "synth_batch_size", "seed", "lm_seed", "lm_top_k", "inference_steps",
         "peak_clip", "mp3_bitrate"}
Reals == {"duration", "lm_temperature", "lm_cfg_scale", "lm_top_p", "guidance_scale", "shift", "dcw_scaler",
          "dcw_high_scaler", "audio_cover_strength", "cover_noise_strength", "repainting_start",
          "repainting_end", "latent_shift", "latent_rescale", "adapter_scale"}
CardField == Texts \cup ChoiceFields \cup Ints \cup Reals \cup {"stork_substeps", "use_cot_caption"}

\* request_init.
DefaultText(f) ==
    CASE f = "dcw_mode" -> "low"
      [] f = "task_type" -> "text2music"
      [] f = "solver" -> "euler"
      [] f = "lm_mode" -> "generate"
      [] f = "output_format" -> "mp3"
      [] OTHER -> Blank
DefaultInt(f) ==
    CASE f \in {"lm_batch_size", "synth_batch_size"} -> 1
      [] f \in {"seed", "lm_seed"} -> -1
      [] f \in {"peak_clip", "stork_substeps"} -> 10
      [] f = "mp3_bitrate" -> 128
      [] OTHER -> 0
DefaultReal(f) ==
    CASE f = "lm_temperature" -> 850
      [] f = "lm_cfg_scale" -> 2000
      [] f = "lm_top_p" -> 900
      [] f \in {"audio_cover_strength", "latent_rescale", "adapter_scale"} -> 1000
      [] f = "repainting_end" -> -1000
      [] OTHER -> 0

Defaults ==
    [f \in CardField |->
        CASE f \in Texts \cup ChoiceFields -> Str(DefaultText(f))
          [] f \in Ints \cup {"stork_substeps"} -> Whole(DefaultInt(f))
          [] f \in Reals -> Real(DefaultReal(f))
          [] f = "use_cot_caption" -> Flag(TRUE)]

Numeric(v) == v[1] \in {"int", "real"}
Accepts(f, v) ==
    CASE f \in Texts -> v[1] = "str"
      [] f \in ChoiceFields -> v[1] = "str" /\ v[2] # Blank
      [] f \in Ints \cup Reals -> Numeric(v)
      [] f = "stork_substeps" -> v[1] = "int"
      [] f = "use_cot_caption" -> v[1] \in {"bool", "str"}

\* A C cast cuts toward zero.
Truncated(n) == IF n < 0 THEN -((-n) \div 1000) ELSE n \div 1000
Read(f, v) ==
    CASE f \in Ints /\ v[1] = "real" -> Whole(Truncated(v[2]))
      [] f \in Reals /\ v[1] = "int" -> Real(1000 * v[2])
      [] f = "use_cot_caption" /\ v[1] = "str" -> Flag(v[2] \in {"true", "1"})
      [] OTHER -> v

With(r, field, v) == [f \in CardField |-> IF f = field THEN v ELSE r[f]]

\* request_parse_obj, and the rule of the instrumental at its end.
Parse(doc) ==
    LET r == [f \in CardField |-> IF f \in DOMAIN doc /\ Accepts(f, doc[f]) THEN Read(f, doc[f])
                                                                       ELSE Defaults[f]]
    IN  IF r["lyrics"] = Str("[Instrumental]") THEN With(r, "vocal_language", Str("unknown")) ELSE r

Rounded(v) ==
    IF v[1] # "real" THEN v
    ELSE Real(IF v[2] < 0 THEN -(((-v[2] + 5) \div 10) * 10) ELSE ((v[2] + 5) \div 10) * 10)

AlwaysWritten == {"caption", "seed"} \cup ChoiceFields

\* (A ...Bug operator is a plausible mistake in the definition that follows,
\* there to show which property would notice it.)
WriteBug(r, sparse) ==
    [f \in {g \in CardField : ~sparse \/ g \in {"caption"} \cup ChoiceFields
                              \/ Rounded(r[g]) # Rounded(Read(g, Whole(0)))} |-> Rounded(r[f])]

\* request_build_doc: sparse leaves out what request_init would put back.
Write(r, sparse) ==
    [f \in {g \in CardField : ~sparse \/ g \in AlwaysWritten \/ r[g] # Defaults[g]} |-> Rounded(r[f])]

\* run_lm, run_synth: the worker process is sent the whole request as JSON.
Marshal(r) == IF piped THEN Parse(Write(r, FALSE)) ELSE r

Resolved(r, f, random) == IF r[f][2] < 0 THEN With(r, f, Whole(random)) ELSE r
Between(n, low, high) == IF n < low THEN low ELSE IF n > high THEN high ELSE n
-----------------------------------------------------------------------------
CardInit ==
    /\ card \in Cards /\ piped \in BOOLEAN
    /\ cardPc = "post" /\ made = <<>> /\ results = <<>> /\ posted = <<>> /\ tracks = <<>>

LmModes == {"generate", "inspire", "format"}
LmRefuses(r) == r["caption"] = Str(Blank) \/ r["lm_mode"] \notin {Str(m) : m \in LmModes}

\* What the LM writes where the request has no lyrics.
Lyrics == {Str("a line"), Str("[Instrumental]")}

\* ace_lm_generate: every result is the request, with what the LM wrote and seeds
\* of its own.
Seconds(d) == IF d[2] <= 0 THEN Real(120000) ELSE IF d[2] > 600000 THEN Real(600000) ELSE d
LmOut(r, n, ditSeed, lyrics) ==
    [b \in 1 .. n |-> [f \in CardField |->
        CASE f = "lyrics" /\ r[f] = Str(Blank) -> lyrics
          [] f = "duration" -> Seconds(r[f])
          [] f = "seed" -> Whole(ditSeed + b - 1)
          [] f = "lm_seed" -> Whole(r[f][2] + b - 1)
          [] f = "lm_batch_size" -> Whole(1)
          [] f = "use_cot_caption" /\ r["lm_mode"] = Str("inspire") -> Flag(TRUE)
          [] OTHER -> r[f]]]

\* handle_lm, lm_worker.
PostLm ==
    /\ cardPc = "post"
    /\ IF LmRefuses(Parse(card)) THEN cardPc' = "refused" /\ UNCHANGED <<made, results>>
       ELSE \E lmRandom, ditRandom \in {0, SeedMod - 1}, lyrics \in Lyrics :
            LET r == Marshal(Resolved(Parse(card), "lm_seed", lmRandom))
                n == Between(r["lm_batch_size"][2], 1, LmBatchCap)
            IN  /\ made' = LmOut(r, n, Resolved(r, "seed", ditRandom)["seed"][2], lyrics)
                /\ results' = [b \in 1 .. n |-> Write(made'[b], TRUE)]
                /\ cardPc' = "results"
    /\ UNCHANGED <<card, piped, posted, tracks>>

\* The client posts one of the results, or all of them in an array, or the card it
\* began with.
PostRound ==
    /\ cardPc \in {"results", "refused"}
    /\ posted' \in {<<card>>} \cup {<<results[b]>> : b \in DOMAIN results}
                   \cup (IF results = <<>> THEN {} ELSE {results})
    /\ cardPc' = "synth"
    /\ UNCHANGED <<card, piped, made, results, tracks>>

Formats == {"mp3", "wav16", "wav24", "wav32"}
CaptionlessTasks == {"lego", "extract", "complete"}
SynthRefuses(r) ==
    \/ r["caption"] = Str(Blank) /\ r["task_type"] \notin {Str(t) : t \in CaptionlessTasks}
    \/ r["output_format"] \notin {Str(f) : f \in Formats}

VariantsBug(r) == Between(r["synth_batch_size"][2], 0, MaxTracks)

Variants(r) == Between(r["synth_batch_size"][2], 1, MaxTracks)

\* The batch so far, and the variants of one more request as long as there is room.
Expand(batch, r) ==
    LET room == MaxTracks - Len(batch)
        n == IF Variants(r) > room THEN room ELSE Variants(r)
    IN  batch \o [i \in 1 .. n |-> With(r, "seed", Whole(r["seed"][2] + i - 1))]

Expanded(rs) == LET upTo[k \in 0 .. Len(rs)] == IF k = 0 THEN <<>> ELSE Expand(upTo[k - 1], rs[k])
                IN  upTo[Len(rs)]

\* handle_synth, synth_worker: only the first request is looked at by the handler.
PostSynth ==
    /\ cardPc = "synth"
    /\ IF SynthRefuses(Parse(posted[1])) THEN cardPc' = "refused2" /\ UNCHANGED tracks
       ELSE \E random \in {0, SeedMod - 1} :
            /\ tracks' = Expanded([k \in DOMAIN posted |-> Resolved(Marshal(Parse(posted[k])), "seed", random)])
            /\ cardPc' = "rendered"
    /\ UNCHANGED <<card, piped, made, results, posted>>

CardNext == PostLm \/ PostRound \/ PostSynth

CardSpec == CardInit /\ [][CardNext]_cardVars
-----------------------------------------------------------------------------
SeedUsed(r, f) == r[f][2] % SeedMod
Seeds == {"seed", "lm_seed"}

\* A result posted by itself is what the batch made: the same seeds, and every field
\* as the worker left it but for the third decimal and the language of an
\* instrumental; and reading and writing it again changes nothing any more.
CardReplays ==
    \A b \in DOMAIN results :
        LET again == Parse(results[b])
        IN  /\ \A f \in Seeds : again[f][2] >= 0 /\ SeedUsed(again, f) = SeedUsed(made[b], f)
            /\ \A f \in CardField \ {"vocal_language"} : again[f] = Rounded(made[b][f])
            /\ Parse(Write(again, TRUE)) = again /\ Parse(Write(again, FALSE)) = again

\* There is at least one track and no more than the limit; while there is room no
\* card posted goes without a track, and each track of a card that came back is one
\* of those the card's request asked for, with the seed it would have if posted alone.
TracksAccountedFor ==
    cardPc = "rendered" =>
        /\ Len(tracks) \in 1 .. MaxTracks
        /\ Len(tracks) < MaxTracks => Len(tracks) >= Len(posted)
        /\ posted = results /\ Len(posted) > 0 =>
              \A t \in DOMAIN tracks : \E b \in DOMAIN results : \E i \in 0 .. MaxTracks - 1 :
                  /\ tracks[t]["seed"][2] = made[b]["seed"][2] + i
                  /\ i < Variants(made[b])

\* A card that comes back renders the same song again, all its tracks included
\* (request_parse, request_write, synth_worker).
CardsReplayInFull == CardReplays /\ TracksAccountedFor
=============================================================================
