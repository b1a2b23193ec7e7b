------------------------------- MODULE MCText -------------------------------
(***************************************************************************)
(* What becomes of a request, one machine at a time: `part` says which of  *)
(* the modules runs, the others stay where they start.  The modules share  *)
(* no state; each is explored in full.                                     *)
(*   batch    LmBatch       two sequences, small caches, all batch shapes  *)
(*   sizing   LmSizing      the real lengths                               *)
(*   fsm      MetadataFsm   five sets of given fields, all modes           *)
(*   cards    RequestCards  each field alone with odd values, and batches  *)
(*   posts    Endpoints     three model directories, three posts           *)
(***************************************************************************)
EXTENDS LmBatch, LmSizing, MetadataFsm, RequestCards, Endpoints

VARIABLE part

-----------------------------------------------------------------------------
(* MetadataFsm *)
MCUnknown == <<0>>

\* 9 stands for a number above 600 wherever it is read alone.
MCLong == {<<9>>, <<9, 9>>, <<9, 1>>}

Given == <<2, 1>>

MCAsks ==
    {[given |-> g, skip_caption |-> c, inspire |-> i] : c, i \in BOOLEAN,
       g \in {<<>>, ("bpm" :> Given) @@ ("keyscale" :> Given),
              ("duration" :> <<9, 1>>) @@ ("language" :> MCUnknown), "duration" :> Given,
              ("bpm" :> Given) @@ ("duration" :> Given) @@ ("language" :> Given)
                @@ ("timesignature" :> Given)}}

MCValues ==
    [f \in Field |-> CASE f \in {"duration", "keyscale"} -> {<<1>>, <<1, 2>>}
                      [] f = "language" -> {<<2>>, MCUnknown}
                      [] OTHER -> {<<2>>}]

-----------------------------------------------------------------------------
(* RequestCards: fields are of several types, a card gives each one a value  *)
(* of its own type, of another, or out of range.                             *)
Seed == "caption" :> Str("c")

Some(f) ==
    CASE f \in Texts          -> {Str(""), Str("x"), Whole(1)}
      [] f \in ChoiceFields   -> {Whole(1)} \cup {Str(v) : v \in {"", "wav16", "inspire", "lego"}}
      [] f \in Ints           -> {Str("x"), Real(2900), Real(-1500)} \cup {Whole(v) : v \in {0, 2, 7}}
      [] f \in Reals          -> {Str("x"), Whole(0), Whole(700)}
                                   \cup {Real(v) : v \in {4, 975, -1000, 1000}}
      [] f = "stork_substeps" -> {Str("x"), Whole(4), Real(4000)}
      [] OTHER                -> {Str("1"), Str("no"), Flag(FALSE), Whole(0)}

One == UNION {{(f :> v) @@ Seed : v \in Some(f)} : f \in CardField \ {"caption"}}

Batches ==
    {("seed" :> Whole(i)) @@ ("lm_seed" :> Whole(l)) @@ ("lm_batch_size" :> Whole(n))
       @@ ("synth_batch_size" :> Whole(m)) @@ Seed :
       i \in {-1, 0, 15}, l \in {-1, 14}, n \in {0, 2, 9}, m \in {0, 2, 5}}

Instrumental == ("lyrics" :> Str("[Instrumental]")) @@ Seed

MCCards ==
    One \cup Batches \cup
    {Seed, Instrumental, ("vocal_language" :> Str("en")) @@ Instrumental,
     "task_type" :> Str("lego"), ("lm_top_p" :> Real(975)) @@ Seed}

-----------------------------------------------------------------------------
(* Endpoints: all files, only a language model, no text encoder.             *)
File(n, a) == [name |-> n, gguf |-> TRUE, arch |-> a]

AllFiles ==
    {File(1, Lm), File(2, Dit), File(3, Enc), File(4, Vae), File(5, Lm), File(6, Dit),
     File(7, Vae), File(8, "other"), [name |-> 9, gguf |-> FALSE, arch |-> Lm]}

MCDirs == {AllFiles, {f \in AllFiles : f.arch = Lm}, {f \in AllFiles : f.arch # Enc}}

MCAdapterDir ==
    {[name |-> 2, file |-> TRUE, peft |-> FALSE], [name |-> 1, file |-> FALSE, peft |-> TRUE],
     [name |-> 3, file |-> FALSE, peft |-> FALSE]}

Req ==
    [caption |-> TRUE, mode_ok |-> TRUE, format_ok |-> TRUE, task_type |-> "text2music",
     lm_model |-> 0, synth_model |-> 0, vae |-> 0, adapter |-> 0]

Odd ==
    {[Req EXCEPT !.lm_model = n] : n \in {5, 9}}
      \cup {[Req EXCEPT !.synth_model = n] : n \in {2, 6}}
      \cup {[Req EXCEPT !.adapter = n] : n \in {1, 3}}
      \cup {Req, [Req EXCEPT !.vae = 7], [Req EXCEPT !.caption = FALSE],
            [Req EXCEPT !.format_ok = FALSE], [Req EXCEPT !.mode_ok = FALSE],
            [Req EXCEPT !.caption = FALSE, !.task_type = "lego"]}

Plain(to, q, j) ==
    [to |-> to, form |-> FALSE, json |-> j, req |-> q, audio |-> "none",
     src_latents |-> "none", ref_audio |-> "none", ref_latents |-> "none"]

Form(to, q, a, l, ra, rl) ==
    [Plain(to, q, "good") EXCEPT !.form = TRUE, !.audio = a, !.src_latents = l,
                                 !.ref_audio = ra, !.ref_latents = rl]

Part == {"none", "empty", "bad", "long", "good"}
Codec == {"/understand", "/vae"}

MCSent ==
    {Plain(t, q, "good") : t \in {"/lm", "/synth"}, q \in Odd}
      \cup {Plain(t, Req, "bad") : t \in {"/lm", "/synth"} \cup Codec}
      \cup {Form("/synth", Req, a, l, "none", "none") : a, l \in {"none", "bad", "good"}}
      \cup {Form("/synth", Req, "long", "none", a, "none") : a \in Part}
      \cup {Form("/synth", Req, "none", "none", "none", l) : l \in Part}
      \cup {Form(t, Req, a, l, "none", "none") : t \in Codec, a, l \in Part}
      \cup {Form(t, q, "good", "none", "none", "none") : t \in Codec, q \in Odd}
      \cup {Form("/vae", q, "none", "good", "none", "none") : q \in Odd}

-----------------------------------------------------------------------------
TextInit ==
    /\ part \in {"batch", "sizing", "fsm", "cards", "posts"}
    /\ part # "sizing" => budget = CHOOSE b \in Budgets : TRUE
    /\ part # "fsm" => ask = CHOOSE a \in Asks : TRUE
    /\ part # "cards" => card = Seed /\ piped = FALSE
    /\ part # "posts" => dir = AllFiles /\ isolated = FALSE /\ keepLoaded = FALSE
    /\ BatchInit /\ SizingInit /\ FsmInit /\ CardInit /\ EpInit

TextNext ==
    \/ /\ part = "batch" /\ BatchNext
       /\ UNCHANGED <<sizingVars, fsmVars, cardVars, epVars, part>>
    \/ /\ part = "sizing" /\ SizingNext
       /\ UNCHANGED <<batchVars, fsmVars, cardVars, epVars, part>>
    \/ /\ part = "fsm" /\ FsmNext
       /\ UNCHANGED <<batchVars, sizingVars, cardVars, epVars, part>>
    \/ /\ part = "cards" /\ CardNext
       /\ UNCHANGED <<batchVars, sizingVars, fsmVars, epVars, part>>
    \/ /\ part = "posts" /\ EpNext
       /\ UNCHANGED <<batchVars, sizingVars, fsmVars, cardVars, part>>

TextSpec == TextInit /\ [][TextNext]_<<batchVars, sizingVars, fsmVars, cardVars, epVars, part>>
=============================================================================
