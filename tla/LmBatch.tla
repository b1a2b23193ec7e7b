------------------------------- MODULE LmBatch -------------------------------
(***************************************************************************)
(* How the LM pipelines use the KV cache of one Qwen3LM instance           *)
(* (src/src/pipeline-lm.cpp, pipeline-understand.cpp, qwen3-lm.h).  A call *)
(* prefills prompts into KV sets and then decodes N sequences in lockstep: *)
(* phase 1 (text, every sequence forwarded to the end), phase 2 (audio     *)
(* codes, finished sequences compacted away, optionally with an            *)
(* unconditional twin of every sequence), or the single sequence of        *)
(* /understand.  The instance is shared, so a call finds in the cache what *)
(* the calls before it left there.                                         *)
(*                                                                         *)
(* A KV set is represented by the tokens whose keys and values it holds,   *)
(* logits by the two token histories they were computed from, sampling by  *)
(* a free choice, and what is sampled by the sequence that sampled it.     *)
(***************************************************************************)
EXTENDS Integers, Sequences, FiniteSets

CONSTANTS
    MaxBatch,    \* AceLmParams.max_batch; the cache has twice as many sets
    MaxSeq,      \* max_seq_len, the capacity of a KV set
    FillTokens,  \* max_new_tokens of phase 1 (2048 in the code)
    CodeTokens,  \* max_tokens of phase 2 (duration * 5 + 100)
    TextTokens,  \* max_tokens of /understand (4096)
    CondLen,     \* the lengths prompts may have
    UncondLen    \* the length of the unconditional prompt

ASSUME LmBatchAssumption ==
    /\ MaxBatch \in Nat \ {0} /\ MaxSeq \in Nat
    /\ FillTokens \in Nat /\ CodeTokens \in Nat /\ TextTokens \in Nat
    /\ CondLen \subseteq Nat \ {0} /\ UncondLen \in Nat \ {0}

Set  == 0..(2 * MaxBatch - 1)      \* n_kv_sets = 2 * max_batch
Slot == Set

VARIABLES
    kv,                       \* set -> the tokens in it; kv_pos is the length
    batchPc,                  \* which loop runs
    call,                     \* the arguments of the call
    seqs,                     \* the sequences: prompt, gen, last_token, done
    seen,                     \* sequence -> <<cond, uncond>> histories it was last sampled from
    n_active, step,
    batch_tokens, batch_sets  \* phase 2: arrays reused from step to step

batchVars == <<kv, batchPc, call, seqs, seen, n_active, step, batch_tokens, batch_sets>>

\* A token: what it is, and whose (0: a prompt that several sequences share).
Token == [t : {"prompt", "uncond", "cot", "text", "im_end", "think_end"}, i : Nat]
Choice == {"text", "im_end", "think_end"}
Written(i, ch) == [t |-> ch, i |-> i + 1]
Zero == [t |-> "text", i |-> 0]

Prompt(kind, owner, len) == [x \in 1..len |-> [t |-> kind, i |-> owner]]
Uncond == Prompt("uncond", 0, UncondLen)

NoCall == [n |-> 0, cfg |-> FALSE, twin |-> FALSE, lyrics |-> FALSE, skip |-> FALSE]

Active(ss) == {i \in DOMAIN ss : ~ ss[i].done}

BatchTypeOK ==
    /\ kv \in [Set -> Seq(Token)]
    /\ batchPc \in {"idle", "fill", "filled", "codes", "text", "exited"}
    /\ call \in [n : 0..MaxBatch, cfg : BOOLEAN, twin : BOOLEAN, lyrics : BOOLEAN,
                 skip : BOOLEAN]
    /\ DOMAIN seqs \subseteq 0..(MaxBatch - 1) /\ DOMAIN seen = DOMAIN seqs
    /\ \A i \in DOMAIN seqs :
          seqs[i] \in [prompt : Seq(Token), gen : Seq(Token), last : Token, done : BOOLEAN]
    /\ n_active = Cardinality(Active(seqs)) /\ step \in Nat
    /\ batch_tokens \in [Slot -> Token] /\ batch_sets \in [Slot -> Set]

BatchInit ==
    /\ kv = [s \in Set |-> <<>>]
    /\ batchPc = "idle" /\ call = NoCall
    /\ seqs = <<>> /\ seen = <<>> /\ n_active = 0 /\ step = 0
    /\ batch_tokens = [a \in Slot |-> Zero] /\ batch_sets = [a \in Slot |-> 0]
-----------------------------------------------------------------------------
(***************************************************************************)
(* qwen3-lm.h                                                              *)
(***************************************************************************)
\* (A ...Bug operator is a plausible mistake in the definition that follows,
\* there to show which property would notice it.)

\* qw3lm_reset_kv of every set in S.
Reset(K, S) == [s \in Set |-> IF s \in S THEN <<>> ELSE K[s]]

\* qw3lm_forward: tokens that do not fit are dropped with a message.
Forward(K, s, toks) ==
    IF Len(K[s]) + Len(toks) > MaxSeq THEN K ELSE [K EXCEPT ![s] = @ \o toks]

\* qw3lm_copy_kv from s to every set in S.
Copy(K, s, S) == [x \in Set |-> IF x \in S THEN K[s] ELSE K[x]]

OverrunsBug(S) == Len(kv[0]) + 1 > MaxSeq

\* qw3lm_forward_batch ends the process if one of its sets is full.
Overruns(S) == \E s \in S : Len(kv[s]) + 1 > MaxSeq

\* It appends tok[a] to the set of slot a, for the slots below n.
ForwardBatch(tok, set, n) ==
    [s \in Set |-> IF \E a \in 0..(n - 1) : set[a] = s
                   THEN Append(kv[s], tok[CHOOSE a \in 0..(n - 1) : set[a] = s])
                   ELSE kv[s]]
-----------------------------------------------------------------------------
(***************************************************************************)
(* Prefill and sampling                                                    *)
(***************************************************************************)
CondSets(n) == 0..(n - 1)
UncondSets(n) == n..(2 * n - 1)
SetsOf(c) == CondSets(c.n) \cup (IF c.twin THEN UncondSets(c.n) ELSE {})

\* One prompt for all: prefilled once, copied to the other sequences.
PrefillShared(K, first, toks, sets) == Copy(Forward(K, first, toks), first, sets \ {first})

\* A prompt for each of the sequences.
PrefillEach(K, prompts) ==
    [s \in Set |-> IF s \in DOMAIN prompts THEN Forward(K, s, prompts[s])[s] ELSE K[s]]

PrefillTwins(K, c) ==
    IF c.twin THEN PrefillShared(K, c.n, Uncond, UncondSets(c.n)) ELSE K

\* The histories behind the logits of sequence i.
Logits(K, c, i) == <<K[i], IF c.twin THEN K[c.n + i] ELSE <<>> >>

\* Phase 1 without lyrics (stop_at_reasoning) ends at </think>, which it keeps.
Stops(c, ch) == ch = "think_end" /\ ~ c.lyrics

\* The first token of a sequence is sampled from the logits of its prefill.
First(c, i, prompt, ch) ==
    [prompt |-> prompt, gen |-> IF ch = "im_end" THEN <<>> ELSE <<Written(i, ch)>>,
     last |-> Written(i, ch), done |-> ch = "im_end" \/ Stops(c, ch)]

\* The call c starts decoding: the cache is K, choices are what can be sampled.
StartDecode(c, prompts, K, choices) ==
    /\ kv' = K /\ call' = c
    /\ \E ch \in [DOMAIN prompts -> choices] :
          seqs' = [i \in DOMAIN prompts |-> First(c, i, prompts[i], ch[i])]
    /\ seen' = [i \in DOMAIN prompts |-> Logits(K, c, i)]
    /\ n_active' = Cardinality(Active(seqs'))
    /\ step' = 0

Sampled(i, ch) ==
    LET tok == Written(i, ch)
    IN  CASE ch = "im_end"    -> [seqs[i] EXCEPT !.done = TRUE, !.last = tok]
          [] Stops(call, ch)  -> [seqs[i] EXCEPT !.done = TRUE, !.gen = Append(@, tok)]
          [] OTHER            -> [seqs[i] EXCEPT !.last = tok, !.gen = Append(@, tok)]

\* Every sequence that is not done samples one token, i from src[i].
Sample(src, choices) ==
    \E ch \in [Active(seqs) -> choices] :
        /\ seqs' = [i \in DOMAIN seqs |->
                      IF i \in Active(seqs) THEN Sampled(i, ch[i]) ELSE seqs[i]]
        /\ seen' = [i \in DOMAIN seqs |-> IF i \in Active(seqs) THEN src[i] ELSE seen[i]]
        /\ n_active' = Cardinality(Active(seqs'))

LeaveCountingBug(next) ==
    /\ batchPc' = next
    /\ call' = IF next = "idle" THEN NoCall ELSE call
    /\ seqs' = <<>> /\ seen' = <<>> /\ n_active' = n_active /\ step' = 0
    /\ batch_tokens' = [a \in Slot |-> Zero] /\ batch_sets' = [a \in Slot |-> 0]

\* A loop is left: its locals die, the cache stays as it is.
Leave(next) ==
    /\ batchPc' = next
    /\ call' = IF next = "idle" THEN NoCall ELSE call
    /\ seqs' = <<>> /\ seen' = <<>> /\ n_active' = 0 /\ step' = 0
    /\ batch_tokens' = [a \in Slot |-> Zero] /\ batch_sets' = [a \in Slot |-> 0]

Exit ==
    /\ batchPc' = "exited"
    /\ UNCHANGED <<kv, call, seqs, seen, n_active, step, batch_tokens, batch_sets>>
-----------------------------------------------------------------------------
(***************************************************************************)
(* generate_phase1_batch.  Its classifier-free guidance is only on when no *)
(* text is to be written beyond the metadata; skip: inspire, format modes. *)
(***************************************************************************)
StartFill(c, len) ==
    LET prompt == Prompt("prompt", 0, len)
        K == Reset(kv, SetsOf(c))
    IN  /\ batchPc = "idle"
        /\ c.twin => c.cfg /\ ~ c.lyrics
        /\ c.skip => c.lyrics
        /\ batchPc' = "fill"
        /\ StartDecode(c, [i \in CondSets(c.n) |-> prompt],
                       PrefillTwins(PrefillShared(K, 0, prompt, CondSets(c.n)), c),
                       Choice)
        /\ UNCHANGED <<batch_tokens, batch_sets>>

\* Finished sequences are fed their last token again and again.
FillStep ==
    LET K == ForwardBatch([a \in Slot |-> seqs[a % call.n].last], [a \in Slot |-> a],
                          Cardinality(SetsOf(call)))
    IN  /\ batchPc = "fill" /\ step < FillTokens /\ n_active > 0
        /\ IF Overruns(SetsOf(call)) THEN Exit
           ELSE /\ kv' = K
                /\ Sample([i \in DOMAIN seqs |-> Logits(K, call, i)], Choice)
                /\ step' = step + 1
                /\ UNCHANGED <<batchPc, call, batch_tokens, batch_sets>>

FillEndWaitsBug ==
    /\ batchPc = "fill" /\ n_active = 0
    /\ kv' = Reset(kv, SetsOf(call))
    /\ Leave(IF call.skip THEN "idle" ELSE "filled")

FillEnd ==
    /\ batchPc = "fill" /\ (step = FillTokens \/ n_active = 0)
    /\ kv' = Reset(kv, SetsOf(call))
    /\ Leave(IF call.skip THEN "idle" ELSE "filled")
-----------------------------------------------------------------------------
(***************************************************************************)
(* run_phase2_batch: after phase 1 every sequence has a prompt of its own, *)
(* a request that needed no phase 1 has one for all.                       *)
(***************************************************************************)
StartCodes(c, len) ==
    LET shared  == batchPc = "idle" \/ c.n = 1
        prompts == [i \in CondSets(c.n) |-> Prompt("cot", IF shared THEN 0 ELSE i + 1, len[i])]
        K == Reset(kv, SetsOf(c))
    IN  /\ batchPc = "idle" \/ (batchPc = "filled" /\ c = [call EXCEPT !.twin = call.cfg])
        /\ ~ c.skip /\ c.twin = c.cfg
        /\ shared => \A i \in CondSets(c.n) : len[i] = len[0]
        /\ batchPc' = "codes"
        /\ StartDecode(c, prompts,
                       PrefillTwins(IF shared
                                    THEN PrefillShared(K, 0, prompts[0], CondSets(c.n))
                                    ELSE PrefillEach(K, prompts), c),
                       {"text", "im_end"})
        /\ UNCHANGED <<batch_tokens, batch_sets>>

\* The place of an active sequence in the compacted batch.
Place(i) == Cardinality({j \in Active(seqs) : j < i})
InPlace(a) == CHOOSE i \in Active(seqs) : Place(i) = a

GatherBug(old, cond, uncond) ==
    [a \in Slot |->
        IF a < n_active THEN cond[InPlace(a)]
        ELSE IF call.twin /\ a \in call.n..(call.n + n_active - 1) THEN uncond[InPlace(a - call.n)]
        ELSE old[a]]

\* Active sequences first, their twins n_active slots later; the rest of the
\* array keeps what an earlier step put there.
Gather(old, cond, uncond) ==
    [a \in Slot |->
        IF a < n_active THEN cond[InPlace(a)]
        ELSE IF call.twin /\ a < 2 * n_active THEN uncond[InPlace(a - n_active)]
        ELSE old[a]]

\* use_batch_cfg only says whether the twins go in a forward of their own.
CodesStep ==
    LET lasts == [i \in DOMAIN seqs |-> seqs[i].last]
        toks  == Gather(batch_tokens, lasts, lasts)
        sets  == Gather(batch_sets, [i \in DOMAIN seqs |-> i], [i \in DOMAIN seqs |-> call.n + i])
        width == IF call.twin THEN 2 * n_active ELSE n_active
        K     == ForwardBatch(toks, sets, width)
    IN  /\ batchPc = "codes" /\ step < CodeTokens /\ n_active > 0
        /\ IF Overruns({sets[a] : a \in 0..(width - 1)}) THEN Exit
           ELSE /\ kv' = K
                /\ batch_tokens' = toks /\ batch_sets' = sets
                /\ Sample([i \in DOMAIN seqs |->
                              <<K[sets[Place(i)]],
                                IF call.twin THEN K[sets[n_active + Place(i)]] ELSE <<>> >>],
                          {"text", "im_end"})
                /\ step' = step + 1
                /\ UNCHANGED <<batchPc, call>>

CodesEnd ==
    /\ batchPc = "codes" /\ (step = CodeTokens \/ n_active = 0)
    /\ Leave("idle")
    /\ UNCHANGED kv
-----------------------------------------------------------------------------
(***************************************************************************)
(* ace_understand_generate: one sequence, in set 0.                        *)
(***************************************************************************)
StartText(len) ==
    LET prompt == Prompt("prompt", 0, len)
    IN  /\ batchPc = "idle"
        /\ batchPc' = "text" /\ call' = [NoCall EXCEPT !.n = 1, !.lyrics = TRUE]
        /\ kv' = Forward(Reset(kv, {0}), 0, prompt)
        /\ seqs' = [i \in {0} |-> [prompt |-> prompt, gen |-> <<>>, last |-> Zero, done |-> FALSE]]
        /\ seen' = [i \in {0} |-> << <<>>, <<>> >>]
        /\ n_active' = 1 /\ step' = 0
        /\ UNCHANGED <<batch_tokens, batch_sets>>

\* A token that finds the cache full is dropped: the logits stay those of the
\* history before it.
TextStep ==
    /\ batchPc = "text" /\ step < TextTokens /\ n_active > 0
    /\ Sample([i \in {0} |-> <<kv[0], <<>> >>], {"text", "im_end"})
    /\ kv' = IF seqs'[0].done THEN kv ELSE Forward(kv, 0, <<seqs'[0].last>>)
    /\ step' = step + 1
    /\ UNCHANGED <<batchPc, call, batch_tokens, batch_sets>>

TextEnd ==
    /\ batchPc = "text" /\ (step = TextTokens \/ n_active = 0)
    /\ Leave("idle")
    /\ UNCHANGED kv

\* The cancel callback, asked before every step of a loop: the call returns at
\* once and resets nothing.
Cancel ==
    /\ \/ batchPc = "fill" /\ step < FillTokens
       \/ batchPc = "codes" /\ step < CodeTokens
       \/ batchPc = "text" /\ step < TextTokens
    /\ n_active > 0
    /\ Leave("idle")
    /\ UNCHANGED kv

Calls == [n : 1..MaxBatch, cfg : BOOLEAN, twin : BOOLEAN, lyrics : BOOLEAN, skip : BOOLEAN]

Decoding == FillStep \/ FillEnd \/ CodesStep \/ CodesEnd \/ TextStep \/ TextEnd

BatchNext ==
    \/ \E c \in Calls : \E len \in CondLen : StartFill(c, len)
    \/ \E c \in Calls : \E len \in [CondSets(c.n) -> CondLen] : StartCodes(c, len)
    \/ \E len \in CondLen : StartText(len)
    \/ Decoding
    \/ Cancel

\* A call that was made runs; whether any is made is up to the clients.
BatchFairness == WF_batchVars(Decoding)

BatchSpec == BatchInit /\ [][BatchNext]_batchVars /\ BatchFairness

-----------------------------------------------------------------------------
(***************************************************************************)
(* Properties                                                              *)
(***************************************************************************)
\* What sequence i had written when it last sampled.
Before(i) ==
    LET q == seqs[i]
    IN  IF q.gen = <<>> \/ q.last.t = "im_end" THEN q.gen ELSE SubSeq(q.gen, 1, Len(q.gen) - 1)

HasSampled(i) == seqs[i].gen # <<>> \/ seqs[i].done

\* The prompts and, in the one loop that goes on without room, the text fit.
Fits(i) ==
    /\ Len(seqs[i].prompt \o (IF batchPc = "text" THEN Before(i) ELSE <<>>)) <= MaxSeq
    /\ call.twin => UncondLen <= MaxSeq

\* Every token is sampled from the sequence's own prompt and all it wrote so
\* far, guided by the unconditional prompt followed by the same tokens: not by
\* a neighbour's that moved into its slot when the batch was compacted, nor by
\* what an earlier or a cancelled call left in the shared cache.
SampledFromOwnHistory ==
    \A i \in DOMAIN seqs : HasSampled(i) /\ Fits(i) =>
        seen[i] = <<seqs[i].prompt \o Before(i),
                    IF call.twin THEN Uncond \o Before(i) ELSE <<>> >>

\* No KV set is ever written past its capacity, by whichever of its writers.
KvInBounds == \A s \in Set : Len(kv[s]) <= MaxSeq

\* Sequences that share a cache stay apart: each reads its own history, in a
\* set that is never written past its end (qw3lm_forward_batch and its callers).
SequencesStayApart == BatchTypeOK /\ SampledFromOwnHistory /\ KvInBounds

\* A model that never emits an end token ends all the same: every call returns
\* to its caller, or the process ends.
EveryCallReturns ==
    (batchPc \in {"fill", "codes", "text"}) ~> (batchPc \in {"idle", "filled", "exited"})
=============================================================================
