---------------------------- MODULE SonggenTokens ----------------------------
(***************************************************************************)
(* The token loop of the three SongGen programs, songgen-generate,         *)
(* songgen-continue and songgen-clone, on the KV cache of                  *)
(* songgen-lelm-gen.h.                                                     *)
(*                                                                         *)
(* A song is three rows of codes laid out with a delay: row q of frame t   *)
(* sits in column t + delays[q] + 1.  Column by column the language model  *)
(* runs once with the conditioning and once without; both runs share one   *)
(* cache buffer, which grows in place.  The rows end one by one, when they *)
(* draw EOS, and the frames where both audible rows hold a code are        *)
(* decoded.                                                                *)
(*                                                                         *)
(* A code drawn in a column is that column's number, so that a frame shows *)
(* where its code was drawn.  Which codes can win (guidance, repetition    *)
(* penalty, top-k, the prompt codes barred from row 0) is left open.       *)
(***************************************************************************)
EXTENDS Integers, Sequences, FiniteSetsExt

CONSTANTS DescLen, AudioLen, TypeLen,   \* lengths of the conditioning parts
          MaxDelay,                     \* delay of the audible rows (250)
          ModelMax,                     \* SGGEN_MODEL_MAX_FRAMES
          CodeSize,                     \* codes are 0..CodeSize-1 (16384)
          Bucket, Block,                \* SG_KV_BUCKET, SG_KV_GROW_BLOCK
          Asks                          \* what the programs are asked for, see Ask

ASSUME SonggenTokensAssumption ==
    /\ {DescLen, AudioLen, TypeLen, MaxDelay, ModelMax, Bucket, Block} \subseteq Nat \ {0}
    /\ CodeSize \in Nat /\ CodeSize > ModelMax + MaxDelay

VARIABLES song,      \* what the program was asked for
          kv,        \* SonggenLeLMGen: capacity, ceiling, positions, cells
          gen_seq,   \* gen_seq[q][p]
          is_end,    \* is_end[q]
          offset,    \* last column generated
          context,   \* the cells each run attended to in that column
          codes      \* what is handed to the decoder, and how the program ended

tokVars == <<song, kv, gen_seq, is_end, offset, context, codes>>

EOS == CodeSize
SP == CodeSize + 1
Unknown == -1
Books == 0 .. 2
Rows == {0, 1}                  \* cond, uncond
Stacks == {"main", "sub"}
delays == [q \in Books |-> IF q = 0 THEN 0 ELSE MaxDelay]
PrefixLen == DescLen + AudioLen + TypeLen

MaxGenLen(a) ==
    Max({1, IF a.frames > 0 THEN a.frames
            ELSE IF a.duration > 0 THEN (a.duration + 1) \div 2
            ELSE ModelMax})

Layout(a) == 1 + MaxGenLen(a) + MaxDelay
Valid(a, q, p) == (p - 1) - delays[q] \in 0 .. MaxGenLen(a) - 1
Pattern(a) == [q \in Books |-> [p \in 0 .. Layout(a) - 1 |->
                  IF p > 0 /\ Valid(a, q, p) THEN Unknown ELSE SP]]

---------------------------------------------------------------------------
(* What the first forward is fed before the codes.                         *)

Cell(kind, row, at, ids) == [kind |-> kind, row |-> row, at |-> at, ids |-> ids]
NoIds == <<0, 0, 0>>
Zero == Cell("zero", 0, 0, NoIds)

sgclone_build_audio_ids(n, i) ==
    LET id(book) == IF i = 0 THEN EOS
                    ELSE IF i <= Min({n, AudioLen - 2}) THEN 3 * i + book ELSE SP
    IN <<id(0), id(1), id(2)>>

AudioIds(a, row, i) ==
    IF a.tool = "generate" \/ row = 1 THEN <<SP, SP, SP>>
    ELSE sgclone_build_audio_ids(a.prompt, i)

Conditioning(a, row) ==
    [i \in 1 .. PrefixLen |->
        CASE i <= DescLen -> Cell("desc", row, i, NoIds)
          [] i = DescLen + 1 -> Cell("eot", row, i, NoIds)
          [] i \in DescLen + 2 .. DescLen + AudioLen ->
                Cell("audio", row, i, AudioIds(a, row, i - DescLen - 2))
          [] OTHER -> Cell("type", row, i, NoIds)]

Column(row, seq, p) ==
    Cell("code", row, PrefixLen + p + 1, <<seq[0][p], seq[1][p], seq[2][p]>>)

Feed(row, p) ==
    IF p = 1 THEN Append(Conditioning(song, row), Column(row, gen_seq, 0))
    ELSE <<Column(row, gen_seq, p - 1)>>

---------------------------------------------------------------------------
(* The cache.                                                              *)

sggen_build_kv_tensors(n) ==
    [st \in Stacks |-> [r \in Rows |-> [i \in 1 .. n |-> Zero]]]

sggen_alloc_kv_dyn(init_seq, cap_seq) ==
    LET n == Max({1, Min({init_seq, cap_seq})})
    IN [max_seq |-> n, cap |-> cap_seq, ok |-> TRUE,
        pos |-> [st \in Stacks |-> [r \in Rows |-> 0]],
        cells |-> sggen_build_kv_tensors(n)]

\* Staging forgets the row offset: both rows get the first row's slab.
sggen_grow_kvSlabBug(k, want) ==
    LET new_seq == Min({want, k.cap})
    IN IF new_seq <= k.max_seq THEN k
       ELSE [k EXCEPT !.max_seq = new_seq,
                      !.cells = [st \in Stacks |-> [r \in Rows |-> [i \in 1 .. new_seq |->
                                    IF i <= k.pos[st][0] THEN k.cells[st][0][i] ELSE Zero]]]]

\* Only the used prefix goes through host memory; the new buffer is zero
\* beyond it.
sggen_grow_kv(k, want) ==
    LET new_seq == Min({want, k.cap})
        used == [st \in Stacks |-> Max({k.pos[st][r] : r \in Rows})]
    IN IF new_seq <= k.max_seq THEN k
       ELSE [k EXCEPT !.max_seq = new_seq,
                      !.cells = [st \in Stacks |-> [r \in Rows |-> [i \in 1 .. new_seq |->
                                    IF i <= used[st] THEN k.cells[st][r][i] ELSE Zero]]]]

sggen_ensure_kv(k, need) ==
    LET target == Max({need, Min({2 * k.max_seq, k.max_seq + Block})})
    IN IF need <= k.max_seq THEN k ELSE sggen_grow_kv(k, target)

Stored(k, st, row, toks) ==
    [k EXCEPT !.cells[st][row] = [i \in 1 .. k.max_seq |->
                  IF i \in k.pos[st][row] + 1 .. k.pos[st][row] + Len(toks)
                  THEN toks[i - k.pos[st][row]] ELSE @[i]],
              !.pos[st][row] = @ + Len(toks)]

Write(k, row, toks) == Stored(Stored(k, "main", row, toks), "sub", row, toks)

sggen_step(k, row, toks) ==
    LET need == Max({k.pos[st][row] : st \in Stacks}) + Len(toks)
        big == sggen_ensure_kv(k, need)
    IN IF ~k.ok \/ k.pos["main"][row] + Len(toks) > big.max_seq
       THEN [big EXCEPT !.ok = FALSE]
       ELSE Write(big, row, toks)

WholeBuckets(n) == IF Bucket <= 1 THEN n ELSE ((n + Bucket - 1) \div Bucket) * Bucket

sggen_step_batch(k, toks) ==
    LET at == k.pos["main"][0]
        lockstep == \A st \in Stacks, r \in Rows :
                        k.pos[st][r] = k.pos[st][0] /\ Len(toks[r]) = 1
        big == sggen_ensure_kv(k, WholeBuckets(at + 1))
    IN IF ~lockstep \/ at + 1 > big.max_seq THEN [big EXCEPT !.ok = FALSE]
       ELSE Write(Write(big, 0, toks[0]), 1, toks[1])

\* What the queries of the last column see: the mask opens [0, kv_len) and
\* closes the rest of the padded read.
Attended(k) == [st \in Stacks |-> [r \in Rows |-> SubSeq(k.cells[st][r], 1, k.pos[st][r])]]

GenerateKv(a) ==
    LET cap_seq == PrefixLen + Layout(a) + 4
        init_seq == IF a.static THEN cap_seq ELSE PrefixLen + MaxDelay + 1 + 4
    IN sggen_alloc_kv_dyn(init_seq, cap_seq)

sggen_alloc_kv(a) ==
    LET n == PrefixLen + Layout(a) + 4 IN sggen_alloc_kv_dyn(n, n)

---------------------------------------------------------------------------
(* One column.                                                             *)

Forward(p) ==
    IF p = 1 \/ song.no_batch
    THEN sggen_step(sggen_step(kv, 0, Feed(0, p)), 1, Feed(1, p))
    ELSE sggen_step_batch(kv, [r \in Rows |-> Feed(r, p)])

\* The token a row draws in column p before masking; an ended row's draw is
\* masked, whatever it is.
Draws(q, p) == IF is_end[q] THEN {SP} ELSE {p, EOS}

\* A row that ended goes on drawing codes.
MaskedEndBug(q, p, tok) == IF ~Valid(song, q, p) THEN SP ELSE IF tok = SP THEN p ELSE tok

Masked(q, p, tok) == IF ~Valid(song, q, p) \/ is_end[q] THEN SP ELSE tok

More == /\ codes.end = "running"
        /\ offset + 1 < Layout(song)
        /\ ~\A q \in Books : is_end[q]

Sample(p, heeds_eos) ==
    \E drawn \in {d \in [Books -> {p, EOS, SP}] : \A q \in Books : d[q] \in Draws(q, p)} :
        LET next == [q \in Books |-> Masked(q, p, drawn[q])]
        IN /\ is_end' = [q \in Books |-> is_end[q] \/ (heeds_eos /\ next[q] = EOS)]
           /\ gen_seq' = [q \in Books |->
                  IF gen_seq[q][p] = Unknown THEN [gen_seq[q] EXCEPT ![p] = next[q]]
                  ELSE gen_seq[q]]

Advance(heeds_eos) ==
    LET p == offset + 1
        k == Forward(p)
    IN /\ More
       /\ kv' = k
       /\ UNCHANGED song
       /\ \/ /\ k.ok
             /\ context' = Attended(k)
             /\ offset' = p
             /\ Sample(p, heeds_eos)
             /\ UNCHANGED codes
          \/ /\ ~k.ok
             /\ codes' = [codes EXCEPT !.end = "fatal"]
             /\ UNCHANGED <<gen_seq, is_end, offset, context>>

GenerateColumn == song.tool = "generate" /\ Advance(~song.no_eos)
ContinueColumn == song.tool = "continue" /\ Advance(TRUE)
CloneColumn == song.tool = "clone" /\ Advance(TRUE)

---------------------------------------------------------------------------
(* From columns back to frames.                                            *)

\* revert_pattern_sequence
Reverted(q, t) ==
    LET p == t + delays[q] + 1
        val == IF p <= offset THEN gen_seq[q][p] ELSE Unknown
    IN IF val = Unknown THEN EOS ELSE val

Audible(code) == code \in 0 .. CodeSize - 1
Clamped(code) == IF code < 0 THEN 0 ELSE IF code >= CodeSize THEN CodeSize - 1 ELSE code
Tv == Max({0} \cup {t \in 1 .. MaxGenLen(song) :
                       Audible(Reverted(1, t - 1)) /\ Audible(Reverted(2, t - 1))})

Revert ==
    /\ codes.end = "running" /\ ~More
    /\ codes' = [end |-> IF Tv = 0 THEN "no frames" ELSE "decode",
                 vocal |-> [t \in 1 .. Tv |-> Clamped(Reverted(1, t - 1))],
                 bgm |-> [t \in 1 .. Tv |-> Clamped(Reverted(2, t - 1))]]
    /\ UNCHANGED <<song, kv, gen_seq, is_end, offset, context>>

GenerateFrames == song.tool = "generate" /\ Revert
ContinueFrames == song.tool = "continue" /\ Revert
CloneFrames == song.tool = "clone" /\ Revert

---------------------------------------------------------------------------
\* frames and duration are --frames and --duration (in 1/50 s), prompt the
\* frames of the audio prompt; no_batch, no_eos and static are SGLM_NO_BATCH,
\* SGLM_NO_EOS and SG_KV_STATIC.  Only songgen-generate reads the last two.
Ask == [tool : {"generate", "continue", "clone"}, frames : Int, duration : Int,
        no_batch : BOOLEAN, no_eos : BOOLEAN, static : BOOLEAN, prompt : Nat]

\* A code is named after the column it is drawn in: there are enough names.
ASSUME AsksAssumption == \A a \in Asks : a \in Ask /\ Layout(a) <= CodeSize

TokInit ==
    /\ song \in Asks
    /\ kv = IF song.tool = "generate" THEN GenerateKv(song) ELSE sggen_alloc_kv(song)
    /\ gen_seq = Pattern(song)
    /\ is_end = [q \in Books |-> FALSE]
    /\ offset = 0
    /\ context = Attended(kv)
    /\ codes = [end |-> "running", vocal |-> <<>>, bgm |-> <<>>]

TokNext == \/ GenerateColumn \/ ContinueColumn \/ CloneColumn
           \/ GenerateFrames \/ ContinueFrames \/ CloneFrames

TokSpec == TokInit /\ [][TokNext]_tokVars

---------------------------------------------------------------------------
\* Both stacks of both runs see, in every column, their own conditioning
\* followed by the columns generated so far, in order and none of them
\* unknown, across every growth of the buffer and whichever of the two
\* forward paths wrote the cells.
ContextIsOwnHistory ==
    /\ codes.end # "fatal"
    /\ \A st \in Stacks, r \in Rows :
          /\ context[st][r] =
                IF offset = 0 THEN <<>>
                ELSE Conditioning(song, r) \o [p \in 1 .. offset |-> Column(r, gen_seq, p - 1)]
          /\ \A i \in DOMAIN context[st][r] :
                \A q \in 1 .. 3 : context[st][r][i].ids[q] # Unknown

\* A decoded frame pairs the vocal and the background code that were drawn in
\* the same column, the frames decoded are consecutive from the first, and no
\* padding is passed off as a code; unless EOS is ignored on purpose
\* (SGLM_NO_EOS).
FramesArePaired ==
    codes.end = "decode" /\ ~song.no_eos =>
        \A t \in DOMAIN codes.vocal :
            codes.vocal[t] = t + MaxDelay /\ codes.bgm[t] = t + MaxDelay
=============================================================================
