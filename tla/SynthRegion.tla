----------------------------- MODULE SynthRegion -----------------------------
(***************************************************************************)
(* What a synthesis request makes the DiT see and the listener hear, frame *)
(* by frame: padding for outpainting, region coordinates, the length T of  *)
(* the canvas, the context with its mask, and the two splices that put the *)
(* source back outside the region (src/src/pipeline-synth.cpp and          *)
(* pipeline-synth-ops.cpp).                                                *)
(*                                                                         *)
(* Time is counted in audio samples, FrameLen of them to a latent frame    *)
(* (1920 in the code), as exact integers: the code computes the same times *)
(* in 32-bit floats.  A latent or a sample is represented by where it      *)
(* comes from.                                                             *)
(***************************************************************************)
EXTENDS Integers, Sequences, FiniteSets

CONSTANTS
    FrameLen,      \* samples per latent frame
    PatchSize,     \* T is a multiple of it
    MaxT,          \* frames of silence_full; a longer canvas is refused
    CodeFrames,    \* latent frames one FSQ code stands for (5)
    SrcLen,        \* source lengths tried, in samples
    Start, End,    \* repainting_start and repainting_end tried; -1 is the default end
    Codes          \* audio codes per request of the batch tried, as tuples of counts

ASSUME RegionAssumption ==
    /\ {FrameLen, PatchSize, MaxT, CodeFrames} \subseteq Nat \ {0}
    /\ SrcLen \subseteq Nat \ {0} /\ Start \subseteq Int /\ End \subseteq Int
    /\ Codes \subseteq Seq(Nat) \ {<<>>}

\* "cover" stands for every task with a source and no region: cover-nofsq,
\* extract, complete, and cover when its roundtrip is left out.
Task == {"text2music", "cover", "repaint", "lego"}

Request ==
    [task : Task \ {"text2music"}, src : {"audio", "latents"}, len : SrcLen,
     start : Start, end : End, codes : {<<0>>}]
    \cup
    [task : {"text2music"}, src : {"none"}, len : {0}, start : {0}, end : {-1}, codes : Codes]

VARIABLES
    regionPc,    \* the next function to run, or how the run ended
    rq,          \* the request
    synth,       \* the SynthState fields about the region
    cover,       \* s.cover_latents, one origin per frame
    ditContext,  \* s.context of each batch item: origin and mask per frame
    output,      \* s.output of one item
    wave         \* samples of that item's audio

regionVars == <<regionPc, rq, synth, cover, ditContext, output, wave>>

\* Where a frame or a sample comes from.
Origin(k, x) == [kind |-> k, at |-> x]
Silence == Origin("silence", 0)
Generated == Origin("generated", 0)
FromSource(x) == IF x \in 0 .. rq.len - 1 THEN Origin("source", x) ELSE Silence

MaxOf(a, b) == IF a >= b THEN a ELSE b
MinOf(a, b) == IF a <= b THEN a ELSE b
RoundUp(n, d) == ((n + d - 1) \div d) * d

\* (int) (x * 25.0f + 0.5f): to the nearest frame.
NearestFrames(x) == (2 * x + FrameLen) \div (2 * FrameLen)

IsRepaint == rq.task = "repaint"
IsLegoRegion == rq.task = "lego" /\ rq.end > rq.start
HasRegion == IsRepaint \/ IsLegoRegion
HasCover == rq.src # "none"

RegionInit ==
    /\ regionPc = "pad"
    /\ rq \in {q \in Request : q.src = "latents" => q.len % FrameLen = 0}
    /\ synth = [rs |-> rq.start, re |-> rq.end, left_pad |-> 0, padded |-> 0, shift |-> 0,
            T |-> 0, t0 |-> 0, t1 |-> 0]
    /\ cover = <<>> /\ ditContext = <<>> /\ output = <<>> /\ wave = <<>>
-----------------------------------------------------------------------------
(***************************************************************************)
(* apply_outpainting_padding, then ops_encode_src on the padded source.    *)
(* cover[t] is frame t - 1: sequences start at 1, frames at 0.             *)
(***************************************************************************)
LeftPad == MaxOf(0, -rq.start)
RightPad == MaxOf(0, (IF rq.end < 0 THEN rq.len ELSE rq.end) - rq.len)

\* The padding of the latent path is a whole number of frames, that of the
\* audio path is exact; the encoder drops the last partial frame.
PadSource ==
    /\ regionPc = "pad"
    /\ LET left == IF HasRegion THEN LeftPad ELSE 0
           right == IF HasRegion THEN RightPad ELSE 0
           frames == IF rq.src = "latents"
                     THEN NearestFrames(left) + rq.len \div FrameLen + NearestFrames(right)
                     ELSE (left + rq.len + right) \div FrameLen
           offset == IF rq.src = "latents" THEN NearestFrames(left) * FrameLen ELSE left
       IN  /\ synth' = [synth EXCEPT !.left_pad = left,
                             !.shift = offset,
                             !.padded = IF HasRegion /\ rq.src = "audio"
                                        THEN left + rq.len + right ELSE 0]
           /\ cover' = IF HasCover
                       THEN [t \in 1 .. frames |-> FromSource((t - 1) * FrameLen - offset)]
                       ELSE <<>>
    /\ regionPc' = IF HasRegion THEN "adjust" ELSE "resolve"
    /\ UNCHANGED <<rq, ditContext, output, wave>>

\* adjust_region_coords: any negative end is the sentinel.
AdjustedEnd ==
    IF synth.re < 0 THEN (IF rq.start < 0 THEN synth.left_pad ELSE rq.len + synth.left_pad)
                ELSE synth.re + synth.left_pad

AdjustRegion ==
    /\ regionPc = "adjust"
    /\ synth' = [synth EXCEPT !.rs = @ + synth.left_pad, !.re = AdjustedEnd]
    /\ regionPc' = IF AdjustedEnd <= synth.rs + synth.left_pad THEN "error" ELSE "resolve"
    /\ UNCHANGED <<rq, cover, ditContext, output, wave>>

\* The longest code sequence of the batch, in codes.
FirstCodesBug == rq.codes[1]

MaxCodes == CHOOSE n \in {rq.codes[b] : b \in DOMAIN rq.codes} :
                \A b \in DOMAIN rq.codes : rq.codes[b] <= n

\* ops_resolve_params and ops_resolve_T.  Without codes the length of
\* text2music is the duration asked for, here MaxT frames.
ResolveT ==
    /\ regionPc = "resolve"
    /\ LET frames == IF HasCover THEN Len(cover)
                     ELSE IF MaxCodes > 0 THEN MaxCodes * CodeFrames ELSE MaxT
           T == RoundUp(frames, PatchSize)
       IN  /\ synth' = [synth EXCEPT !.T = T]
           /\ regionPc' = IF T > MaxT THEN "error" ELSE "context"
    /\ UNCHANGED <<rq, cover, ditContext, output, wave>>
-----------------------------------------------------------------------------
(***************************************************************************)
(* ops_build_context                                                       *)
(***************************************************************************)
ZoneUnclampedBug ==
    IF IsRepaint THEN <<synth.rs \div FrameLen, synth.re \div FrameLen + 1>> ELSE <<0, 0>>

\* repaint_t0 and repaint_t1: computed for repaint, zero for every other task.
ZoneFrames ==
    IF IsRepaint
    THEN <<MinOf(synth.rs \div FrameLen, synth.T), MinOf(synth.re \div FrameLen, synth.T)>>
    ELSE <<0, 0>>

InZone(t, z) == t >= z[1] /\ t < z[2]

CoverOrSilence(t) == IF t < Len(cover) THEN cover[t + 1] ELSE Silence

KeepsSourceBug(t, z) ==
    [src |-> CoverOrSilence(t), mask |-> IF HasRegion /\ ~ InZone(t, z) THEN 0 ELSE 1]

\* repaint silences the zone, lego keeps the whole source.
SourceContext(t, z) ==
    [src |-> IF IsRepaint /\ InZone(t, z) THEN Silence ELSE CoverOrSilence(t),
     mask |-> IF HasRegion /\ ~ InZone(t, z) THEN 0 ELSE 1]

CodesContext(t, n) ==
    [src |-> IF t < n * CodeFrames THEN Origin("codes", t) ELSE Silence, mask |-> 1]

BuildContext ==
    /\ regionPc = "context"
    /\ synth' = [synth EXCEPT !.t0 = ZoneFrames[1], !.t1 = ZoneFrames[2]]
    /\ ditContext' = [b \in DOMAIN rq.codes |-> [t \in 1 .. synth.T |->
                      IF HasCover THEN SourceContext(t - 1, ZoneFrames)
                                  ELSE CodesContext(t - 1, rq.codes[b])]]
    /\ regionPc' = "generate"
    /\ UNCHANGED <<rq, cover, output, wave>>

\* ops_dit_generate, as far as origins go.
Generate ==
    /\ regionPc = "generate"
    /\ output' = [t \in 1 .. synth.T |-> Generated]
    /\ regionPc' = "splice"
    /\ UNCHANGED <<rq, synth, cover, ditContext, wave>>
-----------------------------------------------------------------------------
(***************************************************************************)
(* ops_vae_decode: the latent splice, the decoding, the waveform splice    *)
(***************************************************************************)
SplicedEarlyBug(t) == HasRegion /\ t < Len(cover) /\ (t < synth.t0 \/ t >= synth.t1 - 1)

\* Frames of the output that are replaced by the source.
Spliced(t) == HasRegion /\ t < Len(cover) /\ ~ InZone(t, <<synth.t0, synth.t1>>)

LatentSplice ==
    /\ regionPc = "splice"
    /\ output' = [t \in DOMAIN output |-> IF Spliced(t - 1) THEN cover[t] ELSE output[t]]
    /\ regionPc' = "decode"
    /\ UNCHANGED <<rq, synth, cover, ditContext, wave>>

UnpaddedSourceBug(i) == FromSource(i)

\* padded_src: the source between its paddings.
PaddedSample(i) == FromSource(i - synth.left_pad)

\* Audio path only: outside the zone the samples are those of padded_src, up
\* to its end.  Sample i of frame t otherwise decodes that frame.
Decoded(i) ==
    LET o == output[i \div FrameLen + 1]
    IN  IF o.kind = "source" THEN FromSource(o.at + (i % FrameLen)) ELSE o

WaveSplice ==
    /\ regionPc = "decode"
    /\ wave' = [i \in 1 .. synth.T * FrameLen |->
                   IF i - 1 < synth.padded /\ ~ InZone(i - 1, <<synth.t0 * FrameLen, synth.t1 * FrameLen>>)
                   THEN PaddedSample(i - 1) ELSE Decoded(i - 1)]
    /\ regionPc' = "done"
    /\ UNCHANGED <<rq, synth, cover, ditContext, output>>

RegionEnded == regionPc \in {"done", "error"} /\ UNCHANGED regionVars

RegionNext ==
    \/ PadSource \/ AdjustRegion \/ ResolveT \/ BuildContext
    \/ Generate \/ LatentSplice \/ WaveSplice \/ RegionEnded

RegionSpec == RegionInit /\ [][RegionNext]_regionVars
-----------------------------------------------------------------------------
(***************************************************************************)
(* Properties                                                              *)
(***************************************************************************)
RegionDone == regionPc = "done"

\* The region the request asks for, on the padded canvas, read off the
\* documentation of repainting_start and repainting_end.
AskedFrom == MaxOf(rq.start, 0)
AskedTo == LeftPad + (IF rq.end >= 0 THEN rq.end ELSE IF rq.start < 0 THEN 0 ELSE rq.len)

\* Frames wholly inside and wholly outside the region asked for; those that
\* its bounds cut may go either way.
InsideAsked(t) == t * FrameLen >= AskedFrom /\ (t + 1) * FrameLen <= AskedTo
OutsideAsked(t) == (t + 1) * FrameLen <= AskedFrom \/ t * FrameLen >= AskedTo

\* Every sequence has the length the buffers were given, and the zone lies
\* within the canvas: nothing is indexed past its end.
RegionTypeOK ==
    /\ regionPc \in {"pad", "adjust", "resolve", "context", "generate", "splice", "decode",
                  "done", "error"}
    /\ synth.t0 \in 0 .. synth.T /\ synth.t1 \in 0 .. synth.T
    /\ output = <<>> \/ Len(output) = synth.T
    /\ wave = <<>> \/ Len(wave) = synth.T * FrameLen

CodesHeard(b) == {t \in DOMAIN ditContext[b] : ditContext[b][t].src.kind = "codes"}

\* The DiT context of the table in docs/ARCHITECTURE.md, for the region as
\* requested: repaint hears silence in the zone and the source outside it,
\* with the mask of the zone; cover hears the source, and each text2music item
\* all its codes, however long those of the others, with silence behind them.
ContextAsDocumented ==
    RegionDone => \A b \in DOMAIN ditContext : \A t \in 0 .. synth.T - 1 :
        LET c == ditContext[b][t + 1]
        IN  CASE rq.task = "text2music" ->
                   Cardinality(CodesHeard(b)) = rq.codes[b] * CodeFrames /\ c.mask = 1
              [] IsRepaint /\ InsideAsked(t) -> c = [src |-> Silence, mask |-> 1]
              [] IsRepaint /\ OutsideAsked(t) -> c = [src |-> CoverOrSilence(t), mask |-> 0]
              [] rq.task = "cover" -> c = [src |-> CoverOrSilence(t), mask |-> 1]
              [] OTHER -> TRUE

\* The frames the DiT was told to keep are the frames that are put back: a
\* frame of the source is replaced by the source iff its mask is 0.
MaskMatchesSplice ==
    RegionDone /\ HasCover => \A t \in 0 .. Len(cover) - 1 :
        (output[t + 1] = Generated) <=> (ditContext[1][t + 1].mask = 1)

\* repaint changes nothing outside the region: a sample of the source that
\* lies a whole frame away from it is the very sample of the source, at its
\* own time (to half a frame when latents were given).
OutsideIsSource ==
    RegionDone /\ IsRepaint => \A i \in 0 .. synth.T * FrameLen - 1 :
        OutsideAsked(i \div FrameLen) /\ (i - synth.shift) \in 0 .. rq.len - 1
            => /\ wave[i + 1] = FromSource(i - synth.shift)
               /\ 2 * (synth.shift - synth.left_pad) \in -FrameLen .. FrameLen

\* repaint regenerates the whole region, to a frame at its ends.
InsideIsGenerated ==
    RegionDone /\ IsRepaint => \A i \in 0 .. synth.T * FrameLen - 1 :
        InsideAsked(i \div FrameLen) => wave[i + 1] = Generated

\* Outpainting leaves no hole: of the silence the source was padded with, at
\* most the frame at the end of the region survives in the result.  A region
\* that starts after the source has ended is another matter: what lies between
\* them is silence, and is kept.
PaddingIsGenerated ==
    RegionDone /\ IsRepaint /\ rq.start <= rq.len =>
        Cardinality({i \in DOMAIN wave : wave[i] = Silence}) <= FrameLen

\* Request, context and splice agree on the region: the DiT hears what the
\* request asks for and exactly the frames it was told to keep are put back
\* (ops_build_context, ops_vae_decode).
RegionHeardAsAsked == RegionTypeOK /\ ContextAsDocumented /\ MaskMatchesSplice

\* A repaint replaces its region, all of it and nothing else, and leaves no
\* hole where the source was padded (apply_outpainting_padding, wave splice).
OnlyRegionChanges == OutsideIsSource /\ InsideIsGenerated /\ PaddingIsGenerated

\* docs/ARCHITECTURE.md, the table of contexts: lego with a region hears the
\* source everywhere, with mask 1 in the zone and 0 outside it.
LegoZoneIsMasked ==
    RegionDone /\ IsLegoRegion => \A t \in 0 .. synth.T - 1 :
        /\ InsideAsked(t) => ditContext[1][t + 1].mask = 1
        /\ OutsideAsked(t) => ditContext[1][t + 1].mask = 0
=============================================================================
