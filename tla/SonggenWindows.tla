---------------------------- MODULE SonggenWindows ----------------------------
(***************************************************************************)
(* How the SongGen programs cut sound into windows and put it together     *)
(* again: the prompt clip of songgen-continue, the encoding of a prompt    *)
(* into three code streams (songgen-clone-encode.h), the chunked decode    *)
(* and its continuation (songgen-decode-post.h), and the segments of       *)
(* songgen-separate.                                                       *)
(*                                                                         *)
(* Sound is represented by where it comes from.  A latent frame is         *)
(* <<"code", p>>, rendered from code frame p, or <<"clip", p>>, taken from *)
(* frame p of the encoded prompt; an output frame is the set of latent     *)
(* frames mixed into it; a prompt code is the 24 kHz sample its frame      *)
(* starts at.  Stems are counted in samples of 48 kHz, Up to a frame.      *)
(***************************************************************************)
EXTENDS Integers, FiniteSets, SequencesExt

CONSTANTS Up,                           \* samples per frame (1920), a multiple of 4
          MinSeg,                       \* frames per encoder segment (40 s)
          ClipFrom, ClipLen, ClipNeed,  \* prompt clip: 20 s, 10 s, 30 s, in samples
          SepSeg,                       \* samples of a separation segment
          Errands                       \* what the programs are asked for, see Errand

ASSUME SonggenWindowsAssumption ==
    /\ {Up, MinSeg, ClipFrom, ClipLen, ClipNeed} \subseteq Nat \ {0} /\ SepSeg \in Nat \ (0 .. 3)
    /\ ClipNeed >= ClipFrom + ClipLen /\ Up % 4 = 0

VARIABLES errand,    \* the request
          windowPc,  \* where the program is
          clip,      \* the prompt: length, latent frames, code streams
          line,      \* the codes to decode, by position, and the chunking
          overlap,   \* prev_overlap_norm
          decoded    \* output frames

winVars == <<errand, windowPc, clip, line, overlap, decoded>>

\* vocal, bgm and mix are the lengths of the stems (mix 0: none given),
\* frames the number of generated frames, chunk the frames of a window.
Errand == [tool : {"generate", "clone", "continue", "separate"}, vocal : Nat,
           bgm : Nat, mix : Nat, frames : Nat, chunk : Nat \ (0 .. 3)]

\* A program without a frame to decode has ended before.
ASSUME ErrandsAssumption == \A e \in Errands : e \in Errand /\ (e.tool # "separate" => e.frames > 0)

Min2(a, b) == IF a < b THEN a ELSE b
Ceil(a, b) == (a + b - 1) \div b

---------------------------------------------------------------------------
(* The prompt.                                                             *)

\* The window of songgen-continue: short prompts keep their start.
PromptClip(e) ==
    LET common == Min2(e.vocal, e.bgm)
    IN IF common < ClipNeed
       THEN [beg |-> 0, len |-> Min2(common, ClipLen)]
       ELSE [beg |-> ClipFrom, len |-> Min2(common - ClipFrom, ClipLen)]

\* The full mix is cut at the same place; what is left of it may be nothing.
MixClip(e) ==
    LET c == PromptClip(e)
        n == Min2(e.mix - c.beg, c.len)
    IN IF e.mix = 0 \/ n < 0 THEN 0 ELSE n

Mono24(n) == n \div 2
Frame24 == Up \div 2

\* A stream of codes, one per frame, by the sample of the tiled clip where the
\* frame starts.  Only as many segments as the kept frames need are encoded.
sgclone_encode_stream(orig) ==
    LET output_len == orig \div Frame24 + 1
        n_seg == Ceil(output_len, MinSeg) + 1
        encoded == Min2(n_seg, Ceil(output_len, MinSeg)) * MinSeg
    IN [i \in 1 .. Min2(output_len, encoded) |-> ((i - 1) * Frame24) % orig]

Cut(s, n) == SubSeq(s, 1, n)

\* The streams are not cut to the shortest.
sgclone_encodeUncutBug(n_vocal, n_bgm, n_full) ==
    LET voc == sgclone_encode_stream(Min2(Mono24(n_vocal), Mono24(n_bgm)))
    IN [pmt |-> IF n_full > 0 THEN sgclone_encode_stream(Mono24(n_full)) ELSE voc,
        vocal |-> voc, bgm |-> voc]

sgclone_encode(n_vocal, n_bgm, n_full) ==
    LET common == Min2(Mono24(n_vocal), Mono24(n_bgm))
        pmt == sgclone_encode_stream(IF n_full > 0 THEN Mono24(n_full) ELSE common)
        voc == sgclone_encode_stream(common)
        T == Min2(Len(pmt), Len(voc))
    IN [pmt |-> Cut(pmt, T), vocal |-> Cut(voc, T), bgm |-> Cut(voc, T)]

NoStreams == [pmt |-> <<>>, vocal |-> <<>>, bgm |-> <<>>]

ClonePrompt ==
    /\ windowPc = "prompt" /\ errand.tool = "clone"
    /\ clip' = [tlat |-> 0, codes |-> sgclone_encode(errand.vocal, errand.bgm, errand.mix)]
    /\ windowPc' = "codes"
    /\ UNCHANGED <<errand, line, overlap, decoded>>

\* true_latents: the encoder halves its input at every stride, Up in all.
ContinuePrompt ==
    /\ windowPc = "prompt" /\ errand.tool = "continue"
    /\ LET len == PromptClip(errand).len
       IN clip' = [tlat |-> len \div Up, codes |-> sgclone_encode(len, len, MixClip(errand))]
    /\ windowPc' = "codes"
    /\ UNCHANGED <<errand, line, overlap, decoded>>

---------------------------------------------------------------------------
(* Codes to sound.                                                         *)

Hop(chunk) == (chunk \div 4) * 3
Ovlp(chunk) == chunk - Hop(chunk)

\* The length codes are repeated to, so that the windows tile them.
Tiled(n, chunk) ==
    IF (n - Ovlp(chunk)) % Hop(chunk) > 0
    THEN Ceil(n - Ovlp(chunk), Hop(chunk)) * Hop(chunk) + Ovlp(chunk)
    ELSE n

Doubled(total, least) ==
    LET twice[n \in Nat] == IF n >= least THEN n ELSE twice[2 * n]
    IN twice[total]

\* One chunk holds the song, or the song is tiled.
GenerateLine ==
    /\ windowPc = "codes" /\ errand.tool \in {"generate", "clone"}
    /\ LET T == errand.frames
       IN line' = [total |-> T, prompt |-> 0, beg |-> 0,
                   ncodes |-> IF T <= errand.chunk THEN T ELSE Tiled(T, errand.chunk)]
    /\ windowPc' = "window"
    /\ UNCHANGED <<errand, clip, overlap, decoded>>

\* The prompt codes go first; the line fills at least one chunk.
ContinueLine ==
    /\ windowPc = "codes" /\ errand.tool = "continue"
    /\ LET prompt == Len(clip.codes.vocal)
           total == prompt + errand.frames
       IN line' = [total |-> total, prompt |-> prompt, beg |-> 0,
                   ncodes |-> Tiled(Doubled(total, errand.chunk), errand.chunk)]
    /\ windowPc' = "window"
    /\ UNCHANGED <<errand, clip, overlap, decoded>>

WindowLen == Min2(line.beg + errand.chunk, line.ncodes) - line.beg

\* The latents a window starts from: the encoded prompt, then the tail of the
\* window before.
InContext ==
    IF line.beg > 0 THEN Cut(overlap, Min2(Len(overlap), WindowLen))
    ELSE [i \in 1 .. Min2(clip.tlat, WindowLen) |-> <<"clip", i>>]

\* The first frames are frozen to the context, the rest rendered from codes.
sgsep_decode_seg ==
    [i \in 1 .. WindowLen |->
        IF i <= Len(InContext) THEN InContext[i] ELSE <<"code", line.beg + i>>]

\* The fade is as long as the hop.
JoinedHopBug(sound, seg) ==
    LET ov == Min2(Hop(errand.chunk), Len(seg))
    IN [i \in 1 .. Len(sound) + Len(seg) - ov |->
           IF i <= Len(sound) - ov THEN sound[i]
           ELSE IF i <= Len(sound) THEN sound[i] \cup {seg[i - Len(sound) + ov]}
           ELSE {seg[i - Len(sound) + ov]}]

\* The tail of the output is cross-faded with the head of the window.
Joined(sound, seg) ==
    LET ov == Min2(Min2(Ovlp(errand.chunk), Len(sound)), Len(seg))
    IN [i \in 1 .. Len(sound) + Len(seg) - ov |->
           IF i <= Len(sound) - ov THEN sound[i]
           ELSE IF i <= Len(sound) THEN sound[i] \cup {seg[i - Len(sound) + ov]}
           ELSE {seg[i - Len(sound) + ov]}]

Single == errand.tool # "continue" /\ line.total <= errand.chunk
MoreWindows == IF Single THEN decoded = <<>> ELSE line.beg < line.ncodes - Hop(errand.chunk)

DecodeWindow ==
    /\ windowPc = "window" /\ MoreWindows
    /\ LET seg == sgsep_decode_seg
           ovlp == Ovlp(errand.chunk)
       IN /\ overlap' = IF Len(seg) >= ovlp THEN SubSeq(seg, Len(seg) - ovlp + 1, Len(seg))
                        ELSE overlap
          /\ decoded' = IF line.beg = 0 THEN [i \in 1 .. Len(seg) |-> {seg[i]}]
                    ELSE Joined(decoded, seg)
    /\ line' = [line EXCEPT !.beg = @ + Hop(errand.chunk)]
    /\ UNCHANGED <<errand, windowPc, clip>>

\* The padding is cut off.
GenerateTrim ==
    /\ windowPc = "window" /\ ~MoreWindows /\ errand.tool \in {"generate", "clone"}
    /\ decoded' = Cut(decoded, Min2(Len(decoded), line.total))
    /\ windowPc' = "done"
    /\ UNCHANGED <<errand, clip, line, overlap>>

\* The prompt is cut off the front by its latent frames, the end by its code
\* frames.
ContinueTrim ==
    /\ windowPc = "window" /\ ~MoreWindows /\ errand.tool = "continue"
    /\ LET avail == IF Len(decoded) < clip.tlat THEN 0 ELSE Len(decoded) - clip.tlat
           T_audio == Min2(avail, line.total - line.prompt)
       IN decoded' = SubSeq(decoded, clip.tlat + 1, clip.tlat + T_audio)
    /\ windowPc' = "done"
    /\ UNCHANGED <<errand, clip, line, overlap>>

---------------------------------------------------------------------------
(* Separation: errand.mix samples; out[i] is the set of segments that      *)
(* weigh in sample i.                                                      *)

\* The overlap is added instead of taken off.
StrideBug == (SepSeg * 5) \div 4

Stride == (SepSeg * 3) \div 4

SeparateSegment ==
    /\ windowPc = "segments"
    /\ LET len == Min2(SepSeg, errand.mix - line.beg)
       IN decoded' = [i \in 1 .. errand.mix |->
                     IF i \in line.beg + 1 .. line.beg + len
                     THEN decoded[i] \cup {<<"seg", line.beg>>} ELSE decoded[i]]
    /\ IF line.beg + SepSeg >= errand.mix \/ line.beg + Stride >= errand.mix
       THEN windowPc' = "done" /\ UNCHANGED line
       ELSE line' = [line EXCEPT !.beg = @ + Stride] /\ UNCHANGED windowPc
    /\ UNCHANGED <<errand, clip, overlap>>

---------------------------------------------------------------------------
WinInit ==
    /\ errand \in Errands
    /\ windowPc = CASE errand.tool = "separate" -> "segments"
                [] errand.tool = "generate" -> "codes"
                [] OTHER -> "prompt"
    /\ clip = [tlat |-> 0, codes |-> NoStreams]
    /\ line = [total |-> 0, prompt |-> 0, beg |-> 0, ncodes |-> 0]
    /\ overlap = <<>>
    /\ decoded = IF errand.tool = "separate" THEN [i \in 1 .. errand.mix |-> {}] ELSE <<>>

WinNext == \/ ClonePrompt \/ ContinuePrompt \/ GenerateLine \/ ContinueLine
           \/ DecodeWindow \/ GenerateTrim \/ ContinueTrim \/ SeparateSegment

WinSpec == WinInit /\ [][WinNext]_winVars

---------------------------------------------------------------------------
\* Every seam joins two renderings of the same moment.  The sound of a song is
\* as long as its codes and its frame i comes from code i alone, however many
\* windows rendered it; a continuation runs on without a gap or a repeat from
\* the frame where the encoded prompt ends, and never reaches into the codes
\* repeated as padding, provided a full mix, when given, covers the clip.
SeamsJoinTheSameMoment ==
    /\ windowPc = "done" /\ errand.tool # "separate"
    /\ errand.tool = "continue" => MixClip(errand) \in {0, PromptClip(errand).len}
    =>
        LET n == line.total - line.prompt
        IN /\ Len(decoded) = n
           /\ \A i \in 1 .. n : decoded[i] = {<<"code", clip.tlat + i>>}
           /\ clip.tlat + n <= line.total

\* The three prompt streams are equally long, one code per frame of the
\* shortest source and one more, and code i of each starts at frame i of the
\* sound it was encoded from; only the last may come from the repeated start.
PromptStreamsInStep ==
    windowPc = "codes" /\ errand.tool # "generate" =>
        LET len == IF errand.tool = "clone" THEN Min2(errand.vocal, errand.bgm)
                   ELSE PromptClip(errand).len
            full == IF errand.tool = "clone" THEN errand.mix ELSE MixClip(errand)
            shortest == IF full = 0 THEN len ELSE Min2(len, full)
        IN \A s \in {clip.codes.pmt, clip.codes.vocal, clip.codes.bgm} :
              /\ Len(s) = shortest \div Up + 1
              /\ \A i \in 1 .. Len(s) - 1 : s[i] = (i - 1) * Frame24

\* Every sample of the mix is separated, by no more than two segments.
EverySampleSeparated ==
    windowPc = "done" /\ errand.tool = "separate" =>
        \A i \in 1 .. errand.mix : decoded[i] # {} /\ Cardinality(decoded[i]) <= 2

\* Windows leave no gap and repeat nothing: decoded songs at their seams,
\* separated mixes at the ends of their segments.
WindowsJoinUp == SeamsJoinTheSameMoment /\ EverySampleSeparated
=============================================================================
