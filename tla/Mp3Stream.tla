----------------------------- MODULE Mp3Stream -----------------------------
(***************************************************************************)
(* The MP3 path of src/audio-io.h over the encoder of mp3/mp3enc.h: a song *)
(* is cut into runs of frames, every thread encodes its run with a private *)
(* encoder that it first warms up on the frames before the run, and the    *)
(* outputs are joined into one stream.  Each encoder holds one frame back, *)
(* so that the data of the next frame can start in its unused tail: the    *)
(* side information of a frame says how many bytes before its own area its *)
(* data begins.  Spectra are abstracted to the bits a granule asks for, a  *)
(* frame to its lengths and to where its data was written; byte counts are *)
(* the real ones, while frames and seconds hold few samples.               *)
(***************************************************************************)
EXTENDS Integers, Sequences, FiniteSets, SequencesExt, FiniteSetsExt

CONSTANTS
  FrameSamples,  \* samples of a frame (1152)
  Second,        \* samples handed to an encoder at a time: one second
  Warmup,        \* WARMUP_FRAMES
  Songs,         \* records [samples, sr, kbps, cores]
  Contents       \* records [need, pe]: bits a channel asks for in each granule,
             \* and the share of the perceptual entropy in the first one, in
             \* percent (-1: no entropy at all)

ASSUME Mp3StreamAssumption ==
  /\ FrameSamples \in Nat \ {0} /\ Second \in Nat \ {0} /\ Warmup \in Nat
  /\ \A s \in Songs : /\ s.samples \in Nat \ {0} /\ s.cores \in Nat \ {0}
                      /\ s.sr \in {32000, 44100, 48000} /\ s.kbps \in Nat /\ s.kbps >= 32
  /\ \A c \in Contents : c.need \in Nat \X Nat /\ c.pe \in -1 .. 100

VARIABLES input, workers, cancel, oom, stream

mp3Vars == <<input, workers, cancel, oom, stream>>

Least(a, b) == IF a < b THEN a ELSE b
Clip(x, lo, hi) == IF x < lo THEN lo ELSE IF x > hi THEN hi ELSE x
DivUp(a, b) == (a + b - 1) \div b

-----------------------------------------------------------------------------
(* The run of every thread, from audio_encode_mp3. *)

TotalFrames == DivUp(input.samples, FrameSamples)
MinFrames == DivUp(2 * Second, FrameSamples)
Threads ==
  Least(input.cores, IF TotalFrames < MinFrames THEN 1 ELSE TotalFrames \div MinFrames)
Tid == 0 .. Threads - 1

FramesBefore(t) ==
  t * (TotalFrames \div Threads) + Least(t, TotalFrames % Threads)

RangeStart(t) == FramesBefore(t) * FrameSamples

\* Mutant: every run ends on a frame boundary, the last one too.
RangeEndBug(t) == FramesBefore(t + 1) * FrameSamples

RangeEnd(t) == IF t = Threads - 1 THEN input.samples ELSE FramesBefore(t + 1) * FrameSamples

-----------------------------------------------------------------------------
(* One frame.  A frame is [pcm, bytes, begin, parts, md, own, lent]: its    *)
(* samples, its size, main_data_begin and part2_3_length as written, the   *)
(* bytes of its main data, those of them in its own area, and what the     *)
(* next frame wrote in its tail.                                           *)

HeaderBytes == 4 + 32
NoLoan == [of |-> <<>>, from |-> 0, len |-> 0]

NewEncoder == [fill |-> <<>>, pad |-> 0, pending |-> <<>>]

PadStep == (144 * input.kbps * 1000) % input.sr
Padding(e) == IF e.pad - PadStep < 0 THEN 1 ELSE 0
PadRemainder(e) == (e.pad - PadStep) + (IF Padding(e) = 1 THEN input.sr ELSE 0)

FrameBytes(padding) == (144 * input.kbps * 1000) \div input.sr + padding

Area(f) == f.bytes - HeaderBytes
Spare(f) == Area(f) - f.own

\* Mutant: the reservoir is the whole area of the held frame, used or not.
ReservoirWholeBug(e) == IF e.pending = <<>> THEN 0 ELSE Clip(Area(e.pending[1]), 0, 511)

Reservoir(e) == IF e.pending = <<>> THEN 0 ELSE Clip(Spare(e.pending[1]), 0, 511)

\* The granules share the bits by perceptual entropy, no share under a fifth
\* or over four fifths, and what clamping left over is spread over both.
Budgets(total, pe) ==
  LET Share(bits) == Clip(bits, total \div 5, (total * 4) \div 5)
      first == (total * pe) \div 100
      left == total - (Share(first) + Share(total - first))
      half == left \div 2
  IN  IF pe < 0 THEN <<total \div 2, total - (total \div 2)>>
      ELSE <<Share(first) + half, Share(total - first) + (left - half)>>

\* A granule may use its budget and what the first one saved, never more than
\* is left or than the length field holds; half goes to each channel.
PerChannel(budget, left) == Least(Least(budget, left), 4095 * 2) \div 2

\* The bits every channel takes in the two granules.
Parts(total, c) ==
  LET budget == Budgets(total, c.pe)
      one == Least(c.need[1], PerChannel(budget[1], total))
      saved == Clip(budget[1] - 2 * one, 0, total)
  IN  <<one, Least(c.need[2], PerChannel(budget[2] + saved, total - 2 * one))>>

\* The side information: nine bits for the back pointer, twelve for a length.
SideInfo(begin, parts) ==
  [begin |-> begin % 512, parts |-> <<parts[1] % 4096, parts[2] % 4096>>]

MainBytes(parts) == DivUp(2 * (parts[1] + parts[2]), 8)

\* The frame of the samples pcm, whose data may start in the held frame.
NewFrame(e, pcm, c) ==
  LET bytes == FrameBytes(Padding(e))
      resv == Reservoir(e)
      parts == Parts((bytes - HeaderBytes + resv) * 8, c)
      side == SideInfo(resv, parts)
      md == MainBytes(parts)
  IN  [pcm |-> pcm, bytes |-> bytes, begin |-> side.begin, parts |-> side.parts,
       md |-> md, own |-> Clip(md - resv, 0, md), lent |-> NoLoan]

\* What the frame after it writes at the end of the held frame's own data.
Lend(e, f) ==
  LET len == Least(f.md, Reservoir(e))
  IN  [e.pending[1] EXCEPT
         !.lent = IF len > 0 THEN [of |-> f.pcm, from |-> e.pending[1].own, len |-> len]
                  ELSE NoLoan]

\* mp3enc_encode_frame: the held frame goes out, the new one is held.
EncodeFrame(e, pcm, c) ==
  LET f == NewFrame(e, pcm, c)
  IN  [enc |-> [fill |-> <<>>, pad |-> PadRemainder(e), pending |-> <<f>>],
       out |-> IF e.pending = <<>> THEN <<>> ELSE <<Lend(e, f)>>]

\* One turn of the loop of mp3enc_encode: n samples from a, a frame when full.
Encode(e, a, n, c) ==
  LET fill == e.fill \o [i \in 1 .. n |-> a + i - 1]
  IN  IF Len(fill) = FrameSamples THEN EncodeFrame([e EXCEPT !.fill = fill], fill, c)
      ELSE [enc |-> [e EXCEPT !.fill = fill], out |-> <<>>]

ZeroSample == -1

\* mp3enc_flush: a started frame is padded and encoded, the held frame goes out.
Flush(e, c) ==
  LET padded == e.fill \o [i \in 1 .. FrameSamples - Len(e.fill) |-> ZeroSample]
      last == IF e.fill = <<>> THEN [enc |-> e, out |-> <<>>] ELSE EncodeFrame(e, padded, c)
  IN  [enc |-> [last.enc EXCEPT !.pending = <<>>], out |-> last.out \o last.enc.pending]

-----------------------------------------------------------------------------
(* The threads. *)

Worker == [pc |-> "start", enc |-> NewEncoder, at |-> 0, upto |-> 0, result |-> <<>>]

Mp3Init ==
  /\ input \in Songs
  /\ workers = [t \in Tid |-> Worker]
  /\ cancel = FALSE
  /\ oom = FALSE
  /\ stream = [done |-> FALSE, frames |-> <<>>]

WarmFrames(t) == IF t = 0 THEN 0 ELSE Least(Warmup, RangeStart(t) \div FrameSamples)

StartRun(t) ==
  LET w == workers[t] IN
  /\ w.pc = "start"
  /\ workers' = [workers EXCEPT ![t] =
       IF RangeEnd(t) <= RangeStart(t) THEN [w EXCEPT !.pc = "done"]
       ELSE IF t > 0 /\ RangeStart(t) > 0
       THEN [w EXCEPT !.pc = "warm", !.at = RangeStart(t) - WarmFrames(t) * FrameSamples,
                      !.upto = RangeStart(t)]
       ELSE [w EXCEPT !.pc = "poll", !.at = RangeStart(t), !.upto = RangeStart(t)]]
  /\ UNCHANGED <<input, cancel, oom, stream>>

\* The samples an encoder takes in one turn of its loop.
Take(w) == Least(w.upto - w.at, FrameSamples - Len(w.enc.fill))

\* The frames before the run prime the encoder; what it gives out is dropped,
\* the held frame too.
Warm(t) ==
  LET w == workers[t] IN
  /\ w.pc = "warm"
  /\ \E c \in Contents :
       workers' = [workers EXCEPT ![t] =
         IF w.at < w.upto
         THEN [w EXCEPT !.enc = Encode(w.enc, w.at, Take(w), c).enc, !.at = @ + Take(w)]
         ELSE [w EXCEPT !.enc = Flush(w.enc, c).enc, !.pc = "poll"]]
  /\ UNCHANGED <<input, cancel, oom, stream>>

\* Before every second of the run the thread looks at the cancel callback.
PollCancel(t) ==
  LET w == workers[t] IN
  /\ w.pc = "poll"
  /\ workers' = [workers EXCEPT ![t] =
       IF w.upto >= RangeEnd(t) \/ cancel THEN [w EXCEPT !.pc = "flush"]
       ELSE [w EXCEPT !.pc = "feed", !.upto = Least(w.upto + Second, RangeEnd(t))]]
  /\ UNCHANGED <<input, cancel, oom, stream>>

\* A sub-chunk buffer that cannot be allocated ends the run early.
BufferFails(t) ==
  LET w == workers[t] IN
  /\ w.pc = "poll" /\ w.upto < RangeEnd(t) /\ ~cancel /\ ~oom
  /\ workers' = [workers EXCEPT ![t].pc = "flush"]
  /\ oom' = TRUE
  /\ UNCHANGED <<input, cancel, stream>>

FeedSamples(t) ==
  LET w == workers[t] IN
  /\ w.pc = "feed"
  /\ \E c \in Contents :
       LET step == Encode(w.enc, w.at, Take(w), c)
       IN  workers' = [workers EXCEPT ![t] =
             [w EXCEPT !.enc = step.enc, !.at = @ + Take(w),
                       !.result = @ \o step.out,
                       !.pc = IF w.at + Take(w) = w.upto THEN "poll" ELSE "feed"]]
  /\ UNCHANGED <<input, cancel, oom, stream>>

FlushRun(t) ==
  LET w == workers[t] IN
  /\ w.pc = "flush"
  /\ \E c \in Contents :
       workers' = [workers EXCEPT ![t] =
         [w EXCEPT !.result = @ \o Flush(w.enc, c).out, !.enc = NewEncoder, !.pc = "done"]]
  /\ UNCHANGED <<input, cancel, oom, stream>>

\* The client cancels the job the encoding belongs to.
AskCancel ==
  /\ ~cancel /\ ~stream.done
  /\ cancel' = TRUE
  /\ UNCHANGED <<input, workers, oom, stream>>

\* All threads joined: nothing when cancelled, else the runs in order.
Join ==
  /\ ~stream.done
  /\ \A t \in Tid : workers[t].pc = "done"
  /\ stream' = [done |-> TRUE,
             frames |-> IF cancel THEN <<>>
                        ELSE FlattenSeq([i \in 1 .. Threads |-> workers[i - 1].result])]
  /\ UNCHANGED <<input, workers, cancel, oom>>

Mp3Next ==
  \/ AskCancel
  \/ Join
  \/ \E t \in Tid :
       StartRun(t) \/ Warm(t) \/ PollCancel(t) \/ BufferFails(t) \/ FeedSamples(t) \/ FlushRun(t)

Mp3Spec == Mp3Init /\ [][Mp3Next]_mp3Vars

-----------------------------------------------------------------------------
(* A decoder of the joined stream reads a frame's data from `begin` bytes   *)
(* before the frame's own area, for as many bytes as the lengths say.       *)

BeginsInside(k) == Least(stream.frames[k].begin, stream.frames[k].md)

DecodesAt(k) ==
  LET f == stream.frames[k] IN
  /\ MainBytes(f.parts) = f.md
  /\ f.own <= Area(f)
  /\ f.own = f.md - BeginsInside(k)
  /\ BeginsInside(k) > 0 =>
       /\ k > 1
       /\ stream.frames[k - 1].lent =
            [of |-> f.pcm, from |-> Area(stream.frames[k - 1]) - f.begin, len |-> BeginsInside(k)]

\* In the joined stream every frame that follows a frame with at most 511 free
\* bytes is found by a decoder where it was written: its whole data, none of it
\* in the warm-up that was thrown away or in another frame's bytes
\* (mp3enc_encode_frame, audio_encode_mp3).
DecoderFindsMainData ==
  \A k \in 1 .. Len(stream.frames) :
    (k = 1 \/ Spare(stream.frames[k - 1]) <= 511) => DecodesAt(k)

\* The same for every frame, whatever the frame before it left free
\* (mp3enc.h: "This is how the decoder's main_data_begin backpointer works").
BackpointerWorks == \A k \in 1 .. Len(stream.frames) : DecodesAt(k)

\* A stream that is returned holds every sample of the song once and in order,
\* with silence only at the end of its last frame; a run that was cancelled
\* returns nothing (audio_encode_mp3; a failed allocation is left out, see
\* the README).
EverySampleOnce ==
  stream.done /\ ~oom =>
    \/ cancel /\ stream.frames = <<>>
    \/ LET pcm == FlattenSeq([k \in 1 .. Len(stream.frames) |-> stream.frames[k].pcm])
       IN  pcm = [i \in 1 .. TotalFrames * FrameSamples |->
                    IF i <= input.samples THEN i - 1 ELSE ZeroSample]
=============================================================================
