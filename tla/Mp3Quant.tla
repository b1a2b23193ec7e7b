------------------------------ MODULE Mp3Quant ------------------------------
(***************************************************************************)
(* The quantiser of mp3/mp3enc-quant.h for one granule of one channel: the *)
(* inner loop looks for the smallest global gain whose bits fit, the outer *)
(* loop amplifies the bands whose noise is heard and keeps the best try,   *)
(* and mp3enc_encode_frame writes what the side information announces.  A  *)
(* spectrum falls with frequency: it is the line up to which values exceed *)
(* one and the line up to which they are not zero; a region costs a fixed  *)
(* number of bits per pair, which grows with its largest value.            *)
(***************************************************************************)
EXTENDS Integers, Sequences, FiniteSetsExt

CONSTANTS
  Width,      \* lines of the 22 scalefactor bands (a row of mp3enc_sfb_long)
  Granules,   \* records [reach, budget, noisy, psy]: the gain that silences the
              \* spectrum, available_bits, the bands that stay noisy, and
              \* whether there are masking thresholds
  Rounds      \* passes of the outer loop (25)

ASSUME Mp3QuantAssumption ==
  /\ Width \in [1 .. 22 -> Nat \ {0}]
  /\ Rounds \in Nat \ {0}
  /\ \A g \in Granules :
       /\ g.budget \in Nat /\ g.budget <= 4095 /\ g.noisy \subseteq 0 .. 20 /\ g.psy \in BOOLEAN
       /\ g.reach \in Nat /\ g.reach <= 243   \* gain 255 silences it, see Spectrum

VARIABLES granule, gi, ix, best, round, quantPc

quantVars == <<granule, gi, ix, best, round, quantPc>>

Within(x, lo, hi) == IF x < lo THEN lo ELSE IF x > hi THEN hi ELSE x

slen1 == <<0, 0, 0, 0, 3, 1, 1, 1, 2, 2, 2, 3, 3, 3, 4, 4>>
slen2 == <<0, 1, 2, 3, 0, 1, 2, 3, 1, 2, 3, 1, 2, 3, 2, 3>>
pretab == [b \in 0 .. 20 |-> CASE b \in 11 .. 14 -> 1 [] b \in {15, 16, 20} -> 2
                              [] b \in 17 .. 19 -> 3 [] OTHER -> 0]

\* The line where the first n bands end.
BandEnd[n \in 0 .. 22] == IF n = 0 THEN 0 ELSE BandEnd[n - 1] + Width[n]

-----------------------------------------------------------------------------
(* Counting the bits of a spectrum. *)

LargestAt(x, i) == IF i < x.big THEN 2 + (x.big - i) \div 8 ELSE 1

\* mp3enc_choose_table: none for an empty region, else by its largest value.
TableOf(x, from, to) ==
  IF to <= from THEN 0
  ELSE LET m == LargestAt(x, from)
       IN  Cardinality({limit \in {1, 2, 3, 5, 7, 15} : limit < m}) + 1

\* The bits of the three regions of big values.
RegionBits(x, ends) ==
  LET From(r) == IF r = 1 THEN 0 ELSE ends[r - 1]
      Bits(r) == ((ends[r] - From(r)) \div 2) * TableOf(x, From(r), ends[r])
  IN  Bits(1) + Bits(2) + Bits(3)

NonZeroEnd(x) == 2 * ((x.nz + 1) \div 2)
Quads(x) == (NonZeroEnd(x) - x.big) \div 4
BigEnd(x) == NonZeroEnd(x) - 4 * Quads(x)

\* Region ends for the two counts of the side information.
RegionEnds(counts, bigEnd) ==
  <<Within(BandEnd[counts[1] + 1], 0, bigEnd),
    Within(BandEnd[counts[1] + counts[2] + 2], 0, bigEnd), bigEnd>>

\* Splits tried: six to eleven bands in the first region, at most eight in the
\* second; the cheapest is kept, the first of them when several are.
RegionCounts(x) ==
  LET whole == Cardinality({n \in 1 .. 22 : BandEnd[n] <= BigEnd(x)})
      Split(r) == <<r, Within(whole - r - 1, 0, 7)>>
      Cost == [r \in 5 .. 10 |-> RegionBits(x, RegionEnds(Split(r), BigEnd(x)))]
      Tried == {r \in 5 .. 10 : r < whole}
  IN  IF Tried = {} THEN <<7, 0>>
      ELSE Split(Min({r \in Tried : \A other \in Tried : Cost[r] <= Cost[other]}))

\* Its bits in the regions that counts divide it into, and in quadruples.
BitsIn(x, counts) == RegionBits(x, RegionEnds(counts, BigEnd(x))) + 2 * Quads(x)

HuffBits(x) == BitsIn(x, RegionCounts(x))

\* The spectrum whose loudest line is `over` gain steps above the gain.
Spectrum(over) ==
  [big |-> Within(4 * over, 0, 576), nz |-> Within(4 * (over + 12), 0, 576)]

\* Its bits, for every level at which they differ.
BitsAt == [over \in -12 .. 144 |-> HuffBits(Spectrum(over))]

\* Bits of the scalefactors (mp3enc_part2_length; scfsi is never set).
Part2Length(c) == 11 * slen1[c + 1] + 10 * slen2[c + 1]

Fits1(sf, c) == \A b \in 0 .. 10 : sf[b] <= 2 ^ slen1[c + 1] - 1
Fits2(sf, c) == \A b \in 11 .. 20 : sf[b] <= 2 ^ slen2[c + 1] - 1

\* The cheapest pair of lengths that holds every scalefactor, the first of
\* them; 0 when there is none.
BestCompress(sf) ==
  LET Able == {c \in 0 .. 15 : Fits1(sf, c) /\ Fits2(sf, c)}
  IN  IF Able = {} THEN 0
      ELSE Min({c \in Able : \A other \in Able : Part2Length(c) <= Part2Length(other)})

-----------------------------------------------------------------------------
(* The inner loop. *)

\* Gain steps a band's scalefactor is worth; none while none are transmitted.
Amplified(g) ==
  LET Steps(b) == (g.sf[b] + (IF g.preflag THEN pretab[b] ELSE 0)) * (IF g.scale THEN 4 ELSE 2)
  IN  IF g.compress = 0 THEN 0 ELSE Max({Steps(b) : b \in 0 .. 20})

Level(g) == granule.reach + Amplified(g)

\* Values of 8191 and above count as not fitting.
Saturated(over) == over > 190

Affordable(level, budget, gain) ==
  ~Saturated(level - gain) /\ BitsAt[Within(level - gain, -12, 144)] <= budget

\* The binary search over lo .. hi; dflt when no gain it tries fits.
Search(level, budget, low, dflt) ==
  LET from[r \in (0 .. 277) \X (-1 .. 255) \X (0 .. 255)] ==
        LET lo == r[1] hi == r[2] mid == (lo + hi) \div 2
        IN  IF lo > hi THEN r[3]
            ELSE IF Affordable(level, budget, mid) THEN from[<<lo, mid - 1, mid>>]
            ELSE from[<<mid + 1, hi, r[3]>>]
  IN  from[<<low, 255, dflt>>]

\* From the last gain: down while it fits and at most ten steps, or up to the
\* first that fits within twenty steps, then by the binary search above those.
FromHint(level, budget, hint) ==
  LET Able == [n \in -10 .. 20 |->
                 hint + n \in 0 .. 255 /\ Affordable(level, budget, hint + n)]
      Down == {n \in -10 .. 0 : \A k \in n .. 0 : Able[k]}
      Rising == {n \in 1 .. 20 : Able[n]}
  IN  IF Down # {} THEN hint + Min(Down)
      ELSE IF Rising # {} THEN hint + Min(Rising)
      ELSE Search(level, budget, hint + 21, 210)

NoHint == -1

\* mp3enc_inner_loop: the gain it settles on and the spectrum at that gain.
InnerLoop(g, budget, hint) ==
  LET level == Level(g)
      gain == IF hint = NoHint THEN Search(level, budget, 0, 210)
              ELSE FromHint(level, budget, hint)
  IN  [gain |-> gain, ix |-> Spectrum(level - gain)]

-----------------------------------------------------------------------------
(* The outer loop. *)

Flat == [gain |-> 0, compress |-> 0, preflag |-> FALSE, scale |-> FALSE,
         sf |-> [b \in 0 .. 20 |-> 0], counts |-> <<0, 0>>, bits |-> 0]

\* What the last count of the inner loop leaves in the granule's fields.
WithSpectrum(g, found, bits) ==
  [g EXCEPT !.gain = found.gain, !.counts = RegionCounts(found.ix), !.bits = bits]

QuantInit ==
  /\ granule \in Granules
  /\ gi = Flat
  /\ ix = [big |-> 0, nz |-> 0]
  /\ best = [gi |-> Flat, ix |-> [big |-> 0, nz |-> 0], clean |-> FALSE]
  /\ round = 0
  /\ quantPc = "flat"

\* Without masking thresholds the flat try is the result.
FlatTry ==
  /\ quantPc = "flat"
  /\ \E found \in {InnerLoop(Flat, granule.budget, NoHint)} :
     LET g == WithSpectrum(Flat, found, HuffBits(found.ix))
     IN  /\ gi' = g
         /\ ix' = found.ix
         /\ best' = [gi |-> g, ix |-> found.ix, clean |-> FALSE]
  /\ quantPc' = IF granule.psy THEN "judge" ELSE "done"
  /\ UNCHANGED <<granule, round>>

\* A try in which no band is heard is kept when none before it was as good or
\* it is smaller, and ends the loop; otherwise the measured noise may make it
\* the best so far.
Judge ==
  /\ quantPc = "judge"
  /\ LET try == [gi |-> gi, ix |-> ix, clean |-> FALSE] IN
     \/ /\ quantPc' = "restore"
        /\ best' = IF ~best.clean \/ gi.bits < best.gi.bits
                   THEN [try EXCEPT !.clean = TRUE] ELSE best
     \/ /\ granule.noisy # {}
        /\ quantPc' = "amplify"
        /\ best' \in {best, try}
  /\ UNCHANGED <<granule, gi, ix, round>>

Bumped(g) == [g EXCEPT !.sf = [b \in 0 .. 20 |-> IF b \in granule.noisy THEN @[b] + 1 ELSE @[b]]]

\* Three loud high bands switch the preset amplification on.
Preset(g) ==
  IF ~g.preflag /\ Cardinality({b \in 11 .. 20 : g.sf[b] >= 2}) >= 3
  THEN [g EXCEPT !.preflag = TRUE,
                 !.sf = [b \in 0 .. 20 |-> Within(@[b] - pretab[b], 0, 255)]]
  ELSE g

\* Over fifteen the step doubles, once, and the factors halve; then they stop
\* at fifteen.
Scaled(g) ==
  LET halved == IF ~g.scale /\ \E b \in 0 .. 20 : g.sf[b] > 15
                THEN [g EXCEPT !.scale = TRUE, !.sf = [b \in 0 .. 20 |-> (@[b] + 1) \div 2]]
                ELSE g
  IN  [halved EXCEPT !.sf = [b \in 0 .. 20 |-> Within(@[b], 0, 15)]]

Compressed(g) == [g EXCEPT !.compress = BestCompress(g.sf)]

\* The noisy bands are amplified and the inner loop runs again on what the
\* scalefactors leave of the bits; a try over budget ends the loop.
Amplify ==
  /\ quantPc = "amplify"
  /\ \E g \in {Compressed(Scaled(Preset(Bumped(gi))))} :
     LET budget == granule.budget - Part2Length(g.compress) IN
     \E found \in {InnerLoop(g, budget, gi.gain)} :
     LET total == Part2Length(g.compress) + HuffBits(found.ix)
     IN  IF budget < 0 THEN gi' = g /\ ix' = ix /\ quantPc' = "restore"
         ELSE /\ ix' = found.ix
              /\ IF total <= granule.budget
                 THEN gi' = WithSpectrum(g, found, total) /\
                      quantPc' = IF round + 1 < Rounds THEN "judge" ELSE "restore"
                 ELSE gi' = WithSpectrum(g, found, gi.bits) /\ quantPc' = "restore"
  /\ round' = round + 1
  /\ UNCHANGED <<granule, best>>

\* Mutant: the spectrum of the last try is written under the best side
\* information.
RestoreFieldsBug ==
  /\ quantPc = "restore"
  /\ gi' = best.gi
  /\ quantPc' = "done"
  /\ UNCHANGED <<granule, ix, best, round>>

Restore ==
  /\ quantPc = "restore"
  /\ gi' = best.gi
  /\ ix' = best.ix
  /\ quantPc' = "done"
  /\ UNCHANGED <<granule, best, round>>

QuantNext == FlatTry \/ Judge \/ Amplify \/ Restore

QuantSpec == QuantInit /\ [][QuantNext]_quantVars

-----------------------------------------------------------------------------
(* What mp3enc_encode_frame writes for the granule: the scalefactors, the   *)
(* regions it finds from the side information, the quadruples.              *)

WrittenBits == Part2Length(gi.compress) + BitsIn(ix, gi.counts)

\* The bits written for a granule are the bits its side information announces,
\* and they fit what the frame gave it, whichever try was kept
\* (mp3enc_outer_loop, mp3enc_encode_frame).
WrittenAsAnnounced ==
  quantPc = "done" => gi.bits = WrittenBits /\ gi.bits <= granule.budget
=============================================================================
