---------------------------- MODULE Songgen_proofs ----------------------------
(***************************************************************************)
(* Proofs about the SongGen programs, for every layout of the delays,      *)
(* every length of a song, every chunk and every prompt.                   *)
(*                                                                         *)
(* SonggenTokens: the frames read back from the delayed rows are frames    *)
(* the rows had drawn together, and every forward attends to what its own  *)
(* row was fed, in order, whatever the cache has grown to in between.      *)
(* SonggenWindows: the windows of a line join without a gap or a repeat,   *)
(* because the line and every window's start are whole hops.               *)
(***************************************************************************)
EXTENDS SonggenTokens, SonggenWindows, SequenceTheorems, FiniteSetTheorems, WellFoundedInduction, TLAPS

\* Rows that have drawn EOS draw no code any more; what lies ahead is the pattern.
RowInv ==
    \A q \in Books :
        /\ gen_seq[q][0] = SP
        /\ \A p \in 1 .. Layout(song) - 1 :
              /\ p > offset => gen_seq[q][p] = IF Valid(song, q, p) THEN Unknown ELSE SP
              /\ p <= offset => /\ gen_seq[q][p] \in {p, EOS, SP}
                                /\ Valid(song, q, p) /\ gen_seq[q][p] # p => is_end[q] \/ song.no_eos
        /\ ~song.no_eos =>
              \A p1, p2 \in 1 .. Layout(song) - 1 :
                  p1 < p2 /\ p2 <= offset /\ Valid(song, q, p1) /\ gen_seq[q][p2] = p2 => gen_seq[q][p1] = p1

SongOK ==
    /\ song \in Asks
    /\ offset \in 0 .. Layout(song) - 1
    /\ is_end \in [Books -> BOOLEAN]
    /\ gen_seq \in [Books -> [0 .. Layout(song) - 1 -> Int]]
    /\ codes.end \in {"running", "fatal", "no frames", "decode"}

FrameInv == SongOK /\ RowInv /\ FramesArePaired

-----------------------------------------------------------------------------
LEMMA LeastElement ==
    ASSUME NEW S, S \subseteq Nat, S # {}
    PROVE  \E m \in S : \A x \in S : m <= x
<1> DEFINE R == {p \in Nat \X Nat : p[1] < p[2]}
<1>1. IsWellFoundedOn(R, Nat)
  BY NatLessThanWellFounded DEF OpToRel
<1> HIDE DEF R
<1>2. PICK m \in S : \A x \in S : ~ (<<x, m>> \in R)
  BY <1>1, WFMin
<1>3. \A x \in S : ~ (x < m)
  BY <1>2 DEF R
<1>4. QED BY <1>3

LEMMA GreatestElement ==
    ASSUME NEW n \in Nat, NEW S \in SUBSET (0 .. n), S # {}
    PROVE  Max(S) \in S /\ \A x \in S : Max(S) >= x
<1> DEFINE D == {d \in 0 .. n : n - d \in S}
<1>1. D \in SUBSET Nat /\ D # {}
  <2>1. PICK x \in S : TRUE
    OBVIOUS
  <2>2. x \in 0 .. n
    BY <2>1
  <2>3. n - x \in 0 .. n /\ n - (n - x) = x
    BY <2>2
  <2>4. n - x \in D
    BY <2>1, <2>3
  <2>5. \A d \in D : d \in Nat
    OBVIOUS
  <2> HIDE DEF D
  <2>6. QED BY <2>4, <2>5
<1>2. PICK d \in D : \A y \in D : d <= y
  <2> HIDE DEF D
  <2>1. QED BY <1>1, LeastElement
<1>3. n - d \in S /\ n - d \in Int /\ d \in Int
  BY <1>2
<1>4. ASSUME NEW x \in S PROVE n - d >= x
  <2>1. x \in 0 .. n
    OBVIOUS
  <2>2. n - x \in 0 .. n /\ n - (n - x) = x
    BY <2>1
  <2>3. n - x \in D
    BY <2>2
  <2>4. d <= n - x
    BY <1>2, <2>3
  <2>5. QED BY <1>3, <2>1, <2>4
<1>5. QED BY <1>3, <1>4 DEF Max

LEMMA MaxOfTwo == ASSUME NEW a \in Int, NEW b \in Int PROVE Max({a, b}) = IF a >= b THEN a ELSE b
<1>1. \A x \in {a, b} : (\A y \in {a, b} : x >= y) => x = IF a >= b THEN a ELSE b
  OBVIOUS
<1>2. \E x \in {a, b} : \A y \in {a, b} : x >= y
  <2>1. CASE a >= b
    BY <2>1
  <2>2. CASE b >= a
    BY <2>2
  <2>3. QED BY <2>1, <2>2
<1>3. QED BY <1>1, <1>2 DEF Max

LEMMA MinOfTwo == ASSUME NEW a \in Int, NEW b \in Int PROVE Min({a, b}) = IF a <= b THEN a ELSE b
<1>1. \A x \in {a, b} : (\A y \in {a, b} : x <= y) => x = IF a <= b THEN a ELSE b
  OBVIOUS
<1>2. \E x \in {a, b} : \A y \in {a, b} : x <= y
  <2>1. CASE a <= b
    BY <2>1
  <2>2. CASE b <= a
    BY <2>2
  <2>3. QED BY <2>1, <2>2
<1>3. QED BY <1>1, <1>2 DEF Min

LEMMA LayoutRange ==
    ASSUME NEW a \in Asks
    PROVE  /\ MaxGenLen(a) \in Nat /\ MaxGenLen(a) >= 1
           /\ Layout(a) = 1 + MaxGenLen(a) + MaxDelay /\ Layout(a) \in Nat /\ Layout(a) >= 2
           /\ MaxDelay \in Nat /\ MaxDelay >= 1 /\ CodeSize \in Nat /\ Layout(a) <= CodeSize
<1>1. a.frames \in Int /\ a.duration \in Int /\ Layout(a) <= CodeSize
  BY AsksAssumption DEF Ask
<1>2. ModelMax \in Nat \ {0} /\ MaxDelay \in Nat \ {0} /\ CodeSize \in Nat
  BY SonggenTokensAssumption
<1> DEFINE n == IF a.frames > 0 THEN a.frames
                ELSE IF a.duration > 0 THEN (a.duration + 1) \div 2 ELSE ModelMax
<1>3. n \in Int
  BY <1>1, <1>2
<1>4. MaxGenLen(a) = Max({1, n})
  BY DEF MaxGenLen
<1> HIDE DEF n
<1>5. MaxGenLen(a) \in Nat /\ MaxGenLen(a) >= 1
  BY <1>3, <1>4, MaxOfTwo
<1>6. QED BY <1>1, <1>2, <1>5 DEF Layout

\* A column holds a frame's code in the range its row is laid out in.
LEMMA ValidRange ==
    ASSUME NEW a \in Asks, NEW q \in Books, NEW p \in Int
    PROVE  Valid(a, q, p) <=> IF q = 0 THEN p >= 1 /\ p <= MaxGenLen(a)
                              ELSE p >= 1 + MaxDelay /\ p <= MaxGenLen(a) + MaxDelay
<1>1. MaxGenLen(a) \in Nat /\ MaxDelay \in Nat
  BY LayoutRange
<1>2. delays[q] = IF q = 0 THEN 0 ELSE MaxDelay
  BY DEF delays
<1>3. CASE q = 0
  BY <1>1, <1>2, <1>3 DEF Valid
<1>4. CASE q # 0
  BY <1>1, <1>2, <1>4 DEF Valid
<1>5. QED BY <1>3, <1>4

LEMMA TokStarts == TokInit => FrameInv
<1>1. SUFFICES ASSUME TokInit PROVE FrameInv
  OBVIOUS
<1>2. /\ song \in Asks /\ gen_seq = Pattern(song) /\ is_end = [q \in Books |-> FALSE] /\ offset = 0
      /\ codes = [end |-> "running", vocal |-> <<>>, bgm |-> <<>>]
  BY <1>1 DEF TokInit
<1>3. Layout(song) \in Nat /\ Layout(song) >= 2 /\ CodeSize \in Nat
  BY <1>2, LayoutRange
<1>4. \A q \in Books : \A p \in 0 .. Layout(song) - 1 :
         gen_seq[q][p] = IF p > 0 /\ Valid(song, q, p) THEN Unknown ELSE SP
  BY <1>2 DEF Pattern
<1>5. gen_seq \in [Books -> [0 .. Layout(song) - 1 -> Int]]
  BY <1>2, <1>3 DEF Pattern, Unknown, SP
<1>6. SongOK
  BY <1>2, <1>3, <1>5 DEF SongOK
<1>7. RowInv
  BY <1>2, <1>3, <1>4 DEF RowInv
<1>8. FramesArePaired
  BY <1>2 DEF FramesArePaired
<1>9. QED BY <1>6, <1>7, <1>8 DEF FrameInv

\* One column: a row that has ended gets padding, the others their code or EOS.
LEMMA SampleInv ==
    ASSUME SongOK, RowInv, More, NEW heeds \in BOOLEAN, heeds \/ song.no_eos,
           song' = song, offset' = offset + 1, Sample(offset + 1, heeds)
    PROVE  /\ offset' \in 0 .. Layout(song) - 1
           /\ is_end' \in [Books -> BOOLEAN]
           /\ gen_seq' \in [Books -> [0 .. Layout(song) - 1 -> Int]]
           /\ RowInv'
           /\ \A q \in Books : \A p \in 0 .. Layout(song) - 1 : p # offset + 1 => gen_seq'[q][p] = gen_seq[q][p]
<1> DEFINE p == offset + 1
<1>1. /\ song \in Asks /\ Layout(song) \in Nat /\ CodeSize \in Nat /\ offset \in Nat
      /\ p \in 1 .. Layout(song) - 1 /\ p \in 0 .. Layout(song) - 1 /\ p < CodeSize
  BY LayoutRange DEF SongOK, More
<1>2. PICK drawn \in [Books -> {p, EOS, SP}] :
         /\ \A q \in Books : drawn[q] \in Draws(q, p)
         /\ is_end' = [q \in Books |-> is_end[q] \/ (heeds /\ Masked(q, p, drawn[q]) = EOS)]
         /\ gen_seq' = [q \in Books |-> IF gen_seq[q][p] = Unknown
                                        THEN [gen_seq[q] EXCEPT ![p] = Masked(q, p, drawn[q])]
                                        ELSE gen_seq[q]]
  BY DEF Sample
<1> DEFINE tok(q) == Masked(q, p, drawn[q])
<1>3. ASSUME NEW q \in Books
      PROVE  /\ tok(q) \in {p, EOS, SP}
             /\ ~Valid(song, q, p) \/ is_end[q] => tok(q) = SP
             /\ Valid(song, q, p) /\ ~is_end[q] => tok(q) \in {p, EOS}
  BY <1>2 DEF Masked, Draws
<1>4. EOS \in Int /\ SP \in Int /\ EOS # SP /\ EOS # p /\ SP # p /\ Unknown \notin {p, EOS, SP}
  BY <1>1 DEF EOS, SP, Unknown
<1> HIDE DEF tok
<1>5. ASSUME NEW q \in Books
      PROVE  /\ gen_seq'[q] \in [0 .. Layout(song) - 1 -> Int]
             /\ gen_seq'[q][p] = tok(q)
             /\ \A x \in 0 .. Layout(song) - 1 : x # p => gen_seq'[q][x] = gen_seq[q][x]
  <2>1. gen_seq[q] \in [0 .. Layout(song) - 1 -> Int]
    BY DEF SongOK
  <2>2. gen_seq[q][p] = IF Valid(song, q, p) THEN Unknown ELSE SP
    BY <1>1 DEF RowInv
  <2>3. tok(q) \in Int
    BY <1>1, <1>3, <1>4
  <2>4. gen_seq'[q] = IF gen_seq[q][p] = Unknown THEN [gen_seq[q] EXCEPT ![p] = tok(q)] ELSE gen_seq[q]
    BY <1>2 DEF tok
  <2>5. gen_seq[q][p] # Unknown => tok(q) = SP /\ gen_seq[q][p] = SP
    BY <1>3, <2>2
  <2>6. QED BY <1>1, <2>1, <2>3, <2>4, <2>5
<1>6. gen_seq' \in [Books -> [0 .. Layout(song) - 1 -> Int]]
  BY <1>2, <1>5
<1>7. is_end' \in [Books -> BOOLEAN] /\ \A q \in Books : is_end'[q] <=> is_end[q] \/ (heeds /\ tok(q) = EOS)
  BY <1>2 DEF tok, SongOK
<1> HIDE DEF p
<1>8. offset' = p /\ p \in 0 .. Layout(song) - 1 /\ song' = song /\ p = offset + 1
  BY <1>1 DEF p
<1>9. Layout(song)' = Layout(song) /\ \A q, x : Valid(song, q, x)' <=> Valid(song, q, x)
  BY <1>8
<1>10. ASSUME NEW q \in Books
       PROVE  /\ gen_seq'[q][0] = SP
              /\ \A x \in 1 .. Layout(song) - 1 :
                    /\ x > p => gen_seq'[q][x] = IF Valid(song, q, x) THEN Unknown ELSE SP
                    /\ x <= p => /\ gen_seq'[q][x] \in {x, EOS, SP}
                                 /\ Valid(song, q, x) /\ gen_seq'[q][x] # x => is_end'[q] \/ song.no_eos
  <2>1. gen_seq'[q][0] = SP
    BY <1>1, <1>5, <1>8 DEF RowInv
  <2>2. ASSUME NEW x \in 1 .. Layout(song) - 1, x > p
        PROVE  gen_seq'[q][x] = IF Valid(song, q, x) THEN Unknown ELSE SP
    <3>1. x > offset /\ x # p /\ x \in 0 .. Layout(song) - 1
      BY <1>1, <1>8, <2>2
    <3>2. QED BY <1>5, <3>1 DEF RowInv
  <2>3. ASSUME NEW x \in 1 .. Layout(song) - 1, x <= p
        PROVE  /\ gen_seq'[q][x] \in {x, EOS, SP}
               /\ Valid(song, q, x) /\ gen_seq'[q][x] # x => is_end'[q] \/ song.no_eos
    <3>1. CASE x = p
      BY <1>3, <1>5, <1>7, <3>1
    <3>2. CASE x # p
      <4>1. x <= offset /\ x \in 0 .. Layout(song) - 1
        BY <1>1, <1>8, <2>3, <3>2
      <4>2. gen_seq'[q][x] = gen_seq[q][x]
        BY <1>5, <3>2, <4>1
      <4>3. QED BY <1>7, <4>1, <4>2 DEF RowInv
    <3>3. QED BY <3>1, <3>2
  <2>4. QED BY <2>1, <2>2, <2>3
<1>11. ASSUME NEW q \in Books, ~song.no_eos, NEW p1 \in 1 .. Layout(song) - 1,
              NEW p2 \in 1 .. Layout(song) - 1, p1 < p2, p2 <= p, Valid(song, q, p1), gen_seq'[q][p2] = p2
       PROVE  gen_seq'[q][p1] = p1
  <2>1. p1 <= offset /\ p1 # p /\ p1 \in 0 .. Layout(song) - 1 /\ p2 \in 0 .. Layout(song) - 1
    BY <1>1, <1>8, <1>11
  <2>2. gen_seq'[q][p1] = gen_seq[q][p1]
    BY <1>5, <2>1
  <2>3. CASE p2 = p
    <3>1. tok(q) = p
      BY <1>5, <1>11, <2>3
    <3>2. ~is_end[q]
      BY <1>3, <1>4, <3>1
    <3>3. QED BY <1>11, <2>1, <2>2, <3>2 DEF RowInv
  <2>4. CASE p2 # p
    <3>1. p2 <= offset
      BY <1>1, <1>8, <1>11, <2>4
    <3>2. gen_seq[q][p2] = p2
      BY <1>5, <1>11, <2>1, <2>4
    <3>3. QED BY <1>11, <2>2, <3>1, <3>2 DEF RowInv
  <2>5. QED BY <2>3, <2>4
<1>12. RowInv'
  BY <1>8, <1>9, <1>10, <1>11 DEF RowInv
<1>13. QED BY <1>5, <1>6, <1>7, <1>8, <1>12

\* A column leaves the codes handed on alone, except to give up.
LEMMA AdvanceInv ==
    ASSUME FrameInv, NEW heeds \in BOOLEAN, heeds \/ song.no_eos, Advance(heeds)
    PROVE  FrameInv'
<1>1. SongOK /\ RowInv /\ More /\ song' = song /\ codes.end = "running"
  BY DEF FrameInv, Advance, More
<1>2. CASE offset' = offset + 1 /\ Sample(offset + 1, heeds) /\ codes' = codes
  <2>1. /\ offset' \in 0 .. Layout(song) - 1 /\ is_end' \in [Books -> BOOLEAN] /\ RowInv'
        /\ gen_seq' \in [Books -> [0 .. Layout(song) - 1 -> Int]]
    BY <1>1, <1>2, SampleInv
  <2>2. SongOK'
    BY <1>1, <1>2, <2>1 DEF SongOK, Layout, MaxGenLen
  <2>3. FramesArePaired'
    BY <1>1, <1>2 DEF FramesArePaired
  <2>4. QED BY <2>1, <2>2, <2>3 DEF FrameInv
<1>3. CASE codes' = [codes EXCEPT !.end = "fatal"] /\ UNCHANGED <<gen_seq, is_end, offset, context>>
  <2>1. codes'.end \in {"fatal", "running"}
    BY <1>1, <1>3
  <2>2. SongOK'
    BY <1>1, <1>3, <2>1 DEF SongOK, Layout, MaxGenLen
  <2>3. RowInv'
    BY <1>1, <1>3, ZenonT(30) DEF RowInv, Layout, MaxGenLen, Valid
  <2>4. FramesArePaired'
    BY <2>1 DEF FramesArePaired
  <2>5. QED BY <2>2, <2>3, <2>4 DEF FrameInv
<1>4. QED BY <1>2, <1>3 DEF Advance

\* An audible code of frame t was drawn in column t + MaxDelay.
LEMMA AudibleDrawn ==
    ASSUME SongOK, RowInv, NEW q \in {1, 2}, NEW t \in 1 .. MaxGenLen(song)
    PROVE  Audible(Reverted(q, t - 1)) <=>
              t + MaxDelay <= offset /\ gen_seq[q][t + MaxDelay] = t + MaxDelay
<1> DEFINE p == t + MaxDelay
<1>1. /\ song \in Asks /\ offset \in Nat /\ CodeSize \in Nat /\ MaxDelay \in Nat /\ q \in Books
      /\ p \in 1 .. Layout(song) - 1 /\ p < CodeSize /\ t \in Int /\ p \in Int /\ p >= 1
  <2>0. q \in Books
    BY DEF Books
  <2>1. song \in Asks /\ offset \in 0 .. Layout(song) - 1
    BY DEF SongOK
  <2>2. /\ MaxGenLen(song) \in Nat /\ MaxDelay \in Nat /\ CodeSize \in Nat
        /\ Layout(song) = 1 + MaxGenLen(song) + MaxDelay /\ Layout(song) <= CodeSize
    BY <2>1, LayoutRange
  <2>3. offset \in Nat
    BY <2>1, <2>2
  <2>4. QED BY <2>0, <2>1, <2>2, <2>3
<1>2. delays[q] = MaxDelay /\ (t - 1) + delays[q] + 1 = p
  BY <1>1 DEF delays, Books
<1>3. Reverted(q, t - 1) = LET val == IF p <= offset THEN gen_seq[q][p] ELSE Unknown
                           IN IF val = Unknown THEN EOS ELSE val
  BY <1>2 DEF Reverted
<1>4. p <= offset => gen_seq[q][p] \in {p, EOS, SP}
  BY <1>1 DEF RowInv
<1> HIDE DEF p
<1>5. Reverted(q, t - 1) = IF p <= offset THEN gen_seq[q][p] ELSE EOS
  BY <1>1, <1>3, <1>4 DEF EOS, SP, Unknown
<1>6. Audible(Reverted(q, t - 1)) <=> p <= offset /\ gen_seq[q][p] = p
  BY <1>1, <1>4, <1>5 DEF Audible, EOS, SP
<1>7. QED BY <1>6 DEF p

LEMMA RevertInv == ASSUME FrameInv, Revert PROVE FrameInv'
<1>1. SongOK /\ RowInv /\ codes.end = "running" /\ UNCHANGED <<song, gen_seq, is_end, offset>>
  BY DEF FrameInv, Revert
<1>2. codes' = [end |-> IF Tv = 0 THEN "no frames" ELSE "decode",
                vocal |-> [t \in 1 .. Tv |-> Clamped(Reverted(1, t - 1))],
                bgm |-> [t \in 1 .. Tv |-> Clamped(Reverted(2, t - 1))]]
  BY DEF Revert
<1>3. codes'.end \in {"no frames", "decode"} /\ DOMAIN codes'.vocal = 1 .. Tv
      /\ \A t \in 1 .. Tv : codes'.vocal[t] = Clamped(Reverted(1, t - 1)) /\ codes'.bgm[t] = Clamped(Reverted(2, t - 1))
  BY <1>2
<1>4. SongOK' /\ RowInv'
  BY <1>1, <1>3, ZenonT(30) DEF SongOK, RowInv, Layout, MaxGenLen, Valid
<1>5. ASSUME ~song.no_eos, NEW t \in 1 .. Tv
      PROVE  codes'.vocal[t] = t + MaxDelay /\ codes'.bgm[t] = t + MaxDelay
  <2> DEFINE S == {0} \cup {x \in 1 .. MaxGenLen(song) :
                       Audible(Reverted(1, x - 1)) /\ Audible(Reverted(2, x - 1))}
  <2>1. /\ song \in Asks /\ MaxGenLen(song) \in Nat /\ MaxDelay \in Nat /\ CodeSize \in Nat
        /\ Layout(song) = 1 + MaxGenLen(song) + MaxDelay /\ Layout(song) <= CodeSize /\ offset \in Nat
    BY <1>1, LayoutRange DEF SongOK
  <2>2. Max(S) \in S
    <3>1. S \in SUBSET (0 .. MaxGenLen(song)) /\ S # {}
      BY <2>1
    <3> HIDE DEF S
    <3>2. QED BY <2>1, <3>1, GreatestElement
  <2>3. Tv \in S
    BY <2>2 DEF Tv
  <2>4. Tv # 0
    <3>1. CASE Tv = 0
      BY <3>1
    <3>2. QED BY <3>1
  <2>5. Tv \in 1 .. MaxGenLen(song) /\ Audible(Reverted(1, Tv - 1)) /\ Audible(Reverted(2, Tv - 1))
    BY <2>3, <2>4
  <2>6. Tv \in Nat /\ t \in Nat /\ t >= 1 /\ t <= Tv /\ t \in 1 .. MaxGenLen(song)
    BY <2>1, <2>5
  <2>7. ASSUME NEW q \in {1, 2} PROVE Clamped(Reverted(q, t - 1)) = t + MaxDelay
    <3>1. Tv + MaxDelay <= offset /\ gen_seq[q][Tv + MaxDelay] = Tv + MaxDelay
      BY <1>1, <2>5, AudibleDrawn
    <3>2. gen_seq[q][t + MaxDelay] = t + MaxDelay
      <4>1. CASE t = Tv
        BY <3>1, <4>1
      <4>2. CASE t # Tv
        <5> DEFINE p1 == t + MaxDelay
                   p2 == Tv + MaxDelay
        <5>1. /\ p1 \in 1 .. Layout(song) - 1 /\ p2 \in 1 .. Layout(song) - 1 /\ p1 < p2 /\ p2 <= offset
              /\ gen_seq[q][p2] = p2 /\ q \in Books /\ q # 0
          BY <2>1, <2>5, <2>6, <3>1, <4>2 DEF Books
        <5>2. Valid(song, q, p1)
          BY <2>1, <2>6, <5>1, ValidRange
        <5> HIDE DEF p1, p2
        <5>3. gen_seq[q][p1] = p1
          BY <1>1, <1>5, <5>1, <5>2 DEF RowInv
        <5>4. QED BY <5>3 DEF p1
      <4>3. QED BY <4>1, <4>2
    <3>3. t + MaxDelay <= offset /\ t + MaxDelay \in Nat /\ t + MaxDelay < CodeSize
      BY <2>1, <2>5, <2>6, <3>1
    <3>4. Reverted(q, t - 1) = t + MaxDelay
      <4>1. delays[q] = MaxDelay /\ (t - 1) + delays[q] + 1 = t + MaxDelay
        BY <2>1, <2>6 DEF delays, Books
      <4>2. t + MaxDelay # Unknown
        BY <3>3 DEF Unknown
      <4>3. QED BY <3>2, <3>3, <4>1, <4>2 DEF Reverted
    <3>5. QED BY <2>1, <3>3, <3>4 DEF Clamped
  <2>8. QED BY <1>3, <2>7
<1>6. FramesArePaired'
  BY <1>1, <1>3, <1>5 DEF FramesArePaired
<1>7. QED BY <1>4, <1>6 DEF FrameInv

LEMMA FrameStep == ASSUME FrameInv, [TokNext]_tokVars PROVE FrameInv'
<1>1. song \in Asks /\ song.no_eos \in BOOLEAN
  BY AsksAssumption DEF FrameInv, SongOK, Ask
<1>2. CASE GenerateColumn
  BY <1>1, <1>2, AdvanceInv DEF GenerateColumn
<1>3. CASE ContinueColumn
  BY <1>3, AdvanceInv DEF ContinueColumn
<1>4. CASE CloneColumn
  BY <1>4, AdvanceInv DEF CloneColumn
<1>5. CASE GenerateFrames \/ ContinueFrames \/ CloneFrames
  BY <1>5, RevertInv DEF GenerateFrames, ContinueFrames, CloneFrames
<1>6. CASE UNCHANGED tokVars
  <2>1. UNCHANGED <<song, gen_seq, is_end, offset, codes>>
    BY <1>6 DEF tokVars
  <2>2. QED BY <2>1, ZenonT(30) DEF FrameInv, SongOK, RowInv, FramesArePaired, Layout, MaxGenLen, Valid
<1>7. QED BY <1>2, <1>3, <1>4, <1>5, <1>6 DEF TokNext

\* A frame handed to the decoder pairs the vocal and the background code of one
\* column, from the first frame on and without padding, whatever was asked for
\* and however long the rows ran: the masking of ended rows keeps the codes of
\* a row contiguous, and revert_pattern_sequence undoes the delay.
THEOREM FramesPaired == TokSpec => []FramesArePaired
<1>1. FrameInv /\ [TokNext]_tokVars => FrameInv'
  BY FrameStep
<1>2. FrameInv => FramesArePaired
  BY DEF FrameInv
<1>3. QED BY TokStarts, <1>1, <1>2, PTL DEF TokSpec

-----------------------------------------------------------------------------
\* The cache of a running program: its shape, and what a run finds in its row.
CellKinds == {"zero", "desc", "eot", "audio", "type", "code"}
Triples == Int \X Int \X Int
CellSet == [kind : CellKinds, row : Rows, at : Nat, ids : Triples]

KvOK(k) ==
    /\ k \in [max_seq : Nat, cap : Nat, ok : BOOLEAN,
              pos : [Stacks -> [Rows -> Nat]], cells : [Stacks -> [Rows -> Seq(CellSet)]]]
    /\ 1 <= k.max_seq /\ k.max_seq <= k.cap
    /\ \A st \in Stacks, r \in Rows : Len(k.cells[st][r]) = k.max_seq /\ k.pos[st][r] <= k.max_seq

HistAt(a, g, r, i) == IF i <= PrefixLen THEN Conditioning(a, r)[i] ELSE Column(r, g, i - PrefixLen - 1)
Filled(n) == IF n = 0 THEN 0 ELSE PrefixLen + n

HoldsRow(k, a, g, r, n) ==
    \A st \in Stacks : /\ k.pos[st][r] = n
                       /\ \A i \in 1 .. n : k.cells[st][r][i] = HistAt(a, g, r, i)

\* toks carries a row's history on from n to e cells.
CarriesOn(toks, a, g, r, n, e) ==
    /\ toks \in Seq(CellSet) /\ e = n + Len(toks)
    /\ \A i \in n + 1 .. e : toks[i - n] = HistAt(a, g, r, i)

\* s is k with toks appended to a row of one stack; w is k with a row carried
\* on to e cells in both stacks.
Appended(k, s, st0, r0, toks) ==
    /\ KvOK(s) /\ s.max_seq = k.max_seq /\ s.cap = k.cap /\ s.ok = k.ok
    /\ s.pos[st0][r0] = k.pos[st0][r0] + Len(toks)
    /\ \A i \in 1 .. k.pos[st0][r0] : s.cells[st0][r0][i] = k.cells[st0][r0][i]
    /\ \A j \in 1 .. Len(toks) : s.cells[st0][r0][k.pos[st0][r0] + j] = toks[j]
    /\ \A st \in Stacks, r \in Rows :
          st # st0 \/ r # r0 => s.pos[st][r] = k.pos[st][r] /\ s.cells[st][r] = k.cells[st][r]

Carried(k, w, a, g, r0, e) ==
    /\ KvOK(w) /\ w.max_seq = k.max_seq /\ w.cap = k.cap /\ w.ok = k.ok
    /\ HoldsRow(w, a, g, r0, e)
    /\ \A r \in Rows : r # r0 => \A st \in Stacks : w.pos[st][r] = k.pos[st][r] /\ w.cells[st][r] = k.cells[st][r]

Fits(k, st, r, toks) == k.pos[st][r] + Len(toks) <= k.max_seq

KvInv ==
    /\ KvOK(kv) /\ kv.ok /\ kv.cap = PrefixLen + Layout(song) + 4
    /\ \A r \in Rows : HoldsRow(kv, song, gen_seq, r, Filled(offset))

ContextInv == SongOK /\ RowInv /\ KvInv /\ ContextIsOwnHistory

LEMMA CellTyped ==
    \A kind \in CellKinds, r \in Rows, at \in Nat : \A x, y, z \in Int :
        /\ Cell(kind, r, at, <<x, y, z>>) \in CellSet
        /\ Cell(kind, r, at, <<x, y, z>>).ids = <<x, y, z>>
BY DEF Cell, CellSet, Triples

LEMMA PrefixRange == PrefixLen \in Nat /\ PrefixLen >= 3 /\ DescLen \in Nat /\ AudioLen \in Nat
BY SonggenTokensAssumption DEF PrefixLen

LEMMA AudioCell ==
    ASSUME NEW a \in Asks, NEW r \in Rows, NEW i \in Nat
    PROVE  \E x, y, z \in Nat : AudioIds(a, r, i) = <<x, y, z>>
<1>1. EOS \in Nat /\ SP \in Nat
  BY SonggenTokensAssumption DEF EOS, SP
<1>2. CASE a.tool = "generate" \/ r = 1
  BY <1>1, <1>2 DEF AudioIds
<1>3. CASE ~(a.tool = "generate" \/ r = 1)
  <2> DEFINE id(book) == IF i = 0 THEN EOS ELSE IF i <= Min({a.prompt, AudioLen - 2}) THEN 3 * i + book ELSE SP
  <2>1. id(0) \in Nat /\ id(1) \in Nat /\ id(2) \in Nat
    BY <1>1
  <2>2. AudioIds(a, r, i) = <<id(0), id(1), id(2)>>
    BY <1>3 DEF AudioIds, sgclone_build_audio_ids
  <2> HIDE DEF id
  <2>3. QED BY <2>1, <2>2
<1>4. QED BY <1>2, <1>3

LEMMA ConditioningCells ==
    ASSUME NEW a \in Asks, NEW r \in Rows
    PROVE  /\ Conditioning(a, r) \in Seq(CellSet) /\ Len(Conditioning(a, r)) = PrefixLen
           /\ \A i \in 1 .. PrefixLen : \E x, y, z \in Nat : Conditioning(a, r)[i].ids = <<x, y, z>>
<1>1. ASSUME NEW i \in 1 .. PrefixLen
      PROVE  /\ Conditioning(a, r)[i] \in CellSet
             /\ \E x, y, z \in Nat : Conditioning(a, r)[i].ids = <<x, y, z>>
  <2>1. i \in Nat /\ {"desc", "eot", "audio", "type"} \subseteq CellKinds
    BY PrefixRange DEF CellKinds
  <2>2. \A kind \in CellKinds : Cell(kind, r, i, NoIds) \in CellSet /\ Cell(kind, r, i, NoIds).ids = <<0, 0, 0>>
    <3>1. ASSUME NEW kind \in CellKinds
          PROVE  Cell(kind, r, i, <<0, 0, 0>>) \in CellSet /\ Cell(kind, r, i, <<0, 0, 0>>).ids = <<0, 0, 0>>
      BY <2>1 DEF Cell, CellSet, Triples
    <3>2. QED BY <3>1 DEF NoIds
  <2>3. CASE i \in DescLen + 2 .. DescLen + AudioLen
    <3>1. i - DescLen - 2 \in Nat /\ ~(i <= DescLen) /\ i # DescLen + 1
      BY <2>1, <2>3, PrefixRange
    <3>2. Conditioning(a, r)[i] = Cell("audio", r, i, AudioIds(a, r, i - DescLen - 2))
      BY <2>3, <3>1 DEF Conditioning
    <3>3. PICK x, y, z \in Nat : AudioIds(a, r, i - DescLen - 2) = <<x, y, z>>
      BY <3>1, AudioCell
    <3>4. "audio" \in CellKinds /\ x \in Int /\ y \in Int /\ z \in Int
      BY <2>1
    <3>5. /\ Cell("audio", r, i, <<x, y, z>>) \in CellSet
          /\ Cell("audio", r, i, <<x, y, z>>).ids = <<x, y, z>>
      BY <2>1, <3>4 DEF Cell, CellSet, Triples
    <3>6. QED BY <3>2, <3>3, <3>5
  <2>4. CASE i \notin DescLen + 2 .. DescLen + AudioLen
    <3>1. \E kind \in {"desc", "eot", "type"} : Conditioning(a, r)[i] = Cell(kind, r, i, NoIds)
      BY <2>4 DEF Conditioning
    <3>2. QED BY <2>1, <2>2, <3>1
  <2>5. QED BY <2>3, <2>4
<1>2. Conditioning(a, r) = [i \in 1 .. PrefixLen |-> Conditioning(a, r)[i]]
  BY DEF Conditioning
<1>3. Conditioning(a, r) \in [1 .. PrefixLen -> CellSet]
  BY <1>1, <1>2
<1>4. Conditioning(a, r) \in Seq(CellSet) /\ Len(Conditioning(a, r)) = PrefixLen
  <2>1. PrefixLen \in Nat
    BY PrefixRange
  <2>2. QED BY <1>3, <2>1
<1>5. QED BY <1>1, <1>4

\* Growing keeps what the runs wrote and makes room for what is asked, up to the
\* ceiling.
LEMMA EnsureRoom ==
    ASSUME NEW k, KvOK(k), NEW need \in Nat
    PROVE  LET big == sggen_ensure_kv(k, need) IN
           /\ KvOK(big) /\ big.ok = k.ok /\ big.cap = k.cap /\ big.pos = k.pos
           /\ \A n \in Nat : n <= need /\ n <= k.cap => n <= big.max_seq
           /\ \A st \in Stacks, r \in Rows : \A i \in 1 .. k.pos[st][r] :
                 big.cells[st][r][i] = k.cells[st][r][i]
<1> DEFINE target == Max({need, Min({2 * k.max_seq, k.max_seq + Block})})
           new_seq == Min({target, k.cap})
<1>1. /\ k \in [max_seq : Nat, cap : Nat, ok : BOOLEAN,
              pos : [Stacks -> [Rows -> Nat]], cells : [Stacks -> [Rows -> Seq(CellSet)]]]
      /\ 1 <= k.max_seq /\ k.max_seq <= k.cap /\ k.max_seq \in Nat /\ k.cap \in Nat
      /\ \A st \in Stacks, r \in Rows : Len(k.cells[st][r]) = k.max_seq /\ k.pos[st][r] <= k.max_seq
  BY DEF KvOK
<1>2. Block \in Nat
  BY SonggenTokensAssumption
<1>3. target \in Nat /\ target >= need
  <2> DEFINE m == Min({2 * k.max_seq, k.max_seq + Block})
  <2>1. m \in Nat
    <3>1. 2 * k.max_seq \in Nat /\ k.max_seq + Block \in Nat
      BY <1>1, <1>2
    <3>2. \A x, y \in Nat : Min({x, y}) \in Nat
      BY MinOfTwo
    <3>3. QED BY <3>1, <3>2
  <2> HIDE DEF m
  <2>2. Max({need, m}) \in Nat /\ Max({need, m}) >= need
    BY <2>1, MaxOfTwo
  <2>3. QED BY <2>2 DEF m
<1> HIDE DEF target
<1>4. new_seq \in Nat /\ new_seq <= k.cap /\ \A n \in Nat : n <= need /\ n <= k.cap => n <= new_seq
  <2>1. new_seq = IF target <= k.cap THEN target ELSE k.cap
    BY <1>1, <1>3, MinOfTwo
  <2> HIDE DEF new_seq
  <2>2. QED BY <1>1, <1>3, <2>1
<1> HIDE DEF new_seq
<1>5. CASE need <= k.max_seq \/ new_seq <= k.max_seq
  <2>1. sggen_ensure_kv(k, need) = k
    BY <1>5 DEF sggen_ensure_kv, sggen_grow_kv, target, new_seq
  <2>2. \A n \in Nat : n <= need /\ n <= k.cap => n <= k.max_seq
    BY <1>1, <1>4, <1>5
  <2>3. QED BY <2>1, <2>2
<1>6. CASE ~(need <= k.max_seq \/ new_seq <= k.max_seq)
  <2> DEFINE used == [st \in Stacks |-> Max({k.pos[st][r] : r \in Rows})]
             cells(st, r) == [i \in 1 .. new_seq |-> IF i <= used[st] THEN k.cells[st][r][i] ELSE Zero]
             grown == [st \in Stacks |-> [r \in Rows |-> cells(st, r)]]
  <2>1. sggen_ensure_kv(k, need) = [k EXCEPT !.max_seq = new_seq, !.cells = grown]
    BY <1>6 DEF sggen_ensure_kv, sggen_grow_kv, target, new_seq
  <2>2. ASSUME NEW st \in Stacks, NEW r \in Rows
        PROVE  used[st] \in Nat /\ k.pos[st][r] <= used[st]
    <3>1. k.pos[st][0] \in Nat /\ k.pos[st][1] \in Nat /\ {k.pos[st][x] : x \in Rows} = {k.pos[st][0], k.pos[st][1]}
      BY <1>1 DEF Rows
    <3>2. used[st] = Max({k.pos[st][x] : x \in Rows})
      OBVIOUS
    <3>3. used[st] = Max({k.pos[st][0], k.pos[st][1]})
      <4> HIDE DEF used
      <4>1. QED BY <3>1, <3>2, Zenon
    <3> HIDE DEF used
    <3>4. PICK a \in Nat, b \in Nat : a = k.pos[st][0] /\ b = k.pos[st][1]
      BY <3>1
    <3>5. used[st] = IF a >= b THEN a ELSE b
      BY <3>3, <3>4, MaxOfTwo
    <3>6. k.pos[st][r] \in {a, b}
      BY <3>4 DEF Rows
    <3>7. QED BY <3>4, <3>5, <3>6
  <2>3. ASSUME NEW st \in Stacks PROVE used[st] <= k.max_seq
    <3>1. {k.pos[st][x] : x \in Rows} = {k.pos[st][0], k.pos[st][1]}
      BY DEF Rows
    <3>2. k.pos[st][0] \in Nat /\ k.pos[st][1] \in Nat /\ k.pos[st][0] <= k.max_seq /\ k.pos[st][1] <= k.max_seq
      BY <1>1 DEF Rows
    <3>3. used[st] = Max({k.pos[st][x] : x \in Rows})
      OBVIOUS
    <3> HIDE DEF used
    <3>4. used[st] = Max({k.pos[st][0], k.pos[st][1]})
      BY <3>1, <3>3, Zenon
    <3>5. PICK a \in Nat, b \in Nat : a = k.pos[st][0] /\ b = k.pos[st][1]
      BY <3>2
    <3>6. used[st] = IF a >= b THEN a ELSE b
      BY <3>4, <3>5, MaxOfTwo
    <3>7. QED BY <3>2, <3>5, <3>6
  <2> HIDE DEF used
  <2>4. k.max_seq < new_seq /\ new_seq \in Nat
    BY <1>1, <1>4, <1>6
  <2>5. ASSUME NEW st \in Stacks, NEW r \in Rows
        PROVE  /\ cells(st, r) \in Seq(CellSet) /\ Len(cells(st, r)) = new_seq
               /\ \A i \in 1 .. k.pos[st][r] : cells(st, r)[i] = k.cells[st][r][i]
    <3>1. k.cells[st][r] \in Seq(CellSet) /\ Len(k.cells[st][r]) = k.max_seq /\ k.pos[st][r] \in Nat
          /\ k.pos[st][r] <= k.max_seq
      BY <1>1
    <3>2. Zero \in CellSet
      <4>1. "zero" \in CellKinds /\ 0 \in Rows
        BY DEF CellKinds, Rows
      <4>2. QED BY <4>1, CellTyped DEF Zero, NoIds
    <3>3. ASSUME NEW i \in 1 .. new_seq
          PROVE  cells(st, r)[i] \in CellSet /\ (i <= used[st] => cells(st, r)[i] = k.cells[st][r][i])
      <4>1. cells(st, r)[i] = IF i <= used[st] THEN k.cells[st][r][i] ELSE Zero
        OBVIOUS
      <4>2. i <= used[st] => i \in 1 .. Len(k.cells[st][r])
        BY <1>1, <2>2, <2>3, <3>1
      <4>3. i <= used[st] => k.cells[st][r][i] \in CellSet
        BY <3>1, <4>2
      <4>4. QED BY <3>2, <4>1, <4>3
    <3>4. cells(st, r) \in [1 .. new_seq -> CellSet]
      <4>1. cells(st, r) = [i \in 1 .. new_seq |-> cells(st, r)[i]]
        OBVIOUS
      <4> HIDE DEF cells
      <4>2. QED BY <3>3, <4>1
    <3> HIDE DEF cells
    <3>5. ASSUME NEW i \in 1 .. k.pos[st][r] PROVE cells(st, r)[i] = k.cells[st][r][i]
      <4>1. i \in 1 .. new_seq /\ i <= used[st]
        BY <1>1, <2>2, <2>4, <3>1
      <4>2. QED BY <3>3, <4>1
    <3>6. QED BY <2>4, <3>4, <3>5
  <2>6. \A st \in Stacks, r \in Rows : grown[st][r] = cells(st, r)
    OBVIOUS
  <2>7. grown \in [Stacks -> [Rows -> Seq(CellSet)]]
    <3>1. \A st \in Stacks, r \in Rows : cells(st, r) \in Seq(CellSet)
      BY <2>5
    <3> HIDE DEF cells
    <3>2. QED BY <3>1
  <2> HIDE DEF grown, cells
  <2> DEFINE big == [k EXCEPT !.max_seq = new_seq, !.cells = grown]
  <2>8. /\ big \in [max_seq : Nat, cap : Nat, ok : BOOLEAN,
                    pos : [Stacks -> [Rows -> Nat]], cells : [Stacks -> [Rows -> Seq(CellSet)]]]
        /\ big.max_seq = new_seq /\ big.cap = k.cap /\ big.ok = k.ok /\ big.pos = k.pos /\ big.cells = grown
    BY <1>1, <2>4, <2>7
  <2> HIDE DEF big
  <2>9. KvOK(big)
    <3>1. ASSUME NEW st \in Stacks, NEW r \in Rows
          PROVE  Len(big.cells[st][r]) = big.max_seq /\ big.pos[st][r] <= big.max_seq
      <4>1. k.pos[st][r] \in Nat /\ k.pos[st][r] <= k.max_seq /\ Len(cells(st, r)) = new_seq
        BY <1>1, <2>5
      <4>2. QED BY <1>1, <2>4, <2>6, <2>8, <4>1
    <3>2. 1 <= big.max_seq /\ big.max_seq <= big.cap
      BY <1>1, <1>4, <2>4, <2>8
    <3>3. QED BY <2>8, <3>1, <3>2 DEF KvOK
  <2>10. sggen_ensure_kv(k, need) = big
    BY <2>1 DEF big
  <2>11. QED BY <1>4, <2>5, <2>6, <2>8, <2>9, <2>10
<1>7. QED BY <1>5, <1>6

\* Writing a row of one stack touches nothing else.
LEMMA StoredCells ==
    ASSUME NEW k, KvOK(k), NEW st0 \in Stacks, NEW r0 \in Rows, NEW toks \in Seq(CellSet), Fits(k, st0, r0, toks)
    PROVE  Appended(k, Stored(k, st0, r0, toks), st0, r0, toks)
<1> DEFINE n == k.pos[st0][r0]
           L == Len(toks)
           row == [i \in 1 .. k.max_seq |->
                     IF i \in n + 1 .. n + L THEN toks[i - n] ELSE k.cells[st0][r0][i]]
           cells == [k.cells EXCEPT ![st0][r0] = row]
           pos == [k.pos EXCEPT ![st0][r0] = n + L]
           s == [k EXCEPT !.cells = cells, !.pos = pos]
<1>1. /\ k \in [max_seq : Nat, cap : Nat, ok : BOOLEAN,
              pos : [Stacks -> [Rows -> Nat]], cells : [Stacks -> [Rows -> Seq(CellSet)]]]
      /\ 1 <= k.max_seq /\ k.max_seq <= k.cap /\ k.max_seq \in Nat
      /\ k.cells \in [Stacks -> [Rows -> Seq(CellSet)]] /\ k.pos \in [Stacks -> [Rows -> Nat]]
      /\ \A st \in Stacks, r \in Rows : Len(k.cells[st][r]) = k.max_seq /\ k.pos[st][r] <= k.max_seq
  BY DEF KvOK
<1>2. n \in Nat /\ L \in Nat /\ n + L <= k.max_seq
  BY <1>1 DEF Fits
<1>3. k.cells[st0][r0] \in Seq(CellSet) /\ Len(k.cells[st0][r0]) = k.max_seq
  BY <1>1
<1> HIDE DEF n, L
<1>4. L = Len(toks) /\ n = k.pos[st0][r0]
  BY DEF L, n
<1>5. ASSUME NEW i \in 1 .. k.max_seq PROVE row[i] \in CellSet
  <2>1. i \in n + 1 .. n + L => i - n \in 1 .. Len(toks)
    BY <1>2, <1>4
  <2>2. QED BY <1>3, <2>1
<1>6. row \in Seq(CellSet) /\ Len(row) = k.max_seq
  <2>0. k.max_seq \in Nat
    BY <1>1
  <2>1. row \in [1 .. k.max_seq -> CellSet]
    <3>1. row = [i \in 1 .. k.max_seq |-> row[i]]
      OBVIOUS
    <3> HIDE DEF row
    <3>2. QED BY <1>5, <3>1
  <2> HIDE DEF row
  <2>2. QED BY <2>0, <2>1
<1>7. \A i \in 1 .. n : row[i] = k.cells[st0][r0][i]
  <2>1. \A i \in 1 .. n : i \in 1 .. k.max_seq /\ i \notin n + 1 .. n + L
    BY <1>1, <1>2
  <2>2. QED BY <2>1
<1>8. \A j \in 1 .. L : row[n + j] = toks[j]
  <2>1. \A j \in 1 .. L : n + j \in 1 .. k.max_seq /\ n + j \in n + 1 .. n + L /\ (n + j) - n = j
    BY <1>1, <1>2
  <2>2. ASSUME NEW j \in 1 .. L PROVE row[n + j] = toks[j]
    <3>1. row[n + j] = toks[(n + j) - n]
      BY <2>1
    <3>2. QED BY <2>1, <3>1
  <2>3. QED BY <2>2
<1> HIDE DEF row
<1>9. /\ cells \in [Stacks -> [Rows -> Seq(CellSet)]] /\ cells[st0][r0] = row
      /\ \A st \in Stacks, r \in Rows : st # st0 \/ r # r0 => cells[st][r] = k.cells[st][r]
  BY <1>1, <1>6
<1>10. /\ pos \in [Stacks -> [Rows -> Nat]] /\ pos[st0][r0] = n + L
       /\ \A st \in Stacks, r \in Rows : st # st0 \/ r # r0 => pos[st][r] = k.pos[st][r]
  BY <1>1, <1>2
<1> HIDE DEF cells, pos
<1>11. /\ s \in [max_seq : Nat, cap : Nat, ok : BOOLEAN,
              pos : [Stacks -> [Rows -> Nat]], cells : [Stacks -> [Rows -> Seq(CellSet)]]]
       /\ s.max_seq = k.max_seq /\ s.cap = k.cap /\ s.ok = k.ok /\ s.pos = pos /\ s.cells = cells
  BY <1>1, <1>9, <1>10
<1>12. Stored(k, st0, r0, toks) = s
  BY <1>1 DEF Stored, s, cells, pos, row, n, L
<1> HIDE DEF s
<1>13. ASSUME NEW st \in Stacks, NEW r \in Rows
       PROVE  Len(s.cells[st][r]) = s.max_seq /\ s.pos[st][r] <= s.max_seq
  <2>1. CASE st = st0 /\ r = r0
    BY <1>2, <1>6, <1>9, <1>10, <1>11, <2>1
  <2>2. CASE st # st0 \/ r # r0
    BY <1>1, <1>9, <1>10, <1>11, <2>2
  <2>3. QED BY <2>1, <2>2
<1>14. KvOK(s)
  BY <1>1, <1>11, <1>13 DEF KvOK
<1>15. Appended(k, s, st0, r0, toks)
  BY <1>4, <1>7, <1>8, <1>9, <1>10, <1>11, <1>14 DEF Appended
<1>16. QED BY <1>12, <1>15

\* Both stacks of a row get the same tokens.
LEMMA WriteRow ==
    ASSUME NEW k, KvOK(k), NEW a, NEW g, NEW r0 \in Rows, NEW n \in Nat, HoldsRow(k, a, g, r0, n),
           NEW toks, NEW e \in Nat, CarriesOn(toks, a, g, r0, n, e), e <= k.max_seq
    PROVE  Carried(k, Write(k, r0, toks), a, g, r0, e)
<1>0. PICK s1 \in Stacks, s2 \in Stacks : s1 = "main" /\ s2 = "sub"
  BY DEF Stacks
<1>1. s1 # s2 /\ \A st \in Stacks : st = s1 \/ st = s2
  BY <1>0 DEF Stacks
<1>2. toks \in Seq(CellSet) /\ e = n + Len(toks)
  BY DEF CarriesOn
<1>3. \A st \in Stacks : k.pos[st][r0] = n /\ \A i \in 1 .. n : k.cells[st][r0][i] = HistAt(a, g, r0, i)
  BY DEF HoldsRow
<1> DEFINE m == Stored(k, s1, r0, toks)
           w == Stored(m, s2, r0, toks)
<1>4. Appended(k, m, s1, r0, toks)
  <2>1. Fits(k, s1, r0, toks)
    BY <1>2, <1>3 DEF Fits
  <2>2. QED BY <1>2, <2>1, StoredCells
<1> HIDE DEF m
<1>5. /\ KvOK(m) /\ m.max_seq = k.max_seq /\ m.cap = k.cap /\ m.ok = k.ok
      /\ m.pos[s1][r0] = n + Len(toks)
      /\ \A i \in 1 .. n : m.cells[s1][r0][i] = k.cells[s1][r0][i]
      /\ \A j \in 1 .. Len(toks) : m.cells[s1][r0][n + j] = toks[j]
      /\ \A st \in Stacks, r \in Rows :
            st # s1 \/ r # r0 => m.pos[st][r] = k.pos[st][r] /\ m.cells[st][r] = k.cells[st][r]
  BY <1>3, <1>4 DEF Appended
<1>6. Appended(m, w, s2, r0, toks)
  <2>1. Fits(m, s2, r0, toks)
    BY <1>1, <1>2, <1>3, <1>5 DEF Fits
  <2>2. QED BY <1>2, <1>5, <2>1, StoredCells
<1> HIDE DEF w
<1>7. /\ KvOK(w) /\ w.max_seq = m.max_seq /\ w.cap = m.cap /\ w.ok = m.ok
      /\ w.pos[s2][r0] = n + Len(toks)
      /\ \A i \in 1 .. n : w.cells[s2][r0][i] = m.cells[s2][r0][i]
      /\ \A j \in 1 .. Len(toks) : w.cells[s2][r0][n + j] = toks[j]
      /\ \A st \in Stacks, r \in Rows :
            st # s2 \/ r # r0 => w.pos[st][r] = m.pos[st][r] /\ w.cells[st][r] = m.cells[st][r]
  <2>1. m.pos[s2][r0] = n
    BY <1>1, <1>3, <1>5
  <2>2. QED BY <1>6, <2>1 DEF Appended
<1>8. \A r \in Rows : r # r0 => \A st \in Stacks : w.pos[st][r] = k.pos[st][r] /\ w.cells[st][r] = k.cells[st][r]
  BY <1>5, <1>7
<1>9. ASSUME NEW st \in Stacks
      PROVE  /\ w.pos[st][r0] = n + Len(toks)
             /\ \A i \in 1 .. n : w.cells[st][r0][i] = k.cells[st][r0][i]
             /\ \A j \in 1 .. Len(toks) : w.cells[st][r0][n + j] = toks[j]
  <2>1. CASE st = s1
    BY <1>1, <1>5, <1>7, <2>1, SMTT(30)
  <2>2. CASE st = s2
    BY <1>1, <1>5, <1>7, <2>2
  <2>3. QED BY <1>1, <2>1, <2>2
<1>10. HoldsRow(w, a, g, r0, e)
  <2>1. ASSUME NEW st \in Stacks, NEW i \in 1 .. e PROVE w.cells[st][r0][i] = HistAt(a, g, r0, i)
    <3>1. CASE i <= n
      <4>1. i \in 1 .. n
        BY <3>1
      <4>2. QED BY <1>3, <1>9, <4>1
    <3>2. CASE i > n
      <4>1. i - n \in 1 .. Len(toks) /\ n + (i - n) = i /\ i \in n + 1 .. e
        BY <1>2, <3>2
      <4>2. w.cells[st][r0][n + (i - n)] = toks[i - n] /\ toks[i - n] = HistAt(a, g, r0, i)
        BY <1>9, <4>1 DEF CarriesOn
      <4>3. QED BY <4>1, <4>2
    <3>3. QED BY <3>1, <3>2
  <2>2. QED BY <1>2, <1>9, <2>1 DEF HoldsRow
<1>11. w = Write(k, r0, toks)
  BY <1>0, Zenon DEF Write, w, m
<1>12. Carried(k, w, a, g, r0, e)
  BY <1>5, <1>7, <1>8, <1>10 DEF Carried
<1>13. QED BY <1>11, <1>12

\* Division rounds down and leaves a remainder.
LEMMA Remainder ==
    ASSUME NEW R \in Nat \ {0}, NEW a \in Int
    PROVE  a \div R \in Int /\ a % R \in 0 .. R - 1 /\ a = R * (a \div R) + (a % R)
<1>1. a \div R \in Int
  OBVIOUS
<1>2. a % R \in 0 .. R - 1
  OBVIOUS
<1>3. a = R * (a \div R) + (a % R)
  OBVIOUS
<1>4. QED BY <1>1, <1>2, <1>3

LEMMA WholeBucketsRange == ASSUME NEW n \in Nat PROVE WholeBuckets(n) \in Nat /\ WholeBuckets(n) >= n
<1>1. Bucket \in Nat \ {0}
  BY SonggenTokensAssumption
<1> DEFINE q == (n + Bucket - 1) \div Bucket
           r == (n + Bucket - 1) % Bucket
           x == Bucket * q
<1>2. q \in Int /\ r \in 0 .. Bucket - 1 /\ n + Bucket - 1 = x + r
  <2>1. n + Bucket - 1 \in Int
    BY <1>1
  <2>2. QED BY <1>1, <2>1, Remainder
<1>3. x \in Int /\ q * Bucket = x
  BY <1>1, <1>2
<1>4. WholeBuckets(n) = IF Bucket <= 1 THEN n ELSE x
  BY <1>3 DEF WholeBuckets
<1> HIDE DEF q, r, x
<1>5. QED BY <1>1, <1>2, <1>3, <1>4

\* Growth keeps every row's history.
LEMMA EnsureHolds ==
    ASSUME NEW k, KvOK(k), NEW need \in Nat, NEW a, NEW g, NEW r \in Rows, NEW n \in Nat, HoldsRow(k, a, g, r, n)
    PROVE  HoldsRow(sggen_ensure_kv(k, need), a, g, r, n)
<1> DEFINE big == sggen_ensure_kv(k, need)
<1>1. big.pos = k.pos /\ \A st \in Stacks, x \in Rows : \A i \in 1 .. k.pos[st][x] : big.cells[st][x][i] = k.cells[st][x][i]
  BY EnsureRoom
<1> HIDE DEF big
<1>2. HoldsRow(big, a, g, r, n)
  BY <1>1 DEF HoldsRow
<1>3. QED BY <1>2 DEF big

LEMMA UntouchedRow ==
    ASSUME NEW k, NEW w, NEW a, NEW g, NEW r \in Rows, NEW n \in Nat, HoldsRow(k, a, g, r, n),
           \A st \in Stacks : w.pos[st][r] = k.pos[st][r] /\ w.cells[st][r] = k.cells[st][r]
    PROVE  HoldsRow(w, a, g, r, n)
BY DEF HoldsRow

\* One run on its own: songgen-continue, songgen-clone and the first column.
LEMMA StepRow ==
    ASSUME NEW k, KvOK(k), k.ok, NEW a, NEW g, NEW r0 \in Rows, NEW n \in Nat, HoldsRow(k, a, g, r0, n),
           NEW toks, NEW e \in Nat, CarriesOn(toks, a, g, r0, n, e), e <= k.cap
    PROVE  LET w == sggen_step(k, r0, toks) IN
           /\ KvOK(w) /\ w.ok /\ w.cap = k.cap
           /\ HoldsRow(w, a, g, r0, e)
           /\ \A r \in Rows, m \in Nat : r # r0 /\ HoldsRow(k, a, g, r, m) => HoldsRow(w, a, g, r, m)
<1>1. Len(toks) \in Nat /\ e = n + Len(toks)
  BY DEF CarriesOn
<1> DEFINE big == sggen_ensure_kv(k, e)
           w == Write(big, r0, toks)
<1>2. Max({k.pos[st][r0] : st \in Stacks}) = n
  <2>1. \A st \in Stacks : k.pos[st][r0] = n
    BY DEF HoldsRow
  <2>2. {k.pos[st][r0] : st \in Stacks} = {n, n}
    BY <2>1 DEF Stacks
  <2>3. Max({n, n}) = n
    BY MaxOfTwo
  <2>4. QED BY <2>2, <2>3
<1>3. /\ KvOK(big) /\ big.ok = k.ok /\ big.cap = k.cap /\ e <= big.max_seq
  <2>1. KvOK(big) /\ big.ok = k.ok /\ big.cap = k.cap /\ \A x \in Nat : x <= e /\ x <= k.cap => x <= big.max_seq
    BY EnsureRoom
  <2>2. e <= k.cap
    OBVIOUS
  <2> HIDE DEF big
  <2>3. e <= big.max_seq
    BY <2>1, <2>2
  <2>4. QED BY <2>1, <2>3
<1>4. \A r \in Rows, m \in Nat : HoldsRow(k, a, g, r, m) => HoldsRow(big, a, g, r, m)
  BY <1>1, EnsureHolds
<1>5. k.pos["main"][r0] = n
  BY DEF HoldsRow, Stacks
<1>6. sggen_step(k, r0, toks) = w
  <2>1. ~(~k.ok \/ k.pos["main"][r0] + Len(toks) > big.max_seq)
    <3>1. big.max_seq \in Nat
      BY <1>3 DEF KvOK
    <3> HIDE DEF big
    <3>2. QED BY <1>1, <1>3, <1>5, <3>1
  <2>2. QED BY <1>1, <1>2, <2>1 DEF sggen_step
<1> HIDE DEF big
<1>7. Carried(big, w, a, g, r0, e)
  BY <1>1, <1>3, <1>4, WriteRow
<1> HIDE DEF w
<1>8. ASSUME NEW r \in Rows, NEW m \in Nat, r # r0, HoldsRow(k, a, g, r, m) PROVE HoldsRow(w, a, g, r, m)
  <2>1. HoldsRow(big, a, g, r, m)
    BY <1>4, <1>8
  <2>2. \A st \in Stacks : w.pos[st][r] = big.pos[st][r] /\ w.cells[st][r] = big.cells[st][r]
    BY <1>7, <1>8 DEF Carried
  <2>3. QED BY <2>1, <2>2, UntouchedRow
<1>9. QED BY <1>3, <1>6, <1>7, <1>8 DEF Carried

\* Both runs in one forward: songgen-generate after the first column.
LEMMA StepBatch ==
    ASSUME NEW k, KvOK(k), k.ok, NEW a, NEW g, NEW n \in Nat, \A r \in Rows : HoldsRow(k, a, g, r, n),
           NEW toks, NEW e \in Nat, e = n + 1, e <= k.cap,
           \A r \in Rows : CarriesOn(toks[r], a, g, r, n, e)
    PROVE  LET w == sggen_step_batch(k, toks) IN
           KvOK(w) /\ w.ok /\ w.cap = k.cap /\ \A r \in Rows : HoldsRow(w, a, g, r, e)
<1>0. PICK x \in Rows, y \in Rows : x = 0 /\ y = 1
  BY DEF Rows
<1> DEFINE big == sggen_ensure_kv(k, WholeBuckets(e))
           m == Write(big, x, toks[x])
           w == Write(m, y, toks[y])
<1>1. x # y /\ 0 \in Rows /\ \A r \in Rows : r = x \/ r = y
  BY <1>0 DEF Rows
<1>2. \A st \in Stacks, r \in Rows : k.pos[st][r] = n
  BY DEF HoldsRow
<1>3. k.pos["main"][0] = n
  BY <1>1, <1>2 DEF Stacks
<1>4. KvOK(big) /\ big.ok = k.ok /\ big.cap = k.cap /\ e <= big.max_seq
  <2>1. WholeBuckets(e) \in Nat /\ e <= WholeBuckets(e)
    BY WholeBucketsRange
  <2>2. QED BY <2>1, EnsureRoom
<1>5. \A r \in Rows : HoldsRow(big, a, g, r, n)
  BY EnsureHolds, WholeBucketsRange
<1>6. sggen_step_batch(k, toks) = w
  <2>1. \A st \in Stacks, r \in Rows : k.pos[st][r] = k.pos[st][0] /\ Len(toks[r]) = 1
    <3>1. ASSUME NEW r \in Rows PROVE Len(toks[r]) = 1
      <4>1. toks[r] \in Seq(CellSet) /\ e = n + Len(toks[r])
        BY DEF CarriesOn
      <4>2. PICK L \in Nat : L = Len(toks[r])
        BY <4>1
      <4>3. e = n + L
        BY <4>1, <4>2, Zenon
      <4>4. L = 1
        BY <4>3
      <4>5. QED BY <4>2, <4>4
    <3>2. \A st \in Stacks, r \in Rows : k.pos[st][r] = k.pos[st][0]
      BY <1>1, <1>2
    <3>3. QED BY <3>1, <3>2
  <2>2. ~(n + 1 > big.max_seq)
    <3>1. big.max_seq \in Nat
      BY <1>4 DEF KvOK
    <3> HIDE DEF big
    <3>2. QED BY <1>4, <3>1
  <2>3. QED BY <1>0, <1>3, <2>1, <2>2, Zenon DEF sggen_step_batch
<1> HIDE DEF big
<1>7. /\ KvOK(m) /\ m.max_seq = big.max_seq /\ m.cap = big.cap /\ m.ok = big.ok
      /\ HoldsRow(m, a, g, x, e) /\ HoldsRow(m, a, g, y, n)
  <2>1. CarriesOn(toks[x], a, g, x, n, e)
    OBVIOUS
  <2>2. HoldsRow(big, a, g, x, n) /\ e <= big.max_seq
    BY <1>1, <1>4, <1>5, <2>1
  <2>3. Carried(big, m, a, g, x, e)
    BY <1>1, <1>4, <2>1, <2>2, WriteRow
  <2> HIDE DEF m
  <2>4. HoldsRow(m, a, g, y, n)
    BY <1>1, <1>5, <2>3, UntouchedRow DEF Carried
  <2>5. QED BY <2>3, <2>4 DEF Carried
<1> HIDE DEF m
<1>8. /\ KvOK(w) /\ w.cap = m.cap /\ w.ok = m.ok
      /\ HoldsRow(w, a, g, y, e) /\ HoldsRow(w, a, g, x, e)
  <2>1. CarriesOn(toks[y], a, g, y, n, e)
    OBVIOUS
  <2>2. e <= m.max_seq
    BY <1>4, <1>7, <2>1
  <2>3. Carried(m, w, a, g, y, e)
    BY <1>1, <1>7, <2>1, <2>2, WriteRow
  <2> HIDE DEF w
  <2>5. HoldsRow(w, a, g, x, e)
    BY <1>1, <1>7, <2>3, UntouchedRow DEF Carried
  <2>6. QED BY <2>3, <2>5 DEF Carried
<1>9. QED BY <1>1, <1>4, <1>6, <1>7, <1>8

\* What a forward is fed carries a row's history on by one column.
LEMMA FeedCarriesOn ==
    ASSUME SongOK, RowInv, More, NEW r \in Rows
    PROVE  CarriesOn(Feed(r, offset + 1), song, gen_seq, r, Filled(offset), PrefixLen + offset + 1)
<1> DEFINE c == Column(r, gen_seq, offset)
<1>1. /\ song \in Asks /\ offset \in Nat /\ Layout(song) \in Nat /\ offset \in 0 .. Layout(song) - 1
      /\ gen_seq \in [Books -> [0 .. Layout(song) - 1 -> Int]]
  <2>1. song \in Asks /\ offset \in 0 .. Layout(song) - 1 /\ gen_seq \in [Books -> [0 .. Layout(song) - 1 -> Int]]
    BY DEF SongOK
  <2>2. Layout(song) \in Nat
    BY <2>1, LayoutRange
  <2>3. offset \in Nat
    BY <2>1, <2>2
  <2>4. QED BY <2>1, <2>2, <2>3
<1>2. PrefixLen \in Nat /\ PrefixLen >= 3
  BY PrefixRange
<1>3. c \in CellSet
  <2>1. gen_seq[0][offset] \in Int /\ gen_seq[1][offset] \in Int /\ gen_seq[2][offset] \in Int
    <3>1. 0 \in Books /\ 1 \in Books /\ 2 \in Books
      BY DEF Books
    <3>2. QED BY <1>1, <3>1
  <2>2. PrefixLen + offset + 1 \in Nat /\ "code" \in CellKinds
    BY <1>1, <1>2 DEF CellKinds
  <2>3. QED BY <2>1, <2>2 DEF c, Column, Cell, CellSet, Triples
<1>4. CASE offset = 0
  <2> DEFINE C == Conditioning(song, r)
  <2>1. C \in Seq(CellSet) /\ Len(C) = PrefixLen
    BY <1>1, ConditioningCells
  <2>2. Feed(r, offset + 1) = Append(C, c)
    BY <1>4 DEF Feed
  <2>3. Filled(offset) = 0
    BY <1>4 DEF Filled
  <2> HIDE DEF C, c
  <2>4. /\ Append(C, c) \in Seq(CellSet) /\ Len(Append(C, c)) = PrefixLen + 1
        /\ \A i \in 1 .. PrefixLen : Append(C, c)[i] = C[i]
        /\ Append(C, c)[PrefixLen + 1] = c
    BY <1>3, <2>1, AppendProperties
  <2>5. ASSUME NEW i \in 0 + 1 .. PrefixLen + offset + 1
        PROVE  Append(C, c)[i - 0] = HistAt(song, gen_seq, r, i)
    <3>1. CASE i <= PrefixLen
      <4>1. i - 0 = i /\ i \in 1 .. PrefixLen
        BY <1>2, <3>1
      <4>2. HistAt(song, gen_seq, r, i) = C[i]
        BY <3>1 DEF HistAt, C
      <4>3. QED BY <2>4, <4>1, <4>2
    <3>2. CASE i > PrefixLen
      <4>1. i = PrefixLen + 1 /\ i - 0 = i /\ i - PrefixLen - 1 = offset /\ ~(i <= PrefixLen)
        BY <1>2, <1>4, <3>2
      <4>2. HistAt(song, gen_seq, r, i) = c
        BY <4>1 DEF HistAt, c
      <4>3. QED BY <2>4, <4>1, <4>2
    <3>3. i <= PrefixLen \/ i > PrefixLen
      BY <1>2
    <3>4. QED BY <3>1, <3>2, <3>3, Zenon
  <2>6. PrefixLen + offset + 1 = 0 + Len(Append(C, c))
    BY <1>2, <1>4, <2>4
  <2>7. CarriesOn(Append(C, c), song, gen_seq, r, 0, PrefixLen + offset + 1)
    BY <2>4, <2>5, <2>6 DEF CarriesOn
  <2>8. QED BY <2>2, <2>3, <2>7
<1>5. CASE offset # 0
  <2>1. Feed(r, offset + 1) = <<c>>
    <3>1. offset + 1 # 1 /\ (offset + 1) - 1 = offset
      BY <1>1, <1>5
    <3>2. QED BY <3>1 DEF Feed
  <2>2. Filled(offset) = PrefixLen + offset
    BY <1>5 DEF Filled
  <2> HIDE DEF c
  <2>3. <<c>> \in Seq(CellSet) /\ Len(<<c>>) = 1 /\ <<c>>[1] = c
    BY <1>3
  <2>4. ASSUME NEW i \in (PrefixLen + offset) + 1 .. PrefixLen + offset + 1
        PROVE  <<c>>[i - (PrefixLen + offset)] = HistAt(song, gen_seq, r, i)
    <3>1. i = PrefixLen + offset + 1 /\ ~(i <= PrefixLen) /\ i - PrefixLen - 1 = offset /\ i - (PrefixLen + offset) = 1
      BY <1>1, <1>2
    <3>2. HistAt(song, gen_seq, r, i) = c
      BY <3>1 DEF HistAt, c
    <3>3. QED BY <2>3, <3>1, <3>2
  <2>5. PrefixLen + offset + 1 = (PrefixLen + offset) + Len(<<c>>)
    BY <1>1, <1>2, <2>3
  <2>6. CarriesOn(<<c>>, song, gen_seq, r, PrefixLen + offset, PrefixLen + offset + 1)
    BY <2>3, <2>4, <2>5 DEF CarriesOn
  <2>7. QED BY <2>1, <2>2, <2>6
<1>6. QED BY <1>4, <1>5

\* Whichever forward runs, both rows then hold the columns generated so far.
LEMMA ForwardHolds ==
    ASSUME SongOK, RowInv, More, KvInv
    PROVE  LET k == Forward(offset + 1) IN
           /\ KvOK(k) /\ k.ok /\ k.cap = kv.cap
           /\ \A r \in Rows : HoldsRow(k, song, gen_seq, r, PrefixLen + offset + 1)
<1>0. PICK x \in Rows, y \in Rows : x = 0 /\ y = 1
  BY DEF Rows
<1>1. x # y /\ \A r \in Rows : r = x \/ r = y
  BY <1>0 DEF Rows
<1>2. song \in Asks /\ offset \in Nat /\ Layout(song) \in Nat /\ offset + 1 < Layout(song)
  BY LayoutRange DEF SongOK, More
<1>3. PICK n \in Nat, e \in Nat : n = Filled(offset) /\ e = PrefixLen + offset + 1
  BY <1>2, PrefixRange DEF Filled
<1>4. KvOK(kv) /\ kv.ok /\ e <= kv.cap /\ \A r \in Rows : HoldsRow(kv, song, gen_seq, r, n)
  <2>1. PrefixLen + offset + 1 <= PrefixLen + Layout(song) + 4
    BY <1>2, PrefixRange
  <2>2. QED BY <1>3, <2>1 DEF KvInv
<1>5. PICK p : p = offset + 1
  OBVIOUS
<1>6. \A r \in Rows : CarriesOn(Feed(r, p), song, gen_seq, r, n, e)
  BY <1>3, <1>5, FeedCarriesOn
<1>7. CASE p = 1 \/ song.no_batch
  <2> DEFINE m == sggen_step(kv, x, Feed(x, p))
             w == sggen_step(m, y, Feed(y, p))
  <2>1. /\ KvOK(m) /\ m.ok /\ m.cap = kv.cap /\ HoldsRow(m, song, gen_seq, x, e)
        /\ HoldsRow(m, song, gen_seq, y, n)
    BY <1>1, <1>4, <1>6, StepRow
  <2> HIDE DEF m
  <2>2. /\ KvOK(w) /\ w.ok /\ w.cap = m.cap /\ HoldsRow(w, song, gen_seq, y, e)
        /\ HoldsRow(w, song, gen_seq, x, e)
    BY <1>1, <1>4, <1>6, <2>1, StepRow
  <2> HIDE DEF w
  <2>3. Forward(p) = w
    BY <1>0, <1>7, Zenon DEF Forward, w, m
  <2>4. QED BY <1>1, <1>3, <1>5, <2>1, <2>2, <2>3
<1>8. CASE ~(p = 1 \/ song.no_batch)
  <2> DEFINE toks == [r \in Rows |-> Feed(r, p)]
  <2>1. \A r \in Rows : toks[r] = Feed(r, p)
    OBVIOUS
  <2>2. Forward(p) = sggen_step_batch(kv, toks)
    BY <1>8 DEF Forward
  <2> HIDE DEF toks
  <2>3. \A r \in Rows : CarriesOn(toks[r], song, gen_seq, r, n, e)
    BY <1>6, <2>1
  <2>4. e = n + 1
    BY <1>2, <1>3, <1>5, <1>8, PrefixRange DEF Filled
  <2> DEFINE w == sggen_step_batch(kv, toks)
  <2>5. KvOK(w) /\ w.ok /\ w.cap = kv.cap /\ \A r \in Rows : HoldsRow(w, song, gen_seq, r, e)
    BY <1>4, <2>3, <2>4, StepBatch
  <2> HIDE DEF w
  <2>6. Forward(p) = w
    BY <2>2 DEF w
  <2>7. QED BY <1>3, <1>5, <2>5, <2>6
<1>9. QED BY <1>7, <1>8

-----------------------------------------------------------------------------
HistoryOf(a, g, r, n) ==
    IF n = 0 THEN <<>> ELSE Conditioning(a, r) \o [p \in 1 .. n |-> Column(r, g, p - 1)]

OwnHistory(ctx, a, g, n) ==
    \A st \in Stacks, r \in Rows :
        /\ ctx[st][r] = HistoryOf(a, g, r, n)
        /\ \A i \in DOMAIN ctx[st][r] : \A q \in 1 .. 3 : ctx[st][r][i].ids[q] # Unknown

\* The first n columns are all drawn or padding.
Drawn(g, n) == \A q \in Books, x \in 0 .. n - 1 : g[q][x] \in Nat

LEMMA DrawnColumn ==
    ASSUME NEW g, NEW n \in Nat, Drawn(g, n), NEW r \in Rows, NEW p \in 1 .. n
    PROVE  Column(r, g, p - 1) \in CellSet /\ \E x, y, z \in Nat : Column(r, g, p - 1).ids = <<x, y, z>>
<1> DEFINE c == p - 1
<1>1. c \in 0 .. n - 1 /\ c \in Nat
  OBVIOUS
<1> HIDE DEF c
<1>2. g[0][c] \in Nat /\ g[1][c] \in Nat /\ g[2][c] \in Nat
  <2>1. 0 \in Books /\ 1 \in Books /\ 2 \in Books
    BY DEF Books
  <2>2. QED BY <1>1, <2>1 DEF Drawn
<1>3. PICK x \in Nat, y \in Nat, z \in Nat : x = g[0][c] /\ y = g[1][c] /\ z = g[2][c]
  BY <1>2
<1>4. Column(r, g, c) = Cell("code", r, PrefixLen + c + 1, <<x, y, z>>)
  BY <1>3 DEF Column
<1>5. PrefixLen + c + 1 \in Nat /\ "code" \in CellKinds
  BY <1>1, PrefixRange DEF CellKinds
<1>6. Column(r, g, c) \in CellSet /\ Column(r, g, c).ids = <<x, y, z>>
  BY <1>4, <1>5 DEF Cell, CellSet, Triples
<1>7. QED BY <1>6 DEF c

LEMMA HistorySeq ==
    ASSUME NEW a \in Asks, NEW g, NEW n \in Nat, n > 0, Drawn(g, n), NEW r \in Rows
    PROVE  /\ HistoryOf(a, g, r, n) \in Seq(CellSet) /\ Len(HistoryOf(a, g, r, n)) = PrefixLen + n
           /\ \A i \in 1 .. PrefixLen + n :
                 /\ HistoryOf(a, g, r, n)[i] = HistAt(a, g, r, i)
                 /\ \A q \in 1 .. 3 : HistAt(a, g, r, i).ids[q] # Unknown
<1> DEFINE C == Conditioning(a, r)
           D == [p \in 1 .. n |-> Column(r, g, p - 1)]
<1>1. /\ C \in Seq(CellSet) /\ Len(C) = PrefixLen
      /\ \A i \in 1 .. PrefixLen : \E x, y, z \in Nat : C[i].ids = <<x, y, z>>
  BY ConditioningCells
<1>2. D \in Seq(CellSet) /\ Len(D) = n
  BY DrawnColumn
<1>3. HistoryOf(a, g, r, n) = C \o D
  BY DEF HistoryOf
<1>4. \A p \in 1 .. n : D[p] = Column(r, g, p - 1)
  OBVIOUS
<1>5. PrefixLen \in Nat
  BY PrefixRange
<1> HIDE DEF D
<1>6. /\ C \o D \in Seq(CellSet) /\ Len(C \o D) = PrefixLen + n
      /\ \A i \in 1 .. PrefixLen + n : (C \o D)[i] = IF i <= PrefixLen THEN C[i] ELSE D[i - PrefixLen]
  BY <1>1, <1>2, ConcatProperties
<1>7. ASSUME NEW x \in Nat, NEW y \in Nat, NEW z \in Nat, NEW q \in 1 .. 3 PROVE <<x, y, z>>[q] # Unknown
  <2>1. q = 1 \/ q = 2 \/ q = 3
    OBVIOUS
  <2>2. <<x, y, z>>[q] \in Nat
    BY <2>1
  <2>3. QED BY <2>2 DEF Unknown
<1>8. ASSUME NEW i \in 1 .. PrefixLen + n
      PROVE  (C \o D)[i] = HistAt(a, g, r, i) /\ \E x, y, z \in Nat : HistAt(a, g, r, i).ids = <<x, y, z>>
  <2>1. CASE i <= PrefixLen
    <3>1. i \in 1 .. PrefixLen /\ HistAt(a, g, r, i) = C[i]
      BY <1>5, <2>1 DEF HistAt, C
    <3>2. QED BY <1>1, <1>6, <2>1, <3>1
  <2>2. CASE ~(i <= PrefixLen)
    <3>1. i - PrefixLen \in 1 .. n
      BY <1>5, <2>2
    <3>2. (C \o D)[i] = D[i - PrefixLen]
      BY <1>6, <2>2
    <3>3. PICK p \in 1 .. n : p = i - PrefixLen
      BY <3>1
    <3>4. HistAt(a, g, r, i) = Column(r, g, p - 1)
      BY <2>2, <3>3 DEF HistAt
    <3>5. D[p] = Column(r, g, p - 1) /\ \E x, y, z \in Nat : Column(r, g, p - 1).ids = <<x, y, z>>
      BY <1>4, DrawnColumn
    <3>6. QED BY <3>2, <3>3, <3>4, <3>5
  <2>3. QED BY <2>1, <2>2
<1>9. QED BY <1>3, <1>6, <1>7, <1>8

\* The attention window of a run is what its row holds.
LEMMA AttendedHistory ==
    ASSUME NEW a \in Asks, NEW g, NEW n \in Nat, n > 0, Drawn(g, n), NEW k, KvOK(k),
           \A r \in Rows : HoldsRow(k, a, g, r, PrefixLen + n)
    PROVE  OwnHistory(Attended(k), a, g, n)
<1>1. ASSUME NEW st \in Stacks, NEW r \in Rows
      PROVE  /\ Attended(k)[st][r] = HistoryOf(a, g, r, n)
             /\ \A i \in DOMAIN Attended(k)[st][r] : \A q \in 1 .. 3 : Attended(k)[st][r][i].ids[q] # Unknown
  <2> DEFINE s == k.cells[st][r]
             m == PrefixLen + n
             H == HistoryOf(a, g, r, n)
  <2>1. m \in Nat /\ 1 <= m
    BY PrefixRange
  <2>2. /\ H \in Seq(CellSet) /\ Len(H) = m
        /\ \A i \in 1 .. m : H[i] = HistAt(a, g, r, i) /\ \A q \in 1 .. 3 : HistAt(a, g, r, i).ids[q] # Unknown
    BY HistorySeq
  <2>3. k.pos[st][r] = m /\ \A i \in 1 .. m : s[i] = HistAt(a, g, r, i)
    BY DEF HoldsRow
  <2>4. Attended(k)[st][r] = SubSeq(s, 1, m)
    BY <2>3 DEF Attended
  <2> HIDE DEF s, m, H
  <2>5. \A i \in 1 .. m : s[i] = H[i] /\ s[i] \in CellSet
    BY <2>2, <2>3
  <2>6. /\ SubSeq(s, 1, m) \in Seq(CellSet) /\ Len(SubSeq(s, 1, m)) = m
        /\ \A i \in 1 .. m : SubSeq(s, 1, m)[i] = s[i]
    <3>1. 1 \in Int /\ m \in Int /\ \A i \in 1 .. m : s[i] \in CellSet
      BY <2>1, <2>5
    <3>2. /\ SubSeq(s, 1, m) \in Seq(CellSet) /\ Len(SubSeq(s, 1, m)) = IF 1 <= m THEN m - 1 + 1 ELSE 0
          /\ \A i \in 1 .. m - 1 + 1 : SubSeq(s, 1, m)[i] = s[1 + i - 1]
      BY <3>1, SubSeqProperties
    <3>3. m - 1 + 1 = m /\ \A i \in 1 .. m : 1 + i - 1 = i
      BY <2>1
    <3>4. QED BY <2>1, <3>2, <3>3
  <2>7. SubSeq(s, 1, m) = H
    BY <2>2, <2>5, <2>6, SeqEqual
  <2>8. \A i \in DOMAIN H : \A q \in 1 .. 3 : H[i].ids[q] # Unknown
    <3>1. DOMAIN H = 1 .. m
      BY <2>2
    <3>2. QED BY <2>2, <3>1
  <2>9. QED BY <2>4, <2>7, <2>8 DEF H
<1>2. QED BY <1>1 DEF OwnHistory

\* Columns already drawn are the same in both sequences, so is the history.
LEMMA SameHistory ==
    ASSUME NEW a, NEW g, NEW h, NEW n \in Nat, \A q \in Books, x \in 0 .. n - 1 : g[q][x] = h[q][x],
           NEW k, NEW r \in Rows, NEW e \in Nat, e <= PrefixLen + n, HoldsRow(k, a, g, r, e)
    PROVE  HoldsRow(k, a, h, r, e)
<1>1. ASSUME NEW i \in 1 .. e PROVE HistAt(a, g, r, i) = HistAt(a, h, r, i)
  <2>1. CASE i <= PrefixLen
    BY <2>1 DEF HistAt
  <2>2. CASE ~(i <= PrefixLen)
    <3> DEFINE c == i - PrefixLen - 1
    <3>1. c \in 0 .. n - 1
      BY <2>2, PrefixRange
    <3> HIDE DEF c
    <3>2. g[0][c] = h[0][c] /\ g[1][c] = h[1][c] /\ g[2][c] = h[2][c]
      BY <3>1 DEF Books
    <3>3. Column(r, g, c) = Column(r, h, c)
      BY <3>2 DEF Column
    <3>4. QED BY <2>2, <3>3 DEF HistAt, c
  <2>3. QED BY <2>1, <2>2
<1>2. QED BY <1>1 DEF HoldsRow

LEMMA ContextIs == ContextIsOwnHistory <=> codes.end # "fatal" /\ OwnHistory(context, song, gen_seq, offset)
BY DEF ContextIsOwnHistory, OwnHistory, HistoryOf

LEMMA AllocatedKv ==
    ASSUME NEW n \in Nat, NEW c \in Nat, 1 <= n, n <= c, NEW k,
           k = [max_seq |-> n, cap |-> c, ok |-> TRUE,
                pos |-> [st \in Stacks |-> [r \in Rows |-> 0]], cells |-> sggen_build_kv_tensors(n)]
    PROVE  KvOK(k) /\ k.ok /\ k.cap = c /\ \A st \in Stacks, r \in Rows : k.pos[st][r] = 0
<1> DEFINE cells == sggen_build_kv_tensors(n)
<1>1. Zero \in CellSet
  <2>1. "zero" \in CellKinds /\ 0 \in Rows
    BY DEF CellKinds, Rows
  <2>2. QED BY <2>1 DEF Zero, NoIds, Cell, CellSet, Triples
<1>2. \A st \in Stacks, r \in Rows : cells[st][r] = [i \in 1 .. n |-> Zero]
  BY DEF sggen_build_kv_tensors
<1>3. [i \in 1 .. n |-> Zero] \in Seq(CellSet) /\ Len([i \in 1 .. n |-> Zero]) = n
  BY <1>1
<1>4. cells \in [Stacks -> [Rows -> Seq(CellSet)]]
  BY <1>3 DEF sggen_build_kv_tensors
<1> HIDE DEF cells
<1>5. /\ k \in [max_seq : Nat, cap : Nat, ok : BOOLEAN,
              pos : [Stacks -> [Rows -> Nat]], cells : [Stacks -> [Rows -> Seq(CellSet)]]]
      /\ k.max_seq = n /\ k.cap = c /\ k.ok = TRUE /\ k.cells = cells
      /\ \A st \in Stacks, r \in Rows : k.pos[st][r] = 0
  <2>1. k = [max_seq |-> n, cap |-> c, ok |-> TRUE,
                pos |-> [st \in Stacks |-> [r \in Rows |-> 0]], cells |-> cells]
    BY DEF cells
  <2>2. QED BY <1>4, <2>1
<1>6. \A st \in Stacks, r \in Rows : Len(k.cells[st][r]) = k.max_seq /\ k.pos[st][r] <= k.max_seq
  BY <1>2, <1>3, <1>5
<1>7. QED BY <1>5, <1>6 DEF KvOK

LEMMA ContextStarts == TokInit => ContextInv
<1>1. SUFFICES ASSUME TokInit PROVE ContextInv
  OBVIOUS
<1>2. SongOK /\ RowInv /\ song \in Asks /\ offset = 0 /\ codes.end = "running" /\ context = Attended(kv)
  BY <1>1, TokStarts DEF FrameInv, TokInit
<1> DEFINE c == PrefixLen + Layout(song) + 4
<1>3. c \in Nat /\ 1 <= c
  BY <1>2, LayoutRange, PrefixRange
<1>4. PICK n \in Nat : /\ 1 <= n /\ n <= c
                       /\ kv = [max_seq |-> n, cap |-> c, ok |-> TRUE,
                                pos |-> [st \in Stacks |-> [r \in Rows |-> 0]], cells |-> sggen_build_kv_tensors(n)]
  <2>1. PICK i \in Nat : kv = sggen_alloc_kv_dyn(i, c)
    <3>1. kv = IF song.tool = "generate" THEN GenerateKv(song) ELSE sggen_alloc_kv(song)
      BY <1>1 DEF TokInit
    <3>2. PrefixLen + MaxDelay + 1 + 4 \in Nat
      BY <1>2, LayoutRange, PrefixRange
    <3>3. CASE song.tool = "generate"
      <4> DEFINE j == IF song.static THEN c ELSE PrefixLen + MaxDelay + 1 + 4
      <4>1. j \in Nat
        BY <1>3, <3>2
      <4>2. kv = sggen_alloc_kv_dyn(j, c)
        BY <3>1, <3>3, Zenon DEF GenerateKv, j, c
      <4> HIDE DEF j
      <4>3. QED BY <4>1, <4>2
    <3>4. CASE song.tool # "generate"
      <4>1. kv = sggen_alloc_kv_dyn(c, c)
        BY <3>1, <3>4, Zenon DEF sggen_alloc_kv, c
      <4>2. QED BY <1>3, <4>1
    <3>5. QED BY <3>3, <3>4
  <2> DEFINE n == Max({1, Min({i, c})})
  <2>2. n \in Nat /\ 1 <= n /\ n <= c
    <3>1. Min({i, c}) = IF i <= c THEN i ELSE c
      BY <1>3, MinOfTwo
    <3>2. PICK m \in Nat : m = Min({i, c}) /\ m <= c
      BY <1>3, <3>1
    <3>3. n = IF 1 >= m THEN 1 ELSE m
      BY <3>2, MaxOfTwo
    <3> HIDE DEF n
    <3>4. QED BY <1>3, <3>2, <3>3
  <2>3. kv = [max_seq |-> n, cap |-> c, ok |-> TRUE,
                pos |-> [st \in Stacks |-> [r \in Rows |-> 0]], cells |-> sggen_build_kv_tensors(n)]
    BY <2>1 DEF sggen_alloc_kv_dyn
  <2> HIDE DEF n
  <2>4. QED BY <2>2, <2>3
<1> HIDE DEF c
<1>5. KvOK(kv) /\ kv.ok /\ kv.cap = c /\ \A st \in Stacks, r \in Rows : kv.pos[st][r] = 0
  BY <1>3, <1>4, AllocatedKv
<1>6. KvInv
  <2>1. Filled(offset) = 0
    BY <1>2 DEF Filled
  <2>2. \A r \in Rows : HoldsRow(kv, song, gen_seq, r, 0)
    BY <1>5 DEF HoldsRow
  <2>3. QED BY <1>5, <2>1, <2>2 DEF KvInv, c
<1>7. OwnHistory(context, song, gen_seq, offset)
  <2>1. ASSUME NEW st \in Stacks, NEW r \in Rows PROVE context[st][r] = <<>>
    <3>1. context[st][r] = SubSeq(kv.cells[st][r], 1, 0)
      BY <1>2, <1>5 DEF Attended
    <3>2. QED BY <3>1, SubSeqEmpty
  <2>2. \A st \in Stacks, r \in Rows : HistoryOf(song, gen_seq, r, offset) = <<>>
    BY <1>2 DEF HistoryOf
  <2>3. QED BY <2>1, <2>2 DEF OwnHistory
<1>8. QED BY <1>2, <1>6, <1>7, ContextIs DEF ContextInv

LEMMA ContextAdvance ==
    ASSUME ContextInv, NEW heeds \in BOOLEAN, heeds \/ song.no_eos, Advance(heeds)
    PROVE  KvInv' /\ ContextIsOwnHistory'
<1>1. SongOK /\ RowInv /\ KvInv /\ More /\ song' = song /\ kv' = Forward(offset + 1)
  BY DEF ContextInv, Advance
<1>2. PICK p : p = offset + 1
  OBVIOUS
<1>3. /\ KvOK(kv') /\ kv'.ok /\ kv'.cap = kv.cap
      /\ \A r \in Rows : HoldsRow(kv', song, gen_seq, r, PrefixLen + offset + 1)
  BY <1>1, ForwardHolds
<1>4. /\ context' = Attended(kv') /\ offset' = offset + 1 /\ Sample(offset + 1, heeds) /\ codes' = codes
  BY <1>1, <1>3 DEF Advance
<1>5. /\ RowInv' /\ offset' \in 0 .. Layout(song) - 1
      /\ \A q \in Books : \A x \in 0 .. Layout(song) - 1 : x # offset + 1 => gen_seq'[q][x] = gen_seq[q][x]
  BY <1>1, <1>4, SampleInv
<1>6. song \in Asks /\ offset \in Nat /\ Layout(song) \in Nat /\ offset + 1 < Layout(song) /\ CodeSize \in Nat
  BY <1>1, LayoutRange DEF SongOK, More
<1>7. PICK n \in Nat : n = offset + 1
  BY <1>6
<1>8. \A q \in Books, x \in 0 .. n - 1 : gen_seq[q][x] = gen_seq'[q][x]
  <2>1. \A x \in 0 .. n - 1 : x \in 0 .. Layout(song) - 1 /\ x # offset + 1
    BY <1>6, <1>7
  <2>2. QED BY <1>5, <2>1
<1>9. Drawn(gen_seq', n)
  <2>1. ASSUME NEW q \in Books, NEW x \in 0 .. n - 1 PROVE gen_seq'[q][x] \in Nat
    <3>1. gen_seq'[q][x] = gen_seq[q][x]
      BY <1>8
    <3>2. CASE x = 0
      BY <1>1, <1>6, <3>1, <3>2 DEF RowInv, SP
    <3>3. CASE x # 0
      <4>1. x \in 1 .. Layout(song) - 1 /\ x <= offset /\ x \in Nat
        BY <1>6, <1>7, <3>3
      <4>2. gen_seq[q][x] \in {x, EOS, SP}
        BY <1>1, <4>1 DEF RowInv
      <4>3. EOS \in Nat /\ SP \in Nat
        BY <1>6 DEF EOS, SP
      <4>4. QED BY <3>1, <4>1, <4>2, <4>3
    <3>4. QED BY <3>2, <3>3
  <2>2. QED BY <2>1 DEF Drawn
<1>10. PICK e \in Nat : e = PrefixLen + n
  BY PrefixRange
<1>11. \A r \in Rows : HoldsRow(kv', song, gen_seq', r, e)
  <2>1. PrefixLen + offset + 1 = e /\ e <= PrefixLen + n
    BY <1>6, <1>7, <1>10, PrefixRange
  <2>2. \A r \in Rows : HoldsRow(kv', song, gen_seq, r, e)
    BY <1>3, <2>1
  <2>3. QED BY <1>8, <2>1, <2>2, SameHistory
<1>12. OwnHistory(Attended(kv'), song, gen_seq', n)
  <2>1. n > 0
    BY <1>6, <1>7
  <2>2. \A r \in Rows : HoldsRow(kv', song, gen_seq', r, PrefixLen + n)
    BY <1>10, <1>11
  <2>3. QED BY <1>3, <1>6, <1>9, <2>1, <2>2, AttendedHistory
<1>13. KvInv'
  <2>1. Filled(offset') = e
    <3>1. offset' = n /\ n # 0
      BY <1>4, <1>6, <1>7
    <3>2. QED BY <1>10, <3>1 DEF Filled
  <2>2. kv'.cap = PrefixLen + Layout(song) + 4
    BY <1>1, <1>3 DEF KvInv
  <2>3. Layout(song)' = Layout(song)
    BY <1>1
  <2>4. QED BY <1>1, <1>3, <1>11, <2>1, <2>2, <2>3 DEF KvInv
<1>14. codes.end = "running"
  BY <1>1 DEF More
<1>15. codes'.end # "fatal" /\ OwnHistory(context', song', gen_seq', offset')
  BY <1>1, <1>4, <1>7, <1>12, <1>14
<1>16. QED BY <1>13, <1>15 DEF ContextIsOwnHistory, OwnHistory, HistoryOf

LEMMA ContextStep == ASSUME FrameInv, ContextInv, [TokNext]_tokVars PROVE ContextInv'
<1>1. song \in Asks /\ song.no_eos \in BOOLEAN
  BY AsksAssumption DEF FrameInv, SongOK, Ask
<1>2. SongOK' /\ RowInv'
  BY FrameStep DEF FrameInv
<1>3. CASE GenerateColumn
  BY <1>1, <1>2, <1>3, ContextAdvance DEF GenerateColumn, ContextInv
<1>4. CASE ContinueColumn
  BY <1>2, <1>4, ContextAdvance DEF ContinueColumn, ContextInv
<1>5. CASE CloneColumn
  BY <1>2, <1>5, ContextAdvance DEF CloneColumn, ContextInv
<1>6. CASE GenerateFrames \/ ContinueFrames \/ CloneFrames
  <2>1. UNCHANGED <<song, kv, gen_seq, offset, context>> /\ codes'.end \in {"no frames", "decode"}
    <3>1. Revert
      BY <1>6 DEF GenerateFrames, ContinueFrames, CloneFrames
    <3>2. codes'.end = IF Tv = 0 THEN "no frames" ELSE "decode"
      BY <3>1 DEF Revert
    <3>3. UNCHANGED <<song, kv, gen_seq, offset, context>>
      BY <3>1 DEF Revert
    <3>4. QED BY <3>2, <3>3
  <2>2. KvInv'
    BY <2>1 DEF ContextInv, KvInv, Layout, MaxGenLen
  <2>3. ContextIsOwnHistory'
    BY <2>1 DEF ContextInv, ContextIsOwnHistory
  <2>4. QED BY <1>2, <2>2, <2>3 DEF ContextInv
<1>7. CASE UNCHANGED tokVars
  <2>1. UNCHANGED <<song, kv, gen_seq, offset, context, codes>>
    BY <1>7 DEF tokVars
  <2>2. KvInv'
    BY <2>1 DEF ContextInv, KvInv, Layout, MaxGenLen
  <2>3. ContextIsOwnHistory'
    BY <2>1 DEF ContextInv, ContextIsOwnHistory
  <2>4. QED BY <1>2, <2>2, <2>3 DEF ContextInv
<1>8. QED BY <1>3, <1>4, <1>5, <1>6, <1>7 DEF TokNext

\* Whatever the buffer's first size, its buckets and its growth blocks, the two
\* runs of both stacks attend to their own conditioning and their own columns,
\* and no forward is refused for want of room: sggen_grow_kv loses no cell, and
\* the ceiling each program computes is high enough.
THEOREM RunsSeeTheirOwnHistory == TokSpec => []ContextIsOwnHistory
<1>1. FrameInv /\ ContextInv /\ [TokNext]_tokVars => FrameInv' /\ ContextInv'
  BY FrameStep, ContextStep
<1>2. TokInit => FrameInv /\ ContextInv
  BY TokStarts, ContextStarts
<1>3. ContextInv => ContextIsOwnHistory
  BY DEF ContextInv
<1>4. QED BY <1>1, <1>2, <1>3, PTL DEF TokSpec

-----------------------------------------------------------------------------
(***************************************************************************)
(* SonggenWindows: where every frame of the sound comes from.              *)
(***************************************************************************)

LEMMA Quotient ==
    ASSUME NEW R \in Nat \ {0}, NEW q \in Int, NEW r \in 0 .. R - 1
    PROVE  (R * q + r) \div R = q /\ (R * q + r) % R = r
<1> DEFINE a == R * q + r
<1>1. a \in Int
  OBVIOUS
<1>2. PICK p \in Int, s \in 0 .. R - 1 : p = a \div R /\ s = a % R /\ a = R * p + s
  <2> HIDE DEF a
  <2>1. QED BY <1>1, Remainder
<1> HIDE DEF a
<1>3. a = R * q + r
  BY DEF a
<1>4. PICK d \in Int : d = q - p
  OBVIOUS
<1>5. R * d = s - r
  BY <1>2, <1>3, <1>4
<1>6. d <= 0 \/ d >= 1
  OBVIOUS
<1>7. d >= 0 \/ d <= -1
  OBVIOUS
<1>8. d < 1
  BY <1>5, <1>6
<1>9. d > -1
  BY <1>5, <1>7
<1>10. d = 0
  BY <1>8, <1>9
<1>11. q = p /\ r = s
  BY <1>4, <1>5, <1>10
<1>12. QED BY <1>2, <1>11 DEF a

-----------------------------------------------------------------------------
(* Prompts. *)

\* The quotient of a smaller number is no larger.
LEMMA QuotientMonotone ==
    ASSUME NEW R \in Nat \ {0}, NEW a \in Nat, NEW b \in Nat, a <= b
    PROVE  a \div R \in Nat /\ b \div R \in Nat /\ a \div R <= b \div R /\ R * (a \div R) <= a
<1>1. PICK p \in Int, r \in 0 .. R - 1 : p = a \div R /\ a = R * p + r
  BY Remainder
<1>2. PICK q \in Int, s \in 0 .. R - 1 : q = b \div R /\ b = R * q + s
  BY Remainder
<1>3. R * (q - p) = (b - a) + r - s
  BY <1>1, <1>2
<1>4. q - p <= -1 \/ q - p >= 0
  OBVIOUS
<1>5. q - p <= -1 => R * (q - p) <= -R
  OBVIOUS
<1>6. q >= p
  BY <1>3, <1>4, <1>5
<1>7. p <= -1 \/ p >= 0
  OBVIOUS
<1>8. p <= -1 => R * p <= -R
  OBVIOUS
<1>9. p >= 0
  BY <1>1, <1>7, <1>8
<1>10. QED BY <1>1, <1>2, <1>6, <1>9

LEMMA FrameFacts ==
    /\ Up \in Nat \ {0} /\ Frame24 \in Nat \ {0} /\ Up = 2 * Frame24 /\ MinSeg \in Nat \ {0}
    /\ ClipFrom \in Nat /\ ClipLen \in Nat /\ ClipNeed \in Nat /\ ClipNeed >= ClipFrom + ClipLen
<1>1. Up \in Nat \ {0} /\ Up % 4 = 0 /\ MinSeg \in Nat \ {0}
  BY SonggenWindowsAssumption
<1>2. PICK u \in Int : Up = 4 * u
  BY <1>1, Remainder
<1>3. Up \div 2 = 2 * u
  BY <1>1, <1>2
<1>4. QED BY <1>1, <1>2, <1>3, SonggenWindowsAssumption DEF Frame24

\* Halving the samples and the frame alike keeps the number of frames.
LEMMA HalvedFrames ==
    ASSUME NEW n \in Nat
    PROVE  Mono24(n) \in Nat /\ Mono24(n) \div Frame24 = n \div Up /\ n \div Up \in Nat
<1>1. PICK f \in Nat \ {0} : f = Frame24 /\ Up = 2 * f
  BY FrameFacts
<1>2. PICK h \in Nat, x \in 0 .. 1 : h = Mono24(n) /\ n = 2 * h + x
  <2>1. Mono24(n) = n \div 2
    BY DEF Mono24
  <2>2. QED BY <2>1
<1>3. PICK q \in Int, r \in 0 .. f - 1 : q = h \div f /\ h = f * q + r
  BY Remainder
<1>4. n = Up * q + (2 * r + x) /\ 2 * r + x \in 0 .. Up - 1
  <2>1. 2 * (f * q) = (2 * f) * q
    OBVIOUS
  <2>2. QED BY <1>1, <1>2, <1>3, <2>1
<1>5. n \div Up = q
  <2>1. Up \in Nat \ {0}
    BY FrameFacts
  <2>2. PICK y \in 0 .. Up - 1 : y = 2 * r + x
    BY <1>4
  <2>3. (Up * q + y) \div Up = q
    BY <2>1, Quotient
  <2>4. QED BY <1>4, <2>2, <2>3
<1>6. q \in Nat
  BY <1>3, QuotientMonotone
<1>7. QED BY <1>1, <1>2, <1>3, <1>5, <1>6

\* Enough segments are encoded for the frames that are kept.
LEMMA EnoughSegments ==
    ASSUME NEW n \in Nat
    PROVE  Ceil(n, MinSeg) \in Int /\ Ceil(n, MinSeg) * MinSeg >= n
<1>1. PICK m \in Nat \ {0} : m = MinSeg
  BY FrameFacts
<1>2. n + m - 1 \in Int
  OBVIOUS
<1>3. PICK q \in Int, r \in 0 .. m - 1 : q = (n + m - 1) \div m /\ n + m - 1 = m * q + r
  BY <1>2, Remainder
<1>4. m * q = q * m /\ q * m >= n
  BY <1>3
<1>5. QED BY <1>1, <1>3, <1>4 DEF Ceil

LEMMA StreamOf ==
    ASSUME NEW orig \in Nat
    PROVE  LET s == sgclone_encode_stream(orig) IN
           /\ s = [i \in 1 .. orig \div Frame24 + 1 |-> ((i - 1) * Frame24) % orig]
           /\ orig \div Frame24 \in Nat
           /\ \A i \in 1 .. orig \div Frame24 : s[i] = (i - 1) * Frame24
<1>1. PICK f \in Nat \ {0} : f = Frame24
  BY FrameFacts
<1>2. PICK n \in Nat : n = orig \div f /\ f * n <= orig
  BY QuotientMonotone
<1>3. PICK c \in Int : c = Ceil(n + 1, MinSeg) /\ c * MinSeg >= n + 1
  BY EnoughSegments
<1>4. sgclone_encode_stream(orig) = [i \in 1 .. n + 1 |-> ((i - 1) * f) % orig]
  <2>1. Min2(c + 1, c) = c
    BY DEF Min2
  <2>2. c * MinSeg \in Int
    BY <1>3, FrameFacts
  <2>3. Min2(n + 1, c * MinSeg) = n + 1
    BY <1>3, <2>2 DEF Min2
  <2>4. QED BY <1>1, <1>2, <1>3, <2>1, <2>3 DEF sgclone_encode_stream
<1>5. ASSUME NEW i \in 1 .. n PROVE ((i - 1) * f) % orig = (i - 1) * f
  <2>1. PICK x \in Nat : x = (i - 1) * f
    OBVIOUS
  <2>2. f * n = f * (n - i) + f + (i - 1) * f /\ f * (n - i) >= 0
    OBVIOUS
  <2>3. x < orig
    BY <1>2, <2>1, <2>2
  <2>4. x \in 0 .. orig - 1 /\ orig \in Nat \ {0}
    BY <2>1, <2>3
  <2>5. (orig * 0 + x) % orig = x
    BY <2>4, Quotient
  <2>6. QED BY <2>1, <2>4, <2>5
<1>6. \A i \in 1 .. n : i \in 1 .. n + 1
  OBVIOUS
<1>7. QED BY <1>1, <1>2, <1>4, <1>5, <1>6, Zenon

LEMMA MinTwo == \A a, b \in Nat : Min2(a, b) \in Nat /\ Min2(a, b) <= a /\ Min2(a, b) <= b /\ Min2(a, b) \in {a, b}
BY DEF Min2

LEMMA CutStream ==
    ASSUME NEW orig \in Nat, NEW n \in Nat, n <= orig \div Frame24, NEW s, s = sgclone_encode_stream(orig)
    PROVE  /\ Len(s) = orig \div Frame24 + 1
           /\ Len(Cut(s, n + 1)) = n + 1
           /\ \A i \in 1 .. n : Cut(s, n + 1)[i] = (i - 1) * Frame24
<1>1. PICK m \in Nat : m = orig \div Frame24
  BY StreamOf
<1>2. /\ s = [i \in 1 .. m + 1 |-> ((i - 1) * Frame24) % orig]
      /\ \A i \in 1 .. m : s[i] = (i - 1) * Frame24
  BY <1>1, StreamOf
<1> DEFINE S == {s[i] : i \in 1 .. m + 1}
<1>3. s \in [1 .. m + 1 -> S]
  <2>1. s = [i \in 1 .. m + 1 |-> s[i]]
    BY <1>2
  <2>2. \A i \in 1 .. m + 1 : s[i] \in S
    OBVIOUS
  <2> HIDE DEF S
  <2>3. QED BY <2>1, <2>2
<1>4. Len(s) = m + 1
  BY <1>3
<1>5. \A i \in 1 .. n + 1 : s[i] \in S
  BY <1>1
<1> HIDE DEF S
<1>6. /\ Len(SubSeq(s, 1, n + 1)) = n + 1
      /\ \A i \in 1 .. n + 1 : SubSeq(s, 1, n + 1)[i] = s[i]
  <2>1. /\ Len(SubSeq(s, 1, n + 1)) = IF 1 <= n + 1 THEN (n + 1) - 1 + 1 ELSE 0
        /\ \A i \in 1 .. (n + 1) - 1 + 1 : SubSeq(s, 1, n + 1)[i] = s[1 + i - 1]
    BY <1>5, SubSeqProperties
  <2>2. (n + 1) - 1 + 1 = n + 1 /\ \A i \in 1 .. n + 1 : 1 + i - 1 = i
    OBVIOUS
  <2>3. QED BY <2>1, <2>2
<1>7. \A i \in 1 .. n : i \in 1 .. m /\ i \in 1 .. n + 1
  BY <1>1
<1>8. QED BY <1>1, <1>2, <1>4, <1>6, <1>7 DEF Cut

\* The frames of the shorter of two sources.
LEMMA FewerFrames ==
    ASSUME NEW a \in Nat, NEW b \in Nat
    PROVE  Min2(a \div Up, b \div Up) = Min2(a, b) \div Up
<1>1. PICK u \in Nat \ {0} : u = Up
  BY FrameFacts
<1>2. CASE a < b
  <2>1. a \div u \in Nat /\ b \div u \in Nat /\ a \div u <= b \div u
    BY <1>2, QuotientMonotone
  <2>2. PICK p \in Nat, q \in Nat : p = a \div u /\ q = b \div u
    BY <2>1
  <2>3. p <= q
    BY <2>1, <2>2
  <2>4. Min2(p, q) = p
    BY <2>3 DEF Min2
  <2>5. QED BY <1>1, <1>2, <2>2, <2>4 DEF Min2
<1>3. CASE ~(a < b)
  <2>1. a \div u \in Nat /\ b \div u \in Nat /\ b \div u <= a \div u
    BY <1>3, QuotientMonotone
  <2>2. PICK p \in Nat, q \in Nat : p = a \div u /\ q = b \div u
    BY <2>1
  <2>3. q <= p
    BY <2>1, <2>2
  <2>4. Min2(p, q) = q
    BY <2>3 DEF Min2
  <2>5. QED BY <1>1, <1>3, <2>2, <2>4 DEF Min2
<1>4. QED BY <1>2, <1>3

Shortest(len, full) == IF full = 0 THEN len ELSE Min2(len, full)

InStep(s, frames) == Len(s) = frames + 1 /\ \A i \in 1 .. Len(s) - 1 : s[i] = (i - 1) * Frame24

LEMMA EncodeInStep ==
    ASSUME NEW vocal \in Nat, NEW bgm \in Nat, NEW full \in Nat, NEW n \in Nat,
           n = Shortest(Min2(vocal, bgm), full) \div Up,
           NEW c, c = sgclone_encode(vocal, bgm, full)
    PROVE  InStep(c.pmt, n) /\ InStep(c.vocal, n) /\ InStep(c.bgm, n)
<1>1. PICK v \in Nat, b \in Nat, w \in Nat : v = Mono24(vocal) /\ b = Mono24(bgm) /\ w = Mono24(full)
  BY HalvedFrames
<1>2. PICK common \in Nat : common = Min2(v, b)
  BY MinTwo
<1>3. PICK p \in Nat : p = (IF full > 0 THEN w ELSE common)
  OBVIOUS
<1>4. PICK x \in Nat : x = Min2(vocal, bgm)
  BY MinTwo
<1>5. common = Mono24(x)
  BY <1>1, <1>2, <1>4 DEF Min2, Mono24
<1>6. PICK j \in Nat : j = x \div Up /\ j = common \div Frame24
  BY <1>5, HalvedFrames
<1>7. PICK k \in Nat : k = (IF full > 0 THEN full ELSE x) \div Up /\ k = p \div Frame24
  <2>1. CASE full > 0
    BY <1>1, <1>3, <2>1, HalvedFrames
  <2>2. CASE ~(full > 0)
    BY <1>3, <1>5, <2>2, HalvedFrames
  <2>3. QED BY <2>1, <2>2
<1>8. n = Min2(k, j)
  <2>1. CASE full = 0
    <3>1. n = j /\ k = j
      BY <1>4, <1>6, <1>7, <2>1 DEF Shortest
    <3>2. QED BY <3>1 DEF Min2
  <2>2. CASE full # 0
    <3>1. n = Min2(x, full) \div Up
      BY <1>4, <2>2 DEF Shortest
    <3>2. Min2(x \div Up, full \div Up) = Min2(x, full) \div Up
      BY FewerFrames
    <3>3. k = full \div Up
      BY <1>7, <2>2
    <3>4. n = Min2(j, k)
      BY <1>6, <3>1, <3>2, <3>3
    <3>5. QED BY <3>4 DEF Min2
  <2>3. QED BY <2>1, <2>2
<1> DEFINE pmt == sgclone_encode_stream(p)
           voc == sgclone_encode_stream(common)
<1>9. n \in Nat /\ n <= j /\ n <= k
  BY <1>8, MinTwo
<1>10. /\ Len(pmt) = k + 1 /\ Len(Cut(pmt, n + 1)) = n + 1
       /\ \A i \in 1 .. n : Cut(pmt, n + 1)[i] = (i - 1) * Frame24
  BY <1>7, <1>9, CutStream
<1>11. /\ Len(voc) = j + 1 /\ Len(Cut(voc, n + 1)) = n + 1
       /\ \A i \in 1 .. n : Cut(voc, n + 1)[i] = (i - 1) * Frame24
  BY <1>6, <1>9, CutStream
<1>12. Min2(Len(pmt), Len(voc)) = n + 1
  <2> HIDE DEF pmt, voc
  <2>1. Min2(k + 1, j + 1) = n + 1
    BY <1>8 DEF Min2
  <2>2. QED BY <1>10, <1>11, <2>1
<1>13. InStep(Cut(pmt, n + 1), n) /\ InStep(Cut(voc, n + 1), n)
  <2> HIDE DEF pmt, voc
  <2>1. (n + 1) - 1 = n
    OBVIOUS
  <2>2. QED BY <1>10, <1>11, <2>1 DEF InStep
<1>14. pmt = sgclone_encode_stream(IF full > 0 THEN Mono24(full) ELSE common)
  BY <1>1, <1>3
<1>15. c = [pmt |-> Cut(pmt, n + 1), vocal |-> Cut(voc, n + 1), bgm |-> Cut(voc, n + 1)]
  BY <1>1, <1>2, <1>12, <1>14, Zenon DEF sgclone_encode
<1> HIDE DEF pmt, voc
<1>16. QED BY <1>13, <1>15

-----------------------------------------------------------------------------
(* Windows. *)

Multiple(x, h) == \E k \in Nat : x = k * h

LEMMA MultipleSteps ==
    ASSUME NEW h \in Nat \ {0}, NEW x, NEW y, Multiple(x, h), Multiple(y, h)
    PROVE  x \in Nat /\ Multiple(x + h, h) /\ Multiple(0, h) /\ (x < y => x + h <= y)
<1>1. PICK k \in Nat, m \in Nat : x = k * h /\ y = m * h
  BY DEF Multiple
<1>2. x \in Nat
  BY <1>1
<1>3. Multiple(x + h, h)
  <2>1. x + h = (k + 1) * h /\ k + 1 \in Nat
    BY <1>1
  <2>2. QED BY <2>1 DEF Multiple
<1>4. Multiple(0, h)
  <2>1. 0 = 0 * h /\ 0 \in Nat
    OBVIOUS
  <2>2. QED BY <2>1 DEF Multiple
<1>5. ASSUME x < y PROVE x + h <= y
  <2>1. k < m
    <3>1. k >= m => (k - m) * h >= 0
      OBVIOUS
    <3>2. (k - m) * h = x - y
      BY <1>1
    <3>3. QED BY <1>5, <1>1, <3>1, <3>2
  <2>2. m - k - 1 \in Nat
    BY <2>1
  <2>3. (m - k - 1) * h >= 0 /\ (m - k - 1) * h = y - x - h
    BY <1>1, <2>2
  <2>4. QED BY <1>1, <2>3
<1>6. QED BY <1>2, <1>3, <1>4, <1>5

LEMMA ChunkParts ==
    ASSUME NEW chunk \in Nat \ (0 .. 3)
    PROVE  /\ Hop(chunk) \in Nat \ {0} /\ Ovlp(chunk) \in Nat \ {0}
           /\ Hop(chunk) + Ovlp(chunk) = chunk /\ Ovlp(chunk) <= Hop(chunk) + 1
<1>1. PICK q \in Int, r \in 0 .. 3 : q = chunk \div 4 /\ chunk = 4 * q + r
  BY Remainder
<1>2. q >= 1
  BY <1>1
<1>3. Hop(chunk) = q * 3
  BY <1>1 DEF Hop
<1>4. Ovlp(chunk) = q + r
  BY <1>1, <1>3 DEF Ovlp
<1>5. QED BY <1>1, <1>2, <1>3, <1>4

\* The line is as long as its windows reach, and no shorter than the codes.
LEMMA TiledShape ==
    ASSUME NEW chunk \in Nat \ (0 .. 3), NEW n \in Nat, n >= chunk
    PROVE  /\ Tiled(n, chunk) \in Nat /\ Tiled(n, chunk) >= n
           /\ Multiple(Tiled(n, chunk) - Ovlp(chunk), Hop(chunk))
<1>1. PICK h \in Nat \ {0}, o \in Nat \ {0} : h = Hop(chunk) /\ o = Ovlp(chunk) /\ h + o = chunk
  BY ChunkParts
<1>2. PICK x \in Nat : x = n - o
  BY <1>1
<1>3. PICK q \in Int, r \in 0 .. h - 1 : q = x \div h /\ r = x % h /\ x = h * q + r
  BY Remainder
<1>4. q \in Nat
  BY <1>3, QuotientMonotone
<1>5. CASE ~(r > 0)
  <2>1. Tiled(n, chunk) = n
    BY <1>1, <1>2, <1>3, <1>5 DEF Tiled
  <2>2. n - o = q * h
    BY <1>2, <1>3, <1>5
  <2>3. QED BY <1>1, <1>4, <2>1, <2>2 DEF Multiple
<1>6. CASE r > 0
  <2>1. x + h - 1 = h * (q + 1) + (r - 1) /\ r - 1 \in 0 .. h - 1
    BY <1>3, <1>6
  <2>2. (x + h - 1) \div h = q + 1
    <3>1. PICK p \in Int, s \in 0 .. h - 1 : p = q + 1 /\ s = r - 1
      BY <1>4, <2>1
    <3>2. (h * p + s) \div h = p
      BY Quotient
    <3>3. QED BY <2>1, <3>1, <3>2
  <2>3. PICK t \in Nat : t = (q + 1) * h
    BY <1>4
  <2>4. Ceil(x, h) = q + 1
    BY <2>2 DEF Ceil
  <2>5. Tiled(n, chunk) = t + o
    BY <1>1, <1>2, <1>3, <1>6, <2>3, <2>4 DEF Tiled
  <2>6. (q + 1) * h = h * q + h
    BY <1>4
  <2>7. t + o >= n
    BY <1>2, <1>3, <2>3, <2>6
  <2>8. Multiple(t, h)
    BY <1>4, <2>3 DEF Multiple
  <2>9. (t + o) - o = t
    OBVIOUS
  <2>10. QED BY <1>1, <2>5, <2>7, <2>8, <2>9
<1>7. QED BY <1>5, <1>6

\* The lengths a doubled line goes through.
Closed(S) == \A y \in S : 2 * y \in S
Doubles(n) == {x \in Nat : \A S \in SUBSET Nat : n \in S /\ Closed(S) => x \in S}

LEMMA DoublesStep ==
    ASSUME NEW n \in Nat
    PROVE  /\ n \in Doubles(n) /\ Closed(Doubles(n)) /\ Doubles(n) \in SUBSET Nat
           /\ \A x \in Doubles(n) : x >= n
           /\ Doubles(n) = {n} \cup Doubles(2 * n)
<1>1. \A m \in Nat : m \in Doubles(m) /\ Doubles(m) \in SUBSET Nat
  BY DEF Doubles
<1>2. \A m \in Nat : Closed(Doubles(m))
  <2>1. ASSUME NEW m \in Nat, NEW y \in Doubles(m) PROVE 2 * y \in Doubles(m)
    <3>1. y \in Nat /\ 2 * y \in Nat
      BY DEF Doubles
    <3>2. ASSUME NEW S \in SUBSET Nat, m \in S, Closed(S) PROVE 2 * y \in S
      <4>1. y \in S
        BY <3>2 DEF Doubles
      <4>2. QED BY <3>2, <4>1 DEF Closed
    <3>3. QED BY <3>1, <3>2 DEF Doubles
  <2>2. QED BY <2>1 DEF Closed
<1>3. \A x \in Doubles(n) : x >= n
  <2> DEFINE S == {x \in Nat : x >= n}
  <2>1. S \in SUBSET Nat /\ n \in S
    OBVIOUS
  <2>2. Closed(S)
    BY DEF Closed
  <2>3. ASSUME NEW x \in Doubles(n) PROVE x \in S
    <3> HIDE DEF S
    <3>1. QED BY <2>1, <2>2 DEF Doubles
  <2>4. QED BY <2>3
<1>4. ASSUME NEW x \in Doubles(n) PROVE x \in {n} \cup Doubles(2 * n)
  <2> DEFINE S == {n} \cup Doubles(2 * n)
  <2>1. 2 * n \in Nat
    OBVIOUS
  <2>2. S \in SUBSET Nat /\ n \in S
    BY <1>1, <2>1
  <2>3. Closed(S)
    BY <1>1, <1>2, <2>1 DEF Closed
  <2> HIDE DEF S
  <2>4. x \in S
    BY <2>2, <2>3 DEF Doubles
  <2>5. QED BY <2>4 DEF S
<1>5. ASSUME NEW x \in Doubles(2 * n) PROVE x \in Doubles(n)
  <2>1. x \in Nat
    BY DEF Doubles
  <2>2. ASSUME NEW S \in SUBSET Nat, n \in S, Closed(S) PROVE x \in S
    <3>1. 2 * n \in S
      BY <2>2 DEF Closed
    <3>2. QED BY <2>2, <3>1 DEF Doubles
  <2>3. QED BY <2>1, <2>2 DEF Doubles
<1>6. Doubles(n) = {n} \cup Doubles(2 * n)
  BY <1>1, <1>4, <1>5
<1>7. QED BY <1>1, <1>2, <1>3, <1>6

\* The first of them that is long enough.
LongEnough(n, least) == {x \in Doubles(n) : x >= least}
Reached(n, least) == CHOOSE x \in LongEnough(n, least) : \A y \in LongEnough(n, least) : x <= y

LEMMA ReachedEnough ==
    ASSUME NEW n \in Nat, n > 0, NEW least \in Nat
    PROVE  Reached(n, least) \in Nat /\ Reached(n, least) >= n /\ Reached(n, least) >= least
<1>1. \E x \in Doubles(n) : x >= least
  <2>1. SUFFICES ASSUME \A x \in Doubles(n) : ~(x >= least) PROVE FALSE
    OBVIOUS
  <2>2. Doubles(n) \in SUBSET (0 .. least) /\ Doubles(n) # {}
    BY <2>1, DoublesStep
  <2>3. PICK x \in Doubles(n) : \A y \in Doubles(n) : x >= y
    BY <2>2, GreatestElement
  <2>4. x \in Nat /\ x > 0 /\ 2 * x \in Doubles(n)
    BY DoublesStep DEF Closed
  <2>5. QED BY <2>3, <2>4
<1>2. LongEnough(n, least) \subseteq Nat /\ LongEnough(n, least) # {}
  BY <1>1, DoublesStep DEF LongEnough
<1>3. \E x \in LongEnough(n, least) : \A y \in LongEnough(n, least) : x <= y
  BY <1>2, LeastElement
<1>4. Reached(n, least) \in LongEnough(n, least)
  BY <1>3 DEF Reached
<1>5. QED BY <1>2, <1>4, DoublesStep DEF LongEnough

\* Doubling ends at the first length that is long enough.
LEMMA DoubledReaches ==
    ASSUME NEW total \in Nat, NEW least \in Nat
    PROVE  \E f : /\ Doubled(total, least) = f[total]
                  /\ f = [n \in Nat |-> IF n >= least THEN n ELSE f[2 * n]]
<1> DEFINE F(f) == [n \in Nat |-> IF n >= least THEN n ELSE f[2 * n]]
           g == [n \in Nat |-> Reached(n, least)]
<1>1. ASSUME NEW n \in Nat
      PROVE  Reached(n, least) = IF n >= least THEN n ELSE g[2 * n]
  <2>1. CASE n >= least
    <3>1. n \in LongEnough(n, least) /\ \A y \in LongEnough(n, least) : n <= y
      BY <2>1, DoublesStep DEF LongEnough
    <3>2. \A x \in LongEnough(n, least) : (\A y \in LongEnough(n, least) : x <= y) => x = n
      <4>1. \A x \in LongEnough(n, least) : x \in Nat
        BY DEF LongEnough, Doubles
      <4>2. QED BY <3>1, <4>1
    <3>3. Reached(n, least) = n
      BY <3>1, <3>2 DEF Reached
    <3>4. QED BY <2>1, <3>3
  <2>2. CASE ~(n >= least)
    <3>1. PICK m \in Nat : m = 2 * n
      OBVIOUS
    <3>2. g[m] = Reached(m, least)
      BY <3>1
    <3>3. LongEnough(n, least) = LongEnough(m, least)
      <4>1. Doubles(n) = {n} \cup Doubles(m)
        BY <3>1, DoublesStep
      <4>2. QED BY <2>2, <4>1 DEF LongEnough
    <3>4. Reached(n, least) = Reached(m, least)
      BY <3>3 DEF Reached
    <3>5. QED BY <2>2, <3>1, <3>2, <3>4
  <2>3. QED BY <2>1, <2>2
<1>2. g = F(g)
  BY <1>1
<1> DEFINE f == CHOOSE f : f = F(f)
<1>3. Doubled(total, least) = f[total]
  BY DEF Doubled
<1>4. f = F(f)
  <2> HIDE DEF F, g
  <2>1. QED BY <1>2
<1>5. QED BY <1>3, <1>4

LEMMA DoubledEnough ==
    ASSUME NEW total \in Nat, total > 0, NEW least \in Nat
    PROVE  Doubled(total, least) \in Nat /\ Doubled(total, least) >= total /\ Doubled(total, least) >= least
<1>1. PICK f : /\ Doubled(total, least) = f[total]
               /\ f = [n \in Nat |-> IF n >= least THEN n ELSE f[2 * n]]
  BY DoubledReaches
<1> DEFINE Good(n) == f[n] \in Nat /\ f[n] >= n /\ f[n] >= least
           Bad == {d \in Nat : \E n \in Nat : n > 0 /\ n >= least - d /\ ~Good(n)}
<1>2. \A n \in Nat : n >= least => Good(n)
  BY <1>1
<1>3. \A n \in Nat : ~(n >= least) => f[n] = f[2 * n]
  BY <1>1
<1>4. Bad = {}
  <2>1. SUFFICES ASSUME Bad # {} PROVE FALSE
    OBVIOUS
  <2>2. PICK d \in Bad : \A x \in Bad : d <= x
    <3>1. Bad \subseteq Nat
      OBVIOUS
    <3> HIDE DEF Bad
    <3>2. QED BY <2>1, <3>1, LeastElement
  <2>3. PICK n \in Nat : n > 0 /\ n >= least - d /\ ~Good(n)
    BY <2>2
  <2>4. ~(n >= least)
    BY <1>2, <2>3
  <2>5. PICK m \in Nat : m = 2 * n
    OBVIOUS
  <2>6. ~Good(m)
    <3>1. f[n] = f[m]
      BY <1>3, <2>4, <2>5
    <3>2. QED BY <2>3, <2>5, <2>4, <3>1
  <2>7. PICK e \in Nat : e = d - 1
    BY <2>3, <2>4
  <2>8. e \in Bad /\ d \in Nat
    BY <2>3, <2>5, <2>6, <2>7
  <2> HIDE DEF Bad
  <2>9. e >= d
    BY <2>2, <2>8
  <2>10. QED BY <2>7, <2>8, <2>9
<1>5. ASSUME ~Good(total) PROVE FALSE
  <2>1. least \in Bad
    BY <1>5
  <2> HIDE DEF Bad
  <2>2. QED BY <1>4, <2>1
<1>6. QED BY <1>1, <1>5
-----------------------------------------------------------------------------
(* The prompt streams. *)

LEMMA ErrandFacts ==
    ASSUME NEW e \in Errands
    PROVE  /\ e.tool \in {"generate", "clone", "continue", "separate"}
           /\ e.vocal \in Nat /\ e.bgm \in Nat /\ e.mix \in Nat /\ e.frames \in Nat
           /\ e.chunk \in Nat \ (0 .. 3) /\ (e.tool # "separate" => e.frames > 0)
BY ErrandsAssumption DEF Errand

LEMMA ClipLengths ==
    ASSUME NEW e \in Errands
    PROVE  /\ PromptClip(e).len \in Nat
           /\ MixClip(e) \in Nat /\ (MixClip(e) = 0 \/ MixClip(e) <= PromptClip(e).len)
<1>1. PICK common \in Nat : common = Min2(e.vocal, e.bgm)
  BY ErrandFacts, MinTwo
<1>2. PICK beg \in Nat, len \in Nat : PromptClip(e) = [beg |-> beg, len |-> len]
  <2>1. CASE common < ClipNeed
    <3>1. Min2(common, ClipLen) \in Nat
      BY FrameFacts, MinTwo
    <3>2. PromptClip(e) = [beg |-> 0, len |-> Min2(common, ClipLen)]
      BY <1>1, <2>1 DEF PromptClip
    <3>3. QED BY <3>1, <3>2
  <2>2. CASE ~(common < ClipNeed)
    <3>1. PICK rest \in Nat : rest = common - ClipFrom
      BY <2>2, FrameFacts
    <3>2. Min2(rest, ClipLen) \in Nat
      BY FrameFacts, MinTwo
    <3>3. PromptClip(e) = [beg |-> ClipFrom, len |-> Min2(rest, ClipLen)]
      BY <1>1, <2>2, <3>1 DEF PromptClip
    <3>4. QED BY <3>2, <3>3, FrameFacts
  <2>3. QED BY <2>1, <2>2
<1>3. PICK n \in Int : n = Min2(e.mix - beg, len)
  BY ErrandFacts DEF Min2
<1>4. n <= len
  BY <1>3, ErrandFacts DEF Min2
<1>5. MixClip(e) = IF e.mix = 0 \/ n < 0 THEN 0 ELSE n
  BY <1>2, <1>3 DEF MixClip
<1>6. QED BY <1>2, <1>4, <1>5

\* What the three streams of errand e are encoded from: the shorter stem of a
\* reference, the clip of a song to continue, and the full mix if there is one.
Sounding(e) == IF e.tool = "clone" THEN Min2(e.vocal, e.bgm) ELSE PromptClip(e).len
FullMix(e) == IF e.tool = "clone" THEN e.mix ELSE MixClip(e)
Encoded(e, cs) ==
    LET n == Shortest(Sounding(e), FullMix(e)) \div Up
    IN n \in Nat /\ InStep(cs.pmt, n) /\ InStep(cs.vocal, n) /\ InStep(cs.bgm, n)

LEMMA ShortestFrames ==
    ASSUME NEW len \in Nat, NEW full \in Nat
    PROVE  Shortest(len, full) \in Nat /\ Shortest(len, full) \div Up \in Nat
<1>1. Shortest(len, full) \in Nat
  BY MinTwo DEF Shortest
<1>2. QED BY <1>1, HalvedFrames

LEMMA CloneEncoded ==
    ASSUME NEW e \in Errands, e.tool = "clone"
    PROVE  Encoded(e, sgclone_encode(e.vocal, e.bgm, e.mix))
<1>1. PICK v \in Nat, b \in Nat, m \in Nat : v = e.vocal /\ b = e.bgm /\ m = e.mix
  BY ErrandFacts
<1>2. PICK len \in Nat : len = Min2(v, b)
  BY MinTwo
<1>3. PICK n \in Nat : n = Shortest(len, m) \div Up
  BY ShortestFrames
<1>4. PICK c : c = sgclone_encode(v, b, m)
  OBVIOUS
<1>5. InStep(c.pmt, n) /\ InStep(c.vocal, n) /\ InStep(c.bgm, n)
  BY <1>2, <1>3, <1>4, EncodeInStep
<1>6. Sounding(e) = len /\ FullMix(e) = m
  BY <1>1, <1>2 DEF Sounding, FullMix
<1>7. QED BY <1>1, <1>3, <1>4, <1>5, <1>6 DEF Encoded

LEMMA ContinueEncoded ==
    ASSUME NEW e \in Errands, e.tool = "continue"
    PROVE  Encoded(e, sgclone_encode(PromptClip(e).len, PromptClip(e).len, MixClip(e)))
<1>1. PICK len \in Nat, m \in Nat : len = PromptClip(e).len /\ m = MixClip(e)
  BY ClipLengths
<1>2. len = Min2(len, len)
  BY DEF Min2
<1>3. PICK n \in Nat : n = Shortest(len, m) \div Up
  BY ShortestFrames
<1>4. PICK c : c = sgclone_encode(len, len, m)
  OBVIOUS
<1>5. InStep(c.pmt, n) /\ InStep(c.vocal, n) /\ InStep(c.bgm, n)
  BY <1>2, <1>3, <1>4, EncodeInStep
<1>6. Sounding(e) = len /\ FullMix(e) = m
  BY <1>1 DEF Sounding, FullMix
<1>7. QED BY <1>1, <1>3, <1>4, <1>5, <1>6 DEF Encoded

\* The streams of the prompt from their encoding to the line built of them.
StreamInv ==
    /\ errand \in Errands
    /\ errand.tool = "generate" => windowPc # "prompt"
    /\ windowPc = "codes" /\ errand.tool # "generate" =>
          errand.tool \in {"clone", "continue"} /\ Encoded(errand, clip.codes)

LEMMA StreamInit == WinInit => StreamInv
BY ErrandFacts DEF WinInit, StreamInv

LEMMA StreamStep == StreamInv /\ [WinNext]_winVars => StreamInv'
<1> SUFFICES ASSUME StreamInv, [WinNext]_winVars PROVE StreamInv'
  OBVIOUS
<1>1. CASE ClonePrompt
  <2>1. clip'.codes = sgclone_encode(errand.vocal, errand.bgm, errand.mix)
    BY <1>1 DEF ClonePrompt
  <2>2. Encoded(errand, clip'.codes)
    BY <1>1, <2>1, CloneEncoded DEF StreamInv, ClonePrompt
  <2>3. errand' = errand /\ windowPc' = "codes" /\ errand.tool = "clone"
    BY <1>1 DEF ClonePrompt
  <2>4. QED BY <2>2, <2>3 DEF StreamInv
<1>2. CASE ContinuePrompt
  <2>1. clip'.codes = sgclone_encode(PromptClip(errand).len, PromptClip(errand).len, MixClip(errand))
    BY <1>2 DEF ContinuePrompt
  <2>2. Encoded(errand, clip'.codes)
    BY <1>2, <2>1, ContinueEncoded DEF StreamInv, ContinuePrompt
  <2>3. errand' = errand /\ windowPc' = "codes" /\ errand.tool = "continue"
    BY <1>2 DEF ContinuePrompt
  <2>4. QED BY <2>2, <2>3 DEF StreamInv
<1>3. CASE GenerateLine \/ ContinueLine \/ DecodeWindow \/ GenerateTrim \/ ContinueTrim
  <2>1. errand' = errand /\ windowPc' \in {"window", "done"}
    BY <1>3 DEF GenerateLine, ContinueLine, DecodeWindow, GenerateTrim, ContinueTrim
  <2>2. QED BY <2>1 DEF StreamInv
<1>4. CASE SeparateSegment
  <2>1. errand' = errand /\ windowPc' \in {"segments", "done"}
    BY <1>4 DEF SeparateSegment
  <2>2. QED BY <2>1 DEF StreamInv
<1>5. CASE UNCHANGED winVars
  BY <1>5 DEF winVars, StreamInv
<1>6. QED BY <1>1, <1>2, <1>3, <1>4, <1>5 DEF WinNext

\* However long the stems, the clip and the mix are, the three streams of a
\* prompt are equally long, one code per frame of the shortest source and one
\* more, and only the last code may come from the tiled repetition
\* (sgclone_encode cuts the streams it gets from the segment encoder).
THEOREM PromptsInStep == WinSpec => []PromptStreamsInStep
<1>1. StreamInv => PromptStreamsInStep
  <2> SUFFICES ASSUME StreamInv, windowPc = "codes", errand.tool # "generate"
               PROVE  PromptStreamsInStep
    BY DEF PromptStreamsInStep
  <2>1. PICK len, full : len = Sounding(errand) /\ full = FullMix(errand)
    OBVIOUS
  <2>2. PICK n \in Nat : n = Shortest(len, full) \div Up
    BY <2>1 DEF StreamInv, Encoded
  <2>3. InStep(clip.codes.pmt, n) /\ InStep(clip.codes.vocal, n) /\ InStep(clip.codes.bgm, n)
    BY <2>1, <2>2 DEF StreamInv, Encoded
  <2>4. \A s \in {clip.codes.pmt, clip.codes.vocal, clip.codes.bgm} :
           Len(s) = n + 1 /\ \A i \in 1 .. Len(s) - 1 : s[i] = (i - 1) * Frame24
    BY <2>3 DEF InStep
  <2>5. n = (IF full = 0 THEN len ELSE Min2(len, full)) \div Up
    BY <2>2 DEF Shortest
  <2>6. QED BY <2>1, <2>4, <2>5, Zenon DEF PromptStreamsInStep, Sounding, FullMix
<1>2. QED BY <1>1, StreamInit, StreamStep, PTL DEF WinSpec
-----------------------------------------------------------------------------
(* Seams. *)

\* The latent frame that belongs at output frame i: the encoded prompt as far
\* as the first window holds it, then the rendered codes.
Tone(tlat, chunk, i) == IF i <= tlat /\ i <= chunk THEN <<"clip", i>> ELSE <<"code", i>>
Tones(tlat, chunk, from, n) == [i \in 1 .. n |-> Tone(tlat, chunk, from + i)]
Rendered(tlat, chunk, n) == [i \in 1 .. n |-> {Tone(tlat, chunk, i)}]

Alone(e, l) == e.tool # "continue" /\ l.total <= e.chunk

\* The line of codes e is decoded from, and the window it is at: the start and
\* what is left before the last overlap are whole hops.
LineFits(e, tlat, l) ==
    /\ tlat \in Nat /\ l \in [total : Nat, prompt : Nat, beg : Nat, ncodes : Nat]
    /\ l.total - l.prompt = e.frames /\ l.ncodes >= l.total
    /\ e.tool # "continue" => tlat = 0 /\ l.prompt = 0
    /\ e.tool = "continue" /\ MixClip(e) \in {0, PromptClip(e).len} => l.prompt = tlat + 1
    /\ Alone(e, l) => l.ncodes = l.total
    /\ ~Alone(e, l) => l.ncodes >= e.chunk /\ Multiple(l.ncodes - Ovlp(e.chunk), Hop(e.chunk))

\* The sound so far ends where the next window's overlap does, and the kept
\* latents are those of that overlap.
Played(e, tlat, l, o, d) ==
    /\ l.beg \in Nat /\ Multiple(l.beg, Hop(e.chunk))
    /\ l.beg = 0 => d = <<>>
    /\ l.beg > 0 => d = Rendered(tlat, e.chunk, Min2(l.beg + Ovlp(e.chunk), l.ncodes))
    /\ l.beg > 0 /\ l.beg + Ovlp(e.chunk) <= l.ncodes =>
          o = Tones(tlat, e.chunk, l.beg, Ovlp(e.chunk))

\* How far the segments have come: one or two weigh in every sample before
\* the next segment, at most one where it will overlap, none beyond.
Separated(mix, beg, d) ==
    \A i \in 1 .. mix :
       /\ i <= beg => d[i] # {} /\ \E x, y : d[i] \subseteq {x, y}
       /\ i > beg => \E x : d[i] \subseteq {x}
       /\ i > beg - Stride + SepSeg => d[i] = {}

SeamInv ==
    /\ StreamInv
    /\ windowPc \in {"prompt", "codes", "window"} => errand.tool # "separate"
    /\ windowPc = "segments" => line \in [total : Nat, prompt : Nat, beg : Nat, ncodes : Nat]
    /\ windowPc \in {"prompt", "codes"} => line.beg = 0 /\ decoded = <<>> /\ clip.tlat \in Nat
    /\ windowPc = "codes" /\ errand.tool = "continue" => clip.tlat = PromptClip(errand).len \div Up
    /\ windowPc \in {"prompt", "codes"} /\ errand.tool # "continue" => clip.tlat = 0
    /\ windowPc = "window" =>
          LineFits(errand, clip.tlat, line) /\ Played(errand, clip.tlat, line, overlap, decoded)
    /\ windowPc = "segments" =>
          errand.tool = "separate" /\ Separated(errand.mix, line.beg, decoded)
    /\ WindowsJoinUp

LEMMA SliceOf ==
    ASSUME NEW S, NEW n \in Nat, NEW s \in [1 .. n -> S], NEW a \in Nat, NEW m \in Nat, a + m <= n
    PROVE  Len(s) = n /\ SubSeq(s, a + 1, a + m) = [i \in 1 .. m |-> s[a + i]]
<1>1. \A i \in 1 .. n : s[i] \in S
  OBVIOUS
<1>2. Len(s) = n
  OBVIOUS
<1>3. PICK from \in Int, upto \in Int : from = a + 1 /\ upto = a + m
  OBVIOUS
<1>4. \A i \in from .. upto : s[i] \in S
  BY <1>1, <1>3
<1>5. /\ SubSeq(s, from, upto) \in Seq(S)
      /\ Len(SubSeq(s, from, upto)) = IF from <= upto THEN upto - from + 1 ELSE 0
      /\ \A i \in 1 .. upto - from + 1 : SubSeq(s, from, upto)[i] = s[from + i - 1]
  BY <1>4, SubSeqProperties
<1>6. PICK t : t = SubSeq(s, from, upto)
  OBVIOUS
<1>7. /\ t \in Seq(S) /\ Len(t) = IF from <= upto THEN upto - from + 1 ELSE 0
      /\ \A i \in 1 .. upto - from + 1 : t[i] = s[from + i - 1]
  BY <1>5, <1>6, Zenon
<1>8. upto - from + 1 = m /\ (from <= upto <=> m > 0)
  BY <1>3
<1>9. \A i \in 1 .. m : from + i - 1 = a + i
  BY <1>3
<1>10. Len(t) = m
  BY <1>7, <1>8
<1>11. \A i \in 1 .. m : t[i] = s[a + i]
  BY <1>7, <1>8, <1>9
<1>12. t \in [1 .. m -> S]
  BY <1>7, <1>10, LenProperties
<1>13. t = [i \in 1 .. m |-> s[a + i]]
  BY <1>11, <1>12
<1>14. QED BY <1>2, <1>3, <1>6, <1>13

LEMMA Slice ==
    ASSUME NEW n \in Nat, NEW s, s = [i \in 1 .. n |-> s[i]], NEW a \in Nat, NEW m \in Nat, a + m <= n
    PROVE  Len(s) = n /\ SubSeq(s, a + 1, a + m) = [i \in 1 .. m |-> s[a + i]]
<1> DEFINE S == {s[i] : i \in 1 .. n}
<1>1. \A i \in 1 .. n : s[i] \in S
  OBVIOUS
<1> HIDE DEF S
<1>2. s \in [1 .. n -> S]
  BY <1>1
<1>3. QED BY <1>2, SliceOf

LEMMA CutTones ==
    ASSUME NEW tlat, NEW chunk, NEW from, NEW n \in Nat, NEW m \in Nat, m <= n
    PROVE  /\ Len(Tones(tlat, chunk, from, n)) = n
           /\ Cut(Tones(tlat, chunk, from, n), m) = Tones(tlat, chunk, from, m)
<1>1. PICK s : s = Tones(tlat, chunk, from, n)
  OBVIOUS
<1>2. s = [i \in 1 .. n |-> s[i]] /\ \A i \in 1 .. n : s[i] = Tone(tlat, chunk, from + i)
  BY <1>1 DEF Tones
<1>3. PICK z \in Nat : z = 0
  OBVIOUS
<1>4. Len(s) = n /\ SubSeq(s, z + 1, z + m) = [i \in 1 .. m |-> s[z + i]]
  BY <1>2, <1>3, Slice
<1>5. z + 1 = 1 /\ z + m = m /\ \A i \in 1 .. m : z + i = i /\ i \in 1 .. n
  BY <1>3
<1>6. SubSeq(s, 1, m) = [i \in 1 .. m |-> s[i]]
  BY <1>4, <1>5
<1>7. SubSeq(s, 1, m) = Tones(tlat, chunk, from, m)
  BY <1>2, <1>5, <1>6 DEF Tones
<1>8. QED BY <1>1, <1>4, <1>7 DEF Cut

LEMMA RenderedLength ==
    ASSUME NEW tlat, NEW chunk, NEW n \in Nat
    PROVE  Len(Rendered(tlat, chunk, n)) = n
<1> DEFINE S == {{Tone(tlat, chunk, i)} : i \in 1 .. n}
<1>1. Rendered(tlat, chunk, n) \in [1 .. n -> S]
  BY DEF Rendered
<1> HIDE DEF S
<1>2. QED BY <1>1

\* A window that is decoded has its whole overlap before the end of the line.
LEMMA WindowFits ==
    ASSUME errand \in Errands, errand.tool # "separate", LineFits(errand, clip.tlat, line),
           Played(errand, clip.tlat, line, overlap, decoded), MoreWindows
    PROVE  /\ line.beg > 0 => line.beg + Ovlp(errand.chunk) <= line.ncodes
           /\ line.ncodes > 0
<1>1. PICK c \in Nat \ (0 .. 3), h \in Nat \ {0}, o \in Nat \ {0}, b \in Nat, n \in Nat :
         /\ c = errand.chunk /\ h = Hop(c) /\ o = Ovlp(c) /\ h + o = c /\ o <= h + 1
         /\ b = line.beg /\ n = line.ncodes
  BY ErrandFacts, ChunkParts DEF Played, LineFits
<1>2. errand.frames \in Nat /\ errand.frames > 0
  BY ErrandFacts
<1>3. n > 0
  BY <1>1, <1>2 DEF LineFits
<1>4. Single <=> Alone(errand, line)
  BY DEF Single, Alone
<1>5. ASSUME Single, b > 0 PROVE FALSE
  <2>1. decoded = Rendered(clip.tlat, c, Min2(b + o, n))
    BY <1>1, <1>5 DEF Played
  <2>2. PICK m \in Nat : m = Min2(b + o, n) /\ m > 0
    BY <1>1, <1>3 DEF Min2
  <2>3. PICK z \in Nat : z = 0
    OBVIOUS
  <2>4. Len(decoded) = m
    <3>1. PICK t, s : t = clip.tlat /\ s = Rendered(t, c, m)
      OBVIOUS
    <3>2. Len(s) = m
      BY <3>1, RenderedLength
    <3>3. QED BY <2>1, <2>2, <3>1, <3>2
  <2>5. decoded # <<>>
    BY <2>2, <2>4
  <2>6. QED BY <1>5, <2>5 DEF MoreWindows
<1>6. ASSUME ~Single, b > 0 PROVE b + o <= n
  <2>1. b < n - h
    BY <1>1, <1>6 DEF MoreWindows
  <2>2. Multiple(b, h) /\ Multiple(n - o, h)
    BY <1>1, <1>4, <1>6 DEF Played, LineFits
  <2>3. PICK x \in Int : x = n - o
    OBVIOUS
  <2>4. Multiple(x, h)
    BY <2>2, <2>3
  <2>5. x < b => x + h <= b
    BY <2>2, <2>4, MultipleSteps
  <2>6. QED BY <1>1, <2>1, <2>3, <2>5
<1>7. QED BY <1>1, <1>3, <1>5, <1>6

\* Every window renders the moment it stands at.
LEMMA WindowSounds ==
    ASSUME errand \in Errands, errand.tool # "separate", LineFits(errand, clip.tlat, line),
           Played(errand, clip.tlat, line, overlap, decoded), MoreWindows
    PROVE  /\ WindowLen \in Nat
           /\ line.beg + WindowLen = Min2(line.beg + errand.chunk, line.ncodes)
           /\ line.beg > 0 => WindowLen >= Ovlp(errand.chunk)
           /\ sgsep_decode_seg = Tones(clip.tlat, errand.chunk, line.beg, WindowLen)
<1>1. PICK c \in Nat \ (0 .. 3), h \in Nat \ {0}, o \in Nat \ {0}, b \in Nat, n \in Nat, t \in Nat :
         /\ c = errand.chunk /\ h = Hop(c) /\ o = Ovlp(c) /\ h + o = c
         /\ b = line.beg /\ n = line.ncodes /\ t = clip.tlat
  <2>1. PICK c \in Nat \ (0 .. 3) : c = errand.chunk
    BY ErrandFacts
  <2>2. /\ Hop(c) \in Nat \ {0} /\ Ovlp(c) \in Nat \ {0} /\ Hop(c) + Ovlp(c) = c
    BY ChunkParts
  <2>3. line.beg \in Nat /\ line.ncodes \in Nat /\ clip.tlat \in Nat
    BY DEF Played, LineFits
  <2>4. QED BY <2>1, <2>2, <2>3
<1>2. (b > 0 => b + o <= n) /\ n > 0
  BY <1>1, WindowFits
<1>3. PICK w \in Nat : w = WindowLen /\ b + w = Min2(b + c, n)
  BY <1>1, <1>2 DEF WindowLen, Min2
<1>4. w <= c /\ (b > 0 => w >= o)
  BY <1>1, <1>2, <1>3 DEF Min2
<1>5. sgsep_decode_seg = Tones(t, c, b, w)
  <2>1. CASE b = 0
    <3>1. PICK k \in Nat : k = Min2(t, w) /\ (k = t \/ k = w) /\ k <= t /\ k <= w
      BY MinTwo
    <3>2. InContext = [i \in 1 .. k |-> <<"clip", i>>]
      BY <1>1, <1>3, <2>1, <3>1 DEF InContext
    <3>3. Len(InContext) = k /\ \A i \in 1 .. k : InContext[i] = <<"clip", i>>
      <4> DEFINE S == {<<"clip", i>> : i \in 1 .. k}
      <4>1. InContext \in [1 .. k -> S]
        BY <3>2
      <4> HIDE DEF S
      <4>2. QED BY <3>2, <4>1
    <3>4. ASSUME NEW i \in 1 .. w
          PROVE  (IF i <= k THEN InContext[i] ELSE <<"code", b + i>>) = Tone(t, c, b + i)
      <4>1. b + i = i /\ i <= c
        BY <1>4, <2>1
      <4>2. i <= k <=> i <= t
        BY <3>1
      <4>3. i <= k => InContext[i] = <<"clip", i>>
        BY <3>3
      <4>4. QED BY <4>1, <4>2, <4>3, Zenon DEF Tone
    <3>5. QED BY <1>1, <1>3, <3>3, <3>4, Zenon DEF sgsep_decode_seg, Tones
  <2>2. CASE b > 0
    <3>1. overlap = Tones(t, c, b, o)
      BY <1>1, <1>2, <2>2 DEF Played
    <3>2. Len(overlap) = o /\ Cut(overlap, o) = Tones(t, c, b, o)
      BY <3>1, CutTones
    <3>3. Min2(o, w) = o
      BY <1>4, <2>2 DEF Min2
    <3>4. InContext = Tones(t, c, b, o)
      BY <1>1, <1>3, <2>2, <3>2, <3>3 DEF InContext
    <3>5. Len(InContext) = o /\ \A i \in 1 .. o : InContext[i] = Tone(t, c, b + i)
      <4>1. Len(Tones(t, c, b, o)) = o
        BY CutTones
      <4>2. QED BY <3>4, <4>1 DEF Tones
    <3>6. b >= h
      <4>1. PICK z \in Nat : z = 0
        OBVIOUS
      <4>2. Multiple(b, h) /\ Multiple(z, h)
        <5>1. Multiple(b, h)
          BY <1>1 DEF Played
        <5>2. QED BY <4>1, <5>1, MultipleSteps
      <4>3. z + h <= b
        BY <2>2, <4>1, <4>2, MultipleSteps
      <4>4. QED BY <4>1, <4>3
    <3>7. ASSUME NEW i \in 1 .. w
          PROVE  (IF i <= o THEN InContext[i] ELSE <<"code", b + i>>) = Tone(t, c, b + i)
      <4>1. CASE i <= o
        BY <3>5, <4>1
      <4>2. CASE ~(i <= o)
        <5>1. ~(b + i <= c)
          BY <1>1, <3>6, <4>2
        <5>2. QED BY <4>2, <5>1 DEF Tone
      <4>3. QED BY <4>1, <4>2
    <3>8. QED BY <1>1, <1>3, <3>5, <3>7, Zenon DEF sgsep_decode_seg, Tones
  <2>3. QED BY <2>1, <2>2
<1>6. QED BY <1>1, <1>3, <1>4, <1>5

\* A window whose overlap is the end of the sound so far lengthens it.
LEMMA JoinedSounds ==
    ASSUME errand \in Errands, NEW t \in Nat, NEW c \in Nat, c = errand.chunk, NEW o \in Nat, o = Ovlp(c),
           NEW b \in Nat, NEW w \in Nat, w >= o
    PROVE  Joined(Rendered(t, c, b + o), Tones(t, c, b, w)) = Rendered(t, c, b + w)
<1>1. PICK n \in Nat : n = b + o
  OBVIOUS
<1>2. PICK sound, seg : sound = Rendered(t, c, n) /\ seg = Tones(t, c, b, w)
  OBVIOUS
<1>3. Len(sound) = n /\ \A i \in 1 .. n : sound[i] = {Tone(t, c, i)}
  <2>1. PICK z \in Nat : z = 0
    OBVIOUS
  <2>2. Len(Rendered(t, c, n)) = n
    BY RenderedLength
  <2>3. QED BY <1>2, <2>2 DEF Rendered
<1>4. Len(seg) = w /\ \A i \in 1 .. w : seg[i] = Tone(t, c, b + i)
  <2>1. Len(Tones(t, c, b, w)) = w
    BY CutTones
  <2>2. QED BY <1>2, <2>1 DEF Tones
<1>5. Min2(Min2(o, n), w) = o
  BY <1>1 DEF Min2
<1>6. n + w - o = b + w /\ n - o = b
  BY <1>1
<1>7. Joined(sound, seg) =
        [i \in 1 .. b + w |-> IF i <= b THEN sound[i]
                              ELSE IF i <= n THEN sound[i] \cup {seg[i - n + o]} ELSE {seg[i - n + o]}]
  BY <1>3, <1>4, <1>5, <1>6 DEF Joined
<1>8. ASSUME NEW i \in 1 .. b + w
      PROVE  (IF i <= b THEN sound[i]
              ELSE IF i <= n THEN sound[i] \cup {seg[i - n + o]} ELSE {seg[i - n + o]}) = {Tone(t, c, i)}
  <2>1. CASE i <= b
    BY <1>1, <1>3, <2>1
  <2>2. CASE ~(i <= b)
    <3>1. PICK j \in 1 .. w : j = i - n + o /\ b + j = i
      BY <1>1, <2>2
    <3>2. seg[i - n + o] = Tone(t, c, i)
      BY <1>4, <3>1
    <3>3. i <= n => sound[i] = {Tone(t, c, i)}
      BY <1>3
    <3>4. QED BY <2>2, <3>2, <3>3
  <2>3. QED BY <2>1, <2>2
<1>9. QED BY <1>1, <1>2, <1>7, <1>8, ZenonT(30) DEF Rendered

LEMMA NextBeginning ==
    ASSUME NEW e \in Errands, NEW l, l.beg \in Nat, Multiple(l.beg, Hop(e.chunk))
    PROVE  l.beg + Hop(e.chunk) \in Nat \ {0} /\ Multiple(l.beg + Hop(e.chunk), Hop(e.chunk))
<1>1. PICK h \in Nat \ {0} : h = Hop(e.chunk)
  BY ErrandFacts, ChunkParts
<1>2. PICK b \in Nat : b = l.beg /\ Multiple(b, h)
  BY <1>1
<1>3. Multiple(b + h, h)
  BY <1>2, MultipleSteps
<1>4. QED BY <1>1, <1>2, <1>3

LEMMA DecodePlays ==
    ASSUME errand \in Errands, errand.tool # "separate", LineFits(errand, clip.tlat, line),
           Played(errand, clip.tlat, line, overlap, decoded), DecodeWindow
    PROVE  LineFits(errand, clip.tlat, line') /\ Played(errand, clip.tlat, line', overlap', decoded')
<1>1. PICK c \in Nat \ (0 .. 3), h \in Nat \ {0}, o \in Nat \ {0}, b \in Nat, n \in Nat, t \in Nat :
         /\ c = errand.chunk /\ h = Hop(c) /\ o = Ovlp(c) /\ h + o = c
         /\ b = line.beg /\ n = line.ncodes /\ t = clip.tlat
  <2>1. PICK c \in Nat \ (0 .. 3) : c = errand.chunk
    BY ErrandFacts
  <2>2. /\ Hop(c) \in Nat \ {0} /\ Ovlp(c) \in Nat \ {0} /\ Hop(c) + Ovlp(c) = c
    BY ChunkParts
  <2>3. line.beg \in Nat /\ line.ncodes \in Nat /\ clip.tlat \in Nat
    BY DEF Played, LineFits
  <2>4. QED BY <2>1, <2>2, <2>3
<1>2. line' = [line EXCEPT !.beg = @ + h]
  BY <1>1 DEF DecodeWindow
<1>3. PICK w \in Nat : /\ w = WindowLen /\ b + w = Min2(b + c, n) /\ (b > 0 => w >= o)
                       /\ sgsep_decode_seg = Tones(t, c, b, w)
  BY <1>1, WindowSounds DEF DecodeWindow
<1>4. PICK seg : seg = sgsep_decode_seg /\ seg = Tones(t, c, b, w) /\ Len(seg) = w
  <2>1. Len(Tones(t, c, b, w)) = w
    BY CutTones
  <2>2. QED BY <1>3, <2>1
<1>5. decoded' = Rendered(t, c, b + w)
  <2>1. CASE b = 0
    <3>1. decoded' = [i \in 1 .. w |-> {seg[i]}]
      BY <1>1, <1>4, <2>1 DEF DecodeWindow
    <3>2. \A i \in 1 .. w : seg[i] = Tone(t, c, i)
      BY <1>4, <2>1 DEF Tones
    <3>3. b + w = w
      BY <2>1
    <3>4. QED BY <3>1, <3>2, <3>3 DEF Rendered
  <2>2. CASE b > 0
    <3>1. b + o <= n
      BY <1>1, <2>2, WindowFits DEF DecodeWindow
    <3>2. Min2(b + o, n) = b + o
      BY <3>1 DEF Min2
    <3>3. decoded = Rendered(t, c, b + o)
      BY <1>1, <2>2, <3>2 DEF Played
    <3>4. decoded' = Joined(decoded, seg)
      BY <1>1, <1>4, <2>2 DEF DecodeWindow
    <3>5. w >= o /\ c = errand.chunk /\ o = Ovlp(c)
      BY <1>1, <1>3, <2>2
    <3>6. Joined(Rendered(t, c, b + o), Tones(t, c, b, w)) = Rendered(t, c, b + w)
      BY <3>5, JoinedSounds
    <3>7. QED BY <1>4, <3>3, <3>4, <3>6, Zenon
  <2>3. QED BY <2>1, <2>2
<1>6. line'.beg = b + h /\ line'.ncodes = n /\ line'.total = line.total /\ line'.prompt = line.prompt
  BY <1>1, <1>2 DEF LineFits
<1>7. LineFits(errand, clip.tlat, line')
  <2>1. line' \in [total : Nat, prompt : Nat, beg : Nat, ncodes : Nat]
    <3>1. b + h \in Nat
      OBVIOUS
    <3>2. QED BY <1>1, <1>2, <3>1 DEF LineFits
  <2>2. Alone(errand, line') <=> Alone(errand, line)
    BY <1>6 DEF Alone
  <2>3. QED BY <1>1, <1>6, <2>1, <2>2 DEF LineFits
<1>8. (b + h) + o = b + c
  BY <1>1
<1>9. decoded' = Rendered(t, c, Min2((b + h) + o, n))
  BY <1>3, <1>5, <1>8
<1>10. b + h \in Nat \ {0} /\ Multiple(b + h, h)
  BY <1>1, NextBeginning DEF Played
<1>11. ASSUME (b + h) + o <= n PROVE overlap' = Tones(t, c, b + h, o)
  <2>1. w = h + o
    BY <1>1, <1>3, <1>8, <1>11 DEF Min2
  <2>2. w >= o /\ w - o + 1 = h + 1
    BY <2>1
  <2>3. overlap' = SubSeq(seg, h + 1, w)
    BY <1>1, <1>4, <2>2 DEF DecodeWindow
  <2>4. seg = [i \in 1 .. w |-> seg[i]] /\ \A i \in 1 .. w : seg[i] = Tone(t, c, b + i)
    BY <1>4 DEF Tones
  <2>5. SubSeq(seg, h + 1, h + o) = [i \in 1 .. o |-> seg[h + i]]
    <3>1. h + o <= w
      BY <2>1
    <3>2. h \in Nat /\ o \in Nat
      BY <1>1
    <3> DEFINE S == {seg[i] : i \in 1 .. w}
    <3>3. \A i \in 1 .. w : seg[i] \in S
      OBVIOUS
    <3> HIDE DEF S
    <3>4. seg \in [1 .. w -> S]
      BY <2>4, <3>3
    <3>5. QED BY <3>1, <3>2, <3>4, SliceOf
  <2>6. ASSUME NEW i \in 1 .. o PROVE seg[h + i] = Tone(t, c, (b + h) + i)
    <3>1. PICK j \in 1 .. w : j = h + i
      BY <2>1
    <3>2. b + j = (b + h) + i
      BY <3>1
    <3>3. QED BY <2>4, <3>1, <3>2
  <2>7. QED BY <2>1, <2>3, <2>5, <2>6 DEF Tones
<1>12. PICK beg \in Nat \ {0} : beg = b + h
  BY <1>10
<1>13. line'.beg = beg /\ Multiple(beg, h) /\ decoded' = Rendered(t, c, Min2(beg + o, n))
  BY <1>6, <1>9, <1>10, <1>12
<1>14. beg + o <= n => overlap' = Tones(t, c, beg, o)
  BY <1>11, <1>12
<1>15. Played(errand, clip.tlat, line', overlap', decoded')
  BY <1>1, <1>6, <1>12, <1>13, <1>14 DEF Played
<1>16. QED BY <1>7, <1>15

\* The lines the programs build are whole windows.
LEMMA GenerateFits ==
    ASSUME errand \in Errands, GenerateLine, clip.tlat = 0, line.beg = 0, decoded = <<>>
    PROVE  LineFits(errand, clip.tlat, line') /\ Played(errand, clip.tlat, line', overlap', decoded')
<1>1. PICK T \in Nat, c \in Nat \ (0 .. 3) : T = errand.frames /\ c = errand.chunk
  BY ErrandFacts
<1>2. PICK n : n = IF T <= c THEN T ELSE Tiled(T, c)
  OBVIOUS
<1>3. /\ n \in Nat /\ n >= T /\ (T <= c => n = T)
      /\ ~(T <= c) => n >= c /\ Multiple(n - Ovlp(c), Hop(c))
  <2>1. CASE T <= c
    BY <1>2, <2>1
  <2>2. CASE ~(T <= c)
    <3>1. T >= c
      BY <2>2
    <3>2. Tiled(T, c) \in Nat /\ Tiled(T, c) >= T /\ Multiple(Tiled(T, c) - Ovlp(c), Hop(c))
      BY <3>1, TiledShape
    <3>3. n = Tiled(T, c)
      BY <1>2, <2>2
    <3>4. QED BY <2>2, <3>1, <3>2, <3>3
  <2>3. QED BY <2>1, <2>2
<1>4. line' = [total |-> T, prompt |-> 0, beg |-> 0, ncodes |-> n] /\ decoded' = decoded
  BY <1>1, <1>2 DEF GenerateLine
<1>5. errand.tool \in {"generate", "clone"}
  BY DEF GenerateLine
<1>6. Alone(errand, line') <=> T <= c
  BY <1>1, <1>4, <1>5 DEF Alone
<1>7. LineFits(errand, clip.tlat, line')
  <2>1. line' \in [total : Nat, prompt : Nat, beg : Nat, ncodes : Nat]
    BY <1>3, <1>4
  <2>2. QED BY <1>1, <1>3, <1>4, <1>5, <1>6, <2>1 DEF LineFits
<1>8. Multiple(0, Hop(errand.chunk))
  <2>1. Hop(errand.chunk) \in Nat
    BY <1>1, ChunkParts
  <2>2. 0 = 0 * Hop(errand.chunk) /\ 0 \in Nat
    BY <2>1
  <2>3. QED BY <2>2 DEF Multiple
<1>9. Played(errand, clip.tlat, line', overlap', decoded')
  BY <1>4, <1>8 DEF Played
<1>10. QED BY <1>7, <1>9

LEMMA ContinueFits ==
    ASSUME errand \in Errands, ContinueLine, line.beg = 0, decoded = <<>>,
           clip.tlat = PromptClip(errand).len \div Up, Encoded(errand, clip.codes)
    PROVE  LineFits(errand, clip.tlat, line') /\ Played(errand, clip.tlat, line', overlap', decoded')
<1>1. PICK F \in Nat \ {0}, c \in Nat \ (0 .. 3) : F = errand.frames /\ c = errand.chunk
  BY ErrandFacts, SMTT(30) DEF ContinueLine
<1>2. PICK len \in Nat, full \in Nat : len = PromptClip(errand).len /\ full = MixClip(errand)
  BY ClipLengths
<1>3. PICK k \in Nat : k = Shortest(len, full) \div Up
  BY ShortestFrames
<1>4. PICK p \in Nat : p = k + 1 /\ p = Len(clip.codes.vocal)
  <2>1. Sounding(errand) = len /\ FullMix(errand) = full
    BY <1>2 DEF ContinueLine, Sounding, FullMix
  <2>2. InStep(clip.codes.vocal, k)
    BY <1>3, <2>1 DEF Encoded
  <2>3. Len(clip.codes.vocal) = k + 1
    BY <2>2 DEF InStep
  <2>4. QED BY <2>3
<1>5. PICK T \in Nat : T = p + F /\ T > 0
  OBVIOUS
<1>6. PICK m \in Nat : m = Doubled(T, c) /\ m >= T /\ m >= c
  BY <1>5, DoubledEnough
<1>7. PICK n : n = Tiled(m, c)
  OBVIOUS
<1>8. n \in Nat /\ n >= m /\ Multiple(n - Ovlp(c), Hop(c))
  BY <1>6, <1>7, TiledShape
<1>9. line' = [total |-> T, prompt |-> p, beg |-> 0, ncodes |-> n] /\ decoded' = decoded
  BY <1>1, <1>4, <1>5, <1>6, <1>7 DEF ContinueLine
<1>10. PICK t \in Nat : t = clip.tlat /\ t = len \div Up
  BY <1>2, HalvedFrames
<1>11. full \in {0, len} => k = t
  <2>1. CASE full = 0
    BY <1>3, <1>10, <2>1 DEF Shortest
  <2>2. CASE full = len
    BY <1>3, <1>10, <2>2 DEF Shortest, Min2
  <2>3. QED BY <2>1, <2>2
<1>12. errand.tool = "continue"
  BY DEF ContinueLine
<1>13. n >= T /\ n >= c
  BY <1>6, <1>8
<1>14. LineFits(errand, clip.tlat, line')
  <2>1. line' \in [total : Nat, prompt : Nat, beg : Nat, ncodes : Nat]
    BY <1>8, <1>9
  <2>2. T - p = F
    BY <1>5
  <2>3. MixClip(errand) \in {0, PromptClip(errand).len} => p = t + 1
    BY <1>2, <1>4, <1>11
  <2>4. /\ line'.total = T /\ line'.prompt = p /\ line'.ncodes = n
        /\ ~Alone(errand, line')
    BY <1>9, <1>12 DEF Alone
  <2>5. QED BY <1>1, <1>8, <1>10, <1>12, <1>13, <2>1, <2>2, <2>3, <2>4 DEF LineFits
<1>15. Multiple(0, Hop(errand.chunk))
  <2>1. Hop(errand.chunk) \in Nat
    BY <1>1, ChunkParts
  <2>2. 0 = 0 * Hop(errand.chunk) /\ 0 \in Nat
    BY <2>1
  <2>3. QED BY <2>2 DEF Multiple
<1>16. Played(errand, clip.tlat, line', overlap', decoded')
  BY <1>9, <1>15 DEF Played
<1>17. QED BY <1>14, <1>16

\* When no window is left the sound is as long as the line.
LEMMA LineIsPlayed ==
    ASSUME errand \in Errands, errand.tool # "separate", LineFits(errand, clip.tlat, line),
           Played(errand, clip.tlat, line, overlap, decoded), ~MoreWindows
    PROVE  decoded = Rendered(clip.tlat, errand.chunk, line.ncodes)
<1>1. PICK c \in Nat \ (0 .. 3), h \in Nat \ {0}, o \in Nat \ {0}, b \in Nat, n \in Nat :
         /\ c = errand.chunk /\ h = Hop(c) /\ o = Ovlp(c) /\ h + o = c /\ o <= h + 1
         /\ b = line.beg /\ n = line.ncodes
  <2>1. PICK c \in Nat \ (0 .. 3) : c = errand.chunk
    BY ErrandFacts
  <2>2. /\ Hop(c) \in Nat \ {0} /\ Ovlp(c) \in Nat \ {0} /\ Hop(c) + Ovlp(c) = c
        /\ Ovlp(c) <= Hop(c) + 1
    BY ChunkParts
  <2>3. line.beg \in Nat /\ line.ncodes \in Nat
    BY DEF Played, LineFits
  <2>4. QED BY <2>1, <2>2, <2>3
<1>2. Single <=> Alone(errand, line)
  BY DEF Single, Alone
<1>3. b > 0
  <2>1. SUFFICES ASSUME b = 0 PROVE FALSE
    OBVIOUS
  <2>2. decoded = <<>>
    BY <1>1, <2>1 DEF Played
  <2>3. ~Single /\ ~(b < n - h)
    BY <1>1, <2>2 DEF MoreWindows
  <2>4. n >= c
    BY <1>1, <1>2, <2>3 DEF LineFits
  <2>5. QED BY <1>1, <2>1, <2>3, <2>4
<1>4. b >= h
  <2>1. PICK z \in Nat : z = 0
    OBVIOUS
  <2>2. Multiple(b, h)
    BY <1>1 DEF Played
  <2>3. Multiple(z, h)
    BY <2>1, <2>2, MultipleSteps
  <2>4. z + h <= b
    BY <1>3, <2>1, <2>2, <2>3, MultipleSteps
  <2>5. QED BY <2>1, <2>4
<1>5. b + o >= n
  <2>1. CASE Single
    <3>1. line.total <= c /\ n = line.total
      BY <1>1, <1>2, <2>1 DEF LineFits, Single
    <3>2. QED BY <1>1, <1>4, <3>1
  <2>2. CASE ~Single
    <3>1. ~(b < n - h)
      BY <1>1, <2>2 DEF MoreWindows
    <3>2. PICK x \in Int : x = n - o
      OBVIOUS
    <3>3. Multiple(b, h) /\ Multiple(x, h)
      <4>1. Multiple(n - o, h)
        BY <1>1, <1>2, <2>2 DEF LineFits
      <4>2. Multiple(b, h)
        BY <1>1 DEF Played
      <4>3. QED BY <3>2, <4>1, <4>2
    <3>4. b < x => b + h <= x
      BY <3>3, MultipleSteps
    <3>5. QED BY <1>1, <3>1, <3>2, <3>4
  <2>3. QED BY <2>1, <2>2
<1>6. Min2(b + o, n) = n
  BY <1>5 DEF Min2
<1>7. QED BY <1>1, <1>3, <1>6 DEF Played

\* The m frames after the first a, and their being rendered from codes alone.
IsCut(d, s, a, m) == d = SubSeq(s, a + 1, a + m)
FromCodes(d, a, m) == Len(d) = m /\ \A i \in 1 .. m : d[i] = {<<"code", a + i>>}

LEMMA TrimmedSound ==
    ASSUME NEW tlat \in Nat, NEW chunk \in Nat, NEW n \in Nat, NEW m \in Nat, tlat + m <= n,
           NEW s, s = Rendered(tlat, chunk, n), NEW d, IsCut(d, s, tlat, m)
    PROVE  FromCodes(d, tlat, m)
<1>1. d = [i \in 1 .. m |-> {Tone(tlat, chunk, tlat + i)}]
  <2>1. s = [i \in 1 .. n |-> s[i]] /\ \A i \in 1 .. n : s[i] = {Tone(tlat, chunk, i)}
    BY DEF Rendered
  <2> DEFINE S == {s[i] : i \in 1 .. n}
  <2>2. \A i \in 1 .. n : s[i] \in S
    OBVIOUS
  <2> HIDE DEF S
  <2>3. s \in [1 .. n -> S]
    BY <2>1, <2>2
  <2>4. SubSeq(s, tlat + 1, tlat + m) = [i \in 1 .. m |-> s[tlat + i]]
    BY <2>3, SliceOf
  <2>5. \A i \in 1 .. m : tlat + i \in 1 .. n
    OBVIOUS
  <2>6. QED BY <2>1, <2>4, <2>5 DEF IsCut
<1>2. ASSUME NEW i \in 1 .. m PROVE d[i] = {<<"code", tlat + i>>}
  <2>1. ~(tlat + i <= tlat)
    OBVIOUS
  <2>2. Tone(tlat, chunk, tlat + i) = <<"code", tlat + i>>
    BY <2>1, Zenon DEF Tone
  <2>3. QED BY <1>1, <2>2
<1>3. Len(d) = m
  <2> DEFINE S == {d[i] : i \in 1 .. m}
  <2>1. \A i \in 1 .. m : d[i] \in S
    OBVIOUS
  <2> HIDE DEF S
  <2>2. d \in [1 .. m -> S]
    BY <1>1, <2>1
  <2>3. QED BY <2>2
<1>4. QED BY <1>2, <1>3 DEF FromCodes

LEMMA GenerateHeard ==
    ASSUME errand \in Errands, LineFits(errand, clip.tlat, line),
           Played(errand, clip.tlat, line, overlap, decoded), GenerateTrim
    PROVE  /\ Len(decoded') = line.total - line.prompt
           /\ \A i \in 1 .. line.total - line.prompt : decoded'[i] = {<<"code", clip.tlat + i>>}
           /\ clip.tlat + (line.total - line.prompt) <= line.total
<1>1. errand.tool \in {"generate", "clone"} /\ ~MoreWindows
  BY DEF GenerateTrim
<1>2. PICK T \in Nat, n \in Nat, c \in Nat, z \in Nat :
         T = line.total /\ n = line.ncodes /\ c = errand.chunk /\ z = clip.tlat /\ n >= T
  <2>1. errand.chunk \in Nat
    BY ErrandFacts
  <2>2. QED BY <2>1 DEF LineFits
<1>3. z = 0 /\ line.prompt = 0
  BY <1>1, <1>2 DEF LineFits
<1>4. decoded = Rendered(z, c, n)
  BY <1>1, <1>2, LineIsPlayed
<1>5. Len(decoded) = n
  <2>1. Len(Rendered(z, c, n)) = n
    BY RenderedLength
  <2>2. QED BY <1>4, <2>1
<1>6. Min2(n, T) = T
  BY <1>2 DEF Min2
<1>7. decoded' = SubSeq(decoded, 1, T)
  BY <1>2, <1>5, <1>6 DEF GenerateTrim, Cut
<1>8. decoded' = SubSeq(decoded, z + 1, z + T)
  <2>1. z + 1 = 1 /\ z + T = T
    BY <1>3
  <2>2. QED BY <1>7, <2>1
<1>9. z + T <= n
  BY <1>2, <1>3
<1>10. PICK d : d = decoded'
  OBVIOUS
<1>11. Len(d) = T /\ \A i \in 1 .. T : d[i] = {<<"code", z + i>>}
  <2>1. IsCut(d, decoded, z, T)
    BY <1>8, <1>10 DEF IsCut
  <2>2. FromCodes(d, z, T)
    BY <1>4, <1>9, <2>1, TrimmedSound
  <2>3. QED BY <2>2 DEF FromCodes
<1>12. T - line.prompt = T /\ z + T <= T
  BY <1>3
<1>13. QED BY <1>2, <1>10, <1>11, <1>12

LEMMA ContinueHeard ==
    ASSUME errand \in Errands, LineFits(errand, clip.tlat, line),
           Played(errand, clip.tlat, line, overlap, decoded), ContinueTrim,
           MixClip(errand) \in {0, PromptClip(errand).len}
    PROVE  /\ Len(decoded') = line.total - line.prompt
           /\ \A i \in 1 .. line.total - line.prompt : decoded'[i] = {<<"code", clip.tlat + i>>}
           /\ clip.tlat + (line.total - line.prompt) <= line.total
<1>1. errand.tool = "continue" /\ ~MoreWindows
  BY DEF ContinueTrim
<1>2. PICK T \in Nat, n \in Nat, c \in Nat, z \in Nat, p \in Nat :
         /\ T = line.total /\ n = line.ncodes /\ c = errand.chunk /\ z = clip.tlat /\ n >= T
         /\ p = line.prompt
  <2>1. errand.chunk \in Nat
    BY ErrandFacts
  <2>2. QED BY <2>1 DEF LineFits
<1>3. p = z + 1
  BY <1>1, <1>2 DEF LineFits
<1>4. PICK F \in Nat : F = T - p
  BY <1>1, <1>2, ErrandFacts DEF LineFits
<1>5. decoded = Rendered(z, c, n)
  BY <1>1, <1>2, LineIsPlayed
<1>6. Len(decoded) = n
  <2>1. PICK y \in Nat : y = 0
    OBVIOUS
  <2>2. Len(Rendered(z, c, n)) = n
    BY RenderedLength
  <2>3. QED BY <1>5, <2>2
<1>7. ~(n < z) /\ Min2(n - z, F) = F /\ z + F <= n /\ z + F <= T
  BY <1>2, <1>3, <1>4 DEF Min2
<1>8. decoded' = SubSeq(decoded, z + 1, z + F)
  BY <1>2, <1>4, <1>6, <1>7 DEF ContinueTrim
<1>9. PICK d : d = decoded'
  OBVIOUS
<1>10. Len(d) = F /\ \A i \in 1 .. F : d[i] = {<<"code", z + i>>}
  <2>1. IsCut(d, decoded, z, F)
    BY <1>8, <1>9 DEF IsCut
  <2>2. FromCodes(d, z, F)
    BY <1>5, <1>7, <2>1, TrimmedSound
  <2>3. QED BY <2>2 DEF FromCodes
<1>11. QED BY <1>2, <1>4, <1>7, <1>9, <1>10

LEMMA StrideFits == Stride \in Nat \ {0} /\ SepSeg \in Nat /\ Stride <= SepSeg /\ SepSeg <= 2 * Stride
<1>1. PICK s \in Nat \ (0 .. 3) : s = SepSeg
  BY SonggenWindowsAssumption
<1>2. s * 3 \in Int
  OBVIOUS
<1>3. PICK q \in Int, r \in 0 .. 3 : q = (s * 3) \div 4 /\ s * 3 = 4 * q + r
  BY <1>2, Remainder
<1>4. Stride = q
  BY <1>1, <1>3 DEF Stride
<1>5. QED BY <1>1, <1>3, <1>4

LEMMA SegmentSeparates ==
    ASSUME errand \in Errands, line.beg \in Nat, Separated(errand.mix, line.beg, decoded), SeparateSegment
    PROVE  /\ windowPc' = "done" => \A i \in 1 .. errand.mix :
                decoded'[i] # {} /\ \E x, y : decoded'[i] \subseteq {x, y}
           /\ windowPc' # "done" => Separated(errand.mix, line.beg + Stride, decoded')
<1>1. PICK mix \in Nat, b \in Nat, S \in Nat \ {0}, G \in Nat :
         mix = errand.mix /\ b = line.beg /\ S = Stride /\ G = SepSeg /\ S <= G /\ G <= 2 * S
  BY ErrandFacts, StrideFits
<1>2. PICK len \in Int : len = Min2(G, mix - b)
  BY DEF Min2
<1>3. PICK s : s = <<"seg", b>>
  OBVIOUS
<1>4. decoded' = [i \in 1 .. mix |-> IF i \in b + 1 .. b + len THEN decoded[i] \cup {s} ELSE decoded[i]]
  BY <1>1, <1>2, <1>3 DEF SeparateSegment
<1>5. \A i \in 1 .. mix :
         /\ i <= b => decoded[i] # {} /\ \E x, y : decoded[i] \subseteq {x, y}
         /\ i > b => \E x : decoded[i] \subseteq {x}
         /\ i > b - S + G => decoded[i] = {}
  BY <1>1 DEF Separated
<1>6. ASSUME NEW i \in 1 .. mix, i <= b
      PROVE  decoded'[i] # {} /\ \E x, y : decoded'[i] \subseteq {x, y}
  <2>1. ~(i \in b + 1 .. b + len)
    BY <1>6
  <2>2. decoded'[i] = decoded[i]
    BY <1>4, <2>1
  <2>3. QED BY <1>5, <1>6, <2>2
<1>7. ASSUME NEW i \in 1 .. mix, i > b, i <= b + len
      PROVE  decoded'[i] # {} /\ \E x, y : decoded'[i] \subseteq {x, y}
  <2>1. i \in b + 1 .. b + len
    BY <1>7
  <2>2. decoded'[i] = decoded[i] \cup {s}
    BY <1>4, <2>1
  <2>3. PICK x : decoded[i] \subseteq {x}
    BY <1>5, <1>7
  <2>4. QED BY <2>2, <2>3
<1>8. windowPc' = "done" => b + G >= mix \/ b + S >= mix
  BY <1>1 DEF SeparateSegment
<1>9. ASSUME windowPc' = "done", NEW i \in 1 .. mix
      PROVE  decoded'[i] # {} /\ \E x, y : decoded'[i] \subseteq {x, y}
  <2>1. b + G >= mix
    BY <1>1, <1>8, <1>9
  <2>2. len = mix - b
    BY <1>2, <2>1 DEF Min2
  <2>3. i <= b \/ (i > b /\ i <= b + len)
    BY <2>2
  <2>4. QED BY <1>6, <1>7, <2>3
<1>10. ASSUME windowPc' # "done" PROVE Separated(mix, b + S, decoded')
  <2>1. ~(b + G >= mix)
    BY <1>1, <1>10 DEF SeparateSegment
  <2>2. len = G
    BY <1>2, <2>1 DEF Min2
  <2>3. ASSUME NEW i \in 1 .. mix, i <= b + S
        PROVE  decoded'[i] # {} /\ \E x, y : decoded'[i] \subseteq {x, y}
    <3>1. i <= b \/ (i > b /\ i <= b + len)
      BY <1>1, <2>2, <2>3
    <3>2. QED BY <1>6, <1>7, <3>1
  <2>4. ASSUME NEW i \in 1 .. mix, i > b + S
        PROVE  \E x : decoded'[i] \subseteq {x}
    <3>1. decoded[i] = {}
      <4>1. i > b - S + G
        BY <1>1, <2>4
      <4>2. QED BY <1>5, <4>1
    <3>2. decoded'[i] \in {decoded[i], decoded[i] \cup {s}}
      BY <1>4
    <3>3. QED BY <3>1, <3>2
  <2>5. ASSUME NEW i \in 1 .. mix, i > (b + S) - S + G
        PROVE  decoded'[i] = {}
    <3>1. i > b - S + G /\ ~(i \in b + 1 .. b + len)
      BY <1>1, <2>2, <2>5
    <3>2. decoded[i] = {}
      BY <1>5, <3>1
    <3>3. QED BY <1>4, <3>1, <3>2
  <2>6. QED BY <1>1, <2>3, <2>4, <2>5 DEF Separated
<1>11. QED BY <1>1, <1>9, <1>10

LEMMA AtMostTwo ==
    ASSUME NEW T, NEW x, NEW y, T \subseteq {x, y}
    PROVE  Cardinality(T) <= 2
<1>1. IsFiniteSet({x}) /\ Cardinality({x}) = 1
  BY FS_Singleton
<1>2. IsFiniteSet({x} \cup {y}) /\ Cardinality({x} \cup {y}) = IF y \in {x} THEN Cardinality({x}) ELSE Cardinality({x}) + 1
  BY <1>1, FS_AddElement
<1>3. PICK U : U = {x} \cup {y} /\ T \subseteq U
  OBVIOUS
<1>4. IsFiniteSet(U) /\ Cardinality(U) \in {1, 2}
  BY <1>1, <1>2, <1>3
<1>5. IsFiniteSet(T) /\ Cardinality(T) <= Cardinality(U)
  BY <1>3, <1>4, FS_Subset
<1>6. Cardinality(T) \in Nat
  BY <1>5, FS_CardinalityType
<1>7. QED BY <1>4, <1>5, <1>6

LEMMA SeamInit == WinInit => SeamInv
<1> SUFFICES ASSUME WinInit PROVE SeamInv
  OBVIOUS
<1>1. StreamInv
  BY StreamInit
<1>2. errand \in Errands /\ line.beg = 0 /\ clip.tlat = 0
  BY DEF WinInit
<1>3. windowPc # "window" /\ windowPc # "done"
  BY <1>2, ErrandFacts DEF WinInit
<1>4. windowPc \in {"prompt", "codes"} => errand.tool # "separate" /\ decoded = <<>>
  BY DEF WinInit
<1>5. windowPc = "codes" => errand.tool = "generate"
  BY DEF WinInit
<1>6. windowPc = "segments" => errand.tool = "separate"
  BY DEF WinInit
<1>7. windowPc = "segments" => Separated(errand.mix, line.beg, decoded)
  BY <1>6 DEF WinInit, Separated
<1>8. WindowsJoinUp
  BY <1>3 DEF WindowsJoinUp, SeamsJoinTheSameMoment, EverySampleSeparated
<1>9. line \in [total : Nat, prompt : Nat, beg : Nat, ncodes : Nat]
  BY DEF WinInit
<1>10. QED BY <1>1, <1>2, <1>3, <1>4, <1>5, <1>6, <1>7, <1>8, <1>9 DEF SeamInv

LEMMA SeamStep == SeamInv /\ [WinNext]_winVars => SeamInv'
<1> SUFFICES ASSUME SeamInv, [WinNext]_winVars PROVE SeamInv'
  OBVIOUS
<1>1. StreamInv /\ StreamInv'
  BY StreamStep DEF SeamInv
<1>2. errand \in Errands
  BY <1>1 DEF StreamInv
<1>3. windowPc' # "done" => WindowsJoinUp'
  BY DEF WindowsJoinUp, SeamsJoinTheSameMoment, EverySampleSeparated
<1>4. CASE ClonePrompt
  <2>1. /\ windowPc' = "codes" /\ errand' = errand /\ errand.tool = "clone" /\ line' = line
        /\ decoded' = decoded /\ clip'.tlat = 0 /\ windowPc = "prompt"
    BY <1>4 DEF ClonePrompt
  <2>2. QED BY <1>1, <1>3, <2>1 DEF SeamInv
<1>5. CASE ContinuePrompt
  <2>1. /\ windowPc' = "codes" /\ errand' = errand /\ errand.tool = "continue" /\ line' = line
        /\ decoded' = decoded /\ clip'.tlat = PromptClip(errand).len \div Up /\ windowPc = "prompt"
    BY <1>5 DEF ContinuePrompt
  <2>2. PICK len \in Nat : len = PromptClip(errand).len
    BY <1>2, ClipLengths
  <2>3. clip'.tlat \in Nat
    BY <2>1, <2>2, HalvedFrames
  <2>4. QED BY <1>1, <1>3, <2>1, <2>3 DEF SeamInv
<1>6. CASE GenerateLine
  <2>1. /\ windowPc' = "window" /\ errand' = errand /\ errand.tool \in {"generate", "clone"}
        /\ clip' = clip /\ windowPc = "codes"
    BY <1>6 DEF GenerateLine
  <2>2. clip.tlat = 0 /\ line.beg = 0 /\ decoded = <<>>
    BY <2>1 DEF SeamInv
  <2>3. LineFits(errand, clip.tlat, line') /\ Played(errand, clip.tlat, line', overlap', decoded')
    BY <1>2, <1>6, <2>2, GenerateFits
  <2>4. QED BY <1>1, <1>3, <2>1, <2>3 DEF SeamInv
<1>7. CASE ContinueLine
  <2>1. /\ windowPc' = "window" /\ errand' = errand /\ errand.tool = "continue"
        /\ clip' = clip /\ windowPc = "codes"
    BY <1>7 DEF ContinueLine
  <2>2. clip.tlat = PromptClip(errand).len \div Up /\ line.beg = 0 /\ decoded = <<>>
    BY <2>1 DEF SeamInv
  <2>3. Encoded(errand, clip.codes)
    BY <1>1, <2>1 DEF StreamInv
  <2>4. LineFits(errand, clip.tlat, line') /\ Played(errand, clip.tlat, line', overlap', decoded')
    BY <1>2, <1>7, <2>2, <2>3, ContinueFits
  <2>5. QED BY <1>1, <1>3, <2>1, <2>4 DEF SeamInv
<1>8. CASE DecodeWindow
  <2>1. windowPc' = "window" /\ windowPc = "window" /\ errand' = errand /\ clip' = clip
    BY <1>8 DEF DecodeWindow
  <2>2. /\ errand.tool # "separate" /\ LineFits(errand, clip.tlat, line)
        /\ Played(errand, clip.tlat, line, overlap, decoded)
    BY <2>1 DEF SeamInv
  <2>3. LineFits(errand, clip.tlat, line') /\ Played(errand, clip.tlat, line', overlap', decoded')
    BY <1>2, <1>8, <2>2, DecodePlays
  <2>4. QED BY <1>1, <1>3, <2>1, <2>2, <2>3 DEF SeamInv
<1>9. CASE GenerateTrim \/ ContinueTrim
  <2>1. /\ windowPc' = "done" /\ windowPc = "window" /\ errand' = errand /\ clip' = clip /\ line' = line
        /\ errand.tool # "separate"
    BY <1>9 DEF GenerateTrim, ContinueTrim
  <2>2. LineFits(errand, clip.tlat, line) /\ Played(errand, clip.tlat, line, overlap, decoded)
    BY <2>1 DEF SeamInv
  <2>3. ASSUME errand.tool = "continue" => MixClip(errand) \in {0, PromptClip(errand).len}
        PROVE  /\ Len(decoded') = line.total - line.prompt
               /\ \A i \in 1 .. line.total - line.prompt : decoded'[i] = {<<"code", clip.tlat + i>>}
               /\ clip.tlat + (line.total - line.prompt) <= line.total
    <3>1. CASE GenerateTrim
      BY <1>2, <2>2, <3>1, GenerateHeard
    <3>2. CASE ContinueTrim
      <4>1. errand.tool = "continue"
        BY <3>2 DEF ContinueTrim
      <4>2. QED BY <1>2, <2>2, <2>3, <3>2, <4>1, ContinueHeard
    <3>3. QED BY <1>9, <3>1, <3>2
  <2>4. SeamsJoinTheSameMoment'
    BY <2>1, <2>3 DEF SeamsJoinTheSameMoment
  <2>5. EverySampleSeparated'
    BY <2>1 DEF EverySampleSeparated
  <2>6. QED BY <1>1, <2>1, <2>4, <2>5 DEF SeamInv, WindowsJoinUp
<1>10. CASE SeparateSegment
  <2>1. errand' = errand /\ clip' = clip /\ windowPc = "segments" /\ windowPc' \in {"segments", "done"}
    BY <1>10 DEF SeparateSegment
  <2>2. errand.tool = "separate" /\ line.beg \in Nat /\ Separated(errand.mix, line.beg, decoded)
    BY <2>1 DEF SeamInv
  <2>3. CASE windowPc' = "done"
    <3>1. \A i \in 1 .. errand.mix : decoded'[i] # {} /\ \E x, y : decoded'[i] \subseteq {x, y}
      BY <1>2, <1>10, <2>2, <2>3, SegmentSeparates
    <3>2. ASSUME NEW i \in 1 .. errand.mix PROVE decoded'[i] # {} /\ Cardinality(decoded'[i]) <= 2
      BY <3>1, AtMostTwo
    <3>3. EverySampleSeparated'
      BY <2>1, <3>2 DEF EverySampleSeparated
    <3>4. SeamsJoinTheSameMoment'
      BY <2>1, <2>2 DEF SeamsJoinTheSameMoment
    <3>5. QED BY <1>1, <2>1, <2>3, <3>3, <3>4 DEF SeamInv, WindowsJoinUp
  <2>4. CASE windowPc' # "done"
    <3>1. Separated(errand.mix, line.beg + Stride, decoded')
      BY <1>2, <1>10, <2>2, <2>4, SegmentSeparates
    <3>2. line' = [line EXCEPT !.beg = @ + Stride]
      BY <1>10, <2>4 DEF SeparateSegment
    <3>3. line \in [total : Nat, prompt : Nat, beg : Nat, ncodes : Nat]
      BY <2>1 DEF SeamInv
    <3>4. line.beg + Stride \in Nat
      BY <2>2, StrideFits
    <3>5. /\ line'.beg = line.beg + Stride
          /\ line' \in [total : Nat, prompt : Nat, beg : Nat, ncodes : Nat]
      BY <3>2, <3>3, <3>4
    <3>6. QED BY <1>1, <1>3, <2>1, <2>2, <2>4, <3>1, <3>5 DEF SeamInv
  <2>5. QED BY <2>3, <2>4
<1>11. CASE UNCHANGED winVars
  <2>1. /\ errand' = errand /\ windowPc' = windowPc /\ clip' = clip /\ line' = line
        /\ overlap' = overlap /\ decoded' = decoded
    BY <1>11 DEF winVars
  <2>2. WindowsJoinUp'
    BY <2>1, Zenon DEF SeamInv, WindowsJoinUp, SeamsJoinTheSameMoment, EverySampleSeparated
  <2>3. QED BY <1>1, <2>1, <2>2 DEF SeamInv
<1>12. QED BY <1>4, <1>5, <1>6, <1>7, <1>8, <1>9, <1>10, <1>11 DEF WinNext

\* Whatever the song's length, the chunk, the prompt and the mix: every output
\* frame of a decoded song is rendered from its own code alone, without a gap
\* or a repeat at the seams (the chunk loops of songgen-decode-post.h), and
\* every sample of a separated mix weighs in one or two segments
\* (songgen-separate).
THEOREM SeamsHold == WinSpec => []WindowsJoinUp
<1>1. SeamInv => WindowsJoinUp
  BY DEF SeamInv
<1>2. QED BY <1>1, SeamInit, SeamStep, PTL DEF WinSpec
=============================================================================
