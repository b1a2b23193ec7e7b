----------------------------- MODULE Sound_proofs -----------------------------
(***************************************************************************)
(* Proofs about what becomes sound.                                        *)
(*                                                                         *)
(* DitLoop, for any number of tracks, steps and sub steps: every forward   *)
(* pass is fed the buffers of its own step, and the solver's history is    *)
(* the track's own past. SynthRegion, for every frame length, canvas and   *)
(* request: the region heard is the region asked for, and nothing else of  *)
(* the source changes. Mp3Stream, for every song, rate, content and number *)
(* of threads: a decoder finds the data of every frame, and every sample   *)
(* comes once. Mp3Quant, for every granule a gain below 256 can silence:   *)
(* what is written of it is as long as its header says.                    *)
(***************************************************************************)
EXTENDS DitLoop, SynthRegion, Mp3Stream, Mp3Quant, FiniteSetTheorems, SequenceTheorems, WellFoundedInduction,
        TLAPS

-----------------------------------------------------------------------------
(***************************************************************************)
(* Numbers.                                                                *)
(***************************************************************************)

LEMMA LeastElement ==
    ASSUME NEW S, S \subseteq Nat, S # {}
    PROVE  \E m \in S : \A x \in S : m <= x
<1> DEFINE R == {p \in Nat \X Nat : p[1] < p[2]}
<1>1. IsWellFoundedOn(R, Nat)
  BY NatLessThanWellFounded DEF OpToRel
<1> HIDE DEF R
<1>2. PICK m \in S : \A x \in S : ~ (<<x, m>> \in R)
  BY <1>1, WFMin
<1>3. \A x \in S : ~ (x < m)
  BY <1>2 DEF R
<1>4. QED BY <1>3

LEMMA Quotient ==
    ASSUME NEW n \in Int, NEW d \in Nat \ {0}
    PROVE  \E q \in Int, r \in 0 .. d - 1 : q = n \div d /\ r = n % d /\ n = d * q + r
<1>1. n \div d \in Int
  OBVIOUS
<1>2. n % d \in 0 .. d - 1
  OBVIOUS
<1>3. n = d * (n \div d) + (n % d)
  OBVIOUS
<1>4. QED BY <1>1, <1>2, <1>3

LEMMA Multiples ==
    ASSUME NEW a \in Int, NEW b \in Int, NEW d \in Nat \ {0}
    PROVE  /\ a < b => d * a + d <= d * b
           /\ d * a < d * b => a < b
           /\ d * a <= d * b <=> a <= b
<1>1. a < b => d * a + d <= d * b
  <2>1. SUFFICES ASSUME a < b PROVE d * (b - a - 1) >= 0
    OBVIOUS
  <2>2. QED BY <2>1
<1>2. b < a => d * b + d <= d * a
  <2>1. SUFFICES ASSUME b < a PROVE d * (a - b - 1) >= 0
    OBVIOUS
  <2>2. QED BY <2>1
<1>3. d * a \in Int /\ d * b \in Int
  OBVIOUS
<1>4. QED BY <1>1, <1>2, <1>3

-----------------------------------------------------------------------------
(* DitLoop: what each forward pass is fed.                                 *)

\* The context has been switched by the time step k is predicted.
Switches(k) == cover_steps >= 0 /\ k >= cover_steps

\* The host buffers with the latent of step x, before or after the switch.
HostOf(x, sw) ==
    [ctx |-> [s \in GraphSlots |-> IF sw THEN <<"silence">> ELSE <<"context", OfTrack(s)>>],
     enc |-> [s \in GraphSlots |-> IF IsCond(s) THEN (IF sw THEN <<"enc_nc", s>> ELSE <<"enc", s>>)
                                                ELSE <<"null">>],
     ca |-> [s \in GraphSlots |-> IF sw /\ IsCond(s) THEN <<"enc_nc", s>> ELSE <<"enc", OfTrack(s)>>],
     x |-> x]

\* What a slot sees with the encoder states enc and the mask ca.
Sees(b, enc, ca) ==
    [i \in Inputs |-> CASE i = "t" -> <<schedule[step + 1]>>
                        [] i = "enc" -> enc
                        [] i = "ca_mask" -> ca
                        [] i = "input" -> <<Ctx(b, step), step>>
                        [] OTHER -> <<"set">>]

DitPcs ==
    {"schedule", "graph", "poll", "cond", "reupload", "uncond", "guide", "update",
     "done", "failed", "cancelled"}
Passing == {"cond", "reupload", "uncond", "guide", "update"}

DitTypeOK ==
    /\ ditPc \in DitPcs
    /\ plan \in DitPlan
    /\ ~plan.cover => plan.strength = 4
    /\ step \in Nat
    /\ ditPc \in {"schedule", "graph"} => step = 0
    /\ ditPc # "schedule" =>
          /\ schedule \in Seq(Nat) /\ Len(schedule) > 0 /\ step <= Len(schedule)
          /\ cover_steps = SwitchAt(Len(schedule))
    /\ ditPc \in Passing => step < Len(schedule)

HostInv ==
    /\ ditPc = "poll" => host = HostOf(step, Switches(step - 1))
    /\ ditPc \in Passing => host = HostOf(step, Switches(step))

\* The predictions made so far in this step.
PassInv ==
    /\ ditPc = "cond" => device = Uploaded(host, host.enc)
    /\ ditPc = "uncond" => device = Reuploaded
    /\ ditPc \in {"reupload", "uncond"} => plan.cfg = "2-pass"
    /\ ditPc \in {"reupload", "uncond", "guide", "update"} => \A b \in Track :
          /\ DOMAIN vt[b] = {"cond", "uncond"}
          /\ vt[b].cond = Sees(b, Enc(b, step), Enc(b, step))
    /\ ditPc \in {"guide", "update"} /\ plan.cfg # "off" => \A b \in Track :
          \E m \in {<<"enc", b>>, <<"enc_nc", b>>} : vt[b].uncond = Sees(b, <<"null">>, m)

\* How many steps the momentum has averaged, and how many keys were used.
Averaged == IF plan.cfg = "off" THEN 0 ELSE IF ditPc = "update" THEN step + 1 ELSE step
KeysUsed == IF plan.solver = "sde" /\ ditPc # "done" THEN step + 1
            ELSE IF plan.solver = "sde" THEN step ELSE 1

Past(i) == [of |-> step - i, dt |-> schedule[step - i + 1] - schedule[step - i + 2]]

PastInv ==
    /\ mbuf = [b \in Track |-> [i \in 1 .. Averaged |-> i - 1]]
    /\ ditPc # "schedule" => noise = [b \in Track |-> [i \in 1 .. KeysUsed |-> i - 1]]
    /\ ditPc = "schedule" => noise = [b \in Track |-> <<>>]
    /\ ditPc \in {"schedule", "graph"} \cup Passing \cup {"poll"} =>
          solver = [i \in 1 .. (IF step < Order THEN step ELSE Order) |-> Past(i)]
    /\ ditPc # "done" => latents = Nothing
    /\ ditPc = "done" => latents = <<Len(schedule) - 1, schedule[Len(schedule)]>>

DitInv == DitTypeOK /\ HostInv /\ PassInv /\ PastInv

-----------------------------------------------------------------------------
\* Division rounds down and leaves a remainder.
LEMMA Remainder ==
    ASSUME NEW R \in Nat \ {0}, NEW a \in Int
    PROVE  a \div R \in Int /\ a % R \in 0 .. R - 1 /\ a = R * (a \div R) + (a % R)
<1>1. a \div R \in Int
  OBVIOUS
<1>2. a % R \in 0 .. R - 1
  OBVIOUS
<1>3. a = R * (a \div R) + (a % R)
  OBVIOUS
<1>4. QED BY <1>1, <1>2, <1>3

\* There is one quotient and one remainder.
LEMMA QuotientOf ==
    ASSUME NEW R \in Nat \ {0}, NEW q \in Int, NEW r \in 0 .. R - 1
    PROVE  (R * q + r) \div R = q /\ (R * q + r) % R = r
<1> DEFINE a == R * q + r
<1>1. a \in Int
  OBVIOUS
<1>2. PICK p \in Int, s \in 0 .. R - 1 : p = a \div R /\ s = a % R /\ a = R * p + s
  <2> HIDE DEF a
  <2>1. QED BY <1>1, Remainder
<1> HIDE DEF a
<1>3. a = R * q + r
  BY DEF a
<1>4. PICK d \in Int : d = q - p
  OBVIOUS
<1>5. R * d = s - r
  BY <1>2, <1>3, <1>4
<1>6. d <= 0 \/ d >= 1
  OBVIOUS
<1>7. d >= 0 \/ d <= -1
  OBVIOUS
<1>8. d < 1
  BY <1>5, <1>6
<1>9. d > -1
  BY <1>5, <1>7
<1>10. d = 0
  BY <1>8, <1>9
<1>11. q = p /\ r = s
  BY <1>4, <1>5, <1>10
<1>12. QED BY <1>2, <1>11 DEF a

LEMMA SlotsOfTrack ==
    ASSUME NEW b \in Track
    PROVE  /\ b \in GraphSlots /\ IsCond(b) /\ OfTrack(b) = b
           /\ Batched => /\ Tracks + b \in GraphSlots /\ ~IsCond(Tracks + b)
                         /\ OfTrack(Tracks + b) = b
<1>1. Tracks \in Nat \ {0} /\ b \in 0 .. Tracks - 1
  BY DitAssumption DEF Track
<1>2. (Tracks * 0 + b) % Tracks = b /\ (Tracks * 1 + b) % Tracks = b
  BY <1>1, QuotientOf
<1>3. Tracks * 0 + b = b /\ Tracks * 1 + b = Tracks + b
  BY <1>1
<1>4. b % Tracks = b /\ (Tracks + b) % Tracks = b
  BY <1>2, <1>3
<1>5. QED BY <1>1, <1>4 DEF GraphSlots, IsCond, OfTrack

LEMMA RunRange ==
    ASSUME DitTypeOK, ditPc # "schedule"
    PROVE  /\ Len(schedule) \in Nat /\ plan.strength \in 0 .. 4 /\ step \in Nat
           /\ plan.cover \in BOOLEAN /\ (~plan.cover => plan.strength = 4)
           /\ cover_steps = SwitchAt(Len(schedule)) /\ cover_steps \in Int
<1>1. Len(schedule) \in Nat /\ cover_steps = SwitchAt(Len(schedule)) /\ step \in Nat
  <2>1. schedule \in Seq(Nat)
    BY DEF DitTypeOK
  <2>2. QED BY <2>1 DEF DitTypeOK
<1>2. plan.strength \in 0 .. 4 /\ plan.cover \in BOOLEAN /\ (~plan.cover => plan.strength = 4)
  <2>1. plan.strength \in Quarters /\ plan.cover \in BOOLEAN
    BY DEF DitTypeOK, DitPlan
  <2>2. QED BY <2>1, DitAssumption DEF DitTypeOK
<1>3. Len(schedule) * plan.strength \in Nat
  BY <1>1, <1>2
<1>4. (Len(schedule) * plan.strength) \div 4 \in Int
  BY <1>3
<1>5. QED BY <1>1, <1>2, <1>4 DEF SwitchAt

\* The switch comes where the source has been heard for its share of the steps.
LEMMA SwitchIsTheShare ==
    ASSUME DitTypeOK, ditPc \in Passing
    PROVE  Switches(step) <=> ~HearsSource(step)
<1> DEFINE n == Len(schedule)
           m == n * plan.strength
<1>1. /\ n \in Nat /\ plan.strength \in 0 .. 4 /\ step \in Nat
      /\ cover_steps = SwitchAt(n) /\ (~plan.cover => plan.strength = 4) /\ plan.cover \in BOOLEAN
  BY RunRange DEF Passing
<1>2. CASE plan.cover /\ plan.strength < 4
  <2>1. m \in Nat /\ cover_steps = m \div 4
    BY <1>1, <1>2 DEF SwitchAt
  <2> HIDE DEF n
  <2>2. HearsSource(step) <=> 4 * (step + 1) <= m
    BY <1>1, <1>2 DEF HearsSource, n
  <2> HIDE DEF m
  <2>3. QED BY <1>1, <2>1, <2>2 DEF Switches
<1>3. CASE ~(plan.cover /\ plan.strength < 4)
  <2>1. cover_steps = -1 /\ plan.strength = 4
    BY <1>1, <1>3 DEF SwitchAt
  <2>2. QED BY <1>1, <2>1 DEF Switches, HearsSource
<1>4. QED BY <1>2, <1>3

\* What a pass over the uploaded buffers sees, slot by slot.
LEMMA CondSlotSees ==
    ASSUME DitTypeOK, ditPc \in Passing, host = HostOf(step, Switches(step)), NEW b \in Track
    PROVE  [i \in Inputs |-> Uploaded(host, host.enc)[i][b]] = Sees(b, Enc(b, step), Enc(b, step))
<1>1. b \in GraphSlots /\ IsCond(b) /\ OfTrack(b) = b
  BY SlotsOfTrack
<1>2. Switches(step) <=> ~HearsSource(step)
  BY SwitchIsTheShare
<1>3. host.ctx[b] = Ctx(b, step) /\ host.enc[b] = Enc(b, step) /\ host.ca[b] = Enc(b, step) /\ host.x = step
  BY <1>1, <1>2 DEF HostOf, Ctx, Enc
<1>4. ASSUME NEW i \in Inputs
      PROVE  Uploaded(host, host.enc)[i][b] = Sees(b, Enc(b, step), Enc(b, step))[i]
  BY <1>1, <1>3, <1>4 DEF Uploaded, Sees, Inputs
<1>5. QED BY <1>4 DEF Sees

LEMMA NullSlotSees ==
    ASSUME DitTypeOK, ditPc \in Passing, host = HostOf(step, Switches(step)), NEW b \in Track,
           NEW s \in GraphSlots, OfTrack(s) = b, NEW enc, enc[s] = <<"null">>
    PROVE  \E m \in {<<"enc", b>>, <<"enc_nc", b>>} :
              [i \in Inputs |-> Uploaded(host, enc)[i][s]] = Sees(b, <<"null">>, m)
<1>2. Switches(step) <=> ~HearsSource(step)
  BY SwitchIsTheShare
<1>3. host.ctx[s] = Ctx(b, step) /\ host.x = step
  BY <1>2 DEF HostOf, Ctx
<1>4. PICK m : m = host.ca[s]
  OBVIOUS
<1>5. m \in {<<"enc", b>>, <<"enc_nc", b>>}
  <2>1. IsCond(s) => s = b
    <3>1. SUFFICES ASSUME s < Tracks PROVE s = b
      BY DEF IsCond
    <3>2. s \in Track
      BY <3>1, DitAssumption DEF GraphSlots, Track
    <3>3. QED BY <3>2, SlotsOfTrack
  <2>2. QED BY <1>4, <2>1 DEF HostOf
<1>6. ASSUME NEW i \in Inputs PROVE Uploaded(host, enc)[i][s] = Sees(b, <<"null">>, m)[i]
  BY <1>3, <1>4, <1>6 DEF Uploaded, Sees, Inputs
<1>7. [i \in Inputs |-> Uploaded(host, enc)[i][s]] = Sees(b, <<"null">>, m)
  BY <1>6 DEF Sees
<1>8. QED BY <1>5, <1>7

\* What a track has been through, one step longer.
LEMMA Grown ==
    ASSUME NEW n \in Nat
    PROVE  Append([i \in 1 .. n |-> i - 1], n) = [i \in 1 .. n + 1 |-> i - 1]
OBVIOUS

-----------------------------------------------------------------------------
LEMMA FirstStep ==
    ASSUME plan \in DitPlan, plan.noise > 0
    PROVE  NearestStep \in 1 .. plan.asked
<1> DEFINE n == plan.asked
<1>1. n \in Nat \ {0} /\ plan.noise \in 0 .. 4
  BY DitAssumption DEF DitPlan
<1>2. \A i \in 1 .. n : Distance(i) \in Nat
  <2>1. SUFFICES ASSUME NEW i \in 1 .. n PROVE Distance(i) \in Nat
    OBVIOUS
  <2>2. Levels[i] \in Int
    BY <1>1 DEF Levels
  <2>3. n * (4 - plan.noise) \in Int
    BY <1>1
  <2>4. QED BY <2>2, <2>3 DEF Distance
<1>3. PICK d \in Nat : /\ \E i \in 1 .. n : Distance(i) = d
                       /\ \A i \in 1 .. n : d <= Distance(i)
  <2> DEFINE S == {d \in Nat : \E i \in 1 .. n : Distance(i) = d}
  <2>1. S # {} /\ S \subseteq Nat
    <3>1. 1 \in 1 .. n
      BY <1>1
    <3>2. QED BY <3>1, <1>2
  <2>2. PICK d \in S : \A x \in S : d <= x
    <3> HIDE DEF S
    <3>1. QED BY <2>1, LeastElement
  <2>3. QED BY <2>2, <1>2
<1>4. PICK i \in 1 .. n : Distance(i) = d /\ \A j \in 1 .. n : Distance(j) = d => i <= j
  <2> DEFINE S == {j \in 1 .. n : Distance(j) = d}
  <2>1. S # {} /\ S \subseteq Nat
    BY <1>3
  <2>2. PICK i \in S : \A x \in S : i <= x
    <3> HIDE DEF S
    <3>1. QED BY <2>1, LeastElement
  <2>3. QED BY <2>2
<1>5. \A j \in 1 .. n : Distance(i) < Distance(j) \/ (Distance(i) = Distance(j) /\ i <= j)
  BY <1>2, <1>3, <1>4
<1>6. QED BY <1>5 DEF NearestStep

LEMMA PrepareRunInv == ASSUME DitInv, PrepareRun PROVE DitInv'
<1> USE DEF DitInv
<1> DEFINE first == IF plan.noise > 0 THEN NearestStep ELSE 1
           n == plan.asked
<1>1. /\ ditPc = "schedule" /\ ditPc' = "graph" /\ plan' = plan /\ step = 0 /\ step' = 0
      /\ schedule' = SubSeq(Levels, first, n) /\ cover_steps' = SwitchAt(Len(schedule'))
      /\ noise' = [b \in Track |-> <<0>>]
      /\ UNCHANGED <<host, device, vt, mbuf, solver, latents>>
  BY DEF PrepareRun, DitTypeOK
<1>2. n \in Nat \ {0} /\ first \in 1 .. n
  <2>1. n \in Nat \ {0}
    BY DitAssumption DEF DitTypeOK, DitPlan
  <2>2. QED BY <2>1, FirstStep DEF DitTypeOK
<1> HIDE DEF first
<1>3. schedule' \in Seq(Nat) /\ Len(schedule') > 0
  <2>1. \A i \in first .. n : Levels[i] \in Nat
    BY <1>2 DEF Levels
  <2>2. SubSeq(Levels, first, n) \in Seq(Nat) /\ Len(SubSeq(Levels, first, n)) = n - first + 1
    BY <2>1, <1>2, SubSeqProperties
  <2>3. QED BY <1>1, <1>2, <2>2
<1>4. DitTypeOK'
  BY <1>1, <1>3 DEF DitTypeOK, DitPcs, SwitchAt, Passing
<1>5. HostInv' /\ PassInv'
  BY <1>1 DEF HostInv, PassInv, Passing
<1>6. PastInv'
  <2>1. KeysUsed' = 1 /\ Averaged' = Averaged /\ Order' = Order
    BY <1>1 DEF KeysUsed, Averaged, Order
  <2>2. noise' = [b \in Track |-> [i \in 1 .. KeysUsed' |-> i - 1]]
    <3>1. <<0>> = [i \in 1 .. 1 |-> i - 1]
      OBVIOUS
    <3>2. QED BY <1>1, <2>1, <3>1
  <2>3. solver' = [i \in 1 .. (IF step' < Order' THEN step' ELSE Order') |-> Past(i)']
    <3>1. Order \in Nat
      BY DEF Order
    <3>2. solver = [i \in 1 .. 0 |-> Past(i)]
      BY <1>1, <3>1 DEF PastInv
    <3>3. solver' = [i \in 1 .. 0 |-> Past(i)']
      BY <1>1, <3>2
    <3>4. QED BY <1>1, <2>1, <3>1, <3>3
  <2>4. QED BY <1>1, <2>1, <2>2, <2>3 DEF PastInv, Track
<1>7. QED BY <1>4, <1>5, <1>6

LEMMA BuildGraphInv == ASSUME DitInv, BuildGraph PROVE DitInv'
<1> USE DEF DitInv
<1>1. /\ ditPc = "graph" /\ ditPc' \in {"poll", "failed"} /\ step = 0
      /\ UNCHANGED <<plan, schedule, cover_steps, step, device, vt, mbuf, solver, noise, latents>>
  BY DEF BuildGraph, DitTypeOK
<1>2. DitTypeOK'
  BY <1>1 DEF DitTypeOK, DitPcs, SwitchAt, Passing
<1>3. HostInv'
  <2>1. SUFFICES ASSUME ditPc' = "poll" PROVE host' = HostOf(step, Switches(step - 1))
    BY <1>1 DEF HostInv, Passing, HostOf, Switches, GraphSlots, Batched, IsCond, OfTrack
  <2>2. ~Switches(step - 1)
    <3>1. cover_steps \in Int /\ step = 0
      BY <1>1, RunRange
    <3>2. QED BY <3>1 DEF Switches
  <2>3. host' = [ctx |-> [s \in GraphSlots |-> <<"context", OfTrack(s)>>],
                      enc |-> [s \in GraphSlots |-> IF IsCond(s) THEN <<"enc", s>> ELSE <<"null">>],
                      ca |-> [s \in GraphSlots |-> <<"enc", OfTrack(s)>>],
                      x |-> 0]
    BY <2>1, <1>1 DEF BuildGraph
  <2>4. QED BY <1>1, <2>2, <2>3 DEF HostOf
<1>4. PassInv'
  BY <1>1 DEF PassInv
<1>5. PastInv'
  BY <1>1 DEF PastInv, Averaged, KeysUsed, Order, Past, Passing, Track
<1>6. QED BY <1>2, <1>3, <1>4, <1>5

LEMMA BeginStepInv == ASSUME DitInv, BeginStep PROVE DitInv'
<1> USE DEF DitInv
<1>1. /\ ditPc = "poll" /\ ditPc' = "cond" /\ step < Len(schedule)
      /\ UNCHANGED <<plan, schedule, cover_steps, step, vt, mbuf, solver, noise, latents>>
      /\ host' = IF Switches(step) THEN Switched(host) ELSE host
      /\ device' = Uploaded(host', host'.enc)
  BY DEF BeginStep, Switches
<1>2. DitTypeOK'
  BY <1>1 DEF DitTypeOK, DitPcs, SwitchAt, Passing
<1>3. GraphSlots' = GraphSlots /\ Switches(step)' = Switches(step) /\ HostOf(step, Switches(step))' = HostOf(step, Switches(step))
  BY <1>1 DEF GraphSlots, Batched, Switches, HostOf, IsCond, OfTrack
<1>4. host = HostOf(step, Switches(step - 1))
  BY <1>1 DEF HostInv
<1>5. host' = HostOf(step, Switches(step))
  <2>1. CASE Switches(step)
    <3>1. Switched(HostOf(step, Switches(step - 1))) = HostOf(step, TRUE)
      <4> DEFINE h == HostOf(step, Switches(step - 1))
      <4> DEFINE full == HostOf(step, TRUE)
      <4>1. \A s \in GraphSlots :
               /\ IsCond(s) => full.enc[s] = <<"enc_nc", s>> /\ full.ca[s] = <<"enc_nc", s>>
               /\ ~IsCond(s) => full.enc[s] = h.enc[s] /\ full.ca[s] = h.ca[s]
        BY DEF HostOf
      <4>2. Switched(h) = [h EXCEPT !.ctx = full.ctx, !.enc = full.enc, !.ca = full.ca]
        BY <4>1 DEF Switched, HostOf
      <4>3. h.x = full.x /\ DOMAIN h = {"ctx", "enc", "ca", "x"}
        BY DEF HostOf
      <4>4. full = [ctx |-> full.ctx, enc |-> full.enc, ca |-> full.ca, x |-> full.x]
        BY DEF HostOf
      <4>5. h = [ctx |-> h.ctx, enc |-> h.enc, ca |-> h.ca, x |-> h.x]
        BY DEF HostOf
      <4> HIDE DEF full, h
      <4>6. QED BY <4>2, <4>3, <4>4, <4>5 DEF full, h
    <3>2. QED BY <1>1, <1>4, <2>1, <3>1
  <2>2. CASE ~Switches(step)
    <3>1. ~Switches(step - 1)
      <4>1. cover_steps \in Int /\ step \in Nat
        BY <1>1, RunRange
      <4>2. QED BY <2>2, <4>1 DEF Switches
    <3>2. HostOf(step, Switches(step - 1)) = HostOf(step, Switches(step))
      BY <2>2, <3>1 DEF HostOf
    <3>3. QED BY <1>1, <1>4, <2>2, <3>2
  <2>3. QED BY <2>1, <2>2
<1>6. HostInv'
  BY <1>1, <1>3, <1>5 DEF HostInv, Passing
<1>7. PassInv'
  <2>1. device' = Uploaded(host, host.enc)'
    BY <1>1 DEF Uploaded, GraphSlots, Batched
  <2>2. QED BY <1>1, <2>1 DEF PassInv
<1>8. PastInv'
  BY <1>1 DEF PastInv, Averaged, KeysUsed, Order, Past, Passing, Track
<1>9. QED BY <1>2, <1>6, <1>7, <1>8

LEMMA CancelRunInv == ASSUME DitInv, CancelRun PROVE DitInv'
<1> USE DEF DitInv
<1>1. /\ ditPc = "poll" /\ ditPc' = "cancelled"
      /\ UNCHANGED <<plan, schedule, cover_steps, step, host, device, vt, mbuf, solver, noise, latents>>
  BY DEF CancelRun
<1>2. DitTypeOK'
  BY <1>1 DEF DitTypeOK, DitPcs, SwitchAt, Passing
<1>3. HostInv' /\ PassInv'
  BY <1>1 DEF HostInv, PassInv, Passing
<1>4. PastInv'
  BY <1>1 DEF PastInv, Averaged, KeysUsed, Order, Past, Passing, Track
<1>5. QED BY <1>2, <1>3, <1>4

\* Two moments of one step: the buffers of the host and what is carried over.
LEMMA WithinStep ==
    ASSUME DitInv, ditPc \in Passing, ditPc' \in Passing, (ditPc = "update") = (ditPc' = "update"),
           UNCHANGED <<plan, schedule, cover_steps, step, host, mbuf, solver, noise, latents>>
    PROVE  /\ DitTypeOK' /\ HostInv' /\ PastInv' /\ GraphSlots' = GraphSlots
           /\ \A b \in Track : \A enc, ca : Sees(b, enc, ca)' = Sees(b, enc, ca)
           /\ \A b \in Track : Enc(b, step)' = Enc(b, step)
<1> USE DEF DitInv
<1>1. DitTypeOK'
  BY DEF DitTypeOK, DitPcs, SwitchAt, Passing
<1>2. HostInv'
  BY DEF HostInv, Passing, HostOf, Switches, GraphSlots, Batched, IsCond, OfTrack
<1>3. PastInv'
  BY DEF PastInv, Averaged, KeysUsed, Order, Past, Passing, Track
<1>4. /\ GraphSlots' = GraphSlots
      /\ \A b \in Track : \A enc, ca : Sees(b, enc, ca)' = Sees(b, enc, ca)
      /\ \A b \in Track : Enc(b, step)' = Enc(b, step)
  BY DEF GraphSlots, Batched, Sees, Ctx, Enc, HearsSource
<1>5. QED BY <1>1, <1>2, <1>3, <1>4

LEMMA CondPassInv == ASSUME DitInv, CondPass PROVE DitInv'
<1> USE DEF DitInv
<1>1. /\ ditPc = "cond" /\ ditPc \in Passing /\ ditPc' \in Passing
      /\ ditPc' = IF plan.cfg = "2-pass" THEN "reupload" ELSE "guide"
      /\ UNCHANGED <<plan, schedule, cover_steps, step, host, mbuf, solver, noise, latents>>
      /\ vt' = [b \in Track |-> [cond |-> Velocity(b),
                                 uncond |-> IF Batched THEN Velocity(Tracks + b) ELSE Nothing]]
  BY DEF CondPass, Passing
<1>2. host = HostOf(step, Switches(step)) /\ device = Uploaded(host, host.enc)
  BY <1>1 DEF HostInv, PassInv
<1>3. \A b \in Track : Velocity(b) = Sees(b, Enc(b, step), Enc(b, step))
  BY <1>1, <1>2, CondSlotSees DEF Velocity
<1>4. ASSUME Batched, NEW b \in Track
      PROVE  \E m \in {<<"enc", b>>, <<"enc_nc", b>>} : Velocity(Tracks + b) = Sees(b, <<"null">>, m)
  <2>1. Tracks + b \in GraphSlots /\ ~IsCond(Tracks + b) /\ OfTrack(Tracks + b) = b
    BY <1>4, SlotsOfTrack
  <2>2. host.enc[Tracks + b] = <<"null">>
    BY <1>2, <2>1 DEF HostOf
  <2>3. \E m \in {<<"enc", b>>, <<"enc_nc", b>>} :
           [i \in Inputs |-> Uploaded(host, host.enc)[i][Tracks + b]] = Sees(b, <<"null">>, m)
    <3> DEFINE e == host.enc
    <3>1. e[Tracks + b] = <<"null">>
      BY <2>2
    <3> HIDE DEF e
    <3>2. \E m \in {<<"enc", b>>, <<"enc_nc", b>>} :
           [i \in Inputs |-> Uploaded(host, e)[i][Tracks + b]] = Sees(b, <<"null">>, m)
      BY <1>1, <1>2, <2>1, <3>1, NullSlotSees
    <3>3. QED BY <3>2 DEF e
  <2>4. Velocity(Tracks + b) = [i \in Inputs |-> Uploaded(host, host.enc)[i][Tracks + b]]
    BY <1>2 DEF Velocity
  <2>5. QED BY <2>3, <2>4
<1>5. plan.cfg \in {"off", "batched", "2-pass"}
  BY DEF DitTypeOK, DitPlan
<1>6. /\ GraphSlots' = GraphSlots
      /\ \A b \in Track : \A enc, ca : Sees(b, enc, ca)' = Sees(b, enc, ca)
      /\ \A b \in Track : Enc(b, step)' = Enc(b, step)
      /\ DitTypeOK' /\ HostInv' /\ PastInv'
  BY <1>1, WithinStep
<1>7. PassInv'
  <2>1. ASSUME NEW b \in Track
        PROVE  /\ DOMAIN (vt'[b]) = {"cond", "uncond"}
               /\ vt'[b].cond = Sees(b, Enc(b, step), Enc(b, step))'
    BY <1>1, <1>3, <1>6
  <2>2. ASSUME NEW b \in Track, plan.cfg = "batched"
        PROVE  \E m \in {<<"enc", b>>, <<"enc_nc", b>>} : vt'[b].uncond = Sees(b, <<"null">>, m)'
    <3>1. PICK m \in {<<"enc", b>>, <<"enc_nc", b>>} : Velocity(Tracks + b) = Sees(b, <<"null">>, m)
      BY <1>4, <2>2 DEF Batched
    <3>2. vt'[b].uncond = Velocity(Tracks + b)
      BY <1>1, <2>2 DEF Batched
    <3>3. QED BY <1>6, <3>1, <3>2
  <2>3. Track' = Track
    BY DEF Track
  <2>4. QED BY <1>1, <1>5, <2>1, <2>2, <2>3 DEF PassInv
<1>8. QED BY <1>6, <1>7

LEMMA ReuploadInv == ASSUME DitInv, Reupload PROVE DitInv'
<1> USE DEF DitInv
<1>1. /\ ditPc = "reupload" /\ ditPc' = "uncond" /\ ditPc \in Passing /\ ditPc' \in Passing
      /\ UNCHANGED <<plan, schedule, cover_steps, step, host, vt, mbuf, solver, noise, latents>>
      /\ device' = Reuploaded
  BY DEF Reupload, Passing
<1>2. /\ GraphSlots' = GraphSlots
      /\ \A b \in Track : \A enc, ca : Sees(b, enc, ca)' = Sees(b, enc, ca)
      /\ \A b \in Track : Enc(b, step)' = Enc(b, step)
      /\ DitTypeOK' /\ HostInv' /\ PastInv'
  BY <1>1, WithinStep
<1>3. Reuploaded' = Reuploaded
  BY <1>1, <1>2 DEF Reuploaded, Uploaded, NullEnc
<1>4. PassInv'
  <2>1. Track' = Track
    BY DEF Track
  <2>2. \A b \in Track : DOMAIN (vt'[b]) = {"cond", "uncond"}
                         /\ vt'[b].cond = Sees(b, Enc(b, step), Enc(b, step))'
    BY <1>1, <1>2 DEF PassInv
  <2>3. plan'.cfg = "2-pass"
    BY <1>1 DEF PassInv
  <2>4. QED BY <1>1, <1>3, <2>1, <2>2, <2>3 DEF PassInv
<1>5. QED BY <1>2, <1>4

LEMMA UncondPassInv == ASSUME DitInv, UncondPass PROVE DitInv'
<1> USE DEF DitInv
<1>1. /\ ditPc = "uncond" /\ ditPc' = "guide" /\ ditPc \in Passing /\ ditPc' \in Passing
      /\ UNCHANGED <<plan, schedule, cover_steps, step, host, mbuf, solver, noise, latents>>
      /\ vt' = [b \in Track |-> [vt[b] EXCEPT !.uncond = Velocity(b)]]
  BY DEF UncondPass, Passing
<1>2. /\ GraphSlots' = GraphSlots
      /\ \A b \in Track : \A enc, ca : Sees(b, enc, ca)' = Sees(b, enc, ca)
      /\ \A b \in Track : Enc(b, step)' = Enc(b, step)
      /\ DitTypeOK' /\ HostInv' /\ PastInv'
  BY <1>1, WithinStep
<1>3. ASSUME NEW b \in Track
      PROVE  /\ DOMAIN (vt'[b]) = {"cond", "uncond"}
             /\ vt'[b].cond = Sees(b, Enc(b, step), Enc(b, step))'
             /\ \E m \in {<<"enc", b>>, <<"enc_nc", b>>} : vt'[b].uncond = Sees(b, <<"null">>, m)'
  <2>1. DOMAIN vt[b] = {"cond", "uncond"} /\ vt[b].cond = Sees(b, Enc(b, step), Enc(b, step))
    BY <1>1 DEF PassInv
  <2>2. DOMAIN (vt'[b]) = {"cond", "uncond"} /\ vt'[b].cond = vt[b].cond /\ vt'[b].uncond = Velocity(b)
    BY <1>1, <2>1
  <2>3. b \in GraphSlots /\ OfTrack(b) = b /\ NullEnc[b] = <<"null">>
    BY SlotsOfTrack DEF NullEnc
  <2>4. host = HostOf(step, Switches(step)) /\ device = Uploaded(host, NullEnc)
    BY <1>1 DEF HostInv, PassInv, Reuploaded
  <2>5. PICK m \in {<<"enc", b>>, <<"enc_nc", b>>} : Velocity(b) = Sees(b, <<"null">>, m)
    <3>1. \E m \in {<<"enc", b>>, <<"enc_nc", b>>} :
             [i \in Inputs |-> Uploaded(host, NullEnc)[i][b]] = Sees(b, <<"null">>, m)
      BY <1>1, <2>3, <2>4, NullSlotSees
    <3>2. Velocity(b) = [i \in Inputs |-> Uploaded(host, NullEnc)[i][b]]
      BY <2>4 DEF Velocity
    <3>3. QED BY <3>1, <3>2
  <2>6. QED BY <1>2, <2>1, <2>2, <2>5
<1>4. PassInv'
  <2>1. Track' = Track
    BY DEF Track
  <2>2. QED BY <1>1, <1>3, <2>1 DEF PassInv
<1>5. QED BY <1>2, <1>4

LEMMA GuideInv == ASSUME DitInv, Guide PROVE DitInv'
<1> USE DEF DitInv
<1>1. /\ ditPc = "guide" /\ ditPc' = "update" /\ step \in Nat
      /\ UNCHANGED <<plan, schedule, cover_steps, step, host, device, vt, solver, noise, latents>>
      /\ mbuf' = IF plan.cfg = "off" THEN mbuf ELSE [b \in Track |-> Append(mbuf[b], step)]
  BY DEF Guide, DitTypeOK
<1>2. DitTypeOK'
  BY <1>1 DEF DitTypeOK, DitPcs, SwitchAt, Passing
<1>3. HostInv'
  BY <1>1 DEF HostInv, Passing, HostOf, Switches, GraphSlots, Batched, IsCond, OfTrack
<1>4. PassInv'
  BY <1>1 DEF PassInv, Sees, Ctx, Enc, HearsSource, Track
<1>5. PastInv'
  <2>1. mbuf' = [b \in Track |-> [i \in 1 .. Averaged' |-> i - 1]]
    <3>1. CASE plan.cfg = "off"
      BY <1>1, <3>1 DEF PastInv, Averaged
    <3>2. CASE plan.cfg # "off"
      <4>1. mbuf = [b \in Track |-> [i \in 1 .. step |-> i - 1]] /\ Averaged' = step + 1
        BY <1>1, <3>2 DEF PastInv, Averaged
      <4>2. Append([i \in 1 .. step |-> i - 1], step) = [i \in 1 .. step + 1 |-> i - 1]
        BY <1>1, Grown
      <4>3. QED BY <1>1, <3>2, <4>1, <4>2
    <3>3. QED BY <3>1, <3>2
  <2>2. QED BY <1>1, <2>1 DEF PastInv, KeysUsed, Order, Past, Passing, Track
<1>6. QED BY <1>2, <1>3, <1>4, <1>5

\* The newest first.
LEMMA Prefixed ==
    ASSUME NEW a, NEW b, NEW c
    PROVE  <<a>> \o <<>> = <<a>> /\ <<a>> \o <<b>> = <<a, b>> /\ <<a>> \o <<b, c>> = <<a, b, c>>
<1> DEFINE S == {a, b, c}
<1>1. /\ <<a>> \in Seq(S) /\ <<>> \in Seq(S) /\ <<b>> \in Seq(S) /\ <<b, c>> \in Seq(S)
      /\ <<a, b>> \in Seq(S) /\ <<a, b, c>> \in Seq(S)
  OBVIOUS
<1> HIDE DEF S
<1>2. <<a>> \o <<>> = <<a>>
  BY <1>1, ConcatEmptySeq
<1>3. <<a>> \o <<b>> = <<a, b>>
  <2>1. /\ <<a>> \o <<b>> \in Seq(S) /\ Len(<<a>> \o <<b>>) = 2
        /\ \A i \in 1 .. 2 : (<<a>> \o <<b>>)[i] = <<a, b>>[i]
    BY <1>1, ConcatProperties
  <2>2. QED BY <1>1, <2>1, SeqEqual
<1>4. <<a>> \o <<b, c>> = <<a, b, c>>
  <2>1. /\ <<a>> \o <<b, c>> \in Seq(S) /\ Len(<<a>> \o <<b, c>>) = 3
        /\ \A i \in 1 .. 3 : (<<a>> \o <<b, c>>)[i] = <<a, b, c>>[i]
    BY <1>1, ConcatProperties
  <2>2. QED BY <1>1, <2>1, SeqEqual
<1>5. QED BY <1>2, <1>3, <1>4

LEMMA FirstTwo ==
    ASSUME NEW a, NEW b, NEW c
    PROVE  /\ SubSeq(<<a>> \o <<>>, 1, 1) = <<a>>
           /\ SubSeq(<<a>> \o <<b>>, 1, 2) = <<a, b>>
           /\ SubSeq(<<a>> \o <<b, c>>, 1, 2) = <<a, b>>
<1> DEFINE S == {a, b, c}
<1>1. <<a>> \in Seq(S) /\ <<a, b>> \in Seq(S) /\ <<a, b, c>> \in Seq(S)
  OBVIOUS
<1> HIDE DEF S
<1>2. SubSeq(<<a>>, 1, 1) = <<a>>
  <2>1. Len(<<a>>) = 1
    OBVIOUS
  <2>2. QED BY <1>1, <2>1, SubSeqFull
<1>3. SubSeq(<<a, b>>, 1, 2) = <<a, b>>
  <2>1. Len(<<a, b>>) = 2
    OBVIOUS
  <2>2. QED BY <1>1, <2>1, SubSeqFull
<1>4. SubSeq(<<a, b, c>>, 1, 2) = <<a, b>>
  <2>1. PICK s, t : s = <<a, b, c>> /\ t = <<a, b>>
    OBVIOUS
  <2>2. s[1] = t[1] /\ s[2] = t[2] /\ s[1] \in S /\ s[2] \in S /\ t \in Seq(S) /\ Len(t) = 2
    BY <1>1, <2>1 DEF S
  <2>3. \A i \in 1 .. 2 : i = 1 \/ i = 2
    OBVIOUS
  <2>4. \A i \in 1 .. 2 : s[i] \in S /\ s[i] = t[i]
    BY <2>2, <2>3
  <2>5. /\ SubSeq(s, 1, 2) \in Seq(S) /\ Len(SubSeq(s, 1, 2)) = IF 1 <= 2 THEN 2 - 1 + 1 ELSE 0
        /\ \A i \in 1 .. 2 - 1 + 1 : SubSeq(s, 1, 2)[i] = s[1 + i - 1]
    BY <2>4, SubSeqProperties
  <2>6. 2 - 1 + 1 = 2 /\ \A i \in 1 .. 2 : 1 + i - 1 = i
    OBVIOUS
  <2>7. Len(SubSeq(s, 1, 2)) = 2 /\ \A i \in 1 .. 2 : SubSeq(s, 1, 2)[i] = s[i]
    BY <2>5, <2>6
  <2>8. PICK u : u = SubSeq(s, 1, 2)
    OBVIOUS
  <2>9. u \in Seq(S) /\ Len(u) = Len(t) /\ \A i \in 1 .. Len(u) : u[i] = t[i]
    BY <2>2, <2>4, <2>5, <2>7, <2>8
  <2>10. u = t
    BY <2>2, <2>9, SeqEqual
  <2>11. QED BY <2>1, <2>8, <2>10
<1>5. QED BY <1>2, <1>3, <1>4, Prefixed

LEMMA SolverStepInv == ASSUME DitInv, SolverStep PROVE DitInv'
<1> USE DEF DitInv
<1> DEFINE v == [of |-> step, dt |-> schedule[step + 1] - schedule[step + 2]]
           old == IF step < Order THEN step ELSE Order
           new == IF step + 1 < Order THEN step + 1 ELSE Order
<1>1. /\ ditPc = "update" /\ ditPc' = "poll" /\ step < Len(schedule) - 1 /\ step' = step + 1
      /\ UNCHANGED <<plan, schedule, cover_steps, device, vt, mbuf, latents>>
      /\ solver' = History(v) /\ noise' = Renoise /\ host' = [host EXCEPT !.x = step + 1]
  BY DEF SolverStep
<1>2. step \in Nat /\ Len(schedule) \in Nat
  BY <1>1, RunRange
<1>3. DitTypeOK'
  BY <1>1, <1>2, SMTT(30) DEF DitTypeOK, DitPcs, SwitchAt, Passing
<1>4. HostInv'
  <2>1. host = HostOf(step, Switches(step))
    BY <1>1 DEF HostInv, Passing
  <2>2. GraphSlots' = GraphSlots /\ Switches(step - 1)' = Switches(step)
    <3>1. step' - 1 = step
      BY <1>1, <1>2
    <3>2. QED BY <1>1, <3>1 DEF GraphSlots, Batched, Switches
  <2>3. host' = HostOf(step + 1, Switches(step))
    BY <1>1, <2>1 DEF HostOf
  <2>4. HostOf(step, Switches(step - 1))' = HostOf(step + 1, Switches(step))
    BY <1>1, <2>2 DEF HostOf, OfTrack, IsCond
  <2>5. QED BY <1>1, <2>3, <2>4 DEF HostInv, Passing
<1>5. PassInv'
  BY <1>1 DEF PassInv
<1>6. solver' = [i \in 1 .. new |-> Past(i)']
  <2>1. solver = [i \in 1 .. old |-> Past(i)] /\ old \in 0 .. 3 /\ Order \in 0 .. 3
    BY <1>1, <1>2 DEF PastInv, Passing, Order
  <2>2. Past(1)' = v /\ \A i \in 1 .. 3 : Past(i + 1)' = Past(i)
    <3>1. ASSUME NEW i \in 0 .. 3
          PROVE  Past(i + 1)' = [of |-> step - i, dt |-> schedule[step - i + 1] - schedule[step - i + 2]]
      <4>1. /\ step' - (i + 1) = step - i
            /\ step' - (i + 1) + 1 = step - i + 1 /\ step' - (i + 1) + 2 = step - i + 2
        BY <1>1, <1>2
      <4>2. QED BY <1>1, <4>1 DEF Past
    <3>2. step - 0 = step /\ 0 + 1 = 1
      BY <1>2
    <3>3. Past(1)' = v
      BY <3>1, <3>2
    <3>4. QED BY <3>1, <3>3 DEF Past
  <2>3. CASE plan.solver = "dpm3m"
    <3>1. Order = 2 /\ solver' = DpmHistory(v)
      BY <1>1, <2>3 DEF Order, History
    <3>2. CASE step = 0
      <4>1. solver = <<>>
        BY <2>1, <3>1, <3>2
      <4>2. solver' = <<v>>
        BY <3>1, <4>1, FirstTwo DEF DpmHistory
      <4>3. QED BY <2>2, <3>1, <3>2, <4>2
    <3>3. CASE step # 0
      <4>1. Len(solver) = old /\ old \in {1, 2} /\ solver[1] = Past(1) /\ new = 2
        BY <1>2, <2>1, <3>1, <3>3
      <4>2. solver' = SubSeq(<<v>> \o solver, 1, 2)
        BY <3>1, <4>1 DEF DpmHistory
      <4>3. SubSeq(<<v>> \o solver, 1, 2) = <<v, Past(1)>>
        <5>1. CASE old = 1
          <6>1. solver = <<Past(1)>>
            BY <2>1, <5>1
          <6>2. QED BY <6>1, <4>1, <5>1, FirstTwo
        <5>2. CASE old = 2
          <6>1. solver = <<Past(1), Past(2)>>
            BY <2>1, <5>2
          <6>2. QED BY <6>1, <4>1, <5>2, FirstTwo
        <5>3. QED BY <4>1, <5>1, <5>2
      <4>4. Past(2)' = Past(1)
        BY <2>2
      <4>5. QED BY <2>2, <4>1, <4>2, <4>3, <4>4
    <3>4. QED BY <3>2, <3>3
  <2>4. CASE plan.solver = "stork4"
    <3>1. Order = 3 /\ solver' = StorkHistory(v)
      BY <1>1, <2>4 DEF Order, History
    <3>2. Past(2)' = Past(1) /\ Past(3)' = Past(2)
      BY <2>2
    <3>3. CASE old = 0
      BY <1>2, <2>1, <2>2, <3>1, <3>3 DEF StorkHistory
    <3>4. CASE old = 1
      <4>1. solver = <<Past(1)>> /\ new = 2
        BY <1>2, <2>1, <3>1, <3>4
      <4>2. solver' = <<v, Past(1)>>
        <5>1. Len(solver) = 1
          BY <4>1
        <5>2. StorkHistory(v) = <<v>> \o solver
          BY <5>1 DEF StorkHistory
        <5>3. <<v>> \o <<Past(1)>> = <<v, Past(1)>>
          BY Prefixed
        <5>4. QED BY <3>1, <4>1, <5>2, <5>3
      <4>3. QED BY <2>2, <3>2, <4>1, <4>2
    <3>5. CASE old = 2
      <4>1. solver = <<Past(1), Past(2)>> /\ new = 3
        BY <1>2, <2>1, <3>1, <3>5
      <4>2. solver' = <<v, Past(1), Past(2)>>
        BY <3>1, <4>1, Prefixed DEF StorkHistory
      <4>3. QED BY <2>2, <3>2, <4>1, <4>2
    <3>6. CASE old = 3
      <4>1. solver = <<Past(1), Past(2), Past(3)>> /\ new = 3
        BY <1>2, <2>1, <3>1, <3>6, SMTT(30)
      <4>2. solver' = <<v, Past(1), Past(2)>>
        BY <3>1, <4>1, Prefixed DEF StorkHistory
      <4>3. QED BY <2>2, <3>2, <4>1, <4>2
    <3>7. QED BY <2>1, <3>3, <3>4, <3>5, <3>6
  <2>5. CASE plan.solver \notin {"dpm3m", "stork4"}
    BY <1>1, <1>2, <2>5 DEF History, Order
  <2>6. QED BY <2>3, <2>4, <2>5
<1>7. PastInv'
  <2>1. Order' = Order /\ Order \in Nat /\ Track' = Track /\ Averaged' = Averaged
    BY <1>1, <1>2 DEF Order, Track, Averaged
  <2>2. noise' = [b \in Track |-> [i \in 1 .. KeysUsed' |-> i - 1]]
    <3>1. noise = [b \in Track |-> [i \in 1 .. KeysUsed |-> i - 1]]
      BY <1>1 DEF PastInv
    <3>2. CASE plan.solver = "sde"
      <4>1. KeysUsed = step + 1 /\ KeysUsed' = step + 2
        BY <1>1, <1>2, <3>2 DEF KeysUsed
      <4>2. Append([i \in 1 .. step + 1 |-> i - 1], step + 1) = [i \in 1 .. step + 2 |-> i - 1]
        BY <1>2
      <4>3. QED BY <1>1, <3>1, <3>2, <4>1, <4>2 DEF Renoise
    <3>3. CASE plan.solver # "sde"
      BY <1>1, <3>1, <3>3 DEF Renoise, KeysUsed
    <3>4. QED BY <3>2, <3>3
  <2>3. solver' = [i \in 1 .. (IF step' < Order' THEN step' ELSE Order') |-> Past(i)']
    BY <1>1, <1>6, <2>1
  <2>4. mbuf' = [b \in Track |-> [i \in 1 .. Averaged' |-> i - 1]] /\ latents' = Nothing
    BY <1>1, <2>1 DEF PastInv
  <2>5. QED BY <1>1, <2>1, <2>2, <2>3, <2>4 DEF PastInv
<1>8. QED BY <1>3, <1>4, <1>5, <1>7

LEMMA FinalStepInv == ASSUME DitInv, FinalStep PROVE DitInv'
<1> USE DEF DitInv
<1>1. /\ ditPc = "update" /\ ditPc' = "done" /\ step = Len(schedule) - 1 /\ step' = step + 1
      /\ UNCHANGED <<plan, schedule, cover_steps, host, device, vt, mbuf, solver, noise>>
      /\ latents' = <<host.x, schedule[step + 1]>>
  BY DEF FinalStep
<1>2. step \in Nat /\ Len(schedule) \in Nat
  BY <1>1, RunRange
<1>3. DitTypeOK'
  BY <1>1, <1>2 DEF DitTypeOK, DitPcs, SwitchAt, Passing
<1>4. HostInv' /\ PassInv'
  BY <1>1 DEF HostInv, PassInv, Passing
<1>5. host.x = step
  BY <1>1 DEF HostInv, Passing, HostOf
<1>6. PastInv'
  <2>1. Averaged' = Averaged /\ KeysUsed' = KeysUsed /\ Track' = Track
    BY <1>1, <1>2 DEF Averaged, KeysUsed, Track
  <2>2. latents' = <<Len(schedule) - 1, schedule[Len(schedule)]>>
    BY <1>1, <1>2, <1>5
  <2>3. QED BY <1>1, <2>1, <2>2 DEF PastInv, Passing
<1>7. QED BY <1>3, <1>4, <1>6

LEMMA DitNextInv == DitInv /\ [DitNext]_ditVars => DitInv'
<1> SUFFICES ASSUME DitInv, [DitNext]_ditVars PROVE DitInv'
  OBVIOUS
<1>1. CASE UNCHANGED ditVars
  <2>1. UNCHANGED <<ditPc, plan, schedule, cover_steps, step, host, device, vt, mbuf, solver, noise, latents>>
    BY <1>1 DEF ditVars
  <2>2. DitTypeOK'
    BY <2>1 DEF DitInv, DitTypeOK, SwitchAt
  <2>3. HostInv'
    BY <2>1 DEF DitInv, HostInv, HostOf, Switches, GraphSlots, Batched, OfTrack, IsCond
  <2>4. PassInv'
    BY <2>1 DEF DitInv, PassInv, Uploaded, Reuploaded, NullEnc, GraphSlots, Batched, Sees, Ctx, Enc,
                HearsSource, Track
  <2>5. PastInv'
    BY <2>1 DEF DitInv, PastInv, Averaged, KeysUsed, Order, Past, Track
  <2>6. QED BY <2>2, <2>3, <2>4, <2>5 DEF DitInv
<1>2. QED BY <1>1, PrepareRunInv, BuildGraphInv, BeginStepInv, CancelRunInv, CondPassInv, ReuploadInv,
             UncondPassInv, GuideInv, SolverStepInv, FinalStepInv DEF DitNext

LEMMA DitStarts == DitInit => DitInv
<1> SUFFICES ASSUME DitInit PROVE DitInv
  OBVIOUS
<1>1. /\ ditPc = "schedule" /\ plan \in DitPlan /\ (~plan.cover => plan.strength = 4) /\ step = 0
      /\ mbuf = [b \in Track |-> <<>>] /\ noise = [b \in Track |-> <<>>]
      /\ solver = <<>> /\ latents = Nothing
  BY DEF DitInit, Nothing
<1>2. DitTypeOK /\ HostInv /\ PassInv
  BY <1>1 DEF DitTypeOK, DitPcs, HostInv, PassInv, Passing
<1>3. PastInv
  <2>1. Averaged = 0 /\ Order \in Nat
    BY <1>1 DEF Averaged, Order
  <2>2. \A b \in Track : [i \in 1 .. Averaged |-> i - 1] = <<>>
    BY <2>1
  <2>3. solver = [i \in 1 .. (IF step < Order THEN step ELSE Order) |-> Past(i)]
    <3>1. (IF step < Order THEN step ELSE Order) = 0
      BY <1>1, <2>1
    <3>2. QED BY <1>1, <3>1
  <2>4. QED BY <1>1, <2>2, <2>3 DEF PastInv
<1>4. QED BY <1>2, <1>3 DEF DitInv

LEMMA DitStays == DitSpec => []DitInv
BY DitStarts, DitNextInv, PTL DEF DitSpec

\* Every forward pass of every step predicts from the latent, the level, the
\* context and the encoder states of that step and track, whatever the passes
\* before it have done to the input buffers (dit_ggml_generate).
THEOREM PassesAreFed == DitSpec => []EveryPassIsFed
<1>1. ASSUME DitInv PROVE EveryPassIsFed
  <2>1. SUFFICES ASSUME ditPc = "update", NEW b \in Track
                 PROVE  /\ vt[b].cond = Sees(b, Enc(b, step), Enc(b, step))
                        /\ plan.cfg # "off" =>
                             \E m \in {<<"enc", b>>, <<"enc_nc", b>>} :
                               vt[b].uncond = [Sees(b, <<"null">>, Enc(b, step)) EXCEPT !["ca_mask"] = m]
    BY DEF EveryPassIsFed, Sees
  <2>2. vt[b].cond = Sees(b, Enc(b, step), Enc(b, step))
    BY <1>1, <2>1 DEF DitInv, PassInv
  <2>3. ASSUME plan.cfg # "off"
        PROVE  \E m \in {<<"enc", b>>, <<"enc_nc", b>>} :
                  vt[b].uncond = [Sees(b, <<"null">>, Enc(b, step)) EXCEPT !["ca_mask"] = m]
    <3>1. PICK m \in {<<"enc", b>>, <<"enc_nc", b>>} : vt[b].uncond = Sees(b, <<"null">>, m)
      BY <1>1, <2>1, <2>3 DEF DitInv, PassInv
    <3>2. Sees(b, <<"null">>, m) = [Sees(b, <<"null">>, Enc(b, step)) EXCEPT !["ca_mask"] = m]
      BY DEF Sees, Inputs
    <3>3. QED BY <3>1, <3>2
  <2>4. QED BY <2>2, <2>3
<1>2. QED BY <1>1, DitStays, PTL

-----------------------------------------------------------------------------
(* DitLoop: what is carried from step to step, and the tables of stork4.   *)

LEMMA KeysAreDistinct ==
    ASSUME NEW n \in Nat, NEW f, f = [i \in 1 .. n |-> i - 1]
    PROVE  Cardinality({f[i] : i \in DOMAIN f}) = Len(f)
<1>1. DOMAIN f = 1 .. n /\ f \in [1 .. n -> Int]
  OBVIOUS
<1>2. Len(f) = n
  BY <1>1
<1>3. ASSUME NEW x \in 0 .. n - 1 PROVE \E i \in 1 .. n : f[i] = x
  <2>1. x + 1 \in 1 .. n /\ f[x + 1] = x
    OBVIOUS
  <2>2. QED BY <2>1
<1>4. \A i \in 1 .. n : f[i] \in 0 .. n - 1
  OBVIOUS
<1>5. {f[i] : i \in DOMAIN f} = 0 .. n - 1
  BY <1>1, <1>3, <1>4, ZenonT(30)
<1>6. Cardinality(0 .. n - 1) = n
  BY FS_Interval
<1>7. QED BY <1>2, <1>5, <1>6

LEMMA PastIsOwn == ASSUME DitInv PROVE OwnPast
<1>1. DitTypeOK /\ PastInv
  BY DEF DitInv
<1>2. step \in Nat /\ Averaged \in Nat /\ Order \in 0 .. 3
  BY <1>1 DEF DitTypeOK, Averaged, Order
<1>3. \A b \in Track : mbuf[b] = [i \in 1 .. Averaged |-> i - 1] /\ Len(mbuf[b]) = Averaged
  BY <1>1, <1>2 DEF PastInv
<1>4. ASSUME NEW b \in Track
      PROVE  Cardinality({noise[b][i] : i \in DOMAIN noise[b]}) = Len(noise[b])
  <2> DEFINE K == IF ditPc = "schedule" THEN 0 ELSE KeysUsed
  <2>1. K \in Nat
    BY <1>2 DEF KeysUsed
  <2>2. noise[b] = [i \in 1 .. K |-> i - 1]
    <3>1. CASE ditPc = "schedule"
      BY <1>1, <3>1 DEF PastInv
    <3>2. CASE ditPc # "schedule"
      BY <1>1, <3>2 DEF PastInv
    <3>3. QED BY <3>1, <3>2
  <2> HIDE DEF K
  <2>3. QED BY <2>1, <2>2, KeysAreDistinct
<1>5. ASSUME ditPc = "poll", step < Len(schedule)
      PROVE  /\ Len(solver) = (IF step < Order THEN step ELSE Order)
             /\ \A i \in 1 .. Len(solver) :
                   /\ solver[i].of = step - i
                   /\ solver[i].dt = schedule[solver[i].of + 1] - schedule[solver[i].of + 2]
  <2> DEFINE n == IF step < Order THEN step ELSE Order
  <2>1. n \in Nat /\ solver = [i \in 1 .. n |-> Past(i)]
    BY <1>1, <1>2, <1>5 DEF PastInv
  <2> HIDE DEF n
  <2>2. Len(solver) = n /\ \A i \in 1 .. n : solver[i] = Past(i)
    BY <2>1
  <2>3. ASSUME NEW i \in 1 .. n
        PROVE  /\ solver[i].of = step - i
               /\ solver[i].dt = schedule[solver[i].of + 1] - schedule[solver[i].of + 2]
    BY <2>2 DEF Past
  <2>4. QED BY <2>2, <2>3 DEF n
<1>6. ditPc = "update" /\ plan.cfg # "off" => Averaged = step + 1
  BY DEF Averaged
<1>7. /\ ditPc = "done" => latents = <<Len(schedule) - 1, schedule[Len(schedule)]>>
      /\ ditPc # "done" => latents = Nothing
  BY <1>1 DEF PastInv
<1>8. ditPc = "done" <=> latents # Nothing
  BY <1>7 DEF Nothing
<1>9. QED BY <1>3, <1>4, <1>5, <1>6, <1>7, <1>8 DEF OwnPast

\* Where the rows of the table start, found by adding up.
RowTable ==
    <<0, 1, 4, 9, 16, 25, 36, 49, 64, 81, 100, 121, 144, 169, 196, 225, 256, 289, 324,
      361, 400, 443, 490, 541, 596, 655, 718, 785, 856, 931, 1012, 1099, 1192, 1291, 1396,
      1507, 1624, 1749, 1882, 2023, 2174, 2335, 2506, 2689, 2884, 3093, 3316, 3555, 3812,
      4087, 4382>>

LEMMA DegreesRise ==
    /\ Len(MS) = 50 /\ DOMAIN MS = 1 .. 50 /\ MS[1] = 1 /\ MS[50] = 148
    /\ \A i \in 1 .. 50 : MS[i] \in 1 .. 148
    /\ \A i \in 1 .. 50 : i > 1 => MS[i] > 1
BY DEF MS

LEMMA Rows == DOMAIN MS = 1 .. 50 /\ MS[50] = 148
BY DegreesRise, SMTT(30)

LEMMA RowsFollow ==
    /\ RowStart[1] = 0 /\ RowStart[51] = 4382
    /\ \A i \in 1 .. 50 : RowStart[i + 1] = RowStart[i] + 2 * MS[i] - 1
    /\ \A i \in 1 .. 51 : RowStart[i] \in Int
<1> DEFINE T == [i \in 1 .. 51 |-> RowTable[i]]
<1>1. T = [i \in 1 .. Len(MS) + 1 |-> IF i = 1 THEN 0 ELSE T[i - 1] + 2 * MS[i - 1] - 1]
  <2>1. \A i \in 1 .. 51 : RowTable[i] = IF i = 1 THEN 0 ELSE RowTable[i - 1] + 2 * MS[i - 1] - 1
    BY DEF RowTable, MS
  <2>2. QED BY <2>1, DegreesRise
<1>2. RowStart = [i \in 1 .. Len(MS) + 1 |-> IF i = 1 THEN 0 ELSE RowStart[i - 1] + 2 * MS[i - 1] - 1]
  <2> HIDE DEF T
  <2>1. QED BY <1>1 DEF RowStart
<1>3. /\ RowTable[1] = 0 /\ RowTable[51] = 4382
      /\ \A i \in 1 .. 51 : RowTable[i] \in Nat
      /\ \A i \in 1 .. 51 : i > 1 => RowTable[i] = RowTable[i - 1] + 2 * MS[i - 1] - 1
  BY DEF RowTable, MS
<1>4. \A i \in 1 .. 51 : RowStart[i] = IF i = 1 THEN 0 ELSE RowStart[i - 1] + 2 * MS[i - 1] - 1
  <2>1. Len(MS) + 1 = 51
    BY DegreesRise
  <2>2. QED BY <1>2, <2>1
<1>5. \A i \in 1 .. 51 : RowStart[i] = RowTable[i]
  <2> DEFINE S == {i \in 1 .. 51 : RowStart[i] # RowTable[i]}
  <2>1. SUFFICES ASSUME S # {} PROVE FALSE
    OBVIOUS
  <2>2. PICK i \in S : \A x \in S : i <= x
    <3>1. S \subseteq Nat
      OBVIOUS
    <3> HIDE DEF S
    <3>2. QED BY <2>1, <3>1, LeastElement
  <2>3. i \in 1 .. 51 /\ RowStart[i] # RowTable[i]
    OBVIOUS
  <2>4. i > 1 /\ i - 1 \in 1 .. 51
    BY <1>3, <1>4, <2>3
  <2>5. RowStart[i - 1] = RowTable[i - 1]
    BY <2>2, <2>4
  <2>6. RowStart[i] = RowStart[i - 1] + 2 * MS[i - 1] - 1
    BY <1>4, <2>3, <2>4
  <2>7. RowTable[i] = RowTable[i - 1] + 2 * MS[i - 1] - 1
    BY <1>3, <2>3, <2>4
  <2>8. QED BY <2>3, <2>5, <2>6, <2>7
<1>6. \A i \in 1 .. 50 : RowStart[i + 1] = RowStart[i] + 2 * MS[i] - 1
  <2>1. SUFFICES ASSUME NEW i \in 1 .. 50 PROVE RowStart[i + 1] = RowStart[i] + 2 * MS[i] - 1
    OBVIOUS
  <2>2. i + 1 \in 1 .. 51 /\ i + 1 # 1 /\ (i + 1) - 1 = i
    OBVIOUS
  <2>3. QED BY <1>4, <2>2
<1>7. QED BY <1>3, <1>5, <1>6

\* Later rows start later.
LEMMA RowsRise == \A i \in 1 .. 51, j \in 1 .. 51 : i <= j => RowStart[i] <= RowStart[j]
<1>1. SUFFICES ASSUME NEW i \in 1 .. 51, NEW k \in 1 .. 51, i <= k, RowStart[i] > RowStart[k]
               PROVE  FALSE
  <2>1. \A i \in 1 .. 51 : RowStart[i] \in Int
    BY RowsFollow
  <2>2. \A a \in Int, b \in Int : ~(a > b) => a <= b
    OBVIOUS
  <2>3. QED BY <2>1, <2>2
<1> DEFINE S == {j \in 1 .. 51 : i <= j /\ RowStart[i] > RowStart[j]}
<1>2. PICK j \in S : \A x \in S : j <= x
  <2>1. k \in S /\ S \subseteq Nat
    BY <1>1
  <2> HIDE DEF S
  <2>2. QED BY <2>1, LeastElement
<1>3. j \in 1 .. 51 /\ i <= j /\ RowStart[i] > RowStart[j]
  OBVIOUS
<1>4. j # i /\ j - 1 \in 1 .. 50 /\ j - 1 \in 1 .. 51 /\ i <= j - 1
  <2>1. RowStart[i] \in Int
    BY RowsFollow
  <2>2. j # i
    BY <1>3, <2>1
  <2> HIDE DEF S
  <2>3. QED BY <1>3, <2>2
<1>5. RowStart[j] = RowStart[j - 1] + 2 * MS[j - 1] - 1
  <2>1. (j - 1) + 1 = j
    BY <1>3
  <2>2. QED BY <1>4, <2>1, RowsFollow
<1>6. MS[j - 1] \in 1 .. 148 /\ RowStart[j - 1] \in Int
  <2>1. RowStart[j - 1] \in Int
    BY <1>4, RowsFollow
  <2>2. MS[j - 1] \in 1 .. 148
    BY <1>4, DegreesRise
  <2>3. QED BY <2>1, <2>2
<1>7. RowStart[i] > RowStart[j - 1]
  BY <1>3, <1>5, <1>6, RowsFollow
<1>8. j - 1 \in S
  BY <1>4, <1>7
<1>9. QED BY <1>2, <1>3, <1>8

\* Half as many sub steps, again and again.
LEMMA AttemptsAreWhole == \A substeps \in Int : \A s \in Attempts(substeps) : s \in Nat /\ s >= 2
<1>1. SUFFICES ASSUME NEW substeps \in Int, NEW s \in Attempts(substeps) PROVE s \in Nat /\ s >= 2
  OBVIOUS
<1> DEFINE n == IF substeps >= 2 THEN substeps ELSE 2
<1>2. PICK k \in 0 .. 12 : s = n \div (2 ^ k) /\ s >= 2
  BY DEF Attempts
<1>3. 2 ^ k \in Nat \ {0}
  <2>1. /\ 2 ^ 0 = 1 /\ 2 ^ 1 = 2 /\ 2 ^ 2 = 4 /\ 2 ^ 3 = 8 /\ 2 ^ 4 = 16 /\ 2 ^ 5 = 32 /\ 2 ^ 6 = 64
        /\ 2 ^ 7 = 128 /\ 2 ^ 8 = 256 /\ 2 ^ 9 = 512 /\ 2 ^ 10 = 1024 /\ 2 ^ 11 = 2048
        /\ 2 ^ 12 = 4096
    OBVIOUS
  <2>2. \/ k = 0 \/ k = 1 \/ k = 2 \/ k = 3 \/ k = 4 \/ k = 5 \/ k = 6 \/ k = 7 \/ k = 8
        \/ k = 9 \/ k = 10 \/ k = 11 \/ k = 12
    OBVIOUS
  <2>3. PICK d : d = 2 ^ k
    OBVIOUS
  <2>4. d \in {1, 2, 4, 8, 16, 32, 64, 128, 256, 512, 1024, 2048, 4096}
    <3>1. CASE k = 0
      BY <2>1, <2>3, <3>1
    <3>2. CASE k = 1
      BY <2>1, <2>3, <3>2
    <3>3. CASE k = 2
      BY <2>1, <2>3, <3>3
    <3>4. CASE k = 3
      BY <2>1, <2>3, <3>4
    <3>5. CASE k = 4
      BY <2>1, <2>3, <3>5
    <3>6. CASE k = 5
      BY <2>1, <2>3, <3>6
    <3>7. CASE k = 6
      BY <2>1, <2>3, <3>7
    <3>8. CASE k = 7
      BY <2>1, <2>3, <3>8
    <3>9. CASE k = 8
      BY <2>1, <2>3, <3>9
    <3>10. CASE k = 9
      BY <2>1, <2>3, <3>10
    <3>11. CASE k = 10
      BY <2>1, <2>3, <3>11
    <3>12. CASE k = 11
      BY <2>1, <2>3, <3>12
    <3>13. CASE k = 12
      BY <2>1, <2>3, <3>13
    <3>14. QED BY <2>2, <3>1, <3>2, <3>3, <3>4, <3>5, <3>6, <3>7, <3>8, <3>9, <3>10, <3>11, <3>12,
                  <3>13
  <2>5. QED BY <2>3, <2>4
<1>4. n \in Int
  OBVIOUS
<1> HIDE DEF n
<1>5. s \in Int
  <2>1. PICK d \in Nat \ {0} : d = 2 ^ k
    BY <1>3
  <2>2. n \div d \in Int
    BY <1>4
  <2>3. QED BY <1>2, <2>1, <2>2
<1>6. QED BY <1>2, <1>5

\* The row that is found has the degree's number of coefficients before the next.
LEMMA RowIsFound ==
    ASSUME NEW s \in Nat
    PROVE  \E z \in 1 .. 50 : Rock(s) = [mdeg |-> MS[z], mz |-> z, mr |-> RowStart[z]]
<1> DEFINE c == IF s > 148 THEN 148 ELSE s
           S == {i \in 1 .. 50 : MS[i] >= c}
           z == CHOOSE i \in DOMAIN MS : MS[i] >= c /\ \A j \in 1 .. i - 1 : MS[j] < c
<1>1. Rock(s) = rock4_mdegr(c)
  BY DegreesRise DEF Rock
<1>2. c \in Nat /\ c <= 148
  OBVIOUS
<1> HIDE DEF c
<1>3. 50 \in S /\ S \subseteq Nat
  <2>1. 50 \in 1 .. 50 /\ 148 >= c
    BY <1>2
  <2>2. QED BY <2>1, Rows
<1>4. PICK i \in S : \A x \in S : i <= x
  <2> HIDE DEF S
  <2>1. QED BY <1>3, LeastElement
<1>5. i \in DOMAIN MS /\ MS[i] >= c /\ \A j \in 1 .. i - 1 : MS[j] < c
  <2>1. i \in 1 .. 50 /\ MS[i] >= c
    OBVIOUS
  <2>2. ASSUME NEW j \in 1 .. i - 1 PROVE MS[j] < c
    <3>1. j \in 1 .. 50 /\ j < i
      BY <2>1
    <3>2. j \notin S
      BY <1>4, <3>1
    <3>3. MS[j] \in Int
      BY <3>1, DegreesRise, SMTT(30)
    <3>4. ~(MS[j] >= c)
      BY <3>1, <3>2
    <3>5. QED BY <1>2, <3>3, <3>4
  <2>3. QED BY <2>1, <2>2, DegreesRise
<1>6. z \in DOMAIN MS
  BY <1>5
<1>7. rock4_mdegr(c) = [mdeg |-> MS[z], mz |-> z, mr |-> RowStart[z]]
  BY <1>5 DEF rock4_mdegr
<1> HIDE DEF z
<1>8. z \in 1 .. 50
  BY <1>6, Rows
<1>9. QED BY <1>1, <1>7, <1>8

LEMMA TablesSuffice == ASSUME DitInv PROVE StorkStaysInTables
<1>1. SUFFICES ASSUME NEW s \in Attempts(plan.substeps)
               PROVE  LET r == Rock(s)
                          last == IF r.mdeg = 1 THEN r.mr ELSE r.mr + 2 * (r.mdeg - 2) + 2
                      IN  /\ r.mz <= FpRows /\ last < RecfSize
                          /\ \A i \in DOMAIN MS : i > r.mz => last < RowStart[i]
  BY DEF StorkStaysInTables
<1>2. plan.substeps \in Int
  <2>1. plan.substeps \in Substeps \cup {10}
    BY DEF DitInv, DitTypeOK, DitPlan
  <2>2. Substeps \subseteq Int
    BY DitAssumption
  <2>3. CASE plan.substeps \in Substeps
    BY <2>2, <2>3
  <2>4. CASE plan.substeps = 10
    BY <2>4
  <2>5. QED BY <2>1, <2>3, <2>4
<1>3. PICK z \in 1 .. 50 : Rock(s) = [mdeg |-> MS[z], mz |-> z, mr |-> RowStart[z]]
  BY <1>1, <1>2, AttemptsAreWhole, RowIsFound
<1> DEFINE last == IF MS[z] = 1 THEN RowStart[z] ELSE RowStart[z] + 2 * (MS[z] - 2) + 2
<1>4. RowStart[z] \in Int /\ MS[z] \in 1 .. 148 /\ z + 1 \in 1 .. 51
      /\ RowStart[z + 1] = RowStart[z] + 2 * MS[z] - 1
  <2>1. RowStart[z + 1] = RowStart[z] + 2 * MS[z] - 1
    BY RowsFollow
  <2>2. RowStart[z] \in Int
    BY RowsFollow
  <2>3. MS[z] \in 1 .. 148
    BY DegreesRise
  <2>4. QED BY <2>1, <2>2, <2>3
<1>5. last = RowStart[z + 1] - 1
  BY <1>4
<1> HIDE DEF last
<1>6. RowStart[z + 1] \in Int /\ RowStart[z + 1] <= 4382
  <2>1. PICK i \in 1 .. 51 : i = z + 1
    BY <1>4
  <2>2. 51 \in 1 .. 51 /\ i <= 51
    OBVIOUS
  <2>3. RowStart[i] <= RowStart[51]
    BY <2>2, RowsRise
  <2>4. RowStart[i] \in Int /\ RowStart[51] = 4382
    BY RowsFollow
  <2>5. QED BY <2>1, <2>3, <2>4
<1>7. ASSUME NEW i \in DOMAIN MS, i > z PROVE last < RowStart[i]
  <2>1. PICK j \in 1 .. 51, k \in 1 .. 51 : j = z + 1 /\ k = i /\ j <= k
    BY <1>7, DegreesRise, SMTT(90)
  <2>2. RowStart[j] <= RowStart[k]
    BY <2>1, RowsRise
  <2>3. RowStart[k] \in Int
    BY RowsFollow
  <2>4. QED BY <1>5, <1>6, <2>1, <2>2, <2>3
<1>8. z <= FpRows /\ last < RecfSize
  BY <1>5, <1>6 DEF FpRows, RecfSize
<1>9. QED BY <1>3, <1>7, <1>8 DEF last

\* Momentum, velocities and noise keys are the track's own past, each step once,
\* and stork4 finds coefficients of its own inside the tables for whatever number
\* of sub steps is asked for (the solver state and tables of solver-stork.h).
THEOREM SolverStaysInPlace == DitSpec => []SolverKeepsItsPlace
<1>1. DitInv => SolverKeepsItsPlace
  BY PastIsOwn, TablesSuffice DEF SolverKeepsItsPlace
<1>2. QED BY <1>1, DitStays, PTL

-----------------------------------------------------------------------------
(***************************************************************************)
(* SynthRegion: the region of a repaint, and the frames it is made of.     *)
(***************************************************************************)

\* What the request fixes from the start: the paddings, the place of the source
\* on the canvas, the frames of the padded source.
LeftOf == IF HasRegion THEN LeftPad ELSE 0
RightOf == IF HasRegion THEN RightPad ELSE 0
ShiftOf == IF rq.src = "latents" THEN NearestFrames(LeftOf) * FrameLen ELSE LeftOf
FramesOf ==
    IF rq.src = "latents"
    THEN NearestFrames(LeftOf) + rq.len \div FrameLen + NearestFrames(RightOf)
    ELSE (LeftOf + rq.len + RightOf) \div FrameLen
PaddedOf == IF HasRegion /\ rq.src = "audio" THEN LeftOf + rq.len + RightOf ELSE 0
SourceFrame(t) == FromSource(t * FrameLen - ShiftOf)

RequestAsked == rq \in Request /\ (rq.src = "latents" => rq.len % FrameLen = 0)

Resolved == {"context", "generate", "splice", "decode", "done"}
Built == {"generate", "splice", "decode", "done"}

SynthType ==
    /\ regionPc \in {"pad", "adjust", "resolve", "context", "generate", "splice", "decode",
                     "done", "error"}
    /\ synth \in [rs : Int, re : Int, left_pad : Nat, padded : Nat, shift : Nat,
                  T : Nat, t0 : Nat, t1 : Nat]

\* The region and the paddings are those of the request.
RegionInv ==
    /\ regionPc \in {"pad", "adjust"} => synth.rs = rq.start /\ synth.re = rq.end
    /\ regionPc = "adjust" => HasRegion
    /\ regionPc # "pad" => /\ synth.left_pad = LeftOf /\ synth.shift = ShiftOf
                           /\ synth.padded = PaddedOf
    /\ regionPc \in Resolved \cup {"resolve"} /\ HasRegion =>
          synth.rs = AskedFrom /\ synth.re = AskedTo /\ AskedFrom < AskedTo

\* The canvas holds the whole source and all the codes.
CanvasInv ==
    /\ regionPc # "pad" /\ HasCover => cover = [t \in 1 .. FramesOf |-> SourceFrame(t - 1)]
    /\ regionPc # "pad" /\ ~HasCover => cover = <<>>
    /\ regionPc \in Resolved => Len(cover) <= synth.T
    /\ regionPc \in Resolved /\ ~HasCover =>
          \A b \in DOMAIN rq.codes : rq.codes[b] * CodeFrames <= synth.T

ZoneInv ==
    /\ regionPc \notin Built => synth.t0 = 0 /\ synth.t1 = 0
    /\ regionPc \in Built =>
          /\ synth.t0 = ZoneFrames[1] /\ synth.t1 = ZoneFrames[2]
          /\ ditContext = [b \in DOMAIN rq.codes |-> [t \in 1 .. synth.T |->
                             IF HasCover THEN SourceContext(t - 1, ZoneFrames)
                                         ELSE CodesContext(t - 1, rq.codes[b])]]

SoundFrame(t) == IF Spliced(t) THEN cover[t + 1] ELSE Generated
Sample(i) ==
    IF i < synth.padded /\ ~InZone(i, <<synth.t0 * FrameLen, synth.t1 * FrameLen>>)
    THEN PaddedSample(i) ELSE Decoded(i)

HeardInv ==
    /\ regionPc \notin {"splice", "decode", "done"} => output = <<>>
    /\ regionPc = "splice" => output = [t \in 1 .. synth.T |-> Generated]
    /\ regionPc \in {"decode", "done"} => output = [t \in 1 .. synth.T |-> SoundFrame(t - 1)]
    /\ regionPc # "done" => wave = <<>>
    /\ regionPc = "done" => wave = [i \in 1 .. synth.T * FrameLen |-> Sample(i - 1)]

RegionAll == RequestAsked /\ SynthType /\ RegionInv /\ CanvasInv /\ ZoneInv /\ HeardInv

-----------------------------------------------------------------------------
(* Arithmetic of frames. *)

\* A whole number of pieces of length d lies below x iff its end does.
LEMMA Below ==
    ASSUME NEW k \in Int, NEW x \in Int, NEW d \in Nat \ {0}
    PROVE  k <= x \div d <=> d * k <= x
<1>1. PICK q \in Int, r \in 0 .. d - 1 : q = x \div d /\ x = d * q + r
  BY Quotient
<1>2. k <= q => d * k <= d * q
  BY <1>1, Multiples
<1>3. q < k => d * q + d <= d * k
  BY <1>1, Multiples
<1>4. d * q \in Int /\ d * k \in Int
  BY <1>1
<1>5. QED BY <1>1, <1>2, <1>3, <1>4

LEMMA RoundsUp ==
    ASSUME NEW n \in Nat, NEW d \in Nat \ {0}
    PROVE  RoundUp(n, d) \in Nat /\ n <= RoundUp(n, d)
<1>1. PICK q \in Int, r \in 0 .. d - 1 : q = (n + d - 1) \div d /\ n + d - 1 = d * q + r
  BY Quotient
<1>2. RoundUp(n, d) = d * q
  BY <1>1 DEF RoundUp
<1>3. d * q \in Int /\ d * q >= n
  BY <1>1
<1>4. QED BY <1>2, <1>3

\* To the nearest: half a frame of error at most.
LEMMA Nearest ==
    ASSUME NEW x \in Nat
    PROVE  /\ NearestFrames(x) \in Nat
           /\ 2 * (FrameLen * NearestFrames(x)) <= 2 * x + FrameLen
           /\ 2 * x - FrameLen < 2 * (FrameLen * NearestFrames(x))
<1>1. PICK f \in Nat \ {0} : f = FrameLen
  BY RegionAssumption
<1>2. PICK q \in Int, r \in 0 .. 2 * f - 1 :
        q = (2 * x + f) \div (2 * f) /\ 2 * x + f = (2 * f) * q + r
  BY Quotient
<1>3. (2 * f) * q = 2 * (f * q) /\ f * q \in Int
  BY <1>1, <1>2
<1>4. q >= 0
  <2>1. SUFFICES ASSUME q < 0 PROVE FALSE
    BY <1>2
  <2>2. f * q + f <= f * 0
    BY <2>1, <1>1, <1>2, Multiples
  <2>3. QED BY <2>2, <1>1, <1>2, <1>3
<1>5. NearestFrames(x) = q
  BY <1>1, <1>2 DEF NearestFrames
<1>6. QED BY <1>1, <1>2, <1>3, <1>4, <1>5

-----------------------------------------------------------------------------
(* What a request is. *)

LEMMA RequestParts ==
    ASSUME RequestAsked
    PROVE  /\ rq.task \in Task /\ rq.src \in {"audio", "latents", "none"}
           /\ rq.len \in Nat /\ rq.start \in Int /\ rq.end \in Int
           /\ rq.codes \in Seq(Nat) /\ Len(rq.codes) >= 1
           /\ HasCover => /\ rq.task # "text2music" /\ rq.len > 0 /\ rq.codes = <<0>>
           /\ ~HasCover => ~HasRegion /\ rq.task = "text2music" /\ rq.len = 0
<1> DEFINE L == [task : Task \ {"text2music"}, src : {"audio", "latents"}, len : SrcLen,
                 start : Start, end : End, codes : {<<0>>}]
           N == [task : {"text2music"}, src : {"none"}, len : {0}, start : {0}, end : {-1},
                 codes : Codes]
<1>1. rq \in L \/ rq \in N
  BY DEF RequestAsked, Request
<1>2. CASE rq \in L
  <2>1. /\ rq.task \in Task \ {"text2music"} /\ rq.src \in {"audio", "latents"}
        /\ rq.len \in SrcLen /\ rq.start \in Start /\ rq.end \in End /\ rq.codes = <<0>>
    BY <1>2
  <2>2. <<0>> \in Seq(Nat) /\ Len(<<0>>) = 1
    OBVIOUS
  <2>3. rq.len \in Nat \ {0} /\ rq.start \in Int /\ rq.end \in Int
    BY <2>1, RegionAssumption
  <2>4. rq.codes \in Seq(Nat) /\ Len(rq.codes) >= 1
    BY <2>1, <2>2
  <2>5. HasCover
    BY <2>1 DEF HasCover
  <2>6. /\ rq.task \in Task /\ rq.src \in {"audio", "latents", "none"} /\ rq.task # "text2music"
        /\ rq.len \in Nat /\ rq.len > 0
    BY <2>1, <2>3
  <2>7. QED BY <2>1, <2>3, <2>4, <2>5, <2>6, Zenon
<1>3. CASE rq \in N
  <2>1. /\ rq.task = "text2music" /\ rq.src = "none" /\ rq.len = 0 /\ rq.start = 0
        /\ rq.end = -1 /\ rq.codes \in Codes
    BY <1>3
  <2>2. rq.codes \in Seq(Nat) /\ rq.codes # <<>>
    BY <2>1, RegionAssumption
  <2>3. Len(rq.codes) >= 1
    BY <2>2, EmptySeq
  <2>4. QED BY <2>1, <2>2, <2>3 DEF HasCover, HasRegion, IsRepaint, IsLegoRegion, Task
<1>4. QED BY <1>1, <1>2, <1>3

\* The paddings are lengths; the frames of the padded source hold the source.
LEMMA PaddingTypes ==
    ASSUME RequestAsked
    PROVE  /\ LeftPad \in Nat /\ RightPad \in Nat /\ LeftOf \in Nat /\ RightOf \in Nat
           /\ ShiftOf \in Nat /\ FramesOf \in Nat /\ PaddedOf \in Nat
           /\ AskedFrom \in Nat /\ AskedTo \in Int /\ AskedFrom = rq.start + LeftPad
<1>1. rq.len \in Nat /\ rq.start \in Int /\ rq.end \in Int
  BY RequestParts
<1>2. LeftPad \in Nat /\ RightPad \in Nat
  BY <1>1 DEF LeftPad, RightPad, MaxOf
<1>3. LeftOf \in Nat /\ RightOf \in Nat
  BY <1>2 DEF LeftOf, RightOf
<1>4. PICK f \in Nat \ {0} : f = FrameLen
  BY RegionAssumption
<1>5. PICK nl \in Nat, nr \in Nat : nl = NearestFrames(LeftOf) /\ nr = NearestFrames(RightOf)
  BY <1>3, Nearest
<1>6. ShiftOf \in Nat
  BY <1>3, <1>4, <1>5 DEF ShiftOf
<1>7. FramesOf \in Nat
  <2>1. \A x \in Nat : x \div f \in Nat
    OBVIOUS
  <2>2. LeftOf + rq.len + RightOf \in Nat
    BY <1>1, <1>3
  <2>3. (LeftOf + rq.len + RightOf) \div f \in Nat /\ rq.len \div f \in Nat
    BY <1>1, <2>1, <2>2
  <2>4. QED BY <2>3, <1>4, <1>5 DEF FramesOf
<1>8. PaddedOf \in Nat
  BY <1>1, <1>3 DEF PaddedOf
<1>9. AskedFrom \in Nat /\ AskedTo \in Int /\ AskedFrom = rq.start + LeftPad
  BY <1>1, <1>2 DEF AskedFrom, AskedTo, LeftPad, MaxOf
<1>10. QED BY <1>2, <1>3, <1>6, <1>7, <1>8, <1>9

LEMMA LongestCodes ==
    ASSUME RequestAsked
    PROVE  MaxCodes \in Nat /\ \A b \in DOMAIN rq.codes : rq.codes[b] <= MaxCodes
<1> DEFINE Tops(k) == {m \in 1 .. k : \A b \in 1 .. k : rq.codes[b] <= rq.codes[m]}
           Topless == {k \in 1 .. Len(rq.codes) : Tops(k) = {}}
<1>1. /\ Len(rq.codes) \in Nat /\ Len(rq.codes) >= 1 /\ DOMAIN rq.codes = 1 .. Len(rq.codes)
      /\ \A b \in 1 .. Len(rq.codes) : rq.codes[b] \in Nat
  BY RequestParts, LenProperties, ElementOfSeq
<1>a. \A k : k \in Topless <=> k \in 1 .. Len(rq.codes) /\ Tops(k) = {}
  OBVIOUS
<1>b. Topless \subseteq Nat
  BY <1>1
<1> HIDE DEF Topless
<1>2. Topless = {}
  <2>1. SUFFICES ASSUME Topless # {} PROVE FALSE
    OBVIOUS
  <2>2. PICK k \in Topless : \A j \in Topless : k <= j
    BY <2>1, <1>b, LeastElement
  <2>3. k \in 1 .. Len(rq.codes) /\ Tops(k) = {}
    BY <2>2, <1>a
  <2>4. k # 1
    <3>1. SUFFICES ASSUME k = 1 PROVE FALSE
      OBVIOUS
    <3>2. 1 \in Tops(1)
      BY <1>1
    <3>3. QED BY <3>1, <3>2, <2>3
  <2>5. k - 1 \in 1 .. Len(rq.codes) /\ ~(k - 1 \in Topless)
    BY <2>2, <2>3, <2>4, <1>1
  <2>6. PICK m \in 1 .. k - 1 : \A b \in 1 .. k - 1 : rq.codes[b] <= rq.codes[m]
    BY <2>5, <1>a
  <2>7. \A b \in 1 .. k : b \in 1 .. k - 1 \/ b = k
    BY <2>3
  <2>8. rq.codes[k] \in Nat /\ rq.codes[m] \in Nat /\ \A b \in 1 .. k : rq.codes[b] \in Nat
    BY <1>1, <2>3, <2>6
  <2>9. k \in Tops(k) \/ m \in Tops(k)
    BY <2>3, <2>6, <2>7, <2>8
  <2>10. QED BY <2>9, <2>3
<1>3. PICK m \in 1 .. Len(rq.codes) : \A b \in 1 .. Len(rq.codes) : rq.codes[b] <= rq.codes[m]
  <2>1. Len(rq.codes) \in 1 .. Len(rq.codes)
    BY <1>1
  <2>2. Tops(Len(rq.codes)) # {}
    BY <2>1, <1>2, <1>a
  <2>3. QED BY <2>2
<1>4. \E n \in {rq.codes[b] : b \in DOMAIN rq.codes} : \A b \in DOMAIN rq.codes : rq.codes[b] <= n
  BY <1>1, <1>3
<1>5. /\ MaxCodes \in {rq.codes[b] : b \in DOMAIN rq.codes}
      /\ \A b \in DOMAIN rq.codes : rq.codes[b] <= MaxCodes
  BY <1>4 DEF MaxCodes
<1>6. QED BY <1>1, <1>5

-----------------------------------------------------------------------------
(* The invariant. *)

\* What the request fixes stays as long as the request does.
LEMMA RequestFixes ==
    ASSUME rq' = rq
    PROVE  /\ LeftOf' = LeftOf /\ ShiftOf' = ShiftOf /\ FramesOf' = FramesOf /\ PaddedOf' = PaddedOf
           /\ HasRegion' = HasRegion /\ HasCover' = HasCover /\ IsRepaint' = IsRepaint
           /\ AskedFrom' = AskedFrom /\ AskedTo' = AskedTo /\ RequestAsked' = RequestAsked
           /\ \A t : SourceFrame(t)' = SourceFrame(t)
<1>1. IsRepaint' = IsRepaint /\ IsLegoRegion' = IsLegoRegion
  BY DEF IsRepaint, IsLegoRegion
<1>2. HasRegion' = HasRegion /\ HasCover' = HasCover
  BY <1>1 DEF HasRegion, HasCover
<1>3. LeftPad' = LeftPad /\ RightPad' = RightPad
  BY DEF LeftPad, RightPad
<1>4. LeftOf' = LeftOf /\ RightOf' = RightOf
  BY <1>2, <1>3 DEF LeftOf, RightOf
<1>5. ShiftOf' = ShiftOf /\ FramesOf' = FramesOf /\ PaddedOf' = PaddedOf
  BY <1>2, <1>4 DEF ShiftOf, FramesOf, PaddedOf
<1>6. AskedFrom' = AskedFrom /\ AskedTo' = AskedTo
  BY <1>3 DEF AskedFrom, AskedTo
<1>7. RequestAsked' = RequestAsked
  BY DEF RequestAsked
<1>8. \A t : SourceFrame(t)' = SourceFrame(t)
  BY <1>5 DEF SourceFrame, FromSource
<1>9. QED BY <1>1, <1>2, <1>4, <1>5, <1>6, <1>7, <1>8

LEMMA RegionStarts == RegionInit => RegionAll
<1>1. SUFFICES ASSUME RegionInit PROVE RegionAll
  OBVIOUS
<1>2. RequestAsked
  BY <1>1 DEF RegionInit, RequestAsked
<1>3. rq.start \in Int /\ rq.end \in Int
  BY <1>2, RequestParts
<1>4. SynthType
  BY <1>1, <1>3 DEF RegionInit, SynthType
<1>5. RegionInv /\ CanvasInv
  BY <1>1 DEF RegionInit, RegionInv, CanvasInv, Resolved
<1>6. ZoneInv /\ HeardInv
  BY <1>1 DEF RegionInit, ZoneInv, HeardInv, Built
<1>7. QED BY <1>2, <1>4, <1>5, <1>6 DEF RegionAll

LEMMA PaddingStep == RegionAll /\ PadSource => RegionAll'
<1>1. SUFFICES ASSUME RegionAll, PadSource PROVE RegionAll'
  OBVIOUS
<1>2. /\ RequestAsked /\ SynthType /\ regionPc = "pad" /\ rq' = rq /\ output' = output /\ wave' = wave
      /\ synth.rs = rq.start /\ synth.re = rq.end /\ output = <<>> /\ wave = <<>>
      /\ synth.t0 = 0 /\ synth.t1 = 0
  BY <1>1 DEF RegionAll, PadSource, RegionInv, ZoneInv, HeardInv, Built
<1>3. synth' = [synth EXCEPT !.left_pad = LeftOf, !.shift = ShiftOf, !.padded = PaddedOf]
  BY <1>1 DEF PadSource, LeftOf, ShiftOf, PaddedOf, RightOf
<1>4. cover' = IF HasCover THEN [t \in 1 .. FramesOf |-> SourceFrame(t - 1)] ELSE <<>>
  BY <1>1 DEF PadSource, LeftOf, ShiftOf, FramesOf, RightOf, SourceFrame
<1>5. regionPc' = IF HasRegion THEN "adjust" ELSE "resolve"
  BY <1>1 DEF PadSource
<1>6. LeftOf \in Nat /\ ShiftOf \in Nat /\ PaddedOf \in Nat
  BY <1>2, PaddingTypes
<1>7. SynthType' /\ synth'.rs = rq.start /\ synth'.re = rq.end /\ synth'.left_pad = LeftOf
      /\ synth'.shift = ShiftOf /\ synth'.padded = PaddedOf /\ synth'.t0 = 0 /\ synth'.t1 = 0
  BY <1>2, <1>3, <1>5, <1>6 DEF SynthType
<1>8. RegionInv'
  BY <1>2, <1>5, <1>7, RequestFixes DEF RegionInv, Resolved
<1>9. CanvasInv'
  <2>1. ~(regionPc' \in Resolved)
    BY <1>5 DEF Resolved
  <2>2. /\ HasCover' => cover' = [t \in 1 .. FramesOf |-> SourceFrame(t - 1)]
        /\ ~HasCover' => cover' = <<>>
    BY <1>2, <1>4, RequestFixes
  <2>3. FramesOf' = FramesOf /\ \A t : SourceFrame(t)' = SourceFrame(t)
    BY <1>2, RequestFixes
  <2>4. [t \in 1 .. FramesOf' |-> SourceFrame(t - 1)'] = [t \in 1 .. FramesOf |-> SourceFrame(t - 1)]
    BY <2>3
  <2>5. QED BY <2>1, <2>2, <2>4 DEF CanvasInv
<1>10. ZoneInv' /\ HeardInv'
  BY <1>2, <1>5, <1>7 DEF ZoneInv, HeardInv, Built
<1>11. QED BY <1>2, <1>7, <1>8, <1>9, <1>10, RequestFixes DEF RegionAll

LEMMA AdjustStep == RegionAll /\ AdjustRegion => RegionAll'
<1>1. SUFFICES ASSUME RegionAll, AdjustRegion PROVE RegionAll'
  OBVIOUS
<1>2. /\ RequestAsked /\ SynthType /\ regionPc = "adjust" /\ UNCHANGED <<rq, cover, output, wave>>
      /\ HasRegion /\ synth.rs = rq.start /\ synth.re = rq.end
      /\ synth.left_pad = LeftOf /\ synth.shift = ShiftOf /\ synth.padded = PaddedOf
      /\ output = <<>> /\ wave = <<>> /\ synth.t0 = 0 /\ synth.t1 = 0
  BY <1>1 DEF RegionAll, AdjustRegion, RegionInv, ZoneInv, HeardInv, Built
<1>3. /\ rq.len \in Nat /\ rq.start \in Int /\ rq.end \in Int /\ LeftPad \in Nat /\ LeftOf = LeftPad
      /\ AskedFrom = rq.start + LeftPad /\ AskedFrom \in Nat /\ AskedTo \in Int
  BY <1>2, RequestParts, PaddingTypes DEF LeftOf
<1>4. synth.rs + synth.left_pad = AskedFrom /\ AdjustedEnd = AskedTo
  BY <1>2, <1>3 DEF AdjustedEnd, AskedTo
<1>5. /\ synth' = [synth EXCEPT !.rs = AskedFrom, !.re = AskedTo]
      /\ regionPc' = IF AskedTo <= AskedFrom THEN "error" ELSE "resolve"
  BY <1>1, <1>2, <1>4 DEF AdjustRegion, SynthType
<1>6. SynthType' /\ synth'.rs = AskedFrom /\ synth'.re = AskedTo /\ synth'.left_pad = LeftOf
      /\ synth'.shift = ShiftOf /\ synth'.padded = PaddedOf /\ synth'.t0 = 0 /\ synth'.t1 = 0
  <2>1. synth \in [rs : Int, re : Int, left_pad : Nat, padded : Nat, shift : Nat,
                   T : Nat, t0 : Nat, t1 : Nat]
    BY <1>2 DEF SynthType
  <2>2. PICK a \in Int, b \in Int : a = AskedFrom /\ b = AskedTo
    BY <1>3
  <2>3. synth' = [synth EXCEPT !.rs = a, !.re = b]
    BY <1>5, <2>2
  <2>4. synth' \in [rs : Int, re : Int, left_pad : Nat, padded : Nat, shift : Nat,
                    T : Nat, t0 : Nat, t1 : Nat]
    BY <2>1, <2>2, <2>3
  <2>5. /\ synth'.rs = a /\ synth'.re = b /\ synth'.left_pad = synth.left_pad
        /\ synth'.shift = synth.shift /\ synth'.padded = synth.padded
        /\ synth'.t0 = synth.t0 /\ synth'.t1 = synth.t1
    BY <2>1, <2>3
  <2>6. regionPc' \in {"error", "resolve"}
    BY <1>5
  <2>7. QED BY <1>2, <2>2, <2>4, <2>5, <2>6 DEF SynthType
<1>7. RegionInv'
  BY <1>2, <1>3, <1>5, <1>6, RequestFixes DEF RegionInv, Resolved
<1>8. CanvasInv'
  BY <1>1, <1>2, <1>5, RequestFixes DEF RegionAll, CanvasInv, Resolved
<1>9. ZoneInv' /\ HeardInv'
  BY <1>2, <1>5, <1>6 DEF ZoneInv, HeardInv, Built
<1>10. QED BY <1>2, <1>6, <1>7, <1>8, <1>9, RequestFixes DEF RegionAll

LEMMA ResolveStep == RegionAll /\ ResolveT => RegionAll'
<1>1. SUFFICES ASSUME RegionAll, ResolveT PROVE RegionAll'
  OBVIOUS
<1>2. /\ RequestAsked /\ SynthType /\ regionPc = "resolve" /\ UNCHANGED <<rq, cover, output, wave>>
      /\ output = <<>> /\ wave = <<>> /\ synth.t0 = 0 /\ synth.t1 = 0
      /\ HasRegion => synth.rs = AskedFrom /\ synth.re = AskedTo /\ AskedFrom < AskedTo
  BY <1>1 DEF RegionAll, ResolveT, RegionInv, ZoneInv, HeardInv, Built, Resolved
<1>3. /\ HasCover => cover = [t \in 1 .. FramesOf |-> SourceFrame(t - 1)]
      /\ ~HasCover => cover = <<>>
  BY <1>1, <1>2 DEF RegionAll, CanvasInv
<1>4. FramesOf \in Nat /\ MaxCodes \in Nat
  BY <1>2, PaddingTypes, LongestCodes
<1>5. Len(cover) \in Nat
  <2>1. CASE HasCover
    BY <2>1, <1>3, <1>4
  <2>2. CASE ~HasCover
    BY <2>2, <1>3, EmptySeq
  <2>3. QED BY <2>1, <2>2
<1> DEFINE frames == IF HasCover THEN Len(cover)
                     ELSE IF MaxCodes > 0 THEN MaxCodes * CodeFrames ELSE MaxT
<1>6. frames \in Nat
  BY <1>4, <1>5, RegionAssumption
<1>7. /\ synth' = [synth EXCEPT !.T = RoundUp(frames, PatchSize)]
      /\ regionPc' = IF RoundUp(frames, PatchSize) > MaxT THEN "error" ELSE "context"
  BY <1>1 DEF ResolveT
<1> HIDE DEF frames
<1>8. RoundUp(frames, PatchSize) \in Nat /\ frames <= RoundUp(frames, PatchSize)
  BY <1>6, RoundsUp, RegionAssumption
<1>9. /\ SynthType' /\ synth'.rs = synth.rs /\ synth'.re = synth.re
      /\ synth'.left_pad = synth.left_pad /\ synth'.shift = synth.shift
      /\ synth'.padded = synth.padded /\ synth'.t0 = 0 /\ synth'.t1 = 0
      /\ synth'.T \in Nat /\ frames <= synth'.T
  BY <1>2, <1>7, <1>8 DEF SynthType
<1>10. RegionInv'
  BY <1>1, <1>2, <1>7, <1>9, RequestFixes DEF RegionAll, RegionInv, Resolved
<1>11. HasCover => Len(cover) <= synth'.T
  BY <1>9 DEF frames
<1>12. ~HasCover => \A b \in DOMAIN rq.codes : rq.codes[b] * CodeFrames <= synth'.T
  <2>1. SUFFICES ASSUME ~HasCover, NEW b \in DOMAIN rq.codes
                 PROVE  rq.codes[b] * CodeFrames <= synth'.T
    OBVIOUS
  <2>2. PICK n \in Nat : n = rq.codes[b]
    BY <1>2, RequestParts, ElementOfSeq
  <2>3. PICK m \in Nat : m = MaxCodes /\ n <= m
    BY <1>2, <2>2, LongestCodes
  <2>4. PICK c \in Nat \ {0} : c = CodeFrames
    BY RegionAssumption
  <2>5. CASE m > 0
    <3>1. frames = m * c
      BY <2>1, <2>3, <2>4, <2>5 DEF frames
    <3>2. c * n <= c * m
      BY <2>2, <2>3, <2>4, Multiples
    <3>3. n * c = c * n /\ m * c = c * m /\ n * c \in Nat /\ m * c \in Nat
      BY <2>2, <2>3, <2>4
    <3>4. QED BY <1>9, <2>2, <2>4, <3>1, <3>2, <3>3
  <2>6. CASE m = 0
    BY <2>2, <2>3, <2>4, <2>6, <1>9
  <2>7. QED BY <2>5, <2>6
<1>13. ~HasCover => Len(cover) <= synth'.T
  BY <1>3, <1>9, EmptySeq
<1>14. CanvasInv'
  <2>1. HasCover' = HasCover /\ FramesOf' = FramesOf /\ \A t : SourceFrame(t)' = SourceFrame(t)
    BY <1>2, RequestFixes
  <2>2. cover' = cover /\ rq' = rq
    BY <1>2
  <2>3. Len(cover) <= synth'.T
    BY <1>11, <1>13
  <2>4. QED BY <1>3, <1>12, <2>1, <2>2, <2>3 DEF CanvasInv
<1>15. ZoneInv' /\ HeardInv'
  BY <1>2, <1>7, <1>9 DEF ZoneInv, HeardInv, Built
<1>16. QED BY <1>2, <1>9, <1>10, <1>14, <1>15, RequestFixes DEF RegionAll

\* The zone in frames, when the region is the one asked for.
LEMMA ZoneType ==
    ASSUME RegionAll, regionPc \in Resolved
    PROVE  /\ ZoneFrames[1] \in 0 .. synth.T /\ ZoneFrames[2] \in 0 .. synth.T
           /\ ZoneFrames = <<ZoneFrames[1], ZoneFrames[2]>>
           /\ ~IsRepaint => ZoneFrames = <<0, 0>>
           /\ IsRepaint => /\ ZoneFrames[1] = MinOf(AskedFrom \div FrameLen, synth.T)
                           /\ ZoneFrames[2] = MinOf(AskedTo \div FrameLen, synth.T)
<1>1. PICK T \in Nat : T = synth.T
  BY DEF RegionAll, SynthType
<1>2. CASE ~IsRepaint
  BY <1>1, <1>2 DEF ZoneFrames
<1>3. CASE IsRepaint
  <2>1. PICK a \in Nat, b \in Nat : a = AskedFrom /\ b = AskedTo /\ synth.rs = a /\ synth.re = b
    BY <1>3, PaddingTypes DEF RegionAll, RegionInv, HasRegion
  <2>2. PICK f \in Nat \ {0} : f = FrameLen
    BY RegionAssumption
  <2>3. a \div f \in Nat /\ b \div f \in Nat
    OBVIOUS
  <2>4. PICK p \in Nat, q \in Nat : p = a \div f /\ q = b \div f
    BY <2>3
  <2>5. ZoneFrames = <<MinOf(p, T), MinOf(q, T)>>
    BY <1>1, <1>3, <2>1, <2>2, <2>4 DEF ZoneFrames
  <2>6. MinOf(p, T) \in 0 .. T /\ MinOf(q, T) \in 0 .. T
    BY DEF MinOf
  <2>7. ZoneFrames[1] = MinOf(p, T) /\ ZoneFrames[2] = MinOf(q, T)
    BY <2>5
  <2>8. QED BY <1>1, <1>3, <2>1, <2>2, <2>4, <2>5, <2>6, <2>7
<1>4. QED BY <1>2, <1>3

\* Zone and context stay as long as what they are made of.
LEMMA ContextFixes ==
    ASSUME rq' = rq, cover' = cover, synth'.rs = synth.rs, synth'.re = synth.re, synth'.T = synth.T
    PROVE  /\ ZoneFrames' = ZoneFrames
           /\ \A t, z : SourceContext(t, z)' = SourceContext(t, z)
<1>1. HasRegion' = HasRegion /\ IsRepaint' = IsRepaint
  BY RequestFixes
<1>2. ZoneFrames' = ZoneFrames
  BY <1>1 DEF ZoneFrames
<1>3. \A t, z : SourceContext(t, z)' = SourceContext(t, z)
  BY <1>1 DEF SourceContext, CoverOrSilence
<1>4. QED BY <1>2, <1>3

\* From the resolved length on, the region and the canvas stay.
LEMMA ResolvedStays ==
    ASSUME RegionAll, regionPc \in Resolved, regionPc' \in Resolved, rq' = rq, cover' = cover,
           synth'.rs = synth.rs, synth'.re = synth.re, synth'.T = synth.T,
           synth'.left_pad = synth.left_pad, synth'.shift = synth.shift, synth'.padded = synth.padded
    PROVE  RequestAsked' /\ RegionInv' /\ CanvasInv'
<1>1. RequestAsked'
  BY RequestFixes DEF RegionAll
<1>2. RegionInv'
  BY RequestFixes DEF RegionAll, RegionInv, Resolved
<1>3. CanvasInv'
  <2>1. HasCover' = HasCover /\ FramesOf' = FramesOf /\ \A t : SourceFrame(t)' = SourceFrame(t)
    BY RequestFixes
  <2>2. [t \in 1 .. FramesOf' |-> SourceFrame(t - 1)'] = [t \in 1 .. FramesOf |-> SourceFrame(t - 1)]
    BY <2>1
  <2>3. /\ HasCover => cover = [t \in 1 .. FramesOf |-> SourceFrame(t - 1)]
        /\ ~HasCover => cover = <<>>
        /\ Len(cover) <= synth.T
        /\ ~HasCover => \A b \in DOMAIN rq.codes : rq.codes[b] * CodeFrames <= synth.T
    BY DEF RegionAll, CanvasInv, Resolved
  <2>4. QED BY <2>1, <2>2, <2>3 DEF CanvasInv
<1>4. QED BY <1>1, <1>2, <1>3

LEMMA ContextStep == RegionAll /\ BuildContext => RegionAll'
<1>1. SUFFICES ASSUME RegionAll, BuildContext PROVE RegionAll'
  OBVIOUS
<1>2. /\ SynthType /\ regionPc = "context" /\ UNCHANGED <<rq, cover, output, wave>>
      /\ output = <<>> /\ wave = <<>> /\ regionPc' = "generate"
  BY <1>1 DEF RegionAll, BuildContext, HeardInv
<1>3. PICK a \in Nat, b \in Nat : a = ZoneFrames[1] /\ b = ZoneFrames[2]
  BY <1>1, <1>2, ZoneType DEF Resolved, RegionAll, SynthType
<1>4. synth' = [synth EXCEPT !.t0 = a, !.t1 = b]
  BY <1>1, <1>3 DEF BuildContext
<1>5. synth' \in [rs : Int, re : Int, left_pad : Nat, padded : Nat, shift : Nat,
                  T : Nat, t0 : Nat, t1 : Nat]
      /\ synth'.rs = synth.rs /\ synth'.re = synth.re /\ synth'.T = synth.T
      /\ synth'.left_pad = synth.left_pad /\ synth'.shift = synth.shift
      /\ synth'.padded = synth.padded /\ synth'.t0 = a /\ synth'.t1 = b
  BY <1>2, <1>4 DEF SynthType
<1>6. SynthType'
  BY <1>2, <1>5 DEF SynthType
<1>7. RequestAsked' /\ RegionInv' /\ CanvasInv'
  BY <1>1, <1>2, <1>5, ResolvedStays DEF Resolved
<1>8. ZoneInv'
  <2>1. ZoneFrames' = ZoneFrames /\ \A t, z : SourceContext(t, z)' = SourceContext(t, z)
    BY <1>2, <1>5, ContextFixes
  <2>2. HasCover' = HasCover
    BY <1>2, RequestFixes
  <2>3. ditContext' = [i \in DOMAIN rq.codes |-> [t \in 1 .. synth.T |->
                          IF HasCover THEN SourceContext(t - 1, ZoneFrames)
                                      ELSE CodesContext(t - 1, rq.codes[i])]]
    BY <1>1 DEF BuildContext
  <2>4. ditContext' = [i \in DOMAIN rq'.codes |-> [t \in 1 .. synth'.T |->
                          IF HasCover' THEN SourceContext(t - 1, ZoneFrames)'
                                       ELSE CodesContext(t - 1, rq'.codes[i])]]
    BY <1>2, <1>5, <2>1, <2>2, <2>3
  <2>5. QED BY <1>2, <1>3, <1>5, <2>1, <2>4 DEF ZoneInv, Built, CodesContext
<1>9. HeardInv'
  BY <1>2 DEF HeardInv
<1>10. QED BY <1>6, <1>7, <1>8, <1>9 DEF RegionAll

\* The later steps leave the canvas, the zone and the context as they are.
LEMMA BuiltStays ==
    ASSUME RegionAll, regionPc \in Built, regionPc' \in Built, UNCHANGED <<rq, synth, cover, ditContext>>
    PROVE  RequestAsked' /\ SynthType' /\ RegionInv' /\ CanvasInv' /\ ZoneInv'
<1>1. RequestAsked' /\ RegionInv' /\ CanvasInv'
  BY ResolvedStays DEF Built, Resolved
<1>2. SynthType'
  BY DEF RegionAll, SynthType, Built
<1>3. ZoneInv'
  <2>1. ZoneFrames' = ZoneFrames /\ \A t, z : SourceContext(t, z)' = SourceContext(t, z)
    BY ContextFixes
  <2>2. HasCover' = HasCover
    BY RequestFixes
  <2>3. /\ synth.t0 = ZoneFrames[1] /\ synth.t1 = ZoneFrames[2]
        /\ ditContext = [b \in DOMAIN rq.codes |-> [t \in 1 .. synth.T |->
                           IF HasCover THEN SourceContext(t - 1, ZoneFrames)
                                       ELSE CodesContext(t - 1, rq.codes[b])]]
    BY DEF RegionAll, ZoneInv
  <2>4. ditContext' = [i \in DOMAIN rq'.codes |-> [t \in 1 .. synth'.T |->
                          IF HasCover' THEN SourceContext(t - 1, ZoneFrames)'
                                       ELSE CodesContext(t - 1, rq'.codes[i])]]
    BY <2>1, <2>2, <2>3
  <2>5. QED BY <2>1, <2>3, <2>4 DEF ZoneInv, Built, CodesContext
<1>4. QED BY <1>1, <1>2, <1>3

LEMMA GenerateStep == RegionAll /\ Generate => RegionAll'
<1>1. SUFFICES ASSUME RegionAll, Generate PROVE RegionAll'
  OBVIOUS
<1>2. RequestAsked' /\ SynthType' /\ RegionInv' /\ CanvasInv' /\ ZoneInv'
  BY <1>1, BuiltStays DEF Generate, Built
<1>3. HeardInv'
  BY <1>1 DEF RegionAll, Generate, HeardInv
<1>4. QED BY <1>2, <1>3 DEF RegionAll

LEMMA SpliceStep == RegionAll /\ LatentSplice => RegionAll'
<1>1. SUFFICES ASSUME RegionAll, LatentSplice PROVE RegionAll'
  OBVIOUS
<1>2. RequestAsked' /\ SynthType' /\ RegionInv' /\ CanvasInv' /\ ZoneInv'
  BY <1>1, BuiltStays DEF LatentSplice, Built
<1>3. output = [t \in 1 .. synth.T |-> Generated] /\ wave = <<>>
  BY <1>1 DEF RegionAll, LatentSplice, HeardInv
<1>4. \A t \in 1 .. synth.T : t - 1 + 1 = t
  BY <1>1 DEF RegionAll, SynthType
<1>5. output' = [t \in 1 .. synth.T |-> SoundFrame(t - 1)]
  BY <1>1, <1>3, <1>4 DEF LatentSplice, SoundFrame
<1>6. \A t : SoundFrame(t)' = SoundFrame(t)
  BY <1>1, RequestFixes DEF LatentSplice, SoundFrame, Spliced
<1>7. output' = [t \in 1 .. synth'.T |-> SoundFrame(t - 1)']
  BY <1>1, <1>5, <1>6 DEF LatentSplice
<1>8. HeardInv'
  BY <1>1, <1>3, <1>7 DEF LatentSplice, HeardInv
<1>9. QED BY <1>2, <1>8 DEF RegionAll

LEMMA WaveStep == RegionAll /\ WaveSplice => RegionAll'
<1>1. SUFFICES ASSUME RegionAll, WaveSplice PROVE RegionAll'
  OBVIOUS
<1>2. RequestAsked' /\ SynthType' /\ RegionInv' /\ CanvasInv' /\ ZoneInv'
  BY <1>1, BuiltStays DEF WaveSplice, Built
<1>3. output = [t \in 1 .. synth.T |-> SoundFrame(t - 1)]
  BY <1>1 DEF RegionAll, WaveSplice, HeardInv
<1>4. \A t : SoundFrame(t)' = SoundFrame(t)
  BY <1>1, RequestFixes DEF WaveSplice, SoundFrame, Spliced
<1>5. output' = [t \in 1 .. synth'.T |-> SoundFrame(t - 1)']
  BY <1>1, <1>3, <1>4 DEF WaveSplice
<1>6. wave' = [i \in 1 .. synth.T * FrameLen |-> Sample(i - 1)]
  BY <1>1 DEF WaveSplice, Sample
<1>7. \A i : Sample(i)' = Sample(i)
  BY <1>1 DEF WaveSplice, Sample, PaddedSample, Decoded, FromSource
<1>8. wave' = [i \in 1 .. synth'.T * FrameLen |-> Sample(i - 1)']
  BY <1>1, <1>6, <1>7 DEF WaveSplice
<1>9. HeardInv'
  BY <1>1, <1>5, <1>8 DEF WaveSplice, HeardInv
<1>10. QED BY <1>2, <1>9 DEF RegionAll

LEMMA RegionHolds == RegionSpec => []RegionAll
<1>1. ASSUME RegionAll, UNCHANGED regionVars PROVE RegionAll'
  <2>1. UNCHANGED <<regionPc, rq, synth, cover, ditContext, output, wave>>
    BY <1>1 DEF regionVars
  <2>2. /\ \A t : SoundFrame(t)' = SoundFrame(t)
        /\ \A i : Sample(i)' = Sample(i)
    BY <2>1, RequestFixes DEF SoundFrame, Spliced, Sample, PaddedSample, Decoded, FromSource
  <2>3. HeardInv' = HeardInv
    BY <2>1, <2>2 DEF HeardInv
  <2>4. ZoneInv' = ZoneInv
    <3>1. HasCover' = HasCover /\ ZoneFrames' = ZoneFrames
      BY <2>1, RequestFixes, ContextFixes
    <3>2. \A t, z : SourceContext(t, z)' = SourceContext(t, z)
      BY <2>1, ContextFixes
    <3>3. [b \in DOMAIN rq'.codes |-> [t \in 1 .. synth'.T |->
             IF HasCover' THEN SourceContext(t - 1, ZoneFrames)'
                          ELSE CodesContext(t - 1, rq'.codes[b])]]
          = [b \in DOMAIN rq.codes |-> [t \in 1 .. synth.T |->
               IF HasCover THEN SourceContext(t - 1, ZoneFrames)
                           ELSE CodesContext(t - 1, rq.codes[b])]]
      BY <2>1, <3>1, <3>2
    <3>4. QED BY <2>1, <3>1, <3>3 DEF ZoneInv, CodesContext
  <2>5. CanvasInv' = CanvasInv
    <3>1. HasCover' = HasCover /\ FramesOf' = FramesOf /\ \A t : SourceFrame(t)' = SourceFrame(t)
      BY <2>1, RequestFixes
    <3>2. [t \in 1 .. FramesOf' |-> SourceFrame(t - 1)'] = [t \in 1 .. FramesOf |-> SourceFrame(t - 1)]
      BY <3>1
    <3>3. QED BY <2>1, <3>1, <3>2 DEF CanvasInv
  <2>6. RegionInv' = RegionInv
    BY <2>1, RequestFixes DEF RegionInv
  <2>7. RequestAsked' = RequestAsked /\ SynthType' = SynthType
    BY <2>1, RequestFixes DEF SynthType
  <2>8. QED BY <1>1, <2>3, <2>4, <2>5, <2>6, <2>7 DEF RegionAll
<1>2. RegionAll /\ [RegionNext]_regionVars => RegionAll'
  BY <1>1, PaddingStep, AdjustStep, ResolveStep, ContextStep, GenerateStep, SpliceStep, WaveStep
     DEF RegionNext, RegionEnded
<1>3. QED BY <1>2, RegionStarts, PTL DEF RegionSpec

-----------------------------------------------------------------------------
(* What the DiT hears. *)

\* A frame lies in the zone iff it ends in the region asked for.
LEMMA ZoneIsAsked ==
    ASSUME RegionAll, regionPc \in Built, IsRepaint, NEW t \in Nat, t < synth.T
    PROVE  /\ InZone(t, ZoneFrames) <=> AskedFrom < FrameLen * (t + 1) /\ FrameLen * (t + 1) <= AskedTo
           /\ InZone(t, <<synth.t0, synth.t1>>) <=> InZone(t, ZoneFrames)
<1>1. PICK f \in Nat \ {0}, a \in Nat, b \in Int, T \in Nat :
        f = FrameLen /\ a = AskedFrom /\ b = AskedTo /\ T = synth.T
  BY PaddingTypes, RegionAssumption DEF RegionAll, SynthType
<1>2. a \div f \in Int /\ b \div f \in Int
  BY <1>1
<1>3. PICK p \in Int, q \in Int : p = a \div f /\ q = b \div f
  BY <1>2
<1>4. ZoneFrames[1] = MinOf(p, T) /\ ZoneFrames[2] = MinOf(q, T)
  BY <1>1, <1>3, ZoneType DEF Built, Resolved
<1>a. PICK k \in Int : k = t + 1
  OBVIOUS
<1>b. /\ k <= a \div f <=> f * k <= a
      /\ k <= b \div f <=> f * k <= b
  <2>1. a \in Int /\ b \in Int /\ f \in Nat \ {0} /\ k \in Int
    BY <1>1, <1>a
  <2>2. k <= a \div f <=> f * k <= a
    BY <2>1, Below
  <2>3. k <= b \div f <=> f * k <= b
    BY <2>1, Below
  <2>4. QED BY <2>2, <2>3
<1>5. t + 1 <= p <=> f * (t + 1) <= a
  BY <1>a, <1>b, <1>3
<1>6. t + 1 <= q <=> f * (t + 1) <= b
  BY <1>a, <1>b, <1>3
<1>7. f * (t + 1) \in Int
  BY <1>1
<1>8. InZone(t, ZoneFrames) <=> t >= MinOf(p, T) /\ t < MinOf(q, T)
  BY <1>4 DEF InZone
<1>9. (t >= MinOf(p, T) /\ t < MinOf(q, T)) <=> ~(t + 1 <= p) /\ t + 1 <= q
  BY <1>1 DEF MinOf
<1>10. InZone(t, <<synth.t0, synth.t1>>) <=> InZone(t, ZoneFrames)
  BY DEF RegionAll, ZoneInv, InZone
<1>11. QED BY <1>1, <1>5, <1>6, <1>7, <1>8, <1>9, <1>10

\* Outside repaint the zone is empty.
LEMMA NoZone ==
    ASSUME RegionAll, regionPc \in Built, ~IsRepaint, NEW t \in Nat
    PROVE  ~InZone(t, ZoneFrames) /\ ~InZone(t, <<synth.t0, synth.t1>>)
<1>1. ZoneFrames = <<0, 0>>
  BY ZoneType DEF Built, Resolved
<1>2. ~InZone(t, ZoneFrames)
  BY <1>1 DEF InZone
<1>3. InZone(t, <<synth.t0, synth.t1>>) <=> InZone(t, ZoneFrames)
  BY DEF RegionAll, ZoneInv, InZone
<1>4. QED BY <1>2, <1>3

\* Inside and outside, in the units of the lemmas.
LEMMA AskedFrames ==
    ASSUME RequestAsked, NEW t \in Nat
    PROVE  /\ InsideAsked(t) <=> FrameLen * t >= AskedFrom /\ FrameLen * (t + 1) <= AskedTo
           /\ OutsideAsked(t) <=> FrameLen * (t + 1) <= AskedFrom \/ FrameLen * t >= AskedTo
           /\ FrameLen * t \in Nat /\ FrameLen * (t + 1) = FrameLen * t + FrameLen
           /\ FrameLen \in Nat \ {0}
<1>1. PICK f \in Nat \ {0} : f = FrameLen
  BY RegionAssumption
<1>2. f * t = t * f /\ f * (t + 1) = (t + 1) * f /\ f * t \in Nat /\ f * (t + 1) = f * t + f
  BY <1>1
<1>3. QED BY <1>1, <1>2 DEF InsideAsked, OutsideAsked

LEMMA InOrOut ==
    ASSUME RegionAll, regionPc \in Built, IsRepaint, NEW t \in Nat, t < synth.T
    PROVE  /\ InsideAsked(t) => InZone(t, ZoneFrames) /\ ~OutsideAsked(t)
           /\ OutsideAsked(t) => ~InZone(t, ZoneFrames)
<1>1. PICK f \in Nat \ {0}, x \in Nat, a \in Nat, b \in Int :
        f = FrameLen /\ x = FrameLen * t /\ a = AskedFrom /\ b = AskedTo
  BY PaddingTypes, AskedFrames DEF RegionAll
<1>2. /\ InsideAsked(t) <=> x >= a /\ x + f <= b
      /\ OutsideAsked(t) <=> x + f <= a \/ x >= b
      /\ FrameLen * (t + 1) = x + f
  BY <1>1, AskedFrames DEF RegionAll
<1>3. InZone(t, ZoneFrames) <=> a < x + f /\ x + f <= b
  BY <1>1, <1>2, ZoneIsAsked
<1>4. QED BY <1>1, <1>2, <1>3

LEMMA CodesAreHeard ==
    ASSUME RegionAll, regionPc = "done", ~HasCover, NEW b \in DOMAIN rq.codes
    PROVE  Cardinality(CodesHeard(b)) = rq.codes[b] * CodeFrames
<1>1. PICK n \in Nat, c \in Nat \ {0}, T \in Nat : n = rq.codes[b] /\ c = CodeFrames /\ T = synth.T
  <2>1. rq.codes \in Seq(Nat)
    BY RequestParts DEF RegionAll
  <2>2. rq.codes[b] \in Nat
    BY <2>1, ElementOfSeq
  <2>3. CodeFrames \in Nat \ {0}
    BY RegionAssumption
  <2>4. synth.T \in Nat
    BY DEF RegionAll, SynthType
  <2>5. QED BY <2>2, <2>3, <2>4
<1>2. PICK m \in Nat : m = n * c
  BY <1>1
<1>3. m <= T
  BY <1>1, <1>2 DEF RegionAll, CanvasInv, Resolved
<1>4. ditContext[b] = [t \in 1 .. T |-> CodesContext(t - 1, n)]
  BY <1>1 DEF RegionAll, ZoneInv, Built
<1>5. \A t \in 1 .. T : ditContext[b][t].src.kind = "codes" <=> t - 1 < m
  BY <1>1, <1>2, <1>4 DEF CodesContext, Origin, Silence
<1>6. CodesHeard(b) = {t \in 1 .. T : t - 1 < m}
  BY <1>4, <1>5 DEF CodesHeard
<1>7. {t \in 1 .. T : t - 1 < m} = 1 .. m
  BY <1>3
<1>8. Cardinality(1 .. m) = m
  BY FS_Interval
<1>9. QED BY <1>1, <1>2, <1>6, <1>7, <1>8

LEMMA HearsAsDocumented == RegionAll => ContextAsDocumented
<1>1. SUFFICES ASSUME RegionAll, regionPc = "done", NEW b \in DOMAIN ditContext, NEW t \in 0 .. synth.T - 1
               PROVE  LET c == ditContext[b][t + 1]
                      IN  CASE rq.task = "text2music" ->
                                 Cardinality(CodesHeard(b)) = rq.codes[b] * CodeFrames /\ c.mask = 1
                            [] IsRepaint /\ InsideAsked(t) -> c = [src |-> Silence, mask |-> 1]
                            [] IsRepaint /\ OutsideAsked(t) -> c = [src |-> CoverOrSilence(t), mask |-> 0]
                            [] rq.task = "cover" -> c = [src |-> CoverOrSilence(t), mask |-> 1]
                            [] OTHER -> TRUE
  BY DEF ContextAsDocumented, RegionDone
<1> DEFINE c == ditContext[b][t + 1]
<1>2. t \in Nat /\ t < synth.T /\ t + 1 \in 1 .. synth.T /\ t + 1 - 1 = t
  BY <1>1 DEF RegionAll, SynthType
<1>3. b \in DOMAIN rq.codes
      /\ c = IF HasCover THEN SourceContext(t, ZoneFrames) ELSE CodesContext(t, rq.codes[b])
  <2>1. ditContext = [i \in DOMAIN rq.codes |-> [k \in 1 .. synth.T |->
                        IF HasCover THEN SourceContext(k - 1, ZoneFrames)
                                    ELSE CodesContext(k - 1, rq.codes[i])]]
    BY <1>1 DEF RegionAll, ZoneInv, Built
  <2>2. b \in DOMAIN rq.codes
    BY <1>1, <2>1
  <2>3. ditContext[b] = [k \in 1 .. synth.T |->
                           IF HasCover THEN SourceContext(k - 1, ZoneFrames)
                                       ELSE CodesContext(k - 1, rq.codes[b])]
    BY <2>1, <2>2
  <2>4. QED BY <2>2, <2>3, <1>2
<1>4. RequestAsked
  BY <1>1 DEF RegionAll
<1> HIDE DEF c
<1>5. ASSUME rq.task = "text2music"
      PROVE  Cardinality(CodesHeard(b)) = rq.codes[b] * CodeFrames /\ c.mask = 1
  <2>1. ~HasCover
    BY <1>5, <1>4, RequestParts
  <2>2. c.mask = 1
    BY <2>1, <1>3 DEF CodesContext
  <2>3. QED BY <2>1, <2>2, <1>1, <1>3, CodesAreHeard
<1>6. ASSUME IsRepaint PROVE HasCover /\ HasRegion /\ rq.task # "text2music" /\ rq.task # "cover"
  BY <1>6, <1>4, RequestParts DEF IsRepaint, HasRegion
<1>7. ASSUME IsRepaint, InsideAsked(t) PROVE c = [src |-> Silence, mask |-> 1] /\ ~OutsideAsked(t)
  <2>1. InZone(t, ZoneFrames) /\ ~OutsideAsked(t)
    BY <1>7, <1>1, <1>2, InOrOut DEF Built
  <2>2. QED BY <2>1, <1>3, <1>6, <1>7 DEF SourceContext
<1>8. ASSUME IsRepaint, OutsideAsked(t) PROVE c = [src |-> CoverOrSilence(t), mask |-> 0]
  <2>1. ~InZone(t, ZoneFrames)
    BY <1>8, <1>1, <1>2, InOrOut DEF Built
  <2>2. QED BY <2>1, <1>3, <1>6, <1>8 DEF SourceContext
<1>9. ASSUME rq.task = "cover" PROVE c = [src |-> CoverOrSilence(t), mask |-> 1]
  <2>1. HasCover /\ ~HasRegion /\ ~IsRepaint
    BY <1>9, <1>4, RequestParts DEF HasRegion, IsRepaint, IsLegoRegion
  <2>2. QED BY <2>1, <1>3 DEF SourceContext
<1>10. CASE rq.task = "text2music"
  BY <1>10, <1>5, <1>6 DEF c
<1>11. CASE IsRepaint /\ InsideAsked(t)
  BY <1>11, <1>6, <1>7 DEF c
<1>12. CASE IsRepaint /\ OutsideAsked(t)
  BY <1>12, <1>6, <1>7, <1>8 DEF c
<1>13. CASE rq.task = "cover"
  BY <1>13, <1>6, <1>9 DEF c
<1>14. CASE /\ rq.task # "text2music" /\ rq.task # "cover"
            /\ ~(IsRepaint /\ InsideAsked(t)) /\ ~(IsRepaint /\ OutsideAsked(t))
  BY <1>14
<1>15. QED BY <1>10, <1>11, <1>12, <1>13, <1>14

LEMMA MaskIsSplice == RegionAll => MaskMatchesSplice
<1>1. SUFFICES ASSUME RegionAll, regionPc = "done", HasCover, NEW t \in 0 .. Len(cover) - 1
               PROVE  (output[t + 1] = Generated) <=> (ditContext[1][t + 1].mask = 1)
  BY DEF MaskMatchesSplice, RegionDone
<1>2. /\ RequestAsked /\ synth.T \in Nat /\ Len(cover) <= synth.T
      /\ cover = [k \in 1 .. FramesOf |-> SourceFrame(k - 1)]
  BY <1>1 DEF RegionAll, SynthType, CanvasInv, Resolved
<1>3. Len(cover) = FramesOf /\ FramesOf \in Nat
  BY <1>2, PaddingTypes
<1>4. /\ t \in Nat /\ t < synth.T /\ t < Len(cover) /\ t + 1 \in 1 .. synth.T
      /\ t + 1 \in 1 .. FramesOf /\ t + 1 - 1 = t
  BY <1>1, <1>2, <1>3
<1>5. output[t + 1] = SoundFrame(t)
  BY <1>1, <1>4 DEF RegionAll, HeardInv
<1>6. rq.codes = <<0>>
  BY <1>1, <1>2, RequestParts
<1>7. ditContext[1][t + 1] = SourceContext(t, ZoneFrames)
  <2>1. ditContext = [i \in DOMAIN rq.codes |-> [k \in 1 .. synth.T |->
                        IF HasCover THEN SourceContext(k - 1, ZoneFrames)
                                    ELSE CodesContext(k - 1, rq.codes[i])]]
    BY <1>1 DEF RegionAll, ZoneInv, Built
  <2>2. 1 \in DOMAIN rq.codes
    BY <1>6
  <2>3. ditContext[1] = [k \in 1 .. synth.T |-> SourceContext(k - 1, ZoneFrames)]
    BY <1>1, <2>1, <2>2
  <2>4. QED BY <2>3, <1>4
<1>8. cover[t + 1] = SourceFrame(t) /\ SourceFrame(t) # Generated
  <2>1. cover[t + 1] = SourceFrame(t)
    BY <1>2, <1>4
  <2>2. SourceFrame(t).kind # "generated"
    BY DEF SourceFrame, FromSource, Origin, Silence
  <2>3. QED BY <2>1, <2>2 DEF Generated, Origin
<1>9. InZone(t, <<synth.t0, synth.t1>>) <=> InZone(t, ZoneFrames)
  BY <1>1, <1>4, ZoneIsAsked, NoZone DEF Built
<1>10. Spliced(t) <=> HasRegion /\ ~InZone(t, ZoneFrames)
  BY <1>4, <1>9 DEF Spliced
<1>11. SourceContext(t, ZoneFrames).mask = IF HasRegion /\ ~InZone(t, ZoneFrames) THEN 0 ELSE 1
  BY DEF SourceContext
<1>12. QED BY <1>5, <1>7, <1>8, <1>10, <1>11 DEF SoundFrame

LEMMA RegionTyped == RegionAll => RegionTypeOK
<1>1. SUFFICES ASSUME RegionAll PROVE RegionTypeOK
  OBVIOUS
<1>2. SynthType /\ ZoneInv /\ HeardInv
  BY <1>1 DEF RegionAll
<1>3. synth.T \in Nat
  BY <1>2 DEF SynthType
<1>4. synth.t0 \in 0 .. synth.T /\ synth.t1 \in 0 .. synth.T
  <2>1. CASE regionPc \in Built
    BY <2>1, <1>1, <1>2, ZoneType DEF Built, Resolved, ZoneInv
  <2>2. CASE regionPc \notin Built
    BY <2>2, <1>2, <1>3 DEF ZoneInv
  <2>3. QED BY <2>1, <2>2
<1>5. output = <<>> \/ Len(output) = synth.T
  <2>1. CASE regionPc = "splice"
    BY <2>1, <1>2, <1>3 DEF HeardInv
  <2>2. CASE regionPc \in {"decode", "done"}
    BY <2>2, <1>2, <1>3 DEF HeardInv
  <2>3. CASE regionPc \notin {"splice", "decode", "done"}
    BY <2>3, <1>2 DEF HeardInv
  <2>4. QED BY <2>1, <2>2, <2>3
<1>6. wave = <<>> \/ Len(wave) = synth.T * FrameLen
  <2>1. PICK n \in Nat : n = synth.T * FrameLen
    BY <1>3, RegionAssumption
  <2>2. CASE regionPc = "done"
    <3>1. wave = [i \in 1 .. n |-> Sample(i - 1)]
      BY <2>1, <2>2, <1>2 DEF HeardInv
    <3>2. QED BY <2>1, <3>1
  <2>3. CASE regionPc # "done"
    BY <2>3, <1>2 DEF HeardInv
  <2>4. QED BY <2>2, <2>3
<1>7. QED BY <1>2, <1>4, <1>5, <1>6 DEF RegionTypeOK, SynthType

\* Whatever is requested, the DiT hears the region that was asked for and the
\* frames it was told to keep are the frames that are put back
\* (ops_build_context, ops_vae_decode).
THEOREM RegionHeard == RegionSpec => []RegionHeardAsAsked
<1>1. RegionAll => RegionHeardAsAsked
  BY RegionTyped, HearsAsDocumented, MaskIsSplice DEF RegionHeardAsAsked
<1>2. QED BY <1>1, RegionHolds, PTL

-----------------------------------------------------------------------------
(* What the listener hears. *)

\* A sample belongs to a frame of the canvas, and to the zone iff its frame does.
LEMMA FrameOfSample ==
    ASSUME RegionAll, regionPc = "done", NEW i \in 0 .. synth.T * FrameLen - 1
    PROVE  \E t \in Nat, r \in 0 .. FrameLen - 1 :
             /\ t = i \div FrameLen /\ r = i % FrameLen /\ i = FrameLen * t + r /\ t < synth.T
             /\ InZone(i, <<synth.t0 * FrameLen, synth.t1 * FrameLen>>)
                  <=> InZone(t, <<synth.t0, synth.t1>>)
             /\ wave[i + 1] = Sample(i) /\ output[t + 1] = SoundFrame(t)
<1>1. PICK f \in Nat \ {0}, T \in Nat, p \in Nat, q \in Nat :
        f = FrameLen /\ T = synth.T /\ p = synth.t0 /\ q = synth.t1
  BY RegionAssumption DEF RegionAll, SynthType
<1>2. PICK n \in Nat : n = T * f /\ n = f * T /\ i \in 0 .. n - 1
  <2>1. T * f \in Nat /\ T * f = f * T
    BY <1>1
  <2>2. QED BY <2>1, <1>1
<1>3. PICK t \in Int, r \in 0 .. f - 1 : t = i \div f /\ r = i % f /\ i = f * t + r
  BY <1>2, Quotient
<1>4. f * t \in Int
  BY <1>1, <1>3
<1>5. t >= 0
  <2>1. t < 0 => f * t + f <= f * 0
    BY <1>1, <1>3, Multiples
  <2>2. QED BY <2>1, <1>2, <1>3, <1>4
<1>6. t < T
  <2>1. f * t < f * T => t < T
    BY <1>1, <1>3, Multiples
  <2>2. QED BY <2>1, <1>2, <1>3, <1>4
<1>7. \A k \in Nat : i >= k * f <=> t >= k
  <2>1. SUFFICES ASSUME NEW k \in Nat PROVE i >= k * f <=> t >= k
    OBVIOUS
  <2>2. k <= t => f * k <= f * t
    BY <1>1, <1>3, Multiples
  <2>3. t < k => f * t + f <= f * k
    BY <1>1, <1>3, Multiples
  <2>4. k * f = f * k /\ f * k \in Int
    BY <1>1
  <2>5. QED BY <2>2, <2>3, <2>4, <1>2, <1>3, <1>4
<1>8. i >= p * f <=> t >= p
  BY <1>7, <1>1
<1>9. i < q * f <=> t < q
  <2>1. i >= q * f <=> t >= q
    BY <1>7, <1>1
  <2>2. q * f \in Int
    BY <1>1
  <2>3. QED BY <2>1, <2>2, <1>1, <1>2, <1>3
<1>10. InZone(i, <<synth.t0 * FrameLen, synth.t1 * FrameLen>>)
         <=> InZone(t, <<synth.t0, synth.t1>>)
  BY <1>1, <1>8, <1>9 DEF InZone
<1>11. wave[i + 1] = Sample(i)
  <2>1. wave = [k \in 1 .. n |-> Sample(k - 1)]
    BY <1>1, <1>2 DEF RegionAll, HeardInv
  <2>2. i + 1 \in 1 .. n /\ i + 1 - 1 = i
    BY <1>2
  <2>3. QED BY <2>1, <2>2
<1>12. output[t + 1] = SoundFrame(t)
  <2>1. output = [k \in 1 .. T |-> SoundFrame(k - 1)]
    BY <1>1 DEF RegionAll, HeardInv
  <2>2. t + 1 \in 1 .. T /\ t + 1 - 1 = t
    BY <1>3, <1>5, <1>6
  <2>3. QED BY <2>1, <2>2
<1>13. /\ t \in Nat /\ r \in 0 .. FrameLen - 1 /\ t = i \div FrameLen /\ r = i % FrameLen
       /\ i = FrameLen * t + r /\ t < synth.T
  BY <1>1, <1>3, <1>5, <1>6
<1>14. QED BY <1>10, <1>11, <1>12, <1>13, Zenon

\* How the paddings of a repaint relate to the region asked for.
LEMMA PaddingFacts ==
    ASSUME RequestAsked, IsRepaint
    PROVE  /\ HasCover /\ HasRegion /\ LeftOf = LeftPad /\ RightOf = RightPad
           /\ rq.src \in {"audio", "latents"} /\ rq.len \in Nat \ {0}
           /\ LeftOf \in Nat /\ RightOf \in Nat /\ AskedFrom \in Nat /\ AskedTo \in Int
           /\ LeftOf > 0 => AskedFrom = 0 /\ AskedTo >= LeftOf
           /\ LeftOf = 0 => AskedFrom = rq.start
           /\ RightOf > 0 => AskedTo = LeftOf + rq.len + RightOf
<1>1. HasCover /\ HasRegion
  BY RequestParts DEF IsRepaint, HasRegion
<1>2. /\ rq.src \in {"audio", "latents", "none"} /\ rq.len \in Nat /\ rq.len > 0
      /\ rq.start \in Int /\ rq.end \in Int
  BY <1>1, RequestParts
<1>3. rq.src \in {"audio", "latents"}
  BY <1>1, <1>2 DEF HasCover
<1>4. LeftOf = LeftPad /\ RightOf = RightPad
  BY <1>1 DEF LeftOf, RightOf
<1>5. LeftPad \in Nat /\ RightPad \in Nat /\ AskedFrom \in Nat /\ AskedTo \in Int
  BY PaddingTypes
<1>6. /\ LeftPad > 0 => AskedFrom = 0 /\ AskedTo >= LeftPad
      /\ LeftPad = 0 => AskedFrom = rq.start
  BY <1>2 DEF LeftPad, MaxOf, AskedFrom, AskedTo
<1>7. RightPad > 0 => AskedTo = LeftPad + rq.len + RightPad
  BY <1>2, <1>5 DEF RightPad, MaxOf, AskedTo
<1>8. QED BY <1>1, <1>2, <1>3, <1>4, <1>5, <1>6, <1>7

\* The regeneration covers the zone.
LEMMA ZoneIsGenerated ==
    ASSUME RegionAll, regionPc = "done", NEW i \in 0 .. synth.T * FrameLen - 1, NEW t \in Nat,
           t = i \div FrameLen, InZone(t, <<synth.t0, synth.t1>>)
    PROVE  wave[i + 1] = Generated
<1>1. /\ InZone(i, <<synth.t0 * FrameLen, synth.t1 * FrameLen>>)
      /\ wave[i + 1] = Sample(i) /\ output[t + 1] = SoundFrame(t)
  BY FrameOfSample
<1>2. Sample(i) = Decoded(i)
  BY <1>1 DEF Sample
<1>3. SoundFrame(t) = Generated
  BY DEF SoundFrame, Spliced
<1>4. Decoded(i) = Generated
  BY <1>1, <1>3 DEF Decoded, Generated, Origin
<1>5. QED BY <1>1, <1>2, <1>4

LEMMA InsideGenerated == RegionAll => InsideIsGenerated
<1>1. SUFFICES ASSUME RegionAll, regionPc = "done", IsRepaint, NEW i \in 0 .. synth.T * FrameLen - 1,
                      InsideAsked(i \div FrameLen)
               PROVE  wave[i + 1] = Generated
  BY DEF InsideIsGenerated, RegionDone
<1>2. PICK t \in Nat : t = i \div FrameLen /\ t < synth.T
  BY <1>1, FrameOfSample
<1>3. InZone(t, ZoneFrames)
  BY <1>1, <1>2, InOrOut DEF Built
<1>4. InZone(t, <<synth.t0, synth.t1>>)
  BY <1>1, <1>2, <1>3, ZoneIsAsked DEF Built
<1>5. QED BY <1>1, <1>2, <1>4, ZoneIsGenerated

\* The frames of latents that are the source: whole frames, after those of the
\* left padding.
LEMMA LatentFrames ==
    ASSUME RequestAsked, rq.src = "latents"
    PROVE  \E nl \in Nat, m \in Nat, nr \in Nat :
             /\ nl = NearestFrames(LeftOf) /\ nr = NearestFrames(RightOf)
             /\ FramesOf = nl + m + nr /\ ShiftOf = FrameLen * nl /\ rq.len = FrameLen * m
             /\ \A t \in Nat : SourceFrame(t) = IF t >= nl /\ t < nl + m
                                                THEN Origin("source", FrameLen * t - FrameLen * nl)
                                                ELSE Silence
<1>1. PICK f \in Nat \ {0}, n \in Nat : f = FrameLen /\ n = rq.len
  BY RequestParts, RegionAssumption
<1>2. PICK nl \in Nat, nr \in Nat : nl = NearestFrames(LeftOf) /\ nr = NearestFrames(RightOf)
  BY PaddingTypes, Nearest
<1>a. f \in Nat \ {0} /\ n \in Int
  BY <1>1
<1>3. PICK m \in Int, r \in 0 .. f - 1 : m = n \div f /\ r = n % f /\ n = f * m + r
  BY <1>a, Quotient
<1>4. r = 0 /\ n = f * m
  BY <1>1, <1>3 DEF RequestAsked
<1>5. m \in Nat
  <2>1. m < 0 => f * m + f <= f * 0
    BY <1>a, <1>3, Multiples
  <2>2. QED BY <2>1, <1>1, <1>3, <1>4
<1>6. FramesOf = nl + m + nr /\ ShiftOf = f * nl
  BY <1>1, <1>2, <1>3 DEF FramesOf, ShiftOf
<1>7. \A t \in Nat : SourceFrame(t) = IF t >= nl /\ t < nl + m
                                      THEN Origin("source", f * t - f * nl) ELSE Silence
  <2>1. SUFFICES ASSUME NEW t \in Nat
                 PROVE  SourceFrame(t) = IF t >= nl /\ t < nl + m
                                         THEN Origin("source", f * t - f * nl) ELSE Silence
    OBVIOUS
  <2>2. PICK d \in Int : d = t - nl
    BY <1>2
  <2>3. /\ d < 0 => f * d + f <= f * 0
        /\ f * 0 <= f * d <=> 0 <= d
    BY <1>1, <2>2, Multiples
  <2>4. /\ d < m => f * d + f <= f * m
        /\ f * d < f * m => d < m
    BY <1>1, <1>5, <2>2, Multiples
  <2>5. f * d = f * t - f * nl /\ f * d \in Int /\ t * f = f * t
    BY <1>1, <1>2, <2>2
  <2>6. (f * t - f * nl) \in 0 .. n - 1 <=> t >= nl /\ t < nl + m
    BY <1>1, <1>2, <1>4, <1>5, <2>2, <2>3, <2>4, <2>5
  <2>7. SourceFrame(t) = FromSource(f * t - f * nl)
    BY <1>1, <1>6, <2>5 DEF SourceFrame
  <2>8. QED BY <1>1, <2>6, <2>7 DEF FromSource
<1>8. QED BY <1>1, <1>2, <1>4, <1>5, <1>6, <1>7, SMTT(30)

\* Outside the zone, audio: the source between its paddings, then the sound.
LEMMA OutsideAudio ==
    ASSUME RegionAll, regionPc = "done", IsRepaint, rq.src = "audio",
           NEW i \in 0 .. synth.T * FrameLen - 1, ~InZone(i \div FrameLen, <<synth.t0, synth.t1>>)
    PROVE  wave[i + 1] = IF i < LeftOf + rq.len + RightOf THEN FromSource(i - LeftOf) ELSE Generated
<1>1. PICK t \in Nat, r \in 0 .. FrameLen - 1 :
        /\ t = i \div FrameLen /\ r = i % FrameLen /\ i = FrameLen * t + r /\ t < synth.T
        /\ ~InZone(i, <<synth.t0 * FrameLen, synth.t1 * FrameLen>>)
        /\ wave[i + 1] = Sample(i) /\ output[t + 1] = SoundFrame(t)
  BY FrameOfSample
<1>2. RequestAsked /\ HasRegion /\ HasCover
  BY PaddingFacts DEF RegionAll
<1>3. PICK n \in Nat : n = LeftOf + rq.len + RightOf
  BY <1>2, PaddingTypes, RequestParts, SMTT(30)
<1>4. synth.padded = n /\ synth.left_pad = LeftOf
  BY <1>2, <1>3 DEF RegionAll, RegionInv, PaddedOf
<1>5. CASE i < n
  BY <1>1, <1>3, <1>4, <1>5 DEF Sample, PaddedSample
<1>6. CASE ~(i < n)
  <2>1. PICK f \in Nat \ {0} : f = FrameLen
    BY RegionAssumption
  <2>2. FramesOf = n \div f
    BY <1>3, <2>1 DEF FramesOf
  <2>3. ~(t < FramesOf)
    <3>1. SUFFICES ASSUME t < n \div f PROVE FALSE
      BY <2>2
    <3>2. PICK k \in Int : k = t + 1
      OBVIOUS
    <3>a. n \in Int /\ n \div f \in Int
      BY <2>1
    <3>3. k <= n \div f
      BY <3>1, <3>2, <3>a
    <3>4. f * k <= n
      BY <3>3, <3>a, <2>1, Below
    <3>5. f * k = f * t + f /\ f * t \in Int
      BY <3>2, <2>1
    <3>6. QED BY <1>1, <1>6, <2>1, <3>4, <3>5
  <2>4. Len(cover) = FramesOf
    BY <1>2, PaddingTypes DEF RegionAll, CanvasInv
  <2>5. SoundFrame(t) = Generated
    BY <2>3, <2>4 DEF SoundFrame, Spliced
  <2>6. Decoded(i) = Generated
    BY <1>1, <2>5 DEF Decoded, Generated, Origin
  <2>7. QED BY <1>1, <1>3, <1>4, <1>6, <2>6 DEF Sample
<1>7. QED BY <1>5, <1>6, <1>3

\* Outside the zone, latents: the frames of the source, silence for those of
\* the paddings, then the sound.
LEMMA OutsideLatents ==
    ASSUME RegionAll, regionPc = "done", IsRepaint, rq.src = "latents",
           NEW i \in 0 .. synth.T * FrameLen - 1, NEW t \in Nat, t = i \div FrameLen,
           ~InZone(t, <<synth.t0, synth.t1>>),
           NEW nl \in Nat, NEW m \in Nat, NEW nr \in Nat,
           FramesOf = nl + m + nr, ShiftOf = FrameLen * nl, rq.len = FrameLen * m,
           \A x \in Nat : SourceFrame(x) = IF x >= nl /\ x < nl + m
                                           THEN Origin("source", FrameLen * x - FrameLen * nl)
                                           ELSE Silence
    PROVE  wave[i + 1] = IF t >= nl /\ t < nl + m THEN Origin("source", i - FrameLen * nl)
                         ELSE IF t < nl + m + nr THEN Silence ELSE Generated
<1>1. PICK r \in 0 .. FrameLen - 1 :
        /\ r = i % FrameLen /\ i = FrameLen * t + r /\ t < synth.T
        /\ wave[i + 1] = Sample(i) /\ output[t + 1] = SoundFrame(t)
  BY FrameOfSample
<1>2. RequestAsked /\ HasRegion /\ HasCover
  BY PaddingFacts DEF RegionAll
<1>3. synth.padded = 0
  BY <1>2 DEF RegionAll, RegionInv, PaddedOf
<1>4. Sample(i) = Decoded(i)
  BY <1>3 DEF Sample
<1>5. cover = [k \in 1 .. FramesOf |-> SourceFrame(k - 1)] /\ FramesOf \in Nat
  BY <1>2, PaddingTypes DEF RegionAll, CanvasInv
<1>6. SoundFrame(t) = IF t < FramesOf THEN SourceFrame(t) ELSE Generated
  <2>1. Spliced(t) <=> t < FramesOf
    BY <1>2, <1>5 DEF Spliced
  <2>2. ASSUME t < FramesOf PROVE cover[t + 1] = SourceFrame(t)
    <3>1. t + 1 \in 1 .. FramesOf /\ t + 1 - 1 = t
      BY <1>5, <2>2
    <3>2. QED BY <1>5, <3>1
  <2>3. QED BY <2>1, <2>2 DEF SoundFrame
<1>7. CASE t >= nl /\ t < nl + m
  <2>1. PICK f \in Nat \ {0} : f = FrameLen
    BY RegionAssumption
  <2>2. PICK d \in Nat : d = t - nl
    BY <1>7
  <2>3. d < m => f * d + f <= f * m
    BY <2>1, <2>2, Multiples
  <2>4. f * d = f * t - f * nl /\ f * d \in Nat /\ f * m \in Nat
    BY <2>1, <2>2
  <2>5. output[t + 1] = Origin("source", f * d)
    BY <1>1, <1>6, <1>7, <2>1, <2>4
  <2>6. Decoded(i) = FromSource(f * d + r)
    BY <1>1, <2>5 DEF Decoded, Origin
  <2>7. f * d + r \in 0 .. rq.len - 1 /\ f * d + r = i - f * nl
    BY <1>1, <1>7, <2>1, <2>2, <2>3, <2>4, SMTT(30)
  <2>8. QED BY <1>1, <1>4, <1>7, <2>1, <2>6, <2>7 DEF FromSource
<1>8. CASE ~(t >= nl /\ t < nl + m) /\ t < nl + m + nr
  <2>1. output[t + 1] = Silence
    BY <1>1, <1>6, <1>8
  <2>2. Decoded(i) = Silence
    BY <1>1, <2>1 DEF Decoded, Silence, Origin
  <2>3. QED BY <1>1, <1>4, <1>8, <2>2
<1>9. CASE ~(t < nl + m + nr)
  <2>1. output[t + 1] = Generated
    BY <1>1, <1>6, <1>9
  <2>2. Decoded(i) = Generated
    BY <1>1, <2>1 DEF Decoded, Generated, Origin
  <2>3. QED BY <1>1, <1>4, <1>9, <2>2
<1>10. QED BY <1>7, <1>8, <1>9

\* The sample of a frame outside the zone, in one fact with the frames.
FromLatents(i, t) ==
    \E nl \in Nat, m \in Nat, nr \in Nat :
       /\ nl = NearestFrames(LeftOf) /\ nr = NearestFrames(RightOf) /\ rq.len = FrameLen * m
       /\ wave[i + 1] = IF t >= nl /\ t < nl + m THEN Origin("source", i - FrameLen * nl)
                     ELSE IF t < nl + m + nr THEN Silence ELSE Generated

LEMMA LatentSample ==
    ASSUME RegionAll, regionPc = "done", IsRepaint, rq.src = "latents",
           NEW i \in 0 .. synth.T * FrameLen - 1, NEW t \in Nat, t = i \div FrameLen,
           ~InZone(t, <<synth.t0, synth.t1>>)
    PROVE  FromLatents(i, t)
<1>1. PICK nl \in Nat, m \in Nat, nr \in Nat :
           /\ nl = NearestFrames(LeftOf) /\ nr = NearestFrames(RightOf)
           /\ FramesOf = nl + m + nr /\ ShiftOf = FrameLen * nl /\ rq.len = FrameLen * m
           /\ \A k \in Nat : SourceFrame(k) = IF k >= nl /\ k < nl + m
                                              THEN Origin("source", FrameLen * k - FrameLen * nl)
                                              ELSE Silence
  BY LatentFrames DEF RegionAll
<1>2. wave[i + 1] = IF t >= nl /\ t < nl + m THEN Origin("source", i - FrameLen * nl)
                    ELSE IF t < nl + m + nr THEN Silence ELSE Generated
  BY <1>1, OutsideLatents
<1>3. QED BY <1>1, <1>2 DEF FromLatents

LEMMA OutsideKept == RegionAll => OutsideIsSource
<1>1. SUFFICES ASSUME RegionAll, regionPc = "done", IsRepaint, NEW i \in 0 .. synth.T * FrameLen - 1,
                      OutsideAsked(i \div FrameLen), (i - synth.shift) \in 0 .. rq.len - 1
               PROVE  /\ wave[i + 1] = FromSource(i - synth.shift)
                      /\ 2 * (synth.shift - synth.left_pad) \in -FrameLen .. FrameLen
  BY DEF OutsideIsSource, RegionDone
<1>2. RequestAsked /\ HasCover /\ HasRegion /\ rq.src \in {"audio", "latents"} /\ rq.len \in Nat
      /\ LeftOf \in Nat /\ RightOf \in Nat
  BY <1>1, PaddingFacts DEF RegionAll
<1>3. synth.shift = ShiftOf /\ synth.left_pad = LeftOf
  BY <1>1 DEF RegionAll, RegionInv
<1>4. PICK t \in Nat, r \in 0 .. FrameLen - 1 :
        t = i \div FrameLen /\ i = FrameLen * t + r /\ t < synth.T
  BY <1>1, FrameOfSample
<1>5. ~InZone(t, <<synth.t0, synth.t1>>)
  BY <1>1, <1>4, InOrOut, ZoneIsAsked DEF Built
<1>6. PICK f \in Nat \ {0} : f = FrameLen
  BY RegionAssumption
<1>7. CASE rq.src = "audio"
  <2>1. ShiftOf = LeftOf
    BY <1>7 DEF ShiftOf
  <2>2. i < LeftOf + rq.len + RightOf
    BY <1>1, <1>2, <1>3, <2>1
  <2>3. wave[i + 1] = FromSource(i - LeftOf)
    BY <1>1, <1>4, <1>5, <1>7, <2>2, OutsideAudio
  <2>4. 2 * (LeftOf - LeftOf) \in -f .. f
    BY <1>2, <1>6
  <2>5. QED BY <1>3, <1>6, <2>1, <2>3, <2>4
<1>8. CASE rq.src = "latents"
  <2>1. PICK nl \in Nat, m \in Nat, nr \in Nat :
             /\ nl = NearestFrames(LeftOf) /\ nr = NearestFrames(RightOf)
             /\ FramesOf = nl + m + nr /\ ShiftOf = FrameLen * nl /\ rq.len = FrameLen * m
             /\ \A k \in Nat : SourceFrame(k) = IF k >= nl /\ k < nl + m
                                                THEN Origin("source", FrameLen * k - FrameLen * nl)
                                                ELSE Silence
    BY <1>2, <1>8, LatentFrames
  <2>2. f * t + r = i /\ f * nl \in Nat /\ f * t \in Nat
    BY <1>4, <1>6, <2>1
  <2>3. t >= nl
    <3>1. t < nl => f * t + f <= f * nl
      BY <1>6, Multiples
    <3>2. QED BY <3>1, <2>1, <2>2, <1>1, <1>3, <1>4, <1>6
  <2>4. t < nl + m
    <3>1. PICK k \in Nat : k = nl + m
      OBVIOUS
    <3>2. k <= t => f * k <= f * t
      BY <1>6, <3>1, Multiples
    <3>3. f * k = f * nl + f * m /\ f * m \in Nat
      BY <1>6, <3>1
    <3>4. QED BY <3>1, <3>2, <3>3, <2>1, <2>2, <1>1, <1>3, <1>4, <1>6
  <2>5. wave[i + 1] = Origin("source", i - FrameLen * nl)
    BY <1>1, <1>4, <1>5, <1>8, <2>1, <2>3, <2>4, OutsideLatents
  <2>6. wave[i + 1] = FromSource(i - synth.shift)
    BY <1>1, <1>3, <2>1, <2>5 DEF FromSource
  <2>7. /\ 2 * (f * nl) <= 2 * LeftOf + f
        /\ 2 * LeftOf - f < 2 * (f * nl)
    BY <1>2, <1>6, <2>1, Nearest
  <2>8. 2 * (f * nl - LeftOf) \in -f .. f
    BY <2>7, <2>2, <1>2, <1>6
  <2>9. QED BY <2>1, <2>6, <2>8, <1>3, <1>6
<1>9. QED BY <1>2, <1>7, <1>8

\* A silent sample lies in the last frame the region reaches.
LEMMA SilenceIsLastFrame ==
    ASSUME RegionAll, regionPc = "done", IsRepaint, rq.start <= rq.len,
           NEW i \in 0 .. synth.T * FrameLen - 1, wave[i + 1] = Silence
    PROVE  i \div FrameLen = AskedTo \div FrameLen
<1>1. PICK t \in Nat, r \in 0 .. FrameLen - 1 :
        t = i \div FrameLen /\ i = FrameLen * t + r /\ t < synth.T
  BY FrameOfSample
<1>2. PICK f \in Nat \ {0}, b \in Int, a \in Nat, L \in Nat, R \in Nat, len \in Nat \ {0} :
        f = FrameLen /\ b = AskedTo /\ a = AskedFrom /\ L = LeftOf /\ R = RightOf /\ len = rq.len
  BY RegionAssumption, PaddingFacts DEF RegionAll
<1>3. /\ L > 0 => a = 0 /\ b >= L
      /\ L = 0 => a <= len
      /\ R > 0 => b = L + len + R
  BY <1>2, PaddingFacts DEF RegionAll
<1>4. PICK q \in Int, s \in 0 .. f - 1 : q = b \div f /\ b = f * q + s
  BY Quotient
<1>5. f * t \in Nat /\ f * q \in Int /\ i = f * t + r
  BY <1>1, <1>2, <1>4
<1>6. Silence # Generated /\ \A x : Silence # Origin("source", x)
  BY DEF Silence, Generated, Origin
<1>7. ~InZone(t, <<synth.t0, synth.t1>>)
  BY <1>1, <1>6, ZoneIsGenerated
<1>8. f * t + f <= a \/ b < f * t + f
  <2>1. f * (t + 1) = f * t + f
    BY <1>2
  <2>2. ~(AskedFrom < FrameLen * (t + 1) /\ FrameLen * (t + 1) <= AskedTo)
    BY <1>1, <1>7, ZoneIsAsked DEF Built
  <2>3. QED BY <1>2, <1>5, <2>1, <2>2
<1>9. ASSUME b < f * t + f, f * t <= b PROVE t = q
  <2>1. t < q => f * t + f <= f * q
    BY <1>2, <1>4, Multiples
  <2>2. q < t => f * q + f <= f * t
    BY <1>2, <1>4, Multiples
  <2>3. QED BY <1>2, <1>4, <1>5, <1>9, <2>1, <2>2
<1>10. CASE rq.src = "audio"
  <2>1. /\ i < L + len + R
        /\ ~(i >= L /\ i < L + len)
    <3>1. wave[i + 1] = IF i < L + len + R THEN FromSource(i - L) ELSE Generated
      BY <1>1, <1>2, <1>7, <1>10, OutsideAudio
    <3>2. i < L + len + R /\ FromSource(i - L) = Silence
      BY <3>1, <1>6
    <3>3. ~((i - L) \in 0 .. len - 1)
      BY <3>2, <1>2, <1>6 DEF FromSource
    <3>4. QED BY <3>2, <3>3, <1>2
  <2>2. f * t <= b /\ ~(f * t + f <= a)
    BY <2>1, <1>1, <1>2, <1>3, <1>5
  <2>3. QED BY <2>2, <1>1, <1>2, <1>4, <1>8, <1>9
<1>11. CASE rq.src = "latents"
  <2>1. PICK nl \in Nat, m \in Nat, nr \in Nat :
             /\ nl = NearestFrames(LeftOf) /\ nr = NearestFrames(RightOf) /\ rq.len = FrameLen * m
             /\ wave[i + 1] = IF t >= nl /\ t < nl + m THEN Origin("source", i - FrameLen * nl)
                              ELSE IF t < nl + m + nr THEN Silence ELSE Generated
    <3>1. FromLatents(i, t)
      BY <1>1, <1>7, <1>11, LatentSample
    <3>2. QED BY <3>1 DEF FromLatents
  <2>2. ~(t >= nl /\ t < nl + m) /\ t < nl + m + nr
    BY <2>1, <1>6
  <2>3. /\ 2 * (f * nl) <= 2 * L + f /\ 2 * (f * nr) <= 2 * R + f
        /\ f * nl \in Nat /\ f * nr \in Nat /\ f * m \in Nat /\ len = f * m
    <3>1. 2 * (FrameLen * nl) <= 2 * LeftOf + FrameLen /\ 2 * (FrameLen * nr) <= 2 * RightOf + FrameLen
      BY <1>2, <2>1, Nearest
    <3>2. QED BY <3>1, <1>2, <2>1
  <2>4. nl > 0 => f * nl >= f
    <3>1. 0 < nl => f * 0 + f <= f * nl
      BY <1>2, Multiples
    <3>2. QED BY <3>1, <1>2
  <2>5. nr > 0 => f * nr >= f
    <3>1. 0 < nr => f * 0 + f <= f * nr
      BY <1>2, Multiples
    <3>2. QED BY <3>1, <1>2
  <2>6. f * t <= b /\ ~(f * t + f <= a)
    <3>1. CASE t < nl
      <4>1. f * t + f <= f * nl
        BY <3>1, <1>2, Multiples
      <4>2. QED BY <4>1, <3>1, <2>3, <2>4, <1>2, <1>3, <1>5
    <3>2. CASE t >= nl + m
      <4>1. PICK k \in Nat : k = nl + m + nr
        OBVIOUS
      <4>2. t < k => f * t + f <= f * k
        BY <1>2, <4>1, Multiples
      <4>3. f * k = f * nl + f * m + f * nr
        BY <1>2, <4>1
      <4>4. f * t <= b
        BY <4>1, <4>2, <4>3, <3>2, <2>2, <2>3, <2>5, <1>2, <1>3, <1>5
      <4>5. PICK j \in Nat : j = nl + m
        OBVIOUS
      <4>6. f * j <= f * t /\ f * j = f * nl + f * m
        <5>1. f * j <= f * t <=> j <= t
          BY <1>2, <4>5, Multiples
        <5>2. QED BY <5>1, <4>5, <3>2, <1>2
      <4>7. QED BY <4>4, <4>6, <2>3, <1>2, <1>3, <1>5
    <3>3. QED BY <3>1, <3>2, <2>2
  <2>7. QED BY <2>6, <1>1, <1>2, <1>4, <1>8, <1>9
<1>12. QED BY <1>10, <1>11, PaddingFacts DEF RegionAll

LEMMA NoHole == RegionAll => PaddingIsGenerated
<1>1. SUFFICES ASSUME RegionAll, regionPc = "done", IsRepaint, rq.start <= rq.len
               PROVE  Cardinality({i \in DOMAIN wave : wave[i] = Silence}) <= FrameLen
  BY DEF PaddingIsGenerated, RegionDone
<1> DEFINE S == {i \in DOMAIN wave : wave[i] = Silence}
<1>2. PICK f \in Nat \ {0}, T \in Nat, b \in Int :
        f = FrameLen /\ T = synth.T /\ b = AskedTo
  BY <1>1, RegionAssumption, PaddingFacts DEF RegionAll, SynthType
<1>3. PICK n \in Nat : n = T * f
  BY <1>2
<1>4. DOMAIN wave = 1 .. n
  BY <1>1, <1>2, <1>3 DEF RegionAll, HeardInv
<1>5. PICK q \in Int : q = b \div f
  BY <1>2
<1>6. PICK p \in Int : p = f * q
  BY <1>2, <1>5
<1>7. S \in SUBSET (p + 1 .. p + f)
  <2>1. SUFFICES ASSUME NEW x \in 1 .. n, wave[x] = Silence PROVE x \in p + 1 .. p + f
    BY <1>4
  <2>2. PICK i \in 0 .. n - 1 : x = i + 1
    <3>1. x - 1 \in 0 .. n - 1 /\ x = x - 1 + 1
      BY <2>1
    <3>2. QED BY <3>1
  <2>3. i \in 0 .. synth.T * FrameLen - 1 /\ wave[i + 1] = Silence
    BY <1>2, <1>3, <2>1, <2>2
  <2>4. PICK t \in Nat, r \in 0 .. f - 1 : t = i \div FrameLen /\ i = f * t + r
    BY <1>1, <1>2, <2>3, FrameOfSample
  <2>5. t = q
    BY <1>1, <1>2, <1>5, <2>3, <2>4, SilenceIsLastFrame
  <2>6. QED BY <1>6, <2>2, <2>4, <2>5, <1>2
<1>8. PICK u \in Int, v \in Int : u = p + 1 /\ v = p + f
  BY <1>2
<1> HIDE DEF S
<1>9. S \in SUBSET (u .. v)
  BY <1>7, <1>8
<1>10. IsFiniteSet(u .. v) /\ Cardinality(u .. v) = f
  <2>1. IsFiniteSet(u .. v) /\ Cardinality(u .. v) = IF u > v THEN 0 ELSE v - u + 1
    BY FS_Interval
  <2>2. QED BY <2>1, <1>2, <1>8
<1>11. Cardinality(S) <= Cardinality(u .. v)
  BY <1>9, <1>10, FS_Subset
<1>12. QED BY <1>2, <1>10, <1>11 DEF S

\* Whatever is requested, a repaint replaces its region, all of it and nothing
\* else, and of a padded source leaves no more silent than one frame
\* (apply_outpainting_padding, adjust_region_coords, the two splices).
THEOREM RegionIsReplaced == RegionSpec => []OnlyRegionChanges
<1>1. RegionAll => OnlyRegionChanges
  BY OutsideKept, InsideGenerated, NoHole DEF OnlyRegionChanges
<1>2. QED BY <1>1, RegionHolds, PTL

-----------------------------------------------------------------------------
(***************************************************************************)
(* Mp3Stream: the frames of an MP3 file, written by several threads.       *)
(***************************************************************************)

-----------------------------------------------------------------------------
(* Mp3Stream: frames that lead on from one another. *)

\* What a back pointer may be.
BackField == 0 .. 511

Frame ==
    [pcm : Seq(Int), bytes : Nat, begin : BackField, parts : Nat \X Nat, md : Nat, own : Nat,
     lent : [of : Seq(Int), from : Nat, len : Nat]]

\* Bit rates at which no frame has more room than a back pointer can name,
\* a padded one included.
SmallFrames == \A s \in Songs : (144 * s.kbps * 1000) \div s.sr + 1 <= HeaderBytes + 511

\* What a decoder must find in a frame by itself.
FrameOK(f) ==
    /\ f \in Frame
    /\ MainBytes(f.parts) = f.md
    /\ f.own <= Area(f) /\ f.own = f.md - Least(f.begin, f.md)
    /\ SmallFrames => Area(f) <= 511

\* The data of f that precedes its own area was lent to it by p, unless p had
\* more to lend than a back pointer can say.
Linked(p, f) ==
    Spare(p) <= 511 /\ Least(f.begin, f.md) > 0 =>
        p.lent = [of |-> f.pcm, from |-> Area(p) - f.begin, len |-> Least(f.begin, f.md)]

Chain(s) ==
    /\ s \in Seq(Frame)
    /\ \A k \in 1 .. Len(s) : FrameOK(s[k])
    /\ \A k \in 2 .. Len(s) : Linked(s[k - 1], s[k])
    /\ Len(s) > 0 => s[1].begin = 0

\* The frame held back leads on from those given out.
Held(r, p) ==
    /\ Chain(r)
    /\ p # <<>> /\ r = <<>> => p[1].begin = 0
    /\ p # <<>> /\ r # <<>> => Linked(r[Len(r)], p[1])

EncoderType == [fill : Seq(Int), pad : Int, pending : Seq(Frame)]

EncOK(e) ==
    /\ e \in EncoderType
    /\ Len(e.pending) <= 1 /\ \A k \in 1 .. Len(e.pending) : FrameOK(e.pending[k])

WorkerPcs == {"start", "warm", "poll", "feed", "flush", "done"}

RunType ==
    [pc : WorkerPcs, enc : EncoderType, at : Int, upto : Int, result : Seq(Frame)]

RunOK(w) ==
    /\ w \in RunType
    /\ EncOK(w.enc)
    /\ w.pc \in {"start", "warm"} => w.result = <<>>
    /\ w.pc = "start" => w.enc = NewEncoder
    /\ w.pc \notin {"start", "warm"} => Held(w.result, w.enc.pending)

ChainInv ==
    /\ input \in Songs /\ cancel \in BOOLEAN /\ oom \in BOOLEAN /\ stream.done \in BOOLEAN
    /\ DOMAIN workers = Tid
    /\ \A t \in Tid : RunOK(workers[t])
    /\ Chain(stream.frames)

-----------------------------------------------------------------------------
(* Mp3Stream: frames that hold the samples of the song in order. *)

\* The samples of frame j of the song.
PcmOf(j, n) ==
    [x \in 1 .. FrameSamples |-> IF FrameSamples * j + x <= n THEN FrameSamples * j + x - 1
                                 ELSE ZeroSample]

\* The frames of s are those of the song from the a-th on.
Holds(s, a, n) == \A k \in 1 .. Len(s) : s[k].pcm = PcmOf(a + k - 1, n)

\* The samples an encoder has been given since its run began with frame a, the
\* last of them the one before sample at: frames up to the j-th, given out as r
\* or held as p, and those of fill, which do not make a frame.
Fed(r, p, fill, at, a, j, n) ==
    /\ j \in Nat /\ a + Len(r) + Len(p) = j
    /\ Holds(r \o p, a, n)
    /\ at = FrameSamples * j + Len(fill) /\ Len(fill) < FrameSamples
    /\ \A x \in 1 .. Len(fill) : fill[x] = FrameSamples * j + x - 1

InStep(w, a, n) == \E j \in Nat : Fed(w.result, w.enc.pending, w.enc.fill, w.at, a, j, n)

\* A run that begins with sample lo, frame a, and ends before sample hi, frame m.
Cut(lo, hi, a, m, n) ==
    /\ a \in Nat /\ m \in Nat /\ a < m /\ lo = FrameSamples * a
    /\ hi \in Nat /\ hi <= n /\ hi <= FrameSamples * m /\ FrameSamples * m < hi + FrameSamples
    /\ hi # FrameSamples * m => hi = n

Progress(w, lo, hi, a, m, n) ==
    /\ w.pc = "warm" => /\ w.enc.fill = <<>> /\ w.upto = lo
                        /\ \E d \in Nat : w.at = lo - FrameSamples * d
    /\ w.pc \in {"poll", "feed", "flush"} => InStep(w, a, n) /\ w.upto <= hi
    /\ w.pc = "feed" => w.at < w.upto
    /\ w.pc \in {"poll", "flush"} => w.at = w.upto
    /\ w.pc = "flush" => w.upto = hi
    /\ w.pc = "done" => Holds(w.result, a, n) /\ a + Len(w.result) = m

RunProgress(t, w) ==
    Progress(w, RangeStart(t), RangeEnd(t), FramesBefore(t), FramesBefore(t + 1), input.samples)

SampleInv ==
    /\ ~cancel /\ ~oom =>
        /\ \A t \in Tid : RunProgress(t, workers[t])
        /\ stream.done => Len(stream.frames) = TotalFrames /\ Holds(stream.frames, 0, input.samples)
    /\ stream.done /\ cancel => stream.frames = <<>>

-----------------------------------------------------------------------------
(* Mp3Stream: what an encoder makes of the bits it may use. *)

LEMMA SongFacts ==
    ASSUME input \in Songs
    PROVE  /\ input.samples \in Nat \ {0} /\ input.cores \in Nat \ {0} /\ input.kbps \in Nat
           /\ input.kbps >= 32 /\ input.sr \in {32000, 44100, 48000}
           /\ FrameSamples \in Nat \ {0} /\ Second \in Nat \ {0} /\ Warmup \in Nat
BY Mp3StreamAssumption

\* The shares of the two granules are never negative.
LEMMA SharesFit ==
    ASSUME NEW total \in Nat, NEW pe \in -1 .. 100
    PROVE  \E p \in Nat, q \in Nat : Budgets(total, pe) = <<p, q>>
<1>1. PICK lo \in Nat, hi \in Nat : lo = total \div 5 /\ hi = (total * 4) \div 5
                                    /\ lo + hi <= total /\ lo <= hi
  OBVIOUS
<1>2. PICK first \in Int : first = (total * pe) \div 100
  <2>1. total * pe \in Int
    OBVIOUS
  <2>2. PICK y \in Int : y = total * pe
    BY <2>1
  <2>3. y \div 100 \in Int
    OBVIOUS
  <2>4. QED BY <2>2, <2>3
<1>3. PICK u \in Int, v \in Int : u = Clip(first, lo, hi) /\ v = Clip(total - first, lo, hi)
  <2>1. Clip(first, lo, hi) \in Int /\ Clip(total - first, lo, hi) \in Int
    BY DEF Clip
  <2>2. QED BY <2>1
<1>4. u \in Nat /\ v \in Nat /\ u + v <= total
  BY <1>1, <1>3 DEF Clip
<1>5. PICK left \in Nat : left = total - (u + v)
  BY <1>4
<1>6. left \div 2 \in Nat /\ left - (left \div 2) \in Nat
  OBVIOUS
<1>7. total \div 2 \in Nat /\ total - (total \div 2) \in Nat
  OBVIOUS
<1>8. CASE pe < 0
  <2>1. Budgets(total, pe) = <<total \div 2, total - (total \div 2)>>
    BY <1>8 DEF Budgets
  <2>2. QED BY <2>1, <1>7
<1>9. CASE ~(pe < 0)
  <2>1. Budgets(total, pe) = <<u + (left \div 2), v + (left - (left \div 2))>>
    BY <1>9, <1>1, <1>2, <1>3, <1>5 DEF Budgets
  <2>2. u + (left \div 2) \in Nat /\ v + (left - (left \div 2)) \in Nat
    BY <1>4, <1>6
  <2>3. QED BY <2>1, <2>2
<1>10. QED BY <1>8, <1>9

\* What the length of a granule may be.
LengthField == 0 .. 4095

LEMMA LeastFits ==
    ASSUME NEW n \in Nat, NEW b \in Nat, NEW l \in Nat
    PROVE  Least(n, PerChannel(b, l)) \in LengthField /\ 2 * Least(n, PerChannel(b, l)) <= l
<1>1. PICK k \in Nat : k = Least(Least(b, l), 4095 * 2) /\ k <= l /\ k <= 8190
  BY DEF Least
<1>2. PICK h \in Nat : h = k \div 2 /\ 2 * h <= k
  OBVIOUS
<1>3. PerChannel(b, l) = h
  BY <1>1, <1>2 DEF PerChannel
<1>4. h <= 4095 /\ 2 * h <= l
  BY <1>1, <1>2
<1>5. PICK x \in Nat : x = Least(n, h) /\ x <= h
  BY DEF Least
<1>6. x <= 4095 /\ 2 * x <= l
  BY <1>4, <1>5
<1>7. x \in LengthField
  BY <1>6 DEF LengthField
<1>8. Least(n, PerChannel(b, l)) = x
  BY <1>3, <1>5
<1>9. QED BY <1>6, <1>7, <1>8

\* The granules never take more than the frame and what was lent to it, nor
\* more than their length fields can say.
LEMMA PartsFit ==
    ASSUME NEW total \in Nat, NEW c \in Contents
    PROVE  /\ Parts(total, c) \in LengthField \X LengthField
           /\ 2 * (Parts(total, c)[1] + Parts(total, c)[2]) <= total
<1>1. c.need \in Nat \X Nat /\ c.pe \in -1 .. 100
  BY Mp3StreamAssumption
<1>2. PICK m \in Nat, n \in Nat : m = c.need[1] /\ n = c.need[2]
  BY <1>1
<1>3. PICK b \in Nat, d \in Nat : Budgets(total, c.pe) = <<b, d>>
  BY <1>1, SharesFit
<1> DEFINE one == Least(m, PerChannel(b, total))
           saved == Clip(b - 2 * one, 0, total)
           left == total - 2 * one
           two == Least(n, PerChannel(d + saved, left))
<1>4. Parts(total, c) = <<one, two>>
  BY <1>2, <1>3 DEF Parts
<1>5. one \in LengthField /\ 2 * one <= total
  BY LeastFits
<1> HIDE DEF one
<1>6. one \in Nat
  BY <1>5 DEF LengthField
<1>7. PICK e \in Nat, l \in Nat : e = d + saved /\ l = left
  <2>1. saved \in Nat /\ left \in Nat
    BY <1>5, <1>6 DEF Clip
  <2> HIDE DEF saved, left
  <2>2. d + saved \in Nat
    BY <2>1
  <2>3. QED BY <2>1, <2>2
<1>8. two = Least(n, PerChannel(e, l))
  BY <1>7
<1>9. Least(n, PerChannel(e, l)) \in LengthField /\ 2 * Least(n, PerChannel(e, l)) <= l
  BY LeastFits
<1>10. two \in LengthField /\ 2 * two <= l
  BY <1>8, <1>9
<1>11. l = total - 2 * one
  BY <1>7
<1> HIDE DEF two
<1>12. 2 * (one + two) <= total
  BY <1>5, <1>6, <1>10, <1>11 DEF LengthField
<1>13. QED BY <1>4, <1>5, <1>10, <1>12

\* A frame has room for its header and its side information, and more.
LEMMA FrameHasRoom ==
    ASSUME input \in Songs, NEW p \in 0 .. 1
    PROVE  FrameBytes(p) \in Nat /\ FrameBytes(p) > HeaderBytes /\ HeaderBytes = 36
<1>1. PICK k \in Nat : k = input.kbps /\ k >= 32 /\ input.sr \in {32000, 44100, 48000}
  BY SongFacts
<1>2. PICK x \in Nat : x = 144 * k * 1000 /\ x >= 4608000
  BY <1>1
<1>3. x \div 32000 \in Nat /\ x \div 32000 >= 96
  BY <1>2
<1>4. x \div 44100 \in Nat /\ x \div 44100 >= 96
  BY <1>2
<1>5. x \div 48000 \in Nat /\ x \div 48000 >= 96
  BY <1>2
<1>6. x \div input.sr \in Nat /\ x \div input.sr >= 96
  BY <1>1, <1>3, <1>4, <1>5
<1>7. FrameBytes(p) = x \div input.sr + p
  BY <1>1, <1>2 DEF FrameBytes
<1>8. QED BY <1>6, <1>7 DEF HeaderBytes

-----------------------------------------------------------------------------
(* Mp3Stream: a frame, and what it leaves to the next. *)

LEMMA MainFits ==
    ASSUME NEW s \in Nat \X Nat, NEW n \in Nat, 2 * (s[1] + s[2]) <= n * 8
    PROVE  MainBytes(s) \in Nat /\ MainBytes(s) <= n
<1>1. PICK p \in Nat, q \in Nat : p = s[1] /\ q = s[2]
  OBVIOUS
<1>2. PICK x \in Nat : x = 2 * (p + q) /\ x <= n * 8
  BY <1>1
<1>3. (x + 7) \div 8 \in Nat /\ (x + 7) \div 8 <= n
  BY <1>2
<1>4. MainBytes(s) = (x + 7) \div 8
  BY <1>1, <1>2 DEF MainBytes, DivUp
<1>5. QED BY <1>3, <1>4

LEMMA BackFieldIs == \A x \in BackField : x \in Nat /\ x <= 511 /\ x % 512 = x
<1>1. \A x \in Nat : x <= 511 => x % 512 = x
  OBVIOUS
<1>2. QED BY <1>1 DEF BackField

LEMMA ReservoirIs ==
    ASSUME NEW e, EncOK(e)
    PROVE  /\ Reservoir(e) \in BackField /\ Reservoir(e) \in Nat
           /\ e.pending = <<>> => Reservoir(e) = 0
           /\ e.pending # <<>> => /\ e.pending = <<e.pending[1]>> /\ FrameOK(e.pending[1])
                                  /\ Spare(e.pending[1]) \in Nat
                                  /\ Spare(e.pending[1]) <= 511 => Reservoir(e) = Spare(e.pending[1])
<1>1. e.pending \in Seq(Frame) /\ Len(e.pending) <= 1
      /\ \A k \in 1 .. Len(e.pending) : FrameOK(e.pending[k])
  BY DEF EncOK, EncoderType
<1>2. CASE e.pending = <<>>
  BY <1>2 DEF Reservoir, BackField
<1>3. CASE e.pending # <<>>
  <2>1. Len(e.pending) = 1
    <3>1. Len(e.pending) \in Nat \ {0}
      BY <1>1, <1>3, EmptySeq
    <3>2. Len(e.pending) <= 1
      BY <1>1
    <3>3. \A n \in Nat \ {0} : n <= 1 => n = 1
      OBVIOUS
    <3>4. QED BY <3>1, <3>2, <3>3
  <2>2. e.pending = <<e.pending[1]>> /\ FrameOK(e.pending[1])
    BY <1>1, <2>1
  <2>3. PICK f \in Frame : f = e.pending[1] /\ f.own <= Area(f)
    BY <2>2 DEF FrameOK
  <2>4. f.bytes \in Nat /\ f.own \in Nat
    BY DEF Frame
  <2>5. Area(f) \in Int /\ Spare(f) = Area(f) - f.own
    BY <2>4 DEF Area, HeaderBytes, Spare
  <2>6. Spare(f) \in Nat
    BY <2>3, <2>4, <2>5
  <2>7. Reservoir(e) = Clip(Spare(f), 0, 511)
    BY <1>3, <2>3 DEF Reservoir
  <2>8. PICK x \in Nat : x = Spare(f)
    BY <2>6
  <2>9. Clip(x, 0, 511) \in BackField /\ Clip(x, 0, 511) \in Nat /\ (x <= 511 => Clip(x, 0, 511) = x)
    BY DEF Clip, BackField
  <2>10. Reservoir(e) \in BackField /\ Reservoir(e) \in Nat /\ (x <= 511 => Reservoir(e) = x)
    BY <2>7, <2>8, <2>9
  <2>11. QED BY <1>3, <2>2, <2>3, <2>8, <2>10
<1>4. QED BY <1>2, <1>3

LEMMA NewFrameOK ==
    ASSUME input \in Songs, NEW e, EncOK(e), NEW pcm \in Seq(Int), NEW c \in Contents
    PROVE  /\ FrameOK(NewFrame(e, pcm, c))
           /\ NewFrame(e, pcm, c).begin = Reservoir(e) /\ NewFrame(e, pcm, c).pcm = pcm
<1>1. PICK p \in 0 .. 1 : p = Padding(e)
  BY DEF Padding
<1>2. PICK bytes \in Nat : bytes = FrameBytes(Padding(e)) /\ bytes > 36 /\ HeaderBytes = 36
  BY <1>1, FrameHasRoom
<1>3. PICK resv \in Nat : resv = Reservoir(e) /\ resv \in BackField
  BY ReservoirIs
<1>4. PICK n \in Nat : n = bytes - HeaderBytes + resv
  <2>1. bytes - HeaderBytes + resv \in Nat
    BY <1>2
  <2>2. QED BY <2>1
<1>5. PICK total \in Nat : total = n * 8
  OBVIOUS
<1>6. PICK s : s = Parts(total, c)
  OBVIOUS
<1>7. s \in LengthField \X LengthField /\ 2 * (s[1] + s[2]) <= total
  BY <1>6, PartsFit
<1>8. s \in Nat \X Nat /\ s[1] < 4096 /\ s[2] < 4096
  <2>1. s \in LengthField \X LengthField
    BY <1>7
  <2>2. s[1] \in LengthField /\ s[2] \in LengthField /\ s = <<s[1], s[2]>>
    BY <2>1
  <2>3. \A x \in LengthField : x \in Nat /\ x < 4096
    BY DEF LengthField
  <2>4. s[1] \in Nat /\ s[2] \in Nat /\ s[1] < 4096 /\ s[2] < 4096
    BY <2>2, <2>3
  <2>5. QED BY <2>2, <2>4
<1>9. \A x \in Nat : x < 4096 => x % 4096 = x
  OBVIOUS
<1>10. SideInfo(resv, s) = [begin |-> resv, parts |-> s]
  <2>1. s[1] % 4096 = s[1] /\ s[2] % 4096 = s[2] /\ s = <<s[1], s[2]>>
    BY <1>8, <1>9
  <2>2. resv % 512 = resv
    BY <1>3, BackFieldIs
  <2>3. QED BY <2>1, <2>2 DEF SideInfo
<1>11. PICK md \in Nat : md = MainBytes(s) /\ md <= n
  <2>1. 2 * (s[1] + s[2]) <= n * 8
    BY <1>5, <1>7
  <2>2. s \in Nat \X Nat
    BY <1>8
  <2>3. MainBytes(s) \in Nat /\ MainBytes(s) <= n
    BY <2>1, <2>2, MainFits
  <2>4. QED BY <2>3
<1>12. PICK own \in Nat : own = Clip(md - resv, 0, md)
  <2>1. Clip(md - resv, 0, md) \in Nat
    BY DEF Clip
  <2>2. QED BY <2>1
<1>13. NewFrame(e, pcm, c) = [pcm |-> pcm, bytes |-> bytes, begin |-> resv, parts |-> s, md |-> md,
                              own |-> own, lent |-> NoLoan]
  <2>1. Parts((FrameBytes(Padding(e)) - HeaderBytes + Reservoir(e)) * 8, c) = s
    BY <1>2, <1>3, <1>4, <1>5, <1>6
  <2>2. /\ SideInfo(Reservoir(e), s).begin = resv /\ SideInfo(Reservoir(e), s).parts = s
        /\ MainBytes(s) = md /\ Clip(md - Reservoir(e), 0, md) = own
    BY <1>3, <1>10, <1>11, <1>12
  <2>3. QED BY <1>2, <2>1, <2>2, Zenon DEF NewFrame
<1>14. NoLoan \in [of : Seq(Int), from : Nat, len : Nat]
  BY DEF NoLoan
<1>15. PICK f : f = NewFrame(e, pcm, c)
  OBVIOUS
<1>16. /\ f \in Frame /\ f.begin = resv /\ f.parts = s /\ f.md = md /\ f.own = own /\ f.bytes = bytes
       /\ f.pcm = pcm
  <2>1. resv \in BackField /\ s \in Nat \X Nat
    BY <1>3, <1>8
  <2>2. f = [pcm |-> pcm, bytes |-> bytes, begin |-> resv, parts |-> s, md |-> md,
             own |-> own, lent |-> NoLoan]
    BY <1>13, <1>15
  <2>3. QED BY <1>14, <2>1, <2>2 DEF Frame
<1>17. own = md - Least(resv, md) /\ own <= bytes - 36
  BY <1>2, <1>4, <1>11, <1>12 DEF Clip, Least
<1>18. SmallFrames => bytes - 36 <= 511
  <2>1. SUFFICES ASSUME SmallFrames PROVE bytes - 36 <= 511
    OBVIOUS
  <2>2. (144 * input.kbps * 1000) \div input.sr + 1 <= HeaderBytes + 511
    BY <2>1 DEF SmallFrames
  <2>3. PICK q \in Nat : q = (144 * input.kbps * 1000) \div input.sr
    <3>1. input.kbps \in Nat /\ input.sr \in {32000, 44100, 48000}
      BY Mp3StreamAssumption
    <3>2. PICK num \in Nat : num = 144 * input.kbps * 1000
      BY <3>1
    <3>3. PICK r \in Nat \ {0} : r = input.sr
      BY <3>1
    <3>4. num \div r \in Nat
      OBVIOUS
    <3>5. num \div r = (144 * input.kbps * 1000) \div input.sr
      BY <3>2, <3>3, Zenon
    <3>6. QED BY <3>4, <3>5
  <2>4. bytes = q + p
    BY <1>1, <1>2, <2>3 DEF FrameBytes
  <2>5. QED BY <1>1, <1>2, <2>2, <2>3, <2>4
<1>19. FrameOK(f)
  BY <1>2, <1>11, <1>16, <1>17, <1>18 DEF FrameOK, Area
<1>20. QED BY <1>3, <1>15, <1>16, <1>19

\* Lending changes nothing but the loan, and what is lent is where the back
\* pointer of the next frame says.
LEMMA LendLinks ==
    ASSUME input \in Songs, NEW e, EncOK(e), e.pending # <<>>, NEW f, FrameOK(f), f.begin = Reservoir(e)
    PROVE  /\ FrameOK(Lend(e, f)) /\ Linked(Lend(e, f), f)
           /\ Lend(e, f).begin = e.pending[1].begin /\ Lend(e, f).pcm = e.pending[1].pcm
           /\ Lend(e, f).md = e.pending[1].md
<1>1. PICK p \in Frame : p = e.pending[1] /\ FrameOK(p) /\ Spare(p) \in Nat
                         /\ (Spare(p) <= 511 => Reservoir(e) = Spare(p))
  BY ReservoirIs DEF FrameOK
<1>2. PICK len \in Nat : len = Least(f.md, Reservoir(e)) /\ len = Least(f.begin, f.md)
  <2>1. f.md \in Nat /\ f.begin \in Nat
    <3>1. f.md \in Nat /\ f.begin \in BackField
      BY DEF FrameOK, Frame
    <3>2. f.begin \in Nat
      BY <3>1, BackFieldIs
    <3>3. QED BY <3>1, <3>2
  <2>2. Least(f.md, f.begin) \in Nat /\ Least(f.md, f.begin) = Least(f.begin, f.md)
    BY <2>1 DEF Least
  <2>3. QED BY <2>2
<1>3. PICK loan \in [of : Seq(Int), from : Nat, len : Nat] :
        loan = IF len > 0 THEN [of |-> f.pcm, from |-> p.own, len |-> len] ELSE NoLoan
  <2>1. f.pcm \in Seq(Int) /\ p.own \in Nat
    BY DEF FrameOK, Frame
  <2>2. NoLoan \in [of : Seq(Int), from : Nat, len : Nat]
    BY DEF NoLoan
  <2>3. QED BY <2>1, <2>2
<1>4. PICK l : l = Lend(e, f)
  OBVIOUS
<1>5. l = [p EXCEPT !.lent = loan]
  BY <1>1, <1>2, <1>3, <1>4 DEF Lend
<1>6. /\ l \in Frame /\ l.pcm = p.pcm /\ l.bytes = p.bytes /\ l.begin = p.begin /\ l.parts = p.parts
      /\ l.md = p.md /\ l.own = p.own /\ l.lent = loan
  BY <1>5 DEF Frame
<1>7. FrameOK(l)
  BY <1>1, <1>6 DEF FrameOK, Area
<1>8. Linked(l, f)
  <2>1. SUFFICES ASSUME Spare(l) <= 511, Least(f.begin, f.md) > 0
                 PROVE  l.lent = [of |-> f.pcm, from |-> Area(l) - f.begin, len |-> Least(f.begin, f.md)]
    BY DEF Linked
  <2>2. Spare(l) = Spare(p) /\ Area(l) = Area(p)
    BY <1>6 DEF Spare, Area
  <2>3. f.begin = Spare(p)
    BY <1>1, <2>1, <2>2
  <2>4. p.own \in Nat /\ p.bytes \in Nat
    BY DEF Frame
  <2>5. Area(p) - Spare(p) = p.own
    BY <2>4 DEF Spare, Area, HeaderBytes
  <2>6. len > 0
    BY <1>2, <2>1
  <2>7. QED BY <1>2, <1>3, <1>6, <2>2, <2>3, <2>5, <2>6
<1>9. QED BY <1>1, <1>4, <1>6, <1>7, <1>8

\* A frame may follow a chain, and so may a chain another.
LEMMA ChainConcat ==
    ASSUME NEW r, Chain(r), NEW s \in Seq(Frame), \A k \in 1 .. Len(s) : FrameOK(s[k]),
           \A k \in 2 .. Len(s) : Linked(s[k - 1], s[k]),
           s # <<>> /\ r = <<>> => s[1].begin = 0,
           s # <<>> /\ r # <<>> => Linked(r[Len(r)], s[1])
    PROVE  Chain(r \o s)
<1>1. r \in Seq(Frame) /\ \A k \in 1 .. Len(r) : FrameOK(r[k])
  BY DEF Chain
<1>2. \A k \in 2 .. Len(r) : Linked(r[k - 1], r[k])
  BY DEF Chain
<1>3. PICK m \in Nat, n \in Nat : m = Len(r) /\ n = Len(s)
  BY <1>1
<1>4. PICK q : q = r \o s
  OBVIOUS
<1>5. /\ q \in Seq(Frame) /\ Len(q) = m + n
      /\ \A k \in 1 .. m + n : q[k] = IF k <= m THEN r[k] ELSE s[k - m]
  BY <1>1, <1>3, <1>4, ConcatProperties
<1>6. \A k \in 1 .. m : q[k] = r[k]
  <2>1. \A k \in 1 .. m : k \in 1 .. m + n /\ k <= m
    OBVIOUS
  <2>2. QED BY <1>5, <2>1
<1>7. \A k \in 1 .. m + n : k > m => q[k] = s[k - m] /\ k - m \in 1 .. n
  BY <1>5
<1>8. \A k \in 1 .. Len(q) : FrameOK(q[k])
  <2>1. TAKE k \in 1 .. Len(q)
  <2>2. k \in 1 .. m + n
    BY <1>5
  <2>3. CASE k <= m
    <3>1. k \in 1 .. Len(r)
      BY <1>3, <2>2, <2>3
    <3>2. QED BY <1>1, <1>3, <1>6, <3>1
  <2>4. CASE k > m
    BY <1>3, <1>7, <2>2, <2>4
  <2>5. QED BY <2>2, <2>3, <2>4
<1>9. \A k \in 2 .. Len(q) : Linked(q[k - 1], q[k])
  <2>1. TAKE k \in 2 .. Len(q)
  <2>2. PICK j \in Int : j = k - 1
    OBVIOUS
  <2>3. k \in 1 .. m + n /\ j \in 1 .. m + n
    BY <1>5, <2>2
  <2>4. CASE k <= m
    <3>1. k \in 2 .. Len(r) /\ k \in 1 .. m /\ j \in 1 .. m
      BY <1>3, <2>2, <2>3, <2>4
    <3>2. Linked(r[j], r[k])
      BY <1>2, <2>2, <3>1
    <3>3. QED BY <1>6, <2>2, <3>1, <3>2
  <2>5. CASE k = m + 1
    <3>1. q[k] = s[1] /\ 1 \in 1 .. n
      BY <1>7, <2>3, <2>5
    <3>2. j = m /\ j \in 1 .. m /\ q[j] = r[m]
      BY <1>6, <2>2, <2>3, <2>5
    <3>3. s # <<>> /\ r # <<>>
      BY <1>3, <3>1, <3>2
    <3>4. QED BY <1>3, <2>2, <3>1, <3>2, <3>3
  <2>6. CASE k > m + 1
    <3>1. PICK i \in Int : i = k - m
      OBVIOUS
    <3>2. q[k] = s[i] /\ q[j] = s[i - 1] /\ i \in 2 .. Len(s)
      <4>1. q[k] = s[k - m] /\ k - m \in 1 .. n
        BY <1>7, <2>3, <2>6
      <4>2. j > m
        BY <2>2, <2>6
      <4>3. q[j] = s[j - m]
        BY <1>7, <2>3, <4>2
      <4>4. j - m = i - 1 /\ i \in 2 .. n
        <5>1. \A a \in Int, b \in Int, x \in Int, y \in Int, c \in Int :
                b = a - 1 /\ a > y + 1 /\ x = a - y /\ a - y \in 1 .. c
                  => b - y = x - 1 /\ x \in 2 .. c
          OBVIOUS
        <5>2. m \in Int /\ n \in Int /\ k \in Int
          BY <1>3, <2>3
        <5>3. QED BY <2>2, <2>6, <3>1, <4>1, <5>1, <5>2
      <4>5. QED BY <1>3, <3>1, <4>1, <4>3, <4>4
    <3>3. QED BY <2>2, <3>2
  <2>7. QED BY <2>3, <2>4, <2>5, <2>6
<1>10. Len(q) > 0 => q[1].begin = 0
  <2>1. CASE r = <<>>
    <3>1. m = 0
      BY <1>3, <2>1
    <3>2. HAVE Len(q) > 0
    <3>3. n > 0
      BY <1>5, <3>1, <3>2
    <3>4. q[1] = s[1]
      BY <1>5, <3>1, <3>3
    <3>5. s # <<>>
      BY <1>3, <3>3
    <3>6. QED BY <2>1, <3>4, <3>5
  <2>2. CASE r # <<>>
    <3>1. Len(r) > 0
      BY <1>1, <2>2, EmptySeq
    <3>2. q[1] = r[1]
      BY <1>3, <1>6, <3>1
    <3>3. r[1].begin = 0
      BY <3>1 DEF Chain
    <3>4. QED BY <3>2, <3>3
  <2>3. QED BY <2>1, <2>2
<1>11. QED BY <1>4, <1>5, <1>8, <1>9, <1>10 DEF Chain

\* A frame without a back pointer follows any other.
LEMMA FreshLinks ==
    ASSUME NEW p, NEW f, FrameOK(f), f.begin = 0
    PROVE  Linked(p, f)
<1>1. f.md \in Nat
  BY DEF FrameOK, Frame
<1>2. ~(Least(f.begin, f.md) > 0)
  BY <1>1 DEF Least
<1>3. QED BY <1>2 DEF Linked

-----------------------------------------------------------------------------
(* Mp3Stream: an encoder keeps the chain of what it gave out. *)

LEMMA EncodeFrameIs ==
    ASSUME NEW e, NEW pcm, NEW c
    PROVE  /\ EncodeFrame(e, pcm, c).enc = [fill |-> <<>>, pad |-> PadRemainder(e),
                                            pending |-> <<NewFrame(e, pcm, c)>>]
           /\ e.pending = <<>> => EncodeFrame(e, pcm, c).out = <<>>
           /\ e.pending # <<>> => EncodeFrame(e, pcm, c).out = <<Lend(e, NewFrame(e, pcm, c))>>
BY DEF EncodeFrame

LEMMA PadIs ==
    ASSUME input \in Songs, NEW e, e.pad \in Int
    PROVE  PadRemainder(e) \in Int
<1>1. input.kbps \in Nat /\ input.sr \in {32000, 44100, 48000}
  BY SongFacts
<1>2. PICK x \in Nat : x = 144 * input.kbps * 1000
  BY <1>1
<1>3. x % 32000 \in Int /\ x % 44100 \in Int /\ x % 48000 \in Int
  OBVIOUS
<1>4. PadStep \in Int /\ input.sr \in Int
  BY <1>1, <1>2, <1>3 DEF PadStep
<1>5. QED BY <1>4 DEF PadRemainder

LEMMA EncodeFrameKeeps ==
    ASSUME input \in Songs, NEW e, EncOK(e), NEW pcm \in Seq(Int), NEW c \in Contents
    PROVE  /\ EncOK(EncodeFrame(e, pcm, c).enc) /\ EncodeFrame(e, pcm, c).out \in Seq(Frame)
           /\ \A r : Held(r, e.pending)
                => Held(r \o EncodeFrame(e, pcm, c).out, EncodeFrame(e, pcm, c).enc.pending)
<1>1. PICK f : f = NewFrame(e, pcm, c)
  OBVIOUS
<1>2. FrameOK(f) /\ f.begin = Reservoir(e) /\ f \in Frame
  <2>1. FrameOK(f) /\ f.begin = Reservoir(e)
    BY <1>1, NewFrameOK
  <2>2. QED BY <2>1 DEF FrameOK
<1>3. PICK s : s = EncodeFrame(e, pcm, c)
  OBVIOUS
<1>4. s.enc = [fill |-> <<>>, pad |-> PadRemainder(e), pending |-> <<f>>]
  BY <1>1, <1>3, EncodeFrameIs
<1>5. EncOK(s.enc)
  <2>1. e.pad \in Int
    BY DEF EncOK, EncoderType
  <2>2. PadRemainder(e) \in Int
    BY <2>1, PadIs
  <2>3. s.enc.pending = <<f>> /\ Len(s.enc.pending) <= 1 /\ \A k \in 1 .. Len(s.enc.pending) : s.enc.pending[k] = f
    BY <1>4
  <2>4. s.enc \in EncoderType
    BY <1>2, <1>4, <2>2 DEF EncoderType
  <2>5. QED BY <1>2, <2>3, <2>4 DEF EncOK
<1>6. s.enc.pending = <<f>> /\ <<f>> # <<>> /\ <<f>>[1] = f
  BY <1>4
<1>7. CASE e.pending = <<>>
  <2>1. s.out = <<>> /\ f.begin = 0
    BY <1>2, <1>3, <1>7, EncodeFrameIs, ReservoirIs
  <2>2. ASSUME NEW r, Held(r, e.pending)
        PROVE  Held(r \o s.out, s.enc.pending)
    <3>1. Chain(r) /\ r \in Seq(Frame)
      BY <2>2 DEF Held, Chain
    <3>2. r \o s.out = r
      BY <2>1, <3>1
    <3>3. \A p : Linked(p, f)
      BY <1>2, <2>1, FreshLinks
    <3>4. Held(r, <<f>>)
      BY <1>6, <2>1, <3>1, <3>3 DEF Held
    <3>5. QED BY <1>6, <3>2, <3>4
  <2>3. s.out \in Seq(Frame)
    BY <2>1
  <2>4. QED BY <1>3, <1>5, <2>2, <2>3
<1>8. CASE e.pending # <<>>
  <2>1. PICK l : l = Lend(e, f)
    OBVIOUS
  <2>2. s.out = <<l>>
    BY <1>1, <1>3, <1>8, <2>1, EncodeFrameIs
  <2>3. PICK p : p = e.pending[1]
    OBVIOUS
  <2>4. FrameOK(l) /\ Linked(l, f) /\ l.begin = p.begin /\ l.pcm = p.pcm /\ l.md = p.md
    BY <1>2, <1>8, <2>1, <2>3, LendLinks
  <2>5. l \in Frame
    BY <2>4 DEF FrameOK
  <2>6. s.out \in Seq(Frame)
    BY <2>2, <2>5
  <2>7. ASSUME NEW r, Held(r, e.pending)
        PROVE  Held(r \o s.out, s.enc.pending)
    <3>1. Chain(r) /\ r \in Seq(Frame)
      BY <2>7 DEF Held, Chain
    <3>2. r = <<>> => l.begin = 0
      BY <1>8, <2>3, <2>4, <2>7 DEF Held
    <3>3. r # <<>> => Linked(r[Len(r)], l)
      <4>1. r # <<>> => Linked(r[Len(r)], p)
        BY <1>8, <2>3, <2>7 DEF Held
      <4>2. \A x : Linked(x, p) => Linked(x, l)
        BY <2>4 DEF Linked
      <4>3. QED BY <4>1, <4>2
    <3>4. Chain(r \o <<l>>)
      <4>1. PICK o : o = <<l>>
        OBVIOUS
      <4>2. /\ o \in Seq(Frame) /\ o # <<>> /\ o[1] = l /\ \A k \in 1 .. Len(o) : FrameOK(o[k])
            /\ \A k \in 2 .. Len(o) : Linked(o[k - 1], o[k])
        BY <2>4, <2>5, <4>1
      <4>3. Chain(r \o o)
        BY <3>1, <3>2, <3>3, <4>2, ChainConcat
      <4>4. QED BY <4>1, <4>3
    <3>5. PICK q \in Seq(Frame) : q = r \o <<l>>
      <4>1. r \o <<l>> \in Seq(Frame)
        BY <2>5, <3>1
      <4>2. QED BY <4>1
    <3>6. q # <<>> /\ q[Len(q)] = l
      BY <2>5, <3>1, <3>5
    <3>7. Held(q, <<f>>)
      BY <1>6, <2>4, <3>4, <3>5, <3>6 DEF Held
    <3>8. QED BY <1>6, <2>2, <3>5, <3>7
  <2>8. QED BY <1>3, <1>5, <2>6, <2>7
<1>9. QED BY <1>7, <1>8


LEMMA RampIs ==
    ASSUME NEW a \in Int, NEW n \in Int
    PROVE  /\ [i \in 1 .. n |-> a + i - 1] \in Seq(Int)
           /\ [i \in 1 .. n |-> ZeroSample] \in Seq(Int)
<1>1. PICK m \in Nat : 1 .. n = 1 .. m
  <2>1. CASE n \in Nat
    BY <2>1
  <2>2. CASE n \notin Nat
    <3>1. 1 .. n = 1 .. 0
      BY <2>2
    <3>2. QED BY <3>1
  <2>3. QED BY <2>1, <2>2
<1>2. [i \in 1 .. m |-> a + i - 1] \in Seq(Int)
  OBVIOUS
<1>3. [i \in 1 .. m |-> ZeroSample] \in Seq(Int)
  BY DEF ZeroSample
<1>4. QED BY <1>1, <1>2, <1>3

LEMMA EncodeKeeps ==
    ASSUME input \in Songs, NEW e, EncOK(e), NEW a \in Int, NEW n \in Int, NEW c \in Contents
    PROVE  /\ EncOK(Encode(e, a, n, c).enc) /\ Encode(e, a, n, c).out \in Seq(Frame)
           /\ \A r : Held(r, e.pending)
                => Held(r \o Encode(e, a, n, c).out, Encode(e, a, n, c).enc.pending)
<1>1. PICK fill \in Seq(Int) : fill = e.fill \o [i \in 1 .. n |-> a + i - 1]
  <2>1. e.fill \in Seq(Int) /\ [i \in 1 .. n |-> a + i - 1] \in Seq(Int)
    BY RampIs DEF EncOK, EncoderType
  <2>2. e.fill \o [i \in 1 .. n |-> a + i - 1] \in Seq(Int)
    BY <2>1
  <2>3. QED BY <2>2
<1>2. PICK g : g = [e EXCEPT !.fill = fill]
  OBVIOUS
<1>3. EncOK(g) /\ g.pending = e.pending
  <2>1. g \in EncoderType /\ g.pending = e.pending
    BY <1>2 DEF EncOK, EncoderType
  <2>2. QED BY <2>1 DEF EncOK
<1>4. CASE Len(fill) = FrameSamples
  <2>1. Encode(e, a, n, c) = EncodeFrame(g, fill, c)
    BY <1>1, <1>2, <1>4 DEF Encode
  <2>2. QED BY <1>3, <2>1, EncodeFrameKeeps
<1>5. CASE Len(fill) # FrameSamples
  <2>1. Encode(e, a, n, c).enc = g /\ Encode(e, a, n, c).out = <<>>
    BY <1>1, <1>2, <1>5 DEF Encode
  <2>2. ASSUME NEW r, Held(r, e.pending)
        PROVE  Held(r \o <<>>, g.pending)
    <3>1. r \in Seq(Frame)
      BY <2>2 DEF Held, Chain
    <3>2. r \o <<>> = r
      BY <3>1
    <3>3. QED BY <1>3, <2>2, <3>2
  <2>3. QED BY <1>3, <2>1, <2>2
<1>6. QED BY <1>4, <1>5

\* The held frame goes out as it is.
LEMMA HeldGoesOut ==
    ASSUME NEW e, EncOK(e), NEW r, Held(r, e.pending)
    PROVE  Chain(r \o e.pending)
<1>1. PICK p : p = e.pending
  OBVIOUS
<1>2. p \in Seq(Frame) /\ \A k \in 1 .. Len(p) : FrameOK(p[k])
  BY <1>1 DEF EncOK, EncoderType
<1>3. PICK n \in Nat : n = Len(p) /\ n <= 1
  <2>1. Len(p) \in Nat
    BY <1>2
  <2>2. Len(p) <= 1
    BY <1>1 DEF EncOK
  <2>3. QED BY <2>1, <2>2
<1>4. 2 .. Len(p) = {}
  BY <1>3
<1>5. \A k \in 2 .. Len(p) : Linked(p[k - 1], p[k])
  BY <1>4
<1>6. /\ Chain(r) /\ (p # <<>> /\ r = <<>> => p[1].begin = 0)
      /\ (p # <<>> /\ r # <<>> => Linked(r[Len(r)], p[1]))
  BY <1>1 DEF Held
<1>7. Chain(r \o p)
  BY <1>2, <1>5, <1>6, ChainConcat
<1>8. QED BY <1>1, <1>7

LEMMA FlushKeeps ==
    ASSUME input \in Songs, NEW e, EncOK(e), NEW c \in Contents
    PROVE  /\ EncOK(Flush(e, c).enc) /\ Flush(e, c).enc.pending = <<>> /\ Flush(e, c).out \in Seq(Frame)
           /\ \A r : Held(r, e.pending) => Chain(r \o Flush(e, c).out)
<1>1. PICK padded \in Seq(Int) :
        padded = e.fill \o [i \in 1 .. FrameSamples - Len(e.fill) |-> ZeroSample]
  <2>1. e.fill \in Seq(Int)
    BY DEF EncOK, EncoderType
  <2>2. FrameSamples - Len(e.fill) \in Int
    BY <2>1, SongFacts
  <2>3. [i \in 1 .. FrameSamples - Len(e.fill) |-> ZeroSample] \in Seq(Int)
    BY <2>2, RampIs
  <2>4. e.fill \o [i \in 1 .. FrameSamples - Len(e.fill) |-> ZeroSample] \in Seq(Int)
    BY <2>1, <2>3
  <2>5. QED BY <2>4
<1>2. PICK last : last = IF e.fill = <<>> THEN [enc |-> e, out |-> <<>>] ELSE EncodeFrame(e, padded, c)
  OBVIOUS
<1>3. /\ Flush(e, c).enc = [last.enc EXCEPT !.pending = <<>>]
      /\ Flush(e, c).out = last.out \o last.enc.pending
  BY <1>1, <1>2 DEF Flush
<1>4. /\ EncOK(last.enc) /\ last.out \in Seq(Frame)
      /\ \A r : Held(r, e.pending) => Held(r \o last.out, last.enc.pending)
  <2>1. CASE e.fill = <<>>
    <3>1. last.enc = e /\ last.out = <<>>
      BY <1>2, <2>1
    <3>2. ASSUME NEW r, Held(r, e.pending)
          PROVE  Held(r \o <<>>, e.pending)
      <4>1. r \in Seq(Frame)
        BY <3>2 DEF Held, Chain
      <4>2. r \o <<>> = r
        BY <4>1
      <4>3. QED BY <3>2, <4>2
    <3>3. QED BY <3>1, <3>2
  <2>2. CASE e.fill # <<>>
    <3>1. last = EncodeFrame(e, padded, c)
      BY <1>2, <2>2
    <3>2. QED BY <3>1, EncodeFrameKeeps
  <2>3. QED BY <2>1, <2>2
<1>5. PICK p \in Seq(Frame) : p = last.enc.pending
  BY <1>4 DEF EncOK, EncoderType
<1>6. EncOK(Flush(e, c).enc) /\ Flush(e, c).enc.pending = <<>>
  <2>1. PICK d : d = last.enc
    OBVIOUS
  <2>2. d \in EncoderType
    BY <1>4, <2>1 DEF EncOK
  <2>3. PICK g : g = [d EXCEPT !.pending = <<>>]
    OBVIOUS
  <2>4. <<>> \in Seq(Frame)
    OBVIOUS
  <2>5. g \in EncoderType /\ g.pending = <<>>
    BY <2>2, <2>3, <2>4 DEF EncoderType
  <2>6. EncOK(g)
    BY <2>5 DEF EncOK
  <2>7. QED BY <1>3, <2>1, <2>3, <2>5, <2>6
<1>7. Flush(e, c).out \in Seq(Frame)
  BY <1>3, <1>4, <1>5
<1>8. ASSUME NEW r, Held(r, e.pending)
      PROVE  Chain(r \o Flush(e, c).out)
  <2>1. Chain((r \o last.out) \o p)
    BY <1>4, <1>5, <1>8, HeldGoesOut
  <2>2. r \in Seq(Frame)
    BY <1>8 DEF Held, Chain
  <2>3. (r \o last.out) \o p = r \o (last.out \o p)
    <3>1. PICK o \in Seq(Frame) : o = last.out
      BY <1>4
    <3>2. (r \o o) \o p = r \o (o \o p)
      BY <2>2, ConcatAssociative, SMTT(30)
    <3>3. QED BY <3>1, <3>2
  <2>4. QED BY <1>3, <1>5, <2>1, <2>3
<1>9. QED BY <1>6, <1>7, <1>8

-----------------------------------------------------------------------------
(* Mp3Stream: the runs the song is cut into. *)

LEMMA CoveringFrames ==
    ASSUME NEW n \in Nat \ {0}, NEW d \in Nat \ {0}
    PROVE  /\ DivUp(n, d) \in Nat \ {0}
           /\ d * (DivUp(n, d) - 1) < n /\ n <= d * DivUp(n, d)
<1>1. PICK a \in Nat : a = n + d - 1
  OBVIOUS
<1>2. PICK q \in Int, r \in 0 .. d - 1 : q = a \div d /\ a = d * q + r
  BY Quotient
<1>3. DivUp(n, d) = q
  BY <1>1, <1>2 DEF DivUp
<1>4. PICK z \in Int : z = q - 1
  OBVIOUS
<1>5. d * q = d * z + d
  BY <1>4
<1>6. PICK y \in Int : y = d * z
  OBVIOUS
<1>7. y < n /\ n <= y + d
  BY <1>1, <1>2, <1>5, <1>6
<1>8. q > 0
  <2>1. SUFFICES ASSUME q <= 0 PROVE FALSE
    OBVIOUS
  <2>2. d * q <= 0
    <3>1. PICK u \in Nat : u = 0 - q
      BY <2>1
    <3>2. d * u >= 0
      OBVIOUS
    <3>3. d * q = 0 - d * u
      BY <3>1
    <3>4. QED BY <3>2, <3>3
  <2>3. QED BY <1>5, <1>6, <1>7, <2>2
<1>9. QED BY <1>3, <1>4, <1>5, <1>6, <1>7, <1>8

\* What the cut comes to: every thread has a frame at least.
LEMMA CutFacts ==
    ASSUME input \in Songs
    PROVE  /\ TotalFrames \in Nat \ {0} /\ Threads \in Nat \ {0} /\ Threads <= TotalFrames
           /\ FrameSamples * (TotalFrames - 1) < input.samples
           /\ input.samples <= FrameSamples * TotalFrames
<1>1. /\ input.samples \in Nat \ {0} /\ input.cores \in Nat \ {0}
      /\ FrameSamples \in Nat \ {0} /\ Second \in Nat \ {0}
  BY SongFacts
<1>2. /\ TotalFrames \in Nat \ {0} /\ FrameSamples * (TotalFrames - 1) < input.samples
      /\ input.samples <= FrameSamples * TotalFrames
  BY <1>1, CoveringFrames DEF TotalFrames
<1>3. PICK s \in Nat \ {0} : s = 2 * Second
  BY <1>1
<1>4. PICK m \in Nat \ {0} : m = MinFrames
  BY <1>1, <1>3, CoveringFrames DEF MinFrames
<1>5. PICK n \in Nat \ {0} : n = TotalFrames
  BY <1>2
<1>6. PICK q \in Int, r \in 0 .. m - 1 : q = n \div m /\ n = m * q + r
  BY Quotient
<1>7. n >= m => q >= 1 /\ q <= n
  <2>1. SUFFICES ASSUME n >= m PROVE q >= 1 /\ q <= n
    OBVIOUS
  <2>2. q >= 1
    <3>1. SUFFICES ASSUME q < 1 PROVE FALSE
      OBVIOUS
    <3>2. m * q < m * 1
      <4>1. m * q + m <= m * 1
        BY <3>1, Multiples
      <4>2. QED BY <4>1
    <3>3. m * q <= 0
      <4>1. m * q + m <= m * 1
        BY <3>1, Multiples
      <4>2. QED BY <4>1
    <3>4. QED BY <1>6, <2>1, <3>3
  <2>3. q <= n
    <3>1. m * q >= 1 * q
      BY <2>2
    <3>2. QED BY <1>6, <3>1
  <2>4. QED BY <2>2, <2>3
<1>8. PICK c \in Nat \ {0} : c = input.cores
  BY <1>1
<1>9. Threads = Least(c, IF n < m THEN 1 ELSE q)
  BY <1>4, <1>5, <1>6, <1>8 DEF Threads
<1>10. Least(c, IF n < m THEN 1 ELSE q) \in Nat \ {0} /\ Least(c, IF n < m THEN 1 ELSE q) <= n
  BY <1>7 DEF Least
<1>11. QED BY <1>2, <1>5, <1>9, <1>10

\* The frames before a run: none before the first, all before the end of the
\* last, and a frame at least in every run.
LEMMA FramesBeforeFacts ==
    ASSUME input \in Songs
    PROVE  /\ FramesBefore(0) = 0 /\ FramesBefore(Threads) = TotalFrames
           /\ \A t \in Nat : FramesBefore(t) \in Nat
           /\ \A t \in Nat, s \in Nat : s = t + 1 => FramesBefore(t) < FramesBefore(s)
           /\ \A t \in Nat : t < Threads => FramesBefore(t) < TotalFrames
<1>1. PICK n \in Nat \ {0}, d \in Nat \ {0} : n = TotalFrames /\ d = Threads /\ d <= n
  BY CutFacts
<1>2. PICK q \in Int, r \in 0 .. d - 1 : q = n \div d /\ r = n % d /\ n = d * q + r
  BY Quotient
<1>3. q >= 1
  <2>1. SUFFICES ASSUME q < 1 PROVE FALSE
    OBVIOUS
  <2>2. d * q + d <= d * 1
    BY <2>1, Multiples
  <2>3. PICK y \in Int : y = d * q
    OBVIOUS
  <2>4. y <= 0 /\ n = y + r
    BY <1>2, <2>2, <2>3
  <2>5. QED BY <1>1, <2>4
<1>4. \A t : FramesBefore(t) = t * q + Least(t, r)
  BY <1>1, <1>2 DEF FramesBefore
<1>5. FramesBefore(0) = 0
  <2>1. Least(0, r) = 0
    BY DEF Least
  <2>2. QED BY <1>4, <2>1
<1>6. FramesBefore(d) = n
  <2>1. Least(d, r) = r
    BY DEF Least
  <2>2. FramesBefore(d) = d * q + r
    BY <1>4, <2>1
  <2>3. QED BY <1>2, <2>2
<1>7. \A t \in Nat : Least(t, r) \in Nat /\ t * q \in Nat
  <2>1. \A t \in Nat : Least(t, r) \in Nat
    BY DEF Least
  <2>2. \A t \in Nat : t * q \in Nat
    BY <1>3
  <2>3. QED BY <2>1, <2>2
<1>8. \A t \in Nat : FramesBefore(t) \in Nat
  BY <1>4, <1>7
<1>9. ASSUME NEW t \in Nat, NEW s \in Nat, s = t + 1
      PROVE  FramesBefore(t) < FramesBefore(s)
  <2>1. s * q = t * q + q
    BY <1>9
  <2>2. Least(t, r) <= Least(s, r) /\ Least(t, r) \in Nat /\ Least(s, r) \in Nat
    BY <1>9 DEF Least
  <2>3. PICK y \in Int : y = t * q
    OBVIOUS
  <2>4. FramesBefore(t) = y + Least(t, r) /\ FramesBefore(s) = y + q + Least(s, r)
    BY <1>4, <2>1, <2>3
  <2>5. QED BY <1>3, <2>2, <2>4
<1>10. ASSUME NEW t \in Nat, t < d
       PROVE  FramesBefore(t) < n
  <2>1. q * t + q <= q * d
    BY <1>3, <1>10, Multiples
  <2>2. PICK y \in Int, z \in Int : y = t * q /\ z = d * q
    OBVIOUS
  <2>3. y + q <= z
    BY <2>1, <2>2
  <2>4. Least(t, r) <= r /\ Least(t, r) \in Nat
    BY DEF Least
  <2>5. FramesBefore(t) = y + Least(t, r) /\ n = z + r
    BY <1>2, <1>4, <2>2
  <2>6. QED BY <1>3, <2>3, <2>4, <2>5
<1>11. QED BY <1>1, <1>5, <1>6, <1>8, <1>9, <1>10

LEMMA RangeIs ==
    ASSUME input \in Songs, NEW t \in Nat
    PROVE  RangeStart(t) \in Nat /\ RangeEnd(t) \in Nat /\ WarmFrames(t) \in Nat
<1>1. FrameSamples \in Nat \ {0} /\ input.samples \in Nat /\ Warmup \in Nat
  BY SongFacts
<1>2. PICK s \in Nat : s = t + 1
  OBVIOUS
<1>3. PICK a \in Nat, b \in Nat : a = FramesBefore(t) /\ b = FramesBefore(s)
  BY FramesBeforeFacts
<1>4. RangeStart(t) = a * FrameSamples /\ RangeStart(t) \in Nat
  BY <1>1, <1>3 DEF RangeStart
<1>5. RangeEnd(t) \in Nat
  <2>1. b * FrameSamples \in Nat
    BY <1>1
  <2>2. QED BY <1>1, <1>2, <1>3, <2>1 DEF RangeEnd
<1>6. PICK x \in Nat : x = RangeStart(t)
  BY <1>4
<1>7. PICK q \in Int, r \in 0 .. FrameSamples - 1 : q = x \div FrameSamples /\ x = FrameSamples * q + r
  BY <1>1, Quotient
<1>8. q >= 0
  <2>1. SUFFICES ASSUME q < 0 PROVE FALSE
    OBVIOUS
  <2>2. FrameSamples * q + FrameSamples <= FrameSamples * 0
    BY <1>1, <2>1, Multiples
  <2>3. QED BY <1>1, <1>7, <2>2
<1>9. WarmFrames(t) = IF t = 0 THEN 0 ELSE Least(Warmup, q)
  BY <1>6, <1>7 DEF WarmFrames
<1>10. Least(Warmup, q) \in Nat
  BY <1>1, <1>8 DEF Least
<1>11. QED BY <1>4, <1>5, <1>9, <1>10

-----------------------------------------------------------------------------
(* Mp3Stream: every step keeps the chains. *)

LEMMA TidIs ==
    ASSUME input \in Songs, NEW t \in Tid
    PROVE  t \in Nat
<1>1. PICK d \in Nat : d = Threads
  BY CutFacts
<1>2. QED BY <1>1 DEF Tid

LEMMA SongStays ==
    ASSUME UNCHANGED input
    PROVE  /\ TotalFrames' = TotalFrames /\ Threads' = Threads /\ Tid' = Tid
           /\ \A t : FramesBefore(t)' = FramesBefore(t)
           /\ \A t : RangeStart(t)' = RangeStart(t)
           /\ \A t : RangeEnd(t)' = RangeEnd(t)
<1>1. TotalFrames' = TotalFrames /\ MinFrames' = MinFrames
  BY DEF TotalFrames, MinFrames
<1>2. Threads' = Threads
  BY <1>1 DEF Threads
<1>3. Tid' = Tid
  BY <1>2 DEF Tid
<1>4. \A t : FramesBefore(t)' = FramesBefore(t)
  BY <1>1, <1>2 DEF FramesBefore
<1>5. \A t : RangeStart(t)' = RangeStart(t)
  BY <1>4 DEF RangeStart
<1>6. \A t : RangeEnd(t)' = RangeEnd(t)
  BY <1>2, <1>4 DEF RangeEnd
<1>7. QED BY <1>1, <1>2, <1>3, <1>4, <1>5, <1>6

\* A step of one run that leaves it well formed.
LEMMA OneRunMoves ==
    ASSUME ChainInv, NEW t \in Tid, NEW w, RunOK(w), workers' = [workers EXCEPT ![t] = w],
           UNCHANGED <<input, stream>>, cancel' \in BOOLEAN, oom' \in BOOLEAN
    PROVE  ChainInv'
<1>1. Tid' = Tid
  BY SongStays
<1>2. DOMAIN workers' = Tid
  BY DEF ChainInv
<1>3. ASSUME NEW u \in Tid
      PROVE  RunOK(workers'[u])
  <2>1. workers'[u] = IF u = t THEN w ELSE workers[u]
    BY DEF ChainInv
  <2>2. QED BY <2>1 DEF ChainInv
<1>4. input' \in Songs /\ stream'.done \in BOOLEAN /\ Chain(stream'.frames)
  BY DEF ChainInv
<1>5. QED BY <1>1, <1>2, <1>3, <1>4 DEF ChainInv

LEMMA NewEncoderOK == EncOK(NewEncoder) /\ NewEncoder.pending = <<>> /\ NewEncoder.fill = <<>>
<1>1. NewEncoder \in EncoderType
  BY DEF NewEncoder, EncoderType
<1>2. NewEncoder.pending = <<>> /\ NewEncoder.fill = <<>>
  BY DEF NewEncoder
<1>3. Len(NewEncoder.pending) <= 1 /\ 1 .. Len(NewEncoder.pending) = {}
  BY <1>2
<1>4. QED BY <1>1, <1>2, <1>3 DEF EncOK

LEMMA NothingHeld == Chain(<<>>) /\ Held(<<>>, <<>>)
<1>1. <<>> \in Seq(Frame) /\ Len(<<>>) = 0
  OBVIOUS
<1>2. Chain(<<>>)
  BY <1>1 DEF Chain
<1>3. QED BY <1>2 DEF Held

\* The type of a run.
LEMMA RunIs ==
    ASSUME NEW w, RunOK(w)
    PROVE  /\ w \in RunType
           /\ EncOK(w.enc) /\ w.at \in Int /\ w.upto \in Int /\ w.result \in Seq(Frame)
           /\ w.enc.fill \in Seq(Int)
BY DEF RunOK, RunType, EncoderType, EncOK

LEMMA TakeIs ==
    ASSUME FrameSamples \in Nat, NEW w, RunOK(w)
    PROVE  Take(w) \in Int /\ w.at + Take(w) \in Int
<1>1. w.at \in Int /\ w.upto \in Int /\ Len(w.enc.fill) \in Nat
  BY RunIs
<1>2. Take(w) \in Int
  BY <1>1 DEF Take, Least
<1>3. QED BY <1>1, <1>2

LEMMA StartRunKeeps ==
    ASSUME ChainInv, NEW t \in Tid, StartRun(t)
    PROVE  ChainInv'
<1>1. PICK w : w = workers[t]
  OBVIOUS
<1>2. RunOK(w) /\ w.pc = "start" /\ w.enc = NewEncoder /\ w.result = <<>>
  BY <1>1 DEF ChainInv, RunOK, StartRun
<1>3. PICK a \in Int, b \in Int, v \in Int :
        a = RangeStart(t) /\ b = RangeEnd(t) /\ v = RangeStart(t) - WarmFrames(t) * FrameSamples
  <2>1. t \in Nat /\ FrameSamples \in Nat
    BY TidIs, SongFacts DEF ChainInv
  <2>2. RangeStart(t) \in Nat /\ RangeEnd(t) \in Nat /\ WarmFrames(t) \in Nat
    BY <2>1, RangeIs DEF ChainInv
  <2>3. WarmFrames(t) * FrameSamples \in Int
    BY <2>1, <2>2
  <2>4. RangeStart(t) - WarmFrames(t) * FrameSamples \in Int
    BY <2>2, <2>3
  <2>5. QED BY <2>2, <2>4
<1>4. PICK x : x = IF b <= a THEN [w EXCEPT !.pc = "done"]
                   ELSE IF t > 0 /\ a > 0 THEN [w EXCEPT !.pc = "warm", !.at = v, !.upto = a]
                   ELSE [w EXCEPT !.pc = "poll", !.at = a, !.upto = a]
  OBVIOUS
<1>5. workers' = [workers EXCEPT ![t] = x]
  BY <1>1, <1>3, <1>4 DEF StartRun
<1>6. /\ x \in RunType
      /\ x.enc = NewEncoder /\ x.result = <<>> /\ x.pc # "start"
  <2>1. w \in RunType /\ {"done", "warm", "poll"} \subseteq WorkerPcs
    BY <1>2, RunIs DEF WorkerPcs
  <2>2. CASE x = [w EXCEPT !.pc = "done"]
    BY <1>2, <2>1, <2>2 DEF RunType
  <2>3. CASE x = [w EXCEPT !.pc = "warm", !.at = v, !.upto = a]
    BY <1>2, <1>3, <2>1, <2>3 DEF RunType
  <2>4. CASE x = [w EXCEPT !.pc = "poll", !.at = a, !.upto = a]
    BY <1>2, <1>3, <2>1, <2>4 DEF RunType
  <2>5. QED BY <1>4, <2>2, <2>3, <2>4
<1>7. RunOK(x)
  BY <1>6, NewEncoderOK, NothingHeld DEF RunOK
<1>8. UNCHANGED <<input, cancel, oom, stream>>
  BY DEF StartRun
<1>9. cancel' \in BOOLEAN /\ oom' \in BOOLEAN
  BY <1>8 DEF ChainInv
<1>10. QED BY <1>5, <1>7, <1>8, <1>9, OneRunMoves

\* A step of the encoder of a run, which takes what it gives out.
LEMMA RunTakes ==
    ASSUME NEW w, RunOK(w), w.pc \notin {"start", "warm"},
           NEW e, EncOK(e), NEW o \in Seq(Frame), Held(w.result \o o, e.pending),
           NEW at \in Int, NEW pc \in WorkerPcs \ {"start", "warm"}
    PROVE  RunOK([w EXCEPT !.enc = e, !.at = at, !.result = @ \o o, !.pc = pc])
<1>1. PICK r \in Seq(Frame) : r = w.result \o o
  <2>1. w.result \in Seq(Frame)
    BY RunIs
  <2>2. w.result \o o \in Seq(Frame)
    BY <2>1
  <2>3. QED BY <2>2
<1>2. PICK x : x = [w EXCEPT !.enc = e, !.at = at, !.result = r, !.pc = pc]
  OBVIOUS
<1>3. e \in EncoderType
  BY DEF EncOK
<1>4. /\ x \in RunType
      /\ x.enc = e /\ x.result = r /\ x.pc = pc
  <2>1. w \in RunType /\ pc \in WorkerPcs
    BY RunIs
  <2>2. QED BY <1>2, <1>3, <2>1 DEF RunType
<1>5. RunOK(x)
  BY <1>1, <1>4 DEF RunOK
<1>6. QED BY <1>1, <1>2, <1>5

LEMMA WarmKeeps ==
    ASSUME ChainInv, NEW t \in Tid, Warm(t)
    PROVE  ChainInv'
<1>1. PICK w : w = workers[t]
  OBVIOUS
<1>2. RunOK(w) /\ w.pc = "warm" /\ w.result = <<>> /\ EncOK(w.enc)
  BY <1>1 DEF ChainInv, RunOK, Warm
<1>3. PICK c \in Contents : workers' = [workers EXCEPT ![t] =
         IF w.at < w.upto
         THEN [w EXCEPT !.enc = Encode(w.enc, w.at, Take(w), c).enc, !.at = @ + Take(w)]
         ELSE [w EXCEPT !.enc = Flush(w.enc, c).enc, !.pc = "poll"]]
  BY <1>1 DEF Warm
<1>4. input \in Songs
  BY DEF ChainInv
<1>5. PICK n \in Int, v \in Int : n = Take(w) /\ v = w.at + n
  BY <1>2, <1>4, SongFacts, TakeIs
<1>6. UNCHANGED <<input, cancel, oom, stream>> /\ cancel' \in BOOLEAN /\ oom' \in BOOLEAN
  BY DEF Warm, ChainInv
<1>7. CASE w.at < w.upto
  <2>1. PICK e : e = Encode(w.enc, w.at, n, c).enc
    OBVIOUS
  <2>2. PICK x : x = [w EXCEPT !.enc = e, !.at = v]
    OBVIOUS
  <2>3. workers' = [workers EXCEPT ![t] = x]
    BY <1>3, <1>5, <1>7, <2>1, <2>2
  <2>4. EncOK(e)
    <3>1. PICK b \in Int : b = w.at
      BY <1>2, RunIs
    <3>2. PICK g : g = w.enc
      OBVIOUS
    <3>3. EncOK(Encode(g, b, n, c).enc)
      BY <1>2, <1>4, <3>2, EncodeKeeps
    <3>4. QED BY <2>1, <3>1, <3>2, <3>3
  <2>5. e \in EncoderType
    BY <2>4 DEF EncOK
  <2>6. /\ x \in RunType
        /\ x.enc = e /\ x.result = <<>> /\ x.pc = "warm"
    BY <1>2, <1>5, <2>2, <2>5, RunIs DEF RunType
  <2>7. RunOK(x)
    BY <2>4, <2>6 DEF RunOK
  <2>8. QED BY <1>6, <2>3, <2>7, OneRunMoves
<1>8. CASE ~(w.at < w.upto)
  <2>1. PICK e : e = Flush(w.enc, c).enc
    OBVIOUS
  <2>2. PICK x : x = [w EXCEPT !.enc = e, !.pc = "poll"]
    OBVIOUS
  <2>3. workers' = [workers EXCEPT ![t] = x]
    BY <1>3, <1>8, <2>1, <2>2
  <2>4. EncOK(e) /\ e.pending = <<>>
    <3>1. PICK g : g = w.enc
      OBVIOUS
    <3>2. EncOK(Flush(g, c).enc) /\ Flush(g, c).enc.pending = <<>>
      BY <1>2, <1>4, <3>1, FlushKeeps
    <3>3. QED BY <2>1, <3>1, <3>2
  <2>5. e \in EncoderType
    BY <2>4 DEF EncOK
  <2>6. /\ x \in RunType
        /\ x.enc = e /\ x.result = <<>> /\ x.pc = "poll"
    <3>1. w \in RunType /\ "poll" \in WorkerPcs
      BY <1>2, RunIs DEF WorkerPcs
    <3>2. QED BY <1>2, <2>2, <2>5, <3>1 DEF RunType
  <2>7. RunOK(x)
    BY <2>4, <2>6, NothingHeld DEF RunOK
  <2>8. QED BY <1>6, <2>3, <2>7, OneRunMoves
<1>9. QED BY <1>7, <1>8

LEMMA PollCancelKeeps ==
    ASSUME ChainInv, NEW t \in Tid, PollCancel(t)
    PROVE  ChainInv'
<1>1. PICK w : w = workers[t]
  OBVIOUS
<1>2. RunOK(w) /\ w.pc = "poll"
  BY <1>1 DEF ChainInv, PollCancel
<1>3. PICK z \in Int : z = Least(w.upto + Second, RangeEnd(t))
  <2>1. t \in Nat /\ Second \in Nat
    BY TidIs, SongFacts DEF ChainInv
  <2>2. RangeEnd(t) \in Nat
    BY <2>1, RangeIs DEF ChainInv
  <2>3. w.upto \in Int
    BY <1>2, RunIs
  <2>4. Least(w.upto + Second, RangeEnd(t)) \in Int
    BY <2>1, <2>2, <2>3 DEF Least
  <2>5. QED BY <2>4
<1>4. PICK x : /\ x = IF w.upto >= RangeEnd(t) \/ cancel THEN [w EXCEPT !.pc = "flush"]
                       ELSE [w EXCEPT !.pc = "feed", !.upto = z]
               /\ \/ x = [w EXCEPT !.pc = "flush"]
                  \/ x = [w EXCEPT !.pc = "feed", !.upto = z]
  BY Zenon
<1>5. workers' = [workers EXCEPT ![t] = x]
  BY <1>1, <1>3, <1>4 DEF PollCancel
<1>6. /\ x \in RunType
      /\ x.enc = w.enc /\ x.result = w.result /\ x.pc \in {"flush", "feed"}
  <2>1. w \in RunType /\ "flush" \in WorkerPcs /\ "feed" \in WorkerPcs
    BY <1>2, RunIs DEF WorkerPcs
  <2>2. CASE x = [w EXCEPT !.pc = "flush"]
    BY <2>1, <2>2 DEF RunType
  <2>3. CASE x = [w EXCEPT !.pc = "feed", !.upto = z]
    BY <2>1, <2>3 DEF RunType
  <2>4. QED BY <1>4, <2>2, <2>3
<1>7. RunOK(x)
  BY <1>2, <1>6 DEF RunOK
<1>8. UNCHANGED <<input, cancel, oom, stream>> /\ cancel' \in BOOLEAN /\ oom' \in BOOLEAN
  BY DEF PollCancel, ChainInv
<1>9. QED BY <1>5, <1>7, <1>8, OneRunMoves

LEMMA BufferFailsKeeps ==
    ASSUME ChainInv, NEW t \in Tid, BufferFails(t)
    PROVE  ChainInv'
<1>1. PICK w : w = workers[t]
  OBVIOUS
<1>2. RunOK(w) /\ w.pc = "poll"
  BY <1>1 DEF ChainInv, BufferFails
<1>3. PICK x : x = [w EXCEPT !.pc = "flush"]
  OBVIOUS
<1>4. workers' = [workers EXCEPT ![t] = x]
  BY <1>1, <1>3 DEF BufferFails
<1>5. /\ x \in RunType
      /\ x.enc = w.enc /\ x.result = w.result /\ x.pc = "flush"
  BY <1>2, <1>3, RunIs DEF WorkerPcs, RunType
<1>6. RunOK(x)
  BY <1>2, <1>5 DEF RunOK
<1>7. UNCHANGED <<input, stream>> /\ cancel' \in BOOLEAN /\ oom' \in BOOLEAN
  BY DEF BufferFails, ChainInv
<1>8. QED BY <1>4, <1>6, <1>7, OneRunMoves

LEMMA FeedSamplesKeeps ==
    ASSUME ChainInv, NEW t \in Tid, FeedSamples(t)
    PROVE  ChainInv'
<1>1. PICK w : w = workers[t]
  OBVIOUS
<1>2. RunOK(w) /\ w.pc = "feed" /\ EncOK(w.enc) /\ Held(w.result, w.enc.pending)
  BY <1>1 DEF ChainInv, RunOK, FeedSamples
<1>3. input \in Songs
  BY DEF ChainInv
<1>4. PICK n \in Int, v \in Int : n = Take(w) /\ v = w.at + n
  BY <1>2, <1>3, SongFacts, TakeIs
<1>5. PICK c \in Contents : workers' = [workers EXCEPT ![t] =
        [w EXCEPT !.enc = Encode(w.enc, w.at, n, c).enc, !.at = @ + n,
                  !.result = @ \o Encode(w.enc, w.at, n, c).out,
                  !.pc = IF v = w.upto THEN "poll" ELSE "feed"]]
  BY <1>1, <1>4 DEF FeedSamples
<1>6. PICK e, o, pc :
        /\ e = Encode(w.enc, w.at, n, c).enc /\ o = Encode(w.enc, w.at, n, c).out
        /\ pc = IF v = w.upto THEN "poll" ELSE "feed"
  OBVIOUS
<1>7. EncOK(e) /\ o \in Seq(Frame) /\ Held(w.result \o o, e.pending)
  <2>1. PICK b \in Int : b = w.at
    BY <1>2, RunIs
  <2>2. PICK g, r : g = w.enc /\ r = w.result
    OBVIOUS
  <2>3. /\ EncOK(Encode(g, b, n, c).enc) /\ Encode(g, b, n, c).out \in Seq(Frame)
        /\ Held(r \o Encode(g, b, n, c).out, Encode(g, b, n, c).enc.pending)
    BY <1>2, <1>3, <2>2, EncodeKeeps
  <2>4. QED BY <1>6, <2>1, <2>2, <2>3
<1>8. PICK x : x = [w EXCEPT !.enc = e, !.at = v, !.result = @ \o o, !.pc = pc]
  OBVIOUS
<1>9. workers' = [workers EXCEPT ![t] = x]
  BY <1>4, <1>5, <1>6, <1>8
<1>10. RunOK(x)
  <2>1. w.pc \notin {"start", "warm"} /\ pc \in WorkerPcs \ {"start", "warm"}
    BY <1>2, <1>6 DEF WorkerPcs
  <2>2. QED BY <1>2, <1>7, <1>8, <2>1, RunTakes
<1>11. UNCHANGED <<input, stream>> /\ cancel' \in BOOLEAN /\ oom' \in BOOLEAN
  BY DEF FeedSamples, ChainInv
<1>12. QED BY <1>9, <1>10, <1>11, OneRunMoves

LEMMA FlushRunKeeps ==
    ASSUME ChainInv, NEW t \in Tid, FlushRun(t)
    PROVE  ChainInv'
<1>1. PICK w : w = workers[t]
  OBVIOUS
<1>2. RunOK(w) /\ w.pc = "flush" /\ EncOK(w.enc) /\ Held(w.result, w.enc.pending)
  BY <1>1 DEF ChainInv, RunOK, FlushRun
<1>3. input \in Songs
  BY DEF ChainInv
<1>4. PICK c \in Contents : workers' = [workers EXCEPT ![t] =
         [w EXCEPT !.result = @ \o Flush(w.enc, c).out, !.enc = NewEncoder, !.pc = "done"]]
  BY <1>1 DEF FlushRun
<1>5. PICK o : o = Flush(w.enc, c).out
  OBVIOUS
<1>6. o \in Seq(Frame) /\ Chain(w.result \o o)
  <2>1. PICK g, r : g = w.enc /\ r = w.result
    OBVIOUS
  <2>2. Flush(g, c).out \in Seq(Frame) /\ Chain(r \o Flush(g, c).out)
    BY <1>2, <1>3, <2>1, FlushKeeps
  <2>3. QED BY <1>5, <2>1, <2>2
<1>7. Held(w.result \o o, <<>>)
  BY <1>6 DEF Held
<1>8. PICK x : x = [w EXCEPT !.enc = NewEncoder, !.at = w.at, !.result = @ \o o, !.pc = "done"]
  OBVIOUS
<1>9. workers' = [workers EXCEPT ![t] = x]
  <2>1. [w EXCEPT !.result = @ \o o, !.enc = NewEncoder, !.pc = "done"] = x
    BY <1>2, <1>8, RunIs
  <2>2. QED BY <1>4, <1>5, <2>1
<1>10. RunOK(x)
  <2>1. w.pc \notin {"start", "warm"} /\ "done" \in WorkerPcs \ {"start", "warm"} /\ w.at \in Int
    BY <1>2, RunIs DEF WorkerPcs
  <2>2. QED BY <1>2, <1>6, <1>7, <1>8, <2>1, NewEncoderOK, RunTakes
<1>11. UNCHANGED <<input, stream>> /\ cancel' \in BOOLEAN /\ oom' \in BOOLEAN
  BY DEF FlushRun, ChainInv
<1>12. QED BY <1>9, <1>10, <1>11, OneRunMoves

-----------------------------------------------------------------------------
(* Mp3Stream: the runs joined in order. *)

\* g[i] is the first i sequences of s joined.
Joins(g, s, k) ==
    g = [i \in 1 .. k |-> IF i = 1 THEN s[i] ELSE g[i - 1] \o s[i]]

LEMMA JoinsExtend ==
    ASSUME NEW S, NEW s \in Seq(Seq(S)), NEW k \in 1 .. Len(s), NEW j \in Nat, j = k - 1,
           j > 0 => \E g \in [1 .. j -> Seq(S)] : Joins(g, s, j)
    PROVE  \E h \in [1 .. k -> Seq(S)] : Joins(h, s, k)
<1>1. \A i \in 1 .. k : s[i] \in Seq(S)
  OBVIOUS
<1>2. CASE j = 0
  <2>1. PICK h : h = [i \in 1 .. k |-> s[i]]
    OBVIOUS
  <2>2. k = 1
    BY <1>2
  <2>3. h \in [1 .. k -> Seq(S)]
    BY <1>1, <2>1
  <2>4. h = [i \in 1 .. k |-> IF i = 1 THEN s[i] ELSE h[i - 1] \o s[i]]
    <3>1. \A i \in 1 .. k : s[i] = IF i = 1 THEN s[i] ELSE h[i - 1] \o s[i]
      BY <2>2
    <3>2. QED BY <2>1, <3>1
  <2>5. QED BY <2>3, <2>4 DEF Joins
<1>3. CASE j > 0
  <2>1. PICK g \in [1 .. j -> Seq(S)] : Joins(g, s, j)
    BY <1>3
  <2>2. \A i \in 1 .. j : g[i] = IF i = 1 THEN s[i] ELSE g[i - 1] \o s[i]
    BY <2>1 DEF Joins
  <2>3. PICK u \in Seq(S) : u = g[j] \o s[k]
    <3>1. g[j] \in Seq(S) /\ s[k] \in Seq(S)
      BY <1>1, <1>3, <2>1
    <3>2. g[j] \o s[k] \in Seq(S)
      BY <3>1
    <3>3. QED BY <3>2
  <2>4. PICK h : h = [i \in 1 .. k |-> IF i = k THEN u ELSE g[i]]
    OBVIOUS
  <2>5. \A i \in 1 .. k : i # k => i \in 1 .. j
    OBVIOUS
  <2>6. h \in [1 .. k -> Seq(S)]
    BY <2>1, <2>3, <2>4, <2>5
  <2>7. \A i \in 1 .. j : i \in 1 .. k /\ i # k /\ h[i] = g[i]
    BY <2>4
  <2>8. ASSUME NEW i \in 1 .. k
        PROVE  h[i] = IF i = 1 THEN s[i] ELSE h[i - 1] \o s[i]
    <3>1. CASE i = k
      <4>1. k # 1 /\ j \in 1 .. j
        BY <1>3
      <4>2. h[k] = u /\ h[j] = g[j]
        BY <2>4, <2>7, <4>1
      <4>3. QED BY <2>3, <3>1, <4>1, <4>2
    <3>2. CASE i # k
      <4>1. i \in 1 .. j /\ h[i] = g[i]
        BY <2>5, <2>7, <3>2
      <4>2. CASE i = 1
        BY <2>2, <4>1, <4>2
      <4>3. CASE i # 1
        <5>1. PICK l \in 1 .. j : l = i - 1
          BY <4>1, <4>3
        <5>2. h[l] = g[l]
          BY <2>7
        <5>3. QED BY <2>2, <4>1, <4>3, <5>1, <5>2
      <4>4. QED BY <4>2, <4>3
    <3>3. QED BY <3>1, <3>2
  <2>9. PICK f : f = [i \in 1 .. k |-> IF i = 1 THEN s[i] ELSE h[i - 1] \o s[i]]
    OBVIOUS
  <2>10. DOMAIN f = 1 .. k /\ \A i \in 1 .. k : f[i] = h[i]
    BY <2>8, <2>9
  <2>11. h = f
    BY <2>6, <2>9, <2>10
  <2>12. QED BY <2>6, <2>9, <2>11 DEF Joins
<1>4. QED BY <1>2, <1>3

LEMMA JoinsExists ==
    ASSUME NEW S, NEW s \in Seq(Seq(S)), Len(s) > 0
    PROVE  \E g \in [1 .. Len(s) -> Seq(S)] : Joins(g, s, Len(s))
<1> DEFINE Bad == {k \in 1 .. Len(s) : ~ \E g \in [1 .. k -> Seq(S)] : Joins(g, s, k)}
<1>1. SUFFICES ASSUME Bad # {} PROVE FALSE
  <2>1. Bad = {}
    BY <1>1
  <2>2. Len(s) \in 1 .. Len(s)
    OBVIOUS
  <2>3. QED BY <2>1, <2>2
<1>2. PICK k \in Bad : \A x \in Bad : k <= x
  <2>1. Bad \subseteq Nat
    OBVIOUS
  <2> HIDE DEF Bad
  <2>2. QED BY <1>1, <2>1, LeastElement
<1>3. k \in 1 .. Len(s) /\ ~ \E g \in [1 .. k -> Seq(S)] : Joins(g, s, k)
  BY <1>2
<1>4. PICK j \in Nat : j = k - 1
  BY <1>3
<1>5. j > 0 => \E g \in [1 .. j -> Seq(S)] : Joins(g, s, j)
  <2>1. SUFFICES ASSUME j > 0 PROVE \E g \in [1 .. j -> Seq(S)] : Joins(g, s, j)
    OBVIOUS
  <2>2. j \in 1 .. Len(s) /\ j < k
    BY <1>3, <1>4, <2>1
  <2>3. j \notin Bad
    <3>1. SUFFICES ASSUME j \in Bad PROVE FALSE
      OBVIOUS
    <3>2. k <= j
      BY <1>2, <3>1
    <3>3. QED BY <1>3, <2>2, <3>2
  <2>4. QED BY <2>2, <2>3
<1> HIDE DEF Bad
<1>6. QED BY <1>3, <1>4, <1>5, JoinsExtend

JoinedAs(g, s) ==
    /\ g[1] = s[1] /\ FlattenSeq(s) = g[Len(s)]
    /\ \A i \in 1 .. Len(s), j \in 1 .. Len(s) : j = i - 1 => g[i] = g[j] \o s[i]

LEMMA FlattenIs ==
    ASSUME NEW S, NEW s \in Seq(Seq(S)), Len(s) > 0
    PROVE  \E g \in [1 .. Len(s) -> Seq(S)] : JoinedAs(g, s)
<1> DEFINE n == Len(s)
<1> n \in Nat /\ n > 0
  OBVIOUS
<1>1. PICK h \in [1 .. Len(s) -> Seq(S)] : Joins(h, s, Len(s))
  BY JoinsExists
<1>2. PICK g : g = CHOOSE f : f = [i \in 1 .. Len(s) |-> IF i = 1 THEN s[i] ELSE f[i - 1] \o s[i]]
  OBVIOUS
<1>3. g = [i \in 1 .. Len(s) |-> IF i = 1 THEN s[i] ELSE g[i - 1] \o s[i]]
  BY <1>1, <1>2 DEF Joins
<1>4. FlattenSeq(s) = g[Len(s)]
  BY <1>2 DEF FlattenSeq
<1>5. \A i \in 1 .. n : g[i] = IF i = 1 THEN s[i] ELSE g[i - 1] \o s[i]
  BY <1>3
<1>6. g[1] = s[1] /\ \A i \in 1 .. n, j \in 1 .. n : j = i - 1 => g[i] = g[j] \o s[i]
  <2>1. 1 \in 1 .. n
    OBVIOUS
  <2>2. g[1] = s[1]
    BY <1>5, <2>1
  <2>3. ASSUME NEW i \in 1 .. n, NEW j \in 1 .. n, j = i - 1
        PROVE  g[i] = g[j] \o s[i]
    <3>1. i # 1
      BY <2>3
    <3>2. QED BY <1>5, <2>3, <3>1
  <2>4. QED BY <2>2, <2>3
<1>7. \A i \in 1 .. n : g[i] \in Seq(S)
  <2>1. \A i \in 1 .. n : s[i] \in Seq(S)
    OBVIOUS
  <2> DEFINE Bad == {k \in 1 .. n : g[k] \notin Seq(S)}
  <2>2. SUFFICES ASSUME Bad # {} PROVE FALSE
    BY <2>2
  <2>3. Bad \subseteq Nat
    OBVIOUS
  <2>4. PICK k \in Bad : \A x \in Bad : k <= x
    <3> HIDE DEF Bad
    <3>1. QED BY <2>2, <2>3, LeastElement
  <2>5. k \in 1 .. n /\ g[k] \notin Seq(S)
    BY <2>4
  <2>6. k # 1
    BY <1>6, <2>1, <2>5
  <2>7. PICK j \in 1 .. n : j = k - 1
    BY <2>5, <2>6
  <2>8. j \notin Bad
    <3>1. SUFFICES ASSUME j \in Bad PROVE FALSE
      OBVIOUS
    <3>2. k <= j
      BY <2>4, <3>1
    <3>3. QED BY <2>5, <2>7, <3>2
  <2>9. g[j] \in Seq(S) /\ s[k] \in Seq(S) /\ g[k] = g[j] \o s[k]
    BY <1>6, <2>1, <2>5, <2>7, <2>8
  <2>10. g[k] \in Seq(S)
    BY <2>9
  <2>11. QED BY <2>5, <2>10
<1>8. g \in [1 .. n -> Seq(S)]
  BY <1>3, <1>7
<1>9. JoinedAs(g, s)
  BY <1>4, <1>6 DEF JoinedAs
<1>10. QED BY <1>8, <1>9

\* Chains joined are a chain.
LEMMA ChainsJoin ==
    ASSUME NEW s \in Seq(Seq(Frame)), \A i \in 1 .. Len(s) : Chain(s[i])
    PROVE  Chain(FlattenSeq(s))
<1>1. PICK n \in Nat : n = Len(s)
  OBVIOUS
<1>2. CASE n = 0
  <2>1. s = <<>>
    BY <1>1, <1>2, EmptySeq
  <2>2. FlattenSeq(s) = <<>>
    BY <1>1, <1>2, <2>1 DEF FlattenSeq
  <2>3. QED BY <2>2, NothingHeld
<1>3. CASE n > 0
  <2>1. PICK g \in [1 .. n -> Seq(Frame)] :
           /\ g[1] = s[1] /\ FlattenSeq(s) = g[n]
           /\ \A i \in 1 .. n, j \in 1 .. n : j = i - 1 => g[i] = g[j] \o s[i]
    <3>1. PICK g \in [1 .. Len(s) -> Seq(Frame)] : JoinedAs(g, s)
      BY <1>1, <1>3, FlattenIs
    <3>2. QED BY <1>1, <3>1 DEF JoinedAs
  <2> DEFINE Bad == {k \in 1 .. n : ~Chain(g[k])}
  <2>2. Bad = {}
    <3>1. SUFFICES ASSUME Bad # {} PROVE FALSE
      OBVIOUS
    <3>2. PICK k \in Bad : \A x \in Bad : k <= x
      <4>1. Bad \subseteq Nat
        OBVIOUS
      <4> HIDE DEF Bad
      <4>2. QED BY <3>1, <4>1, LeastElement
    <3>3. k \in 1 .. n /\ ~Chain(g[k])
      BY <3>2
    <3>4. k # 1
      BY <1>1, <2>1, <3>3
    <3>5. PICK j \in 1 .. n : j = k - 1
      BY <3>3, <3>4
    <3>6. j \notin Bad
      <4>1. SUFFICES ASSUME j \in Bad PROVE FALSE
        OBVIOUS
      <4>2. k <= j
        BY <3>2, <4>1
      <4>3. QED BY <3>3, <3>5, <4>2
    <3>7. PICK a, b : a = g[j] /\ b = s[k]
      OBVIOUS
    <3>8. Chain(a) /\ Chain(b) /\ g[k] = a \o b
      BY <1>1, <2>1, <3>3, <3>5, <3>6, <3>7
    <3>9. /\ b \in Seq(Frame) /\ \A i \in 1 .. Len(b) : FrameOK(b[i])
          /\ \A i \in 2 .. Len(b) : Linked(b[i - 1], b[i])
      BY <3>8 DEF Chain
    <3>10. b # <<>> => b[1].begin = 0 /\ FrameOK(b[1])
      <4>1. SUFFICES ASSUME b # <<>> PROVE b[1].begin = 0 /\ FrameOK(b[1])
        OBVIOUS
      <4>2. Len(b) > 0
        BY <3>9, <4>1, EmptySeq
      <4>3. QED BY <3>8, <3>9, <4>2 DEF Chain
    <3>11. b # <<>> => \A p : Linked(p, b[1])
      BY <3>10, FreshLinks
    <3>12. Chain(a \o b)
      BY <3>8, <3>9, <3>10, <3>11, ChainConcat
    <3>13. QED BY <3>3, <3>8, <3>12
  <2>3. n \notin Bad /\ n \in 1 .. n
    <3>1. n \in 1 .. n
      BY <1>3
    <3> HIDE DEF Bad
    <3>2. QED BY <2>2, <3>1
  <2>4. Chain(g[n])
    BY <2>3
  <2>5. QED BY <2>1, <2>4
<1>4. QED BY <1>1, <1>2, <1>3

LEMMA ResultsAre ==
    ASSUME ChainInv, NEW s, s = [i \in 1 .. Threads |-> workers[i - 1].result]
    PROVE  /\ s \in Seq(Seq(Frame)) /\ Len(s) = Threads
           /\ \A i \in 1 .. Threads, t \in Tid : t = i - 1 => s[i] = workers[t].result
           /\ \A i \in 1 .. Threads : i - 1 \in Tid
<1>1. PICK n \in Nat \ {0} : n = Threads
  BY CutFacts DEF ChainInv
<1>2. \A i \in 1 .. n : i - 1 \in Tid
  BY <1>1 DEF Tid
<1>3. \A t \in Tid : workers[t].result \in Seq(Frame)
  BY RunIs DEF ChainInv
<1>4. \A i \in 1 .. n : s[i] = workers[i - 1].result /\ s[i] \in Seq(Frame)
  BY <1>1, <1>2, <1>3
<1>5. s \in [1 .. n -> Seq(Frame)]
  BY <1>1, <1>4
<1>6. s \in Seq(Seq(Frame)) /\ Len(s) = n
  BY <1>1, <1>5
<1>7. QED BY <1>1, <1>2, <1>4, <1>6

LEMMA JoinKeeps ==
    ASSUME ChainInv, Join
    PROVE  ChainInv'
<1>1. PICK s : s = [i \in 1 .. Threads |-> workers[i - 1].result]
  OBVIOUS
<1>2. s \in Seq(Seq(Frame)) /\ Len(s) = Threads /\ Threads \in Nat
  BY <1>1, ResultsAre, CutFacts DEF ChainInv
<1>3. ASSUME NEW i \in 1 .. Len(s)
      PROVE  Chain(s[i])
  <2>1. PICK t : t = i - 1
    OBVIOUS
  <2>2. t \in Tid /\ s[i] = workers[t].result
    BY <1>1, <1>2, <2>1, ResultsAre
  <2>3. PICK w : w = workers[t]
    OBVIOUS
  <2>4. RunOK(w) /\ w.pc = "done"
    BY <2>2, <2>3 DEF ChainInv, Join
  <2>5. Held(w.result, w.enc.pending)
    BY <2>4 DEF RunOK
  <2>6. QED BY <2>2, <2>3, <2>5 DEF Held
<1>4. Chain(FlattenSeq(s))
  BY <1>2, <1>3, ChainsJoin
<1>5. stream' = [done |-> TRUE, frames |-> IF cancel THEN <<>> ELSE FlattenSeq(s)]
  BY <1>1 DEF Join
<1>6. Chain(stream'.frames) /\ stream'.done \in BOOLEAN
  BY <1>4, <1>5, NothingHeld
<1>7. UNCHANGED <<input, workers, cancel, oom>>
  BY DEF Join
<1>8. Tid' = Tid
  BY <1>7, SongStays
<1>9. QED BY <1>6, <1>7, <1>8 DEF ChainInv

LEMMA ChainStart == Mp3Init => ChainInv
<1> SUFFICES ASSUME Mp3Init PROVE ChainInv
  OBVIOUS
<1>2. /\ input \in Songs /\ workers = [t \in Tid |-> Worker] /\ cancel = FALSE /\ oom = FALSE
      /\ stream = [done |-> FALSE, frames |-> <<>>]
  BY DEF Mp3Init
<1>3. Worker \in RunType /\ Worker.pc = "start" /\ Worker.enc = NewEncoder /\ Worker.result = <<>>
  <2>1. NewEncoder \in EncoderType
    BY NewEncoderOK DEF EncOK
  <2>2. QED BY <2>1 DEF Worker, RunType, WorkerPcs
<1>4. RunOK(Worker)
  BY <1>3, NewEncoderOK DEF RunOK
<1>5. QED BY <1>2, <1>4, NothingHeld DEF ChainInv

LEMMA ChainStep == ChainInv /\ [Mp3Next]_mp3Vars => ChainInv'
<1> SUFFICES ASSUME ChainInv, [Mp3Next]_mp3Vars PROVE ChainInv'
  OBVIOUS
<1>2. CASE UNCHANGED mp3Vars
  <2>1. UNCHANGED <<input, workers, cancel, oom, stream>>
    BY <1>2 DEF mp3Vars
  <2>2. Tid' = Tid
    BY <2>1, SongStays
  <2>3. QED BY <2>1, <2>2 DEF ChainInv
<1>3. CASE AskCancel
  <2>1. UNCHANGED <<input, workers, oom, stream>> /\ cancel' = TRUE
    BY <1>3 DEF AskCancel
  <2>2. Tid' = Tid
    BY <2>1, SongStays
  <2>3. QED BY <2>1, <2>2 DEF ChainInv
<1>4. CASE Join
  BY <1>4, JoinKeeps
<1>5. ASSUME NEW t \in Tid, StartRun(t) PROVE ChainInv'
  BY <1>5, StartRunKeeps
<1>6. ASSUME NEW t \in Tid, Warm(t) PROVE ChainInv'
  BY <1>6, WarmKeeps
<1>7. ASSUME NEW t \in Tid, PollCancel(t) PROVE ChainInv'
  BY <1>7, PollCancelKeeps
<1>8. ASSUME NEW t \in Tid, BufferFails(t) PROVE ChainInv'
  BY <1>8, BufferFailsKeeps
<1>9. ASSUME NEW t \in Tid, FeedSamples(t) PROVE ChainInv'
  BY <1>9, FeedSamplesKeeps
<1>10. ASSUME NEW t \in Tid, FlushRun(t) PROVE ChainInv'
  BY <1>10, FlushRunKeeps
<1>11. QED BY <1>2, <1>3, <1>4, <1>5, <1>6, <1>7, <1>8, <1>9, <1>10 DEF Mp3Next

\* A frame is found if the frame before it could name all it had to lend.
LEMMA ChainDecodesAt ==
    ASSUME ChainInv,
           NEW k \in 1 .. Len(stream.frames),
           k = 1 \/ Spare(stream.frames[k - 1]) <= 511
    PROVE  DecodesAt(k)
<1>1. PICK s : s = stream.frames
  OBVIOUS
<1>2. Chain(s) /\ s \in Seq(Frame) /\ k \in 1 .. Len(s)
  BY <1>1 DEF ChainInv, Chain
<1>3. PICK f : f = s[k]
  OBVIOUS
<1>4. FrameOK(f) /\ f \in Frame
  BY <1>2, <1>3 DEF Chain, FrameOK
<1>5. f.md \in Nat /\ f.begin \in Nat
  <2>1. f.md \in Nat /\ f.begin \in BackField
    BY <1>4 DEF Frame
  <2>2. QED BY <2>1, BackFieldIs
<1>6. BeginsInside(k) = Least(f.begin, f.md)
  BY <1>1, <1>3 DEF BeginsInside
<1>7. MainBytes(f.parts) = f.md /\ f.own <= Area(f) /\ f.own = f.md - BeginsInside(k)
  BY <1>4, <1>6 DEF FrameOK
<1>8. ASSUME BeginsInside(k) > 0
      PROVE  /\ k > 1
             /\ stream.frames[k - 1].lent =
                  [of |-> f.pcm, from |-> Area(stream.frames[k - 1]) - f.begin, len |-> BeginsInside(k)]
  <2>1. f.begin # 0
    BY <1>5, <1>6, <1>8 DEF Least
  <2>2. k # 1
    <3>1. SUFFICES ASSUME k = 1 PROVE FALSE
      OBVIOUS
    <3>2. Len(s) > 0
      BY <1>2
    <3>3. s[1].begin = 0
      BY <1>2, <3>2 DEF Chain
    <3>4. QED BY <1>3, <2>1, <3>1, <3>3
  <2>3. k \in 2 .. Len(s)
    BY <1>2, <2>2
  <2>4. Linked(s[k - 1], f)
    BY <1>2, <1>3, <2>3 DEF Chain
  <2>5. PICK p : p = s[k - 1]
    OBVIOUS
  <2>6. Spare(p) <= 511
    BY <1>1, <2>2, <2>5
  <2>7. p.lent = [of |-> f.pcm, from |-> Area(p) - f.begin, len |-> Least(f.begin, f.md)]
    BY <1>6, <1>8, <2>4, <2>5, <2>6 DEF Linked
  <2>8. k > 1
    BY <1>2, <2>2
  <2>9. QED BY <1>1, <1>6, <2>5, <2>7, <2>8
<1>9. QED BY <1>1, <1>3, <1>7, <1>8 DEF DecodesAt

LEMMA ChainDecodes == ChainInv => DecoderFindsMainData
  BY ChainDecodesAt DEF DecoderFindsMainData

\* Where frames are small, every frame is found.
LEMMA SmallFramesDecodeAll == SmallFrames /\ ChainInv => BackpointerWorks
<1>1. SUFFICES ASSUME SmallFrames, ChainInv, NEW k \in 1 .. Len(stream.frames)
               PROVE  DecodesAt(k)
  BY DEF BackpointerWorks
<1>2. CASE k = 1
  BY <1>1, <1>2, ChainDecodesAt
<1>3. CASE k # 1
  <2>1. PICK s \in Seq(Frame) : s = stream.frames /\ Chain(s)
    BY <1>1 DEF ChainInv, Chain
  <2>2. k - 1 \in 1 .. Len(s)
    BY <1>3, <2>1
  <2>3. PICK p \in Frame : p = s[k - 1] /\ FrameOK(p)
    BY <2>1, <2>2 DEF Chain
  <2>4. Area(p) <= 511
    BY <1>1, <2>3 DEF FrameOK
  <2>5. p.own \in Nat /\ p.bytes \in Nat
    BY DEF Frame
  <2>6. Spare(p) <= 511
    BY <2>4, <2>5 DEF Spare, Area, HeaderBytes
  <2>7. Spare(stream.frames[k - 1]) <= 511
    BY <2>1, <2>3, <2>6
  <2>8. QED BY <1>1, <2>7, ChainDecodesAt
<1>4. QED BY <1>2, <1>3

\* However long the song, at every rate and for every content of its frames, a
\* decoder of the joined stream finds the data of the first frame, and of each
\* frame after one that left at most 511 bytes free, where the encoder wrote it.
\* Nothing is claimed of a frame after one that left more than a back pointer can
\* name (mp3enc_encode_frame, audio_encode_mp3).
THEOREM DecoderFindsData == Mp3Spec => []DecoderFindsMainData
<1>1. Mp3Init => ChainInv
  BY ChainStart
<1>2. ChainInv /\ [Mp3Next]_mp3Vars => ChainInv'
  BY ChainStep
<1>3. ChainInv => DecoderFindsMainData
  BY ChainDecodes
<1>4. QED BY <1>1, <1>2, <1>3, PTL DEF Mp3Spec

\* At bit rates up to 160 kbit/s, at 32 kHz up to 112, a decoder finds the data
\* of every frame where the encoder wrote it, whatever the frame before it left
\* free: what mp3enc.h says of its back pointers is true there
\* (mp3enc_encode_frame, audio_encode_mp3).
THEOREM SmallFramesDecode ==
    ASSUME SmallFrames
    PROVE  Mp3Spec => []BackpointerWorks
<1>1. Mp3Init => ChainInv
  BY ChainStart
<1>2. ChainInv /\ [Mp3Next]_mp3Vars => ChainInv'
  BY ChainStep
<1>3. ChainInv => BackpointerWorks
  BY SmallFramesDecodeAll
<1>4. QED BY <1>1, <1>2, <1>3, PTL DEF Mp3Spec

-----------------------------------------------------------------------------
(* Mp3Stream: what the frames of a run hold. *)

LEMMA HoldsOne ==
    ASSUME NEW f, NEW a \in Int, NEW n
    PROVE  Holds(<<f>>, a, n) <=> f.pcm = PcmOf(a, n)
<1>1. PICK s : s = <<f>> /\ Len(s) = 1 /\ s[1] = f
  <2>1. Len(<<f>>) = 1 /\ <<f>>[1] = f
    OBVIOUS
  <2>2. QED BY <2>1
<1>2. \A k \in 1 .. Len(s) : k = 1 /\ a + k - 1 = a
  BY <1>1
<1>3. 1 \in 1 .. Len(s)
  BY <1>1
<1>4. Holds(s, a, n) <=> s[1].pcm = PcmOf(a, n)
  BY <1>2, <1>3 DEF Holds
<1>5. QED BY <1>1, <1>4

LEMMA HoldsNone ==
    ASSUME NEW a, NEW n
    PROVE  Holds(<<>>, a, n)
<1>1. 1 .. Len(<<>>) = {}
  OBVIOUS
<1>2. QED BY <1>1 DEF Holds

LEMMA HoldsConcat ==
    ASSUME NEW r \in Seq(Frame), NEW s \in Seq(Frame), NEW a \in Int, NEW b \in Int, b = a + Len(r), NEW n
    PROVE  Holds(r \o s, a, n) <=> Holds(r, a, n) /\ Holds(s, b, n)
<1>1. PICK m \in Nat, l \in Nat : m = Len(r) /\ l = Len(s)
  OBVIOUS
<1>2. PICK q : q = r \o s
  OBVIOUS
<1>3. Len(q) = m + l /\ \A k \in 1 .. m + l : q[k] = IF k <= m THEN r[k] ELSE s[k - m]
  BY <1>1, <1>2, ConcatProperties
<1>4. \A k \in 1 .. m : q[k] = r[k] /\ k \in 1 .. m + l
  BY <1>3
<1>5. \A k \in 1 .. m + l : k > m => q[k] = s[k - m] /\ k - m \in 1 .. l /\ a + k - 1 = b + (k - m) - 1
  BY <1>1, <1>3
<1>6. ASSUME Holds(q, a, n)
      PROVE  Holds(r, a, n) /\ Holds(s, b, n)
  <2>1. \A k \in 1 .. m + l : q[k].pcm = PcmOf(a + k - 1, n)
    BY <1>3, <1>6 DEF Holds
  <2>2. \A k \in 1 .. m : r[k].pcm = PcmOf(a + k - 1, n)
    BY <1>4, <2>1
  <2>3. ASSUME NEW i \in 1 .. l
        PROVE  s[i].pcm = PcmOf(b + i - 1, n)
    <3>1. PICK k \in 1 .. m + l : k = i + m /\ k > m /\ k - m = i
      <4>1. i + m \in 1 .. m + l /\ i + m > m /\ (i + m) - m = i
        BY <1>1
      <4>2. QED BY <4>1
    <3>2. q[k] = s[i] /\ a + k - 1 = b + i - 1
      BY <1>5, <3>1
    <3>3. q[k].pcm = PcmOf(a + k - 1, n)
      BY <2>1
    <3>4. QED BY <3>2, <3>3
  <2>4. QED BY <1>1, <2>2, <2>3 DEF Holds
<1>7. ASSUME Holds(r, a, n), Holds(s, b, n)
      PROVE  Holds(q, a, n)
  <2>1. SUFFICES ASSUME NEW k \in 1 .. m + l PROVE q[k].pcm = PcmOf(a + k - 1, n)
    BY <1>3 DEF Holds
  <2>2. CASE k <= m
    <3>1. k \in 1 .. m
      BY <2>2
    <3>2. QED BY <1>1, <1>4, <1>7, <3>1 DEF Holds
  <2>3. CASE k > m
    <3>1. PICK i \in 1 .. l : i = k - m /\ q[k] = s[i] /\ a + k - 1 = b + i - 1
      BY <1>5, <2>3
    <3>2. s[i].pcm = PcmOf(b + i - 1, n)
      BY <1>1, <1>7 DEF Holds
    <3>3. QED BY <3>1, <3>2
  <2>4. QED BY <2>2, <2>3
<1>8. QED BY <1>2, <1>6, <1>7

\* The frames given out and the one held hold one block of samples more.
Ready(e, r, pcm, a, j, n) ==
    Holds(r \o e.pending, a, n) /\ a + Len(r) + Len(e.pending) = j /\ pcm = PcmOf(j, n)

Gave(s, r, a, j, n) ==
    /\ Holds((r \o s.out) \o s.enc.pending, a, n)
    /\ a + Len(r \o s.out) + Len(s.enc.pending) = j + 1

LEMMA EncodeFrameHolds ==
    ASSUME input \in Songs, NEW e, EncOK(e), NEW pcm \in Seq(Int), NEW c \in Contents,
           NEW r \in Seq(Frame), NEW a \in Nat, NEW j \in Nat, NEW n, Ready(e, r, pcm, a, j, n)
    PROVE  Gave(EncodeFrame(e, pcm, c), r, a, j, n)
<1>1. PICK s : s = EncodeFrame(e, pcm, c)
  OBVIOUS
<1>0. Holds(r \o e.pending, a, n) /\ a + Len(r) + Len(e.pending) = j /\ pcm = PcmOf(j, n)
  BY DEF Ready
<1>2. PICK f : f = NewFrame(e, pcm, c)
  OBVIOUS
<1>3. FrameOK(f) /\ f \in Frame /\ f.begin = Reservoir(e) /\ f.pcm = pcm
  <2>1. FrameOK(f) /\ f.begin = Reservoir(e) /\ f.pcm = pcm
    BY <1>2, NewFrameOK
  <2>2. QED BY <2>1 DEF FrameOK
<1>4. PICK p \in Seq(Frame) : p = s.enc.pending /\ p = <<f>> /\ Len(p) = 1
  <2>1. s.enc.pending = <<f>>
    <3>1. s.enc = [fill |-> <<>>, pad |-> PadRemainder(e), pending |-> <<f>>]
      BY <1>1, <1>2, EncodeFrameIs
    <3>2. QED BY <3>1
  <2>2. <<f>> \in Seq(Frame) /\ Len(<<f>>) = 1
    BY <1>3
  <2>3. QED BY <2>1, <2>2
<1>5. Holds(p, j, n)
  <2>1. j \in Int
    OBVIOUS
  <2>2. f.pcm = PcmOf(j, n)
    BY <1>0, <1>3
  <2>3. QED BY <1>4, <2>1, <2>2, HoldsOne
<1>6. PICK m \in Nat : m = Len(r)
  OBVIOUS
<1>7. PICK h \in Seq(Frame) : h = e.pending
  BY DEF EncOK, EncoderType
<1>8. PICK o \in Seq(Frame) : o = s.out /\ Len(o) = Len(h) /\ Holds(r \o o, a, n)
  <2>1. CASE h = <<>>
    <3>1. s.out = <<>>
      <4>1. e.pending = <<>>
        BY <1>7, <2>1
      <4>2. QED BY <1>1, <4>1, EncodeFrameIs
    <3>2. Holds(r \o h, a, n)
      BY <1>0, <1>7
    <3>3. QED BY <1>7, <2>1, <3>1, <3>2
  <2>2. CASE h # <<>>
    <3>1. PICK l : l = Lend(e, f)
      OBVIOUS
    <3>2. s.out = <<l>>
      BY <1>1, <1>2, <1>7, <2>2, <3>1, EncodeFrameIs
    <3>3. PICK u : u = h[1]
      OBVIOUS
    <3>4. h = <<u>>
      BY <1>7, <2>2, <3>3, ReservoirIs
    <3>5. FrameOK(l) /\ l.pcm = u.pcm
      BY <1>3, <1>7, <2>2, <3>1, <3>3, LendLinks
    <3>6. l \in Frame
      BY <3>5 DEF FrameOK
    <3>7. PICK b \in Int : b = a + m
      OBVIOUS
    <3>8. Holds(r, a, n) /\ Holds(h, b, n)
      <4>1. a \in Int
        OBVIOUS
      <4>2. Holds(r \o h, a, n)
        BY <1>0, <1>7
      <4>3. QED BY <1>6, <3>7, <4>1, <4>2, HoldsConcat
    <3>9. u.pcm = PcmOf(b, n)
      BY <3>4, <3>8, HoldsOne
    <3>10. PICK o \in Seq(Frame) : o = <<l>> /\ Len(o) = 1
      <4>1. <<l>> \in Seq(Frame) /\ Len(<<l>>) = 1
        BY <3>6
      <4>2. QED BY <4>1
    <3>11. Holds(o, b, n)
      BY <3>5, <3>9, <3>10, HoldsOne
    <3>12. Holds(r \o o, a, n)
      <4>1. a \in Int
        OBVIOUS
      <4>2. QED BY <1>6, <3>7, <3>8, <3>11, <4>1, HoldsConcat
    <3>13. Len(h) = 1
      BY <3>4
    <3>14. QED BY <3>2, <3>10, <3>12, <3>13
  <2>3. QED BY <2>1, <2>2
<1>9. PICK q \in Seq(Frame) : q = r \o o
  <2>1. r \o o \in Seq(Frame)
    OBVIOUS
  <2>2. QED BY <2>1
<1>10. Len(q) = m + Len(h)
  <2>1. Len(q) = Len(r) + Len(o)
    BY <1>9, ConcatProperties
  <2>2. QED BY <1>6, <1>8, <2>1
<1>11. a + Len(q) = j
  <2>1. PICK v \in Nat : v = Len(h)
    OBVIOUS
  <2>2. j = a + m + v
    BY <1>0, <1>6, <1>7, <2>1
  <2>3. PICK z \in Nat : z = Len(q)
    BY <1>9
  <2>4. z = m + v
    BY <1>10, <2>1, <2>3
  <2>5. j = a + z
    <3>1. \A x \in Nat, y \in Nat, b \in Nat : b + x + y = b + (x + y)
      OBVIOUS
    <3>2. a + m + v = a + (m + v)
      BY <1>6, <2>1, <3>1
    <3>3. QED BY <2>2, <2>4, <3>2, Zenon
  <2>6. QED BY <2>3, <2>5
<1>12. Holds(q \o p, a, n)
  <2>1. a \in Int /\ j \in Int
    OBVIOUS
  <2>2. QED BY <1>5, <1>8, <1>9, <1>11, <2>1, HoldsConcat
<1>13. a + Len(q) + Len(p) = j + 1
  BY <1>4, <1>11
<1>14. Gave(s, r, a, j, n)
  BY <1>4, <1>8, <1>9, <1>12, <1>13 DEF Gave
<1>15. QED BY <1>1, <1>14

Ramp(a, k) == [i \in 1 .. k |-> a + i - 1]

\* The samples of z are those from b on, and the next is at.
Runs(z, b, at) ==
    z \in Seq(Int) /\ b + Len(z) = at /\ \A x \in 1 .. Len(z) : z[x] = b + x - 1

LEMMA FillGrows ==
    ASSUME NEW fill, NEW b \in Int, NEW at \in Int, Runs(fill, b, at), NEW k \in Nat
    PROVE  Runs(fill \o Ramp(at, k), b, at + k)
<1>1. PICK u : u = Ramp(at, k)
  OBVIOUS
<1>2. u \in Seq(Int) /\ Len(u) = k /\ \A i \in 1 .. k : u[i] = at + i - 1
  <2>1. u = [i \in 1 .. k |-> at + i - 1]
    BY <1>1 DEF Ramp
  <2>2. u \in Seq(Int)
    BY <2>1, RampIs
  <2>3. u \in [1 .. k -> Int]
    BY <2>1
  <2>4. QED BY <2>1, <2>2, <2>3
<1>3. PICK l \in Nat : /\ fill \in Seq(Int) /\ l = Len(fill) /\ at = b + l
                       /\ \A x \in 1 .. l : fill[x] = b + x - 1
  BY DEF Runs
<1>4. PICK z : z = fill \o u
  OBVIOUS
<1>5. z \in Seq(Int) /\ Len(z) = l + k /\ \A x \in 1 .. l + k : z[x] = IF x <= l THEN fill[x] ELSE u[x - l]
  <2>1. /\ z \in Seq(Int) /\ Len(z) = Len(fill) + Len(u)
        /\ \A x \in 1 .. Len(fill) + Len(u) : z[x] = IF x <= Len(fill) THEN fill[x] ELSE u[x - Len(fill)]
    BY <1>2, <1>3, <1>4, ConcatProperties
  <2>2. QED BY <1>2, <1>3, <2>1
<1>6. ASSUME NEW x \in 1 .. l + k
      PROVE  z[x] = b + x - 1
  <2>1. CASE x <= l
    <3>1. x \in 1 .. l
      BY <1>3, <2>1
    <3>2. fill[x] = b + x - 1
      BY <1>3, <3>1
    <3>3. QED BY <1>5, <2>1, <3>2
  <2>2. CASE x > l
    <3>1. PICK i \in 1 .. k : i = x - l
      <4>1. x - l \in 1 .. k
        BY <1>3, <2>2
      <4>2. QED BY <4>1
    <3>2. z[x] = u[i]
      <4>1. ~(x <= l)
        BY <1>3, <2>2
      <4>2. z[x] = u[x - l]
        BY <1>5, <4>1
      <4>3. QED BY <3>1, <4>2
    <3>3. z[x] = at + i - 1
      BY <1>2, <3>2
    <3>4. at + i - 1 = b + x - 1
      BY <1>3, <3>1
    <3>5. QED BY <3>3, <3>4
  <2>3. x <= l \/ x > l
    BY <1>3
  <2>4. QED BY <2>1, <2>2, <2>3
<1>7. b + (l + k) = at + k
  BY <1>3
<1>8. Runs(z, b, at + k)
  BY <1>5, <1>6, <1>7 DEF Runs
<1>9. QED BY <1>1, <1>4, <1>8

\* A block of samples that begins frame j.
Block(z, j, n, l) ==
    /\ z \in Seq(Int) /\ Len(z) = FrameSamples /\ l \in 0 .. FrameSamples
    /\ \A x \in 1 .. l : z[x] = FrameSamples * j + x - 1
    /\ \A x \in 1 .. FrameSamples : x > l => z[x] = ZeroSample
    /\ FrameSamples * j + l <= n
    /\ l # FrameSamples => FrameSamples * j + l = n

LEMMA BlockIs ==
    ASSUME input \in Songs, NEW z, NEW j \in Nat, NEW n \in Nat, NEW l, Block(z, j, n, l)
    PROVE  z = PcmOf(j, n)
<1>0. /\ z \in Seq(Int) /\ Len(z) = FrameSamples /\ FrameSamples \in Nat /\ l \in 0 .. FrameSamples
      /\ \A x \in 1 .. l : z[x] = FrameSamples * j + x - 1
      /\ \A x \in 1 .. FrameSamples : x > l => z[x] = ZeroSample
      /\ FrameSamples * j + l <= n
      /\ l # FrameSamples => FrameSamples * j + l = n
  BY SongFacts DEF Block
<1>1. PICK b \in Int : b = FrameSamples * j
  BY <1>0
<1>2. PICK y : y = PcmOf(j, n)
  OBVIOUS
<1>3. y = [x \in 1 .. FrameSamples |-> IF b + x <= n THEN b + x - 1 ELSE ZeroSample]
  BY <1>1, <1>2 DEF PcmOf
<1>4. ASSUME NEW x \in 1 .. FrameSamples
      PROVE  z[x] = y[x]
  <2>1. y[x] = IF b + x <= n THEN b + x - 1 ELSE ZeroSample
    BY <1>3
  <2>2. CASE x <= l
    <3>1. z[x] = b + x - 1
      BY <1>0, <1>1, <2>2
    <3>2. b + x <= n
      BY <1>0, <1>1, <2>2
    <3>3. QED BY <2>1, <3>1, <3>2
  <2>3. CASE x > l
    <3>1. z[x] = ZeroSample
      BY <1>0, <2>3
    <3>2. ~(b + x <= n)
      BY <1>0, <1>1, <2>3
    <3>3. QED BY <2>1, <3>1, <3>2
  <2>4. QED BY <1>0, <2>2, <2>3
<1>5. z \in [1 .. FrameSamples -> Int]
  BY <1>0
<1>6. DOMAIN z = 1 .. FrameSamples /\ DOMAIN y = 1 .. FrameSamples
  BY <1>0, <1>3
<1>7. z = [x \in 1 .. FrameSamples |-> z[x]]
  BY <1>5
<1>8. z = y
  BY <1>3, <1>4, <1>6, <1>7
<1>9. QED BY <1>2, <1>8

\* One turn of the encoder loop: nothing is skipped, nothing taken twice.
LEMMA TurnHolds ==
    ASSUME input \in Songs, NEW e, EncOK(e), NEW r \in Seq(Frame), NEW at \in Int, NEW upto \in Int,
           NEW a \in Nat, NEW j \in Nat, NEW n \in Nat, Fed(r, e.pending, e.fill, at, a, j, n),
           at < upto, upto <= n, NEW c \in Contents
    PROVE  \E k \in Nat \ {0}, i \in Nat :
             LET s == Encode(e, at, k, c) IN
             /\ k = Least(upto - at, FrameSamples - Len(e.fill)) /\ at + k <= upto
             /\ Fed(r \o s.out, s.enc.pending, s.enc.fill, at + k, a, i, n)
<1>1. PICK F \in Nat \ {0} : F = FrameSamples
  BY SongFacts
<1>2. PICK fill \in Seq(Int) : fill = e.fill
  BY DEF EncOK, EncoderType
<1>3. PICK l \in Nat : l = Len(fill)
  OBVIOUS
<1>4. PICK b \in Int : b = F * j
  OBVIOUS
<1>5. at = b + l /\ l < F /\ (\A x \in 1 .. l : fill[x] = b + x - 1) /\ Holds(r \o e.pending, a, n)
  BY <1>1, <1>2, <1>3, <1>4 DEF Fed
<1>6. PICK k \in Nat \ {0} : k = Least(upto - at, F - l) /\ at + k <= upto /\ l + k <= F
  <2>1. /\ Least(upto - at, F - l) \in Nat \ {0} /\ at + Least(upto - at, F - l) <= upto
        /\ l + Least(upto - at, F - l) <= F
    BY <1>5 DEF Least
  <2>2. QED BY <2>1
<1>7. PICK z \in Seq(Int) : /\ z = fill \o [i \in 1 .. k |-> at + i - 1] /\ Len(z) = l + k
                            /\ \A x \in 1 .. l + k : z[x] = b + x - 1
  <2>1. k \in Nat /\ Runs(fill, b, at)
    BY <1>2, <1>3, <1>5, <1>6 DEF Runs
  <2>2. PICK z : z = fill \o Ramp(at, k)
    OBVIOUS
  <2>3. Runs(z, b, at + k)
    BY <1>4, <2>1, <2>2, FillGrows
  <2>4. z \in Seq(Int) /\ b + Len(z) = at + k /\ \A x \in 1 .. Len(z) : z[x] = b + x - 1
    BY <2>3 DEF Runs
  <2>5. Len(z) = l + k
    <3>1. PICK y \in Nat : y = Len(z)
      BY <2>4
    <3>2. b + y = b + l + k
      BY <1>5, <2>4, <3>1
    <3>3. y = l + k
      <4>1. \A d \in Int, p \in Nat, q \in Nat, s \in Nat : d + p = d + q + s => p = q + s
        OBVIOUS
      <4>2. y \in Nat /\ l \in Nat /\ k \in Nat /\ b \in Int
        BY <1>3, <1>4, <1>6, <3>1
      <4>3. QED BY <3>2, <4>1, <4>2
    <3>4. QED BY <3>1, <3>3
  <2>6. QED BY <2>2, <2>4, <2>5 DEF Ramp
<1>8. PICK g : g = [e EXCEPT !.fill = z]
  OBVIOUS
<1>9. EncOK(g) /\ g.pending = e.pending /\ g.fill = z
  <2>1. g \in EncoderType /\ g.pending = e.pending /\ g.fill = z
    BY <1>7, <1>8 DEF EncOK, EncoderType
  <2>2. QED BY <2>1 DEF EncOK
<1>10. PICK s : s = Encode(e, at, k, c)
  OBVIOUS
<1>11. s = IF Len(z) = F THEN EncodeFrame(g, z, c) ELSE [enc |-> g, out |-> <<>>]
  BY <1>1, <1>2, <1>7, <1>8, <1>10 DEF Encode
<1>12. a + Len(r) + Len(e.pending) = j
  BY DEF Fed
<1>13. k = Least(upto - at, FrameSamples - Len(e.fill))
  BY <1>1, <1>2, <1>3, <1>6
<1>14. CASE l + k = F
  <2>1. s = EncodeFrame(g, z, c)
    BY <1>7, <1>11, <1>14
  <2>2. b + F <= n
    <3>1. at = b + l /\ at + k <= upto
      BY <1>5, <1>6
    <3>2. QED BY <1>14, <3>1
  <2>3. z = PcmOf(j, n)
    <3>1. F \in 0 .. FrameSamples /\ FrameSamples \in Nat /\ Len(z) = FrameSamples
      <4>1. F \in 0 .. F /\ F \in Nat
        OBVIOUS
      <4>2. Len(z) = F
        BY <1>7, <1>14
      <4>3. QED BY <1>1, <4>1, <4>2
    <3>2. \A x \in 1 .. F : z[x] = FrameSamples * j + x - 1
      BY <1>1, <1>4, <1>7, <1>14
    <3>3. \A x \in 1 .. FrameSamples : ~(x > F)
      BY <1>1
    <3>4. FrameSamples * j + F <= n /\ ~(F # FrameSamples)
      BY <1>1, <1>4, <2>2
    <3>5. Block(z, j, n, F)
      BY <1>7, <3>1, <3>2, <3>3, <3>4 DEF Block
    <3>6. QED BY <3>5, BlockIs
  <2>4. PICK o \in Seq(Frame), q \in Seq(Frame) :
          /\ o = s.out /\ q = s.enc.pending
          /\ Holds((r \o o) \o q, a, n) /\ a + Len(r \o o) + Len(q) = j + 1
    <3>1. EncOK(s.enc) /\ s.out \in Seq(Frame)
      BY <1>9, <2>1, EncodeFrameKeeps
    <3>2. s.enc.pending \in Seq(Frame)
      BY <3>1 DEF EncOK, EncoderType
    <3>3. Holds((r \o s.out) \o s.enc.pending, a, n) /\ a + Len(r \o s.out) + Len(s.enc.pending) = j + 1
      <4>1. Ready(g, r, z, a, j, n)
        BY <1>5, <1>9, <1>12, <2>3 DEF Ready
      <4>2. Gave(s, r, a, j, n)
        BY <1>9, <2>1, <4>1, EncodeFrameHolds
      <4>3. QED BY <4>2 DEF Gave
    <3>4. QED BY <3>1, <3>2, <3>3
  <2>5. s.enc.fill = <<>>
    <3>1. s.enc = [fill |-> <<>>, pad |-> PadRemainder(g), pending |-> <<NewFrame(g, z, c)>>]
      BY <2>1, EncodeFrameIs
    <3>2. QED BY <3>1
  <2>6. PICK i \in Nat : i = j + 1
    OBVIOUS
  <2>7. PICK y \in Int : y = at + k
    OBVIOUS
  <2>8. y = FrameSamples * i + 0
    <3>1. F * i = F * j + F
      BY <2>6
    <3>2. y = b + F
      BY <1>5, <1>14, <2>7
    <3>3. QED BY <1>1, <1>4, <3>1, <3>2
  <2>9. Fed(r \o o, q, <<>>, y, a, i, n)
    <3>1. Len(<<>>) = 0 /\ 1 .. Len(<<>>) = {} /\ 0 < FrameSamples
      BY <1>1
    <3>2. QED BY <2>4, <2>6, <2>8, <3>1 DEF Fed
  <2>10. QED BY <1>6, <1>10, <1>13, <2>4, <2>5, <2>7, <2>9
<1>15. CASE l + k # F
  <2>1. s.enc = g /\ s.out = <<>>
    BY <1>7, <1>11, <1>15
  <2>2. r \o <<>> = r
    OBVIOUS
  <2>3. PICK y \in Int : y = at + k
    OBVIOUS
  <2>4. y = FrameSamples * j + Len(z) /\ Len(z) < FrameSamples
    <3>1. Len(z) < FrameSamples
      BY <1>1, <1>6, <1>7, <1>15, SMTT(30)
    <3>2. y = b + (l + k)
      BY <1>5, <2>3
    <3>3. QED BY <1>1, <1>4, <1>7, <3>1, <3>2
  <2>5. \A x \in 1 .. Len(z) : z[x] = FrameSamples * j + x - 1
    BY <1>1, <1>4, <1>7
  <2>6. Fed(r, e.pending, z, y, a, j, n)
    BY <1>5, <1>12, <2>4, <2>5 DEF Fed
  <2>7. QED BY <1>6, <1>9, <1>10, <1>13, <2>1, <2>2, <2>3, <2>6
<1>16. QED BY <1>14, <1>15

\* What the cut comes to for one thread.
LEMMA RangeCut ==
    ASSUME input \in Songs, NEW t \in Tid
    PROVE  Cut(RangeStart(t), RangeEnd(t), FramesBefore(t), FramesBefore(t + 1), input.samples)
<1>1. PICK F \in Nat \ {0}, n \in Nat : F = FrameSamples /\ n = input.samples
  BY SongFacts
<1>2. PICK d \in Nat \ {0}, l \in Nat \ {0} : d = Threads /\ l = TotalFrames /\ F * (l - 1) < n /\ n <= F * l
  BY <1>1, CutFacts
<1>3. t \in Nat /\ t < d
  BY <1>2, TidIs DEF Tid
<1>4. PICK s \in Nat : s = t + 1
  BY <1>3
<1>5. PICK a \in Nat, m \in Nat : a = FramesBefore(t) /\ m = FramesBefore(s) /\ a < m
  BY <1>3, <1>4, FramesBeforeFacts
<1>6. PICK lo \in Nat, hi \in Nat : lo = RangeStart(t) /\ hi = RangeEnd(t)
  BY <1>3, RangeIs
<1>7. lo = F * a
  BY <1>1, <1>5, <1>6 DEF RangeStart
<1>8. hi = IF s = d THEN n ELSE F * m
  <2>1. t = d - 1 <=> s = d
    BY <1>2, <1>3, <1>4
  <2>2. m * F = F * m
    BY <1>1, <1>5
  <2>3. QED BY <1>1, <1>2, <1>4, <1>5, <1>6, <2>1, <2>2 DEF RangeEnd
<1>9. PICK z \in Int, y \in Int : z = F * l /\ y = F * m /\ z - F < n /\ n <= z
  <2>1. F * (l - 1) = F * l - F
    BY <1>1, <1>2
  <2>2. F * l \in Int /\ F * m \in Int
    BY <1>1, <1>2, <1>5
  <2>3. QED BY <1>2, <2>1, <2>2
<1>10. hi <= n /\ hi <= y /\ y < hi + F /\ (hi # y => hi = n)
  <2>1. CASE s = d
    <3>1. m = l
      BY <1>2, <1>5, <2>1, FramesBeforeFacts
    <3>2. y = z /\ hi = n
      BY <1>8, <1>9, <2>1, <3>1
    <3>3. QED BY <1>1, <1>9, <3>2
  <2>2. CASE s # d
    <3>1. s < d
      BY <1>2, <1>3, <1>4, <2>2
    <3>2. m < l
      BY <1>2, <1>5, <3>1, FramesBeforeFacts
    <3>3. y + F <= z
      BY <1>1, <1>2, <1>5, <1>9, <3>2, Multiples
    <3>4. hi = y
      BY <1>8, <1>9, <2>2
    <3>5. QED BY <1>1, <1>9, <3>3, <3>4
  <2>3. QED BY <2>1, <2>2
<1>11. Cut(lo, hi, a, m, n)
  BY <1>1, <1>5, <1>6, <1>7, <1>9, <1>10 DEF Cut
<1>12. QED BY <1>1, <1>4, <1>5, <1>6, <1>11

LEMMA FramesAssociate ==
    ASSUME NEW r \in Seq(Frame), NEW o \in Seq(Frame), NEW q \in Seq(Frame)
    PROVE  (r \o o) \o q = r \o (o \o q)
BY ConcatAssociative

\* The end of a run: the started frame goes out padded, and the held one.
LEMMA FlushHolds ==
    ASSUME input \in Songs, NEW e, EncOK(e), NEW r \in Seq(Frame), NEW at \in Int,
           NEW lo, NEW a, NEW m, NEW n \in Nat, Cut(lo, at, a, m, n),
           NEW j \in Nat, Fed(r, e.pending, e.fill, at, a, j, n), NEW c \in Contents
    PROVE  Holds(r \o Flush(e, c).out, a, n) /\ a + Len(r \o Flush(e, c).out) = m
<1>1. PICK F \in Nat \ {0} : F = FrameSamples
  BY SongFacts
<1>2. PICK fill \in Seq(Int) : fill = e.fill
  BY DEF EncOK, EncoderType
<1>3. PICK l \in Nat : l = Len(fill)
  BY <1>2
<1>4. a \in Nat /\ m \in Nat
  BY DEF Cut
<1>5. PICK b \in Int, z \in Int : b = F * j /\ z = F * m
  BY <1>1, <1>4
<1>6. at <= n /\ at <= z /\ z < at + F /\ (at # z => at = n)
  BY <1>1, <1>5 DEF Cut
<1>7. at = b + l /\ l < F /\ (\A x \in 1 .. l : fill[x] = b + x - 1) /\ Holds(r \o e.pending, a, n)
      /\ a + Len(r) + Len(e.pending) = j
  BY <1>1, <1>2, <1>3, <1>5 DEF Fed
<1>8. PICK p \in Seq(Frame) : p = e.pending
  BY DEF EncOK, EncoderType
<1>9. CASE fill = <<>>
  <2>1. l = 0
    BY <1>3, <1>9
  <2>2. j = m
    <3>1. ~(j < m)
      <4>1. j < m => b + F <= z
        BY <1>1, <1>4, <1>5, Multiples
      <4>2. QED BY <1>1, <1>3, <1>5, <1>6, <1>7, <2>1, <4>1
    <3>2. ~(m < j)
      <4>1. m < j => z + F <= b
        BY <1>1, <1>4, <1>5, Multiples
      <4>2. QED BY <1>1, <1>3, <1>5, <1>6, <1>7, <2>1, <4>1
    <3>3. QED BY <1>4, <3>1, <3>2
  <2>3. Flush(e, c).out = <<>> \o p
    BY <1>2, <1>8, <1>9 DEF Flush
  <2>4. <<>> \o p = p
    BY <1>8
  <2>5. Len(r \o p) = Len(r) + Len(p)
    BY <1>8, ConcatProperties
  <2>6. PICK u \in Nat, v \in Nat : u = Len(r) /\ v = Len(p)
    BY <1>8
  <2>7. a + u + v = j /\ Len(r \o p) = u + v
    BY <1>7, <1>8, <2>5, <2>6
  <2>8. a + Len(r \o p) = m
    <3>1. \A x \in Nat, y \in Nat, w \in Nat : w + x + y = w + (x + y)
      OBVIOUS
    <3>2. a + u + v = a + (u + v)
      BY <1>4, <2>6, <3>1
    <3>3. QED BY <2>2, <2>7, <3>2, Zenon
  <2>9. QED BY <1>7, <1>8, <2>3, <2>4, <2>8
<1>10. CASE fill # <<>>
  <2>1. l > 0
    BY <1>2, <1>3, <1>10, EmptySeq
  <2>2. m = j + 1
    <3>1. PICK i \in Nat : i = j + 1
      OBVIOUS
    <3>2. F * i = b + F
      BY <1>1, <1>5, <3>1
    <3>3. ~(m < i)
      <4>1. m < i => z + F <= b + F
        BY <1>1, <1>4, <1>5, <3>2, Multiples
      <4>2. QED BY <1>1, <1>3, <1>5, <1>6, <1>7, <2>1, <4>1
    <3>4. ~(i < m)
      <4>1. i < m => b + F + F <= z
        BY <1>1, <1>4, <1>5, <3>2, Multiples
      <4>2. QED BY <1>1, <1>3, <1>5, <1>6, <1>7, <4>1
    <3>5. m = i
      BY <1>4, <3>1, <3>3, <3>4
    <3>6. QED BY <3>1, <3>5
  <2>3. at = n
    <3>1. z = b + F
      BY <1>1, <1>5, <2>2
    <3>2. at # z
      BY <1>1, <1>3, <1>5, <1>7, <3>1
    <3>3. QED BY <1>6, <3>2
  <2>4. PICK zeros : zeros = [i \in 1 .. F - l |-> ZeroSample]
    OBVIOUS
  <2>5. zeros \in Seq(Int) /\ Len(zeros) = F - l /\ \A i \in 1 .. F - l : zeros[i] = ZeroSample
    <3>1. PICK k \in Nat : k = F - l
      <4>1. F - l \in Nat
        BY <1>1, <1>3, <1>7
      <4>2. QED BY <4>1
    <3>2. zeros = [i \in 1 .. k |-> ZeroSample] /\ ZeroSample \in Int
      BY <2>4, <3>1 DEF ZeroSample
    <3>3. zeros \in [1 .. k -> Int] /\ \A i \in 1 .. k : zeros[i] = ZeroSample
      BY <3>2
    <3>4. zeros \in Seq(Int) /\ Len(zeros) = k
      <4>1. \A h \in Nat : \A f \in [1 .. h -> Int] : f \in Seq(Int) /\ Len(f) = h
        OBVIOUS
      <4>2. QED BY <3>1, <3>3, <4>1
    <3>5. QED BY <3>1, <3>3, <3>4
  <2>6. PICK padded : padded = fill \o zeros
    OBVIOUS
  <2>7. /\ padded \in Seq(Int) /\ Len(padded) = Len(fill) + Len(zeros)
        /\ \A x \in 1 .. Len(fill) + Len(zeros) :
             padded[x] = IF x <= Len(fill) THEN fill[x] ELSE zeros[x - Len(fill)]
    <3>1. fill \in Seq(Int) /\ zeros \in Seq(Int)
      BY <1>2, <2>5
    <3>2. QED BY <2>6, <3>1, ConcatProperties
  <2>8. Len(padded) = F
    <3>1. Len(padded) = l + (F - l)
      BY <1>3, <2>5, <2>7
    <3>2. QED BY <1>1, <1>3, <3>1
  <2>9. \A x \in 1 .. F : padded[x] = IF x <= l THEN fill[x] ELSE zeros[x - l]
    <3>1. Len(fill) + Len(zeros) = F
      BY <2>7, <2>8
    <3>2. QED BY <1>3, <2>7, <3>1
  <2>10. padded = PcmOf(j, n)
    <3>1. \A x \in 1 .. l : padded[x] = FrameSamples * j + x - 1
      BY <1>1, <1>3, <1>5, <1>7, <2>9
    <3>2. ASSUME NEW x \in 1 .. FrameSamples, x > l
          PROVE  padded[x] = ZeroSample
      <4>1. x - l \in 1 .. F - l /\ ~(x <= l)
        BY <1>1, <1>3, <1>7, <3>2
      <4>2. padded[x] = zeros[x - l]
        BY <1>1, <2>9, <4>1
      <4>3. QED BY <2>5, <4>1, <4>2
    <3>3. l \in 0 .. FrameSamples /\ FrameSamples \in Nat /\ Len(padded) = FrameSamples
      BY <1>1, <1>3, <1>7, <2>8
    <3>4. FrameSamples * j + l = n /\ FrameSamples * j + l <= n
      <4>1. b + l = n
        BY <1>7, <2>3
      <4>2. QED BY <1>1, <1>5, <4>1
    <3>5. Block(padded, j, n, l)
      BY <2>7, <3>1, <3>2, <3>3, <3>4 DEF Block
    <3>6. QED BY <1>3, <3>5, BlockIs
  <2>11. PICK s : s = EncodeFrame(e, padded, c)
    OBVIOUS
  <2>12. Flush(e, c).out = s.out \o s.enc.pending
    BY <1>1, <1>2, <1>3, <1>10, <2>4, <2>6, <2>11 DEF Flush
  <2>13. Gave(s, r, a, j, n)
    <3>1. Ready(e, r, padded, a, j, n)
      BY <1>7, <2>10 DEF Ready
    <3>2. QED BY <1>4, <2>7, <2>11, <3>1, EncodeFrameHolds
  <2>14. PICK o \in Seq(Frame), q \in Seq(Frame) : o = s.out /\ q = s.enc.pending
    <3>1. s.out \in Seq(Frame) /\ EncOK(s.enc)
      BY <2>7, <2>11, EncodeFrameKeeps
    <3>2. QED BY <3>1 DEF EncOK, EncoderType
  <2>15. (r \o o) \o q = r \o (o \o q)
    BY <2>14, FramesAssociate, ZenonT(30)
  <2>16. PICK x \in Seq(Frame) : x = r \o o
    <3>1. r \o o \in Seq(Frame)
      BY <2>14
    <3>2. QED BY <3>1
  <2>17. Len(x \o q) = Len(x) + Len(q)
    BY <2>14, <2>16, ConcatProperties
  <2>18. Holds(x \o q, a, n) /\ a + Len(x) + Len(q) = j + 1
    BY <2>13, <2>14, <2>16 DEF Gave
  <2>19. PICK u \in Nat, v \in Nat : u = Len(x) /\ v = Len(q)
    BY <2>14, <2>16
  <2>20. a + Len(x \o q) = m
    <3>1. \A y \in Nat, k \in Nat, w \in Nat : w + y + k = w + (y + k)
      OBVIOUS
    <3>2. a + u + v = a + (u + v)
      BY <1>4, <2>19, <3>1
    <3>3. a + u + v = m /\ Len(x \o q) = u + v
      BY <2>2, <2>17, <2>18, <2>19
    <3>4. QED BY <3>2, <3>3, Zenon
  <2>21. QED BY <2>12, <2>14, <2>15, <2>16, <2>18, <2>20
<1>11. QED BY <1>9, <1>10

-----------------------------------------------------------------------------
(* Mp3Stream: every step of a run takes the samples that follow. *)

LEMMA SongStaysToo ==
    ASSUME UNCHANGED input, NEW t
    PROVE  RunProgress(t, workers[t])' = RunProgress(t, workers'[t])
<1>1. /\ TotalFrames' = TotalFrames /\ Threads' = Threads /\ RangeStart(t)' = RangeStart(t)
      /\ RangeEnd(t)' = RangeEnd(t) /\ FramesBefore(t)' = FramesBefore(t)
  BY SongStays
<1>2. FramesBefore(t + 1)' = FramesBefore(t + 1)
  BY <1>1 DEF FramesBefore
<1>3. input.samples' = input.samples
  OBVIOUS
<1>4. QED BY <1>1, <1>2, <1>3 DEF RunProgress

LEMMA OneRunHolds ==
    ASSUME ChainInv, SampleInv, NEW t \in Tid, NEW w, workers' = [workers EXCEPT ![t] = w],
           UNCHANGED <<input, stream, cancel>>, oom' \in BOOLEAN, oom => oom',
           ~cancel /\ ~oom' => RunProgress(t, w)
    PROVE  SampleInv'
<1>1. cancel \in BOOLEAN /\ oom \in BOOLEAN /\ DOMAIN workers = Tid
  BY DEF ChainInv
<1>2. Tid' = Tid /\ TotalFrames' = TotalFrames
  BY SongStays
<1>3. ASSUME ~cancel', ~oom'
      PROVE  /\ \A u \in Tid' : RunProgress(u, workers[u])'
             /\ (stream.done => Len(stream.frames) = TotalFrames /\ Holds(stream.frames, 0, input.samples))'
  <2>1. ~cancel /\ ~oom
    BY <1>1, <1>3
  <2>2. /\ \A u \in Tid : RunProgress(u, workers[u])
        /\ stream.done => Len(stream.frames) = TotalFrames /\ Holds(stream.frames, 0, input.samples)
    BY <2>1 DEF SampleInv
  <2>3. ASSUME NEW u \in Tid
        PROVE  RunProgress(u, workers[u])'
    <3>1. RunProgress(u, workers'[u])
      <4>1. CASE u = t
        <5>1. workers'[u] = w
          BY <1>1, <4>1
        <5>2. RunProgress(t, w)
          BY <2>1, <1>3
        <5>3. QED BY <4>1, <5>1, <5>2
      <4>2. CASE u # t
        <5>1. workers'[u] = workers[u]
          BY <1>1, <4>2
        <5>2. QED BY <2>2, <5>1
      <4>3. QED BY <4>1, <4>2
    <3>2. QED BY <3>1, SongStaysToo
  <2>4. QED BY <1>2, <2>2, <2>3
<1>4. (stream.done /\ cancel => stream.frames = <<>>)'
  BY DEF SampleInv
<1>5. QED BY <1>3, <1>4 DEF SampleInv

\* What is known of a run that neither a cancel nor a failure has disturbed.
LEMMA RunKnown ==
    ASSUME ChainInv, SampleInv, ~cancel, ~oom, NEW t \in Tid, NEW w, w = workers[t]
    PROVE  \E lo \in Nat, hi \in Nat, a \in Nat, m \in Nat, n \in Nat :
             /\ n = input.samples /\ Cut(lo, hi, a, m, n) /\ RunOK(w) /\ Progress(w, lo, hi, a, m, n)
             /\ lo = RangeStart(t) /\ hi = RangeEnd(t)
             /\ \A x : RunProgress(t, x) <=> Progress(x, lo, hi, a, m, n)
<1>1. input \in Songs /\ RunOK(w)
  BY DEF ChainInv
<1>2. PICK n \in Nat : n = input.samples
  BY <1>1, SongFacts
<1>3. PICK s : s = t + 1
  OBVIOUS
<1>4. PICK lo, hi : lo = RangeStart(t) /\ hi = RangeEnd(t)
  OBVIOUS
<1>5. PICK a, m : a = FramesBefore(t) /\ m = FramesBefore(s)
  OBVIOUS
<1>6. Cut(lo, hi, a, m, n)
  <2>1. Cut(RangeStart(t), RangeEnd(t), FramesBefore(t), FramesBefore(t + 1), input.samples)
    BY <1>1, RangeCut
  <2>2. QED BY <1>2, <1>3, <1>4, <1>5, <2>1
<1>7. a \in Nat /\ m \in Nat /\ hi \in Nat
  BY <1>6 DEF Cut
<1>8. lo \in Nat
  <2>1. t \in Nat
    BY <1>1, TidIs
  <2>2. QED BY <1>1, <1>4, <2>1, RangeIs
<1>9. \A x : RunProgress(t, x) <=> Progress(x, lo, hi, a, m, n)
  BY <1>2, <1>3, <1>4, <1>5 DEF RunProgress
<1>10. RunProgress(t, w)
  BY DEF SampleInv
<1>11. QED BY <1>1, <1>2, <1>4, <1>6, <1>7, <1>8, <1>9, <1>10

\* A run that has just been primed, or needed no priming, is in step.
LEMMA FreshInStep ==
    ASSUME input \in Songs, NEW r, r = <<>>, NEW p, p = <<>>, NEW fill, fill = <<>>,
           NEW a \in Nat, NEW at, at = FrameSamples * a, NEW n
    PROVE  Fed(r, p, fill, at, a, a, n)
<1>1. FrameSamples \in Nat \ {0}
  BY SongFacts
<1>2. Len(<<>>) = 0 /\ <<>> \o <<>> = <<>> /\ 1 .. Len(<<>>) = {}
  OBVIOUS
<1>3. Holds(<<>>, a, n)
  BY HoldsNone
<1>4. a + Len(<<>>) + Len(<<>>) = a
  BY <1>2
<1>5. FrameSamples * a = FrameSamples * a + Len(<<>>) /\ Len(<<>>) < FrameSamples
  BY <1>1, <1>2
<1>6. QED BY <1>2, <1>3, <1>4, <1>5 DEF Fed

LEMMA StartRunHolds ==
    ASSUME ChainInv, SampleInv, NEW t \in Tid, StartRun(t)
    PROVE  SampleInv'
<1>1. UNCHANGED <<input, stream, cancel, oom>>
  BY DEF StartRun
<1>2. oom' \in BOOLEAN
  BY <1>1 DEF ChainInv
<1>3. PICK w : w = workers[t] /\ RunOK(w) /\ w.pc = "start" /\ w.enc = NewEncoder /\ w.result = <<>>
  BY DEF ChainInv, RunOK, StartRun
<1>4. PICK d \in Nat : d = WarmFrames(t)
  <2>1. t \in Nat
    BY TidIs DEF ChainInv
  <2>2. QED BY <2>1, RangeIs DEF ChainInv
<1>5. PICK x : /\ workers' = [workers EXCEPT ![t] = x]
               /\ x = IF RangeEnd(t) <= RangeStart(t) THEN [w EXCEPT !.pc = "done"]
                      ELSE IF t > 0 /\ RangeStart(t) > 0
                      THEN [w EXCEPT !.pc = "warm", !.at = RangeStart(t) - d * FrameSamples,
                                     !.upto = RangeStart(t)]
                      ELSE [w EXCEPT !.pc = "poll", !.at = RangeStart(t), !.upto = RangeStart(t)]
  BY <1>3, <1>4 DEF StartRun
<1>6. ASSUME ~cancel, ~oom
      PROVE  RunProgress(t, x)
  <2>1. PICK lo \in Nat, hi \in Nat, a \in Nat, m \in Nat, n \in Nat :
             /\ n = input.samples /\ Cut(lo, hi, a, m, n)
             /\ lo = RangeStart(t) /\ hi = RangeEnd(t)
             /\ \A y : RunProgress(t, y) <=> Progress(y, lo, hi, a, m, n)
    BY <1>3, <1>6, RunKnown
  <2>2. input \in Songs
    BY DEF ChainInv
  <2>3. PICK F \in Nat \ {0} : F = FrameSamples
    BY <2>2, SongFacts
  <2>4. lo = F * a /\ lo < hi
    <3>1. F * a + F <= F * m
      BY <2>3, Multiples, <2>1 DEF Cut
    <3>2. PICK y \in Int, z \in Int : y = F * a /\ z = F * m
      OBVIOUS
    <3>3. lo = y /\ z < hi + F
      BY <2>1, <2>3, <3>2 DEF Cut
    <3>4. QED BY <2>3, <3>1, <3>2, <3>3
  <2>5. PICK v \in Int : v = lo - F * d /\ v = RangeStart(t) - d * FrameSamples
    <3>1. F * d \in Int /\ d * F = F * d
      BY <2>3
    <3>2. QED BY <2>1, <2>3, <3>1
  <2>6. CASE t > 0 /\ RangeStart(t) > 0
    <3>1. x = [w EXCEPT !.pc = "warm", !.at = v, !.upto = lo]
      <4>1. ~(RangeEnd(t) <= RangeStart(t))
        BY <2>1, <2>4
      <4>2. x = [w EXCEPT !.pc = "warm", !.at = RangeStart(t) - d * FrameSamples, !.upto = RangeStart(t)]
        BY <1>5, <2>6, <4>1, Zenon
      <4>3. QED BY <2>1, <2>5, <4>2, Zenon
    <3>2. w \in RunType
      BY <1>3, RunIs
    <3>3. x.pc = "warm" /\ x.at = v /\ x.upto = lo /\ x.enc = NewEncoder
      BY <1>3, <3>1, <3>2 DEF RunType
    <3>4. Progress(x, lo, hi, a, m, n)
      BY <1>4, <2>3, <2>5, <3>3, NewEncoderOK DEF Progress
    <3>5. QED BY <2>1, <3>4
  <2>7. CASE ~(t > 0 /\ RangeStart(t) > 0)
    <3>1. x = [w EXCEPT !.pc = "poll", !.at = lo, !.upto = lo]
      BY <1>5, <2>1, <2>4, <2>7
    <3>2. w \in RunType
      BY <1>3, RunIs
    <3>3. x.pc = "poll" /\ x.at = lo /\ x.upto = lo /\ x.enc = NewEncoder /\ x.result = <<>>
      BY <1>3, <3>1, <3>2 DEF RunType
    <3>4. Fed(x.result, x.enc.pending, x.enc.fill, x.at, a, a, n)
      <4>1. x.enc.pending = <<>> /\ x.enc.fill = <<>>
        BY <3>3, NewEncoderOK
      <4>2. x.at = FrameSamples * a
        BY <2>3, <2>4, <3>3
      <4>3. QED BY <2>2, <3>3, <4>1, <4>2, FreshInStep
    <3>5. Progress(x, lo, hi, a, m, n)
      BY <2>4, <3>3, <3>4 DEF Progress, InStep
    <3>6. QED BY <2>1, <3>5
  <2>8. QED BY <2>6, <2>7
<1>7. QED BY <1>1, <1>2, <1>5, <1>6, OneRunHolds

\* An encoder that holds no samples takes a whole frame in a turn.
LEMMA WholeTurn ==
    ASSUME input \in Songs, NEW e, e.fill = <<>>, NEW at \in Int, NEW c
    PROVE  Encode(e, at, FrameSamples, c).enc.fill = <<>>
<1>1. PICK F \in Nat \ {0} : F = FrameSamples
  BY SongFacts
<1>2. PICK z : z = <<>> \o [i \in 1 .. F |-> at + i - 1]
  OBVIOUS
<1>3. Len(z) = F
  <2>1. PICK u : u = [i \in 1 .. F |-> at + i - 1]
    OBVIOUS
  <2>2. F \in Nat /\ u \in [1 .. F -> Int]
    BY <2>1
  <2>3. u \in Seq(Int) /\ Len(u) = F
    <3>1. \A h \in Nat : \A f \in [1 .. h -> Int] : f \in Seq(Int) /\ Len(f) = h
      OBVIOUS
    <3>2. QED BY <2>2, <3>1
  <2>4. z = u
    BY <1>2, <2>1, <2>3
  <2>5. QED BY <2>3, <2>4
<1>4. PICK g : g = [e EXCEPT !.fill = z]
  OBVIOUS
<1>5. Encode(e, at, FrameSamples, c) = EncodeFrame(g, z, c)
  BY <1>1, <1>2, <1>3, <1>4 DEF Encode
<1>6. EncodeFrame(g, z, c).enc = [fill |-> <<>>, pad |-> PadRemainder(g), pending |-> <<NewFrame(g, z, c)>>]
  BY EncodeFrameIs
<1>7. QED BY <1>5, <1>6

LEMMA WarmHolds ==
    ASSUME ChainInv, SampleInv, NEW t \in Tid, Warm(t)
    PROVE  SampleInv'
<1>1. UNCHANGED <<input, stream, cancel, oom>>
  BY DEF Warm
<1>2. oom' \in BOOLEAN
  BY <1>1 DEF ChainInv
<1>3. PICK w : w = workers[t] /\ RunOK(w) /\ w.pc = "warm" /\ w.result = <<>> /\ EncOK(w.enc)
  BY DEF ChainInv, RunOK, Warm
<1>4. w \in RunType /\ w.enc \in EncoderType
  BY <1>3 DEF RunOK, EncOK
<1>5c. PICK c \in Contents : \E x :
        /\ workers' = [workers EXCEPT ![t] = x]
        /\ x = IF w.at < w.upto
               THEN [w EXCEPT !.enc = Encode(w.enc, w.at, Take(w), c).enc, !.at = @ + Take(w)]
               ELSE [w EXCEPT !.enc = Flush(w.enc, c).enc, !.pc = "poll"]
  BY <1>3 DEF Warm
<1>5. PICK x :
        /\ workers' = [workers EXCEPT ![t] = x]
        /\ x = IF w.at < w.upto
               THEN [w EXCEPT !.enc = Encode(w.enc, w.at, Take(w), c).enc, !.at = @ + Take(w)]
               ELSE [w EXCEPT !.enc = Flush(w.enc, c).enc, !.pc = "poll"]
  BY <1>5c
<1>6. input \in Songs
  BY DEF ChainInv
<1>7. PICK F \in Nat \ {0} : F = FrameSamples
  BY <1>6, SongFacts
<1>8. ASSUME ~cancel, ~oom
      PROVE  RunProgress(t, x)
  <2>1. PICK lo \in Nat, hi \in Nat, a \in Nat, m \in Nat, n \in Nat :
             /\ Cut(lo, hi, a, m, n) /\ Progress(w, lo, hi, a, m, n)
             /\ \A y : RunProgress(t, y) <=> Progress(y, lo, hi, a, m, n)
    BY <1>3, <1>8, RunKnown, SMTT(30)
  <2>2. w.enc.fill = <<>> /\ w.upto = lo
    BY <1>3, <2>1 DEF Progress
  <2>3. PICK d \in Nat : w.at = lo - FrameSamples * d
    BY <1>3, <2>1 DEF Progress
  <2>4. PICK at \in Int, z \in Int : at = w.at /\ z = F * d /\ at = lo - z
    <3>1. F * d \in Int
      BY <1>7
    <3>2. QED BY <1>7, <2>3, <3>1
  <2>5. CASE w.at < w.upto
    <3>1. PICK f \in Nat : f = d - 1
      <4>1. d # 0
        <5>1. z > 0
          BY <2>2, <2>4, <2>5
        <5>2. d = 0 => z = 0
          BY <1>7, <2>4
        <5>3. QED BY <5>1, <5>2
      <4>2. d - 1 \in Nat
        BY <4>1
      <4>3. QED BY <4>2
    <3>2. z = F * f + F /\ F * f >= 0 /\ F * f \in Int
      <4>1. d = f + 1
        BY <3>1
      <4>2. F * (f + 1) = F * f + F /\ F * f >= 0 /\ F * f \in Int
        BY <1>7
      <4>3. QED BY <2>4, <4>1, <4>2
    <3>3. Take(w) = F
      <4>1. Len(w.enc.fill) = 0
        BY <2>2
      <4>2. Take(w) = Least(lo - at, F - 0)
        BY <1>7, <2>2, <2>4, <4>1 DEF Take
      <4>3. PICK y \in Int : y = F * f
        BY <3>2
      <4>4. lo - at = y + F /\ y >= 0
        BY <2>4, <3>2, <4>3
      <4>5. Least(lo - at, F - 0) = F
        BY <1>7, <4>3, <4>4 DEF Least
      <4>6. QED BY <4>2, <4>5
    <3>4. PICK e : e = Encode(w.enc, at, F, c).enc
      OBVIOUS
    <3>5. e.fill = <<>>
      <4>1. PICK g : g = w.enc
        OBVIOUS
      <4>2. Encode(g, at, FrameSamples, c).enc.fill = <<>>
        BY <1>6, <2>2, <4>1, WholeTurn
      <4>3. QED BY <1>7, <3>4, <4>1, <4>2
    <3>6. PICK v \in Int : v = at + F
      BY <1>7
    <3>7. x = [w EXCEPT !.enc = e, !.at = v]
      BY <1>5, <2>4, <2>5, <3>3, <3>4, <3>6
    <3>8. x.enc = e /\ x.at = v /\ x.pc = "warm" /\ x.upto = lo
      BY <1>3, <1>4, <2>2, <3>7 DEF RunType
    <3>9. v = lo - FrameSamples * f
      <4>1. PICK y \in Int : y = F * f
        BY <3>2
      <4>2. v = lo - y
        BY <1>7, <2>4, <3>2, <3>6, <4>1
      <4>3. QED BY <1>7, <4>1, <4>2
    <3>10. Progress(x, lo, hi, a, m, n)
      BY <3>1, <3>5, <3>8, <3>9 DEF Progress
    <3>11. QED BY <2>1, <3>10
  <2>6. CASE ~(w.at < w.upto)
    <3>1. z >= 0
      BY <1>7, <2>4
    <3>2. w.at = lo
      BY <2>2, <2>4, <2>6, <3>1
    <3>3. PICK e : e = Flush(w.enc, c).enc
      OBVIOUS
    <3>4. e.fill = <<>> /\ e.pending = <<>>
      <4>1. PICK g : g = w.enc
        OBVIOUS
      <4>2. g \in EncoderType /\ g.fill = <<>>
        BY <1>4, <2>2, <4>1
      <4>3. e = [g EXCEPT !.pending = <<>>]
        BY <3>3, <4>1, <4>2 DEF Flush
      <4>4. QED BY <4>2, <4>3 DEF EncoderType
    <3>5. x = [w EXCEPT !.enc = e, !.pc = "poll"]
      BY <1>5, <2>6, <3>3
    <3>6. x.enc = e /\ x.at = lo /\ x.pc = "poll" /\ x.upto = lo /\ x.result = <<>>
      BY <1>3, <1>4, <2>2, <3>2, <3>5 DEF RunType
    <3>7. lo = FrameSamples * a /\ lo <= hi
      <4>1. F * a + F <= F * m
        BY <1>7, Multiples, <2>1 DEF Cut
      <4>2. PICK y \in Int, u \in Int : y = F * a /\ u = F * m
        OBVIOUS
      <4>3. lo = y /\ u < hi + F
        BY <1>7, <2>1, <4>2 DEF Cut
      <4>4. QED BY <1>7, <4>1, <4>2, <4>3
    <3>8. Fed(x.result, x.enc.pending, x.enc.fill, x.at, a, a, n)
      <4>1. x.enc.pending = <<>> /\ x.enc.fill = <<>> /\ x.at = FrameSamples * a
        BY <3>4, <3>6, <3>7
      <4>2. QED BY <1>6, <3>6, <4>1, FreshInStep
    <3>9. Progress(x, lo, hi, a, m, n)
      BY <3>6, <3>7, <3>8 DEF Progress, InStep
    <3>10. QED BY <2>1, <3>9
  <2>7. QED BY <2>5, <2>6
<1>9. QED BY <1>1, <1>2, <1>5, <1>8, OneRunHolds

LEMMA PollCancelHolds ==
    ASSUME ChainInv, SampleInv, NEW t \in Tid, PollCancel(t)
    PROVE  SampleInv'
<1>1. UNCHANGED <<input, stream, cancel, oom>>
  BY DEF PollCancel
<1>2. oom' \in BOOLEAN
  BY <1>1 DEF ChainInv
<1>3. PICK w : w = workers[t] /\ RunOK(w) /\ w.pc = "poll"
  BY DEF ChainInv, PollCancel
<1>4. w \in RunType /\ w.upto \in Int
  BY <1>3, RunIs
<1>5. PICK x : /\ workers' = [workers EXCEPT ![t] = x]
               /\ x = IF w.upto >= RangeEnd(t) \/ cancel THEN [w EXCEPT !.pc = "flush"]
                      ELSE [w EXCEPT !.pc = "feed", !.upto = Least(w.upto + Second, RangeEnd(t))]
  BY <1>3 DEF PollCancel
<1>6. input \in Songs /\ Second \in Nat \ {0}
  BY SongFacts DEF ChainInv
<1>7. ASSUME ~cancel, ~oom
      PROVE  RunProgress(t, x)
  <2>1. PICK lo \in Nat, hi \in Nat, a \in Nat, m \in Nat, n \in Nat :
             /\ Progress(w, lo, hi, a, m, n) /\ hi = RangeEnd(t)
             /\ \A y : RunProgress(t, y) <=> Progress(y, lo, hi, a, m, n)
    BY <1>3, <1>7, RunKnown
  <2>2. InStep(w, a, n) /\ w.at = w.upto /\ w.upto <= hi
    BY <1>3, <2>1 DEF Progress
  <2>3. PICK u \in Int : u = w.upto /\ u <= hi
    BY <1>4, <2>2
  <2>4. CASE u >= hi
    <3>1. x = [w EXCEPT !.pc = "flush"]
      BY <1>5, <2>1, <2>3, <2>4
    <3>2. x.pc = "flush" /\ x.upto = w.upto /\ x.at = w.at /\ x.enc = w.enc /\ x.result = w.result
      BY <1>4, <3>1 DEF RunType
    <3>3. w.upto = hi
      BY <2>3, <2>4
    <3>4. InStep(x, a, n)
      BY <2>2, <3>2 DEF InStep
    <3>5. Progress(x, lo, hi, a, m, n)
      BY <2>2, <3>2, <3>3, <3>4 DEF Progress
    <3>6. QED BY <2>1, <3>5
  <2>5. CASE u < hi
    <3>1. PICK v \in Int : v = Least(u + Second, hi) /\ v <= hi /\ u < v
      <4>1. Least(u + Second, hi) \in Int /\ Least(u + Second, hi) <= hi /\ u < Least(u + Second, hi)
        BY <1>6, <2>5 DEF Least
      <4>2. QED BY <4>1
    <3>2. x = [w EXCEPT !.pc = "feed", !.upto = v]
      <4>1. ~(w.upto >= RangeEnd(t) \/ cancel)
        BY <1>7, <2>1, <2>3, <2>5
      <4>2. QED BY <1>5, <2>1, <2>3, <3>1, <4>1
    <3>3. x.pc = "feed" /\ x.upto = v /\ x.at = w.at /\ x.enc = w.enc /\ x.result = w.result
      BY <1>4, <3>1, <3>2 DEF RunType
    <3>4. InStep(x, a, n)
      BY <2>2, <3>3 DEF InStep
    <3>5. Progress(x, lo, hi, a, m, n)
      BY <2>2, <2>3, <3>1, <3>3, <3>4 DEF Progress
    <3>6. QED BY <2>1, <3>5
  <2>6. QED BY <2>3, <2>4, <2>5
<1>8. QED BY <1>1, <1>2, <1>5, <1>7, OneRunHolds

LEMMA BufferFailsHolds ==
    ASSUME ChainInv, SampleInv, NEW t \in Tid, BufferFails(t)
    PROVE  SampleInv'
<1>1. UNCHANGED <<input, stream, cancel>> /\ oom' = TRUE
  BY DEF BufferFails
<1>2. PICK w : w = [workers[t] EXCEPT !.pc = "flush"]
  OBVIOUS
<1>3. workers' = [workers EXCEPT ![t] = w]
  BY <1>2 DEF BufferFails
<1>4. QED BY <1>1, <1>3, OneRunHolds

LEMMA FeedSamplesHolds ==
    ASSUME ChainInv, SampleInv, NEW t \in Tid, FeedSamples(t)
    PROVE  SampleInv'
<1>1. UNCHANGED <<input, stream, cancel, oom>>
  BY DEF FeedSamples
<1>2. oom' \in BOOLEAN
  BY <1>1 DEF ChainInv
<1>3. PICK w : w = workers[t] /\ RunOK(w) /\ w.pc = "feed"
  BY DEF ChainInv, FeedSamples
<1>4. w \in RunType /\ EncOK(w.enc) /\ w.upto \in Int /\ w.at \in Int /\ w.result \in Seq(Frame)
  BY <1>3, RunIs
<1>5. input \in Songs
  BY DEF ChainInv
<1>6. PICK at \in Int, upto \in Int, r \in Seq(Frame) : at = w.at /\ upto = w.upto /\ r = w.result
  BY <1>4
<1>7. PICK e : e = w.enc /\ EncOK(e)
  BY <1>4
<1>8c. PICK c \in Contents : \E x :
        /\ workers' = [workers EXCEPT ![t] = x]
         /\ x = [w EXCEPT !.enc = Encode(e, at, Take(w), c).enc, !.at = @ + Take(w),
                          !.result = @ \o Encode(e, at, Take(w), c).out,
                          !.pc = IF w.at + Take(w) = w.upto THEN "poll" ELSE "feed"]
  BY <1>3, <1>6, <1>7 DEF FeedSamples
<1>8. PICK x :
        /\ workers' = [workers EXCEPT ![t] = x]
         /\ x = [w EXCEPT !.enc = Encode(e, at, Take(w), c).enc, !.at = @ + Take(w),
                          !.result = @ \o Encode(e, at, Take(w), c).out,
                          !.pc = IF w.at + Take(w) = w.upto THEN "poll" ELSE "feed"]
  BY <1>8c
<1>9. ASSUME ~cancel, ~oom
      PROVE  RunProgress(t, x)
  <2>1. PICK lo \in Nat, hi \in Nat, a \in Nat, m \in Nat, n \in Nat :
             /\ Cut(lo, hi, a, m, n) /\ Progress(w, lo, hi, a, m, n)
             /\ \A y : RunProgress(t, y) <=> Progress(y, lo, hi, a, m, n)
    BY <1>3, <1>9, RunKnown, SMTT(30)
  <2>2. InStep(w, a, n) /\ at < upto /\ upto <= hi
    BY <1>3, <1>6, <2>1 DEF Progress
  <2>3. hi <= n
    BY <2>1 DEF Cut
  <2>4. PICK j \in Nat : Fed(r, e.pending, e.fill, at, a, j, n)
    BY <1>6, <1>7, <2>2 DEF InStep
  <2>5. upto <= n
    BY <2>2, <2>3
  <2>6. PICK k \in Nat \ {0}, i \in Nat :
             LET s == Encode(e, at, k, c) IN
             /\ k = Least(upto - at, FrameSamples - Len(e.fill)) /\ at + k <= upto
             /\ Fed(r \o s.out, s.enc.pending, s.enc.fill, at + k, a, i, n)
    BY <1>5, <1>7, <2>2, <2>4, <2>5, TurnHolds
  <2>7. Take(w) = k
    BY <1>6, <1>7, <2>6 DEF Take
  <2>8. PICK g, o : g = Encode(e, at, k, c).enc /\ o = Encode(e, at, k, c).out
    OBVIOUS
  <2>9. PICK v \in Int : v = at + k
    OBVIOUS
  <2>10. PICK pc : pc = IF v = upto THEN "poll" ELSE "feed"
    OBVIOUS
  <2>11. x = [w EXCEPT !.enc = g, !.at = v, !.result = r \o o, !.pc = pc]
    BY <1>6, <1>8, <2>7, <2>8, <2>9, <2>10
  <2>12. x.enc = g /\ x.at = v /\ x.result = r \o o /\ x.pc = pc /\ x.upto = upto
    BY <1>4, <1>6, <2>11 DEF RunType
  <2>13. Fed(r \o o, g.pending, g.fill, v, a, i, n) /\ v <= upto
    BY <2>6, <2>8, <2>9
  <2>14. InStep(x, a, n)
    BY <2>12, <2>13 DEF InStep
  <2>15. Progress(x, lo, hi, a, m, n)
    <3>1. CASE v = upto
      BY <2>2, <2>10, <2>12, <2>14, <3>1 DEF Progress
    <3>2. CASE v # upto
      <4>1. v < upto
        BY <2>13, <3>2
      <4>2. QED BY <2>2, <2>10, <2>12, <2>14, <3>2, <4>1 DEF Progress
    <3>3. QED BY <3>1, <3>2
  <2>16. QED BY <2>1, <2>15
<1>10. QED BY <1>1, <1>2, <1>8, <1>9, OneRunHolds

LEMMA FlushRunHolds ==
    ASSUME ChainInv, SampleInv, NEW t \in Tid, FlushRun(t)
    PROVE  SampleInv'
<1>1. UNCHANGED <<input, stream, cancel, oom>>
  BY DEF FlushRun
<1>2. oom' \in BOOLEAN
  BY <1>1 DEF ChainInv
<1>3. PICK w : w = workers[t] /\ RunOK(w) /\ w.pc = "flush"
  BY DEF ChainInv, FlushRun
<1>4. w \in RunType /\ EncOK(w.enc) /\ w.at \in Int /\ w.result \in Seq(Frame)
  BY <1>3, RunIs
<1>5. input \in Songs
  BY DEF ChainInv
<1>6. PICK at \in Int, r \in Seq(Frame) : at = w.at /\ r = w.result
  BY <1>4
<1>7. PICK e : e = w.enc /\ EncOK(e)
  BY <1>4
<1>8c. PICK c \in Contents : \E x :
        /\ workers' = [workers EXCEPT ![t] = x]
         /\ x = [w EXCEPT !.result = @ \o Flush(e, c).out, !.enc = NewEncoder, !.pc = "done"]
  BY <1>3, <1>7 DEF FlushRun
<1>8. PICK x :
        /\ workers' = [workers EXCEPT ![t] = x]
         /\ x = [w EXCEPT !.result = @ \o Flush(e, c).out, !.enc = NewEncoder, !.pc = "done"]
  BY <1>8c
<1>9. ASSUME ~cancel, ~oom
      PROVE  RunProgress(t, x)
  <2>1. PICK lo \in Nat, hi \in Nat, a \in Nat, m \in Nat, n \in Nat :
             /\ Cut(lo, hi, a, m, n) /\ Progress(w, lo, hi, a, m, n)
             /\ \A y : RunProgress(t, y) <=> Progress(y, lo, hi, a, m, n)
    BY <1>3, <1>9, RunKnown, SMTT(30)
  <2>2. InStep(w, a, n) /\ at = hi
    BY <1>3, <1>6, <2>1 DEF Progress
  <2>3. PICK j \in Nat : Fed(r, e.pending, e.fill, at, a, j, n)
    BY <1>6, <1>7, <2>2 DEF InStep
  <2>4. PICK o : o = Flush(e, c).out
    OBVIOUS
  <2>5. Holds(r \o o, a, n) /\ a + Len(r \o o) = m
    <3>1. Cut(lo, at, a, m, n)
      BY <2>1, <2>2
    <3>2. QED BY <1>5, <1>7, <2>3, <2>4, <3>1, FlushHolds
  <2>6. x = [w EXCEPT !.result = r \o o, !.enc = NewEncoder, !.pc = "done"]
    BY <1>6, <1>8, <2>4
  <2>7. x.pc = "done" /\ x.result = r \o o
    BY <1>4, <2>6 DEF RunType
  <2>8. Progress(x, lo, hi, a, m, n)
    BY <2>5, <2>7 DEF Progress
  <2>9. QED BY <2>1, <2>8
<1>10. QED BY <1>1, <1>2, <1>8, <1>9, OneRunHolds

LEMMA DoneRun ==
    ASSUME ChainInv, SampleInv, ~cancel, ~oom, NEW t \in Tid, workers[t].pc = "done"
    PROVE  /\ Holds(workers[t].result, FramesBefore(t), input.samples)
           /\ FramesBefore(t) + Len(workers[t].result) = FramesBefore(t + 1)
<1>1. RunProgress(t, workers[t])
  BY DEF SampleInv
<1>2. PICK m : m = FramesBefore(t + 1)
  OBVIOUS
<1>3. Progress(workers[t], RangeStart(t), RangeEnd(t), FramesBefore(t), m, input.samples)
  BY <1>1, <1>2 DEF RunProgress
<1>4. QED BY <1>2, <1>3 DEF Progress

\* The runs of all threads, joined, are the frames of the song.
LEMMA RunsJoined ==
    ASSUME ChainInv, SampleInv, ~cancel, ~oom, \A t \in Tid : workers[t].pc = "done",
           NEW s, s = [i \in 1 .. Threads |-> workers[i - 1].result]
    PROVE  Len(FlattenSeq(s)) = TotalFrames /\ Holds(FlattenSeq(s), 0, input.samples)
<1>1. PICK n : n = input.samples
  OBVIOUS
<1>2. PICK d \in Nat \ {0} : d = Threads
  BY CutFacts DEF ChainInv
<1>3. s \in Seq(Seq(Frame)) /\ Len(s) = d /\ Len(s) > 0
  BY <1>2, ResultsAre
<1>4. PICK g \in [1 .. Len(s) -> Seq(Frame)] : JoinedAs(g, s)
  BY <1>3, FlattenIs
<1>5. /\ g \in [1 .. d -> Seq(Frame)] /\ g[1] = s[1] /\ FlattenSeq(s) = g[d]
      /\ \A i \in 1 .. d, j \in 1 .. d : j = i - 1 => g[i] = g[j] \o s[i]
  BY <1>3, <1>4 DEF JoinedAs
<1>6. ASSUME NEW i \in 1 .. d, NEW j \in Nat, j = i - 1
      PROVE  /\ s[i] \in Seq(Frame) /\ Holds(s[i], FramesBefore(j), n)
             /\ FramesBefore(j) + Len(s[i]) = FramesBefore(i)
  <2>1. j \in Tid
    BY <1>2, <1>6 DEF Tid
  <2>2. s[i] = workers[j].result
    BY <1>2, <1>6, <2>1, ResultsAre
  <2>3. /\ Holds(workers[j].result, FramesBefore(j), n)
        /\ FramesBefore(j) + Len(workers[j].result) = FramesBefore(j + 1)
    BY <1>1, <2>1, DoneRun
  <2>4. i = j + 1
    BY <1>6
  <2>5. workers[j].result \in Seq(Frame)
    BY <2>1, RunIs DEF ChainInv
  <2>6. QED BY <2>2, <2>3, <2>4, <2>5
<1>7. FramesBefore(0) = 0 /\ FramesBefore(d) = TotalFrames /\ \A i \in Nat : FramesBefore(i) \in Nat
  BY <1>2, FramesBeforeFacts DEF ChainInv
<1> DEFINE Bad == {k \in 1 .. d : ~(Len(g[k]) = FramesBefore(k) /\ Holds(g[k], 0, n))}
<1>8. Bad = {}
  <2>1. SUFFICES ASSUME Bad # {} PROVE FALSE
    OBVIOUS
  <2>2. PICK k \in Bad : \A x \in Bad : k <= x
    <3>1. Bad \subseteq Nat
      OBVIOUS
    <3> HIDE DEF Bad
    <3>2. QED BY <2>1, <3>1, LeastElement
  <2>3. k \in 1 .. d /\ ~(Len(g[k]) = FramesBefore(k) /\ Holds(g[k], 0, n))
    BY <2>2
  <2>4. PICK j \in Nat : j = k - 1
    BY <2>3
  <2>5. PICK q \in Seq(Frame) : q = s[k] /\ Holds(q, FramesBefore(j), n) /\ FramesBefore(j) + Len(q) = FramesBefore(k)
    BY <1>6, <2>3, <2>4
  <2>6. CASE j = 0
    <3>1. k = 1
      BY <2>3, <2>4, <2>6
    <3>2. g[k] = q
      BY <1>5, <2>5, <3>1
    <3>3. Holds(q, 0, n) /\ Len(q) = FramesBefore(k)
      <4>1. FramesBefore(j) = 0
        BY <1>7, <2>6
      <4>2. PICK x \in Nat : x = Len(q)
        OBVIOUS
      <4>3. 0 + x = FramesBefore(k) /\ Holds(q, 0, n)
        BY <2>5, <4>1, <4>2
      <4>4. 0 + x = x
        BY <4>2
      <4>5. QED BY <4>2, <4>3, <4>4
    <3>4. QED BY <2>3, <3>2, <3>3
  <2>7. CASE j # 0
    <3>1. j \in 1 .. d /\ j < k
      BY <2>3, <2>4, <2>7
    <3>2. j \notin Bad
      <4>1. SUFFICES ASSUME j \in Bad PROVE FALSE
        OBVIOUS
      <4>2. k <= j
        BY <2>2, <4>1
      <4>3. QED BY <2>3, <3>1, <4>2
    <3>3. PICK h \in Seq(Frame) : h = g[j] /\ Len(h) = FramesBefore(j) /\ Holds(h, 0, n)
      BY <1>5, <3>1, <3>2
    <3>4. g[k] = h \o q
      BY <1>5, <2>3, <2>4, <2>5, <3>1, <3>3
    <3>5. PICK b \in Nat : b = FramesBefore(j)
      BY <1>7
    <3>6. Holds(h \o q, 0, n)
      <4>1. 0 \in Int /\ b \in Int /\ b = 0 + Len(h)
        BY <3>3, <3>5
      <4>2. Holds(q, b, n)
        BY <2>5, <3>5
      <4>3. QED BY <3>3, <4>1, <4>2, HoldsConcat
    <3>7. Len(h \o q) = FramesBefore(k)
      <4>1. Len(h \o q) = Len(h) + Len(q)
        BY ConcatProperties
      <4>2. QED BY <2>5, <3>3, <4>1
    <3>8. QED BY <2>3, <3>4, <3>6, <3>7
  <2>8. QED BY <2>6, <2>7
<1>9. d \in 1 .. d
  OBVIOUS
<1>10. Len(g[d]) = FramesBefore(d) /\ Holds(g[d], 0, n)
  BY <1>8, <1>9
<1>11. QED BY <1>1, <1>5, <1>7, <1>10

LEMMA JoinHolds ==
    ASSUME ChainInv, SampleInv, Join
    PROVE  SampleInv'
<1>1. UNCHANGED <<input, workers, cancel, oom>> /\ \A t \in Tid : workers[t].pc = "done"
  BY DEF Join
<1>2. PICK s : s = [i \in 1 .. Threads |-> workers[i - 1].result]
  OBVIOUS
<1>3. stream' = [done |-> TRUE, frames |-> IF cancel THEN <<>> ELSE FlattenSeq(s)]
  BY <1>2 DEF Join
<1>4. cancel \in BOOLEAN /\ oom \in BOOLEAN
  BY DEF ChainInv
<1>5. Tid' = Tid /\ TotalFrames' = TotalFrames
  BY <1>1, SongStays
<1>6. ASSUME ~cancel, ~oom
      PROVE  /\ \A t \in Tid : RunProgress(t, workers[t])'
             /\ Len(stream'.frames) = TotalFrames /\ Holds(stream'.frames, 0, input.samples)
  <2>1. Len(FlattenSeq(s)) = TotalFrames /\ Holds(FlattenSeq(s), 0, input.samples)
    BY <1>1, <1>2, <1>6, RunsJoined
  <2>2. stream'.frames = FlattenSeq(s)
    BY <1>3, <1>6
  <2>3. \A t \in Tid : RunProgress(t, workers[t])
    BY <1>6 DEF SampleInv
  <2>4. ASSUME NEW t \in Tid PROVE RunProgress(t, workers[t])'
    <3>1. RunProgress(t, workers'[t])
      BY <1>1, <2>3
    <3>2. QED BY <1>1, <3>1, SongStaysToo
  <2>5. QED BY <2>1, <2>2, <2>4
<1>7. cancel => stream'.frames = <<>>
  BY <1>3
<1>8. QED BY <1>1, <1>5, <1>6, <1>7 DEF SampleInv

LEMMA SampleStart == Mp3Init => SampleInv
<1> SUFFICES ASSUME Mp3Init PROVE SampleInv
  OBVIOUS
<1>1. /\ workers = [t \in Tid |-> Worker] /\ stream.done = FALSE
  BY DEF Mp3Init
<1>2. Worker.pc = "start"
  BY DEF Worker
<1>3. ASSUME NEW t \in Tid PROVE RunProgress(t, workers[t])
  <2>1. PICK w : w = workers[t] /\ w.pc = "start"
    BY <1>1, <1>2
  <2>2. QED BY <2>1 DEF RunProgress, Progress
<1>4. QED BY <1>1, <1>3 DEF SampleInv

LEMMA SampleStep == ChainInv /\ SampleInv /\ [Mp3Next]_mp3Vars => SampleInv'
<1> SUFFICES ASSUME ChainInv, SampleInv, [Mp3Next]_mp3Vars PROVE SampleInv'
  OBVIOUS
<1>1. CASE UNCHANGED mp3Vars
  <2>1. UNCHANGED <<input, workers, cancel, oom, stream>>
    BY <1>1 DEF mp3Vars
  <2>2. Tid' = Tid /\ TotalFrames' = TotalFrames
    BY <2>1, SongStays
  <2>3. ASSUME NEW t \in Tid, RunProgress(t, workers[t]) PROVE RunProgress(t, workers[t])'
    <3>1. RunProgress(t, workers'[t])
      BY <2>1, <2>3
    <3>2. QED BY <2>1, <3>1, SongStaysToo
  <2>4. QED BY <2>1, <2>2, <2>3 DEF SampleInv
<1>2. CASE AskCancel
  <2>1. cancel' = TRUE /\ stream' = stream /\ ~stream.done
    BY <1>2 DEF AskCancel
  <2>2. QED BY <2>1 DEF SampleInv
<1>3. CASE Join
  BY <1>3, JoinHolds
<1>4. ASSUME NEW t \in Tid, StartRun(t) PROVE SampleInv'
  BY <1>4, StartRunHolds
<1>5. ASSUME NEW t \in Tid, Warm(t) PROVE SampleInv'
  BY <1>5, WarmHolds
<1>6. ASSUME NEW t \in Tid, PollCancel(t) PROVE SampleInv'
  BY <1>6, PollCancelHolds
<1>7. ASSUME NEW t \in Tid, BufferFails(t) PROVE SampleInv'
  BY <1>7, BufferFailsHolds
<1>8. ASSUME NEW t \in Tid, FeedSamples(t) PROVE SampleInv'
  BY <1>8, FeedSamplesHolds
<1>9. ASSUME NEW t \in Tid, FlushRun(t) PROVE SampleInv'
  BY <1>9, FlushRunHolds
<1>10. QED BY <1>1, <1>2, <1>3, <1>4, <1>5, <1>6, <1>7, <1>8, <1>9 DEF Mp3Next

\* The samples of the first k frames, end to end.
PcmUpTo(k, n) ==
    [i \in 1 .. FrameSamples * k |-> IF i <= n THEN i - 1 ELSE ZeroSample]

LEMMA PcmGrows ==
    ASSUME input \in Songs, NEW n \in Nat, NEW j \in Nat, NEW k \in Nat, k = j + 1
    PROVE  /\ PcmOf(j, n) \in Seq(Int) /\ PcmUpTo(j, n) \in Seq(Int)
           /\ PcmUpTo(j, n) \o PcmOf(j, n) = PcmUpTo(k, n)
<1>1. PICK F \in Nat \ {0} : F = FrameSamples
  BY SongFacts
<1>2. PICK b \in Nat, c \in Nat : b = F * j /\ c = F * k /\ c = b + F
  <2>1. F * j \in Nat /\ F * k = F * j + F
    BY <1>1
  <2>2. QED BY <1>1, <2>1
<1>3. PICK p, u, v : p = PcmOf(j, n) /\ u = PcmUpTo(j, n) /\ v = PcmUpTo(k, n)
  OBVIOUS
<1>4. ZeroSample \in Int
  BY DEF ZeroSample
<1>5. p = [x \in 1 .. F |-> IF b + x <= n THEN b + x - 1 ELSE ZeroSample]
  BY <1>1, <1>2, <1>3 DEF PcmOf
<1>6. u = [x \in 1 .. b |-> IF x <= n THEN x - 1 ELSE ZeroSample]
  BY <1>1, <1>2, <1>3 DEF PcmUpTo
<1>7. v = [x \in 1 .. c |-> IF x <= n THEN x - 1 ELSE ZeroSample]
  BY <1>1, <1>2, <1>3 DEF PcmUpTo
<1>8. F \in Nat /\ p \in [1 .. F -> Int] /\ u \in [1 .. b -> Int] /\ v \in [1 .. c -> Int]
  BY <1>1, <1>2, <1>4, <1>5, <1>6, <1>7
<1>9. \A h \in Nat : \A f \in [1 .. h -> Int] : f \in Seq(Int) /\ Len(f) = h
  OBVIOUS
<1>10. p \in Seq(Int) /\ Len(p) = F /\ u \in Seq(Int) /\ Len(u) = b /\ v \in Seq(Int) /\ Len(v) = c
  BY <1>2, <1>8, <1>9
<1>11. PICK q : q = u \o p
  OBVIOUS
<1>12. /\ q \in Seq(Int) /\ Len(q) = Len(u) + Len(p)
       /\ \A x \in 1 .. Len(u) + Len(p) : q[x] = IF x <= Len(u) THEN u[x] ELSE p[x - Len(u)]
  BY <1>10, <1>11, ConcatProperties
<1>13. q \in Seq(Int) /\ Len(q) = c /\ \A x \in 1 .. c : q[x] = IF x <= b THEN u[x] ELSE p[x - b]
  BY <1>2, <1>10, <1>12
<1>14. ASSUME NEW x \in 1 .. c
       PROVE  q[x] = v[x]
  <2>1. v[x] = IF x <= n THEN x - 1 ELSE ZeroSample
    BY <1>7
  <2>2. CASE x <= b
    <3>1. x \in 1 .. b
      BY <1>2, <2>2
    <3>2. q[x] = u[x] /\ u[x] = IF x <= n THEN x - 1 ELSE ZeroSample
      BY <1>6, <1>13, <2>2, <3>1
    <3>3. QED BY <2>1, <3>2
  <2>3. CASE ~(x <= b)
    <3>1. PICK y \in 1 .. F : y = x - b
      <4>1. x - b \in 1 .. F
        BY <1>1, <1>2, <2>3
      <4>2. QED BY <4>1
    <3>2. q[x] = p[y]
      BY <1>13, <2>3, <3>1
    <3>3. p[y] = IF b + y <= n THEN b + y - 1 ELSE ZeroSample
      BY <1>5
    <3>4. b + y = x
      BY <1>2, <3>1
    <3>5. QED BY <2>1, <3>2, <3>3, <3>4
  <2>4. QED BY <2>2, <2>3
<1>15. q \in [1 .. c -> Int]
  BY <1>13
<1>16. q = v
  BY <1>8, <1>14, <1>15
<1>17. QED BY <1>3, <1>10, <1>11, <1>16

LEMMA SamplesJoined ==
    ASSUME input \in Songs, NEW n \in Nat, NEW d \in Nat \ {0}, NEW s,
           s = [k \in 1 .. d |-> PcmOf(k - 1, n)]
    PROVE  FlattenSeq(s) = PcmUpTo(d, n)
<1>1. \A k \in 1 .. d, j \in Nat : j = k - 1 => s[k] = PcmOf(j, n) /\ k = j + 1 /\ k \in Nat
  OBVIOUS
<1>2. ASSUME NEW k \in 1 .. d
      PROVE  s[k] \in Seq(Int)
  <2>1. PICK j \in Nat : j = k - 1
    OBVIOUS
  <2>2. s[k] = PcmOf(j, n) /\ k = j + 1 /\ k \in Nat
    BY <1>1, <2>1
  <2>3. QED BY <2>2, PcmGrows
<1>3. s \in Seq(Seq(Int)) /\ Len(s) = d /\ Len(s) > 0
  <2>1. s \in [1 .. d -> Seq(Int)] /\ d \in Nat
    BY <1>2
  <2>2. s \in Seq(Seq(Int)) /\ Len(s) = d
    BY <2>1
  <2>3. QED BY <2>2
<1>4. PICK g \in [1 .. Len(s) -> Seq(Int)] : JoinedAs(g, s)
  BY <1>3, FlattenIs
<1>5. /\ g[1] = s[1] /\ FlattenSeq(s) = g[d]
      /\ \A i \in 1 .. d, j \in 1 .. d : j = i - 1 => g[i] = g[j] \o s[i]
  BY <1>3, <1>4 DEF JoinedAs
<1> DEFINE Bad == {k \in 1 .. d : g[k] # PcmUpTo(k, n)}
<1>6. Bad = {}
  <2>1. SUFFICES ASSUME Bad # {} PROVE FALSE
    OBVIOUS
  <2>2. PICK k \in Bad : \A x \in Bad : k <= x
    <3>1. Bad \subseteq Nat
      OBVIOUS
    <3> HIDE DEF Bad
    <3>2. QED BY <2>1, <3>1, LeastElement
  <2>3. k \in 1 .. d /\ g[k] # PcmUpTo(k, n)
    BY <2>2
  <2>4. PICK j \in Nat : j = k - 1
    BY <2>3
  <2>5. s[k] = PcmOf(j, n) /\ k = j + 1 /\ k \in Nat
    BY <1>1, <2>3, <2>4
  <2>6. PcmUpTo(j, n) \o s[k] = PcmUpTo(k, n) /\ s[k] \in Seq(Int)
    BY <2>5, PcmGrows
  <2>7. CASE j = 0
    <3>1. g[k] = s[k]
      BY <1>5, <2>5, <2>7
    <3>2. PcmUpTo(0, n) = <<>>
      <4>1. FrameSamples * 0 = 0
        BY SongFacts
      <4>2. 1 .. FrameSamples * 0 = {}
        BY <4>1
      <4>3. PcmUpTo(0, n) = [i \in {} |-> IF i <= n THEN i - 1 ELSE ZeroSample]
        BY <4>2 DEF PcmUpTo
      <4>4. QED BY <4>3
    <3>3. <<>> \o s[k] = s[k]
      BY <2>6
    <3>4. QED BY <2>3, <2>6, <2>7, <3>1, <3>2, <3>3
  <2>8. CASE j # 0
    <3>1. j \in 1 .. d /\ j < k
      BY <2>3, <2>4, <2>8
    <3>2. j \notin Bad
      <4>1. SUFFICES ASSUME j \in Bad PROVE FALSE
        OBVIOUS
      <4>2. k <= j
        BY <2>2, <4>1
      <4>3. QED BY <2>3, <3>1, <4>2
    <3>3. g[j] = PcmUpTo(j, n)
      BY <3>1, <3>2
    <3>4. g[k] = g[j] \o s[k]
      BY <1>5, <2>3, <2>4, <3>1
    <3>5. QED BY <2>3, <2>6, <3>3, <3>4
  <2>9. QED BY <2>7, <2>8
<1>7. d \in 1 .. d
  OBVIOUS
<1>8. g[d] = PcmUpTo(d, n)
  BY <1>6, <1>7
<1>9. QED BY <1>5, <1>8

LEMMA AllSamplesOnce == ChainInv /\ SampleInv => EverySampleOnce
<1> SUFFICES ASSUME ChainInv, SampleInv, stream.done, ~oom
             PROVE  \/ cancel /\ stream.frames = <<>>
                    \/ FlattenSeq([k \in 1 .. Len(stream.frames) |-> stream.frames[k].pcm]) =
                         [i \in 1 .. TotalFrames * FrameSamples |->
                            IF i <= input.samples THEN i - 1 ELSE ZeroSample]
  BY DEF EverySampleOnce
<1>1. CASE cancel
  BY <1>1 DEF SampleInv
<1>2. CASE ~cancel
  <2>1. input \in Songs
    BY DEF ChainInv
  <2>2. PICK n \in Nat, d \in Nat \ {0}, F \in Nat \ {0} : n = input.samples /\ d = TotalFrames /\ F = FrameSamples
    BY <2>1, SongFacts, CutFacts
  <2>3. PICK f : f = stream.frames
    OBVIOUS
  <2>4. Len(f) = d /\ Holds(f, 0, n)
    BY <1>2, <2>2, <2>3 DEF SampleInv
  <2>5. ASSUME NEW k \in 1 .. d PROVE f[k].pcm = PcmOf(k - 1, n)
    <3>1. f[k].pcm = PcmOf(0 + k - 1, n)
      BY <2>4 DEF Holds
    <3>2. 0 + k - 1 = k - 1
      OBVIOUS
    <3>3. QED BY <3>1, <3>2
  <2>6. PICK s : s = [k \in 1 .. d |-> PcmOf(k - 1, n)]
    OBVIOUS
  <2>7. [k \in 1 .. Len(f) |-> f[k].pcm] = s
    BY <2>4, <2>5, <2>6
  <2>8. FlattenSeq(s) = PcmUpTo(d, n)
    BY <2>1, <2>6, SamplesJoined
  <2>9. F * d = d * F
    OBVIOUS
  <2>10. PcmUpTo(d, n) = [i \in 1 .. d * F |-> IF i <= n THEN i - 1 ELSE ZeroSample]
    BY <2>2, <2>9 DEF PcmUpTo
  <2>11. QED BY <2>2, <2>3, <2>7, <2>8, <2>10
<1>3. QED BY <1>1, <1>2

\* However the threads interleave, for every song and number of cores: a stream
\* that is returned holds every sample of the song once and in order, and an encode
\* that was cancelled returns none.  Encodes in which an allocation failed are
\* excepted (audio_encode_mp3, mp3enc_encode, mp3enc_flush).
THEOREM SamplesComeOnce == Mp3Spec => []EverySampleOnce
<1>1. Mp3Init => ChainInv /\ SampleInv
  BY ChainStart, SampleStart
<1>2. ChainInv /\ SampleInv /\ [Mp3Next]_mp3Vars => ChainInv' /\ SampleInv'
  BY ChainStep, SampleStep
<1>3. ChainInv /\ SampleInv => EverySampleOnce
  BY AllSamplesOnce
<1>4. QED BY <1>1, <1>2, <1>3, PTL DEF Mp3Spec

-----------------------------------------------------------------------------
(* Mp3Quant: the binary search. *)

\* What the search has still to try, lo .. hi, and the gain it would settle on.
Ranges == (0 .. 277) \X (-1 .. 255) \X (0 .. 255)

Middle(r) == (r[1] + r[2]) \div 2

Narrowed(level, budget, r) ==
    IF Affordable(level, budget, Middle(r)) THEN <<r[1], Middle(r) - 1, Middle(r)>>
    ELSE <<Middle(r) + 1, r[2], r[3]>>

\* The gain at hand is affordable, or the range still ends with 255.
Promising(level, budget, r) == Affordable(level, budget, r[3]) \/ (r[1] <= 255 /\ r[2] = 255)

\* A search is a function of the range that agrees with itself on the narrowed one.
Settles(level, budget, f, n) ==
    \A r \in Ranges : r[2] - r[1] < n =>
        f[r] = IF r[1] > r[2] THEN r[3] ELSE f[Narrowed(level, budget, r)]

\* Trying the middle leaves a smaller range, and does not spoil it.
LEMMA NarrowedRange ==
    ASSUME NEW level \in Int, NEW budget \in Nat, NEW r \in Ranges, r[1] <= r[2]
    PROVE  LET s == Narrowed(level, budget, r)
           IN  /\ s \in Ranges /\ s[2] - s[1] < r[2] - r[1]
               /\ Affordable(level, budget, 255) /\ Promising(level, budget, r) =>
                      Promising(level, budget, s)
<1>1. PICK lo \in 0 .. 277, hi \in -1 .. 255, d \in 0 .. 255 : r = <<lo, hi, d>>
  <2>1. r[1] \in 0 .. 277 /\ r[2] \in -1 .. 255 /\ r[3] \in 0 .. 255 /\ r = <<r[1], r[2], r[3]>>
    BY DEF Ranges
  <2>2. QED BY <2>1, Zenon
<1>2. r[1] = lo /\ r[2] = hi /\ r[3] = d /\ lo <= hi
  BY <1>1
<1>3. PICK m \in 0 .. 255 : m = Middle(r) /\ lo <= m /\ m <= hi
  <2>1. (lo + hi) \div 2 \in 0 .. 255 /\ lo <= (lo + hi) \div 2 /\ (lo + hi) \div 2 <= hi
    BY <1>2
  <2>2. Middle(r) = (lo + hi) \div 2
    BY <1>2 DEF Middle
  <2>3. QED BY <2>1, <2>2
<1>4. CASE Affordable(level, budget, m)
  <2>1. PICK s : s = <<lo, m - 1, m>>
    OBVIOUS
  <2>2. Narrowed(level, budget, r) = s
    BY <1>2, <1>3, <1>4, <2>1 DEF Narrowed
  <2>3. s[1] = lo /\ s[2] = m - 1 /\ s[3] = m
    BY <2>1
  <2>4. s \in Ranges
    BY SMTT(30), <1>3, <2>1 DEF Ranges
  <2>5. Promising(level, budget, s)
    BY <1>4, <2>3 DEF Promising
  <2>6. s[2] - s[1] < r[2] - r[1]
    BY <1>2, <1>3, <2>3
  <2>7. QED BY <2>2, <2>4, <2>5, <2>6
<1>5. CASE ~Affordable(level, budget, m)
  <2>1. PICK s : s = <<m + 1, hi, d>>
    OBVIOUS
  <2>2. Narrowed(level, budget, r) = s
    BY <1>2, <1>3, <1>5, <2>1 DEF Narrowed
  <2>3. s[1] = m + 1 /\ s[2] = hi /\ s[3] = d
    BY <2>1
  <2>4. s \in Ranges
    BY SMTT(30), <1>3, <2>1 DEF Ranges
  <2>5. s[2] - s[1] < r[2] - r[1]
    BY <1>2, <1>3, <2>3
  <2>6. ASSUME Affordable(level, budget, 255), Promising(level, budget, r)
        PROVE  Promising(level, budget, s)
    <3>1. m # 255
      BY <1>5, <2>6
    <3>2. Affordable(level, budget, d) \/ (lo <= 255 /\ hi = 255)
      BY <1>2, <2>6 DEF Promising
    <3>3. Affordable(level, budget, d) \/ (m + 1 <= 255 /\ hi = 255)
      BY <1>3, <3>1, <3>2
    <3>4. QED BY <2>3, <3>3 DEF Promising
  <2>7. QED BY <2>2, <2>4, <2>5, <2>6
<1>6. QED BY <1>4, <1>5

LEMMA RangeParts ==
    ASSUME NEW r \in Ranges
    PROVE  /\ r[1] \in 0 .. 277 /\ r[2] \in -1 .. 255 /\ r[3] \in 0 .. 255
           /\ r[1] \in Int /\ r[2] \in Int
           /\ r[2] - r[1] \in -278 .. 255
           /\ r[1] > r[2] \/ r[1] <= r[2]
<1>1. r[1] \in 0 .. 277 /\ r[2] \in -1 .. 255 /\ r[3] \in 0 .. 255
  BY DEF Ranges
<1>2. PICK a \in 0 .. 277, b \in -1 .. 255 : a = r[1] /\ b = r[2]
  BY <1>1
<1>3. /\ a \in Int /\ b \in Int
      /\ b - a \in -278 .. 255
      /\ a > b \/ a <= b
  OBVIOUS
<1>4. QED BY <1>1, <1>2, <1>3, Zenon

LEMMA RangeEnds ==
    \A r \in Ranges : r[1] \in Int /\ r[2] \in Int /\ (r[1] > r[2] \/ r[1] <= r[2])
BY RangeParts

\* Such a function exists.
LEMMA SearchExists ==
    ASSUME NEW level \in Int, NEW budget \in Nat
    PROVE  \E f \in [Ranges -> 0 .. 255] : Settles(level, budget, f, 256)
<1> DEFINE Unsettled == {n \in Nat : ~ \E f \in [Ranges -> 0 .. 255] : Settles(level, budget, f, n - 278)}
<1>1. SUFFICES Unsettled = {}
  <2>1. PICK n \in Nat : n - 278 = 256
    <3>1. 534 \in Nat /\ 534 - 278 = 256
      OBVIOUS
    <3>2. QED BY <3>1
  <2>2. SUFFICES ASSUME Unsettled = {} PROVE \E f \in [Ranges -> 0 .. 255] : Settles(level, budget, f, n - 278)
    BY <2>1
  <2>3. n \notin Unsettled
    BY <2>2
  <2>4. QED BY <2>3
<1>2. SUFFICES ASSUME Unsettled # {} PROVE FALSE
  OBVIOUS
<1>3. PICK n \in Unsettled : \A x \in Unsettled : n <= x
  <2>1. Unsettled \subseteq Nat
    OBVIOUS
  <2> HIDE DEF Unsettled
  <2>2. QED BY <1>2, <2>1, LeastElement
<1>4. n # 0
  <2>1. SUFFICES ASSUME n = 0 PROVE FALSE
    OBVIOUS
  <2>2. PICK f : f = [r \in Ranges |-> r[3]]
    OBVIOUS
  <2>3. f \in [Ranges -> 0 .. 255]
    <3>1. \A r \in Ranges : r[3] \in 0 .. 255
      BY DEF Ranges
    <3>2. QED BY <2>2, <3>1
  <2>4. Settles(level, budget, f, 0 - 278)
    <3>1. SUFFICES ASSUME NEW r \in Ranges, r[2] - r[1] < 0 - 278 PROVE f[r] = r[3] /\ r[1] > r[2]
      BY DEF Settles
    <3>2. r[1] \in Int /\ r[2] \in Int /\ r[2] - r[1] \in -278 .. 255
      BY RangeParts, SMTT(30)
    <3>3. QED BY <2>2, <3>1, <3>2
  <2>5. QED BY <2>1, <2>3, <2>4
<1>5. PICK f \in [Ranges -> 0 .. 255] : Settles(level, budget, f, (n - 1) - 278)
  <2>1. n - 1 \in Nat /\ ~ (n <= n - 1)
    BY <1>4
  <2>2. n - 1 \notin Unsettled
    BY <1>3, <2>1
  <2>3. QED BY <2>1, <2>2
<1>6. PICK g : g = [r \in Ranges |-> IF r[1] > r[2] THEN r[3] ELSE f[Narrowed(level, budget, r)]]
  OBVIOUS
<1>7. \A r \in Ranges : g[r] = IF r[1] > r[2] THEN r[3] ELSE f[Narrowed(level, budget, r)]
  BY <1>6
<1>8. g \in [Ranges -> 0 .. 255]
  <2>1. SUFFICES ASSUME NEW r \in Ranges PROVE g[r] \in 0 .. 255
    BY <1>6
  <2>2. CASE r[1] > r[2]
    <3>1. r[3] \in 0 .. 255
      BY DEF Ranges
    <3>2. QED BY <1>7, <2>2, <3>1
  <2>3. CASE ~ (r[1] > r[2])
    <3>1. r[1] <= r[2]
      BY <2>3, RangeEnds
    <3>2. Narrowed(level, budget, r) \in Ranges
      BY <3>1, NarrowedRange
    <3>3. QED BY <1>7, <2>3, <3>2
  <2>4. QED BY <2>2, <2>3
<1>9. Settles(level, budget, g, n - 278)
  <2>1. SUFFICES ASSUME NEW r \in Ranges, r[2] - r[1] < n - 278
                 PROVE  g[r] = IF r[1] > r[2] THEN r[3] ELSE g[Narrowed(level, budget, r)]
    BY DEF Settles
  <2>2. CASE r[1] > r[2]
    BY <1>7, <2>2
  <2>3. CASE ~ (r[1] > r[2])
    <3>1. r[1] <= r[2]
      BY <2>3, RangeEnds
    <3>2. PICK s \in Ranges : s = Narrowed(level, budget, r) /\ s[2] - s[1] < r[2] - r[1]
      BY <3>1, NarrowedRange
    <3>3. s[2] - s[1] < (n - 1) - 278
      <4>1. PICK x \in Int, y \in Int : x = s[2] - s[1] /\ y = r[2] - r[1]
        <5>1. s[1] \in Int /\ s[2] \in Int /\ r[1] \in Int /\ r[2] \in Int
          BY RangeEnds
        <5>2. QED BY <5>1
      <4>2. x < y /\ y < n - 278 /\ n \in Int
        BY <2>1, <3>2, <4>1
      <4>3. QED BY <4>1, <4>2
    <3>4. f[s] = IF s[1] > s[2] THEN s[3] ELSE f[Narrowed(level, budget, s)]
      BY <1>5, <3>3 DEF Settles
    <3>5. g[s] = f[s]
      BY <1>7, <3>4
    <3>6. QED BY <1>7, <2>3, <3>2, <3>5
  <2>4. QED BY <2>2, <2>3
<1>10. QED BY <1>3, <1>8, <1>9

\* If the coarsest gain is affordable, the search over all gains finds one that is.
LEMMA SearchFinds ==
    ASSUME NEW level \in Int, NEW budget \in Nat, Affordable(level, budget, 255)
    PROVE  /\ Search(level, budget, 0, 210) \in 0 .. 255
           /\ Affordable(level, budget, Search(level, budget, 0, 210))
<1> DEFINE Q(f) == f = [r \in Ranges |->
                          LET lo == r[1] hi == r[2] mid == (lo + hi) \div 2
                          IN  IF lo > hi THEN r[3]
                              ELSE IF Affordable(level, budget, mid) THEN f[<<lo, mid - 1, mid>>]
                              ELSE f[<<mid + 1, hi, r[3]>>]]
<1>1. \E f : Q(f)
  <2>1. PICK f \in [Ranges -> 0 .. 255] : Settles(level, budget, f, 256)
    BY SearchExists
  <2>2. \A r \in Ranges : f[r] = IF r[1] > r[2] THEN r[3] ELSE f[Narrowed(level, budget, r)]
    <3>1. \A r \in Ranges : r[2] - r[1] < 256
      <4>1. TAKE r \in Ranges
      <4>2. r[2] - r[1] \in -278 .. 255
        BY RangeParts
      <4>3. QED BY <4>2
    <3>2. QED BY <2>1, <3>1 DEF Settles
  <2>3. Q(f)
    BY <2>1, <2>2 DEF Narrowed, Middle
  <2>4. QED BY <2>3
<1>2. PICK f : Q(f) /\ Search(level, budget, 0, 210) = f[<<0, 255, 210>>]
  <2>1. PICK f : f = CHOOSE h : Q(h)
    OBVIOUS
  <2>2. Q(f)
    BY <1>1, <2>1
  <2>3. Search(level, budget, 0, 210) = f[<<0, 255, 210>>]
    BY <2>1 DEF Search, Ranges
  <2>4. QED BY <2>2, <2>3
<1>3. \A r \in Ranges : f[r] = IF r[1] > r[2] THEN r[3] ELSE f[Narrowed(level, budget, r)]
  <2>1. SUFFICES ASSUME NEW r \in Ranges
                 PROVE  f[r] = IF r[1] > r[2] THEN r[3] ELSE f[Narrowed(level, budget, r)]
    OBVIOUS
  <2>2. PICK m : m = Middle(r)
    OBVIOUS
  <2>3. f[r] = IF r[1] > r[2] THEN r[3]
               ELSE IF Affordable(level, budget, m) THEN f[<<r[1], m - 1, m>>] ELSE f[<<m + 1, r[2], r[3]>>]
    <3>1. f[r] = IF r[1] > r[2] THEN r[3]
                 ELSE IF Affordable(level, budget, (r[1] + r[2]) \div 2)
                 THEN f[<<r[1], (r[1] + r[2]) \div 2 - 1, (r[1] + r[2]) \div 2>>]
                 ELSE f[<<(r[1] + r[2]) \div 2 + 1, r[2], r[3]>>]
      BY <1>2, ZenonT(30)
    <3>2. QED BY <2>2, <3>1 DEF Middle
  <2>4. CASE Affordable(level, budget, m)
    BY <2>2, <2>3, <2>4 DEF Narrowed
  <2>5. CASE ~Affordable(level, budget, m)
    BY <2>2, <2>3, <2>5 DEF Narrowed
  <2>6. QED BY <2>4, <2>5
<1> HIDE DEF Q
<1> DEFINE Astray(r) == Promising(level, budget, r) /\ ~ (f[r] \in 0 .. 255 /\ Affordable(level, budget, f[r]))
           Lost == {n \in Nat : \E r \in Ranges : Astray(r) /\ r[2] - r[1] + 278 = n}
<1>4. Lost = {}
  <2>1. SUFFICES ASSUME Lost # {} PROVE FALSE
    OBVIOUS
  <2>2. PICK n \in Lost : \A x \in Lost : n <= x
    <3>1. Lost \subseteq Nat
      OBVIOUS
    <3> HIDE DEF Lost
    <3>2. QED BY <2>1, <3>1, LeastElement
  <2>3. PICK r \in Ranges : Astray(r) /\ r[2] - r[1] + 278 = n
    BY <2>2
  <2>4. CASE r[1] > r[2]
    <3>1. f[r] = r[3] /\ r[3] \in 0 .. 255
      BY <1>3, <2>4, RangeParts
    <3>2. Affordable(level, budget, r[3])
      <4>1. r[1] \in Int /\ r[2] \in Int
        BY RangeParts
      <4>2. ~ (r[1] <= 255 /\ r[2] = 255)
        BY <2>4, <4>1
      <4>3. QED BY <2>3, <4>2 DEF Promising
    <3>3. QED BY <2>3, <3>1, <3>2
  <2>5. CASE ~ (r[1] > r[2])
    <3>1. r[1] <= r[2]
      BY <2>5, RangeParts, Zenon
    <3>2. PICK s \in Ranges : /\ s = Narrowed(level, budget, r) /\ s[2] - s[1] < r[2] - r[1]
                              /\ Promising(level, budget, s)
      BY <2>3, <3>1, NarrowedRange
    <3>3. f[r] = f[s]
      BY <1>3, <2>5, <3>2
    <3>4. Astray(s)
      BY <2>3, <3>2, <3>3
    <3>5. s[2] - s[1] + 278 \in Nat /\ s[2] - s[1] + 278 < n
      <4>1. PICK x \in -278 .. 255, y \in -278 .. 255 : x = s[2] - s[1] /\ y = r[2] - r[1]
        BY RangeParts, ZenonT(30)
      <4>2. x < y /\ n = y + 278
        BY <2>3, <3>2, <4>1
      <4>3. QED BY <4>1, <4>2
    <3>6. s[2] - s[1] + 278 \in Lost
      BY <3>4, <3>5
    <3>7. QED BY <2>2, <3>5, <3>6
  <2>6. QED BY <2>4, <2>5
<1>5. PICK r \in Ranges : r = <<0, 255, 210>> /\ r[1] = 0 /\ r[2] = 255
  <2>1. <<0, 255, 210>> \in Ranges
    BY DEF Ranges
  <2>2. QED BY <2>1
<1>6. Promising(level, budget, r)
  BY <1>5 DEF Promising
<1>7. ~Astray(r)
  <2>1. r[2] - r[1] + 278 \in Nat
    BY <1>5
  <2>2. QED BY <1>4, <2>1
<1>8. QED BY <1>2, <1>5, <1>6, <1>7

-----------------------------------------------------------------------------
(* Mp3Quant: the bits of a spectrum. *)

\* The ends of the bands are the sums of their widths.
LEMMA BandsRise ==
    /\ \A n \in 0 .. 22 : BandEnd[n] \in Nat
    /\ \A n \in 1 .. 22 : BandEnd[n] > 0
<1> DEFINE Q(f, n) == \A k \in 0 .. 22 : k <= n => f[k] = IF k = 0 THEN 0 ELSE f[k - 1] + Width[k]
           Missing == {n \in Nat : n <= 22 /\ ~ \E f \in [0 .. 22 -> Nat] : Q(f, n)}
<1>1. Missing = {}
  <2>1. SUFFICES ASSUME Missing # {} PROVE FALSE
    OBVIOUS
  <2>2. PICK n \in Missing : \A x \in Missing : n <= x
    <3>1. Missing \subseteq Nat
      OBVIOUS
    <3> HIDE DEF Missing
    <3>2. QED BY <2>1, <3>1, LeastElement
  <2>3. n # 0
    <3>1. SUFFICES ASSUME n = 0 PROVE FALSE
      OBVIOUS
    <3>2. PICK f \in [0 .. 22 -> Nat] : \A k \in 0 .. 22 : f[k] = 0
      <4>1. [k \in 0 .. 22 |-> 0] \in [0 .. 22 -> Nat]
        OBVIOUS
      <4>2. QED BY <4>1
    <3>3. Q(f, 0)
      BY <3>2
    <3>4. QED BY <3>1, <3>3
  <2>4. PICK f \in [0 .. 22 -> Nat] : Q(f, n - 1)
    <3>1. n - 1 \in Nat /\ n - 1 <= 22 /\ ~ (n <= n - 1)
      BY <2>3
    <3>2. n - 1 \notin Missing
      BY <2>2, <3>1
    <3>3. QED BY <3>1, <3>2
  <2>5. n \in 1 .. 22 /\ n - 1 \in 0 .. 22 /\ Width[n] \in Nat
    BY <2>3, Mp3QuantAssumption
  <2>6. PICK g : g = [f EXCEPT ![n] = f[n - 1] + Width[n]]
    OBVIOUS
  <2>7. g \in [0 .. 22 -> Nat]
    BY <2>5, <2>6
  <2>8. Q(g, n)
    <3>1. SUFFICES ASSUME NEW k \in 0 .. 22, k <= n
                   PROVE  g[k] = IF k = 0 THEN 0 ELSE g[k - 1] + Width[k]
      OBVIOUS
    <3>2. CASE k = n
      BY <2>5, <2>6, <3>2
    <3>3. CASE k # n
      <4>1. k <= n - 1
        BY <2>5, <3>1, <3>3
      <4>2. f[k] = IF k = 0 THEN 0 ELSE f[k - 1] + Width[k]
        BY <2>4, <4>1
      <4>3. k # 0 => k - 1 # n /\ k - 1 \in 0 .. 22
        BY <2>5, <4>1
      <4>4. QED BY <2>6, <3>3, <4>2, <4>3
    <3>4. QED BY <3>2, <3>3
  <2>9. QED BY <2>2, <2>7, <2>8
<1>2. PICK f \in [0 .. 22 -> Nat] : Q(f, 22)
  <2>1. 22 \in Nat /\ 22 <= 22
    OBVIOUS
  <2>2. QED BY <1>1, <2>1
<1>3. \E h : h = [n \in 0 .. 22 |-> IF n = 0 THEN 0 ELSE h[n - 1] + Width[n]]
  <2>1. f = [n \in 0 .. 22 |-> IF n = 0 THEN 0 ELSE f[n - 1] + Width[n]]
    BY <1>2
  <2>2. QED BY <2>1
<1>4. BandEnd = [n \in 0 .. 22 |-> IF n = 0 THEN 0 ELSE BandEnd[n - 1] + Width[n]]
  BY <1>3 DEF BandEnd
<1>5. \A n \in 0 .. 22 : BandEnd[n] = IF n = 0 THEN 0 ELSE BandEnd[n - 1] + Width[n]
  BY <1>4
<1> DEFINE Odd == {n \in Nat : n <= 22 /\ ~ (BandEnd[n] \in Nat /\ (n > 0 => BandEnd[n] > 0))}
<1>6. Odd = {}
  <2>1. SUFFICES ASSUME Odd # {} PROVE FALSE
    OBVIOUS
  <2>2. PICK n \in Odd : \A x \in Odd : n <= x
    <3>1. Odd \subseteq Nat
      OBVIOUS
    <3> HIDE DEF Odd
    <3>2. QED BY <2>1, <3>1, LeastElement
  <2>3. n # 0
    BY <1>5, <2>2
  <2>4. n - 1 \in Nat /\ n - 1 <= 22 /\ ~ (n <= n - 1) /\ n \in 1 .. 22
    BY <2>3
  <2>5. BandEnd[n - 1] \in Nat
    BY <2>2, <2>4
  <2>6. Width[n] \in Nat \ {0}
    BY <2>4, Mp3QuantAssumption
  <2>7. BandEnd[n] = BandEnd[n - 1] + Width[n]
    BY <1>5, <2>4
  <2>8. BandEnd[n] \in Nat /\ BandEnd[n] > 0
    BY <2>5, <2>6, <2>7
  <2>9. QED BY <2>2, <2>8
<1>7. QED BY <1>6

\* A filtered interval has a size.
LEMMA SizeOfPart ==
    ASSUME NEW S, IsFiniteSet(S), NEW T, T \subseteq S
    PROVE  Cardinality(T) \in Nat
BY FS_Subset, FS_CardinalityType

LEMMA TableIsNumber ==
    ASSUME NEW x, NEW from, NEW to
    PROVE  TableOf(x, from, to) \in Nat /\ (to <= from => TableOf(x, from, to) = 0)
<1>1. IsFiniteSet({1, 2, 3, 5, 7, 15})
  <2>1. IsFiniteSet(1 .. 15)
    <3>1. 1 \in Int /\ 15 \in Int
      OBVIOUS
    <3>2. QED BY <3>1, FS_Interval, Zenon
  <2>2. {1, 2, 3, 5, 7, 15} \subseteq 1 .. 15
    OBVIOUS
  <2>3. QED BY <2>1, <2>2, FS_Subset
<1>2. PICK m : m = LargestAt(x, from)
  OBVIOUS
<1>3. Cardinality({limit \in {1, 2, 3, 5, 7, 15} : limit < m}) \in Nat
  <2> DEFINE T == {limit \in {1, 2, 3, 5, 7, 15} : limit < m}
  <2>1. T \subseteq {1, 2, 3, 5, 7, 15}
    OBVIOUS
  <2> HIDE DEF T
  <2>2. Cardinality(T) \in Nat
    BY <1>1, <2>1, SizeOfPart
  <2>3. QED BY <2>2 DEF T
<1>4. QED BY <1>2, <1>3 DEF TableOf

\* One region costs a number of bits.
LEMMA RegionIsNumber ==
    ASSUME NEW x, NEW from \in Int, NEW to \in Int
    PROVE  ((to - from) \div 2) * TableOf(x, from, to) \in Nat
<1>1. PICK t \in Nat : t = TableOf(x, from, to) /\ (to <= from => t = 0)
  BY TableIsNumber
<1>2. CASE to <= from
  <2>1. PICK h \in Int : h = (to - from) \div 2
    OBVIOUS
  <2>2. h * t = 0
    BY <1>1, <1>2
  <2>3. QED BY <1>1, <2>1, <2>2
<1>3. CASE ~ (to <= from)
  <2>1. PICK h \in Nat : h = (to - from) \div 2
    <3>1. to - from \in Nat
      BY <1>3
    <3>2. QED BY <3>1
  <2>2. h * t \in Nat
    OBVIOUS
  <2>3. QED BY <1>1, <2>1, <2>2
<1>4. QED BY <1>2, <1>3

Counts == {<<r, s>> : r \in 5 .. 10, s \in 0 .. 7}

LEMMA RegionsAreNumbers ==
    ASSUME NEW x, NEW e \in Int, NEW counts \in Counts
    PROVE  RegionBits(x, RegionEnds(counts, e)) \in Nat
<1>1. PICK r \in 5 .. 10, s \in 0 .. 7 : counts = <<r, s>>
  BY DEF Counts
<1>2. PICK a \in Nat, b \in Nat : a = BandEnd[counts[1] + 1] /\ b = BandEnd[counts[1] + counts[2] + 2]
  <2>1. counts[1] + 1 \in 0 .. 22 /\ counts[1] + counts[2] + 2 \in 0 .. 22
    BY <1>1
  <2>2. QED BY <2>1, BandsRise
<1>3. PICK u \in Int, v \in Int : u = Within(a, 0, e) /\ v = Within(b, 0, e)
  BY DEF Within
<1>4. RegionEnds(counts, e) = <<u, v, e>>
  BY <1>2, <1>3 DEF RegionEnds
<1>5. PICK i \in Nat, j \in Nat, k \in Nat :
          /\ i = ((u - 0) \div 2) * TableOf(x, 0, u)
          /\ j = ((v - u) \div 2) * TableOf(x, u, v)
          /\ k = ((e - v) \div 2) * TableOf(x, v, e)
  <2>1. PICK z \in Int : z = 0
    OBVIOUS
  <2>2. ((u - z) \div 2) * TableOf(x, z, u) \in Nat
    BY RegionIsNumber
  <2>3. ((v - u) \div 2) * TableOf(x, u, v) \in Nat /\ ((e - v) \div 2) * TableOf(x, v, e) \in Nat
    BY RegionIsNumber
  <2>4. QED BY <2>1, <2>2, <2>3
<1>6. RegionBits(x, <<u, v, e>>) = i + j + k
  BY <1>5 DEF RegionBits
<1>7. QED BY <1>4, <1>6

\* The bits of a spectrum are a number, whichever split is the cheapest.
LEMMA BitsAreNumbers ==
    ASSUME NEW x, x.big \in Int, x.nz \in Int
    PROVE  HuffBits(x) \in Int
<1>1. PICK q \in Int, e \in Int : q = Quads(x) /\ e = BigEnd(x)
  BY DEF Quads, BigEnd, NonZeroEnd
<1> DEFINE whole == Cardinality({n \in 1 .. 22 : BandEnd[n] <= BigEnd(x)})
           Split(r) == <<r, Within(whole - r - 1, 0, 7)>>
           Cost == [r \in 5 .. 10 |-> RegionBits(x, RegionEnds(Split(r), BigEnd(x)))]
           Tried == {r \in 5 .. 10 : r < whole}
           Cheapest == {r \in Tried : \A other \in Tried : Cost[r] <= Cost[other]}
<1>2. RegionCounts(x) = IF Tried = {} THEN <<7, 0>> ELSE Split(Min(Cheapest))
  BY Zenon DEF RegionCounts
<1>3. whole \in Nat
  <2>1. IsFiniteSet(1 .. 22)
    <3>1. 1 \in Int /\ 22 \in Int
      OBVIOUS
    <3>2. QED BY <3>1, FS_Interval, Zenon
  <2>2. {n \in 1 .. 22 : BandEnd[n] <= BigEnd(x)} \subseteq 1 .. 22
    OBVIOUS
  <2>3. QED BY <2>1, <2>2, SizeOfPart
<1> HIDE DEF whole
<1>4. \A r \in 5 .. 10 : Split(r) \in Counts
  BY <1>3 DEF Within, Counts
<1> HIDE DEF Split
<1>5. \A r \in 5 .. 10 : Cost[r] \in Nat
  <2>1. TAKE r \in 5 .. 10
  <2>2. PICK c \in Counts : c = Split(r)
    BY <1>4
  <2>3. RegionBits(x, RegionEnds(c, e)) \in Nat
    BY RegionsAreNumbers
  <2>4. QED BY <1>1, <2>2, <2>3
<1> HIDE DEF Cost
<1>6. RegionCounts(x) \in Counts
  <2>1. CASE Tried = {}
    BY <1>2, <2>1 DEF Counts
  <2>2. CASE Tried # {}
    <3>1. Tried \subseteq 5 .. 10
      OBVIOUS
    <3> HIDE DEF Tried
    <3>2. Cheapest # {}
      <4> DEFINE Costs == {Cost[r] : r \in Tried}
      <4>1. Costs \subseteq Nat /\ Costs # {}
        BY <1>5, <2>2, <3>1
      <4>2. PICK m \in Costs : \A y \in Costs : m <= y
        <5> HIDE DEF Costs
        <5>1. QED BY <4>1, LeastElement
      <4>3. PICK r \in Tried : m = Cost[r]
        BY <4>2
      <4>4. \A other \in Tried : Cost[r] <= Cost[other]
        BY <4>2, <4>3
      <4>5. QED BY <4>3, <4>4
    <3>3. Cheapest \subseteq Nat /\ Cheapest \subseteq 5 .. 10
      <4>1. Cheapest \subseteq Tried
        OBVIOUS
      <4>2. 5 .. 10 \subseteq Nat
        OBVIOUS
      <4>3. QED BY <3>1, <4>1, <4>2, Zenon
    <3> HIDE DEF Cheapest
    <3>4. Min(Cheapest) \in 5 .. 10
      <4>1. \E m \in Cheapest : \A y \in Cheapest : m <= y
        BY <3>2, <3>3, LeastElement
      <4>2. Min(Cheapest) \in Cheapest
        BY <4>1 DEF Min
      <4>3. QED BY <3>3, <4>2
    <3>5. QED BY <1>2, <1>4, <2>2, <3>4
  <2>3. QED BY <2>1, <2>2
<1>7. RegionBits(x, RegionEnds(RegionCounts(x), e)) \in Nat
  BY <1>6, RegionsAreNumbers
<1>8. QED BY <1>1, <1>7 DEF HuffBits, BitsIn

\* A spectrum of nothing takes no bits.
LEMMA SilenceIsFree ==
    ASSUME NEW x, x = [big |-> 0, nz |-> 0]
    PROVE  HuffBits(x) = 0
<1>1. x.big = 0 /\ x.nz = 0
  OBVIOUS
<1>2. NonZeroEnd(x) = 0
  BY <1>1 DEF NonZeroEnd
<1>3. Quads(x) = 0
  BY <1>1, <1>2 DEF Quads
<1>4. BigEnd(x) = 0
  BY <1>2, <1>3 DEF BigEnd
<1>5. RegionCounts(x) = <<7, 0>>
  <2>1. {n \in 1 .. 22 : BandEnd[n] <= BigEnd(x)} = {}
    <3>1. SUFFICES ASSUME NEW n \in 1 .. 22, BandEnd[n] <= 0 PROVE FALSE
      BY <1>4
    <3>2. BandEnd[n] \in Nat /\ BandEnd[n] > 0
      BY BandsRise
    <3>3. QED BY <3>1, <3>2
  <2>2. Cardinality({n \in 1 .. 22 : BandEnd[n] <= BigEnd(x)}) = 0
    BY <2>1, FS_EmptySet
  <2>3. {r \in 5 .. 10 : r < Cardinality({n \in 1 .. 22 : BandEnd[n] <= BigEnd(x)})} = {}
    BY <2>2
  <2>4. QED BY <2>3, Zenon DEF RegionCounts
<1>6. RegionEnds(<<7, 0>>, 0) = <<0, 0, 0>>
  <2>1. BandEnd[8] \in Nat /\ BandEnd[9] \in Nat
    BY BandsRise
  <2>2. QED BY <2>1 DEF RegionEnds, Within
<1>7. RegionBits(x, <<0, 0, 0>>) = 0
  BY DEF RegionBits, TableOf
<1>8. QED BY <1>3, <1>4, <1>5, <1>6, <1>7 DEF HuffBits, BitsIn

\* Beyond the levels of BitsAt a spectrum changes no more.
LEMMA SpectrumEnds ==
    ASSUME NEW over \in Int
    PROVE  /\ Within(over, -12, 144) \in -12 .. 144
           /\ Spectrum(Within(over, -12, 144)) = Spectrum(over)
<1>1. CASE over < -12
  BY <1>1 DEF Within, Spectrum
<1>2. CASE over > 144
  BY <1>2 DEF Within, Spectrum
<1>3. CASE over \in -12 .. 144
  BY <1>3 DEF Within
<1>4. QED BY <1>1, <1>2, <1>3

LEMMA BitsOfLevel ==
    ASSUME NEW over \in Int
    PROVE  BitsAt[Within(over, -12, 144)] = HuffBits(Spectrum(over))
<1>1. PICK w \in -12 .. 144 : w = Within(over, -12, 144) /\ Spectrum(w) = Spectrum(over)
  BY SpectrumEnds
<1>2. BitsAt[w] = HuffBits(Spectrum(w))
  BY DEF BitsAt
<1>3. QED BY <1>1, <1>2, Zenon

LEMMA GranuleFacts ==
    ASSUME NEW g \in Granules
    PROVE  \E level \in Nat, budget \in Nat : level = g.reach /\ level <= 243 /\ budget = g.budget
<1>1. g.reach \in Nat /\ g.reach <= 243 /\ g.budget \in Nat
  BY Mp3QuantAssumption
<1>2. QED BY <1>1

\* The flat try finds a gain that its budget affords.
LEMMA FlatFits ==
    ASSUME NEW f, granule \in Granules, f = InnerLoop(Flat, granule.budget, NoHint)
    PROVE  HuffBits(f.ix) \in Int /\ HuffBits(f.ix) <= granule.budget
<1>1. PICK level \in Nat, budget \in Nat : level = granule.reach /\ level <= 243 /\ budget = granule.budget
  BY GranuleFacts, Zenon
<1>2. Level(Flat) = level
  <2>1. Amplified(Flat) = 0
    BY DEF Amplified, Flat
  <2>2. QED BY <1>1, <2>1 DEF Level
<1>3. Affordable(level, budget, 255)
  <2>1. PICK over \in Int : over = level - 255 /\ over <= -12
    BY <1>1
  <2>2. ~Saturated(over)
    BY <2>1 DEF Saturated
  <2>3. Spectrum(over) = [big |-> 0, nz |-> 0]
    BY <2>1 DEF Spectrum, Within
  <2>4. HuffBits(Spectrum(over)) = 0
    BY <2>3, SilenceIsFree
  <2>5. BitsAt[Within(over, -12, 144)] = 0
    BY <2>4, BitsOfLevel
  <2>6. QED BY <2>1, <2>2, <2>5 DEF Affordable
<1>4. PICK gain \in 0 .. 255 : gain = Search(level, budget, 0, 210) /\ Affordable(level, budget, gain)
  <2>1. level \in Int
    OBVIOUS
  <2>2. QED BY <1>3, <2>1, SearchFinds, Zenon
<1>5. f.ix = Spectrum(level - gain)
  BY <1>1, <1>2, <1>4 DEF InnerLoop
<1>6. PICK over \in Int : over = level - gain
  OBVIOUS
<1>7. BitsAt[Within(over, -12, 144)] <= budget
  BY <1>4, <1>6 DEF Affordable
<1>8. Spectrum(over).big \in Int /\ Spectrum(over).nz \in Int
  BY DEF Spectrum, Within
<1>9. QED BY <1>1, <1>5, <1>6, <1>7, <1>8, BitsOfLevel, BitsAreNumbers

-----------------------------------------------------------------------------
(* Mp3Quant: the tries. *)

Fields == {"counts", "bits", "compress"}

\* A try whose side information says what is in its spectrum.
Priced(g, x) ==
    /\ Fields \subseteq DOMAIN g
    /\ g.counts = RegionCounts(x)
    /\ g.bits = Part2Length(g.compress) + HuffBits(x)
    /\ g.bits <= granule.budget

QuantInv ==
    /\ granule \in Granules
    /\ quantPc \in {"flat", "judge", "amplify", "restore", "done"}
    /\ quantPc \in {"judge", "amplify", "done"} => Priced(gi, ix)
    /\ quantPc # "flat" => Priced(best.gi, best.ix)

LEMMA QuantStart == QuantInit => QuantInv
BY DEF QuantInit, QuantInv

\* What an inner loop leaves, when its total is within the budget, is priced.
LEMMA PricedTry ==
    ASSUME NEW g, Fields \subseteq DOMAIN g, NEW found, NEW total,
           total = Part2Length(g.compress) + HuffBits(found.ix), total <= granule.budget
    PROVE  Priced(WithSpectrum(g, found, total), found.ix)
<1>1. PICK h : h = WithSpectrum(g, found, total)
  OBVIOUS
<1>2. /\ DOMAIN h = DOMAIN g /\ h.counts = RegionCounts(found.ix) /\ h.bits = total
      /\ h.compress = g.compress
  BY <1>1 DEF WithSpectrum, Fields
<1>3. QED BY <1>1, <1>2 DEF Priced

LEMMA FlatKeeps == QuantInv /\ FlatTry => QuantInv'
<1> SUFFICES ASSUME QuantInv, FlatTry PROVE QuantInv'
  OBVIOUS
<1>1. granule \in Granules /\ granule' = granule /\ quantPc' \in {"judge", "done"}
  BY DEF QuantInv, FlatTry
<1>2. PICK found : /\ found = InnerLoop(Flat, granule.budget, NoHint)
                   /\ gi' = WithSpectrum(Flat, found, HuffBits(found.ix)) /\ ix' = found.ix
                   /\ best'.gi = gi' /\ best'.ix = ix'
  BY DEF FlatTry
<1>3. HuffBits(found.ix) \in Int /\ HuffBits(found.ix) <= granule.budget
  BY <1>1, <1>2, FlatFits
<1>4. Fields \subseteq DOMAIN Flat /\ Flat.compress = 0
  BY DEF Fields, Flat
<1>5. PICK total : total = HuffBits(found.ix)
  OBVIOUS
<1>6. total = Part2Length(Flat.compress) + HuffBits(found.ix)
  <2>1. Part2Length(Flat.compress) = 0
    BY <1>4 DEF Part2Length, slen1, slen2
  <2>2. QED BY <1>3, <1>5, <2>1
<1>7. Priced(WithSpectrum(Flat, found, total), found.ix)
  BY <1>3, <1>4, <1>5, <1>6, PricedTry
<1>8. Priced(gi, ix)'
  BY <1>1, <1>2, <1>5, <1>7 DEF Priced
<1>9. QED BY <1>1, <1>2, <1>8 DEF QuantInv

LEMMA JudgeKeeps == QuantInv /\ Judge => QuantInv'
<1> SUFFICES ASSUME QuantInv, Judge PROVE QuantInv'
  OBVIOUS
<1>1. /\ granule \in Granules /\ granule' = granule /\ gi' = gi /\ ix' = ix
      /\ Priced(gi, ix) /\ Priced(best.gi, best.ix)
      /\ quantPc' \in {"restore", "amplify"}
  BY DEF QuantInv, Judge
<1>2. best' = best \/ (best'.gi = gi /\ best'.ix = ix)
  BY DEF Judge
<1>3. Priced(best.gi, best.ix)' /\ Priced(gi, ix)'
  BY <1>1, <1>2 DEF Priced
<1>4. QED BY <1>1, <1>3 DEF QuantInv

\* Scalefactors change, the other fields stay where they are.
LEMMA BumpedFields ==
    ASSUME NEW g, Fields \subseteq DOMAIN g
    PROVE  Fields \subseteq DOMAIN Compressed(Scaled(Preset(Bumped(g))))
<1>1. PICK a : a = Bumped(g)
  OBVIOUS
<1>2. DOMAIN a = DOMAIN g
  BY <1>1 DEF Bumped
<1>3. PICK b : b = Preset(a)
  OBVIOUS
<1>4. DOMAIN b = DOMAIN a
  BY <1>3 DEF Preset
<1>5. PICK c : c = Scaled(b)
  OBVIOUS
<1>6. DOMAIN c = DOMAIN b
  BY <1>5 DEF Scaled
<1>7. DOMAIN Compressed(c) = DOMAIN c
  BY DEF Compressed
<1>8. QED BY <1>1, <1>2, <1>3, <1>4, <1>5, <1>6, <1>7

LEMMA AmplifyKeeps == QuantInv /\ Amplify => QuantInv'
<1> SUFFICES ASSUME QuantInv, Amplify PROVE QuantInv'
  OBVIOUS
<1>1. /\ granule \in Granules /\ granule' = granule /\ best' = best
      /\ Priced(gi, ix) /\ Priced(best.gi, best.ix)
  BY DEF QuantInv, Amplify
<1>2. Priced(best.gi, best.ix)'
  BY <1>1 DEF Priced
<1>3. PICK g : /\ g = Compressed(Scaled(Preset(Bumped(gi))))
               /\ \/ quantPc' = "restore"
                  \/ \E found : LET total == Part2Length(g.compress) + HuffBits(found.ix)
                                IN  /\ total <= granule.budget /\ ix' = found.ix
                                    /\ gi' = WithSpectrum(g, found, total)
                                    /\ quantPc' \in {"judge", "restore"}
  <2>1. PICK g : g = Compressed(Scaled(Preset(Bumped(gi))))
    OBVIOUS
  <2>2. PICK found :
          LET budget == granule.budget - Part2Length(g.compress)
              total == Part2Length(g.compress) + HuffBits(found.ix)
          IN  IF budget < 0 THEN gi' = g /\ ix' = ix /\ quantPc' = "restore"
              ELSE /\ ix' = found.ix
                   /\ IF total <= granule.budget
                      THEN gi' = WithSpectrum(g, found, total) /\
                           quantPc' = IF round + 1 < Rounds THEN "judge" ELSE "restore"
                      ELSE gi' = WithSpectrum(g, found, gi.bits) /\ quantPc' = "restore"
    BY <2>1, Zenon DEF Amplify
  <2>3. QED BY <2>1, <2>2
<1>4. CASE quantPc' = "restore"
  BY <1>1, <1>2, <1>4 DEF QuantInv
<1>5. CASE quantPc' # "restore"
  <2>1. PICK found, total : /\ total = Part2Length(g.compress) + HuffBits(found.ix)
                            /\ total <= granule.budget /\ ix' = found.ix
                            /\ gi' = WithSpectrum(g, found, total) /\ quantPc' = "judge"
    BY <1>3, <1>5
  <2>2. Fields \subseteq DOMAIN g
    BY <1>1, <1>3, BumpedFields DEF Priced
  <2>3. Priced(WithSpectrum(g, found, total), found.ix)
    BY <2>1, <2>2, PricedTry
  <2>4. Priced(gi, ix)'
    BY <1>1, <2>1, <2>3 DEF Priced
  <2>5. QED BY <1>1, <1>2, <2>1, <2>4 DEF QuantInv
<1>6. QED BY <1>4, <1>5

LEMMA RestoreKeeps == QuantInv /\ Restore => QuantInv'
<1> SUFFICES ASSUME QuantInv, Restore PROVE QuantInv'
  OBVIOUS
<1>1. /\ granule \in Granules /\ granule' = granule /\ best' = best /\ quantPc' = "done"
      /\ Priced(best.gi, best.ix) /\ gi' = best.gi /\ ix' = best.ix
  BY DEF QuantInv, Restore
<1>2. Priced(best.gi, best.ix)' /\ Priced(gi, ix)'
  BY <1>1 DEF Priced
<1>3. QED BY <1>1, <1>2 DEF QuantInv

LEMMA QuantStep == QuantInv /\ [QuantNext]_quantVars => QuantInv'
<1>1. QuantInv /\ UNCHANGED quantVars => QuantInv'
  BY DEF QuantInv, Priced, quantVars
<1>2. QED BY <1>1, FlatKeeps, JudgeKeeps, AmplifyKeeps, RestoreKeeps DEF QuantNext

\* Whichever try is kept, the bits written for a granule are those its side
\* information announces and no more than it was given (mp3enc_outer_loop,
\* mp3enc_encode_frame), for any row of bands and any granule.
THEOREM GranulesFit == QuantSpec => []WrittenAsAnnounced
<1>1. QuantInv => WrittenAsAnnounced
  BY DEF QuantInv, Priced, WrittenAsAnnounced, WrittenBits, HuffBits
<1>2. QED BY <1>1, QuantStart, QuantStep, PTL DEF QuantSpec
=============================================================================
