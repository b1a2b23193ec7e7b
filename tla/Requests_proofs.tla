--------------------------- MODULE Requests_proofs ----------------------------
(***************************************************************************)
(* Proofs about what is asked of the server and of the LM.                 *)
(*                                                                         *)
(* Endpoints, for any set of requests and of models: the invariant is the  *)
(* property with the queued job tied to the request that was answered 200. *)
(* MetadataFsm, for any vocabulary and any fields given: the automaton's   *)
(* queue holds what is left of a value it was given, and what has been     *)
(* spelt begins one of the values that may be spelt. LmSizing: what a      *)
(* request makes of the LM's cache. RequestCards, for any cards: what is   *)
(* written of a request is read back, through the pipe and the answers.    *)
(***************************************************************************)
EXTENDS Endpoints, MetadataFsm, LmSizing, RequestCards, SequenceTheorems, FiniteSetTheorems,
        WellFoundedInduction, TLAPS

Kinds == {"LM", "SYNTH", "UND", "ENC", "DEC"}

\* What the handler has queued is what it took from the request it answered with
\* 200; names stay with the process where models do.
EpInv ==
    /\ epPc \in {"idle", "queued"}
    /\ epPc = "queued" => \E s \in Sent : sent = s /\ Answer(s) = 200 /\ job = Accepted(s)
    /\ loaded \in [Buckets -> {loaded[b] : b \in Buckets}]
    /\ lastUsed \in [Buckets -> {lastUsed[b] : b \in Buckets}]
    /\ keepLoaded => loaded = lastUsed
    /\ JobsRunAsAsked

-----------------------------------------------------------------------------
\* What a job of each kind carries.
LEMMA AcceptedFields ==
    ASSUME NEW s \in Sent
    PROVE  LET j == Accepted(s)
           IN  /\ j = [kind |-> j.kind, req |-> j.req, src |-> j.src, src_latents |-> j.src_latents,
                       ref |-> j.ref, ref_latents |-> j.ref_latents]
               /\ j.kind = Kind(s) /\ j.kind \in Kinds
               /\ j.kind \in {"LM", "DEC"} => j.src = "none"
               /\ j.kind \in {"LM", "ENC"} => j.src_latents = "none"
               /\ j.kind # "SYNTH" => j.ref = "none" /\ j.ref_latents = "none"
BY EndpointsAssumption DEF Accepted, Kind, Kinds

\* The words after the first two are read where they stand.
ReadBack(p, a, b, t) ==
    Word(p, 1) = a /\ Word(p, 2) = b /\ \A i \in 1 .. Len(t) : Word(p, i + 2) = t[i]

LEMMA WordsInOrder ==
    ASSUME NEW S, NEW a \in S, NEW b \in S, NEW t \in Seq(S)
    PROVE  ReadBack(<<a, b>> \o t, a, b, t)
<1> DEFINE s == <<a, b>>
<1>1. s \in Seq(S) /\ Len(s) = 2 /\ s[1] = a /\ s[2] = b
  OBVIOUS
<1> HIDE DEF s
<1>2. s \o t \in Seq(S) /\ Len(s \o t) = 2 + Len(t) /\ Len(t) \in Nat
      /\ \A i \in 1 .. 2 + Len(t) : (s \o t)[i] = IF i <= 2 THEN s[i] ELSE t[i - 2]
  <2>1. /\ s \o t \in Seq(S) /\ Len(s \o t) = Len(s) + Len(t)
        /\ \A i \in 1 .. Len(s) + Len(t) : (s \o t)[i] = IF i <= Len(s) THEN s[i] ELSE t[i - Len(s)]
    BY <1>1, ConcatProperties
  <2>2. Len(t) \in Nat
    OBVIOUS
  <2>3. QED BY <1>1, <2>1, <2>2
<1>3. DOMAIN (s \o t) = 1 .. 2 + Len(t)
  BY <1>2
<1>4. Word(s \o t, 1) = a /\ Word(s \o t, 2) = b
  BY <1>1, <1>2, <1>3 DEF Word
<1>5. ASSUME NEW i \in 1 .. Len(t) PROVE Word(s \o t, i + 2) = t[i]
  BY <1>2, <1>3 DEF Word
<1>6. QED BY <1>4, <1>5 DEF s, ReadBack

\* What is packed is what is unpacked, field by field.
LEMMA PipeIsFaithful ==
    ASSUME NEW kind \in Kinds, NEW req, NEW src, NEW lat, NEW ref, NEW rlat,
           kind \in {"LM", "DEC"} => src = "none",
           kind \in {"LM", "ENC"} => lat = "none",
           kind # "SYNTH" => ref = "none" /\ rlat = "none"
    PROVE  LET j == [kind |-> kind, req |-> req, src |-> src, src_latents |-> lat,
                     ref |-> ref, ref_latents |-> rlat]
           IN  Unpack(Pack(j)) = j
<1> DEFINE j == [kind |-> kind, req |-> req, src |-> src, src_latents |-> lat,
                 ref |-> ref, ref_latents |-> rlat]
<1> DEFINE p == Pack(j)
           S == {kind, req, src, lat, ref, rlat, req.format_ok}
<1>0. j.kind = kind /\ j.req = req /\ j.src = src /\ j.src_latents = lat /\ j.ref = ref
      /\ j.ref_latents = rlat
  OBVIOUS
<1>1. kind \in S /\ req \in S
  OBVIOUS
<1>2. CASE kind = "SYNTH"
  <2> DEFINE t == <<src, lat, ref, rlat, req.format_ok>>
  <2>1. p = <<kind, req>> \o t
    BY <1>0, <1>2 DEF Pack
  <2>2. t \in Seq(S) /\ Len(t) = 5
    OBVIOUS
  <2>3. t[1] = src /\ t[2] = lat /\ t[3] = ref /\ t[4] = rlat /\ t[5] = req.format_ok
    OBVIOUS
  <2> HIDE DEF t, p, S
  <2>4. ReadBack(p, kind, req, t)
    BY <1>1, <2>1, <2>2, WordsInOrder
  <2>5. Word(p, 1) = kind /\ Word(p, 2) = req /\ Word(p, 3) = src /\ Word(p, 4) = lat /\ Word(p, 5) = ref /\ Word(p, 6) = rlat
    BY <2>2, <2>3, <2>4 DEF ReadBack
  <2>6. QED BY <1>2, <2>5 DEF Unpack, p
<1>3. CASE kind = "UND"
  <2> DEFINE t == <<src, lat>>
  <2>1. p = <<kind, req>> \o t
    BY <1>0, <1>3 DEF Pack
  <2>2. t \in Seq(S) /\ Len(t) = 2
    OBVIOUS
  <2>3. t[1] = src /\ t[2] = lat
    OBVIOUS
  <2> HIDE DEF t, p, S
  <2>4. ReadBack(p, kind, req, t)
    BY <1>1, <2>1, <2>2, WordsInOrder
  <2>5. Word(p, 1) = kind /\ Word(p, 2) = req /\ Word(p, 3) = src /\ Word(p, 4) = lat
    BY <2>2, <2>3, <2>4 DEF ReadBack
  <2>6. QED BY <1>3, <2>5 DEF Unpack, p
<1>4. CASE kind = "ENC"
  <2> DEFINE t == <<src>>
  <2>1. p = <<kind, req>> \o t
    BY <1>0, <1>4 DEF Pack
  <2>2. t \in Seq(S) /\ Len(t) = 1
    OBVIOUS
  <2>3. t[1] = src
    OBVIOUS
  <2> HIDE DEF t, p, S
  <2>4. ReadBack(p, kind, req, t)
    BY <1>1, <2>1, <2>2, WordsInOrder
  <2>5. Word(p, 1) = kind /\ Word(p, 2) = req /\ Word(p, 3) = src
    BY <2>2, <2>3, <2>4 DEF ReadBack
  <2>6. QED BY <1>4, <2>5 DEF Unpack, p
<1>5. CASE kind = "DEC"
  <2> DEFINE t == <<lat, req.format_ok>>
  <2>1. p = <<kind, req>> \o t
    BY <1>0, <1>5 DEF Pack
  <2>2. t \in Seq(S) /\ Len(t) = 2
    OBVIOUS
  <2>3. t[1] = lat /\ t[2] = req.format_ok
    OBVIOUS
  <2> HIDE DEF t, p, S
  <2>4. ReadBack(p, kind, req, t)
    BY <1>1, <2>1, <2>2, WordsInOrder
  <2>5. Word(p, 1) = kind /\ Word(p, 2) = req /\ Word(p, 3) = lat
    BY <2>2, <2>3, <2>4 DEF ReadBack
  <2>6. QED BY <1>5, <2>5 DEF Unpack, p
<1>6. CASE kind = "LM"
  <2>1. p = <<kind, req>> \o <<>>
    BY <1>0, <1>6 DEF Pack
  <2>2. <<kind, req>> \in Seq(S)
    OBVIOUS
  <2> HIDE DEF p, S
  <2>3. p = <<kind, req>>
    BY <2>1, <2>2, ConcatEmptySeq
  <2>4. Word(p, 1) = kind /\ Word(p, 2) = req
    BY <2>3 DEF Word
  <2>5. QED BY <1>6, <2>4 DEF Unpack, p
<1>7. QED BY <1>2, <1>3, <1>4, <1>5, <1>6 DEF Kinds

LEMMA JobCrossesPipe == ASSUME NEW s \in Sent PROVE Unpack(Pack(Accepted(s))) = Accepted(s)
<1> DEFINE j == Accepted(s)
<1>1. PICK kind, req, src, lat, ref, rlat :
         /\ kind \in Kinds
         /\ j = [kind |-> kind, req |-> req, src |-> src, src_latents |-> lat,
                 ref |-> ref, ref_latents |-> rlat]
         /\ kind \in {"LM", "DEC"} => src = "none"
         /\ kind \in {"LM", "ENC"} => lat = "none"
         /\ kind # "SYNTH" => ref = "none" /\ rlat = "none"
  BY AcceptedFields
<1> HIDE DEF j
<1>2. QED BY <1>1, PipeIsFaithful DEF j

\* Whatever was answered with 200 has the parts its kind needs.
LEMMA AcceptedIsWhole ==
    ASSUME NEW s \in Sent, Answer(s) = 200
    PROVE  LET j == Accepted(s)
               given(part, x) == x # "none" <=> s.form /\ part # "none"
           IN  /\ j.kind = "SYNTH" => /\ given(s.src_latents, j.src_latents) /\ given(s.audio, j.src)
                                      /\ given(s.ref_latents, j.ref_latents)
               /\ j.kind = "UND" => j.src # "none" \/ j.src_latents # "none"
               /\ j.kind \in {"ENC", "DEC"} => (j.src = "none") # (j.src_latents = "none")
<1> USE DEF Accepted, Kind, InForm, Samples, Audio, Latents, BadLatents, BadAudio
<1>1. CASE s.to = "/lm"
  BY <1>1
<1>2. CASE s.to = "/synth"
  <2>1. SynthAnswer(s) = 200
    BY <1>2 DEF Answer
  <2>2. QED BY <1>2, <2>1, EndpointsAssumption DEF SynthAnswer
<1>3. CASE s.to = "/understand"
  <2>1. UnderstandAnswer(s) = 200
    BY <1>3 DEF Answer
  <2>2. QED BY <1>3, <2>1, EndpointsAssumption DEF UnderstandAnswer
<1>4. CASE s.to = "/vae"
  <2>1. VaeAnswer(s) = 200
    BY <1>4 DEF Answer
  <2>2. QED BY <1>4, <2>1, EndpointsAssumption DEF VaeAnswer
<1>5. QED BY <1>1, <1>2, <1>3, <1>4, EndpointsAssumption

\* A name that is asked for is taken, and one that is not is the name kept.
LEMMA ResolveKeeps ==
    ASSUME NEW b, NEW asked
    PROVE  /\ asked # NoName => Resolve(b, asked) = asked
           /\ asked = NoName /\ loaded[b] # NoName => Resolve(b, asked) = loaded[b]
BY DEF Resolve

\* A job that has ended well ran on the models it asked for.
LEMMA EndedOnItsModels ==
    ASSUME NEW j, NEW named, EpInv, Ends(j, named), UNCHANGED <<dir, keepLoaded>>
    PROVE  StaysOnItsModels'
<1>1. ran' = <<[job |-> j, ended |-> TRUE, models |-> Taken(j), before |-> lastUsed]>> /\ AllFound(j)
  BY DEF Ends, Ran
<1>2. ran'[1] = [job |-> j, ended |-> TRUE, models |-> Taken(j), before |-> lastUsed]
  BY <1>1
<1>3. SUFFICES ASSUME NEW b \in Needs(j.kind)
               PROVE  /\ Asked(j.req, b) # NoName => Taken(j)[b] = Asked(j.req, b)
                      /\ Asked(j.req, b) = NoName /\ keepLoaded /\ lastUsed[b] # NoName =>
                            Taken(j)[b] = lastUsed[b]
                      /\ Installed(b, Taken(j)[b])
  BY <1>2, SMTT(30) DEF StaysOnItsModels, Installed, Registry, Asked
<1>4. b \in Buckets
  BY DEF Needs, Buckets, Lm, Dit, Vae
<1>5. Taken(j)[b] = Resolve(b, Asked(j.req, b))
  BY <1>4 DEF Taken
<1>6. keepLoaded => loaded[b] = lastUsed[b]
  BY DEF EpInv
<1>7. Installed(b, Taken(j)[b])
  BY <1>1 DEF AllFound
<1>8. QED BY <1>5, <1>6, <1>7, ResolveKeeps

\* Where the models stay, the names kept are those of the last jobs.
LEMMA EndedKeepsNames ==
    ASSUME NEW j, NEW named, EpInv, Ends(j, named), UNCHANGED keepLoaded
    PROVE  /\ loaded' \in [Buckets -> {loaded'[b] : b \in Buckets}]
           /\ lastUsed' \in [Buckets -> {lastUsed'[b] : b \in Buckets}]
           /\ keepLoaded' => loaded' = lastUsed'
<1>1. /\ loaded' = Sticky(j, named)
      /\ lastUsed' = [b \in Buckets |-> IF b \in named THEN Taken(j)[b] ELSE lastUsed[b]]
  BY DEF Ends
<1>2. keepLoaded => loaded = lastUsed
  BY DEF EpInv
<1>3. QED BY <1>1, <1>2 DEF Sticky

\* The answer depends on the request and on what is installed.
LEMMA SameAnswer == ASSUME NEW s, UNCHANGED dir PROVE Answer(s)' = Answer(s)
<1>1. Missing({Lm})' = Missing({Lm}) /\ Missing({Dit, Enc, Vae})' = Missing({Dit, Enc, Vae})
      /\ Missing({Lm, Dit, Vae})' = Missing({Lm, Dit, Vae}) /\ Missing({Vae})' = Missing({Vae})
  BY DEF Missing, Registry
<1>2. LmAnswer(s)' = LmAnswer(s)
  BY <1>1 DEF LmAnswer
<1>3. SynthAnswer(s)' = SynthAnswer(s)
  BY <1>1 DEF SynthAnswer
<1>4. UnderstandAnswer(s)' = UnderstandAnswer(s)
  BY <1>1 DEF UnderstandAnswer
<1>5. VaeAnswer(s)' = VaeAnswer(s)
  BY <1>1 DEF VaeAnswer
<1>6. QED BY <1>2, <1>3, <1>4, <1>5 DEF Answer

LEMMA EpStarts == EpInit => EpInv
BY DEF EpInit, EpInv, Nothing, JobsRunAsAsked, RunsOnWhatWasSent, StaysOnItsModels

LEMMA PostInv == ASSUME EpInv, NEW s \in Sent, Post(s) PROVE EpInv'
<1>1. ran' = <<>> /\ UNCHANGED <<dir, keepLoaded, loaded, lastUsed>>
  BY DEF Post
<1>2. JobsRunAsAsked'
  BY <1>1 DEF JobsRunAsAsked, RunsOnWhatWasSent, StaysOnItsModels
<1>3. epPc' \in {"idle", "queued"}
      /\ (epPc' = "queued" => Answer(s) = 200 /\ sent' = s /\ job' = Accepted(s))
  BY DEF Post
<1>4. Answer(s)' = Answer(s)
  BY <1>1, SameAnswer
<1>5. epPc' = "queued" => \E x \in Sent : sent' = x /\ Answer(x)' = 200 /\ job' = Accepted(x)
  BY <1>3, <1>4
<1>6. QED BY <1>1, <1>2, <1>3, <1>5 DEF EpInv

LEMMA RunInv == ASSUME EpInv, Run PROVE EpInv'
<1>1. /\ epPc = "queued" /\ epPc' = "idle"
      /\ UNCHANGED <<dir, isolated, keepLoaded, sent, posts, job>>
  BY DEF Run
<1>2. sent \in Sent /\ Answer(sent) = 200 /\ job = Accepted(sent)
  BY <1>1 DEF EpInv
<1> DEFINE j == IF isolated THEN Unpack(Pack(job)) ELSE job
<1>3. j = job
  BY <1>2, JobCrossesPipe
<1> HIDE DEF j
<1>4. ASSUME ran' # <<>> => ran'[1].job = j
      PROVE  RunsOnWhatWasSent'
  BY <1>1, <1>2, <1>3, <1>4, AcceptedIsWhole DEF RunsOnWhatWasSent
<1>5. CASE isolated /\ Oversized(job)
  <2>1. loaded' = Nothing /\ lastUsed' = Nothing /\ ran' = <<>>
    BY <1>5 DEF Run
  <2>2. QED BY <1>1, <1>4, <2>1 DEF EpInv, JobsRunAsAsked, StaysOnItsModels, Nothing
<1>6. ASSUME NEW named, Ends(j, named) PROVE EpInv'
  <2>1. ran'[1].job = j
    BY <1>6 DEF Ends, Ran
  <2>2. QED BY <1>1, <1>4, <1>6, <2>1, EndedOnItsModels, EndedKeepsNames DEF EpInv, JobsRunAsAsked
<1>7. CASE Fails(j)
  <2>1. ran'[1].job = j /\ ~ran'[1].ended
    BY <1>7 DEF Fails, Ran
  <2>2. UNCHANGED <<loaded, lastUsed>>
    BY <1>7 DEF Fails
  <2>3. QED BY <1>1, <1>4, <2>1, <2>2 DEF EpInv, JobsRunAsAsked, StaysOnItsModels
<1>8. CASE ~(isolated /\ Oversized(job))
  <2>1. \/ LmWorker(j) \/ SynthWorker(j) \/ UnderstandWorker(j)
        \/ DecodeWorker(j) \/ EncodeWorker(j) \/ Fails(j)
    BY <1>8 DEF Run, j
  <2>2. QED BY <1>6, <1>7, <2>1
               DEF LmWorker, SynthWorker, UnderstandWorker, DecodeWorker, EncodeWorker
<1>9. QED BY <1>5, <1>8

LEMMA WorkerGoneInv == ASSUME EpInv, WorkerGone PROVE EpInv'
BY DEF EpInv, WorkerGone, Nothing, JobsRunAsAsked, RunsOnWhatWasSent, StaysOnItsModels

LEMMA EpStutters == ASSUME EpInv, UNCHANGED epVars PROVE EpInv'
<1>1. UNCHANGED <<dir, keepLoaded, loaded, sent, epPc, job, ran, lastUsed>>
  BY DEF epVars
<1>2. epPc' = "queued" => \E s \in Sent : sent' = s /\ Answer(s)' = 200 /\ job' = Accepted(s)
  BY <1>1, SameAnswer DEF EpInv
<1>3. RunsOnWhatWasSent'
  BY <1>1 DEF EpInv, JobsRunAsAsked, RunsOnWhatWasSent
<1>4. StaysOnItsModels'
  <2>1. ASSUME NEW b, NEW m PROVE Installed(b, m)' = Installed(b, m)
    BY <1>1 DEF Installed, Registry
  <2>2. StaysOnItsModels
    BY DEF EpInv, JobsRunAsAsked
  <2>3. QED BY <1>1, <2>1, <2>2 DEF StaysOnItsModels
<1>5. QED BY <1>1, <1>2, <1>3, <1>4 DEF EpInv, JobsRunAsAsked

\* Whichever process serves it, an accepted request runs on the parts its client
\* sent and on the models it asked for, or on the ones this process loaded last
\* where it names none (handle_*, pk_*, worker_dispatch, resolve_name).
THEOREM RequestsRunAsAsked == EpSpec => []JobsRunAsAsked
<1>1. EpInit => EpInv
  BY EpStarts
<1>2. EpInv /\ [EpNext]_epVars => EpInv'
  BY PostInv, RunInv, WorkerGoneInv, EpStutters DEF EpNext
<1>3. EpInv => JobsRunAsAsked
  BY DEF EpInv
<1>4. QED BY <1>1, <1>2, <1>3, PTL DEF EpSpec

-----------------------------------------------------------------------------
(***************************************************************************)
(* MetadataFsm: the block the LM writes.                                   *)
(***************************************************************************)

Token == FreeText \cup {Digit(n) : n \in Nat}

Places ==
    {At("name", f) : f \in Field} \cup {At("value", f) : f \in Field}
      \cup {At("think_end", "none"), At("codes", "none")}

Machine ==
    [at : Places, name_pos : {0, 1}, acc : Seq(Token), inject : Seq(Token), pending_newline : BOOLEAN,
     ending : BOOLEAN, pending_name : Seq(Token)]

\* The queue holds what is left of the value that is given, up to its newline.
Queued(m, given) ==
    m.inject # <<>> =>
        /\ m.at.part = "value" /\ m.at.field \in Forcing(given)
        /\ \A i \in 1 .. Len(m.inject) : m.inject[i] = NL <=> i = Len(m.inject)

\* What has been spelt begins one of the field's values.
Spelling(m, given) ==
    m.at.part = "value" /\ m.at.field \notin Forcing(given) \cup {"caption"} =>
        \E v \in Values[m.at.field] :
            Len(m.acc) <= Len(v) /\ \A i \in 1 .. Len(m.acc) : m.acc[i] = Digit(v[i])

\* Only the caption waits for the end of its line or of a field's name.
Waiting(m) ==
    /\ m.pending_newline \/ m.ending => m.at = At("value", "caption")
    /\ ~(m.pending_newline /\ m.ending)

MachineOK(m, given) == m \in Machine /\ Queued(m, given) /\ Spelling(m, given) /\ Waiting(m)

\* Where in the block the automaton is, seven at its end.
Here(at) == IF at.part \in {"name", "value"} THEN Position(at.field) ELSE 7

\* What has been written: nothing, bpm, or bpm and the fields from the k-th to the
\* one before the automaton's place.
InOrder(at, w) ==
    \/ w = <<>> /\ Here(at) = 1
    \/ Len(w) = 1 /\ w[1][1] = "bpm" /\ Here(at) = 2
    \/ \E k \in 3 .. 6 :
          /\ Len(w) >= 1 /\ w[1][1] = "bpm" /\ Here(at) = k + Len(w) - 1
          /\ \A i \in 2 .. Len(w) : w[i][1] = Fields[k + i - 2]

LegalOf(f, given) ==
    {Digits(v) : v \in IF f \in Forcing(given) THEN {given[f]} ELSE Values[f]}

BlockOK(m, w, given) ==
    /\ MachineOK(m, given)
    /\ w \in Seq(Field \X Seq(Token))
    /\ \A i \in 1 .. Len(w) : w[i][2] \in LegalOf(w[i][1], given)
    /\ InOrder(m.at, w)

FsmInv == ask \in Asks /\ BlockOK(fsm, written, ask.given) /\ GivenIsKept

-----------------------------------------------------------------------------
LEMMA FieldSix == Field = {"bpm", "caption", "duration", "keyscale", "language", "timesignature"}
<1>1. DOMAIN Fields = 1 .. 6
  BY DEF Fields
<1>2. ASSUME NEW f \in Field
      PROVE  f \in {"bpm", "caption", "duration", "keyscale", "language", "timesignature"}
  BY <1>1 DEF Field, Fields
<1>3. ASSUME NEW f \in {"bpm", "caption", "duration", "keyscale", "language", "timesignature"}
      PROVE  f \in Field
  <2>1. /\ Fields[1] = "bpm" /\ Fields[2] = "caption" /\ Fields[3] = "duration"
        /\ Fields[4] = "keyscale" /\ Fields[5] = "language" /\ Fields[6] = "timesignature"
    BY DEF Fields
  <2>2. QED BY <1>1, <2>1 DEF Field
<1>4. QED BY <1>2, <1>3

\* Every field has its place in the block.
LEMMA Positions ==
    /\ Position("bpm") = 1 /\ Position("caption") = 2 /\ Position("duration") = 3
    /\ Position("keyscale") = 4 /\ Position("language") = 5 /\ Position("timesignature") = 6
    /\ \A i \in 1 .. 6 : Position(Fields[i]) = i
    /\ \A f \in Field : Position(f) \in 1 .. 6 /\ Fields[Position(f)] = f
<1>1. DOMAIN Fields = 1 .. 6 /\ Len(Fields) = 6
  BY DEF Fields
<1>2. ASSUME NEW i \in 1 .. 6, NEW j \in 1 .. 6, Fields[i] = Fields[j] PROVE i = j
  BY <1>2 DEF Fields
<1>3. ASSUME NEW i \in 1 .. 6 PROVE Position(Fields[i]) = i
  <2>1. \A j \in DOMAIN Fields : Fields[j] = Fields[i] => j = i
    BY <1>1, <1>2
  <2>2. QED BY <1>1, <2>1 DEF Position
<1>4. /\ Fields[1] = "bpm" /\ Fields[2] = "caption" /\ Fields[3] = "duration"
      /\ Fields[4] = "keyscale" /\ Fields[5] = "language" /\ Fields[6] = "timesignature"
  BY DEF Fields
<1>5. /\ Position("bpm") = 1 /\ Position("caption") = 2 /\ Position("duration") = 3
      /\ Position("keyscale") = 4 /\ Position("language") = 5 /\ Position("timesignature") = 6
  BY <1>3, <1>4
<1>6. QED BY <1>3, <1>4, <1>5, FieldSix

\* The name that follows a field's value.
LEMMA NextNames ==
    ASSUME NEW f \in Field, ask \in Asks
    PROVE  /\ f = "bpm" => NextName(f) \in {At("name", "caption"), At("name", "duration")}
           /\ f # "bpm" /\ Position(f) < 6 => NextName(f) = At("name", Fields[Position(f) + 1])
           /\ Position(f) = 6 => NextName(f) = At("think_end", "none")
<1>1. NextName(f) = LET n == IF f = "bpm" /\ ask.skip_caption THEN 3 ELSE Position(f) + 1
                    IN  IF n > Len(Fields) THEN At("think_end", "none") ELSE At("name", Fields[n])
  BY DEF NextName, Position
<1>2. Len(Fields) = 6 /\ Fields[2] = "caption" /\ Fields[3] = "duration"
  BY DEF Fields
<1>3. f = "bpm" <=> Position(f) = 1
  BY Positions, FieldSix
<1>4. Position(f) \in 1 .. 6
  BY Positions
<1>5. CASE f = "bpm" /\ ask.skip_caption
  BY <1>1, <1>2, <1>3, <1>5
<1>6. CASE f = "bpm" /\ ~ask.skip_caption
  BY <1>1, <1>2, <1>3, <1>6
<1>7. CASE f # "bpm"
  <2>1. NextName(f) = IF Position(f) + 1 > 6 THEN At("think_end", "none") ELSE At("name", Fields[Position(f) + 1])
    BY <1>1, <1>2, <1>7
  <2>2. QED BY <1>4, <1>7, <2>1
<1>8. QED BY <1>5, <1>6, <1>7

\* A value written keeps the block in order.
LEMMA Advance ==
    ASSUME ask \in Asks, NEW f \in Field \ {"caption"}, NEW w \in Seq(Field \X Seq(Token)),
           NEW v \in Seq(Token), InOrder(At("value", f), w)
    PROVE  InOrder(NextName(f), Append(w, <<f, v>>)) /\ NextName(f) \in Places
<1> DEFINE w2 == Append(w, <<f, v>>)
<1>1. /\ Len(w2) = Len(w) + 1 /\ Len(w) \in Nat /\ w2[Len(w) + 1][1] = f
      /\ \A i \in 1 .. Len(w) : w2[i] = w[i]
  OBVIOUS
<1>2. Here(At("value", f)) = Position(f)
  BY DEF Here, At
<1>3. ASSUME NEW g \in Field PROVE Here(At("name", g)) = Position(g) /\ At("name", g) \in Places
  BY DEF Here, At, Places
<1>4. Here(At("think_end", "none")) = 7 /\ At("think_end", "none") \in Places
  BY DEF Here, At, Places
<1> HIDE DEF w2
<1>5. CASE f = "bpm"
  <2>1. w = <<>>
    BY <1>2, <1>5, Positions, <1>1 DEF InOrder
  <2>2. Len(w2) = 1 /\ w2[1][1] = "bpm"
    BY <1>1, <1>5, <2>1
  <2>3. CASE NextName(f) = At("name", "caption")
    BY <1>3, <2>2, <2>3, Positions, FieldSix DEF InOrder, w2
  <2>4. CASE NextName(f) = At("name", "duration")
    <3>1. Here(NextName(f)) = 3 /\ NextName(f) \in Places
      BY <1>3, <2>4, Positions, FieldSix
    <3>2. \A i \in 2 .. Len(w2) : w2[i][1] = Fields[3 + i - 2]
      BY <2>2
    <3>3. QED BY <2>2, <3>1, <3>2 DEF InOrder, w2
  <2>5. QED BY <1>5, <2>3, <2>4, NextNames
<1>6. CASE f # "bpm"
  <2>1. Position(f) \in 3 .. 6
    BY <1>6, Positions, FieldSix
  <2>2. PICK k \in 3 .. 6 :
           /\ Len(w) >= 1 /\ w[1][1] = "bpm" /\ Position(f) = k + Len(w) - 1
           /\ \A i \in 2 .. Len(w) : w[i][1] = Fields[k + i - 2]
    BY <1>2, <2>1 DEF InOrder
  <2>3. Len(w2) >= 1 /\ w2[1][1] = "bpm"
    BY <1>1, <2>2
  <2>4. ASSUME NEW i \in 2 .. Len(w2) PROVE w2[i][1] = Fields[k + i - 2]
    <3>1. CASE i = Len(w) + 1
      <4>1. k + i - 2 = Position(f)
        BY <1>1, <2>2, <3>1
      <4>2. Fields[Position(f)] = f
        BY Positions
      <4>3. QED BY <1>1, <3>1, <4>1, <4>2
    <3>2. CASE i # Len(w) + 1
      <4>1. i \in 2 .. Len(w) /\ i \in 1 .. Len(w)
        BY <1>1, <3>2
      <4>2. QED BY <1>1, <2>2, <4>1
    <3>3. QED BY <3>1, <3>2
  <2>5. Here(NextName(f)) = Position(f) + 1 /\ NextName(f) \in Places
    <3>1. CASE Position(f) = 6
      <4>1. NextName(f) = At("think_end", "none")
        BY <3>1, NextNames
      <4>2. QED BY <1>4, <3>1, <4>1
    <3>2. CASE Position(f) # 6
      <4>1. Position(f) + 1 \in 1 .. 6
        BY <2>1, <3>2
      <4>2. Fields[Position(f) + 1] \in Field /\ Position(Fields[Position(f) + 1]) = Position(f) + 1
        <5>1. DOMAIN Fields = 1 .. 6
          BY DEF Fields
        <5>2. QED BY <4>1, <5>1, Positions DEF Field
      <4>3. NextName(f) = At("name", Fields[Position(f) + 1])
        <5>1. Position(f) < 6
          BY <2>1, <3>2
        <5>2. QED BY <1>6, <5>1, NextNames
      <4>4. QED BY <1>3, <4>2, <4>3
    <3>3. QED BY <3>1, <3>2
  <2>6. Here(NextName(f)) = k + Len(w2) - 1
    BY <1>1, <2>2, <2>5
  <2>7. InOrder(NextName(f), w2)
    BY <2>3, <2>4, <2>6 DEF InOrder
  <2>8. QED BY <2>5, <2>7 DEF w2
<1>7. QED BY <1>5, <1>6

\* The tokens of a value.
LEMMA DigitTokens ==
    ASSUME NEW v \in Seq(Nat)
    PROVE  /\ Digits(v) \in Seq(Token) /\ Len(Digits(v)) = Len(v)
           /\ \A i \in 1 .. Len(v) : Digits(v)[i] = Digit(v[i]) /\ Digit(v[i]) \in Token /\ Digit(v[i]) # NL
           /\ Digits(v) \o <<NL>> \in Seq(Token) /\ Len(Digits(v) \o <<NL>>) = Len(v) + 1
           /\ \A i \in 1 .. Len(v) + 1 :
                 (Digits(v) \o <<NL>>)[i] = IF i = Len(v) + 1 THEN NL ELSE Digit(v[i])
<1>1. \A i \in 1 .. Len(v) : Digit(v[i]) \in Token /\ Digit(v[i]) # NL
  <2>1. ASSUME NEW i \in 1 .. Len(v) PROVE Digit(v[i]) \in Token
    BY DEF Token
  <2>2. ASSUME NEW i \in 1 .. Len(v) PROVE Digit(v[i]) # NL
    BY DEF Digit, NL
  <2>3. QED BY <2>1, <2>2
<1>2. DOMAIN v = 1 .. Len(v) /\ Len(v) \in Nat
  OBVIOUS
<1>3. /\ Digits(v) \in Seq(Token) /\ Len(Digits(v)) = Len(v)
      /\ \A i \in 1 .. Len(v) : Digits(v)[i] = Digit(v[i])
  BY <1>1, <1>2 DEF Digits
<1>4. <<NL>> \in Seq(Token) /\ Len(<<NL>>) = 1 /\ <<NL>>[1] = NL
  BY DEF Token, FreeText
<1> DEFINE s == <<NL>>
<1> HIDE DEF s
<1>5. /\ Digits(v) \o s \in Seq(Token) /\ Len(Digits(v) \o s) = Len(v) + 1
      /\ \A i \in 1 .. Len(v) + 1 :
            (Digits(v) \o s)[i] = IF i <= Len(v) THEN Digits(v)[i] ELSE s[i - Len(v)]
  BY <1>3, <1>4, ConcatProperties DEF s
<1>6. \A i \in 1 .. Len(v) + 1 : (Digits(v) \o s)[i] = IF i = Len(v) + 1 THEN NL ELSE Digit(v[i])
  BY <1>2, <1>3, <1>4, <1>5 DEF s
<1>7. QED BY <1>1, <1>3, <1>5, <1>6 DEF s

LEMMA DigitsTell ==
    ASSUME NEW u \in Seq(Nat), NEW v \in Seq(Nat), Digits(u) = Digits(v)
    PROVE  u = v
<1>1. Len(u) = Len(v)
  BY DigitTokens
<1>2. ASSUME NEW i \in 1 .. Len(u) PROVE u[i] = v[i]
  <2>1. Digits(u)[i] = Digit(u[i]) /\ Digits(v)[i] = Digit(v[i])
    BY <1>1, DigitTokens
  <2>2. Digit(u[i]) = Digit(v[i])
    BY <2>1
  <2>3. QED BY <2>2 DEF Digit
<1>3. QED BY <1>1, <1>2, SeqEqual

\* What a request gives.
LEMMA GivenTokens ==
    ASSUME ask \in Asks, NEW f \in DOMAIN ask.given
    PROVE  /\ f \in Field \ {"caption"}
           /\ ask.given[f] \in Seq(Nat) /\ Len(ask.given[f]) >= 1 /\ Len(ask.given[f]) \in Nat
           /\ Digits(ask.given[f]) \in Seq(Token) /\ Digits(ask.given[f]) # <<>>
<1>1. f \in Field \ {"caption"} /\ ask.given[f] \in Seq(Nat) /\ ask.given[f] # <<>>
  BY FsmAssumption
<1> DEFINE v == ask.given[f]
<1> HIDE DEF v
<1>2. v \in Seq(Nat) /\ Len(v) >= 1 /\ Len(v) \in Nat
  BY <1>1 DEF v
<1>3. Digits(v) \in Seq(Token) /\ Len(Digits(v)) = Len(v)
  BY <1>2, DigitTokens
<1>4. Digits(v) # <<>>
  BY <1>2, <1>3
<1>5. QED BY <1>1, <1>2, <1>3, <1>4 DEF v

\* Going somewhere leaves the queue empty and nothing spelt.
LEMMA Arrives ==
    ASSUME NEW m \in Machine, m.inject = <<>>, m.pending_newline = FALSE, m.ending = FALSE,
           NEW at \in Places, NEW given, at.part = "value" => at.field \in Field
    PROVE  MachineOK(Goto(m, at), given)
<1> DEFINE n == Goto(m, at)
<1>1. /\ n.at = at /\ n.acc = <<>> /\ n.inject = <<>> /\ n.pending_newline = FALSE /\ n.ending = FALSE
      /\ n \in Machine
  BY DEF Goto, Machine
<1> HIDE DEF n
<1>2. Spelling(n, given)
  <2>1. SUFFICES ASSUME n.at.part = "value", n.at.field \notin Forcing(given) \cup {"caption"}
                 PROVE  \E v \in Values[n.at.field] :
                            Len(n.acc) <= Len(v) /\ \A i \in 1 .. Len(n.acc) : n.acc[i] = Digit(v[i])
    BY DEF Spelling
  <2>2. n.at.field \in Field \ {"caption"}
    BY <1>1, <2>1
  <2>3. PICK v \in Values[n.at.field] : v \in Seq(Nat)
    BY <2>2, FsmAssumption
  <2>4. Len(n.acc) = 0 /\ Len(v) \in Nat
    BY <1>1, <2>3
  <2>5. QED BY <2>3, <2>4
<1>3. QED BY <1>1, <1>2 DEF MachineOK, Queued, Waiting, n

\* A place is a field's name, its value, or the end of the block.
LEMMA PlaceOf ==
    ASSUME NEW at \in Places
    PROVE  /\ at.part \in {"name", "value"} => at.field \in Field /\ at = At(at.part, at.field)
           /\ at.part \in {"name", "value", "think_end", "codes"}
BY DEF Places, At

\* What the automaton holds once the masks have been applied.
LEMMA MaskKeeps ==
    ASSUME ask \in Asks, NEW m, MachineOK(m, ask.given)
    PROVE  /\ MachineOK(Masked(m), ask.given) /\ Masked(m).at = m.at
           /\ Masked(m).inject = <<>> /\ m.at.part = "value" =>
                 m.at.field \notin Forcing(ask.given)
<1> DEFINE n == Masked(m)
<1>1. CASE ~(m.inject = <<>> /\ m.at.part = "value" /\ Forced(m.at.field))
  BY <1>1 DEF Masked, Forced
<1>2. CASE m.inject = <<>> /\ m.at.part = "value" /\ Forced(m.at.field)
  <2> DEFINE v == ask.given[m.at.field]
             q == Digits(v) \o <<NL>>
  <2>1. n = [m EXCEPT !.inject = q]
    BY <1>2 DEF Masked
  <2>4. m.at.field \in Forcing(ask.given) /\ m.at.field \in DOMAIN ask.given
    BY <1>2 DEF Forced, Forcing
  <2> HIDE DEF v
  <2>2. /\ q \in Seq(Token) /\ Len(q) = Len(v) + 1 /\ q # <<>>
        /\ \A i \in 1 .. Len(q) : q[i] = NL <=> i = Len(q)
    <3>1. v \in Seq(Nat) /\ Len(v) \in Nat
      BY <2>4, GivenTokens DEF v
    <3>2. /\ q \in Seq(Token) /\ Len(q) = Len(v) + 1
          /\ \A i \in 1 .. Len(v) + 1 :
                q[i] = IF i = Len(v) + 1 THEN NL ELSE Digit(v[i])
          /\ \A i \in 1 .. Len(v) : Digit(v[i]) # NL
      BY <3>1, DigitTokens
    <3> HIDE DEF q
    <3>3. \A i \in 1 .. Len(q) : q[i] = NL <=> i = Len(q)
      BY <3>1, <3>2
    <3>4. q # <<>>
      BY <3>1, <3>2
    <3>5. QED BY <3>2, <3>3, <3>4
  <2> HIDE DEF q
  <2>3. /\ n.inject = q /\ n.at = m.at /\ n.acc = m.acc /\ n.pending_newline = m.pending_newline
        /\ n.ending = m.ending /\ n \in Machine
    BY <2>1, <2>2 DEF MachineOK, Machine, q
  <2> HIDE DEF n
  <2>5. QED BY <1>2, <2>2, <2>3, <2>4 DEF MachineOK, Queued, Spelling, Waiting, n
<1>3. QED BY <1>1, <1>2

\* A whole value has been taken, and the automaton goes to the next name.
LEMMA ValueDone ==
    ASSUME ask \in Asks, NEW m, NEW w, BlockOK(m, w, ask.given), m.pending_newline = FALSE,
           m.ending = FALSE, m.at.part = "value", m.at.field # "caption", NEW q \in Seq(Token),
           NEW v \in LegalOf(m.at.field, ask.given), v \in Seq(Token), q = <<>>
    PROVE  BlockOK(Goto([m EXCEPT !.inject = q], NextName(m.at.field)),
                   Append(w, <<m.at.field, v>>), ask.given)
<1> DEFINE f == m.at.field
           n == [m EXCEPT !.inject = q]
           w2 == Append(w, <<f, v>>)
<1>1. m.at \in Places /\ m \in Machine /\ w \in Seq(Field \X Seq(Token))
  BY DEF BlockOK, MachineOK, Machine
<1>2. f \in Field \ {"caption"} /\ m.at = At("value", f)
  BY <1>1, PlaceOf
<1>3. n \in Machine /\ n.inject = <<>> /\ n.pending_newline = FALSE /\ n.ending = FALSE
  BY <1>1 DEF Machine
<1>4. InOrder(NextName(f), w2) /\ NextName(f) \in Places
  BY <1>1, <1>2, Advance DEF BlockOK
<1>5. NextName(f).part = "value" => NextName(f).field \in Field
  BY <1>4, PlaceOf
<1>6. MachineOK(Goto(n, NextName(f)), ask.given)
  BY <1>3, <1>4, <1>5, Arrives
<1>7. Goto(n, NextName(f)).at = NextName(f)
  BY <1>3 DEF Goto, Machine
<1>8. w2 \in Seq(Field \X Seq(Token)) /\ \A i \in 1 .. Len(w2) : w2[i][2] \in LegalOf(w2[i][1], ask.given)
  <2>1. <<f, v>> \in Field \X Seq(Token)
    BY <1>2
  <2>2. Len(w2) = Len(w) + 1 /\ \A i \in 1 .. Len(w2) : w2[i] = IF i = Len(w) + 1 THEN <<f, v>> ELSE w[i]
    BY <1>1, <2>1
  <2>3. w2 \in Seq(Field \X Seq(Token))
    BY <1>1, <2>1
  <2> HIDE DEF w2, f
  <2>4. ASSUME NEW i \in 1 .. Len(w2) PROVE w2[i][2] \in LegalOf(w2[i][1], ask.given)
    <3>1. CASE i = Len(w) + 1
      BY <2>2, <3>1 DEF f
    <3>2. CASE i # Len(w) + 1
      <4>1. i \in 1 .. Len(w)
        BY <1>1, <2>2, <3>2
      <4>2. QED BY <2>2, <3>2, <4>1 DEF BlockOK
    <3>3. QED BY <3>1, <3>2
  <2>5. QED BY <2>3, <2>4
<1> HIDE DEF n, w2, f
<1>9. BlockOK(Goto(n, NextName(f)), w2, ask.given)
  BY <1>4, <1>6, <1>7, <1>8 DEF BlockOK
<1>10. QED BY <1>9 DEF n, w2, f

\* What one token does to the block that is written.
Writes(m, t, w) ==
    IF ~Completes(m, t) THEN w
    ELSE Append(w, <<m.at.field, IF m.inject # <<>> THEN Digits(ask.given[m.at.field]) ELSE m.acc>>)

\* A value that is given is written from the queue.
LEMMA InjectedStep ==
    ASSUME ask \in Asks, NEW m, NEW w, BlockOK(m, w, ask.given), m.inject # <<>>, NEW t, t = Head(m.inject)
    PROVE  BlockOK(Update(m, t), Writes(m, t, w), ask.given)
<1> DEFINE n == Update(m, t)
           v == ask.given[m.at.field]
<1>1. /\ m \in Machine /\ m.at.part = "value" /\ m.at.field \in Forcing(ask.given)
      /\ m.at.field \in DOMAIN ask.given /\ m.at.field \in Field \ {"caption"}
      /\ \A i \in 1 .. Len(m.inject) : m.inject[i] = NL <=> i = Len(m.inject)
  BY FsmAssumption DEF BlockOK, MachineOK, Queued, Forcing
<1>2. m.pending_newline = FALSE /\ m.ending = FALSE
  <2>1. m.at # At("value", "caption")
    BY <1>1 DEF At
  <2>2. QED BY <1>1, <2>1 DEF BlockOK, MachineOK, Waiting, Machine
<1>3. n = Injected(m)
  BY DEF Update
<1>4. m.inject \in Seq(Token) /\ Len(m.inject) >= 1 /\ t = m.inject[1]
  BY <1>1 DEF Machine
<1>5. CASE Len(m.inject) = 1
  <2>1. t = NL
    BY <1>1, <1>4, <1>5
  <2>2. n = Goto([m EXCEPT !.inject = <<>>], NextName(m.at.field))
    BY <1>3, <1>5 DEF Injected
  <2>3. Writes(m, t, w) = Append(w, <<m.at.field, Digits(v)>>)
    BY <1>1, <2>1 DEF Writes, Completes
  <2>4. Digits(v) \in LegalOf(m.at.field, ask.given) /\ Digits(v) \in Seq(Token)
        /\ <<>> \in Seq(Token)
    BY <1>1, GivenTokens DEF LegalOf
  <2> HIDE DEF n, v
  <2>5. QED BY <1>1, <1>2, <2>2, <2>3, <2>4, ValueDone DEF n
<1>6. CASE Len(m.inject) # 1
  <2>1. t # NL
    <3>1. 1 \in 1 .. Len(m.inject)
      BY <1>4
    <3>2. m.inject[1] = NL <=> 1 = Len(m.inject)
      BY <1>1, <3>1
    <3>3. QED BY <1>4, <1>6, <3>2
  <2>2. n = [m EXCEPT !.inject = Tail(m.inject)]
    BY <1>3, <1>6 DEF Injected
  <2>3. Writes(m, t, w) = w
    BY <2>1 DEF Writes, Completes
  <2>4. /\ Tail(m.inject) \in Seq(Token) /\ Len(Tail(m.inject)) = Len(m.inject) - 1
        /\ \A i \in 1 .. Len(m.inject) - 1 : Tail(m.inject)[i] = m.inject[i + 1]
    BY <1>4
  <2>5. \A i \in 1 .. Len(Tail(m.inject)) : Tail(m.inject)[i] = NL <=> i = Len(Tail(m.inject))
    <3>1. ASSUME NEW i \in 1 .. Len(Tail(m.inject))
          PROVE  Tail(m.inject)[i] = NL <=> i = Len(Tail(m.inject))
      <4>1. i + 1 \in 1 .. Len(m.inject) /\ i \in 1 .. Len(m.inject) - 1
        BY <1>4, <2>4
      <4>2. Tail(m.inject)[i] = m.inject[i + 1]
        BY <2>4, <4>1
      <4>3. m.inject[i + 1] = NL <=> i + 1 = Len(m.inject)
        BY <1>1, <4>1
      <4>4. Len(m.inject) \in Nat
        BY <1>4
      <4>5. QED BY <2>4, <4>2, <4>3, <4>4
    <3>2. QED BY <3>1
  <2>6. /\ n \in Machine /\ n.at = m.at /\ n.inject = Tail(m.inject) /\ n.acc = m.acc
        /\ n.pending_newline = FALSE /\ n.ending = FALSE
    BY <1>1, <1>2, <2>2, <2>4 DEF Machine
  <2> HIDE DEF n
  <2>7. MachineOK(n, ask.given)
    BY <1>1, <2>5, <2>6 DEF MachineOK, Queued, Spelling, Waiting
  <2>8. BlockOK(n, w, ask.given)
    BY <2>6, <2>7 DEF BlockOK
  <2>9. QED BY <2>3, <2>8 DEF n
<1>7. QED BY <1>5, <1>6

\* A name is two tokens, then its value begins.
LEMMA NameStep ==
    ASSUME ask \in Asks, NEW m, NEW w, BlockOK(m, w, ask.given), m.inject = <<>>, m.at.part = "name", NEW t
    PROVE  BlockOK(Update(m, t), Writes(m, t, w), ask.given)
<1> DEFINE n == Update(m, t)
<1>1. m \in Machine /\ m.at \in Places /\ m.at.field \in Field
  <2>1. m \in Machine /\ m.at \in Places
    BY DEF BlockOK, MachineOK, Machine
  <2>2. QED BY <2>1, PlaceOf
<1>2. m.pending_newline = FALSE /\ m.ending = FALSE
  <2>1. m.at # At("value", "caption")
    BY DEF At
  <2>2. QED BY <1>1, <2>1 DEF BlockOK, MachineOK, Waiting, Machine
<1>3. n = Named(m)
  BY <1>2 DEF Update
<1>4. Writes(m, t, w) = w
  BY DEF Writes, Completes
<1>5. CASE m.name_pos + 1 < 2
  <2>1. n = [m EXCEPT !.name_pos = @ + 1]
    BY <1>3, <1>5 DEF Named, NameTokens
  <2>2. m.name_pos = 0
    BY <1>1, <1>5 DEF Machine
  <2>3. /\ n \in Machine /\ n.at = m.at /\ n.inject = <<>> /\ n.acc = m.acc
        /\ n.pending_newline = FALSE /\ n.ending = FALSE
    BY <1>1, <1>2, <2>1, <2>2, SMTT(30) DEF Machine
  <2> HIDE DEF n
  <2>4. MachineOK(n, ask.given)
    BY <2>3 DEF MachineOK, Queued, Spelling, Waiting
  <2>5. BlockOK(n, w, ask.given)
    BY <2>3, <2>4 DEF BlockOK
  <2>6. QED BY <1>4, <2>5 DEF n
<1>6. CASE ~(m.name_pos + 1 < 2)
  <2> DEFINE at == At("value", m.at.field)
  <2>1. n = Goto(m, at)
    BY <1>3, <1>6 DEF Named, NameTokens
  <2>2. at \in Places /\ at.field \in Field /\ at.part = "value" /\ at.field = m.at.field
    BY <1>1 DEF Places, At
  <2> HIDE DEF at
  <2>3. MachineOK(Goto(m, at), ask.given)
    BY <1>1, <1>2, <2>2, Arrives
  <2>4. Goto(m, at).at = at
    BY <1>1 DEF Goto, Machine
  <2>5. InOrder(at, w)
    BY <2>2 DEF BlockOK, InOrder, Here
  <2> HIDE DEF n
  <2>6. BlockOK(n, w, ask.given)
    BY <2>1, <2>3, <2>4, <2>5 DEF BlockOK
  <2>7. QED BY <1>4, <2>6 DEF n
<1>7. QED BY <1>5, <1>6

\* The block closes.
LEMMA ClosingStep ==
    ASSUME ask \in Asks, NEW m, NEW w, BlockOK(m, w, ask.given), m.inject = <<>>,
           m.at.part \in {"think_end", "codes"}, NEW t
    PROVE  BlockOK(Update(m, t), Writes(m, t, w), ask.given)
<1> DEFINE n == Update(m, t)
           at == At("codes", "none")
<1>1. m \in Machine
  BY DEF BlockOK, MachineOK
<1>2. m.pending_newline = FALSE /\ m.ending = FALSE
  <2>1. m.at # At("value", "caption")
    BY DEF At
  <2>2. QED BY <1>1, <2>1 DEF BlockOK, MachineOK, Waiting, Machine
<1>3. n = [m EXCEPT !.at = at]
  BY <1>2 DEF Update
<1>4. Writes(m, t, w) = w
  BY DEF Writes, Completes
<1>5. at \in Places /\ at.part = "codes"
  BY DEF Places, At
<1> HIDE DEF at
<1>6. /\ n \in Machine /\ n.at = at /\ n.inject = <<>>
      /\ n.pending_newline = FALSE /\ n.ending = FALSE
  BY <1>1, <1>2, <1>3, <1>5 DEF Machine
<1> HIDE DEF n
<1>7. MachineOK(n, ask.given)
  BY <1>5, <1>6 DEF MachineOK, Queued, Spelling, Waiting
<1>8. InOrder(at, w)
  BY <1>5 DEF BlockOK, InOrder, Here
<1>9. BlockOK(n, w, ask.given)
  BY <1>6, <1>7, <1>8 DEF BlockOK
<1>10. QED BY <1>4, <1>9 DEF n

\* What the masks let follow continues one of the field's values.
LEMMA NextOfTree ==
    ASSUME NEW f \in Field \ {"caption"}, NEW acc \in Seq(Token), NEW t,
           f \notin Forcing(ask.given),
           \E v \in Values[f] : Len(acc) <= Len(v) /\ \A i \in 1 .. Len(acc) : acc[i] = Digit(v[i]),
           t \in LET next == AfterPrefix(Tree(f), acc) IN IF next = {} THEN {NL} ELSE next
    PROVE  \E u \in Values[f] : /\ Len(acc) <= Len(u)
                                /\ \A i \in 1 .. Len(acc) : acc[i] = Digit(u[i])
                                /\ t = IF Len(acc) = Len(u) THEN NL ELSE Digit(u[Len(acc) + 1])
<1> DEFINE n == Len(acc)
           next == AfterPrefix(Tree(f), acc)
<1>1. n \in Nat /\ Values[f] \subseteq Seq(Nat)
  BY FsmAssumption
<1>2. Tree(f) = {Digits(v) \o <<NL>> : v \in Values[f]}
  BY DEF Tree, Forced
<1>3. ASSUME NEW v \in Values[f], n <= Len(v)
      PROVE  /\ Digits(v) \o <<NL>> \in Seq(Token) /\ Len(Digits(v) \o <<NL>>) = Len(v) + 1
             /\ Len(SubSeq(Digits(v) \o <<NL>>, 1, n)) = n
             /\ SubSeq(Digits(v) \o <<NL>>, 1, n) \in Seq(Token)
             /\ \A i \in 1 .. n : SubSeq(Digits(v) \o <<NL>>, 1, n)[i] = Digit(v[i])
  <2>1. v \in Seq(Nat) /\ Len(v) \in Nat
    BY <1>1
  <2> DEFINE s == Digits(v) \o <<NL>>
  <2>2. /\ s \in Seq(Token) /\ Len(s) = Len(v) + 1
        /\ \A i \in 1 .. Len(v) + 1 : s[i] = IF i = Len(v) + 1 THEN NL ELSE Digit(v[i])
    BY <2>1, DigitTokens
  <2> HIDE DEF s
  <2>3. /\ Len(SubSeq(s, 1, n)) = n /\ SubSeq(s, 1, n) \in Seq(Token)
        /\ \A i \in 1 .. n : SubSeq(s, 1, n)[i] = s[i]
    <3>1. n \in 0 .. Len(s)
      BY <1>1, <1>3, <2>1, <2>2
    <3>2. n = 0 => SubSeq(s, 1, n) = <<>>
      BY <2>2
    <3>3. QED BY <1>1, <2>2, <3>1, <3>2, SubSeqProperties
  <2>4. \A i \in 1 .. n : i \in 1 .. Len(v) + 1 /\ i # Len(v) + 1
    BY <1>1, <1>3, <2>1
  <2>5. \A i \in 1 .. n : SubSeq(s, 1, n)[i] = Digit(v[i])
    BY <2>2, <2>3, <2>4
  <2>6. QED BY <2>2, <2>3, <2>5 DEF s
<1>4. next # {}
  <2>1. PICK v \in Values[f] : n <= Len(v) /\ \A i \in 1 .. n : acc[i] = Digit(v[i])
    OBVIOUS
  <2> DEFINE s == Digits(v) \o <<NL>>
  <2>2. SubSeq(s, 1, n) = acc
    BY <1>3, <2>1, SeqEqual
  <2>3. s \in Tree(f) /\ Len(s) > n
    <3>1. Len(s) = Len(v) + 1 /\ Len(v) \in Nat
      BY <1>1, <1>3, <2>1
    <3>2. s \in Tree(f)
      BY <1>2, <2>1
    <3> HIDE DEF s
    <3>3. Len(s) > n
      BY <1>1, <2>1, <3>1
    <3>4. QED BY <3>2, <3>3
  <2> HIDE DEF s
  <2>4. s[n + 1] \in next
    BY <2>2, <2>3 DEF AfterPrefix
  <2>5. QED BY <2>4
<1>5. t \in next
  BY <1>4
<1>6. PICK s \in Tree(f) : Len(s) > n /\ SubSeq(s, 1, n) = acc /\ t = s[n + 1]
  BY <1>5 DEF AfterPrefix
<1>7. PICK u \in Values[f] : s = Digits(u) \o <<NL>>
  BY <1>2, <1>6
<1>8. /\ u \in Seq(Nat) /\ Len(u) \in Nat /\ Len(s) = Len(u) + 1
      /\ \A i \in 1 .. Len(u) + 1 : s[i] = IF i = Len(u) + 1 THEN NL ELSE Digit(u[i])
  <2>1. u \in Seq(Nat) /\ Len(u) \in Nat
    BY <1>1
  <2>2. QED BY <1>7, <2>1, DigitTokens
<1>9. n <= Len(u)
  BY <1>1, <1>6, <1>8
<1>10. \A i \in 1 .. n : acc[i] = Digit(u[i])
  BY <1>3, <1>6, <1>7, <1>9
<1>11. t = IF n = Len(u) THEN NL ELSE Digit(u[n + 1])
  <2>1. n + 1 \in 1 .. Len(u) + 1
    BY <1>1, <1>8, <1>9
  <2>2. n + 1 = Len(u) + 1 <=> n = Len(u)
    BY <1>1, <1>8
  <2>3. QED BY <1>6, <1>8, <2>1, <2>2
<1>12. QED BY <1>9, <1>10, <1>11

\* A value is spelt token by token, inside its tree.
LEMMA ValueStep ==
    ASSUME ask \in Asks, NEW m, NEW w, BlockOK(m, w, ask.given), m.inject = <<>>, m.at.part = "value",
           m.at.field # "caption", m.at.field \notin Forcing(ask.given), NEW t \in Allowed(m)
    PROVE  BlockOK(Update(m, t), Writes(m, t, w), ask.given)
<1> DEFINE n == Update(m, t)
           f == m.at.field
           acc == m.acc
<1>1. m \in Machine /\ f \in Field \ {"caption"} /\ acc \in Seq(Token) /\ m.at # At("value", "caption")
  <2>1. m \in Machine /\ m.at \in Places /\ m.acc \in Seq(Token)
    BY DEF BlockOK, MachineOK, Machine
  <2>2. QED BY <2>1, PlaceOf DEF At
<1>2. m.pending_newline = FALSE /\ m.ending = FALSE
  BY <1>1 DEF BlockOK, MachineOK, Waiting, Machine
<1>3. n = ValueToken(m, t)
  BY <1>2 DEF Update
<1>4. t \in LET next == AfterPrefix(Tree(f), acc) IN IF next = {} THEN {NL} ELSE next
  BY DEF Allowed
<1>5. \E v \in Values[f] : Len(acc) <= Len(v) /\ \A i \in 1 .. Len(acc) : acc[i] = Digit(v[i])
  BY DEF BlockOK, MachineOK, Spelling
<1> HIDE DEF f, acc
<1>6. PICK u \in Values[f] : /\ Len(acc) <= Len(u)
                             /\ \A i \in 1 .. Len(acc) : acc[i] = Digit(u[i])
                             /\ t = IF Len(acc) = Len(u) THEN NL ELSE Digit(u[Len(acc) + 1])
  <2>1. f \notin Forcing(ask.given)
    BY DEF f
  <2>2. QED BY <1>1, <1>4, <1>5, <2>1, NextOfTree, SMTT(30)
<1>7. u \in Seq(Nat) /\ Len(u) \in Nat /\ Len(acc) \in Nat
  BY <1>1, FsmAssumption
<1>8. CASE t = NL
  <2>1. Len(acc) = Len(u)
    <3>1. SUFFICES ASSUME Len(acc) # Len(u) PROVE FALSE
      OBVIOUS
    <3>2. Len(acc) + 1 \in 1 .. Len(u)
      BY <1>6, <1>7, <3>1
    <3>3. QED BY <1>6, <1>7, <1>8, <3>1, <3>2, DigitTokens
  <2>2. acc = Digits(u)
    <3>1. \A i \in 1 .. Len(u) : Digits(u)[i] = Digit(u[i])
      BY <1>7, DigitTokens
    <3>2. Digits(u) \in Seq(Token) /\ Len(Digits(u)) = Len(u)
      BY <1>7, DigitTokens
    <3>3. QED BY <1>1, <1>6, <2>1, <3>1, <3>2, SeqEqual
  <2>3. acc \in LegalOf(f, ask.given)
    BY <2>2 DEF LegalOf, f
  <2>4. n = Goto([m EXCEPT !.inject = <<>>], NextName(f))
    <3>1. [m EXCEPT !.inject = <<>>] = m
      BY <1>1 DEF Machine
    <3>2. QED BY <1>3, <1>8, <3>1 DEF ValueToken, f
  <2>5. Writes(m, t, w) = Append(w, <<f, acc>>)
    BY <1>8 DEF Writes, Completes, f, acc
  <2>6. <<>> \in Seq(Token)
    OBVIOUS
  <2> HIDE DEF n
  <2>7. BlockOK(Goto([m EXCEPT !.inject = <<>>], NextName(f)), Append(w, <<f, acc>>), ask.given)
    BY <1>1, <1>2, <2>3, <2>6, ValueDone DEF f
  <2>8. QED BY <2>4, <2>5, <2>7 DEF n
<1>9. CASE t # NL
  <2>1. n = [m EXCEPT !.acc = Append(acc, t)]
    BY <1>3, <1>9 DEF ValueToken, acc
  <2>2. Writes(m, t, w) = w
    BY <1>9 DEF Writes, Completes
  <2>3. Len(acc) # Len(u) /\ Len(acc) + 1 \in 1 .. Len(u) /\ t = Digit(u[Len(acc) + 1])
    BY <1>6, <1>7, <1>9
  <2>4. t \in Token
    BY <1>7, <2>3, DigitTokens
  <2>5. /\ Append(acc, t) \in Seq(Token) /\ Len(Append(acc, t)) = Len(acc) + 1
        /\ \A i \in 1 .. Len(acc) + 1 : Append(acc, t)[i] = IF i = Len(acc) + 1 THEN t ELSE acc[i]
    BY <1>1, <2>4
  <2>6. \A i \in 1 .. Len(acc) + 1 : Append(acc, t)[i] = Digit(u[i])
    <3>1. ASSUME NEW i \in 1 .. Len(acc) + 1 PROVE Append(acc, t)[i] = Digit(u[i])
      <4>1. CASE i = Len(acc) + 1
        BY <2>3, <2>5, <4>1
      <4>2. CASE i # Len(acc) + 1
        <5>1. i \in 1 .. Len(acc)
          BY <1>7, <4>2
        <5>2. QED BY <1>6, <2>5, <4>2, <5>1
      <4>3. QED BY <4>1, <4>2
    <3>2. QED BY <3>1
  <2>7. Len(acc) + 1 <= Len(u)
    BY <1>7, <2>3
  <2>8. /\ n \in Machine /\ n.at = m.at /\ n.inject = <<>> /\ n.acc = Append(acc, t)
        /\ n.pending_newline = FALSE /\ n.ending = FALSE
    BY <1>1, <1>2, <2>1, <2>5 DEF Machine
  <2> HIDE DEF n
  <2>9. Spelling(n, ask.given)
    BY <1>6, <2>5, <2>6, <2>7, <2>8 DEF Spelling, f
  <2>10. MachineOK(n, ask.given)
    BY <2>8, <2>9 DEF MachineOK, Queued, Waiting
  <2>11. BlockOK(n, w, ask.given)
    BY <2>8, <2>10 DEF BlockOK
  <2>12. QED BY <2>2, <2>11 DEF n
<1>10. QED BY <1>8, <1>9

\* A line has ended the caption, or has not: the next field begins where it is named.
LEMMA LineStep ==
    ASSUME ask \in Asks, NEW m, NEW w, BlockOK(m, w, ask.given), m.inject = <<>>,
           m.at = At("value", "caption"), m.pending_newline = FALSE, NEW line \in Seq(Token)
    PROVE  BlockOK(EndsCaption(m, line), w, ask.given)
<1> DEFINE n == EndsCaption(m, line)
           f == NameIn(line)
<1>1. m \in Machine /\ m.at.part = "value" /\ m.at.field = "caption"
  BY DEF BlockOK, MachineOK, At
<1>2. CASE f \in {"duration", "keyscale", "language", "timesignature"}
  <2> DEFINE k == [m EXCEPT !.ending = FALSE, !.pending_name = <<>>]
             at == At("value", f)
  <2>1. k \in Machine /\ k.inject = <<>> /\ k.pending_newline = FALSE /\ k.ending = FALSE
    BY <1>1 DEF Machine
  <2>2. at \in Places /\ at.part = "value" /\ at.field = f /\ f \in Field
    BY <1>2, FieldSix DEF Places, At
  <2>3. n = Goto(k, at)
    BY <1>1, <1>2 DEF EndsCaption, Goto, Machine
  <2> HIDE DEF k, at, f
  <2>4. MachineOK(Goto(k, at), ask.given)
    BY <2>1, <2>2, Arrives
  <2>5. Goto(k, at).at = at
    BY <2>1 DEF Goto, Machine
  <2>6. InOrder(at, w)
    <3>1. Here(m.at) = 2 /\ Here(at) = Position(f) /\ Position(f) \in 3 .. 6
      BY <1>1, <1>2, <2>2, Positions DEF Here
    <3>2. Len(w) = 1 /\ w[1][1] = "bpm"
      <4>1. Len(w) \in Nat
        BY DEF BlockOK
      <4>2. QED BY <3>1, <4>1, Positions DEF BlockOK, InOrder
    <3>3. \A i \in 2 .. Len(w) : w[i][1] = Fields[Position(f) + i - 2]
      BY <3>2
    <3>4. QED BY <3>1, <3>2, <3>3 DEF InOrder
  <2> HIDE DEF n
  <2>7. BlockOK(n, w, ask.given)
    BY <2>3, <2>4, <2>5, <2>6 DEF BlockOK
  <2>8. QED BY <2>7 DEF n
<1>3. CASE f \notin {"duration", "keyscale", "language", "timesignature"}
  <2>1. n = [m EXCEPT !.ending = TRUE, !.pending_name = line]
    BY <1>3 DEF EndsCaption
  <2>2. /\ n \in Machine /\ n.at = m.at /\ n.inject = <<>> /\ n.acc = m.acc
        /\ n.pending_newline = FALSE /\ n.ending = TRUE
    BY <1>1, <2>1 DEF Machine
  <2> HIDE DEF n
  <2>3. MachineOK(n, ask.given)
    BY <1>1, <2>2 DEF MachineOK, Queued, Spelling, Waiting
  <2>4. BlockOK(n, w, ask.given)
    BY <2>2, <2>3 DEF BlockOK
  <2>5. QED BY <2>4 DEF n
<1>4. QED BY <1>2, <1>3

\* Free text only ever waits for a name, or finds it.
LEMMA CaptionStep ==
    ASSUME ask \in Asks, NEW m, NEW w, BlockOK(m, w, ask.given), m.inject = <<>>,
           m.at = At("value", "caption"), NEW t \in Token
    PROVE  BlockOK(Update(m, t), Writes(m, t, w), ask.given)
<1> DEFINE n == Update(m, t)
<1>1. m \in Machine /\ m.at.part = "value" /\ m.at.field = "caption"
  BY DEF BlockOK, MachineOK, At
<1>2. Writes(m, t, w) = w
  BY <1>1 DEF Writes, Completes
<1>3. ~(m.pending_newline /\ m.ending) /\ m.pending_newline \in BOOLEAN /\ m.ending \in BOOLEAN
  BY <1>1 DEF BlockOK, MachineOK, Waiting, Machine
<1> DEFINE k == [m EXCEPT !.pending_newline = FALSE]
<1>4. /\ k \in Machine /\ k.at = m.at /\ k.inject = <<>> /\ k.acc = m.acc
      /\ k.pending_newline = FALSE /\ k.ending = m.ending
  BY <1>1 DEF Machine
<1>5. BlockOK(k, w, ask.given)
  <2> HIDE DEF k
  <2>1. MachineOK(k, ask.given)
    BY <1>1, <1>4 DEF MachineOK, Queued, Spelling, Waiting
  <2>2. QED BY <1>4, <2>1 DEF BlockOK
<1>6. CASE m.pending_newline
  <2>1. n = IF t = <<"indented">> THEN k ELSE EndsCaption(k, <<t>>)
    BY <1>3, <1>6 DEF Update, AfterNewline
  <2>2. <<t>> \in Seq(Token)
    OBVIOUS
  <2> HIDE DEF k, n
  <2>3. BlockOK(EndsCaption(k, <<t>>), w, ask.given)
    BY <1>4, <1>5, <2>2, LineStep
  <2>4. BlockOK(n, w, ask.given)
    BY <1>5, <2>1, <2>3
  <2>5. QED BY <1>2, <2>4 DEF n
<1>7. CASE m.ending
  <2>1. m.pending_newline = FALSE
    BY <1>3, <1>7
  <2>2. n = EndsCaption(m, Append(m.pending_name, t))
    BY <1>7, <2>1 DEF Update
  <2>3. Append(m.pending_name, t) \in Seq(Token)
    BY <1>1 DEF Machine
  <2> HIDE DEF n
  <2>4. BlockOK(n, w, ask.given)
    BY <2>1, <2>2, <2>3, LineStep
  <2>5. QED BY <1>2, <2>4 DEF n
<1>8. CASE ~m.pending_newline /\ ~m.ending
  <2>1. n = [m EXCEPT !.pending_newline = (t = NL)]
    BY <1>1, <1>8 DEF Update
  <2>2. /\ n \in Machine /\ n.at = m.at /\ n.inject = <<>> /\ n.acc = m.acc /\ n.ending = FALSE
    BY <1>1, <1>3, <1>8, <2>1 DEF Machine
  <2> HIDE DEF n
  <2>3. MachineOK(n, ask.given)
    BY <1>1, <2>2 DEF MachineOK, Queued, Spelling, Waiting
  <2>4. BlockOK(n, w, ask.given)
    BY <2>2, <2>3 DEF BlockOK
  <2>5. QED BY <1>2, <2>4 DEF n
<1>9. QED BY <1>6, <1>7, <1>8

\* Whatever is sampled among what the masks leave.
LEMMA TokenStep ==
    ASSUME ask \in Asks, NEW m, NEW w, BlockOK(m, w, ask.given),
           m.inject = <<>> /\ m.at.part = "value" => m.at.field \notin Forcing(ask.given),
           NEW t \in Allowed(m)
    PROVE  BlockOK(Update(m, t), Writes(m, t, w), ask.given)
<1>1. m.at \in Places
  BY DEF BlockOK, MachineOK, Machine
<1>2. CASE m.inject # <<>>
  <2>1. t = Head(m.inject)
    BY <1>2 DEF Allowed
  <2>2. QED BY <1>2, <2>1, InjectedStep
<1>3. CASE m.inject = <<>> /\ m.at.part = "name"
  BY <1>3, NameStep
<1>4. CASE m.inject = <<>> /\ m.at.part = "value" /\ m.at.field # "caption"
  BY <1>4, ValueStep
<1>5. CASE m.inject = <<>> /\ m.at.part = "value" /\ m.at.field = "caption"
  <2>1. t \in FreeText
    BY <1>5 DEF Allowed
  <2>2. t \in Token
    BY <2>1 DEF Token
  <2>3. m.at = At("value", "caption")
    BY <1>1, <1>5, PlaceOf
  <2>4. QED BY <1>5, <2>2, <2>3, CaptionStep
<1>6. CASE m.inject = <<>> /\ m.at.part \in {"think_end", "codes"}
  BY <1>6, ClosingStep
<1>7. QED BY <1>1, <1>2, <1>3, <1>4, <1>5, <1>6, PlaceOf

-----------------------------------------------------------------------------
LEMMA FsmStarts == FsmInit => FsmInv
<1>1. SUFFICES ASSUME FsmInit PROVE FsmInv
  OBVIOUS
<1>2. ask \in Asks /\ fsm = Restarted /\ written = <<>> /\ lmPc = "sample"
  BY <1>1 DEF FsmInit
<1>3. At("name", "bpm") \in Places /\ <<>> \in Seq(Token)
  BY FieldSix DEF Places
<1>4. Restarted \in Machine
  BY <1>3 DEF Restarted, Machine
<1>5. MachineOK(fsm, ask.given)
  BY <1>2, <1>4 DEF MachineOK, Queued, Spelling, Waiting, Restarted, At
<1>6. InOrder(fsm.at, written)
  BY <1>2, Positions DEF InOrder, Here, Restarted, At
<1>7. QED BY <1>2, <1>5, <1>6 DEF FsmInv, BlockOK, GivenIsKept

LEMMA SampleTokenInv == ASSUME FsmInv, SampleToken PROVE FsmInv'
<1>1. ask' = ask /\ ace' = ace /\ lmPc' # "merged" /\ ask \in Asks /\ BlockOK(fsm, written, ask.given)
  BY DEF FsmInv, SampleToken
<1> DEFINE m == Masked(fsm)
<1>2. PICK t \in Allowed(m) :
         IF t = IM_END THEN UNCHANGED <<fsm, text, written>>
         ELSE fsm' = Update(m, t) /\ written' = Writes(m, t, written)
  BY DEF SampleToken, Writes
<1>3. /\ BlockOK(m, written, ask.given)
      /\ m.inject = <<>> /\ m.at.part = "value" => m.at.field \notin Forcing(ask.given)
  BY <1>1, MaskKeeps DEF BlockOK
<1> HIDE DEF m
<1>4. BlockOK(Update(m, t), Writes(m, t, written), ask.given)
  BY <1>1, <1>3, TokenStep
<1>5. BlockOK(fsm', written', ask.given)
  BY <1>1, <1>2, <1>4
<1>6. GivenIsKept'
  BY <1>1 DEF GivenIsKept
<1>7. QED BY <1>1, <1>5, <1>6 DEF FsmInv

\* What the request gives has at least one digit, so it is a gap only if it is the
\* language "unknown"; the clamp changes a duration only if it is too long.
LEMMA MergeInv == ASSUME FsmInv, Merge PROVE FsmInv'
<1>1. UNCHANGED <<ask, fsm, text, written>> /\ ask \in Asks
  BY DEF FsmInv, Merge
<1>2. ace' = [f \in Field \ {"caption"} |->
                IF f = "duration" THEN Clamp(GapFill(f)) ELSE GapFill(f)]
  BY DEF Merge
<1>3. "duration" \in Field \ {"caption"} /\ DOMAIN ask.given \subseteq Field \ {"caption"}
  BY <1>1, FieldSix, FsmAssumption
<1>4. ace'["duration"] # <<>> /\ ace'["duration"] \notin TooLong
  <2>1. DefaultDuration \notin TooLong /\ MaxDuration \notin TooLong
    BY FsmAssumption
  <2>2. DefaultDuration # <<>> /\ MaxDuration # <<>>
    BY DEF DefaultDuration, MaxDuration
  <2>3. QED BY <1>2, <1>3, <2>1, <2>2 DEF Clamp
<1>5. ASSUME ~ask.inspire, NEW f \in DOMAIN ask.given
      PROVE  \/ ace'[f] = Digits(ask.given[f])
             \/ f = "duration" /\ ask.given[f] \in LongDurations /\ ace'[f] = MaxDuration
             \/ /\ f = "language" /\ ask.given[f] = Unknown
                /\ Parsed(f) # <<>> /\ ace'[f] = Parsed(f)
  <2> DEFINE v == ask.given[f]
  <2>1. Base(f) = Digits(v) /\ Digits(v) # <<>> /\ v \in Seq(Nat)
    BY <1>1, <1>5, GivenTokens DEF Base
  <2>2. f # "language" => ace'[f] = IF f = "duration" THEN Clamp(Digits(v)) ELSE Digits(v)
    BY <1>2, <1>3, <1>5, <2>1 DEF GapFill
  <2> HIDE DEF v
  <2>3. CASE f = "duration"
    <3>1. Digits(v) \in TooLong => v \in LongDurations
      BY <2>1, DigitsTell, FsmAssumption DEF TooLong
    <3>2. QED BY <2>1, <2>2, <2>3, <3>1 DEF Clamp, v
  <2>4. CASE f = "language"
    <3>1. ace'[f] = GapFill(f)
      BY <1>2, <1>3, <1>5, <2>4
    <3>2. \/ GapFill(f) = Digits(v)
          \/ GapFill(f) = Parsed(f) /\ Parsed(f) # <<>> /\ Digits(v) = Digits(Unknown)
      <4>1. Base(f) = Digits(v) /\ Base(f) # <<>>
        BY <2>1 DEF v
      <4>2. QED BY <4>1, Zenon DEF GapFill
    <3>3. Digits(v) = Digits(Unknown) => v = Unknown
      BY <2>1, DigitsTell, FsmAssumption
    <3>4. QED BY <2>4, <3>1, <3>2, <3>3 DEF v
  <2>5. QED BY <2>2, <2>3, <2>4 DEF v
<1>6. \A f \in Field : Parsed(f)' = Parsed(f)
  BY <1>1 DEF Parsed, GetField, Needles
<1>7. GivenIsKept'
  BY <1>1, <1>3, <1>4, <1>5, <1>6 DEF GivenIsKept
<1>8. QED BY <1>1, <1>7 DEF FsmInv

LEMMA FsmStays == FsmSpec => []FsmInv
<1>1. FsmInv /\ [FsmNext]_fsmVars => FsmInv'
  <2>1. FsmInv /\ UNCHANGED fsmVars => FsmInv'
    <3>1. SUFFICES ASSUME FsmInv, UNCHANGED fsmVars PROVE FsmInv'
      OBVIOUS
    <3>2. UNCHANGED <<ask, fsm, text, written, lmPc, ace>>
      BY <3>1 DEF fsmVars
    <3>3. \A f : Parsed(f)' = Parsed(f)
      BY <3>2 DEF Parsed, GetField, Needles
    <3>4. GivenIsKept'
      BY <3>1, <3>2, <3>3 DEF FsmInv, GivenIsKept
    <3>5. QED BY <3>1, <3>2, <3>4 DEF FsmInv
  <2>2. QED BY <2>1, SampleTokenInv, MergeInv DEF FsmNext
<1>2. QED BY <1>1, FsmStarts, PTL DEF FsmSpec

\* The order and the values of what has been written.
LEMMA InOrderMeans == ASSUME FsmInv PROVE BlockIsWellFormed
<1>1. /\ fsm.at \in Places /\ written \in Seq(Field \X Seq(Token)) /\ Len(written) \in Nat
      /\ DOMAIN written = 1 .. Len(written) /\ InOrder(fsm.at, written)
  BY DEF FsmInv, BlockOK, MachineOK, Machine
<1>2. Here(fsm.at) \in 1 .. 7
  BY <1>1, PlaceOf, Positions DEF Here
<1>3. ASSUME NEW i \in DOMAIN written PROVE written[i][2] \in Legal(written[i][1])
  BY <1>1, <1>3 DEF FsmInv, BlockOK, LegalOf, Legal, Forced
<1>4. CASE Len(written) <= 1
  <2>1. ASSUME fsm.at.part = "codes" PROVE FALSE
    <3>1. Here(fsm.at) = 7
      BY <2>1 DEF Here
    <3>2. written = <<>> => Len(written) = 0
      OBVIOUS
    <3>3. QED BY <1>1, <1>4, <3>1, <3>2 DEF InOrder
  <2>2. \A i \in DOMAIN written : \A j \in 1 .. i - 1 : FALSE
    BY <1>1, <1>4
  <2>3. QED BY <1>3, <2>1, <2>2 DEF BlockIsWellFormed
<1>5. CASE Len(written) > 1
  <2>1. PICK k \in 3 .. 6 :
           /\ written[1][1] = "bpm" /\ Here(fsm.at) = k + Len(written) - 1
           /\ \A i \in 2 .. Len(written) : written[i][1] = Fields[k + i - 2]
    <3>1. written = <<>> => Len(written) = 0
      OBVIOUS
    <3>2. written # <<>> /\ Len(written) # 1
      <4>1. PICK n \in Nat : n = Len(written)
        BY <1>1
      <4>2. n # 0 /\ n # 1
        BY <1>5, <4>1
      <4>3. QED BY <3>1, <4>1, <4>2
    <3>3. QED BY <1>1, <3>2, Zenon DEF InOrder
  <2>2. ASSUME NEW i \in 2 .. Len(written)
        PROVE  k + i - 2 \in 3 .. 6 /\ Position(written[i][1]) = k + i - 2
    <3>1. k + i - 2 \in 3 .. 6
      BY <1>1, <1>2, <2>1, SMTT(30)
    <3>2. QED BY <2>1, <3>1, Positions
  <2>3. Position(written[1][1]) = 1
    BY <2>1, Positions
  <2>4. ASSUME NEW i \in DOMAIN written, NEW j \in 1 .. i - 1
        PROVE  Position(written[j][1]) < Position(written[i][1])
    <3>1. i \in 2 .. Len(written)
      BY <1>1
    <3>2. CASE j = 1
      BY <2>2, <2>3, <3>1, <3>2
    <3>3. CASE j # 1
      <4>1. j \in 2 .. Len(written)
        BY <1>1, <3>1, <3>3
      <4>2. QED BY <2>2, <3>1, <4>1
    <3>4. QED BY <3>2, <3>3
  <2>5. ASSUME fsm.at.part = "codes", NEW f \in Field, Position(f) > Position(written[2][1])
        PROVE  \E i \in DOMAIN written : written[i][1] = f
    <3>1. Here(fsm.at) = 7
      BY <2>5 DEF Here
    <3>2. Position(written[2][1]) = k
      BY <1>1, <1>5, <2>2
    <3>3. Position(f) \in 1 .. 6 /\ Fields[Position(f)] = f
      BY Positions
    <3> DEFINE i == Position(f) - k + 2
    <3>4. i \in 2 .. Len(written) /\ k + i - 2 = Position(f)
      BY <1>1, <2>1, <2>5, <3>1, <3>2, <3>3, SMTT(30)
    <3> HIDE DEF i
    <3>5. written[i][1] = f
      BY <2>1, <3>3, <3>4
    <3>6. i \in DOMAIN written
      BY <1>1, <3>4
    <3>7. QED BY <3>5, <3>6
  <2>6. QED BY <1>3, <1>5, <2>1, <2>4, <2>5 DEF BlockIsWellFormed
<1>6. QED BY <1>1, <1>4, <1>5

\* For any vocabulary of values and any request, a field is written at most once, in
\* the block's order, with a whole value of its prefix tree, and the block is complete
\* when the automaton closes it (MetadataFSM::apply_mask and update).
THEOREM BlockStaysWellFormed == FsmSpec => []BlockIsWellFormed
BY InOrderMeans, FsmStays, PTL

\* Whatever the block says, the merge keeps every field the request gave, but for a
\* language given as "unknown", which the block's own may replace, and a duration
\* above 600 s, which becomes 600; and it ends with a duration that is not above it
\* (parse_phase1_into_aces).
THEOREM GivenStays == FsmSpec => []GivenIsKept
<1>1. FsmInv => GivenIsKept
  BY DEF FsmInv
<1>2. QED BY <1>1, FsmStays, PTL

-----------------------------------------------------------------------------
(***************************************************************************)
(* LmSizing, for every value of the flags and whatever is requested: one   *)
(* shape of the LM without a budget, no cache above the budget with one.   *)
(***************************************************************************)

\* The one shape of the LM when every request takes the static parameters.
StaticKey == LmKey([max_seq |-> MaxSeqFlag, max_batch |-> MaxBatchFlag])

SizingInv ==
    /\ budget \in Nat
    /\ budget = 0 => lms \subseteq {StaticKey}
    /\ WithinBudget

-----------------------------------------------------------------------------
\* Division rounds down.
LEMMA QuotientFits ==
    ASSUME NEW b \in Nat, NEW w \in Nat \ {0}
    PROVE  b \div w \in Nat /\ (b \div w) * w <= b
<1>1. b \div w \in Nat
  OBVIOUS
<1>2. (b \div w) * w <= b
  OBVIOUS
<1>3. QED BY <1>1, <1>2

LEMMA FewerFit ==
    ASSUME NEW m \in Nat, NEW q \in Nat, NEW w \in Nat, NEW b \in Nat, m <= q, q * w <= b
    PROVE  m * w <= b
<1>1. PICK r \in Nat : q = m + r
  <2>1. q - m \in Nat /\ q = m + (q - m)
    OBVIOUS
  <2>2. QED BY <2>1
<1>2. q * w = m * w + r * w /\ r * w >= 0 /\ m * w \in Nat
  BY <1>1
<1>3. QED BY <1>2

LEMMA WantRange ==
    ASSUME NEW d \in Nat
    PROVE  Want(d) \in Nat \ {0} /\ Want(d) <= Most(512, MaxSeqFlag)
BY LmSizingAssumption DEF Want, Most, Least

\* The songs of a request and its sequence length fit a budget that admits one.
LEMMA SongsFit ==
    ASSUME NEW d \in Nat, NEW n \in 1..MaxBatchFlag, budget \in Nat
    PROVE  /\ Songs(d, n) \in Nat
           /\ budget >= Most(512, MaxSeqFlag) => Songs(d, n) * Want(d) <= budget
<1> DEFINE w == Want(d)
           q == budget \div w
           m == Songs(d, n)
<1>1. w \in Nat \ {0} /\ w <= Most(512, MaxSeqFlag) /\ Most(512, MaxSeqFlag) \in Nat
  BY WantRange, LmSizingAssumption DEF Most
<1>2. q \in Nat /\ q * w <= budget
  <2> HIDE DEF w
  <2>1. QED BY <1>1, QuotientFits
<1>3. n \in Nat /\ m = Least(n, Most(1, q))
  BY LmSizingAssumption DEF Songs
<1> HIDE DEF w, q, m
<1>4. m \in Nat /\ (m <= q \/ m = 1)
  BY <1>2, <1>3, LmSizingAssumption DEF Least, Most
<1>5. ASSUME budget >= Most(512, MaxSeqFlag) PROVE m * w <= budget
  <2>1. CASE m <= q
    BY <1>1, <1>2, <1>4, <2>1, FewerFit
  <2>2. CASE m = 1
    BY <1>1, <1>5, <2>2
  <2>3. QED BY <1>4, <2>1, <2>2
<1>6. QED BY <1>4, <1>5 DEF m, w

\* A new instance of parameters p.
LEMMA AcquireInv ==
    ASSUME SizingInv, budget' = budget, NEW p \in [max_seq : Nat, max_batch : Nat],
           lms' = lms \cup {LmKey(p)},
           budget = 0 => p = [max_seq |-> MaxSeqFlag, max_batch |-> MaxBatchFlag],
           budget >= Most(512, MaxSeqFlag) => p.max_batch * p.max_seq <= budget
    PROVE  SizingInv'
<1>1. LmKey(p).max_seq = p.max_seq /\ LmKey(p).n_kv_sets \div 2 = p.max_batch
  BY DEF LmKey
<1>2. budget = 0 => lms' \subseteq {StaticKey}
  BY DEF SizingInv, StaticKey
<1>3. WithinBudget'
  BY <1>1 DEF SizingInv, WithinBudget
<1>4. QED BY <1>2, <1>3 DEF SizingInv, StaticKey, LmKey

LEMMA StartLmInv ==
    ASSUME SizingInv, budget' = budget,
           NEW d \in Durations, NEW n \in 1..MaxBatchFlag, NEW len \in PromptLens, StartLm(d, n, len)
    PROVE  SizingInv'
<1> DEFINE p == LmParams(d, n)
<1>1. lms' = lms \cup {LmKey(p)} /\ d \in Nat /\ budget \in Nat
  BY LmSizingAssumption DEF StartLm, Acquire, SizingInv
<1>2. CASE budget > 0
  <2>1. p = [max_seq |-> Want(d), max_batch |-> Songs(d, n)]
    BY <1>2 DEF LmParams
  <2>2. /\ Want(d) \in Nat /\ Songs(d, n) \in Nat
        /\ budget >= Most(512, MaxSeqFlag) => Songs(d, n) * Want(d) <= budget
    BY <1>1, WantRange, SongsFit
  <2> HIDE DEF p
  <2>3. /\ p \in [max_seq : Nat, max_batch : Nat]
        /\ budget >= Most(512, MaxSeqFlag) => p.max_batch * p.max_seq <= budget
    BY <2>1, <2>2
  <2>4. QED BY <1>1, <1>2, <2>3, AcquireInv
<1>3. CASE budget = 0
  <2>1. /\ p = [max_seq |-> MaxSeqFlag, max_batch |-> MaxBatchFlag]
        /\ p \in [max_seq : Nat, max_batch : Nat]
        /\ ~ (budget >= Most(512, MaxSeqFlag))
    BY <1>3, LmSizingAssumption DEF LmParams, Most
  <2> HIDE DEF p
  <2>2. QED BY <1>1, <2>1, AcquireInv
<1>4. QED BY <1>1, <1>2, <1>3

LEMMA UnderstandInv ==
    ASSUME SizingInv, budget' = budget, NEW len \in PromptLens, Understand(len)
    PROVE  SizingInv'
<1> DEFINE p == UndParams
<1>1. lms' = lms \cup {LmKey(p)} /\ budget \in Nat
  BY DEF Understand, Acquire, SizingInv
<1>2. /\ p \in [max_seq : Nat, max_batch : Nat]
      /\ budget = 0 => p = [max_seq |-> MaxSeqFlag, max_batch |-> MaxBatchFlag]
      /\ budget >= Most(512, MaxSeqFlag) => p.max_batch * p.max_seq <= budget
  BY <1>1, LmSizingAssumption DEF UndParams, Most, Least
<1> HIDE DEF p
<1>3. QED BY <1>1, <1>2, AcquireInv

LEMMA SizingNextInv == SizingInv /\ [SizingNext]_sizingVars => SizingInv'
<1> SUFFICES ASSUME SizingInv, [SizingNext]_sizingVars PROVE SizingInv'
  OBVIOUS
<1>1. CASE \/ \E d \in Durations : \E n \in 1..MaxBatchFlag : \E len \in PromptLens : StartLm(d, n, len)
           \/ \E len \in PromptLens : Understand(len)
  <2>1. CASE budget' = budget
    BY <1>1, <2>1, StartLmInv, UnderstandInv
  <2>2. CASE budget' # budget
    <3>1. UNCHANGED sizingVars
      BY <2>2 DEF SizingNext
    <3>2. QED BY <2>2, <3>1 DEF sizingVars
  <2>3. QED BY <2>1, <2>2
<1>2. CASE (\E n \in TextLens : Fill(n)) \/ Code \/ UNCHANGED sizingVars
  <2>1. lms' = lms
    BY <1>2 DEF Fill, Code, Overrun, sizingVars
  <2>2. budget' = budget
    BY DEF SizingNext, sizingVars
  <2>3. QED BY <2>1, <2>2 DEF SizingInv, WithinBudget, StaticKey, LmKey
<1>3. QED BY <1>1, <1>2 DEF SizingNext

\* Whatever is asked of /lm and /understand: one LM instance without --kv-budget,
\* and no cache above the budget with one that admits a sequence.
THEOREM CachesStayWithinBudget == SizingSpec => []CachesWithinBudget
<1>1. SizingInit => SizingInv
  BY LmSizingAssumption DEF SizingInit, SizingInv, WithinBudget
<1>2. ASSUME SizingInv PROVE CachesWithinBudget
  <2>1. ASSUME budget = 0 PROVE Cardinality(lms) <= 1
    <3>1. lms \subseteq {StaticKey}
      BY <1>2, <2>1 DEF SizingInv
    <3>2. IsFiniteSet({StaticKey}) /\ Cardinality({StaticKey}) = 1
      BY FS_Singleton
    <3>3. QED BY <3>1, <3>2, FS_Subset
  <2>2. QED BY <1>2, <2>1 DEF SizingInv, CachesWithinBudget, OneLmInstance
<1>3. QED BY <1>1, <1>2, SizingNextInv, PTL DEF SizingSpec

-----------------------------------------------------------------------------
LEMMA LeastElement ==
    ASSUME NEW S, S \subseteq Nat, S # {}
    PROVE  \E m \in S : \A x \in S : m <= x
<1> DEFINE R == {p \in Nat \X Nat : p[1] < p[2]}
<1>1. IsWellFoundedOn(R, Nat)
  BY NatLessThanWellFounded DEF OpToRel
<1> HIDE DEF R
<1>2. PICK m \in S : \A x \in S : ~ (<<x, m>> \in R)
  BY <1>1, WFMin
<1>3. \A x \in S : ~ (x < m)
  BY <1>2 DEF R
<1>4. QED BY <1>3

-----------------------------------------------------------------------------
(* RequestCards: the fields of a request and what is written of them. *)

\* A value of a document, and one of the type that a field of a request has.
IsValue(v) ==
    /\ v = <<v[1], v[2]>> /\ v[1] \in {"str", "int", "real", "bool"}
    /\ v[1] \in {"int", "real"} => v[2] \in Int

IsDocument(d) == \A f \in DOMAIN d : IsValue(d[f])

Typed(f, v) ==
    /\ IsValue(v)
    /\ f \in Texts => v[1] = "str"
    /\ f \in ChoiceFields => v[1] = "str" /\ v[2] # Blank
    /\ f \in Ints \cup {"stork_substeps"} => v[1] = "int"
    /\ f \in Reals => v[1] = "real"
    /\ f = "use_cot_caption" => v[1] = "bool"

IsRequest(r) == DOMAIN r = CardField /\ r = [f \in CardField |-> r[f]] /\ \A f \in CardField : Typed(f, r[f])

LEMMA FieldsDiffer ==
    /\ \A f \in Texts : f \notin ChoiceFields /\ f \notin Ints /\ f \notin Reals
    /\ \A f \in Texts : f # "stork_substeps" /\ f # "use_cot_caption"
    /\ \A f \in ChoiceFields : f \notin Ints /\ f \notin Reals /\ f # "stork_substeps" /\ f # "use_cot_caption"
    /\ \A f \in Ints : f \notin Reals /\ f # "stork_substeps" /\ f # "use_cot_caption"
    /\ \A f \in Reals : f # "stork_substeps" /\ f # "use_cot_caption"
BY DEF Texts, ChoiceFields, Ints, Reals

LEMMA DefaultValues ==
    /\ \A f \in ChoiceFields : DefaultText(f) # Blank
    /\ \A f \in CardField : DefaultInt(f) \in Int /\ DefaultReal(f) \in Int
<1>1. \A f \in ChoiceFields : DefaultText(f) # Blank
  BY Zenon DEF Blank, ChoiceFields, DefaultText
<1>2. \A f \in CardField : DefaultInt(f) \in Int /\ DefaultReal(f) \in Int
  BY DEF DefaultInt, DefaultReal
<1>3. QED BY <1>1, <1>2

LEMMA Tagged ==
    /\ \A s : IsValue(Str(s)) /\ Str(s)[1] = "str" /\ Str(s)[2] = s
    /\ \A n \in Int : IsValue(Whole(n)) /\ Whole(n)[1] = "int" /\ Whole(n)[2] = n
    /\ \A n \in Int : IsValue(Real(n)) /\ Real(n)[1] = "real" /\ Real(n)[2] = n
    /\ \A b : IsValue(Flag(b)) /\ Flag(b)[1] = "bool" /\ Flag(b)[2] = b
BY DEF IsValue, Str, Whole, Real, Flag

\* What request_init sets is of the field's type.
LEMMA DefaultsTyped ==
    /\ DOMAIN Defaults = CardField
    /\ \A f \in CardField : Typed(f, Defaults[f])
    /\ \A f \in Reals : Defaults[f] = Real(DefaultReal(f))
<1>1. DOMAIN Defaults = CardField
  BY DEF Defaults
<1>2. SUFFICES ASSUME NEW f \in CardField
               PROVE  Typed(f, Defaults[f]) /\ (f \in Reals => Defaults[f] = Real(DefaultReal(f)))
  BY <1>1 DEF CardField
<1>3. Defaults[f] =
        CASE f \in Texts \cup ChoiceFields -> Str(DefaultText(f))
          [] f \in Ints \cup {"stork_substeps"} -> Whole(DefaultInt(f))
          [] f \in Reals -> Real(DefaultReal(f))
          [] f = "use_cot_caption" -> Flag(TRUE)
  BY DEF Defaults
<1>4. CASE f \in Texts
  <2>1. f \notin ChoiceFields /\ f \notin Ints /\ f \notin Reals /\ f # "stork_substeps" /\ f # "use_cot_caption"
    BY <1>4, FieldsDiffer
  <2>2. Defaults[f] = Str(DefaultText(f))
    BY <1>3, <1>4, <2>1
  <2>3. PICK v : v = Str(DefaultText(f)) /\ IsValue(v) /\ v[1] = "str"
    BY Tagged
  <2>4. QED BY <1>4, <2>1, <2>2, <2>3 DEF Typed
<1>5. CASE f \in ChoiceFields
  <2>1. f \notin Texts /\ f \notin Ints /\ f \notin Reals /\ f # "stork_substeps" /\ f # "use_cot_caption"
    BY <1>5, FieldsDiffer
  <2>2. Defaults[f] = Str(DefaultText(f))
    BY <1>3, <1>5, <2>1
  <2>3. PICK v : v = Str(DefaultText(f)) /\ IsValue(v) /\ v[1] = "str" /\ v[2] = DefaultText(f)
    BY Tagged
  <2>4. QED BY <1>5, <2>1, <2>2, <2>3, DefaultValues DEF Typed
<1>6. CASE f \in Ints \cup {"stork_substeps"}
  <2>1. f \notin Texts /\ f \notin ChoiceFields /\ f \notin Reals /\ f # "use_cot_caption"
    BY <1>6, FieldsDiffer
  <2>2. Defaults[f] = Whole(DefaultInt(f)) /\ DefaultInt(f) \in Int
    BY <1>3, <1>6, <2>1, DefaultValues
  <2>3. QED BY <1>6, <2>1, <2>2, Tagged DEF Typed
<1>7. CASE f \in Reals
  <2>1. f \notin Texts /\ f \notin ChoiceFields /\ f \notin Ints /\ f # "stork_substeps" /\ f # "use_cot_caption"
    BY <1>7, FieldsDiffer
  <2>2. Defaults[f] = Real(DefaultReal(f)) /\ DefaultReal(f) \in Int
    BY <1>3, <1>7, <2>1, DefaultValues
  <2>3. QED BY <1>7, <2>1, <2>2, Tagged DEF Typed
<1>8. CASE f = "use_cot_caption"
  <2>1. f \notin Texts /\ f \notin ChoiceFields /\ f \notin Ints /\ f \notin Reals /\ f # "stork_substeps"
    BY <1>8, FieldsDiffer
  <2>2. Defaults[f] = Flag(TRUE)
    BY <1>3, <1>8, <2>1, Zenon
  <2>3. IsValue(Flag(TRUE)) /\ Flag(TRUE)[1] = "bool"
    BY DEF IsValue, Flag
  <2>4. QED BY <1>8, <2>1, <2>2, <2>3 DEF Typed
<1>9. QED BY <1>4, <1>5, <1>6, <1>7, <1>8 DEF CardField

\* Two decimals of a number that has two decimals are the number.
LEMMA RoundedTwice ==
    ASSUME NEW v, IsValue(v)
    PROVE  /\ IsValue(Rounded(v)) /\ Rounded(v)[1] = v[1]
           /\ v[1] # "real" => Rounded(v) = v
           /\ Rounded(Rounded(v)) = Rounded(v)
<1>1. CASE v[1] # "real"
  BY <1>1 DEF Rounded
<1>2. CASE v[1] = "real"
  <2>1. PICK n \in Int : n = v[2]
    BY <1>2 DEF IsValue
  <2>2. PICK q \in Int : /\ q = IF n < 0 THEN -(((-n + 5) \div 10) * 10) ELSE ((n + 5) \div 10) * 10
                         /\ \E k \in Nat : q = 10 * k \/ q = -(10 * k)
    <3>1. CASE n < 0
      <4>1. PICK k \in Nat : k = (-n + 5) \div 10
        <5>1. -n + 5 \in Nat
          BY <3>1
        <5>2. QED BY <5>1
      <4>2. QED BY <3>1, <4>1
    <3>2. CASE ~ (n < 0)
      <4>1. PICK k \in Nat : k = (n + 5) \div 10
        <5>1. n + 5 \in Nat
          BY <3>2
        <5>2. QED BY <5>1
      <4>2. QED BY <3>2, <4>1
    <3>3. QED BY <3>1, <3>2
  <2>3. q = IF q < 0 THEN -(((-q + 5) \div 10) * 10) ELSE ((q + 5) \div 10) * 10
    <3>1. PICK k \in Nat : q = 10 * k \/ q = -(10 * k)
      BY <2>2
    <3>2. (10 * k + 5) \div 10 = k
      OBVIOUS
    <3>3. QED BY <3>1, <3>2
  <2>4. Rounded(v) = Real(q)
    BY <1>2, <2>1, <2>2 DEF Rounded
  <2>5. PICK w : w = Real(q) /\ IsValue(w) /\ w[1] = "real" /\ w[2] = q
    BY Tagged
  <2>6. Rounded(w) = w
    BY <2>3, <2>5 DEF Rounded
  <2>7. QED BY <1>2, <2>4, <2>5, <2>6
<1>3. QED BY <1>1, <1>2

\* Defaults have two decimals.
LEMMA DefaultsRounded == \A f \in CardField : Rounded(Defaults[f]) = Defaults[f]
<1>1. SUFFICES ASSUME NEW f \in CardField PROVE Rounded(Defaults[f]) = Defaults[f]
  OBVIOUS
<1>2. CASE f \in Reals
  <2>1. PICK n \in Int : n = DefaultReal(f) /\ n \in {850, 2000, 900, 1000, -1000, 0}
    BY DEF DefaultReal
  <2>2. n = IF n < 0 THEN -(((-n + 5) \div 10) * 10) ELSE ((n + 5) \div 10) * 10
    BY <2>1
  <2>3. PICK w : w = Real(n) /\ w[1] = "real" /\ w[2] = n
    BY Tagged
  <2>4. Rounded(w) = w
    BY <2>2, <2>3 DEF Rounded
  <2>5. QED BY <1>2, <2>1, <2>3, <2>4, DefaultsTyped
<1>3. CASE f \notin Reals
  <2>1. Typed(f, Defaults[f])
    BY DefaultsTyped
  <2>2. Defaults[f][1] # "real"
    BY <1>3, <2>1 DEF Typed, CardField
  <2>3. QED BY <2>2 DEF Rounded
<1>4. QED BY <1>2, <1>3
-----------------------------------------------------------------------------
(* RequestCards: what is written is read back. *)

LEMMA ReadTyped ==
    ASSUME NEW f \in CardField, NEW v, IsValue(v), Accepts(f, v)
    PROVE  Typed(f, Read(f, v))
<1>1. CASE f \in Texts
  <2>1. f \notin ChoiceFields /\ f \notin Ints /\ f \notin Reals /\ f # "stork_substeps" /\ f # "use_cot_caption"
    BY <1>1, FieldsDiffer
  <2>2. v[1] = "str" /\ Read(f, v) = v
    BY <1>1, <2>1 DEF Accepts, Read
  <2>3. QED BY <2>1, <2>2 DEF Typed
<1>2. CASE f \in ChoiceFields
  <2>1. f \notin Texts /\ f \notin Ints /\ f \notin Reals /\ f # "stork_substeps" /\ f # "use_cot_caption"
    BY <1>2, FieldsDiffer
  <2>2. v[1] = "str" /\ v[2] # Blank /\ Read(f, v) = v
    BY <1>2, <2>1 DEF Accepts, Read
  <2>3. QED BY <2>1, <2>2 DEF Typed
<1>3. CASE f \in Ints
  <2>1. f \notin Texts /\ f \notin ChoiceFields /\ f \notin Reals /\ f # "stork_substeps" /\ f # "use_cot_caption"
    BY <1>3, FieldsDiffer
  <2>2. v[1] \in {"int", "real"} /\ v[2] \in Int
    BY <1>3, <2>1 DEF Accepts, Numeric, IsValue
  <2>3. Truncated(v[2]) \in Int
    <3>1. PICK n \in Int : n = v[2]
      BY <2>2
    <3>2. CASE n < 0
      <4>1. -n \in Nat
        BY <3>2
      <4>2. (-n) \div 1000 \in Int
        BY <4>1
      <4>3. QED BY <3>1, <3>2, <4>2 DEF Truncated
    <3>3. CASE ~ (n < 0)
      BY <3>1, <3>3 DEF Truncated
    <3>4. QED BY <3>2, <3>3
  <2>4. CASE v[1] = "real"
    <3>1. Read(f, v) = Whole(Truncated(v[2]))
      BY <1>3, <2>4 DEF Read
    <3>2. QED BY <2>1, <2>3, <3>1, Tagged DEF Typed
  <2>5. CASE v[1] = "int"
    <3>1. Read(f, v) = v
      BY <2>1, <2>5 DEF Read
    <3>2. QED BY <2>1, <2>5, <3>1 DEF Typed
  <2>6. QED BY <2>2, <2>4, <2>5
<1>4. CASE f \in Reals
  <2>1. f \notin Texts /\ f \notin ChoiceFields /\ f \notin Ints /\ f # "stork_substeps" /\ f # "use_cot_caption"
    BY <1>4, FieldsDiffer
  <2>2. v[1] \in {"int", "real"} /\ v[2] \in Int
    BY <1>4, <2>1 DEF Accepts, Numeric, IsValue
  <2>3. CASE v[1] = "int"
    <3>1. Read(f, v) = Real(1000 * v[2])
      BY <1>4, <2>1, <2>3 DEF Read
    <3>2. PICK n \in Int : n = 1000 * v[2]
      BY <2>2
    <3>3. QED BY <2>1, <3>1, <3>2, Tagged DEF Typed
  <2>4. CASE v[1] = "real"
    <3>1. Read(f, v) = v
      BY <2>1, <2>4 DEF Read
    <3>2. QED BY <2>1, <2>4, <3>1 DEF Typed
  <2>5. QED BY <2>2, <2>3, <2>4
<1>5. CASE f = "stork_substeps"
  <2>1. f \notin Texts /\ f \notin ChoiceFields /\ f \notin Ints /\ f \notin Reals /\ f # "use_cot_caption"
    BY <1>5, FieldsDiffer
  <2>2. v[1] = "int" /\ Read(f, v) = v
    BY <1>5, <2>1 DEF Accepts, Read
  <2>3. QED BY <1>5, <2>1, <2>2 DEF Typed
<1>6. CASE f = "use_cot_caption"
  <2>1. f \notin Texts /\ f \notin ChoiceFields /\ f \notin Ints /\ f \notin Reals /\ f # "stork_substeps"
    BY <1>6, FieldsDiffer
  <2>2. v[1] \in {"bool", "str"}
    BY <1>6, <2>1 DEF Accepts
  <2>3. CASE v[1] = "str"
    <3>1. PICK b : b = (v[2] \in {"true", "1"})
      OBVIOUS
    <3>2. Read(f, v) = Flag(b)
      BY <1>6, <2>1, <2>3, <3>1 DEF Read
    <3>3. QED BY <1>6, <2>1, <3>2, Tagged DEF Typed
  <2>4. CASE v[1] = "bool"
    <3>1. Read(f, v) = v
      BY <2>1, <2>4 DEF Read
    <3>2. QED BY <1>6, <2>1, <2>4, <3>1 DEF Typed
  <2>5. QED BY <2>2, <2>3, <2>4
<1>7. QED BY <1>1, <1>2, <1>3, <1>4, <1>5, <1>6 DEF CardField

\* A value of the field's own type is read as it stands, and written as one.
LEMMA TypedIsRead ==
    ASSUME NEW f \in CardField, NEW v, Typed(f, v)
    PROVE  /\ IsValue(v) /\ Accepts(f, v) /\ Read(f, v) = v
           /\ Typed(f, Rounded(v))
<1>1. IsValue(v) /\ IsValue(Rounded(v)) /\ Rounded(v)[1] = v[1] /\ (v[1] # "real" => Rounded(v) = v)
  BY RoundedTwice DEF Typed
<1>2. CASE f \in Texts
  <2>1. f \notin ChoiceFields /\ f \notin Ints /\ f \notin Reals /\ f # "stork_substeps" /\ f # "use_cot_caption"
    BY <1>2, FieldsDiffer
  <2>2. QED BY <1>1, <1>2, <2>1 DEF Typed, Accepts, Read
<1>3. CASE f \in ChoiceFields
  <2>1. f \notin Texts /\ f \notin Ints /\ f \notin Reals /\ f # "stork_substeps" /\ f # "use_cot_caption"
    BY <1>3, FieldsDiffer
  <2>2. QED BY <1>1, <1>3, <2>1 DEF Typed, Accepts, Read
<1>4. CASE f \in Ints
  <2>1. f \notin Texts /\ f \notin ChoiceFields /\ f \notin Reals /\ f # "stork_substeps" /\ f # "use_cot_caption"
    BY <1>4, FieldsDiffer
  <2>2. QED BY <1>1, <1>4, <2>1 DEF Typed, Accepts, Numeric, Read
<1>5. CASE f \in Reals
  <2>1. f \notin Texts /\ f \notin ChoiceFields /\ f \notin Ints /\ f # "stork_substeps" /\ f # "use_cot_caption"
    BY <1>5, FieldsDiffer
  <2>2. QED BY <1>1, <1>5, <2>1 DEF Typed, Accepts, Numeric, Read
<1>6. CASE f = "stork_substeps"
  <2>1. f \notin Texts /\ f \notin ChoiceFields /\ f \notin Ints /\ f \notin Reals /\ f # "use_cot_caption"
    BY <1>6, FieldsDiffer
  <2>2. QED BY <1>1, <1>6, <2>1 DEF Typed, Accepts, Read
<1>7. CASE f = "use_cot_caption"
  <2>1. f \notin Texts /\ f \notin ChoiceFields /\ f \notin Ints /\ f \notin Reals /\ f # "stork_substeps"
    BY <1>7, FieldsDiffer
  <2>2. QED BY <1>1, <1>7, <2>1 DEF Typed, Accepts, Read
<1>8. QED BY <1>2, <1>3, <1>4, <1>5, <1>6, <1>7 DEF CardField

LEMMA ARequest ==
    ASSUME NEW r, r = [f \in CardField |-> r[f]], \A f \in CardField : Typed(f, r[f])
    PROVE  IsRequest(r)
BY DEF IsRequest

\* A request with one field changed.
LEMMA FieldChanged ==
    ASSUME NEW r, IsRequest(r), NEW g \in CardField, NEW v, Typed(g, v)
    PROVE  LET q == With(r, g, v)
           IN  IsRequest(q) /\ q[g] = v /\ \A f \in CardField \ {g} : q[f] = r[f]
<1> DEFINE q == With(r, g, v)
<1>1. q = [f \in CardField |-> IF f = g THEN v ELSE r[f]]
  BY DEF With
<1>2. q = [f \in CardField |-> q[f]] /\ \A f \in CardField : q[f] = IF f = g THEN v ELSE r[f]
  BY <1>1
<1> HIDE DEF q
<1>3. \A f \in CardField : Typed(f, q[f])
  BY <1>2 DEF IsRequest
<1>4. IsRequest(q)
  BY <1>2, <1>3, ARequest
<1>5. q[g] = v /\ \A f \in CardField \ {g} : q[f] = r[f]
  BY <1>2
<1>6. QED BY <1>4, <1>5 DEF q

Plainly(d) == [f \in CardField |-> IF f \in DOMAIN d /\ Accepts(f, d[f]) THEN Read(f, d[f]) ELSE Defaults[f]]
Silent(r) == r["lyrics"] = Str("[Instrumental]")

LEMMA ParseIs ==
    ASSUME NEW d
    PROVE  Parse(d) = IF Silent(Plainly(d)) THEN With(Plainly(d), "vocal_language", Str("unknown"))
                                            ELSE Plainly(d)
BY DEF Parse, Plainly, Silent

LEMMA Languages == "vocal_language" \in CardField /\ "lyrics" \in CardField /\ "lyrics" # "vocal_language"
BY DEF CardField, Texts

LEMMA UnknownTyped == Typed("vocal_language", Str("unknown"))
<1>1. PICK f : f = "vocal_language" /\ f \in Texts
  BY DEF Texts
<1>2. f \notin ChoiceFields /\ f \notin Ints /\ f \notin Reals /\ f # "stork_substeps" /\ f # "use_cot_caption"
  BY <1>1, FieldsDiffer
<1>3. PICK v : v = Str("unknown") /\ IsValue(v) /\ v[1] = "str"
  BY Tagged
<1>4. Typed(f, v)
  BY <1>2, <1>3 DEF Typed
<1>5. QED BY <1>1, <1>3, <1>4

LEMMA ParseTyped ==
    ASSUME NEW d, IsDocument(d)
    PROVE  IsRequest(Parse(d))
<1>1. PICK r : r = Plainly(d)
  OBVIOUS
<1>2. r = [f \in CardField |-> r[f]]
  BY <1>1 DEF Plainly
<1>3. ASSUME NEW f \in CardField PROVE Typed(f, r[f])
  <2>1. r[f] = IF f \in DOMAIN d /\ Accepts(f, d[f]) THEN Read(f, d[f]) ELSE Defaults[f]
    BY <1>1 DEF Plainly
  <2>2. CASE f \in DOMAIN d /\ Accepts(f, d[f])
    BY <2>1, <2>2, ReadTyped DEF IsDocument
  <2>3. CASE ~ (f \in DOMAIN d /\ Accepts(f, d[f]))
    BY <2>1, <2>3, DefaultsTyped
  <2>4. QED BY <2>2, <2>3
<1>4. IsRequest(r)
  BY <1>2, <1>3, ARequest
<1>5. IsRequest(With(r, "vocal_language", Str("unknown")))
  BY <1>4, Languages, UnknownTyped, FieldChanged
<1>6. QED BY <1>1, <1>4, <1>5, ParseIs

\* What writing and reading a request makes of a field.
Back(r, f) == IF f = "vocal_language" /\ Silent(r) THEN Str("unknown") ELSE Rounded(r[f])

LEMMA WrittenIsRead ==
    ASSUME NEW r, IsRequest(r), NEW sparse
    PROVE  /\ IsDocument(Write(r, sparse))
           /\ IsRequest(Parse(Write(r, sparse)))
           /\ \A f \in CardField : Parse(Write(r, sparse))[f] = Back(r, f)
<1>1. PICK d : d = Write(r, sparse)
  OBVIOUS
<1>2. /\ DOMAIN d = {g \in CardField : ~sparse \/ g \in AlwaysWritten \/ r[g] # Defaults[g]}
      /\ \A f \in DOMAIN d : d[f] = Rounded(r[f])
  BY <1>1 DEF Write
<1>3. DOMAIN d \subseteq CardField /\ \A f \in CardField \ DOMAIN d : r[f] = Defaults[f]
  BY <1>2
<1>4. \A f \in CardField : Typed(f, r[f]) /\ Typed(f, Rounded(r[f]))
  BY TypedIsRead DEF IsRequest
<1>5. IsDocument(d)
  BY <1>2, <1>3, <1>4 DEF IsDocument, Typed
<1>6. PICK q : q = Plainly(d)
  OBVIOUS
<1>7. q = [f \in CardField |-> q[f]]
  BY <1>6 DEF Plainly
<1>8. ASSUME NEW f \in CardField PROVE q[f] = Rounded(r[f])
  <2>1. q[f] = IF f \in DOMAIN d /\ Accepts(f, d[f]) THEN Read(f, d[f]) ELSE Defaults[f]
    BY <1>6 DEF Plainly
  <2>2. CASE f \in DOMAIN d
    <3>1. d[f] = Rounded(r[f])
      BY <1>2, <2>2
    <3>2. Accepts(f, d[f]) /\ Read(f, d[f]) = d[f]
      BY <1>4, <3>1, TypedIsRead
    <3>3. QED BY <2>1, <2>2, <3>1, <3>2
  <2>3. CASE f \notin DOMAIN d
    BY <1>3, <2>1, <2>3, DefaultsRounded
  <2>4. QED BY <2>2, <2>3
<1>9. Silent(q) <=> Silent(r)
  <2>1. "lyrics" \in CardField /\ "lyrics" \in Texts
    BY DEF CardField, Texts
  <2>2. r["lyrics"][1] = "str" /\ IsValue(r["lyrics"])
    BY <1>4, <2>1 DEF Typed
  <2>3. Rounded(r["lyrics"]) = r["lyrics"]
    BY <2>2 DEF Rounded
  <2>4. q["lyrics"] = r["lyrics"]
    BY <1>8, <2>1, <2>3
  <2>5. QED BY <2>4 DEF Silent
<1>10. IsRequest(q)
  BY <1>4, <1>7, <1>8, ARequest
<1>11. \A f \in CardField : Parse(d)[f] = Back(r, f)
  <2>1. CASE Silent(q)
    <3>1. PICK p : p = With(q, "vocal_language", Str("unknown"))
      OBVIOUS
    <3>2. p["vocal_language"] = Str("unknown") /\ \A f \in CardField \ {"vocal_language"} : p[f] = q[f]
      BY <1>10, <3>1, Languages, UnknownTyped, FieldChanged
    <3>3. Parse(d) = p
      BY <1>6, <2>1, <3>1, ParseIs
    <3>4. QED BY <1>8, <1>9, <2>1, <3>2, <3>3 DEF Back
  <2>2. CASE ~ Silent(q)
    <3>1. Parse(d) = q
      BY <1>6, <2>2, ParseIs
    <3>2. QED BY <1>8, <1>9, <2>2, <3>1 DEF Back
  <2>3. QED BY <2>1, <2>2
<1>12. IsRequest(Parse(d))
  BY <1>5, ParseTyped
<1>13. QED BY <1>1, <1>5, <1>11, <1>12

LEMMA SameRequest ==
    ASSUME NEW r, IsRequest(r), NEW q, IsRequest(q), \A f \in CardField : r[f] = q[f]
    PROVE  r = q
BY DEF IsRequest

\* Written and read once more, it stays what it is.
LEMMA ReadOnceMore ==
    ASSUME NEW r, IsRequest(r), NEW once, NEW sparse, once = Parse(Write(r, TRUE))
    PROVE  Parse(Write(once, sparse)) = once
<1>1. IsRequest(once) /\ \A f \in CardField : once[f] = Back(r, f)
  BY WrittenIsRead, Zenon
<1>2. IsRequest(Parse(Write(once, sparse))) /\ \A f \in CardField : Parse(Write(once, sparse))[f] = Back(once, f)
  BY <1>1, WrittenIsRead
<1>3. ASSUME NEW f \in CardField PROVE Back(once, f) = once[f]
  <2>1. IsValue(r[f]) /\ Rounded(Rounded(r[f])) = Rounded(r[f])
    BY RoundedTwice DEF IsRequest, Typed
  <2>2. Silent(once) => Silent(r)
    <3>1. r["lyrics"][1] = "str"
      BY DEF IsRequest, Typed, CardField, Texts
    <3>2. once["lyrics"] = r["lyrics"]
      BY <1>1, <3>1, Languages DEF Back, Rounded
    <3>3. QED BY <3>2 DEF Silent
  <2>3. Rounded(Str("unknown")) = Str("unknown")
    BY DEF Rounded, Str
  <2>4. CASE f = "vocal_language" /\ Silent(r)
    <3>1. once[f] = Str("unknown")
      BY <1>1, <2>4 DEF Back
    <3>2. QED BY <2>3, <3>1 DEF Back
  <2>5. CASE ~ (f = "vocal_language" /\ Silent(r))
    <3>1. once[f] = Rounded(r[f])
      BY <1>1, <2>5 DEF Back
    <3>2. QED BY <2>1, <2>2, <2>5, <3>1 DEF Back
  <2>6. QED BY <2>4, <2>5
<1>4. QED BY <1>1, <1>2, <1>3, SameRequest
-----------------------------------------------------------------------------
(* RequestCards: what the handlers and the workers make of a request. *)

LEMMA TextTyped ==
    ASSUME NEW f \in Texts, NEW s
    PROVE  f \in CardField /\ Typed(f, Str(s))
<1>1. f \notin ChoiceFields /\ f \notin Ints /\ f \notin Reals /\ f # "stork_substeps" /\ f # "use_cot_caption"
  BY FieldsDiffer
<1>2. QED BY <1>1, Tagged DEF Typed, CardField

LEMMA IntTyped ==
    ASSUME NEW f \in Ints
    PROVE  /\ f \in CardField /\ f # "vocal_language"
           /\ \A n \in Int : Typed(f, Whole(n))
           /\ \A v : Typed(f, v) => v[2] \in Int /\ Rounded(v) = v
<1>1. /\ f \notin Texts /\ f \notin ChoiceFields /\ f \notin Reals /\ f # "stork_substeps" /\ f # "use_cot_caption"
      /\ f # "vocal_language"
  BY FieldsDiffer DEF Texts
<1>2. \A n \in Int : Typed(f, Whole(n))
  BY <1>1, Tagged DEF Typed
<1>3. \A v : Typed(f, v) => v[2] \in Int /\ Rounded(v) = v
  BY DEF Typed, IsValue, Rounded
<1>4. QED BY <1>1, <1>2, <1>3 DEF CardField

LEMMA RealTyped ==
    ASSUME NEW f \in Reals, NEW n \in Int
    PROVE  f \in CardField /\ Typed(f, Real(n))
<1>1. f \notin Texts /\ f \notin ChoiceFields /\ f \notin Ints /\ f # "stork_substeps" /\ f # "use_cot_caption"
  BY FieldsDiffer
<1>2. QED BY <1>1, Tagged DEF Typed, CardField

LEMMA FlagTyped == \A f : f = "use_cot_caption" => f \in CardField /\ Typed(f, Flag(TRUE))
<1>1. SUFFICES ASSUME NEW f, f = "use_cot_caption" PROVE f \in CardField /\ Typed(f, Flag(TRUE))
  OBVIOUS
<1>2. f \notin Texts /\ f \notin ChoiceFields /\ f \notin Ints /\ f \notin Reals /\ f # "stork_substeps"
  BY <1>1, FieldsDiffer
<1>3. IsValue(Flag(TRUE)) /\ Flag(TRUE)[1] = "bool"
  BY DEF IsValue, Flag
<1>4. QED BY <1>1, <1>2, <1>3 DEF Typed, CardField

\* The pipe to the worker changes no whole number.
LEMMA MarshalKeeps ==
    ASSUME NEW r, IsRequest(r)
    PROVE  IsRequest(Marshal(r)) /\ \A f \in Ints : Marshal(r)[f] = r[f]
<1>1. CASE piped
  <2>1. Marshal(r) = Parse(Write(r, FALSE))
    BY <1>1, Zenon DEF Marshal
  <2>2. PICK q : q = Parse(Write(r, FALSE)) /\ IsRequest(q) /\ \A f \in CardField : q[f] = Back(r, f)
    BY WrittenIsRead, Zenon
  <2>3. ASSUME NEW f \in Ints PROVE q[f] = r[f]
    <3>1. f \in CardField /\ f # "vocal_language" /\ Rounded(r[f]) = r[f]
      BY IntTyped DEF IsRequest
    <3>2. QED BY <2>2, <3>1 DEF Back
  <2>4. QED BY <2>1, <2>2, <2>3
<1>2. CASE ~ piped
  BY <1>2 DEF Marshal
<1>3. QED BY <1>1, <1>2

\* A seed that is missing is drawn, one that is there stays.
LEMMA SeedResolved ==
    ASSUME NEW r, IsRequest(r), NEW f \in Seeds, NEW random \in Nat
    PROVE  LET q == Resolved(r, f, random)
           IN  /\ IsRequest(q) /\ q[f][2] \in Nat
               /\ \A g \in CardField \ {f} : q[g] = r[g]
               /\ r[f][2] >= 0 => q = r
<1>1. f \in Ints
  BY DEF Seeds, Ints
<1>2. f \in CardField /\ Typed(f, Whole(random)) /\ r[f][2] \in Int
  BY <1>1, IntTyped DEF IsRequest
<1>3. CASE r[f][2] < 0
  <2>1. PICK v : v = Whole(random) /\ v[2] = random
    BY Tagged
  <2>2. PICK q : q = With(r, f, v)
    OBVIOUS
  <2>3. Resolved(r, f, random) = q
    BY <1>3, <2>1, <2>2 DEF Resolved
  <2>4. f \in CardField /\ Typed(f, v)
    BY <1>2, <2>1
  <2>5. IsRequest(With(r, f, v))
        /\ \A g \in CardField : With(r, f, v)[g] = IF g = f THEN v ELSE r[g]
    <3>1. IsRequest(With(r, f, v))
      BY <2>4, FieldChanged
    <3>2. \A g \in CardField : With(r, f, v)[g] = IF g = f THEN v ELSE r[g]
      BY DEF With
    <3>3. QED BY <3>1, <3>2
  <2>6. IsRequest(q) /\ q[f] = v /\ \A g \in CardField \ {f} : q[g] = r[g]
    BY <2>2, <2>4, <2>5
  <2>7. QED BY <1>2, <1>3, <2>1, <2>3, <2>6
<1>4. CASE ~ (r[f][2] < 0)
  BY <1>2, <1>4 DEF Resolved
<1>5. QED BY <1>3, <1>4

LEMMA InBetween ==
    ASSUME NEW n \in Int, NEW low \in Int, NEW high \in Int, low <= high
    PROVE  Between(n, low, high) \in Int /\ low <= Between(n, low, high) /\ Between(n, low, high) <= high
BY DEF Between

LEMMA SecondsTyped ==
    ASSUME NEW v, Typed("duration", v)
    PROVE  Typed("duration", Seconds(v))
<1>1. PICK f \in Reals : f = "duration"
  BY DEF Reals
<1>2. \A n \in Int : Typed(f, Real(n))
  BY RealTyped
<1>3. PICK a \in Int, b \in Int : a = 120000 /\ b = 600000
  OBVIOUS
<1>4. Seconds(v) = IF v[2] <= 0 THEN Real(a) ELSE IF v[2] > b THEN Real(b) ELSE v
  BY <1>3 DEF Seconds
<1>5. QED BY <1>1, <1>2, <1>4

\* What the LM makes of a request: requests, with seeds of their own.
Replayable(r) == IsRequest(r) /\ r["seed"][2] >= 0 /\ r["lm_seed"][2] >= 0

LEMMA LmMakesRequests ==
    ASSUME NEW r, IsRequest(r), r["lm_seed"][2] >= 0, NEW n \in Nat, NEW dit \in Nat,
           NEW lyrics, Typed("lyrics", lyrics)
    PROVE  LET m == LmOut(r, n, dit, lyrics)
           IN  m = [b \in 1 .. n |-> m[b]] /\ \A b \in 1 .. n : Replayable(m[b])
<1>1. PICK m : m = LmOut(r, n, dit, lyrics)
  OBVIOUS
<1>2. m = [b \in 1 .. n |-> m[b]]
  BY <1>1 DEF LmOut
<1>3. ASSUME NEW b \in 1 .. n PROVE Replayable(m[b])
  <2>1. PICK line : line = IF r["lyrics"] = Str(Blank) THEN lyrics ELSE r["lyrics"]
    OBVIOUS
  <2>2. PICK secs : secs = Seconds(r["duration"])
    OBVIOUS
  <2>3. PICK i \in Int : i = dit + b - 1 /\ i >= 0
    OBVIOUS
  <2>4. PICK l \in Int : l = r["lm_seed"][2] + b - 1 /\ l >= 0
    <3>1. "lm_seed" \in Ints
      BY DEF Ints
    <3>2. r["lm_seed"][2] \in Int
      BY <3>1, IntTyped DEF IsRequest
    <3>3. QED BY <3>2
  <2>5. PICK cot : cot = IF r["lm_mode"] = Str("inspire") THEN Flag(TRUE) ELSE r["use_cot_caption"]
    OBVIOUS
  <2>6. PICK one : one = Whole(1)
    OBVIOUS
  <2>7. \A f \in CardField :
          m[b][f] = CASE f = "lyrics" /\ r[f] = Str(Blank) -> lyrics
                      [] f = "duration" -> Seconds(r[f])
                      [] f = "seed" -> Whole(dit + b - 1)
                      [] f = "lm_seed" -> Whole(r[f][2] + b - 1)
                      [] f = "lm_batch_size" -> Whole(1)
                      [] f = "use_cot_caption" /\ r["lm_mode"] = Str("inspire") -> Flag(TRUE)
                      [] OTHER -> r[f]
    BY <1>1 DEF LmOut
  <2>8. /\ Typed("lyrics", line) /\ Typed("duration", secs) /\ Typed("seed", Whole(i)) /\ Typed("lm_seed", Whole(l))
        /\ Typed("lm_batch_size", one) /\ Typed("use_cot_caption", cot)
    <3>1. /\ "lyrics" \in CardField /\ "duration" \in CardField /\ "use_cot_caption" \in CardField
          /\ "seed" \in Ints /\ "lm_seed" \in Ints /\ "lm_batch_size" \in Ints
      BY DEF CardField, Texts, Reals, Ints
    <3>2. Typed("lyrics", line)
      BY <2>1, <3>1 DEF IsRequest
    <3>3. Typed("duration", secs)
      BY <2>2, <3>1, SecondsTyped DEF IsRequest
    <3>4. Typed("seed", Whole(i)) /\ Typed("lm_seed", Whole(l))
      BY <3>1, IntTyped
    <3>5. 1 \in Int
      OBVIOUS
    <3>6. Typed("lm_batch_size", one)
      BY <2>6, <3>1, <3>5, IntTyped, Zenon
    <3>7. Typed("use_cot_caption", cot)
      <4>1. Typed("use_cot_caption", Flag(TRUE))
        BY FlagTyped
      <4>2. QED BY <2>5, <3>1, <4>1 DEF IsRequest
    <3>8. QED BY <3>2, <3>3, <3>4, <3>6, <3>7
  <2>9. PICK a : a = Whole(i) /\ Typed("seed", a) /\ a[2] >= 0
    BY <2>3, <2>8, Tagged
  <2>10. PICK c : c = Whole(l) /\ Typed("lm_seed", c) /\ c[2] >= 0
    BY <2>4, <2>8, Tagged
  <2>11. m[b] = [f \in CardField |-> m[b][f]]
    BY <1>1 DEF LmOut
  <2>12. PICK q : q = m[b]
    OBVIOUS
  <2>13. /\ q = [f \in CardField |-> q[f]]
         /\ \A f \in CardField :
              q[f] = IF f = "lyrics" THEN line ELSE IF f = "duration" THEN secs ELSE IF f = "seed" THEN a
                     ELSE IF f = "lm_seed" THEN c ELSE IF f = "lm_batch_size" THEN one
                     ELSE IF f = "use_cot_caption" THEN cot ELSE r[f]
    BY <2>1, <2>2, <2>3, <2>4, <2>5, <2>6, <2>7, <2>9, <2>10, <2>11, <2>12
  <2>14. ASSUME NEW f \in CardField PROVE Typed(f, q[f])
    <3>1. Typed(f, r[f])
      BY DEF IsRequest
    <3>2. QED BY <2>8, <2>9, <2>10, <2>13, <3>1
  <2>15. IsRequest(q)
    BY <2>13, <2>14, ARequest
  <2>16. q["seed"] = a /\ q["lm_seed"] = c
    BY <2>13 DEF CardField, Ints
  <2>17. QED BY <2>9, <2>10, <2>12, <2>15, <2>16 DEF Replayable
<1>4. QED BY <1>1, <1>2, <1>3
-----------------------------------------------------------------------------
(* RequestCards: what a batch is made of. *)

UpTo(rs, f) == f = [k \in 0 .. Len(rs) |-> IF k = 0 THEN <<>> ELSE Expand(f[k - 1], rs[k])]

LEMMA UpToExists ==
    ASSUME NEW rs, Len(rs) \in Nat
    PROVE  \E f : UpTo(rs, f)
<1>1. PICK K \in Nat : K = Len(rs)
  OBVIOUS
<1> DEFINE Q(f, n) == /\ f = [j \in 0 .. K |-> f[j]]
                      /\ \A j \in 0 .. K : j <= n => f[j] = IF j = 0 THEN <<>> ELSE Expand(f[j - 1], rs[j])
           Lacking == {n \in Nat : n <= K /\ ~ \E f : Q(f, n)}
<1>2. Lacking = {}
  <2>1. SUFFICES ASSUME Lacking # {} PROVE FALSE
    OBVIOUS
  <2>2. PICK n \in Lacking : \A x \in Lacking : n <= x
    <3>1. Lacking \subseteq Nat
      OBVIOUS
    <3> HIDE DEF Lacking
    <3>2. QED BY <2>1, <3>1, LeastElement
  <2>3. n # 0
    <3>1. SUFFICES ASSUME n = 0 PROVE FALSE
      OBVIOUS
    <3>2. PICK f : f = [j \in 0 .. K |-> <<>>]
      OBVIOUS
    <3>3. f = [j \in 0 .. K |-> f[j]] /\ \A j \in 0 .. K : f[j] = <<>>
      BY <3>2
    <3>4. Q(f, 0)
      BY <3>3
    <3>5. QED BY <3>1, <3>4
  <2>4. PICK f : Q(f, n - 1)
    <3>1. n - 1 \in Nat /\ n - 1 <= K /\ ~ (n <= n - 1)
      BY <2>3
    <3>2. n - 1 \notin Lacking
      BY <2>2, <3>1
    <3>3. QED BY <3>1, <3>2
  <2>5. n \in 1 .. K /\ n \in 0 .. K /\ n - 1 \in 0 .. K
    BY <2>3
  <2>6. PICK v : v = Expand(f[n - 1], rs[n])
    OBVIOUS
  <2>7. PICK g : g = [j \in 0 .. K |-> IF j = n THEN v ELSE f[j]]
    OBVIOUS
  <2>8. g = [j \in 0 .. K |-> g[j]] /\ \A j \in 0 .. K : g[j] = IF j = n THEN v ELSE f[j]
    BY <2>7
  <2>9. Q(g, n)
    <3>1. SUFFICES ASSUME NEW j \in 0 .. K, j <= n
                   PROVE  g[j] = IF j = 0 THEN <<>> ELSE Expand(g[j - 1], rs[j])
      BY <2>8
    <3>2. CASE j = n
      <4>1. g[n] = v /\ g[n - 1] = f[n - 1]
        BY <2>5, <2>8
      <4>2. QED BY <2>3, <2>6, <3>2, <4>1
    <3>3. CASE j # n
      <4>1. j <= n - 1
        BY <2>5, <3>1, <3>3
      <4>2. f[j] = IF j = 0 THEN <<>> ELSE Expand(f[j - 1], rs[j])
        BY <2>4, <4>1
      <4>3. j # 0 => j - 1 # n /\ j - 1 \in 0 .. K
        BY <2>5, <4>1
      <4>4. g[j] = f[j] /\ (j # 0 => g[j - 1] = f[j - 1])
        BY <2>8, <3>3, <4>3
      <4>5. QED BY <4>2, <4>4
    <3>4. QED BY <3>2, <3>3
  <2>10. QED BY <2>2, <2>9
<1>3. PICK f : Q(f, K)
  <2>1. K \in Nat /\ K <= K
    OBVIOUS
  <2>2. QED BY <1>2, <2>1
<1>4. f = [j \in 0 .. K |-> IF j = 0 THEN <<>> ELSE Expand(f[j - 1], rs[j])]
  BY <1>3
<1>5. QED BY <1>1, <1>4 DEF UpTo

LEMMA ExpandedIs ==
    ASSUME NEW rs, Len(rs) \in Nat
    PROVE  \E f : UpTo(rs, f) /\ Expanded(rs) = f[Len(rs)]
<1>1. PICK f : f = CHOOSE x : x = [k \in 0 .. Len(rs) |-> IF k = 0 THEN <<>> ELSE Expand(x[k - 1], rs[k])]
  OBVIOUS
<1>2. f = [k \in 0 .. Len(rs) |-> IF k = 0 THEN <<>> ELSE Expand(f[k - 1], rs[k])]
  BY <1>1, UpToExists, Zenon DEF UpTo
<1>3. Expanded(rs) = f[Len(rs)]
  BY <1>1, Zenon DEF Expanded
<1>4. QED BY <1>2, <1>3 DEF UpTo

LEMMA Joined ==
    ASSUME NEW m \in Nat, NEW n \in Nat, NEW s, s = [t \in 1 .. m |-> s[t]], NEW v, v = [t \in 1 .. n |-> v[t]]
    PROVE  /\ Len(s) = m /\ Len(v) = n /\ s \o v = [t \in 1 .. m + n |-> (s \o v)[t]]
           /\ \A t \in 1 .. m : (s \o v)[t] = s[t]
           /\ \A t \in 1 .. m + n : t > m => t - m \in 1 .. n /\ (s \o v)[t] = v[t - m]
<1>1. PICK T : T = {s[t] : t \in 1 .. m} \cup {v[t] : t \in 1 .. n}
  OBVIOUS
<1>2. s \in [1 .. m -> T] /\ v \in [1 .. n -> T]
  BY <1>1
<1>3. \A h \in Nat : \A f \in [1 .. h -> T] : f \in Seq(T) /\ Len(f) = h
  OBVIOUS
<1>4. s \in Seq(T) /\ v \in Seq(T) /\ Len(s) = m /\ Len(v) = n
  BY <1>2, <1>3
<1>5. PICK w : w = s \o v
  OBVIOUS
<1>6. /\ w \in Seq(T) /\ Len(w) = m + n
      /\ \A t \in 1 .. m + n : w[t] = IF t <= m THEN s[t] ELSE v[t - m]
  BY <1>4, <1>5, ConcatProperties
<1>7. w = [t \in 1 .. m + n |-> w[t]]
  BY <1>6
<1>8. \A t \in 1 .. m + n : t > m => t - m \in 1 .. n
  OBVIOUS
<1>9. QED BY <1>4, <1>5, <1>6, <1>7, <1>8

\* A track that comes of one of the requests.
From(r, x) == \E i \in Nat : i < Variants(r) /\ x["seed"][2] = r["seed"][2] + i

LEMMA VariantsFit ==
    ASSUME NEW r, IsRequest(r)
    PROVE  Variants(r) \in Nat /\ 1 <= Variants(r) /\ Variants(r) <= MaxTracks
<1>1. "synth_batch_size" \in Ints
  BY DEF Ints
<1>2. PICK n \in Int : n = r["synth_batch_size"][2]
  BY <1>1, IntTyped DEF IsRequest
<1>3. PICK h \in Nat : h = MaxTracks /\ 1 <= h
  BY CardsAssumption
<1>4. Variants(r) = Between(n, 1, h)
  BY <1>2, <1>3 DEF Variants
<1>5. QED BY <1>3, <1>4 DEF Between

\* The batch s of m tracks with what there is room for of one more request.
Grown(s, m, r, w) ==
    \E n \in Nat :
        /\ m + n <= MaxTracks /\ (n > 0 \/ m = MaxTracks)
        /\ w = [t \in 1 .. m + n |-> w[t]]
        /\ \A t \in 1 .. m : w[t] = s[t]
        /\ \A t \in 1 .. m + n : t > m => From(r, w[t])

LEMMA OneMore ==
    ASSUME NEW r, IsRequest(r), NEW m \in Nat, m <= MaxTracks, NEW s, s = [t \in 1 .. m |-> s[t]]
    PROVE  Grown(s, m, r, Expand(s, r))
<1>1. PICK h \in Nat : h = MaxTracks
  BY CardsAssumption
<1>2. PICK k \in Nat : k = Variants(r) /\ 1 <= k
  BY VariantsFit
<1>3. PICK n \in Nat : n = IF k > h - m THEN h - m ELSE k
  BY <1>1
<1>4. n <= k /\ m + n <= h /\ (n > 0 \/ m = h)
  BY <1>1, <1>2, <1>3
<1>5. PICK v : v = [i \in 1 .. n |-> With(r, "seed", Whole(r["seed"][2] + i - 1))]
  OBVIOUS
<1>6. v = [i \in 1 .. n |-> v[i]]
  BY <1>5
<1>7. ASSUME NEW i \in 1 .. n PROVE From(r, v[i])
  <2>1. PICK a \in Int : a = r["seed"][2]
    <3>1. "seed" \in Ints
      BY DEF Ints
    <3>2. QED BY <3>1, IntTyped DEF IsRequest
  <2>2. PICK d \in Int : d = a + i - 1
    BY <2>1
  <2>3. PICK y : y = Whole(d) /\ y[2] = d
    BY Tagged
  <2>4. v[i] = With(r, "seed", y)
    BY <1>5, <2>1, <2>2, <2>3
  <2>5. "seed" \in CardField
    BY DEF CardField, Ints
  <2>6. v[i]["seed"] = y
    BY <2>4, <2>5 DEF With
  <2>7. i - 1 \in Nat /\ i - 1 < k /\ d = a + (i - 1)
    BY <1>4, <2>1, <2>2
  <2>8. QED BY <1>2, <2>1, <2>3, <2>6, <2>7 DEF From
<1>8. Len(s) = m
  BY <1>6, Joined
<1>9. PICK w : w = s \o v
  OBVIOUS
<1>10. Expand(s, r) = w
  BY <1>1, <1>2, <1>3, <1>5, <1>8, <1>9 DEF Expand
<1>11. /\ w = [t \in 1 .. m + n |-> w[t]] /\ \A t \in 1 .. m : w[t] = s[t]
       /\ \A t \in 1 .. m + n : t > m => t - m \in 1 .. n /\ w[t] = v[t - m]
  BY <1>6, <1>9, Joined, SMTT(30)
<1>12. \A t \in 1 .. m + n : t > m => From(r, w[t])
  BY <1>7, <1>11
<1>13. Grown(s, m, r, w)
  BY <1>1, <1>4, <1>11, <1>12 DEF Grown
<1>14. QED BY <1>10, <1>13

\* The batch after k of the requests.
Batched(rs, k, s) ==
    \E m \in Nat :
        /\ m <= MaxTracks /\ s = [t \in 1 .. m |-> s[t]]
        /\ k > 0 => m > 0
        /\ m < MaxTracks => m >= k
        /\ \A t \in 1 .. m : \E j \in 1 .. k : From(rs[j], s[t])

LEMMA BatchGrows ==
    ASSUME NEW rs, NEW k \in Nat, NEW s, Batched(rs, k, s), IsRequest(rs[k + 1])
    PROVE  Batched(rs, k + 1, Expand(s, rs[k + 1]))
<1>1. PICK m \in Nat :
          /\ m <= MaxTracks /\ s = [t \in 1 .. m |-> s[t]]
          /\ k > 0 => m > 0
          /\ m < MaxTracks => m >= k
          /\ \A t \in 1 .. m : \E j \in 1 .. k : From(rs[j], s[t])
  BY DEF Batched
<1>2. PICK r : r = rs[k + 1] /\ IsRequest(r)
  OBVIOUS
<1>3. PICK w : w = Expand(s, r)
  OBVIOUS
<1>4. PICK n \in Nat :
          /\ m + n <= MaxTracks /\ (n > 0 \/ m = MaxTracks)
          /\ w = [t \in 1 .. m + n |-> w[t]]
          /\ \A t \in 1 .. m : w[t] = s[t]
          /\ \A t \in 1 .. m + n : t > m => From(r, w[t])
  <2>1. m <= MaxTracks /\ s = [t \in 1 .. m |-> s[t]]
    BY <1>1
  <2>2. Grown(s, m, r, Expand(s, r))
    BY <1>2, <2>1, OneMore
  <2>3. QED BY <1>3, <2>2 DEF Grown
<1>5. PICK h \in Nat : h = MaxTracks /\ h > 0
  BY CardsAssumption
<1>6. m + n \in Nat /\ m + n <= h /\ m + n > 0 /\ (m + n < h => m + n >= k + 1)
  BY <1>1, <1>4, <1>5
<1>7. ASSUME NEW t \in 1 .. m + n PROVE \E j \in 1 .. k + 1 : From(rs[j], w[t])
  <2>1. CASE t <= m
    <3>1. t \in 1 .. m
      BY <2>1
    <3>2. PICK j \in 1 .. k : From(rs[j], s[t])
      BY <1>1, <3>1
    <3>3. j \in 1 .. k + 1
      OBVIOUS
    <3>4. QED BY <1>4, <3>1, <3>2, <3>3
  <2>2. CASE t > m
    <3>1. k + 1 \in 1 .. k + 1
      OBVIOUS
    <3>2. From(r, w[t])
      BY <1>4, <2>2
    <3>3. QED BY <1>2, <3>1, <3>2
  <2>3. QED BY <2>1, <2>2
<1>8. QED BY <1>2, <1>3, <1>4, <1>5, <1>6, <1>7 DEF Batched

LEMMA BatchOfAll ==
    ASSUME NEW rs, NEW K \in Nat, Len(rs) = K, \A k \in 1 .. K : IsRequest(rs[k])
    PROVE  Batched(rs, K, Expanded(rs))
<1>1. PICK f : UpTo(rs, f) /\ Expanded(rs) = f[K]
  BY ExpandedIs
<1>2. \A j \in 0 .. K : f[j] = IF j = 0 THEN <<>> ELSE Expand(f[j - 1], rs[j])
  <2>1. f = [k \in 0 .. K |-> IF k = 0 THEN <<>> ELSE Expand(f[k - 1], rs[k])]
    BY <1>1 DEF UpTo
  <2>2. PICK g : g = [k \in 0 .. K |-> IF k = 0 THEN <<>> ELSE Expand(f[k - 1], rs[k])]
    OBVIOUS
  <2>3. \A j \in 0 .. K : g[j] = IF j = 0 THEN <<>> ELSE Expand(f[j - 1], rs[j])
    BY <2>2
  <2>4. QED BY <2>1, <2>2, <2>3
<1> DEFINE Odd == {k \in Nat : k <= K /\ ~ Batched(rs, k, f[k])}
<1>3. Odd = {}
  <2>1. SUFFICES ASSUME Odd # {} PROVE FALSE
    OBVIOUS
  <2>2. PICK k \in Odd : \A x \in Odd : k <= x
    <3>1. Odd \subseteq Nat
      OBVIOUS
    <3> HIDE DEF Odd
    <3>2. QED BY <2>1, <3>1, LeastElement
  <2>3. k # 0
    <3>1. Batched(rs, 0, <<>>)
      <4>1. 0 \in Nat /\ 0 <= MaxTracks /\ <<>> = [t \in 1 .. 0 |-> <<>>[t]]
        BY CardsAssumption
      <4>2. QED BY <4>1 DEF Batched
    <3>2. f[0] = <<>>
      BY <1>2
    <3>3. QED BY <2>2, <3>1, <3>2
  <2>4. PICK i \in Nat : i = k - 1 /\ i <= K /\ ~ (k <= i) /\ k = i + 1 /\ k \in 1 .. K /\ k \in 0 .. K
    BY <2>3
  <2>5. Batched(rs, i, f[i])
    BY <2>2, <2>4
  <2>6. f[k] = Expand(f[i], rs[k])
    BY <1>2, <2>3, <2>4
  <2>7. IsRequest(rs[i + 1])
    BY <2>4
  <2>8. Batched(rs, i + 1, Expand(f[i], rs[i + 1]))
    BY <2>5, <2>7, BatchGrows
  <2>9. QED BY <2>2, <2>4, <2>6, <2>8
<1>4. K \in Nat /\ K <= K
  OBVIOUS
<1>5. QED BY <1>1, <1>3, <1>4
-----------------------------------------------------------------------------
(* RequestCards: the answer of the LM, and the cards that are posted. *)

Answered(m, docs) ==
    \E n \in Nat : /\ m = [b \in 1 .. n |-> m[b]] /\ docs = [b \in 1 .. n |-> Write(m[b], TRUE)]
                   /\ \A b \in 1 .. n : Replayable(m[b])

Posting(docs) ==
    \E n \in Nat \ {0} : docs = [k \in 1 .. n |-> docs[k]] /\ \A k \in 1 .. n : IsDocument(docs[k])

CardInv ==
    /\ card \in Cards
    /\ Answered(made, results)
    /\ cardPc = "synth" => Posting(posted)
    /\ TracksAccountedFor

LEMMA SeedsComeBack ==
    ASSUME NEW r, IsRequest(r), NEW sparse
    PROVE  \A f \in Ints : Parse(Write(r, sparse))[f] = r[f]
<1>1. PICK q : q = Parse(Write(r, sparse)) /\ \A f \in CardField : q[f] = Back(r, f)
  BY WrittenIsRead
<1>2. ASSUME NEW f \in Ints PROVE q[f] = r[f]
  <2>1. f \in CardField /\ f # "vocal_language" /\ Rounded(r[f]) = r[f]
    BY IntTyped DEF IsRequest
  <2>2. QED BY <1>1, <2>1 DEF Back
<1>3. QED BY <1>1, <1>2

LEMMA AnsweredReplays ==
    ASSUME Answered(made, results)
    PROVE  CardReplays
<1>1. PICK n \in Nat : /\ made = [b \in 1 .. n |-> made[b]] /\ results = [b \in 1 .. n |-> Write(made[b], TRUE)]
                       /\ \A b \in 1 .. n : Replayable(made[b])
  BY DEF Answered
<1>2. SUFFICES ASSUME NEW b \in 1 .. n
               PROVE  LET again == Parse(results[b])
                      IN  /\ \A f \in Seeds : again[f][2] >= 0 /\ SeedUsed(again, f) = SeedUsed(made[b], f)
                          /\ \A f \in CardField \ {"vocal_language"} : again[f] = Rounded(made[b][f])
                          /\ Parse(Write(again, TRUE)) = again /\ Parse(Write(again, FALSE)) = again
  <2>1. DOMAIN results = 1 .. n
    BY <1>1
  <2>2. QED BY <2>1 DEF CardReplays
<1>3. PICK r : r = made[b] /\ IsRequest(r) /\ r["seed"][2] >= 0 /\ r["lm_seed"][2] >= 0
  BY <1>1 DEF Replayable
<1>4. PICK q : q = Parse(Write(r, TRUE)) /\ \A f \in CardField : q[f] = Back(r, f)
  BY <1>3, WrittenIsRead, Zenon
<1>5. q = Parse(results[b])
  BY <1>1, <1>3, <1>4
<1>6. \A f \in Seeds : q[f] = r[f] /\ f \in {"seed", "lm_seed"}
  <2>1. \A f \in Seeds : f \in Ints
    BY DEF Seeds, Ints
  <2>2. \A f \in Ints : q[f] = r[f]
    BY <1>3, <1>4, SeedsComeBack, Zenon
  <2>3. QED BY <2>1, <2>2 DEF Seeds
<1>7. \A f \in Seeds : q[f][2] >= 0 /\ SeedUsed(q, f) = SeedUsed(r, f)
  BY <1>3, <1>6 DEF SeedUsed
<1>8. \A f \in CardField \ {"vocal_language"} : q[f] = Rounded(r[f])
  BY <1>4 DEF Back
<1>9. Parse(Write(q, TRUE)) = q /\ Parse(Write(q, FALSE)) = q
  BY <1>3, <1>4, ReadOnceMore, ZenonT(30)
<1>10. QED BY <1>3, <1>5, <1>7, <1>8, <1>9

LEMMA CardStarts == CardInit => CardInv
<1>1. SUFFICES ASSUME CardInit PROVE CardInv
  OBVIOUS
<1>2. card \in Cards /\ cardPc = "post" /\ made = <<>> /\ results = <<>>
  BY <1>1 DEF CardInit
<1>3. Answered(made, results)
  <2>1. /\ 0 \in Nat /\ <<>> = [b \in 1 .. 0 |-> <<>>[b]] /\ <<>> = [b \in 1 .. 0 |-> Write(<<>>[b], TRUE)]
        /\ \A b \in 1 .. 0 : Replayable(<<>>[b])
    OBVIOUS
  <2>2. QED BY <1>2, <2>1 DEF Answered
<1>4. QED BY <1>2, <1>3 DEF CardInv, TracksAccountedFor

LEMMA CardIsDocument == ASSUME NEW c \in Cards PROVE IsDocument(c)
BY CardsAssumption DEF IsDocument, IsValue

LEMMA PostLmKeeps == ASSUME CardInv, PostLm PROVE CardInv'
<1>1. card \in Cards /\ card' = card /\ Answered(made, results) /\ IsRequest(Parse(card))
  <2>1. card \in Cards /\ card' = card /\ Answered(made, results)
    BY DEF CardInv, PostLm
  <2>2. QED BY <2>1, CardIsDocument, ParseTyped
<1>2. CASE LmRefuses(Parse(card))
  <2>1. cardPc' = "refused" /\ made' = made /\ results' = results
    BY <1>2 DEF PostLm
  <2>2. Answered(made', results')
    BY <1>1, <2>1
  <2>3. QED BY <1>1, <2>1, <2>2 DEF CardInv, TracksAccountedFor
<1>3. CASE ~ LmRefuses(Parse(card))
  <2>1. PICK lmRandom, ditRandom \in {0, SeedMod - 1}, lyrics \in Lyrics :
            LET r == Marshal(Resolved(Parse(card), "lm_seed", lmRandom))
                n == Between(r["lm_batch_size"][2], 1, LmBatchCap)
            IN  /\ made' = LmOut(r, n, Resolved(r, "seed", ditRandom)["seed"][2], lyrics)
                /\ results' = [b \in 1 .. n |-> Write(made'[b], TRUE)]
                /\ cardPc' = "results"
    BY <1>3 DEF PostLm
  <2>2. lmRandom \in Nat /\ ditRandom \in Nat
    BY CardsAssumption
  <2>3. PICK p : p = Parse(card) /\ IsRequest(p)
    BY <1>1
  <2>4. "seed" \in Seeds /\ "lm_seed" \in Seeds /\ "lm_seed" \in Ints /\ "lm_batch_size" \in Ints
    BY DEF Seeds, Ints
  <2>5. PICK q : q = Resolved(p, "lm_seed", lmRandom) /\ IsRequest(q) /\ q["lm_seed"][2] \in Nat
    BY <2>2, <2>3, <2>4, SeedResolved
  <2>6. PICK r : r = Marshal(q) /\ IsRequest(r) /\ \A f \in Ints : r[f] = q[f]
    BY <2>5, MarshalKeeps
  <2>7. PICK dit \in Nat : dit = Resolved(r, "seed", ditRandom)["seed"][2]
    BY <2>2, <2>4, <2>6, SeedResolved
  <2>8. PICK n \in Nat : n = Between(r["lm_batch_size"][2], 1, LmBatchCap)
    <3>1. PICK k \in Int : k = r["lm_batch_size"][2]
      BY <2>4, <2>6, IntTyped DEF IsRequest
    <3>2. PICK h \in Nat : h = LmBatchCap /\ 1 <= h
      BY CardsAssumption
    <3>3. Between(k, 1, h) \in Nat
      BY <3>2 DEF Between
    <3>4. QED BY <3>1, <3>2, <3>3
  <2>9. Typed("lyrics", lyrics)
    <3>1. PICK f \in Texts : f = "lyrics"
      BY DEF Texts
    <3>2. \A s : Typed(f, Str(s))
      BY TextTyped
    <3>3. QED BY <3>1, <3>2, Zenon DEF Lyrics
  <2>10. PICK m : m = made'
    OBVIOUS
  <2>11. m = LmOut(r, n, dit, lyrics) /\ results' = [b \in 1 .. n |-> Write(m[b], TRUE)] /\ cardPc' = "results"
    BY <2>1, <2>3, <2>5, <2>6, <2>7, <2>8, <2>10
  <2>12. r["lm_seed"][2] >= 0
    BY <2>4, <2>5, <2>6
  <2>13. m = [b \in 1 .. n |-> m[b]] /\ \A b \in 1 .. n : Replayable(m[b])
    BY <2>6, <2>9, <2>11, <2>12, LmMakesRequests
  <2>14. Answered(made', results')
    BY <2>10, <2>11, <2>13 DEF Answered
  <2>15. QED BY <1>1, <2>11, <2>14 DEF CardInv, TracksAccountedFor
<1>4. QED BY <1>2, <1>3

LEMMA PostRoundKeeps == ASSUME CardInv, PostRound PROVE CardInv'
<1>1. /\ card \in Cards /\ card' = card /\ Answered(made, results) /\ made' = made /\ results' = results
      /\ cardPc' = "synth"
      /\ posted' \in {<<card>>} \cup {<<results[b]>> : b \in DOMAIN results}
                     \cup (IF results = <<>> THEN {} ELSE {results})
  BY DEF CardInv, PostRound
<1>2. PICK n \in Nat : /\ made = [b \in 1 .. n |-> made[b]] /\ results = [b \in 1 .. n |-> Write(made[b], TRUE)]
                       /\ \A b \in 1 .. n : Replayable(made[b])
  BY <1>1 DEF Answered
<1>3. ASSUME NEW b \in 1 .. n PROVE IsDocument(results[b])
  <2>1. PICK r : r = made[b] /\ IsRequest(r)
    BY <1>2 DEF Replayable
  <2>2. IsDocument(Write(r, TRUE))
    BY <2>1, WrittenIsRead, Zenon
  <2>3. QED BY <1>2, <2>1, <2>2
<1>4. ASSUME NEW d, IsDocument(d), posted' = <<d>> PROVE Posting(posted')
  <2>1. PICK p : p = <<d>>
    OBVIOUS
  <2>2. 1 \in Nat \ {0} /\ p = [k \in 1 .. 1 |-> p[k]] /\ \A k \in 1 .. 1 : p[k] = d
    BY <2>1
  <2>3. posted' = p
    BY <1>4, <2>1
  <2>4. Posting(p)
    BY <1>4, <2>2 DEF Posting
  <2>5. QED BY <2>3, <2>4
<1>5. ASSUME posted' = <<card>> PROVE Posting(posted')
  <2>1. PICK d : d = card /\ IsDocument(d)
    BY <1>1, CardIsDocument
  <2>2. IsDocument(d) /\ posted' = <<d>>
    BY <1>5, <2>1
  <2>3. QED BY <1>4, <2>2, Zenon
<1>6. ASSUME NEW b \in DOMAIN results, posted' = <<results[b]>> PROVE Posting(posted')
  <2>1. DOMAIN results = 1 .. n
    BY <1>2
  <2>2. PICK d : d = results[b] /\ IsDocument(d)
    BY <1>3, <2>1
  <2>3. posted' = <<d>>
    BY <1>6, <2>2
  <2>4. QED BY <1>4, <2>2, <2>3
<1>7. ASSUME results # <<>> /\ posted' = results PROVE Posting(posted')
  <2>1. PICK docs : docs = results
    OBVIOUS
  <2>2. docs = [k \in 1 .. n |-> docs[k]] /\ (\A k \in 1 .. n : IsDocument(docs[k])) /\ docs # <<>> /\ posted' = docs
    <3>1. docs = [b \in 1 .. n |-> Write(made[b], TRUE)]
      BY <1>2, <2>1
    <3>2. docs = [k \in 1 .. n |-> docs[k]]
      BY <3>1
    <3>3. QED BY <1>3, <1>7, <2>1, <3>2
  <2>3. n # 0
    BY <2>2
  <2>4. Posting(docs)
    BY <2>2, <2>3 DEF Posting
  <2>5. QED BY <2>2, <2>4, Zenon
<1>8. Posting(posted')
  <2>1. posted' = <<card>> \/ (\E b \in DOMAIN results : posted' = <<results[b]>>) \/ (results # <<>> /\ posted' = results)
    BY <1>1
  <2>2. QED BY <1>5, <1>6, <1>7, <2>1, Zenon
<1>9. Answered(made', results')
  BY <1>1
<1>10. QED BY <1>1, <1>8, <1>9 DEF CardInv, TracksAccountedFor

LEMMA PostSynthKeeps == ASSUME CardInv, PostSynth PROVE CardInv'
<1>1. /\ card \in Cards /\ card' = card /\ Answered(made, results) /\ made' = made /\ results' = results
      /\ posted' = posted /\ Posting(posted)
  BY DEF CardInv, PostSynth
<1>2. Answered(made', results')
  BY <1>1
<1>3. CASE SynthRefuses(Parse(posted[1]))
  <2>1. cardPc' = "refused2"
    BY <1>3 DEF PostSynth
  <2>2. QED BY <1>1, <1>2, <2>1 DEF CardInv, TracksAccountedFor
<1>4. CASE ~ SynthRefuses(Parse(posted[1]))
  <2>1. PICK random \in {0, SeedMod - 1} :
            /\ tracks' = Expanded([k \in DOMAIN posted |-> Resolved(Marshal(Parse(posted[k])), "seed", random)])
            /\ cardPc' = "rendered"
    BY <1>4 DEF PostSynth
  <2>2. random \in Nat
    BY CardsAssumption
  <2>3. PICK m \in Nat \ {0} : posted = [k \in 1 .. m |-> posted[k]] /\ \A k \in 1 .. m : IsDocument(posted[k])
    BY <1>1 DEF Posting
  <2>4. PICK rs : rs = [k \in 1 .. m |-> Resolved(Marshal(Parse(posted[k])), "seed", random)]
    OBVIOUS
  <2>5. tracks' = Expanded(rs)
    <3>1. DOMAIN posted = 1 .. m
      BY <2>3
    <3>2. QED BY <2>1, <2>4, <3>1
  <2>6. /\ rs = [k \in 1 .. m |-> rs[k]]
        /\ \A k \in 1 .. m : rs[k] = Resolved(Marshal(Parse(posted[k])), "seed", random)
    BY <2>4
  <2>7. "seed" \in Seeds /\ "seed" \in Ints /\ "synth_batch_size" \in Ints /\ "seed" # "synth_batch_size"
    BY DEF Seeds, Ints
  <2>8. ASSUME NEW k \in 1 .. m
        PROVE  \E r : /\ r = Parse(posted[k]) /\ IsRequest(r) /\ IsRequest(rs[k])
                      /\ r["seed"][2] >= 0 => \A f \in Ints : rs[k][f] = r[f]
    <3>1. PICK r : r = Parse(posted[k]) /\ IsRequest(r)
      BY <2>3, ParseTyped
    <3>2. PICK q : q = Marshal(r) /\ IsRequest(q) /\ \A f \in Ints : q[f] = r[f]
      BY <3>1, MarshalKeeps
    <3>3. PICK s : s = Resolved(q, "seed", random) /\ IsRequest(s) /\ (q["seed"][2] >= 0 => s = q)
      BY <2>2, <2>7, <3>2, SeedResolved
    <3>4. rs[k] = s
      BY <2>6, <3>1, <3>2, <3>3
    <3>5. r["seed"][2] >= 0 => \A f \in Ints : s[f] = r[f]
      BY <2>7, <3>2, <3>3
    <3>6. QED BY <3>1, <3>3, <3>4, <3>5
  <2>9. Len(rs) = m /\ Len(posted) = m /\ DOMAIN posted = 1 .. m
    <3>1. m \in Nat
      OBVIOUS
    <3>2. PICK p : p = posted
      OBVIOUS
    <3>3. p = [k \in 1 .. m |-> p[k]]
      BY <2>3, <3>2
    <3>4. Len(rs) = m /\ Len(p) = m
      BY <2>6, <3>1, <3>3, Joined
    <3>5. QED BY <2>3, <3>2, <3>4
  <2>10. Batched(rs, m, tracks')
    BY <2>5, <2>8, <2>9, BatchOfAll
  <2>11. PICK h \in Nat : h = MaxTracks /\ h > 0
    BY CardsAssumption
  <2>12. PICK ts : ts = tracks'
    OBVIOUS
  <2>13. PICK n \in Nat :
           /\ n <= h /\ ts = [t \in 1 .. n |-> ts[t]] /\ n > 0
           /\ n < h => n >= m
           /\ \A t \in 1 .. n : \E j \in 1 .. m : From(rs[j], ts[t])
    BY <2>10, <2>11, <2>12 DEF Batched
  <2>14. Len(ts) = n /\ DOMAIN ts = 1 .. n
    <3>1. Len(ts) = n
      BY <2>13, Joined
    <3>2. QED BY <2>13, <3>1
  <2>15. Len(ts) \in 1 .. MaxTracks /\ (Len(ts) < MaxTracks => Len(ts) >= Len(posted))
    BY <2>9, <2>11, <2>13, <2>14
  <2>16. ASSUME posted = results, NEW t \in 1 .. n
         PROVE  \E b \in DOMAIN results : \E i \in 0 .. MaxTracks - 1 :
                  /\ ts[t]["seed"][2] = made[b]["seed"][2] + i
                  /\ i < Variants(made[b])
    <3>1. PICK j \in 1 .. m : From(rs[j], ts[t])
      BY <2>13
    <3>2. PICK k \in Nat : results = [b \in 1 .. k |-> Write(made[b], TRUE)] /\ \A b \in 1 .. k : Replayable(made[b])
      BY <1>1 DEF Answered
    <3>3. DOMAIN results = 1 .. k
      BY <3>2
    <3>4. j \in 1 .. k /\ j \in DOMAIN results
      BY <2>9, <2>16, <3>3
    <3>5. PICK r : r = made[j] /\ IsRequest(r) /\ r["seed"][2] >= 0
      BY <3>2, <3>4 DEF Replayable
    <3>6. posted[j] = Write(r, TRUE)
      BY <2>16, <3>2, <3>4, <3>5
    <3>7. \A f \in Ints : Parse(posted[j])[f] = r[f]
      <4>1. \A f \in Ints : Parse(Write(r, TRUE))[f] = r[f]
        BY <3>5, SeedsComeBack, Zenon
      <4>2. QED BY <3>6, <4>1
    <3>8. \A f \in Ints : rs[j][f] = r[f]
      <4>1. PICK q : q = Parse(posted[j]) /\ (q["seed"][2] >= 0 => \A f \in Ints : rs[j][f] = q[f])
        BY <2>8
      <4>2. \A f \in Ints : q[f] = r[f]
        BY <3>7, <4>1
      <4>3. QED BY <2>7, <3>5, <4>1, <4>2
    <3>9. Variants(rs[j]) = Variants(r) /\ rs[j]["seed"] = r["seed"]
      BY <2>7, <3>8 DEF Variants
    <3>10. PICK i \in Nat : i < Variants(rs[j]) /\ ts[t]["seed"][2] = rs[j]["seed"][2] + i
      BY <3>1 DEF From
    <3>11. Variants(r) \in Nat /\ Variants(r) <= MaxTracks
      BY <3>5, VariantsFit
    <3>12. i \in 0 .. MaxTracks - 1
      BY <2>11, <3>9, <3>10, <3>11
    <3>13. QED BY <3>4, <3>5, <3>9, <3>10, <3>12
  <2>17. TracksAccountedFor'
    <3>1. (posted = results /\ Len(posted) > 0) =>
            \A t \in DOMAIN ts : \E b \in DOMAIN results : \E i \in 0 .. MaxTracks - 1 :
                  /\ ts[t]["seed"][2] = made[b]["seed"][2] + i
                  /\ i < Variants(made[b])
      BY <2>14, <2>16
    <3>2. QED BY <1>1, <2>12, <2>15, <3>1 DEF TracksAccountedFor, Variants
  <2>18. QED BY <1>1, <1>2, <2>1, <2>17 DEF CardInv
<1>5. QED BY <1>3, <1>4

LEMMA CardInvariant == CardSpec => []CardInv
<1>1. ASSUME CardInv, [CardNext]_cardVars PROVE CardInv'
  <2>1. CASE PostLm
    BY <1>1, <2>1, PostLmKeeps
  <2>2. CASE PostRound
    BY <1>1, <2>2, PostRoundKeeps
  <2>3. CASE PostSynth
    BY <1>1, <2>3, PostSynthKeeps
  <2>4. CASE UNCHANGED cardVars
    <3>1. Answered(made', results')
      BY <1>1, <2>4 DEF CardInv, cardVars
    <3>2. Posting(posted') \/ cardPc' # "synth"
      BY <1>1, <2>4 DEF CardInv, cardVars
    <3>3. card' \in Cards
      BY <1>1, <2>4 DEF CardInv, cardVars
    <3>4. TracksAccountedFor'
      BY <1>1, <2>4 DEF CardInv, cardVars, TracksAccountedFor, Variants
    <3>5. QED BY <3>1, <3>2, <3>3, <3>4 DEF CardInv
  <2>5. QED BY <1>1, <2>1, <2>2, <2>3, <2>4 DEF CardNext
<1>2. QED BY <1>1, CardStarts, PTL DEF CardSpec

\* Whatever card is posted, piped to a worker process or not: each result, posted by
\* itself, is the request the LM worker made with its seeds and every field to two
\* decimals, reading and writing it once more changes nothing, and the tracks of a
\* batch come, as many as there is room for, of the cards that were posted
\* (request_parse, request_write, lm_worker, synth_worker).
THEOREM CardsComeBack == CardSpec => []CardsReplayInFull
<1>1. CardInv => CardsReplayInFull
  BY AnsweredReplays DEF CardInv, CardsReplayInFull
<1>2. QED BY <1>1, CardInvariant, PTL
=============================================================================
