------------------------------ MODULE MetadataFsm ------------------------------
(***************************************************************************)
(* Phase 1 of the LM, one sequence: the automaton that masks the logits    *)
(* while the metadata block is written, the sampled token it is told of,   *)
(* then the parser of the block and the merge into the request             *)
(* (src/src/metadata-fsm.h, prompt.h, pipeline-lm.cpp).  The LM is any     *)
(* choice of a token that is not masked.  A token is a tuple; values are   *)
(* sequences of digits.                                                    *)
(***************************************************************************)
EXTENDS Naturals, Sequences

CONSTANTS
    Values,        \* field -> the values of its prefix tree, as digit sequences
    Unknown,       \* the language "unknown", as a digit sequence
    LongDurations, \* the durations above 600 s, as digit sequences
    Asks,          \* requests tried: [given : some fields -> values, in Values or
                   \* not, skip_caption, inspire]
    CaptionTokens  \* tokens of free text tried

Fields == <<"bpm", "caption", "duration", "keyscale", "language", "timesignature">>
Field == {Fields[i] : i \in DOMAIN Fields}

Digit(n) == <<"digit", n>>
Digits(v) == [i \in DOMAIN v |-> Digit(v[i])]

DefaultDuration == <<Digit(120)>>
MaxDuration == <<Digit(600)>>
TooLong == {Digits(v) : v \in LongDurations}

\* Every field but the caption has values to choose from, what a request gives is
\* not empty, and it never gives the caption.
ASSUME FsmAssumption ==
    /\ CaptionTokens \in Nat /\ Unknown \in Seq(Nat) /\ LongDurations \subseteq Seq(Nat)
    /\ {DefaultDuration, MaxDuration} \cap TooLong = {}
    /\ \A f \in Field \ {"caption"} :
          f \in DOMAIN Values /\ Values[f] # {} /\ Values[f] \subseteq Seq(Nat)
    /\ \A a \in Asks :
          /\ DOMAIN a.given \subseteq Field \ {"caption"}
          /\ \A f \in DOMAIN a.given : a.given[f] \in Seq(Nat) /\ a.given[f] # <<>>
          /\ a.skip_caption \in BOOLEAN /\ a.inspire \in BOOLEAN

VARIABLES
    ask,        \* the request
    fsm,        \* MetadataFSM
    text,       \* gen_tokens
    written,    \* fields written under the automaton, with their values
    lmPc,
    ace         \* the request after the merge

fsmVars == <<ask, fsm, text, written, lmPc, ace>>

NL == <<"newline">>
THINK_END == <<"think_end">>
IM_END == <<"im_end">>

\* Free text: words with an indent or without, with a colon or without, and a
\* field name in two pieces.
FreeText == {<<"text">>, <<"indented">>, <<"piece", "duration">>, <<"rest", "duration">>,
             Digit(9), NL, THINK_END, IM_END}
            \cup {<<"word", w>> : w \in {"bpm", "keyscale", "language", "genre"}}

\* "bpm:" and the others, two tokens each.
NameTokens(f) == <<<<"name", f>>, <<"colon", f>>>>

At(part, f) == [part |-> part, field |-> f]
Restarted == [at |-> At("name", "bpm"), name_pos |-> 0, acc |-> <<>>, inject |-> <<>>,
          pending_newline |-> FALSE, ending |-> FALSE, pending_name |-> <<>>]

FsmInit ==
    /\ ask \in Asks
    /\ fsm = Restarted
    /\ text = <<>> /\ written = <<>> /\ lmPc = "sample" /\ ace = <<>>

\* The fields forced on the LM: what is given, but for a language "unknown".
Forcing(given) == {f \in DOMAIN given : ~(f = "language" /\ given[f] = Unknown)}
Forced(f) == f \in Forcing(ask.given)
Tree(f) == {Digits(v) \o <<NL>> : v \in IF Forced(f) THEN {ask.given[f]} ELSE Values[f]}

NextName(f) ==
    LET i == CHOOSE j \in DOMAIN Fields : Fields[j] = f
        n == IF f = "bpm" /\ ask.skip_caption THEN 3 ELSE i + 1
    IN  IF n > Len(Fields) THEN At("think_end", "none") ELSE At("name", Fields[n])
-----------------------------------------------------------------------------
\* apply_mask: reaching a value that the request gives fills the injection queue.
Masked(m) ==
    IF m.inject = <<>> /\ m.at.part = "value" /\ Forced(m.at.field)
    THEN [m EXCEPT !.inject = Digits(ask.given[m.at.field]) \o <<NL>>] ELSE m

\* PrefixTree::get.
AfterPrefix(tree, prefix) ==
    {s[Len(prefix) + 1] : s \in {s \in tree : Len(s) > Len(prefix) /\ SubSeq(s, 1, Len(prefix)) = prefix}}

Allowed(m) ==
    CASE m.inject # <<>> -> {Head(m.inject)}
      [] m.inject = <<>> /\ m.at.part = "name" -> {NameTokens(m.at.field)[m.name_pos + 1]}
      [] m.inject = <<>> /\ m.at.part = "value" /\ m.at.field # "caption" ->
             LET next == AfterPrefix(Tree(m.at.field), m.acc) IN IF next = {} THEN {NL} ELSE next
      [] m.inject = <<>> /\ m.at.part = "value" /\ m.at.field = "caption" -> FreeText
      [] OTHER -> {THINK_END}

Goto(m, at) == [m EXCEPT !.at = at, !.name_pos = 0, !.acc = <<>>]

\* field_name_to_value_state, of the text accumulated since the line began.
NameIn(line) ==
    IF line = <<<<"piece", "duration">>, <<"rest", "duration">>>> THEN "duration"
    ELSE IF Len(line) = 1 /\ line[1][1] = "word" THEN line[1][2] ELSE "none"

\* (A ...Bug operator is a plausible mistake in the definition that follows,
\* there to show which property would notice it.)
EndsCaptionBug(m, line) ==
    IF NameIn(line) \in Field \ {"caption"} THEN [Goto(m, At("value", NameIn(line))) EXCEPT !.ending = FALSE]
    ELSE [m EXCEPT !.ending = TRUE, !.pending_name = line]

\* A line that is not indented names the next field, if it is one that may follow;
\* if it is not, it is never looked at afresh.
EndsCaption(m, line) ==
    IF NameIn(line) \in {"duration", "keyscale", "language", "timesignature"}
    THEN [Goto(m, At("value", NameIn(line))) EXCEPT !.ending = FALSE, !.pending_name = <<>>]
    ELSE [m EXCEPT !.ending = TRUE, !.pending_name = line]

\* update, queue first.
Injected(m) ==
    IF Len(m.inject) = 1 THEN Goto([m EXCEPT !.inject = <<>>], NextName(m.at.field))
    ELSE [m EXCEPT !.inject = Tail(@)]

AfterNewline(m, t) ==
    LET n == [m EXCEPT !.pending_newline = FALSE]
    IN  IF t = <<"indented">> THEN n ELSE EndsCaption(n, <<t>>)

Named(m) ==
    IF m.name_pos + 1 < Len(NameTokens(m.at.field)) THEN [m EXCEPT !.name_pos = @ + 1]
    ELSE Goto(m, At("value", m.at.field))

ValueToken(m, t) ==
    IF t = NL THEN Goto(m, NextName(m.at.field)) ELSE [m EXCEPT !.acc = Append(@, t)]

Update(m, t) ==
    CASE m.inject # <<>> -> Injected(m)
      [] m.inject = <<>> /\ m.pending_newline -> AfterNewline(m, t)
      [] m.inject = <<>> /\ m.ending -> EndsCaption(m, Append(m.pending_name, t))
      [] m.inject = <<>> /\ ~m.pending_newline /\ ~m.ending /\ m.at.part = "name" -> Named(m)
      [] m.inject = <<>> /\ ~m.pending_newline /\ ~m.ending /\ m.at.part = "value" ->
             IF m.at.field # "caption" THEN ValueToken(m, t)
             ELSE [m EXCEPT !.pending_newline = (t = NL)]
      [] OTHER -> [m EXCEPT !.at = At("codes", "none")]

\* A value is complete when its newline has been taken.
Completes(m, t) == m.at.part = "value" /\ m.at.field # "caption" /\ t = NL

InCaption(m) == m.at = At("value", "caption")
CaptionWritten ==
    Len(text) - (CHOOSE i \in DOMAIN text : text[i] = <<"colon", "caption">>)

\* One token of generate_phase1_batch: mask, sample, tell the automaton.  Without
\* codes to follow the sequence ends at the end of the block, or by im_end.
SampleToken ==
    /\ lmPc = "sample"
    /\ LET m == Masked(fsm)
       IN  \E t \in Allowed(m) :
             /\ InCaption(m) /\ CaptionWritten >= CaptionTokens => t \in {THINK_END, IM_END}
             /\ IF t = IM_END THEN UNCHANGED <<fsm, text, written>>
                ELSE /\ fsm' = Update(m, t)
                     /\ text' = Append(text, t)
                     /\ written' = IF ~Completes(m, t) THEN written
                                   ELSE Append(written, <<m.at.field,
                                            IF m.inject # <<>> THEN Digits(ask.given[m.at.field])
                                            ELSE m.acc>>)
             /\ lmPc' = IF t \in {THINK_END, IM_END} THEN "parse" ELSE "sample"
    /\ UNCHANGED <<ask, ace>>
-----------------------------------------------------------------------------
\* get_field: what stands between the first "name:" of the block and the end of
\* that line, wherever in the block it is.
Needles(f) ==
    {i \in DOMAIN text : \/ text[i] \in {<<"colon", f>>, <<"word", f>>}
                         \/ text[i] = <<"rest", f>> /\ text[i - 1] = <<"piece", f>>}
Earliest(S) == CHOOSE i \in S : \A j \in S : i <= j
GetField(f) ==
    IF Needles(f) = {} THEN <<>>
    ELSE LET p == Earliest(Needles(f)) + 1
             ends == {i \in p .. Len(text) : text[i] \in {NL, THINK_END}}
         IN  SubSeq(text, p, IF ends = {} THEN Len(text) ELSE Earliest(ends) - 1)

\* atoi and atof read the digits a text begins with, the other fields take any text.
Number(v) ==
    SubSeq(v, 1, Earliest({i \in 1 .. Len(v) + 1 : i = Len(v) + 1 \/ v[i][1] # "digit"}) - 1)
Parsed(f) == IF f \in {"bpm", "duration"} THEN Number(GetField(f)) ELSE GetField(f)

Base(f) == IF f \in DOMAIN ask.given /\ ~ask.inspire THEN Digits(ask.given[f]) ELSE <<>>

GapFillBug(f) == IF Parsed(f) # <<>> THEN Parsed(f) ELSE Base(f)

\* parse_phase1_into_aces: what the request left empty is filled, and a language
\* that it gives as "unknown".
GapFill(f) ==
    IF Parsed(f) # <<>> /\ (Base(f) = <<>> \/ (f = "language" /\ Base(f) = Digits(Unknown)))
    THEN Parsed(f) ELSE Base(f)

ClampKeepsLongBug(v) == IF v = <<>> THEN DefaultDuration ELSE v

Clamp(v) == IF v = <<>> THEN DefaultDuration ELSE IF v \in TooLong THEN MaxDuration ELSE v

Merge ==
    /\ lmPc = "parse"
    /\ ace' = [f \in Field \ {"caption"} |->
                  IF f = "duration" THEN Clamp(GapFill(f)) ELSE GapFill(f)]
    /\ lmPc' = "merged"
    /\ UNCHANGED <<ask, fsm, text, written>>

FsmNext == SampleToken \/ Merge

FsmSpec == FsmInit /\ [][FsmNext]_fsmVars
-----------------------------------------------------------------------------
Legal(f) == {Digits(v) : v \in IF Forced(f) THEN {ask.given[f]} ELSE Values[f]}
Position(f) == CHOOSE i \in DOMAIN Fields : Fields[i] = f

\* Whatever the LM prefers, a field is written at most once, in the order of the
\* block, with a whole value of its tree, the request's own where it gives one; and
\* when the automaton itself has closed the block, every field from the one the
\* caption was left for has been written.
BlockIsWellFormed ==
    /\ \A i \in DOMAIN written :
          /\ written[i][2] \in Legal(written[i][1])
          /\ \A j \in 1 .. i - 1 : Position(written[j][1]) < Position(written[i][1])
    /\ fsm.at.part = "codes" =>
          /\ Len(written) > 1 /\ written[1][1] = "bpm"
          /\ \A f \in Field : Position(f) > Position(written[2][1]) =>
                \E i \in DOMAIN written : written[i][1] = f

\* What the request gives is kept whatever the block says, free text in the caption
\* included, with two exceptions: a language given as "unknown" may be replaced by
\* the one the block names, and a duration above 600 s, given or not, becomes 600.
\* There always is a duration.
GivenIsKept ==
    lmPc = "merged" =>
        /\ ace["duration"] # <<>> /\ ace["duration"] \notin TooLong
        /\ ~ask.inspire =>
              \A f \in DOMAIN ask.given :
                  \/ ace[f] = Digits(ask.given[f])
                  \/ f = "duration" /\ ask.given[f] \in LongDurations /\ ace[f] = MaxDuration
                  \/ /\ f = "language" /\ ask.given[f] = Unknown
                     /\ Parsed(f) # <<>> /\ ace[f] = Parsed(f)
=============================================================================
