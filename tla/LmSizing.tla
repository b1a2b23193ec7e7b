------------------------------ MODULE LmSizing ------------------------------
(***************************************************************************)
(* The size of the LM's KV cache in ace-server under --keep-loaded: what   *)
(* main, lm_worker and understand_worker (src/tools/ace-server.cpp) put    *)
(* into the ModelKey of the LM, which instances the store then holds, and  *)
(* whether the tokens of a call fit.  Positions are counted in tokens, a   *)
(* decoding loop is one step that writes as many tokens as it likes up to  *)
(* its limit (LmBatch has the loops).  All requests use one LM file.       *)
(***************************************************************************)
EXTENDS Integers, FiniteSets

CONSTANTS
    MaxSeqFlag,       \* --max-seq
    MaxBatchFlag,     \* --max-batch, clamped to 1..9
    Budgets,          \* values of --kv-budget, 0 when it is not given
    Durations,        \* the durations requests ask for; 0: the LM picks one
    PickedDurations,  \* the durations the LM may pick
    PromptLens,       \* lengths of prompts
    TextLens          \* how much text phase 1 may write

ASSUME LmSizingAssumption ==
    /\ MaxSeqFlag \in Nat \ {0} /\ MaxBatchFlag \in 1..9 /\ Budgets \subseteq Nat
    /\ Durations \subseteq Nat /\ PickedDurations \subseteq 1..600
    /\ PromptLens \subseteq Nat \ {0} /\ TextLens \subseteq 0..2048

VARIABLES
    budget,   \* g_kv_budget, set once by main
    lms,      \* the (max_seq, n_kv_sets) of the LM instances the store keeps
    sizingPc,
    cap,      \* max_seq of the instance in use
    seconds,  \* duration of the song: 0 until the LM has picked one
    prompt,   \* tokens of the prompt, later of the prompt with the text written
    pos       \* kv_pos of the fullest set

sizingVars == <<budget, lms, sizingPc, cap, seconds, prompt, pos>>

\* The greater and the smaller of two numbers.
Most(a, b) == IF a > b THEN a ELSE b
Least(a, b) == IF a < b THEN a ELSE b

SizingInit ==
    /\ budget \in Budgets
    /\ lms = {} /\ sizingPc = "idle"
    /\ cap = 0 /\ seconds = 0 /\ prompt = 0 /\ pos = 0
-----------------------------------------------------------------------------
\* lm_worker: the sequence length a request of that duration gets.
Want(d) ==
    Most(512, Least(MaxSeqFlag, IF d > 0 THEN d * 5 + 2048 ELSE 4096))

\* (A ...Bug operator is a plausible mistake in the definition that follows,
\* there to show which property would notice it.)
SongsUnclippedBug(d, n) == n

\* How many songs of it fit the budget, but one at least.
Songs(d, n) == Least(n, Most(1, budget \div Want(d)))

LmParams(d, n) ==
    IF budget > 0 THEN [max_seq |-> Want(d), max_batch |-> Songs(d, n)]
    ELSE [max_seq |-> MaxSeqFlag, max_batch |-> MaxBatchFlag]

UndParamsDefaultBug == [max_seq |-> MaxSeqFlag, max_batch |-> 1]

\* main and understand_worker.
UndParams ==
    IF budget > 0 THEN [max_seq |-> Least(budget, Least(MaxSeqFlag, 4096)), max_batch |-> 1]
    ELSE [max_seq |-> MaxSeqFlag, max_batch |-> MaxBatchFlag]

\* ace_lm_load, ace_understand_load: the part of the ModelKey that can differ.
LmKey(p) == [max_seq |-> p.max_seq, n_kv_sets |-> 2 * p.max_batch]

\* store_require_lm, nothing is evicted; the prefill drops what does not fit.
Acquire(p, len) ==
    /\ lms' = lms \cup {LmKey(p)}
    /\ cap' = p.max_seq
    /\ prompt' = len
    /\ pos' = IF len <= p.max_seq THEN len ELSE 0

\* POST /lm: phase 1 fills in what the request lacks; if it lacks nothing, not
\* even the duration, phase 2 begins at once.
StartLm(d, n, len) ==
    /\ sizingPc = "idle"
    /\ Acquire(LmParams(d, n), len)
    /\ seconds' = d
    /\ sizingPc' \in {"filling"} \cup (IF d > 0 THEN {"coding"} ELSE {})

\* POST /understand: its loop drops the tokens that do not fit, and its limit is
\* independent of the cache.
Understand(len) ==
    /\ sizingPc = "idle"
    /\ Acquire(UndParams, len)
    /\ UNCHANGED <<seconds, sizingPc>>

Overrun ==
    /\ sizingPc' = "exited"
    /\ UNCHANGED <<lms, cap, seconds, prompt, pos>>

\* Phase 1 writes n tokens; with them comes a duration, if none was asked for.
\* The inspire and format modes end here.
Fill(n) ==
    /\ sizingPc = "filling"
    /\ IF pos + n > cap THEN Overrun
       ELSE /\ sizingPc' \in {"coding", "idle"}
            /\ \E d \in IF seconds > 0 THEN {Least(seconds, 600)} ELSE PickedDurations : seconds' = d
            /\ prompt' = prompt + n
            /\ pos' = IF prompt + n <= cap THEN prompt + n ELSE 0
            /\ UNCHANGED <<lms, cap>>

\* Phase 2 writes some five codes a second, at most a hundred more.
Code ==
    /\ sizingPc = "coding"
    /\ \E n \in {seconds * 5, seconds * 5 + 100} :
          IF pos + n > cap THEN Overrun
          ELSE /\ sizingPc' = "idle"
               /\ pos' = pos + n
               /\ UNCHANGED <<lms, cap, seconds, prompt>>

SizingNext ==
    /\ \/ \E d \in Durations : \E n \in 1..MaxBatchFlag : \E len \in PromptLens : StartLm(d, n, len)
       \/ \E len \in PromptLens : Understand(len)
       \/ \E n \in TextLens : Fill(n)
       \/ Code
    /\ UNCHANGED budget

SizingSpec == SizingInit /\ [][SizingNext]_sizingVars
-----------------------------------------------------------------------------
(***************************************************************************)
(* Properties                                                              *)
(***************************************************************************)
\* Without a budget /lm and /understand share one LM instance, whatever the
\* order and the shape of the requests: a second one would double the VRAM.
\* (With a budget every request shape has a key of its own.)
OneLmInstance == budget = 0 => Cardinality(lms) <= 1

\* Sequences are sized so that the LM never overruns its cache, which ends the
\* process: a request gets fewer songs instead.
NeverOverruns == sizingPc # "exited"

\* A budget that admits one sequence of --max-seq, or of the 512 positions every
\* request of /lm is given at least, bounds every cache allocated for a request,
\* batch times sequence.  (A smaller one does not: a request always gets one song.)
WithinBudget ==
    budget >= Most(512, MaxSeqFlag) => \A k \in lms : (k.n_kv_sets \div 2) * k.max_seq <= budget

\* What --vram-budget promises of the caches of /lm and /understand: one
\* instance without a budget, none larger than the budget with one.
CachesWithinBudget == OneLmInstance /\ WithinBudget
=============================================================================
