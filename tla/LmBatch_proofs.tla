---------------------------- MODULE LmBatch_proofs ----------------------------
(***************************************************************************)
(* Proofs about LmBatch, for any batch, cache and lengths: sequences that  *)
(* share a KV cache stay apart.                                            *)
(*                                                                         *)
(* The property speaks of the moment of sampling.  What makes it true is   *)
(* what the cache holds between two samplings: of every sequence that is   *)
(* still active, the prompt and all it wrote but the last token, which the *)
(* next forward appends; the same behind the unconditional prompt, in its  *)
(* twin's set.  The step that could lose this is the compaction of phase   *)
(* 2: it is the rank of a sequence among the active ones that says where   *)
(* its token goes, and ranks are a bijection.                              *)
(***************************************************************************)
EXTENDS LmBatch, FiniteSetTheorems, SequenceTheorems, TLAPS

-----------------------------------------------------------------------------
(* The inductive invariant.                                                *)

Sequence == [prompt : Seq(Token), gen : Seq(Token), last : Token, done : BOOLEAN]

\* Before(i), of the sequence itself.
BeforeOf(q) ==
    IF q.gen = <<>> \/ q.last.t = "im_end" THEN q.gen ELSE SubSeq(q.gen, 1, Len(q.gen) - 1)

\* A loop decodes the sequences of its call.
ShapeInv ==
    /\ batchPc \in {"fill", "codes", "text"} => call.n >= 1 /\ DOMAIN seqs = CondSets(call.n)
    /\ batchPc = "text" => call.n = 1 /\ ~call.twin /\ call.lyrics
    /\ batchPc \in {"idle", "filled"} => DOMAIN seqs = {}

\* An active sequence of a batch has written a token that is not in the cache yet,
\* and all that is before it is.
BatchKv(i) ==
    /\ seqs[i].last.t # "im_end"
    /\ seqs[i].gen = Append(BeforeOf(seqs[i]), seqs[i].last)
    /\ Fits(i) =>
          /\ kv[i] = seqs[i].prompt \o BeforeOf(seqs[i])
          /\ call.twin => kv[call.n + i] = Uncond \o BeforeOf(seqs[i])

\* The sequence of /understand is wholly in the cache, as long as there is room.
TextKv(i) ==
    /\ seqs[i].last.t # "im_end"
    /\ Len(seqs[i].prompt \o seqs[i].gen) <= MaxSeq => kv[0] = seqs[i].prompt \o seqs[i].gen

KvInv ==
    /\ batchPc \in {"fill", "codes"} => \A i \in Active(seqs) : BatchKv(i)
    /\ batchPc = "text" => \A i \in Active(seqs) : TextKv(i)

IInv == BatchTypeOK /\ SampledFromOwnHistory /\ KvInBounds /\ ShapeInv /\ KvInv

-----------------------------------------------------------------------------
(***************************************************************************)
(* Sequences                                                               *)
(***************************************************************************)
LEMMA AppendFacts ==
    ASSUME NEW S, NEW s \in Seq(S), NEW x \in S
    PROVE  /\ Append(s, x) \in Seq(S) /\ Append(s, x) # <<>>
           /\ Len(Append(s, x)) = Len(s) + 1
           /\ SubSeq(Append(s, x), 1, Len(Append(s, x)) - 1) = s
           /\ Append(s, x) = s \o <<x>>
<1>1. Append(s, x) \in Seq(S) /\ Len(Append(s, x)) = Len(s) + 1 /\ Len(s) \in Nat
  OBVIOUS
<1>2. Append(s, x) # <<>>
  BY <1>1
<1>3. \A i \in 1 .. Len(s) : Append(s, x)[i] = s[i]
  OBVIOUS
<1>4. SubSeq(Append(s, x), 1, Len(s)) = s
  <2>1. \A i \in 1 .. Len(s) : Append(s, x)[i] \in S
    BY <1>3, ElementOfSeq
  <2>2. /\ SubSeq(Append(s, x), 1, Len(s)) \in Seq(S)
        /\ Len(SubSeq(Append(s, x), 1, Len(s))) = Len(s)
        /\ \A i \in 1 .. Len(s) : SubSeq(Append(s, x), 1, Len(s))[i] = Append(s, x)[i]
    BY <1>1, <2>1, SubSeqProperties
  <2>3. QED BY <1>3, <2>2, SeqEqual
<1>5. Append(s, x) = s \o <<x>>
  OBVIOUS
<1>6. QED BY <1>1, <1>2, <1>4, <1>5

LEMMA ConcatAppend ==
    ASSUME NEW S, NEW p \in Seq(S), NEW s \in Seq(S), NEW x \in S
    PROVE  /\ p \o Append(s, x) = Append(p \o s, x)
           /\ Len(p \o Append(s, x)) = Len(p \o s) + 1
           /\ p \o s \in Seq(S) /\ Len(p \o s) = Len(p) + Len(s)
<1>1. /\ <<x>> \in Seq(S) /\ p \o s \in Seq(S)
  OBVIOUS
<1>2. p \o Append(s, x) = p \o (s \o <<x>>)
  BY AppendFacts
<1>3. p \o (s \o <<x>>) = (p \o s) \o <<x>>
  BY <1>1, ConcatAssociative
<1>4. (p \o s) \o <<x>> = Append(p \o s, x)
  BY <1>1, AppendFacts
<1>5. Len(p \o s) = Len(p) + Len(s)
  OBVIOUS
<1>6. p \o Append(s, x) = Append(p \o s, x)
  BY <1>2, <1>3, <1>4
<1>7. Len(Append(p \o s, x)) = Len(p \o s) + 1
  BY <1>1, AppendFacts
<1>8. QED BY <1>1, <1>5, <1>6, <1>7

LEMMA TokenAppend ==
    \A p, s \in Seq(Token), x \in Token :
        /\ p \o Append(s, x) = Append(p \o s, x)
        /\ Len(p \o Append(s, x)) = Len(p \o s) + 1
        /\ p \o s \in Seq(Token) /\ Len(p \o s) = Len(p) + Len(s)
<1> SUFFICES ASSUME NEW p \in Seq(Token), NEW s \in Seq(Token), NEW x \in Token
             PROVE  /\ p \o Append(s, x) = Append(p \o s, x)
                    /\ Len(p \o Append(s, x)) = Len(p \o s) + 1
                    /\ p \o s \in Seq(Token) /\ Len(p \o s) = Len(p) + Len(s)
  OBVIOUS
<1>1. QED BY ConcatAppend

LEMMA FirstNumbers ==
    \A k \in Nat : IsFiniteSet(0 .. (k - 1)) /\ Cardinality(0 .. (k - 1)) = k
<1> SUFFICES ASSUME NEW k \in Nat
             PROVE  IsFiniteSet(0 .. (k - 1)) /\ Cardinality(0 .. (k - 1)) = k
  OBVIOUS
<1>1. /\ IsFiniteSet(0 .. (k - 1))
      /\ Cardinality(0 .. (k - 1)) = IF 0 > k - 1 THEN 0 ELSE (k - 1) - 0 + 1
  BY FS_Interval
<1>2. (IF 0 > k - 1 THEN 0 ELSE (k - 1) - 0 + 1) = k
  OBVIOUS
<1>3. QED BY <1>1, <1>2

\* The rank of a number in a finite set of numbers counts from 0.
LEMMA Ranks ==
    ASSUME NEW n \in Nat, NEW A, A \subseteq 0 .. (n - 1)
    PROVE  LET f == [i \in A |-> Cardinality({j \in A : j < i})]
           IN  /\ IsFiniteSet(A) /\ Cardinality(A) \in Nat
               /\ \A i \in A : f[i] \in 0 .. (Cardinality(A) - 1)
               /\ \A i, j \in A : f[i] = f[j] => i = j
               /\ \A a \in 0 .. (Cardinality(A) - 1) : \E i \in A : f[i] = a
<1> DEFINE Below(i) == {j \in A : j < i}
           f == [i \in A |-> Cardinality(Below(i))]
           m == Cardinality(A)
<1>1. IsFiniteSet(0 .. (n - 1)) /\ A \subseteq Nat
  BY FS_Interval
<1>2. IsFiniteSet(A) /\ m \in Nat
  BY <1>1, FS_Subset, FS_CardinalityType
<1>3. \A i \in A : IsFiniteSet(Below(i)) /\ Cardinality(Below(i)) \in Nat
  BY <1>2, FS_Subset, FS_CardinalityType
<1>4. \A i, j \in A : i < j => Cardinality(Below(i)) < Cardinality(Below(j))
  <2> SUFFICES ASSUME NEW i \in A, NEW j \in A, i < j
               PROVE  Cardinality(Below(i)) < Cardinality(Below(j))
    OBVIOUS
  <2>0. \A x \in A : x < i => x < j
    BY <1>1
  <2>1. Below(i) \subseteq Below(j) /\ i \in Below(j) /\ i \notin Below(i)
    <3>1. i \in Nat /\ ~(i < i)
      BY <1>1
    <3>2. QED BY <2>0, <3>1
  <2>2. Cardinality(Below(i)) <= Cardinality(Below(j)) /\ Cardinality(Below(i)) # Cardinality(Below(j))
    <3> HIDE DEF Below
    <3>1. Below(i) # Below(j)
      BY <2>1
    <3>2. QED BY <1>3, <2>1, <3>1, FS_Subset
  <2>3. QED BY <1>3, <2>2
<1>5. \A i \in A : Cardinality(Below(i)) < m
  <2> SUFFICES ASSUME NEW i \in A PROVE Cardinality(Below(i)) < m
    OBVIOUS
  <2>1. Below(i) \subseteq A /\ i \notin Below(i)
    BY <1>1
  <2>2. Cardinality(Below(i)) <= m /\ Cardinality(Below(i)) # m
    <3> HIDE DEF Below
    <3>1. Below(i) # A
      BY <2>1
    <3>2. QED BY <1>2, <2>1, <3>1, FS_Subset
  <2>3. QED BY <1>2, <1>3, <2>2
<1> HIDE DEF Below
<1>6. f \in [A -> 0 .. (m - 1)]
  BY <1>2, <1>3, <1>5
<1>7. \A i, j \in A : f[i] = f[j] => i = j
  <2>1. \A i, j \in A : i < j \/ j < i \/ i = j
    BY <1>1
  <2>2. \A i, j \in A : i < j => f[i] # f[j]
    BY <1>3, <1>4
  <2>3. QED BY <2>1, <2>2
<1>8. f \in Injection(A, 0 .. (m - 1))
  BY <1>6, <1>7 DEF Injection, IsInjective
<1>9. IsFiniteSet(0 .. (m - 1)) /\ Cardinality(0 .. (m - 1)) = m
  BY <1>2, FirstNumbers
<1>10. f \in Surjection(A, 0 .. (m - 1))
  BY <1>2, <1>8, <1>9, FS_Injection
<1>11. \A a \in 0 .. (m - 1) : \E i \in A : f[i] = a
  BY <1>10 DEF Surjection
<1>12. QED BY <1>2, <1>6, <1>7, <1>11 DEF Below

-----------------------------------------------------------------------------
(***************************************************************************)
(* The cache                                                               *)
(***************************************************************************)
KvOK(K) == K \in [Set -> Seq(Token)] /\ \A s \in Set : Len(K[s]) <= MaxSeq

LEMMA EmptyFacts == <<>> \in Seq(Token) /\ Len(<<>>) = 0 /\ MaxSeq \in Nat
BY LmBatchAssumption

LEMMA ResetOK ==
    ASSUME NEW K, KvOK(K), NEW S
    PROVE  KvOK(Reset(K, S)) /\ \A s \in Set : Reset(K, S)[s] = IF s \in S THEN <<>> ELSE K[s]
BY EmptyFacts DEF KvOK, Reset

LEMMA ForwardOK ==
    ASSUME NEW K, KvOK(K), NEW s \in Set, NEW toks \in Seq(Token)
    PROVE  /\ KvOK(Forward(K, s, toks))
           /\ \A x \in Set : x # s => Forward(K, s, toks)[x] = K[x]
           /\ Forward(K, s, toks)[s] = IF Len(K[s]) + Len(toks) > MaxSeq THEN K[s]
                                       ELSE K[s] \o toks
<1>1. K \in [Set -> Seq(Token)] /\ K[s] \in Seq(Token) /\ \A x \in Set : Len(K[x]) <= MaxSeq
  BY DEF KvOK
<1>2. K[s] \o toks \in Seq(Token) /\ Len(K[s] \o toks) = Len(K[s]) + Len(toks)
  BY <1>1, ConcatProperties
<1>3. Len(K[s]) \in Nat /\ Len(toks) \in Nat /\ MaxSeq \in Nat
  BY <1>1, EmptyFacts
<1>4. CASE Len(K[s]) + Len(toks) > MaxSeq
  BY <1>1, <1>4 DEF Forward, KvOK
<1>5. CASE ~(Len(K[s]) + Len(toks) > MaxSeq)
  <2> DEFINE h == K[s] \o toks
  <2>1. Forward(K, s, toks) = [K EXCEPT ![s] = h]
    BY <1>5 DEF Forward
  <2>2. h \in Seq(Token) /\ Len(h) <= MaxSeq
    BY <1>2, <1>3, <1>5
  <2>3. h = K[s] \o toks
    OBVIOUS
  <2> HIDE DEF h
  <2>4. QED BY <1>1, <1>5, <2>1, <2>2, <2>3 DEF KvOK
<1>6. QED BY <1>4, <1>5

\* P is K with toks in the sets of F, if they fit.
Filled(P, K, F, toks) ==
    /\ KvOK(P)
    /\ \A x \in Set : x \notin F => P[x] = K[x]
    /\ Len(toks) <= MaxSeq => \A x \in F \cap Set : P[x] = toks

\* What is prefilled once and copied is in every set.
LEMMA SharedOK ==
    ASSUME NEW K, KvOK(K), NEW first \in Set, K[first] = <<>>, NEW toks \in Seq(Token),
           NEW S, first \in S
    PROVE  Filled(PrefillShared(K, first, toks, S \ {first}), K, S, toks)
<1> DEFINE F == Forward(K, first, toks)
           P == PrefillShared(K, first, toks, S \ {first})
<1>1. /\ KvOK(F) /\ \A x \in Set : x # first => F[x] = K[x]
      /\ F[first] = IF Len(K[first]) + Len(toks) > MaxSeq THEN K[first] ELSE K[first] \o toks
  BY ForwardOK
<1>2. Len(toks) <= MaxSeq => F[first] = toks
  <2>1. Len(<<>>) + Len(toks) = Len(toks) /\ Len(toks) \in Nat
    BY EmptyFacts
  <2>2. <<>> \o toks = toks
    BY ConcatEmptySeq
  <2>3. QED BY <1>1, <2>1, <2>2, EmptyFacts
<1>3. P = [x \in Set |-> IF x \in S \ {first} THEN F[first] ELSE F[x]]
  BY DEF PrefillShared, Copy
<1> HIDE DEF P, F
<1>4. KvOK(P)
  BY <1>1, <1>3 DEF KvOK
<1>5. QED BY <1>1, <1>2, <1>3, <1>4 DEF P, Filled

LEMMA PromptOK ==
    ASSUME NEW kind \in {"prompt", "uncond", "cot"}, NEW owner \in Nat, NEW len \in Nat
    PROVE  Prompt(kind, owner, len) \in Seq(Token) /\ Len(Prompt(kind, owner, len)) = len
<1>1. [t |-> kind, i |-> owner] \in Token
  BY DEF Token
<1>2. QED BY <1>1 DEF Prompt

LEMMA UncondOK == Uncond \in Seq(Token) /\ Len(Uncond) = UncondLen
BY PromptOK, LmBatchAssumption DEF Uncond

\* The sets of a call.
LEMMA CallSets ==
    ASSUME NEW c, c.n \in 1 .. MaxBatch
    PROVE  /\ c.n \in Nat \ {0} /\ c.n \in UncondSets(c.n) /\ 0 \in CondSets(c.n) /\ 0 \in Set
           /\ c.n \in Set /\ SetsOf(c) \subseteq Set
           /\ CondSets(c.n) \subseteq Set /\ UncondSets(c.n) \subseteq Set
           /\ CondSets(c.n) \cap UncondSets(c.n) = {}
           /\ \A i \in CondSets(c.n) : c.n + i \in UncondSets(c.n) /\ i \in Nat
           /\ CondSets(c.n) \subseteq 0 .. (MaxBatch - 1)
BY LmBatchAssumption DEF CondSets, UncondSets, SetsOf, Set

\* The twins are prefilled next to what is there.
LEMMA TwinsOK ==
    ASSUME NEW c, c.n \in 1 .. MaxBatch, NEW K, KvOK(K),
           c.twin => \A x \in UncondSets(c.n) : K[x] = <<>>
    PROVE  LET P == PrefillTwins(K, c)
           IN  /\ KvOK(P)
               /\ \A i \in CondSets(c.n) : P[i] = K[i]
               /\ c.twin /\ UncondLen <= MaxSeq => \A i \in CondSets(c.n) : P[c.n + i] = Uncond
<1>1. CASE ~c.twin
  BY <1>1 DEF PrefillTwins
<1>2. CASE c.twin
  <2> DEFINE Q == PrefillShared(K, c.n, Uncond, UncondSets(c.n) \ {c.n})
  <2>1. PrefillTwins(K, c) = Q
    BY <1>2 DEF PrefillTwins, PrefillShared
  <2>2. K[c.n] = <<>> /\ c.n \in Set /\ c.n \in UncondSets(c.n)
    BY <1>2, CallSets
  <2>3. Filled(Q, K, UncondSets(c.n), Uncond)
    BY <2>2, UncondOK, SharedOK
  <2> HIDE DEF Q
  <2>4. \A i \in CondSets(c.n) :
           /\ i \in Set /\ i \notin UncondSets(c.n)
           /\ c.n + i \in Set /\ c.n + i \in UncondSets(c.n)
    BY CallSets
  <2>5. QED BY <2>1, <2>3, <2>4, UncondOK DEF Filled
<1>3. QED BY <1>1, <1>2

\* P is K with the prompts in their sets, those that fit.
EachFilled(P, K, n, prompts) ==
    /\ KvOK(P)
    /\ \A x \in Set : x \notin CondSets(n) => P[x] = K[x]
    /\ \A i \in CondSets(n) : Len(prompts[i]) <= MaxSeq => P[i] = prompts[i]

LEMMA EachOK ==
    ASSUME NEW n \in 1 .. MaxBatch, NEW K, KvOK(K), \A x \in CondSets(n) : K[x] = <<>>,
           NEW prompts \in [CondSets(n) -> Seq(Token)]
    PROVE  EachFilled(PrefillEach(K, prompts), K, n, prompts)
<1> DEFINE P == PrefillEach(K, prompts)
           F == [s \in CondSets(n) |-> Forward(K, s, prompts[s])[s]]
<1>1. CondSets(n) \subseteq Set /\ DOMAIN prompts = CondSets(n)
  BY LmBatchAssumption DEF CondSets, Set
<1>2. P = [s \in Set |-> IF s \in CondSets(n) THEN F[s] ELSE K[s]]
  BY <1>1 DEF PrefillEach
<1>3. \A s \in CondSets(n) :
          /\ F[s] \in Seq(Token) /\ Len(F[s]) <= MaxSeq
          /\ Len(prompts[s]) <= MaxSeq => F[s] = prompts[s]
  <2> SUFFICES ASSUME NEW s \in CondSets(n)
               PROVE  LET f == Forward(K, s, prompts[s])[s]
                      IN  /\ f \in Seq(Token) /\ Len(f) <= MaxSeq
                          /\ Len(prompts[s]) <= MaxSeq => f = prompts[s]
    OBVIOUS
  <2>1. s \in Set /\ prompts[s] \in Seq(Token) /\ K[s] = <<>>
    BY <1>1
  <2>2. /\ KvOK(Forward(K, s, prompts[s]))
        /\ Forward(K, s, prompts[s])[s] = IF Len(K[s]) + Len(prompts[s]) > MaxSeq THEN K[s]
                                          ELSE K[s] \o prompts[s]
    BY <2>1, ForwardOK
  <2>3. Len(K[s]) + Len(prompts[s]) = Len(prompts[s]) /\ Len(prompts[s]) \in Nat
    BY <2>1, EmptyFacts
  <2>4. K[s] \o prompts[s] = prompts[s]
    BY <2>1, ConcatEmptySeq
  <2>5. QED BY <2>1, <2>2, <2>3, <2>4, EmptyFacts DEF KvOK
<1> HIDE DEF F, P
<1>4. KvOK(P)
  BY <1>1, <1>2, <1>3 DEF KvOK
<1>5. QED BY <1>1, <1>2, <1>3, <1>4 DEF P, EachFilled

\* A forward of the batch appends to each set the token of its slot, if no other
\* slot has it.
Appended(K, tok, set, n) ==
    /\ KvOK(K)
    /\ \A a \in 0 .. (n - 1) :
          (\A b \in 0 .. (n - 1) : set[b] = set[a] => b = a) =>
             K[set[a]] = Append(kv[set[a]], tok[a])

LEMMA ForwardBatchOK ==
    ASSUME KvOK(kv), NEW tok \in [Slot -> Token], NEW set \in [Slot -> Set],
           NEW n \in 0 .. 2 * MaxBatch, ~Overruns({set[a] : a \in 0 .. (n - 1)})
    PROVE  Appended(ForwardBatch(tok, set, n), tok, set, n)
<1> DEFINE K == ForwardBatch(tok, set, n)
           at(s) == CHOOSE a \in 0 .. (n - 1) : set[a] = s
<1>1. 0 .. (n - 1) \subseteq Slot
  BY LmBatchAssumption DEF Slot, Set
<1>2. K = [s \in Set |-> IF \E a \in 0 .. (n - 1) : set[a] = s
                         THEN Append(kv[s], tok[at(s)]) ELSE kv[s]]
  BY DEF ForwardBatch
<1>3. \A s \in Set : (\E a \in 0 .. (n - 1) : set[a] = s) =>
          at(s) \in 0 .. (n - 1) /\ set[at(s)] = s
  OBVIOUS
<1> HIDE DEF at, K
<1>4. \A s \in Set : K[s] \in Seq(Token) /\ Len(K[s]) <= MaxSeq
  <2> SUFFICES ASSUME NEW s \in Set PROVE K[s] \in Seq(Token) /\ Len(K[s]) <= MaxSeq
    OBVIOUS
  <2>1. kv[s] \in Seq(Token) /\ Len(kv[s]) <= MaxSeq /\ Len(kv[s]) \in Nat /\ MaxSeq \in Nat
    BY EmptyFacts DEF KvOK
  <2>2. CASE \E a \in 0 .. (n - 1) : set[a] = s
    <3>1. tok[at(s)] \in Token /\ K[s] = Append(kv[s], tok[at(s)])
      BY <1>1, <1>2, <1>3, <2>2
    <3>2. Len(kv[s]) + 1 <= MaxSeq
      BY <2>1, <2>2 DEF Overruns
    <3>3. Append(kv[s], tok[at(s)]) \in Seq(Token) /\ Len(Append(kv[s], tok[at(s)])) = Len(kv[s]) + 1
      BY <2>1, <3>1, AppendFacts
    <3>4. QED BY <3>1, <3>2, <3>3
  <2>3. CASE ~ \E a \in 0 .. (n - 1) : set[a] = s
    BY <1>2, <2>1, <2>3
  <2>4. QED BY <2>2, <2>3
<1>5. K \in [Set -> Seq(Token)]
  BY <1>2, <1>4
<1>6. ASSUME NEW a \in 0 .. (n - 1), \A b \in 0 .. (n - 1) : set[b] = set[a] => b = a
      PROVE  K[set[a]] = Append(kv[set[a]], tok[a])
  <2>1. set[a] \in Set
    BY <1>1
  <2>2. at(set[a]) = a
    BY <1>3, <1>6, <2>1
  <2>3. QED BY <1>2, <2>1, <2>2
<1>7. QED BY <1>4, <1>5, <1>6 DEF KvOK, K, Appended

-----------------------------------------------------------------------------
(***************************************************************************)
(* Sampling                                                                *)
(***************************************************************************)
LEMMA BeforeIs == \A i : Before(i) = BeforeOf(seqs[i])
BY DEF Before, BeforeOf

LEMMA WrittenOK ==
    ASSUME NEW i \in Nat, NEW ch \in Choice
    PROVE  Written(i, ch) \in Token /\ Written(i, ch).t = ch
BY DEF Written, Token, Choice

\* The sequence q after a sampling before which it had written g: everything but
\* what was sampled is before it, and that is what is fed next.
Wrote(q, g) ==
    /\ q \in Sequence /\ BeforeOf(q) = g
    /\ ~q.done => q.last.t # "im_end" /\ q.gen = Append(g, q.last)
    /\ q.gen # <<>> \/ q.done

LEMMA FirstOK ==
    ASSUME NEW c, NEW i \in Nat, NEW prompt \in Seq(Token), NEW ch \in Choice
    PROVE  Wrote(First(c, i, prompt, ch), <<>>) /\ First(c, i, prompt, ch).prompt = prompt
<1> DEFINE w == Written(i, ch)
<1>1. w \in Token /\ w.t = ch
  BY WrittenOK
<1>2. First(c, i, prompt, ch) = [prompt |-> prompt, gen |-> IF ch = "im_end" THEN <<>> ELSE <<w>>,
                                 last |-> w, done |-> ch = "im_end" \/ Stops(c, ch)]
  BY DEF First
<1> HIDE DEF w
<1>3. /\ <<w>> \in Seq(Token) /\ <<w>> # <<>> /\ Append(<<>>, w) = <<w>>
      /\ SubSeq(<<w>>, 1, Len(<<w>>) - 1) = <<>>
  <2>1. Append(<<>>, w) = <<w>> /\ <<>> \in Seq(Token)
    OBVIOUS
  <2>2. QED BY <1>1, <2>1, AppendFacts
<1>4. (ch = "im_end" \/ Stops(c, ch)) \in BOOLEAN
  BY DEF Stops
<1>5. CASE ch = "im_end"
  <2>1. PICK e \in Seq(Token) : e = <<>>
    BY EmptyFacts
  <2>2. First(c, i, prompt, ch) = [prompt |-> prompt, gen |-> e, last |-> w, done |-> TRUE]
    BY <1>2, <1>5, <2>1
  <2> DEFINE q == First(c, i, prompt, ch)
  <2>3. q \in Sequence /\ q.prompt = prompt /\ q.gen = e /\ q.done = TRUE
    BY <1>1, <2>1, <2>2 DEF Sequence
  <2> HIDE DEF q
  <2>4. BeforeOf(q) = <<>>
    BY <2>1, <2>3 DEF BeforeOf
  <2>5. QED BY <2>3, <2>4 DEF Wrote, q
<1>6. CASE ch # "im_end"
  BY <1>1, <1>2, <1>3, <1>4, <1>6 DEF Wrote, Sequence, BeforeOf
<1>7. QED BY <1>5, <1>6

LEMMA SampledOK ==
    ASSUME NEW i \in Nat, seqs[i] \in Sequence, ~seqs[i].done, seqs[i].last.t # "im_end",
           NEW ch \in Choice
    PROVE  Wrote(Sampled(i, ch), seqs[i].gen) /\ Sampled(i, ch).prompt = seqs[i].prompt
<1> DEFINE w == Written(i, ch)
           q == seqs[i]
           g == Append(q.gen, w)
<1>1. w \in Token /\ w.t = ch
  BY WrittenOK
<1>2. q \in Sequence /\ q.gen \in Seq(Token) /\ q.last.t # "im_end" /\ ~q.done
  BY DEF Sequence
<1>3. g \in Seq(Token) /\ g # <<>> /\ SubSeq(g, 1, Len(g) - 1) = q.gen
  BY <1>1, <1>2, AppendFacts
<1>4. Sampled(i, ch) =
         CASE ch = "im_end"   -> [q EXCEPT !.done = TRUE, !.last = w]
           [] Stops(call, ch) -> [q EXCEPT !.done = TRUE, !.gen = g]
           [] OTHER           -> [q EXCEPT !.last = w, !.gen = g]
  BY DEF Sampled
<1>5. g = Append(q.gen, w)
  OBVIOUS
<1> HIDE DEF w, g, q
<1>6. CASE ch = "im_end"
  <2>1. Sampled(i, ch) = [q EXCEPT !.done = TRUE, !.last = w]
    BY <1>4, <1>6 DEF Stops
  <2>2. QED BY <1>1, <1>2, <1>6, <2>1 DEF Wrote, Sequence, BeforeOf, q
<1>7. CASE ch # "im_end" /\ Stops(call, ch)
  <2>1. Sampled(i, ch) = [q EXCEPT !.done = TRUE, !.gen = g]
    BY <1>4, <1>7
  <2>2. QED BY <1>1, <1>2, <1>3, <1>7, <2>1 DEF Wrote, Sequence, BeforeOf, q
<1>8. CASE ch # "im_end" /\ ~Stops(call, ch)
  <2>1. Sampled(i, ch) = [q EXCEPT !.last = w, !.gen = g]
    BY <1>4, <1>8
  <2>2. QED BY <1>1, <1>2, <1>3, <1>5, <1>8, <2>1 DEF Wrote, Sequence, BeforeOf, q
<1>9. QED BY <1>6, <1>7, <1>8

LEMMA TypedSequences ==
    ASSUME BatchTypeOK, NEW i \in DOMAIN seqs
    PROVE  /\ i \in 0 .. (MaxBatch - 1) /\ i \in Nat /\ seqs[i] \in Sequence
           /\ seqs[i].gen \in Seq(Token) /\ seqs[i].prompt \in Seq(Token)
           /\ seqs[i].last \in Token /\ BeforeOf(seqs[i]) \in Seq(Token)
<1>1. i \in 0 .. (MaxBatch - 1) /\ i \in Nat /\ seqs[i] \in Sequence
  BY LmBatchAssumption DEF BatchTypeOK, Sequence
<1> DEFINE q == seqs[i]
<1>2. q.gen \in Seq(Token) /\ q.prompt \in Seq(Token) /\ q.last \in Token
  BY <1>1 DEF Sequence
<1>3. BeforeOf(q) \in Seq(Token)
  <2>1. CASE q.gen = <<>> \/ q.last.t = "im_end"
    BY <1>2, <2>1 DEF BeforeOf
  <2>2. CASE ~(q.gen = <<>> \/ q.last.t = "im_end")
    <3>1. Len(q.gen) \in Nat \ {0} /\ \A x \in 1 .. (Len(q.gen) - 1) : q.gen[x] \in Token
      <4>1. Len(q.gen) \in Nat \ {0}
        BY <1>2, <2>2, EmptySeq
      <4>2. QED BY <1>2, <4>1, ElementOfSeq
    <3>2. SubSeq(q.gen, 1, Len(q.gen) - 1) \in Seq(Token)
      BY <3>1, SubSeqProperties
    <3>3. QED BY <2>2, <3>2 DEF BeforeOf
  <2>3. QED BY <2>1, <2>2
<1>4. QED BY <1>1, <1>2, <1>3

-----------------------------------------------------------------------------
(***************************************************************************)
(* Entering and leaving a loop                                             *)
(***************************************************************************)
CallRecord ==
    [n : 0..MaxBatch, cfg : BOOLEAN, twin : BOOLEAN, lyrics : BOOLEAN, skip : BOOLEAN]

LEMMA KvFacts ==
    ASSUME IInv
    PROVE  /\ KvOK(kv) /\ call \in CallRecord
           /\ batch_tokens \in [Slot -> Token] /\ batch_sets \in [Slot -> Set]
BY DEF IInv, BatchTypeOK, KvInBounds, KvOK, CallRecord

LEMMA NoSequences == DOMAIN <<>> = {} /\ Active(<<>>) = {} /\ Cardinality({}) = 0
BY FS_EmptySet DEF Active

LEMMA EmptyArrays ==
    /\ [a \in Slot |-> Zero] \in [Slot -> Token] /\ [a \in Slot |-> 0] \in [Slot -> Set]
    /\ NoCall \in CallRecord
BY LmBatchAssumption DEF Slot, Set, Zero, Token, NoCall, CallRecord

LEMMA InitInv == BatchInit => IInv
<1> SUFFICES ASSUME BatchInit PROVE IInv
  OBVIOUS
<1>1. BatchTypeOK
  <2>1. kv \in [Set -> Seq(Token)]
    BY EmptyFacts DEF BatchInit
  <2>2. DOMAIN seqs = {} /\ DOMAIN seen = {} /\ n_active = Cardinality(Active(seqs)) /\ step = 0
    BY NoSequences DEF BatchInit
  <2>3. QED BY <2>1, <2>2, EmptyArrays DEF BatchInit, BatchTypeOK, CallRecord
<1>2. SampledFromOwnHistory /\ ShapeInv /\ KvInv
  BY NoSequences DEF BatchInit, SampledFromOwnHistory, ShapeInv, KvInv
<1>3. KvInBounds
  BY EmptyFacts DEF BatchInit, KvInBounds
<1>4. QED BY <1>1, <1>2, <1>3 DEF IInv

LEMMA LeaveInv ==
    ASSUME IInv, NEW next \in {"idle", "filled"}, Leave(next), KvOK(kv')
    PROVE  IInv'
<1>1. BatchTypeOK'
  <2>1. DOMAIN seqs' = {} /\ DOMAIN seen' = {} /\ n_active' = Cardinality(Active(seqs')) /\ step' = 0
    BY NoSequences DEF Leave
  <2>2. call' \in CallRecord
    BY EmptyArrays, KvFacts DEF Leave
  <2>3. batch_tokens' \in [Slot -> Token] /\ batch_sets' \in [Slot -> Set]
    BY EmptyArrays DEF Leave
  <2>4. kv' \in [Set -> Seq(Token)] /\ batchPc' \in {"idle", "filled"}
    BY DEF Leave, KvOK
  <2>5. QED BY <2>1, <2>2, <2>3, <2>4 DEF BatchTypeOK, CallRecord, Set, Slot, Token
<1>2. SampledFromOwnHistory' /\ ShapeInv' /\ KvInv'
  BY NoSequences DEF Leave, SampledFromOwnHistory, ShapeInv, KvInv
<1>3. KvInBounds'
  BY DEF KvInBounds, KvOK, Set
<1>4. QED BY <1>1, <1>2, <1>3 DEF IInv

LEMMA ExitInv ==
    ASSUME IInv, Exit, batchPc \in {"fill", "codes"}
    PROVE  IInv'
<1>1. BatchTypeOK'
  BY DEF IInv, BatchTypeOK, Exit, Set, Slot, Token, Active
<1>2. SampledFromOwnHistory'
  BY DEF IInv, SampledFromOwnHistory, Exit, HasSampled, Fits, Before, Uncond, Prompt
<1>3. KvInBounds'
  BY DEF IInv, KvInBounds, Exit, Set
<1>4. ShapeInv' /\ KvInv'
  BY DEF Exit, ShapeInv, KvInv
<1>5. QED BY <1>1, <1>2, <1>3, <1>4 DEF IInv

\* A batch starts: each sequence has its prompt in the cache and one token written.
LEMMA StartInv ==
    ASSUME IInv, NEW c \in Calls, NEW prompts \in [CondSets(c.n) -> Seq(Token)], NEW K, KvOK(K),
           NEW choices, choices \subseteq Choice,
           StartDecode(c, prompts, K, choices), batchPc' \in {"fill", "codes"},
           UNCHANGED <<batch_tokens, batch_sets>>,
           \A i \in CondSets(c.n) : Len(prompts[i]) <= MaxSeq => K[i] = prompts[i],
           c.twin /\ UncondLen <= MaxSeq => \A i \in CondSets(c.n) : K[c.n + i] = Uncond
    PROVE  IInv'
<1>1. /\ c.n \in 1 .. MaxBatch /\ c \in CallRecord /\ DOMAIN prompts = CondSets(c.n)
      /\ c.twin \in BOOLEAN
  BY LmBatchAssumption DEF Calls, CallRecord
<1>2. PICK ch \in [CondSets(c.n) -> choices] :
        seqs' = [i \in CondSets(c.n) |-> First(c, i, prompts[i], ch[i])]
  BY <1>1 DEF StartDecode
<1>3. /\ kv' = K /\ call' = c /\ step' = 0 /\ n_active' = Cardinality(Active(seqs'))
      /\ seen' = [i \in CondSets(c.n) |-> Logits(K, c, i)]
  BY <1>1 DEF StartDecode
<1>4. \A i \in CondSets(c.n) : i \in Nat /\ i \in 0 .. (MaxBatch - 1) /\ prompts[i] \in Seq(Token)
  BY <1>1, CallSets
<1>5. \A i \in CondSets(c.n) : Wrote(seqs'[i], <<>>) /\ seqs'[i].prompt = prompts[i]
  <2> SUFFICES ASSUME NEW i \in CondSets(c.n)
               PROVE  Wrote(seqs'[i], <<>>) /\ seqs'[i].prompt = prompts[i]
    OBVIOUS
  <2>1. ch[i] \in Choice /\ i \in Nat /\ prompts[i] \in Seq(Token)
    BY <1>2, <1>4
  <2>2. seqs'[i] = First(c, i, prompts[i], ch[i])
    BY <1>2
  <2>3. QED BY <2>1, <2>2, FirstOK
<1>6. DOMAIN seqs' = CondSets(c.n) /\ DOMAIN seen' = CondSets(c.n)
  BY <1>2, <1>3
<1>7. BatchTypeOK'
  <2>1. kv' \in [Set -> Seq(Token)]
    BY <1>3 DEF KvOK
  <2>2. \A i \in DOMAIN seqs' : seqs'[i] \in Sequence
    BY <1>5, <1>6 DEF Wrote
  <2>3. batch_tokens' \in [Slot -> Token] /\ batch_sets' \in [Slot -> Set]
    BY KvFacts
  <2>4. DOMAIN seqs' \subseteq 0 .. (MaxBatch - 1)
    BY <1>4, <1>6
  <2>5. QED BY <1>1, <1>3, <1>6, <2>1, <2>2, <2>3, <2>4
            DEF BatchTypeOK, CallRecord, Set, Slot, Token, Sequence
<1>8. KvInBounds'
  BY <1>3 DEF KvInBounds, KvOK, Set
<1>9. ShapeInv'
  BY <1>1, <1>3, <1>6, CallSets DEF ShapeInv, CondSets
<1>10. ASSUME NEW i \in CondSets(c.n), Len(prompts[i] \o <<>>) <= MaxSeq,
              c.twin => UncondLen <= MaxSeq
       PROVE  /\ K[i] = prompts[i] \o <<>> /\ (c.twin => K[c.n + i] = Uncond \o <<>>)
              /\ Logits(K, c, i) = <<prompts[i] \o <<>>, IF c.twin THEN Uncond \o <<>> ELSE <<>> >>
  <2>1. prompts[i] \o <<>> = prompts[i] /\ Uncond \o <<>> = Uncond
    BY <1>4, UncondOK, ConcatEmptySeq
  <2>2. K[i] = prompts[i] /\ (c.twin => K[c.n + i] = Uncond)
    BY <1>10, <2>1
  <2>3. QED BY <2>1, <2>2 DEF Logits
<1>11. \A i \in CondSets(c.n) : Fits(i)' =>
          Len(prompts[i] \o <<>>) <= MaxSeq /\ (c.twin => UncondLen <= MaxSeq)
  BY <1>3, <1>5 DEF Fits
<1>12. SampledFromOwnHistory'
  <2> SUFFICES ASSUME NEW i \in CondSets(c.n), Fits(i)'
               PROVE  seen'[i] = <<seqs'[i].prompt \o Before(i)',
                                   IF call'.twin THEN Uncond \o Before(i)' ELSE <<>> >>
    BY <1>6 DEF SampledFromOwnHistory, Uncond, Prompt
  <2>1. Before(i)' = <<>>
    BY <1>5 DEF Before, BeforeOf, Wrote
  <2>2. seen'[i] = Logits(K, c, i)
    BY <1>3
  <2>3. QED BY <1>3, <1>5, <1>10, <1>11, <2>1, <2>2
<1>13. KvInv'
  <2> SUFFICES ASSUME NEW i \in CondSets(c.n), ~seqs'[i].done
               PROVE  BatchKv(i)'
    BY <1>6 DEF KvInv, Active
  <2> DEFINE q == seqs'[i]
  <2>1. q.last.t # "im_end" /\ q.gen = Append(<<>>, q.last) /\ BeforeOf(q) = <<>>
        /\ q.prompt = prompts[i]
    BY <1>5 DEF Wrote
  <2>2. Fits(i)' => /\ kv'[i] = q.prompt \o BeforeOf(q)
                    /\ call'.twin => kv'[call'.n + i] = Uncond \o BeforeOf(q)
    BY <1>3, <1>10, <1>11, <2>1
  <2> HIDE DEF q
  <2>3. QED BY <2>1, <2>2 DEF BatchKv, q, BeforeOf, Uncond, Prompt
<1>14. QED BY <1>7, <1>8, <1>9, <1>12, <1>13 DEF IInv

-----------------------------------------------------------------------------
(***************************************************************************)
(* Decoding a batch                                                        *)
(***************************************************************************)

\* Between two samplings: everything written is in the cache.
Forwarded(i) ==
    Fits(i) => /\ kv'[i] = Append(kv[i], seqs[i].last)
               /\ call.twin => kv'[call.n + i] = Append(kv[call.n + i], seqs[i].last)

\* A step that forwarded the tokens of the active sequences and sampled from the
\* sets they went to.
LEMMA SampleInv ==
    ASSUME IInv, batchPc \in {"fill", "codes"}, NEW src, NEW choices, choices \subseteq Choice,
           Sample(src, choices), KvOK(kv'), UNCHANGED <<batchPc, call>>, step' \in Nat,
           batch_tokens' \in [Slot -> Token], batch_sets' \in [Slot -> Set],
           \A i \in Active(seqs) :
               /\ Forwarded(i)
               /\ src[i] = <<kv'[i], IF call.twin THEN kv'[call.n + i] ELSE <<>> >>
    PROVE  IInv'
<1>1. PICK ch \in [Active(seqs) -> choices] :
        seqs' = [i \in DOMAIN seqs |-> IF i \in Active(seqs) THEN Sampled(i, ch[i]) ELSE seqs[i]]
  BY DEF Sample
<1>2. /\ seen' = [i \in DOMAIN seqs |-> IF i \in Active(seqs) THEN src[i] ELSE seen[i]]
      /\ n_active' = Cardinality(Active(seqs'))
  BY DEF Sample
<1>3. /\ BatchTypeOK /\ SampledFromOwnHistory /\ ShapeInv /\ KvInv
      /\ DOMAIN seqs' = DOMAIN seqs /\ DOMAIN seen' = DOMAIN seqs
      /\ Active(seqs) \subseteq DOMAIN seqs
  BY <1>1, <1>2 DEF IInv, Active
<1>4. \A i \in Active(seqs) : /\ ~seqs[i].done /\ BatchKv(i)
                              /\ seqs'[i] = Sampled(i, ch[i]) /\ ch[i] \in Choice
  BY <1>1, <1>3 DEF KvInv, Active
<1>5. \A i \in Active(seqs) : Wrote(seqs'[i], seqs[i].gen) /\ seqs'[i].prompt = seqs[i].prompt
  BY <1>3, <1>4, TypedSequences, SampledOK DEF BatchKv
<1>6. \A i \in DOMAIN seqs \ Active(seqs) : seqs'[i] = seqs[i] /\ seen'[i] = seen[i] /\ seqs[i].done
  BY <1>1, <1>2, <1>3, TypedSequences DEF Active, Sequence
<1>7. BatchTypeOK'
  <2>1. \A i \in DOMAIN seqs' : seqs'[i] \in Sequence
    BY <1>3, <1>5, <1>6, TypedSequences DEF Wrote
  <2>2. kv' \in [Set -> Seq(Token)]
    BY DEF KvOK
  <2>3. QED BY <1>2, <1>3, <2>1, <2>2 DEF BatchTypeOK, Set, Slot, Token, Sequence
<1>8. KvInBounds'
  BY DEF KvInBounds, KvOK, Set
<1>9. ShapeInv'
  BY <1>3 DEF ShapeInv, CondSets
<1>10. \A i \in DOMAIN seqs : Fits(i)' <=> Fits(i)
  <2>1. \A i \in DOMAIN seqs : seqs'[i].prompt = seqs[i].prompt
    BY <1>5, <1>6
  <2>2. QED BY <2>1 DEF Fits
\* What the cache holds for sequence i now.
<1>11. \A i \in Active(seqs) : Fits(i) =>
          /\ kv'[i] = seqs[i].prompt \o seqs[i].gen
          /\ call.twin => kv'[call.n + i] = Uncond \o seqs[i].gen
  <2> SUFFICES ASSUME NEW i \in Active(seqs), Fits(i)
               PROVE  /\ kv'[i] = seqs[i].prompt \o seqs[i].gen
                      /\ call.twin => kv'[call.n + i] = Uncond \o seqs[i].gen
    OBVIOUS
  <2> DEFINE q == seqs[i]
             b == BeforeOf(q)
  <2>1. b \in Seq(Token) /\ q.prompt \in Seq(Token) /\ q.last \in Token /\ Uncond \in Seq(Token)
    BY <1>3, TypedSequences, UncondOK
  <2>2. /\ q.gen = Append(b, q.last) /\ kv[i] = q.prompt \o b
        /\ call.twin => kv[call.n + i] = Uncond \o b
    BY <1>4 DEF BatchKv
  <2>3. /\ kv'[i] = Append(kv[i], q.last)
        /\ call.twin => kv'[call.n + i] = Append(kv[call.n + i], q.last)
    BY DEF Forwarded
  <2> HIDE DEF b, q
  <2>4. PICK p \in Seq(Token), u \in Seq(Token), x \in Token :
          p = q.prompt /\ u = Uncond /\ x = q.last
    BY <2>1
  <2>5. p \o Append(b, x) = Append(p \o b, x) /\ u \o Append(b, x) = Append(u \o b, x)
    BY <2>1, <2>4, TokenAppend
  <2>6. QED BY <2>2, <2>3, <2>4, <2>5 DEF q
<1>12. SampledFromOwnHistory'
  <2> SUFFICES ASSUME NEW i \in DOMAIN seqs, HasSampled(i)', Fits(i)'
               PROVE  seen'[i] = <<seqs'[i].prompt \o Before(i)',
                                   IF call'.twin THEN Uncond \o Before(i)' ELSE <<>> >>
    BY <1>3 DEF SampledFromOwnHistory, Uncond, Prompt
  <2>1. Fits(i)
    BY <1>10
  <2>2. CASE i \in Active(seqs)
    <3>1. Before(i)' = seqs[i].gen
      BY <1>5, <2>2 DEF Before, BeforeOf, Wrote
    <3>2. seen'[i] = <<kv'[i], IF call.twin THEN kv'[call.n + i] ELSE <<>> >>
      BY <1>2, <2>2
    <3>3. seqs'[i].prompt = seqs[i].prompt
      BY <1>5, <2>2
    <3>4. QED BY <1>11, <2>1, <2>2, <3>1, <3>2, <3>3
  <2>3. CASE i \notin Active(seqs)
    <3>1. seqs'[i] = seqs[i] /\ seen'[i] = seen[i]
      BY <1>6, <2>3
    <3>2. Before(i)' = Before(i) /\ (HasSampled(i)' <=> HasSampled(i))
      BY <3>1 DEF Before, HasSampled
    <3>3. seen[i] = <<seqs[i].prompt \o Before(i), IF call.twin THEN Uncond \o Before(i) ELSE <<>> >>
      BY <1>3, <2>1, <3>2 DEF SampledFromOwnHistory
    <3>4. QED BY <3>1, <3>2, <3>3
  <2>4. QED BY <2>2, <2>3
<1>13. KvInv'
  <2> SUFFICES ASSUME NEW i \in DOMAIN seqs, ~seqs'[i].done
               PROVE  BatchKv(i)'
    BY <1>3 DEF KvInv, Active
  <2>1. i \in Active(seqs)
    BY <1>6
  <2>2. /\ seqs'[i].last.t # "im_end" /\ seqs'[i].gen = Append(seqs[i].gen, seqs'[i].last)
        /\ BeforeOf(seqs'[i]) = seqs[i].gen /\ seqs'[i].prompt = seqs[i].prompt
    BY <1>5, <2>1 DEF Wrote
  <2>3. BeforeOf(seqs[i])' = seqs[i].gen
    BY <2>2 DEF BeforeOf
  <2>4. Fits(i)' => /\ kv'[i] = seqs'[i].prompt \o BeforeOf(seqs[i])'
                    /\ call'.twin => kv'[call'.n + i] = Uncond \o BeforeOf(seqs[i])'
    BY <1>10, <1>11, <2>1, <2>2, <2>3
  <2>5. QED BY <2>2, <2>3, <2>4 DEF BatchKv, Uncond, Prompt
<1>14. QED BY <1>7, <1>8, <1>9, <1>12, <1>13 DEF IInv

\* Active sequences are in one-to-one correspondence with the first slots.
LEMMA PlaceOK ==
    ASSUME BatchTypeOK
    PROVE  /\ n_active \in Nat
           /\ \A i \in Active(seqs) : Place(i) \in 0 .. (n_active - 1) /\ InPlace(Place(i)) = i
           /\ \A a \in 0 .. (n_active - 1) : InPlace(a) \in Active(seqs) /\ Place(InPlace(a)) = a
<1> DEFINE A == Active(seqs)
<1>1. A \subseteq 0 .. (MaxBatch - 1) /\ MaxBatch \in Nat /\ n_active = Cardinality(A)
  BY LmBatchAssumption DEF BatchTypeOK, Active
<1> HIDE DEF A
<1> DEFINE f == [i \in A |-> Cardinality({j \in A : j < i})]
<1>2. /\ IsFiniteSet(A) /\ Cardinality(A) \in Nat
      /\ \A i \in A : f[i] \in 0 .. (Cardinality(A) - 1)
      /\ \A i, j \in A : f[i] = f[j] => i = j
      /\ \A a \in 0 .. (Cardinality(A) - 1) : \E i \in A : f[i] = a
  BY <1>1, Ranks
<1>3. \A i \in A : Place(i) = f[i]
  BY DEF Place, A
<1> HIDE DEF f
<1>4. /\ n_active \in Nat /\ \A i \in A : Place(i) \in 0 .. (n_active - 1)
      /\ \A i, j \in A : Place(i) = Place(j) => i = j
      /\ \A a \in 0 .. (n_active - 1) : \E i \in A : Place(i) = a
  BY <1>1, <1>2, <1>3
<1>5. \A a : InPlace(a) = CHOOSE i \in A : Place(i) = a
  BY DEF InPlace, A
<1>6. \A a \in 0 .. (n_active - 1) : InPlace(a) \in A /\ Place(InPlace(a)) = a
  BY <1>4, <1>5
<1>7. \A i \in A : InPlace(Place(i)) = i
  BY <1>4, <1>6
<1>8. QED BY <1>4, <1>6, <1>7 DEF A

LEMMA ActiveBound ==
    ASSUME BatchTypeOK, call.n \in Nat, DOMAIN seqs = CondSets(call.n)
    PROVE  n_active <= call.n
<1>1. Active(seqs) \subseteq 0 .. (call.n - 1)
  BY DEF Active, CondSets
<1>2. IsFiniteSet(0 .. (call.n - 1)) /\ Cardinality(0 .. (call.n - 1)) = call.n
  BY FirstNumbers
<1>3. Cardinality(Active(seqs)) <= call.n
  BY <1>1, <1>2, FS_Subset
<1>4. QED BY <1>3 DEF BatchTypeOK

\* ---------------------------------------------------------------- phase 1
LEMMA Wraps ==
    ASSUME NEW n \in Nat \ {0}, NEW i \in 0 .. (n - 1)
    PROVE  i % n = i /\ (n + i) % n = i
BY Z3

LEMMA InRange ==
    ASSUME NEW n \in Nat \ {0}, NEW a \in Nat
    PROVE  a % n \in 0 .. (n - 1)
OBVIOUS

\* A loop's sets are the first ones.
LEMMA Width ==
    ASSUME NEW c, c.n \in 1 .. MaxBatch
    PROVE  LET w == Cardinality(SetsOf(c))
           IN  /\ w = IF c.twin THEN 2 * c.n ELSE c.n
               /\ w \in 0 .. 2 * MaxBatch /\ SetsOf(c) = 0 .. (w - 1)
<1> DEFINE v == IF c.twin THEN 2 * c.n ELSE c.n
<1>1. v \in Nat /\ v \in 0 .. 2 * MaxBatch
  BY LmBatchAssumption
<1>2. SetsOf(c) = 0 .. (v - 1)
  BY LmBatchAssumption DEF SetsOf, CondSets, UncondSets
<1> HIDE DEF v
<1>3. Cardinality(SetsOf(c)) = v
  BY <1>1, <1>2, FirstNumbers
<1>4. QED BY <1>1, <1>2, <1>3 DEF v

LEMMA FillStepInv ==
    ASSUME IInv, FillStep
    PROVE  IInv'
<1> DEFINE n == call.n
           w == Cardinality(SetsOf(call))
           tok == [a \in Slot |-> seqs[a % n].last]
           set == [a \in Slot |-> a]
           K == ForwardBatch(tok, set, w)
<1>1. BatchTypeOK /\ ShapeInv /\ batchPc = "fill" /\ KvOK(kv) /\ call \in CallRecord /\ step \in Nat
  BY KvFacts DEF IInv, FillStep, BatchTypeOK
<1>2. n \in 1 .. MaxBatch /\ n \in Nat \ {0} /\ DOMAIN seqs = CondSets(n)
  BY <1>1, LmBatchAssumption DEF ShapeInv, CallRecord
<1>3. CASE Overruns(SetsOf(call))
  <2>1. Exit
    BY <1>3 DEF FillStep
  <2>2. QED BY <1>1, <2>1, ExitInv
<1>4. CASE ~Overruns(SetsOf(call))
  <2>1. /\ kv' = K /\ Sample([i \in DOMAIN seqs |-> Logits(K, call, i)], Choice)
        /\ step' = step + 1 /\ UNCHANGED <<batchPc, call, batch_tokens, batch_sets>>
    BY <1>4 DEF FillStep
  <2>2. /\ w = IF call.twin THEN 2 * n ELSE n
        /\ w \in 0 .. 2 * MaxBatch /\ SetsOf(call) = 0 .. (w - 1)
    BY <1>2, Width
  <2>3. tok \in [Slot -> Token]
    <3>1. \A a \in Slot : a % n \in DOMAIN seqs
      <4>1. \A a \in Slot : a \in Nat
        BY LmBatchAssumption DEF Slot, Set
      <4>2. QED BY <1>2, <4>1, InRange DEF CondSets
    <3>2. QED BY <1>1, <3>1, TypedSequences
  <2>4. set \in [Slot -> Set] /\ \A a \in 0 .. (w - 1) : a \in Slot /\ set[a] = a
    BY <2>2, LmBatchAssumption DEF Slot, Set
  <2>5. {set[a] : a \in 0 .. (w - 1)} = SetsOf(call)
    BY <2>2, <2>4
  <2>6. \A i \in CondSets(n) :
           /\ i \in 0 .. (w - 1) /\ i \in Slot /\ tok[i] = seqs[i].last
           /\ call.twin => n + i \in 0 .. (w - 1) /\ n + i \in Slot /\ tok[n + i] = seqs[i].last
    <3>1. \A i \in CondSets(n) : i \in 0 .. (w - 1) /\ (call.twin => n + i \in 0 .. (w - 1))
      BY <1>2, <2>2 DEF CondSets
    <3>2. \A i \in CondSets(n) : i % n = i /\ (n + i) % n = i
      BY <1>2, Wraps DEF CondSets
    <3>3. QED BY <2>4, <3>1, <3>2
  <2> HIDE DEF tok, set, w
  <2>7. KvOK(K) /\ \A a \in 0 .. (w - 1) : K[set[a]] = Append(kv[set[a]], tok[a])
    <3>1. ~Overruns({set[a] : a \in 0 .. (w - 1)})
      BY <1>4, <2>5
    <3>2. \A a \in 0 .. (w - 1) : \A b \in 0 .. (w - 1) : set[b] = set[a] => b = a
      BY <2>4
    <3>3. Appended(K, tok, set, w)
      BY <1>1, <2>2, <2>3, <2>4, <3>1, ForwardBatchOK
    <3>4. QED BY <3>2, <3>3 DEF Appended
  <2> HIDE DEF K
  <2>8. \A i \in Active(seqs) :
           /\ Forwarded(i)
           /\ [j \in DOMAIN seqs |-> Logits(K, call, j)][i]
                = <<kv'[i], IF call.twin THEN kv'[call.n + i] ELSE <<>> >>
    <3>1. Active(seqs) \subseteq CondSets(n)
      BY <1>2 DEF Active
    <3>2. \A i \in CondSets(n) :
             /\ K[i] = Append(kv[i], seqs[i].last)
             /\ call.twin => K[n + i] = Append(kv[n + i], seqs[i].last)
      BY <2>4, <2>6, <2>7
    <3>3. QED BY <1>2, <2>1, <3>1, <3>2 DEF Forwarded, Logits
  <2>9. batch_tokens' \in [Slot -> Token] /\ batch_sets' \in [Slot -> Set] /\ step' \in Nat
    BY <1>1, <2>1, KvFacts
  <2>10. QED BY <1>1, <2>1, <2>7, <2>8, <2>9, SampleInv
<1>5. QED BY <1>3, <1>4

\* ---------------------------------------------------------------- phase 2
\* The arrays of the compacted batch: slot Place(i) is sequence i's, and slot
\* n_active + Place(i) its twin's; no other slot in use has their sets.
Compact(g, T, lasts, twins) ==
    /\ g \in [Slot -> T]
    /\ \A a \in 0 .. (n_active - 1) : a \in Slot /\ g[a] = lasts[InPlace(a)]
    /\ call.twin => \A a \in 0 .. (n_active - 1) :
           n_active + a \in Slot /\ g[n_active + a] = twins[InPlace(a)]

LEMMA Compacted ==
    ASSUME IInv, batchPc = "codes", NEW T, NEW lasts \in [CondSets(call.n) -> T],
           NEW twins \in [CondSets(call.n) -> T], NEW old \in [Slot -> T]
    PROVE  Compact(Gather(old, lasts, twins), T, lasts, twins)
<1> DEFINE g == Gather(old, lasts, twins)
<1>1. BatchTypeOK /\ call.n \in Nat \ {0} /\ call.n <= MaxBatch /\ DOMAIN seqs = CondSets(call.n)
  BY KvFacts, LmBatchAssumption DEF IInv, ShapeInv, CallRecord
<1>2. /\ n_active \in Nat /\ n_active <= call.n /\ MaxBatch \in Nat
      /\ \A a \in 0 .. (n_active - 1) : InPlace(a) \in CondSets(call.n)
  BY <1>1, PlaceOK, ActiveBound, LmBatchAssumption DEF Active
<1>3. g = [a \in Slot |->
              IF a < n_active THEN lasts[InPlace(a)]
              ELSE IF call.twin /\ a < 2 * n_active THEN twins[InPlace(a - n_active)]
              ELSE old[a]]
  BY DEF Gather
<1>4. \A a \in Slot : a \in Nat
  BY <1>2 DEF Slot, Set
<1>5. \A a \in Slot :
         /\ a < n_active => InPlace(a) \in CondSets(call.n)
         /\ ~(a < n_active) /\ a < 2 * n_active => InPlace(a - n_active) \in CondSets(call.n)
  <2>1. \A a \in Slot : /\ a < n_active => a \in 0 .. (n_active - 1)
                        /\ ~(a < n_active) /\ a < 2 * n_active => a - n_active \in 0 .. (n_active - 1)
    BY <1>2, <1>4
  <2>2. QED BY <1>2, <2>1
<1>6. g \in [Slot -> T]
  BY <1>3, <1>5
<1>7. \A a \in 0 .. (n_active - 1) :
         /\ a \in Slot /\ n_active + a \in Slot
         /\ a < n_active /\ ~(n_active + a < n_active) /\ n_active + a < 2 * n_active
         /\ (n_active + a) - n_active = a
  BY <1>1, <1>2 DEF Slot, Set
<1> HIDE DEF g
<1>8. QED BY <1>3, <1>6, <1>7 DEF g, Compact

LEMMA CodesStepInv ==
    ASSUME IInv, CodesStep
    PROVE  IInv'
<1> DEFINE n == call.n
           m == n_active
           lasts == [i \in DOMAIN seqs |-> seqs[i].last]
           conds == [i \in DOMAIN seqs |-> i]
           twins == [i \in DOMAIN seqs |-> call.n + i]
           toks == Gather(batch_tokens, lasts, lasts)
           sets == Gather(batch_sets, conds, twins)
           width == IF call.twin THEN 2 * n_active ELSE n_active
           K == ForwardBatch(toks, sets, width)
           src == [i \in DOMAIN seqs |->
                      <<K[sets[Place(i)]],
                        IF call.twin THEN K[sets[n_active + Place(i)]] ELSE <<>> >>]
<1>1. BatchTypeOK /\ ShapeInv /\ batchPc = "codes" /\ KvOK(kv) /\ call \in CallRecord /\ step \in Nat
  BY KvFacts DEF IInv, CodesStep, BatchTypeOK
<1>2. /\ n \in 1 .. MaxBatch /\ n \in Nat \ {0} /\ MaxBatch \in Nat /\ DOMAIN seqs = CondSets(n)
  BY <1>1, LmBatchAssumption DEF ShapeInv, CallRecord
<1>3. CASE Overruns({sets[a] : a \in 0 .. (width - 1)})
  <2>1. Exit
    BY <1>3 DEF CodesStep
  <2>2. QED BY <1>1, <2>1, ExitInv
<1>4. CASE ~Overruns({sets[a] : a \in 0 .. (width - 1)})
  <2>1. /\ kv' = K /\ batch_tokens' = toks /\ batch_sets' = sets
        /\ Sample(src, {"text", "im_end"})
        /\ step' = step + 1 /\ UNCHANGED <<batchPc, call>>
    BY <1>4 DEF CodesStep
  <2>2. /\ m \in Nat /\ m <= n
        /\ \A i \in Active(seqs) : Place(i) \in 0 .. (m - 1) /\ InPlace(Place(i)) = i
        /\ \A a \in 0 .. (m - 1) : InPlace(a) \in Active(seqs) /\ Place(InPlace(a)) = a
        /\ Active(seqs) \subseteq CondSets(n)
    BY <1>1, <1>2, PlaceOK, ActiveBound DEF Active
  <2>3. /\ lasts \in [CondSets(call.n) -> Token] /\ batch_tokens \in [Slot -> Token]
        /\ conds \in [CondSets(call.n) -> Set] /\ twins \in [CondSets(call.n) -> Set]
        /\ batch_sets \in [Slot -> Set]
    <3>1. \A i \in CondSets(n) : i \in Set /\ n + i \in Set
      BY <1>2 DEF CondSets, Set
    <3>2. \A i \in CondSets(n) : seqs[i].last \in Token
      BY <1>1, <1>2, TypedSequences
    <3>3. QED BY <1>2, <3>1, <3>2, KvFacts
  <2>4. /\ toks \in [Slot -> Token]
        /\ \A a \in 0 .. (m - 1) : a \in Slot /\ toks[a] = lasts[InPlace(a)]
        /\ call.twin => \A a \in 0 .. (m - 1) :
               m + a \in Slot /\ toks[m + a] = lasts[InPlace(a)]
    <3> HIDE DEF lasts
    <3>1. Compact(toks, Token, lasts, lasts)
      BY <1>1, <2>3, Compacted
    <3> HIDE DEF toks
    <3>2. QED BY <3>1 DEF Compact
  <2>5. /\ sets \in [Slot -> Set]
        /\ \A a \in 0 .. (m - 1) : a \in Slot /\ sets[a] = conds[InPlace(a)]
        /\ call.twin => \A a \in 0 .. (m - 1) :
               m + a \in Slot /\ sets[m + a] = twins[InPlace(a)]
    <3> HIDE DEF conds, twins
    <3>1. Compact(sets, Set, conds, twins)
      BY <1>1, <2>3, Compacted
    <3> HIDE DEF sets
    <3>2. QED BY <3>1 DEF Compact
  <2>6. \A a \in 0 .. (m - 1) :
           /\ sets[a] = InPlace(a) /\ toks[a] = seqs[InPlace(a)].last
           /\ call.twin => sets[m + a] = n + InPlace(a) /\ toks[m + a] = seqs[InPlace(a)].last
    BY <1>2, <2>2, <2>4, <2>5
  <2>7. width \in 0 .. 2 * MaxBatch /\ (width = IF call.twin THEN 2 * m ELSE m)
    BY <1>2, <2>2
  <2> HIDE DEF toks, sets, width, lasts, conds, twins, m, n
\* No two slots in use have the same set.
  <2>8. \A a, b \in 0 .. (width - 1) : sets[b] = sets[a] => b = a
    <3>1. \A a \in 0 .. (width - 1) :
             \/ a \in 0 .. (m - 1) /\ sets[a] = InPlace(a) /\ InPlace(a) \in 0 .. (n - 1)
             \/ /\ a - m \in 0 .. (m - 1) /\ InPlace(a - m) \in 0 .. (n - 1)
                /\ sets[a] = n + InPlace(a - m) /\ ~(a < m)
      <4> SUFFICES ASSUME NEW a \in 0 .. (width - 1)
                   PROVE  \/ /\ a \in 0 .. (m - 1) /\ sets[a] = InPlace(a)
                             /\ InPlace(a) \in 0 .. (n - 1)
                          \/ /\ a - m \in 0 .. (m - 1) /\ InPlace(a - m) \in 0 .. (n - 1)
                             /\ sets[a] = n + InPlace(a - m) /\ ~(a < m)
        OBVIOUS
      <4>1. \A b \in 0 .. (m - 1) : InPlace(b) \in 0 .. (n - 1)
        BY <2>2 DEF CondSets
      <4>2. CASE a < m
        <5>1. a \in 0 .. (m - 1)
          BY <2>2, <2>7, <4>2
        <5>2. QED BY <2>6, <4>1, <5>1
      <4>3. CASE ~(a < m)
        <5>1. call.twin /\ a - m \in 0 .. (m - 1) /\ m + (a - m) = a
          BY <2>2, <2>7, <4>3
        <5>2. QED BY <2>6, <4>1, <4>3, <5>1
      <4>4. QED BY <4>2, <4>3
    <3>2. \A x, y \in 0 .. (n - 1) : x # n + y
      BY <1>2 DEF n
    <3>3. \A a, b \in 0 .. (m - 1) : InPlace(a) = InPlace(b) => a = b
      BY <2>2
    <3>4. ASSUME NEW a \in 0 .. (width - 1), NEW b \in 0 .. (width - 1), sets[b] = sets[a]
          PROVE  b = a
      <4>1. CASE a \in 0 .. (m - 1) /\ sets[a] = InPlace(a) /\ InPlace(a) \in 0 .. (n - 1)
        BY <3>1, <3>2, <3>3, <3>4, <4>1
      <4>2. CASE /\ a - m \in 0 .. (m - 1) /\ InPlace(a - m) \in 0 .. (n - 1)
                 /\ sets[a] = n + InPlace(a - m) /\ ~(a < m)
        <5>1. /\ b - m \in 0 .. (m - 1) /\ InPlace(b - m) \in 0 .. (n - 1)
              /\ sets[b] = n + InPlace(b - m)
          BY <3>1, <3>2, <3>4, <4>2
        <5>2. InPlace(a - m) = InPlace(b - m)
          <6>1. \A x, y \in 0 .. (n - 1) : n + x = n + y => x = y
            BY <1>2 DEF n
          <6>2. QED BY <3>4, <4>2, <5>1, <6>1
        <5>3. a - m = b - m
          BY <3>3, <4>2, <5>1, <5>2
        <5>4. QED BY <2>2, <2>7, <5>3
      <4>3. QED BY <3>1, <4>1, <4>2
    <3>5. QED BY <3>4
  <2>9. KvOK(K) /\ \A a \in 0 .. (width - 1) : K[sets[a]] = Append(kv[sets[a]], toks[a])
    <3>1. Appended(K, toks, sets, width)
      BY <1>1, <1>4, <2>4, <2>5, <2>7, ForwardBatchOK
    <3> HIDE DEF K
    <3>2. QED BY <2>8, <3>1 DEF Appended
  <2> HIDE DEF K
  <2>10. \A i \in Active(seqs) :
            /\ Forwarded(i)
            /\ src[i] = <<kv'[i], IF call.twin THEN kv'[call.n + i] ELSE <<>> >>
    <3> SUFFICES ASSUME NEW i \in Active(seqs)
                 PROVE  /\ Forwarded(i)
                        /\ src[i] = <<kv'[i], IF call.twin THEN kv'[call.n + i] ELSE <<>> >>
      OBVIOUS
    <3> DEFINE a == Place(i)
    <3>1. a \in 0 .. (m - 1) /\ InPlace(a) = i /\ i \in DOMAIN seqs
      BY <1>2, <2>2
    <3>2. /\ sets[a] = i /\ toks[a] = seqs[i].last
          /\ call.twin => sets[m + a] = n + i /\ toks[m + a] = seqs[i].last
      BY <2>6, <3>1
    <3>3. a \in 0 .. (width - 1) /\ (call.twin => m + a \in 0 .. (width - 1))
      BY <2>2, <2>7, <3>1
    <3>4. /\ K[i] = Append(kv[i], seqs[i].last) /\ K[sets[a]] = K[i]
          /\ call.twin => /\ K[n + i] = Append(kv[n + i], seqs[i].last)
                          /\ K[sets[m + a]] = K[n + i]
      BY <2>9, <3>2, <3>3
    <3>5. src[i] = <<K[sets[a]], IF call.twin THEN K[sets[m + a]] ELSE <<>> >>
      BY <3>1 DEF m
    <3>6. QED BY <2>1, <3>4, <3>5 DEF Forwarded, n
  <2>11. batch_tokens' \in [Slot -> Token] /\ batch_sets' \in [Slot -> Set] /\ step' \in Nat
    BY <1>1, <2>1, <2>4, <2>5
  <2>12. KvOK(kv') /\ {"text", "im_end"} \subseteq Choice
    BY <2>1, <2>9 DEF Choice
  <2> HIDE DEF src
  <2>13. QED BY <1>1, <2>1, <2>10, <2>11, <2>12, SampleInv
<1>5. QED BY <1>3, <1>4

-----------------------------------------------------------------------------
(***************************************************************************)
(* Starting a batch                                                        *)
(***************************************************************************)
\* The sets of the call are reset before it prefills.
LEMMA FreshOK ==
    ASSUME IInv, NEW c \in Calls
    PROVE  /\ KvOK(Reset(kv, SetsOf(c))) /\ c.n \in 1 .. MaxBatch
           /\ \A x \in CondSets(c.n) : Reset(kv, SetsOf(c))[x] = <<>>
           /\ c.twin => \A x \in UncondSets(c.n) : Reset(kv, SetsOf(c))[x] = <<>>
<1>1. c.n \in 1 .. MaxBatch
  BY DEF Calls
<1>2. /\ KvOK(Reset(kv, SetsOf(c)))
      /\ \A x \in Set : Reset(kv, SetsOf(c))[x] = IF x \in SetsOf(c) THEN <<>> ELSE kv[x]
  BY KvFacts, ResetOK
<1>3. CondSets(c.n) \subseteq Set /\ UncondSets(c.n) \subseteq Set
  BY <1>1, CallSets
<1>4. CondSets(c.n) \subseteq SetsOf(c) /\ (c.twin => UncondSets(c.n) \subseteq SetsOf(c))
  BY DEF SetsOf
<1>5. QED BY <1>1, <1>2, <1>3, <1>4

\* Whichever way the prompts got into their sets.
LEMMA PrefilledInv ==
    ASSUME IInv, NEW c \in Calls, NEW prompts \in [CondSets(c.n) -> Seq(Token)], NEW K, KvOK(K),
           \A x \in Set : x \notin CondSets(c.n) => K[x] = Reset(kv, SetsOf(c))[x],
           \A i \in CondSets(c.n) : Len(prompts[i]) <= MaxSeq => K[i] = prompts[i],
           NEW choices, choices \subseteq Choice,
           StartDecode(c, prompts, PrefillTwins(K, c), choices),
           batchPc' \in {"fill", "codes"}, UNCHANGED <<batch_tokens, batch_sets>>
    PROVE  IInv'
<1> DEFINE P == PrefillTwins(K, c)
<1>1. c.n \in 1 .. MaxBatch /\ CondSets(c.n) \cap UncondSets(c.n) = {} /\ UncondSets(c.n) \subseteq Set
  BY FreshOK, CallSets
<1>2. c.twin => \A x \in UncondSets(c.n) : K[x] = <<>>
  BY <1>1, FreshOK
<1>3. /\ KvOK(P)
      /\ \A i \in CondSets(c.n) : P[i] = K[i]
      /\ c.twin /\ UncondLen <= MaxSeq => \A i \in CondSets(c.n) : P[c.n + i] = Uncond
  BY <1>1, <1>2, TwinsOK
<1> HIDE DEF P
<1>4. StartDecode(c, prompts, P, choices)
  BY DEF P
<1>5. \A i \in CondSets(c.n) : Len(prompts[i]) <= MaxSeq => P[i] = prompts[i]
  BY <1>3
<1>6. QED BY <1>3, <1>4, <1>5, StartInv

LEMMA StartFillInv ==
    ASSUME IInv, NEW c \in Calls, NEW len \in CondLen, StartFill(c, len)
    PROVE  IInv'
<1> DEFINE prompt == Prompt("prompt", 0, len)
           R == Reset(kv, SetsOf(c))
           S == CondSets(c.n)
           K == PrefillShared(R, 0, prompt, S)
           prompts == [i \in CondSets(c.n) |-> prompt]
<1>1. prompt \in Seq(Token)
  BY PromptOK, LmBatchAssumption
<1>2. KvOK(R) /\ R[0] = <<>> /\ 0 \in S /\ 0 \in Set
  BY FreshOK, CallSets
<1>3. /\ StartDecode(c, prompts, PrefillTwins(K, c), Choice)
      /\ batchPc' = "fill" /\ UNCHANGED <<batch_tokens, batch_sets>>
  BY DEF StartFill
<1>4. K = PrefillShared(R, 0, prompt, S \ {0})
  BY DEF PrefillShared
<1>5. prompts \in [CondSets(c.n) -> Seq(Token)] /\ \A i \in CondSets(c.n) : prompts[i] = prompt
  BY <1>1
<1> HIDE DEF prompt, R
<1>6. Filled(PrefillShared(R, 0, prompt, S \ {0}), R, S, prompt)
  <2> HIDE DEF S
  <2>1. QED BY <1>1, <1>2, SharedOK
<1>7. Filled(K, R, S, prompt)
  BY <1>4, <1>6
<1> HIDE DEF K, prompts
<1>8. S \subseteq Set
  BY FreshOK, CallSets
<1>9. /\ KvOK(K) /\ \A x \in Set : x \notin CondSets(c.n) => K[x] = Reset(kv, SetsOf(c))[x]
      /\ \A i \in CondSets(c.n) : Len(prompts[i]) <= MaxSeq => K[i] = prompts[i]
  BY <1>5, <1>7, <1>8 DEF Filled, R
<1>10. QED BY <1>3, <1>5, <1>9, PrefilledInv

LEMMA StartCodesInv ==
    ASSUME IInv, NEW c \in Calls, NEW len \in [CondSets(c.n) -> CondLen], StartCodes(c, len)
    PROVE  IInv'
<1> DEFINE shared == batchPc = "idle" \/ c.n = 1
           prompts == [i \in CondSets(c.n) |-> Prompt("cot", IF shared THEN 0 ELSE i + 1, len[i])]
           R == Reset(kv, SetsOf(c))
           S == CondSets(c.n)
           K == IF shared THEN PrefillShared(R, 0, prompts[0], S) ELSE PrefillEach(R, prompts)
<1>1. /\ KvOK(R) /\ 0 \in S /\ 0 \in Set /\ S \subseteq Set /\ c.n \in 1 .. MaxBatch
      /\ \A x \in S : R[x] = <<>>
      /\ \A i \in S : i \in Nat
  BY FreshOK, CallSets
<1>2. prompts \in [CondSets(c.n) -> Seq(Token)]
  <2>1. \A i \in CondSets(c.n) : Prompt("cot", IF shared THEN 0 ELSE i + 1, len[i]) \in Seq(Token)
    <3> SUFFICES ASSUME NEW i \in CondSets(c.n)
                 PROVE  Prompt("cot", IF shared THEN 0 ELSE i + 1, len[i]) \in Seq(Token)
      OBVIOUS
    <3> DEFINE owner == IF shared THEN 0 ELSE i + 1
    <3>1. owner \in Nat /\ len[i] \in Nat
      BY <1>1, LmBatchAssumption
    <3> HIDE DEF owner
    <3>2. Prompt("cot", owner, len[i]) \in Seq(Token)
      BY <3>1, PromptOK
    <3>3. QED BY <3>2 DEF owner
  <2>2. QED BY <2>1
<1>3. /\ StartDecode(c, prompts, PrefillTwins(K, c), {"text", "im_end"})
      /\ batchPc' = "codes" /\ UNCHANGED <<batch_tokens, batch_sets>>
      /\ shared => \A i \in CondSets(c.n) : len[i] = len[0]
  BY DEF StartCodes
<1>4. shared => \A i \in CondSets(c.n) : prompts[i] = prompts[0]
  BY <1>1, <1>3
<1> HIDE DEF R, prompts
<1>5. /\ KvOK(K) /\ \A x \in Set : x \notin CondSets(c.n) => K[x] = R[x]
      /\ \A i \in CondSets(c.n) : Len(prompts[i]) <= MaxSeq => K[i] = prompts[i]
  <2>1. CASE shared
    <3>1. PICK p \in Seq(Token) : p = prompts[0]
      BY <1>1, <1>2
    <3>2. K = PrefillShared(R, 0, p, S \ {0})
      BY <2>1, <3>1 DEF PrefillShared
    <3>3. Filled(PrefillShared(R, 0, p, S \ {0}), R, S, p)
      <4> HIDE DEF S
      <4>1. R[0] = <<>>
        BY <1>1
      <4>2. QED BY <1>1, <4>1, SharedOK
    <3> HIDE DEF K
    <3>4. QED BY <1>1, <1>4, <2>1, <3>1, <3>2, <3>3 DEF Filled
  <2>2. CASE ~shared
    <3>1. PICK n \in 1 .. MaxBatch : n = c.n
      BY <1>1
    <3> DEFINE P == PrefillEach(R, prompts)
    <3>2. EachFilled(P, R, n, prompts)
      <4>1. prompts \in [CondSets(n) -> Seq(Token)] /\ \A x \in CondSets(n) : R[x] = <<>>
        BY <1>1, <1>2, <3>1
      <4>2. QED BY <1>1, <4>1, EachOK
    <3> HIDE DEF P
    <3>3. K = P
      BY <2>2 DEF P
    <3>4. QED BY <3>1, <3>2, <3>3 DEF EachFilled
  <2>3. QED BY <2>1, <2>2
<1> HIDE DEF K
<1>6. {"text", "im_end"} \subseteq Choice
  BY DEF Choice
<1>7. QED BY <1>2, <1>3, <1>5, <1>6, PrefilledInv DEF R

-----------------------------------------------------------------------------
(***************************************************************************)
(* /understand                                                             *)
(***************************************************************************)
LEMMA StartTextInv ==
    ASSUME IInv, NEW len \in CondLen, StartText(len)
    PROVE  IInv'
<1> DEFINE prompt == Prompt("prompt", 0, len)
<1>1. PICK p \in Seq(Token), e \in Seq(Token) : p = prompt /\ e = <<>>
  BY PromptOK, EmptyFacts, LmBatchAssumption
<1>2. 0 \in Set /\ 0 \in 0 .. (MaxBatch - 1) /\ 1 \in 0 .. MaxBatch /\ Zero \in Token /\ Zero.t = "text"
  BY LmBatchAssumption DEF Set, Zero, Token
<1> DEFINE q == [prompt |-> p, gen |-> e, last |-> Zero, done |-> FALSE]
           R == Reset(kv, {0})
<1>3. /\ batchPc' = "text" /\ call' = [NoCall EXCEPT !.n = 1, !.lyrics = TRUE]
      /\ kv' = Forward(R, 0, p) /\ seqs' = [i \in {0} |-> q]
      /\ seen' = [i \in {0} |-> << <<>>, <<>> >>] /\ n_active' = 1 /\ step' = 0
      /\ UNCHANGED <<batch_tokens, batch_sets>>
  BY <1>1 DEF StartText
<1>4. /\ q \in Sequence /\ q.gen = <<>> /\ q.prompt = p /\ q.last = Zero /\ ~q.done
  BY <1>1, <1>2 DEF Sequence
<1> HIDE DEF q
<1>5. /\ DOMAIN seqs' = {0} /\ DOMAIN seen' = {0} /\ seqs'[0] = q
      /\ call'.n = 1 /\ ~call'.twin /\ call'.lyrics /\ call' \in CallRecord
  BY <1>2, <1>3 DEF NoCall, CallRecord
<1>6. KvOK(R) /\ R[0] = <<>>
  BY <1>2, KvFacts, ResetOK
<1> HIDE DEF R
<1>7. /\ KvOK(kv')
      /\ kv'[0] = IF Len(R[0]) + Len(p) > MaxSeq THEN R[0] ELSE R[0] \o p
  BY <1>2, <1>3, <1>6, ForwardOK
<1>8. BatchTypeOK'
  <2>1. kv' \in [Set -> Seq(Token)]
    BY <1>7 DEF KvOK
  <2>2. Active(seqs') = {0}
    BY <1>4, <1>5 DEF Active
  <2>3. n_active' = Cardinality(Active(seqs'))
    BY <1>3, <2>2, FS_Singleton
  <2>4. batch_tokens' \in [Slot -> Token] /\ batch_sets' \in [Slot -> Set]
    BY <1>3, KvFacts
  <2>5. \A i \in DOMAIN seqs' : seqs'[i] \in Sequence
    BY <1>4, <1>5
  <2>6. DOMAIN seqs' \subseteq 0 .. (MaxBatch - 1) /\ DOMAIN seen' = DOMAIN seqs'
    BY <1>2, <1>5
  <2>7. QED BY <1>3, <1>5, <2>1, <2>3, <2>4, <2>5, <2>6
            DEF BatchTypeOK, Set, Slot, Token, Sequence, CallRecord
<1>9. SampledFromOwnHistory'
  BY <1>4, <1>5 DEF SampledFromOwnHistory, HasSampled
<1>10. KvInBounds'
  BY <1>7 DEF KvInBounds, KvOK, Set
<1>11. ShapeInv'
  BY <1>3, <1>5 DEF ShapeInv, CondSets
<1>12. KvInv'
  <2>1. Len(p \o <<>>) <= MaxSeq => kv'[0] = p \o <<>>
    <3>1. p \o <<>> = p /\ <<>> \o p = p /\ Len(<<>>) + Len(p) = Len(p) /\ Len(p) \in Nat
      BY ConcatEmptySeq, EmptyFacts
    <3>2. QED BY <1>6, <1>7, <3>1, EmptyFacts
  <2>2. TextKv(0)'
    BY <1>2, <1>4, <1>5, <2>1 DEF TextKv
  <2>3. QED BY <1>3, <1>5, <2>2 DEF KvInv, Active
<1>13. QED BY <1>8, <1>9, <1>10, <1>11, <1>12 DEF IInv

LEMMA TextStepInv ==
    ASSUME IInv, TextStep
    PROVE  IInv'
<1> DEFINE choices == {"text", "im_end"}
           q == seqs[0]
           r == seqs'[0]
<1>1. /\ BatchTypeOK /\ ShapeInv /\ KvInv /\ SampledFromOwnHistory /\ batchPc = "text"
      /\ KvOK(kv) /\ call \in CallRecord /\ step \in Nat /\ n_active > 0
  BY KvFacts DEF IInv, TextStep, BatchTypeOK
<1>2. call.n = 1 /\ ~call.twin /\ call.lyrics /\ DOMAIN seqs = {0}
  BY <1>1 DEF ShapeInv, CondSets
<1>3. Active(seqs) = {0} /\ ~q.done
  <2>1. Active(seqs) # {}
    <3>1. n_active = Cardinality(Active(seqs))
      BY <1>1 DEF BatchTypeOK
    <3>2. ASSUME Active(seqs) = {} PROVE FALSE
      <4>1. n_active = 0
        BY <3>1, <3>2, NoSequences
      <4>2. QED BY <1>1, <4>1
    <3>3. QED BY <3>2
  <2>2. QED BY <1>2, <2>1 DEF Active
<1>4. PICK ch \in [{0} -> choices] :
        seqs' = [i \in {0} |-> IF i \in {0} THEN Sampled(i, ch[i]) ELSE seqs[i]]
  BY <1>2, <1>3 DEF TextStep, Sample
<1>5. /\ DOMAIN seqs' = {0} /\ r = Sampled(0, ch[0]) /\ ch[0] \in Choice
  BY <1>4 DEF Choice
<1>6. /\ seen' = [i \in {0} |-> <<kv[0], <<>> >>]
      /\ n_active' = Cardinality(Active(seqs'))
      /\ kv' = IF r.done THEN kv ELSE Forward(kv, 0, <<r.last>>)
      /\ step' = step + 1 /\ UNCHANGED <<batchPc, call, batch_tokens, batch_sets>>
  <2>1. seen' = [i \in {0} |-> IF i \in {0} THEN [j \in {0} |-> <<kv[0], <<>> >>][i] ELSE seen[i]]
    BY <1>2, <1>3 DEF TextStep, Sample
  <2>2. QED BY <2>1 DEF TextStep, Sample
<1>7. /\ q \in Sequence /\ q.gen \in Seq(Token) /\ q.prompt \in Seq(Token) /\ TextKv(0)
  BY <1>1, <1>2, <1>3, TypedSequences DEF KvInv
<1>8. Wrote(r, q.gen) /\ r.prompt = q.prompt
  BY <1>3, <1>5, <1>7, SampledOK DEF TextKv
<1> HIDE DEF q, r, choices
<1>9. /\ r \in Sequence /\ r.last \in Token /\ <<r.last>> \in Seq(Token)
  BY <1>8 DEF Wrote, Sequence
<1>10. 0 \in Set /\ 0 \in 0 .. (MaxBatch - 1)
  BY LmBatchAssumption DEF Set
<1>11. /\ KvOK(Forward(kv, 0, <<r.last>>))
       /\ Forward(kv, 0, <<r.last>>)[0] =
             IF Len(kv[0]) + Len(<<r.last>>) > MaxSeq THEN kv[0] ELSE kv[0] \o <<r.last>>
  BY <1>1, <1>9, <1>10, ForwardOK
<1>12. KvOK(kv')
  BY <1>1, <1>6, <1>11
<1>13. BatchTypeOK'
  <2>1. kv' \in [Set -> Seq(Token)]
    BY <1>12 DEF KvOK
  <2>2. \A i \in DOMAIN seqs' : seqs'[i] \in Sequence
    BY <1>5, <1>9 DEF r
  <2>3. DOMAIN seqs' \subseteq 0 .. (MaxBatch - 1) /\ DOMAIN seen' = DOMAIN seqs'
    BY <1>5, <1>6, <1>10
  <2>4. batch_tokens' \in [Slot -> Token] /\ batch_sets' \in [Slot -> Set] /\ step' \in Nat
    BY <1>1, <1>6, KvFacts
  <2>5. call' \in CallRecord /\ batchPc' = "text"
    BY <1>1, <1>6
  <2>6. QED BY <1>6, <2>1, <2>2, <2>3, <2>4, <2>5
            DEF BatchTypeOK, Set, Slot, Token, Sequence, CallRecord
<1>14. KvInBounds'
  BY <1>12 DEF KvInBounds, KvOK, Set
<1>15. ShapeInv'
  BY <1>1, <1>2, <1>5, <1>6 DEF ShapeInv, CondSets
<1>16. SampledFromOwnHistory'
  <2> SUFFICES ASSUME Fits(0)'
               PROVE  seen'[0] = <<r.prompt \o Before(0)', <<>> >>
    BY <1>2, <1>5, <1>6 DEF SampledFromOwnHistory, r
  <2>1. Before(0)' = q.gen
    BY <1>8 DEF Before, BeforeOf, Wrote, r
  <2>2. Len(q.prompt \o q.gen) <= MaxSeq
    BY <1>1, <1>6, <1>8, <2>1 DEF Fits, r
  <2>3. kv[0] = q.prompt \o q.gen
    BY <1>7, <2>2 DEF TextKv, q
  <2>4. QED BY <1>6, <1>8, <2>1, <2>3
<1>17. KvInv'
  <2> SUFFICES ASSUME ~r.done PROVE TextKv(0)'
    BY <1>1, <1>5, <1>6 DEF KvInv, Active, r
  <2>1. r.last.t # "im_end" /\ r.gen = Append(q.gen, r.last)
    BY <1>8 DEF Wrote
  <2>2. PICK p \in Seq(Token), g \in Seq(Token), x \in Token :
          p = q.prompt /\ g = q.gen /\ x = r.last
    BY <1>7, <1>9
  <2>3. /\ p \o Append(g, x) = Append(p \o g, x) /\ Len(p \o Append(g, x)) = Len(p \o g) + 1
        /\ p \o g \in Seq(Token)
    BY <2>2, TokenAppend
  <2>4. PICK h \in Seq(Token) : h = p \o g
    BY <2>3
  <2>5. Append(h, x) = h \o <<x>> /\ Len(h) \in Nat /\ Len(<<x>>) = 1
    BY AppendFacts
  <2>6. ASSUME Len(p \o Append(g, x)) <= MaxSeq
        PROVE  kv'[0] = p \o Append(g, x)
    <3>1. Len(h) + 1 <= MaxSeq
      BY <2>3, <2>4, <2>6
    <3>2. Len(q.prompt \o q.gen) <= MaxSeq
      <4>1. Len(h) <= MaxSeq
        BY <2>5, <3>1, EmptyFacts
      <4>2. q.prompt \o q.gen = h
        BY <2>2, <2>4
      <4>3. QED BY <4>1, <4>2
    <3>3. kv[0] = h
      BY <1>7, <2>2, <2>4, <3>2 DEF TextKv, q
    <3>4. kv'[0] = IF Len(h) + Len(<<x>>) > MaxSeq THEN h ELSE h \o <<x>>
      BY <1>6, <1>11, <2>2, <3>3
    <3>5. ~(Len(h) + Len(<<x>>) > MaxSeq)
      BY <2>5, <3>1, EmptyFacts
    <3>6. QED BY <2>3, <2>4, <2>5, <3>4, <3>5
  <2>7. QED BY <1>8, <2>1, <2>2, <2>6 DEF TextKv, r
<1>18. QED BY <1>13, <1>14, <1>15, <1>16, <1>17 DEF IInv

-----------------------------------------------------------------------------
(***************************************************************************)
(* The theorem                                                             *)
(***************************************************************************)
LEMMA EndInv ==
    ASSUME IInv, FillEnd \/ CodesEnd \/ TextEnd \/ Cancel
    PROVE  IInv'
<1>1. KvOK(kv)
  BY KvFacts
<1>2. CASE FillEnd
  <2>1. PICK next \in {"idle", "filled"} : Leave(next)
    BY <1>2 DEF FillEnd
  <2>2. KvOK(kv')
    BY <1>1, <1>2, ResetOK DEF FillEnd
  <2>3. QED BY <2>1, <2>2, LeaveInv
<1>3. CASE CodesEnd \/ TextEnd \/ Cancel
  <2>1. Leave("idle") /\ UNCHANGED kv
    BY <1>3 DEF CodesEnd, TextEnd, Cancel
  <2>2. QED BY <1>1, <2>1, LeaveInv
<1>4. QED BY <1>2, <1>3

LEMMA StutterInv ==
    ASSUME IInv, UNCHANGED batchVars
    PROVE  IInv'
<1>1. BatchTypeOK' /\ KvInBounds' /\ ShapeInv'
  BY DEF IInv, BatchTypeOK, KvInBounds, ShapeInv, batchVars, Active, CondSets, Set, Slot, Token
<1>2. SampledFromOwnHistory'
  BY DEF IInv, SampledFromOwnHistory, batchVars, HasSampled, Fits, Before, Uncond, Prompt
<1>3. KvInv'
  BY DEF IInv, KvInv, BatchKv, TextKv, batchVars, Active, Fits, Before, BeforeOf, Uncond, Prompt
<1>4. QED BY <1>1, <1>2, <1>3 DEF IInv

LEMMA NextInv == IInv /\ [BatchNext]_batchVars => IInv'
<1> SUFFICES ASSUME IInv, [BatchNext]_batchVars PROVE IInv'
  OBVIOUS
<1>1. CASE \E c \in Calls : \E len \in CondLen : StartFill(c, len)
  BY <1>1, StartFillInv
<1>2. CASE \E c \in Calls : \E len \in [CondSets(c.n) -> CondLen] : StartCodes(c, len)
  BY <1>2, StartCodesInv
<1>3. CASE \E len \in CondLen : StartText(len)
  BY <1>3, StartTextInv
<1>4. CASE FillStep
  BY <1>4, FillStepInv
<1>5. CASE CodesStep
  BY <1>5, CodesStepInv
<1>6. CASE TextStep
  BY <1>6, TextStepInv
<1>7. CASE FillEnd \/ CodesEnd \/ TextEnd \/ Cancel
  BY <1>7, EndInv
<1>8. CASE UNCHANGED batchVars
  BY <1>8, StutterInv
<1>9. QED BY <1>1, <1>2, <1>3, <1>4, <1>5, <1>6, <1>7, <1>8 DEF BatchNext, Decoding

\* Every token a sequence samples comes from its own prompt and everything it
\* wrote before, guided by the unconditional prompt and the same tokens, whatever
\* the batch was compacted to and whatever an earlier call left in the shared
\* cache; and no KV set is written past its capacity (generate_phase1_batch,
\* run_phase2_batch, ace_understand_generate, qw3lm_forward_batch).
THEOREM SequencesNeverMix == BatchSpec => []SequencesStayApart
<1>1. BatchInit => IInv
  BY InitInv
<1>2. IInv /\ [BatchNext]_batchVars => IInv'
  BY NextInv
<1>3. IInv => SequencesStayApart
  BY DEF IInv, SequencesStayApart
<1>4. QED BY <1>1, <1>2, <1>3, PTL DEF BatchSpec
=============================================================================
