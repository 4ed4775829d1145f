------------------------- MODULE Namespaces_proofs --------------------------
(***************************************************************************)
(* Proofs about the identifiers, for texts of any length.                  *)
(***************************************************************************)
EXTENDS Namespaces, SequenceTheorems, WellFoundedInduction, TLAPS

-----------------------------------------------------------------------------
(* Induction over sets of numbers, and what FlattenSeq computes. *)

\* A nonempty set of numbers has a least one.
LEMMA LeastNumber ==
  ASSUME NEW T \in SUBSET Nat, T # {}
  PROVE  \E x \in T : \A y \in T : x <= y
<1> DEFINE R == OpToRel(<, Nat)
<1>1. IsWellFoundedOn(R, Nat)
  BY NatLessThanWellFounded
<1>2. \A x, y \in Nat : y < x => <<y, x>> \in R
  BY DEF OpToRel
<1> HIDE DEF R
<1>3. PICK x \in T : \A y \in T : ~ (<<y, x>> \in R)
  BY <1>1, WFMin
<1>4. x \in Nat /\ \A y \in T : y \in Nat
  BY <1>3
<1>5. \A y \in T : ~(y < x)
  BY <1>2, <1>3, <1>4
<1>6. \A y \in T : x <= y
  BY <1>4, <1>5
<1> QED
  BY <1>6

\* Induction, with the set of the numbers that have the property.
LEMMA NumberInduction ==
  ASSUME NEW T \in SUBSET Nat, 0 \in T, \A n \in T : n + 1 \in T
  PROVE  T = Nat
<1> SUFFICES ASSUME T # Nat
             PROVE  FALSE
  OBVIOUS
<1>1. PICK x \in Nat \ T : \A y \in Nat \ T : x <= y
  BY LeastNumber
<1>2. x # 0 /\ x - 1 \in Nat /\ x = (x - 1) + 1
  BY <1>1
<1>3. x - 1 \in T
  BY <1>1, <1>2
<1> QED
  BY <1>1, <1>2, <1>3

\* The sums of a sequence of sequences, one by one.
IsFlattening(f, seqs) ==
  f = [i \in 1..Len(seqs) |-> IF i = 1 THEN seqs[i] ELSE f[i - 1] \o seqs[i]]

\* The recursion of FlattenSeq has a solution, and it is what FlattenSeq takes.
LEMMA FlatteningExists ==
  ASSUME NEW S, NEW seqs \in Seq(S)
  PROVE  \E f : IsFlattening(f, seqs)
<1> DEFINE Upto(g, n) == g = [i \in 1..n |-> IF i = 1 THEN seqs[i] ELSE g[i - 1] \o seqs[i]]
           T == {n \in Nat : \E g : Upto(g, n)}
<1>1. 0 \in T
  <2>1. Upto([i \in 1..0 |-> 0], 0)
    OBVIOUS
  <2> QED
    BY <2>1
<1>2. ASSUME NEW n \in T
      PROVE  n + 1 \in T
  <2>1. PICK g : Upto(g, n)
    BY <1>2
  <2> DEFINE h == [i \in 1..(n + 1) |->
                     IF i = n + 1 THEN IF i = 1 THEN seqs[i] ELSE g[i - 1] \o seqs[i] ELSE g[i]]
  <2>2. n \in Nat
    BY <1>2
  <2>3. \A i \in 1..(n + 1) : h[i] = IF i = 1 THEN seqs[i] ELSE h[i - 1] \o seqs[i]
    <3>1. ASSUME NEW i \in 1..n
          PROVE  g[i] = IF i = 1 THEN seqs[i] ELSE g[i - 1] \o seqs[i]
      BY <2>1
    <3>2. \A i \in 1..n : h[i] = g[i]
      BY <2>2
    <3>3. h[n + 1] = IF n + 1 = 1 THEN seqs[n + 1] ELSE g[n] \o seqs[n + 1]
      BY <2>2
    <3> HIDE DEF h, Upto
    <3>4. ASSUME NEW i \in 1..n
          PROVE  h[i] = IF i = 1 THEN seqs[i] ELSE h[i - 1] \o seqs[i]
      <4>1. i # 1 => i - 1 \in 1..n
        BY <2>2, <3>4
      <4> QED
        BY <3>1, <3>2, <4>1
    <3>5. h[n + 1] = IF n + 1 = 1 THEN seqs[n + 1] ELSE h[n + 1 - 1] \o seqs[n + 1]
      BY <2>2, <3>2, <3>3
    <3> DEFINE sum(i) == IF i = 1 THEN seqs[i] ELSE h[i - 1] \o seqs[i]
    <3>6. (\A i \in 1..n : h[i] = sum(i)) /\ h[n + 1] = sum(n + 1)
      BY <3>4, <3>5
    <3>7. \A i \in 1..(n + 1) : i \in 1..n \/ i = n + 1
      BY <2>2
    <3> HIDE DEF sum
    <3>8. \A i \in 1..(n + 1) : h[i] = sum(i)
      BY <3>6, <3>7
    <3> QED
      BY <3>8 DEF sum
  <2>4. h = [i \in 1..(n + 1) |-> h[i]]
    OBVIOUS
  <2> HIDE DEF h
  <2>5. Upto(h, n + 1)
    BY <2>3, <2>4
  <2> HIDE DEF Upto
  <2> QED
    BY <2>2, <2>5
<1>3. T \in SUBSET Nat
  OBVIOUS
<1> HIDE DEF T
<1>4. T = Nat
  BY <1>1, <1>2, <1>3, NumberInduction
<1>5. Len(seqs) \in T
  BY <1>4
<1> QED
  BY <1>5 DEF T, IsFlattening

LEMMA FlattenSeqIs ==
  ASSUME NEW S, NEW seqs \in Seq(S), Len(seqs) # 0
  PROVE  \E f : IsFlattening(f, seqs) /\ FlattenSeq(seqs) = f[Len(seqs)]
<1> DEFINE f[i \in 1..Len(seqs)] == IF i = 1 THEN seqs[i] ELSE f[i - 1] \o seqs[i]
<1>1. FlattenSeq(seqs) = f[Len(seqs)]
  BY DEF FlattenSeq
<1>2. f = CHOOSE g : IsFlattening(g, seqs)
  BY DEF IsFlattening
<1> HIDE DEF f
<1>3. IsFlattening(f, seqs)
  BY <1>2, FlatteningExists
<1> QED
  BY <1>1, <1>3

LEMMA FlatteningSteps ==
  ASSUME NEW S, NEW seqs \in Seq(S), NEW f, IsFlattening(f, seqs)
  PROVE  /\ Len(seqs) # 0 => f[1] = seqs[1]
         /\ \A n \in 1..Len(seqs) : n + 1 <= Len(seqs) => f[n + 1] = f[n] \o seqs[n + 1]
<1>1. \A i \in 1..Len(seqs) : f[i] = IF i = 1 THEN seqs[i] ELSE f[i - 1] \o seqs[i]
  <2> DEFINE L == Len(seqs)
             g == [i \in 1..L |-> IF i = 1 THEN seqs[i] ELSE f[i - 1] \o seqs[i]]
  <2>1. f = g
    BY DEF IsFlattening
  <2>2. \A i \in 1..L : g[i] = IF i = 1 THEN seqs[i] ELSE f[i - 1] \o seqs[i]
    OBVIOUS
  <2> HIDE DEF g
  <2> QED
    BY <2>1, <2>2
<1>2. Len(seqs) \in Nat
  OBVIOUS
<1>3. Len(seqs) # 0 => f[1] = seqs[1]
  BY <1>1, <1>2
<1>4. ASSUME NEW n \in 1..Len(seqs), n + 1 <= Len(seqs)
      PROVE  f[n + 1] = f[n] \o seqs[n + 1]
  <2>1. n + 1 \in 1..Len(seqs) /\ n + 1 # 1 /\ (n + 1) - 1 = n
    BY <1>2, <1>4
  <2> QED
    BY <1>1, <2>1
<1> QED
  BY <1>3, <1>4

\* Any solution is made of sequences, and of the same ones.
LEMMA FlatteningType ==
  ASSUME NEW S, NEW seqs \in Seq(Seq(S)), NEW f, IsFlattening(f, seqs)
  PROVE  \A k \in 1..Len(seqs) : f[k] \in Seq(S)
<1> DEFINE L == Len(seqs)
           T == {n \in Nat : n \in 1..L => f[n] \in Seq(S)}
<1>1. /\ L \in Nat
      /\ \A i \in 1..L : seqs[i] \in Seq(S)
      /\ L # 0 => f[1] = seqs[1]
      /\ \A n \in 1..L : n + 1 <= L => f[n + 1] = f[n] \o seqs[n + 1]
  <2>1. L \in Nat /\ \A i \in 1..L : seqs[i] \in Seq(S)
    OBVIOUS
  <2>2. /\ L # 0 => f[1] = seqs[1]
        /\ \A n \in 1..L : n + 1 <= L => f[n + 1] = f[n] \o seqs[n + 1]
    BY FlatteningSteps, Zenon
  <2> QED
    BY <2>1, <2>2
<1> HIDE DEF L
<1>2. ASSUME NEW n \in T
      PROVE  n + 1 \in T
  <2>1. SUFFICES ASSUME n + 1 \in 1..L
                 PROVE  f[n + 1] \in Seq(S)
    BY <1>2
  <2>2. n \in Nat
    BY <1>2
  <2>3. CASE n = 0
    BY <1>1, <2>1, <2>3
  <2>4. CASE n # 0
    <3>1. n \in 1..L /\ n + 1 <= L
      BY <1>1, <2>1, <2>2, <2>4
    <3>2. f[n] \in Seq(S) /\ seqs[n + 1] \in Seq(S)
      BY <1>1, <1>2, <2>1, <3>1
    <3>3. f[n] \o seqs[n + 1] \in Seq(S)
      BY <3>2, ConcatProperties
    <3> QED
      BY <1>1, <3>1, <3>3
  <2> QED
    BY <2>3, <2>4
<1>3. 0 \in T /\ T \in SUBSET Nat
  BY <1>1
<1> HIDE DEF T
<1>4. T = Nat
  BY <1>2, <1>3, NumberInduction
<1>5. \A k \in 1..L : k \in Nat /\ f[k] \in Seq(S)
  BY <1>1, <1>4 DEF T
<1> QED
  BY <1>5 DEF L

LEMMA FlatteningsAgree ==
  ASSUME NEW S, NEW s \in Seq(S), NEW t \in Seq(S), Len(s) <= Len(t),
         \A i \in 1..Len(s) : s[i] = t[i],
         NEW f, IsFlattening(f, s), NEW g, IsFlattening(g, t)
  PROVE  \A k \in 1..Len(s) : f[k] = g[k]
<1> DEFINE L == Len(s)
           T == {n \in Nat : n \in 1..L => f[n] = g[n]}
<1>1. /\ L \in Nat
      /\ \A i \in 1..L : s[i] = t[i]
      /\ L # 0 => f[1] = s[1]
      /\ \A n \in 1..L : n + 1 <= L => f[n + 1] = f[n] \o s[n + 1]
  <2>1. L \in Nat /\ \A i \in 1..L : s[i] = t[i]
    OBVIOUS
  <2>2. /\ L # 0 => f[1] = s[1]
        /\ \A n \in 1..L : n + 1 <= L => f[n + 1] = f[n] \o s[n + 1]
    BY FlatteningSteps, Zenon
  <2> QED
    BY <2>1, <2>2
<1>2. /\ L # 0 => g[1] = t[1]
      /\ \A n \in 1..L : n + 1 <= L => g[n + 1] = g[n] \o t[n + 1]
  <2>1. /\ Len(t) # 0 => g[1] = t[1]
        /\ \A n \in 1..Len(t) : n + 1 <= Len(t) => g[n + 1] = g[n] \o t[n + 1]
    BY FlatteningSteps, Zenon
  <2>2. Len(t) \in Nat /\ L <= Len(t)
    OBVIOUS
  <2> HIDE DEF L
  <2>3. L # 0 => g[1] = t[1]
    BY <1>1, <2>1, <2>2
  <2>4. ASSUME NEW n \in 1..L, n + 1 <= L
        PROVE  g[n + 1] = g[n] \o t[n + 1]
    <3>1. n \in 1..Len(t) /\ n + 1 <= Len(t)
      BY <1>1, <2>2, <2>4
    <3> QED
      BY <2>1, <3>1
  <2> QED
    BY <2>3, <2>4
<1> HIDE DEF L
<1>3. ASSUME NEW n \in T
      PROVE  n + 1 \in T
  <2>1. SUFFICES ASSUME n + 1 \in 1..L
                 PROVE  f[n + 1] = g[n + 1]
    BY <1>3
  <2>2. n \in Nat
    BY <1>3
  <2>3. CASE n = 0
    BY <1>1, <1>2, <2>1, <2>3
  <2>4. CASE n # 0
    <3>1. n \in 1..L /\ n + 1 <= L
      BY <1>1, <2>1, <2>2, <2>4
    <3>2. f[n] = g[n] /\ s[n + 1] = t[n + 1]
      BY <1>1, <1>3, <2>1, <3>1
    <3> QED
      BY <1>1, <1>2, <3>1, <3>2
  <2> QED
    BY <2>3, <2>4
<1>4. 0 \in T /\ T \in SUBSET Nat
  BY <1>1
<1> HIDE DEF T
<1>5. T = Nat
  BY <1>3, <1>4, NumberInduction
<1>6. \A k \in 1..L : k \in Nat /\ f[k] = g[k]
  BY <1>1, <1>5 DEF T
<1> QED
  BY <1>6 DEF L

\* What FlattenSeq computes, for sequences of any length.
LEMMA FlattenEmpty == FlattenSeq(<<>>) = <<>>
BY DEF FlattenSeq

LEMMA FlattenType ==
  ASSUME NEW S, NEW seqs \in Seq(Seq(S))
  PROVE  FlattenSeq(seqs) \in Seq(S)
<1>1. CASE Len(seqs) = 0
  <2>1. seqs = <<>>
    BY <1>1
  <2> QED
    BY <2>1, FlattenEmpty, EmptySeq
<1>2. CASE Len(seqs) # 0
  <2>1. PICK f : IsFlattening(f, seqs) /\ FlattenSeq(seqs) = f[Len(seqs)]
    BY <1>2, FlattenSeqIs
  <2>2. Len(seqs) \in 1..Len(seqs)
    BY <1>2
  <2> QED
    BY <2>1, <2>2, FlatteningType
<1> QED
  BY <1>1, <1>2

\* Sequences that are not empty do not flatten to the empty one.
LEMMA FlattenNonempty ==
  ASSUME NEW S, NEW seqs \in Seq(Seq(S)), seqs # <<>>, \A i \in 1..Len(seqs) : seqs[i] # <<>>
  PROVE  FlattenSeq(seqs) # <<>>
<1> DEFINE n == Len(seqs)
<1>1. n \in Nat /\ n # 0 /\ n \in 1..n /\ seqs[n] \in Seq(S) /\ seqs[n] # <<>>
  OBVIOUS
<1>2. PICK f : IsFlattening(f, seqs) /\ FlattenSeq(seqs) = f[n]
  BY <1>1, FlattenSeqIs
<1>3. \A k \in 1..n : f[k] \in Seq(S)
  BY <1>2, FlatteningType
<1>4. /\ n # 0 => f[1] = seqs[1]
      /\ \A k \in 1..n : k + 1 <= n => f[k + 1] = f[k] \o seqs[k + 1]
  BY <1>2, FlatteningSteps, Zenon
<1> HIDE DEF n
<1>5. CASE n = 1
  BY <1>1, <1>2, <1>4, <1>5
<1>6. CASE n # 1
  <2>1. PICK j \in 1..n : j + 1 = n
    <3>1. n - 1 \in 1..n /\ (n - 1) + 1 = n
      BY <1>1, <1>6
    <3> QED
      BY <3>1
  <2>2. f[n] = f[j] \o seqs[n] /\ f[j] \in Seq(S)
    <3>1. n <= n => f[n] = f[j] \o seqs[n]
      BY <1>4, <2>1, Zenon
    <3>2. n <= n
      BY <1>1
    <3>3. f[n] = f[j] \o seqs[n]
      BY <3>1, <3>2, Zenon
    <3> QED
      BY <1>3, <2>1, <3>3, Zenon
  <2>3. Len(f[n]) = Len(f[j]) + Len(seqs[n]) /\ Len(seqs[n]) # 0
    BY <1>1, <2>2
  <2> QED
    BY <1>2, <2>2, <2>3
<1> QED
  BY <1>5, <1>6

-----------------------------------------------------------------------------
(* Identifiers are sequences of tokens, within their limits. *)

\* The literals are words, which the provers do not know.
Words == STRING \cup {"-", "h", "d", "role", "squad", "dispatch"}
Tokens == Words \cup {Digest(text) : text \in Seq(Words)}

LEMMA WordsAndTokens ==
  /\ STRING \subseteq Words /\ Words \subseteq Tokens
  /\ {"-", "h", "d", "role", "squad", "dispatch"} \subseteq Words
BY DEF Words, Tokens

\* The maximum of a set of numbers with an upper bound.
LEMMA MaxOfNumbers ==
  ASSUME NEW T \in SUBSET Nat, T # {}, NEW n \in Nat, \A x \in T : x <= n
  PROVE  Max(T) \in T /\ \A x \in T : Max(T) >= x
<1> DEFINE U == {b \in Nat : \A x \in T : x <= b}
<1>1. U \in SUBSET Nat /\ n \in U
  OBVIOUS
<1>2. PICK b \in U : \A y \in U : b <= y
  BY <1>1, LeastNumber
<1>3. b \in Nat /\ \A x \in T : x <= b
  BY <1>2
<1>4. b \in T
  <2> SUFFICES ASSUME b \notin T
               PROVE  FALSE
    OBVIOUS
  <2>1. PICK x \in T : TRUE
    OBVIOUS
  <2>2. \A y \in T : y \in Nat /\ y <= b /\ y # b
    BY <1>3
  <2>3. b - 1 \in Nat /\ \A y \in T : y <= b - 1
    BY <1>3, <2>1, <2>2
  <2>4. b - 1 \in U
    BY <2>3
  <2> QED
    BY <1>2, <1>3, <2>4
<1> HIDE DEF U
<1>5. \E x \in T : \A y \in T : x >= y
  BY <1>3, <1>4
<1> QED
  BY <1>5 DEF Max

LEMMA StrippedType ==
  ASSUME NEW S, NEW text \in Seq(S)
  PROVE  Stripped(text) \in Seq(S) /\ Len(Stripped(text)) <= Len(text)
<1> DEFINE T == {i \in DOMAIN text : text[i] # "-"} \cup {0}
<1>1. T \in SUBSET Nat /\ T # {} /\ Len(text) \in Nat /\ \A i \in T : i <= Len(text)
  OBVIOUS
<1>2. Max(T) \in T
  BY <1>1, MaxOfNumbers
<1>3. Max(T) \in 0..Len(text) /\ Stripped(text) = SubSeq(text, 1, Max(T))
  BY <1>1, <1>2 DEF Stripped
<1> HIDE DEF T
<1> QED
  BY <1>3

LEMMA BoundedType ==
  ASSUME NEW text \in Seq(Words), NEW limit \in Nat, limit >= 2
  PROVE  /\ Bounded(text, limit) \in Seq(Tokens)
         /\ Len(Bounded(text, limit)) <= limit
         /\ text # <<>> => Bounded(text, limit) # <<>>
<1>1. CASE Len(text) <= limit
  <2>1. Bounded(text, limit) = text
    BY <1>1 DEF Bounded
  <2>2. text \in Seq(Tokens)
    BY WordsAndTokens, SeqMonotonic
  <2> QED
    BY <1>1, <2>1, <2>2
<1>2. CASE ~(Len(text) <= limit)
  <2> DEFINE cut == SubSeq(text, 1, limit - 2)
             t == Stripped(cut)
             digest == Digest(text)
  <2>1. cut \in Seq(Words) /\ Len(cut) = limit - 2
    BY <1>2
  <2>2. t \in Seq(Words) /\ Len(t) <= limit - 2
    BY <2>1, StrippedType
  <2>3. Bounded(text, limit) = t \o <<"-", digest>>
    BY <1>2 DEF Bounded
  <2>4. digest \in Tokens
    <3>1. digest \in {Digest(x) : x \in Seq(Words)}
      OBVIOUS
    <3> QED
      BY <3>1 DEF Tokens
  <2>5. Words \subseteq Tokens /\ "-" \in Tokens
    BY WordsAndTokens
  <2> HIDE DEF cut, t, digest
  <2>6. t \in Seq(Tokens) /\ <<"-", digest>> \in Seq(Tokens) /\ Len(<<"-", digest>>) = 2
    <3>1. t \in Seq(Tokens)
      BY <2>2, <2>5, SeqMonotonic
    <3>2. <<"-", digest>> \in Seq(Tokens) /\ Len(<<"-", digest>>) = 2
      BY <2>4, <2>5
    <3> QED
      BY <3>1, <3>2
  <2>7. /\ t \o <<"-", digest>> \in Seq(Tokens)
        /\ Len(t \o <<"-", digest>>) = Len(t) + 2
    BY <2>6, ConcatProperties
  <2> QED
    BY <2>2, <2>3, <2>6, <2>7
<1> QED
  BY <1>1, <1>2

LEMMA EscapedType ==
  ASSUME NEW text \in Seq(Words)
  PROVE  Escaped(text) \in Seq(Words) /\ (text # <<>> => Escaped(text) # <<>>)
<1> DEFINE e == [i \in DOMAIN text |-> Escape(text[i])]
<1>1. \A i \in DOMAIN text : text[i] \in Words
  OBVIOUS
<1>2. \A t \in Words : Escape(t) \in Seq(Words) /\ Escape(t) # <<>>
  BY WordsAndTokens DEF Escape
<1>3. Escaped(text) = FlattenSeq(e)
  BY DEF Escaped
<1>4. /\ e \in Seq(Seq(Words)) /\ Len(e) = Len(text)
      /\ \A i \in 1..Len(e) : e[i] # <<>>
  <2>1. DOMAIN text = 1..Len(text) /\ Len(text) \in Nat
    OBVIOUS
  <2>2. \A i \in 1..Len(text) : Escape(text[i]) \in Seq(Words) /\ Escape(text[i]) # <<>>
    BY <1>1, <1>2, <2>1
  <2>3. e = [i \in 1..Len(text) |-> Escape(text[i])]
    BY <2>1
  <2> HIDE DEF e
  <2>4. e \in Seq(Seq(Words)) /\ Len(e) = Len(text)
    BY <2>1, <2>2, <2>3, IsASeq
  <2> QED
    BY <2>2, <2>3, <2>4
<1> HIDE DEF e
<1>5. FlattenSeq(e) \in Seq(Words)
  BY <1>4, FlattenType
<1>6. text # <<>> => FlattenSeq(e) # <<>>
  <2> SUFFICES ASSUME text # <<>>
               PROVE  FlattenSeq(e) # <<>>
    OBVIOUS
  <2>1. e # <<>>
    BY <1>4
  <2> QED
    BY <1>4, <2>1, FlattenNonempty
<1> QED
  BY <1>3, <1>5, <1>6

LEMMA NamespaceType ==
  ASSUME NEW squad \in Seq(Words)
  PROVE  /\ ProviderNamespace(squad) \in Seq(Tokens)
         /\ Len(ProviderNamespace(squad)) \in 0..NamespaceLimit
         /\ squad # <<>> => ProviderNamespace(squad) # <<>>
<1>1. Escaped(squad) \in Seq(Words) /\ (squad # <<>> => Escaped(squad) # <<>>)
  BY EscapedType
<1>2. NamespaceLimit \in Nat /\ NamespaceLimit >= 2
  BY LimitsAssumption
<1>3. /\ ProviderNamespace(squad) \in Seq(Tokens)
      /\ Len(ProviderNamespace(squad)) <= NamespaceLimit
      /\ Escaped(squad) # <<>> => ProviderNamespace(squad) # <<>>
  BY <1>1, <1>2, BoundedType DEF ProviderNamespace
<1> QED
  BY <1>1, <1>2, <1>3

\* Whatever the ids of squad and role, their identifiers are sequences of tokens
\* that are not empty and keep to the limits of the providers.
THEOREM IdentifiersWithinLimits ==
  ASSUME NEW squad \in Seq(Words), NEW role \in Seq(Words)
  PROVE  /\ ProviderRoleId(squad, role) \in Seq(Tokens) \ {<<>>}
         /\ ProviderRoleSkillId(squad, role) \in Seq(Tokens) \ {<<>>}
         /\ ProviderDispatchSkillId(squad) \in Seq(Tokens) \ {<<>>}
         /\ Len(ProviderRoleId(squad, role)) <= IdentifierLimit
         /\ Len(ProviderRoleSkillId(squad, role)) <= IdentifierLimit
<1> DEFINE ns == ProviderNamespace(squad)
           b == Bounded(role, IdentifierLimit - Len(ns) - 2)
           c == Bounded(Escaped(role), IdentifierLimit - Len(ns) - 3)
<1>1. ns \in Seq(Tokens) /\ Len(ns) \in 0..NamespaceLimit
  BY NamespaceType
<1>2. /\ IdentifierLimit - Len(ns) - 2 \in Nat /\ IdentifierLimit - Len(ns) - 2 >= 2
      /\ IdentifierLimit - Len(ns) - 3 \in Nat /\ IdentifierLimit - Len(ns) - 3 >= 2
  BY <1>1, LimitsAssumption
<1>3. b \in Seq(Tokens) /\ Len(b) <= IdentifierLimit - Len(ns) - 2
  BY <1>2, BoundedType
<1>4. c \in Seq(Tokens) /\ Len(c) <= IdentifierLimit - Len(ns) - 3
  <2>1. Escaped(role) \in Seq(Words)
    BY EscapedType
  <2> QED
    BY <1>2, <2>1, BoundedType
<1>5. {"-", "role", "squad", "dispatch"} \subseteq Tokens
  BY WordsAndTokens
<1>6. /\ <<"-", "-">> \in Seq(Tokens) /\ <<"-", "role", "-">> \in Seq(Tokens)
      /\ <<"-", "squad", "-", "dispatch">> \in Seq(Tokens)
  BY <1>5
<1>7. /\ ProviderRoleId(squad, role) = (ns \o <<"-", "-">>) \o b
      /\ ProviderRoleSkillId(squad, role) = (ns \o <<"-", "role", "-">>) \o c
      /\ ProviderDispatchSkillId(squad) = ns \o <<"-", "squad", "-", "dispatch">>
  BY DEF ProviderRoleId, ProviderRoleSkillId, ProviderDispatchSkillId
<1> HIDE DEF ns, b, c
<1>8. /\ ns \o <<"-", "-">> \in Seq(Tokens) /\ Len(ns \o <<"-", "-">>) = Len(ns) + 2
      /\ ns \o <<"-", "role", "-">> \in Seq(Tokens)
      /\ Len(ns \o <<"-", "role", "-">>) = Len(ns) + 3
      /\ ns \o <<"-", "squad", "-", "dispatch">> \in Seq(Tokens)
      /\ Len(ns \o <<"-", "squad", "-", "dispatch">>) = Len(ns) + 4
  BY <1>1, <1>6
<1>9. \A x, y \in Seq(Tokens) : x \o y \in Seq(Tokens) /\ Len(x \o y) = Len(x) + Len(y)
  OBVIOUS
<1>10. /\ ProviderRoleId(squad, role) \in Seq(Tokens)
       /\ Len(ProviderRoleId(squad, role)) = (Len(ns) + 2) + Len(b)
       /\ ProviderRoleSkillId(squad, role) \in Seq(Tokens)
       /\ Len(ProviderRoleSkillId(squad, role)) = (Len(ns) + 3) + Len(c)
  BY <1>3, <1>4, <1>7, <1>8, <1>9
<1>11. /\ Len(b) \in Nat /\ Len(c) \in Nat /\ Len(ns) \in Nat
       /\ NamespaceLimit \in Nat /\ IdentifierLimit \in Nat
  BY <1>1, <1>3, <1>4, LimitsAssumption
<1>12. /\ Len(ProviderRoleId(squad, role)) \in 1..IdentifierLimit
       /\ Len(ProviderRoleSkillId(squad, role)) \in 1..IdentifierLimit
  BY <1>3, <1>4, <1>10, <1>11
<1>13. Len(<<>>) = 0
  OBVIOUS
<1> QED
  BY <1>1, <1>7, <1>8, <1>10, <1>11, <1>12, <1>13

-----------------------------------------------------------------------------
(* Escaped texts can be told apart, and no two have the same bounded form. *)

LEMMA FlattenLonger ==
  ASSUME NEW D, NEW s \in Seq(D), NEW t \in Seq(D), Len(t) = Len(s) + 1, Len(s) # 0,
         \A i \in 1..Len(s) : s[i] = t[i]
  PROVE  FlattenSeq(t) = FlattenSeq(s) \o t[Len(s) + 1]
<1>1. Len(s) \in Nat /\ Len(t) # 0 /\ Len(s) <= Len(t) /\ Len(s) \in 1..Len(s)
  OBVIOUS
<1>2. PICK f : IsFlattening(f, s) /\ FlattenSeq(s) = f[Len(s)]
  BY FlattenSeqIs
<1>3. PICK g : IsFlattening(g, t) /\ FlattenSeq(t) = g[Len(t)]
  BY <1>1, FlattenSeqIs
<1>4. f[Len(s)] = g[Len(s)]
  BY <1>1, <1>2, <1>3, FlatteningsAgree
<1>5. g[Len(s) + 1] = g[Len(s)] \o t[Len(s) + 1]
  <2>1. \A n \in 1..Len(t) : n + 1 <= Len(t) => g[n + 1] = g[n] \o t[n + 1]
    BY <1>3, FlatteningSteps, Zenon
  <2>2. Len(s) \in 1..Len(t) /\ Len(s) + 1 <= Len(t)
    BY <1>1
  <2> QED
    BY <2>1, <2>2
<1> QED
  BY <1>2, <1>3, <1>4, <1>5

LEMMA FlattenAppend ==
  ASSUME NEW S, NEW seqs \in Seq(Seq(S)), NEW s \in Seq(S)
  PROVE  FlattenSeq(Append(seqs, s)) = FlattenSeq(seqs) \o s
<1> DEFINE D == Seq(S)
           t == Append(seqs, s)
<1>1. seqs \in Seq(D) /\ s \in D
  OBVIOUS
<1> HIDE DEF D
<1>2. /\ t \in Seq(D) /\ Len(t) = Len(seqs) + 1 /\ Len(seqs) \in Nat
      /\ \A i \in 1..Len(seqs) : seqs[i] = t[i]
      /\ t[Len(seqs) + 1] = s
  BY <1>1
<1> HIDE DEF t
<1>3. CASE Len(seqs) = 0
  <2>1. seqs = <<>> /\ Len(t) # 0 /\ Len(t) = 1
    BY <1>1, <1>2, <1>3
  <2>2. FlattenSeq(seqs) \o s = s
    BY <2>1, FlattenEmpty, ConcatEmptySeq
  <2>3. PICK g : IsFlattening(g, t) /\ FlattenSeq(t) = g[Len(t)]
    BY <1>2, <2>1, FlattenSeqIs
  <2>4. g[1] = t[1]
    BY <1>2, <2>1, <2>3, FlatteningSteps
  <2> QED
    BY <1>2, <1>3, <2>1, <2>2, <2>3, <2>4 DEF t
<1>4. CASE Len(seqs) # 0
  <2>1. FlattenSeq(t) = FlattenSeq(seqs) \o t[Len(seqs) + 1]
    BY <1>1, <1>2, <1>4, FlattenLonger
  <2> QED
    BY <1>2, <2>1 DEF t
<1> QED
  BY <1>3, <1>4

-----------------------------------------------------------------------------
(* Escaping can be undone. *)

\* Two equal concatenations with parts of equal length have equal parts.
LEMMA EqualParts ==
  ASSUME NEW S, NEW a \in Seq(S), NEW b \in Seq(S), NEW s \in Seq(S), NEW t \in Seq(S),
         a \o s = b \o t, Len(a) = Len(b)
  PROVE  a = b /\ s = t
<1> DEFINE x == a \o s
           y == b \o t
<1>1. /\ Len(x) = Len(a) + Len(s) /\ Len(y) = Len(b) + Len(t)
      /\ \A i \in 1..Len(a) : x[i] = a[i]
      /\ \A i \in 1..Len(b) : y[i] = b[i]
      /\ \A i \in 1..Len(s) : x[Len(a) + i] = s[i]
      /\ \A i \in 1..Len(t) : y[Len(b) + i] = t[i]
  <2>1. /\ Len(x) = Len(a) + Len(s)
        /\ \A i \in 1..Len(a) : x[i] = a[i]
        /\ \A i \in 1..Len(s) : x[Len(a) + i] = s[i]
    BY ONLY a \in Seq(S), s \in Seq(S)
  <2>2. /\ Len(y) = Len(b) + Len(t)
        /\ \A i \in 1..Len(b) : y[i] = b[i]
        /\ \A i \in 1..Len(t) : y[Len(b) + i] = t[i]
    BY ONLY b \in Seq(S), t \in Seq(S)
  <2> QED
    BY <2>1, <2>2
<1>2. x = y
  OBVIOUS
<1> HIDE DEF x, y
<1>3. Len(s) = Len(t)
  BY <1>1, <1>2
<1>4. \A i \in 1..Len(a) : a[i] = b[i]
  BY <1>1, <1>2
<1>5. \A i \in 1..Len(s) : s[i] = t[i]
  BY <1>1, <1>2, <1>3
<1> QED
  BY <1>3, <1>4, <1>5, SeqEqual

\* A text is empty or has a last word.
LEMMA LastWord ==
  ASSUME NEW S, NEW x \in Seq(S), x # <<>>
  PROVE  \E y \in Seq(S), w \in S : x = Append(y, w) /\ Len(x) = Len(y) + 1
<1> DEFINE y == SubSeq(x, 1, Len(x) - 1)
           w == x[Len(x)]
<1>0. Len(x) \in Nat /\ Len(x) > 0
  OBVIOUS
<1>1. y \in Seq(S) /\ w \in S /\ Len(x) = Len(y) + 1 /\ \A i \in 1..Len(y) : y[i] = x[i]
  <2> DEFINE n == Len(x) - 1
  <2>1. n \in Nat /\ Len(x) = n + 1 /\ \A i \in 1..n : x[i] \in S
    BY <1>0
  <2>2. w \in S
    BY <1>0
  <2> HIDE DEF n, w
  <2>3. /\ SubSeq(x, 1, n) \in Seq(S)
        /\ Len(SubSeq(x, 1, n)) = IF 1 <= n THEN n - 1 + 1 ELSE 0
        /\ \A i \in 1..(n - 1 + 1) : SubSeq(x, 1, n)[i] = x[1 + i - 1]
    BY <2>1, SubSeqProperties
  <2>4. y = SubSeq(x, 1, n)
    BY DEF n
  <2> HIDE DEF y
  <2>5. Len(y) = n
    BY <2>1, <2>3, <2>4
  <2>6. \A i \in 1..n : i \in 1..(n - 1 + 1) /\ 1 + i - 1 = i
    BY <2>1
  <2> QED
    BY <2>1, <2>2, <2>3, <2>4, <2>5, <2>6
<1>2. x = Append(y, w)
  <2> DEFINE z == Append(y, w)
  <2>0. y \in Seq(S) /\ w \in S /\ Len(y) = Len(x) - 1 /\ Len(x) \in Nat /\ Len(x) > 0
        /\ \A i \in 1..Len(y) : y[i] = x[i]
    BY <1>0, <1>1
  <2> HIDE DEF y
  <2>2. z \in Seq(S) /\ Len(z) = Len(x) /\ z[Len(x)] = w /\ \A i \in 1..Len(y) : z[i] = y[i]
    BY <2>0
  <2> HIDE DEF z
  <2>1. \A i \in 1..Len(x) : x[i] = z[i]
    <3> SUFFICES ASSUME NEW i \in 1..Len(x)
                 PROVE  x[i] = z[i]
      OBVIOUS
    <3>1. CASE i = Len(x)
      BY <2>2, <3>1
    <3>2. CASE i # Len(x)
      <4>1. i \in 1..Len(y)
        BY <2>0, <3>2
      <4> QED
        BY <2>0, <2>2, <4>1
    <3> QED
      BY <3>1, <3>2
  <2> HIDE DEF z
  <2>3. x = z
    BY <2>1, <2>2, SeqEqual
  <2> QED
    BY <2>3 DEF z
<1> QED
  BY <1>1, <1>2

LEMMA EscapedAppend ==
  ASSUME NEW x \in Seq(Words), NEW w \in Words
  PROVE  /\ Escaped(Append(x, w)) = Escaped(x) \o Escape(w)
         /\ Escape(w) \in Seq(Words) /\ Escaped(x) \in Seq(Words)
<1> DEFINE y == Append(x, w)
           e == [i \in DOMAIN x |-> Escape(x[i])]
           f == [i \in DOMAIN y |-> Escape(y[i])]
<1>1. \A t \in Words : Escape(t) \in Seq(Words)
  BY WordsAndTokens DEF Escape
<1>2. e \in Seq(Seq(Words)) /\ Len(e) = Len(x) /\ \A i \in 1..Len(x) : e[i] = Escape(x[i])
  <2>1. DOMAIN x = 1..Len(x) /\ Len(x) \in Nat /\ \A i \in 1..Len(x) : x[i] \in Words
    OBVIOUS
  <2>2. e = [i \in 1..Len(x) |-> Escape(x[i])]
    BY <2>1
  <2> HIDE DEF e
  <2> QED
    BY <1>1, <2>1, <2>2, IsASeq
<1>3. /\ y \in Seq(Words) /\ Len(y) = Len(x) + 1 /\ Len(x) \in Nat
      /\ \A i \in 1..Len(x) : y[i] = x[i]
      /\ y[Len(x) + 1] = w
  OBVIOUS
<1> HIDE DEF y
<1>4. f \in Seq(Seq(Words)) /\ Len(f) = Len(y) /\ \A i \in 1..Len(y) : f[i] = Escape(y[i])
  <2>1. DOMAIN y = 1..Len(y) /\ Len(y) \in Nat /\ \A i \in 1..Len(y) : y[i] \in Words
    BY <1>3
  <2>2. f = [i \in 1..Len(y) |-> Escape(y[i])]
    BY <2>1
  <2> HIDE DEF f
  <2> QED
    BY <1>1, <2>1, <2>2, IsASeq
<1> HIDE DEF e, f
<1>5. f = Append(e, Escape(w))
  <2> DEFINE g == Append(e, Escape(w))
             D == Seq(Words)
  <2>1. e \in Seq(D) /\ Escape(w) \in D /\ Len(e) = Len(x)
    BY <1>1, <1>2
  <2> HIDE DEF D
  <2>2. g \in Seq(D) /\ Len(g) = Len(x) + 1 /\ g[Len(x) + 1] = Escape(w)
        /\ \A i \in 1..Len(x) : g[i] = e[i]
    BY <2>1
  <2>3. \A i \in 1..Len(y) : f[i] = g[i]
    BY <1>2, <1>3, <1>4, <2>2
  <2>4. f \in Seq(D) /\ Len(f) = Len(g)
    BY <1>3, <1>4, <2>2 DEF D
  <2> HIDE DEF g
  <2>5. f = g
    BY <1>3, <1>4, <2>2, <2>3, <2>4, SeqEqual
  <2> QED
    BY <2>5 DEF g
<1>6. FlattenSeq(Append(e, Escape(w))) = FlattenSeq(e) \o Escape(w)
  BY <1>1, <1>2, FlattenAppend
<1>7. Escaped(y) = FlattenSeq(f) /\ Escaped(x) = FlattenSeq(e)
  BY DEF Escaped, e, f
<1>8. Escaped(x) \in Seq(Words)
  BY EscapedType
<1> QED
  BY <1>1, <1>5, <1>6, <1>7, <1>8 DEF y

LEMMA EscapedEmpty == Escaped(<<>>) = <<>>
<1>1. [i \in DOMAIN <<>> |-> Escape(<<>>[i])] = <<>>
  OBVIOUS
<1> QED
  BY <1>1, FlattenEmpty DEF Escaped

\* Every hyphen of an escaped text is followed by what it stands for.
Paired(e) == \A i \in 1..Len(e) : e[i] = "-" => i + 1 \in 1..Len(e) /\ e[i + 1] \in {"h", "d"}

LEMMA EscapeCases ==
  ASSUME NEW w \in Words
  PROVE  \/ w = "-" /\ Escape(w) = <<"-", "h">>
         \/ w = "." /\ Escape(w) = <<"-", "d">>
         \/ w # "-" /\ w # "." /\ Escape(w) = <<w>>
BY DEF Escape

LEMMA EscapedIsPaired ==
  ASSUME NEW x \in Seq(Words)
  PROVE  Paired(Escaped(x))
<1> DEFINE T == {n \in Nat : \A y \in Seq(Words) : Len(y) = n => Paired(Escaped(y))}
<1>1. 0 \in T
  <2>1. \A y \in Seq(Words) : Len(y) = 0 => y = <<>>
    OBVIOUS
  <2>2. Paired(<<>>)
    BY DEF Paired
  <2> QED
    BY <2>1, <2>2, EscapedEmpty
<1>2. ASSUME NEW n \in T
      PROVE  n + 1 \in T
  <2>1. SUFFICES ASSUME NEW y \in Seq(Words), Len(y) = n + 1
                 PROVE  Paired(Escaped(y))
    BY <1>2
  <2>2. n \in Nat /\ y # <<>>
    BY <1>2, <2>1
  <2>3. PICK z \in Seq(Words), w \in Words : y = Append(z, w) /\ Len(y) = Len(z) + 1
    BY <2>2, LastWord
  <2> DEFINE e == Escaped(z)
             s == Escape(w)
             f == Escaped(y)
  <2>4. Len(z) = n
    BY <2>1, <2>2, <2>3
  <2>5. Paired(e) /\ e \in Seq(Words) /\ s \in Seq(Words) /\ f = e \o s
    BY <1>2, <2>3, <2>4, EscapedAppend
  <2>6. \/ s = <<"-", "h">>
        \/ s = <<"-", "d">>
        \/ w # "-" /\ s = <<w>>
    BY EscapeCases
  <2>7. Paired(s)
    <3>1. CASE s = <<"-", "h">> \/ s = <<"-", "d">>
      <4> HIDE DEF s
      <4>1. Len(s) = 2 /\ s[1] = "-" /\ s[2] \in {"h", "d"} /\ s[2] # "-"
        BY <3>1
      <4> QED
        BY <4>1 DEF Paired
    <3>2. CASE w # "-" /\ s = <<w>>
      <4> HIDE DEF s
      <4>1. Len(s) = 1 /\ s[1] # "-"
        BY <3>2
      <4> QED
        BY <4>1 DEF Paired
    <3> QED
      BY <2>6, <3>1, <3>2
  <2> HIDE DEF e, s, f
  <2>8. /\ Len(f) = Len(e) + Len(s) /\ Len(e) \in Nat /\ Len(s) \in Nat
        /\ \A i \in 1..Len(e) : f[i] = e[i]
        /\ \A i \in 1..Len(s) : f[Len(e) + i] = s[i]
    BY <2>5
  <2>9. ASSUME NEW i \in 1..Len(f), f[i] = "-"
        PROVE  i + 1 \in 1..Len(f) /\ f[i + 1] \in {"h", "d"}
    <3>1. CASE i \in 1..Len(e)
      <4>1. i + 1 \in 1..Len(e) /\ e[i + 1] \in {"h", "d"}
        BY <2>5, <2>8, <2>9, <3>1 DEF Paired
      <4> QED
        BY <2>8, <4>1
    <3>2. CASE i \notin 1..Len(e)
      <4> DEFINE j == i - Len(e)
      <4>1. j \in 1..Len(s) /\ Len(e) + j = i
        BY <2>8, <3>2
      <4>2. s[j] = "-"
        BY <2>8, <2>9, <4>1
      <4>3. j + 1 \in 1..Len(s) /\ s[j + 1] \in {"h", "d"}
        BY <2>7, <4>1, <4>2 DEF Paired
      <4>4. Len(e) + (j + 1) = i + 1 /\ i + 1 \in 1..Len(f)
        BY <2>8, <4>1, <4>3
      <4>5. f[Len(e) + (j + 1)] = s[j + 1]
        BY <2>8, <4>3
      <4> QED
        BY <4>3, <4>4, <4>5
    <3> QED
      BY <3>1, <3>2
  <2>10. Paired(f)
    BY <2>9 DEF Paired
  <2> QED
    BY <2>10 DEF f
<1>3. T \in SUBSET Nat
  OBVIOUS
<1> HIDE DEF T
<1>4. T = Nat
  BY <1>1, <1>2, <1>3, NumberInduction
<1>5. Len(x) \in T
  BY <1>4
<1> QED
  BY <1>5 DEF T

\* The last word of an escaped text can be told from its end.
LEMMA SameLastWord ==
  ASSUME NEW e \in Seq(Words), NEW f \in Seq(Words), NEW w \in Words, NEW v \in Words,
         Paired(e), Paired(f), e \o Escape(w) = f \o Escape(v)
  PROVE  e = f /\ w = v
<1> DEFINE s == Escape(w)
           t == Escape(v)
           z == e \o s
<1>1. s \in Seq(Words) /\ t \in Seq(Words)
  BY EscapedAppend, EmptySeq
<1>2. /\ Len(e) \in Nat /\ Len(f) \in Nat /\ Len(s) \in Nat /\ Len(t) \in Nat
      /\ Len(z) = Len(e) + Len(s) /\ Len(z) = Len(f) + Len(t)
      /\ \A i \in 1..Len(e) : z[i] = e[i]
      /\ \A i \in 1..Len(f) : z[i] = f[i]
      /\ \A i \in 1..Len(s) : z[Len(e) + i] = s[i]
      /\ \A i \in 1..Len(t) : z[Len(f) + i] = t[i]
  <2> HIDE DEF s, t
  <2>1. e \o s = f \o t
    BY DEF s, t
  <2>2. /\ Len(e \o s) = Len(e) + Len(s)
        /\ \A i \in 1..Len(e) : (e \o s)[i] = e[i]
        /\ \A i \in 1..Len(s) : (e \o s)[Len(e) + i] = s[i]
    BY <1>1
  <2>3. /\ Len(f \o t) = Len(f) + Len(t)
        /\ \A i \in 1..Len(f) : (f \o t)[i] = f[i]
        /\ \A i \in 1..Len(t) : (f \o t)[Len(f) + i] = t[i]
    BY <1>1
  <2>4. Len(e) \in Nat /\ Len(f) \in Nat /\ Len(s) \in Nat /\ Len(t) \in Nat
    BY <1>1
  <2> QED
    BY <2>1, <2>2, <2>3, <2>4
<1>3. \/ w = "-" /\ Len(s) = 2 /\ s[1] = "-" /\ s[2] = "h"
      \/ w = "." /\ Len(s) = 2 /\ s[1] = "-" /\ s[2] = "d"
      \/ Len(s) = 1 /\ s[1] = w
  BY EscapeCases
<1>4. \/ v = "-" /\ Len(t) = 2 /\ t[1] = "-" /\ t[2] = "h"
      \/ v = "." /\ Len(t) = 2 /\ t[1] = "-" /\ t[2] = "d"
      \/ Len(t) = 1 /\ t[1] = v
  BY EscapeCases
<1>5. e \o s = f \o t
  OBVIOUS
<1> HIDE DEF s, t, z
<1>6. CASE Len(s) = Len(t)
  <2>1. Len(e) = Len(f)
    BY <1>2, <1>6
  <2>2. e = f /\ s = t
    BY <1>1, <1>5, <2>1, EqualParts
  <2> QED
    BY <1>3, <1>4, <2>2
<1>7. CASE Len(s) = 2 /\ Len(t) = 1
  <2>1. Len(f) = Len(e) + 1 /\ Len(f) \in 1..Len(f) /\ s[1] = "-"
    BY <1>2, <1>3, <1>7
  <2>2. f[Len(f)] = "-"
    BY <1>2, <1>7, <2>1
  <2> QED
    BY <1>2, <2>1, <2>2 DEF Paired
<1>8. CASE Len(s) = 1 /\ Len(t) = 2
  <2>1. Len(e) = Len(f) + 1 /\ Len(e) \in 1..Len(e) /\ t[1] = "-"
    BY <1>2, <1>4, <1>8
  <2>2. e[Len(e)] = "-"
    BY <1>2, <1>8, <2>1
  <2> QED
    BY <1>2, <2>1, <2>2 DEF Paired
<1> QED
  BY <1>3, <1>4, <1>6, <1>7, <1>8

\* Escaping can be undone.
LEMMA EscapedInjective ==
  ASSUME NEW x \in Seq(Words), NEW y \in Seq(Words), Escaped(x) = Escaped(y)
  PROVE  x = y
<1> DEFINE T == {n \in Nat : \A a, b \in Seq(Words) :
                               Len(a) = n /\ Escaped(a) = Escaped(b) => a = b}
<1>1. 0 \in T
  <2> SUFFICES ASSUME NEW a \in Seq(Words), NEW b \in Seq(Words), Len(a) = 0,
                      Escaped(a) = Escaped(b)
               PROVE  a = b
    OBVIOUS
  <2>1. a = <<>>
    OBVIOUS
  <2> QED
    BY <2>1, EscapedEmpty, EscapedType
<1>2. ASSUME NEW n \in T
      PROVE  n + 1 \in T
  <2>1. n \in Nat
    BY <1>2
  <2>2. SUFFICES ASSUME NEW a \in Seq(Words), NEW b \in Seq(Words), Len(a) = n + 1,
                        Escaped(a) = Escaped(b)
                 PROVE  a = b
    BY <2>1
  <2>3. a # <<>>
    BY <2>1, <2>2
  <2>4. b # <<>>
    BY <2>2, <2>3, EscapedEmpty, EscapedType
  <2>5. PICK c \in Seq(Words), w \in Words : a = Append(c, w) /\ Len(a) = Len(c) + 1
    BY <2>3, LastWord
  <2>6. PICK d \in Seq(Words), v \in Words : b = Append(d, v) /\ Len(b) = Len(d) + 1
    BY <2>4, LastWord
  <2>7. Escaped(c) \o Escape(w) = Escaped(d) \o Escape(v)
    <3>1. Escaped(a) = Escaped(c) \o Escape(w)
      BY <2>5, EscapedAppend
    <3>2. Escaped(b) = Escaped(d) \o Escape(v)
      BY <2>6, EscapedAppend
    <3> QED
      BY <2>2, <3>1, <3>2
  <2>8. Escaped(c) = Escaped(d) /\ w = v
    <3>1. /\ Escaped(c) \in Seq(Words) /\ Paired(Escaped(c))
          /\ Escaped(d) \in Seq(Words) /\ Paired(Escaped(d))
      BY EscapedType, EscapedIsPaired
    <3> QED
      BY <2>7, <3>1, SameLastWord
  <2>9. Len(c) = n
    BY <2>1, <2>2, <2>5
  <2>10. c = d
    BY <1>2, <2>8, <2>9
  <2> QED
    BY <2>5, <2>6, <2>8, <2>10
<1>3. T \in SUBSET Nat
  OBVIOUS
<1> HIDE DEF T
<1>4. T = Nat
  BY <1>1, <1>2, <1>3, NumberInduction
<1>5. Len(x) \in T
  BY <1>4
<1> QED
  BY <1>5 DEF T

-----------------------------------------------------------------------------
(* Bounding separate texts can be undone too. *)

\* What is left of a text that has no hyphen at its end.
LEMMA StrippedIsCut ==
  ASSUME NEW S, NEW text \in Seq(S)
  PROVE  \E k \in 0..Len(text) :
           /\ Stripped(text) \in Seq(S) /\ Len(Stripped(text)) = k
           /\ \A i \in 1..k : Stripped(text)[i] = text[i]
           /\ k # 0 => text[k] # "-"
<1> DEFINE T == {i \in DOMAIN text : text[i] # "-"} \cup {0}
           k == Max(T)
<1>1. T \in SUBSET Nat /\ T # {} /\ Len(text) \in Nat /\ \A i \in T : i <= Len(text)
  OBVIOUS
<1>2. k \in T
  BY <1>1, MaxOfNumbers
<1>3. k \in 0..Len(text) /\ (k # 0 => text[k] # "-") /\ Stripped(text) = SubSeq(text, 1, k)
  BY <1>1, <1>2 DEF Stripped
<1> HIDE DEF T, k
<1> DEFINE c == SubSeq(text, 1, k)
<1>4. c \in Seq(S) /\ Len(c) = k /\ \A i \in 1..k : c[i] = text[i]
  BY <1>3
<1> HIDE DEF c
<1>5. Stripped(text) = c
  BY <1>3 DEF c
<1> QED
  BY <1>3, <1>4, <1>5

\* A text that is too long keeps its first words, and ends in its digest.
LEMMA BoundedIsCut ==
  ASSUME NEW text \in Seq(Words), NEW limit \in Nat, limit >= 2, ~(Len(text) <= limit)
  PROVE  LET b == Bounded(text, limit)
         IN  \E k \in 0..Len(text) :
               /\ Len(b) = k + 2 /\ b[k + 1] = "-" /\ b[k + 2] = Digest(text)
               /\ \A i \in 1..k : b[i] = text[i]
               /\ k # 0 => text[k] # "-"
<1> DEFINE cut == SubSeq(text, 1, limit - 2)
           t == Stripped(cut)
           g == <<"-", Digest(text)>>
           b == Bounded(text, limit)
           W == Words \cup {"-", Digest(text)}
<1>1. cut \in Seq(Words) /\ Len(cut) = limit - 2 /\ \A i \in 1..Len(cut) : cut[i] = text[i]
  OBVIOUS
<1>2. limit - 2 \in 0..Len(text)
  OBVIOUS
<1>3. b = t \o g
  BY DEF Bounded
<1>4. g \in Seq(W) /\ Len(g) = 2 /\ g[1] = "-" /\ g[2] = Digest(text)
  OBVIOUS
<1> HIDE DEF cut
<1>5. PICK k \in 0..Len(cut) : /\ t \in Seq(Words) /\ Len(t) = k
                               /\ \A i \in 1..k : t[i] = cut[i]
                               /\ k # 0 => cut[k] # "-"
  BY <1>1, StrippedIsCut
<1> HIDE DEF t, g, b
<1>6. /\ Len(t \o g) = Len(t) + Len(g)
      /\ \A i \in 1..Len(t) : (t \o g)[i] = t[i]
      /\ \A i \in 1..Len(g) : (t \o g)[Len(t) + i] = g[i]
  <2>1. t \in Seq(W)
    <3> HIDE DEF W
    <3>1. Words \subseteq W
      BY DEF W
    <3> QED
      BY <1>5, <3>1, SeqMonotonic
  <2>2. g \in Seq(W)
    BY <1>4
  <2> HIDE DEF W
  <2> QED
    BY <2>1, <2>2, ConcatProperties
<1>7. Len(b) = k + 2 /\ b[k + 1] = "-" /\ b[k + 2] = Digest(text)
  BY <1>3, <1>4, <1>5, <1>6
<1>8. \A i \in 1..k : i \in 1..Len(cut) /\ b[i] = text[i]
  <2> SUFFICES ASSUME NEW i \in 1..k
               PROVE  i \in 1..Len(cut) /\ b[i] = text[i]
    OBVIOUS
  <2>1. Len(cut) \in Nat /\ i \in 1..Len(cut) /\ i \in 1..Len(t)
    BY <1>1, <1>5
  <2>2. b[i] = t[i] /\ t[i] = cut[i] /\ cut[i] = text[i]
    BY <1>1, <1>3, <1>5, <1>6, <2>1
  <2> QED
    BY <2>1, <2>2
<1>9. k \in 0..Len(text) /\ (k # 0 => text[k] # "-")
  BY <1>1, <1>2, <1>5
<1> QED
  BY <1>7, <1>8, <1>9 DEF b

\* Words that follow a hyphen where another part of an identifier begins.
Marks == {"-", "role", "squad"}

\* No such word follows a hyphen of n.
Unmarked(n) ==
  \A i \in 1..Len(n) : n[i] = "-" => i + 1 \in 1..Len(n) /\ n[i + 1] \notin Marks

LEMMA BoundedIsUnmarked ==
  ASSUME NEW e \in Seq(Words), Paired(e), NEW limit \in Nat, limit >= 2,
         Digest(e) \notin Marks
  PROVE  Unmarked(Bounded(e, limit))
<1>1. \A i \in 1..Len(e) : e[i] = "-" => i + 1 \in 1..Len(e) /\ e[i + 1] \notin Marks
  BY DEF Paired, Marks
<1>2. CASE Len(e) <= limit
  BY <1>1, <1>2 DEF Bounded, Unmarked
<1>3. CASE ~(Len(e) <= limit)
  <2> DEFINE b == Bounded(e, limit)
  <2>1. PICK k \in 0..Len(e) :
          /\ Len(b) = k + 2 /\ b[k + 1] = "-" /\ b[k + 2] = Digest(e)
          /\ \A i \in 1..k : b[i] = e[i]
          /\ k # 0 => e[k] # "-"
    BY <1>3, BoundedIsCut
  <2> HIDE DEF b
  <2>2. ASSUME NEW i \in 1..Len(b), b[i] = "-"
        PROVE  i + 1 \in 1..Len(b) /\ b[i + 1] \notin Marks
    <3>1. CASE i \in 1..k
      <4>1. e[i] = "-" /\ i # k /\ i \in 1..Len(e) /\ i + 1 \in 1..k
        BY <2>1, <2>2, <3>1
      <4> QED
        BY <1>1, <2>1, <4>1
    <3>2. CASE i = k + 1
      BY <2>1, <3>2
    <3>3. CASE i = k + 2
      BY <2>1, <2>2, <3>3 DEF Marks
    <3> QED
      BY <2>1, <3>1, <3>2, <3>3
  <2> QED
    BY <2>2 DEF Unmarked, b
<1> QED
  BY <1>2, <1>3

\* Of two texts with different digests, that have no digest as a word.
LEMMA BoundedInjective ==
  ASSUME NEW T \in SUBSET Seq(Words), Separate(T), NEW x \in T, NEW y \in T,
         NEW limit \in Nat, limit >= 2, Bounded(x, limit) = Bounded(y, limit)
  PROVE  x = y
<1>1. /\ Digest(x) = Digest(y) => x = y
      /\ Digest(x) \notin ToSet(y) /\ Digest(y) \notin ToSet(x)
  BY DEF Separate
<1>2. ASSUME NEW z \in T, ~(Len(z) <= limit)
      PROVE  LET b == Bounded(z, limit)
             IN  Len(b) \in Nat /\ Len(b) > 0 /\ b[Len(b)] = Digest(z)
  <2>1. z \in Seq(Words)
    OBVIOUS
  <2>2. PICK k \in 0..Len(z) : /\ Len(Bounded(z, limit)) = k + 2
                               /\ Bounded(z, limit)[k + 2] = Digest(z)
    BY <1>2, <2>1, BoundedIsCut
  <2>3. k \in Nat
    BY <2>1, <2>2
  <2> QED
    BY <2>2, <2>3
<1>3. CASE Len(x) <= limit /\ Len(y) <= limit
  BY <1>3 DEF Bounded
<1>4. CASE ~(Len(x) <= limit) /\ ~(Len(y) <= limit)
  BY <1>1, <1>2, <1>4
<1>5. ASSUME NEW a \in T, NEW c \in T, Len(a) <= limit, ~(Len(c) <= limit),
             Bounded(a, limit) = Bounded(c, limit)
      PROVE  Digest(c) \in ToSet(a)
  <2>1. Bounded(a, limit) = a
    BY <1>5 DEF Bounded
  <2>2. Len(a) \in Nat /\ Len(a) > 0 /\ a[Len(a)] = Digest(c)
    BY <1>2, <1>5, <2>1
  <2>3. a \in Seq(Words)
    OBVIOUS
  <2>4. DOMAIN a = 1..Len(a)
    BY <2>3
  <2>5. Len(a) \in DOMAIN a
    BY <2>2, <2>4
  <2> QED
    BY <2>2, <2>5 DEF ToSet
<1>6. CASE Len(x) <= limit /\ ~(Len(y) <= limit)
  BY <1>1, <1>5, <1>6
<1>7. CASE ~(Len(x) <= limit) /\ Len(y) <= limit
  BY <1>1, <1>5, <1>7
<1> QED
  BY <1>3, <1>4, <1>6, <1>7

-----------------------------------------------------------------------------
(* The identifiers of different squads and roles. *)

LEMMA ConcatParts ==
  ASSUME NEW S, NEW a \in Seq(S), NEW x \in Seq(S)
  PROVE  /\ Len(a) \in Nat /\ Len(x) \in Nat
         /\ \A i \in 1..Len(a) : (a \o x)[i] = a[i]
         /\ \A i \in 1..Len(x) : (a \o x)[Len(a) + i] = x[i]
OBVIOUS

\* A namespace ends where a mark follows a hyphen.
LEMMA SameNamespace ==
  ASSUME NEW S, NEW a \in Seq(S), NEW b \in Seq(S), NEW x \in Seq(S), NEW y \in Seq(S),
         Unmarked(a), Unmarked(b),
         Len(x) >= 2, x[1] = "-", x[2] \in Marks,
         Len(y) >= 2, y[1] = "-", y[2] \in Marks, a \o x = b \o y
  PROVE  a = b /\ x = y
<1> DEFINE z == a \o x
<1>1. /\ Len(a) \in Nat /\ Len(b) \in Nat /\ Len(x) \in Nat /\ Len(y) \in Nat
      /\ \A i \in 1..Len(a) : z[i] = a[i]
      /\ \A i \in 1..Len(x) : z[Len(a) + i] = x[i]
      /\ \A i \in 1..Len(b) : z[i] = b[i]
      /\ \A i \in 1..Len(y) : z[Len(b) + i] = y[i]
  <2>1. z = a \o x /\ z = b \o y
    OBVIOUS
  <2>2. /\ Len(a) \in Nat /\ Len(x) \in Nat
        /\ \A i \in 1..Len(a) : (a \o x)[i] = a[i]
        /\ \A i \in 1..Len(x) : (a \o x)[Len(a) + i] = x[i]
    BY ONLY a \in Seq(S), x \in Seq(S), ConcatParts
  <2>3. /\ Len(b) \in Nat /\ Len(y) \in Nat
        /\ \A i \in 1..Len(b) : (b \o y)[i] = b[i]
        /\ \A i \in 1..Len(y) : (b \o y)[Len(b) + i] = y[i]
    BY ONLY b \in Seq(S), y \in Seq(S), ConcatParts
  <2> HIDE DEF z
  <2> QED
    BY <2>1, <2>2, <2>3
<1> HIDE DEF z
<1>2. /\ z[Len(a) + 1] = "-" /\ z[Len(a) + 2] \in Marks
      /\ z[Len(b) + 1] = "-" /\ z[Len(b) + 2] \in Marks
  <2>1. 1 \in 1..Len(x) /\ 2 \in 1..Len(x) /\ 1 \in 1..Len(y) /\ 2 \in 1..Len(y)
    BY <1>1
  <2> QED
    BY <1>1, <2>1
<1>3. ~(Len(a) < Len(b))
  <2> SUFFICES ASSUME Len(a) < Len(b)
               PROVE  FALSE
    OBVIOUS
  <2>1. Len(a) + 1 \in 1..Len(b) /\ b[Len(a) + 1] = "-"
    BY <1>1, <1>2
  <2>2. (Len(a) + 1) + 1 \in 1..Len(b) /\ b[(Len(a) + 1) + 1] \notin Marks
    BY <2>1 DEF Unmarked
  <2>3. (Len(a) + 1) + 1 = Len(a) + 2
    BY <1>1
  <2> QED
    BY <1>1, <1>2, <2>2, <2>3
<1>4. ~(Len(b) < Len(a))
  <2> SUFFICES ASSUME Len(b) < Len(a)
               PROVE  FALSE
    OBVIOUS
  <2>1. Len(b) + 1 \in 1..Len(a) /\ a[Len(b) + 1] = "-"
    BY <1>1, <1>2
  <2>2. (Len(b) + 1) + 1 \in 1..Len(a) /\ a[(Len(b) + 1) + 1] \notin Marks
    BY <2>1 DEF Unmarked
  <2>3. (Len(b) + 1) + 1 = Len(b) + 2
    BY <1>1
  <2> QED
    BY <1>1, <1>2, <2>2, <2>3
<1>5. Len(a) = Len(b)
  BY <1>1, <1>3, <1>4
<1> QED
  BY <1>5, EqualParts

\* What follows the namespace in the identifiers of roles, skills and dispatch.
RoleTail(squad, role) ==
  <<"-", "-">> \o Bounded(role, IdentifierLimit - Len(ProviderNamespace(squad)) - 2)
SkillTail(squad, role) ==
  <<"-", "role", "-">> \o Bounded(Escaped(role), IdentifierLimit - Len(ProviderNamespace(squad)) - 3)
DispatchTail == <<"-", "squad", "-", "dispatch">>

\* A marker and a text.
LEMMA MarkedText ==
  ASSUME NEW S, NEW g \in Seq(S), Len(g) >= 2, NEW b \in Seq(S)
  PROVE  /\ g \o b \in Seq(S) /\ Len(g \o b) >= 2
         /\ (g \o b)[1] = g[1] /\ (g \o b)[2] = g[2]
OBVIOUS

LEMMA LimitsOfTails ==
  ASSUME NEW squad \in Seq(Words)
  PROVE  LET l == IdentifierLimit - Len(ProviderNamespace(squad))
         IN  l - 2 \in Nat /\ l - 2 >= 2 /\ l - 3 \in Nat /\ l - 3 >= 2
BY NamespaceType, LimitsAssumption

LEMMA Tails ==
  ASSUME NEW squad \in Seq(Words), NEW role \in Seq(Words)
  PROVE  /\ RoleTail(squad, role) \in Seq(Tokens) /\ Len(RoleTail(squad, role)) >= 2
         /\ RoleTail(squad, role)[1] = "-" /\ RoleTail(squad, role)[2] = "-"
         /\ SkillTail(squad, role) \in Seq(Tokens) /\ Len(SkillTail(squad, role)) >= 2
         /\ SkillTail(squad, role)[1] = "-" /\ SkillTail(squad, role)[2] = "role"
         /\ DispatchTail \in Seq(Tokens) /\ Len(DispatchTail) >= 2
         /\ DispatchTail[1] = "-" /\ DispatchTail[2] = "squad"
<1> DEFINE b == Bounded(role, IdentifierLimit - Len(ProviderNamespace(squad)) - 2)
           c == Bounded(Escaped(role), IdentifierLimit - Len(ProviderNamespace(squad)) - 3)
           g == <<"-", "-">>
           h == <<"-", "role", "-">>
<1>1. b \in Seq(Tokens) /\ c \in Seq(Tokens)
  BY LimitsOfTails, EscapedType, BoundedType
<1>2. {"-", "role", "squad", "dispatch"} \subseteq Tokens
  BY WordsAndTokens
<1>3. /\ g \in Seq(Tokens) /\ Len(g) = 2 /\ g[1] = "-" /\ g[2] = "-"
      /\ h \in Seq(Tokens) /\ Len(h) = 3 /\ h[1] = "-" /\ h[2] = "role"
  BY <1>2
<1>4. /\ DispatchTail \in Seq(Tokens) /\ Len(DispatchTail) >= 2
      /\ DispatchTail[1] = "-" /\ DispatchTail[2] = "squad"
  BY <1>2 DEF DispatchTail
<1>5. RoleTail(squad, role) = g \o b /\ SkillTail(squad, role) = h \o c
  BY DEF RoleTail, SkillTail
<1> HIDE DEF b, c, g, h
<1>6. /\ g \o b \in Seq(Tokens) /\ Len(g \o b) >= 2
      /\ (g \o b)[1] = g[1] /\ (g \o b)[2] = g[2]
  <2>1. Len(g) >= 2
    BY <1>3
  <2> QED
    BY <1>1, <1>3, <2>1, MarkedText
<1>7. /\ h \o c \in Seq(Tokens) /\ Len(h \o c) >= 2
      /\ (h \o c)[1] = h[1] /\ (h \o c)[2] = h[2]
  <2>1. Len(h) >= 2
    BY <1>3
  <2> QED
    BY <1>1, <1>3, <2>1, MarkedText
<1> QED
  BY <1>3, <1>4, <1>5, <1>6, <1>7

LEMMA IdentifiersHaveTails ==
  ASSUME NEW squad \in Seq(Words), NEW role \in Seq(Words)
  PROVE  /\ ProviderRoleId(squad, role) = ProviderNamespace(squad) \o RoleTail(squad, role)
         /\ ProviderRoleSkillId(squad, role) = ProviderNamespace(squad) \o SkillTail(squad, role)
         /\ ProviderDispatchSkillId(squad) = ProviderNamespace(squad) \o DispatchTail
<1> DEFINE ns == ProviderNamespace(squad)
           b == Bounded(role, IdentifierLimit - Len(ns) - 2)
           c == Bounded(Escaped(role), IdentifierLimit - Len(ns) - 3)
           g == <<"-", "-">>
           h == <<"-", "role", "-">>
<1>1. b \in Seq(Tokens) /\ c \in Seq(Tokens) /\ ns \in Seq(Tokens)
  BY LimitsOfTails, EscapedType, BoundedType, NamespaceType
<1>2. {"-", "role"} \subseteq Tokens
  BY WordsAndTokens
<1>3. g \in Seq(Tokens) /\ h \in Seq(Tokens)
  BY <1>2
<1>4. /\ ProviderRoleId(squad, role) = (ns \o g) \o b
      /\ ProviderRoleSkillId(squad, role) = (ns \o h) \o c
      /\ ProviderDispatchSkillId(squad) = ns \o DispatchTail
      /\ RoleTail(squad, role) = g \o b /\ SkillTail(squad, role) = h \o c
  BY DEF ProviderRoleId, ProviderRoleSkillId, ProviderDispatchSkillId, DispatchTail,
         RoleTail, SkillTail
<1> HIDE DEF ns, b, c, g, h
<1>5. (ns \o g) \o b = ns \o (g \o b)
  <2>1. ns \in Seq(Tokens) /\ g \in Seq(Tokens) /\ b \in Seq(Tokens)
    BY <1>1, <1>3
  <2> QED
    BY ONLY <2>1, ConcatAssociative
<1>6. (ns \o h) \o c = ns \o (h \o c)
  <2>1. ns \in Seq(Tokens) /\ h \in Seq(Tokens) /\ c \in Seq(Tokens)
    BY <1>1, <1>3
  <2> QED
    BY ONLY <2>1, ConcatAssociative
<1> QED
  BY <1>4, <1>5, <1>6 DEF ns

\* The identifiers of different squads differ, and so do those of a squad's roles:
\* however ids are built from each other's or cut to the limits, if their digests
\* are separate.  No skill of a role has the name of a dispatch skill.
THEOREM IdentifiersDiffer ==
  ASSUME NEW ids \in SUBSET Seq(Words), Separate(ids \cup {Escaped(id) : id \in ids}),
         NEW squad \in ids, NEW role \in ids, NEW other \in ids, NEW part \in ids
  PROVE  /\ ProviderNamespace(squad) = ProviderNamespace(other) => squad = other
         /\ ProviderRoleId(squad, role) = ProviderRoleId(other, part)
              => squad = other /\ role = part
         /\ ProviderRoleSkillId(squad, role) = ProviderRoleSkillId(other, part)
              => squad = other /\ role = part
         /\ ProviderDispatchSkillId(squad) = ProviderDispatchSkillId(other) => squad = other
         /\ ProviderRoleSkillId(squad, role) # ProviderDispatchSkillId(other)
<1> DEFINE T == ids \cup {Escaped(id) : id \in ids}
           n == ProviderNamespace(squad)
           o == ProviderNamespace(other)
<1>1. T \in SUBSET Seq(Words) /\ Separate(T)
  BY EscapedType
<1>2. \A id \in ids : id \in Seq(Words) /\ id \in T /\ Escaped(id) \in T
  OBVIOUS
<1> HIDE DEF T
<1>3. NamespaceLimit \in Nat /\ NamespaceLimit >= 2
  BY LimitsAssumption
<1>4. n = o => squad = other
  <2> SUFFICES ASSUME n = o
               PROVE  squad = other
    OBVIOUS
  <2>1. Escaped(squad) = Escaped(other)
    BY <1>1, <1>2, <1>3, BoundedInjective DEF ProviderNamespace
  <2> QED
    BY <1>2, <2>1, EscapedInjective
<1>5. /\ n \in Seq(Tokens) /\ o \in Seq(Tokens)
      /\ Unmarked(n) /\ Unmarked(o)
  <2>1. ASSUME NEW id \in ids
        PROVE  ProviderNamespace(id) \in Seq(Tokens) /\ Unmarked(ProviderNamespace(id))
    <3>1. Escaped(id) \in Seq(Words) /\ Paired(Escaped(id))
      BY <1>2, EscapedType, EscapedIsPaired
    <3>2. Digest(Escaped(id)) \notin Marks
      BY <1>1, <1>2 DEF Separate, Marks
    <3>3. Unmarked(ProviderNamespace(id))
      BY <1>3, <3>1, <3>2, BoundedIsUnmarked DEF ProviderNamespace
    <3> QED
      BY <1>2, <3>3, NamespaceType
  <2> QED
    BY <2>1
<1> HIDE DEF n, o
<1>6. ASSUME NEW x \in Seq(Tokens), NEW y \in Seq(Tokens), Len(x) >= 2, Len(y) >= 2,
             x[1] = "-", y[1] = "-", x[2] \in Marks, y[2] \in Marks, n \o x = o \o y
      PROVE  squad = other /\ x = y
  <2>1. n = o /\ x = y
    BY <1>5, <1>6, SameNamespace
  <2> QED
    BY <1>4, <2>1
<1>7. {"-", "role", "squad"} = Marks
  BY DEF Marks
<1>8. /\ ProviderRoleId(squad, role) = n \o RoleTail(squad, role)
      /\ ProviderRoleId(other, part) = o \o RoleTail(other, part)
      /\ ProviderRoleSkillId(squad, role) = n \o SkillTail(squad, role)
      /\ ProviderRoleSkillId(other, part) = o \o SkillTail(other, part)
      /\ ProviderDispatchSkillId(squad) = n \o DispatchTail
      /\ ProviderDispatchSkillId(other) = o \o DispatchTail
  BY <1>2, IdentifiersHaveTails DEF n, o
<1> DEFINE x == RoleTail(squad, role)
           y == RoleTail(other, part)
           u == SkillTail(squad, role)
           v == SkillTail(other, part)
<1>9. /\ x \in Seq(Tokens) /\ Len(x) >= 2 /\ x[1] = "-" /\ x[2] \in Marks
      /\ y \in Seq(Tokens) /\ Len(y) >= 2 /\ y[1] = "-" /\ y[2] \in Marks
      /\ u \in Seq(Tokens) /\ Len(u) >= 2 /\ u[1] = "-" /\ u[2] \in Marks
      /\ v \in Seq(Tokens) /\ Len(v) >= 2 /\ v[1] = "-" /\ v[2] \in Marks
      /\ u[2] = "role"
  <2>1. ASSUME NEW p \in ids, NEW q \in ids
        PROVE  /\ RoleTail(p, q) \in Seq(Tokens) /\ Len(RoleTail(p, q)) >= 2
               /\ RoleTail(p, q)[1] = "-" /\ RoleTail(p, q)[2] \in Marks
               /\ SkillTail(p, q) \in Seq(Tokens) /\ Len(SkillTail(p, q)) >= 2
               /\ SkillTail(p, q)[1] = "-" /\ SkillTail(p, q)[2] \in Marks
               /\ SkillTail(p, q)[2] = "role"
    <3> DEFINE r == RoleTail(p, q)
               t == SkillTail(p, q)
    <3>1. p \in Seq(Words) /\ q \in Seq(Words)
      BY <1>2
    <3>2. /\ r \in Seq(Tokens) /\ Len(r) >= 2 /\ r[1] = "-" /\ r[2] = "-"
          /\ t \in Seq(Tokens) /\ Len(t) >= 2 /\ t[1] = "-" /\ t[2] = "role"
      BY ONLY <3>1, Tails
    <3> HIDE DEF r, t
    <3>3. r[2] \in Marks /\ t[2] \in Marks
      BY ONLY <1>7, <3>2
    <3> QED
      BY <3>2, <3>3 DEF r, t
  <2> QED
    BY <2>1
<1>10. /\ DispatchTail \in Seq(Tokens) /\ Len(DispatchTail) >= 2
      /\ DispatchTail[1] = "-" /\ DispatchTail[2] \in Marks /\ DispatchTail[2] = "squad"
  BY <1>2, <1>7, Tails
<1> HIDE DEF x, y, u, v
<1>11. ASSUME ProviderRoleId(squad, role) = ProviderRoleId(other, part)
      PROVE  squad = other /\ role = part
  <2>1. squad = other /\ RoleTail(squad, role) = RoleTail(other, part)
    <3>1. n \o x = o \o y
      BY <1>8, <1>11 DEF x, y
    <3> QED
      BY <1>6, <1>9, <3>1 DEF x, y
  <2> DEFINE l == IdentifierLimit - Len(ProviderNamespace(squad)) - 2
             b == Bounded(role, l)
             c == Bounded(part, l)
             g == <<"-", "-">>
  <2>2. g \o b = g \o c
    BY <2>1 DEF RoleTail
  <2>3. l \in Nat /\ l >= 2
    BY <1>2, LimitsOfTails
  <2> HIDE DEF l
  <2>4. g \in Seq(Tokens) /\ b \in Seq(Tokens) /\ c \in Seq(Tokens)
    BY <1>2, <2>3, BoundedType, WordsAndTokens
  <2> HIDE DEF b, c, g
  <2>5. b = c
    BY <2>2, <2>4, EqualParts
  <2>6. role = part
    BY <1>1, <1>2, <2>3, <2>5, BoundedInjective DEF b, c
  <2> QED
    BY <2>1, <2>6
<1>12. ASSUME ProviderRoleSkillId(squad, role) = ProviderRoleSkillId(other, part)
       PROVE  squad = other /\ role = part
  <2>1. squad = other /\ SkillTail(squad, role) = SkillTail(other, part)
    <3>1. n \o u = o \o v
      BY <1>8, <1>12 DEF u, v
    <3> QED
      BY <1>6, <1>9, <3>1 DEF u, v
  <2> DEFINE l == IdentifierLimit - Len(ProviderNamespace(squad)) - 3
             b == Bounded(Escaped(role), l)
             c == Bounded(Escaped(part), l)
             g == <<"-", "role", "-">>
  <2>2. g \o b = g \o c
    BY <2>1 DEF SkillTail
  <2>3. l \in Nat /\ l >= 2
    BY <1>2, LimitsOfTails
  <2> HIDE DEF l
  <2>4. g \in Seq(Tokens) /\ b \in Seq(Tokens) /\ c \in Seq(Tokens)
    BY <1>2, <2>3, EscapedType, BoundedType, WordsAndTokens
  <2> HIDE DEF b, c, g
  <2>5. b = c
    BY <2>2, <2>4, EqualParts
  <2>6. Escaped(role) = Escaped(part)
    BY <1>1, <1>2, <2>3, <2>5, BoundedInjective DEF b, c
  <2> QED
    BY <1>2, <2>1, <2>6, EscapedInjective
<1>13. ProviderDispatchSkillId(squad) = ProviderDispatchSkillId(other) => squad = other
  BY <1>6, <1>8, <1>10
<1>14. ProviderRoleSkillId(squad, role) # ProviderDispatchSkillId(other)
  <2> SUFFICES ASSUME ProviderRoleSkillId(squad, role) = ProviderDispatchSkillId(other)
               PROVE  FALSE
    OBVIOUS
  <2>1. n \o u = o \o DispatchTail
    BY <1>8 DEF u
  <2>2. u = DispatchTail
    BY <1>6, <1>9, <1>10, <2>1
  <2> QED
    BY <1>9, <1>10, <2>2
<1> QED
  BY <1>4, <1>11, <1>12, <1>13, <1>14 DEF n, o
=============================================================================
