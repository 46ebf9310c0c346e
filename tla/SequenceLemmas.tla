--------------------------- MODULE SequenceLemmas ---------------------------
(***************************************************************************)
(* Facts about finite sets, sequences and natural numbers that the proofs  *)
(* of several components rest on.                                          *)
(***************************************************************************)
EXTENDS Naturals, FiniteSets, SequencesExt, FiniteSetTheorems, WellFoundedInduction, TLAPS

IsSequence(s) == s \in Seq(ToSet(s))

LEMMA SeqIsSequence ==
  ASSUME NEW S, NEW s \in Seq(S) PROVE IsSequence(s) /\ ToSet(s) \subseteq S
  BY DEF IsSequence, ToSet

LEMMA FunctionIsSequence ==
  ASSUME NEW n \in Nat, NEW f, f = [k \in 1..n |-> f[k]]
  PROVE  IsSequence(f) /\ DOMAIN f = 1..n
  <1> DEFINE T == ToSet(f)
  <1>1. DOMAIN f = 1..n /\ \A k \in 1..n : f[k] \in T
    BY DEF ToSet
  <1> HIDE DEF T
  <1>2. f \in Seq(T)
    BY <1>1
  <1> QED BY <1>1, <1>2, SeqIsSequence

LEMMA SequenceTail ==
  ASSUME NEW s, IsSequence(s), s # <<>>
  PROVE  /\ IsSequence(Tail(s)) /\ Head(s) = s[1] /\ 1 \in DOMAIN s
         /\ \A i \in DOMAIN Tail(s) : i + 1 \in DOMAIN s /\ Tail(s)[i] = s[i + 1]
  <1> DEFINE S == ToSet(s)
  <1>1. s \in Seq(S)
    BY DEF IsSequence
  <1> HIDE DEF S
  <1>2. Tail(s) \in Seq(S) /\ Head(s) = s[1] /\ Len(s) \in Nat /\ Len(s) > 0 /\ DOMAIN s = 1..Len(s)
    BY <1>1
  <1>3. DOMAIN Tail(s) = 1..(Len(s) - 1) /\ \A i \in 1..(Len(s) - 1) : Tail(s)[i] = s[i + 1]
    BY <1>1, <1>2
  <1>4. IsSequence(Tail(s))
    BY <1>2, SeqIsSequence
  <1>5. \A i \in 1..(Len(s) - 1) : i + 1 \in 1..Len(s)
    BY <1>2
  <1> QED BY <1>2, <1>3, <1>4, <1>5

LEMMA EmptySequence == IsSequence(<<>>) /\ DOMAIN <<>> = {}
  BY DEF IsSequence

LEMMA SequenceAppend ==
  ASSUME NEW s, IsSequence(s), NEW e
  PROVE  /\ IsSequence(Append(s, e))
         /\ Len(s) \in Nat /\ DOMAIN s = 1..Len(s)
         /\ DOMAIN Append(s, e) = 1..(Len(s) + 1) /\ Len(Append(s, e)) = Len(s) + 1
         /\ Append(s, e)[Len(s) + 1] = e
         /\ \A i \in DOMAIN s : Append(s, e)[i] = s[i]
  <1> DEFINE S == ToSet(s) \cup {e}
  <1>1. s \in Seq(S) /\ e \in S
    BY DEF IsSequence, ToSet
  <1> HIDE DEF S
  <1>2. Append(s, e) \in Seq(S)
    BY <1>1
  <1>3. IsSequence(Append(s, e))
    BY <1>2, SeqIsSequence
  <1> QED BY <1>1, <1>2, <1>3

\* Induction, over a set of numbers.
LEMMA NatSetInduction ==
  ASSUME NEW T, 0 \in T, \A n \in Nat : n \in T => n + 1 \in T
  PROVE  Nat \subseteq T
  <1> DEFINE S == Nat \ T
  <1> SUFFICES ASSUME S # {} PROVE FALSE
    OBVIOUS
  <1>1. IsWellFoundedOn(OpToRel(<, Nat), Nat)
    BY NatLessThanWellFounded
  <1>2. PICK m \in S : \A n \in S : ~ (<<n, m>> \in OpToRel(<, Nat))
    <2>1. S \subseteq Nat
      OBVIOUS
    <2> HIDE DEF S
    <2> QED BY <1>1, <2>1, WFMin
  <1>3. m # 0 /\ m - 1 \in Nat
    OBVIOUS
  <1>4. <<m - 1, m>> \in OpToRel(<, Nat)
    BY <1>3 DEF OpToRel
  <1>5. m - 1 \in T
    BY <1>2, <1>3, <1>4
  <1>6. m \in T
    <2>1. m - 1 + 1 = m
      OBVIOUS
    <2> QED BY <1>3, <1>5, <2>1
  <1> QED BY <1>6

\* The least of some numbers, and the greatest.
LEMMA MinIs ==
  ASSUME NEW S \in SUBSET Nat, S # {}
  PROVE  Min(S) \in S /\ \A x \in S : Min(S) <= x
  <1>1. IsWellFoundedOn(OpToRel(<, Nat), Nat)
    BY NatLessThanWellFounded
  <1>2. PICK m \in S : \A n \in S : ~ (<<n, m>> \in OpToRel(<, Nat))
    BY <1>1, WFMin
  <1>3. ASSUME NEW n \in S PROVE m <= n
    <2> SUFFICES ASSUME n < m PROVE FALSE
      OBVIOUS
    <2>1. <<n, m>> \in OpToRel(<, Nat)
      BY DEF OpToRel
    <2> QED BY <1>2, <2>1
  <1>4. \E x \in S : \A y \in S : x =< y
    BY <1>3
  <1> QED BY <1>4 DEF Min

LEMMA MaxIs ==
  ASSUME NEW b \in Nat, NEW S \in SUBSET (0..b), S # {}
  PROVE  Max(S) \in S /\ \A x \in S : x <= Max(S)
  <1> DEFINE above == {n \in Nat : \A x \in S : x <= n}
  <1>1. above \in SUBSET Nat /\ b \in above
    OBVIOUS
  <1>2. Min(above) \in above /\ \A n \in above : Min(above) <= n
    <2> HIDE DEF above
    <2> QED BY <1>1, MinIs
  <1> DEFINE m == Min(above)
  <1>3. m \in Nat /\ (\A x \in S : x <= m) /\ \A n \in Nat : (\A x \in S : x <= n) => m <= n
    BY <1>2
  <1> HIDE DEF m
  <1>4. m \in S
    <2> SUFFICES ASSUME m \notin S PROVE FALSE
      OBVIOUS
    <2>1. \A x \in S : x \in Nat /\ x < m
      BY <1>3
    <2>2. PICK x \in S : TRUE
      OBVIOUS
    <2> DEFINE n == m - 1
    <2>3. n \in Nat /\ n < m /\ \A y \in S : y <= n
      BY <1>3, <2>1, <2>2
    <2> HIDE DEF n
    <2>4. m <= n
      BY <1>3, <2>3
    <2> QED BY <1>3, <2>3, <2>4
  <1>5. \E x \in S : \A y \in S : x >= y
    BY <1>3, <1>4
  <1>6. Max(S) \in S /\ \A y \in S : Max(S) >= y
    BY <1>5 DEF Max
  <1> QED BY <1>6

\* What is made of a value in some steps, each of what the one before has left.
IteratesTo(f, n, b, step) == f[0] = b /\ \A k \in 1..n : f[k] = step[k][f[k - 1]]

LEMMA Iterates ==
  ASSUME NEW U, NEW b \in U, NEW n \in Nat, NEW step \in [1..n -> [U -> U]]
  PROVE  \E f \in [0..n -> U] : IteratesTo(f, n, b, step)
  <1> DEFINE Is(f, m) == f \in [0..m -> U] /\ f[0] = b /\ \A k \in 1..m : f[k] = step[k][f[k - 1]]
             T == {m \in Nat : m <= n => \E f : Is(f, m)}
  <1>1. 0 \in T
    <2> DEFINE f == [k \in 0..0 |-> b]
    <2>1. Is(f, 0)
      OBVIOUS
    <2> QED BY <2>1
  <1>2. ASSUME NEW m \in Nat, m \in T PROVE m + 1 \in T
    <2> SUFFICES ASSUME m + 1 <= n PROVE \E f : Is(f, m + 1)
      OBVIOUS
    <2>1. PICK f : Is(f, m)
      BY <1>2
    <2> DEFINE h == [k \in 0..(m + 1) |-> IF k = m + 1 THEN step[m + 1][f[m]] ELSE f[k]]
    <2>2. step[m + 1] \in [U -> U] /\ f[m] \in U
      BY <2>1
    <2>3. step[m + 1][f[m]] \in U
      BY <2>2
    <2>4. h \in [0..(m + 1) -> U] /\ h[0] = b
      BY <2>1, <2>3
    <2>5. ASSUME NEW k \in 1..(m + 1) PROVE h[k] = step[k][h[k - 1]]
      <3>1. CASE k = m + 1
        <4>1. h[k] = step[m + 1][f[m]] /\ k - 1 = m /\ h[k - 1] = f[m]
          BY <3>1
        <4> HIDE DEF h
        <4> QED BY <3>1, <4>1
      <3>2. CASE k # m + 1
        <4>1. h[k] = f[k] /\ h[k - 1] = f[k - 1] /\ k \in 1..m
          BY <3>2
        <4> HIDE DEF h
        <4> QED BY <2>1, <4>1
      <3> QED BY <3>1, <3>2
    <2> HIDE DEF h
    <2> QED BY <2>4, <2>5
  <1> HIDE DEF T
  <1>3. n \in T
    BY <1>1, <1>2, NatSetInduction
  <1> QED BY <1>3 DEF T, IteratesTo

\* A finite set in some order, each element once.
LEMMA SetToSeqIs ==
  ASSUME NEW S, IsFiniteSet(S)
  PROVE  /\ IsSequence(SetToSeq(S)) /\ ToSet(SetToSeq(S)) = S
         /\ Len(SetToSeq(S)) = Cardinality(S)
         /\ \A i, j \in DOMAIN SetToSeq(S) : SetToSeq(S)[i] = SetToSeq(S)[j] => i = j
  <1>1. PICK n \in Nat : ExistsBijection(1..n, S)
    BY FS_NatBijection
  <1>2. Cardinality(S) = n
    BY <1>1, FS_CountingElements
  <1>3. \E f \in [1..n -> S] : IsInjective(f)
    BY <1>1 DEF ExistsBijection, Bijection, Injection, IsInjective
  <1> DEFINE s == SetToSeq(S)
  <1>4. s \in [1..n -> S] /\ IsInjective(s)
    BY <1>2, <1>3 DEF SetToSeq
  <1> HIDE DEF s
  <1>5. s \in Seq(S) /\ Len(s) = n /\ DOMAIN s = 1..n
    BY <1>4
  <1>6. IsSequence(s) /\ ToSet(s) \subseteq S
    BY <1>5, SeqIsSequence
  <1>7. \A i, j \in DOMAIN s : s[i] = s[j] => i = j
    BY <1>4 DEF IsInjective
  <1>8. s \in Injection(1..n, S)
    BY <1>4, <1>5, <1>7 DEF Injection
  <1>9. Cardinality(1..n) = n
    <2>1. Cardinality(1..n) = IF 1 > n THEN 0 ELSE n - 1 + 1
      BY FS_Interval
    <2> QED BY <2>1
  <1>10. s \in Surjection(1..n, S)
    BY <1>2, <1>8, <1>9, FS_Injection
  <1>11. S \subseteq ToSet(s)
    BY <1>5, <1>10 DEF Surjection, ToSet
  <1> QED BY <1>2, <1>5, <1>6, <1>7, <1>11 DEF s

\* A sequence without repetitions is as long as the set of what is in it.
LEMMA DistinctCount ==
  ASSUME NEW s, IsSequence(s), \A i, j \in DOMAIN s : s[i] = s[j] => i = j
  PROVE  IsFiniteSet(ToSet(s)) /\ Cardinality(ToSet(s)) = Len(s)
  <1>1. Len(s) \in Nat /\ DOMAIN s = 1..Len(s) /\ s \in [1..Len(s) -> ToSet(s)]
    BY DEF IsSequence
  <1>2. \A x \in ToSet(s) : \E i \in 1..Len(s) : s[i] = x
    BY <1>1 DEF ToSet
  <1> DEFINE n == Len(s)
             S == ToSet(s)
  <1> HIDE DEF n, S
  <1>3. s \in [1..n -> S] /\ (\A i, j \in 1..n : s[i] = s[j] => i = j) /\ \A x \in S : \E i \in 1..n : s[i] = x
    BY <1>1, <1>2 DEF n, S
  <1>4. s \in Injection(1..n, S)
    BY <1>3 DEF Injection, IsInjective
  <1>5. s \in Surjection(1..n, S)
    BY <1>3 DEF Surjection
  <1>6. ExistsBijection(1..n, S)
    BY <1>4, <1>5 DEF ExistsBijection, Bijection
  <1>7. n \in Nat
    BY <1>1 DEF n
  <1> QED BY <1>6, <1>7, FS_NatBijection, FS_CountingElements DEF n, S

\* The image of a finite set under a function.
LEMMA FiniteImage ==
  ASSUME NEW f, IsFiniteSet(DOMAIN f)
  PROVE  IsFiniteSet({f[x] : x \in DOMAIN f})
  <1> DEFINE h == [x \in DOMAIN f |-> f[x]]
             T == {f[x] : x \in DOMAIN f}
  <1>1. h \in Surjection(DOMAIN f, T)
    BY DEF Surjection
  <1> HIDE DEF h
  <1> QED BY <1>1, FS_Surjection

LEMMA SequenceConcat ==
  ASSUME NEW s, IsSequence(s), NEW t, IsSequence(t)
  PROVE  /\ IsSequence(s \o t) /\ ToSet(s \o t) = ToSet(s) \cup ToSet(t)
         /\ \A i \in DOMAIN s : s[i] \in ToSet(s \o t)
  <1> DEFINE S == ToSet(s) \cup ToSet(t)
  <1>1. s \in Seq(S) /\ t \in Seq(S)
    BY DEF IsSequence
  <1>2. S = ToSet(s) \cup ToSet(t)
    OBVIOUS
  <1> HIDE DEF S
  <1>3. s \o t \in Seq(S)
    BY <1>1
  <1>4. ToSet(s) \cup ToSet(t) \subseteq ToSet(s \o t)
    <2>1. /\ Len(s) \in Nat /\ Len(t) \in Nat /\ DOMAIN s = 1..Len(s) /\ DOMAIN t = 1..Len(t)
          /\ DOMAIN (s \o t) = 1..(Len(s) + Len(t))
      BY <1>1, <1>3
    <2>2. \A i \in 1..Len(s) : i \in 1..(Len(s) + Len(t)) /\ (s \o t)[i] = s[i]
      BY <1>1, <2>1
    <2>3. \A i \in 1..Len(t) : Len(s) + i \in 1..(Len(s) + Len(t)) /\ (s \o t)[Len(s) + i] = t[i]
      BY <1>1, <2>1
    <2> QED BY <2>1, <2>2, <2>3 DEF ToSet
  <1>5. \A i \in DOMAIN s : s[i] \in ToSet(s)
    BY DEF ToSet
  <1> QED BY <1>2, <1>3, <1>4, <1>5, SeqIsSequence

\* FlattenSeq appends sequence by sequence.
LEMMA FlattenSteps ==
  ASSUME NEW seqs, IsSequence(seqs)
  PROVE  /\ Len(seqs) \in Nat /\ DOMAIN seqs = 1..Len(seqs)
         /\ \E flatten :
              /\ FlattenSeq(seqs) = IF Len(seqs) = 0 THEN seqs ELSE flatten[Len(seqs)]
              /\ \A n \in 1..Len(seqs) :
                   flatten[n] = IF n = 1 THEN seqs[n] ELSE flatten[n - 1] \o seqs[n]
  <1> DEFINE N == Len(seqs)
             step(f, n) == IF n = 1 THEN seqs[n] ELSE f[n - 1] \o seqs[n]
             Is(f, k) == f = [n \in 1..k |-> step(f, n)]
             flatten[n \in 1..N] == IF n = 1 THEN seqs[n] ELSE flatten[n - 1] \o seqs[n]
             T == {k \in Nat : \E f : Is(f, k)}
  <1>1. N \in Nat /\ DOMAIN seqs = 1..N
    BY DEF IsSequence
  <1>2. Nat \subseteq T
    <2>1. 0 \in T
      <3>1. Is([n \in 1..0 |-> <<>>], 0)
        OBVIOUS
      <3> QED BY <3>1
    <2>2. ASSUME NEW k \in Nat, k \in T PROVE k + 1 \in T
      <3>1. PICK r : Is(r, k)
        BY <2>2
      <3> DEFINE h == [n \in 1..(k + 1) |-> IF n <= k THEN r[n] ELSE step(r, k + 1)]
      <3>2. ASSUME NEW n \in 1..(k + 1) PROVE h[n] = step(h, n)
        <4>1. CASE n <= k
          <5>1. h[n] = step(r, n)
            <6>1. h[n] = r[n] /\ n \in 1..k
              BY <4>1
            <6> HIDE DEF step, h
            <6>2. r[n] = step(r, n)
              BY <3>1, <6>1
            <6> QED BY <6>1, <6>2
          <5>2. n # 1 => h[n - 1] = r[n - 1]
            BY <4>1
          <5> HIDE DEF h
          <5> QED BY <5>1, <5>2
        <4>2. CASE n = k + 1
          <5>1. h[n] = step(r, n)
            BY <4>2
          <5>2. n # 1 => h[n - 1] = r[n - 1]
            BY <4>2
          <5> HIDE DEF h
          <5> QED BY <5>1, <5>2
        <4> QED BY <4>1, <4>2
      <3>3. h = [n \in 1..(k + 1) |-> h[n]]
        OBVIOUS
      <3>4. Is(h, k + 1)
        <4> HIDE DEF h
        <4>1. [n \in 1..(k + 1) |-> h[n]] = [n \in 1..(k + 1) |-> step(h, n)]
          <5> HIDE DEF step
          <5> QED BY <3>2
        <4> QED BY <3>3, <4>1, Zenon
      <3> HIDE DEF h
      <3>5. \E f : Is(f, k + 1)
        BY <3>4
      <3> HIDE DEF Is
      <3> QED BY <3>5
    <2> HIDE DEF T
    <2> QED BY <2>1, <2>2, NatSetInduction
  <1>3. Is(flatten, N)
    <2>1. \E f : Is(f, N)
      BY <1>1, <1>2
    <2>2. flatten = CHOOSE f : Is(f, N)
      OBVIOUS
    <2> QED BY <2>1, <2>2
  <1>4. FlattenSeq(seqs) = IF N = 0 THEN seqs ELSE flatten[N]
    BY DEF FlattenSeq
  <1> HIDE DEF flatten
  <1>5. ASSUME NEW n \in 1..N PROVE flatten[n] = step(flatten, n)
    <2> HIDE DEF step
    <2> QED BY <1>3
  <1> HIDE DEF N
  <1>6. \A n \in 1..N : flatten[n] = IF n = 1 THEN seqs[n] ELSE flatten[n - 1] \o seqs[n]
    BY <1>5
  <1>7. \E f : /\ FlattenSeq(seqs) = IF N = 0 THEN seqs ELSE f[N]
               /\ \A n \in 1..N : f[n] = IF n = 1 THEN seqs[n] ELSE f[n - 1] \o seqs[n]
    BY <1>4, <1>6
  <1> QED BY <1>1, <1>7 DEF N

\* The first k sequences, one after another: where each ends and what is where.
Pieces(seqs, k, s, ends) ==
  /\ IsSequence(s) /\ ends[0] = 0
  /\ \A i \in 0..k : ends[i] \in Nat
  /\ Len(s) = ends[k] /\ DOMAIN s = 1..ends[k]
  /\ \A i \in 1..k : ends[i] = ends[i - 1] + Len(seqs[i])
  /\ \A i \in 1..k : \A j \in 1..Len(seqs[i]) :
       /\ ends[i - 1] + j \in DOMAIN s /\ s[ends[i - 1] + j] = seqs[i][j]
  /\ \A n \in DOMAIN s : \E i \in 1..k : \E j \in 1..Len(seqs[i]) : n = ends[i - 1] + j

LEMMA ConcatPieces ==
  ASSUME NEW s, IsSequence(s), NEW t, IsSequence(t)
  PROVE  /\ IsSequence(s \o t) /\ Len(s) \in Nat /\ Len(t) \in Nat
         /\ DOMAIN s = 1..Len(s) /\ DOMAIN t = 1..Len(t)
         /\ Len(s \o t) = Len(s) + Len(t) /\ DOMAIN (s \o t) = 1..(Len(s) + Len(t))
         /\ \A i \in 1..Len(s) : (s \o t)[i] = s[i]
         /\ \A j \in 1..Len(t) : (s \o t)[Len(s) + j] = t[j]
  <1> DEFINE S == ToSet(s) \cup ToSet(t)
  <1>1. s \in Seq(S) /\ t \in Seq(S)
    BY DEF IsSequence
  <1> HIDE DEF S
  <1>2. s \o t \in Seq(S)
    BY <1>1
  <1>3. Len(s \o t) = Len(s) + Len(t)
    BY <1>1
  <1>4. \A j \in 1..Len(t) : (s \o t)[Len(s) + j] = t[j]
    BY <1>1
  <1>5. \A i \in 1..Len(s) : (s \o t)[i] = s[i]
    BY <1>1
  <1>6. Len(s) \in Nat /\ Len(t) \in Nat /\ DOMAIN s = 1..Len(s) /\ DOMAIN t = 1..Len(t)
    BY <1>1
  <1>7. DOMAIN (s \o t) = 1..(Len(s) + Len(t))
    BY <1>2, <1>3
  <1>8. IsSequence(s \o t)
    BY <1>2, SeqIsSequence
  <1> QED BY <1>3, <1>4, <1>5, <1>6, <1>7, <1>8, Zenon

LEMMA PiecesNext ==
  ASSUME NEW seqs, NEW k \in Nat, NEW s, NEW ends, Pieces(seqs, k, s, ends),
         IsSequence(seqs[k + 1]), ends[k + 1] = Len(s) + Len(seqs[k + 1])
  PROVE  Pieces(seqs, k + 1, s \o seqs[k + 1], ends)
  <1> DEFINE t == seqs[k + 1]
             m == k + 1
  <1>1. /\ IsSequence(s \o t) /\ Len(s) \in Nat /\ Len(t) \in Nat
        /\ DOMAIN s = 1..Len(s) /\ DOMAIN t = 1..Len(t)
        /\ Len(s \o t) = Len(s) + Len(t) /\ DOMAIN (s \o t) = 1..(Len(s) + Len(t))
        /\ \A i \in 1..Len(s) : (s \o t)[i] = s[i]
        /\ \A j \in 1..Len(t) : (s \o t)[Len(s) + j] = t[j]
    <2>1. IsSequence(s) /\ IsSequence(t)
      BY DEF Pieces
    <2> HIDE DEF t
    <2> QED BY <2>1, ConcatPieces
  <1> DEFINE all == s \o t
  <1>2. /\ m \in Nat /\ m - 1 = k /\ ends[m] = ends[k] + Len(t) /\ ends[k] = Len(s)
        /\ 0..m = 0..k \cup {m} /\ 1..m = 1..k \cup {m}
    BY DEF Pieces
  <1> HIDE DEF m
  <1>3. ends[m] \in Nat /\ Len(all) = ends[m] /\ DOMAIN all = 1..ends[m]
    BY <1>1, <1>2
  <1>4. seqs[m] = t
    BY DEF m
  <1> HIDE DEF t, all
  <1>5. ASSUME NEW i \in 1..m, NEW j \in 1..Len(seqs[i])
        PROVE  ends[i - 1] + j \in DOMAIN all /\ all[ends[i - 1] + j] = seqs[i][j]
    <2>1. CASE i = m
      <3>1. j \in 1..Len(t) /\ ends[i - 1] = Len(s) /\ seqs[i][j] = t[j]
        BY <1>2, <1>4, <2>1
      <3>2. Len(s) + j \in 1..(Len(s) + Len(t)) /\ all[Len(s) + j] = t[j]
        BY <1>1, <3>1 DEF all
      <3> QED BY <1>1, <3>1, <3>2 DEF all
    <2>2. CASE i \in 1..k
      <3>1. ends[i - 1] + j \in 1..Len(s) /\ s[ends[i - 1] + j] = seqs[i][j]
        BY <1>1, <2>2 DEF Pieces
      <3>2. ends[i - 1] + j \in 1..(Len(s) + Len(t))
        BY <1>1, <3>1
      <3> QED BY <1>1, <3>1, <3>2 DEF all
    <2> QED BY <1>2, <2>1, <2>2
  <1>6. ASSUME NEW n \in DOMAIN all
        PROVE  \E i \in 1..m : \E j \in 1..Len(seqs[i]) : n = ends[i - 1] + j
    <2>1. CASE n \in DOMAIN s
      BY <1>2, <2>1 DEF Pieces
    <2>2. CASE n \notin DOMAIN s
      <3> DEFINE j == n - Len(s)
      <3>1. j \in 1..Len(t) /\ n = ends[m - 1] + j
        BY <1>1, <1>2, <2>2 DEF all
      <3> QED BY <1>2, <1>4, <3>1
    <2> QED BY <2>1, <2>2
  <1>7. ends[0] = 0 /\ (\A i \in 0..m : ends[i] \in Nat)
        /\ \A i \in 1..m : ends[i] = ends[i - 1] + Len(seqs[i])
    BY <1>2, <1>3, <1>4 DEF Pieces
  <1>8. Pieces(seqs, m, all, ends)
    BY <1>1, <1>3, <1>5, <1>6, <1>7 DEF Pieces, all
  <1> QED BY <1>8 DEF m, all, t

LEMMA FlattenPieces ==
  ASSUME NEW seqs, IsSequence(seqs), \A i \in DOMAIN seqs : IsSequence(seqs[i])
  PROVE  \E ends : Pieces(seqs, Len(seqs), FlattenSeq(seqs), ends)
  <1> DEFINE N == Len(seqs)
  <1>1. N \in Nat /\ DOMAIN seqs = 1..N
    BY FlattenSteps
  <1>2. PICK flatten :
              /\ FlattenSeq(seqs) = IF N = 0 THEN seqs ELSE flatten[N]
              /\ \A n \in 1..N :
                   flatten[n] = IF n = 1 THEN seqs[n] ELSE flatten[n - 1] \o seqs[n]
    BY FlattenSteps
  <1> HIDE DEF N
  <1> DEFINE upto(k) == IF k = 0 THEN <<>> ELSE flatten[k]
             ends == [k \in 0..N |-> Len(upto(k))]
             W == {k \in Nat : k \in 0..N => Pieces(seqs, k, upto(k), ends)}
  <1>3. ASSUME NEW k \in Nat, k + 1 \in 1..N
        PROVE  upto(k + 1) = upto(k) \o seqs[k + 1]
    <2> DEFINE m == k + 1
    <2>0. m # 0 /\ m \in 1..N /\ m - 1 = k /\ (m = 1 <=> k = 0)
      BY <1>3
    <2> HIDE DEF m
    <2>1. upto(m) = flatten[m] /\ flatten[m] = IF m = 1 THEN seqs[m] ELSE flatten[m - 1] \o seqs[m]
      BY <1>2, <2>0
    <2>2. CASE k = 0
      <3>1. IsSequence(seqs[m])
        BY <1>1, <2>0
      <3>2. <<>> \o seqs[m] = seqs[m]
        BY <3>1 DEF IsSequence
      <3>3. upto(k) = <<>> /\ upto(m) = seqs[m]
        BY <2>0, <2>1, <2>2
      <3> HIDE DEF upto
      <3> QED BY <3>2, <3>3 DEF m
    <2>3. CASE k # 0
      <3>1. upto(k) = flatten[k] /\ upto(m) = flatten[k] \o seqs[m]
        BY <2>0, <2>1, <2>3
      <3> HIDE DEF upto
      <3> QED BY <3>1 DEF m
    <2> QED BY <2>2, <2>3
  <1>4. upto(0) = <<>>
    OBVIOUS
  <1> HIDE DEF upto
  <1>5. Nat \subseteq W
    <2>1. 0 \in W
      <3>1. ends[0] = 0
        BY <1>1, <1>4
      <3>2. 0..0 = {0} /\ 1..0 = {} /\ IsSequence(<<>>) /\ Len(<<>>) = 0 /\ DOMAIN <<>> = {}
        BY EmptySequence
      <3> HIDE DEF ends
      <3>3. Pieces(seqs, 0, <<>>, ends)
        BY <3>1, <3>2 DEF Pieces
      <3> QED BY <1>4, <3>3
    <2>2. ASSUME NEW k \in Nat, k \in W PROVE k + 1 \in W
      <3> SUFFICES ASSUME k + 1 \in 0..N PROVE Pieces(seqs, k + 1, upto(k + 1), ends)
        OBVIOUS
      <3>1. k \in 0..N /\ k + 1 \in 1..N
        BY <1>1
      <3>2. Pieces(seqs, k, upto(k), ends)
        BY <2>2, <3>1
      <3>3. upto(k + 1) = upto(k) \o seqs[k + 1]
        BY <1>3, <3>1
      <3>4. IsSequence(upto(k)) /\ IsSequence(seqs[k + 1])
        BY <1>1, <3>1, <3>2 DEF Pieces
      <3>5. Len(upto(k) \o seqs[k + 1]) = Len(upto(k)) + Len(seqs[k + 1])
        BY <3>4, ConcatPieces
      <3>6. ends[k + 1] = Len(upto(k)) + Len(seqs[k + 1])
        BY <3>3, <3>5
      <3> HIDE DEF ends
      <3> QED BY <3>2, <3>3, <3>4, <3>6, PiecesNext
    <2> HIDE DEF W
    <2> QED BY <2>1, <2>2, NatSetInduction
  <1>6. Pieces(seqs, N, upto(N), ends)
    BY <1>1, <1>5
  <1>7. upto(N) = FlattenSeq(seqs)
    <2>1. CASE N = 0
      <3>1. seqs = <<>>
        BY <2>1 DEF N, IsSequence
      <3> QED BY <1>2, <1>4, <2>1, <3>1
    <2>2. CASE N # 0
      BY <1>2, <2>2 DEF upto
    <2> QED BY <2>1, <2>2
  <1> HIDE DEF ends
  <1> QED BY <1>6, <1>7 DEF N

LEMMA PiecesGrow ==
  ASSUME NEW seqs, NEW n \in Nat, NEW s, NEW ends, Pieces(seqs, n, s, ends),
         \A i \in 1..n : IsSequence(seqs[i])
  PROVE  \A k \in 0..n : \A i \in 0..k : ends[i] <= ends[k]
  <1> DEFINE T == {k \in Nat : k <= n => \A i \in 0..k : ends[i] <= ends[k]}
  <1>1. 0 \in T
    <2>1. 0..0 = {0} /\ ends[0] = 0
      BY DEF Pieces
    <2> QED BY <2>1
  <1>2. ASSUME NEW k \in Nat, k \in T PROVE k + 1 \in T
    <2> SUFFICES ASSUME k + 1 <= n, NEW i \in 0..(k + 1) PROVE ends[i] <= ends[k + 1]
      OBVIOUS
    <2>1. k + 1 \in 1..n /\ k \in 0..n /\ k + 1 \in 0..n /\ (k + 1) - 1 = k
      OBVIOUS
    <2>2. ends[k + 1] = ends[k] + Len(seqs[k + 1]) /\ ends[k] \in Nat
      BY <2>1 DEF Pieces
    <2>3. Len(seqs[k + 1]) \in Nat
      BY <2>1 DEF IsSequence
    <2>4. CASE i = k + 1
      BY <2>1, <2>4 DEF Pieces
    <2>5. CASE i \in 0..k
      <3>1. ends[i] <= ends[k] /\ ends[i] \in Nat
        BY <1>2, <2>1, <2>5 DEF Pieces
      <3> QED BY <2>2, <2>3, <3>1
    <2> QED BY <2>4, <2>5
  <1> HIDE DEF T
  <1>3. Nat \subseteq T
    BY <1>1, <1>2, NatSetInduction
  <1> QED BY <1>3 DEF T

\* If no sequence is empty, there are no fewer elements than sequences.
LEMMA PiecesNotFewer ==
  ASSUME NEW seqs, NEW n \in Nat, NEW s, NEW ends, Pieces(seqs, n, s, ends),
         \A i \in 1..n : Len(seqs[i]) \in Nat /\ Len(seqs[i]) > 0
  PROVE  \A k \in 0..n : k <= ends[k]
  <1> DEFINE T == {k \in Nat : k <= n => k <= ends[k]}
  <1>1. 0 \in T
    BY DEF Pieces
  <1>2. ASSUME NEW k \in Nat, k \in T PROVE k + 1 \in T
    <2> SUFFICES ASSUME k + 1 <= n PROVE k + 1 <= ends[k + 1]
      OBVIOUS
    <2>1. k + 1 \in 1..n /\ k \in 0..n /\ (k + 1) - 1 = k
      OBVIOUS
    <2>2. ends[k + 1] = ends[k] + Len(seqs[k + 1]) /\ ends[k] \in Nat
      BY <2>1 DEF Pieces
    <2> QED BY <1>2, <2>1, <2>2
  <1> HIDE DEF T
  <1>3. Nat \subseteq T
    BY <1>1, <1>2, NatSetInduction
  <1> QED BY <1>3 DEF T

\* Sequences one after another.
LEMMA FlattenIs ==
  ASSUME NEW seqs, IsSequence(seqs), \A i \in DOMAIN seqs : IsSequence(seqs[i])
  PROVE  /\ IsSequence(FlattenSeq(seqs))
         /\ ToSet(FlattenSeq(seqs)) = UNION {ToSet(seqs[i]) : i \in DOMAIN seqs}
  <1> DEFINE s == FlattenSeq(seqs)
             N == Len(seqs)
  <1>1. DOMAIN seqs = 1..N
    BY FlattenSteps
  <1>2. PICK ends : Pieces(seqs, N, s, ends)
    BY FlattenPieces
  <1> HIDE DEF s, N
  <1>3. \A i \in 1..N : DOMAIN seqs[i] = 1..Len(seqs[i])
    BY <1>1 DEF IsSequence
  <1>4. ASSUME NEW x \in ToSet(s) PROVE x \in UNION {ToSet(seqs[i]) : i \in 1..N}
    <2>1. PICK n \in DOMAIN s : x = s[n]
      BY <1>4 DEF ToSet
    <2>2. PICK i \in 1..N : \E j \in 1..Len(seqs[i]) : n = ends[i - 1] + j
      BY <1>2 DEF Pieces
    <2>3. PICK j \in 1..Len(seqs[i]) : n = ends[i - 1] + j
      BY <2>2
    <2>4. x = seqs[i][j]
      BY <1>2, <2>1, <2>3 DEF Pieces
    <2> QED BY <1>3, <2>4 DEF ToSet
  <1>5. ASSUME NEW i \in 1..N, NEW x \in ToSet(seqs[i]) PROVE x \in ToSet(s)
    <2>1. PICK j \in 1..Len(seqs[i]) : x = seqs[i][j]
      BY <1>3 DEF ToSet
    <2>2. ends[i - 1] + j \in DOMAIN s /\ s[ends[i - 1] + j] = x
      BY <1>2, <2>1 DEF Pieces
    <2> QED BY <2>2 DEF ToSet
  <1>6. IsSequence(s)
    BY <1>2 DEF Pieces
  <1> QED BY <1>1, <1>4, <1>5, <1>6 DEF s

=============================================================================
