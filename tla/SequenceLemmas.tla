--------------------------- MODULE SequenceLemmas ---------------------------
(***************************************************************************)
(* Induction over the naturals, and what follows by it of the operators of  *)
(* SequencesExt that the models are built from.                             *)
(*                                                                          *)
(* A recursive definition f[i \in S] == ... names, by CHOOSE, a function     *)
(* that solves its equation.  The lemmas called ...Run say that there is one *)
(* for a finite sequence; what it computes then follows by Induction, with   *)
(* the set of indices up to which the claim holds.                           *)
(***************************************************************************)
EXTENDS Integers, SequencesExt, FiniteSetTheorems, WellFoundedInduction, TLAPS

\* A set of naturals with 0 in it and, with every number, the next, has them all.
LEMMA Induction ==
    ASSUME NEW S \in SUBSET Nat, 0 \in S, \A n \in S : n + 1 \in S
    PROVE  S = Nat
  <1>1. SUFFICES ASSUME Nat \ S # {} PROVE FALSE
    OBVIOUS
  <1> DEFINE R == OpToRel(<, Nat)
  <1>2. PICK x \in Nat \ S : \A y \in Nat \ S : ~(<<y, x>> \in R)
    <2>1. IsWellFoundedOn(R, Nat)
      BY NatLessThanWellFounded
    <2> HIDE DEF R
    <2> QED
      BY <1>1, <2>1, WFMin
  <1>3. x \in Nat /\ x \notin S
    OBVIOUS
  <1>4. x # 0 /\ x - 1 \in Nat /\ x - 1 < x /\ (x - 1) + 1 = x
    BY ONLY <1>3, 0 \in S
  <1>5. <<x - 1, x>> \in R
    BY <1>3, <1>4 DEF OpToRel
  <1>6. x - 1 \notin Nat \ S
    BY <1>2, <1>5
  <1>7. x - 1 \in S
    BY ONLY <1>4, <1>6
  <1>8. (x - 1) + 1 \in S
    BY ONLY <1>7, \A n \in S : n + 1 \in S
  <1> QED
    BY ONLY <1>3, <1>4, <1>8

\* A set of naturals with anything in it has a least number.
LEMMA Least ==
    ASSUME NEW S \in SUBSET Nat, S # {}
    PROVE  \E n \in S : \A m \in S : n <= m
  <1> DEFINE R == OpToRel(<, Nat)
  <1>1. PICK n \in S : \A m \in S : ~(<<m, n>> \in R)
    <2>1. IsWellFoundedOn(R, Nat)
      BY NatLessThanWellFounded
    <2> HIDE DEF R
    <2> QED
      BY <2>1, WFMin
  <1>2. \A m \in S : ~(m < n)
    BY <1>1 DEF OpToRel
  <1> QED
    BY <1>2

\* Induction up to a bound, with an end of the induction at the bound.
LEMMA InductionUpTo ==
    ASSUME NEW N \in Nat, NEW S, 0 \in S, \A n \in 0..N : n \in S /\ n < N => n + 1 \in S
    PROVE  \A n \in 0..N : n \in S
  <1> DEFINE T == {n \in Nat : n \in S \/ n > N}
  <1>1. 0 \in T
    OBVIOUS
  <1>2. \A n \in T : n + 1 \in T
    OBVIOUS
  <1>3. T \in SUBSET Nat
    OBVIOUS
  <1> HIDE DEF T
  <1>4. T = Nat
    BY <1>1, <1>2, <1>3, Induction
  <1> QED
    BY <1>4 DEF T

\* A sequence over a set is one over any larger set.
LEMMA SeqMonotone ==
    ASSUME NEW S, NEW T, S \subseteq T, NEW s \in Seq(S)
    PROVE  s \in Seq(T)
  <1>1. \A i \in 1..Len(s) : s[i] \in T
    OBVIOUS
  <1>2. Len(s) \in Nat /\ s = [i \in 1..Len(s) |-> s[i]]
    OBVIOUS
  <1> QED
    BY <1>1, <1>2

\* c is a and b end to end.
IsJoin(c, a, b) ==
    /\ Len(c) = Len(a) + Len(b)
    /\ \A j \in 1..Len(a) : c[j] = a[j]
    /\ \A j \in 1..Len(b) : c[Len(a) + j] = b[j]

\* A concatenation is that.
LEMMA ConcatParts ==
    ASSUME NEW M, NEW a \in Seq(M), NEW b \in Seq(M), NEW c, c = a \o b
    PROVE  c \in Seq(M) /\ IsJoin(c, a, b)
  <1>1. c \in Seq(M) /\ Len(c) = Len(a) + Len(b)
    OBVIOUS
  <1>2. \A j \in 1..Len(a) : c[j] = a[j]
    OBVIOUS
  <1>3. \A j \in 1..Len(b) : c[Len(a) + j] = b[j]
    OBVIOUS
  <1> QED
    BY ONLY <1>1, <1>2, <1>3 DEF IsJoin

\* A function of 1..n is a sequence of n.
LEMMA FunctionIsSeq ==
    ASSUME NEW M, NEW n \in Nat, NEW s, s = [j \in 1..n |-> s[j]],
           \A j \in 1..n : s[j] \in M
    PROVE  s \in Seq(M) /\ Len(s) = n
  <1>1. [j \in 1..n |-> s[j]] \in Seq(M) /\ Len([j \in 1..n |-> s[j]]) = n
    OBVIOUS
  <1> QED
    BY ONLY <1>1, s = [j \in 1..n |-> s[j]], Zenon

\* A sequence is a function of 1..Len.
LEMMA SeqIsFunction ==
    ASSUME NEW M, NEW s \in Seq(M)
    PROVE  Len(s) \in Nat /\ s = [j \in 1..Len(s) |-> s[j]]
  OBVIOUS

-----------------------------------------------------------------------------
(* FlattenSeq.                                                               *)

IsFlatten(f, seqs, n) ==
    f = [i \in 1..n |-> IF i = 1 THEN seqs[i] ELSE f[i - 1] \o seqs[i]]

\* The equation of FlattenSeq has a solution.
LEMMA FlattenExists ==
    ASSUME NEW seqs, NEW n \in Nat
    PROVE  \E f : IsFlatten(f, seqs, n)
  <1> DEFINE S == {m \in Nat : \E f : IsFlatten(f, seqs, m)}
  <1>1. 0 \in S
    <2> DEFINE f == [i \in 1..0 |-> seqs]
    <2>1. IsFlatten(f, seqs, 0)
      BY DEF IsFlatten
    <2> QED
      BY <2>1
  <1>2. ASSUME NEW m \in S PROVE m + 1 \in S
    <2>1. PICK f : IsFlatten(f, seqs, m)
      OBVIOUS
    <2> DEFINE g == [i \in 1..(m + 1) |-> IF i = 1 THEN seqs[i] ELSE f[i - 1] \o seqs[i]]
    <2>2. ASSUME NEW i \in 1..m PROVE g[i] = f[i]
      <3>1. f[i] = IF i = 1 THEN seqs[i] ELSE f[i - 1] \o seqs[i]
        BY <2>1, Zenon DEF IsFlatten
      <3>2. i \in 1..(m + 1)
        OBVIOUS
      <3>3. g[i] = IF i = 1 THEN seqs[i] ELSE f[i - 1] \o seqs[i]
        BY <3>2, Zenon
      <3> QED
        BY <3>1, <3>3, Zenon
    <2>3. \A i \in 1..(m + 1) : i # 1 => i - 1 \in 1..m
      OBVIOUS
    <2>4. IsFlatten(g, seqs, m + 1)
      BY <2>2, <2>3 DEF IsFlatten
    <2> QED
      BY <2>4
  <1> HIDE DEF S
  <1>3. S = Nat
    BY <1>1, <1>2, Induction DEF S
  <1> QED
    BY <1>3 DEF S

\* FlattenSeq of a sequence is the last value of a solution.
LEMMA FlattenRun ==
    ASSUME NEW seqs, Len(seqs) \in Nat, Len(seqs) # 0
    PROVE  \E f : IsFlatten(f, seqs, Len(seqs)) /\ FlattenSeq(seqs) = f[Len(seqs)]
  <1> DEFINE f == CHOOSE f : IsFlatten(f, seqs, Len(seqs))
  <1>1. IsFlatten(f, seqs, Len(seqs))
    BY FlattenExists
  <1>2. FlattenSeq(seqs) = f[Len(seqs)]
    BY Zenon DEF FlattenSeq, IsFlatten
  <1> QED
    BY <1>1, <1>2

\* What is in a flattened sequence of sequences was in one of them.
LEMMA FlattenType ==
    ASSUME NEW M, NEW seqs \in Seq(Seq(M))
    PROVE  FlattenSeq(seqs) \in Seq(M)
  <1>1. CASE Len(seqs) = 0
    <2>1. seqs = <<>>
      BY <1>1
    <2>2. FlattenSeq(seqs) = <<>>
      BY <1>1, <2>1 DEF FlattenSeq
    <2> QED
      BY <2>2
  <1>2. CASE Len(seqs) # 0
    <2>1. PICK f : IsFlatten(f, seqs, Len(seqs)) /\ FlattenSeq(seqs) = f[Len(seqs)]
      BY <1>2, FlattenRun
    <2> DEFINE S == {n \in Nat : n \in 1..Len(seqs) => f[n] \in Seq(M)}
    <2>2. 0 \in S
      OBVIOUS
    <2>3. ASSUME NEW n \in 0..Len(seqs), n \in S, n < Len(seqs) PROVE n + 1 \in S
      <3>1. n + 1 \in 1..Len(seqs) /\ (n + 1) - 1 = n
        BY <2>3
      <3>2. f[n + 1] = IF n + 1 = 1 THEN seqs[n + 1] ELSE f[(n + 1) - 1] \o seqs[n + 1]
        BY <2>1, <3>1, Zenon DEF IsFlatten
      <3>3. seqs[n + 1] \in Seq(M)
        BY <3>1
      <3>4. n + 1 # 1 => f[n] \in Seq(M)
        BY <2>3
      <3>5. f[n + 1] \in Seq(M)
        BY <3>1, <3>2, <3>3, <3>4
      <3> QED
        BY <3>1, <3>5
    <2>4. \A n \in 0..Len(seqs) : n \in S
      <3> HIDE DEF S
      <3>1. Len(seqs) \in Nat
        OBVIOUS
      <3> QED
        BY <2>2, <2>3, <3>1, InductionUpTo
    <2>5. f[Len(seqs)] \in Seq(M)
      BY <1>2, <2>4
    <2> QED
      BY <2>1, <2>5
  <1> QED
    BY <1>1, <1>2

\* Each of the first n sequences of seqs stands in s at its place, and s is no longer.
IsLaid(s, seqs, at, n) ==
    /\ Len(s) = at[n + 1] /\ \A i \in 1..(n + 1) : at[i] <= at[n + 1]
    /\ \A i \in 1..n : \A j \in 1..Len(seqs[i]) : s[at[i] + j] = seqs[i][j]

\* One more sequence.
LEMMA LaidNext ==
    ASSUME NEW M, NEW seqs \in Seq(Seq(M)), NEW at \in [1..(Len(seqs) + 1) -> Nat],
           \A i \in 1..Len(seqs) : at[i + 1] = at[i] + Len(seqs[i]),
           NEW n \in Nat, n < Len(seqs), NEW s \in Seq(M), IsLaid(s, seqs, at, n)
    PROVE  s \o seqs[n + 1] \in Seq(M) /\ IsLaid(s \o seqs[n + 1], seqs, at, n + 1)
  <1> PICK k : k = n + 1
    OBVIOUS
  <1>1. k \in 1..Len(seqs) /\ n \in Nat /\ Len(seqs) \in Nat
    OBVIOUS
  <1> PICK t : t = seqs[k]
    OBVIOUS
  <1>2. t \in Seq(M) /\ Len(t) \in Nat /\ at[k] \in Nat /\ at[k + 1] = at[k] + Len(t)
    <2>1. t \in Seq(M) /\ Len(t) \in Nat
      BY ONLY <1>1, t = seqs[k], seqs \in Seq(Seq(M))
    <2>2. k \in 1..(Len(seqs) + 1)
      BY ONLY <1>1
    <2>3. at[k] \in Nat
      BY ONLY <2>2, at \in [1..(Len(seqs) + 1) -> Nat]
    <2>4. at[k + 1] = at[k] + Len(t)
      BY ONLY <1>1, t = seqs[k], \A i \in 1..Len(seqs) : at[i + 1] = at[i] + Len(seqs[i])
    <2> QED
      BY <2>1, <2>3, <2>4
  <1> PICK u : u = s \o t
    OBVIOUS
  <1>3. Len(s) = at[k] /\ \A i \in 1..k : at[i] <= at[k]
    BY DEF IsLaid
  <1>4. /\ u \in Seq(M) /\ Len(u) = at[k + 1]
        /\ \A j \in 1..Len(s) : u[j] = s[j]
        /\ \A j \in 1..Len(t) : u[at[k] + j] = t[j]
    <2>1. u \in Seq(M) /\ IsJoin(u, s, t)
      BY ONLY s \in Seq(M), <1>2, u = s \o t, ConcatParts
    <2> QED
      BY ONLY <1>2, <1>3, <2>1 DEF IsJoin
  <1>5. \A i \in 1..(k + 1) : at[i] <= at[k + 1]
    <2>1. ASSUME NEW i \in 1..k PROVE at[i] \in Nat
      <3>1. i \in 1..(Len(seqs) + 1)
        BY ONLY <1>1, i \in 1..k
      <3> QED
        BY ONLY <3>1, at \in [1..(Len(seqs) + 1) -> Nat]
    <2>2. \A i \in 1..(k + 1) : i \in 1..k \/ i = k + 1
      BY ONLY <1>1
    <2> QED
      BY ONLY <1>2, <1>3, <2>1, <2>2
  <1>6. ASSUME NEW i \in 1..k, NEW j \in 1..Len(seqs[i]) PROVE u[at[i] + j] = seqs[i][j]
    <2>1. CASE i = k
      BY <1>4, <2>1
    <2>2. CASE i # k
      <3>1. i \in 1..n /\ i \in 1..Len(seqs) /\ i + 1 \in 1..k
        BY ONLY <1>1, <2>2, k = n + 1, i \in 1..k
      <3>2. Len(seqs[i]) \in Nat /\ at[i] \in Nat /\ at[i + 1] = at[i] + Len(seqs[i])
        <4>1. Len(seqs[i]) \in Nat
          BY ONLY <3>1, seqs \in Seq(Seq(M))
        <4>2. at[i] \in Nat
          BY ONLY <1>1, <3>1, at \in [1..(Len(seqs) + 1) -> Nat]
        <4> QED
          BY ONLY <3>1, <4>1, <4>2,
                  \A h \in 1..Len(seqs) : at[h + 1] = at[h] + Len(seqs[h])
      <3>3. at[i] + j \in 1..Len(s)
        <4>1. at[i + 1] <= at[k] /\ Len(s) = at[k] /\ at[k] \in Nat
          BY ONLY <1>2, <1>3, <3>1
        <4> PICK from \in Nat : from = at[i]
          BY ONLY <3>2
        <4> PICK l \in Nat : l = Len(seqs[i])
          BY ONLY <3>2
        <4>2. from + l <= Len(s) /\ Len(s) \in Nat /\ j \in 1..l
          BY ONLY <3>2, <4>1, from = at[i], l = Len(seqs[i]), j \in 1..Len(seqs[i])
        <4>3. from + j \in 1..Len(s)
          BY ONLY <4>2, from \in Nat, l \in Nat
        <4> QED
          BY ONLY <4>3, from = at[i]
      <3>4. s[at[i] + j] = seqs[i][j]
        BY <3>1 DEF IsLaid
      <3> QED
        BY <1>4, <3>3, <3>4
    <2> QED
      BY <2>1, <2>2
  <1>7. IsLaid(u, seqs, at, k)
    BY ONLY <1>4, <1>5, <1>6 DEF IsLaid
  <1> QED
    BY <1>4, <1>7

\* Where the sequences stand in the flattened one, if each begins after the one before.
LEMMA FlattenPlaces ==
    ASSUME NEW M, NEW seqs \in Seq(Seq(M)), NEW at \in [1..(Len(seqs) + 1) -> Nat],
           at[1] = 0, \A i \in 1..Len(seqs) : at[i + 1] = at[i] + Len(seqs[i])
    PROVE  FlattenSeq(seqs) \in Seq(M) /\ IsLaid(FlattenSeq(seqs), seqs, at, Len(seqs))
  <1>1. IsLaid(<<>>, seqs, at, 0) /\ <<>> \in Seq(M)
    BY DEF IsLaid
  <1>2. CASE Len(seqs) = 0
    <2>1. seqs = <<>>
      BY <1>2
    <2>2. FlattenSeq(seqs) = <<>>
      BY <1>2, <2>1 DEF FlattenSeq
    <2> QED
      BY <1>1, <1>2, <2>2
  <1>3. CASE Len(seqs) # 0
    <2>1. PICK f : IsFlatten(f, seqs, Len(seqs)) /\ FlattenSeq(seqs) = f[Len(seqs)]
      BY <1>3, FlattenRun
    <2> DEFINE S == {n \in Nat : n \in 1..Len(seqs) =>
                                   f[n] \in Seq(M) /\ IsLaid(f[n], seqs, at, n)}
    <2>2. 0 \in S
      OBVIOUS
    <2>3. ASSUME NEW n \in 0..Len(seqs), n \in S, n < Len(seqs) PROVE n + 1 \in S
      <3>1. n + 1 \in 1..Len(seqs) /\ (n + 1) - 1 = n /\ n \in Nat
        BY <2>3
      <3>2. f[n + 1] = IF n + 1 = 1 THEN seqs[n + 1] ELSE f[(n + 1) - 1] \o seqs[n + 1]
        BY <2>1, <3>1, Zenon DEF IsFlatten
      <3>3. PICK s \in Seq(M) : IsLaid(s, seqs, at, n) /\ f[n + 1] = s \o seqs[n + 1]
        <4>1. CASE n = 0
          <5>1. seqs[n + 1] \in Seq(M)
            BY <3>1
          <5>2. <<>> \o seqs[n + 1] = seqs[n + 1]
            BY ONLY <5>1
          <5>3. f[n + 1] = <<>> \o seqs[n + 1]
            BY ONLY <3>2, <4>1, <5>2
          <5> QED
            BY <1>1, <4>1, <5>3
        <4>2. CASE n # 0
          <5>1. n \in 1..Len(seqs) /\ n + 1 # 1
            BY ONLY <3>1, <4>2
          <5>2. f[n] \in Seq(M) /\ IsLaid(f[n], seqs, at, n)
            BY <2>3, <5>1
          <5>3. f[n + 1] = f[n] \o seqs[n + 1]
            BY ONLY <3>1, <3>2, <5>1
          <5> QED
            BY <5>2, <5>3
        <4> QED
          BY <4>1, <4>2
      <3>4. f[n + 1] \in Seq(M) /\ IsLaid(f[n + 1], seqs, at, n + 1)
        <4>1. n < Len(seqs)
          BY ONLY <2>3
        <4>2. s \o seqs[n + 1] \in Seq(M) /\ IsLaid(s \o seqs[n + 1], seqs, at, n + 1)
          BY ONLY seqs \in Seq(Seq(M)), at \in [1..(Len(seqs) + 1) -> Nat], n \in Nat,
                  s \in Seq(M), <3>1, <3>3, <4>1, LaidNext,
                  \A i \in 1..Len(seqs) : at[i + 1] = at[i] + Len(seqs[i])
        <4> QED
          BY ONLY <3>3, <4>2
      <3> QED
        BY <3>1, <3>4
    <2>4. \A n \in 0..Len(seqs) : n \in S
      <3> HIDE DEF S
      <3>1. Len(seqs) \in Nat
        OBVIOUS
      <3> QED
        BY <2>2, <2>3, <3>1, InductionUpTo
    <2>5. Len(seqs) \in 1..Len(seqs) /\ Len(seqs) \in 0..Len(seqs)
      BY ONLY <1>3, seqs \in Seq(Seq(M))
    <2> QED
      BY <2>1, <2>4, <2>5
  <1> QED
    BY <1>2, <1>3

-----------------------------------------------------------------------------
(* SetToSeqs.                                                                *)

\* A permutation of a finite set is a sequence of it in which each of its members
\* stands exactly once.
LEMMA SetToSeqsType ==
    ASSUME NEW S, IsFiniteSet(S), NEW order \in SetToSeqs(S)
    PROVE  /\ order \in Seq(S)
           /\ Len(order) \in Nat /\ DOMAIN order = 1..Len(order)
           /\ \A i, j \in DOMAIN order : order[i] = order[j] => i = j
           /\ \A x \in S : \E i \in DOMAIN order : order[i] = x
  <1> DEFINE n == Cardinality(S)
             D == 1..n
  <1>1. n \in Nat
    BY FS_CardinalityType
  <1>2. order \in [D -> S] /\ \A i, j \in D : i # j => order[i] # order[j]
    BY DEF SetToSeqs
  <1>3. IsFiniteSet(D) /\ Cardinality(D) = n
    BY <1>1, FS_Interval
  <1>4. order \in Seq(S) /\ Len(order) = n /\ DOMAIN order = D
    BY <1>1, <1>2
  <1>5. \A x \in S : \E i \in D : order[i] = x
    <2>1. order \in Injection(D, S)
      BY <1>2 DEF Injection, IsInjective
    <2> HIDE DEF D, n
    <2>2. order \in Surjection(D, S)
      <3>1. Cardinality(D) = Cardinality(S)
        BY <1>3 DEF n
      <3> QED
        BY <2>1, <3>1, FS_Injection
    <2> QED
      BY <2>2 DEF Surjection
  <1> QED
    BY <1>1, <1>2, <1>4, <1>5
=============================================================================
