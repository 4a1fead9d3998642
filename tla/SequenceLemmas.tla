---------------------------- MODULE SequenceLemmas ----------------------------
(***************************************************************************)
(* Facts about the sequence operators the model uses and the provers do not *)
(* know.                                                                    *)
(***************************************************************************)
EXTENDS Integers, Sequences, SequencesExt, NaturalsInduction, WellFoundedInduction,
        FiniteSetTheorems, TLAPS

\* A nonempty set of naturals has a least element: what an induction over a sequence
\* uses here, on the set of the positions where the claim fails.
LEMMA Least ==
  ASSUME NEW T \in SUBSET Nat, T # {}
  PROVE  \E x \in T : \A y \in T : x <= y
<1> DEFINE R == OpToRel(<, Nat)
<1>1. IsWellFoundedOn(R, Nat)
  BY NatLessThanWellFounded, Zenon
<1>2. PICK x \in T : \A y \in T : ~ (<<y, x>> \in R)
  <2> HIDE DEF R
  <2> QED BY <1>1, WFMin
<1>3. \A y \in T : ~(y < x)
  BY <1>2 DEF OpToRel
<1> QED BY <1>3

\* f holds the partial concatenations FlattenSeq is computed from.
Flattens(f, ss, C) ==
  /\ f \in [1..Len(ss) -> C] /\ f[1] = ss[1] /\ FlattenSeq(ss) = f[Len(ss)]
  /\ \A i \in 2..Len(ss) : f[i] = f[i - 1] \o ss[i]

LEMMA FlattenSteps ==
  ASSUME NEW C, \A x, y \in C : x \o y \in C, NEW ss \in Seq(C), Len(ss) # 0
  PROVE  \E f : Flattens(f, ss, C)
<1> DEFINE N == Len(ss)
           Val(f, i) == IF i = 1 THEN ss[i] ELSE f[i - 1] \o ss[i]
           Fits(f, n) == f \in [1..n -> C] /\ \A i \in 1..n : f[i] = Val(f, i)
           T == {n \in Nat : n <= N /\ ~\E f : Fits(f, n)}
<1>1. N \in Nat /\ \A i \in 1..N : ss[i] \in C
  OBVIOUS
<1>2. T = {}
  <2> SUFFICES ASSUME T # {} PROVE FALSE
    OBVIOUS
  <2>1. PICK x \in T : \A y \in T : x <= y
    <3>1. T \in SUBSET Nat
      OBVIOUS
    <3> HIDE DEF T
    <3> QED BY <3>1, Least
  <2>2. x # 0
    <3>1. Fits([i \in 1..0 |-> <<>>], 0)
      OBVIOUS
    <3> QED BY <2>1, <3>1
  <2>3. x - 1 \in Nat /\ x - 1 <= N /\ x - 1 \notin T /\ x \in 1..N
    <3>1. x \in Nat /\ x <= N
      BY <2>1
    <3>2. x - 1 \in Nat /\ x - 1 <= N /\ ~(x <= x - 1) /\ x \in 1..N
      BY <1>1, <2>2, <3>1
    <3>3. x - 1 \notin T
      <4> HIDE DEF T
      <4> QED BY <2>1, <3>2
    <3> QED BY <3>2, <3>3
  <2>4. PICK f : Fits(f, x - 1)
    BY <2>3
  <2> DEFINE g == [i \in 1..x |-> IF i < x THEN f[i] ELSE Val(f, x)]
  <2>5. Val(f, x) \in C
    <3>1. CASE x = 1
      BY <1>1, <2>3, <3>1
    <3>2. CASE x # 1
      <4>1. x - 1 \in 1..(x - 1)
        BY <2>3, <3>2
      <4>2. f[x - 1] \in C /\ ss[x] \in C
        BY <1>1, <2>3, <2>4, <4>1
      <4> QED BY <3>2, <4>2
    <3> QED BY <3>1, <3>2
  <2>6. g \in [1..x -> C]
    BY <2>3, <2>4, <2>5
  <2>7. ASSUME NEW i \in 1..x PROVE g[i] = Val(g, i)
    <3>1. CASE i = 1
      <4>1. CASE x = 1
        BY <3>1, <4>1
      <4>2. CASE x # 1
        <5>1. 1 \in 1..(x - 1) /\ 1 < x
          BY <2>3, <4>2
        <5> QED BY <2>4, <3>1, <5>1
      <4> QED BY <4>1, <4>2
    <3>2. CASE i # 1
      <4>1. i - 1 \in 1..x /\ i - 1 < x
        BY <2>3, <3>2
      <4>2. g[i - 1] = f[i - 1]
        BY <4>1
      <4>3. Val(g, i) = Val(f, i)
        <5> HIDE DEF g
        <5> QED BY <3>2, <4>2
      <4>4. CASE i < x
        <5>1. i \in 1..(x - 1)
          BY <2>3, <4>4
        <5> QED BY <2>4, <4>3, <4>4, <5>1
      <4>5. CASE i = x
        BY <4>3, <4>5
      <4> QED BY <2>3, <4>4, <4>5
    <3> QED BY <3>1, <3>2
  <2>8. Fits(g, x)
    BY <2>6, <2>7
  <2> HIDE DEF Fits
  <2> QED BY <2>1, <2>8
<1>3. PICK f : Fits(f, N)
  <2>1. N \notin T
    BY <1>2
  <2>2. N <= N
    BY <1>1, <1>2
  <2> HIDE DEF Fits, N
  <2> QED BY <1>1, <2>1, <2>2
<1> DEFINE F == CHOOSE h : h = [i \in 1..N |-> Val(h, i)]
<1>4. F = [i \in 1..N |-> Val(F, i)]
  <2>1. f = [i \in 1..N |-> Val(f, i)]
    BY <1>3
  <2> HIDE DEF Val, N, Fits, T
  <2> QED BY <2>1
<1>5. N # 0
  OBVIOUS
<1>6. FlattenSeq(ss) = F[N]
  BY <1>5, Zenon DEF FlattenSeq
<1> HIDE DEF F
<1> DEFINE W == {i \in Nat : i \in 1..N /\ F[i] \notin C}
<1>7. W = {}
  <2> SUFFICES ASSUME W # {} PROVE FALSE
    OBVIOUS
  <2>1. PICK x \in W : \A y \in W : x <= y
    <3>1. W \in SUBSET Nat
      OBVIOUS
    <3> HIDE DEF W
    <3> QED BY <3>1, Least
  <2>2. x \in 1..N /\ F[x] = Val(F, x) /\ F[x] \notin C
    BY <1>4, <2>1
  <2>3. x # 1
    BY <1>1, <2>2
  <2>4. x - 1 \in 1..N /\ x - 1 \notin W
    BY <1>1, <2>1, <2>2, <2>3
  <2>5. F[x - 1] \in C
    BY <2>4
  <2> QED BY <1>1, <2>2, <2>3, <2>5
<1>8. 1 \in 1..N /\ F[1] = ss[1]
  BY <1>1, <1>4, <1>5
<1>9. \A i \in 2..N : i \in 1..N /\ F[i] = F[i - 1] \o ss[i]
  <2> SUFFICES ASSUME NEW i \in 2..N PROVE i \in 1..N /\ F[i] = F[i - 1] \o ss[i]
    OBVIOUS
  <2>1. i \in 1..N /\ i # 1
    BY <1>1
  <2> QED BY <1>4, <2>1
<1>10. F \in [1..N -> C]
  <2>1. \A i \in 1..N : F[i] \in C
    BY <1>7
  <2>2. F = [i \in 1..N |-> F[i]]
    BY <1>4
  <2> QED BY <2>1, <2>2
<1> HIDE DEF N, Val, W, T, Fits
<1> QED BY <1>6, <1>8, <1>9, <1>10 DEF N, Flattens

\* FlattenSeq stays inside any set of sequences that is closed under concatenation.
LEMMA FlattenClosed ==
  ASSUME NEW C, \A x, y \in C : x \o y \in C, NEW ss \in Seq(C), Len(ss) # 0
  PROVE  FlattenSeq(ss) \in C
<1>1. PICK f : f \in [1..Len(ss) -> C] /\ FlattenSeq(ss) = f[Len(ss)]
  BY FlattenSteps, Zenon DEF Flattens
<1>2. Len(ss) \in 1..Len(ss)
  OBVIOUS
<1> QED BY <1>1, <1>2

\* FlattenSeq of sequences over S is a sequence over S.
LEMMA FlattenType ==
  ASSUME NEW S, NEW ss \in Seq(Seq(S))
  PROVE  FlattenSeq(ss) \in Seq(S)
<1>1. CASE Len(ss) = 0
  BY <1>1 DEF FlattenSeq
<1>2. CASE Len(ss) # 0
  <2> DEFINE C == Seq(S)
  <2>1. ss \in Seq(C) /\ \A x, y \in C : x \o y \in C
    OBVIOUS
  <2> HIDE DEF C
  <2>2. FlattenSeq(ss) \in C
    BY <1>2, <2>1, FlattenClosed
  <2> QED BY <2>2 DEF C
<1> QED BY <1>1, <1>2

(***************************************************************************)
(* Elements of the sequences the operators return                           *)
(***************************************************************************)
LEMMA SingletonSeq ==
  ASSUME NEW S, NEW x \in S
  PROVE  <<x>> \in Seq(S) /\ Len(<<x>>) = 1 /\ <<x>>[1] = x
OBVIOUS

LEMMA PairSeq ==
  ASSUME NEW S, NEW x \in S, NEW y \in S
  PROVE  <<x, y>> \in Seq(S) /\ Len(<<x, y>>) = 2 /\ <<x, y>>[1] = x /\ <<x, y>>[2] = y
OBVIOUS

LEMMA FrontSeq ==
  ASSUME NEW S, NEW s \in Seq(S), Len(s) >= 1
  PROVE  /\ Front(s) \in Seq(S) /\ Len(Front(s)) = Len(s) - 1
         /\ \A i \in 1..(Len(s) - 1) : Front(s)[i] = s[i]
<1> DEFINE n == Len(s) - 1
<1>1. n \in Nat /\ n <= Len(s) /\ Front(s) = SubSeq(s, 1, n)
  BY DEF Front
<1> HIDE DEF n
<1>2. SubSeq(s, 1, n) \in Seq(S) /\ Len(SubSeq(s, 1, n)) = n
  BY <1>1
<1>3. \A i \in 1..n : SubSeq(s, 1, n)[i] = s[i]
  BY <1>1
<1> QED BY <1>1, <1>2, <1>3 DEF n

LEMMA TailSeq ==
  ASSUME NEW S, NEW s \in Seq(S), Len(s) >= 1
  PROVE  Tail(s) \in Seq(S) /\ Len(Tail(s)) = Len(s) - 1
OBVIOUS

LEMMA ConcatSeq ==
  ASSUME NEW S, NEW s \in Seq(S), NEW t \in Seq(S)
  PROVE  /\ s \o t \in Seq(S) /\ Len(s \o t) = Len(s) + Len(t)
         /\ \A i \in 1..Len(s) : (s \o t)[i] = s[i]
         /\ \A i \in 1..Len(t) : (s \o t)[Len(s) + i] = t[i]
OBVIOUS

LEMMA AppendSeq ==
  ASSUME NEW S, NEW s \in Seq(S), NEW x \in S
  PROVE  /\ Append(s, x) \in Seq(S) /\ Len(Append(s, x)) = Len(s) + 1
         /\ \A i \in 1..Len(s) : Append(s, x)[i] = s[i]
         /\ Append(s, x)[Len(s) + 1] = x
OBVIOUS

\* The sequence without its first k elements.
LEMMA DropSeq ==
  ASSUME NEW S, NEW s \in Seq(S), NEW k \in 1..Len(s)
  PROVE  /\ SubSeq(s, k + 1, Len(s)) \in Seq(S) /\ Len(SubSeq(s, k + 1, Len(s))) = Len(s) - k
         /\ \A i \in 1..(Len(s) - k) : SubSeq(s, k + 1, Len(s))[i] = s[k + i]
OBVIOUS

\* The last element takes the place of element i.
LEMMA SwapOutSeq ==
  ASSUME NEW S, NEW s \in Seq(S), NEW i \in 1..Len(s)
  PROVE  LET t == Front([s EXCEPT ![i] = Last(s)])
         IN /\ t \in Seq(S) /\ Len(t) = Len(s) - 1
            /\ \A j \in 1..(Len(s) - 1) : t[j] = IF j = i THEN s[Len(s)] ELSE s[j]
<1> DEFINE e == [s EXCEPT ![i] = Last(s)]
<1>1. Len(s) \in Nat /\ Len(s) >= 1 /\ Len(s) \in 1..Len(s)
  OBVIOUS
<1>2. Last(s) \in S
  BY <1>1 DEF Last
<1>3. e \in Seq(S) /\ Len(e) = Len(s)
  BY <1>2
<1>4. \A j \in 1..Len(s) : e[j] = IF j = i THEN s[Len(s)] ELSE s[j]
  BY DEF Last
<1> HIDE DEF e
<1>5. /\ Front(e) \in Seq(S) /\ Len(Front(e)) = Len(s) - 1
      /\ \A j \in 1..(Len(s) - 1) : Front(e)[j] = e[j]
  BY <1>1, <1>3, FrontSeq
<1>6. \A j \in 1..(Len(s) - 1) : j \in 1..Len(s)
  BY <1>1
<1> QED BY <1>4, <1>5, <1>6, Zenon DEF e

LEMMA ContainsAppend ==
  ASSUME NEW S, NEW s \in Seq(S), NEW x \in S, NEW y
  PROVE  Contains(Append(s, x), y) <=> Contains(s, y) \/ y = x
<1>1. Len(s) \in Nat
  OBVIOUS
<1> DEFINE a == Append(s, x)
<1>2. Len(a) = Len(s) + 1 /\ (\A i \in 1..Len(s) : a[i] = s[i]) /\ a[Len(s) + 1] = x
  BY AppendSeq
<1> HIDE DEF a
<1>3. \A i \in 1..(Len(s) + 1) : i \in 1..Len(s) \/ i = Len(s) + 1
  BY <1>1
<1>4. (\A i \in 1..Len(s) : i \in 1..(Len(s) + 1)) /\ Len(s) + 1 \in 1..(Len(s) + 1)
  BY <1>1
<1>5. Contains(a, y) <=> Contains(s, y) \/ y = x
  BY <1>2, <1>3, <1>4, Zenon DEF Contains
<1> QED BY <1>5 DEF a

LEMMA SeqMono ==
  ASSUME NEW S, NEW T, S \subseteq T, NEW s \in Seq(S)
  PROVE  s \in Seq(T)
OBVIOUS

\* SetToSeq lists a finite set without repetition.
LEMMA SetToSeqLists ==
  ASSUME NEW S, IsFiniteSet(S)
  PROVE  /\ Cardinality(S) \in Nat
         /\ SetToSeq(S) \in Seq(S) /\ Len(SetToSeq(S)) = Cardinality(S)
         /\ \A i \in 1..Cardinality(S) : SetToSeq(S)[i] \in S
         /\ \A x \in S : \E i \in 1..Cardinality(S) : SetToSeq(S)[i] = x
<1> DEFINE n == Cardinality(S)
           f == SetToSeq(S)
<1>1. n \in Nat /\ ExistsBijection(1..n, S)
  BY FS_CardinalityType
<1>2. PICK g \in [1..n -> S] : IsInjective(g)
  BY <1>1, Zenon DEF ExistsBijection, Bijection, Injection
<1>3. f \in [1..n -> S] /\ IsInjective(f)
  BY <1>2, Zenon DEF SetToSeq
<1> HIDE DEF f
<1>4. f \in Injection(1..n, S)
  BY <1>3, Zenon DEF Injection
<1>5. IsFiniteSet(1..n) /\ Cardinality(1..n) = n
  <2>1. IsFiniteSet(1..n) /\ Cardinality(1..n) = IF 1 > n THEN 0 ELSE n - 1 + 1
    BY <1>1, FS_Interval
  <2> QED BY <1>1, <2>1
<1>6. f \in Surjection(1..n, S)
  BY <1>4, <1>5, FS_Injection
<1>7. \A x \in S : \E i \in 1..n : f[i] = x
  BY <1>6, Zenon DEF Surjection
<1> HIDE DEF n
<1>8. f \in Seq(S) /\ Len(f) = n /\ \A i \in 1..n : f[i] \in S
  BY <1>1, <1>3
<1> QED BY <1>1, <1>7, <1>8 DEF f, n

\* FlattenSeq drops no element of its parts.
LEMMA FlattenHas ==
  ASSUME NEW S, NEW ss \in Seq(Seq(S)), NEW k \in 1..Len(ss), NEW x \in Range(ss[k])
  PROVE  x \in Range(FlattenSeq(ss))
<1> DEFINE N == Len(ss)
<1>1. N \in Nat /\ N # 0 /\ k \in 1..N /\ \A i \in 1..N : ss[i] \in Seq(S)
  OBVIOUS
<1>2. PICK f : /\ f \in [1..N -> Seq(S)] /\ f[1] = ss[1] /\ FlattenSeq(ss) = f[N]
               /\ \A i \in 2..N : f[i] = f[i - 1] \o ss[i]
  <2>1. \A p, q \in Seq(S) : p \o q \in Seq(S)
    OBVIOUS
  <2> DEFINE C == Seq(S)
  <2>2. ss \in Seq(C) /\ Len(ss) # 0
    BY <1>1
  <2>4. \A p, q \in C : p \o q \in C
    BY <2>1
  <2> HIDE DEF C, N
  <2>3. \E f : Flattens(f, ss, C)
    BY <2>2, <2>4, FlattenSteps, Zenon
  <2> QED BY <2>3, Zenon DEF C, N, Flattens
<1>3. ASSUME NEW p \in Seq(S), NEW q \in Seq(S), x \in Range(p) \/ x \in Range(q)
      PROVE  x \in Range(p \o q)
  <2>1. /\ Len(p \o q) = Len(p) + Len(q) /\ p \o q \in Seq(S)
        /\ \A i \in 1..Len(p) : (p \o q)[i] = p[i]
        /\ \A i \in 1..Len(q) : (p \o q)[Len(p) + i] = q[i]
    BY ConcatSeq
  <2>2. DOMAIN p = 1..Len(p) /\ DOMAIN q = 1..Len(q) /\ DOMAIN (p \o q) = 1..Len(p \o q)
        /\ Len(p) \in Nat /\ Len(q) \in Nat
    BY <2>1
  <2>3. \A i \in 1..Len(p) : i \in 1..Len(p \o q)
    BY <2>1, <2>2
  <2>4. \A i \in 1..Len(q) : Len(p) + i \in 1..Len(p \o q)
    BY <2>1, <2>2
  <2> QED BY <1>3, <2>1, <2>2, <2>3, <2>4, Zenon DEF Range
<1> HIDE DEF N
<1> DEFINE W == {i \in Nat : i \in k..N /\ x \notin Range(f[i])}
<1>4. W = {}
  <2> SUFFICES ASSUME W # {} PROVE FALSE
    OBVIOUS
  <2>1. PICK i \in W : \A y \in W : i <= y
    <3>1. W \in SUBSET Nat
      OBVIOUS
    <3> HIDE DEF W
    <3> QED BY <3>1, Least
  <2>2. i \in k..N /\ i \in 1..N /\ x \notin Range(f[i])
    BY <1>1, <2>1
  <2>3. CASE i = 1
    <3>1. k = 1
      BY <1>1, <2>2, <2>3
    <3> QED BY <1>2, <2>2, <2>3, <3>1
  <2>4. CASE i # 1
    <3>1. i \in 2..N /\ i - 1 \in 1..N
      BY <1>1, <2>2, <2>4
    <3>2. f[i - 1] \in Seq(S) /\ ss[i] \in Seq(S) /\ f[i] = f[i - 1] \o ss[i]
      BY <1>1, <1>2, <2>2, <3>1
    <3>3. x \in Range(f[i - 1]) \/ x \in Range(ss[i])
      <4>1. CASE k = i
        BY <4>1
      <4>2. CASE k # i
        <5>1. i - 1 \in k..N /\ i - 1 \in Nat /\ ~(i <= i - 1)
          BY <1>1, <2>2, <3>1, <4>2
        <5> QED BY <2>1, <5>1
      <4> QED BY <4>1, <4>2
    <3>4. x \in Range(f[i - 1] \o ss[i])
      BY <1>3, <3>2, <3>3
    <3> QED BY <2>2, <3>2, <3>4
  <2> QED BY <2>3, <2>4
<1>5. N \in k..N
  BY <1>1
<1>6. x \in Range(f[N])
  BY <1>1, <1>4, <1>5
<1> QED BY <1>2, <1>6

\* SetToSeq lists no element twice.
LEMMA SetToSeqOnce ==
  ASSUME NEW S, IsFiniteSet(S)
  PROVE  \A i, j \in 1..Cardinality(S) : SetToSeq(S)[i] = SetToSeq(S)[j] => i = j
<1> DEFINE n == Cardinality(S)
           f == SetToSeq(S)
<1>1. n \in Nat /\ ExistsBijection(1..n, S)
  BY FS_CardinalityType
<1>2. PICK g \in [1..n -> S] : IsInjective(g)
  BY <1>1, Zenon DEF ExistsBijection, Bijection, Injection
<1>3. f \in [1..n -> S] /\ IsInjective(f)
  BY <1>2, Zenon DEF SetToSeq
<1> HIDE DEF f, n
<1>4. \A i, j \in 1..n : f[i] = f[j] => i = j
  BY <1>3 DEF IsInjective
<1> QED BY <1>4 DEF f, n

(***************************************************************************)
(* Recursive functions, membership and ends                                 *)
(***************************************************************************)
\* f is computed from base in k steps.
Computes(f, S, base, k, step) ==
  f \in [0..k -> S] /\ f[0] = base /\ \A i \in 1..k : f[i] = step[i][f[i - 1]]

\* What a recursive function on 0..k is defined by has a solution.
LEMMA Recursion ==
  ASSUME NEW S, NEW base \in S, NEW k \in Nat, NEW step \in [1..k -> [S -> S]]
  PROVE  \E f : Computes(f, S, base, k, step)
<1> DEFINE Fits(f, n) == f \in [0..n -> S] /\ f[0] = base /\ \A i \in 1..n : f[i] = step[i][f[i - 1]]
           T == {n \in Nat : n <= k /\ ~\E f : Fits(f, n)}
<1>1. T = {}
  <2> SUFFICES ASSUME T # {} PROVE FALSE
    OBVIOUS
  <2>1. PICK x \in T : \A y \in T : x <= y
    <3>1. T \in SUBSET Nat
      OBVIOUS
    <3> HIDE DEF T
    <3> QED BY <3>1, Least
  <2>2. x # 0
    <3>1. Fits([i \in 0..0 |-> base], 0)
      OBVIOUS
    <3> QED BY <2>1, <3>1
  <2>3. x \in Nat /\ x <= k
    BY <2>1
  <2>4. x - 1 \in Nat /\ x - 1 <= k /\ ~(x <= x - 1) /\ x \in 1..k
    BY <2>2, <2>3
  <2>5. x - 1 \notin T
    <3> HIDE DEF T
    <3> QED BY <2>1, <2>4
  <2>6. PICK f : Fits(f, x - 1)
    BY <2>4, <2>5
  <2> DEFINE g == [i \in 0..x |-> IF i < x THEN f[i] ELSE step[x][f[x - 1]]]
  <2>7. x - 1 \in 0..(x - 1) /\ f[x - 1] \in S
    BY <2>4, <2>6
  <2>8. step[x][f[x - 1]] \in S
    BY <2>4, <2>7
  <2>9. g \in [0..x -> S]
    <3>1. ASSUME NEW i \in 0..x PROVE (IF i < x THEN f[i] ELSE step[x][f[x - 1]]) \in S
      <4>1. CASE i < x
        <5>1. i \in 0..(x - 1)
          BY <2>3, <4>1
        <5> QED BY <2>6, <4>1, <5>1
      <4> QED BY <2>8, <4>1
    <3> QED BY <3>1
  <2>10. g[0] = base
    <3>1. 0 \in 0..x /\ 0 < x
      BY <2>2, <2>3
    <3> QED BY <2>6, <3>1
  <2>11. ASSUME NEW i \in 1..x PROVE g[i] = step[i][g[i - 1]]
    <3>1. i \in 0..x /\ i - 1 \in 0..x /\ i - 1 < x
      BY <2>3
    <3>2. g[i - 1] = f[i - 1]
      BY <3>1
    <3>3. CASE i < x
      <4>1. i \in 1..(x - 1)
        BY <2>3, <3>3
      <4>2. f[i] = step[i][f[i - 1]]
        BY <2>6, <4>1
      <4>3. g[i] = f[i]
        BY <3>1, <3>3
      <4> HIDE DEF g
      <4> QED BY <3>2, <4>2, <4>3
    <3>4. CASE i = x
      <4>1. g[x] = step[x][f[x - 1]]
        BY <3>1, <3>4
      <4> HIDE DEF g
      <4> QED BY <3>2, <3>4, <4>1
    <3> QED BY <2>3, <3>3, <3>4
  <2>12. Fits(g, x)
    <3> HIDE DEF g
    <3> QED BY <2>9, <2>10, <2>11
  <2> HIDE DEF Fits, g
  <2> QED BY <2>1, <2>12
<1>2. PICK f : Fits(f, k)
  <2>1. k \notin T
    BY <1>1
  <2>2. k <= k
    OBVIOUS
  <2> HIDE DEF Fits
  <2> QED BY <2>1, <2>2
<1> QED BY <1>2, Zenon DEF Computes

\* Whether something is there after k changes: the last one that puts it there comes
\* after all that take it away, or it was there before and none takes it away.
LEMMA LastChange ==
  ASSUME NEW k \in Nat, NEW In, NEW Pos, NEW Neg,
         \A i \in 1..k : i \in In <=> i \in Pos \/ (i - 1 \in In /\ i \notin Neg)
  PROVE  k \in In <=> \/ \E i \in 1..k : i \in Pos /\ \A j \in (i + 1)..k : j \notin Neg
                      \/ 0 \in In /\ \A j \in 1..k : j \notin Neg
<1> DEFINE There(n) == \/ \E i \in 1..n : i \in Pos /\ \A j \in (i + 1)..n : j \notin Neg
                       \/ 0 \in In /\ \A j \in 1..n : j \notin Neg
           T == {n \in Nat : n <= k /\ ~(n \in In <=> There(n))}
<1>1. T = {}
  <2> SUFFICES ASSUME T # {} PROVE FALSE
    OBVIOUS
  <2>1. PICK x \in T : \A y \in T : x <= y
    <3>1. T \in SUBSET Nat
      OBVIOUS
    <3> HIDE DEF T
    <3> QED BY <3>1, Least
  <2>2. x \in Nat /\ x <= k /\ ~(x \in In <=> There(x))
    BY <2>1
  <2>3. 0 \in In <=> There(0)
    OBVIOUS
  <2>4. x # 0
    BY <2>2, <2>3
  <2>5. x - 1 \in Nat /\ x - 1 <= k /\ ~(x <= x - 1) /\ x \in 1..k
    BY <2>2, <2>4
  <2>6. x - 1 \notin T
    <3> HIDE DEF T
    <3> QED BY <2>1, <2>5
  <2>7. x - 1 \in In <=> There(x - 1)
    BY <2>5, <2>6
  <2>8. x \in In <=> x \in Pos \/ (There(x - 1) /\ x \notin Neg)
    <3> HIDE DEF There
    <3> QED BY <2>5, <2>7
  <2>9. \A j \in 1..x : j \in 1..(x - 1) \/ j = x
    BY <2>2
  <2>10. \A j \in 1..(x - 1) : j \in 1..x /\ x \in (j + 1)..x
    BY <2>2
  <2>11. \A i \in 1..x : \A j \in (i + 1)..x : j \in (i + 1)..(x - 1) \/ j = x
    BY <2>2
  <2>12. \A i \in 1..x : \A j \in (i + 1)..(x - 1) : j \in (i + 1)..x
    BY <2>2
  <2>13. \A j \in (x + 1)..x : FALSE
    BY <2>2
  <2>14. There(x) <=> x \in Pos \/ (There(x - 1) /\ x \notin Neg)
    <3>1. ASSUME There(x) PROVE x \in Pos \/ (There(x - 1) /\ x \notin Neg)
      <4>1. ASSUME NEW i \in 1..x, i \in Pos, \A j \in (i + 1)..x : j \notin Neg
            PROVE  x \in Pos \/ (There(x - 1) /\ x \notin Neg)
        BY <2>5, <2>9, <2>10, <2>12, <4>1, Zenon
      <4>2. ASSUME 0 \in In, \A j \in 1..x : j \notin Neg
            PROVE  There(x - 1) /\ x \notin Neg
        <5>1. x \in 1..x
          BY <2>5
        <5> QED BY <2>10, <4>2, <5>1, Zenon
      <4> QED BY <3>1, <4>1, <4>2, Zenon
    <3>2. ASSUME x \in Pos PROVE There(x)
      <4>1. x \in 1..x
        BY <2>5
      <4> QED BY <2>13, <3>2, <4>1, Zenon
    <3>3. ASSUME There(x - 1), x \notin Neg PROVE There(x)
      BY <2>9, <2>10, <2>11, <3>3, Zenon
    <3> QED BY <3>1, <3>2, <3>3, Zenon
  <2> HIDE DEF There
  <2> QED BY <2>2, <2>8, <2>14
<1>2. k \notin T
  BY <1>1
<1>3. k <= k
  OBVIOUS
<1> HIDE DEF There
<1>4. k \in In <=> There(k)
  BY <1>2, <1>3
<1> QED BY <1>4 DEF There

\* Contains, ToSet and the positions say the same.
LEMMA ToSetOf ==
  ASSUME NEW S, NEW s \in Seq(S), NEW a
  PROVE  /\ Contains(s, a) <=> a \in ToSet(s)
         /\ a \in ToSet(s) <=> \E i \in 1..Len(s) : s[i] = a
<1>1. DOMAIN s = 1..Len(s)
  OBVIOUS
<1> QED BY <1>1, Zenon DEF Contains, ToSet

LEMMA ToSetAppend ==
  ASSUME NEW S, NEW s \in Seq(S), NEW x \in S
  PROVE  Append(s, x) \in Seq(S) /\ \A y : y \in ToSet(Append(s, x)) <=> y \in ToSet(s) \/ y = x
<1>1. Append(s, x) \in Seq(S)
  OBVIOUS
<1>2. ASSUME NEW y PROVE y \in ToSet(Append(s, x)) <=> y \in ToSet(s) \/ y = x
  <2>1. Contains(Append(s, x), y) <=> Contains(s, y) \/ y = x
    BY ContainsAppend
  <2>2. (Contains(s, y) <=> y \in ToSet(s)) /\ (Contains(Append(s, x), y) <=> y \in ToSet(Append(s, x)))
    BY <1>1, ToSetOf, Zenon
  <2> QED BY <2>1, <2>2, Zenon
<1> QED BY <1>1, <1>2, Zenon

\* Pairs in a row.
LEMMA FlattenPairs ==
  ASSUME NEW S, NEW ss \in Seq(Seq(S)), \A i \in 1..Len(ss) : Len(ss[i]) = 2
  PROVE  /\ Len(FlattenSeq(ss)) = 2 * Len(ss)
         /\ \A i \in 1..Len(ss) : /\ FlattenSeq(ss)[2 * i - 1] = ss[i][1]
                                  /\ FlattenSeq(ss)[2 * i] = ss[i][2]
<1> DEFINE N == Len(ss)
<1>1. N \in Nat /\ \A i \in 1..N : ss[i] \in Seq(S)
  OBVIOUS
<1>2. CASE N = 0
  <2>1. FlattenSeq(ss) = <<>>
    BY <1>2 DEF FlattenSeq
  <2> QED BY <1>2, <2>1
<1>3. CASE N # 0
  <2>1. PICK f : /\ f \in [1..N -> Seq(S)] /\ f[1] = ss[1] /\ FlattenSeq(ss) = f[N]
                 /\ \A i \in 2..N : f[i] = f[i - 1] \o ss[i]
    <3> DEFINE C == Seq(S)
    <3>1. ss \in Seq(C) /\ \A p, q \in C : p \o q \in C
      OBVIOUS
    <3> HIDE DEF C
    <3>2. \E f : Flattens(f, ss, C)
      BY <1>3, <3>1, FlattenSteps, Zenon
    <3> QED BY <3>2, Zenon DEF C, Flattens
  <2> DEFINE Good(i) == /\ Len(f[i]) = 2 * i
                        /\ \A j \in 1..i : f[i][2 * j - 1] = ss[j][1] /\ f[i][2 * j] = ss[j][2]
             T == {i \in Nat : i \in 1..N /\ ~Good(i)}
  <2> HIDE DEF N
  <2>2. T = {}
    <3> SUFFICES ASSUME T # {} PROVE FALSE
      OBVIOUS
    <3>1. PICK x \in T : \A y \in T : x <= y
      <4>1. T \in SUBSET Nat
        OBVIOUS
      <4> HIDE DEF T
      <4> QED BY <4>1, Least
    <3>2. x \in 1..N /\ ~Good(x)
      BY <3>1
    <3>3. Len(ss[x]) = 2 /\ ss[x] \in Seq(S)
      BY <1>1, <3>2 DEF N
    <3>4. CASE x = 1
      <4>1. f[x] = ss[x]
        BY <2>1, <3>4
      <4>2. \A j \in 1..x : 2 * j - 1 = 1 /\ 2 * j = 2 /\ j = x
        BY <3>4
      <4>3. Len(f[x]) = 2 * x
        BY <3>3, <3>4, <4>1
      <4> QED BY <3>2, <4>1, <4>2, <4>3
    <3>5. CASE x # 1
      <4>1. x \in 2..N /\ x - 1 \in 1..N /\ x - 1 \in Nat /\ ~(x <= x - 1)
        BY <1>1, <3>2, <3>5
      <4>2. x - 1 \notin T
        <5> HIDE DEF T
        <5> QED BY <3>1, <4>1
      <4>3. Good(x - 1)
        BY <4>1, <4>2
      <4>4. f[x] = f[x - 1] \o ss[x] /\ f[x - 1] \in Seq(S)
        BY <2>1, <4>1
      <4> DEFINE p == f[x - 1]
      <4>5. /\ Len(p \o ss[x]) = Len(p) + 2
            /\ \A i \in 1..Len(p) : (p \o ss[x])[i] = p[i]
            /\ \A i \in 1..2 : (p \o ss[x])[Len(p) + i] = ss[x][i]
        <5> DEFINE q == ss[x]
        <5>1. p \in Seq(S) /\ q \in Seq(S) /\ Len(q) = 2
          BY <3>3, <4>4
        <5> HIDE DEF p, q
        <5>3. ASSUME NEW u \in Seq(S), NEW v \in Seq(S)
              PROVE  /\ Len(u \o v) = Len(u) + Len(v)
                     /\ \A i \in 1..Len(u) : (u \o v)[i] = u[i]
                     /\ \A i \in 1..Len(v) : (u \o v)[Len(u) + i] = v[i]
          BY ConcatSeq
        <5>2. /\ Len(p \o q) = Len(p) + Len(q)
              /\ \A i \in 1..Len(p) : (p \o q)[i] = p[i]
              /\ \A i \in 1..Len(q) : (p \o q)[Len(p) + i] = q[i]
          BY <5>1, <5>3, Zenon
        <5> QED BY <5>1, <5>2 DEF q
      <4>6. Len(p) = 2 * (x - 1) /\ \A j \in 1..(x - 1) : p[2 * j - 1] = ss[j][1] /\ p[2 * j] = ss[j][2]
        BY <4>3
      <4>7. f[x] = p \o ss[x]
        BY <4>4
      <4> HIDE DEF p
      <4>8. Len(f[x]) = 2 * x
        BY <4>1, <4>5, <4>6, <4>7
      <4>9. ASSUME NEW j \in 1..(x - 1) PROVE f[x][2 * j - 1] = ss[j][1] /\ f[x][2 * j] = ss[j][2]
        <5>1. 2 * j - 1 \in 1..Len(p) /\ 2 * j \in 1..Len(p)
          BY <4>1, <4>6
        <5> QED BY <4>5, <4>6, <4>7, <5>1
      <4>10. f[x][2 * x - 1] = ss[x][1] /\ f[x][2 * x] = ss[x][2]
        <5>1. Len(p) + 1 = 2 * x - 1 /\ Len(p) + 2 = 2 * x /\ 1 \in 1..2 /\ 2 \in 1..2
          BY <4>1, <4>6
        <5>2. f[x][Len(p) + 1] = ss[x][1] /\ f[x][Len(p) + 2] = ss[x][2]
          BY <4>5, <4>7, <5>1, Zenon
        <5> QED BY <5>1, <5>2, Zenon
      <4>11. \A j \in 1..x : j \in 1..(x - 1) \/ j = x
        BY <4>1
      <4> QED BY <3>2, <4>8, <4>9, <4>10, <4>11
    <3> QED BY <3>4, <3>5
  <2>3. N \in Nat /\ N \in 1..N
    BY <1>1, <1>3
  <2>4. Good(N)
    BY <2>2, <2>3
  <2> QED BY <2>1, <2>4 DEF N
<1> QED BY <1>2, <1>3

\* What is left after one element is the tail.
LEMMA RestIsTail ==
  ASSUME NEW S, NEW s \in Seq(S), Len(s) >= 1
  PROVE  SubSeq(s, 1 + 1, Len(s)) = Tail(s)
<1> DEFINE t == SubSeq(s, 1 + 1, Len(s))
           r == Tail(s)
<1>1. Len(s) \in Nat /\ 1 \in 1..Len(s)
  OBVIOUS
<1>2. t \in Seq(S) /\ Len(t) = Len(s) - 1 /\ \A i \in 1..(Len(s) - 1) : t[i] = s[1 + i]
  BY <1>1, DropSeq
<1>3. r \in Seq(S) /\ Len(r) = Len(s) - 1 /\ \A i \in 1..(Len(s) - 1) : r[i] = s[1 + i]
  OBVIOUS
<1> HIDE DEF t, r
<1>4. t = r
  BY <1>1, <1>2, <1>3
<1> QED BY <1>4 DEF t, r

\* The first element and the tail of a sequence that got one more at its end.
LEMMA FirstOfAppend ==
  ASSUME NEW S, NEW s \in Seq(S), NEW b \in S
  PROVE  /\ Append(s, b) # <<>>
         /\ s # <<>> => Append(s, b)[1] = s[1] /\ 1 \in 1..Len(s)
         /\ s = <<>> => Append(s, b)[1] = b /\ Tail(Append(s, b)) = <<>>
OBVIOUS

\* ... and the tail of one that was not empty.
LEMMA TailOfAppend ==
  ASSUME NEW S, NEW s \in Seq(S), NEW b \in S, s # <<>>
  PROVE  Tail(Append(s, b)) = Append(Tail(s), b) /\ Len(s) # 0
<1> DEFINE t == Tail(Append(s, b))
           u == Append(Tail(s), b)
<1>1. Len(s) \in Nat /\ Len(s) # 0
  OBVIOUS
<1>2. t \in Seq(S) /\ Len(t) = Len(s) /\ \A i \in 1..Len(s) : t[i] = IF i = Len(s) THEN b ELSE s[i + 1]
  BY <1>1
<1>3. u \in Seq(S) /\ Len(u) = Len(s) /\ \A i \in 1..Len(s) : u[i] = IF i = Len(s) THEN b ELSE s[i + 1]
  BY <1>1
<1> HIDE DEF t, u
<1>4. \A i \in 1..Len(s) : t[i] = u[i]
  BY <1>2, <1>3, Zenon
<1>5. t = u
  BY <1>1, <1>2, <1>3, <1>4
<1> QED BY <1>1, <1>5 DEF t, u

\* One element more, and none.
LEMMA OneMore ==
  ASSUME NEW S, NEW s \in Seq(S), NEW x \in S
  PROVE  s \o <<x>> = Append(s, x) /\ s \o <<>> = s /\ Append(s, x) \in Seq(S)
<1>1. s \o <<x>> = Append(s, x)
  OBVIOUS
<1>2. s \o <<>> = s
  OBVIOUS
<1> QED BY <1>1, <1>2

(***************************************************************************)
(* Induction, on sets instead of predicates                                 *)
(***************************************************************************)
LEMMA Upward ==
  ASSUME NEW T, 0 \in T, \A n \in Nat : n \in T => n + 1 \in T
  PROVE  \A n \in Nat : n \in T
<1> DEFINE U == {n \in Nat : n \notin T}
<1> SUFFICES ASSUME U # {} PROVE FALSE
  OBVIOUS
<1>1. PICK x \in U : \A y \in U : x <= y
  <2>1. U \in SUBSET Nat
    OBVIOUS
  <2> HIDE DEF U
  <2> QED BY <2>1, Least
<1>2. x \in Nat /\ x \notin T
  BY <1>1
<1>3. x # 0
  BY <1>2
<1>4. x - 1 \in Nat /\ (x - 1) + 1 = x /\ ~(x <= x - 1)
  BY <1>2, <1>3
<1>5. x - 1 \in T
  <2>1. x - 1 \notin U
    <3> HIDE DEF U
    <3> QED BY <1>1, <1>4
  <2> QED BY <1>4, <2>1
<1> HIDE DEF U
<1>6. (x - 1) + 1 \in T
  BY <1>4, <1>5, Zenon
<1> QED BY <1>2, <1>4, <1>6, Zenon

\* A sequence is a shorter one with an element appended.
LEMMA LastApart ==
  ASSUME NEW S, NEW s \in Seq(S), Len(s) # 0
  PROVE  /\ Front(s) \in Seq(S) /\ Last(s) \in S
         /\ Len(Front(s)) = Len(s) - 1 /\ s = Append(Front(s), Last(s))
<1>1. Len(s) \in Nat /\ Len(s) >= 1
  OBVIOUS
<1>2. /\ Front(s) \in Seq(S) /\ Len(Front(s)) = Len(s) - 1
      /\ \A i \in 1..(Len(s) - 1) : Front(s)[i] = s[i]
  BY <1>1, FrontSeq
<1>3. Last(s) \in S /\ Last(s) = s[Len(s)]
  BY <1>1 DEF Last
<1> DEFINE f == Front(s)
           e == Last(s)
           t == Append(f, e)
<1> HIDE DEF f, e
<1>4. /\ t \in Seq(S) /\ Len(t) = Len(f) + 1 /\ t[Len(f) + 1] = e
      /\ \A i \in 1..Len(f) : t[i] = f[i]
  BY <1>2, <1>3, AppendSeq DEF f, e
<1> HIDE DEF t
<1>5. Len(t) = Len(s)
  BY <1>1, <1>2, <1>4 DEF f
<1>6. ASSUME NEW i \in 1..Len(s) PROVE s[i] = t[i]
  <2>1. CASE i = Len(s)
    <3>1. i = Len(f) + 1
      BY <1>1, <1>2, <2>1 DEF f
    <3> QED BY <1>3, <1>4, <2>1, <3>1 DEF e
  <2>2. CASE i # Len(s)
    <3>1. i \in 1..(Len(s) - 1) /\ i \in 1..Len(f)
      BY <1>1, <1>2, <2>2 DEF f
    <3> QED BY <1>2, <1>4, <3>1 DEF f
  <2> QED BY <2>1, <2>2
<1>7. s = t
  BY <1>4, <1>5, <1>6
<1> QED BY <1>2, <1>3, <1>7 DEF t, f, e

LEMMA SeqUpward ==
  ASSUME NEW S, NEW T, <<>> \in T, \A s \in Seq(S), x \in S : s \in T => Append(s, x) \in T
  PROVE  \A s \in Seq(S) : s \in T
<1> DEFINE U == {n \in Nat : \A s \in Seq(S) : Len(s) = n => s \in T}
<1>1. 0 \in U
  <2>1. \A s \in Seq(S) : Len(s) = 0 => s = <<>>
    OBVIOUS
  <2> QED BY <2>1
<1>2. ASSUME NEW n \in Nat, n \in U PROVE n + 1 \in U
  <2>1. ASSUME NEW s \in Seq(S), Len(s) = n + 1 PROVE s \in T
    <3>1. Len(s) # 0
      BY <2>1
    <3>2. /\ Front(s) \in Seq(S) /\ Last(s) \in S
          /\ Len(Front(s)) = Len(s) - 1 /\ s = Append(Front(s), Last(s))
      BY <3>1, LastApart
    <3>3. Len(Front(s)) = n
      BY <2>1, <3>2
    <3>4. Front(s) \in T
      BY <1>2, <3>2, <3>3
    <3> QED BY <3>2, <3>4, Zenon
  <2> QED BY <2>1
<1>3. \A n \in Nat : n \in U
  <2> HIDE DEF U
  <2> QED BY <1>1, <1>2, Upward
<1>4. \A s \in Seq(S) : Len(s) \in Nat
  OBVIOUS
<1> QED BY <1>3, <1>4

(***************************************************************************)
(* FlattenSeq                                                               *)
(***************************************************************************)
LEMMA FlattenNone == FlattenSeq(<<>>) = <<>>
BY DEF FlattenSeq

\* One sequence more.
LEMMA FlattenAppend ==
  ASSUME NEW S, NEW ss \in Seq(Seq(S)), NEW x \in Seq(S)
  PROVE  FlattenSeq(Append(ss, x)) = FlattenSeq(ss) \o x
<1> DEFINE C == Seq(S)
           tt == Append(ss, x)
           N == Len(ss)
<1>1. ss \in Seq(C) /\ x \in C /\ \A p, q \in C : p \o q \in C
  OBVIOUS
<1>2. <<>> \o x = x
  OBVIOUS
<1> HIDE DEF C
<1>3. /\ N \in Nat /\ tt \in Seq(C) /\ Len(tt) = N + 1 /\ tt[N + 1] = x
      /\ \A i \in 1..N : tt[i] = ss[i]
  BY <1>1, AppendSeq
<1> HIDE DEF tt, N
<1>4. PICK g : Flattens(g, tt, C)
  <2>1. Len(tt) # 0
    BY <1>3
  <2> QED BY <1>1, <1>3, <2>1, FlattenSteps, Zenon
<1>5. /\ g[1] = tt[1] /\ FlattenSeq(tt) = g[N + 1]
      /\ \A i \in 2..(N + 1) : g[i] = g[i - 1] \o tt[i]
  BY <1>3, <1>4, Zenon DEF Flattens
<1>6. CASE N = 0
  <2>1. ss = <<>> /\ N + 1 = 1
    BY <1>1, <1>6 DEF N
  <2>2. FlattenSeq(ss) = <<>>
    BY <2>1, FlattenNone
  <2>3. FlattenSeq(tt) = x
    BY <1>3, <1>5, <2>1, Zenon
  <2> QED BY <1>2, <2>2, <2>3 DEF tt
<1>7. CASE N # 0
  <2>1. PICK f : Flattens(f, ss, C)
    BY <1>1, <1>7, FlattenSteps, Zenon DEF N
  <2>2. /\ f[1] = ss[1] /\ FlattenSeq(ss) = f[N]
        /\ \A i \in 2..N : f[i] = f[i - 1] \o ss[i]
    BY <2>1, Zenon DEF Flattens, N
  <2> DEFINE T == {n \in Nat : n + 1 <= N => f[n + 1] = g[n + 1]}
  <2>3. 0 \in T
    <3>1. f[1] = g[1]
      BY <1>3, <1>5, <1>7, <2>2
    <3> QED BY <3>1
  <2>4. ASSUME NEW n \in Nat, n \in T PROVE n + 1 \in T
    <3> SUFFICES ASSUME (n + 1) + 1 <= N PROVE f[(n + 1) + 1] = g[(n + 1) + 1]
      OBVIOUS
    <3> DEFINE i == (n + 1) + 1
    <3>1. i \in 2..N /\ i \in 2..(N + 1) /\ i \in 1..N /\ i - 1 = n + 1 /\ n + 1 <= N
      BY <1>3
    <3>2. f[n + 1] = g[n + 1]
      BY <2>4, <3>1
    <3> HIDE DEF i
    <3>3. f[i] = f[i - 1] \o ss[i] /\ g[i] = g[i - 1] \o tt[i] /\ tt[i] = ss[i]
      BY <1>3, <1>5, <2>2, <3>1, Zenon
    <3> QED BY <3>1, <3>2, <3>3, Zenon DEF i
  <2>5. \A n \in Nat : n \in T
    <3> HIDE DEF T
    <3> QED BY <2>3, <2>4, Upward
  <2>6. f[N] = g[N]
    <3>1. N - 1 \in Nat /\ (N - 1) + 1 = N /\ (N - 1) + 1 <= N
      BY <1>3, <1>7
    <3>2. f[(N - 1) + 1] = g[(N - 1) + 1]
      BY <2>5, <3>1
    <3> QED BY <3>1, <3>2
  <2>7. g[N + 1] = g[N] \o x
    <3>1. N + 1 \in 2..(N + 1) /\ (N + 1) - 1 = N
      BY <1>3, <1>7
    <3> QED BY <1>3, <1>5, <3>1
  <2> QED BY <1>5, <2>2, <2>6, <2>7, Zenon DEF tt
<1> QED BY <1>6, <1>7

\* t has the rows ss, each of q elements, one after the other.
InARow(t, ss, q, S) ==
  /\ t \in Seq(S) /\ Len(t) = q * Len(ss)
  /\ \A i \in 1..Len(ss) : \A j \in 1..q : t[q * (i - 1) + j] = ss[i][j]

LEMMA FlattenRows ==
  ASSUME NEW S, NEW q \in Nat, NEW ss \in Seq(Seq(S)), \A i \in 1..Len(ss) : Len(ss[i]) = q
  PROVE  InARow(FlattenSeq(ss), ss, q, S)
<1> DEFINE C == {x \in Seq(S) : Len(x) = q}
           Good(z) == /\ FlattenSeq(z) \in Seq(S) /\ Len(FlattenSeq(z)) = q * Len(z)
                      /\ \A i \in 1..Len(z) : \A j \in 1..q : FlattenSeq(z)[q * (i - 1) + j] = z[i][j]
           T == {z \in Seq(C) : Good(z)}
<1>1. ss \in Seq(C)
  <2>1. \A i \in 1..Len(ss) : ss[i] \in C
    OBVIOUS
  <2> HIDE DEF C
  <2> QED BY <2>1
<1>2. <<>> \in T
  <2>1. <<>> \in Seq(C) /\ <<>> \in Seq(S) /\ Len(<<>>) = 0 /\ q * 0 = 0 /\ 1..0 = {}
    OBVIOUS
  <2> HIDE DEF C
  <2>2. Good(<<>>)
    BY <2>1, FlattenNone, Zenon
  <2> QED BY <2>1, <2>2
<1>3. ASSUME NEW s \in Seq(C), NEW x \in C, s \in T PROVE Append(s, x) \in T
  <2> DEFINE t == Append(s, x)
             n == Len(s)
             p == FlattenSeq(s)
  <2>1. x \in Seq(S) /\ Len(x) = q
    OBVIOUS
  <2>2. s \in Seq(Seq(S))
    <3>1. C \subseteq Seq(S)
      OBVIOUS
    <3> HIDE DEF C
    <3> QED BY <3>1
  <2>3. FlattenSeq(t) = p \o x
    BY <2>1, <2>2, FlattenAppend
  <2>4. /\ p \in Seq(S) /\ Len(p) = q * n
        /\ \A i \in 1..n : \A j \in 1..q : p[q * (i - 1) + j] = s[i][j]
    BY <1>3
  <2>5. n \in Nat /\ t \in Seq(C) /\ Len(t) = n + 1 /\ t[n + 1] = x /\ \A i \in 1..n : t[i] = s[i]
    <3> HIDE DEF C
    <3> QED BY AppendSeq
  <2> HIDE DEF C, p, t, n, T, Good
  <2>6. /\ p \o x \in Seq(S) /\ Len(p \o x) = Len(p) + Len(x)
        /\ \A k \in 1..Len(p) : (p \o x)[k] = p[k]
        /\ \A k \in 1..Len(x) : (p \o x)[Len(p) + k] = x[k]
    <3>1. ASSUME NEW u \in Seq(S), NEW v \in Seq(S)
          PROVE  /\ u \o v \in Seq(S) /\ Len(u \o v) = Len(u) + Len(v)
                 /\ \A i \in 1..Len(u) : (u \o v)[i] = u[i]
                 /\ \A i \in 1..Len(v) : (u \o v)[Len(u) + i] = v[i]
      BY ConcatSeq
    <3> QED BY <2>1, <2>4, <3>1, Zenon
  <2>7. q * (n + 1) = q * n + q /\ q * n \in Nat
    BY <2>5
  <2>8. Len(p \o x) = q * Len(t)
    BY <2>1, <2>4, <2>5, <2>6, <2>7
  <2>9. ASSUME NEW i \in 1..Len(t), NEW j \in 1..q PROVE (p \o x)[q * (i - 1) + j] = t[i][j]
    <3>1. CASE i = n + 1
      <4>1. q * (i - 1) + j = Len(p) + j /\ j \in 1..Len(x)
        BY <2>1, <2>4, <2>5, <3>1
      <4> QED BY <2>5, <2>6, <3>1, <4>1
    <3>2. CASE i # n + 1
      <4>1. i \in 1..n /\ n - i \in Nat /\ i - 1 \in Nat /\ n = (i - 1) + ((n - i) + 1)
        BY <2>5, <3>2
      <4>2. q * (i - 1) + j \in 1..Len(p)
        <5> DEFINE d == n - i
                   e == i - 1
        <5>1. d \in Nat /\ e \in Nat /\ n = e + (d + 1)
          BY <4>1
        <5> HIDE DEF d, e
        <5>2. q * (e + (d + 1)) = q * e + (q * d + q) /\ q * d \in Nat /\ q * e \in Nat
          BY <5>1
        <5>3. Len(p) = q * e + (q * d + q)
          BY <2>4, <5>1, <5>2
        <5>4. q * e + j \in 1..Len(p)
          BY <5>2, <5>3
        <5> QED BY <5>4 DEF e
      <4> QED BY <2>4, <2>5, <2>6, <4>1, <4>2, Zenon
    <3> QED BY <3>1, <3>2
  <2>10. Good(t)
    BY <2>3, <2>6, <2>8, <2>9, Zenon DEF Good
  <2> QED BY <2>5, <2>10, Zenon DEF t, T
<1>4. \A z \in Seq(C) : z \in T
  <2> HIDE DEF T, C
  <2> QED BY <1>2, <1>3, SeqUpward
<1> HIDE DEF C
<1> QED BY <1>1, <1>4 DEF InARow

(***************************************************************************)
(* Sequences that are the same                                              *)
(***************************************************************************)
LEMMA SameElements ==
  ASSUME NEW S, NEW s \in Seq(S), NEW t \in Seq(S), Len(s) = Len(t), \A i \in 1..Len(s) : s[i] = t[i]
  PROVE  s = t
OBVIOUS

LEMMA ConcatCancel ==
  ASSUME NEW S, NEW a \in Seq(S), NEW b \in Seq(S), NEW u \in Seq(S), NEW v \in Seq(S),
         Len(a) = Len(b), a \o u = b \o v
  PROVE  a = b /\ u = v
<1>0. ASSUME NEW x \in Seq(S), NEW y \in Seq(S)
      PROVE  /\ Len(x \o y) = Len(x) + Len(y)
             /\ \A i \in 1..Len(x) : (x \o y)[i] = x[i]
             /\ \A i \in 1..Len(y) : (x \o y)[Len(x) + i] = y[i]
  BY ConcatSeq
<1>1. /\ Len(a \o u) = Len(a) + Len(u) /\ Len(b \o v) = Len(b) + Len(v)
      /\ \A i \in 1..Len(a) : (a \o u)[i] = a[i]
      /\ \A i \in 1..Len(b) : (b \o v)[i] = b[i]
      /\ \A i \in 1..Len(u) : (a \o u)[Len(a) + i] = u[i]
      /\ \A i \in 1..Len(v) : (b \o v)[Len(b) + i] = v[i]
  BY <1>0, Zenon
<1>2. Len(u) = Len(v)
  <2>1. Len(a) + Len(u) = Len(b) + Len(v)
    BY <1>1, Zenon
  <2>2. Len(a) \in Nat /\ Len(u) \in Nat /\ Len(v) \in Nat
    OBVIOUS
  <2> QED BY <2>1, <2>2
<1>3. \A i \in 1..Len(a) : a[i] = b[i]
  BY <1>1, Zenon
<1>4. \A i \in 1..Len(u) : u[i] = v[i]
  BY <1>1, <1>2, Zenon
<1> QED BY <1>2, <1>3, <1>4, SameElements, Zenon

LEMMA AppendCancel ==
  ASSUME NEW S, NEW a \in Seq(S), NEW b \in Seq(S), NEW d \in S, Append(a, d) = Append(b, d)
  PROVE  a = b
<1>1. /\ Len(a) \in Nat /\ Len(b) \in Nat
      /\ Len(Append(a, d)) = Len(a) + 1 /\ Len(Append(b, d)) = Len(b) + 1
      /\ \A i \in 1..Len(a) : Append(a, d)[i] = a[i]
      /\ \A i \in 1..Len(b) : Append(b, d)[i] = b[i]
  BY AppendSeq
<1>2. Len(a) = Len(b)
  BY <1>1
<1>3. \A i \in 1..Len(a) : a[i] = b[i]
  BY <1>1, <1>2, Zenon
<1> QED BY <1>2, <1>3, SameElements, Zenon

LEMMA FrontOfAppend ==
  ASSUME NEW S, NEW u \in Seq(S), NEW a \in S
  PROVE  Front(Append(u, a)) = u
<1> DEFINE t == Append(u, a)
<1>1. t \in Seq(S) /\ Len(t) = Len(u) + 1 /\ Len(u) \in Nat /\ \A i \in 1..Len(u) : t[i] = u[i]
  BY AppendSeq
<1> HIDE DEF t
<1>2. Len(t) >= 1 /\ Len(t) - 1 = Len(u)
  BY <1>1
<1>3. /\ Front(t) \in Seq(S) /\ Len(Front(t)) = Len(u)
      /\ \A i \in 1..Len(u) : Front(t)[i] = t[i]
  BY <1>1, <1>2, FrontSeq
<1>4. \A i \in 1..Len(Front(t)) : Front(t)[i] = u[i]
  BY <1>1, <1>3, Zenon
<1>5. Front(t) = u
  BY <1>3, <1>4, SameElements, Zenon
<1> QED BY <1>5 DEF t

\* The end of a sequence that is appended to.
LEMMA LastOfConcat ==
  ASSUME NEW S, NEW a \in Seq(S), NEW b \in Seq(S), b # <<>>
  PROVE  /\ a \o b # <<>> /\ Last(a \o b) = b[Len(b)] /\ Len(b) \in 1..Len(b)
<1>1. /\ Len(a) \in Nat /\ Len(b) \in Nat /\ Len(b) # 0 /\ a \o b \in Seq(S)
      /\ Len(a \o b) = Len(a) + Len(b)
      /\ \A i \in 1..Len(b) : (a \o b)[Len(a) + i] = b[i]
  BY ConcatSeq
<1>2. Len(b) \in 1..Len(b)
  BY <1>1
<1>3. Len(a \o b) # 0
  BY <1>1
<1>4. Len(<<>>) = 0
  OBVIOUS
<1> QED BY <1>1, <1>2, <1>3, <1>4, Zenon DEF Last

LEMMA ConcatAppend ==
  ASSUME NEW S, NEW a \in Seq(S), NEW b \in Seq(S), NEW x \in S
  PROVE  a \o Append(b, x) = Append(a \o b, x)
OBVIOUS

\* A sequence with one after it, and then an element.
LEMMA AfterConcat ==
  ASSUME NEW S, NEW d \in S, NEW e \in Seq(S), NEW y \in Seq(S)
  PROVE  /\ Len(e \o Append(y, d)) = Len(e) + Len(y) + 1
         /\ \A i \in 1..Len(e) : (e \o Append(y, d))[i] = e[i]
         /\ \A i \in 1..Len(y) : (e \o Append(y, d))[Len(e) + i] = y[i]
<1> DEFINE z == Append(y, d)
<1>1. z \in Seq(S) /\ Len(z) = Len(y) + 1 /\ \A i \in 1..Len(y) : z[i] = y[i]
  BY AppendSeq
<1>2. Len(e) \in Nat /\ Len(y) \in Nat
  OBVIOUS
<1> HIDE DEF z
<1>0. ASSUME NEW u \in Seq(S), NEW v \in Seq(S)
      PROVE  /\ Len(u \o v) = Len(u) + Len(v)
             /\ \A i \in 1..Len(u) : (u \o v)[i] = u[i]
             /\ \A i \in 1..Len(v) : (u \o v)[Len(u) + i] = v[i]
  BY ConcatSeq
<1>3. /\ Len(e \o z) = Len(e) + Len(z)
      /\ \A i \in 1..Len(e) : (e \o z)[i] = e[i]
      /\ \A i \in 1..Len(z) : (e \o z)[Len(e) + i] = z[i]
  BY <1>0, <1>1, Zenon
<1>4. \A i \in 1..Len(y) : i \in 1..Len(z)
  BY <1>1, <1>2
<1>5. \A i \in 1..Len(y) : (e \o z)[Len(e) + i] = y[i]
  BY <1>1, <1>3, <1>4, Zenon
<1>6. Len(e \o z) = Len(e) + Len(y) + 1
  BY <1>1, <1>2, <1>3
<1> QED BY <1>3, <1>5, <1>6, Zenon DEF z

\* Two pieces of a sequence, one after the other.
LEMMA PiecesJoin ==
  ASSUME NEW S, NEW h \in Seq(S), NEW k \in Nat, NEW m \in Nat, k <= m, m <= Len(h)
  PROVE  SubSeq(h, 1, k) \o SubSeq(h, k + 1, m) = SubSeq(h, 1, m)
<1> DEFINE a == SubSeq(h, 1, k)
           b == SubSeq(h, k + 1, m)
           c == SubSeq(h, 1, m)
<1>1. a \in Seq(S) /\ Len(a) = k /\ \A i \in 1..k : a[i] = h[i]
  OBVIOUS
<1>2. b \in Seq(S) /\ Len(b) = m - k /\ \A i \in 1..(m - k) : b[i] = h[k + i]
  OBVIOUS
<1>3. c \in Seq(S) /\ Len(c) = m /\ \A i \in 1..m : c[i] = h[i]
  OBVIOUS
<1> HIDE DEF a, b, c
<1>4. ASSUME NEW u \in Seq(S), NEW v \in Seq(S)
      PROVE  /\ u \o v \in Seq(S) /\ Len(u \o v) = Len(u) + Len(v)
             /\ \A i \in 1..Len(u) : (u \o v)[i] = u[i]
             /\ \A i \in 1..Len(v) : (u \o v)[Len(u) + i] = v[i]
  BY ConcatSeq
<1>5. /\ a \o b \in Seq(S) /\ Len(a \o b) = Len(a) + Len(b)
      /\ \A i \in 1..Len(a) : (a \o b)[i] = a[i]
      /\ \A i \in 1..Len(b) : (a \o b)[Len(a) + i] = b[i]
  BY <1>1, <1>2, <1>4, Zenon
<1>6. Len(a \o b) = m
  BY <1>1, <1>2, <1>5
<1>7. ASSUME NEW i \in 1..m PROVE (a \o b)[i] = c[i]
  <2>1. CASE i <= k
    <3>1. i \in 1..k
      BY <2>1
    <3> QED BY <1>1, <1>3, <1>5, <3>1
  <2>2. CASE ~(i <= k)
    <3> DEFINE j == i - k
    <3>1. j \in 1..(m - k) /\ k + j = i
      BY <2>2
    <3> HIDE DEF j
    <3>2. (a \o b)[k + j] = b[j] /\ b[j] = h[k + j]
      BY <1>1, <1>2, <1>5, <3>1
    <3> QED BY <1>3, <3>1, <3>2
  <2> QED BY <2>1, <2>2
<1>8. \A i \in 1..Len(a \o b) : (a \o b)[i] = c[i]
  BY <1>6, <1>7, Zenon
<1>9. a \o b = c
  BY <1>3, <1>5, <1>6, <1>8, SameElements, Zenon
<1> QED BY <1>9 DEF a, b, c

LEMMA PieceOf ==
  ASSUME NEW S, NEW h \in Seq(S), NEW a \in 1..Len(h), NEW b \in a..Len(h)
  PROVE  /\ SubSeq(h, a, b) \in Seq(S) /\ Len(SubSeq(h, a, b)) = b - a + 1
         /\ \A i \in 1..(b - a + 1) : SubSeq(h, a, b)[i] = h[a - 1 + i] /\ a - 1 + i \in 1..Len(h)
OBVIOUS

LEMMA JoinedTwice ==
  ASSUME NEW S, NEW d \in S, NEW a \in Seq(S), NEW u \in Seq(S)
  PROVE  /\ a \o <<d>> \o u \in Seq(S) /\ a \o <<d>> \o u = Append(a, d) \o u
         /\ Append(a \o <<d>> \o u, d) = Append(a, d) \o Append(u, d)
<1>1. a \o <<d>> = Append(a, d) /\ Append(a, d) \in Seq(S)
  BY OneMore
<1>2. Append(a, d) \o u \in Seq(S)
  BY <1>1
<1>3. Append(a, d) \o Append(u, d) = Append(Append(a, d) \o u, d)
  BY <1>1, ConcatAppend
<1> QED BY <1>1, <1>2, <1>3, Zenon

LEMMA AfterFour ==
  ASSUME NEW S, NEW d \in S, NEW a \in Seq(S), NEW u \in Seq(S), Len(a) = 3
  PROVE  LET r == a \o <<d>> \o u IN r \in Seq(S) /\ Len(r) = Len(u) + 4 /\ \A i \in 1..Len(u) : r[4 + i] = u[i]
<1> DEFINE b == Append(a, d)
<1>1. b \in Seq(S) /\ Len(b) = 4 /\ a \o <<d>> = b
  <2>1. a \o <<d>> = b /\ b \in Seq(S)
    BY OneMore
  <2>2. Len(b) = Len(a) + 1
    BY AppendSeq
  <2> HIDE DEF b
  <2> QED BY <2>1, <2>2
<1> HIDE DEF b
<1>2. /\ b \o u \in Seq(S) /\ Len(b \o u) = Len(b) + Len(u)
      /\ \A i \in 1..Len(u) : (b \o u)[Len(b) + i] = u[i]
  BY <1>1, ConcatSeq
<1>3. Len(b \o u) = Len(u) + 4
  BY <1>1, <1>2
<1>4. \A i \in 1..Len(u) : (b \o u)[4 + i] = u[i]
  BY <1>1, <1>2, Zenon
<1> QED BY <1>1, <1>2, <1>3, <1>4, Zenon

LEMMA TableIsSeq ==
  ASSUME NEW S, NEW n \in Nat, NEW f \in [1..n -> S]
  PROVE  f \in Seq(S) /\ Len(f) = n
OBVIOUS

(***************************************************************************)
(* Quotients and remainders                                                 *)
(***************************************************************************)
LEMMA Division ==
  ASSUME NEW x \in Nat, NEW n \in Nat \ {0}
  PROVE  /\ x \div n \in Nat /\ x % n \in 0..(n - 1)
         /\ x = n * (x \div n) + (x % n)
<1>1. \A y \in Nat, k \in Nat \ {0} : y \div k \in Nat
  OBVIOUS
<1>2. \A y \in Nat, k \in Nat \ {0} : y % k \in 0..(k - 1)
  OBVIOUS
<1>3. \A y \in Nat, k \in Nat \ {0} : y = k * (y \div k) + (y % k)
  OBVIOUS
<1> QED BY <1>1, <1>2, <1>3, Zenon

\* The quotient of a number below p * q.
LEMMA Quotient ==
  ASSUME NEW q \in Nat, NEW d \in Nat, NEW p \in Nat, q * d < q * p
  PROVE  d < p
<1>1. \A a, b, k \in Nat : a <= b => k * a <= k * b
  <2> SUFFICES ASSUME NEW a \in Nat, NEW b \in Nat, NEW k \in Nat, a <= b PROVE k * a <= k * b
    OBVIOUS
  <2>1. b - a \in Nat /\ b = a + (b - a)
    OBVIOUS
  <2>2. k * b = k * a + k * (b - a)
    OBVIOUS
  <2>3. k * (b - a) \in Nat
    BY <2>1
  <2>4. k * a \in Nat
    OBVIOUS
  <2> QED BY <2>2, <2>3, <2>4
<1>2. CASE p <= d
  <2>1. q * p <= q * d
    BY <1>1, <1>2
  <2>2. q * p \in Nat /\ q * d \in Nat
    OBVIOUS
  <2> QED BY <2>1, <2>2
<1> QED BY <1>2

\* Quotient and remainder are the only ones.
LEMMA DivisionIs ==
  ASSUME NEW n \in Nat \ {0}, NEW e \in Nat, NEW r \in 0..(n - 1)
  PROVE  (n * e + r) \div n = e /\ (n * e + r) % n = r
<1> DEFINE x == n * e + r
           d == x \div n
           z == x % n
<1>1. n * e \in Nat /\ x \in Nat
  OBVIOUS
<1> HIDE DEF x
<1>2. d \in Nat /\ z \in 0..(n - 1) /\ x = n * d + z
  BY <1>1, Division
<1>3. x = n * e + r
  BY DEF x
<1> HIDE DEF d, z
<1>4. n * d \in Nat /\ n * (d + 1) = n * d + n /\ n * (e + 1) = n * e + n
  BY <1>2
<1>5. e < d + 1
  <2>1. n * e < n * (d + 1)
    BY <1>1, <1>2, <1>3, <1>4
  <2> QED BY <1>2, <2>1, Quotient
<1>6. d < e + 1
  <2>1. n * d < n * (e + 1)
    BY <1>1, <1>2, <1>3, <1>4
  <2> QED BY <1>2, <2>1, Quotient
<1>7. d = e
  BY <1>2, <1>5, <1>6
<1>8. z = r
  BY <1>1, <1>2, <1>3, <1>7
<1> QED BY <1>7, <1>8 DEF x, d, z
=============================================================================
