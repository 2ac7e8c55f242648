--------------------------- MODULE OrderingProofs ---------------------------
(***************************************************************************)
(* The default order returns every probe of a pool once, sorted or zone by *)
(* zone in turns.  Where an induction is needed, it is by a least          *)
(* counterexample.                                                         *)
(***************************************************************************)
EXTENDS Ordering, FiniteSetTheorems, SequenceTheorems, TLAPS

-----------------------------------------------------------------------------
(* Numbers and ranks.                                                       *)

\* A set of natural numbers that is not empty has a least element.
LEMMA LeastNatural ==
    ASSUME NEW T \in SUBSET Nat, T # {}
    PROVE  \E x \in T : \A y \in T : x <= y
  <1> DEFINE R == OpToRel(<, Nat)
  <1>1. \A x \in T, y \in T : y < x => <<y, x>> \in R
    BY Zenon DEF OpToRel
  <1>2. IsWellFoundedOn(R, Nat)
    BY NatLessThanWellFounded
  <1> HIDE DEF R
  <1>3. PICK x \in T : \A y \in T : ~ (<<y, x>> \in R)
    BY <1>2, WFMin
  <1>4. \A y \in T : ~ (y < x)
    BY <1>1, <1>3
  <1>5. QED
    BY <1>4

\* R orders S strictly and totally.
StrictOrder(R, S) ==
    /\ \A p \in S : <<p, p>> \notin R
    /\ \A p, q, r \in S : <<p, q>> \in R /\ <<q, r>> \in R => <<p, r>> \in R
    /\ \A p, q \in S : p = q \/ <<p, q>> \in R \/ <<q, p>> \in R

Below(R, S, p) == {q \in S : <<q, p>> \in R}

\* In a finite set that is strictly ordered, each number of smaller elements
\* belongs to one element.
LEMMA Ranks ==
    ASSUME NEW S, IsFiniteSet(S), NEW R, StrictOrder(R, S)
    PROVE  /\ \A p \in S : Cardinality(Below(R, S, p)) \in 0..(Cardinality(S) - 1)
           /\ \A p, q \in S :
                <<p, q>> \in R
                <=> Cardinality(Below(R, S, p)) < Cardinality(Below(R, S, q))
           /\ \A n \in 0..(Cardinality(S) - 1) :
                \E p \in S : Cardinality(Below(R, S, p)) = n
  <1> DEFINE rank == [p \in S |-> Cardinality(Below(R, S, p))]
             N == Cardinality(S)
  <1>0. N \in Nat
    BY FS_CardinalityType
  <1>1. \A p \in S : IsFiniteSet(Below(R, S, p)) /\ rank[p] \in Nat
    BY FS_Subset, FS_CardinalityType DEF Below
  <1>2. ASSUME NEW p \in S PROVE rank[p] \in 0..(N - 1)
    <2>1. Below(R, S, p) \subseteq S \ {p}
      BY DEF Below, StrictOrder
    <2>2. IsFiniteSet(S \ {p}) /\ Cardinality(S \ {p}) = N - 1
      BY FS_RemoveElement
    <2>3. rank[p] <= N - 1
      BY <2>1, <2>2, FS_Subset
    <2>4. QED
      BY <2>3, <1>0, <1>1
  <1>3. ASSUME NEW p \in S, NEW q \in S, <<p, q>> \in R PROVE rank[p] < rank[q]
    <2>1. Below(R, S, p) \subseteq Below(R, S, q) /\ p \in Below(R, S, q)
          /\ p \notin Below(R, S, p)
      BY <1>3 DEF Below, StrictOrder
    <2>2. Cardinality(Below(R, S, p)) <= Cardinality(Below(R, S, q))
      BY <2>1, <1>1, FS_Subset
    <2>3. Cardinality(Below(R, S, p)) # Cardinality(Below(R, S, q))
      BY <2>1, <1>1, FS_Subset
    <2>4. QED
      BY <2>2, <2>3, <1>1
  <1>4. ASSUME NEW p \in S, NEW q \in S PROVE <<p, q>> \in R <=> rank[p] < rank[q]
    <2>1. CASE p = q
      BY <2>1, <1>1 DEF StrictOrder
    <2>2. CASE <<p, q>> \in R
      BY <2>2, <1>3
    <2>3. CASE <<q, p>> \in R
      <3>1. rank[q] < rank[p]
        BY <2>3, <1>3
      <3>2. ~(rank[p] < rank[q]) /\ rank[p] # rank[q]
        BY <3>1, <1>1
      <3>3. QED
        BY <3>2, <1>3
    <2>4. QED
      BY <2>1, <2>2, <2>3 DEF StrictOrder
  <1>5. rank \in Injection(S, 0..(N - 1))
    <2>1. rank \in [S -> 0..(N - 1)]
      BY <1>2
    <2>2. ASSUME NEW p \in S, NEW q \in S, rank[p] = rank[q] PROVE p = q
      <3>1. ~(rank[p] < rank[q]) /\ ~(rank[q] < rank[p])
        BY <2>2, <1>1
      <3>2. QED
        BY <3>1, <1>3 DEF StrictOrder
    <2>3. QED
      BY <2>1, <2>2 DEF Injection, IsInjective
  <1>6. IsFiniteSet(0..(N - 1)) /\ Cardinality(0..(N - 1)) = N
    BY <1>0, FS_Interval
  <1>7. rank \in Surjection(S, 0..(N - 1))
    BY <1>5, <1>6, FS_Injection
  <1>8. \A n \in 0..(N - 1) : \E p \in S : rank[p] = n
    BY <1>7 DEF Surjection
  <1>9. QED
    BY <1>2, <1>4, <1>8

-----------------------------------------------------------------------------
(* The sorted order.                                                        *)

\* There are four bands, whatever the thresholds.
LEMMA BandType == \A p, cfg : Band(p, cfg) \in 1..4
  <1>1. \A score, t : AssignBand(score, t) \in 1..4
    BY DEF AssignBand, BandA, BandB, BandC, BandD
  <1>2. QED
    BY <1>1 DEF Band

\* Before as a relation, to which the lemma about ranks applies.
BeforeIn(S, cfg) == {e \in S \X S : Before(e[1], e[2], cfg)}

\* Band, hash and ID together order any set of probes.
LEMMA BeforeOrders ==
    ASSUME NEW S \in SUBSET Probes, NEW cfg
    PROVE  /\ StrictOrder(BeforeIn(S, cfg), S)
           /\ \A p, q \in S : <<p, q>> \in BeforeIn(S, cfg) <=> Before(p, q, cfg)
           /\ \A p \in S :
                Below(BeforeIn(S, cfg), S, p) = {q \in S : Before(q, p, cfg)}
  <1>1. \A p, q \in S : <<p, q>> \in BeforeIn(S, cfg) <=> Before(p, q, cfg)
    BY DEF BeforeIn
  <1>2. \A p \in S : p \in Nat /\ Info[p].hash \in Nat /\ Band(p, cfg) \in 1..4
    BY ProbesAssumption, TableAssumption, BandType
  <1>3. \A p \in S : ~Before(p, p, cfg)
    BY <1>2 DEF Before
  <1>4. \A p, q, r \in S : Before(p, q, cfg) /\ Before(q, r, cfg) => Before(p, r, cfg)
    BY <1>2 DEF Before
  <1>5. \A p, q \in S : p = q \/ Before(p, q, cfg) \/ Before(q, p, cfg)
    BY <1>2 DEF Before
  <1>6. StrictOrder(BeforeIn(S, cfg), S)
    BY <1>1, <1>3, <1>4, <1>5 DEF StrictOrder
  <1>7. \A p \in S : Below(BeforeIn(S, cfg), S, p) = {q \in S : Before(q, p, cfg)}
    BY <1>1 DEF Below
  <1>8. QED
    BY <1>1, <1>6, <1>7

\* Each probe of S once, in the order of Before.
LEMMA SortedFacts ==
    ASSUME NEW S \in SUBSET Probes, NEW cfg
    PROVE  /\ Sorted(S, cfg) \in Seq(S)
           /\ Len(Sorted(S, cfg)) = Cardinality(S)
           /\ DOMAIN Sorted(S, cfg) = 1..Cardinality(S)
           /\ Cardinality(S) \in Nat
           /\ \A p \in S : \E i \in DOMAIN Sorted(S, cfg) : Sorted(S, cfg)[i] = p
           /\ \A i, k \in DOMAIN Sorted(S, cfg) :
                i < k <=> Before(Sorted(S, cfg)[i], Sorted(S, cfg)[k], cfg)
           /\ \A i, k \in DOMAIN Sorted(S, cfg) :
                Sorted(S, cfg)[i] = Sorted(S, cfg)[k] => i = k
  <1> DEFINE N == Cardinality(S)
             c == Sorted(S, cfg)
             rank(p) == Cardinality({q \in S : Before(q, p, cfg)})
  <1>1. IsFiniteSet(S) /\ N \in Nat
    BY ProbesAssumption, FS_Subset, FS_CardinalityType
  <1>2. /\ \A p \in S : rank(p) \in 0..(N - 1)
        /\ \A p, q \in S : Before(p, q, cfg) <=> rank(p) < rank(q)
        /\ \A n \in 0..(N - 1) : \E p \in S : rank(p) = n
    <2> DEFINE R == BeforeIn(S, cfg)
    <2>1. /\ StrictOrder(R, S)
          /\ \A p, q \in S : <<p, q>> \in R <=> Before(p, q, cfg)
          /\ \A p \in S : Below(R, S, p) = {q \in S : Before(q, p, cfg)}
      BY BeforeOrders
    <2> HIDE DEF R
    <2>2. /\ \A p \in S : Cardinality(Below(R, S, p)) \in 0..(N - 1)
          /\ \A p, q \in S :
               <<p, q>> \in R
               <=> Cardinality(Below(R, S, p)) < Cardinality(Below(R, S, q))
          /\ \A n \in 0..(N - 1) : \E p \in S : Cardinality(Below(R, S, p)) = n
      BY <2>1, <1>1, Ranks
    <2>3. QED
      BY <2>1, <2>2
  <1> HIDE DEF rank
  <1>3. c = [i \in 1..N |-> CHOOSE p \in S : rank(p) = i - 1]
    BY DEF Sorted, rank
  <1>4. \A i \in 1..N : c[i] \in S /\ rank(c[i]) = i - 1
    <2>1. TAKE i \in 1..N
    <2>2. \E p \in S : rank(p) = i - 1
      BY <1>1, <1>2
    <2>3. QED
      BY <2>2, <1>3
  <1>5. c \in Seq(S) /\ Len(c) = N /\ DOMAIN c = 1..N
    BY <1>1, <1>3, <1>4
  <1> HIDE DEF c
  <1>6. \A p, q \in S : rank(p) = rank(q) => p = q
    <2>1. TAKE p, q \in S
    <2>2. HAVE rank(p) = rank(q)
    <2>3. ~Before(p, q, cfg) /\ ~Before(q, p, cfg)
      BY <2>2, <1>2
    <2>4. p \in Nat /\ q \in Nat /\ Info[p].hash \in Nat /\ Info[q].hash \in Nat
          /\ Band(p, cfg) \in 1..4 /\ Band(q, cfg) \in 1..4
      BY ProbesAssumption, TableAssumption, BandType
    <2>5. QED
      BY <2>3, <2>4 DEF Before
  <1>7. \A p \in S : \E i \in 1..N : c[i] = p
    <2>1. TAKE p \in S
    <2>2. rank(p) + 1 \in 1..N /\ rank(c[rank(p) + 1]) = rank(p)
      BY <1>1, <1>2, <1>4
    <2>3. c[rank(p) + 1] = p
      BY <2>2, <1>4, <1>6
    <2>4. QED
      BY <2>2, <2>3
  <1>8. \A i, k \in 1..N : i < k <=> Before(c[i], c[k], cfg)
    BY <1>2, <1>4
  <1>9. \A i, k \in 1..N : c[i] = c[k] => i = k
    BY <1>4
  <1>10. QED
    BY <1>1, <1>5, <1>7, <1>8, <1>9 DEF c

-----------------------------------------------------------------------------
(* Sequences of sequences, one after the other.                             *)

\* The recursive function inside FlattenSeq.
FlattensTo(f, ss, n) ==
    f = [i \in 1..n |-> IF i = 1 THEN ss[i] ELSE f[i - 1] \o ss[i]]

\* It exists, so that FlattenSeq chooses it.
LEMMA FlattenExists ==
    ASSUME NEW ss, NEW n \in Nat
    PROVE  \E f : FlattensTo(f, ss, n)
  <1> DEFINE T == {l \in Nat : ~ \E f : FlattensTo(f, ss, l)}
  <1>1. SUFFICES ASSUME T # {} PROVE FALSE
    OBVIOUS
  <1>2. PICK l \in T : \A y \in T : l <= y
    BY <1>1, LeastNatural
  <1>3. CASE l = 0
    <2>1. FlattensTo([i \in 1..0 |-> IF i = 1 THEN ss[i] ELSE 0], ss, 0)
      BY DEF FlattensTo
    <2>2. QED
      BY <2>1, <1>2, <1>3
  <1>4. CASE l # 0
    <2>1. l - 1 \in Nat /\ l - 1 \notin T
      BY <1>2, <1>4
    <2>2. PICK f : FlattensTo(f, ss, l - 1)
      BY <2>1
    <2> DEFINE g == [i \in 1..l |->
                        IF i = 1 THEN ss[i] ELSE f[i - 1] \o ss[i]]
    <2>3. \A i \in 1..(l - 1) : g[i] = f[i]
      <3>1. TAKE i \in 1..(l - 1)
      <3>2. f[i] = IF i = 1 THEN ss[i] ELSE f[i - 1] \o ss[i]
        BY <2>2, Zenon DEF FlattensTo
      <3>3. i \in 1..l
        BY <2>1
      <3>4. QED
        BY <3>2, <3>3
    <2>4. \A i \in 1..l : g[i] = IF i = 1 THEN ss[i] ELSE g[i - 1] \o ss[i]
      <3>1. TAKE i \in 1..l
      <3>2. CASE i = 1
        BY <3>2
      <3>3. CASE i # 1
        <4>1. i - 1 \in 1..(l - 1)
          BY <3>3, <2>1
        <4>2. g[i - 1] = f[i - 1]
          BY <4>1, <2>3
        <4>3. QED
          BY <4>2, <3>3
      <3>4. QED
        BY <3>2, <3>3
    <2>5. FlattensTo(g, ss, l)
      <3>1. g = [i \in 1..l |-> g[i]]
        OBVIOUS
      <3> HIDE DEF g
      <3>2. QED
        BY <3>1, <2>4 DEF FlattensTo
    <2>6. QED
      BY <2>5, <1>2
  <1>5. QED
    BY <1>3, <1>4

\* R holds from each element to every later one.
Increasing(R, s) == \A i, k \in DOMAIN s : i < k => <<s[i], s[k]>> \in R

\* R holds from each element of a part to every element of a later part.
PartsIncreasing(R, ss) ==
    \A b, d \in DOMAIN ss :
        b < d => \A i \in DOMAIN ss[b], k \in DOMAIN ss[d] :
                    <<ss[b][i], ss[d][k]>> \in R

In(p, s) == \E i \in DOMAIN s : s[i] = p

\* What is in a concatenation, and when it increases.
LEMMA ConcatFacts ==
    ASSUME NEW S, NEW s \in Seq(S), NEW t \in Seq(S)
    PROVE  /\ s \o t \in Seq(S)
           /\ \A p : In(p, s \o t) <=> In(p, s) \/ In(p, t)
           /\ \A R : Increasing(R, s) /\ Increasing(R, t)
                     /\ (\A i \in DOMAIN s, k \in DOMAIN t : <<s[i], t[k]>> \in R)
                     => Increasing(R, s \o t)
  <1> DEFINE u == s \o t
  <1>1. /\ u \in Seq(S) /\ Len(u) = Len(s) + Len(t)
        /\ Len(s) \in Nat /\ Len(t) \in Nat
        /\ DOMAIN s = 1..Len(s) /\ DOMAIN t = 1..Len(t) /\ DOMAIN u = 1..Len(u)
    OBVIOUS
  <1>2. \A i \in DOMAIN u : u[i] = IF i <= Len(s) THEN s[i] ELSE t[i - Len(s)]
    BY <1>1, ConcatProperties
  <1> HIDE DEF u
  <1>3. ASSUME NEW p PROVE In(p, u) <=> In(p, s) \/ In(p, t)
    <2>1. ASSUME In(p, u) PROVE In(p, s) \/ In(p, t)
      <3>1. PICK i \in DOMAIN u : u[i] = p
        BY <2>1 DEF In
      <3>2. CASE i <= Len(s)
        BY <3>1, <3>2, <1>1, <1>2 DEF In
      <3>3. CASE ~(i <= Len(s))
        <4>1. i - Len(s) \in DOMAIN t /\ t[i - Len(s)] = p
          BY <3>1, <3>3, <1>1, <1>2
        <4>2. QED
          BY <4>1 DEF In
      <3>4. QED
        BY <3>2, <3>3
    <2>2. ASSUME In(p, s) PROVE In(p, u)
      <3>1. PICK i \in DOMAIN s : s[i] = p
        BY <2>2 DEF In
      <3>2. i \in DOMAIN u /\ u[i] = p
        BY <3>1, <1>1, <1>2
      <3>3. QED
        BY <3>2 DEF In
    <2>3. ASSUME In(p, t) PROVE In(p, u)
      <3>1. PICK i \in DOMAIN t : t[i] = p
        BY <2>3 DEF In
      <3>2. i + Len(s) \in DOMAIN u /\ u[i + Len(s)] = p
        BY <3>1, <1>1, <1>2
      <3>3. QED
        BY <3>2 DEF In
    <2>4. QED
      BY <2>1, <2>2, <2>3
  <1>4. ASSUME NEW R, Increasing(R, s), Increasing(R, t),
               \A i \in DOMAIN s, k \in DOMAIN t : <<s[i], t[k]>> \in R
        PROVE  Increasing(R, u)
    <2>1. SUFFICES ASSUME NEW i \in DOMAIN u, NEW k \in DOMAIN u, i < k
                   PROVE  <<u[i], u[k]>> \in R
      BY DEF Increasing
    <2>2. CASE k <= Len(s)
      <3>1. i \in DOMAIN s /\ k \in DOMAIN s /\ u[i] = s[i] /\ u[k] = s[k]
        BY <2>1, <2>2, <1>1, <1>2
      <3>2. QED
        BY <3>1, <2>1, <1>4 DEF Increasing
    <2>3. CASE i <= Len(s) /\ ~(k <= Len(s))
      <3>1. i \in DOMAIN s /\ k - Len(s) \in DOMAIN t
            /\ u[i] = s[i] /\ u[k] = t[k - Len(s)]
        BY <2>1, <2>3, <1>1, <1>2
      <3>2. QED
        BY <3>1, <1>4
    <2>4. CASE ~(i <= Len(s))
      <3>1. i - Len(s) \in DOMAIN t /\ k - Len(s) \in DOMAIN t
            /\ u[i] = t[i - Len(s)] /\ u[k] = t[k - Len(s)]
            /\ i - Len(s) < k - Len(s)
        BY <2>1, <2>4, <1>1, <1>2
      <3>2. QED
        BY <3>1, <1>4 DEF Increasing
    <2>5. QED
      BY <2>1, <2>2, <2>3, <2>4, <1>1
  <1>5. QED
    BY <1>1, <1>3, <1>4 DEF u

\* What is in a flattened sequence, and when it increases.
LEMMA FlattenFacts ==
    ASSUME NEW S, NEW ss \in Seq(Seq(S))
    PROVE  /\ FlattenSeq(ss) \in Seq(S)
           /\ \A p : In(p, FlattenSeq(ss)) <=> \E b \in DOMAIN ss : In(p, ss[b])
           /\ \A R : /\ \A b \in DOMAIN ss : Increasing(R, ss[b])
                     /\ PartsIncreasing(R, ss)
                     => Increasing(R, FlattenSeq(ss))
  <1> DEFINE n == Len(ss)
  <1>1. n \in Nat /\ DOMAIN ss = 1..n /\ \A b \in 1..n : ss[b] \in Seq(S)
    OBVIOUS
  <1>2. CASE n = 0
    <2>1. FlattenSeq(ss) = ss /\ ss = <<>>
      BY <1>2 DEF FlattenSeq
    <2>2. QED
      BY <2>1 DEF In, Increasing
  <1>3. CASE n # 0
    <2>1. PICK f : FlattensTo(f, ss, n) /\ FlattenSeq(ss) = f[n]
      <3> DEFINE f == CHOOSE f : FlattensTo(f, ss, n)
      <3>1. FlattensTo(f, ss, n)
        BY <1>1, FlattenExists
      <3>2. FlattenSeq(ss) = f[n]
        BY <1>3, Zenon DEF FlattenSeq, FlattensTo
      <3>3. QED
        BY <3>1, <3>2
    <2>2. f[1] = ss[1]
      <3>1. 1 \in 1..n
        BY <1>1, <1>3
      <3>2. QED
        BY <3>1, <2>1, Zenon DEF FlattensTo
    <2>3. ASSUME NEW i \in 1..n, i # 1 PROVE f[i] = f[i - 1] \o ss[i]
      BY <2>1, <2>3, Zenon DEF FlattensTo
    <2> DEFINE Up(R) == /\ \A b \in 1..n : Increasing(R, ss[b])
                        /\ PartsIncreasing(R, ss)
               Fine(i) ==
                 /\ f[i] \in Seq(S)
                 /\ \A p : In(p, f[i]) <=> \E b \in 1..i : In(p, ss[b])
                 /\ \A R : Up(R) => Increasing(R, f[i])
               T == {i \in 1..n : ~Fine(i)}
    <2> HIDE DEF Fine
    <2>4. T = {}
      <3>1. SUFFICES ASSUME T # {} PROVE FALSE
        OBVIOUS
      <3>2. PICK i \in T : \A y \in T : i <= y
        <4>1. T \in SUBSET Nat
          OBVIOUS
        <4>2. QED
          BY <3>1, <4>1, LeastNatural
      <3>3. i \in 1..n /\ ~Fine(i)
        OBVIOUS
      <3>4. i # 1
        <4>1. 1 \in 1..n /\ \A b \in 1..1 : b = 1
          BY <1>1, <1>3
        <4>2. Fine(1)
          BY <4>1, <2>2, <1>1 DEF Fine
        <4>3. QED
          BY <4>2, <3>3
      <3>5. i - 1 \in 1..n /\ i - 1 \notin T
        BY <3>2, <3>3, <3>4
      <3>6. Fine(i - 1)
        BY <3>5
      <3>7. f[i] = f[i - 1] \o ss[i] /\ ss[i] \in Seq(S) /\ f[i - 1] \in Seq(S)
        BY <2>3, <3>3, <3>4, <3>6, <1>1 DEF Fine
      <3>8. /\ f[i] \in Seq(S)
            /\ \A p : In(p, f[i]) <=> In(p, f[i - 1]) \/ In(p, ss[i])
        BY <3>7, ConcatFacts
      <3>9. \A p : In(p, f[i]) <=> \E b \in 1..i : In(p, ss[b])
        <4>1. \A b : b \in 1..i <=> b \in 1..(i - 1) \/ b = i
          BY <3>3, <1>1
        <4>2. QED
          BY <4>1, <3>8, <3>6 DEF Fine
      <3>10. ASSUME NEW R, Up(R) PROVE Increasing(R, f[i])
        <4>1. Increasing(R, f[i - 1]) /\ Increasing(R, ss[i])
          BY <3>6, <3>3, <3>10, <1>1 DEF Fine
        <4>2. ASSUME NEW k \in DOMAIN f[i - 1], NEW l \in DOMAIN ss[i]
              PROVE  <<f[i - 1][k], ss[i][l]>> \in R
          <5>1. In(f[i - 1][k], f[i - 1])
            BY DEF In
          <5>2. PICK b \in 1..(i - 1) : In(f[i - 1][k], ss[b])
            BY <5>1, <3>6 DEF Fine
          <5>3. PICK e \in DOMAIN ss[b] : ss[b][e] = f[i - 1][k]
            BY <5>2 DEF In
          <5>4. b \in DOMAIN ss /\ i \in DOMAIN ss /\ b < i
            BY <3>3, <1>1
          <5>5. QED
            BY <5>3, <5>4, <3>10 DEF PartsIncreasing
        <4>3. QED
          BY <4>1, <4>2, <3>7, ConcatFacts
      <3>11. QED
        BY <3>3, <3>8, <3>9, <3>10 DEF Fine
    <2>5. Fine(n)
      BY <2>4, <1>1, <1>3
    <2>6. QED
      BY <2>5, <2>1, <1>1 DEF Fine
  <1>4. QED
    BY <1>2, <1>3

-----------------------------------------------------------------------------
(* Buckets, passes and tiers.                                               *)

Zone(p) == ZoneOf(Info[p].country)

\* A bucket has the probes of its zone and band; the n-th has n - 1 before it.
LEMMA BucketFacts ==
    ASSUME NEW S \in SUBSET Probes, NEW cfg, NEW zone, NEW band
    PROVE  LET b == Bucket(Sorted(S, cfg), zone, band, cfg) IN
           /\ b \in Seq(S)
           /\ \A p : In(p, b) <=> p \in S /\ Zone(p) = zone /\ Band(p, cfg) = band
           /\ \A n \in DOMAIN b : RankInZone(S, b[n], cfg) = n - 1
  <1> DEFINE c == Sorted(S, cfg)
             b == Bucket(c, zone, band, cfg)
             N == Cardinality(S)
             at == {i \in DOMAIN c : Zone(c[i]) = zone /\ Band(c[i], cfg) = band}
             before(i) == {k \in at : k < i}
             Nth(n) == CHOOSE i \in at : Cardinality(before(i)) = n - 1
             M == Cardinality(at)
  <1>1. /\ DOMAIN c = 1..N /\ N \in Nat
        /\ \A i \in 1..N : c[i] \in S
        /\ \A p \in S : \E i \in 1..N : c[i] = p
        /\ \A i, k \in 1..N : i < k <=> Before(c[i], c[k], cfg)
        /\ \A i, k \in 1..N : c[i] = c[k] => i = k
    <2>1. /\ c \in Seq(S) /\ Len(c) = N /\ DOMAIN c = 1..N /\ N \in Nat
          /\ \A p \in S : \E i \in DOMAIN c : c[i] = p
          /\ \A i, k \in DOMAIN c : i < k <=> Before(c[i], c[k], cfg)
          /\ \A i, k \in DOMAIN c : c[i] = c[k] => i = k
      BY SortedFacts
    <2> HIDE DEF c, N
    <2>2. QED
      BY <2>1
  <1>2. b = [n \in 1..M |-> c[Nth(n)]]
    BY Zenon DEF Bucket, Zone
  <1> HIDE DEF c, b
  <1>3. IsFiniteSet(at) /\ M \in Nat /\ at \subseteq 1..N
    <2>1. IsFiniteSet(1..N)
      BY <1>1, FS_Interval
    <2>2. at \in SUBSET (1..N)
      BY <1>1
    <2>3. QED
      BY <2>1, <2>2, FS_Subset, FS_CardinalityType
  <1>4. /\ \A i \in at : Cardinality(before(i)) \in 0..(M - 1)
        /\ \A n \in 0..(M - 1) : \E i \in at : Cardinality(before(i)) = n
    <2> DEFINE R == {e \in at \X at : e[1] < e[2]}
    <2>0. \A i, k \in at : <<i, k>> \in R <=> i < k
      OBVIOUS
    <2>1. StrictOrder(R, at)
      <3>1. \A i \in at : i \in Int
        BY <1>3
      <3> HIDE DEF R, at
      <3>2. QED
        BY <2>0, <3>1 DEF StrictOrder
    <2>2. \A i \in at : Below(R, at, i) = before(i)
      BY <2>0 DEF Below
    <2> HIDE DEF R, at
    <2>3. /\ \A i \in at : Cardinality(Below(R, at, i)) \in 0..(M - 1)
          /\ \A i, k \in at :
               <<i, k>> \in R
               <=> Cardinality(Below(R, at, i)) < Cardinality(Below(R, at, k))
          /\ \A n \in 0..(M - 1) : \E i \in at : Cardinality(Below(R, at, i)) = n
      <3>1. IsFiniteSet(at)
        BY <1>3
      <3>2. QED
        BY <2>1, <3>1, Ranks
    <2>4. QED
      BY <2>2, <2>3
  <1>5. \A n \in 1..M : Nth(n) \in at /\ Cardinality(before(Nth(n))) = n - 1
    <2>1. TAKE n \in 1..M
    <2>2. \E i \in at : Cardinality(before(i)) = n - 1
      <3>1. n - 1 \in 0..(M - 1)
        BY <1>3
      <3> HIDE DEF at, before, M
      <3>2. QED
        BY <3>1, <1>4
    <2> HIDE DEF at, before
    <2>3. QED
      BY <2>2
  <1>6. b \in Seq(S) /\ DOMAIN b = 1..M
    <2>1. \A n \in 1..M : c[Nth(n)] \in S
      BY <1>1, <1>3, <1>5
    <2> HIDE DEF Nth, at
    <2>2. QED
      BY <2>1, <1>2, <1>3
  <1>7. ASSUME NEW i \in at
        PROVE  RankInZone(S, c[i], cfg) = Cardinality(before(i))
    <2> DEFINE T == {q \in S : /\ Zone(q) = Zone(c[i])
                               /\ Band(q, cfg) = Band(c[i], cfg)
                               /\ Before(q, c[i], cfg)}
               f == [k \in before(i) |-> c[k]]
    <2>1. RankInZone(S, c[i], cfg) = Cardinality(T)
      BY Zenon DEF RankInZone, Zone
    <2>2. IsFiniteSet(before(i))
      BY <1>3, FS_Subset
    <2>3. f \in [before(i) -> T]
      <3>1. ASSUME NEW k \in before(i) PROVE c[k] \in T
        <4>1. k \in 1..N /\ i \in 1..N /\ k < i
          BY <1>3
        <4>2. Before(c[k], c[i], cfg) /\ c[k] \in S
          BY <4>1, <1>1
        <4>3. QED
          BY <4>2
      <3>2. QED
        BY <3>1
    <2>4. \A k, l \in before(i) : f[k] = f[l] => k = l
      BY <1>1, <1>3
    <2>5. \A q \in T : \E k \in before(i) : f[k] = q
      <3>1. TAKE q \in T
      <3>2. PICK k \in 1..N : c[k] = q
        BY <1>1
      <3>3. k \in at
        BY <3>2, <1>1
      <3>4. k < i
        BY <3>2, <1>1, <1>3
      <3>5. k \in before(i)
        BY <3>3, <3>4
      <3>6. QED
        BY <3>2, <3>5
    <2> HIDE DEF T, f, before
    <2>6. f \in Bijection(before(i), T)
      BY <2>3, <2>4, <2>5 DEF Bijection, Injection, Surjection, IsInjective
    <2>7. Cardinality(T) = Cardinality(before(i))
      BY <2>2, <2>6, FS_Bijection DEF ExistsBijection
    <2>8. QED
      BY <2>1, <2>7
  <1>8. \A n \in DOMAIN b : RankInZone(S, b[n], cfg) = n - 1
    <2>1. TAKE n \in DOMAIN b
    <2>2. b[n] = c[Nth(n)] /\ n \in 1..M
      BY <1>2, <1>6
    <2>3. Nth(n) \in at /\ Cardinality(before(Nth(n))) = n - 1
      BY <2>2, <1>5
    <2>4. RankInZone(S, c[Nth(n)], cfg) = Cardinality(before(Nth(n)))
      BY <2>3, <1>7
    <2>5. QED
      BY <2>2, <2>3, <2>4
  <1>9. ASSUME NEW p PROVE In(p, b) <=> p \in S /\ Zone(p) = zone /\ Band(p, cfg) = band
    <2>1. ASSUME In(p, b) PROVE p \in S /\ Zone(p) = zone /\ Band(p, cfg) = band
      <3>1. PICK n \in 1..M : b[n] = p
        BY <2>1, <1>6 DEF In
      <3>2. p = c[Nth(n)] /\ Nth(n) \in at
        BY <3>1, <1>2, <1>5
      <3>3. QED
        BY <3>2, <1>1
    <2>2. ASSUME p \in S, Zone(p) = zone, Band(p, cfg) = band PROVE In(p, b)
      <3>1. PICK i \in 1..N : c[i] = p
        BY <2>2, <1>1
      <3>2. i \in at
        BY <3>1, <2>2, <1>1
      <3>3. Cardinality(before(i)) \in 0..(M - 1)
        BY <3>2, <1>4
      <3> DEFINE n == Cardinality(before(i)) + 1
      <3>4. n \in 1..M /\ n - 1 = Cardinality(before(i))
        BY <3>3, <1>3
      <3>5. Nth(n) \in at /\ Cardinality(before(Nth(n))) = Cardinality(before(i))
        BY <3>4, <1>5
      <3>6. Nth(n) = i
        <4> DEFINE l == Nth(n)
        <4>1. l \in at /\ Cardinality(before(l)) = Cardinality(before(i))
          BY <3>5
        <4> HIDE DEF l
        <4>2. ASSUME NEW k \in at, NEW e \in at, k < e
              PROVE  Cardinality(before(k)) # Cardinality(before(e))
          <5>1. IsFiniteSet(before(e)) /\ before(k) \in SUBSET before(e)
            BY <4>2, <1>3, FS_Subset
          <5>2. k \in before(e) /\ k \notin before(k)
            BY <4>2, <1>3
          <5>3. QED
            BY <5>1, <5>2, FS_Subset
        <4>3. l \in Int /\ i \in Int
          BY <4>1, <3>2, <1>3
        <4>4. ~(l < i) /\ ~(i < l)
          BY <4>1, <4>2, <3>2
        <4>5. l = i
          BY <4>3, <4>4
        <4>6. QED
          BY <4>5 DEF l
      <3>7. b[n] = p /\ n \in DOMAIN b
        BY <3>1, <3>4, <3>6, <1>2, <1>6
      <3>8. QED
        BY <3>7 DEF In
    <2>3. QED
      BY <2>1, <2>2
  <1>10. QED
    BY <1>6, <1>8, <1>9 DEF b, c

\* The three levels of InterleaveContinents.
PickOf(c, cfg, band, n, zone) ==
    LET b == Bucket(c, zone, band, cfg)
    IN  IF n <= Len(b) THEN <<b[n]>> ELSE <<>>

PassOf(c, cfg, band, n) ==
    FlattenSeq([z \in DOMAIN Zones |-> PickOf(c, cfg, band, n, Zones[z])])

TierOf(c, cfg, band) == FlattenSeq([n \in DOMAIN c |-> PassOf(c, cfg, band, n)])

TurnIn(S, cfg) == {e \in S \X S : EarlierTurn(S, e[1], e[2], cfg)}

\* The zones are six, and every probe is in one of them.
LEMMA ZoneFacts ==
    /\ DOMAIN Zones = 1..6
    /\ \A y, z \in 1..6 : Zones[y] = Zones[z] => y = z
    /\ \A p : \E z \in 1..6 : Zones[z] = Zone(p)
    /\ \A p : \A z \in 1..6 : Zones[z] = Zone(p) => ZoneTurn(p) = z
  <1>1. DOMAIN Zones = 1..6 /\ Zones[1] = "NA"
    BY DEF Zones
  <1>2. \A y, z \in 1..6 : Zones[y] = Zones[z] => y = z
    BY DEF Zones
  <1>3. \A p : \E z \in 1..6 : Zones[z] = Zone(p)
    BY <1>1, TableAssumption DEF Zone, ZoneOf
  <1>4. \A p : \A z \in 1..6 : Zones[z] = Zone(p) => ZoneTurn(p) = z
    BY <1>1, <1>2 DEF ZoneTurn, Zone
  <1>5. QED
    BY <1>1, <1>2, <1>3, <1>4

\* A zone's pick in pass n is its probe with n - 1 before it, if it has one.
LEMMA PickFacts ==
    ASSUME NEW S \in SUBSET Probes, NEW cfg, NEW zone, NEW band, NEW n \in Nat \ {0}
    PROVE  LET pick == PickOf(Sorted(S, cfg), cfg, band, n, zone) IN
           /\ pick \in Seq(S)
           /\ \A R : Increasing(R, pick)
           /\ \A p : In(p, pick)
                     <=> /\ p \in S /\ Zone(p) = zone /\ Band(p, cfg) = band
                         /\ RankInZone(S, p, cfg) = n - 1
  <1> DEFINE b == Bucket(Sorted(S, cfg), zone, band, cfg)
             pick == PickOf(Sorted(S, cfg), cfg, band, n, zone)
  <1>1. /\ b \in Seq(S)
        /\ \A p : In(p, b) <=> p \in S /\ Zone(p) = zone /\ Band(p, cfg) = band
        /\ \A i \in DOMAIN b : RankInZone(S, b[i], cfg) = i - 1
    BY BucketFacts
  <1>2. pick = IF n <= Len(b) THEN <<b[n]>> ELSE <<>>
    BY DEF PickOf
  <1> HIDE DEF b, pick
  <1>3. DOMAIN b = 1..Len(b) /\ Len(b) \in Nat
    BY <1>1
  <1>4. CASE n <= Len(b)
    <2>1. n \in DOMAIN b /\ pick = <<b[n]>> /\ b[n] \in S
      BY <1>1, <1>2, <1>3, <1>4
    <2>2. pick \in Seq(S) /\ (\A R : Increasing(R, pick)) /\ \A p : In(p, pick) <=> p = b[n]
      BY <2>1 DEF Increasing, In
    <2>3. In(b[n], b) /\ RankInZone(S, b[n], cfg) = n - 1
      BY <2>1, <1>1 DEF In
    <2>4. ASSUME NEW p \in S, Zone(p) = zone, Band(p, cfg) = band,
                 RankInZone(S, p, cfg) = n - 1
          PROVE  p = b[n]
      <3>1. PICK i \in DOMAIN b : b[i] = p
        BY <2>4, <1>1 DEF In
      <3>2. i - 1 = n - 1
        BY <3>1, <2>4, <1>1
      <3>3. QED
        BY <3>1, <3>2, <1>3
    <2>5. QED
      BY <2>2, <2>3, <2>4, <1>1 DEF pick
  <1>5. CASE ~(n <= Len(b))
    <2>1. pick = <<>>
      BY <1>2, <1>5
    <2>2. ASSUME NEW p \in S, Zone(p) = zone, Band(p, cfg) = band
          PROVE  RankInZone(S, p, cfg) # n - 1
      <3>1. PICK i \in DOMAIN b : b[i] = p
        BY <2>2, <1>1 DEF In
      <3>2. RankInZone(S, p, cfg) = i - 1
        BY <3>1, <1>1
      <3>3. QED
        BY <3>1, <3>2, <1>3, <1>5
    <2>3. pick \in Seq(S) /\ (\A R : Increasing(R, pick)) /\ \A p : ~In(p, pick)
      BY <2>1 DEF Increasing, In
    <2>4. QED
      BY <2>2, <2>3 DEF pick
  <1>6. QED
    BY <1>4, <1>5

\* A pass has, of each zone, the probe with n - 1 before it.
LEMMA PassFacts ==
    ASSUME NEW S \in SUBSET Probes, NEW cfg, NEW band, NEW n \in Nat \ {0}
    PROVE  LET pass == PassOf(Sorted(S, cfg), cfg, band, n) IN
           /\ pass \in Seq(S)
           /\ Increasing(TurnIn(S, cfg), pass)
           /\ \A p : In(p, pass) <=> /\ p \in S /\ Band(p, cfg) = band
                                     /\ RankInZone(S, p, cfg) = n - 1
  <1> DEFINE ss == [z \in DOMAIN Zones |->
                       PickOf(Sorted(S, cfg), cfg, band, n, Zones[z])]
             R == TurnIn(S, cfg)
  <1>1. \A z \in 1..6 :
          /\ ss[z] \in Seq(S)
          /\ Increasing(R, ss[z])
          /\ \A p : In(p, ss[z])
                    <=> /\ p \in S /\ Zone(p) = Zones[z] /\ Band(p, cfg) = band
                        /\ RankInZone(S, p, cfg) = n - 1
    <2>1. TAKE z \in 1..6
    <2>2. ss[z] = PickOf(Sorted(S, cfg), cfg, band, n, Zones[z])
      BY ZoneFacts
    <2> HIDE DEF ss
    <2>3. QED
      BY <2>2, PickFacts
  <1>2. DOMAIN ss = 1..6 /\ ss = [z \in 1..6 |-> ss[z]]
    BY ZoneFacts
  <1>3. PassOf(Sorted(S, cfg), cfg, band, n) = FlattenSeq(ss)
    BY DEF PassOf
  <1> HIDE DEF ss
  <1>4. ss \in Seq(Seq(S))
    BY <1>1, <1>2
  <1>5. PartsIncreasing(R, ss)
    <2>1. SUFFICES ASSUME NEW y \in 1..6, NEW z \in 1..6, y < z,
                          NEW i \in DOMAIN ss[y], NEW k \in DOMAIN ss[z]
                   PROVE  <<ss[y][i], ss[z][k]>> \in R
      BY <1>2 DEF PartsIncreasing
    <2> DEFINE p == ss[y][i]
               q == ss[z][k]
    <2>2. In(p, ss[y]) /\ In(q, ss[z])
      BY DEF In
    <2> HIDE DEF p, q
    <2>3. /\ p \in S /\ Zone(p) = Zones[y] /\ Band(p, cfg) = band
          /\ RankInZone(S, p, cfg) = n - 1
          /\ q \in S /\ Zone(q) = Zones[z] /\ Band(q, cfg) = band
          /\ RankInZone(S, q, cfg) = n - 1
      BY <1>1, <2>2
    <2>4. ZoneTurn(p) = y /\ ZoneTurn(q) = z
      BY <2>3, ZoneFacts
    <2>5. EarlierTurn(S, p, q, cfg)
      BY <2>1, <2>3, <2>4 DEF EarlierTurn
    <2>6. QED
      BY <2>3, <2>5 DEF TurnIn, p, q
  <1>6. /\ FlattenSeq(ss) \in Seq(S)
        /\ \A p : In(p, FlattenSeq(ss)) <=> \E z \in 1..6 : In(p, ss[z])
        /\ Increasing(R, FlattenSeq(ss))
    BY <1>1, <1>2, <1>4, <1>5, FlattenFacts
  <1>7. QED
    BY <1>1, <1>3, <1>6, ZoneFacts

\* Fewer than all probes come before one.
LEMMA RankBound ==
    ASSUME NEW S \in SUBSET Probes, NEW cfg, NEW p \in S
    PROVE  RankInZone(S, p, cfg) \in Nat /\ RankInZone(S, p, cfg) < Cardinality(S)
  <1> DEFINE T == {q \in S : /\ ZoneOf(Info[q].country) = ZoneOf(Info[p].country)
                             /\ Band(q, cfg) = Band(p, cfg)
                             /\ Before(q, p, cfg)}
  <1>1. RankInZone(S, p, cfg) = Cardinality(T)
    BY DEF RankInZone
  <1>2. ~Before(p, p, cfg)
    <2>1. p \in Nat /\ Info[p].hash \in Nat /\ Band(p, cfg) \in 1..4
      BY ProbesAssumption, TableAssumption, BandType
    <2>2. QED
      BY <2>1 DEF Before
  <1>3. T \in SUBSET (S \ {p})
    BY <1>2
  <1> HIDE DEF T
  <1>4. IsFiniteSet(S) /\ Cardinality(S) \in Nat
    BY ProbesAssumption, FS_Subset, FS_CardinalityType
  <1>5. IsFiniteSet(S \ {p}) /\ Cardinality(S \ {p}) = Cardinality(S) - 1
    BY <1>4, FS_RemoveElement
  <1>6. IsFiniteSet(T) /\ Cardinality(T) <= Cardinality(S) - 1 /\ Cardinality(T) \in Nat
    BY <1>3, <1>5, FS_Subset, FS_CardinalityType
  <1>7. QED
    BY <1>1, <1>4, <1>6

\* A tier has the probes of its band, in turns.
LEMMA TierFacts ==
    ASSUME NEW S \in SUBSET Probes, NEW cfg, NEW band
    PROVE  LET tier == TierOf(Sorted(S, cfg), cfg, band) IN
           /\ tier \in Seq(S)
           /\ Increasing(TurnIn(S, cfg), tier)
           /\ \A p : In(p, tier) <=> p \in S /\ Band(p, cfg) = band
  <1> DEFINE N == Cardinality(S)
             ss == [n \in DOMAIN Sorted(S, cfg) |-> PassOf(Sorted(S, cfg), cfg, band, n)]
             R == TurnIn(S, cfg)
  <1>1. N \in Nat /\ DOMAIN Sorted(S, cfg) = 1..N
    BY SortedFacts
  <1>2. \A n \in 1..N :
          /\ ss[n] \in Seq(S)
          /\ Increasing(R, ss[n])
          /\ \A p : In(p, ss[n]) <=> /\ p \in S /\ Band(p, cfg) = band
                                     /\ RankInZone(S, p, cfg) = n - 1
    <2>1. TAKE n \in 1..N
    <2>2. ss[n] = PassOf(Sorted(S, cfg), cfg, band, n) /\ n \in Nat \ {0}
      BY <1>1
    <2> HIDE DEF ss
    <2>3. QED
      BY <2>2, PassFacts
  <1>3. DOMAIN ss = 1..N /\ ss = [n \in 1..N |-> ss[n]]
    BY <1>1
  <1>4. TierOf(Sorted(S, cfg), cfg, band) = FlattenSeq(ss)
    BY DEF TierOf
  <1> HIDE DEF ss, N
  <1>5. ss \in Seq(Seq(S))
    BY <1>1, <1>2, <1>3
  <1>6. PartsIncreasing(R, ss)
    <2>1. SUFFICES ASSUME NEW l \in 1..N, NEW n \in 1..N, l < n,
                          NEW i \in DOMAIN ss[l], NEW k \in DOMAIN ss[n]
                   PROVE  <<ss[l][i], ss[n][k]>> \in R
      BY <1>3 DEF PartsIncreasing
    <2> DEFINE p == ss[l][i]
               q == ss[n][k]
    <2>2. In(p, ss[l]) /\ In(q, ss[n])
      BY DEF In
    <2> HIDE DEF p, q
    <2>3. /\ p \in S /\ Band(p, cfg) = band /\ RankInZone(S, p, cfg) = l - 1
          /\ q \in S /\ Band(q, cfg) = band /\ RankInZone(S, q, cfg) = n - 1
      BY <1>2, <2>2
    <2>4. l - 1 < n - 1
      BY <2>1, <1>1
    <2>5. EarlierTurn(S, p, q, cfg)
      BY <2>3, <2>4 DEF EarlierTurn
    <2>6. QED
      BY <2>3, <2>5 DEF TurnIn, p, q
  <1>7. /\ FlattenSeq(ss) \in Seq(S)
        /\ \A p : In(p, FlattenSeq(ss)) <=> \E n \in 1..N : In(p, ss[n])
        /\ Increasing(R, FlattenSeq(ss))
    BY <1>2, <1>3, <1>5, <1>6, FlattenFacts
  <1>8. ASSUME NEW p \in S, Band(p, cfg) = band PROVE \E n \in 1..N : In(p, ss[n])
    <2> DEFINE n == RankInZone(S, p, cfg) + 1
    <2>1. n \in 1..N /\ RankInZone(S, p, cfg) = n - 1
      BY <1>1, RankBound DEF N
    <2>2. In(p, ss[n])
      BY <2>1, <1>2, <1>8
    <2>3. QED
      BY <2>1, <2>2
  <1>9. QED
    BY <1>2, <1>4, <1>7, <1>8

\* No probe has its turn before itself.
LEMMA TurnIrreflexive ==
    ASSUME NEW S \in SUBSET Probes, NEW cfg, NEW p \in S
    PROVE  <<p, p>> \notin TurnIn(S, cfg)
  <1>1. Band(p, cfg) \in 1..4 /\ RankInZone(S, p, cfg) \in Nat /\ ZoneTurn(p) \in 1..6
    BY BandType, RankBound, ZoneFacts
  <1>2. ~EarlierTurn(S, p, p, cfg)
    BY <1>1 DEF EarlierTurn
  <1>3. QED
    BY <1>2 DEF TurnIn

\* Buckets, passes and tiers give the pool, in turns (interleaveContinents).
THEOREM InterleavedInTurns ==
    ASSUME NEW S \in SUBSET Probes, NEW cfg
    PROVE  LET order == InterleaveContinents(Sorted(S, cfg), cfg) IN
           /\ order \in Seq(S)
           /\ \A p \in S : \E i \in DOMAIN order : order[i] = p
           /\ \A i, k \in DOMAIN order :
                i < k => EarlierTurn(S, order[i], order[k], cfg)
           /\ \A i, k \in DOMAIN order : order[i] = order[k] => i = k
  <1> DEFINE c == Sorted(S, cfg)
             ss == [b \in 1..4 |-> TierOf(c, cfg, 5 - b)]
             R == TurnIn(S, cfg)
             order == InterleaveContinents(c, cfg)
  <1>1. order = FlattenSeq(ss)
    BY Zenon DEF InterleaveContinents, TierOf, PassOf, PickOf
  <1>2. \A b \in 1..4 :
          /\ ss[b] \in Seq(S)
          /\ Increasing(R, ss[b])
          /\ \A p : In(p, ss[b]) <=> p \in S /\ Band(p, cfg) = 5 - b
    BY TierFacts
  <1>3. DOMAIN ss = 1..4 /\ ss = [b \in 1..4 |-> ss[b]]
    OBVIOUS
  <1> HIDE DEF ss, order
  <1>4. ss \in Seq(Seq(S))
    BY <1>2, <1>3
  <1>5. PartsIncreasing(R, ss)
    <2>1. SUFFICES ASSUME NEW b \in 1..4, NEW d \in 1..4, b < d,
                          NEW i \in DOMAIN ss[b], NEW k \in DOMAIN ss[d]
                   PROVE  <<ss[b][i], ss[d][k]>> \in R
      BY <1>3 DEF PartsIncreasing
    <2> DEFINE p == ss[b][i]
               q == ss[d][k]
    <2>2. In(p, ss[b]) /\ In(q, ss[d])
      BY DEF In
    <2> HIDE DEF p, q
    <2>3. p \in S /\ Band(p, cfg) = 5 - b /\ q \in S /\ Band(q, cfg) = 5 - d
      BY <1>2, <2>2
    <2>4. EarlierTurn(S, p, q, cfg)
      BY <2>1, <2>3 DEF EarlierTurn
    <2>5. QED
      BY <2>3, <2>4 DEF TurnIn, p, q
  <1>6. /\ order \in Seq(S)
        /\ \A p : In(p, order) <=> \E b \in 1..4 : In(p, ss[b])
        /\ Increasing(R, order)
    BY <1>1, <1>2, <1>3, <1>4, <1>5, FlattenFacts
  <1>7. \A p \in S : \E i \in DOMAIN order : order[i] = p
    <2>1. TAKE p \in S
    <2>2. Band(p, cfg) \in 1..4
      BY BandType
    <2>3. 5 - Band(p, cfg) \in 1..4 /\ Band(p, cfg) = 5 - (5 - Band(p, cfg))
      BY <2>2
    <2>4. In(p, ss[5 - Band(p, cfg)])
      BY <2>3, <1>2
    <2>5. In(p, order)
      BY <2>3, <2>4, <1>6
    <2>6. QED
      BY <2>5 DEF In
  <1>8. \A i, k \in DOMAIN order : i < k => EarlierTurn(S, order[i], order[k], cfg)
    BY <1>6 DEF Increasing, TurnIn
  <1>9. \A i, k \in DOMAIN order : order[i] = order[k] => i = k
    <2>1. TAKE i, k \in DOMAIN order
    <2>2. i \in Int /\ k \in Int /\ order[i] \in S /\ order[k] \in S
      BY <1>6
    <2>3. HAVE order[i] = order[k]
    <2>4. ~(i < k) /\ ~(k < i)
      BY <2>2, <2>3, <1>6, TurnIrreflexive DEF Increasing
    <2>5. QED
      BY <2>2, <2>4
  <1>10. QED
    BY <1>6, <1>7, <1>8, <1>9 DEF order

\* The default orderer is an orderer: whatever the pool and the configuration,
\* it returns each probe once (NewDefaultOrderer).
THEOREM DefaultOrderOrders ==
    ASSUME NEW S \in SUBSET Probes, NEW cfg
    PROVE  LET order == DefaultOrder(S, cfg) IN
           /\ order \in Seq(S)
           /\ \A p \in S : \E i \in DOMAIN order : order[i] = p
           /\ \A i, k \in DOMAIN order : order[i] = order[k] => i = k
  <1>1. CASE cfg.unshuffled
    BY <1>1, SortedFacts DEF DefaultOrder
  <1>2. CASE ~cfg.unshuffled
    BY <1>2, InterleavedInTurns DEF DefaultOrder
  <1>3. QED
    BY <1>1, <1>2

=============================================================================
