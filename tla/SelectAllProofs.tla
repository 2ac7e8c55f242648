--------------------------- MODULE SelectAllProofs ---------------------------
(***************************************************************************)
(* The properties of SelectAll: what the commands make of a configuration, *)
(* for any files, snapshots and probes, with the default orderer.          *)
(***************************************************************************)
EXTENDS SelectAll, SelectionProofs, EstimatesProofs

\* The orderer that the commands use, and the key of its cache
\* (NewDefaultOrderer).
DefaultOrderer ==
    /\ \A S \in SUBSET Probes, cfg \in Cfgs : Orderer(S, cfg) = DefaultOrder(S, cfg)
    /\ \A cfg \in Cfgs : OrderKey(cfg) = CacheKey(cfg)

\* JSON tells configurations of finite radii from all others.
LEMMA KeysTell == DefaultOrderer => DistinctKeys
  <1>1. \A c, d : FiniteRadii(c) /\ CacheKey(c) = CacheKey(d) => c = d
    BY DEF CacheKey
  <1>2. QED
    BY <1>1 DEF DefaultOrderer, DistinctKeys

\* A cohort looks at the pool zone by zone in turns, each probe once, unless
\* its configuration turns that off or has a city that is everywhere.
THEOREM SpecRoundRobin == DefaultOrderer => (Spec => []RoundRobin)
  <1> SUFFICES ASSUME DefaultOrderer PROVE Spec => []RoundRobin
    OBVIOUS
  <1>1. IInv /\ CachedOrderIsOwn => RoundRobin
    <2>1. SUFFICES ASSUME IInv, CachedOrderIsOwn, pc = "fill",
                          FiniteRadii(Cohort.cfg), ~Cohort.cfg.unshuffled
                   PROVE  /\ {order[i] : i \in DOMAIN order} = pool
                          /\ \A i, k \in DOMAIN order :
                               i < k => EarlierTurn(pool, order[i], order[k], Cohort.cfg)
      BY DEF RoundRobin
    <2>2. Cohort.cfg \in Cfgs /\ pool \in SUBSET Probes
      BY <2>1, AtHand DEF IInv, Running, TypeOK
    <2>3. order = InterleaveContinents(Sorted(pool, Cohort.cfg), Cohort.cfg)
      BY <2>1, <2>2 DEF CachedOrderIsOwn, DefaultOrderer, DefaultOrder
    <2>4. /\ order \in Seq(pool)
          /\ \A p \in pool : \E i \in DOMAIN order : order[i] = p
          /\ \A i, k \in DOMAIN order :
               i < k => EarlierTurn(pool, order[i], order[k], Cohort.cfg)
      BY <2>2, <2>3, InterleavedInTurns
    <2>5. QED
      BY <2>4
  <1>2. Spec => []CachedOrderIsOwn
    BY KeysTell, SpecCachedOrderIsOwn
  <1>3. QED
    BY <1>1, <1>2, SpecIInv, PTL

-----------------------------------------------------------------------------
(* A probe that leaves opens its own slot only.                             *)

AheadOf(A, p, cfg) == {q \in A : Before(q, p, cfg)}

AtCell(A, cell, cfg) == {q \in A : CellOf(q, cfg) = cell}

\* A has whoever of S is eligible and finds, of those before it, fewer than the
\* room there is and fewer in its cell than the cap.
Greedy(S, A, E, room, cap, cfg) ==
    /\ A \subseteq S
    /\ \A p \in S :
         p \in A <=>
           /\ p \in E
           /\ Cardinality(AheadOf(A, p, cfg)) < room
           /\ Cardinality(AtCell(AheadOf(A, p, cfg), CellOf(p, cfg), cfg)) < cap

\* Before p, B has used up no more than A, of the room and of each cell.
NoFuller(A, B, p, cfg) ==
    /\ Cardinality(AheadOf(B, p, cfg)) <= Cardinality(AheadOf(A, p, cfg))
    /\ \A cell : Cardinality(AtCell(AheadOf(B, p, cfg), cell, cfg))
                   <= Cardinality(AtCell(AheadOf(A, p, cfg), cell, cfg))

\* The order of S, in words that the steps below use.
LEMMA BeforeFacts ==
    ASSUME NEW S \in SUBSET Probes, NEW cfg
    PROVE  /\ \A p \in S : ~Before(p, p, cfg)
           /\ \A p, q, r \in S : Before(p, q, cfg) /\ Before(q, r, cfg) => Before(p, r, cfg)
           /\ \A p, q \in S : p = q \/ Before(p, q, cfg) \/ Before(q, p, cfg)
           /\ \A p \in S : Cardinality(AheadOf(S, p, cfg)) \in Nat
           /\ \A p, q \in S :
                Before(p, q, cfg)
                <=> Cardinality(AheadOf(S, p, cfg)) < Cardinality(AheadOf(S, q, cfg))
  <1> DEFINE R == BeforeIn(S, cfg)
  <1>1. /\ StrictOrder(R, S)
        /\ \A p, q \in S : <<p, q>> \in R <=> Before(p, q, cfg)
        /\ \A p \in S : Below(R, S, p) = AheadOf(S, p, cfg)
    BY BeforeOrders DEF AheadOf
  <1> HIDE DEF R
  <1>2. IsFiniteSet(S)
    BY ProbesFinite
  <1>3. \A p, q \in S :
          <<p, q>> \in R
          <=> Cardinality(Below(R, S, p)) < Cardinality(Below(R, S, q))
    BY <1>1, <1>2, Ranks
  <1>4. \A p \in S : Cardinality(AheadOf(S, p, cfg)) \in Nat
    <2>1. \A p \in S : AheadOf(S, p, cfg) \in SUBSET Probes
      BY DEF AheadOf
    <2>2. QED
      BY <2>1, ProbesFinite
  <1>5. QED
    BY <1>1, <1>3, <1>4 DEF StrictOrder

\* Where whoever was picked before p and is still there has been picked again,
\* all that is new before p is one probe in the place of x.
LEMMA OneInPlace ==
    ASSUME NEW S \in SUBSET Probes, NEW cfg, NEW x \in S, NEW A, NEW B, NEW E,
           NEW room \in Int, NEW wider \in Int, room <= wider, NEW cap \in Int,
           Greedy(S, A, E, room, cap, cfg),
           Greedy(S \ {x}, B, E, wider, cap, cfg),
           NEW p \in S,
           AheadOf(A, p, cfg) \ {x} \subseteq B,
           Cardinality(AheadOf(A, p, cfg)) < room
    PROVE  NoFuller(A, B, p, cfg)
  <1> DEFINE old == AheadOf(A, p, cfg)
             new == AheadOf(B, p, cfg)
  <1>1. /\ \A q \in S : ~Before(q, q, cfg)
        /\ \A q, r, s \in S : Before(q, r, cfg) /\ Before(r, s, cfg) => Before(q, s, cfg)
        /\ \A q, r \in S : q = r \/ Before(q, r, cfg) \/ Before(r, q, cfg)
    BY BeforeFacts
  <1>2. A \subseteq S /\ B \subseteq S \ {x}
    BY DEF Greedy
  <1>3. \A T : T \subseteq A \/ T \subseteq B => IsFiniteSet(T) /\ Cardinality(T) \in Nat
    BY <1>2, ProbesFinite
  <1>4. \A U, T : U \subseteq T /\ (T \subseteq A \/ T \subseteq B) =>
                    Cardinality(U) <= Cardinality(T)
    BY <1>3, FS_Subset
  <1>5. old \ {x} \subseteq new
    BY DEF AheadOf
  \* Whoever is new found its cell full.
  <1>6. ASSUME NEW b \in new \ old
        PROVE  /\ b \in S \ {x} /\ b \in B /\ Before(b, p, cfg)
               /\ Cardinality(AtCell(AheadOf(B, b, cfg), CellOf(b, cfg), cfg)) < cap
               /\ ~(Cardinality(AtCell(AheadOf(A, b, cfg), CellOf(b, cfg), cfg)) < cap)
               /\ AheadOf(A, b, cfg) \subseteq old
    <2>1. b \in S \ {x} /\ b \in B /\ b \notin A /\ Before(b, p, cfg)
      BY <1>2 DEF AheadOf
    <2>2. b \in E
          /\ Cardinality(AtCell(AheadOf(B, b, cfg), CellOf(b, cfg), cfg)) < cap
      BY <2>1 DEF Greedy
    <2>3. AheadOf(A, b, cfg) \subseteq old
      BY <1>1, <1>2, <2>1 DEF AheadOf
    <2>4. old \subseteq A
      BY DEF AheadOf
    <2>5. Cardinality(AheadOf(A, b, cfg)) <= Cardinality(old)
          /\ Cardinality(AheadOf(A, b, cfg)) \in Nat /\ Cardinality(old) \in Nat
      BY <2>3, <2>4, <1>3, <1>4
    <2>6. Cardinality(AheadOf(A, b, cfg)) < room
      BY <2>5
    <2>7. ~(Cardinality(AtCell(AheadOf(A, b, cfg), CellOf(b, cfg), cfg)) < cap)
      BY <2>1, <2>2, <2>6 DEF Greedy
    <2>8. QED
      BY <2>1, <2>2, <2>3, <2>7
  \* In a cell that x has left.
  <1>7. ASSUME NEW b \in new \ old
        PROVE  x \in AtCell(AheadOf(A, b, cfg), CellOf(b, cfg), cfg)
    <2> DEFINE was == AtCell(AheadOf(A, b, cfg), CellOf(b, cfg), cfg)
               is  == AtCell(AheadOf(B, b, cfg), CellOf(b, cfg), cfg)
    <2>1. SUFFICES ASSUME x \notin was PROVE FALSE
      OBVIOUS
    <2>2. was \subseteq is
      BY <2>1, <1>5, <1>6 DEF AtCell, AheadOf
    <2>3. is \subseteq B /\ was \subseteq A
      BY DEF AtCell, AheadOf
    <2>4. Cardinality(was) <= Cardinality(is)
          /\ Cardinality(was) \in Nat /\ Cardinality(is) \in Nat
      BY <2>2, <2>3, <1>3, <1>4
    <2>5. Cardinality(is) < cap /\ ~(Cardinality(was) < cap)
      BY <1>6
    <2>6. QED
      BY <2>4, <2>5
  \* And there is but one of them, as the first uses up what x has left.
  <1>8. ASSUME NEW a \in new \ old, NEW b \in new \ old, Before(a, b, cfg)
        PROVE  FALSE
    <2> DEFINE cell == CellOf(a, cfg)
               was == AtCell(AheadOf(A, a, cfg), cell, cfg)
               is  == AtCell(AheadOf(B, b, cfg), cell, cfg)
    <2>1. /\ x \in was /\ CellOf(b, cfg) = cell
          /\ Cardinality(is) < cap /\ ~(Cardinality(was) < cap)
      <3>1. CellOf(x, cfg) = CellOf(a, cfg) /\ CellOf(x, cfg) = CellOf(b, cfg)
        BY <1>7 DEF AtCell
      <3>2. QED
        BY <3>1, <1>6, <1>7
    <2>2. a \notin was /\ a \in is
      BY <2>1, <1>6, <1>8 DEF AtCell, AheadOf
    <2>3. was \ {x} \subseteq is
      <3>1. ASSUME NEW q \in was \ {x} PROVE q \in is
        <4>1. q \in A /\ q \in S /\ Before(q, a, cfg) /\ CellOf(q, cfg) = cell
          BY <1>2 DEF AtCell, AheadOf
        <4>2. Before(q, b, cfg)
          BY <4>1, <1>1, <1>6, <1>8
        <4>3. q \in B
          BY <4>1, <1>5, <1>6 DEF AtCell, AheadOf
        <4>4. QED
          BY <4>1, <4>2, <4>3 DEF AtCell, AheadOf
      <3>2. QED
        BY <3>1
    <2>4. is \subseteq B /\ was \subseteq A
      BY DEF AtCell, AheadOf
    <2> HIDE DEF is, was, cell
    <2>5. IsFiniteSet(was) /\ IsFiniteSet(is) /\ Cardinality(was) \in Nat
          /\ Cardinality(is) \in Nat
      BY <2>4, <1>3
    <2>6. IsFiniteSet(was \ {x}) /\ Cardinality(was \ {x}) = Cardinality(was) - 1
      BY <2>1, <2>5, FS_RemoveElement
    <2>7. Cardinality((was \ {x}) \cup {a}) = Cardinality(was)
      <3>1. a \notin was \ {x}
        BY <2>2
      <3>2. Cardinality((was \ {x}) \cup {a}) = Cardinality(was \ {x}) + 1
        BY <2>6, <3>1, FS_AddElement
      <3>3. QED
        BY <2>5, <2>6, <3>2
    <2>8. (was \ {x}) \cup {a} \subseteq is
      BY <2>2, <2>3
    <2>9. Cardinality(was) <= Cardinality(is)
      BY <2>5, <2>7, <2>8, FS_Subset
    <2>10. QED
      BY <2>1, <2>5, <2>9
  <1>9. CASE new \subseteq old
    <2>1. old \subseteq A
      BY DEF AheadOf
    <2>2. \A cell : AtCell(new, cell, cfg) \subseteq AtCell(old, cell, cfg)
                    /\ AtCell(old, cell, cfg) \subseteq A
      BY <1>9, <2>1 DEF AtCell
    <2> HIDE DEF old, new
    <2>3. QED
      BY <1>9, <2>1, <2>2, <1>4 DEF NoFuller, old, new
  <1>10. CASE ~(new \subseteq old)
    <2>1. PICK b \in new \ old : TRUE
      BY <1>10
    <2>2. \A q \in new \ old : q = b
      <3>1. TAKE q \in new \ old
      <3>2. q \in S /\ b \in S
        BY <1>6, <2>1
      <3>3. QED
        BY <3>2, <1>1, <1>8, <2>1
    <2>3. x \in old /\ CellOf(x, cfg) = CellOf(b, cfg) /\ x \notin B
      BY <1>2, <1>6, <1>7, <2>1 DEF AtCell
    <2>4. old \subseteq A /\ IsFiniteSet(old)
      BY <1>3 DEF AheadOf
    <2>5. x \notin new /\ b \notin old
      BY <2>1, <2>3 DEF AheadOf
    <2> HIDE DEF old, new
    <2>6. new \subseteq (old \ {x}) \cup {b}
      BY <2>2, <2>5
    \* One goes and one comes, in every set that has both or neither.
    <2>7. ASSUME NEW T, T \subseteq old, x \in T
          PROVE  /\ IsFiniteSet((T \ {x}) \cup {b})
                 /\ Cardinality((T \ {x}) \cup {b}) = Cardinality(T)
      <3>1. IsFiniteSet(T) /\ Cardinality(T) \in Nat
        BY <2>4, <2>7, <1>3
      <3>2. IsFiniteSet(T \ {x}) /\ Cardinality(T \ {x}) = Cardinality(T) - 1
        BY <2>7, <3>1, FS_RemoveElement
      <3>3. b \notin T \ {x}
        BY <2>5, <2>7
      <3>4. /\ IsFiniteSet((T \ {x}) \cup {b})
            /\ Cardinality((T \ {x}) \cup {b}) = Cardinality(T \ {x}) + 1
        BY <3>2, <3>3, FS_AddElement
      <3>5. QED
        BY <3>1, <3>2, <3>4
    <2>8. Cardinality(new) <= Cardinality(old)
      BY <2>3, <2>6, <2>7, FS_Subset
    <2>9. ASSUME NEW cell
          PROVE  Cardinality(AtCell(new, cell, cfg)) <= Cardinality(AtCell(old, cell, cfg))
      <3>1. AtCell(old, cell, cfg) \subseteq old
        BY DEF AtCell
      <3>2. CASE cell = CellOf(x, cfg)
        <4>1. x \in AtCell(old, cell, cfg)
          BY <2>3, <3>2 DEF AtCell
        <4>2. AtCell(new, cell, cfg) \subseteq (AtCell(old, cell, cfg) \ {x}) \cup {b}
          BY <2>6, <2>5 DEF AtCell
        <4>3. QED
          BY <3>1, <4>1, <4>2, <2>7, FS_Subset
      <3>3. CASE cell # CellOf(x, cfg)
        <4>1. AtCell(new, cell, cfg) \subseteq AtCell(old, cell, cfg)
          BY <2>3, <2>6, <3>3 DEF AtCell
        <4>2. QED
          BY <3>1, <4>1, <2>4, <1>4
      <3>4. QED
        BY <3>2, <3>3
    <2>10. QED
      BY <2>8, <2>9 DEF NoFuller, old, new
  <1>11. QED
    BY <1>9, <1>10

\* Of two greedy picks, the one over a set without x keeps all but x.
LEMMA GreedyKeeps ==
    ASSUME NEW S \in SUBSET Probes, NEW cfg, NEW x \in S, NEW A, NEW B, NEW E,
           NEW room \in Int, NEW wider \in Int, room <= wider, NEW cap \in Int,
           Greedy(S, A, E, room, cap, cfg),
           Greedy(S \ {x}, B, E, wider, cap, cfg)
    PROVE  A \ {x} \subseteq B
  <1> DEFINE rank(p) == Cardinality(AheadOf(S, p, cfg))
             Open(p) == Cardinality(AheadOf(A, p, cfg)) < room
             Good(p) == Open(p) => NoFuller(A, B, p, cfg)
             T == {rank(p) : p \in {q \in S : ~Good(q)}}
  <1>1. /\ \A p, q, r \in S : Before(p, q, cfg) /\ Before(q, r, cfg) => Before(p, r, cfg)
        /\ \A p \in S : rank(p) \in Nat
        /\ \A p, q \in S : Before(p, q, cfg) <=> rank(p) < rank(q)
    BY BeforeFacts
  <1>2. A \subseteq S /\ B \subseteq S
    BY DEF Greedy
  <1>3. \A U : U \subseteq S => IsFiniteSet(U) /\ Cardinality(U) \in Nat
    BY ProbesFinite
  \* Whoever A has, B has where it is no fuller.
  <1>4. ASSUME NEW p \in S, p # x, p \in A, Good(p) PROVE p \in B
    <2>1. /\ p \in E /\ Open(p)
          /\ Cardinality(AtCell(AheadOf(A, p, cfg), CellOf(p, cfg), cfg)) < cap
      BY <1>4 DEF Greedy
    <2>2. /\ Cardinality(AheadOf(B, p, cfg)) <= Cardinality(AheadOf(A, p, cfg))
          /\ Cardinality(AtCell(AheadOf(B, p, cfg), CellOf(p, cfg), cfg))
               <= Cardinality(AtCell(AheadOf(A, p, cfg), CellOf(p, cfg), cfg))
      BY <2>1, <1>4 DEF NoFuller
    <2>3. /\ AheadOf(A, p, cfg) \subseteq S /\ AheadOf(B, p, cfg) \subseteq S
          /\ AtCell(AheadOf(A, p, cfg), CellOf(p, cfg), cfg) \subseteq S
          /\ AtCell(AheadOf(B, p, cfg), CellOf(p, cfg), cfg) \subseteq S
      BY <1>2 DEF AheadOf, AtCell
    <2>4. /\ Cardinality(AheadOf(A, p, cfg)) \in Nat
          /\ Cardinality(AheadOf(B, p, cfg)) \in Nat
          /\ Cardinality(AtCell(AheadOf(A, p, cfg), CellOf(p, cfg), cfg)) \in Nat
          /\ Cardinality(AtCell(AheadOf(B, p, cfg), CellOf(p, cfg), cfg)) \in Nat
      BY <2>3, <1>3
    <2>5. /\ Cardinality(AheadOf(B, p, cfg)) < wider
          /\ Cardinality(AtCell(AheadOf(B, p, cfg), CellOf(p, cfg), cfg)) < cap
      BY <2>1, <2>2, <2>4
    <2>6. QED
      BY <2>1, <2>5, <1>4 DEF Greedy
  <1>5. \A p \in S : Good(p)
    <2>1. SUFFICES ASSUME T # {} PROVE FALSE
      OBVIOUS
    <2>2. T \in SUBSET Nat
      BY <1>1
    <2>3. PICK t \in T : \A y \in T : t <= y
      BY <2>1, <2>2, LeastNatural
    <2>4. PICK p \in S : ~Good(p) /\ rank(p) = t
      OBVIOUS
    <2>5. ASSUME NEW q \in S, Before(q, p, cfg) PROVE Good(q)
      <3>1. rank(q) < t /\ rank(q) \in Nat /\ t \in Nat
        BY <2>2, <2>4, <2>5, <1>1
      <3>2. ~Good(q) => rank(q) \in T
        OBVIOUS
      <3> HIDE DEF T, rank, Good
      <3>3. QED
        BY <3>1, <3>2, <2>3
    <2>6. Open(p)
      BY <2>4
    <2>7. AheadOf(A, p, cfg) \ {x} \subseteq B
      <3>1. ASSUME NEW q \in AheadOf(A, p, cfg) \ {x} PROVE q \in B
        <4>1. q \in S /\ q \in A /\ Before(q, p, cfg)
          BY <1>2 DEF AheadOf
        <4>2. QED
          BY <4>1, <2>5, <1>4
      <3>2. QED
        BY <3>1
    <2>8. NoFuller(A, B, p, cfg)
      BY <2>6, <2>7, OneInPlace
    <2>9. QED
      BY <2>4, <2>8
  <1>6. QED
    BY <1>2, <1>4, <1>5

\* The pins that are given: Draft's, for any pool.
PresentIn(S, c) == {i \in DOMAIN c.include : c.include[i] \in S}

PinsIn(S, c) ==
    {i \in PresentIn(S, c) : Cardinality(Earlier(PresentIn(S, c), i)) < c.count}

\* Without x, the others keep their pins; and there are no fewer slots for the
\* second loop, if there was one.
LEMMA PinsKeep ==
    ASSUME NEW S, NEW x, NEW c, c.include \in Seq(Nat), c.count \in Nat
    PROVE  /\ IsFiniteSet(PinsIn(S, c)) /\ IsFiniteSet(PinsIn(S \ {x}, c))
           /\ PinsIn(S, c) \cap PresentIn(S \ {x}, c) \subseteq PinsIn(S \ {x}, c)
           /\ Cardinality(PinsIn(S, c)) < c.count =>
                /\ PinsIn(S \ {x}, c) = PinsIn(S, c) \cap PresentIn(S \ {x}, c)
                /\ Cardinality(PinsIn(S \ {x}, c)) <= Cardinality(PinsIn(S, c))
  <1> DEFINE P == PresentIn(S, c)
             Q == PresentIn(S \ {x}, c)
  <1>1. P \subseteq 1..Len(c.include) /\ Q \subseteq P /\ Len(c.include) \in Nat
    BY DEF PresentIn
  <1>2. IsFiniteSet(1..Len(c.include))
    BY <1>1, FS_Interval
  <1> HIDE DEF P, Q
  <1>3. IsFiniteSet(P) /\ IsFiniteSet(Q) /\ P \subseteq Nat
    <2>1. P \in SUBSET (1..Len(c.include)) /\ Q \in SUBSET (1..Len(c.include))
      BY <1>1
    <2>2. IsFiniteSet(P) /\ IsFiniteSet(Q)
      BY <1>2, <2>1, FS_Subset
    <2>3. P \subseteq Nat
      BY <1>1
    <2>4. QED
      BY <2>2, <2>3
  <1>4. \A i : /\ IsFiniteSet(Earlier(P, i)) /\ Cardinality(Earlier(P, i)) \in Nat
               /\ Cardinality(Earlier(Q, i)) \in Nat
               /\ Cardinality(Earlier(Q, i)) <= Cardinality(Earlier(P, i))
    <2>1. TAKE i
    <2>2. Earlier(P, i) \in SUBSET P /\ Earlier(Q, i) \in SUBSET Earlier(P, i)
      BY <1>1 DEF Earlier
    <2>3. IsFiniteSet(Earlier(P, i)) /\ IsFiniteSet(Earlier(Q, i))
      BY <2>2, <1>3, FS_Subset
    <2>4. QED
      BY <2>2, <2>3, FS_Subset, FS_CardinalityType
  <1>5. /\ PinsIn(S, c) = {i \in P : Cardinality(Earlier(P, i)) < c.count}
        /\ PinsIn(S \ {x}, c) = {i \in Q : Cardinality(Earlier(Q, i)) < c.count}
    BY DEF PinsIn, P, Q
  <1>6. IsFiniteSet(PinsIn(S, c)) /\ IsFiniteSet(PinsIn(S \ {x}, c))
        /\ Cardinality(PinsIn(S, c)) \in Nat
    BY <1>3, <1>5, FS_Subset, FS_CardinalityType
  <1>7. PinsIn(S, c) \cap Q \subseteq PinsIn(S \ {x}, c)
    <2>1. SUFFICES ASSUME NEW i \in PinsIn(S, c) \cap Q
                   PROVE  i \in PinsIn(S \ {x}, c)
      OBVIOUS
    <2>2. Cardinality(Earlier(P, i)) < c.count
      BY <1>5
    <2>3. Cardinality(Earlier(Q, i)) < c.count
      BY <2>2, <1>4
    <2>4. QED
      BY <2>3, <1>5
  <1>8. ASSUME Cardinality(PinsIn(S, c)) < c.count
        PROVE  PinsIn(S, c) = P
    <2> DEFINE T == P \ PinsIn(S, c)
    <2>1. SUFFICES ASSUME T # {} PROVE FALSE
      BY <1>5
    <2>2. T \in SUBSET Nat
      BY <1>3
    <2>3. PICK i \in T : \A y \in T : i <= y
      BY <2>1, <2>2, LeastNatural
    <2>4. Earlier(P, i) \subseteq PinsIn(S, c)
      <3>1. ASSUME NEW k \in Earlier(P, i) PROVE k \in PinsIn(S, c)
        <4>1. k \in P /\ k < i /\ k \in Nat /\ i \in Nat
          BY <1>3 DEF Earlier
        <4>2. k \notin T
          BY <4>1, <2>3
        <4>3. QED
          BY <4>1, <4>2
      <3>2. QED
        BY <3>1
    <2>5. Cardinality(Earlier(P, i)) <= Cardinality(PinsIn(S, c))
      BY <2>4, <1>6, FS_Subset
    <2>6. ~(Cardinality(Earlier(P, i)) < c.count)
      BY <1>5
    <2>7. QED
      BY <2>5, <2>6, <1>4, <1>6, <1>8
  <1>9. ASSUME Cardinality(PinsIn(S, c)) < c.count
        PROVE  /\ PinsIn(S \ {x}, c) = PinsIn(S, c) \cap Q
               /\ Cardinality(PinsIn(S \ {x}, c)) <= Cardinality(PinsIn(S, c))
    <2>1. PinsIn(S \ {x}, c) = Q /\ PinsIn(S, c) \cap Q = Q /\ Q \subseteq PinsIn(S, c)
      BY <1>1, <1>5, <1>7, <1>8, <1>9
    <2>2. QED
      BY <2>1, <1>6, FS_Subset
  <1>10. QED
    BY <1>6, <1>7, <1>9 DEF Q

\* Whom the second loop may give a slot, the order and the cells aside.
Eligible(c, given) ==
    {p \in Probes : /\ p \notin c.exclude
                    /\ \A i \in given : c.include[i] # p
                    /\ ~HardExcluded(p, c.cfg.excludeTags)}

\* What cohort c is given over the pool S, where none comes before it.
GivenOver(S, c, r) ==
    /\ r.pins = PinsIn(S, c)
    /\ Greedy(S, r.filled, Eligible(c, r.pins), c.count - Cardinality(r.pins),
              c.perCell, c.cfg)

\* Whoever is given a slot over S is given one over S without x.
LEMMA KeepsOver ==
    ASSUME NEW S \in SUBSET Probes, NEW x \in S, NEW c, NEW s, NEW r,
           c.include \in Seq(Nat), c.count \in Nat, c.perCell \in Nat,
           GivenOver(S, c, s), GivenOver(S \ {x}, c, r)
    PROVE  /\ \A i \in s.pins : c.include[i] \in S \ {x} => i \in r.pins
           /\ s.filled \ {x} \subseteq r.filled
  <1>1. /\ s.pins = PinsIn(S, c) /\ r.pins = PinsIn(S \ {x}, c)
        /\ IsFiniteSet(s.pins) /\ IsFiniteSet(r.pins)
        /\ s.pins \cap PresentIn(S \ {x}, c) \subseteq r.pins
        /\ Cardinality(s.pins) < c.count =>
             /\ r.pins = s.pins \cap PresentIn(S \ {x}, c)
             /\ Cardinality(r.pins) <= Cardinality(s.pins)
    <2>1. s.pins = PinsIn(S, c) /\ r.pins = PinsIn(S \ {x}, c)
      BY DEF GivenOver
    <2>2. /\ IsFiniteSet(PinsIn(S, c)) /\ IsFiniteSet(PinsIn(S \ {x}, c))
          /\ PinsIn(S, c) \cap PresentIn(S \ {x}, c) \subseteq PinsIn(S \ {x}, c)
          /\ Cardinality(PinsIn(S, c)) < c.count =>
               /\ PinsIn(S \ {x}, c) = PinsIn(S, c) \cap PresentIn(S \ {x}, c)
               /\ Cardinality(PinsIn(S \ {x}, c)) <= Cardinality(PinsIn(S, c))
      BY PinsKeep, Zenon
    <2>3. QED
      BY <2>1, <2>2
  <1>2. \A i \in s.pins : i \in DOMAIN c.include /\ c.include[i] \in S
    BY <1>1 DEF PinsIn, PresentIn
  <1>3. \A i \in s.pins : c.include[i] \in S \ {x} => i \in r.pins
    BY <1>1, <1>2 DEF PresentIn
  <1>4. Cardinality(s.pins) \in Nat /\ Cardinality(r.pins) \in Nat
    BY <1>1, FS_CardinalityType
  <1> DEFINE room == c.count - Cardinality(s.pins)
             wider == c.count - Cardinality(r.pins)
             E == Eligible(c, s.pins)
  <1>5. /\ Greedy(S, s.filled, E, room, c.perCell, c.cfg)
        /\ Greedy(S \ {x}, r.filled, Eligible(c, r.pins), wider, c.perCell, c.cfg)
    BY DEF GivenOver
  <1>6. CASE Cardinality(s.pins) < c.count
    <2>1. room \in Int /\ wider \in Int /\ room <= wider
      BY <1>1, <1>4, <1>6
    <2>2. \A p \in S \ {x} : p \in Eligible(c, r.pins) <=> p \in E
      <3>1. r.pins \subseteq s.pins
        BY <1>1, <1>6
      <3>2. \A p \in S \ {x} :
              (\A i \in r.pins : c.include[i] # p) <=> (\A i \in s.pins : c.include[i] # p)
        BY <3>1, <1>3
      <3>3. QED
        BY <3>2 DEF Eligible
    <2> HIDE DEF E, room, wider
    <2>3. Greedy(S \ {x}, r.filled, E, wider, c.perCell, c.cfg)
      BY <1>5, <2>2 DEF Greedy
    <2>4. s.filled \ {x} \subseteq r.filled
      BY <1>5, <2>1, <2>3, GreedyKeeps
    <2>5. QED
      BY <1>3, <2>4
  <1>7. CASE ~(Cardinality(s.pins) < c.count)
    <2>1. ASSUME NEW p \in s.filled PROVE FALSE
      <3>1. p \in S /\ s.filled \subseteq S /\ Cardinality(AheadOf(s.filled, p, c.cfg)) < room
        BY <1>5, <2>1 DEF Greedy
      <3>2. AheadOf(s.filled, p, c.cfg) \in SUBSET Probes
        BY <3>1 DEF AheadOf
      <3>3. Cardinality(AheadOf(s.filled, p, c.cfg)) \in Nat
        BY <3>2, ProbesFinite
      <3>4. QED
        BY <3>1, <3>3, <1>4, <1>7
    <2>2. QED
      BY <1>3, <2>1
  <1>8. QED
    BY <1>6, <1>7

\* Without cities, every cell that has a probe has the cap of the cohort.
LEMMA PlainCapacity ==
    ASSUME NEW S, NEW c, NEW p \in S, c.cfg.cities = <<>>
    PROVE  CellCapacity(c.perCell, CellCoef(S, CellOf(p, c.cfg), c.cfg)) = c.perCell
  <1>1. \A q : MaxCityCoef(q, <<>>) = 100
    BY DEF MaxCityCoef, NearTo
  <1>2. {MaxCityCoef(q, c.cfg.cities) :
            q \in {o \in S : CellOf(o, c.cfg) = CellOf(p, c.cfg)}} = {100}
    BY <1>1
  <1>3. Max({0} \cup {100}) = 100
    BY DEF Max
  <1>4. CellCoef(S, CellOf(p, c.cfg), c.cfg) = 100
    BY <1>2, <1>3 DEF CellCoef
  <1>5. QED
    BY <1>4 DEF CellCapacity

\* What Draft says a first cohort deserves in the sorted order, without its order
\* of positions.
LEMMA FairIsGreedy ==
    ASSUME pool \in SUBSET Probes, NEW c, c.cfg.cities = <<>>, c.perCell \in Nat,
           NEW given, NEW A, D!Fair(c, {}, given, A, Sorted(pool, c.cfg))
    PROVE  Greedy(pool, A, Eligible(c, given), c.count - Cardinality(given),
                  c.perCell, c.cfg)
  <1> DEFINE o == Sorted(pool, c.cfg)
  <1>1. /\ o \in Seq(pool)
        /\ \A p \in pool : \E i \in DOMAIN o : o[i] = p
        /\ \A i, k \in DOMAIN o : i < k <=> Before(o[i], o[k], c.cfg)
    BY SortedFacts, Zenon
  <1> HIDE DEF o
  <1>2. /\ A \subseteq pool
        /\ \A i \in DOMAIN o :
             o[i] \in A <=>
               /\ o[i] \notin D!Barred(c, {}, given)
               /\ D!Deserves(c, o, i, c.count - Cardinality(given), A)
    BY SameCardinality DEF D!Fair, o
  <1>3. ASSUME NEW i \in DOMAIN o
        PROVE  D!Ahead(o, i, A) = AheadOf(A, o[i], c.cfg)
    <2>1. DOMAIN o = 1..Len(o) /\ Len(o) \in Nat
      BY <1>1
    <2>2. \A k \in 1..(i - 1) : k \in DOMAIN o /\ k < i
      BY <2>1
    <2>3. \A k \in DOMAIN o : k < i => k \in 1..(i - 1)
      BY <2>1
    <2>4. \A q \in A : \E k \in DOMAIN o : o[k] = q
      BY <1>1, <1>2
    <2>5. \A q \in A : (\E k \in 1..(i - 1) : o[k] = q) <=> Before(q, o[i], c.cfg)
      BY <1>1, <2>2, <2>3, <2>4
    <2>6. QED
      BY <2>5 DEF D!Ahead, AheadOf
  <1>4. ASSUME NEW i \in DOMAIN o
        PROVE  D!Deserves(c, o, i, c.count - Cardinality(given), A)
               <=> /\ Cardinality(AheadOf(A, o[i], c.cfg)) < c.count - Cardinality(given)
                   /\ ~(Cardinality(AtCell(AheadOf(A, o[i], c.cfg), CellOf(o[i], c.cfg),
                                           c.cfg)) >= c.perCell)
    <2>1. o[i] \in pool
      BY <1>1
    <2>2. D!Capacity(c, CellOf(o[i], c.cfg)) = c.perCell
      BY <2>1, SameCapacity, PlainCapacity
    <2>3. \A T : D!InCell(T, CellOf(o[i], c.cfg), c.cfg) = AtCell(T, CellOf(o[i], c.cfg), c.cfg)
      BY SameScoring DEF D!InCell, AtCell
    <2>4. QED
      BY <1>3, <2>2, <2>3, SameScoring, SameCardinality, Zenon DEF D!Deserves
  <1>5. ASSUME NEW p \in pool
        PROVE  p \notin D!Barred(c, {}, given) <=> p \in Eligible(c, given)
    <2>1. p \in Probes
      OBVIOUS
    <2>2. p \in D!Barred(c, {}, given)
          <=> \/ p \in c.exclude
              \/ \E i \in given : c.include[i] = p
              \/ D!HardExcluded(p, c.cfg.excludeTags)
      BY DEF D!Barred
    <2>3. QED
      BY <2>1, <2>2, SameScoring DEF Eligible
  <1>6. ASSUME NEW p \in pool
        PROVE  p \in A <=>
                 /\ p \in Eligible(c, given)
                 /\ Cardinality(AheadOf(A, p, c.cfg)) < c.count - Cardinality(given)
                 /\ ~(Cardinality(AtCell(AheadOf(A, p, c.cfg), CellOf(p, c.cfg), c.cfg))
                         >= c.perCell)
    <2>1. PICK i \in DOMAIN o : o[i] = p
      BY <1>1
    <2>2. QED
      BY <2>1, <1>2, <1>4, <1>5
  <1>7. \A p \in pool :
          Cardinality(AtCell(AheadOf(A, p, c.cfg), CellOf(p, c.cfg), c.cfg)) \in Nat
    <2>1. \A p \in pool :
            AtCell(AheadOf(A, p, c.cfg), CellOf(p, c.cfg), c.cfg) \in SUBSET Probes
      BY <1>2 DEF AtCell, AheadOf
    <2>2. QED
      BY <2>1, ProbesFinite
  <1>8. QED
    BY <1>2, <1>6, <1>7 DEF Greedy

-----------------------------------------------------------------------------
(* What is known of the results, and of those of the invocation before.     *)

\* They are of cohorts of the file, one of each.
Placed(c, rs) ==
    \A r \in rs :
        /\ r.m \in MsmPositions(c)
        /\ r.j \in CohortPositions(c, r.m)
        /\ r.pins \subseteq DOMAIN CohortAt(c, r.m, r.j).include
        /\ \A i \in r.pins : CohortAt(c, r.m, r.j).include[i] \in Probes
        /\ \A s \in rs : s.m = r.m /\ s.j = r.j => s = r

\* First cohorts that no city and no interleaving concerns.
FirstPlain(c, r) ==
    LET cfg == CohortAt(c, r.m, r.j).cfg IN
    r.j = 1 /\ cfg.cities = <<>> /\ cfg.unshuffled

SlotsFit(S, c, rs) ==
    \A r \in rs : FirstPlain(c, r) => GivenOver(S, CohortAt(c, r.m, r.j), r)

ResultsPlaced ==
    results # {} =>
        /\ config = ApplyDefaults(file) /\ Valid(config)
        /\ Placed(config, results)

ResultsFit == results # {} => SlotsFit(pool, config, results)

PreviousFits ==
    previous # {} =>
        LET c == ApplyDefaults(file) IN
        /\ Valid(c)
        /\ Placed(c, previous)
        /\ \E S \in SUBSET Probes : \E x \in S :
             pool = S \ {x} /\ SlotsFit(S, c, previous)

\* Results are of the configuration at hand, and no cohort has two.
LEMMA PlacedIsKept == IInv /\ ResultsPlaced /\ [Next]_vars => ResultsPlaced'
  <1> SUFFICES ASSUME IInv, ResultsPlaced, [Next]_vars PROVE ResultsPlaced'
    OBVIOUS
  <1>1. CASE FinishCohort
    <2>1. /\ pc \in {"pins", "fill"} /\ Running /\ results' = results \cup {Result}
          /\ UNCHANGED <<file, config>>
      BY <1>1 DEF FinishCohort, Running, outer
    <2>2. /\ config = ApplyDefaults(file) /\ Valid(config)
          /\ m \in MsmPositions(config) /\ j \in CohortPositions(config, m)
          /\ pins \subseteq DOMAIN CohortAt(config, m, j).include
          /\ \A i \in pins : CohortAt(config, m, j).include[i] \in Probes
          /\ m \in Nat /\ j \in Nat
          /\ \A r \in results :
               r.m \in Nat /\ r.j \in Nat /\ (r.m < m \/ (r.m = m /\ r.j < j))
      <3>1. config = ApplyDefaults(file) /\ Valid(config)
            /\ m \in MsmPositions(config) /\ j \in CohortPositions(config, m)
        BY <2>1 DEF IInv, Loaded
      <3>2. /\ pins \subseteq DOMAIN CohortAt(config, m, j).include
            /\ \A i \in pins : CohortAt(config, m, j).include[i] \in Probes
        BY <2>1 DEF IInv, SlotsSound, Present, Cohort, TypeOK
      <3>3. m \in Nat /\ j \in Nat
        BY DEF IInv, TypeOK
      <3>4. \A r \in results : r.m \in Nat /\ r.j \in Nat
        BY DEF IInv, TypeOK
      <3>5. \A r \in results : r.m < m \/ (r.m = m /\ r.j < j)
        BY <2>1 DEF IInv, TakenSound
      <3>6. QED
        BY <3>1, <3>2, <3>3, <3>4, <3>5
    <2>3. Result.m = m /\ Result.j = j /\ Result.pins = pins
      BY DEF Result
    <2>4. \A r \in results : ~(r.m = m /\ r.j = j)
      BY <2>2
    <2>5. Placed(config, results')
      <3>1. ASSUME NEW r \in results'
            PROVE  /\ r.m \in MsmPositions(config)
                   /\ r.j \in CohortPositions(config, r.m)
                   /\ r.pins \subseteq DOMAIN CohortAt(config, r.m, r.j).include
                   /\ \A i \in r.pins : CohortAt(config, r.m, r.j).include[i] \in Probes
                   /\ \A s \in results' : s.m = r.m /\ s.j = r.j => s = r
        <4>1. CASE r \in results
          BY <2>1, <2>3, <2>4, <4>1 DEF ResultsPlaced, Placed
        <4>2. CASE r = Result
          BY <2>1, <2>2, <2>3, <2>4, <4>2
        <4>3. QED
          BY <2>1, <4>1, <4>2
      <3>2. QED
        BY <3>1 DEF Placed
    <2>6. QED
      BY <2>1, <2>2, <2>5 DEF ResultsPlaced
  <1>2. CASE Load
    BY <1>2 DEF Load, IInv, Loaded, ResultsPlaced
  <1>3. CASE Cancel \/ ProbeLeaves
    BY <1>3 DEF Cancel, ProbeLeaves, ResultsPlaced
  <1>4. CASE UNCHANGED <<file, config, results>>
    BY <1>4 DEF ResultsPlaced
  <1>5. QED
    BY <1>1, <1>2, <1>3, <1>4 DEF Next, BeginCohort, PinProbe, SkipAbsentPin,
        OrderProbes, PickProbe, SkipProbe, vars, outer

\* Results are placed in every reachable state.
LEMMA SpecResultsPlaced == Spec => []ResultsPlaced
  <1>1. Init => ResultsPlaced
    BY DEF Init, ResultsPlaced
  <1>2. QED
    BY <1>1, PlacedIsKept, SpecIInv, PTL DEF Spec

\* A first cohort is given what GivenOver says.
LEMMA FirstIsGiven ==
    ASSUME DefaultOrderer, IInv, ResultsPlaced, FinishCohort,
           FirstPlain(config, Result)
    PROVE  GivenOver(pool, Cohort, Result)
  <1>1. pc \in {"pins", "fill"} /\ Running
    BY DEF FinishCohort, Running
  <1>2. /\ Result.m = m /\ Result.j = j /\ Result.pins = pins /\ Result.filled = filled
        /\ CohortAt(config, m, j) = Cohort /\ D!CohortAt(config, m, j) = Cohort
    BY SameConfiguration DEF Result, Cohort
  <1>3. j = 1 /\ Cohort.cfg.cities = <<>> /\ Cohort.cfg.unshuffled
    BY <1>2 DEF FirstPlain
  <1>4. /\ Cohort.cfg \in Cfgs /\ Cohort.perCell \in Nat /\ pool \in SUBSET Probes
    <2>1. /\ file \in Files /\ config = ApplyDefaults(file) /\ Valid(config)
          /\ m \in MsmPositions(config) /\ j \in CohortPositions(config, m)
      BY <1>1 DEF IInv, TypeOK, Loaded
    <2>2. Cohort.cfg \in Cfgs /\ Cohort.perCell \in Nat \ {0}
      BY <2>1, CohortFacts, Zenon DEF Cohort
    <2>3. QED
      BY <2>2 DEF IInv, TypeOK
  <1>5. D!Justified(Result) /\ pins = D!FirstPins(Cohort)
    BY ResultJustified
  \* The configuration that the cached order is for is the cohort's own.
  <1>6. PICK like \in Cfgs :
          /\ OrderKey(like) = OrderKey(Cohort.cfg)
          /\ D!Fair(Cohort, D!TakenBy(results, m), pins, filled, Orderer(pool, like))
    BY <1>2, <1>5 DEF D!Justified
  <1>7. like = Cohort.cfg
    <2>1. FiniteRadii(Cohort.cfg)
      BY <1>3 DEF FiniteRadii
    <2>2. QED
      BY <2>1, <1>4, <1>6, KeysTell DEF DistinctKeys
  <1>8. Orderer(pool, like) = Sorted(pool, Cohort.cfg)
    BY <1>3, <1>4, <1>7 DEF DefaultOrderer, DefaultOrder
  \* Nobody is taken by an earlier cohort: there is none.
  <1>9. D!TakenBy(results, m) = {}
    <2>1. /\ \A r \in results : r.m < m \/ (r.m = m /\ r.j < j)
          /\ m \in Nat /\ \A r \in results : r.m \in Nat /\ r.j \in Nat
      BY <1>1 DEF IInv, TakenSound, TypeOK
    <2>2. \A r \in results : r.j # 0
      BY <2>1 DEF ResultsPlaced, Placed, CohortPositions
    <2>3. \A r \in results : r.m # m
      BY <2>1, <2>2, <1>3
    <2>4. QED
      BY <2>3 DEF D!TakenBy
  <1>10. Greedy(pool, filled, Eligible(Cohort, pins), Cohort.count - Cardinality(pins),
                Cohort.perCell, Cohort.cfg)
    BY <1>3, <1>4, <1>6, <1>8, <1>9, FairIsGreedy
  <1>11. pins = PinsIn(pool, Cohort)
    BY <1>5, SameCardinality DEF D!FirstPins, PinsIn, PresentIn, Earlier
  <1>12. QED
    BY <1>2, <1>10, <1>11 DEF GivenOver

\* Every step keeps what is known of first cohorts, of this invocation and of
\* the one before.
LEMMA FitIsKept ==
    ASSUME DefaultOrderer, IInv, ResultsPlaced, ResultsFit, PreviousFits, [Next]_vars
    PROVE  ResultsFit' /\ PreviousFits'
  <1>1. CASE FinishCohort
    <2>1. /\ results' = results \cup {Result}
          /\ UNCHANGED <<file, config, pool, previous>>
      BY <1>1 DEF FinishCohort, outer
    <2>2. FirstPlain(config, Result) => GivenOver(pool, Cohort, Result)
      BY <1>1, FirstIsGiven
    <2>3. Cohort = CohortAt(config, Result.m, Result.j)
      BY DEF Result, Cohort
    <2>4. SlotsFit(pool, config, results')
      BY <2>1, <2>2, <2>3 DEF ResultsFit, SlotsFit
    <2>5. QED
      BY <2>1, <2>4 DEF ResultsFit, PreviousFits
  <1>2. CASE ProbeLeaves
    <2>1. PICK x \in pool : pool' = pool \ {x}
      BY <1>2 DEF ProbeLeaves
    <2>2. /\ previous' = results /\ results' = {} /\ file' = file
          /\ pool \in SUBSET Probes
      BY <1>2 DEF ProbeLeaves, IInv, TypeOK
    <2>3. results # {} =>
            /\ Valid(ApplyDefaults(file))
            /\ Placed(ApplyDefaults(file), results)
            /\ SlotsFit(pool, ApplyDefaults(file), results)
      BY DEF ResultsPlaced, ResultsFit
    <2>4. QED
      BY <2>1, <2>2, <2>3 DEF ResultsFit, PreviousFits
  <1>3. CASE Load
    BY <1>3 DEF Load, IInv, Loaded, ResultsFit, PreviousFits
  <1>4. CASE Cancel
    BY <1>4 DEF Cancel, outer, ResultsFit, PreviousFits
  <1>5. CASE UNCHANGED <<file, config, pool, previous, results>>
    BY <1>5 DEF ResultsFit, PreviousFits
  <1>6. QED
    BY <1>1, <1>2, <1>3, <1>4, <1>5 DEF Next, BeginCohort, PinProbe, SkipAbsentPin,
        OrderProbes, PickProbe, SkipProbe, vars, outer

\* A probe that leaves the snapshot opens its own slot and no other, in a first
\* cohort with neither cities nor interleaving: whoever had one of its slots,
\* pinned or found, has one again, whatever the caps and exclusions.
THEOREM SpecOnlyItsSlotOpensUnshuffled ==
    DefaultOrderer => (Spec => []OnlyItsSlotOpensUnshuffled)
  <1> SUFFICES ASSUME DefaultOrderer PROVE Spec => []OnlyItsSlotOpensUnshuffled
    OBVIOUS
  <1> DEFINE Fit == ResultsFit /\ PreviousFits
  <1>1. Init => Fit
    BY DEF Init, ResultsFit, PreviousFits
  <1>2. IInv /\ ResultsPlaced /\ Fit /\ [Next]_vars => Fit'
    BY FitIsKept
  <1>3. IInv /\ ResultsPlaced /\ Fit => OnlyItsSlotOpensUnshuffled
    <2>1. SUFFICES ASSUME IInv, ResultsPlaced, Fit, NEW r \in results, NEW s \in previous,
                          FirstPlain(config, r), s.m = r.m, s.j = r.j
                   PROVE  Chosen(config, s) \cap pool \subseteq Chosen(config, r)
      BY DEF OnlyItsSlotOpensUnshuffled, KeepsSlots, FirstPlain
    <2> DEFINE c == CohortAt(config, r.m, r.j)
    <2>2. /\ config = ApplyDefaults(file) /\ Valid(config) /\ file \in Files
          /\ r.m \in MsmPositions(config) /\ r.j \in CohortPositions(config, r.m)
      BY <2>1 DEF ResultsPlaced, Placed, IInv, TypeOK
    <2>3. /\ c.include \in Seq(Nat) /\ c.count \in Nat \ {0} /\ c.perCell \in Nat \ {0}
      BY <2>2, CohortFacts, Zenon
    <2>4. PICK S \in SUBSET Probes :
            \E x \in S : pool = S \ {x} /\ SlotsFit(S, config, previous)
      BY <2>1, <2>2 DEF PreviousFits
    <2>5. PICK x \in S : pool = S \ {x} /\ SlotsFit(S, config, previous)
      BY <2>4
    <2>6. FirstPlain(config, s) /\ CohortAt(config, s.m, s.j) = c
      BY <2>1 DEF FirstPlain
    <2>7. GivenOver(S, c, s)
      BY <2>5, <2>6 DEF SlotsFit
    <2>8. GivenOver(S \ {x}, c, r)
      BY <2>1, <2>5 DEF ResultsFit, SlotsFit
    <2> HIDE DEF c
    <2>9. /\ \A i \in s.pins : c.include[i] \in S \ {x} => i \in r.pins
          /\ s.filled \ {x} \subseteq r.filled
      BY <2>3, <2>7, <2>8, KeepsOver
    <2>10. /\ Chosen(config, s) = {c.include[i] : i \in s.pins} \cup s.filled
          /\ Chosen(config, r) = {c.include[i] : i \in r.pins} \cup r.filled
      BY <2>6 DEF Chosen, PinsOf, c
    <2>11. QED
      BY <2>5, <2>9, <2>10
  <1>4. Spec => []Fit
    BY <1>1, <1>2, SpecIInv, SpecResultsPlaced, PTL DEF Spec
  <1>5. QED
    BY <1>3, <1>4, SpecIInv, SpecResultsPlaced, PTL

-----------------------------------------------------------------------------
(* Desired measurements.                                                    *)

\* What is known of the cohort of a result.
LEMMA ResultFacts ==
    ASSUME TypeOK, ResultsPlaced, NEW r \in results
    PROVE  LET cohort == CohortAt(config, r.m, r.j)
               msm    == config.measurements[r.m] IN
           /\ file \in Files /\ config = ApplyDefaults(file) /\ Valid(config)
           /\ r.m \in Nat \ {0} /\ r.j \in Nat \ {0}
           /\ Slots(r) \in Nat
           /\ cohort.interval \in Nat \ {0}
           /\ cohort.name \in Seq(STRING)
           /\ cohort.include \in Seq(Nat)
           /\ r.pins \subseteq DOMAIN cohort.include
           /\ msm.type \in {"dns", "ping", "tls", "traceroute", "http"}
           /\ msm.name \in Seq(STRING)
           /\ config.ns \in Seq(STRING)
  <1> DEFINE c == CohortAt(config, r.m, r.j)
             msm == config.measurements[r.m]
  <1>1. /\ config = ApplyDefaults(file) /\ Valid(config) /\ file \in Files
        /\ r.m \in MsmPositions(config) /\ r.j \in CohortPositions(config, r.m)
        /\ r.pins \subseteq DOMAIN c.include
        /\ r.filled \in SUBSET Probes
    BY DEF ResultsPlaced, Placed, TypeOK
  <1>2. /\ Len(config.measurements) \in Nat
        /\ Len(config.measurements[r.m].cohorts) \in Nat
        /\ c.interval \in Nat \ {0} /\ c.name \in Seq(STRING) /\ c.include \in Seq(Nat)
        /\ msm.type \in {"dns", "ping", "tls", "traceroute", "http"}
        /\ msm.name \in Seq(STRING) /\ config.ns \in Seq(STRING)
    <2>1. /\ Len(config.measurements) \in Nat
          /\ Len(config.measurements[r.m].cohorts) \in Nat \ {0}
          /\ c.interval \in Nat \ {0} /\ c.name \in Seq(STRING) /\ c.include \in Seq(Nat)
          /\ msm.type \in {"dns", "ping", "tls", "traceroute", "http"}
          /\ msm.name \in Seq(STRING) /\ config.ns \in Seq(STRING)
      BY <1>1, CohortFacts, Zenon
    <2>2. QED
      BY <2>1
  <1>3. r.m \in Nat \ {0} /\ r.j \in Nat \ {0}
    BY <1>1, <1>2 DEF MsmPositions, CohortPositions
  <1>4. DOMAIN c.include = 1..Len(c.include) /\ Len(c.include) \in Nat
    BY <1>2
  <1> HIDE DEF c, msm
  <1>5. r.pins \in SUBSET (1..Len(c.include)) /\ IsFiniteSet(1..Len(c.include))
    BY <1>1, <1>4, FS_Interval
  <1>6. IsFiniteSet(r.pins)
    BY <1>5, FS_Subset
  <1>7. Slots(r) \in Nat
    BY <1>1, <1>6, ProbesFinite, FS_CardinalityType DEF Slots
  <1>8. QED
    BY <1>1, <1>2, <1>3, <1>7 DEF c, msm

\* Cohorts of one name are one cohort.
LEMMA KeysAreOwn ==
    ASSUME TypeOK, ResultsPlaced, NEW r \in results, NEW s \in results,
           MsmKeyOf(config, r).name = MsmKeyOf(config, s).name
    PROVE  r.m = s.m /\ (MsmKeyOf(config, r) = MsmKeyOf(config, s) => r = s)
  <1>1. /\ config = ApplyDefaults(file) /\ Valid(config) /\ file \in Files
        /\ r.m \in MsmPositions(config) /\ r.j \in CohortPositions(config, r.m)
        /\ s.m \in MsmPositions(config) /\ s.j \in CohortPositions(config, s.m)
        /\ s.m = r.m /\ s.j = r.j => s = r
    BY DEF ResultsPlaced, Placed, TypeOK
  <1>2. config.measurements[s.m].name = config.measurements[r.m].name
    BY DEF MsmKeyOf
  <1>3. /\ \A k \in MsmPositions(config) :
             config.measurements[k].name = config.measurements[r.m].name => k = r.m
        /\ \A k, l \in CohortPositions(config, r.m) :
             CohortAt(config, r.m, k).name = CohortAt(config, r.m, l).name => k = l
    <2>1. \A k \in MsmPositions(config) :
            config.measurements[k].name = config.measurements[r.m].name => k = r.m
      BY <1>1, CohortFacts, Zenon
    <2>2. \A k, l \in CohortPositions(config, r.m) :
            CohortAt(config, r.m, k).name = CohortAt(config, r.m, l).name => k = l
      BY <1>1, CohortFacts, SMTT(60)
    <2>3. QED
      BY <2>1, <2>2
  <1>4. s.m = r.m
    BY <1>1, <1>2, <1>3
  <1>5. MsmKeyOf(config, r) = MsmKeyOf(config, s) => s.j = r.j
    BY <1>1, <1>3, <1>4 DEF MsmKeyOf
  <1>6. QED
    BY <1>1, <1>4, <1>5

\* Every result becomes a desired measurement of its own, and there is no other.
LEMMA DesiredFacts ==
    ASSUME TypeOK, ResultsPlaced
    PROVE  /\ DOMAIN Desired = {MsmKeyOf(config, r) : r \in results}
           /\ \A r \in results :
                LET cohort == CohortAt(config, r.m, r.j)
                    type   == config.measurements[r.m].type
                    spec   == Desired[MsmKeyOf(config, r)] IN
                /\ spec.probes = Chosen(config, r)
                /\ spec.count = Slots(r)
                /\ spec.type = type
                /\ spec.interval = cohort.interval
                /\ spec.hourly = SpecHourlyCredits(Slots(r), type, cohort.interval)
                /\ spec.daily = SpecDailyCredits(Slots(r), type, cohort.interval)
  <1> DEFINE kept == {r \in results : ~Overwritten(config, results, r)}
             key(r) == MsmKeyOf(config, r)
  <1>1. \A r, s \in results : key(r) = key(s) => r = s
    BY KeysAreOwn
  <1>2. kept = results
    <2>1. ASSUME NEW r \in results, Overwritten(config, results, r) PROVE FALSE
      <3>1. PICK s \in results :
              /\ MsmKeyOf(config, s).name = MsmKeyOf(config, r).name
              /\ \/ s.m > r.m
                 \/ s.m = r.m /\ s.j > r.j /\ MsmKeyOf(config, s) = MsmKeyOf(config, r)
        BY <2>1, Zenon DEF Overwritten
      <3>2. s.m = r.m
        BY <3>1, KeysAreOwn
      <3>3. r.m \in Nat /\ r.j \in Nat
        BY DEF TypeOK
      <3>4. s.j > r.j /\ s = r
        BY <3>1, <3>2, <3>3, <1>1
      <3>5. QED
        BY <3>3, <3>4
    <2>2. QED
      BY <2>1
  <1>3. ASSUME NEW r \in results
        PROVE  (CHOOSE s \in results : key(s) = key(r)) = r
    BY <1>1
  <1> HIDE DEF key
  <1>4. DOMAIN Desired = {key(r) : r \in results}
    <2>1. DOMAIN DesiredState(config, results)
            = {MsmKeyOf(config, r) : r \in kept}
      BY Zenon DEF DesiredState
    <2>2. \A r \in results : key(r) = MsmKeyOf(config, r)
      BY Zenon DEF key
    <2>3. Desired = DesiredState(config, results)
      BY Zenon DEF Desired
    <2> HIDE DEF kept
    <2>4. QED
      BY <1>2, <2>1, <2>2, <2>3
  <1>5. ASSUME NEW r \in results
        PROVE  LET cohort == CohortAt(config, r.m, r.j)
                   type   == config.measurements[r.m].type
                   spec   == Desired[key(r)] IN
               /\ spec.probes = Chosen(config, r)
               /\ spec.count = Slots(r)
               /\ spec.type = type
               /\ spec.interval = cohort.interval
               /\ spec.hourly = SpecHourlyCredits(Slots(r), type, cohort.interval)
               /\ spec.daily = SpecDailyCredits(Slots(r), type, cohort.interval)
    BY <1>2, <1>3 DEF Desired, DesiredState, key
  <1>6. QED
    BY <1>4, <1>5 DEF key

\* Rounding down.
LEMMA DivFacts ==
    ASSUME NEW x \in Nat, NEW i \in Nat \ {0}
    PROVE  /\ x \div i \in Nat
           /\ i * (x \div i) <= x
           /\ x < i * (x \div i) + i
  <1>1. /\ x \div i \in Int /\ (x % i) \in 0..(i - 1)
        /\ x = i * (x \div i) + (x % i)
    OBVIOUS
  <1>2. x \div i \in Nat
    OBVIOUS
  <1>3. QED
    BY <1>1, <1>2

\* A day's rounded share and 24 times an hour's differ by less than 24.
LEMMA DayOfHours ==
    ASSUME NEW i \in Nat \ {0}, NEW h \in Nat, NEW d \in Nat, NEW x \in Nat,
           i * h <= x, x < i * h + i, i * d <= 24 * x, 24 * x < i * d + i
    PROVE  24 * h <= d /\ d < 24 * h + 24
  <1>1. /\ 24 * (i * h) <= 24 * x /\ 24 * x < 24 * (i * h) + 24 * i
        /\ i * h \in Nat /\ i * d \in Nat
    OBVIOUS
  <1>2. /\ i * (24 * h) = 24 * (i * h)
        /\ i * (24 * h + 24) = 24 * (i * h) + 24 * i
        /\ i * (d + 1) = i * d + i
    OBVIOUS
  <1>3. i * (24 * h) < i * (d + 1) /\ i * d < i * (24 * h + 24)
    BY <1>1, <1>2
  <1>4. \A a, b \in Nat : i * a < i * b => a < b
    <2>1. TAKE a, b \in Nat
    <2>2. CASE a >= b
      <3>1. PICK e \in Nat : a = b + e
        BY <2>2
      <3>2. i * a = i * b + i * e
        BY <3>1
      <3>3. i * e \in Nat /\ i * b \in Nat
        OBVIOUS
      <3>4. QED
        BY <3>2, <3>3
    <2>3. QED
      BY <2>2
  <1>5. 24 * h < d + 1 /\ d < 24 * h + 24
    BY <1>3, <1>4
  <1>6. QED
    BY <1>5

\* For every desired measurement, 24 times the hourly credits are the daily ones
\* but for the rounding of each (the two divisions of estimateCredits).
THEOREM SpecHourlyWithinDaily == Spec => []HourlyWithinDaily
  <1>1. IInv /\ ResultsPlaced => HourlyWithinDaily
    <2>1. SUFFICES ASSUME TypeOK, ResultsPlaced, NEW k \in DOMAIN Desired
                   PROVE  /\ 24 * Desired[k].hourly <= Desired[k].daily
                          /\ Desired[k].daily < 24 * Desired[k].hourly + 24
      BY DEF HourlyWithinDaily, IInv
    <2>2. PICK r \in results : k = MsmKeyOf(config, r)
      BY <2>1, DesiredFacts
    <2> DEFINE a == Slots(r) * CreditsPerResult(config.measurements[r.m].type)
               i == CohortAt(config, r.m, r.j).interval
    <2>3. /\ Desired[k].hourly = (a * 3600) \div i
          /\ Desired[k].daily = (a * 86400) \div i
      BY <2>1, <2>2, DesiredFacts DEF SpecHourlyCredits, SpecDailyCredits
    <2>4. /\ i \in Nat \ {0} /\ Slots(r) \in Nat
          /\ config.measurements[r.m].type \in {"dns", "ping", "tls", "traceroute", "http"}
      BY <2>1, ResultFacts, Zenon
    <2>5. CreditsPerResult(config.measurements[r.m].type) \in Nat
      BY <2>4 DEF CreditsPerResult
    <2>6. a \in Nat
      BY <2>4, <2>5
    <2> HIDE DEF a, i
    <2> DEFINE x == a * 3600
    <2>7. x \in Nat /\ a * 86400 = 24 * x /\ 24 * x \in Nat
      BY <2>6
    <2>8. Desired[k].hourly = x \div i /\ Desired[k].daily = (24 * x) \div i
      BY <2>3, <2>7
    <2> HIDE DEF x
    <2>9. /\ x \div i \in Nat /\ (24 * x) \div i \in Nat
          /\ i * (x \div i) <= x /\ x < i * (x \div i) + i
          /\ i * ((24 * x) \div i) <= 24 * x /\ 24 * x < i * ((24 * x) \div i) + i
      BY <2>4, <2>7, DivFacts
    <2>10. QED
      BY <2>4, <2>7, <2>8, <2>9, DayOfHours
  <1>2. QED
    BY <1>1, SpecIInv, SpecResultsPlaced, PTL

FiniteResults == IsFiniteSet(results)

\* There are finitely many results.
LEMMA SpecFiniteResults == Spec => []FiniteResults
  <1>1. Init => FiniteResults
    BY FS_EmptySet DEF Init, FiniteResults
  <1>2. FiniteResults /\ [Next]_vars => FiniteResults'
    <2>1. SUFFICES ASSUME IsFiniteSet(results), [Next]_vars
                   PROVE  IsFiniteSet(results')
      BY DEF FiniteResults
    <2>2. IsFiniteSet({}) /\ IsFiniteSet(results \cup {Result})
      BY <2>1, FS_EmptySet, FS_AddElement
    <2>3. results' \in {results, {}, results \cup {Result}}
      BY <2>1 DEF Next, Load, BeginCohort, Cancel, PinProbe, SkipAbsentPin, OrderProbes,
          PickProbe, SkipProbe, FinishCohort, ProbeLeaves, vars
    <2>4. QED
      BY <2>1, <2>2, <2>3
  <1>3. QED
    BY <1>1, <1>2, PTL DEF Spec

\* What the cohort of a result costs a day.
Daily(r) ==
    SpecDailyCredits(Slots(r), config.measurements[r.m].type,
                     CohortAt(config, r.m, r.j).interval)

DailyOf(k) == SpecDailyCredits(Desired[k].count, Desired[k].type, Desired[k].interval)

\* It is a number.
LEMMA DailyType ==
    ASSUME TypeOK, ResultsPlaced, NEW r \in results
    PROVE  Daily(r) \in Nat
  <1> DEFINE a == Slots(r) * CreditsPerResult(config.measurements[r.m].type)
             i == CohortAt(config, r.m, r.j).interval
  <1>1. /\ i \in Nat \ {0} /\ Slots(r) \in Nat
        /\ config.measurements[r.m].type \in {"dns", "ping", "tls", "traceroute", "http"}
    BY ResultFacts, Zenon
  <1>2. CreditsPerResult(config.measurements[r.m].type) \in Nat
    BY <1>1 DEF CreditsPerResult
  <1>3. a \in Nat
    BY <1>1, <1>2
  <1>4. Daily(r) = (a * 86400) \div i
    BY DEF Daily, SpecDailyCredits
  <1> HIDE DEF a, i
  <1>5. a * 86400 \in Nat
    BY <1>3
  <1>6. QED
    BY <1>1, <1>4, <1>5, DivFacts

\* MapThenSumSet sums.
LEMMA SumOverResults ==
    ASSUME IsFiniteSet(results)
    PROVE  \E f : /\ SumsTo(f, [r \in results |-> Daily(r)], results)
                  /\ MapThenSumSet(Daily, results) = f[results]
  <1> DEFINE w == [r \in results |-> Daily(r)]
             To(f) == f = [s \in SUBSET results |->
                             IF s = {} THEN 0
                             ELSE Daily(Some(s)) + f[s \ {Some(s)}]]
  <1>1. \A s \in SUBSET results : s # {} => w[Some(s)] = Daily(Some(s))
    BY SomeIn
  <1> HIDE DEF w
  <1>2. ASSUME NEW f PROVE To(f) <=> SumsTo(f, w, results)
    <2>1. [s \in SUBSET results |->
             IF s = {} THEN 0 ELSE Daily(Some(s)) + f[s \ {Some(s)}]]
          = [s \in SUBSET results |->
              IF s = {} THEN 0 ELSE w[Some(s)] + f[s \ {Some(s)}]]
      BY <1>1
    <2>2. QED
      BY <2>1, Zenon DEF SumsTo
  <1>3. \E f : To(f)
    BY <1>2, SumExists
  <1>4. MapThenSumSet(Daily, results) = (CHOOSE f : To(f))[results]
    BY Zenon DEF MapThenSumSet, MapThenFoldSet, Some
  <1>5. To(CHOOSE f : To(f))
    BY <1>3, Zenon
  <1>6. QED
    BY <1>2, <1>4, <1>5 DEF w

\* The same over the desired measurements.
LEMMA SumOverDesired ==
    ASSUME IsFiniteSet(DOMAIN Desired)
    PROVE  \E f : /\ SumsTo(f, [k \in DOMAIN Desired |-> DailyOf(k)], DOMAIN Desired)
                  /\ MapThenSumSet(DailyOf, DOMAIN Desired) = f[DOMAIN Desired]
  <1> DEFINE D_ == DOMAIN Desired
             w == [k \in D_ |-> DailyOf(k)]
             To(f) == f = [s \in SUBSET D_ |->
                             IF s = {} THEN 0
                             ELSE DailyOf(Some(s)) + f[s \ {Some(s)}]]
  <1>1. \A s \in SUBSET D_ : s # {} => w[Some(s)] = DailyOf(Some(s))
    BY SomeIn
  <1> HIDE DEF w
  <1>2. ASSUME NEW f PROVE To(f) <=> SumsTo(f, w, D_)
    <2>1. [s \in SUBSET D_ |->
             IF s = {} THEN 0 ELSE DailyOf(Some(s)) + f[s \ {Some(s)}]]
          = [s \in SUBSET D_ |->
              IF s = {} THEN 0 ELSE w[Some(s)] + f[s \ {Some(s)}]]
      BY <1>1
    <2>2. QED
      BY <2>1, Zenon DEF SumsTo
  <1>3. \E f : To(f)
    BY <1>2, SumExists
  <1>4. MapThenSumSet(DailyOf, D_) = (CHOOSE f : To(f))[D_]
    BY Zenon DEF MapThenSumSet, MapThenFoldSet, Some
  <1>5. To(CHOOSE f : To(f))
    BY <1>3, Zenon
  <1>6. QED
    BY <1>2, <1>4, <1>5 DEF w

\* Every cohort that was selected is in the plan with its probes, and the credits
\* that are shown for the plan are those of all the slots: neither map on the way
\* (allSelected, desired) drops a cohort.
THEOREM SpecEstimateCoversSelection == Spec => []EstimateCoversSelection
  <1>1. TypeOK /\ ResultsPlaced /\ FiniteResults => EstimateCoversSelection
    <2>1. SUFFICES ASSUME TypeOK, ResultsPlaced, IsFiniteSet(results)
                   PROVE  EstimateCoversSelection
      BY DEF FiniteResults
    <2> DEFINE g == [r \in results |-> MsmKeyOf(config, r)]
               w == [r \in results |-> Daily(r)]
               v == [k \in DOMAIN Desired |-> DailyOf(k)]
    <2>2. /\ DOMAIN Desired = {g[r] : r \in results}
          /\ \A r \in results :
               Desired[g[r]].probes = Chosen(config, r) /\ DailyOf(g[r]) = Daily(r)
      BY <2>1, DesiredFacts DEF DailyOf, Daily
    <2>3. \A r, s \in results : g[r] = g[s] => r = s
      BY <2>1, KeysAreOwn
    <2>4. IsFiniteSet(DOMAIN Desired)
      <3>1. g \in Surjection(results, DOMAIN Desired)
        BY <2>2 DEF Surjection
      <3> HIDE DEF g
      <3>2. QED
        BY <3>1, <2>1, FS_Surjection
    <2>5. w \in [results -> Int] /\ v \in [DOMAIN Desired -> Int]
      <3>1. \A r \in results : Daily(r) \in Int
        BY <2>1, DailyType
      <3>2. \A k \in DOMAIN Desired : DailyOf(k) \in Int
        BY <3>1, <2>2
      <3>3. QED
        BY <3>1, <3>2
    <2>6. PICK f : SumsTo(f, w, results) /\ MapThenSumSet(Daily, results) = f[results]
      BY <2>1, SumOverResults
    <2>7. PICK h : /\ SumsTo(h, v, DOMAIN Desired)
                   /\ MapThenSumSet(DailyOf, DOMAIN Desired) = h[DOMAIN Desired]
      BY <2>4, SumOverDesired
    <2>8. \A r \in results : g[r] \in DOMAIN Desired /\ v[g[r]] = w[r]
      BY <2>2
    <2>9. \A k \in DOMAIN Desired : \E r \in results : g[r] = k
      BY <2>2
    <2> HIDE DEF g, w, v
    <2>10. f[results] = h[DOMAIN Desired]
      BY <2>1, <2>3, <2>4, <2>5, <2>6, <2>7, <2>8, <2>9, SameSum
    <2>11. EstimateCredits(Desired).daily = MapThenSumSet(DailyOf, DOMAIN Desired)
      BY Zenon DEF EstimateCredits, DailyOf
    <2>12. MapThenSumSet(Daily, results)
           = MapThenSumSet(
                 LAMBDA r : SpecDailyCredits(Slots(r),
                                config.measurements[r.m].type,
                                CohortAt(config, r.m, r.j).interval),
                 results)
      BY Zenon DEF Daily
    <2>13. \A r \in results :
             /\ MsmKeyOf(config, r) \in DOMAIN Desired
             /\ Desired[MsmKeyOf(config, r)].probes = Chosen(config, r)
      BY <2>2 DEF g
    <2>14. QED
      BY <2>6, <2>7, <2>10, <2>11, <2>12, <2>13, Zenon DEF EstimateCoversSelection
  <1>2. IInv => TypeOK
    BY DEF IInv
  <1>3. QED
    BY <1>1, <1>2, SpecIInv, SpecResultsPlaced, SpecFiniteResults, PTL

-----------------------------------------------------------------------------
(* Scores and bands.                                                        *)

\* A score is a number, as weights are.
LEMMA ScoreType ==
    ASSUME NEW p \in Probes, NEW cfg \in Cfgs
    PROVE  Score(p, cfg) \in Int
  <1> DEFINE S == Info[p].tags
             e(t) == WeightOf(cfg.tags, t) + WeightOf(cfg.stability, t)
             w == [t \in S |-> e(t)]
             To(f) == f = [s \in SUBSET S |->
                             IF s = {} THEN 0 ELSE e(Some(s)) + f[s \ {Some(s)}]]
  <1>1. /\ \A k : WeightOf(cfg.tags, k) \in Int /\ WeightOf(cfg.stability, k) \in Int
        /\ \A k : WeightOf(cfg.asn, k) \in Int /\ WeightOf(cfg.countries, k) \in Int
    BY SelectionAssumption DEF TypedCfg, WeightOf
  <1>2. IsFiniteSet(S)
    BY TableAssumption
  <1>3. w \in [S -> Int]
    BY <1>1
  <1>4. \A s \in SUBSET S : s # {} => w[Some(s)] = e(Some(s))
    BY SomeIn
  <1>5. Score(p, cfg) = 1 + WeightOf(cfg.asn, Info[p].asn)
                          + WeightOf(cfg.countries, Info[p].country)
                          + (CHOOSE f : To(f))[S]
    BY Zenon DEF Score, MapThenSumSet, MapThenFoldSet, Some
  <1> HIDE DEF w, e, S
  <1>6. ASSUME NEW f PROVE To(f) <=> SumsTo(f, w, S)
    <2>1. [s \in SUBSET S |->
             IF s = {} THEN 0 ELSE e(Some(s)) + f[s \ {Some(s)}]]
          = [s \in SUBSET S |->
              IF s = {} THEN 0 ELSE w[Some(s)] + f[s \ {Some(s)}]]
      BY <1>4
    <2>2. QED
      BY <2>1, Zenon DEF SumsTo
  <1>7. \E f : To(f)
    BY <1>2, <1>6, SumExists
  <1>8. To(CHOOSE f : To(f))
    BY <1>7, Zenon
  <1>9. SumsTo(CHOOSE f : To(f), w, S)
    BY <1>6, <1>8
  <1>10. (CHOOSE f : To(f))[S] \in Int
    BY <1>2, <1>3, <1>9, SumFacts
  <1> HIDE DEF To
  <1>11. QED
    BY <1>1, <1>5, <1>10

\* Cities that add nothing add nothing.
LEMMA ZeroBonus ==
    ASSUME NEW p, NEW cfg \in Cfgs,
           \A i \in DOMAIN cfg.cities : cfg.cities[i].score = 0
    PROVE  CityScoreBonus(p, cfg.cities) = 0
  <1> DEFINE S == NearTo(p, cfg.cities)
             e(i) == cfg.cities[i].score
             w == [i \in S |-> e(i)]
             To(f) == f = [s \in SUBSET S |->
                             IF s = {} THEN 0 ELSE e(Some(s)) + f[s \ {Some(s)}]]
  <1>1. \A i \in S : e(i) = 0
    BY DEF NearTo
  <1>2. IsFiniteSet(S)
    <2>1. DOMAIN cfg.cities = 1..Len(cfg.cities) /\ Len(cfg.cities) \in Nat
      BY SelectionAssumption DEF TypedCfg
    <2>2. S \in SUBSET (1..Len(cfg.cities)) /\ IsFiniteSet(1..Len(cfg.cities))
      BY <2>1, FS_Interval DEF NearTo
    <2>3. QED
      BY <2>2, FS_Subset
  <1>3. w \in [S -> Int] /\ \A i \in S : w[i] = 0
    BY <1>1
  <1>4. \A s \in SUBSET S : s # {} => w[Some(s)] = e(Some(s))
    BY SomeIn
  <1>5. CityScoreBonus(p, cfg.cities) = (CHOOSE f : To(f))[S]
    BY Zenon DEF CityScoreBonus, MapThenSumSet, MapThenFoldSet, Some
  <1> HIDE DEF w, e, S
  <1>6. ASSUME NEW f PROVE To(f) <=> SumsTo(f, w, S)
    <2>1. [s \in SUBSET S |->
             IF s = {} THEN 0 ELSE e(Some(s)) + f[s \ {Some(s)}]]
          = [s \in SUBSET S |->
              IF s = {} THEN 0 ELSE w[Some(s)] + f[s \ {Some(s)}]]
      BY <1>4
    <2>2. QED
      BY <2>1, Zenon DEF SumsTo
  <1>7. \E f : To(f)
    BY <1>2, <1>6, SumExists
  <1>8. To(CHOOSE f : To(f))
    BY <1>7, Zenon
  <1>9. SumsTo(CHOOSE f : To(f), w, S)
    BY <1>6, <1>8
  <1>10. (CHOOSE f : To(f))[S] = 0
    BY <1>2, <1>3, <1>9, SumOfZeros
  <1>11. QED
    BY <1>5, <1>10

\* A finite set that is ordered strictly has a first element.
LEMMA Foremost ==
    ASSUME NEW S, IsFiniteSet(S), S # {}, NEW R, StrictOrder(R, S)
    PROVE  \E x \in S : \A y \in S : <<y, x>> \notin R
  <1>1. \A n \in 0..(Cardinality(S) - 1) : \E x \in S : Cardinality(Below(R, S, x)) = n
    BY Ranks
  <1>2. 0 \in 0..(Cardinality(S) - 1)
    BY FS_EmptySet, FS_CardinalityType
  <1>3. PICK x \in S : Cardinality(Below(R, S, x)) = 0
    BY <1>1, <1>2
  <1>4. IsFiniteSet(Below(R, S, x))
    BY FS_Subset DEF Below
  <1>5. Below(R, S, x) = {}
    BY <1>3, <1>4, FS_EmptySet
  <1>6. QED
    BY <1>5 DEF Below

\* A finite set of integers has a largest.
LEMMA LargestOf ==
    ASSUME NEW S \in SUBSET Int, IsFiniteSet(S), S # {}
    PROVE  Max(S) \in S
  <1> DEFINE R == {e \in S \X S : e[1] > e[2]}
  <1>1. \A x, y \in S : <<x, y>> \in R <=> x > y
    OBVIOUS
  <1> HIDE DEF R
  <1>2. StrictOrder(R, S)
    <2>1. \A x, y, z \in S : x > y /\ y > z => x > z
      OBVIOUS
    <2>2. \A x, y \in S : x = y \/ x > y \/ y > x
      OBVIOUS
    <2>3. \A x \in S : ~(x > x)
      OBVIOUS
    <2>4. QED
      BY <1>1, <2>1, <2>2, <2>3 DEF StrictOrder
  <1>3. PICK x \in S : \A y \in S : <<y, x>> \notin R
    BY <1>2, Foremost
  <1>4. \A y \in S : ~(y > x)
    BY <1>1, <1>3
  <1>5. \A y \in S : x >= y
    BY <1>4
  <1>6. QED
    BY <1>5 DEF Max

\* The room in a cell is a number, whatever the cities.
LEMMA CapacityType ==
    ASSUME NEW S \in SUBSET Probes, NEW cfg \in Cfgs, NEW cell, NEW base \in Int
    PROVE  CellCapacity(base, CellCoef(S, cell, cfg)) \in Int
  <1> DEFINE cities == cfg.cities
             here == {q \in S : CellOf(q, cfg) = cell}
  <1>1. /\ cities \in Seq(CitySet) /\ Len(cities) \in Nat
        /\ DOMAIN cities = 1..Len(cities)
        /\ \A i \in DOMAIN cities : cities[i].coef \in Int
    <2>1. cities \in Seq(CitySet)
      BY SelectionAssumption DEF TypedCfg
    <2>2. \A i \in DOMAIN cities : cities[i] \in CitySet
      BY <2>1
    <2>3. QED
      BY <2>1, <2>2 DEF CitySet
  <1>2. ASSUME NEW p PROVE MaxCityCoef(p, cities) \in Int
    <2> DEFINE near == NearTo(p, cities)
               coefs == {cities[i].coef : i \in near}
               f == [i \in near |-> cities[i].coef]
    <2>1. near \in SUBSET (1..Len(cities)) /\ coefs \in SUBSET Int
      BY <1>1 DEF NearTo
    <2>2. IsFiniteSet(near)
      <3>1. IsFiniteSet(1..Len(cities))
        BY <1>1, FS_Interval
      <3> HIDE DEF near
      <3>2. QED
        BY <2>1, <3>1, FS_Subset
    <2>3. f \in Surjection(near, coefs)
      BY DEF Surjection
    <2> HIDE DEF f
    <2>4. IsFiniteSet(coefs)
      BY <2>2, <2>3, FS_Surjection
    <2>5. near # {} => coefs # {}
      OBVIOUS
    <2> HIDE DEF near
    <2>6. near # {} => Max(coefs) \in Int
      BY <2>1, <2>4, <2>5, LargestOf
    <2>7. MaxCityCoef(p, cities) = IF near = {} THEN 100 ELSE Max(coefs)
      BY Zenon DEF MaxCityCoef, near
    <2>8. QED
      BY <2>6, <2>7
  <1> DEFINE given == {MaxCityCoef(p, cities) : p \in here}
             g == [p \in here |-> MaxCityCoef(p, cities)]
  <1>3. IsFiniteSet(here)
    BY ProbesFinite
  <1>4. g \in Surjection(here, given)
    BY DEF Surjection
  <1>5. given \in SUBSET Int
    BY <1>2
  <1>6. CellCoef(S, cell, cfg) = Max({0} \cup given)
    BY Zenon DEF CellCoef
  <1> HIDE DEF g, given, here
  <1>7. IsFiniteSet(given)
    BY <1>3, <1>4, FS_Surjection
  <1>8. IsFiniteSet({0} \cup given) /\ {0} \cup given \in SUBSET Int /\ {0} \cup given # {}
    BY <1>5, <1>7, FS_AddElement
  <1>9. Max({0} \cup given) \in Int
    BY <1>8, LargestOf
  <1> DEFINE coef == CellCoef(S, cell, cfg)
             up == (base * coef + 99) \div 100
  <1>10. coef \in Int
    BY <1>6, <1>9
  <1> HIDE DEF coef
  <1>11. up \in Int
    BY <1>10
  <1>12. CellCapacity(base, coef) = IF coef = 100 THEN base ELSE Max({1, up})
    BY Zenon DEF CellCapacity
  <1> HIDE DEF up
  <1>13. IsFiniteSet({1, up})
    <2>1. IsFiniteSet({} \cup {1})
      BY FS_EmptySet, FS_AddElement
    <2>2. IsFiniteSet(({} \cup {1}) \cup {up})
      BY <2>1, FS_AddElement
    <2>3. ({} \cup {1}) \cup {up} = {1, up}
      OBVIOUS
    <2>4. QED
      BY <2>2, <2>3
  <1>14. Max({1, up}) \in Int
    BY <1>11, <1>13, LargestOf
  <1>15. QED
    BY <1>12, <1>14 DEF coef

\* The order never goes up a band, interleaved or not.
LEMMA BandsDescend ==
    ASSUME NEW S \in SUBSET Probes, NEW cfg
    PROVE  LET o == DefaultOrder(S, cfg) IN
           /\ o \in Seq(S)
           /\ \A p \in S : \E i \in DOMAIN o : o[i] = p
           /\ \A i, k \in DOMAIN o : i < k => Band(o[i], cfg) >= Band(o[k], cfg)
  <1> DEFINE o == DefaultOrder(S, cfg)
  <1>1. /\ o \in Seq(S)
        /\ \A p \in S : \E i \in DOMAIN o : o[i] = p
    BY DefaultOrderOrders
  <1>2. \A i, k \in DOMAIN o :
          i < k => Before(o[i], o[k], cfg) \/ EarlierTurn(S, o[i], o[k], cfg)
    <2>1. CASE cfg.unshuffled
      <3>1. o = Sorted(S, cfg)
        BY <2>1 DEF DefaultOrder
      <3>2. \A i, k \in DOMAIN Sorted(S, cfg) :
              i < k <=> Before(Sorted(S, cfg)[i], Sorted(S, cfg)[k], cfg)
        BY SortedFacts, Zenon
      <3>3. QED
        BY <3>1, <3>2
    <2>2. CASE ~cfg.unshuffled
      <3>1. o = InterleaveContinents(Sorted(S, cfg), cfg)
        BY <2>2 DEF DefaultOrder
      <3>2. QED
        BY <3>1, InterleavedInTurns
    <2>3. QED
      BY <2>1, <2>2
  <1> HIDE DEF o
  <1>3. \A p, q : Before(p, q, cfg) \/ EarlierTurn(S, p, q, cfg)
                    => Band(p, cfg) > Band(q, cfg) \/ Band(p, cfg) = Band(q, cfg)
    BY Zenon DEF Before, EarlierTurn
  <1>4. \A p : Band(p, cfg) \in 1..4
    BY BandType
  <1>5. \A i, k \in DOMAIN o : i < k => Band(o[i], cfg) >= Band(o[k], cfg)
    BY <1>2, <1>3, <1>4
  <1>6. QED
    BY <1>1, <1>5 DEF o

\* Of A, those in the cell of p, of its band or a higher.
RivalsIn(A, p, cfg) ==
    {o \in A : CellOf(o, cfg) = CellOf(p, cfg) /\ Band(o, cfg) >= Band(p, cfg)}

\* Those in A are not in it instead of one in S of a higher band, but in full
\* cells.
BandsKept(S, A, out, c) ==
    \A p \in S \ (A \cup out), q \in A :
        /\ ~HardExcluded(p, c.cfg.excludeTags)
        /\ Band(p, c.cfg) > Band(q, c.cfg)
        => Cardinality(RivalsIn(A, p, c.cfg))
             >= CellCapacity(c.perCell, CellCoef(S, CellOf(p, c.cfg), c.cfg))

\* Draft's fairness keeps bands: who has a slot behind p found one free, so that
\* p, who has none, found its cell full of those before it.
LEMMA FairKeepsBands ==
    ASSUME pool \in SUBSET Probes, NEW c, c.cfg \in Cfgs, c.perCell \in Int,
           NEW given, NEW gone, NEW A, c.count - Cardinality(given) \in Int,
           D!Fair(c, gone, given, A, DefaultOrder(pool, c.cfg))
    PROVE  BandsKept(pool, A, c.exclude \cup gone \cup {c.include[i] : i \in given}, c)
  <1> DEFINE o == DefaultOrder(pool, c.cfg)
             room == c.count - Cardinality(given)
             out == c.exclude \cup gone \cup {c.include[i] : i \in given}
  <1>1. /\ o \in Seq(pool)
        /\ \A p \in pool : \E i \in DOMAIN o : o[i] = p
        /\ \A i, k \in DOMAIN o : i < k => Band(o[i], c.cfg) >= Band(o[k], c.cfg)
    BY BandsDescend
  <1>2. /\ A \subseteq pool
        /\ \A i \in DOMAIN o :
             o[i] \in A <=>
               /\ o[i] \notin D!Barred(c, gone, given)
               /\ D!Deserves(c, o, i, room, A)
    BY SameCardinality DEF D!Fair
  <1> HIDE DEF o, room
  <1>3. SUFFICES ASSUME NEW p \in pool \ (A \cup out), NEW q \in A,
                        ~HardExcluded(p, c.cfg.excludeTags),
                        Band(p, c.cfg) > Band(q, c.cfg)
                 PROVE  Cardinality(RivalsIn(A, p, c.cfg))
                          >= CellCapacity(c.perCell, CellCoef(pool, CellOf(p, c.cfg), c.cfg))
    BY DEF BandsKept
  <1>4. PICK i \in DOMAIN o : o[i] = p
    BY <1>1
  <1>5. PICK k \in DOMAIN o : o[k] = q
    BY <1>1, <1>2
  <1>6. DOMAIN o = 1..Len(o) /\ Len(o) \in Nat
    BY <1>1
  <1>7. i < k
    <2>1. Band(p, c.cfg) \in 1..4 /\ Band(q, c.cfg) \in 1..4
      BY BandType
    <2>2. ~(k < i)
      BY <1>1, <1>3, <1>4, <1>5, <2>1
    <2>3. i # k
      BY <1>3, <1>4, <1>5
    <2>4. QED
      BY <1>6, <2>2, <2>3
  <1> DEFINE before == D!Ahead(o, i, A)
             rivals == D!InCell(before, CellOf(p, c.cfg), c.cfg)
             cap == CellCapacity(c.perCell, CellCoef(pool, CellOf(p, c.cfg), c.cfg))
  <1>8. before \subseteq D!Ahead(o, k, A) /\ D!Ahead(o, k, A) \in SUBSET Probes
    BY <1>2, <1>6, <1>7 DEF D!Ahead
  <1>9. Cardinality(before) < room
    <2>1. D!Deserves(c, o, k, room, A)
      BY <1>2, <1>5
    <2>2. Cardinality(D!Ahead(o, k, A)) < room
      BY <2>1, SameCardinality DEF D!Deserves
    <2>3. /\ Cardinality(before) <= Cardinality(D!Ahead(o, k, A))
          /\ Cardinality(before) \in Nat /\ Cardinality(D!Ahead(o, k, A)) \in Nat
      BY <1>8, ProbesFinite, FS_Subset
    <2>4. room \in Int
      BY DEF room
    <2> HIDE DEF before
    <2>5. QED
      BY <2>2, <2>3, <2>4
  <1>10. p \notin D!Barred(c, gone, given)
    BY <1>3, SameScoring DEF D!Barred
  <1>11. ~D!Deserves(c, o, i, room, A)
    BY <1>2, <1>3, <1>4, <1>10
  <1>12. Cardinality(rivals) >= cap
    <2>1. D!CellOf(o[i], c.cfg) = CellOf(p, c.cfg)
      BY <1>4, SameScoring
    <2>2. D!Capacity(c, CellOf(p, c.cfg)) = cap
      BY SameCapacity
    <2>3. D!Deserves(c, o, i, room, A)
          <=> Cardinality(before) < room /\ ~(Cardinality(rivals) >= cap)
      BY <2>1, <2>2, SameCardinality, Zenon DEF D!Deserves
    <2>4. QED
      BY <1>9, <1>11, <2>3
  <1>13. rivals \subseteq RivalsIn(A, p, c.cfg)
    <2>1. SUFFICES ASSUME NEW r \in rivals PROVE r \in RivalsIn(A, p, c.cfg)
      OBVIOUS
    <2>2. r \in A /\ CellOf(r, c.cfg) = CellOf(p, c.cfg) /\ \E l \in 1..(i - 1) : o[l] = r
      BY SameScoring DEF D!InCell, D!Ahead
    <2>3. PICK l \in 1..(i - 1) : o[l] = r
      BY <2>2
    <2>4. l \in DOMAIN o /\ l < i
      BY <1>6
    <2>5. Band(r, c.cfg) >= Band(p, c.cfg)
      BY <1>1, <1>4, <2>3, <2>4
    <2>6. QED
      BY <2>2, <2>5 DEF RivalsIn
  <1>14. /\ Cardinality(rivals) <= Cardinality(RivalsIn(A, p, c.cfg))
         /\ Cardinality(rivals) \in Nat /\ Cardinality(RivalsIn(A, p, c.cfg)) \in Nat
    <2>1. RivalsIn(A, p, c.cfg) \in SUBSET Probes
      BY <1>2 DEF RivalsIn
    <2>2. QED
      BY <1>13, <2>1, ProbesFinite, FS_Subset
  <1>15. cap \in Int
    BY CapacityType
  <1> HIDE DEF rivals, cap
  <1>16. QED
    BY <1>12, <1>14, <1>15 DEF cap

\* Probes that earlier cohorts of the measurement of r have.
HadBefore(c, rs, r) ==
    UNION {Chosen(c, s) : s \in {s \in rs : s.m = r.m /\ s.j < r.j}}

\* Whom the cohort of r may not have, or has as its pins.
OutOf(c, rs, r) ==
    LET cohort == CohortAt(c, r.m, r.j) IN
    cohort.exclude \cup HadBefore(c, rs, r) \cup {cohort.include[i] : i \in r.pins}

\* Results keep bands, where the order is the cohort's own.
ByBands(S, c, rs) ==
    \A r \in rs :
        LET cohort == CohortAt(c, r.m, r.j) IN
        FiniteRadii(cohort.cfg) => BandsKept(S, r.filled, OutOf(c, rs, r), cohort)

ResultsByBands == results # {} => ByBands(pool, config, results)

\* A cohort that finishes has kept bands.
LEMMA FinishKeepsBands ==
    ASSUME DefaultOrderer, IInv, ResultsPlaced, FinishCohort, FiniteRadii(Cohort.cfg)
    PROVE  BandsKept(pool, filled,
                     Cohort.exclude \cup D!TakenBy(results, m)
                       \cup {Cohort.include[i] : i \in pins}, Cohort)
  <1>1. pc \in {"pins", "fill"} /\ Running
    BY DEF FinishCohort, Running
  <1>2. /\ Result.m = m /\ Result.j = j /\ Result.pins = pins /\ Result.filled = filled
        /\ D!CohortAt(config, m, j) = Cohort
    BY SameConfiguration DEF Result, Cohort
  <1>3. /\ Cohort.cfg \in Cfgs /\ Cohort.perCell \in Int /\ Cohort.count \in Int
        /\ Cohort.include \in Seq(Nat) /\ pool \in SUBSET Probes
    <2>1. /\ file \in Files /\ config = ApplyDefaults(file) /\ Valid(config)
          /\ m \in MsmPositions(config) /\ j \in CohortPositions(config, m)
      BY <1>1 DEF IInv, TypeOK, Loaded
    <2>2. /\ Cohort.cfg \in Cfgs /\ Cohort.perCell \in Nat \ {0}
          /\ Cohort.count \in Nat \ {0} /\ Cohort.include \in Seq(Nat)
      BY <2>1, CohortFacts, Zenon DEF Cohort
    <2>3. QED
      BY <2>2 DEF IInv, TypeOK
  <1>4. Cardinality(pins) \in Nat
    <2>1. pins \in SUBSET (1..Len(Cohort.include)) /\ Len(Cohort.include) \in Nat
      BY <1>1, <1>3 DEF IInv, SlotsSound, Present
    <2>2. IsFiniteSet(1..Len(Cohort.include))
      BY <2>1, FS_Interval
    <2>3. IsFiniteSet(pins)
      BY <2>1, <2>2, FS_Subset
    <2>4. QED
      BY <2>3, FS_CardinalityType
  <1>5. PICK like \in Cfgs :
          /\ OrderKey(like) = OrderKey(Cohort.cfg)
          /\ D!Fair(Cohort, D!TakenBy(results, m), pins, filled, Orderer(pool, like))
    BY <1>2, ResultJustified DEF D!Justified
  <1>6. like = Cohort.cfg
    BY <1>3, <1>5, KeysTell DEF DistinctKeys
  <1>7. Orderer(pool, like) = DefaultOrder(pool, Cohort.cfg)
    BY <1>3, <1>6 DEF DefaultOrderer
  <1>8. Cohort.count - Cardinality(pins) \in Int
    BY <1>3, <1>4
  <1>9. QED
    BY <1>3, <1>5, <1>7, <1>8, FairKeepsBands

\* Every step keeps what is known of bands.
LEMMA BandsAreKept ==
    ASSUME DefaultOrderer, IInv, ResultsPlaced, ResultsByBands, [Next]_vars
    PROVE  ResultsByBands'
  <1>1. CASE FinishCohort
    <2>1. /\ results' = results \cup {Result} /\ pc \in {"pins", "fill"} /\ Running
          /\ UNCHANGED <<file, config, pool>>
      BY <1>1 DEF FinishCohort, outer, Running
    <2>2. /\ Result.m = m /\ Result.j = j /\ Result.pins = pins /\ Result.filled = filled
          /\ Cohort = CohortAt(config, m, j)
      BY DEF Result, Cohort
    \* All there was is of an earlier cohort.
    <2>3. /\ m \in Nat /\ j \in Nat
          /\ \A r \in results :
               r.m \in Nat /\ r.j \in Nat /\ (r.m < m \/ (r.m = m /\ r.j < j))
      <3>1. m \in Nat /\ j \in Nat /\ \A r \in results : r.m \in Nat /\ r.j \in Nat
        BY DEF IInv, TypeOK
      <3>2. \A r \in results : r.m < m \/ (r.m = m /\ r.j < j)
        BY <2>1 DEF IInv, TakenSound
      <3>3. QED
        BY <3>1, <3>2
    <2>4. ASSUME NEW r \in results
          PROVE  HadBefore(config, results', r) = HadBefore(config, results, r)
      <3>1. ~(m = r.m /\ j < r.j)
        BY <2>3
      <3>2. {s \in results' : s.m = r.m /\ s.j < r.j}
              = {s \in results : s.m = r.m /\ s.j < r.j}
        BY <2>1, <2>2, <3>1
      <3>3. QED
        BY <3>2 DEF HadBefore
    <2>5. HadBefore(config, results', Result) = D!TakenBy(results, m)
      <3>1. {s \in results' : s.m = m /\ s.j < j} = {s \in results : s.m = m}
        <4>1. ~(j < j) /\ \A s \in results : s.m = m => s.j < j
          BY <2>3
        <4>2. QED
          BY <2>1, <2>2, <4>1
      <3>2. \A s : D!Chosen(config, s) = Chosen(config, s)
        BY SameConfiguration
      <3>3. QED
        BY <2>2, <3>1, <3>2 DEF HadBefore, D!TakenBy
    <2>6. ASSUME NEW r \in results', FiniteRadii(CohortAt(config, r.m, r.j).cfg)
          PROVE  BandsKept(pool, r.filled, OutOf(config, results', r),
                           CohortAt(config, r.m, r.j))
      <3>1. CASE r \in results
        <4>1. OutOf(config, results', r) = OutOf(config, results, r)
          BY <2>4, <3>1 DEF OutOf
        <4>2. QED
          BY <2>6, <3>1, <4>1 DEF ResultsByBands, ByBands
      <3>2. CASE r = Result
        <4>1. OutOf(config, results', r)
                = Cohort.exclude \cup D!TakenBy(results, m)
                    \cup {Cohort.include[i] : i \in pins}
          BY <2>2, <2>5, <3>2 DEF OutOf
        <4>2. FiniteRadii(Cohort.cfg)
          BY <2>2, <2>6, <3>2
        <4>3. QED
          BY <1>1, <2>2, <3>2, <4>1, <4>2, FinishKeepsBands
      <3>3. QED
        BY <2>1, <3>1, <3>2
    <2>7. ByBands(pool, config, results')
      BY <2>6 DEF ByBands
    <2>8. QED
      BY <2>1, <2>7 DEF ResultsByBands
  <1>2. CASE Load
    BY <1>2 DEF Load, IInv, Loaded, ResultsByBands
  <1>3. CASE Cancel \/ ProbeLeaves
    BY <1>3 DEF Cancel, ProbeLeaves, ResultsByBands
  <1>4. CASE UNCHANGED <<config, pool, results>>
    BY <1>4 DEF ResultsByBands
  <1>5. QED
    BY <1>1, <1>2, <1>3, <1>4 DEF Next, BeginCohort, PinProbe, SkipAbsentPin,
        OrderProbes, PickProbe, SkipProbe, vars, outer

\* The bands that the report gives the chosen probes, without cities, are those by
\* which they were chosen over others: of whoever a cohort could have, nobody is
\* passed over for a probe of a lower reported band, but in a full cell.
THEOREM SpecReportedBands ==
    DefaultOrderer => (Spec => []ReportedBandsDroveSelection)
  <1> SUFFICES ASSUME DefaultOrderer PROVE Spec => []ReportedBandsDroveSelection
    OBVIOUS
  <1>1. TypeOK /\ ResultsPlaced /\ ResultsByBands => ReportedBandsDroveSelection
    <2> SUFFICES ASSUME TypeOK, ResultsPlaced, ResultsByBands
                 PROVE  ReportedBandsDroveSelection
      OBVIOUS
    <2> DEFINE C(r) == CohortAt(config, r.m, r.j)
               Shown(r, p) == ReportedBand(config, <<r, 0, p>>)
               Had(r) == UNION {Chosen(config, s) :
                                  s \in {s \in results : s.m = r.m /\ s.j < r.j}}
               Open(r) == {p \in pool \ (C(r).exclude \cup Had(r) \cup Chosen(config, r)) :
                             ~HardExcluded(p, C(r).cfg.excludeTags)}
               Rivals(r, p) == {o \in r.filled : /\ CellOf(o, C(r).cfg) = CellOf(p, C(r).cfg)
                                                 /\ Shown(r, o) >= Shown(r, p)}
               Room(r, p) == CellCapacity(C(r).perCell,
                                          CellCoef(pool, CellOf(p, C(r).cfg), C(r).cfg))
    <2>1. ASSUME NEW r \in results, FiniteRadii(C(r).cfg),
                 \A i \in DOMAIN C(r).cfg.cities : C(r).cfg.cities[i].score = 0,
                 NEW p \in Open(r), NEW q \in r.filled, Shown(r, p) > Shown(r, q)
          PROVE  Cardinality(Rivals(r, p)) >= Room(r, p)
      <3>1. C(r).cfg \in Cfgs
        <4>1. /\ file \in Files /\ config = ApplyDefaults(file) /\ Valid(config)
              /\ r.m \in MsmPositions(config) /\ r.j \in CohortPositions(config, r.m)
          BY DEF ResultsPlaced, Placed, TypeOK
        <4>2. QED
          BY <4>1, CohortFacts, Zenon
      \* Without their bonus, the report's scores are the selection's.
      <3>2. ASSUME NEW o \in Probes PROVE Shown(r, o) = Band(o, C(r).cfg)
        <4>1. DefaultWeight(o, C(r).cfg) = Score(o, C(r).cfg)
          BY <2>1, <3>1, ZeroBonus, ScoreType DEF DefaultWeight
        <4>2. <<r, 0, o>>[1] = r /\ <<r, 0, o>>[3] = o
          OBVIOUS
        <4>3. QED
          BY <4>1, <4>2, Zenon DEF Band, ReportedBand
      <3>3. p \in Probes /\ r.filled \in SUBSET Probes
        BY <2>1 DEF TypeOK
      <3>4. Rivals(r, p) = RivalsIn(r.filled, p, C(r).cfg)
        BY <3>2, <3>3 DEF RivalsIn
      <3>5. Band(p, C(r).cfg) > Band(q, C(r).cfg)
        BY <2>1, <3>2, <3>3
      <3>6. p \in pool \ (r.filled \cup OutOf(config, results, r))
        BY <2>1 DEF OutOf, HadBefore, Chosen, PinsOf
      <3>7. BandsKept(pool, r.filled, OutOf(config, results, r), C(r))
        BY <2>1 DEF ResultsByBands, ByBands
      <3>8. ~HardExcluded(p, C(r).cfg.excludeTags)
        BY <2>1
      <3> HIDE DEF C, Open, Rivals, Shown, Room
      <3>9. Cardinality(RivalsIn(r.filled, p, C(r).cfg)) >= Room(r, p)
        BY <2>1, <3>5, <3>6, <3>7, <3>8 DEF BandsKept, Room
      <3>10. QED
        BY <3>4, <3>9
    <2>2. QED
      BY <2>1, Zenon DEF ReportedBandsDroveSelection
  <1>2. Init => ResultsByBands
    BY DEF Init, ResultsByBands
  <1>3. Spec => []ResultsByBands
    BY <1>2, BandsAreKept, SpecIInv, SpecResultsPlaced, PTL DEF Spec
  <1>4. IInv => TypeOK
    BY DEF IInv
  <1>5. QED
    BY <1>1, <1>3, <1>4, SpecIInv, SpecResultsPlaced, PTL

-----------------------------------------------------------------------------
(* Tags.                                                                    *)

\* Names are texts.
LEMMA NamesAreText == Seq(STRING) \subseteq Text
  <1> SUFFICES ASSUME NEW s \in Seq(STRING) PROVE s \in Text
    OBVIOUS
  <1>1. Len(s) \in Nat /\ s \in [1..Len(s) -> STRING]
    OBVIOUS
  <1>2. s \in [1..Len(s) -> Tokens]
    BY <1>1 DEF Tokens
  <1>3. s \in Seq(Tokens)
    BY <1>1, <1>2
  <1>4. QED
    BY <1>3 DEF Text

\* The names a desired measurement is keyed by were given in the file.
LEMMA KeyFacts ==
    ASSUME TypeOK, ResultsPlaced, NEW k \in DOMAIN Desired
    PROVE  /\ k.name \in Text /\ k.name # <<>>
           /\ k.cohort \in Text /\ k.cohort # <<>>
           /\ CodecOf(config.ns) \in Text
  <1>1. PICK r \in results : k = MsmKeyOf(config, r)
    BY DesiredFacts
  <1>2. /\ file \in Files /\ config = ApplyDefaults(file) /\ Valid(config)
        /\ r.m \in MsmPositions(config) /\ r.j \in CohortPositions(config, r.m)
    BY DEF ResultsPlaced, Placed, TypeOK
  <1>3. /\ config.measurements[r.m].name \in Seq(STRING)
        /\ config.measurements[r.m].name # NoName
        /\ config.ns \in Seq(STRING)
        /\ CohortAt(config, r.m, r.j).name \in Seq(STRING)
        /\ CohortAt(config, r.m, r.j).name # NoName
    BY <1>2, CohortFacts, Zenon
  <1>4. k.name = config.measurements[r.m].name
        /\ k.cohort = CohortAt(config, r.m, r.j).name
    BY <1>1 DEF MsmKeyOf
  <1>5. CodecOf(config.ns) \in Seq(STRING)
    BY <1>3, DefaultNSAssumption DEF CodecOf
  <1>6. QED
    BY <1>3, <1>4, <1>5, NamesAreText DEF NoName

\* A measurement created for a cohort is recognised as that cohort's, whatever the
\* namespace and the names, colons in the namespace included.
THEOREM SpecTagsFindTheirCohort == Spec => []TagsFindTheirCohort
  <1>1. TypeOK /\ ResultsPlaced => TagsFindTheirCohort
    <2> SUFFICES ASSUME TypeOK, ResultsPlaced,
                        NEW k \in DOMAIN Desired, Carried(k)
                 PROVE  Parse(CodecOf(config.ns), TagOf(k))
                          = [ok |-> TRUE, name |-> k.name, cohort |-> k.cohort]
      BY Zenon DEF TagsFindTheirCohort
    <2> DEFINE ns == CodecOf(config.ns)  name == k.name  cohort == k.cohort
    <2>1. /\ ns \in Text /\ name \in Text /\ cohort \in Text
          /\ name # <<>> /\ cohort # <<>>
      BY KeyFacts
    <2>2. /\ \A i \in DOMAIN name : name[i] # ":" /\ name[i] # "]"
          /\ \A i \in DOMAIN cohort : cohort[i] # "]"
      BY DEF Carried, Without
    <2>3. TagOf(k) = Format(ns, name, cohort)
      BY DEF TagOf
    <2> HIDE DEF ns, name, cohort
    <2>4. DOMAIN name = 1..Len(name) /\ DOMAIN cohort = 1..Len(cohort)
      BY <2>1 DEF Text
    <2>5. Parse(ns, Format(ns, name, cohort))
            = [ok |-> TRUE, name |-> name, cohort |-> cohort]
      BY <2>1, <2>2, <2>4, ParseFormat
    <2>6. QED
      BY <2>3, <2>5 DEF ns, name, cohort
  <1>2. IInv => TypeOK
    BY DEF IInv
  <1>3. QED
    BY <1>1, <1>2, SpecIInv, SpecResultsPlaced, PTL

\* And it is not taken for its own by a configuration whose namespace is not the
\* end of this one's, the bracket included.
THEOREM SpecForeignTagsIgnored == Spec => []ForeignTagsIgnored
  <1>1. TypeOK /\ ResultsPlaced => ForeignTagsIgnored
    <2> SUFFICES ASSUME TypeOK, ResultsPlaced,
                        NEW k \in DOMAIN Desired, NEW other \in OtherNamespaces,
                        Carried(k), Without(k.cohort, ":"),
                        Without(CodecOf(config.ns), ":"),
                        ~IsSuffix(other, <<"[">> \o CodecOf(config.ns))
                 PROVE  ~Parse(other, TagOf(k)).ok
      BY Zenon DEF ForeignTagsIgnored
    <2> DEFINE ns == CodecOf(config.ns)  name == k.name  cohort == k.cohort
    <2>1. /\ ns \in Text /\ name \in Text /\ cohort \in Text
      BY KeyFacts
    <2>2. other \in Text
      BY NamesAreText, NamespacesAssumption
    <2>3. /\ \A i \in DOMAIN ns : ns[i] # ":"
          /\ \A i \in DOMAIN name : name[i] # ":"
          /\ \A i \in DOMAIN cohort : cohort[i] # ":" /\ cohort[i] # "]"
      BY DEF Carried, Without
    <2>4. TagOf(k) = Format(ns, name, cohort)
      BY DEF TagOf
    <2>5. ~IsSuffix(other, <<"[">> \o ns)
      OBVIOUS
    <2> HIDE DEF ns, name, cohort
    <2>6. /\ DOMAIN ns = 1..Len(ns) /\ DOMAIN name = 1..Len(name)
          /\ DOMAIN cohort = 1..Len(cohort)
      BY <2>1 DEF Text
    <2>7. Parse(other, Format(ns, name, cohort)) = Unreadable
      BY <2>1, <2>2, <2>3, <2>5, <2>6, ForeignParse
    <2>8. QED
      BY <2>4, <2>7 DEF Unreadable
  <1>2. IInv => TypeOK
    BY DEF IInv
  <1>3. QED
    BY <1>1, <1>2, SpecIInv, SpecResultsPlaced, PTL

=============================================================================
