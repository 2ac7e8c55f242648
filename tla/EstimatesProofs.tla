--------------------------- MODULE EstimatesProofs ----------------------------
(***************************************************************************)
(* Lemmas about sums over finite sets, from which totals of credits and    *)
(* scores are made, and about text, from which tags are.                   *)
(***************************************************************************)
EXTENDS Estimates, OrderingProofs

-----------------------------------------------------------------------------
(* Sums.                                                                    *)

Some(s) == CHOOSE x \in s : TRUE

\* The recursive function inside MapThenSumSet, for weights w.
SumsTo(f, w, S) ==
    f = [s \in SUBSET S |->
            IF s = {} THEN 0 ELSE w[Some(s)] + f[s \ {Some(s)}]]

\* An element of a set that is not empty.
LEMMA SomeIn == \A s : s # {} => Some(s) \in s
  BY DEF Some

\* Subsets of a finite set, with and without an element.
LEMMA Smaller ==
    ASSUME NEW S, IsFiniteSet(S)
    PROVE  /\ \A s \in SUBSET S : IsFiniteSet(s) /\ Cardinality(s) \in Nat
           /\ \A s \in SUBSET S : Cardinality(s) = 0 => s = {}
           /\ \A s \in SUBSET S : \A x \in s :
                s \ {x} \in SUBSET S /\ Cardinality(s \ {x}) = Cardinality(s) - 1
  <1>1. \A s \in SUBSET S : IsFiniteSet(s) /\ Cardinality(s) \in Nat
    BY FS_Subset, FS_CardinalityType
  <1>2. \A s \in SUBSET S : Cardinality(s) = 0 => s = {}
    BY <1>1, FS_EmptySet
  <1>3. \A s \in SUBSET S : \A x \in s :
          s \ {x} \in SUBSET S /\ Cardinality(s \ {x}) = Cardinality(s) - 1
    <2>1. TAKE s \in SUBSET S
    <2>2. TAKE x \in s
    <2>3. IsFiniteSet(s)
      BY <1>1
    <2>4. Cardinality(s \ {x}) = Cardinality(s) - 1
      BY <2>3, FS_RemoveElement
    <2>5. QED
      BY <2>4
  <1>4. QED
    BY <1>1, <1>2, <1>3

\* It exists, so that MapThenSumSet chooses it.
LEMMA SumExists ==
    ASSUME NEW S, IsFiniteSet(S), NEW w
    PROVE  \E f : SumsTo(f, w, S)
  <1> DEFINE Low(n) == {s \in SUBSET S : Cardinality(s) <= n}
             Step(f, s) == IF s = {} THEN 0 ELSE w[Some(s)] + f[s \ {Some(s)}]
             Stage(f, n) == f = [s \in Low(n) |-> Step(f, s)]
             T == {n \in Nat : ~ \E f : Stage(f, n)}
  <1>1. /\ \A s \in SUBSET S : Cardinality(s) \in Nat
        /\ \A s \in SUBSET S : Cardinality(s) = 0 => s = {}
        /\ \A s \in SUBSET S : \A x \in s :
             s \ {x} \in SUBSET S /\ Cardinality(s \ {x}) = Cardinality(s) - 1
    BY Smaller, Zenon
  <1>2. T = {}
    <2>1. SUFFICES ASSUME T # {} PROVE FALSE
      OBVIOUS
    <2>2. T \in SUBSET Nat
      OBVIOUS
    <2>3. PICK n \in T : \A y \in T : n <= y
      BY <2>1, <2>2, LeastNatural
    <2>4. CASE n = 0
      <3> DEFINE g == [s \in Low(0) |-> 0]
      <3>1. \A s \in Low(0) : s = {}
        BY <1>1
      <3>2. g = [s \in Low(0) |-> Step(g, s)]
        BY <3>1
      <3>3. QED
        BY <3>2, <2>3, <2>4
    <2>5. CASE n # 0
      <3>1. n - 1 \in Nat /\ n \in Nat /\ n - 1 \notin T
        <4> HIDE DEF T
        <4>1. QED
          BY <2>2, <2>3, <2>5
      <3>2. PICK f : Stage(f, n - 1)
        BY <3>1
      <3> DEFINE g == [s \in Low(n) |-> Step(f, s)]
      <3>3. ASSUME NEW s \in Low(n), s # {}
            PROVE  s \ {Some(s)} \in Low(n - 1) /\ s \ {Some(s)} \in Low(n)
        <4>1. Some(s) \in s /\ s \in SUBSET S /\ Cardinality(s) <= n
          BY <3>3, SomeIn
        <4>2. s \ {Some(s)} \in SUBSET S
              /\ Cardinality(s \ {Some(s)}) = Cardinality(s) - 1
              /\ Cardinality(s) \in Nat
          BY <4>1, <1>1
        <4>3. Cardinality(s \ {Some(s)}) <= n - 1 /\ Cardinality(s \ {Some(s)}) <= n
          BY <4>1, <4>2, <3>1
        <4>4. QED
          BY <4>2, <4>3
      <3>4. ASSUME NEW s \in Low(n - 1) PROVE g[s] = f[s]
        <4>1. s \in Low(n)
          BY <3>1, <1>1
        <4>2. g[s] = Step(f, s)
          BY <4>1
        <4>3. f[s] = Step(f, s)
          BY <3>2, Zenon
        <4>4. QED
          BY <4>2, <4>3
      <3>5. ASSUME NEW s \in Low(n) PROVE Step(f, s) = Step(g, s)
        BY <3>3, <3>4
      <3>6. g = [s \in Low(n) |-> Step(g, s)]
        BY <3>5
      <3>7. Stage(g, n)
        BY <3>6
      <3>8. QED
        BY <3>7, <2>3
    <2>6. QED
      BY <2>4, <2>5
  <1>3. Cardinality(S) \in Nat /\ Low(Cardinality(S)) = SUBSET S
    <2>1. \A s \in SUBSET S : Cardinality(s) <= Cardinality(S)
      BY FS_Subset
    <2>2. QED
      BY <2>1, FS_CardinalityType
  <1>4. PICK f : Stage(f, Cardinality(S))
    BY <1>2, <1>3
  <1>5. f = [s \in SUBSET S |-> Step(f, s)]
    BY <1>3, <1>4
  <1>6. SumsTo(f, w, S)
    BY <1>5, Zenon DEF SumsTo
  <1>7. QED
    BY <1>6

\* It takes the elements in any order.
LEMMA SumFacts ==
    ASSUME NEW S, IsFiniteSet(S), NEW w \in [S -> Int], NEW f, SumsTo(f, w, S)
    PROVE  /\ \A s \in SUBSET S : f[s] \in Int
           /\ f[{}] = 0
           /\ \A s \in SUBSET S : \A x \in s : f[s] = w[x] + f[s \ {x}]
  <1>1. /\ \A s \in SUBSET S : Cardinality(s) \in Nat
        /\ \A s \in SUBSET S : Cardinality(s) = 0 => s = {}
        /\ \A s \in SUBSET S : \A x \in s :
             s \ {x} \in SUBSET S /\ Cardinality(s \ {x}) = Cardinality(s) - 1
    BY Smaller, Zenon
  <1>2. \A s \in SUBSET S :
          f[s] = IF s = {} THEN 0 ELSE w[Some(s)] + f[s \ {Some(s)}]
    BY Zenon DEF SumsTo
  <1>3. f[{}] = 0
    BY <1>2
  <1> DEFINE Good(s) == /\ f[s] \in Int
                        /\ \A x \in s : f[s] = w[x] + f[s \ {x}]
             T == {Cardinality(s) : s \in {t \in SUBSET S : ~Good(t)}}
  <1>4. ASSUME NEW s \in SUBSET S, \A t \in SUBSET s : t # s => Good(t)
        PROVE  Good(s)
    <2>1. CASE s = {}
      BY <1>3, <2>1
    <2>2. CASE s # {}
      <3> DEFINE y == Some(s)
      <3>1. y \in s /\ s \ {y} \in SUBSET S /\ f[s] = w[y] + f[s \ {y}]
        BY <1>1, <1>2, <2>2, SomeIn
      <3> HIDE DEF y
      <3>2. w[y] \in Int /\ f[s \ {y}] \in Int
        BY <1>4, <3>1
      <3>3. ASSUME NEW x \in s, x # y PROVE f[s] = w[x] + f[s \ {x}]
        <4>1. f[s \ {y}] = w[x] + f[(s \ {y}) \ {x}]
          <5>1. Good(s \ {y}) /\ x \in s \ {y}
            BY <1>4, <3>1, <3>3
          <5>2. QED
            BY <5>1
        <4>2. f[s \ {x}] = w[y] + f[(s \ {x}) \ {y}]
          <5>1. Good(s \ {x}) /\ y \in s \ {x}
            BY <1>4, <3>1, <3>3
          <5>2. QED
            BY <5>1
        <4>3. (s \ {y}) \ {x} = (s \ {x}) \ {y}
          OBVIOUS
        <4>4. f[(s \ {x}) \ {y}] \in Int
          <5>1. (s \ {x}) \ {y} \in SUBSET s /\ (s \ {x}) \ {y} # s
            BY <3>1
          <5>2. QED
            BY <5>1, <1>4
        <4>5. w[x] \in Int
          BY <3>3
        <4>6. f[s \ {y}] = w[x] + f[(s \ {x}) \ {y}]
          BY <4>1, <4>3, Zenon
        <4> DEFINE rest == f[(s \ {x}) \ {y}]
        <4>7. /\ f[s] = w[y] + f[s \ {y}] /\ f[s \ {y}] = w[x] + rest
              /\ f[s \ {x}] = w[y] + rest /\ rest \in Int
          BY <3>1, <4>2, <4>4, <4>6, Zenon
        <4> HIDE DEF rest
        <4>8. QED
          BY <3>2, <4>5, <4>7
      <3>4. f[s] \in Int
        BY <3>1, <3>2
      <3>5. \A x \in s : f[s] = w[x] + f[s \ {x}]
        BY <3>1, <3>3, Zenon
      <3>6. QED
        BY <3>4, <3>5
    <2>3. QED
      BY <2>1, <2>2
  <1>5. T = {}
    <2>1. SUFFICES ASSUME T # {} PROVE FALSE
      OBVIOUS
    <2>2. T \in SUBSET Nat
      BY <1>1
    <2>3. PICK n \in T : \A y \in T : n <= y
      BY <2>1, <2>2, LeastNatural
    <2>4. PICK s \in SUBSET S : ~Good(s) /\ Cardinality(s) = n
      BY <2>3
    <2>5. ASSUME NEW t \in SUBSET s, t # s PROVE Good(t)
      <3>1. PICK x \in s : x \notin t
        BY <2>5
      <3>2. t \in SUBSET S /\ t \in SUBSET (s \ {x}) /\ IsFiniteSet(s \ {x})
        BY <3>1, <2>4, FS_Subset
      <3>3. Cardinality(t) <= Cardinality(s \ {x}) /\ Cardinality(s \ {x}) = n - 1
        BY <3>1, <3>2, <2>4, <1>1, FS_Subset
      <3>4. Cardinality(t) \in Nat /\ n \in Nat /\ Cardinality(t) < n
        BY <3>2, <3>3, <1>1, <2>4
      <3>5. ~Good(t) => Cardinality(t) \in T
        BY <3>2
      <3> HIDE DEF Good, T
      <3>6. QED
        BY <3>4, <3>5, <2>3
    <2> HIDE DEF Good
    <2>6. QED
      BY <2>4, <2>5, <1>4
  <1>6. \A s \in SUBSET S : Good(s)
    BY <1>5
  <1>7. QED
    BY <1>3, <1>6

\* What is wrong of some subset of a finite set is wrong of the empty set, if it
\* is still wrong without some element.
LEMMA OneByOne ==
    ASSUME NEW S, IsFiniteSet(S), NEW Bad \in SUBSET (SUBSET S),
           \A s \in Bad : \E x \in s : s \ {x} \in Bad
    PROVE  Bad = {}
  <1> DEFINE T == {Cardinality(s) : s \in Bad}
  <1>1. /\ \A s \in SUBSET S : Cardinality(s) \in Nat
        /\ \A s \in SUBSET S : \A x \in s :
             s \ {x} \in SUBSET S /\ Cardinality(s \ {x}) = Cardinality(s) - 1
    BY Smaller, Zenon
  <1>2. SUFFICES ASSUME T # {} PROVE FALSE
    OBVIOUS
  <1>3. T \in SUBSET Nat
    BY <1>1
  <1>4. PICK n \in T : \A y \in T : n <= y
    BY <1>2, <1>3, LeastNatural
  <1>5. PICK s \in Bad : Cardinality(s) = n
    BY <1>4
  <1>6. PICK x \in s : s \ {x} \in Bad
    BY <1>5
  <1>7. n - 1 \in T
    BY <1>1, <1>5, <1>6
  <1> HIDE DEF T
  <1>8. QED
    BY <1>3, <1>4, <1>7

\* Sums whose terms correspond are equal.
LEMMA SameSum ==
    ASSUME NEW S, IsFiniteSet(S), NEW w \in [S -> Int], NEW f, SumsTo(f, w, S),
           NEW T, IsFiniteSet(T), NEW v \in [T -> Int], NEW h, SumsTo(h, v, T),
           NEW g, \A x \in S : g[x] \in T /\ v[g[x]] = w[x],
           \A x, y \in S : g[x] = g[y] => x = y,
           \A z \in T : \E x \in S : g[x] = z
    PROVE  f[S] = h[T]
  <1> DEFINE Image(s) == {g[x] : x \in s}
             Bad == {s \in SUBSET S : f[s] # h[Image(s)]}
  <1>1. /\ f[{}] = 0
        /\ \A s \in SUBSET S : f[s] \in Int
        /\ \A s \in SUBSET S : \A x \in s : f[s] = w[x] + f[s \ {x}]
    BY SumFacts
  <1>2. /\ h[{}] = 0
        /\ \A s \in SUBSET T : \A x \in s : h[s] = v[x] + h[s \ {x}]
    BY SumFacts
  <1>3. ASSUME NEW s \in Bad PROVE \E x \in s : s \ {x} \in Bad
    <2>1. s # {}
      BY <1>1, <1>2
    <2>2. PICK x \in s : TRUE
      BY <2>1
    <2>3. SUFFICES ASSUME s \ {x} \notin Bad PROVE FALSE
      BY <2>2
    <2>4. x \in S /\ s \ {x} \in SUBSET S /\ g[x] \in Image(s) /\ Image(s) \in SUBSET T
      OBVIOUS
    <2>5. Image(s) \ {g[x]} = Image(s \ {x})
      BY <2>4
    <2>6. f[s \ {x}] = h[Image(s \ {x})]
      BY <2>3, <2>4
    <2>7. f[s] = w[x] + f[s \ {x}]
      BY <1>1, <2>2
    <2>8. h[Image(s)] = v[g[x]] + h[Image(s) \ {g[x]}]
      BY <1>2, <2>4
    <2>9. v[g[x]] = w[x]
      BY <2>4
    <2>10. f[s] = h[Image(s)]
      BY <2>5, <2>6, <2>7, <2>8, <2>9, Zenon
    <2>11. QED
      BY <2>10
  <1>4. Bad = {}
    BY <1>3, OneByOne
  <1>5. Image(S) = T
    OBVIOUS
  <1>6. QED
    BY <1>4, <1>5

\* A sum of zeros.
LEMMA SumOfZeros ==
    ASSUME NEW S, IsFiniteSet(S), NEW w \in [S -> Int], NEW f, SumsTo(f, w, S),
           \A x \in S : w[x] = 0
    PROVE  f[S] = 0
  <1> DEFINE Bad == {s \in SUBSET S : f[s] # 0}
  <1>1. /\ f[{}] = 0
        /\ \A s \in SUBSET S : f[s] \in Int
        /\ \A s \in SUBSET S : \A x \in s : f[s] = w[x] + f[s \ {x}]
    BY SumFacts
  <1>2. ASSUME NEW s \in Bad PROVE \E x \in s : s \ {x} \in Bad
    <2>1. PICK x \in s : TRUE
      BY <1>1
    <2>2. f[s] = w[x] + f[s \ {x}] /\ w[x] = 0 /\ f[s \ {x}] \in Int /\ f[s] # 0
      BY <1>1, <2>1
    <2>3. f[s \ {x}] # 0
      BY <2>2
    <2>4. QED
      BY <2>1, <2>3
  <1>3. Bad = {}
    BY <1>2, OneByOne
  <1>4. QED
    BY <1>3

-----------------------------------------------------------------------------
(* Text.                                                                    *)

\* STRING has the separators among its elements, which the provers cannot see.
Tokens == STRING \cup {"[", ":", "]"}

Text == Seq(Tokens)

\* part stands in text at position i.
OccursAt(text, part, i) ==
    /\ i \in Nat \ {0}
    /\ i + Len(part) <= Len(text) + 1
    /\ \A k \in 1..Len(part) : text[i + k - 1] = part[k]

\* A part of a text, by its elements.
LEMMA PartFacts ==
    ASSUME NEW text \in Text, NEW i \in Nat \ {0}, NEW e \in Nat, e <= Len(text)
    PROVE  /\ SubSeq(text, i, e) \in Text
           /\ Len(SubSeq(text, i, e)) = IF i <= e THEN e - i + 1 ELSE 0
           /\ \A k \in 1..(e - i + 1) : SubSeq(text, i, e)[k] = text[i + k - 1]
  <1>1. Len(text) \in Nat /\ \A k \in 1..Len(text) : text[k] \in Tokens
    BY DEF Text
  <1>2. \A k \in i..e : k \in 1..Len(text)
    BY <1>1
  <1>3. \A k \in i..e : text[k] \in Tokens
    BY <1>1, <1>2
  <1>4. QED
    BY <1>3, SubSeqProperties DEF Text

\* Texts of the same length and elements are the same.
LEMMA SameText ==
    ASSUME NEW s \in Text, NEW t \in Text, Len(s) = Len(t),
           \A k \in 1..Len(s) : s[k] = t[k]
    PROVE  s = t
  BY SeqEqual DEF Text

\* strings.Index finds the first occurrence, if there is one.
LEMMA IndexFacts ==
    ASSUME NEW text \in Text, NEW part \in Text, part # <<>>
    PROVE  /\ IndexOf(text, part) \in Nat
           /\ IndexOf(text, part) = 0 => \A i : ~OccursAt(text, part, i)
           /\ IndexOf(text, part) # 0 =>
                /\ OccursAt(text, part, IndexOf(text, part))
                /\ \A i : OccursAt(text, part, i) => IndexOf(text, part) <= i
  <1> DEFINE at == {i \in 1..(Len(text) - Len(part) + 1) :
                      SubSeq(text, i, i + Len(part) - 1) = part}
  <1>1. Len(text) \in Nat /\ Len(part) \in Nat \ {0}
    BY DEF Text
  <1>2. ASSUME NEW i \in 1..(Len(text) - Len(part) + 1)
        PROVE  SubSeq(text, i, i + Len(part) - 1) = part <=> OccursAt(text, part, i)
    <2> DEFINE e == i + Len(part) - 1
               sub == SubSeq(text, i, e)
    <2>1. i \in Nat \ {0} /\ e \in Nat /\ e <= Len(text) /\ i <= e
          /\ i + Len(part) <= Len(text) + 1 /\ e - i + 1 = Len(part)
      BY <1>1
    <2>2. /\ sub \in Text /\ Len(sub) = Len(part)
          /\ \A k \in 1..Len(part) : sub[k] = text[i + k - 1]
      BY <2>1, PartFacts
    <2> HIDE DEF sub
    <2>3. sub = part <=> \A k \in 1..Len(part) : sub[k] = part[k]
      BY <2>2, SameText
    <2>4. sub = part <=> OccursAt(text, part, i)
      BY <2>1, <2>2, <2>3 DEF OccursAt
    <2>5. QED
      BY <2>4 DEF sub
  <1>3. \A i : i \in at <=> OccursAt(text, part, i)
    <2>1. \A i : OccursAt(text, part, i) => i \in 1..(Len(text) - Len(part) + 1)
      BY <1>1 DEF OccursAt
    <2>2. QED
      BY <1>2, <2>1
  <1>4. IndexOf(text, part) = IF at = {} THEN 0 ELSE Min(at)
    BY DEF IndexOf
  <1>5. at \in SUBSET (Nat \ {0})
    BY <1>1
  <1> HIDE DEF at
  <1>6. at # {} => Min(at) \in at /\ \A y \in at : Min(at) <= y
    <2>1. ASSUME at # {} PROVE \E x \in at : \A y \in at : x <= y
      <3>1. at \in SUBSET Nat
        BY <1>5
      <3>2. QED
        BY <2>1, <3>1, LeastNatural
    <2>2. QED
      BY <2>1 DEF Min
  <1>7. CASE at = {}
    BY <1>3, <1>4, <1>7
  <1>8. CASE at # {}
    <2>1. IndexOf(text, part) = Min(at) /\ Min(at) \in at /\ Min(at) \in Nat \ {0}
      BY <1>4, <1>5, <1>6, <1>8
    <2>2. OccursAt(text, part, Min(at))
      BY <2>1, <1>3
    <2>3. \A i : OccursAt(text, part, i) => Min(at) <= i
      BY <1>3, <1>6, <1>8
    <2>4. QED
      BY <2>1, <2>2, <2>3
  <1>9. QED
    BY <1>7, <1>8

\* One text after the other.
LEMMA AfterFacts ==
    ASSUME NEW s \in Text, NEW t \in Text
    PROVE  /\ s \o t \in Text /\ Len(s \o t) = Len(s) + Len(t)
           /\ Len(s) \in Nat /\ Len(t) \in Nat
           /\ \A i \in 1..Len(s) : (s \o t)[i] = s[i]
           /\ \A i \in 1..Len(t) : (s \o t)[Len(s) + i] = t[i]
  <1>1. /\ s \o t \in Text /\ Len(s \o t) = Len(s) + Len(t)
        /\ \A i \in 1..(Len(s) + Len(t)) :
             (s \o t)[i] = IF i <= Len(s) THEN s[i] ELSE t[i - Len(s)]
    BY ConcatProperties DEF Text
  <1>2. Len(s) \in Nat /\ Len(t) \in Nat
    BY DEF Text
  <1>3. \A i \in 1..Len(s) : (s \o t)[i] = s[i]
    <2>1. TAKE i \in 1..Len(s)
    <2>2. i \in 1..(Len(s) + Len(t)) /\ i <= Len(s)
      BY <1>2
    <2>3. QED
      BY <1>1, <2>2
  <1>4. \A i \in 1..Len(t) : (s \o t)[Len(s) + i] = t[i]
    <2>1. TAKE i \in 1..Len(t)
    <2>2. /\ Len(s) + i \in 1..(Len(s) + Len(t)) /\ ~(Len(s) + i <= Len(s))
          /\ (Len(s) + i) - Len(s) = i
      BY <1>2
    <2>3. QED
      BY <1>1, <2>2
  <1>5. QED
    BY <1>1, <1>2, <1>3, <1>4

\* One token.
LEMMA TokenFacts ==
    ASSUME NEW x \in Tokens
    PROVE  <<x>> \in Text /\ Len(<<x>>) = 1 /\ <<x>>[1] = x /\ <<x>> # <<>>
  <1>1. <<x>> \in Seq(Tokens)
    OBVIOUS
  <1>2. Len(<<x>>) = 1 /\ <<x>>[1] = x
    OBVIOUS
  <1>3. Len(<<>>) = 0
    OBVIOUS
  <1>4. <<x>> # <<>>
    BY <1>2, <1>3
  <1>5. QED
    BY <1>1, <1>2, <1>4 DEF Text

\* The tag, element by element.
LEMMA TagFacts ==
    ASSUME NEW ns \in Text, NEW name \in Text, NEW cohort \in Text
    PROVE  LET text == Format(ns, name, cohort)
               a == Len(ns)  b == Len(name)  c == Len(cohort) IN
           /\ text \in Text /\ Len(text) = a + b + c + 4
           /\ a \in Nat /\ b \in Nat /\ c \in Nat
           /\ text[1] = "["
           /\ \A i \in 1..a : text[i + 1] = ns[i]
           /\ text[a + 2] = ":"
           /\ \A i \in 1..b : text[a + 2 + i] = name[i]
           /\ text[a + b + 3] = ":"
           /\ \A i \in 1..c : text[a + b + 3 + i] = cohort[i]
           /\ text[a + b + c + 4] = "]"
  <1> DEFINE a == Len(ns)  b == Len(name)  c == Len(cohort)
             t1 == <<"[">> \o ns
             t2 == t1 \o <<":">>
             t3 == t2 \o name
             t4 == t3 \o <<":">>
             t5 == t4 \o cohort
             t6 == t5 \o <<"]">>
  <1>1. a \in Nat /\ b \in Nat /\ c \in Nat
    BY DEF Text
  <1>2. /\ <<"[">> \in Text /\ Len(<<"[">>) = 1 /\ <<"[">>[1] = "["
        /\ <<":">> \in Text /\ Len(<<":">>) = 1 /\ <<":">>[1] = ":"
        /\ <<"]">> \in Text /\ Len(<<"]">>) = 1 /\ <<"]">>[1] = "]"
        /\ ns \in Text /\ name \in Text /\ cohort \in Text
    <2>1. "[" \in Tokens /\ ":" \in Tokens /\ "]" \in Tokens
      BY DEF Tokens
    <2>2. QED
      BY <2>1, TokenFacts
  <1>3. /\ t1 \in Text /\ Len(t1) = a + 1
        /\ t1[1] = "[" /\ \A i \in 1..a : t1[1 + i] = ns[i]
    <2>1. /\ t1 \in Text /\ Len(t1) = Len(<<"[">>) + Len(ns)
          /\ \A i \in 1..Len(<<"[">>) : t1[i] = <<"[">>[i]
          /\ \A i \in 1..Len(ns) : t1[Len(<<"[">>) + i] = ns[i]
      BY <1>2, AfterFacts
    <2> HIDE DEF t1
    <2>2. QED
      BY <1>1, <1>2, <2>1
  <1> HIDE DEF t1
  <1>4. /\ t2 \in Text /\ Len(t2) = a + 2
        /\ \A i \in 1..(a + 1) : t2[i] = t1[i]
        /\ t2[a + 1 + 1] = ":"
    <2>1. /\ t2 \in Text /\ Len(t2) = Len(t1) + Len(<<":">>)
          /\ \A i \in 1..Len(t1) : t2[i] = t1[i]
          /\ \A i \in 1..Len(<<":">>) : t2[Len(t1) + i] = <<":">>[i]
      BY <1>2, <1>3, AfterFacts
    <2> HIDE DEF t2
    <2>2. QED
      BY <1>1, <1>2, <1>3, <2>1
  <1> HIDE DEF t2
  <1>5. /\ t3 \in Text /\ Len(t3) = a + b + 2
        /\ \A i \in 1..(a + 2) : t3[i] = t2[i]
        /\ \A i \in 1..b : t3[a + 2 + i] = name[i]
    <2>1. /\ t3 \in Text /\ Len(t3) = Len(t2) + Len(name)
          /\ \A i \in 1..Len(t2) : t3[i] = t2[i]
          /\ \A i \in 1..Len(name) : t3[Len(t2) + i] = name[i]
      BY <1>2, <1>4, AfterFacts
    <2> HIDE DEF t3
    <2>2. QED
      BY <1>1, <1>2, <1>4, <2>1
  <1> HIDE DEF t3
  <1>6. /\ t4 \in Text /\ Len(t4) = a + b + 3
        /\ \A i \in 1..(a + b + 2) : t4[i] = t3[i]
        /\ t4[a + b + 2 + 1] = ":"
    <2>1. /\ t4 \in Text /\ Len(t4) = Len(t3) + Len(<<":">>)
          /\ \A i \in 1..Len(t3) : t4[i] = t3[i]
          /\ \A i \in 1..Len(<<":">>) : t4[Len(t3) + i] = <<":">>[i]
      BY <1>2, <1>5, AfterFacts
    <2> HIDE DEF t4
    <2>2. QED
      BY <1>1, <1>2, <1>5, <2>1
  <1> HIDE DEF t4
  <1>7. /\ t5 \in Text /\ Len(t5) = a + b + c + 3
        /\ \A i \in 1..(a + b + 3) : t5[i] = t4[i]
        /\ \A i \in 1..c : t5[a + b + 3 + i] = cohort[i]
    <2>1. /\ t5 \in Text /\ Len(t5) = Len(t4) + Len(cohort)
          /\ \A i \in 1..Len(t4) : t5[i] = t4[i]
          /\ \A i \in 1..Len(cohort) : t5[Len(t4) + i] = cohort[i]
      BY <1>2, <1>6, AfterFacts
    <2> HIDE DEF t5
    <2>2. QED
      BY <1>1, <1>2, <1>6, <2>1
  <1> HIDE DEF t5
  <1>8. /\ t6 \in Text /\ Len(t6) = a + b + c + 4
        /\ \A i \in 1..(a + b + c + 3) : t6[i] = t5[i]
        /\ t6[a + b + c + 3 + 1] = "]"
    <2>1. /\ t6 \in Text /\ Len(t6) = Len(t5) + Len(<<"]">>)
          /\ \A i \in 1..Len(t5) : t6[i] = t5[i]
          /\ \A i \in 1..Len(<<"]">>) : t6[Len(t5) + i] = <<"]">>[i]
      BY <1>2, <1>7, AfterFacts
    <2> HIDE DEF t6
    <2>2. QED
      BY <1>1, <1>2, <1>7, <2>1
  <1> HIDE DEF t6
  <1>9. Format(ns, name, cohort) = t6
    <2>1. Format(ns, name, cohort)
          = (((((<<"[">> \o ns) \o <<":">>) \o name) \o <<":">>) \o cohort) \o <<"]">>
      BY DEF Format
    <2>2. QED
      BY <2>1 DEF t1, t2, t3, t4, t5, t6
  <1> HIDE DEF a, b, c
  <1>10. /\ t6[1] = "["
         /\ \A i \in 1..a : t6[i + 1] = ns[i]
         /\ t6[a + 2] = ":"
    BY <1>1, <1>3, <1>4, <1>5, <1>6, <1>7, <1>8
  <1>11. /\ \A i \in 1..b : t6[a + 2 + i] = name[i]
         /\ t6[a + b + 3] = ":"
    BY <1>1, <1>5, <1>6, <1>7, <1>8
  <1>12. \A i \in 1..c : t6[a + b + 3 + i] = cohort[i]
    BY <1>1, <1>7, <1>8
  <1> DEFINE Is(text) ==
               /\ text \in Text /\ Len(text) = a + b + c + 4
               /\ a \in Nat /\ b \in Nat /\ c \in Nat
               /\ text[1] = "["
               /\ \A i \in 1..a : text[i + 1] = ns[i]
               /\ text[a + 2] = ":"
               /\ \A i \in 1..b : text[a + 2 + i] = name[i]
               /\ text[a + b + 3] = ":"
               /\ \A i \in 1..c : text[a + b + 3 + i] = cohort[i]
               /\ text[a + b + c + 4] = "]"
  <1>13. Is(t6)
    <2>1. t6[a + b + c + 4] = "]"
      <3>1. a + b + c + 3 + 1 = a + b + c + 4
        BY <1>1
      <3>2. QED
        BY <1>8, <3>1
    <2>2. QED
      BY <1>1, <1>8, <1>10, <1>11, <1>12, <2>1
  <1> HIDE DEF Is
  <1>14. Is(Format(ns, name, cohort))
    BY <1>9, <1>13
  <1>15. QED
    BY <1>14 DEF Is, a, b, c

\* The first "<ns>:" in a tag of the namespace is the one after the bracket.
LEMMA AnchorFacts ==
    ASSUME NEW ns \in Text, NEW name \in Text, NEW cohort \in Text
    PROVE  LET anchor == ns \o <<":">>
               text   == Format(ns, name, cohort) IN
           /\ anchor \in Text /\ Len(anchor) = Len(ns) + 1 /\ anchor # <<>>
           /\ IndexOf(text, anchor) = 2
  <1> DEFINE anchor == ns \o <<":">>
             text   == Format(ns, name, cohort)
             n == Len(ns)
  <1>1. /\ text \in Text /\ Len(text) = n + Len(name) + Len(cohort) + 4
        /\ n \in Nat /\ Len(name) \in Nat /\ Len(cohort) \in Nat
        /\ text[1] = "["
        /\ \A i \in 1..n : text[i + 1] = ns[i]
        /\ text[n + 2] = ":"
    BY TagFacts
  <1>2. /\ anchor \in Text /\ Len(anchor) = n + 1 /\ anchor # <<>>
        /\ \A i \in 1..n : anchor[i] = ns[i]
        /\ anchor[n + 1] = ":"
    <2>1. ":" \in Tokens
      BY DEF Tokens
    <2>2. /\ <<":">> \in Text /\ Len(<<":">>) = 1 /\ <<":">>[1] = ":"
      BY <2>1, TokenFacts
    <2>3. /\ anchor \in Text /\ Len(anchor) = n + Len(<<":">>)
          /\ \A i \in 1..n : anchor[i] = ns[i]
          /\ \A i \in 1..Len(<<":">>) : anchor[n + i] = <<":">>[i]
      BY <2>2, AfterFacts
    <2> HIDE DEF anchor
    <2>4. anchor[n + 1] = ":" /\ Len(anchor) = n + 1
      BY <2>2, <2>3
    <2>5. Len(<<>>) = 0
      OBVIOUS
    <2>6. anchor # <<>>
      BY <1>1, <2>4, <2>5
    <2>7. QED
      BY <2>3, <2>4, <2>6
  <1> HIDE DEF anchor, text, n
  <1>3. OccursAt(text, anchor, 2)
    <2>1. 2 + Len(anchor) <= Len(text) + 1
      BY <1>1, <1>2
    <2>2. ASSUME NEW k \in 1..Len(anchor) PROVE text[2 + k - 1] = anchor[k]
      <3>1. 2 + k - 1 = k + 1 /\ (k \in 1..n \/ k = n + 1)
        BY <1>1, <1>2
      <3>2. (n + 1) + 1 = n + 2
        BY <1>1
      <3>3. QED
        BY <1>1, <1>2, <3>1, <3>2
    <2>3. QED
      BY <2>1, <2>2 DEF OccursAt
  <1>4. ~OccursAt(text, anchor, 1)
    <2> SUFFICES ASSUME OccursAt(text, anchor, 1) PROVE FALSE
      OBVIOUS
    <2>1. \A k \in 1..(n + 1) : text[k] = anchor[k]
      <3>1. TAKE k \in 1..(n + 1)
      <3>2. text[1 + k - 1] = anchor[k] /\ 1 + k - 1 = k
        BY <1>1, <1>2 DEF OccursAt
      <3>3. QED
        BY <3>2
    <2> DEFINE other == {k \in 1..(n + 1) : anchor[k] # "["}
    <2>2. n + 1 \in other /\ other \in SUBSET Nat
      BY <1>1, <1>2
    <2>3. PICK k \in other : \A y \in other : k <= y
      <3> HIDE DEF other
      <3>1. QED
        BY <2>2, LeastNatural
    <2>4. CASE k = 1
      BY <1>1, <2>1, <2>4
    <2>5. CASE k # 1
      <3>1. k - 1 \in 1..n /\ (k - 1) + 1 = k /\ k - 1 \in 1..(n + 1)
        BY <1>1, <2>5
      <3>2. k - 1 \notin other
        BY <2>3, <3>1
      <3>3. ns[k - 1] = "["
        BY <1>2, <3>1, <3>2
      <3>4. text[k] = "["
        BY <1>1, <3>1, <3>3
      <3>5. QED
        BY <2>1, <3>4
    <2>6. QED
      BY <2>4, <2>5
  <1>5. IndexOf(text, anchor) = 2
    <2>1. IndexOf(text, anchor) # 0 /\ IndexOf(text, anchor) # 1
      BY <1>1, <1>2, <1>3, <1>4, IndexFacts
    <2>2. IndexOf(text, anchor) \in Nat /\ IndexOf(text, anchor) <= 2
      BY <1>1, <1>2, <1>3, <2>1, IndexFacts
    <2>3. QED
      BY <2>1, <2>2
  <1>6. QED
    BY <1>2, <1>5 DEF anchor, text, n

\* A single token occurs where it is an element.
LEMMA TokenOccurs ==
    ASSUME NEW text \in Text, NEW x \in Tokens, NEW i
    PROVE  OccursAt(text, <<x>>, i) <=> i \in 1..Len(text) /\ text[i] = x
  <1>1. Len(<<x>>) = 1 /\ <<x>>[1] = x
    BY TokenFacts
  <1>2. Len(text) \in Nat
    BY DEF Text
  <1> DEFINE one == <<x>>
  <1>3. OccursAt(text, one, i) <=>
          /\ i \in Nat \ {0} /\ i + 1 <= Len(text) + 1
          /\ \A k \in 1..1 : text[i + k - 1] = one[k]
    BY <1>1 DEF OccursAt
  <1>4. one[1] = x
    BY <1>1
  <1> HIDE DEF one
  <1>5. ASSUME i \in Nat \ {0}
        PROVE  (\A k \in 1..1 : text[i + k - 1] = one[k]) <=> text[i] = x
    <2>1. \A k \in 1..1 : k = 1 /\ i + k - 1 = i
      BY <1>5
    <2>2. 1 \in 1..1
      OBVIOUS
    <2>3. QED
      BY <1>4, <2>1, <2>2
  <1>6. i \in 1..Len(text) <=> i \in Nat \ {0} /\ i + 1 <= Len(text) + 1
    BY <1>2
  <1>7. OccursAt(text, one, i) <=> i \in 1..Len(text) /\ text[i] = x
    BY <1>3, <1>5, <1>6
  <1>8. QED
    BY <1>7 DEF one

\* The first of a token.
LEMMA FirstToken ==
    ASSUME NEW text \in Text, NEW x \in Tokens, NEW p \in 1..Len(text), text[p] = x,
           \A i \in 1..(p - 1) : text[i] # x
    PROVE  IndexOf(text, <<x>>) = p
  <1> DEFINE one == <<x>>
             k == IndexOf(text, one)
  <1>1. /\ k \in Nat
        /\ k = 0 => \A i : ~OccursAt(text, one, i)
        /\ k # 0 => OccursAt(text, one, k) /\ \A i : OccursAt(text, one, i) => k <= i
    <2>1. one \in Text /\ one # <<>>
      BY TokenFacts
    <2> HIDE DEF one
    <2>2. QED
      BY <2>1, IndexFacts
  <1>2. \A i : OccursAt(text, one, i) <=> i \in 1..Len(text) /\ text[i] = x
    BY TokenOccurs
  <1> HIDE DEF one, k
  <1>3. k # 0 /\ k <= p
    BY <1>1, <1>2
  <1>4. text[k] = x /\ k \in 1..Len(text)
    BY <1>1, <1>2, <1>3
  <1>5. ~(k \in 1..(p - 1))
    BY <1>4
  <1>6. k = p
    BY <1>1, <1>3, <1>5
  <1>7. QED
    BY <1>6 DEF k, one

\* None of a token.
LEMMA NoToken ==
    ASSUME NEW text \in Text, NEW x \in Tokens,
           \A i \in 1..Len(text) : text[i] # x
    PROVE  IndexOf(text, <<x>>) = 0
  <1> DEFINE one == <<x>>
             k == IndexOf(text, one)
  <1>1. k # 0 => OccursAt(text, one, k)
    <2>1. one \in Text /\ one # <<>>
      BY TokenFacts
    <2> HIDE DEF one
    <2>2. QED
      BY <2>1, IndexFacts
  <1>2. \A i : OccursAt(text, one, i) <=> i \in 1..Len(text) /\ text[i] = x
    BY TokenOccurs
  <1> HIDE DEF one, k
  <1>3. k = 0
    BY <1>1, <1>2
  <1>4. QED
    BY <1>3 DEF k, one

\* What Parse makes of the text behind the anchor.
ReadRest(rest) ==
    LET end   == IndexOf(rest, <<"]">>)
        inner == SubSeq(rest, 1, end - 1)
        sep   == IndexOf(inner, <<":">>)
    IN  IF end = 0 \/ sep \in {0, 1, Len(inner)} THEN Unreadable
        ELSE [ok |-> TRUE, name |-> SubSeq(inner, 1, sep - 1),
              cohort |-> SubSeq(inner, sep + 1, Len(inner))]

\* Parse looks for the anchor, then reads on.
LEMMA ParseInTwo ==
    ASSUME NEW ns, NEW text
    PROVE  LET anchor == ns \o <<":">>
               start  == IndexOf(text, anchor) IN
           Parse(ns, text) =
               IF start = 0 THEN Unreadable
               ELSE ReadRest(SubSeq(text, start + Len(anchor), Len(text)))
  BY DEF Parse, ReadRest

\* Name and cohort are read back: the name ends at the first colon, the cohort at
\* the first bracket.
LEMMA ReadPair ==
    ASSUME NEW rest \in Text, NEW name \in Text, NEW cohort \in Text,
           name # <<>>, cohort # <<>>,
           \A i \in 1..Len(name) : name[i] # ":" /\ name[i] # "]",
           \A i \in 1..Len(cohort) : cohort[i] # "]",
           Len(rest) = Len(name) + Len(cohort) + 2,
           \A i \in 1..Len(name) : rest[i] = name[i],
           rest[Len(name) + 1] = ":",
           \A i \in 1..Len(cohort) : rest[Len(name) + 1 + i] = cohort[i],
           rest[Len(name) + Len(cohort) + 2] = "]"
    PROVE  ReadRest(rest) = [ok |-> TRUE, name |-> name, cohort |-> cohort]
  <1> DEFINE b == Len(name)  c == Len(cohort)
             inner == SubSeq(rest, 1, b + c + 1)
             first == SubSeq(inner, 1, b)
             second == SubSeq(inner, b + 2, b + c + 1)
  <1>1. b \in Nat \ {0} /\ c \in Nat \ {0}
    <2>1. \A t \in Text : Len(t) \in Nat /\ (t # <<>> => Len(t) # 0)
      BY EmptySeq DEF Text
    <2>2. QED
      BY <2>1
  <1>2. "]" \in Tokens /\ ":" \in Tokens /\ "]" # ":"
    BY DEF Tokens
  <1> HIDE DEF b, c
  <1>3. IndexOf(rest, <<"]">>) = b + c + 2
    <2>1. ASSUME NEW i \in 1..(b + c + 2 - 1) PROVE rest[i] # "]"
      <3>1. CASE i \in 1..b
        BY <3>1 DEF b, c
      <3>2. CASE i = b + 1
        BY <3>2, <1>2 DEF b, c
      <3>3. CASE i \notin 1..b /\ i # b + 1
        <4>1. i - (b + 1) \in 1..c /\ b + 1 + (i - (b + 1)) = i
          BY <1>1, <3>3
        <4>2. QED
          BY <4>1 DEF b, c
      <3>4. QED
        BY <3>1, <3>2, <3>3
    <2>2. b + c + 2 \in 1..Len(rest) /\ rest[b + c + 2] = "]"
      BY <1>1 DEF b, c
    <2> DEFINE p == b + c + 2
    <2>3. p \in 1..Len(rest) /\ rest[p] = "]" /\ \A i \in 1..(p - 1) : rest[i] # "]"
      BY <1>1, <2>1, <2>2
    <2> HIDE DEF p
    <2>4. IndexOf(rest, <<"]">>) = p
      BY <1>2, <2>3, FirstToken
    <2>5. QED
      BY <2>4 DEF p
  <1>4. /\ inner \in Text /\ Len(inner) = b + c + 1
        /\ \A k \in 1..(b + c + 1) : inner[k] = rest[k]
    <2>1. /\ inner \in Text
          /\ Len(inner) = IF 1 <= b + c + 1 THEN b + c + 1 - 1 + 1 ELSE 0
          /\ \A k \in 1..(b + c + 1 - 1 + 1) : inner[k] = rest[1 + k - 1]
      <3> DEFINE e == b + c + 1
      <3>1. 1 \in Nat \ {0} /\ e \in Nat /\ e <= Len(rest)
        BY <1>1 DEF b, c
      <3>2. inner = SubSeq(rest, 1, e)
        OBVIOUS
      <3> HIDE DEF e, inner
      <3>3. /\ inner \in Text
            /\ Len(inner) = IF 1 <= e THEN e - 1 + 1 ELSE 0
            /\ \A k \in 1..(e - 1 + 1) : inner[k] = rest[1 + k - 1]
        BY <3>1, <3>2, PartFacts
      <3>4. QED
        BY <1>1, <3>3 DEF e
    <2> HIDE DEF inner
    <2>2. Len(inner) = b + c + 1
      BY <1>1, <2>1
    <2>3. \A k \in 1..(b + c + 1) : k \in 1..(b + c + 1 - 1 + 1) /\ 1 + k - 1 = k
      BY <1>1
    <2>4. QED
      BY <2>1, <2>2, <2>3
  <1> HIDE DEF inner
  <1>5. IndexOf(inner, <<":">>) = b + 1
    <2>1. ASSUME NEW i \in 1..(b + 1 - 1) PROVE inner[i] # ":"
      <3>1. i \in 1..b /\ i \in 1..(b + c + 1)
        BY <1>1
      <3>2. QED
        BY <1>4, <3>1 DEF b
    <2>2. b + 1 \in 1..Len(inner) /\ b + 1 \in 1..(b + c + 1)
      BY <1>1, <1>4
    <2>3. inner[b + 1] = ":"
      BY <1>4, <2>2 DEF b
    <2> DEFINE p == b + 1
    <2>4. p \in 1..Len(inner) /\ inner[p] = ":" /\ \A i \in 1..(p - 1) : inner[i] # ":"
      BY <1>1, <2>1, <2>2, <2>3
    <2> HIDE DEF p
    <2>5. IndexOf(inner, <<":">>) = p
      BY <1>2, <1>4, <2>4, FirstToken
    <2>6. QED
      BY <2>5 DEF p
  <1>6. first = name
    <2>1. 1 \in Nat \ {0} /\ b \in Nat /\ b <= Len(inner)
      BY <1>1, <1>4
    <2>2. /\ first \in Text /\ Len(first) = IF 1 <= b THEN b - 1 + 1 ELSE 0
          /\ \A k \in 1..(b - 1 + 1) : first[k] = inner[1 + k - 1]
      BY <1>4, <2>1, PartFacts
    <2> HIDE DEF first
    <2>3. Len(first) = b
      BY <1>1, <2>2
    <2>4. ASSUME NEW k \in 1..b PROVE first[k] = name[k]
      <3>1. k \in 1..(b - 1 + 1) /\ 1 + k - 1 = k /\ k \in 1..(b + c + 1)
        BY <1>1
      <3>2. QED
        BY <1>4, <2>2, <3>1 DEF b
    <2>5. QED
      BY <2>2, <2>3, <2>4, SameText DEF b
  <1>7. second = cohort
    <2>1. b + 2 \in Nat \ {0} /\ b + c + 1 \in Nat /\ b + c + 1 <= Len(inner)
      BY <1>1, <1>4
    <2>2. /\ second \in Text
          /\ Len(second) = IF b + 2 <= b + c + 1 THEN b + c + 1 - (b + 2) + 1 ELSE 0
          /\ \A k \in 1..(b + c + 1 - (b + 2) + 1) : second[k] = inner[b + 2 + k - 1]
      <3> DEFINE i == b + 2  e == b + c + 1
      <3>1. i \in Nat \ {0} /\ e \in Nat /\ e <= Len(inner) /\ second = SubSeq(inner, i, e)
        BY <2>1
      <3> HIDE DEF i, e, second
      <3>2. /\ second \in Text
            /\ Len(second) = IF i <= e THEN e - i + 1 ELSE 0
            /\ \A k \in 1..(e - i + 1) : second[k] = inner[i + k - 1]
        BY <1>4, <3>1, PartFacts
      <3>3. QED
        BY <1>1, <3>2 DEF i, e
    <2> HIDE DEF second
    <2>3. Len(second) = c
      BY <1>1, <2>2
    <2>4. ASSUME NEW k \in 1..c PROVE second[k] = cohort[k]
      <3>1. /\ k \in 1..(b + c + 1 - (b + 2) + 1) /\ b + 2 + k - 1 = b + 1 + k
            /\ b + 1 + k \in 1..(b + c + 1)
        BY <1>1
      <3>2. second[k] = inner[b + 1 + k] /\ inner[b + 1 + k] = rest[b + 1 + k]
        BY <1>4, <2>2, <3>1
      <3>3. QED
        BY <3>2 DEF b, c
    <2>5. QED
      BY <2>2, <2>3, <2>4, SameText DEF c
  <1> HIDE DEF first, second
  <1>8. /\ b + c + 2 - 1 = b + c + 1 /\ b + c + 2 # 0
        /\ b + 1 - 1 = b /\ (b + 1) + 1 = b + 2
        /\ b + 1 # 0 /\ b + 1 # 1 /\ b + 1 # b + c + 1
    BY <1>1
  <1> DEFINE end == IndexOf(rest, <<"]">>)
             cut == SubSeq(rest, 1, end - 1)
             sep == IndexOf(cut, <<":">>)
  <1>9. ReadRest(rest) =
          IF end = 0 \/ sep \in {0, 1, Len(cut)} THEN Unreadable
          ELSE [ok |-> TRUE, name |-> SubSeq(cut, 1, sep - 1),
                cohort |-> SubSeq(cut, sep + 1, Len(cut))]
    BY Zenon DEF ReadRest
  <1>10. end = b + c + 2
    BY <1>3
  <1> HIDE DEF end
  <1>11. cut = inner
    <2>1. end - 1 = b + c + 1
      BY <1>1, <1>10
    <2>2. QED
      BY <2>1, Zenon DEF inner
  <1> HIDE DEF cut
  <1>12. sep = b + 1 /\ Len(cut) = b + c + 1
    BY <1>4, <1>5, <1>11
  <1> HIDE DEF sep
  <1>13. ReadRest(rest) = [ok |-> TRUE, name |-> SubSeq(inner, 1, b),
                           cohort |-> SubSeq(inner, b + 2, b + c + 1)]
    BY <1>1, <1>8, <1>9, <1>10, <1>11, <1>12
  <1>14. QED
    BY <1>6, <1>7, <1>13 DEF first, second

\* A tag is read back by its own namespace.
LEMMA ParseFormat ==
    ASSUME NEW ns \in Text, NEW name \in Text, NEW cohort \in Text,
           name # <<>>, cohort # <<>>,
           \A i \in 1..Len(name) : name[i] # ":" /\ name[i] # "]",
           \A i \in 1..Len(cohort) : cohort[i] # "]"
    PROVE  Parse(ns, Format(ns, name, cohort))
             = [ok |-> TRUE, name |-> name, cohort |-> cohort]
  <1> DEFINE text == Format(ns, name, cohort)
             anchor == ns \o <<":">>
             start == IndexOf(text, anchor)
             n == Len(ns)  b == Len(name)  c == Len(cohort)
             i0 == n + 3
             rest == SubSeq(text, i0, Len(text))
  <1>1. /\ text \in Text /\ Len(text) = n + b + c + 4
        /\ n \in Nat /\ b \in Nat /\ c \in Nat
        /\ \A i \in 1..b : text[n + 2 + i] = name[i]
        /\ text[n + b + 3] = ":"
        /\ \A i \in 1..c : text[n + b + 3 + i] = cohort[i]
        /\ text[n + b + c + 4] = "]"
    BY TagFacts
  <1>2. start = 2 /\ Len(anchor) = n + 1
    BY AnchorFacts
  <1>3. Parse(ns, text) = IF start = 0 THEN Unreadable
                          ELSE ReadRest(SubSeq(text, start + Len(anchor), Len(text)))
    BY ParseInTwo, Zenon
  <1> HIDE DEF text, anchor, start, n, b, c, i0
  <1>4. start + Len(anchor) = i0 /\ start # 0
    BY <1>1, <1>2 DEF i0
  <1>5. Parse(ns, text) = ReadRest(rest)
    BY <1>3, <1>4
  <1>6. /\ rest \in Text /\ Len(rest) = b + c + 2
        /\ \A k \in 1..(b + c + 2) : rest[k] = text[n + 2 + k]
    <2> DEFINE e == Len(text)
    <2>1. i0 \in Nat \ {0} /\ e \in Nat /\ e <= Len(text)
      BY <1>1 DEF i0
    <2>2. rest = SubSeq(text, i0, e)
      OBVIOUS
    <2> HIDE DEF rest, e
    <2>3. /\ rest \in Text
          /\ Len(rest) = IF i0 <= e THEN e - i0 + 1 ELSE 0
          /\ \A k \in 1..(e - i0 + 1) : rest[k] = text[i0 + k - 1]
      BY <1>1, <2>1, <2>2, PartFacts
    <2>4. i0 <= e /\ e - i0 + 1 = b + c + 2
      BY <1>1 DEF e, i0
    <2>5. Len(rest) = b + c + 2
      BY <2>3, <2>4
    <2>6. ASSUME NEW k \in 1..(b + c + 2) PROVE rest[k] = text[n + 2 + k]
      <3>1. k \in 1..(e - i0 + 1) /\ i0 + k - 1 = n + 2 + k
        BY <1>1, <2>4 DEF i0
      <3>2. QED
        BY <2>3, <3>1
    <2>7. QED
      BY <2>3, <2>5, <2>6
  <1> HIDE DEF rest
  <1>7. \A k \in 1..b : rest[k] = name[k]
    <2>1. \A k \in 1..b : k \in 1..(b + c + 2)
      BY <1>1
    <2>2. QED
      BY <1>1, <1>6, <2>1
  <1>8. rest[b + 1] = ":"
    <2>1. b + 1 \in 1..(b + c + 2) /\ n + 2 + (b + 1) = n + b + 3
      BY <1>1
    <2>2. QED
      BY <1>1, <1>6, <2>1
  <1>9. \A k \in 1..c : rest[b + 1 + k] = cohort[k]
    <2>1. TAKE k \in 1..c
    <2>2. b + 1 + k \in 1..(b + c + 2) /\ n + 2 + (b + 1 + k) = n + b + 3 + k
      BY <1>1
    <2>3. QED
      BY <1>1, <1>6, <2>2
  <1>10. rest[b + c + 2] = "]"
    <2>1. b + c + 2 \in 1..(b + c + 2) /\ n + 2 + (b + c + 2) = n + b + c + 4
      BY <1>1
    <2>2. QED
      BY <1>1, <1>6, <2>1
  <1>11. ReadRest(rest) = [ok |-> TRUE, name |-> name, cohort |-> cohort]
    BY <1>6, <1>7, <1>8, <1>9, <1>10, ReadPair DEF b, c
  <1>12. QED
    BY <1>5, <1>11 DEF text

\* A text whose last elements are another's ends with it.
LEMMA SuffixFacts ==
    ASSUME NEW s \in Text, NEW t \in Text, Len(s) <= Len(t),
           \A k \in 1..Len(s) : s[k] = t[Len(t) - Len(s) + k]
    PROVE  IsSuffix(s, t)
  <1> DEFINE rs == Reverse(s)  rt == Reverse(t)
             m == Len(s)  n == Len(t)
             p == SubSeq(rs, 1, m)  q == SubSeq(rt, 1, m)
  <1>1. m \in Nat /\ n \in Nat /\ m <= n
        /\ (\A k \in 1..m : s[k] \in Tokens) /\ (\A k \in 1..n : t[k] \in Tokens)
    BY DEF Text
  <1>2. rs = [i \in 1..m |-> s[(m - i) + 1]] /\ rt = [i \in 1..n |-> t[(n - i) + 1]]
    BY DEF Reverse
  <1> HIDE DEF m, n, rs, rt
  <1>3. /\ rs \in Text /\ Len(rs) = m /\ rt \in Text /\ Len(rt) = n
    <2>1. \A i \in 1..m : (m - i) + 1 \in 1..m
      BY <1>1
    <2>2. \A i \in 1..n : (n - i) + 1 \in 1..n
      BY <1>1
    <2>3. rs \in [1..m -> Tokens] /\ rt \in [1..n -> Tokens]
      BY <1>1, <1>2, <2>1, <2>2
    <2>4. QED
      BY <1>1, <2>3 DEF Text
  <1>4. /\ p \in Text /\ Len(p) = m /\ \A k \in 1..m : p[k] = rs[k]
    <2>1. /\ p \in Text /\ Len(p) = IF 1 <= m THEN m - 1 + 1 ELSE 0
          /\ \A k \in 1..(m - 1 + 1) : p[k] = rs[1 + k - 1]
      <3>1. 1 \in Nat \ {0} /\ m <= Len(rs)
        BY <1>1, <1>3
      <3>2. QED
        BY <1>1, <1>3, <3>1, PartFacts
    <2> HIDE DEF p
    <2>2. \A k \in 1..m : k \in 1..(m - 1 + 1) /\ 1 + k - 1 = k
      BY <1>1
    <2>3. Len(p) = m
      BY <1>1, <2>1
    <2>4. QED
      BY <2>1, <2>2, <2>3
  <1>5. /\ q \in Text /\ Len(q) = m /\ \A k \in 1..m : q[k] = rt[k]
    <2>1. /\ q \in Text /\ Len(q) = IF 1 <= m THEN m - 1 + 1 ELSE 0
          /\ \A k \in 1..(m - 1 + 1) : q[k] = rt[1 + k - 1]
      <3>1. 1 \in Nat \ {0} /\ m <= Len(rt)
        BY <1>1, <1>3
      <3>2. QED
        BY <1>1, <1>3, <3>1, PartFacts
    <2> HIDE DEF q
    <2>2. \A k \in 1..m : k \in 1..(m - 1 + 1) /\ 1 + k - 1 = k
      BY <1>1
    <2>3. Len(q) = m
      BY <1>1, <2>1
    <2>4. QED
      BY <2>1, <2>2, <2>3
  <1> HIDE DEF p, q
  <1>6. ASSUME NEW k \in 1..m PROVE p[k] = q[k]
    <2>1. /\ (m - k) + 1 \in 1..m /\ k \in 1..n
          /\ n - m + ((m - k) + 1) = (n - k) + 1
      BY <1>1
    <2>2. p[k] = s[(m - k) + 1] /\ q[k] = t[(n - k) + 1]
      BY <1>2, <1>4, <1>5, <2>1
    <2>3. s[(m - k) + 1] = t[n - m + ((m - k) + 1)]
      BY <2>1 DEF m, n
    <2>4. QED
      BY <2>1, <2>2, <2>3
  <1>7. p = q
    BY <1>4, <1>5, <1>6, SameText
  <1>8. IsPrefix(rs, rt)
    <2>1. Len(rs) <= Len(rt)
      BY <1>1, <1>3
    <2>2. SubSeq(rs, 1, Len(rs)) = SubSeq(rt, 1, Len(rs))
      BY <1>3, <1>7 DEF p, q
    <2>3. QED
      BY <2>1, <2>2 DEF IsPrefix
  <1>9. QED
    BY <1>8 DEF IsSuffix, rs, rt

\* A tag without further colons says nothing to another namespace: whatever that
\* namespace finds ends at one of the two colons, and what is then left is either
\* all of another namespace or the cohort alone.
LEMMA ForeignParse ==
    ASSUME NEW ns \in Text, NEW name \in Text, NEW cohort \in Text, NEW other \in Text,
           \A i \in 1..Len(ns) : ns[i] # ":",
           \A i \in 1..Len(name) : name[i] # ":",
           \A i \in 1..Len(cohort) : cohort[i] # ":" /\ cohort[i] # "]",
           ~IsSuffix(other, <<"[">> \o ns)
    PROVE  Parse(other, Format(ns, name, cohort)) = Unreadable
  <1> DEFINE text == Format(ns, name, cohort)
             anchor == other \o <<":">>
             start == IndexOf(text, anchor)
             a == Len(ns)  b == Len(name)  c == Len(cohort)
             d == Len(other)
             whole == <<"[">> \o ns
             q == start + d
             i0 == q + 1
             rest == SubSeq(text, i0, Len(text))
  <1>1. /\ text \in Text /\ Len(text) = a + b + c + 4
        /\ a \in Nat /\ b \in Nat /\ c \in Nat
        /\ text[1] = "["
        /\ \A i \in 1..a : text[i + 1] = ns[i]
        /\ text[a + 2] = ":"
        /\ \A i \in 1..b : text[a + 2 + i] = name[i]
        /\ text[a + b + 3] = ":"
        /\ \A i \in 1..c : text[a + b + 3 + i] = cohort[i]
        /\ text[a + b + c + 4] = "]"
    <2>1. /\ text \in Text /\ Len(text) = a + b + c + 4
          /\ a \in Nat /\ b \in Nat /\ c \in Nat
          /\ text[1] = "["
          /\ \A i \in 1..a : text[i + 1] = ns[i]
          /\ text[a + 2] = ":"
      BY TagFacts
    <2>2. /\ \A i \in 1..b : text[a + 2 + i] = name[i]
          /\ text[a + b + 3] = ":"
      BY TagFacts
    <2>3. /\ \A i \in 1..c : text[a + b + 3 + i] = cohort[i]
          /\ text[a + b + c + 4] = "]"
      BY TagFacts
    <2> HIDE DEF text, a, b, c
    <2>4. QED
      BY <2>1, <2>2, <2>3
  <1>2. "[" \in Tokens /\ ":" \in Tokens /\ "]" \in Tokens
        /\ "[" # ":" /\ "]" # ":"
    BY DEF Tokens
  <1>3. /\ anchor \in Text /\ Len(anchor) = d + 1 /\ d \in Nat
        /\ \A i \in 1..d : anchor[i] = other[i]
        /\ anchor[d + 1] = ":" /\ anchor # <<>>
    <2>1. /\ <<":">> \in Text /\ Len(<<":">>) = 1 /\ <<":">>[1] = ":"
      BY <1>2, TokenFacts
    <2>2. /\ anchor \in Text /\ Len(anchor) = d + Len(<<":">>) /\ d \in Nat
          /\ \A i \in 1..d : anchor[i] = other[i]
          /\ \A i \in 1..Len(<<":">>) : anchor[d + i] = <<":">>[i]
      BY <2>1, AfterFacts
    <2> HIDE DEF anchor
    <2>3. anchor[d + 1] = ":" /\ Len(anchor) = d + 1
      BY <2>1, <2>2
    <2>4. Len(<<>>) = 0
      OBVIOUS
    <2>5. anchor # <<>>
      BY <2>2, <2>3, <2>4
    <2>6. QED
      BY <2>2, <2>3, <2>5
  <1>4. /\ whole \in Text /\ Len(whole) = a + 1
        /\ whole[1] = "[" /\ \A i \in 1..a : whole[1 + i] = ns[i]
    <2>1. /\ <<"[">> \in Text /\ Len(<<"[">>) = 1 /\ <<"[">>[1] = "["
      BY <1>2, TokenFacts
    <2>2. /\ whole \in Text /\ Len(whole) = Len(<<"[">>) + a
          /\ \A i \in 1..Len(<<"[">>) : whole[i] = <<"[">>[i]
          /\ \A i \in 1..a : whole[Len(<<"[">>) + i] = ns[i]
      BY <2>1, AfterFacts
    <2> HIDE DEF whole
    <2>3. QED
      BY <1>1, <2>1, <2>2
  <1>5. Parse(other, text) = IF start = 0 THEN Unreadable
                             ELSE ReadRest(SubSeq(text, start + Len(anchor), Len(text)))
    BY ParseInTwo, Zenon
  <1>6. ~IsSuffix(other, whole)
    OBVIOUS
  <1>7. start \in Nat /\ (start # 0 => OccursAt(text, anchor, start))
    <2> HIDE DEF text, anchor
    <2>1. QED
      BY <1>1, <1>3, IndexFacts
  <1> HIDE DEF text, anchor, start, a, b, c, d, whole, q
  <1>8. CASE start = 0
    BY <1>5, <1>8 DEF text
  <1>9. CASE start # 0
    <2>1. /\ start \in Nat \ {0} /\ start + (d + 1) <= a + b + c + 4 + 1
          /\ \A k \in 1..(d + 1) : text[start + k - 1] = anchor[k]
      BY <1>1, <1>3, <1>7, <1>9 DEF OccursAt
    <2>2. q \in 1..(a + b + c + 4) /\ q + 1 = start + Len(anchor)
      BY <1>1, <1>3, <2>1 DEF q
    <2>3. text[q] = ":"
      <3>1. d + 1 \in 1..(d + 1) /\ start + (d + 1) - 1 = q
        BY <1>3, <2>1 DEF q
      <3>2. QED
        BY <1>3, <2>1, <3>1
    <2>4. q = a + 2 \/ q = a + b + 3
      <3>1. CASE q = 1
        BY <1>1, <1>2, <2>3, <3>1
      <3>2. CASE q \in 2..(a + 1)
        <4>1. q - 1 \in 1..a /\ (q - 1) + 1 = q
          BY <1>1, <3>2
        <4>2. text[q] = ns[q - 1]
          BY <1>1, <4>1
        <4>3. QED
          BY <2>3, <4>1, <4>2 DEF a
      <3>3. CASE q \in (a + 3)..(a + b + 2)
        <4>1. q - (a + 2) \in 1..b /\ a + 2 + (q - (a + 2)) = q
          BY <1>1, <3>3
        <4>2. text[q] = name[q - (a + 2)]
          BY <1>1, <4>1
        <4>3. QED
          BY <2>3, <4>1, <4>2 DEF b
      <3>4. CASE q \in (a + b + 4)..(a + b + c + 3)
        <4>1. q - (a + b + 3) \in 1..c /\ a + b + 3 + (q - (a + b + 3)) = q
          BY <1>1, <3>4
        <4>2. text[q] = cohort[q - (a + b + 3)]
          BY <1>1, <4>1
        <4>3. QED
          BY <2>3, <4>1, <4>2 DEF c
      <3>5. CASE q = a + b + c + 4
        BY <1>1, <1>2, <2>3, <3>5
      <3>6. QED
        BY <1>1, <2>2, <3>1, <3>2, <3>3, <3>4, <3>5
    <2>5. CASE q = a + 2
      <3>1. d <= a + 1 /\ start = (a + 2) - d
        BY <1>1, <1>3, <2>1, <2>5 DEF q
      <3>2. \A j \in 1..(a + 1) : text[j] = whole[j]
        <4>1. TAKE j \in 1..(a + 1)
        <4>2. CASE j = 1
          BY <1>1, <1>4, <4>2
        <4>3. CASE j # 1
          <5>1. j - 1 \in 1..a /\ (j - 1) + 1 = j /\ 1 + (j - 1) = j
            BY <1>1, <4>3
          <5>2. text[(j - 1) + 1] = ns[j - 1] /\ whole[1 + (j - 1)] = ns[j - 1]
            BY <1>1, <1>4, <5>1
          <5>3. QED
            BY <5>1, <5>2
        <4>4. QED
          BY <4>2, <4>3
      <3>3. ASSUME NEW k \in 1..d PROVE other[k] = whole[(a + 1) - d + k]
        <4>1. /\ k \in 1..(d + 1) /\ start + k - 1 = (a + 1) - d + k
              /\ (a + 1) - d + k \in 1..(a + 1)
          BY <1>1, <1>3, <3>1
        <4>2. text[start + k - 1] = anchor[k] /\ anchor[k] = other[k]
          BY <1>3, <2>1, <4>1
        <4>3. QED
          BY <3>2, <4>1, <4>2
      <3>4. IsSuffix(other, whole)
        <4>1. Len(other) <= Len(whole)
          BY <1>4, <3>1 DEF d
        <4>2. \A k \in 1..Len(other) : other[k] = whole[Len(whole) - Len(other) + k]
          BY <1>4, <3>3 DEF d
        <4>3. QED
          BY <1>4, <4>1, <4>2, SuffixFacts
      <3>5. QED
        BY <1>6, <3>4
    <2>6. CASE q = a + b + 3
      <3>1. /\ rest \in Text /\ Len(rest) = c + 1
            /\ \A k \in 1..(c + 1) : rest[k] = text[a + b + 3 + k]
        <4> DEFINE e == Len(text)
        <4>1. i0 \in Nat \ {0} /\ e \in Nat /\ e <= Len(text) /\ i0 = a + b + 4
          BY <1>1, <2>6
        <4>2. rest = SubSeq(text, i0, e)
          OBVIOUS
        <4>3. i0 <= e /\ e - i0 + 1 = c + 1
          BY <1>1, <4>1
        <4> HIDE DEF rest, e, i0
        <4>4. /\ rest \in Text
              /\ Len(rest) = IF i0 <= e THEN e - i0 + 1 ELSE 0
              /\ \A k \in 1..(e - i0 + 1) : rest[k] = text[i0 + k - 1]
          BY <1>1, <4>1, <4>2, PartFacts
        <4>5. Len(rest) = c + 1
          BY <4>3, <4>4
        <4>6. ASSUME NEW k \in 1..(c + 1) PROVE rest[k] = text[a + b + 3 + k]
          <5>1. k \in 1..(e - i0 + 1) /\ i0 + k - 1 = a + b + 3 + k
            BY <1>1, <4>1, <4>3
          <5>2. QED
            BY <4>4, <5>1
        <4>7. QED
          BY <4>4, <4>5, <4>6
      <3>2. Parse(other, text) = ReadRest(rest)
        BY <1>5, <1>9, <2>2
      <3> HIDE DEF rest, i0
      <3> DEFINE end == IndexOf(rest, <<"]">>)
                 inner == SubSeq(rest, 1, end - 1)
                 sep == IndexOf(inner, <<":">>)
      <3>3. ReadRest(rest) =
              IF end = 0 \/ sep \in {0, 1, Len(inner)} THEN Unreadable
              ELSE [ok |-> TRUE, name |-> SubSeq(inner, 1, sep - 1),
                    cohort |-> SubSeq(inner, sep + 1, Len(inner))]
        BY Zenon DEF ReadRest
      <3>4. end = c + 1
        <4> DEFINE p == c + 1
        <4>1. p \in 1..Len(rest)
          BY <1>1, <3>1
        <4>2. rest[p] = "]"
          <5>1. p \in 1..(c + 1) /\ a + b + 3 + p = a + b + c + 4
            BY <1>1
          <5>2. QED
            BY <1>1, <3>1, <5>1
        <4>3. ASSUME NEW i \in 1..(p - 1) PROVE rest[i] # "]"
          <5>1. i \in 1..c /\ i \in 1..(c + 1)
            BY <1>1
          <5>2. rest[i] = cohort[i]
            BY <1>1, <3>1, <5>1
          <5>3. QED
            BY <5>1, <5>2 DEF c
        <4> HIDE DEF p
        <4>4. IndexOf(rest, <<"]">>) = p
          BY <1>2, <3>1, <4>1, <4>2, <4>3, FirstToken
        <4>5. QED
          BY <4>4 DEF p
      <3> HIDE DEF end
      <3>5. /\ inner \in Text /\ Len(inner) = c
            /\ \A k \in 1..c : inner[k] = rest[k]
        <4> DEFINE e == end - 1
        <4>1. e = c /\ e \in Nat /\ e <= Len(rest) /\ 1 \in Nat \ {0}
          BY <1>1, <3>1, <3>4
        <4>2. inner = SubSeq(rest, 1, e)
          OBVIOUS
        <4> HIDE DEF e, inner
        <4>3. /\ inner \in Text
              /\ Len(inner) = IF 1 <= e THEN e - 1 + 1 ELSE 0
              /\ \A k \in 1..(e - 1 + 1) : inner[k] = rest[1 + k - 1]
          BY <3>1, <4>1, <4>2, PartFacts
        <4>4. Len(inner) = c
          BY <1>1, <4>1, <4>3
        <4>5. \A k \in 1..c : k \in 1..(e - 1 + 1) /\ 1 + k - 1 = k
          BY <1>1, <4>1
        <4>6. QED
          BY <4>3, <4>4, <4>5
      <3> HIDE DEF inner
      <3>6. ASSUME NEW k \in 1..Len(inner) PROVE inner[k] # ":"
        <4>1. k \in 1..c /\ k \in 1..(c + 1)
          BY <1>1, <3>5
        <4>2. inner[k] = cohort[k]
          BY <1>1, <3>1, <3>5, <4>1
        <4>3. QED
          BY <4>1, <4>2 DEF c
      <3>7. sep = 0
        BY <1>2, <3>5, <3>6, NoToken
      <3> HIDE DEF sep
      <3>8. QED
        BY <3>2, <3>3, <3>7 DEF text
    <2>7. QED
      BY <2>4, <2>5, <2>6
  <1>10. QED
    BY <1>8, <1>9

=============================================================================
