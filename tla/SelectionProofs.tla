--------------------------- MODULE SelectionProofs ---------------------------
(***************************************************************************)
(* Invariants of Selection, and that it implements Draft, for any files,   *)
(* snapshots and probes, and for every orderer that returns each probe     *)
(* once.                                                                   *)
(***************************************************************************)
EXTENDS Selection, FiniteSetTheorems, TLAPS

-----------------------------------------------------------------------------
(* Data.                                                                    *)

\* Positions in the lists of a loaded file.
MsmPositions(c) == 1..Len(c.measurements)
CohortPositions(c, n) == 1..Len(c.measurements[n].cohorts)

\* A function on the positions of a sequence is a sequence of that length.
LEMMA SameLength ==
    ASSUME NEW T, NEW s \in Seq(T), NEW t, t = [k \in DOMAIN s |-> t[k]]
    PROVE  /\ Len(t) \in Nat
           /\ Len(t) = Len(s)
           /\ DOMAIN t = 1..Len(t)
           /\ DOMAIN s = 1..Len(s)
<1>1. DOMAIN s = 1..Len(s) /\ Len(s) \in Nat
  OBVIOUS
<1>2. t \in [1..Len(s) -> {t[k] : k \in DOMAIN s}]
  BY <1>1
<1>3. t \in Seq({t[k] : k \in DOMAIN s})
  BY <1>1, <1>2
<1> QED
  BY <1>1, <1>2, <1>3

\* What Load makes of a typed and valid file.
LEMMA CohortFacts ==
    ASSUME NEW f \in Files,
           NEW c, c = ApplyDefaults(f), Valid(c),
           NEW n \in MsmPositions(c)
    PROVE  /\ Len(c.measurements) \in Nat
           /\ Len(c.measurements[n].cohorts) \in Nat \ {0}
           /\ \A k \in CohortPositions(c, n) :
                LET cohort == CohortAt(c, n, k) IN
                /\ cohort.count \in Nat \ {0}
                /\ cohort.include \in Seq(Nat)
                /\ cohort.exclude \in SUBSET Nat
                /\ cohort.cfg \in Cfgs
                /\ cohort.cfg.resolution \in 0..15
                /\ cohort.perCell \in Nat \ {0}
                /\ cohort.interval \in Nat \ {0}
                /\ cohort.name \in Seq(STRING) /\ cohort.name # NoName
           /\ c.measurements[n].type \in {"dns", "ping", "tls", "traceroute", "http"}
           /\ c.measurements[n].name \in Seq(STRING)
           /\ c.measurements[n].name # NoName
           /\ c.ns \in Seq(STRING)
           /\ \A k \in MsmPositions(c) :
                c.measurements[k].name = c.measurements[n].name => k = n
           /\ \A k, l \in CohortPositions(c, n) :
                CohortAt(c, n, k).name = CohortAt(c, n, l).name => k = l
<1> DEFINE fm == f.measurements
<1>1. f \in FileSet({f.presets}) /\ \A p \in DOMAIN f.presets : f.presets[p] \in Cfgs
  BY SelectionAssumption
<1>2. fm \in Seq(MeasurementSet)
  BY <1>1 DEF FileSet
<1>3. c.measurements =
        [k \in DOMAIN fm |->
            [fm[k] EXCEPT
                !.af = IF @ = 0 THEN 4 ELSE @,
                !.cohorts = [j_ \in DOMAIN @ |-> WithPreset(@[j_], f.presets)]]]
  BY <1>1 DEF ApplyDefaults, FileSet
<1>4. Len(c.measurements) \in Nat /\ DOMAIN c.measurements = 1..Len(c.measurements)
      /\ Len(c.measurements) = Len(fm) /\ DOMAIN fm = 1..Len(fm)
  <2>1. c.measurements = [k \in DOMAIN fm |-> c.measurements[k]]
    BY <1>3, Zenon
  <2> QED
    BY <1>2, <2>1, SameLength, Zenon
<1>5. n \in DOMAIN fm /\ n \in DOMAIN c.measurements
  BY <1>4 DEF MsmPositions
<1> DEFINE old == fm[n].cohorts
           new == c.measurements[n].cohorts
<1>6. fm[n] \in MeasurementSet /\ old \in Seq(CohortSet)
  <2>1. fm[n] \in MeasurementSet
    BY <1>2, <1>5
  <2> QED
    BY <2>1 DEF MeasurementSet
<1>7. new = [k \in DOMAIN old |-> WithPreset(old[k], f.presets)]
  BY <1>3, <1>5, <1>6, ZenonT(40) DEF MeasurementSet
<1>8. Len(new) \in Nat /\ Len(new) = Len(old) /\ DOMAIN new = 1..Len(new)
  <2>1. new = [k \in DOMAIN old |-> new[k]]
    BY <1>7, Zenon
  <2> QED
    BY <1>6, <2>1, SameLength, Zenon
<1>9. ValidMeasurement(c.measurements[n])
  BY <1>5 DEF Valid
<1>10. new # <<>> /\ \A k \in DOMAIN new : ValidCohort(new[k])
  BY <1>9 DEF ValidMeasurement
<1>11. Len(new) # 0
  BY <1>7, <1>8, <1>10
<1>12. ASSUME NEW k \in CohortPositions(c, n)
       PROVE  /\ new[k].count \in Nat \ {0}
              /\ new[k].include \in Seq(Nat)
              /\ new[k].exclude \in SUBSET Nat
              /\ new[k].cfg \in Cfgs
              /\ new[k].cfg.resolution \in 0..15
              /\ new[k].perCell \in Nat \ {0}
              /\ new[k].interval \in Nat \ {0}
              /\ new[k].name \in Seq(STRING)
  <2>1. k \in DOMAIN new /\ k \in DOMAIN old
    BY <1>7, <1>8 DEF CohortPositions
  <2>2. old[k] \in CohortSet
    BY <1>6, <2>1
  <2>3. new[k] = WithPreset(old[k], f.presets)
    BY <1>7, <2>1
  <2>4. /\ new[k].count = old[k].count
        /\ new[k].include = old[k].include
        /\ new[k].exclude = old[k].exclude
        /\ new[k].perCell = old[k].perCell
        /\ new[k].interval = old[k].interval
        /\ new[k].name = old[k].name
        /\ new[k].cfg \in Cfgs
    BY <1>1, <2>2, <2>3 DEF WithPreset, CohortSet
  <2>5. ValidCohort(new[k])
    BY <1>10, <2>1
  <2>6. /\ old[k].count \in Int /\ old[k].perCell \in Int /\ old[k].interval \in Int
        /\ old[k].include \in Seq(Nat)
        /\ old[k].exclude \in SUBSET Nat
        /\ old[k].name \in Seq(STRING)
    BY <2>2 DEF CohortSet
  <2>7. /\ new[k].count > 0 /\ new[k].perCell > 0 /\ new[k].interval > 0
        /\ new[k].cfg.resolution \in 0..15
    BY <2>5 DEF ValidCohort
  <2>8. /\ new[k].count \in Int /\ new[k].perCell \in Int /\ new[k].interval \in Int
    BY <2>4, <2>6
  <2>9. /\ new[k].count \in Nat \ {0} /\ new[k].perCell \in Nat \ {0}
        /\ new[k].interval \in Nat \ {0}
    BY <2>7, <2>8
  <2> QED
    BY <2>4, <2>6, <2>7, <2>9
<1>13. /\ c.measurements[n].type \in {"dns", "ping", "tls", "traceroute", "http"}
       /\ c.measurements[n].name \in Seq(STRING)
       /\ c.ns \in Seq(STRING)
  <2>1. c.measurements[n].name = fm[n].name
    BY <1>3, <1>5, <1>6 DEF MeasurementSet
  <2>2. c.ns = f.ns
    BY <1>1 DEF ApplyDefaults, FileSet
  <2> QED
    BY <1>1, <1>6, <1>9, <2>1, <2>2 DEF MeasurementSet, FileSet, ValidMeasurement
<1>14. /\ c.measurements[n].name # NoName
       /\ \A k \in MsmPositions(c) :
            c.measurements[k].name = c.measurements[n].name => k = n
  <2>1. Named(c.measurements)
    BY DEF Valid
  <2> QED
    BY <1>4, <1>5, <2>1 DEF Named, MsmPositions
<1>15. /\ \A k \in CohortPositions(c, n) : CohortAt(c, n, k).name # NoName
       /\ \A k, l \in CohortPositions(c, n) :
            CohortAt(c, n, k).name = CohortAt(c, n, l).name => k = l
  <2>1. Named(new)
    BY <1>9 DEF ValidMeasurement
  <2> QED
    BY <1>8, <2>1 DEF Named, CohortPositions, CohortAt
<1> QED
  BY <1>4, <1>8, <1>11, <1>12, <1>13, <1>14, <1>15 DEF CohortAt

\* An order of S lists S, each probe once.
LEMMA OrderFacts ==
    ASSUME NEW S \in SUBSET Probes, NEW cfg \in Cfgs
    PROVE  /\ Orderer(S, cfg) \in Seq(S)
           /\ \A p \in S : \E i \in DOMAIN Orderer(S, cfg) : Orderer(S, cfg)[i] = p
           /\ \A i, k \in DOMAIN Orderer(S, cfg) :
                Orderer(S, cfg)[i] = Orderer(S, cfg)[k] => i = k
BY SelectionAssumption

\* Sets of probes are finite.
LEMMA ProbesFinite ==
    ASSUME NEW S \in SUBSET Probes
    PROVE  IsFiniteSet(S) /\ Cardinality(S) \in Nat
BY ProbesAssumption, FS_Subset, FS_CardinalityType

Earlier(S, i) == {k \in S : k < i}

\* The pins made by walking the list, until the slots or the list run out, are
\* the first that exist.
LEMMA PinsAreFirst ==
    ASSUME NEW n \in Nat, NEW present \in SUBSET (1..n),
           NEW count \in Nat, NEW at \in Nat,
           \/ Cardinality(Earlier(present, at)) = count
           \/ Cardinality(Earlier(present, at)) < count /\ at > n
    PROVE  \A i \in present : i < at <=> Cardinality(Earlier(present, i)) < count
<1> DEFINE made == Earlier(present, at)
<1> USE DEF Earlier
<1>2. IsFiniteSet(1..n)
  BY FS_Interval
<1>3. \A T \in SUBSET present : IsFiniteSet(T) /\ Cardinality(T) \in Nat
  <2> SUFFICES ASSUME NEW T \in SUBSET present
               PROVE  IsFiniteSet(T) /\ Cardinality(T) \in Nat
    OBVIOUS
  <2>1. T \in SUBSET (1..n)
    OBVIOUS
  <2> QED
    BY <1>2, <2>1, FS_Subset, FS_CardinalityType
<1> SUFFICES ASSUME NEW i \in present
             PROVE  i < at <=> Cardinality(Earlier(present, i)) < count
  OBVIOUS
<1> DEFINE before == Earlier(present, i)
<1>4. i \in Nat /\ present \subseteq Nat
  OBVIOUS
<1>5. /\ IsFiniteSet(before) /\ Cardinality(before) \in Nat
      /\ IsFiniteSet(made) /\ Cardinality(made) \in Nat
      /\ Cardinality(made) = count \/ Cardinality(made) < count
  BY <1>3
<1>6. ASSUME i < at
      PROVE  Cardinality(before) < count
  <2>1. i \in made /\ i \notin before
    BY <1>4, <1>6
  <2>2. ASSUME NEW k \in before PROVE k \in made
    <3>1. k \in present /\ k < i /\ k \in Nat
      BY <1>4
    <3>2. k < at
      BY <1>4, <1>6, <3>1
    <3> QED
      BY <3>1, <3>2
  <2>3. before \in SUBSET made
    BY <2>2
  <2>4. Cardinality(before) <= Cardinality(made) /\ Cardinality(before) # Cardinality(made)
    BY <1>5, <2>1, <2>3, FS_Subset
  <2> HIDE DEF before, made
  <2> QED
    BY <1>5, <2>4
<1>7. ASSUME ~(i < at)
      PROVE  ~(Cardinality(before) < count)
  <2>1. at <= n
    BY <1>7
  <2>2. Cardinality(made) = count
    BY <1>5, <2>1
  <2>3. made \in SUBSET before
    <3>1. ASSUME NEW k \in made PROVE k \in before
      <4>1. k \in present /\ k < at /\ k \in Nat
        BY <1>4
      <4>2. k < i
        BY <1>4, <1>7, <4>1
      <4> QED
        BY <4>1, <4>2
    <3> QED
      BY <3>1
  <2>4. Cardinality(made) <= Cardinality(before)
    BY <1>5, <2>3, FS_Subset
  <2> HIDE DEF before, made
  <2> QED
    BY <1>5, <2>2, <2>4
<1> QED
  BY <1>6, <1>7

-----------------------------------------------------------------------------
(* The inductive invariant.                                                 *)

Running == pc \in {"cohort", "pins", "fill"}

\* There is a cohort at hand, or nothing yet.
Loaded ==
    /\ Running => /\ config = ApplyDefaults(file)
                  /\ Valid(config)
                  /\ m \in MsmPositions(config)
                  /\ j \in CohortPositions(config, m)
    /\ pc = "load" => m = 1 /\ j = 1 /\ results = {} /\ taken = {}

\* What the cache holds was computed in this invocation.
CacheSound ==
    \A key \in DOMAIN orders :
        \E like \in Cfgs :
            OrderKey(like) = key /\ orders[key] = Orderer(pool, like)

\* Results are of earlier cohorts, and taken is what those of this measurement
\* have.
TakenSound ==
    Running => /\ \A r \in results : r.m < m \/ (r.m = m /\ r.j < j)
               /\ taken = D!TakenBy(results, m)

Present == {i \in DOMAIN Cohort.include : Cohort.include[i] \in pool}

Pinned == {Cohort.include[i] : i \in pins}

\* The counters of the cohort at hand agree with its slots.
SlotsSound ==
    pc \in {"pins", "fill"} =>
        /\ pins \subseteq Present
        /\ filled \subseteq pool
        /\ excluded = taken \cup Cohort.exclude \cup Pinned \cup filled
        /\ remaining = Cohort.count - Cardinality(pins) - Cardinality(filled)
        /\ \A cell \in Cells :
             occ[cell] = Cardinality(D!InCell(filled, cell, Cohort.cfg))

\* The first loop has given a slot to every pin before pos that exists.
Pinning ==
    pc = "pins" => filled = {} /\ pins = {i \in Present : i < pos}

\* Draft's condition on the candidate at position i of the order.
Decided(i) ==
    order[i] \in filled <=>
        /\ order[i] \notin D!Barred(Cohort, taken, pins)
        /\ D!Deserves(Cohort, order, i, Cohort.count - Cardinality(pins), filled)

\* Candidates the second loop has seen.
Seen == {i \in DOMAIN order : i < pos}

\* Draft's condition holds of every candidate seen, and the others have no slot.
Filling ==
    pc = "fill" =>
        /\ pins = D!FirstPins(Cohort)
        /\ \E like \in Cfgs : /\ OrderKey(like) = OrderKey(Cohort.cfg)
                              /\ order = Orderer(pool, like)
        /\ filled \subseteq {order[i] : i \in Seen}
        /\ \A i \in Seen : Decided(i)

IInv ==
    /\ TypeOK
    /\ Loaded
    /\ CacheSound
    /\ TakenSound
    /\ SlotsSound
    /\ Pinning
    /\ Filling
    /\ NoDoubleSelection

-----------------------------------------------------------------------------
(* Draft's operators are Selection's.                                       *)

\* What a configuration is, and what it gives to a cohort.
LEMMA SameConfiguration ==
    ASSUME NEW c, NEW r, NEW n, NEW k
    PROVE  /\ D!ApplyDefaults(c) = ApplyDefaults(c)
           /\ D!Valid(c) = Valid(c)
           /\ D!LastCohort(c, n) = LastCohort(c, n)
           /\ D!CohortAt(c, n, k) = CohortAt(c, n, k)
           /\ D!Chosen(c, r) = Chosen(c, r)
<1>1. D!ApplyDefaults(c) = ApplyDefaults(c)
  BY Zenon DEF D!ApplyDefaults, ApplyDefaults, D!WithPreset, WithPreset, D!NoName,
      NoName, D!ZeroCfg, ZeroCfg
<1>2. D!Valid(c) = Valid(c)
  BY Zenon DEF D!Valid, Valid, D!ValidMeasurement, ValidMeasurement, D!Named, Named,
      D!ValidCohort, ValidCohort, D!ValidCities, ValidCities, D!NoName, NoName
<1>3. D!CohortAt(c, n, k) = CohortAt(c, n, k)
  BY Zenon DEF D!CohortAt, CohortAt
<1>4. D!LastCohort(c, n) = LastCohort(c, n)
  BY Zenon DEF D!LastCohort, LastCohort
<1>5. D!Chosen(c, r) = Chosen(c, r)
  BY Zenon DEF D!Chosen, Chosen, D!PinsOf, PinsOf, D!CohortAt, CohortAt
<1> QED
  BY <1>1, <1>2, <1>3, <1>4, <1>5

\* Counting.
LEMMA SameCardinality ==
    ASSUME NEW S
    PROVE  D!Cardinality(S) = Cardinality(S)
BY Zenon DEF D!Cardinality, Cardinality, D!IsFiniteSet, IsFiniteSet

\* Cells of probes, and tags that exclude them.
LEMMA SameScoring ==
    ASSUME NEW p, NEW cfg, NEW tags
    PROVE  /\ D!CellOf(p, cfg) = CellOf(p, cfg)
           /\ D!HardExcluded(p, tags) <=> HardExcluded(p, tags)
<1>1. D!CellOf(p, cfg) = CellOf(p, cfg)
  BY Zenon DEF D!CellOf, CellOf, D!EffectiveH3Resolution, EffectiveH3Resolution
<1>2. D!HardExcluded(p, tags) <=> HardExcluded(p, tags)
  BY Zenon DEF D!HardExcluded, HardExcluded
<1> QED
  BY <1>1, <1>2

\* The cap of a cell.
LEMMA SameCapacity ==
    ASSUME NEW c, NEW cell
    PROVE  D!Capacity(c, cell)
             = CellCapacity(c.perCell, CellCoef(pool, cell, c.cfg))
<1>1. D!CellCoef(pool, cell, c.cfg) = CellCoef(pool, cell, c.cfg)
  BY Zenon DEF D!CellCoef, CellCoef, D!CellOf, CellOf, D!EffectiveH3Resolution,
      EffectiveH3Resolution, D!MaxCityCoef, MaxCityCoef, D!NearTo, NearTo, D!Max, Max
<1>2. \A base, coef : D!CellCapacity(base, coef) = CellCapacity(base, coef)
  BY Zenon DEF D!CellCapacity, CellCapacity, D!Max, Max
<1> QED
  BY <1>1, <1>2, Zenon DEF D!Capacity

-----------------------------------------------------------------------------
(* The invariant is inductive.                                              *)

\* The cohort at hand is typed and valid.
LEMMA AtHand ==
    ASSUME TypeOK, Loaded, Running
    PROVE  /\ Cohort.count \in Nat \ {0}
           /\ Cohort.include \in Seq(Nat)
           /\ Cohort.exclude \in SUBSET Nat
           /\ Cohort.cfg \in Cfgs
           /\ \A p \in Probes : CellOf(p, Cohort.cfg) \in Cells
           /\ Len(config.measurements) \in Nat
           /\ LastCohort(config, m) \in Nat \ {0}
           /\ m \in 1..Len(config.measurements)
           /\ j \in 1..LastCohort(config, m)
<1>1. /\ file \in Files /\ config = ApplyDefaults(file) /\ Valid(config)
      /\ m \in MsmPositions(config) /\ j \in CohortPositions(config, m)
  BY DEF TypeOK, Loaded
<1>2. /\ Len(config.measurements) \in Nat
      /\ LastCohort(config, m) \in Nat \ {0}
      /\ Cohort.count \in Nat \ {0}
      /\ Cohort.include \in Seq(Nat)
      /\ Cohort.exclude \in SUBSET Nat
      /\ Cohort.cfg \in Cfgs
      /\ Cohort.cfg.resolution \in 0..15
  BY <1>1, CohortFacts, Zenon DEF Cohort, LastCohort
<1>3. \A p \in Probes : CellOf(p, Cohort.cfg) \in Cells
  BY <1>2, SelectionAssumption
<1> QED
  BY <1>1, <1>2, <1>3 DEF MsmPositions, CohortPositions, LastCohort

\* The next cohort is one of the file's.
LEMMA Advanced ==
    ASSUME TypeOK, Loaded, Running, NextCohort, UNCHANGED <<file, config>>
    PROVE  /\ Loaded'
           /\ m' \in Nat \ {0} /\ j' \in Nat \ {0}
           /\ pc' \in {"cohort", "done"}
<1>1. /\ Len(config.measurements) \in Nat
      /\ LastCohort(config, m) \in Nat \ {0}
      /\ m \in 1..Len(config.measurements)
      /\ j \in 1..LastCohort(config, m)
  BY AtHand
<1>2. config = ApplyDefaults(file) /\ Valid(config) /\ file \in Files
  BY DEF Loaded, TypeOK
<1>3. CASE j < LastCohort(config, m)
  BY <1>1, <1>2, <1>3 DEF NextCohort, Loaded, Running, MsmPositions, CohortPositions,
      LastCohort
<1>4. CASE ~(j < LastCohort(config, m))
  <2>1. m' = m + 1 /\ j' = 1
        /\ pc' = IF m < Len(config.measurements) THEN "cohort" ELSE "done"
    BY <1>4 DEF NextCohort
  <2>2. CASE m < Len(config.measurements)
    <3>1. m' \in MsmPositions(config)
      BY <1>1, <2>1, <2>2 DEF MsmPositions
    <3>2. Len(config.measurements[m'].cohorts) \in Nat \ {0}
      BY <1>2, <3>1, CohortFacts, Zenon
    <3> QED
      BY <1>1, <1>2, <2>1, <2>2, <3>1, <3>2 DEF Loaded, Running, CohortPositions
  <2>3. CASE ~(m < Len(config.measurements))
    BY <1>1, <2>1, <2>3 DEF Loaded, Running
  <2> QED
    BY <2>2, <2>3
<1> QED
  BY <1>3, <1>4

\* IInv holds when a command begins.
LEMMA InitIInv == Init => IInv
<1> SUFFICES ASSUME Init PROVE IInv
  OBVIOUS
<1>1. \A S : D!TakenBy({}, S) = {}
  BY DEF D!TakenBy
<1>2. TypeOK
  BY SelectionAssumption DEF Init, TypeOK
<1> QED
  BY <1>1, <1>2 DEF Init, IInv, Loaded, Running, CacheSound, TakenSound, SlotsSound,
      Pinning, Filling, NoDoubleSelection

\* While m, j, the configuration and the snapshot stay, Draft's operators keep
\* their values.
LEMMA Steady ==
    ASSUME UNCHANGED <<config, pool, m, j>>
    PROVE  /\ Cohort' = Cohort
           /\ Present' = Present
           /\ D!FirstPins(Cohort)' = D!FirstPins(Cohort)
<1>1. Cohort' = Cohort
  BY DEF Cohort
<1>2. Present' = Present
  BY <1>1 DEF Present
<1>3. D!FirstPins(Cohort)' = D!FirstPins(Cohort)
  BY <1>1 DEF D!FirstPins
<1> QED
  BY <1>1, <1>2, <1>3

\* A file that is accepted has a cohort to begin with, if it has a measurement.
LEMMA LoadIInv == IInv /\ Load => IInv'
<1> SUFFICES ASSUME IInv, Load PROVE IInv'
  OBVIOUS
<1> USE DEF IInv
<1>1. /\ pc = "load" /\ config' = ApplyDefaults(file)
      /\ pc' \in {"refused", "done", "cohort"}
      /\ pc' = "cohort" => Valid(config') /\ config'.measurements # <<>>
      /\ m = 1 /\ j = 1 /\ results = {} /\ taken = {}
  BY DEF Load, Loaded
<1>2. TypeOK'
  BY <1>1 DEF TypeOK, Load, cohortVars
<1>3. Loaded'
  <2>1. CASE pc' = "cohort"
    <3>1. 1 \in MsmPositions(config')
      <4> DEFINE ms == config'.measurements
      <4>1. file \in Files /\ file \in FileSet({file.presets})
        BY SelectionAssumption DEF TypeOK
      <4>2. file.measurements \in Seq(MeasurementSet)
        BY <4>1 DEF FileSet
      <4>3. ms = [k \in DOMAIN file.measurements |-> ms[k]]
        BY <1>1, <4>1 DEF ApplyDefaults, FileSet
      <4>4. Len(ms) \in Nat /\ Len(ms) = Len(file.measurements)
            /\ DOMAIN file.measurements = 1..Len(file.measurements)
        BY <4>2, <4>3, SameLength, Zenon
      <4>5. Len(ms) # 0
        BY <1>1, <2>1, <4>3, <4>4
      <4> QED
        BY <4>4, <4>5 DEF MsmPositions
    <3>2. file \in Files /\ file' = file
      BY DEF TypeOK, Load
    <3>3. Len(config'.measurements[1].cohorts) \in Nat \ {0}
      BY <1>1, <2>1, <3>1, <3>2, CohortFacts, Zenon
    <3> QED
      BY <1>1, <2>1, <3>1, <3>2, <3>3 DEF Loaded, Running, CohortPositions, Load
  <2>2. CASE pc' # "cohort"
    BY <1>1, <2>2 DEF Loaded, Running
  <2> QED
    BY <2>1, <2>2
<1>4. CacheSound'
  BY DEF CacheSound, Load
<1>5. TakenSound'
  BY <1>1 DEF TakenSound, Load, D!TakenBy
<1>6. SlotsSound' /\ Pinning' /\ Filling'
  BY <1>1 DEF SlotsSound, Pinning, Filling
<1>7. NoDoubleSelection'
  BY <1>1 DEF NoDoubleSelection, Load
<1> QED
  BY <1>2, <1>3, <1>4, <1>5, <1>6, <1>7

\* A cohort begins with no slot taken, and what earlier cohorts have excluded.
LEMMA BeginCohortIInv == IInv /\ BeginCohort => IInv'
<1> SUFFICES ASSUME IInv, BeginCohort PROVE IInv'
  OBVIOUS
<1> USE DEF IInv
<1>1. pc = "cohort" /\ pc' = "pins" /\ Running /\ Cohort' = Cohort
  BY DEF BeginCohort, Running, Cohort, outer
<1>2. TypeOK'
  <2>1. Cohort.exclude \subseteq Nat /\ Cohort.count \in Nat
    BY <1>1, AtHand
  <2>2. excluded' \subseteq Nat
    BY <2>1, ProbesAssumption DEF TypeOK, BeginCohort
  <2>3. occ' \in [Cells -> Nat]
    BY DEF BeginCohort
  <2>4. UNCHANGED <<file, config, pool, previous, m, j, taken, results, orders, order>>
    BY DEF BeginCohort, outer
  <2> QED
    BY <1>1, <2>1, <2>2, <2>3, <2>4 DEF TypeOK, BeginCohort
<1>3. Loaded'
  BY <1>1 DEF Loaded, Running, BeginCohort, outer
<1>4. CacheSound'
  BY DEF CacheSound, BeginCohort, outer
<1>5. TakenSound'
  BY <1>1 DEF TakenSound, Running, BeginCohort, outer, D!TakenBy
<1>6. SlotsSound'
  <2>1. Cardinality({}) = 0
    BY FS_EmptySet
  <2>2. \A cell : D!InCell({}, cell, Cohort.cfg) = {}
    BY DEF D!InCell
  <2>3. Cohort.count \in Nat
    BY <1>1, AtHand
  <2> QED
    BY <1>1, <2>1, <2>2, <2>3 DEF SlotsSound, BeginCohort, outer, Pinned
<1>7. Pinning' /\ Filling'
  <2>1. DOMAIN Cohort.include \subseteq Nat \ {0}
    BY <1>1, AtHand
  <2> QED
    BY <1>1, <2>1 DEF Pinning, Filling, BeginCohort, Present, outer
<1>8. NoDoubleSelection'
  BY DEF NoDoubleSelection, BeginCohort, outer
<1> QED
  BY <1>2, <1>3, <1>4, <1>5, <1>6, <1>7, <1>8

\* A selection that is cancelled has no results.
LEMMA CancelIInv == IInv /\ Cancel => IInv'
<1> SUFFICES ASSUME IInv, Cancel PROVE IInv'
  OBVIOUS
<1> QED
  BY DEF IInv, Cancel, outer, cohortVars, TypeOK, Loaded, Running, CacheSound,
      TakenSound, SlotsSound, Pinning, Filling, NoDoubleSelection

\* The next invocation knows nothing of the one before but its results.
LEMMA ProbeLeavesIInv == IInv /\ ProbeLeaves => IInv'
<1> SUFFICES ASSUME IInv, ProbeLeaves PROVE IInv'
  OBVIOUS
<1> QED
  BY DEF IInv, ProbeLeaves, cohortVars, TypeOK, Loaded, Running, CacheSound,
      TakenSound, SlotsSound, Pinning, Filling, NoDoubleSelection

\* Positions of pins that exist are finitely many.
LEMMA PresentFinite ==
    ASSUME TypeOK, Loaded, Running, NEW T \in SUBSET Present
    PROVE  IsFiniteSet(T) /\ Cardinality(T) \in Nat /\ T \subseteq Nat \ {0}
<1>1. DOMAIN Cohort.include = 1..Len(Cohort.include) /\ Len(Cohort.include) \in Nat
  BY AtHand
<1>2. T \in SUBSET (1..Len(Cohort.include))
  BY <1>1 DEF Present
<1>3. IsFiniteSet(1..Len(Cohort.include))
  BY <1>1, FS_Interval
<1>4. IsFiniteSet(T)
  BY <1>2, <1>3, FS_Subset
<1>5. Cardinality(T) \in Nat
  BY <1>4, FS_CardinalityType
<1>6. T \subseteq Nat \ {0}
  BY <1>1, <1>2
<1> QED
  BY <1>4, <1>5, <1>6

\* A slot is given to a pinned probe.
LEMMA PinProbeIInv == IInv /\ PinProbe => IInv'
<1> SUFFICES ASSUME IInv, PinProbe PROVE IInv'
  OBVIOUS
<1> USE DEF IInv
<1>1. /\ pc = "pins" /\ Running /\ remaining > 0 /\ pos \in DOMAIN Cohort.include
      /\ pins' = pins \cup {pos} /\ pos' = pos + 1 /\ remaining' = remaining - 1
      /\ excluded' = excluded \cup {Cohort.include[pos]}
      /\ Cohort.include[pos] \in pool
  BY DEF PinProbe, Running
<1>2. UNCHANGED <<file, config, pool, previous, pc, m, j, taken, results, orders,
                  filled, occ, order>>
  BY DEF PinProbe, outer
<1>3. Cohort' = Cohort /\ Present' = Present
  BY <1>2, Steady
<1>4. /\ Cohort.include \in Seq(Nat) /\ Cohort.count \in Nat
      /\ pos \in Nat /\ remaining \in Nat
  BY <1>1, AtHand DEF TypeOK
<1>5. pins \subseteq Present /\ pins = {i \in Present : i < pos} /\ filled = {}
  BY <1>1 DEF SlotsSound, Pinning
<1>6. TypeOK'
  <2>1. Cohort.include[pos] \in Nat
    BY <1>1, <1>4
  <2>2. excluded' \subseteq Nat /\ pins' \subseteq Nat
    BY <1>1, <1>4, <2>1 DEF TypeOK
  <2>3. remaining' \in Nat /\ pos' \in Nat \ {0}
    BY <1>1, <1>4
  <2> QED
    BY <1>2, <2>2, <2>3 DEF TypeOK
<1>7. Loaded' /\ CacheSound' /\ TakenSound'
  BY <1>1, <1>2 DEF Loaded, Running, CacheSound, TakenSound, D!TakenBy
<1>8. SlotsSound'
  <2>1. pins' \subseteq Present /\ pos \notin pins
    BY <1>1, <1>4, <1>5 DEF Present
  <2>2. IsFiniteSet(pins) /\ Cardinality(pins) \in Nat
    BY <1>1, <1>5, PresentFinite
  <2>3. Cardinality(pins') = Cardinality(pins) + 1
    BY <1>1, <2>1, <2>2, FS_AddElement
  <2>4. Pinned' = Pinned \cup {Cohort.include[pos]}
    BY <1>1, <1>3 DEF Pinned
  <2>5. Cardinality(filled) = 0
    BY <1>5, FS_EmptySet
  <2>6. remaining' = Cohort.count - Cardinality(pins') - Cardinality(filled)
    BY <1>1, <1>4, <2>2, <2>3, <2>5 DEF SlotsSound
  <2>7. excluded' = taken \cup Cohort.exclude \cup Pinned' \cup filled
    BY <1>1, <2>4 DEF SlotsSound
  <2>8. \A cell \in Cells : occ[cell] = Cardinality(D!InCell(filled, cell, Cohort.cfg))
    BY <1>1 DEF SlotsSound
  <2>9. filled \subseteq pool
    BY <1>1 DEF SlotsSound
  <2> QED
    BY <1>2, <1>3, <2>1, <2>6, <2>7, <2>8, <2>9 DEF SlotsSound, D!InCell
<1>9. Pinning'
  <2>1. \A i \in Present : i \in Nat
    BY <1>4 DEF Present
  <2>2. pins' = {i \in Present : i < pos + 1}
    BY <1>1, <1>4, <1>5, <2>1 DEF Present
  <2> QED
    BY <1>1, <1>2, <1>3, <1>5, <2>2 DEF Pinning
<1>10. Filling' /\ NoDoubleSelection'
  BY <1>1, <1>2 DEF Filling, NoDoubleSelection
<1> QED
  BY <1>6, <1>7, <1>8, <1>9, <1>10

\* A pin that is not in the snapshot takes no slot.
LEMMA SkipAbsentPinIInv == IInv /\ SkipAbsentPin => IInv'
<1> SUFFICES ASSUME IInv, SkipAbsentPin PROVE IInv'
  OBVIOUS
<1> USE DEF IInv
<1>1. /\ pc = "pins" /\ Running /\ pos \in DOMAIN Cohort.include
      /\ pos' = pos + 1 /\ Cohort.include[pos] \notin pool
  BY DEF SkipAbsentPin, Running
<1>2. UNCHANGED <<file, config, pool, previous, pc, m, j, taken, results, orders,
                  excluded, remaining, pins, filled, occ, order>>
  BY DEF SkipAbsentPin, outer, cohortVars
<1>3. Cohort' = Cohort /\ Present' = Present
  BY <1>2, Steady
<1>4. Cohort.include \in Seq(Nat) /\ pos \in Nat
  BY <1>1, AtHand DEF TypeOK
<1>5. TypeOK'
  BY <1>1, <1>2, <1>4 DEF TypeOK
<1>6. Loaded' /\ CacheSound' /\ TakenSound'
  BY <1>1, <1>2 DEF Loaded, Running, CacheSound, TakenSound, D!TakenBy
<1>7. SlotsSound'
  BY <1>1, <1>2, <1>3 DEF SlotsSound, Pinned, D!InCell
<1>8. Pinning'
  <2>1. {i \in Present : i < pos} = {i \in Present : i < pos + 1}
    BY <1>1, <1>4 DEF Present
  <2> QED
    BY <1>1, <1>2, <1>3, <2>1 DEF Pinning
<1>9. Filling' /\ NoDoubleSelection'
  BY <1>1, <1>2 DEF Filling, NoDoubleSelection
<1> QED
  BY <1>5, <1>6, <1>7, <1>8, <1>9

\* The pins are Draft's as soon as the first loop has ended.
LEMMA PinsDone ==
    ASSUME IInv, pc = "pins", remaining = 0 \/ pos \notin DOMAIN Cohort.include
    PROVE  pins = D!FirstPins(Cohort)
<1> USE DEF IInv
<1>1. Running /\ pos \in Nat \ {0} /\ remaining \in Nat
  BY DEF Running, TypeOK
<1>2. Cohort.include \in Seq(Nat) /\ Cohort.count \in Nat
  BY <1>1, AtHand
<1>3. /\ filled = {} /\ pins = {i \in Present : i < pos}
      /\ remaining = Cohort.count - Cardinality(pins) - Cardinality(filled)
  BY DEF SlotsSound, Pinning
<1>4. Cardinality(filled) = 0
  BY <1>3, FS_EmptySet
<1>5. Cardinality(pins) \in Nat
  BY <1>1, <1>3, PresentFinite
<1>6. \/ Cardinality(pins) = Cohort.count
      \/ Cardinality(pins) < Cohort.count /\ pos > Len(Cohort.include)
  BY <1>1, <1>2, <1>3, <1>4, <1>5
<1>7. pins = Earlier(Present, pos)
  BY <1>3 DEF Earlier
<1>8. \A i \in Present : i < pos <=> Cardinality(Earlier(Present, i)) < Cohort.count
  <2>1. Len(Cohort.include) \in Nat /\ Present \in SUBSET (1..Len(Cohort.include))
    BY <1>2 DEF Present
  <2>2. \/ Cardinality(Earlier(Present, pos)) = Cohort.count
        \/ Cardinality(Earlier(Present, pos)) < Cohort.count /\ pos > Len(Cohort.include)
    BY <1>6, <1>7
  <2>3. pos \in Nat
    BY <1>1
  <2> QED
    <3>1. \A n, count, at \in Nat : \A S \in SUBSET (1..n) :
             (\/ Cardinality(Earlier(S, at)) = count
              \/ Cardinality(Earlier(S, at)) < count /\ at > n)
             => \A i \in S : i < at <=> Cardinality(Earlier(S, i)) < count
      BY PinsAreFirst
    <3> QED
      BY <1>2, <2>1, <2>2, <2>3, <3>1, Zenon
<1>9. D!FirstPins(Cohort) =
        {i \in Present : Cardinality(Earlier(Present, i)) < Cohort.count}
  BY SameCardinality, Zenon DEF D!FirstPins, Present, Earlier
<1> QED
  BY <1>3, <1>8, <1>9

\* The order is computed or found in the cache, and nothing decided yet.
LEMMA OrderProbesIInv == IInv /\ OrderProbes => IInv'
<1> SUFFICES ASSUME IInv, OrderProbes PROVE IInv'
  OBVIOUS
<1> USE DEF IInv
<1> DEFINE key == OrderKey(Cohort.cfg)
<1>1. /\ pc = "pins" /\ Running /\ pc' = "fill" /\ pos' = 1
      /\ pos \notin DOMAIN Cohort.include
      /\ order' = IF key \in DOMAIN orders THEN orders[key] ELSE Orderer(pool, Cohort.cfg)
      /\ orders' = [k \in DOMAIN orders \cup {key} |->
                       IF k = key THEN order' ELSE orders[k]]
  BY DEF OrderProbes, Running
<1>2. UNCHANGED <<file, config, pool, previous, m, j, taken, results,
                  excluded, remaining, pins, filled, occ>>
  BY DEF OrderProbes, outer, cohortVars
<1>3. Cohort' = Cohort /\ Present' = Present
      /\ D!FirstPins(Cohort)' = D!FirstPins(Cohort)
  BY <1>2, Steady
<1>4. Cohort.cfg \in Cfgs /\ pool \in SUBSET Probes
  BY <1>1, AtHand DEF TypeOK
<1>5. \E like \in Cfgs : OrderKey(like) = key /\ order' = Orderer(pool, like)
  BY <1>1, <1>4 DEF CacheSound
<1>6. order' \in Seq(Probes)
  <2>1. PICK like \in Cfgs : order' = Orderer(pool, like)
    BY <1>5
  <2>2. order' \in Seq(pool)
    BY <1>4, <2>1, OrderFacts
  <2> QED
    BY <1>4, <2>2
<1>7. TypeOK'
  BY <1>1, <1>2, <1>6 DEF TypeOK
<1>8. Loaded' /\ TakenSound'
  BY <1>1, <1>2 DEF Loaded, Running, TakenSound, D!TakenBy
<1>9. CacheSound'
  BY <1>1, <1>2, <1>5 DEF CacheSound
<1>10. SlotsSound' /\ Pinning'
  BY <1>1, <1>2, <1>3 DEF SlotsSound, Pinned, D!InCell, Pinning
<1>11. Filling'
  <2>1. pins = D!FirstPins(Cohort)
    BY <1>1, PinsDone
  <2>2. filled = {}
    BY <1>1 DEF Pinning
  <2>3. Seen' = {}
    BY <1>1, <1>6 DEF Seen
  <2> QED
    BY <1>2, <1>3, <1>5, <2>1, <2>2, <2>3 DEF Filling
<1>12. NoDoubleSelection'
  BY <1>2 DEF NoDoubleSelection
<1> QED
  BY <1>7, <1>8, <1>9, <1>10, <1>11, <1>12

\* Choosing the candidate at a position changes nothing for those before it.
LEMMA AheadFacts ==
    ASSUME NEW T, NEW o \in Seq(T),
           \A i, k \in DOMAIN o : o[i] = o[k] => i = k,
           NEW at \in Nat \ {0},
           NEW F, \A p \in F : \E i \in DOMAIN o : i < at /\ o[i] = p
    PROVE  /\ \A i \in DOMAIN o : i >= at => D!Ahead(o, i, F) = F
           /\ at \in DOMAIN o =>
                /\ o[at] \notin F
                /\ \A i \in DOMAIN o :
                     i <= at => D!Ahead(o, i, F \cup {o[at]}) = D!Ahead(o, i, F)
<1>1. DOMAIN o = 1..Len(o) /\ Len(o) \in Nat
  OBVIOUS
<1>2. ASSUME NEW i \in DOMAIN o, i >= at
      PROVE  D!Ahead(o, i, F) = F
  <2> SUFFICES ASSUME NEW p \in F
               PROVE  \E k \in 1..(i - 1) : o[k] = p
    BY DEF D!Ahead
  <2>1. PICK k \in DOMAIN o : k < at /\ o[k] = p
    OBVIOUS
  <2>2. k \in 1..(i - 1)
    BY <1>1, <1>2, <2>1
  <2> QED
    BY <2>1, <2>2
<1>3. ASSUME at \in DOMAIN o
      PROVE  o[at] \notin F
  BY <1>1, <1>3
<1>4. ASSUME at \in DOMAIN o, NEW i \in DOMAIN o, i <= at
      PROVE  D!Ahead(o, i, F \cup {o[at]}) = D!Ahead(o, i, F)
  <2>1. ASSUME NEW k \in 1..(i - 1)
        PROVE  o[k] # o[at]
    <3>1. k \in DOMAIN o /\ k # at
      BY <1>1, <1>4, <2>1
    <3> QED
      BY <1>4, <3>1
  <2> QED
    BY <2>1 DEF D!Ahead
<1> QED
  BY <1>2, <1>3, <1>4

\* What the second loop works with.
LEMMA FillFacts ==
    ASSUME IInv, pc = "fill"
    PROVE  /\ Running
           /\ order \in Seq(pool)
           /\ \A i, k \in DOMAIN order : order[i] = order[k] => i = k
           /\ pos \in Nat \ {0} /\ remaining \in Nat
           /\ Cohort.count \in Nat /\ Cardinality(pins) \in Nat
           /\ pool \subseteq Probes
           /\ IsFiniteSet(filled) /\ Cardinality(filled) \in Nat
           /\ \A p \in pool : CellOf(p, Cohort.cfg) \in Cells
           /\ \A cell : LET here == D!InCell(filled, cell, Cohort.cfg)
                        IN  IsFiniteSet(here) /\ Cardinality(here) \in Nat
<1> USE DEF IInv
<1>1. Running /\ pool \in SUBSET Probes /\ filled \in SUBSET Probes
      /\ pos \in Nat \ {0} /\ remaining \in Nat
  BY DEF Running, TypeOK
<1>2. PICK like \in Cfgs : order = Orderer(pool, like)
  BY DEF Filling
<1>3. order \in Seq(pool) /\ \A i, k \in DOMAIN order : order[i] = order[k] => i = k
  BY <1>1, <1>2, OrderFacts
<1>4. Cohort.count \in Nat /\ \A p \in Probes : CellOf(p, Cohort.cfg) \in Cells
  BY <1>1, AtHand
<1>5. Cardinality(pins) \in Nat
  BY <1>1, PresentFinite DEF SlotsSound
<1>6. IsFiniteSet(filled) /\ Cardinality(filled) \in Nat
  BY <1>1, ProbesFinite
<1>7. \A cell : D!InCell(filled, cell, Cohort.cfg) \in SUBSET Probes
  BY <1>1 DEF D!InCell
<1> QED
  BY <1>1, <1>3, <1>4, <1>5, <1>6, <1>7, ProbesFinite

\* The code's test of a cell is Draft's.
LEMMA FullIsFull ==
    ASSUME IInv, pc = "fill", NEW p \in pool
    PROVE  LET cell == D!CellOf(p, Cohort.cfg)
           IN  Full(p) <=> Cardinality(D!InCell(filled, cell, Cohort.cfg))
                             >= D!Capacity(Cohort, cell)
<1> DEFINE cell == CellOf(p, Cohort.cfg)
<1>1. cell \in Cells
  BY FillFacts
<1>2. occ[cell] = Cardinality(D!InCell(filled, cell, Cohort.cfg))
  BY <1>1 DEF IInv, SlotsSound
<1>3. D!Capacity(Cohort, cell)
        = CellCapacity(Cohort.perCell, CellCoef(pool, cell, Cohort.cfg))
  BY SameCapacity, Zenon
<1>4. D!CellOf(p, Cohort.cfg) = cell
  BY SameScoring, Zenon
<1> QED
  BY <1>2, <1>3, <1>4 DEF Full

\* Draft's conditions depend on no variable that the second loop changes.
LEMMA SteadyFill ==
    ASSUME UNCHANGED <<config, pool, m, j, taken, pins>>
    PROVE  /\ D!Barred(Cohort, taken, pins)' = D!Barred(Cohort, taken, pins)
           /\ \A cell : D!Capacity(Cohort, cell)' = D!Capacity(Cohort, cell)
<1>1. Cohort' = Cohort
  BY Steady
<1>2. D!Barred(Cohort, taken, pins)' = D!Barred(Cohort, taken, pins)
  BY <1>1 DEF D!Barred
<1>3. ASSUME NEW cell
      PROVE  D!Capacity(Cohort, cell)' = D!Capacity(Cohort, cell)
  BY <1>1 DEF D!Capacity
<1> QED
  BY <1>2, <1>3

\* The candidate at hand gets a slot: it deserved one.
LEMMA PickProbeIInv == IInv /\ PickProbe => IInv'
<1> SUFFICES ASSUME IInv, PickProbe PROVE IInv'
  OBVIOUS
<1> DEFINE p == order[pos]
           room == Cohort.count - Cardinality(pins)
<1>1. /\ pc = "fill" /\ remaining > 0 /\ pos \in DOMAIN order /\ ~PassedOver(p)
      /\ filled' = filled \cup {p} /\ excluded' = excluded \cup {p}
      /\ occ' = [occ EXCEPT ![CellOf(p, Cohort.cfg)] = @ + 1]
      /\ remaining' = remaining - 1 /\ pos' = pos + 1
  BY DEF PickProbe
<1>2. UNCHANGED <<file, config, pool, previous, pc, m, j, taken, results, orders,
                  pins, order>>
  BY DEF PickProbe, outer
<1>3. /\ Running
      /\ order \in Seq(pool)
      /\ \A i, k \in DOMAIN order : order[i] = order[k] => i = k
      /\ pos \in Nat \ {0} /\ remaining \in Nat
      /\ Cohort.count \in Nat /\ Cardinality(pins) \in Nat
      /\ pool \subseteq Probes
      /\ IsFiniteSet(filled) /\ Cardinality(filled) \in Nat
      /\ \A q \in pool : CellOf(q, Cohort.cfg) \in Cells
      /\ \A cell : LET here == D!InCell(filled, cell, Cohort.cfg)
                   IN  IsFiniteSet(here) /\ Cardinality(here) \in Nat
  BY <1>1, FillFacts
<1>4. p \in pool /\ p \in Probes
  BY <1>1, <1>3
<1>5. Cohort' = Cohort /\ Present' = Present
      /\ D!FirstPins(Cohort)' = D!FirstPins(Cohort)
  BY <1>2, Steady
<1>6. /\ excluded = taken \cup Cohort.exclude \cup Pinned \cup filled
      /\ remaining = Cohort.count - Cardinality(pins) - Cardinality(filled)
      /\ filled \subseteq pool /\ pins \subseteq Present
      /\ \A cell \in Cells :
           occ[cell] = Cardinality(D!InCell(filled, cell, Cohort.cfg))
  BY <1>1 DEF IInv, SlotsSound
<1>7. \A q \in filled : \E i \in DOMAIN order : i < pos /\ order[i] = q
  BY <1>1 DEF IInv, Filling, Seen
<1>8. TypeOK'
  <2>1. filled' \subseteq Probes
    BY <1>1, <1>4 DEF IInv, TypeOK
  <2>2. excluded' \subseteq Nat
    BY <1>1, <1>4, ProbesAssumption DEF IInv, TypeOK
  <2>3. remaining' \in Nat /\ pos' \in Nat \ {0}
    BY <1>1, <1>3
  <2>4. occ' \in [Cells -> Nat]
    BY <1>1, <1>3, <1>4 DEF IInv, TypeOK
  <2> QED
    BY <1>2, <2>1, <2>2, <2>3, <2>4 DEF IInv, TypeOK
<1>9. Loaded' /\ CacheSound' /\ TakenSound'
  BY <1>1, <1>2 DEF IInv, Loaded, Running, CacheSound, TakenSound, D!TakenBy
<1>10. p \notin filled
  BY <1>1, <1>6 DEF PassedOver
<1>11. SlotsSound'
  <2>1. Pinned' = Pinned
    BY <1>2, <1>5 DEF Pinned
  <2>2. excluded' = taken \cup Cohort.exclude \cup Pinned \cup filled'
    BY <1>1, <1>6
  <2>3. Cardinality(filled') = Cardinality(filled) + 1
    BY <1>1, <1>3, <1>10, FS_AddElement
  <2>4. remaining' = Cohort.count - Cardinality(pins) - Cardinality(filled')
    <3>1. remaining' = remaining - 1
          /\ remaining = Cohort.count - Cardinality(pins) - Cardinality(filled)
      BY <1>1, <1>6
    <3>2. Cohort.count \in Nat /\ Cardinality(pins) \in Nat /\ Cardinality(filled) \in Nat
      BY <1>3
    <3> QED
      BY <2>3, <3>1, <3>2
  <2>5. ASSUME NEW cell \in Cells
        PROVE  occ'[cell] = Cardinality(D!InCell(filled', cell, Cohort.cfg))
    <3>1. occ \in [Cells -> Nat] /\ p \notin D!InCell(filled, cell, Cohort.cfg)
      BY <1>10 DEF IInv, TypeOK, D!InCell
    <3>2. CASE cell = CellOf(p, Cohort.cfg)
      <4>1. D!InCell(filled', cell, Cohort.cfg) = D!InCell(filled, cell, Cohort.cfg) \cup {p}
        BY <1>1, <3>2, SameScoring DEF D!InCell
      <4>2. Cardinality(D!InCell(filled', cell, Cohort.cfg))
              = Cardinality(D!InCell(filled, cell, Cohort.cfg)) + 1
        BY <1>3, <3>1, <4>1, FS_AddElement
      <4> QED
        BY <1>1, <1>6, <3>1, <3>2, <4>2
    <3>3. CASE cell # CellOf(p, Cohort.cfg)
      <4>1. D!InCell(filled', cell, Cohort.cfg) = D!InCell(filled, cell, Cohort.cfg)
        BY <1>1, <3>3, SameScoring DEF D!InCell
      <4> QED
        BY <1>1, <1>6, <3>1, <3>3, <4>1
    <3> QED
      BY <3>2, <3>3
  <2>6. \A cell : D!InCell(filled, cell, Cohort.cfg)' = D!InCell(filled', cell, Cohort.cfg)
    BY <1>5 DEF D!InCell
  <2>7. filled' \subseteq pool
    BY <1>1, <1>4, <1>6
  <2> QED
    BY <1>1, <1>2, <1>5, <1>6, <2>1, <2>2, <2>4, <2>5, <2>6, <2>7 DEF SlotsSound
<1>12. Filling'
  <2>1. Seen = {i \in DOMAIN order : i < pos} /\ Seen' = Seen \cup {pos}
    BY <1>1, <1>2, <1>3 DEF Seen
  <2>2. filled' \subseteq {order[i] : i \in Seen'}
    BY <1>1, <1>7, <2>1
  <2>3. /\ \A i \in DOMAIN order : i >= pos => D!Ahead(order, i, filled) = filled
        /\ \A i \in DOMAIN order :
             i <= pos => D!Ahead(order, i, filled \cup {p}) = D!Ahead(order, i, filled)
    <3>1. /\ order \in Seq(pool) /\ pos \in Nat \ {0} /\ pos \in DOMAIN order
          /\ \A i, k \in DOMAIN order : order[i] = order[k] => i = k
      BY <1>1, <1>3
    <3> QED
      BY <1>7, <3>1, AheadFacts
  <2>4. \A i \in Seen' :
          D!Deserves(Cohort, order, i, room, filled)'
            <=> D!Deserves(Cohort, order, i, room, filled)
    <3>1. /\ \A cell : D!Capacity(Cohort, cell)' = D!Capacity(Cohort, cell)
          /\ Cohort' = Cohort /\ order' = order /\ pins' = pins
      BY <1>2, <1>5, SteadyFill
    <3>2. ASSUME NEW i \in Seen'
          PROVE  D!Ahead(order, i, filled)' = D!Ahead(order, i, filled)
      <4>1. i \in DOMAIN order /\ i <= pos
        BY <1>1, <1>3, <2>1
      <4>2. D!Ahead(order, i, filled)' = D!Ahead(order, i, filled \cup {p})
        BY <1>1, <3>1 DEF D!Ahead
      <4> QED
        BY <2>3, <4>1, <4>2
    <3> QED
      BY <3>1, <3>2, Zenon DEF D!Deserves
  <2>5. D!Barred(Cohort, taken, pins)' = D!Barred(Cohort, taken, pins)
    BY <1>2, SteadyFill
  <2>6. \A i \in Seen : Decided(i)'
    <3> SUFFICES ASSUME NEW i \in Seen
                 PROVE  Decided(i)'
      OBVIOUS
    <3>1. Decided(i) /\ i \in DOMAIN order /\ i # pos
      BY <1>1, <1>3, <2>1 DEF IInv, Filling
    <3>2. order[i] \in filled' <=> order[i] \in filled
      BY <1>1, <1>3, <3>1
    <3> QED
      BY <1>2, <2>1, <2>4, <2>5, <3>1, <3>2 DEF Decided
  <2>7. ASSUME NEW i, i = pos
        PROVE  Decided(i)'
    <3>1. D!Deserves(Cohort, order, pos, room, filled)
      <4>1. ~Full(p)
        BY <1>1 DEF PassedOver
      <4>2. D!Ahead(order, pos, filled) = filled
        BY <1>1, <1>3, <2>3
      <4>3. Cardinality(filled) < room
        BY <1>1, <1>3, <1>6
      <4> QED
        BY <1>1, <1>4, <4>1, <4>2, <4>3, FullIsFull, SameCardinality, Zenon DEF D!Deserves
    <3>2. p \notin D!Barred(Cohort, taken, pins)
      BY <1>1, <1>6, SameScoring DEF D!Barred, PassedOver, Pinned
    <3> QED
      BY <1>1, <1>2, <2>1, <2>4, <2>5, <2>7, <3>1, <3>2 DEF Decided
  <2> QED
    BY <1>1, <1>2, <1>5, <2>1, <2>2, <2>6, <2>7 DEF IInv, Filling
<1>13. Pinning' /\ NoDoubleSelection'
  BY <1>1, <1>2 DEF IInv, Pinning, NoDoubleSelection
<1> QED
  BY <1>8, <1>9, <1>11, <1>12, <1>13 DEF IInv

\* The candidate at hand is passed over: it deserved none.
LEMMA SkipProbeIInv == IInv /\ SkipProbe => IInv'
<1> SUFFICES ASSUME IInv, SkipProbe PROVE IInv'
  OBVIOUS
<1> DEFINE p == order[pos]
           room == Cohort.count - Cardinality(pins)
<1>1. /\ pc = "fill" /\ pos \in DOMAIN order /\ PassedOver(p) /\ pos' = pos + 1
  BY DEF SkipProbe
<1>2. UNCHANGED <<file, config, pool, previous, pc, m, j, taken, results, orders,
                  excluded, remaining, pins, filled, occ, order>>
  BY DEF SkipProbe, outer, cohortVars
<1>3. /\ Running
      /\ order \in Seq(pool)
      /\ \A i, k \in DOMAIN order : order[i] = order[k] => i = k
      /\ pos \in Nat \ {0} /\ pool \subseteq Probes
  BY <1>1, FillFacts
<1>4. p \in pool
  BY <1>1, <1>3
<1>5. Cohort' = Cohort /\ Present' = Present
      /\ D!FirstPins(Cohort)' = D!FirstPins(Cohort)
  BY <1>2, Steady
<1>6. excluded = taken \cup Cohort.exclude \cup Pinned \cup filled
  BY <1>1 DEF IInv, SlotsSound
<1>7. \A q \in filled : \E i \in DOMAIN order : i < pos /\ order[i] = q
  BY <1>1 DEF IInv, Filling, Seen
<1>8. /\ \A i \in DOMAIN order : i >= pos => D!Ahead(order, i, filled) = filled
      /\ p \notin filled
  <2>1. /\ order \in Seq(pool) /\ pos \in Nat \ {0} /\ pos \in DOMAIN order
        /\ \A i, k \in DOMAIN order : order[i] = order[k] => i = k
    BY <1>1, <1>3
  <2> QED
    BY <1>7, <2>1, AheadFacts
<1>9. TypeOK'
  BY <1>1, <1>2, <1>3 DEF IInv, TypeOK
<1>10. Loaded' /\ CacheSound' /\ TakenSound'
  BY <1>1, <1>2 DEF IInv, Loaded, Running, CacheSound, TakenSound, D!TakenBy
<1>11. SlotsSound' /\ Pinning' /\ NoDoubleSelection'
  BY <1>1, <1>2, <1>5 DEF IInv, SlotsSound, Pinned, D!InCell, Pinning, NoDoubleSelection
<1>12. Filling'
  <2>1. Seen = {i \in DOMAIN order : i < pos} /\ Seen' = Seen \cup {pos}
    BY <1>1, <1>2, <1>3 DEF Seen
  <2>2. ASSUME NEW i
        PROVE  D!Deserves(Cohort, order, i, room, filled)'
                 <=> D!Deserves(Cohort, order, i, room, filled)
    <3>1. /\ \A cell : D!Capacity(Cohort, cell)' = D!Capacity(Cohort, cell)
          /\ Cohort' = Cohort /\ order' = order /\ pins' = pins /\ filled' = filled
      BY <1>2, <1>5, SteadyFill
    <3>2. D!Ahead(order, i, filled)' = D!Ahead(order, i, filled)
      BY <3>1 DEF D!Ahead
    <3> QED
      BY <3>1, <3>2, Zenon DEF D!Deserves
  <2>3. D!Barred(Cohort, taken, pins)' = D!Barred(Cohort, taken, pins)
    BY <1>2, SteadyFill
  <2>4. \A i \in Seen : Decided(i)
    BY <1>1 DEF IInv, Filling
  <2>5. Decided(pos)
    <3>1. CASE Full(p)
      <4>1. ~D!Deserves(Cohort, order, pos, room, filled)
        <5>1. D!Ahead(order, pos, filled) = filled
          BY <1>1, <1>3, <1>8
        <5> QED
          BY <1>1, <1>4, <3>1, <5>1, FullIsFull, SameCardinality, Zenon DEF D!Deserves
      <4> QED
        BY <1>8, <4>1 DEF Decided
    <3>2. CASE p \in excluded \/ HardExcluded(p, Cohort.cfg.excludeTags)
      <4>1. p \in D!Barred(Cohort, taken, pins)
        BY <1>4, <1>6, <1>8, <3>2, SameScoring DEF D!Barred, Pinned
      <4> QED
        BY <1>8, <4>1 DEF Decided
    <3> QED
      BY <1>1, <3>1, <3>2 DEF PassedOver
  <2>6. ASSUME NEW i \in Seen'
        PROVE  Decided(i)'
    <3>1. Decided(i)
      BY <2>1, <2>4, <2>5
    <3> QED
      BY <1>2, <2>2, <2>3, <3>1 DEF Decided
  <2>7. filled \subseteq {order[i] : i \in Seen'}
    BY <1>7, <2>1
  <2> QED
    BY <1>1, <1>2, <1>5, <2>6, <2>7 DEF IInv, Filling
<1> QED
  BY <1>9, <1>10, <1>11, <1>12 DEF IInv

\* A probe that fills a slot is barred from none.
LEMMA FilledUntaken ==
    ASSUME IInv, pc \in {"pins", "fill"}
    PROVE  filled \cap taken = {} /\ filled \cap Pinned = {}
<1>1. CASE pc = "pins"
  BY <1>1 DEF IInv, Pinning
<1>2. CASE pc = "fill"
  <2>1. \A q \in filled : q \notin D!Barred(Cohort, taken, pins)
    BY <1>2 DEF IInv, Filling, Decided
  <2> QED
    BY <2>1 DEF D!Barred, Pinned
<1> QED
  BY <1>1, <1>2

\* What a cohort that is finished has been given.
LEMMA Given ==
    ASSUME IInv, pc \in {"pins", "fill"}
    PROVE  /\ PinsOf(config, Result) = Pinned
           /\ Chosen(config, Result) = Pinned \cup filled
           /\ Chosen(config, Result) \subseteq Probes
<1>1. PinsOf(config, Result) = Pinned
  BY DEF PinsOf, Result, Pinned, Cohort
<1>2. Chosen(config, Result) = Pinned \cup filled
  BY <1>1 DEF Chosen, Result
<1>3. Pinned \subseteq pool /\ filled \subseteq pool /\ pool \subseteq Probes
  BY DEF IInv, SlotsSound, TypeOK, Pinned, Present
<1> QED
  BY <1>1, <1>2, <1>3

\* The cohort is done, and what it has is excluded from the next.
LEMMA FinishCohortIInv == IInv /\ FinishCohort => IInv'
<1> SUFFICES ASSUME IInv, FinishCohort PROVE IInv'
  OBVIOUS
<1>1. pc \in {"pins", "fill"} /\ Running /\ NextCohort /\ results' = results \cup {Result}
  BY DEF FinishCohort, Running
<1>2. UNCHANGED <<file, config, pool, previous, orders, excluded, remaining, pins,
                  filled, occ, order, pos>>
  BY DEF FinishCohort, outer, cohortVars
<1>3. /\ Loaded'
      /\ m' \in Nat \ {0} /\ j' \in Nat \ {0}
      /\ pc' \in {"cohort", "done"}
  BY <1>1, <1>2, Advanced DEF IInv
<1>4. /\ PinsOf(config, Result) = Pinned
      /\ Chosen(config, Result) = Pinned \cup filled
      /\ Chosen(config, Result) \subseteq Probes
  BY <1>1, Given
<1>5. Result.m = m /\ Result.j = j /\ Result.pins = pins /\ Result.filled = filled
  BY DEF Result
<1>6. TypeOK'
  <2>1. taken' \subseteq Probes
    BY <1>1, <1>4 DEF NextCohort, IInv, TypeOK
  <2>2. Result \in [m : Nat, j : Nat, pins : SUBSET Nat, filled : SUBSET Probes]
    BY DEF IInv, TypeOK, Result
  <2> QED
    BY <1>1, <1>2, <1>3, <2>1, <2>2 DEF IInv, TypeOK
<1>7. CacheSound'
  BY <1>2 DEF IInv, CacheSound
<1>8. /\ \A r \in results : r.m < m \/ (r.m = m /\ r.j < j)
      /\ taken = D!TakenBy(results, m)
      /\ m \in Nat /\ j \in Nat
      /\ \A r \in results : r.m \in Nat /\ r.j \in Nat
  BY <1>1 DEF IInv, TakenSound, TypeOK
<1>9. TakenSound'
  <2>1. CASE j < LastCohort(config, m)
    <3>1. m' = m /\ j' = j + 1 /\ taken' = taken \cup Chosen(config, Result)
      BY <1>1, <2>1 DEF NextCohort
    <3>2. D!TakenBy(results', m) = D!TakenBy(results, m) \cup Chosen(config, Result)
      <4>1. \A r : D!Chosen(config, r) = Chosen(config, r)
        BY SameConfiguration
      <4> QED
        BY <1>1, <1>5, <4>1 DEF D!TakenBy
    <3>3. D!TakenBy(results, m)' = D!TakenBy(results', m)
      BY <1>2, <3>1 DEF D!TakenBy
    <3>4. \A r \in results' : r.m < m' \/ (r.m = m' /\ r.j < j')
      BY <1>1, <1>5, <1>8, <3>1
    <3> QED
      BY <1>8, <3>1, <3>2, <3>3, <3>4 DEF TakenSound
  <2>2. CASE ~(j < LastCohort(config, m))
    <3>1. m' = m + 1 /\ j' = 1 /\ taken' = {}
      BY <1>1, <2>2 DEF NextCohort
    <3>2. \A r \in results' : r.m < m'
      BY <1>1, <1>5, <1>8, <3>1
    <3>3. \A r \in results' : r.m # m'
      BY <1>1, <1>5, <1>8, <3>1
    <3>4. D!TakenBy(results, m)' = {}
      BY <3>3 DEF D!TakenBy
    <3> QED
      BY <3>1, <3>2, <3>4 DEF TakenSound
  <2> QED
    BY <2>1, <2>2
<1>10. SlotsSound' /\ Pinning' /\ Filling'
  BY <1>3 DEF SlotsSound, Pinning, Filling
<1>11. NoDoubleSelection'
  <2>1. \A r \in results : r.m = m => Chosen(config, r) \subseteq taken
    <3>1. \A r : D!Chosen(config, r) = Chosen(config, r)
      BY SameConfiguration
    <3> QED
      BY <1>8, <3>1 DEF D!TakenBy
  <2>2. filled \cap taken = {} /\ filled \cap Pinned = {}
    BY <1>1, FilledUntaken
  <2>3. \A r \in results : ~(m = r.m /\ j < r.j) /\ ~(j < j)
    BY <1>8
  <2>4. ASSUME NEW r \in results'
        PROVE  /\ r.filled \cap PinsOf(config, r) = {}
               /\ \A s \in results' :
                    s.m = r.m /\ s.j < r.j => Chosen(config, s) \cap r.filled = {}
    <3>1. CASE r \in results
      BY <1>1, <1>5, <2>3, <3>1 DEF IInv, NoDoubleSelection
    <3>2. CASE r = Result
      BY <1>1, <1>4, <1>5, <1>8, <2>1, <2>2, <2>3, <3>2
    <3> QED
      BY <1>1, <3>1, <3>2
  <2> QED
    BY <1>2, <2>4 DEF NoDoubleSelection, Chosen, PinsOf, CohortAt
<1> QED
  BY <1>3, <1>6, <1>7, <1>9, <1>10, <1>11 DEF IInv

\* Every step keeps IInv.
LEMMA NextIInv == IInv /\ [Next]_vars => IInv'
<1>1. IInv /\ UNCHANGED vars => IInv'
  <2> SUFFICES ASSUME IInv, UNCHANGED vars PROVE IInv'
    OBVIOUS
  <2>1. UNCHANGED <<file, config, pool, previous, pc, m, j, taken, results, orders,
                    excluded, remaining, pins, filled, occ, order, pos>>
    BY DEF vars, outer, cohortVars
  <2>2. Cohort' = Cohort /\ Present' = Present
        /\ D!FirstPins(Cohort)' = D!FirstPins(Cohort)
    BY <2>1, Steady
  <2>3. TypeOK' /\ Loaded' /\ CacheSound' /\ TakenSound' /\ NoDoubleSelection'
    BY <2>1 DEF IInv, TypeOK, Loaded, Running, CacheSound, TakenSound, D!TakenBy,
        NoDoubleSelection
  <2>4. SlotsSound' /\ Pinning'
    BY <2>1, <2>2 DEF IInv, SlotsSound, Pinned, D!InCell, Pinning
  <2>5. Filling'
    <3>1. \A i : Decided(i)' <=> Decided(i)
      BY <2>1 DEF Decided, D!Barred, D!Deserves, D!Ahead, D!Capacity, Cohort
    <3> QED
      BY <2>1, <2>2, <3>1 DEF IInv, Filling, Seen
  <2> QED
    BY <2>3, <2>4, <2>5 DEF IInv
<1> QED
  BY <1>1, LoadIInv, BeginCohortIInv, CancelIInv, PinProbeIInv, SkipAbsentPinIInv,
     OrderProbesIInv, PickProbeIInv, SkipProbeIInv, FinishCohortIInv, ProbeLeavesIInv
     DEF Next

\* IInv holds in every reachable state.
LEMMA SpecIInv == Spec => []IInv
<1> QED
  BY InitIInv, NextIInv, PTL DEF Spec

-----------------------------------------------------------------------------
(* Theorems.                                                                *)

\* Variables have the types of the code's, whatever the files and snapshots.
THEOREM SpecTypeOK == Spec => []TypeOK
<1>1. IInv => TypeOK
  BY DEF IInv
<1> QED
  BY <1>1, SpecIInv, PTL

\* No probe fills a slot of a measurement in which an earlier cohort has it, or
\* that this cohort pins it to: the set that Select shares among the cohorts of
\* a measurement forgets nobody, pinned or found.
THEOREM SpecNoDoubleSelection == Spec => []NoDoubleSelection
<1>1. IInv => NoDoubleSelection
  BY DEF IInv
<1> QED
  BY <1>1, SpecIInv, PTL

\* Configurations of finite radii have keys of their own.
DistinctKeys ==
    \A c, d \in Cfgs : FiniteRadii(c) /\ OrderKey(c) = OrderKey(d) => c = d

\* A cohort fills its slots in the order of its own configuration, when the
\* cache key tells that configuration from the others of the file.
THEOREM SpecCachedOrderIsOwn == DistinctKeys => (Spec => []CachedOrderIsOwn)
<1> SUFFICES ASSUME DistinctKeys
             PROVE  Spec => []CachedOrderIsOwn
  OBVIOUS
<1>1. IInv => CachedOrderIsOwn
  <2> SUFFICES ASSUME IInv, pc = "fill", FiniteRadii(Cohort.cfg)
               PROVE  order = Orderer(pool, Cohort.cfg)
    BY DEF CachedOrderIsOwn
  <2>1. PICK like \in Cfgs : OrderKey(like) = OrderKey(Cohort.cfg)
                             /\ order = Orderer(pool, like)
    BY DEF IInv, Filling
  <2>2. Cohort.cfg \in Cfgs
    BY AtHand DEF IInv, Running
  <2> QED
    BY <2>1, <2>2 DEF DistinctKeys
<1> QED
  BY <1>1, SpecIInv, PTL

\* The probes a cohort ends with are the ones Draft says deserve its slots.
LEMMA ResultJustified ==
    ASSUME IInv, FinishCohort
    PROVE  D!Justified(Result) /\ pins = D!FirstPins(Cohort) /\ filled \subseteq pool
<1>1. pc \in {"pins", "fill"} /\ Running
      /\ (pc = "pins" => remaining <= 0)
      /\ (pc = "fill" => remaining <= 0 \/ pos \notin DOMAIN order)
  BY DEF FinishCohort, Running
<1>2. /\ Result.m = m /\ Result.j = j /\ Result.pins = pins /\ Result.filled = filled
      /\ D!CohortAt(config, m, j) = Cohort
  BY SameConfiguration DEF Result, Cohort
<1>3. /\ Cohort.cfg \in Cfgs /\ Cohort.count \in Nat /\ remaining \in Nat
      /\ taken = D!TakenBy(results, m) /\ filled \subseteq pool
      /\ remaining = Cohort.count - Cardinality(pins) - Cardinality(filled)
  BY <1>1, AtHand DEF IInv, TypeOK, TakenSound, SlotsSound
<1> DEFINE room == Cohort.count - Cardinality(pins)
<1>4. pins = D!FirstPins(Cohort)
  <2>1. CASE pc = "pins"
    BY <1>1, <1>3, <2>1, PinsDone
  <2>2. CASE pc = "fill"
    BY <2>2 DEF IInv, Filling
  <2> QED
    BY <1>1, <2>1, <2>2
<1>5. ASSUME NEW like \in Cfgs, OrderKey(like) = OrderKey(Cohort.cfg),
             D!Fair(Cohort, taken, pins, filled, Orderer(pool, like))
      PROVE  D!Justified(Result)
  BY <1>2, <1>3, <1>4, <1>5 DEF D!Justified
<1>6. CASE pc = "pins"
  <2> DEFINE o == Orderer(pool, Cohort.cfg)
  <2>1. filled = {} /\ room = 0
    <3>1. filled = {} /\ Cardinality(pins) \in Nat
      BY <1>1, <1>6, PresentFinite DEF IInv, Pinning, SlotsSound
    <3>2. Cardinality(filled) = 0 /\ remaining = 0
      BY <1>1, <1>3, <1>6, <3>1, FS_EmptySet
    <3> QED
      BY <1>3, <3>1, <3>2
  <2>2. ASSUME NEW i
        PROVE  ~D!Deserves(Cohort, o, i, room, filled)
    <3>1. D!Ahead(o, i, filled) = {}
      BY <2>1 DEF D!Ahead
    <3>2. D!Cardinality({}) = 0
      BY SameCardinality, FS_EmptySet
    <3>3. ~(0 < room)
      BY <2>1
    <3> QED
      BY <3>1, <3>2, <3>3, Zenon DEF D!Deserves
  <2>3. D!Fair(Cohort, taken, pins, filled, o)
    BY <1>3, <2>1, <2>2, SameCardinality DEF D!Fair
  <2> QED
    BY <1>3, <1>4, <1>5, <2>3
<1>7. CASE pc = "fill"
  <2>1. /\ order \in Seq(pool) /\ pos \in Nat \ {0}
        /\ \A i, k \in DOMAIN order : order[i] = order[k] => i = k
    BY <1>7, FillFacts
  <2>2. \A q \in filled : \E i \in DOMAIN order : i < pos /\ order[i] = q
    BY <1>7 DEF IInv, Filling, Seen
  <2>3. \A i \in DOMAIN order : i >= pos => D!Ahead(order, i, filled) = filled
    BY <2>1, <2>2, AheadFacts
  <2>4. \A i \in DOMAIN order : i < pos => Decided(i)
    BY <1>7 DEF IInv, Filling, Seen
  <2>5. ASSUME NEW i \in DOMAIN order, i >= pos
        PROVE  Decided(i)
    <3>1. order[i] \notin filled
      BY <2>1, <2>2, <2>5
    <3>2. remaining = 0
      BY <1>1, <1>3, <1>7, <2>1, <2>5
    <3>3. Cardinality(filled) = room /\ room \in Nat
      BY <1>3, <1>7, <3>2, FillFacts
    <3>4. ~(Cardinality(filled) < room)
      BY <3>3
    <3>5. ~D!Deserves(Cohort, order, i, room, filled)
      BY <2>3, <2>5, <3>4, SameCardinality, Zenon DEF D!Deserves
    <3> QED
      BY <3>1, <3>5 DEF Decided
  <2>6. \A i \in DOMAIN order : Decided(i)
    BY <2>1, <2>4, <2>5
  <2>7. D!Fair(Cohort, taken, pins, filled, order)
    BY <1>3, <2>6, SameCardinality DEF D!Fair, Decided
  <2> QED
    BY <1>3, <1>4, <1>5, <1>7, <2>7 DEF IInv, Filling
<1> QED
  BY <1>1, <1>3, <1>4, <1>6, <1>7

\* Selection implements Draft: the two loops, the occupancy counts, the shared
\* set of exclusions and the cache of orders give every cohort its pins and the
\* probes that deserve its other slots.
THEOREM SpecFollowsDraft == Spec => FollowsDraft
<1>1. Init => D!DraftInit
  BY DEF Init, D!DraftInit, Phase
<1>2. IInv /\ [Next]_vars => [D!DraftNext]_(D!draftVars)
  <2> SUFFICES ASSUME IInv, [Next]_vars
               PROVE  D!DraftNext \/ UNCHANGED <<file, config, pool, Phase, m, j,
                                                 results, previous>>
    BY DEF D!draftVars
  <2>1. CASE Load
    <3>1. D!ApplyDefaults(file) = ApplyDefaults(file) /\ D!Valid(config') = Valid(config')
      BY SameConfiguration
    <3>2. D!Configure
      BY <2>1, <3>1 DEF Load, D!Configure, Phase
    <3> QED
      BY <3>2 DEF D!DraftNext
  <2>2. CASE Cancel
    BY <2>2 DEF Cancel, outer, D!Interrupt, D!DraftNext, Phase
  <2>3. CASE ProbeLeaves
    BY <2>3 DEF ProbeLeaves, D!Redo, D!DraftNext, Phase
  <2>4. CASE FinishCohort
    <3>1. D!Justified(Result) /\ pins = D!FirstPins(Cohort) /\ filled \subseteq pool
      BY <2>4, ResultJustified
    <3>2. /\ Phase = "running" /\ results' = results \cup {Result} /\ NextCohort
          /\ UNCHANGED <<file, config, pool, previous>>
      BY <2>4 DEF FinishCohort, Phase, outer
    <3>3. Result = [m |-> m, j |-> j, filled |-> filled,
                    pins |-> D!FirstPins(D!CohortAt(config, m, j))]
      BY <3>1, SameConfiguration DEF Result, Cohort
    <3>4. D!Advance
      BY <3>2, SameConfiguration DEF NextCohort, D!Advance, Phase
    <3>5. D!FillCohort
      BY <3>1, <3>2, <3>3, <3>4 DEF D!FillCohort
    <3> QED
      BY <3>5 DEF D!DraftNext
  <2>5. CASE BeginCohort
    BY <2>5 DEF BeginCohort, outer, Phase
  <2>6. CASE PinProbe \/ SkipAbsentPin
    BY <2>6 DEF PinProbe, SkipAbsentPin, outer, Phase
  <2>7. CASE OrderProbes
    BY <2>7 DEF OrderProbes, outer, Phase
  <2>8. CASE PickProbe \/ SkipProbe
    BY <2>8 DEF PickProbe, SkipProbe, outer, Phase
  <2>9. CASE UNCHANGED vars
    BY <2>9 DEF vars, outer, Phase
  <2> QED
    BY <2>1, <2>2, <2>3, <2>4, <2>5, <2>6, <2>7, <2>8, <2>9 DEF Next
<1> QED
  BY <1>1, <1>2, SpecIInv, PTL DEF Spec, FollowsDraft, D!DraftSpec

=============================================================================
