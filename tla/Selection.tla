------------------------------ MODULE Selection ------------------------------
(***************************************************************************)
(* One invocation of a command up to its selected probes: config.Load,     *)
(* selectAll (cmd/atlasctl/plan.go) and, for each measurement, Select      *)
(* (pkg/selection/select.go), one action per iteration of its loops; and   *)
(* then the next invocation, after a probe has left the snapshot.          *)
(*                                                                         *)
(* taken is interCohortExcluded and excluded is cohortExcluded.  The slots *)
(* of a cohort are pins, the positions of IncludeProbeIDs that got one, and *)
(* filled, the probes found by the second loop: in no consumer does their  *)
(* order matter.  orders is the cache inside the orderer, whose key leaves *)
(* out the pool: it lives for one invocation.                              *)
(***************************************************************************)
EXTENDS Scoring, Configuration

CONSTANTS
    Cfgs,           \* cohort configurations that occur in a file
    Files,          \* configuration files
    Pools,          \* snapshots: sets of probes
    Orderer(_, _),  \* ProbeOrderer: the order of a pool for a configuration
    OrderKey(_),    \* the key under which it is cached
    NoConfig        \* nothing loaded

VARIABLES
    file, config, pool, previous,           \* inputs, and the last results
    pc, m, j, taken, results, orders,       \* selectAll and Select
    excluded, remaining, pins, filled, occ, \* the cohort at hand
    order, pos                              \* and its loops

outer == <<file, config, pool, previous>>
cohortVars == <<excluded, remaining, pins, filled, occ>>
vars == <<outer, pc, m, j, taken, results, orders, cohortVars, order, pos>>

CohortSet ==
    [name : Seq(STRING), count : Int, perCell : Int, interval : Int,
     include : Seq(Nat), exclude : SUBSET Nat, preset : Seq(STRING),
     cfg : Cfgs]

MeasurementSet ==
    [name : Seq(STRING), type : STRING, target : STRING, af : Int,
     method : STRING, version : STRING, cohorts : Seq(CohortSet)]

FileSet(presets) ==
    [ns : Seq(STRING), presets : presets, measurements : Seq(MeasurementSet)]

CitySet ==
    [name : Seq(STRING), radius : Int, near : SUBSET Nat, coef : Int, score : Int]

\* Weights are integers, whatever they are given to.
TypedCfg(cfg) ==
    /\ \A k \in DOMAIN cfg.asn : cfg.asn[k] \in Int
    /\ \A k \in DOMAIN cfg.countries : cfg.countries[k] \in Int
    /\ \A k \in DOMAIN cfg.tags : cfg.tags[k] \in Int
    /\ \A k \in DOMAIN cfg.stability : cfg.stability[k] \in Int
    /\ cfg.cities \in Seq(CitySet)

\* An orderer returns each probe of the pool once.
ASSUME SelectionAssumption ==
    /\ \A cfg \in Cfgs : TypedCfg(cfg)
    /\ \A f \in Files :
         /\ f \in FileSet({f.presets})
         /\ \A n \in DOMAIN f.presets : f.presets[n] \in Cfgs
    /\ Pools \subseteq SUBSET Probes
    /\ \A S \in SUBSET Probes, cfg \in Cfgs :
         LET order_ == Orderer(S, cfg) IN
         /\ order_ \in Seq(S)
         /\ \A p \in S : \E i \in DOMAIN order_ : order_[i] = p
         /\ \A i, k \in DOMAIN order_ : order_[i] = order_[k] => i = k
    /\ \A p \in Probes, cfg \in Cfgs :
         cfg.resolution \in 0..15 => CellOf(p, cfg) \in Cells

-----------------------------------------------------------------------------

Cohort == CohortAt(config, m, j)

Result == [m |-> m, j |-> j, pins |-> pins, filled |-> filled]

\* No room in the cell of p.
FullLate(p) ==
    LET cell == CellOf(p, Cohort.cfg) IN
    occ[cell] > CellCapacity(Cohort.perCell, CellCoef(pool, cell, Cohort.cfg))

Full(p) ==
    LET cell == CellOf(p, Cohort.cfg) IN
    occ[cell] >= CellCapacity(Cohort.perCell, CellCoef(pool, cell, Cohort.cfg))

\* The second loop's reasons to pass over p.
PassedOver(p) ==
    p \in excluded \/ HardExcluded(p, Cohort.cfg.excludeTags) \/ Full(p)

-----------------------------------------------------------------------------

Init ==
    /\ file \in Files
    /\ pool \in Pools
    /\ config = NoConfig
    /\ previous = {}
    /\ pc = "load"
    /\ m = 1 /\ j = 1
    /\ taken = {} /\ excluded = {} /\ pins = {} /\ filled = {}
    /\ results = {}
    /\ orders = <<>> /\ order = <<>>
    /\ remaining = 0 /\ pos = 1
    /\ occ = [cell \in Cells |-> 0]

Load ==
    /\ pc = "load"
    /\ config' = ApplyDefaults(file)
    /\ pc' = IF ~Valid(config') THEN "refused"
             ELSE IF config'.measurements = <<>> THEN "done" ELSE "cohort"
    /\ UNCHANGED <<file, pool, previous, m, j, taken, results, orders,
                   cohortVars, order, pos>>

BeginCohort ==
    /\ pc = "cohort"
    /\ excluded' = taken \cup Cohort.exclude
    /\ occ' = [cell \in Cells |-> 0]
    /\ remaining' = Cohort.count
    /\ pins' = {} /\ filled' = {}
    /\ pos' = 1
    /\ pc' = "pins"
    /\ UNCHANGED <<outer, m, j, taken, results, orders, order>>

\* ctx.Err() is looked at once per cohort; Select and selectAll return nil.
Cancel ==
    /\ pc = "cohort"
    /\ pc' = "cancelled"
    /\ results' = {}
    /\ UNCHANGED <<outer, m, j, taken, orders, cohortVars, order, pos>>

PinProbePastCount ==
    /\ pc = "pins"
    /\ pos \in DOMAIN Cohort.include
    /\ Cohort.include[pos] \in pool
    /\ pins' = pins \cup {pos}
    /\ excluded' = excluded \cup {Cohort.include[pos]}
    /\ remaining' = remaining - 1
    /\ pos' = pos + 1
    /\ UNCHANGED <<outer, pc, m, j, taken, results, orders, filled, occ, order>>

PinProbe ==
    /\ pc = "pins"
    /\ remaining > 0
    /\ pos \in DOMAIN Cohort.include
    /\ Cohort.include[pos] \in pool
    /\ pins' = pins \cup {pos}
    /\ excluded' = excluded \cup {Cohort.include[pos]}
    /\ remaining' = remaining - 1
    /\ pos' = pos + 1
    /\ UNCHANGED <<outer, pc, m, j, taken, results, orders, filled, occ, order>>

SkipAbsentPin ==
    /\ pc = "pins"
    /\ remaining > 0
    /\ pos \in DOMAIN Cohort.include
    /\ Cohort.include[pos] \notin pool
    /\ pos' = pos + 1
    /\ UNCHANGED <<outer, pc, m, j, taken, results, orders, cohortVars, order>>

\* The first loop is over and slots are left: the orderer is called.
OrderProbes ==
    /\ pc = "pins"
    /\ remaining > 0
    /\ pos \notin DOMAIN Cohort.include
    /\ LET key == OrderKey(Cohort.cfg) IN
       /\ order' = IF key \in DOMAIN orders THEN orders[key]
                   ELSE Orderer(pool, Cohort.cfg)
       /\ orders' = [k \in DOMAIN orders \cup {key} |->
                        IF k = key THEN order' ELSE orders[k]]
    /\ pos' = 1
    /\ pc' = "fill"
    /\ UNCHANGED <<outer, m, j, taken, results, cohortVars>>

PickProbe ==
    /\ pc = "fill"
    /\ remaining > 0
    /\ pos \in DOMAIN order
    /\ LET p == order[pos] IN
       /\ ~PassedOver(p)
       /\ filled' = filled \cup {p}
       /\ excluded' = excluded \cup {p}
       /\ occ' = [occ EXCEPT ![CellOf(p, Cohort.cfg)] = @ + 1]
    /\ remaining' = remaining - 1
    /\ pos' = pos + 1
    /\ UNCHANGED <<outer, pc, m, j, taken, results, orders, pins, order>>

SkipProbe ==
    /\ pc = "fill"
    /\ remaining > 0
    /\ pos \in DOMAIN order
    /\ PassedOver(order[pos])
    /\ pos' = pos + 1
    /\ UNCHANGED <<outer, pc, m, j, taken, results, orders, cohortVars, order>>

\* What the next cohort of the measurement may not have, or a new set for the
\* next measurement.
NextCohortPinsForgotten ==
    IF j < LastCohort(config, m)
    THEN /\ j' = j + 1
         /\ m' = m
         /\ taken' = taken \cup filled
         /\ pc' = "cohort"
    ELSE /\ j' = 1
         /\ m' = m + 1
         /\ taken' = {}
         /\ pc' = IF m < Len(config.measurements) THEN "cohort" ELSE "done"

NextCohort ==
    IF j < LastCohort(config, m)
    THEN /\ j' = j + 1
         /\ m' = m
         /\ taken' = taken \cup Chosen(config, Result)
         /\ pc' = "cohort"
    ELSE /\ j' = 1
         /\ m' = m + 1
         /\ taken' = {}
         /\ pc' = IF m < Len(config.measurements) THEN "cohort" ELSE "done"

FinishCohort ==
    /\ \/ pc = "pins" /\ remaining <= 0
       \/ pc = "fill" /\ (remaining <= 0 \/ pos \notin DOMAIN order)
    /\ results' = results \cup {Result}
    /\ NextCohort
    /\ UNCHANGED <<outer, orders, cohortVars, order, pos>>

\* The command is run again, once, over a snapshot with one probe less.
ProbeLeaves ==
    /\ pc = "done"
    /\ previous = {}
    /\ \E x \in pool : pool' = pool \ {x}
    /\ previous' = results
    /\ results' = {}
    /\ config' = NoConfig
    /\ pc' = "load"
    /\ m' = 1 /\ j' = 1
    /\ orders' = <<>>
    /\ taken' = {}
    /\ UNCHANGED <<file, cohortVars, order, pos>>

Next ==
    \/ Load \/ BeginCohort \/ Cancel
    \/ PinProbe \/ SkipAbsentPin
    \/ OrderProbes \/ PickProbe \/ SkipProbe
    \/ FinishCohort \/ ProbeLeaves

Spec == Init /\ [][Next]_vars

-----------------------------------------------------------------------------

\* Variables have the types of the code's.
TypeOK ==
    /\ file \in Files
    /\ config \in {NoConfig, ApplyDefaults(file)}
    /\ pool \subseteq Probes
    /\ pc \in {"load", "cohort", "pins", "fill", "done", "refused", "cancelled"}
    /\ m \in Nat \ {0} /\ j \in Nat \ {0}
    /\ taken \subseteq Probes
    /\ excluded \subseteq Nat
    /\ remaining \in Nat
    /\ pins \subseteq Nat
    /\ filled \subseteq Probes
    /\ occ \in [Cells -> Nat]
    /\ order \in Seq(Probes)
    /\ pos \in Nat \ {0}
    /\ \A key \in DOMAIN orders : orders[key] \in Seq(Probes)
    /\ \A r \in results \cup previous :
         r \in [m : Nat, j : Nat, pins : SUBSET Nat, filled : SUBSET Probes]

\* No probe is given two slots of one measurement but by its operator: one that
\* fills a slot was given no earlier cohort of the measurement, and is pinned
\* to none of this cohort's slots (Select: "Each cohort depletes a shared
\* excluded set").
NoDoubleSelection ==
    \A r \in results :
        /\ r.filled \cap PinsOf(config, r) = {}
        /\ \A s \in results :
             s.m = r.m /\ s.j < r.j => Chosen(config, s) \cap r.filled = {}

\* The cache never lends a cohort the order of another configuration, as long
\* as no city is infinitely large (CacheKey: "suitable for use as a cache key").
CachedOrderIsOwn ==
    pc = "fill" /\ FiniteRadii(Cohort.cfg) => order = Orderer(pool, Cohort.cfg)

Phase ==
    IF pc \in {"cohort", "pins", "fill"} THEN "running" ELSE pc

D == INSTANCE Draft WITH phase <- Phase

\* Whatever the loops, counters and caches do, each cohort is given what Draft
\* says it deserves.
FollowsDraft == D!DraftSpec

=============================================================================
