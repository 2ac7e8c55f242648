---------------------------- MODULE Configuration ----------------------------
(***************************************************************************)
(* pkg/config: the configuration file, the defaults Load fills in and what *)
(* it refuses.                                                             *)
(*                                                                         *)
(* A file is [ns, presets, measurements]: presets maps names to cohort     *)
(* configurations, measurements is a sequence of [name, type, target, af,  *)
(* method, version, cohorts], and a cohort is [name, count, perCell,       *)
(* interval, include, exclude, preset, cfg].  A cohort configuration is    *)
(* [asn, tags, countries, stability, thresholds, excludeTags, resolution,  *)
(* cities, unshuffled], and a city [name, radius, near, coef, score].      *)
(* Names are sequences of characters or of longer tokens.  A list or map   *)
(* that is written but empty is taken for an absent one: nothing tells     *)
(* them apart but the reflect.DeepEqual of applyDefaults, which lets a     *)
(* cohort with a preset and a cfg of empty lists keep its own; that case   *)
(* is left out.  Query type, HTTP path and port are copied and never       *)
(* looked at: left out.                                                    *)
(***************************************************************************)
EXTENDS Integers, Sequences

\* A name or a preset that is not given.
NoName == <<>>

\* The radius `.inf` of YAML: a city that is everywhere.
Infinite == 1000000

\* CohortCfg{}.
ZeroCfg ==
    [asn |-> <<>>, tags |-> <<>>, countries |-> <<>>, stability |-> <<>>,
     thresholds |-> [a |-> 0, b |-> 0, c |-> 0], excludeTags |-> {},
     resolution |-> 0, cities |-> <<>>, unshuffled |-> FALSE]

FiniteRadii(cfg) == \A i \in DOMAIN cfg.cities : cfg.cities[i].radius # Infinite

\* A cohort that names a preset takes it unless it has a configuration of its
\* own; a preset that does not exist is left for validation.
WithPreset(cohort, presets) ==
    IF cohort.preset = NoName \/ cohort.preset \notin DOMAIN presets THEN cohort
    ELSE [cohort EXCEPT
            !.cfg = IF @ = ZeroCfg THEN presets[cohort.preset] ELSE @,
            !.preset = NoName]

ApplyDefaults(f) ==
    [f EXCEPT !.measurements =
        [m \in DOMAIN f.measurements |->
            [f.measurements[m] EXCEPT
                !.af = IF @ = 0 THEN 4 ELSE @,
                !.cohorts = [j \in DOMAIN @ |-> WithPreset(@[j], f.presets)]]]]

-----------------------------------------------------------------------------

ValidCities(cities) ==
    \A i \in DOMAIN cities :
        cities[i].name # NoName /\ cities[i].radius > 0 /\ cities[i].coef > 0

AnyNamed(items) == \A i \in DOMAIN items : items[i].name # NoName

\* Each name given, and given once.
Named(items) ==
    /\ \A i \in DOMAIN items : items[i].name # NoName
    /\ \A i, k \in DOMAIN items : items[i].name = items[k].name => i = k

ValidCohort(cohort) ==
    /\ cohort.count > 0
    /\ cohort.perCell > 0
    /\ cohort.interval > 0
    /\ cohort.preset = NoName
    /\ ValidCities(cohort.cfg.cities)
    /\ cohort.cfg.resolution \in 0..15

ValidMeasurement(msm) ==
    /\ msm.type \in {"dns", "ping", "tls", "traceroute", "http"}
    /\ msm.type = "http" => /\ msm.method \in {"", "GET", "HEAD", "POST"}
                            /\ msm.version \in {"", "1.0", "1.1"}
    /\ msm.target # ""
    /\ msm.af \in {4, 6}
    /\ msm.cohorts # <<>>
    /\ Named(msm.cohorts)
    /\ \A j \in DOMAIN msm.cohorts : ValidCohort(msm.cohorts[j])

\* Of a preset only the cities are validated.
Valid(c) ==
    /\ \A n \in DOMAIN c.presets : ValidCities(c.presets[n].cities)
    /\ Named(c.measurements)
    /\ \A m \in DOMAIN c.measurements : ValidMeasurement(c.measurements[m])

-----------------------------------------------------------------------------

CohortAt(c, m, j) == c.measurements[m].cohorts[j]

LastCohort(c, m) == Len(c.measurements[m].cohorts)

\* What selection gives cohort j of measurement m is a result
\* [m, j, pins, filled]: the positions of its pin list that got a slot, and the
\* probes that fill the others.
PinsOf(c, r) == {CohortAt(c, r.m, r.j).include[i] : i \in r.pins}

Chosen(c, r) == PinsOf(c, r) \cup r.filled

=============================================================================
