------------------------------ MODULE SelectAll ------------------------------
(***************************************************************************)
(* The commands from the configuration to the desired measurements:        *)
(* Selection with the default orderer (a cfg gives Orderer the value       *)
(* DefaultOrder and OrderKey the value CacheKey), and what is computed     *)
(* from its results.  This module only states properties of the whole.     *)
(***************************************************************************)
EXTENDS Selection, Ordering, Estimates

CONSTANT OtherNamespaces  \* namespaces of other configurations

ASSUME NamespacesAssumption == OtherNamespaces \subseteq Seq(STRING)

FinishedRun == pc = "done"

Desired == DesiredState(config, results)

-----------------------------------------------------------------------------
(* The order.                                                               *)

\* In a band no zone gets another pick before every zone that can has had as
\* many, and no probe is lost or comes twice (interleaveContinents).
RoundRobin ==
    /\ pc = "fill" /\ pos = 1
    /\ FiniteRadii(Cohort.cfg) /\ ~Cohort.cfg.unshuffled
    =>
        /\ {order[i] : i \in DOMAIN order} = pool
        /\ \A i, k \in DOMAIN order :
             i < k => EarlierTurn(pool, order[i], order[k], Cohort.cfg)

-----------------------------------------------------------------------------
(* A probe disconnects between two invocations.                             *)

\* Whoever had a slot of the first cohort of a measurement still has one.
KeepsSlots(r) ==
    \A s \in previous :
        s.m = r.m /\ s.j = r.j => Chosen(config, s) \cap pool \subseteq Chosen(config, r)

\* "When a probe disconnects, only its slot opens.  The next probe in hash
\* order fills it with no cascading effect" (docs/selection-reference.md).
\* Within one cohort, the first, and without cities.
OnlyItsSlotOpens ==
    FinishedRun =>
        \A r \in results :
            r.j = 1 /\ CohortAt(config, r.m, r.j).cfg.cities = <<>> => KeepsSlots(r)

\* The same where the order of the others cannot change, because continents are
\* not interleaved: cells, pins and exclusions alone never cascade.
OnlyItsSlotOpensUnshuffled ==
    FinishedRun =>
        \A r \in results :
            LET cfg == CohortAt(config, r.m, r.j).cfg IN
            r.j = 1 /\ cfg.cities = <<>> /\ cfg.unshuffled => KeepsSlots(r)

-----------------------------------------------------------------------------
(* Desired measurements, credits, report.                                   *)

\* No cohort is lost on the way to the plan: the two maps in between are keyed by
\* names, and the estimate shown covers every slot that was selected.
EstimateCoversSelection ==
    FinishedRun =>
        /\ \A r \in results :
             LET k == MsmKeyOf(config, r) IN
             k \in DOMAIN Desired /\ Desired[k].probes = Chosen(config, r)
        /\ EstimateCredits(Desired).daily =
             MapThenSumSet(
                 LAMBDA r : SpecDailyCredits(Slots(r),
                                config.measurements[r.m].type,
                                CohortAt(config, r.m, r.j).interval),
                 results)

\* Hourly and daily credits of a measurement are rounded down separately and
\* never tell two stories: 24 hours cost the day, up to the rounding of each.
HourlyWithinDaily ==
    FinishedRun =>
        \A k \in DOMAIN Desired :
            LET spec == Desired[k] IN
            24 * spec.hourly <= spec.daily /\ spec.daily < 24 * spec.hourly + 24

\* The bands that the report gives the chosen probes are those by which they were
\* chosen (Report: "band assignments reflect the config that actually drove
\* selection"): no probe that the cohort could have is passed over for one of a
\* lower reported band, but where chosen ones of its own band or a higher fill its
\* cell.  Pins aside, which no band chooses.  Not so where a city adds to scores,
\* which the report leaves out, nor with an infinite radius, where the order may be
\* that of another configuration.
ReportedBandsDroveSelection ==
    FinishedRun =>
        \A r \in results :
            LET c        == CohortAt(config, r.m, r.j)
                Shown(p) == ReportedBand(config, <<r, 0, p>>)
                had      == UNION {Chosen(config, s) :
                                     s \in {s \in results : s.m = r.m /\ s.j < r.j}}
                open     == {p \in pool \ (c.exclude \cup had \cup Chosen(config, r)) :
                               ~HardExcluded(p, c.cfg.excludeTags)}
                Rivals(p) == {o \in r.filled : /\ CellOf(o, c.cfg) = CellOf(p, c.cfg)
                                               /\ Shown(o) >= Shown(p)}
            IN  /\ FiniteRadii(c.cfg)
                /\ \A i \in DOMAIN c.cfg.cities : c.cfg.cities[i].score = 0
                => \A p \in open, q \in r.filled :
                     Shown(p) > Shown(q) =>
                       Cardinality(Rivals(p))
                         >= CellCapacity(c.perCell,
                                         CellCoef(pool, CellOf(p, c.cfg), c.cfg))

-----------------------------------------------------------------------------
(* Tags.                                                                    *)

Without(text, token) == \A i \in DOMAIN text : text[i] # token

\* Names that the tag can carry: the cohort's may contain colons (Parse: "so
\* cohort names may contain colons").
Carried(k) ==
    /\ Without(k.name, ":") /\ Without(k.name, "]")
    /\ Without(k.cohort, "]")

TagOf(k) == Format(CodecOf(config.ns), k.name, k.cohort)

\* A measurement created for a cohort is recognised as that cohort's.
TagsFindTheirCohort ==
    FinishedRun =>
        \A k \in DOMAIN Desired :
            Carried(k) =>
                Parse(CodecOf(config.ns), TagOf(k)) =
                    [ok |-> TRUE, name |-> k.name, cohort |-> k.cohort]

\* And it is not taken for its own by a configuration with another namespace:
\* LiveDiff tells a ghost from a changed namespace by that alone.  Not so if the
\* one namespace, with the bracket before it, ends with the other, or if it or a
\* cohort name contains a colon.
ForeignTagsIgnored ==
    FinishedRun =>
        \A k \in DOMAIN Desired, ns \in OtherNamespaces :
            LET own == CodecOf(config.ns) IN
            /\ Carried(k) /\ Without(k.cohort, ":") /\ Without(own, ":")
            /\ ~IsSuffix(ns, <<"[">> \o own)
            => ~Parse(ns, TagOf(k)).ok

=============================================================================
