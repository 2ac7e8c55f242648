------------------------------ MODULE Estimates ------------------------------
(***************************************************************************)
(* What the commands make of the selected probes: the desired measurements *)
(* (pkg/plan/diff.go), their cost in credits (pkg/plan/credits.go) and the *)
(* report that select prints (pkg/selection/report.go).                    *)
(*                                                                         *)
(* A set of results stands for the map of slices of SelectedCohort.        *)
(***************************************************************************)
EXTENDS Scoring, Configuration, TagCodec

CreditsPerResult(type) ==
    CASE type \in {"dns", "tls", "http"} -> 10
      [] type = "ping"                   -> 3
      [] type = "traceroute"             -> 30
      [] OTHER                           -> 0

PerResultHourlyCredits(n, type, interval) ==
    n * CreditsPerResult(type) * (3600 \div interval)

SpecHourlyCredits(n, type, interval) ==
    (n * CreditsPerResult(type) * 3600) \div interval

SpecDailyCredits(n, type, interval) ==
    (n * CreditsPerResult(type) * 86400) \div interval

\* A pin list that names a probe twice gives it two slots.
Slots(r) == Cardinality(r.pins) + Cardinality(r.filled)

MsmKeyOf(c, r) == [name |-> c.measurements[r.m].name,
                   cohort |-> CohortAt(c, r.m, r.j).name]

\* allSelected keeps, of measurements with one name, the last; desired, of
\* cohorts with one name, the last.
Overwritten(c, rs, r) ==
    \E s \in rs :
        /\ MsmKeyOf(c, s).name = MsmKeyOf(c, r).name
        /\ \/ s.m > r.m
           \/ s.m = r.m /\ s.j > r.j /\ MsmKeyOf(c, s) = MsmKeyOf(c, r)

DesiredState(c, rs) ==
    LET kept == {r \in rs : ~Overwritten(c, rs, r)}
        Spec_(r) ==
            LET msm      == c.measurements[r.m]
                interval == CohortAt(c, r.m, r.j).interval
            IN  [ns |-> CodecOf(c.ns), target |-> msm.target,
                 type |-> msm.type, af |-> msm.af, interval |-> interval,
                 http |-> <<msm.method, msm.version>>,
                 probes |-> Chosen(c, r), count |-> Slots(r),
                 hourly |-> SpecHourlyCredits(Slots(r), msm.type, interval),
                 daily  |-> SpecDailyCredits(Slots(r), msm.type, interval)]
    IN  [k \in {MsmKeyOf(c, r) : r \in kept} |->
            Spec_(CHOOSE r \in kept : MsmKeyOf(c, r) = k)]

EstimateCredits(desired) ==
    LET daily == MapThenSumSet(
                    LAMBDA k : SpecDailyCredits(desired[k].count,
                                   desired[k].type, desired[k].interval),
                    DOMAIN desired)
    IN  [daily |-> daily, weekly |-> 7 * daily]

-----------------------------------------------------------------------------

\* The slots that results fill, each with its probe.
FilledSlots(c, rs) ==
    UNION {{<<r, i, CohortAt(c, r.m, r.j).include[i]>> : i \in r.pins}
           \cup {<<r, 0, p>> : p \in r.filled} : r \in rs}

DefaultBand(c, slot) ==
    LET cfg == CohortAt(c, slot[1].m, slot[1].j).cfg IN
    AssignBand(Score(slot[3], cfg), [a |-> 15, b |-> 8, c |-> 3])

\* The band is that of the score without the bonus of cities.
ReportedBand(c, slot) ==
    LET cfg == CohortAt(c, slot[1].m, slot[1].j).cfg IN
    AssignBand(Score(slot[3], cfg), Effective(cfg.thresholds))

Report(c, rs) ==
    LET slots == FilledSlots(c, rs)
        Having(Feature(_), v) == Cardinality({s \in slots : Feature(s) = v})
        Country(s) == Info[s[3]].country
        InBand(s)  == ReportedBand(c, s)
    IN  [total     |-> Cardinality(slots),
         countries |-> [cc \in {Country(s) : s \in slots} |-> Having(Country, cc)],
         bands     |-> [b \in {InBand(s) : s \in slots} |-> Having(InBand, b)],
         cells     |-> [res \in 2..4 |->
                          Cardinality({Info[s[3]].cells[res] : s \in slots})]]

=============================================================================
