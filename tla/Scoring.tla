------------------------------- MODULE Scoring -------------------------------
(***************************************************************************)
(* pkg/selection/scoring.go: what one probe is worth to one cohort, and    *)
(* how many probes of one H3 cell a cohort may take (select.go).           *)
(*                                                                         *)
(* Abstractions.  Info gives a probe's data; its place is the H3 cell it   *)
(* falls in at each resolution and the cities it is near to, which replace *)
(* coordinates and the haversine distance.  A density coefficient is a     *)
(* whole number of percent.  Tags of a probe are a set.  A map of weights  *)
(* is a function on the keys it has.                                       *)
(***************************************************************************)
EXTENDS Integers, FiniteSets, FiniteSetsExt

CONSTANTS
    Probes,      \* probe IDs that may be in a snapshot
    Info,        \* probe -> [asn, country, tags, hash, cells]
    Cells,       \* H3 cells, of any resolution
    CountryZone  \* country code -> zone, for the codes the table has

ASSUME ProbesAssumption ==
    /\ Probes \subseteq Nat
    /\ IsFiniteSet(Probes)

-----------------------------------------------------------------------------
(* Scores and bands.                                                        *)

BandD == 1
BandC == 2
BandB == 3
BandA == 4

WeightOf(weights, key) == IF key \in DOMAIN weights THEN weights[key] ELSE 0

\* A tag counts in both maps when both have it.
Score(p, cfg) ==
    1 + WeightOf(cfg.asn, Info[p].asn)
      + WeightOf(cfg.countries, Info[p].country)
      + MapThenSumSet(
            LAMBDA t : WeightOf(cfg.tags, t) + WeightOf(cfg.stability, t),
            Info[p].tags)

\* Positions of the cities within whose radius p lies.
NearTo(p, cities) == {i \in DOMAIN cities : p \in cities[i].near}

CityScoreBonus(p, cities) ==
    MapThenSumSet(LAMBDA i : cities[i].score, NearTo(p, cities))

DefaultWeight(p, cfg) == Score(p, cfg) + CityScoreBonus(p, cfg.cities)

\* A threshold of zero stands for its default, each on its own.
Effective(t) ==
    [a |-> IF t.a = 0 THEN 15 ELSE t.a,
     b |-> IF t.b = 0 THEN 8 ELSE t.b,
     c |-> IF t.c = 0 THEN 3 ELSE t.c]

\* The cases are tried in this order, also when thresholds are not.
AssignBand(score, t) ==
    CASE score >= t.a -> BandA
      [] score < t.a /\ score >= t.b -> BandB
      [] score < t.a /\ score < t.b /\ score >= t.c -> BandC
      [] OTHER -> BandD

\* SortKey, for the weight that the default orderer gives it.
Band(p, cfg) == AssignBand(DefaultWeight(p, cfg), Effective(cfg.thresholds))

HardExcluded(p, excludeTags) == Info[p].tags \cap excludeTags # {}

-----------------------------------------------------------------------------
(* Cells.                                                                   *)

EffectiveH3Resolution(cfg) == IF cfg.resolution = 0 THEN 3 ELSE cfg.resolution

CellOf(p, cfg) == Info[p].cells[EffectiveH3Resolution(cfg)]

MaxCityCoef(p, cities) ==
    IF NearTo(p, cities) = {} THEN 100
    ELSE Max({cities[i].coef : i \in NearTo(p, cities)})

\* cellCoef: the most any probe of the snapshot in the cell may claim, chosen
\* or not.
CellCoef(pool, cell, cfg) ==
    Max({0} \cup {MaxCityCoef(p, cfg.cities) :
                    p \in {q \in pool : CellOf(q, cfg) = cell}})

\* cellCapacity: rounded up, and never less than one.  Exact, where the code's
\* product is a float64 (10 * 1.1 comes out above 11 and is rounded up to 12).
CellCapacity(base, coef) ==
    IF coef = 100 THEN base ELSE Max({1, (base * coef + 99) \div 100})

-----------------------------------------------------------------------------

Zones == <<"NA", "EU", "APAC", "LATAM", "MENA", "SSA">>

\* countryZone maps to constants of type Zone; a hash is a uint64, and tags are
\* a list.
ASSUME TableAssumption ==
    /\ \A cc \in DOMAIN CountryZone : \E z \in DOMAIN Zones : Zones[z] = CountryZone[cc]
    /\ \A p \in Probes : Info[p].hash \in Nat /\ IsFiniteSet(Info[p].tags)

ZoneOf(cc) == IF cc \in DOMAIN CountryZone THEN CountryZone[cc] ELSE "NA"

=============================================================================
