------------------------------ MODULE Ordering -------------------------------
(***************************************************************************)
(* NewDefaultOrderer of pkg/selection/select.go: the order in which a      *)
(* cohort considers the probes of a snapshot, and the key under which that *)
(* order is cached.                                                        *)
(***************************************************************************)
EXTENDS Scoring, Configuration, SequencesExt

\* sort.Slice by (band DESC, hash ASC, ID ASC), a strict total order.
Before(p, q, cfg) ==
    \/ Band(p, cfg) > Band(q, cfg)
    \/ /\ Band(p, cfg) = Band(q, cfg)
       /\ \/ Info[p].hash < Info[q].hash
          \/ Info[p].hash = Info[q].hash /\ p < q

Sorted(pool, cfg) ==
    [i \in 1..Cardinality(pool) |->
        CHOOSE p \in pool :
            Cardinality({q \in pool : Before(q, p, cfg)}) = i - 1]

\* Those of one zone and band, in the order in which the candidates come.
Bucket(candidates, zone, band, cfg) ==
    LET at == {i \in DOMAIN candidates :
                  /\ ZoneOf(Info[candidates[i]].country) = zone
                  /\ Band(candidates[i], cfg) = band}
        Nth(n) == CHOOSE i \in at : Cardinality({k \in at : k < i}) = n - 1
    IN  [n \in 1..Cardinality(at) |-> candidates[Nth(n)]]

InterleaveBlocks(candidates, cfg) ==
    FlattenSeq([b \in 1..4 |->
        FlattenSeq([z \in DOMAIN Zones |->
            Bucket(candidates, Zones[z], 5 - b, cfg)])])

\* Band after band; within a band, in pass n, the n-th of each zone that has
\* as many.
InterleaveContinents(candidates, cfg) ==
    LET Pick(band, pass, zone) ==
            LET b == Bucket(candidates, zone, band, cfg)
            IN  IF pass <= Len(b) THEN <<b[pass]>> ELSE <<>>
        Pass(band, pass) ==
            FlattenSeq([z \in DOMAIN Zones |-> Pick(band, pass, Zones[z])])
        Tier(band) ==
            FlattenSeq([n \in DOMAIN candidates |-> Pass(band, n)])
    IN  FlattenSeq([b \in 1..4 |-> Tier(5 - b)])

AlwaysInterleaved(pool, cfg) == InterleaveContinents(Sorted(pool, cfg), cfg)

DefaultOrder(pool, cfg) ==
    IF cfg.unshuffled THEN Sorted(pool, cfg)
    ELSE InterleaveContinents(Sorted(pool, cfg), cfg)

-----------------------------------------------------------------------------
(* What buckets and passes amount to, without either.                       *)

\* How many probes of its zone and band come before p by hash.
RankInZone(pool, p, cfg) ==
    Cardinality({q \in pool : /\ ZoneOf(Info[q].country) = ZoneOf(Info[p].country)
                              /\ Band(q, cfg) = Band(p, cfg)
                              /\ Before(q, p, cfg)})

ZoneTurn(p) == CHOOSE z \in DOMAIN Zones : Zones[z] = ZoneOf(Info[p].country)

\* Band after band; in a band, no zone gets another pick before every zone that
\* can has had as many.
EarlierTurn(pool, p, q, cfg) ==
    \/ Band(p, cfg) > Band(q, cfg)
    \/ /\ Band(p, cfg) = Band(q, cfg)
       /\ \/ RankInZone(pool, p, cfg) < RankInZone(pool, q, cfg)
          \/ /\ RankInZone(pool, p, cfg) = RankInZone(pool, q, cfg)
             /\ ZoneTurn(p) < ZoneTurn(q)

-----------------------------------------------------------------------------

\* CohortCfg.CacheKey hashes the JSON of the configuration.  JSON has no
\* infinity: with one, Marshal fails, its error is dropped and the key is the
\* hash of nothing.  Hashes of different texts are taken to differ.
CacheKeyOfScoring(cfg) ==
    <<cfg.asn, cfg.countries, cfg.tags, cfg.stability, cfg.thresholds>>

CacheKey(cfg) == IF FiniteRadii(cfg) THEN <<cfg>> ELSE <<>>

=============================================================================
