----------------------------- MODULE MCSelection -----------------------------
(***************************************************************************)
(* Small instances of SelectAll: six probes, configuration files for TLC.  *)
(***************************************************************************)
EXTENDS SelectAll

\* Cell at resolution 2 and at 3 and above.
In(coarse, fine) == [res \in 2..4 |-> IF res = 2 THEN coarse ELSE fine]

Probe(asn, cc, tags, hash, cells) ==
    [asn |-> asn, country |-> cc, tags |-> tags, hash |-> hash, cells |-> cells]

\* Two cells with two probes each, one of them across a border of zones, a
\* country the table has not, and hashes that do not follow the IDs.
MCInfo ==
    <<Probe(1, "US", {"home"}, 10, In("west", "ashburn")),
      Probe(1, "US", {}, 20, In("west", "ashburn")),
      Probe(2, "ES", {"dc"}, 60, In("east", "gibraltar")),
      Probe(2, "ES", {}, 30, In("east", "madrid")),
      Probe(3, "MA", {"dc", "home"}, 50, In("east", "gibraltar")),
      Probe(1, "XX", {}, 40, In("west", "atlantic"))>>

MCCountryZone == [cc \in {"US", "ES", "MA"} |->
                     CASE cc = "US" -> "NA" [] cc = "ES" -> "EU" [] cc = "MA" -> "MENA"]

MCDefaultNS == <<"atlasctl">>

MCPool  == {1, 2, 3, 4, 5, 6}
MCPools == {MCPool}

-----------------------------------------------------------------------------
(* Cohort configurations.                                                   *)

Map(key, weight) == [k \in {key} |-> weight]

Unshuffled(cfg) == [cfg EXCEPT !.unshuffled = TRUE]

City(near, radius, coef, score) ==
    [name |-> <<"city">>, near |-> near, radius |-> radius, coef |-> coef,
     score |-> score]

\* A negative score, a score below a band of its own, and a tag in both maps.
Weighted ==
    [ZeroCfg EXCEPT !.asn = Map(2, 7), !.tags = Map("dc", 4),
                    !.stability = Map("dc", 3), !.countries = Map("US", -4),
                    !.thresholds = [a |-> 0, b |-> 10, c |-> 1]]

Excluding == [ZeroCfg EXCEPT !.excludeTags = {"dc", "x"}]
Coarse    == [ZeroCfg EXCEPT !.resolution = 2]

\* Two cities that share a probe: one relaxes the cell and adds to scores, so that
\* its probes overtake those of a country with a weight; one tightens it.
Cities == [ZeroCfg EXCEPT !.countries = Map("ES", 8),
                          !.cities = <<City({1, 2}, 50, 250, 20),
                                       City({2, 3, 4}, 50, 50, 0)>>]

\* They share the key of the order, whatever the weight.
Everywhere(weight) ==
    [ZeroCfg EXCEPT !.countries = Map("ES", weight),
                    !.cities = <<City(MCPool, Infinite, 100, 0)>>]

BadCity == [ZeroCfg EXCEPT !.cities = <<City({}, 0, 100, 0)>>]
TooFine == [ZeroCfg EXCEPT !.resolution = 16]

MCCfgs == {ZeroCfg, Unshuffled(ZeroCfg), Weighted, Unshuffled(Weighted),
           Excluding, Unshuffled(Excluding), Coarse, Cities,
           Unshuffled(Coarse), Everywhere(0), Everywhere(20),
           BadCity, TooFine}

-----------------------------------------------------------------------------
(* Files.                                                                   *)

C(name, count, perCell, include, exclude, cfg) ==
    [name |-> name, count |-> count, perCell |-> perCell, interval |-> 700,
     include |-> include, exclude |-> exclude, preset |-> NoName, cfg |-> cfg]

Msm(name, type, cohorts) ==
    [name |-> name, type |-> type, target |-> "example.com", af |-> 0,
     method |-> "", version |-> "", cohorts |-> cohorts]

File(ns, msms) ==
    [ns |-> ns, presets |-> [n \in {<<"fast">>} |-> Weighted], measurements |-> msms]

\* Slots, cells, a probe pinned twice, pins of absent probes, more pins than
\* slots, a pin that is also excluded.
First(cfg) ==
    {C(<<"a">>, 3, 1, <<>>, {}, cfg),
     C(<<"a">>, 2, 2, <<2, 2>>, {}, cfg),
     C(<<"a">>, 4, 1, <<9, 3, 1>>, {3, 4}, cfg),
     C(<<"a">>, 1, 1, <<5, 6>>, {}, cfg),
     C(<<"a">>, 3, 2, <<4>>, {1}, cfg)}

Second ==
    {C(<<"b">>, 2, 1, <<>>, {}, ZeroCfg),
     C(<<"b">>, 3, 2, <<2>>, {1}, Unshuffled(Coarse)),
     C(<<"b">>, 2, 1, <<>>, {}, Cities),
     C(<<"b">>, 3, 1, <<>>, {}, Everywhere(20)),
     [C(<<"b">>, 2, 2, <<>>, {}, ZeroCfg) EXCEPT !.preset = <<"fast">>]}

FirstCfgs == {ZeroCfg, Unshuffled(ZeroCfg), Weighted, Unshuffled(Weighted),
              Unshuffled(Excluding), Unshuffled(Coarse), Cities, Everywhere(0)}

Pairs ==
    {File(<<>>, <<Msm(<<"m">>, "ping", <<f, s>>)>>) :
        f \in UNION {First(cfg) : cfg \in FirstCfgs}, s \in Second}

\* Two measurements, which share cohort names, order and nothing else.
Two(cohort) ==
    File(<<"prod">>,
         <<Msm(<<"m">>, "http", <<cohort>>),
           Msm(<<"n">>, "dns", <<[cohort EXCEPT !.interval = 7200]>>)>>)

Twos == {Two(c) : c \in First(ZeroCfg) \cup First(Cities)}

\* Names with the tag's separators and with namespaces in them.
Names == {<<"m">>, <<"m", ":", "a">>, <<"]">>, <<"atlasctl">>, <<"[", "prod">>}

NamedFiles ==
    {File(ns, <<Msm(n, "traceroute",
                    <<C(k, 1, 1, <<>>, {}, Unshuffled(ZeroCfg)),
                      C(<<"a">>, 1, 1, <<>>, {}, Unshuffled(ZeroCfg))>>)>>) :
        ns \in {<<>>, <<"my-", "atlasctl">>, <<"prod", ":", "eu">>}, n \in Names, k \in Names}

Cohort1 == C(<<"a">>, 1, 1, <<>>, {}, ZeroCfg)
Msm1    == Msm(<<"m">>, "ping", <<Cohort1>>)
With(cohort) == File(<<>>, <<[Msm1 EXCEPT !.cohorts = <<cohort>>]>>)

\* No measurement at all, and one thing wrong in each of the others.
OddFiles ==
    {File(<<>>, <<>>),
     File(<<>>, <<Msm1, [Msm1 EXCEPT !.type = "dns"]>>),
     File(<<>>, <<Msm(<<>>, "ping", <<Cohort1>>)>>),
     File(<<>>, <<Msm(<<"m">>, "icmp", <<Cohort1>>)>>),
     File(<<>>, <<[Msm1 EXCEPT !.target = ""]>>),
     File(<<>>, <<[Msm1 EXCEPT !.af = 5]>>),
     File(<<>>, <<[Msm1 EXCEPT !.type = "http", !.method = "PUT"]>>),
     File(<<>>, <<[Msm1 EXCEPT !.cohorts = <<>>]>>),
     File(<<>>, <<[Msm1 EXCEPT !.cohorts = <<Cohort1, Cohort1>>]>>),
     [File(<<>>, <<Msm1>>) EXCEPT !.presets[<<"fast">>] = BadCity],
     With([Cohort1 EXCEPT !.count = 0]), With([Cohort1 EXCEPT !.perCell = -1]),
     With([Cohort1 EXCEPT !.interval = 0]),
     With([Cohort1 EXCEPT !.preset = <<"slow">>]),
     With([Cohort1 EXCEPT !.cfg = TooFine])}

MCFiles == Pairs \cup Twos \cup NamedFiles \cup OddFiles

MCOtherNamespaces ==
    {<<"atlasctl">>, <<"prod">>, <<"my-", "atlasctl">>, <<"[", "atlasctl">>}

\* One cohort with no configuration of its own, and no third zone.
MCDefaultFiles ==
    {File(<<>>, <<Msm(<<"m">>, "ping", <<C(<<"a">>, 3, 1, <<>>, {}, ZeroCfg)>>)>>)}

MCDefaultPools == {MCPool \ {5}}

=============================================================================
