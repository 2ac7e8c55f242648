----------------------------- MODULE MCReconcile -----------------------------
(***************************************************************************)
(* Small instances of Reconcile: configurations and fleets for TLC.        *)
(***************************************************************************)
EXTENDS Reconcile

Want(attr, http, probes) == [attr |-> attr, http |-> http, probes |-> probes]

Ping(probes) == Want("ping", NoHttp, probes)
Dns(probes)  == Want("dns", NoHttp, probes)

\* Namespace ns, entry w for key "a" and v for every other key.
Conf(ns, w, v) ==
    [ns |-> ns, want |-> [k \in Keys |-> IF k = "a" THEN w ELSE v]]

\* Between them: a create, a stop, a probe added, one removed, a structural
\* change, a change of namespace and back, and nothing to do; and, where the
\* measurement runs under the new namespace already, with and without an edit
\* of its probes.
MCConfigs ==
    {Conf(NoNS, Ping({1}), Ping({2})),
     Conf(NoNS, Ping({2}), Ping({1, 2})),
     Conf(NoNS, Dns({1}), NoSpec),
     Conf("prod", Ping({1}), Ping({1, 2})),
     Conf("prod", Ping({1, 2}), Ping({1, 2}))}

\* The same for key "a" alone.
MCOneKeyConfigs ==
    {Conf(NoNS, Ping({1}), NoSpec), Conf(NoNS, NoSpec, NoSpec),
     Conf("prod", Ping({1}), NoSpec), Conf(NoNS, Dns({1, 2}), NoSpec),
     Conf(NoNS, Ping({2}), NoSpec)}

MCHttpConfigs ==
    {Conf(NoNS, Want("http", opts, {1}), NoSpec) : opts \in {"get", "head"}}

MCProbeConfigs == {Conf("prod", Ping(ps), NoSpec) : ps \in {{1}, {1, 2}}}

Msm(k, ns, status) ==
    [key |-> k, ns |-> ns, attr |-> "ping", http |-> NoHttp, probes |-> {1},
     status |-> status]

Rec(id, ns) ==
    [id |-> id, ns |-> ns, attr |-> "ping", http |-> NoHttp, probes |-> {1}]

\* State file a for key "a" and b for others; msms the measurements 1, 2, ...
Fleet(a, b, msms) ==
    [disk |-> [k \in Keys |-> IF k = "a" THEN a ELSE b],
     api  |-> [id \in MsmIDs |->
                 IF id \in DOMAIN msms THEN msms[id] ELSE NoMsm]]

Nothing == Fleet(NoRecord, NoRecord, <<>>)

\* A record written before namespace tracking, its measurement running under
\* the default namespace, or under another one.
Legacy      == Fleet(Rec(1, NoNS), NoRecord, <<Msm("a", "atlasctl", "ongoing")>>)
LegacyMoved == Fleet(Rec(1, NoNS), NoRecord, <<Msm("a", "prod", "ongoing")>>)

\* Two records without a running measurement.
Ghosts ==
    Fleet(Rec(1, "atlasctl"), Rec(2, NoNS),
          <<Msm("a", "atlasctl", "stopped"), Msm("b", "prod", "gone")>>)

\* A running measurement without a record.
Orphan == Fleet(NoRecord, NoRecord, <<Msm("a", "prod", "ongoing")>>)

MCFleets        == {Nothing, Legacy, LegacyMoved, Ghosts, Orphan}
MCOwnedFleets   == {Nothing, Legacy, LegacyMoved}
MCRunningFleets == {Nothing, Legacy, LegacyMoved, Orphan}
MCEmptyFleet    == {Nothing}
MCMovedFleet    == {LegacyMoved}

=============================================================================
