---------------------------- MODULE ReconcileProofs ----------------------------
(***************************************************************************)
(* Invariants of Reconcile, for any number of overlapping runs, any        *)
(* configurations and fleets, and any faults.                              *)
(***************************************************************************)
EXTENDS Reconcile, PlanDiffProofs

-----------------------------------------------------------------------------
(* The inductive invariant.                                                 *)

\* Every change but a create acts on the measurement its run found recorded.
OwnChanges ==
    \A p \in Procs : \A c \in cs[p] :
        c.kind # "create" => /\ loaded[p][c.key] # NoRecord
                             /\ c.id = loaded[p][c.key].id

\* The ghost loop only looks up records of keys the configuration wants: the
\* others are being stopped.
LookupsWanted ==
    \A p \in Procs : \A k \in todo[p] :
        /\ loaded[p][k] # NoRecord
        /\ Wanted(cfg[p])[k] # NoSpec

\* There is no plan before LiveDiff has run.
NoPlanYet ==
    \A p \in Procs : pc[p] \in {"idle", "load", "list"} =>
        cs[p] = {} /\ todo[p] = {}

IInv ==
    /\ TypeOK
    /\ RecordsTruthful
    /\ CreatesOnlyDesired
    /\ StopsOnlyOutdated
    /\ OwnChanges
    /\ LookupsWanted
    /\ NoPlanYet

-----------------------------------------------------------------------------
(* Configurations and accounts.                                             *)

\* A run's effective specs are well formed and all under the codec's namespace.
LEMMA WantedFacts ==
    ASSUME NEW c \in Configs
    PROVE  /\ Codec(c) \in Namespaces
           /\ Wanted(c) \in [Keys -> OptSpec]
           /\ \A k \in Keys : Wanted(c)[k] # NoSpec =>
                 Wanted(c)[k] \in MsmSpec /\ Wanted(c)[k].ns = Codec(c)
<1> DEFINE given == DesiredState(c)
           sent  == [k \in Keys |->
                       IF Provider /\ given[k] # NoSpec
                       THEN [given[k] EXCEPT !.ns = NoNS] ELSE given[k]]
<1>1. c \in Config
  BY ReconcileAssumption
<1>2. Codec(c) \in Namespaces
  BY <1>1, EffNSType DEF Codec, Config
<1>3. /\ given \in [Keys -> OptSpec]
      /\ \A k \in Keys : given[k] # NoSpec => given[k].ns = Codec(c)
  BY <1>1, DesiredStateFacts DEF Codec
<1> HIDE DEF given
<1>4. ASSUME NEW k \in Keys
      PROVE  /\ sent[k] \in OptSpec
             /\ sent[k] # NoSpec => sent[k].ns \in {NoNS, Codec(c)}
  <2>1. CASE given[k] = NoSpec
    BY <2>1, PlanAssumption DEF OptSpec
  <2>2. CASE given[k] # NoSpec
    <3>1. given[k] \in MsmSpec
      BY <1>3, <2>2 DEF OptSpec
    <3>2. /\ [given[k] EXCEPT !.ns = NoNS] \in MsmSpec
          /\ [given[k] EXCEPT !.ns = NoNS].ns = NoNS
      BY <3>1 DEF MsmSpec, OptNS
    <3> QED
      BY <1>3, <2>2, <3>1, <3>2 DEF OptSpec
  <2> QED
    BY <2>1, <2>2
<1>5. sent \in [Keys -> OptSpec]
  BY <1>4
<1>6. Wanted(c) = Effective(sent, Codec(c))
  BY DEF Wanted, given
<1> HIDE DEF sent
<1>7. \A k \in Keys : sent[k] # NoSpec => sent[k].ns \in {NoNS, Codec(c)}
  BY <1>4 DEF sent
<1> QED
  BY <1>2, <1>5, <1>6, <1>7, EffectiveFacts DEF OptSpec

\* What a measurement keeps from one account to a later one: it is never
\* forgotten, keeps its tag and immutable attributes, and never restarts.
Grows(a, b) ==
    \A id \in MsmIDs : a[id] # NoMsm =>
        /\ b[id] # NoMsm
        /\ b[id].key = a[id].key
        /\ b[id].ns = a[id].ns
        /\ b[id].attr = a[id].attr
        /\ b[id].http = a[id].http
        /\ b[id].status = "ongoing" => a[id].status = "ongoing"

\* An unchanged account has grown by nothing.
LEMMA GrowsRefl == ASSUME NEW a PROVE Grows(a, a)
BY DEF Grows

\* What a state file says of IDs stays true as the account grows.
LEMMA TruthfulGrows ==
    ASSUME NEW st \in StateFile, NEW a, NEW b, Truthful(st, a), Grows(a, b)
    PROVE  Truthful(st, b)
<1> SUFFICES ASSUME NEW k \in Keys, st[k] # NoRecord
             PROVE  LET rec == st[k]
                        msm == b[st[k].id]
                    IN  /\ msm # NoMsm
                        /\ msm.key = k
                        /\ msm.attr = rec.attr
                        /\ rec.http # NoHttp => msm.http = rec.http
                        /\ rec.ns # NoNS => msm.ns = rec.ns
  BY DEF Truthful
<1>1. st[k].id \in MsmIDs
  BY DEF StateFile, MsmRecord
<1> QED
  BY <1>1 DEF Truthful, Grows

\* An empty state file says nothing false.
LEMMA EmptyStateFacts ==
    /\ EmptyState \in StateFile
    /\ \A a : Truthful(EmptyState, a)
BY DEF EmptyState, StateFile, Truthful

\* The copy Apply works on claims no more than the state it copies.
LEMMA CloneTruthful ==
    ASSUME NEW st \in StateFile, NEW a, Truthful(st, a)
    PROVE  Truthful(CloneState(st), a)
BY CloneStateFacts DEF Truthful

-----------------------------------------------------------------------------
(* The account under its operations.                                        *)

\* Stopping a measurement changes nothing a record may say of it.
LEMMA ServerStopGrows ==
    ASSUME TypeOK, NEW id \in MsmIDs, Exists(id), NEW s \in {"stopped", "gone"},
           api' = [api EXCEPT ![id].status = s]
    PROVE  api' \in Account /\ Grows(api, api')
<1>1. api[id] \in Measurement
  BY DEF TypeOK, Account, Exists
<1>2. [api[id] EXCEPT !.status = s] \in Measurement
  BY <1>1 DEF Measurement, Statuses
<1>3. api' = [api EXCEPT ![id] = [api[id] EXCEPT !.status = s]]
  OBVIOUS
<1> QED
  BY <1>1, <1>2, <1>3, ReconcileAssumption
     DEF TypeOK, Account, Grows, Measurement

\* Nor does a change of its probes.
LEMMA ServerProbesGrows ==
    ASSUME TypeOK, NEW c \in Change, c.kind \in {"add_probes", "remove_probes"},
           Accepts(c), ServerProbes(c)
    PROVE  api' \in Account /\ Grows(api, api')
<1>1. /\ c.id \in MsmIDs
      /\ c.probes \in SUBSET Probes
  BY DEF Change
<1>2. Exists(c.id)
  BY DEF Accepts, Ongoing
<1>3. api[c.id] \in Measurement
  BY <1>1, <1>2 DEF TypeOK, Account, Exists
<1> DEFINE ps == IF c.kind = "add_probes" THEN api[c.id].probes \cup c.probes
                 ELSE api[c.id].probes \ c.probes
<1>4. [api[c.id] EXCEPT !.probes = ps] \in Measurement
  BY <1>1, <1>3 DEF Measurement
<1>5. api' = [api EXCEPT ![c.id] = [api[c.id] EXCEPT !.probes = ps]]
  BY DEF ServerProbes
<1> HIDE DEF ps
<1> QED
  BY <1>1, <1>3, <1>4, <1>5, ReconcileAssumption
     DEF TypeOK, Account, Grows, Measurement

\* A create takes an unused ID, and the record made of it is true.
LEMMA ServerCreateGrows ==
    ASSUME TypeOK, CreatesOnlyDesired, NEW p \in Procs, NEW c \in cs[p],
           cfg[p] # NoConfig, c.kind = "create", NEW id \in MsmIDs,
           ServerCreate(p, c, id)
    PROVE  /\ api' \in Account
           /\ Grows(api, api')
           /\ c.key \in Keys
           /\ RecordOf(id, c.spec) \in MsmRecord
           /\ api'[id] # NoMsm
           /\ api'[id].key = c.key
           /\ api'[id].attr = c.spec.attr
           /\ api'[id].http = c.spec.http
           /\ api'[id].ns = c.spec.ns
<1>1. c \in Change
  BY DEF TypeOK
<1>2. cfg[p] \in Configs
  BY DEF TypeOK
<1>3. c.key \in Keys
  BY <1>1 DEF Change
<1>4. /\ c.spec \in MsmSpec
      /\ c.spec.ns = Codec(cfg[p])
      /\ Codec(cfg[p]) \in Namespaces
  BY <1>2, <1>3, WantedFacts DEF CreatesOnlyDesired
<1> DEFINE new == [key |-> c.key, ns |-> Codec(cfg[p]), attr |-> c.spec.attr,
                   http |-> c.spec.http, probes |-> c.spec.probes,
                   status |-> "ongoing"]
<1>5. new \in Measurement
  BY <1>3, <1>4 DEF Measurement, MsmSpec, Statuses
<1>6. /\ api[id] = NoMsm
      /\ api' = [api EXCEPT ![id] = new]
  BY DEF ServerCreate, Exists, ClientCodec
<1>7. RecordOf(id, c.spec) \in MsmRecord
  BY <1>4 DEF RecordOf, MsmSpec, MsmRecord
<1>8. api' \in Account /\ Grows(api, api')
  BY <1>5, <1>6 DEF TypeOK, Account, Grows
<1>9. /\ new.key = c.key /\ new.attr = c.spec.attr /\ new.http = c.spec.http
      /\ new.ns = c.spec.ns
  BY <1>4
<1>10. api'[id] = new
  BY <1>6 DEF TypeOK, Account
<1> QED
  BY <1>3, <1>5, <1>7, <1>8, <1>9, <1>10, ReconcileAssumption

-----------------------------------------------------------------------------
(* Steps that make no plan.  They leave cfg and loaded alone, drop changes  *)
(* and lookups at most, and the account only grows under them.              *)

\* A step that plans nothing new and only lets the account grow keeps IInv.
LEMMA NoNewPlan ==
    ASSUME IInv, TypeOK', NoPlanYet', cfg' = cfg, loaded' = loaded,
           Grows(api, api'),
           \A p \in Procs : cs'[p] \subseteq cs[p] /\ todo'[p] \subseteq todo[p],
           Truthful(disk', api'),
           \A p \in Procs : Truthful(out'[p], api')
    PROVE  IInv'
<1>1. RecordsTruthful'
  <2>1. ASSUME NEW p \in Procs PROVE Truthful(loaded[p], api')
    BY TruthfulGrows DEF IInv, TypeOK, RecordsTruthful
  <2> QED
    BY <2>1 DEF RecordsTruthful
<1>2. CreatesOnlyDesired'
  BY DEF IInv, CreatesOnlyDesired
<1>3. OwnChanges'
  BY DEF IInv, OwnChanges
<1>4. LookupsWanted'
  BY DEF IInv, LookupsWanted
<1>5. StopsOnlyOutdated'
  <2> SUFFICES ASSUME NEW p \in Procs, NEW c \in cs'[p],
                      c.kind = "stop", Ongoing(c.id)'
               PROVE  ~Serves(api'[c.id], Wanted(cfg[p])[c.key])
    BY DEF StopsOnlyOutdated
  <2>1. c \in cs[p] /\ c \in Change
    BY DEF IInv, TypeOK
  <2>2. c.id \in MsmIDs /\ c.key \in Keys
    BY <2>1 DEF Change
  <2>3. LET rec == loaded[p][c.key]
        IN  rec # NoRecord /\ c.id = rec.id
    BY <2>1 DEF IInv, OwnChanges
  <2>4. api[c.id] # NoMsm
    BY <2>2, <2>3 DEF IInv, RecordsTruthful, Truthful
  <2>5. Ongoing(c.id)
    BY <2>2, <2>4 DEF Grows, Ongoing, Exists
  <2>6. ~Serves(api[c.id], Wanted(cfg[p])[c.key])
    BY <2>1, <2>5 DEF IInv, StopsOnlyOutdated
  <2> QED
    BY <2>2, <2>4, <2>6 DEF Grows, Serves
<1> QED
  BY <1>1, <1>2, <1>3, <1>4, <1>5 DEF IInv

\* The end of a run: its memory is empty, the others' unchanged.
LEMMA ExitKeepsIInv ==
    ASSUME IInv, NEW p \in Procs, Exit(p), UNCHANGED <<config, api>>,
           disk' \in StateFile, Truthful(disk', api),
           edits' = edits, faults' \in 0..MaxFaults
    PROVE  IInv'
<1>1. TypeOK'
  BY EmptyStateFacts, ReconcileAssumption DEF IInv, TypeOK, Exit
<1>2. RecordsTruthful'
  BY EmptyStateFacts DEF IInv, TypeOK, RecordsTruthful, Exit
<1>3. ASSUME NEW q \in Procs, q # p
      PROVE  /\ cs'[q] = cs[q] /\ cfg'[q] = cfg[q] /\ loaded'[q] = loaded[q]
             /\ todo'[q] = todo[q] /\ pc'[q] = pc[q]
  BY <1>3 DEF IInv, TypeOK, Exit
<1>4. cs'[p] = {} /\ todo'[p] = {}
  BY DEF IInv, TypeOK, Exit
<1>5. CreatesOnlyDesired'
  BY <1>3, <1>4 DEF IInv, CreatesOnlyDesired
<1>6. StopsOnlyOutdated'
  BY <1>3, <1>4 DEF IInv, StopsOnlyOutdated, Ongoing, Exists
<1>7. OwnChanges'
  BY <1>3, <1>4 DEF IInv, OwnChanges
<1>8. LookupsWanted'
  BY <1>3, <1>4 DEF IInv, LookupsWanted
<1>9. NoPlanYet'
  BY <1>3, <1>4 DEF IInv, NoPlanYet
<1> QED
  BY <1>1, <1>2, <1>5, <1>6, <1>7, <1>8, <1>9 DEF IInv

-----------------------------------------------------------------------------
(* The two steps that make the plan.                                        *)

\* LiveDiff's diff, corrected by the live list.
LEMMA ListLiveKeepsIInv ==
    ASSUME IInv, NEW p \in Procs, ListLive(p)
    PROVE  IInv'
<1> DEFINE wanted   == Wanted(cfg[p])
           live     == Live(cfg[p])
           base     == Diff(wanted, loaded[p])
           cancel   == FalseNamespaceChange(wanted, loaded[p], live,
                                            Stopping(base))
           plan0    == CancelStopCreate(base, cancel, loaded[p])
           stopping == Stopping(base) \ cancel
<1>1. /\ cfg[p] \in Configs
      /\ loaded[p] \in StateFile
      /\ Truthful(loaded[p], api)
  BY DEF IInv, TypeOK, RecordsTruthful, ListLive
<1>2. wanted \in [Keys -> OptSpec]
  BY <1>1, WantedFacts
<1>3. /\ \A c \in base :
            /\ c \in Change
            /\ c.kind = "create" => /\ wanted[c.key] # NoSpec
                                    /\ c.spec = wanted[c.key]
            /\ c.kind # "create" => /\ loaded[p][c.key] # NoRecord
                                    /\ c.id = loaded[p][c.key].id
      /\ \A k \in Keys : wanted[k] = NoSpec /\ loaded[p][k] # NoRecord =>
            k \in Stopping(base)
  BY <1>1, <1>2, DiffFacts
<1>4. /\ cs' = [cs EXCEPT ![p] = plan0]
      /\ todo' = [todo EXCEPT ![p] = Lookups(loaded[p], live, stopping)]
      /\ warns' = [warns EXCEPT ![p] = OrphanWarnings(loaded[p], live)]
      /\ pc' = [pc EXCEPT ![p] = "ghost"]
      /\ pc[p] = "list"
      /\ UNCHANGED <<config, disk, api, cfg, loaded, cur, out, edits, faults>>
  BY DEF ListLive, shared, budget
<1>5. \A k \in cancel : /\ k \in Stopping(base)
                        /\ loaded[p][k] # NoRecord
                        /\ wanted[k] # NoSpec
  BY DEF FalseNamespaceChange
<1>6. \A k \in Stopping(base) : k \in Keys
  BY <1>3 DEF Stopping, Change
<1> HIDE DEF wanted, base, cancel, live
<1>7. ASSUME NEW c \in plan0
      PROVE  /\ c \in Change
             /\ c.kind = "create" => /\ wanted[c.key] # NoSpec
                                     /\ c.spec = wanted[c.key]
             /\ c.kind # "create" => /\ loaded[p][c.key] # NoRecord
                                     /\ c.id = loaded[p][c.key].id
             /\ c.kind = "stop" => c \in base /\ c.key \notin cancel
  <2>1. CASE c \in base /\ c.key \notin cancel
    BY <1>3, <2>1
  <2>2. CASE \E k \in cancel : c = NoOpOf(k, loaded[p][k].id, 3)
    <3>1. PICK k \in cancel : c = NoOpOf(k, loaded[p][k].id, 3)
      BY <2>2
    <3>2. k \in Keys /\ loaded[p][k] \in MsmRecord
      BY <1>1, <1>5, <1>6 DEF StateFile
    <3> QED
      BY <1>5, <3>1, <3>2 DEF NoOpOf, Change, MsmRecord
  <2> QED
    BY <2>1, <2>2 DEF CancelStopCreate
<1>8. TypeOK'
  <2>1. plan0 \subseteq Change
    BY <1>7
  <2>2. Lookups(loaded[p], live, stopping) \subseteq Keys
    BY DEF Lookups
  <2>3. OrphanWarnings(loaded[p], live) \subseteq Warning
    <3>1. \A id \in live : id \in MsmIDs /\ api[id] \in Measurement
      BY DEF IInv, TypeOK, Account, live, Live, Ongoing, Exists
    <3> QED
      BY <3>1 DEF OrphanWarnings, Warning, Measurement
  <2> QED
    BY <1>4, <2>1, <2>2, <2>3 DEF IInv, TypeOK
<1>9. RecordsTruthful'
  BY <1>4 DEF IInv, RecordsTruthful
<1>10. ASSUME NEW q \in Procs
       PROVE  /\ q # p => cs'[q] = cs[q] /\ todo'[q] = todo[q] /\ pc'[q] = pc[q]
              /\ cs'[p] = plan0
              /\ todo'[p] = Lookups(loaded[p], live, stopping)
              /\ pc'[p] = "ghost"
  BY <1>4 DEF IInv, TypeOK
<1>11. CreatesOnlyDesired'
  <2> SUFFICES ASSUME NEW q \in Procs, NEW c \in cs'[q], c.kind = "create"
               PROVE  c.spec # NoSpec /\ c.spec = Wanted(cfg[q])[c.key]
    BY <1>4 DEF CreatesOnlyDesired
  <2>1. CASE q = p
    BY <1>7, <1>10, <2>1 DEF wanted
  <2>2. CASE q # p
    BY <1>10, <2>2 DEF IInv, CreatesOnlyDesired
  <2> QED
    BY <2>1, <2>2
<1>12. OwnChanges'
  <2> SUFFICES ASSUME NEW q \in Procs, NEW c \in cs'[q], c.kind # "create"
               PROVE  /\ loaded[q][c.key] # NoRecord
                      /\ c.id = loaded[q][c.key].id
    BY <1>4 DEF OwnChanges
  <2>1. CASE q = p
    BY <1>7, <1>10, <2>1
  <2>2. CASE q # p
    BY <1>10, <2>2 DEF IInv, OwnChanges
  <2> QED
    BY <2>1, <2>2
<1>13. LookupsWanted'
  <2> SUFFICES ASSUME NEW q \in Procs, NEW k \in todo'[q]
               PROVE  loaded[q][k] # NoRecord /\ Wanted(cfg[q])[k] # NoSpec
    BY <1>4 DEF LookupsWanted
  <2>1. CASE q = p
    <3>1. /\ k \in Keys
          /\ loaded[p][k] # NoRecord
          /\ k \notin stopping
      BY <1>10, <2>1 DEF Lookups
    <3>2. wanted[k] # NoSpec
      BY <1>3, <1>5, <3>1
    <3> QED
      BY <2>1, <3>1, <3>2 DEF wanted
  <2>2. CASE q # p
    BY <1>10, <2>2 DEF IInv, LookupsWanted
  <2> QED
    BY <2>1, <2>2
<1>14. StopsOnlyOutdated'
  <2> SUFFICES ASSUME NEW q \in Procs, NEW c \in cs'[q],
                      c.kind = "stop", Ongoing(c.id)
               PROVE  ~Serves(api[c.id], Wanted(cfg[q])[c.key])
    BY <1>4 DEF StopsOnlyOutdated, Ongoing, Exists
  <2>1. CASE q = p
    <3>1. /\ c \in base
          /\ c \in Change
          /\ c.key \notin cancel
          /\ loaded[p][c.key] # NoRecord
          /\ c.id = loaded[p][c.key].id
      BY <1>7, <1>10, <2>1
    <3>2. c.key \in Keys /\ c.id \in MsmIDs
      BY <3>1 DEF Change
    <3>3. c.key \in Stopping(base)
      BY <3>1 DEF Stopping
    \* why FalseNamespaceChange does not hold of c.key
    <3>4. \/ c.id \notin live
          \/ wanted[c.key] = NoSpec
          \/ NonNamespaceStructuralChange(loaded[p][c.key], wanted[c.key])
      <4>1. api[loaded[p][c.key].id].key = c.key
        BY <1>1, <3>1, <3>2 DEF Truthful
      <4> QED
        BY <3>1, <3>3, <4>1 DEF cancel, FalseNamespaceChange
    <3>5. CASE c.id \notin live
      <4>1. api[c.id].ns # Codec(cfg[p])
        BY <3>2, <3>5 DEF live, Live, ClientCodec
      <4> QED
        BY <1>1, <2>1, <3>2, <4>1, WantedFacts DEF Serves
    <3>6. CASE wanted[c.key] = NoSpec
      BY <2>1, <3>6 DEF Serves, wanted
    <3>7. CASE NonNamespaceStructuralChange(loaded[p][c.key], wanted[c.key])
      <4>1. api[c.id].attr = loaded[p][c.key].attr
        BY <1>1, <3>1, <3>2 DEF Truthful
      <4> QED
        BY <2>1, <3>7, <4>1 DEF Serves, wanted, NonNamespaceStructuralChange
    <3> QED
      BY <3>4, <3>5, <3>6, <3>7
  <2>2. CASE q # p
    BY <1>10, <2>2 DEF IInv, StopsOnlyOutdated
  <2> QED
    BY <2>1, <2>2
<1>15. NoPlanYet'
  BY <1>10 DEF IInv, NoPlanYet
<1> QED
  BY <1>8, <1>9, <1>11, <1>12, <1>13, <1>14, <1>15 DEF IInv

\* The ghost loop finds a measurement under another namespace.
LEMMA MoveNamespaceKeepsIInv ==
    ASSUME IInv, NEW p \in Procs, NEW k \in Keys, MoveNamespace(p, k)
    PROVE  IInv'
<1> DEFINE id    == loaded[p][k].id
           spec  == Wanted(cfg[p])[k]
           plan1 == ReplaceWithStopCreate(cs[p], k, id, spec)
<1>1. /\ k \in todo[p]
      /\ pc[p] = "ghost"
      /\ Ongoing(id) /\ api[id].ns # Codec(cfg[p])
      /\ todo' = [todo EXCEPT ![p] = todo[p] \ {k}]
      /\ cs' = [cs EXCEPT ![p] = plan1]
      /\ UNCHANGED <<config, disk, api, pc, cfg, loaded, warns, cur, out,
                     edits, faults>>
  BY DEF MoveNamespace, shared, budget
<1>2. cfg[p] \in Configs
  BY <1>1 DEF IInv, TypeOK
<1>3. /\ loaded[p][k] # NoRecord
      /\ spec # NoSpec
  BY <1>1 DEF IInv, LookupsWanted
<1>4. /\ spec \in MsmSpec
      /\ spec.ns = Codec(cfg[p])
      /\ id \in MsmIDs
  BY <1>2, <1>3, WantedFacts DEF IInv, TypeOK, StateFile, MsmRecord
<1> HIDE DEF id, spec
<1>5. ASSUME NEW c \in plan1
      PROVE  \/ c \in cs[p]
             \/ c = StopOf(k, id, 4)
             \/ c = CreateOf(k, spec, 4)
  BY DEF ReplaceWithStopCreate, DropKey
<1>6. StopOf(k, id, 4) \in Change /\ CreateOf(k, spec, 4) \in Change
  BY <1>4 DEF StopOf, CreateOf, Change
<1>7. TypeOK'
  <2>1. plan1 \subseteq Change
    BY <1>5, <1>6 DEF IInv, TypeOK
  <2> QED
    BY <1>1, <2>1 DEF IInv, TypeOK
<1>8. RecordsTruthful'
  BY <1>1 DEF IInv, RecordsTruthful
<1>9. ASSUME NEW q \in Procs
      PROVE  /\ q # p => cs'[q] = cs[q] /\ todo'[q] = todo[q]
             /\ cs'[p] = plan1
             /\ todo'[q] \subseteq todo[q]
  BY <1>1 DEF IInv, TypeOK
<1> HIDE DEF plan1
<1>10. CreatesOnlyDesired'
  <2> SUFFICES ASSUME NEW q \in Procs, NEW c \in cs'[q], c.kind = "create"
               PROVE  c.spec # NoSpec /\ c.spec = Wanted(cfg[q])[c.key]
    BY <1>1 DEF CreatesOnlyDesired
  <2>1. CASE c \in cs[q]
    BY <2>1 DEF IInv, CreatesOnlyDesired
  <2>2. CASE q = p /\ c \notin cs[q]
    BY <1>3, <1>5, <1>9, <2>2 DEF StopOf, CreateOf, spec
  <2> QED
    BY <1>9, <2>1, <2>2
<1>11. OwnChanges'
  <2> SUFFICES ASSUME NEW q \in Procs, NEW c \in cs'[q], c.kind # "create"
               PROVE  /\ loaded[q][c.key] # NoRecord
                      /\ c.id = loaded[q][c.key].id
    BY <1>1 DEF OwnChanges
  <2>1. CASE c \in cs[q]
    BY <2>1 DEF IInv, OwnChanges
  <2>2. CASE q = p /\ c \notin cs[q]
    BY <1>3, <1>5, <1>9, <2>2 DEF StopOf, CreateOf, id
  <2> QED
    BY <1>9, <2>1, <2>2
<1>12. LookupsWanted'
  BY <1>1, <1>9 DEF IInv, LookupsWanted
<1>13. StopsOnlyOutdated'
  <2> SUFFICES ASSUME NEW q \in Procs, NEW c \in cs'[q],
                      c.kind = "stop", Ongoing(c.id)
               PROVE  ~Serves(api[c.id], Wanted(cfg[q])[c.key])
    BY <1>1 DEF StopsOnlyOutdated, Ongoing, Exists
  <2>1. CASE c \in cs[q]
    BY <2>1 DEF IInv, StopsOnlyOutdated
  <2>2. CASE q = p /\ c \notin cs[q]
    <3>1. c = StopOf(k, id, 4)
      BY <1>5, <1>9, <2>2 DEF CreateOf
    <3> QED
      BY <1>1, <1>4, <2>2, <3>1 DEF StopOf, Serves, spec
  <2> QED
    BY <1>9, <2>1, <2>2
<1>14. NoPlanYet'
  BY <1>1, <1>9 DEF IInv, NoPlanYet
<1> QED
  BY <1>7, <1>8, <1>10, <1>11, <1>12, <1>13, <1>14 DEF IInv

-----------------------------------------------------------------------------
(* Apply's loop.                                                            *)

\* What any iteration leaves in place.
LEMMA ExecuteFacts ==
    ASSUME IInv, NEW p \in Procs, NEW c \in cs[p], Execute(p, c)
    PROVE  /\ c \in Change
           /\ c.key \in Keys
           /\ cfg[p] # NoConfig
           /\ UNCHANGED <<config, disk, pc, cfg, loaded, todo, warns>>
           /\ cs' \in [Procs -> SUBSET Change]
           /\ cur' \in [Procs -> Keys \cup {NoKey}]
           /\ \A q \in Procs : cs'[q] \subseteq cs[q]
           /\ NoPlanYet'
<1>1. c \in Change /\ c.key \in Keys
  BY DEF IInv, TypeOK, Change
<1>2. \A q \in Procs : cs'[q] \subseteq cs[q]
  BY DEF Execute, IInv, TypeOK
<1>3. UNCHANGED <<pc, todo>> /\ NoPlanYet
  BY DEF Execute, plan, IInv
<1>4. NoPlanYet'
  BY <1>2, <1>3 DEF NoPlanYet
<1> QED
  BY <1>1, <1>2, <1>4 DEF Execute, plan, IInv, TypeOK

\* An iteration after which the state is as true of the account as before.
LEMMA ExecuteKeepsIInv ==
    ASSUME IInv, NEW p \in Procs, NEW c \in cs[p], Execute(p, c),
           api' \in Account, Grows(api, api'),
           out' \in [Procs -> StateFile],
           \A q \in Procs : Truthful(out'[q], api'),
           edits' = edits, faults' \in 0..MaxFaults
    PROVE  IInv'
<1>1. TypeOK'
  BY ExecuteFacts DEF IInv, TypeOK
<1>2. Truthful(disk', api')
  BY ExecuteFacts, TruthfulGrows DEF IInv, TypeOK, RecordsTruthful
<1> QED
  BY <1>1, <1>2, ExecuteFacts, NoNewPlan

\* An iteration that records nothing.
LEMMA ExecuteUnrecorded ==
    ASSUME IInv, NEW p \in Procs, NEW c \in cs[p], Execute(p, c),
           api' \in Account, Grows(api, api'), out' = out,
           edits' = edits, faults' \in 0..MaxFaults
    PROVE  IInv'
<1>1. \A q \in Procs : Truthful(out'[q], api')
  BY TruthfulGrows DEF IInv, TypeOK, RecordsTruthful
<1> QED
  BY <1>1, ExecuteKeepsIInv DEF IInv, TypeOK

\* A fault stays within its bound.
LEMMA FaultFacts ==
    ASSUME TypeOK, NEW kind, Fault(kind)
    PROVE  edits' = edits /\ faults' \in 0..MaxFaults
BY ReconcileAssumption DEF TypeOK, Fault

\* A create that succeeds keeps IInv.
LEMMA ApplyCreateKeepsIInv ==
    ASSUME IInv, NEW p \in Procs, NEW c \in cs[p], ApplyCreate(p, c)
    PROVE  IInv'
<1>1. PICK id \in MsmIDs :
         /\ ServerCreate(p, c, id)
         /\ out' = [out EXCEPT ![p][c.key] = RecordOf(id, c.spec)]
  BY DEF ApplyCreate
<1>2. /\ Execute(p, c)
      /\ c.kind = "create"
      /\ edits' = edits /\ faults' \in 0..MaxFaults
  BY DEF ApplyCreate, budget, IInv, TypeOK
<1>3. cfg[p] # NoConfig /\ c.key \in Keys
  BY <1>2, ExecuteFacts
<1> DEFINE new == RecordOf(id, c.spec)
<1>4. /\ api' \in Account
      /\ Grows(api, api')
      /\ new \in MsmRecord
      /\ api'[id] # NoMsm
      /\ api'[id].key = c.key
      /\ api'[id].attr = c.spec.attr
      /\ api'[id].http = c.spec.http
      /\ api'[id].ns = c.spec.ns
  BY <1>1, <1>2, <1>3, ServerCreateGrows DEF IInv
<1>5. new.id = id /\ new.attr = c.spec.attr /\ new.http = c.spec.http
      /\ new.ns = c.spec.ns
  BY DEF RecordOf
<1> HIDE DEF new
<1>6. ASSUME NEW q \in Procs
      PROVE  out'[q] \in StateFile /\ Truthful(out'[q], api')
  <2>1. out[q] \in StateFile /\ Truthful(out[q], api')
    BY <1>4, TruthfulGrows DEF IInv, TypeOK, RecordsTruthful
  <2>2. CASE q # p
    BY <1>1, <2>1, <2>2 DEF IInv, TypeOK
  <2>3. CASE q = p
    <3>1. out'[q] = [out[q] EXCEPT ![c.key] = new]
      BY <1>1, <2>3 DEF IInv, TypeOK, new
    <3>2. out'[q] \in StateFile
      BY <1>4, <2>1, <3>1 DEF StateFile
    <3>3. ASSUME NEW k \in Keys
          PROVE  out'[q][k] = IF k = c.key THEN new ELSE out[q][k]
      BY <1>3, <2>1, <3>1 DEF StateFile
    <3> QED
      BY <1>4, <1>5, <2>1, <3>2, <3>3 DEF Truthful
  <2> QED
    BY <2>2, <2>3
<1>7. out' \in [Procs -> StateFile]
  BY <1>1, <1>6 DEF IInv, TypeOK
<1> QED
  BY <1>2, <1>4, <1>6, <1>7, ExecuteKeepsIInv

\* A stop that succeeds keeps IInv.
LEMMA ApplyStopKeepsIInv ==
    ASSUME IInv, NEW p \in Procs, NEW c \in cs[p], ApplyStop(p, c)
    PROVE  IInv'
<1>1. /\ Execute(p, c)
      /\ c.kind = "stop"
      /\ Accepts(c)
      /\ ServerStop(c)
      /\ out' = [out EXCEPT ![p][c.key] = NoRecord]
      /\ edits' = edits /\ faults' \in 0..MaxFaults
  BY DEF ApplyStop, budget, IInv, TypeOK
<1>2. c \in Change /\ c.key \in Keys
  BY <1>1, ExecuteFacts
<1>3. c.id \in MsmIDs /\ Exists(c.id)
  BY <1>1, <1>2 DEF Change, Accepts
<1>4. api' \in Account /\ Grows(api, api')
  BY <1>1, <1>3, ServerStopGrows DEF IInv, ServerStop
<1>5. ASSUME NEW q \in Procs
      PROVE  out'[q] \in StateFile /\ Truthful(out'[q], api')
  <2>1. out[q] \in StateFile /\ Truthful(out[q], api')
    BY <1>4, TruthfulGrows DEF IInv, TypeOK, RecordsTruthful
  <2>2. CASE q # p
    BY <1>1, <2>1, <2>2 DEF IInv, TypeOK
  <2>3. CASE q = p
    <3>1. out'[q] = [out[q] EXCEPT ![c.key] = NoRecord]
      BY <1>1, <2>3 DEF IInv, TypeOK
    <3> QED
      BY <1>2, <2>1, <3>1 DEF StateFile, Truthful
  <2> QED
    BY <2>2, <2>3
<1>6. out' \in [Procs -> StateFile]
  BY <1>1, <1>5 DEF IInv, TypeOK
<1> QED
  BY <1>1, <1>4, <1>5, <1>6, ExecuteKeepsIInv

\* A change of probes that succeeds keeps IInv.
LEMMA ApplyProbesKeepsIInv ==
    ASSUME IInv, NEW p \in Procs, NEW c \in cs[p], ApplyProbes(p, c)
    PROVE  IInv'
<1>1. /\ Execute(p, c)
      /\ c.kind \in {"add_probes", "remove_probes"}
      /\ Accepts(c)
      /\ ServerProbes(c)
      /\ edits' = edits /\ faults' \in 0..MaxFaults
  BY DEF ApplyProbes, budget, IInv, TypeOK
<1>2. c \in Change /\ c.key \in Keys /\ c.probes \in SUBSET Probes
  BY <1>1, ExecuteFacts DEF Change
<1>3. api' \in Account /\ Grows(api, api')
  BY <1>1, <1>2, ServerProbesGrows DEF IInv
<1> DEFINE rec == out[p][c.key]
           ps  == IF c.kind = "add_probes" THEN rec.probes \cup c.probes
                  ELSE rec.probes \ c.probes
<1>4. CASE rec = NoRecord
  <2>1. out' = out
    BY <1>4 DEF ApplyProbes
  <2> QED
    BY <1>1, <1>3, <2>1, ExecuteUnrecorded
<1>5. CASE rec # NoRecord
  <2>1. out' = [out EXCEPT ![p][c.key].probes = ps]
    BY <1>5 DEF ApplyProbes
  <2>2. rec \in MsmRecord
    BY <1>2, <1>5 DEF IInv, TypeOK, StateFile
  <2>3. ps \in SUBSET Probes
    BY <1>2, <2>2 DEF MsmRecord
  <2> DEFINE new == [rec EXCEPT !.probes = ps]
  <2>4. /\ new \in MsmRecord
        /\ new.id = rec.id /\ new.ns = rec.ns
        /\ new.attr = rec.attr /\ new.http = rec.http
    BY <2>2, <2>3 DEF MsmRecord
  <2>5. out' = [out EXCEPT ![p] = [out[p] EXCEPT ![c.key] = new]]
    BY <1>2, <2>1 DEF IInv, TypeOK, StateFile
  <2> HIDE DEF new, ps
  <2>6. ASSUME NEW q \in Procs
        PROVE  out'[q] \in StateFile /\ Truthful(out'[q], api')
    <3>1. out[q] \in StateFile /\ Truthful(out[q], api')
      BY <1>3, TruthfulGrows DEF IInv, TypeOK, RecordsTruthful
    <3>2. CASE q # p
      BY <2>5, <3>1, <3>2 DEF IInv, TypeOK
    <3>3. CASE q = p
      <4>1. out'[q] = [out[q] EXCEPT ![c.key] = new]
        BY <2>5, <3>3 DEF IInv, TypeOK
      <4>2. out'[q] \in StateFile
        BY <2>4, <3>1, <4>1 DEF StateFile
      <4>3. ASSUME NEW k \in Keys
            PROVE  out'[q][k] = IF k = c.key THEN new ELSE out[q][k]
        BY <3>1, <4>1 DEF StateFile
      <4> QED
        BY <1>2, <1>5, <2>4, <3>1, <3>3, <4>2, <4>3 DEF Truthful
    <3> QED
      BY <3>2, <3>3
  <2>7. out' \in [Procs -> StateFile]
    BY <2>5, <2>6 DEF IInv, TypeOK
  <2> QED
    BY <1>1, <1>3, <2>6, <2>7, ExecuteKeepsIInv
<1> QED
  BY <1>4, <1>5

\* The reply is lost: the account has changed and the state has not.
LEMMA ReplyLostKeepsIInv ==
    ASSUME IInv, NEW p \in Procs, NEW c \in cs[p], ReplyLost(p, c)
    PROVE  IInv'
<1>1. /\ Execute(p, c)
      /\ out' = out
      /\ edits' = edits /\ faults' \in 0..MaxFaults
  BY FaultFacts DEF ReplyLost, IInv
<1>2. c \in Change /\ cfg[p] # NoConfig
  BY <1>1, ExecuteFacts
<1>3. api' \in Account /\ Grows(api, api')
  <2>1. CASE c.kind = "create" /\ \E id \in MsmIDs : ServerCreate(p, c, id)
    BY <1>2, <2>1, ServerCreateGrows DEF IInv
  <2>2. CASE c.kind = "stop" /\ Accepts(c) /\ ServerStop(c)
    <3>1. c.id \in MsmIDs /\ Exists(c.id)
      BY <1>2, <2>2 DEF Change, Accepts
    <3> QED
      BY <2>2, <3>1, ServerStopGrows DEF IInv, ServerStop
  <2>3. CASE /\ c.kind \in {"add_probes", "remove_probes"}
             /\ Accepts(c) /\ ServerProbes(c)
    BY <1>2, <2>3, ServerProbesGrows DEF IInv
  <2> QED
    BY <2>1, <2>2, <2>3 DEF ReplyLost
<1> QED
  BY <1>1, <1>3, ExecuteUnrecorded

-----------------------------------------------------------------------------
(* The theorems.                                                            *)

\* IInv holds initially.
LEMMA InitIInv == Init => IInv
<1> SUFFICES ASSUME Init PROVE IInv
  OBVIOUS
<1>1. disk \in StateFile /\ api \in Account /\ Truthful(disk, api)
  BY ReconcileAssumption DEF Init
<1>2. TypeOK
  BY <1>1, EmptyStateFacts, ReconcileAssumption DEF Init, TypeOK
<1>3. RecordsTruthful
  BY <1>1, EmptyStateFacts DEF Init, RecordsTruthful
<1>4. CreatesOnlyDesired /\ StopsOnlyOutdated /\ OwnChanges /\ LookupsWanted
  BY DEF Init, CreatesOnlyDesired, StopsOnlyOutdated, OwnChanges, LookupsWanted
<1>5. NoPlanYet
  BY DEF Init, NoPlanYet
<1> QED
  BY <1>2, <1>3, <1>4, <1>5 DEF IInv

\* The steps of a run that only read, decide or end.
LEMMA ReadingKeepsIInv ==
    ASSUME IInv, NEW p \in Procs,
           \/ Start(p) \/ LoadState(p)
           \/ \E k \in Keys : ReportGhost(p, k)
           \/ PlanReady(p) \/ Confirm(p) \/ ApplyReturns(p) \/ Cancel(p)
    PROVE  IInv'
<1> USE DEF shared, plan, exec, budget
<1>0. TypeOK /\ RecordsTruthful /\ NoPlanYet
  BY DEF IInv
<1>1. CASE Start(p)
  <2>1. TypeOK' /\ RecordsTruthful' /\ NoPlanYet'
    BY <1>0, <1>1, ReconcileAssumption
       DEF Start, TypeOK, RecordsTruthful, NoPlanYet
  <2>2. \A q \in Procs : cs'[q] = cs[q] /\ todo'[q] = todo[q]
                         /\ (cs[q] # {} \/ todo[q] # {} => cfg'[q] = cfg[q])
    BY <1>0, <1>1 DEF Start, TypeOK, NoPlanYet
  <2>3. UNCHANGED <<loaded, api>>
    BY <1>1 DEF Start
  <2>4. CreatesOnlyDesired' /\ OwnChanges' /\ LookupsWanted'
    BY <2>2, <2>3 DEF IInv, CreatesOnlyDesired, OwnChanges, LookupsWanted
  <2>5. StopsOnlyOutdated'
    BY <2>2, <2>3 DEF IInv, StopsOnlyOutdated, Ongoing, Exists
  <2> QED
    BY <2>1, <2>4, <2>5 DEF IInv
<1>2. CASE LoadState(p)
  <2>1. TypeOK' /\ RecordsTruthful' /\ NoPlanYet'
    BY <1>0, <1>2 DEF LoadState, TypeOK, RecordsTruthful, NoPlanYet
  <2>2. \A q \in Procs : cs'[q] = cs[q] /\ todo'[q] = todo[q]
                         /\ (cs[q] # {} \/ todo[q] # {} => loaded'[q] = loaded[q])
    BY <1>0, <1>2 DEF LoadState, TypeOK, NoPlanYet
  <2>3. UNCHANGED <<cfg, api>>
    BY <1>2 DEF LoadState
  <2>4. CreatesOnlyDesired' /\ OwnChanges' /\ LookupsWanted'
    BY <2>2, <2>3 DEF IInv, CreatesOnlyDesired, OwnChanges, LookupsWanted
  <2>5. StopsOnlyOutdated'
    BY <2>2, <2>3 DEF IInv, StopsOnlyOutdated, Ongoing, Exists
  <2> QED
    BY <2>1, <2>4, <2>5 DEF IInv
<1>3. CASE \E k \in Keys : ReportGhost(p, k)
  <2>1. PICK k \in Keys : ReportGhost(p, k)
    BY <1>3
  <2>2. [kind |-> "ghost", key |-> k, id |-> loaded[p][k].id] \in Warning
    BY <2>1 DEF ReportGhost, IInv, LookupsWanted, TypeOK, StateFile, MsmRecord,
                Warning
  <2>3. TypeOK'
    BY <1>0, <2>1, <2>2 DEF ReportGhost, TypeOK
  <2>4. NoPlanYet' /\ \A q \in Procs : todo'[q] \subseteq todo[q]
    BY <1>0, <2>1 DEF ReportGhost, NoPlanYet, TypeOK
  <2>5. UNCHANGED <<disk, api, cs, cfg, loaded, out>>
    BY <2>1 DEF ReportGhost
  <2> QED
    BY <1>0, <2>3, <2>4, <2>5, GrowsRefl, NoNewPlan DEF RecordsTruthful
<1>4. CASE PlanReady(p)
  <2>1. TypeOK' /\ NoPlanYet'
    BY <1>0, <1>4 DEF PlanReady, TypeOK, NoPlanYet
  <2> QED
    BY <1>0, <1>4, <2>1, GrowsRefl, NoNewPlan DEF PlanReady, RecordsTruthful
<1>5. CASE Confirm(p)
  <2>1. /\ CloneState(loaded[p]) \in StateFile
        /\ Truthful(CloneState(loaded[p]), api)
    BY <1>0, CloneStateFacts, CloneTruthful DEF TypeOK, RecordsTruthful
  <2>2. TypeOK' /\ NoPlanYet'
    BY <1>0, <1>5, <2>1 DEF Confirm, TypeOK, NoPlanYet
  <2>3. \A q \in Procs : Truthful(out'[q], api)
    BY <1>0, <1>5, <2>1 DEF Confirm, TypeOK, RecordsTruthful
  <2> QED
    BY <1>0, <1>5, <2>2, <2>3, GrowsRefl, NoNewPlan DEF Confirm, RecordsTruthful
<1>6. CASE ApplyReturns(p)
  <2>1. TypeOK' /\ NoPlanYet'
    BY <1>0, <1>6 DEF ApplyReturns, TypeOK, NoPlanYet
  <2> QED
    BY <1>0, <1>6, <2>1, GrowsRefl, NoNewPlan DEF ApplyReturns, RecordsTruthful
<1>7. CASE Cancel(p)
  <2>1. edits' = edits /\ faults' \in 0..MaxFaults
    BY <1>0, <1>7, FaultFacts DEF Cancel
  <2>2. TypeOK' /\ NoPlanYet'
    BY <1>0, <1>7, <2>1 DEF Cancel, TypeOK, NoPlanYet
  <2>3. \A q \in Procs : cs'[q] \subseteq cs[q]
    BY <1>0, <1>7 DEF Cancel, TypeOK
  <2> QED
    BY <1>0, <1>7, <2>2, <2>3, GrowsRefl, NoNewPlan DEF Cancel, RecordsTruthful
<1> QED
  BY <1>1, <1>2, <1>3, <1>4, <1>5, <1>6, <1>7

\* Every step keeps IInv.
LEMMA NextKeepsIInv == IInv /\ [Next]_vars => IInv'
<1> SUFFICES ASSUME IInv, [Next]_vars PROVE IInv'
  OBVIOUS
<1>0. TypeOK /\ RecordsTruthful /\ NoPlanYet
  BY DEF IInv
<1>1. CASE EditConfig
  <2>1. TypeOK' /\ NoPlanYet'
    BY <1>0, <1>1, ReconcileAssumption
       DEF EditConfig, TypeOK, NoPlanYet, plan, exec
  <2> QED
    BY <1>0, <1>1, <2>1, GrowsRefl, NoNewPlan
       DEF EditConfig, RecordsTruthful, plan, exec
<1>2. ASSUME NEW id \in MsmIDs, ExternalStop(id)
      PROVE  IInv'
  <2>1. api' \in Account /\ Grows(api, api')
    BY <1>0, <1>2, ServerStopGrows DEF ExternalStop, Ongoing
  <2>2. edits' = edits /\ faults' \in 0..MaxFaults
    BY <1>0, <1>2, FaultFacts DEF ExternalStop
  <2>3. UNCHANGED <<config, disk, pc, cfg, loaded, todo, warns, cs, cur, out>>
    BY <1>2 DEF ExternalStop, plan, exec
  <2>4. TypeOK' /\ NoPlanYet'
    BY <1>0, <2>1, <2>2, <2>3 DEF TypeOK, NoPlanYet
  <2>5. Truthful(disk', api') /\ \A q \in Procs : Truthful(out'[q], api')
    BY <1>0, <2>1, <2>3, TruthfulGrows DEF TypeOK, RecordsTruthful
  <2> QED
    BY <2>1, <2>3, <2>4, <2>5, NoNewPlan
<1>3. ASSUME NEW p \in Procs, GiveUp(p) \/ Crash(p)
      PROVE  IInv'
  <2>1. /\ Exit(p)
        /\ UNCHANGED <<config, disk, api>>
        /\ edits' = edits /\ faults' \in 0..MaxFaults
    BY <1>0, <1>3, FaultFacts DEF GiveUp, Crash, shared
  <2> QED
    BY <1>0, <2>1, ExitKeepsIInv DEF TypeOK, RecordsTruthful
<1>4. ASSUME NEW p \in Procs, SaveState(p)
      PROVE  IInv'
  <2>1. /\ Exit(p)
        /\ UNCHANGED <<config, api, edits, faults>>
        /\ disk' \in StateFile /\ Truthful(disk', api)
    BY <1>0, <1>4 DEF SaveState, budget, TypeOK, RecordsTruthful
  <2> QED
    BY <1>0, <2>1, ExitKeepsIInv DEF TypeOK
<1>5. ASSUME NEW p \in Procs, NEW c \in cs[p],
             ApplyNoOp(p, c) \/ CallRejected(p, c) \/ CallFails(p, c)
      PROVE  IInv'
  <2>1. Execute(p, c) /\ UNCHANGED <<api, out>>
    BY <1>5 DEF ApplyNoOp, CallRejected, CallFails
  <2>2. edits' = edits /\ faults' \in 0..MaxFaults
    BY <1>0, <1>5, FaultFacts
       DEF ApplyNoOp, CallRejected, CallFails, budget, TypeOK
  <2>3. api' \in Account
    BY <1>0, <2>1 DEF TypeOK
  <2> QED
    BY <2>1, <2>2, <2>3, GrowsRefl, ExecuteUnrecorded
<1>6. ASSUME NEW p \in Procs, Step(p)
      PROVE  IInv'
  BY <1>4, <1>5, <1>6, ReadingKeepsIInv, ListLiveKeepsIInv,
     MoveNamespaceKeepsIInv, ApplyCreateKeepsIInv, ApplyStopKeepsIInv,
     ApplyProbesKeepsIInv DEF Step
<1>7. CASE Disturbance
  BY <1>1, <1>2, <1>3, <1>5, <1>7, ReadingKeepsIInv, ReplyLostKeepsIInv
     DEF Disturbance
<1>8. CASE UNCHANGED vars
  <2>1. TypeOK' /\ NoPlanYet'
    BY <1>0, <1>8 DEF TypeOK, NoPlanYet, vars, shared, plan, exec, budget
  <2> QED
    BY <1>0, <1>8, <2>1, GrowsRefl, NoNewPlan
       DEF RecordsTruthful, vars, shared, plan, exec, budget
<1> QED
  BY <1>6, <1>7, <1>8 DEF Next

\* IInv holds in every reachable state.
THEOREM SpecIInv == Spec => []IInv
BY InitIInv, NextKeepsIInv, PTL DEF Spec

\* Types of the variables: in particular no plan ever holds a create without a
\* spec or a change without a measurement ID (LiveDiff).
THEOREM SpecTypeOK == Spec => []TypeOK
BY SpecIInv, PTL DEF IInv

\* However runs overlap, fail and crash, every record on disk or in memory
\* names a measurement of its own key with the attributes recorded (Apply,
\* SaveState).
THEOREM SpecRecordsTruthful == Spec => []RecordsTruthful
BY SpecIInv, PTL DEF IInv

\* Every planned create is for a wanted key and carries its effective spec
\* (LiveDiff).
THEOREM SpecCreatesOnlyDesired == Spec => []CreatesOnlyDesired
BY SpecIInv, PTL DEF IInv

\* No run plans to stop a running measurement that is already what its
\* configuration asks for (LiveDiff).
THEOREM SpecStopsOnlyOutdated == Spec => []StopsOnlyOutdated
BY SpecIInv, PTL DEF IInv

=============================================================================
