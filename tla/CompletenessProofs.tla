--------------------------- MODULE CompletenessProofs ---------------------------
(***************************************************************************)
(* What a plan of Reconcile does not leave out, and what the state file    *)
(* does not lose.  The invariants of ReconcileProofs say that plans and    *)
(* records are sound whatever happens; these say that they are complete,   *)
(* and hold under the assumptions each theorem names.                      *)
(***************************************************************************)
EXTENDS ReconcileProofs

Planning(p) == pc[p] \in {"ghost", "confirm"}

\* No measurement has HTTP fields.
NoHttpMeasurements == HttpOpts = {NoHttp}

OneRun == \A p, q \in Procs : p = q

\* Nothing changes the account but the one run there is.
Alone == OneRun /\ "extstop" \notin FaultKinds

-----------------------------------------------------------------------------
(* What any step does to the account and to the plan of a run.              *)

\* Under every step the account only grows.
LEMMA AccountGrows ==
    ASSUME IInv, [Next]_vars
    PROVE  Grows(api, api')
<1>0. TypeOK /\ CreatesOnlyDesired
  BY DEF IInv
<1>1. CASE api' = api
  BY <1>1, GrowsRefl
<1>2. ASSUME NEW id \in MsmIDs, ExternalStop(id)
      PROVE  Grows(api, api')
  BY <1>0, <1>2, ServerStopGrows DEF ExternalStop, Ongoing
<1>3. ASSUME NEW p \in Procs, NEW c \in cs[p], Execute(p, c), c.kind = "create",
             NEW id \in MsmIDs, ServerCreate(p, c, id)
      PROVE  Grows(api, api')
  <2>1. cfg[p] # NoConfig
    BY <1>3, ExecuteFacts
  <2> QED
    BY <1>0, <1>3, <2>1, ServerCreateGrows
<1>4. ASSUME NEW p \in Procs, NEW c \in cs[p], Execute(p, c), c.kind = "stop",
             Accepts(c), ServerStop(c)
      PROVE  Grows(api, api')
  <2>1. c \in Change
    BY <1>4, ExecuteFacts
  <2>2. c.id \in MsmIDs /\ Exists(c.id)
    BY <1>4, <2>1 DEF Change, Accepts
  <2> QED
    BY <1>0, <1>4, <2>2, ServerStopGrows DEF ServerStop
<1>5. ASSUME NEW p \in Procs, NEW c \in cs[p], Execute(p, c),
             c.kind \in {"add_probes", "remove_probes"}, Accepts(c), ServerProbes(c)
      PROVE  Grows(api, api')
  <2>1. c \in Change
    BY <1>5, ExecuteFacts
  <2> QED
    BY <1>0, <1>5, <2>1, ServerProbesGrows
<1>6. ASSUME NEW p \in Procs, NEW c \in cs[p],
             ApplyCreate(p, c) \/ ApplyStop(p, c) \/ ApplyProbes(p, c)
               \/ ReplyLost(p, c)
      PROVE  Grows(api, api')
  BY <1>3, <1>4, <1>5, <1>6 DEF ApplyCreate, ApplyStop, ApplyProbes, ReplyLost
<1>7. ASSUME NEW p \in Procs, Step(p) PROVE Grows(api, api')
  <2>1. CASE \E c \in cs[p] : ApplyCreate(p, c) \/ ApplyStop(p, c) \/ ApplyProbes(p, c)
    BY <1>6, <2>1
  <2>2. CASE ~\E c \in cs[p] : ApplyCreate(p, c) \/ ApplyStop(p, c) \/ ApplyProbes(p, c)
    <3>1. api' = api
      BY <1>7, <2>2 DEF Step, Start, LoadState, ListLive, ReportGhost, MoveNamespace,
             PlanReady, Confirm, ApplyNoOp, CallRejected, ApplyReturns, SaveState,
             shared
    <3> QED
      BY <1>1, <3>1
  <2> QED
    BY <2>1, <2>2
<1>8. CASE Disturbance
  <2>1. CASE api' = api
    BY <1>1, <2>1
  <2>2. CASE api' # api
    <3>1. \/ \E id \in MsmIDs : ExternalStop(id)
          \/ \E p \in Procs : \E c \in cs[p] : ReplyLost(p, c)
      BY <1>8, <2>2 DEF Disturbance, EditConfig, GiveUp, CallFails, Cancel, Crash,
             shared
    <3> QED
      BY <1>2, <1>6, <3>1
  <2> QED
    BY <2>1, <2>2
<1> QED
  BY <1>1, <1>7, <1>8 DEF Next, vars, shared

\* What run p read and plans stays as it is.
PlanKept(p) ==
    /\ Planning(p)
    /\ pc[p] = "confirm" => pc'[p] = "confirm"
    /\ pc'[p] = "confirm" => pc[p] = "confirm" \/ todo[p] = {}
    /\ cfg'[p] = cfg[p]
    /\ loaded'[p] = loaded[p]
    /\ cs'[p] = cs[p]
    /\ todo'[p] = todo[p]
    /\ warns'[p] = warns[p]

\* Plans are made by LiveDiff's steps and by nothing else.
LEMMA PlanSteps ==
    ASSUME TypeOK, [Next]_vars, NEW p \in Procs, Planning(p)'
    PROVE  \/ ListLive(p)
           \/ \E k \in Keys : ReportGhost(p, k)
           \/ \E k \in Keys : MoveNamespace(p, k)
           \/ PlanKept(p)
<1> USE DEF Planning, PlanKept, TypeOK, shared, plan, exec, budget
<1>1. ASSUME NEW q \in Procs, Start(q) \/ LoadState(q) \/ Confirm(q)
      PROVE  PlanKept(p)
  BY <1>1 DEF Start, LoadState, Confirm
<1>2. ASSUME NEW q \in Procs, ApplyReturns(q) \/ Cancel(q)
      PROVE  PlanKept(p)
  BY <1>2 DEF ApplyReturns, Cancel
<1>3. ASSUME NEW q \in Procs, PlanReady(q)
      PROVE  PlanKept(p)
  BY <1>3 DEF PlanReady
<1>4. ASSUME NEW q \in Procs, GiveUp(q) \/ SaveState(q) \/ Crash(q)
      PROVE  PlanKept(p)
  <2>1. Exit(q)
    BY <1>4 DEF GiveUp, SaveState, Crash
  <2> QED
    BY <2>1 DEF Exit
<1>5. ASSUME NEW q \in Procs, NEW c \in cs[q],
             \/ ApplyNoOp(q, c) \/ ApplyCreate(q, c) \/ ApplyStop(q, c)
             \/ ApplyProbes(q, c) \/ CallRejected(q, c) \/ CallFails(q, c)
             \/ ReplyLost(q, c)
      PROVE  PlanKept(p)
  <2>1. Execute(q, c)
    BY <1>5 DEF ApplyNoOp, ApplyCreate, ApplyStop, ApplyProbes, CallRejected,
               CallFails, ReplyLost
  <2> QED
    BY <2>1 DEF Execute
<1>6. ASSUME EditConfig \/ \E id \in MsmIDs : ExternalStop(id)
      PROVE  PlanKept(p)
  BY <1>6 DEF EditConfig, ExternalStop
<1>7. ASSUME NEW q \in Procs, q # p, ListLive(q)
      PROVE  PlanKept(p)
  BY <1>7 DEF ListLive
<1>8. ASSUME NEW q \in Procs, q # p, NEW k \in Keys,
             ReportGhost(q, k) \/ MoveNamespace(q, k)
      PROVE  PlanKept(p)
  BY <1>8 DEF ReportGhost, MoveNamespace
<1>9. CASE UNCHANGED vars
  BY <1>9 DEF vars
<1>10. ASSUME NEW q \in Procs, Step(q)
       PROVE  \/ ListLive(p)
              \/ \E k \in Keys : ReportGhost(p, k)
              \/ \E k \in Keys : MoveNamespace(p, k)
              \/ PlanKept(p)
  BY <1>1, <1>2, <1>3, <1>4, <1>5, <1>7, <1>8, <1>10 DEF Step
<1>11. CASE Disturbance
  BY <1>2, <1>4, <1>5, <1>6, <1>11 DEF Disturbance
<1> QED
  BY <1>9, <1>10, <1>11 DEF Next

-----------------------------------------------------------------------------
(* LiveDiff leaves no outdated measurement alone.                           *)

\* A structural change is planned as a stop and a create.
LEMMA DiffStops ==
    ASSUME NEW desired \in [Keys -> OptSpec], NEW state \in StateFile,
           NEW k \in Keys, desired[k] # NoSpec, state[k] # NoRecord,
           IsStructuralChange(state[k], desired[k])
    PROVE  k \in Stopping(Diff(desired, state))
<1>1. StopOf(k, state[k].id, 1) \in DiffKey(k, desired[k], state[k])
  BY DEF DiffKey
<1>2. StopOf(k, state[k].id, 1) \in Diff(desired, state)
  BY <1>1 DEF Diff
<1> QED
  BY <1>2 DEF Stopping, StopOf

\* Cancelling keys takes away their stops and no other.
LEMMA StopsLeft ==
    ASSUME NEW cs_, NEW ks, NEW state, NEW k \in Stopping(cs_) \ ks
    PROVE  k \in Stopping(CancelStopCreate(cs_, ks, state))
BY DEF Stopping, CancelStopCreate

\* Moving one key keeps the stops of all others, and adds one.
LEMMA StopsReplaced ==
    ASSUME NEW cs_, NEW l, NEW id, NEW spec
    PROVE  /\ l \in Stopping(ReplaceWithStopCreate(cs_, l, id, spec))
           /\ \A k \in Stopping(cs_) :
                 k \in Stopping(ReplaceWithStopCreate(cs_, l, id, spec))
<1>1. StopOf(l, id, 4) \in ReplaceWithStopCreate(cs_, l, id, spec)
  BY DEF ReplaceWithStopCreate
<1>2. l \in Stopping(ReplaceWithStopCreate(cs_, l, id, spec))
  BY <1>1 DEF Stopping, StopOf
<1>3. ASSUME NEW k \in Stopping(cs_), k # l
      PROVE  k \in Stopping(ReplaceWithStopCreate(cs_, l, id, spec))
  BY <1>3 DEF Stopping, ReplaceWithStopCreate, DropKey
<1> QED
  BY <1>2, <1>3

\* The recorded measurement of k runs and is not what the configuration of p
\* asks for.
Outdated(p, k) ==
    /\ loaded[p][k] # NoRecord
    /\ Ongoing(loaded[p][k].id)
    /\ ~Serves(api[loaded[p][k].id], Wanted(cfg[p])[k])

\* It will be stopped, or looked up first.
OutdatedPlanned ==
    \A p \in Procs : Planning(p) =>
        \A k \in Keys : Outdated(p, k) => k \in todo[p] \/ k \in Stopping(cs[p])

\* What is still looked up, if it runs, runs under another namespace: a
\* measurement that does not is in the live list or never runs again.
LookedUpElsewhere ==
    \A p \in Procs : Planning(p) =>
        \A k \in todo[p] :
            Ongoing(loaded[p][k].id) => api[loaded[p][k].id].ns # Codec(cfg[p])

\* No plan is shown before the last lookup.
LookupsDone == \A p \in Procs : pc[p] = "confirm" => todo[p] = {}

OutdatedInv == OutdatedPlanned /\ LookedUpElsewhere /\ LookupsDone

\* A recorded measurement that runs after a step ran before it, and was the same.
LEMMA RecordedStays ==
    ASSUME IInv, [Next]_vars, NEW p \in Procs, NEW k \in Keys,
           loaded[p][k] # NoRecord
    PROVE  LET id == loaded[p][k].id IN
           /\ id \in MsmIDs
           /\ Exists(id)
           /\ api'[id] # NoMsm /\ api'[id].status = "ongoing" => Ongoing(id)
           /\ api'[id].ns = api[id].ns
           /\ api'[id].attr = api[id].attr
           /\ api'[id].http = api[id].http
<1>1. loaded[p] \in StateFile /\ Truthful(loaded[p], api)
  BY DEF IInv, TypeOK, RecordsTruthful
<1>2. loaded[p][k].id \in MsmIDs /\ Exists(loaded[p][k].id)
  BY <1>1 DEF StateFile, MsmRecord, Truthful, Exists
<1> QED
  BY <1>2, AccountGrows DEF Grows, Exists, Ongoing

\* LiveDiff's diff: what is outdated is being stopped or looked up.
LEMMA ListLiveCompletes ==
    ASSUME IInv, NoHttpMeasurements, NEW p \in Procs, ListLive(p), NEW k \in Keys
    PROVE  /\ Outdated(p, k) => k \in todo'[p] \/ k \in Stopping(cs'[p])
           /\ k \in todo'[p] /\ Ongoing(loaded[p][k].id)
                => api[loaded[p][k].id].ns # Codec(cfg[p])
<1> DEFINE wanted   == Wanted(cfg[p])
           live     == Live(cfg[p])
           base     == Diff(wanted, loaded[p])
           cancel   == FalseNamespaceChange(wanted, loaded[p], live,
                                            Stopping(base))
           stopping == Stopping(base) \ cancel
           id       == loaded[p][k].id
<1>1. /\ cs'[p] = CancelStopCreate(base, cancel, loaded[p])
      /\ todo'[p] = Lookups(loaded[p], live, stopping)
  BY DEF ListLive, IInv, TypeOK
<1>2. /\ cfg[p] \in Configs
      /\ loaded[p] \in StateFile
      /\ Truthful(loaded[p], api)
      /\ api \in Account
  BY DEF IInv, TypeOK, RecordsTruthful, ListLive
<1>3. /\ wanted \in [Keys -> OptSpec]
      /\ wanted[k] # NoSpec => /\ wanted[k] \in MsmSpec
                               /\ wanted[k].ns = Codec(cfg[p])
  BY <1>2, WantedFacts
<1>4. ASSUME loaded[p][k] # NoRecord
      PROVE  id \in MsmIDs /\ api[id].attr = loaded[p][k].attr
             /\ api[id] \in Measurement
  BY <1>2, <1>4 DEF StateFile, MsmRecord, Truthful, Account
<1> HIDE DEF wanted
<1>5. ASSUME k \in stopping PROVE k \in Stopping(cs'[p])
  BY <1>1, <1>5, StopsLeft
<1>6. ASSUME k \in todo'[p], Ongoing(id)
      PROVE  api[id].ns # Codec(cfg[p])
  BY <1>1, <1>4, <1>6 DEF Lookups, Live, ClientCodec
<1>7. ASSUME Outdated(p, k)
      PROVE  k \in todo'[p] \/ k \in stopping
  <2>1. loaded[p][k] # NoRecord /\ Ongoing(id) /\ ~Serves(api[id], wanted[k])
    BY <1>7 DEF Outdated, wanted
  <2>2. CASE id \notin live
    BY <1>1, <2>1, <2>2 DEF Lookups
  <2>3. CASE id \in live /\ wanted[k] = NoSpec
    BY <1>2, <1>3, <2>1, <2>3, DiffFacts DEF FalseNamespaceChange
  <2>4. CASE id \in live /\ wanted[k] # NoSpec
    <3>1. api[id].ns = wanted[k].ns
      BY <1>3, <2>4 DEF Live, ClientCodec
    <3>2. api[id].http = wanted[k].http
      BY <1>3, <1>4, <2>1, <2>4 DEF NoHttpMeasurements, MsmSpec, Measurement
    <3>3. loaded[p][k].attr # wanted[k].attr
      BY <1>4, <2>1, <2>4, <3>1, <3>2 DEF Serves
    <3>4. k \in Stopping(base)
      BY <1>2, <1>3, <2>1, <2>4, <3>3, DiffStops DEF IsStructuralChange
    <3>5. k \notin cancel
      BY <3>3 DEF FalseNamespaceChange, NonNamespaceStructuralChange
    <3> QED
      BY <3>4, <3>5
  <2> QED
    BY <2>2, <2>3, <2>4
<1> QED
  BY <1>5, <1>6, <1>7

\* Every step keeps OutdatedInv.
LEMMA NextKeepsOutdatedInv ==
    ASSUME NoHttpMeasurements, IInv, OutdatedInv, [Next]_vars
    PROVE  OutdatedInv'
<1>0. TypeOK
  BY DEF IInv
<1> SUFFICES ASSUME NEW p \in Procs, Planning(p)'
             PROVE  /\ \A k \in Keys : Outdated(p, k)' =>
                          k \in todo'[p] \/ k \in Stopping(cs'[p])
                    /\ \A k \in todo'[p] :
                          Ongoing(loaded[p][k].id)' =>
                             api'[loaded'[p][k].id].ns # Codec(cfg'[p])
                    /\ pc'[p] = "confirm" => todo'[p] = {}
  BY DEF OutdatedInv, OutdatedPlanned, LookedUpElsewhere, LookupsDone, Planning,
         Stopping
<1>1. ASSUME NEW k \in Keys, cfg'[p] = cfg[p], loaded'[p] = loaded[p]
      PROVE  /\ Outdated(p, k)' => Outdated(p, k)
             /\ loaded[p][k] # NoRecord /\ Ongoing(loaded[p][k].id)' =>
                   /\ Ongoing(loaded[p][k].id)
                   /\ api'[loaded'[p][k].id].ns = api[loaded[p][k].id].ns
  BY <1>1, RecordedStays DEF Outdated, Ongoing, Exists, Serves
<1>2. ASSUME NEW k \in todo[p] PROVE k \in Keys /\ loaded[p][k] # NoRecord
  BY <1>0 DEF TypeOK, IInv, LookupsWanted
<1>3. CASE ListLive(p)
  <2>1. UNCHANGED <<cfg, loaded, api>> /\ pc'[p] = "ghost" /\ todo'[p] \subseteq Keys
    BY <1>0, <1>3 DEF ListLive, shared, TypeOK, Lookups
  <2> QED
    BY <1>3, <2>1, ListLiveCompletes DEF Outdated, Ongoing, Exists
<1>4. ASSUME NEW l \in Keys, ReportGhost(p, l)
      PROVE  /\ \A k \in Keys : Outdated(p, k)' =>
                          k \in todo'[p] \/ k \in Stopping(cs'[p])
             /\ \A k \in todo'[p] : Ongoing(loaded[p][k].id)' =>
                             api'[loaded'[p][k].id].ns # Codec(cfg'[p])
             /\ pc'[p] = "confirm" => todo'[p] = {}
  <2>1. /\ UNCHANGED <<cfg, loaded, api, cs, pc>>
        /\ pc[p] = "ghost" /\ l \in todo[p]
        /\ todo'[p] = todo[p] \ {l}
        /\ Ongoing(loaded[p][l].id) => api[loaded[p][l].id].ns = Codec(cfg[p])
    BY <1>0, <1>4 DEF ReportGhost, shared, exec, TypeOK
  <2>2. ~Ongoing(loaded[p][l].id)
    BY <2>1 DEF OutdatedInv, LookedUpElsewhere, Planning
  <2>3. ~Outdated(p, l)
    BY <2>2 DEF Outdated
  <2> QED
    BY <1>1, <1>2, <2>1, <2>3 DEF OutdatedInv, OutdatedPlanned, LookedUpElsewhere,
       Planning
<1>5. ASSUME NEW l \in Keys, MoveNamespace(p, l)
      PROVE  /\ \A k \in Keys : Outdated(p, k)' =>
                          k \in todo'[p] \/ k \in Stopping(cs'[p])
             /\ \A k \in todo'[p] : Ongoing(loaded[p][k].id)' =>
                             api'[loaded'[p][k].id].ns # Codec(cfg'[p])
             /\ pc'[p] = "confirm" => todo'[p] = {}
  <2>1. /\ UNCHANGED <<cfg, loaded, api, pc>>
        /\ pc[p] = "ghost"
        /\ todo'[p] = todo[p] \ {l}
        /\ cs'[p] = ReplaceWithStopCreate(cs[p], l, loaded[p][l].id,
                                          Wanted(cfg[p])[l])
    BY <1>0, <1>5 DEF MoveNamespace, shared, TypeOK
  <2>2. l \in Stopping(cs'[p]) /\ \A k \in Stopping(cs[p]) : k \in Stopping(cs'[p])
    BY <2>1, StopsReplaced
  <2> QED
    BY <1>1, <1>2, <2>1, <2>2 DEF OutdatedInv, OutdatedPlanned, LookedUpElsewhere,
       Planning
<1>6. CASE PlanKept(p)
  BY <1>1, <1>2, <1>6 DEF PlanKept, Planning, OutdatedInv, OutdatedPlanned,
     LookedUpElsewhere, LookupsDone
<1> QED
  BY <1>0, <1>3, <1>4, <1>5, <1>6, PlanSteps

\* Without HTTP fields, and whatever runs overlap or fail, every plan shown stops
\* each recorded running measurement that is not what the configuration asks for
\* (LiveDiff's corrections and ghost loop).
THEOREM SpecOutdatedStopped ==
    ASSUME NoHttpMeasurements
    PROVE  Spec => []OutdatedStopped
<1>1. Init => OutdatedInv
  BY DEF Init, OutdatedInv, OutdatedPlanned, LookedUpElsewhere, LookupsDone, Planning
<1>2. IInv /\ OutdatedInv /\ [Next]_vars => OutdatedInv'
  BY NextKeepsOutdatedInv
<1>3. IInv /\ OutdatedInv => OutdatedStopped
  <2> SUFFICES ASSUME IInv, OutdatedInv, NEW p \in Procs, pc[p] = "confirm",
                      NEW k \in Keys, Outdated(p, k)
               PROVE  \E c \in cs[p] : c.kind = "stop" /\ c.id = loaded[p][k].id
    BY DEF OutdatedStopped, Outdated
  <2>1. k \in Stopping(cs[p])
    BY DEF OutdatedInv, OutdatedPlanned, LookupsDone, Planning
  <2>2. PICK c \in cs[p] : c.kind = "stop" /\ c.key = k
    BY <2>1 DEF Stopping
  <2>3. c.id = loaded[p][k].id
    BY <2>2 DEF IInv, OwnChanges
  <2> QED
    BY <2>2, <2>3
<1> QED
  BY <1>1, <1>2, <1>3, SpecIInv, PTL DEF Spec
-----------------------------------------------------------------------------
(* LiveDiff is silent about no drift.                                       *)

\* The only run there is makes its plan on an account that stands still.
LEMMA AccountQuiet ==
    ASSUME Alone, TypeOK, [Next]_vars, NEW p \in Procs, Planning(p)'
    PROVE  api' = api
<1> USE DEF shared, plan, exec
<1>1. CASE ListLive(p) \/ \E k \in Keys : ReportGhost(p, k) \/ MoveNamespace(p, k)
  BY <1>1 DEF ListLive, ReportGhost, MoveNamespace
<1>2. CASE PlanKept(p)
  <2>1. \A q \in Procs : pc[q] # "apply"
    BY <1>2 DEF PlanKept, Planning, Alone, OneRun
  <2>2. ASSUME NEW q \in Procs, NEW c \in cs[q], Execute(q, c)
        PROVE  FALSE
    BY <2>1, <2>2 DEF Execute
  <2>3. ASSUME NEW q \in Procs, NEW c \in cs[q]
        PROVE  /\ ~ApplyNoOp(q, c) /\ ~ApplyCreate(q, c) /\ ~ApplyStop(q, c)
               /\ ~ApplyProbes(q, c) /\ ~CallRejected(q, c)
               /\ ~CallFails(q, c) /\ ~ReplyLost(q, c)
    BY <2>2 DEF ApplyNoOp, ApplyCreate, ApplyStop, ApplyProbes, CallRejected,
                CallFails, ReplyLost
  <2>4. ASSUME NEW q \in Procs, Step(q) PROVE api' = api
    BY <2>3, <2>4 DEF Step, Start, LoadState, ListLive, ReportGhost, MoveNamespace,
           PlanReady, Confirm, ApplyReturns, SaveState
  <2>5. CASE Disturbance
    <3>1. ~\E id \in MsmIDs : ExternalStop(id)
      BY DEF Alone, ExternalStop, Fault
    <3> QED
      BY <2>3, <2>5, <3>1 DEF Disturbance, EditConfig, GiveUp, Cancel, Crash
  <2> QED
    BY <2>4, <2>5 DEF Next, vars
<1> QED
  BY <1>1, <1>2, PlanSteps

GhostWarning(p, k) == [kind |-> "ghost", key |-> k, id |-> loaded[p][k].id]

\* A record without a running measurement is reported, stopped, or looked up yet.
GhostsPlanned ==
    \A p \in Procs : Planning(p) =>
        \A k \in Keys :
            loaded[p][k] # NoRecord /\ ~Ongoing(loaded[p][k].id) =>
                \/ GhostWarning(p, k) \in warns[p]
                \/ k \in todo[p]
                \/ k \in Stopping(cs[p])

OrphansWarned ==
    \A p \in Procs : Planning(p) =>
        OrphanWarnings(loaded[p], Live(cfg[p])) \subseteq warns[p]

DriftInv == GhostsPlanned /\ OrphansWarned /\ LookupsDone

\* Every step keeps DriftInv.
LEMMA NextKeepsDriftInv ==
    ASSUME Alone, IInv, DriftInv, [Next]_vars
    PROVE  DriftInv'
<1>0. TypeOK
  BY DEF IInv
<1> SUFFICES ASSUME NEW p \in Procs, Planning(p)'
             PROVE  /\ \A k \in Keys :
                          loaded'[p][k] # NoRecord /\ ~Ongoing(loaded[p][k].id)' =>
                             \/ GhostWarning(p, k)' \in warns'[p]
                             \/ k \in todo'[p]
                             \/ k \in Stopping(cs'[p])
                    /\ OrphanWarnings(loaded[p], Live(cfg[p]))' \subseteq warns'[p]
                    /\ pc'[p] = "confirm" => todo'[p] = {}
  BY DEF DriftInv, GhostsPlanned, OrphansWarned, LookupsDone, Planning, Stopping
<1>1. api' = api
  BY <1>0, AccountQuiet
<1>2. ASSUME cfg'[p] = cfg[p], loaded'[p] = loaded[p]
      PROVE  /\ OrphanWarnings(loaded[p], Live(cfg[p]))' =
                    OrphanWarnings(loaded[p], Live(cfg[p]))
             /\ \A k \in Keys : /\ Ongoing(loaded[p][k].id)' = Ongoing(loaded[p][k].id)
                                /\ GhostWarning(p, k)' = GhostWarning(p, k)
  BY <1>1, <1>2 DEF OrphanWarnings, Live, ClientCodec, Ongoing, Exists, GhostWarning
<1>3. CASE ListLive(p)
  <2> DEFINE live     == Live(cfg[p])
             base     == Diff(Wanted(cfg[p]), loaded[p])
             cancel   == FalseNamespaceChange(Wanted(cfg[p]), loaded[p], live,
                                              Stopping(base))
             stopping == Stopping(base) \ cancel
  <2>1. /\ UNCHANGED <<cfg, loaded>>
        /\ pc'[p] = "ghost"
        /\ cs'[p] = CancelStopCreate(base, cancel, loaded[p])
        /\ todo'[p] = Lookups(loaded[p], live, stopping)
        /\ warns'[p] = OrphanWarnings(loaded[p], live)
    BY <1>0, <1>3 DEF ListLive, TypeOK
  <2>2. ASSUME NEW k \in Keys, loaded[p][k] # NoRecord, ~Ongoing(loaded[p][k].id)
        PROVE  k \in todo'[p] \/ k \in Stopping(cs'[p])
    <3>1. loaded[p][k].id \notin live
      BY <2>2 DEF Live
    <3>2. k \in todo'[p] \/ k \in stopping
      BY <2>1, <2>2, <3>1 DEF Lookups
    <3> QED
      BY <2>1, <3>2, StopsLeft
  <2> QED
    BY <1>2, <2>1, <2>2
<1>4. ASSUME NEW l \in Keys, ReportGhost(p, l)
      PROVE  /\ \A k \in Keys :
                   loaded'[p][k] # NoRecord /\ ~Ongoing(loaded[p][k].id)' =>
                      \/ GhostWarning(p, k)' \in warns'[p]
                      \/ k \in todo'[p]
                      \/ k \in Stopping(cs'[p])
             /\ OrphanWarnings(loaded[p], Live(cfg[p]))' \subseteq warns'[p]
             /\ pc'[p] = "confirm" => todo'[p] = {}
  <2>1. /\ UNCHANGED <<cfg, loaded, cs, pc>>
        /\ pc[p] = "ghost"
        /\ todo'[p] = todo[p] \ {l}
        /\ warns'[p] = warns[p] \cup {GhostWarning(p, l)}
    BY <1>0, <1>4 DEF ReportGhost, shared, exec, TypeOK, GhostWarning
  <2> QED
    BY <1>2, <2>1 DEF DriftInv, GhostsPlanned, OrphansWarned, Planning
<1>5. ASSUME NEW l \in Keys, MoveNamespace(p, l)
      PROVE  /\ \A k \in Keys :
                   loaded'[p][k] # NoRecord /\ ~Ongoing(loaded[p][k].id)' =>
                      \/ GhostWarning(p, k)' \in warns'[p]
                      \/ k \in todo'[p]
                      \/ k \in Stopping(cs'[p])
             /\ OrphanWarnings(loaded[p], Live(cfg[p]))' \subseteq warns'[p]
             /\ pc'[p] = "confirm" => todo'[p] = {}
  <2>1. /\ UNCHANGED <<cfg, loaded, warns, pc>>
        /\ pc[p] = "ghost"
        /\ todo'[p] = todo[p] \ {l}
        /\ cs'[p] = ReplaceWithStopCreate(cs[p], l, loaded[p][l].id,
                                          Wanted(cfg[p])[l])
    BY <1>0, <1>5 DEF MoveNamespace, shared, TypeOK
  <2>2. l \in Stopping(cs'[p]) /\ \A k \in Stopping(cs[p]) : k \in Stopping(cs'[p])
    BY <2>1, StopsReplaced
  <2> QED
    BY <1>2, <2>1, <2>2 DEF DriftInv, GhostsPlanned, OrphansWarned, Planning
<1>6. CASE PlanKept(p)
  BY <1>2, <1>6 DEF PlanKept, DriftInv, GhostsPlanned, OrphansWarned, LookupsDone
<1> QED
  BY <1>0, <1>3, <1>4, <1>5, <1>6, PlanSteps

\* When nothing else touches the account, every plan shown reports each record
\* without a running measurement and each running measurement without a record
\* (LiveDiff's orphan and ghost loops).
THEOREM SpecDriftReported ==
    ASSUME Alone
    PROVE  Spec => []DriftReported
<1>1. Init => DriftInv
  BY DEF Init, DriftInv, GhostsPlanned, OrphansWarned, LookupsDone, Planning
<1>2. IInv /\ DriftInv /\ [Next]_vars => DriftInv'
  BY NextKeepsDriftInv
<1>3. IInv /\ DriftInv => DriftReported
  <2> SUFFICES ASSUME IInv, DriftInv, NEW p \in Procs, pc[p] = "confirm"
               PROVE  /\ \A k \in Keys :
                            loaded[p][k] # NoRecord /\ ~Ongoing(loaded[p][k].id) =>
                               \/ GhostWarning(p, k) \in warns[p]
                               \/ \E c \in cs[p] : /\ c.kind = "stop"
                                                   /\ c.id = loaded[p][k].id
                      /\ \A id \in Live(cfg[p]) :
                            loaded[p][api[id].key] = NoRecord =>
                               [kind |-> "orphan", key |-> api[id].key, id |-> id]
                                  \in warns[p]
    BY DEF DriftReported, GhostWarning
  <2>1. ASSUME NEW k \in Keys, k \in Stopping(cs[p])
        PROVE  \E c \in cs[p] : c.kind = "stop" /\ c.id = loaded[p][k].id
    <3>1. PICK c \in cs[p] : c.kind = "stop" /\ c.key = k
      BY <2>1 DEF Stopping
    <3> QED
      BY <3>1 DEF IInv, OwnChanges
  <2>2. OrphanWarnings(loaded[p], Live(cfg[p])) \subseteq warns[p] /\ todo[p] = {}
    BY DEF DriftInv, OrphansWarned, LookupsDone, Planning
  <2> QED
    BY <2>1, <2>2 DEF DriftInv, GhostsPlanned, Planning, OrphanWarnings
<1> QED
  BY <1>1, <1>2, <1>3, SpecIInv, PTL DEF Spec
-----------------------------------------------------------------------------
(* The state file loses no measurement.                                     *)

\* No call has an effect Apply is not told of, and no stop fails that the
\* account could have accepted.
ToldFaults == FaultKinds \cap {"lost", "crash", "stop"} = {}

\* The state file st accounts for every running measurement of account acct.
Accounts(st, acct) ==
    \A id \in MsmIDs :
        acct[id] # NoMsm /\ acct[id].status = "ongoing" =>
            /\ st[acct[id].key] # NoRecord
            /\ st[acct[id].key].id = id
            /\ st[acct[id].key].probes = acct[id].probes

FleetsAccounted == \A f \in Fleets : Accounts(f.disk, f.api)

Running(k) == {id \in MsmIDs : Ongoing(id) /\ api[id].key = k}

\* Where run p stands: the state it works with accounts for everything; what it
\* loaded is still on disk when it is planned with; a planned stop concerns the
\* only measurement that may run for its key; and a planned create comes after
\* such a stop, or there is none to stop.
LedgerAt(p) ==
    /\ Accounts(View(p), api)
    /\ pc[p] \in {"list", "ghost", "confirm"} => loaded[p] = disk
    /\ \A c \in cs[p] : c.kind = "stop" => Running(c.key) \subseteq {c.id}
    /\ \A c \in cs[p] : c.kind = "create" =>
          c.key \in Stopping(cs[p]) \/ Running(c.key) = {}

LedgerInv == \A p \in Procs : LedgerAt(p)

\* Accounts is EveryMeasurementRecorded.
LEMMA LedgerRecords == LedgerInv => EveryMeasurementRecorded
BY DEF LedgerInv, LedgerAt, Accounts, EveryMeasurementRecorded, Ongoing, Exists

\* Fewer running measurements need no more records.
LEMMA FewerRunning ==
    ASSUME NEW st, NEW a, NEW b, Accounts(st, a),
           \A id \in MsmIDs : b[id] # NoMsm /\ b[id].status = "ongoing" =>
              /\ a[id] # NoMsm /\ a[id].status = "ongoing"
              /\ b[id].key = a[id].key /\ b[id].probes = a[id].probes
    PROVE  Accounts(st, b)
BY DEF Accounts

\* Apply's copy of the state accounts for as much.
LEMMA CloneAccounts ==
    ASSUME NEW st \in StateFile, NEW a \in Account, Accounts(st, a)
    PROVE  Accounts(CloneState(st), a)
<1> SUFFICES ASSUME NEW id \in MsmIDs, a[id] # NoMsm, a[id].status = "ongoing"
             PROVE  /\ CloneState(st)[a[id].key] # NoRecord
                    /\ CloneState(st)[a[id].key].id = id
                    /\ CloneState(st)[a[id].key].probes = a[id].probes
  BY DEF Accounts
<1> DEFINE k == a[id].key
<1>1. k \in Keys
  BY DEF Account, Measurement
<1>2. st[k] # NoRecord /\ st[k].id = id /\ st[k].probes = a[id].probes
  BY DEF Accounts
<1>3. st[k] \in MsmRecord
  BY <1>1, <1>2 DEF StateFile
<1>4. CloneState(st)[k] = [st[k] EXCEPT !.http = NoHttp]
  BY <1>1, <1>2 DEF CloneState, CloneRecord
<1>5. [st[k] EXCEPT !.http = NoHttp] \in MsmRecord
  BY <1>3, PlanAssumption DEF MsmRecord
<1> QED
  BY <1>2, <1>3, <1>4, <1>5, PlanAssumption DEF MsmRecord

\* One iteration of Apply's loop: the change is executed, the measurements of
\* other keys run no more than before, one of its own only after a create, and
\* none after a stop.
LEMMA ExecuteKeepsLedger ==
    ASSUME OneRun, IInv, LedgerInv, NEW p \in Procs, NEW c \in cs[p], Execute(p, c),
           \A k \in Keys \ {c.key} : Running(k)' \subseteq Running(k),
           c.kind # "create" => Running(c.key)' \subseteq Running(c.key),
           c.kind = "stop" => Running(c.key)' = {},
           Accounts(out'[p], api')
    PROVE  LedgerInv'
<1>1. /\ pc[p] = "apply" /\ pc' = pc
      /\ c \in Due(cs[p], cur[p])
      /\ cs'[p] = cs[p] \ {c}
  BY DEF Execute, plan, IInv, TypeOK
<1>2. \A d \in cs[p] : d.key \in Keys
  BY DEF IInv, TypeOK, Change
<1>3. c.kind = "create" => \A d \in cs'[p] : d.key # c.key
  BY <1>1 DEF Due
<1>4. LedgerAt(p)
  BY DEF LedgerInv
<1>5. ASSUME NEW d \in cs'[p], d.kind = "stop"
      PROVE  Running(d.key)' \subseteq {d.id}
  <2>1. d \in cs[p] /\ d.key \in Keys /\ Running(d.key) \subseteq {d.id}
    BY <1>1, <1>2, <1>4, <1>5 DEF LedgerAt
  <2>2. Running(d.key)' \subseteq Running(d.key)
    BY <1>3, <2>1
  <2> QED
    BY <2>1, <2>2
<1>6. ASSUME NEW d \in cs'[p], d.kind = "create"
      PROVE  d.key \in Stopping(cs'[p]) \/ Running(d.key)' = {}
  <2>1. d \in cs[p] /\ d.key \in Keys
    BY <1>1, <1>2
  <2>2. Running(d.key)' \subseteq Running(d.key)
    BY <1>3, <2>1
  <2>3. CASE Running(d.key) = {}
    BY <2>2, <2>3
  <2>4. CASE d.key \in Stopping(cs[p])
    <3>1. PICK e \in cs[p] : e.kind = "stop" /\ e.key = d.key
      BY <2>4 DEF Stopping
    <3>2. CASE e = c
      BY <3>1, <3>2
    <3>3. CASE e # c
      BY <1>1, <3>1, <3>3 DEF Stopping
    <3> QED
      BY <3>2, <3>3
  <2> QED
    BY <1>4, <1>6, <2>1, <2>3, <2>4 DEF LedgerAt
<1>7. Accounts(View(p), api)'
  BY <1>1 DEF View
<1>8. LedgerAt(p)'
  BY <1>1, <1>5, <1>6, <1>7 DEF LedgerAt
<1> QED
  BY <1>8 DEF OneRun, LedgerInv
\* An iteration without effect, neither on the account nor on the state.
LEMMA UnrecordedKeepsLedger ==
    ASSUME OneRun, IInv, LedgerInv, NEW p \in Procs, NEW c \in cs[p], Execute(p, c),
           UNCHANGED <<api, out>>, c.kind = "stop" => Running(c.key) = {}
    PROVE  LedgerInv'
<1>1. \A k : Running(k)' = Running(k)
  BY DEF Running, Ongoing, Exists
<1>2. Accounts(out'[p], api')
  BY DEF LedgerInv, LedgerAt, View, Execute
<1> QED
  BY <1>1, <1>2, ExecuteKeepsLedger

\* A stop that succeeds, or was not needed.
LEMMA ApplyStopKeepsLedger ==
    ASSUME OneRun, IInv, LedgerInv, NEW p \in Procs, NEW c \in cs[p], ApplyStop(p, c)
    PROVE  LedgerInv'
<1>1. /\ Execute(p, c) /\ c.kind = "stop" /\ Accepts(c)
      /\ api' = [api EXCEPT ![c.id].status = "stopped"]
      /\ out' = [out EXCEPT ![p][c.key] = NoRecord]
      /\ pc[p] = "apply"
  BY DEF ApplyStop, ServerStop, Execute
<1>2. c.key \in Keys /\ c.id \in MsmIDs /\ Exists(c.id)
  BY <1>1, ExecuteFacts DEF Change, Accepts
<1>3. api \in Account /\ api[c.id] \in Measurement
  BY <1>2 DEF IInv, TypeOK, Account, Exists
<1>4. /\ \A id \in MsmIDs : id # c.id => api'[id] = api[id]
      /\ api'[c.id].status = "stopped"
  BY <1>1, <1>2, <1>3 DEF Account, Measurement
<1>5. \A id \in MsmIDs : Ongoing(id)' => id # c.id /\ Ongoing(id) /\ api'[id] = api[id]
  BY <1>4 DEF Ongoing, Exists
<1>6. \A k : Running(k)' \subseteq Running(k) \ {c.id}
  BY <1>5 DEF Running
<1>7. Accounts(out[p], api) /\ Running(c.key) \subseteq {c.id}
  BY <1>1 DEF LedgerInv, LedgerAt, View
<1>8. Running(c.key)' = {}
  BY <1>6, <1>7
<1>9. \A k \in Keys : k # c.key => out'[p][k] = out[p][k]
  BY <1>1, <1>2 DEF IInv, TypeOK, StateFile
<1>10. Accounts(out'[p], api')
  <2> SUFFICES ASSUME NEW id \in MsmIDs, Ongoing(id)'
               PROVE  /\ out'[p][api'[id].key] # NoRecord
                      /\ out'[p][api'[id].key].id = id
                      /\ out'[p][api'[id].key].probes = api'[id].probes
    BY DEF Accounts, Ongoing, Exists
  <2>1. api'[id].key # c.key
    BY <1>8 DEF Running
  <2>2. /\ Ongoing(id) /\ api'[id] = api[id] /\ api[id].key \in Keys
    BY <1>3, <1>5 DEF Account, Measurement, Ongoing, Exists
  <2> QED
    BY <1>7, <1>9, <2>1, <2>2 DEF Accounts, Ongoing, Exists
<1> QED
  BY <1>1, <1>6, <1>8, <1>10, ExecuteKeepsLedger

\* A create that succeeds: by then nothing runs for its key.
LEMMA ApplyCreateKeepsLedger ==
    ASSUME OneRun, IInv, LedgerInv, NEW p \in Procs, NEW c \in cs[p], ApplyCreate(p, c)
    PROVE  LedgerInv'
<1>1. PICK new \in MsmIDs :
         /\ ServerCreate(p, c, new)
         /\ out' = [out EXCEPT ![p][c.key] = RecordOf(new, c.spec)]
  BY DEF ApplyCreate
<1>2. /\ Execute(p, c) /\ c.kind = "create" /\ pc[p] = "apply"
      /\ c \in Due(cs[p], cur[p])
  BY DEF ApplyCreate, Execute
<1>3. c.key \in Keys
  BY <1>2, ExecuteFacts
<1>4. api \in Account /\ ~Exists(new)
  BY <1>1 DEF IInv, TypeOK, ServerCreate
<1>5. /\ \A id \in MsmIDs : id # new => api'[id] = api[id]
      /\ api'[new].key = c.key /\ api'[new].probes = c.spec.probes
  BY <1>1, <1>4 DEF ServerCreate, Account
<1>6. c.key \notin Stopping(cs[p])
  BY <1>2 DEF Due, Stopping
<1>7. Accounts(out[p], api) /\ Running(c.key) = {}
  BY <1>2, <1>6 DEF LedgerInv, LedgerAt, View
<1>8. \A k \in Keys \ {c.key} : Running(k)' \subseteq Running(k)
  BY <1>5 DEF Running, Ongoing, Exists
<1>9. /\ \A k \in Keys : k # c.key => out'[p][k] = out[p][k]
      /\ out'[p][c.key] = RecordOf(new, c.spec)
  BY <1>1, <1>3 DEF IInv, TypeOK, StateFile
<1>10. RecordOf(new, c.spec) # NoRecord
  <2>1. cfg[p] # NoConfig
    BY <1>2, ExecuteFacts
  <2> QED
    BY <1>1, <1>2, <2>1, ServerCreateGrows, PlanAssumption DEF IInv
<1>11. Accounts(out'[p], api')
  <2> SUFFICES ASSUME NEW id \in MsmIDs, Ongoing(id)'
               PROVE  /\ out'[p][api'[id].key] # NoRecord
                      /\ out'[p][api'[id].key].id = id
                      /\ out'[p][api'[id].key].probes = api'[id].probes
    BY DEF Accounts, Ongoing, Exists
  <2>1. CASE id = new
    BY <1>5, <1>9, <1>10, <2>1 DEF RecordOf
  <2>2. CASE id # new
    <3>1. Ongoing(id) /\ api'[id] = api[id] /\ api[id].key \in Keys
      BY <1>4, <1>5, <2>2 DEF Ongoing, Exists, Account, Measurement
    <3>2. api[id].key # c.key
      BY <1>7, <3>1 DEF Running
    <3> QED
      BY <1>7, <1>9, <3>1, <3>2 DEF Accounts, Ongoing, Exists
  <2> QED
    BY <2>1, <2>2
<1> QED
  BY <1>2, <1>8, <1>11, ExecuteKeepsLedger

\* A change of probes that succeeds: the record that changes with the measurement
\* is the one that accounts for it.
LEMMA ApplyProbesKeepsLedger ==
    ASSUME OneRun, IInv, LedgerInv, NEW p \in Procs, NEW c \in cs[p], ApplyProbes(p, c)
    PROVE  LedgerInv'
<1>1. /\ Execute(p, c) /\ c.kind \in {"add_probes", "remove_probes"}
      /\ Ongoing(c.id) /\ ServerProbes(c) /\ pc[p] = "apply"
  BY DEF ApplyProbes, Accepts, Execute
<1>2. c.key \in Keys /\ c.id \in MsmIDs
  BY <1>1, ExecuteFacts DEF Change
<1>3. api \in Account /\ api[c.id] \in Measurement
  BY <1>1, <1>2 DEF IInv, TypeOK, Account, Ongoing, Exists
<1>4. api[c.id].key = c.key
  BY <1>1, <1>2 DEF IInv, OwnChanges, RecordsTruthful, Truthful
<1>5. Accounts(out[p], api)
  BY <1>1 DEF LedgerInv, LedgerAt, View
<1> DEFINE rec == out[p][c.key]
           After(ps) == IF c.kind = "add_probes" THEN ps \cup c.probes
                        ELSE ps \ c.probes
<1>6. rec # NoRecord /\ rec.id = c.id /\ rec.probes = api[c.id].probes
  BY <1>1, <1>2, <1>4, <1>5 DEF Accounts, Ongoing, Exists
<1>7. rec \in MsmRecord /\ out[p] \in StateFile
  BY <1>2, <1>6 DEF IInv, TypeOK, StateFile
<1>8. /\ \A id \in MsmIDs : id # c.id => api'[id] = api[id]
      /\ api'[c.id] = [api[c.id] EXCEPT !.probes = After(api[c.id].probes)]
  BY <1>1, <1>2, <1>3 DEF ServerProbes, Account
<1>9. out' = [out EXCEPT ![p][c.key].probes = After(rec.probes)]
  BY <1>6 DEF ApplyProbes
<1>10. /\ \A k \in Keys : k # c.key => out'[p][k] = out[p][k]
       /\ out'[p][c.key] = [rec EXCEPT !.probes = After(rec.probes)]
  BY <1>2, <1>7, <1>9 DEF IInv, TypeOK, StateFile
<1> HIDE DEF After
<1>11. [rec EXCEPT !.probes = After(rec.probes)] # NoRecord
  <2>1. After(rec.probes) \in SUBSET Probes
    <3>1. c \in Change
      BY <1>1, ExecuteFacts
    <3>2. c.probes \in SUBSET Probes
      BY <1>1, <3>1 DEF Change
    <3> QED
      BY <1>7, <3>2 DEF After, MsmRecord
  <2>2. [rec EXCEPT !.probes = After(rec.probes)] \in MsmRecord
    BY <1>7, <2>1 DEF MsmRecord
  <2> QED
    BY <2>2, PlanAssumption
<1>12. \A id \in MsmIDs : /\ Ongoing(id)' => Ongoing(id)
                          /\ api[id] # NoMsm => api'[id].key = api[id].key
  <2>1. api'[c.id].key = api[c.id].key
    BY <1>3, <1>8 DEF Measurement
  <2> QED
    BY <1>1, <1>8, <2>1 DEF Ongoing, Exists
<1>13. \A k : Running(k)' \subseteq Running(k)
  BY <1>12 DEF Running, Ongoing, Exists
<1>14. Accounts(out'[p], api')
  <2> SUFFICES ASSUME NEW id \in MsmIDs, Ongoing(id)'
               PROVE  /\ out'[p][api'[id].key] # NoRecord
                      /\ out'[p][api'[id].key].id = id
                      /\ out'[p][api'[id].key].probes = api'[id].probes
    BY DEF Accounts, Ongoing, Exists
  <2>1. Ongoing(id) /\ api'[id].key = api[id].key
    BY <1>12 DEF Ongoing, Exists
  <2>2. CASE id = c.id
    <3>1. /\ api'[id].probes = After(api[c.id].probes)
          /\ api'[id].key = c.key
      BY <1>3, <1>4, <1>8, <2>1, <2>2 DEF Measurement
    <3>2. /\ out'[p][c.key].id = c.id
          /\ out'[p][c.key].probes = After(rec.probes)
      BY <1>6, <1>7, <1>10 DEF MsmRecord
    <3> QED
      BY <1>6, <1>10, <1>11, <2>2, <3>1, <3>2
  <2>3. CASE id # c.id
    <3>1. /\ out[p][api[id].key] # NoRecord
          /\ out[p][api[id].key].id = id
          /\ out[p][api[id].key].probes = api[id].probes
      BY <1>5, <2>1 DEF Accounts, Ongoing, Exists
    <3>2. api[id].key # c.key /\ api[id].key \in Keys
      BY <1>3, <1>6, <2>1, <2>3, <3>1 DEF Account, Measurement, Ongoing, Exists
    <3> QED
      BY <1>8, <1>10, <2>3, <3>1, <3>2
  <2> QED
    BY <2>2, <2>3
<1> QED
  BY <1>1, <1>13, <1>14, ExecuteKeepsLedger
\* The steps of the one run before and after Apply's loop.
LEMMA ReadingKeepsLedger ==
    ASSUME OneRun, IInv, LedgerInv, NEW p \in Procs,
           \/ Start(p) \/ LoadState(p) \/ PlanReady(p) \/ Confirm(p)
           \/ ApplyReturns(p) \/ Cancel(p) \/ GiveUp(p) \/ SaveState(p)
           \/ \E k \in Keys : ReportGhost(p, k)
    PROVE  LedgerInv'
<1> USE DEF shared, plan, exec, budget
<1>0. TypeOK /\ LedgerAt(p)
  BY DEF IInv, LedgerInv
<1>1. api' = api
  BY DEF Start, LoadState, PlanReady, Confirm, ApplyReturns, Cancel, GiveUp, SaveState,
         ReportGhost
<1>2. \A k : Running(k)' = Running(k)
  BY <1>1 DEF Running, Ongoing, Exists
<1>3. cs'[p] = cs[p] \/ cs'[p] = {}
  BY <1>0 DEF TypeOK, Start, LoadState, PlanReady, Confirm, ApplyReturns, Cancel,
         GiveUp, SaveState, ReportGhost, Exit
<1>4. /\ \A c \in cs'[p] : c.kind = "stop" => Running(c.key)' \subseteq {c.id}
      /\ \A c \in cs'[p] : c.kind = "create" =>
            c.key \in Stopping(cs'[p]) \/ Running(c.key)' = {}
  BY <1>0, <1>2, <1>3 DEF LedgerAt
<1>5. pc'[p] \in {"list", "ghost", "confirm"} => loaded'[p] = disk'
  BY <1>0 DEF TypeOK, LedgerAt, Start, LoadState, PlanReady, Confirm, ApplyReturns,
         Cancel, GiveUp, SaveState, ReportGhost, Exit
<1>6. Accounts(View(p), api)'
  <2>1. CASE Confirm(p)
    <3>1. out'[p] = CloneState(disk) /\ pc'[p] = "apply" /\ Accounts(disk, api)
      BY <1>0, <2>1 DEF Confirm, TypeOK, LedgerAt, View
    <3> QED
      BY <1>0, <1>1, <3>1, CloneAccounts DEF TypeOK, View
  <2>2. CASE ~Confirm(p)
    <3>1. View(p)' = View(p)
      BY <1>0, <2>2 DEF TypeOK, View, Start, LoadState, PlanReady, ApplyReturns,
             Cancel, GiveUp, SaveState, ReportGhost, Exit
    <3> QED
      BY <1>0, <1>1, <3>1 DEF LedgerAt
  <2> QED
    BY <2>1, <2>2
<1>7. LedgerAt(p)'
  BY <1>4, <1>5, <1>6 DEF LedgerAt
<1> QED
  BY <1>7 DEF OneRun, LedgerInv

\* What runs for a key is what the state names, while the plan is made.
LEMMA RunningRecorded ==
    ASSUME IInv, LedgerInv, NEW p \in Procs, pc[p] \in {"list", "ghost"}, NEW k \in Keys
    PROVE  \A id \in Running(k) : loaded[p][k] # NoRecord /\ id = loaded[p][k].id
BY DEF LedgerInv, LedgerAt, View, Accounts, Running, Ongoing, Exists

\* The two steps that make the plan.
LEMMA PlanningKeepsLedger ==
    ASSUME OneRun, IInv, LedgerInv, NEW p \in Procs,
           ListLive(p) \/ \E k \in Keys : MoveNamespace(p, k)
    PROVE  LedgerInv'
<1>0. TypeOK /\ LedgerAt(p) /\ IInv'
  BY ListLiveKeepsIInv, MoveNamespaceKeepsIInv DEF IInv, LedgerInv
<1>1. /\ UNCHANGED <<disk, api, cfg, loaded, out>>
      /\ pc[p] \in {"list", "ghost"} /\ pc'[p] = "ghost"
  BY <1>0 DEF ListLive, MoveNamespace, shared, TypeOK
<1>2. \A k : Running(k)' = Running(k)
  BY <1>1 DEF Running, Ongoing, Exists
<1>3. ASSUME NEW c \in cs'[p], c.kind = "stop"
      PROVE  Running(c.key)' \subseteq {c.id}
  <2>1. c.key \in Keys /\ c.id = loaded[p][c.key].id
    BY <1>0, <1>1, <1>3 DEF IInv, OwnChanges, TypeOK, Change
  <2> QED
    BY <1>1, <1>2, <2>1, RunningRecorded
<1>4. ASSUME NEW c \in cs'[p], c.kind = "create"
      PROVE  c.key \in Stopping(cs'[p]) \/ Running(c.key)' = {}
  <2>1. CASE ListLive(p)
    <3> DEFINE base   == Diff(Wanted(cfg[p]), loaded[p])
               cancel == FalseNamespaceChange(Wanted(cfg[p]), loaded[p],
                                              Live(cfg[p]), Stopping(base))
    <3>1. cs'[p] = CancelStopCreate(base, cancel, loaded[p])
      BY <1>0, <2>1 DEF ListLive, TypeOK
    <3>2. c \in base /\ c.key \notin cancel
      BY <1>4, <3>1 DEF CancelStopCreate, NoOpOf
    <3>3. PICK k \in Keys : c \in DiffKey(k, Wanted(cfg[p])[k], loaded[p][k])
      BY <3>2 DEF Diff
    <3>4. \/ loaded[p][k] = NoRecord /\ c.key = k
          \/ /\ StopOf(k, loaded[p][k].id, 1)
                  \in DiffKey(k, Wanted(cfg[p])[k], loaded[p][k])
             /\ c.key = k
      BY <1>4, <3>3 DEF DiffKey, StopOf, CreateOf, ProbeChanges, ProbesOf, NoOpOf
    <3>5. CASE loaded[p][k] = NoRecord /\ c.key = k
      BY <1>1, <1>2, <3>5, RunningRecorded
    <3>6. CASE /\ StopOf(k, loaded[p][k].id, 1)
                    \in DiffKey(k, Wanted(cfg[p])[k], loaded[p][k])
               /\ c.key = k
      <4>1. StopOf(k, loaded[p][k].id, 1) \in base
        BY <3>6 DEF Diff
      <4>2. k \in Stopping(base) \ cancel
        BY <3>2, <3>6, <4>1 DEF Stopping, StopOf
      <4> QED
        BY <3>1, <3>6, <4>2, StopsLeft
    <3> QED
      BY <3>4, <3>5, <3>6
  <2>2. ASSUME NEW k \in Keys, MoveNamespace(p, k)
        PROVE  c.key \in Stopping(cs'[p]) \/ Running(c.key)' = {}
    <3>1. cs'[p] = ReplaceWithStopCreate(cs[p], k, loaded[p][k].id,
                                         Wanted(cfg[p])[k])
      BY <1>0, <2>2 DEF MoveNamespace, TypeOK
    <3>2. c.key = k \/ c \in cs[p]
      BY <3>1 DEF ReplaceWithStopCreate, DropKey, StopOf, CreateOf
    <3>3. c \in cs[p] => c.key \in Stopping(cs[p]) \/ Running(c.key) = {}
      BY <1>0, <1>4 DEF LedgerAt
    <3> QED
      BY <1>2, <3>1, <3>2, <3>3, StopsReplaced
  <2> QED
    BY <2>1, <2>2
<1>5. Accounts(View(p), api)' /\ loaded'[p] = disk'
  BY <1>0, <1>1 DEF LedgerAt, View
<1>6. LedgerAt(p)'
  BY <1>3, <1>4, <1>5 DEF LedgerAt
<1> QED
  BY <1>6 DEF OneRun, LedgerInv

\* Every step keeps LedgerInv.
LEMMA NextKeepsLedgerInv ==
    ASSUME OneRun, ToldFaults, IInv, LedgerInv, [Next]_vars
    PROVE  LedgerInv'
<1>1. ASSUME UNCHANGED <<disk, pc, loaded, cs, out>>,
             \A id \in MsmIDs : Ongoing(id)' => Ongoing(id) /\ api'[id] = api[id]
      PROVE  LedgerInv'
  <2>1. \A k : Running(k)' \subseteq Running(k)
    BY <1>1 DEF Running
  <2>2. ASSUME NEW p \in Procs PROVE Accounts(View(p), api)'
    BY <1>1, FewerRunning DEF LedgerInv, LedgerAt, View, Ongoing, Exists
  <2>3. ASSUME NEW p \in Procs PROVE LedgerAt(p)'
    BY <1>1, <2>1, <2>2 DEF LedgerInv, LedgerAt
  <2> QED
    BY <2>3 DEF LedgerInv
<1>2. CASE EditConfig \/ UNCHANGED vars
  BY <1>1, <1>2 DEF EditConfig, vars, shared, plan, exec, Ongoing, Exists
<1>3. ASSUME NEW i \in MsmIDs, ExternalStop(i)
      PROVE  LedgerInv'
  <2>1. UNCHANGED <<disk, pc, loaded, cs, out>> /\ Ongoing(i)
    BY <1>3 DEF ExternalStop, plan, exec
  <2>2. PICK s \in {"stopped", "gone"} : api' = [api EXCEPT ![i].status = s]
    BY <1>3 DEF ExternalStop
  <2>3. api \in Account /\ api[i] \in Measurement
    BY <2>1 DEF IInv, TypeOK, Account, Ongoing, Exists
  <2>4. \A id \in MsmIDs : Ongoing(id)' => Ongoing(id) /\ api'[id] = api[id]
    BY <2>2, <2>3 DEF Account, Measurement, Ongoing, Exists
  <2> QED
    BY <1>1, <2>1, <2>4
<1>4. ASSUME NEW p \in Procs, NEW c \in cs[p],
             ApplyNoOp(p, c) \/ CallRejected(p, c) \/ CallFails(p, c)
      PROVE  LedgerInv'
  <2>1. Execute(p, c) /\ UNCHANGED <<api, out>>
    BY <1>4 DEF ApplyNoOp, CallRejected, CallFails
  <2>2. c.kind = "stop" => ~Accepts(c)
    BY <1>4 DEF ApplyNoOp, CallRejected, CallFails, Fault, ToldFaults
  <2>3. c.kind = "stop" => ~Ongoing(c.id)
    BY <2>2 DEF Accepts, Ongoing
  <2>4. c.kind = "stop" => Running(c.key) \subseteq {c.id}
    BY DEF LedgerInv, LedgerAt
  <2>5. c.kind = "stop" => Running(c.key) = {}
    BY <2>3, <2>4 DEF Running
  <2> QED
    BY <2>1, <2>5, UnrecordedKeepsLedger
<1>5. ASSUME NEW p \in Procs, Step(p)
      PROVE  LedgerInv'
  BY <1>4, <1>5, ReadingKeepsLedger, PlanningKeepsLedger, ApplyCreateKeepsLedger,
     ApplyStopKeepsLedger, ApplyProbesKeepsLedger DEF Step
<1>6. CASE Disturbance
  <2>1. /\ \A p \in Procs : ~Crash(p)
        /\ \A p \in Procs : \A c \in cs[p] : ~ReplyLost(p, c)
    BY DEF ToldFaults, Crash, ReplyLost, Fault
  <2> QED
    BY <1>2, <1>3, <1>4, <1>6, <2>1, ReadingKeepsLedger DEF Disturbance
<1> QED
  BY <1>2, <1>5, <1>6 DEF Next

\* With one run at a time and no fault whose effect Apply is not told of, the state
\* always accounts for every running measurement and its probes, if it did at
\* first (the order of a replacement in Diff and Apply, SaveState).
THEOREM SpecEveryMeasurementRecorded ==
    ASSUME OneRun, ToldFaults, FleetsAccounted
    PROVE  Spec => []EveryMeasurementRecorded
<1>1. Init => LedgerInv
  <2> SUFFICES ASSUME Init, NEW p \in Procs PROVE LedgerAt(p)
    BY DEF LedgerInv
  <2>1. Accounts(disk, api)
    BY DEF Init, FleetsAccounted
  <2>2. pc[p] = "idle" /\ cs[p] = {}
    BY DEF Init
  <2> QED
    BY <2>1, <2>2 DEF LedgerAt, View
<1>2. IInv /\ LedgerInv /\ [Next]_vars => LedgerInv'
  BY NextKeepsLedgerInv
<1> QED
  BY <1>1, <1>2, LedgerRecords, SpecIInv, PTL DEF Spec

=============================================================================
