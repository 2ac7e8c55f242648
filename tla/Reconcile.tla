------------------------------ MODULE Reconcile ------------------------------
(***************************************************************************)
(* One or more runs of "atlasctl apply" against one state file and one     *)
(* RIPE Atlas account: the command (cmd/atlasctl/apply.go), LiveDiff       *)
(* (pkg/plan/livediff.go), Apply (pkg/plan/apply.go), and LoadState and    *)
(* SaveState (pkg/plan/state.go).  Nothing locks the state file, so runs   *)
(* interleave at every API call and file access.                           *)
(*                                                                         *)
(* The account is external: "api" is what its measurements are, changed by *)
(* the four calls of ApplyClient and by hand (ExternalStop).  A call that  *)
(* the account cannot accept fails; a fault of a kind in FaultKinds makes  *)
(* any other call fail, with its effect ("lost" reply) or without it (the  *)
(* kind of the change).                                                    *)
(***************************************************************************)
EXTENDS PlanDiff

CONSTANTS
    Procs,           \* runs of apply that may overlap
    Configs,         \* configurations the operator may write
    Fleets,          \* initial pairs of state file and account
    NoMsm,           \* an ID not handed out yet
    NoConfig,        \* no configuration loaded
    NoKey,           \* no change executed yet
    Provider,        \* caller leaves the specs' Namespace empty
    StopIdempotent,  \* stopping a stopped measurement succeeds
    FaultKinds,      \* faults that may happen
    MaxFaults,       \* bound on them
    MaxEdits         \* bound on configuration edits

Statuses == {"ongoing", "stopped", "gone"}

\* What RIPE Atlas keeps of a measurement.  key and ns stand for the
\* description tag TagCodec.Format wrote and the standalone namespace tag.
Measurement ==
    [key : Keys, ns : Namespaces, attr : Attrs, http : HttpOpts,
     probes : SUBSET Probes, status : Statuses]

Account == [MsmIDs -> Measurement \cup {NoMsm}]

\* The state file is true of the account: a record names a measurement with
\* its own key and immutable attributes.  A record may have lost its HTTP
\* fields, and carries no namespace if older than namespace tracking.
Truthful(state, acct) ==
    \A k \in Keys : state[k] # NoRecord =>
        LET rec == state[k]
            msm == acct[state[k].id]
        IN  /\ msm # NoMsm
            /\ msm.key = k
            /\ msm.attr = rec.attr
            /\ rec.http # NoHttp => msm.http = rec.http
            /\ rec.ns # NoNS => msm.ns = rec.ns

ASSUME ReconcileAssumption ==
    /\ Configs \subseteq Config
    /\ Fleets \subseteq [disk : StateFile, api : Account]
    /\ \A f \in Fleets : Truthful(f.disk, f.api)
    /\ NoMsm \notin Measurement
    /\ NoConfig \notin Config
    /\ NoKey \notin Keys
    /\ Provider \in BOOLEAN
    /\ StopIdempotent \in BOOLEAN
    /\ MaxFaults \in Nat
    /\ MaxEdits \in Nat

VARIABLES
    config,  \* atlasctl.yaml, with the probes selection gives for it
    disk,    \* state.yaml
    api,     \* the account
    pc,      \* per run: where the command is
    cfg,     \* per run: the configuration it read
    loaded,  \* per run: the state it read
    cs,      \* per run: changes still to execute
    cur,     \* per run: key of the last change executed
    todo,    \* per run: records LiveDiff has yet to look up by ID
    warns,   \* per run: drift warnings
    out,     \* per run: the state Apply will return
    edits,   \* configuration edits so far
    faults   \* faults so far

shared == <<config, disk, api>>
plan   == <<cfg, loaded, todo, warns>>
exec   == <<cs, cur, out>>
budget == <<edits, faults>>
vars   == <<shared, pc, plan, exec, budget>>

EmptyState == [k \in Keys |-> NoRecord]

Exists(id)  == api[id] # NoMsm
Ongoing(id) == Exists(id) /\ api[id].status = "ongoing"

Fault(kind) ==
    /\ kind \in FaultKinds
    /\ faults < MaxFaults
    /\ faults' = faults + 1
    /\ edits' = edits

-----------------------------------------------------------------------------

Init ==
    /\ config \in Configs
    /\ \E f \in Fleets : disk = f.disk /\ api = f.api
    /\ pc     = [p \in Procs |-> "idle"]
    /\ cfg    = [p \in Procs |-> NoConfig]
    /\ loaded = [p \in Procs |-> EmptyState]
    /\ cs     = [p \in Procs |-> {}]
    /\ cur    = [p \in Procs |-> NoKey]
    /\ todo   = [p \in Procs |-> {}]
    /\ warns  = [p \in Procs |-> {}]
    /\ out    = [p \in Procs |-> EmptyState]
    /\ edits  = 0
    /\ faults = 0

\* The process ends: nothing of its memory survives.
Exit(p) ==
    /\ pc'     = [pc EXCEPT ![p] = "idle"]
    /\ cfg'    = [cfg EXCEPT ![p] = NoConfig]
    /\ loaded' = [loaded EXCEPT ![p] = EmptyState]
    /\ cs'     = [cs EXCEPT ![p] = {}]
    /\ cur'    = [cur EXCEPT ![p] = NoKey]
    /\ todo'   = [todo EXCEPT ![p] = {}]
    /\ warns'  = [warns EXCEPT ![p] = {}]
    /\ out'    = [out EXCEPT ![p] = EmptyState]

(***************************************************************************)
(* The world outside the process.                                          *)
(***************************************************************************)

\* The operator edits atlasctl.yaml, or a newer snapshot selects other probes.
EditConfig ==
    /\ edits < MaxEdits
    /\ config' \in Configs \ {config}
    /\ edits' = edits + 1
    /\ UNCHANGED <<disk, api, pc, plan, exec, faults>>

\* A measurement is stopped or deleted by hand, or its credits run out.
ExternalStop(id) ==
    /\ Ongoing(id)
    /\ Fault("extstop")
    /\ \E s \in {"stopped", "gone"} : api' = [api EXCEPT ![id].status = s]
    /\ UNCHANGED <<config, disk, pc, plan, exec>>

(***************************************************************************)
(* Reading: configuration, state file, LiveDiff.                           *)
(***************************************************************************)

\* NewTagCodec(cfg.Namespace).Namespace()
Codec(c) == EffNS(c.ns)

\* The codec apply builds its API client with.  LiveDiff requires that it be
\* the one it is given itself.
ClientCodecForgotten(c) == DefaultNamespace
ClientCodec(c) == Codec(c)

\* The effective specs LiveDiff works with.
Wanted(c) ==
    LET given == DesiredState(c)
    IN  Effective([k \in Keys |->
                     IF Provider /\ given[k] # NoSpec
                     THEN [given[k] EXCEPT !.ns = NoNS] ELSE given[k]],
                  Codec(c))

\* ListMyMeasurements: ongoing measurements carrying the codec's tag.
LiveAnyStatus(c) == {id \in MsmIDs : Exists(id) /\ api[id].ns = ClientCodec(c)}
Live(c) == {id \in MsmIDs : Ongoing(id) /\ api[id].ns = ClientCodec(c)}

Start(p) ==
    /\ pc[p] = "idle"
    /\ pc' = [pc EXCEPT ![p] = "load"]
    /\ cfg' = [cfg EXCEPT ![p] = config]
    /\ UNCHANGED <<shared, loaded, todo, warns, exec, budget>>

LoadState(p) ==
    /\ pc[p] = "load"
    /\ pc' = [pc EXCEPT ![p] = "list"]
    /\ loaded' = [loaded EXCEPT ![p] = disk]
    /\ UNCHANGED <<shared, cfg, todo, warns, exec, budget>>

NoFalseNamespaceChange(wanted, state, live, stopping) == {}

AnyNamespaceChange(wanted, state, live, stopping) ==
    {k \in stopping : state[k].id \in live /\ wanted[k] # NoSpec}

\* Keys whose stop and create came only from a record without a namespace:
\* the recorded measurement turned up in the live list under the codec's.
FalseNamespaceChange(wanted, state, live, stopping) ==
    {k \in stopping :
        /\ state[k] # NoRecord
        /\ state[k].id \in live
        /\ api[state[k].id].key = k
        /\ wanted[k] # NoSpec
        /\ ~NonNamespaceStructuralChange(state[k], wanted[k])}

OrphanWarnings(state, live) ==
    {[kind |-> "orphan", key |-> api[id].key, id |-> id] :
        id \in {i \in live : state[api[i].key] = NoRecord}}

\* Records the ghost loop looks up by ID: not in the live list, and not being
\* stopped already.
LookupsUnsuppressed(state, live, stopping) ==
    {k \in Keys : state[k] # NoRecord /\ state[k].id \notin live}

Lookups(state, live, stopping) ==
    {k \in Keys : /\ state[k] # NoRecord
                  /\ state[k].id \notin live
                  /\ k \notin stopping}

\* Diff, the live list, the orphan loop, and the records the ghost loop has
\* to look up one by one.
ListLive(p) ==
    LET wanted   == Wanted(cfg[p])
        live     == Live(cfg[p])
        base     == Diff(wanted, loaded[p])
        cancel   == FalseNamespaceChange(wanted, loaded[p], live, Stopping(base))
        stopping == Stopping(base) \ cancel
    IN  /\ pc[p] = "list"
        /\ pc' = [pc EXCEPT ![p] = "ghost"]
        /\ cs' = [cs EXCEPT ![p] = CancelStopCreate(base, cancel, loaded[p])]
        /\ warns' = [warns EXCEPT ![p] = OrphanWarnings(loaded[p], live)]
        /\ todo' = [todo EXCEPT ![p] = Lookups(loaded[p], live, stopping)]
        /\ UNCHANGED <<shared, cfg, loaded, cur, out, budget>>

\* GetMeasurement finds it stopped or deleted, or ongoing with a tag our codec
\* parses: a ghost.
ReportGhost(p, k) ==
    LET id == loaded[p][k].id IN
    /\ pc[p] = "ghost"
    /\ k \in todo[p]
    /\ Ongoing(id) => api[id].ns = Codec(cfg[p])
    /\ todo' = [todo EXCEPT ![p] = @ \ {k}]
    /\ warns' = [warns EXCEPT ![p] =
                   @ \cup {[kind |-> "ghost", key |-> k, id |-> id]}]
    /\ UNCHANGED <<shared, pc, cfg, loaded, exec, budget>>

\* GetMeasurement finds it ongoing under another namespace: move it.
MoveNamespace(p, k) ==
    LET id == loaded[p][k].id IN
    /\ pc[p] = "ghost"
    /\ k \in todo[p]
    /\ Ongoing(id) /\ api[id].ns # Codec(cfg[p])
    /\ todo' = [todo EXCEPT ![p] = @ \ {k}]
    /\ cs' = [cs EXCEPT ![p] =
                ReplaceWithStopCreate(@, k, id, Wanted(cfg[p])[k])]
    /\ UNCHANGED <<shared, pc, cfg, loaded, warns, cur, out, budget>>

\* LiveDiff returns; the changes and the warnings are printed.
PlanReady(p) ==
    /\ pc[p] = "ghost"
    /\ todo[p] = {}
    /\ pc' = [pc EXCEPT ![p] = "confirm"]
    /\ UNCHANGED <<shared, plan, exec, budget>>

\* The operator answers y, or passed --yes.
Confirm(p) ==
    /\ pc[p] = "confirm"
    /\ pc' = [pc EXCEPT ![p] = "apply"]
    /\ out' = [out EXCEPT ![p] = CloneState(loaded[p])]
    /\ UNCHANGED <<shared, plan, cs, cur, budget>>

\* A read fails, the operator declines, or the command was "plan" or a dry run.
GiveUp(p) ==
    /\ pc[p] \in {"load", "list", "ghost", "confirm"}
    /\ Fault("giveup")
    /\ Exit(p)
    /\ UNCHANGED shared

(***************************************************************************)
(* Apply: one iteration of its loop per action.                            *)
(***************************************************************************)

Execute(p, c) ==
    /\ pc[p] = "apply"
    /\ c \in Due(cs[p], cur[p])
    /\ cs' = [cs EXCEPT ![p] = @ \ {c}]
    /\ cur' = [cur EXCEPT ![p] = c.key]
    /\ UNCHANGED <<config, disk, pc, plan>>

\* What RIPE Atlas does with a call it accepts.
Accepts(c) ==
    CASE c.kind = "create" -> \E id \in MsmIDs : ~Exists(id)
      [] c.kind = "stop"   -> Exists(c.id)
                              /\ api[c.id].status \in
                                   {"ongoing"} \cup IF StopIdempotent
                                                    THEN {"stopped"} ELSE {}
      [] OTHER             -> Ongoing(c.id)

\* IDs are handed out in order; the description and the tag come from the
\* client's codec, everything else from the spec.
ServerCreate(p, c, id) ==
    /\ ~Exists(id)
    /\ \A i \in MsmIDs : i < id => Exists(i)
    /\ api' = [api EXCEPT ![id] =
                 [key |-> c.key, ns |-> ClientCodec(cfg[p]), attr |-> c.spec.attr,
                  http |-> c.spec.http, probes |-> c.spec.probes,
                  status |-> "ongoing"]]

ServerStop(c) == api' = [api EXCEPT ![c.id].status = "stopped"]

ServerProbes(c) ==
    api' = [api EXCEPT ![c.id].probes =
              IF c.kind = "add_probes" THEN @ \cup c.probes ELSE @ \ c.probes]

ApplyNoOp(p, c) ==
    /\ c.kind = "noop"
    /\ Execute(p, c)
    /\ UNCHANGED <<api, out, budget>>

ApplyCreate(p, c) ==
    /\ c.kind = "create"
    /\ Execute(p, c)
    /\ \E id \in MsmIDs :
          /\ ServerCreate(p, c, id)
          /\ out' = [out EXCEPT ![p][c.key] = RecordOf(id, c.spec)]
    /\ UNCHANGED budget

ApplyStop(p, c) ==
    /\ c.kind = "stop"
    /\ Execute(p, c)
    /\ Accepts(c)
    /\ ServerStop(c)
    /\ out' = [out EXCEPT ![p][c.key] = NoRecord]
    /\ UNCHANGED budget

ApplyProbesUnrecorded(p, c) ==
    /\ c.kind \in {"add_probes", "remove_probes"}
    /\ Execute(p, c)
    /\ Accepts(c)
    /\ ServerProbes(c)
    /\ UNCHANGED <<out, budget>>

ApplyProbes(p, c) ==
    /\ c.kind \in {"add_probes", "remove_probes"}
    /\ Execute(p, c)
    /\ Accepts(c)
    /\ ServerProbes(c)
    /\ out' = IF out[p][c.key] = NoRecord THEN out
              ELSE [out EXCEPT ![p][c.key].probes =
                      IF c.kind = "add_probes"
                      THEN @ \cup c.probes ELSE @ \ c.probes]
    /\ UNCHANGED budget

\* The call returns an error and had no effect: Apply notes it and goes on.
\* The account cannot accept it, or could have and something failed.
CallRejected(p, c) ==
    /\ c.kind # "noop" /\ ~Accepts(c)
    /\ Execute(p, c)
    /\ UNCHANGED <<api, out, budget>>

CallFails(p, c) ==
    /\ c.kind # "noop" /\ Accepts(c)
    /\ Execute(p, c)
    /\ Fault(c.kind)
    /\ UNCHANGED <<api, out>>

\* The call had its effect and its reply was lost: Apply sees an error.
ReplyLost(p, c) ==
    /\ Execute(p, c)
    /\ Fault("lost")
    /\ \/ c.kind = "create" /\ \E id \in MsmIDs : ServerCreate(p, c, id)
       \/ c.kind = "stop" /\ Accepts(c) /\ ServerStop(c)
       \/ /\ c.kind \in {"add_probes", "remove_probes"}
          /\ Accepts(c)
          /\ ServerProbes(c)
    /\ out' = out

\* ctx.Err() at the top of the loop: what was done so far is returned.
Cancel(p) ==
    /\ pc[p] = "apply"
    /\ cs[p] # {}
    /\ Fault("cancel")
    /\ pc' = [pc EXCEPT ![p] = "save"]
    /\ cs' = [cs EXCEPT ![p] = {}]
    /\ UNCHANGED <<shared, plan, cur, out>>

ApplyReturns(p) ==
    /\ pc[p] = "apply"
    /\ cs[p] = {}
    /\ pc' = [pc EXCEPT ![p] = "save"]
    /\ UNCHANGED <<shared, plan, exec, budget>>

\* The rename replaces the whole file; the command returns.
SaveState(p) ==
    /\ pc[p] = "save"
    /\ disk' = out[p]
    /\ Exit(p)
    /\ UNCHANGED <<config, api, budget>>

\* The process is killed, or SaveState fails before its rename.
Crash(p) ==
    /\ pc[p] \in {"apply", "save"}
    /\ Fault("crash")
    /\ Exit(p)
    /\ UNCHANGED shared

-----------------------------------------------------------------------------

\* What a run does when nothing goes wrong.
Step(p) ==
    \/ Start(p)
    \/ LoadState(p)
    \/ ListLive(p)
    \/ \E k \in Keys : ReportGhost(p, k) \/ MoveNamespace(p, k)
    \/ PlanReady(p)
    \/ Confirm(p)
    \/ \E c \in cs[p] : \/ ApplyNoOp(p, c)
                        \/ ApplyCreate(p, c)
                        \/ ApplyStop(p, c)
                        \/ ApplyProbes(p, c)
                        \/ CallRejected(p, c)
    \/ ApplyReturns(p)
    \/ SaveState(p)

Disturbance ==
    \/ EditConfig
    \/ \E id \in MsmIDs : ExternalStop(id)
    \/ \E p \in Procs : \/ GiveUp(p)
                        \/ \E c \in cs[p] : CallFails(p, c) \/ ReplyLost(p, c)
                        \/ Cancel(p)
                        \/ Crash(p)

Next == Disturbance \/ \E p \in Procs : Step(p)

Spec == Init /\ [][Next]_vars

\* Someone, or a scheduler, keeps running apply, and a run keeps going.
FairSpec == Spec /\ \A p \in Procs : WF_vars(Step(p))

-----------------------------------------------------------------------------
(***************************************************************************)
(* Properties.                                                             *)
(***************************************************************************)

Warning == [kind : {"orphan", "ghost"}, key : Keys, id : MsmIDs]

\* Types of the variables.
TypeOK ==
    /\ config \in Configs
    /\ disk \in StateFile
    /\ api \in Account
    /\ pc \in [Procs -> {"idle", "load", "list", "ghost", "confirm", "apply",
                          "save"}]
    /\ cfg \in [Procs -> Configs \cup {NoConfig}]
    /\ \A p \in Procs : cfg[p] = NoConfig <=> pc[p] = "idle"
    /\ loaded \in [Procs -> StateFile]
    /\ cs \in [Procs -> SUBSET Change]
    /\ cur \in [Procs -> Keys \cup {NoKey}]
    /\ todo \in [Procs -> SUBSET Keys]
    /\ warns \in [Procs -> SUBSET Warning]
    /\ out \in [Procs -> StateFile]
    /\ edits \in 0..MaxEdits
    /\ faults \in 0..MaxFaults

\* What the state file says of an ID stays true, whatever runs overlap, fail
\* or crash: a record names a measurement of its own (name, cohort) pair with
\* the immutable attributes it was created with, on disk and in the memory of
\* every run (Apply's SetRecord and DeleteRecord against the API calls).
RecordsTruthful ==
    /\ Truthful(disk, api)
    /\ \A p \in Procs : Truthful(loaded[p], api) /\ Truthful(out[p], api)

\* Every planned create is for a key the configuration wants and carries its
\* effective spec: the ghost loop's effective[key] never reads a missing key
\* as the zero MsmSpec, and no correction leaves an outdated create behind.
CreatesOnlyDesired ==
    \A p \in Procs : \A c \in cs[p] :
        c.kind = "create" => /\ c.spec # NoSpec
                             /\ c.spec = Wanted(cfg[p])[c.key]

Serves(msm, spec) ==
    /\ spec # NoSpec
    /\ msm.ns = spec.ns
    /\ msm.attr = spec.attr
    /\ msm.http = spec.http

\* No run plans to stop a running measurement that is already what the
\* configuration asks for (README "Resource model": no changes, no-op; the
\* namespace corrections of LiveDiff).
StopsOnlyOutdated ==
    \A p \in Procs : \A c \in cs[p] :
        c.kind = "stop" /\ Ongoing(c.id)
            => ~Serves(api[c.id], Wanted(cfg[p])[c.key])

\* A plan replaces or stops every recorded running measurement that is not what
\* the configuration asks for, wherever its namespace was recorded (LiveDiff's
\* ghost loop, and cancelStopCreate dropping no real change).
OutdatedStopped ==
    \A p \in Procs : pc[p] = "confirm" =>
        \A k \in Keys :
            LET rec == loaded[p][k] IN
            /\ rec # NoRecord
            /\ Ongoing(rec.id)
            /\ ~Serves(api[rec.id], Wanted(cfg[p])[k])
            => \E c \in cs[p] : c.kind = "stop" /\ c.id = rec.id

\* The state file while the command is between runs, and the state Apply is
\* building while it is in its loop.
View(p) == IF pc[p] \in {"apply", "save"} THEN out[p] ELSE disk

\* With one run at a time, no lost reply, no crash, and no failed stop, the
\* state accounts for every running measurement and its probes after every
\* call: a replacement never loses the record of what it replaced or created
\* (order of stop and create in Diff and Apply, cancellation in between).
EveryMeasurementRecorded ==
    \A p \in Procs, id \in MsmIDs :
        Ongoing(id) =>
            LET rec == View(p)[api[id].key]
            IN  /\ rec # NoRecord
                /\ rec.id = id
                /\ rec.probes = api[id].probes

\* A plan is silent about no drift: a record whose measurement is not running
\* is reported as a ghost unless it is being stopped, and a running
\* measurement with our tag whose key has no record as an orphan (README
\* "Drift detection").
DriftReported ==
    \A p \in Procs : pc[p] = "confirm" =>
        /\ \A k \in Keys :
              LET rec == loaded[p][k] IN
              rec # NoRecord /\ ~Ongoing(rec.id) =>
                  \/ [kind |-> "ghost", key |-> k, id |-> rec.id] \in warns[p]
                  \/ \E c \in cs[p] : c.kind = "stop" /\ c.id = rec.id
        /\ \A id \in Live(cfg[p]) :
              loaded[p][api[id].key] = NoRecord =>
                  [kind |-> "orphan", key |-> api[id].key, id |-> id]
                      \in warns[p]

\* The measurement of a record without a namespace runs under a wanted one that
\* is not the default.  Every run takes it for a change of namespace, cancels its
\* stop and create and with them any edit of its probes (cancelStopCreate); and
\* what is left, a no-op, never writes the namespace (Apply).
ProbesFrozen(k) ==
    /\ disk[k].ns = NoNS
    /\ Wanted(config)[k].ns # DefaultNamespace

\* k is as the configuration wants it: its record, and the running measurement
\* but for its probes.
Recorded(k) ==
    LET spec == Wanted(config)[k]
        rec  == disk[k]
    IN  IF spec = NoSpec THEN rec = NoRecord
        ELSE /\ rec # NoRecord
             /\ Ongoing(rec.id)
             /\ Serves(api[rec.id], spec)
             /\ rec.probes = spec.probes \/ ProbesFrozen(k)

ProbesAsRecorded(k) ==
    disk[k] # NoRecord => api[disk[k].id].probes = disk[k].probes

\* Once edits and faults cease, repeated runs settle every key for good, from
\* whatever failed calls, cancelled and abandoned runs left behind: each is as
\* the configuration wants it, probes that are frozen aside.  Those are as
\* recorded too, but an edit of them is lost (ProbeEditsApplied).
Converges == <>[](\A k \in Keys : Recorded(k) /\ ProbesAsRecorded(k))

\* The same after a crash or a lost reply, as far as it goes.  A measurement
\* may be left stopped with its record kept (a stop done and not recorded):
\* LiveDiff reports a ghost and leaves it to the operator.  And a probe added
\* or removed but not recorded stays if the configuration no longer asks for
\* the change: LiveDiff compares no live probes.  Frozen probes are excepted as
\* in Converges.
Recovers ==
    <>[](\A k \in Keys : \/ Recorded(k)
                         \/ disk[k] # NoRecord /\ ~Ongoing(disk[k].id))

(* What the documentation says and the code does not do: checked by the     *)
(* runs that expect a violation.                                            *)

\* README "Resource model": a (name, cohort) pair "maps to exactly one RIPE
\* Atlas measurement ID".  Apply goes on to the create after a failed stop.
OneMeasurementPerPair ==
    \A i, j \in MsmIDs :
        Ongoing(i) /\ Ongoing(j) /\ api[i].key = api[j].key => i = j

\* README "Drift detection": an orphan is a measurement "with our description
\* tag that is not in the state file".  LiveDiff looks its key up, not its ID.
OrphansReported ==
    \A p \in Procs : pc[p] = "confirm" =>
        \A id \in Live(cfg[p]) :
            \/ \E k \in Keys : loaded[p][k] # NoRecord /\ loaded[p][k].id = id
            \/ \E w \in warns[p] : w.kind = "orphan" /\ w.id = id

\* README "Resource model": "probe list changed" means "Add/remove probes".  So
\* once edits cease, a recorded measurement that the configuration keeps gets
\* the probes it asks for.  cancelStopCreate drops the edit in every run where
\* only the namespace was falsely new.
ProbeEditsApplied ==
    <>[](\A k \in Keys :
            LET spec == Wanted(config)[k]
                rec  == disk[k]
            IN  rec # NoRecord /\ Ongoing(rec.id) /\ Serves(api[rec.id], spec)
                    => api[rec.id].probes = spec.probes)

\* Apply works on "a deep copy" of the state (comment of cloneState): a record
\* keeps what it says of a measurement as long as it names that measurement.
\* The copy's literal leaves the HTTP fields out.
RecordsKept ==
    [][\A k \in Keys :
          disk[k] # NoRecord /\ disk'[k] # NoRecord /\ disk'[k].id = disk[k].id
              => disk'[k].http = disk[k].http]_vars

=============================================================================
