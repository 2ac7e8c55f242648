# atlasctl in TLA+

atlasctl keeps a set of RIPE Atlas measurements in the state a configuration
file asks for. It selects probes, computes the difference between the desired
state, a local state file and the live account, and carries it out with calls
that create, stop and change measurements. There is no transaction over the
state file and the account, no lock on the state file, and a plan is always a
little older than the account it is applied to: that is one thing these modules are
about. The other is the selection itself, which must give each slot to the probe
that deserves it through loops, counters and caches, and should not move probes
without need.

Source paths below are relative to `src/`.

## The system

| Part | State it keeps | Operations | Hard part | Modules |
|---|---|---|---|---|
| State file (`pkg/plan/state.go`) | `state.yaml`: per (measurement, cohort) the ID, namespace, immutable attributes and probes last applied | load, save (temporary file and rename), get/set/delete a record | read at the start of a run and replaced at its end, without a lock | `PlanDiff`, `Reconcile` |
| Diff (`pkg/plan/diff.go`) | none | desired state, changes from state to desired | two passes over maps in any order; stop before create of a key | `PlanDiff` |
| LiveDiff (`pkg/plan/livediff.go`) | none, but many calls to the account | corrects the diff for namespaces, reports orphans and ghosts | the account, the state and the static diff may each disagree with the two others | `Reconcile` |
| Apply (`pkg/plan/apply.go`) | a copy of the state, returned | one call per change, recorded when it succeeds | failing calls, lost replies, cancellation, crash before the save | `Reconcile` |
| Commands (`cmd/atlasctl`) | none | apply, plan, refresh, select | apply's order of reads, prompt, calls and save | `Reconcile`, `ProbeCache` |
| Tag codec (`pkg/plan/tag.go`) | none | format and parse the description tag | separators inside names, a namespace that ends another | `TagCodec`; abstracted in `Reconcile` |
| API client (`pkg/atlasapi`) | the account (external) | list, get, create, stop, add, remove, fetch probes | which errors leave an effect behind | as actions of `Reconcile`, `ProbeCache` |
| Probe cache (`pkg/snapshot`) | snapshot file, lock file | `Probes`, `Save`, `Load` | two lock modes with a gap between them; an unlocked writer | `ProbeCache`, `ReadThrough` |
| Selection (`pkg/selection`) | the orderer's cache, for one invocation | score, order by band and hash, interleave continents, pin, fill with a cap per H3 cell | cells and slots that run out together, exclusion between cohorts, a probe that leaves | `Scoring`, `Ordering`, `Selection`, `Draft` |
| Report, GeoJSON (`pkg/selection`) | none | counts of what was selected | scores computed a second time | `Estimates` (partly) |
| Credits (`pkg/plan/credits.go`) | none | hourly, daily, weekly credits | integer division | `Estimates` |
| Configuration (`pkg/config`) | none | load, defaults, presets, validation | what is not refused | `Configuration` |
| Fakes, printing, flags | - | - | - | not modelled |

How they meet: `apply` reads the configuration and, through the probe cache, the
snapshot; selection turns both into the probes of each cohort; the state file is
loaded; `LiveDiff` compares all of it with the account and returns changes and
warnings; the operator confirms; `Apply` carries the changes out and returns a
new state, which is saved whatever happened. `plan` stops after `LiveDiff`.

What makes each part correct:

- the state file never says something false of a measurement, and with the
  exceptions listed below it accounts for every running one;
- a plan stops and creates what the configuration requires and nothing else,
  wherever the namespace of a record comes from;
- drift is reported;
- repeated runs converge, but for the probes of a record without a namespace whose
  measurement runs under a namespace other than the default (`legacy_probes`);
- the probe cache never serves a snapshot that was stale during the whole call,
  fetches only when it must, and never blocks its callers for good;
- selection gives a cohort its pins and then the first probes of its order that find
  a slot and room in their cell, no probe twice in a measurement unless it is pinned,
  and another run over almost the same snapshot gives almost the same;
- the plan, its credits and the report are about what was selected;
- a measurement's tag is read as the pair it was written for, and by no other
  configuration.

## Modules

`PlanDiff` holds the pure operators of `pkg/plan`, one per function of the code:
`DesiredState`, `Effective` (the namespace `LiveDiff` fills in),
`IsStructuralChange`, `NonNamespaceStructuralChange`, `ProbeChanges`
(`probeDelta`), `Diff`, `CancelStopCreate`, `ReplaceWithStopCreate`,
`CloneState`. A changeset is a set; each change carries the pass that appended
it, and `Due` says which change `Apply` may meet next: passes in order, keys of
one pass in any order (they come from Go maps), the changes of one key adjacent
with a stop before its create. Target, type, AF and interval are one value,
because the code only ever compares them together; the four HTTP fields are
another, because two of the code's functions disagree about them.

`Reconcile` is the machine: `config`, `disk` (`state.yaml`) and `api` (the
account) are shared, the rest is the memory of each run in `Procs`.

| Action | Code |
|---|---|
| `Start`, `LoadState` | the reads of `newApplyCmd`; the configuration is read together with the probes selected for it |
| `ListLive` | `Diff`, `ListMyMeasurements` and the orphan loop of `LiveDiff`, cancellations included |
| `ReportGhost`, `MoveNamespace`, `PlanReady` | one iteration of the ghost loop for a record that must be looked up, and the return |
| `Confirm`, `GiveUp` | the prompt, `cloneState`; a failed read, a "no", a dry run, `plan` |
| `ApplyNoOp`, `ApplyCreate`, `ApplyStop`, `ApplyProbes` | one iteration of `Apply`'s loop whose call succeeds |
| `CallRejected`, `CallFails`, `ReplyLost` | one whose call returns an error: the account could not accept it; it had no effect; it had its effect |
| `Cancel`, `ApplyReturns`, `SaveState`, `Crash` | `ctx.Err()`, the return, the save, the death of the process before its rename |
| `EditConfig`, `ExternalStop` | the operator, the outside world |

`ListLive` is one step although a list of several pages is not: the code acts on
the list only after it is complete, and a measurement that stops in between is
what `ExternalStop` and other runs do right after. `Provider` says that the
caller leaves the namespace of its specs empty, as the Pulumi provider does
(comment of `LiveDiff`). `StopIdempotent` says whether RIPE Atlas accepts to stop
a measurement that is stopped already, which the code does not tell.

`ProbeCache` is `CachedProbeSource.Probes` called once by each of several
callers, with `refresh` writing the same file. Each step of the code between two
system calls is an action (`RLock`, `CheckFresh`, `CheckStale`, `Lock`, `Recheck`,
`Load`, `FetchProbes`, `WriteTemp`, `Rename`), `Fails` is any error return, `Crash`
the death of a process. A list of probes is the generation of the pool it was
fetched from. `ReadThrough` is what the cache promises, with neither lock nor
temporary file, and `ProbeCache` implements it (`ReadsThrough`).

Probe selection is split the way the code is. `Scoring` is `scoring.go` and the caps
of cells: `Score`, the bonus of cities, bands, `CellCapacity`. `Configuration` is
`config.Load`: `ApplyDefaults`, `Valid`, and the accessors. `Ordering` is
`NewDefaultOrderer`: `Sorted`, `InterleaveContinents`, and `CacheKey`. `Selection` is
the machine, one invocation of a command and then another:

| Action | Code |
|---|---|
| `Load` | `config.Load`: defaults, then refused or accepted |
| `BeginCohort`, `Cancel` | the head of the loop over cohorts in `Select`, with its look at `ctx.Err()` |
| `PinProbe`, `SkipAbsentPin` | one iteration over `IncludeProbeIDs` |
| `OrderProbes` | the call of the orderer, with its cache |
| `PickProbe`, `SkipProbe` | one iteration over the order: taken, or passed over as excluded, hard-excluded or in a full cell |
| `FinishCohort` | the end of a cohort; the probes it has join `interCohortExcluded`; the next cohort, or the next measurement of `selectAll` |
| `ProbeLeaves` | the next invocation, over a snapshot with one probe less |

`Selection` takes the orderer and its key as constants, as `Select` takes a
`ProbeOrderer`, so what is proved of it holds for any orderer that returns each probe
once. `Draft` is what it promises: there, a cohort gets its slots in one step, and a
probe deserves one if, of the probes before it in the order, those with a slot leave a
slot and leave room in its cell. No loop, occupancy count, exclusion set or cache is
left in it; `Selection` implements it (`FollowsDraft`).

Scores, bands, cells and exclusions of a probe come from `Info`; the cell of a probe
at each resolution and the cities it is near to replace coordinates, and its hash is
a number. A density coefficient is a percentage.

`TagCodec` is `tag.go` over sequences of tokens, the separators among them.
`Estimates` is what the commands compute of the selected probes: `DesiredState` with
its two maps keyed by names, credits, the counts of the report. `SelectAll` composes
all of it, default orderer included, and states properties of the whole.

`MCReconcile`, `MCProbeCache` and `MCSelection` give the constants their values for
TLC. The theorems are in `PlanDiffProofs`, `ReconcileProofs`, `CompletenessProofs`,
`ProbeCacheProofs`, `SelectionProofs` (the machine, for any orderer), `OrderingProofs`
(the default orderer), `EstimatesProofs` (sums and texts) and `SelectAllProofs` (the
whole, from the configuration to desired measurements, report and tags).

## What is checked with TLC

| Run | Instance | Properties |
|---|---|---|
| `faults` | one run at a time, 2 keys, 5 configurations, 5 initial fleets, any 2 faults, 2 edits | `TypeOK`, `RecordsTruthful`, `CreatesOnlyDesired`, `StopsOnlyOutdated`, `OutdatedStopped`, `DriftReported` |
| `overlap` | 2 overlapping runs of a provider, 1 key, 5 configurations, 3 fleets, 1 fault (external stops included), 1 edit | the four about plans and records |
| `ledger` | one run at a time, repeated; faults Apply is told of, no failed stop | `EveryMeasurementRecorded`, `Converges` |
| `recover` | the same with failed stops, lost replies and crashes | `Recovers` |
| `cache` | 3 callers (one without a client) and a refresh, 2 clock values, 2 generations | `TypeOK`, `OneWriter`, `NoNeedlessFetch`, `ReadsThrough`, `EveryCallReturns` |
| `selection` | 300 configuration files over 6 probes, 2 invocations, 1 probe leaves | `TypeOK`, `NoDoubleSelection`, `CachedOrderIsOwn`, `RoundRobin`, `OnlyItsSlotOpensUnshuffled`, `EstimateCoversSelection`, `HourlyWithinDaily`, `ReportedBandsDroveSelection`, `TagsFindTheirCohort`, `ForeignTagsIgnored`, `FollowsDraft` |
| `stop_fails`, `crash_orphan`, `http_edit`, `http_no_change`, `legacy_probes`, `cascade` | the smallest instance that shows it | one documented property each, violated (below) |

Bounds. Two keys are enough for the properties that relate keys (order between
keys of one pass, duplicates); all others are per key. The configurations contain,
pairwise, a create, a stop, a probe added and removed, a structural change, a
change of namespace and back, and no change; and, for a record older than namespace
tracking whose measurement runs under the new namespace already, that change of namespace
both with and without an edit of probes. The fleets are an empty account, a
record older than namespace tracking whose measurement runs under the default
namespace or under another, records without a running measurement, and a running
measurement without a record. Two faults allow one to hit the repair of the other.
`MsmIDs` is as large as the longest run needs in the two liveness runs (no create
is ever refused for lack of an ID there); in the safety runs an exhausted account
simply rejects creates, which is a failure the code handles. In `cache` the time to
live is 0, so that a snapshot is fresh in the tick it was written and stale in the
next: the clock can pass the limit between any two steps, which is all the code
can notice; the theorems hold for every time to live.

In `selection`, the six probes make two cells with two probes each, one of them across
a border of zones, a country that the table does not have, and hashes that do not
follow the IDs; at resolution 2 everything is in two cells. The files pair every kind
of first cohort (slots short of probes and the reverse, a cap of one and of two, a pin
list with duplicates, absent probes, more pins than slots, a pin that is also
excluded) with eight configurations (negative and zero weights, thresholds, excluded
tags, coarse cells, cities that relax and tighten, a city that is everywhere, with and
without interleaving), and five second cohorts, of which one takes a preset. Others
have two measurements, names made of the tag's separators and of namespaces (one
namespace has a colon, another begins with the bracket), no measurement at all, or one mistake that validation refuses. A command ends,
so `CHECK_DEADLOCK` is off there; it has no liveness worth stating, as each loop runs
over a finite list.

Fairness. `FairSpec` of `Reconcile` is weak fairness of `Step(p)`: an operator or a
scheduler keeps running apply, and a run whose calls return keeps going.
Faults and edits are never fair and are bounded, as `Converges` and `Recovers` speak
of what happens after the last one. `FairSpec` of `ProbeCache` is weak fairness of
each begun call: the kernel grants a free lock and a fetch ends. Each caller calls
once, so no stream of readers can starve a writer. `Fails` is not a fair step:
waiting callers are not helped by errors.

What the runs show beyond the names of the properties:

- `Converges` and `Recovers` except frozen probes (`ProbesFrozen`): with a record that
  carries no namespace and a measurement that runs under a configured namespace other
  than the default, every run plans a false change of namespace, cancels it together with
  any edit of the probes, and leaves a no-op, which never writes the namespace
  (`apply.go:80`). Both runs contain the case and find the properties violated without
  the exception. All else is required of such a key too, and `Converges` also requires
  that the running probes are the recorded ones: nothing else is lost.
- `Recovers` is weaker than `Converges`. After a crash or a lost reply a measurement
  may be left stopped with its record kept (a stop that was done but not recorded,
  for a key that is wanted again): `LiveDiff` reports a ghost, and by design never
  recreates it. And probes that were added but not recorded stay, since `LiveDiff`
  compares no live probes.
- With `StopIdempotent = FALSE` a record of an unwanted pair whose measurement is
  stopped already is never removed: each run plans the stop and each stop fails.
  `recover` is therefore checked with `TRUE`.
- Two overlapping runs keep every record true and every plan sound, but not complete:
  the last to save wins, and measurements the other created are left to no record.
  Nothing in the code or its documentation promises otherwise, so no property says
  so.
- `refresh` can replace a newer snapshot by an older one that looks fresh, since it
  saves without the lock. `ReadThrough` and `NoNeedlessFetch` say where that matters.
- The orderer's cache is sound only as long as every radius is finite: with `.inf`,
  `CacheKey` drops the error of `json.Marshal` and all such configurations share one
  key. `CachedOrderIsOwn` leaves them out and `Draft` allows them any order that shares
  the key; the run has both.
- `OnlyItsSlotOpensUnshuffled` holds of the first cohort of a measurement, without
  cities. With one, a cell's cap is taken over all probes of the snapshot in it,
  selected or not, so that a probe that leaves can lower the cap and cost another its
  slot. A second cohort depends on what the first has.
- `TagsFindTheirCohort` and `ForeignTagsIgnored` need exceptions, each a real confusion
  of `Parse`: a measurement name with a colon, any name with `]`, and for the second also
  a namespace that ends with another (`my-atlasctl`, or `[atlasctl` for `atlasctl`) and a
  colon in the cohort's name or in the tag's namespace (`prod` finds itself in `x:prod`'s
  tags). `LiveDiff` decides by `Parse` alone whether a measurement it looked up has moved
  to another namespace (`livediff.go:252`). Validation refuses none of them. The last
  two, bracket and namespace, were found by the proof, which failed without them; the
  run has such namespaces since.
- `ReportedBandsDroveSelection` holds where no city adds to scores, since the report
  scores probes again and leaves cities out, and where all radii are finite, since with
  `.inf` a cohort may be filled in the order of another configuration. There the claim of
  `report.go:53`, that the bands are those that drove selection, is false. The run has
  both, and finds the property violated without either exception. The cell is an
  exception of another kind: a probe of a higher band is passed over where those of its
  band or higher fill its cell.

### Where the code and its documentation disagree

- `http_edit`: an edit of only the HTTP fields of a measurement is planned as a stop
  and a create by `Diff` and then cancelled by `LiveDiff` (`livediff.go:187`), because
  `nonNamespaceStructuralChange` does not compare those fields. It is never applied.
- `http_no_change`: `cloneState` (`apply.go:223`) copies all fields of a record but the
  HTTP ones, so a run that does nothing erases them from the state file.
- `stop_fails`: after a failed stop `Apply` goes on to the create of the same
  replacement and overwrites the only record of the measurement that still runs.
- `crash_orphan`: `LiveDiff` finds orphans by (name, cohort) and not by ID, so the
  duplicate a crash left behind is not reported once the pair has a record again.
- `legacy_probes`: cancelling a false change of namespace also drops the edit of probes
  planned with it. As the record is left without a namespace, the same happens on every
  run: in the counterexample apply is run for ever and the edit is never carried out.
- `cascade`: `docs/selection-reference.md:137` says that when a probe disconnects only its
  slot opens. With the default interleaving, the later probes of its zone and band move
  up one pass, and with one probe per cell a connected probe of another zone finds its
  cell taken. In the run, the probe that leaves had no slot itself.

Because of the first two, the passing runs have no HTTP measurements in `Reconcile`.

Seen and not checked, since no behaviour of the program hangs on it or the point is one
of data:

- `README.md` says of `select` that it makes no API calls; with an API key it refreshes a
  snapshot older than two hours (`select.go:28`).
- `README.md:302` says that a cohort of six covers all six zones. Bands come before
  zones: six probes of band A in one zone leave nothing for the others.
- `selection/select.go:191` says that absence is the only reason a pinned probe is
  skipped; pins beyond `probe_count` are skipped as well, and one that is listed twice
  takes two slots.
- `selection/scoring.go:76` says that validation rejects slugs that are both tags and
  stability weights; it does not, and they count twice. The documented minimum score of
  1 does not hold with negative weights.
- A cohort with a preset and an explicit `cfg` that is all zero takes the preset: the
  two cannot be told apart after decoding. One with an empty list in it
  (`cfg: {cities: []}`) does not, since `reflect.DeepEqual` tells that from an absent
  one (`config.go:171`).
- `cellCapacity` multiplies floats: a cap of 10 and a coefficient of 1.1 give 12.

## What is proved

Every safety invariant and action property of the passing runs, for every value of the
constants, from the named assumptions `PlanAssumption`, `ReconcileAssumption`,
`CacheAssumption`, `ProbesAssumption`, `TableAssumption`, `SelectionAssumption`,
`DefaultNSAssumption` and `NamespacesAssumption` (sentinels are distinct from data;
initial fleets are truthful; refreshers are not callers; the pool is finite; hashes are
numbers and each country's zone is one of the six; files are typed as the decoder
types them, weights as integers included; an orderer returns each probe once), and
those a theorem names itself:

- `ReconcileProofs`: `SpecTypeOK`, `SpecRecordsTruthful`, `SpecCreatesOnlyDesired`,
  `SpecStopsOnlyOutdated`, whatever runs overlap, fail and crash.
- `CompletenessProofs`: `SpecOutdatedStopped` without HTTP fields; `SpecDriftReported` if
  nothing else touches the account; `SpecEveryMeasurementRecorded` with one run at a time,
  no crash, lost reply or failed stop, and a state file that accounts for everything
  at first. The runs above satisfy these assumptions, and those that expect a violation
  (`http_edit`, `stop_fails`) break them.
- `ProbeCacheProofs`: `SpecTypeOK`, `SpecOneWriter`, `SpecNoNeedlessFetch`, and
  `SpecReadsThrough`: the cache implements `ReadThrough`.
- `SelectionProofs`: `SpecTypeOK`, `SpecNoDoubleSelection`, `SpecCachedOrderIsOwn` (if
  configurations with finite radii have distinct keys), and `SpecFollowsDraft`: selection
  implements `Draft`, for any orderer, caps, pins and files.
- `OrderingProofs`: `InterleavedInTurns` says in which order `InterleaveContinents` puts any
  finite pool, and `DefaultOrderOrders` that the default orderer returns each probe once,
  which is what `SelectionAssumption` asks of any.
- `SelectAllProofs`, of the whole: `SpecRoundRobin`, `SpecOnlyItsSlotOpensUnshuffled` and
  `SpecReportedBands` under `DefaultOrderer` (`Orderer` and `OrderKey` are `DefaultOrder` and
  `CacheKey`, as in the run's cfg); `SpecEstimateCoversSelection`, `SpecHourlyWithinDaily`,
  `SpecTagsFindTheirCohort` and `SpecForeignTagsIgnored` for any orderer.

The inductive invariant of `Reconcile` adds three conjuncts to the four properties.
`OwnChanges`: every change but a create carries the ID its run loaded; without it
nothing ties a stop to a record. `LookupsWanted`: a record that the ghost loop will
look up belongs to a wanted key, because `Diff` stops all others and stopped keys are
skipped; it is what makes `effective[key]` safe. `NoPlanYet`: a run that has not
listed has no changes. Most steps plan nothing new and let the account only grow in
the sense of `Grows` (nothing is forgotten, tags and attributes stay, nothing
restarts): lemma `NoNewPlan` settles them all, and only `ListLive`, `MoveNamespace` and
the starting steps need an argument of their own. `StopsOnlyOutdated` rests on two
facts: a stop planned by `Diff` for a measurement in the live list survives only if
attributes differ or the key is unwanted, and one planned by the ghost loop concerns
another namespace.

`CompletenessProofs` builds three invariants on that one. Two lemmas serve all three:
under every step the account only grows (`AccountGrows`), and a plan is changed by
LiveDiff's steps only (`PlanSteps`). For `OutdatedStopped`: what is outdated is being
stopped or still to be looked up, and what is still to be looked up, if it runs, runs
under another namespace (`LookedUpElsewhere`). The second half is why the lookup never
mistakes an outdated measurement for a ghost, and why `LiveDiff`'s branch for a running
measurement with our own tag that is not in the live list is never taken, as long as
the list is complete. For `DriftReported` the account must stand still while a plan is
made (`AccountQuiet`). For `EveryMeasurementRecorded` the invariant `LedgerAt` adds that what
was loaded is what is on disk, that a planned stop concerns the only measurement that
may run for its key, and that a planned create comes after such a stop or finds
nothing running: by the order in which `Apply` meets changes, nothing runs for its key
when its turn comes.

The invariant of `ProbeCache` adds that the exclusive lock excludes (`LockExcludes`),
who may be where (`Roles`), that a call about to load was shown a fresh file
(`LoadsFresh`: no other caller can rename while it holds even the shared lock), and
that what is about to be saved is no older than the call (`SavesNew`). The refinement
maps every label between begin and return to "asked"; `Load` is a hit, `Rename` a miss,
an error or a crash a failed call, everything else stutters.

The invariant of `Selection` says that a cohort at work exists (`Loaded`), that each
cached order is one an equal key may have (`CacheSound`), that `interCohortExcluded` is
what the results so far have (`TakenSound`), and that slots left, pins and picks add up
and the occupancy of each cell counts the picks in it (`SlotsSound`). `Pinning` and
`Filling` describe the two loops half done: the pins so far are the first that exist
(`PinsAreFirst`), and each candidate already seen has a slot exactly if it deserves
one. A candidate's verdict looks only at those before it (`AheadFacts`), so it does not
change when later ones are picked. In the refinement `Load` is `Configure`, `Cancel` is
`Interrupt`, `FinishCohort` is `FillCohort`, `ProbeLeaves` is `Redo`; everything else
stutters, and the loops' end turns `Filling` into `Justified` (`ResultJustified`).

`OrderingProofs` replaces induction by least counterexamples (`LeastNatural`). A finite set
that is ordered strictly has a probe of each rank (`Ranks`), which makes `Sorted` and
`Bucket` sequences without gaps; a concatenation is in order if its parts are and each
comes before the next (`FlattenFacts`), which is used three times: for the zones of a
pass, the passes of a band, and the bands. `Bucket` numbers its probes by rank instead of
using `SelectSeq`, which the prover cannot unfold; it is the same sequence.

`SpecOnlyItsSlotOpensUnshuffled` compares two invocations, so its invariant has two halves:
what the first cohort of each measurement has fits the pool it was chosen from
(`ResultsFit`), and the results of the invocation before fit a pool that has one probe
more (`PreviousFits`). Both were checked with TLC first. Without cities a cell's cap is a
constant, and without interleaving a probe that leaves does not change the order of the
others. Up to any place in it, the picks of the new invocation are the old ones without
the probe that left and with at most one more, in the cell that it left
(`OneInPlace`): so neither slots nor a cell run out earlier, and the first who would lose
a slot does not exist (`GreedyKeeps`). With interleaving the statement is false (`cascade`).

`SpecReportedBands` rests on the invariant `ResultsByBands`: each cohort whose order is its
own has passed over nobody for a lower band but in full cells. The order never goes up a
band, interleaved or not (`BandsDescend`). So if a probe got a slot behind one that could
have had it, slots were left when that one's turn came, and by `Draft`'s fairness its cell
was full, of probes that come before it in the order (`FairKeepsBands`). Without the bonus
of cities the report's score is the selection's (`ZeroBonus`).

The properties of estimates rest on one invariant, `ResultsPlaced`: a result is of
a cohort that exists and no two are of the same. With validation's unique names
(`Named`) keys are as many as results, `Overwritten` never happens (`KeysAreOwn`), and the
sum over keys is the sum over results (`SumOverDesired`). The community fold picks
elements by `CHOOSE`; `SumFacts` says that its value does not depend on the picks.
Credits come down to one fact of integer division (`DayOfHours`).

For tags, `TagFacts` reads the tag element by element and `IndexFacts` says that `IndexOf`
is the first occurrence. The anchor `ns:` of the reader's own namespace is found right
after the bracket: if it also stood on the bracket, every element of the namespace, and
then its colon, would be brackets (`AnchorFacts`). In a foreign tag whatever anchor is
found ends at one of two colons. At the first, the reader's namespace is an end of the
writer's; at the second, only the cohort is left to split, which has no colon
(`ForeignParse`). `Tokens` adds the three separators to `STRING`, because the provers
do not know that a literal is a string.

Only model-checked: all liveness (`Converges`, `Recovers`, `EveryCallReturns`), which is out
of the prover's reach; and the documented claims that the other runs refute.

## Not modelled

- Malformed description tags in `LiveDiff`: there, a tag is the pair and namespace it
  encodes, and `TagCodec` says for which names that is so. Names with a separator that
  parse as another pair are therefore outside `Reconcile`.
- Request building, field validation and paging in `pkg/atlasapi` (a list of several
  pages is one step; see `ListLive`), and the conversion of a fetched probe.
- H3 and haversine geometry, the hash function, the table of countries: data here.
  Rounding of floats in a cell's cap. Decoding of YAML,
  where an empty list or map is taken for an absent one.
- GeoJSON, and the score statistics and ASNs of the report: output that decides nothing.
- Between `Selection` and `Reconcile` there is no composed module: a configuration of
  `Reconcile` comes with its probes, any probes, and a snapshot that selects others is
  an edit. That covers every selection, cascades included.
- A power failure that loses a renamed file, a clock that goes backwards, a lock file
  that is deleted while held. Log lines, `LastApplied`.
- Fakes used by tests, flags, printing.

## Plan

1. `PlanDiff`, `Reconcile`: done, with theorems for all their safety invariants.
2. `ProbeCache`, `ReadThrough`: done.
3. `Selection`, `Draft`, `Scoring`, `Ordering`: done, with theorems for all their safety
   invariants.
4. `TagCodec`, `Configuration`, `Estimates`: done, with theorems for all properties of
   `SelectAll` that hold.
5. Left: paging of the measurement list as steps of its own, with measurements that
   stop between two pages.
