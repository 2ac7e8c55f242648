------------------------------ MODULE PlanDiff ------------------------------
(***************************************************************************)
(* The pure part of pkg/plan: what a configuration asks for                *)
(* (DesiredState), what the state file records, and the changes that take  *)
(* the one to the other (Diff, and the two corrections LiveDiff makes to   *)
(* it once it has seen the live measurements).                             *)
(*                                                                         *)
(* Abstractions.  A measurement's Target, Type, AF and Interval are only   *)
(* ever compared for equality and always together: they are one value, an  *)
(* element of Attrs; HttpAttrs are those whose Type is "http".  The four   *)
(* HTTP fields are one element of HttpOpts, NoHttp when all are unset.     *)
(* Probe lists are sets (every consumer of their order dedups them).       *)
(* MsmKey is the pair (measurement name, cohort name).  Credits, the       *)
(* LastApplied stamp and log lines take part in no decision.               *)
(***************************************************************************)
EXTENDS Naturals

CONSTANTS
    Keys,             \* MsmKey: (measurement name, cohort name) pairs
    Namespaces,       \* namespaces a configuration may name
    DefaultNamespace, \* "atlasctl"
    NoNS,             \* the empty namespace string
    Attrs,            \* (target, type, af, interval) combinations
    HttpAttrs,        \* those of type http
    HttpOpts,         \* (method, path, port, version) combinations
    NoHttp,           \* all four unset
    Probes,           \* probe IDs
    MsmIDs,           \* measurement IDs RIPE Atlas hands out
    NoSpec,           \* key not desired
    NoRecord          \* key not in the state file

OptNS == Namespaces \cup {NoNS}

MsmSpec == [ns : OptNS, attr : Attrs, http : HttpOpts, probes : SUBSET Probes]

MsmRecord ==
    [id : MsmIDs, ns : OptNS, attr : Attrs, http : HttpOpts,
     probes : SUBSET Probes]

StateFile == [Keys -> MsmRecord \cup {NoRecord}]

\* A configuration with probe selection already run over it.
Config ==
    [ns : OptNS,
     want : [Keys -> [attr : Attrs, http : HttpOpts, probes : SUBSET Probes]
                     \cup {NoSpec}]]

ASSUME PlanAssumption ==
    /\ MsmIDs \subseteq Nat
    /\ DefaultNamespace \in Namespaces
    /\ NoNS \notin Namespaces
    /\ HttpAttrs \subseteq Attrs
    /\ NoHttp \in HttpOpts
    /\ NoSpec \notin MsmSpec
    /\ NoSpec \notin [attr : Attrs, http : HttpOpts, probes : SUBSET Probes]
    /\ NoRecord \notin MsmRecord

-----------------------------------------------------------------------------

\* NewTagCodec and isStructuralChange both read an empty namespace as the
\* default one.
EffNS(ns) == IF ns = NoNS THEN DefaultNamespace ELSE ns

DesiredState(c) ==
    [k \in Keys |->
        IF c.want[k] = NoSpec THEN NoSpec
        ELSE [ns |-> EffNS(c.ns), attr |-> c.want[k].attr,
              http |-> c.want[k].http, probes |-> c.want[k].probes]]

\* LiveDiff fills an empty spec namespace from the codec before diffing.
Effective(desired, codec) ==
    [k \in Keys |->
        IF desired[k] # NoSpec /\ desired[k].ns = NoNS
        THEN [desired[k] EXCEPT !.ns = codec]
        ELSE desired[k]]

IsStructuralChange(rec, want) ==
    \/ EffNS(rec.ns) # EffNS(want.ns)
    \/ rec.attr # want.attr
    \/ want.attr \in HttpAttrs /\ rec.http # want.http

\* Compares target, type, af and interval, and not the HTTP fields.
NonNamespaceStructuralChange(rec, want) == rec.attr # want.attr

-----------------------------------------------------------------------------
(* Changes.  "pass" tells which append put the change in the slice: 1 and 2 *)
(* the passes of Diff, 3 cancelStopCreate, 4 replaceWithStopCreate.         *)

StopOf(k, id, pass) == [kind |-> "stop", key |-> k, id |-> id, pass |-> pass]

CreateOf(k, spec, pass) ==
    [kind |-> "create", key |-> k, spec |-> spec, pass |-> pass]

NoOpOf(k, id, pass) == [kind |-> "noop", key |-> k, id |-> id, pass |-> pass]

ProbesOf(kind, k, id, probes) ==
    [kind |-> kind, key |-> k, id |-> id, probes |-> probes, pass |-> 1]

Change ==
    [kind : {"stop"}, key : Keys, id : MsmIDs, pass : {1, 2, 4}]
    \cup [kind : {"create"}, key : Keys, spec : MsmSpec, pass : {1, 4}]
    \cup [kind : {"noop"}, key : Keys, id : MsmIDs, pass : {1, 3}]
    \cup [kind : {"add_probes", "remove_probes"}, key : Keys, id : MsmIDs,
          probes : SUBSET Probes, pass : {1}]

\* probeDelta: the probes to add and to remove, a change for each non-empty
\* one, a no-op when both are empty.
ProbeAdditions(k, rec, want) ==
    LET toAdd == want.probes \ rec.probes
    IN  {IF toAdd = {} THEN NoOpOf(k, rec.id, 1)
         ELSE ProbesOf("add_probes", k, rec.id, toAdd)}

ProbeChanges(k, rec, want) ==
    LET toAdd    == want.probes \ rec.probes
        toRemove == rec.probes \ want.probes
    IN  {c \in {ProbesOf("add_probes", k, rec.id, toAdd),
                ProbesOf("remove_probes", k, rec.id, toRemove)} : c.probes # {}}
        \cup {c \in {NoOpOf(k, rec.id, 1)} : toAdd = {} /\ toRemove = {}}

DiffKey(k, want, rec) ==
    CASE want = NoSpec /\ rec = NoRecord -> {}
      [] want = NoSpec /\ rec # NoRecord -> {StopOf(k, rec.id, 2)}
      [] want # NoSpec /\ rec = NoRecord -> {CreateOf(k, want, 1)}
      [] OTHER ->
           IF IsStructuralChange(rec, want)
           THEN {StopOf(k, rec.id, 1), CreateOf(k, want, 1)}
           ELSE ProbeChanges(k, rec, want)

Diff(desired, state) ==
    UNION {DiffKey(k, desired[k], state[k]) : k \in Keys}

\* alreadyStopping in LiveDiff.
Stopping(cs) == {c.key : c \in {d \in cs : d.kind = "stop"}}

DropKey(cs, k) == {c \in cs : c.key # k}

CancelStopCreate(cs, ks, state) ==
    {c \in cs : c.key \notin ks} \cup {NoOpOf(k, state[k].id, 3) : k \in ks}

ReplaceWithStopCreate(cs, k, id, spec) ==
    DropKey(cs, k) \cup {StopOf(k, id, 4), CreateOf(k, spec, 4)}

-----------------------------------------------------------------------------
(* The order in which Apply meets the changes.  Diff ranges over maps, so   *)
(* keys come in any order inside a pass; the changes of one key are         *)
(* adjacent, a stop before its create and an addition before a removal.     *)

DueAnyOrder(cs, cur) ==
    {c \in cs : \A d \in cs : c.pass <= d.pass}

Due(cs, cur) ==
    {c \in cs :
        /\ \A d \in cs : c.pass <= d.pass
        /\ (\E d \in cs : d.key = cur) => c.key = cur
        /\ c.kind \in {"create", "remove_probes"} =>
             \A d \in cs : d.key = c.key => d = c}

\* cloneState copies the fields named in its literal; the HTTP fields are
\* not among them.
CloneRecord(rec) == [rec EXCEPT !.http = NoHttp]

CloneState(state) ==
    [k \in Keys |-> IF state[k] = NoRecord THEN NoRecord
                    ELSE CloneRecord(state[k])]

\* The record Apply stores for a measurement it created.
RecordOf(id, spec) ==
    [id |-> id, ns |-> spec.ns, attr |-> spec.attr, http |-> spec.http,
     probes |-> spec.probes]

=============================================================================
