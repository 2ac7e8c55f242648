---------------------------- MODULE PlanDiffProofs ----------------------------
(***************************************************************************)
(* What the operators of PlanDiff return: the facts the invariance proofs  *)
(* about Reconcile rest on.                                                *)
(***************************************************************************)
EXTENDS PlanDiff, TLAPS

OptSpec == MsmSpec \cup {NoSpec}
OptRecord == MsmRecord \cup {NoRecord}

\* An empty namespace is read as the default one (NewTagCodec).
LEMMA EffNSType ==
    ASSUME NEW ns \in OptNS
    PROVE  EffNS(ns) \in Namespaces
BY PlanAssumption DEF OptNS, EffNS

\* DesiredState gives a spec exactly to the keys the configuration wants, all
\* under its effective namespace.
LEMMA DesiredStateFacts ==
    ASSUME NEW c \in Config
    PROVE  /\ DesiredState(c) \in [Keys -> OptSpec]
           /\ \A k \in Keys : DesiredState(c)[k] # NoSpec =>
                                 DesiredState(c)[k].ns = EffNS(c.ns)
<1>1. EffNS(c.ns) \in Namespaces
  BY EffNSType DEF Config
<1>2. EffNS(c.ns) \in OptNS
  BY <1>1 DEF OptNS
<1>3. ASSUME NEW k \in Keys, c.want[k] # NoSpec
      PROVE  c.want[k] \in [attr : Attrs, http : HttpOpts, probes : SUBSET Probes]
  BY <1>3 DEF Config
<1> QED
  BY <1>2, <1>3, PlanAssumption DEF DesiredState, OptSpec, MsmSpec

\* LiveDiff's effective specs all carry the codec's namespace when the caller
\* left it empty or set it to the codec's.
LEMMA EffectiveFacts ==
    ASSUME NEW desired \in [Keys -> OptSpec],
           NEW codec \in Namespaces,
           \A k \in Keys : desired[k] # NoSpec => desired[k].ns \in {NoNS, codec}
    PROVE  /\ Effective(desired, codec) \in [Keys -> OptSpec]
           /\ \A k \in Keys : Effective(desired, codec)[k] # NoSpec =>
                                 Effective(desired, codec)[k].ns = codec
<1> SUFFICES ASSUME NEW k \in Keys
             PROVE  /\ Effective(desired, codec)[k] \in OptSpec
                    /\ Effective(desired, codec)[k] # NoSpec =>
                          Effective(desired, codec)[k].ns = codec
  BY DEF Effective
<1>1. CASE desired[k] = NoSpec
  BY <1>1, PlanAssumption DEF Effective, OptSpec
<1>2. CASE desired[k] # NoSpec
  <2>1. desired[k] \in MsmSpec
    BY <1>2 DEF OptSpec
  <2>2. [desired[k] EXCEPT !.ns = codec] \in MsmSpec
    BY <2>1 DEF MsmSpec, OptNS
  <2> QED
    BY <1>2, <2>1, <2>2 DEF Effective, OptSpec, MsmSpec
<1> QED
  BY <1>1, <1>2

\* Every change for one key is for that key; a create carries the wanted spec;
\* the others act on the recorded measurement.
LEMMA DiffKeyFacts ==
    ASSUME NEW k \in Keys, NEW want \in OptSpec, NEW rec \in OptRecord,
           NEW c \in DiffKey(k, want, rec)
    PROVE  /\ c \in Change
           /\ c.key = k
           /\ c.kind = "create" => want # NoSpec /\ c.spec = want
           /\ c.kind # "create" => rec # NoRecord /\ c.id = rec.id
<1>1. CASE want = NoSpec /\ rec = NoRecord
  BY <1>1 DEF DiffKey
<1>2. CASE want = NoSpec /\ rec # NoRecord
  BY <1>2 DEF DiffKey, StopOf, Change, OptRecord, MsmRecord
<1>3. CASE want # NoSpec /\ rec = NoRecord
  BY <1>3 DEF DiffKey, CreateOf, Change, OptSpec
<1>4. CASE want # NoSpec /\ rec # NoRecord
  <2>1. /\ want \in MsmSpec
        /\ rec \in MsmRecord
        /\ rec.id \in MsmIDs
        /\ want.probes \in SUBSET Probes
        /\ rec.probes \in SUBSET Probes
    BY <1>4 DEF OptSpec, OptRecord, MsmSpec, MsmRecord
  <2>2. \/ c \in {StopOf(k, rec.id, 1), CreateOf(k, want, 1)}
        \/ c \in ProbeChanges(k, rec, want)
    BY <1>4 DEF DiffKey
  <2>3. CASE c \in {StopOf(k, rec.id, 1), CreateOf(k, want, 1)}
    BY <1>4, <2>1, <2>3 DEF StopOf, CreateOf, Change
  <2>4. CASE c \in ProbeChanges(k, rec, want)
    BY <1>4, <2>1, <2>4 DEF ProbeChanges, ProbesOf, NoOpOf, Change
  <2> QED
    BY <2>2, <2>3, <2>4
<1> QED
  BY <1>1, <1>2, <1>3, <1>4

\* The same of Diff, and its second pass: a record nobody wants is stopped.
LEMMA DiffFacts ==
    ASSUME NEW desired \in [Keys -> OptSpec], NEW state \in StateFile
    PROVE  /\ \A c \in Diff(desired, state) :
                 /\ c \in Change
                 /\ c.kind = "create" => /\ desired[c.key] # NoSpec
                                         /\ c.spec = desired[c.key]
                 /\ c.kind # "create" => /\ state[c.key] # NoRecord
                                         /\ c.id = state[c.key].id
           /\ \A k \in Keys : desired[k] = NoSpec /\ state[k] # NoRecord =>
                 k \in Stopping(Diff(desired, state))
<1>1. ASSUME NEW c \in Diff(desired, state)
      PROVE  /\ c \in Change
             /\ c.kind = "create" => /\ desired[c.key] # NoSpec
                                     /\ c.spec = desired[c.key]
             /\ c.kind # "create" => /\ state[c.key] # NoRecord
                                     /\ c.id = state[c.key].id
  <2>1. PICK k \in Keys : c \in DiffKey(k, desired[k], state[k])
    BY DEF Diff
  <2>2. desired[k] \in OptSpec /\ state[k] \in OptRecord
    BY DEF StateFile, OptRecord
  <2> QED
    BY <2>1, <2>2, DiffKeyFacts
<1>2. ASSUME NEW k \in Keys, desired[k] = NoSpec, state[k] # NoRecord
      PROVE  k \in Stopping(Diff(desired, state))
  <2>1. StopOf(k, state[k].id, 2) \in DiffKey(k, desired[k], state[k])
    BY <1>2 DEF DiffKey
  <2>2. StopOf(k, state[k].id, 2) \in Diff(desired, state)
    BY <2>1 DEF Diff
  <2> QED
    BY <2>2 DEF Stopping, StopOf
<1> QED
  BY <1>1, <1>2

\* Apply's copy of the state is a state, and its records name the same
\* measurements with the same immutable attributes but the HTTP fields.
LEMMA CloneStateFacts ==
    ASSUME NEW state \in StateFile
    PROVE  /\ CloneState(state) \in StateFile
           /\ \A k \in Keys : CloneState(state)[k] # NoRecord =>
                 /\ state[k] # NoRecord
                 /\ CloneState(state)[k].id = state[k].id
                 /\ CloneState(state)[k].ns = state[k].ns
                 /\ CloneState(state)[k].attr = state[k].attr
                 /\ CloneState(state)[k].http = NoHttp
<1>1. ASSUME NEW k \in Keys, state[k] # NoRecord
      PROVE  /\ state[k] \in MsmRecord
             /\ CloneRecord(state[k]) \in MsmRecord
             /\ CloneRecord(state[k]).id = state[k].id
             /\ CloneRecord(state[k]).ns = state[k].ns
             /\ CloneRecord(state[k]).attr = state[k].attr
             /\ CloneRecord(state[k]).http = NoHttp
  <2>1. state[k] \in MsmRecord
    BY <1>1 DEF StateFile
  <2> QED
    BY <2>1, PlanAssumption DEF CloneRecord, MsmRecord
<1> QED
  BY <1>1, PlanAssumption DEF CloneState, StateFile

=============================================================================
