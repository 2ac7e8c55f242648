----------------------------- MODULE ReadThrough -----------------------------
(***************************************************************************)
(* What the probe cache promises its callers (comments of                  *)
(* CachedProbeSource, pkg/snapshot/source.go), without locks, temporary    *)
(* files or the order in which things are done: a call is answered from a  *)
(* snapshot that was fresh at some moment of the call, or fetches one      *)
(* itself, and then only if the snapshot is absent or stale.  "atlasctl    *)
(* refresh" replaces the snapshot whenever it likes.                       *)
(***************************************************************************)
EXTENDS Naturals

CONSTANTS Callers, Offline, Refreshers, TTL, MaxTime, MaxPool, NoFile, NoAnswer

VARIABLES
    now,     \* the clock
    pool,    \* generation of the connected probes of RIPE Atlas
    file,    \* the snapshot
    call,    \* per process: where its call is
    since,   \* per process: clock and generation when it began
    answer   \* the last generation given, and to whom

Procs == Callers \cup Refreshers

vars == <<now, pool, file, call, since, answer>>

ByRefresh == file # NoFile /\ file.by = "refresh"

Never == [time |-> 0, pool |-> 0]

Stale == file # NoFile => now > file.mtime + TTL

Init ==
    /\ now = 0
    /\ pool = 0
    /\ file \in {NoFile} \cup [v : {0}, mtime : {0}, by : {"cache"}]
    /\ call = [p \in Procs |-> "before"]
    /\ since = [p \in Procs |-> Never]
    /\ answer = NoAnswer

Tick ==
    /\ now < MaxTime
    /\ now' = now + 1
    /\ UNCHANGED <<pool, file, call, since, answer>>

PoolChanges ==
    /\ pool < MaxPool
    /\ pool' = pool + 1
    /\ UNCHANGED <<now, file, call, since, answer>>

Ask(p) ==
    /\ call[p] = "before"
    /\ call' = [call EXCEPT ![p] = "asked"]
    /\ since' = [since EXCEPT ![p] = [time |-> now, pool |-> pool]]
    /\ UNCHANGED <<now, pool, file, answer>>

Return(p) ==
    /\ call[p] = "asked"
    /\ call' = [call EXCEPT ![p] = "done"]
    /\ since' = [since EXCEPT ![p] = Never]

\* Answered from the snapshot, which was fresh when the call began or later.
Hit(p) ==
    /\ Return(p)
    /\ file # NoFile
    /\ ByRefresh \/ since[p].time <= file.mtime + TTL
    /\ answer' = [to |-> p, v |-> file.v]
    /\ UNCHANGED <<now, pool, file>>

Newer(p) ==
    [v : since[p].pool..pool, mtime : since[p].time..now,
     by : {IF p \in Callers THEN "cache" ELSE "refresh"}]

\* Answered from a fetch of its own, which replaces the snapshot.
Miss(p) ==
    /\ Return(p)
    /\ p \in Callers => p \notin Offline /\ (Stale \/ ByRefresh)
    /\ file' \in Newer(p)
    /\ answer' = [to |-> p, v |-> file'.v]
    /\ UNCHANGED <<now, pool>>

Fail(p) ==
    /\ Return(p)
    /\ UNCHANGED <<now, pool, file, answer>>

Next ==
    \/ Tick
    \/ PoolChanges
    \/ \E p \in Procs : Ask(p) \/ Miss(p) \/ Fail(p)
    \/ \E p \in Callers : Hit(p)

Spec == Init /\ [][Next]_vars

=============================================================================
