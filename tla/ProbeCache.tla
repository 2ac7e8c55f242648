----------------------------- MODULE ProbeCache -----------------------------
(***************************************************************************)
(* CachedProbeSource.Probes (pkg/snapshot/source.go) called once by each   *)
(* of several goroutines or processes on one snapshot file and one lock    *)
(* file, while "atlasctl refresh" (cmd/atlasctl/refresh.go) writes the     *)
(* same file without the lock.                                             *)
(*                                                                         *)
(* Abstractions.  A list of probes is the generation of the pool it was    *)
(* fetched from.  "by" in a snapshot is history: who wrote it.  "answer"    *)
(* is the last answer given.  A check and the unlock that follows it are   *)
(* one step.                                                               *)
(***************************************************************************)
EXTENDS Naturals

CONSTANTS
    Callers,     \* calls of CachedProbeSource.Probes
    Offline,     \* those with ProbeRefreshDisabled or without a Client
    Refreshers,  \* runs of "atlasctl refresh"
    TTL,         \* DefaultCacheTTL
    MaxTime,     \* bound on the clock
    MaxPool,     \* bound on the generations of the pool
    NoFile,      \* no snapshot file, no temporary file
    NoAnswer     \* nobody has been given probes yet

Procs == Callers \cup Refreshers

Snapshot == [v : 0..MaxPool, mtime : 0..MaxTime, by : {"cache", "refresh"}]

Answer == [to : Procs, v : 0..MaxPool]

ASSUME CacheAssumption ==
    /\ Offline \subseteq Callers
    /\ Callers \cap Refreshers = {}
    /\ TTL \in Nat /\ MaxTime \in Nat /\ MaxPool \in Nat
    /\ NoFile \notin Snapshot
    /\ NoAnswer \notin Answer

VARIABLES
    now,     \* the clock
    pool,    \* generation of the connected probes of RIPE Atlas
    file,    \* the snapshot file
    held,    \* per process: its flock on the lock file
    pc,      \* per process: where its call is
    since,   \* per process: clock and generation when its call began
    got,     \* per process: generation fetched (oldest possible, then known)
    tmp,     \* per process: temporary file of Save
    answer   \* the last probes returned, and to whom

world == <<now, pool>>
local == <<since, got, tmp>>
vars  == <<world, file, held, pc, local, answer>>

Never == [time |-> 0, pool |-> 0]

Init ==
    /\ now = 0
    /\ pool = 0
    /\ file \in {NoFile} \cup [v : {0}, mtime : {0}, by : {"cache"}]
    /\ held = [p \in Procs |-> "none"]
    /\ pc = [p \in Procs |-> "before"]
    /\ since = [p \in Procs |-> Never]
    /\ got = [p \in Procs |-> 0]
    /\ tmp = [p \in Procs |-> NoFile]
    /\ answer = NoAnswer

Tick ==
    /\ now < MaxTime
    /\ now' = now + 1
    /\ UNCHANGED <<pool, file, held, pc, local, answer>>

PoolChanges ==
    /\ pool < MaxPool
    /\ pool' = pool + 1
    /\ UNCHANGED <<now, file, held, pc, local, answer>>

-----------------------------------------------------------------------------

Goto(p, label) == pc' = [pc EXCEPT ![p] = label]

\* The call returns: nothing of its memory survives.
Return(p) ==
    /\ Goto(p, "done")
    /\ since' = [since EXCEPT ![p] = Never]
    /\ got' = [got EXCEPT ![p] = 0]
    /\ tmp' = [tmp EXCEPT ![p] = NoFile]

\* flock grants p the lock in this mode.
Grants(p, mode) ==
    \A q \in Procs \ {p} :
        held[q] = "none" \/ (mode = "shared" /\ held[q] = "shared")

FileExists == file # NoFile
IsFresh == file # NoFile /\ now <= file.mtime + TTL

\* The lock of the slow path.
SharedSlowLock == "shared"
SlowLock == "exclusive"

\* A call of Probes takes the shared lock; refresh goes straight to its fetch.
Begin(p) ==
    /\ pc[p] = "before"
    /\ Goto(p, IF p \in Callers THEN "rlock" ELSE "fetch")
    /\ since' = [since EXCEPT ![p] = [time |-> now, pool |-> pool]]
    /\ got' = [got EXCEPT ![p] = IF p \in Callers THEN 0 ELSE pool]
    /\ UNCHANGED <<world, file, held, tmp, answer>>

RLock(p) ==
    /\ pc[p] = "rlock"
    /\ Grants(p, "shared")
    /\ Goto(p, "check")
    /\ held' = [held EXCEPT ![p] = "shared"]
    /\ UNCHANGED <<world, file, local, answer>>

\* Fresh: keep the lock and load.  Otherwise unlock, and go on if the policy
\* allows a fetch.
CheckFresh(p) ==
    /\ pc[p] = "check"
    /\ IsFresh
    /\ Goto(p, "load")
    /\ UNCHANGED <<world, file, held, local, answer>>

CheckStale(p) ==
    /\ pc[p] = "check"
    /\ ~IsFresh
    /\ held' = [held EXCEPT ![p] = "none"]
    /\ \/ p \in Offline /\ Return(p)
       \/ p \notin Offline /\ Goto(p, "lock") /\ UNCHANGED local
    /\ UNCHANGED <<world, file, answer>>

Lock(p) ==
    /\ pc[p] = "lock"
    /\ Grants(p, SlowLock)
    /\ Goto(p, "recheck")
    /\ held' = [held EXCEPT ![p] = SlowLock]
    /\ UNCHANGED <<world, file, local, answer>>

\* The double check inside the slow path's lock.
NoDoubleCheck == TRUE
NeedsFetch == ~IsFresh

Recheck(p) ==
    /\ pc[p] = "recheck"
    /\ Goto(p, IF NeedsFetch THEN "fetch" ELSE "load")
    /\ got' = [got EXCEPT ![p] = IF NeedsFetch THEN pool ELSE 0]
    /\ UNCHANGED <<world, file, held, since, tmp, answer>>

\* Load reads one inode: a rename in between does not tear it.
Load(p) ==
    /\ pc[p] = "load"
    /\ Return(p)
    /\ held' = [held EXCEPT ![p] = "none"]
    /\ answer' = IF FileExists THEN [to |-> p, v |-> file.v] ELSE answer
    /\ UNCHANGED <<world, file>>

\* The pages of the answer are as old as the request or as new as its end.
FetchProbes(p) ==
    /\ pc[p] = "fetch"
    /\ Goto(p, "write")
    /\ \E v \in got[p]..pool : got' = [got EXCEPT ![p] = v]
    /\ UNCHANGED <<world, file, held, since, tmp, answer>>

\* Save: the temporary file gets its mtime when it is written ...
WriteTemp(p) ==
    /\ pc[p] = "write"
    /\ Goto(p, "rename")
    /\ tmp' = [tmp EXCEPT ![p] =
                 [v |-> got[p], mtime |-> now,
                  by |-> IF p \in Callers THEN "cache" ELSE "refresh"]]
    /\ UNCHANGED <<world, file, held, since, got, answer>>

\* ... and keeps it when renamed; the deferred unlock follows.
Rename(p) ==
    /\ pc[p] = "rename"
    /\ Return(p)
    /\ file' = tmp[p]
    /\ answer' = [to |-> p, v |-> got[p]]
    /\ held' = [held EXCEPT ![p] = "none"]
    /\ UNCHANGED world

\* What an error return leaves of the lock.
KeepLock(p) == held
ReleaseLock(p) == [held EXCEPT ![p] = "none"]

\* A lock, stat, read, fetch or write fails; the temporary file is removed.
Fails(p) ==
    /\ pc[p] \notin {"before", "done"}
    /\ Return(p)
    /\ held' = ReleaseLock(p)
    /\ UNCHANGED <<world, file, answer>>

\* The process dies: the kernel drops its lock, a temporary file stays behind
\* under a name nobody reads.
Crash(p) ==
    /\ pc[p] \notin {"before", "done"}
    /\ Return(p)
    /\ held' = [held EXCEPT ![p] = "none"]
    /\ UNCHANGED <<world, file, answer>>

-----------------------------------------------------------------------------

Step(p) ==
    \/ RLock(p) \/ CheckFresh(p) \/ CheckStale(p)
    \/ Lock(p) \/ Recheck(p) \/ Load(p)
    \/ FetchProbes(p) \/ WriteTemp(p) \/ Rename(p)

Next ==
    \/ Tick
    \/ PoolChanges
    \/ \E p \in Procs : Begin(p) \/ Step(p) \/ Fails(p) \/ Crash(p)

Spec == Init /\ [][Next]_vars

\* A call that has begun goes on: flock grants a free lock, a request to RIPE
\* Atlas ends.
FairSpec == Spec /\ \A p \in Procs : WF_vars(Step(p))

-----------------------------------------------------------------------------

Labels == {"before", "rlock", "check", "lock", "recheck", "load", "fetch",
           "write", "rename", "done"}

Fetching == {p \in Callers : pc[p] \in {"fetch", "write", "rename"}}

\* Types of the variables; a lock is held exactly between the calls that take
\* it and those that release it, on every path out of Probes.
TypeOK ==
    /\ now \in 0..MaxTime
    /\ pool \in 0..MaxPool
    /\ file \in Snapshot \cup {NoFile}
    /\ held \in [Procs -> {"none", "shared", "exclusive"}]
    /\ pc \in [Procs -> Labels]
    /\ since \in [Procs -> [time : 0..MaxTime, pool : 0..MaxPool]]
    /\ got \in [Procs -> 0..MaxPool]
    /\ tmp \in [Procs -> Snapshot \cup {NoFile}]
    /\ answer \in Answer \cup {NoAnswer}
    /\ \A p \in Callers :
          /\ pc[p] \in {"before", "rlock", "lock", "done"} => held[p] = "none"
          /\ pc[p] = "check" => held[p] = "shared"
          /\ pc[p] = "load" => held[p] # "none"
          /\ pc[p] \in {"recheck", "fetch", "write", "rename"}
                => held[p] = "exclusive"

\* "Only one writer ever hits the API at a time regardless of how many callers
\* race" (comment of CachedProbeSource): from its fetch to its rename a caller
\* of Probes is alone with the lock.
OneWriter ==
    \A p \in Fetching, q \in Callers : q # p => held[q] = "none"

\* The callers that lose the race coalesce onto the winner's snapshot (comment
\* of Probes): nobody fetches while the snapshot is fresh, unless refresh has
\* just put it there.
NoNeedlessFetch ==
    Fetching # {} => ~IsFresh \/ file.by = "refresh"

\* Between its begin and its return a call is merely asked.
Call ==
    [p \in Procs |-> IF pc[p] \in {"before", "done"} THEN pc[p] ELSE "asked"]

Promise == INSTANCE ReadThrough WITH call <- Call

\* The cache does what ReadThrough promises: every answer comes from a snapshot
\* that was fresh during the call, or from a fetch that was needed.

ReadsThrough == Promise!Spec

\* Every call returns, however callers race, fail or die.
EveryCallReturns == \A p \in Callers : pc[p] = "rlock" ~> pc[p] = "done"

=============================================================================
