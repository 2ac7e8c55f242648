-------------------------- MODULE ProbeCacheProofs --------------------------
(***************************************************************************)
(* Invariants of ProbeCache, and that it implements ReadThrough, for any   *)
(* number of callers and refreshers and any time to live.                  *)
(***************************************************************************)
EXTENDS ProbeCache, TLAPS

-----------------------------------------------------------------------------
(* The inductive invariant.                                                 *)

\* The lock excludes, and refresh never takes it.
LockExcludes ==
    /\ \A p, q \in Procs : held[p] = "exclusive" /\ q # p => held[q] = "none"
    /\ \A r \in Refreshers : held[r] = "none"

\* Refresh does nothing but fetch and save; a caller without a client stops
\* before that.
Roles ==
    /\ \A r \in Refreshers :
          pc[r] \in {"before", "fetch", "write", "rename", "done"}
    /\ \A o \in Offline :
          pc[o] \in {"before", "rlock", "check", "load", "done"}

\* A call about to load was told that the file is fresh when it had begun.
LoadsFresh ==
    \A p \in Callers : pc[p] = "load" =>
        /\ file # NoFile
        /\ file.by = "refresh" \/ since[p].time <= file.mtime + TTL

\* What a process is about to save is not older than its call.
SavesNew ==
    \A p \in Procs :
        /\ since[p].time <= now
        /\ since[p].pool <= pool
        /\ pc[p] \in {"fetch", "write", "rename"} =>
              got[p] \in since[p].pool..pool
        /\ pc[p] = "rename" =>
              tmp[p] \in [v : {got[p]}, mtime : since[p].time..now,
                          by : {IF p \in Callers THEN "cache" ELSE "refresh"}]

IInv ==
    /\ TypeOK
    /\ LockExcludes
    /\ Roles
    /\ NoNeedlessFetch
    /\ LoadsFresh
    /\ SavesNew

\* It holds initially.
LEMMA InitIInv == Init => IInv
<1> SUFFICES ASSUME Init PROVE IInv
  OBVIOUS
<1> USE CacheAssumption DEF Init, Procs, Never
<1>1. TypeOK
  BY DEF TypeOK, Snapshot, Answer, Labels
<1>2. LockExcludes /\ Roles
  BY DEF LockExcludes, Roles
<1>3. NoNeedlessFetch
  BY DEF NoNeedlessFetch, Fetching
<1>4. LoadsFresh /\ SavesNew
  BY DEF LoadsFresh, SavesNew
<1> QED
  BY <1>1, <1>2, <1>3, <1>4 DEF IInv

\* Every step preserves the invariant.
LEMMA NextIInv == IInv /\ [Next]_vars => IInv'
<1> SUFFICES ASSUME IInv, [Next]_vars PROVE IInv'
  OBVIOUS
<1> USE CacheAssumption DEF IInv, Procs, world, local, Goto, Return, Never
<1>1. CASE UNCHANGED vars
  BY <1>1 DEF vars, TypeOK, LockExcludes, Roles, NoNeedlessFetch, Fetching, IsFresh, LoadsFresh, SavesNew
<1>2. CASE Tick
  BY <1>2 DEF Tick, TypeOK, LockExcludes, Roles, NoNeedlessFetch, Fetching, IsFresh, LoadsFresh, SavesNew, Snapshot
<1>3. CASE PoolChanges
  BY <1>3 DEF PoolChanges, TypeOK, LockExcludes, Roles, NoNeedlessFetch, Fetching, IsFresh, LoadsFresh, SavesNew, Snapshot
<1>4. ASSUME NEW p \in Procs, Begin(p) PROVE IInv'
  <2> USE <1>4 DEF Begin
  <2>1. TypeOK'
    BY DEF TypeOK, Labels, Snapshot, Answer
  <2>2. LockExcludes'
    BY DEF LockExcludes, TypeOK
  <2>3. Roles'
    BY DEF Roles, TypeOK
  <2>4. NoNeedlessFetch'
    BY DEF NoNeedlessFetch, Fetching, IsFresh, TypeOK
  <2>5. LoadsFresh'
    BY DEF LoadsFresh, TypeOK
  <2>6. SavesNew'
    BY DEF SavesNew, TypeOK, Snapshot
  <2> QED
    BY <2>1, <2>2, <2>3, <2>4, <2>5, <2>6
<1>5. ASSUME NEW p \in Procs, RLock(p) PROVE IInv'
  <2> USE <1>5 DEF RLock
  <2>1. TypeOK'
    BY DEF TypeOK, Labels, Snapshot, Answer
  <2>2. LockExcludes'
    BY DEF LockExcludes, TypeOK, Grants, Roles
  <2>3. Roles'
    BY DEF Roles, TypeOK
  <2>4. NoNeedlessFetch'
    BY DEF NoNeedlessFetch, Fetching, IsFresh, TypeOK
  <2>5. LoadsFresh'
    BY DEF LoadsFresh, TypeOK
  <2>6. SavesNew'
    BY DEF SavesNew, TypeOK, Snapshot
  <2> QED
    BY <2>1, <2>2, <2>3, <2>4, <2>5, <2>6
<1>6. ASSUME NEW p \in Procs, CheckFresh(p) PROVE IInv'
  <2> USE <1>6 DEF CheckFresh
  <2>1. TypeOK'
    BY DEF TypeOK, Labels, Snapshot, Answer
  <2>2. LockExcludes'
    BY DEF LockExcludes, TypeOK
  <2>3. Roles'
    BY DEF Roles, TypeOK
  <2>4. NoNeedlessFetch'
    BY DEF NoNeedlessFetch, Fetching, IsFresh, TypeOK
  <2>5. LoadsFresh'
    BY DEF LoadsFresh, TypeOK, IsFresh, SavesNew, Snapshot
  <2>6. SavesNew'
    BY DEF SavesNew, TypeOK, Snapshot
  <2> QED
    BY <2>1, <2>2, <2>3, <2>4, <2>5, <2>6
<1>7. ASSUME NEW p \in Procs, CheckStale(p) PROVE IInv'
  <2> USE <1>7 DEF CheckStale
  <2>1. TypeOK'
    BY DEF TypeOK, Labels, Snapshot, Answer
  <2>2. LockExcludes'
    BY DEF LockExcludes, TypeOK
  <2>3. Roles'
    BY DEF Roles, TypeOK
  <2>4. NoNeedlessFetch'
    BY DEF NoNeedlessFetch, Fetching, IsFresh, TypeOK
  <2>5. LoadsFresh'
    BY DEF LoadsFresh, TypeOK
  <2>6. SavesNew'
    BY DEF SavesNew, TypeOK, Snapshot
  <2> QED
    BY <2>1, <2>2, <2>3, <2>4, <2>5, <2>6
<1>8. ASSUME NEW p \in Procs, Lock(p) PROVE IInv'
  <2> USE <1>8 DEF Lock
  <2>1. TypeOK'
    BY DEF TypeOK, Labels, Snapshot, Answer, SlowLock
  <2>2. LockExcludes'
    BY DEF LockExcludes, TypeOK, SlowLock, Grants, Roles
  <2>3. Roles'
    BY DEF Roles, TypeOK, SlowLock
  <2>4. NoNeedlessFetch'
    BY DEF NoNeedlessFetch, Fetching, IsFresh, TypeOK, SlowLock
  <2>5. LoadsFresh'
    BY DEF LoadsFresh, TypeOK, SlowLock
  <2>6. SavesNew'
    BY DEF SavesNew, TypeOK, Snapshot, SlowLock
  <2> QED
    BY <2>1, <2>2, <2>3, <2>4, <2>5, <2>6
<1>9. ASSUME NEW p \in Procs, Recheck(p) PROVE IInv'
  <2> USE <1>9 DEF Recheck
  <2>1. TypeOK'
    BY DEF TypeOK, Labels, Snapshot, Answer, NeedsFetch
  <2>2. LockExcludes'
    BY DEF LockExcludes, TypeOK
  <2>3. Roles'
    BY DEF Roles, TypeOK
  <2>4. NoNeedlessFetch'
    BY DEF NoNeedlessFetch, Fetching, IsFresh, TypeOK, NeedsFetch
  <2>5. LoadsFresh'
    BY DEF LoadsFresh, TypeOK, IsFresh, SavesNew, Snapshot, NeedsFetch
  <2>6. SavesNew'
    BY DEF SavesNew, TypeOK, Snapshot, NeedsFetch
  <2> QED
    BY <2>1, <2>2, <2>3, <2>4, <2>5, <2>6
<1>10. ASSUME NEW p \in Procs, Load(p) PROVE IInv'
  <2> USE <1>10 DEF Load
  <2>1. TypeOK'
    BY DEF TypeOK, Labels, Snapshot, Answer, FileExists
  <2>2. LockExcludes'
    BY DEF LockExcludes, TypeOK, FileExists
  <2>3. Roles'
    BY DEF Roles, TypeOK, FileExists
  <2>4. NoNeedlessFetch'
    BY DEF NoNeedlessFetch, Fetching, IsFresh, TypeOK, FileExists
  <2>5. LoadsFresh'
    BY DEF LoadsFresh, TypeOK, FileExists
  <2>6. SavesNew'
    BY DEF SavesNew, TypeOK, Snapshot, FileExists
  <2> QED
    BY <2>1, <2>2, <2>3, <2>4, <2>5, <2>6
<1>11. ASSUME NEW p \in Procs, FetchProbes(p) PROVE IInv'
  <2> USE <1>11 DEF FetchProbes
  <2>1. TypeOK'
    BY DEF TypeOK, Labels, Snapshot, Answer
  <2>2. LockExcludes'
    BY DEF LockExcludes, TypeOK
  <2>3. Roles'
    BY DEF Roles, TypeOK
  <2>4. NoNeedlessFetch'
    BY DEF NoNeedlessFetch, Fetching, IsFresh, TypeOK
  <2>5. LoadsFresh'
    BY DEF LoadsFresh, TypeOK
  <2>6. SavesNew'
    BY DEF SavesNew, TypeOK, Snapshot
  <2> QED
    BY <2>1, <2>2, <2>3, <2>4, <2>5, <2>6
<1>12. ASSUME NEW p \in Procs, WriteTemp(p) PROVE IInv'
  <2> USE <1>12 DEF WriteTemp
  <2>1. TypeOK'
    BY DEF TypeOK, Labels, Snapshot, Answer
  <2>2. LockExcludes'
    BY DEF LockExcludes, TypeOK
  <2>3. Roles'
    BY DEF Roles, TypeOK
  <2>4. NoNeedlessFetch'
    BY DEF NoNeedlessFetch, Fetching, IsFresh, TypeOK
  <2>5. LoadsFresh'
    BY DEF LoadsFresh, TypeOK
  <2>6. SavesNew'
    BY DEF SavesNew, TypeOK, Snapshot
  <2> QED
    BY <2>1, <2>2, <2>3, <2>4, <2>5, <2>6
<1>13. ASSUME NEW p \in Procs, Rename(p) PROVE IInv'
  <2> USE <1>13 DEF Rename
  <2>1. TypeOK'
    BY DEF TypeOK, Labels, Snapshot, Answer
  <2>2. LockExcludes'
    BY DEF LockExcludes, TypeOK
  <2>3. Roles'
    BY DEF Roles, TypeOK
  <2>4. NoNeedlessFetch'
    <3>1. CASE p \in Callers
      <4>1. held[p] = "exclusive"
        BY <3>1 DEF TypeOK
      <4>2. \A q \in Callers : q # p => held[q] = "none"
        BY <4>1 DEF LockExcludes
      <4>3. Fetching' = {}
        BY <4>2, <3>1 DEF TypeOK, Fetching
      <4> QED
        BY <4>3 DEF NoNeedlessFetch
    <3>2. CASE p \in Refreshers
      BY <3>2 DEF SavesNew, NoNeedlessFetch
    <3> QED
      BY <3>1, <3>2
  <2>5. LoadsFresh'
    <3>1. CASE p \in Callers
      <4>1. held[p] = "exclusive"
        BY <3>1 DEF TypeOK
      <4>2. \A q \in Callers : q # p => held[q] = "none"
        BY <4>1 DEF LockExcludes
      <4>3. \A q \in Callers : pc'[q] # "load"
        BY <4>2, <3>1 DEF TypeOK
      <4> QED
        BY <4>3 DEF LoadsFresh
    <3>2. CASE p \in Refreshers
      <4>1. tmp[p] # NoFile /\ tmp[p].by = "refresh"
        BY <3>2 DEF SavesNew, TypeOK, Snapshot
      <4> QED
        BY <4>1, <3>2 DEF LoadsFresh, TypeOK
    <3> QED
      BY <3>1, <3>2
  <2>6. SavesNew'
    BY DEF SavesNew, TypeOK, Snapshot
  <2> QED
    BY <2>1, <2>2, <2>3, <2>4, <2>5, <2>6
<1>14. ASSUME NEW p \in Procs, Fails(p) PROVE IInv'
  <2> USE <1>14 DEF Fails
  <2>1. TypeOK'
    BY DEF TypeOK, Labels, Snapshot, Answer, ReleaseLock
  <2>2. LockExcludes'
    BY DEF LockExcludes, TypeOK, ReleaseLock
  <2>3. Roles'
    BY DEF Roles, TypeOK, ReleaseLock
  <2>4. NoNeedlessFetch'
    BY DEF NoNeedlessFetch, Fetching, IsFresh, TypeOK, ReleaseLock
  <2>5. LoadsFresh'
    BY DEF LoadsFresh, TypeOK, ReleaseLock
  <2>6. SavesNew'
    BY DEF SavesNew, TypeOK, Snapshot, ReleaseLock
  <2> QED
    BY <2>1, <2>2, <2>3, <2>4, <2>5, <2>6
<1>15. ASSUME NEW p \in Procs, Crash(p) PROVE IInv'
  <2> USE <1>15 DEF Crash
  <2>1. TypeOK'
    BY DEF TypeOK, Labels, Snapshot, Answer
  <2>2. LockExcludes'
    BY DEF LockExcludes, TypeOK
  <2>3. Roles'
    BY DEF Roles, TypeOK
  <2>4. NoNeedlessFetch'
    BY DEF NoNeedlessFetch, Fetching, IsFresh, TypeOK
  <2>5. LoadsFresh'
    BY DEF LoadsFresh, TypeOK
  <2>6. SavesNew'
    BY DEF SavesNew, TypeOK, Snapshot
  <2> QED
    BY <2>1, <2>2, <2>3, <2>4, <2>5, <2>6
<1> QED
  BY <1>1, <1>2, <1>3, <1>4, <1>5, <1>6, <1>7, <1>8, <1>9, <1>10, <1>11, <1>12, <1>13, <1>14, <1>15 DEF Next, Step

\* The inductive invariant holds in every reachable state.
THEOREM SpecIInv == Spec => []IInv
  BY InitIInv, NextIInv, PTL DEF Spec

\* The variables have their types and no path out of Probes forgets its lock.
THEOREM SpecTypeOK == Spec => []TypeOK
  BY SpecIInv, PTL DEF IInv

\* From its fetch to its rename a caller of Probes is alone with the lock,
\* however many callers race.
THEOREM SpecOneWriter == Spec => []OneWriter
<1>1. IInv => OneWriter
  BY DEF IInv, TypeOK, LockExcludes, OneWriter, Fetching, Procs
<1> QED
  BY <1>1, SpecIInv, PTL

\* No caller of Probes fetches while the snapshot is fresh, unless refresh has
\* just put it there.
THEOREM SpecNoNeedlessFetch == Spec => []NoNeedlessFetch
  BY SpecIInv, PTL DEF IInv

-----------------------------------------------------------------------------
(* ProbeCache implements ReadThrough.                                       *)

\* Initial states are initial states of the promise.
LEMMA InitPromise == Init => Promise!Init
  BY DEF Init, Promise!Init, Promise!Procs, Procs, Never, Promise!Never, Call

\* Steps inside a call are invisible.
LEMMA Inside ==
    ASSUME TypeOK, NEW p \in Procs, NEW label,
           pc[p] \notin {"before", "done"}, label \notin {"before", "done"},
           Goto(p, label)
    PROVE  Call' = Call
  BY DEF TypeOK, Goto, Call

\* A return of the cache is a return of its promise.
LEMMA Returns ==
    ASSUME TypeOK, NEW p \in Procs, pc[p] \notin {"before", "done"}, Return(p)
    PROVE  Promise!Return(p)
  BY DEF TypeOK, Return, Goto, Call, Promise!Return, Never, Promise!Never

\* Every step is a step of the promise or is invisible to it.
LEMMA NextPromise == IInv /\ [Next]_vars => [Promise!Next]_Promise!vars
<1> SUFFICES ASSUME IInv, [Next]_vars PROVE [Promise!Next]_Promise!vars
  OBVIOUS
<1> USE CacheAssumption DEF IInv, Procs, Promise!Procs, world, local
<1>1. CASE UNCHANGED vars
  BY <1>1 DEF vars, Promise!vars, Call
<1>2. CASE Tick
  BY <1>2 DEF Tick, Promise!Next, Promise!Tick, Call
<1>3. CASE PoolChanges
  BY <1>3 DEF PoolChanges, Promise!Next, Promise!PoolChanges, Call
<1>4. ASSUME NEW p \in Procs, Begin(p) PROVE Promise!Next
  <2>1. Promise!Ask(p)
    BY <1>4 DEF Begin, Goto, TypeOK, Call, Promise!Ask
  <2> QED
    BY <2>1 DEF Promise!Next
<1>5. ASSUME NEW p \in Procs,
             RLock(p) \/ CheckFresh(p) \/ Lock(p) \/ Recheck(p)
               \/ FetchProbes(p) \/ WriteTemp(p)
      PROVE  UNCHANGED Promise!vars
  <2>1. Call' = Call
    BY <1>5, Inside
    DEF RLock, CheckFresh, Lock, Recheck, FetchProbes, WriteTemp
  <2> QED
    BY <1>5, <2>1
    DEF RLock, CheckFresh, Lock, Recheck, FetchProbes, WriteTemp, Promise!vars
<1>6. ASSUME NEW p \in Procs, CheckStale(p) PROVE [Promise!Next]_Promise!vars
  <2>1. CASE p \in Offline /\ Return(p)
    <3>1. Promise!Fail(p)
      BY <1>6, <2>1, Returns DEF CheckStale, Promise!Fail
    <3> QED
      BY <3>1 DEF Promise!Next
  <2>2. CASE Goto(p, "lock") /\ UNCHANGED local
    <3>1. Call' = Call
      BY <1>6, <2>2, Inside DEF CheckStale
    <3> QED
      BY <1>6, <2>2, <3>1 DEF CheckStale, Promise!vars
  <2> QED
    BY <1>6, <2>1, <2>2 DEF CheckStale
<1>7. ASSUME NEW p \in Procs, Load(p) PROVE Promise!Next
  <2>1. p \in Callers
    BY <1>7 DEF Load, Roles
  <2>2. file # NoFile /\ (file.by = "refresh" \/ since[p].time <= file.mtime + TTL)
    BY <1>7, <2>1 DEF Load, LoadsFresh
  <2>3. Promise!Return(p)
    BY <1>7, Returns DEF Load
  <2>4. Promise!Hit(p)
    BY <1>7, <2>2, <2>3 DEF Load, FileExists, Promise!Hit, Promise!ByRefresh
  <2> QED
    BY <2>1, <2>4 DEF Promise!Next
<1>8. ASSUME NEW p \in Procs, Rename(p) PROVE Promise!Next
  <2>1. Promise!Return(p)
    BY <1>8, Returns DEF Rename
  <2>2. p \in Callers => p \notin Offline /\ (Promise!Stale \/ Promise!ByRefresh)
    <3>1. p \notin Offline
      BY <1>8 DEF Rename, Roles
    <3>2. ASSUME p \in Callers PROVE Promise!Stale \/ Promise!ByRefresh
      <4>1. ~IsFresh \/ (file # NoFile /\ file.by = "refresh")
        BY <1>8, <3>2 DEF Rename, NoNeedlessFetch, Fetching, IsFresh
      <4> QED
        BY <4>1 DEF IsFresh, Promise!Stale, Promise!ByRefresh, TypeOK, Snapshot
    <3> QED
      BY <3>1, <3>2
  <2>3. file' \in Promise!Newer(p) /\ file'.v = got[p]
    BY <1>8 DEF Rename, SavesNew, TypeOK, Promise!Newer
  <2>4. Promise!Miss(p)
    BY <1>8, <2>1, <2>2, <2>3 DEF Rename, Promise!Miss
  <2> QED
    BY <2>4 DEF Promise!Next
<1>9. ASSUME NEW p \in Procs, Fails(p) \/ Crash(p) PROVE Promise!Next
  <2>1. Promise!Fail(p)
    BY <1>9, Returns DEF Fails, Crash, Promise!Fail
  <2> QED
    BY <2>1 DEF Promise!Next
<1> QED
  BY <1>1, <1>2, <1>3, <1>4, <1>5, <1>6, <1>7, <1>8, <1>9 DEF Next, Step

\* Every behaviour of the cache is one its promise allows: an answer comes from
\* a snapshot that was fresh during the call or from a fetch of its own, and
\* only a caller that may and must fetch does.
THEOREM SpecReadsThrough == Spec => ReadsThrough
  BY SpecIInv, InitPromise, NextPromise, PTL DEF Spec, ReadsThrough, Promise!Spec

=============================================================================
