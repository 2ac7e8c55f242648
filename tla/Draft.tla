-------------------------------- MODULE Draft --------------------------------
(***************************************************************************)
(* What probe selection promises: cohort after cohort, each is given its   *)
(* pins and then the probes that deserve its other slots, where a probe    *)
(* deserves one if no probe before it in the order can be blamed for       *)
(* having used up the slots or the cell.  There is no loop over probes, no *)
(* occupancy count and no cache here: Selection implements this.           *)
(***************************************************************************)
EXTENDS Scoring, Configuration

CONSTANTS
    Cfgs,           \* cohort configurations that occur in a file
    Files,          \* configuration files
    Pools,          \* snapshots: sets of probes
    Orderer(_, _),  \* ProbeOrderer: the order of a pool for a configuration
    OrderKey(_),    \* the key under which it is cached
    NoConfig        \* nothing loaded

VARIABLES file, config, pool, phase, m, j, results, previous

draftVars == <<file, config, pool, phase, m, j, results, previous>>

-----------------------------------------------------------------------------

\* Probes that earlier cohorts of measurement n have.
TakenBy(rs, n) == UNION {Chosen(config, r) : r \in {s \in rs : s.m = n}}

\* The first slots go to pinned probes that exist, in the order of the list
\* and however often it names them.
FirstPins(c) ==
    LET present == {i \in DOMAIN c.include : c.include[i] \in pool}
    IN  {i \in present : Cardinality({k \in present : k < i}) < c.count}

\* Pins aside, whom the cohort may not have.
Barred(c, taken, pins) ==
    taken \cup c.exclude \cup {c.include[i] : i \in pins}
          \cup {p \in pool : HardExcluded(p, c.cfg.excludeTags)}

Capacity(c, cell) == CellCapacity(c.perCell, CellCoef(pool, cell, c.cfg))

\* Those of S before position i.
Ahead(order, i, S) == {p \in S : \E k \in 1..(i - 1) : order[k] = p}

InCell(S, cell, cfg) == {p \in S : CellOf(p, cfg) = cell}

\* The candidate at position i finds a slot, and room in its cell.
Deserves(c, order, i, room, S) ==
    LET ahead == Ahead(order, i, S)
        cell  == CellOf(order[i], c.cfg)
    IN  /\ Cardinality(ahead) < room
        /\ ~(Cardinality(InCell(ahead, cell, c.cfg)) >= Capacity(c, cell))

Fair(c, taken, pins, S, order) ==
    /\ S \subseteq pool
    /\ \A i \in DOMAIN order :
         order[i] \in S <=>
            /\ order[i] \notin Barred(c, taken, pins)
            /\ Deserves(c, order, i, c.count - Cardinality(pins), S)

\* The order may be that of any configuration with the same key.
Justified(r) ==
    LET c == CohortAt(config, r.m, r.j) IN
    /\ r.pins = FirstPins(c)
    /\ \E like \in {d \in Cfgs : OrderKey(d) = OrderKey(c.cfg)} :
          Fair(c, TakenBy(results, r.m), r.pins, r.filled, Orderer(pool, like))

-----------------------------------------------------------------------------

DraftInit ==
    /\ file \in Files
    /\ pool \in Pools
    /\ config = NoConfig
    /\ phase = "load"
    /\ m = 1 /\ j = 1
    /\ results = {}
    /\ previous = {}

Configure ==
    /\ phase = "load"
    /\ config' = ApplyDefaults(file)
    /\ phase' = IF ~Valid(config') THEN "refused"
                ELSE IF config'.measurements = <<>> THEN "done" ELSE "running"
    /\ UNCHANGED <<file, pool, m, j, results, previous>>

Advance ==
    IF j < LastCohort(config, m)
    THEN j' = j + 1 /\ UNCHANGED <<m, phase>>
    ELSE /\ j' = 1
         /\ m' = m + 1
         /\ phase' = IF m < Len(config.measurements) THEN phase ELSE "done"

FillCohort ==
    /\ phase = "running"
    /\ \E filled \in SUBSET pool :
         LET r == [m |-> m, j |-> j, filled |-> filled,
                   pins |-> FirstPins(CohortAt(config, m, j))]
         IN  /\ results' = results \cup {r}
             /\ Justified(r)
    /\ Advance
    /\ UNCHANGED <<file, config, pool, previous>>

\* Nothing is returned of a selection that is interrupted.
Interrupt ==
    /\ phase = "running"
    /\ phase' = "cancelled"
    /\ results' = {}
    /\ UNCHANGED <<file, config, pool, m, j, previous>>

\* The next invocation finds a snapshot with one probe less.
Redo ==
    /\ phase = "done"
    /\ previous = {}
    /\ \E x \in pool : pool' = pool \ {x}
    /\ previous' = results
    /\ results' = {}
    /\ m' = 1 /\ j' = 1
    /\ config' = NoConfig
    /\ phase' = "load"
    /\ UNCHANGED file

DraftNext == Configure \/ FillCohort \/ Interrupt \/ Redo

DraftSpec == DraftInit /\ [][DraftNext]_draftVars

=============================================================================
