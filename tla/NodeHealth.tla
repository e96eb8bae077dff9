---------------------------- MODULE NodeHealth ----------------------------
(***************************************************************************)
(* The run-time health of the nodes of one named pool of pool.Manager      *)
(* (internal/pool/health.go, manager.go).  The objects of the Go heap that *)
(* goroutines hold pointers to are kept apart:                             *)
(*   - a Pool object is built by every LoadFromFile; `current` is the one  *)
(*     m.pools names, the older ones stay reachable from goroutines that   *)
(*     took the pointer before the swap;                                   *)
(*   - an entry slice (Pool.Entries) is built by a load or by a successful *)
(*     subscription refresh; a probe keeps a pointer to an entry of the    *)
(*     slice it was started on.                                            *)
(* The health checker, manual node tests, proxied requests that give a     *)
(* node up, Admin switches, subscription refreshes and reloads interleave. *)
(***************************************************************************)
EXTENDS Naturals

CONSTANTS
    Nodes,          \* node names the pool may list
    Direct,         \* those whose type is "direct"
    Subscription,   \* TRUE: source "subscription", FALSE: source "static"
    Configs,        \* pool configurations a reload may find in the file
    MaxFails,       \* values the run-time default max_fail may take
    DefaultMaxFail, \* defaultHealthCheckMaxFail
    Loaders,        \* concurrent callers of LoadFromFile
    Testers,        \* Admin requests that may be testing a node
    Round,          \* the health checker's round, as the owner of a probe
    MaxPools,       \* bound: Pool objects built
    MaxSlices,      \* bound: entry slices built
    MaxCount        \* bound: FailCount a proxied failure may still raise

ASSUME NodesAssumption   == Direct \subseteq Nodes
ASSUME SourceAssumption  == Subscription \in BOOLEAN
ASSUME ConfigsAssumption == /\ Configs # {}
                            /\ Configs \subseteq [on : BOOLEAN, maxFail : Nat]
ASSUME LimitsAssumption  == /\ MaxFails \subseteq Nat \ {0}
                            /\ DefaultMaxFail \in MaxFails
ASSUME TestersAssumption == Round \notin Testers
ASSUME BoundsAssumption  == /\ MaxPools \in Nat \ {0}
                            /\ MaxSlices \in Nat \ {0}
                            /\ MaxCount \in Nat

VARIABLES
    pools,          \* Pool objects: their configuration and their slice
    slices,         \* entry slices: the NodeEntry of every node
    nPools,         \* Pool objects 1..nPools exist
    nSlices,        \* slices 1..nSlices exist
    published,      \* Pool objects that are or were in m.pools
    current,        \* the Pool object m.pools names now
    loads,          \* what every LoadFromFile in progress holds
    probes,         \* connectivity probes in flight
    roundLimit,     \* options.MaxFail of the checker's round
    defaultMaxFail, \* hc.maxFail
    up              \* environment: nodes that let a probe through

vars == <<pools, slices, nPools, nSlices, published, current, loads,
          probes, roundLimit, defaultMaxFail, up>>

PoolId  == 1 .. MaxPools
SliceId == 1 .. MaxSlices

Entry == [present : BOOLEAN, enabled : BOOLEAN, alive : BOOLEAN,
          fails : Nat, marked : BOOLEAN]

Pool == [cfg : Configs, slice : SliceId]

Load == [stage : {"idle", "reading", "built"}, cfg : Configs,
         old : PoolId, new : PoolId]

Probe == [by : {Round} \cup Testers, pool : PoolId, slice : SliceId,
          node : Nodes, answer : {"none", "ok", "error"}]

\* Every max_fail that some update of FailCount may compare it with.
Limits == MaxFails \cup ({c.maxFail : c \in Configs} \ {0})

TypeOK ==
    /\ pools \in [PoolId -> Pool]
    /\ slices \in [SliceId -> [Nodes -> Entry]]
    /\ nPools \in PoolId
    /\ nSlices \in SliceId
    /\ published \subseteq PoolId
    /\ current \in published
    /\ loads \in [Loaders -> Load]
    /\ probes \subseteq Probe
    /\ roundLimit \in Limits
    /\ defaultMaxFail \in MaxFails
    /\ up \subseteq Nodes

-----------------------------------------------------------------------------
(* Entries                                                                 *)

Absent == [present |-> FALSE, enabled |-> FALSE, alive |-> FALSE,
           fails |-> 0, marked |-> FALSE]

\* newNodeEntry: alive, no failure.  Which nodes are enabled comes from the
\* file and the nodes' own switches (isNodeEnabled): an input here.
NewNodeEntry(on) == [present |-> TRUE, enabled |-> on, alive |-> TRUE,
                     fails |-> 0, marked |-> FALSE]

BuildEntries(ns, enabled) ==
    [n \in Nodes |-> IF n \in ns THEN NewNodeEntry(n \in enabled) ELSE Absent]

\* The entries a load keeps when its fetch failed: the listed nodes and the
\* health of the previous slice.
PreserveEntries(old, enabled) ==
    [n \in Nodes |->
        IF old[n].present
        THEN [NewNodeEntry(n \in enabled) EXCEPT !.alive  = old[n].alive,
                                                 !.fails  = old[n].fails,
                                                 !.marked = old[n].marked]
        ELSE Absent]

\* Mutated form: a success leaves FailCount as it is.
UpdateNodeHealthNoReset(e, ok, limit) ==
    IF ok THEN [e EXCEPT !.alive = TRUE, !.marked = FALSE]
    ELSE IF e.alive
         THEN [e EXCEPT !.fails = @ + 1, !.alive = e.fails + 1 < limit]
         ELSE e

\* Mutated form: a success clears the count but not the verdict.
UpdateNodeHealthStaysDown(e, ok, limit) ==
    IF ok THEN [e EXCEPT !.fails = IF e.alive THEN 0 ELSE 1]
    ELSE IF e.alive
         THEN [e EXCEPT !.fails = @ + 1, !.alive = e.fails + 1 < limit]
         ELSE e

\* Mutated form: the failure that reaches the limit is dropped.
UpdateNodeHealthNeverDown(e, ok, limit) ==
    IF ok THEN [e EXCEPT !.alive = TRUE, !.fails = 0, !.marked = FALSE]
    ELSE IF e.alive /\ e.fails + 1 < limit THEN [e EXCEPT !.fails = @ + 1]
         ELSE e

\* A failure counts only against an entry that is still alive.
UpdateNodeHealth(e, ok, limit) ==
    IF ok THEN [e EXCEPT !.alive = TRUE, !.fails = 0, !.marked = FALSE]
    ELSE IF e.alive
         THEN [e EXCEPT !.fails = @ + 1, !.alive = e.fails + 1 < limit]
         ELSE e

\* Mutated form: a pool without max_fail does not fall back to the default.
HealthCheckLimitNoDefault(cfg, default) == cfg.maxFail

HealthCheckLimit(cfg, default) ==
    IF cfg.maxFail > 0 THEN cfg.maxFail ELSE default

-----------------------------------------------------------------------------
(* The health checker: one round at a time, its probes concurrent          *)

RoundProbes == {pr \in probes : pr.by = Round}

\* listHealthTargets
HealthTargets(p) ==
    LET s == pools[p].slice
    IN IF pools[p].cfg.on
       THEN {n \in Nodes \ Direct : slices[s][n].present /\ slices[s][n].enabled}
       ELSE {}

\* Mutated form: the checker keeps the Pool object it found at start-up.
StartRoundOnFirstPool ==
    /\ RoundProbes = {}
    /\ HealthTargets(1) # {}
    /\ probes' = probes \cup
          {[by |-> Round, pool |-> 1, slice |-> pools[1].slice,
            node |-> n, answer |-> "none"] : n \in HealthTargets(1)}
    /\ roundLimit' = HealthCheckLimit(pools[1].cfg, defaultMaxFail)
    /\ UNCHANGED <<pools, slices, nPools, nSlices, published, current, loads,
                   defaultMaxFail, up>>

\* checkAll up to the start of the goroutines; the previous call has waited
\* for all of its own.
StartRound ==
    /\ RoundProbes = {}
    /\ HealthTargets(current) # {}
    /\ probes' = probes \cup
          {[by |-> Round, pool |-> current, slice |-> pools[current].slice,
            node |-> n, answer |-> "none"] : n \in HealthTargets(current)}
    /\ roundLimit' = HealthCheckLimit(pools[current].cfg, defaultMaxFail)
    /\ UNCHANGED <<pools, slices, nPools, nSlices, published, current, loads,
                   defaultMaxFail, up>>

\* probeNodeConnectivity: no lock is held until the answer (or the timeout).
AnswerProbe(pr) ==
    /\ pr \in probes
    /\ pr.answer = "none"
    /\ probes' = (probes \ {pr}) \cup
          {[pr EXCEPT !.answer = IF pr.node \in up THEN "ok" ELSE "error"]}
    /\ UNCHANGED <<pools, slices, nPools, nSlices, published, current, loads,
                   roundLimit, defaultMaxFail, up>>

\* A round uses the limit of its start, a manual test that of the pool it
\* captured with the compiled-in default.
ProbeLimit(pr) ==
    IF pr.by = Round THEN roundLimit
    ELSE HealthCheckLimit(pools[pr.pool].cfg, DefaultMaxFail)

\* The critical section after the probe, on the entry that was captured.
ApplyProbe(pr) ==
    /\ pr \in probes
    /\ pr.answer # "none"
    /\ slices' = [slices EXCEPT ![pr.slice][pr.node] =
                     UpdateNodeHealth(@, pr.answer = "ok", ProbeLimit(pr))]
    /\ probes' = probes \ {pr}
    /\ UNCHANGED <<pools, nPools, nSlices, published, current, loads,
                   roundLimit, defaultMaxFail, up>>

\* UpdateDefaults
UpdateDefaults(k) ==
    /\ defaultMaxFail' = k
    /\ UNCHANGED <<pools, slices, nPools, nSlices, published, current, loads,
                   probes, roundLimit, up>>

-----------------------------------------------------------------------------
(* Admin and proxy calls                                                   *)

\* TestNodeConnectivity up to the probe: any listed node, "direct" ones and
\* disabled ones too.
StartTest(t, n) ==
    LET s == pools[current].slice
    IN /\ slices[s][n].present
       /\ \A pr \in probes : pr.by # t
       /\ probes' = probes \cup {[by |-> t, pool |-> current, slice |-> s,
                                 node |-> n, answer |-> "none"]}
       /\ UNCHANGED <<pools, slices, nPools, nSlices, published, current,
                      loads, roundLimit, defaultMaxFail, up>>

\* MarkNodeUnavailable on Pool object p, taken from m.pools some time ago:
\* the entry is looked up by name in the slice p has now.
MarkNodeUnavailable(p, n) ==
    LET s == pools[p].slice
    IN /\ slices[s][n].present
       /\ n \notin Direct
       /\ slices[s][n].fails < MaxCount
       /\ slices' = [slices EXCEPT ![s][n].alive = FALSE,
                                   ![s][n].fails = @ + 1,
                                   ![s][n].marked = TRUE]
       /\ UNCHANGED <<pools, nPools, nSlices, published, current, loads,
                      probes, roundLimit, defaultMaxFail, up>>

\* SetNodeEnabled, again on a Pool object taken earlier.
SetNodeEnabled(p, n, on) ==
    LET s == pools[p].slice
    IN /\ slices[s][n].present
       /\ slices' = [slices EXCEPT ![s][n].enabled = on]
       /\ UNCHANGED <<pools, nPools, nSlices, published, current, loads,
                      probes, roundLimit, defaultMaxFail, up>>

-----------------------------------------------------------------------------
(* Refresh and reload                                                      *)

\* Mutated form: the refresh overwrites the entries in place.
RefreshSubscriptionInPlace(p, ns, enabled) ==
    /\ Subscription
    /\ pools[p].cfg.on
    /\ slices' = [slices EXCEPT ![pools[p].slice] = BuildEntries(ns, enabled)]
    /\ UNCHANGED <<pools, nPools, nSlices, published, current, loads, probes,
                   roundLimit, defaultMaxFail, up>>

\* RefreshSubscription, its success: new entries for the Pool object it took
\* before the fetch.  A failure leaves the entries alone.
RefreshSubscription(p, ns, enabled) ==
    /\ Subscription
    /\ pools[p].cfg.on
    /\ nSlices < MaxSlices
    /\ nSlices' = nSlices + 1
    /\ slices' = [slices EXCEPT ![nSlices + 1] = BuildEntries(ns, enabled)]
    /\ pools' = [pools EXCEPT ![p].slice = nSlices + 1]
    /\ UNCHANGED <<nPools, published, current, loads, probes, roundLimit,
                   defaultMaxFail, up>>

\* LoadFromFile reads the file and notes the pools of that moment.
BeginLoad(l, cfg) ==
    /\ loads[l].stage = "idle"
    /\ loads' = [loads EXCEPT ![l].stage = "reading", ![l].cfg = cfg,
                              ![l].old = current]
    /\ UNCHANGED <<pools, slices, nPools, nSlices, published, current, probes,
                   roundLimit, defaultMaxFail, up>>

AddPool(l, entries) ==
    /\ nPools < MaxPools
    /\ nSlices < MaxSlices
    /\ nPools' = nPools + 1
    /\ nSlices' = nSlices + 1
    /\ slices' = [slices EXCEPT ![nSlices + 1] = entries]
    /\ pools' = [pools EXCEPT ![nPools + 1] =
                    [cfg |-> loads[l].cfg, slice |-> nSlices + 1]]
    /\ loads' = [loads EXCEPT ![l].stage = "built", ![l].new = nPools + 1]
    /\ UNCHANGED <<published, current, probes, roundLimit, defaultMaxFail, up>>

\* buildPool: the nodes of the file, of the fetch or of the cache; a disabled
\* subscription has none.
BuildFresh(l, ns, enabled) ==
    /\ loads[l].stage = "reading"
    /\ (Subscription /\ ~loads[l].cfg.on) => ns = {}
    /\ AddPool(l, BuildEntries(ns, enabled))

\* preserveSubscriptionEntriesOnError after a failed fetch: the entries the
\* old Pool object has at this moment.
BuildPreserved(l, enabled) ==
    LET old == slices[pools[loads[l].old].slice]
    IN /\ loads[l].stage = "reading"
       /\ Subscription /\ loads[l].cfg.on
       /\ \E n \in Nodes : old[n].present
       /\ AddPool(l, PreserveEntries(old, enabled))

\* The swap under m.mu.
FinishLoad(l) ==
    /\ loads[l].stage = "built"
    /\ current' = loads[l].new
    /\ published' = published \cup {loads[l].new}
    /\ loads' = [loads EXCEPT ![l].stage = "idle"]
    /\ UNCHANGED <<pools, slices, nPools, nSlices, probes, roundLimit,
                   defaultMaxFail, up>>

\* Another pool of the file cannot be built: nothing is swapped.
AbortLoad(l) ==
    /\ loads[l].stage # "idle"
    /\ loads' = [loads EXCEPT ![l].stage = "idle"]
    /\ UNCHANGED <<pools, slices, nPools, nSlices, published, current, probes,
                   roundLimit, defaultMaxFail, up>>

\* The node or its network changes; nothing in the program does this.
ToggleNode(n) ==
    /\ up' = IF n \in up THEN up \ {n} ELSE up \cup {n}
    /\ UNCHANGED <<pools, slices, nPools, nSlices, published, current, loads,
                   probes, roundLimit, defaultMaxFail>>

-----------------------------------------------------------------------------
(* The state after the first load at start-up.  Ids not allocated yet hold *)
(* copies of the first Pool object and empty slices; nothing reads them.   *)
Init ==
    \E cfg \in Configs, ns, enabled \in SUBSET Nodes :
        /\ (Subscription /\ ~cfg.on) => ns = {}
        /\ pools = [p \in PoolId |-> [cfg |-> cfg, slice |-> 1]]
        /\ slices = [s \in SliceId |->
                       IF s = 1 THEN BuildEntries(ns, enabled)
                                ELSE BuildEntries({}, {})]
        /\ nPools = 1
        /\ nSlices = 1
        /\ published = {1}
        /\ current = 1
        /\ loads = [l \in Loaders |-> [stage |-> "idle", cfg |-> cfg,
                                       old |-> 1, new |-> 1]]
        /\ probes = {}
        /\ roundLimit = DefaultMaxFail
        /\ defaultMaxFail = DefaultMaxFail
        /\ up \in SUBSET Nodes

Checker ==
    \/ StartRound
    \/ \E pr \in probes : AnswerProbe(pr) \/ ApplyProbe(pr)

Admin ==
    \/ \E t \in Testers, n \in Nodes : StartTest(t, n)
    \/ \E p \in published, n \in Nodes, on \in BOOLEAN : SetNodeEnabled(p, n, on)
    \/ \E k \in MaxFails : UpdateDefaults(k)

Proxy == \E p \in published, n \in Nodes : MarkNodeUnavailable(p, n)

Refresher ==
    \E p \in published, ns, enabled \in SUBSET Nodes :
        RefreshSubscription(p, ns, enabled)

Loader(l) ==
    \/ \E cfg \in Configs : BeginLoad(l, cfg)
    \/ \E ns, enabled \in SUBSET Nodes : BuildFresh(l, ns, enabled)
    \/ \E enabled \in SUBSET Nodes : BuildPreserved(l, enabled)
    \/ FinishLoad(l)
    \/ AbortLoad(l)

Next ==
    \/ Checker
    \/ Admin
    \/ Proxy
    \/ Refresher
    \/ \E l \in Loaders : Loader(l)
    \/ \E n \in Nodes : ToggleNode(n)

\* The goroutine that probes node n for b.
ProbeStep(b, n) ==
    \E pr \in probes :
        /\ pr.by = b
        /\ pr.node = n
        /\ AnswerProbe(pr) \/ ApplyProbe(pr)

\* The checker's loop never stops while the program runs and every probe is
\* cut off by its timeout: each goroutine that probes goes on.  Nobody else
\* is obliged to act.
Fairness ==
    /\ WF_vars(StartRound)
    /\ \A b \in {Round} \cup Testers, n \in Nodes : WF_vars(ProbeStep(b, n))

Spec == Init /\ [][Next]_vars /\ Fairness

-----------------------------------------------------------------------------
(* Properties                                                              *)

\* The health record of every entry, orphaned ones included, is coherent
\* whatever probes, tests, failing requests, threshold changes, refreshes and
\* reloads interleave: an entry that is alive has not used up every threshold
\* in force; one that is down was either given up by a proxied request since
\* its last success or failed as many probes in a row as some threshold asks;
\* a "direct" node is never given up by a request (MarkNodeUnavailable).
DownHasCause(e) == e.marked \/ \E k \in Limits : e.fails >= k

HealthRecord(n, e) ==
    e.present =>
        /\ e.alive => ~e.marked /\ \E k \in Limits : e.fails < k
        /\ ~e.alive => e.fails > 0 /\ DownHasCause(e)
        /\ n \in Direct => ~e.marked

HealthRecordOK ==
    \A s \in SliceId, n \in Nodes : HealthRecord(n, slices[s][n])

\* An entry that is down comes up again only by a probe of that same entry
\* that was answered (updateNodeHealth), which also clears its failures; no
\* other step lowers its count.  A reload or refresh makes new entries, it
\* never touches one that a goroutine may still hold.
RevivedByAnswer(s, n) ==
    LET e == slices[s][n]
    IN e.present /\ ~e.alive =>
          \/ slices'[s][n].present /\ ~slices'[s][n].alive
                /\ slices'[s][n].fails >= e.fails
          \/ /\ slices'[s][n].alive
             /\ slices'[s][n].fails = 0
             /\ \E pr \in probes \ probes' :
                   pr.slice = s /\ pr.node = n /\ pr.answer = "ok"

RevivedOnlyByAnswer ==
    [][\A s \in SliceId, n \in Nodes : RevivedByAnswer(s, n)]_vars

\* The entries requests choose from.
Watched(n) == n \in HealthTargets(current)
Alive(n)   == slices[pools[current].slice][n].alive

\* A node that answers from some time on, and stays listed and enabled, is
\* used again and again: whatever took it down, the checker brings it back
\* (manager.go, MarkNodeUnavailable: a later successful check restores Alive).
Recovers ==
    \A n \in Nodes : <>[](n \in up /\ Watched(n)) => []<>Alive(n)

\* A node that stops answering for good is in the end taken out for good,
\* although answers it gave earlier may still be on their way, if from some time
\* on the entries in use are no longer replaced.  While refreshes or reloads go
\* on replacing them it is not: each builds entries that are alive
\* (newNodeEntry), so that the node is offered again until the checker has
\* failed with it as often as its limit asks.
DeadIsDetected ==
    \A n \in Nodes, s \in SliceId :
        <>[](n \notin up /\ Watched(n) /\ pools[current].slice = s) => <>[]~Alive(n)

=============================================================================
