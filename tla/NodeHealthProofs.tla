------------------------- MODULE NodeHealthProofs -------------------------
(***************************************************************************)
(* Theorems about NodeHealth for every set of nodes, every configuration   *)
(* and every bound: the records of nodes are well formed and coherent, and *)
(* a node that is down comes up only by an answer to a probe of it.        *)
(***************************************************************************)
EXTENDS NodeHealth, TLAPS

-----------------------------------------------------------------------------
(* Lemmas about the operators on entries                                   *)

\* The thresholds are positive: an entry without failures is below them all.
LEMMA LimitsPositive ==
    /\ Limits \subseteq Nat \ {0}
    /\ DefaultMaxFail \in Limits
BY ConfigsAssumption, LimitsAssumption DEF Limits

\* The threshold in force is one of Limits, for every default in force.
LEMMA HealthCheckLimitIn ==
    ASSUME NEW cfg \in Configs, NEW k \in MaxFails
    PROVE  HealthCheckLimit(cfg, k) \in Limits
<1>1. cfg.maxFail \in Nat
  BY ConfigsAssumption
<1>2. CASE cfg.maxFail > 0
  BY <1>1, <1>2 DEF HealthCheckLimit, Limits
<1>3. CASE ~(cfg.maxFail > 0)
  BY <1>3 DEF HealthCheckLimit, Limits
<1>4. QED BY <1>2, <1>3

\* Entries built from a file, a fetch or the cache are well typed and coherent.
LEMMA BuildEntriesOK ==
    ASSUME NEW ns, NEW enabled
    PROVE  /\ BuildEntries(ns, enabled) \in [Nodes -> Entry]
           /\ \A n \in Nodes : HealthRecord(n, BuildEntries(ns, enabled)[n])
<1>1. \E k \in Limits : 0 < k
  BY LimitsPositive
<1>2. ASSUME NEW n \in Nodes
      PROVE  /\ Absent \in Entry
             /\ HealthRecord(n, Absent)
  BY DEF Absent, Entry, HealthRecord
<1>3. ASSUME NEW n \in Nodes, NEW on \in BOOLEAN
      PROVE  /\ NewNodeEntry(on) \in Entry
             /\ HealthRecord(n, NewNodeEntry(on))
  BY <1>1 DEF NewNodeEntry, Entry, HealthRecord
<1>4. ASSUME NEW n \in Nodes
      PROVE  /\ BuildEntries(ns, enabled)[n] \in Entry
             /\ HealthRecord(n, BuildEntries(ns, enabled)[n])
  <2>1. (n \in enabled) \in BOOLEAN
    OBVIOUS
  <2>2. BuildEntries(ns, enabled)[n] = Absent
          \/ BuildEntries(ns, enabled)[n] = NewNodeEntry(n \in enabled)
    BY DEF BuildEntries
  <2>3. QED BY <1>2, <1>3, <2>1, <2>2
<1>5. BuildEntries(ns, enabled) =
        [n \in Nodes |-> BuildEntries(ns, enabled)[n]]
  BY DEF BuildEntries
<1>6. QED BY <1>4, <1>5

\* Keeping the previous entries of a subscription keeps their health records.
LEMMA PreserveEntriesOK ==
    ASSUME NEW old \in [Nodes -> Entry], NEW enabled,
           \A n \in Nodes : HealthRecord(n, old[n])
    PROVE  /\ PreserveEntries(old, enabled) \in [Nodes -> Entry]
           /\ \A n \in Nodes : HealthRecord(n, PreserveEntries(old, enabled)[n])
<1> DEFINE kept(n, on) == [present |-> TRUE, enabled |-> on,
                           alive |-> old[n].alive, fails |-> old[n].fails,
                           marked |-> old[n].marked]
<1>1. ASSUME NEW n \in Nodes, NEW on \in BOOLEAN, old[n].present
      PROVE  kept(n, on) \in Entry /\ HealthRecord(n, kept(n, on))
  <2>1. old[n] \in Entry /\ HealthRecord(n, old[n])
    OBVIOUS
  <2>2. QED BY <1>1, <2>1 DEF Entry, HealthRecord, DownHasCause
<1>2. ASSUME NEW n \in Nodes
      PROVE  Absent \in Entry /\ HealthRecord(n, Absent)
  BY DEF Absent, Entry, HealthRecord
<1>3. ASSUME NEW n \in Nodes
      PROVE  /\ PreserveEntries(old, enabled)[n] \in Entry
             /\ HealthRecord(n, PreserveEntries(old, enabled)[n])
  <2>1. CASE old[n].present
    <3>1. PreserveEntries(old, enabled)[n] = kept(n, n \in enabled)
      BY <2>1 DEF PreserveEntries, NewNodeEntry
    <3>2. (n \in enabled) \in BOOLEAN
      OBVIOUS
    <3> HIDE DEF kept
    <3>3. QED BY <1>1, <2>1, <3>1, <3>2
  <2>2. CASE ~old[n].present
    BY <1>2, <2>2 DEF PreserveEntries
  <2>3. QED BY <2>1, <2>2
<1>4. PreserveEntries(old, enabled) =
        [n \in Nodes |-> PreserveEntries(old, enabled)[n]]
  BY DEF PreserveEntries
<1>5. QED BY <1>3, <1>4

LEMMA EntryRecord ==
    ASSUME NEW p \in BOOLEAN, NEW on \in BOOLEAN, NEW a \in BOOLEAN,
           NEW f \in Nat, NEW m \in BOOLEAN
    PROVE  [present |-> p, enabled |-> on, alive |-> a, fails |-> f,
            marked |-> m] \in Entry
BY DEF Entry

\* updateNodeHealth keeps the record of an entry coherent, whichever of the
\* thresholds it is called with.
LEMMA UpdateNodeHealthOK ==
    ASSUME NEW n \in Nodes, NEW e \in Entry, NEW ok \in BOOLEAN,
           NEW limit \in Limits, HealthRecord(n, e)
    PROVE  /\ UpdateNodeHealth(e, ok, limit) \in Entry
           /\ HealthRecord(n, UpdateNodeHealth(e, ok, limit))
<1> SUFFICES ASSUME NEW u, u = UpdateNodeHealth(e, ok, limit)
             PROVE  u \in Entry /\ HealthRecord(n, u)
  OBVIOUS
<1>1. limit \in Nat \ {0} /\ e.fails \in Nat
  BY LimitsPositive DEF Entry
<1>2. CASE ok
  <2>1. u = [e EXCEPT !.alive = TRUE, !.fails = 0, !.marked = FALSE]
    BY <1>2 DEF UpdateNodeHealth
  <2>2. u \in Entry
    <3>1. e.present \in BOOLEAN /\ e.enabled \in BOOLEAN
      BY DEF Entry
    <3>2. u = [present |-> e.present, enabled |-> e.enabled, alive |-> TRUE,
               fails |-> 0, marked |-> FALSE]
      BY <2>1 DEF Entry
    <3>3. QED BY <3>1, <3>2 DEF Entry
  <2>3. u.alive /\ ~u.marked /\ u.fails = 0
    BY <2>1 DEF Entry
  <2>4. \E k \in Limits : u.fails < k
    BY <1>1, <2>3
  <2>5. HealthRecord(n, u)
    BY <2>3, <2>4, Zenon DEF HealthRecord
  <2>6. QED BY <2>2, <2>5
<1>3. CASE ~ok /\ ~e.alive
  <2>1. u = e
    BY <1>3 DEF UpdateNodeHealth
  <2>2. QED BY <2>1
<1>4. CASE ~ok /\ e.alive /\ e.fails + 1 < limit
  <2>1. u = [e EXCEPT !.fails = e.fails + 1, !.alive = TRUE]
    BY <1>4 DEF UpdateNodeHealth
  <2>2. e.fails + 1 \in Nat
    BY <1>1
  <2>3. u \in Entry
    BY <2>1, <2>2 DEF Entry
  <2>4. /\ u.alive = TRUE /\ u.fails = e.fails + 1
        /\ u.marked = e.marked /\ u.present = e.present
    BY <2>1 DEF Entry
  <2>5. \E k \in Limits : u.fails < k
    BY <1>4, <2>4
  <2>6. HealthRecord(n, u)
    BY <1>4, <2>4, <2>5, Zenon DEF HealthRecord
  <2>7. QED BY <2>3, <2>6
<1>5. CASE ~ok /\ e.alive /\ ~(e.fails + 1 < limit)
  <2>1. u = [e EXCEPT !.fails = e.fails + 1, !.alive = e.fails + 1 < limit]
    BY <1>5 DEF UpdateNodeHealth
  <2>2. e.fails + 1 \in Nat /\ e.fails + 1 >= limit
    BY <1>1, <1>5
  <2>3. u \in Entry
    <3>1. /\ e.present \in BOOLEAN /\ e.enabled \in BOOLEAN
          /\ e.marked \in BOOLEAN
      BY DEF Entry
    <3>2. (e.fails + 1 < limit) \in BOOLEAN
      OBVIOUS
    <3>3. u = [present |-> e.present, enabled |-> e.enabled,
               alive |-> e.fails + 1 < limit, fails |-> e.fails + 1,
               marked |-> e.marked]
      BY <2>1 DEF Entry
    <3>4. [present |-> e.present, enabled |-> e.enabled,
           alive |-> e.fails + 1 < limit, fails |-> e.fails + 1,
           marked |-> e.marked] \in Entry
      BY <2>2, <3>1, <3>2, SMTT(30) DEF Entry
    <3>5. QED BY <3>3, <3>4, Zenon
  <2>4. /\ ~u.alive /\ u.fails = e.fails + 1
        /\ u.marked = e.marked /\ u.present = e.present
    BY <1>5, <2>1 DEF Entry
  <2>5. u.fails > 0 /\ \E k \in Limits : u.fails >= k
    BY <1>1, <2>2, <2>4
  <2>6. u.present => (n \in Direct => ~u.marked)
    BY <1>5, <2>4 DEF HealthRecord
  <2>7. HealthRecord(n, u)
    BY <2>4, <2>5, <2>6, Zenon DEF HealthRecord, DownHasCause
  <2>8. QED BY <2>3, <2>7
<1>6. QED BY <1>2, <1>3, <1>4, <1>5

-----------------------------------------------------------------------------
(* The inductive invariant                                                 *)

IInv == TypeOK /\ HealthRecordOK

LEMMA InitIInv == Init => IInv
<1> SUFFICES ASSUME Init PROVE IInv
  OBVIOUS
<1>1. PICK cfg \in Configs, ns \in SUBSET Nodes, enabled \in SUBSET Nodes :
        /\ pools = [p \in PoolId |-> [cfg |-> cfg, slice |-> 1]]
        /\ slices = [s \in SliceId |-> IF s = 1 THEN BuildEntries(ns, enabled)
                                               ELSE BuildEntries({}, {})]
        /\ loads = [l \in Loaders |-> [stage |-> "idle", cfg |-> cfg,
                                       old |-> 1, new |-> 1]]
        /\ nPools = 1 /\ nSlices = 1 /\ published = {1} /\ current = 1
        /\ probes = {} /\ roundLimit = DefaultMaxFail
        /\ defaultMaxFail = DefaultMaxFail /\ up \in SUBSET Nodes
  BY DEF Init
<1>2. 1 \in PoolId /\ 1 \in SliceId
  BY BoundsAssumption DEF PoolId, SliceId
<1>3. slices \in [SliceId -> [Nodes -> Entry]]
  BY <1>1, BuildEntriesOK
<1>4. pools \in [PoolId -> Pool] /\ loads \in [Loaders -> Load]
  BY <1>1, <1>2 DEF Pool, Load
<1>5. TypeOK
  BY <1>1, <1>2, <1>3, <1>4, LimitsPositive, LimitsAssumption DEF TypeOK
<1>6. HealthRecordOK
  BY <1>1, BuildEntriesOK DEF HealthRecordOK
<1>7. QED BY <1>5, <1>6 DEF IInv

\* A step that only writes one entry, and writes it coherently.
LEMMA OneEntry ==
    ASSUME IInv, NEW s \in SliceId, NEW n \in Nodes, NEW e \in Entry,
           HealthRecord(n, e),
           slices' = [slices EXCEPT ![s][n] = e]
    PROVE  slices' \in [SliceId -> [Nodes -> Entry]] /\ HealthRecordOK'
<1>1. slices \in [SliceId -> [Nodes -> Entry]]
  BY DEF IInv, TypeOK
<1>2. slices' \in [SliceId -> [Nodes -> Entry]]
  BY <1>1
<1>3. ASSUME NEW t \in SliceId, NEW m \in Nodes
      PROVE  HealthRecord(m, slices'[t][m])
  BY <1>1 DEF IInv, HealthRecordOK
<1>4. QED BY <1>2, <1>3 DEF HealthRecordOK

\* A step that fills a new slice.
LEMMA OneSlice ==
    ASSUME IInv, NEW s \in SliceId, NEW entries \in [Nodes -> Entry],
           \A n \in Nodes : HealthRecord(n, entries[n]),
           slices' = [slices EXCEPT ![s] = entries]
    PROVE  slices' \in [SliceId -> [Nodes -> Entry]] /\ HealthRecordOK'
<1>1. slices \in [SliceId -> [Nodes -> Entry]]
  BY DEF IInv, TypeOK
<1>2. QED BY <1>1 DEF IInv, HealthRecordOK

LEMMA AddPoolIInv ==
    ASSUME IInv, NEW l \in Loaders, NEW entries \in [Nodes -> Entry],
           \A n \in Nodes : HealthRecord(n, entries[n]),
           AddPool(l, entries)
    PROVE  IInv'
<1>1. nPools + 1 \in PoolId /\ nSlices + 1 \in SliceId
  BY BoundsAssumption DEF IInv, TypeOK, AddPool, PoolId, SliceId
<1>2. slices' \in [SliceId -> [Nodes -> Entry]] /\ HealthRecordOK'
  BY <1>1, OneSlice DEF AddPool
<1>3. loads[l] \in Load
  BY DEF IInv, TypeOK
<1>4. pools' \in [PoolId -> Pool] /\ loads' \in [Loaders -> Load]
  BY <1>1, <1>3 DEF IInv, TypeOK, AddPool, Pool, Load
<1>5. QED BY <1>1, <1>2, <1>4 DEF IInv, TypeOK, AddPool

LEMMA NextIInv == IInv /\ [Next]_vars => IInv'
<1> SUFFICES ASSUME IInv, [Next]_vars PROVE IInv'
  OBVIOUS
<1> USE DEF IInv
<1>1. CASE StartRound
  <2>1. HealthCheckLimit(pools[current].cfg, defaultMaxFail) \in Limits
    BY HealthCheckLimitIn DEF TypeOK, Pool
  <2>2. probes' \subseteq Probe
    BY <1>1 DEF StartRound, TypeOK, Probe, Pool, HealthTargets
  <2>3. QED BY <1>1, <2>1, <2>2 DEF StartRound, TypeOK, HealthRecordOK
<1>2. ASSUME NEW pr \in probes, AnswerProbe(pr) PROVE IInv'
  <2>1. probes' \subseteq Probe
    BY <1>2 DEF AnswerProbe, TypeOK, Probe
  <2>2. QED BY <1>2, <2>1 DEF AnswerProbe, TypeOK, HealthRecordOK
<1>3. ASSUME NEW pr \in probes, ApplyProbe(pr) PROVE IInv'
  <2>1. pr \in Probe /\ pr.slice \in SliceId /\ pr.node \in Nodes
    BY DEF TypeOK, Probe
  <2>2. ProbeLimit(pr) \in Limits
    BY <2>1, HealthCheckLimitIn, LimitsAssumption
    DEF ProbeLimit, TypeOK, Probe, Pool
  <2> DEFINE e == slices[pr.slice][pr.node]
             u == UpdateNodeHealth(e, pr.answer = "ok", ProbeLimit(pr))
  <2>3. e \in Entry /\ HealthRecord(pr.node, e)
    BY <2>1 DEF TypeOK, HealthRecordOK
  <2>4. u \in Entry /\ HealthRecord(pr.node, u)
    BY <2>1, <2>2, <2>3, UpdateNodeHealthOK
  <2>5. slices' = [slices EXCEPT ![pr.slice][pr.node] = u]
    BY <1>3, <2>1 DEF ApplyProbe, TypeOK
  <2>6. slices' \in [SliceId -> [Nodes -> Entry]] /\ HealthRecordOK'
    <3> HIDE DEF u
    <3> QED BY <2>1, <2>4, <2>5, OneEntry
  <2>7. QED BY <1>3, <2>6 DEF ApplyProbe, TypeOK
<1>4. ASSUME NEW t \in Testers, NEW n \in Nodes, StartTest(t, n) PROVE IInv'
  <2>1. probes' \subseteq Probe
    BY <1>4 DEF StartTest, TypeOK, Probe, Pool
  <2>2. QED BY <1>4, <2>1 DEF StartTest, TypeOK, HealthRecordOK
<1>5. ASSUME NEW p \in published, NEW n \in Nodes, NEW on \in BOOLEAN,
             SetNodeEnabled(p, n, on)
      PROVE  IInv'
  <2> DEFINE s == pools[p].slice
             e == [slices[s][n] EXCEPT !.enabled = on]
  <2>1. s \in SliceId
    BY DEF TypeOK, Pool
  <2>2. slices[s][n] \in Entry /\ HealthRecord(n, slices[s][n])
    BY <2>1, SMTT(30) DEF TypeOK, HealthRecordOK
  <2>3. e \in Entry /\ HealthRecord(n, e)
    BY <2>2 DEF Entry, HealthRecord, DownHasCause
  <2>4. slices' = [slices EXCEPT ![s][n] = e]
    BY <1>5, <2>1 DEF SetNodeEnabled, TypeOK
  <2>5. slices' \in [SliceId -> [Nodes -> Entry]] /\ HealthRecordOK'
    <3> HIDE DEF s, e
    <3> QED BY <2>1, <2>3, <2>4, OneEntry
  <2>6. QED BY <1>5, <2>5 DEF SetNodeEnabled, TypeOK
<1>6. ASSUME NEW k \in MaxFails, UpdateDefaults(k) PROVE IInv'
  BY <1>6 DEF UpdateDefaults, TypeOK, HealthRecordOK
<1>7. ASSUME NEW p \in published, NEW n \in Nodes, MarkNodeUnavailable(p, n)
      PROVE  IInv'
  <2> DEFINE s == pools[p].slice
             e == [slices[s][n] EXCEPT !.alive = FALSE, !.fails = @ + 1,
                                       !.marked = TRUE]
  <2>1. s \in SliceId
    BY DEF TypeOK, Pool
  <2>2. slices[s][n] \in Entry /\ slices[s][n].fails \in Nat
    BY <2>1 DEF TypeOK, Entry
  <2>3. e \in Entry /\ HealthRecord(n, e)
    <3>1. slices[s][n].fails + 1 \in Nat /\ slices[s][n].fails + 1 > 0
      BY <2>2
    <3>2. e \in Entry
      BY <2>2, <3>1 DEF Entry
    <3>3. e.alive = FALSE /\ e.fails > 0 /\ e.marked = TRUE /\ n \notin Direct
      BY <1>7, <2>2, <3>1 DEF MarkNodeUnavailable, Entry
    <3>4. HealthRecord(n, e)
      BY <3>3, ZenonT(60) DEF HealthRecord, DownHasCause
    <3>5. QED BY <3>2, <3>4
  <2>4. slices' = [slices EXCEPT ![s][n] = e]
    BY <1>7, <2>1, ZenonT(60) DEF MarkNodeUnavailable, TypeOK
  <2>5. slices' \in [SliceId -> [Nodes -> Entry]] /\ HealthRecordOK'
    <3> HIDE DEF s, e
    <3> QED BY <2>1, <2>3, <2>4, OneEntry
  <2>6. QED BY <1>7, <2>5 DEF MarkNodeUnavailable, TypeOK
<1>8. ASSUME NEW p \in published, NEW ns \in SUBSET Nodes,
             NEW enabled \in SUBSET Nodes, RefreshSubscription(p, ns, enabled)
      PROVE  IInv'
  <2>1. nSlices + 1 \in SliceId
    BY <1>8, BoundsAssumption DEF RefreshSubscription, TypeOK, SliceId
  <2>2. slices' \in [SliceId -> [Nodes -> Entry]] /\ HealthRecordOK'
    BY <1>8, <2>1, BuildEntriesOK, OneSlice DEF RefreshSubscription
  <2>3. pools' \in [PoolId -> Pool]
    BY <1>8, <2>1 DEF RefreshSubscription, TypeOK, Pool
  <2>4. QED BY <1>8, <2>1, <2>2, <2>3 DEF RefreshSubscription, TypeOK
<1>9. ASSUME NEW l \in Loaders, NEW cfg \in Configs, BeginLoad(l, cfg)
      PROVE  IInv'
  <2>1. /\ loads' = [loads EXCEPT ![l].stage = "reading", ![l].cfg = cfg,
                                  ![l].old = current]
        /\ UNCHANGED <<pools, slices, nPools, nSlices, published, current,
                       probes, roundLimit, defaultMaxFail, up>>
    BY <1>9, Zenon DEF BeginLoad
  <2>2. current \in PoolId /\ loads \in [Loaders -> Load]
    BY DEF TypeOK
  <2>3. loads' \in [Loaders -> Load]
    <3>1. loads[l] \in Load
      BY <2>2
    <3>2. PICK x : x = [loads[l] EXCEPT !.stage = "reading", !.cfg = cfg,
                                        !.old = current]
      OBVIOUS
    <3>3. x \in Load
      BY <2>2, <3>1, <3>2 DEF Load
    <3>4. loads' = [loads EXCEPT ![l] = x]
      BY <2>1, <3>2
    <3>5. QED BY <2>2, <3>3, <3>4
  <2>4. HealthRecordOK'
    BY <2>1, Zenon DEF HealthRecordOK
  <2>5. QED BY <2>1, <2>3, <2>4, Zenon DEF TypeOK
<1>10. ASSUME NEW l \in Loaders, NEW ns \in SUBSET Nodes,
              NEW enabled \in SUBSET Nodes, BuildFresh(l, ns, enabled)
       PROVE  IInv'
  BY <1>10, BuildEntriesOK, AddPoolIInv DEF BuildFresh
<1>11. ASSUME NEW l \in Loaders, NEW enabled \in SUBSET Nodes,
              BuildPreserved(l, enabled)
       PROVE  IInv'
  <2> DEFINE old == slices[pools[loads[l].old].slice]
  <2>1. old \in [Nodes -> Entry] /\ \A n \in Nodes : HealthRecord(n, old[n])
    BY DEF TypeOK, HealthRecordOK, Load, Pool
  <2>2. AddPool(l, PreserveEntries(old, enabled))
    BY <1>11 DEF BuildPreserved
  <2>3. QED
    <3> HIDE DEF old
    <3> QED BY <2>1, <2>2, PreserveEntriesOK, AddPoolIInv
<1>12. ASSUME NEW l \in Loaders, FinishLoad(l) PROVE IInv'
  BY <1>12 DEF FinishLoad, TypeOK, HealthRecordOK, Load
<1>13. ASSUME NEW l \in Loaders, AbortLoad(l) PROVE IInv'
  BY <1>13, SMTT(30) DEF AbortLoad, TypeOK, HealthRecordOK, Load
<1>14. ASSUME NEW n \in Nodes, ToggleNode(n) PROVE IInv'
  BY <1>14 DEF ToggleNode, TypeOK, HealthRecordOK
<1>15. CASE UNCHANGED vars
  BY <1>15 DEF vars, TypeOK, HealthRecordOK
<1>16. QED
  BY <1>1, <1>2, <1>3, <1>4, <1>5, <1>6, <1>7, <1>8, <1>9, <1>10, <1>11,
     <1>12, <1>13, <1>14, <1>15
  DEF Next, Checker, Admin, Proxy, Refresher, Loader

-----------------------------------------------------------------------------
(* Theorems                                                                *)

LEMMA IInvHolds == Spec => []IInv
<1>1. QED BY InitIInv, NextIInv, PTL DEF Spec

\* Every state of the node pool is well typed (see TypeOK), for every
\* number of nodes, pools, testers and loaders.
THEOREM TypeCorrect == Spec => []TypeOK
<1>1. IInv => TypeOK
  BY DEF IInv
<1>2. QED BY <1>1, IInvHolds, PTL

\* Every health record stays coherent under every interleaving of probes,
\* tests, failing requests, threshold changes, refreshes and reloads
\* (updateNodeHealth, MarkNodeUnavailable, preserveSubscriptionEntriesOnError).
THEOREM HealthRecordsCoherent == Spec => []HealthRecordOK
<1>1. IInv => HealthRecordOK
  BY DEF IInv
<1>2. QED BY <1>1, IInvHolds, PTL

-----------------------------------------------------------------------------
(* Who brings an entry up again                                            *)

\* Slices nobody has made yet list no node: making one revives nothing.
Unallocated ==
    \A s \in SliceId, n \in Nodes : s > nSlices => ~slices[s][n].present

RevivalInv == IInv /\ Unallocated

\* What every step that keeps the slices apart from one entry does with the
\* others, and what a new slice does with the old ones.
LEMMA WriteEntry ==
    ASSUME IInv, NEW s \in SliceId, NEW n \in Nodes, NEW e,
           slices' = [slices EXCEPT ![s][n] = e]
    PROVE  /\ slices'[s][n] = e
           /\ \A r \in SliceId, m \in Nodes :
                 r # s \/ m # n => slices'[r][m] = slices[r][m]
BY DEF IInv, TypeOK

LEMMA WriteSlice ==
    ASSUME IInv, NEW s \in SliceId, NEW entries,
           slices' = [slices EXCEPT ![s] = entries]
    PROVE  \A r \in SliceId : r # s => slices'[r] = slices[r]
BY DEF IInv, TypeOK

\* A step that writes one entry and does not revive it.
LEMMA StaysDown ==
    ASSUME RevivalInv, NEW s \in SliceId, NEW n \in Nodes, NEW e \in Entry,
           slices' = [slices EXCEPT ![s][n] = e], nSlices' = nSlices,
           e.present = slices[s][n].present,
           ~slices[s][n].alive => ~e.alive /\ e.fails >= slices[s][n].fails
    PROVE  /\ Unallocated'
           /\ \A r \in SliceId, m \in Nodes : RevivedByAnswer(r, m)
<1>1. \A r \in SliceId, m \in Nodes : slices[r][m].fails \in Nat
  BY DEF RevivalInv, IInv, TypeOK, Entry
<1>2. /\ slices'[s][n] = e
      /\ \A r \in SliceId, m \in Nodes :
            r # s \/ m # n => slices'[r][m] = slices[r][m]
  BY WriteEntry, ZenonT(60) DEF RevivalInv
<1>3. QED
  BY <1>1, <1>2 DEF RevivalInv, Unallocated, RevivedByAnswer

\* A step that leaves the slices alone.
LEMMA NothingRevived ==
    ASSUME RevivalInv, UNCHANGED <<slices, nSlices>>
    PROVE  /\ Unallocated'
           /\ \A r \in SliceId, m \in Nodes : RevivedByAnswer(r, m)
<1>1. \A r \in SliceId, m \in Nodes : slices[r][m].fails \in Nat
  BY DEF RevivalInv, IInv, TypeOK, Entry
<1>2. QED
  BY <1>1 DEF RevivalInv, Unallocated, RevivedByAnswer

\* A step that fills the next slice.
LEMMA NewSlice ==
    ASSUME RevivalInv, nSlices < MaxSlices, nSlices' = nSlices + 1,
           NEW entries, slices' = [slices EXCEPT ![nSlices + 1] = entries]
    PROVE  /\ Unallocated'
           /\ \A r \in SliceId, m \in Nodes : RevivedByAnswer(r, m)
<1>1. nSlices \in Nat /\ nSlices + 1 \in SliceId
  BY BoundsAssumption DEF RevivalInv, IInv, TypeOK, SliceId
<1>2. \A r \in SliceId : r # nSlices + 1 => slices'[r] = slices[r]
  BY <1>1, WriteSlice DEF RevivalInv
<1>3. \A r \in SliceId, m \in Nodes : slices[r][m].fails \in Nat /\ r \in Nat
  BY BoundsAssumption DEF RevivalInv, IInv, TypeOK, Entry, SliceId
<1>4. ASSUME NEW m \in Nodes PROVE ~slices[nSlices + 1][m].present
  BY <1>1 DEF RevivalInv, Unallocated
<1>5. QED
  BY <1>1, <1>2, <1>3, <1>4 DEF RevivalInv, Unallocated, RevivedByAnswer

\* The critical section after a probe: an error leaves a dead entry as it is.
LEMMA ApplyProbeRevives ==
    ASSUME RevivalInv, NEW pr \in probes, ApplyProbe(pr)
    PROVE  /\ Unallocated'
           /\ \A r \in SliceId, m \in Nodes : RevivedByAnswer(r, m)
<1> DEFINE e == slices[pr.slice][pr.node]
           u == UpdateNodeHealth(e, pr.answer = "ok", ProbeLimit(pr))
<1>1. /\ pr.slice \in SliceId /\ pr.node \in Nodes
      /\ pr.answer \in {"ok", "error"}
  BY DEF RevivalInv, IInv, TypeOK, Probe, ApplyProbe
<1>2. e \in Entry /\ slices \in [SliceId -> [Nodes -> Entry]]
  BY <1>1 DEF RevivalInv, IInv, TypeOK
<1>3. slices' = [slices EXCEPT ![pr.slice][pr.node] = u] /\ nSlices' = nSlices
  BY <1>1, <1>2 DEF ApplyProbe
<1>4. pr \in probes \ probes'
  BY DEF ApplyProbe
<1>5. CASE pr.answer = "ok"
  <2>1. u = [e EXCEPT !.alive = TRUE, !.fails = 0, !.marked = FALSE]
    BY <1>5 DEF UpdateNodeHealth
  <2>2. u.alive /\ u.fails = 0 /\ u.present = e.present
    <3> HIDE DEF e, u
    <3>1. QED BY <1>2, <2>1 DEF Entry
  <2>3. /\ slices'[pr.slice][pr.node] = u
        /\ \A r \in SliceId, m \in Nodes :
              r # pr.slice \/ m # pr.node => slices'[r][m] = slices[r][m]
    <3> HIDE DEF u
    <3>1. QED BY <1>1, <1>2, <1>3
  <2>4. \A r \in SliceId, m \in Nodes : slices[r][m].fails \in Nat
    BY <1>2 DEF Entry
  <2>5. Unallocated'
    <3> HIDE DEF u
    <3>1. QED BY <1>1, <1>3, <2>2, <2>3 DEF RevivalInv, Unallocated
  <2>6. ASSUME NEW r \in SliceId, NEW m \in Nodes
        PROVE  RevivedByAnswer(r, m)
    <3> HIDE DEF u
    <3>1. CASE r = pr.slice /\ m = pr.node
      BY <1>4, <1>5, <2>2, <2>3, <3>1 DEF RevivedByAnswer
    <3>2. CASE r # pr.slice \/ m # pr.node
      BY <2>3, <2>4, <3>2 DEF RevivedByAnswer
    <3>3. QED BY <3>1, <3>2
  <2>7. QED BY <2>5, <2>6
<1>6. CASE pr.answer = "error" /\ ~e.alive
  <2>1. u = e
    BY <1>6 DEF UpdateNodeHealth
  <2>2. slices' = [slices EXCEPT ![pr.slice][pr.node] = e] /\ e.fails \in Nat
    BY <1>2, <1>3, <2>1 DEF Entry
  <2>3. e.fails >= e.fails
    BY <2>2
  <2>4. QED
    BY <1>1, <1>2, <1>3, <1>6, <2>2, <2>3, StaysDown, Zenon
<1>7. CASE pr.answer = "error" /\ e.alive
  <2>1. u \in Entry /\ u.present = e.present
    <3>1. u = [e EXCEPT !.fails = @ + 1, !.alive = e.fails + 1 < ProbeLimit(pr)]
      BY <1>7 DEF UpdateNodeHealth
    <3>2. (e.fails + 1 < ProbeLimit(pr)) \in BOOLEAN /\ e.fails + 1 \in Nat
      BY <1>2 DEF Entry
    <3>3. QED
      <4> DEFINE below == e.fails + 1 < ProbeLimit(pr)
      <4>1. u = [e EXCEPT !.fails = e.fails + 1, !.alive = below]
        BY <3>1
      <4> HIDE DEF below, u, e
      <4>2. below \in BOOLEAN
        BY <3>2 DEF below
      <4>3. e.fails + 1 \in Nat
        BY <3>2
      <4>4. QED BY <1>2, <4>1, <4>2, <4>3, Zenon DEF Entry
  <2>2. QED
    <3> HIDE DEF u
    <3>1. QED BY <1>1, <1>3, <1>7, <2>1, StaysDown
<1>8. QED BY <1>1, <1>5, <1>6, <1>7

LEMMA RevivalStep ==
    ASSUME RevivalInv, [Next]_vars
    PROVE  /\ RevivalInv'
           /\ \A r \in SliceId, m \in Nodes : RevivedByAnswer(r, m)
<1> SUFFICES /\ Unallocated'
             /\ \A r \in SliceId, m \in Nodes : RevivedByAnswer(r, m)
  BY NextIInv DEF RevivalInv
<1>1. CASE UNCHANGED <<slices, nSlices>>
  BY <1>1, NothingRevived
<1>2. ASSUME NEW pr \in probes, ApplyProbe(pr)
      PROVE  /\ Unallocated'
             /\ \A r \in SliceId, m \in Nodes : RevivedByAnswer(r, m)
  BY <1>2, ApplyProbeRevives
<1>3. ASSUME NEW p \in published, NEW n \in Nodes, MarkNodeUnavailable(p, n)
      PROVE  /\ Unallocated'
             /\ \A r \in SliceId, m \in Nodes : RevivedByAnswer(r, m)
  <2> DEFINE s == pools[p].slice
             e == [slices[s][n] EXCEPT !.alive = FALSE, !.fails = @ + 1,
                                       !.marked = TRUE]
  <2>1. s \in SliceId
    BY DEF RevivalInv, IInv, TypeOK, Pool
  <2>2. slices[s][n] \in Entry /\ slices[s][n].fails \in Nat
    BY <2>1 DEF RevivalInv, IInv, TypeOK, Entry
  <2>3. /\ e \in Entry /\ e.present = slices[s][n].present
        /\ ~e.alive /\ e.fails = slices[s][n].fails + 1
    <3>1. slices[s][n].fails + 1 \in Nat
      BY <2>2
    <3>2. QED BY <2>2, <3>1 DEF Entry
  <2>4. slices' = [slices EXCEPT ![s][n] = e] /\ nSlices' = nSlices
    BY <1>3, <2>1, ZenonT(60) DEF MarkNodeUnavailable, RevivalInv, IInv, TypeOK
  <2>5. e.fails >= slices[s][n].fails
    BY <2>2, <2>3
  <2>6. QED
    <3> HIDE DEF s, e
    <3>1. QED BY <2>1, <2>2, <2>3, <2>4, <2>5, StaysDown, Zenon
<1>4. ASSUME NEW p \in published, NEW n \in Nodes, NEW on \in BOOLEAN,
             SetNodeEnabled(p, n, on)
      PROVE  /\ Unallocated'
             /\ \A r \in SliceId, m \in Nodes : RevivedByAnswer(r, m)
  <2> DEFINE s == pools[p].slice
             e == [slices[s][n] EXCEPT !.enabled = on]
  <2>1. s \in SliceId
    BY DEF RevivalInv, IInv, TypeOK, Pool
  <2>2. slices[s][n] \in Entry /\ slices[s][n].fails \in Nat
    BY <2>1 DEF RevivalInv, IInv, TypeOK, Entry
  <2>3. /\ e \in Entry /\ e.present = slices[s][n].present
        /\ (e.alive <=> slices[s][n].alive) /\ e.fails = slices[s][n].fails
    BY <2>2 DEF Entry
  <2>4. slices' = [slices EXCEPT ![s][n] = e] /\ nSlices' = nSlices
    BY <1>4, <2>1 DEF SetNodeEnabled, RevivalInv, IInv, TypeOK
  <2>5. e.fails >= slices[s][n].fails
    BY <2>2, <2>3
  <2>6. QED
    <3> HIDE DEF s, e
    <3>1. QED BY <2>1, <2>2, <2>3, <2>4, <2>5, StaysDown, Zenon
<1>5. ASSUME NEW p \in published, NEW ns \in SUBSET Nodes,
             NEW enabled \in SUBSET Nodes, RefreshSubscription(p, ns, enabled)
      PROVE  /\ Unallocated'
             /\ \A r \in SliceId, m \in Nodes : RevivedByAnswer(r, m)
  BY <1>5, NewSlice DEF RefreshSubscription
<1>6. ASSUME NEW l \in Loaders, NEW entries, AddPool(l, entries)
      PROVE  /\ Unallocated'
             /\ \A r \in SliceId, m \in Nodes : RevivedByAnswer(r, m)
  BY <1>6, NewSlice DEF AddPool
<1>7. ASSUME NEW l \in Loaders, Loader(l)
      PROVE  /\ Unallocated'
             /\ \A r \in SliceId, m \in Nodes : RevivedByAnswer(r, m)
  <2>1. CASE \E ns, enabled \in SUBSET Nodes : BuildFresh(l, ns, enabled)
    BY <1>6, <2>1 DEF BuildFresh
  <2>2. CASE \E enabled \in SUBSET Nodes : BuildPreserved(l, enabled)
    BY <1>6, <2>2 DEF BuildPreserved
  <2>3. CASE (\E cfg \in Configs : BeginLoad(l, cfg)) \/ FinishLoad(l) \/ AbortLoad(l)
    BY <1>1, <2>3 DEF BeginLoad, FinishLoad, AbortLoad
  <2>4. QED BY <1>7, <2>1, <2>2, <2>3 DEF Loader
<1>8. CASE \/ StartRound
           \/ \E pr \in probes : AnswerProbe(pr)
           \/ \E t \in Testers, n \in Nodes : StartTest(t, n)
           \/ \E k \in MaxFails : UpdateDefaults(k)
           \/ \E n \in Nodes : ToggleNode(n)
           \/ UNCHANGED vars
  BY <1>1, <1>8
  DEF StartRound, AnswerProbe, StartTest, UpdateDefaults, ToggleNode, vars
<1>9. QED
  BY <1>2, <1>3, <1>4, <1>5, <1>7, <1>8
  DEF Next, Checker, Admin, Proxy, Refresher

LEMMA RevivalInit == Init => RevivalInv
<1> SUFFICES ASSUME Init PROVE Unallocated
  BY InitIInv DEF RevivalInv
<1>1. \E ns, enabled : slices = [s \in SliceId |->
         IF s = 1 THEN BuildEntries(ns, enabled) ELSE BuildEntries({}, {})]
  BY DEF Init
<1>2. nSlices = 1
  BY DEF Init
<1>3. ASSUME NEW s \in SliceId, NEW n \in Nodes, s > 1
      PROVE  ~slices[s][n].present
  <2>1. slices[s] = BuildEntries({}, {})
    BY <1>1, <1>3
  <2>2. QED BY <2>1 DEF BuildEntries, Absent
<1>4. QED BY <1>2, <1>3 DEF Unallocated

\* An entry that is down, an orphaned one included, comes up only by an answer
\* to a probe of that entry, and until then its count never goes down: no
\* reload, refresh, failing request or change of the settings revives it
\* (updateNodeHealth, MarkNodeUnavailable, RefreshSubscription, LoadFromFile).
THEOREM RevivalNeedsAnswer == Spec => RevivedOnlyByAnswer
<1>1. RevivalInv /\ [Next]_vars => RevivalInv'
  BY RevivalStep
<1>2. RevivalInv /\ [Next]_vars
        => [\A s \in SliceId, n \in Nodes : RevivedByAnswer(s, n)]_vars
  BY RevivalStep
<1>3. QED
  BY <1>1, <1>2, RevivalInit, PTL DEF Spec, RevivedOnlyByAnswer

=============================================================================
