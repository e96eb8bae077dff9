----------------------- MODULE SubscriptionPoolProofs -----------------------
(***************************************************************************)
(* Proofs about SubscriptionPool: types, and that a failure stays visible, *)
(* for any number of calls in progress, any addresses, configurations and  *)
(* versions; and with one call at a time that the pool is a                *)
(* SubscriptionService and that its cache is not behind the nodes in use.  *)
(***************************************************************************)
EXTENDS SubscriptionPool, TLAPS

-----------------------------------------------------------------------------
(* Records                                                                 *)

LEMMA ObjRecord ==
    ASSUME NEW cfg \in Configs, NEW nodes \in Content, NEW failed \in BOOLEAN,
           NEW last \in Result, NEW brought \in Content
    PROVE  [cfg |-> cfg, nodes |-> nodes, failed |-> failed, last |-> last,
            brought |-> brought] \in Obj
  BY Zenon DEF Obj

LEMMA ObjFields ==
    ASSUME NEW o \in Obj
    PROVE  /\ o.cfg \in Configs
           /\ o.nodes \in Content
           /\ o.failed \in BOOLEAN
           /\ o.last \in Result
           /\ o.brought \in Content
  BY Zenon DEF Obj

LEMMA TaskRecord ==
    ASSUME NEW stage \in Stage, NEW load \in BOOLEAN,
           NEW pool \in Objs \cup {NoPool}, NEW cfg \in Configs,
           NEW todo \in SUBSET Addrs, NEW got \in Content, NEW heard \in Result,
           NEW built \in Obj
    PROVE  [stage |-> stage, load |-> load, pool |-> pool, cfg |-> cfg,
            todo |-> todo, got |-> got, heard |-> heard, built |-> built] \in Task
  BY Zenon DEF Task

LEMMA TaskFields ==
    ASSUME NEW task \in Task
    PROVE  /\ task.stage \in Stage
           /\ task.load \in BOOLEAN
           /\ task.pool \in Objs \cup {NoPool}
           /\ task.cfg \in Configs
           /\ task.todo \in SUBSET Addrs
           /\ task.got \in Content
           /\ task.heard \in Result
           /\ task.built \in Obj
  BY Zenon DEF Task

\* The ways a handler changes a call's record.
LEMMA TaskStage ==
    ASSUME NEW task \in Task, NEW stage \in Stage
    PROVE  [task EXCEPT !.stage = stage] \in Task
  BY Zenon DEF Task

LEMMA TaskFetched ==
    ASSUME NEW task \in Task, NEW stage \in Stage, NEW todo \in SUBSET Addrs,
           NEW got \in Content, NEW heard \in Result
    PROVE  [task EXCEPT !.got = got, !.todo = todo, !.heard = heard,
                        !.stage = stage] \in Task
  BY Zenon DEF Task

LEMMA TaskRefreshing ==
    ASSUME NEW task \in Task, NEW pool \in Objs
    PROVE  [task EXCEPT !.stage = "fetching", !.load = FALSE,
                        !.pool = pool, !.todo = Addrs] \in Task
  BY Zenon DEF Task, Stage

LEMMA TaskBuilt ==
    ASSUME NEW task \in Task, NEW stage \in Stage, NEW built \in Obj
    PROVE  [task EXCEPT !.stage = stage, !.built = built] \in Task
  BY Zenon DEF Task

LEMMA EmptyContent == NoNodes \in Content
  BY VersionAssumption DEF NoNodes, Content

LEMMA PreparedContent ==
    ASSUME NEW cfg, NEW c \in Content
    PROVE  Prepare(cfg, c) \in Content
  BY EmptyContent DEF Prepare

\* An attempt that failed leaves the nodes alone and the pool shown as failed.
LEMMA MissedOK ==
    ASSUME NEW o \in Obj
    PROVE  /\ Missed(o, TRUE) \in Obj
           /\ Missed(o, TRUE).nodes = o.nodes
           /\ Missed(o, TRUE).failed
           /\ Honest(Missed(o, TRUE))
  <1>1. Missed(o, TRUE) \in Obj
    BY EmptyContent, Zenon DEF Missed, Obj, Result
  <1>2. /\ Missed(o, TRUE).nodes = o.nodes
        /\ Missed(o, TRUE).failed = TRUE
        /\ Missed(o, TRUE).last = "failure"
    BY Zenon DEF Missed, Obj
  <1>3. Honest(Missed(o, TRUE))
    BY <1>2 DEF Honest
  <1>4. QED
    BY <1>1, <1>2, <1>3

\* So does whatever puts other nodes into a pool that is shown as failed.
LEMMA ReplacedOK ==
    ASSUME NEW o \in Obj, Honest(o), o.failed, NEW nodes \in Content
    PROVE  /\ [o EXCEPT !.nodes = nodes] \in Obj
           /\ [o EXCEPT !.nodes = nodes].nodes = nodes
           /\ [o EXCEPT !.nodes = nodes].failed
           /\ Honest([o EXCEPT !.nodes = nodes])
  <1> DEFINE new == [o EXCEPT !.nodes = nodes]
  <1>1. new \in Obj
    BY Zenon DEF Obj
  <1>2. new.nodes = nodes /\ new.failed = o.failed /\ new.last = o.last
    BY Zenon DEF Obj
  <1>3. o.last = "failure"
    BY DEF Honest
  <1> HIDE DEF new
  <1>4. Honest(new)
    BY <1>2, <1>3 DEF Honest
  <1>5. QED
    BY <1>1, <1>2, <1>4 DEF new

\* A call the source gave a list to leaves exactly what it brought.
LEMMA FilledOK ==
    ASSUME NEW t, tasks[t].heard = "success", tasks[t].got \in Content, NEW o \in Obj
    PROVE  LET new == Filled(o, Prepare(o.cfg, tasks[t].got), FALSE, t)
           IN /\ new \in Obj
              /\ new.nodes = Prepare(o.cfg, tasks[t].got)
              /\ ~new.failed
              /\ Honest(new)
  <1> DEFINE new == Filled(o, Prepare(o.cfg, tasks[t].got), FALSE, t)
  <1>1. Prepare(o.cfg, tasks[t].got) \in Content /\ tasks[t].heard \in Result
    BY PreparedContent DEF Result
  <1>2. new \in Obj
    BY <1>1, Zenon DEF Filled, Obj
  <1>3. /\ new.cfg = o.cfg
        /\ new.nodes = Prepare(o.cfg, tasks[t].got)
        /\ new.failed = FALSE
        /\ new.last = tasks[t].heard
        /\ new.brought = tasks[t].got
    BY Zenon DEF Filled, Obj
  <1> HIDE DEF new
  <1>4. Honest(new)
    BY <1>3 DEF Honest
  <1>5. QED
    BY <1>2, <1>3, <1>4 DEF new

LEMMA EmptyPoolOK ==
    ASSUME NEW cfg \in Configs
    PROVE  EmptyPool(cfg) \in Obj /\ Honest(EmptyPool(cfg))
  BY EmptyContent, ObjRecord DEF EmptyPool, Result, Honest

LEMMA BlankOK == Blank \in Obj /\ Honest(Blank)
  <1>1. AnyConfig \in Configs
    BY ConfigsAssumption DEF AnyConfig
  <1>2. QED
    BY <1>1, EmptyPoolOK DEF Blank

LEMMA NoTaskOK == NoTask \in Task /\ StageOK(NoTask) /\ NoTask.built = Blank
  <1>1. AnyConfig \in Configs
    BY ConfigsAssumption DEF AnyConfig
  <1>2. NoTask \in Task
    BY <1>1, BlankOK, EmptyContent, TaskRecord, Zenon DEF NoTask, Stage, Result
  <1>3. StageOK(NoTask) /\ NoTask.built = Blank
    BY DEF NoTask, StageOK
  <1>4. QED
    BY <1>2, <1>3

-----------------------------------------------------------------------------
(* The inductive invariant                                                 *)

PoolInv == TypeOK /\ FailureVisible

\* A call that changes its own record to a well-formed and honest one, objects
\* and cache staying what they should be, keeps the invariant.
LEMMA CallStep ==
    ASSUME PoolInv, NEW t \in Tasks, NEW task \in Task, StageOK(task),
           Honest(task.built), tasks' = [tasks EXCEPT ![t] = task],
           objs' \in [Objs -> Obj], \A o \in Objs : Honest(objs'[o]),
           current' \in Objs \cup {NoPool},
           cache' \in Content, UNCHANGED <<remote, answer>>
    PROVE  PoolInv'
  <1>1. TypeOK'
    BY DEF PoolInv, TypeOK
  <1>2. ASSUME NEW u \in Tasks PROVE Honest(tasks'[u].built)
    BY DEF PoolInv, TypeOK, FailureVisible
  <1>3. FailureVisible'
    BY <1>2 DEF FailureVisible, Honest
  <1>4. QED
    BY <1>1, <1>3 DEF PoolInv

\* The same for a call that only changes its record.
LEMMA RecordStep ==
    ASSUME PoolInv, NEW t \in Tasks, NEW task \in Task, StageOK(task),
           Honest(task.built), tasks' = [tasks EXCEPT ![t] = task],
           UNCHANGED <<objs, current, cache, remote, answer>>
    PROVE  PoolInv'
  <1>1. /\ objs' \in [Objs -> Obj]
        /\ \A o \in Objs : Honest(objs'[o])
        /\ current' \in Objs \cup {NoPool}
        /\ cache' \in Content
    BY DEF PoolInv, TypeOK, FailureVisible
  <1>2. QED
    BY <1>1, CallStep

LEMMA InvAt ==
    ASSUME PoolInv, NEW t \in Tasks
    PROVE  /\ tasks[t] \in Task
           /\ StageOK(tasks[t])
           /\ tasks[t].built \in Obj
           /\ Honest(tasks[t].built)
  BY TaskFields DEF PoolInv, TypeOK, FailureVisible

LEMMA InitOK == Init => PoolInv
  <1> SUFFICES ASSUME Init PROVE PoolInv
    OBVIOUS
  <1>1. objs \in [Objs -> Obj] /\ tasks \in [Tasks -> Task]
    BY BlankOK, NoTaskOK DEF Init
  <1>2. cache \in Content /\ remote \in [Addrs -> 1 .. MaxVersion]
    BY EmptyContent, VersionAssumption DEF Init
  <1>3. \A t \in Tasks : StageOK(tasks[t])
    BY NoTaskOK DEF Init
  <1>4. FailureVisible
    BY BlankOK, NoTaskOK DEF Init, FailureVisible
  <1>5. QED
    BY <1>1, <1>2, <1>3, <1>4 DEF Init, TypeOK, PoolInv

-----------------------------------------------------------------------------
(* Steps of a call                                                         *)

LEMMA FetchAddrOK ==
    ASSUME PoolInv, NEW t \in Tasks, NEW a \in Addrs, FetchAddr(t, a)
    PROVE  PoolInv'
  <1> DEFINE got   == [tasks[t].got EXCEPT ![a] = IF answer[a] = "nodes" THEN remote[a] ELSE 0]
             todo  == tasks[t].todo \ {a}
             fails == got = NoNodes /\ (Addrs # {a} \/ answer[a] = "error")
             stage == IF todo # {} THEN "fetching" ELSE IF fails THEN "failed" ELSE "answered"
             heard == Heard(a, got, todo)
             next  == [tasks[t] EXCEPT !.got = got, !.todo = todo, !.heard = heard,
                                       !.stage = stage]
  <1>1. tasks[t] \in Task /\ StageOK(tasks[t])
    BY InvAt
  <1>2. tasks[t].got \in Content /\ tasks[t].todo \in SUBSET Addrs
    BY <1>1, TaskFields
  <1>3. got \in Content
    BY <1>2, VersionAssumption DEF PoolInv, TypeOK, Content
  <1>4. todo \in SUBSET Addrs /\ stage \in Stage /\ heard \in Result
    BY <1>2 DEF Stage, Heard, Result
  <1>5. next \in Task
    <2> HIDE DEF got, todo, stage, heard
    <2>1. QED
      BY <1>1, <1>3, <1>4, TaskFetched
  <1>6. StageOK(next) /\ next.built = tasks[t].built
    <2>1. /\ next.stage = stage /\ next.load = tasks[t].load
          /\ next.pool = tasks[t].pool /\ next.todo = todo /\ next.got = got
          /\ next.heard = heard /\ next.built = tasks[t].built
      <3> HIDE DEF got, todo, stage, heard
      <3>1. QED
        BY <1>1 DEF Task
    <2>2. answer[a] \in Answer /\ tasks[t].stage = "fetching"
      BY DEF FetchAddr, PoolInv, TypeOK
    <2>3. answer[a] = "nodes" => got # NoNodes
      <3>1. answer[a] = "nodes" => got[a] = remote[a]
        BY <1>2 DEF Content
      <3>2. remote[a] # 0 /\ NoNodes[a] = 0
        BY VersionAssumption DEF PoolInv, TypeOK, NoNodes
      <3> HIDE DEF got
      <3>3. QED
        BY <3>1, <3>2
    <2>4. /\ stage \in {"fetching", "failed", "answered"}
          /\ stage = "fetching" => todo # {}
          /\ stage = "answered" => /\ heard = "success"
                                   /\ got # NoNodes \/ Addrs = {a}
          /\ stage = "failed" => got = NoNodes /\ heard = "failure"
      <3> HIDE DEF got, todo
      <3>1. QED
        BY <2>2, <2>3 DEF Heard, Answer
    <2> HIDE DEF next, got, todo, stage, heard
    <2>5. QED
      BY <1>1, <2>1, <2>2, <2>4 DEF StageOK
  <1>7. tasks' = [tasks EXCEPT ![t] = next]
    BY DEF FetchAddr
  <1>8. QED
    <2> HIDE DEF next
    <2>1. QED
      BY <1>5, <1>6, <1>7, InvAt, RecordStep DEF FetchAddr

LEMMA SaveCacheOK ==
    ASSUME PoolInv, NEW t \in Tasks, SaveCache(t)
    PROVE  PoolInv'
  <1> DEFINE next == [tasks[t] EXCEPT !.stage = "saved"]
  <1>1. tasks[t] \in Task /\ StageOK(tasks[t])
    BY InvAt
  <1>2. next \in Task
    BY <1>1, TaskStage DEF Stage
  <1>3. StageOK(next) /\ next.built = tasks[t].built
    BY <1>1 DEF StageOK, SaveCache, Task
  <1>4. tasks' = [tasks EXCEPT ![t] = next]
    BY DEF SaveCache
  <1>5. cache' \in Content
    BY <1>1, TaskFields DEF SaveCache, PoolInv, TypeOK
  <1>6. /\ objs' \in [Objs -> Obj]
        /\ \A o \in Objs : Honest(objs'[o])
        /\ current' \in Objs \cup {NoPool}
    BY DEF SaveCache, PoolInv, TypeOK, FailureVisible
  <1>7. QED
    <2> HIDE DEF next
    <2>1. QED
      BY <1>2, <1>3, <1>4, <1>5, <1>6, InvAt, CallStep DEF SaveCache

LEMMA ReturnOK ==
    ASSUME PoolInv, NEW t \in Tasks, Return(t),
           objs' \in [Objs -> Obj], \A o \in Objs : Honest(objs'[o]),
           current' \in Objs \cup {NoPool}, UNCHANGED <<cache, remote, answer>>
    PROVE  PoolInv'
  <1>1. NoTask \in Task /\ StageOK(NoTask) /\ Honest(NoTask.built)
    BY NoTaskOK, BlankOK
  <1>2. cache' \in Content
    BY DEF PoolInv, TypeOK
  <1>3. tasks' = [tasks EXCEPT ![t] = NoTask]
    BY DEF Return
  <1>4. QED
    BY <1>1, <1>2, <1>3, CallStep

\* A refresh writes the Pool object it took at its start.
LEMMA RefreshEndsOK ==
    ASSUME PoolInv, NEW t \in Tasks, ApplyRefresh(t) \/ FailRefresh(t)
    PROVE  PoolInv'
  <1>1. tasks[t] \in Task /\ StageOK(tasks[t])
    BY InvAt
  <1>2. tasks[t].pool \in Objs
    BY <1>1, TaskFields DEF ApplyRefresh, FailRefresh, StageOK
  <1>3. objs \in [Objs -> Obj] /\ \A o \in Objs : Honest(objs[o])
    BY DEF PoolInv, TypeOK, FailureVisible
  <1>4. PICK b \in Obj :
          /\ Honest(b)
          /\ objs' = [objs EXCEPT ![tasks[t].pool] = b]
    <2> DEFINE p      == tasks[t].pool
               old    == objs[p]
               fresh  == Filled(old, Prepare(old.cfg, tasks[t].got), FALSE, t)
    <2>1. old \in Obj
      BY <1>2, <1>3
    <2>2. CASE objs' = [objs EXCEPT ![p] = Missed(old, TRUE)]
      BY <2>1, <2>2, MissedOK
    <2>3. CASE objs' = [objs EXCEPT ![p] = fresh] /\ tasks[t].stage = "saved"
      <3>1. tasks[t].heard = "success" /\ tasks[t].got \in Content
        BY <1>1, <2>3, TaskFields DEF StageOK
      <3>2. fresh \in Obj /\ Honest(fresh)
        BY <2>1, <3>1, FilledOK
      <3> HIDE DEF fresh
      <3>3. QED
        BY <2>3, <3>2
    <2>4. QED
      BY <2>2, <2>3 DEF ApplyRefresh, FailRefresh
  <1>5. objs' \in [Objs -> Obj] /\ \A o \in Objs : Honest(objs'[o])
    <2>1. objs' = [objs EXCEPT ![tasks[t].pool] = b]
      BY <1>4
    <2>2. QED
      BY <1>2, <1>3, <1>4, <2>1
  <1>6. Return(t) /\ current' \in Objs \cup {NoPool} /\ UNCHANGED <<cache, remote, answer>>
    BY DEF ApplyRefresh, FailRefresh, PoolInv, TypeOK
  <1>7. QED
    BY <1>5, <1>6, ReturnOK

LEMMA BeginRefreshOK ==
    ASSUME PoolInv, NEW t \in Tasks, BeginRefresh(t)
    PROVE  PoolInv'
  <1> DEFINE next == [tasks[t] EXCEPT !.stage = "fetching", !.load = FALSE,
                                      !.pool = current, !.todo = Addrs]
  <1>1. tasks[t] \in Task /\ current \in Objs
    BY DEF BeginRefresh, PoolInv, TypeOK
  <1>2. next \in Task
    BY <1>1, TaskRefreshing
  <1>3. StageOK(next) /\ next.built = tasks[t].built
    BY <1>1, AddrsAssumption, ObjsAssumption DEF StageOK, Task
  <1>4. tasks' = [tasks EXCEPT ![t] = next]
    BY DEF BeginRefresh
  <1>5. QED
    <2> HIDE DEF next
    <2>1. QED
      BY <1>2, <1>3, <1>4, InvAt, RecordStep DEF BeginRefresh

LEMMA BeginLoadOK ==
    ASSUME PoolInv, NEW t \in Tasks, NEW cfg \in Configs, BeginLoad(t, cfg)
    PROVE  PoolInv'
  <1> DEFINE stage == IF cfg = "off" THEN "built" ELSE "fetching"
             todo  == IF cfg = "off" THEN {} ELSE Addrs
             next  == [stage |-> stage, load |-> TRUE, pool |-> current,
                       cfg |-> cfg, todo |-> todo, got |-> NoNodes,
                       heard |-> "unasked", built |-> EmptyPool(cfg)]
  <1>1. stage \in Stage /\ todo \in SUBSET Addrs
    BY DEF Stage
  <1>2. current \in Objs \cup {NoPool}
    BY DEF PoolInv, TypeOK
  <1>3. NoNodes \in Content /\ EmptyPool(cfg) \in Obj /\ Honest(EmptyPool(cfg))
    BY EmptyContent, EmptyPoolOK
  <1>4. next \in Task
    <2> HIDE DEF stage, todo
    <2>1. TRUE \in BOOLEAN /\ "unasked" \in Result
      BY DEF Result
    <2>2. QED
      BY <1>1, <1>2, <1>3, <2>1, TaskRecord, Zenon
  <1>5. StageOK(next)
    BY AddrsAssumption DEF StageOK
  <1>6. tasks' = [tasks EXCEPT ![t] = next] /\ next.built = EmptyPool(cfg)
    BY DEF BeginLoad
  <1>7. QED
    <2> HIDE DEF next
    <2>1. QED
      BY <1>3, <1>4, <1>5, <1>6, RecordStep DEF BeginLoad

\* A load puts a pool it built into its record.
LEMMA BuiltStep ==
    ASSUME PoolInv, NEW t \in Tasks, NEW stage \in {"built", "ready"},
           NEW pool \in Obj, Honest(pool),
           tasks[t].load, tasks[t].stage # "idle",
           tasks' = [tasks EXCEPT ![t] =
                       [tasks[t] EXCEPT !.stage = stage, !.built = pool]],
           UNCHANGED <<objs, current, cache, remote, answer>>
    PROVE  PoolInv'
  <1> DEFINE next == [tasks[t] EXCEPT !.stage = stage, !.built = pool]
  <1>1. tasks[t] \in Task /\ StageOK(tasks[t])
    BY InvAt
  <1>2. next \in Task
    BY <1>1, TaskBuilt DEF Stage
  <1>3. StageOK(next) /\ next.built = pool
    BY <1>1 DEF StageOK, Task
  <1>4. QED
    <2> HIDE DEF next
    <2>1. tasks' = [tasks EXCEPT ![t] = next]
      BY DEF next
    <2>2. QED
      BY <1>2, <1>3, <2>1, RecordStep

LEMMA BuildFetchedOK ==
    ASSUME PoolInv, NEW t \in Tasks, BuildFetched(t)
    PROVE  PoolInv'
  <1> DEFINE cfg   == tasks[t].cfg
             old   == EmptyPool(cfg)
             fresh == Filled(old, Prepare(cfg, tasks[t].got), FALSE, t)
             pool  == IF PrepareFails(cfg) THEN Missed(old, TRUE) ELSE fresh
  <1>1. cfg \in Configs /\ tasks[t].got \in Content
    BY InvAt, TaskFields
  <1>2. tasks[t].heard = "success"
    BY InvAt DEF BuildFetched, StageOK
  <1>3. old \in Obj /\ old.cfg = cfg
    BY <1>1, EmptyPoolOK DEF EmptyPool
  <1>4. Missed(old, TRUE) \in Obj /\ Honest(Missed(old, TRUE))
    BY <1>3, MissedOK
  <1>5. fresh \in Obj /\ Honest(fresh)
    <2> HIDE DEF old
    <2>1. QED
      BY <1>1, <1>2, <1>3, FilledOK
  <1>6. pool \in Obj /\ Honest(pool)
    <2> HIDE DEF old, fresh
    <2>1. QED
      BY <1>4, <1>5
  <1>7. tasks' = [tasks EXCEPT ![t] = [tasks[t] EXCEPT !.stage = "built", !.built = pool]]
    BY DEF BuildFetched, Built
  <1>8. QED
    <2> HIDE DEF pool
    <2>1. QED
      BY <1>6, <1>7, BuiltStep DEF BuildFetched, Built

\* A pool whose fetch failed, with whatever nodes it then gets.
LEMMA MissedWithOK ==
    ASSUME NEW o \in Obj, NEW nodes \in Content
    PROVE  LET new == [Missed(o, TRUE) EXCEPT !.nodes = nodes]
           IN new \in Obj /\ new.nodes = nodes /\ new.failed /\ Honest(new)
  BY MissedOK, ReplacedOK

LEMMA BuildRestoredOK ==
    ASSUME PoolInv, NEW t \in Tasks, BuildRestored(t)
    PROVE  PoolInv'
  <1> DEFINE old == EmptyPool(tasks[t].cfg)
  <1>1. tasks[t].cfg \in Configs /\ cache \in Content
    BY InvAt, TaskFields DEF PoolInv, TypeOK
  <1>2. PICK nodes \in Content : Built(t, [Missed(old, TRUE) EXCEPT !.nodes = nodes])
    BY <1>1, PreparedContent, EmptyContent DEF BuildRestored
  <1> DEFINE pool == [Missed(old, TRUE) EXCEPT !.nodes = nodes]
  <1>3. pool \in Obj /\ Honest(pool)
    BY <1>1, EmptyPoolOK, MissedWithOK
  <1>4. tasks' = [tasks EXCEPT ![t] = [tasks[t] EXCEPT !.stage = "built", !.built = pool]]
    BY <1>2 DEF Built
  <1>5. QED
    <2> HIDE DEF pool
    <2>1. UNCHANGED <<objs, current, cache, remote, answer>>
      BY <1>2 DEF Built
    <2>2. QED
      BY <1>3, <1>4, <2>1, BuiltStep DEF BuildRestored

LEMMA KeepPreviousOK ==
    ASSUME PoolInv, NEW t \in Tasks, KeepPrevious(t)
    PROVE  PoolInv'
  <1> DEFINE b    == tasks[t].built
             p    == tasks[t].pool
             kept == [b EXCEPT !.nodes = objs[p].nodes]
  <1>1. b \in Obj /\ Honest(b)
    BY InvAt
  <1>2. tasks[t].load /\ tasks[t].stage # "idle"
    BY InvAt, SMTT(30) DEF KeepPrevious, StageOK
  <1>3. ASSUME b.failed, p # NoPool PROVE kept \in Obj /\ Honest(kept)
    <2>1. p \in Objs
      BY <1>3, InvAt, TaskFields
    <2>2. objs[p] \in Obj
      BY <2>1 DEF PoolInv, TypeOK
    <2>3. objs[p].nodes \in Content
      BY <2>2, ObjFields, SMTT(30)
    <2>4. QED
      <3> HIDE DEF b, p
      <3>1. QED
        BY <1>1, <1>3, <2>3, ReplacedOK
  <1>4. PICK pool \in Obj :
          /\ Honest(pool)
          /\ tasks' = [tasks EXCEPT ![t] =
                         [tasks[t] EXCEPT !.stage = "ready", !.built = pool]]
    <2>1. CASE b.failed /\ p # NoPool /\ objs[p].nodes # NoNodes
      <3>1. tasks' = [tasks EXCEPT ![t] =
                        [tasks[t] EXCEPT !.stage = "ready", !.built = kept]]
        BY <2>1 DEF KeepPrevious
      <3> HIDE DEF kept
      <3>2. QED
        BY <1>3, <2>1, <3>1
    <2>2. CASE ~(b.failed /\ p # NoPool /\ objs[p].nodes # NoNodes)
      <3>1. tasks' = [tasks EXCEPT ![t] =
                        [tasks[t] EXCEPT !.stage = "ready", !.built = b]]
        BY <2>2 DEF KeepPrevious
      <3>2. QED
        BY <1>1, <3>1
    <2>3. QED
      BY <2>1, <2>2
  <1>5. QED
    <2>1. UNCHANGED <<objs, current, cache, remote, answer>>
      BY DEF KeepPrevious
    <2>2. QED
      BY <1>2, <1>4, <2>1, BuiltStep

LEMMA SwapOK ==
    ASSUME PoolInv, NEW t \in Tasks, Swap(t)
    PROVE  PoolInv'
  <1>1. FreshObj(t) \in Objs
    BY DEF Swap, FreshObj
  <1>2. tasks[t].built \in Obj /\ Honest(tasks[t].built)
    BY InvAt
  <1>3. objs \in [Objs -> Obj] /\ \A o \in Objs : Honest(objs[o])
    BY DEF PoolInv, TypeOK, FailureVisible
  <1>4. objs' \in [Objs -> Obj] /\ \A o \in Objs : Honest(objs'[o])
    <2>1. ASSUME NEW o \in Objs
          PROVE  objs'[o] = tasks[t].built \/ objs'[o] = objs[o] \/ objs'[o] = Blank
      BY DEF Swap
    <2>2. ASSUME NEW o \in Objs PROVE objs'[o] \in Obj /\ Honest(objs'[o])
      BY <1>2, <1>3, <2>1, BlankOK
    <2>3. objs' = [o \in Objs |-> objs'[o]]
      BY DEF Swap
    <2>4. QED
      BY <2>2, <2>3
  <1>5. QED
    BY <1>1, <1>4, ReturnOK DEF Swap

LEMMA AbortOK ==
    ASSUME PoolInv, NEW t \in Tasks, Abort(t)
    PROVE  PoolInv'
  BY ReturnOK DEF Abort, PoolInv, TypeOK, FailureVisible

LEMMA CrashOK ==
    ASSUME PoolInv, Crash
    PROVE  PoolInv'
  <1>1. objs' \in [Objs -> Obj] /\ tasks' \in [Tasks -> Task]
    BY BlankOK, NoTaskOK DEF Crash
  <1>2. \A t \in Tasks : StageOK(tasks'[t])
    BY NoTaskOK DEF Crash
  <1>3. TypeOK'
    BY <1>1, <1>2 DEF Crash, PoolInv, TypeOK, StageOK
  <1>4. FailureVisible'
    BY BlankOK, NoTaskOK DEF Crash, FailureVisible, Honest
  <1>5. QED
    BY <1>3, <1>4 DEF PoolInv

LEMMA SourceOK ==
    ASSUME PoolInv, NEW a \in Addrs, Publish(a) \/ Turn(a)
    PROVE  PoolInv'
  <1>1. remote' \in [Addrs -> 1 .. MaxVersion]
    BY VersionAssumption DEF Publish, Turn, PoolInv, TypeOK
  <1>2. answer' \in [Addrs -> Answer]
    BY DEF Publish, Turn, PoolInv, TypeOK
  <1>3. UNCHANGED <<objs, current, tasks, cache>>
    BY DEF Publish, Turn
  <1>4. QED
    BY <1>1, <1>2, <1>3 DEF PoolInv, TypeOK, FailureVisible, StageOK, Honest

-----------------------------------------------------------------------------
(* Theorems                                                                *)

LEMMA NextOK == PoolInv /\ [Next]_vars => PoolInv'
  <1> SUFFICES ASSUME PoolInv, [Next]_vars PROVE PoolInv'
    OBVIOUS
  <1>1. ASSUME NEW t \in Tasks, Refresh(t) PROVE PoolInv'
    BY <1>1, BeginRefreshOK, FetchAddrOK, SaveCacheOK, RefreshEndsOK DEF Refresh
  <1>2. ASSUME NEW t \in Tasks \ Updater, Load(t) PROVE PoolInv'
    BY <1>2, BeginLoadOK, FetchAddrOK, SaveCacheOK, BuildFetchedOK, BuildRestoredOK,
       KeepPreviousOK, SwapOK, AbortOK DEF Load
  <1>3. CASE Crash
    BY <1>3, CrashOK
  <1>4. ASSUME NEW a \in Addrs, Publish(a) \/ Turn(a) PROVE PoolInv'
    BY <1>4, SourceOK
  <1>5. CASE UNCHANGED vars
    BY <1>5 DEF vars, PoolInv, TypeOK, FailureVisible, StageOK, Honest
  <1>6. QED
    BY <1>1, <1>2, <1>3, <1>4, <1>5 DEF Next

LEMMA InvAlways == Spec => []PoolInv
  BY InitOK, NextOK, PTL DEF Spec

\* Every reachable state of the pool is well typed and every call in progress
\* holds what its stage says, however many refreshes and loads overlap
\* (manager.go 172-347, 959-993).
THEOREM TypeCorrect == Spec => []TypeOK
  <1>1. PoolInv => TypeOK
    BY DEF PoolInv
  <1>2. QED
    BY <1>1, InvAlways, PTL

\* docs/subscription-routing.md 36, 38: every Pool object is shown as failed if
\* and only if the last attempt that ended on it failed, and otherwise has just
\* the nodes that attempt brought, or none if nobody asked (status.go 9-24), for
\* any number of overlapping refreshes, loads and crashes, an unreliable disk
\* and every configuration.
THEOREM FailureStaysVisible == Spec => []FailureVisible
  <1>1. PoolInv => FailureVisible
    BY DEF PoolInv
  <1>2. QED
    BY <1>1, InvAlways, PTL

-----------------------------------------------------------------------------
(* Calls that do not overlap                                               *)

OneCall == \A t, u \in Tasks : t = u

\* What the call in progress has to do with the nodes in use and on disk.
OwnPool(task) == task.stage # "idle" => task.pool = current

FromDisk(nodes) == nodes \in {cache, NoNodes}

CallOK(task) ==
    /\ OwnPool(task)
    /\ task.stage = "saved" => DiskFaults \/ FromDisk(task.got)
    /\ task.stage \in {"built", "ready"} /\ ~task.built.failed =>
          DiskFaults \/ FromDisk(task.built.nodes)
    /\ task.stage = "built" /\ task.built.failed => FromDisk(task.built.nodes)
    /\ task.stage = "ready" /\ task.built.failed =>
          \/ task.built.nodes = Shown
          \/ Shown = NoNodes /\ task.built.nodes = cache

CallInv == PoolInv /\ \A t \in Tasks : CallOK(tasks[t])

LEMMA IdleOK == CallOK(NoTask)
  BY DEF CallOK, OwnPool, NoTask

\* A call that is over, the only one there was.
LEMMA ReturnCallOK ==
    ASSUME OneCall, CallInv, NEW t \in Tasks, Return(t)
    PROVE  \A u \in Tasks : CallOK(tasks[u])'
  <1>1. tasks'[t] = NoTask
    BY DEF Return, CallInv, PoolInv, TypeOK
  <1>2. CallOK(tasks[t])'
    BY <1>1 DEF CallOK, OwnPool, NoTask
  <1>3. QED
    BY <1>2 DEF OneCall

LEMMA PreparedFrom ==
    ASSUME NEW cfg, NEW nodes, FromDisk(nodes)
    PROVE  FromDisk(Prepare(cfg, nodes))
  BY DEF FromDisk, Prepare

LEMMA RefreshCallOK ==
    ASSUME OneCall, CallInv, NEW t \in Tasks, Refresh(t)
    PROVE  \A u \in Tasks : CallOK(tasks[u])'
  <1>0. /\ tasks[t] \in Task
        /\ CallOK(tasks[t])
        /\ DOMAIN tasks = Tasks
    BY DEF CallInv, PoolInv, TypeOK
  <1>1. CASE BeginRefresh(t)
    <2>1. tasks'[t].stage = "fetching" /\ tasks'[t].pool = current'
      BY <1>0, <1>1 DEF BeginRefresh, Task
    <2>2. QED
      BY <2>1 DEF CallOK, OwnPool, OneCall
  <1>2. ASSUME NEW a \in Addrs, FetchAddr(t, a)
        PROVE  \A u \in Tasks : CallOK(tasks[u])'
    <2>1. tasks'[t].stage \in {"fetching", "failed", "answered"}
          /\ tasks'[t].pool = tasks[t].pool
      BY <1>0, <1>2 DEF FetchAddr, Task
    <2>2. current' = current /\ tasks[t].stage # "idle"
      BY <1>2 DEF FetchAddr
    <2>3. QED
      BY <1>0, <2>1, <2>2 DEF CallOK, OwnPool, OneCall
  <1>3. CASE SaveCache(t)
    <2>1. tasks'[t].stage = "saved" /\ tasks'[t].pool = tasks[t].pool
          /\ tasks'[t].got = tasks[t].got
      BY <1>0, <1>3 DEF SaveCache, Task
    <2>2. current' = current /\ tasks[t].stage # "idle"
      BY <1>3 DEF SaveCache
    <2>3. DiskFaults \/ tasks[t].got \in {cache', NoNodes}
      BY <1>3 DEF SaveCache
    <2>4. QED
      BY <1>0, <2>1, <2>2, <2>3 DEF CallOK, OwnPool, FromDisk, OneCall
  <1>4. CASE ApplyRefresh(t) \/ FailRefresh(t)
    BY <1>4, ReturnCallOK DEF ApplyRefresh, FailRefresh
  <1>5. QED
    BY <1>1, <1>2, <1>3, <1>4 DEF Refresh

LEMMA LoadCallOK ==
    ASSUME OneCall, CallInv, NEW t \in Tasks, Load(t)
    PROVE  \A u \in Tasks : CallOK(tasks[u])'
  <1>0. /\ tasks[t] \in Task
        /\ StageOK(tasks[t])
        /\ CallOK(tasks[t])
        /\ DOMAIN tasks = Tasks
    BY DEF CallInv, PoolInv, TypeOK
  <1>1. ASSUME NEW cfg \in Configs, BeginLoad(t, cfg)
        PROVE  \A u \in Tasks : CallOK(tasks[u])'
    <2>1. /\ tasks'[t].stage \in {"built", "fetching"}
          /\ tasks'[t].pool = current'
          /\ tasks'[t].built = EmptyPool(cfg)
      BY <1>0, <1>1 DEF BeginLoad
    <2>2. EmptyPool(cfg).nodes = NoNodes /\ EmptyPool(cfg).failed = FALSE
      BY DEF EmptyPool
    <2>3. QED
      BY <2>1, <2>2 DEF CallOK, OwnPool, FromDisk, OneCall
  <1>2. ASSUME NEW a \in Addrs, FetchAddr(t, a)
        PROVE  \A u \in Tasks : CallOK(tasks[u])'
    <2>1. tasks'[t].stage \in {"fetching", "failed", "answered"}
          /\ tasks'[t].pool = tasks[t].pool
      BY <1>0, <1>2 DEF FetchAddr, Task
    <2>2. current' = current /\ tasks[t].stage # "idle"
      BY <1>2 DEF FetchAddr
    <2>3. QED
      BY <1>0, <2>1, <2>2 DEF CallOK, OwnPool, OneCall
  <1>3. CASE SaveCache(t)
    <2>1. tasks'[t].stage = "saved" /\ tasks'[t].pool = tasks[t].pool
          /\ tasks'[t].got = tasks[t].got
      BY <1>0, <1>3 DEF SaveCache, Task
    <2>2. current' = current /\ tasks[t].stage # "idle"
      BY <1>3 DEF SaveCache
    <2>3. DiskFaults \/ tasks[t].got \in {cache', NoNodes}
      BY <1>3 DEF SaveCache
    <2>4. QED
      BY <1>0, <2>1, <2>2, <2>3 DEF CallOK, OwnPool, FromDisk, OneCall
  <1>4. CASE BuildFetched(t)
    <2>1. /\ tasks'[t].stage = "built" /\ tasks'[t].pool = tasks[t].pool
          /\ current' = current /\ cache' = cache /\ tasks[t].stage = "saved"
      BY <1>0, <1>4 DEF BuildFetched, Built, Task
    <2>2. \/ tasks'[t].built.failed /\ tasks'[t].built.nodes = NoNodes
          \/ tasks'[t].built.nodes = Prepare(tasks[t].cfg, tasks[t].got)
             /\ ~tasks'[t].built.failed
      <3> DEFINE cfg   == tasks[t].cfg
                 old   == EmptyPool(cfg)
                 fresh == Filled(old, Prepare(cfg, tasks[t].got), FALSE, t)
      <3>1. cfg \in Configs /\ tasks[t].got \in Content /\ tasks[t].heard = "success"
        BY <1>0, <1>4, TaskFields DEF BuildFetched, StageOK
      <3>2. old \in Obj /\ old.cfg = cfg /\ old.nodes = NoNodes
        BY <3>1, EmptyPoolOK DEF EmptyPool
      <3>3. tasks'[t].built = IF PrepareFails(cfg) THEN Missed(old, TRUE) ELSE fresh
        BY <1>0, <1>4 DEF BuildFetched, Built, Task
      <3> HIDE DEF old
      <3>4. Missed(old, TRUE).nodes = NoNodes /\ Missed(old, TRUE).failed
        BY <3>2, MissedOK
      <3>5. fresh.nodes = Prepare(cfg, tasks[t].got) /\ ~fresh.failed
        BY <3>1, <3>2, FilledOK
      <3> HIDE DEF fresh, cfg
      <3>6. QED
        BY <3>3, <3>4, <3>5 DEF cfg
    <2>3. QED
      BY <1>0, <2>1, <2>2, PreparedFrom DEF CallOK, OwnPool, FromDisk, OneCall
  <1>5. CASE BuildRestored(t)
    <2>1. PICK nodes \in {Prepare(tasks[t].cfg, cache)} \cup
                         (IF DiskFaults THEN {NoNodes} ELSE {}) :
            Built(t, [Missed(EmptyPool(tasks[t].cfg), TRUE) EXCEPT !.nodes = nodes])
      BY <1>5 DEF BuildRestored
    <2>2. /\ tasks'[t].stage = "built" /\ tasks'[t].pool = tasks[t].pool
          /\ tasks'[t].built.failed /\ tasks'[t].built.nodes = nodes
          /\ current' = current /\ cache' = cache
      <3> DEFINE pool == [Missed(EmptyPool(tasks[t].cfg), TRUE) EXCEPT !.nodes = nodes]
      <3>1. cache \in Content /\ tasks[t].cfg \in Configs
        BY <1>0, TaskFields DEF CallInv, PoolInv, TypeOK
      <3>2. nodes \in Content
        BY <2>1, <3>1, PreparedContent, EmptyContent
      <3>3. pool.nodes = nodes /\ pool.failed
        BY <3>1, <3>2, EmptyPoolOK, MissedWithOK
      <3> HIDE DEF pool
      <3>4. Built(t, pool)
        BY <2>1 DEF pool
      <3>5. QED
        BY <1>0, <3>3, <3>4 DEF Built, Task
    <2>3. FromDisk(nodes)
      BY <2>1, PreparedFrom DEF FromDisk
    <2>4. tasks[t].stage # "idle"
      BY <1>5 DEF BuildRestored
    <2>5. QED
      BY <1>0, <2>2, <2>3, <2>4 DEF CallOK, OwnPool, FromDisk, OneCall
  <1>6. CASE KeepPrevious(t)
    <2> DEFINE b == tasks[t].built
               p == tasks[t].pool
    <2>1. /\ tasks'[t].stage = "ready" /\ tasks'[t].pool = p
          /\ UNCHANGED <<objs, current, cache>> /\ tasks[t].stage = "built"
      BY <1>0, <1>6 DEF KeepPrevious, Task
    <2>2. p = current
      BY <1>0, <2>1 DEF CallOK, OwnPool
    <2>3. Shown' = Shown
      BY <2>1 DEF Shown, Running
    <2>4. b \in Obj
      BY <1>0, TaskFields
    <2>5. CASE b.failed /\ p # NoPool /\ objs[p].nodes # NoNodes
      <3>1. tasks'[t].built = [b EXCEPT !.nodes = objs[p].nodes]
        BY <1>0, <1>6, <2>5 DEF KeepPrevious, Task
      <3>2. tasks'[t].built.failed /\ tasks'[t].built.nodes = objs[p].nodes
        <4> HIDE DEF b, p
        <4>1. QED
          BY <2>4, <2>5, <3>1 DEF Obj
      <3>3. tasks'[t].built.nodes = Shown'
        BY <2>2, <2>3, <2>5, <3>2 DEF Shown, Running
      <3>4. QED
        BY <1>0, <2>1, <3>2, <3>3 DEF CallOK, OwnPool, OneCall
    <2>6. CASE ~(b.failed /\ p # NoPool /\ objs[p].nodes # NoNodes)
      <3>1. tasks'[t].built = b
        BY <1>0, <1>6, <2>6 DEF KeepPrevious, Task
      <3>2. b.failed => Shown = NoNodes
        BY <2>2, <2>6 DEF Shown, Running
      <3>3. b.failed => FromDisk(b.nodes)
        BY <1>0, <2>1 DEF CallOK
      <3>4. QED
        BY <1>0, <2>1, <2>3, <3>1, <3>2, <3>3
        DEF CallOK, OwnPool, FromDisk, OneCall
    <2>7. QED
      BY <2>5, <2>6
  <1>7. CASE Swap(t) \/ Abort(t)
    BY <1>7, ReturnCallOK DEF Swap, Abort
  <1>8. QED
    BY <1>1, <1>2, <1>3, <1>4, <1>5, <1>6, <1>7 DEF Load

LEMMA CallInvInit ==
    ASSUME Init
    PROVE  CallInv
  BY InitOK, IdleOK DEF Init, CallInv

LEMMA CallInvStep ==
    ASSUME OneCall, CallInv, [Next]_vars
    PROVE  CallInv'
  <1>1. PoolInv'
    BY NextOK DEF CallInv
  <1>2. ASSUME NEW t \in Tasks, Refresh(t) \/ Load(t)
        PROVE  \A u \in Tasks : CallOK(tasks[u])'
    BY <1>2, RefreshCallOK, LoadCallOK
  <1>3. ASSUME Crash
        PROVE  \A u \in Tasks : CallOK(tasks[u])'
    BY <1>3 DEF Crash, CallOK, OwnPool, NoTask
  <1>4. ASSUME NEW a \in Addrs, Publish(a) \/ Turn(a)
        PROVE  \A u \in Tasks : CallOK(tasks[u])'
    BY <1>4 DEF Publish, Turn, CallInv, CallOK, OwnPool, FromDisk, Shown, Running
  <1>5. ASSUME UNCHANGED vars
        PROVE  \A u \in Tasks : CallOK(tasks[u])'
    BY <1>5 DEF vars, CallInv, CallOK, OwnPool, FromDisk, Shown, Running
  <1>6. QED
    BY <1>1, <1>2, <1>3, <1>4, <1>5 DEF Next, CallInv

-----------------------------------------------------------------------------
(* A subscription pool keeps the promises of a SubscriptionService         *)

LEMMA ServiceInit == Init => Service!Init
  BY DEF Init, Service!Init, Running, Shown, Failed

\* The end of a refresh, on the Pool object in use.
LEMMA RefreshServes ==
    ASSUME OneCall, CallInv, NEW t \in Tasks, ApplyRefresh(t) \/ FailRefresh(t)
    PROVE  Service!Succeed \/ Service!Fail
  <1> DEFINE p     == current
             fresh == Filled(objs[p], Prepare(objs[p].cfg, tasks[t].got), FALSE, t)
             stale == Missed(objs[p], TRUE)
  <1>1. tasks[t] \in Task /\ StageOK(tasks[t]) /\ CallOK(tasks[t])
    BY DEF CallInv, PoolInv, TypeOK
  <1>2. tasks[t].pool = p /\ p \in Objs /\ p # NoPool
    BY <1>1, TaskFields, ObjsAssumption
    DEF ApplyRefresh, FailRefresh, StageOK, CallOK, OwnPool
  <1>3. Running /\ Running' /\ current' = current /\ cache' = cache
    BY <1>2 DEF Running, ApplyRefresh, FailRefresh
  <1>4. objs \in [Objs -> Obj] /\ objs[p] \in Obj
    BY <1>2 DEF CallInv, PoolInv, TypeOK
  <1>5. Shown = objs[p].nodes /\ Shown' = objs'[p].nodes /\ (Failed' <=> objs'[p].failed)
    BY <1>3 DEF Shown, Failed
  <1>6. CASE ApplyRefresh(t) /\ ~PrepareFails(objs[p].cfg)
    <2>1. objs'[p] = fresh
      BY <1>2, <1>4, <1>6 DEF ApplyRefresh
    <2>2. fresh.nodes = Prepare(objs[p].cfg, tasks[t].got) /\ ~fresh.failed
      <3>1. tasks[t].heard = "success" /\ tasks[t].got \in Content
        BY <1>1, <1>6, TaskFields DEF ApplyRefresh, StageOK
      <3>2. QED
        BY <1>4, <3>1, FilledOK
    <2>3. DiskFaults \/ FromDisk(Prepare(objs[p].cfg, tasks[t].got))
      BY <1>1, <1>6, PreparedFrom DEF ApplyRefresh, CallOK
    <2> HIDE DEF fresh
    <2>4. QED
      BY <1>3, <1>5, <2>1, <2>2, <2>3 DEF Service!Succeed, FromDisk
  <1>7. CASE FailRefresh(t) \/ (ApplyRefresh(t) /\ PrepareFails(objs[p].cfg))
    <2>1. objs'[p] = stale
      BY <1>2, <1>4, <1>7 DEF ApplyRefresh, FailRefresh
    <2>2. stale.nodes = objs[p].nodes /\ stale.failed
      BY <1>4, MissedOK
    <2> HIDE DEF stale
    <2>3. QED
      BY <1>3, <1>5, <2>1, <2>2 DEF Service!Fail
  <1>8. QED
    BY <1>6, <1>7

\* The swap at the end of a load: the first one, after a success, or after a
\* failure.
LEMMA SwapServes ==
    ASSUME OneCall, CallInv, NEW t \in Tasks, Swap(t)
    PROVE  Service!Start \/ Service!Succeed \/ Service!Fail
  <1> DEFINE b == tasks[t].built
  <1>1. CallOK(tasks[t]) /\ b \in Obj
    BY InvAt DEF CallInv
  <1>2. b.failed \in BOOLEAN
    BY <1>1, ObjFields
  <1>3. FreshObj(t) \in Objs /\ FreshObj(t) # NoPool
    BY ObjsAssumption DEF Swap, FreshObj
  <1>4. /\ current' = FreshObj(t) /\ objs'[FreshObj(t)] = b /\ cache' = cache
        /\ tasks[t].stage = "ready"
    BY <1>3 DEF Swap
  <1>5. Running' /\ Shown' = b.nodes /\ (Failed' <=> b.failed)
    BY <1>3, <1>4 DEF Running, Shown, Failed
  <1>6. CASE ~b.failed
    <2>1. DiskFaults \/ b.nodes \in {cache, NoNodes}
      BY <1>1, <1>4, <1>6 DEF CallOK, FromDisk
    <2>2. QED
      BY <1>4, <1>5, <1>6, <2>1 DEF Service!Start, Service!Succeed
  <1>7. CASE b.failed
    <2>1. b.nodes = Shown \/ (Shown = NoNodes /\ b.nodes = cache)
      BY <1>1, <1>4, <1>7 DEF CallOK
    <2>2. ~Running => Shown = NoNodes
      BY DEF Shown
    <2>3. QED
      BY <1>4, <1>5, <1>7, <2>1, <2>2 DEF Service!Start, Service!Fail
  <1>8. QED
    BY <1>2, <1>6, <1>7

LEMMA StepServes ==
    ASSUME OneCall, CallInv, [Next]_vars
    PROVE  [Service!Next]_(Service!serviceVars)
  <1>1. ASSUME UNCHANGED <<objs, current, cache>>
        PROVE  UNCHANGED Service!serviceVars
    BY <1>1 DEF Service!serviceVars, Running, Shown, Failed
  <1>2. ASSUME NEW t \in Tasks, SaveCache(t)
        PROVE  Service!Save
    <2>1. cache' \in Content
      BY <1>2, InvAt, TaskFields DEF SaveCache, CallInv, PoolInv, TypeOK
    <2>2. QED
      BY <1>2, <2>1 DEF SaveCache, Service!Save, Running, Shown, Failed
  <1>3. ASSUME NEW t \in Tasks, Refresh(t)
        PROVE  [Service!Next]_(Service!serviceVars)
    <2>1. CASE SaveCache(t) \/ ApplyRefresh(t) \/ FailRefresh(t)
      BY <1>2, <2>1, RefreshServes DEF Service!Next
    <2>2. CASE BeginRefresh(t) \/ \E a \in Addrs : FetchAddr(t, a)
      BY <1>1, <2>2, ZenonT(60) DEF BeginRefresh, FetchAddr
    <2>3. QED
      BY <1>3, <2>1, <2>2 DEF Refresh
  <1>4. ASSUME NEW t \in Tasks, Load(t)
        PROVE  [Service!Next]_(Service!serviceVars)
    <2>1. CASE SaveCache(t) \/ Swap(t)
      BY <1>2, <2>1, SwapServes, SMTT(30) DEF Service!Next
    <2>2. CASE \/ \E cfg \in Configs : BeginLoad(t, cfg)
               \/ \E a \in Addrs : FetchAddr(t, a)
               \/ BuildFetched(t) \/ BuildRestored(t) \/ KeepPrevious(t)
      BY <1>1, <2>2
      DEF BeginLoad, FetchAddr, BuildFetched, BuildRestored, Built, KeepPrevious
    <2>3. CASE Abort(t)
      BY <1>1, <2>3 DEF Abort
    <2>4. QED
      BY <1>4, <2>1, <2>2, <2>3 DEF Load
  <1>5. CASE Crash
    BY <1>5 DEF Crash, Service!Next, Service!Stop, Running, Shown, Failed
  <1>6. ASSUME NEW a \in Addrs, Publish(a) \/ Turn(a)
        PROVE  UNCHANGED Service!serviceVars
    BY <1>1, <1>6 DEF Publish, Turn
  <1>7. CASE UNCHANGED vars
    BY <1>1, <1>7 DEF vars
  <1>8. QED
    BY <1>3, <1>4, <1>5, <1>6, <1>7 DEF Next

\* As long as calls do not overlap the pool is a SubscriptionService, whatever
\* the configuration, the source and the disk do and wherever the process
\* ends: nodes go to disk before they are used, a failure is visible and takes
\* no nodes away, a new process starts from the disk (manager.go 172-347,
\* 959-993).
THEOREM OneCallKeepsPromises ==
    ASSUME OneCall
    PROVE  Spec => Promises
  <1>1. CallInv /\ [Next]_vars => CallInv'
    BY CallInvStep
  <1>2. CallInv /\ [Next]_vars => [Service!Next]_(Service!serviceVars)
    BY StepServes
  <1>3. QED
    BY <1>1, <1>2, CallInvInit, ServiceInit, PTL DEF Spec, Promises, Service!Spec

-----------------------------------------------------------------------------
(* The cache never falls behind                                            *)

\* Versions only grow at the source: what is on disk, in use or on its way was
\* served once, and what is on its way is no older than what is in use.
Aged ==
    \A a \in Addrs :
      /\ cache[a] <= remote[a]
      /\ Shown[a] <= remote[a]
      /\ \A t \in Tasks :
            tasks[t].got[a] = 0 \/ tasks[t].got[a] \in Shown[a] .. remote[a]

AgeInv == CallInv /\ Aged /\ CacheNotBehind

LEMMA ShownContent ==
    ASSUME PoolInv
    PROVE  Shown \in Content
  <1>1. CASE Running
    <2>1. objs[current] \in Obj
      BY <1>1 DEF PoolInv, TypeOK, Running
    <2>2. QED
      BY <1>1, <2>1, ObjFields DEF Shown
  <1>2. CASE ~Running
    BY <1>2, EmptyContent DEF Shown
  <1>3. QED
    BY <1>1, <1>2

LEMMA AgeTypes ==
    ASSUME PoolInv, NEW a \in Addrs
    PROVE  /\ cache[a] \in Nat
           /\ Shown[a] \in Nat
           /\ remote[a] \in Nat
           /\ NoNodes[a] = 0
           /\ \A t \in Tasks : tasks[t].got[a] \in Nat
  <1>1. ASSUME NEW c \in Content PROVE c[a] \in Nat
    BY VersionAssumption DEF Content
  <1>2. \A t \in Tasks : tasks[t].got \in Content
    BY InvAt, TaskFields
  <1>3. cache \in Content /\ remote[a] \in Nat
    BY VersionAssumption DEF PoolInv, TypeOK
  <1>4. NoNodes[a] = 0
    BY DEF NoNodes
  <1>5. QED
    BY <1>1, <1>2, <1>3, <1>4, ShownContent

\* A step that leaves the disk alone and uses what is there.
LEMMA TakenFromDisk ==
    ASSUME PoolInv, PoolInv', Aged, CacheNotBehind, cache' = cache,
           \A a \in Addrs : remote[a] <= remote'[a],
           Shown' \in {cache, NoNodes, Shown},
           \A t \in Tasks : \/ tasks'[t].got = NoNodes
                            \/ tasks'[t].got = tasks[t].got /\ Shown' = Shown
    PROVE  Aged' /\ CacheNotBehind'
  <1>1. ASSUME NEW a \in Addrs
        PROVE  /\ cache'[a] <= remote'[a]
               /\ Shown'[a] <= remote'[a]
               /\ cache'[a] = 0 \/ cache'[a] >= Shown'[a]
               /\ \A t \in Tasks : \/ tasks'[t].got[a] = 0
                                   \/ tasks'[t].got[a] \in Shown'[a] .. remote'[a]
    <2>1. /\ cache[a] \in Nat /\ Shown[a] \in Nat /\ remote[a] \in Nat
          /\ NoNodes[a] = 0
          /\ \A t \in Tasks : tasks[t].got[a] \in Nat
      BY AgeTypes
    <2>2. /\ cache'[a] \in Nat /\ Shown'[a] \in Nat /\ remote'[a] \in Nat
          /\ \A t \in Tasks : tasks'[t].got[a] \in Nat
      BY <2>1, VersionAssumption DEF PoolInv, TypeOK
    <2>3. /\ cache[a] <= remote[a] /\ Shown[a] <= remote[a]
          /\ cache[a] = 0 \/ cache[a] >= Shown[a]
          /\ remote[a] <= remote'[a]
      BY DEF Aged, CacheNotBehind
    <2>4. Shown'[a] \in {cache[a], 0, Shown[a]}
      BY <2>1
    <2>5. ASSUME NEW t \in Tasks
          PROVE  tasks'[t].got[a] = 0 \/ tasks'[t].got[a] \in Shown'[a] .. remote'[a]
      <3>1. CASE tasks'[t].got = NoNodes
        BY <3>1, <2>1
      <3>2. CASE tasks'[t].got = tasks[t].got /\ Shown' = Shown
        <4>1. tasks[t].got[a] = 0 \/ tasks[t].got[a] \in Shown[a] .. remote[a]
          BY DEF Aged
        <4>2. QED
          BY <2>1, <2>2, <2>3, <3>2, <4>1
      <3>3. QED
        BY <3>1, <3>2
    <2>6. QED
      BY <2>1, <2>2, <2>3, <2>4, <2>5
  <1>2. cache' = NoNodes => Shown' = NoNodes
    BY DEF CacheNotBehind
  <1>3. QED
    BY <1>1, <1>2 DEF Aged, CacheNotBehind

\* An address is fetched: what it serves is at least as new as what is in use.
LEMMA FetchAged ==
    ASSUME OneCall, AgeInv, PoolInv', NEW t \in Tasks, NEW b \in Addrs, FetchAddr(t, b)
    PROVE  Aged' /\ CacheNotBehind'
  <1>1. Shown' = Shown /\ cache' = cache /\ remote' = remote
    BY DEF FetchAddr, Shown, Running
  <1>2. tasks[t] \in Task /\ tasks[t].got \in Content /\ PoolInv
    BY InvAt, TaskFields DEF AgeInv, CallInv
  <1> DEFINE got == [tasks[t].got EXCEPT ![b] = IF answer[b] = "nodes" THEN remote[b] ELSE 0]
  <1>3. tasks'[t].got = got
    <2> HIDE DEF got
    <2>1. DOMAIN tasks = Tasks
      BY <1>2 DEF PoolInv, TypeOK
    <2>2. QED
      BY <1>2, <2>1 DEF FetchAddr, Task, got
  <1>4. ASSUME NEW a \in Addrs
        PROVE  got[a] = 0 \/ got[a] \in Shown[a] .. remote[a]
    <2>1. got[a] \in {0, remote[a], tasks[t].got[a]}
      BY <1>2 DEF Content
    <2>2. tasks[t].got[a] = 0 \/ tasks[t].got[a] \in Shown[a] .. remote[a]
      BY DEF AgeInv, Aged
    <2>3. remote[a] \in Shown[a] .. remote[a]
      BY <1>2, AgeTypes DEF AgeInv, Aged
    <2> HIDE DEF got
    <2>4. QED
      BY <2>1, <2>2, <2>3
  <1> HIDE DEF got
  <1>5. \A u \in Tasks : tasks'[u].got = got
    BY <1>3 DEF OneCall
  <1>6. QED
    BY <1>1, <1>4, <1>5 DEF AgeInv, Aged, CacheNotBehind

\* A successful fetch goes to disk.
LEMMA SaveAged ==
    ASSUME ~DiskFaults, AgeInv, PoolInv', NEW t \in Tasks, SaveCache(t)
    PROVE  Aged' /\ CacheNotBehind'
  <1>1. Shown' = Shown /\ remote' = remote
    BY DEF SaveCache, Shown, Running
  <1>2. PoolInv /\ tasks \in [Tasks -> Task]
    BY DEF AgeInv, CallInv, PoolInv, TypeOK
  <1>3. \A u \in Tasks : tasks'[u].got = tasks[u].got
    BY <1>2 DEF SaveCache, Task
  <1>4. cache' = cache \/ (cache' = tasks[t].got /\ tasks[t].got # NoNodes)
    BY DEF SaveCache
  <1>5. ASSUME NEW a \in Addrs
        PROVE  cache'[a] <= remote[a] /\ (cache'[a] = 0 \/ cache'[a] >= Shown[a])
    <2>1. /\ cache[a] \in Nat /\ Shown[a] \in Nat /\ remote[a] \in Nat
          /\ tasks[t].got[a] \in Nat
      BY <1>2, AgeTypes
    <2>2. QED
      BY <1>4, <2>1 DEF AgeInv, Aged, CacheNotBehind
  <1>6. cache' = NoNodes => Shown' = NoNodes
    BY <1>1, <1>4 DEF AgeInv, CacheNotBehind
  <1>7. QED
    BY <1>1, <1>3, <1>5, <1>6 DEF AgeInv, Aged, CacheNotBehind

LEMMA AgeInvInit ==
    ASSUME Init
    PROVE  AgeInv
  <1>1. CallInv /\ Shown = NoNodes /\ \A t \in Tasks : tasks[t].got = NoNodes
    BY CallInvInit DEF Init, Shown, Running, NoTask
  <1>2. QED
    BY <1>1 DEF Init, AgeInv, Aged, CacheNotBehind, NoNodes

LEMMA AgeInvStep ==
    ASSUME OneCall, ~DiskFaults, AgeInv, [Next]_vars
    PROVE  AgeInv'
  <1>1. CallInv /\ PoolInv /\ CallInv' /\ PoolInv' /\ Aged /\ CacheNotBehind
    BY CallInvStep DEF AgeInv, CallInv
  <1>2. tasks \in [Tasks -> Task] /\ \A a \in Addrs : remote[a] \in Nat
    BY <1>1, AgeTypes DEF PoolInv, TypeOK
  <1>3. ASSUME UNCHANGED <<objs, current, cache>>,
               \A a \in Addrs : remote[a] <= remote'[a],
               \A t \in Tasks : tasks'[t].got \in {tasks[t].got, NoNodes}
        PROVE  Aged' /\ CacheNotBehind'
    <2>1. Shown' = Shown
      BY <1>3 DEF Shown, Running
    <2>2. QED
      BY <1>1, <1>3, <2>1, TakenFromDisk
  <1>4. ASSUME NEW t \in Tasks, Return(t), UNCHANGED <<cache, remote>>,
               Shown' \in {cache, NoNodes, Shown}
        PROVE  Aged' /\ CacheNotBehind'
    <2>1. \A u \in Tasks : tasks'[u].got = NoNodes
      BY <1>2, <1>4 DEF Return, NoTask, OneCall
    <2>2. QED
      BY <1>1, <1>2, <1>4, <2>1, TakenFromDisk
  <1>5. ASSUME NEW t \in Tasks, ApplyRefresh(t) \/ FailRefresh(t) \/ Swap(t)
        PROVE  Aged' /\ CacheNotBehind'
    <2>1. Service!Start \/ Service!Succeed \/ Service!Fail
      BY <1>1, <1>5, RefreshServes, SwapServes
    <2>2. Shown' \in {cache, NoNodes, Shown}
      BY <2>1 DEF Service!Start, Service!Succeed, Service!Fail
    <2>3. QED
      BY <1>4, <1>5, <2>2 DEF ApplyRefresh, FailRefresh, Swap
  <1>6. ASSUME NEW t \in Tasks, Refresh(t)
        PROVE  Aged' /\ CacheNotBehind'
    <2>1. CASE BeginRefresh(t)
      <3>1. \A u \in Tasks : tasks'[u].got = tasks[u].got
        BY <1>2, <2>1 DEF BeginRefresh, Task
      <3>2. QED
        BY <1>2, <1>3, <2>1, <3>1 DEF BeginRefresh
    <2>2. ASSUME NEW a \in Addrs, FetchAddr(t, a)
          PROVE  Aged' /\ CacheNotBehind'
      BY <1>1, <2>2, FetchAged DEF AgeInv
    <2>3. CASE SaveCache(t)
      BY <1>1, <2>3, SaveAged DEF AgeInv
    <2>4. QED
      BY <1>5, <1>6, <2>1, <2>2, <2>3 DEF Refresh
  <1>7. ASSUME NEW t \in Tasks, Load(t)
        PROVE  Aged' /\ CacheNotBehind'
    <2>1. ASSUME NEW cfg \in Configs, BeginLoad(t, cfg)
          PROVE  Aged' /\ CacheNotBehind'
      <3>1. tasks'[t].got = NoNodes
        BY <1>2, <2>1 DEF BeginLoad
      <3>2. QED
        BY <1>2, <1>3, <2>1, <3>1 DEF BeginLoad, OneCall
    <2>2. CASE BuildFetched(t) \/ BuildRestored(t) \/ KeepPrevious(t)
      <3>1. PICK stage, pool :
              tasks' = [tasks EXCEPT ![t].stage = stage, ![t].built = pool]
        <4>1. CASE BuildFetched(t)
          BY <4>1, Zenon DEF BuildFetched, Built
        <4>2. CASE BuildRestored(t)
          BY <4>2, Zenon DEF BuildRestored, Built
        <4>3. CASE KeepPrevious(t)
          BY <4>3, Zenon DEF KeepPrevious
        <4>4. QED
          BY <2>2, <4>1, <4>2, <4>3
      <3>2. \A u \in Tasks : tasks'[u].got = tasks[u].got
        BY <1>2, <3>1 DEF Task
      <3>3. UNCHANGED <<objs, current, cache, remote, answer>>
        <4>1. CASE BuildFetched(t)
          BY <4>1, Zenon DEF BuildFetched, Built
        <4>2. CASE BuildRestored(t)
          BY <4>2, Zenon DEF BuildRestored, Built
        <4>3. CASE KeepPrevious(t)
          BY <4>3, Zenon DEF KeepPrevious
        <4>4. QED
          BY <2>2, <4>1, <4>2, <4>3
      <3>4. QED
        BY <1>2, <1>3, <3>2, <3>3
    <2>3. CASE Abort(t)
      <3>1. Shown' = Shown
        BY <2>3 DEF Abort, Shown, Running
      <3>2. QED
        BY <1>4, <2>3, <3>1 DEF Abort
    <2>4. QED
      BY <1>1, <1>5, <1>7, <2>1, <2>2, <2>3, FetchAged, SaveAged DEF Load, AgeInv
  <1>8. ASSUME Crash
        PROVE  Aged' /\ CacheNotBehind'
    <2>1. Shown' = NoNodes /\ \A t \in Tasks : tasks'[t].got = NoNodes
      BY <1>8 DEF Crash, Shown, Running, NoTask
    <2>2. QED
      BY <1>1, <1>2, <1>8, <2>1, TakenFromDisk DEF Crash
  <1>9. ASSUME NEW a \in Addrs, Publish(a) \/ Turn(a)
        PROVE  Aged' /\ CacheNotBehind'
    <2>1. remote \in [Addrs -> Nat]
      BY <1>1, VersionAssumption DEF PoolInv, TypeOK
    <2>2. \A b \in Addrs : remote[b] <= remote'[b]
      BY <1>9, <2>1 DEF Publish, Turn
    <2>3. QED
      BY <1>3, <1>9, <2>2 DEF Publish, Turn
  <1>10. ASSUME UNCHANGED vars
         PROVE  Aged' /\ CacheNotBehind'
    BY <1>2, <1>3, <1>10 DEF vars
  <1>11. QED
    BY <1>1, <1>6, <1>7, <1>8, <1>9, <1>10 DEF Next, AgeInv

\* As long as calls do not overlap and the disk can be written and read, a
\* process that starts while the source is out of reach finds nodes on disk
\* that are no older, address by address, than those its predecessor used
\* (manager.go 959-993, subscription_cache.go), for any number of addresses
\* and versions and every configuration.
THEOREM OneCallKeepsCache ==
    ASSUME OneCall, ~DiskFaults
    PROVE  Spec => []CacheNotBehind
  <1>1. AgeInv /\ [Next]_vars => AgeInv'
    BY AgeInvStep
  <1>2. AgeInv => CacheNotBehind
    BY DEF AgeInv
  <1>3. QED
    BY <1>1, <1>2, AgeInvInit, PTL DEF Spec

=============================================================================
