------------------------- MODULE SubscriptionPool -------------------------
(***************************************************************************)
(* One subscription pool of pool.Manager: its fetches, the cache on disk,  *)
(* the failure flag, reloads that keep the previous nodes, crashes and     *)
(* restarts (internal/pool/manager.go, status.go, subscription.go,         *)
(* subscription_cache.go).                                                 *)
(*                                                                         *)
(* A task is one call in progress: RefreshSubscription by the updater or   *)
(* by the Admin, or LoadFromFile by main, a reload or an Admin edit.  It   *)
(* takes the Pool object m.pools names at its start and talks to the       *)
(* source without any lock.  The content of a pool is, for each address of *)
(* its url, the version of the node list it was fetched from (0: none).    *)
(***************************************************************************)
EXTENDS Naturals, FiniteSets

CONSTANTS
    Addrs,          \* the addresses of the url, fetched one by one
    Tasks,          \* calls that may be in progress at once
    Updater,        \* those made by the subscription updater
    Configs,        \* "on", "rejects-all", "bad-regex", "off"
    DiskFaults,     \* the cache file may be unreadable or unwritable
    Objs,           \* bound: Pool objects alive at once
    NoPool,         \* no pools are loaded yet
    MaxVersion      \* bound: versions of a node list

ASSUME AddrsAssumption   == Addrs # {}
ASSUME TasksAssumption   == Updater \subseteq Tasks
ASSUME ConfigsAssumption ==
    /\ Configs # {}
    /\ Configs \subseteq {"on", "rejects-all", "bad-regex", "off"}
ASSUME FaultsAssumption  == DiskFaults \in BOOLEAN
ASSUME ObjsAssumption    == NoPool \notin Objs
ASSUME VersionAssumption == MaxVersion \in Nat \ {0}

VARIABLES
    objs,           \* Pool objects
    current,        \* the one m.pools names
    tasks,          \* calls in progress
    cache,          \* the entry of the url in subscriptions.json
    remote,         \* environment: the version each address serves
    answer          \* environment: what each address answers with

vars == <<objs, current, tasks, cache, remote, answer>>

\* Nodes, a document that parses and has no supported node, or an error.
Answer == {"nodes", "nothing", "error"}

Content == [Addrs -> 0 .. MaxVersion]
NoNodes == [a \in Addrs |-> 0]

\* How an attempt to get the list ended; "unasked": there was none.
Result == {"unasked", "success", "failure"}

\* `last` and `brought` (not in the code) are the result of the last attempt
\* that ended on this object, and what a successful one brought.
Obj == [cfg : Configs, nodes : Content, failed : BOOLEAN,
        last : Result, brought : Content]

Stage == {"idle", "fetching", "answered", "saved", "failed", "built", "ready"}

\* `heard` (not in the code) is the result as the source gave it.
Task == [stage : Stage, load : BOOLEAN, pool : Objs \cup {NoPool},
         cfg : Configs, todo : SUBSET Addrs, got : Content, heard : Result,
         built : Obj]

EmptyPool(cfg) ==
    [cfg |-> cfg, nodes |-> NoNodes, failed |-> FALSE, last |-> "unasked",
     brought |-> NoNodes]

\* Objects nobody can reach and calls that are over hold this.
AnyConfig == CHOOSE cfg \in Configs : TRUE
Blank     == EmptyPool(AnyConfig)
NoTask    == [stage |-> "idle", load |-> FALSE, pool |-> NoPool,
              cfg |-> AnyConfig, todo |-> {}, got |-> NoNodes,
              heard |-> "unasked", built |-> Blank]

Return(t) == tasks' = [tasks EXCEPT ![t] = NoTask]

\* What the stage of a call says about the rest of it.
StageOK(task) ==
    /\ task.stage = "idle" => task.pool = NoPool
    /\ task.stage = "fetching" => task.todo # {}
    /\ task.stage \in {"answered", "saved"} =>
          task.got # NoNodes \/ \E a \in Addrs : Addrs = {a}
    /\ task.stage \in {"answered", "saved"} => task.heard = "success"
    /\ task.stage = "failed" => task.got = NoNodes /\ task.heard = "failure"
    /\ task.stage \in {"built", "ready"} => task.load
    /\ task.stage # "idle" /\ ~task.load => task.pool # NoPool

TypeOK ==
    /\ objs \in [Objs -> Obj]
    /\ current \in Objs \cup {NoPool}
    /\ tasks \in [Tasks -> Task]
    /\ cache \in Content
    /\ remote \in [Addrs -> 1 .. MaxVersion]
    /\ answer \in [Addrs -> Answer]
    /\ \A t \in Tasks : StageOK(tasks[t])

-----------------------------------------------------------------------------
(* Both kinds of call                                                      *)

\* prepareSubscriptionEntries: the nodes the pool's filters let through.
Prepare(cfg, c) == IF cfg = "on" THEN c ELSE NoNodes
PrepareFails(cfg) == cfg = "bad-regex"

\* The source gave a list: some address did, or the only one answered with a
\* document that has none.
Heard(a, got, todo) ==
    IF todo # {} THEN "unasked"
    ELSE IF got # NoNodes \/ (Addrs = {a} /\ answer[a] = "nothing") THEN "success"
    ELSE "failure"

\* Mutated form: a fetch that brought nothing is not an error.
FetchAddrEmptyOK(t, a) ==
    LET got  == [tasks[t].got EXCEPT ![a] = IF answer[a] = "nodes" THEN remote[a] ELSE 0]
        todo == tasks[t].todo \ {a}
    IN /\ tasks[t].stage = "fetching"
       /\ a \in tasks[t].todo
       /\ tasks' = [tasks EXCEPT ![t].got = got, ![t].todo = todo,
                       ![t].heard = Heard(a, got, todo),
                       ![t].stage = IF todo # {} THEN "fetching" ELSE "answered"]
       /\ UNCHANGED <<objs, current, cache, remote, answer>>

\* Fetch: one address after the other; an address that fails adds no nodes,
\* and only when there are none at all does the fetch fail.  A single address
\* that answers with nothing is a success, though.
FetchAddr(t, a) ==
    LET got   == [tasks[t].got EXCEPT ![a] = IF answer[a] = "nodes" THEN remote[a] ELSE 0]
        todo  == tasks[t].todo \ {a}
        fails == got = NoNodes /\ (Addrs # {a} \/ answer[a] = "error")
    IN /\ tasks[t].stage = "fetching"
       /\ a \in tasks[t].todo
       /\ tasks' = [tasks EXCEPT ![t].got = got, ![t].todo = todo,
                       ![t].heard = Heard(a, got, todo),
                       ![t].stage = IF todo # {} THEN "fetching"
                                    ELSE IF fails THEN "failed"
                                    ELSE "answered"]
       /\ UNCHANGED <<objs, current, cache, remote, answer>>

\* Mutated form: only a complete answer is worth saving.
SaveCacheCompleteOnly(t) ==
    /\ tasks[t].stage = "answered"
    /\ cache' = IF \E a \in Addrs : tasks[t].got[a] = 0
                THEN cache ELSE tasks[t].got
    /\ tasks' = [tasks EXCEPT ![t].stage = "saved"]
    /\ UNCHANGED <<objs, current, remote, answer>>

\* cacheSubscription: written to a temporary file and renamed; an error is
\* only logged, and no nodes are not worth saving.
SaveCache(t) ==
    /\ tasks[t].stage = "answered"
    /\ \/ cache' = IF tasks[t].got = NoNodes THEN cache ELSE tasks[t].got
       \/ DiskFaults /\ UNCHANGED cache
    /\ tasks' = [tasks EXCEPT ![t].stage = "saved"]
    /\ UNCHANGED <<objs, current, remote, answer>>

\* Pool object o after an attempt that failed, and after one of call t that
\* brought nodes; whether it is shown as failed is up to the caller.
Missed(o, shown) ==
    [o EXCEPT !.failed = shown, !.last = "failure", !.brought = NoNodes]

Filled(o, nodes, shown, t) ==
    [o EXCEPT !.nodes = nodes, !.failed = shown, !.last = tasks[t].heard,
              !.brought = tasks[t].got]

-----------------------------------------------------------------------------
(* RefreshSubscription                                                     *)

BeginRefresh(t) ==
    /\ tasks[t].stage = "idle"
    /\ current # NoPool
    /\ objs[current].cfg # "off"
    /\ tasks' = [tasks EXCEPT ![t].stage = "fetching", ![t].load = FALSE,
                    ![t].pool = current, ![t].todo = Addrs]
    /\ UNCHANGED <<objs, current, cache, remote, answer>>

\* Mutated form: the flag of an earlier failure is left standing.
ApplyRefreshKeepsFlag(t) ==
    LET p   == tasks[t].pool
        cfg == objs[p].cfg
    IN /\ tasks[t].stage = "saved"
       /\ ~tasks[t].load
       /\ objs' = [objs EXCEPT ![p] =
                     IF PrepareFails(cfg) THEN Missed(@, TRUE)
                     ELSE Filled(@, Prepare(cfg, tasks[t].got), @.failed, t)]
       /\ Return(t)
       /\ UNCHANGED <<current, cache, remote, answer>>

\* recordSubscriptionRefreshSuccess, or ...Failure if the filters are invalid.
ApplyRefresh(t) ==
    LET p   == tasks[t].pool
        cfg == objs[p].cfg
    IN /\ tasks[t].stage = "saved"
       /\ ~tasks[t].load
       /\ objs' = [objs EXCEPT ![p] =
                     IF PrepareFails(cfg) THEN Missed(@, TRUE)
                     ELSE Filled(@, Prepare(cfg, tasks[t].got), FALSE, t)]
       /\ Return(t)
       /\ UNCHANGED <<current, cache, remote, answer>>

\* Mutated form: a failed refresh also drops the entries.
FailRefreshDrops(t) ==
    /\ tasks[t].stage = "failed"
    /\ ~tasks[t].load
    /\ objs' = [objs EXCEPT ![tasks[t].pool] =
                    [Missed(@, TRUE) EXCEPT !.nodes = NoNodes]]
    /\ Return(t)
    /\ UNCHANGED <<current, cache, remote, answer>>

\* recordSubscriptionRefreshFailure: the entries are left alone.
FailRefresh(t) ==
    /\ tasks[t].stage = "failed"
    /\ ~tasks[t].load
    /\ objs' = [objs EXCEPT ![tasks[t].pool] = Missed(@, TRUE)]
    /\ Return(t)
    /\ UNCHANGED <<current, cache, remote, answer>>

-----------------------------------------------------------------------------
(* LoadFromFile                                                            *)

\* The file is read and the old pools are noted; main loads first, before
\* the updater and the Admin run.  A pool that is off is built at once.
BeginLoad(t, cfg) ==
    /\ tasks[t].stage = "idle"
    /\ current = NoPool => \A u \in Tasks : tasks[u].stage = "idle"
    /\ tasks' = [tasks EXCEPT ![t] =
                    [stage |-> IF cfg = "off" THEN "built" ELSE "fetching",
                     load |-> TRUE, pool |-> current, cfg |-> cfg,
                     todo |-> IF cfg = "off" THEN {} ELSE Addrs,
                     got |-> NoNodes, heard |-> "unasked",
                     built |-> EmptyPool(cfg)]]
    /\ UNCHANGED <<objs, current, cache, remote, answer>>

Built(t, pool) ==
    /\ tasks' = [tasks EXCEPT ![t].stage = "built", ![t].built = pool]
    /\ UNCHANGED <<objs, current, cache, remote, answer>>

\* buildPool after a successful fetch.
BuildFetched(t) ==
    LET cfg == tasks[t].cfg
    IN /\ tasks[t].stage = "saved"
       /\ tasks[t].load
       /\ Built(t, IF PrepareFails(cfg)
                   THEN Missed(EmptyPool(cfg), TRUE)
                   ELSE Filled(EmptyPool(cfg), Prepare(cfg, tasks[t].got), FALSE, t))

\* buildPool after a failed fetch: the cached nodes, filtered again.  The
\* invalid filters, the unreadable file and the missing entry leave none.
BuildRestored(t) ==
    LET cfg == tasks[t].cfg
    IN /\ tasks[t].stage = "failed"
       /\ tasks[t].load
       /\ \E nodes \in {Prepare(cfg, cache)} \cup (IF DiskFaults THEN {NoNodes} ELSE {}) :
             Built(t, [Missed(EmptyPool(cfg), TRUE) EXCEPT !.nodes = nodes])

\* Mutated form: the nodes are kept but the failure is not passed on.
KeepPreviousUnflagged(t) ==
    LET b == tasks[t].built
        p == tasks[t].pool
    IN /\ tasks[t].stage = "built"
       /\ tasks' = [tasks EXCEPT ![t].stage = "ready",
                       ![t].built =
                          IF b.failed /\ p # NoPool /\ objs[p].nodes # NoNodes
                          THEN [b EXCEPT !.nodes = objs[p].nodes, !.failed = FALSE]
                          ELSE b]
       /\ UNCHANGED <<objs, current, cache, remote, answer>>

\* preserveSubscriptionEntriesOnError: the nodes the old Pool object has now
\* replace those of a pool whose load failed, unless there are none.
KeepPrevious(t) ==
    LET b == tasks[t].built
        p == tasks[t].pool
    IN /\ tasks[t].stage = "built"
       /\ tasks' = [tasks EXCEPT ![t].stage = "ready",
                       ![t].built =
                          IF b.failed /\ p # NoPool /\ objs[p].nodes # NoNodes
                          THEN [b EXCEPT !.nodes = objs[p].nodes]
                          ELSE b]
       /\ UNCHANGED <<objs, current, cache, remote, answer>>

\* Pool objects somebody else still has a pointer to, and one nobody has.
Held(t)     == {current} \cup {tasks[u].pool : u \in Tasks \ {t}}
FreshObj(t) == CHOOSE p \in Objs \ Held(t) : TRUE

\* The swap under m.mu; what nobody can reach any more is garbage.
Swap(t) ==
    /\ tasks[t].stage = "ready"
    /\ Objs \ Held(t) # {}
    /\ current' = FreshObj(t)
    /\ objs' = [o \in Objs |->
                  IF o = FreshObj(t) THEN tasks[t].built
                  ELSE IF \E u \in Tasks \ {t} : tasks[u].pool = o
                       THEN objs[o] ELSE Blank]
    /\ Return(t)
    /\ UNCHANGED <<cache, remote, answer>>

\* Another pool of the file cannot be built: a running process goes on with
\* what it has (at start-up main gives up, see Crash).
Abort(t) ==
    /\ tasks[t].load
    /\ tasks[t].stage # "idle"
    /\ current # NoPool
    /\ Return(t)
    /\ UNCHANGED <<objs, current, cache, remote, answer>>

-----------------------------------------------------------------------------
(* The process and its environment                                         *)

\* The process ends at any point; only the cache file is left.
Crash ==
    /\ current' = NoPool
    /\ objs' = [o \in Objs |-> Blank]
    /\ tasks' = [t \in Tasks |-> NoTask]
    /\ UNCHANGED <<cache, remote, answer>>

Publish(a) ==
    /\ remote[a] < MaxVersion
    /\ remote' = [remote EXCEPT ![a] = @ + 1]
    /\ UNCHANGED <<objs, current, tasks, cache, answer>>

Turn(a) ==
    /\ \E r \in Answer \ {answer[a]} : answer' = [answer EXCEPT ![a] = r]
    /\ UNCHANGED <<objs, current, tasks, cache, remote>>

-----------------------------------------------------------------------------
Init ==
    /\ objs = [o \in Objs |-> Blank]
    /\ current = NoPool
    /\ tasks = [t \in Tasks |-> NoTask]
    /\ cache = NoNodes
    /\ remote = [a \in Addrs |-> 1]
    /\ answer \in [Addrs -> Answer]

Refresh(t) ==
    \/ BeginRefresh(t)
    \/ ~tasks[t].load /\ \E a \in Addrs : FetchAddr(t, a)
    \/ ~tasks[t].load /\ SaveCache(t)
    \/ ApplyRefresh(t)
    \/ FailRefresh(t)

Load(t) ==
    \/ \E cfg \in Configs : BeginLoad(t, cfg)
    \/ tasks[t].load /\ \E a \in Addrs : FetchAddr(t, a)
    \/ tasks[t].load /\ SaveCache(t)
    \/ BuildFetched(t)
    \/ BuildRestored(t)
    \/ KeepPrevious(t)
    \/ Swap(t)
    \/ Abort(t)

Next ==
    \/ \E t \in Tasks : Refresh(t)
    \/ \E t \in Tasks \ Updater : Load(t)
    \/ Crash
    \/ \E a \in Addrs : Publish(a) \/ Turn(a)

\* The updater refreshes again and again and each of its calls ends: every
\* request to the source is cut off by the client's timeout.
Fairness == \A u \in Updater : WF_vars(Refresh(u))

Spec == Init /\ [][Next]_vars /\ Fairness

-----------------------------------------------------------------------------
(* Properties                                                              *)

Running == current # NoPool
Shown   == IF Running THEN objs[current].nodes ELSE NoNodes
Failed  == Running /\ objs[current].failed

\* docs/subscription-routing.md 36, 38: a pool is shown as failed when the last
\* attempt that ended on it failed, whether it kept its nodes, has those of its
\* predecessor or of the cache, or is empty, and only then; one that is not has
\* exactly the nodes that attempt brought and the filters let through, and none
\* if the source was never asked.  That holds of every Pool object and of those
\* a load has built and not yet put into use, whatever calls overlap.
Honest(pool) ==
    /\ pool.failed <=> pool.last = "failure"
    /\ pool.last = "success" => pool.nodes = Prepare(pool.cfg, pool.brought)
    /\ pool.last = "unasked" => pool.nodes = NoNodes

FailureVisible ==
    /\ \A o \in Objs : Honest(objs[o])
    /\ \A t \in Tasks : Honest(tasks[t].built)

\* Calls that do not overlap: the cache never falls behind the nodes in use,
\* so a restart that cannot reach the source goes on with nodes at least as
\* new as those the process had.  (0: that address gave no nodes.)
CacheNotBehind ==
    /\ \A a \in Addrs : cache[a] = 0 \/ cache[a] >= Shown[a]
    /\ cache = NoNodes => Shown = NoNodes

\* Calls that do not overlap keep the promises of a subscription pool.
Service == INSTANCE SubscriptionService WITH
    running <- Running, shown <- Shown, failed <- Failed, saved <- cache

Promises == Service!Spec

Reachable == \A a \in Addrs : answer[a] = "nodes"

\* Once the source stays reachable (with nodes) and the pool stays switched on, the
\* updater brings the pool to the newest nodes for good, whatever reloads and
\* manual refreshes overlapped before.
CatchesUp ==
    <>[](Running /\ objs[current].cfg = "on" /\ Reachable)
        => <>[](Running => Shown = remote /\ ~Failed)

\* docs/subscription-routing.md 36: while nodes are in use, a refresh or a
\* reload whose last fetch failed does not empty the pool.
NotEmptiedByFailure ==
    [][Shown # NoNodes /\ Running' /\ Failed' => Shown' # NoNodes]_vars

=============================================================================
