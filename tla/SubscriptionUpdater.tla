------------------------ MODULE SubscriptionUpdater ------------------------
(***************************************************************************)
(* The goroutines that refresh subscriptions on a ticker, and the calls    *)
(* that restart them (internal/pool/manager.go Start- and                  *)
(* StopSubscriptionUpdater, internal/admin/api.go).  A restart cancels the *)
(* running goroutines, waits for them on updaterWG and starts new ones;    *)
(* only two short stretches of it hold updaterMu, and who calls it         *)
(* decides what else is held:                                              *)
(*   - an Admin edit (saveAndReloadNodes) holds fileMu all along;          *)
(*   - the Admin's reload (handleReload) holds nothing;                    *)
(*   - adding a pool (addNodePool) loads the file under fileMu and does    *)
(*     not restart the updater;                                            *)
(*   - main stops the updater at shutdown.                                 *)
(***************************************************************************)
EXTENDS FiniteSets

CONSTANTS
    Editors, Reloaders, Adders, Stoppers,   \* the callers, by kind
    Pools,          \* subscription pools a file may list with an interval
    Ctxs,           \* bound: contexts alive at once
    None            \* no context, nobody

Callers == Editors \cup Reloaders \cup Adders \cup Stoppers

ASSUME NoneAssumption == None \notin Ctxs \cup Callers
ASSUME KindsAssumption ==
    /\ Editors \cap (Reloaders \cup Adders \cup Stoppers) = {}
    /\ Reloaders \cap (Adders \cup Stoppers) = {}
    /\ Adders \cap Stoppers = {}

VARIABLES
    pools,          \* those m.pools lists now
    updaterCancel,  \* the context m.updaterCancel cancels
    cancelled,      \* cancelled contexts that somebody still has
    workers,        \* goroutines counted by updaterWG
    pc,             \* what every caller does next
    ctx,            \* the context a caller starts goroutines with
    todo,           \* the pools it has not started one for yet
    fileMu,         \* the caller that holds Server.fileMu
    overlapped,     \* ghost: callers whose restart another one overlapped
    served          \* ghost: the pools the last undisturbed restart found, None
                    \* from the next cancel on

ghosts == <<overlapped, served>>
vars == <<pools, updaterCancel, cancelled, workers, pc, ctx, todo, fileMu, ghosts>>

Worker == [ctx : Ctxs, pool : Pools, busy : BOOLEAN]

Pc == {"idle", "load", "cancel", "wait", "waiting", "woken", "start", "spawn",
       "panicked"}

\* From the stop of the old goroutines to the end of the walk over the pools.
Restarting == {"cancel", "wait", "waiting", "woken", "start", "spawn"}

\* Besides the types: a caller that restarts the updater has one context, and
\* editors and adders are inside fileMu while they are at it.
TypeOK ==
    /\ pools \subseteq Pools
    /\ updaterCancel \in Ctxs \cup {None}
    /\ cancelled \subseteq Ctxs
    /\ workers \subseteq Worker
    /\ pc \in [Callers -> Pc]
    /\ ctx \in [Callers -> Ctxs \cup {None}]
    /\ todo \in [Callers -> SUBSET Pools]
    /\ fileMu \in Callers \cup {None}
    /\ overlapped \subseteq Callers
    /\ served \in (SUBSET Pools) \cup {None}
    /\ \A c \in Callers : ctx[c] # None <=> pc[c] = "spawn"
    /\ \A c \in Editors \cup Adders :
          fileMu = c <=> pc[c] \notin {"idle", "panicked"}

Goto(c, l) == pc' = [pc EXCEPT ![c] = l]

\* The handler returns and its deferred unlock runs.
Leave(c, l) ==
    /\ Goto(c, l)
    /\ fileMu' = IF fileMu = c THEN None ELSE fileMu
    /\ overlapped' = IF l = "idle" THEN overlapped \ {c} ELSE overlapped

\* Caller c comes to its restart.  Those already at theirs overlap with it;
\* callers inside fileMu cannot, and are not looked for.
Unlocked == Reloaders \cup Stoppers

Overlapping(c) ==
    {d \in Callers \ {c} : pc[d] \in Restarting /\ {c, d} \cap Unlocked # {}}

Enter(c) ==
    overlapped' = overlapped \cup UNION {{c, d} : d \in Overlapping(c)}

-----------------------------------------------------------------------------
(* The callers                                                             *)

\* Mutated form: an edit does not take fileMu.
BeginUnlocked(c) ==
    /\ pc[c] = "idle"
    /\ Goto(c, IF c \in Stoppers THEN "cancel" ELSE "load")
    /\ IF c \in Stoppers THEN Enter(c) ELSE UNCHANGED overlapped
    /\ UNCHANGED <<pools, updaterCancel, cancelled, workers, ctx, todo, served, fileMu>>

Begin(c) ==
    /\ pc[c] = "idle"
    /\ IF c \in Editors \cup Adders
       THEN fileMu = None /\ fileMu' = c
       ELSE UNCHANGED fileMu
    /\ Goto(c, IF c \in Stoppers THEN "cancel" ELSE "load")
    /\ IF c \in Stoppers THEN Enter(c) ELSE UNCHANGED overlapped
    /\ UNCHANGED <<pools, updaterCancel, cancelled, workers, ctx, todo, served>>

\* LoadFromFile; a file that cannot be loaded ends the call.
LoadFromFile(c) ==
    /\ pc[c] = "load"
    /\ \/ /\ \E ps \in SUBSET Pools : pools' = ps
          /\ IF c \in Adders
             THEN Leave(c, "idle")
             ELSE Goto(c, "cancel") /\ Enter(c) /\ UNCHANGED fileMu
       \/ Leave(c, "idle") /\ UNCHANGED pools
    /\ UNCHANGED <<updaterCancel, cancelled, workers, ctx, todo, served>>

\* A context nobody has any more is forgotten.
Held == {w.ctx : w \in workers} \cup ({ctx[c] : c \in Callers} \ {None})

\* Mutated form: the cancel function is dropped, not called.
CancelDropped(c) ==
    /\ pc[c] = "cancel"
    /\ updaterCancel' = None
    /\ served' = None
    /\ Goto(c, "wait")
    /\ UNCHANGED <<pools, cancelled, workers, ctx, todo, fileMu, overlapped>>

\* StopSubscriptionUpdater: takes the cancel function and calls it.
Cancel(c) ==
    /\ pc[c] = "cancel"
    /\ cancelled' = (cancelled \cup {updaterCancel}) \cap Held
    /\ updaterCancel' = None
    /\ served' = None
    /\ Goto(c, "wait")
    /\ UNCHANGED <<pools, workers, ctx, todo, fileMu, overlapped>>

\* After updaterWG.Wait: main is done, the others go on starting.
Stopped(c) ==
    IF c \in Stoppers THEN Leave(c, "idle")
                      ELSE Goto(c, "start") /\ UNCHANGED <<fileMu, overlapped>>

Wait(c) ==
    /\ pc[c] = "wait"
    /\ IF workers = {} THEN Stopped(c)
                       ELSE Goto(c, "waiting") /\ UNCHANGED <<fileMu, overlapped>>
    /\ UNCHANGED <<pools, updaterCancel, cancelled, workers, ctx, todo, served>>

\* A released waiter finds the counter in use again: sync.WaitGroup panics.
Wake(c) ==
    /\ pc[c] = "woken"
    /\ IF workers = {} THEN Stopped(c) ELSE Leave(c, "panicked")
    /\ UNCHANGED <<pools, updaterCancel, cancelled, workers, ctx, todo, served>>

InUse == Held \cup {updaterCancel}
FreshCtx == CHOOSE x \in Ctxs \ InUse : TRUE

\* StartSubscriptionUpdater stores the new cancel function over the old one
\* and then walks m.pools under m.mu.
Start(c) ==
    /\ pc[c] = "start"
    /\ Ctxs \ InUse # {}
    /\ updaterCancel' = FreshCtx
    /\ cancelled' = cancelled \ {FreshCtx}
    /\ ctx' = [ctx EXCEPT ![c] = FreshCtx]
    /\ todo' = [todo EXCEPT ![c] = pools]
    /\ served' = IF c \in overlapped THEN None ELSE pools
    /\ Goto(c, "spawn")
    /\ UNCHANGED <<pools, workers, fileMu, overlapped>>

Spawn(c) ==
    /\ pc[c] = "spawn"
    /\ \E p \in todo[c] :
          /\ workers' = workers \cup
                {[ctx |-> ctx[c], pool |-> p, busy |-> FALSE]}
          /\ todo' = [todo EXCEPT ![c] = @ \ {p}]
    /\ UNCHANGED <<pools, updaterCancel, cancelled, pc, ctx, fileMu, ghosts>>

Return(c) ==
    /\ pc[c] = "spawn"
    /\ todo[c] = {}
    /\ ctx' = [ctx EXCEPT ![c] = None]
    /\ Leave(c, "idle")
    /\ UNCHANGED <<pools, updaterCancel, cancelled, workers, todo, served>>

-----------------------------------------------------------------------------
(* The goroutines                                                          *)

\* The select may take the tick although the context is cancelled.
Tick(w) ==
    /\ ~w.busy
    /\ workers' = (workers \ {w}) \cup {[w EXCEPT !.busy = TRUE]}
    /\ UNCHANGED <<pools, updaterCancel, cancelled, pc, ctx, todo, fileMu, ghosts>>

\* The goroutine ends; the last one releases everybody who waits.
Done(w) ==
    /\ workers' = workers \ {w}
    /\ pc' = IF workers = {w}
             THEN [c \in Callers |-> IF pc[c] = "waiting" THEN "woken" ELSE pc[c]]
             ELSE pc
    /\ UNCHANGED <<pools, updaterCancel, ctx, todo, fileMu, ghosts>>
    /\ cancelled' = cancelled \cap Held'

\* Mutated form: a refresh that fails ends the goroutine.
RefreshedOrGone(w) ==
    /\ w.busy
    /\ \/ Done(w)
       \/ /\ workers' = (workers \ {w}) \cup {[w EXCEPT !.busy = FALSE]}
          /\ UNCHANGED <<pools, updaterCancel, cancelled, pc, ctx, todo, fileMu, ghosts>>

\* RefreshSubscription returns; an error is only logged.
Refreshed(w) ==
    /\ w.busy
    /\ workers' = (workers \ {w}) \cup {[w EXCEPT !.busy = FALSE]}
    /\ UNCHANGED <<pools, updaterCancel, cancelled, pc, ctx, todo, fileMu, ghosts>>

\* Mutated form: the goroutine looks for its pool and not at its context.
ExitWithPool(w) ==
    /\ ~w.busy
    /\ w.pool \notin pools
    /\ Done(w)

Exit(w) ==
    /\ ~w.busy
    /\ w.ctx \in cancelled
    /\ Done(w)

-----------------------------------------------------------------------------
(* The state after main's own StartSubscriptionUpdater.                    *)
Init ==
    \E x \in Ctxs :
        /\ pools \in SUBSET Pools
        /\ updaterCancel = x
        /\ cancelled = {}
        /\ workers = {[ctx |-> x, pool |-> p, busy |-> FALSE] : p \in pools}
        /\ pc = [c \in Callers |-> "idle"]
        /\ ctx = [c \in Callers |-> None]
        /\ todo = [c \in Callers |-> {}]
        /\ fileMu = None
        /\ overlapped = {} /\ served = pools

CallerStep(c) ==
    \/ LoadFromFile(c) \/ Cancel(c) \/ Wait(c) \/ Wake(c)
    \/ Start(c) \/ Spawn(c) \/ Return(c)

WorkerStep(w) == Tick(w) \/ Refreshed(w) \/ Exit(w)

Next ==
    \/ \E c \in Callers : Begin(c) \/ CallerStep(c)
    \/ \E w \in workers : WorkerStep(w)

\* Goroutine (x, p) ends its refresh, whose requests time out, and when its
\* context is done it does not pick the tick for ever.
EndRefresh(x, p) ==
    \E w \in workers : w.ctx = x /\ w.pool = p /\ Refreshed(w)
EndWorker(x, p) ==
    \E w \in workers : w.ctx = x /\ w.pool = p /\ Exit(w)

\* A call that has begun goes on; nobody has to begin one.
Fairness ==
    /\ \A c \in Callers : WF_vars(CallerStep(c))
    /\ \A x \in Ctxs, p \in Pools :
          WF_vars(EndRefresh(x, p)) /\ SF_vars(EndWorker(x, p))

Spec == Init /\ [][Next]_vars /\ Fairness

-----------------------------------------------------------------------------
(* Properties                                                              *)

Live == {w \in workers : w.ctx \notin cancelled}
Leaked == {w \in Live : w.ctx # updaterCancel}

\* manager.go 1085: a restart first stops the old goroutines, so that none is
\* left that nobody can stop.  While no restart is under way that another one
\* overlaps outside fileMu, no step leaks a goroutine.  Two reloads at once, or
\* a reload beside an edit, may each store a cancel function over the other's,
\* and the goroutines of the first are leaked.
Disturbed == \E c \in overlapped : pc[c] \in Restarting

NoLeak ==
    [][~Disturbed =>
         {w.ctx : w \in Leaked}' \subseteq {w.ctx : w \in Leaked}]_vars

\* When nobody restarts the updater, each pool that had an update_interval at
\* the last undisturbed restart has exactly one goroutine that refreshes it,
\* and no other pool has any.  Pools that addNodePool has loaded since are not
\* among them: they wait for the next restart.
Covered ==
    (\A c \in Callers : pc[c] \notin Restarting) /\ served # None =>
        /\ {w.pool : w \in Live} = served
        /\ Cardinality(Live) = Cardinality(served)

\* Only a restart that another one overlaps outside fileMu can meet goroutines
\* that were started while it was in updaterWG.Wait: no other call panics.
NoMisuse == \A c \in Callers : pc[c] = "panicked" => c \in overlapped

\* manager.go 1131: whoever waits for the goroutines it cancelled goes on,
\* unless there are leaked ones or another restart overlaps, which may start
\* goroutines that the waiter counts and nobody cancels.
StopReturns ==
    \A c \in Callers :
        pc[c] = "waiting" ~> pc[c] # "waiting" \/ c \in overlapped \/ Leaked # {}

=============================================================================
