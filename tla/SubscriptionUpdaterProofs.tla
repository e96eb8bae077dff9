---------------------- MODULE SubscriptionUpdaterProofs ----------------------
(***************************************************************************)
(* Proofs about SubscriptionUpdater, for every kind and number of callers: *)
(* a goroutine is leaked, and the WaitGroup misused, only where two        *)
(* restarts overlap outside fileMu, and a restart that none overlaps gives *)
(* every pool it finds exactly one goroutine.                              *)
(***************************************************************************)
EXTENDS SubscriptionUpdater, FiniteSetTheorems, TLAPS

-----------------------------------------------------------------------------
(* Goroutines as records                                                   *)

\* A goroutine is given by its context, its pool and what it is doing.
LEMMA WorkerRecord ==
    ASSUME NEW x \in Ctxs, NEW p \in Pools, NEW b \in BOOLEAN
    PROVE  [ctx |-> x, pool |-> p, busy |-> b] \in Worker
  BY Zenon DEF Worker

\* A tick and the end of a refresh leave context and pool as they are.
LEMMA WorkerExcept ==
    ASSUME NEW w \in Worker, NEW b \in BOOLEAN
    PROVE  /\ [w EXCEPT !.busy = b] \in Worker
           /\ [w EXCEPT !.busy = b].ctx = w.ctx
           /\ [w EXCEPT !.busy = b].pool = w.pool
  <1>1. PICK x \in Ctxs, p \in Pools, a \in BOOLEAN :
          w = [ctx |-> x, pool |-> p, busy |-> a]
    BY DEF Worker
  <1>2. [w EXCEPT !.busy = b] = [ctx |-> x, pool |-> p, busy |-> b]
    BY <1>1
  <1>3. QED
    BY <1>1, <1>2, WorkerRecord

\* A new context is one nobody uses.
LEMMA FreshCtxIsFresh ==
    ASSUME Ctxs \ InUse # {}
    PROVE  FreshCtx \in Ctxs /\ FreshCtx \notin InUse
  BY DEF FreshCtx

\* Whatever is held is a context.
LEMMA HeldAreContexts ==
    ASSUME TypeOK
    PROVE  Held \subseteq Ctxs
  <1>1. \A w \in workers : w.ctx \in Ctxs
    BY DEF TypeOK, Worker
  <1>2. QED
    BY <1>1 DEF Held, TypeOK

-----------------------------------------------------------------------------
(* Types                                                                   *)

LEMMA TypeInit == Init => TypeOK
  <1> SUFFICES ASSUME NEW x \in Ctxs,
                      pools \in SUBSET Pools,
                      updaterCancel = x,
                      cancelled = {},
                      workers = {[ctx |-> x, pool |-> p, busy |-> FALSE] : p \in pools},
                      pc = [c \in Callers |-> "idle"],
                      ctx = [c \in Callers |-> None],
                      todo = [c \in Callers |-> {}],
                      fileMu = None, overlapped = {}, served = pools
               PROVE  TypeOK
    BY DEF Init
  <1>1. workers \subseteq Worker
    BY WorkerRecord
  <1>2. QED
    BY <1>1, NoneAssumption DEF TypeOK, Pc, Callers

LEMMA TypeStep == TypeOK /\ [Next]_vars => TypeOK'
  <1> SUFFICES ASSUME TypeOK, [Next]_vars PROVE TypeOK'
    OBVIOUS
  <1> USE NoneAssumption, KindsAssumption
  <1>1. ASSUME NEW c \in Callers, Begin(c) PROVE TypeOK'
    BY <1>1 DEF TypeOK, Begin, Enter, Overlapping, Goto, Pc, Callers
  <1>2. ASSUME NEW c \in Callers, LoadFromFile(c) PROVE TypeOK'
    BY <1>2 DEF TypeOK, LoadFromFile, Leave, Enter, Overlapping, Goto, Pc, Callers
  <1>3. ASSUME NEW c \in Callers, Cancel(c) PROVE TypeOK'
    BY <1>3, HeldAreContexts DEF TypeOK, Cancel, Goto, Pc, Callers
  <1>4. ASSUME NEW c \in Callers, Wait(c) PROVE TypeOK'
    BY <1>4 DEF TypeOK, Wait, Stopped, Leave, Goto, Pc, Callers
  <1>5. ASSUME NEW c \in Callers, Wake(c) PROVE TypeOK'
    BY <1>5 DEF TypeOK, Wake, Stopped, Leave, Goto, Pc, Callers
  <1>6. ASSUME NEW c \in Callers, Start(c) PROVE TypeOK'
    BY <1>6, FreshCtxIsFresh DEF TypeOK, Start, Goto, Pc, Callers
  <1>7. ASSUME NEW c \in Callers, Spawn(c) PROVE TypeOK'
    <2> PICK p \in todo[c] :
           /\ workers' = workers \cup {[ctx |-> ctx[c], pool |-> p, busy |-> FALSE]}
           /\ todo' = [todo EXCEPT ![c] = @ \ {p}]
      BY <1>7 DEF Spawn
    <2>1. ctx[c] \in Ctxs /\ p \in Pools
      BY <1>7 DEF TypeOK, Spawn
    <2>2. workers' \subseteq Worker
      <3>1. [ctx |-> ctx[c], pool |-> p, busy |-> FALSE] \in Worker
        BY <2>1, Zenon DEF Worker
      <3>2. workers \subseteq Worker
        BY DEF TypeOK
      <3>3. QED
        BY <3>1, <3>2, Zenon
    <2>3. todo' \in [Callers -> SUBSET Pools]
      BY DEF TypeOK
    <2>4. QED
      BY <1>7, <2>2, <2>3 DEF TypeOK, Spawn, ghosts
  <1>8. ASSUME NEW c \in Callers, Return(c) PROVE TypeOK'
    BY <1>8 DEF TypeOK, Return, Leave, Goto, Pc, Callers
  <1>9. ASSUME NEW w \in workers, Tick(w) \/ Refreshed(w) PROVE TypeOK'
    <2>1. workers' \subseteq Worker
      <3>1. \E b \in BOOLEAN :
              workers' = (workers \ {w}) \cup {[w EXCEPT !.busy = b]}
        BY <1>9, Zenon DEF Tick, Refreshed
      <3>2. QED
        BY <3>1, WorkerExcept DEF TypeOK
    <2>2. QED
      BY <1>9, <2>1 DEF TypeOK, Tick, Refreshed, ghosts
  <1>10. ASSUME NEW w \in workers, Exit(w) PROVE TypeOK'
    <2>1. pc' \in [Callers -> Pc]
      BY <1>10 DEF TypeOK, Exit, Done, Pc
    <2>2. \A c \in Callers : /\ pc'[c] = "spawn" <=> pc[c] = "spawn"
                             /\ pc'[c] \in {"idle", "panicked"}
                                  <=> pc[c] \in {"idle", "panicked"}
      BY <1>10 DEF TypeOK, Exit, Done
    <2>3. QED
      BY <1>10, <2>1, <2>2 DEF TypeOK, Exit, Done, Callers, ghosts
  <1>11. CASE UNCHANGED vars
    BY <1>11 DEF TypeOK, vars, ghosts
  <1>12. QED
    BY <1>1, <1>2, <1>3, <1>4, <1>5, <1>6, <1>7, <1>8, <1>9, <1>10, <1>11
    DEF Next, CallerStep, WorkerStep

\* The record of every mutex holder and of every goroutine is well formed
\* whatever edits, reloads, additions and stops overlap (manager.go 1087-1141).
THEOREM TypeCorrect == Spec => []TypeOK
  BY TypeInit, TypeStep, PTL DEF Spec

-----------------------------------------------------------------------------
(* What a restart can rely on when no other overlaps it                    *)

\* main never starts goroutines, and an added pool restarts nothing.
Roles ==
    /\ \A c \in Stoppers : pc[c] \notin {"load", "start", "spawn"}
    /\ \A c \in Adders : pc[c] \in {"idle", "load"}

\* Of two restarts at once each knows that it is not alone.
Alone ==
    \A c, d \in Callers :
        c # d /\ pc[c] \in Restarting /\ pc[d] \in Restarting =>
            c \in overlapped /\ d \in overlapped

\* From its cancel on, a restart alone decides what updaterCancel becomes.
NothingToCancel ==
    \A c \in Callers \ overlapped :
        pc[c] \in {"wait", "waiting", "woken", "start"} => updaterCancel = None

\* Between its wait and its start nobody starts goroutines.
NobodyLeft ==
    \A c \in Callers \ overlapped :
        pc[c] \in {"woken", "start"} => workers = {}

\* It starts goroutines with the context whose cancel function it has stored.
OwnContext ==
    \A c \in Callers \ overlapped : pc[c] = "spawn" => ctx[c] = updaterCancel

Rest ==
    /\ Roles /\ Alone /\ NothingToCancel /\ NobodyLeft /\ OwnContext
    /\ NoMisuse

RestartInv == TypeOK /\ Rest

\* Inside fileMu there is one restart at a time.
LEMMA OneEditor ==
    ASSUME TypeOK, Roles, NEW c \in Callers, NEW d \in Callers, c # d,
           pc[c] \in Restarting, pc[d] \in Restarting
    PROVE  {c, d} \cap Unlocked # {}
  BY DEF TypeOK, Roles, Restarting, Unlocked, Callers

LEMMA RestartInit == Init => RestartInv
  <1> SUFFICES ASSUME Init PROVE RestartInv
    OBVIOUS
  <1>1. \A c \in Callers : pc[c] = "idle"
    BY DEF Init
  <1>2. QED
    BY <1>1, TypeInit DEF RestartInv, Rest, Roles, Alone, NothingToCancel,
        NobodyLeft, OwnContext, NoMisuse, Restarting, Callers

\* The caller that comes to its restart is told of all that are at theirs.
LEMMA EnterAlone ==
    ASSUME TypeOK, TypeOK', Roles, Roles', Alone, NEW c \in Callers,
           pc[c] \notin Restarting, Goto(c, "cancel"), Enter(c)
    PROVE  Alone' /\ overlapped \subseteq overlapped'
  <1>1. \A d \in Callers : d # c => pc'[d] = pc[d]
    BY DEF Goto, TypeOK
  <1>2. overlapped \subseteq overlapped'
    BY DEF Enter
  <1>3. ASSUME NEW d \in Callers, d # c, pc'[d] \in Restarting
        PROVE  c \in overlapped' /\ d \in overlapped'
    <2>1. pc'[c] \in Restarting
      BY DEF Goto, TypeOK, Restarting
    <2>2. {c, d} \cap Unlocked # {}
      BY <1>3, <2>1, OneEditor DEF TypeOK, Roles, Restarting, Unlocked, Callers
    <2>3. d \in Overlapping(c)
      BY <1>1, <1>3, <2>2 DEF Overlapping
    <2>4. QED
      BY <2>3 DEF Enter
  <1>4. QED
    BY <1>1, <1>2, <1>3 DEF Alone

LEMMA RolesStep ==
    ASSUME TypeOK, Roles, [Next]_vars
    PROVE  Roles'
  <1> USE KindsAssumption
  <1>1. ASSUME NEW c \in Callers, Begin(c) \/ LoadFromFile(c) \/ Cancel(c)
        PROVE  Roles'
    BY <1>1 DEF Begin, LoadFromFile, Cancel, Leave, Goto, Roles, TypeOK, Callers
  <1>2. ASSUME NEW c \in Callers, Wait(c) \/ Wake(c)
        PROVE  Roles'
    BY <1>2 DEF Wait, Wake, Stopped, Leave, Goto, Roles, TypeOK, Callers
  <1>3. ASSUME NEW c \in Callers, Start(c) \/ Spawn(c) \/ Return(c)
        PROVE  Roles'
    BY <1>3 DEF Start, Spawn, Return, Leave, Goto, Roles, TypeOK, Callers
  <1>4. ASSUME NEW w \in workers, Tick(w) \/ Refreshed(w)
        PROVE  Roles'
    BY <1>4 DEF Tick, Refreshed, Roles
  <1>5. ASSUME NEW w \in workers, Exit(w)
        PROVE  Roles'
    BY <1>5 DEF Exit, Done, Roles, TypeOK, Callers
  <1>6. CASE UNCHANGED vars
    BY <1>6 DEF vars, Roles
  <1>7. QED
    BY <1>1, <1>2, <1>3, <1>4, <1>5, <1>6 DEF Next, CallerStep, WorkerStep

LEMMA RestartStep ==
    ASSUME RestartInv, [Next]_vars
    PROVE  RestartInv'
  <1> USE NoneAssumption, KindsAssumption
  <1>0. TypeOK /\ Rest
    BY DEF RestartInv
  <1>1. TypeOK' /\ Roles'
    BY <1>0, TypeStep, RolesStep DEF Rest
  <1>2. ASSUME NEW c \in Callers, Goto(c, "cancel"), Enter(c),
               pc[c] \in {"idle", "load"}, UNCHANGED <<updaterCancel, workers, ctx>>
        PROVE  Rest'
    <2>1. Alone' /\ overlapped \subseteq overlapped'
      BY <1>0, <1>1, <1>2, EnterAlone DEF Rest, Restarting
    <2>2. QED
      BY <1>0, <1>1, <1>2, <2>1 DEF Rest, NothingToCancel, NobodyLeft, OwnContext,
          NoMisuse, Goto, TypeOK
  <1>3. ASSUME NEW c \in Callers, NEW l \in {"idle", "panicked"}, Leave(c, l),
               l = "panicked" => c \in overlapped,
               pc[c] # "panicked",
               UNCHANGED <<updaterCancel, workers>>,
               \A d \in Callers : d # c => ctx'[d] = ctx[d]
        PROVE  Rest'
    <2>1. \A d \in Callers : d # c => pc'[d] = pc[d] /\ (d \in overlapped' <=> d \in overlapped)
      BY <1>0, <1>3 DEF Leave, Goto, TypeOK
    <2>2. pc'[c] = l
      BY <1>0, <1>3 DEF Leave, Goto, TypeOK
    <2>3. Alone'
      BY <1>0, <2>1, <2>2 DEF Rest, Alone, Restarting
    <2>4. NoMisuse'
      BY <1>0, <1>3, <2>1, <2>2 DEF Rest, NoMisuse, Leave
    <2>5. NothingToCancel' /\ NobodyLeft' /\ OwnContext'
      BY <1>0, <1>3, <2>1, <2>2 DEF Rest, NothingToCancel, NobodyLeft, OwnContext
    <2>6. QED
      BY <1>1, <2>3, <2>4, <2>5 DEF Rest
  <1>4. ASSUME NEW c \in Callers, Begin(c) PROVE Rest'
    <2>1. CASE c \in Stoppers
      BY <1>2, <1>4, <2>1 DEF Begin
    <2>2. CASE c \notin Stoppers
      BY <1>0, <1>1, <1>4, <2>2 DEF Begin, Goto, Rest, Alone, NothingToCancel,
          NobodyLeft, OwnContext, NoMisuse, TypeOK, Restarting
    <2>3. QED
      BY <2>1, <2>2
  <1>5. ASSUME NEW c \in Callers, LoadFromFile(c) PROVE Rest'
    <2>1. pc[c] = "load" /\ UNCHANGED <<updaterCancel, workers, ctx>>
      BY <1>5 DEF LoadFromFile
    <2>2. CASE Leave(c, "idle")
      BY <1>3, <2>1, <2>2
    <2>3. CASE Goto(c, "cancel") /\ Enter(c)
      BY <1>2, <2>1, <2>3
    <2>4. QED
      BY <1>5, <2>2, <2>3 DEF LoadFromFile
  <1>6. ASSUME NEW c \in Callers, Cancel(c) PROVE Rest'
    <2>1. \A d \in Callers : d # c => pc'[d] = pc[d]
      BY <1>0, <1>6 DEF Cancel, Goto, TypeOK
    <2>2. /\ pc[c] = "cancel" /\ pc'[c] = "wait" /\ updaterCancel' = None
          /\ UNCHANGED <<workers, ctx, overlapped>>
      BY <1>0, <1>6 DEF Cancel, Goto, TypeOK
    <2>3. \A d \in Callers : pc[d] = "spawn" => d \in overlapped
      BY <1>0, <2>2 DEF Rest, Alone, Restarting
    <2>4. OwnContext'
      BY <2>1, <2>2, <2>3 DEF OwnContext
    <2>5. Alone' /\ NothingToCancel' /\ NobodyLeft' /\ NoMisuse'
      BY <1>0, <2>1, <2>2 DEF Rest, Alone, NothingToCancel, NobodyLeft, NoMisuse,
          Restarting
    <2>6. QED
      BY <1>1, <2>4, <2>5 DEF Rest
  <1>7. ASSUME NEW c \in Callers, Wait(c) \/ Wake(c) PROVE Rest'
    <2>1. CASE Leave(c, "idle")
      BY <1>3, <1>7, <2>1 DEF Wait, Wake
    <2>2. CASE Leave(c, "panicked") /\ workers # {}
      <3>1. c \in overlapped /\ pc[c] = "woken"
        BY <1>0, <1>7, <2>2 DEF Wait, Wake, Rest, NobodyLeft, Leave, Goto, TypeOK
      <3>2. QED
        BY <1>3, <1>7, <2>2, <3>1 DEF Wait, Wake
    <2>3. CASE /\ Goto(c, "start") \/ Goto(c, "waiting")
               /\ UNCHANGED overlapped
               /\ Goto(c, "start") => workers = {}
      BY <1>0, <1>1, <1>7, <2>3 DEF Wait, Wake, Goto, Rest, Alone, NothingToCancel,
          NobodyLeft, OwnContext, NoMisuse, TypeOK, Restarting
    <2>4. QED
      BY <1>0, <1>7, <2>1, <2>2, <2>3 DEF Wait, Wake, Stopped, Goto, TypeOK
  <1>8. ASSUME NEW c \in Callers, Start(c) PROVE Rest'
    <2>1. \A d \in Callers : d # c /\ pc[d] \in Restarting => d \in overlapped
      BY <1>0, <1>8 DEF Rest, Alone, Start, Restarting
    <2>2. \A d \in Callers : d # c => pc'[d] = pc[d] /\ ctx'[d] = ctx[d]
      BY <1>0, <1>8 DEF Start, Goto, TypeOK
    <2>3. pc'[c] = "spawn" /\ ctx'[c] = updaterCancel' /\ overlapped' = overlapped
          /\ workers' = workers /\ pc[c] = "start"
      BY <1>0, <1>8 DEF Start, Goto, TypeOK
    <2>4. QED
      BY <1>0, <1>1, <2>1, <2>2, <2>3 DEF Rest, Alone, NothingToCancel,
          NobodyLeft, OwnContext, NoMisuse, Restarting
  <1>9. ASSUME NEW c \in Callers, Spawn(c) PROVE Rest'
    <2>1. \A d \in Callers : d # c /\ pc[d] \in Restarting => d \in overlapped
      BY <1>0, <1>9 DEF Rest, Alone, Spawn, Restarting
    <2>2. UNCHANGED <<pc, ctx, overlapped, updaterCancel>> /\ pc[c] = "spawn"
      BY <1>9 DEF Spawn, ghosts
    <2>3. QED
      BY <1>0, <1>1, <2>1, <2>2 DEF Rest, Alone, NothingToCancel,
          NobodyLeft, OwnContext, NoMisuse, Restarting
  <1>10. ASSUME NEW c \in Callers, Return(c) PROVE Rest'
    BY <1>0, <1>3, <1>10 DEF Return, TypeOK
  <1>11. ASSUME NEW w \in workers, Tick(w) \/ Refreshed(w) PROVE Rest'
    <2>1. UNCHANGED <<pc, ctx, overlapped, updaterCancel>> /\ workers # {}
      BY <1>11 DEF Tick, Refreshed, ghosts
    <2>2. QED
      BY <1>0, <1>1, <2>1 DEF Rest, Alone, NothingToCancel, NobodyLeft,
          OwnContext, NoMisuse
  <1>12. ASSUME NEW w \in workers, Exit(w) PROVE Rest'
    <2>1. UNCHANGED <<ctx, overlapped, updaterCancel>>
      BY <1>12 DEF Exit, Done, ghosts
    <2>2. \A d \in Callers : pc'[d] = pc[d] \/ (pc[d] = "waiting" /\ pc'[d] = "woken")
      BY <1>0, <1>12 DEF Exit, Done, TypeOK
    <2>3. \A d \in Callers : pc'[d] # pc[d] => workers' = {}
      BY <1>0, <1>12 DEF Exit, Done, TypeOK
    <2>4. \A d \in Callers : pc[d] \in {"woken", "start"} /\ d \notin overlapped => FALSE
      BY <1>0, <1>12 DEF Rest, NobodyLeft
    <2>5. NobodyLeft'
      BY <2>1, <2>2, <2>3, <2>4 DEF NobodyLeft
    <2>6. Alone' /\ NothingToCancel' /\ OwnContext' /\ NoMisuse'
      BY <1>0, <2>1, <2>2 DEF Rest, Alone, NothingToCancel, OwnContext, NoMisuse,
          Restarting
    <2>7. QED
      BY <1>1, <2>5, <2>6 DEF Rest
  <1>13. ASSUME UNCHANGED vars PROVE Rest'
    BY <1>0, <1>1, <1>13 DEF vars, ghosts, Rest, Alone, NothingToCancel, NobodyLeft,
        OwnContext, NoMisuse
  <1>14. Rest'
    BY <1>4, <1>5, <1>6, <1>7, <1>8, <1>9, <1>10, <1>11, <1>12, <1>13
    DEF Next, CallerStep, WorkerStep
  <1>15. QED
    BY <1>1, <1>14 DEF RestartInv

\* manager.go 1140: only a restart that another one overlaps outside fileMu
\* returns from updaterWG.Wait into a counter that is in use again.
THEOREM OnlyOverlapsPanic == Spec => []NoMisuse
  <1>1. RestartInv /\ [Next]_vars => RestartInv'
    BY RestartStep
  <1>2. RestartInv => NoMisuse
    BY DEF RestartInv, Rest
  <1>3. QED
    BY <1>1, <1>2, RestartInit, PTL DEF Spec

-----------------------------------------------------------------------------
(* Leaks                                                                   *)

\* A context whose goroutines are leaked is nobody's to cancel.
LeakedContexts == {w.ctx : w \in Leaked}

\* manager.go 1085: while no restart is under way that another one overlaps
\* outside fileMu, no step of anybody leaks a goroutine.
LEMMA LeakStep ==
    ASSUME RestartInv, [Next]_vars, ~Disturbed
    PROVE  LeakedContexts' \subseteq LeakedContexts
  <1> USE NoneAssumption DEF LeakedContexts
  <1>0. TypeOK /\ Rest
    BY DEF RestartInv
  <1>1. CASE UNCHANGED <<workers, cancelled, updaterCancel>>
    BY <1>1 DEF Leaked, Live
  <1>2. ASSUME NEW c \in Callers, Cancel(c) PROVE LeakedContexts' \subseteq LeakedContexts
    <2>1. workers' = workers
      BY <1>2 DEF Cancel
    <2>2. \A w \in workers : w.ctx \in Held
      BY DEF Held
    <2>3. \A w \in workers : w.ctx \in cancelled \/ w.ctx = updaterCancel => w.ctx \in cancelled'
      BY <1>2, <2>2 DEF Cancel
    <2>4. Leaked' \subseteq Leaked
      BY <2>1, <2>3 DEF Leaked, Live
    <2>5. QED
      BY <2>4
  <1>3. ASSUME NEW c \in Callers, Start(c) PROVE LeakedContexts' \subseteq LeakedContexts
    <2>1. c \notin overlapped /\ pc[c] = "start" /\ workers' = workers
      BY <1>3 DEF Start, Disturbed, Restarting
    <2>2. workers = {}
      BY <1>0, <2>1 DEF Rest, NobodyLeft
    <2>3. QED
      BY <2>1, <2>2 DEF Leaked, Live
  <1>4. ASSUME NEW c \in Callers, Spawn(c) PROVE LeakedContexts' \subseteq LeakedContexts
    <2>1. PICK p \in todo[c] :
            workers' = workers \cup {[ctx |-> ctx[c], pool |-> p, busy |-> FALSE]}
      BY <1>4 DEF Spawn
    <2>2. c \notin overlapped /\ pc[c] = "spawn"
      BY <1>4 DEF Spawn, Disturbed, Restarting
    <2>3. ctx[c] = updaterCancel
      BY <1>0, <2>2 DEF Rest, OwnContext
    <2>4. Leaked' \subseteq Leaked
      BY <1>4, <2>1, <2>3 DEF Spawn, Leaked, Live
    <2>5. QED
      BY <2>4
  <1>5. ASSUME NEW w \in workers, Tick(w) \/ Refreshed(w)
        PROVE  LeakedContexts' \subseteq LeakedContexts
    <2>1. PICK b \in BOOLEAN : workers' = (workers \ {w}) \cup {[w EXCEPT !.busy = b]}
      BY <1>5, Zenon DEF Tick, Refreshed
    <2>2. [w EXCEPT !.busy = b].ctx = w.ctx
      BY <1>0, WorkerExcept DEF TypeOK
    <2>3. UNCHANGED <<cancelled, updaterCancel>>
      BY <1>5 DEF Tick, Refreshed
    <2>4. QED
      BY <2>1, <2>2, <2>3 DEF Leaked, Live
  <1>6. ASSUME NEW w \in workers, Exit(w) PROVE LeakedContexts' \subseteq LeakedContexts
    <2>1. workers' \subseteq workers /\ updaterCancel' = updaterCancel
      BY <1>6 DEF Exit, Done
    <2>2. \A v \in workers' : v.ctx \in Held'
      BY DEF Held
    <2>3. \A v \in workers' : v.ctx \in cancelled => v.ctx \in cancelled'
      BY <1>6, <2>2 DEF Exit, Done
    <2>4. Leaked' \subseteq Leaked
      BY <2>1, <2>3 DEF Leaked, Live
    <2>5. QED
      BY <2>4
  <1>7. ASSUME NEW c \in Callers, Begin(c) \/ LoadFromFile(c) \/ Wait(c) \/ Wake(c) \/ Return(c)
        PROVE  UNCHANGED <<workers, cancelled, updaterCancel>>
    BY <1>7 DEF Begin, LoadFromFile, Wait, Wake, Return
  <1>8. CASE UNCHANGED vars
    BY <1>1, <1>8 DEF vars
  <1>9. QED
    BY <1>1, <1>2, <1>3, <1>4, <1>5, <1>6, <1>7, <1>8 DEF Next, CallerStep, WorkerStep

\* manager.go 1085: goroutines are leaked only during a restart that another
\* one overlaps outside fileMu, whatever else goes on and whatever was leaked
\* before.
THEOREM OnlyOverlapsLeak == Spec => NoLeak
  <1>1. RestartInv /\ [Next]_vars => RestartInv'
    BY RestartStep
  <1>2. RestartInv /\ [Next]_vars =>
          [~Disturbed =>
             {w.ctx : w \in Leaked}' \subseteq {w.ctx : w \in Leaked}]_vars
    BY LeakStep DEF LeakedContexts
  <1>3. QED
    BY <1>1, <1>2, RestartInit, PTL DEF Spec, NoLeak

-----------------------------------------------------------------------------
(* One goroutine for each pool                                             *)

\* The pools whose goroutine is not cancelled, and one for each of them.
LivePools == {w.pool : w \in Live}

OneEach == \A v, w \in Live : v.pool = w.pool => v = w

\* An undisturbed restart has started the goroutines of the pools it found,
\* but for those it has not got to yet.
Serving ==
    /\ updaterCancel \notin cancelled
    /\ OneEach
    /\ \A c \in Callers : pc[c] \notin {"wait", "waiting", "woken", "start"}
    /\ \A c, d \in Callers : pc[c] = "spawn" /\ pc[d] = "spawn" => c = d
    /\ \A c \in Callers : pc[c] = "spawn" =>
          /\ ctx[c] = updaterCancel
          /\ todo[c] \subseteq served
          /\ LivePools = served \ todo[c]
    /\ (\A c \in Callers : pc[c] # "spawn") => LivePools = served

CoverInv == RestartInv /\ (served # None => Serving)

LEMMA CoverInit ==
    ASSUME Init
    PROVE  CoverInv
  <1>1. PICK x \in Ctxs :
          /\ updaterCancel = x
          /\ cancelled = {}
          /\ workers = {[ctx |-> x, pool |-> p, busy |-> FALSE] : p \in pools}
          /\ \A c \in Callers : pc[c] = "idle"
          /\ served = pools
    BY DEF Init
  <1>2. Live = workers
    BY <1>1 DEF Live
  <1>3. \A w \in Live : w = [ctx |-> x, pool |-> w.pool, busy |-> FALSE]
    BY <1>1, <1>2
  <1>4. OneEach
    BY <1>3 DEF OneEach
  <1>5. LivePools = pools
    <2>1. ASSUME NEW p \in pools PROVE \E w \in Live : w.pool = p
      <3>1. [ctx |-> x, pool |-> p, busy |-> FALSE] \in Live
        BY <1>1, <1>2
      <3>2. [ctx |-> x, pool |-> p, busy |-> FALSE].pool = p
        OBVIOUS
      <3>3. QED
        BY <3>1, <3>2
    <2>2. \A w \in Live : w.pool \in pools
      BY <1>1, <1>2
    <2>3. QED
      BY <2>1, <2>2 DEF LivePools
  <1>6. Serving
    BY <1>1, <1>4, <1>5 DEF Serving
  <1>7. QED
    BY <1>6, RestartInit DEF CoverInv

\* A goroutine that goes on, busy or not, is the same goroutine.
LEMMA LiveTurns ==
    ASSUME TypeOK, OneEach, cancelled' = cancelled,
           NEW w \in workers, NEW b \in BOOLEAN,
           workers' = (workers \ {w}) \cup {[w EXCEPT !.busy = b]}
    PROVE  OneEach' /\ LivePools' = LivePools
  <1> DEFINE v == [w EXCEPT !.busy = b]
  <1>1. v.ctx = w.ctx /\ v.pool = w.pool
    BY WorkerExcept DEF TypeOK
  <1> HIDE DEF v
  <1>2. workers' = (workers \ {w}) \cup {v}
    BY DEF v
  <1>3. Live' = IF w \in Live THEN (Live \ {w}) \cup {v} ELSE Live \ {w}
    BY <1>1, <1>2 DEF Live
  <1>4. LivePools' = LivePools
    BY <1>1, <1>3 DEF LivePools
  <1>5. OneEach'
    BY <1>1, <1>3 DEF OneEach
  <1>6. QED
    BY <1>4, <1>5

\* Who is starting goroutines, and with what, is not changed by a caller that
\* is not, nor does it change what is live.
LEMMA ServingStays ==
    ASSUME Serving,
           UNCHANGED <<updaterCancel, served, todo>>,
           Live' = Live, (updaterCancel \notin cancelled)',
           \A c \in Callers : pc'[c] = "spawn" => ctx'[c] = ctx[c],
           \A c \in Callers : pc'[c] = "spawn" <=> pc[c] = "spawn",
           \A c \in Callers : pc'[c] \notin {"wait", "waiting", "woken", "start"}
    PROVE  Serving'
  <1>1. LivePools' = LivePools /\ OneEach'
    BY DEF LivePools, OneEach, Serving
  <1>2. QED
    BY <1>1 DEF Serving

LEMMA CoverStep ==
    ASSUME CoverInv, [Next]_vars
    PROVE  CoverInv'
  <1> USE NoneAssumption
  <1>0. TypeOK /\ Rest /\ RestartInv /\ (served # None => Serving)
    BY DEF RestartInv, CoverInv
  <1>1. RestartInv' /\ TypeOK' /\ Rest'
    BY <1>0, RestartStep DEF RestartInv
  <1>2. SUFFICES ASSUME served' # None PROVE Serving'
    BY <1>1 DEF CoverInv
  <1>3. ASSUME NEW c \in Callers, Begin(c) \/ LoadFromFile(c), Serving PROVE Serving'
    <2>1. \A d \in Callers : pc'[d] = pc[d] \/ (d = c /\ pc[c] \in {"idle", "load"}
                                 /\ pc'[c] \in {"idle", "load", "cancel"})
      BY <1>0, <1>3 DEF Begin, LoadFromFile, Leave, Goto, TypeOK
    <2>2. UNCHANGED <<updaterCancel, cancelled, workers, ctx, todo, served>>
      BY <1>3 DEF Begin, LoadFromFile
    <2>3. Live' = Live
      BY <2>2 DEF Live
    <2>4. QED
      BY <1>3, <2>1, <2>2, <2>3, ServingStays DEF Serving
  <1>4. ASSUME NEW c \in Callers, Wait(c) \/ Wake(c), Serving PROVE FALSE
    BY <1>4 DEF Wait, Wake, Serving
  <1>5. ASSUME NEW c \in Callers, Cancel(c) PROVE FALSE
    BY <1>2, <1>5 DEF Cancel
  <1>6. ASSUME NEW c \in Callers, Start(c) PROVE Serving'
    <2>1. c \notin overlapped /\ served' = pools
      BY <1>2, <1>6 DEF Start
    <2>2. workers' = {}
      BY <1>0, <1>6, <2>1 DEF Start, Rest, NobodyLeft
    <2>3. LivePools' = {} /\ OneEach'
      BY <2>2 DEF LivePools, OneEach, Live
    <2>4. \A d \in Callers : d # c => pc'[d] = pc[d] /\ pc[d] \notin Restarting
      BY <1>0, <1>6, <2>1 DEF Start, Goto, TypeOK, Rest, Alone, Restarting
    <2>5. /\ pc'[c] = "spawn" /\ ctx'[c] = updaterCancel' /\ todo'[c] = served'
          /\ updaterCancel' \notin cancelled'
      BY <1>0, <1>6, <2>1 DEF Start, Goto, TypeOK
    <2>6. QED
      BY <2>3, <2>4, <2>5 DEF Serving, Restarting
  <1>7. ASSUME NEW c \in Callers, Spawn(c), Serving PROVE Serving'
    <2>1. PICK p \in todo[c] :
            /\ workers' = workers \cup {[ctx |-> ctx[c], pool |-> p, busy |-> FALSE]}
            /\ todo' = [todo EXCEPT ![c] = @ \ {p}]
      BY <1>7 DEF Spawn
    <2>2. pc[c] = "spawn" /\ UNCHANGED <<pc, ctx, updaterCancel, cancelled, served>>
      BY <1>7 DEF Spawn, ghosts
    <2>3. /\ ctx[c] = updaterCancel /\ todo[c] \subseteq served
          /\ LivePools = served \ todo[c]
      BY <1>7, <2>2 DEF Serving
    <2> DEFINE new == [ctx |-> ctx[c], pool |-> p, busy |-> FALSE]
    <2>4. new.ctx = updaterCancel /\ new.pool = p
      BY <2>3
    <2>5. workers' = workers \cup {new}
      BY <2>1
    <2> HIDE DEF new
    <2>6. Live' = Live \cup {new}
      BY <1>7, <2>2, <2>4, <2>5 DEF Live, Serving
    <2>7. LivePools' = LivePools \cup {p}
      BY <2>4, <2>6 DEF LivePools
    <2>8. p \notin LivePools
      BY <2>3
    <2>9. OneEach'
      BY <1>7, <2>4, <2>6, <2>8 DEF OneEach, LivePools, Serving
    <2>10. todo'[c] = todo[c] \ {p}
      BY <1>0, <2>1 DEF TypeOK
    <2>11. \A d \in Callers : pc'[d] = "spawn" => d = c
      BY <1>7, <2>2 DEF Serving
    <2>12. LivePools' = served' \ todo'[c] /\ todo'[c] \subseteq served'
      BY <2>2, <2>3, <2>7, <2>10
    <2>13. QED
      BY <1>7, <2>2, <2>3, <2>9, <2>11, <2>12 DEF Serving
  <1>8. ASSUME NEW c \in Callers, Return(c), Serving PROVE Serving'
    <2>1. UNCHANGED <<updaterCancel, cancelled, workers, todo, served>>
          /\ pc[c] = "spawn" /\ todo[c] = {}
      BY <1>8 DEF Return
    <2>2. Live' = Live
      BY <2>1 DEF Live
    <2>3. LivePools' = LivePools /\ OneEach'
      BY <1>8, <2>2 DEF LivePools, OneEach, Serving
    <2>4. LivePools = served
      BY <1>8, <2>1 DEF Serving
    <2>5. \A d \in Callers : pc'[d] = IF d = c THEN "idle" ELSE pc[d]
      BY <1>0, <1>8 DEF Return, Leave, Goto, TypeOK
    <2>6. \A d \in Callers : pc'[d] # "spawn"
      BY <1>8, <2>1, <2>5 DEF Serving
    <2>7. QED
      BY <1>8, <2>1, <2>3, <2>4, <2>5, <2>6 DEF Serving
  <1>9. ASSUME NEW w \in workers, Tick(w) \/ Refreshed(w), Serving PROVE Serving'
    <2>1. PICK b \in BOOLEAN :
            workers' = (workers \ {w}) \cup {[w EXCEPT !.busy = b]}
      BY <1>9, Zenon DEF Tick, Refreshed
    <2>2. UNCHANGED <<served, updaterCancel, cancelled, pc, ctx, todo>>
      BY <1>9 DEF Tick, Refreshed, ghosts
    <2>3. OneEach' /\ LivePools' = LivePools
      BY <1>0, <1>9, <2>1, <2>2, LiveTurns DEF Serving
    <2>4. QED
      BY <1>9, <2>2, <2>3 DEF Serving
  <1>10. ASSUME NEW w \in workers, Exit(w), Serving PROVE Serving'
    <2>1. UNCHANGED <<served, updaterCancel, ctx, todo>>
      BY <1>10 DEF Exit, Done, ghosts
    <2>2. \A v \in workers' : v.ctx \in Held'
      BY DEF Held
    <2>3. workers' = workers \ {w} /\ cancelled' = cancelled \cap Held'
          /\ w.ctx \in cancelled
      BY <1>10 DEF Exit, Done
    <2>4. Live' = Live
      BY <2>2, <2>3 DEF Live
    <2>5. \A d \in Callers : pc'[d] = pc[d]
      BY <1>0, <1>10 DEF Exit, Done, TypeOK, Serving
    <2>6. QED
      BY <1>10, <2>1, <2>3, <2>4, <2>5, ServingStays DEF Serving
  <1>11. ASSUME UNCHANGED vars, Serving PROVE Serving'
    <2>1. Live' = Live
      BY <1>11 DEF vars, Live
    <2>2. QED
      BY <1>11, <2>1, ServingStays DEF vars, ghosts, Serving
  <1>12. ASSUME served = None, ~(\E c \in Callers : Start(c)) PROVE FALSE
    BY <1>2, <1>12 DEF Next, CallerStep, WorkerStep, Begin, LoadFromFile, Cancel, Wait,
        Wake, Spawn, Return, Tick, Refreshed, Exit, Done, vars, ghosts
  <1>13. CASE Serving
    BY <1>3, <1>4, <1>5, <1>6, <1>7, <1>8, <1>9, <1>10, <1>11, <1>13
    DEF Next, CallerStep, WorkerStep
  <1>14. QED
    BY <1>0, <1>6, <1>12, <1>13

\* A set of goroutines with one for each pool has as many as there are pools.
LEMMA OneEachCounts ==
    ASSUME IsFiniteSet(Pools), TypeOK, OneEach, LivePools = served, served # None
    PROVE  Cardinality(Live) = Cardinality(served)
  <1> DEFINE f == [w \in Live |-> w.pool]
  <1>1. IsFiniteSet(served)
    BY FS_Subset DEF TypeOK
  <1>2. f \in Injection(Live, served) /\ f \in Surjection(Live, served)
    <2>1. f \in [Live -> served]
      BY DEF LivePools
    <2>2. \A v, w \in Live : f[v] = f[w] => v = w
      BY DEF OneEach
    <2>3. \A p \in served : \E w \in Live : f[w] = p
      BY DEF LivePools
    <2>4. QED
      BY <2>1, <2>2, <2>3 DEF Injection, Surjection, IsInjective
  <1>3. QED
    BY <1>1, <1>2, FS_Injection

\* manager.go 1087-1141: whenever nobody restarts the updater and the last
\* restart was not overlapped outside fileMu, each pool with an interval it
\* found has exactly one goroutine that refreshes it, and no other pool has any,
\* whatever edits, reloads, added pools, stops and failed loads went before.
THEOREM RestartsCover ==
    ASSUME IsFiniteSet(Pools)
    PROVE  Spec => []Covered
  <1>1. CoverInv => Covered
    <2> SUFFICES ASSUME CoverInv, \A c \in Callers : pc[c] \notin Restarting, served # None
                 PROVE  /\ LivePools = served
                        /\ Cardinality(Live) = Cardinality(served)
      BY DEF Covered, LivePools
    <2>1. TypeOK /\ Serving
      BY DEF CoverInv, RestartInv
    <2>2. LivePools = served
      BY <2>1 DEF Serving, Restarting
    <2>3. QED
      BY <2>1, <2>2, OneEachCounts DEF Serving
  <1>2. CoverInv /\ [Next]_vars => CoverInv'
    BY CoverStep
  <1>3. QED
    BY <1>1, <1>2, CoverInit, PTL DEF Spec

=============================================================================
