------------------------- MODULE TrafficStoreProofs -------------------------
(***************************************************************************)
(* What TrafficStore keeps for every number of handlers, sizes of ring and *)
(* queue, days and restarts: nobody sends on a closed queue, the files     *)
(* hold what a TrafficLog promises, the ring is in order, numbers are not  *)
(* given twice, and the files follow the configured retention unless       *)
(* updates of it overlap.                                                  *)
(***************************************************************************)
EXTENDS TrafficStore, FiniteSetTheorems, SequenceTheorems,
        WellFoundedInduction, TLAPS

\* Whatever the actions do, they leave the recorders' states a function and
\* the variables this proof is about in their types.
QueueInv ==
    /\ pc = [r \in Recorders |-> pc[r]]
    /\ NoSendOnClosedQueue

LEMMA QueueInit == Init => QueueInv
  BY DEF Init, QueueInv, NoSendOnClosedQueue

\* What a recorder does: it comes to "send" only while the queue is open, and
\* CloseQueue waits for those that are there.
LEMMA RecordQueue ==
    ASSUME QueueInv, NEW r \in Recorders, Record(r)
    PROVE  QueueInv'
  <1>1. closer' = closer
    BY DEF Record
  <1>2. CASE UNCHANGED users
    BY <1>1, <1>2 DEF users, QueueInv, NoSendOnClosedQueue
  <1>3. CASE pc' = [pc EXCEPT ![r] = "enqueue"]
    BY <1>1, <1>3 DEF QueueInv, NoSendOnClosedQueue
  <1>4. QED
    BY <1>2, <1>3 DEF Record

LEMMA EnqueueQueue ==
    ASSUME QueueInv, NEW r \in Recorders, Enqueue(r)
    PROVE  QueueInv'
  <1>1. closer' = closer
    BY DEF Enqueue
  <1>2. CASE closer = "open"
    BY <1>1, <1>2 DEF Enqueue, QueueInv, NoSendOnClosedQueue
  <1>3. CASE closer # "open"
    BY <1>1, <1>3 DEF Enqueue, Done, QueueInv, NoSendOnClosedQueue
  <1>4. QED
    BY <1>2, <1>3

LEMMA SendQueue ==
    ASSUME QueueInv, NEW r \in Recorders, Send(r)
    PROVE  QueueInv'
  BY DEF Send, Done, QueueInv, NoSendOnClosedQueue

\* The steps of the settings, the clock and the writer, which touch neither
\* the recorders nor the state of the queue.
Aside ==
    \/ \E u \in Updaters : UpdateConfig(u) \/ UpdateRetention(u)
    \/ Snapshot \/ NextDay
    \/ Rotate \/ RotateFails \/ Write \/ WriteSplit
    \/ Flush \/ FlushFails \/ EndWriter

LEMMA AsideQueue ==
    ASSUME Aside
    PROVE  UNCHANGED <<pc, closer>>
  <1>1. ASSUME NEW u \in Updaters, UpdateConfig(u) \/ UpdateRetention(u)
        PROVE  UNCHANGED <<pc, closer>>
    BY <1>1 DEF UpdateConfig, UpdateRetention, users
  <1>2. CASE Snapshot \/ NextDay
    BY <1>2 DEF Snapshot, NextDay, users
  <1>3. CASE Rotate \/ RotateFails
    BY <1>3 DEF Rotate, RotateFails, users
  <1>4. CASE Write \/ WriteSplit
    BY <1>4 DEF Write, WriteSplit, users
  <1>5. CASE Flush \/ FlushFails \/ EndWriter
    BY <1>5 DEF Flush, FlushFails, EndWriter, users
  <1>6. QED
    BY <1>1, <1>2, <1>3, <1>4, <1>5 DEF Aside

LEMMA CloseQueueOK ==
    ASSUME QueueInv, BeginClose \/ CloseQueue \/ CloseReturns
    PROVE  QueueInv'
  <1>1. pc' = pc
    BY DEF BeginClose, CloseQueue, CloseReturns, users
  <1>2. CASE BeginClose
    BY <1>1, <1>2 DEF BeginClose, QueueInv, NoSendOnClosedQueue
  <1>3. CASE CloseQueue
    BY <1>1, <1>3 DEF CloseQueue, QueueInv, NoSendOnClosedQueue
  <1>4. CASE CloseReturns
    BY <1>1, <1>4 DEF CloseReturns, QueueInv, NoSendOnClosedQueue
  <1>5. QED
    BY <1>2, <1>3, <1>4

LEMMA RestartQueue ==
    ASSUME Restart
    PROVE  QueueInv'
  <1>1. pc' = [r \in Recorders |-> "idle"]
    BY DEF Restart
  <1>2. QED
    BY <1>1 DEF QueueInv, NoSendOnClosedQueue

LEMMA QueueNext ==
    ASSUME QueueInv, [Next]_vars
    PROVE  QueueInv'
  <1>1. CASE UNCHANGED vars
    BY <1>1 DEF vars, users, QueueInv, NoSendOnClosedQueue
  <1>2. CASE \E r \in Recorders : Record(r) \/ Enqueue(r) \/ Send(r)
    BY <1>2, RecordQueue, EnqueueQueue, SendQueue
  <1>3. CASE Aside
    BY <1>3, AsideQueue DEF QueueInv, NoSendOnClosedQueue
  <1>4. CASE BeginClose \/ CloseQueue \/ CloseReturns
    BY <1>4, CloseQueueOK
  <1>5. CASE Restart
    BY <1>5, RestartQueue
  <1>6. QED
    BY <1>1, <1>2, <1>3, <1>4, <1>5 DEF Next, Aside

\* Whatever the handlers, the writer and the process do, no handler stands
\* before a send on a queue that close has closed.
THEOREM NobodySendsOnClosed == Spec => []NoSendOnClosedQueue
  <1>1. QueueInv => NoSendOnClosedQueue
    BY DEF QueueInv
  <1>2. QueueInv /\ [Next]_vars => QueueInv'
    BY QueueNext
  <1>3. QED
    BY QueueInit, <1>1, <1>2, PTL DEF Spec

-----------------------------------------------------------------------------
(* Retention, under updates of the settings that may overlap.              *)

\* A history variable: the last update of the settings began while another was
\* under way.  It is set when an update begins, forgotten with the process, and
\* no action depends on it.
VARIABLE crossed

Begins == \E u \in Updaters : wanted[u] = 0 /\ wanted'[u] # 0

Watch == crossed' = IF Begins THEN \E u \in Updaters : wanted[u] # 0
                              ELSE crossed /\ life' = life

WatchedNext == Next /\ Watch
WatchedSpec == Init /\ crossed = FALSE /\ [][WatchedNext]_<<vars, crossed>>

\* The writer and the store agree on the retention whenever no update is under
\* way, unless the last one overlapped with another: UpdateConfig writes the
\* configuration and the writer's retention under two locks (store.go 101-115).
RetentionAgrees ==
    (wpc # "none" /\ ~crossed /\ \A u \in Updaters : wanted[u] = 0)
        => retention = config.keep

\* Without an overlap only one update is under way, and it goes on to what is
\* in the configuration; with none under way the writer has followed.
RetentionInv ==
    /\ crossed \in BOOLEAN
    /\ config.keep \in Retentions
    /\ wanted = [u \in Updaters |-> wanted[u]]
    /\ wpc = "none" => \A u \in Updaters : wanted[u] = 0
    /\ ~crossed => \A u \in Updaters : wanted[u] # 0 =>
                      /\ wanted[u] = config.keep
                      /\ \A v \in Updaters : wanted[v] # 0 => v = u
    /\ RetentionAgrees

LEMMA RetentionInit == Init /\ crossed = FALSE => RetentionInv
  <1>1. SUFFICES ASSUME Init, crossed = FALSE PROVE RetentionInv
    OBVIOUS
  <1>2. wanted = [u \in Updaters |-> 0] /\ retention = config.keep
    BY <1>1, Zenon DEF Init
  <1>3. config.keep \in Retentions
    <2>1. config \in [on : BOOLEAN, keep : Retentions]
      BY <1>1, Zenon DEF Init
    <2>2. QED
      BY <2>1
  <1>4. \A u \in Updaters : wanted[u] = 0
    BY <1>2
  <1>5. QED
    BY <1>1, <1>2, <1>3, <1>4 DEF RetentionInv, RetentionAgrees

LEMMA UpdateConfigRetention ==
    ASSUME RetentionInv, Watch, NEW u \in Updaters, UpdateConfig(u)
    PROVE  RetentionInv'
  <1>1. PICK c \in [on : BOOLEAN, keep : Retentions] :
            /\ config' = c
            /\ wanted' = [wanted EXCEPT ![u] = IF wpc = "none" THEN 0 ELSE c.keep]
    BY DEF UpdateConfig
  <1>2. c.keep \in Retentions /\ c.keep # 0
    BY SizesAssumption
  <1>3. wpc' = wpc /\ retention' = retention /\ life' = life /\ wanted[u] = 0
    BY DEF UpdateConfig, proc
  <1>4. CASE wpc = "none"
    <2>1. wanted' = wanted
      BY <1>1, <1>3, <1>4 DEF RetentionInv
    <2>2. crossed' = crossed
      BY <1>3, <2>1 DEF Watch, Begins, RetentionInv
    <2>3. QED
      BY <1>1, <1>2, <1>3, <1>4, <2>1, <2>2 DEF RetentionInv, RetentionAgrees
  <1>5. CASE wpc # "none"
    <2>1. /\ wanted'[u] = c.keep /\ \A v \in Updaters \ {u} : wanted'[v] = wanted[v]
          /\ wanted' = [v \in Updaters |-> wanted'[v]]
      BY <1>1, <1>5 DEF RetentionInv
    <2>2. Begins
      BY <1>2, <1>3, <2>1 DEF Begins
    <2>3. crossed' = (\E v \in Updaters : wanted[v] # 0)
      BY <2>2 DEF Watch
    <2>4. QED
      BY <1>1, <1>2, <1>3, <1>5, <2>1, <2>3 DEF RetentionInv, RetentionAgrees
  <1>6. QED
    BY <1>4, <1>5

LEMMA UpdateRetentionRetention ==
    ASSUME RetentionInv, Watch, NEW u \in Updaters, UpdateRetention(u)
    PROVE  RetentionInv'
  <1>1. /\ wanted[u] # 0 /\ wanted' = [wanted EXCEPT ![u] = 0]
        /\ retention' = wanted[u]
        /\ UNCHANGED <<config, wpc, life>>
    BY DEF UpdateRetention, store, proc
  <1>2. crossed' = crossed
    BY <1>1 DEF Watch, Begins, RetentionInv
  <1>3. QED
    BY <1>1, <1>2 DEF RetentionInv, RetentionAgrees

\* The writer starts only with the process: no other step takes it from "none".
LEMMA OthersRetention ==
    ASSUME RetentionInv, Watch,
           \/ \E r \in Recorders : Record(r) \/ Enqueue(r) \/ Send(r)
           \/ Snapshot \/ NextDay
           \/ Rotate \/ RotateFails \/ Write \/ WriteSplit
           \/ Flush \/ FlushFails \/ EndWriter
           \/ BeginClose \/ CloseQueue \/ CloseReturns
    PROVE  RetentionInv'
  <1>1. UNCHANGED <<config, wanted, retention, life>>
    <2>1. CASE \E r \in Recorders : Record(r) \/ Enqueue(r) \/ Send(r)
      BY <2>1 DEF Record, Enqueue, Send, proc
    <2>2. CASE Snapshot \/ NextDay \/ BeginClose \/ CloseQueue \/ CloseReturns
      BY <2>2 DEF Snapshot, NextDay, BeginClose, CloseQueue, CloseReturns, proc
    <2>3. CASE Rotate \/ RotateFails \/ Write \/ WriteSplit
      BY <2>3 DEF Rotate, RotateFails, Write, WriteSplit, proc
    <2>4. CASE Flush \/ FlushFails \/ EndWriter
      BY <2>4 DEF Flush, FlushFails, EndWriter, proc
    <2>5. QED
      BY <2>1, <2>2, <2>3, <2>4
  <1>2. wpc = "none" <=> wpc' = "none"
    <2>1. CASE \E r \in Recorders : Record(r) \/ Enqueue(r) \/ Send(r)
      BY <2>1 DEF Record, Enqueue, Send, proc
    <2>2. CASE Snapshot \/ NextDay \/ BeginClose \/ CloseQueue \/ CloseReturns
      BY <2>2 DEF Snapshot, NextDay, BeginClose, CloseQueue, CloseReturns, proc
    <2>3. CASE Rotate \/ RotateFails \/ Write \/ WriteSplit
      BY <2>3 DEF Rotate, RotateFails, Write, WriteSplit, proc
    <2>4. CASE Flush \/ FlushFails \/ EndWriter
      BY <2>4 DEF Flush, FlushFails, EndWriter, proc
    <2>5. QED
      BY <2>1, <2>2, <2>3, <2>4
  <1>3. crossed' = crossed
    BY <1>1 DEF Watch, Begins, RetentionInv
  <1>4. QED
    BY <1>1, <1>2, <1>3 DEF RetentionInv, RetentionAgrees

LEMMA RestartRetention ==
    ASSUME RetentionInv, Watch, Restart
    PROVE  RetentionInv'
  <1>1. /\ config' = config /\ retention' = config.keep
        /\ wanted' = [u \in Updaters |-> 0] /\ life' = life + 1
    BY DEF Restart
  <1>2. \A u \in Updaters : wanted'[u] = 0
    BY <1>1
  <1>3. crossed' = (crossed /\ life' = life)
    BY <1>2 DEF Watch, Begins
  <1>4. crossed' \in BOOLEAN
    BY <1>3
  <1>5. QED
    BY <1>1, <1>2, <1>4 DEF RetentionInv, RetentionAgrees

LEMMA RetentionNext ==
    ASSUME RetentionInv, [WatchedNext]_<<vars, crossed>>
    PROVE  RetentionInv'
  <1>1. CASE UNCHANGED <<vars, crossed>>
    BY <1>1 DEF vars, RetentionInv, RetentionAgrees
  <1>2. ASSUME Watch, NEW u \in Updaters, UpdateConfig(u) \/ UpdateRetention(u)
        PROVE  RetentionInv'
    BY <1>2, UpdateConfigRetention, UpdateRetentionRetention
  <1>3. CASE Watch /\ Restart
    BY <1>3, RestartRetention
  <1>4. QED
    BY <1>1, <1>2, <1>3, OthersRetention DEF WatchedNext, Next

\* However many requests and reloads change the settings at once: whenever no
\* update is under way the writer deletes files by the retention that is
\* configured, unless the last update began while another was under way;
\* through any number of changes, closes, failing disks and restarts.
THEOREM RetentionFollows == WatchedSpec => []RetentionAgrees
  <1>1. RetentionInv => RetentionAgrees
    BY DEF RetentionInv
  <1>2. RetentionInv /\ [WatchedNext]_<<vars, crossed>> => RetentionInv'
    BY RetentionNext
  <1>3. QED
    BY RetentionInit, <1>1, <1>2, PTL DEF WatchedSpec

-----------------------------------------------------------------------------
(* Induction, for the lines a new process loads and their highest number    *)

Smaller == {ss \in Nat \X Nat : ss[1] < ss[2]}

LEMMA LeastOne ==
    ASSUME NEW T, T \subseteq Nat, T # {}
    PROVE  \E x \in T : \A y \in T : x <= y
  <1>1. IsWellFoundedOn(Smaller, Nat)
    <2>1. OpToRel(<, Nat) = {ss \in Nat \X Nat : ss[1] < ss[2]}
      BY Zenon DEF OpToRel
    <2>2. QED
      BY <2>1, NatLessThanWellFounded, Zenon DEF Smaller
  <1>2. PICK x \in T : \A y \in T : ~ (<<y, x>> \in Smaller)
    BY <1>1, WFMin, Zenon
  <1>3. ASSUME NEW y \in T
        PROVE  x <= y
    <2>1. x \in Nat /\ y \in Nat
      OBVIOUS
    <2>2. <<y, x>> \notin Smaller
      BY <1>2
    <2>3. ~ (y < x)
      BY <2>1, <2>2 DEF Smaller
    <2>4. QED
      BY <2>1, <2>3
  <1>4. QED
    BY <1>3

LEMMA Induction ==
    ASSUME NEW S, 0 \in S, \A n \in Nat : n \in S => n + 1 \in S
    PROVE  Nat \subseteq S
  <1>1. SUFFICES ASSUME NEW k \in Nat, k \notin S PROVE FALSE
    OBVIOUS
  <1>2. PICK x \in Nat \ S : \A y \in Nat \ S : x <= y
    BY <1>1, LeastOne
  <1>3. x # 0
    BY <1>2
  <1>4. x - 1 \in Nat
    BY <1>2, <1>3
  <1>5. x - 1 \in S
    BY <1>2, <1>4
  <1>6. QED
    BY <1>2, <1>4, <1>5

\* FlattenSeq builds the lines file by file.
Builds(f, seqs, n) ==
    \A i \in 1 .. n : f[i] = IF i = 1 THEN seqs[i] ELSE f[i - 1] \o seqs[i]

LEMMA Buildable ==
    ASSUME NEW S, NEW seqs, NEW n \in Nat, \A i \in 1 .. n : seqs[i] \in Seq(S)
    PROVE  \E f \in [1 .. n -> Seq(S)] : Builds(f, seqs, n)
  <1> DEFINE P == {k \in Nat : k <= n =>
                       \E f \in [1 .. k -> Seq(S)] : Builds(f, seqs, k)}
  <1>1. 0 \in P
    <2>1. [i \in 1 .. 0 |-> <<>>] \in [1 .. 0 -> Seq(S)]
      OBVIOUS
    <2>2. Builds([i \in 1 .. 0 |-> <<>>], seqs, 0)
      BY DEF Builds
    <2>3. QED
      BY <2>1, <2>2
  <1>2. ASSUME NEW k \in Nat, k \in P
        PROVE  k + 1 \in P
    <2>1. SUFFICES ASSUME k + 1 <= n
                   PROVE  \E g \in [1 .. k + 1 -> Seq(S)] : Builds(g, seqs, k + 1)
      OBVIOUS
    <2>2. k <= n /\ k + 1 \in 1 .. n
      BY <2>1
    <2>3. PICK f \in [1 .. k -> Seq(S)] : Builds(f, seqs, k)
      BY <1>2, <2>2
    <2> DEFINE next == IF k = 0 THEN seqs[1] ELSE f[k] \o seqs[k + 1]
               g == [i \in 1 .. k + 1 |-> IF i = k + 1 THEN next ELSE f[i]]
    <2>4. next \in Seq(S)
      <3>1. CASE k = 0
        BY <2>2, <3>1
      <3>2. CASE k # 0
        <4>1. f[k] \in Seq(S) /\ seqs[k + 1] \in Seq(S)
          BY <2>2, <2>3, <3>2
        <4>2. QED
          BY <3>2, <4>1, ConcatProperties
      <3>3. QED
        BY <3>1, <3>2
    <2> HIDE DEF next
    <2>5. g \in [1 .. k + 1 -> Seq(S)]
      BY <2>3, <2>4
    <2>6. Builds(g, seqs, k + 1)
      <3>1. SUFFICES ASSUME NEW i \in 1 .. k + 1
                     PROVE  g[i] = IF i = 1 THEN seqs[i] ELSE g[i - 1] \o seqs[i]
        BY DEF Builds
      <3>2. CASE i = k + 1
        <4>1. g[i] = next
          BY <3>2
        <4>2. CASE k = 0
          BY <3>2, <4>1, <4>2, SMTT(30) DEF next
        <4>3. CASE k # 0
          <5>1. g[k] = f[k]
            BY <4>3
          <5>2. i # 1 /\ i - 1 = k
            BY <3>2, <4>3
          <5>3. QED
            BY <3>2, <4>1, <4>3, <5>1, <5>2 DEF next
        <4>4. QED
          BY <4>2, <4>3
      <3>3. CASE i # k + 1
        <4>1. i \in 1 .. k
          BY <3>3
        <4>2. g[i] = f[i]
          BY <3>3
        <4>3. i # 1 => g[i - 1] = f[i - 1]
          BY <4>1
        <4>4. QED
          BY <2>3, <4>1, <4>2, <4>3 DEF Builds
      <3>4. QED
        BY <3>2, <3>3
    <2>7. QED
      BY <2>5, <2>6
  <1>3. n \in P
    <2> HIDE DEF P
    <2>1. QED
      BY <1>1, <1>2, Induction
  <1>4. QED
    BY <1>3

\* What is built of sequences over a set is one.
LEMMA BuiltTyped ==
    ASSUME NEW S, NEW seqs, NEW n \in Nat, \A i \in 1 .. n : seqs[i] \in Seq(S),
           NEW f, Builds(f, seqs, n)
    PROVE  \A i \in 1 .. n : f[i] \in Seq(S)
  <1> DEFINE P == {k \in Nat : k \in 1 .. n => f[k] \in Seq(S)}
  <1>1. 0 \in P
    OBVIOUS
  <1>2. ASSUME NEW k \in Nat, k \in P
        PROVE  k + 1 \in P
    <2>1. SUFFICES ASSUME k + 1 \in 1 .. n
                   PROVE  f[k + 1] \in Seq(S)
      OBVIOUS
    <2>2. CASE k = 0
      BY <2>1, <2>2 DEF Builds
    <2>3. CASE k # 0
      <3>1. k \in 1 .. n /\ k + 1 # 1 /\ (k + 1) - 1 = k
        BY <2>1, <2>3
      <3>2. f[k + 1] = f[k] \o seqs[k + 1]
        BY <2>1, <3>1 DEF Builds
      <3>3. f[k] \in Seq(S) /\ seqs[k + 1] \in Seq(S)
        BY <1>2, <2>1, <3>1
      <3>4. QED
        BY <3>2, <3>3, ConcatProperties
    <2>4. QED
      BY <2>2, <2>3
  <1>3. Nat \subseteq P
    <2> HIDE DEF P
    <2>1. QED
      BY <1>1, <1>2, Induction
  <1>4. QED
    BY <1>3

\* FlattenSeq is what Builds describes.
LEMMA FlattenBuilt ==
    ASSUME NEW S, NEW seqs \in Seq(Seq(S)), NEW n \in Nat, n = Len(seqs), n # 0
    PROVE  \E f : Builds(f, seqs, n) /\ FlattenSeq(seqs) = f[n]
  <1> DEFINE fl == CHOOSE f : f = [i \in 1 .. n |->
                       IF i = 1 THEN seqs[i] ELSE f[i - 1] \o seqs[i]]
  <1>1. \A i \in 1 .. n : seqs[i] \in Seq(S)
    OBVIOUS
  <1>2. PICK f \in [1 .. n -> Seq(S)] : Builds(f, seqs, n)
    BY <1>1, Buildable
  <1>3. f = [i \in 1 .. n |-> IF i = 1 THEN seqs[i] ELSE f[i - 1] \o seqs[i]]
    BY <1>2 DEF Builds
  <1>4. fl = [i \in 1 .. n |-> IF i = 1 THEN seqs[i] ELSE fl[i - 1] \o seqs[i]]
    BY <1>3, Zenon
  <1>5. Builds(fl, seqs, n)
    <2> HIDE DEF fl
    <2>1. QED
      BY <1>4 DEF Builds
  <1>6. FlattenSeq(seqs) = fl[n]
    BY Zenon DEF FlattenSeq
  <1> HIDE DEF fl
  <1>7. QED
    BY <1>5, <1>6

LEMMA FlattenTyped ==
    ASSUME NEW S, NEW seqs \in Seq(Seq(S))
    PROVE  FlattenSeq(seqs) \in Seq(S)
  <1>1. PICK n \in Nat : n = Len(seqs)
    OBVIOUS
  <1>2. CASE n = 0
    <2>1. Len(seqs) = 0
      BY <1>1, <1>2
    <2>2. FlattenSeq(seqs) = seqs
      BY <2>1, Zenon DEF FlattenSeq
    <2>3. seqs = <<>>
      <3>1. seqs # <<>> => Len(seqs) \in Nat \ {0}
        BY EmptySeq, Zenon
      <3>2. QED
        BY <2>1, <3>1
    <2>4. QED
      BY <2>2, <2>3
  <1>3. CASE n # 0
    <2>1. PICK f : Builds(f, seqs, n) /\ FlattenSeq(seqs) = f[n]
      BY <1>1, <1>3, FlattenBuilt
    <2>2. \A i \in 1 .. n : seqs[i] \in Seq(S)
      BY <1>1
    <2>3. \A i \in 1 .. n : f[i] \in Seq(S)
      BY <2>1, <2>2, BuiltTyped, Zenon
    <2>4. n \in 1 .. n
      BY <1>3
    <2>5. QED
      BY <2>1, <2>3, <2>4
  <1>4. QED
    BY <1>2, <1>3

LEMMA RecentTyped ==
    ASSUME NEW fs \in [Days -> Seq(Trace)], capacity \in Nat \ {0}
    PROVE  Recent(fs) \in Seq(Trace)
  <1> DEFINE seqs  == [d \in Days |-> fs[d]]
             lines == FlattenSeq(seqs)
             first == IF Len(lines) > capacity
                      THEN Len(lines) - capacity + 1 ELSE 1
  <1>1. seqs \in Seq(Seq(Trace))
    BY SizesAssumption, SMTT(30) DEF Days
  <1>2. lines \in Seq(Trace)
    <2> HIDE DEF seqs
    <2>1. QED
      BY <1>1, FlattenTyped
  <1>3. SubSeq(lines, first, Len(lines)) \in Seq(Trace)
    <2> HIDE DEF lines
    <2>1. PICK n \in Nat : n = Len(lines)
      BY <1>2
    <2>2. PICK m \in 1 .. n + 1 : m = first
      <3>1. PICK c \in Nat \ {0} : c = capacity
        OBVIOUS
      <3>2. (IF n > c THEN n - c + 1 ELSE 1) \in 1 .. n + 1
        BY <3>1
      <3>3. QED
        BY <2>1, <3>1, <3>2
    <2>3. \A i \in m .. n : lines[i] \in Trace
      BY <1>2, <2>1
    <2>4. SubSeq(lines, m, n) \in Seq(Trace)
      BY <2>3, SubSeqProperties
    <2>5. QED
      BY <2>1, <2>2, <2>4
  <1>4. QED
    BY <1>3 DEF Recent

LEMMA HighestIsID ==
    ASSUME NEW traces \in Seq(Trace)
    PROVE  /\ HighestID(traces) \in 0 .. MaxID
           /\ \A m \in IDs(traces) : m <= HighestID(traces)
  <1> DEFINE N == IDs(traces) \cup {0}
             T == {MaxID - m : m \in N}
  <1>1. N \subseteq 0 .. MaxID
    <2>1. ASSUME NEW i \in DOMAIN traces
          PROVE  traces[i].id \in 0 .. MaxID
      <3>1. traces[i] \in Trace
        OBVIOUS
      <3>2. QED
        BY <3>1, SizesAssumption DEF Trace
    <2>2. QED
      BY <2>1, SizesAssumption DEF IDs
  <1>2. T \subseteq Nat /\ T # {}
    BY <1>1, SizesAssumption
  <1>3. PICK x \in T : \A y \in T : x <= y
    <2> HIDE DEF T
    <2>1. QED
      BY <1>2, LeastOne
  <1>4. PICK n \in N : x = MaxID - n
    BY <1>3
  <1>5. \A m \in N : m <= n
    <2>1. SUFFICES ASSUME NEW m \in N PROVE m <= n
      OBVIOUS
    <2>2. MaxID - n <= MaxID - m
      BY <1>3, <1>4
    <2>3. m \in 0 .. MaxID /\ n \in 0 .. MaxID
      BY <1>1
    <2>4. QED
      BY <2>2, <2>3, SizesAssumption
  <1>6. \A m \in IDs(traces) : m <= n
    BY <1>5
  <1>7. /\ HighestID(traces) \in N
        /\ \A m \in IDs(traces) : m <= HighestID(traces)
    <2> HIDE DEF N
    <2>1. HighestID(traces) = CHOOSE k \in N : \A m \in IDs(traces) : m <= k
      BY Zenon DEF HighestID, N
    <2>2. \E k \in N : \A m \in IDs(traces) : m <= k
      BY <1>6
    <2>3. QED
      BY <2>1, <2>2, Zenon
  <1>8. QED
    BY <1>1, <1>7

-----------------------------------------------------------------------------
(* The elements of a sequence                                               *)

LEMMA SetOfNone == ToSet(<<>>) = {}
  BY DEF ToSet

LEMMA SetOfOne ==
    ASSUME NEW e
    PROVE  ToSet(<<e>>) = {e}
  BY DEF ToSet

LEMMA SetOfSeq ==
    ASSUME NEW S, NEW s \in Seq(S)
    PROVE  ToSet(s) = {s[i] : i \in 1 .. Len(s)} /\ ToSet(s) \subseteq S
  BY DEF ToSet

LEMMA SetOfAppend ==
    ASSUME NEW S, NEW s \in Seq(S), NEW e \in S
    PROVE  Append(s, e) \in Seq(S) /\ ToSet(Append(s, e)) = ToSet(s) \cup {e}
  <1>1. PICK n \in Nat : n = Len(s)
    OBVIOUS
  <1>2. /\ Append(s, e) \in Seq(S) /\ Len(Append(s, e)) = n + 1
        /\ \A i \in 1 .. n : Append(s, e)[i] = s[i]
        /\ Append(s, e)[n + 1] = e
    BY <1>1, AppendProperties
  <1>3. ToSet(Append(s, e)) = {Append(s, e)[i] : i \in 1 .. n + 1}
    BY <1>2, SetOfSeq
  <1>4. ToSet(s) = {s[i] : i \in 1 .. n}
    BY <1>1, SetOfSeq
  <1>5. QED
    BY <1>2, <1>3, <1>4

LEMMA SetOfConcat ==
    ASSUME NEW S, NEW s \in Seq(S), NEW t \in Seq(S)
    PROVE  s \o t \in Seq(S) /\ ToSet(s \o t) = ToSet(s) \cup ToSet(t)
  <1>1. PICK m \in Nat, n \in Nat : m = Len(s) /\ n = Len(t)
    OBVIOUS
  <1>2. /\ s \o t \in Seq(S) /\ Len(s \o t) = m + n
        /\ \A i \in 1 .. m + n : (s \o t)[i] = IF i <= m THEN s[i] ELSE t[i - m]
    BY <1>1, ConcatProperties
  <1>3. ToSet(s \o t) = {(s \o t)[i] : i \in 1 .. m + n}
    BY <1>2, SetOfSeq
  <1>4. ToSet(s) = {s[i] : i \in 1 .. m} /\ ToSet(t) = {t[i] : i \in 1 .. n}
    BY <1>1, SetOfSeq
  <1>5. ASSUME NEW i \in 1 .. n
        PROVE  t[i] = (s \o t)[m + i]
    BY <1>2
  <1>6. ASSUME NEW i \in 1 .. m
        PROVE  s[i] = (s \o t)[i]
    BY <1>2
  <1>7. ASSUME NEW i \in 1 .. m + n
        PROVE  (s \o t)[i] \in ToSet(s) \cup ToSet(t)
    <2>1. CASE i <= m
      BY <1>2, <1>4, <2>1
    <2>2. CASE ~ (i <= m)
      <3>1. i - m \in 1 .. n
        BY <2>2
      <3>2. QED
        BY <1>2, <1>4, <2>2, <3>1
    <2>3. QED
      BY <2>1, <2>2
  <1>8. ToSet(s \o t) \subseteq ToSet(s) \cup ToSet(t)
    BY <1>3, <1>7
  <1>9. ToSet(s) \subseteq ToSet(s \o t)
    <2>1. ASSUME NEW i \in 1 .. m
          PROVE  s[i] \in ToSet(s \o t)
      <3>1. i \in 1 .. m + n
        OBVIOUS
      <3>2. QED
        BY <1>3, <1>6, <3>1
    <2>2. QED
      BY <1>4, <2>1
  <1>10. ToSet(t) \subseteq ToSet(s \o t)
    <2>1. ASSUME NEW i \in 1 .. n
          PROVE  t[i] \in ToSet(s \o t)
      <3>1. m + i \in 1 .. m + n
        OBVIOUS
      <3>2. QED
        BY <1>3, <1>5, <3>1
    <2>2. QED
      BY <1>4, <2>1
  <1>11. QED
    BY <1>2, <1>8, <1>9, <1>10

LEMMA SetOfTail ==
    ASSUME NEW S, NEW s \in Seq(S), s # <<>>
    PROVE  /\ Head(s) \in S /\ Tail(s) \in Seq(S)
           /\ ToSet(s) = {Head(s)} \cup ToSet(Tail(s))
  <1>1. PICK n \in Nat : n + 1 = Len(s)
    <2>1. Len(s) \in Nat \ {0}
      BY EmptySeq
    <2>2. QED
      BY <2>1
  <1>2. /\ Head(s) = s[1]
        /\ Head(s) \in S /\ Tail(s) \in Seq(S) /\ Len(Tail(s)) = n
        /\ \A i \in 1 .. n : Tail(s)[i] = s[i + 1]
    BY <1>1, HeadTailProperties
  <1>3. ToSet(s) = {s[i] : i \in 1 .. n + 1}
    BY <1>1, SetOfSeq
  <1>4. ToSet(Tail(s)) = {Tail(s)[i] : i \in 1 .. n}
    BY <1>2, SetOfSeq
  <1>5. \A i \in 1 .. n + 1 : i = 1 \/ i - 1 \in 1 .. n
    OBVIOUS
  <1>6. QED
    BY <1>2, <1>3, <1>4, <1>5, SMTT(30)

LEMMA SetOfSubSeq ==
    ASSUME NEW S, NEW s \in Seq(S), NEW k \in 0 .. Len(s)
    PROVE  SubSeq(s, 1, k) \in Seq(S) /\ ToSet(SubSeq(s, 1, k)) \subseteq ToSet(s)
  <1>1. PICK n \in Nat : n = Len(s)
    OBVIOUS
  <1>2. \A i \in 1 .. k : s[i] \in S
    BY <1>1
  <1>3. /\ SubSeq(s, 1, k) \in Seq(S)
        /\ Len(SubSeq(s, 1, k)) = k
        /\ \A i \in 1 .. k : SubSeq(s, 1, k)[i] = s[i]
    BY <1>2, SubSeqProperties
  <1>4. ToSet(SubSeq(s, 1, k)) = {SubSeq(s, 1, k)[i] : i \in 1 .. k}
    BY <1>3, SetOfSeq
  <1>5. ToSet(s) = {s[i] : i \in 1 .. n}
    BY <1>1, SetOfSeq
  <1>6. QED
    BY <1>1, <1>3, <1>4, <1>5

-----------------------------------------------------------------------------
(* What holds between the steps                                             *)

InHand(r) == pc[r] # "idle"

\* The file of a day has the traces of that day.
Filed(fs) ==
    /\ fs \in [Days -> Seq(Trace)]
    /\ \A d \in Days : \A t \in ToSet(fs[d]) : t.day = d

StoreTypes ==
    /\ day \in Days /\ life \in 1 .. MaxLife /\ nextID \in Nat
    /\ capacity \in Nat \ {0}
    /\ config.keep \in Retentions /\ retention \in Retentions
    /\ wanted \in [Updaters -> Retentions \cup {0}]
    /\ pc \in [Recorders -> {"idle", "enqueue", "send"}]
    /\ item \in [Recorders -> Trace \cup {<<>>}]
    /\ \A r \in Recorders : InHand(r) => item[r] \in Trace
    /\ queue \in Seq(Trace) /\ buf \in Seq(Trace)
    /\ Filed(files)
    /\ floor \in Nat

\* Every trace under way has a number that has been given, and is at one
\* place: in one hand, at one place of the queue or in the buffer.
Numbered ==
    /\ \A r \in Recorders : InHand(r) => item[r].id <= nextID
    /\ \A t \in ToSet(queue) \cup ToSet(buf) : t.id <= nextID

OnePlace ==
    /\ \A r, s \in Recorders :
          InHand(r) /\ InHand(s) /\ r # s => item[r] # item[s]
    /\ \A r \in Recorders :
          InHand(r) => item[r] \notin ToSet(queue) \cup ToSet(buf)
    /\ \A i, j \in 1 .. Len(queue) : queue[i] = queue[j] => i = j
    /\ ToSet(queue) \cap ToSet(buf) = {}

\* What the writer may lose has its excuse: a torn line is one of a day already
\* hit, or of the open file, and goes with the next flush; what follows a torn
\* line or a write error is of such a day; a file that is open and not in the
\* directory any more is of a day that has run out.
Torn ==
    /\ torn \subseteq hurt \cup {cur}
    /\ cur \in torn => cur \in hurt \/ (linked /\ buf # <<>>)
    /\ glued \/ broken => cur \in hurt

Opened ==
    /\ \A t \in ToSet(buf) : t.day = cur
    /\ linked => cur \in Days
    /\ cur \in Days /\ ~linked => cur < floor

\* A writer that has ended has written everything.
Drained ==
    wpc = "ended" =>
        closer \in {"waiting", "closed"} /\ queue = <<>> /\ buf = <<>>

StoreInv ==
    StoreTypes /\ Numbered /\ OnePlace /\ Torn /\ Opened /\ Drained

-----------------------------------------------------------------------------
(* Flushing and removing                                                    *)

Saved(fs) == UNION {ToSet(fs[d]) : d \in Days}

LEMMA ReadableLines ==
    ASSUME NEW lines \in Seq(Trace)
    PROVE  /\ Readable(lines) \in Seq(Trace)
           /\ ToSet(Readable(lines)) \subseteq ToSet(lines)
           /\ ~glued => Readable(lines) = lines
  <1>1. CASE glued /\ lines # <<>>
    <2>1. Readable(lines) = Tail(lines)
      BY <1>1 DEF Readable
    <2>2. QED
      BY <1>1, <2>1, SetOfTail
  <1>2. CASE ~ (glued /\ lines # <<>>)
    BY <1>2 DEF Readable
  <1>3. QED
    BY <1>1, <1>2

\* A flush adds lines of the buffer to the files, and all but those with an
\* excuse: the first after a torn line, and those of an unlinked file.
LEMMA FlushSaves ==
    ASSUME Filed(files), Torn, Opened,
           NEW lines \in Seq(Trace), \A t \in ToSet(lines) : t.day = cur
    PROVE  /\ Filed(Flushed(lines))
           /\ Saved(files) \subseteq Saved(Flushed(lines))
           /\ Saved(Flushed(lines)) \subseteq Saved(files) \cup ToSet(lines)
           /\ \A t \in ToSet(lines) :
                 t \in Saved(Flushed(lines)) \/ t.day \in hurt \/ t.day < floor
  <1> DEFINE out == Readable(lines)
  <1>1. /\ out \in Seq(Trace) /\ ToSet(out) \subseteq ToSet(lines)
        /\ ~glued => out = lines
    BY ReadableLines, Zenon
  <1> HIDE DEF out
  <1>2. CASE linked
    <2>1. cur \in Days
      BY <1>2 DEF Opened
    <2>2. Flushed(lines) = [files EXCEPT ![cur] = files[cur] \o out]
      BY <1>2 DEF Flushed, out
    <2>3. /\ files[cur] \o out \in Seq(Trace)
          /\ ToSet(files[cur] \o out) = ToSet(files[cur]) \cup ToSet(out)
      <3>1. files[cur] \in Seq(Trace)
        BY <2>1 DEF Filed
      <3>2. QED
        BY <1>1, <3>1, SetOfConcat
    <2>4. /\ Flushed(lines) \in [Days -> Seq(Trace)]
          /\ Flushed(lines)[cur] = files[cur] \o out
          /\ \A d \in Days \ {cur} : Flushed(lines)[d] = files[d]
      BY <2>1, <2>2, <2>3 DEF Filed
    <2>5. ToSet(Flushed(lines)[cur]) = ToSet(files[cur]) \cup ToSet(out)
      BY <2>3, <2>4
    <2>6. Filed(Flushed(lines))
      <3>1. ASSUME NEW d \in Days, NEW t \in ToSet(Flushed(lines)[d])
            PROVE  t.day = d
        <4>1. CASE d = cur
          BY <1>1, <2>1, <2>5, <3>1, <4>1 DEF Filed
        <4>2. CASE d # cur
          BY <2>4, <3>1, <4>2 DEF Filed
        <4>3. QED
          BY <4>1, <4>2
      <3>2. QED
        BY <2>4, <3>1 DEF Filed
    <2>7. Saved(Flushed(lines)) = Saved(files) \cup ToSet(out)
      <3>1. ASSUME NEW t
            PROVE  t \in Saved(Flushed(lines)) <=> t \in Saved(files) \cup ToSet(out)
        BY <2>1, <2>4, <2>5, ZenonT(60) DEF Saved
      <3>2. QED
        BY <3>1
    <2>8. ASSUME NEW t \in ToSet(lines)
          PROVE  t \in ToSet(out) \/ t.day \in hurt
      BY <1>1, <2>8 DEF Torn
    <2>9. QED
      BY <1>1, <2>6, <2>7, <2>8
  <1>3. CASE ~linked
    <2>1. Flushed(lines) = files
      BY <1>3 DEF Flushed
    <2>2. ASSUME NEW t \in ToSet(lines)
          PROVE  t.day < floor
      <3>1. t \in Trace /\ t.day = cur
        BY SetOfSeq
      <3>2. t.day \in Days
        BY <3>1 DEF Trace
      <3>3. QED
        BY <1>3, <3>1, <3>2 DEF Opened
    <2>3. QED
      BY <2>1, <2>2
  <1>4. QED
    BY <1>2, <1>3

\* After a flush no torn line is left that is not excused.
LEMMA FlushMends ==
    ASSUME Torn
    PROVE  Mended(buf) \subseteq hurt /\ Mended(buf) \subseteq torn
  BY DEF Torn, Mended

LEMMA CutoffNat ==
    ASSUME NEW keep \in Retentions, NEW d \in Days
    PROVE  Cutoff(d, keep) \in Nat
  BY SizesAssumption DEF Cutoff, Days

\* Removing files takes what is older than the new floor, and nothing else.
LEMMA RemoveTakesOld ==
    ASSUME NEW fs, Filed(fs), NEW ts, NEW keep \in Retentions, NEW d \in Days,
           floor \in Nat, RemoveFiles(fs, ts, keep, d)
    PROVE  /\ Filed(files')
           /\ Saved(files') \subseteq Saved(fs)
           /\ \A t \in Saved(fs) : t \in Saved(files') \/ t.day < floor'
           /\ floor' \in Nat /\ floor <= floor'
           /\ \A e \in Expired(keep, d) : e < floor'
           /\ torn' \subseteq ts
  <1>1. PICK c \in Nat : c = Cutoff(d, keep)
    BY CutoffNat
  <1>2. floor' \in Nat /\ floor <= floor' /\ c <= floor'
    BY <1>1 DEF RemoveFiles
  <1>3. \A e \in Expired(keep, d) : e < floor'
    BY <1>1, <1>2, SizesAssumption DEF Expired, Days
  <1>4. /\ files' = [e \in Days |-> IF e \in Expired(keep, d) THEN <<>> ELSE fs[e]]
        /\ torn' \subseteq ts
    BY DEF RemoveFiles
  <1>5. \A e \in Days :
            files'[e] = IF e \in Expired(keep, d) THEN <<>> ELSE fs[e]
    BY <1>4
  <1>6. Filed(files')
    <2>1. files' \in [Days -> Seq(Trace)]
      BY <1>4 DEF Filed
    <2>2. ASSUME NEW e \in Days, NEW t \in ToSet(files'[e])
          PROVE  t.day = e
      <3>1. CASE e \in Expired(keep, d)
        BY <1>5, <2>2, <3>1, SetOfNone
      <3>2. CASE e \notin Expired(keep, d)
        BY <1>5, <2>2, <3>2 DEF Filed
      <3>3. QED
        BY <3>1, <3>2
    <2>3. QED
      BY <2>1, <2>2 DEF Filed
  <1>7. Saved(files') \subseteq Saved(fs)
    <2>1. ASSUME NEW e \in Days
          PROVE  ToSet(files'[e]) \subseteq ToSet(fs[e])
      BY <1>5, SetOfNone
    <2>2. QED
      BY <2>1 DEF Saved
  <1>8. ASSUME NEW t \in Saved(fs), t \notin Saved(files')
        PROVE  t.day < floor'
    <2>1. PICK e \in Days : t \in ToSet(fs[e])
      BY DEF Saved
    <2>2. e \in Expired(keep, d)
      BY <1>5, <1>8, <2>1 DEF Saved
    <2>3. QED
      BY <1>3, <2>1, <2>2 DEF Filed
  <1>9. QED
    BY <1>2, <1>3, <1>4, <1>6, <1>7, <1>8

-----------------------------------------------------------------------------
(* Traces on their way                                                      *)

Sending == {item[r] : r \in {q \in Recorders : pc[q] = "send"}}

LEMMA PendingIs == Pending = Sending \cup ToSet(queue) \cup ToSet(buf)
  BY DEF Pending, Sending

\* The trace at the head of the queue is nowhere else.
LEMMA HeadOfQueue ==
    ASSUME StoreTypes, OnePlace, queue # <<>>
    PROVE  /\ Head(queue) \in Trace /\ Tail(queue) \in Seq(Trace)
           /\ ToSet(queue) = {Head(queue)} \cup ToSet(Tail(queue))
           /\ Head(queue) \notin ToSet(Tail(queue))
           /\ \A i, j \in 1 .. Len(Tail(queue)) :
                 Tail(queue)[i] = Tail(queue)[j] => i = j
  <1>1. queue \in Seq(Trace)
    BY DEF StoreTypes
  <1>2. /\ Head(queue) \in Trace /\ Tail(queue) \in Seq(Trace)
        /\ ToSet(queue) = {Head(queue)} \cup ToSet(Tail(queue))
    BY <1>1, SetOfTail
  <1>3. PICK n \in Nat : n = Len(Tail(queue))
    BY <1>2
  <1>4. /\ Len(queue) = n + 1
        /\ Head(queue) = queue[1]
        /\ \A i \in 1 .. n : Tail(queue)[i] = queue[i + 1]
    <2>1. PICK m \in Nat : m = Len(queue)
      BY <1>1
    <2>2. /\ Len(Tail(queue)) = m - 1
          /\ \A i \in 1 .. Len(Tail(queue)) : Tail(queue)[i] = queue[i + 1]
      BY <1>1, <2>1, HeadTailProperties
    <2>3. QED
      BY <1>3, <2>1, <2>2
  <1>5. \A i, j \in 1 .. n + 1 : queue[i] = queue[j] => i = j
    BY <1>4 DEF OnePlace
  <1>6. ASSUME NEW i \in 1 .. n
        PROVE  Tail(queue)[i] # queue[1]
    <2>1. i + 1 \in 1 .. n + 1 /\ 1 \in 1 .. n + 1 /\ i + 1 # 1
      OBVIOUS
    <2>2. QED
      BY <1>4, <1>5, <2>1
  <1>7. Head(queue) \notin ToSet(Tail(queue))
    <2>1. ToSet(Tail(queue)) = {Tail(queue)[i] : i \in 1 .. n}
      BY <1>2, <1>3, SetOfSeq
    <2>2. QED
      BY <1>4, <1>6, <2>1
  <1>8. ASSUME NEW i \in 1 .. n, NEW j \in 1 .. n, Tail(queue)[i] = Tail(queue)[j]
        PROVE  i = j
    <2>1. i + 1 \in 1 .. n + 1 /\ j + 1 \in 1 .. n + 1
      OBVIOUS
    <2>2. i + 1 = j + 1
      BY <1>4, <1>5, <1>8, <2>1
    <2>3. QED
      BY <2>2
  <1>9. QED
    BY <1>2, <1>3, <1>7, <1>8

\* The writer moves traces on: from the queue to the buffer, or out of both.
LEMMA WriterKeepsPlaces ==
    ASSUME StoreTypes, Numbered, OnePlace, UNCHANGED <<pc, item, nextID>>,
           \/ queue' = queue /\ ToSet(buf') \subseteq ToSet(buf)
           \/ /\ queue # <<>> /\ queue' = Tail(queue)
              /\ ToSet(buf') \subseteq ToSet(buf) \cup {Head(queue)}
    PROVE  Numbered' /\ OnePlace'
  <1>1. CASE queue' = queue /\ ToSet(buf') \subseteq ToSet(buf)
    <2>1. Numbered'
      BY <1>1 DEF Numbered, InHand
    <2>2. OnePlace'
      BY <1>1 DEF OnePlace, InHand
    <2>3. QED
      BY <2>1, <2>2
  <1>2. CASE /\ queue # <<>> /\ queue' = Tail(queue)
             /\ ToSet(buf') \subseteq ToSet(buf) \cup {Head(queue)}
    <2>1. /\ ToSet(queue) = {Head(queue)} \cup ToSet(Tail(queue))
          /\ Head(queue) \notin ToSet(Tail(queue))
          /\ \A i, j \in 1 .. Len(Tail(queue)) :
                Tail(queue)[i] = Tail(queue)[j] => i = j
      BY <1>2, HeadOfQueue, Zenon
    <2>2. Numbered'
      BY <1>2, <2>1 DEF Numbered, InHand
    <2>3. /\ ToSet(queue') \cup ToSet(buf') \subseteq ToSet(queue) \cup ToSet(buf)
          /\ ToSet(queue') \cap ToSet(buf') = {}
          /\ \A i, j \in 1 .. Len(queue') : queue'[i] = queue'[j] => i = j
      BY <1>2, <2>1 DEF OnePlace
    <2>4. OnePlace'
      BY <1>2, <2>3 DEF OnePlace, InHand
    <2>5. QED
      BY <2>2, <2>4
  <1>3. QED
    BY <1>1, <1>2

\* What the writer does is progress of the log: lines go from the buffer to
\* the files fs, old files are removed, and what is lost has its excuse.
LEMMA WriterProgress ==
    ASSUME OnePlace, UNCHANGED <<pc, item, closer>>,
           floor <= floor', hurt \subseteq hurt',
           ToSet(queue') \subseteq ToSet(queue),
           ToSet(buf') \subseteq ToSet(queue) \cup ToSet(buf),
           NEW fs, NEW flushed, flushed \subseteq ToSet(buf),
           flushed \cap ToSet(buf') = {},
           Saved(files) \subseteq Saved(fs),
           Saved(fs) \subseteq Saved(files) \cup flushed,
           Saved(files') \subseteq Saved(fs),
           \A t \in Saved(fs) : t \in Saved(files') \/ t.day < floor',
           \A t \in ToSet(queue) \cup ToSet(buf) :
              \/ t \in ToSet(queue') \cup ToSet(buf')
              \/ t \in Saved(fs)
              \/ t.day \in hurt' \/ t.day < floor'
    PROVE  Log!Progress
  <1>1. /\ Pending = Sending \cup ToSet(queue) \cup ToSet(buf)
        /\ Pending' = Sending \cup ToSet(queue') \cup ToSet(buf')
    BY DEF Pending, Sending
  <1>2. \A t \in Sending : t \notin ToSet(queue) \cup ToSet(buf)
    BY DEF Sending, OnePlace, InHand
  <1>3. Pending' \subseteq Pending
    BY <1>1
  <1>4. flushed \subseteq Pending \ Pending'
    BY <1>1, <1>2 DEF OnePlace
  <1>5. Saved(files') \subseteq Saved(files) \cup (Pending \ Pending')
    BY <1>4
  <1>6. \A t \in Pending \ (Pending' \cup Saved(files')) :
            t.day < floor' \/ t.day \in hurt'
    BY <1>1
  <1>7. \A t \in Saved(files) \ Saved(files') : t.day < floor'
    OBVIOUS
  <1>8. (closer = "closed") = (closer' = "closed")
    OBVIOUS
  <1>9. floor' >= floor
    OBVIOUS
  <1>10. QED
    BY <1>3, <1>5, <1>6, <1>7, <1>8, <1>9
       DEF Log!Progress, Log!Onwards, Log!Excused, Saved

-----------------------------------------------------------------------------
(* The steps of the writer                                                  *)

LEMMA StillExcused ==
    ASSUME StoreTypes, floor' \in Nat, floor <= floor'
    PROVE  \A t \in ToSet(queue) \cup ToSet(buf) :
              t \in Trace /\ t.day \in Days /\ (t.day < floor => t.day < floor')
  <1>1. ASSUME NEW t \in ToSet(queue) \cup ToSet(buf)
        PROVE  t \in Trace
    BY SetOfSeq DEF StoreTypes
  <1>2. ASSUME NEW t \in Trace
        PROVE  t.day \in Days
    BY DEF Trace
  <1>3. ASSUME NEW d \in Days, d < floor
        PROVE  d < floor'
    BY <1>3 DEF StoreTypes, Days
  <1>4. QED
    BY <1>1, <1>2, <1>3

LEMMA RotateStep ==
    ASSUME StoreInv, Rotate
    PROVE  StoreInv' /\ Log!Progress
  <1>1. /\ wpc = "running" /\ queue # <<>> /\ Head(queue).day # cur
        /\ RemoveFiles(Flushed(buf), Mended(buf), retention, Head(queue).day)
        /\ cur' = Head(queue).day
        /\ glued' = (Head(queue).day \in Mended(buf))
        /\ buf' = <<>> /\ broken' = FALSE /\ linked' = TRUE
    BY DEF Rotate, Working
  <1>2. UNCHANGED <<day, life, capacity, nextID, config, pc, item, wanted,
                    retention, queue, closer, wpc, hurt>>
    BY DEF Rotate, proc, store, users
  <1>3. Head(queue).day \in Days /\ retention \in Retentions /\ floor \in Nat
    <2>1. Head(queue) \in Trace
      BY <1>1, HeadOfQueue DEF StoreInv
    <2>2. QED
      BY <2>1 DEF StoreInv, StoreTypes, Trace
  <1>4. /\ Filed(Flushed(buf))
        /\ Saved(files) \subseteq Saved(Flushed(buf))
        /\ Saved(Flushed(buf)) \subseteq Saved(files) \cup ToSet(buf)
        /\ \A t \in ToSet(buf) :
              t \in Saved(Flushed(buf)) \/ t.day \in hurt \/ t.day < floor
    <2>1. /\ Filed(files) /\ buf \in Seq(Trace) /\ Torn /\ Opened
          /\ \A t \in ToSet(buf) : t.day = cur
      BY DEF StoreInv, StoreTypes, Opened
    <2>2. QED
      BY <2>1, FlushSaves
  <1>5. /\ Filed(files')
        /\ Saved(files') \subseteq Saved(Flushed(buf))
        /\ \A t \in Saved(Flushed(buf)) : t \in Saved(files') \/ t.day < floor'
        /\ floor' \in Nat /\ floor <= floor'
        /\ torn' \subseteq Mended(buf)
    BY <1>1, <1>3, <1>4, RemoveTakesOld
  <1>6. Mended(buf) \subseteq hurt
    BY FlushMends DEF StoreInv
  <1>7. ToSet(buf') = {} /\ buf' \in Seq(Trace)
    BY <1>1, SetOfNone
  <1>8. StoreTypes'
    BY <1>2, <1>5, <1>7 DEF StoreInv, StoreTypes, InHand
  <1>9. Numbered' /\ OnePlace'
    BY <1>2, <1>7, WriterKeepsPlaces DEF StoreInv
  <1>10. Torn'
    BY <1>1, <1>2, <1>5, <1>6 DEF Torn
  <1>11. Opened' /\ Drained'
    BY <1>1, <1>2, <1>3, <1>7 DEF Opened, Drained
  <1>12. Log!Progress
    <2>1. \A t \in ToSet(buf) :
              t \in Saved(Flushed(buf)) \/ t.day \in hurt' \/ t.day < floor'
      <3>1. \A t \in ToSet(buf) : t.day < floor => t.day < floor'
        BY <1>5, StillExcused DEF StoreInv
      <3>2. QED
        BY <1>2, <1>4, <3>1
    <2>2. QED
      BY <1>2, <1>4, <1>5, <1>7, <2>1, WriterProgress DEF StoreInv
  <1>13. QED
    BY <1>8, <1>9, <1>10, <1>11, <1>12 DEF StoreInv

\* The flush of the buffer, as a fact for the steps that do it.
LEMMA BufferSaved ==
    ASSUME StoreInv
    PROVE  /\ Filed(Flushed(buf))
           /\ Saved(files) \subseteq Saved(Flushed(buf))
           /\ Saved(Flushed(buf)) \subseteq Saved(files) \cup ToSet(buf)
           /\ \A t \in ToSet(buf) :
                 t \in Saved(Flushed(buf)) \/ t.day \in hurt \/ t.day < floor
           /\ Mended(buf) \subseteq hurt
  <1>1. /\ Filed(files) /\ buf \in Seq(Trace) /\ Torn /\ Opened
        /\ \A t \in ToSet(buf) : t.day = cur
    BY DEF StoreInv, StoreTypes, Opened
  <1>2. QED
    BY <1>1, FlushSaves, FlushMends

LEMMA RotateFailsStep ==
    ASSUME StoreInv, RotateFails
    PROVE  StoreInv' /\ Log!Progress
  <1>1. /\ wpc = "running" /\ queue # <<>>
        /\ files' = Flushed(buf) /\ torn' = Mended(buf)
        /\ hurt' = hurt \cup {Head(queue).day}
        /\ queue' = Tail(queue)
        /\ cur' = NoDay /\ buf' = <<>>
        /\ glued' = FALSE /\ broken' = FALSE /\ linked' = FALSE
    BY DEF RotateFails, Working
  <1>2. UNCHANGED <<day, life, capacity, nextID, config, pc, item, wanted,
                    retention, closer, wpc, floor>>
    BY DEF RotateFails, proc, store, users
  <1>3. /\ Tail(queue) \in Seq(Trace)
        /\ ToSet(queue) = {Head(queue)} \cup ToSet(Tail(queue))
    BY <1>1, HeadOfQueue DEF StoreInv
  <1>4. ToSet(buf') = {} /\ buf' \in Seq(Trace)
    BY <1>1, SetOfNone
  <1>5. StoreTypes'
    BY <1>1, <1>2, <1>3, <1>4, BufferSaved DEF StoreInv, StoreTypes, InHand
  <1>6. Numbered' /\ OnePlace'
    BY <1>1, <1>2, <1>4, WriterKeepsPlaces DEF StoreInv
  <1>7. Torn'
    BY <1>1, BufferSaved DEF Torn
  <1>8. Opened' /\ Drained'
    BY <1>1, <1>2, <1>4 DEF Opened, Drained, NoDay, Days
  <1>9. Log!Progress
    <2>1. floor <= floor'
      BY <1>2 DEF StoreInv, StoreTypes
    <2>2. Head(queue).day \in hurt' /\ hurt \subseteq hurt'
      BY <1>1
    <2>3. /\ \A t \in Saved(Flushed(buf)) : t \in Saved(files') \/ t.day < floor'
          /\ Saved(files') \subseteq Saved(Flushed(buf))
      BY <1>1
    <2>4. \A t \in ToSet(queue) \cup ToSet(buf) :
              \/ t \in ToSet(queue') \cup ToSet(buf')
              \/ t \in Saved(Flushed(buf))
              \/ t.day \in hurt' \/ t.day < floor'
      BY <1>1, <1>2, <1>3, <2>2, BufferSaved
    <2>5. QED
      BY <1>1, <1>2, <1>3, <1>4, <2>1, <2>2, <2>3, <2>4, BufferSaved,
         WriterProgress DEF StoreInv
  <1>10. QED
    BY <1>5, <1>6, <1>7, <1>8, <1>9 DEF StoreInv

\* A line goes into the buffer and stays pending, or is lost to an error of a
\* day that is hit.
LEMMA WriteStep ==
    ASSUME StoreInv, Write
    PROVE  StoreInv' /\ (Log!Progress \/ UNCHANGED Log!vars)
  <1>1. /\ wpc = "running" /\ queue # <<>> /\ Head(queue).day = cur
        /\ queue' = Tail(queue)
        /\ buf' = IF broken THEN buf ELSE Append(buf, Head(queue))
    BY DEF Write, Working
  <1>2. UNCHANGED <<day, life, capacity, nextID, config, pc, item, wanted,
                    retention, closer, wpc, cur, glued, broken, linked, files,
                    torn, hurt, floor>>
    BY DEF Write, proc, store, users, disk
  <1>3. /\ Head(queue) \in Trace /\ Tail(queue) \in Seq(Trace)
        /\ ToSet(queue) = {Head(queue)} \cup ToSet(Tail(queue))
    BY <1>1, HeadOfQueue DEF StoreInv
  <1>4. /\ buf' \in Seq(Trace)
        /\ ToSet(buf') = IF broken THEN ToSet(buf)
                         ELSE ToSet(buf) \cup {Head(queue)}
        /\ buf # <<>> => buf' # <<>>
    <2>1. buf \in Seq(Trace)
      BY DEF StoreInv, StoreTypes
    <2>2. CASE broken
      BY <1>1, <2>1, <2>2
    <2>3. CASE ~broken
      <3>1. buf' = Append(buf, Head(queue))
        BY <1>1, <2>3
      <3>2. buf' \in Seq(Trace) /\ ToSet(buf') = ToSet(buf) \cup {Head(queue)}
        BY <1>3, <2>1, <3>1, SetOfAppend
      <3>3. buf' # <<>>
        BY <3>2, SetOfNone
      <3>4. QED
        BY <2>3, <3>2, <3>3
    <2>4. QED
      BY <2>2, <2>3
  <1>5. StoreTypes'
    BY <1>1, <1>2, <1>3, <1>4 DEF StoreInv, StoreTypes, InHand
  <1>6. Numbered' /\ OnePlace'
    <2>1. ToSet(buf') \subseteq ToSet(buf) \cup {Head(queue)}
      BY <1>4
    <2>2. QED
      BY <1>1, <1>2, <2>1, WriterKeepsPlaces DEF StoreInv
  <1>7. Torn'
    BY <1>2, <1>4 DEF StoreInv, Torn
  <1>8. Opened' /\ Drained'
    BY <1>1, <1>2, <1>4 DEF StoreInv, Opened, Drained
  <1>9. CASE broken
    <2>1. Head(queue).day \in hurt
      BY <1>1, <1>9 DEF StoreInv, Torn
    <2>2. ToSet(buf') = ToSet(buf)
      BY <1>4, <1>9
    <2>3. floor <= floor'
      BY <1>2 DEF StoreInv, StoreTypes
    <2> DEFINE none == {}
    <2>4. /\ none \subseteq ToSet(buf) /\ none \cap ToSet(buf') = {}
          /\ Saved(files) \subseteq Saved(files) \cup none
      OBVIOUS
    <2>5. Log!Progress
      BY <1>1, <1>2, <1>3, <2>1, <2>2, <2>3, <2>4, WriterProgress DEF StoreInv
    <2>6. QED
      BY <1>5, <1>6, <1>7, <1>8, <2>5 DEF StoreInv
  <1>10. CASE ~broken
    <2>1. ToSet(queue') \cup ToSet(buf') = ToSet(queue) \cup ToSet(buf)
      BY <1>1, <1>3, <1>4, <1>10
    <2>2. Pending' = Pending
      BY <1>2, <2>1 DEF Pending
    <2>3. UNCHANGED Log!vars
      BY <1>2, <2>2 DEF Log!vars
    <2>4. QED
      BY <1>5, <1>6, <1>7, <1>8, <2>3 DEF StoreInv
  <1>11. QED
    BY <1>9, <1>10

\* The buffer goes out and the line that did not fit is the new buffer; the
\* part of it that went along is a torn line until the next flush.
LEMMA WriteSplitStep ==
    ASSUME StoreInv, WriteSplit
    PROVE  StoreInv' /\ Log!Progress
  <1>1. /\ wpc = "running" /\ queue # <<>> /\ Head(queue).day = cur
        /\ ~broken
        /\ queue' = Tail(queue)
        /\ files' = Flushed(buf)
        /\ torn' = IF linked THEN torn \cup {cur} ELSE torn
        /\ buf' = <<Head(queue)>> /\ glued' = FALSE
    BY DEF WriteSplit, Working
  <1>2. UNCHANGED <<day, life, capacity, nextID, config, pc, item, wanted,
                    retention, closer, wpc, cur, broken, linked, hurt, floor>>
    BY DEF WriteSplit, proc, store, users
  <1>3. /\ Head(queue) \in Trace /\ Tail(queue) \in Seq(Trace)
        /\ ToSet(queue) = {Head(queue)} \cup ToSet(Tail(queue))
    BY <1>1, HeadOfQueue DEF StoreInv
  <1>4. /\ buf' \in Seq(Trace) /\ buf' # <<>>
        /\ ToSet(buf') = {Head(queue)}
    BY <1>1, <1>3, SetOfOne
  <1>5. StoreTypes'
    BY <1>1, <1>2, <1>3, <1>4, BufferSaved DEF StoreInv, StoreTypes, InHand
  <1>6. Numbered' /\ OnePlace'
    <2>1. ToSet(buf') \subseteq ToSet(buf) \cup {Head(queue)}
      BY <1>4
    <2>2. QED
      BY <1>1, <1>2, <2>1, WriterKeepsPlaces DEF StoreInv
  <1>7. Torn'
    BY <1>1, <1>2, <1>4 DEF StoreInv, Torn
  <1>8. Opened' /\ Drained'
    BY <1>1, <1>2, <1>4 DEF StoreInv, Opened, Drained
  <1>9. Log!Progress
    <2>1. floor <= floor'
      BY <1>2 DEF StoreInv, StoreTypes
    <2>2. ToSet(buf) \cap ToSet(buf') = {}
      BY <1>3, <1>4 DEF StoreInv, OnePlace
    <2>3. QED
      BY <1>1, <1>2, <1>3, <1>4, <2>1, <2>2, BufferSaved, WriterProgress
         DEF StoreInv
  <1>10. QED
    BY <1>5, <1>6, <1>7, <1>8, <1>9 DEF StoreInv

LEMMA FlushStep ==
    ASSUME StoreInv, Flush
    PROVE  StoreInv' /\ Log!Progress
  <1>1. /\ wpc = "running"
        /\ files' = Flushed(buf) /\ torn' = Mended(buf)
        /\ buf' = <<>> /\ glued' = FALSE
    BY DEF Flush
  <1>2. UNCHANGED <<day, life, capacity, nextID, config, pc, item, wanted,
                    retention, queue, closer, wpc, cur, broken, linked, hurt,
                    floor>>
    BY DEF Flush, proc, store, users
  <1>3. ToSet(buf') = {} /\ buf' \in Seq(Trace)
    BY <1>1, SetOfNone
  <1>4. StoreTypes'
    BY <1>1, <1>2, <1>3, BufferSaved DEF StoreInv, StoreTypes, InHand
  <1>5. Numbered' /\ OnePlace'
    BY <1>1, <1>2, <1>3, WriterKeepsPlaces DEF StoreInv
  <1>6. Torn'
    BY <1>1, <1>2, BufferSaved DEF StoreInv, Torn
  <1>7. Opened' /\ Drained'
    BY <1>1, <1>2, <1>3 DEF StoreInv, Opened, Drained
  <1>8. Log!Progress
    <2>1. floor <= floor'
      BY <1>2 DEF StoreInv, StoreTypes
    <2>2. QED
      BY <1>1, <1>2, <1>3, <2>1, BufferSaved, WriterProgress DEF StoreInv
  <1>9. QED
    BY <1>4, <1>5, <1>6, <1>7, <1>8 DEF StoreInv

LEMMA EndWriterStep ==
    ASSUME StoreInv, EndWriter
    PROVE  StoreInv' /\ Log!Progress
  <1>1. /\ queue = <<>> /\ closer = "waiting" /\ wpc' = "ended"
        /\ files' = Flushed(buf) /\ torn' = Mended(buf)
        /\ cur' = NoDay /\ buf' = <<>>
        /\ glued' = FALSE /\ broken' = FALSE /\ linked' = FALSE
    BY DEF EndWriter
  <1>2. UNCHANGED <<day, life, capacity, nextID, config, pc, item, wanted,
                    retention, queue, closer, hurt, floor>>
    BY DEF EndWriter, proc, store, users
  <1>3. ToSet(buf') = {} /\ buf' \in Seq(Trace)
    BY <1>1, SetOfNone
  <1>4. StoreTypes'
    BY <1>1, <1>2, <1>3, BufferSaved DEF StoreInv, StoreTypes, InHand
  <1>5. Numbered' /\ OnePlace'
    BY <1>1, <1>2, <1>3, WriterKeepsPlaces DEF StoreInv
  <1>6. Torn'
    BY <1>1, <1>2, BufferSaved DEF Torn
  <1>7. Opened' /\ Drained'
    BY <1>1, <1>2, <1>3 DEF Opened, Drained, NoDay, Days
  <1>8. Log!Progress
    <2>1. floor <= floor'
      BY <1>2 DEF StoreInv, StoreTypes
    <2>2. QED
      BY <1>1, <1>2, <1>3, <2>1, BufferSaved, WriterProgress DEF StoreInv
  <1>9. QED
    BY <1>4, <1>5, <1>6, <1>7, <1>8 DEF StoreInv

\* Part of the buffer is written, the rest is lost with the day's file hit.
LEMMA FlushFailsStep ==
    ASSUME StoreInv, FlushFails
    PROVE  StoreInv' /\ Log!Progress
  <1>1. /\ wpc = "running" /\ buf # <<>>
        /\ hurt' = hurt \cup {cur}
        /\ buf' = <<>> /\ glued' = FALSE /\ broken' = TRUE
    BY DEF FlushFails
  <1>2. UNCHANGED <<day, life, capacity, nextID, config, pc, item, wanted,
                    retention, queue, closer, wpc, cur, linked, floor>>
    BY DEF FlushFails, proc, store, users
  <1>3. PICK k \in 0 .. Len(buf) - 1, tear \in BOOLEAN :
            /\ files' = Flushed(SubSeq(buf, 1, k))
            /\ torn' = IF tear /\ linked THEN torn \cup {cur}
                       ELSE Mended(SubSeq(buf, 1, k))
    BY Zenon DEF FlushFails
  <1> DEFINE out == SubSeq(buf, 1, k)
  <1>4. out \in Seq(Trace) /\ ToSet(out) \subseteq ToSet(buf)
    <2>1. buf \in Seq(Trace)
      BY DEF StoreInv, StoreTypes
    <2>2. k \in 0 .. Len(buf)
      <3>1. PICK n \in Nat : n = Len(buf)
        BY <2>1
      <3>2. QED
        BY <3>1
    <2>3. QED
      BY <2>1, <2>2, SetOfSubSeq
  <1>5. files' = Flushed(out) /\ torn' \subseteq torn \cup {cur}
    BY <1>3 DEF Mended
  <1> HIDE DEF out
  <1>6. /\ Filed(Flushed(out))
        /\ Saved(files) \subseteq Saved(Flushed(out))
        /\ Saved(Flushed(out)) \subseteq Saved(files) \cup ToSet(out)
    <2>1. /\ Filed(files) /\ Torn /\ Opened
          /\ \A t \in ToSet(out) : t.day = cur
      BY <1>4 DEF StoreInv, StoreTypes, Opened
    <2>2. QED
      BY <1>4, <2>1, FlushSaves
  <1>7. ToSet(buf') = {} /\ buf' \in Seq(Trace)
    BY <1>1, SetOfNone
  <1>8. StoreTypes'
    BY <1>2, <1>5, <1>6, <1>7 DEF StoreInv, StoreTypes, InHand
  <1>9. Numbered' /\ OnePlace'
    BY <1>2, <1>7, WriterKeepsPlaces DEF StoreInv
  <1>10. Torn'
    BY <1>1, <1>2, <1>5 DEF StoreInv, Torn
  <1>11. Opened' /\ Drained'
    BY <1>1, <1>2, <1>7 DEF StoreInv, Opened, Drained
  <1>12. Log!Progress
    <2>1. floor <= floor'
      BY <1>2 DEF StoreInv, StoreTypes
    <2>2. \A t \in ToSet(buf) : t.day \in hurt'
      BY <1>1 DEF StoreInv, Opened
    <2>3. QED
      BY <1>1, <1>2, <1>4, <1>5, <1>6, <1>7, <2>1, <2>2, WriterProgress
         DEF StoreInv
  <1>13. QED
    BY <1>8, <1>9, <1>10, <1>11, <1>12 DEF StoreInv

\* An update of the retention removes files; an open one that goes with them
\* stays open for a day that has run out.
LEMMA UpdateRetentionStep ==
    ASSUME StoreInv, NEW u \in Updaters, UpdateRetention(u)
    PROVE  StoreInv' /\ Log!Progress
  <1>1. /\ wanted[u] # 0
        /\ retention' = wanted[u]
        /\ RemoveFiles(files, torn, wanted[u], day)
        /\ linked' = (linked /\ cur \notin Expired(wanted[u], day))
        /\ wanted' = [wanted EXCEPT ![u] = 0]
    BY DEF UpdateRetention
  <1>2. UNCHANGED <<day, life, capacity, nextID, config, pc, item, queue, closer,
                    wpc, cur, buf, glued, broken, hurt>>
    BY DEF UpdateRetention, proc, store, users
  <1>3. wanted[u] \in Retentions
    BY <1>1 DEF StoreInv, StoreTypes
  <1>4. /\ Filed(files')
        /\ Saved(files') \subseteq Saved(files)
        /\ \A t \in Saved(files) : t \in Saved(files') \/ t.day < floor'
        /\ floor' \in Nat /\ floor <= floor'
        /\ \A e \in Expired(wanted[u], day) : e < floor'
        /\ torn' \subseteq torn
    <2>1. Filed(files) /\ day \in Days /\ floor \in Nat
      BY DEF StoreInv, StoreTypes
    <2>2. QED
      BY <1>1, <1>3, <2>1, RemoveTakesOld
  <1>5. StoreTypes'
    BY <1>1, <1>2, <1>3, <1>4 DEF StoreInv, StoreTypes, InHand
  <1>6. Numbered' /\ OnePlace'
    BY <1>2, WriterKeepsPlaces DEF StoreInv
  <1>7. Opened'
    <2>1. cur \in Days /\ cur < floor => cur < floor'
      BY <1>4 DEF StoreInv, StoreTypes, Days
    <2>2. QED
      BY <1>1, <1>2, <1>4, <2>1 DEF StoreInv, Opened
  <1>8. Drained'
    BY <1>2 DEF StoreInv, Drained
  <1>9. Torn'
    <2>1. torn' = torn \ Expired(wanted[u], day)
      BY <1>1 DEF RemoveFiles
    <2>2. QED
      BY <1>1, <1>2, <2>1 DEF StoreInv, Torn
  <1>10. Log!Progress
    <2> DEFINE none == {}
    <2>1. /\ none \subseteq ToSet(buf) /\ none \cap ToSet(buf') = {}
          /\ Saved(files) \subseteq Saved(files) \cup none
      OBVIOUS
    <2>2. QED
      BY <1>2, <1>4, <2>1, WriterProgress DEF StoreInv
  <1>11. QED
    BY <1>5, <1>6, <1>7, <1>8, <1>9, <1>10 DEF StoreInv

-----------------------------------------------------------------------------
(* The steps of the recorders                                               *)

\* A trace in hand gets a number nobody has.
LEMMA RecordStep ==
    ASSUME StoreInv, NEW r \in Recorders, Record(r)
    PROVE  StoreInv' /\ UNCHANGED Log!vars
  <1>1. /\ pc[r] = "idle" /\ nextID < MaxID /\ nextID' = nextID + 1
    BY DEF Record
  <1>2. UNCHANGED <<day, life, capacity, config, wanted, retention, queue,
                    closer, wpc, cur, buf, glued, broken, linked, files, torn,
                    hurt, floor>>
    BY DEF Record, proc, writer, disk
  <1> DEFINE t == [life |-> life, id |-> nextID + 1, day |-> day]
  <1>3. t \in Trace /\ t.id = nextID + 1
    BY <1>1, SizesAssumption DEF StoreInv, StoreTypes, Trace
  <1>4. \/ pc' = [pc EXCEPT ![r] = "enqueue"] /\ item' = [item EXCEPT ![r] = t]
        \/ pc' = pc /\ item' = item
    BY DEF Record, users
  <1> HIDE DEF t
  <1>5. /\ pc' \in [Recorders -> {"idle", "enqueue", "send"}]
        /\ item' \in [Recorders -> Trace \cup {<<>>}]
        /\ \A s \in Recorders \ {r} : pc'[s] = pc[s] /\ item'[s] = item[s]
        /\ pc'[r] # "send"
        /\ pc'[r] # "idle" => item'[r] = t
    BY <1>1, <1>3, <1>4 DEF StoreInv, StoreTypes
  <1>6. StoreTypes'
    <2>1. nextID' \in Nat
      BY <1>1 DEF StoreInv, StoreTypes
    <2>2. \A s \in Recorders : pc'[s] # "idle" => item'[s] \in Trace
      BY <1>3, <1>5 DEF StoreInv, StoreTypes, InHand
    <2>3. QED
      BY <1>2, <1>5, <2>1, <2>2 DEF StoreInv, StoreTypes, InHand
  <1>7. \A u \in Trace : u.id <= nextID => u # t /\ u.id <= nextID'
    BY <1>1, <1>3 DEF StoreInv, StoreTypes, Trace
  <1>8. /\ ToSet(queue) \cup ToSet(buf) \subseteq Trace
        /\ \A s \in Recorders : pc[s] # "idle" => item[s] \in Trace
    BY SetOfSeq DEF StoreInv, StoreTypes, InHand
  <1>9. Numbered'
    <2>1. t.id <= nextID'
      BY <1>1, <1>3 DEF StoreInv, StoreTypes
    <2>2. \A s \in Recorders : pc'[s] # "idle" => item'[s].id <= nextID'
      BY <1>5, <1>7, <1>8, <2>1 DEF StoreInv, Numbered, InHand
    <2>3. QED
      BY <1>2, <1>7, <1>8, <2>2 DEF StoreInv, Numbered, InHand
  <1>10. OnePlace'
    <2>1. \A s \in Recorders \ {r} : pc[s] # "idle" => item[s] # t
      BY <1>7, <1>8 DEF StoreInv, Numbered, InHand
    <2>2. t \notin ToSet(queue) \cup ToSet(buf)
      BY <1>7, <1>8 DEF StoreInv, Numbered
    <2>3. \A s, q \in Recorders :
              pc'[s] # "idle" /\ pc'[q] # "idle" /\ s # q => item'[s] # item'[q]
      BY <1>5, <2>1 DEF StoreInv, OnePlace, InHand
    <2>4. QED
      BY <1>2, <1>5, <2>2, <2>3 DEF StoreInv, OnePlace, InHand
  <1>11. Torn' /\ Opened' /\ Drained'
    BY <1>2 DEF StoreInv, Torn, Opened, Drained
  <1>12. UNCHANGED Log!vars
    <2>1. Sending' = Sending
      BY <1>1, <1>5 DEF Sending
    <2>2. QED
      BY <1>2, <2>1 DEF Log!vars, Pending, Sending
  <1>13. QED
    BY <1>6, <1>9, <1>10, <1>11, <1>12 DEF StoreInv

\* A hand that lets go of its trace.
LEMMA HandEmpty ==
    ASSUME StoreTypes, NEW r \in Recorders, Done(r)
    PROVE  /\ pc' \in [Recorders -> {"idle", "enqueue", "send"}]
           /\ item' \in [Recorders -> Trace \cup {<<>>}]
           /\ \A s \in Recorders \ {r} : pc'[s] = pc[s] /\ item'[s] = item[s]
           /\ pc'[r] = "idle"
  BY DEF StoreTypes, Done

LEMMA EnqueueStep ==
    ASSUME StoreInv, NEW r \in Recorders, Enqueue(r)
    PROVE  StoreInv' /\ (Log!Accept \/ UNCHANGED Log!vars)
  <1>1. pc[r] = "enqueue"
    BY DEF Enqueue
  <1>2. UNCHANGED <<day, life, capacity, nextID, config, wanted, retention,
                    queue, closer, wpc, cur, buf, glued, broken, linked, files,
                    torn, hurt, floor>>
    BY DEF Enqueue, proc, store, writer, disk
  <1>3. Torn' /\ Opened' /\ Drained'
    BY <1>2 DEF StoreInv, Torn, Opened, Drained
  <1>4. CASE closer = "open"
    <2>1. pc' = [pc EXCEPT ![r] = "send"] /\ item' = item
      BY <1>4 DEF Enqueue
    <2>2. /\ pc' \in [Recorders -> {"idle", "enqueue", "send"}]
          /\ \A s \in Recorders \ {r} : pc'[s] = pc[s]
          /\ pc'[r] = "send"
      BY <2>1 DEF StoreInv, StoreTypes
    <2>3. \A s \in Recorders : InHand(s) <=> pc'[s] # "idle"
      BY <1>1, <2>2 DEF InHand
    <2>4. StoreTypes'
      BY <1>2, <2>1, <2>2, <2>3 DEF StoreInv, StoreTypes, InHand
    <2>5. Numbered' /\ OnePlace'
      BY <1>2, <2>1, <2>3 DEF StoreInv, Numbered, OnePlace, InHand
    <2>6. Sending \subseteq Sending'
      BY <1>1, <2>1, <2>2 DEF Sending
    <2>7. Pending \subseteq Pending'
      BY <1>2, <2>6 DEF Pending, Sending
    <2>8. Log!Accept
      BY <1>2, <1>4, <2>7 DEF Log!Accept
    <2>9. QED
      BY <1>3, <2>4, <2>5, <2>8 DEF StoreInv
  <1>5. CASE closer # "open"
    <2>1. Done(r)
      BY <1>5 DEF Enqueue
    <2>2. /\ pc' \in [Recorders -> {"idle", "enqueue", "send"}]
          /\ item' \in [Recorders -> Trace \cup {<<>>}]
          /\ \A s \in Recorders \ {r} : pc'[s] = pc[s] /\ item'[s] = item[s]
          /\ pc'[r] = "idle"
      BY <2>1, HandEmpty DEF StoreInv
    <2>3. StoreTypes'
      BY <1>2, <2>2 DEF StoreInv, StoreTypes, InHand
    <2>4. Numbered' /\ OnePlace'
      BY <1>2, <2>2 DEF StoreInv, Numbered, OnePlace, InHand
    <2>5. Sending' = Sending
      BY <1>1, <2>2 DEF Sending
    <2>6. UNCHANGED Log!vars
      BY <1>2, <2>5 DEF Log!vars, Pending, Sending
    <2>7. QED
      BY <1>3, <2>3, <2>4, <2>6 DEF StoreInv
  <1>6. QED
    BY <1>4, <1>5

\* From the hand into the queue; nothing goes to a queue that is drained.
LEMMA SendStep ==
    ASSUME QueueInv, StoreInv, NEW r \in Recorders, Send(r)
    PROVE  StoreInv' /\ UNCHANGED Log!vars
  <1>1. pc[r] = "send" /\ queue' = Append(queue, item[r]) /\ Done(r)
    BY DEF Send
  <1>2. UNCHANGED <<day, life, capacity, nextID, config, wanted, retention,
                    closer, wpc, cur, buf, glued, broken, linked, files, torn,
                    hurt, floor>>
    BY DEF Send, proc, store, writer, disk
  <1>3. /\ pc' \in [Recorders -> {"idle", "enqueue", "send"}]
        /\ item' \in [Recorders -> Trace \cup {<<>>}]
        /\ \A s \in Recorders \ {r} : pc'[s] = pc[s] /\ item'[s] = item[s]
        /\ pc'[r] = "idle"
    BY <1>1, HandEmpty DEF StoreInv
  <1>4. InHand(r) /\ item[r] \in Trace /\ queue \in Seq(Trace)
    BY <1>1 DEF StoreInv, StoreTypes, InHand
  <1>5. queue' \in Seq(Trace) /\ ToSet(queue') = ToSet(queue) \cup {item[r]}
    BY <1>1, <1>4, SetOfAppend
  <1>6. StoreTypes'
    BY <1>2, <1>3, <1>5 DEF StoreInv, StoreTypes, InHand
  <1>7. Numbered'
    BY <1>2, <1>3, <1>4, <1>5 DEF StoreInv, Numbered, InHand
  <1>8. \A i, j \in 1 .. Len(queue') : queue'[i] = queue'[j] => i = j
    <2>1. PICK n \in Nat : n = Len(queue)
      BY <1>4
    <2>2. /\ Len(queue') = n + 1 /\ queue'[n + 1] = item[r]
          /\ \A i \in 1 .. n : queue'[i] = queue[i]
      BY <1>1, <1>4, <2>1, AppendProperties
    <2>3. \A i \in 1 .. n : queue[i] # item[r]
      <3>1. ToSet(queue) = {queue[i] : i \in 1 .. n}
        BY <1>4, <2>1, SetOfSeq
      <3>2. item[r] \notin ToSet(queue)
        BY <1>4 DEF StoreInv, OnePlace
      <3>3. QED
        BY <3>1, <3>2
    <2>4. \A i, j \in 1 .. n : queue[i] = queue[j] => i = j
      BY <2>1 DEF StoreInv, OnePlace
    <2>5. ASSUME NEW i \in 1 .. n + 1, NEW j \in 1 .. n + 1,
                 queue'[i] = queue'[j]
          PROVE  i = j
      <3>1. CASE i \in 1 .. n /\ j \in 1 .. n
        BY <2>2, <2>4, <2>5, <3>1
      <3>2. CASE i = n + 1 /\ j \in 1 .. n
        BY <2>2, <2>3, <2>5, <3>2
      <3>3. CASE i \in 1 .. n /\ j = n + 1
        BY <2>2, <2>3, <2>5, <3>3
      <3>4. (i \in 1 .. n \/ i = n + 1) /\ (j \in 1 .. n \/ j = n + 1)
        OBVIOUS
      <3>5. QED
        BY <3>1, <3>2, <3>3, <3>4
    <2>6. QED
      BY <2>2, <2>5
  <1>9. OnePlace'
    <2>1. \A s \in Recorders \ {r} : pc[s] # "idle" => item[s] # item[r]
      BY <1>4 DEF StoreInv, OnePlace, InHand
    <2>2. item[r] \notin ToSet(buf)
      BY <1>4 DEF StoreInv, OnePlace
    <2>3. QED
      BY <1>2, <1>3, <1>5, <1>8, <2>1, <2>2 DEF StoreInv, OnePlace, InHand
  <1>10. Torn' /\ Opened'
    BY <1>2 DEF StoreInv, Torn, Opened
  <1>11. Drained'
    BY <1>1, <1>2 DEF StoreInv, Drained, QueueInv, NoSendOnClosedQueue
  <1>12. UNCHANGED Log!vars
    <2>1. Sending = Sending' \cup {item[r]}
      BY <1>1, <1>3 DEF Sending
    <2>2. Pending' = Pending
      BY <1>2, <1>5, <2>1 DEF Pending, Sending
    <2>3. QED
      BY <1>2, <2>2 DEF Log!vars
  <1>13. QED
    BY <1>6, <1>7, <1>9, <1>10, <1>11, <1>12 DEF StoreInv

-----------------------------------------------------------------------------
(* Settings, closing and the life of the process                            *)

\* Steps that leave the traces alone.
LEMMA QuietStep ==
    ASSUME StoreInv,
           UNCHANGED <<life, capacity, nextID, pc, item, queue, buf, files, torn,
                       hurt, floor, cur, glued, broken, linked, retention, wpc>>,
           day' \in Days, config'.keep \in Retentions,
           wanted' \in [Updaters -> Retentions \cup {0}], Drained'
    PROVE  /\ StoreInv'
           /\ (closer' = "closed") = (closer = "closed") => UNCHANGED Log!vars
  <1>1. StoreTypes'
    BY DEF StoreInv, StoreTypes, InHand
  <1>2. Numbered' /\ OnePlace' /\ Torn' /\ Opened'
    BY DEF StoreInv, Numbered, OnePlace, Torn, Opened, InHand
  <1>3. Pending' = Pending
    BY DEF Pending
  <1>4. (closer' = "closed") = (closer = "closed") => UNCHANGED Log!vars
    BY <1>3 DEF Log!vars
  <1>5. QED
    BY <1>1, <1>2, <1>4 DEF StoreInv

LEMMA SettingsStep ==
    ASSUME StoreInv,
           \/ \E u \in Updaters : UpdateConfig(u)
           \/ Snapshot \/ NextDay \/ BeginClose \/ CloseQueue
           \/ UNCHANGED vars
    PROVE  StoreInv' /\ UNCHANGED Log!vars
  <1>1. /\ day \in Days /\ config.keep \in Retentions
        /\ wanted \in [Updaters -> Retentions \cup {0}] /\ Drained
    BY DEF StoreInv, StoreTypes
  <1>2. ASSUME NEW u \in Updaters, UpdateConfig(u)
        PROVE  StoreInv' /\ UNCHANGED Log!vars
    <2>1. PICK c \in [on : BOOLEAN, keep : Retentions] :
              /\ config' = c
              /\ wanted' = [wanted EXCEPT ![u] = IF wpc = "none" THEN 0 ELSE c.keep]
      BY <1>2 DEF UpdateConfig
    <2>2. UNCHANGED <<day, life, capacity, nextID, pc, item, queue, buf, files,
                      torn, hurt, floor, cur, glued, broken, linked, retention,
                      wpc, closer>>
      BY <1>2 DEF UpdateConfig, proc, users, writer, disk
    <2>3. c.keep \in Retentions
      OBVIOUS
    <2>4. wanted' \in [Updaters -> Retentions \cup {0}]
      BY <1>1, <2>1, <2>3
    <2>5. Drained'
      BY <1>1, <2>2 DEF Drained
    <2>6. config'.keep \in Retentions
      BY <2>1, <2>3
    <2>7. QED
      BY <1>1, <2>2, <2>4, <2>5, <2>6, QuietStep
  <1>3. CASE Snapshot
    <2>1. UNCHANGED <<day, life, capacity, nextID, config, wanted, pc, item,
                      queue, buf, files, torn, hurt, floor, cur, glued, broken,
                      linked, retention, wpc, closer>>
      BY <1>3 DEF Snapshot, proc, users, writer, disk
    <2>2. Drained'
      BY <1>1, <2>1 DEF Drained
    <2>3. QED
      BY <1>1, <2>1, <2>2, QuietStep
  <1>4. CASE NextDay
    <2>1. UNCHANGED <<life, capacity, nextID, config, wanted, pc, item, queue,
                      buf, files, torn, hurt, floor, cur, glued, broken, linked,
                      retention, wpc, closer>>
      BY <1>4 DEF NextDay, proc, store, users, writer, disk
    <2>2. Drained'
      BY <1>1, <2>1 DEF Drained
    <2>3. day' \in Days
      BY <1>1, <1>4, SizesAssumption DEF NextDay, Days
    <2>4. QED
      BY <1>1, <2>1, <2>2, <2>3, QuietStep
  <1>5. CASE BeginClose \/ CloseQueue
    <2>1. UNCHANGED <<day, life, capacity, nextID, config, wanted, pc, item,
                      queue, buf, files, torn, hurt, floor, cur, glued, broken,
                      linked, retention, wpc>>
      BY <1>5 DEF BeginClose, CloseQueue, proc, store, users, writer, disk
    <2>2. closer \in {"open", "locking"} /\ closer' # "closed"
      BY <1>5 DEF BeginClose, CloseQueue
    <2>3. Drained'
      BY <1>1, <2>1, <2>2 DEF Drained
    <2>4. QED
      BY <1>1, <2>1, <2>2, <2>3, QuietStep
  <1>6. CASE UNCHANGED vars
    <2>1. UNCHANGED <<day, life, capacity, nextID, config, wanted, pc, item,
                      queue, buf, files, torn, hurt, floor, cur, glued, broken,
                      linked, retention, wpc, closer>>
      BY <1>6 DEF vars, proc, store, users, writer, disk
    <2>2. Drained'
      BY <1>1, <2>1 DEF Drained
    <2>3. QED
      BY <1>1, <2>1, <2>2, QuietStep
  <1>7. QED
    BY <1>2, <1>3, <1>4, <1>5, <1>6

\* Close returns when the writer has ended, and nobody holds a trace for it.
LEMMA CloseReturnsStep ==
    ASSUME QueueInv, StoreInv, CloseReturns
    PROVE  StoreInv' /\ Log!Close
  <1>1. /\ closer = "waiting" /\ wpc = "ended" /\ closer' = "closed"
        /\ UNCHANGED <<day, life, capacity, nextID, config, wanted, pc, item,
                       queue, buf, files, torn, hurt, floor, cur, glued, broken,
                       linked, retention, wpc>>
    BY DEF CloseReturns, proc, store, users, writer, disk
  <1>2. queue = <<>> /\ buf = <<>>
    BY <1>1 DEF StoreInv, Drained
  <1>3. StoreInv'
    <2>1. Drained'
      BY <1>1, <1>2 DEF Drained
    <2>2. /\ day \in Days /\ config.keep \in Retentions
          /\ wanted \in [Updaters -> Retentions \cup {0}]
      BY DEF StoreInv, StoreTypes
    <2>3. QED
      BY <1>1, <2>1, <2>2, QuietStep
  <1>4. Sending = {}
    BY <1>1 DEF Sending, QueueInv, NoSendOnClosedQueue
  <1>5. Pending = {} /\ Pending' = Pending
    BY <1>1, <1>2, <1>4, SetOfNone DEF Pending, Sending
  <1>6. QED
    BY <1>1, <1>3, <1>5 DEF Log!Close

\* What a new process starts from.
LEMMA NothingUnderWay ==
    ASSUME pc' = [r \in Recorders |-> "idle"], item' = [r \in Recorders |-> <<>>],
           queue' = <<>>, buf' = <<>>
    PROVE  /\ pc' \in [Recorders -> {"idle", "enqueue", "send"}]
           /\ item' \in [Recorders -> Trace \cup {<<>>}]
           /\ \A r \in Recorders : ~ InHand(r)'
           /\ queue' \in Seq(Trace) /\ buf' \in Seq(Trace)
           /\ Numbered' /\ OnePlace' /\ Pending' = {}
  <1>1. \A r \in Recorders : pc'[r] = "idle"
    OBVIOUS
  <1>2. ToSet(queue') = {} /\ ToSet(buf') = {}
    BY SetOfNone
  <1>3. Len(queue') = 0
    OBVIOUS
  <1>4. Sending' = {}
    BY <1>1 DEF Sending
  <1>5. QED
    BY <1>1, <1>2, <1>3, <1>4 DEF InHand, Numbered, OnePlace, Pending, Sending

\* A crash loses what is under way; the days of it, and those of torn lines,
\* are hit.
LEMMA RestartStep ==
    ASSUME StoreInv, Restart
    PROVE  StoreInv' /\ Log!End
  <1>1. /\ life < MaxLife /\ life' = life + 1
        /\ hurt' = hurt \cup torn \cup {t.day : t \in Pending}
        /\ retention' = config.keep
        /\ pc' = [r \in Recorders |-> "idle"]
        /\ item' = [r \in Recorders |-> <<>>]
        /\ wanted' = [u \in Updaters |-> 0]
        /\ queue' = <<>> /\ closer' = "open" /\ cur' = NoDay /\ buf' = <<>>
        /\ glued' = FALSE /\ broken' = FALSE /\ linked' = FALSE
        /\ UNCHANGED <<day, capacity, config>>
    BY DEF Restart
  <1>2. /\ day \in Days /\ config.keep \in Retentions /\ Filed(files)
        /\ floor \in Nat /\ capacity \in Nat \ {0} /\ life \in 1 .. MaxLife
    BY DEF StoreInv, StoreTypes
  <1>3. /\ Filed(files')
        /\ Saved(files') \subseteq Saved(files)
        /\ \A t \in Saved(files) : t \in Saved(files') \/ t.day < floor'
        /\ floor' \in Nat /\ floor <= floor'
        /\ torn' \subseteq torn
        /\ nextID' \in Nat /\ wpc' # "ended"
    <2>1. CASE /\ RemoveFiles(files, torn, config.keep, day)
               /\ wpc' = "running"
               /\ nextID' = IF config.on THEN HighestID(Recent(files')) ELSE 0
      <3>1. /\ Filed(files')
            /\ Saved(files') \subseteq Saved(files)
            /\ \A t \in Saved(files) : t \in Saved(files') \/ t.day < floor'
            /\ floor' \in Nat /\ floor <= floor'
            /\ torn' \subseteq torn
        BY <1>2, <2>1, RemoveTakesOld
      <3>2. Recent(files') \in Seq(Trace)
        BY <1>2, <3>1, RecentTyped DEF Filed
      <3>3. HighestID(Recent(files')) \in 0 .. MaxID
        BY <3>2, HighestIsID
      <3>4. nextID' \in Nat
        BY <2>1, <3>3, SizesAssumption
      <3>5. QED
        BY <2>1, <3>1, <3>4
    <2>2. CASE /\ wpc' = "none" /\ nextID' = 0
               /\ UNCHANGED <<files, torn, floor>>
      BY <1>2, <2>2
    <2>3. QED
      BY <2>1, <2>2 DEF Restart
  <1>4. /\ pc' \in [Recorders -> {"idle", "enqueue", "send"}]
        /\ item' \in [Recorders -> Trace \cup {<<>>}]
        /\ \A r \in Recorders : ~ InHand(r)'
        /\ queue' \in Seq(Trace) /\ buf' \in Seq(Trace)
        /\ Numbered' /\ OnePlace' /\ Pending' = {}
    BY <1>1, NothingUnderWay
  <1>5. StoreTypes'
    <2>1. life' \in 1 .. MaxLife
      BY <1>1, <1>2, SizesAssumption
    <2>2. wanted' \in [Updaters -> Retentions \cup {0}]
      BY <1>1
    <2>3. \A r \in Recorders : InHand(r)' => item'[r] \in Trace
      BY <1>4
    <2>4. QED
      BY <1>1, <1>2, <1>3, <1>4, <2>1, <2>2, <2>3 DEF StoreTypes
  <1>6. Torn'
    BY <1>1, <1>3 DEF Torn
  <1>7. Opened' /\ Drained'
    BY <1>1, <1>3, SetOfNone DEF Opened, Drained, NoDay, Days
  <1>8. Log!End
    <2>1. floor' >= floor /\ hurt \subseteq hurt'
      BY <1>1, <1>2, <1>3
    <2>2. \A t \in Pending : t.day < floor' \/ t.day \in hurt'
      BY <1>1
    <2>3. (closer' = "closed") = FALSE
      BY <1>1
    <2>4. \A t \in Saved(files) \ Saved(files') : t.day < floor'
      BY <1>3
    <2>5. QED
      BY <1>3, <1>4, <2>1, <2>2, <2>3, <2>4
         DEF Log!End, Log!Onwards, Log!Excused, Saved
  <1>9. QED
    BY <1>4, <1>5, <1>6, <1>7, <1>8 DEF StoreInv

LEMMA StoreInit == Init => StoreInv /\ Log!Init
  <1>1. SUFFICES ASSUME Init PROVE StoreInv /\ Log!Init
    OBVIOUS
  <1>2. /\ capacity \in Capacities
        /\ day = 1 /\ life = 1 /\ nextID = 0
        /\ config \in [on : BOOLEAN, keep : Retentions]
        /\ retention = config.keep
        /\ pc = [r \in Recorders |-> "idle"]
        /\ item = [r \in Recorders |-> <<>>]
        /\ wanted = [u \in Updaters |-> 0]
        /\ queue = <<>> /\ closer = "open" /\ wpc = "running"
        /\ cur = NoDay /\ buf = <<>>
        /\ glued = FALSE /\ broken = FALSE /\ linked = FALSE
        /\ files = [d \in Days |-> <<>>]
        /\ torn = {} /\ hurt = {} /\ floor = 0
    BY <1>1, Zenon DEF Init
  <1>3. \A r \in Recorders : ~ InHand(r)
    BY <1>2 DEF InHand
  <1>4. ToSet(queue) = {} /\ ToSet(buf) = {} /\ Len(queue) = 0
    BY <1>2, SetOfNone
  <1>5. Filed(files) /\ Saved(files) = {}
    <2>1. \A d \in Days : files[d] = <<>>
      BY <1>2
    <2>2. files \in [Days -> Seq(Trace)]
      BY <1>2
    <2>3. QED
      BY <2>1, <2>2, SetOfNone DEF Filed, Saved
  <1>6. StoreTypes
    <2>1. config.keep \in Retentions
      BY <1>2
    <2>2. /\ pc \in [Recorders -> {"idle", "enqueue", "send"}]
          /\ item \in [Recorders -> Trace \cup {<<>>}]
          /\ wanted \in [Updaters -> Retentions \cup {0}]
      BY <1>2
    <2>3. queue \in Seq(Trace) /\ buf \in Seq(Trace)
      BY <1>2
    <2>4. capacity \in Nat \ {0} /\ day \in Days /\ life \in 1 .. MaxLife
      BY <1>2, SizesAssumption DEF Days
    <2>5. QED
      BY <1>2, <1>3, <1>5, <2>1, <2>2, <2>3, <2>4 DEF StoreTypes
  <1>7. Numbered /\ OnePlace
    BY <1>3, <1>4 DEF Numbered, OnePlace
  <1>8. Torn /\ Opened /\ Drained
    BY <1>2, <1>4 DEF Torn, Opened, Drained, NoDay, Days
  <1>9. Sending = {}
    BY <1>2 DEF Sending
  <1>10. Pending = {}
    BY <1>4, <1>9 DEF Pending, Sending
  <1>11. (closer = "closed") = FALSE
    BY <1>2
  <1>12. Log!Init
    BY <1>2, <1>5, <1>10, <1>11 DEF Log!Init, Saved
  <1>13. QED
    BY <1>6, <1>7, <1>8, <1>12 DEF StoreInv

LEMMA StoreNext ==
    ASSUME QueueInv, StoreInv, [Next]_vars
    PROVE  StoreInv' /\ [Log!Next]_(Log!vars)
  <1>1. CASE \E r \in Recorders : Record(r) \/ Enqueue(r) \/ Send(r)
    BY <1>1, RecordStep, EnqueueStep, SendStep DEF Log!Next
  <1>2. CASE Rotate \/ RotateFails \/ Write \/ WriteSplit
    BY <1>2, RotateStep, RotateFailsStep, WriteStep, WriteSplitStep DEF Log!Next
  <1>3. CASE Flush \/ FlushFails \/ EndWriter
    BY <1>3, FlushStep, FlushFailsStep, EndWriterStep DEF Log!Next
  <1>4. CASE \E u \in Updaters : UpdateRetention(u)
    BY <1>4, UpdateRetentionStep DEF Log!Next
  <1>5. CASE \/ \E u \in Updaters : UpdateConfig(u)
             \/ Snapshot \/ NextDay \/ BeginClose \/ CloseQueue
             \/ UNCHANGED vars
    BY <1>5, SettingsStep
  <1>6. CASE CloseReturns
    BY <1>6, CloseReturnsStep DEF Log!Next
  <1>7. CASE Restart
    BY <1>7, RestartStep DEF Log!Next
  <1>8. QED
    BY <1>1, <1>2, <1>3, <1>4, <1>5, <1>6, <1>7 DEF Next

\* The store implements the log: whatever the handlers, the writer, the disk,
\* the settings and crashes do, a trace that was queued is in the files unless
\* its day has run out of the retention or its file was hit, a trace in the
\* files goes only with its day, and Close returns with nothing left to write
\* (persistence.go).
THEOREM FilesKeepTheirPromise == Spec => Kept
  <1>1. QueueInv /\ StoreInv /\ [Next]_vars => (QueueInv /\ StoreInv)'
    BY QueueNext, StoreNext
  <1>2. QueueInv /\ StoreInv /\ [Next]_vars => [Log!Next]_(Log!vars)
    BY StoreNext
  <1>3. Init => QueueInv /\ StoreInv /\ Log!Init
    BY QueueInit, StoreInit
  <1>4. QED
    BY <1>1, <1>2, <1>3, PTL DEF Spec, Kept, Log!Spec

-----------------------------------------------------------------------------
(* The ring: sequences that have no element twice                           *)

Distinct(s) == \A i, j \in 1 .. Len(s) : s[i] = s[j] => i = j

LEMMA DistinctAppend ==
    ASSUME NEW S, NEW s \in Seq(S), NEW e \in S, Distinct(s), e \notin ToSet(s)
    PROVE  Distinct(Append(s, e))
  <1>1. PICK n \in Nat : n = Len(s)
    OBVIOUS
  <1>2. /\ Len(Append(s, e)) = n + 1
        /\ \A i \in 1 .. n : Append(s, e)[i] = s[i]
        /\ Append(s, e)[n + 1] = e
    BY <1>1, AppendProperties
  <1>3. \A i \in 1 .. n : s[i] # e
    <2>1. ToSet(s) = {s[i] : i \in 1 .. n}
      BY <1>1, SetOfSeq
    <2>2. QED
      BY <2>1
  <1>4. \A i, j \in 1 .. n : s[i] = s[j] => i = j
    BY <1>1 DEF Distinct
  <1>5. ASSUME NEW i \in 1 .. n + 1, NEW j \in 1 .. n + 1,
               Append(s, e)[i] = Append(s, e)[j]
        PROVE  i = j
    BY <1>2, <1>3, <1>4, <1>5
  <1>6. QED
    BY <1>2, <1>5 DEF Distinct

LEMMA DistinctConcat ==
    ASSUME NEW S, NEW s \in Seq(S), NEW t \in Seq(S),
           Distinct(s), Distinct(t), ToSet(s) \cap ToSet(t) = {}
    PROVE  Distinct(s \o t)
  <1>1. PICK m \in Nat, n \in Nat : m = Len(s) /\ n = Len(t)
    OBVIOUS
  <1>2. /\ Len(s \o t) = m + n
        /\ \A i \in 1 .. m + n : (s \o t)[i] = IF i <= m THEN s[i] ELSE t[i - m]
    BY <1>1, ConcatProperties
  <1>3. \A i \in 1 .. m, j \in 1 .. n : s[i] # t[j]
    <2>1. ToSet(s) = {s[i] : i \in 1 .. m} /\ ToSet(t) = {t[i] : i \in 1 .. n}
      BY <1>1, SetOfSeq
    <2>2. QED
      BY <2>1
  <1>4. /\ \A i, j \in 1 .. m : s[i] = s[j] => i = j
        /\ \A i, j \in 1 .. n : t[i] = t[j] => i = j
    BY <1>1 DEF Distinct
  <1>5. ASSUME NEW i \in 1 .. m + n, NEW j \in 1 .. m + n,
               (s \o t)[i] = (s \o t)[j]
        PROVE  i = j
    <2>1. CASE i <= m /\ j <= m
      BY <1>2, <1>4, <1>5, <2>1
    <2>2. CASE i <= m /\ ~ (j <= m)
      <3>1. j - m \in 1 .. n /\ i \in 1 .. m
        BY <2>2
      <3>2. QED
        BY <1>2, <1>3, <1>5, <2>2, <3>1
    <2>3. CASE ~ (i <= m) /\ j <= m
      <3>1. i - m \in 1 .. n /\ j \in 1 .. m
        BY <2>3
      <3>2. QED
        BY <1>2, <1>3, <1>5, <2>3, <3>1
    <2>4. CASE ~ (i <= m) /\ ~ (j <= m)
      <3>1. i - m \in 1 .. n /\ j - m \in 1 .. n
        BY <2>4
      <3>2. i - m = j - m
        BY <1>2, <1>4, <1>5, <2>4, <3>1
      <3>3. QED
        BY <3>2
    <2>5. QED
      BY <2>1, <2>2, <2>3, <2>4
  <1>6. QED
    BY <1>2, <1>5 DEF Distinct

\* A part of a sequence has what the sequence has, in its order.
LEMMA PartOf ==
    ASSUME NEW S, NEW s \in Seq(S), NEW m \in Nat \ {0}, NEW n \in 0 .. Len(s),
           m <= n + 1
    PROVE  /\ SubSeq(s, m, n) \in Seq(S)
           /\ ToSet(SubSeq(s, m, n)) \subseteq ToSet(s)
           /\ Distinct(s) => Distinct(SubSeq(s, m, n))
  <1>1. PICK l \in Nat : l = Len(s)
    OBVIOUS
  <1>2. \A i \in m .. n : s[i] \in S
    BY <1>1
  <1>3. /\ SubSeq(s, m, n) \in Seq(S)
        /\ Len(SubSeq(s, m, n)) = n - m + 1
        /\ \A i \in 1 .. n - m + 1 : SubSeq(s, m, n)[i] = s[m + i - 1]
    <2>1. /\ SubSeq(s, m, n) \in Seq(S)
          /\ Len(SubSeq(s, m, n)) = IF m <= n THEN n - m + 1 ELSE 0
          /\ \A i \in 1 .. n - m + 1 : SubSeq(s, m, n)[i] = s[m + i - 1]
      BY <1>2, SubSeqProperties
    <2>2. n \in Int /\ m \in Int /\ (~ (m <= n) => n - m + 1 = 0)
      BY <1>1
    <2>3. QED
      BY <2>1, <2>2
  <1>4. \A i \in 1 .. n - m + 1 : m + i - 1 \in 1 .. l
    BY <1>1
  <1>5. ToSet(SubSeq(s, m, n)) \subseteq ToSet(s)
    <2>1. ToSet(SubSeq(s, m, n)) = {SubSeq(s, m, n)[i] : i \in 1 .. n - m + 1}
      BY <1>3, SetOfSeq
    <2>2. ToSet(s) = {s[i] : i \in 1 .. l}
      BY <1>1, SetOfSeq
    <2>3. QED
      BY <1>3, <1>4, <2>1, <2>2
  <1>6. ASSUME Distinct(s)
        PROVE  Distinct(SubSeq(s, m, n))
    <2>1. \A i, j \in 1 .. l : s[i] = s[j] => i = j
      BY <1>1, <1>6 DEF Distinct
    <2>2. ASSUME NEW i \in 1 .. n - m + 1, NEW j \in 1 .. n - m + 1,
                 SubSeq(s, m, n)[i] = SubSeq(s, m, n)[j]
          PROVE  i = j
      <3>1. s[m + i - 1] = s[m + j - 1]
        BY <1>3, <2>2
      <3>2. m + i - 1 = m + j - 1
        BY <1>4, <2>1, <3>1
      <3>3. QED
        BY <1>1, <3>2
    <2>3. QED
      BY <1>3, <2>2 DEF Distinct
  <1>7. QED
    BY <1>3, <1>5, <1>6

LEMMA DistinctTail ==
    ASSUME NEW S, NEW s \in Seq(S), s # <<>>, Distinct(s)
    PROVE  Distinct(Tail(s))
  <1>1. PICK n \in Nat : n + 1 = Len(s)
    <2>1. Len(s) \in Nat \ {0}
      BY EmptySeq
    <2>2. QED
      BY <2>1
  <1>2. Len(Tail(s)) = n /\ \A i \in 1 .. n : Tail(s)[i] = s[i + 1]
    BY <1>1, HeadTailProperties
  <1>3. \A i, j \in 1 .. n + 1 : s[i] = s[j] => i = j
    BY <1>1 DEF Distinct
  <1>4. ASSUME NEW i \in 1 .. n, NEW j \in 1 .. n, Tail(s)[i] = Tail(s)[j]
        PROVE  i = j
    <2>1. i + 1 \in 1 .. n + 1 /\ j + 1 \in 1 .. n + 1
      OBVIOUS
    <2>2. i + 1 = j + 1
      BY <1>2, <1>3, <1>4, <2>1
    <2>3. QED
      BY <2>2
  <1>5. QED
    BY <1>2, <1>4 DEF Distinct

LEMMA DistinctFew ==
    Distinct(<<>>) /\ \A e : Distinct(<<e>>)
  BY DEF Distinct

Joins(s, seqs, k) ==
    Distinct(s) /\ ToSet(s) \subseteq UNION {ToSet(seqs[i]) : i \in 1 .. k}

\* What is built of sequences that share nothing has no element twice.
LEMMA BuiltDistinct ==
    ASSUME NEW S, NEW seqs, NEW n \in Nat, NEW f, Builds(f, seqs, n),
           \A i \in 1 .. n : seqs[i] \in Seq(S), \A i \in 1 .. n : Distinct(seqs[i]),
           \A i, j \in 1 .. n : i # j => ToSet(seqs[i]) \cap ToSet(seqs[j]) = {}
    PROVE  \A k \in 1 .. n : Joins(f[k], seqs, k)
  <1> DEFINE Good(k) == Joins(f[k], seqs, k)
             P == {k \in Nat : k \in 1 .. n => Good(k)}
  <1>1. 0 \in P
    OBVIOUS
  <1>2. ASSUME NEW k \in Nat, k \in P
        PROVE  k + 1 \in P
    <2>1. SUFFICES ASSUME k + 1 \in 1 .. n
                   PROVE  Good(k + 1)
      OBVIOUS
    <2>2. CASE k = 0
      <3>1. f[1] = seqs[1] /\ 1 \in 1 .. n /\ k + 1 = 1
        BY <2>1, <2>2 DEF Builds
      <3>2. QED
        BY <3>1 DEF Joins
    <2>3. CASE k # 0
      <3>1. k \in 1 .. n /\ k + 1 # 1 /\ (k + 1) - 1 = k
        BY <2>1, <2>3
      <3>2. f[k + 1] = f[k] \o seqs[k + 1]
        BY <2>1, <3>1 DEF Builds
      <3>3. Good(k)
        BY <1>2, <3>1
      <3>4. f[k] \in Seq(S) /\ seqs[k + 1] \in Seq(S)
        BY <2>1, <3>1, BuiltTyped
      <3>5. ToSet(f[k]) \cap ToSet(seqs[k + 1]) = {}
        <4>1. \A i \in 1 .. k : i \in 1 .. n /\ i # k + 1
          BY <3>1
        <4>2. \A i \in 1 .. k : ToSet(seqs[i]) \cap ToSet(seqs[k + 1]) = {}
          BY <2>1, <4>1
        <4>3. QED
          BY <3>3, <4>2 DEF Joins
      <3>6. Distinct(f[k + 1])
        BY <2>1, <3>2, <3>3, <3>4, <3>5, DistinctConcat DEF Joins
      <3>7. ToSet(f[k + 1]) = ToSet(f[k]) \cup ToSet(seqs[k + 1])
        BY <3>2, <3>4, SetOfConcat
      <3>8. 1 .. k \subseteq 1 .. k + 1 /\ k + 1 \in 1 .. k + 1
        OBVIOUS
      <3>9. QED
        BY <3>3, <3>6, <3>7, <3>8 DEF Joins
    <2>4. QED
      BY <2>2, <2>3
  <1>3. Nat \subseteq P
    <2> HIDE DEF P
    <2>1. QED
      BY <1>1, <1>2, Induction
  <1>4. QED
    BY <1>3

\* The lines a new process loads are lines of the files, none of them twice.
LEMMA RecentDistinct ==
    ASSUME NEW fs, Filed(fs), \A d \in Days : Distinct(fs[d]), capacity \in Nat \ {0}
    PROVE  /\ Recent(fs) \in Seq(Trace) /\ Distinct(Recent(fs))
           /\ ToSet(Recent(fs)) \subseteq Saved(fs)
  <1> DEFINE seqs  == [d \in Days |-> fs[d]]
             lines == FlattenSeq(seqs)
             first == IF Len(lines) > capacity
                      THEN Len(lines) - capacity + 1 ELSE 1
  <1>1. /\ seqs \in Seq(Seq(Trace)) /\ Len(seqs) = MaxDay /\ MaxDay # 0
        /\ MaxDay \in Nat /\ Days = 1 .. MaxDay
    BY SizesAssumption DEF Days, Filed
  <1>2. \A d \in 1 .. MaxDay : seqs[d] = fs[d]
    BY <1>1
  <1> HIDE DEF seqs
  <1>3. \A d \in 1 .. MaxDay : seqs[d] \in Seq(Trace) /\ Distinct(seqs[d])
    BY <1>1, <1>2 DEF Filed
  <1>4. \A d, e \in 1 .. MaxDay : d # e => ToSet(seqs[d]) \cap ToSet(seqs[e]) = {}
    BY <1>1, <1>2 DEF Filed
  <1>5. PICK f : Builds(f, seqs, MaxDay) /\ lines = f[MaxDay]
    BY <1>1, FlattenBuilt
  <1>6. /\ Distinct(lines)
        /\ ToSet(lines) \subseteq UNION {ToSet(seqs[d]) : d \in 1 .. MaxDay}
    <2>1. MaxDay \in 1 .. MaxDay
      BY <1>1
    <2>2. \A k \in 1 .. MaxDay : Joins(f[k], seqs, k)
      <3>1. /\ \A d \in 1 .. MaxDay : seqs[d] \in Seq(Trace)
            /\ \A d \in 1 .. MaxDay : Distinct(seqs[d])
        BY <1>3
      <3>2. QED
        BY <1>1, <1>4, <1>5, <3>1, BuiltDistinct, Zenon
    <2>3. QED
      BY <1>5, <2>1, <2>2, Zenon DEF Joins
  <1>7. lines \in Seq(Trace)
    BY <1>1, FlattenTyped
  <1>8. ToSet(lines) \subseteq Saved(fs)
    BY <1>1, <1>2, <1>6 DEF Saved
  <1> HIDE DEF lines
  <1>9. PICK n \in Nat, c \in Nat \ {0} : n = Len(lines) /\ c = capacity
    BY <1>7
  <1>10. PICK m \in Nat \ {0} : m = first /\ m <= n + 1
    <2>1. (IF n > c THEN n - c + 1 ELSE 1) \in 1 .. n + 1
      BY <1>9
    <2>2. QED
      BY <1>9, <2>1
  <1>11. Recent(fs) = SubSeq(lines, m, n)
    BY <1>9, <1>10 DEF Recent, lines, seqs
  <1>12. n \in 0 .. Len(lines)
    BY <1>9
  <1>13. /\ SubSeq(lines, m, n) \in Seq(Trace)
         /\ ToSet(SubSeq(lines, m, n)) \subseteq ToSet(lines)
         /\ Distinct(lines) => Distinct(SubSeq(lines, m, n))
    BY <1>7, <1>10, <1>12, PartOf, Zenon
  <1>14. QED
    BY <1>6, <1>8, <1>11, <1>13, Zenon

-----------------------------------------------------------------------------
(* Sorting what is loaded                                                   *)

\* The order of the lines with the numbers i and j.
Precedes(lines, i, j) ==
    \/ Earlier(lines[i], lines[j])
    \/ ~Earlier(lines[j], lines[i]) /\ i < j

InTime(lines, p) == \A i, j \in DOMAIN p : i < j => Precedes(lines, p[i], p[j])

\* A life and a number make a trace.
Told(K) == \A t, u \in K : t.life = u.life /\ t.id = u.id => t = u

LEMMA TraceFields ==
    ASSUME NEW t \in Trace
    PROVE  t.life \in Nat /\ t.id \in Nat /\ t.day \in Days
  BY SizesAssumption DEF Trace

\* Of two lines that are told apart one is earlier.
LEMMA OneEarlier ==
    ASSUME NEW lines \in Seq(Trace), Distinct(lines), Told(ToSet(lines)),
           NEW i \in 1 .. Len(lines), NEW j \in 1 .. Len(lines), i # j
    PROVE  /\ Earlier(lines[i], lines[j]) \/ Earlier(lines[j], lines[i])
           /\ ~ (Earlier(lines[i], lines[j]) /\ Earlier(lines[j], lines[i]))
  <1>1. lines[i] \in ToSet(lines) /\ lines[j] \in ToSet(lines)
    BY SetOfSeq
  <1>2. lines[i] \in Trace /\ lines[j] \in Trace
    OBVIOUS
  <1>3. PICK a \in Nat, b \in Nat : a = lines[i].life /\ b = lines[i].id
    BY <1>2, TraceFields
  <1>4. PICK c \in Nat, d \in Nat : c = lines[j].life /\ d = lines[j].id
    BY <1>2, TraceFields
  <1>5. a # c \/ b # d
    <2>1. lines[i] # lines[j]
      BY DEF Distinct
    <2>2. QED
      BY <1>1, <1>3, <1>4, <2>1 DEF Told
  <1>6. QED
    BY <1>3, <1>4, <1>5, SMTT(30) DEF Earlier

LEMMA EarlierThan ==
    ASSUME NEW t \in Trace, NEW u \in Trace, NEW v \in Trace,
           Earlier(t, u), Earlier(u, v)
    PROVE  Earlier(t, v)
  BY TraceFields DEF Earlier

\* Among some of the lines there is one that goes before the others.
LEMMA FirstLine ==
    ASSUME NEW lines \in Seq(Trace), Distinct(lines), Told(ToSet(lines)),
           NEW A \in SUBSET (1 .. Len(lines)), A # {}
    PROVE  \E m \in A : \A k \in A \ {m} : Precedes(lines, m, k)
  <1> DEFINE L == {lines[i].life : i \in A}
  <1>1. \A i \in A : lines[i] \in Trace /\ lines[i].life \in Nat /\ lines[i].id \in Nat
    <2>1. \A i \in A : lines[i] \in Trace
      OBVIOUS
    <2>2. QED
      BY <2>1, TraceFields
  <1>2. PICK f \in A : \A i \in A : lines[f].life <= lines[i].life
    <2>1. L \subseteq Nat /\ L # {}
      BY <1>1
    <2>2. PICK l \in L : \A y \in L : l <= y
      BY <2>1, LeastOne, Zenon
    <2>3. PICK f \in A : lines[f].life = l
      BY <2>2
    <2>4. \A i \in A : lines[i].life \in L
      OBVIOUS
    <2>5. QED
      BY <2>2, <2>3, <2>4
  <1> DEFINE B == {i \in A : lines[i].life = lines[f].life}
             N == {lines[i].id : i \in B}
  <1>3. f \in B /\ B \subseteq A
    OBVIOUS
  <1>4. PICK m \in B : \A i \in B : lines[m].id <= lines[i].id
    <2>1. N \subseteq Nat /\ N # {}
      BY <1>1, <1>3
    <2>2. PICK n \in N : \A y \in N : n <= y
      BY <2>1, LeastOne, Zenon
    <2>3. PICK m \in B : lines[m].id = n
      BY <2>2
    <2>4. \A i \in B : lines[i].id \in N
      OBVIOUS
    <2>5. QED
      BY <2>2, <2>3, <2>4
  <1>5. m \in A /\ lines[m].life = lines[f].life
    BY <1>4
  <1>6. ASSUME NEW k \in A \ {m}
        PROVE  Precedes(lines, m, k)
    <2>1. Earlier(lines[m], lines[k]) \/ Earlier(lines[k], lines[m])
      BY <1>5, OneEarlier
    <2>2. ~Earlier(lines[k], lines[m])
      <3>1. CASE k \in B
        <4>1. lines[m].id <= lines[k].id /\ lines[k].life = lines[m].life
          BY <1>4, <1>5, <3>1
        <4>2. lines[m].id \in Nat /\ lines[k].id \in Nat /\ lines[m].life \in Nat
          BY <1>1, <1>5
        <4>3. QED
          BY <4>1, <4>2 DEF Earlier
      <3>2. CASE k \notin B
        <4>1. lines[m].life <= lines[k].life /\ lines[k].life # lines[m].life
          BY <1>2, <1>5, <3>2
        <4>2. lines[m].life \in Nat /\ lines[k].life \in Nat
          BY <1>1, <1>5
        <4>3. QED
          BY <4>1, <4>2 DEF Earlier
      <3>3. QED
        BY <3>1, <3>2
    <2>3. QED
      BY <2>1, <2>2 DEF Precedes
  <1>7. QED
    BY <1>5, <1>6

LEMMA UpTo ==
    ASSUME NEW l \in Nat
    PROVE  IsFiniteSet(1 .. l) /\ Cardinality(1 .. l) = l
  <1>1. /\ IsFiniteSet(1 .. l)
        /\ Cardinality(1 .. l) = (IF 1 > l THEN 0 ELSE l - 1 + 1)
    <2>1. 1 \in Int /\ l \in Int
      OBVIOUS
    <2>2. QED
      BY <2>1, FS_Interval, Zenon
  <1>2. CASE l = 0
    <2>1. 1 > l
      BY <1>2
    <2>2. QED
      BY <1>1, <1>2, <2>1, Zenon
  <1>3. CASE l # 0
    <2>1. ~ (1 > l) /\ l - 1 + 1 = l
      BY <1>3
    <2>2. QED
      BY <1>1, <2>1, Zenon
  <1>4. QED
    BY <1>2, <1>3

\* Hence any lines that are told apart can be put in order.
LEMMA LinesSortable ==
    ASSUME NEW lines \in Seq(Trace), Distinct(lines), Told(ToSet(lines)),
           NEW l \in Nat, l = Len(lines)
    PROVE  \E p \in SetToSeqs(1 .. l) : InTime(lines, p)
  <1> DEFINE InOrder(C, n) == \E p \in [1 .. n -> C] : InTime(lines, p)
             P == {n \in Nat : \A C \in SUBSET (1 .. l) :
                                   Cardinality(C) = n => InOrder(C, n)}
  <1>1. \A C \in SUBSET (1 .. l) : IsFiniteSet(C) /\ Cardinality(C) \in Nat
    BY UpTo, FS_Subset, FS_CardinalityType
  <1>2. 0 \in P
    <2>1. SUFFICES ASSUME NEW C \in SUBSET (1 .. l)
                   PROVE  InOrder(C, 0)
      OBVIOUS
    <2>2. [i \in 1 .. 0 |-> 0] \in [1 .. 0 -> C]
      OBVIOUS
    <2>3. InTime(lines, [i \in 1 .. 0 |-> 0])
      BY DEF InTime
    <2>4. QED
      BY <2>2, <2>3
  <1>3. ASSUME NEW n \in Nat, n \in P
        PROVE  n + 1 \in P
    <2>1. SUFFICES ASSUME NEW C \in SUBSET (1 .. l), Cardinality(C) = n + 1
                   PROVE  InOrder(C, n + 1)
      OBVIOUS
    <2>2. C # {}
      <3>1. Cardinality(C) # 0
        BY <2>1
      <3>2. QED
        BY <3>1, FS_EmptySet
    <2>3. PICK m \in C : \A k \in C \ {m} : Precedes(lines, m, k)
      BY <2>2, FirstLine
    <2>4. Cardinality(C \ {m}) = n
      <3>1. Cardinality(C \ {m}) = Cardinality(C) - 1
        BY <1>1, FS_RemoveElement
      <3>2. QED
        BY <2>1, <3>1
    <2>5. PICK p \in [1 .. n -> C \ {m}] : InTime(lines, p)
      BY <1>3, <2>4
    <2> DEFINE q == [i \in 1 .. n + 1 |-> IF i = 1 THEN m ELSE p[i - 1]]
    <2>6. q \in [1 .. n + 1 -> C]
      <3>1. \A i \in 1 .. n + 1 : i # 1 => i - 1 \in 1 .. n
        OBVIOUS
      <3>2. QED
        BY <2>5, <3>1
    <2>7. ASSUME NEW i \in 1 .. n + 1, NEW j \in 1 .. n + 1, i < j
          PROVE  Precedes(lines, q[i], q[j])
      <3>1. j - 1 \in 1 .. n /\ q[j] = p[j - 1]
        BY <2>7
      <3>2. CASE i = 1
        BY <2>3, <2>5, <3>1, <3>2
      <3>3. CASE i # 1
        <4>1. i - 1 \in 1 .. n /\ q[i] = p[i - 1] /\ i - 1 < j - 1
          BY <2>7, <3>3
        <4>2. DOMAIN p = 1 .. n
          BY <2>5
        <4>3. QED
          BY <2>5, <3>1, <4>1, <4>2 DEF InTime
      <3>4. QED
        BY <3>2, <3>3
    <2>8. InTime(lines, q)
      <3>1. DOMAIN q = 1 .. n + 1
        OBVIOUS
      <3> HIDE DEF q
      <3>2. QED
        BY <2>7, <3>1 DEF InTime
    <2>9. QED
      BY <2>6, <2>8
  <1>4. Cardinality(1 .. l) = l
    BY UpTo
  <1>5. l \in P
    <2> HIDE DEF P
    <2>1. QED
      BY <1>2, <1>3, Induction
  <1>6. PICK p \in [1 .. l -> 1 .. l] : InTime(lines, p)
    BY <1>4, <1>5
  <1>7. ASSUME NEW i \in 1 .. l, NEW j \in 1 .. l, i # j
        PROVE  p[i] # p[j]
    <2>1. p[i] \in 1 .. l /\ DOMAIN p = 1 .. l
      BY <1>6
    <2>2. ~Precedes(lines, p[i], p[i])
      <3>1. lines[p[i]] \in Trace
        BY <2>1
      <3>2. QED
        BY <2>1, <3>1, TraceFields DEF Precedes, Earlier
    <2>3. Precedes(lines, p[i], p[j]) \/ Precedes(lines, p[j], p[i])
      <3>1. i < j \/ j < i
        BY <1>7
      <3>2. QED
        BY <1>6, <2>1, <3>1 DEF InTime
    <2>4. QED
      BY <2>2, <2>3
  <1>8. p \in SetToSeqs(1 .. l)
    BY <1>4, <1>6, <1>7, Zenon DEF SetToSeqs
  <1>9. QED
    BY <1>6, <1>8

Climbs(s) == \A i, j \in 1 .. Len(s) : i < j => Earlier(s[i], s[j])

\* What is loaded is sorted, and comes from the files.
LEMMA LoadedInOrder ==
    ASSUME NEW fs, Filed(fs), \A d \in Days : Distinct(fs[d]),
           Told(Saved(fs)), capacity \in Nat \ {0}
    PROVE  /\ LoadRecent(fs) \in Seq(Trace) /\ Climbs(LoadRecent(fs))
           /\ ToSet(LoadRecent(fs)) \subseteq ToSet(Recent(fs))
  <1> DEFINE lines == Recent(fs)
  <1>1. /\ lines \in Seq(Trace) /\ Distinct(lines)
        /\ Told(ToSet(lines))
    BY RecentDistinct DEF Told
  <1>2. PICK l \in Nat : l = Len(lines)
    BY <1>1
  <1>3. DOMAIN lines = 1 .. l
    BY <1>1, <1>2
  <1> DEFINE order == CHOOSE p \in SetToSeqs(DOMAIN lines) : InTime(lines, p)
  <1>4. LoadRecent(fs) = [i \in DOMAIN order |-> lines[order[i]]]
    BY Zenon DEF LoadRecent, InTime, Precedes
  <1> HIDE DEF lines
  <1>5. order \in SetToSeqs(1 .. l) /\ InTime(lines, order)
    <2>1. \E p \in SetToSeqs(1 .. l) : InTime(lines, p)
      BY <1>1, <1>2, LinesSortable
    <2>2. \E p \in SetToSeqs(DOMAIN lines) : InTime(lines, p)
      BY <1>3, <2>1, Zenon
    <2>3. order \in SetToSeqs(DOMAIN lines) /\ InTime(lines, order)
      BY <2>2, Zenon
    <2> HIDE DEF order
    <2>4. QED
      BY <1>3, <2>3, Zenon
  <1>6. /\ order \in [1 .. l -> 1 .. l]
        /\ \A i, j \in 1 .. l : i # j => order[i] # order[j]
    <2>1. Cardinality(1 .. l) = l
      BY UpTo
    <2> HIDE DEF order
    <2>2. QED
      BY <1>5, <2>1, Zenon DEF SetToSeqs
  <1> HIDE DEF order
  <1> DEFINE out == [i \in 1 .. l |-> lines[order[i]]]
  <1>7. LoadRecent(fs) = out
    BY <1>4, <1>6
  <1>8. /\ out \in Seq(Trace) /\ Len(out) = l
        /\ \A i \in 1 .. l : out[i] = lines[order[i]]
    <2>1. \A i \in 1 .. l : lines[order[i]] \in Trace
      BY <1>1, <1>2, <1>6
    <2>2. QED
      BY <2>1
  <1>9. ToSet(out) \subseteq ToSet(lines)
    <2>1. ToSet(out) = {out[i] : i \in 1 .. l}
      BY <1>8, SetOfSeq
    <2>2. ToSet(lines) = {lines[i] : i \in 1 .. l}
      BY <1>1, <1>2, SetOfSeq
    <2>3. QED
      BY <1>6, <1>8, <2>1, <2>2, SMTT(30)
  <1>10. Climbs(out)
    <2>1. ASSUME NEW i \in 1 .. l, NEW j \in 1 .. l, i < j
          PROVE  Earlier(out[i], out[j])
      <3>1. order[i] \in 1 .. l /\ order[j] \in 1 .. l /\ order[i] # order[j]
        BY <1>6, <2>1
      <3>2. Precedes(lines, order[i], order[j])
        BY <1>5, <1>6, <2>1 DEF InTime
      <3>3. Earlier(lines[order[i]], lines[order[j]])
        BY <1>1, <1>2, <3>1, <3>2, OneEarlier DEF Precedes
      <3>4. QED
        BY <1>8, <3>3
    <2> HIDE DEF out
    <2>2. QED
      BY <1>8, <2>1 DEF Climbs
  <1>11. QED
    BY <1>7, <1>8, <1>9, <1>10 DEF lines

-----------------------------------------------------------------------------
(* Pruning                                                                  *)

\* f[i] is what the loop of Prune has kept of i traces, of those from day c on.
Sifts(f, s, c, n) ==
    /\ f[0] = <<>>
    /\ \A i \in 1 .. n :
          f[i] = IF s[i].day >= c THEN Append(f[i - 1], s[i]) ELSE f[i - 1]

LEMMA Siftable ==
    ASSUME NEW S, NEW s, NEW c, NEW n \in Nat, \A i \in 1 .. n : s[i] \in S
    PROVE  \E f \in [0 .. n -> Seq(S)] : Sifts(f, s, c, n)
  <1> DEFINE P == {k \in Nat : k <= n =>
                       \E f \in [0 .. k -> Seq(S)] : Sifts(f, s, c, k)}
  <1>1. 0 \in P
    <2>1. <<>> \in Seq(S)
      OBVIOUS
    <2>2. [i \in 0 .. 0 |-> <<>>] \in [0 .. 0 -> Seq(S)]
      BY <2>1
    <2>3. Sifts([i \in 0 .. 0 |-> <<>>], s, c, 0)
      BY DEF Sifts
    <2>4. QED
      BY <2>2, <2>3
  <1>2. ASSUME NEW k \in Nat, k \in P
        PROVE  k + 1 \in P
    <2>1. SUFFICES ASSUME k + 1 <= n
                   PROVE  \E g \in [0 .. k + 1 -> Seq(S)] : Sifts(g, s, c, k + 1)
      OBVIOUS
    <2>2. k <= n /\ k + 1 \in 1 .. n
      BY <2>1
    <2>3. PICK f \in [0 .. k -> Seq(S)] : Sifts(f, s, c, k)
      BY <1>2, <2>2
    <2> DEFINE next == IF s[k + 1].day >= c THEN Append(f[k], s[k + 1]) ELSE f[k]
               g == [i \in 0 .. k + 1 |-> IF i = k + 1 THEN next ELSE f[i]]
    <2>4. next \in Seq(S)
      <3>1. f[k] \in Seq(S) /\ s[k + 1] \in S
        BY <2>2, <2>3
      <3>2. Append(f[k], s[k + 1]) \in Seq(S)
        BY <3>1, AppendProperties
      <3>3. QED
        BY <3>1, <3>2
    <2>5. /\ g[k + 1] = next /\ g[k] = f[k]
          /\ \A i \in 0 .. k : g[i] = f[i]
      <3> HIDE DEF next
      <3>1. QED
        OBVIOUS
    <2>6. g \in [0 .. k + 1 -> Seq(S)]
      <3> HIDE DEF next
      <3>1. QED
        BY <2>3, <2>4
    <2>7. ASSUME NEW i \in 1 .. k + 1
          PROVE  g[i] = IF s[i].day >= c THEN Append(g[i - 1], s[i]) ELSE g[i - 1]
      <3> HIDE DEF g
      <3>1. CASE i = k + 1
        <4>1. i - 1 = k
          BY <3>1
        <4>2. QED
          BY <2>5, <3>1, <4>1 DEF next
      <3>2. CASE i # k + 1
        <4>1. i \in 1 .. k /\ i - 1 \in 0 .. k
          BY <3>2
        <4>2. g[i] = f[i] /\ g[i - 1] = f[i - 1]
          BY <2>5, <4>1
        <4>3. QED
          BY <2>3, <4>1, <4>2 DEF Sifts
      <3>3. QED
        BY <3>1, <3>2
    <2>8. g[0] = <<>>
      <3> HIDE DEF g
      <3>1. QED
        BY <2>3, <2>5 DEF Sifts
    <2>9. Sifts(g, s, c, k + 1)
      <3> HIDE DEF g
      <3>1. QED
        BY <2>7, <2>8, Zenon DEF Sifts
    <2>10. QED
      BY <2>6, <2>9
  <1>3. n \in P
    <2> HIDE DEF P
    <2>1. QED
      BY <1>1, <1>2, Induction
  <1>4. QED
    BY <1>3

\* Prune computes what its loop keeps.
LEMMA PruneSifts ==
    ASSUME NEW s \in Seq(Trace), NEW keep, NEW n \in Nat, n = Len(s)
    PROVE  \E f : Sifts(f, s, Cutoff(day, keep), n) /\ Prune(s, keep) = f[n]
  <1> DEFINE loop(f) == [i \in 0 .. n |->
                 IF i = 0 THEN <<>>
                 ELSE IF s[i].day >= Cutoff(day, keep)
                      THEN Append(f[i - 1], s[i]) ELSE f[i - 1]]
             kept == CHOOSE f : f = loop(f)
  <1>1. Prune(s, keep) = kept[n]
    BY Zenon DEF Prune
  <1>2. \E f : f = loop(f)
    <2>1. \A i \in 1 .. n : s[i] \in Trace
      OBVIOUS
    <2>2. PICK f \in [0 .. n -> Seq(Trace)] : Sifts(f, s, Cutoff(day, keep), n)
      BY <2>1, Siftable
    <2>3. f = [i \in 0 .. n |-> f[i]]
      BY <2>2
    <2>4. ASSUME NEW i \in 0 .. n
          PROVE  f[i] = IF i = 0 THEN <<>>
                        ELSE IF s[i].day >= Cutoff(day, keep)
                             THEN Append(f[i - 1], s[i]) ELSE f[i - 1]
      <3>1. i = 0 \/ i \in 1 .. n
        OBVIOUS
      <3>2. CASE i = 0
        BY <2>2, <3>2 DEF Sifts
      <3>3. CASE i \in 1 .. n
        <4>1. i # 0
          BY <3>3
        <4>2. QED
          BY <2>2, <3>3, <4>1, Zenon DEF Sifts
      <3>4. QED
        BY <3>1, <3>2, <3>3
    <2>5. QED
      BY <2>3, <2>4, Zenon
  <1>3. kept = loop(kept)
    BY <1>2, Zenon
  <1> HIDE DEF kept
  <1>4. \A i \in 0 .. n : kept[i] = loop(kept)[i]
    BY <1>3, Zenon
  <1>5. ASSUME NEW i \in 1 .. n
        PROVE  kept[i] = IF s[i].day >= Cutoff(day, keep)
                         THEN Append(kept[i - 1], s[i]) ELSE kept[i - 1]
    <2>1. i # 0 /\ i \in 0 .. n
      OBVIOUS
    <2>2. QED
      BY <1>4, <2>1, Zenon
  <1>6. kept[0] = <<>>
    <2>1. 0 \in 0 .. n
      OBVIOUS
    <2>2. QED
      BY <1>4, <2>1, Zenon
  <1>7. QED
    BY <1>1, <1>5, <1>6, Zenon DEF Sifts

\* s is what is left of the first n of t without its first m.
EndOf(s, t, n, m) ==
    /\ s \in Seq(Trace) /\ Len(s) = n - m
    /\ \A j \in 1 .. n - m : s[j] = t[m + j]

\* When no day comes before an earlier one, what has expired comes first.
LEMMA PruneTakesFirst ==
    ASSUME NEW s \in Seq(Trace), NEW keep \in Retentions, day \in Days,
           NEW n \in Nat, n = Len(s),
           \A i, j \in 1 .. n : i < j => s[i].day <= s[j].day
    PROVE  \E m \in 0 .. n : EndOf(Prune(s, keep), s, n, m)
  <1>1. PICK c \in Nat : c = Cutoff(day, keep)
    BY CutoffNat
  <1>2. PICK f : Sifts(f, s, c, n) /\ Prune(s, keep) = f[n]
    BY <1>1, PruneSifts
  <1> DEFINE Left(k, m) == /\ EndOf(f[k], s, k, m)
                           /\ \A i \in 1 .. k : (s[i].day >= c) = (i > m)
             P == {k \in Nat : k <= n => \E m \in 0 .. k : Left(k, m)}
  <1>3. \A i \in 1 .. n : s[i] \in Trace /\ s[i].day \in Nat
    <2>1. \A i \in 1 .. n : s[i] \in Trace
      OBVIOUS
    <2>2. QED
      BY <2>1, TraceFields, SizesAssumption DEF Days
  <1>4. 0 \in P
    <2>1. f[0] = <<>> /\ <<>> \in Seq(Trace) /\ Len(<<>>) = 0
      BY <1>2 DEF Sifts
    <2>2. EndOf(f[0], s, 0, 0)
      BY <2>1 DEF EndOf
    <2>3. Left(0, 0)
      BY <2>2
    <2>4. QED
      BY <2>3
  <1>5. ASSUME NEW k \in Nat, k \in P
        PROVE  k + 1 \in P
    <2>1. SUFFICES ASSUME k + 1 <= n
                   PROVE  \E m \in 0 .. k + 1 : Left(k + 1, m)
      OBVIOUS
    <2>2. k + 1 \in 1 .. n /\ (k + 1) - 1 = k
      BY <2>1
    <2>3. PICK m \in 0 .. k : Left(k, m)
      BY <1>5, <2>1
    <2>4. f[k + 1] = IF s[k + 1].day >= c THEN Append(f[k], s[k + 1]) ELSE f[k]
      BY <1>2, <2>2 DEF Sifts
    <2>5. CASE s[k + 1].day >= c
      <3>1. /\ f[k + 1] \in Seq(Trace) /\ Len(f[k + 1]) = k - m + 1
            /\ \A j \in 1 .. k - m : f[k + 1][j] = f[k][j]
            /\ f[k + 1][k - m + 1] = s[k + 1]
        <4>1. f[k] \in Seq(Trace) /\ Len(f[k]) = k - m /\ s[k + 1] \in Trace
          BY <1>3, <2>2, <2>3 DEF EndOf
        <4>2. f[k + 1] = Append(f[k], s[k + 1])
          BY <2>4, <2>5
        <4>3. QED
          BY <4>1, <4>2, AppendProperties, SMTT(30)
      <3>2. EndOf(f[k + 1], s, k + 1, m)
        <4>1. ASSUME NEW j \in 1 .. (k + 1) - m
              PROVE  f[k + 1][j] = s[m + j]
          <5>1. CASE j \in 1 .. k - m
            BY <2>3, <3>1, <5>1 DEF EndOf
          <5>2. CASE j \notin 1 .. k - m
            <6>1. j = k - m + 1 /\ m + j = k + 1
              BY <5>2
            <6>2. QED
              BY <3>1, <6>1
          <5>3. QED
            BY <5>1, <5>2
        <4>2. (k + 1) - m = k - m + 1
          OBVIOUS
        <4>3. QED
          BY <3>1, <4>1, <4>2 DEF EndOf
      <3>3. \A i \in 1 .. k + 1 : (s[i].day >= c) = (i > m)
        BY <2>3, <2>5
      <3>4. QED
        BY <3>2, <3>3
    <2>6. CASE ~ (s[k + 1].day >= c)
      <3>1. \A i \in 1 .. k : ~ (s[i].day >= c)
        <4>1. ASSUME NEW i \in 1 .. k
              PROVE  ~ (s[i].day >= c)
          <5>1. i \in 1 .. n /\ i < k + 1
            BY <2>1
          <5>2. s[i].day <= s[k + 1].day /\ s[i].day \in Nat /\ s[k + 1].day \in Nat
            BY <1>3, <2>2, <5>1
          <5>3. QED
            BY <2>6, <5>2
        <4>2. QED
          BY <4>1
      <3>2. m = k
        <4>1. CASE m < k
          <5>1. k \in 1 .. k /\ k > m
            BY <4>1
          <5>2. QED
            BY <2>3, <3>1, <5>1
        <4>2. QED
          BY <4>1
      <3>3. EndOf(f[k + 1], s, k + 1, k + 1)
        BY <2>3, <2>4, <2>6, <3>2 DEF EndOf
      <3>4. \A i \in 1 .. k + 1 : (s[i].day >= c) = (i > k + 1)
        BY <2>6, <3>1
      <3>5. QED
        BY <3>3, <3>4
    <2>7. QED
      BY <2>5, <2>6
  <1>6. n \in P
    <2> HIDE DEF P
    <2>1. QED
      BY <1>4, <1>5, Induction
  <1>7. QED
    BY <1>2, <1>6

-----------------------------------------------------------------------------
(* The ring                                                                 *)

\* No trace is of a later day than a later one, of a life to come, or has a
\* number that has not been given.
Dated(K, l, n, d) ==
    /\ K \subseteq Trace
    /\ \A t \in K : t.life <= l /\ t.day <= d /\ (t.life = l => t.id <= n)
    /\ Told(K)
    /\ \A t, u \in K : Earlier(t, u) => t.day <= u.day

\* In order, and the traces of life l up to the number n without a gap.
Run(s, l, n) ==
    /\ s \in Seq(Trace) /\ Climbs(s)
    /\ \A i \in 1 .. Len(s) :
          /\ s[i].id <= n
          /\ s[i].life = l => s[i].id + (Len(s) - i) = n

LEMMA EndRuns ==
    ASSUME NEW l \in Nat, NEW n \in Nat, NEW s, NEW t, Run(t, l, n),
           NEW k \in Nat, k = Len(t), NEW m \in 0 .. k, EndOf(s, t, k, m)
    PROVE  Run(s, l, n) /\ ToSet(s) \subseteq ToSet(t)
  <1>1. /\ t \in Seq(Trace) /\ s \in Seq(Trace) /\ Len(s) = k - m
        /\ \A j \in 1 .. k - m : s[j] = t[m + j] /\ m + j \in 1 .. k
    BY DEF Run, EndOf
  <1>2. Climbs(s)
    <2>1. \A i, j \in 1 .. k : i < j => Earlier(t[i], t[j])
      BY DEF Run, Climbs
    <2>2. ASSUME NEW i \in 1 .. k - m, NEW j \in 1 .. k - m, i < j
          PROVE  Earlier(s[i], s[j])
      <3>1. m + i < m + j
        BY <2>2
      <3>2. QED
        BY <1>1, <2>1, <3>1
    <2>3. QED
      BY <1>1, <2>2 DEF Climbs
  <1>3. ASSUME NEW i \in 1 .. k - m
        PROVE  /\ s[i].id <= n
               /\ s[i].life = l => s[i].id + (k - m - i) = n
    <2>1. /\ t[m + i].id <= n
          /\ t[m + i].life = l => t[m + i].id + (k - (m + i)) = n
      BY <1>1 DEF Run
    <2>2. k - (m + i) = k - m - i
      OBVIOUS
    <2>3. QED
      BY <1>1, <2>1, <2>2
  <1>4. ToSet(s) \subseteq ToSet(t)
    <2>1. ToSet(s) = {s[i] : i \in 1 .. k - m} /\ ToSet(t) = {t[i] : i \in 1 .. k}
      BY <1>1, SetOfSeq
    <2>2. QED
      BY <1>1, <2>1
  <1>5. QED
    BY <1>1, <1>2, <1>3, <1>4 DEF Run

\* The ring stays in order when it is pruned,
LEMMA PruneRuns ==
    ASSUME NEW l \in Nat, NEW n \in Nat, NEW s, Run(s, l, n), day \in Days,
           NEW K, ToSet(s) \subseteq K, Dated(K, l, n, day), NEW keep \in Retentions
    PROVE  Run(Prune(s, keep), l, n) /\ ToSet(Prune(s, keep)) \subseteq ToSet(s)
  <1>1. s \in Seq(Trace)
    BY DEF Run
  <1>2. PICK k \in Nat : k = Len(s)
    BY <1>1
  <1>3. ASSUME NEW i \in 1 .. k, NEW j \in 1 .. k, i < j
        PROVE  s[i].day <= s[j].day
    <2>1. s[i] \in K /\ s[j] \in K
      BY <1>1, <1>2, SetOfSeq
    <2>2. Earlier(s[i], s[j])
      BY <1>2, <1>3 DEF Run, Climbs
    <2>3. QED
      BY <2>1, <2>2 DEF Dated
  <1>4. PICK m \in 0 .. k : EndOf(Prune(s, keep), s, k, m)
    BY <1>1, <1>2, <1>3, PruneTakesFirst
  <1>5. QED
    BY <1>2, <1>4, EndRuns

\* and when the next trace is put at its end.
LEMMA PushRuns ==
    ASSUME NEW l \in Nat, NEW n \in Nat, NEW s, Run(s, l, n), capacity \in Nat \ {0},
           NEW K, ToSet(s) \subseteq K, NEW d, Dated(K, l, n, d),
           NEW t \in Trace, t.life = l, t.id = n + 1
    PROVE  /\ Run(Push(s, t), l, n + 1)
           /\ ToSet(Push(s, t)) \subseteq ToSet(s) \cup {t}
  <1>1. ASSUME NEW u, Run(u, l, n), ToSet(u) \subseteq ToSet(s)
        PROVE  /\ Run(Append(u, t), l, n + 1)
               /\ ToSet(Append(u, t)) \subseteq ToSet(s) \cup {t}
    <2>1. u \in Seq(Trace)
      BY <1>1 DEF Run
    <2>2. PICK k \in Nat : k = Len(u)
      BY <2>1
    <2>3. /\ Append(u, t) \in Seq(Trace) /\ Len(Append(u, t)) = k + 1
          /\ \A i \in 1 .. k : Append(u, t)[i] = u[i]
          /\ Append(u, t)[k + 1] = t
      BY <2>1, <2>2, AppendProperties
    <2>4. ASSUME NEW i \in 1 .. k
          PROVE  /\ u[i] \in Trace /\ u[i].life \in Nat /\ u[i].id \in Nat
                 /\ u[i].life <= l /\ u[i].id <= n
                 /\ u[i].life = l => u[i].id + (k - i) = n
      <3>1. u[i] \in K
        BY <1>1, <2>1, <2>2, SetOfSeq
      <3>2. u[i] \in Trace
        BY <2>1, <2>2
      <3>3. u[i].life \in Nat /\ u[i].id \in Nat
        BY <3>2, TraceFields
      <3>4. /\ u[i].life <= l
            /\ u[i].id <= n /\ (u[i].life = l => u[i].id + (k - i) = n)
        BY <1>1, <2>2, <3>1 DEF Dated, Run
      <3>5. QED
        BY <3>2, <3>3, <3>4
    <2>5. Climbs(Append(u, t))
      <3>1. ASSUME NEW i \in 1 .. k
            PROVE  Earlier(u[i], t)
        <4>1. u[i].life < l \/ (u[i].life = l /\ u[i].id < n + 1)
          BY <2>4
        <4>2. QED
          BY <4>1 DEF Earlier
      <3>2. \A i, j \in 1 .. k : i < j => Earlier(u[i], u[j])
        BY <1>1, <2>2 DEF Run, Climbs
      <3>3. ASSUME NEW i \in 1 .. k + 1, NEW j \in 1 .. k + 1, i < j
            PROVE  Earlier(Append(u, t)[i], Append(u, t)[j])
        <4>1. i \in 1 .. k
          BY <3>3
        <4>2. CASE j \in 1 .. k
          BY <2>3, <3>2, <3>3, <4>1, <4>2
        <4>3. CASE j = k + 1
          BY <2>3, <3>1, <4>1, <4>3
        <4>4. j \in 1 .. k \/ j = k + 1
          OBVIOUS
        <4>5. QED
          BY <4>2, <4>3, <4>4, Zenon
      <3>4. QED
        BY <2>3, <3>3 DEF Climbs
    <2>6. ASSUME NEW i \in 1 .. k + 1
          PROVE  /\ Append(u, t)[i].id <= n + 1
                 /\ Append(u, t)[i].life = l =>
                        Append(u, t)[i].id + (k + 1 - i) = n + 1
      <3>1. CASE i \in 1 .. k
        <4>1. u[i].id + (k - i) = n => u[i].id + (k + 1 - i) = n + 1
          BY <2>4, <3>1
        <4>2. u[i].id <= n + 1
          BY <2>4, <3>1
        <4>3. QED
          BY <2>3, <2>4, <3>1, <4>1, <4>2
      <3>2. CASE i = k + 1
        <4>1. Append(u, t)[i] = t /\ k + 1 - i = 0
          BY <2>3, <3>2
        <4>2. QED
          BY <4>1, SMTT(30)
      <3>3. i \in 1 .. k \/ i = k + 1
        OBVIOUS
      <3>4. QED
        BY <3>1, <3>2, <3>3, Zenon
    <2>7. ToSet(Append(u, t)) = ToSet(u) \cup {t}
      BY <2>1, SetOfAppend
    <2>8. QED
      BY <1>1, <2>3, <2>5, <2>6, <2>7 DEF Run
  <1>2. CASE Len(s) < capacity
    BY <1>1, <1>2 DEF Push
  <1>3. CASE ~ (Len(s) < capacity)
    <2>1. s \in Seq(Trace)
      BY DEF Run
    <2>2. PICK k \in Nat : k = Len(s)
      BY <2>1
    <2>3. k # 0 /\ s # <<>>
      <3>1. Len(<<>>) = 0
        OBVIOUS
      <3>2. QED
        BY <1>3, <2>2, <3>1
    <2>4. EndOf(Tail(s), s, k, 1)
      <3>1. /\ Tail(s) \in Seq(Trace) /\ Len(Tail(s)) = k - 1
            /\ \A i \in 1 .. k - 1 : Tail(s)[i] = s[i + 1]
        BY <2>1, <2>2, <2>3, HeadTailProperties
      <3>2. QED
        BY <3>1 DEF EndOf
    <2>5. Run(Tail(s), l, n) /\ ToSet(Tail(s)) \subseteq ToSet(s)
      <3>1. 1 \in 0 .. k
        BY <2>3
      <3>2. QED
        BY <2>2, <2>4, <3>1, EndRuns
    <2>6. Push(s, t) = Append(Tail(s), t)
      BY <1>3 DEF Push
    <2>7. QED
      BY <1>1, <2>5, <2>6
  <1>4. QED
    BY <1>2, <1>3

Hands == {item[r] : r \in {q \in Recorders : InHand(q)}}

UnderWay == Hands \cup ToSet(queue) \cup ToSet(buf)

Known == Saved(files) \cup UnderWay \cup ToSet(ring)

\* A trace has one line in the files, or is still under way.
Once ==
    /\ Distinct(buf)
    /\ \A d \in Days : Distinct(files[d])
    /\ Saved(files) \cap UnderWay = {}

RingInv ==
    /\ StoreInv
    /\ Dated(Known, life, nextID, day)
    /\ Once
    /\ Run(ring, life, nextID)

\* What a process adds to its ring has the next number.
Fresh ==
    life' = life => \A t \in ToSet(ring') \ ToSet(ring) : t.id = nextID + 1

LEMMA DayNat == \A d \in Days : d \in Nat
  BY SizesAssumption DEF Days

LEMMA DatedFewer ==
    ASSUME NEW K, NEW l, NEW n, NEW d \in Nat, Dated(K, l, n, d),
           NEW J, J \subseteq K, NEW e \in Nat, d <= e
    PROVE  Dated(J, l, n, e)
  <1>1. ASSUME NEW t \in J
        PROVE  t.life <= l /\ t.day <= e /\ (t.life = l => t.id <= n)
    <2>1. t \in K /\ t \in Trace
      BY DEF Dated
    <2>2. t.day \in Nat
      BY <2>1, TraceFields, DayNat
    <2>3. t.life <= l /\ t.day <= d /\ (t.life = l => t.id <= n)
      BY <2>1 DEF Dated
    <2>4. QED
      BY <2>2, <2>3
  <1>2. QED
    BY <1>1 DEF Dated, Told

LEMMA DatedNext ==
    ASSUME NEW K, NEW l \in Nat, NEW n \in Nat, NEW d \in Nat, Dated(K, l, n, d),
           NEW t \in Trace, t.life = l, t.id = n + 1, t.day = d,
           NEW J, J \subseteq K \cup {t}
    PROVE  Dated(J, l, n + 1, d) /\ t \notin K
  <1>1. \A u \in K : /\ u \in Trace /\ u.life \in Nat /\ u.id \in Nat
                     /\ u.life <= l /\ u.day <= d /\ (u.life = l => u.id <= n)
    <2>1. \A u \in K : u \in Trace
      BY DEF Dated
    <2>2. QED
      BY <2>1, TraceFields DEF Dated
  <1>2. \A u \in K : ~ (u.life = t.life /\ u.id = t.id)
    BY <1>1
  <1>3. \A u \in K : ~ Earlier(t, u)
    <2>1. ASSUME NEW u \in K
          PROVE  ~ (l < u.life \/ (l = u.life /\ n + 1 < u.id))
      BY <1>1
    <2>2. QED
      BY <2>1 DEF Earlier
  <1>4. ~ Earlier(t, t)
    BY DEF Earlier
  <1>5. \A u \in J : u \in K \/ u = t
    OBVIOUS
  <1>6. ASSUME NEW u \in J
        PROVE  /\ u \in Trace /\ u.life <= l /\ u.day <= d
               /\ u.life = l => u.id <= n + 1
    <2>1. CASE u \in K
      <3>1. u.id <= n => u.id <= n + 1
        BY <1>1, <2>1
      <3>2. QED
        BY <1>1, <2>1, <3>1
    <2>2. CASE u = t
      BY <2>2
    <2>3. QED
      BY <1>5, <2>1, <2>2
  <1>7. Told(J)
    BY <1>2, <1>5 DEF Told, Dated
  <1>8. \A u, v \in J : Earlier(u, v) => u.day <= v.day
    BY <1>1, <1>3, <1>4, <1>5 DEF Dated
  <1>9. t \notin K
    BY <1>2
  <1>10. QED
    BY <1>6, <1>7, <1>8, <1>9 DEF Dated

\* To a new process all traces are of former lives.
LEMMA DatedLater ==
    ASSUME NEW K, NEW l \in Nat, NEW n, NEW d, Dated(K, l, n, d),
           NEW J, J \subseteq K, NEW m
    PROVE  Dated(J, l + 1, m, d) /\ \A t \in J : t.life # l + 1
  <1>1. ASSUME NEW t \in J
        PROVE  t \in Trace /\ t.life <= l + 1 /\ t.day <= d /\ t.life # l + 1
    <2>1. t \in K /\ t \in Trace /\ t.life <= l /\ t.day <= d
      BY DEF Dated
    <2>2. t.life \in Nat
      BY <2>1, TraceFields
    <2>3. QED
      BY <2>1, <2>2
  <1>2. QED
    BY <1>1 DEF Dated, Told

\* A flush writes no line twice.
LEMMA FlushOnce ==
    ASSUME StoreInv, Once, NEW lines \in Seq(Trace), Distinct(lines),
           ToSet(lines) \subseteq ToSet(buf)
    PROVE  /\ \A d \in Days : Distinct(Flushed(lines)[d])
           /\ Saved(Flushed(lines)) \subseteq Saved(files) \cup ToSet(lines)
  <1>1. Saved(Flushed(lines)) \subseteq Saved(files) \cup ToSet(lines)
    <2>1. /\ Filed(files) /\ Torn /\ Opened
          /\ \A t \in ToSet(lines) : t.day = cur
      BY DEF StoreInv, StoreTypes, Opened
    <2>2. QED
      BY <2>1, FlushSaves
  <1> DEFINE out == Readable(lines)
  <1>2. out \in Seq(Trace) /\ ToSet(out) \subseteq ToSet(lines)
    BY ReadableLines
  <1>3. Distinct(out)
    <2>1. CASE glued /\ lines # <<>>
      <3>1. out = Tail(lines)
        BY <2>1 DEF Readable
      <3>2. QED
        BY <2>1, <3>1, DistinctTail
    <2>2. CASE ~ (glued /\ lines # <<>>)
      BY <2>2 DEF Readable
    <2>3. QED
      BY <2>1, <2>2
  <1> HIDE DEF out
  <1>4. CASE linked
    <2>1. cur \in Days
      BY <1>4 DEF StoreInv, Opened
    <2>2. Flushed(lines) = [files EXCEPT ![cur] = files[cur] \o out]
      BY <1>4 DEF Flushed, out
    <2>3. files \in [Days -> Seq(Trace)]
      BY DEF StoreInv, StoreTypes, Filed
    <2>4. ToSet(files[cur]) \cap ToSet(out) = {}
      <3>1. ToSet(files[cur]) \subseteq Saved(files)
        BY <2>1 DEF Saved
      <3>2. QED
        BY <1>2, <3>1 DEF Once, UnderWay
    <2>5. Distinct(files[cur] \o out)
      BY <1>2, <1>3, <2>1, <2>3, <2>4, DistinctConcat DEF Once
    <2>6. /\ Flushed(lines)[cur] = files[cur] \o out
          /\ \A d \in Days : d # cur => Flushed(lines)[d] = files[d]
      BY <2>1, <2>2, <2>3
    <2>7. \A d \in Days : Distinct(Flushed(lines)[d])
      BY <2>5, <2>6 DEF Once
    <2>8. QED
      BY <1>1, <2>7
  <1>5. CASE ~linked
    BY <1>1, <1>5 DEF Flushed, Once
  <1>6. QED
    BY <1>4, <1>5

\* The writer takes traces from the queue to the buffer and from there to the
\* files, and removes files.
LEMMA WriterRing ==
    ASSUME RingInv, StoreInv', UNCHANGED <<pc, item, ring, life, nextID, day>>,
           NEW lines \in Seq(Trace), Distinct(lines),
           ToSet(lines) \subseteq ToSet(buf), ToSet(lines) \cap ToSet(buf') = {},
           NEW fs, fs = files \/ fs = Flushed(lines),
           \A d \in Days : files'[d] = <<>> \/ files'[d] = fs[d],
           Distinct(buf'),
           \/ queue' = queue /\ ToSet(buf') \subseteq ToSet(buf)
           \/ /\ queue # <<>> /\ queue' = Tail(queue)
              /\ ToSet(buf') \subseteq ToSet(buf) \cup {Head(queue)}
    PROVE  RingInv' /\ Fresh
  <1>1. StoreInv /\ Once /\ StoreTypes /\ OnePlace
    BY DEF RingInv, StoreInv
  <1>2. /\ \A d \in Days : Distinct(fs[d])
        /\ Saved(fs) \subseteq Saved(files) \cup ToSet(lines)
    <2>1. CASE fs = files
      BY <1>1, <2>1 DEF Once
    <2>2. CASE fs = Flushed(lines)
      BY <1>1, <2>2, FlushOnce
    <2>3. QED
      BY <2>1, <2>2
  <1>3. \A d \in Days : Distinct(files'[d])
    BY <1>2, DistinctFew
  <1>4. Saved(files') \subseteq Saved(files) \cup ToSet(lines)
    <2>1. \A d \in Days : ToSet(files'[d]) \subseteq ToSet(fs[d])
      BY SetOfNone
    <2>2. Saved(files') \subseteq Saved(fs)
      BY <2>1 DEF Saved
    <2>3. QED
      BY <1>2, <2>2
  <1>5. /\ ToSet(queue') \subseteq ToSet(queue)
        /\ ToSet(buf') \subseteq ToSet(buf) \cup ToSet(queue)
    BY <1>1, HeadOfQueue
  <1>6. Hands' = Hands
    BY DEF Hands, InHand
  <1>7. ToSet(buf) \cap (ToSet(queue) \cup Hands) = {}
    BY <1>1 DEF OnePlace, Hands
  <1>8. Once'
    <2>1. UnderWay' \subseteq UnderWay /\ ToSet(lines) \cap UnderWay' = {}
      BY <1>5, <1>6, <1>7 DEF UnderWay
    <2>2. Saved(files) \cap UnderWay = {}
      BY <1>1 DEF Once
    <2>3. Saved(files') \cap UnderWay' = {}
      BY <1>4, <2>1, <2>2
    <2>4. QED
      BY <1>3, <2>3 DEF Once, UnderWay, Saved
  <1>9. Dated(Known, life, nextID, day)'
    <2>1. Known' \subseteq Known
      BY <1>4, <1>5, <1>6 DEF Known, UnderWay
    <2>2. day \in Nat
      BY <1>1, DayNat DEF StoreTypes
    <2>3. Dated(Known, life, nextID, day)
      BY DEF RingInv
    <2>4. Dated(Known', life, nextID, day)
      BY <2>1, <2>2, <2>3, DatedFewer
    <2>5. QED
      BY <2>4
  <1>10. Run(ring, life, nextID)' /\ Fresh
    BY DEF RingInv, Fresh
  <1>11. QED
    BY <1>8, <1>9, <1>10 DEF RingInv

\* The steps that leave the files and the buffer alone.
LEMMA KeepersRing ==
    ASSUME RingInv, StoreInv', UNCHANGED <<files, buf, life, nextID>>,
           UnderWay' \subseteq UnderWay, day <= day',
           ToSet(ring') \subseteq ToSet(ring), Run(ring', life, nextID)
    PROVE  RingInv' /\ Fresh
  <1>1. Once'
    <2>1. Saved(files)' = Saved(files)
      BY DEF Saved
    <2>2. QED
      BY <2>1 DEF RingInv, Once
  <1>2. Dated(Known, life, nextID, day)'
    <2>1. Known' \subseteq Known
      BY DEF Known, Saved
    <2>2. day \in Nat /\ day' \in Nat
      BY DayNat DEF RingInv, StoreInv, StoreTypes, Days
    <2>3. Dated(Known, life, nextID, day)
      BY DEF RingInv
    <2>4. Dated(Known', life, nextID, day')
      BY <2>1, <2>2, <2>3, DatedFewer
    <2>5. QED
      BY <2>4
  <1>3. Run(ring, life, nextID)'
    OBVIOUS
  <1>4. Fresh
    BY DEF Fresh
  <1>5. QED
    BY <1>1, <1>2, <1>3, <1>4 DEF RingInv

-----------------------------------------------------------------------------
(* The steps                                                                *)

LEMMA NoLines ==
    <<>> \in Seq(Trace) /\ Distinct(<<>>) /\ ToSet(<<>>) = {}
  BY DistinctFew, SetOfNone

LEMMA RemovedFiles ==
    ASSUME NEW fs, NEW ts, NEW keep, NEW d, RemoveFiles(fs, ts, keep, d)
    PROVE  \A e \in Days : files'[e] = <<>> \/ files'[e] = fs[e]
  BY DEF RemoveFiles

LEMMA RotateRing ==
    ASSUME RingInv, Rotate
    PROVE  RingInv' /\ Fresh
  <1>1. StoreInv /\ StoreInv' /\ Distinct(buf) /\ buf \in Seq(Trace)
    BY RotateStep DEF RingInv, Once, StoreInv, StoreTypes
  <1>2. /\ buf' = <<>> /\ queue' = queue
        /\ RemoveFiles(Flushed(buf), Mended(buf), retention, Head(queue).day)
        /\ UNCHANGED <<pc, item, ring, life, nextID, day>>
    BY DEF Rotate, proc, store, users
  <1>3. \A d \in Days : files'[d] = <<>> \/ files'[d] = Flushed(buf)[d]
    BY <1>2, RemovedFiles
  <1>4. QED
    BY <1>1, <1>2, <1>3, NoLines, WriterRing

LEMMA RotateFailsRing ==
    ASSUME RingInv, RotateFails
    PROVE  RingInv' /\ Fresh
  <1>1. StoreInv /\ StoreInv' /\ Distinct(buf) /\ buf \in Seq(Trace)
    BY RotateFailsStep DEF RingInv, Once, StoreInv, StoreTypes
  <1>2. /\ buf' = <<>> /\ queue # <<>> /\ queue' = Tail(queue)
        /\ files' = Flushed(buf)
        /\ UNCHANGED <<pc, item, ring, life, nextID, day>>
    BY DEF RotateFails, Working, proc, store, users
  <1>3. QED
    BY <1>1, <1>2, NoLines, WriterRing

LEMMA WriteRing ==
    ASSUME RingInv, Write
    PROVE  RingInv' /\ Fresh
  <1>1. /\ StoreInv /\ StoreInv' /\ Distinct(buf) /\ buf \in Seq(Trace)
        /\ StoreTypes /\ OnePlace
    BY WriteStep DEF RingInv, Once, StoreInv, StoreTypes
  <1>2. /\ queue # <<>> /\ queue' = Tail(queue) /\ files' = files
        /\ buf' = IF broken THEN buf ELSE Append(buf, Head(queue))
        /\ UNCHANGED <<pc, item, ring, life, nextID, day>>
    BY DEF Write, Working, proc, store, users, disk
  <1>3. /\ Distinct(buf')
        /\ ToSet(buf') \subseteq ToSet(buf) \cup {Head(queue)}
    <2>1. Head(queue) \in Trace /\ Head(queue) \in ToSet(queue)
      BY <1>1, <1>2, HeadOfQueue
    <2>2. Head(queue) \notin ToSet(buf)
      BY <1>1, <2>1 DEF OnePlace
    <2>3. QED
      BY <1>1, <1>2, <2>1, <2>2, DistinctAppend, SetOfAppend
  <1> DEFINE none == <<>>
  <1>4. none \in Seq(Trace) /\ Distinct(none) /\ ToSet(none) = {}
    BY NoLines
  <1> HIDE DEF none
  <1>5. QED
    BY <1>1, <1>2, <1>3, <1>4, WriterRing

LEMMA WriteSplitRing ==
    ASSUME RingInv, WriteSplit
    PROVE  RingInv' /\ Fresh
  <1>1. /\ StoreInv /\ StoreInv' /\ Distinct(buf) /\ buf \in Seq(Trace)
        /\ StoreTypes /\ OnePlace
    BY WriteSplitStep DEF RingInv, Once, StoreInv, StoreTypes
  <1>2. /\ queue # <<>> /\ queue' = Tail(queue) /\ files' = Flushed(buf)
        /\ buf' = <<Head(queue)>>
        /\ UNCHANGED <<pc, item, ring, life, nextID, day>>
    BY DEF WriteSplit, Working, proc, store, users
  <1>3. /\ Distinct(buf') /\ ToSet(buf') = {Head(queue)}
        /\ ToSet(buf) \cap ToSet(buf') = {}
    <2>1. Head(queue) \in ToSet(queue)
      BY <1>1, <1>2, HeadOfQueue
    <2>2. Head(queue) \notin ToSet(buf)
      BY <1>1, <2>1 DEF OnePlace
    <2>3. QED
      BY <1>2, <2>2, DistinctFew, SetOfOne
  <1>4. QED
    BY <1>1, <1>2, <1>3, WriterRing

LEMMA FlushRing ==
    ASSUME RingInv, Flush \/ EndWriter
    PROVE  RingInv' /\ Fresh
  <1>1. StoreInv /\ StoreInv' /\ Distinct(buf) /\ buf \in Seq(Trace)
    BY FlushStep, EndWriterStep DEF RingInv, Once, StoreInv, StoreTypes
  <1>2. /\ buf' = <<>> /\ queue' = queue /\ files' = Flushed(buf)
        /\ UNCHANGED <<pc, item, ring, life, nextID, day>>
    BY DEF Flush, EndWriter, proc, store, users
  <1>3. QED
    BY <1>1, <1>2, NoLines, WriterRing

LEMMA FlushFailsRing ==
    ASSUME RingInv, FlushFails
    PROVE  RingInv' /\ Fresh
  <1>1. StoreInv /\ StoreInv' /\ Distinct(buf) /\ buf \in Seq(Trace)
    BY FlushFailsStep DEF RingInv, Once, StoreInv, StoreTypes
  <1>2. PICK k \in 0 .. Len(buf) - 1 : files' = Flushed(SubSeq(buf, 1, k))
    BY Zenon DEF FlushFails
  <1>3. /\ buf' = <<>> /\ queue' = queue
        /\ UNCHANGED <<pc, item, ring, life, nextID, day>>
    BY DEF FlushFails, proc, store, users
  <1> DEFINE out == SubSeq(buf, 1, k)
  <1>4. out \in Seq(Trace) /\ ToSet(out) \subseteq ToSet(buf) /\ Distinct(out)
    <2>1. k \in 0 .. Len(buf) /\ 1 \in Nat \ {0} /\ 1 <= k + 1
      <3>1. PICK n \in Nat : n = Len(buf)
        BY <1>1
      <3>2. QED
        BY <3>1
    <2>2. QED
      BY <1>1, <2>1, PartOf
  <1> HIDE DEF out
  <1>5. files' = Flushed(out)
    BY <1>2 DEF out
  <1>6. QED
    BY <1>1, <1>3, <1>4, <1>5, NoLines, WriterRing

LEMMA UpdateRetentionRing ==
    ASSUME RingInv, NEW u \in Updaters, UpdateRetention(u)
    PROVE  RingInv' /\ Fresh
  <1>1. StoreInv /\ StoreInv' /\ Distinct(buf)
    BY UpdateRetentionStep DEF RingInv, Once
  <1>2. /\ buf' = buf /\ queue' = queue
        /\ RemoveFiles(files, torn, wanted[u], day)
        /\ UNCHANGED <<pc, item, ring, life, nextID, day>>
    BY DEF UpdateRetention, proc, store, users
  <1>3. \A d \in Days : files'[d] = <<>> \/ files'[d] = files[d]
    BY <1>2, RemovedFiles
  <1> DEFINE none == <<>>
  <1>4. none \in Seq(Trace) /\ Distinct(none) /\ ToSet(none) = {}
    BY NoLines
  <1> HIDE DEF none
  <1>5. QED
    BY <1>1, <1>2, <1>3, <1>4, WriterRing

\* A record gives the next number.
LEMMA RecordRing ==
    ASSUME RingInv, NEW r \in Recorders, Record(r)
    PROVE  RingInv' /\ Fresh
  <1>1. StoreInv /\ StoreInv' /\ StoreTypes /\ Once
    BY RecordStep DEF RingInv, StoreInv
  <1>2. /\ pc[r] = "idle" /\ nextID < MaxID /\ nextID' = nextID + 1
        /\ UNCHANGED <<day, life, queue, buf, files>>
    BY DEF Record, proc, writer, disk
  <1>3. /\ day \in Days /\ day \in Nat /\ nextID \in Nat
        /\ life \in 1 .. MaxLife /\ life \in Nat
    BY <1>1, DayNat, SizesAssumption DEF StoreTypes
  <1>4. PICK t \in Trace : t = [life |-> life, id |-> nextID + 1, day |-> day]
    <2>1. nextID + 1 \in 1 .. MaxID
      BY <1>2, <1>3, SizesAssumption
    <2>2. [life |-> life, id |-> nextID + 1, day |-> day] \in Trace
      BY <1>3, <2>1 DEF Trace
    <2>3. QED
      BY <2>2, Zenon
  <1>5. t.life = life /\ t.id = nextID + 1 /\ t.day = day
    BY <1>4
  <1>6. /\ ring' = Push(Prune(ring, config.keep), t)
        /\ \/ pc' = [pc EXCEPT ![r] = "enqueue"] /\ item' = [item EXCEPT ![r] = t]
           \/ pc' = pc /\ item' = item
    BY <1>4, Zenon DEF Record, users
  <1>7. Dated(Known, life, nextID, day) /\ Run(ring, life, nextID)
    BY DEF RingInv
  <1> DEFINE left == Prune(ring, config.keep)
  <1>8. Run(left, life, nextID) /\ ToSet(left) \subseteq ToSet(ring)
    <2>1. ToSet(ring) \subseteq Known /\ config.keep \in Retentions
      BY <1>1 DEF Known, StoreTypes
    <2>2. QED
      BY <1>3, <1>7, <2>1, PruneRuns
  <1> HIDE DEF left
  <1>9. /\ Run(ring', life, nextID + 1)
        /\ ToSet(ring') \subseteq ToSet(ring) \cup {t}
    <2>1. ToSet(left) \subseteq Known /\ capacity \in Nat \ {0}
      BY <1>1, <1>8 DEF Known, StoreTypes
    <2>2. ring' = Push(left, t)
      BY <1>6 DEF left
    <2>3. QED
      BY <1>3, <1>5, <1>7, <1>8, <2>1, <2>2, PushRuns
  <1>10. Hands' \subseteq Hands \cup {t}
    <2>1. CASE pc' = pc /\ item' = item
      BY <2>1 DEF Hands, InHand
    <2>2. CASE pc' = [pc EXCEPT ![r] = "enqueue"] /\ item' = [item EXCEPT ![r] = t]
      <3>1. /\ \A s \in Recorders : s # r => pc'[s] = pc[s] /\ item'[s] = item[s]
            /\ item'[r] = t
        BY <1>1, <2>2 DEF StoreTypes
      <3>2. QED
        BY <3>1 DEF Hands, InHand
    <2>3. QED
      BY <1>6, <2>1, <2>2
  <1>11. UnderWay' \subseteq UnderWay \cup {t}
    BY <1>2, <1>10 DEF UnderWay
  <1>12. Known' \subseteq Known \cup {t}
    BY <1>2, <1>9, <1>11 DEF Known, Saved
  <1>13. Dated(Known', life, nextID + 1, day) /\ t \notin Known
    BY <1>3, <1>5, <1>7, <1>12, DatedNext, ZenonT(60)
  <1>14. Once'
    <2>1. Saved(files)' = Saved(files)
      BY <1>2 DEF Saved
    <2>2. t \notin Saved(files)
      BY <1>13 DEF Known
    <2>3. Saved(files)' \cap UnderWay' = {}
      BY <1>1, <1>11, <2>1, <2>2 DEF Once
    <2>4. QED
      BY <1>1, <1>2, <2>3 DEF Once
  <1>15. Fresh
    BY <1>5, <1>9 DEF Fresh
  <1>16. QED
    BY <1>1, <1>2, <1>9, <1>13, <1>14, <1>15 DEF RingInv

LEMMA HandRing ==
    ASSUME QueueInv, RingInv, NEW r \in Recorders, Enqueue(r) \/ Send(r)
    PROVE  RingInv' /\ Fresh
  <1>1. StoreInv /\ StoreInv' /\ StoreTypes
    BY EnqueueStep, SendStep DEF RingInv, StoreInv
  <1>2. UNCHANGED <<files, buf, ring, life, nextID, day>>
    BY DEF Enqueue, Send, proc, store, writer, disk
  <1>3. UnderWay' \subseteq UnderWay
    <2>1. CASE pc' = [pc EXCEPT ![r] = "send"] /\ item' = item /\ queue' = queue
      <3>1. pc[r] # "idle"
        BY DEF Enqueue, Send
      <3>2. \A s \in Recorders : s # r => pc'[s] = pc[s]
        BY <1>1, <2>1 DEF StoreTypes
      <3>3. Hands' = Hands
        BY <2>1, <3>1, <3>2 DEF Hands, InHand
      <3>4. QED
        BY <1>2, <2>1, <3>3 DEF UnderWay
    <2>2. CASE Done(r)
      <3>1. /\ \A s \in Recorders : s # r => pc'[s] = pc[s] /\ item'[s] = item[s]
            /\ pc'[r] = "idle"
        BY <1>1, <2>2, HandEmpty
      <3>2. Hands' \subseteq Hands
        BY <3>1 DEF Hands, InHand
      <3>3. ToSet(queue') \subseteq ToSet(queue) \cup Hands
        <4>1. CASE queue' = queue
          BY <4>1
        <4>2. CASE queue' = Append(queue, item[r]) /\ pc[r] = "send"
          <5>1. item[r] \in Trace /\ item[r] \in Hands /\ queue \in Seq(Trace)
            BY <1>1, <4>2 DEF StoreTypes, Hands, InHand
          <5>2. ToSet(queue') = ToSet(queue) \cup {item[r]}
            BY <4>2, <5>1, SetOfAppend
          <5>3. QED
            BY <5>1, <5>2
        <4>3. QED
          BY <4>1, <4>2 DEF Enqueue, Send
      <3>4. QED
        BY <1>2, <3>2, <3>3 DEF UnderWay
    <2>3. QED
      BY <2>1, <2>2 DEF Enqueue, Send
  <1>4. day <= day'
    BY <1>1, <1>2, DayNat DEF StoreTypes
  <1>5. Run(ring', life, nextID)
    BY <1>2 DEF RingInv
  <1>6. QED
    BY <1>1, <1>2, <1>3, <1>4, <1>5, KeepersRing

\* Whoever looks at the ring, or changes the settings, takes out what expired.
LEMMA PruningRing ==
    ASSUME RingInv, Snapshot \/ \E u \in Updaters : UpdateConfig(u)
    PROVE  RingInv' /\ Fresh
  <1>1. StoreInv /\ StoreInv' /\ StoreTypes
    BY SettingsStep DEF RingInv, StoreInv
  <1>2. UNCHANGED <<files, buf, queue, pc, item, life, nextID, day>>
    BY DEF Snapshot, UpdateConfig, proc, users, writer, disk
  <1>3. PICK keep \in Retentions : ring' = Prune(ring, keep)
    <2>1. CASE Snapshot
      BY <1>1, <2>1 DEF Snapshot, StoreTypes
    <2>2. CASE \E u \in Updaters : UpdateConfig(u)
      <3>1. PICK c \in [on : BOOLEAN, keep : Retentions] : ring' = Prune(ring, c.keep)
        BY <2>2, Zenon DEF UpdateConfig
      <3>2. QED
        BY <3>1
    <2>3. QED
      BY <2>1, <2>2
  <1>4. Run(ring', life, nextID) /\ ToSet(ring') \subseteq ToSet(ring)
    <2>1. /\ ToSet(ring) \subseteq Known /\ Dated(Known, life, nextID, day)
          /\ Run(ring, life, nextID)
      BY DEF RingInv, Known
    <2>2. life \in Nat /\ nextID \in Nat /\ day \in Days
      BY <1>1, SizesAssumption DEF StoreTypes
    <2>3. QED
      BY <1>3, <2>1, <2>2, PruneRuns
  <1>5. UnderWay' = UnderWay
    BY <1>2 DEF UnderWay, Hands, InHand
  <1>6. day <= day'
    BY <1>1, <1>2, DayNat DEF StoreTypes
  <1>7. QED
    BY <1>1, <1>2, <1>4, <1>5, <1>6, KeepersRing

LEMMA OthersRing ==
    ASSUME QueueInv, RingInv,
           NextDay \/ BeginClose \/ CloseQueue \/ CloseReturns \/ UNCHANGED vars
    PROVE  RingInv' /\ Fresh
  <1>1. StoreInv /\ StoreInv' /\ StoreTypes
    BY SettingsStep, CloseReturnsStep DEF RingInv, StoreInv
  <1>2. UNCHANGED <<files, buf, queue, pc, item, ring, life, nextID>>
    BY DEF NextDay, BeginClose, CloseQueue, CloseReturns, vars, proc, store,
           users, writer, disk
  <1>3. day' = day \/ day' = day + 1
    BY DEF NextDay, BeginClose, CloseQueue, CloseReturns, vars
  <1>4. day <= day'
    BY <1>1, <1>3, DayNat DEF StoreTypes
  <1>5. UnderWay' = UnderWay
    BY <1>2 DEF UnderWay, Hands, InHand
  <1>6. Run(ring', life, nextID)
    BY <1>2 DEF RingInv
  <1>7. QED
    BY <1>1, <1>2, <1>4, <1>5, <1>6, KeepersRing

\* A new process has in its ring what it has loaded, all of former lives, and
\* counts on from the highest number among them.
LEMMA RestartRing ==
    ASSUME RingInv, Restart
    PROVE  RingInv' /\ Fresh
  <1>1. StoreInv /\ StoreInv' /\ StoreTypes /\ StoreTypes'
    BY RestartStep DEF RingInv, StoreInv
  <1>2. /\ life' = life + 1 /\ day' = day /\ capacity' = capacity
        /\ pc' = [r \in Recorders |-> "idle"] /\ queue' = <<>> /\ buf' = <<>>
    BY DEF Restart
  <1>3. life \in Nat /\ capacity \in Nat \ {0}
    BY <1>1, SizesAssumption DEF StoreTypes
  <1>4. \A d \in Days : files'[d] = <<>> \/ files'[d] = files[d]
    <2>1. files' = files \/ RemoveFiles(files, torn, config.keep, day)
      BY DEF Restart
    <2>2. QED
      BY <2>1, RemovedFiles
  <1>5. \A d \in Days : Distinct(files'[d])
    BY <1>4, DistinctFew DEF RingInv, Once
  <1>6. Saved(files') \subseteq Known
    <2>1. \A d \in Days : ToSet(files'[d]) \subseteq ToSet(files[d])
      BY <1>4, SetOfNone
    <2>2. QED
      BY <2>1 DEF Known, Saved
  <1>7. UnderWay' = {}
    <2>1. \A r \in Recorders : pc'[r] = "idle"
      BY <1>2
    <2>2. QED
      BY <1>2, <2>1, SetOfNone DEF UnderWay, Hands, InHand
  <1>8. Dated(Known, life, nextID, day)
    BY DEF RingInv
  <1>9. /\ ring' \in Seq(Trace) /\ Climbs(ring')
        /\ ToSet(ring') \subseteq Saved(files')
        /\ \A t \in ToSet(ring') : t.id <= nextID'
    <2>1. CASE ring' = <<>>
      BY <2>1, NoLines DEF Climbs
    <2>2. CASE ring' = LoadRecent(files') /\ nextID' = HighestID(Recent(files'))
      <3>1. Filed(files')
        BY <1>1 DEF StoreTypes
      <3>2. Told(Saved(files'))
        BY <1>6, <1>8 DEF Dated, Told
      <3>3. /\ ring' \in Seq(Trace) /\ Climbs(ring')
            /\ ToSet(ring') \subseteq ToSet(Recent(files'))
        BY <1>3, <1>5, <2>2, <3>1, <3>2, LoadedInOrder
      <3>4. /\ Recent(files') \in Seq(Trace)
            /\ ToSet(Recent(files')) \subseteq Saved(files')
        BY <1>3, <1>5, <3>1, RecentDistinct
      <3>5. ASSUME NEW t \in ToSet(Recent(files'))
            PROVE  t.id <= nextID'
        <4>1. PICK i \in DOMAIN Recent(files') : t = Recent(files')[i]
          BY Zenon DEF ToSet
        <4>2. t.id \in IDs(Recent(files'))
          BY <4>1 DEF IDs
        <4>3. QED
          BY <2>2, <3>4, <4>2, HighestIsID
      <3>6. QED
        BY <3>3, <3>4, <3>5
    <2>3. QED
      BY <2>1, <2>2 DEF Restart
  <1>10. Known' \subseteq Known
    BY <1>6, <1>7, <1>9 DEF Known, Saved
  <1>11. /\ Dated(Known', life + 1, nextID', day)
         /\ \A t \in Known' : t.life # life + 1
    BY <1>3, <1>8, <1>10, DatedLater
  <1>12. Run(ring', life + 1, nextID')
    <2>1. \A i \in 1 .. Len(ring') : ring'[i] \in ToSet(ring')
      BY <1>9, SetOfSeq
    <2>2. ToSet(ring') \subseteq Known'
      BY DEF Known
    <2>3. QED
      BY <1>9, <1>11, <2>1, <2>2 DEF Run
  <1>13. Once'
    BY <1>2, <1>5, <1>7, DistinctFew DEF Once
  <1>14. Fresh
    BY <1>2, <1>3 DEF Fresh
  <1>15. QED
    BY <1>1, <1>2, <1>11, <1>12, <1>13, <1>14 DEF RingInv

LEMMA RingInit == Init => RingInv
  <1>1. SUFFICES ASSUME Init PROVE RingInv
    OBVIOUS
  <1>2. StoreInv
    BY <1>1, StoreInit
  <1>3. /\ ring = <<>> /\ queue = <<>> /\ buf = <<>>
        /\ pc = [r \in Recorders |-> "idle"] /\ files = [d \in Days |-> <<>>]
    BY <1>1, Zenon DEF Init
  <1>4. UnderWay = {}
    <2>1. \A r \in Recorders : pc[r] = "idle"
      BY <1>3
    <2>2. QED
      BY <1>3, <2>1, SetOfNone DEF UnderWay, Hands, InHand
  <1>5. \A d \in Days : files[d] = <<>>
    BY <1>3
  <1>6. Saved(files) = {} /\ Known = {}
    BY <1>3, <1>4, <1>5, SetOfNone DEF Saved, Known
  <1>7. Once
    BY <1>3, <1>4, <1>5, DistinctFew DEF Once
  <1>8. Dated(Known, life, nextID, day)
    BY <1>6 DEF Dated, Told
  <1>9. Run(ring, life, nextID)
    BY <1>3 DEF Run, Climbs
  <1>10. QED
    BY <1>2, <1>7, <1>8, <1>9 DEF RingInv

LEMMA RingNext ==
    ASSUME QueueInv, RingInv, [Next]_vars
    PROVE  RingInv' /\ Fresh
  <1>1. CASE \E r \in Recorders : Record(r) \/ Enqueue(r) \/ Send(r)
    BY <1>1, RecordRing, HandRing
  <1>2. CASE \E u \in Updaters : UpdateRetention(u)
    BY <1>2, UpdateRetentionRing
  <1>3. CASE Snapshot \/ \E u \in Updaters : UpdateConfig(u)
    BY <1>3, PruningRing
  <1>4. CASE Rotate \/ RotateFails \/ Write \/ WriteSplit
    BY <1>4, RotateRing, RotateFailsRing, WriteRing, WriteSplitRing
  <1>5. CASE Flush \/ FlushFails \/ EndWriter
    BY <1>5, FlushRing, FlushFailsRing
  <1>6. CASE NextDay \/ BeginClose \/ CloseQueue \/ CloseReturns \/ UNCHANGED vars
    BY <1>6, OthersRing
  <1>7. CASE Restart
    BY <1>7, RestartRing
  <1>8. QED
    BY <1>1, <1>2, <1>3, <1>4, <1>5, <1>6, <1>7 DEF Next

LEMMA RingOrdered ==
    ASSUME RingInv
    PROVE  RingInOrder
  <1>1. ring \in Seq(Trace) /\ life \in Nat /\ nextID \in Nat
    BY SizesAssumption DEF RingInv, Run, StoreInv, StoreTypes
  <1>2. PICK k \in Nat : k = Len(ring)
    BY <1>1
  <1>3. ASSUME NEW i \in 1 .. k - 1
        PROVE  /\ Earlier(ring[i], ring[i + 1])
               /\ ring[i].life = life => ring[i + 1].id = ring[i].id + 1
    <2>1. i \in 1 .. k /\ i + 1 \in 1 .. k /\ i < i + 1
      OBVIOUS
    <2>2. Earlier(ring[i], ring[i + 1])
      BY <1>2, <2>1 DEF RingInv, Run, Climbs
    <2>3. PICK t \in Trace, u \in Trace : t = ring[i] /\ u = ring[i + 1]
      BY <1>1, <1>2, <2>1
    <2>4. t.life \in Nat /\ t.id \in Nat /\ u.life \in Nat /\ u.id \in Nat
      BY TraceFields
    <2>5. u.life <= life
      <3>1. u \in ToSet(ring)
        BY <1>1, <1>2, <2>1, <2>3, SetOfSeq
      <3>2. QED
        BY <3>1 DEF RingInv, Dated, Known
    <2>6. /\ t.life = life => t.id + (k - i) = nextID
          /\ u.life = life => u.id + (k - (i + 1)) = nextID
      BY <1>2, <2>1, <2>3 DEF RingInv, Run
    <2>7. ASSUME t.life = life
          PROVE  u.id = t.id + 1
      <3>1. u.life = life
        BY <1>1, <2>2, <2>3, <2>4, <2>5, <2>7 DEF Earlier
      <3>2. QED
        BY <1>1, <2>4, <2>6, <2>7, <3>1, SMTT(30)
    <2>8. QED
      BY <2>2, <2>3, <2>7
  <1>4. QED
    BY <1>2, <1>3 DEF RingInOrder

LEMMA NumbersFresh ==
    ASSUME RingInv, Fresh
    PROVE  \A i \in DOMAIN ring' :
              ring'[i] \notin ToSet(ring) /\ life' = life
                 => ring'[i].id \notin IDs(ring)
  <1>1. SUFFICES ASSUME NEW i \in DOMAIN ring', ring'[i] \notin ToSet(ring),
                        life' = life
                 PROVE  ring'[i].id \notin IDs(ring)
    OBVIOUS
  <1>2. ring'[i] \in ToSet(ring')
    BY <1>1, Zenon DEF ToSet
  <1>3. ring'[i].id = nextID + 1
    BY <1>1, <1>2 DEF Fresh
  <1>4. \A j \in DOMAIN ring : ring[j].id <= nextID /\ ring[j].id \in Nat
    <2>1. ring \in Seq(Trace) /\ \A j \in 1 .. Len(ring) : ring[j].id <= nextID
      BY DEF RingInv, Run
    <2>2. \A j \in DOMAIN ring : ring[j] \in Trace /\ j \in 1 .. Len(ring)
      BY <2>1
    <2>3. QED
      BY <2>1, <2>2, TraceFields
  <1>5. nextID \in Nat
    BY DEF RingInv, StoreInv, StoreTypes
  <1>6. \A n \in IDs(ring) : n <= nextID /\ n \in Nat
    BY <1>4 DEF IDs
  <1>7. QED
    BY <1>3, <1>5, <1>6

LEMMA RingAlways == Spec => [](QueueInv /\ RingInv)
  <1>1. Init => QueueInv /\ RingInv
    BY QueueInit, RingInit
  <1>2. QueueInv /\ RingInv /\ [Next]_vars => (QueueInv /\ RingInv)'
    BY QueueNext, RingNext
  <1>3. QED
    BY <1>1, <1>2, PTL DEF Spec

\* The traces in memory are in the order of time, and those of this process
\* without a gap, whatever is recorded, pruned, pushed out and, after any
\* number of restarts, loaded from files in which handlers have left them in
\* another order (store.go, persistence.go).
THEOREM RingStaysInOrder == Spec => []RingInOrder
  <1>1. RingInv => RingInOrder
    BY RingOrdered
  <1>2. QED
    BY RingAlways, <1>1, PTL

\* A trace that comes into memory never has the number of one that is there,
\* old ones that a restart has loaded included (Record, EnablePersistence).
THEOREM NumbersStayFresh == Spec => FreshIDs
  <1>1. RingInv /\ QueueInv /\ [Next]_vars =>
            [\A i \in DOMAIN ring' :
                ring'[i] \notin ToSet(ring) /\ life' = life
                   => ring'[i].id \notin IDs(ring)]_vars
    BY RingNext, NumbersFresh
  <1>2. QED
    BY RingAlways, <1>1, PTL DEF FreshIDs, Spec
=============================================================================
