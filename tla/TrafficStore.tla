---------------------------- MODULE TrafficStore ----------------------------
(***************************************************************************)
(* The traffic store (internal/traffic/store.go, persistence.go): a ring   *)
(* of the newest traces in memory, and a queue from which one goroutine    *)
(* writes them, through a buffer, to a file per day.                       *)
(*                                                                         *)
(* Handlers record concurrently: ring and id change under Store.mu, the    *)
(* trace is queued after it is released, and only closeMu keeps the queue  *)
(* open meanwhile.  The process may crash at any point and start again on  *)
(* the files it left; files may be refused or fail to be written.          *)
(*                                                                         *)
(* A timestamp is the day plus the order of the ids: Record stamps every   *)
(* trace while it holds Store.mu.                                          *)
(***************************************************************************)
EXTENDS Naturals, Sequences, FiniteSets, SequencesExt

CONSTANTS
    Recorders,      \* handlers that record traces
    Updaters,       \* Admin handlers that change the settings
    Capacities,     \* traces in memory (1000)
    QueueSize,      \* traces in the queue (4096)
    Retentions,     \* values of retention_days
    MaxDay,         \* bound: days
    MaxID,          \* bound: ids of one life
    MaxLife,        \* bound: starts of the process
    Faults          \* the disk may refuse a file or a write

ASSUME SizesAssumption ==
    /\ Capacities \subseteq Nat \ {0}
    /\ QueueSize \in Nat \ {0}
    /\ Retentions \subseteq Nat \ {0}
    /\ {MaxDay, MaxLife} \subseteq Nat \ {0} /\ MaxID \in Nat

Days == 1 .. MaxDay
NoDay == 0

\* A trace: the life of the process that recorded it, its id and its day.
Trace == [life : 1 .. MaxLife, id : 1 .. MaxID, day : Days]

VARIABLES
    \* The store
    day,            \* the clock
    life, capacity, \* the number of the process and the size of its ring
    ring, nextID,
    config,         \* persistence.enabled and retention_days
    \* Its users
    pc, item,       \* recorders, and the trace each has in hand
    wanted,         \* the retention an updater goes on to apply, or 0
    \* The queue and its writer
    retention, queue, closer,
    wpc,            \* the writer: not started, running, ended
    cur, buf,       \* currentDate and the buffered lines
    glued,          \* the first of them follows a torn line
    broken,         \* the buffer had a write error: it stays in it
    linked,         \* the open file is still in the directory
    \* The disk
    files,          \* the readable lines of every day
    torn,           \* days whose last line is not finished
    \* What excuses a missing trace
    hurt, floor

proc   == <<life, capacity>>
store  == <<ring, nextID>>
users  == <<pc, item>>
writer == <<cur, buf, glued, broken, linked>>
disk   == <<files, torn, hurt, floor>>
vars == <<day, proc, store, config, users, wanted, retention, queue, closer,
          wpc, writer, disk>>

TypeOK ==
    /\ capacity \in Capacities
    /\ day \in Days /\ life \in 1 .. MaxLife
    /\ ring \in Seq(Trace) /\ Len(ring) <= capacity
    /\ nextID \in 0 .. MaxID
    /\ config \in [on : BOOLEAN, keep : Retentions]
    /\ pc \in [Recorders -> {"idle", "enqueue", "send"}]
    /\ item \in [Recorders -> Trace \cup {<<>>}]
    /\ \A r \in Recorders : item[r] = <<>> <=> pc[r] = "idle"
    /\ wanted \in [Updaters -> Retentions \cup {0}]
    /\ retention \in Retentions
    /\ queue \in Seq(Trace) /\ Len(queue) <= QueueSize
    /\ closer \in {"open", "locking", "waiting", "closed"}
    /\ wpc \in {"none", "running", "ended"}
    /\ cur \in Days \cup {NoDay}
    /\ buf \in Seq(Trace)
    /\ glued \in BOOLEAN /\ broken \in BOOLEAN /\ linked \in BOOLEAN
    /\ files \in [Days -> Seq(Trace)]
    /\ torn \subseteq Days /\ hurt \subseteq Days
    /\ floor \in 0 .. MaxDay

-----------------------------------------------------------------------------
(* Retention and the ring                                                  *)

\* The first day kept on day d.
Cutoff(d, keep) == IF d >= keep THEN d - keep + 1 ELSE 1

\* pruneExpiredLocked, its loop.  SelectSeq says the same, but takes an
\* operator, about which the provers know nothing.
Prune(traces, keep) ==
    LET kept[i \in 0 .. Len(traces)] ==
            IF i = 0 THEN <<>>
            ELSE IF traces[i].day >= Cutoff(day, keep)
                 THEN Append(kept[i - 1], traces[i]) ELSE kept[i - 1]
    IN kept[Len(traces)]

Push(traces, t) ==
    IF Len(traces) < capacity THEN Append(traces, t)
                              ELSE Append(Tail(traces), t)

\* tracePersistence.prune on day d, of the files fs: the days it removes are
\* gone, an open file among them stays open but unlinked.
Expired(keep, d) == {e \in Days : e < Cutoff(d, keep)}

RemoveFiles(fs, ts, keep, d) ==
    /\ files' = [e \in Days |-> IF e \in Expired(keep, d) THEN <<>> ELSE fs[e]]
    /\ torn' = ts \ Expired(keep, d)
    /\ floor' = IF floor < Cutoff(d, keep) THEN Cutoff(d, keep) ELSE floor

-----------------------------------------------------------------------------
(* Recording                                                               *)

\* Store.Record up to the unlock: the id, the stamp and the ring.
Record(r) ==
    /\ pc[r] = "idle" /\ nextID < MaxID
    /\ LET t == [life |-> life, id |-> nextID + 1, day |-> day]
       IN /\ ring' = Push(Prune(ring, config.keep), t)
          /\ IF config.on /\ wpc # "none"
             THEN /\ pc' = [pc EXCEPT ![r] = "enqueue"]
                  /\ item' = [item EXCEPT ![r] = t]
             ELSE UNCHANGED users
    /\ nextID' = nextID + 1
    /\ UNCHANGED <<day, proc, config, wanted, retention, queue, closer, wpc,
                   writer, disk>>

Done(r) ==
    /\ pc' = [pc EXCEPT ![r] = "idle"]
    /\ item' = [item EXCEPT ![r] = <<>>]

\* enqueue: a read lock on closeMu, which waits while close asks for it.
Enqueue(r) ==
    /\ pc[r] = "enqueue" /\ closer # "locking"
    /\ IF closer = "open" THEN /\ pc' = [pc EXCEPT ![r] = "send"]
                               /\ UNCHANGED item
                          ELSE Done(r)
    /\ UNCHANGED <<day, proc, store, config, wanted, retention, queue, closer,
                   wpc, writer, disk>>

\* The send on the queue blocks while it is full, holding the read lock.
Send(r) ==
    /\ pc[r] = "send" /\ Len(queue) < QueueSize
    /\ queue' = Append(queue, item[r])
    /\ Done(r)
    /\ UNCHANGED <<day, proc, store, config, wanted, retention, closer, wpc,
                   writer, disk>>

\* Snapshot and Metrics drop what has expired before they look.
Snapshot ==
    /\ ring' = Prune(ring, config.keep)
    /\ UNCHANGED <<day, proc, nextID, config, users, wanted, retention, queue,
                   closer, wpc, writer, disk>>

-----------------------------------------------------------------------------
(* Settings                                                                *)

\* UpdateConfig up to the unlock.
UpdateConfig(u) ==
    /\ wanted[u] = 0
    /\ \E c \in [on : BOOLEAN, keep : Retentions] :
          /\ config' = c
          /\ ring' = Prune(ring, c.keep)
          /\ wanted' = [wanted EXCEPT ![u] = IF wpc = "none" THEN 0 ELSE c.keep]
    /\ UNCHANGED <<day, proc, nextID, users, retention, queue, closer, wpc,
                   writer, disk>>

\* updateRetention, after the unlock: the writer's retention, and a prune.
UpdateRetention(u) ==
    /\ wanted[u] # 0
    /\ retention' = wanted[u]
    /\ RemoveFiles(files, torn, wanted[u], day)
    /\ linked' = (linked /\ cur \notin Expired(wanted[u], day))
    /\ wanted' = [wanted EXCEPT ![u] = 0]
    /\ UNCHANGED <<day, proc, store, config, users, queue, closer, wpc, cur, buf,
                   glued, broken, hurt>>

-----------------------------------------------------------------------------
(* The writer                                                              *)

\* The file and the torn days once the buffer has been flushed.
Readable(lines) == IF glued /\ lines # <<>> THEN Tail(lines) ELSE lines

Flushed(lines) ==
    IF linked THEN [files EXCEPT ![cur] = @ \o Readable(lines)] ELSE files

Mended(lines) == IF linked /\ lines # <<>> THEN torn \ {cur} ELSE torn

Working == wpc = "running" /\ queue # <<>>

\* Mutated form: the old buffer is dropped.
RotateUnflushed ==
    /\ Working
    /\ LET d == Head(queue).day
       IN /\ d # cur
          /\ RemoveFiles(files, torn, retention, d)
          /\ cur' = d
          /\ glued' = (d \in torn)
    /\ buf' = <<>> /\ broken' = FALSE /\ linked' = TRUE
    /\ UNCHANGED <<day, proc, store, config, users, wanted, retention, queue,
                   closer, wpc, hurt>>

\* writeTrace meets another day: flush, close, open, prune.
Rotate ==
    /\ Working
    /\ LET d == Head(queue).day
       IN /\ d # cur
          /\ RemoveFiles(Flushed(buf), Mended(buf), retention, d)
          /\ cur' = d
          /\ glued' = (d \in Mended(buf))
    /\ buf' = <<>> /\ broken' = FALSE /\ linked' = TRUE
    /\ UNCHANGED <<day, proc, store, config, users, wanted, retention, queue,
                   closer, wpc, hurt>>

\* The new file cannot be opened or secured: the trace is dropped.
RotateFails ==
    /\ Faults /\ Working /\ Head(queue).day # cur
    /\ files' = Flushed(buf) /\ torn' = Mended(buf)
    /\ hurt' = hurt \cup {Head(queue).day}
    /\ queue' = Tail(queue)
    /\ cur' = NoDay /\ buf' = <<>>
    /\ glued' = FALSE /\ broken' = FALSE /\ linked' = FALSE
    /\ UNCHANGED <<day, proc, store, config, users, wanted, retention, closer,
                   wpc, floor>>

\* writeTrace appends a line to the buffer, unless an error is stuck in it.
Write ==
    /\ Working /\ Head(queue).day = cur
    /\ queue' = Tail(queue)
    /\ buf' = IF broken THEN buf ELSE Append(buf, Head(queue))
    /\ UNCHANGED <<day, proc, store, config, users, wanted, retention, closer,
                   wpc, cur, glued, broken, linked, disk>>

\* The line does not fit: the buffer goes out with the first part of it.
WriteSplit ==
    /\ Working /\ Head(queue).day = cur /\ buf # <<>> /\ ~broken
    /\ queue' = Tail(queue)
    /\ files' = Flushed(buf)
    /\ torn' = IF linked THEN torn \cup {cur} ELSE torn
    /\ buf' = <<Head(queue)>> /\ glued' = FALSE
    /\ UNCHANGED <<day, proc, store, config, users, wanted, retention, closer,
                   wpc, cur, broken, linked, hurt, floor>>

\* The flush ticker.
Flush ==
    /\ wpc = "running" /\ buf # <<>>
    /\ files' = Flushed(buf) /\ torn' = Mended(buf)
    /\ buf' = <<>> /\ glued' = FALSE
    /\ UNCHANGED <<day, proc, store, config, users, wanted, retention, queue,
                   closer, wpc, cur, broken, linked, hurt, floor>>

\* A flush that fails part of the way: the writer keeps its error until the
\* next rotation.
FlushFails ==
    /\ Faults /\ wpc = "running" /\ buf # <<>>
    /\ \E k \in 0 .. Len(buf) - 1, tear \in BOOLEAN :
          LET out == SubSeq(buf, 1, k)
          IN /\ files' = Flushed(out)
             /\ torn' = IF tear /\ linked THEN torn \cup {cur} ELSE Mended(out)
    /\ hurt' = hurt \cup {cur}
    /\ buf' = <<>> /\ glued' = FALSE /\ broken' = TRUE
    /\ UNCHANGED <<day, proc, store, config, users, wanted, retention, queue,
                   closer, wpc, cur, linked, floor>>

\* Mutated form: only a writer with an open file ends.
EndWriterWithFile ==
    /\ wpc = "running" /\ queue = <<>> /\ closer = "waiting" /\ cur # NoDay
    /\ wpc' = "ended"
    /\ files' = Flushed(buf) /\ torn' = Mended(buf)
    /\ cur' = NoDay /\ buf' = <<>>
    /\ glued' = FALSE /\ broken' = FALSE /\ linked' = FALSE
    /\ UNCHANGED <<day, proc, store, config, users, wanted, retention, queue,
                   closer, hurt, floor>>

\* The queue is closed and drained: the deferred flush, and the goroutine ends.
EndWriter ==
    /\ wpc = "running" /\ queue = <<>> /\ closer = "waiting"
    /\ wpc' = "ended"
    /\ files' = Flushed(buf) /\ torn' = Mended(buf)
    /\ cur' = NoDay /\ buf' = <<>>
    /\ glued' = FALSE /\ broken' = FALSE /\ linked' = FALSE
    /\ UNCHANGED <<day, proc, store, config, users, wanted, retention, queue,
                   closer, hurt, floor>>

-----------------------------------------------------------------------------
(* Closing, and the life of the process                                    *)

\* Store.Close: close asks for closeMu, which keeps new readers out.
BeginClose ==
    /\ wpc # "none" /\ closer = "open"
    /\ closer' = "locking"
    /\ UNCHANGED <<day, proc, store, config, users, wanted, retention, queue,
                   wpc, writer, disk>>

\* Mutated form: the queue is closed under the senders.
CloseQueueAtOnce ==
    /\ closer = "locking"
    /\ closer' = "waiting"
    /\ UNCHANGED <<day, proc, store, config, users, wanted, retention, queue,
                   wpc, writer, disk>>

CloseQueue ==
    /\ closer = "locking" /\ \A r \in Recorders : pc[r] # "send"
    /\ closer' = "waiting"
    /\ UNCHANGED <<day, proc, store, config, users, wanted, retention, queue,
                   wpc, writer, disk>>

CloseReturns ==
    /\ closer = "waiting" /\ wpc = "ended"
    /\ closer' = "closed"
    /\ UNCHANGED <<day, proc, store, config, users, wanted, retention, queue,
                   wpc, writer, disk>>

NextDay ==
    /\ day < MaxDay
    /\ day' = day + 1
    /\ UNCHANGED <<proc, store, config, users, wanted, retention, queue,
                   closer, wpc, writer, disk>>

Earlier(t, u) == t.life < u.life \/ (t.life = u.life /\ t.id < u.id)

\* The last lines in the order of the files, as many as fit.
Recent(fs) ==
    LET lines == FlattenSeq([d \in Days |-> fs[d]])
        first == IF Len(lines) > capacity THEN Len(lines) - capacity + 1 ELSE 1
    IN  SubSeq(lines, first, Len(lines))

\* Mutated form: the lines stay in the order of the files.
LoadRecentUnsorted(fs) == Recent(fs)

\* loadRecent sorts them by time and leaves those of the same time as they are.
LoadRecent(fs) ==
    LET lines == Recent(fs)
        Before(i, j) == \/ Earlier(lines[i], lines[j])
                        \/ ~Earlier(lines[j], lines[i]) /\ i < j
        order == CHOOSE p \in SetToSeqs(DOMAIN lines) :
                    \A i, j \in DOMAIN p : i < j => Before(p[i], p[j])
    IN  [i \in DOMAIN order |-> lines[order[i]]]

IDs(traces) == {traces[i].id : i \in DOMAIN traces}

\* Mutated form: ids start from one again.
HighestIDForgotten(traces) == 0

HighestID(traces) ==
    CHOOSE n \in IDs(traces) \cup {0} : \A m \in IDs(traces) : m <= n

Pending ==
    {item[r] : r \in {q \in Recorders : pc[q] = "send"}}
        \cup ToSet(queue) \cup ToSet(buf)

\* The process ends, by itself or not, and starts again: NewStore and
\* EnablePersistence.  Without its directory the store works in memory only.
\* The highest id does not depend on the order the lines are in.
Restart ==
    /\ life < MaxLife
    /\ life' = life + 1
    /\ hurt' = hurt \cup torn \cup {t.day : t \in Pending}
    /\ \/ /\ RemoveFiles(files, torn, config.keep, day)
          /\ wpc' = "running"
          /\ ring' = IF config.on THEN LoadRecent(files') ELSE <<>>
          /\ nextID' = IF config.on THEN HighestID(Recent(files')) ELSE 0
       \/ /\ Faults
          /\ wpc' = "none" /\ ring' = <<>> /\ nextID' = 0
          /\ UNCHANGED <<files, torn, floor>>
    /\ retention' = config.keep
    /\ pc' = [r \in Recorders |-> "idle"]
    /\ item' = [r \in Recorders |-> <<>>]
    /\ wanted' = [u \in Updaters |-> 0]
    /\ queue' = <<>> /\ closer' = "open"
    /\ cur' = NoDay /\ buf' = <<>>
    /\ glued' = FALSE /\ broken' = FALSE /\ linked' = FALSE
    /\ UNCHANGED <<day, capacity, config>>

Init ==
    /\ capacity \in Capacities
    /\ day = 1 /\ life = 1
    /\ ring = <<>> /\ nextID = 0
    /\ config \in [on : BOOLEAN, keep : Retentions]
    /\ pc = [r \in Recorders |-> "idle"]
    /\ item = [r \in Recorders |-> <<>>]
    /\ wanted = [u \in Updaters |-> 0]
    /\ retention = config.keep
    /\ queue = <<>> /\ closer = "open" /\ wpc = "running"
    /\ cur = NoDay /\ buf = <<>>
    /\ glued = FALSE /\ broken = FALSE /\ linked = FALSE
    /\ files = [d \in Days |-> <<>>]
    /\ torn = {} /\ hurt = {} /\ floor = 0

Next ==
    \/ \E r \in Recorders : Record(r) \/ Enqueue(r) \/ Send(r)
    \/ \E u \in Updaters : UpdateConfig(u) \/ UpdateRetention(u)
    \/ Snapshot
    \/ Rotate \/ RotateFails \/ Write \/ WriteSplit
    \/ Flush \/ FlushFails \/ EndWriter
    \/ BeginClose \/ CloseQueue \/ CloseReturns
    \/ NextDay \/ Restart

\* A goroutine goes on when it can; the select of the writer picks the ticker
\* and the queue at random, so neither waits for ever.
Fairness ==
    /\ \A r \in Recorders : WF_vars(Enqueue(r)) /\ WF_vars(Send(r))
    /\ \A u \in Updaters : WF_vars(UpdateRetention(u))
    /\ WF_vars(Rotate) /\ WF_vars(Write) /\ WF_vars(Flush) /\ WF_vars(EndWriter)
    /\ WF_vars(CloseQueue) /\ WF_vars(CloseReturns)

Spec == Init /\ [][Next]_vars /\ Fairness

-----------------------------------------------------------------------------
(* Properties                                                              *)

\* No handler is about to send on the queue once it is closed: that would
\* panic in the handler of a tunnel that outlives the servers' shutdown.
NoSendOnClosedQueue ==
    closer \in {"waiting", "closed"} => \A r \in Recorders : pc[r] # "send"

\* The ring is in the order of time, and what this process recorded is in it
\* without a gap.
RingInOrder ==
    \A i \in 1 .. Len(ring) - 1 :
        /\ Earlier(ring[i], ring[i + 1])
        /\ ring[i].life = life => ring[i + 1].id = ring[i].id + 1

\* A new trace never gets the id of a trace still in memory, which the Admin
\* page shows, restarts on old files included.
FreshIDs ==
    [][\A i \in DOMAIN ring' :
          ring'[i] \notin ToSet(ring) /\ life' = life
             => ring'[i].id \notin IDs(ring)]_vars

\* The files keep what TrafficLog promises.
Log == INSTANCE TrafficLog WITH
    pending <- Pending,
    saved <- UNION {ToSet(files[d]) : d \in Days},
    closed <- closer = "closed"

Kept == Log!Spec

\* What is handed to the store does not stay in its queue or its buffer, and
\* Close returns, whatever the recorders and the writer are at.
Settles ==
    Pending # {} \/ closer \in {"locking", "waiting"}
        ~> Pending = {} /\ closer \in {"open", "closed"}
=============================================================================
