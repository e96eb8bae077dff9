------------------------------ MODULE Sessions ------------------------------
(***************************************************************************)
(* The requests the gateway serves and the traces they leave               *)
(* (internal/server/tunnel.go, server.go handleProxy) in the store's       *)
(* memory, with what the Admin shows of them (TrafficView).                *)
(*                                                                         *)
(* A proxied request ends in one trace.  A tunnel, once connected, is two  *)
(* relays, client to target ("up") and back ("down"); the first to end     *)
(* makes the handler close both connections, and it waits for the second   *)
(* before it counts and records.  A peer may send, and close, at any time. *)
(*                                                                         *)
(* Which exit a request takes, and its retries, is ProxyAttempts; what     *)
(* becomes of the traces in the files is TrafficStore.                     *)
(***************************************************************************)
EXTENDS TrafficView

CONSTANTS
    Proxies, RawTunnels, SocketTunnels,     \* requests by handler
    UrlOf,          \* the url each asks for
    Area,           \* the exit group of those that get one
    Statuses,       \* what targets answer with
    GroupingRules, FoldingRules,            \* what the Admin may add
    Limits,         \* how many traces the page may ask for (100)
    MaxSent,        \* bound: messages a peer of a tunnel sends
    MaxMinute       \* bound: the clock

Tunnels == RawTunnels \cup SocketTunnels
Requests == Proxies \cup Tunnels

ASSUME KindsAssumption ==
    /\ Proxies \cap Tunnels = {} /\ RawTunnels \cap SocketTunnels = {}

ASSUME TunnelsAssumption == IsFiniteSet(Tunnels)

ASSUME UrlsAssumption ==
    \A s \in Requests :
        /\ UrlOf[s].query \in Seq(Params)
        /\ UrlOf[s] = [scheme |-> UrlOf[s].scheme, base |-> UrlOf[s].base,
                       query |-> UrlOf[s].query]

ASSUME RulesAssumption ==
    \A r \in GroupingRules : r = GroupingRule(r.match, r.drop, r.sort)

ASSUME LimitsAssumption == Limits \subseteq Nat \ {0}

ASSUME ClockAssumption == MaxMinute \in Nat

Dirs == {"up", "down"}
Ended == {"eof", "failed", "cut"}

VARIABLES
    pc,             \* what a handler is at
    relay,          \* the two goroutines of a tunnel
    sent,           \* messages of the peer each reads from
    read, written,  \* messages it has read and written
    gone,           \* relays whose source has closed its connection
    activeTunnels, ring, config, minute

relays == <<relay, sent, read, written, gone>>
store  == <<activeTunnels, ring>>
vars   == <<pc, relays, store, config, minute>>

Trace(s, status, error, area, up, down) ==
    [by |-> s, kind |-> IF s \in Tunnels THEN "tunnel" ELSE "proxy",
     url |-> UrlOf[s], area |-> area, status |-> status, error |-> error,
     minute |-> minute, up |-> up, down |-> down]

Counts == [Tunnels -> [Dirs -> 0 .. MaxSent]]

TypeOK ==
    /\ pc \in [Requests -> {"new", "open", "closing", "recording", "done"}]
    /\ relay \in [Tunnels -> [Dirs -> {"reading", "writing"} \cup Ended]]
    /\ sent \in Counts /\ read \in Counts /\ written \in Counts
    /\ gone \subseteq Tunnels \X Dirs
    /\ activeTunnels \in 0 .. Cardinality(Tunnels)
    /\ Len(ring) <= Cardinality(Requests)
    /\ config.rules \in Seq(GroupingRules \cup
          [match : {r.match : r \in GroupingRules},
           drop : SUBSET Range(KeyOf), sort : BOOLEAN])
    /\ minute \in 0 .. MaxMinute

Goto(s, l) == pc' = [pc EXCEPT ![s] = l]

\* Store.Record, within the capacity of the store.
Record(t) == ring' = Append(ring, t) /\ UNCHANGED activeTunnels

-----------------------------------------------------------------------------
(* The handlers                                                            *)

\* A request that is turned away before it asks for an exit leaves no trace;
\* nor does a tunnel whose exit fails, or whose client is gone when the target
\* has answered.
Reject(s) ==
    /\ pc[s] = "new"
    /\ Goto(s, "done")
    /\ UNCHANGED <<relays, store, config, minute>>

\* handleProxy with no exit for the request: recorded without a route.
EgressFails(s) ==
    /\ s \in Proxies /\ pc[s] = "new"
    /\ Goto(s, "done")
    /\ Record(Trace(s, 400, TRUE, "DIRECT", 1, 0))
    /\ UNCHANGED <<relays, config, minute>>

\* handleProxy with an answer of the target, or with all attempts failed.
Answer(s) ==
    /\ s \in Proxies /\ pc[s] = "new"
    /\ Goto(s, "done")
    /\ \/ \E status \in Statuses : Record(Trace(s, status, FALSE, Area, 1, 1))
       \/ Record(Trace(s, 502, TRUE, Area, 1, 0))
    /\ UNCHANGED <<relays, config, minute>>

\* A target that is blocked, cannot be reached or refuses the handshake, a bad
\* method or fingerprint, a payload that cannot be sent; 502 stands for the
\* statuses these are recorded with.  Without an answer a websocket tunnel is
\* recorded with status 101 and the error.
OpenFails(s) ==
    /\ s \in Tunnels /\ pc[s] = "new"
    /\ Goto(s, "done")
    /\ \E status \in {502} \cup (IF s \in SocketTunnels THEN {101} ELSE {}) :
          Record(Trace(s, status, TRUE, Area, 0, 0))
    /\ UNCHANGED <<relays, config, minute>>

\* Connected: both relays start reading.
Open(s) ==
    /\ s \in Tunnels /\ pc[s] = "new"
    /\ Goto(s, "open")
    /\ activeTunnels' = activeTunnels + 1
    /\ UNCHANGED <<relays, ring, config, minute>>

\* The first relay is done: both connections are closed.
CloseBoth(s) ==
    /\ s \in Tunnels /\ pc[s] = "open"
    /\ \E d \in Dirs : relay[s][d] \in Ended
    /\ Goto(s, "closing")
    /\ UNCHANGED <<relays, store, config, minute>>

\* Mutated form: the handler does not wait for the second relay.
TunnelClosedEarly(s) ==
    /\ s \in Tunnels /\ pc[s] = "closing"
    /\ Goto(s, "recording")
    /\ activeTunnels' = IF activeTunnels > 0 THEN activeTunnels - 1 ELSE 0
    /\ UNCHANGED <<relays, ring, config, minute>>

\* The second is done: the deferred TunnelClosed.
TunnelClosed(s) ==
    /\ s \in Tunnels /\ pc[s] = "closing"
    /\ \A d \in Dirs : relay[s][d] \in Ended
    /\ Goto(s, "recording")
    /\ activeTunnels' = IF activeTunnels > 0 THEN activeTunnels - 1 ELSE 0
    /\ UNCHANGED <<relays, ring, config, minute>>

\* The deferred recordTunnelTrace, with the bytes the relays have counted.
RecordTunnel(s) ==
    /\ s \in Tunnels /\ pc[s] = "recording"
    /\ Goto(s, "done")
    /\ Record(Trace(s, 101, FALSE, Area, read[s]["up"], read[s]["down"]))
    /\ UNCHANGED <<relays, config, minute>>

-----------------------------------------------------------------------------
(* The relays                                                              *)

Turn(s, d, l) == relay' = [relay EXCEPT ![s][d] = l]

\* A message is read and counted; one that had arrived may be read even after
\* the handler has closed the connections.
Read(s, d) ==
    /\ pc[s] \in {"open", "closing"}
    /\ relay[s][d] = "reading" /\ read[s][d] < sent[s][d]
    /\ read' = [read EXCEPT ![s][d] = @ + 1]
    /\ Turn(s, d, "writing")
    /\ UNCHANGED <<pc, sent, written, gone, store, config, minute>>

\* Mutated form: the close of the source overtakes what it has sent.
ReadEndsEarly(s, d) ==
    /\ pc[s] = "open" /\ relay[s][d] = "reading"
    /\ <<s, d>> \in gone
    /\ Turn(s, d, "eof")
    /\ UNCHANGED <<pc, sent, read, written, gone, store, config, minute>>

\* The source has closed and everything it sent has been read.
ReadEnds(s, d) ==
    /\ pc[s] = "open" /\ relay[s][d] = "reading"
    /\ <<s, d>> \in gone /\ read[s][d] = sent[s][d]
    /\ Turn(s, d, "eof")
    /\ UNCHANGED <<pc, sent, read, written, gone, store, config, minute>>

Other(d) == IF d = "up" THEN "down" ELSE "up"

\* A message is written, which may also be into a connection that the other
\* peer has closed: it learns of that later.
Write(s, d) ==
    /\ pc[s] = "open" /\ relay[s][d] = "writing"
    /\ written' = [written EXCEPT ![s][d] = @ + 1]
    /\ Turn(s, d, "reading")
    /\ UNCHANGED <<pc, sent, read, gone, store, config, minute>>

WriteFails(s, d) ==
    /\ pc[s] = "open" /\ relay[s][d] = "writing" /\ <<s, Other(d)>> \in gone
    /\ Turn(s, d, "failed")
    /\ UNCHANGED <<pc, sent, read, written, gone, store, config, minute>>

\* Mutated form: closing the connections does not end a blocked write.
CutReaders(s, d) ==
    /\ pc[s] \in {"closing", "recording", "done"}
    /\ relay[s][d] = "reading"
    /\ Turn(s, d, "cut")
    /\ UNCHANGED <<pc, sent, read, written, gone, store, config, minute>>

\* Once the handler has closed both connections a relay ends; a write that was
\* under way may have been made.
Cut(s, d) ==
    /\ pc[s] \in {"closing", "recording", "done"}
    /\ relay[s][d] \in {"reading", "writing"}
    /\ \/ UNCHANGED written
       \/ /\ relay[s][d] = "writing"
          /\ written' = [written EXCEPT ![s][d] = @ + 1]
    /\ Turn(s, d, "cut")
    /\ UNCHANGED <<pc, sent, read, gone, store, config, minute>>

-----------------------------------------------------------------------------
(* The peers, the clock and the Admin                                      *)

PeerSends(s, d) ==
    /\ pc[s] = "open" /\ <<s, d>> \notin gone /\ sent[s][d] < MaxSent
    /\ sent' = [sent EXCEPT ![s][d] = @ + 1]
    /\ UNCHANGED <<pc, relay, read, written, gone, store, config, minute>>

PeerCloses(s, d) ==
    /\ pc[s] = "open" /\ <<s, d>> \notin gone
    /\ gone' = gone \cup {<<s, d>>}
    /\ UNCHANGED <<pc, relay, sent, read, written, store, config, minute>>

Tick ==
    /\ minute < MaxMinute
    /\ minute' = minute + 1
    /\ UNCHANGED <<pc, relays, store, config>>

\* The Admin adds a rule: handleTrafficGroupingRules and
\* handleTrafficSuccessFoldingRules, with a file that can be written.
AddGroupingRule ==
    /\ \E r \in GroupingRules : config' = MergeGroupingRule(config, r)
    /\ UNCHANGED <<pc, relays, store, minute>>

AddFoldingRule ==
    /\ \E m \in FoldingRules : config' = MergeFoldingRule(config, m)
    /\ UNCHANGED <<pc, relays, store, minute>>

Init ==
    /\ pc = [s \in Requests |-> "new"]
    /\ relay = [s \in Tunnels |-> [d \in Dirs |-> "reading"]]
    /\ sent = [s \in Tunnels |-> [d \in Dirs |-> 0]]
    /\ read = sent /\ written = sent
    /\ gone = {}
    /\ activeTunnels = 0 /\ ring = <<>>
    /\ config \in {DefaultConfig, [DefaultConfig EXCEPT !.grouping = FALSE]}
    /\ minute = 0

Next ==
    \/ \E s \in Requests :
          Reject(s) \/ EgressFails(s) \/ Answer(s) \/ OpenFails(s) \/ Open(s)
            \/ CloseBoth(s) \/ TunnelClosed(s) \/ RecordTunnel(s)
    \/ \E s \in Tunnels, d \in Dirs :
          Read(s, d) \/ ReadEnds(s, d) \/ Write(s, d) \/ WriteFails(s, d)
            \/ Cut(s, d) \/ PeerSends(s, d) \/ PeerCloses(s, d)
    \/ Tick \/ AddGroupingRule \/ AddFoldingRule

\* Handlers and relays go on when they can.  A write to a peer that has closed
\* its connection returns, with or without an error; one to a peer that has not
\* may wait for ever, since no write has a deadline and a peer need not read.
HandlerGoesOn(s) == CloseBoth(s) \/ TunnelClosed(s) \/ RecordTunnel(s)

RelayGoesOn(s, d) ==
    \/ Read(s, d) \/ ReadEnds(s, d) \/ Cut(s, d)
    \/ <<s, Other(d)>> \in gone /\ (Write(s, d) \/ WriteFails(s, d))

Fairness ==
    \A s \in Tunnels :
        /\ WF_vars(HandlerGoesOn(s))
        /\ \A d \in Dirs : WF_vars(RelayGoesOn(s, d))

Spec == Init /\ [][Next]_vars /\ Fairness

-----------------------------------------------------------------------------
(* Properties                                                              *)

\* The counter shows the tunnels that are connected and not yet torn down, and
\* a recorded tunnel is over: its trace counts every byte either peer got, and
\* no relay is left to send more.  TunnelOpened, TunnelClosed, recordTunnelTrace
TunnelsAccounted ==
    /\ activeTunnels =
          Cardinality({s \in Tunnels : pc[s] \in {"open", "closing"}})
    /\ \A i \in DOMAIN ring :
          (ring[i].by \in Tunnels /\ ~ring[i].error) =>
              LET s == ring[i].by IN
              /\ \A d \in Dirs : relay[s][d] \in Ended
              /\ written[s]["up"] <= ring[i].up
              /\ written[s]["down"] <= ring[i].down

\* A target that closes on a silent client has had its last word: everything
\* it sent was written to the client before the connections were closed.
LastWordDelivered ==
    \A s \in Tunnels :
        (/\ pc[s] \in {"closing", "recording", "done"}
         /\ <<s, "down">> \in gone /\ <<s, "up">> \notin gone
         /\ sent[s]["up"] = 0)
            => written[s]["down"] = sent[s]["down"]

\* The traces of a snapshot: as many of the newest as the page asks for, the
\* newest first.
Traces(limit) ==
    LET n == IF limit < Len(ring) THEN limit ELSE Len(ring)
    IN  [i \in 1 .. n |-> ring[(Len(ring) - i) + 1]]

\* The totals and the series go over all of them.
AllTraces == Traces(Len(ring))

\* The sum of the values f has for 0 to n.
SumTo(f, n) ==
    LET sum[i \in 0 .. n] == (IF i \in DOMAIN f THEN f[i] ELSE 0)
                                + (IF i = 0 THEN 0 ELSE sum[i - 1])
    IN  sum[n]

\* How many traces the rows with numbers in is stand for.
Children(rows, is) == SumTo([i \in is |-> rows[i].count], Len(rows))

\* What the totals of some traces, and the rows that stand for some, say of
\* them: the requests that count, the traces folded away, all of them, and the
\* failures of a group beyond its first.
Said(m) ==
    [requests |-> m.requests, ignored |-> m.ignored, raw |-> m.raw,
     repeated |-> m.rawFailures - m.failures]

Shown(rows) ==
    LET counted == {i \in DOMAIN rows : ~rows[i].excluded}
    IN  [requests |-> Cardinality(counted),
         ignored  |-> Children(rows, DOMAIN rows \ counted),
         raw      |-> Children(rows, DOMAIN rows),
         repeated |-> Children(rows, counted) - Cardinality(counted)]

\* The rows of a snapshot say of the traces it shows what totals of just those
\* would say; they never say more than the totals of the snapshot, which count
\* the traces beyond the limit too, and the same if there are none.
CountsAgree ==
    \A limit \in Limits :
        LET rows   == Shown(DisplayTraces(Traces(limit), config))
            totals == Said(Metrics(AllTraces, config))
        IN  /\ rows = Said(Metrics(Traces(limit), config))
            /\ \A f \in DOMAIN rows : rows[f] <= totals[f]
            /\ Len(ring) <= limit => rows = totals

\* The series adds up to the totals once every trace is inside its window, and
\* to the totals without older traces otherwise.
SeriesAgrees ==
    \A cutoff \in 0 .. MaxMinute :
        LET s == BuildSeries(AllTraces, config, cutoff)
            within == Keep(AllTraces, {t \in ToSet(AllTraces) : t.minute >= cutoff})
            m == Metrics(within, config)
        IN  /\ SumTo(s.requests, MaxMinute) = m.requests
            /\ SumTo(s.failures, MaxMinute) = m.failures

\* What the dashboard shows of the traces, computed three times over, agrees
\* (metricsLocked, displayTraces, buildSeries), whatever the limit of the page.
ViewsAgree == CountsAgree /\ SeriesAgrees

\* Adding a rule never splits a group of failures, nor brings back into the
\* totals a request that was folded away.
GroupsOnlyGrow ==
    [][config' # config =>
          \A i, j \in DOMAIN ring :
            /\ Folded(ring[i], config) => Folded(ring[i], config')
            /\ (config.grouping
                /\ FailureKeys(ring[i], config) = FailureKeys(ring[j], config))
                  => FailureKeys(ring[i], config')
                        = FailureKeys(ring[j], config')]_vars

\* A relay waits in a write to a peer that is there and does not read.
Stuck(s) ==
    /\ pc[s] = "open"
    /\ \E d \in Dirs : relay[s][d] = "writing" /\ <<s, Other(d)>> \notin gone

\* Once a peer has closed, the tunnel ends and is recorded and neither handler
\* nor relay stays behind, unless a relay is stuck for ever in a write that the
\* other peer never takes.
TunnelsEnd ==
    \A s \in Tunnels :
        (pc[s] = "open" /\ \E d \in Dirs : <<s, d>> \in gone)
            ~> \/ pc[s] = "done" /\ \A d \in Dirs : relay[s][d] \in Ended
               \/ []Stuck(s)
=============================================================================
