--------------------------- MODULE SessionsProofs ---------------------------
(***************************************************************************)
(* What Sessions keeps for every number of requests and tunnels and        *)
(* whatever the peers send: the account of the tunnels is right, and a     *)
(* target that closes on a silent client has had its last word.  And for   *)
(* every set of urls and rules: adding a rule never splits a group of      *)
(* failures, and what the dashboard shows of the traces in three loops     *)
(* agrees.                                                                 *)
(***************************************************************************)
EXTENDS Sessions, SequenceTheorems, FiniteSetTheorems, FunctionTheorems,
        WellFoundedInduction, TLAPS

-----------------------------------------------------------------------------
(* The inductive invariant.                                                *)

Stages == {"new", "open", "closing", "recording", "done"}
Relays == {"reading", "writing"} \cup Ended
Messages == [Tunnels -> [Dirs -> Nat]]

\* The variables the account is kept in.
Shape ==
    /\ pc \in [Requests -> Stages]
    /\ relay \in [Tunnels -> [Dirs -> Relays]]
    /\ sent \in Messages /\ read \in Messages /\ written \in Messages

\* A relay has written what it has read, but for the message it has in hand;
\* how it ended says what its peers have done.
RelayOK(s, d) ==
    /\ written[s][d] <= read[s][d] /\ read[s][d] <= sent[s][d]
    /\ relay[s][d] = "reading" => written[s][d] = read[s][d]
    /\ relay[s][d] \in {"writing", "failed"} =>
          read[s][d] = written[s][d] + 1
    /\ relay[s][d] = "eof" => /\ written[s][d] = sent[s][d]
                              /\ <<s, d>> \in gone
    /\ relay[s][d] = "failed" => <<s, Other(d)>> \in gone
    /\ relay[s][d] = "cut" => pc[s] \in {"closing", "recording", "done"}

\* A peer closes a tunnel that is open; the handler goes on to its teardown
\* when a relay has ended, and to the record when both have.
StageOK(s) ==
    /\ pc[s] = "new" => \A d \in Dirs : <<s, d>> \notin gone
    /\ pc[s] \in {"closing", "recording", "done"}
          /\ (\E d \in Dirs : <<s, d>> \in gone)
             => \E d \in Dirs : relay[s][d] \in {"eof", "failed"}
    /\ pc[s] = "recording" => \A d \in Dirs : relay[s][d] \in Ended

TunnelOK(s) == StageOK(s) /\ \A d \in Dirs : RelayOK(s, d)

Connected == {s \in Tunnels : pc[s] \in {"open", "closing"}}
Counted == activeTunnels = Cardinality(Connected)

\* A trace of a tunnel without an error is that of a tunnel which is over.
Covers(t) ==
    t.by \in Tunnels /\ ~t.error =>
        /\ pc[t.by] = "done"
        /\ \A d \in Dirs : relay[t.by][d] \in Ended
        /\ read[t.by]["up"] = t.up /\ read[t.by]["down"] = t.down

IsSequence(r) == \E S : r \in Seq(S)
RingOK == IsSequence(ring) /\ \A i \in DOMAIN ring : Covers(ring[i])

AccountInv ==
    /\ Shape
    /\ \A s \in Tunnels : TunnelOK(s)
    /\ Counted
    /\ RingOK

-----------------------------------------------------------------------------
(* Lemmas about sequences and the count.                           *)

LEMMA AppendFacts ==
    ASSUME NEW r, IsSequence(r), NEW t
    PROVE  /\ IsSequence(Append(r, t))
           /\ \A i \in DOMAIN Append(r, t) :
                 \/ Append(r, t)[i] = t
                 \/ i \in DOMAIN r /\ Append(r, t)[i] = r[i]
  <1>1. PICK S : r \in Seq(S)
    BY DEF IsSequence
  <1>2. r \in Seq(S \cup {t})
    BY <1>1
  <1>3. Append(r, t) \in Seq(S \cup {t})
    BY <1>2
  <1>4. ASSUME NEW i \in DOMAIN Append(r, t)
        PROVE  \/ Append(r, t)[i] = t
               \/ i \in DOMAIN r /\ Append(r, t)[i] = r[i]
    BY <1>2
  <1>5. QED
    BY <1>3, <1>4 DEF IsSequence

\* The count moves with the one tunnel whose stage changes.
LEMMA CountUp ==
    ASSUME NEW s \in Tunnels, Shape, Counted,
           pc[s] = "new", pc' = [pc EXCEPT ![s] = "open"],
           activeTunnels' = activeTunnels + 1
    PROVE  Counted'
  <1>1. IsFiniteSet(Connected)
    BY TunnelsAssumption, FS_Subset DEF Connected
  <1>2. s \notin Connected
    BY DEF Connected
  <1>3. Connected' = Connected \cup {s}
    BY DEF Connected, Shape, Requests
  <1>4. Cardinality(Connected \cup {s}) = Cardinality(Connected) + 1
    BY <1>1, <1>2, FS_AddElement
  <1>5. QED
    BY <1>3, <1>4 DEF Counted

LEMMA CountDown ==
    ASSUME NEW s \in Tunnels, Shape, Counted,
           pc[s] = "closing", pc' = [pc EXCEPT ![s] = "recording"],
           activeTunnels' = IF activeTunnels > 0 THEN activeTunnels - 1 ELSE 0
    PROVE  Counted'
  <1>1. IsFiniteSet(Connected)
    BY TunnelsAssumption, FS_Subset DEF Connected
  <1>2. s \in Connected
    BY DEF Connected
  <1>3. Connected' = Connected \ {s}
    BY DEF Connected, Shape, Requests
  <1>4. Cardinality(Connected \ {s}) = Cardinality(Connected) - 1
    BY <1>1, <1>2, FS_RemoveElement
  <1>5. Cardinality(Connected) \in Nat /\ Cardinality(Connected) # 0
    BY <1>1, <1>2, FS_CardinalityType, FS_EmptySet
  <1>6. QED
    BY <1>3, <1>4, <1>5 DEF Counted

LEMMA CountSame ==
    ASSUME Counted, UNCHANGED activeTunnels, Connected' = Connected
    PROVE  Counted'
  BY DEF Counted

-----------------------------------------------------------------------------
(* Steps of a handler: the stage of one request changes, no relay does.    *)

\* What a stage may turn into.
Onwards(from, to) ==
    \/ from = "new" /\ to \in {"open", "done"}
    \/ from = "open" /\ to = "closing"
    \/ from = "closing" /\ to = "recording"
    \/ from = "recording" /\ to = "done"

HandlerStep(s, l) ==
    /\ pc' = [pc EXCEPT ![s] = l] /\ UNCHANGED relays
    /\ Onwards(pc[s], l)
    /\ l = "closing" => \E d \in Dirs : relay[s][d] \in Ended
    /\ l = "recording" => \A d \in Dirs : relay[s][d] \in Ended

LEMMA HandlerTunnels ==
    ASSUME Shape, \A u \in Tunnels : TunnelOK(u),
           NEW s \in Requests, NEW l, HandlerStep(s, l)
    PROVE  Shape' /\ \A u \in Tunnels : TunnelOK(u)'
  <1>1. /\ l \in Stages
        /\ relay' = relay /\ sent' = sent /\ read' = read
        /\ written' = written /\ gone' = gone
    BY DEF HandlerStep, Onwards, Stages, relays
  <1>2. Shape'
    BY <1>1 DEF HandlerStep, Shape
  <1>3. ASSUME NEW u \in Tunnels PROVE TunnelOK(u)'
    <2>1. pc'[u] = IF u = s THEN l ELSE pc[u]
      BY DEF HandlerStep, Shape, Requests
    <2>2. ASSUME NEW d \in Dirs PROVE RelayOK(u, d)'
      <3>1. RelayOK(u, d)
        BY DEF TunnelOK
      <3>2. relay[u][d] = "cut" => pc'[u] \in {"closing", "recording", "done"}
        BY <2>1, <3>1 DEF RelayOK, HandlerStep, Onwards
      <3>3. QED
        BY <1>1, <3>1, <3>2 DEF RelayOK
    <2>3. StageOK(u)'
      <3>1. StageOK(u)
        BY DEF TunnelOK
      <3>2. CASE u # s
        BY <1>1, <2>1, <3>1, <3>2 DEF StageOK
      <3>3. CASE u = s /\ pc[s] = "new"
        BY <1>1, <2>1, <3>1, <3>3 DEF StageOK, HandlerStep, Onwards
      <3>4. CASE u = s /\ pc[s] = "open"
        <4>1. PICK d \in Dirs : relay[s][d] \in Ended
          BY <3>4 DEF HandlerStep, Onwards
        <4>2. RelayOK(s, d)
          BY <3>4 DEF TunnelOK
        <4>3. relay[s][d] \in {"eof", "failed"}
          BY <3>4, <4>1, <4>2 DEF RelayOK, Ended
        <4>4. l = "closing"
          BY <3>4 DEF HandlerStep, Onwards
        <4>5. QED
          BY <1>1, <2>1, <3>4, <4>3, <4>4 DEF StageOK
      <3>5. CASE u = s /\ pc[s] \in {"closing", "recording"}
        BY <1>1, <2>1, <3>1, <3>5 DEF StageOK, HandlerStep, Onwards
      <3>6. QED
        BY <3>2, <3>3, <3>4, <3>5 DEF HandlerStep, Onwards
    <2>4. QED
      BY <2>2, <2>3 DEF TunnelOK
  <1>4. QED
    BY <1>2, <1>3

\* A trace that covers its tunnel still does: that tunnel is done already.
LEMMA HandlerCovers ==
    ASSUME Shape, NEW s \in Requests, NEW l, HandlerStep(s, l),
           NEW t, Covers(t)
    PROVE  Covers(t)'
  <1>1. /\ relay' = relay /\ read' = read
        /\ pc[s] # "done"
        /\ pc' = [pc EXCEPT ![s] = l]
    BY DEF HandlerStep, Onwards, relays
  <1>2. SUFFICES ASSUME t.by \in Tunnels, ~t.error
                 PROVE  /\ pc'[t.by] = "done"
                        /\ \A d \in Dirs : relay'[t.by][d] \in Ended
                        /\ read'[t.by]["up"] = t.up
                        /\ read'[t.by]["down"] = t.down
    BY DEF Covers
  <1>3. pc[t.by] = "done" /\ t.by # s
    BY <1>1, <1>2 DEF Covers
  <1>4. QED
    BY <1>1, <1>2, <1>3 DEF Covers, Shape, Requests

LEMMA RingKept ==
    ASSUME RingOK, ring' = ring,
           \A t : Covers(t) => Covers(t)'
    PROVE  RingOK'
  BY DEF RingOK

LEMMA RingGrown ==
    ASSUME RingOK, NEW t, ring' = Append(ring, t),
           \A u : Covers(u) => Covers(u)',
           Covers(t)'
    PROVE  RingOK'
  BY AppendFacts DEF RingOK

\* A handler that is done without having opened a tunnel.
LEMMA DoneOK ==
    ASSUME AccountInv, NEW s \in Requests, pc[s] = "new",
           pc' = [pc EXCEPT ![s] = "done"], UNCHANGED relays,
           UNCHANGED activeTunnels,
           \/ ring' = ring
           \/ \E t : ring' = Append(ring, t) /\ Covers(t)'
    PROVE  AccountInv'
  <1>1. HandlerStep(s, "done")
    BY DEF HandlerStep, Onwards
  <1>2. Shape' /\ \A u \in Tunnels : TunnelOK(u)'
    BY <1>1, HandlerTunnels DEF AccountInv
  <1>3. Connected' = Connected
    BY DEF Connected, AccountInv, Shape, Requests
  <1>4. Counted'
    BY <1>3, CountSame DEF AccountInv
  <1>5. \A t : Covers(t) => Covers(t)'
    BY <1>1, HandlerCovers DEF AccountInv
  <1>6. RingOK'
    BY <1>5, RingKept, RingGrown DEF AccountInv
  <1>7. QED
    BY <1>2, <1>4, <1>6 DEF AccountInv

LEMMA RejectOK ==
    ASSUME AccountInv, NEW s \in Requests, Reject(s)
    PROVE  AccountInv'
  BY DoneOK DEF Reject, Goto, store

LEMMA EgressFailsOK ==
    ASSUME AccountInv, NEW s \in Requests, EgressFails(s)
    PROVE  AccountInv'
  <1>1. s \notin Tunnels
    BY KindsAssumption DEF EgressFails
  <1>2. PICK t : t = Trace(s, 400, TRUE, "DIRECT", 1, 0) /\ ring' = Append(ring, t)
    BY DEF EgressFails, Record
  <1>3. Covers(t)'
    <2>1. t.by = s
      BY <1>2 DEF Trace
    <2>2. QED
      BY <1>1, <2>1 DEF Covers
  <1>4. /\ pc[s] = "new" /\ pc' = [pc EXCEPT ![s] = "done"]
        /\ UNCHANGED relays /\ UNCHANGED activeTunnels
    BY DEF EgressFails, Goto, Record
  <1>5. QED
    BY <1>2, <1>3, <1>4, DoneOK

LEMMA AnswerOK ==
    ASSUME AccountInv, NEW s \in Requests, Answer(s)
    PROVE  AccountInv'
  <1>1. s \notin Tunnels
    BY KindsAssumption DEF Answer
  <1>2. \E status, error, down :
            Record(Trace(s, status, error, Area, 1, down))
    BY ZenonT(60) DEF Answer
  <1>3. PICK status, error, down, t :
            /\ t = Trace(s, status, error, Area, 1, down)
            /\ ring' = Append(ring, t)
    BY <1>2 DEF Record
  <1>4. Covers(t)'
    <2>1. t.by = s
      BY <1>3 DEF Trace
    <2>2. QED
      BY <1>1, <2>1 DEF Covers
  <1>5. /\ pc[s] = "new" /\ pc' = [pc EXCEPT ![s] = "done"]
        /\ UNCHANGED relays /\ UNCHANGED activeTunnels
    BY <1>2 DEF Answer, Goto, Record
  <1>6. QED
    BY <1>3, <1>4, <1>5, DoneOK

LEMMA OpenFailsOK ==
    ASSUME AccountInv, NEW s \in Requests, OpenFails(s)
    PROVE  AccountInv'
  <1>1. \E status : Record(Trace(s, status, TRUE, Area, 0, 0))
    BY ZenonT(60) DEF OpenFails
  <1>2. PICK status, t : /\ t = Trace(s, status, TRUE, Area, 0, 0)
                         /\ ring' = Append(ring, t)
    BY <1>1 DEF Record
  <1>3. Covers(t)'
    <2>1. t.error = TRUE
      BY <1>2 DEF Trace
    <2>2. QED
      BY <2>1 DEF Covers
  <1>4. /\ pc[s] = "new" /\ pc' = [pc EXCEPT ![s] = "done"]
        /\ UNCHANGED relays /\ UNCHANGED activeTunnels
    BY <1>1 DEF OpenFails, Goto, Record
  <1>5. QED
    BY <1>2, <1>3, <1>4, DoneOK

\* The stages of a tunnel.
LEMMA OpenOK ==
    ASSUME AccountInv, NEW s \in Requests, Open(s)
    PROVE  AccountInv'
  <1>1. s \in Tunnels /\ HandlerStep(s, "open")
    BY DEF Open, HandlerStep, Onwards, Goto
  <1>2. Shape' /\ \A u \in Tunnels : TunnelOK(u)'
    BY <1>1, HandlerTunnels DEF AccountInv
  <1>3. Counted'
    BY <1>1, CountUp DEF AccountInv, Open, Goto
  <1>4. \A t : Covers(t) => Covers(t)'
    BY <1>1, HandlerCovers DEF AccountInv
  <1>5. RingOK'
    BY <1>4, RingKept DEF AccountInv, Open
  <1>6. QED
    BY <1>2, <1>3, <1>5 DEF AccountInv

LEMMA CloseBothOK ==
    ASSUME AccountInv, NEW s \in Requests, CloseBoth(s)
    PROVE  AccountInv'
  <1>1. HandlerStep(s, "closing")
    BY DEF CloseBoth, HandlerStep, Onwards, Goto
  <1>2. Shape' /\ \A u \in Tunnels : TunnelOK(u)'
    BY <1>1, HandlerTunnels DEF AccountInv
  <1>3. Connected' = Connected
    BY DEF Connected, AccountInv, Shape, CloseBoth, Goto, Requests
  <1>4. Counted'
    BY <1>3, CountSame DEF AccountInv, CloseBoth, store
  <1>5. \A t : Covers(t) => Covers(t)'
    BY <1>1, HandlerCovers DEF AccountInv
  <1>6. RingOK'
    BY <1>5, RingKept DEF AccountInv, CloseBoth, store
  <1>7. QED
    BY <1>2, <1>4, <1>6 DEF AccountInv

LEMMA TunnelClosedOK ==
    ASSUME AccountInv, NEW s \in Requests, TunnelClosed(s)
    PROVE  AccountInv'
  <1>1. s \in Tunnels /\ HandlerStep(s, "recording")
    BY DEF TunnelClosed, HandlerStep, Onwards, Goto
  <1>2. Shape' /\ \A u \in Tunnels : TunnelOK(u)'
    BY <1>1, HandlerTunnels DEF AccountInv
  <1>3. Counted'
    BY <1>1, CountDown DEF AccountInv, TunnelClosed, Goto
  <1>4. \A t : Covers(t) => Covers(t)'
    BY <1>1, HandlerCovers DEF AccountInv
  <1>5. RingOK'
    BY <1>4, RingKept DEF AccountInv, TunnelClosed
  <1>6. QED
    BY <1>2, <1>3, <1>5 DEF AccountInv

LEMMA RecordTunnelOK ==
    ASSUME AccountInv, NEW s \in Requests, RecordTunnel(s)
    PROVE  AccountInv'
  <1>1. s \in Tunnels /\ HandlerStep(s, "done")
    BY DEF RecordTunnel, HandlerStep, Onwards, Goto
  <1>2. Shape' /\ \A u \in Tunnels : TunnelOK(u)'
    BY <1>1, HandlerTunnels DEF AccountInv
  <1>3. Connected' = Connected
    BY DEF Connected, AccountInv, Shape, RecordTunnel, Goto, Requests
  <1>4. Counted'
    BY <1>3, CountSame DEF AccountInv, RecordTunnel, Record
  <1>5. \A t : Covers(t) => Covers(t)'
    BY <1>1, HandlerCovers DEF AccountInv
  <1>6. PICK t : /\ t = Trace(s, 101, FALSE, Area, read[s]["up"], read[s]["down"])
                 /\ ring' = Append(ring, t)
    BY DEF RecordTunnel, Record
  <1>7. t.by = s /\ t.up = read[s]["up"] /\ t.down = read[s]["down"]
    BY <1>6 DEF Trace
  <1>8. Covers(t)'
    <2>1. /\ pc'[s] = "done" /\ relay' = relay /\ read' = read
      BY DEF RecordTunnel, Goto, relays, AccountInv, Shape
    <2>2. \A d \in Dirs : relay[s][d] \in Ended
      BY <1>1 DEF AccountInv, TunnelOK, StageOK, RecordTunnel
    <2>3. QED
      BY <1>7, <2>1, <2>2 DEF Covers
  <1>9. RingOK'
    BY <1>5, <1>6, <1>8, RingGrown DEF AccountInv
  <1>10. QED
    BY <1>2, <1>4, <1>9 DEF AccountInv

-----------------------------------------------------------------------------
(* Steps of a relay or of a peer: one direction of one tunnel changes.     *)

LEMMA SetDirection ==
    ASSUME NEW S, NEW f \in [Tunnels -> [Dirs -> S]],
           NEW s \in Tunnels, NEW d \in Dirs, NEW v \in S,
           NEW g, g = [f EXCEPT ![s][d] = v]
    PROVE  /\ g \in [Tunnels -> [Dirs -> S]]
           /\ g[s][d] = v
           /\ \A u \in Tunnels, e \in Dirs :
                 u # s \/ e # d => g[u][e] = f[u][e]
  OBVIOUS

DirectionStep(s, d) ==
    /\ UNCHANGED <<pc, store>>
    /\ \A u \in Tunnels, e \in Dirs : u # s \/ e # d =>
          /\ relay'[u][e] = relay[u][e] /\ sent'[u][e] = sent[u][e]
          /\ read'[u][e] = read[u][e] /\ written'[u][e] = written[u][e]
    /\ gone \subseteq gone'
    /\ pc[s] # "open" => gone' = gone
    /\ \A u \in Tunnels, e \in Dirs : u # s =>
          (<<u, e>> \in gone' => <<u, e>> \in gone)
    /\ relay[s][d] \in Ended => /\ relay'[s][d] = relay[s][d]
                                /\ read'[s][d] = read[s][d]

LEMMA DirectionOK ==
    ASSUME AccountInv, NEW s \in Tunnels, NEW d \in Dirs,
           DirectionStep(s, d), Shape', RelayOK(s, d)'
    PROVE  AccountInv'
  <1>1. pc' = pc /\ activeTunnels' = activeTunnels /\ ring' = ring
    BY DEF DirectionStep, store
  <1>2. ASSUME NEW u \in Tunnels PROVE TunnelOK(u)'
    <2>1. TunnelOK(u)
      BY DEF AccountInv
    <2>2. ASSUME NEW e \in Dirs, relay[u][e] \in Ended
          PROVE  relay'[u][e] = relay[u][e]
      BY <2>2 DEF DirectionStep
    <2>3. ASSUME NEW e \in Dirs PROVE RelayOK(u, e)'
      <3>1. CASE u = s /\ e = d
        BY <3>1
      <3>2. CASE u # s \/ e # d
        <4>1. RelayOK(u, e)
          BY <2>1 DEF TunnelOK
        <4>2. /\ relay'[u][e] = relay[u][e] /\ sent'[u][e] = sent[u][e]
              /\ read'[u][e] = read[u][e] /\ written'[u][e] = written[u][e]
              /\ gone \subseteq gone'
          BY <3>2 DEF DirectionStep
        <4>3. QED
          BY <1>1, <4>1, <4>2 DEF RelayOK
      <3>3. QED
        BY <3>1, <3>2
    <2>4. StageOK(u)'
      <3>1. StageOK(u)
        BY <2>1 DEF TunnelOK
      <3>2. pc[u] # "open" =>
               \A e \in Dirs : <<u, e>> \in gone' => <<u, e>> \in gone
        BY DEF DirectionStep
      <3>3. pc'[u] = "new" => \A e \in Dirs : <<u, e>> \notin gone'
        BY <1>1, <3>1, <3>2 DEF StageOK
      <3>4. ASSUME pc'[u] \in {"closing", "recording", "done"},
                   NEW e \in Dirs, <<u, e>> \in gone'
            PROVE  \E f \in Dirs : relay'[u][f] \in {"eof", "failed"}
        <4>1. <<u, e>> \in gone
          BY <1>1, <3>2, <3>4
        <4>2. PICK f \in Dirs : relay[u][f] \in {"eof", "failed"}
          BY <1>1, <3>1, <3>4, <4>1 DEF StageOK
        <4>3. QED
          BY <2>2, <4>2 DEF Ended
      <3>5. pc'[u] = "recording" => \A e \in Dirs : relay'[u][e] \in Ended
        BY <1>1, <2>2, <3>1 DEF StageOK
      <3>6. QED
        BY <3>3, <3>4, <3>5 DEF StageOK
    <2>5. QED
      BY <2>3, <2>4 DEF TunnelOK
  <1>3. Connected' = Connected
    BY <1>1 DEF Connected
  <1>4. Counted'
    BY <1>1, <1>3, CountSame DEF AccountInv
  <1>5. ASSUME NEW t, Covers(t) PROVE Covers(t)'
    <2>1. SUFFICES ASSUME t.by \in Tunnels, ~t.error
                   PROVE  /\ pc'[t.by] = "done"
                          /\ \A e \in Dirs : relay'[t.by][e] \in Ended
                          /\ read'[t.by]["up"] = t.up
                          /\ read'[t.by]["down"] = t.down
      BY DEF Covers
    <2>2. /\ pc[t.by] = "done"
          /\ \A e \in Dirs : relay[t.by][e] \in Ended
          /\ read[t.by]["up"] = t.up /\ read[t.by]["down"] = t.down
      BY <1>5, <2>1 DEF Covers
    <2>3. ASSUME NEW e \in Dirs
          PROVE  /\ relay'[t.by][e] = relay[t.by][e]
                 /\ read'[t.by][e] = read[t.by][e]
      BY <2>1, <2>2 DEF DirectionStep
    <2>4. "up" \in Dirs /\ "down" \in Dirs
      BY DEF Dirs
    <2>5. QED
      BY <1>1, <2>2, <2>3, <2>4
  <1>6. RingOK'
    BY <1>1, <1>5, RingKept DEF AccountInv
  <1>7. QED
    BY <1>2, <1>4, <1>6 DEF AccountInv

\* What is known of the direction before the step.
LEMMA DirectionFacts ==
    ASSUME AccountInv, NEW s \in Tunnels, NEW d \in Dirs
    PROVE  /\ RelayOK(s, d) /\ pc \in [Requests -> Stages]
           /\ relay \in [Tunnels -> [Dirs -> Relays]]
           /\ sent \in Messages /\ read \in Messages /\ written \in Messages
           /\ relay[s][d] \in Relays /\ sent[s][d] \in Nat
           /\ read[s][d] \in Nat /\ written[s][d] \in Nat
  BY DEF AccountInv, TunnelOK, Shape, Messages

LEMMA ReadOK ==
    ASSUME AccountInv, NEW s \in Tunnels, NEW d \in Dirs, Read(s, d)
    PROVE  AccountInv'
  <1>1. /\ pc' = pc /\ sent' = sent /\ written' = written /\ gone' = gone
        /\ UNCHANGED store
        /\ relay[s][d] = "reading" /\ read[s][d] < sent[s][d]
        /\ relay' = [relay EXCEPT ![s][d] = "writing"]
        /\ read' = [read EXCEPT ![s][d] = read[s][d] + 1]
    BY DEF Read, Turn
  <1>2. /\ relay' \in [Tunnels -> [Dirs -> Relays]]
        /\ relay'[s][d] = "writing"
        /\ \A u \in Tunnels, e \in Dirs :
              u # s \/ e # d => relay'[u][e] = relay[u][e]
    BY <1>1, DirectionFacts, SetDirection DEF Relays
  <1>3. /\ read' \in Messages
        /\ read'[s][d] = read[s][d] + 1
        /\ \A u \in Tunnels, e \in Dirs :
              u # s \/ e # d => read'[u][e] = read[u][e]
    BY <1>1, DirectionFacts, SetDirection DEF Messages
  <1>4. Shape'
    BY <1>1, <1>2, <1>3, DirectionFacts DEF Shape
  <1>5. DirectionStep(s, d)
    BY <1>1, <1>2, <1>3 DEF DirectionStep, Ended
  <1>6. RelayOK(s, d)'
    <2>1. /\ sent[s][d] \in Nat /\ read[s][d] \in Nat
          /\ written[s][d] = read[s][d] /\ read[s][d] < sent[s][d]
      BY <1>1, DirectionFacts DEF RelayOK
    <2>2. /\ sent'[s][d] = sent[s][d] /\ written'[s][d] = written[s][d]
          /\ read'[s][d] = read[s][d] + 1
      BY <1>1, <1>3
    <2>3. QED
      BY <1>2, <2>1, <2>2 DEF RelayOK
  <1>7. QED
    BY <1>4, <1>5, <1>6, DirectionOK

LEMMA ReadEndsOK ==
    ASSUME AccountInv, NEW s \in Tunnels, NEW d \in Dirs, ReadEnds(s, d)
    PROVE  AccountInv'
  <1>1. /\ pc' = pc /\ sent' = sent /\ read' = read /\ written' = written
        /\ gone' = gone /\ UNCHANGED store
        /\ relay[s][d] = "reading" /\ read[s][d] = sent[s][d]
        /\ <<s, d>> \in gone
        /\ relay' = [relay EXCEPT ![s][d] = "eof"]
    BY DEF ReadEnds, Turn
  <1>2. /\ relay' \in [Tunnels -> [Dirs -> Relays]]
        /\ relay'[s][d] = "eof"
        /\ \A u \in Tunnels, e \in Dirs :
              u # s \/ e # d => relay'[u][e] = relay[u][e]
    BY <1>1, DirectionFacts, SetDirection DEF Relays, Ended
  <1>3. Shape'
    BY <1>1, <1>2, DirectionFacts DEF Shape
  <1>4. DirectionStep(s, d)
    BY <1>1, <1>2 DEF DirectionStep, Ended
  <1>5. RelayOK(s, d)'
    BY <1>1, <1>2, DirectionFacts, ZenonT(60) DEF RelayOK
  <1>6. QED
    BY <1>3, <1>4, <1>5, DirectionOK

LEMMA WriteOK ==
    ASSUME AccountInv, NEW s \in Tunnels, NEW d \in Dirs, Write(s, d)
    PROVE  AccountInv'
  <1>1. /\ pc' = pc /\ sent' = sent /\ read' = read /\ gone' = gone
        /\ UNCHANGED store
        /\ relay[s][d] = "writing"
        /\ relay' = [relay EXCEPT ![s][d] = "reading"]
        /\ written' = [written EXCEPT ![s][d] = written[s][d] + 1]
    BY DEF Write, Turn
  <1>2. /\ relay' \in [Tunnels -> [Dirs -> Relays]]
        /\ relay'[s][d] = "reading"
        /\ \A u \in Tunnels, e \in Dirs :
              u # s \/ e # d => relay'[u][e] = relay[u][e]
    BY <1>1, DirectionFacts, SetDirection DEF Relays
  <1>3. /\ written' \in Messages
        /\ written'[s][d] = written[s][d] + 1
        /\ \A u \in Tunnels, e \in Dirs :
              u # s \/ e # d => written'[u][e] = written[u][e]
    BY <1>1, DirectionFacts, SetDirection DEF Messages
  <1>4. Shape'
    BY <1>1, <1>2, <1>3, DirectionFacts DEF Shape
  <1>5. DirectionStep(s, d)
    BY <1>1, <1>2, <1>3 DEF DirectionStep, Ended
  <1>6. RelayOK(s, d)'
    <2>1. /\ sent[s][d] \in Nat /\ read[s][d] = written[s][d] + 1
          /\ written[s][d] \in Nat /\ read[s][d] <= sent[s][d]
      BY <1>1, DirectionFacts DEF RelayOK
    <2>2. /\ sent'[s][d] = sent[s][d] /\ read'[s][d] = read[s][d]
          /\ written'[s][d] = read[s][d]
      BY <1>1, <1>3, <2>1
    <2>3. QED
      BY <1>2, <2>1, <2>2 DEF RelayOK
  <1>7. QED
    BY <1>4, <1>5, <1>6, DirectionOK

LEMMA WriteFailsOK ==
    ASSUME AccountInv, NEW s \in Tunnels, NEW d \in Dirs, WriteFails(s, d)
    PROVE  AccountInv'
  <1>1. /\ pc' = pc /\ sent' = sent /\ read' = read /\ written' = written
        /\ gone' = gone /\ UNCHANGED store
        /\ relay[s][d] = "writing" /\ <<s, Other(d)>> \in gone
        /\ relay' = [relay EXCEPT ![s][d] = "failed"]
    BY DEF WriteFails, Turn
  <1>2. /\ relay' \in [Tunnels -> [Dirs -> Relays]]
        /\ relay'[s][d] = "failed"
        /\ \A u \in Tunnels, e \in Dirs :
              u # s \/ e # d => relay'[u][e] = relay[u][e]
    BY <1>1, DirectionFacts, SetDirection DEF Relays, Ended
  <1>3. Shape'
    BY <1>1, <1>2, DirectionFacts DEF Shape
  <1>4. DirectionStep(s, d)
    BY <1>1, <1>2 DEF DirectionStep, Ended
  <1>5. RelayOK(s, d)'
    BY <1>1, <1>2, DirectionFacts, ZenonT(60) DEF RelayOK
  <1>6. QED
    BY <1>3, <1>4, <1>5, DirectionOK

LEMMA CutOK ==
    ASSUME AccountInv, NEW s \in Tunnels, NEW d \in Dirs, Cut(s, d)
    PROVE  AccountInv'
  <1>1. /\ pc' = pc /\ sent' = sent /\ read' = read /\ gone' = gone
        /\ UNCHANGED store
        /\ pc[s] \in {"closing", "recording", "done"}
        /\ relay[s][d] \in {"reading", "writing"}
        /\ relay' = [relay EXCEPT ![s][d] = "cut"]
    BY DEF Cut, Turn
  <1>2. \/ written' = written
        \/ /\ relay[s][d] = "writing"
           /\ written' = [written EXCEPT ![s][d] = written[s][d] + 1]
    BY DEF Cut
  <1>3. /\ relay' \in [Tunnels -> [Dirs -> Relays]]
        /\ relay'[s][d] = "cut"
        /\ \A u \in Tunnels, e \in Dirs :
              u # s \/ e # d => relay'[u][e] = relay[u][e]
    BY <1>1, DirectionFacts, SetDirection DEF Relays, Ended
  <1>4. /\ sent[s][d] \in Nat /\ read[s][d] \in Nat /\ written[s][d] \in Nat
        /\ written[s][d] <= read[s][d] /\ read[s][d] <= sent[s][d]
        /\ relay[s][d] = "writing" => read[s][d] = written[s][d] + 1
    BY DirectionFacts DEF RelayOK
  <1>5. /\ written' \in Messages
        /\ written'[s][d] <= read[s][d]
        /\ \A u \in Tunnels, e \in Dirs :
              u # s \/ e # d => written'[u][e] = written[u][e]
    <2>1. CASE written' = written
      BY <1>4, <2>1, DirectionFacts
    <2>2. CASE /\ relay[s][d] = "writing"
               /\ written' = [written EXCEPT ![s][d] = written[s][d] + 1]
      <3>1. /\ written' \in Messages
            /\ written'[s][d] = written[s][d] + 1
            /\ \A u \in Tunnels, e \in Dirs :
                  u # s \/ e # d => written'[u][e] = written[u][e]
        BY <2>2, DirectionFacts, SetDirection DEF Messages
      <3>2. QED
        BY <1>4, <2>2, <3>1
    <2>3. QED
      BY <1>2, <2>1, <2>2
  <1>6. Shape'
    BY <1>1, <1>3, <1>5, DirectionFacts DEF Shape
  <1>7. DirectionStep(s, d)
    BY <1>1, <1>3, <1>5 DEF DirectionStep, Ended
  <1>8. RelayOK(s, d)'
    BY <1>1, <1>3, <1>4, <1>5 DEF RelayOK
  <1>9. QED
    BY <1>6, <1>7, <1>8, DirectionOK

\* The peer of a relay that has come to its end has closed and sends no more.
LEMMA PeerSendsOK ==
    ASSUME AccountInv, NEW s \in Tunnels, NEW d \in Dirs, PeerSends(s, d)
    PROVE  AccountInv'
  <1>1. /\ pc' = pc /\ relay' = relay /\ read' = read /\ written' = written
        /\ gone' = gone /\ UNCHANGED store
        /\ <<s, d>> \notin gone
        /\ sent' = [sent EXCEPT ![s][d] = sent[s][d] + 1]
    BY DEF PeerSends
  <1>2. /\ sent' \in Messages
        /\ sent'[s][d] = sent[s][d] + 1
        /\ \A u \in Tunnels, e \in Dirs :
              u # s \/ e # d => sent'[u][e] = sent[u][e]
    BY <1>1, DirectionFacts, SetDirection DEF Messages
  <1>3. Shape'
    BY <1>1, <1>2, DirectionFacts DEF Shape
  <1>4. DirectionStep(s, d)
    BY <1>1, <1>2 DEF DirectionStep
  <1>5. RelayOK(s, d)'
    <2>1. /\ RelayOK(s, d)
          /\ sent[s][d] \in Nat /\ read[s][d] \in Nat
      BY DirectionFacts
    <2>2. read[s][d] <= sent'[s][d]
      BY <1>2, <2>1 DEF RelayOK
    <2>3. relay[s][d] # "eof"
      BY <1>1, <2>1 DEF RelayOK
    <2>4. QED
      BY <1>1, <2>1, <2>2, <2>3 DEF RelayOK
  <1>6. QED
    BY <1>3, <1>4, <1>5, DirectionOK

LEMMA PeerClosesOK ==
    ASSUME AccountInv, NEW s \in Tunnels, NEW d \in Dirs, PeerCloses(s, d)
    PROVE  AccountInv'
  <1>1. /\ pc' = pc /\ relay' = relay /\ sent' = sent /\ read' = read
        /\ written' = written /\ UNCHANGED store
        /\ pc[s] = "open" /\ gone' = gone \cup {<<s, d>>}
    BY DEF PeerCloses
  <1>2. Shape'
    BY <1>1, DirectionFacts DEF Shape
  <1>3. DirectionStep(s, d)
    BY <1>1 DEF DirectionStep
  <1>4. RelayOK(s, d)'
    BY <1>1, DirectionFacts DEF RelayOK
  <1>5. QED
    BY <1>2, <1>3, <1>4, DirectionOK

-----------------------------------------------------------------------------
(* The invariant holds initially and is preserved by every step.           *)

LEMMA OthersOK ==
    ASSUME AccountInv, UNCHANGED <<pc, relays, store>>
    PROVE  AccountInv'
  <1>1. /\ pc' = pc /\ relay' = relay /\ sent' = sent /\ read' = read
        /\ written' = written /\ gone' = gone
        /\ activeTunnels' = activeTunnels /\ ring' = ring
    BY DEF relays, store
  <1>2. Shape' /\ Counted' /\ RingOK'
    BY <1>1 DEF AccountInv, Shape, Counted, Connected, RingOK, Covers
  <1>3. \A u \in Tunnels : TunnelOK(u)'
    BY <1>1 DEF AccountInv, TunnelOK, StageOK, RelayOK
  <1>4. QED
    BY <1>2, <1>3 DEF AccountInv

LEMMA InitOK == Init => AccountInv
  <1> SUFFICES ASSUME Init PROVE AccountInv
    OBVIOUS
  <1>1. /\ pc = [s \in Requests |-> "new"]
        /\ relay = [s \in Tunnels |-> [d \in Dirs |-> "reading"]]
        /\ sent = [s \in Tunnels |-> [d \in Dirs |-> 0]]
        /\ read = sent /\ written = sent /\ gone = {}
        /\ activeTunnels = 0 /\ ring = <<>>
    BY DEF Init
  <1>2. Shape
    BY <1>1 DEF Shape, Stages, Relays, Messages
  <1>3. ASSUME NEW u \in Tunnels PROVE TunnelOK(u)
    BY <1>1 DEF TunnelOK, StageOK, RelayOK, Requests
  <1>4. Connected = {}
    BY <1>1 DEF Connected, Requests
  <1>5. Counted
    BY <1>1, <1>4, FS_EmptySet DEF Counted
  <1>6. ring \in Seq({}) /\ DOMAIN ring = {}
    BY <1>1
  <1>7. RingOK
    BY <1>6 DEF RingOK, IsSequence
  <1>8. QED
    BY <1>2, <1>3, <1>5, <1>7 DEF AccountInv

LEMMA NextOK == AccountInv /\ [Next]_vars => AccountInv'
  <1> SUFFICES ASSUME AccountInv, [Next]_vars PROVE AccountInv'
    OBVIOUS
  <1>1. ASSUME NEW s \in Requests,
               Reject(s) \/ EgressFails(s) \/ Answer(s) \/ OpenFails(s)
                 \/ Open(s) \/ CloseBoth(s) \/ TunnelClosed(s)
                 \/ RecordTunnel(s)
        PROVE  AccountInv'
    BY <1>1, RejectOK, EgressFailsOK, AnswerOK, OpenFailsOK, OpenOK,
       CloseBothOK, TunnelClosedOK, RecordTunnelOK
  <1>2. ASSUME NEW s \in Tunnels, NEW d \in Dirs,
               Read(s, d) \/ ReadEnds(s, d) \/ Write(s, d)
                 \/ WriteFails(s, d) \/ Cut(s, d) \/ PeerSends(s, d)
                 \/ PeerCloses(s, d)
        PROVE  AccountInv'
    BY <1>2, ReadOK, ReadEndsOK, WriteOK, WriteFailsOK, CutOK, PeerSendsOK,
       PeerClosesOK
  <1>3. CASE Tick \/ AddGroupingRule \/ AddFoldingRule \/ UNCHANGED vars
    <2>1. UNCHANGED <<pc, relays, store>>
      BY <1>3 DEF Tick, AddGroupingRule, AddFoldingRule, vars
    <2>2. QED
      BY <2>1, OthersOK
  <1>4. QED
    BY <1>1, <1>2, <1>3 DEF Next

THEOREM AccountKept == Spec => []AccountInv
  <1>1. Init => AccountInv
    BY InitOK
  <1>2. AccountInv /\ [Next]_vars => AccountInv'
    BY NextOK
  <1>3. QED
    BY <1>1, <1>2, PTL DEF Spec

-----------------------------------------------------------------------------
(* What follows from it.                                                   *)

LEMMA AccountIsRight == AccountInv => TunnelsAccounted
  <1> SUFFICES ASSUME AccountInv PROVE TunnelsAccounted
    OBVIOUS
  <1>1. activeTunnels =
           Cardinality({s \in Tunnels : pc[s] \in {"open", "closing"}})
    BY DEF AccountInv, Counted, Connected
  <1>2. ASSUME NEW i \in DOMAIN ring, NEW t, t = ring[i],
               t.by \in Tunnels, ~t.error
        PROVE  /\ \A d \in Dirs : relay[t.by][d] \in Ended
               /\ written[t.by]["up"] <= t.up
               /\ written[t.by]["down"] <= t.down
    <2>1. Covers(t)
      BY <1>2 DEF AccountInv, RingOK
    <2>2. "up" \in Dirs /\ "down" \in Dirs
      BY DEF Dirs
    <2>3. RelayOK(t.by, "up") /\ RelayOK(t.by, "down")
      BY <1>2, <2>2 DEF AccountInv, TunnelOK
    <2>4. QED
      BY <1>2, <2>1, <2>3 DEF Covers, RelayOK
  <1>3. QED
    BY <1>1, <1>2 DEF TunnelsAccounted

LEMMA LastWordIsDelivered == AccountInv => LastWordDelivered
  <1> SUFFICES ASSUME AccountInv, NEW s \in Tunnels,
                      pc[s] \in {"closing", "recording", "done"},
                      <<s, "down">> \in gone, <<s, "up">> \notin gone,
                      sent[s]["up"] = 0
               PROVE  written[s]["down"] = sent[s]["down"]
    BY DEF LastWordDelivered
  <1>1. "up" \in Dirs /\ "down" \in Dirs
    BY DEF Dirs
  <1>2. StageOK(s) /\ RelayOK(s, "up") /\ RelayOK(s, "down")
    BY <1>1 DEF AccountInv, TunnelOK
  <1>3. PICK d \in Dirs : relay[s][d] \in {"eof", "failed"}
    BY <1>1, <1>2 DEF StageOK
  <1>4. relay[s]["up"] # "eof"
    BY <1>2 DEF RelayOK
  <1>5. relay[s]["up"] # "failed"
    <2>1. /\ read[s]["up"] \in Nat /\ written[s]["up"] \in Nat
      BY <1>1, DirectionFacts
    <2>2. QED
      BY <1>2, <2>1 DEF RelayOK
  <1>6. relay[s]["down"] # "failed"
    BY <1>2 DEF RelayOK, Other
  <1>7. relay[s]["down"] = "eof"
    BY <1>3, <1>4, <1>5, <1>6 DEF Dirs
  <1>8. QED
    BY <1>2, <1>7 DEF RelayOK

\* The counter of the Admin's dashboard is the number of connected tunnels,
\* and a trace is written when the tunnel is over, with every byte counted
\* (tunnel.go, TunnelOpened to recordTunnelTrace).
THEOREM TunnelsAlwaysAccounted == Spec => []TunnelsAccounted
  BY AccountKept, AccountIsRight, PTL

\* What a target sends before it closes reaches a client that is silent: the
\* teardown (tunnel.go, the two relays) never overtakes it.
THEOREM LastWordAlwaysDelivered == Spec => []LastWordDelivered
  BY AccountKept, LastWordIsDelivered, PTL

-----------------------------------------------------------------------------
(* Induction                                                               *)

Smaller == {ss \in Nat \X Nat : ss[1] < ss[2]}

LEMMA LeastOne ==
    ASSUME NEW T, T \subseteq Nat, T # {}
    PROVE  \E x \in T : \A y \in T : x <= y
  <1>1. IsWellFoundedOn(Smaller, Nat)
    <2>1. OpToRel(<, Nat) = {ss \in Nat \X Nat : ss[1] < ss[2]}
      BY Zenon DEF OpToRel
    <2>2. QED
      BY <2>1, NatLessThanWellFounded, Zenon DEF Smaller
  <1>2. PICK x \in T : \A y \in T : ~ (<<y, x>> \in Smaller)
    BY <1>1, WFMin, Zenon
  <1>3. ASSUME NEW y \in T
        PROVE  x <= y
    <2>1. x \in Nat /\ y \in Nat
      OBVIOUS
    <2>2. <<y, x>> \notin Smaller
      BY <1>2
    <2>3. ~ (y < x)
      BY <2>1, <2>2 DEF Smaller
    <2>4. QED
      BY <2>1, <2>3
  <1>4. QED
    BY <1>3

LEMMA Induction ==
    ASSUME NEW S, 0 \in S, \A n \in Nat : n \in S => n + 1 \in S
    PROVE  Nat \subseteq S
  <1>1. SUFFICES ASSUME NEW k \in Nat, k \notin S PROVE FALSE
    OBVIOUS
  <1>2. PICK x \in Nat \ S : \A y \in Nat \ S : x <= y
    BY <1>1, LeastOne
  <1>3. x # 0
    BY <1>2
  <1>4. x - 1 \in Nat
    BY <1>2, <1>3
  <1>5. x - 1 \in S
    BY <1>2, <1>4
  <1>6. QED
    BY <1>2, <1>4, <1>5

-----------------------------------------------------------------------------
(* Keep                                                                    *)

\* f[i] is what the loop of Keep has gathered after i elements.
Gathers(f, s, T, n) ==
    /\ f[0] = <<>>
    /\ \A i \in 1 .. n :
          f[i] = IF s[i] \in T THEN Append(f[i - 1], s[i]) ELSE f[i - 1]

LEMMA Gatherable ==
    ASSUME NEW S, NEW s, NEW T, NEW n \in Nat, \A i \in 1 .. n : s[i] \in S
    PROVE  \E f \in [0 .. n -> Seq(S)] : Gathers(f, s, T, n)
  <1> DEFINE P == {k \in Nat : k <= n =>
                       \E f \in [0 .. k -> Seq(S)] : Gathers(f, s, T, k)}
  <1>1. 0 \in P
    <2>1. <<>> \in Seq(S)
      OBVIOUS
    <2>2. [i \in 0 .. 0 |-> <<>>] \in [0 .. 0 -> Seq(S)]
      BY <2>1
    <2>3. Gathers([i \in 0 .. 0 |-> <<>>], s, T, 0)
      BY DEF Gathers
    <2>4. QED
      BY <2>2, <2>3
  <1>2. ASSUME NEW k \in Nat, k \in P
        PROVE  k + 1 \in P
    <2>1. SUFFICES ASSUME k + 1 <= n
                   PROVE  \E g \in [0 .. k + 1 -> Seq(S)] : Gathers(g, s, T, k + 1)
      OBVIOUS
    <2>2. k <= n /\ k + 1 \in 1 .. n
      BY <2>1
    <2>3. PICK f \in [0 .. k -> Seq(S)] : Gathers(f, s, T, k)
      BY <1>2, <2>2
    <2> DEFINE next == IF s[k + 1] \in T THEN Append(f[k], s[k + 1]) ELSE f[k]
               g == [i \in 0 .. k + 1 |-> IF i = k + 1 THEN next ELSE f[i]]
    <2>4. next \in Seq(S)
      <3>1. f[k] \in Seq(S) /\ s[k + 1] \in S
        BY <2>2, <2>3
      <3>2. Append(f[k], s[k + 1]) \in Seq(S)
        BY <3>1, AppendProperties
      <3>3. QED
        BY <3>1, <3>2
    <2>5. /\ g[k + 1] = next /\ g[k] = f[k]
          /\ \A i \in 0 .. k : g[i] = f[i]
      <3> HIDE DEF next
      <3>1. QED
        OBVIOUS
    <2>6. g \in [0 .. k + 1 -> Seq(S)]
      <3> HIDE DEF next
      <3>1. QED
        BY <2>3, <2>4
    <2>7. ASSUME NEW i \in 1 .. k + 1
          PROVE  g[i] = IF s[i] \in T THEN Append(g[i - 1], s[i]) ELSE g[i - 1]
      <3> HIDE DEF g
      <3>1. CASE i = k + 1
        <4>1. i - 1 = k
          BY <3>1
        <4>2. QED
          BY <2>5, <3>1, <4>1 DEF next
      <3>2. CASE i # k + 1
        <4>1. i \in 1 .. k /\ i - 1 \in 0 .. k
          BY <3>2
        <4>2. g[i] = f[i] /\ g[i - 1] = f[i - 1]
          BY <2>5, <4>1
        <4>3. QED
          BY <2>3, <4>1, <4>2 DEF Gathers
      <3>3. QED
        BY <3>1, <3>2
    <2>8. g[0] = <<>>
      <3> HIDE DEF g
      <3>1. QED
        BY <2>3, <2>5 DEF Gathers
    <2>9. Gathers(g, s, T, k + 1)
      <3> HIDE DEF g
      <3>1. QED
        BY <2>7, <2>8, Zenon DEF Gathers
    <2>10. QED
      BY <2>6, <2>9
  <1>3. n \in P
    <2> HIDE DEF P
    <2>1. QED
      BY <1>1, <1>2, Induction
  <1>4. QED
    BY <1>3

\* Keep computes what its loop gathers.
LEMMA KeepGathers ==
    ASSUME NEW S, NEW s \in Seq(S), NEW T, NEW n \in Nat, n = Len(s)
    PROVE  \E f : Gathers(f, s, T, n) /\ Keep(s, T) = f[n]
  <1> DEFINE loop(f) == [i \in 0 .. n |->
                 IF i = 0 THEN <<>>
                 ELSE IF s[i] \in T THEN Append(f[i - 1], s[i]) ELSE f[i - 1]]
             kept == CHOOSE f : f = loop(f)
  <1>1. Keep(s, T) = kept[n]
    BY Zenon DEF Keep
  <1>2. \E f : f = loop(f)
    <2>1. \A i \in 1 .. n : s[i] \in S
      OBVIOUS
    <2>2. PICK f \in [0 .. n -> Seq(S)] : Gathers(f, s, T, n)
      BY <2>1, Gatherable
    <2>3. f = [i \in 0 .. n |-> f[i]]
      BY <2>2
    <2>4. ASSUME NEW i \in 0 .. n
          PROVE  f[i] = IF i = 0 THEN <<>>
                        ELSE IF s[i] \in T THEN Append(f[i - 1], s[i]) ELSE f[i - 1]
      <3>1. i = 0 \/ i \in 1 .. n
        OBVIOUS
      <3>2. CASE i = 0
        BY <2>2, <3>2 DEF Gathers
      <3>3. CASE i \in 1 .. n
        <4>1. i # 0
          BY <3>3
        <4>2. QED
          BY <2>2, <3>3, <4>1, Zenon DEF Gathers
      <3>4. QED
        BY <3>1, <3>2, <3>3
    <2>5. QED
      BY <2>3, <2>4, ZenonT(60)
  <1>3. kept = loop(kept)
    BY <1>2, Zenon
  <1> HIDE DEF kept
  <1>4. \A i \in 0 .. n : kept[i] = loop(kept)[i]
    BY <1>3, Zenon
  <1>5. ASSUME NEW i \in 1 .. n
        PROVE  kept[i] = IF s[i] \in T THEN Append(kept[i - 1], s[i]) ELSE kept[i - 1]
    <2>1. i # 0 /\ i \in 0 .. n
      OBVIOUS
    <2>2. QED
      BY <1>4, <2>1, Zenon
  <1>6. kept[0] = <<>>
    <2>1. 0 \in 0 .. n
      OBVIOUS
    <2>2. QED
      BY <1>4, <2>1, Zenon
  <1>7. QED
    BY <1>1, <1>5, <1>6, Zenon DEF Gathers

-----------------------------------------------------------------------------
(* FlattenSeq                                                              *)

\* f[i] is what FlattenSeq has put together after i pieces.
Builds(f, seqs, n) ==
    \A i \in 1 .. n : f[i] = IF i = 1 THEN seqs[i] ELSE f[i - 1] \o seqs[i]

LEMMA Buildable ==
    ASSUME NEW S, NEW seqs, NEW n \in Nat, \A i \in 1 .. n : seqs[i] \in Seq(S)
    PROVE  \E f \in [1 .. n -> Seq(S)] : Builds(f, seqs, n)
  <1> DEFINE P == {k \in Nat : k <= n =>
                       \E f \in [1 .. k -> Seq(S)] : Builds(f, seqs, k)}
  <1>1. 0 \in P
    <2>1. [i \in 1 .. 0 |-> <<>>] \in [1 .. 0 -> Seq(S)]
      OBVIOUS
    <2>2. Builds([i \in 1 .. 0 |-> <<>>], seqs, 0)
      BY DEF Builds
    <2>3. QED
      BY <2>1, <2>2
  <1>2. ASSUME NEW k \in Nat, k \in P
        PROVE  k + 1 \in P
    <2>1. SUFFICES ASSUME k + 1 <= n
                   PROVE  \E g \in [1 .. k + 1 -> Seq(S)] : Builds(g, seqs, k + 1)
      OBVIOUS
    <2>2. k <= n /\ k + 1 \in 1 .. n
      BY <2>1
    <2>3. PICK f \in [1 .. k -> Seq(S)] : Builds(f, seqs, k)
      BY <1>2, <2>2
    <2> DEFINE next == IF k = 0 THEN seqs[1] ELSE f[k] \o seqs[k + 1]
               g == [i \in 1 .. k + 1 |-> IF i = k + 1 THEN next ELSE f[i]]
    <2>4. next \in Seq(S)
      <3>1. CASE k = 0
        BY <2>2, <3>1
      <3>2. CASE k # 0
        <4>1. f[k] \in Seq(S) /\ seqs[k + 1] \in Seq(S)
          BY <2>2, <2>3, <3>2
        <4>2. QED
          BY <3>2, <4>1, ConcatProperties
      <3>3. QED
        BY <3>1, <3>2
    <2> HIDE DEF next
    <2>5. g \in [1 .. k + 1 -> Seq(S)]
      BY <2>3, <2>4
    <2>6. Builds(g, seqs, k + 1)
      <3>1. SUFFICES ASSUME NEW i \in 1 .. k + 1
                     PROVE  g[i] = IF i = 1 THEN seqs[i] ELSE g[i - 1] \o seqs[i]
        BY DEF Builds
      <3>2. CASE i = k + 1
        <4>1. g[i] = next
          BY <3>2
        <4>2. CASE k = 0
          BY <3>2, <4>1, <4>2 DEF next
        <4>3. CASE k # 0
          <5>1. g[k] = f[k]
            BY <4>3
          <5>2. i # 1 /\ i - 1 = k
            BY <3>2, <4>3
          <5>3. QED
            BY <3>2, <4>1, <4>3, <5>1, <5>2 DEF next
        <4>4. QED
          BY <4>2, <4>3
      <3>3. CASE i # k + 1
        <4>1. i \in 1 .. k
          BY <3>3
        <4>2. g[i] = f[i]
          BY <3>3
        <4>3. i # 1 => g[i - 1] = f[i - 1]
          BY <4>1
        <4>4. QED
          BY <2>3, <4>1, <4>2, <4>3 DEF Builds
      <3>4. QED
        BY <3>2, <3>3
    <2>7. QED
      BY <2>5, <2>6
  <1>3. n \in P
    <2> HIDE DEF P
    <2>1. QED
      BY <1>1, <1>2, Induction
  <1>4. QED
    BY <1>3

\* What is built of sequences over a set is one.
LEMMA BuiltTyped ==
    ASSUME NEW S, NEW seqs, NEW n \in Nat, \A i \in 1 .. n : seqs[i] \in Seq(S),
           NEW f, Builds(f, seqs, n)
    PROVE  \A i \in 1 .. n : f[i] \in Seq(S)
  <1> DEFINE P == {k \in Nat : k \in 1 .. n => f[k] \in Seq(S)}
  <1>1. 0 \in P
    OBVIOUS
  <1>2. ASSUME NEW k \in Nat, k \in P
        PROVE  k + 1 \in P
    <2>1. SUFFICES ASSUME k + 1 \in 1 .. n
                   PROVE  f[k + 1] \in Seq(S)
      OBVIOUS
    <2>2. CASE k = 0
      BY <2>1, <2>2 DEF Builds
    <2>3. CASE k # 0
      <3>1. k \in 1 .. n /\ k + 1 # 1 /\ (k + 1) - 1 = k
        BY <2>1, <2>3
      <3>2. f[k + 1] = f[k] \o seqs[k + 1]
        BY <2>1, <3>1 DEF Builds
      <3>3. f[k] \in Seq(S) /\ seqs[k + 1] \in Seq(S)
        BY <1>2, <2>1, <3>1
      <3>4. QED
        BY <3>2, <3>3, ConcatProperties
    <2>4. QED
      BY <2>2, <2>3
  <1>3. Nat \subseteq P
    <2> HIDE DEF P
    <2>1. QED
      BY <1>1, <1>2, Induction
  <1>4. QED
    BY <1>3

\* FlattenSeq is what Builds describes.
LEMMA FlattenBuilt ==
    ASSUME NEW S, NEW seqs \in Seq(Seq(S)), NEW n \in Nat, n = Len(seqs), n # 0
    PROVE  \E f : Builds(f, seqs, n) /\ FlattenSeq(seqs) = f[n]
  <1> DEFINE fl == CHOOSE f : f = [i \in 1 .. n |->
                       IF i = 1 THEN seqs[i] ELSE f[i - 1] \o seqs[i]]
  <1>1. \A i \in 1 .. n : seqs[i] \in Seq(S)
    OBVIOUS
  <1>2. PICK f \in [1 .. n -> Seq(S)] : Builds(f, seqs, n)
    BY <1>1, Buildable
  <1>3. f = [i \in 1 .. n |-> IF i = 1 THEN seqs[i] ELSE f[i - 1] \o seqs[i]]
    BY <1>2 DEF Builds
  <1>4. fl = [i \in 1 .. n |-> IF i = 1 THEN seqs[i] ELSE fl[i - 1] \o seqs[i]]
    BY <1>3, Zenon
  <1>5. Builds(fl, seqs, n)
    <2> HIDE DEF fl
    <2>1. QED
      BY <1>4 DEF Builds
  <1>6. FlattenSeq(seqs) = fl[n]
    BY Zenon DEF FlattenSeq
  <1> HIDE DEF fl
  <1>7. QED
    BY <1>5, <1>6

LEMMA FlattenTyped ==
    ASSUME NEW S, NEW seqs \in Seq(Seq(S))
    PROVE  FlattenSeq(seqs) \in Seq(S)
  <1>1. PICK n \in Nat : n = Len(seqs)
    OBVIOUS
  <1>2. CASE n = 0
    <2>1. Len(seqs) = 0
      BY <1>1, <1>2
    <2>2. FlattenSeq(seqs) = seqs
      BY <2>1, Zenon DEF FlattenSeq
    <2>3. seqs = <<>>
      <3>1. seqs # <<>> => Len(seqs) \in Nat \ {0}
        BY EmptySeq, Zenon
      <3>2. QED
        BY <2>1, <3>1
    <2>4. QED
      BY <2>2, <2>3
  <1>3. CASE n # 0
    <2>1. PICK f : Builds(f, seqs, n) /\ FlattenSeq(seqs) = f[n]
      BY <1>1, <1>3, FlattenBuilt
    <2>2. \A i \in 1 .. n : seqs[i] \in Seq(S)
      BY <1>1
    <2>3. \A i \in 1 .. n : f[i] \in Seq(S)
      BY <2>1, <2>2, BuiltTyped, Zenon
    <2>4. n \in 1 .. n
      BY <1>3
    <2>5. QED
      BY <2>1, <2>3, <2>4
  <1>4. QED
    BY <1>2, <1>3

-----------------------------------------------------------------------------
(* What Keep does with a list as a whole.                                  *)

LEMMA KeepTyped ==
    ASSUME NEW S, NEW s \in Seq(S), NEW T, NEW n \in Nat, n = Len(s),
           NEW f, Gathers(f, s, T, n)
    PROVE  \A i \in 0 .. n : f[i] \in Seq(S)
  <1> DEFINE P == {k \in Nat : k <= n => f[k] \in Seq(S)}
  <1>1. 0 \in P
    <2>1. f[0] = <<>> /\ <<>> \in Seq(S)
      BY EmptySeq DEF Gathers
    <2>2. QED
      BY <2>1
  <1>2. ASSUME NEW k \in Nat, k \in P
        PROVE  k + 1 \in P
    <2>1. SUFFICES ASSUME k + 1 <= n
                   PROVE  f[k + 1] \in Seq(S)
      OBVIOUS
    <2>2. k + 1 \in 1 .. n /\ (k + 1) - 1 = k /\ k <= n
      BY <2>1
    <2>3. f[k + 1] = IF s[k + 1] \in T THEN Append(f[k], s[k + 1]) ELSE f[k]
      BY <2>2 DEF Gathers
    <2>4. f[k] \in Seq(S) /\ s[k + 1] \in S
      BY <1>2, <2>2
    <2>5. QED
      BY <2>3, <2>4, AppendProperties
  <1>3. Nat \subseteq P
    <2> HIDE DEF P
    <2>1. QED
      BY <1>1, <1>2, Induction
  <1>4. QED
    BY <1>3

\* A list without elements of T.
LEMMA KeepNone ==
    ASSUME NEW S, NEW s \in Seq(S), NEW T, \A i \in 1 .. Len(s) : s[i] \notin T
    PROVE  Keep(s, T) = <<>>
  <1>1. PICK n \in Nat : n = Len(s)
    OBVIOUS
  <1>2. PICK f : Gathers(f, s, T, n) /\ Keep(s, T) = f[n]
    BY <1>1, KeepGathers
  <1> DEFINE P == {k \in Nat : k <= n => f[k] = <<>>}
  <1>3. 0 \in P
    BY <1>2 DEF Gathers
  <1>4. ASSUME NEW k \in Nat, k \in P
        PROVE  k + 1 \in P
    <2>1. SUFFICES ASSUME k + 1 <= n
                   PROVE  f[k + 1] = <<>>
      OBVIOUS
    <2>2. k + 1 \in 1 .. n /\ (k + 1) - 1 = k /\ k <= n
      BY <2>1
    <2>3. QED
      BY <1>1, <1>2, <1>4, <2>2 DEF Gathers
  <1>5. n \in P
    <2> HIDE DEF P
    <2>1. QED
      BY <1>3, <1>4, Induction
  <1>6. QED
    BY <1>2, <1>5

\* A list all of whose elements are in T.
LEMMA KeepAll ==
    ASSUME NEW S, NEW s \in Seq(S), NEW T, \A i \in 1 .. Len(s) : s[i] \in T
    PROVE  Keep(s, T) = s
  <1>1. PICK n \in Nat : n = Len(s)
    OBVIOUS
  <1>2. PICK f : Gathers(f, s, T, n) /\ Keep(s, T) = f[n]
    BY <1>1, KeepGathers
  <1>3. \A i \in 0 .. n : f[i] \in Seq(S)
    BY <1>1, <1>2, KeepTyped, Zenon
  <1> DEFINE P == {k \in Nat : k <= n => /\ Len(f[k]) = k
                                          /\ \A i \in 1 .. k : f[k][i] = s[i]}
  <1>4. 0 \in P
    BY <1>2 DEF Gathers
  <1>5. ASSUME NEW k \in Nat, k \in P
        PROVE  k + 1 \in P
    <2>1. SUFFICES ASSUME k + 1 <= n
                   PROVE  /\ Len(f[k + 1]) = k + 1
                          /\ \A i \in 1 .. k + 1 : f[k + 1][i] = s[i]
      OBVIOUS
    <2>2. k + 1 \in 1 .. n /\ (k + 1) - 1 = k /\ k <= n /\ k \in 0 .. n
      BY <2>1
    <2>3. f[k + 1] = Append(f[k], s[k + 1])
      BY <1>1, <1>2, <2>2 DEF Gathers
    <2>4. f[k] \in Seq(S) /\ s[k + 1] \in S /\ Len(f[k]) = k
      BY <1>1, <1>3, <1>5, <2>2
    <2>5. /\ Len(f[k + 1]) = k + 1
          /\ f[k + 1][k + 1] = s[k + 1]
          /\ \A i \in 1 .. k : f[k + 1][i] = f[k][i]
      BY <2>3, <2>4, AppendProperties
    <2>6. \A i \in 1 .. k : f[k][i] = s[i]
      BY <1>5, <2>2
    <2>7. QED
      BY <2>5, <2>6
  <1>6. n \in P
    <2> HIDE DEF P
    <2>1. QED
      BY <1>4, <1>5, Induction
  <1>7. f[n] \in Seq(S)
    BY <1>3
  <1>8. QED
    BY <1>1, <1>2, <1>6, <1>7, SeqEqual

\* Two lists one after the other: the provers take a defined relation better
\* than the operator.
Together(a, b, c) == c = a \o b

LEMMA TogetherMore ==
    ASSUME NEW S, NEW a \in Seq(S), NEW b \in Seq(S), NEW x \in S,
           NEW c, Together(a, b, c)
    PROVE  Together(a, Append(b, x), Append(c, x))
  <1>1. Append(a \o b, x) = a \o Append(b, x)
    OBVIOUS
  <1>2. QED
    BY <1>1, Zenon DEF Together
LEMMA KeepConcat ==
    ASSUME NEW S, NEW s \in Seq(S), NEW t \in Seq(S), NEW c, Together(s, t, c),
           NEW T
    PROVE  /\ Keep(s, T) \in Seq(S) /\ Keep(t, T) \in Seq(S)
           /\ Together(Keep(s, T), Keep(t, T), Keep(c, T))
  <1>1. PICK m \in Nat : m = Len(s)
    OBVIOUS
  <1>2. PICK n \in Nat : n = Len(t)
    OBVIOUS
  <1>3. PICK u \in Seq(S) : u = s \o t
    BY ConcatProperties
  <1>3a. PICK l \in Nat : l = m + n
    OBVIOUS
  <1>3b. \A i \in 1 .. l : u[i] = IF i <= m THEN s[i] ELSE t[i - m]
    BY <1>1, <1>2, <1>3, <1>3a, ConcatProperties
  <1>3c. l = Len(u)
    BY <1>1, <1>2, <1>3, <1>3a, ConcatProperties
  <1>4. PICK f : Gathers(f, s, T, m) /\ Keep(s, T) = f[m]
    BY <1>1, KeepGathers
  <1>5. PICK g : Gathers(g, t, T, n) /\ Keep(t, T) = g[n]
    BY <1>2, KeepGathers
  <1>6. PICK h : Gathers(h, u, T, l) /\ Keep(u, T) = h[l]
    BY <1>3c, KeepGathers
  <1>7. /\ \A i \in 0 .. m : f[i] \in Seq(S)
        /\ \A i \in 0 .. n : g[i] \in Seq(S)
    BY <1>1, <1>2, <1>4, <1>5, KeepTyped, Zenon
  <1> DEFINE P == {k \in Nat : k <= m => h[k] = f[k]}
             Q == {k \in Nat : k <= n => \A j \in Nat : j - m = k => Together(f[m], g[k], h[j])}
  <1>8. 0 \in P
    BY <1>4, <1>6 DEF Gathers
  <1>9. ASSUME NEW k \in Nat, k \in P
        PROVE  k + 1 \in P
    <2>1. SUFFICES ASSUME k + 1 <= m
                   PROVE  h[k + 1] = f[k + 1]
      OBVIOUS
    <2>2. /\ k + 1 \in 1 .. m /\ k + 1 \in 1 .. l
          /\ (k + 1) - 1 = k /\ k <= m
      BY <1>3a, <2>1
    <2>3. u[k + 1] = s[k + 1] /\ h[k] = f[k]
      BY <1>3b, <1>9, <2>2
    <2>4. QED
      BY <1>4, <1>6, <2>2, <2>3 DEF Gathers
  <1>10. m \in P
    <2> HIDE DEF P
    <2>1. QED
      BY <1>8, <1>9, Induction
  <1>11. 0 \in Q
    <2>1. g[0] = <<>> /\ f[m] \in Seq(S) /\ h[m] = f[m]
      BY <1>5, <1>7, <1>10 DEF Gathers
    <2>2. f[m] \o g[0] = f[m]
      BY <2>1, ConcatEmptySeq
    <2>3. \A j \in Nat : j - m = 0 => j = m
      OBVIOUS
    <2>4. QED
      BY <2>1, <2>2, <2>3 DEF Together
  <1>12. ASSUME NEW k \in Nat, k \in Q
         PROVE  k + 1 \in Q
    <2>0. k + 1 \in Nat
      OBVIOUS
    <2>1. SUFFICES ASSUME k + 1 <= n, NEW j \in Nat, j - m = k + 1
                   PROVE  Together(f[m], g[k + 1], h[j])
      BY <2>0, Zenon
    <2>3. /\ k + 1 \in 1 .. n /\ (k + 1) - 1 = k /\ k <= n /\ j \in 1 .. l
          /\ j - 1 \in Nat /\ (j - 1) - m = k /\ ~ (j <= m)
      BY <1>3a, <2>1
    <2>4. u[j] = t[k + 1] /\ Together(f[m], g[k], h[j - 1])
      BY <1>3b, <1>12, <2>1, <2>3
    <2>5. h[j] = IF t[k + 1] \in T THEN Append(h[j - 1], t[k + 1]) ELSE h[j - 1]
      BY <1>6, <2>3, <2>4 DEF Gathers
    <2>6. g[k + 1] = IF t[k + 1] \in T THEN Append(g[k], t[k + 1]) ELSE g[k]
      BY <1>5, <2>3 DEF Gathers
    <2>7. f[m] \in Seq(S) /\ g[k] \in Seq(S) /\ t[k + 1] \in S
      BY <1>2, <1>7, <2>3
    <2>8. Together(f[m], Append(g[k], t[k + 1]), Append(h[j - 1], t[k + 1]))
      BY <2>4, <2>7, TogetherMore, Zenon
    <2>9. QED
      BY <2>4, <2>5, <2>6, <2>8
  <1>13. n \in Q
    <2> HIDE DEF Q
    <2>1. QED
      BY <1>11, <1>12, Induction
  <1>14. f[m] \in Seq(S) /\ g[n] \in Seq(S)
    BY <1>7
  <1>15. Together(f[m], g[n], h[l])
    <2>1. l - m = n
      BY <1>3a
    <2>2. n <= n
      OBVIOUS
    <2>3. QED
      BY <1>13, <2>1, <2>2, Zenon
  <1>16. QED
    BY <1>3, <1>4, <1>5, <1>6, <1>14, <1>15 DEF Together

\* One list after another into the result: nothing of T comes but from one.
LEMMA KeepFlatten ==
    ASSUME NEW S, NEW seqs \in Seq(Seq(S)), NEW T, NEW j \in Nat,
           \A i \in 1 .. Len(seqs) : i # j => Keep(seqs[i], T) = <<>>
    PROVE  Keep(FlattenSeq(seqs), T) =
               IF j \in 1 .. Len(seqs) THEN Keep(seqs[j], T) ELSE <<>>
  <1>1. PICK n \in Nat : n = Len(seqs)
    OBVIOUS
  <1>2. CASE n = 0
    <2>1. FlattenSeq(seqs) = seqs
      BY <1>1, <1>2, Zenon DEF FlattenSeq
    <2>2. \A i \in 1 .. Len(seqs) : seqs[i] \notin T
      BY <1>1, <1>2
    <2>3. Keep(seqs, T) = <<>>
      BY <2>2, KeepNone
    <2>4. QED
      BY <1>1, <1>2, <2>1, <2>3
  <1>3. CASE n # 0
    <2>1. PICK f : Builds(f, seqs, n) /\ FlattenSeq(seqs) = f[n]
      BY <1>1, <1>3, FlattenBuilt
    <2>2. \A i \in 1 .. n : seqs[i] \in Seq(S)
      BY <1>1
    <2>3. \A i \in 1 .. n : f[i] \in Seq(S)
      BY <2>1, <2>2, BuiltTyped, Zenon
    <2> DEFINE P == {k \in Nat : k \in 1 .. n =>
                        Keep(f[k], T) = IF j \in 1 .. k THEN Keep(seqs[j], T) ELSE <<>>}
    <2>4. 0 \in P
      OBVIOUS
    <2>5. ASSUME NEW k \in Nat, k \in P
          PROVE  k + 1 \in P
      <3>1. SUFFICES ASSUME k + 1 \in 1 .. n
                     PROVE  Keep(f[k + 1], T) =
                                IF j \in 1 .. k + 1 THEN Keep(seqs[j], T) ELSE <<>>
        OBVIOUS
      <3>2. CASE k = 0
        <4>1. f[1] = seqs[1]
          BY <1>3, <2>1, <3>1, <3>2 DEF Builds
        <4>2. j \in 1 .. 1 <=> j = 1
          OBVIOUS
        <4>3. QED
          BY <1>1, <3>1, <3>2, <4>1, <4>2
      <3>3. CASE k # 0
        <4>1. k \in 1 .. n /\ k + 1 # 1 /\ (k + 1) - 1 = k
          BY <3>1, <3>3
        <4>2. f[k + 1] = f[k] \o seqs[k + 1]
          BY <2>1, <3>1, <4>1 DEF Builds
        <4>3. f[k] \in Seq(S) /\ seqs[k + 1] \in Seq(S)
          BY <2>2, <2>3, <3>1, <4>1
        <4>3a. Together(f[k], seqs[k + 1], f[k + 1])
          BY <4>2 DEF Together
        <4>4. /\ Keep(f[k], T) \in Seq(S) /\ Keep(seqs[k + 1], T) \in Seq(S)
              /\ Together(Keep(f[k], T), Keep(seqs[k + 1], T), Keep(f[k + 1], T))
          BY <4>3, <4>3a, KeepConcat, Zenon
        <4>5. Keep(f[k], T) = IF j \in 1 .. k THEN Keep(seqs[j], T) ELSE <<>>
          BY <2>5, <4>1
        <4>6. CASE j = k + 1
          <5>1. j \notin 1 .. k /\ j \in 1 .. k + 1
            BY <4>6
          <5>2. QED
            BY <4>4, <4>5, <4>6, <5>1, ConcatEmptySeq DEF Together
        <4>7. CASE j # k + 1
          <5>1. j \in 1 .. k <=> j \in 1 .. k + 1
            BY <4>7
          <5>2. Keep(seqs[k + 1], T) = <<>>
            BY <1>1, <3>1, <4>7
          <5>3. QED
            BY <4>4, <4>5, <5>1, <5>2, ConcatEmptySeq DEF Together
        <4>8. QED
          BY <4>6, <4>7
      <3>4. QED
        BY <3>2, <3>3
    <2>6. Nat \subseteq P
      <3> HIDE DEF P
      <3>1. QED
        BY <2>4, <2>5, Induction
    <2>7. n \in 1 .. n
      BY <1>3
    <2>8. QED
      BY <1>1, <2>1, <2>6, <2>7
  <1>4. QED
    BY <1>2, <1>3
\* A finite set as a sequence has all of it, once.
LEMMA SetAsSeq ==
    ASSUME NEW S, IsFiniteSet(S), NEW s, s = SetToSeq(S)
    PROVE  \E n \in Nat : /\ s \in [1 .. n -> S]
                          /\ \A i, j \in 1 .. n : i # j => s[i] # s[j]
                          /\ \A v \in S : \E i \in 1 .. n : s[i] = v
  <1>1. PICK n \in Nat : n = Cardinality(S) /\ ExistsBijection(1 .. n, S)
    BY FS_CardinalityType
  <1>2. \E g \in [1 .. n -> S] : IsInjective(g)
    <2>1. PICK g : g \in Bijection(1 .. n, S)
      BY <1>1 DEF ExistsBijection
    <2>2. g \in [1 .. n -> S] /\ IsInjective(g)
      BY <2>1 DEF Bijection, Injection
    <2>3. QED
      BY <2>2
  <1>3. s \in [1 .. n -> S] /\ IsInjective(s)
    BY <1>1, <1>2, Zenon DEF SetToSeq
  <1>4. \A i, j \in 1 .. n : i # j => s[i] # s[j]
    BY <1>3 DEF IsInjective
  <1>5. s \in Injection(1 .. n, S)
    BY <1>3, <1>4, Fun_IsInj
  <1>6. Cardinality(1 .. n) = n
    BY FS_Interval
  <1>7. s \in Surjection(1 .. n, S)
    BY <1>1, <1>5, <1>6, FS_Injection
  <1>8. \A v \in S : \E i \in 1 .. n : s[i] = v
    BY <1>7, Fun_SurjectionProperties
  <1>9. QED
    BY <1>3, <1>4, <1>8

-----------------------------------------------------------------------------
(* What Keep and Encode do one after the other.                            *)

LEMMA KeepIsSeq ==
    ASSUME NEW S, NEW s \in Seq(S), NEW T
    PROVE  Keep(s, T) \in Seq(S)
  <1>1. PICK n \in Nat : n = Len(s)
    OBVIOUS
  <1>2. PICK f : Gathers(f, s, T, n) /\ Keep(s, T) = f[n]
    BY <1>1, KeepGathers
  <1>3. \A i \in 0 .. n : f[i] \in Seq(S)
    BY <1>1, <1>2, KeepTyped, Zenon
  <1>4. QED
    BY <1>2, <1>3

LEMMA KeepEmpty ==
    ASSUME NEW T
    PROVE  Keep(<<>>, T) = <<>>
  <1>1. <<>> \in Seq({}) /\ Len(<<>>) = 0
    OBVIOUS
  <1>2. \A i \in 1 .. Len(<<>>) : <<>>[i] \notin T
    BY <1>1
  <1>3. QED
    BY <1>1, <1>2, KeepNone

LEMMA KeepAppend ==
    ASSUME NEW S, NEW s \in Seq(S), NEW x \in S, NEW T
    PROVE  Keep(Append(s, x), T) =
               IF x \in T THEN Append(Keep(s, T), x) ELSE Keep(s, T)
  <1> DEFINE one == <<x>>
  <1>1. one \in Seq(S) /\ Len(one) = 1 /\ \A i \in 1 .. Len(one) : one[i] = x
    OBVIOUS
  <1>2. Together(s, one, Append(s, x))
    <2>1. Append(s, x) = s \o <<x>>
      OBVIOUS
    <2>2. QED
      BY <2>1, Zenon DEF Together
  <1> HIDE DEF one
  <1>3. /\ Keep(s, T) \in Seq(S)
        /\ Together(Keep(s, T), Keep(one, T), Keep(Append(s, x), T))
    BY <1>1, <1>2, KeepConcat, Zenon
  <1>4. CASE x \in T
    <2>1. Keep(one, T) = one
      BY <1>1, <1>4, KeepAll
    <2>2. Keep(s, T) \o one = Append(Keep(s, T), x)
      BY <1>3 DEF one
    <2>3. QED
      BY <1>3, <1>4, <2>1, <2>2, Zenon DEF Together
  <1>5. CASE x \notin T
    <2>1. Keep(one, T) = <<>>
      BY <1>1, <1>5, KeepNone
    <2>2. Keep(s, T) \o <<>> = Keep(s, T)
      BY <1>3, ConcatEmptySeq
    <2>3. QED
      BY <1>3, <1>5, <2>1, <2>2, Zenon DEF Together
  <1>6. QED
    BY <1>4, <1>5

LEMMA KeepTwice ==
    ASSUME NEW S, NEW s \in Seq(S), NEW T, NEW U
    PROVE  Keep(Keep(s, T), U) = Keep(s, T \cap U)
  <1>1. PICK n \in Nat : n = Len(s)
    OBVIOUS
  <1>2. PICK f : Gathers(f, s, T, n) /\ Keep(s, T) = f[n]
    BY <1>1, KeepGathers
  <1>3. PICK h : Gathers(h, s, T \cap U, n) /\ Keep(s, T \cap U) = h[n]
    BY <1>1, KeepGathers
  <1>4. \A i \in 0 .. n : f[i] \in Seq(S)
    BY <1>1, <1>2, KeepTyped, Zenon
  <1> DEFINE P == {k \in Nat : k <= n => Keep(f[k], U) = h[k]}
  <1>5. 0 \in P
    <2>1. f[0] = <<>> /\ h[0] = <<>>
      BY <1>2, <1>3 DEF Gathers
    <2>2. Keep(<<>>, U) = <<>>
      BY KeepEmpty
    <2>3. QED
      BY <2>1, <2>2
  <1>6. ASSUME NEW k \in Nat, k \in P
        PROVE  k + 1 \in P
    <2>1. SUFFICES ASSUME k + 1 <= n
                   PROVE  Keep(f[k + 1], U) = h[k + 1]
      OBVIOUS
    <2>2. k + 1 \in 1 .. n /\ (k + 1) - 1 = k /\ k <= n
      BY <2>1
    <2>3. /\ f[k + 1] = IF s[k + 1] \in T THEN Append(f[k], s[k + 1]) ELSE f[k]
          /\ h[k + 1] = IF s[k + 1] \in T \cap U
                        THEN Append(h[k], s[k + 1]) ELSE h[k]
      BY <1>2, <1>3, <2>2 DEF Gathers
    <2>4. f[k] \in Seq(S) /\ s[k + 1] \in S /\ Keep(f[k], U) = h[k]
      BY <1>1, <1>4, <1>6, <2>2
    <2>5. Keep(Append(f[k], s[k + 1]), U) =
              IF s[k + 1] \in U THEN Append(Keep(f[k], U), s[k + 1])
              ELSE Keep(f[k], U)
      <3>1. PICK a \in Seq(S), x \in S : a = f[k] /\ x = s[k + 1]
        BY <2>4
      <3>2. Keep(Append(a, x), U) =
                IF x \in U THEN Append(Keep(a, U), x) ELSE Keep(a, U)
        BY KeepAppend
      <3>3. QED
        BY <3>1, <3>2, Zenon
    <2>6. QED
      BY <2>3, <2>4, <2>5
  <1>7. n \in P
    <2> HIDE DEF P
    <2>1. QED
      BY <1>5, <1>6, Induction
  <1>8. QED
    BY <1>2, <1>3, <1>7

\* The order of two loops makes no difference.
LEMMA KeepCommutes ==
    ASSUME NEW S, NEW s \in Seq(S), NEW T, NEW U
    PROVE  Keep(Keep(s, T), U) = Keep(Keep(s, U), T)
  <1>1. T \cap U = U \cap T
    OBVIOUS
  <1>2. Keep(Keep(s, T), U) = Keep(s, T \cap U)
    BY KeepTwice
  <1>3. Keep(Keep(s, U), T) = Keep(s, U \cap T)
    BY KeepTwice
  <1>4. QED
    BY <1>1, <1>2, <1>3, Zenon

\* A loop over what is put together is one over each piece.
LEMMA KeepPieces ==
    ASSUME NEW S, NEW seqs \in Seq(Seq(S)), NEW outs \in Seq(Seq(S)), NEW T,
           NEW n \in Nat, n = Len(seqs), n = Len(outs),
           \A i \in 1 .. n : outs[i] = Keep(seqs[i], T)
    PROVE  Keep(FlattenSeq(seqs), T) = FlattenSeq(outs)
  <1>1. CASE n = 0
    <2>1. FlattenSeq(seqs) = seqs /\ FlattenSeq(outs) = outs
      BY <1>1, Zenon DEF FlattenSeq
    <2>2. \A i \in 1 .. Len(seqs) : seqs[i] \notin T
      BY <1>1
    <2>3. Keep(seqs, T) = <<>>
      BY <2>2, KeepNone
    <2>4. outs = <<>>
      <3>1. outs # <<>> => Len(outs) \in Nat \ {0}
        BY EmptySeq, Zenon
      <3>2. QED
        BY <1>1, <3>1
    <2>5. QED
      BY <2>1, <2>3, <2>4
  <1>2. CASE n # 0
    <2>1. PICK f : Builds(f, seqs, n) /\ FlattenSeq(seqs) = f[n]
      BY <1>2, FlattenBuilt
    <2>2. PICK g : Builds(g, outs, n) /\ FlattenSeq(outs) = g[n]
      BY <1>2, FlattenBuilt
    <2>3. \A i \in 1 .. n : seqs[i] \in Seq(S)
      <3>1. \A i \in 1 .. Len(seqs) : seqs[i] \in Seq(S)
        BY ElementOfSeq, Zenon
      <3>2. QED
        BY <3>1, Zenon
    <2>4. \A i \in 1 .. n : f[i] \in Seq(S)
      BY <2>1, <2>3, BuiltTyped, Zenon
    <2> DEFINE P == {k \in Nat : k \in 1 .. n => Keep(f[k], T) = g[k]}
    <2>5. 0 \in P
      OBVIOUS
    <2>6. ASSUME NEW k \in Nat, k \in P
          PROVE  k + 1 \in P
      <3>1. SUFFICES ASSUME k + 1 \in 1 .. n
                     PROVE  Keep(f[k + 1], T) = g[k + 1]
        OBVIOUS
      <3>2. CASE k = 0
        <4>1. f[1] = seqs[1] /\ g[1] = outs[1] /\ 1 \in 1 .. n
          BY <1>2, <2>1, <2>2 DEF Builds
        <4>2. QED
          BY <3>2, <4>1
      <3>3. CASE k # 0
        <4>1. k \in 1 .. n /\ k + 1 # 1 /\ (k + 1) - 1 = k
          BY <3>1, <3>3
        <4>2. /\ Together(f[k], seqs[k + 1], f[k + 1])
              /\ g[k + 1] = g[k] \o outs[k + 1]
          BY <2>1, <2>2, <3>1, <4>1 DEF Builds, Together
        <4>3. f[k] \in Seq(S) /\ seqs[k + 1] \in Seq(S)
          BY <2>3, <2>4, <3>1, <4>1
        <4>4. Together(Keep(f[k], T), Keep(seqs[k + 1], T), Keep(f[k + 1], T))
          BY <4>2, <4>3, KeepConcat, Zenon
        <4>5. Keep(f[k], T) = g[k] /\ Keep(seqs[k + 1], T) = outs[k + 1]
          BY <2>6, <3>1, <4>1
        <4>6. QED
          BY <4>2, <4>4, <4>5 DEF Together
      <3>4. QED
        BY <3>2, <3>3
    <2>7. Nat \subseteq P
      <3> HIDE DEF P
      <3>1. QED
        BY <2>5, <2>6, Induction
    <2>8. n \in 1 .. n
      BY <1>2
    <2>9. QED
      BY <2>1, <2>2, <2>7, <2>8
  <1>3. QED
    BY <1>1, <1>2

\* The parameters of one key, and the pieces Encode puts together.
OfKey(i) == {p \in Params : KeyOf[p] = Keys[i]}
Pieces(q) == [i \in DOMAIN Keys |-> Keep(q, OfKey(i))]

LEMMA KeysOnce ==
    \E n \in Nat : /\ Keys \in Seq({KeyOf[p] : p \in Params})
                   /\ DOMAIN Keys = 1 .. n
                   /\ \A i, j \in 1 .. n : i # j => Keys[i] # Keys[j]
  <1> DEFINE K == {KeyOf[p] : p \in Params}
  <1>1. IsFiniteSet(K)
    <2> DEFINE f == [p \in Params |-> KeyOf[p]]
    <2>1. f \in Surjection(Params, K)
      BY DEF Surjection
    <2>2. QED
      BY <2>1, ParamsAssumption, FS_Surjection
  <1>2. Keys = SetToSeq(K)
    BY Zenon DEF Keys
  <1> HIDE DEF K
  <1>3. PICK n \in Nat : /\ Keys \in [1 .. n -> K]
                         /\ \A i, j \in 1 .. n : i # j => Keys[i] # Keys[j]
                         /\ \A v \in K : \E i \in 1 .. n : Keys[i] = v
    BY <1>1, <1>2, SetAsSeq, SMTT(30)
  <1>4. Keys \in Seq(K) /\ DOMAIN Keys = 1 .. n
    BY <1>3
  <1>5. QED
    BY <1>3, <1>4 DEF K

LEMMA PiecesShape ==
    ASSUME NEW q \in Seq(Params), NEW n \in Nat, DOMAIN Keys = 1 .. n
    PROVE  /\ Pieces(q) \in Seq(Seq(Params)) /\ Len(Pieces(q)) = n
           /\ \A i \in 1 .. n : Pieces(q)[i] = Keep(q, OfKey(i))
           /\ Encode(q) = FlattenSeq(Pieces(q))
  <1>1. \A i \in 1 .. n : Keep(q, OfKey(i)) \in Seq(Params)
    BY KeepIsSeq
  <1>2. Pieces(q) = [i \in 1 .. n |-> Keep(q, OfKey(i))]
    BY DEF Pieces
  <1>3. Pieces(q) \in [1 .. n -> Seq(Params)]
    BY <1>1, <1>2
  <1>4. Pieces(q) \in Seq(Seq(Params)) /\ Len(Pieces(q)) = n
    BY <1>3
  <1>5. Encode(q) = FlattenSeq(Pieces(q))
    BY Zenon DEF Encode, Pieces, OfKey
  <1>6. QED
    BY <1>2, <1>4, <1>5

LEMMA EncodeTyped ==
    ASSUME NEW q \in Seq(Params)
    PROVE  Encode(q) \in Seq(Params)
  BY KeysOnce, PiecesShape, FlattenTyped

LEMMA KeepEncode ==
    ASSUME NEW q \in Seq(Params), NEW T
    PROVE  Keep(Encode(q), T) = Encode(Keep(q, T))
  <1>1. PICK n \in Nat : DOMAIN Keys = 1 .. n
    BY KeysOnce
  <1>2. PICK r \in Seq(Params) : r = Keep(q, T)
    BY KeepIsSeq
  <1>3. \A i \in 1 .. n : Pieces(r)[i] = Keep(Pieces(q)[i], T)
    BY <1>1, <1>2, PiecesShape, KeepCommutes
  <1>4. /\ Pieces(q) \in Seq(Seq(Params)) /\ Len(Pieces(q)) = n
        /\ Pieces(r) \in Seq(Seq(Params)) /\ Len(Pieces(r)) = n
        /\ Encode(q) = FlattenSeq(Pieces(q))
        /\ Encode(r) = FlattenSeq(Pieces(r))
    BY <1>1, PiecesShape
  <1>5. Keep(FlattenSeq(Pieces(q)), T) = FlattenSeq(Pieces(r))
    BY <1>3, <1>4, KeepPieces
  <1>6. QED
    BY <1>2, <1>4, <1>5

\* The parameters of a key come out as they went in, so that what is encoded
\* stays as it is.
LEMMA EncodeTwice ==
    ASSUME NEW q \in Seq(Params)
    PROVE  Encode(Encode(q)) = Encode(q)
  <1>1. PICK n \in Nat :
            /\ DOMAIN Keys = 1 .. n
            /\ \A i, j \in 1 .. n : i # j => Keys[i] # Keys[j]
    BY KeysOnce
  <1>2. PICK e \in Seq(Params) : e = Encode(q)
    BY EncodeTyped
  <1>3. ASSUME NEW j \in 1 .. n
        PROVE  Keep(e, OfKey(j)) = Keep(q, OfKey(j))
    <2>1. ASSUME NEW i \in 1 .. n
          PROVE  Keep(Pieces(q)[i], OfKey(j)) =
                     IF i = j THEN Keep(q, OfKey(j)) ELSE <<>>
      <3>1. Keep(Pieces(q)[i], OfKey(j)) = Keep(q, OfKey(i) \cap OfKey(j))
        BY <1>1, PiecesShape, KeepTwice
      <3>2. CASE i = j
        BY <3>1, <3>2
      <3>3. CASE i # j
        <4>1. OfKey(i) \cap OfKey(j) = {}
          BY <1>1, <3>3 DEF OfKey
        <4>2. Keep(q, {}) = <<>>
          BY KeepNone
        <4>3. QED
          BY <3>1, <3>3, <4>1, <4>2
      <3>4. QED
        BY <3>2, <3>3
    <2>2. /\ Pieces(q) \in Seq(Seq(Params)) /\ Len(Pieces(q)) = n
          /\ e = FlattenSeq(Pieces(q))
      BY <1>1, <1>2, PiecesShape
    <2>3. j \in Nat /\ j \in 1 .. Len(Pieces(q))
      BY <2>2
    <2>4. \A i \in 1 .. Len(Pieces(q)) :
             i # j => Keep(Pieces(q)[i], OfKey(j)) = <<>>
      BY <2>1, <2>2
    <2>5. Keep(e, OfKey(j)) = Keep(Pieces(q)[j], OfKey(j))
      BY <2>2, <2>3, <2>4, KeepFlatten
    <2>6. QED
      BY <2>1, <2>5
  <1>4. Pieces(e) = Pieces(q)
    BY <1>1, <1>3 DEF Pieces
  <1>5. QED
    BY <1>1, <1>2, <1>4, PiecesShape, Zenon

-----------------------------------------------------------------------------
(* What a rule that is added does to the groups.                           *)

IsURL(u) ==
    /\ u.query \in Seq(Params)
    /\ u = [scheme |-> u.scheme, base |-> u.base, query |-> u.query]
IsRule(r) == r = GroupingRule(r.match, r.drop, r.sort)

IsConfig(c) ==
    /\ \E R, F : c \in [grouping : BOOLEAN, normalize : BOOLEAN, rules : Seq(R),
                        folding : BOOLEAN, foldRules : Seq(F)]
    /\ \A i \in DOMAIN c.rules : IsRule(c.rules[i])

LEMMA WithoutTyped ==
    ASSUME NEW q \in Seq(Params), NEW D
    PROVE  Without(q, D) \in Seq(Params)
  BY KeepIsSeq DEF Without

LEMMA WithoutMore ==
    ASSUME NEW q \in Seq(Params), NEW D, NEW E, D \subseteq E
    PROVE  /\ Without(Without(q, D), E) = Without(q, E)
           /\ Without(Without(q, E), D) = Without(q, E)
           /\ Without(Encode(q), D) = Encode(Without(q, D))
  <1> DEFINE T == {p \in Params : KeyOf[p] \notin D}
             U == {p \in Params : KeyOf[p] \notin E}
  <1>1. T \cap U = U /\ U \cap T = U
    OBVIOUS
  <1>2. \A s : Without(s, D) = Keep(s, T) /\ Without(s, E) = Keep(s, U)
    BY Zenon DEF Without
  <1> HIDE DEF T, U
  <1>3. Keep(Keep(q, T), U) = Keep(q, U) /\ Keep(Keep(q, U), T) = Keep(q, U)
    BY <1>1, KeepTwice
  <1>4. Keep(Encode(q), T) = Encode(Keep(q, T))
    BY KeepEncode
  <1>5. QED
    BY <1>2, <1>3, <1>4

\* With more to drop, a url that has been normalized is brought to where the
\* url itself is.
LEMMA NormalizeAgain ==
    ASSUME NEW u, IsURL(u), NEW c, NEW d,
           c.normalize => d.normalize,
           DropKeys(u.base, c) \subseteq DropKeys(u.base, d),
           SortQuery(u.base, c) => SortQuery(u.base, d)
    PROVE  NormalizeURL(NormalizeURL(u, c), d) = NormalizeURL(u, d)
  <1> DEFINE v == NormalizeURL(u, c)
  <1>0. PICK q \in Seq(Params) :
            \E a, b : /\ q = u.query /\ b = u.base
                      /\ u = [scheme |-> a, base |-> b, query |-> q]
    BY DEF IsURL
  <1>1. PICK a, b : /\ q = u.query /\ b = u.base
                    /\ u = [scheme |-> a, base |-> b, query |-> q]
    BY <1>0
  <1>2. PICK D, E : D = DropKeys(b, c) /\ E = DropKeys(b, d)
    OBVIOUS
  <1>3. CASE v = u
    BY <1>3
  <1>4. CASE v # u
    <2>1. /\ c.normalize /\ D # {}
          /\ Without(q, D) # q \/ SortQuery(b, c)
          /\ v = [u EXCEPT !.query = Encode(Without(q, D))]
      BY <1>1, <1>2, <1>4, Zenon DEF NormalizeURL
    <2>2. PICK r : r = Encode(Without(q, D))
      OBVIOUS
    <2>3. v.base = b /\ v.query = r
          /\ v = [scheme |-> a, base |-> b, query |-> r]
      BY <1>1, <2>1, <2>2
    <2>4. D \subseteq E /\ E # {} /\ d.normalize
      BY <1>1, <1>2, <2>1
    <2>5. PICK e \in Seq(Params) : e = Encode(Without(q, E))
      BY WithoutTyped, EncodeTyped
    <2>6. r \in Seq(Params) /\ Without(r, E) = e
      <3>1. Without(q, D) \in Seq(Params)
        BY WithoutTyped
      <3>2. Without(r, E) = Encode(Without(Without(q, D), E))
        BY <2>2, <3>1, WithoutMore
      <3>3. Without(Without(q, D), E) = Without(q, E)
        BY <2>4, WithoutMore
      <3>4. QED
        BY <2>2, <2>5, <3>1, <3>2, <3>3, EncodeTyped
    <2>7. Encode(e) = e
      BY <2>5, WithoutTyped, EncodeTwice
    <2>8. NormalizeURL(v, d) = [scheme |-> a, base |-> b, query |-> e]
      <3>1. NormalizeURL(v, d) =
                IF ~ d.normalize \/ E = {} \/ (e = r /\ ~ SortQuery(b, d))
                THEN v ELSE [v EXCEPT !.query = Encode(e)]
        BY <1>2, <2>3, <2>6, ZenonT(60) DEF NormalizeURL
      <3>2. [v EXCEPT !.query = Encode(e)] = [scheme |-> a, base |-> b, query |-> e]
        BY <2>3, <2>7
      <3>3. QED
        BY <2>3, <2>4, <3>1, <3>2
    <2>9. ~ (Without(q, E) = q /\ ~ SortQuery(b, d))
      <3>1. SUFFICES ASSUME Without(q, E) = q, ~ SortQuery(b, d) PROVE FALSE
        OBVIOUS
      <3>2. ~ SortQuery(b, c)
        BY <1>1, <3>1
      <3>3. Without(q, D) = q
        BY <2>4, <3>1, WithoutMore
      <3>4. QED
        BY <2>1, <3>2, <3>3
    <2>10. NormalizeURL(u, d) = [u EXCEPT !.query = e]
      BY <1>1, <1>2, <2>4, <2>5, <2>9, Zenon DEF NormalizeURL
    <2>11. [u EXCEPT !.query = e] = [scheme |-> a, base |-> b, query |-> e]
      BY <1>1
    <2>12. QED
      BY <2>8, <2>10, <2>11
  <1>5. QED
    BY <1>3, <1>4

\* Every rule is still there and drops what it has dropped.
LEMMA RulesGrow ==
    ASSUME NEW c, NEW d,
           \A i \in DOMAIN c.rules :
              /\ i \in DOMAIN d.rules
              /\ d.rules[i].match = c.rules[i].match
              /\ c.rules[i].drop \subseteq d.rules[i].drop
              /\ d.rules[i].sort = c.rules[i].sort,
           NEW b
    PROVE  /\ DropKeys(b, c) \subseteq DropKeys(b, d)
           /\ SortQuery(b, c) => SortQuery(b, d)
  <1>1. \A i \in Matching(b, c) : i \in Matching(b, d) /\ i \in DOMAIN c.rules
    BY DEF Matching
  <1>2. QED
    BY <1>1 DEF DropKeys, SortQuery

LEMMA MergeGrouping ==
    ASSUME NEW c, IsConfig(c), NEW r \in GroupingRules,
           NEW d, d = MergeGroupingRule(c, r)
    PROVE  /\ IsConfig(d)
           /\ d.grouping /\ d.normalize
           /\ d.folding = c.folding /\ d.foldRules = c.foldRules
           /\ \A b : /\ DropKeys(b, c) \subseteq DropKeys(b, d)
                     /\ SortQuery(b, c) => SortQuery(b, d)
  <1>1. PICK R, F : c \in [grouping : BOOLEAN, normalize : BOOLEAN,
                           rules : Seq(R), folding : BOOLEAN, foldRules : Seq(F)]
    BY DEF IsConfig
  <1>2. IsRule(r)
    BY RulesAssumption DEF IsRule
  <1> DEFINE same == {i \in DOMAIN c.rules : c.rules[i].match = r.match}
             first == CHOOSE i \in same : \A j \in same : i <= j
             rules == IF same = {} THEN Append(c.rules, r)
                      ELSE [c.rules EXCEPT ![first].drop = @ \cup r.drop]
  <1>3. d = [c EXCEPT !.grouping = TRUE, !.normalize = TRUE, !.rules = rules]
    BY Zenon DEF MergeGroupingRule
  <1>4. /\ \E Q : rules \in Seq(Q)
        /\ \A i \in DOMAIN rules : IsRule(rules[i])
        /\ \A i \in DOMAIN c.rules :
              /\ i \in DOMAIN rules
              /\ rules[i].match = c.rules[i].match
              /\ c.rules[i].drop \subseteq rules[i].drop
              /\ rules[i].sort = c.rules[i].sort
    <2>1. PICK s \in Seq(R) : s = c.rules /\ \A i \in DOMAIN s : IsRule(s[i])
      BY <1>1 DEF IsConfig
    <2>2. CASE same = {}
      <3>1. rules = Append(s, r)
        BY <2>1, <2>2
      <3>2. IsSequence(s)
        BY <2>1 DEF IsSequence
      <3>3. /\ IsSequence(rules)
            /\ \A i \in DOMAIN rules :
                  rules[i] = r \/ (i \in DOMAIN s /\ rules[i] = s[i])
        <4> HIDE DEF rules
        <4>1. QED
          BY <3>1, <3>2, AppendFacts, SMTT(30)
      <3>4. \A i \in DOMAIN s : i \in DOMAIN rules /\ rules[i] = s[i]
        <4> HIDE DEF rules
        <4>1. QED
          BY <2>1, <3>1, SMTT(30)
      <3> HIDE DEF rules
      <3>5. QED
        BY <1>2, <2>1, <3>3, <3>4, SMTT(30) DEF IsSequence
    <2>3. CASE same # {}
      <3>1. PICK k \in DOMAIN s : k = first
        <4>1. \E i \in same : \A j \in same : i <= j
          <5>1. same \subseteq Nat
            BY <2>1
          <5>2. QED
            BY <2>3, <5>1, LeastOne
        <4>2. first \in same
          BY <4>1, Zenon
        <4>3. QED
          BY <2>1, <4>2
      <3>2. PICK x : x = [s[k] EXCEPT !.drop = @ \cup r.drop]
        OBVIOUS
      <3>3. rules = [s EXCEPT ![k] = x]
        BY <2>1, <2>3, <3>1, <3>2, Zenon
      <3>4. /\ x.match = s[k].match /\ x.sort = s[k].sort
            /\ x.drop = s[k].drop \cup r.drop /\ IsRule(x)
        <4>1. PICK y : y = s[k] /\ IsRule(y)
          BY <2>1, <3>1
        <4>2. x = [y EXCEPT !.drop = y.drop \cup r.drop]
          BY <3>2, <4>1
        <4> HIDE DEF same, first, rules
        <4>3. QED
          BY <4>1, <4>2 DEF IsRule, GroupingRule
      <3> HIDE DEF rules, same, first
      <3>5. /\ rules \in Seq(R \cup {x})
            /\ DOMAIN rules = DOMAIN s
            /\ rules[k] = x
            /\ \A i \in DOMAIN s : i # k => rules[i] = s[i]
        BY <3>3
      <3>6. QED
        BY <2>1, <3>4, <3>5
    <2>4. QED
      BY <2>2, <2>3
  <1> HIDE DEF rules, same, first
  <1>5. /\ d.grouping = TRUE /\ d.normalize = TRUE /\ d.rules = rules
        /\ d.folding = c.folding /\ d.foldRules = c.foldRules
    BY <1>1, <1>3
  <1>6. IsConfig(d)
    <2>1. PICK Q : rules \in Seq(Q)
      BY <1>4
    <2>2. d \in [grouping : BOOLEAN, normalize : BOOLEAN, rules : Seq(Q),
                 folding : BOOLEAN, foldRules : Seq(F)]
      BY <1>1, <1>3, <2>1
    <2>3. QED
      BY <1>4, <1>5, <2>2 DEF IsConfig
  <1>7. \A b : /\ DropKeys(b, c) \subseteq DropKeys(b, d)
               /\ SortQuery(b, c) => SortQuery(b, d)
    BY <1>4, <1>5, RulesGrow
  <1>8. QED
    BY <1>5, <1>6, <1>7

LEMMA MergeFolding ==
    ASSUME NEW c, IsConfig(c), NEW m, NEW d, d = MergeFoldingRule(c, m)
    PROVE  /\ IsConfig(d)
           /\ d.grouping = c.grouping /\ d.normalize = c.normalize
           /\ d.rules = c.rules
           /\ d.folding
           /\ \A i \in DOMAIN c.foldRules :
                 i \in DOMAIN d.foldRules /\ d.foldRules[i] = c.foldRules[i]
  <1>1. PICK R, F : c \in [grouping : BOOLEAN, normalize : BOOLEAN,
                           rules : Seq(R), folding : BOOLEAN, foldRules : Seq(F)]
    BY DEF IsConfig
  <1> DEFINE rules == IF m \in ToSet(c.foldRules) THEN c.foldRules
                      ELSE Append(c.foldRules, m)
  <1>2. d = [c EXCEPT !.folding = TRUE, !.foldRules = rules]
    BY Zenon DEF MergeFoldingRule
  <1>3. PICK s \in Seq(F) : s = c.foldRules
    BY <1>1
  <1>4. rules = s \/ rules = Append(s, m)
    BY <1>3
  <1>5. /\ rules \in Seq(F \cup {m})
        /\ \A i \in DOMAIN s : i \in DOMAIN rules /\ rules[i] = s[i]
    <2> HIDE DEF rules
    <2>1. s \in Seq(F \cup {m})
      OBVIOUS
    <2>2. QED
      BY <1>4, <2>1
  <1> HIDE DEF rules
  <1>6. /\ d.grouping = c.grouping /\ d.normalize = c.normalize
        /\ d.rules = c.rules /\ d.folding = TRUE /\ d.foldRules = rules
    BY <1>1, <1>2
  <1>7. d \in [grouping : BOOLEAN, normalize : BOOLEAN, rules : Seq(R),
               folding : BOOLEAN, foldRules : Seq(F \cup {m})]
    BY <1>1, <1>2, <1>5
  <1>8. IsConfig(d)
    BY <1>6, <1>7 DEF IsConfig
  <1>9. QED
    BY <1>3, <1>5, <1>6, <1>8

\* A configuration with at least the rules of another, as both merges leave it.
Extends(c, d) ==
    /\ c.grouping => d.grouping
    /\ c.normalize => d.normalize
    /\ \A b : /\ DropKeys(b, c) \subseteq DropKeys(b, d)
              /\ SortQuery(b, c) => SortQuery(b, d)
    /\ c.folding => d.folding
    /\ \A i \in DOMAIN c.foldRules :
          i \in DOMAIN d.foldRules /\ d.foldRules[i] = c.foldRules[i]

LEMMA MergesExtend ==
    ASSUME NEW c, IsConfig(c), NEW d,
           \/ \E r \in GroupingRules : d = MergeGroupingRule(c, r)
           \/ \E m \in FoldingRules : d = MergeFoldingRule(c, m)
    PROVE  IsConfig(d) /\ Extends(c, d)
  <1>1. CASE \E r \in GroupingRules : d = MergeGroupingRule(c, r)
    BY <1>1, MergeGrouping DEF Extends
  <1>2. CASE \E m \in FoldingRules : d = MergeFoldingRule(c, m)
    <2>1. /\ IsConfig(d)
          /\ d.grouping = c.grouping /\ d.normalize = c.normalize
          /\ d.rules = c.rules /\ d.folding
          /\ \A i \in DOMAIN c.foldRules :
                i \in DOMAIN d.foldRules /\ d.foldRules[i] = c.foldRules[i]
      BY <1>2, MergeFolding
    <2>2. \A b : /\ DropKeys(b, c) \subseteq DropKeys(b, d)
                 /\ SortQuery(b, c) => SortQuery(b, d)
      BY <2>1, RulesGrow
    <2>3. QED
      BY <2>1, <2>2 DEF Extends
  <1>3. QED
    BY <1>1, <1>2

LEMMA FoldedStays ==
    ASSUME NEW c, NEW d, Extends(c, d), NEW t, Folded(t, c)
    PROVE  Folded(t, d)
  <1>1. PICK i \in DOMAIN c.foldRules : t.url.base \in c.foldRules[i]
    BY DEF Folded
  <1>2. i \in DOMAIN d.foldRules /\ t.url.base \in d.foldRules[i]
    BY <1>1 DEF Extends
  <1>3. c.folding /\ t.status = 200 /\ ~t.error
    BY DEF Folded
  <1>4. d.folding
    BY <1>3 DEF Extends
  <1>5. QED
    BY <1>2, <1>3, <1>4 DEF Folded

LEMMA GroupStays ==
    ASSUME NEW c, NEW d, Extends(c, d), c.grouping,
           NEW t, IsURL(t.url), NEW u, IsURL(u.url),
           FailureKeys(t, c) = FailureKeys(u, c)
    PROVE  FailureKeys(t, d) = FailureKeys(u, d)
  <1>1. FailureKeys(t, c) = {<<"failure", t.kind, NormalizeURL(t.url, c), t.area>>}
    BY DEF FailureKeys
  <1>2. FailureKeys(u, c) = {<<"failure", u.kind, NormalizeURL(u.url, c), u.area>>}
    BY DEF FailureKeys
  <1>3. /\ t.kind = u.kind /\ t.area = u.area
        /\ NormalizeURL(t.url, c) = NormalizeURL(u.url, c)
    <2>1. PICK v, w : v = NormalizeURL(t.url, c) /\ w = NormalizeURL(u.url, c)
      OBVIOUS
    <2>2. <<"failure", t.kind, v, t.area>> = <<"failure", u.kind, w, u.area>>
      BY <1>1, <1>2, <2>1, Zenon
    <2>3. QED
      BY <2>1, <2>2
  <1>4. NormalizeURL(NormalizeURL(t.url, c), d) = NormalizeURL(t.url, d)
    BY NormalizeAgain DEF Extends
  <1>5. NormalizeURL(NormalizeURL(u.url, c), d) = NormalizeURL(u.url, d)
    BY NormalizeAgain DEF Extends
  <1>6. d.grouping
    BY DEF Extends
  <1>7. NormalizeURL(t.url, d) = NormalizeURL(u.url, d)
    BY <1>3, <1>4, <1>5
  <1>8. QED
    BY <1>3, <1>6, <1>7 DEF FailureKeys

-----------------------------------------------------------------------------
(* Loops.                                                                  *)

\* A loop over n elements that begins with z: turn is what each turn makes of
\* each value.
Loops(f, z, turn, n) ==
    f[0] = z /\ \A i \in 1 .. n : f[i] = turn[<<i, f[i - 1]>>]

LEMMA LoopExists ==
    ASSUME NEW V, NEW z \in V, NEW n \in Nat,
           NEW turn \in [(1 .. n) \X V -> V]
    PROVE  \E f \in [0 .. n -> V] : Loops(f, z, turn, n)
  <1> DEFINE P == {k \in Nat : k <= n =>
                       \E f \in [0 .. k -> V] : Loops(f, z, turn, k)}
  <1>1. 0 \in P
    <2>1. [i \in 0 .. 0 |-> z] \in [0 .. 0 -> V]
      OBVIOUS
    <2>2. Loops([i \in 0 .. 0 |-> z], z, turn, 0)
      BY DEF Loops
    <2>3. QED
      BY <2>1, <2>2
  <1>2. ASSUME NEW k \in Nat, k \in P
        PROVE  k + 1 \in P
    <2>1. SUFFICES ASSUME k + 1 <= n
                   PROVE  \E g \in [0 .. k + 1 -> V] : Loops(g, z, turn, k + 1)
      OBVIOUS
    <2>2. PICK f \in [0 .. k -> V] : Loops(f, z, turn, k)
      BY <1>2, <2>1
    <2>3. PICK x \in V : x = turn[<<k + 1, f[k]>>]
      <3>1. f[k] \in V /\ k + 1 \in 1 .. n
        BY <2>1, <2>2
      <3>2. <<k + 1, f[k]>> \in (1 .. n) \X V
        BY <3>1
      <3>3. QED
        BY <3>2, Zenon
    <2> DEFINE g == [i \in 0 .. k + 1 |-> IF i = k + 1 THEN x ELSE f[i]]
    <2>4. g \in [0 .. k + 1 -> V]
      BY <2>2
    <2>5. g[k + 1] = x /\ \A i \in 0 .. k : g[i] = f[i]
      OBVIOUS
    <2> HIDE DEF g
    <2>6. ASSUME NEW i \in 1 .. k + 1
          PROVE  g[i] = turn[<<i, g[i - 1]>>]
      <3>1. CASE i = k + 1
        <4>1. i - 1 = k /\ k \in 0 .. k
          BY <3>1
        <4>2. g[i - 1] = f[k]
          BY <2>5, <4>1
        <4>3. QED
          BY <2>3, <2>5, <3>1, <4>2, Zenon
      <3>2. CASE i # k + 1
        <4>1. i \in 1 .. k /\ i \in 0 .. k /\ i - 1 \in 0 .. k
          BY <3>2
        <4>2. QED
          BY <2>2, <2>5, <4>1, Zenon DEF Loops
      <3>3. QED
        BY <3>1, <3>2
    <2>7. g[0] = z
      <3>1. 0 \in 0 .. k
        OBVIOUS
      <3>2. QED
        BY <2>2, <2>5, <3>1 DEF Loops
    <2>8. QED
      BY <2>4, <2>6, <2>7 DEF Loops
  <1>3. n \in P
    <2> HIDE DEF P
    <2>1. QED
      BY <1>1, <1>2, Induction
  <1>4. QED
    BY <1>3

-----------------------------------------------------------------------------
(* Sums.                                                                   *)

Value(f, i) == IF i \in DOMAIN f THEN f[i] ELSE 0
Natural(f, n) == \A i \in 0 .. n : Value(f, i) \in Nat

\* The loop of SumTo.
Sums(a, f, n) ==
    /\ a[0] = Value(f, 0)
    /\ \A i \in 1 .. n : a[i] = Value(f, i) + a[i - 1]

LEMMA SumLoop ==
    ASSUME NEW f, NEW n \in Nat, Natural(f, n)
    PROVE  \E a : /\ Sums(a, f, n) /\ SumTo(f, n) = a[n]
                  /\ \A i \in 0 .. n : a[i] \in Nat
  <1> DEFINE loop(a) == [i \in 0 .. n |->
                 (IF i \in DOMAIN f THEN f[i] ELSE 0)
                    + (IF i = 0 THEN 0 ELSE a[i - 1])]
             sum == CHOOSE a : a = loop(a)
  <1>1. SumTo(f, n) = sum[n]
    BY Zenon DEF SumTo
  <1>2. \E a \in [0 .. n -> Nat] : a = loop(a)
    <2> DEFINE turn == [p \in (1 .. n) \X Nat |-> Value(f, p[1]) + p[2]]
    <2>1. turn \in [(1 .. n) \X Nat -> Nat]
      <3>1. ASSUME NEW p \in (1 .. n) \X Nat
            PROVE  Value(f, p[1]) + p[2] \in Nat
        <4>1. p[1] \in 0 .. n /\ p[2] \in Nat
          OBVIOUS
        <4>2. Value(f, p[1]) \in Nat
          BY <4>1 DEF Natural
        <4>3. QED
          BY <4>1, <4>2
      <3>2. QED
        BY <3>1
    <2>2. \A i \in 1 .. n, x \in Nat : turn[<<i, x>>] = Value(f, i) + x
      OBVIOUS
    <2> HIDE DEF turn
    <2>3. PICK a \in [0 .. n -> Nat] : Loops(a, Value(f, 0), turn, n)
      <3>1. Value(f, 0) \in Nat
        BY DEF Natural
      <3>2. QED
        BY <2>1, <3>1, LoopExists
    <2>4. ASSUME NEW i \in 0 .. n
          PROVE  a[i] = (IF i \in DOMAIN f THEN f[i] ELSE 0)
                           + (IF i = 0 THEN 0 ELSE a[i - 1])
      <3>1. CASE i = 0
        <4>1. Value(f, 0) \in Nat
          BY DEF Natural
        <4>2. QED
          BY <2>3, <3>1, <4>1 DEF Value, Loops
      <3>2. CASE i # 0
        <4>1. i \in 1 .. n /\ a[i - 1] \in Nat
          BY <3>2
        <4>2. a[i] = Value(f, i) + a[i - 1]
          BY <2>2, <2>3, <4>1, Zenon DEF Loops
        <4>3. QED
          BY <3>2, <4>2 DEF Value
      <3>3. QED
        BY <3>1, <3>2
    <2>5. a = [i \in 0 .. n |-> a[i]]
      OBVIOUS
    <2>6. QED
      BY <2>4, <2>5, Zenon
  <1>3. sum = loop(sum)
    BY <1>2, Zenon
  <1> HIDE DEF sum
  <1>4. \A i \in 0 .. n : sum[i] = loop(sum)[i]
    BY <1>3, Zenon
  <1>5. \A i \in 0 .. n : sum[i] = Value(f, i) + (IF i = 0 THEN 0 ELSE sum[i - 1])
    BY <1>4, Zenon DEF Value
  <1>6. sum[0] = Value(f, 0)
    <2>1. Value(f, 0) \in Nat /\ 0 \in 0 .. n
      BY DEF Natural
    <2>2. sum[0] = Value(f, 0) + 0
      BY <1>5, <2>1, Zenon
    <2>3. QED
      BY <2>1, <2>2
  <1>7. ASSUME NEW i \in 1 .. n
        PROVE  sum[i] = Value(f, i) + sum[i - 1]
    <2>1. i \in 0 .. n /\ i # 0
      OBVIOUS
    <2>2. QED
      BY <1>5, <2>1, Zenon
  <1> DEFINE P == {k \in Nat : k <= n => sum[k] \in Nat}
  <1>8. 0 \in P
    BY <1>6 DEF Natural
  <1>9. ASSUME NEW k \in Nat, k \in P
        PROVE  k + 1 \in P
    <2>1. SUFFICES ASSUME k + 1 <= n PROVE sum[k + 1] \in Nat
      OBVIOUS
    <2>2. k + 1 \in 1 .. n /\ (k + 1) - 1 = k /\ k + 1 \in 0 .. n /\ k <= n
      BY <2>1
    <2>3. sum[k + 1] = Value(f, k + 1) + sum[k]
      BY <1>7, <2>2
    <2>4. Value(f, k + 1) \in Nat /\ sum[k] \in Nat
      BY <1>9, <2>2 DEF Natural
    <2>5. QED
      BY <2>3, <2>4
  <1>10. Nat \subseteq P
    <2> HIDE DEF P
    <2>1. QED
      BY <1>8, <1>9, Induction
  <1>11. \A i \in 0 .. n : sum[i] \in Nat
    BY <1>10
  <1>12. QED
    BY <1>1, <1>6, <1>7, <1>11, Zenon DEF Sums

\* Two loops of the same values are one.
LEMMA SumsEqual ==
    ASSUME NEW f, NEW n \in Nat, NEW a, Sums(a, f, n),
           NEW g, NEW m \in Nat, NEW b, Sums(b, g, m),
           NEW k \in Nat, k <= n, k <= m,
           \A i \in 0 .. k : Value(f, i) = Value(g, i)
    PROVE  a[k] = b[k]
  <1> DEFINE P == {j \in Nat : j <= k => a[j] = b[j]}
  <1>1. 0 \in P
    BY DEF Sums
  <1>2. ASSUME NEW j \in Nat, j \in P
        PROVE  j + 1 \in P
    <2>1. SUFFICES ASSUME j + 1 <= k PROVE a[j + 1] = b[j + 1]
      OBVIOUS
    <2>2. /\ j + 1 \in 1 .. n /\ j + 1 \in 1 .. m /\ j + 1 \in 0 .. k
          /\ (j + 1) - 1 = j /\ j <= k
      BY <2>1
    <2>3. a[j + 1] = Value(f, j + 1) + a[j] /\ b[j + 1] = Value(g, j + 1) + b[j]
      BY <2>2 DEF Sums
    <2>4. a[j] = b[j] /\ Value(f, j + 1) = Value(g, j + 1)
      BY <1>2, <2>2
    <2>5. QED
      BY <2>3, <2>4
  <1>3. k \in P
    <2> HIDE DEF P
    <2>1. QED
      BY <1>1, <1>2, Induction
  <1>4. QED
    BY <1>3

\* A sum is that of the values but the last, and the last.
LEMMA SumStep ==
    ASSUME NEW f, NEW n \in Nat, Natural(f, n + 1)
    PROVE  SumTo(f, n + 1) = SumTo(f, n) + Value(f, n + 1)
  <1>1. n + 1 \in Nat /\ Natural(f, n)
    BY DEF Natural
  <1>2. PICK a : /\ Sums(a, f, n + 1) /\ SumTo(f, n + 1) = a[n + 1]
                 /\ \A i \in 0 .. n + 1 : a[i] \in Nat
    BY <1>1, SumLoop
  <1>3. PICK b : Sums(b, f, n) /\ SumTo(f, n) = b[n]
    BY <1>1, SumLoop
  <1>4. a[n] = b[n]
    <2>1. n <= n /\ n <= n + 1
      OBVIOUS
    <2>2. QED
      BY <1>1, <1>2, <1>3, <2>1, SumsEqual
  <1>5. a[n + 1] = Value(f, n + 1) + a[n]
    <2>1. n + 1 \in 1 .. n + 1 /\ (n + 1) - 1 = n
      OBVIOUS
    <2>2. QED
      BY <1>2, <2>1 DEF Sums
  <1>6. Value(f, n + 1) \in Nat /\ a[n] \in Nat
    BY <1>1, <1>2 DEF Natural
  <1>7. QED
    BY <1>2, <1>3, <1>4, <1>5, <1>6

LEMMA SumNatural ==
    ASSUME NEW f, NEW n \in Nat, Natural(f, n)
    PROVE  SumTo(f, n) \in Nat
  <1>1. PICK a : SumTo(f, n) = a[n] /\ \A i \in 0 .. n : a[i] \in Nat
    BY SumLoop
  <1>2. QED
    BY <1>1

LEMMA SumSame ==
    ASSUME NEW f, NEW g, NEW n \in Nat, Natural(f, n),
           \A i \in 0 .. n : Value(g, i) = Value(f, i)
    PROVE  Natural(g, n) /\ SumTo(g, n) = SumTo(f, n)
  <1>1. Natural(g, n)
    BY DEF Natural
  <1>2. PICK a : Sums(a, f, n) /\ SumTo(f, n) = a[n]
    BY SumLoop
  <1>3. PICK b : Sums(b, g, n) /\ SumTo(g, n) = b[n]
    BY <1>1, SumLoop
  <1>4. b[n] = a[n]
    <2>1. n <= n
      OBVIOUS
    <2>2. QED
      BY <1>2, <1>3, <2>1, SumsEqual
  <1>5. QED
    BY <1>1, <1>2, <1>3, <1>4

\* g is f with d more at k.  All that SumMore needs is in one formula, by which
\* the provers know the instance.
HasMore(g, f, k, d, n) ==
    /\ n \in Nat /\ d \in Nat /\ k \in 0 .. n
    /\ Natural(f, n)
    /\ \A i \in 0 .. n : Value(g, i) = Value(f, i) + (IF i = k THEN d ELSE 0)

\* With d more at one place, there is d more in all.
LEMMA SumMore ==
    \A g, f, k, d, n : HasMore(g, f, k, d, n) => SumTo(g, n) = SumTo(f, n) + d
  <1> SUFFICES ASSUME NEW f, NEW g, NEW n \in Nat, Natural(f, n), NEW d \in Nat,
                      NEW k \in 0 .. n, HasMore(g, f, k, d, n)
               PROVE  SumTo(g, n) = SumTo(f, n) + d
    BY DEF HasMore
  <1>1. Natural(g, n)
    <2>1. ASSUME NEW i \in 0 .. n PROVE Value(g, i) \in Nat
      <3>1. Value(f, i) \in Nat /\ (IF i = k THEN d ELSE 0) \in Nat
        BY DEF Natural
      <3>2. QED
        BY <3>1 DEF HasMore
    <2>2. QED
      BY <2>1 DEF Natural
  <1>2. PICK a : /\ Sums(a, f, n) /\ SumTo(f, n) = a[n]
                 /\ \A i \in 0 .. n : a[i] \in Nat
    BY SumLoop
  <1>3. PICK b : Sums(b, g, n) /\ SumTo(g, n) = b[n]
    BY <1>1, SumLoop
  <1> DEFINE P == {j \in Nat : j <= n => b[j] = a[j] + (IF k <= j THEN d ELSE 0)}
  <1>4. 0 \in P
    <2>1. b[0] = Value(f, 0) + (IF k = 0 THEN d ELSE 0) /\ a[0] = Value(f, 0)
      BY <1>2, <1>3 DEF Sums, HasMore
    <2>2. k <= 0 <=> k = 0
      OBVIOUS
    <2>3. QED
      BY <2>1, <2>2
  <1>5. ASSUME NEW j \in Nat, j \in P
        PROVE  j + 1 \in P
    <2>1. SUFFICES ASSUME j + 1 <= n
                   PROVE  b[j + 1] = a[j + 1] + (IF k <= j + 1 THEN d ELSE 0)
      OBVIOUS
    <2>2. /\ j + 1 \in 1 .. n /\ j + 1 \in 0 .. n /\ j \in 0 .. n
          /\ (j + 1) - 1 = j /\ j <= n
      BY <2>1
    <2>3. a[j + 1] = Value(f, j + 1) + a[j] /\ b[j + 1] = Value(g, j + 1) + b[j]
      BY <1>2, <1>3, <2>2 DEF Sums
    <2>4. PICK x, y \in Nat : x = a[j] /\ y = Value(f, j + 1)
      BY <1>2, <2>2 DEF Natural
    <2>5. b[j] = x + (IF k <= j THEN d ELSE 0)
      BY <1>5, <2>2, <2>4
    <2>6. Value(g, j + 1) = y + (IF j + 1 = k THEN d ELSE 0)
      BY <2>2, <2>4 DEF HasMore
    <2>7. a[j + 1] = y + x
      BY <2>3, <2>4
    <2>8. b[j + 1] = (y + (IF j + 1 = k THEN d ELSE 0))
                        + (x + (IF k <= j THEN d ELSE 0))
      BY <2>3, <2>5, <2>6
    <2>9. CASE k <= j
      BY <2>7, <2>8, <2>9
    <2>10. CASE k = j + 1
      BY <2>7, <2>8, <2>10
    <2>11. CASE k > j + 1
      BY <2>7, <2>8, <2>11
    <2>12. QED
      BY <2>9, <2>10, <2>11
  <1>6. n \in P
    <2> HIDE DEF P
    <2>1. QED
      BY <1>4, <1>5, Induction
  <1>7. b[n] = a[n] + d
    BY <1>6
  <1>8. QED
    BY <1>2, <1>3, <1>7

\* A sum of nothing is nothing.
LEMMA SumNothing ==
    ASSUME NEW f, NEW n \in Nat, \A i \in 0 .. n : Value(f, i) = 0
    PROVE  Natural(f, n) /\ SumTo(f, n) = 0
  <1>1. Natural(f, n)
    BY DEF Natural
  <1>2. PICK a : Sums(a, f, n) /\ SumTo(f, n) = a[n]
    BY <1>1, SumLoop
  <1> DEFINE P == {j \in Nat : j <= n => a[j] = 0}
  <1>3. 0 \in P
    BY <1>2 DEF Sums
  <1>4. ASSUME NEW j \in Nat, j \in P
        PROVE  j + 1 \in P
    <2>1. SUFFICES ASSUME j + 1 <= n PROVE a[j + 1] = 0
      OBVIOUS
    <2>2. j + 1 \in 1 .. n /\ j + 1 \in 0 .. n /\ (j + 1) - 1 = j /\ j <= n
      BY <2>1
    <2>3. a[j + 1] = 0 + a[j]
      BY <1>2, <2>2 DEF Sums
    <2>4. QED
      BY <1>4, <2>2, <2>3
  <1>5. n \in P
    <2> HIDE DEF P
    <2>1. QED
      BY <1>3, <1>4, Induction
  <1>6. QED
    BY <1>1, <1>2, <1>5

-----------------------------------------------------------------------------
(* The totals.                                                             *)

Totals(K) ==
    [raw : Nat, ignored : Nat, rawFailures : Nat, requests : Nat,
     failures : Nat, success : Nat, seen : SUBSET K]

\* Whether a trace is the first of its group, or of none.
New(keys, seen) == IF keys # {} /\ keys \subseteq seen THEN 0 ELSE 1

\* What a trace adds to the totals.
LEMMA CountFolded ==
    ASSUME NEW K, NEW m \in Totals(K), NEW t, NEW c, Folded(t, c)
    PROVE  CountTrace(m, t, c) =
              [raw |-> m.raw + 1, ignored |-> m.ignored + 1,
               rawFailures |-> m.rawFailures, requests |-> m.requests,
               failures |-> m.failures, success |-> m.success, seen |-> m.seen]
  <1>1. CountTrace(m, t, c) = [m EXCEPT !.raw = @ + 1, !.ignored = @ + 1]
    BY Zenon DEF CountTrace
  <1>2. QED
    BY <1>1 DEF Totals

LEMMA CountSuccess ==
    ASSUME NEW K, NEW m \in Totals(K), NEW t, NEW c, ~Folded(t, c), ~IsFailure(t)
    PROVE  CountTrace(m, t, c) =
              [raw |-> m.raw + 1, ignored |-> m.ignored,
               rawFailures |-> m.rawFailures, requests |-> m.requests + 1,
               failures |-> m.failures, success |-> m.success + 1, seen |-> m.seen]
  <1>1. CountTrace(m, t, c) =
           [m EXCEPT !.raw = @ + 1, !.requests = @ + 1, !.success = @ + 1]
    BY Zenon DEF CountTrace
  <1>2. QED
    BY <1>1 DEF Totals

LEMMA CountFailure ==
    ASSUME NEW K, NEW m \in Totals(K), NEW t, NEW c, ~Folded(t, c), IsFailure(t),
           NEW keys, keys = FailureKeys(t, c)
    PROVE  CountTrace(m, t, c) =
              [raw |-> m.raw + 1, ignored |-> m.ignored,
               rawFailures |-> m.rawFailures + 1,
               requests |-> m.requests + New(keys, m.seen),
               failures |-> m.failures + New(keys, m.seen),
               success |-> m.success, seen |-> m.seen \cup keys]
  <1>1. PICK x \in Nat : x = New(keys, m.seen)
    BY DEF New
  <1>2. CountTrace(m, t, c) =
           [m EXCEPT !.raw = @ + 1, !.rawFailures = @ + 1, !.requests = @ + x,
                     !.failures = @ + x, !.seen = @ \cup keys]
    BY <1>1, Zenon DEF CountTrace, New
  <1>3. QED
    BY <1>1, <1>2 DEF Totals

LEMMA CountTyped ==
    ASSUME NEW K, NEW m \in Totals(K), NEW t, NEW c, FailureKeys(t, c) \subseteq K
    PROVE  CountTrace(m, t, c) \in Totals(K)
  <1>1. CASE Folded(t, c)
    <2>1. CountTrace(m, t, c) =
              [raw |-> m.raw + 1, ignored |-> m.ignored + 1,
               rawFailures |-> m.rawFailures, requests |-> m.requests,
               failures |-> m.failures, success |-> m.success, seen |-> m.seen]
      BY <1>1, CountFolded
    <2>2. QED
      BY <2>1 DEF Totals
  <1>2. CASE ~Folded(t, c) /\ ~IsFailure(t)
    <2>1. CountTrace(m, t, c) =
              [raw |-> m.raw + 1, ignored |-> m.ignored,
               rawFailures |-> m.rawFailures, requests |-> m.requests + 1,
               failures |-> m.failures, success |-> m.success + 1, seen |-> m.seen]
      BY <1>2, CountSuccess
    <2>2. QED
      BY <2>1 DEF Totals
  <1>3. CASE ~Folded(t, c) /\ IsFailure(t)
    <2>1. PICK keys : keys = FailureKeys(t, c)
      OBVIOUS
    <2>2. PICK x \in Nat : x = New(keys, m.seen)
      BY DEF New
    <2>3. CountTrace(m, t, c) =
              [raw |-> m.raw + 1, ignored |-> m.ignored,
               rawFailures |-> m.rawFailures + 1,
               requests |-> m.requests + x, failures |-> m.failures + x,
               success |-> m.success, seen |-> m.seen \cup keys]
      BY <1>3, <2>1, <2>2, CountFailure
    <2>4. QED
      BY <2>1, <2>3 DEF Totals
  <1>4. QED
    BY <1>1, <1>2, <1>3

\* The loop of Metrics.
Counting(m, s, c, n) ==
    /\ m[0] = NoCounts
    /\ \A i \in 1 .. n : m[i] = CountTrace(m[i - 1], s[i], c)

LEMMA MetricsLoop ==
    ASSUME NEW s, NEW c, NEW n \in Nat, n = Len(s),
           NEW K, \A i \in 1 .. n : FailureKeys(s[i], c) \subseteq K
    PROVE  \E m : /\ Counting(m, s, c, n) /\ Metrics(s, c) = m[n]
                  /\ \A i \in 0 .. n : m[i] \in Totals(K)
  <1> DEFINE loop(m) == [i \in 0 .. n |->
                 IF i = 0 THEN NoCounts ELSE CountTrace(m[i - 1], s[i], c)]
             met == CHOOSE m : m = loop(m)
  <1>1. Metrics(s, c) = met[n]
    BY Zenon DEF Metrics
  <1>2. NoCounts \in Totals(K)
    BY DEF NoCounts, Totals
  <1>3. \E m \in [0 .. n -> Totals(K)] : m = loop(m)
    <2>1. PICK V : V = Totals(K)
      OBVIOUS
    <2> DEFINE turn == [p \in (1 .. n) \X V |-> CountTrace(p[2], s[p[1]], c)]
    <2>2. turn \in [(1 .. n) \X V -> V]
      <3>1. ASSUME NEW p \in (1 .. n) \X V
            PROVE  CountTrace(p[2], s[p[1]], c) \in V
        <4>1. p[1] \in 1 .. n /\ p[2] \in V
          OBVIOUS
        <4>2. QED
          BY <2>1, <4>1, CountTyped
      <3>2. QED
        BY <3>1
    <2>3. \A i \in 1 .. n, x \in V : turn[<<i, x>>] = CountTrace(x, s[i], c)
      OBVIOUS
    <2> HIDE DEF turn
    <2>4. PICK m \in [0 .. n -> V] : Loops(m, NoCounts, turn, n)
      BY <1>2, <2>1, <2>2, LoopExists
    <2>5. ASSUME NEW i \in 0 .. n
          PROVE  m[i] = IF i = 0 THEN NoCounts ELSE CountTrace(m[i - 1], s[i], c)
      <3>1. CASE i = 0
        BY <2>4, <3>1 DEF Loops
      <3>2. CASE i # 0
        <4>1. i \in 1 .. n /\ m[i - 1] \in V
          BY <3>2
        <4>2. QED
          BY <2>3, <2>4, <3>2, <4>1, Zenon DEF Loops
      <3>3. QED
        BY <3>1, <3>2
    <2>6. m = [i \in 0 .. n |-> m[i]]
      OBVIOUS
    <2>7. m = loop(m)
      BY <2>5, <2>6, Zenon
    <2>8. QED
      BY <2>1, <2>7
  <1>4. met = loop(met)
    BY <1>3, Zenon
  <1> HIDE DEF met
  <1>5. \A i \in 0 .. n : met[i] = loop(met)[i]
    BY <1>4, Zenon
  <1>6. \A i \in 0 .. n : met[i] = IF i = 0 THEN NoCounts
                                   ELSE CountTrace(met[i - 1], s[i], c)
    BY <1>5, Zenon
  <1>7. Counting(met, s, c, n)
    <2>1. 0 \in 0 .. n /\ \A i \in 1 .. n : i \in 0 .. n /\ i # 0
      OBVIOUS
    <2>2. QED
      BY <1>6, <2>1, Zenon DEF Counting
  <1> DEFINE P == {k \in Nat : k <= n => met[k] \in Totals(K)}
  <1>8. 0 \in P
    BY <1>2, <1>7 DEF Counting
  <1>9. ASSUME NEW k \in Nat, k \in P
        PROVE  k + 1 \in P
    <2>1. SUFFICES ASSUME k + 1 <= n PROVE met[k + 1] \in Totals(K)
      OBVIOUS
    <2>2. k + 1 \in 1 .. n /\ (k + 1) - 1 = k /\ k <= n
      BY <2>1
    <2>3. met[k + 1] = CountTrace(met[k], s[k + 1], c)
      BY <1>7, <2>2 DEF Counting
    <2>4. met[k] \in Totals(K) /\ FailureKeys(s[k + 1], c) \subseteq K
      BY <1>9, <2>2
    <2>5. QED
      BY <2>3, <2>4, CountTyped
  <1>10. Nat \subseteq P
    <2> HIDE DEF P
    <2>1. QED
      BY <1>8, <1>9, Induction
  <1>11. \A i \in 0 .. n : met[i] \in Totals(K)
    BY <1>10
  <1>12. QED
    BY <1>1, <1>7, <1>11, Zenon

-----------------------------------------------------------------------------
(* The rows.                                                               *)

Row(K) == [keys : SUBSET K, count : Nat, excluded : BOOLEAN]
FirstRow(t, c) == [keys |-> RowKeys(t, c), count |-> 1, excluded |-> Folded(t, c)]

\* A trace begins a row, or goes to the one with its key.
Placed(d, rows, keys, row) ==
    \/ /\ keys = {} \/ \A i \in DOMAIN rows : rows[i].keys # keys
       /\ d = Append(rows, row)
    \/ \E j \in DOMAIN rows :
          /\ keys # {} /\ rows[j].keys = keys
          /\ d = [rows EXCEPT ![j].count = @ + 1]

LEMMA PlaceCases ==
    ASSUME NEW rows, NEW t, NEW c
    PROVE  Placed(PlaceTrace(rows, t, c), rows, RowKeys(t, c), FirstRow(t, c))
  <1> DEFINE keys == RowKeys(t, c)
             at == {i \in DOMAIN rows : rows[i].keys = keys}
             d == PlaceTrace(rows, t, c)
  <1>1. d = IF keys = {} \/ at = {} THEN Append(rows, FirstRow(t, c))
            ELSE [rows EXCEPT ![CHOOSE i \in at : TRUE].count = @ + 1]
    BY Zenon DEF PlaceTrace, FirstRow
  <1> HIDE DEF d
  <1>2. CASE keys = {} \/ at = {}
    <2>1. d = Append(rows, FirstRow(t, c))
      BY <1>1, <1>2, Zenon
    <2>2. keys = {} \/ \A i \in DOMAIN rows : rows[i].keys # keys
      BY <1>2, Zenon
    <2>3. QED
      BY <2>1, <2>2, Zenon DEF Placed, d
  <1>3. CASE ~(keys = {} \/ at = {})
    <2>1. PICK j \in at : j = CHOOSE i \in at : TRUE
      BY <1>3, Zenon
    <2>2. d = [rows EXCEPT ![j].count = @ + 1]
      BY <1>1, <1>3, <2>1, Zenon
    <2>3. j \in DOMAIN rows /\ rows[j].keys = keys /\ keys # {}
      BY <1>3, <2>1, Zenon
    <2>4. QED
      BY <2>2, <2>3, Zenon DEF Placed, d
  <1>4. QED
    BY <1>2, <1>3

LEMMA PlaceTyped ==
    ASSUME NEW K, NEW rows \in Seq(Row(K)), NEW t, NEW c, RowKeys(t, c) \subseteq K
    PROVE  PlaceTrace(rows, t, c) \in Seq(Row(K))
  <1>1. FirstRow(t, c) \in Row(K)
    <2>1. Folded(t, c) \in BOOLEAN
      BY DEF Folded
    <2>2. QED
      BY <2>1 DEF FirstRow, Row
  <1>2. CASE PlaceTrace(rows, t, c) = Append(rows, FirstRow(t, c))
    BY <1>1, <1>2
  <1>3. ASSUME NEW j \in DOMAIN rows,
               PlaceTrace(rows, t, c) = [rows EXCEPT ![j].count = @ + 1]
        PROVE  PlaceTrace(rows, t, c) \in Seq(Row(K))
    <2>1. rows[j] \in Row(K)
      OBVIOUS
    <2>2. [rows[j] EXCEPT !.count = @ + 1] \in Row(K)
      BY <2>1, SMTT(30) DEF Row
    <2>3. PICK x \in Row(K) : x = [rows[j] EXCEPT !.count = @ + 1]
      BY <2>2
    <2>4. PlaceTrace(rows, t, c) = [rows EXCEPT ![j] = x]
      BY <1>3, <2>3, Zenon
    <2>5. QED
      BY <2>4
  <1>4. QED
    BY <1>2, <1>3, PlaceCases, Zenon DEF Placed

\* The loop of DisplayTraces.
Placing(r, s, c, n) ==
    /\ r[0] = <<>>
    /\ \A i \in 1 .. n : r[i] = PlaceTrace(r[i - 1], s[i], c)

LEMMA RowsLoop ==
    ASSUME NEW s, NEW c, NEW n \in Nat, n = Len(s),
           NEW K, \A i \in 1 .. n : RowKeys(s[i], c) \subseteq K
    PROVE  \E r : /\ Placing(r, s, c, n) /\ DisplayTraces(s, c) = r[n]
                  /\ \A i \in 0 .. n : r[i] \in Seq(Row(K))
  <1> DEFINE loop(r) == [i \in 0 .. n |->
                 IF i = 0 THEN <<>> ELSE PlaceTrace(r[i - 1], s[i], c)]
             rows == CHOOSE r : r = loop(r)
  <1>1. DisplayTraces(s, c) = rows[n]
    BY Zenon DEF DisplayTraces
  <1>2. <<>> \in Seq(Row(K))
    OBVIOUS
  <1>3. \E r \in [0 .. n -> Seq(Row(K))] : r = loop(r)
    <2>1. PICK V : V = Seq(Row(K))
      OBVIOUS
    <2> DEFINE turn == [p \in (1 .. n) \X V |-> PlaceTrace(p[2], s[p[1]], c)]
    <2>2. turn \in [(1 .. n) \X V -> V]
      <3>1. ASSUME NEW p \in (1 .. n) \X V
            PROVE  PlaceTrace(p[2], s[p[1]], c) \in V
        <4>1. p[1] \in 1 .. n /\ p[2] \in V
          OBVIOUS
        <4>2. QED
          BY <2>1, <4>1, PlaceTyped
      <3>2. QED
        BY <3>1
    <2>3. \A i \in 1 .. n, x \in V : turn[<<i, x>>] = PlaceTrace(x, s[i], c)
      OBVIOUS
    <2> HIDE DEF turn
    <2>4. PICK r \in [0 .. n -> V] : Loops(r, <<>>, turn, n)
      BY <1>2, <2>1, <2>2, LoopExists
    <2>5. ASSUME NEW i \in 0 .. n
          PROVE  r[i] = IF i = 0 THEN <<>> ELSE PlaceTrace(r[i - 1], s[i], c)
      <3>1. CASE i = 0
        BY <2>4, <3>1 DEF Loops
      <3>2. CASE i # 0
        <4>1. i \in 1 .. n /\ r[i - 1] \in V
          BY <3>2
        <4>2. QED
          BY <2>3, <2>4, <3>2, <4>1, Zenon DEF Loops
      <3>3. QED
        BY <3>1, <3>2
    <2>6. r = [i \in 0 .. n |-> r[i]]
      OBVIOUS
    <2>7. r = loop(r)
      BY <2>5, <2>6, Zenon
    <2>8. QED
      BY <2>1, <2>7
  <1>4. rows = loop(rows)
    BY <1>3, Zenon
  <1> HIDE DEF rows
  <1>5. \A i \in 0 .. n : rows[i] = loop(rows)[i]
    BY <1>4, Zenon
  <1>6. \A i \in 0 .. n : rows[i] = IF i = 0 THEN <<>>
                                    ELSE PlaceTrace(rows[i - 1], s[i], c)
    BY <1>5, Zenon
  <1>7. Placing(rows, s, c, n)
    <2>1. 0 \in 0 .. n /\ \A i \in 1 .. n : i \in 0 .. n /\ i # 0
      OBVIOUS
    <2>2. QED
      BY <1>6, <2>1, Zenon DEF Placing
  <1> DEFINE P == {k \in Nat : k <= n => rows[k] \in Seq(Row(K))}
  <1>8. 0 \in P
    BY <1>2, <1>7 DEF Placing
  <1>9. ASSUME NEW k \in Nat, k \in P
        PROVE  k + 1 \in P
    <2>1. SUFFICES ASSUME k + 1 <= n PROVE rows[k + 1] \in Seq(Row(K))
      OBVIOUS
    <2>2. k + 1 \in 1 .. n /\ (k + 1) - 1 = k /\ k <= n
      BY <2>1
    <2>3. rows[k + 1] = PlaceTrace(rows[k], s[k + 1], c)
      BY <1>7, <2>2 DEF Placing
    <2>4. rows[k] \in Seq(Row(K)) /\ RowKeys(s[k + 1], c) \subseteq K
      BY <1>9, <2>2
    <2>5. QED
      BY <2>3, <2>4, PlaceTyped
  <1>10. Nat \subseteq P
    <2> HIDE DEF P
    <2>1. QED
      BY <1>8, <1>9, Induction
  <1>11. \A i \in 0 .. n : rows[i] \in Seq(Row(K))
    BY <1>10
  <1>12. QED
    BY <1>1, <1>7, <1>11, Zenon

LEMMA RowCounts ==
    ASSUME NEW K, NEW rows \in Seq(Row(K)), NEW i \in DOMAIN rows
    PROVE  rows[i].count \in Nat /\ rows[i].excluded \in BOOLEAN
  <1>1. rows[i] \in Row(K)
    OBVIOUS
  <1>2. QED
    BY <1>1 DEF Row

\* How many traces some rows stand for, once there is a row more, and once a
\* row stands for one more.
LEMMA ChildrenOfMoreRows ==
    ASSUME NEW K, NEW rows \in Seq(Row(K)), NEW row \in Row(K),
           NEW is, is \subseteq DOMAIN rows
    PROVE  /\ Children(rows, is) \in Nat
           /\ Children(Append(rows, row), is) = Children(rows, is)
           /\ Children(Append(rows, row), is \cup {Len(rows) + 1})
                 = Children(rows, is) + row.count
  <1>1. PICK n \in Nat : n = Len(rows) /\ DOMAIN rows = 1 .. n
    OBVIOUS
  <1>2. PICK d \in Seq(Row(K)) :
           /\ d = Append(rows, row) /\ Len(d) = n + 1 /\ d[n + 1] = row
           /\ \A i \in 1 .. n : d[i] = rows[i]
    <2>1. PICK R : R = Row(K)
      OBVIOUS
    <2>2. rows \in Seq(R) /\ row \in R
      BY <2>1
    <2>3. Append(rows, row) \in Seq(R)
      BY <2>2
    <2>4. /\ Len(Append(rows, row)) = n + 1 /\ Append(rows, row)[n + 1] = row
          /\ \A i \in 1 .. n : Append(rows, row)[i] = rows[i]
      BY <1>1, <2>2
    <2>5. QED
      BY <2>1, <2>3, <2>4
  <1> DEFINE f == [i \in is |-> rows[i].count]
             g == [i \in is |-> d[i].count]
             h == [i \in is \cup {n + 1} |-> d[i].count]
  <1>3. /\ Children(rows, is) = SumTo(f, n)
        /\ Children(d, is) = SumTo(g, n + 1)
        /\ Children(d, is \cup {n + 1}) = SumTo(h, n + 1)
    BY <1>1, <1>2, Zenon DEF Children
  <1>4. PICK x \in Nat : x = row.count
    BY DEF Row
  <1>5. is \subseteq 1 .. n /\ n + 1 \notin is
    BY <1>1
  <1>6. ASSUME NEW i \in 0 .. n + 1
        PROVE  /\ Value(f, i) \in Nat
               /\ Value(g, i) = Value(f, i)
               /\ Value(h, i) = IF i = n + 1 THEN x ELSE Value(f, i)
    <2>1. CASE i \in is
      <3>1. i \in 1 .. n /\ d[i] = rows[i] /\ i # n + 1
        BY <1>2, <1>5, <2>1
      <3>2. rows[i].count \in Nat
        BY <1>1, <3>1, RowCounts
      <3> HIDE DEF h
      <3>3. Value(f, i) = rows[i].count /\ Value(g, i) = rows[i].count
        BY <2>1, <3>1 DEF Value
      <3>4. Value(h, i) = rows[i].count
        BY <2>1, <3>1 DEF Value, h
      <3>5. QED
        BY <3>1, <3>2, <3>3, <3>4
    <2>2. CASE i \notin is /\ i # n + 1
      BY <2>2 DEF Value
    <2>3. CASE i = n + 1
      BY <1>2, <1>4, <1>5, <2>3 DEF Value
    <2>4. QED
      BY <2>1, <2>2, <2>3
  <1>7. Value(f, n + 1) = 0
    BY <1>5 DEF Value
  <1> HIDE DEF f, g, h
  <1>8. Natural(f, n + 1) /\ Natural(f, n) /\ n + 1 \in Nat /\ n + 1 \in 0 .. n + 1
    BY <1>6 DEF Natural
  <1>9. SumTo(f, n) \in Nat
    BY <1>8, SumNatural
  <1>10. SumTo(g, n + 1) = SumTo(f, n + 1)
    <2>1. \A i \in 0 .. n + 1 : Value(g, i) = Value(f, i)
      BY <1>6
    <2>2. QED
      BY <1>8, <2>1, SumSame
  <1>11. SumTo(f, n + 1) = SumTo(f, n) + 0
    BY <1>7, <1>8, SumStep
  <1>12. Natural(h, n + 1)
    <2>1. \A i \in 0 .. n + 1 : Value(h, i) \in Nat
      BY <1>4, <1>6
    <2>2. QED
      BY <2>1 DEF Natural
  <1>13. SumTo(h, n + 1) = SumTo(h, n) + x
    <2>1. Value(h, n + 1) = x
      BY <1>6, <1>8
    <2>2. QED
      BY <1>12, <2>1, SumStep
  <1>14. SumTo(h, n) = SumTo(f, n)
    <2>1. \A i \in 0 .. n : Value(h, i) = Value(f, i)
      <3>1. \A i \in 0 .. n : i \in 0 .. n + 1 /\ i # n + 1
        OBVIOUS
      <3>2. QED
        BY <1>6, <3>1
    <2>2. QED
      BY <1>8, <2>1, SumSame
  <1>15. Children(rows, is) \in Nat /\ Children(d, is) = Children(rows, is)
    BY <1>3, <1>9, <1>10, <1>11
  <1>16. Children(d, is \cup {n + 1}) = Children(rows, is) + x
    BY <1>3, <1>13, <1>14
  <1>17. QED
    BY <1>1, <1>2, <1>4, <1>15, <1>16

LEMMA ChildrenOfLargerRow ==
    ASSUME NEW K, NEW rows \in Seq(Row(K)), NEW j \in DOMAIN rows,
           NEW is, is \subseteq DOMAIN rows,
           NEW d, d = [rows EXCEPT ![j].count = @ + 1]
    PROVE  Children(d, is) = Children(rows, is) + (IF j \in is THEN 1 ELSE 0)
  <1>1. PICK n \in Nat : n = Len(rows) /\ DOMAIN rows = 1 .. n
    OBVIOUS
  <1>2. PICK x \in Nat : x = rows[j].count
    BY RowCounts
  <1>3. Len(d) = n /\ d[j].count = x + 1 /\ \A i \in 1 .. n : i # j => d[i] = rows[i]
    <2>1. PICK y : y = [rows[j] EXCEPT !.count = @ + 1]
      OBVIOUS
    <2>2. d = [rows EXCEPT ![j] = y]
      BY <2>1, Zenon
    <2>3. y.count = x + 1
      <3>1. rows[j] \in Row(K)
        OBVIOUS
      <3>2. QED
        BY <1>2, <2>1, <3>1 DEF Row
    <2>4. Len(d) = n /\ d[j] = y /\ \A i \in 1 .. n : i # j => d[i] = rows[i]
      BY <1>1, <2>2
    <2>5. QED
      BY <2>3, <2>4
  <1> DEFINE f == [i \in is |-> rows[i].count]
             g == [i \in is |-> d[i].count]
  <1>4. Children(rows, is) = SumTo(f, n) /\ Children(d, is) = SumTo(g, n)
    BY <1>1, <1>3, Zenon DEF Children
  <1>5. PICK e \in Nat : e = IF j \in is THEN 1 ELSE 0
    OBVIOUS
  <1>6. ASSUME NEW i \in 0 .. n
        PROVE  /\ Value(f, i) \in Nat
               /\ Value(g, i) = Value(f, i) + (IF i = j THEN e ELSE 0)
    <2>1. CASE i \in is /\ i # j
      <3>1. i \in 1 .. n /\ d[i] = rows[i] /\ rows[i].count \in Nat
        BY <1>1, <1>3, <2>1, RowCounts
      <3>2. Value(f, i) = rows[i].count /\ Value(g, i) = rows[i].count
        BY <2>1, <3>1 DEF Value
      <3>3. QED
        BY <2>1, <3>1, <3>2
    <2>2. CASE i \in is /\ i = j
      <3>1. Value(f, i) = x /\ Value(g, i) = x + 1
        BY <1>2, <1>3, <2>2 DEF Value
      <3>2. QED
        BY <1>5, <2>2, <3>1
    <2>3. CASE i \notin is
      <3>1. Value(f, i) = 0 /\ Value(g, i) = 0 /\ (i = j => e = 0)
        BY <1>5, <2>3 DEF Value
      <3>2. QED
        BY <3>1
    <2>4. QED
      BY <2>1, <2>2, <2>3
  <1> HIDE DEF f, g
  <1>7. Natural(f, n) /\ j \in 0 .. n
    BY <1>1, <1>6 DEF Natural
  <1>8. SumTo(g, n) = SumTo(f, n) + e
    <2>1. HasMore(g, f, j, e, n)
      BY <1>6, <1>7 DEF HasMore
    <2>2. QED
      BY <2>1, SumMore
  <1>9. QED
    BY <1>4, <1>5, <1>8

-----------------------------------------------------------------------------
(* Totals and rows of the same traces.                                     *)

InTotals(rows) == {i \in DOMAIN rows : ~rows[i].excluded}
LeftOut(rows) == DOMAIN rows \ InTotals(rows)
KeysOf(rows, is) == UNION {rows[i].keys : i \in is}

FoldKeys(keys) == \E k : keys = {k} /\ k[1] = "fold"
GroupKeys(keys) == keys = {} \/ \E k : keys = {k} /\ k[1] = "failure"

\* The rows that are left out are those of folded traces.
Apart(row) == IF row.excluded THEN FoldKeys(row.keys) ELSE GroupKeys(row.keys)
RowsApart(rows) == \A i \in DOMAIN rows : Apart(rows[i])

\* The rows d are the rows with a row more.
RowAdded(d, rows, row) ==
    LET out == row.excluded IN
    /\ Cardinality(InTotals(d)) = Cardinality(InTotals(rows)) + (IF out THEN 0 ELSE 1)
    /\ Children(d, DOMAIN d) = Children(rows, DOMAIN rows) + row.count
    /\ Children(d, LeftOut(d))
          = Children(rows, LeftOut(rows)) + (IF out THEN row.count ELSE 0)
    /\ Children(d, InTotals(d))
          = Children(rows, InTotals(rows)) + (IF out THEN 0 ELSE row.count)
    /\ KeysOf(d, InTotals(d))
          = KeysOf(rows, InTotals(rows)) \cup (IF out THEN {} ELSE row.keys)

\* What the totals say of the rows.
SameTraces(m, rows) ==
    /\ m.requests = Cardinality(InTotals(rows))
    /\ m.ignored = Children(rows, LeftOut(rows))
    /\ m.raw = Children(rows, DOMAIN rows)
    /\ m.rawFailures + m.requests = Children(rows, InTotals(rows)) + m.failures
    /\ m.seen = KeysOf(rows, InTotals(rows))

\* A row more.
LEMMA MoreRows ==
    ASSUME NEW K, NEW rows \in Seq(Row(K)), RowsApart(rows),
           NEW row \in Row(K), Apart(row), NEW d, d = Append(rows, row)
    PROVE  RowsApart(d) /\ RowAdded(d, rows, row)
  <1>1. PICK n \in Nat : n = Len(rows) /\ DOMAIN rows = 1 .. n
    OBVIOUS
  <1>2. /\ DOMAIN d = DOMAIN rows \cup {n + 1} /\ d[n + 1] = row
        /\ n + 1 \notin DOMAIN rows
        /\ \A i \in DOMAIN rows : d[i] = rows[i]
    <2>1. PICK R : R = Row(K)
      OBVIOUS
    <2>2. rows \in Seq(R) /\ row \in R
      BY <2>1
    <2>3. /\ Len(d) = n + 1 /\ d \in Seq(R) /\ d[n + 1] = row
          /\ \A i \in 1 .. n : d[i] = rows[i]
      BY <1>1, <2>2
    <2>4. DOMAIN d = 1 .. n + 1
      BY <2>3
    <2>5. 1 .. n + 1 = (1 .. n) \cup {n + 1} /\ n + 1 \notin 1 .. n
      OBVIOUS
    <2>6. QED
      BY <1>1, <2>3, <2>4, <2>5
  <1>3. RowsApart(d)
    BY <1>2, Zenon DEF RowsApart
  <1>4. row.excluded \in BOOLEAN /\ row.count \in Nat
    BY DEF Row
  <1> DEFINE C == InTotals(rows)
             L == LeftOut(rows)
             D == DOMAIN rows
  <1>5. C \subseteq D /\ L \subseteq D
    BY DEF InTotals, LeftOut
  <1>6. IF row.excluded
        THEN InTotals(d) = C /\ LeftOut(d) = L \cup {n + 1}
        ELSE InTotals(d) = C \cup {n + 1} /\ LeftOut(d) = L
    BY <1>2, Zenon DEF InTotals, LeftOut
  <1>7. \A is : is \subseteq D =>
           /\ Children(rows, is) \in Nat
           /\ Children(d, is) = Children(rows, is)
           /\ Children(d, is \cup {n + 1}) = Children(rows, is) + row.count
    <2>1. ASSUME NEW is, is \subseteq DOMAIN rows
          PROVE  /\ Children(rows, is) \in Nat
                 /\ Children(d, is) = Children(rows, is)
                 /\ Children(d, is \cup {Len(rows) + 1})
                       = Children(rows, is) + row.count
      BY <2>1, ChildrenOfMoreRows
    <2>2. QED
      BY <1>1, <2>1, Zenon
  <1>8. /\ KeysOf(d, C) = KeysOf(rows, C)
        /\ KeysOf(d, C \cup {n + 1}) = KeysOf(rows, C) \cup row.keys
    BY <1>2, <1>5, ZenonT(60) DEF KeysOf
  <1>9. /\ Cardinality(C) \in Nat
        /\ Cardinality(C \cup {n + 1}) = Cardinality(C) + 1
    <2>1. IsFiniteSet(D)
      BY <1>1, FS_Interval
    <2>2. IsFiniteSet(C) /\ n + 1 \notin C
      BY <1>2, <1>5, <2>1, FS_Subset
    <2>3. QED
      BY <2>2, FS_AddElement, FS_CardinalityType
  <1>10. Children(d, DOMAIN d) = Children(rows, D) + row.count
    BY <1>2, <1>7
  <1> HIDE DEF C, L, D
  <1>11. CASE row.excluded
    <2>1. InTotals(d) = C /\ LeftOut(d) = L \cup {n + 1}
      BY <1>6, <1>11
    <2>2. Children(d, C) = Children(rows, C) /\ Children(rows, C) \in Nat
      BY <1>5, <1>7
    <2>3. Children(d, L \cup {n + 1}) = Children(rows, L) + row.count
      BY <1>5, <1>7
    <2>4. QED
      BY <1>3, <1>4, <1>8, <1>9, <1>10, <1>11, <2>1, <2>2, <2>3 DEF C, L, D, RowAdded
  <1>12. CASE ~row.excluded
    <2>1. InTotals(d) = C \cup {n + 1} /\ LeftOut(d) = L
      BY <1>6, <1>12
    <2>2. Children(d, L) = Children(rows, L) /\ Children(rows, L) \in Nat
      BY <1>5, <1>7
    <2>3. Children(d, C \cup {n + 1}) = Children(rows, C) + row.count
      BY <1>5, <1>7
    <2>4. Children(d, LeftOut(d)) = Children(rows, L) + 0
      BY <2>1, <2>2
    <2>5. Children(d, InTotals(d)) = Children(rows, C) + row.count
      BY <2>1, <2>3
    <2>6. Cardinality(InTotals(d)) = Cardinality(C) + 1
      BY <1>9, <2>1
    <2>7. KeysOf(d, InTotals(d)) = KeysOf(rows, C) \cup row.keys
      BY <1>8, <2>1
    <2>8. QED
      BY <1>3, <1>9, <1>10, <1>12, <2>1, <2>4, <2>5, <2>6, <2>7, Zenon DEF C, L, D, RowAdded
  <1>13. QED
    BY <1>11, <1>12

\* A larger row.
LEMMA LargerRow ==
    ASSUME NEW K, NEW rows \in Seq(Row(K)), RowsApart(rows), NEW j \in DOMAIN rows,
           NEW d, d = [rows EXCEPT ![j].count = @ + 1]
    PROVE  /\ RowsApart(d)
           /\ InTotals(d) = InTotals(rows) /\ LeftOut(d) = LeftOut(rows)
           /\ KeysOf(d, InTotals(d)) = KeysOf(rows, InTotals(rows))
           /\ \A is : is \subseteq DOMAIN rows =>
                 Children(d, is) = Children(rows, is) + (IF j \in is THEN 1 ELSE 0)
           /\ DOMAIN d = DOMAIN rows
  <1>1. \A is : is \subseteq DOMAIN rows =>
           Children(d, is) = Children(rows, is) + (IF j \in is THEN 1 ELSE 0)
    BY ChildrenOfLargerRow, Zenon
  <1>2. /\ DOMAIN d = DOMAIN rows
        /\ \A i \in DOMAIN rows : /\ d[i].keys = rows[i].keys
                                  /\ d[i].excluded = rows[i].excluded
    <2>1. PICK y : y = [rows[j] EXCEPT !.count = @ + 1]
      OBVIOUS
    <2>2. d = [rows EXCEPT ![j] = y]
      BY <2>1, Zenon
    <2>3. y.keys = rows[j].keys /\ y.excluded = rows[j].excluded
      <3>1. rows[j] \in Row(K)
        OBVIOUS
      <3>2. QED
        BY <2>1, <3>1 DEF Row
    <2>4. \A i \in DOMAIN rows : d[i] = IF i = j THEN y ELSE rows[i]
      BY <2>2, Zenon
    <2>5. DOMAIN d = DOMAIN rows
      BY <2>2, Zenon
    <2>6. QED
      BY <2>3, <2>4, <2>5
  <1>3. InTotals(d) = InTotals(rows) /\ LeftOut(d) = LeftOut(rows)
    BY <1>2, ZenonT(60) DEF InTotals, LeftOut
  <1>4. KeysOf(d, InTotals(rows)) = KeysOf(rows, InTotals(rows))
    <2>1. \A i \in InTotals(rows) : d[i].keys = rows[i].keys
      BY <1>2, Zenon DEF InTotals
    <2>2. QED
      BY <2>1, Zenon DEF KeysOf
  <1>5. RowsApart(d)
    BY <1>2, Zenon DEF RowsApart, Apart
  <1>6. QED
    BY <1>1, <1>2, <1>3, <1>4, <1>5

LEMMA ChildrenNatural ==
    ASSUME NEW K, NEW rows \in Seq(Row(K)), NEW is, is \subseteq DOMAIN rows
    PROVE  Children(rows, is) \in Nat
  <1>1. [keys |-> {}, count |-> 0, excluded |-> FALSE] \in Row(K)
    BY DEF Row
  <1>2. QED
    BY <1>1, ChildrenOfMoreRows

LEMMA KeysApart ==
    /\ \A keys : ~(FoldKeys(keys) /\ GroupKeys(keys))
    /\ \A t : FoldKeys({FoldKey(t)})
    /\ \A t, c : GroupKeys(FailureKeys(t, c))
  <1>1. ASSUME NEW keys, FoldKeys(keys), GroupKeys(keys)
        PROVE  FALSE
    <2>1. PICK k : keys = {k} /\ k[1] = "fold"
      BY <1>1 DEF FoldKeys
    <2>2. PICK l : keys = {l} /\ l[1] = "failure"
      BY <1>1, <2>1 DEF GroupKeys
    <2>3. k = l
      BY <2>1, <2>2
    <2>4. QED
      BY <2>1, <2>2, <2>3
  <1>2. ASSUME NEW t
        PROVE  FoldKeys({FoldKey(t)})
    <2>1. FoldKey(t)[1] = "fold"
      BY DEF FoldKey
    <2>2. QED
      BY <2>1, Zenon DEF FoldKeys
  <1>3. ASSUME NEW t, NEW c
        PROVE  GroupKeys(FailureKeys(t, c))
    <2>1. PICK k : k = <<"failure", t.kind, NormalizeURL(t.url, c), t.area>>
      OBVIOUS
    <2>2. k[1] = "failure"
      BY <2>1
    <2>3. FailureKeys(t, c) = {k} \/ FailureKeys(t, c) = {}
      BY <2>1, Zenon DEF FailureKeys
    <2>4. QED
      BY <2>2, <2>3, Zenon DEF GroupKeys
  <1>4. QED
    BY <1>1, <1>2, <1>3

\* What a trace adds to the rows: a row of its own or a child of one that is on
\* the same side of the totals.
TracePlaced(d, rows, keys, folded) ==
    /\ Children(d, DOMAIN d) = Children(rows, DOMAIN rows) + 1
    /\ Cardinality(InTotals(d))
          = Cardinality(InTotals(rows))
               + (IF folded THEN 0 ELSE New(keys, KeysOf(rows, InTotals(rows))))
    /\ Children(d, LeftOut(d))
          = Children(rows, LeftOut(rows)) + (IF folded THEN 1 ELSE 0)
    /\ Children(d, InTotals(d))
          = Children(rows, InTotals(rows)) + (IF folded THEN 0 ELSE 1)
    /\ KeysOf(d, InTotals(d))
          = KeysOf(rows, InTotals(rows)) \cup (IF folded THEN {} ELSE keys)

LEMMA PlaceEffect ==
    ASSUME NEW K, NEW rows \in Seq(Row(K)), RowsApart(rows), NEW t, NEW c,
           RowKeys(t, c) \subseteq K,
           NEW d, d = PlaceTrace(rows, t, c)
    PROVE  RowsApart(d) /\ TracePlaced(d, rows, RowKeys(t, c), Folded(t, c))
  <1> DEFINE keys == RowKeys(t, c)
             seen == KeysOf(rows, InTotals(rows))
  <1>1. IF Folded(t, c) THEN FoldKeys(keys) ELSE GroupKeys(keys)
    <2>1. CASE Folded(t, c)
      BY <2>1, KeysApart, Zenon DEF RowKeys
    <2>2. CASE ~Folded(t, c)
      <3>1. keys = FailureKeys(t, c) \/ keys = {}
        BY <2>2, Zenon DEF RowKeys
      <3>2. GroupKeys({})
        BY DEF GroupKeys
      <3>3. QED
        BY <2>2, <3>1, <3>2, KeysApart, Zenon
    <2>3. QED
      BY <2>1, <2>2
  <1>2. PICK x, y, z, n \in Nat :
           /\ x = Children(rows, DOMAIN rows) /\ y = Children(rows, LeftOut(rows))
           /\ z = Children(rows, InTotals(rows)) /\ n = Cardinality(InTotals(rows))
    <2>1. LeftOut(rows) \subseteq DOMAIN rows /\ InTotals(rows) \subseteq DOMAIN rows
      BY DEF LeftOut, InTotals
    <2>2. IsFiniteSet(InTotals(rows))
      <3>1. DOMAIN rows = 1 .. Len(rows) /\ Len(rows) \in Nat
        OBVIOUS
      <3>2. IsFiniteSet(DOMAIN rows)
        BY <3>1, FS_Interval
      <3>3. QED
        BY <2>1, <3>2, FS_Subset
    <2>3. Cardinality(InTotals(rows)) \in Nat
      BY <2>2, FS_CardinalityType
    <2>4. QED
      BY <2>1, <2>3, ChildrenNatural
  <1>3. CASE /\ keys = {} \/ \A i \in DOMAIN rows : rows[i].keys # keys
             /\ d = Append(rows, FirstRow(t, c))
    <2>1. PICK row \in Row(K) :
             /\ row = FirstRow(t, c) /\ row.keys = keys /\ row.count = 1
             /\ row.excluded = Folded(t, c)
      <3>1. Folded(t, c) \in BOOLEAN
        BY DEF Folded
      <3>2. PICK b \in BOOLEAN : b = Folded(t, c)
        BY <3>1
      <3>3. PICK k \in SUBSET K : k = keys
        OBVIOUS
      <3>4. FirstRow(t, c) = [keys |-> k, count |-> 1, excluded |-> b]
        BY <3>2, <3>3, Zenon DEF FirstRow
      <3>5. [keys |-> k, count |-> 1, excluded |-> b] \in Row(K)
        BY DEF Row
      <3>6. QED
        BY <3>2, <3>3, <3>4, <3>5
    <2>2. d = Append(rows, row) /\ Apart(row)
      BY <1>1, <1>3, <2>1 DEF Apart
    <2>3. RowsApart(d) /\ RowAdded(d, rows, row)
      BY <2>2, MoreRows
    <2>4. ~Folded(t, c) => New(keys, seen) = 1
      <3>1. SUFFICES ASSUME ~Folded(t, c), keys # {}, keys \subseteq seen PROVE FALSE
        BY DEF New
      <3>2. PICK k : keys = {k}
        BY <1>1, <3>1 DEF GroupKeys
      <3>3. PICK i \in InTotals(rows) : k \in rows[i].keys
        BY <3>1, <3>2 DEF KeysOf
      <3>4. i \in DOMAIN rows /\ GroupKeys(rows[i].keys)
        BY <3>3 DEF InTotals, RowsApart, Apart
      <3>5. rows[i].keys = {k}
        BY <3>3, <3>4 DEF GroupKeys
      <3>6. QED
        BY <1>3, <3>1, <3>2, <3>4, <3>5
    <2> HIDE DEF keys, seen
    <2>5. CASE Folded(t, c)
      BY <1>2, <2>1, <2>3, <2>5 DEF RowAdded, TracePlaced
    <2>6. CASE ~Folded(t, c)
      BY <1>2, <2>1, <2>3, <2>4, <2>6 DEF keys, seen, RowAdded, TracePlaced
    <2>7. QED
      BY <2>5, <2>6
  <1>4. ASSUME NEW j \in DOMAIN rows, keys # {}, rows[j].keys = keys,
               d = [rows EXCEPT ![j].count = @ + 1]
        PROVE  RowsApart(d) /\ TracePlaced(d, rows, keys, Folded(t, c))
    <2>1. /\ RowsApart(d)
          /\ InTotals(d) = InTotals(rows) /\ LeftOut(d) = LeftOut(rows)
          /\ KeysOf(d, InTotals(d)) = seen
          /\ \A is : is \subseteq DOMAIN rows =>
                Children(d, is) = Children(rows, is) + (IF j \in is THEN 1 ELSE 0)
          /\ DOMAIN d = DOMAIN rows
      BY <1>4, LargerRow
    <2>2. rows[j].excluded <=> Folded(t, c)
      <3>1. IF rows[j].excluded THEN FoldKeys(keys) ELSE GroupKeys(keys)
        BY <1>4 DEF RowsApart, Apart
      <3>2. QED
        BY <1>1, <3>1, KeysApart
    <2>3. IF Folded(t, c) THEN j \in LeftOut(rows) /\ j \notin InTotals(rows)
                          ELSE j \notin LeftOut(rows) /\ j \in InTotals(rows)
      BY <2>2 DEF LeftOut, InTotals
    <2>4. InTotals(rows) \subseteq DOMAIN rows /\ LeftOut(rows) \subseteq DOMAIN rows
      BY DEF LeftOut, InTotals
    <2>5. ~Folded(t, c) => keys \subseteq seen
      BY <1>4, <2>3 DEF KeysOf
    <2>6. /\ Children(d, DOMAIN d) = x + 1
          /\ Children(d, LeftOut(d)) = y + (IF j \in LeftOut(rows) THEN 1 ELSE 0)
          /\ Children(d, InTotals(d)) = z + (IF j \in InTotals(rows) THEN 1 ELSE 0)
      BY <1>2, <1>4, <2>1, <2>4
    <2>7. Cardinality(InTotals(d)) = n
      BY <1>2, <2>1
    <2> HIDE DEF keys, seen
    <2>8. CASE Folded(t, c)
      BY <1>2, <2>1, <2>3, <2>6, <2>7, <2>8 DEF seen, TracePlaced
    <2>9. CASE ~Folded(t, c)
      <3>1. New(keys, seen) = 0 /\ seen \cup keys = seen
        BY <1>4, <2>5, <2>9 DEF New
      <3>2. QED
        BY <1>2, <2>1, <2>3, <2>6, <2>7, <2>9, <3>1 DEF seen, TracePlaced
    <2>10. QED
      BY <2>8, <2>9
  <1>5. \/ /\ keys = {} \/ \A i \in DOMAIN rows : rows[i].keys # keys
           /\ d = Append(rows, FirstRow(t, c))
        \/ \E j \in DOMAIN rows :
              /\ keys # {} /\ rows[j].keys = keys
              /\ d = [rows EXCEPT ![j].count = @ + 1]
    <2>1. Placed(d, rows, RowKeys(t, c), FirstRow(t, c))
      BY PlaceCases, Zenon
    <2>2. QED
      BY <2>1, Zenon DEF Placed
  <1>6. QED
    BY <1>3, <1>4, <1>5, Zenon

\* One more trace, counted and placed.
LEMMA SameTracesStep ==
    ASSUME NEW K, NEW m \in Totals(K), NEW rows \in Seq(Row(K)),
           SameTraces(m, rows), RowsApart(rows),
           NEW t, NEW c, RowKeys(t, c) \subseteq K,
           NEW v, v = CountTrace(m, t, c), NEW d, d = PlaceTrace(rows, t, c)
    PROVE  SameTraces(v, d) /\ RowsApart(d)
  <1>1. RowsApart(d) /\ TracePlaced(d, rows, RowKeys(t, c), Folded(t, c))
    BY PlaceEffect
  <1>2. PICK x, y, z, n \in Nat :
           /\ x = Children(rows, DOMAIN rows) /\ y = Children(rows, LeftOut(rows))
           /\ z = Children(rows, InTotals(rows)) /\ n = Cardinality(InTotals(rows))
    <2>1. InTotals(rows) \subseteq DOMAIN rows
      BY DEF InTotals
    <2>2. Children(rows, InTotals(rows)) \in Nat
      BY <2>1, ChildrenNatural
    <2>3. m.requests \in Nat /\ m.ignored \in Nat /\ m.raw \in Nat
      BY DEF Totals
    <2>4. QED
      BY <2>2, <2>3 DEF SameTraces
  <1>3. PICK f, g \in Nat : f = m.rawFailures /\ g = m.failures
    BY DEF Totals
  <1>4. PICK seen : seen = KeysOf(rows, InTotals(rows))
    OBVIOUS
  <1>5. /\ m.requests = n /\ m.ignored = y /\ m.raw = x
        /\ f + n = z + g /\ m.seen = seen
    BY <1>2, <1>3, <1>4 DEF SameTraces
  <1>6. CASE Folded(t, c)
    <2>1. v = [raw |-> m.raw + 1, ignored |-> m.ignored + 1,
               rawFailures |-> m.rawFailures, requests |-> m.requests,
               failures |-> m.failures, success |-> m.success, seen |-> m.seen]
      BY <1>6, CountFolded
    <2>2. /\ v.raw = x + 1 /\ v.ignored = y + 1 /\ v.rawFailures = f
          /\ v.requests = n /\ v.failures = g /\ v.seen = seen
      BY <1>3, <1>5, <2>1
    <2>3. /\ Children(d, DOMAIN d) = x + 1
          /\ Cardinality(InTotals(d)) = n
          /\ Children(d, LeftOut(d)) = y + 1
          /\ Children(d, InTotals(d)) = z
          /\ KeysOf(d, InTotals(d)) = seen
      BY <1>1, <1>2, <1>4, <1>6 DEF TracePlaced
    <2>4. QED
      BY <1>1, <1>5, <2>2, <2>3 DEF SameTraces
  <1>7. CASE ~Folded(t, c)
    <2>1. PICK keys : keys = RowKeys(t, c)
      OBVIOUS
    <2>2. PICK e \in Nat : e = New(keys, seen)
      BY DEF New
    <2>3. /\ Children(d, DOMAIN d) = x + 1
          /\ Cardinality(InTotals(d)) = n + e
          /\ Children(d, LeftOut(d)) = y
          /\ Children(d, InTotals(d)) = z + 1
          /\ KeysOf(d, InTotals(d)) = seen \cup keys
      BY <1>1, <1>2, <1>4, <1>7, <2>1, <2>2 DEF TracePlaced
    <2>4. CASE ~IsFailure(t)
      <3>1. v = [raw |-> m.raw + 1, ignored |-> m.ignored,
                 rawFailures |-> m.rawFailures, requests |-> m.requests + 1,
                 failures |-> m.failures, success |-> m.success + 1, seen |-> m.seen]
        BY <1>7, <2>4, CountSuccess
      <3>2. /\ v.raw = x + 1 /\ v.ignored = y /\ v.rawFailures = f
            /\ v.requests = n + 1 /\ v.failures = g /\ v.seen = seen
        BY <1>3, <1>5, <3>1
      <3>3. keys = {}
        BY <1>7, <2>1, <2>4, Zenon DEF RowKeys
      <3>4. e = 1 /\ seen \cup keys = seen
        BY <2>2, <3>3 DEF New
      <3>5. QED
        BY <1>1, <1>5, <2>3, <3>2, <3>4 DEF SameTraces
    <2>5. CASE IsFailure(t)
      <3>1. keys = FailureKeys(t, c)
        BY <1>7, <2>1, <2>5, Zenon DEF RowKeys
      <3>2. v = [raw |-> m.raw + 1, ignored |-> m.ignored,
                 rawFailures |-> m.rawFailures + 1,
                 requests |-> m.requests + New(keys, m.seen),
                 failures |-> m.failures + New(keys, m.seen),
                 success |-> m.success, seen |-> m.seen \cup keys]
        BY <1>7, <2>5, <3>1, CountFailure
      <3>3. New(keys, m.seen) = e
        BY <1>5, <2>2
      <3>4. /\ v.raw = x + 1 /\ v.ignored = y /\ v.rawFailures = f + 1
            /\ v.requests = n + e /\ v.failures = g + e /\ v.seen = seen \cup keys
        BY <1>3, <1>5, <3>2, <3>3
      <3>5. QED
        BY <1>1, <1>5, <2>3, <3>4 DEF SameTraces
    <2>6. QED
      BY <2>4, <2>5
  <1>8. QED
    BY <1>6, <1>7

\* Totals and rows of the same traces agree.
LEMMA CountedAsPlaced ==
    ASSUME NEW S, NEW s \in Seq(S), NEW c
    PROVE  /\ SameTraces(Metrics(s, c), DisplayTraces(s, c))
           /\ \E K : Metrics(s, c) \in Totals(K) /\ DisplayTraces(s, c) \in Seq(Row(K))
  <1>1. PICK n \in Nat : n = Len(s)
    OBVIOUS
  <1>2. PICK K : \A i \in 1 .. n : /\ RowKeys(s[i], c) \subseteq K
                                   /\ FailureKeys(s[i], c) \subseteq K
    <2> DEFINE A == UNION {RowKeys(s[i], c) : i \in 1 .. n}
               B == UNION {FailureKeys(s[i], c) : i \in 1 .. n}
    <2>1. \A i \in 1 .. n : RowKeys(s[i], c) \subseteq A \cup B
      BY Zenon
    <2>2. \A i \in 1 .. n : FailureKeys(s[i], c) \subseteq A \cup B
      BY Zenon
    <2>3. QED
      BY <2>1, <2>2, Zenon
  <1>3. PICK m : /\ Counting(m, s, c, n) /\ Metrics(s, c) = m[n]
                 /\ \A i \in 0 .. n : m[i] \in Totals(K)
    BY <1>1, <1>2, MetricsLoop
  <1>4. PICK r : /\ Placing(r, s, c, n) /\ DisplayTraces(s, c) = r[n]
                 /\ \A i \in 0 .. n : r[i] \in Seq(Row(K))
    BY <1>1, <1>2, RowsLoop
  <1> DEFINE P == {k \in Nat : k <= n => SameTraces(m[k], r[k]) /\ RowsApart(r[k])}
  <1>5. 0 \in P
    <2>1. m[0] = NoCounts /\ r[0] = <<>>
      BY <1>3, <1>4 DEF Counting, Placing
    <2>2. DOMAIN <<>> = {} /\ Len(<<>>) = 0
      OBVIOUS
    <2>3. InTotals(<<>>) = {} /\ LeftOut(<<>>) = {}
      BY <2>2 DEF InTotals, LeftOut
    <2>4. Children(<<>>, {}) = 0
      <3> DEFINE f == [i \in {} |-> <<>>[i].count]
      <3>1. Children(<<>>, {}) = SumTo(f, 0)
        BY <2>2, Zenon DEF Children
      <3>2. \A i \in 0 .. 0 : Value(f, i) = 0
        BY DEF Value
      <3> HIDE DEF f
      <3>3. QED
        BY <3>1, <3>2, SumNothing
    <2>5. Cardinality({}) = 0
      BY FS_EmptySet
    <2>6. KeysOf(<<>>, {}) = {}
      BY Zenon DEF KeysOf
    <2>7. SameTraces(NoCounts, <<>>)
      BY <2>2, <2>3, <2>4, <2>5, <2>6 DEF SameTraces, NoCounts
    <2>8. RowsApart(<<>>)
      BY <2>2 DEF RowsApart
    <2>9. QED
      BY <2>1, <2>7, <2>8
  <1>6. ASSUME NEW k \in Nat, k \in P
        PROVE  k + 1 \in P
    <2>1. SUFFICES ASSUME k + 1 <= n
                   PROVE  SameTraces(m[k + 1], r[k + 1]) /\ RowsApart(r[k + 1])
      OBVIOUS
    <2>2. /\ k + 1 \in 1 .. n /\ (k + 1) - 1 = k /\ k <= n /\ k \in 0 .. n
      BY <2>1
    <2>3. m[k + 1] = CountTrace(m[k], s[k + 1], c)
      BY <1>3, <2>2 DEF Counting
    <2>4. r[k + 1] = PlaceTrace(r[k], s[k + 1], c)
      BY <1>4, <2>2 DEF Placing
    <2>5. /\ m[k] \in Totals(K) /\ r[k] \in Seq(Row(K))
          /\ SameTraces(m[k], r[k]) /\ RowsApart(r[k])
          /\ RowKeys(s[k + 1], c) \subseteq K
      BY <1>2, <1>3, <1>4, <1>6, <2>2
    <2>6. QED
      BY <2>3, <2>4, <2>5, SameTracesStep
  <1>7. n \in P
    <2> HIDE DEF P
    <2>1. QED
      BY <1>5, <1>6, Induction
  <1>8. n \in 0 .. n
    OBVIOUS
  <1>9. QED
    BY <1>3, <1>4, <1>7, <1>8

-----------------------------------------------------------------------------
(* The series.                                                             *)

ByMinute == UNION {[D -> Nat] : D \in SUBSET Nat}
Series(K) == [requests : ByMinute, failures : ByMinute, seen : SUBSET K]

LEMMA BucketedTyped ==
    ASSUME NEW f \in ByMinute, NEW k \in Nat, NEW d \in Nat
    PROVE  Bucketed(f, k, d) \in ByMinute
  <1>1. PICK D \in SUBSET Nat : f \in [D -> Nat]
    BY DEF ByMinute
  <1>2. Bucketed(f, k, d) \in [D \cup {k} -> Nat]
    BY <1>1 DEF Bucketed
  <1>3. D \cup {k} \in SUBSET Nat
    OBVIOUS
  <1>4. QED
    BY <1>2, <1>3, Zenon DEF ByMinute

LEMMA BucketsNatural ==
    ASSUME NEW f \in ByMinute, NEW n \in Nat
    PROVE  Natural(f, n)
  <1>1. PICK D \in SUBSET Nat : f \in [D -> Nat]
    BY DEF ByMinute
  <1>2. QED
    BY <1>1 DEF Natural, Value

\* A bucket gets what the sum gets.
LEMMA BucketedSum ==
    ASSUME NEW f \in ByMinute, NEW n \in Nat, NEW k \in 0 .. n, NEW d \in Nat
    PROVE  SumTo(Bucketed(f, k, d), n) = SumTo(f, n) + d
  <1>1. PICK D \in SUBSET Nat : f \in [D -> Nat]
    BY DEF ByMinute
  <1>2. PICK g : g = Bucketed(f, k, d)
    OBVIOUS
  <1>3. Natural(f, n)
    BY BucketsNatural
  <1>4. HasMore(g, f, k, d, n)
    <2>1. SUFFICES ASSUME NEW i \in 0 .. n
                   PROVE  Value(g, i) = Value(f, i) + (IF i = k THEN d ELSE 0)
      BY <1>3 DEF HasMore
    <2>2. DOMAIN f = D /\ DOMAIN g = D \cup {k}
      BY <1>1, <1>2 DEF Bucketed
    <2>3. Value(f, i) \in Nat
      BY <1>1 DEF Value
    <2>4. CASE i \in D \cup {k}
      <3>1. g[i] = Value(f, i) + (IF i = k THEN d ELSE 0)
        BY <1>1, <1>2, <2>4 DEF Bucketed, Value
      <3>2. QED
        BY <2>2, <2>4, <3>1 DEF Value
    <2>5. CASE i \notin D \cup {k}
      BY <2>2, <2>5 DEF Value
    <2>6. QED
      BY <2>4, <2>5
  <1>5. SumTo(g, n) = SumTo(f, n) + d
    BY <1>4, SumMore
  <1>6. QED
    BY <1>2, <1>5

\* What a trace adds to the series.
LEMMA BucketCases ==
    ASSUME NEW b, NEW t, NEW c, NEW cutoff, NEW keys, keys = RowKeys(t, c),
           NEW x, x = New(keys, b.seen), NEW y, y = IF IsFailure(t) THEN x ELSE 0
    PROVE  /\ Folded(t, c) \/ t.minute < cutoff => BucketTrace(b, t, c, cutoff) = b
           /\ ~(Folded(t, c) \/ t.minute < cutoff) =>
                 BucketTrace(b, t, c, cutoff) =
                    [requests |-> Bucketed(b.requests, t.minute, x),
                     failures |-> Bucketed(b.failures, t.minute, y),
                     seen |-> b.seen \cup keys]
  <1>1. CASE Folded(t, c) \/ t.minute < cutoff
    BY <1>1, Zenon DEF BucketTrace
  <1>2. CASE ~(Folded(t, c) \/ t.minute < cutoff)
    <2>1. CASE IsFailure(t)
      <3>1. keys = FailureKeys(t, c) /\ y = x
        BY <1>2, <2>1, Zenon DEF RowKeys
      <3>2. BucketTrace(b, t, c, cutoff) =
               [requests |-> Bucketed(b.requests, t.minute, New(keys, b.seen)),
                failures |-> Bucketed(b.failures, t.minute, New(keys, b.seen)),
                seen |-> b.seen \cup keys]
        BY <1>2, <2>1, <3>1, Zenon DEF BucketTrace, New
      <3>3. QED
        BY <1>2, <3>1, <3>2, Zenon
    <2>2. CASE ~IsFailure(t)
      <3>1. keys = {} /\ y = 0
        BY <1>2, <2>2, Zenon DEF RowKeys
      <3>2. BucketTrace(b, t, c, cutoff) =
               [requests |-> Bucketed(b.requests, t.minute, New({}, b.seen)),
                failures |-> Bucketed(b.failures, t.minute, 0),
                seen |-> b.seen \cup {}]
        BY <1>2, <2>2, Zenon DEF BucketTrace, New
      <3>3. QED
        BY <1>2, <3>1, <3>2, Zenon
    <2>3. QED
      BY <2>1, <2>2
  <1>3. QED
    BY <1>1, <1>2

LEMMA BucketTyped ==
    ASSUME NEW K, NEW b \in Series(K), NEW t, t.minute \in Nat, NEW c, NEW cutoff,
           RowKeys(t, c) \subseteq K
    PROVE  BucketTrace(b, t, c, cutoff) \in Series(K)
  <1>1. CASE Folded(t, c) \/ t.minute < cutoff
    BY <1>1, Zenon DEF BucketTrace
  <1>2. CASE ~(Folded(t, c) \/ t.minute < cutoff)
    <2>1. PICK x, y \in Nat : /\ x = New(RowKeys(t, c), b.seen)
                               /\ y = IF IsFailure(t) THEN x ELSE 0
      BY DEF New
    <2>2. b.requests \in ByMinute /\ b.failures \in ByMinute /\ b.seen \in SUBSET K
      BY DEF Series
    <2>3. PICK p, q \in ByMinute :
             /\ p = Bucketed(b.requests, t.minute, x)
             /\ q = Bucketed(b.failures, t.minute, y)
      BY <2>2, BucketedTyped
    <2>4. PICK z \in SUBSET K : z = b.seen \cup RowKeys(t, c)
      BY <2>2
    <2>5. BucketTrace(b, t, c, cutoff) =
             [requests |-> Bucketed(b.requests, t.minute, x),
              failures |-> Bucketed(b.failures, t.minute, y),
              seen |-> b.seen \cup RowKeys(t, c)]
      BY <1>2, <2>1, BucketCases
    <2>6. QED
      BY <2>3, <2>4, <2>5 DEF Series
  <1>3. QED
    BY <1>1, <1>2

\* The loop of BuildSeries.
Bucketing(b, s, c, cutoff, n) ==
    /\ b[0] = NoBuckets
    /\ \A i \in 1 .. n : b[i] = BucketTrace(b[i - 1], s[i], c, cutoff)

LEMMA SeriesLoop ==
    ASSUME NEW s, NEW c, NEW cutoff, NEW n \in Nat, n = Len(s),
           \A i \in 1 .. n : s[i].minute \in Nat,
           NEW K, \A i \in 1 .. n : RowKeys(s[i], c) \subseteq K
    PROVE  \E b : /\ Bucketing(b, s, c, cutoff, n)
                  /\ BuildSeries(s, c, cutoff) = b[n]
                  /\ \A i \in 0 .. n : b[i] \in Series(K)
  <1> DEFINE loop(b) == [i \in 0 .. n |->
                 IF i = 0 THEN NoBuckets ELSE BucketTrace(b[i - 1], s[i], c, cutoff)]
             ser == CHOOSE b : b = loop(b)
  <1>1. BuildSeries(s, c, cutoff) = ser[n]
    BY Zenon DEF BuildSeries
  <1>2. NoBuckets \in Series(K)
    <2>1. <<>> \in [{} -> Nat] /\ {} \in SUBSET Nat /\ {} \in SUBSET K
      OBVIOUS
    <2>2. <<>> \in ByMinute
      BY <2>1, Zenon DEF ByMinute
    <2>3. QED
      BY <2>1, <2>2 DEF NoBuckets, Series
  <1>3. \E b \in [0 .. n -> Series(K)] : b = loop(b)
    <2>1. PICK V : V = Series(K)
      OBVIOUS
    <2> DEFINE turn == [p \in (1 .. n) \X V |->
                           BucketTrace(p[2], s[p[1]], c, cutoff)]
    <2>2. turn \in [(1 .. n) \X V -> V]
      <3>1. ASSUME NEW p \in (1 .. n) \X V
            PROVE  BucketTrace(p[2], s[p[1]], c, cutoff) \in V
        <4>1. p[1] \in 1 .. n /\ p[2] \in V
          OBVIOUS
        <4>2. QED
          BY <2>1, <4>1, BucketTyped
      <3>2. QED
        BY <3>1
    <2>3. \A i \in 1 .. n, x \in V : turn[<<i, x>>] = BucketTrace(x, s[i], c, cutoff)
      OBVIOUS
    <2> HIDE DEF turn
    <2>4. PICK b \in [0 .. n -> V] : Loops(b, NoBuckets, turn, n)
      BY <1>2, <2>1, <2>2, LoopExists
    <2>5. ASSUME NEW i \in 0 .. n
          PROVE  b[i] = IF i = 0 THEN NoBuckets
                        ELSE BucketTrace(b[i - 1], s[i], c, cutoff)
      <3>1. CASE i = 0
        BY <2>4, <3>1 DEF Loops
      <3>2. CASE i # 0
        <4>1. i \in 1 .. n /\ b[i - 1] \in V
          BY <3>2
        <4>2. QED
          BY <2>3, <2>4, <3>2, <4>1, Zenon DEF Loops
      <3>3. QED
        BY <3>1, <3>2
    <2>6. b = [i \in 0 .. n |-> b[i]]
      OBVIOUS
    <2>7. b = loop(b)
      BY <2>5, <2>6, Zenon
    <2>8. QED
      BY <2>1, <2>7
  <1>4. ser = loop(ser)
    BY <1>3, Zenon
  <1> HIDE DEF ser
  <1>5. \A i \in 0 .. n : ser[i] = loop(ser)[i]
    BY <1>4, Zenon
  <1>6. \A i \in 0 .. n : ser[i] = IF i = 0 THEN NoBuckets
                                   ELSE BucketTrace(ser[i - 1], s[i], c, cutoff)
    BY <1>5, Zenon
  <1>7. Bucketing(ser, s, c, cutoff, n)
    <2>1. 0 \in 0 .. n /\ \A i \in 1 .. n : i \in 0 .. n /\ i # 0
      OBVIOUS
    <2>2. QED
      BY <1>6, <2>1, Zenon DEF Bucketing
  <1> DEFINE P == {k \in Nat : k <= n => ser[k] \in Series(K)}
  <1>8. 0 \in P
    BY <1>2, <1>7 DEF Bucketing
  <1>9. ASSUME NEW k \in Nat, k \in P
        PROVE  k + 1 \in P
    <2>1. SUFFICES ASSUME k + 1 <= n PROVE ser[k + 1] \in Series(K)
      OBVIOUS
    <2>2. k + 1 \in 1 .. n /\ (k + 1) - 1 = k /\ k <= n
      BY <2>1
    <2>3. ser[k + 1] = BucketTrace(ser[k], s[k + 1], c, cutoff)
      BY <1>7, <2>2 DEF Bucketing
    <2>4. /\ ser[k] \in Series(K) /\ RowKeys(s[k + 1], c) \subseteq K
          /\ s[k + 1].minute \in Nat
      BY <1>9, <2>2
    <2>5. QED
      BY <2>3, <2>4, BucketTyped
  <1>10. Nat \subseteq P
    <2> HIDE DEF P
    <2>1. QED
      BY <1>8, <1>9, Induction
  <1>11. \A i \in 0 .. n : ser[i] \in Series(K)
    BY <1>10
  <1>12. QED
    BY <1>1, <1>7, <1>11, Zenon

-----------------------------------------------------------------------------
(* Series and totals of the same traces.                                   *)

\* The totals of a list are those of the list but the last, and the last.
LEMMA MetricsAppend ==
    ASSUME NEW S, NEW q \in Seq(S), NEW t \in S, NEW c
    PROVE  /\ Metrics(Append(q, t), c) = CountTrace(Metrics(q, c), t, c)
           /\ Metrics(<<>>, c) = NoCounts
           /\ \E K : Metrics(q, c) \in Totals(K)
  <1>0. PICK n \in Nat : n = Len(q)
    OBVIOUS
  <1>1. PICK K : \A x \in S : FailureKeys(x, c) \subseteq K
    <2> DEFINE K == UNION {FailureKeys(x, c) : x \in S}
    <2>1. \A x \in S : FailureKeys(x, c) \subseteq K
      BY Zenon
    <2>2. QED
      BY <2>1, Zenon
  <1>2. PICK p \in Seq(S) :
           /\ p = Append(q, t) /\ Len(p) = n + 1 /\ p[n + 1] = t
           /\ \A i \in 1 .. n : p[i] = q[i]
    <2>1. Append(q, t) \in Seq(S)
      OBVIOUS
    <2>2. /\ Len(Append(q, t)) = n + 1 /\ Append(q, t)[n + 1] = t
          /\ \A i \in 1 .. n : Append(q, t)[i] = q[i]
      BY <1>0
    <2>3. QED
      BY <2>1, <2>2
  <1>3. PICK m : /\ Counting(m, q, c, n) /\ Metrics(q, c) = m[n]
                 /\ \A i \in 0 .. n : m[i] \in Totals(K)
    <2>1. \A i \in 1 .. n : FailureKeys(q[i], c) \subseteq K
      BY <1>0, <1>1
    <2>2. QED
      BY <1>0, <2>1, MetricsLoop
  <1>4. PICK v : Counting(v, p, c, n + 1) /\ Metrics(p, c) = v[n + 1]
    <2>1. \A i \in 1 .. n + 1 : FailureKeys(p[i], c) \subseteq K
      BY <1>1, <1>2
    <2>2. PICK l \in Nat : l = n + 1 /\ l = Len(p)
      BY <1>2
    <2>3. \A i \in 1 .. l : FailureKeys(p[i], c) \subseteq K
      BY <2>1, <2>2
    <2>4. \E v : /\ Counting(v, p, c, l) /\ Metrics(p, c) = v[l]
                 /\ \A i \in 0 .. l : v[i] \in Totals(K)
      BY <2>2, <2>3, MetricsLoop
    <2>5. QED
      BY <2>2, <2>4
  <1> DEFINE P == {k \in Nat : k <= n => v[k] = m[k]}
  <1>5. 0 \in P
    BY <1>3, <1>4 DEF Counting
  <1>6. ASSUME NEW k \in Nat, k \in P
        PROVE  k + 1 \in P
    <2>1. SUFFICES ASSUME k + 1 <= n PROVE v[k + 1] = m[k + 1]
      OBVIOUS
    <2>2. /\ k + 1 \in 1 .. n /\ k + 1 \in 1 .. n + 1
          /\ (k + 1) - 1 = k /\ k <= n
      BY <2>1
    <2>3. /\ v[k + 1] = CountTrace(v[k], p[k + 1], c)
          /\ m[k + 1] = CountTrace(m[k], q[k + 1], c)
      BY <1>3, <1>4, <2>2 DEF Counting
    <2>4. v[k] = m[k] /\ p[k + 1] = q[k + 1]
      BY <1>2, <1>6, <2>2
    <2>5. QED
      BY <2>3, <2>4
  <1>7. n \in P
    <2> HIDE DEF P
    <2>1. QED
      BY <1>5, <1>6, Induction
  <1>8. v[n + 1] = CountTrace(v[n], p[n + 1], c)
    <2>1. n + 1 \in 1 .. n + 1 /\ (n + 1) - 1 = n
      OBVIOUS
    <2>2. QED
      BY <1>4, <2>1 DEF Counting
  <1>9. Metrics(Append(q, t), c) = CountTrace(Metrics(q, c), t, c)
    BY <1>2, <1>3, <1>4, <1>7, <1>8
  <1>10. Metrics(<<>>, c) = NoCounts
    <2>1. PICK e : e = <<>>
      OBVIOUS
    <2>2. PICK l \in Nat : l = 0 /\ l = Len(e)
      BY <2>1
    <2>3. \A i \in 1 .. l : FailureKeys(e[i], c) \subseteq K
      BY <2>2
    <2>4. PICK z : /\ Counting(z, e, c, l) /\ Metrics(e, c) = z[l]
                   /\ \A i \in 0 .. l : z[i] \in Totals(K)
      BY <2>2, <2>3, MetricsLoop
    <2>5. QED
      BY <2>1, <2>2, <2>4 DEF Counting
  <1>11. Metrics(q, c) \in Totals(K)
    BY <1>3
  <1>12. QED
    BY <1>9, <1>10, <1>11

\* What the series says of the totals.
SameRequests(b, m) ==
    /\ SumTo(b.requests, MaxMinute) = m.requests
    /\ SumTo(b.failures, MaxMinute) = m.failures
    /\ b.seen = m.seen

LEMMA SameRequestsStep ==
    ASSUME NEW K, NEW b \in Series(K), NEW L, NEW m \in Totals(L),
           SameRequests(b, m), NEW t, t.minute \in 0 .. MaxMinute, NEW c,
           NEW cutoff \in Nat,
           NEW d, d = BucketTrace(b, t, c, cutoff),
           NEW v, v = IF t.minute >= cutoff THEN CountTrace(m, t, c) ELSE m
    PROVE  SameRequests(d, v)
  <1>1. t.minute \in Nat /\ MaxMinute \in Nat
    BY ClockAssumption
  <1>2. CASE t.minute < cutoff
    <2>1. v = m
      BY <1>1, <1>2
    <2>2. d = b
      BY <1>2, Zenon DEF BucketTrace
    <2>3. QED
      BY <2>1, <2>2
  <1>3. CASE ~(t.minute < cutoff) /\ Folded(t, c)
    <2>1. v = CountTrace(m, t, c)
      BY <1>1, <1>3
    <2>2. v = [raw |-> m.raw + 1, ignored |-> m.ignored + 1,
               rawFailures |-> m.rawFailures, requests |-> m.requests,
               failures |-> m.failures, success |-> m.success, seen |-> m.seen]
      BY <1>3, <2>1, CountFolded
    <2>3. d = b
      BY <1>3, Zenon DEF BucketTrace
    <2>4. v.requests = m.requests /\ v.failures = m.failures /\ v.seen = m.seen
      BY <2>2
    <2>5. QED
      BY <2>3, <2>4 DEF SameRequests
  <1>4. CASE ~(t.minute < cutoff) /\ ~Folded(t, c)
    <2>1. v = CountTrace(m, t, c)
      BY <1>1, <1>4
    <2>2. PICK keys : keys = RowKeys(t, c)
      OBVIOUS
    <2>3. PICK x, y \in Nat : x = New(keys, b.seen) /\ y = IF IsFailure(t) THEN x ELSE 0
      BY DEF New
    <2>4. d = [requests |-> Bucketed(b.requests, t.minute, x),
               failures |-> Bucketed(b.failures, t.minute, y),
               seen |-> b.seen \cup keys]
      BY <1>4, <2>2, <2>3, BucketCases
    <2>5. b.requests \in ByMinute /\ b.failures \in ByMinute
      BY DEF Series
    <2>6. /\ SumTo(Bucketed(b.requests, t.minute, x), MaxMinute)
                = SumTo(b.requests, MaxMinute) + x
          /\ SumTo(Bucketed(b.failures, t.minute, y), MaxMinute)
                = SumTo(b.failures, MaxMinute) + y
      BY <1>1, <2>5, BucketedSum
    <2>7. /\ d.requests = Bucketed(b.requests, t.minute, x)
          /\ d.failures = Bucketed(b.failures, t.minute, y)
          /\ d.seen = b.seen \cup keys
      BY <2>4
    <2>8. /\ SumTo(d.requests, MaxMinute) = m.requests + x
          /\ SumTo(d.failures, MaxMinute) = m.failures + y
          /\ d.seen = m.seen \cup keys /\ x = New(keys, m.seen)
      BY <2>3, <2>6, <2>7 DEF SameRequests
    <2>9. m.failures \in Nat
      BY DEF Totals
    <2>10. CASE IsFailure(t)
      <3>1. keys = FailureKeys(t, c)
        BY <1>4, <2>2, <2>10, Zenon DEF RowKeys
      <3>2. v = [raw |-> m.raw + 1, ignored |-> m.ignored,
                 rawFailures |-> m.rawFailures + 1,
                 requests |-> m.requests + New(keys, m.seen),
                 failures |-> m.failures + New(keys, m.seen),
                 success |-> m.success, seen |-> m.seen \cup keys]
        <4>1. ~Folded(t, c) /\ IsFailure(t)
          BY <1>4, <2>10
        <4>2. CountTrace(m, t, c) =
                 [raw |-> m.raw + 1, ignored |-> m.ignored,
                  rawFailures |-> m.rawFailures + 1,
                  requests |-> m.requests + New(keys, m.seen),
                  failures |-> m.failures + New(keys, m.seen),
                  success |-> m.success, seen |-> m.seen \cup keys]
          BY <3>1, <4>1, CountFailure
        <4>3. QED
          BY <2>1, <4>2
      <3>3. /\ v.requests = m.requests + New(keys, m.seen)
            /\ v.failures = m.failures + New(keys, m.seen)
            /\ v.seen = m.seen \cup keys
        BY <3>2
      <3>4. y = x
        BY <2>3, <2>10
      <3>5. QED
        BY <2>8, <3>3, <3>4 DEF SameRequests
    <2>11. CASE ~IsFailure(t)
      <3>1. keys = {} /\ y = 0
        BY <1>4, <2>2, <2>3, <2>11, Zenon DEF RowKeys
      <3>2. v = [raw |-> m.raw + 1, ignored |-> m.ignored,
                 rawFailures |-> m.rawFailures, requests |-> m.requests + 1,
                 failures |-> m.failures, success |-> m.success + 1, seen |-> m.seen]
        BY <1>4, <2>1, <2>11, CountSuccess
      <3>3. v.requests = m.requests + 1 /\ v.failures = m.failures /\ v.seen = m.seen
        BY <3>2
      <3>4. x = 1
        BY <2>8, <3>1 DEF New
      <3>5. QED
        BY <2>8, <2>9, <3>1, <3>3, <3>4 DEF SameRequests
    <2>12. QED
      BY <2>10, <2>11
  <1>5. QED
    BY <1>2, <1>3, <1>4

\* The series of a list and the totals of those of its traces that are inside
\* the window agree.
LEMMA BucketedAsCounted ==
    ASSUME NEW S, NEW s \in Seq(S), \A i \in DOMAIN s : s[i].minute \in 0 .. MaxMinute,
           NEW c, NEW cutoff \in Nat,
           NEW T, \A i \in DOMAIN s : s[i] \in T <=> s[i].minute >= cutoff
    PROVE  SameRequests(BuildSeries(s, c, cutoff), Metrics(Keep(s, T), c))
  <1>1. PICK n \in Nat : n = Len(s) /\ DOMAIN s = 1 .. n
    OBVIOUS
  <1>2. PICK K : \A i \in 1 .. n : RowKeys(s[i], c) \subseteq K
    <2> DEFINE A == UNION {RowKeys(s[i], c) : i \in 1 .. n}
    <2>1. \A i \in 1 .. n : RowKeys(s[i], c) \subseteq A
      BY Zenon
    <2>2. QED
      BY <2>1, Zenon
  <1>3. PICK b : /\ Bucketing(b, s, c, cutoff, n)
                 /\ BuildSeries(s, c, cutoff) = b[n]
                 /\ \A i \in 0 .. n : b[i] \in Series(K)
    <2>1. \A i \in 1 .. n : s[i].minute \in Nat
      BY <1>1, ClockAssumption
    <2>2. QED
      BY <1>1, <1>2, <2>1, SeriesLoop, ZenonT(60)
  <1>4. PICK g : Gathers(g, s, T, n) /\ Keep(s, T) = g[n]
    BY <1>1, KeepGathers
  <1>5. \A i \in 0 .. n : g[i] \in Seq(S)
    BY <1>1, <1>4, KeepTyped, Zenon
  <1> DEFINE P == {k \in Nat : k <= n => SameRequests(b[k], Metrics(g[k], c))}
  <1>6. 0 \in P
    <2>1. b[0] = NoBuckets /\ g[0] = <<>>
      BY <1>3, <1>4 DEF Bucketing, Gathers
    <2>2. Metrics(<<>>, c) = NoCounts
      <3>1. <<>> \in Seq({0}) /\ 0 \in {0}
        OBVIOUS
      <3>2. QED
        BY <3>1, MetricsAppend
    <2>3. SumTo(<<>>, MaxMinute) = 0
      <3>1. \A i \in 0 .. MaxMinute : Value(<<>>, i) = 0
        BY DEF Value
      <3>2. QED
        BY <3>1, ClockAssumption, SumNothing
    <2>4. SameRequests(NoBuckets, NoCounts)
      BY <2>3 DEF SameRequests, NoBuckets, NoCounts
    <2>5. QED
      BY <2>1, <2>2, <2>4
  <1>7. ASSUME NEW k \in Nat, k \in P
        PROVE  k + 1 \in P
    <2>1. SUFFICES ASSUME k + 1 <= n
                   PROVE  SameRequests(b[k + 1], Metrics(g[k + 1], c))
      OBVIOUS
    <2>2. /\ k + 1 \in 1 .. n /\ (k + 1) - 1 = k /\ k <= n /\ k \in 0 .. n
      BY <2>1
    <2>3. PICK t \in S : /\ t = s[k + 1] /\ t.minute \in 0 .. MaxMinute
                         /\ t \in T <=> t.minute >= cutoff
      BY <1>1, <2>2
    <2>4. b[k + 1] = BucketTrace(b[k], t, c, cutoff)
      BY <1>3, <2>2, <2>3 DEF Bucketing
    <2>5. PICK m : m = Metrics(g[k], c)
      OBVIOUS
    <2>6. PICK L : m \in Totals(L)
      BY <1>5, <2>2, <2>3, <2>5, MetricsAppend
    <2>7. g[k + 1] = IF t.minute >= cutoff THEN Append(g[k], t) ELSE g[k]
      BY <1>4, <2>2, <2>3 DEF Gathers
    <2>8. Metrics(Append(g[k], t), c) = CountTrace(m, t, c)
      BY <1>5, <2>2, <2>5, MetricsAppend
    <2>9. Metrics(g[k + 1], c) = IF t.minute >= cutoff THEN CountTrace(m, t, c) ELSE m
      BY <2>5, <2>7, <2>8
    <2>10. b[k] \in Series(K) /\ SameRequests(b[k], m)
      BY <1>3, <1>7, <2>2, <2>5
    <2>11. QED
      BY <2>3, <2>4, <2>6, <2>9, <2>10, SameRequestsStep
  <1>8. n \in P
    <2> HIDE DEF P
    <2>1. QED
      BY <1>6, <1>7, Induction
  <1>9. QED
    BY <1>3, <1>4, <1>8

-----------------------------------------------------------------------------
(* The configuration and the traces are what they should be.               *)

UrlsOK == IsSequence(ring) /\ \A i \in DOMAIN ring : IsURL(ring[i].url)
MinutesOK ==
    /\ IsSequence(ring) /\ minute \in 0 .. MaxMinute
    /\ \A i \in DOMAIN ring : ring[i].minute \in 0 .. MaxMinute

ViewInv == IsConfig(config) /\ UrlsOK /\ MinutesOK

-----------------------------------------------------------------------------
(* Totals of fewer traces.                                                 *)

\* The totals a say no more than b.
Within(a, b) ==
    /\ a.requests <= b.requests /\ a.ignored <= b.ignored /\ a.raw <= b.raw
    /\ a.rawFailures - a.failures <= b.rawFailures - b.failures

LEMMA CountMore ==
    ASSUME NEW K, NEW m \in Totals(K), NEW t, NEW c
    PROVE  Within(m, CountTrace(m, t, c))
  <1>1. CASE Folded(t, c)
    <2>1. CountTrace(m, t, c) =
              [raw |-> m.raw + 1, ignored |-> m.ignored + 1,
               rawFailures |-> m.rawFailures, requests |-> m.requests,
               failures |-> m.failures, success |-> m.success, seen |-> m.seen]
      BY <1>1, CountFolded
    <2>2. QED
      BY <2>1 DEF Totals, Within
  <1>2. CASE ~Folded(t, c) /\ ~IsFailure(t)
    <2>1. CountTrace(m, t, c) =
              [raw |-> m.raw + 1, ignored |-> m.ignored,
               rawFailures |-> m.rawFailures, requests |-> m.requests + 1,
               failures |-> m.failures, success |-> m.success + 1, seen |-> m.seen]
      BY <1>2, CountSuccess
    <2>2. QED
      BY <2>1 DEF Totals, Within
  <1>3. CASE ~Folded(t, c) /\ IsFailure(t)
    <2>1. PICK keys : keys = FailureKeys(t, c)
      OBVIOUS
    <2>2. PICK x \in {0, 1} : x = New(keys, m.seen)
      BY DEF New
    <2>3. CountTrace(m, t, c) =
              [raw |-> m.raw + 1, ignored |-> m.ignored,
               rawFailures |-> m.rawFailures + 1,
               requests |-> m.requests + x, failures |-> m.failures + x,
               success |-> m.success, seen |-> m.seen \cup keys]
      BY <1>3, <2>1, <2>2, CountFailure
    <2>4. QED
      BY <2>2, <2>3 DEF Totals, Within
  <1>4. QED
    BY <1>1, <1>2, <1>3

LEMMA WithinMore ==
    ASSUME NEW K, NEW a \in Totals(K), NEW b \in Totals(K), NEW d \in Totals(K),
           Within(a, b), Within(b, d)
    PROVE  Within(a, d)
  BY DEF Within, Totals

\* The first of some traces come to no more than all of them.
LEMMA FewerTraces ==
    ASSUME NEW S, NEW s \in Seq(S), NEW p \in Seq(S), Len(p) <= Len(s),
           \A i \in 1 .. Len(p) : p[i] = s[i], NEW c
    PROVE  Within(Metrics(p, c), Metrics(s, c))
  <1>1. PICK n \in Nat, l \in Nat : n = Len(s) /\ l = Len(p) /\ l <= n
    OBVIOUS
  <1>2. PICK K : /\ \A i \in 1 .. n : FailureKeys(s[i], c) \subseteq K
                 /\ \A i \in 1 .. l : FailureKeys(p[i], c) \subseteq K
    <2> DEFINE K == UNION {FailureKeys(x, c) : x \in S}
    <2>1. \A x \in S : FailureKeys(x, c) \subseteq K
      BY Zenon
    <2>2. (\A i \in 1 .. n : s[i] \in S) /\ \A i \in 1 .. l : p[i] \in S
      BY <1>1
    <2>3. QED
      BY <2>1, <2>2, Zenon
  <1>3. PICK m : /\ Counting(m, s, c, n) /\ Metrics(s, c) = m[n]
                 /\ \A i \in 0 .. n : m[i] \in Totals(K)
    <2>1. n = Len(s) /\ \A i \in 1 .. n : FailureKeys(s[i], c) \subseteq K
      BY <1>1, <1>2, Zenon
    <2>2. QED
      BY <2>1, MetricsLoop, ZenonT(60)
  <1>4. PICK v : /\ Counting(v, p, c, l) /\ Metrics(p, c) = v[l]
                 /\ \A i \in 0 .. l : v[i] \in Totals(K)
    <2>1. l = Len(p) /\ \A i \in 1 .. l : FailureKeys(p[i], c) \subseteq K
      BY <1>1, <1>2, Zenon
    <2>2. QED
      BY <2>1, MetricsLoop, ZenonT(60)
  <1> DEFINE P == {k \in Nat : k <= l => v[k] = m[k]}
             Q == {k \in Nat : l + k <= n => Within(m[l], m[l + k])}
  <1>5. 0 \in P
    BY <1>3, <1>4 DEF Counting
  <1>6. ASSUME NEW k \in Nat, k \in P
        PROVE  k + 1 \in P
    <2>1. SUFFICES ASSUME k + 1 <= l PROVE v[k + 1] = m[k + 1]
      OBVIOUS
    <2>2. k + 1 \in 1 .. l /\ k + 1 \in 1 .. n /\ (k + 1) - 1 = k /\ k <= l
      BY <1>1, <2>1
    <2>3. /\ v[k + 1] = CountTrace(v[k], p[k + 1], c)
          /\ m[k + 1] = CountTrace(m[k], s[k + 1], c)
      BY <1>3, <1>4, <2>2 DEF Counting
    <2>4. v[k] = m[k] /\ p[k + 1] = s[k + 1]
      BY <1>1, <1>6, <2>2
    <2>5. QED
      BY <2>3, <2>4
  <1>7. l \in P
    <2> HIDE DEF P
    <2>1. QED
      BY <1>5, <1>6, Induction
  <1>8. 0 \in Q
    <2>1. l + 0 = l /\ l \in 0 .. n
      BY <1>1
    <2>2. m[l] \in Totals(K)
      BY <1>3, <2>1
    <2>3. Within(m[l], m[l])
      BY <2>2 DEF Within, Totals
    <2>4. QED
      BY <2>1, <2>3
  <1>9. ASSUME NEW k \in Nat, k \in Q
        PROVE  k + 1 \in Q
    <2>1. SUFFICES ASSUME l + (k + 1) <= n PROVE Within(m[l], m[l + (k + 1)])
      OBVIOUS
    <2>2. PICK j \in Nat : j = l + k
      OBVIOUS
    <2>3. /\ l + (k + 1) = j + 1 /\ j + 1 \in 1 .. n /\ (j + 1) - 1 = j
          /\ l \in 0 .. n /\ j \in 0 .. n /\ j + 1 \in 0 .. n /\ l + k <= n
      BY <2>1, <2>2
    <2>4. Within(m[l], m[j])
      BY <1>9, <2>2, <2>3
    <2>5. m[j + 1] = CountTrace(m[j], s[j + 1], c)
      BY <1>3, <2>3 DEF Counting
    <2>6. m[l] \in Totals(K) /\ m[j] \in Totals(K) /\ m[j + 1] \in Totals(K)
      BY <1>3, <2>3
    <2>7. Within(m[j], m[j + 1])
      BY <2>5, <2>6, CountMore
    <2>8. Within(m[l], m[j + 1])
      BY <2>4, <2>6, <2>7, WithinMore
    <2>9. QED
      BY <2>3, <2>8
  <1>10. Nat \subseteq Q
    <2> HIDE DEF Q
    <2>1. QED
      BY <1>8, <1>9, Induction
  <1>11. PICK k \in Nat : l + k = n
    <2>1. n - l \in Nat /\ l + (n - l) = n
      BY <1>1
    <2>2. QED
      BY <2>1
  <1>12. Within(m[l], m[n])
    <2>1. k \in Q /\ l + k <= n
      BY <1>1, <1>10, <1>11
    <2>2. Within(m[l], m[l + k])
      BY <2>1
    <2>3. QED
      BY <1>11, <2>2
  <1>13. v[l] = m[l]
    BY <1>7
  <1>14. QED
    BY <1>3, <1>4, <1>12, <1>13

-----------------------------------------------------------------------------
(* The views of a snapshot.                                                *)

\* What the traces of a snapshot are.
LEMMA TracesOfRing ==
    ASSUME NEW S, ring \in Seq(S), NEW limit \in Nat
    PROVE  /\ Traces(limit) \in Seq(S)
           /\ Len(Traces(limit)) = IF limit < Len(ring) THEN limit ELSE Len(ring)
           /\ \A i \in 1 .. Len(Traces(limit)) :
                 /\ (Len(ring) - i) + 1 \in DOMAIN ring
                 /\ Traces(limit)[i] = ring[(Len(ring) - i) + 1]
  <1>1. PICK l \in Nat : l = Len(ring) /\ DOMAIN ring = 1 .. l
    OBVIOUS
  <1>2. PICK n \in Nat : n = IF limit < l THEN limit ELSE l
    OBVIOUS
  <1>3. Traces(limit) = [i \in 1 .. n |-> ring[(l - i) + 1]]
    BY <1>1, <1>2 DEF Traces
  <1>4. \A i \in 1 .. n : (l - i) + 1 \in 1 .. l
    BY <1>2
  <1>5. PICK f : f = [i \in 1 .. n |-> ring[(l - i) + 1]]
    OBVIOUS
  <1>6. f \in Seq(S) /\ Len(f) = n /\ \A i \in 1 .. n : f[i] = ring[(l - i) + 1]
    BY <1>1, <1>4, <1>5
  <1>7. QED
    BY <1>1, <1>2, <1>3, <1>4, <1>5, <1>6

LEMMA AllOfRing ==
    ASSUME NEW S, ring \in Seq(S)
    PROVE  /\ AllTraces \in Seq(S) /\ Len(AllTraces) = Len(ring)
           /\ \A limit \in Nat :
                 /\ Len(Traces(limit)) <= Len(AllTraces)
                 /\ \A i \in 1 .. Len(Traces(limit)) : Traces(limit)[i] = AllTraces[i]
                 /\ Len(ring) <= limit => Traces(limit) = AllTraces
  <1>1. PICK l \in Nat : l = Len(ring)
    OBVIOUS
  <1>2. /\ AllTraces \in Seq(S) /\ Len(AllTraces) = l
        /\ \A i \in 1 .. l : AllTraces[i] = ring[(l - i) + 1]
    BY <1>1, TracesOfRing DEF AllTraces
  <1>3. ASSUME NEW limit \in Nat
        PROVE  /\ Len(Traces(limit)) <= l
               /\ \A i \in 1 .. Len(Traces(limit)) : Traces(limit)[i] = AllTraces[i]
               /\ l <= limit => Traces(limit) = AllTraces
    <2>1. PICK t \in Seq(S) : t = Traces(limit)
      BY TracesOfRing
    <2>2. PICK n \in Nat : n = Len(t) /\ n = IF limit < l THEN limit ELSE l
      BY <1>1, <2>1, TracesOfRing
    <2>3. \A i \in 1 .. n : t[i] = ring[(l - i) + 1]
      BY <1>1, <2>1, <2>2, TracesOfRing
    <2>4. \A i \in 1 .. n : t[i] = AllTraces[i]
      BY <1>2, <2>2, <2>3
    <2>5. ASSUME l <= limit
          PROVE  t = AllTraces
      <3>1. n = l
        BY <2>2, <2>5
      <3>2. Len(t) = Len(AllTraces) /\ \A i \in 1 .. Len(t) : t[i] = AllTraces[i]
        BY <1>2, <2>2, <2>4, <3>1
      <3>3. QED
        BY <1>2, <2>1, <3>2, SeqEqual
    <2>6. QED
      BY <2>1, <2>2, <2>4, <2>5
  <1>4. QED
    BY <1>1, <1>2, <1>3

\* Rows of traces say what totals of them say.
LEMMA SaidAsShown ==
    ASSUME NEW S, NEW s \in Seq(S), NEW c
    PROVE  /\ Shown(DisplayTraces(s, c)) = Said(Metrics(s, c))
           /\ \E K : Metrics(s, c) \in Totals(K)
  <1>1. PICK K, m, rows : /\ m = Metrics(s, c) /\ rows = DisplayTraces(s, c)
                          /\ SameTraces(m, rows)
                          /\ m \in Totals(K) /\ rows \in Seq(Row(K))
    BY CountedAsPlaced
  <1>2. PICK C : C = InTotals(rows)
    OBVIOUS
  <1>3. C = {i \in DOMAIN rows : ~rows[i].excluded} /\ DOMAIN rows \ C = LeftOut(rows)
    BY <1>2 DEF InTotals, LeftOut
  <1>4. /\ m.requests = Cardinality(C)
        /\ m.ignored = Children(rows, DOMAIN rows \ C)
        /\ m.raw = Children(rows, DOMAIN rows)
        /\ m.rawFailures + m.requests = Children(rows, C) + m.failures
    BY <1>1, <1>2, <1>3 DEF SameTraces
  <1>5. Children(rows, C) \in Nat
    BY <1>1, <1>3, ChildrenNatural
  <1>6. m.rawFailures \in Nat /\ m.requests \in Nat /\ m.failures \in Nat
    BY <1>1 DEF Totals
  <1>7. m.rawFailures - m.failures = Children(rows, C) - Cardinality(C)
    BY <1>4, <1>5, <1>6
  <1>8. Shown(rows) = Said(m)
    BY <1>3, <1>4, <1>7, Zenon DEF Shown, Said
  <1>9. QED
    BY <1>1, <1>8

\* The views of a snapshot agree whatever its traces, its limit and the
\* configuration.
LEMMA ViewsOfTraces == MinutesOK => ViewsAgree
  <1> SUFFICES ASSUME MinutesOK PROVE ViewsAgree
    OBVIOUS
  <1>1. PICK S : ring \in Seq(S)
    BY DEF MinutesOK, IsSequence
  <1>2. PICK s \in Seq(S) : /\ s = AllTraces
                            /\ \A i \in DOMAIN s : s[i].minute \in 0 .. MaxMinute
    <2>1. PICK n \in Nat : n = Len(ring)
      BY <1>1
    <2>2. AllTraces \in Seq(S) /\ Len(AllTraces) = n
      BY <1>1, <2>1, AllOfRing
    <2>3. \A i \in 1 .. n : (n - i) + 1 \in DOMAIN ring
                           /\ AllTraces[i] = ring[(n - i) + 1]
      BY <1>1, <2>1, <2>2, TracesOfRing DEF AllTraces
    <2>4. \A i \in 1 .. n : AllTraces[i].minute \in 0 .. MaxMinute
      BY <2>3 DEF MinutesOK
    <2>5. QED
      BY <2>2, <2>4
  <1>3. CountsAgree
    <2> SUFFICES ASSUME NEW limit \in Limits
                 PROVE  LET rows   == Shown(DisplayTraces(Traces(limit), config))
                            totals == Said(Metrics(AllTraces, config))
                        IN  /\ rows = Said(Metrics(Traces(limit), config))
                            /\ \A f \in DOMAIN rows : rows[f] <= totals[f]
                            /\ Len(ring) <= limit => rows = totals
      BY DEF CountsAgree
    <2>1. limit \in Nat
      BY LimitsAssumption
    <2>2. PICK p \in Seq(S) : p = Traces(limit)
      BY <1>1, <2>1, TracesOfRing
    <2>3. /\ Len(p) <= Len(s) /\ \A i \in 1 .. Len(p) : p[i] = s[i]
          /\ Len(ring) <= limit => p = s
      BY <1>1, <1>2, <2>1, <2>2, AllOfRing
    <2>4. PICK a, b : a = Metrics(p, config) /\ b = Metrics(s, config)
      OBVIOUS
    <2>5. Within(a, b)
      BY <2>3, <2>4, FewerTraces
    <2>6. Shown(DisplayTraces(p, config)) = Said(a)
      BY <2>4, SaidAsShown
    <2>7. \A f \in DOMAIN Said(a) : Said(a)[f] <= Said(b)[f]
      BY <2>5 DEF Said, Within
    <2>8. QED
      BY <1>2, <2>2, <2>3, <2>4, <2>6, <2>7
  <1>4. SeriesAgrees
    <2>1. SUFFICES ASSUME NEW cutoff \in 0 .. MaxMinute, NEW T,
                          T = {t \in ToSet(s) : t.minute >= cutoff}
                   PROVE  SameRequests(BuildSeries(s, config, cutoff),
                                       Metrics(Keep(s, T), config))
      BY <1>2, Zenon DEF SeriesAgrees, SameRequests
    <2>2. cutoff \in Nat
      BY ClockAssumption
    <2>3. \A i \in DOMAIN s : s[i] \in T <=> s[i].minute >= cutoff
      BY <1>2, <2>1 DEF ToSet
    <2>4. QED
      BY <1>2, <2>2, <2>3, BucketedAsCounted
  <1>5. QED
    BY <1>3, <1>4 DEF ViewsAgree

LEMMA ViewInitially == Init => ViewInv
  <1> SUFFICES ASSUME Init PROVE ViewInv
    OBVIOUS
  <1>1. config \in {DefaultConfig, [DefaultConfig EXCEPT !.grouping = FALSE]}
        /\ ring = <<>> /\ minute = 0
    BY DEF Init
  <1>2. PICK g \in BOOLEAN :
            config = [grouping |-> g, normalize |-> FALSE, rules |-> <<>>,
                      folding |-> FALSE, foldRules |-> <<>>]
    BY <1>1 DEF DefaultConfig
  <1>3. IsConfig(config)
    <2>1. <<>> \in Seq({}) /\ DOMAIN <<>> = {}
      OBVIOUS
    <2>2. config \in [grouping : BOOLEAN, normalize : BOOLEAN, rules : Seq({}),
                      folding : BOOLEAN, foldRules : Seq({})]
      BY <1>2, <2>1
    <2>3. DOMAIN config.rules = {}
      BY <1>2, <2>1
    <2>4. QED
      BY <2>2, <2>3 DEF IsConfig
  <1>4. ring \in Seq({}) /\ DOMAIN ring = {}
    BY <1>1
  <1>5. minute \in 0 .. MaxMinute
    BY <1>1, ClockAssumption
  <1>6. QED
    BY <1>3, <1>4, <1>5 DEF ViewInv, UrlsOK, MinutesOK, IsSequence

LEMMA TraceUrl ==
    ASSUME NEW s \in Requests, NEW status, NEW error, NEW area, NEW up, NEW down
    PROVE  /\ IsURL(Trace(s, status, error, area, up, down).url)
           /\ Trace(s, status, error, area, up, down).minute = minute
  <1>1. /\ Trace(s, status, error, area, up, down).url = UrlOf[s]
        /\ Trace(s, status, error, area, up, down).minute = minute
    BY DEF Trace
  <1>2. QED
    BY <1>1, UrlsAssumption DEF IsURL

\* What a handler does to the traces.
Recorded ==
    \/ ring' = ring
    \/ \E t : IsURL(t.url) /\ t.minute = minute /\ ring' = Append(ring, t)

\* What a step does to the clock.
Passes ==
    \/ minute' = minute
    \/ minute < MaxMinute /\ minute' = minute + 1

LEMMA HandlersRecord ==
    ASSUME NEW s \in Requests,
           Reject(s) \/ EgressFails(s) \/ Answer(s) \/ OpenFails(s)
             \/ Open(s) \/ CloseBoth(s) \/ TunnelClosed(s) \/ RecordTunnel(s)
    PROVE  Recorded /\ minute' = minute /\ config' = config
  <1>1. ASSUME NEW status, NEW error, NEW area, NEW up, NEW down,
               Record(Trace(s, status, error, area, up, down))
        PROVE  Recorded
    BY <1>1, TraceUrl DEF Record, Recorded
  <1>2. CASE Reject(s) \/ Open(s) \/ CloseBoth(s) \/ TunnelClosed(s)
    BY <1>2 DEF Reject, Open, CloseBoth, TunnelClosed, store, Recorded
  <1>3. CASE EgressFails(s)
    BY <1>1, <1>3, ZenonT(60) DEF EgressFails
  <1>4. CASE Answer(s)
    <2>1. \E status, error, down : Record(Trace(s, status, error, Area, 1, down))
      BY <1>4, ZenonT(60) DEF Answer
    <2>2. QED
      BY <1>1, <1>4, <2>1 DEF Answer
  <1>5. CASE OpenFails(s)
    <2>1. \E status : Record(Trace(s, status, TRUE, Area, 0, 0))
      BY <1>5, ZenonT(60) DEF OpenFails
    <2>2. QED
      BY <1>1, <1>5, <2>1, ZenonT(60) DEF OpenFails
  <1>6. CASE RecordTunnel(s)
    BY <1>1, <1>6 DEF RecordTunnel
  <1>7. QED
    BY <1>2, <1>3, <1>4, <1>5, <1>6

LEMMA UrlsKept == ASSUME UrlsOK, Recorded PROVE UrlsOK'
  <1>1. CASE ring' = ring
    BY <1>1 DEF UrlsOK
  <1>2. ASSUME NEW t, IsURL(t.url), ring' = Append(ring, t)
        PROVE  UrlsOK'
    BY <1>2, AppendFacts DEF UrlsOK
  <1>3. QED
    BY <1>1, <1>2 DEF Recorded

LEMMA MinutesKept == ASSUME MinutesOK, Recorded, Passes PROVE MinutesOK'
  <1>1. minute' \in 0 .. MaxMinute
    BY ClockAssumption DEF MinutesOK, Passes
  <1>2. CASE ring' = ring
    BY <1>1, <1>2 DEF MinutesOK
  <1>3. ASSUME NEW t, t.minute = minute, ring' = Append(ring, t)
        PROVE  MinutesOK'
    <2>1. /\ IsSequence(ring')
          /\ \A i \in DOMAIN ring' :
                ring'[i] = t \/ (i \in DOMAIN ring /\ ring'[i] = ring[i])
      BY <1>3, AppendFacts DEF MinutesOK
    <2>2. QED
      BY <1>1, <1>3, <2>1 DEF MinutesOK
  <1>4. QED
    BY <1>2, <1>3 DEF Recorded

\* The configuration changes only when a rule is added to it.
LEMMA ViewStep ==
    ASSUME ViewInv, [Next]_vars
    PROVE  /\ ViewInv'
           /\ config' = config \/ Extends(config, config')
  <1>1. ASSUME NEW s \in Requests,
               Reject(s) \/ EgressFails(s) \/ Answer(s) \/ OpenFails(s)
                 \/ Open(s) \/ CloseBoth(s) \/ TunnelClosed(s)
                 \/ RecordTunnel(s)
        PROVE  Recorded /\ Passes /\ config' = config
    BY <1>1, HandlersRecord DEF Passes
  <1>2. ASSUME NEW s \in Tunnels, NEW d \in Dirs,
               Read(s, d) \/ ReadEnds(s, d) \/ Write(s, d)
                 \/ WriteFails(s, d) \/ Cut(s, d) \/ PeerSends(s, d)
                 \/ PeerCloses(s, d)
        PROVE  Recorded /\ Passes /\ config' = config
    BY <1>2 DEF Read, ReadEnds, Write, WriteFails, Cut, PeerSends, PeerCloses,
       store, Recorded, Passes
  <1>3. ASSUME Tick \/ UNCHANGED vars
        PROVE  Recorded /\ Passes /\ config' = config
    <2>1. store' = store /\ config' = config
      BY <1>3 DEF Tick, vars
    <2>2. ring' = ring
      BY <2>1 DEF store
    <2>3. Passes
      BY <1>3 DEF Tick, vars, Passes
    <2>4. QED
      BY <2>1, <2>2, <2>3 DEF Recorded
  <1>4. CASE AddGroupingRule \/ AddFoldingRule
    <2>1. Recorded /\ Passes
      BY <1>4 DEF AddGroupingRule, AddFoldingRule, store, Recorded, Passes
    <2>2. \/ \E r \in GroupingRules : config' = MergeGroupingRule(config, r)
          \/ \E m \in FoldingRules : config' = MergeFoldingRule(config, m)
      BY <1>4 DEF AddGroupingRule, AddFoldingRule
    <2>3. IsConfig(config') /\ Extends(config, config')
      BY <2>2, MergesExtend DEF ViewInv
    <2>4. QED
      BY <2>1, <2>3, UrlsKept, MinutesKept DEF ViewInv
  <1>5. CASE Recorded /\ Passes /\ config' = config
    BY <1>5, UrlsKept, MinutesKept DEF ViewInv
  <1>6. QED
    BY <1>1, <1>2, <1>3, <1>4, <1>5 DEF Next

\* Adding a rule never splits a group of failures nor brings back what was
\* folded away, whatever rules there are and in whatever order they come:
\* what normalizeFailureURL leaves of a url under the old rules says
\* where the url itself goes under the new ones (grouping.go,
\* MergeURLNormalizationRule and success_folding.go, MergeSuccessFoldingRule).
THEOREM GroupsNeverSplit == Spec => GroupsOnlyGrow
  <1>1. ViewInv /\ [Next]_vars =>
           [config' # config =>
               \A i, j \in DOMAIN ring :
                 /\ Folded(ring[i], config) => Folded(ring[i], config')
                 /\ (config.grouping
                     /\ FailureKeys(ring[i], config)
                           = FailureKeys(ring[j], config))
                       => FailureKeys(ring[i], config')
                             = FailureKeys(ring[j], config')]_vars
    <2>1. SUFFICES ASSUME ViewInv, [Next]_vars, config' # config,
                          NEW i \in DOMAIN ring, NEW j \in DOMAIN ring
                   PROVE  /\ Folded(ring[i], config) => Folded(ring[i], config')
                          /\ (config.grouping
                              /\ FailureKeys(ring[i], config)
                                    = FailureKeys(ring[j], config))
                                => FailureKeys(ring[i], config')
                                      = FailureKeys(ring[j], config')
      OBVIOUS
    <2>2. Extends(config, config')
      BY <2>1, ViewStep
    <2>3. IsURL(ring[i].url) /\ IsURL(ring[j].url)
      BY <2>1 DEF ViewInv, UrlsOK
    <2>4. Folded(ring[i], config) => Folded(ring[i], config')
      BY <2>2, FoldedStays
    <2>5. (config.grouping
           /\ FailureKeys(ring[i], config) = FailureKeys(ring[j], config))
             => FailureKeys(ring[i], config') = FailureKeys(ring[j], config')
      BY <2>2, <2>3, GroupStays
    <2>6. QED
      BY <2>4, <2>5
  <1>2. ViewInv /\ [Next]_vars => ViewInv'
    BY ViewStep
  <1>3. QED
    BY <1>1, <1>2, ViewInitially, PTL DEF Spec, GroupsOnlyGrow

\* What the dashboard computes of the traces in three loops, the totals, the
\* rows and the series, agrees, for any traces, urls, rules, exits and limit of
\* the page: each row that counts is one request of the totals, each other child
\* of such a row a failure the totals have seen before, the rows say no more than
\* the totals, and the same if the limit leaves no trace out, and the series
\* inside its window adds up to the totals of the same traces (store.go,
\* Snapshot, metricsLocked, displayTraces, buildSeries).
THEOREM ViewsAlwaysAgree == Spec => []ViewsAgree
  <1>1. ViewInv => ViewsAgree
    BY ViewsOfTraces DEF ViewInv
  <1>2. ViewInv /\ [Next]_vars => ViewInv'
    BY ViewStep
  <1>3. QED
    BY <1>1, <1>2, ViewInitially, PTL DEF Spec
=============================================================================
