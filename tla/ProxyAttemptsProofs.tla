------------------------ MODULE ProxyAttemptsProofs ------------------------
(***************************************************************************)
(* What ProxyAttempts keeps for every set of nodes, templates, requests    *)
(* and options: a status that is not a redirect to follow is final for     *)
(* requests without an HTTP/2 fingerprint, a caller that leaves costs one  *)
(* node at most, the attempts follow the documented order, and nodes that  *)
(* stay alive all through a selection are not missed.  The last two rest   *)
(* on lemmas about what the functions of EgressSelection return, which are *)
(* part of this module.                                                    *)
(***************************************************************************)
EXTENDS ProxyAttempts, SequenceTheorems, FiniteSetTheorems, FunctionTheorems,
        WellFoundedInduction, TLAPS

\* A request has its fields, whatever they hold.
Shape(q) ==
    q = [stage |-> q.stage, want |-> q.want, residential |-> q.residential,
         entries |-> q.entries, offline |-> q.offline, choices |-> q.choices,
         tried |-> q.tried, todo |-> q.todo, gone |-> q.gone,
         steady |-> q.steady, replied |-> q.replied]

\* Once the target has replied, only an HTTP/2 fingerprint leads back to
\* another attempt; while its answer is read it is not another gateway's.
Settled(q) ==
    q.replied /\ ~q.want.http2 =>
        /\ q.stage \notin {"trying", "broken", "judged", "marked"}
        /\ q.stage = "answering" => Head(q.todo).via \notin Remote

\* The inductive invariant.
StatusInv ==
    /\ req = [r \in Requests |-> req[r]]
    /\ \A r \in Requests : Shape(req[r]) /\ Settled(req[r])

\* Every record the actions build has the fields of a request.
LEMMA EndedShape ==
    ASSUME NEW stage, NEW want, NEW steady
    PROVE  /\ Shape(Ended(stage, want, steady))
           /\ Ended(stage, want, steady).stage = stage
           /\ Ended(stage, want, steady).want = want
           /\ ~Ended(stage, want, steady).replied
  BY DEF Shape, Ended

\* Changing one field keeps the shape and leaves the others alone.
LEMMA SetStage ==
    ASSUME NEW q, Shape(q), NEW v
    PROVE  LET s == [q EXCEPT !.stage = v]
           IN /\ Shape(s) /\ s.stage = v /\ s.want = q.want
              /\ s.residential = q.residential /\ s.entries = q.entries
              /\ s.offline = q.offline /\ s.choices = q.choices
              /\ s.tried = q.tried /\ s.todo = q.todo /\ s.gone = q.gone
              /\ s.steady = q.steady /\ s.replied = q.replied
  BY DEF Shape

LEMMA SetResidential ==
    ASSUME NEW q, Shape(q), NEW v
    PROVE  LET s == [q EXCEPT !.residential = v]
           IN /\ Shape(s) /\ s.residential = v /\ s.stage = q.stage
              /\ s.want = q.want /\ s.entries = q.entries
              /\ s.offline = q.offline /\ s.choices = q.choices
              /\ s.tried = q.tried /\ s.todo = q.todo /\ s.gone = q.gone
              /\ s.steady = q.steady /\ s.replied = q.replied
  BY DEF Shape

LEMMA SetEntries ==
    ASSUME NEW q, Shape(q), NEW v
    PROVE  LET s == [q EXCEPT !.entries = v]
           IN /\ Shape(s) /\ s.entries = v /\ s.stage = q.stage
              /\ s.want = q.want /\ s.residential = q.residential
              /\ s.offline = q.offline /\ s.choices = q.choices
              /\ s.tried = q.tried /\ s.todo = q.todo /\ s.gone = q.gone
              /\ s.steady = q.steady /\ s.replied = q.replied
  BY DEF Shape

LEMMA SetOffline ==
    ASSUME NEW q, Shape(q), NEW v
    PROVE  LET s == [q EXCEPT !.offline = v]
           IN /\ Shape(s) /\ s.offline = v /\ s.stage = q.stage
              /\ s.want = q.want /\ s.residential = q.residential
              /\ s.entries = q.entries /\ s.choices = q.choices
              /\ s.tried = q.tried /\ s.todo = q.todo /\ s.gone = q.gone
              /\ s.steady = q.steady /\ s.replied = q.replied
  BY DEF Shape

LEMMA SetChoices ==
    ASSUME NEW q, Shape(q), NEW v
    PROVE  LET s == [q EXCEPT !.choices = v]
           IN /\ Shape(s) /\ s.choices = v /\ s.stage = q.stage
              /\ s.want = q.want /\ s.residential = q.residential
              /\ s.entries = q.entries /\ s.offline = q.offline
              /\ s.tried = q.tried /\ s.todo = q.todo /\ s.gone = q.gone
              /\ s.steady = q.steady /\ s.replied = q.replied
  BY DEF Shape

LEMMA SetTried ==
    ASSUME NEW q, Shape(q), NEW v
    PROVE  LET s == [q EXCEPT !.tried = v]
           IN /\ Shape(s) /\ s.tried = v /\ s.stage = q.stage
              /\ s.want = q.want /\ s.residential = q.residential
              /\ s.entries = q.entries /\ s.offline = q.offline
              /\ s.choices = q.choices /\ s.todo = q.todo /\ s.gone = q.gone
              /\ s.steady = q.steady /\ s.replied = q.replied
  BY DEF Shape

LEMMA SetTodo ==
    ASSUME NEW q, Shape(q), NEW v
    PROVE  LET s == [q EXCEPT !.todo = v]
           IN /\ Shape(s) /\ s.todo = v /\ s.stage = q.stage /\ s.want = q.want
              /\ s.residential = q.residential /\ s.entries = q.entries
              /\ s.offline = q.offline /\ s.choices = q.choices
              /\ s.tried = q.tried /\ s.gone = q.gone /\ s.steady = q.steady
              /\ s.replied = q.replied
  BY DEF Shape

LEMMA SetGone ==
    ASSUME NEW q, Shape(q), NEW v
    PROVE  LET s == [q EXCEPT !.gone = v]
           IN /\ Shape(s) /\ s.gone = v /\ s.stage = q.stage /\ s.want = q.want
              /\ s.residential = q.residential /\ s.entries = q.entries
              /\ s.offline = q.offline /\ s.choices = q.choices
              /\ s.tried = q.tried /\ s.todo = q.todo /\ s.steady = q.steady
              /\ s.replied = q.replied
  BY DEF Shape

LEMMA SetSteady ==
    ASSUME NEW q, Shape(q), NEW v
    PROVE  LET s == [q EXCEPT !.steady = v]
           IN /\ Shape(s) /\ s.steady = v /\ s.stage = q.stage
              /\ s.want = q.want /\ s.residential = q.residential
              /\ s.entries = q.entries /\ s.offline = q.offline
              /\ s.choices = q.choices /\ s.tried = q.tried /\ s.todo = q.todo
              /\ s.gone = q.gone /\ s.replied = q.replied
              /\ v = q.steady => s = q
  BY DEF Shape

LEMMA SetReplied ==
    ASSUME NEW q, Shape(q), NEW v
    PROVE  LET s == [q EXCEPT !.replied = v]
           IN /\ Shape(s) /\ s.replied = v /\ s.stage = q.stage
              /\ s.want = q.want /\ s.residential = q.residential
              /\ s.entries = q.entries /\ s.offline = q.offline
              /\ s.choices = q.choices /\ s.tried = q.tried /\ s.todo = q.todo
              /\ s.gone = q.gone /\ s.steady = q.steady
  BY DEF Shape

\* A request outside its attempts, or without a reply, is settled.
LEMMA EarlySettled ==
    ASSUME NEW q,
           q.stage \notin {"trying", "answering", "broken", "judged", "marked"}
              \/ ~q.replied
    PROVE  Settled(q)
  BY DEF Settled

\* A step of request r alone, and not one that makes it give up a candidate.
Quiet(r) ==
    /\ req' = [req EXCEPT ![r] = req'[r]]
    /\ req'[r].stage \notin {"judged", "marked"}

LEMMA OneRequest ==
    ASSUME StatusInv, NEW r \in Requests, NEW new,
           Become(r, new), Shape(new), Settled(new)
    PROVE  /\ StatusInv'
           /\ new.stage \notin {"judged", "marked"} => Quiet(r)
  <1>1. req' = [req EXCEPT ![r] = new]
    BY DEF Become
  <1>2. req' = [q \in Requests |-> IF q = r THEN new ELSE req[q]]
    BY <1>1 DEF StatusInv
  <1>3. req' = [q \in Requests |-> req'[q]]
    BY <1>2
  <1>4. \A q \in Requests : req'[q] = new \/ req'[q] = req[q]
    BY <1>2
  <1>5. \A q \in Requests : Shape(req'[q]) /\ Settled(req'[q])
    BY <1>4 DEF StatusInv
  <1>6. req'[r] = new
    BY <1>2
  <1>7. QED
    BY <1>1, <1>3, <1>5, <1>6 DEF StatusInv, Quiet

LEMMA EndSettled ==
    ASSUME StatusInv, NEW r \in Requests, NEW stage, NEW want, NEW steady,
           Become(r, Ended(stage, want, steady)), stage \notin {"judged", "marked"}
    PROVE  StatusInv' /\ Quiet(r)
  <1>1. /\ Shape(Ended(stage, want, steady)) /\ Settled(Ended(stage, want, steady))
        /\ Ended(stage, want, steady).stage = stage
    BY EndedShape, EarlySettled
  <1>2. QED
    BY <1>1, OneRequest

LEMMA StatusInit == Init => StatusInv
  <1> SUFFICES ASSUME Init
               PROVE  StatusInv
    OBVIOUS
  <1>1. PICK want \in Wants : req = [r \in Requests |-> Ended("answered", want, {})]
    BY DEF Init
  <1>2. Shape(Ended("answered", want, {})) /\ Settled(Ended("answered", want, {}))
    BY EndedShape, EarlySettled
  <1>3. QED
    BY <1>1, <1>2 DEF StatusInv

\* An attempt may go anywhere but back into a reply that was settled.
LEMMA StageOK ==
    ASSUME StatusInv, NEW r \in Requests, NEW stage, Stage(r, stage),
           stage = "answering" => FALSE,
           stage \in {"trying", "broken", "judged", "marked"} =>
               ~req[r].replied \/ req[r].want.http2
    PROVE  /\ StatusInv'
           /\ stage \notin {"judged", "marked"} => Quiet(r)
  <1> DEFINE new == [req[r] EXCEPT !.stage = stage]
  <1>1. Become(r, new)
    BY DEF Stage
  <1>2. /\ Shape(new) /\ new.stage = stage
        /\ new.want = req[r].want /\ new.replied = req[r].replied
    BY SetStage DEF StatusInv
  <1> HIDE DEF new
  <1>3. Settled(new)
    BY <1>2 DEF Settled
  <1>4. QED
    BY <1>1, <1>2, <1>3, OneRequest

LEMMA AskOK ==
    ASSUME StatusInv, NEW r \in Requests, NEW want \in Wants, Ask(r, want)
    PROVE  StatusInv' /\ Quiet(r)
  <1> DEFINE fresh  == Ended("any", want, alive)
             region == [fresh EXCEPT !.stage = "entries"]
             first  == [fresh EXCEPT !.stage = "trying"]
             second == [first EXCEPT !.steady = {}]
             direct == [second EXCEPT !.todo = <<Choose(Direct, FALSE)>>]
  <1>1. Become(r, region) \/ Become(r, fresh) \/ Become(r, direct)
    BY DEF Ask
  <1>2. Shape(fresh) /\ ~fresh.replied /\ fresh.stage = "any"
    BY EndedShape
  <1>3. Shape(region) /\ ~region.replied /\ region.stage = "entries"
    <2> HIDE DEF fresh
    <2>1. QED
      BY <1>2, SetStage
  <1>4. Shape(direct) /\ ~direct.replied /\ direct.stage = "trying"
    <2>1. Shape(first) /\ ~first.replied /\ first.stage = "trying"
      <3> HIDE DEF fresh
      <3>1. QED
        BY <1>2, SetStage
    <2>2. Shape(second) /\ ~second.replied /\ second.stage = "trying"
      <3> HIDE DEF first
      <3>1. QED
        BY <2>1, SetSteady
    <2>3. QED
      <3> HIDE DEF second
      <3>1. QED
        BY <2>2, SetTodo, SMTT(30)
  <1> HIDE DEF fresh, region, direct
  <1>5. QED
    BY <1>1, <1>2, <1>3, <1>4, EarlySettled, OneRequest

LEMMA ReadEntriesOK ==
    ASSUME StatusInv, NEW r \in Requests, ReadEntries(r)
    PROVE  StatusInv' /\ Quiet(r)
  <1>1. PICK entries : Become(r, [req[r] EXCEPT !.stage = "offline", !.entries = entries])
    BY DEF ReadEntries
  <1> DEFINE s == [req[r] EXCEPT !.stage = "offline"]
             t == [s EXCEPT !.entries = entries]
  <1>2. Shape(s) /\ s.stage = "offline"
    BY SetStage DEF StatusInv
  <1>3. Shape(t) /\ t.stage = "offline"
    <2> HIDE DEF s
    <2>1. QED
      BY <1>2, SetEntries
  <1>4. Become(r, t)
    BY <1>1
  <1> HIDE DEF t
  <1>5. QED
    BY <1>3, <1>4, EarlySettled, OneRequest

LEMMA ReadOfflineOK ==
    ASSUME StatusInv, NEW r \in Requests, ReadOffline(r)
    PROVE  StatusInv' /\ Quiet(r)
  <1> DEFINE s == [req[r] EXCEPT !.stage = "templates"]
             t == [s EXCEPT !.offline = OfflineEntries(alive, req[r].residential)]
  <1>1. Become(r, t)
    BY DEF ReadOffline
  <1>2. Shape(s) /\ s.stage = "templates"
    BY SetStage DEF StatusInv
  <1>3. Shape(t) /\ t.stage = "templates"
    <2> HIDE DEF s
    <2>1. QED
      BY <1>2, SetOffline
  <1> HIDE DEF t
  <1>4. QED
    BY <1>1, <1>3, EarlySettled, OneRequest

\* The end of a pass: another pass, a refusal or the first attempt.
LEMMA FinishPassOK ==
    ASSUME StatusInv, NEW r \in Requests, NEW group,
           NEW next \in {"entries", "any"}, FinishPass(r, group, next)
    PROVE  StatusInv' /\ Quiet(r)
  <1> DEFINE want    == req[r].want
             choices == req[r].choices \o group
             p1      == [req[r] EXCEPT !.stage = next]
             p2      == [p1 EXCEPT !.residential = TRUE]
             p3      == [p2 EXCEPT !.choices = choices]
             p4      == [p3 EXCEPT !.entries = <<>>]
             pass    == [p4 EXCEPT !.offline = <<>>]
             refused == Ended("refused", want, req[r].steady)
             begun   == Ended("trying", want, req[r].steady)
             routes  == ProxyAttemptRoutes(want.premium, choices, want.fallback)
             planned == [begun EXCEPT !.todo = routes]
             trying  == [planned EXCEPT !.gone = req[r].gone]
  <1>1. Become(r, pass) \/ Become(r, refused) \/ Become(r, trying)
    BY DEF FinishPass
  <1>2. Shape(pass) /\ pass.stage = next
    <2>1. Shape(p1) /\ p1.stage = next
      BY SetStage DEF StatusInv
    <2>2. Shape(p2) /\ p2.stage = next
      <3> HIDE DEF p1
      <3>1. QED
        BY <2>1, SetResidential
    <2>3. Shape(p3) /\ p3.stage = next
      <3> HIDE DEF p2, choices
      <3>1. QED
        BY <2>2, SetChoices
    <2>4. Shape(p4) /\ p4.stage = next
      <3> HIDE DEF p3
      <3>1. QED
        BY <2>3, SetEntries
    <2>5. QED
      <3> HIDE DEF p4
      <3>1. QED
        BY <2>4, SetOffline, ZenonT(60)
  <1>3. /\ Shape(refused) /\ ~refused.replied /\ refused.stage = "refused"
        /\ Shape(begun) /\ ~begun.replied /\ begun.stage = "trying"
    BY EndedShape
  <1>4. Shape(trying) /\ ~trying.replied /\ trying.stage = "trying"
    <2>1. Shape(planned) /\ ~planned.replied /\ planned.stage = "trying"
      <3> HIDE DEF begun, routes
      <3>1. QED
        BY <1>3, SetTodo
    <2>2. QED
      <3> HIDE DEF planned
      <3>1. QED
        BY <2>1, SetGone
  <1> HIDE DEF pass, refused, trying
  <1>5. QED
    BY <1>1, <1>2, <1>3, <1>4, EarlySettled, OneRequest

LEMMA SelectOK ==
    ASSUME StatusInv, NEW r \in Requests, Select(r)
    PROVE  StatusInv' /\ Quiet(r)
  <1>1. CASE ReadTemplates(r)
    BY <1>1, FinishPassOK DEF ReadTemplates
  <1>2. CASE ReadAny(r)
    BY <1>2, FinishPassOK DEF ReadAny
  <1>3. QED
    BY <1>1, <1>2, ReadEntriesOK, ReadOfflineOK DEF Select

LEMMA ReceiveStatusOK ==
    ASSUME StatusInv, NEW r \in Requests, ReceiveStatus(r)
    PROVE  StatusInv' /\ Quiet(r)
  <1> DEFINE remote == Current(r).via \in Remote
             s      == [req[r] EXCEPT !.stage = "answering"]
             t      == [s EXCEPT !.replied = req[r].replied \/ ~remote]
  <1>1. Become(r, t) /\ req[r].stage = "trying"
    BY Zenon DEF ReceiveStatus
  <1>2. /\ Shape(s) /\ s.stage = "answering"
        /\ s.want = req[r].want /\ s.todo = req[r].todo
    BY SetStage DEF StatusInv
  <1>3. /\ Shape(t) /\ t.stage = "answering"
        /\ t.want = req[r].want /\ t.todo = req[r].todo
        /\ t.replied = (req[r].replied \/ ~remote)
    <2> HIDE DEF s, remote
    <2>1. QED
      BY <1>2, SetReplied
  <1>4. ~req[r].replied \/ req[r].want.http2
    BY <1>1 DEF StatusInv, Settled
  <1>5. Settled(t)
    <2> HIDE DEF t
    <2>1. QED
      BY <1>3, <1>4 DEF Settled, Current
  <1> HIDE DEF t
  <1>6. QED
    BY <1>1, <1>3, <1>5, OneRequest

\* An answer that breaks off leads on only if it came from another gateway
\* or was read by the HTTP/2 transport.
LEMMA AnswerLostOK ==
    ASSUME StatusInv, NEW r \in Requests,
           LoseBody(r) \/ ReceiveGatewayError(r)
    PROVE  StatusInv' /\ Quiet(r)
  <1>1. req[r].stage = "answering"
    BY DEF LoseBody, ReceiveGatewayError
  <1>2. CASE End(r, "failed")
    BY <1>2, EndSettled DEF End
  <1>3. CASE /\ Stage(r, "broken")
             /\ req[r].want.http2 \/ Current(r).via \in Remote
    <2>1. ~req[r].replied \/ req[r].want.http2
      BY <1>1, <1>3 DEF StatusInv, Settled, Current
    <2>2. QED
      BY <1>3, <2>1, StageOK
  <1>4. QED
    BY <1>2, <1>3 DEF LoseBody, ReceiveGatewayError

\* A step that sets one request aside and lets the others see who is alive.
LEMMA SteadyOK ==
    ASSUME StatusInv,
           req' = [q \in Requests |-> req'[q]],
           \A q \in Requests :
              \/ /\ req[q].stage = "judged"
                 /\ req'[q] = [req[q] EXCEPT !.stage = "marked"]
              \/ \E v : req'[q] = [req[q] EXCEPT !.steady = v]
    PROVE  StatusInv'
  <1>1. ASSUME NEW q \in Requests
        PROVE  Shape(req'[q]) /\ Settled(req'[q])
    <2>1. Shape(req[q]) /\ Settled(req[q])
      BY DEF StatusInv
    <2>2. CASE /\ req[q].stage = "judged"
               /\ req'[q] = [req[q] EXCEPT !.stage = "marked"]
      <3>1. /\ Shape(req'[q]) /\ req'[q].stage = "marked"
            /\ req'[q].want = req[q].want /\ req'[q].replied = req[q].replied
        BY <2>1, <2>2, SetStage, SMTT(30)
      <3>2. ~req[q].replied \/ req[q].want.http2
        BY <2>1, <2>2 DEF Settled
      <3>3. QED
        BY <3>1, <3>2 DEF Settled
    <2>3. CASE \E v : req'[q] = [req[q] EXCEPT !.steady = v]
      <3>1. PICK v : req'[q] = [req[q] EXCEPT !.steady = v]
        BY <2>3
      <3>2. /\ Shape(req'[q]) /\ req'[q].stage = req[q].stage
            /\ req'[q].want = req[q].want /\ req'[q].todo = req[q].todo
            /\ req'[q].replied = req[q].replied
        BY <2>1, <3>1, SetSteady
      <3>3. QED
        BY <2>1, <3>2 DEF Settled
    <2>4. QED
      BY <2>2, <2>3
  <1>2. QED
    BY <1>1 DEF StatusInv

LEMMA JudgeOK ==
    ASSUME StatusInv, NEW r \in Requests, Judge(r)
    PROVE  StatusInv'
  <1>1. ~req[r].replied \/ req[r].want.http2
    BY DEF StatusInv, Settled, Judge
  <1>2. QED
    BY <1>1, EndSettled, StageOK DEF Judge, End

LEMMA MarkAttemptOK ==
    ASSUME StatusInv, NEW r \in Requests, MarkAttempt(r)
    PROVE  StatusInv'
  <1>1. /\ req[r].stage = "judged"
        /\ req' = [q \in Requests |->
              IF q = r THEN [req[r] EXCEPT !.stage = "marked"]
              ELSE [req[q] EXCEPT !.steady =
                      IF req[q].stage \in Selecting THEN @ \cap alive' ELSE @]]
    BY Zenon DEF MarkAttempt
  <1>2. req' = [q \in Requests |-> req'[q]]
    BY <1>1
  <1>3. ASSUME NEW q \in Requests
        PROVE  \/ /\ req[q].stage = "judged"
                  /\ req'[q] = [req[q] EXCEPT !.stage = "marked"]
               \/ \E v : req'[q] = [req[q] EXCEPT !.steady = v]
    BY <1>1, Zenon
  <1>4. QED
    BY <1>2, <1>3, SteadyOK

LEMMA ChangeAliveOK ==
    ASSUME StatusInv, NEW new, ChangeAlive(new)
    PROVE  StatusInv'
  <1>1. req' = [q \in Requests |->
                 [req[q] EXCEPT !.steady =
                    IF req[q].stage \in Selecting THEN @ \cap new ELSE @]]
    BY DEF ChangeAlive
  <1>2. req' = [q \in Requests |-> req'[q]]
    BY <1>1
  <1>3. ASSUME NEW q \in Requests
        PROVE  \E v : req'[q] = [req[q] EXCEPT !.steady = v]
    BY <1>1, Zenon
  <1>4. QED
    BY <1>2, <1>3, SteadyOK

\* The next candidate is tried after an attempt that sent no status.
LEMMA RetryOK ==
    ASSUME StatusInv, NEW r \in Requests, Retry(r)
    PROVE  StatusInv' /\ Quiet(r)
  <1> DEFINE more == Append(req[r].tried, Current(r))
             rest == Tail(req[r].todo)
             p1  == [req[r] EXCEPT !.stage = "trying"]
             p2  == [p1 EXCEPT !.tried = more]
             p3  == [p2 EXCEPT !.todo = rest]
             new == [p3 EXCEPT !.steady = {}]
  <1>1. Become(r, new) \/ End(r, "failed")
    BY Zenon DEF Retry
  <1>2. /\ Shape(p1) /\ p1.stage = "trying" /\ p1.want = req[r].want
        /\ p1.replied = req[r].replied
    BY SetStage DEF StatusInv
  <1>3. /\ Shape(p2) /\ p2.stage = "trying" /\ p2.want = req[r].want
        /\ p2.replied = req[r].replied
    <2> HIDE DEF p1, more
    <2>1. QED
      BY <1>2, SetTried
  <1>4. /\ Shape(p3) /\ p3.stage = "trying" /\ p3.want = req[r].want
        /\ p3.replied = req[r].replied
    <2> HIDE DEF p2, rest
    <2>1. QED
      BY <1>3, SetTodo
  <1>5. /\ Shape(new) /\ new.stage = "trying" /\ new.want = req[r].want
        /\ new.replied = req[r].replied
    <2> HIDE DEF p3
    <2>1. QED
      BY <1>4, SetSteady
  <1>6. ~req[r].replied \/ req[r].want.http2
    BY DEF StatusInv, Settled, Retry
  <1>7. Settled(new)
    <2> HIDE DEF new
    <2>1. QED
      BY <1>5, <1>6 DEF Settled
  <1> HIDE DEF new
  <1>8. QED
    BY <1>1, <1>5, <1>7, OneRequest, EndSettled DEF End

\* The steps of an attempt that give nothing up.
LEMMA AttemptQuiet ==
    ASSUME StatusInv, NEW r \in Requests,
           \/ ConnectFails(r) \/ GiveUp(r) \/ ReceiveStatus(r)
           \/ ReceiveBody(r) \/ LoseBody(r) \/ ReceiveGatewayError(r) \/ Retry(r)
    PROVE  StatusInv' /\ Quiet(r)
  <1>1. CASE ConnectFails(r)
    <2>1. Stage(r, "broken") /\ (~req[r].replied \/ req[r].want.http2)
      BY <1>1 DEF ConnectFails, StatusInv, Settled
    <2>2. QED
      BY <2>1, StageOK
  <1>2. CASE GiveUp(r) \/ ReceiveBody(r)
    BY <1>2, EndSettled DEF GiveUp, ReceiveBody, End
  <1>3. QED
    BY <1>1, <1>2, ReceiveStatusOK, AnswerLostOK, RetryOK

LEMMA AttemptOK ==
    ASSUME StatusInv, NEW r \in Requests, Attempt(r)
    PROVE  StatusInv'
  <1>1. CASE FollowRedirect(r)
    BY <1>1 DEF FollowRedirect, StatusInv
  <1>2. QED
    BY <1>1, AttemptQuiet, JudgeOK, MarkAttemptOK DEF Attempt

LEMMA LeaveOK ==
    ASSUME StatusInv, NEW r \in Requests, Leave(r)
    PROVE  StatusInv'
  <1> DEFINE new == [req[r] EXCEPT !.gone = TRUE]
  <1>1. Become(r, new)
    BY DEF Leave
  <1>2. /\ Shape(req[r]) /\ Settled(req[r])
    BY DEF StatusInv
  <1>3. /\ Shape(new) /\ new.stage = req[r].stage /\ new.want = req[r].want
        /\ new.todo = req[r].todo /\ new.replied = req[r].replied
    BY <1>2, SetGone
  <1> HIDE DEF new
  <1>4. Settled(new)
    BY <1>2, <1>3 DEF Settled
  <1>5. QED
    BY <1>1, <1>3, <1>4, OneRequest

LEMMA StatusNext ==
    ASSUME StatusInv, [Next]_vars
    PROVE  StatusInv'
  <1>1. CASE UNCHANGED vars
    BY <1>1 DEF vars, StatusInv
  <1>2. CASE \E n \in Nodes : Check(n)
    <2>1. PICK n \in Nodes : Check(n)
      BY <1>2
    <2>2. QED
      BY <2>1, ChangeAliveOK DEF Check
  <1>3. CASE \E r \in Requests :
                \/ \E want \in Wants : Ask(r, want)
                \/ Select(r) \/ Attempt(r) \/ Leave(r)
    BY <1>3, AskOK, SelectOK, AttemptOK, LeaveOK
  <1>4. QED
    BY <1>1, <1>2, <1>3 DEF Next

LEMMA StatusAlways == Spec => []StatusInv
  <1>1. StatusInv /\ [Next]_vars => StatusInv'
    BY StatusNext
  <1>2. QED
    BY StatusInit, <1>1, PTL DEF Spec

\* Whatever the nodes, the options and the order of the events: a request
\* without an HTTP/2 fingerprint is never tried again once the target has
\* sent a status that is not a redirect to follow.
THEOREM PlainStatusStays == Spec => []PlainStatusIsFinal
  <1>1. StatusInv => PlainStatusIsFinal
    BY DEF StatusInv, Settled, PlainStatusIsFinal
  <1>2. QED
    BY StatusAlways, <1>1, PTL

-----------------------------------------------------------------------------
(* Callers that leave                                                      *)

\* A request that is about to give a candidate up although its caller has left
\* had found it worth giving up before.
KnownBefore(r) ==
    req[r].stage = "judged" /\ req[r].gone => Current(r).via \in doomed[r]

LeaveInv ==
    /\ StatusInv
    /\ doomed = [r \in Requests |-> doomed[r]]
    /\ \A r \in Requests : KnownBefore(r)

\* A step leaves a request alone or gives it no candidate to give up.
Spares(q) ==
    /\ doomed'[q] = doomed[q]
    /\ req'[q].stage = req[q].stage /\ req'[q].gone = req[q].gone
    /\ req'[q].todo = req[q].todo

LEMMA OthersSpared ==
    ASSUME LeaveInv, NEW r \in Requests, NEW new, req' = [req EXCEPT ![r] = new],
           NEW d, doomed' \in {doomed, [doomed EXCEPT ![r] = d]}
    PROVE  \A q \in Requests \ {r} : Spares(q)
  BY DEF Spares, LeaveInv, StatusInv

LEMMA SteadySpared ==
    ASSUME StatusInv, NEW q \in Requests, NEW v,
           req'[q] = [req[q] EXCEPT !.steady = v], doomed' = doomed
    PROVE  Spares(q)
  <1>1. Shape(req[q])
    BY DEF StatusInv
  <1>2. QED
    BY <1>1, SetSteady DEF Spares

\* What a step does to each request: nothing that matters here, or it has no
\* candidate to give up, or found one while its caller waited, or its caller
\* leaves, or it gives the candidate up.
LEMMA LeaveCases ==
    ASSUME LeaveInv, [Next]_vars, NEW q \in Requests
    PROVE  \/ Spares(q)
           \/ req'[q].stage \notin {"judged", "marked"}
           \/ req'[q].stage = "judged" /\ ~req'[q].gone
           \/ /\ req'[q].stage = req[q].stage
              /\ req'[q].todo = req[q].todo
              /\ req[q].stage = "judged" => Current(q).via \in doomed'[q]
           \/ req[q].stage = "judged" /\ req'[q].stage = "marked"
  <1> DEFINE Goal ==
               \/ Spares(q)
               \/ req'[q].stage \notin {"judged", "marked"}
               \/ req'[q].stage = "judged" /\ ~req'[q].gone
               \/ /\ req'[q].stage = req[q].stage
                  /\ req'[q].todo = req[q].todo
                  /\ req[q].stage = "judged" => Current(q).via \in doomed'[q]
               \/ req[q].stage = "judged" /\ req'[q].stage = "marked"
  <1>0. StatusInv /\ Shape(req[q]) /\ doomed = [r \in Requests |-> doomed[r]]
        /\ req = [r \in Requests |-> req[r]]
    BY DEF LeaveInv, StatusInv
  <1>1. ASSUME NEW r \in Requests, Quiet(r),
               doomed' \in {doomed, [doomed EXCEPT ![r] = {}]}
        PROVE  Goal
    BY <1>1, OthersSpared DEF Quiet
  <1>2. ASSUME NEW r \in Requests,
               Select(r) \/ \E want \in Wants : Ask(r, want)
        PROVE  Goal
    <2>1. doomed' \in {doomed, [doomed EXCEPT ![r] = {}]}
      BY <1>2 DEF Ask, Select, ReadEntries, ReadOffline, ReadTemplates, ReadAny
    <2>2. Quiet(r)
      BY <1>0, <1>2, AskOK, SelectOK
    <2>3. QED
      BY <1>1, <2>1, <2>2
  <1>3. ASSUME NEW r \in Requests, Attempt(r)
        PROVE  Goal
    <2>1. CASE \/ ConnectFails(r) \/ GiveUp(r) \/ ReceiveStatus(r)
               \/ ReceiveBody(r) \/ LoseBody(r) \/ ReceiveGatewayError(r) \/ Retry(r)
      <3>1. doomed' = doomed
        BY <2>1 DEF ConnectFails, GiveUp, ReceiveStatus, ReceiveBody, LoseBody,
                    ReceiveGatewayError, Retry
      <3>2. QED
        BY <1>0, <1>1, <2>1, <3>1, AttemptQuiet
    <2>2. CASE FollowRedirect(r)
      BY <2>2 DEF FollowRedirect, Spares
    <2>3. CASE Judge(r)
      <3>1. /\ doomed' = doomed
            /\ \/ End(r, "failed")
               \/ (Stage(r, "judged") /\ ~req[r].gone)
        BY <2>3 DEF Judge
      <3>2. CASE End(r, "failed")
        BY <1>0, <1>1, <3>1, <3>2, EndSettled DEF End
      <3>3. CASE Stage(r, "judged") /\ ~req[r].gone
        <4> DEFINE new == [req[r] EXCEPT !.stage = "judged"]
        <4>1. req' = [req EXCEPT ![r] = new]
          BY <3>3 DEF Stage, Become
        <4>2. new.stage = "judged" /\ ~new.gone
          BY <1>0, <3>3, SetStage DEF StatusInv
        <4> HIDE DEF new
        <4>3. QED
          BY <1>0, <3>1, <4>1, <4>2, OthersSpared
      <3>4. QED
        BY <3>1, <3>2, <3>3
    <2>4. CASE MarkAttempt(r)
      <3>1. /\ req[r].stage = "judged" /\ doomed' = doomed
            /\ req' = [p \in Requests |->
                  IF p = r THEN [req[r] EXCEPT !.stage = "marked"]
                  ELSE [req[p] EXCEPT !.steady =
                          IF req[p].stage \in Selecting THEN @ \cap alive' ELSE @]]
        BY <2>4, Zenon DEF MarkAttempt
      <3>2. CASE q = r
        <4>1. req'[q] = [req[q] EXCEPT !.stage = "marked"]
          BY <3>1, <3>2, Zenon
        <4>2. req'[q].stage = "marked"
          BY <1>0, <4>1, SetStage
        <4>3. QED
          BY <3>1, <3>2, <4>2
      <3>3. CASE q # r
        <4>1. \E v : req'[q] = [req[q] EXCEPT !.steady = v]
          BY <3>1, <3>3, Zenon
        <4>2. QED
          BY <1>0, <3>1, <4>1, SteadySpared
      <3>4. QED
        BY <3>2, <3>3
    <2>5. QED
      BY <1>3, <2>1, <2>2, <2>3, <2>4 DEF Attempt
  <1>4. ASSUME NEW r \in Requests, Leave(r)
        PROVE  Goal
    <2> DEFINE new == [req[r] EXCEPT !.gone = TRUE]
               d   == IF req[r].stage = "judged" THEN {Current(r).via} ELSE {}
    <2>1. req' = [req EXCEPT ![r] = new] /\ doomed' = [doomed EXCEPT ![r] = d]
      BY <1>4 DEF Leave, Become
    <2>2. new.stage = req[r].stage /\ new.todo = req[r].todo
      BY SetGone DEF LeaveInv, StatusInv
    <2>3. req[r].stage = "judged" => Current(r).via \in d
      OBVIOUS
    <2> HIDE DEF new, d
    <2>4. CASE q = r
      <3>1. req'[q] = new /\ doomed'[q] = d
        BY <1>0, <2>1, <2>4
      <3>2. /\ req'[q].stage = req[q].stage
            /\ req'[q].todo = req[q].todo
            /\ req[q].stage = "judged" => Current(q).via \in doomed'[q]
        BY <2>2, <2>3, <2>4, <3>1
      <3>3. QED
        BY <3>2
    <2>5. CASE q # r
      <3>1. req'[q] = req[q] /\ doomed'[q] = doomed[q]
        BY <1>0, <2>1, <2>5
      <3>2. QED
        BY <3>1 DEF Spares
    <2>6. QED
      BY <2>4, <2>5
  <1>5. ASSUME NEW n \in Nodes, Check(n)
        PROVE  Goal
    <2>1. PICK new : ChangeAlive(new)
      BY <1>5 DEF Check
    <2>2. \E v : req'[q] = [req[q] EXCEPT !.steady = v]
      BY <2>1, Zenon DEF ChangeAlive
    <2>3. doomed' = doomed
      BY <1>5 DEF Check
    <2>4. QED
      BY <1>0, <2>2, <2>3, SteadySpared
  <1>6. ASSUME UNCHANGED vars
        PROVE  Goal
    BY <1>6 DEF vars, Spares
  <1> HIDE DEF Goal
  <1>7. Goal
    <2>1. CASE \E r \in Requests :
                  \/ \E want \in Wants : Ask(r, want)
                  \/ Select(r) \/ Attempt(r) \/ Leave(r)
      <3>1. PICK r \in Requests : \/ \E want \in Wants : Ask(r, want)
                                 \/ Select(r) \/ Attempt(r) \/ Leave(r)
        BY <2>1
      <3>2. QED
        BY <1>2, <1>3, <1>4, <3>1, Zenon
    <2>2. CASE \E n \in Nodes : Check(n)
      BY <1>5, <2>2, Zenon
    <2>3. QED
      BY <1>6, <2>1, <2>2 DEF Next
  <1>8. QED
    BY <1>7 DEF Goal

LEMMA LeaveInvInit == Init => LeaveInv
  <1> SUFFICES ASSUME Init
               PROVE  LeaveInv
    OBVIOUS
  <1>1. PICK want \in Wants : req = [r \in Requests |-> Ended("answered", want, {})]
    BY DEF Init
  <1>2. \A r \in Requests : req[r].stage = "answered"
    BY <1>1, EndedShape
  <1>3. doomed = [r \in Requests |-> doomed[r]]
    BY DEF Init
  <1>4. QED
    BY <1>2, <1>3, StatusInit DEF LeaveInv, KnownBefore

LEMMA LeaveInvNext ==
    ASSUME LeaveInv, [Next]_vars
    PROVE  LeaveInv'
  <1>1. StatusInv'
    BY StatusNext DEF LeaveInv
  <1>2. doomed' = [r \in Requests |-> doomed'[r]]
    <2>1. doomed = [r \in Requests |-> doomed[r]]
      BY DEF LeaveInv
    <2>2. CASE \E r \in Requests : Leave(r) \/ \E want \in Wants : Ask(r, want)
      <3>1. PICK r \in Requests : Leave(r) \/ \E want \in Wants : Ask(r, want)
        BY <2>2
      <3>2. CASE Leave(r)
        BY <2>1, <3>2 DEF Leave
      <3>3. CASE \E want \in Wants : Ask(r, want)
        <4>1. doomed' = [doomed EXCEPT ![r] = {}]
          BY <3>3 DEF Ask
        <4>2. QED
          BY <2>1, <4>1
      <3>4. QED
        BY <3>1, <3>2, <3>3
    <2>3. CASE \/ \E r \in Requests : Select(r) \/ Attempt(r)
               \/ \E n \in Nodes : Check(n)
               \/ UNCHANGED vars
      <3>1. doomed' = doomed
        BY <2>3 DEF vars, Select, ReadEntries, ReadOffline, ReadTemplates, ReadAny,
              Attempt, ConnectFails, GiveUp, FollowRedirect, ReceiveStatus,
              ReceiveBody, LoseBody, ReceiveGatewayError, Judge, MarkAttempt, Retry,
              Check
      <3>2. QED
        BY <2>1, <3>1
    <2>4. QED
      BY <2>2, <2>3 DEF Next
  <1>3. ASSUME NEW q \in Requests
        PROVE  KnownBefore(q)'
    <2>1. KnownBefore(q)
      BY DEF LeaveInv
    <2>2. CASE Spares(q)
      BY <2>1, <2>2 DEF KnownBefore, Spares, Current
    <2>3. CASE \/ req'[q].stage \notin {"judged", "marked"}
               \/ req'[q].stage = "judged" /\ ~req'[q].gone
               \/ req[q].stage = "judged" /\ req'[q].stage = "marked"
      BY <2>3 DEF KnownBefore
    <2>4. CASE /\ req'[q].stage = req[q].stage
               /\ req'[q].todo = req[q].todo
               /\ req[q].stage = "judged" => Current(q).via \in doomed'[q]
      BY <2>4 DEF KnownBefore, Current
    <2>5. QED
      BY <2>2, <2>3, <2>4, LeaveCases
  <1>4. QED
    BY <1>1, <1>2, <1>3 DEF LeaveInv

\* Whatever the nodes and the order of the events: from the time its caller
\* leaves, a request gives up nothing but the candidate whose failure it had
\* already found worth a retry (doProxyWithRetry, server.go 562-563).
THEOREM LeavingCostsOne == Spec => LeavingCostsOneNode
  <1> DEFINE Step == \A r \in Requests :
                        req[r].gone /\ req[r].stage # "marked" /\ req'[r].stage = "marked"
                            => Current(r).via \in doomed[r]
  <1>1. ASSUME LeaveInv, [Next]_vars
        PROVE  Step
    <2> SUFFICES ASSUME NEW r \in Requests, req[r].gone,
                        req[r].stage # "marked", req'[r].stage = "marked"
                 PROVE  Current(r).via \in doomed[r]
      BY DEF Step
    <2>1. KnownBefore(r)
      BY <1>1 DEF LeaveInv
    <2>2. req[r].stage = "judged"
      BY <1>1, LeaveCases DEF Spares
    <2>3. QED
      BY <2>1, <2>2 DEF KnownBefore
  <1>2. LeaveInv /\ [Next]_vars => LeaveInv'
    BY LeaveInvNext
  <1> HIDE DEF Step
  <1>3. Spec => [][Step]_vars
    BY LeaveInvInit, <1>1, <1>2, PTL DEF Spec
  <1>4. QED
    BY <1>3 DEF LeavingCostsOneNode, Step

-----------------------------------------------------------------------------
(* Induction                                                               *)

Smaller == {ss \in Nat \X Nat : ss[1] < ss[2]}

LEMMA LeastOne ==
    ASSUME NEW T, T \subseteq Nat, T # {}
    PROVE  \E x \in T : \A y \in T : x <= y
  <1>1. IsWellFoundedOn(Smaller, Nat)
    <2>1. OpToRel(<, Nat) = {ss \in Nat \X Nat : ss[1] < ss[2]}
      BY Zenon DEF OpToRel
    <2>2. QED
      BY <2>1, NatLessThanWellFounded, Zenon DEF Smaller
  <1>2. PICK x \in T : \A y \in T : ~ (<<y, x>> \in Smaller)
    BY <1>1, WFMin, Zenon
  <1>3. ASSUME NEW y \in T
        PROVE  x <= y
    <2>1. x \in Nat /\ y \in Nat
      OBVIOUS
    <2>2. <<y, x>> \notin Smaller
      BY <1>2
    <2>3. ~ (y < x)
      BY <2>1, <2>2 DEF Smaller
    <2>4. QED
      BY <2>1, <2>3
  <1>4. QED
    BY <1>3

LEMMA Induction ==
    ASSUME NEW S, 0 \in S, \A n \in Nat : n \in S => n + 1 \in S
    PROVE  Nat \subseteq S
  <1>1. SUFFICES ASSUME NEW k \in Nat, k \notin S PROVE FALSE
    OBVIOUS
  <1>2. PICK x \in Nat \ S : \A y \in Nat \ S : x <= y
    BY <1>1, LeastOne
  <1>3. x # 0
    BY <1>2
  <1>4. x - 1 \in Nat
    BY <1>2, <1>3
  <1>5. x - 1 \in S
    BY <1>2, <1>4
  <1>6. QED
    BY <1>2, <1>4, <1>5

-----------------------------------------------------------------------------
(* Keep                                                                    *)

\* f[i] is what the loop of Keep has gathered after i elements.
Gathers(f, s, T, n) ==
    /\ f[0] = <<>>
    /\ \A i \in 1 .. n :
          f[i] = IF s[i] \in T THEN Append(f[i - 1], s[i]) ELSE f[i - 1]

LEMMA Gatherable ==
    ASSUME NEW S, NEW s, NEW T, NEW n \in Nat, \A i \in 1 .. n : s[i] \in S
    PROVE  \E f \in [0 .. n -> Seq(S)] : Gathers(f, s, T, n)
  <1> DEFINE P == {k \in Nat : k <= n =>
                       \E f \in [0 .. k -> Seq(S)] : Gathers(f, s, T, k)}
  <1>1. 0 \in P
    <2>1. <<>> \in Seq(S)
      OBVIOUS
    <2>2. [i \in 0 .. 0 |-> <<>>] \in [0 .. 0 -> Seq(S)]
      BY <2>1
    <2>3. Gathers([i \in 0 .. 0 |-> <<>>], s, T, 0)
      BY DEF Gathers
    <2>4. QED
      BY <2>2, <2>3
  <1>2. ASSUME NEW k \in Nat, k \in P
        PROVE  k + 1 \in P
    <2>1. SUFFICES ASSUME k + 1 <= n
                   PROVE  \E g \in [0 .. k + 1 -> Seq(S)] : Gathers(g, s, T, k + 1)
      OBVIOUS
    <2>2. k <= n /\ k + 1 \in 1 .. n
      BY <2>1
    <2>3. PICK f \in [0 .. k -> Seq(S)] : Gathers(f, s, T, k)
      BY <1>2, <2>2
    <2> DEFINE next == IF s[k + 1] \in T THEN Append(f[k], s[k + 1]) ELSE f[k]
               g == [i \in 0 .. k + 1 |-> IF i = k + 1 THEN next ELSE f[i]]
    <2>4. next \in Seq(S)
      <3>1. f[k] \in Seq(S) /\ s[k + 1] \in S
        BY <2>2, <2>3
      <3>2. Append(f[k], s[k + 1]) \in Seq(S)
        BY <3>1, AppendProperties
      <3>3. QED
        BY <3>1, <3>2
    <2>5. /\ g[k + 1] = next /\ g[k] = f[k]
          /\ \A i \in 0 .. k : g[i] = f[i]
      <3> HIDE DEF next
      <3>1. QED
        OBVIOUS
    <2>6. g \in [0 .. k + 1 -> Seq(S)]
      <3> HIDE DEF next
      <3>1. QED
        BY <2>3, <2>4
    <2>7. ASSUME NEW i \in 1 .. k + 1
          PROVE  g[i] = IF s[i] \in T THEN Append(g[i - 1], s[i]) ELSE g[i - 1]
      <3> HIDE DEF g
      <3>1. CASE i = k + 1
        <4>1. i - 1 = k
          BY <3>1
        <4>2. QED
          BY <2>5, <3>1, <4>1 DEF next
      <3>2. CASE i # k + 1
        <4>1. i \in 1 .. k /\ i - 1 \in 0 .. k
          BY <3>2
        <4>2. g[i] = f[i] /\ g[i - 1] = f[i - 1]
          BY <2>5, <4>1
        <4>3. QED
          BY <2>3, <4>1, <4>2 DEF Gathers
      <3>3. QED
        BY <3>1, <3>2
    <2>8. g[0] = <<>>
      <3> HIDE DEF g
      <3>1. QED
        BY <2>3, <2>5 DEF Gathers
    <2>9. Gathers(g, s, T, k + 1)
      <3> HIDE DEF g
      <3>1. QED
        BY <2>7, <2>8, Zenon DEF Gathers
    <2>10. QED
      BY <2>6, <2>9
  <1>3. n \in P
    <2> HIDE DEF P
    <2>1. QED
      BY <1>1, <1>2, Induction
  <1>4. QED
    BY <1>3

\* Keep computes what its loop gathers.
LEMMA KeepGathers ==
    ASSUME NEW S, NEW s \in Seq(S), NEW T, NEW n \in Nat, n = Len(s)
    PROVE  \E f : Gathers(f, s, T, n) /\ Keep(s, T) = f[n]
  <1> DEFINE loop(f) == [i \in 0 .. n |->
                 IF i = 0 THEN <<>>
                 ELSE IF s[i] \in T THEN Append(f[i - 1], s[i]) ELSE f[i - 1]]
             kept == CHOOSE f : f = loop(f)
  <1>1. Keep(s, T) = kept[n]
    BY Zenon DEF Keep
  <1>2. \E f : f = loop(f)
    <2>1. \A i \in 1 .. n : s[i] \in S
      OBVIOUS
    <2>2. PICK f \in [0 .. n -> Seq(S)] : Gathers(f, s, T, n)
      BY <2>1, Gatherable
    <2>3. f = [i \in 0 .. n |-> f[i]]
      BY <2>2
    <2>4. ASSUME NEW i \in 0 .. n
          PROVE  f[i] = IF i = 0 THEN <<>>
                        ELSE IF s[i] \in T THEN Append(f[i - 1], s[i]) ELSE f[i - 1]
      <3>1. i = 0 \/ i \in 1 .. n
        OBVIOUS
      <3>2. CASE i = 0
        BY <2>2, <3>2 DEF Gathers
      <3>3. CASE i \in 1 .. n
        <4>1. i # 0
          BY <3>3
        <4>2. QED
          BY <2>2, <3>3, <4>1, Zenon DEF Gathers
      <3>4. QED
        BY <3>1, <3>2, <3>3
    <2>5. QED
      BY <2>3, <2>4, ZenonT(60)
  <1>3. kept = loop(kept)
    BY <1>2, Zenon
  <1> HIDE DEF kept
  <1>4. \A i \in 0 .. n : kept[i] = loop(kept)[i]
    BY <1>3, Zenon
  <1>5. ASSUME NEW i \in 1 .. n
        PROVE  kept[i] = IF s[i] \in T THEN Append(kept[i - 1], s[i]) ELSE kept[i - 1]
    <2>1. i # 0 /\ i \in 0 .. n
      OBVIOUS
    <2>2. QED
      BY <1>4, <2>1, Zenon
  <1>6. kept[0] = <<>>
    <2>1. 0 \in 0 .. n
      OBVIOUS
    <2>2. QED
      BY <1>4, <2>1, Zenon
  <1>7. QED
    BY <1>1, <1>5, <1>6, Zenon DEF Gathers

\* Numbers that rise.
Rising(s) == \A i, j \in DOMAIN s : i < j => s[i] < s[j]

\* out is what a list has in T of its first k elements.
Selects(out, s, T, k) ==
    /\ \A j \in 1 .. Len(out) : out[j] \in T /\ \E i \in 1 .. k : out[j] = s[i]
    /\ \A i \in 1 .. k : s[i] \in T => \E j \in 1 .. Len(out) : out[j] = s[i]

\* One turn of the loop.
LEMMA SelectsMore ==
    ASSUME NEW S, NEW s, NEW T, NEW k \in Nat, NEW out \in Seq(S), s[k + 1] \in S,
           Selects(out, s, T, k),
           NEW new, new = IF s[k + 1] \in T THEN Append(out, s[k + 1]) ELSE out
    PROVE  new \in Seq(S) /\ Selects(new, s, T, k + 1)
  <1>1. PICK n \in Nat : n = Len(out)
    OBVIOUS
  <1>2. CASE s[k + 1] \notin T
    <2>1. new = out
      BY <1>2
    <2>2. \A i \in 1 .. k + 1 : i \in 1 .. k \/ i = k + 1
      OBVIOUS
    <2>3. \A i \in 1 .. k : i \in 1 .. k + 1
      OBVIOUS
    <2>4. QED
      BY <1>2, <2>1, <2>2, <2>3 DEF Selects
  <1>3. CASE s[k + 1] \in T
    <2>1. /\ new \in Seq(S) /\ Len(new) = n + 1
          /\ \A j \in 1 .. n : new[j] = out[j]
          /\ new[n + 1] = s[k + 1]
      BY <1>1, <1>3, AppendProperties
    <2>2. ASSUME NEW j \in 1 .. n + 1
          PROVE  new[j] \in T /\ \E i \in 1 .. k + 1 : new[j] = s[i]
      <3>1. CASE j = n + 1
        <4>1. k + 1 \in 1 .. k + 1
          OBVIOUS
        <4>2. QED
          BY <1>3, <2>1, <3>1, <4>1
      <3>2. CASE j # n + 1
        <4>1. j \in 1 .. n
          BY <3>2
        <4>2. new[j] = out[j]
          BY <2>1, <4>1
        <4>3. out[j] \in T /\ \E i \in 1 .. k : out[j] = s[i]
          BY <1>1, <4>1 DEF Selects
        <4>4. \A i \in 1 .. k : i \in 1 .. k + 1
          OBVIOUS
        <4>5. QED
          BY <4>2, <4>3, <4>4
      <3>3. QED
        BY <3>1, <3>2
    <2>3. ASSUME NEW i \in 1 .. k + 1, s[i] \in T
          PROVE  \E j \in 1 .. n + 1 : new[j] = s[i]
      <3>1. CASE i = k + 1
        <4>1. n + 1 \in 1 .. n + 1
          OBVIOUS
        <4>2. QED
          BY <2>1, <3>1, <4>1
      <3>2. CASE i # k + 1
        <4>1. i \in 1 .. k
          BY <3>2
        <4>2. PICK j \in 1 .. n : out[j] = s[i]
          BY <1>1, <2>3, <4>1 DEF Selects
        <4>3. j \in 1 .. n + 1 /\ new[j] = s[i]
          BY <2>1, <4>2
        <4>4. QED
          BY <4>3
      <3>3. QED
        BY <3>1, <3>2
    <2>4. QED
      BY <2>1, <2>2, <2>3, ZenonT(60) DEF Selects
  <1>4. QED
    BY <1>2, <1>3

\* What Keep returns of a list, whatever the elements are.
LEMMA KeepSelects ==
    ASSUME NEW S, NEW s \in Seq(S), NEW T
    PROVE  Keep(s, T) \in Seq(S) /\ Selects(Keep(s, T), s, T, Len(s))
  <1>1. PICK n \in Nat : n = Len(s)
    OBVIOUS
  <1>2. PICK f : Gathers(f, s, T, n) /\ Keep(s, T) = f[n]
    BY <1>1, KeepGathers
  <1> DEFINE P == {k \in Nat : k <= n => f[k] \in Seq(S) /\ Selects(f[k], s, T, k)}
  <1>3. 0 \in P
    <2>1. f[0] = <<>>
      BY <1>2 DEF Gathers
    <2>2. <<>> \in Seq(S) /\ Selects(<<>>, s, T, 0)
      BY DEF Selects
    <2>3. QED
      BY <2>1, <2>2
  <1>4. ASSUME NEW k \in Nat, k \in P
        PROVE  k + 1 \in P
    <2>1. SUFFICES ASSUME k + 1 <= n
                   PROVE  f[k + 1] \in Seq(S) /\ Selects(f[k + 1], s, T, k + 1)
      OBVIOUS
    <2>2. k + 1 \in 1 .. n /\ (k + 1) - 1 = k
      BY <2>1
    <2>3. f[k + 1] = IF s[k + 1] \in T THEN Append(f[k], s[k + 1]) ELSE f[k]
      BY <1>2, <2>2 DEF Gathers
    <2>4. f[k] \in Seq(S) /\ Selects(f[k], s, T, k)
      BY <1>4, <2>2
    <2>5. s[k + 1] \in S
      BY <1>1, <2>2
    <2>6. QED
      BY <2>3, <2>4, <2>5, SelectsMore
  <1>5. n \in P
    <2> HIDE DEF P
    <2>1. QED
      BY <1>3, <1>4, Induction
  <1>6. QED
    BY <1>1, <1>2, <1>5

\* Keep leaves rising numbers rising.
LEMMA KeepRises ==
    ASSUME NEW s \in Seq(Nat), NEW T, Rising(s)
    PROVE  Rising(Keep(s, T))
  <1>1. PICK n \in Nat : n = Len(s)
    OBVIOUS
  <1>2. PICK f : Gathers(f, s, T, n) /\ Keep(s, T) = f[n]
    BY <1>1, KeepGathers
  <1> DEFINE P == {k \in Nat : k <= n =>
                 f[k] \in Seq(Nat) /\ Selects(f[k], s, T, k) /\ Rising(f[k])}
  <1>3. 0 \in P
    <2>1. f[0] = <<>>
      BY <1>2 DEF Gathers
    <2>2. <<>> \in Seq(Nat) /\ Selects(<<>>, s, T, 0) /\ Rising(<<>>)
      BY DEF Selects, Rising
    <2>3. QED
      BY <2>1, <2>2
  <1>4. ASSUME NEW k \in Nat, k \in P
        PROVE  k + 1 \in P
    <2>1. SUFFICES ASSUME k + 1 <= n
                   PROVE  /\ f[k + 1] \in Seq(Nat) /\ Selects(f[k + 1], s, T, k + 1)
                          /\ Rising(f[k + 1])
      OBVIOUS
    <2>2. k + 1 \in 1 .. n /\ (k + 1) - 1 = k
      BY <2>1
    <2>3. f[k + 1] = IF s[k + 1] \in T THEN Append(f[k], s[k + 1]) ELSE f[k]
      BY <1>2, <2>2 DEF Gathers
    <2>4. f[k] \in Seq(Nat) /\ Selects(f[k], s, T, k) /\ Rising(f[k])
      BY <1>4, <2>2
    <2>5. s[k + 1] \in Nat
      BY <1>1, <2>2
    <2>6. f[k + 1] \in Seq(Nat) /\ Selects(f[k + 1], s, T, k + 1)
      BY <2>3, <2>4, <2>5, SelectsMore
    <2>7. CASE s[k + 1] \notin T
      BY <2>3, <2>4, <2>6, <2>7
    <2>8. CASE s[k + 1] \in T
      <3>1. PICK m \in Nat : m = Len(f[k])
        BY <2>4
      <3>2. /\ DOMAIN f[k + 1] = 1 .. m + 1
            /\ \A j \in 1 .. m : f[k + 1][j] = f[k][j]
            /\ f[k + 1][m + 1] = s[k + 1]
        BY <2>3, <2>4, <2>5, <2>8, <3>1, AppendProperties, SMTT(30)
      <3>3. ASSUME NEW j \in 1 .. m
            PROVE  f[k][j] < s[k + 1]
        <4>1. PICK i \in 1 .. k : f[k][j] = s[i]
          BY <2>4, <3>1 DEF Selects
        <4>2. i \in DOMAIN s /\ k + 1 \in DOMAIN s /\ i < k + 1
          BY <1>1, <2>2
        <4>3. QED
          BY <4>1, <4>2 DEF Rising
      <3>4. DOMAIN f[k] = 1 .. m
        BY <2>4, <3>1
      <3>5. ASSUME NEW i \in 1 .. m + 1, NEW j \in 1 .. m + 1, i < j
            PROVE  f[k + 1][i] < f[k + 1][j]
        <4>1. i \in 1 .. m /\ (j \in 1 .. m \/ j = m + 1)
          BY <3>5
        <4>2. CASE j = m + 1
          BY <3>2, <3>3, <4>1, <4>2
        <4>3. CASE j \in 1 .. m
          BY <2>4, <3>2, <3>4, <3>5, <4>1, <4>3 DEF Rising
        <4>4. QED
          BY <4>1, <4>2, <4>3
      <3>6. Rising(f[k + 1])
        BY <3>2, <3>5 DEF Rising
      <3>7. QED
        BY <2>6, <3>6
    <2>9. QED
      BY <2>7, <2>8
  <1>5. n \in P
    <2> HIDE DEF P
    <2>1. QED
      BY <1>3, <1>4, Induction
  <1>6. QED
    BY <1>2, <1>5

-----------------------------------------------------------------------------
(* Lists of nodes and templates                                            *)

Via == Nodes \cup Templates

\* The place of a candidate within its class, as in Rank.
Level(premium, v) ==
    (IF premium /\ v \notin Premium THEN 2 ELSE 0) + (IF v \in Templates THEN 1 ELSE 0)

\* A list whose places go from lo to hi and never back.
Climbs(premium, vs, lo, hi) ==
    /\ vs \in Seq(Via)
    /\ \A i \in DOMAIN vs : lo <= Level(premium, vs[i]) /\ Level(premium, vs[i]) <= hi
    /\ \A i, j \in DOMAIN vs : i < j => Level(premium, vs[i]) <= Level(premium, vs[j])

Has(vs, v) == \E i \in DOMAIN vs : vs[i] = v

LEMMA LevelIs ==
    ASSUME NEW premium, NEW v
    PROVE  Level(premium, v) \in 0 .. 3
  BY DEF Level

\* A list whose candidates have one place.
LEMMA Flat ==
    ASSUME NEW premium, NEW vs \in Seq(Via), NEW lo \in Nat,
           \A i \in DOMAIN vs : Level(premium, vs[i]) = lo
    PROVE  Climbs(premium, vs, lo, lo)
  BY DEF Climbs

LEMMA ClimbsWider ==
    ASSUME NEW premium, NEW vs, NEW lo \in Nat, NEW hi \in Nat, Climbs(premium, vs, lo, hi),
           NEW low \in Nat, NEW high \in Nat, low <= lo, hi <= high
    PROVE  Climbs(premium, vs, low, high)
  BY LevelIs DEF Climbs

LEMMA Join ==
    ASSUME NEW S, NEW a \in Seq(S), NEW b \in Seq(S)
    PROVE  /\ a \o b \in Seq(S)
           /\ \A v : Has(a, v) \/ Has(b, v) <=> Has(a \o b, v)
  <1>1. PICK m \in Nat, n \in Nat : m = Len(a) /\ n = Len(b)
    OBVIOUS
  <1>2. DOMAIN a = 1 .. m /\ DOMAIN b = 1 .. n
    BY <1>1
  <1> DEFINE c == a \o b
  <1>3. /\ c \in Seq(S) /\ DOMAIN c = 1 .. m + n
        /\ \A i \in 1 .. m + n : c[i] = IF i <= m THEN a[i] ELSE b[i - m]
    BY <1>1, <1>2, ConcatProperties
  <1> HIDE DEF c
  <1>4. \A i \in 1 .. m + n : (i <= m /\ i \in 1 .. m) \/ (~ (i <= m) /\ i - m \in 1 .. n)
    OBVIOUS
  <1>5. ASSUME NEW i \in 1 .. m
        PROVE  i \in 1 .. m + n /\ c[i] = a[i]
    BY <1>3
  <1>6. ASSUME NEW i \in 1 .. n
        PROVE  i + m \in 1 .. m + n /\ c[i + m] = b[i]
    BY <1>3
  <1>7. ASSUME NEW v
        PROVE  Has(a, v) \/ Has(b, v) <=> Has(c, v)
    <2>1. Has(a, v) => Has(c, v)
      BY <1>2, <1>3, <1>5 DEF Has
    <2>2. Has(b, v) => Has(c, v)
      BY <1>2, <1>3, <1>6 DEF Has
    <2>3. Has(c, v) => Has(a, v) \/ Has(b, v)
      <3>1. SUFFICES ASSUME NEW i \in 1 .. m + n, c[i] = v
                     PROVE  Has(a, v) \/ Has(b, v)
        BY <1>3 DEF Has
      <3>2. (i \in 1 .. m /\ c[i] = a[i]) \/ (i - m \in 1 .. n /\ c[i] = b[i - m])
        BY <1>3, <1>4
      <3>3. QED
        BY <1>2, <3>1, <3>2 DEF Has
    <2>4. QED
      BY <2>1, <2>2, <2>3
  <1>8. QED
    BY <1>3, <1>7 DEF c

LEMMA ClimbsOn ==
    ASSUME NEW premium, NEW a, NEW b, NEW lo \in Nat, NEW mid \in Nat, NEW hi \in Nat,
           lo <= mid, mid <= hi,
           Climbs(premium, a, lo, mid), Climbs(premium, b, mid, hi)
    PROVE  /\ Climbs(premium, a \o b, lo, hi)
           /\ \A v : Has(a, v) \/ Has(b, v) <=> Has(a \o b, v)
  <1>1. PICK m \in Nat, n \in Nat : m = Len(a) /\ n = Len(b)
    BY DEF Climbs
  <1>2. a \in Seq(Via) /\ b \in Seq(Via) /\ DOMAIN a = 1 .. m /\ DOMAIN b = 1 .. n
    BY <1>1 DEF Climbs
  <1> DEFINE c == a \o b
  <1>3. /\ c \in Seq(Via) /\ DOMAIN c = 1 .. m + n
        /\ \A i \in 1 .. m + n : c[i] = IF i <= m THEN a[i] ELSE b[i - m]
    BY <1>1, <1>2, ConcatProperties
  <1> HIDE DEF c
  <1>4. \A i \in 1 .. m + n : (i <= m /\ i \in 1 .. m) \/ (~ (i <= m) /\ i - m \in 1 .. n)
    OBVIOUS
  <1>5. ASSUME NEW i \in 1 .. m
        PROVE  i \in 1 .. m + n /\ c[i] = a[i]
    BY <1>3
  <1>6. ASSUME NEW i \in 1 .. n
        PROVE  i + m \in 1 .. m + n /\ c[i + m] = b[i]
    BY <1>3
  <1>7. ASSUME NEW i \in 1 .. m
        PROVE  Level(premium, a[i]) \in lo .. mid
    BY <1>2, LevelIs DEF Climbs
  <1>8. ASSUME NEW i \in 1 .. n
        PROVE  Level(premium, b[i]) \in mid .. hi
    BY <1>2, LevelIs DEF Climbs
  <1>9. ASSUME NEW i \in 1 .. m + n
        PROVE  lo <= Level(premium, c[i]) /\ Level(premium, c[i]) <= hi
    <2>1. CASE i <= m
      <3>1. i \in 1 .. m /\ c[i] = a[i]
        BY <1>3, <2>1
      <3>2. QED
        BY <1>7, <3>1
    <2>2. CASE ~ (i <= m)
      <3>1. i - m \in 1 .. n /\ c[i] = b[i - m]
        BY <1>3, <2>2
      <3>2. QED
        BY <1>8, <3>1
    <2>3. QED
      BY <2>1, <2>2
  <1>10. ASSUME NEW i \in 1 .. m + n, NEW j \in 1 .. m + n, i < j
         PROVE  Level(premium, c[i]) <= Level(premium, c[j])
    <2>1. CASE i <= m /\ j <= m
      <3>1. i \in 1 .. m /\ j \in 1 .. m
        BY <2>1
      <3>2. Level(premium, a[i]) <= Level(premium, a[j])
        BY <1>2, <1>10, <3>1 DEF Climbs
      <3>3. QED
        BY <1>5, <3>1, <3>2
    <2>2. CASE i <= m /\ ~ (j <= m)
      <3>1. i \in 1 .. m /\ j - m \in 1 .. n
        BY <2>2
      <3>2. c[i] = a[i] /\ c[j] = b[j - m]
        BY <1>3, <2>2
      <3>3. QED
        BY <1>7, <1>8, <3>1, <3>2
    <2>3. CASE ~ (i <= m)
      <3>1. i - m \in 1 .. n /\ j - m \in 1 .. n /\ i - m < j - m
        BY <1>10, <2>3
      <3>2. c[i] = b[i - m] /\ c[j] = b[j - m]
        BY <1>3, <1>10, <2>3
      <3>3. Level(premium, b[i - m]) <= Level(premium, b[j - m])
        BY <1>2, <3>1 DEF Climbs
      <3>4. QED
        BY <3>2, <3>3
    <2>4. QED
      BY <2>1, <2>2, <2>3
  <1>11. Climbs(premium, c, lo, hi)
    BY <1>3, <1>9, <1>10 DEF Climbs
  <1>12. \A v : Has(a, v) \/ Has(b, v) <=> Has(c, v)
    BY <1>2, Join, Zenon DEF c
  <1>13. QED
    BY <1>11, <1>12 DEF c

LEMMA ClimbsEmpty ==
    ASSUME NEW premium, NEW lo, NEW hi
    PROVE  Climbs(premium, <<>>, lo, hi) /\ \A v : ~Has(<<>>, v)
  BY DEF Climbs, Has


\* What premiumCandidateGroup and prioritizePremiumChoices take apart.
LEMMA Parts ==
    ASSUME NEW vs \in Seq(Via)
    PROVE  /\ PremiumOf(vs) \in Seq(Via) /\ OrdinaryOf(vs) \in Seq(Via)
           /\ \A i \in DOMAIN PremiumOf(vs) :
                 PremiumOf(vs)[i] \in Premium /\ Has(vs, PremiumOf(vs)[i])
           /\ \A i \in DOMAIN OrdinaryOf(vs) :
                 OrdinaryOf(vs)[i] \notin Premium /\ Has(vs, OrdinaryOf(vs)[i])
           /\ \A v : Has(vs, v) =>
                 IF v \in Premium THEN Has(PremiumOf(vs), v) ELSE Has(OrdinaryOf(vs), v)
  <1>1. PICK n \in Nat : n = Len(vs)
    OBVIOUS
  <1>2. DOMAIN vs = 1 .. n
    BY <1>1
  <1> DEFINE Part(out, T) ==
               /\ out \in Seq(Via)
               /\ \A i \in DOMAIN out : out[i] \in T /\ Has(vs, out[i])
               /\ \A v : Has(vs, v) /\ v \in T => Has(out, v)
  <1>3. ASSUME NEW T
        PROVE  Part(Keep(vs, T), T)
    <2> DEFINE out == Keep(vs, T)
    <2>1. out \in Seq(Via) /\ Selects(out, vs, T, n)
      BY <1>1, KeepSelects
    <2> HIDE DEF out
    <2>2. DOMAIN out = 1 .. Len(out)
      BY <2>1
    <2>3. \A i \in DOMAIN out : out[i] \in T /\ Has(vs, out[i])
      BY <1>2, <2>1, <2>2 DEF Selects, Has
    <2>4. \A v : Has(vs, v) /\ v \in T => Has(out, v)
      BY <1>2, <2>1, <2>2 DEF Selects, Has
    <2>5. Part(out, T)
      BY <2>1, <2>3, <2>4
    <2>6. QED
      BY <2>5 DEF out
  <1>4. Part(PremiumOf(vs), Premium)
    BY <1>3, Zenon DEF PremiumOf
  <1>5. Part(OrdinaryOf(vs), (Nodes \cup Templates) \ Premium)
    BY <1>3, Zenon DEF OrdinaryOf
  <1>6. \A v : Has(vs, v) => v \in Nodes \cup Templates
    BY DEF Has, Via
  <1>7. \A v : Has(vs, v) /\ v \notin Premium => v \in (Nodes \cup Templates) \ Premium
    BY <1>6
  <1>8. \A v \in (Nodes \cup Templates) \ Premium : v \notin Premium
    OBVIOUS
  <1>9. QED
    BY <1>4, <1>5, <1>7, <1>8, Zenon

\* A list of nodes (of = 0) or of templates (of = 1).
Sort(vs, of) == vs \in Seq(Via) /\ \A v : Has(vs, v) => (v \in Templates) = (of = 1)

LEMMA SortOfNodes ==
    ASSUME NEW vs \in Seq(Nodes)
    PROVE  Sort(vs, 0)
  BY TemplatesAssumption DEF Sort, Has, Via

LEMMA SortOfTemplates ==
    ASSUME NEW vs \in Seq(Templates)
    PROVE  Sort(vs, 1)
  BY DEF Sort, Has, Via

\* The parts a premium group is made of, each with its place.
LEMMA PartsFlat ==
    ASSUME NEW premium \in BOOLEAN, premium, NEW vs, NEW of \in {0, 1}, Sort(vs, of)
    PROVE  /\ Climbs(premium, PremiumOf(vs), of, of)
           /\ Climbs(premium, OrdinaryOf(vs), of + 2, of + 2)
  <1>1. vs \in Seq(Via) /\ \A v : Has(vs, v) => (v \in Templates) = (of = 1)
    BY DEF Sort
  <1>2. ASSUME NEW i \in DOMAIN PremiumOf(vs)
        PROVE  Level(premium, PremiumOf(vs)[i]) = of
    <2>1. PremiumOf(vs)[i] \in Premium /\ Has(vs, PremiumOf(vs)[i])
      BY <1>1, Parts
    <2>2. (PremiumOf(vs)[i] \in Templates) = (of = 1)
      BY <1>1, <2>1
    <2>3. QED
      BY <2>1, <2>2 DEF Level
  <1>3. ASSUME NEW i \in DOMAIN OrdinaryOf(vs)
        PROVE  Level(premium, OrdinaryOf(vs)[i]) = of + 2
    <2>1. OrdinaryOf(vs)[i] \notin Premium /\ Has(vs, OrdinaryOf(vs)[i])
      BY <1>1, Parts
    <2>2. (OrdinaryOf(vs)[i] \in Templates) = (of = 1)
      BY <1>1, <2>1
    <2>3. QED
      BY <2>1, <2>2 DEF Level
  <1>4. of \in Nat /\ of + 2 \in Nat
    OBVIOUS
  <1>5. PremiumOf(vs) \in Seq(Via) /\ OrdinaryOf(vs) \in Seq(Via)
    BY <1>1, Parts
  <1>6. Climbs(premium, PremiumOf(vs), of, of)
    BY <1>2, <1>4, <1>5, Flat, Zenon
  <1>7. Climbs(premium, OrdinaryOf(vs), of + 2, of + 2)
    BY <1>3, <1>4, <1>5, Flat, Zenon
  <1>8. QED
    BY <1>6, <1>7

\* Candidates without a premium one, or for a request that asks for none.
LEMMA PlainFlat ==
    ASSUME NEW premium \in BOOLEAN, NEW vs, NEW of \in {0, 1}, Sort(vs, of),
           NEW base, base = IF premium THEN 2 ELSE 0,
           premium => \A v : Has(vs, v) => v \notin Premium
    PROVE  Climbs(premium, vs, base + of, base + of)
  <1>1. vs \in Seq(Via) /\ \A v : Has(vs, v) => (v \in Templates) = (of = 1)
    BY DEF Sort
  <1>2. ASSUME NEW i \in DOMAIN vs
        PROVE  Level(premium, vs[i]) = base + of
    <2>1. Has(vs, vs[i])
      BY DEF Has
    <2>2. (vs[i] \in Templates) = (of = 1)
      BY <1>1, <2>1
    <2>3. premium => vs[i] \notin Premium
      BY <2>1
    <2>4. QED
      BY <2>2, <2>3 DEF Level
  <1>3. base + of \in Nat
    OBVIOUS
  <1>4. QED
    BY <1>1, <1>2, <1>3, Flat, Zenon

\* premiumCandidateGroup puts its candidates in the documented places and
\* leaves no entry out.
LEMMA PremiumGroupClimbs ==
    ASSUME NEW premium \in BOOLEAN, NEW fallback \in BOOLEAN,
           NEW entries \in Seq(Nodes), NEW offline \in Seq(Nodes),
           NEW templates \in Seq(Templates)
    PROVE  LET group == PremiumCandidateGroup(entries, offline, templates, fallback)
           IN premium => /\ Climbs(premium, group, 0, 3)
                         /\ \A v : Has(entries, v) => Has(group, v)
  <1> DEFINE group == PremiumCandidateGroup(entries, offline, templates, fallback)
             g1 == IF PremiumOf(entries) # <<>> THEN PremiumOf(entries)
                   ELSE PremiumOf(offline)
             g2 == PremiumOf(templates)
             g3 == OrdinaryOf(entries)
             g4 == OrdinaryOf(offline)
             g5 == IF fallback THEN OrdinaryOf(templates) ELSE <<>>
             s2 == g1 \o g2
             s3 == s2 \o g3
             s4 == s3 \o g4
             s5 == s4 \o g5
  <1>17. SUFFICES ASSUME premium
                  PROVE  /\ Climbs(premium, group, 0, 3)
                         /\ \A v : Has(entries, v) => Has(group, v)
    OBVIOUS
  <1>13. group = s5
    BY Zenon DEF PremiumCandidateGroup
  <1>1. Sort(entries, 0) /\ Sort(offline, 0) /\ Sort(templates, 1)
    BY SortOfNodes, SortOfTemplates
  <1>2. /\ Climbs(premium, PremiumOf(entries), 0, 0) /\ Climbs(premium, OrdinaryOf(entries), 2, 2)
        /\ Climbs(premium, PremiumOf(offline), 0, 0) /\ Climbs(premium, OrdinaryOf(offline), 2, 2)
        /\ Climbs(premium, PremiumOf(templates), 1, 1)
        /\ Climbs(premium, OrdinaryOf(templates), 3, 3)
    <2>1. 0 \in {0, 1} /\ 1 \in {0, 1} /\ 0 + 2 = 2 /\ 1 + 2 = 3
      OBVIOUS
    <2>2. /\ Climbs(premium, PremiumOf(templates), 1, 1)
          /\ Climbs(premium, OrdinaryOf(templates), 1 + 2, 1 + 2)
      BY <1>1, <1>17, <2>1, PartsFlat, Zenon
    <2>3. \A vs : Sort(vs, 0) => /\ Climbs(premium, PremiumOf(vs), 0, 0)
                                 /\ Climbs(premium, OrdinaryOf(vs), 0 + 2, 0 + 2)
      BY <1>17, <2>1, PartsFlat, Zenon
    <2>4. QED
      BY <1>1, <2>1, <2>2, <2>3, Zenon
  <1>0. /\ 0 \in Nat /\ 1 \in Nat /\ 2 \in Nat /\ 3 \in Nat
        /\ 0 <= 0 /\ 0 <= 1 /\ 1 <= 1 /\ 0 <= 2 /\ 1 <= 2 /\ 2 <= 2 /\ 2 <= 3
        /\ 0 <= 3 /\ 3 <= 3
    OBVIOUS
  <1>3. Climbs(premium, g1, 0, 0)
    BY <1>2, Zenon
  <1>4. Climbs(premium, g5, 3, 3)
    BY <1>2, ClimbsEmpty, Zenon
  <1>5. \A v : Has(PremiumOf(entries), v) => Has(g1, v)
    BY ClimbsEmpty
  <1>6. \A v : Has(entries, v) => Has(g1, v) \/ Has(g3, v)
    BY <1>1, <1>5, Parts, Zenon DEF Sort
  <1> HIDE DEF g1, g2, g3, g4, g5
  <1>16. Climbs(premium, g1, 0, 1)
    BY <1>0, <1>3, ClimbsWider, Zenon
  <1>7. Climbs(premium, s2, 0, 1) /\ \A v : Has(g1, v) => Has(s2, v)
    BY <1>0, <1>2, <1>16, ClimbsOn, Zenon DEF g2
  <1>8. Climbs(premium, s2, 0, 2)
    BY <1>0, <1>7, ClimbsWider, Zenon
  <1> HIDE DEF s2
  <1>9. Climbs(premium, s3, 0, 2) /\ \A v : Has(s2, v) \/ Has(g3, v) => Has(s3, v)
    BY <1>0, <1>2, <1>8, ClimbsOn, Zenon DEF g3
  <1> HIDE DEF s3
  <1>10. Climbs(premium, s4, 0, 2) /\ \A v : Has(s3, v) => Has(s4, v)
    BY <1>0, <1>2, <1>9, ClimbsOn, Zenon DEF g4
  <1>11. Climbs(premium, g5, 2, 3)
    BY <1>0, <1>4, ClimbsWider
  <1> HIDE DEF s4
  <1>12. Climbs(premium, s5, 0, 3) /\ \A v : Has(s4, v) => Has(s5, v)
    <2>1. PICK hi \in Nat : hi = 3 /\ 2 <= hi
      OBVIOUS
    <2>2. Climbs(premium, g5, 2, hi)
      BY <1>11, <2>1
    <2>3. /\ Climbs(premium, s5, 0, hi)
          /\ \A v : Has(s4, v) \/ Has(g5, v) <=> Has(s5, v)
      BY <1>10, <2>1, <2>2, ClimbsOn, SMT
    <2> HIDE DEF s5
    <2>4. Climbs(premium, s5, 0, 3)
      BY <2>1, <2>3 DEF Climbs
    <2>5. QED
      BY <2>3, <2>4
  <1> HIDE DEF s5, group
  <1>14. \A v : Has(entries, v) => Has(s5, v)
    BY <1>6, <1>7, <1>9, <1>10, <1>12
  <1>15. QED
    BY <1>12, <1>13, <1>14 DEF group


\* Without premium candidates the nodes come first, in whatever order they
\* were listed.
LEMMA PlainGroupClimbs ==
    ASSUME NEW premium \in BOOLEAN, NEW nodes \in Seq(Nodes),
           NEW templates, templates = <<>> \/ templates \in Seq(Templates),
           premium => \A v : Has(nodes, v) \/ Has(templates, v) => v \notin Premium
    PROVE  /\ Climbs(premium, nodes \o templates, 0, 3)
           /\ \A v : Has(nodes, v) => Has(nodes \o templates, v)
  <1> DEFINE base == IF premium THEN 2 ELSE 0
  <1>1. Sort(nodes, 0)
    BY SortOfNodes
  <1>2. Sort(templates, 1)
    <2>1. CASE templates = <<>>
      BY <2>1 DEF Sort, Has
    <2>2. QED
      BY <2>1, SortOfTemplates
  <1>3. /\ base \in Nat /\ base + 0 \in Nat /\ base + 1 \in Nat /\ 0 \in {0, 1} /\ 1 \in {0, 1}
        /\ 0 \in Nat /\ 3 \in Nat /\ 0 <= base + 0 /\ base + 0 <= base + 1
        /\ base + 1 <= base + 1 /\ base + 0 <= base + 0 /\ base + 1 <= 3
    OBVIOUS
  <1>4. base = IF premium THEN 2 ELSE 0
    OBVIOUS
  <1> HIDE DEF base
  <1>5. Climbs(premium, nodes, base + 0, base + 0)
    BY <1>1, <1>3, <1>4, PlainFlat, Zenon
  <1>6. Climbs(premium, templates, base + 1, base + 1)
    BY <1>2, <1>3, <1>4, PlainFlat, Zenon
  <1>7. Climbs(premium, nodes, base + 0, base + 1)
    BY <1>3, <1>5, ClimbsWider, Zenon
  <1>8. /\ Climbs(premium, nodes \o templates, base + 0, base + 1)
        /\ \A v : Has(nodes, v) \/ Has(templates, v) <=> Has(nodes \o templates, v)
    BY <1>3, <1>6, <1>7, ClimbsOn, Zenon
  <1>9. Climbs(premium, nodes \o templates, 0, 3)
    BY <1>3, <1>8, ClimbsWider, Zenon
  <1>10. QED
    BY <1>8, <1>9

\* egressCandidateGroup
LEMMA GroupClimbs ==
    ASSUME NEW premium \in BOOLEAN, NEW fallback \in BOOLEAN,
           NEW entries \in Seq(Nodes), NEW offline \in Seq(Nodes),
           NEW templates \in Seq(Templates),
           NEW group,
           group = EgressCandidateGroup(premium, entries, offline, templates, fallback)
    PROVE  /\ Climbs(premium, group, 0, 3)
           /\ \A v : Has(entries, v) => Has(group, v)
  <1> DEFINE all   == entries \o offline \o templates
             nodes == IF entries # <<>> THEN entries ELSE offline
             after == IF nodes = <<>> \/ fallback THEN templates ELSE <<>>
  <1>1. entries \in Seq(Via) /\ offline \in Seq(Via) /\ templates \in Seq(Via)
    BY DEF Via
  <1>2. /\ all \in Seq(Via)
        /\ \A v : Has(entries, v) \/ Has(offline, v) \/ Has(templates, v) => Has(all, v)
    BY <1>1, Join, Zenon
  <1>3. CASE premium /\ PremiumOf(all) # <<>>
    <2>1. group = PremiumCandidateGroup(entries, offline, templates, fallback)
      BY <1>3, Zenon DEF EgressCandidateGroup
    <2>2. QED
      BY <1>3, <2>1, PremiumGroupClimbs, Zenon
  <1>4. CASE ~ (premium /\ PremiumOf(all) # <<>>)
    <2>1. group = nodes \o after
      BY <1>4, Zenon DEF EgressCandidateGroup
    <2>2. ASSUME premium, NEW v, Has(all, v)
          PROVE  v \notin Premium
      <3>1. PremiumOf(all) = <<>>
        BY <1>4, <2>2
      <3>2. ~Has(PremiumOf(all), v)
        BY <3>1, ClimbsEmpty
      <3>3. QED
        BY <1>2, <2>2, <3>2, Parts, Zenon
    <2>3. nodes \in Seq(Nodes) /\ \A v : Has(nodes, v) => Has(entries, v) \/ Has(offline, v)
      OBVIOUS
    <2>4. /\ after = <<>> \/ after \in Seq(Templates)
          /\ \A v : Has(after, v) => Has(templates, v)
      BY ClimbsEmpty, Zenon
    <2>5. \A v : Has(entries, v) => Has(nodes, v)
      BY ClimbsEmpty, Zenon
    <2> HIDE DEF nodes, after, all
    <2>6. premium => \A v : Has(nodes, v) \/ Has(after, v) => v \notin Premium
      BY <1>2, <2>2, <2>3, <2>4, Zenon
    <2>7. /\ Climbs(premium, nodes \o after, 0, 3)
          /\ \A v : Has(nodes, v) => Has(nodes \o after, v)
      BY <2>3, <2>4, <2>6, PlainGroupClimbs, Zenon
    <2>8. QED
      BY <2>1, <2>5, <2>7, Zenon
  <1>5. QED
    BY <1>3, <1>4

\* prioritizePremiumChoices
LEMMA AnyClimbs ==
    ASSUME NEW premium \in BOOLEAN, NEW entries \in Seq(Nodes),
           NEW group, group = PrioritizePremium(premium, entries)
    PROVE  /\ Climbs(premium, group, 0, 3)
           /\ \A v : Has(entries, v) => Has(group, v)
  <1>1. Sort(entries, 0)
    BY SortOfNodes
  <1>2. /\ 0 \in Nat /\ 2 \in Nat /\ 3 \in Nat /\ 0 <= 0 /\ 0 <= 2 /\ 2 <= 2 /\ 2 <= 3
        /\ 0 \in {0, 1} /\ 0 + 2 = 2 /\ 0 + 0 = 0 /\ 0 <= 3
    OBVIOUS
  <1>3. CASE premium
    <2> DEFINE first == PremiumOf(entries)
               last  == OrdinaryOf(entries)
    <2>1. group = first \o last
      BY <1>3, Zenon DEF PrioritizePremium
    <2>3. Climbs(premium, first, 0, 0) /\ Climbs(premium, last, 0 + 2, 0 + 2)
      BY <1>1, <1>2, <1>3, PartsFlat, Zenon
    <2>4. \A v : Has(entries, v) => Has(first, v) \/ Has(last, v)
      BY <1>1, Parts, Zenon DEF Sort
    <2> HIDE DEF first, last
    <2>5. Climbs(premium, first, 0, 2) /\ Climbs(premium, last, 2, 3)
      <3>1. Climbs(premium, last, 2, 2)
        BY <1>2, <2>3
      <3>2. QED
        BY <1>2, <2>3, <3>1, ClimbsWider, Zenon
    <2>6. /\ Climbs(premium, first \o last, 0, 3)
          /\ \A v : Has(first, v) \/ Has(last, v) <=> Has(first \o last, v)
      <3>1. PICK hi \in Nat : hi = 3 /\ 2 <= hi
        OBVIOUS
      <3>2. Climbs(premium, last, 2, hi)
        BY <2>5, <3>1
      <3>3. /\ Climbs(premium, first \o last, 0, hi)
            /\ \A v : Has(first, v) \/ Has(last, v) <=> Has(first \o last, v)
        BY <2>5, <3>1, <3>2, ClimbsOn, SMT
      <3>4. Climbs(premium, first \o last, 0, 3)
        BY <3>1, <3>3 DEF Climbs
      <3>5. QED
        BY <3>3, <3>4
    <2>7. QED
      BY <2>1, <2>4, <2>6, Zenon
  <1>4. CASE ~premium
    <2>1. group = entries
      BY <1>4, Zenon DEF PrioritizePremium
    <2>2. 0 = IF premium THEN 2 ELSE 0
      BY <1>4
    <2>3. Climbs(premium, entries, 0 + 0, 0 + 0)
      BY <1>1, <1>2, <1>4, <2>2, PlainFlat, Zenon
    <2>4. Climbs(premium, entries, 0, 0)
      BY <1>2, <2>3
    <2>5. QED
      BY <1>2, <2>1, <2>4, ClimbsWider, Zenon
  <1>5. QED
    BY <1>3, <1>4


-----------------------------------------------------------------------------
(* Orders                                                                  *)

LEMMA MatchingNodes ==
    ASSUME NEW any, NEW residential
    PROVE  Matching(any, residential) \subseteq Nodes /\ IsFiniteSet(Matching(any, residential))
  <1>1. Matching(any, residential) \subseteq Nodes
    BY NodesAssumption DEF Matching
  <1>2. QED
    BY <1>1, NodesAssumption, FS_Subset

\* An order of a finite set is a sequence of all its elements.
LEMMA OrderHasAll ==
    ASSUME NEW S, IsFiniteSet(S), NEW s \in SetToSeqs(S)
    PROVE  s \in Seq(S) /\ \A v \in S : Has(s, v)
  <1>1. PICK n \in Nat : n = Cardinality(S)
    BY FS_CardinalityType
  <1>2. /\ s \in [1 .. n -> S]
        /\ \A i, j \in 1 .. n : i # j => s[i] # s[j]
    BY <1>1, Zenon DEF SetToSeqs
  <1>3. s \in Seq(S) /\ DOMAIN s = 1 .. n
    BY <1>2
  <1>4. s \in Injection(1 .. n, S)
    BY <1>2, Fun_IsInj
  <1>5. Cardinality(1 .. n) = n
    BY FS_Interval
  <1>6. s \in Surjection(1 .. n, S)
    BY <1>1, <1>4, <1>5, FS_Injection
  <1>7. \A v \in S : \E i \in 1 .. n : s[i] = v
    BY <1>6, Fun_SurjectionProperties
  <1>8. QED
    BY <1>3, <1>7 DEF Has

LEMMA EntriesAll ==
    ASSUME NEW up, NEW any, NEW residential, NEW entries \in EntryOrders(up, any, residential)
    PROVE  /\ entries \in Seq(Nodes)
           /\ \A v \in Matching(any, residential) \cap up : Has(entries, v)
  <1> DEFINE S == Matching(any, residential) \cap up
  <1>1. IsFiniteSet(S) /\ S \subseteq Nodes
    BY MatchingNodes, FS_Intersection
  <1>2. entries \in SetToSeqs(S)
    BY DEF EntryOrders
  <1> HIDE DEF S
  <1>3. entries \in Seq(S) /\ \A v \in S : Has(entries, v)
    BY <1>1, <1>2, OrderHasAll
  <1>4. entries \in Seq(Nodes)
    BY <1>1, <1>3
  <1>5. QED
    BY <1>3, <1>4 DEF S

LEMMA OfflineNodes ==
    ASSUME NEW up, NEW residential
    PROVE  OfflineEntries(up, residential) \in Seq(Nodes)
  <1>1. CASE \E n \in TryOffline \ up : Matching(FALSE, residential) = {n}
    <2>1. PICK n \in TryOffline : Matching(FALSE, residential) = {n}
      BY <1>1
    <2>2. OfflineEntries(up, residential) = SetToSeq({n})
      BY <1>1, <2>1, Zenon DEF OfflineEntries
    <2>3. n \in Nodes
      BY NodesAssumption
    <2>4. Cardinality({n}) = 1
      BY FS_Singleton
    <2>5. \E f \in [1 .. 1 -> {n}] : IsInjective(f)
      <3>1. [i \in 1 .. 1 |-> n] \in [1 .. 1 -> {n}]
        OBVIOUS
      <3>2. IsInjective([i \in 1 .. 1 |-> n])
        BY DEF IsInjective
      <3>3. QED
        BY <3>1, <3>2
    <2>6. SetToSeq({n}) \in [1 .. 1 -> {n}]
      BY <2>4, <2>5, Zenon DEF SetToSeq
    <2>7. SetToSeq({n}) \in Seq({n})
      BY <2>6, SMTT(30)
    <2>8. Seq({n}) \subseteq Seq(Nodes)
      BY <2>3
    <2>9. QED
      BY <2>2, <2>7, <2>8, Zenon
  <1>2. CASE ~ \E n \in TryOffline \ up : Matching(FALSE, residential) = {n}
    BY <1>2 DEF OfflineEntries
  <1>3. QED
    BY <1>1, <1>2

\* The order of templates: premium ones first if asked for, then by Order.
Before(premium, s, t) ==
    IF premium /\ (s \in Premium) # (t \in Premium)
    THEN s \in Premium ELSE Order[s] < Order[t]

Sorted(premium, s) == \A i, j \in DOMAIN s : i < j => Before(premium, s[i], s[j])

\* Any set of templates has one that goes before all others.
LEMMA FirstTemplate ==
    ASSUME NEW premium \in BOOLEAN, NEW A \in SUBSET Templates, A # {}
    PROVE  \E m \in A : \A t \in A \ {m} : Before(premium, m, t)
  <1> DEFINE B == IF premium /\ A \cap Premium # {} THEN A \cap Premium ELSE A
             Q == {Order[t] : t \in B}
  <1>1. B \subseteq A /\ B # {}
    OBVIOUS
  <1>2. \A t \in A \ B : premium /\ t \notin Premium /\ \A u \in B : u \in Premium
    OBVIOUS
  <1>3. \A t, u \in B : premium => ((t \in Premium) = (u \in Premium))
    OBVIOUS
  <1> HIDE DEF B
  <1>4. Q \subseteq Nat /\ Q # {}
    BY <1>1, TemplatesAssumption
  <1>5. PICK m \in B : \A t \in B : Order[m] <= Order[t]
    <2>1. PICK k \in Q : \A y \in Q : k <= y
      BY <1>4, LeastOne, Zenon
    <2>2. PICK m \in B : Order[m] = k
      BY <2>1
    <2>3. \A t \in B : Order[t] \in Q
      OBVIOUS
    <2>4. QED
      BY <2>1, <2>2, <2>3
  <1>6. ASSUME NEW t \in A \ {m}
        PROVE  Before(premium, m, t)
    <2>1. CASE t \in B
      <3>1. Order[m] # Order[t] /\ Order[m] <= Order[t]
        BY <1>1, <1>5, <1>6, <2>1, TemplatesAssumption
      <3>2. Order[m] \in Nat /\ Order[t] \in Nat
        BY <1>1, <1>5, <2>1, TemplatesAssumption
      <3>3. Order[m] < Order[t]
        BY <3>1, <3>2
      <3>4. ~ (premium /\ (m \in Premium) # (t \in Premium))
        BY <1>3, <1>5, <2>1
      <3>5. QED
        BY <3>3, <3>4, Zenon DEF Before
    <2>2. CASE t \notin B
      <3>1. premium /\ t \notin Premium /\ m \in Premium
        BY <1>2, <1>5, <2>2
      <3>2. (m \in Premium) # (t \in Premium)
        BY <3>1
      <3>3. QED
        BY <3>1, <3>2, Zenon DEF Before
    <2>3. QED
      BY <2>1, <2>2
  <1>7. QED
    BY <1>1, <1>5, <1>6

LEMMA NotBeforeItself ==
    ASSUME NEW premium, NEW t \in Templates
    PROVE  ~Before(premium, t, t)
  <1>1. Order[t] \in Nat
    BY TemplatesAssumption
  <1>2. QED
    BY <1>1 DEF Before

\* Hence any set of templates can be sorted.
LEMMA Sortable ==
    ASSUME NEW premium \in BOOLEAN, NEW A \in SUBSET Templates
    PROVE  \E s \in SetToSeqs(A) : Sorted(premium, s)
  <1> DEFINE InOrder(C, n) == \E s \in [1 .. n -> C] : Sorted(premium, s)
             P == {n \in Nat : \A C \in SUBSET Templates : Cardinality(C) = n => InOrder(C, n)}
  <1>0. \A C \in SUBSET Templates : IsFiniteSet(C) /\ Cardinality(C) \in Nat
    BY NodesAssumption, FS_Subset, FS_CardinalityType
  <1>1. 0 \in P
    <2>1. SUFFICES ASSUME NEW C \in SUBSET Templates
                   PROVE  InOrder(C, 0)
      OBVIOUS
    <2>2. [i \in 1 .. 0 |-> 0] \in [1 .. 0 -> C]
      OBVIOUS
    <2>3. Sorted(premium, [i \in 1 .. 0 |-> 0])
      BY DEF Sorted
    <2>4. QED
      BY <2>2, <2>3
  <1>2. ASSUME NEW n \in Nat, n \in P
        PROVE  n + 1 \in P
    <2>1. SUFFICES ASSUME NEW C \in SUBSET Templates, Cardinality(C) = n + 1
                   PROVE  InOrder(C, n + 1)
      OBVIOUS
    <2>2. C # {}
      <3>1. Cardinality(C) # 0
        BY <2>1
      <3>2. QED
        BY <3>1, FS_EmptySet
    <2>3. PICK m \in C : \A t \in C \ {m} : Before(premium, m, t)
      BY <2>2, FirstTemplate
    <2>4. Cardinality(C \ {m}) = n
      <3>1. Cardinality(C \ {m}) = Cardinality(C) - 1
        BY <1>0, FS_RemoveElement
      <3>2. QED
        BY <2>1, <3>1
    <2>5. PICK s \in [1 .. n -> C \ {m}] : Sorted(premium, s)
      BY <1>2, <2>4
    <2> DEFINE u == [i \in 1 .. n + 1 |-> IF i = 1 THEN m ELSE s[i - 1]]
    <2>6. u \in [1 .. n + 1 -> C]
      <3>1. \A i \in 1 .. n + 1 : i # 1 => i - 1 \in 1 .. n
        OBVIOUS
      <3>2. QED
        BY <2>5, <3>1
    <2>7. ASSUME NEW i \in 1 .. n + 1, NEW j \in 1 .. n + 1, i < j
          PROVE  Before(premium, u[i], u[j])
      <3>1. j - 1 \in 1 .. n /\ u[j] = s[j - 1]
        BY <2>7
      <3>2. CASE i = 1
        BY <2>3, <2>5, <3>1, <3>2
      <3>3. CASE i # 1
        <4>1. i - 1 \in 1 .. n /\ u[i] = s[i - 1] /\ i - 1 < j - 1
          BY <2>7, <3>3
        <4>2. DOMAIN s = 1 .. n
          BY <2>5
        <4>3. QED
          BY <2>5, <3>1, <4>1, <4>2 DEF Sorted
      <3>4. QED
        BY <3>2, <3>3
    <2>8. Sorted(premium, u)
      <3>1. DOMAIN u = 1 .. n + 1
        OBVIOUS
      <3> HIDE DEF u
      <3>2. QED
        BY <2>7, <3>1 DEF Sorted
    <2>9. QED
      BY <2>6, <2>8
  <1>3. PICK n \in Nat : n = Cardinality(A)
    BY <1>0
  <1>4. n \in P
    <2> HIDE DEF P
    <2>1. QED
      BY <1>1, <1>2, Induction
  <1>5. PICK s \in [1 .. n -> A] : Sorted(premium, s)
    BY <1>3, <1>4
  <1>6. ASSUME NEW i \in 1 .. n, NEW j \in 1 .. n, i # j
        PROVE  s[i] # s[j]
    <2>1. s[i] \in Templates /\ DOMAIN s = 1 .. n
      BY <1>5
    <2>2. ~Before(premium, s[i], s[i])
      BY <2>1, NotBeforeItself
    <2>3. Before(premium, s[i], s[j]) \/ Before(premium, s[j], s[i])
      <3>1. i < j \/ j < i
        BY <1>6
      <3>2. QED
        BY <1>5, <2>1, <3>1 DEF Sorted
    <2>4. QED
      BY <2>2, <2>3
  <1>7. s \in SetToSeqs(A)
    BY <1>3, <1>5, <1>6, Zenon DEF SetToSeqs
  <1>8. QED
    BY <1>5, <1>7

\* templateChoices returns templates.
LEMMA TemplatesListed ==
    ASSUME NEW premium \in BOOLEAN, NEW residential
    PROVE  TemplateChoices(premium, residential) \in Seq(Templates)
  <1> DEFINE A == {t \in Templates : residential \in Covers[t]}
  <1>1. TemplateChoices(premium, residential) =
            CHOOSE s \in SetToSeqs(A) : Sorted(premium, s)
    BY Zenon DEF TemplateChoices, Sorted, Before
  <1>2. \E s \in SetToSeqs(A) : Sorted(premium, s)
    BY Sortable
  <1>3. IsFiniteSet(A)
    BY NodesAssumption, FS_Subset
  <1> HIDE DEF A
  <1>4. TemplateChoices(premium, residential) \in SetToSeqs(A)
    BY <1>1, <1>2, Zenon
  <1>5. TemplateChoices(premium, residential) \in Seq(A)
    BY <1>3, <1>4, OrderHasAll
  <1>6. QED
    BY <1>5 DEF A


-----------------------------------------------------------------------------
(* Choices and the routes laid out of them                                 *)

\* Choices whose ranks go from lo to hi and never back.
Ordered(want, cs, lo, hi) ==
    /\ cs \in Seq(Choice)
    /\ \A i \in DOMAIN cs : lo <= Rank(want, cs[i]) /\ Rank(want, cs[i]) <= hi
    /\ \A i, j \in DOMAIN cs : i < j => Rank(want, cs[i]) <= Rank(want, cs[j])

\* What a class adds to the rank of its candidates.
ClassRank(want, residential) == IF residential = want.residential THEN 0 ELSE 4

LEMMA RankIs ==
    ASSUME NEW want, NEW v, NEW residential
    PROVE  /\ Choose(v, residential).via = v
           /\ Rank(want, Choose(v, residential)) =
                 ClassRank(want, residential) + Level(want.premium, v)
  <1>1. Choose(v, residential).via = v /\ Choose(v, residential).residential = residential
    BY DEF Choose
  <1> DEFINE c == Choose(v, residential)
  <1>2. Rank(want, c) = (IF residential = want.residential THEN 0 ELSE 4)
            + (IF want.premium /\ v \notin Premium THEN 2 ELSE 0)
            + (IF v \in Templates THEN 1 ELSE 0)
    BY <1>1, Zenon DEF Rank, IsPremium, IsTemplate
  <1> HIDE DEF c
  <1>3. Rank(want, c) = ClassRank(want, residential) + Level(want.premium, v)
    BY <1>2 DEF ClassRank, Level
  <1>4. QED
    BY <1>1, <1>3 DEF c

LEMMA RankNat ==
    ASSUME NEW want, NEW c
    PROVE  Rank(want, c) \in 0 .. 7
  BY DEF Rank

LEMMA ClassRankIs ==
    ASSUME NEW want, NEW residential
    PROVE  ClassRank(want, residential) \in {0, 4}
  BY DEF ClassRank

LEMMA EachOrdered ==
    ASSUME NEW want, NEW vs, Climbs(want.premium, vs, 0, 3),
           NEW residential \in BOOLEAN, NEW cs, cs = ChooseEach(vs, residential),
           NEW base, base = ClassRank(want, residential)
    PROVE  /\ Ordered(want, cs, base, base + 3)
           /\ \A v : Has(vs, v) => Has(cs, Choose(v, residential))
  <1>1. PICK n \in Nat : n = Len(vs)
    BY DEF Climbs
  <1>2. vs \in Seq(Via) /\ DOMAIN vs = 1 .. n
    BY <1>1 DEF Climbs
  <1>3. cs = [i \in 1 .. n |-> Choose(vs[i], residential)]
    BY <1>2 DEF ChooseEach
  <1>4. ASSUME NEW v \in Via
        PROVE  Choose(v, residential) \in Choice
    BY <1>4 DEF Choose, Choice, Via
  <1>5. cs \in Seq(Choice) /\ DOMAIN cs = 1 .. n
    BY <1>2, <1>3, <1>4
  <1>6. base \in Nat
    BY ClassRankIs
  <1>7. ASSUME NEW i \in 1 .. n
        PROVE  /\ Rank(want, cs[i]) = base + Level(want.premium, vs[i])
               /\ Level(want.premium, vs[i]) \in 0 .. 3
    BY <1>3, RankIs, LevelIs
  <1>8. \A i \in 1 .. n : base <= Rank(want, cs[i]) /\ Rank(want, cs[i]) <= base + 3
    BY <1>6, <1>7
  <1>9. \A i, j \in 1 .. n : i < j => Level(want.premium, vs[i]) <= Level(want.premium, vs[j])
    BY <1>2 DEF Climbs
  <1>10. \A i, j \in 1 .. n : i < j => Rank(want, cs[i]) <= Rank(want, cs[j])
    BY <1>6, <1>7, <1>9
  <1>11. Ordered(want, cs, base, base + 3)
    BY <1>5, <1>8, <1>10 DEF Ordered
  <1>12. \A v : Has(vs, v) => Has(cs, Choose(v, residential))
    BY <1>2, <1>3, <1>5 DEF Has
  <1>13. QED
    BY <1>11, <1>12

\* The class asked for, then the other one.
LEMMA OrderedOn ==
    ASSUME NEW want, NEW a, NEW b, Ordered(want, a, 0, 3), Ordered(want, b, 4, 7)
    PROVE  Ordered(want, a \o b, 0, 7)
  <1>1. PICK m \in Nat, n \in Nat : m = Len(a) /\ n = Len(b)
    BY DEF Ordered
  <1>2. a \in Seq(Choice) /\ b \in Seq(Choice) /\ DOMAIN a = 1 .. m /\ DOMAIN b = 1 .. n
    BY <1>1 DEF Ordered
  <1> DEFINE c == a \o b
  <1>3. /\ c \in Seq(Choice) /\ DOMAIN c = 1 .. m + n
        /\ \A i \in 1 .. m + n : c[i] = IF i <= m THEN a[i] ELSE b[i - m]
    BY <1>1, <1>2, ConcatProperties
  <1> HIDE DEF c
  <1>4. ASSUME NEW i \in 1 .. m
        PROVE  Rank(want, a[i]) \in 0 .. 3
    BY <1>2, RankNat DEF Ordered
  <1>5. ASSUME NEW i \in 1 .. n
        PROVE  Rank(want, b[i]) \in 4 .. 7
    BY <1>2, RankNat DEF Ordered
  <1>6. ASSUME NEW i \in 1 .. m + n
        PROVE  0 <= Rank(want, c[i]) /\ Rank(want, c[i]) <= 7
    BY RankNat
  <1>7. ASSUME NEW i \in 1 .. m + n, NEW j \in 1 .. m + n, i < j
        PROVE  Rank(want, c[i]) <= Rank(want, c[j])
    <2>1. CASE i <= m /\ j <= m
      <3>1. i \in 1 .. m /\ j \in 1 .. m
        BY <2>1
      <3>2. Rank(want, a[i]) <= Rank(want, a[j])
        BY <1>2, <1>7, <3>1 DEF Ordered
      <3>3. c[i] = a[i] /\ c[j] = a[j]
        BY <1>3, <2>1
      <3>4. QED
        BY <3>2, <3>3
    <2>2. CASE i <= m /\ ~ (j <= m)
      <3>1. i \in 1 .. m /\ j - m \in 1 .. n
        BY <2>2
      <3>2. c[i] = a[i] /\ c[j] = b[j - m]
        BY <1>3, <2>2
      <3>3. QED
        BY <1>4, <1>5, <3>1, <3>2
    <2>3. CASE ~ (i <= m)
      <3>1. i - m \in 1 .. n /\ j - m \in 1 .. n /\ i - m < j - m
        BY <1>7, <2>3
      <3>2. c[i] = b[i - m] /\ c[j] = b[j - m]
        BY <1>3, <1>7, <2>3
      <3>3. Rank(want, b[i - m]) <= Rank(want, b[j - m])
        BY <1>2, <3>1 DEF Ordered
      <3>4. QED
        BY <3>2, <3>3
    <2>4. QED
      BY <2>1, <2>2, <2>3
  <1>8. Ordered(want, c, 0, 7)
    BY <1>3, <1>6, <1>7 DEF Ordered
  <1>9. QED
    BY <1>8 DEF c

\* Nodes counted from the first choice on.
NodesTo(cs, i) == {j \in 1 .. i : IsNode(cs[j])}

LEMMA NthRises ==
    ASSUME NEW cs, NEW i \in Nat, NEW j \in Nat
    PROVE  /\ Cardinality(NodesTo(cs, i)) \in Nat
           /\ i < j /\ IsNode(cs[j]) =>
                 Cardinality(NodesTo(cs, i)) < Cardinality(NodesTo(cs, j))
  <1>1. \A k \in Nat : IsFiniteSet(NodesTo(cs, k)) /\ Cardinality(NodesTo(cs, k)) \in Nat
    <2>1. SUFFICES ASSUME NEW k \in Nat
                   PROVE  IsFiniteSet(NodesTo(cs, k)) /\ Cardinality(NodesTo(cs, k)) \in Nat
      OBVIOUS
    <2>2. IsFiniteSet(1 .. k)
      BY FS_Interval
    <2>3. NodesTo(cs, k) \in SUBSET (1 .. k)
      BY DEF NodesTo
    <2>4. IsFiniteSet(NodesTo(cs, k))
      BY <2>2, <2>3, FS_Subset
    <2>5. QED
      BY <2>4, FS_CardinalityType
  <1>2. ASSUME i < j, IsNode(cs[j])
        PROVE  Cardinality(NodesTo(cs, i)) < Cardinality(NodesTo(cs, j))
    <2>1. NodesTo(cs, i) \in SUBSET NodesTo(cs, j)
      BY <1>2 DEF NodesTo
    <2>2. j \in NodesTo(cs, j) /\ j \notin NodesTo(cs, i)
      BY <1>2 DEF NodesTo
    <2>3. /\ Cardinality(NodesTo(cs, i)) <= Cardinality(NodesTo(cs, j))
          /\ Cardinality(NodesTo(cs, i)) # Cardinality(NodesTo(cs, j))
      BY <1>1, <2>1, <2>2, FS_Subset
    <2>4. QED
      BY <1>1, <2>3
  <1>3. QED
    BY <1>1, <1>2


\* The choices proxyAttemptRoutes keeps, as places in the list.
Stays(premium, cs, fallback) ==
    {i \in DOMAIN cs :
        IF IsNode(cs[i]) THEN Cardinality(NodesTo(cs, i)) <= MaxAttempts
        ELSE \/ ~ \E j \in DOMAIN cs : IsNode(cs[j])
             \/ fallback
             \/ premium /\ IsPremium(cs[i])}

\* The places of the routes rise, and are those of Stays.
LEMMA RoutesPlaces ==
    ASSUME NEW premium, NEW fallback, NEW cs \in Seq(Choice),
           NEW routes, routes = ProxyAttemptRoutes(premium, cs, fallback)
    PROVE  \E place \in Seq(Nat) :
              /\ DOMAIN routes = DOMAIN place /\ Rising(place)
              /\ \A k \in DOMAIN place : /\ place[k] \in Stays(premium, cs, fallback)
                                         /\ routes[k] = cs[place[k]]
              /\ \A i \in Stays(premium, cs, fallback) : Has(place, i)
              /\ routes \in Seq(Choice)
  <1>1. PICK n \in Nat : n = Len(cs)
    OBVIOUS
  <1>2. DOMAIN cs = 1 .. n
    BY <1>1
  <1> DEFINE all   == [i \in DOMAIN cs |-> i]
             K     == Stays(premium, cs, fallback)
             place == Keep(all, K)
  <1>3. routes = [k \in DOMAIN place |-> cs[place[k]]]
    <2> DEFINE Kept(i) == IF IsNode(cs[i])
                          THEN Cardinality({j \in 1 .. i : IsNode(cs[j])}) <= MaxAttempts
                          ELSE ~ (\E j \in DOMAIN cs : IsNode(cs[j])) \/ fallback
                                 \/ (premium /\ IsPremium(cs[i]))
               places == Keep(all, {i \in DOMAIN cs : Kept(i)})
    <2>1. routes = [k \in DOMAIN places |-> cs[places[k]]]
      BY Zenon DEF ProxyAttemptRoutes
    <2>2. {i \in DOMAIN cs : Kept(i)} = K
      BY Zenon DEF Stays, NodesTo
    <2> HIDE DEF Kept, K
    <2>3. QED
      BY <2>1, <2>2, Zenon
  <1>4. all \in Seq(1 .. n) /\ all \in Seq(Nat) /\ Len(all) = n
        /\ (\A i \in 1 .. n : all[i] = i) /\ Rising(all)
    BY <1>2 DEF Rising
  <1> HIDE DEF all
  <1>5. place \in Seq(1 .. n) /\ place \in Seq(Nat) /\ Selects(place, all, K, n)
    BY <1>4, KeepSelects
  <1>6. Rising(place)
    BY <1>4, KeepRises
  <1> HIDE DEF place, K
  <1>7. PICK m \in Nat : m = Len(place)
    BY <1>5
  <1>8. DOMAIN place = 1 .. m
    BY <1>5, <1>7
  <1>9. \A k \in 1 .. m : place[k] \in K /\ place[k] \in 1 .. n
    BY <1>5, <1>7, <1>8 DEF Selects
  <1>10. ASSUME NEW i \in K
         PROVE  Has(place, i)
    <2>1. i \in 1 .. n
      BY <1>2, <1>10 DEF K, Stays
    <2>2. all[i] \in K
      BY <1>4, <2>1
    <2>3. PICK j \in 1 .. m : place[j] = all[i]
      BY <1>5, <1>7, <2>1, <2>2 DEF Selects
    <2>4. QED
      BY <1>4, <1>8, <2>1, <2>3 DEF Has
  <1>11. routes \in Seq(Choice) /\ DOMAIN routes = 1 .. m
    <2>1. \A k \in 1 .. m : cs[place[k]] \in Choice
      BY <1>1, <1>9
    <2>2. QED
      BY <1>3, <1>8, <2>1
  <1>12. \A k \in DOMAIN place : place[k] \in K /\ routes[k] = cs[place[k]]
    BY <1>3, <1>8, <1>9
  <1>13. QED
    BY <1>5, <1>6, <1>8, <1>10, <1>11, <1>12 DEF K

\* max_attempts bounds the attempts that use a node.
LEMMA FewNodes ==
    ASSUME NEW cs \in Seq(Choice), NEW routes, NEW place \in Seq(Nat), Rising(place),
           NEW premium, NEW fallback, DOMAIN routes = DOMAIN place,
           \A k \in DOMAIN place : /\ place[k] \in Stays(premium, cs, fallback)
                                   /\ routes[k] = cs[place[k]]
    PROVE  Cardinality({k \in DOMAIN routes : IsNode(routes[k])}) <= MaxAttempts
  <1> DEFINE Q == {k \in DOMAIN routes : IsNode(routes[k])}
             f == [k \in Q |-> Cardinality(NodesTo(cs, place[k]))]
  <1>1. ASSUME NEW k \in Q
        PROVE  /\ place[k] \in Nat /\ IsNode(cs[place[k]])
               /\ Cardinality(NodesTo(cs, place[k])) <= MaxAttempts
    <2>1. place[k] \in Nat /\ IsNode(cs[place[k]]) /\ place[k] \in Stays(premium, cs, fallback)
      BY <1>1
    <2>2. QED
      BY <2>1, Zenon DEF Stays
  <1>2. f \in [Q -> 1 .. MaxAttempts]
    <2>1. ASSUME NEW k \in Q
          PROVE  Cardinality(NodesTo(cs, place[k])) \in 1 .. MaxAttempts
      <3>1. Cardinality(NodesTo(cs, place[k])) \in Nat
        BY <1>1, NthRises
      <3>2. Cardinality(NodesTo(cs, 0)) \in Nat
        BY NthRises
      <3>3. 0 < place[k]
        <4>1. place[k] \in DOMAIN cs
          BY DEF Stays
        <4>2. QED
          BY <1>1, <4>1
      <3>4. Cardinality(NodesTo(cs, 0)) < Cardinality(NodesTo(cs, place[k]))
        BY <1>1, <3>3, NthRises
      <3>5. QED
        BY <1>1, <3>1, <3>2, <3>4, AttemptsAssumption
    <2>2. QED
      BY <2>1
  <1>3. ASSUME NEW a \in Q, NEW b \in Q, f[a] = f[b]
        PROVE  a = b
    <2>1. a \in Nat /\ b \in Nat /\ a \in DOMAIN place /\ b \in DOMAIN place
      OBVIOUS
    <2>2. f[a] = Cardinality(NodesTo(cs, place[a])) /\ f[b] = Cardinality(NodesTo(cs, place[b]))
      OBVIOUS
    <2>3. ~ (place[a] < place[b]) /\ ~ (place[b] < place[a])
      BY <1>1, <1>3, <2>2, NthRises, SMTT(30)
    <2>4. ~ (a < b) /\ ~ (b < a)
      BY <2>1, <2>3 DEF Rising
    <2>5. QED
      BY <2>1, <2>4
  <1>4. f \in Injection(Q, 1 .. MaxAttempts)
    BY <1>2, <1>3, Fun_IsInj
  <1>5. IsFiniteSet(1 .. MaxAttempts) /\ Cardinality(1 .. MaxAttempts) = MaxAttempts
    BY FS_Interval, AttemptsAssumption
  <1>6. QED
    BY <1>4, <1>5, FS_Injection


\* If there is a choice there is a route, and the first one is placed no later
\* than any node.
LEMMA FirstRoute ==
    ASSUME NEW want, NEW cs, Ordered(want, cs, 0, 7), NEW premium, NEW fallback,
           NEW place \in Seq(Nat), Rising(place),
           \A k \in DOMAIN place : place[k] \in Stays(premium, cs, fallback),
           \A i \in Stays(premium, cs, fallback) : Has(place, i)
    PROVE  /\ cs # <<>> => place # <<>>
           /\ \A i \in DOMAIN cs : IsNode(cs[i]) =>
                 place # <<>> /\ Rank(want, cs[place[1]]) <= Rank(want, cs[i])
  <1>1. PICK n \in Nat : n = Len(cs)
    BY DEF Ordered
  <1>2. cs \in Seq(Choice) /\ DOMAIN cs = 1 .. n
    BY <1>1 DEF Ordered
  <1>3. PICK m \in Nat : m = Len(place)
    OBVIOUS
  <1>4. DOMAIN place = 1 .. m
    BY <1>3
  <1>5. ASSUME NEW i \in Stays(premium, cs, fallback)
        PROVE  /\ place # <<>> /\ place[1] <= i /\ place[1] \in 1 .. n /\ i \in 1 .. n
    <2>1. PICK k \in 1 .. m : place[k] = i
      BY <1>4, <1>5 DEF Has
    <2>2. 1 \in 1 .. m /\ (k = 1 \/ 1 < k)
      BY <2>1
    <2>3. place[1] \in Nat /\ place[k] \in Nat
      BY <1>4, <2>1, <2>2
    <2>4. place[1] <= place[k]
      BY <1>4, <2>1, <2>2, <2>3 DEF Rising
    <2>5. place[1] \in DOMAIN cs /\ i \in DOMAIN cs
      BY <1>4, <2>2 DEF Stays
    <2>6. place # <<>>
      BY <1>4, <2>2
    <2>7. QED
      BY <1>2, <2>1, <2>4, <2>5, <2>6
  <1>6. ASSUME NEW j \in 1 .. n, IsNode(cs[j])
        PROVE  \E i \in Stays(premium, cs, fallback) : i <= j
    <2> DEFINE Q == {i \in 1 .. n : IsNode(cs[i])}
    <2>1. PICK i \in Q : \A k \in Q : i <= k
      <3>1. Q \subseteq Nat /\ Q # {}
        BY <1>6
      <3> HIDE DEF Q
      <3>2. QED
        BY <3>1, LeastOne
    <2>2. NodesTo(cs, i) = {i}
      <3>1. ASSUME NEW k \in NodesTo(cs, i)
            PROVE  k = i
        <4>1. k \in 1 .. i /\ IsNode(cs[k])
          BY DEF NodesTo
        <4>2. k \in Q
          BY <2>1, <4>1
        <4>3. i <= k
          BY <2>1, <4>2
        <4>4. QED
          BY <4>1, <4>3
      <3>2. i \in NodesTo(cs, i)
        BY <2>1 DEF NodesTo
      <3>3. QED
        BY <3>1, <3>2
    <2>3. Cardinality(NodesTo(cs, i)) = 1
      BY <2>2, FS_Singleton
    <2>4. Cardinality(NodesTo(cs, i)) <= MaxAttempts
      BY <2>3, AttemptsAssumption
    <2>5. i \in DOMAIN cs /\ IsNode(cs[i])
      BY <1>2, <2>1
    <2>6. i \in Stays(premium, cs, fallback)
      BY <2>4, <2>5, Zenon DEF Stays
    <2>7. i <= j
      BY <1>6, <2>1
    <2>8. QED
      BY <2>6, <2>7
  <1>7. ASSUME cs # <<>>
        PROVE  place # <<>>
    <2>1. CASE \E j \in 1 .. n : IsNode(cs[j])
      BY <1>5, <1>6, <2>1
    <2>2. CASE ~ \E j \in 1 .. n : IsNode(cs[j])
      <3>1. 1 \in 1 .. n
        <4>1. n # 0
          BY <1>1, <1>2, <1>7, EmptySeq
        <4>2. QED
          BY <4>1
      <3>2. 1 \in Stays(premium, cs, fallback)
        BY <1>2, <2>2, <3>1 DEF Stays
      <3>3. QED
        BY <1>5, <3>2
    <2>3. QED
      BY <2>1, <2>2
  <1>8. ASSUME NEW j \in 1 .. n, IsNode(cs[j])
        PROVE  place # <<>> /\ Rank(want, cs[place[1]]) <= Rank(want, cs[j])
    <2>1. PICK i \in Stays(premium, cs, fallback) : i <= j
      BY <1>6, <1>8
    <2>2. place # <<>> /\ place[1] <= i /\ place[1] \in 1 .. n /\ i \in 1 .. n
      BY <1>5, <2>1
    <2>3. place[1] = j \/ place[1] < j
      BY <2>1, <2>2
    <2>4. Rank(want, cs[place[1]]) \in Nat
      BY RankNat, SMTT(30)
    <2>5. Rank(want, cs[place[1]]) <= Rank(want, cs[j])
      BY <1>2, <2>2, <2>3, <2>4, SMTT(30) DEF Ordered
    <2>6. QED
      BY <2>2, <2>5
  <1>9. QED
    BY <1>2, <1>7, <1>8

\* What proxyAttemptRoutes makes of choices in order.
LEMMA RoutesOK ==
    ASSUME NEW want, NEW cs, Ordered(want, cs, 0, 7), want.premium \in BOOLEAN,
           want.fallback \in BOOLEAN,
           NEW routes, routes = ProxyAttemptRoutes(want.premium, cs, want.fallback)
    PROVE  /\ routes \in Seq(Choice) /\ PlanOK(want, routes)
           /\ cs # <<>> => routes # <<>>
           /\ routes # <<>> => \E i \in DOMAIN cs : routes[1] = cs[i]
           /\ \A i \in DOMAIN cs : IsNode(cs[i]) =>
                 routes # <<>> /\ Rank(want, routes[1]) <= Rank(want, cs[i])
  <1> DEFINE stays == Stays(want.premium, cs, want.fallback)
  <1>1. cs \in Seq(Choice)
    BY DEF Ordered
  <1>2. PICK place \in Seq(Nat) :
              /\ DOMAIN routes = DOMAIN place /\ Rising(place)
              /\ \A k \in DOMAIN place : place[k] \in stays /\ routes[k] = cs[place[k]]
              /\ \A i \in stays : Has(place, i)
              /\ routes \in Seq(Choice)
    BY <1>1, RoutesPlaces
  <1>3. PICK m \in Nat : m = Len(place)
    OBVIOUS
  <1>4. DOMAIN place = 1 .. m /\ DOMAIN routes = 1 .. m
    BY <1>2, <1>3
  <1>5. place # <<>> <=> routes # <<>>
    <2>1. (place = <<>>) <=> m = 0
      BY <1>3, EmptySeq
    <2>2. (routes = <<>>) <=> m = 0
      BY <1>2, <1>4, EmptySeq
    <2>3. QED
      BY <2>1, <2>2
  <1>6. routes # <<>> => 1 \in 1 .. m
    <2>1. (routes = <<>>) <=> Len(routes) = 0
      BY <1>2, EmptySeq
    <2>2. Len(routes) = m
      BY <1>2, <1>4
    <2>3. QED
      BY <2>1, <2>2
  <1>7. \A k \in 1 .. m : place[k] \in DOMAIN cs /\ routes[k] = cs[place[k]]
    BY <1>2, <1>4 DEF Stays
  <1>8. /\ cs # <<>> => place # <<>>
        /\ \A i \in DOMAIN cs : IsNode(cs[i]) =>
              place # <<>> /\ Rank(want, cs[place[1]]) <= Rank(want, cs[i])
    BY <1>2, FirstRoute, Zenon
  <1>9. ASSUME NEW i \in 1 .. m, NEW j \in 1 .. m, i < j
        PROVE  /\ Rank(want, routes[i]) <= Rank(want, routes[j])
               /\ IsNode(routes[i]) /\ IsTemplate(routes[j]) =>
                     want.fallback \/ (want.premium /\ IsPremium(routes[j]))
    <2>1. place[i] < place[j]
      BY <1>2, <1>4, <1>9 DEF Rising
    <2>2. Rank(want, cs[place[i]]) <= Rank(want, cs[place[j]])
      BY <1>7, <2>1 DEF Ordered
    <2>3. ASSUME IsNode(routes[i]), IsTemplate(routes[j])
          PROVE  want.fallback \/ (want.premium /\ IsPremium(routes[j]))
      <3>1. ~IsNode(cs[place[j]])
        BY <1>7, <2>3, TemplatesAssumption DEF IsNode, IsTemplate
      <3>2. \E k \in DOMAIN cs : IsNode(cs[k])
        BY <1>7, <2>3
      <3>3. place[j] \in stays /\ routes[j] = cs[place[j]]
        BY <1>2, <1>4
      <3>4. QED
        BY <3>1, <3>2, <3>3, Zenon DEF Stays
    <2>4. QED
      BY <1>7, <2>2, <2>3
  <1>10. Cardinality({k \in DOMAIN routes : IsNode(routes[k])}) <= MaxAttempts
    BY <1>1, <1>2, FewNodes, SMTT(30)
  <1>11. PlanOK(want, routes)
    BY <1>4, <1>9, <1>10, Zenon DEF PlanOK
  <1>12. \A i \in DOMAIN cs : IsNode(cs[i]) =>
             routes # <<>> /\ Rank(want, routes[1]) <= Rank(want, cs[i])
    BY <1>5, <1>6, <1>7, <1>8
  <1>13. QED
    BY <1>2, <1>5, <1>6, <1>7, <1>8, <1>11, <1>12


-----------------------------------------------------------------------------
(* Selections and plans                                                    *)

AnyRegion(q) == q.want.egress # "region"

\* The nodes of a class that suit the request and have stayed alive.
Owed(q, residential) == q.steady \cap Matching(AnyRegion(q), residential)

\* Available, of a request.
AvailableTo(q) ==
    q.steady \cap (Matching(AnyRegion(q), q.want.residential) \cup
                   (IF q.want.residential THEN {} ELSE Matching(AnyRegion(q), TRUE)))

\* The pass over the ordinary class has left all it owes among the choices.
SecondPass(q) ==
    /\ ~q.want.residential /\ q.residential
    /\ Ordered(q.want, q.choices, 0, 3)
    /\ \A n \in Owed(q, FALSE) : Has(q.choices, Choose(n, FALSE))

SelectsWell(q, up) ==
    q.stage \in Selecting =>
        /\ q.steady \subseteq up
        /\ (q.stage = "any") = AnyRegion(q)
        /\ (q.residential = q.want.residential /\ q.choices = <<>>) \/ SecondPass(q)
        /\ q.stage \in {"offline", "templates"} =>
              /\ q.entries \in Seq(Nodes)
              /\ \A n \in Owed(q, q.residential) : Has(q.entries, n)
        /\ q.stage = "templates" => q.offline \in Seq(Nodes)

Attempted == Choice \cup {Choose(Direct, FALSE)}

TriesWell(q) ==
    q.stage \in Trying =>
        /\ q.tried \in Seq(Attempted) /\ q.todo \in Seq(Attempted) /\ q.todo # <<>>
        /\ PlanOK(q.want, q.tried \o q.todo)
        /\ q.tried = <<>> =>
              \A n \in AvailableTo(q) :
                  Rank(q.want, Head(q.todo)) <= Rank(q.want, Choose(n, n \in Residential))

RefusesWell(q) == q.stage = "refused" => AvailableTo(q) = {}

Placed(q, up) ==
    /\ Shape(q) /\ q.want \in Wants /\ q.residential \in BOOLEAN
    /\ SelectsWell(q, up) /\ TriesWell(q) /\ RefusesWell(q)

\* The inductive invariant.
PlanInv ==
    /\ req = [r \in Requests |-> req[r]]
    /\ \A r \in Requests : Placed(req[r], alive)

LEMMA WantFields ==
    ASSUME NEW want \in Wants
    PROVE  /\ want.residential \in BOOLEAN /\ want.premium \in BOOLEAN
           /\ want.fallback \in BOOLEAN /\ want.egress \in {"direct", "any", "region"}
  BY WantsAssumption

LEMMA Stages ==
    /\ \A stage \in Selecting : stage \notin Trying /\ stage # "refused"
    /\ \A stage \in Trying : stage \notin Selecting /\ stage # "refused"
    /\ "trying" \in Trying /\ "refused" \notin Trying /\ "refused" \notin Selecting
    /\ "answered" \notin Trying /\ "answered" \notin Selecting /\ "answered" # "refused"
    /\ "failed" \notin Trying /\ "failed" \notin Selecting /\ "failed" # "refused"
  BY DEF Selecting, Trying

LEMMA EndedFields ==
    ASSUME NEW stage, NEW want, NEW steady
    PROVE  LET s == Ended(stage, want, steady)
           IN /\ Shape(s) /\ s.stage = stage /\ s.want = want
              /\ s.residential = want.residential /\ s.choices = <<>>
              /\ s.tried = <<>> /\ s.todo = <<>> /\ s.steady = steady
  BY DEF Shape, Ended

LEMMA EndPlaced ==
    ASSUME NEW up, NEW want \in Wants, NEW steady, NEW stage \in {"answered", "failed"}
    PROVE  Placed(Ended(stage, want, steady), up)
  <1> DEFINE s == Ended(stage, want, steady)
  <1>1. /\ Shape(s) /\ s.stage = stage /\ s.want = want
        /\ s.residential = want.residential
    BY EndedFields
  <1> HIDE DEF s
  <1>2. s.stage \notin Selecting /\ s.stage \notin Trying /\ s.stage # "refused"
    BY <1>1, Stages
  <1>3. Placed(s, up)
    BY <1>1, <1>2, WantFields DEF Placed, SelectsWell, TriesWell, RefusesWell
  <1>4. QED
    BY <1>3 DEF s

\* A step of one request that leaves the nodes alone.
LEMMA OnePlaced ==
    ASSUME PlanInv, NEW r \in Requests, NEW new, Become(r, new), UNCHANGED alive,
           Placed(new, alive)
    PROVE  PlanInv'
  <1>1. req' = [q \in Requests |-> IF q = r THEN new ELSE req[q]]
    BY DEF Become, PlanInv
  <1>2. req' = [q \in Requests |-> req'[q]]
    BY <1>1
  <1>3. ASSUME NEW q \in Requests
        PROVE  Placed(req'[q], alive')
    <2>1. req'[q] = new \/ req'[q] = req[q]
      BY <1>1
    <2>2. Placed(req[q], alive)
      BY DEF PlanInv
    <2>3. alive' = alive
      OBVIOUS
    <2>4. QED
      BY <2>1, <2>2, <2>3, Zenon
  <1>4. QED
    BY <1>2, <1>3 DEF PlanInv

LEMMA EndPlanned ==
    ASSUME PlanInv, NEW r \in Requests, NEW stage \in {"answered", "failed"},
           End(r, stage), UNCHANGED alive
    PROVE  PlanInv'
  <1>1. req[r].want \in Wants
    BY DEF PlanInv, Placed
  <1>2. Placed(Ended(stage, req[r].want, {}), alive)
    BY <1>1, EndPlaced
  <1>3. QED
    BY <1>2, OnePlaced, Zenon DEF End

\* A step between the attempts that keeps the plan.
LEMMA SameTrying ==
    ASSUME NEW q, NEW up, Placed(q, up), NEW s, Shape(s),
           q.stage \in Trying, s.stage \in Trying, s.want = q.want,
           s.residential = q.residential, s.tried = q.tried, s.todo = q.todo,
           s.steady = q.steady
    PROVE  Placed(s, up)
  <1>1. s.stage \notin Selecting /\ s.stage # "refused"
    BY Stages
  <1>2. AvailableTo(s) = AvailableTo(q)
    BY DEF AvailableTo, AnyRegion
  <1>3. TriesWell(s)
    BY <1>2 DEF Placed, TriesWell
  <1>4. QED
    BY <1>1, <1>3 DEF Placed, SelectsWell, RefusesWell

\* Outside its selection a request does not look at who is alive.
LEMMA OtherAlive ==
    ASSUME NEW q, NEW up, Placed(q, up), q.stage \notin Selecting, NEW new
    PROVE  Placed(q, new)
  BY DEF Placed, SelectsWell

\* During it, nodes that go are nodes that did not stay.
LEMMA FewerSteady ==
    ASSUME NEW q, NEW up, Placed(q, up), q.stage \in Selecting, NEW new
    PROVE  Placed([q EXCEPT !.steady = q.steady \cap new], new)
  <1>1. Shape(q)
    BY DEF Placed
  <1> DEFINE fewer == q.steady \cap new
             s     == [q EXCEPT !.steady = fewer]
  <1>2. /\ Shape(s) /\ s.steady = fewer /\ s.stage = q.stage /\ s.want = q.want
        /\ s.residential = q.residential /\ s.entries = q.entries
        /\ s.offline = q.offline /\ s.choices = q.choices
    <2> HIDE DEF fewer
    <2>1. QED
      BY <1>1, SetSteady
  <1>3. fewer \subseteq q.steady /\ fewer \subseteq new
    OBVIOUS
  <1> HIDE DEF fewer, s
  <1>4. s.stage \notin Trying /\ s.stage # "refused"
    BY <1>2, Stages
  <1>5. AnyRegion(s) = AnyRegion(q)
    BY <1>2 DEF AnyRegion
  <1>6. \A residential : Owed(s, residential) \subseteq Owed(q, residential)
    BY <1>2, <1>3, <1>5 DEF Owed
  <1>7. SelectsWell(q, up)
    BY DEF Placed
  <1>8. SecondPass(q) => SecondPass(s)
    BY <1>2, <1>6 DEF SecondPass
  <1>9. s.steady \subseteq new
    BY <1>2, <1>3
  <1>10. s.stage \in {"offline", "templates"} =>
             \A n \in Owed(s, s.residential) : Has(s.entries, n)
    BY <1>2, <1>6, <1>7 DEF SelectsWell
  <1>11. SelectsWell(s, new)
    BY <1>2, <1>5, <1>7, <1>8, <1>9, <1>10, Zenon DEF SelectsWell
  <1>12. Placed(s, new)
    BY <1>2, <1>4, <1>11 DEF Placed, TriesWell, RefusesWell
  <1>13. QED
    BY <1>12 DEF s, fewer


-----------------------------------------------------------------------------
(* The end of a pass                                                       *)

LEMMA ClassOf ==
    ASSUME NEW any, NEW residential \in BOOLEAN, NEW n \in Matching(any, residential)
    PROVE  Choose(n, n \in Residential) = Choose(n, residential)
  <1>1. (n \in Residential) = residential
    BY DEF Matching
  <1>2. QED
    BY <1>1, Zenon

LEMMA OrderedWider ==
    ASSUME NEW want, NEW cs, NEW lo \in {0, 4}, Ordered(want, cs, lo, lo + 3)
    PROVE  Ordered(want, cs, 0, 7)
  BY RankNat DEF Ordered

LEMMA EachFirst ==
    ASSUME NEW want, NEW vs, Climbs(want.premium, vs, 0, 3),
           NEW residential \in BOOLEAN, residential = want.residential,
           NEW cs, cs = ChooseEach(vs, residential)
    PROVE  /\ Ordered(want, cs, 0, 3)
           /\ \A v : Has(vs, v) => Has(cs, Choose(v, residential))
  <1>1. PICK base : base = ClassRank(want, residential)
    OBVIOUS
  <1>2. base = 0
    BY <1>1 DEF ClassRank
  <1>3. /\ Ordered(want, cs, base, base + 3)
        /\ \A v : Has(vs, v) => Has(cs, Choose(v, residential))
    BY <1>1, EachOrdered
  <1>4. base + 3 = 3
    BY <1>2
  <1>5. QED
    BY <1>2, <1>3, <1>4, Zenon

LEMMA EachSecond ==
    ASSUME NEW want, NEW vs, Climbs(want.premium, vs, 0, 3),
           NEW residential \in BOOLEAN, residential # want.residential,
           NEW cs, cs = ChooseEach(vs, residential)
    PROVE  /\ Ordered(want, cs, 4, 7)
           /\ \A v : Has(vs, v) => Has(cs, Choose(v, residential))
  <1>1. PICK base : base = ClassRank(want, residential)
    OBVIOUS
  <1>2. base = 4
    BY <1>1 DEF ClassRank
  <1>3. /\ Ordered(want, cs, base, base + 3)
        /\ \A v : Has(vs, v) => Has(cs, Choose(v, residential))
    BY <1>1, EachOrdered
  <1>4. base + 3 = 7
    BY <1>2
  <1>5. QED
    BY <1>2, <1>3, <1>4, Zenon

LEMMA SameAvailable ==
    ASSUME NEW q, NEW s, s.want = q.want, s.steady = q.steady
    PROVE  AvailableTo(s) = AvailableTo(q)
  BY DEF AvailableTo, AnyRegion

\* Node n of AvailableTo is among choices, or of the class not yet asked for.
Gathered(q, choices, n) ==
    \/ Has(choices, Choose(n, n \in Residential))
    \/ /\ ~q.residential /\ Ordered(q.want, choices, 0, 3)
       /\ Rank(q.want, Choose(n, n \in Residential)) >= 4

\* What a request has gathered when a pass ends.
PassDone(q, choices) ==
    /\ Ordered(q.want, choices, 0, 7)
    /\ \A n \in AvailableTo(q) : Gathered(q, choices, n)
    /\ ~q.residential =>
          /\ Ordered(q.want, choices, 0, 3)
          /\ \A n \in Owed(q, FALSE) : Has(choices, Choose(n, FALSE))

LEMMA FirstPassDone ==
    ASSUME NEW q, q.want \in Wants, NEW vs, Climbs(q.want.premium, vs, 0, 3),
           \A n \in Owed(q, q.residential) : Has(vs, n),
           q.residential \in BOOLEAN, q.residential = q.want.residential,
           NEW choices, choices = ChooseEach(vs, q.residential)
    PROVE  PassDone(q, choices)
  <1> DEFINE mine == q.residential
  <1>1. /\ Ordered(q.want, choices, 0, 3)
        /\ \A v : Has(vs, v) => Has(choices, Choose(v, mine))
    BY EachFirst
  <1>2. Ordered(q.want, choices, 0, 7)
    BY <1>1, OrderedWider
  <1>3. ASSUME NEW n \in AvailableTo(q)
        PROVE  Gathered(q, choices, n)
    <2>1. CASE n \in Matching(AnyRegion(q), mine)
      <3>1. n \in Owed(q, mine)
        BY <1>3, <2>1 DEF AvailableTo, Owed
      <3>2. Has(choices, Choose(n, mine))
        BY <3>1, <1>1
      <3>3. Choose(n, n \in Residential) = Choose(n, mine)
        BY <2>1, ClassOf
      <3>4. QED
        BY <3>2, <3>3 DEF Gathered
    <2>2. CASE n \notin Matching(AnyRegion(q), mine)
      <3>1. ~mine /\ n \in Matching(AnyRegion(q), TRUE)
        BY <1>3, <2>2 DEF AvailableTo
      <3>2. PICK other \in BOOLEAN : other = TRUE
        OBVIOUS
      <3>3. n \in Matching(AnyRegion(q), other)
        BY <3>1, <3>2, Zenon
      <3>4. Choose(n, n \in Residential) = Choose(n, other)
        BY <3>3, ClassOf
      <3>5. ClassRank(q.want, other) = 4
        BY <3>1, <3>2 DEF ClassRank
      <3>6. Rank(q.want, Choose(n, other)) >= 4
        BY <3>5, RankIs, LevelIs
      <3>7. QED
        BY <1>1, <3>1, <3>4, <3>6 DEF Gathered
    <2>3. QED
      BY <2>1, <2>2
  <1>4. ~mine => \A n \in Owed(q, FALSE) : Has(choices, Choose(n, FALSE))
    BY <1>1
  <1>5. QED
    BY <1>1, <1>2, <1>3, <1>4 DEF PassDone

LEMMA SecondPassDone ==
    ASSUME NEW q, q.want \in Wants, NEW vs, Climbs(q.want.premium, vs, 0, 3),
           \A n \in Owed(q, q.residential) : Has(vs, n),
           q.residential \in BOOLEAN, SecondPass(q),
           NEW group, group = ChooseEach(vs, q.residential),
           NEW choices, choices = q.choices \o group
    PROVE  PassDone(q, choices)
  <1>1. q.residential = TRUE /\ q.want.residential = FALSE
    BY WantFields DEF SecondPass
  <1>2. q.residential # q.want.residential
    BY <1>1
  <1>3. /\ Ordered(q.want, group, 4, 7)
        /\ \A v : Has(vs, v) => Has(group, Choose(v, q.residential))
    BY <1>2, EachSecond
  <1>4. Ordered(q.want, group, 4, 7) /\ Ordered(q.want, q.choices, 0, 3)
    BY <1>3 DEF SecondPass
  <1>5. Ordered(q.want, choices, 0, 7)
    BY <1>4, OrderedOn
  <1>6. \A c : Has(q.choices, c) \/ Has(group, c) <=> Has(choices, c)
    <2>1. q.choices \in Seq(Choice) /\ group \in Seq(Choice)
      BY <1>4 DEF Ordered
    <2>2. QED
      BY <2>1, Join
  <1>7. ASSUME NEW n \in AvailableTo(q)
        PROVE  Gathered(q, choices, n)
    <2>1. CASE n \in Matching(AnyRegion(q), FALSE)
      <3>1. n \in Owed(q, FALSE)
        BY <1>7, <2>1 DEF AvailableTo, Owed
      <3>2. Has(choices, Choose(n, FALSE))
        BY <3>1, <1>6 DEF SecondPass
      <3>3. Choose(n, n \in Residential) = Choose(n, FALSE)
        BY <2>1, ClassOf
      <3>4. QED
        BY <3>2, <3>3 DEF Gathered
    <2>2. CASE n \notin Matching(AnyRegion(q), FALSE)
      <3>1. n \in Matching(AnyRegion(q), TRUE)
        BY <1>1, <1>7, <2>2 DEF AvailableTo
      <3>2. n \in Matching(AnyRegion(q), q.residential)
        BY <1>1, <3>1, Zenon
      <3>3. n \in Owed(q, q.residential)
        BY <1>7, <3>2 DEF AvailableTo, Owed
      <3>4. Has(choices, Choose(n, q.residential))
        BY <1>3, <1>6, <3>3
      <3>5. Choose(n, n \in Residential) = Choose(n, q.residential)
        BY <3>2, ClassOf
      <3>6. QED
        BY <3>4, <3>5 DEF Gathered
    <2>3. QED
      BY <2>1, <2>2
  <1>8. QED
    BY <1>1, <1>5, <1>7 DEF PassDone

\* The end of either pass.
LEMMA PassEnds ==
    ASSUME NEW q, NEW up, Placed(q, up), q.stage \in Selecting,
           NEW vs, Climbs(q.want.premium, vs, 0, 3),
           \A n \in Owed(q, q.residential) : Has(vs, n),
           NEW choices, choices = q.choices \o ChooseEach(vs, q.residential)
    PROVE  PassDone(q, choices)
  <1> DEFINE group == ChooseEach(vs, q.residential)
  <1>1. q.want \in Wants /\ q.residential \in BOOLEAN
    BY DEF Placed
  <1>2. CASE SecondPass(q)
    BY <1>1, <1>2, SecondPassDone
  <1>3. CASE q.residential = q.want.residential /\ q.choices = <<>>
    <2>1. group \in Seq(Choice)
      <3>1. Ordered(q.want, group, 0, 3)
        BY <1>1, <1>3, EachFirst
      <3>2. QED
        BY <3>1 DEF Ordered
    <2>2. choices = group
      <3> HIDE DEF group
      <3>1. <<>> \o group = group
        BY <2>1
      <3>2. QED
        BY <1>3, <3>1 DEF group
    <2>3. QED
      BY <1>1, <1>3, <2>2, FirstPassDone
  <1>4. QED
    BY <1>2, <1>3 DEF Placed, SelectsWell

\* The pass over the ordinary class goes on to the residential one.
LEMMA PassGoesOn ==
    ASSUME NEW q, NEW up, Placed(q, up), q.stage \in Selecting, ~q.residential,
           NEW choices, PassDone(q, choices),
           NEW next, next = IF q.stage = "any" THEN "any" ELSE "entries",
           NEW s, Shape(s), s.stage = next, s.residential = TRUE, s.choices = choices,
           s.want = q.want, s.steady = q.steady
    PROVE  Placed(s, up)
  <1>1. ~q.want.residential
    BY DEF Placed, SelectsWell, SecondPass
  <1>2. AnyRegion(s) = AnyRegion(q)
    BY DEF AnyRegion
  <1>3. Owed(s, FALSE) = Owed(q, FALSE)
    BY <1>2 DEF Owed
  <1>4. SecondPass(s)
    BY <1>1, <1>3 DEF SecondPass, PassDone
  <1>5. s.stage \notin Trying /\ s.stage # "refused"
    BY DEF Trying
  <1>6. (s.stage = "any") = AnyRegion(s)
    BY <1>2 DEF Placed, SelectsWell
  <1>7. SelectsWell(s, up)
    BY <1>4, <1>6 DEF SelectsWell, Placed
  <1>8. QED
    BY <1>5, <1>7 DEF Placed, TriesWell, RefusesWell

\* A request that has found nothing is refused.
LEMMA PassRefuses ==
    ASSUME NEW q, NEW up, Placed(q, up), q.residential, PassDone(q, <<>>)
    PROVE  Placed(Ended("refused", q.want, q.steady), up)
  <1> DEFINE s == Ended("refused", q.want, q.steady)
  <1>1. /\ Shape(s) /\ s.stage = "refused" /\ s.want = q.want
        /\ s.residential = q.want.residential /\ s.steady = q.steady
    BY EndedFields
  <1> HIDE DEF s
  <1>2. AvailableTo(q) = {}
    <2>1. \A c : ~Has(<<>>, c)
      BY DEF Has
    <2>2. QED
      BY <2>1 DEF PassDone, Gathered
  <1>3. AvailableTo(s) = {}
    BY <1>1, <1>2, SameAvailable
  <1>4. s.stage \notin Selecting /\ s.stage \notin Trying
    BY <1>1, Stages
  <1>5. q.want \in Wants /\ q.want.residential \in BOOLEAN
    BY WantFields DEF Placed
  <1>6. Placed(s, up)
    BY <1>1, <1>3, <1>4, <1>5 DEF Placed, SelectsWell, TriesWell, RefusesWell
  <1>7. QED
    BY <1>6 DEF s

\* The attempts are laid out.
LEMMA PassTries ==
    ASSUME NEW q, NEW up, Placed(q, up), NEW choices, choices # <<>>,
           PassDone(q, choices),
           NEW routes,
           routes = ProxyAttemptRoutes(q.want.premium, choices, q.want.fallback),
           NEW s, Shape(s), s.stage = "trying", s.todo = routes, s.tried = <<>>,
           s.want = q.want, s.residential = q.want.residential, s.steady = q.steady
    PROVE  Placed(s, up)
  <1> DEFINE want == q.want
  <1>1. /\ want \in Wants /\ want.residential \in BOOLEAN
        /\ want.premium \in BOOLEAN /\ want.fallback \in BOOLEAN
    BY WantFields DEF Placed
  <1>2. Ordered(want, choices, 0, 7)
    BY DEF PassDone
  <1>3. /\ routes \in Seq(Choice) /\ PlanOK(want, routes) /\ routes # <<>>
        /\ \E i \in DOMAIN choices : routes[1] = choices[i]
        /\ \A i \in DOMAIN choices : IsNode(choices[i]) =>
               Rank(want, routes[1]) <= Rank(want, choices[i])
    BY <1>1, <1>2, RoutesOK
  <1>4. Head(s.todo) = routes[1]
    BY <1>3
  <1>5. ASSUME NEW n \in AvailableTo(q)
        PROVE  Rank(want, routes[1]) <= Rank(want, Choose(n, n \in Residential))
    <2> DEFINE c == Choose(n, n \in Residential)
    <2>1. Gathered(q, choices, n)
      BY <1>5 DEF PassDone
    <2>2. c.via = n /\ n \in Nodes
      <3>1. n \in Nodes
        BY <1>5, MatchingNodes DEF AvailableTo
      <3>2. QED
        BY <3>1 DEF Choose
    <2>3. CASE Has(choices, c)
      <3>1. PICK i \in DOMAIN choices : choices[i] = c
        BY <2>3 DEF Has
      <3>2. IsNode(choices[i])
        BY <2>2, <3>1 DEF IsNode
      <3>3. QED
        BY <1>3, <3>1, <3>2
    <2>4. CASE Ordered(want, choices, 0, 3) /\ Rank(want, c) >= 4
      <3>1. PICK i \in DOMAIN choices : routes[1] = choices[i]
        BY <1>3
      <3>2. Rank(want, routes[1]) <= 3
        BY <2>4, <3>1 DEF Ordered
      <3>3. Rank(want, routes[1]) \in 0 .. 7 /\ Rank(want, c) \in 0 .. 7
        BY RankNat
      <3> HIDE DEF c
      <3>4. Rank(want, routes[1]) <= Rank(want, c)
        BY <2>4, <3>2, <3>3
      <3>5. QED
        BY <3>4 DEF c
    <2>5. QED
      BY <2>1, <2>3, <2>4 DEF Gathered
  <1>6. AvailableTo(s) = AvailableTo(q)
    BY SameAvailable
  <1>7. routes \in Seq(Attempted) /\ s.tried \in Seq(Attempted)
    <2>1. Choice \subseteq Attempted
      BY DEF Attempted
    <2>2. QED
      BY <1>3, <2>1
  <1>8. s.tried \o s.todo = routes
    BY <1>3
  <1>9. TriesWell(s)
    <2>1. \A n \in AvailableTo(s) :
              Rank(s.want, Head(s.todo)) <= Rank(s.want, Choose(n, n \in Residential))
      BY <1>4, <1>5, <1>6, Zenon
    <2>2. PlanOK(s.want, s.tried \o s.todo)
      BY <1>3, <1>8, Zenon
    <2>3. s.todo \in Seq(Attempted) /\ s.todo # <<>>
      BY <1>3, <1>7
    <2>4. QED
      BY <1>7, <2>1, <2>2, <2>3, Zenon DEF TriesWell
  <1>10. s.stage \notin Selecting /\ s.stage # "refused"
    BY DEF Selecting
  <1>11. QED
    BY <1>1, <1>9, <1>10 DEF Placed, SelectsWell, RefusesWell

-----------------------------------------------------------------------------
(* The actions                                                             *)

LEMMA PlanInit == Init => PlanInv
  <1> SUFFICES ASSUME Init
               PROVE  PlanInv
    OBVIOUS
  <1>1. PICK want \in Wants : req = [r \in Requests |-> Ended("answered", want, {})]
    BY DEF Init
  <1>2. Placed(Ended("answered", want, {}), alive)
    BY EndPlaced
  <1>3. \A r \in Requests : req[r] = Ended("answered", want, {})
    BY <1>1
  <1>4. req = [r \in Requests |-> req[r]]
    BY <1>1
  <1>5. QED
    BY <1>2, <1>3, <1>4, Zenon DEF PlanInv

\* A single candidate that is no node is a plan.
LEMMA SinglePlan ==
    ASSUME NEW want, NEW c \in Attempted, ~IsNode(c), NEW plan, plan = <<c>>
    PROVE  plan \in Seq(Attempted) /\ plan # <<>> /\ PlanOK(want, <<>> \o plan)
  <1>1. /\ plan \in Seq(Attempted) /\ plan # <<>> /\ <<>> \o plan = plan
        /\ DOMAIN plan = {1} /\ plan[1] = c
    OBVIOUS
  <1> DEFINE nodes == {i \in DOMAIN plan : IsNode(plan[i])}
  <1>2. nodes = {}
    BY <1>1
  <1>3. Cardinality(nodes) = 0
    BY <1>2, FS_EmptySet, Zenon
  <1>4. \A i, j \in DOMAIN plan : ~(i < j)
    BY <1>1
  <1>5. Cardinality(nodes) <= MaxAttempts
    <2> HIDE DEF nodes
    <2>1. QED
      BY <1>3, AttemptsAssumption
  <1>6. PlanOK(want, plan)
    BY <1>4, <1>5 DEF PlanOK
  <1>7. QED
    BY <1>1, <1>6

\* The direct connection is one.
LEMMA DirectChoice == Choose(Direct, FALSE) \in Attempted /\ ~IsNode(Choose(Direct, FALSE))
  BY DirectAssumption DEF Attempted, IsNode, Choose

LEMMA AskPlaced ==
    ASSUME PlanInv, NEW r \in Requests, NEW want \in Wants, Ask(r, want)
    PROVE  PlanInv'
  <1> DEFINE fresh  == Ended("any", want, alive)
             region == [fresh EXCEPT !.stage = "entries"]
             first  == [fresh EXCEPT !.stage = "trying"]
             second == [first EXCEPT !.steady = {}]
             plan   == <<Choose(Direct, FALSE)>>
             direct == [second EXCEPT !.todo = plan]
  <1>1. \/ Become(r, region) /\ want.egress = "region"
        \/ Become(r, fresh) /\ want.egress # "region"
        \/ Become(r, direct)
    <2>1. CASE want.egress = "region"
      BY <2>1 DEF Ask
    <2>2. CASE want.egress = "any" \/ (want.egress = "direct" /\ want.premium)
      BY <2>2 DEF Ask
    <2>3. CASE /\ want.egress # "region" /\ want.egress # "any"
               /\ ~(want.egress = "direct" /\ want.premium)
      BY <2>3 DEF Ask
    <2> HIDE DEF fresh, region, first, second, direct
    <2>4. QED
      BY <2>1, <2>2, <2>3
  <1>2. /\ Shape(fresh) /\ fresh.stage = "any" /\ fresh.want = want
        /\ fresh.residential = want.residential /\ fresh.choices = <<>>
        /\ fresh.tried = <<>> /\ fresh.steady = alive
    BY EndedFields
  <1>3. want.residential \in BOOLEAN
    BY WantFields
  <1>4. ASSUME want.egress = "region"
        PROVE  Placed(region, alive)
    <2>1. /\ Shape(region) /\ region.stage = "entries" /\ region.want = want
          /\ region.residential = want.residential /\ region.choices = <<>>
          /\ region.steady = alive
      <3> HIDE DEF fresh
      <3>1. QED
        BY <1>2, SetStage
    <2> HIDE DEF region
    <2>2. ~AnyRegion(region)
      BY <1>4, <2>1 DEF AnyRegion
    <2>3. region.stage \in Selecting /\ region.stage \notin Trying
      BY <2>1 DEF Selecting, Trying
    <2>4. (region.stage = "any") = AnyRegion(region)
      BY <1>4, <2>1 DEF AnyRegion
    <2>5. SelectsWell(region, alive)
      BY <2>1, <2>4 DEF SelectsWell
    <2>6. QED
      BY <1>3, <2>1, <2>3, <2>5 DEF Placed, TriesWell, RefusesWell
  <1>5. ASSUME want.egress # "region"
        PROVE  Placed(fresh, alive)
    <2> HIDE DEF fresh
    <2>1. AnyRegion(fresh)
      BY <1>2, <1>5 DEF AnyRegion
    <2>2. fresh.stage \notin Trying
      BY <1>2 DEF Trying
    <2>3. SelectsWell(fresh, alive)
      BY <1>2, <2>1 DEF SelectsWell
    <2>4. QED
      BY <1>2, <1>3, <2>2, <2>3 DEF Placed, TriesWell, RefusesWell
  <1>6. Placed(direct, alive)
    <2>1. /\ Shape(first) /\ first.stage = "trying" /\ first.want = want
          /\ first.residential = want.residential /\ first.tried = <<>>
      <3> HIDE DEF fresh
      <3>1. QED
        BY <1>2, SetStage
    <2>2. /\ Shape(second) /\ second.stage = "trying" /\ second.want = want
          /\ second.residential = want.residential /\ second.tried = <<>>
          /\ second.steady = {}
      <3> HIDE DEF first
      <3>1. QED
        BY <2>1, SetSteady
    <2>3. /\ Shape(direct) /\ direct.stage = "trying" /\ direct.want = want
          /\ direct.residential = want.residential /\ direct.tried = <<>>
          /\ direct.steady = {} /\ direct.todo = plan
      <3> HIDE DEF second, plan
      <3>1. QED
        BY <2>2, SetTodo, SMTT(30)
    <2>4. plan \in Seq(Attempted) /\ plan # <<>> /\ PlanOK(want, <<>> \o plan)
      BY DirectChoice, SinglePlan
    <2> HIDE DEF direct, plan
    <2>5. AvailableTo(direct) = {}
      BY <2>3 DEF AvailableTo
    <2>6. <<>> \in Seq(Attempted)
      OBVIOUS
    <2>7. TriesWell(direct)
      BY <2>3, <2>4, <2>5, <2>6, Zenon DEF TriesWell
    <2>8. direct.stage \notin Selecting /\ direct.stage # "refused"
      BY <2>3 DEF Selecting
    <2>9. QED
      BY <1>3, <2>3, <2>7, <2>8 DEF Placed, SelectsWell, RefusesWell
  <1>7. UNCHANGED alive
    BY DEF Ask
  <1> HIDE DEF fresh, region, direct
  <1>8. QED
    BY <1>1, <1>4, <1>5, <1>6, <1>7, OnePlaced

\* A read of the manager in between.
LEMMA SelectsOn ==
    ASSUME NEW q, NEW up, Placed(q, up), q.stage \in {"entries", "offline"},
           NEW s, Shape(s), s.stage \in {"offline", "templates"},
           s.want = q.want, s.residential = q.residential, s.choices = q.choices,
           s.steady = q.steady,
           s.entries \in Seq(Nodes), \A n \in Owed(q, q.residential) : Has(s.entries, n),
           s.stage = "templates" => s.offline \in Seq(Nodes)
    PROVE  Placed(s, up)
  <1>1. q.stage \in Selecting /\ s.stage \in Selecting /\ s.stage \notin Trying
    BY DEF Selecting, Trying
  <1>2. AnyRegion(s) = AnyRegion(q)
    BY DEF AnyRegion
  <1>3. \A residential : Owed(s, residential) = Owed(q, residential)
    BY <1>2 DEF Owed
  <1>4. SecondPass(q) => SecondPass(s)
    BY <1>3 DEF SecondPass
  <1>5. SelectsWell(q, up)
    BY DEF Placed
  <1>6. s.steady \subseteq up /\ (s.stage = "any") = AnyRegion(s)
    BY <1>1, <1>2, <1>5 DEF SelectsWell
  <1>7. (s.residential = s.want.residential /\ s.choices = <<>>) \/ SecondPass(s)
    BY <1>1, <1>4, <1>5 DEF SelectsWell
  <1>8. \A n \in Owed(s, s.residential) : Has(s.entries, n)
    BY <1>3
  <1>9. SelectsWell(s, up)
    BY <1>6, <1>7, <1>8 DEF SelectsWell
  <1>10. QED
    BY <1>1, <1>9 DEF Placed, TriesWell, RefusesWell

LEMMA ReadEntriesPlaced ==
    ASSUME PlanInv, NEW r \in Requests, ReadEntries(r)
    PROVE  PlanInv'
  <1> DEFINE q == req[r]
  <1>1. PICK entries \in EntryOrders(alive, FALSE, q.residential) :
            Become(r, [q EXCEPT !.stage = "offline", !.entries = entries])
    BY DEF ReadEntries
  <1> DEFINE s == [q EXCEPT !.stage = "offline"]
             t == [s EXCEPT !.entries = entries]
  <1>2. Placed(q, alive) /\ Shape(q) /\ q.stage = "entries" /\ UNCHANGED alive
    BY DEF PlanInv, Placed, ReadEntries
  <1>3. /\ Shape(s) /\ s.stage = "offline" /\ s.want = q.want
        /\ s.residential = q.residential /\ s.choices = q.choices
        /\ s.steady = q.steady
    <2> HIDE DEF q
    <2>1. QED
      BY <1>2, SetStage
  <1>4. /\ Shape(t) /\ t.stage = "offline" /\ t.want = q.want
        /\ t.residential = q.residential /\ t.choices = q.choices
        /\ t.steady = q.steady /\ t.entries = entries
    <2> HIDE DEF q, s
    <2>1. QED
      BY <1>3, SetEntries
  <1>5. Become(r, t)
    BY <1>1
  <1> HIDE DEF t, q
  <1>6. AnyRegion(q) = FALSE
    BY <1>2 DEF Placed, SelectsWell, Selecting
  <1>7. entries \in EntryOrders(alive, AnyRegion(q), q.residential)
    BY <1>1, <1>6, Zenon
  <1>8. /\ entries \in Seq(Nodes)
        /\ \A n \in Matching(AnyRegion(q), q.residential) \cap alive : Has(entries, n)
    BY <1>7, EntriesAll
  <1>9. q.steady \subseteq alive
    BY <1>2 DEF Placed, SelectsWell, Selecting
  <1>10. \A n \in Owed(q, q.residential) : Has(entries, n)
    BY <1>8, <1>9 DEF Owed
  <1>11. Placed(t, alive)
    BY <1>2, <1>4, <1>8, <1>10, SelectsOn
  <1>12. QED
    BY <1>2, <1>5, <1>11, OnePlaced

LEMMA ReadOfflinePlaced ==
    ASSUME PlanInv, NEW r \in Requests, ReadOffline(r)
    PROVE  PlanInv'
  <1> DEFINE q == req[r]
             offline == OfflineEntries(alive, q.residential)
             s == [q EXCEPT !.stage = "templates"]
             t == [s EXCEPT !.offline = offline]
  <1>1. Become(r, t)
    BY DEF ReadOffline
  <1>2. Placed(q, alive) /\ Shape(q) /\ q.stage = "offline" /\ UNCHANGED alive
    BY DEF PlanInv, Placed, ReadOffline
  <1>3. /\ Shape(s) /\ s.stage = "templates" /\ s.want = q.want
        /\ s.residential = q.residential /\ s.choices = q.choices
        /\ s.steady = q.steady /\ s.entries = q.entries
    <2> HIDE DEF q
    <2>1. QED
      BY <1>2, SetStage
  <1>4. /\ Shape(t) /\ t.stage = "templates" /\ t.want = q.want
        /\ t.residential = q.residential /\ t.choices = q.choices
        /\ t.steady = q.steady /\ t.entries = q.entries /\ t.offline = offline
    <2> HIDE DEF q, s, offline
    <2>1. QED
      BY <1>3, SetOffline
  <1>5. offline \in Seq(Nodes)
    BY OfflineNodes
  <1> HIDE DEF t, q, offline
  <1>6. SelectsWell(q, alive) /\ q.stage \in Selecting
    BY <1>2 DEF Placed, Selecting
  <1>7. q.entries \in Seq(Nodes) /\ \A n \in Owed(q, q.residential) : Has(q.entries, n)
    BY <1>2, <1>6 DEF SelectsWell
  <1>8. Placed(t, alive)
    BY <1>2, <1>4, <1>5, <1>7, SelectsOn
  <1>9. QED
    BY <1>1, <1>2, <1>8, OnePlaced

\* The records a pass may end with.
NextPass(q, next, choices) ==
    [q EXCEPT !.stage = next, !.residential = TRUE, !.choices = choices,
       !.entries = <<>>, !.offline = <<>>]

FirstTry(want, steady, routes, gone) ==
    [Ended("trying", want, steady) EXCEPT !.todo = routes, !.gone = gone]

LEMMA NextPassFields ==
    ASSUME NEW q, Shape(q), NEW next, NEW choices
    PROVE  LET new == NextPass(q, next, choices)
           IN /\ Shape(new) /\ new.stage = next /\ new.want = q.want
              /\ new.steady = q.steady /\ new.choices = choices
  <1> DEFINE p1 == [q EXCEPT !.stage = next]
             p2 == [p1 EXCEPT !.residential = TRUE]
             p3 == [p2 EXCEPT !.choices = choices]
             p4 == [p3 EXCEPT !.entries = <<>>]
             s  == [p4 EXCEPT !.offline = <<>>]
  <1>1. /\ Shape(p1) /\ p1.stage = next /\ p1.want = q.want /\ p1.steady = q.steady
    BY SetStage
  <1>2. /\ Shape(p2) /\ p2.stage = next /\ p2.want = q.want /\ p2.steady = q.steady
        /\ p2.residential = TRUE
    <2> HIDE DEF p1
    <2>1. QED
      BY <1>1, SetResidential
  <1>3. /\ Shape(p3) /\ p3.stage = next /\ p3.want = q.want /\ p3.steady = q.steady
        /\ p3.residential = TRUE /\ p3.choices = choices
    <2> HIDE DEF p2
    <2>1. QED
      BY <1>2, SetChoices
  <1>4. /\ Shape(p4) /\ p4.stage = next /\ p4.want = q.want /\ p4.steady = q.steady
        /\ p4.residential = TRUE /\ p4.choices = choices
    <2> HIDE DEF p3
    <2>1. QED
      BY <1>3, SetEntries
  <1>5. /\ Shape(s) /\ s.stage = next /\ s.want = q.want /\ s.steady = q.steady
        /\ s.residential = TRUE /\ s.choices = choices
    <2> HIDE DEF p4
    <2>1. QED
      BY <1>4, SetOffline
  <1>6. NextPass(q, next, choices) = s
    BY DEF NextPass
  <1> HIDE DEF s
  <1>7. QED
    BY <1>5, <1>6

LEMMA NextPassClass ==
    ASSUME NEW q, Shape(q), NEW next, NEW choices
    PROVE  NextPass(q, next, choices).residential = TRUE
  <1> DEFINE p1 == [q EXCEPT !.stage = next]
             p2 == [p1 EXCEPT !.residential = TRUE]
             p3 == [p2 EXCEPT !.choices = choices]
             p4 == [p3 EXCEPT !.entries = <<>>]
             s  == [p4 EXCEPT !.offline = <<>>]
  <1>1. Shape(p1)
    BY SetStage
  <1>2. Shape(p2) /\ p2.residential = TRUE
    <2> HIDE DEF p1
    <2>1. QED
      BY <1>1, SetResidential
  <1>3. Shape(p3) /\ p3.residential = TRUE
    <2> HIDE DEF p2
    <2>1. QED
      BY <1>2, SetChoices
  <1>4. Shape(p4) /\ p4.residential = TRUE
    <2> HIDE DEF p3
    <2>1. QED
      BY <1>3, SetEntries
  <1>5. s.residential = TRUE
    <2> HIDE DEF p4
    <2>1. QED
      BY <1>4, SetOffline
  <1>6. NextPass(q, next, choices) = s
    BY DEF NextPass
  <1> HIDE DEF s
  <1>7. QED
    BY <1>5, <1>6

LEMMA FirstTryFields ==
    ASSUME NEW want, NEW steady, NEW routes, NEW gone,
           NEW new, new = FirstTry(want, steady, routes, gone)
    PROVE  /\ Shape(new) /\ new.stage = "trying" /\ new.want = want
           /\ new.residential = want.residential /\ new.tried = <<>>
           /\ new.steady = steady /\ new.todo = routes
  <1> DEFINE begun   == Ended("trying", want, steady)
             planned == [begun EXCEPT !.todo = routes]
             s       == [planned EXCEPT !.gone = gone]
  <1>1. /\ Shape(begun) /\ begun.stage = "trying" /\ begun.want = want
        /\ begun.residential = want.residential /\ begun.tried = <<>>
        /\ begun.steady = steady
    BY EndedFields
  <1>2. /\ Shape(planned) /\ planned.stage = "trying" /\ planned.want = want
        /\ planned.residential = want.residential /\ planned.tried = <<>>
        /\ planned.steady = steady /\ planned.todo = routes
    <2> HIDE DEF begun
    <2>1. QED
      BY <1>1 DEF Shape
  <1>3. /\ Shape(s) /\ s.stage = "trying" /\ s.want = want
        /\ s.residential = want.residential /\ s.tried = <<>>
        /\ s.steady = steady /\ s.todo = routes
    <2> HIDE DEF planned
    <2>1. QED
      BY <1>2 DEF Shape
  <1>4. new = s
    BY DEF FirstTry
  <1> HIDE DEF s
  <1>5. QED
    BY <1>3, <1>4

LEMMA NextPassPlaced ==
    ASSUME NEW q, NEW up, Placed(q, up), q.stage \in Selecting, ~q.residential,
           NEW choices, PassDone(q, choices),
           NEW next, next = IF q.stage = "any" THEN "any" ELSE "entries"
    PROVE  Placed(NextPass(q, next, choices), up)
  <1> DEFINE s == NextPass(q, next, choices)
  <1>1. Shape(q)
    BY DEF Placed
  <1>2. /\ Shape(s) /\ s.stage = next /\ s.want = q.want /\ s.steady = q.steady
        /\ s.choices = choices
    BY <1>1, NextPassFields
  <1>3. s.residential = TRUE
    BY <1>1, NextPassClass
  <1> HIDE DEF s
  <1>4. Placed(s, up)
    BY <1>2, <1>3, PassGoesOn
  <1>5. QED
    BY <1>4 DEF s

\* The end of a pass, given what it has found.
LEMMA FinishPassPlaced ==
    ASSUME PlanInv, NEW r \in Requests, req[r].stage \in Selecting,
           NEW next, next = IF req[r].stage = "any" THEN "any" ELSE "entries",
           NEW vs, Climbs(req[r].want.premium, vs, 0, 3),
           \A n \in Owed(req[r], req[r].residential) : Has(vs, n),
           FinishPass(r, ChooseEach(vs, req[r].residential), next), UNCHANGED alive
    PROVE  PlanInv'
  <1> DEFINE q == req[r]
  <1>1. PICK choices \in {q.choices \o ChooseEach(vs, q.residential)} :
            Become(r, IF ~q.residential /\ (choices = <<>> \/ q.want.premium)
                 THEN NextPass(q, next, choices)
                 ELSE IF choices = <<>> THEN Ended("refused", q.want, q.steady)
                 ELSE FirstTry(q.want, q.steady,
                               ProxyAttemptRoutes(q.want.premium, choices,
                                                  q.want.fallback), q.gone))
    BY DEF FinishPass, NextPass, FirstTry
  <1> DEFINE pass    == NextPass(q, next, choices)
             refused == Ended("refused", q.want, q.steady)
             routes  == ProxyAttemptRoutes(q.want.premium, choices, q.want.fallback)
             trying  == FirstTry(q.want, q.steady, routes, q.gone)
  <1>2. Placed(q, alive) /\ Shape(q)
    BY DEF PlanInv, Placed
  <1>3. PassDone(q, choices)
    <2>1. choices = q.choices \o ChooseEach(vs, q.residential)
      BY <1>1
    <2> HIDE DEF q
    <2>2. q.stage \in Selecting /\ Climbs(q.want.premium, vs, 0, 3)
          /\ \A n \in Owed(q, q.residential) : Has(vs, n)
      BY DEF q
    <2>3. QED
      BY <1>2, <2>1, <2>2, PassEnds
  <1>4. CASE ~q.residential /\ (choices = <<>> \/ q.want.premium)
    <2>1. Become(r, pass)
      BY <1>1, <1>4
    <2>2. q.stage \in Selecting /\ next = IF q.stage = "any" THEN "any" ELSE "entries"
      OBVIOUS
    <2> HIDE DEF q, pass
    <2>3. Placed(NextPass(q, next, choices), alive)
      BY <1>2, <1>3, <1>4, <2>2, NextPassPlaced
    <2>4. Placed(pass, alive)
      BY <2>3 DEF pass
    <2>5. QED
      BY <2>1, <2>4, OnePlaced
  <1>5. CASE q.residential /\ choices = <<>>
    <2>1. Become(r, refused)
      BY <1>1, <1>5
    <2>2. Placed(refused, alive)
      <3> HIDE DEF q
      <3>1. PassDone(q, <<>>)
        BY <1>3, <1>5
      <3>2. QED
        BY <1>2, <1>5, <3>1, PassRefuses
    <2> HIDE DEF refused
    <2>3. QED
      BY <2>1, <2>2, OnePlaced
  <1>6. CASE /\ choices # <<>>
             /\ ~(~q.residential /\ (choices = <<>> \/ q.want.premium))
    <2>1. Become(r, trying)
      BY <1>1, <1>6
    <2>2. /\ Shape(trying) /\ trying.stage = "trying" /\ trying.want = q.want
          /\ trying.residential = q.want.residential /\ trying.tried = <<>>
          /\ trying.steady = q.steady /\ trying.todo = routes
      <3> HIDE DEF q, routes
      <3>1. QED
        BY FirstTryFields
    <2> HIDE DEF q, trying
    <2>3. Placed(trying, alive)
      <3>1. routes = ProxyAttemptRoutes(q.want.premium, choices, q.want.fallback)
        OBVIOUS
      <3> HIDE DEF routes
      <3>2. QED
        BY <1>2, <1>3, <1>6, <2>2, <3>1, PassTries
    <2>4. QED
      BY <2>1, <2>3, OnePlaced
  <1>7. QED
    <2> HIDE DEF q
    <2>1. QED
      BY <1>4, <1>5, <1>6

LEMMA ReadTemplatesPlaced ==
    ASSUME PlanInv, NEW r \in Requests, ReadTemplates(r)
    PROVE  PlanInv'
  <1> DEFINE q         == req[r]
             templates == TemplateChoices(q.want.premium, q.residential)
             group     == EgressCandidateGroup(q.want.premium, q.entries, q.offline,
                                               templates, q.want.fallback)
  <1>1. /\ q.stage = "templates" /\ UNCHANGED alive
        /\ FinishPass(r, ChooseEach(group, q.residential), "entries")
    BY DEF ReadTemplates, Group
  <1>2. Placed(q, alive) /\ q.stage \in Selecting
    BY <1>1 DEF PlanInv, Selecting
  <1>3. Climbs(q.want.premium, group, 0, 3) /\ \A v : Has(q.entries, v) => Has(group, v)
    <2>1. q.want.premium \in BOOLEAN /\ q.want.fallback \in BOOLEAN
      BY <1>2, WantFields DEF Placed
    <2>2. q.entries \in Seq(Nodes) /\ q.offline \in Seq(Nodes)
      BY <1>1, <1>2 DEF Placed, SelectsWell
    <2>3. templates \in Seq(Templates)
      BY <2>1, TemplatesListed
    <2> HIDE DEF q, templates
    <2>4. QED
      BY <2>1, <2>2, <2>3, GroupClimbs
  <1>4. \A n \in Owed(q, q.residential) : Has(q.entries, n)
    BY <1>1, <1>2 DEF Placed, SelectsWell
  <1> HIDE DEF group
  <1>5. \A n \in Owed(q, q.residential) : Has(group, n)
    BY <1>3, <1>4
  <1>6. "entries" = IF q.stage = "any" THEN "any" ELSE "entries"
    BY <1>1
  <1>7. QED
    BY <1>1, <1>2, <1>3, <1>5, <1>6, FinishPassPlaced

LEMMA ReadAnyPlaced ==
    ASSUME PlanInv, NEW r \in Requests, ReadAny(r)
    PROVE  PlanInv'
  <1> DEFINE q == req[r]
  <1>1. PICK entries \in EntryOrders(alive, TRUE, q.residential) :
            FinishPass(r, ChooseEach(PrioritizePremium(q.want.premium, entries),
                                     q.residential), "any")
    BY DEF ReadAny
  <1> DEFINE group == PrioritizePremium(q.want.premium, entries)
  <1>2. q.stage = "any" /\ UNCHANGED alive
    BY DEF ReadAny
  <1>3. Placed(q, alive) /\ q.stage \in Selecting
    BY <1>2 DEF PlanInv, Selecting
  <1>4. AnyRegion(q) = TRUE /\ q.steady \subseteq alive
    BY <1>2, <1>3 DEF Placed, SelectsWell
  <1>5. entries \in EntryOrders(alive, AnyRegion(q), q.residential)
    BY <1>1, <1>4, Zenon
  <1>6. FinishPass(r, ChooseEach(group, q.residential), "any")
    BY <1>1
  <1> HIDE DEF q
  <1>7. /\ entries \in Seq(Nodes)
        /\ \A n \in Matching(AnyRegion(q), q.residential) \cap alive : Has(entries, n)
    BY <1>5, EntriesAll
  <1>8. q.want.premium \in BOOLEAN
    BY <1>3, WantFields DEF Placed
  <1>9. Climbs(q.want.premium, group, 0, 3) /\ \A v : Has(entries, v) => Has(group, v)
    BY <1>7, <1>8, AnyClimbs
  <1> HIDE DEF group
  <1>10. \A n \in Owed(q, q.residential) : Has(entries, n)
    BY <1>4, <1>7 DEF Owed
  <1>11. \A n \in Owed(q, q.residential) : Has(group, n)
    BY <1>9, <1>10
  <1>12. "any" = IF q.stage = "any" THEN "any" ELSE "entries"
    BY <1>2
  <1> USE DEF q
  <1>13. QED
    BY <1>2, <1>3, <1>6, <1>9, <1>11, <1>12, FinishPassPlaced

\* An attempt goes to another of its stages.
LEMMA StagePlaced ==
    ASSUME PlanInv, NEW r \in Requests, req[r].stage \in Trying,
           NEW stage \in Trying, Stage(r, stage), UNCHANGED alive
    PROVE  PlanInv'
  <1> DEFINE q == req[r]
             s == [q EXCEPT !.stage = stage]
  <1>1. Become(r, s) /\ Placed(q, alive) /\ Shape(q) /\ q.stage \in Trying
    BY DEF Stage, PlanInv, Placed
  <1> HIDE DEF q
  <1>2. /\ Shape(s) /\ s.stage = stage /\ s.want = q.want
        /\ s.residential = q.residential /\ s.tried = q.tried /\ s.todo = q.todo
        /\ s.steady = q.steady
    BY <1>1, SetStage
  <1> HIDE DEF s
  <1>3. Placed(s, alive)
    BY <1>1, <1>2, SameTrying
  <1>4. QED
    BY <1>1, <1>3, OnePlaced

LEMMA ReceiveStatusPlaced ==
    ASSUME PlanInv, NEW r \in Requests, ReceiveStatus(r)
    PROVE  PlanInv'
  <1> DEFINE q     == req[r]
             heard == q.replied \/ Current(r).via \notin Remote
             s     == [q EXCEPT !.stage = "answering"]
             t     == [s EXCEPT !.replied = heard]
  <1>1. Become(r, t) /\ q.stage = "trying" /\ UNCHANGED alive
    BY Zenon DEF ReceiveStatus
  <1>2. Placed(q, alive) /\ Shape(q) /\ q.stage \in Trying
    BY <1>1 DEF PlanInv, Placed, Trying
  <1> HIDE DEF q, heard
  <1>3. /\ Shape(s) /\ s.stage = "answering" /\ s.want = q.want
        /\ s.residential = q.residential /\ s.tried = q.tried /\ s.todo = q.todo
        /\ s.steady = q.steady
    BY <1>2, SetStage
  <1> HIDE DEF s
  <1>4. /\ Shape(t) /\ t.stage = "answering" /\ t.want = q.want
        /\ t.residential = q.residential /\ t.tried = q.tried /\ t.todo = q.todo
        /\ t.steady = q.steady
    BY <1>3, SetReplied
  <1> HIDE DEF t
  <1>5. t.stage \in Trying
    BY <1>4 DEF Trying
  <1>6. Placed(t, alive)
    BY <1>2, <1>4, <1>5, SameTrying
  <1>7. QED
    BY <1>1, <1>6, OnePlaced

\* Moving on in a list.
MovesOn(a, b, c, d) ==
    /\ a \in Seq(Attempted) /\ b \in Seq(Attempted) /\ b # <<>>
    /\ c = Append(a, Head(b)) /\ d = Tail(b)

MovedOn(a, b, c, d) ==
    /\ c \in Seq(Attempted) /\ d \in Seq(Attempted) /\ c # <<>>
    /\ Len(b) # 1 => d # <<>>
    /\ c \o d = a \o b

LEMMA Moving ==
    ASSUME NEW a, NEW b, NEW c, NEW d, MovesOn(a, b, c, d)
    PROVE  MovedOn(a, b, c, d)
  <1>0. /\ a \in Seq(Attempted) /\ b \in Seq(Attempted) /\ b # <<>>
        /\ c = Append(a, Head(b)) /\ d = Tail(b)
    BY DEF MovesOn
  <1>1. PICK m \in Nat : m = Len(a)
    BY <1>0
  <1>2. PICK n \in Nat : n = Len(b)
    BY <1>0
  <1>3. n > 0 /\ Head(b) = b[1] /\ Head(b) \in Attempted
    BY <1>0, <1>2
  <1>4. c \in Seq(Attempted) /\ c # <<>> /\ Len(c) = m + 1
    BY <1>0, <1>1, <1>3
  <1>5. d \in Seq(Attempted) /\ Len(d) = n - 1
    BY <1>0, <1>2, <1>3
  <1>6. Len(b) # 1 => d # <<>>
    BY <1>0, <1>2, <1>3, <1>5
  <1>7. Len(c \o d) = m + n /\ Len(a \o b) = m + n
    BY <1>0, <1>1, <1>2, <1>3, <1>4, <1>5
  <1>8. ASSUME NEW k \in 1 .. m + n
        PROVE  (c \o d)[k] = (a \o b)[k]
    <2>1. CASE k <= m
      <3>1. (c \o d)[k] = c[k] /\ (a \o b)[k] = a[k]
        BY <1>0, <1>1, <1>2, <1>3, <1>4, <1>5, <2>1
      <3>2. c[k] = a[k]
        BY <1>0, <1>1, <1>3, <2>1
      <3>3. QED
        BY <3>1, <3>2
    <2>2. CASE k = m + 1
      <3>1. (c \o d)[k] = c[k] /\ (a \o b)[k] = b[1]
        BY <1>0, <1>1, <1>2, <1>3, <1>4, <1>5, <2>2
      <3>2. c[k] = b[1]
        BY <1>0, <1>1, <1>3, <2>2
      <3>3. QED
        BY <3>1, <3>2
    <2>3. CASE k > m + 1
      <3>1. (c \o d)[k] = d[k - (m + 1)] /\ (a \o b)[k] = b[k - m]
        BY <1>0, <1>1, <1>2, <1>3, <1>4, <1>5, <2>3
      <3>2. d[k - (m + 1)] = b[k - m]
        BY <1>0, <1>2, <1>3, <1>5, <2>3
      <3>3. QED
        BY <3>1, <3>2
    <2>4. k <= m \/ k = m + 1 \/ k > m + 1
      OBVIOUS
    <2>5. QED
      BY <2>1, <2>2, <2>3, <2>4, Zenon
  <1>9. c \o d \in Seq(Attempted) /\ a \o b \in Seq(Attempted)
    BY <1>0, <1>4, <1>5
  <1>10. c \o d = a \o b
    BY <1>7, <1>8, <1>9, SeqEqual
  <1>11. QED
    BY <1>4, <1>5, <1>6, <1>10 DEF MovedOn

\* The next candidate.
LEMMA NextTry ==
    ASSUME NEW q, NEW up, Placed(q, up), q.stage \in Trying, Len(q.todo) # 1,
           NEW s, Shape(s), s.stage = "trying", s.want = q.want,
           s.residential = q.residential,
           s.tried = Append(q.tried, Head(q.todo)), s.todo = Tail(q.todo)
    PROVE  Placed(s, up)
  <1>1. /\ q.tried \in Seq(Attempted) /\ q.todo \in Seq(Attempted) /\ q.todo # <<>>
        /\ PlanOK(q.want, q.tried \o q.todo)
    BY DEF Placed, TriesWell
  <1>2. /\ s.tried \in Seq(Attempted) /\ s.todo \in Seq(Attempted)
        /\ s.tried # <<>> /\ s.todo # <<>>
        /\ s.tried \o s.todo = q.tried \o q.todo
    <2>1. MovesOn(q.tried, q.todo, s.tried, s.todo)
      BY <1>1, Zenon DEF MovesOn
    <2>2. MovedOn(q.tried, q.todo, s.tried, s.todo)
      BY <2>1, Moving
    <2>3. QED
      BY <2>2, Zenon DEF MovedOn
  <1>3. TriesWell(s)
    BY <1>1, <1>2, Zenon DEF TriesWell
  <1>4. s.stage \notin Selecting /\ s.stage # "refused"
    BY DEF Selecting
  <1>5. QED
    BY <1>3, <1>4 DEF Placed, SelectsWell, RefusesWell

LEMMA RetryPlaced ==
    ASSUME PlanInv, NEW r \in Requests, Retry(r)
    PROVE  PlanInv'
  <1> DEFINE q    == req[r]
             more == Append(q.tried, Head(q.todo))
             rest == Tail(q.todo)
             p1   == [q EXCEPT !.stage = "trying"]
             p2   == [p1 EXCEPT !.tried = more]
             p3   == [p2 EXCEPT !.todo = rest]
             new  == [p3 EXCEPT !.steady = {}]
  <1>1. /\ q.stage = "marked" /\ UNCHANGED alive
        /\ (Become(r, new) /\ Len(q.todo) # 1) \/ End(r, "failed")
    BY Zenon DEF Retry, Current
  <1>2. Placed(q, alive) /\ Shape(q) /\ q.stage \in Trying
    BY <1>1 DEF PlanInv, Placed, Trying
  <1>3. CASE End(r, "failed")
    BY <1>1, <1>3, EndPlanned
  <1>4. CASE Become(r, new) /\ Len(q.todo) # 1
    <2> HIDE DEF q
    <2>1. /\ Shape(p1) /\ p1.stage = "trying" /\ p1.want = q.want
          /\ p1.residential = q.residential
      BY <1>2, SetStage
    <2>2. /\ Shape(p2) /\ p2.stage = "trying" /\ p2.want = q.want
          /\ p2.residential = q.residential /\ p2.tried = more
      <3> HIDE DEF p1, more
      <3>1. QED
        BY <2>1, SetTried
    <2>3. /\ Shape(p3) /\ p3.stage = "trying" /\ p3.want = q.want
          /\ p3.residential = q.residential /\ p3.tried = more /\ p3.todo = rest
      <3> HIDE DEF p2, more, rest
      <3>1. QED
        BY <2>2, SetTodo
    <2>4. /\ Shape(new) /\ new.stage = "trying" /\ new.want = q.want
          /\ new.residential = q.residential /\ new.tried = more /\ new.todo = rest
      <3> HIDE DEF p3, more, rest
      <3>1. QED
        BY <2>3, SetSteady
    <2> HIDE DEF new
    <2>5. Placed(new, alive)
      BY <1>2, <1>4, <2>4, NextTry
    <2>6. QED
      BY <1>1, <1>4, <2>5, OnePlaced
  <1>5. QED
    BY <1>1, <1>3, <1>4

\* The caller's going changes neither a selection nor a plan.
LEMMA LeavePlaced ==
    ASSUME PlanInv, NEW r \in Requests, Leave(r)
    PROVE  PlanInv'
  <1> DEFINE q == req[r]
             s == [q EXCEPT !.gone = TRUE]
  <1>1. Become(r, s) /\ UNCHANGED alive /\ Placed(q, alive) /\ Shape(q)
    BY DEF Leave, PlanInv, Placed
  <1> HIDE DEF q
  <1>2. /\ Shape(s) /\ s.stage = q.stage /\ s.want = q.want
        /\ s.residential = q.residential /\ s.entries = q.entries
        /\ s.offline = q.offline /\ s.choices = q.choices /\ s.tried = q.tried
        /\ s.todo = q.todo /\ s.steady = q.steady
    BY <1>1, SetGone
  <1> HIDE DEF s
  <1>3. AnyRegion(s) = AnyRegion(q) /\ AvailableTo(s) = AvailableTo(q)
    BY <1>2 DEF AnyRegion, AvailableTo
  <1>4. \A residential : Owed(s, residential) = Owed(q, residential)
    BY <1>2, <1>3 DEF Owed
  <1>5. SecondPass(q) => SecondPass(s)
    BY <1>2, <1>4 DEF SecondPass
  <1>6. SelectsWell(s, alive)
    BY <1>1, <1>2, <1>3, <1>4, <1>5, Zenon DEF Placed, SelectsWell
  <1>7. TriesWell(s) /\ RefusesWell(s)
    BY <1>1, <1>2, <1>3, Zenon DEF Placed, TriesWell, RefusesWell
  <1>8. Placed(s, alive)
    BY <1>1, <1>2, <1>6, <1>7 DEF Placed
  <1>9. QED
    BY <1>1, <1>8, OnePlaced

\* A request sees that who is alive has changed, if it is still selecting.
Sees(q, new) ==
    [q EXCEPT !.steady = IF q.stage \in Selecting THEN q.steady \cap new ELSE q.steady]

LEMMA SeesPlaced ==
    ASSUME NEW q, NEW up, Placed(q, up), NEW new
    PROVE  Placed(Sees(q, new), new)
  <1>1. CASE q.stage \in Selecting
    <2>1. Sees(q, new) = [q EXCEPT !.steady = q.steady \cap new]
      BY <1>1, Zenon DEF Sees
    <2>2. Placed([q EXCEPT !.steady = q.steady \cap new], new)
      BY <1>1, FewerSteady
    <2>3. QED
      BY <2>1, <2>2, Zenon
  <1>2. CASE q.stage \notin Selecting
    <2>1. Sees(q, new) = [q EXCEPT !.steady = q.steady]
      BY <1>2, Zenon DEF Sees
    <2>2. [q EXCEPT !.steady = q.steady] = q
      <3>1. Shape(q)
        BY DEF Placed
      <3>2. QED
        BY <3>1, SetSteady
    <2>3. Placed(q, new)
      BY <1>2, OtherAlive
    <2>4. QED
      BY <2>1, <2>2, <2>3, Zenon
  <1>3. QED
    BY <1>1, <1>2

LEMMA ChangeAlivePlaced ==
    ASSUME PlanInv, NEW new, ChangeAlive(new)
    PROVE  PlanInv'
  <1>1. alive' = new /\ req' = [q \in Requests |-> Sees(req[q], new)]
    BY DEF ChangeAlive, Sees
  <1>2. req' = [q \in Requests |-> req'[q]]
    BY <1>1
  <1>3. ASSUME NEW q \in Requests
        PROVE  Placed(req'[q], alive')
    <2>1. req'[q] = Sees(req[q], new)
      BY <1>1
    <2>2. Placed(req[q], alive)
      BY DEF PlanInv
    <2>3. Placed(Sees(req[q], new), new)
      BY <2>2, SeesPlaced
    <2>4. QED
      BY <1>1, <2>1, <2>3, Zenon
  <1>4. QED
    BY <1>2, <1>3 DEF PlanInv

\* An attempt gives its node up: the request goes on with its plan, the
\* others may see one node less.
LEMMA MarkAttemptPlaced ==
    ASSUME PlanInv, NEW r \in Requests, MarkAttempt(r)
    PROVE  PlanInv'
  <1>1. req[r].stage = "judged"
    BY DEF MarkAttempt
  <1> DEFINE marked == [req[r] EXCEPT !.stage = "marked"]
  <1>2. CASE req' = [q \in Requests |-> IF q = r THEN marked ELSE Sees(req[q], alive')]
    <2>1. req' = [q \in Requests |-> req'[q]]
      BY <1>2
    <2>2. ASSUME NEW q \in Requests
          PROVE  Placed(req'[q], alive')
      <3>1. Placed(req[q], alive) /\ Placed(req[r], alive) /\ Shape(req[r])
        BY DEF PlanInv, Placed
      <3>2. CASE q = r
        <4>1. req'[q] = marked
          BY <1>2, <3>2
        <4>2. /\ Shape(marked) /\ marked.stage = "marked" /\ marked.want = req[r].want
              /\ marked.residential = req[r].residential
              /\ marked.tried = req[r].tried /\ marked.todo = req[r].todo
              /\ marked.steady = req[r].steady
          BY <3>1, SetStage
        <4> HIDE DEF marked
        <4>3. req[r].stage \in Trying /\ marked.stage \in Trying
          BY <1>1, <4>2 DEF Trying
        <4>4. Placed(marked, alive)
          BY <3>1, <4>2, <4>3, SameTrying
        <4>5. marked.stage \notin Selecting
          BY <4>2 DEF Selecting
        <4>6. Placed(marked, alive')
          BY <4>4, <4>5, OtherAlive
        <4>7. QED
          BY <4>1, <4>6, Zenon
      <3>3. CASE q # r
        <4>1. req'[q] = Sees(req[q], alive')
          BY <1>2, <3>3
        <4>2. Placed(Sees(req[q], alive'), alive')
          BY <3>1, SeesPlaced
        <4>3. QED
          BY <4>1, <4>2, Zenon
      <3>4. QED
        BY <3>2, <3>3
    <2>3. QED
      BY <2>1, <2>2 DEF PlanInv
  <1>3. QED
    BY <1>2, Zenon DEF MarkAttempt, Sees

LEMMA AttemptPlaced ==
    ASSUME PlanInv, NEW r \in Requests, Attempt(r)
    PROVE  PlanInv'
  <1>1. CASE ConnectFails(r) \/ LoseBody(r) \/ ReceiveGatewayError(r)
    <2>1. /\ req[r].stage \in Trying /\ "broken" \in Trying /\ UNCHANGED alive
          /\ Stage(r, "broken") \/ End(r, "failed")
      BY <1>1 DEF ConnectFails, LoseBody, ReceiveGatewayError, Trying
    <2>2. QED
      BY <2>1, StagePlaced, EndPlanned
  <1>2. CASE GiveUp(r) \/ ReceiveBody(r)
    BY <1>2, EndPlanned DEF GiveUp, ReceiveBody
  <1>3. CASE Judge(r)
    <2>1. /\ req[r].stage \in Trying /\ "judged" \in Trying /\ UNCHANGED alive
          /\ Stage(r, "judged") \/ End(r, "failed")
      BY <1>3 DEF Judge, Trying
    <2>2. QED
      BY <2>1, StagePlaced, EndPlanned
  <1>4. CASE FollowRedirect(r)
    BY <1>4 DEF FollowRedirect, PlanInv
  <1>5. QED
    BY <1>1, <1>2, <1>3, <1>4, ReceiveStatusPlaced, MarkAttemptPlaced, RetryPlaced
       DEF Attempt

LEMMA PlanNext ==
    ASSUME PlanInv, [Next]_vars
    PROVE  PlanInv'
  <1>1. CASE UNCHANGED vars
    BY <1>1 DEF vars, PlanInv
  <1>2. CASE \E n \in Nodes : Check(n)
    <2>1. PICK n \in Nodes : Check(n)
      BY <1>2
    <2>2. QED
      BY <2>1, ChangeAlivePlaced DEF Check
  <1>3. CASE \E r \in Requests :
                \/ \E want \in Wants : Ask(r, want)
                \/ Select(r) \/ Attempt(r) \/ Leave(r)
    BY <1>3, AskPlaced, ReadEntriesPlaced, ReadOfflinePlaced, ReadTemplatesPlaced,
       ReadAnyPlaced, AttemptPlaced, LeavePlaced DEF Select
  <1>4. QED
    BY <1>1, <1>2, <1>3 DEF Next

LEMMA PlanAlways == Spec => []PlanInv
  <1>1. PlanInv /\ [Next]_vars => PlanInv'
    BY PlanNext
  <1>2. QED
    BY PlanInit, <1>1, PTL DEF Spec

\* Whatever the nodes and templates, their classes, premium marks and orders,
\* and however nodes come and go between the reads of a selection: the
\* attempts of a request follow the documented order, at most max_attempts of
\* them use a node, and a template follows a node only where the settings or
\* its premium mark allow it (SelectEgressCandidates, proxyAttemptRoutes).
THEOREM PlansStayInOrder == Spec => []AttemptsInOrder
  <1>1. PlanInv => AttemptsInOrder
    BY DEF PlanInv, Placed, TriesWell, AttemptsInOrder
  <1>2. QED
    BY PlanAlways, <1>1, PTL

\* Whatever they are: a request is refused only if no suitable node was alive
\* all through its selection, and tries nothing before a candidate placed no
\* later than every node that was.
THEOREM StayingNodesCount == Spec => []NothingMissed
  <1>1. ASSUME NEW r \in Requests
        PROVE  Available(r) = AvailableTo(req[r])
    BY DEF Available, AvailableTo, AnyRegion
  <1>2. PlanInv => NothingMissed
    BY <1>1 DEF PlanInv, Placed, RefusesWell, TriesWell, NothingMissed, Current
  <1>3. QED
    BY PlanAlways, <1>2, PTL

=============================================================================
