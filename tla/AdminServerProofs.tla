-------------------------- MODULE AdminServerProofs --------------------------
(***************************************************************************)
(* What fileMu gives the Admin API for any number of handlers, any files   *)
(* and any requests: no edit of a configuration file is lost. That logins  *)
(* are bounded however they overlap. That an answer with success means     *)
(* what it says. And that the edits of metadata leave the aliases of a     *)
(* pool unambiguous, whatever servers they name.                           *)
(*                                                                         *)
(* The first invariant is about the span from the reading of a file to its *)
(* replacement: one handler at most is in it, and the disk still holds     *)
(* what that handler read. A step of any other handler leaves both alone,  *)
(* because it neither holds fileMu nor writes without it.                  *)
(***************************************************************************)
EXTENDS AdminServer, FiniteSetTheorems, TLAPS

Holding == {"edit", "load"}

\* The files are a function of the sections, the handlers have a stage each.
Shape ==
    /\ disk = [s \in Sections |-> disk[s]]
    /\ DOMAIN stage = Handlers /\ DOMAIN copy = Handlers

SerialInv ==
    /\ Shape
    /\ \A h \in Handlers : stage[h] \in Holding => fileMu = h
    /\ \A h \in Handlers : stage[h] = "edit" => copy[h] = disk

-----------------------------------------------------------------------------
(* Steps outside of the span.                                              *)

\* A handler goes to a stage outside of the span, and frees fileMu at most if
\* it holds it; its own copy may be another one.
QuietStep(h, l) ==
    /\ disk' = disk
    /\ l \notin Holding /\ stage' = [stage EXCEPT ![h] = l]
    /\ fileMu' \in {fileMu, Unlocked(h)}
    /\ DOMAIN copy' = Handlers
    /\ \A g \in Handlers \ {h} : copy'[g] = copy[g]

LEMMA QuietOK ==
    ASSUME SerialInv, NEW h \in Handlers, NEW l, QuietStep(h, l)
    PROVE  SerialInv'
  <1>1. Shape'
    BY DEF SerialInv, Shape, QuietStep
  <1>2. /\ stage'[h] = l
        /\ \A g \in Handlers \ {h} : stage'[g] = stage[g]
    BY DEF SerialInv, Shape, QuietStep
  <1>3. ASSUME NEW g \in Handlers, stage'[g] \in Holding
        PROVE  fileMu' = g /\ (stage'[g] = "edit" => copy'[g] = disk')
    <2>1. g # h /\ stage[g] = stage'[g]
      BY <1>2, <1>3 DEF QuietStep
    <2>2. fileMu = g
      BY <1>3, <2>1 DEF SerialInv
    <2>3. fileMu' = g
      BY <2>1, <2>2 DEF QuietStep, Unlocked
    <2>4. QED
      BY <2>1, <2>3 DEF SerialInv, QuietStep
  <1>4. QED
    BY <1>1, <1>3 DEF SerialInv, Holding

\* Proceed and Answer as such steps.
LEMMA ProceedQuiet ==
    ASSUME SerialInv, NEW h \in Handlers, NEW l, l \notin Holding,
           Proceed(h, l), disk' = disk, fileMu' = fileMu
    PROVE  QuietStep(h, l)
  BY DEF SerialInv, Shape, Proceed, Go, QuietStep

LEMMA AnswerQuiet ==
    ASSUME SerialInv, NEW h \in Handlers, NEW a,
           Answer(h, a), disk' = disk, fileMu' \in {fileMu, Unlocked(h)}
    PROVE  QuietStep(h, "idle")
  BY DEF SerialInv, Shape, Answer, Go, QuietStep, Holding

LEMMA TakeOK ==
    ASSUME SerialInv, NEW h \in Handlers, NEW r, Take(h, r)
    PROVE  SerialInv'
  <1>1. FirstStage(r) \in {"login", "refresh", "reload", "switch", "lock"}
    BY DEF FirstStage
  <1>2. PICK l : l = FirstStage(r) /\ QuietStep(h, l)
    BY <1>1 DEF Take, Go, QuietStep, Holding, SerialInv, Shape
  <1>3. QED
    BY <1>2, QuietOK

\* Everything a handler does without touching the files or entering the span.
LEMMA OutsideOK ==
    ASSUME SerialInv, NEW h \in Handlers,
           \/ SwitchNode(h) \/ SwitchLog(h) \/ EditRefused(h) \/ LoadSaved(h)
           \/ LoadFails(h) \/ Apply(h) \/ ReloadRead(h) \/ ReloadSkip(h)
           \/ ReloadApply(h) \/ ReloadEnds(h) \/ Refresh(h)
           \/ LoginAllowed(h) \/ PasswordCompared(h)
    PROVE  SerialInv'
  <1>1. CASE SwitchNode(h)
    <2>1. Proceed(h, "lock") \/ Answer(h, "error")
      BY <1>1 DEF SwitchNode
    <2>2. disk' = disk /\ fileMu' = fileMu
      BY <1>1 DEF SwitchNode
    <2>3. QED
      BY <2>1, <2>2, ProceedQuiet, AnswerQuiet, QuietOK, SMTT(30) DEF Holding
  <1>2. CASE SwitchLog(h)
    <2>1. Proceed(h, "lock") /\ disk' = disk /\ fileMu' = fileMu
      BY <1>2 DEF SwitchLog
    <2>2. QED
      BY <2>1, ProceedQuiet, QuietOK DEF Holding
  <1>3. CASE \/ EditRefused(h) \/ LoadSaved(h) \/ LoadFails(h) \/ Apply(h)
             \/ ReloadEnds(h) \/ Refresh(h)
    <2>1. \E a : Answer(h, a)
      BY <1>3 DEF EditRefused, LoadSaved, LoadFails, Apply, ReloadEnds,
         Refresh
    <2>2. disk' = disk /\ fileMu' \in {fileMu, Unlocked(h)}
      BY <1>3 DEF EditRefused, LoadSaved, LoadFails, Apply, ReloadEnds,
         Refresh
    <2>3. QED
      BY <2>1, <2>2, AnswerQuiet, QuietOK
  <1>4. CASE LoginAllowed(h) \/ PasswordCompared(h)
    <2>1. Proceed(h, "password") \/ \E a : Answer(h, a)
      BY <1>4 DEF LoginAllowed, PasswordCompared
    <2>2. disk' = disk /\ fileMu' = fileMu
      BY <1>4 DEF LoginAllowed, PasswordCompared
    <2>3. QED
      BY <2>1, <2>2, ProceedQuiet, AnswerQuiet, QuietOK DEF Holding
  <1>5. CASE ReloadRead(h)
    <2>1. QuietStep(h, "reloading")
      BY <1>5 DEF ReloadRead, Go, QuietStep, Holding, SerialInv, Shape
    <2>2. QED
      BY <2>1, QuietOK
  <1>6. CASE ReloadSkip(h) \/ ReloadApply(h)
    <2>1. QuietStep(h, "reload")
      BY <1>6 DEF ReloadSkip, ReloadApply, Go, QuietStep, Holding,
         SerialInv, Shape
    <2>2. QED
      BY <2>1, QuietOK
  <1>7. QED
    BY <1>1, <1>2, <1>3, <1>4, <1>5, <1>6

-----------------------------------------------------------------------------
(* The span itself.                                                        *)

LEMMA LockOK ==
    ASSUME SerialInv, NEW h \in Handlers, Lock(h)
    PROVE  SerialInv'
  <1>1. /\ fileMu = Free /\ fileMu' = h /\ disk' = disk
        /\ stage' = [stage EXCEPT ![h] = "edit"]
        /\ copy' = [copy EXCEPT ![h] = disk]
    BY DEF Lock, Go
  <1>2. \A g \in Handlers : stage[g] \notin Holding
    BY <1>1, FreeAssumption DEF SerialInv
  <1>3. Shape'
    BY <1>1 DEF SerialInv, Shape
  <1>4. \A g \in Handlers : g # h => stage'[g] = stage[g]
    BY <1>1 DEF SerialInv, Shape
  <1>5. copy'[h] = disk
    BY <1>1 DEF SerialInv, Shape
  <1>6. QED
    BY <1>1, <1>2, <1>3, <1>4, <1>5 DEF SerialInv, Holding

\* What the handler saves is its edit of the files as they are.
LEMMA SavedIsEdit ==
    ASSUME SerialInv, NEW h \in Handlers, stage[h] = "edit"
    PROVE  Saved(h) = [disk EXCEPT ![Section(job[h])] =
                           Edited(job[h], @, keys[h])]
  <1>1. copy[h] = disk /\ disk = [s \in Sections |-> disk[s]]
    BY DEF SerialInv, Shape
  <1>2. QED
    BY <1>1 DEF Saved

LEMMA SaveOK ==
    ASSUME SerialInv, NEW h \in Handlers, Save(h)
    PROVE  SerialInv'
  <1>1. /\ stage[h] = "edit" /\ disk' = Saved(h)
        /\ fileMu' \in {fileMu, Unlocked(h)}
    BY DEF Save
  <1>2. fileMu = h
    BY <1>1 DEF SerialInv, Holding
  <1>3. \/ Proceed(h, "load") /\ fileMu' = fileMu
        \/ Answer(h, "ok")
        \/ Go(h, "apply") /\ copy' = [copy EXCEPT ![h] = Saved(h)]
    BY DEF Save
  <1>4. PICK l : /\ stage' = [stage EXCEPT ![h] = l] /\ l # "edit"
                 /\ l = "load" => fileMu' = h
    BY <1>2, <1>3 DEF Proceed, Answer, Go
  <1>5. DOMAIN copy' = Handlers
    BY <1>3 DEF SerialInv, Shape, Proceed, Answer
  <1>6. disk' = [s \in Sections |-> disk'[s]]
    BY <1>1 DEF Saved
  <1>7. Shape'
    BY <1>4, <1>5, <1>6 DEF SerialInv, Shape
  <1>8. ASSUME NEW g \in Handlers, g # h PROVE stage'[g] \notin Holding
    BY <1>2, <1>4, <1>8 DEF SerialInv, Shape
  <1>9. stage'[h] = l
    BY <1>4 DEF SerialInv, Shape
  <1>10. QED
    BY <1>4, <1>7, <1>8, <1>9 DEF SerialInv, Holding

-----------------------------------------------------------------------------
(* The theorem.                                                            *)

LEMMA InitOK == Init => SerialInv
  <1> SUFFICES ASSUME Init PROVE SerialInv
    OBVIOUS
  <1>1. disk = FirstDisk
    BY Zenon DEF Init
  <1>2. stage = [h \in Handlers |-> "idle"]
    BY Zenon DEF Init
  <1>3. copy = [h \in Handlers |-> FirstDisk]
    BY Zenon DEF Init
  <1>4. QED
    BY <1>1, <1>2, <1>3, FilesAssumption DEF SerialInv, Shape, Holding

LEMMA RestartOK ==
    ASSUME SerialInv, Restart
    PROVE  SerialInv'
  <1>1. /\ disk' = disk
        /\ stage' = [h \in Handlers |-> "idle"]
        /\ copy' = [h \in Handlers |-> FirstDisk]
    BY DEF Restart
  <1>2. QED
    BY <1>1 DEF SerialInv, Shape, Holding

LEMMA NextOK == SerialInv /\ [Next]_vars => SerialInv'
  <1> SUFFICES ASSUME SerialInv, [Next]_vars PROVE SerialInv'
    OBVIOUS
  <1>1. ASSUME NEW h \in Handlers, Serve(h) PROVE SerialInv'
    BY <1>1, OutsideOK, LockOK, SaveOK DEF Serve
  <1>2. ASSUME NEW h \in Handlers, NEW r \in workload.requests, Take(h, r)
        PROVE  SerialInv'
    BY <1>2, TakeOK
  <1>3. CASE Restart
    BY <1>3, RestartOK
  <1>4. CASE Tick \/ UNCHANGED vars
    <2>1. /\ disk' = disk /\ stage' = stage /\ copy' = copy
          /\ fileMu' = fileMu
      BY <1>4 DEF Tick, vars, handling
    <2>2. QED
      BY <2>1 DEF SerialInv, Shape
  <1>5. QED
    BY <1>1, <1>2, <1>3, <1>4 DEF Next

\* The files change in Save only.
LEMMA OnlySaves ==
    ASSUME [Next]_vars, disk' # disk
    PROVE  \E h \in Handlers : Save(h)
  BY ZenonT(60) DEF Next, Serve, vars, handling, SwitchNode, SwitchLog, Lock,
     EditRefused, LoadSaved, LoadFails, Apply, ReloadRead, ReloadSkip,
     ReloadApply, ReloadEnds, Refresh, LoginAllowed, PasswordCompared,
     Take, Tick, Restart

\* There as the property says.
LEMMA ChangesAreEdits ==
    ASSUME SerialInv, [Next]_vars, disk' # disk
    PROVE  \E h \in Handlers :
               /\ stage[h] = "edit"
               /\ disk' = [disk EXCEPT ![Section(job[h])] =
                              Edited(job[h], @, keys[h])]
  <1>1. PICK h \in Handlers : Save(h)
    BY OnlySaves
  <1>2. stage[h] = "edit" /\ disk' = Saved(h)
    BY <1>1 DEF Save
  <1>3. QED
    BY <1>2, SavedIsEdit, SMTT(30)

\* No edit of a configuration file is lost, whatever requests are served side
\* by side: each is made of the file as it is when it is replaced (fileMu).
THEOREM NoEditLost == Spec => EditsSerial
  <1>1. Init => SerialInv
    BY InitOK
  <1>2. SerialInv /\ [Next]_vars => SerialInv'
    BY NextOK
  <1>3. SerialInv /\ [Next]_vars =>
            (disk' # disk =>
                \E h \in Handlers :
                    /\ stage[h] = "edit"
                    /\ disk' = [disk EXCEPT ![Section(job[h])] =
                                   Edited(job[h], @, keys[h])])
    BY ChangesAreEdits
  <1>4. QED
    BY <1>1, <1>2, <1>3, PTL DEF Spec, EditsSerial

-----------------------------------------------------------------------------
(* Logins.  The limiter of one address, with its numbers as parameters.    *)

Crowd == Cardinality(Handlers)
Most == MaxFailures + Crowd - 1
Span == IF Window + 1 < Lockout THEN Window + 1 ELSE Lockout

LEMMA Limits ==
    /\ Crowd \in Nat /\ Most \in Nat /\ Crowd + MaxFailures - 1 = Most
    /\ MaxFailures \in Nat \ {0} /\ Lockout \in Nat \ {0}
    /\ Window \in Nat \ {0}
    /\ Span \in Nat \ {0} /\ Span <= Window + 1 /\ Span <= Lockout
  <1>1. Crowd \in Nat
    BY HandlersAssumption, FS_CardinalityType DEF Crowd
  <1>2. QED
    BY <1>1, LimiterAssumption DEF Most, Span

\* How many guesses a run of guesses may have had between two instants.
Pace(t, since) == Most * ((t - since) \div Span)

\* Whole spans, and a number of guesses for each.
LEMMA DivGrows ==
    ASSUME NEW d \in Nat \ {0}, NEW a \in Nat, NEW b \in Nat
    PROVE  /\ a \div d \in Nat
           /\ a <= b => a \div d <= b \div d
           /\ a + d <= b => a \div d + 1 <= b \div d
  <1>1. a \div d \in Nat
    OBVIOUS
  <1>2. a <= b => a \div d <= b \div d
    OBVIOUS
  <1>3. a + d <= b => a \div d + 1 <= b \div d
    OBVIOUS
  <1>4. QED
    BY <1>1, <1>2, <1>3

LEMMA TimesGrows ==
    ASSUME NEW m \in Nat, NEW a \in Nat, NEW b \in Nat
    PROVE  /\ m * a \in Nat
           /\ a <= b => m * a <= m * b
           /\ a + 1 <= b => m * a + m <= m * b
           /\ m * (1 + a) = m * a + m
  OBVIOUS

\* No fewer later on, and a whole lot more after a window or a lock.
LEMMA PaceGrows ==
    ASSUME NEW s \in Nat, NEW t \in Nat, NEW u \in Nat, s <= t, t <= u
    PROVE  /\ Pace(t, s) \in Nat /\ Pace(t, s) <= Pace(u, s)
           /\ t + Window < u \/ t + Lockout <= u
                 => Pace(t, s) + Most <= Pace(u, s)
  <1>1. Span \in Nat \ {0} /\ Span <= Window + 1 /\ Span <= Lockout
    BY Limits
  <1>2. Most \in Nat
    BY Limits
  <1>3. PICK a \in Nat, b \in Nat : a = t - s /\ b = u - s /\ a <= b
    OBVIOUS
  <1>4. /\ a \div Span \in Nat /\ b \div Span \in Nat
        /\ a \div Span <= b \div Span
        /\ a + Span <= b => a \div Span + 1 <= b \div Span
    BY <1>1, <1>3, DivGrows
  <1>5. t + Window < u \/ t + Lockout <= u => a + Span <= b
    BY <1>1, <1>3, Limits
  <1>6. QED
    BY <1>2, <1>3, <1>4, <1>5, TimesGrows DEF Pace

\* The entry of an address (f failures since F, a lock until L), its n guesses
\* since s, and p handlers about to compare one more, at the time t.  While it
\* is open, the guesses of the running window are the failures it counts, or
\* follow a lock that fell at r.  While it is locked, those p are all that can
\* still come, and the lock lasts at least Lockout from F or from r.
CountOK(f, F, L, n, s, p, t) ==
    IF F = 0 THEN n <= Pace(t, s)
    ELSE IF L <= t THEN
      IF f < MaxFailures
      THEN \/ n <= Pace(F, s) + f
           \/ \E r \in s..F : r + Lockout <= L /\ n <= Pace(r, s) + Crowd + f - 1
      ELSE n <= Pace(t, s)
    ELSE IF f < MaxFailures
      THEN \/ n + p <= Pace(F, s)
           \/ \E r \in s..F : r + Lockout <= L /\ n + p <= Pace(r, s) + Crowd
      ELSE \/ F + Lockout <= L /\ n + p <= Pace(F, s) + Most
           \/ \E r \in s..t : r + Lockout <= L /\ n + p <= Pace(r, s) + Crowd

GuessOK(f, F, L, n, s, p, t) ==
    /\ n = 0 => f = 0 /\ F = 0 /\ L = 0
    /\ F = 0 => f = 0 /\ L <= t
    /\ F # 0 => s <= F /\ F <= t /\ 1 <= f
    /\ s <= t
    /\ n # 0 => CountOK(f, F, L, n, s, p, t)

\* The clock: the end of a lock pays for the guesses made under it.
LEMMA ClockCounts ==
    ASSUME NEW f \in Nat, NEW F \in Nat, NEW L \in Nat, NEW n \in Nat,
           NEW s \in Nat, NEW t \in Nat \ {0}, NEW p \in 0..Crowd,
           GuessOK(f, F, L, n, s, p, t)
    PROVE  GuessOK(f, F, L, n, s, p, t+1)
  <1> SUFFICES ASSUME n # 0 PROVE CountOK(f, F, L, n, s, p, t+1)
    BY DEF GuessOK
  <1>0. /\ s <= t /\ CountOK(f, F, L, n, s, p, t)
        /\ F # 0 => s <= F /\ F <= t /\ 1 <= f
        /\ F = 0 => f = 0 /\ L <= t
    BY DEF GuessOK
  <1>1. /\ Most \in Nat /\ Crowd <= Most /\ Crowd \in Nat
        /\ Crowd + MaxFailures - 1 = Most
    BY Limits
  <1>20. t \in Nat /\ t+1 \in Nat /\ t <= t+1
    OBVIOUS
  <1>2. Pace(t, s) \in Nat /\ Pace(t+1, s) \in Nat /\ Pace(t, s) <= Pace(t+1, s)
    <2>1. Pace(t, s) \in Nat /\ Pace(t, s) <= Pace(t+1, s)
      BY <1>0, <1>20, PaceGrows, Zenon
    <2>2. t+1 <= t+1 /\ s <= t+1
      BY <1>0
    <2>3. Pace(t+1, s) \in Nat
      BY <2>2, <1>20, PaceGrows, Zenon
    <2>4. QED
      BY <2>1, <2>3
  <1>3. CASE F = 0
    BY <1>0, <1>2, <1>3 DEF CountOK
  <1>4. CASE F # 0 /\ L <= t
    BY <1>0, <1>2, <1>4 DEF CountOK
  <1>5. CASE F # 0 /\ L > t + 1
    BY <1>0, <1>2, <1>5 DEF CountOK
  <1>6. CASE F # 0 /\ L = t + 1
    <2>1. Pace(F, s) \in Nat /\ Pace(F, s) <= Pace(t+1, s)
          /\ (F + Lockout <= t+1 => Pace(F, s) + Most <= Pace(t+1, s))
      BY <1>0, <1>6, PaceGrows
    <2>2. ASSUME NEW r \in s..t
          PROVE  /\ Pace(r, s) \in Nat
                 /\ r + Lockout <= t+1 => Pace(r, s) + Most <= Pace(t+1, s)
      <3>1. r \in Nat /\ s <= r /\ r <= t+1
        BY <1>0
      <3>2. QED
        BY <1>20, <3>1, PaceGrows, Zenon
    <2>3. CASE f < MaxFailures
      BY <1>0, <1>1, <1>2, <1>6, <2>1, <2>2, <2>3 DEF CountOK
    <2>4. CASE f >= MaxFailures
      BY <1>0, <1>1, <1>2, <1>6, <2>1, <2>2, <2>4, Limits DEF CountOK
    <2>5. QED
      BY <2>3, <2>4, Limits
  <1>7. QED
    BY <1>3, <1>4, <1>5, <1>6

\* A handler passes allow, which may close a window that is over.
LEMMA AllowCounts ==
    ASSUME NEW f \in Nat, NEW F \in Nat, NEW L \in Nat, NEW n \in Nat,
           NEW s \in Nat, NEW t \in Nat \ {0}, NEW p \in 0..Crowd,
           NEW q \in 0..Crowd, GuessOK(f, F, L, n, s, p, t), L <= t
    PROVE  /\ GuessOK(f, F, L, n, s, q, t)
           /\ F # 0 /\ t - F > Window => GuessOK(0, 0, L, n, s, q, t)
  <1>1. GuessOK(f, F, L, n, s, q, t)
    BY DEF GuessOK, CountOK
  <1>2. ASSUME F # 0, t - F > Window PROVE GuessOK(0, 0, L, n, s, q, t)
    <2> SUFFICES ASSUME n # 0 PROVE n <= Pace(t, s)
      BY DEF GuessOK, CountOK
    <2>1. /\ s <= F /\ F <= t /\ 1 <= f /\ CountOK(f, F, L, n, s, p, t)
      BY <1>2 DEF GuessOK
    <2>2. /\ Pace(F, s) \in Nat /\ Pace(t, s) \in Nat
          /\ Pace(F, s) + Most <= Pace(t, s)
      <3>1. F + Window < t /\ s <= t /\ t <= t /\ t \in Nat
        BY <1>2, <2>1, Limits
      <3>2. QED
        BY <2>1, <3>1, PaceGrows, Zenon
    <2>3. ASSUME NEW r \in s..F
          PROVE  Pace(r, s) \in Nat /\ Pace(r, s) <= Pace(F, s)
      <3>1. r \in Nat /\ s <= r /\ r <= F
        BY <2>1
      <3>2. QED
        BY <3>1, PaceGrows, Zenon
    <2>4. /\ Most \in Nat /\ Crowd + MaxFailures - 1 = Most /\ Crowd \in Nat
          /\ MaxFailures \in Nat \ {0}
      BY Limits
    <2>5. QED
      BY <2>1, <2>2, <2>3, <2>4, <1>2, Limits DEF CountOK
  <1>3. QED
    BY <1>1, <1>2

\* The entry (f, F, L) and the run (n, s) after one failure more.
OneMore(f, F, L, n, s, t, g, G, K, u) ==
    /\ g = IF F = 0 \/ t - F > Window THEN 1 ELSE f + 1
    /\ G = IF F = 0 \/ t - F > Window THEN t ELSE F
    /\ K = IF g >= MaxFailures THEN t + Lockout ELSE L
    /\ u = IF n = 0 THEN t ELSE s

\* One of the handlers that passed compares a wrong password (recordFailure).
LEMMA FailureCounts ==
    ASSUME NEW f \in Nat, NEW F \in Nat, NEW L \in Nat, NEW n \in Nat,
           NEW s \in Nat, NEW t \in Nat \ {0}, NEW p \in 0..Crowd,
           GuessOK(f, F, L, n, s, p, t), p # 0,
           NEW g, NEW G, NEW K, NEW u, OneMore(f, F, L, n, s, t, g, G, K, u)
    PROVE  GuessOK(g, G, K, n + 1, u, p - 1, t)
  <1>1. /\ Most \in Nat /\ Crowd + MaxFailures - 1 = Most /\ Crowd \in Nat
        /\ MaxFailures \in Nat \ {0} /\ Lockout \in Nat \ {0}
        /\ Window \in Nat \ {0}
    BY Limits
  <1>0. /\ g = IF F = 0 \/ t - F > Window THEN 1 ELSE f + 1
        /\ G = IF F = 0 \/ t - F > Window THEN t ELSE F
        /\ K = IF g >= MaxFailures THEN t + Lockout ELSE L
        /\ u = IF n = 0 THEN t ELSE s
    BY DEF OneMore
  <1>2. /\ g \in Nat /\ G \in Nat /\ K \in Nat /\ u \in Nat
        /\ n + 1 \in Nat /\ p - 1 \in 0..Crowd
    BY <1>0, <1>1
  <1>3. CASE n = 0
    <2>1. /\ F = 0 /\ f = 0 /\ L = 0 /\ g = 1 /\ G = t /\ u = t
      BY <1>0, <1>3 DEF GuessOK
    <2>2. t \in Nat /\ t <= t
      OBVIOUS
    <2>3. Pace(t, t) \in Nat
      BY <2>2, PaceGrows, Zenon
    <2>4. CountOK(g, G, K, n + 1, u, p - 1, t)
      BY <1>0, <1>1, <1>3, <2>1, <2>3 DEF CountOK
    <2>5. QED
      BY <1>1, <1>2, <2>1, <2>4 DEF GuessOK
  <1>4. CASE n # 0
    <2>1. /\ s <= t /\ CountOK(f, F, L, n, s, p, t) /\ u = s
          /\ F # 0 => s <= F /\ F <= t /\ 1 <= f
          /\ F = 0 => f = 0 /\ L <= t
      BY <1>0, <1>4 DEF GuessOK
    <2>2. t \in Nat /\ t <= t
      OBVIOUS
    <2>3. Pace(t, s) \in Nat
      BY <2>1, <2>2, PaceGrows, Zenon
    <2>4. ASSUME NEW r \in s..t
          PROVE  /\ Pace(r, s) \in Nat /\ Pace(r, s) <= Pace(t, s)
                 /\ r + Window < t \/ r + Lockout <= t
                       => Pace(r, s) + Most <= Pace(t, s)
      <3>1. r \in Nat /\ s <= r /\ r <= t
        BY <2>1
      <3>2. QED
        BY <2>2, <3>1, PaceGrows, Zenon
    <2>5. ASSUME F # 0
          PROVE  /\ Pace(F, s) \in Nat /\ Pace(F, s) <= Pace(t, s)
                 /\ t - F > Window => Pace(F, s) + Most <= Pace(t, s)
      <3>1. F \in s..t
        BY <2>1, <2>5
      <3>2. QED
        BY <1>1, <2>4, <3>1
    <2>6. ASSUME NEW r \in s..F, F # 0
          PROVE  r \in s..t /\ Pace(r, s) <= Pace(F, s)
      <3>1. r \in Nat /\ s <= r /\ r <= F /\ r \in s..t
        BY <2>1, <2>6
      <3>2. QED
        BY <3>1, PaceGrows, Zenon
    <2>7. CASE F = 0 \/ t - F > Window
      <3>1. g = 1 /\ G = t
        BY <1>0, <2>7
      <3>2. CASE L <= t
        <4>1. n <= Pace(t, s)
          BY <1>1, <2>1, <2>3, <2>4, <2>5, <2>6, <2>7, <3>2 DEF CountOK
        <4>2. CountOK(g, G, K, n + 1, u, p - 1, t)
          BY <1>0, <1>1, <2>1, <2>3, <3>1, <3>2, <4>1 DEF CountOK
        <4>3. QED
          BY <1>1, <1>2, <2>1, <3>1, <4>2 DEF GuessOK
      <3>3. CASE L > t
        <4>1. \/ n + p <= Pace(t, s)
              \/ \E r \in s..t : r + Lockout <= L /\ n + p <= Pace(r, s) + Crowd
          BY <1>1, <2>1, <2>3, <2>4, <2>5, <2>6, <2>7, <3>3 DEF CountOK
        <4>2. CountOK(g, G, K, n + 1, u, p - 1, t)
          <5>1. CASE g < MaxFailures
            BY <1>0, <1>1, <2>1, <2>3, <2>4, <3>1, <3>3, <4>1, <5>1 DEF CountOK
          <5>2. CASE g >= MaxFailures
            BY <1>0, <1>1, <2>1, <2>3, <2>4, <3>1, <3>3, <4>1, <5>2 DEF CountOK
          <5>3. QED
            BY <1>1, <1>2, <5>1, <5>2
        <4>3. QED
          BY <1>1, <1>2, <2>1, <3>1, <4>2 DEF GuessOK
      <3>4. QED
        BY <3>2, <3>3
    <2>8. CASE ~(F = 0 \/ t - F > Window)
      <3>1. g = f + 1 /\ G = F /\ F # 0
        BY <1>0, <2>8
      <3>2. CASE g < MaxFailures
        <4>1. K = L /\ f < MaxFailures
          BY <1>0, <1>1, <3>1, <3>2
        <4>2. CountOK(g, G, K, n + 1, u, p - 1, t)
          BY <1>1, <2>1, <2>5, <2>4, <2>6, <3>1, <3>2, <4>1 DEF CountOK
        <4>3. QED
          BY <1>1, <1>2, <2>1, <3>1, <4>2 DEF GuessOK
      <3>3. CASE g >= MaxFailures
        <4>1. K = t + Lockout
          BY <1>0, <3>3
        <4>2. \/ n + p <= Pace(F, s) + Most
              \/ \E r \in s..t : n + p <= Pace(r, s) + Crowd
          <5>1. CASE L <= t /\ f >= MaxFailures
            BY <1>0, <1>1, <2>1, <2>3, <3>1, <5>1 DEF CountOK
          <5>2. CASE L <= t /\ f < MaxFailures
            <6>1. f = MaxFailures - 1
              BY <1>1, <3>1, <3>3, <5>2
            <6>2. \/ n <= Pace(F, s) + f
                  \/ \E r \in s..F : /\ r + Lockout <= t
                                    /\ n <= Pace(r, s) + Crowd + f - 1
              BY <1>1, <2>1, <3>1, <5>2 DEF CountOK
            <6>3. ASSUME NEW r \in s..F, r + Lockout <= t,
                         n <= Pace(r, s) + Crowd + f - 1
                  PROVE  n + p <= Pace(t, s) + Crowd
              <7>1. Pace(r, s) \in Nat /\ Pace(r, s) + Most <= Pace(t, s)
                BY <2>4, <2>6, <3>1, <6>3
              <7>2. QED
                BY <1>1, <2>3, <6>1, <6>3, <7>1
            <6>4. t \in s..t
              BY <2>1
            <6>5. QED
              BY <1>1, <2>3, <2>5, <3>1, <6>1, <6>2, <6>3, <6>4
          <5>3. CASE L > t
            BY <1>1, <2>1, <2>5, <2>4, <2>6, <3>1, <5>3 DEF CountOK
          <5>4. QED
            BY <1>1, <5>1, <5>2, <5>3
        <4>3. CountOK(g, G, K, n + 1, u, p - 1, t)
          BY <1>1, <2>1, <2>5, <2>4, <3>1, <3>3, <4>1, <4>2 DEF CountOK
        <4>4. QED
          BY <1>1, <1>2, <2>1, <3>1, <4>3 DEF GuessOK
      <3>4. QED
        BY <1>1, <1>2, <3>2, <3>3
    <2>9. QED
      BY <2>7, <2>8
  <1>5. QED
    BY <1>3, <1>4

\* Its entry is removed because it is long past.
LEMMA StaleCounts ==
    ASSUME NEW f \in Nat, NEW F \in Nat, NEW L \in Nat, NEW n \in Nat,
           NEW s \in Nat, NEW t \in Nat \ {0}, NEW p \in 0..Crowd,
           GuessOK(f, F, L, n, s, p, t),
           L < t - Lockout \/ L = 0, F < t - Window \/ F = 0
    PROVE  GuessOK(0, 0, 0, n, s, p, t)
  <1>1. L <= t /\ (F # 0 => t - F > Window)
    BY Limits
  <1>2. CASE F # 0
    <2>1. GuessOK(0, 0, L, n, s, p, t)
      BY <1>1, <1>2, AllowCounts, Zenon
    <2>2. QED
      BY <2>1 DEF GuessOK, CountOK
  <1>3. CASE F = 0
    BY <1>1, <1>3 DEF GuessOK, CountOK
  <1>4. QED
    BY <1>2, <1>3

\* What the property asks.
LEMMA CountBounded ==
    ASSUME NEW f \in Nat, NEW F \in Nat, NEW L \in Nat, NEW n \in Nat,
           NEW s \in Nat, NEW t \in Nat \ {0}, NEW p \in 0..Crowd,
           GuessOK(f, F, L, n, s, p, t)
    PROVE  n <= Pace(t, s) + Most
  <1>0. s <= t /\ t \in Nat /\ t <= t
    BY DEF GuessOK
  <1>1. /\ Most \in Nat /\ Crowd + MaxFailures - 1 = Most /\ Crowd \in Nat
        /\ MaxFailures \in Nat \ {0} /\ Lockout \in Nat \ {0}
        /\ Window \in Nat \ {0}
    BY Limits
  <1>2. Pace(t, s) \in Nat
    BY <1>0, PaceGrows, Zenon
  <1>3. CASE n = 0
    BY <1>1, <1>2, <1>3
  <1>4. CASE n # 0
    <2>1. /\ CountOK(f, F, L, n, s, p, t)
          /\ F # 0 => s <= F /\ F <= t /\ 1 <= f
          /\ F = 0 => f = 0 /\ L <= t
      BY <1>4 DEF GuessOK
    <2>4. ASSUME NEW r \in s..t
          PROVE  /\ Pace(r, s) \in Nat /\ Pace(r, s) <= Pace(t, s)
                 /\ r + Lockout <= t => Pace(r, s) + Most <= Pace(t, s)
      <3>1. r \in Nat /\ s <= r /\ r <= t
        BY <1>0
      <3>2. QED
        BY <1>0, <3>1, PaceGrows, Zenon
    <2>5. F # 0 => F \in s..t
      BY <2>1
    <2>6. \A r \in s..F : F # 0 => r \in s..t
      BY <2>1
    <2>7. CASE F = 0 \/ L > t
      BY <1>1, <1>2, <2>1, <2>4, <2>5, <2>6, <2>7 DEF CountOK
    <2>8. CASE F # 0 /\ L <= t
      BY <1>1, <1>2, <2>1, <2>4, <2>5, <2>6, <2>8 DEF CountOK
    <2>9. QED
      BY <2>7, <2>8
  <1>5. QED
    BY <1>3, <1>4
-----------------------------------------------------------------------------
(* The limiter in the server.                                              *)

\* The handlers that passed allow for an address and have yet to compare.
Waiting(ip) == {h \in Handlers : stage[h] = "password" /\ job[h].ip = ip}

Within(ip) ==
    GuessOK(Known(entries, ip).failures, Known(entries, ip).firstFail,
            Known(entries, ip).lockedTill, guesses[ip].count,
            guesses[ip].since, Cardinality(Waiting(ip)), now)

LoginShape ==
    /\ DOMAIN stage = Handlers /\ DOMAIN job = Handlers
    /\ now \in Nat \ {0}
    /\ \A x \in DOMAIN entries : entries[x] \in Entry
    /\ guesses \in [Ips -> [count : Nat, since : Nat]]

GuessInv ==
    /\ LoginShape
    /\ \A ip \in Ips : Within(ip)

LEMMA KnownNumbers ==
    ASSUME LoginShape, NEW ip
    PROVE  /\ Known(entries, ip) \in Entry
           /\ Known(entries, ip).failures \in Nat
           /\ Known(entries, ip).firstFail \in Nat
           /\ Known(entries, ip).lockedTill \in Nat
  BY DEF LoginShape, Known, Entry, NoEntry

LEMMA GuessNumbers ==
    ASSUME LoginShape, NEW ip \in Ips
    PROVE  guesses[ip].count \in Nat /\ guesses[ip].since \in Nat
  BY DEF LoginShape

LEMMA WaitingNumber ==
    ASSUME NEW W \in SUBSET Handlers
    PROVE  IsFiniteSet(W) /\ Cardinality(W) \in 0..Crowd
  <1>1. IsFiniteSet(W) /\ Cardinality(W) <= Cardinality(Handlers)
    BY HandlersAssumption, FS_Subset
  <1>2. Cardinality(W) \in Nat /\ Cardinality(Handlers) \in Nat
    BY <1>1, HandlersAssumption, FS_CardinalityType
  <1>3. QED
    BY <1>1, <1>2 DEF Crowd

LEMMA SameWithin ==
    ASSUME GuessInv, NEW ip \in Ips, Waiting(ip)' = Waiting(ip),
           Known(entries', ip) = Known(entries, ip),
           guesses'[ip] = guesses[ip], now' = now
    PROVE  Within(ip)'
  BY DEF GuessInv, Within

\* A handler at anything else than the comparison of a password.
AwayStep(h, l) ==
    /\ stage[h] # "password" /\ l # "password"
    /\ stage' = [stage EXCEPT ![h] = l]
    /\ DOMAIN job' = Handlers
    /\ \A g \in Handlers \ {h} : job'[g] = job[g]
    /\ UNCHANGED <<entries, guesses, now>>

LEMMA AwayOK ==
    ASSUME GuessInv, NEW h \in Handlers, NEW l, AwayStep(h, l)
    PROVE  GuessInv'
  <1>1. LoginShape'
    BY DEF GuessInv, LoginShape, AwayStep
  <1>2. ASSUME NEW ip \in Ips PROVE Within(ip)'
    <2>1. \A g \in Handlers : g \in Waiting(ip)' <=> g \in Waiting(ip)
      BY DEF Waiting, AwayStep, GuessInv, LoginShape
    <2>2. Waiting(ip)' = Waiting(ip)
      BY <2>1 DEF Waiting
    <2>3. /\ Known(entries', ip) = Known(entries, ip)
          /\ guesses'[ip] = guesses[ip] /\ now' = now
      BY SMTT(30) DEF AwayStep
    <2>4. QED
      BY <2>2, <2>3, SameWithin
  <1>3. QED
    BY <1>1, <1>2 DEF GuessInv

LEMMA OtherRequests ==
    ASSUME GuessInv, NEW h \in Handlers,
           \/ SwitchNode(h) \/ SwitchLog(h)
           \/ Lock(h) \/ EditRefused(h) \/ Save(h)
           \/ LoadSaved(h) \/ LoadFails(h) \/ Apply(h)
           \/ ReloadRead(h) \/ ReloadSkip(h) \/ ReloadApply(h) \/ ReloadEnds(h)
           \/ Refresh(h)
    PROVE  GuessInv'
  <1>1. stage[h] # "password" /\ UNCHANGED <<entries, guesses, now>>
    BY DEF SwitchNode, SwitchLog, Lock, EditRefused, Save, LoadSaved,
       LoadFails, Apply, ReloadRead, ReloadSkip, ReloadApply, ReloadEnds,
       Refresh, logins
  <1>2. DOMAIN job = Handlers
    BY DEF GuessInv, LoginShape
  <1>3. CASE \/ \E a : Answer(h, a)
             \/ Proceed(h, "lock") \/ Proceed(h, "load")
    <2>1. \E l : l # "password" /\ AwayStep(h, l)
      BY <1>1, <1>2, <1>3 DEF Answer, Proceed, Go, AwayStep
    <2>2. QED
      BY <2>1, AwayOK
  <1>4. CASE \E l \in {"edit", "apply", "reloading", "reload"} :
                Go(h, l) /\ (job' = job \/ \E r : job' = [job EXCEPT ![h] = r])
    <2>1. \E l : l # "password" /\ AwayStep(h, l)
      BY <1>1, <1>2, <1>4 DEF Go, AwayStep
    <2>2. QED
      BY <2>1, AwayOK
  <1>5. QED
    BY <1>3, <1>4, SMTT(30) DEF SwitchNode, SwitchLog, Lock, EditRefused, Save, LoadSaved,
       LoadFails, Apply, ReloadRead, ReloadSkip, ReloadApply, ReloadEnds,
       Refresh

LEMMA TakeGuess ==
    ASSUME GuessInv, NEW h \in Handlers, NEW r, Take(h, r)
    PROVE  GuessInv'
  <1>1. FirstStage(r) \in {"login", "refresh", "reload", "switch", "lock"}
    BY DEF FirstStage
  <1>2. PICK l : l = FirstStage(r)
    OBVIOUS
  <1>3. AwayStep(h, l)
    BY <1>1, <1>2 DEF Take, Go, AwayStep, logins, GuessInv, LoginShape
  <1>4. QED
    BY <1>3, AwayOK

\* What allow leaves of the table: the entry of its address, maybe with the
\* window closed, and the others as they are.
LEMMA AllowedTable ==
    ASSUME NEW table, \A x \in DOMAIN table : table[x] \in Entry, NEW ip, NEW t,
           NEW after, after = AfterAllow(table, ip, t)
    PROVE  /\ \A x \in DOMAIN after : after[x] \in Entry
           /\ \A x : x # ip => Known(after, x) = Known(table, x)
           /\ Known(after, ip).lockedTill = Known(table, ip).lockedTill
           /\ \/ /\ Known(after, ip).failures = Known(table, ip).failures
                 /\ Known(after, ip).firstFail = Known(table, ip).firstFail
              \/ /\ Known(table, ip).firstFail # 0
                 /\ t - Known(table, ip).firstFail > Window
                 /\ Known(after, ip).failures = 0
                 /\ Known(after, ip).firstFail = 0
  <1>1. CASE after = table
    BY <1>1
  <1>2. CASE after # table
    <2>1. /\ ip \in DOMAIN table /\ table[ip] \in Entry
          /\ table[ip].firstFail # 0 /\ WindowOver(table[ip], t)
      BY <1>2 DEF AfterAllow
    <2>2. PICK once : once = [table EXCEPT ![ip].failures = 0]
      OBVIOUS
    <2>3. after = [once EXCEPT ![ip].firstFail = 0]
      BY <1>2, <2>2 DEF AfterAllow
    <2>4. /\ DOMAIN once = DOMAIN table
          /\ \A x \in DOMAIN table \ {ip} : once[x] = table[x]
          /\ once[ip] = [table[ip] EXCEPT !.failures = 0]
      BY <2>1, <2>2
    <2>5. /\ once[ip] \in Entry /\ once[ip].lockedTill = table[ip].lockedTill
          /\ once[ip].failures = 0
      BY <2>1, <2>4 DEF Entry
    <2>6. /\ DOMAIN after = DOMAIN table
          /\ \A x \in DOMAIN table \ {ip} : after[x] = table[x]
          /\ after[ip] = [once[ip] EXCEPT !.firstFail = 0]
      BY <2>1, <2>3, <2>4
    <2>7. /\ after[ip] \in Entry /\ after[ip].lockedTill = table[ip].lockedTill
          /\ after[ip].failures = 0 /\ after[ip].firstFail = 0
      BY <2>5, <2>6 DEF Entry
    <2>8. QED
      BY <2>1, <2>6, <2>7 DEF Known, WindowOver
  <1>3. QED
    BY <1>1, <1>2

LEMMA AllowGuess ==
    ASSUME GuessInv, NEW h \in Handlers, LoginAllowed(h)
    PROVE  GuessInv'
  <1> DEFINE own == job[h].ip
  <1>0. stage[h] = "login" /\ DOMAIN job = Handlers /\ LoginShape
    BY DEF LoginAllowed, GuessInv, LoginShape
  <1>1. CASE Locked(Known(entries, own), now)
    <2>1. /\ Answer(h, "error") /\ entries' = entries
          /\ guesses' = guesses /\ now' = now
      BY <1>1 DEF LoginAllowed
    <2>2. AwayStep(h, "idle")
      BY <1>0, <2>1 DEF Answer, Go, AwayStep
    <2>3. QED
      BY <2>2, AwayOK
  <1>2. CASE ~ Locked(Known(entries, own), now)
    <2>1. /\ entries' = AfterAllow(entries, own, now)
          /\ stage' = [stage EXCEPT ![h] = "password"] /\ job' = job
          /\ guesses' = guesses /\ now' = now
      BY <1>2 DEF LoginAllowed, Proceed, Go
    <2>2. LoginShape'
      <3>1. \A x \in DOMAIN entries' : entries'[x] \in Entry
        BY <1>0, <2>1, AllowedTable DEF LoginShape
      <3>2. QED
        BY <1>0, <2>1, <3>1 DEF LoginShape
    <2>3. ASSUME NEW ip \in Ips, ip # own PROVE Within(ip)'
      <3>1. \A g \in Handlers : g \in Waiting(ip)' <=> g \in Waiting(ip)
        BY <1>0, <2>1, <2>3 DEF Waiting, LoginShape
      <3>2. Waiting(ip)' = Waiting(ip)
        BY <3>1 DEF Waiting
      <3>3. Known(entries', ip) = Known(entries, ip)
        BY <1>0, <2>1, <2>3, AllowedTable DEF LoginShape
      <3>4. QED
        BY <2>1, <3>2, <3>3, SameWithin
    <2>4. ASSUME NEW ip \in Ips, ip = own PROVE Within(ip)'
      <3>0. entries' = AfterAllow(entries, ip, now)
        BY <2>1, <2>4
      <3>1. Within(ip)
        BY <2>4 DEF GuessInv
      <3>2. PICK e, a, n, s, p, q :
                /\ e = Known(entries, ip) /\ a = Known(entries', ip)
                /\ n = guesses[ip].count /\ s = guesses[ip].since
                /\ p = Cardinality(Waiting(ip))
                /\ q = Cardinality(Waiting(ip)')
        OBVIOUS
      <3>3. GuessOK(e.failures, e.firstFail, e.lockedTill, n, s, p, now)
        BY <3>1, <3>2 DEF Within
      <3>4. /\ n \in Nat /\ s \in Nat /\ now \in Nat \ {0}
            /\ e.failures \in Nat /\ e.firstFail \in Nat
            /\ e.lockedTill \in Nat
        BY <1>0, <2>4, <3>2, KnownNumbers, GuessNumbers DEF LoginShape
      <3>5. p \in 0..Crowd /\ q \in 0..Crowd
        <4>1. Waiting(ip) \in SUBSET Handlers
          BY DEF Waiting
        <4>2. Waiting(ip)' \in SUBSET Handlers
          BY DEF Waiting
        <4>3. QED
          BY <3>2, <4>1, <4>2, WaitingNumber
      <3>6. e.lockedTill <= now
        BY <1>2, <2>4, <3>2, <3>4 DEF Locked
      <3>7. /\ GuessOK(e.failures, e.firstFail, e.lockedTill, n, s, q, now)
            /\ e.firstFail # 0 /\ now - e.firstFail > Window
                  => GuessOK(0, 0, e.lockedTill, n, s, q, now)
        BY <3>3, <3>4, <3>5, <3>6, AllowCounts, Zenon
      <3>8. /\ a.lockedTill = e.lockedTill
            /\ \/ a.failures = e.failures /\ a.firstFail = e.firstFail
               \/ /\ e.firstFail # 0 /\ now - e.firstFail > Window
                  /\ a.failures = 0 /\ a.firstFail = 0
        BY <1>0, <3>0, <3>2, AllowedTable DEF LoginShape
      <3>9. GuessOK(a.failures, a.firstFail, a.lockedTill, n, s, q, now)
        BY <3>7, <3>8
      <3>10. QED
        BY <2>1, <3>2, <3>9 DEF Within
    <2>5. QED
      BY <2>2, <2>3, <2>4 DEF GuessInv
  <1>3. QED
    BY <1>1, <1>2

\* What recordFailure leaves of the table: the entry of its address with one
\* failure more, and of the others those that are not long past.
LEMMA FailedTable ==
    ASSUME NEW table, \A x \in DOMAIN table : table[x] \in Entry, NEW ip,
           NEW t \in Nat \ {0}, NEW after, after = AfterFailure(table, ip, t)
    PROVE  /\ \A x \in DOMAIN after : after[x] \in Entry
           /\ Known(after, ip) = Failed(Known(table, ip), t)
           /\ \A x : x # ip =>
                 \/ Known(after, x) = Known(table, x)
                 \/ /\ Known(after, x) = NoEntry
                    /\ \/ Known(table, x).lockedTill < t - Lockout
                       \/ Known(table, x).lockedTill = 0
                    /\ \/ Known(table, x).firstFail < t - Window
                       \/ Known(table, x).firstFail = 0
  <1>1. PICK counted :
            /\ counted = [x \in DOMAIN table \cup {ip} |->
                             IF x = ip THEN Failed(Known(table, ip), t) ELSE table[x]]
            /\ after = Without(counted, Stale(counted, t))
    BY DEF AfterFailure
  <1>2. /\ DOMAIN after = DOMAIN counted \ Stale(counted, t)
        /\ \A x \in DOMAIN after : after[x] = counted[x]
    BY <1>1 DEF Without
  <1>3. PICK e : e = Known(table, ip)
    OBVIOUS
  <1>4. e \in Entry
    BY <1>3 DEF Known, NoEntry, Entry
  <1>5. PICK d : d = Failed(e, t)
    OBVIOUS
  <1>6. d \in Entry
    BY <1>4, <1>5, Limits DEF Failed, Entry
  <1>7. counted[ip] = d /\ ip \in DOMAIN counted
    BY <1>1, <1>3, <1>5
  <1>8. ip \notin Stale(counted, t)
    <2>1. e.firstFail = 0 \/ WindowOver(e, t) => d.firstFail = t
      BY <1>5 DEF Failed
    <2>2. ~ (e.firstFail = 0 \/ WindowOver(e, t)) =>
              d.firstFail = e.firstFail
      BY <1>5 DEF Failed
    <2>3. e.firstFail \in Nat
      BY <1>4 DEF Entry
    <2>4. ~ (d.firstFail < t - Window \/ d.firstFail = 0)
      BY <2>1, <2>2, <2>3, Limits DEF WindowOver
    <2>5. QED
      BY <1>7, <2>4 DEF Stale
  <1>9. Known(after, ip) = Failed(Known(table, ip), t)
    BY <1>2, <1>3, <1>5, <1>7, <1>8 DEF Known
  <1>10. \A x \in DOMAIN after : after[x] \in Entry
    BY <1>1, <1>2, <1>6, <1>7
  <1>11. ASSUME NEW x, x # ip
         PROVE  \/ Known(after, x) = Known(table, x)
                \/ /\ Known(after, x) = NoEntry
                   /\ \/ Known(table, x).lockedTill < t - Lockout
                      \/ Known(table, x).lockedTill = 0
                   /\ \/ Known(table, x).firstFail < t - Window
                      \/ Known(table, x).firstFail = 0
    <2>1. CASE x \notin DOMAIN table
      BY <1>1, <1>2, <1>11, <2>1 DEF Known
    <2>2. CASE x \in DOMAIN table
      <3>1. counted[x] = table[x] /\ x \in DOMAIN counted
        BY <1>1, <1>11, <2>2
      <3>2. CASE x \in Stale(counted, t)
        BY <1>2, <2>2, <3>1, <3>2 DEF Known, Stale
      <3>3. CASE x \notin Stale(counted, t)
        BY <1>2, <2>2, <3>1, <3>3 DEF Known
      <3>4. QED
        BY <3>2, <3>3
    <2>3. QED
      BY <2>1, <2>2
  <1>12. QED
    BY <1>9, <1>10, <1>11

\* The handler that compared no longer waits, and the others do as before.
LEMMA OneLessWaits ==
    ASSUME LoginShape, NEW h \in Handlers, stage[h] = "password",
           stage' = [stage EXCEPT ![h] = "idle"],
           job' = [job EXCEPT ![h] = NoJob], NEW ip
    PROVE  /\ ip # job[h].ip => Waiting(ip)' = Waiting(ip)
           /\ ip = job[h].ip =>
                 /\ Cardinality(Waiting(ip)) # 0
                 /\ Cardinality(Waiting(ip)') = Cardinality(Waiting(ip)) - 1
  <1>1. ASSUME NEW g \in Handlers
        PROVE  g \in Waiting(ip)' <=> g \in Waiting(ip) /\ g # h
    BY DEF Waiting, LoginShape
  <1>2. Waiting(ip)' = Waiting(ip) \ {h}
    BY <1>1 DEF Waiting
  <1>3. h \in Waiting(ip) <=> ip = job[h].ip
    BY DEF Waiting
  <1>4. IsFiniteSet(Waiting(ip)) /\ Cardinality(Waiting(ip)) \in Nat
    <2>1. Waiting(ip) \in SUBSET Handlers
      BY DEF Waiting
    <2>2. QED
      BY <2>1, WaitingNumber, FS_CardinalityType
  <1>5. CASE ip = job[h].ip
    <2>1. Cardinality(Waiting(ip) \ {h}) = Cardinality(Waiting(ip)) - 1
      BY <1>3, <1>4, <1>5, FS_RemoveElement
    <2>2. Cardinality(Waiting(ip)) # 0
      BY <1>3, <1>4, <1>5, FS_EmptySet
    <2>3. QED
      BY <1>2, <1>5, <2>1, <2>2
  <1>6. CASE ip # job[h].ip
    BY <1>2, <1>3, <1>6
  <1>7. QED
    BY <1>5, <1>6

LEMMA SuccessGuess ==
    ASSUME GuessInv, NEW h \in Handlers, PasswordCompared(h), job[h].right
    PROVE  GuessInv'
  <1>1. /\ stage[h] = "password"
        /\ entries' = Without(entries, {job[h].ip})
        /\ guesses' = [guesses EXCEPT ![job[h].ip] = NoGuesses]
        /\ stage' = [stage EXCEPT ![h] = "idle"]
        /\ job' = [job EXCEPT ![h] = NoJob]
        /\ now' = now
    BY DEF PasswordCompared, AfterSuccess, Answer, Go
  <1>2. LoginShape
    BY DEF GuessInv
  <1>3. LoginShape'
    BY <1>1, <1>2 DEF LoginShape, Without, NoGuesses
  <1>4. ASSUME NEW ip \in Ips PROVE Within(ip)'
    <2>1. CASE ip = job[h].ip
      <3>1. Known(entries', ip) = NoEntry /\ guesses'[ip] = NoGuesses
        BY <1>1, <1>2, <2>1 DEF Known, Without, LoginShape
      <3>2. now \in Nat \ {0}
        BY <1>2 DEF LoginShape
      <3>3. QED
        BY <1>1, <3>1, <3>2 DEF Within, GuessOK, NoEntry, NoGuesses
    <2>2. CASE ip # job[h].ip
      <3>1. Waiting(ip)' = Waiting(ip)
        BY <1>1, <1>2, <2>2, OneLessWaits
      <3>2. Known(entries', ip) = Known(entries, ip)
        BY <1>1, <2>2 DEF Known, Without
      <3>3. guesses'[ip] = guesses[ip]
        BY <1>1, <1>2, <2>2 DEF LoginShape
      <3>4. QED
        BY <1>1, <3>1, <3>2, <3>3, SameWithin
    <2>3. QED
      BY <2>1, <2>2
  <1>5. QED
    BY <1>3, <1>4 DEF GuessInv

LEMMA FailureGuess ==
    ASSUME GuessInv, NEW h \in Handlers, PasswordCompared(h), ~ job[h].right
    PROVE  GuessInv'
  <1> DEFINE own == job[h].ip
  <1>1. /\ stage[h] = "password"
        /\ entries' = AfterFailure(entries, own, now)
        /\ guesses' = [guesses EXCEPT ![own] =
                          [count |-> guesses[own].count + 1,
                           since |-> IF guesses[own].count = 0 THEN now
                                     ELSE guesses[own].since]]
        /\ stage' = [stage EXCEPT ![h] = "idle"]
        /\ job' = [job EXCEPT ![h] = NoJob]
        /\ now' = now
    BY DEF PasswordCompared, Answer, Go
  <1>2. LoginShape /\ now \in Nat \ {0}
    BY DEF GuessInv, LoginShape
  <1>3. \A x \in DOMAIN entries : entries[x] \in Entry
    BY <1>2 DEF LoginShape
  <1>4. LoginShape'
    <2>1. \A x \in DOMAIN entries' : entries'[x] \in Entry
      BY <1>1, <1>2, <1>3, FailedTable
    <2>2. own \in Ips =>
            [count |-> guesses[own].count + 1,
             since |-> IF guesses[own].count = 0 THEN now ELSE guesses[own].since]
                \in [count : Nat, since : Nat]
      <3> SUFFICES ASSUME own \in Ips
                   PROVE  [count |-> guesses[own].count + 1,
                           since |-> IF guesses[own].count = 0 THEN now
                                     ELSE guesses[own].since]
                              \in [count : Nat, since : Nat]
        OBVIOUS
      <3>1. guesses[own].count \in Nat /\ guesses[own].since \in Nat
        BY <1>2, GuessNumbers
      <3>2. QED
        BY <1>2, <3>1
    <2>3. guesses' \in [Ips -> [count : Nat, since : Nat]]
      BY <1>1, <1>2, <2>2 DEF LoginShape
    <2>4. QED
      BY <1>1, <1>2, <2>1, <2>3 DEF LoginShape
  <1>5. ASSUME NEW ip \in Ips, ip # own PROVE Within(ip)'
    <2>1. Waiting(ip)' = Waiting(ip) /\ guesses'[ip] = guesses[ip]
      BY <1>1, <1>2, <1>5, OneLessWaits DEF LoginShape
    <2>2. CASE Known(entries', ip) = Known(entries, ip)
      BY <1>1, <2>1, <2>2, SameWithin
    <2>3. CASE Known(entries', ip) # Known(entries, ip)
      <3>1. /\ Known(entries', ip) = NoEntry
            /\ \/ Known(entries, ip).lockedTill < now - Lockout
               \/ Known(entries, ip).lockedTill = 0
            /\ \/ Known(entries, ip).firstFail < now - Window
               \/ Known(entries, ip).firstFail = 0
        BY <1>1, <1>2, <1>3, <1>5, <2>3, FailedTable
      <3>2. PICK e, n, s, p :
                /\ e = Known(entries, ip) /\ p = Cardinality(Waiting(ip))
                /\ n = guesses[ip].count /\ s = guesses[ip].since
        OBVIOUS
      <3>3. GuessOK(e.failures, e.firstFail, e.lockedTill, n, s, p, now)
        BY <3>2 DEF GuessInv, Within
      <3>4. /\ n \in Nat /\ s \in Nat
            /\ e.failures \in Nat /\ e.firstFail \in Nat
            /\ e.lockedTill \in Nat
        BY <1>2, <3>2, KnownNumbers, GuessNumbers
      <3>5. p \in 0..Crowd
        BY <3>2, WaitingNumber DEF Waiting
      <3>6. /\ e.lockedTill < now - Lockout \/ e.lockedTill = 0
            /\ e.firstFail < now - Window \/ e.firstFail = 0
        BY <3>1, <3>2
      <3>7. GuessOK(0, 0, 0, n, s, p, now)
        BY <1>2, <3>3, <3>4, <3>5, <3>6, StaleCounts, Zenon
      <3>8. QED
        BY <1>1, <2>1, <3>1, <3>2, <3>7 DEF Within, NoEntry
    <2>4. QED
      BY <2>2, <2>3
  <1>6. ASSUME NEW ip \in Ips, ip = own PROVE Within(ip)'
    <2>1. PICK e, a, n, s, p, u :
              /\ e = Known(entries, ip) /\ a = Known(entries', ip)
              /\ n = guesses[ip].count /\ s = guesses[ip].since
              /\ p = Cardinality(Waiting(ip))
              /\ u = IF n = 0 THEN now ELSE s
      OBVIOUS
    <2>2. GuessOK(e.failures, e.firstFail, e.lockedTill, n, s, p, now)
      BY <2>1 DEF GuessInv, Within
    <2>3. /\ n \in Nat /\ s \in Nat
          /\ e.failures \in Nat /\ e.firstFail \in Nat
          /\ e.lockedTill \in Nat
      BY <1>2, <2>1, KnownNumbers, GuessNumbers
    <2>4. p \in 0..Crowd
      BY <2>1, WaitingNumber DEF Waiting
    <2>5. p # 0 /\ Cardinality(Waiting(ip)') = p - 1
      BY <1>1, <1>2, <1>6, <2>1, OneLessWaits
    <2>6. a = Failed(e, now)
      BY <1>1, <1>2, <1>3, <1>6, <2>1, FailedTable
    <2>7. /\ a.failures = IF e.firstFail = 0 \/ now - e.firstFail > Window
                          THEN 1 ELSE e.failures + 1
          /\ a.firstFail = IF e.firstFail = 0 \/ now - e.firstFail > Window
                           THEN now ELSE e.firstFail
          /\ a.lockedTill = IF a.failures >= MaxFailures THEN now + Lockout
                            ELSE e.lockedTill
      BY <2>6 DEF Failed, WindowOver
    <2>8. GuessOK(a.failures, a.firstFail, a.lockedTill, n + 1, u, p - 1, now)
      <3>1. PICK f \in Nat, F \in Nat, L \in Nat, t \in Nat \ {0} :
                /\ f = e.failures /\ F = e.firstFail /\ L = e.lockedTill
                /\ t = now
        BY <1>2, <2>3
      <3>2. PICK g, G, K :
                g = a.failures /\ G = a.firstFail /\ K = a.lockedTill
        OBVIOUS
      <3>3. GuessOK(f, F, L, n, s, p, t)
        BY <2>2, <3>1
      <3>4. OneMore(f, F, L, n, s, t, g, G, K, u)
        BY <2>1, <2>7, <3>1, <3>2 DEF OneMore
      <3>5. n \in Nat /\ s \in Nat /\ p # 0
        BY <2>3, <2>5
      <3>6. GuessOK(g, G, K, n + 1, u, p - 1, t)
        BY <2>4, <3>3, <3>4, <3>5, FailureCounts, Zenon
      <3>7. QED
        BY <3>1, <3>2, <3>6
    <2>9. guesses'[ip].count = n + 1 /\ guesses'[ip].since = u
      BY <1>1, <1>2, <1>6, <2>1 DEF LoginShape
    <2>10. QED
      BY <1>1, <2>1, <2>5, <2>8, <2>9 DEF Within
  <1>7. QED
    BY <1>4, <1>5, <1>6 DEF GuessInv

LEMMA TickGuess ==
    ASSUME GuessInv, Tick
    PROVE  GuessInv'
  <1>1. /\ now' = now + 1 /\ entries' = entries /\ guesses' = guesses
        /\ stage' = stage /\ job' = job
    BY DEF Tick, logins, handling
  <1>2. LoginShape /\ LoginShape'
    BY <1>1 DEF GuessInv, LoginShape
  <1>3. ASSUME NEW ip \in Ips PROVE Within(ip)'
    <2>1. PICK e, n, s, p :
              /\ e = Known(entries, ip) /\ p = Cardinality(Waiting(ip))
              /\ n = guesses[ip].count /\ s = guesses[ip].since
      OBVIOUS
    <2>2. GuessOK(e.failures, e.firstFail, e.lockedTill, n, s, p, now)
      BY <2>1 DEF GuessInv, Within
    <2>3. /\ n \in Nat /\ s \in Nat /\ now \in Nat \ {0}
          /\ e.failures \in Nat /\ e.firstFail \in Nat
          /\ e.lockedTill \in Nat
      BY <1>2, <2>1, KnownNumbers, GuessNumbers DEF LoginShape
    <2>4. p \in 0..Crowd
      BY <2>1, WaitingNumber DEF Waiting
    <2>5. GuessOK(e.failures, e.firstFail, e.lockedTill, n, s, p, now + 1)
      BY <2>2, <2>3, <2>4, ClockCounts, Zenon
    <2>6. Waiting(ip)' = Waiting(ip)
      BY <1>1 DEF Waiting
    <2>7. QED
      BY <1>1, <2>1, <2>5, <2>6 DEF Within
  <1>4. QED
    BY <1>2, <1>3 DEF GuessInv

\* A start knows of no failure.
LEMMA NoGuessYet ==
    ASSUME DOMAIN stage = Handlers, DOMAIN job = Handlers, entries = <<>>,
           guesses = [ip \in Ips |-> NoGuesses], now \in Nat \ {0}
    PROVE  GuessInv
  <1>1. LoginShape
    BY DEF LoginShape, NoGuesses
  <1>2. ASSUME NEW ip \in Ips PROVE Within(ip)
    <2>1. Known(entries, ip) = NoEntry
      BY DEF Known
    <2>2. QED
      BY <2>1 DEF Within, GuessOK, NoEntry, NoGuesses
  <1>3. QED
    BY <1>1, <1>2 DEF GuessInv

LEMMA GuessesKept == GuessInv /\ [Next]_vars => GuessInv'
  <1> SUFFICES ASSUME GuessInv, [Next]_vars PROVE GuessInv'
    OBVIOUS
  <1>1. ASSUME NEW h \in Handlers, Serve(h) PROVE GuessInv'
    BY <1>1, OtherRequests, AllowGuess, SuccessGuess, FailureGuess DEF Serve
  <1>2. ASSUME NEW h \in Handlers, NEW r \in workload.requests, Take(h, r)
        PROVE  GuessInv'
    BY <1>2, TakeGuess
  <1>3. CASE Tick
    BY <1>3, TickGuess
  <1>4. CASE Restart
    <2>1. /\ stage' = [h \in Handlers |-> "idle"]
          /\ job' = [h \in Handlers |-> NoJob]
          /\ entries' = <<>> /\ guesses' = [ip \in Ips |-> NoGuesses]
          /\ now' = now
      BY <1>4 DEF Restart
    <2>2. now' \in Nat \ {0}
      BY <2>1 DEF GuessInv, LoginShape
    <2>3. LoginShape'
      BY <2>1, <2>2 DEF LoginShape, NoGuesses
    <2>4. ASSUME NEW ip \in Ips PROVE Within(ip)'
      <3>1. Known(entries', ip) = NoEntry /\ guesses'[ip] = NoGuesses
        BY <2>1 DEF Known
      <3>2. QED
        BY <2>2, <3>1 DEF Within, GuessOK, NoEntry, NoGuesses
    <2>5. QED
      BY <2>3, <2>4 DEF GuessInv
  <1>5. CASE UNCHANGED vars
    <2>1. /\ now' = now /\ entries' = entries /\ guesses' = guesses
          /\ stage' = stage /\ job' = job
      BY <1>5 DEF vars, logins, handling
    <2>2. \A ip \in Ips : Waiting(ip)' = Waiting(ip)
      BY <2>1 DEF Waiting
    <2>3. \A ip \in Ips : Within(ip)'
      BY <2>1, <2>2, SameWithin
    <2>4. QED
      BY <2>1, <2>3 DEF GuessInv, LoginShape
  <1>6. QED
    BY <1>1, <1>2, <1>3, <1>4, <1>5 DEF Next

LEMMA GuessBound ==
    ASSUME GuessInv
    PROVE  GuessesBounded
  <1>1. ASSUME NEW ip \in Ips
        PROVE  guesses[ip].count <=
                   Most * (1 + (now - guesses[ip].since) \div Span)
    <2>1. PICK e, n, s, p :
              /\ e = Known(entries, ip) /\ p = Cardinality(Waiting(ip))
              /\ n = guesses[ip].count /\ s = guesses[ip].since
      OBVIOUS
    <2>2. GuessOK(e.failures, e.firstFail, e.lockedTill, n, s, p, now)
      BY <2>1 DEF GuessInv, Within
    <2>3. /\ n \in Nat /\ s \in Nat /\ now \in Nat \ {0}
          /\ e.failures \in Nat /\ e.firstFail \in Nat
          /\ e.lockedTill \in Nat
      BY <2>1, KnownNumbers, GuessNumbers DEF GuessInv, LoginShape
    <2>4. p \in 0..Crowd
      BY <2>1, WaitingNumber DEF Waiting
    <2>5. n <= Pace(now, s) + Most
      BY <2>2, <2>3, <2>4, CountBounded, Zenon
    <2>6. PICK d \in Nat : d = now - s
      BY <2>2, <2>3 DEF GuessOK
    <2>7. d \div Span \in Nat
      BY <2>6, DivGrows, Limits
    <2>8. Most * (1 + d \div Span) = Most * (d \div Span) + Most
      BY <2>7, TimesGrows, Limits
    <2>9. QED
      BY <2>1, <2>5, <2>6, <2>8 DEF Pace
  <1>2. QED
    BY <1>1 DEF GuessesBounded, Most, Span, Crowd

\* However logins overlap, and for any number of handlers, any limit, window
\* and lock: an address gets at most the limit and one guess for each further
\* handler in every span as short as the window or the lock (loginLimiter).
THEOREM GuessesStayBounded == Spec => []GuessesBounded
  <1>1. Init => GuessInv
    <2> SUFFICES ASSUME Init PROVE GuessInv
      OBVIOUS
    <2>1. stage = [h \in Handlers |-> "idle"]
      BY Zenon DEF Init
    <2>2. job = [h \in Handlers |-> NoJob]
      BY Zenon DEF Init
    <2>3. entries = <<>> /\ now = 1
      BY Zenon DEF Init
    <2>4. guesses = [ip \in Ips |-> NoGuesses]
      BY Zenon DEF Init
    <2>5. QED
      BY <2>1, <2>2, <2>3, <2>4, NoGuessYet
  <1>2. GuessInv /\ [Next]_vars => GuessInv'
    BY GuessesKept
  <1>3. GuessInv => GuessesBounded
    BY GuessBound
  <1>4. QED
    BY <1>1, <1>2, <1>3, PTL DEF Spec

-----------------------------------------------------------------------------
(* Answers.  Files and requests have the fields the handlers decode; what  *)
(* is in them is anything.                                                 *)

Fields == {"source", "nodes", "disabled", "aliases", "serverAliases",
           "labels", "serverLabels"}

Typed(c) == DOMAIN c = Fields

TypedFile(file) == \A p \in DOMAIN file : Typed(file[p])

\* Requests are of the kinds there are, and have the types they are decoded to.
TypedRequests ==
    /\ TypedFile(FirstDisk["nodes"])
    /\ \A w \in Workloads : \A r \in w.requests :
          /\ r.kind \in Edits \cup {"login", "refresh", "reload"}
          /\ r.kind \in {"addPool", "updatePool"} => Typed(r.config)
          /\ r.kind = "set" => r.section \in Sections \ {"nodes"}
          /\ r.kind = "enable" => r.on \in BOOLEAN
          /\ r.kind = "reload" => r.failed = FALSE

TypedPool(pool) ==
    DOMAIN pool = {"config", "own", "at"} /\ Typed(pool.config)

TypedPools(pools) == \A p \in DOMAIN pools : TypedPool(pools[p])

\* Edits leave files orderly.
LEMMA EditTyped ==
    ASSUME NEW file, TypedFile(file), NEW r, NEW K,
           r.kind \in NodeEdits \cup {"enable"},
           r.kind \in {"addPool", "updatePool"} => Typed(r.config),
           ~ Refused(r, file, K)
    PROVE  TypedFile(Edited(r, file, K))
  <1>1. CASE r.kind = "addPool"
    <2>1. Edited(r, file, K) = Put(file, r.pool, r.config)
      BY <1>1 DEF Edited
    <2>2. QED
      BY <1>1, <2>1 DEF TypedFile, Put
  <1>2. CASE r.kind = "updatePool"
    <2>1. Edited(r, file, K) = Put(Drop(file, {r.pool}), r.newName, r.config)
      BY <1>2 DEF Edited
    <2>2. TypedFile(Drop(file, {r.pool}))
      BY DEF TypedFile, Drop
    <2>3. QED
      BY <1>2, <2>1, <2>2 DEF TypedFile, Put
  <1>3. CASE r.kind = "deletePool"
    <2>1. Edited(r, file, K) = Drop(file, {r.pool})
      BY <1>3 DEF Edited
    <2>2. QED
      BY <2>1 DEF TypedFile, Drop
  <1>4. CASE r.kind \in {"metadata", "updateNode", "deleteNode", "enable"}
    <2>1. r.pool \in DOMAIN file
      BY <1>4 DEF Refused, HasStaticNode
    <2>2. PICK c : c = file[r.pool]
      OBVIOUS
    <2>3. Typed(c)
      BY <2>1, <2>2 DEF TypedFile
    <2>4. PICK d : /\ Edited(r, file, K) = [file EXCEPT ![r.pool] = d]
                   /\ d \in {WithMetadata(c, r, K), WithNode(c, r),
                             WithoutNode(c, r.node), NodeEnabled(c, r.node, r.on)}
      <3>1. CASE r.kind = "metadata"
        BY <2>2, <3>1 DEF Edited
      <3>2. CASE r.kind = "updateNode"
        BY <2>2, <3>2 DEF Edited
      <3>3. CASE r.kind = "deleteNode"
        BY <2>2, <3>3 DEF Edited
      <3>4. CASE r.kind = "enable"
        BY <2>2, <3>4 DEF Edited
      <3>5. QED
        BY <1>4, <3>1, <3>2, <3>3, <3>4
    <2>5. Typed(d)
      BY <2>3, <2>4 DEF Typed, Fields, WithMetadata, WithNode, WithoutNode,
         NodeEnabled
    <2>6. QED
      BY <2>1, <2>4, <2>5 DEF TypedFile
  <1>5. QED
    BY <1>1, <1>2, <1>3, <1>4 DEF NodeEdits

\* So does a load of them, and it brings their configurations.
LEMMA LoadTyped ==
    ASSUME NEW file, TypedFile(file), NEW pools, TypedPools(pools),
           NEW new \in Loaded(file, pools)
    PROVE  /\ DOMAIN new = DOMAIN file
           /\ \A p \in DOMAIN file : new[p].config = file[p]
           /\ TypedPools(new)
  <1>1. PICK nodes :
           new = [p \in DOMAIN file |->
                     [config |-> file[p], own |-> nodes[p].own, at |-> nodes[p].at]]
    BY DEF Loaded
  <1>2. ASSUME NEW p \in DOMAIN file
        PROVE  new[p].config = file[p] /\ TypedPool(new[p])
    BY <1>1 DEF TypedPool, TypedFile
  <1>3. QED
    BY <1>1, <1>2 DEF TypedPools

-----------------------------------------------------------------------------
(* What a handler has brought about so far.                                *)

Reloading == {"reload", "reloading"}
Changing == {"switch", "lock", "edit", "load", "apply"}

AtMostOne(S) == \A s, t \in S : s = t

\* The request a handler is at, and its answer, which is yet to come.
Request(h) ==
    LET r == job[h] IN
    /\ stage[h] # "idle" => answer[h] = "none"
    /\ stage[h] \in Changing => r \in workload.requests /\ r.kind \in Edits
    /\ stage[h] = "switch" =>
          r.kind = "enable" \/ (r.kind = "set" /\ r.section = "log")
    /\ stage[h] = "load" => LoadsUnderLock(r)
    /\ stage[h] = "apply" => r.kind \in Settings
    /\ stage[h] \in Reloading =>
          /\ r.kind = "reload" /\ r.failed \in BOOLEAN
          /\ todo[h] \in Seq(Sections \ {"log"})
    /\ stage[h] = "reloading" => todo[h] # <<>> /\ TypedFile(copy[h]["nodes"])
    /\ stage[h] = "refresh" => r.kind = "refresh"
    /\ stage[h] \in {"login", "password"} => r.kind = "login"
    /\ stage[h] = "edit" => AtMostOne(keys[h])

Under(f, K, value) ==
    IF value = Nothing THEN \A s \in K : s \notin DOMAIN f
                       ELSE \A s \in K : s \in DOMAIN f /\ f[s] = value

\* The pool at run time agrees with a switch, and will after a refresh, which
\* may bring nodes it had not; except for nodes the file lists.
PoolSwitched(pool, r) ==
    IF pool.config.source = "subscription"
    THEN \/ r.node \in DOMAIN pool.config.nodes
         \/ /\ (r.node \notin pool.config.disabled) = r.on
            /\ r.node \in DOMAIN pool.own =>
                  pool.own[r.node] \in {"unset", Switch(r.on)}
    ELSE r.node \in DOMAIN pool.own => pool.own[r.node] = Switch(r.on)

Switched(pools, r) ==
    r.pool \in DOMAIN pools /\ PoolSwitched(pools[r.pool], r)

\* The metadata of a node under its name and under the servers of K.
Shown(c, r, K) ==
    /\ {a \in DOMAIN c.aliases : c.aliases[a] = r.node} = {r.alias} \ {Nothing}
    /\ Under(c.serverAliases, K, r.alias)
    /\ Under(c.labels, {r.node}, r.label)
    /\ Under(c.serverLabels, K, r.label)

Left(h) == {todo[h][i] : i \in 1 .. Len(todo[h])}

\* What holds while no request for the same section overlaps.
Alone(h) ==
    LET r == job[h] IN
    /\ stage[h] \in {"lock", "edit"} /\ r.kind = "enable"
          => Switched(running["nodes"], r)
    /\ stage[h] \in {"lock", "edit"} /\ r.kind = "set" /\ r.section = "log"
          => running["log"] = r.value
    /\ stage[h] = "apply" => copy[h][Section(r)] = disk[Section(r)]
    /\ stage[h] = "reloading"
          => \A s \in Sections \ {"log"} : copy[h][s] = disk[s]
    /\ stage[h] \in Reloading /\ r.failed = FALSE
          => \A s \in Sections \ {"log"} : s \in Left(h) \/ InUse(s)

\* What holds in any case, because fileMu is held.
Named(h) ==
    stage[h] = "load" /\ job[h].kind = "metadata"
        => /\ job[h].pool \in DOMAIN disk["nodes"]
           /\ Shown(disk["nodes"][job[h].pool], job[h], keys[h])

Progress(h) == Named(h) /\ (raced[h] = FALSE => Alone(h))

Rivals ==
    \A g, h \in Handlers :
        g # h /\ stage[g] # "idle" /\ stage[h] # "idle" /\ Races(job[g], job[h])
            => raced[g] = TRUE

Tables ==
    /\ DOMAIN job = Handlers /\ DOMAIN keys = Handlers
    /\ DOMAIN todo = Handlers /\ DOMAIN answer = Handlers
    /\ raced \in [Handlers -> BOOLEAN]
    /\ DOMAIN running = Sections

FilesInv ==
    /\ TypedFile(disk["nodes"])
    /\ TypedPools(running["nodes"])

DoneInv ==
    /\ SerialInv
    /\ workload \in Workloads
    /\ Tables
    /\ FilesInv
    /\ Rivals
    /\ \A h \in Handlers : Request(h) /\ Progress(h)

-----------------------------------------------------------------------------
(* A step of one handler and what it leaves to the others.                 *)

Moves(h) ==
    /\ workload' = workload
    /\ Tables'
    /\ \A g \in Handlers \ {h} :
          /\ stage'[g] = stage[g] /\ copy'[g] = copy[g] /\ job'[g] = job[g]
          /\ keys'[g] = keys[g] /\ todo'[g] = todo[g] /\ answer'[g] = answer[g]
          /\ raced[g] = TRUE => raced'[g] = TRUE

Refreshed(p) ==
    /\ IsSubscription(running["nodes"], p)
    /\ \E l \in Listings :
          running'["nodes"] =
              [running["nodes"] EXCEPT ![p] =
                  [config |-> running["nodes"][p].config,
                   own |-> Fresh(l).own, at |-> l]]

\* It changes the sections of its request, the files with fileMu only; and a
\* refresh forgets the switches of a pool.
Affects(h) ==
    \A s \in Sections :
        /\ disk'[s] # disk[s] =>
              stage[h] # "idle" /\ s \in Touches(job[h]) /\ fileMu = h
        /\ running'[s] # running[s] =>
              /\ stage[h] # "idle"
              /\ s \in Touches(job[h]) \/ (s = "nodes" /\ \E p : Refreshed(p))

\* A request that is not raced has its sections to itself.
LEMMA Undisturbed ==
    ASSUME DoneInv, NEW g \in Handlers, NEW h \in Handlers, g # h,
           stage[g] # "idle", stage[h] # "idle", raced[g] = FALSE,
           ~ LoadsUnderLock(job[g])
    PROVE  Touches(job[g]) \cap Touches(job[h]) = {}
  BY DEF DoneInv, Rivals, Races

LEMMA RefreshKeeps ==
    ASSUME DoneInv, NEW p, Refreshed(p)
    PROVE  /\ DOMAIN running'["nodes"] = DOMAIN running["nodes"]
           /\ \A q \in DOMAIN running["nodes"] :
                 running'["nodes"][q].config = running["nodes"][q].config
           /\ \A q \in DOMAIN running["nodes"] : q # p =>
                 running'["nodes"][q] = running["nodes"][q]
           /\ \A n \in DOMAIN running'["nodes"][p].own :
                 running'["nodes"][p].own[n] = "unset"
           /\ TypedPools(running'["nodes"])
  <1>1. PICK old : old = running["nodes"]
    OBVIOUS
  <1>2. PICK new : new = running'["nodes"]
    OBVIOUS
  <1>3. PICK l \in Listings :
           /\ p \in DOMAIN old
           /\ new = [old EXCEPT ![p] = [config |-> old[p].config,
                                        own |-> Fresh(l).own, at |-> l]]
    BY <1>1, <1>2 DEF Refreshed, IsSubscription
  <1>4. TypedPools(old)
    BY <1>1 DEF DoneInv, FilesInv
  <1>5. DOMAIN new = DOMAIN old
    BY <1>3
  <1>6. \A q \in DOMAIN old : q # p => new[q] = old[q]
    BY <1>3
  <1>7. new[p] = [config |-> old[p].config, own |-> Fresh(l).own, at |-> l]
    BY <1>3
  <1>8. TypedPool(new[p])
    BY <1>3, <1>4, <1>7 DEF TypedPool, TypedPools
  <1>9. TypedPools(new)
    BY <1>4, <1>5, <1>6, <1>8 DEF TypedPools
  <1>10. \A n \in DOMAIN new[p].own : new[p].own[n] = "unset"
    BY <1>7 DEF Fresh
  <1>11. QED
    BY <1>1, <1>2, <1>5, <1>6, <1>7, <1>9, <1>10

LEMMA RefreshKeepsSwitch ==
    ASSUME DoneInv, NEW p, Refreshed(p), NEW r, r.on \in BOOLEAN,
           Switched(running["nodes"], r)
    PROVE  Switched(running'["nodes"], r)
  <1>1. PICK old : old = running["nodes"]
    OBVIOUS
  <1>2. PICK new : new = running'["nodes"]
    OBVIOUS
  <1>3. /\ DOMAIN new = DOMAIN old
        /\ \A q \in DOMAIN old : new[q].config = old[q].config
        /\ \A q \in DOMAIN old : q # p => new[q] = old[q]
        /\ \A n \in DOMAIN new[p].own : new[p].own[n] = "unset"
        /\ p \in DOMAIN old /\ old[p].config.source = "subscription"
    BY <1>1, <1>2, RefreshKeeps DEF DoneInv, FilesInv, Refreshed,
       IsSubscription
  <1>4. Switched(old, r)
    BY <1>1
  <1>5. CASE r.pool # p
    <2>1. r.pool \in DOMAIN old /\ PoolSwitched(old[r.pool], r)
      BY <1>4 DEF Switched
    <2>2. r.pool \in DOMAIN new /\ new[r.pool] = old[r.pool]
      BY <1>3, <1>5, <2>1
    <2>3. QED
      BY <1>2, <2>1, <2>2 DEF Switched
  <1>6. CASE r.pool = p
    <2>1. PICK was : was = old[p]
      OBVIOUS
    <2>2. PICK is : is = new[p]
      OBVIOUS
    <2>3. PoolSwitched(was, r)
      BY <1>4, <1>6, <2>1 DEF Switched
    <2>4. /\ is.config = was.config /\ was.config.source = "subscription"
          /\ \A n \in DOMAIN is.own : is.own[n] = "unset"
      BY <1>3, <2>1, <2>2
    <2>5. r.node \in DOMAIN is.config.nodes
             \/ (r.node \notin is.config.disabled) = r.on
      BY <2>3, <2>4 DEF PoolSwitched
    <2>6. PoolSwitched(is, r)
      <3>1. r.node \in DOMAIN is.own => is.own[r.node] \in {"unset", Switch(r.on)}
        BY <2>4
      <3>2. is.config.source = "subscription"
        BY <2>4
      <3>3. QED
        BY Zenon, <2>5, <3>1, <3>2 DEF PoolSwitched
    <2>7. QED
      BY <1>2, <1>3, <1>6, <2>2, <2>6 DEF Switched
  <1>7. QED
    BY <1>5, <1>6

\* The sections of a request.
LEMMA SectionsOf ==
    ASSUME NEW r
    PROVE  /\ r.kind \in Edits => Section(r) \in Touches(r)
           /\ r.kind = "reload" => Touches(r) = Sections \ {"log"}
           /\ r.kind = "enable" => Section(r) = "nodes"
           /\ r.kind = "set" => Section(r) = r.section
           /\ r.kind \in Settings => Section(r) \in {"traffic", r.section}
           /\ r.kind \in Settings \cup {"enable", "reload"} => ~ LoadsUnderLock(r)
           /\ r.kind \in NodeEdits => Section(r) = "nodes"
           /\ r.kind \in FingerprintEdits => Section(r) = "fingerprints"
  BY DEF Touches, Section, Edits, LoadsUnderLock, NodeEdits, FingerprintEdits,
     Settings

\* What is in use stays in use while the section is left alone or refreshed.
LEMMA InUseKept ==
    ASSUME DoneInv, NEW s \in Sections, InUse(s), disk'[s] = disk[s],
           running'[s] = running[s] \/ (s = "nodes" /\ \E p : Refreshed(p))
    PROVE  InUse(s)'
  <1>1. CASE s # "nodes"
    BY <1>1 DEF InUse
  <1>2. CASE s = "nodes" /\ running'[s] = running[s]
    BY <1>2 DEF InUse
  <1>3. CASE s = "nodes" /\ \E p : Refreshed(p)
    <2>1. /\ DOMAIN running'["nodes"] = DOMAIN running["nodes"]
          /\ \A q \in DOMAIN running["nodes"] :
                running'["nodes"][q].config = running["nodes"][q].config
      BY <1>3, RefreshKeeps
    <2>2. QED
      BY <1>3, <2>1 DEF InUse
  <1>4. QED
    BY <1>1, <1>2, <1>3

LEMMA OthersRequest ==
    ASSUME DoneInv, NEW h \in Handlers, Moves(h), NEW g \in Handlers \ {h}
    PROVE  Request(g)'
  <1>1. Request(g)
    BY DEF DoneInv
  <1>2. /\ stage'[g] = stage[g] /\ job'[g] = job[g] /\ keys'[g] = keys[g]
        /\ todo'[g] = todo[g] /\ answer'[g] = answer[g] /\ copy'[g] = copy[g]
        /\ workload' = workload
    BY DEF Moves
  <1>3. /\ TypedFile(copy[g]["nodes"])' <=> TypedFile(copy'[g]["nodes"])
        /\ AtMostOne(keys[g])' <=> AtMostOne(keys'[g])
    BY DEF TypedFile, Typed, AtMostOne
  <1>4. QED
    BY <1>1, <1>2, <1>3 DEF Request

LEMMA OthersNamed ==
    ASSUME DoneInv, NEW h \in Handlers, Moves(h), Affects(h),
           NEW g \in Handlers \ {h}
    PROVE  Named(g)'
  <1> SUFFICES ASSUME stage'[g] = "load", job'[g].kind = "metadata"
               PROVE  /\ job'[g].pool \in DOMAIN disk'["nodes"]
                      /\ Shown(disk'["nodes"][job'[g].pool], job'[g], keys'[g])
    BY DEF Named, Shown, Under
  <1>1. /\ stage[g] = "load" /\ job'[g] = job[g] /\ keys'[g] = keys[g]
        /\ job[g].kind = "metadata"
    BY DEF Moves
  <1>2. Named(g) /\ fileMu = g
    BY <1>1 DEF DoneInv, Progress, SerialInv, Holding
  <1>3. disk'["nodes"] = disk["nodes"]
    BY <1>2 DEF Affects, Sections
  <1>4. QED
    BY <1>1, <1>2, <1>3, SMTT(30) DEF Named

LEMMA OthersAlone ==
    ASSUME TypedRequests, DoneInv, NEW h \in Handlers, Moves(h), Affects(h),
           NEW g \in Handlers \ {h}, raced'[g] = FALSE
    PROVE  Alone(g)'
  <1>1. /\ stage'[g] = stage[g] /\ copy'[g] = copy[g] /\ job'[g] = job[g]
        /\ todo'[g] = todo[g]
    BY DEF Moves
  <1>2. raced[g] = FALSE
    BY DEF Moves, DoneInv, Tables
  <1>3. Alone(g) /\ Request(g)
    BY <1>2 DEF DoneInv, Progress
  <1>4. PICK r : r = job[g]
    OBVIOUS
  <1>5. ASSUME stage[g] # "idle", ~ LoadsUnderLock(r), NEW s \in Touches(r),
               s \in Sections
        PROVE  /\ disk'[s] = disk[s]
               /\ \/ running'[s] = running[s]
                  \/ s = "nodes" /\ \E p : Refreshed(p)
    <2>1. stage[h] = "idle" \/ s \notin Touches(job[h])
      BY <1>2, <1>4, <1>5, Undisturbed
    <2>2. QED
      BY <1>5, <2>1 DEF Affects
  <1>6. ASSUME stage[g] \in {"lock", "edit"}, r.kind = "enable"
        PROVE  Switched(running'["nodes"], r)
    <2>1. r.on \in BOOLEAN /\ Switched(running["nodes"], r)
      BY <1>3, <1>4, <1>6
      DEF Alone, Request, Changing, DoneInv, TypedRequests
    <2>2. /\ "nodes" \in Touches(r) /\ "nodes" \in Sections
          /\ ~ LoadsUnderLock(r)
      BY <1>6, SectionsOf DEF Edits, Sections
    <2>3. \/ running'["nodes"] = running["nodes"]
          \/ \E p : Refreshed(p)
      BY <1>5, <1>6, <2>2
    <2>4. QED
      BY <2>1, <2>3, RefreshKeepsSwitch
  <1>7. ASSUME stage[g] \in {"lock", "edit"}, r.kind = "set", r.section = "log"
        PROVE  running'["log"] = r.value
    <2>1. running["log"] = r.value
      BY <1>3, <1>4, <1>7 DEF Alone
    <2>2. "log" \in Touches(r) /\ "log" \in Sections /\ ~ LoadsUnderLock(r)
      BY <1>7, SectionsOf DEF Edits, Settings, Sections
    <2>3. running'["log"] = running["log"]
      BY <1>5, <1>7, <2>2
    <2>4. QED
      BY <2>1, <2>3
  <1>8. ASSUME stage[g] = "apply"
        PROVE  copy'[g][Section(r)] = disk'[Section(r)]
    <2>1. copy[g][Section(r)] = disk[Section(r)] /\ r.kind \in Settings
      BY <1>3, <1>4, <1>8 DEF Alone, Request
    <2>2. r.kind = "set" => r.section \in Sections
      BY <1>3, <1>4, <1>8 DEF Request, Changing, DoneInv, TypedRequests
    <2>3. /\ Section(r) \in Touches(r) /\ Section(r) \in Sections
          /\ ~ LoadsUnderLock(r)
      BY <2>1, <2>2, SectionsOf DEF Edits, Section, Sections, Settings,
         NodeEdits, FingerprintEdits
    <2>4. QED
      BY <1>1, <1>5, <1>8, <2>1, <2>3
  <1>9. ASSUME stage[g] \in Reloading, NEW s \in Sections \ {"log"}
        PROVE  /\ disk'[s] = disk[s]
               /\ InUse(s) => InUse(s)'
    <2>1. s \in Touches(r) /\ ~ LoadsUnderLock(r)
      BY <1>3, <1>4, <1>9, SectionsOf DEF Request
    <2>2. QED
      BY <1>5, <1>9, <2>1, InUseKept DEF Reloading
  <1>10. ASSUME stage[g] = "reloading", NEW s \in Sections \ {"log"}
         PROVE  copy'[g][s] = disk'[s]
    BY <1>1, <1>3, <1>9, <1>10 DEF Alone, Reloading
  <1>11. ASSUME stage[g] \in Reloading, r.failed = FALSE,
                NEW s \in Sections \ {"log"}
         PROVE  s \in Left(g)' \/ InUse(s)'
    <2>1. s \in Left(g) \/ InUse(s)
      BY <1>3, <1>4, <1>11 DEF Alone
    <2>2. Left(g)' = Left(g)
      BY <1>1 DEF Left
    <2>3. QED
      BY <1>9, <1>11, <2>1, <2>2
  <1>12. Switched(running["nodes"], r)' <=> Switched(running'["nodes"], r)
    BY DEF Switched, PoolSwitched
  <1>13. QED
    BY <1>1, <1>4, <1>6, <1>7, <1>8, <1>10, <1>11, <1>12 DEF Alone

\* Together: everything about the others stays as it is.
LEMMA OthersKept ==
    ASSUME TypedRequests, DoneInv, SerialInv', NEW h \in Handlers,
           Moves(h), Affects(h), FilesInv', Rivals',
           Request(h)', Progress(h)'
    PROVE  DoneInv'
  <1>1. ASSUME NEW g \in Handlers PROVE Request(g)' /\ Progress(g)'
    BY OthersRequest, OthersNamed, OthersAlone DEF Progress
  <1>2. workload' \in Workloads /\ Tables'
    BY DEF Moves, DoneInv
  <1>3. QED
    BY <1>1, <1>2 DEF DoneInv

\* Nobody gets a new request.
LEMMA RivalsKept ==
    ASSUME DoneInv, NEW h \in Handlers, Moves(h), raced' = raced,
           stage'[h] # "idle" =>
              /\ stage[h] # "idle"
              /\ Touches(job'[h]) = Touches(job[h])
              /\ LoadsUnderLock(job'[h]) <=> LoadsUnderLock(job[h])
    PROVE  Rivals'
  <1>1. ASSUME NEW g \in Handlers, stage'[g] # "idle"
        PROVE  /\ stage[g] # "idle"
               /\ Touches(job'[g]) = Touches(job[g])
               /\ LoadsUnderLock(job'[g]) <=> LoadsUnderLock(job[g])
    BY <1>1 DEF Moves
  <1>2. ASSUME NEW g \in Handlers, NEW k \in Handlers, g # k,
               stage'[g] # "idle", stage'[k] # "idle", Races(job'[g], job'[k])
        PROVE  raced'[g] = TRUE
    <2>1. Races(job[g], job[k])
      BY <1>1, <1>2 DEF Races
    <2>2. QED
      BY <1>1, <1>2, <2>1 DEF DoneInv, Rivals
  <1>3. Rivals' <=> \A g, k \in Handlers :
            g # k /\ stage'[g] # "idle" /\ stage'[k] # "idle"
                  /\ Races(job'[g], job'[k]) => raced'[g] = TRUE
    BY DEF Rivals, Races, Touches, Section, LoadsUnderLock
  <1>4. QED
    BY <1>2, <1>3

-----------------------------------------------------------------------------
(* The steps one by one.                                                   *)

\* Nothing but the handler's own state, and perhaps fileMu, changes.
LEMMA NothingAffected ==
    ASSUME DoneInv, disk' = disk, running' = running, NEW h \in Handlers
    PROVE  Affects(h) /\ FilesInv' /\ DOMAIN running' = Sections
  <1>1. FilesInv'
    BY DEF DoneInv, FilesInv, TypedFile, TypedPools, TypedPool, Typed
  <1>2. QED
    BY <1>1 DEF Affects, DoneInv, Tables

LEMMA AnswerKept ==
    ASSUME TypedRequests, DoneInv, SerialInv', NEW h \in Handlers, NEW a,
           Answer(h, a), workload' = workload, todo' = todo, raced' = raced,
           DOMAIN running' = Sections, Affects(h), FilesInv'
    PROVE  DoneInv'
  <1>1. DOMAIN stage = Handlers /\ DOMAIN copy = Handlers /\ Tables
    BY DEF DoneInv, SerialInv, Shape
  <1>2. Moves(h) /\ stage'[h] = "idle"
    BY <1>1 DEF Answer, Go, Moves, Tables
  <1>3. Request(h)' /\ Progress(h)'
    BY <1>2 DEF Request, Progress, Named, Alone, Changing, Reloading
  <1>4. Rivals'
    BY <1>2, RivalsKept
  <1>5. QED
    BY <1>2, <1>3, <1>4, OthersKept

\* A step to another stage of the same request.
LEMMA ProceedKept ==
    ASSUME TypedRequests, DoneInv, SerialInv', NEW h \in Handlers, NEW l,
           stage[h] # "idle", Proceed(h, l), workload' = workload, todo' = todo,
           raced' = raced, DOMAIN running' = Sections, Affects(h), FilesInv',
           Request(h)', Progress(h)'
    PROVE  DoneInv'
  <1>1. DOMAIN stage = Handlers /\ DOMAIN copy = Handlers /\ Tables
    BY DEF DoneInv, SerialInv, Shape
  <1>2. Moves(h) /\ job'[h] = job[h]
    BY <1>1 DEF Proceed, Go, Moves, Tables
  <1>3. Rivals'
    BY <1>2, RivalsKept
  <1>4. QED
    BY <1>2, <1>3, OthersKept

\* What Use makes of the running process.
LEMMA UseOK ==
    ASSUME DoneInv, NEW section \in Sections, NEW value, Use(section, value),
           section = "nodes" => TypedFile(value)
    PROVE  /\ DOMAIN running' = Sections
           /\ \A s \in Sections : s # section => running'[s] = running[s]
           /\ section # "nodes" => running'[section] = value
           /\ section = "nodes" =>
                 /\ DOMAIN running'["nodes"] = DOMAIN value
                 /\ \A p \in DOMAIN value :
                       running'["nodes"][p].config = value[p]
           /\ TypedPools(running'["nodes"])
  <1>1. DOMAIN running = Sections /\ TypedPools(running["nodes"])
    BY DEF DoneInv, Tables, FilesInv
  <1>2. CASE section = "nodes"
    <2>1. PICK new \in Loaded(value, running["nodes"]) :
             running' = [running EXCEPT !["nodes"] = new]
      BY <1>2 DEF Use
    <2>2. /\ DOMAIN new = DOMAIN value
          /\ \A p \in DOMAIN value : new[p].config = value[p]
          /\ TypedPools(new)
      BY <1>1, <1>2, LoadTyped
    <2>3. running'["nodes"] = new
      BY <1>1, <1>2, <2>1
    <2>4. QED
      BY <1>1, <1>2, <2>1, <2>2, <2>3
  <1>3. CASE section # "nodes"
    <2>1. running' = [running EXCEPT ![section] = value]
      BY <1>3 DEF Use
    <2>2. running'["nodes"] = running["nodes"]
      BY <1>1, <1>3, <2>1
    <2>3. QED
      BY <1>1, <1>3, <2>1, <2>2
  <1>4. QED
    BY <1>2, <1>3

\* So the sections of a request affect no others.
LEMMA UseAffects ==
    ASSUME DoneInv, NEW h \in Handlers, stage[h] # "idle",
           NEW section \in Sections, section \in Touches(job[h]), NEW value,
           Use(section, value), section = "nodes" => TypedFile(value),
           disk' = disk
    PROVE  Affects(h) /\ FilesInv' /\ DOMAIN running' = Sections
  <1>1. /\ DOMAIN running' = Sections
        /\ \A s \in Sections : s # section => running'[s] = running[s]
        /\ TypedPools(running'["nodes"])
    BY UseOK
  <1>2. TypedFile(disk'["nodes"])
    BY DEF DoneInv, FilesInv
  <1>3. FilesInv'
    BY <1>1, <1>2 DEF FilesInv, TypedFile, TypedPools, TypedPool, Typed
  <1>4. QED
    BY <1>1, <1>3 DEF Affects

\* Answers that change nothing.
LEMMA QuietAnswers ==
    ASSUME TypedRequests, DoneInv, SerialInv', NEW h \in Handlers,
           EditRefused(h) \/ LoadFails(h) \/ ReloadEnds(h)
    PROVE  DoneInv'
  <1>1. /\ disk' = disk /\ running' = running /\ workload' = workload
        /\ todo' = todo /\ raced' = raced
        /\ \E a : Answer(h, a)
    BY DEF EditRefused, LoadFails, ReloadEnds, bounds
  <1>2. QED
    BY <1>1, NothingAffected, AnswerKept

LEMMA LoginsKept ==
    ASSUME TypedRequests, DoneInv, SerialInv', NEW h \in Handlers,
           LoginAllowed(h) \/ PasswordCompared(h)
    PROVE  DoneInv'
  <1>1. /\ disk' = disk /\ running' = running /\ workload' = workload
        /\ todo' = todo /\ raced' = raced
        /\ (\E a : Answer(h, a))
              \/ (stage[h] = "login" /\ Proceed(h, "password"))
    BY DEF LoginAllowed, PasswordCompared, bounds
  <1>2. CASE \E a : Answer(h, a)
    BY <1>1, <1>2, NothingAffected, AnswerKept
  <1>3. CASE stage[h] = "login" /\ Proceed(h, "password")
    <2>1. stage'[h] = "password" /\ job' = job /\ answer' = answer
      BY <1>3 DEF Proceed, Go, DoneInv, SerialInv, Shape
    <2>2. Request(h)
      BY DEF DoneInv
    <2>3. Request(h)' /\ Progress(h)'
      BY <1>3, <2>1, <2>2 DEF Request, Progress, Named, Alone, Changing,
         Reloading
    <2>4. QED
      BY <1>1, <1>3, <2>3, NothingAffected, ProceedKept
  <1>4. QED
    BY <1>1, <1>2, <1>3

LEMMA LoadSavedKept ==
    ASSUME TypedRequests, DoneInv, SerialInv', NEW h \in Handlers,
           LoadSaved(h) \/ Apply(h)
    PROVE  DoneInv'
  <1>1. PICK r : r = job[h]
    OBVIOUS
  <1>2. /\ disk' = disk /\ workload' = workload
        /\ todo' = todo /\ raced' = raced
        /\ stage[h] \in {"load", "apply"}
        /\ \E a : Answer(h, a)
    BY DEF LoadSaved, Apply, bounds
  <1>3. /\ stage[h] = "load" => LoadsUnderLock(r)
        /\ stage[h] = "apply" => r.kind \in Settings
        /\ r \in workload.requests /\ r.kind \in Edits
    BY <1>1, <1>2 DEF DoneInv, Request, Changing
  <1>4. r.kind = "set" => r.section \in Sections \ {"nodes"}
    BY <1>3 DEF DoneInv, TypedRequests
  <1>5. /\ Section(r) \in Touches(r) /\ Section(r) \in Sections
        /\ stage[h] = "apply" => Section(r) # "nodes"
    BY <1>3, <1>4, SectionsOf DEF Section, Sections, Edits, NodeEdits,
       FingerprintEdits, Settings
  <1>6. PICK value : /\ Use(Section(r), value)
                     /\ Section(r) = "nodes" => value = disk["nodes"]
    BY <1>1, <1>2, <1>5 DEF LoadSaved, Apply
  <1>7. Section(r) = "nodes" => TypedFile(value)
    BY <1>6 DEF DoneInv, FilesInv
  <1>8. Affects(h) /\ FilesInv' /\ DOMAIN running' = Sections
    BY <1>1, <1>2, <1>5, <1>6, <1>7, UseAffects
  <1>9. QED
    BY <1>2, <1>8, AnswerKept

LEMMA RefreshKept ==
    ASSUME TypedRequests, DoneInv, SerialInv', NEW h \in Handlers, Refresh(h)
    PROVE  DoneInv'
  <1>1. /\ disk' = disk /\ workload' = workload
        /\ todo' = todo /\ raced' = raced /\ stage[h] = "refresh"
        /\ \E a : Answer(h, a)
    BY DEF Refresh, bounds
  <1>2. CASE running' = running
    BY <1>1, <1>2, NothingAffected, AnswerKept
  <1>3. CASE running' # running
    <2>1. PICK p : p = job[h].pool
      OBVIOUS
    <2>2. PICK old : old = running["nodes"]
      OBVIOUS
    <2>3. PICK l \in Listings :
             /\ IsSubscription(running["nodes"], p)
             /\ running' = [running EXCEPT !["nodes"][p] =
                   [config |-> @.config, own |-> Fresh(l).own, at |-> l]]
      BY <1>3, <2>1 DEF Refresh
    <2>4. DOMAIN running = Sections /\ p \in DOMAIN old /\ TypedPools(old)
      BY <2>2, <2>3 DEF DoneInv, Tables, FilesInv, IsSubscription
    <2>5. /\ running'["nodes"] =
                [old EXCEPT ![p] =
                    [config |-> old[p].config, own |-> Fresh(l).own, at |-> l]]
          /\ \A s \in Sections : s # "nodes" => running'[s] = running[s]
          /\ DOMAIN running' = Sections
      BY <2>2, <2>3, <2>4 DEF Sections
    <2>6. Refreshed(p)
      BY <2>2, <2>3, <2>5 DEF Refreshed
    <2>7. TypedPools(running'["nodes"])
      BY <2>6, RefreshKeeps
    <2>8. TypedFile(disk'["nodes"])
      BY <1>1 DEF DoneInv, FilesInv
    <2>9. FilesInv'
      BY <2>7, <2>8 DEF FilesInv, TypedFile, TypedPools, TypedPool, Typed
    <2>10. Affects(h)
      BY <1>1, <2>5, <2>6 DEF Affects
    <2>11. QED
      BY <1>1, <2>5, <2>9, <2>10, AnswerKept
  <1>4. QED
    BY <1>2, <1>3

\* The switch of a node at run time.
LEMMA SwitchNodeKept ==
    ASSUME TypedRequests, DoneInv, SerialInv', NEW h \in Handlers,
           SwitchNode(h)
    PROVE  DoneInv'
  <1>1. PICK r : r = job[h]
    OBVIOUS
  <1>2. PICK old : old = running["nodes"]
    OBVIOUS
  <1>3. /\ disk' = disk /\ workload' = workload /\ todo' = todo
        /\ raced' = raced /\ stage[h] = "switch" /\ r.kind = "enable"
    BY <1>1 DEF SwitchNode, bounds
  <1>4. CASE \E a : Answer(h, a) /\ running' = running
    BY <1>3, <1>4, NothingAffected, AnswerKept
  <1>5. CASE ~ \E a : Answer(h, a) /\ running' = running
    <2>1. /\ r.pool \in DOMAIN old /\ r.node \in DOMAIN old[r.pool].own
          /\ Proceed(h, "lock")
          /\ running' = [running EXCEPT !["nodes"][r.pool] =
                [config |-> NodeEnabled(@.config, r.node, r.on),
                 own    |-> [@.own EXCEPT ![r.node] = Switch(r.on)],
                 at     |-> @.at]]
      BY <1>1, <1>2, <1>5 DEF SwitchNode
    <2>2. PICK was : was = old[r.pool]
      OBVIOUS
    <2>3. PICK is : is = [config |-> NodeEnabled(was.config, r.node, r.on),
                          own    |-> [was.own EXCEPT ![r.node] = Switch(r.on)],
                          at     |-> was.at]
      OBVIOUS
    <2>4. DOMAIN running = Sections /\ TypedPools(old) /\ TypedPool(was)
      BY <1>2, <2>1, <2>2 DEF DoneInv, Tables, FilesInv, TypedPools
    <2>5. /\ running'["nodes"] = [old EXCEPT ![r.pool] = is]
          /\ \A s \in Sections : s # "nodes" => running'[s] = running[s]
          /\ DOMAIN running' = Sections
      BY <1>2, <2>1, <2>2, <2>3, <2>4 DEF Sections
    <2>6. PICK c : c = was.config
      OBVIOUS
    <2>7. DOMAIN c = Fields
      BY <2>4, <2>6 DEF TypedPool, Typed
    <2>8. PICK d : d = NodeEnabled(c, r.node, r.on)
      OBVIOUS
    <2>9. DOMAIN d = Fields /\ d.source = c.source
      BY <2>7, <2>8 DEF NodeEnabled, Fields
    <2>10. r.node \in DOMAIN d.nodes \/ (r.node \notin d.disabled <=> r.on = TRUE)
      BY <1>1, <1>3, <2>7, <2>8
      DEF NodeEnabled, Fields, DoneInv, Request, Changing, TypedRequests
    <2>11. /\ is.config = d /\ DOMAIN is = {"config", "own", "at"}
           /\ DOMAIN is.own = DOMAIN was.own
           /\ is.own[r.node] = Switch(r.on)
      BY <2>1, <2>2, <2>3, <2>6, <2>8
    <2>12. TypedPool(is)
      BY <2>4, <2>6, <2>9, <2>10, <2>11 DEF TypedPool, Typed
    <2>13. TypedPools(running'["nodes"])
      BY <2>4, <2>5, <2>12 DEF TypedPools
    <2>14. TypedFile(disk'["nodes"])
      BY <1>3 DEF DoneInv, FilesInv
    <2>15. FilesInv'
      BY <2>13, <2>14 DEF FilesInv, TypedFile, TypedPools, TypedPool, Typed
    <2>16. Affects(h)
      <3>1. "nodes" \in Touches(job[h])
        BY <1>1, <1>3, SectionsOf DEF Edits
      <3>2. QED
        BY <1>3, <2>5, <3>1 DEF Affects
    <2>17. r.on \in BOOLEAN /\ Request(h)
      BY <1>1, <1>3 DEF DoneInv, Request, Changing, TypedRequests
    <2>18. /\ stage'[h] = "lock" /\ job' = job /\ answer' = answer
           /\ keys' = keys /\ copy' = copy
      BY <2>1 DEF Proceed, Go, DoneInv, SerialInv, Shape
    <2>19. Request(h)'
      BY <1>3, <2>17, <2>18 DEF Request, Changing, Reloading
    <2>20. Switched(running'["nodes"], r)
      <3>1. PoolSwitched(is, r)
        <4>1. r.node \in DOMAIN is.own
          BY <2>1, <2>2, <2>11
        <4>2. CASE is.config.source = "subscription"
          <5>1. r.node \in DOMAIN is.config.nodes
                   \/ (r.node \notin is.config.disabled) = r.on
            BY <2>10, <2>11, <2>17
          <5>2. QED
            BY Zenon, <2>11, <4>1, <4>2, <5>1 DEF PoolSwitched
        <4>3. CASE is.config.source # "subscription"
          BY <2>11, <4>1, <4>3 DEF PoolSwitched
        <4>4. QED
          BY <4>2, <4>3
      <3>2. /\ r.pool \in DOMAIN running'["nodes"]
            /\ running'["nodes"][r.pool] = is
        BY <2>1, <2>5
      <3>3. QED
        BY <3>1, <3>2 DEF Switched
    <2>21. Switched(running["nodes"], r)' <=> Switched(running'["nodes"], r)
      BY DEF Switched, PoolSwitched
    <2>22. Progress(h)'
      BY <1>1, <1>3, <2>18, <2>20, <2>21 DEF Progress, Named, Alone, Reloading
    <2>23. QED
      BY <1>3, <2>1, <2>5, <2>15, <2>16, <2>19, <2>22, ProceedKept
  <1>6. QED
    BY <1>4, <1>5

LEMMA SwitchLogKept ==
    ASSUME TypedRequests, DoneInv, SerialInv', NEW h \in Handlers,
           SwitchLog(h)
    PROVE  DoneInv'
  <1>1. PICK r : r = job[h]
    OBVIOUS
  <1>2. /\ disk' = disk /\ workload' = workload /\ todo' = todo
        /\ raced' = raced /\ stage[h] = "switch" /\ r.kind = "set"
        /\ running' = [running EXCEPT !["log"] = r.value]
        /\ Proceed(h, "lock")
    BY <1>1 DEF SwitchLog, bounds
  <1>3. r.section = "log" /\ Request(h)
    BY <1>1, <1>2 DEF DoneInv, Request
  <1>4. /\ running'["log"] = r.value /\ DOMAIN running' = Sections
        /\ \A s \in Sections : s # "log" => running'[s] = running[s]
    BY <1>2 DEF DoneInv, Tables, Sections
  <1>5. FilesInv'
    <2>1. running'["nodes"] = running["nodes"] /\ disk' = disk
      BY <1>2, <1>4 DEF Sections
    <2>2. QED
      BY <2>1 DEF DoneInv, FilesInv, TypedFile, TypedPools, TypedPool,
         Typed
  <1>6. Affects(h)
    <2>1. "log" \in Touches(r)
      BY <1>2, <1>3, SectionsOf DEF Edits, Settings
    <2>2. QED
      BY <1>1, <1>2, <1>4, <2>1 DEF Affects
  <1>7. /\ stage'[h] = "lock" /\ job' = job /\ answer' = answer
        /\ keys' = keys /\ copy' = copy
    BY <1>2 DEF Proceed, Go, DoneInv, SerialInv, Shape
  <1>8. Request(h)'
    BY <1>2, <1>3, <1>7 DEF Request, Changing, Reloading
  <1>9. Progress(h)'
    BY <1>1, <1>2, <1>4, <1>7 DEF Progress, Named, Alone, Reloading
  <1>10. QED
    BY <1>2, <1>4, <1>5, <1>6, <1>8, <1>9, ProceedKept

\* The file is read with fileMu; nothing else changes.
LEMMA LockKept ==
    ASSUME TypedRequests, DoneInv, SerialInv', NEW h \in Handlers, Lock(h)
    PROVE  DoneInv'
  <1>1. /\ stage[h] = "lock" /\ disk' = disk /\ running' = running
        /\ job' = job /\ todo' = todo /\ answer' = answer /\ raced' = raced
        /\ workload' = workload
        /\ copy' = [copy EXCEPT ![h] = disk]
        /\ keys' = [keys EXCEPT ![h] = KeysOf(job[h])]
        /\ stage' = [stage EXCEPT ![h] = "edit"]
    BY DEF Lock, Go, bounds
  <1>2. DOMAIN stage = Handlers /\ DOMAIN copy = Handlers /\ Tables
    BY DEF DoneInv, SerialInv, Shape
  <1>3. Moves(h) /\ stage'[h] = "edit" /\ keys'[h] = KeysOf(job[h])
    BY <1>1, <1>2 DEF Moves, Tables
  <1>4. Affects(h) /\ FilesInv'
    BY <1>1, NothingAffected
  <1>5. Rivals'
    BY <1>1, <1>3, RivalsKept
  <1>6. Request(h) /\ Progress(h)
    BY DEF DoneInv
  <1>7. Request(h)'
    <2>1. AtMostOne(KeysOf(job[h]))
      BY DEF AtMostOne, KeysOf
    <2>2. AtMostOne(keys[h])' <=> AtMostOne(keys'[h])
      BY DEF AtMostOne
    <2>3. QED
      BY <1>1, <1>3, <1>6, <2>1, <2>2 DEF Request, Changing, Reloading
  <1>8. Progress(h)'
    <2>1. Switched(running["nodes"], job[h])' <=> Switched(running["nodes"], job[h])
      BY <1>1 DEF Switched, PoolSwitched
    <2>2. QED
      BY <1>1, <1>3, <1>6, <2>1 DEF Progress, Named, Alone, Reloading
  <1>9. QED
    BY <1>3, <1>4, <1>5, <1>7, <1>8, OthersKept

\* What the file holds of a node after an edit of its metadata.
LEMMA SetOrDropUnder ==
    ASSUME NEW f, NEW K, NEW value
    PROVE  Under(SetOrDrop(f, K, value), K, value)
  BY DEF Under, SetOrDrop, Drop

LEMMA MetadataShown ==
    ASSUME NEW c, Typed(c), NEW r, NEW K
    PROVE  Shown(WithMetadata(c, r, K), r, K)
  <1> DEFINE d == WithMetadata(c, r, K)
             drop == {a \in DOMAIN c.aliases : c.aliases[a] = r.node}
             others == Drop(c.aliases, drop)
  <1>1. /\ d.aliases = IF r.alias = Nothing THEN others
                       ELSE Put(others, r.alias, r.node)
        /\ d.serverAliases = SetOrDrop(c.serverAliases, K, r.alias)
        /\ d.labels = SetOrDrop(c.labels, {r.node}, r.label)
        /\ d.serverLabels = SetOrDrop(c.serverLabels, K, r.label)
    BY DEF WithMetadata, Typed, Fields
  <1>2. \A a \in DOMAIN others : others[a] # r.node
    BY DEF Drop
  <1> HIDE DEF d, others
  <1>3. {a \in DOMAIN d.aliases : d.aliases[a] = r.node} = {r.alias} \ {Nothing}
    BY <1>1, <1>2 DEF Put
  <1>4. /\ Under(d.serverAliases, K, r.alias)
        /\ Under(d.labels, {r.node}, r.label)
        /\ Under(d.serverLabels, K, r.label)
    BY <1>1, SetOrDropUnder
  <1>5. QED
    BY <1>3, <1>4 DEF Shown, d

\* A file is replaced.
LEMMA SaveKept ==
    ASSUME TypedRequests, DoneInv, SerialInv', NEW h \in Handlers, Save(h)
    PROVE  DoneInv'
  <1>1. PICK r : r = job[h]
    OBVIOUS
  <1>2. PICK sec : sec = Section(r)
    OBVIOUS
  <1>3. /\ stage[h] = "edit" /\ disk' = Saved(h) /\ running' = running
        /\ todo' = todo /\ raced' = raced /\ workload' = workload
        /\ ~ Refused(r, copy[h][sec], keys[h])
    BY <1>1, <1>2 DEF Save, bounds
  <1>4. copy[h] = disk /\ fileMu = h /\ DOMAIN disk = Sections
    BY <1>3 DEF DoneInv, SerialInv, Shape, Holding
  <1>5. disk' = [disk EXCEPT ![sec] = Edited(r, disk[sec], keys[h])]
    BY <1>1, <1>2, <1>3, SavedIsEdit DEF DoneInv
  <1>6. Request(h) /\ r \in workload.requests /\ r.kind \in Edits
    BY <1>1, <1>3 DEF DoneInv, Request, Changing
  <1>7. /\ r.kind = "set" => r.section \in Sections \ {"nodes"}
        /\ r.kind \in {"addPool", "updatePool"} => Typed(r.config)
    BY <1>6 DEF DoneInv, TypedRequests
  <1>8. sec \in Sections /\ sec \in Touches(r)
    BY <1>2, <1>6, <1>7, SectionsOf DEF Section, Sections, Edits, NodeEdits,
       FingerprintEdits, Settings
  <1>9. Affects(h)
    BY <1>1, <1>3, <1>4, <1>5, <1>8 DEF Affects
  <1>10. disk'[sec] = Edited(r, disk[sec], keys[h])
    BY <1>4, <1>5, <1>8
  <1>11. TypedFile(disk'["nodes"])
    <2>1. TypedFile(disk["nodes"])
      BY DEF DoneInv, FilesInv
    <2>2. CASE sec # "nodes"
      BY <1>4, <1>5, <2>1, <2>2 DEF Sections
    <2>3. CASE sec = "nodes"
      <3>1. r.kind \in NodeEdits \cup {"enable"}
        BY <1>2, <1>6, <1>7, <2>3 DEF Section, Edits, FingerprintEdits, Settings
      <3>2. ~ Refused(r, disk["nodes"], keys[h])
        BY <1>3, <1>4, <2>3
      <3>3. QED
        BY <1>7, <1>10, <2>1, <2>3, <3>1, <3>2, EditTyped
    <2>4. QED
      BY <2>2, <2>3
  <1>12. TypedPools(running'["nodes"]) /\ DOMAIN running' = Sections
    BY <1>3 DEF DoneInv, FilesInv, Tables
  <1>13. FilesInv'
    BY <1>11, <1>12 DEF FilesInv, TypedFile, TypedPools, TypedPool, Typed
  <1>14. CASE LoadsUnderLock(r) /\ Proceed(h, "load")
    <2>1. stage'[h] = "load" /\ job' = job /\ keys' = keys /\ answer' = answer
      BY <1>14 DEF Proceed, Go, DoneInv, SerialInv, Shape
    <2>2. Request(h)'
      BY <1>1, <1>3, <1>6, <1>14, <2>1 DEF Request, Changing, Reloading
    <2>3. ASSUME r.kind = "metadata"
          PROVE  /\ r.pool \in DOMAIN disk'["nodes"]
                 /\ Shown(disk'["nodes"][r.pool], r, keys[h])
      <3>1. sec = "nodes"
        BY <1>2, <2>3, SectionsOf DEF NodeEdits
      <3>2. PICK file : file = disk["nodes"]
        OBVIOUS
      <3>3. r.pool \in DOMAIN file
        BY <1>3, <1>4, <2>3, <3>1, <3>2 DEF Refused
      <3>4. Typed(file[r.pool])
        BY <3>2, <3>3 DEF DoneInv, FilesInv, TypedFile
      <3>5. disk'["nodes"] =
               [file EXCEPT ![r.pool] = WithMetadata(file[r.pool], r, keys[h])]
        BY <1>10, <2>3, <3>1, <3>2 DEF Edited
      <3>6. Shown(WithMetadata(file[r.pool], r, keys[h]), r, keys[h])
        BY <3>4, MetadataShown
      <3>7. QED
        BY <3>3, <3>5, <3>6
    <2>4. Named(h)' <=> (stage'[h] = "load" /\ job'[h].kind = "metadata"
                         => /\ job'[h].pool \in DOMAIN disk'["nodes"]
                            /\ Shown(disk'["nodes"][job'[h].pool], job'[h], keys'[h]))
      BY DEF Named, Shown, Under
    <2>5. Progress(h)'
      BY <1>1, <2>1, <2>3, <2>4 DEF Progress, Alone, Reloading
    <2>6. QED
      BY <1>3, <1>9, <1>12, <1>13, <1>14, <2>2, <2>5, ProceedKept
  <1>15. CASE Answer(h, "ok")
    BY <1>3, <1>9, <1>12, <1>13, <1>15, AnswerKept
  <1>16. CASE /\ ~ LoadsUnderLock(r) /\ FirstStage(r) # "switch"
              /\ Go(h, "apply") /\ copy' = [copy EXCEPT ![h] = Saved(h)]
              /\ answer' = answer /\ job' = job /\ keys' = keys
    <2>1. DOMAIN stage = Handlers /\ DOMAIN copy = Handlers /\ Tables
      BY DEF DoneInv, SerialInv, Shape
    <2>2. Moves(h) /\ stage'[h] = "apply" /\ copy'[h] = disk'
      BY <1>3, <1>12, <1>16, <2>1 DEF Go, Moves, Tables
    <2>3. r.kind \in Settings
      BY <1>6, <1>16 DEF LoadsUnderLock, Edits, FirstStage
    <2>4. Request(h)'
      BY <1>1, <1>3, <1>6, <1>16, <2>2, <2>3 DEF Request, Changing, Reloading
    <2>5. Progress(h)'
      BY <1>1, <1>16, <2>2 DEF Progress, Named, Alone, Reloading
    <2>6. Rivals'
      BY <1>3, <1>16, <2>2, RivalsKept
    <2>7. QED
      BY <1>9, <1>13, <2>2, <2>4, <2>5, <2>6, OthersKept
  <1>17. QED
    BY <1>1, <1>14, <1>15, <1>16 DEF Save

\* A reload reads the files.
LEMMA ReloadReadKept ==
    ASSUME TypedRequests, DoneInv, SerialInv', NEW h \in Handlers,
           ReloadRead(h)
    PROVE  DoneInv'
  <1>1. /\ stage[h] = "reload" /\ todo[h] # <<>>
        /\ disk' = disk /\ running' = running
        /\ job' = job /\ todo' = todo /\ answer' = answer /\ raced' = raced
        /\ keys' = keys /\ workload' = workload
        /\ copy' = [copy EXCEPT ![h] = disk]
        /\ stage' = [stage EXCEPT ![h] = "reloading"]
    BY DEF ReloadRead, Go, bounds
  <1>2. DOMAIN stage = Handlers /\ DOMAIN copy = Handlers /\ Tables
    BY DEF DoneInv, SerialInv, Shape
  <1>3. Moves(h) /\ stage'[h] = "reloading" /\ copy'[h] = disk
    BY <1>1, <1>2 DEF Moves, Tables
  <1>4. Affects(h) /\ FilesInv'
    BY <1>1, NothingAffected
  <1>5. Rivals'
    BY <1>1, <1>3, RivalsKept
  <1>6. Request(h) /\ Progress(h)
    BY DEF DoneInv
  <1>7. TypedFile(copy[h]["nodes"])'
    BY <1>3 DEF DoneInv, FilesInv, TypedFile, Typed
  <1>8. Request(h)'
    BY <1>1, <1>3, <1>6, <1>7 DEF Request, Changing, Reloading
  <1>9. \A s \in Sections : InUse(s) <=> InUse(s)'
    BY <1>1 DEF InUse
  <1>10. Left(h)' = Left(h)
    BY <1>1 DEF Left
  <1>11. Progress(h)'
    BY <1>1, <1>3, <1>6, <1>9, <1>10 DEF Progress, Named, Alone, Reloading
  <1>12. QED
    BY <1>3, <1>4, <1>5, <1>8, <1>11, OthersKept

\* A section is dealt with: what is left is the rest.
LEMMA RestIsLeft ==
    ASSUME NEW S, NEW q \in Seq(S), q # <<>>
    PROVE  /\ Tail(q) \in Seq(S) /\ Head(q) \in S
           /\ \A i \in 1 .. Len(q) :
                 \/ q[i] = Head(q)
                 \/ \E j \in 1 .. Len(Tail(q)) : Tail(q)[j] = q[i]
  <1>1. Tail(q) \in Seq(S) /\ Head(q) \in S /\ Len(Tail(q)) = Len(q) - 1
    OBVIOUS
  <1>2. ASSUME NEW i \in 1 .. Len(q), i # 1
        PROVE  \E j \in 1 .. Len(Tail(q)) : Tail(q)[j] = q[i]
    <2>1. i - 1 \in 1 .. Len(Tail(q)) /\ Tail(q)[i - 1] = q[i]
      BY <1>2
    <2>2. QED
      BY <2>1
  <1>3. q[1] = Head(q)
    OBVIOUS
  <1>4. QED
    BY <1>1, <1>2, <1>3

LEMMA ReloadSkipKept ==
    ASSUME TypedRequests, DoneInv, SerialInv', NEW h \in Handlers,
           ReloadSkip(h)
    PROVE  DoneInv'
  <1>1. /\ stage[h] = "reloading" /\ disk' = disk /\ running' = running
        /\ job' = [job EXCEPT ![h] = [kind |-> "reload", failed |-> TRUE]]
        /\ todo' = [todo EXCEPT ![h] = Tail(todo[h])]
        /\ answer' = answer /\ raced' = raced
        /\ keys' = keys /\ workload' = workload /\ copy' = copy
        /\ stage' = [stage EXCEPT ![h] = "reload"]
    BY DEF ReloadSkip, Go, bounds
  <1>2. DOMAIN stage = Handlers /\ DOMAIN copy = Handlers /\ Tables
    BY DEF DoneInv, SerialInv, Shape
  <1>3. /\ Moves(h) /\ stage'[h] = "reload"
        /\ job'[h] = [kind |-> "reload", failed |-> TRUE]
        /\ todo'[h] = Tail(todo[h])
    BY <1>1, <1>2 DEF Moves, Tables
  <1>4. Affects(h) /\ FilesInv'
    BY <1>1, NothingAffected
  <1>5. Request(h) /\ Progress(h)
    BY DEF DoneInv
  <1>6. /\ job[h].kind = "reload" /\ todo[h] # <<>>
        /\ todo[h] \in Seq(Sections \ {"log"})
    BY <1>1, <1>5 DEF Request, Reloading
  <1>7. Rivals'
    <2>1. /\ Touches(job'[h]) = Touches(job[h])
          /\ LoadsUnderLock(job'[h]) <=> LoadsUnderLock(job[h])
      <3>1. job'[h].kind = "reload"
        BY <1>3
      <3>2. PICK q : q = job'[h]
        OBVIOUS
      <3>3. Touches(q) = Touches(job[h]) /\ ~ LoadsUnderLock(q)
               /\ ~ LoadsUnderLock(job[h])
        BY <1>6, <3>1, <3>2, SectionsOf
      <3>4. QED
        BY <3>2, <3>3
    <2>2. QED
      BY <1>1, <1>3, <2>1, RivalsKept
  <1>8. Tail(todo[h]) \in Seq(Sections \ {"log"})
    BY <1>6, RestIsLeft
  <1>9. Request(h)'
    <2>1. job'[h].kind = "reload" /\ job'[h].failed \in BOOLEAN
      BY <1>3
    <2>2. answer'[h] = "none"
      BY <1>1, <1>5 DEF Request
    <2>3. QED
      BY <1>3, <1>8, <2>1, <2>2 DEF Request, Changing, Reloading
  <1>10. Progress(h)'
    BY <1>3 DEF Progress, Named, Alone, Reloading
  <1>11. QED
    BY <1>3, <1>4, <1>7, <1>9, <1>10, OthersKept

LEMMA ReloadApplyKept ==
    ASSUME TypedRequests, DoneInv, SerialInv', NEW h \in Handlers,
           ReloadApply(h)
    PROVE  DoneInv'
  <1>1. PICK sec : sec = Head(todo[h])
    OBVIOUS
  <1>2. /\ stage[h] = "reloading" /\ disk' = disk
        /\ Use(sec, copy[h][sec])
        /\ todo' = [todo EXCEPT ![h] = Tail(todo[h])]
        /\ job' = job /\ answer' = answer /\ raced' = raced
        /\ keys' = keys /\ workload' = workload /\ copy' = copy
        /\ stage' = [stage EXCEPT ![h] = "reload"]
    BY <1>1 DEF ReloadApply, Go, bounds
  <1>3. DOMAIN stage = Handlers /\ DOMAIN copy = Handlers /\ Tables
    BY DEF DoneInv, SerialInv, Shape
  <1>4. Request(h) /\ Progress(h)
    BY DEF DoneInv
  <1>5. /\ job[h].kind = "reload" /\ todo[h] # <<>>
        /\ todo[h] \in Seq(Sections \ {"log"})
        /\ TypedFile(copy[h]["nodes"])
    BY <1>2, <1>4 DEF Request, Reloading
  <1>6. /\ Tail(todo[h]) \in Seq(Sections \ {"log"})
        /\ sec \in Sections \ {"log"}
        /\ \A i \in 1 .. Len(todo[h]) :
              \/ todo[h][i] = sec
              \/ \E j \in 1 .. Len(Tail(todo[h])) : Tail(todo[h])[j] = todo[h][i]
    BY <1>1, <1>5, RestIsLeft
  <1>7. Affects(h) /\ FilesInv' /\ DOMAIN running' = Sections
    <2>1. sec \in Touches(job[h])
      BY <1>5, <1>6, SectionsOf
    <2>2. QED
      BY <1>2, <1>5, <1>6, <2>1, UseAffects
  <1>8. Moves(h) /\ stage'[h] = "reload" /\ todo'[h] = Tail(todo[h])
    BY <1>2, <1>3, <1>7 DEF Moves, Tables
  <1>9. Rivals'
    BY <1>2, <1>8, RivalsKept
  <1>10. Request(h)'
    BY <1>2, <1>4, <1>6, <1>8 DEF Request, Changing, Reloading
  <1>11. ASSUME raced[h] = FALSE, job[h].failed = FALSE,
                NEW s \in Sections \ {"log"}
         PROVE  s \in Left(h)' \/ InUse(s)'
    <2>1. /\ copy[h][sec] = disk[sec]
          /\ s \in Left(h) \/ InUse(s)
      BY <1>2, <1>4, <1>6, <1>11 DEF Progress, Alone, Reloading
    <2>2. /\ sec # "nodes" => running'[sec] = disk[sec]
          /\ sec = "nodes" =>
                /\ DOMAIN running'["nodes"] = DOMAIN disk["nodes"]
                /\ \A p \in DOMAIN disk["nodes"] :
                      running'["nodes"][p].config = disk["nodes"][p]
          /\ \A t \in Sections : t # sec => running'[t] = running[t]
      BY <1>2, <1>5, <1>6, <2>1, UseOK
    <2>3. CASE s = sec
      BY <1>2, <2>2, <2>3 DEF InUse
    <2>4. CASE s # sec /\ InUse(s)
      BY <1>2, <2>2, <2>4, InUseKept
    <2>5. CASE s # sec /\ s \in Left(h)
      <3>1. \E j \in 1 .. Len(Tail(todo[h])) : Tail(todo[h])[j] = s
        BY <1>6, <2>5 DEF Left
      <3>2. QED
        BY <1>8, <3>1 DEF Left
    <2>6. QED
      BY <2>1, <2>3, <2>4, <2>5
  <1>12. Progress(h)'
    BY <1>2, <1>8, <1>11 DEF Progress, Named, Alone, Reloading
  <1>13. QED
    BY <1>7, <1>8, <1>9, <1>10, <1>12, OthersKept

LEMMA RacesBothWays ==
    ASSUME NEW r, NEW q, Races(r, q)
    PROVE  Races(q, r)
  BY DEF Races

LEMMA TakeKept ==
    ASSUME TypedRequests, DoneInv, SerialInv', NEW h \in Handlers,
           NEW r \in workload.requests, Take(h, r)
    PROVE  DoneInv'
  <1> DEFINE rivals == {g \in Busy : Races(r, job[g])}
  <1>1. /\ stage[h] = "idle" /\ disk' = disk /\ running' = running
        /\ job' = [job EXCEPT ![h] = r]
        /\ stage' = [stage EXCEPT ![h] = FirstStage(r)]
        /\ todo' = [todo EXCEPT ![h] = IF r.kind = "reload" THEN ReloadOrder
                                                            ELSE <<>>]
        /\ answer' = [answer EXCEPT ![h] = "none"]
        /\ raced' = [g \in Handlers |-> IF g = h THEN rivals # {}
                                        ELSE raced[g] \/ g \in rivals]
        /\ copy' = copy /\ keys' = keys /\ workload' = workload
    BY DEF Take, Go
  <1>2. DOMAIN stage = Handlers /\ DOMAIN copy = Handlers /\ Tables
    BY DEF DoneInv, SerialInv, Shape
  <1>3. raced' \in [Handlers -> BOOLEAN]
    BY <1>1, <1>2 DEF Tables
  <1>4. /\ raced'[h] = (rivals # {})
        /\ \A g \in Handlers \ {h} :
              (raced[g] = TRUE \/ g \in rivals) => raced'[g] = TRUE
    BY <1>1
  <1> HIDE DEF rivals
  <1>5. \A g \in Handlers \ {h} :
            /\ stage'[g] = stage[g] /\ copy'[g] = copy[g] /\ job'[g] = job[g]
            /\ keys'[g] = keys[g] /\ todo'[g] = todo[g] /\ answer'[g] = answer[g]
    BY <1>1, <1>2 DEF Tables
  <1>6. Tables'
    BY <1>1, <1>2, <1>3 DEF Tables
  <1>7. Moves(h)
    BY <1>1, <1>4, <1>5, <1>6 DEF Moves
  <1>8. /\ stage'[h] = FirstStage(r) /\ job'[h] = r /\ answer'[h] = "none"
        /\ todo'[h] = IF r.kind = "reload" THEN ReloadOrder ELSE <<>>
    BY <1>1, <1>2 DEF Tables
  <1>9. Affects(h) /\ FilesInv'
    BY <1>1, NothingAffected
  <1>10. ASSUME NEW g \in Handlers, NEW k \in Handlers, g # k,
                stage'[g] # "idle", stage'[k] # "idle", Races(job'[g], job'[k])
         PROVE  raced'[g] = TRUE
    <2>1. CASE g # h /\ k # h
      <3>1. raced[g] = TRUE
        BY <1>5, <1>10, <2>1 DEF DoneInv, Rivals
      <3>2. QED
        BY <1>4, <2>1, <3>1
    <2>2. CASE g = h
      <3>1. Races(r, job[k]) /\ k \in Busy
        BY <1>5, <1>8, <1>10, <2>2 DEF Busy
      <3>2. k \in rivals
        BY <3>1 DEF rivals
      <3>3. QED
        BY <1>4, <2>2, <3>2
    <2>3. CASE g # h /\ k = h
      <3>1. Races(r, job[g]) /\ g \in Busy
        BY <1>5, <1>8, <1>10, <2>3, RacesBothWays DEF Busy
      <3>2. g \in rivals
        BY <3>1 DEF rivals
      <3>3. QED
        BY <1>4, <2>3, <3>2
    <2>4. QED
      BY <2>1, <2>2, <2>3
  <1>11. Rivals' <=> \A g, k \in Handlers :
            g # k /\ stage'[g] # "idle" /\ stage'[k] # "idle"
                  /\ Races(job'[g], job'[k]) => raced'[g] = TRUE
    BY DEF Rivals, Races, Touches, Section, LoadsUnderLock
  <1>12. Rivals'
    BY <1>10, <1>11
  <1>13. /\ r.kind \in Edits \cup {"login", "refresh", "reload"}
         /\ r.kind = "reload" => r.failed = FALSE
    BY DEF DoneInv, TypedRequests
  <1>14. /\ FirstStage(r) \in {"login", "refresh", "reload", "switch", "lock"}
         /\ FirstStage(r) \in {"login", "refresh", "reload"} =>
               r.kind = FirstStage(r)
         /\ FirstStage(r) = "switch" =>
               r.kind = "enable" \/ (r.kind = "set" /\ r.section = "log")
         /\ FirstStage(r) = "lock" =>
               /\ r.kind # "enable" /\ ~ (r.kind = "set" /\ r.section = "log")
               /\ r.kind \in Edits
    BY <1>13 DEF FirstStage
  <1>15. /\ ReloadOrder \in Seq(Sections \ {"log"})
         /\ \A s \in Sections \ {"log"} :
               \E i \in 1 .. Len(ReloadOrder) : ReloadOrder[i] = s
    BY DEF ReloadOrder, Sections
  <1>16. Request(h)'
    <2>1. FirstStage(r) = "switch" => r.kind \in Edits
      BY <1>14 DEF Edits, Settings
    <2>2. QED
      BY <1>1, <1>8, <1>13, <1>14, <1>15, <2>1 DEF Request, Changing, Reloading
  <1>17. FirstStage(r) = "reload" => \A s \in Sections \ {"log"} : s \in Left(h)'
    BY <1>8, <1>14, <1>15 DEF Left
  <1>18. Progress(h)'
    BY <1>8, <1>14, <1>17 DEF Progress, Named, Alone, Reloading
  <1>19. QED
    BY <1>7, <1>9, <1>12, <1>16, <1>18, OthersKept

\* A process starts without requests, from files that are orderly.
LEMMA StartTyped ==
    ASSUME NEW file, TypedFile(file), NEW pools \in Loaded(file, <<>>)
    PROVE  TypedPools(pools)
  <1>1. TypedPools(<<>>)
    BY DEF TypedPools
  <1>2. QED
    BY <1>1, LoadTyped

LEMMA RestartKept ==
    ASSUME DoneInv, SerialInv', Restart
    PROVE  DoneInv'
  <1>1. /\ Started /\ disk' = disk /\ workload' = workload
        /\ stage' = [h \in Handlers |-> "idle"]
        /\ job' = [h \in Handlers |-> NoJob]
        /\ keys' = [h \in Handlers |-> {}]
        /\ todo' = [h \in Handlers |-> <<>>]
        /\ answer' = [h \in Handlers |-> "none"]
        /\ raced' = [h \in Handlers |-> FALSE]
    BY DEF Restart
  <1>2. TypedFile(disk["nodes"]) /\ DOMAIN disk = Sections
    BY DEF DoneInv, FilesInv, SerialInv, Shape
  <1>3. TypedPools(running'["nodes"]) /\ DOMAIN running' = Sections
    <2>1. CASE Loads(disk["nodes"])
      <3>1. PICK pools \in Loaded(disk["nodes"], <<>>) :
               running' = [disk EXCEPT !["nodes"] = pools]
        BY <1>1, <2>1 DEF Started
      <3>2. TypedPools(pools)
        BY <1>2, StartTyped
      <3>3. running'["nodes"] = pools
        BY <1>2, <3>1 DEF Sections
      <3>4. QED
        BY <1>2, <3>1, <3>2, <3>3
    <2>2. CASE ~ Loads(disk["nodes"])
      BY <1>1, <2>2 DEF Started, DoneInv, FilesInv, Tables
    <2>3. QED
      BY <2>1, <2>2
  <1>4. FilesInv'
    BY <1>1, <1>2, <1>3 DEF FilesInv, TypedFile, TypedPools, TypedPool,
       Typed
  <1>5. Tables'
    BY <1>1, <1>3 DEF Tables
  <1>6. \A h \in Handlers : stage'[h] = "idle"
    BY <1>1
  <1>7. Rivals'
    BY <1>6 DEF Rivals
  <1>8. ASSUME NEW h \in Handlers PROVE Request(h)' /\ Progress(h)'
    BY <1>6 DEF Request, Progress, Named, Alone, Changing, Reloading
  <1>9. QED
    BY <1>1, <1>4, <1>5, <1>7, <1>8 DEF DoneInv

LEMMA DoneInit ==
    ASSUME TypedRequests, Init
    PROVE  DoneInv
  <1>1. SerialInv
    BY InitOK
  <1>2. disk = FirstDisk
    BY Zenon DEF Init
  <1>3. \E pools \in Loaded(disk["nodes"], <<>>) :
            running = [disk EXCEPT !["nodes"] = pools]
    BY Zenon DEF Init
  <1>4. stage = [h \in Handlers |-> "idle"]
    BY Zenon DEF Init
  <1>5. job = [h \in Handlers |-> NoJob] /\ keys = [h \in Handlers |-> {}]
    BY Zenon DEF Init
  <1>6. todo = [h \in Handlers |-> <<>>] /\ answer = [h \in Handlers |-> "none"]
    BY Zenon DEF Init
  <1>7. raced = [h \in Handlers |-> FALSE] /\ workload \in Workloads
    BY Zenon DEF Init
  <1>8. TypedFile(disk["nodes"]) /\ DOMAIN disk = Sections
    BY <1>1, <1>2 DEF TypedRequests, SerialInv, Shape
  <1>9. PICK pools \in Loaded(disk["nodes"], <<>>) :
           running = [disk EXCEPT !["nodes"] = pools]
    BY <1>3
  <1>10. TypedPools(pools)
    BY <1>8, StartTyped
  <1>11. running["nodes"] = pools /\ DOMAIN running = Sections
    BY <1>8, <1>9 DEF Sections
  <1>12. FilesInv
    BY <1>8, <1>10, <1>11 DEF FilesInv
  <1>13. Tables
    BY <1>5, <1>6, <1>7, <1>11 DEF Tables
  <1>14. \A h \in Handlers : stage[h] = "idle"
    BY <1>4
  <1>15. Rivals
    BY <1>14 DEF Rivals
  <1>16. ASSUME NEW h \in Handlers PROVE Request(h) /\ Progress(h)
    BY <1>14 DEF Request, Progress, Named, Alone, Changing, Reloading
  <1>17. QED
    BY <1>1, <1>7, <1>12, <1>13, <1>15, <1>16 DEF DoneInv

LEMMA DoneStutters ==
    ASSUME DoneInv, SerialInv', disk' = disk, running' = running,
           workload' = workload, raced' = raced, stage' = stage, job' = job,
           copy' = copy, keys' = keys, todo' = todo, answer' = answer
    PROVE  DoneInv'
  <1>1. FilesInv' /\ Tables'
    BY DEF DoneInv, FilesInv, Tables, TypedFile, TypedPools, TypedPool,
       Typed
  <1>2. Rivals'
    BY ZenonT(60) DEF DoneInv, Rivals, Races, Touches, Section, LoadsUnderLock
  <1>3. ASSUME NEW h \in Handlers PROVE Request(h)'
    <2>1. /\ TypedFile(copy[h]["nodes"])' <=> TypedFile(copy[h]["nodes"])
          /\ AtMostOne(keys[h])' <=> AtMostOne(keys[h])
      BY DEF TypedFile, Typed, AtMostOne
    <2>2. QED
      BY <2>1 DEF DoneInv, Request
  <1>4. ASSUME NEW h \in Handlers PROVE Progress(h)'
    <2>1. Progress(h)
      BY DEF DoneInv
    <2>2. /\ Switched(running["nodes"], job[h])'
                <=> Switched(running["nodes"], job[h])
          /\ Left(h)' = Left(h)
          /\ \A s \in Sections : InUse(s)' <=> InUse(s)
      BY DEF Switched, PoolSwitched, Left, InUse
    <2>3. Named(h)' <=> Named(h)
      BY DEF Named, Shown, Under
    <2>4. Alone(h)' <=> Alone(h)
      BY <2>2 DEF Alone
    <2>5. QED
      BY <2>1, <2>3, <2>4 DEF Progress
  <1>5. QED
    BY <1>1, <1>2, <1>3, <1>4 DEF DoneInv

LEMMA DoneKept ==
    ASSUME TypedRequests, DoneInv, [Next]_vars
    PROVE  DoneInv'
  <1>1. SerialInv'
    BY NextOK DEF DoneInv
  <1>2. ASSUME NEW h \in Handlers, Serve(h) PROVE DoneInv'
    BY <1>1, <1>2, SwitchNodeKept, SwitchLogKept, LockKept, SaveKept,
       QuietAnswers, LoadSavedKept, ReloadReadKept, ReloadSkipKept,
       ReloadApplyKept, RefreshKept, LoginsKept DEF Serve
  <1>3. ASSUME NEW h \in Handlers, NEW r \in workload.requests, Take(h, r)
        PROVE  DoneInv'
    BY <1>1, <1>3, TakeKept
  <1>4. CASE Restart
    BY <1>1, <1>4, RestartKept
  <1>5. CASE Tick \/ UNCHANGED vars
    <2>1. /\ disk' = disk /\ running' = running /\ workload' = workload
          /\ raced' = raced /\ stage' = stage /\ job' = job /\ copy' = copy
          /\ keys' = keys /\ todo' = todo /\ answer' = answer
      BY <1>5 DEF Tick, vars, handling, bounds
    <2>2. QED
      BY <1>1, <2>1, DoneStutters
  <1>6. QED
    BY <1>2, <1>3, <1>4, <1>5 DEF Next

-----------------------------------------------------------------------------
(* What an answer stands for.                                              *)

\* A request is answered with success by the handler that has it.
LEMMA WhoAnswers ==
    ASSUME DoneInv, [Next]_vars, NEW h \in Handlers, stage[h] # "idle",
           answer'[h] = "ok"
    PROVE  \/ Save(h) \/ LoadSaved(h) \/ Apply(h) \/ ReloadEnds(h)
           \/ Refresh(h) \/ PasswordCompared(h)
  <1>1. answer[h] = "none" /\ DOMAIN answer = Handlers
    BY SMTT(30) DEF DoneInv, Request, Tables
  <1>2. ASSUME NEW g \in Handlers, Serve(g)
        PROVE  \/ answer' = answer
               \/ /\ \E a : answer' = [answer EXCEPT ![g] = a]
                  /\ \/ Save(g) \/ LoadSaved(g) \/ Apply(g) \/ ReloadEnds(g)
                     \/ Refresh(g) \/ PasswordCompared(g)
               \/ answer' = [answer EXCEPT ![g] = "error"]
    BY <1>2 DEF Serve, SwitchNode, SwitchLog, Lock, EditRefused, Save,
       LoadSaved, LoadFails, Apply, ReloadRead, ReloadSkip, ReloadApply,
       ReloadEnds, Refresh, LoginAllowed, PasswordCompared, Answer, Proceed
  <1>3. ASSUME NEW g \in Handlers, NEW r \in workload.requests, Take(g, r)
        PROVE  answer' = [answer EXCEPT ![g] = "none"]
    BY <1>3 DEF Take
  <1>4. Restart => answer'[h] = "none"
    BY DEF Restart
  <1>5. Tick \/ UNCHANGED vars => answer' = answer
    BY DEF Tick, vars, handling
  <1>6. PICK g \in Handlers : Serve(g)
    BY <1>1, <1>3, <1>4, <1>5 DEF Next
  <1>7. QED
    BY <1>1, <1>2, <1>6

\* What a pool shows of its nodes when its configuration holds the metadata.
LEMMA ShownIsSeen ==
    ASSUME NEW pool, NEW r, NEW meant, Shown(pool.config, r, meant)
    PROVE  MetadataInUse(pool, r, meant)
  <1> SUFFICES ASSUME NEW n \in DOMAIN pool.own
               PROVE
        /\ pool.at[n] \in meant /\ r.alias # Nothing => AliasesOf(pool, n) = {r.alias}
        /\ n = r.node /\ pool.at[n] \notin DOMAIN pool.config.serverAliases \ meant =>
               AliasesOf(pool, n) = {r.alias} \ {Nothing}
        /\ n = r.node /\ pool.at[n] \notin DOMAIN pool.config.serverLabels \ meant =>
               LabelOf(pool, n) = r.label
    BY DEF MetadataInUse
  <1>1. PICK c : c = pool.config
    OBVIOUS
  <1>2. PICK s : s = pool.at[n]
    OBVIOUS
  <1>3. /\ {a \in DOMAIN c.aliases : c.aliases[a] = r.node} = {r.alias} \ {Nothing}
        /\ Under(c.serverAliases, meant, r.alias)
        /\ Under(c.labels, {r.node}, r.label)
        /\ Under(c.serverLabels, meant, r.label)
    BY <1>1 DEF Shown
  <1>4. AliasesOf(pool, n) = IF s \in DOMAIN c.serverAliases THEN {c.serverAliases[s]}
                             ELSE {a \in DOMAIN c.aliases : c.aliases[a] = n}
    BY <1>1, <1>2, Zenon DEF AliasesOf
  <1>5. LabelOf(pool, n) = IF s \in DOMAIN c.serverLabels THEN c.serverLabels[s]
                           ELSE IF n \in DOMAIN c.labels THEN c.labels[n] ELSE Nothing
    BY <1>1, <1>2, Zenon DEF LabelOf
  <1>6. ASSUME s \in meant, r.alias # Nothing
        PROVE  AliasesOf(pool, n) = {r.alias}
    BY <1>3, <1>4, <1>6 DEF Under
  <1>7. ASSUME n = r.node, s \notin DOMAIN c.serverAliases \ meant
        PROVE  AliasesOf(pool, n) = {r.alias} \ {Nothing}
    BY <1>3, <1>4, <1>7 DEF Under
  <1>8. ASSUME n = r.node, s \notin DOMAIN c.serverLabels \ meant
        PROVE  LabelOf(pool, n) = r.label
    BY <1>3, <1>5, <1>8 DEF Under
  <1>9. QED
    BY <1>1, <1>2, <1>6, <1>7, <1>8

LEMMA DoneOfMetadata ==
    ASSUME NEW r, NEW meant, r.kind = "metadata", InUse("nodes")',
           MetadataInUse(running["nodes"][r.pool], r, meant)'
    PROVE  Done(r, meant)'
  <1>1. Section(r) = "nodes"
    BY SectionsOf DEF NodeEdits
  <1>2. QED
    BY <1>1 DEF Done, InUse

\* An edit of pools or fingerprints, or a setting, has come into use.
LEMMA LoadedIsDone ==
    ASSUME TypedRequests, DoneInv, NEW h \in Handlers, NEW r, r = job[h],
           NEW meant, meant = keys[h], LoadSaved(h)
    PROVE  Done(r, meant)'
  <1>1. PICK sec : sec = Section(r)
    OBVIOUS
  <1>2. /\ stage[h] = "load" /\ disk' = disk /\ Use(sec, disk[sec])
    BY <1>1 DEF LoadSaved
  <1>3. /\ r.kind \in NodeEdits \cup FingerprintEdits
        /\ Named(h)
    BY <1>2 DEF DoneInv, Request, LoadsUnderLock, Progress
  <1>4. sec \in Sections
    BY <1>1, <1>3, SectionsOf DEF Sections
  <1>5. TypedFile(disk["nodes"])
    BY DEF DoneInv, FilesInv
  <1>6. /\ sec # "nodes" => running'[sec] = disk[sec]
        /\ sec = "nodes" =>
              /\ DOMAIN running'["nodes"] = DOMAIN disk["nodes"]
              /\ \A p \in DOMAIN disk["nodes"] :
                    running'["nodes"][p].config = disk["nodes"][p]
    BY <1>2, <1>4, <1>5, UseOK
  <1>7. InUse(sec)'
    BY <1>2, <1>6 DEF InUse
  <1>8. CASE r.kind # "metadata"
    BY <1>1, <1>3, <1>7, <1>8 DEF Done, NodeEdits, FingerprintEdits, Edits,
       InUse, Section
  <1>9. CASE r.kind = "metadata"
    <2>1. sec = "nodes"
      BY <1>1, <1>9, SectionsOf, SMTT(30) DEF NodeEdits
    <2>2. /\ r.pool \in DOMAIN disk["nodes"]
          /\ Shown(disk["nodes"][r.pool], r, meant)
      BY <1>2, <1>3, <1>9 DEF Named
    <2>3. running'["nodes"][r.pool].config = disk["nodes"][r.pool]
      BY <1>6, <2>1, <2>2
    <2>4. MetadataInUse(running'["nodes"][r.pool], r, meant)
      BY <2>2, <2>3, ShownIsSeen
    <2>5. MetadataInUse(running["nodes"][r.pool], r, meant)'
      BY Zenon, <2>4 DEF MetadataInUse, AliasesOf, LabelOf
    <2>6. QED
      BY <1>7, <1>9, <2>1, <2>5, DoneOfMetadata
  <1>10. QED
    BY <1>8, <1>9

LEMMA AppliedIsDone ==
    ASSUME TypedRequests, DoneInv, NEW h \in Handlers, NEW r, r = job[h],
           NEW meant, Apply(h), raced[h] = FALSE
    PROVE  Done(r, meant)'
  <1>1. PICK sec : sec = Section(r)
    OBVIOUS
  <1>2. /\ stage[h] = "apply" /\ disk' = disk /\ Use(sec, copy[h][sec])
    BY <1>1 DEF Apply
  <1>3. /\ r.kind \in Settings
        /\ r.kind = "set" => r.section \in Sections \ {"nodes"}
        /\ copy[h][sec] = disk[sec]
    BY <1>1, <1>2
    DEF DoneInv, Request, Changing, TypedRequests, Progress, Alone
  <1>4. sec \in Sections \ {"nodes"}
    BY <1>1, <1>3 DEF Section, Sections, Settings, NodeEdits, FingerprintEdits
  <1>5. running'[sec] = disk[sec]
    BY <1>2, <1>3, <1>4, UseOK
  <1>6. InUse(sec)'
    BY <1>2, <1>4, <1>5 DEF InUse
  <1>7. QED
    BY <1>1, <1>3, <1>6 DEF Done, Settings, Edits, InUse, Section

\* The switch of a node and the log level were in use before the file changed.
LEMMA SavedIsDone ==
    ASSUME TypedRequests, DoneInv, NEW h \in Handlers, NEW r, r = job[h],
           NEW meant, Save(h), answer'[h] = "ok", raced[h] = FALSE
    PROVE  Done(r, meant)'
  <1>1. /\ stage[h] = "edit" /\ disk' = Saved(h) /\ running' = running
        /\ ~ Refused(r, copy[h][Section(r)], keys[h])
    BY DEF Save
  <1>2. /\ copy[h] = disk /\ DOMAIN disk = Sections
        /\ answer[h] = "none"
    BY <1>1 DEF DoneInv, SerialInv, Shape, Request
  <1>3. disk' = [disk EXCEPT ![Section(r)] = Edited(r, disk[Section(r)], keys[h])]
    BY <1>1, SavedIsEdit DEF DoneInv
  <1>4. r \in workload.requests /\ r.kind \in Edits /\ Alone(h)
    BY <1>1 DEF DoneInv, Request, Changing, Progress
  <1>5. FirstStage(r) = "switch"
    BY <1>2 DEF Save, Proceed
  <1>6. r.kind = "enable" \/ (r.kind = "set" /\ r.section = "log")
    BY <1>4, <1>5 DEF FirstStage, Edits, NodeEdits, FingerprintEdits, Settings
  <1>7. CASE r.kind = "set" /\ r.section = "log"
    <2>1. Section(r) = "log" /\ Edited(r, disk["log"], keys[h]) = r.value
      BY <1>7, SectionsOf DEF Edited
    <2>2. disk'["log"] = r.value
      BY <1>2, <1>3, <2>1 DEF Sections
    <2>3. running'["log"] = r.value
      BY <1>1, <1>4, <1>7 DEF Alone
    <2>4. InUse("log")'
      BY <2>2, <2>3 DEF InUse
    <2>5. QED
      BY <1>7, <2>1, <2>4 DEF Done, Settings, Edits, InUse, Section
  <1>8. CASE r.kind = "enable"
    <2>1. PICK file : file = disk["nodes"]
      OBVIOUS
    <2>2. r.on \in BOOLEAN
      BY <1>4, <1>8 DEF DoneInv, TypedRequests
    <2>3. Section(r) = "nodes"
      BY <1>8, SectionsOf
    <2>4. r.pool \in DOMAIN file
      BY <1>1, <1>2, <1>8, <2>1, <2>3 DEF Refused
    <2>5. PICK c : c = file[r.pool]
      OBVIOUS
    <2>6. Typed(c)
      BY <2>1, <2>4, <2>5 DEF DoneInv, FilesInv, TypedFile
    <2>7. PICK d : d = NodeEnabled(c, r.node, r.on)
      OBVIOUS
    <2>8. disk'["nodes"] = [file EXCEPT ![r.pool] = d]
      BY <1>2, <1>3, <1>8, <2>1, <2>3, <2>5, <2>7 DEF Edited, Sections
    <2>9. disk'["nodes"][r.pool] = d
      BY <2>4, <2>8
    <2>10. /\ r.node \in DOMAIN d.nodes =>
                 d.nodes[r.node] \in {"unusable", Switch(r.on)}
           /\ r.node \notin DOMAIN d.nodes =>
                 (r.node \notin d.disabled <=> r.on = TRUE)
      <3>1. CASE r.node \in DOMAIN c.nodes
        BY <2>6, <2>7, <3>1 DEF NodeEnabled, Typed, Fields
      <3>2. CASE r.node \notin DOMAIN c.nodes
        BY <2>2, <2>6, <2>7, <3>2 DEF NodeEnabled, Typed, Fields
      <3>3. QED
        BY <3>1, <3>2
    <2>11. PICK pool : pool = running'["nodes"][r.pool]
      OBVIOUS
    <2>12. PoolSwitched(pool, r)
      BY <1>1, <1>4, <1>8, <2>11 DEF Alone, Switched
    <2>13. ASSUME r.node \in DOMAIN pool.own,
                  \/ pool.config.source = "static"
                  \/ r.node \notin DOMAIN pool.config.nodes
           PROVE  On(pool, r.node) = r.on
      <3>1. \/ /\ pool.own[r.node] = "unset"
               /\ (r.node \notin pool.config.disabled) = r.on
            \/ pool.own[r.node] = Switch(r.on)
        BY <2>12, <2>13 DEF PoolSwitched
      <3>2. CASE /\ pool.own[r.node] = "unset"
                 /\ (r.node \notin pool.config.disabled) = r.on
        BY <3>2 DEF On
      <3>3. CASE pool.own[r.node] = Switch(r.on)
        BY <2>2, <3>3 DEF On, Switch
      <3>4. QED
        BY <3>1, <3>2, <3>3
    <2>14. (r.node \notin DOMAIN d.nodes) => (r.node \notin d.disabled) = r.on
      BY <2>2, <2>10
    <2>15. SwitchInUse(r)' <=>
              /\ /\ r.node \in DOMAIN pool.own
                 /\ \/ pool.config.source = "static"
                    \/ r.node \notin DOMAIN pool.config.nodes
                 => On(pool, r.node) = r.on
              /\ IF r.node \in DOMAIN d.nodes
                 THEN d.nodes[r.node] \in {"unusable", Switch(r.on)}
                 ELSE (r.node \notin d.disabled) = r.on
      BY Zenon, <2>9, <2>11 DEF SwitchInUse
    <2>16. SwitchInUse(r)'
      BY <2>10, <2>13, <2>14, <2>15
    <2>17. QED
      BY <1>8, <2>16 DEF Done
  <1>9. QED
    BY <1>6, <1>7, <1>8

LEMMA ReloadedIsDone ==
    ASSUME DoneInv, NEW h \in Handlers, NEW r, r = job[h], NEW meant,
           ReloadEnds(h), answer'[h] = "ok", raced[h] = FALSE
    PROVE  Done(r, meant)'
  <1>1. /\ stage[h] = "reload" /\ todo[h] = <<>>
        /\ disk' = disk /\ running' = running
        /\ answer' = [answer EXCEPT ![h] = IF r.failed THEN "error" ELSE "ok"]
    BY DEF ReloadEnds, Answer
  <1>2. /\ r.kind = "reload" /\ r.failed \in BOOLEAN /\ Alone(h)
        /\ DOMAIN answer = Handlers
    BY <1>1 DEF DoneInv, Request, Progress, Tables, Reloading
  <1>3. r.failed = FALSE
    BY <1>1, <1>2
  <1>4. Left(h) = {}
    BY <1>1 DEF Left
  <1>5. \A s \in Sections \ {"log"} : InUse(s)
    BY <1>1, <1>2, <1>3, <1>4 DEF Alone, Reloading
  <1>6. \A s \in Sections \ {"log"} : InUse(s)'
    BY <1>1, <1>5 DEF InUse
  <1>7. Done(r, meant)' <=> \A s \in Sections \ {"log"} : InUse(s)'
    BY <1>2 DEF Done, InUse, Edits, NodeEdits, FingerprintEdits, Settings
  <1>8. QED
    BY <1>6, <1>7

LEMMA AnswersDone ==
    ASSUME TypedRequests, DoneInv, [Next]_vars, NEW h \in Handlers,
           NEW r \in {job[h]}, NEW meant \in {keys[h]},
           stage[h] # "idle", answer'[h] = "ok", ~ raced[h]
    PROVE  Done(r, meant)'
  <1>1. raced[h] = FALSE /\ r = job[h] /\ meant = keys[h]
    BY DEF DoneInv, Tables
  <1>2. CASE Save(h)
    BY <1>1, <1>2, SavedIsDone
  <1>3. CASE LoadSaved(h)
    BY <1>1, <1>3, LoadedIsDone
  <1>4. CASE Apply(h)
    BY <1>1, <1>4, AppliedIsDone
  <1>5. CASE ReloadEnds(h)
    BY <1>1, <1>5, ReloadedIsDone
  <1>6. CASE Refresh(h) \/ PasswordCompared(h)
    <2>1. stage[h] \in {"refresh", "password"}
      BY <1>6 DEF Refresh, PasswordCompared
    <2>2. r.kind \in {"refresh", "login"}
      BY <1>1, <2>1 DEF DoneInv, Request
    <2>3. QED
      BY <2>2 DEF Done, Edits, NodeEdits, FingerprintEdits, Settings
  <1>7. QED
    BY <1>2, <1>3, <1>4, <1>5, <1>6, WhoAnswers

\* An answer with success stands for what it says: the file and the process
\* agree in what the request was for, for any files, requests, servers and
\* number of handlers, through faults of the disk and restarts (the handlers
\* of api.go and traffic_api.go).
THEOREM AnswersMeanDone ==
    ASSUME TypedRequests
    PROVE  Spec => AnswerMeansDone
  <1>1. Init => DoneInv
    BY DoneInit
  <1>2. DoneInv /\ [Next]_vars => DoneInv'
    BY DoneKept
  <1>3. DoneInv /\ [Next]_vars =>
            [\A h \in Handlers : \A r \in {job[h]}, meant \in {keys[h]} :
                stage[h] # "idle" /\ answer'[h] = "ok" /\ ~raced[h]
                    => Done(r, meant)']_vars
    BY AnswersDone
  <1>4. QED
    BY <1>1, <1>2, <1>3, PTL DEF Spec, AnswerMeansDone

-----------------------------------------------------------------------------
(* Aliases.  A file keeps an alias on one server and a node with one name, *)
(* because the edit of metadata refuses an alias some other node or server *)
(* has, and drops the names the node had.                                  *)

LEMMA SameAliases ==
    ASSUME NEW c, NEW d, OneEach(c), d.aliases = c.aliases,
           d.serverAliases = c.serverAliases
    PROVE  OneEach(d)
  BY DEF OneEach

\* The servers: all of K get the alias, but K has one at most, and no other
\* server has it.
LEMMA ServersOneEach ==
    ASSUME NEW f, NEW K, AtMostOne(K), NEW alias,
           \A s, t \in DOMAIN f : f[s] = f[t] => s = t,
           \/ alias = Nothing
           \/ \A s \in DOMAIN f \ K : f[s] # alias,
           NEW g, g = SetOrDrop(f, K, alias)
    PROVE  \A s, t \in DOMAIN g : g[s] = g[t] => s = t
  <1>1. CASE alias = Nothing
    BY <1>1 DEF SetOrDrop, Drop
  <1>2. CASE alias # Nothing
    <2>1. g = [s \in DOMAIN f \cup K |-> IF s \in K THEN alias ELSE f[s]]
      BY <1>2 DEF SetOrDrop
    <2>2. ASSUME NEW s \in DOMAIN g, NEW t \in DOMAIN g, g[s] = g[t]
          PROVE  s = t
      <3>1. CASE s \in K /\ t \in K
        BY <3>1 DEF AtMostOne
      <3>2. CASE s \notin K /\ t \notin K
        BY <2>1, <2>2, <3>2
      <3>3. CASE s \in K /\ t \notin K
        BY <1>2, <2>1, <2>2, <3>3
      <3>4. CASE s \notin K /\ t \in K
        BY <1>2, <2>1, <2>2, <3>4
      <3>5. QED
        BY <3>1, <3>2, <3>3, <3>4
    <2>3. QED
      BY <2>2
  <1>3. QED
    BY <1>1, <1>2

LEMMA NamesOneEach ==
    ASSUME NEW f, NEW n, NEW alias,
           \A a, b \in DOMAIN f : f[a] = f[b] => a = b,
           NEW others, others = Drop(f, {a \in DOMAIN f : f[a] = n}),
           NEW g, g = others \/ g = Put(others, alias, n)
    PROVE  \A a, b \in DOMAIN g : g[a] = g[b] => a = b
  <1>1. \A a \in DOMAIN others : others[a] # n
    BY DEF Drop
  <1>2. \A a, b \in DOMAIN others : others[a] = others[b] => a = b
    BY DEF Drop
  <1>3. QED
    BY <1>1, <1>2 DEF Put

LEMMA MetadataOneEach ==
    ASSUME NEW c, Typed(c), OneEach(c), NEW r, NEW K, AtMostOne(K),
           ~ AliasTaken(c, r, K)
    PROVE  OneEach(WithMetadata(c, r, K))
  <1>1. PICK d : d = WithMetadata(c, r, K)
    OBVIOUS
  <1>2. PICK others : others = Drop(c.aliases,
                          {a \in DOMAIN c.aliases : c.aliases[a] = r.node})
    OBVIOUS
  <1>3. /\ d.aliases = IF r.alias = Nothing THEN others
                       ELSE Put(others, r.alias, r.node)
        /\ d.serverAliases = SetOrDrop(c.serverAliases, K, r.alias)
    BY <1>1, <1>2 DEF WithMetadata, Typed, Fields
  <1>4. \A s, t \in DOMAIN d.serverAliases :
            d.serverAliases[s] = d.serverAliases[t] => s = t
    <2>1. \/ r.alias = Nothing
          \/ \A s \in DOMAIN c.serverAliases \ K : c.serverAliases[s] # r.alias
      BY DEF AliasTaken
    <2>2. QED
      BY <1>3, <2>1, ServersOneEach DEF OneEach
  <1>5. \A a, b \in DOMAIN d.aliases : d.aliases[a] = d.aliases[b] => a = b
    BY <1>2, <1>3, NamesOneEach DEF OneEach
  <1>6. QED
    BY <1>1, <1>4, <1>5 DEF OneEach

\* One edit of nodes.yaml, and a pool that is there before and after.
LEMMA EditOneEach ==
    ASSUME NEW file, TypedFile(file), NEW r, NEW K, AtMostOne(K),
           r.kind \in NodeEdits \cup {"enable"}, ~ Refused(r, file, K),
           NEW new, new = Edited(r, file, K),
           NEW p, p \in DOMAIN file, p \in DOMAIN new, OneEach(file[p])
    PROVE  \/ OneEach(new[p])
           \/ r.kind = "updatePool" /\ r.newName = p
  <1>1. CASE r.kind = "addPool"
    BY <1>1 DEF Edited, Refused, Put
  <1>2. CASE r.kind = "updatePool"
    BY <1>2 DEF Edited, Put, Drop
  <1>3. CASE r.kind = "deletePool"
    BY <1>3 DEF Edited, Drop
  <1>4. CASE r.kind \in {"metadata", "updateNode", "deleteNode", "enable"}
    <2>1. PICK c : c = file[r.pool]
      OBVIOUS
    <2>2. CASE r.pool # p
      BY <1>4, <2>2 DEF Edited
    <2>3. CASE r.pool = p
      <3>1. Typed(c) /\ OneEach(c)
        BY <2>1, <2>3 DEF TypedFile
      <3>2. CASE r.kind = "metadata"
        <4>1. new[p] = WithMetadata(c, r, K)
          BY <2>1, <2>3, <3>2 DEF Edited
        <4>2. ~ AliasTaken(c, r, K)
          BY <2>1, <3>2 DEF Refused
        <4>3. QED
          BY <3>1, <4>1, <4>2, MetadataOneEach
      <3>3. CASE r.kind \in {"updateNode", "deleteNode", "enable"}
        <4>1. new[p] \in {WithNode(c, r), WithoutNode(c, r.node),
                          NodeEnabled(c, r.node, r.on)}
          BY <2>1, <2>3, <3>3 DEF Edited
        <4>2. PICK d : d = new[p]
          OBVIOUS
        <4>3. d.aliases = c.aliases /\ d.serverAliases = c.serverAliases
          BY <3>1, <4>1, <4>2
          DEF Typed, Fields, WithNode, WithoutNode, NodeEnabled
        <4>4. QED
          BY <3>1, <4>2, <4>3, SameAliases
      <3>4. QED
        BY <1>4, <3>2, <3>3
    <2>4. QED
      BY <2>2, <2>3
  <1>5. QED
    BY <1>1, <1>2, <1>3, <1>4 DEF NodeEdits

LEMMA StepOneEach ==
    ASSUME TypedRequests, DoneInv, [Next]_vars,
           NEW p \in DOMAIN disk["nodes"] \cap DOMAIN disk'["nodes"],
           OneEach(disk["nodes"][p]), ~ OneEach(disk'["nodes"][p])
    PROVE  \E h \in Handlers : /\ stage[h] = "edit" /\ job[h].kind = "updatePool"
                               /\ job[h].newName = p
  <1>1. disk' # disk
    BY DEF OneEach
  <1>2. PICK h \in Handlers : Save(h)
    BY <1>1, OnlySaves
  <1>3. PICK r : r = job[h]
    OBVIOUS
  <1>4. PICK sec : sec = Section(r)
    OBVIOUS
  <1>5. PICK K : K = keys[h]
    OBVIOUS
  <1>6. /\ stage[h] = "edit" /\ disk' = Saved(h)
        /\ ~ Refused(r, copy[h][sec], K)
    BY <1>2, <1>3, <1>4, <1>5 DEF Save
  <1>7. copy[h] = disk /\ DOMAIN disk = Sections
    BY <1>6 DEF DoneInv, SerialInv, Shape
  <1>8. disk' = [disk EXCEPT ![sec] = Edited(r, disk[sec], K)]
    BY <1>3, <1>4, <1>5, <1>6, SavedIsEdit DEF DoneInv
  <1>9. /\ r \in workload.requests /\ r.kind \in Edits /\ AtMostOne(K)
    BY <1>3, <1>5, <1>6 DEF DoneInv, Request, Changing
  <1>10. r.kind = "set" => r.section # "nodes"
    BY <1>9 DEF DoneInv, TypedRequests
  <1>11. sec = "nodes"
    <2>1. ASSUME sec # "nodes" PROVE disk'["nodes"] = disk["nodes"]
      BY <1>7, <1>8, <2>1 DEF Sections
    <2>2. ASSUME disk'["nodes"] = disk["nodes"] PROVE FALSE
      BY <2>2 DEF OneEach
    <2>3. QED
      BY <2>1, <2>2
  <1>12. r.kind \in NodeEdits \cup {"enable"}
    BY <1>4, <1>9, <1>10, <1>11 DEF Section, Edits, FingerprintEdits, Settings
  <1>13. PICK file : file = disk["nodes"]
    OBVIOUS
  <1>14. PICK new : new = disk'["nodes"]
    OBVIOUS
  <1>15. new = Edited(r, file, K) /\ ~ Refused(r, file, K)
    BY <1>6, <1>7, <1>8, <1>11, <1>13, <1>14 DEF Sections
  <1>16. TypedFile(file)
    BY <1>13 DEF DoneInv, FilesInv
  <1>17. OneEach(file[p]) /\ ~ OneEach(new[p])
    BY <1>13, <1>14 DEF OneEach
  <1>18. r.kind = "updatePool" /\ r.newName = p
    BY <1>9, <1>12, <1>13, <1>14, <1>15, <1>16, <1>17, EditOneEach
  <1>19. QED
    BY <1>3, <1>6, <1>18

\* Whatever servers the requests name, no edit makes the aliases of a pool
\* ambiguous but one that brings the pool in one piece, for any files, requests
\* and number of handlers (handleSubscriptionNodeConfig).
THEOREM AliasesStayUnambiguous ==
    ASSUME TypedRequests
    PROVE  Spec => AliasesUnambiguous
  <1>1. Init => DoneInv
    BY DoneInit
  <1>2. DoneInv /\ [Next]_vars => DoneInv'
    BY DoneKept
  <1>3. TypedRequests /\ DoneInv /\ [Next]_vars => AliasesKept
    BY StepOneEach DEF AliasesKept
  <1>4. QED
    BY <1>1, <1>2, <1>3, PTL DEF Spec, AliasesUnambiguous

=============================================================================
