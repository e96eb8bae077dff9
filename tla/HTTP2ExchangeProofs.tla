------------------------- MODULE HTTP2ExchangeProofs -------------------------
(***************************************************************************)
(* The gateway's HTTP/2 client, for any request, fingerprint, lawful       *)
(* answer and limits: the timer for the headers ends only an exchange      *)
(* whose headers have not arrived, no body grows beyond the limit, the     *)
(* server reads the client's request, header fields included, what         *)
(* RoundTrip returns is the whole answer, and an exchange does not stand   *)
(* still before an answer that ends and fits the windows.                  *)
(***************************************************************************)
EXTENDS HTTP2Exchange, SequenceTheorems, FiniteSetTheorems, FunctionTheorems,
        WellFoundedInduction, TLAPS

\* The deadline is set before the first frame is read and lifted by the block
\* that ends the headers; RoundTrip returns once.
DeadlineInv ==
    /\ pc \in {"dial", "write"} => ~ headersEnded
    /\ headerDeadlineSet => ~ headersEnded
    /\ result # "none" => pc = "done"
    /\ HeaderTimeoutHonest

\* What has been read of the body is within the limit.
BodyInv == body \in 0 .. MaxBody

ReadInv == DeadlineInv /\ BodyInv

\* A fragment leaves the deadline as it is, or ends the headers and lifts it.
LEMMA FragmentOK ==
    ASSUME DeadlineInv, pc = "read", NEW streamEnd, ReadFragment(streamEnd)
    PROVE  DeadlineInv'
  <1>1. result = "none"
    BY DEF DeadlineInv
  <1>2. CASE /\ headersEnded' = headersEnded
             /\ headerDeadlineSet' = headerDeadlineSet
             /\ \/ pc' = "done" /\ result' \in {"ok", "bad headers"}
                \/ pc' = pc /\ result' = result
    BY <1>1, <1>2 DEF DeadlineInv, HeaderTimeoutHonest
  <1>3. CASE /\ headersEnded' = TRUE /\ headerDeadlineSet' = FALSE
             /\ \/ pc' = "done" /\ result' = "ok"
                \/ pc' = pc /\ result' = result
    BY <1>1, <1>3 DEF DeadlineInv, HeaderTimeoutHonest
  <1>4. QED
    BY <1>2, <1>3 DEF ReadFragment, EndOfFrame, Return

LEMMA ReadInitially == Init => ReadInv
  <1> SUFFICES ASSUME Init PROVE ReadInv
    OBVIOUS
  <1>1. /\ pc = "dial" /\ result = "none" /\ body = 0
        /\ headersEnded = FALSE /\ headerDeadlineSet = FALSE
    BY DEF Init
  <1>2. DeadlineInv
    BY <1>1 DEF DeadlineInv, HeaderTimeoutHonest
  <1>3. BodyInv
    BY <1>1, ExchangeAssumption DEF BodyInv
  <1>4. QED
    BY <1>2, <1>3 DEF ReadInv

LEMMA ClientKeepsDeadline ==
    ASSUME DeadlineInv, Client \/ HeaderTimeout \/ TotalTimeout
    PROVE  DeadlineInv'
  <1>1. CASE Dial \/ WriteFrame \/ StartRead
    <2>1. result = "none" /\ ~ headersEnded /\ headersEnded' = headersEnded
      BY <1>1 DEF DeadlineInv, Dial, WriteFrame, StartRead, reader
    <2>2. \/ pc' \in {"write", "read"} /\ result' = result
          \/ pc' = "done" /\ result' \in {"dial error", "write error"}
      BY <1>1 DEF Dial, WriteFrame, StartRead, Return
    <2>3. QED
      BY <2>1, <2>2 DEF DeadlineInv, HeaderTimeoutHonest
  <1>2. CASE ReadHeaders \/ ReadContinuation
    <2>1. pc = "read" /\ \E streamEnd : ReadFragment(streamEnd)
      BY <1>2 DEF ReadHeaders, ReadContinuation, Takes
    <2>2. QED
      BY <2>1, FragmentOK
  <1>3. CASE \/ ReadSettings \/ ReadData \/ ReadRefusal \/ ReadIgnored
             \/ ReadEnds \/ TotalTimeout
    <2>1. /\ pc # "done"
          /\ headersEnded' = headersEnded
          /\ headerDeadlineSet' = headerDeadlineSet
      BY <1>3 DEF ReadSettings, ReadData, ReadRefusal, ReadIgnored, ReadEnds,
         TotalTimeout, Takes, EndOfFrame, reader
    <2>2. \/ pc' = pc /\ result' = result
          \/ pc' = "done" /\ result' # "header timeout"
      BY <1>3 DEF ReadSettings, ReadData, ReadRefusal, ReadIgnored, ReadEnds,
         TotalTimeout, EndOfFrame, Return
    <2>3. QED
      BY <2>1, <2>2 DEF DeadlineInv, HeaderTimeoutHonest
  <1>4. CASE HeaderTimeout
    BY <1>4 DEF HeaderTimeout, Return, reader, DeadlineInv,
       HeaderTimeoutHonest
  <1>5. QED
    BY <1>1, <1>2, <1>3, <1>4 DEF Client

LEMMA ReadKept == ReadInv /\ [Next]_vars => ReadInv'
  <1> SUFFICES ASSUME ReadInv, [Next]_vars PROVE ReadInv'
    OBVIOUS
  <1>1. DeadlineInv'
    <2>1. CASE Client \/ HeaderTimeout \/ TotalTimeout
      BY <2>1, ClientKeepsDeadline DEF ReadInv
    <2>2. CASE ServerReads \/ ServerSends \/ ServerCloses \/ UNCHANGED vars
      <3>1. UNCHANGED <<pc, reader, result>>
        BY <2>2 DEF ServerReads, ServerSends, ServerCloses, vars
      <3>2. QED
        BY <3>1 DEF ReadInv, DeadlineInv, HeaderTimeoutHonest, reader
    <2>3. QED
      BY <2>1, <2>2 DEF Next
  <1>2. BodyInv'
    <2>1. CASE ReadData
      <3>1. body' = body \/ (body + 1 <= MaxBody /\ body' = body + 1)
        BY <2>1 DEF ReadData
      <3>2. MaxBody \in Nat
        BY ExchangeAssumption
      <3>3. QED
        BY <3>1, <3>2 DEF ReadInv, BodyInv
    <2>2. CASE ~ ReadData
      <3>1. body' = body
        BY <2>2 DEF Next, Client, Dial, WriteFrame, StartRead, ReadSettings,
           ReadHeaders, ReadContinuation, ReadRefusal, ReadIgnored, ReadEnds,
           HeaderTimeout, TotalTimeout, ServerReads, ServerSends,
           ServerCloses, vars
      <3>2. QED
        BY <3>1 DEF ReadInv, BodyInv
    <2>3. QED
      BY <2>1, <2>2
  <1>3. QED
    BY <1>1, <1>2 DEF ReadInv

\* The wait for the headers never ends an exchange whose headers had arrived,
\* in one frame or in many (restoreReadDeadline after each complete block).
THEOREM TimeoutIsHonest == Spec => []HeaderTimeoutHonest
  <1>1. Init => ReadInv
    BY ReadInitially
  <1>2. ReadInv /\ [Next]_vars => ReadInv'
    BY ReadKept
  <1>3. ReadInv => HeaderTimeoutHonest
    BY DEF ReadInv, DeadlineInv
  <1>4. QED
    BY <1>1, <1>2, <1>3, PTL DEF Spec

\* The body the client keeps never exceeds maxBody, however the data comes.
THEOREM BodyIsBounded == Spec => []BodyInv
  <1>1. Init => ReadInv
    BY ReadInitially
  <1>2. ReadInv /\ [Next]_vars => ReadInv'
    BY ReadKept
  <1>3. ReadInv => BodyInv
    BY DEF ReadInv
  <1>4. QED
    BY <1>1, <1>2, <1>3, PTL DEF Spec

-----------------------------------------------------------------------------
(* The request. *)

\* The request as RoundTrip writes it, the frames of it, and the place of the
\* HEADERS frame among them.
Asked == WithDefaults(req, fp)
Wire == RequestFrames(Asked, fp)
HeadersAt == Len(OpeningFrames(fp)) + 1
Ack == [type |-> "ack"]

LEMMA DefaultsKeepBody ==
    ASSUME NEW r, NEW f
    PROVE  WithDefaults(r, f).body = r.body
  BY DEF WithDefaults

\* F is O, x and B one after the other; x is at place h.
Glued(T, O, x, B, F, h) ==
    /\ F \in Seq(T)
    /\ Len(F) = h + Len(B)
    /\ \A i \in 1 .. h - 1 : F[i] = O[i]
    /\ F[h] = x
    /\ \A i \in h + 1 .. Len(F) : F[i] = B[i - h]

LEMMA Joined ==
    ASSUME NEW T, NEW O \in Seq(T), NEW x \in T, NEW B \in Seq(T),
           NEW F, NEW h, F = (O \o <<x>>) \o B, h = Len(O) + 1
    PROVE  Glued(T, O, x, B, F, h)
  <1>1. <<x>> \in Seq(T) /\ Len(<<x>>) = 1 /\ <<x>>[1] = x
    OBVIOUS
  <1>2. Len(O) \in Nat /\ Len(B) \in Nat
    OBVIOUS
  <1>3. PICK P \in Seq(T) : /\ P = O \o <<x>>
                            /\ Len(P) = h
                            /\ \A i \in 1 .. h : P[i] = IF i <= Len(O) THEN O[i] ELSE <<x>>[i - Len(O)]
    <2>1. /\ O \o <<x>> \in Seq(T)
          /\ Len(O \o <<x>>) = Len(O) + Len(<<x>>)
          /\ \A i \in 1 .. Len(O) + Len(<<x>>) :
                (O \o <<x>>)[i] = IF i <= Len(O) THEN O[i] ELSE <<x>>[i - Len(O)]
      BY <1>1, ConcatProperties
    <2>2. QED
      BY <1>1, <2>1
  <1>4. /\ F \in Seq(T)
        /\ Len(F) = Len(P) + Len(B)
        /\ \A i \in 1 .. Len(P) + Len(B) :
              F[i] = IF i <= Len(P) THEN P[i] ELSE B[i - Len(P)]
    <2>1. F = P \o B
      BY <1>3
    <2>2. /\ P \o B \in Seq(T)
          /\ Len(P \o B) = Len(P) + Len(B)
          /\ \A i \in 1 .. Len(P) + Len(B) :
                (P \o B)[i] = IF i <= Len(P) THEN P[i] ELSE B[i - Len(P)]
      BY <1>3, ConcatProperties
    <2>3. QED
      BY <2>1, <2>2
  <1>5. h \in Nat /\ Len(O) = h - 1
    BY <1>2
  <1>6. \A i \in 1 .. h - 1 : F[i] = O[i]
    BY <1>2, <1>3, <1>4, <1>5
  <1>7. F[h] = x
    <2>1. F[h] = P[h] /\ P[h] = <<x>>[h - Len(O)] /\ h - Len(O) = 1
      BY <1>2, <1>3, <1>4, <1>5
    <2>2. QED
      BY <1>1, <2>1
  <1>8. \A i \in h + 1 .. Len(F) : F[i] = B[i - h]
    BY <1>2, <1>3, <1>4, <1>5
  <1>9. QED
    BY <1>3, <1>4, <1>6, <1>7, <1>8 DEF Glued

LEMMA OpeningShape ==
    ASSUME NEW f, NEW O, O = OpeningFrames(f)
    PROVE  /\ Len(O) \in {1, 2}
           /\ \E T : O \in Seq(T)
           /\ \A i \in 1 .. Len(O) : O[i].type \in {"settings", "window_update"}
  <1> DEFINE S == [type |-> "settings", settings |-> Settings(f)]
             W == [type |-> "window_update", size |-> WindowUpdate(f)]
  <1>1. O = <<S>> \o (IF WindowUpdate(f) > 0 THEN <<W>> ELSE <<>>)
    BY DEF OpeningFrames
  <1>2. S.type = "settings" /\ W.type = "window_update"
    OBVIOUS
  <1> HIDE DEF S, W
  <1>3. <<S>> \in Seq({S, W}) /\ <<W>> \in Seq({S, W}) /\ <<>> \in Seq({S, W})
        /\ Len(<<S>>) = 1 /\ Len(<<W>>) = 1 /\ Len(<<>>) = 0
        /\ <<S>>[1] = S /\ <<W>>[1] = W
    OBVIOUS
  <1>4. ASSUME NEW R \in {<<W>>, <<>>}, O = <<S>> \o R
        PROVE  /\ Len(O) = 1 + Len(R) /\ O \in Seq({S, W})
    <2>1. R \in Seq({S, W})
      BY <1>3, <1>4
    <2>2. QED
      BY <2>1, <1>3, <1>4, ConcatProperties
  <1>5. /\ Len(O) \in {1, 2} /\ O \in Seq({S, W})
    <2>1. CASE O = <<S>> \o <<W>>
      BY <2>1, <1>3, <1>4
    <2>2. CASE O = <<S>> \o <<>>
      BY <2>2, <1>3, <1>4
    <2>3. QED
      BY <1>1, <2>1, <2>2
  <1>6. \A i \in 1 .. Len(O) : O[i] \in {S, W}
    BY <1>5
  <1>7. \E T : O \in Seq(T)
    BY <1>5, Zenon
  <1>8. \A i \in 1 .. Len(O) : O[i].type \in {"settings", "window_update"}
    BY <1>2, <1>6
  <1>9. QED
    BY <1>5, <1>7, <1>8

\* Frames F carry a request with a body of n units: the opening ones, the headers, and the units of the
\* body, of which the last one ends the stream unless the headers did.
Framed(F, h, n, fields) ==
    /\ F \in Seq({F[i] : i \in 1 .. Len(F)})
    /\ h \in {2, 3}
    /\ Len(F) = h + n
    /\ \A i \in 1 .. h - 1 : F[i].type \in {"settings", "window_update"}
    /\ F[h] = [type |-> "headers", fields |-> fields,
               endStream |-> n = 0]
    /\ \A i \in h + 1 .. Len(F) :
          F[i] = [type |-> "data", endStream |-> i = Len(F)]

LEMMA FramesShape ==
    ASSUME NEW r, NEW f, NEW n \in Nat, n = r.body, NEW F, F = RequestFrames(r, f),
           NEW h, h = Len(OpeningFrames(f)) + 1
    PROVE  /\ Framed(F, h, n, HeaderFields(r, f))
           /\ \A i \in 1 .. h - 1 : F[i] = OpeningFrames(f)[i]
  <1>1. PICK O : O = OpeningFrames(f)
    OBVIOUS
  <1>2. PICK H : H = [type |-> "headers", fields |-> HeaderFields(r, f),
                      endStream |-> n = 0]
    OBVIOUS
  <1>3. PICK B : B = BodyFrames(r.body)
    OBVIOUS
  <1>4. B = [i \in 1 .. n |-> [type |-> "data", endStream |-> i = n]]
    BY <1>3 DEF BodyFrames
  <1>5. Len(O) \in {1, 2}
    BY <1>1, OpeningShape, Zenon
  <1>6. \A i \in 1 .. Len(O) : O[i].type \in {"settings", "window_update"}
    BY <1>1, OpeningShape, Zenon
  <1>7. PICK TO : O \in Seq(TO)
    BY <1>1, OpeningShape, Zenon
  <1>8. PICK T : T = TO \cup {H} \cup {B[i] : i \in 1 .. n}
    OBVIOUS
  <1>9. B \in Seq(T) /\ Len(B) = n
    <2>1. \A i \in 1 .. n : B[i] \in T
      BY <1>8
    <2>2. B \in [1 .. n -> T]
      BY <1>4, <2>1
    <2>3. QED
      BY <2>2
  <1>10. O \in Seq(T)
    <2>1. TO \subseteq T
      BY <1>8
    <2>2. QED
      BY <1>7, <2>1
  <1>11. H \in T
    BY <1>8
  <1>12. F = (O \o <<H>>) \o B
    BY <1>1, <1>2, <1>3, Zenon DEF RequestFrames
  <1>13. h = Len(O) + 1
    BY <1>1
  <1>14. /\ F \in Seq(T)
         /\ Len(F) = h + Len(B)
         /\ \A i \in 1 .. h - 1 : F[i] = O[i]
         /\ F[h] = H
         /\ \A i \in h + 1 .. Len(F) : F[i] = B[i - h]
    <2>1. B \in Seq(T)
      BY <1>9
    <2>2. Glued(T, O, H, B, F, h)
      BY <2>1, <1>10, <1>11, <1>12, <1>13, Joined, Zenon
    <2>3. QED
      BY <2>2 DEF Glued
  <1>15. F \in Seq({F[i] : i \in 1 .. Len(F)})
    BY <1>14, SMTT(30)
  <1>16. \A i \in 1 .. h - 1 : F[i].type \in {"settings", "window_update"}
    BY <1>5, <1>6, <1>13, <1>14, SMTT(30)
  <1>17. \A i \in h + 1 .. Len(F) : F[i] = [type |-> "data", endStream |-> i = Len(F)]
    <2> SUFFICES ASSUME NEW i \in h + 1 .. Len(F)
                 PROVE  F[i] = [type |-> "data", endStream |-> i = Len(F)]
      OBVIOUS
    <2>1. h \in Nat /\ Len(F) = h + n
      BY <1>9, <1>5, <1>13, <1>14
    <2>2. PICK j \in 1 .. n : j = i - h
      <3>1. i \in Nat /\ i > h /\ i <= h + n
        BY <2>1
      <3>2. i - h \in 1 .. n
        BY <2>1, <3>1
      <3>3. QED
        BY <3>2
    <2>3. (j = n) <=> (i = Len(F))
      BY <2>1, <2>2
    <2>4. F[i] = [type |-> "data", endStream |-> j = n]
      BY <1>4, <1>14, <2>2
    <2>5. QED
      BY <2>3, <2>4
  <1>18. h \in {2, 3}
    <2>1. PICK k \in {1, 2} : k = Len(O)
      BY <1>5
    <2>2. h = k + 1
      BY <1>13, <2>1
    <2>3. QED
      BY <2>2
  <1>19. \A i \in 1 .. h - 1 : F[i] = OpeningFrames(f)[i]
    BY <1>1, <1>14, Zenon
  <1>20. QED
    BY <1>2, <1>9, <1>14, <1>15, <1>16, <1>17, <1>18, <1>19 DEF Framed

-----------------------------------------------------------------------------
(* The request on its way: the server has read the first n frames, the     *)
(* next ones are under way, and the client has the rest still to write.     *)

\* What the server has made of the first n of L frames, the h-th of which
\* holds the header fields.
Heard(n, h, L, fields) ==
    [fields |-> IF n >= h THEN fields ELSE <<>>,
     data   |-> IF n > h THEN n - h ELSE 0,
     ends   |-> IF n = L THEN 1 ELSE 0,
     late   |-> FALSE]

\* The frames under way follow the first n; what follows the last one is the
\* acknowledgement of a SETTINGS frame.
OnWire(s, n, F) ==
    \A i \in 1 .. Len(s) : s[i] = IF n + i <= Len(F) THEN F[n + i] ELSE Ack

\* The frames to write are those after the first m.
Unwritten(s, m, F) ==
    /\ m + Len(s) = Len(F)
    /\ \A i \in 1 .. Len(s) : s[i] = F[m + i]

ToServer == {Wire[i] : i \in 1 .. Len(Wire)} \cup {Ack}

WireAt(n) ==
    /\ n <= Len(Wire)
    /\ got = Heard(n, HeadersAt, Len(Wire), HeaderFields(Asked, fp))
    /\ OnWire(up, n, Wire)
    /\ pc = "dial" => n = 0 /\ up = <<>>
    /\ pc = "write" => Unwritten(toWrite, n + Len(up), Wire)
    /\ pc = "read" => n + Len(up) >= Len(Wire)

WireInv ==
    /\ fp \in Fingerprints /\ req \in Requests
    /\ up \in Seq(ToServer) /\ toWrite \in Seq(ToServer)
    /\ \E n \in Nat : WireAt(n)

\* The frames of the request the client is at.
LEMMA WireShape ==
    ASSUME fp \in Fingerprints, req \in Requests,
           NEW F, F = Wire, NEW h, h = HeadersAt
    PROVE  /\ req.body \in Nat
           /\ F \in Seq(ToServer)
           /\ Framed(F, h, req.body, HeaderFields(Asked, fp))
           /\ \A i \in 1 .. h - 1 : F[i] = OpeningFrames(fp)[i]
  <1>1. PICK n \in Nat : n = req.body
    BY ExchangeAssumption
  <1>2. n = Asked.body
    BY <1>1, DefaultsKeepBody, Zenon DEF Asked
  <1>3. F = RequestFrames(Asked, fp) /\ h = Len(OpeningFrames(fp)) + 1
    BY Zenon DEF Wire, HeadersAt
  <1>4. PICK r : r = Asked
    OBVIOUS
  <1>5. n = r.body /\ F = RequestFrames(r, fp)
    BY <1>2, <1>3, <1>4, Zenon
  <1>6. /\ Framed(F, h, n, HeaderFields(r, fp))
        /\ \A i \in 1 .. h - 1 : F[i] = OpeningFrames(fp)[i]
    <2>1. n \in Nat
      OBVIOUS
    <2>2. QED
      BY <1>3, <1>5, <2>1, FramesShape
  <1>7. F \in Seq(ToServer)
    <2>1. {F[i] : i \in 1 .. Len(F)} \subseteq ToServer
      BY DEF ToServer
    <2>2. QED
      BY <1>6, <2>1 DEF Framed
  <1>8. QED
    BY <1>1, <1>4, <1>6, <1>7, Zenon

\* One more frame under way: the next one of the request, or after the last one
\* an acknowledgement.
LEMMA OneMoreOnWire ==
    ASSUME NEW T, NEW s \in Seq(T), NEW n \in Nat, NEW F, NEW x \in T,
           Len(F) \in Nat, OnWire(s, n, F),
           x = IF n + Len(s) + 1 <= Len(F) THEN F[n + Len(s) + 1] ELSE Ack
    PROVE  OnWire(Append(s, x), n, F)
  <1>1. PICK k \in Nat : k = Len(s)
    OBVIOUS
  <1>2. PICK a \in Seq(T) : a = Append(s, x)
    BY AppendProperties
  <1>3. /\ Len(a) = k + 1
        /\ \A i \in 1 .. k : a[i] = s[i]
        /\ a[k + 1] = x
    BY <1>1, <1>2, AppendProperties
  <1>4. ASSUME NEW i \in 1 .. Len(a)
        PROVE  a[i] = IF n + i <= Len(F) THEN F[n + i] ELSE Ack
    <2>1. CASE i \in 1 .. k
      BY <2>1, <1>1, <1>3 DEF OnWire
    <2>2. CASE i = k + 1
      <3>1. n + Len(s) + 1 = n + i
        BY <1>1, <2>2
      <3>2. QED
        BY <2>2, <1>3, <3>1
    <2>3. QED
      BY <1>3, <2>1, <2>2
  <1>5. QED
    BY <1>2, <1>4 DEF OnWire

LEMMA OneReadOfWire ==
    ASSUME NEW T, NEW s \in Seq(T), s # <<>>, NEW n \in Nat, NEW F,
           Len(F) \in Nat, n <= Len(F), OnWire(s, n, F)
    PROVE  /\ Head(s) = IF n + 1 <= Len(F) THEN F[n + 1] ELSE Ack
           /\ n < Len(F) => OnWire(Tail(s), n + 1, F)
           /\ n = Len(F) => OnWire(Tail(s), n, F)
  <1>1. PICK t \in Seq(T) : t = Tail(s)
    BY HeadTailProperties
  <1>2. Len(s) \in Nat /\ Len(t) = Len(s) - 1 /\ \A i \in 1 .. Len(t) : t[i] = s[i + 1]
    BY <1>1, HeadTailProperties
  <1>3. Len(s) >= 1 /\ Head(s) = s[1]
    OBVIOUS
  <1>4. Head(s) = IF n + 1 <= Len(F) THEN F[n + 1] ELSE Ack
    BY <1>2, <1>3 DEF OnWire
  <1>5. ASSUME NEW i \in 1 .. Len(t)
        PROVE  t[i] = IF n + (i + 1) <= Len(F) THEN F[n + (i + 1)] ELSE Ack
    <2>1. i + 1 \in 1 .. Len(s)
      BY <1>2
    <2>2. QED
      BY <1>2, <2>1 DEF OnWire
  <1>6. n < Len(F) => OnWire(t, n + 1, F)
    <2>1. \A i \in 1 .. Len(t) : n + (i + 1) = (n + 1) + i
      BY <1>2
    <2>2. QED
      BY <1>5, <2>1 DEF OnWire
  <1>7. n = Len(F) => OnWire(t, n, F)
    <2>1. SUFFICES ASSUME n = Len(F), NEW i \in 1 .. Len(t)
                   PROVE  t[i] = IF n + i <= Len(F) THEN F[n + i] ELSE Ack
      BY DEF OnWire
    <2>2. i \in Nat /\ i >= 1
      BY <1>2
    <2>3. ~ (n + (i + 1) <= Len(F)) /\ ~ (n + i <= Len(F))
      BY <2>1, <2>2
    <2>4. QED
      BY <1>5, <2>3
  <1>8. QED
    BY <1>1, <1>4, <1>6, <1>7

LEMMA OneWritten ==
    ASSUME NEW T, NEW s \in Seq(T), s # <<>>, NEW m \in Nat, NEW F,
           Unwritten(s, m, F)
    PROVE  /\ m + 1 <= Len(F)
           /\ Head(s) = F[m + 1]
           /\ Unwritten(Tail(s), m + 1, F)
  <1>1. PICK t \in Seq(T) : t = Tail(s)
    BY HeadTailProperties
  <1>2. Len(s) \in Nat /\ Len(t) = Len(s) - 1 /\ \A i \in 1 .. Len(t) : t[i] = s[i + 1]
    BY <1>1, HeadTailProperties
  <1>3. Len(s) >= 1 /\ Head(s) = s[1]
    OBVIOUS
  <1>4. m + 1 <= Len(F) /\ (m + 1) + Len(t) = Len(F)
    BY <1>2, <1>3 DEF Unwritten
  <1>5. Head(s) = F[m + 1]
    BY <1>2, <1>3 DEF Unwritten
  <1>6. ASSUME NEW i \in 1 .. Len(t)
        PROVE  t[i] = F[(m + 1) + i]
    <2>1. i + 1 \in 1 .. Len(s) /\ m + (i + 1) = (m + 1) + i
      BY <1>2
    <2>2. QED
      BY <1>2, <2>1 DEF Unwritten
  <1>7. QED
    BY <1>1, <1>4, <1>5, <1>6 DEF Unwritten

-----------------------------------------------------------------------------
(* The steps. *)

\* What the server knows after one more frame of the request.
LEMMA HeardOneMore ==
    ASSUME NEW F, NEW h \in {2, 3}, NEW b \in Nat, NEW fields, NEW n \in Nat,
           Framed(F, h, b, fields), n < Len(F),
           got = Heard(n, h, Len(F), fields), Grows(F[n + 1])
    PROVE  got' = Heard(n + 1, h, Len(F), fields)
  <1>1. PICK L \in Nat : L = Len(F) /\ L = h + b
    BY DEF Framed
  <1>2. PICK k \in Nat : k = n + 1 /\ k <= L
    BY <1>1
  <1>3. got = [fields |-> IF n >= h THEN fields ELSE <<>>,
               data   |-> IF n > h THEN n - h ELSE 0,
               ends   |-> 0,
               late   |-> FALSE]
    <2>1. n # L
      BY <1>1
    <2>2. QED
      BY <1>1, <2>1 DEF Heard
  <1>4. CASE k < h
    <2>1. F[k].type \in {"settings", "window_update"}
      BY <1>2, <1>4 DEF Framed
    <2>2. got' = got
      BY <1>2, <2>1 DEF Grows
    <2>3. /\ ~ (n >= h) /\ ~ (n > h) /\ ~ (k >= h) /\ ~ (k > h) /\ k # L
      BY <1>1, <1>2, <1>4
    <2>4. QED
      BY <1>1, <1>2, <1>3, <2>2, <2>3 DEF Heard
  <1>5. CASE k = h
    <2>1. PICK x : x = F[k]
      OBVIOUS
    <2>2. x = [type |-> "headers", fields |-> fields, endStream |-> b = 0]
      BY <2>1, <1>5 DEF Framed
    <2>3. x.type = "headers" /\ x.fields = fields /\ (x.endStream <=> b = 0)
      BY <2>2
    <2>4. /\ ~ (n >= h) /\ ~ (n > h) /\ k >= h /\ ~ (k > h) /\ (k = L <=> b = 0)
      BY <1>1, <1>2, <1>5
    <2>5. got' = [fields |-> fields, data |-> got.data,
                  ends |-> got.ends + Ends(x), late |-> got.late]
      BY <1>2, <2>1, <2>3 DEF Grows
    <2>6. got.data = 0 /\ got.ends = 0 /\ got.late = FALSE
      BY <1>3, <2>4
    <2>7. Ends(x) = IF k = L THEN 1 ELSE 0
      BY <2>3, <2>4 DEF Ends
    <2>8. got' = [fields |-> fields, data |-> 0,
                  ends |-> IF k = L THEN 1 ELSE 0, late |-> FALSE]
      <3>1. got.ends + Ends(x) = IF k = L THEN 1 ELSE 0
        BY <2>6, <2>7
      <3>2. QED
        BY <2>5, <2>6, <3>1, Zenon
    <2>9. QED
      BY <1>1, <1>2, <2>4, <2>8 DEF Heard
  <1>6. CASE k > h
    <2>1. PICK x : x = F[k]
      OBVIOUS
    <2>2. k \in h + 1 .. Len(F)
      BY <1>1, <1>2, <1>6
    <2>3. x = [type |-> "data", endStream |-> k = L]
      BY <1>1, <2>1, <2>2 DEF Framed
    <2>4. x.type = "data" /\ (x.endStream <=> k = L)
      BY <2>3
    <2>5. n >= h /\ k >= h /\ k > h
      BY <1>1, <1>2, <1>6
    <2>6. PICK d \in Nat : d = (IF n > h THEN n - h ELSE 0) /\ d + 1 = k - h
      BY <1>1, <1>2, <1>6
    <2>7. got' = [fields |-> got.fields, data |-> got.data + 1,
                  ends |-> got.ends + Ends(x), late |-> got.late \/ got.ends > 0]
      BY <1>2, <2>1, <2>4 DEF Grows
    <2>8. got.fields = fields /\ got.data = d /\ got.ends = 0 /\ got.late = FALSE
      BY <1>3, <2>5, <2>6
    <2>9. Ends(x) = IF k = L THEN 1 ELSE 0
      BY <2>4 DEF Ends
    <2>10. got' = [fields |-> fields, data |-> k - h,
                   ends |-> IF k = L THEN 1 ELSE 0, late |-> FALSE]
      <3>1. got.ends + Ends(x) = IF k = L THEN 1 ELSE 0
        BY <2>8, <2>9
      <3>2. got.data + 1 = k - h
        BY <2>6, <2>8
      <3>3. (got.late \/ got.ends > 0) = FALSE
        BY <2>8
      <3>4. QED
        BY <2>7, <2>8, <3>1, <3>2, <3>3, Zenon
    <2>11. QED
      BY <1>1, <1>2, <2>5, <2>10 DEF Heard
  <1>7. QED
    BY <1>1, <1>2, <1>4, <1>5, <1>6

LEMMA WireInitially == Init => WireInv
  <1> SUFFICES ASSUME Init PROVE WireInv
    OBVIOUS
  <1>1. /\ fp \in Fingerprints /\ req \in Requests /\ pc = "dial"
        /\ toWrite = <<>> /\ up = <<>>
        /\ got = [fields |-> <<>>, data |-> 0, ends |-> 0, late |-> FALSE]
    BY DEF Init
  <1>2. PICK F : F = Wire
    OBVIOUS
  <1>3. PICK h : h = HeadersAt
    OBVIOUS
  <1>4. /\ req.body \in Nat
        /\ Framed(F, h, req.body, HeaderFields(Asked, fp))
    BY <1>1, <1>2, <1>3, WireShape, Zenon
  <1>5. h \in {2, 3} /\ Len(F) \in Nat /\ Len(F) > 0
    BY <1>4 DEF Framed
  <1>6. got = Heard(0, h, Len(F), HeaderFields(Asked, fp))
    <2>1. ~ (0 >= h) /\ ~ (0 > h) /\ 0 # Len(F)
      BY <1>5
    <2>2. QED
      BY <1>1, <2>1, Zenon DEF Heard
  <1>7. OnWire(up, 0, F)
    BY <1>1 DEF OnWire
  <1>8. WireAt(0)
    BY <1>1, <1>2, <1>3, <1>5, <1>6, <1>7 DEF WireAt
  <1>9. up \in Seq(ToServer) /\ toWrite \in Seq(ToServer)
    BY <1>1
  <1>10. QED
    BY <1>1, <1>8, <1>9 DEF WireInv

\* Steps that leave the request and what is under way alone.
LEMMA AsideKeepsWire ==
    ASSUME WireInv, UNCHANGED <<ask, up, toWrite, got>>, pc' = pc \/ pc' = "done",
           NEW n \in Nat, WireAt(n)
    PROVE  WireInv' /\ WireAt(n)'
  <1>1. fp' = fp /\ req' = req /\ up' = up /\ toWrite' = toWrite /\ got' = got
    BY DEF ask
  <1>2. Wire' = Wire /\ HeadersAt' = HeadersAt /\ Asked' = Asked
        /\ ToServer' = ToServer
    BY <1>1 DEF Wire, HeadersAt, Asked, ToServer
  <1>4. WireAt(n)'
    BY <1>1, <1>2 DEF WireAt
  <1>5. QED
    BY <1>1, <1>2, <1>4 DEF WireInv

\* A step of the client: the server knows what it knew.
LEMMA ClientStep ==
    ASSUME WireInv, UNCHANGED <<ask, got>>,
           NEW n \in Nat, WireAt(n),
           up' \in Seq(ToServer), toWrite' \in Seq(ToServer),
           OnWire(up', n, Wire),
           pc' = "write" => Unwritten(toWrite', n + Len(up'), Wire),
           pc' = "read" => n + Len(up') >= Len(Wire),
           pc' # "dial"
    PROVE  WireInv' /\ WireAt(n)'
  <1>1. fp' = fp /\ req' = req /\ got' = got
    BY DEF ask
  <1>2. Wire' = Wire /\ HeadersAt' = HeadersAt /\ Asked' = Asked
        /\ ToServer' = ToServer
    BY <1>1 DEF Wire, HeadersAt, Asked, ToServer
  <1>3. n <= Len(Wire) /\ got = Heard(n, HeadersAt, Len(Wire), HeaderFields(Asked, fp))
    BY DEF WireAt
  <1>4. WireAt(n)'
    BY <1>1, <1>2, <1>3 DEF WireAt
  <1>5. QED
    BY <1>1, <1>2, <1>4 DEF WireInv

LEMMA DialKeepsWire ==
    ASSUME WireInv, Dial, NEW n \in Nat, WireAt(n)
    PROVE  WireInv' /\ WireAt(n)'
  <1>1. UNCHANGED <<ask, up, got>> /\ pc = "dial"
    BY DEF Dial, server
  <1>2. CASE pc' = "write" /\ toWrite' = RequestFrames(WithDefaults(req, fp), fp)
    <2>1. WireAt(n)
      OBVIOUS
    <2>2. n = 0 /\ up = <<>> /\ up' = <<>>
      BY <1>1, <2>1 DEF WireAt
    <2>3. toWrite' = Wire
      BY <1>2 DEF Wire, Asked
    <2>4. PICK F : F = Wire
      OBVIOUS
    <2>5. PICK h : h = HeadersAt
      OBVIOUS
    <2>6. F \in Seq(ToServer)
      BY <2>4, <2>5, WireShape, Zenon DEF WireInv
    <2>7. up' \in Seq(ToServer) /\ OnWire(up', 0, Wire) /\ Len(up') = 0
      BY <2>2 DEF OnWire
    <2>8. Unwritten(F, 0, F)
      BY <2>6 DEF Unwritten
    <2>9. toWrite' \in Seq(ToServer) /\ Unwritten(toWrite', n + Len(up'), Wire)
      BY <2>2, <2>3, <2>4, <2>6, <2>7, <2>8
    <2>10. QED
      BY <1>1, <1>2, <2>1, <2>2, <2>7, <2>9, ClientStep
  <1>3. CASE pc' = "done" /\ toWrite' = toWrite
    BY <1>1, <1>3, AsideKeepsWire
  <1>4. QED
    BY <1>2, <1>3 DEF Dial, Return

LEMMA WriteKeepsWire ==
    ASSUME WireInv, WriteFrame, NEW n \in Nat, WireAt(n)
    PROVE  WireInv' /\ WireAt(n)'
  <1>1. UNCHANGED <<ask, got>> /\ pc = "write" /\ toWrite # <<>>
    BY DEF WriteFrame, server
  <1>2. CASE UNCHANGED <<up, toWrite>> /\ pc' = "done"
    BY <1>1, <1>2, AsideKeepsWire
  <1>3. CASE up' = Append(up, Head(toWrite)) /\ toWrite' = Tail(toWrite) /\ pc' = pc
    <2>1. WireAt(n)
      OBVIOUS
    <2>2. PICK F : F = Wire
      OBVIOUS
    <2>3. PICK m \in Nat : m = n + Len(up)
      BY DEF WireInv
    <2>4. Unwritten(toWrite, m, F) /\ OnWire(up, n, F)
      BY <1>1, <2>1, <2>2, <2>3 DEF WireAt
    <2>5. toWrite \in Seq(ToServer) /\ up \in Seq(ToServer)
      BY DEF WireInv
    <2>6. /\ m + 1 <= Len(F) /\ Head(toWrite) = F[m + 1]
          /\ Unwritten(Tail(toWrite), m + 1, F)
      BY <1>1, <2>4, <2>5, OneWritten
    <2>7. Head(toWrite) \in ToServer /\ Tail(toWrite) \in Seq(ToServer)
      BY <1>1, <2>5, HeadTailProperties
    <2>8. Len(F) \in Nat
      BY <2>4, <2>5 DEF Unwritten
    <2>9. OnWire(Append(up, Head(toWrite)), n, F)
      <3>1. Head(toWrite) = IF n + Len(up) + 1 <= Len(F) THEN F[n + Len(up) + 1] ELSE Ack
        BY <2>3, <2>6
      <3>2. QED
        BY <2>4, <2>5, <2>7, <2>8, <3>1, OneMoreOnWire
    <2>10. up' \in Seq(ToServer) /\ n + Len(up') = m + 1
      BY <1>3, <2>3, <2>5, <2>7, AppendProperties
    <2>11. /\ toWrite' \in Seq(ToServer)
           /\ OnWire(up', n, Wire)
           /\ Unwritten(toWrite', n + Len(up'), Wire)
      BY <1>3, <2>2, <2>6, <2>7, <2>9, <2>10
    <2>12. QED
      BY <1>1, <1>3, <2>1, <2>10, <2>11, ClientStep
  <1>4. QED
    BY <1>2, <1>3 DEF WriteFrame, Return

LEMMA StartReadKeepsWire ==
    ASSUME WireInv, StartRead, NEW n \in Nat, WireAt(n)
    PROVE  WireInv' /\ WireAt(n)'
  <1>1. /\ UNCHANGED <<ask, up, got, toWrite>>
        /\ pc = "write" /\ toWrite = <<>> /\ pc' = "read"
    BY DEF StartRead, server
  <1>2. WireAt(n)
    OBVIOUS
  <1>3. n + Len(up) = Len(Wire)
    <2>1. PICK m \in Nat : m = n + Len(up)
      BY DEF WireInv
    <2>2. m + Len(toWrite) = Len(Wire)
      BY <1>1, <1>2, <2>1 DEF WireAt, Unwritten
    <2>3. QED
      BY <1>1, <2>1, <2>2
  <1>4. /\ up' \in Seq(ToServer) /\ toWrite' \in Seq(ToServer)
        /\ OnWire(up', n, Wire)
    BY <1>1, <1>2 DEF WireInv, WireAt
  <1>5. n + Len(up') >= Len(Wire)
    <2>1. n + Len(up) \in Nat
      BY DEF WireInv
    <2>2. QED
      BY <1>1, <1>3, <2>1
  <1>6. QED
    BY <1>1, <1>2, <1>4, <1>5, ClientStep

LEMMA SettingsKeepWire ==
    ASSUME WireInv, ReadSettings, NEW n \in Nat, WireAt(n)
    PROVE  WireInv' /\ WireAt(n)'
  <1>1. UNCHANGED <<ask, got, toWrite>> /\ pc = "read"
    BY DEF ReadSettings, Takes, server
  <1>2. CASE up' = up /\ pc' = "done"
    BY <1>1, <1>2, AsideKeepsWire
  <1>3. CASE up' = Append(up, Ack) /\ pc' = pc
    <2>1. WireAt(n)
      OBVIOUS
    <2>2. PICK F : F = Wire
      OBVIOUS
    <2>3. PICK h : h = HeadersAt
      OBVIOUS
    <2>4. F \in Seq(ToServer)
      BY <2>2, <2>3, WireShape, Zenon DEF WireInv
    <2>5. up \in Seq(ToServer) /\ toWrite \in Seq(ToServer) /\ Ack \in ToServer
      BY DEF WireInv, ToServer
    <2>6. n + Len(up) >= Len(F) /\ OnWire(up, n, F)
      BY <1>1, <2>1, <2>2 DEF WireAt
    <2>7. Len(F) \in Nat /\ Len(up) \in Nat
      BY <2>4, <2>5
    <2>8. OnWire(Append(up, Ack), n, F)
      <3>1. ~ (n + Len(up) + 1 <= Len(F))
        BY <2>6, <2>7
      <3>2. QED
        BY <2>5, <2>6, <2>7, <3>1, OneMoreOnWire
    <2>9. up' \in Seq(ToServer) /\ Len(up') = Len(up) + 1
      BY <1>3, <2>5, AppendProperties
    <2>10. n + Len(up') >= Len(F)
      BY <2>6, <2>7, <2>9
    <2>11. QED
      BY <1>1, <1>3, <2>1, <2>2, <2>5, <2>8, <2>9, <2>10, ClientStep
  <1>4. QED
    BY <1>2, <1>3 DEF ReadSettings, Return, Ack

LEMMA ServerKeepsWire ==
    ASSUME WireInv, ServerReads, NEW n \in Nat, WireAt(n)
    PROVE  /\ WireInv'
           /\ \/ n + 1 <= Len(Wire) /\ Head(up) = Wire[n + 1] /\ WireAt(n + 1)'
              \/ Head(up) = Ack /\ WireAt(n)'
  <1>1. /\ UNCHANGED <<ask, toWrite, pc>> /\ up # <<>> /\ up' = Tail(up)
        /\ Grows(Head(up))
    BY DEF ServerReads
  <1>2. fp' = fp /\ req' = req
    BY <1>1 DEF ask
  <1>3. Wire' = Wire /\ HeadersAt' = HeadersAt /\ Asked' = Asked
        /\ ToServer' = ToServer
    BY <1>2 DEF Wire, HeadersAt, Asked, ToServer
  <1>4. WireAt(n)
    OBVIOUS
  <1>5. PICK F : F = Wire
    OBVIOUS
  <1>6. PICK h : h = HeadersAt
    OBVIOUS
  <1>7. PICK fields : fields = HeaderFields(Asked, fp)
    OBVIOUS
  <1>8. req.body \in Nat /\ F \in Seq(ToServer) /\ Framed(F, h, req.body, fields)
    BY <1>5, <1>6, <1>7, WireShape, Zenon DEF WireInv
  <1>9. h \in {2, 3} /\ Len(F) \in Nat
    BY <1>8 DEF Framed
  <1>10. up \in Seq(ToServer) /\ up' \in Seq(ToServer) /\ Len(up') = Len(up) - 1
         /\ Len(up) \in Nat /\ Len(up) >= 1
    BY <1>1, HeadTailProperties DEF WireInv
  <1>11. n <= Len(F) /\ OnWire(up, n, F) /\ got = Heard(n, h, Len(F), fields)
    BY <1>4, <1>5, <1>6, <1>7, Zenon DEF WireAt
  <1>12. /\ Head(up) = IF n + 1 <= Len(F) THEN F[n + 1] ELSE Ack
         /\ n < Len(F) => OnWire(up', n + 1, F)
         /\ n = Len(F) => OnWire(up', n, F)
    BY <1>1, <1>9, <1>10, <1>11, OneReadOfWire
  <1>13. /\ pc = "dial" => FALSE
         /\ pc = "write" => Unwritten(toWrite, n + Len(up), F)
         /\ pc = "read" => n + Len(up) >= Len(F)
    BY <1>1, <1>4, <1>5 DEF WireAt
  <1>14. CASE n < Len(F)
    <2>1. PICK k \in Nat : k = n + 1 /\ k <= Len(F)
      BY <1>9, <1>14
    <2>2. got' = Heard(k, h, Len(F), fields)
      <3>1. Grows(F[n + 1])
        BY <1>1, <1>9, <1>12, <1>14
      <3>2. got' = Heard(n + 1, h, Len(F), fields)
        BY <1>8, <1>9, <1>11, <1>14, <3>1, HeardOneMore
      <3>3. QED
        BY <2>1, <3>2
    <2>3. OnWire(up', k, F)
      BY <1>12, <1>14, <2>1
    <2>4. k + Len(up') = n + Len(up)
      BY <1>10, <2>1
    <2>5. WireAt(k)'
      BY <1>1, <1>3, <1>5, <1>6, <1>7, <1>2, <1>13, <2>1, <2>2, <2>3, <2>4 DEF WireAt
    <2>6. Head(up) = Wire[n + 1] /\ n + 1 <= Len(Wire)
      BY <1>5, <1>9, <1>12, <1>14
    <2>7. QED
      BY <1>1, <1>2, <1>3, <1>10, <2>1, <2>5, <2>6 DEF WireInv
  <1>15. CASE n = Len(F)
    <2>1. Head(up) = Ack
      BY <1>9, <1>12, <1>15
    <2>2. Head(up).type = "ack"
      BY <2>1 DEF Ack
    <2>3. got' = got
      BY <1>1, <2>2 DEF Grows
    <2>4. pc # "write"
      <3>1. SUFFICES ASSUME pc = "write" PROVE FALSE
        OBVIOUS
      <3>2. PICK m \in Nat : m = n + Len(up)
        BY <1>10
      <3>3. m + Len(toWrite) = Len(F)
        BY <1>13, <3>1, <3>2 DEF Unwritten
      <3>4. Len(toWrite) \in Nat
        BY DEF WireInv
      <3>5. QED
        BY <1>9, <1>10, <1>15, <3>2, <3>3, <3>4
    <2>5. n + Len(up') >= Len(F)
      BY <1>9, <1>10, <1>15
    <2>6. WireAt(n)'
      BY <1>1, <1>2, <1>3, <1>5, <1>6, <1>7, <1>11, <1>12, <1>13, <1>15, <2>3,
         <2>4, <2>5 DEF WireAt
    <2>7. QED
      BY <1>1, <1>2, <1>3, <1>10, <2>1, <2>6 DEF WireInv
  <1>16. QED
    BY <1>9, <1>11, <1>14, <1>15

LEMMA ClientKeepsWire ==
    ASSUME WireInv, [Next]_vars, ~ ServerReads, NEW n \in Nat, WireAt(n)
    PROVE  WireInv' /\ WireAt(n)'
  <1>1. CASE \/ ReadHeaders \/ ReadContinuation \/ ReadData \/ ReadRefusal
             \/ ReadIgnored \/ ReadEnds \/ HeaderTimeout \/ TotalTimeout
             \/ ServerSends \/ ServerCloses \/ UNCHANGED vars
    <2>1. UNCHANGED <<ask, up, toWrite, got>>
      BY <1>1 DEF ReadHeaders, ReadContinuation, ReadData, ReadRefusal, ReadIgnored,
         ReadEnds, HeaderTimeout, TotalTimeout, ServerSends, ServerCloses, server,
         vars
    <2>2. pc' = pc \/ pc' = "done"
      BY <1>1 DEF ReadHeaders, ReadContinuation, ReadFragment, ReadData, ReadRefusal,
         ReadIgnored, ReadEnds, HeaderTimeout, TotalTimeout, ServerSends,
         ServerCloses, EndOfFrame, Return, vars
    <2>3. QED
      BY <2>1, <2>2, AsideKeepsWire
  <1>2. CASE Dial \/ WriteFrame \/ StartRead
    BY <1>2, DialKeepsWire, WriteKeepsWire, StartReadKeepsWire
  <1>3. CASE ReadSettings
    BY <1>3, SettingsKeepWire
  <1>4. QED
    BY <1>1, <1>2, <1>3 DEF Next, Client

LEMMA WireKept == WireInv /\ [Next]_vars => WireInv'
  <1> SUFFICES ASSUME WireInv, [Next]_vars PROVE WireInv'
    OBVIOUS
  <1>1. PICK n \in Nat : WireAt(n)
    BY DEF WireInv
  <1>2. QED
    BY <1>1, ClientKeepsWire, ServerKeepsWire

\* What the server has read is the beginning of a request that ends once.
LEMMA WireIntact ==
    ASSUME WireInv
    PROVE  /\ StreamIntact
           /\ got.fields \in {<<>>, HeaderFields(Asked, fp)}
  <1>1. PICK n \in Nat : WireAt(n)
    BY DEF WireInv
  <1>2. PICK L : L = Len(Wire)
    OBVIOUS
  <1>3. PICK h : h = HeadersAt
    OBVIOUS
  <1>4. PICK b \in Nat : b = req.body /\ L = h + b /\ h \in {2, 3}
    <2>1. PICK F : F = Wire
      OBVIOUS
    <2>2. req.body \in Nat /\ Framed(F, h, req.body, HeaderFields(Asked, fp))
      BY <1>3, <2>1, WireShape, Zenon DEF WireInv
    <2>3. QED
      BY <1>2, <2>1, <2>2 DEF Framed
  <1>5. got = Heard(n, h, L, HeaderFields(Asked, fp)) /\ n <= L
    BY <1>1, <1>2, <1>3, Zenon DEF WireAt
  <1>6. /\ got.late = FALSE
        /\ got.ends = IF n = L THEN 1 ELSE 0
        /\ got.data = IF n > h THEN n - h ELSE 0
        /\ got.fields = IF n >= h THEN HeaderFields(Asked, fp) ELSE <<>>
    BY <1>5 DEF Heard
  <1>7. got.ends = 1 => got.data = req.body
    <2>1. SUFFICES ASSUME got.ends = 1 PROVE got.data = b
      BY <1>4
    <2>2. n = h + b
      BY <1>4, <1>6, <2>1
    <2>3. QED
      BY <1>4, <1>6, <2>2
  <1>8. pc = "read" /\ up = <<>> => got.ends = 1
    <2>1. SUFFICES ASSUME pc = "read", up = <<>> PROVE n = L
      BY <1>6
    <2>2. n + 0 >= L
      BY <1>1, <1>2, <2>1 DEF WireAt
    <2>3. QED
      BY <1>4, <1>5, <2>2
  <1>9. QED
    BY <1>6, <1>7, <1>8 DEF StreamIntact

\* However the frames of a request interleave with those of the answer, the
\* server reads one stream that ends once, with the last unit of the body, and
\* has ended as soon as nothing of it is left under way (RoundTrip,
\* writeHTTP2Body).
THEOREM StreamsStayIntact == Spec => []StreamIntact
  <1>1. WireInv => StreamIntact
    BY WireIntact
  <1>2. QED
    BY WireInitially, WireKept, <1>1, PTL DEF Spec

-----------------------------------------------------------------------------
(* Induction                                                               *)

Smaller == {ss \in Nat \X Nat : ss[1] < ss[2]}

LEMMA LeastOne ==
    ASSUME NEW T, T \subseteq Nat, T # {}
    PROVE  \E x \in T : \A y \in T : x <= y
  <1>1. IsWellFoundedOn(Smaller, Nat)
    <2>1. OpToRel(<, Nat) = {ss \in Nat \X Nat : ss[1] < ss[2]}
      BY Zenon DEF OpToRel
    <2>2. QED
      BY <2>1, NatLessThanWellFounded, Zenon DEF Smaller
  <1>2. PICK x \in T : \A y \in T : ~ (<<y, x>> \in Smaller)
    BY <1>1, WFMin, Zenon
  <1>3. ASSUME NEW y \in T
        PROVE  x <= y
    <2>1. x \in Nat /\ y \in Nat
      OBVIOUS
    <2>2. <<y, x>> \notin Smaller
      BY <1>2
    <2>3. ~ (y < x)
      BY <2>1, <2>2 DEF Smaller
    <2>4. QED
      BY <2>1, <2>3
  <1>4. QED
    BY <1>3

LEMMA Induction ==
    ASSUME NEW S, 0 \in S, \A n \in Nat : n \in S => n + 1 \in S
    PROVE  Nat \subseteq S
  <1>1. SUFFICES ASSUME NEW k \in Nat, k \notin S PROVE FALSE
    OBVIOUS
  <1>2. PICK x \in Nat \ S : \A y \in Nat \ S : x <= y
    BY <1>1, LeastOne
  <1>3. x # 0
    BY <1>2
  <1>4. x - 1 \in Nat
    BY <1>2, <1>3
  <1>5. x - 1 \in S
    BY <1>2, <1>4
  <1>6. QED
    BY <1>2, <1>4, <1>5

-----------------------------------------------------------------------------
(* Keep                                                                    *)

\* f[i] is what the loop of Keep has gathered after i elements.
Gathers(f, s, T, n) ==
    /\ f[0] = <<>>
    /\ \A i \in 1 .. n :
          f[i] = IF s[i] \in T THEN Append(f[i - 1], s[i]) ELSE f[i - 1]

LEMMA Gatherable ==
    ASSUME NEW S, NEW s, NEW T, NEW n \in Nat, \A i \in 1 .. n : s[i] \in S
    PROVE  \E f \in [0 .. n -> Seq(S)] : Gathers(f, s, T, n)
  <1> DEFINE P == {k \in Nat : k <= n =>
                       \E f \in [0 .. k -> Seq(S)] : Gathers(f, s, T, k)}
  <1>1. 0 \in P
    <2>1. <<>> \in Seq(S)
      OBVIOUS
    <2>2. [i \in 0 .. 0 |-> <<>>] \in [0 .. 0 -> Seq(S)]
      BY <2>1
    <2>3. Gathers([i \in 0 .. 0 |-> <<>>], s, T, 0)
      BY DEF Gathers
    <2>4. QED
      BY <2>2, <2>3
  <1>2. ASSUME NEW k \in Nat, k \in P
        PROVE  k + 1 \in P
    <2>1. SUFFICES ASSUME k + 1 <= n
                   PROVE  \E g \in [0 .. k + 1 -> Seq(S)] : Gathers(g, s, T, k + 1)
      OBVIOUS
    <2>2. k <= n /\ k + 1 \in 1 .. n
      BY <2>1
    <2>3. PICK f \in [0 .. k -> Seq(S)] : Gathers(f, s, T, k)
      BY <1>2, <2>2
    <2> DEFINE next == IF s[k + 1] \in T THEN Append(f[k], s[k + 1]) ELSE f[k]
               g == [i \in 0 .. k + 1 |-> IF i = k + 1 THEN next ELSE f[i]]
    <2>4. next \in Seq(S)
      <3>1. f[k] \in Seq(S) /\ s[k + 1] \in S
        BY <2>2, <2>3
      <3>2. Append(f[k], s[k + 1]) \in Seq(S)
        BY <3>1, AppendProperties
      <3>3. QED
        BY <3>1, <3>2
    <2>5. /\ g[k + 1] = next /\ g[k] = f[k]
          /\ \A i \in 0 .. k : g[i] = f[i]
      <3> HIDE DEF next
      <3>1. QED
        OBVIOUS
    <2>6. g \in [0 .. k + 1 -> Seq(S)]
      <3> HIDE DEF next
      <3>1. QED
        BY <2>3, <2>4
    <2>7. ASSUME NEW i \in 1 .. k + 1
          PROVE  g[i] = IF s[i] \in T THEN Append(g[i - 1], s[i]) ELSE g[i - 1]
      <3> HIDE DEF g
      <3>1. CASE i = k + 1
        <4>1. i - 1 = k
          BY <3>1
        <4>2. QED
          BY <2>5, <3>1, <4>1 DEF next
      <3>2. CASE i # k + 1
        <4>1. i \in 1 .. k /\ i - 1 \in 0 .. k
          BY <3>2
        <4>2. g[i] = f[i] /\ g[i - 1] = f[i - 1]
          BY <2>5, <4>1
        <4>3. QED
          BY <2>3, <4>1, <4>2 DEF Gathers
      <3>3. QED
        BY <3>1, <3>2
    <2>8. g[0] = <<>>
      <3> HIDE DEF g
      <3>1. QED
        BY <2>3, <2>5 DEF Gathers
    <2>9. Gathers(g, s, T, k + 1)
      <3> HIDE DEF g
      <3>1. QED
        BY <2>7, <2>8, Zenon DEF Gathers
    <2>10. QED
      BY <2>6, <2>9
  <1>3. n \in P
    <2> HIDE DEF P
    <2>1. QED
      BY <1>1, <1>2, Induction
  <1>4. QED
    BY <1>3

\* Keep computes what its loop gathers.
LEMMA KeepGathers ==
    ASSUME NEW S, NEW s \in Seq(S), NEW T, NEW n \in Nat, n = Len(s)
    PROVE  \E f : Gathers(f, s, T, n) /\ Keep(s, T) = f[n]
  <1> DEFINE loop(f) == [i \in 0 .. n |->
                 IF i = 0 THEN <<>>
                 ELSE IF s[i] \in T THEN Append(f[i - 1], s[i]) ELSE f[i - 1]]
             kept == CHOOSE f : f = loop(f)
  <1>1. Keep(s, T) = kept[n]
    BY Zenon DEF Keep
  <1>2. \E f : f = loop(f)
    <2>1. \A i \in 1 .. n : s[i] \in S
      OBVIOUS
    <2>2. PICK f \in [0 .. n -> Seq(S)] : Gathers(f, s, T, n)
      BY <2>1, Gatherable
    <2>3. f = [i \in 0 .. n |-> f[i]]
      BY <2>2
    <2>4. ASSUME NEW i \in 0 .. n
          PROVE  f[i] = IF i = 0 THEN <<>>
                        ELSE IF s[i] \in T THEN Append(f[i - 1], s[i]) ELSE f[i - 1]
      <3>1. i = 0 \/ i \in 1 .. n
        OBVIOUS
      <3>2. CASE i = 0
        BY <2>2, <3>2 DEF Gathers
      <3>3. CASE i \in 1 .. n
        <4>1. i # 0
          BY <3>3
        <4>2. QED
          BY <2>2, <3>3, <4>1, Zenon DEF Gathers
      <3>4. QED
        BY <3>1, <3>2, <3>3
    <2>5. QED
      BY <2>3, <2>4, ZenonT(60)
  <1>3. kept = loop(kept)
    BY <1>2, Zenon
  <1> HIDE DEF kept
  <1>4. \A i \in 0 .. n : kept[i] = loop(kept)[i]
    BY <1>3, Zenon
  <1>5. ASSUME NEW i \in 1 .. n
        PROVE  kept[i] = IF s[i] \in T THEN Append(kept[i - 1], s[i]) ELSE kept[i - 1]
    <2>1. i # 0 /\ i \in 0 .. n
      OBVIOUS
    <2>2. QED
      BY <1>4, <2>1, Zenon
  <1>6. kept[0] = <<>>
    <2>1. 0 \in 0 .. n
      OBVIOUS
    <2>2. QED
      BY <1>4, <2>1, Zenon
  <1>7. QED
    BY <1>1, <1>5, <1>6, Zenon DEF Gathers

-----------------------------------------------------------------------------
(* FlattenSeq                                                              *)

\* f[i] is what FlattenSeq has put together after i pieces.
Builds(f, seqs, n) ==
    \A i \in 1 .. n : f[i] = IF i = 1 THEN seqs[i] ELSE f[i - 1] \o seqs[i]

LEMMA Buildable ==
    ASSUME NEW S, NEW seqs, NEW n \in Nat, \A i \in 1 .. n : seqs[i] \in Seq(S)
    PROVE  \E f \in [1 .. n -> Seq(S)] : Builds(f, seqs, n)
  <1> DEFINE P == {k \in Nat : k <= n =>
                       \E f \in [1 .. k -> Seq(S)] : Builds(f, seqs, k)}
  <1>1. 0 \in P
    <2>1. [i \in 1 .. 0 |-> <<>>] \in [1 .. 0 -> Seq(S)]
      OBVIOUS
    <2>2. Builds([i \in 1 .. 0 |-> <<>>], seqs, 0)
      BY DEF Builds
    <2>3. QED
      BY <2>1, <2>2
  <1>2. ASSUME NEW k \in Nat, k \in P
        PROVE  k + 1 \in P
    <2>1. SUFFICES ASSUME k + 1 <= n
                   PROVE  \E g \in [1 .. k + 1 -> Seq(S)] : Builds(g, seqs, k + 1)
      OBVIOUS
    <2>2. k <= n /\ k + 1 \in 1 .. n
      BY <2>1
    <2>3. PICK f \in [1 .. k -> Seq(S)] : Builds(f, seqs, k)
      BY <1>2, <2>2
    <2> DEFINE next == IF k = 0 THEN seqs[1] ELSE f[k] \o seqs[k + 1]
               g == [i \in 1 .. k + 1 |-> IF i = k + 1 THEN next ELSE f[i]]
    <2>4. next \in Seq(S)
      <3>1. CASE k = 0
        BY <2>2, <3>1
      <3>2. CASE k # 0
        <4>1. f[k] \in Seq(S) /\ seqs[k + 1] \in Seq(S)
          BY <2>2, <2>3, <3>2
        <4>2. QED
          BY <3>2, <4>1, ConcatProperties
      <3>3. QED
        BY <3>1, <3>2
    <2> HIDE DEF next
    <2>5. g \in [1 .. k + 1 -> Seq(S)]
      BY <2>3, <2>4
    <2>6. Builds(g, seqs, k + 1)
      <3>1. SUFFICES ASSUME NEW i \in 1 .. k + 1
                     PROVE  g[i] = IF i = 1 THEN seqs[i] ELSE g[i - 1] \o seqs[i]
        BY DEF Builds
      <3>2. CASE i = k + 1
        <4>1. g[i] = next
          BY <3>2
        <4>2. CASE k = 0
          BY <3>2, <4>1, <4>2 DEF next
        <4>3. CASE k # 0
          <5>1. g[k] = f[k]
            BY <4>3
          <5>2. i # 1 /\ i - 1 = k
            BY <3>2, <4>3
          <5>3. QED
            BY <3>2, <4>1, <4>3, <5>1, <5>2 DEF next
        <4>4. QED
          BY <4>2, <4>3
      <3>3. CASE i # k + 1
        <4>1. i \in 1 .. k
          BY <3>3
        <4>2. g[i] = f[i]
          BY <3>3
        <4>3. i # 1 => g[i - 1] = f[i - 1]
          BY <4>1
        <4>4. QED
          BY <2>3, <4>1, <4>2, <4>3 DEF Builds
      <3>4. QED
        BY <3>2, <3>3
    <2>7. QED
      BY <2>5, <2>6
  <1>3. n \in P
    <2> HIDE DEF P
    <2>1. QED
      BY <1>1, <1>2, Induction
  <1>4. QED
    BY <1>3

\* What is built of sequences over a set is one.
LEMMA BuiltTyped ==
    ASSUME NEW S, NEW seqs, NEW n \in Nat, \A i \in 1 .. n : seqs[i] \in Seq(S),
           NEW f, Builds(f, seqs, n)
    PROVE  \A i \in 1 .. n : f[i] \in Seq(S)
  <1> DEFINE P == {k \in Nat : k \in 1 .. n => f[k] \in Seq(S)}
  <1>1. 0 \in P
    OBVIOUS
  <1>2. ASSUME NEW k \in Nat, k \in P
        PROVE  k + 1 \in P
    <2>1. SUFFICES ASSUME k + 1 \in 1 .. n
                   PROVE  f[k + 1] \in Seq(S)
      OBVIOUS
    <2>2. CASE k = 0
      BY <2>1, <2>2 DEF Builds
    <2>3. CASE k # 0
      <3>1. k \in 1 .. n /\ k + 1 # 1 /\ (k + 1) - 1 = k
        BY <2>1, <2>3
      <3>2. f[k + 1] = f[k] \o seqs[k + 1]
        BY <2>1, <3>1 DEF Builds
      <3>3. f[k] \in Seq(S) /\ seqs[k + 1] \in Seq(S)
        BY <1>2, <2>1, <3>1
      <3>4. QED
        BY <3>2, <3>3, ConcatProperties
    <2>4. QED
      BY <2>2, <2>3
  <1>3. Nat \subseteq P
    <2> HIDE DEF P
    <2>1. QED
      BY <1>1, <1>2, Induction
  <1>4. QED
    BY <1>3

\* FlattenSeq is what Builds describes.
LEMMA FlattenBuilt ==
    ASSUME NEW S, NEW seqs \in Seq(Seq(S)), NEW n \in Nat, n = Len(seqs), n # 0
    PROVE  \E f : Builds(f, seqs, n) /\ FlattenSeq(seqs) = f[n]
  <1> DEFINE fl == CHOOSE f : f = [i \in 1 .. n |->
                       IF i = 1 THEN seqs[i] ELSE f[i - 1] \o seqs[i]]
  <1>1. \A i \in 1 .. n : seqs[i] \in Seq(S)
    OBVIOUS
  <1>2. PICK f \in [1 .. n -> Seq(S)] : Builds(f, seqs, n)
    BY <1>1, Buildable
  <1>3. f = [i \in 1 .. n |-> IF i = 1 THEN seqs[i] ELSE f[i - 1] \o seqs[i]]
    BY <1>2 DEF Builds
  <1>4. fl = [i \in 1 .. n |-> IF i = 1 THEN seqs[i] ELSE fl[i - 1] \o seqs[i]]
    BY <1>3, Zenon
  <1>5. Builds(fl, seqs, n)
    <2> HIDE DEF fl
    <2>1. QED
      BY <1>4 DEF Builds
  <1>6. FlattenSeq(seqs) = fl[n]
    BY Zenon DEF FlattenSeq
  <1> HIDE DEF fl
  <1>7. QED
    BY <1>5, <1>6

LEMMA FlattenTyped ==
    ASSUME NEW S, NEW seqs \in Seq(Seq(S))
    PROVE  FlattenSeq(seqs) \in Seq(S)
  <1>1. PICK n \in Nat : n = Len(seqs)
    OBVIOUS
  <1>2. CASE n = 0
    <2>1. Len(seqs) = 0
      BY <1>1, <1>2
    <2>2. FlattenSeq(seqs) = seqs
      BY <2>1, Zenon DEF FlattenSeq
    <2>3. seqs = <<>>
      <3>1. seqs # <<>> => Len(seqs) \in Nat \ {0}
        BY EmptySeq, Zenon
      <3>2. QED
        BY <2>1, <3>1
    <2>4. QED
      BY <2>2, <2>3
  <1>3. CASE n # 0
    <2>1. PICK f : Builds(f, seqs, n) /\ FlattenSeq(seqs) = f[n]
      BY <1>1, <1>3, FlattenBuilt
    <2>2. \A i \in 1 .. n : seqs[i] \in Seq(S)
      BY <1>1
    <2>3. \A i \in 1 .. n : f[i] \in Seq(S)
      BY <2>1, <2>2, BuiltTyped, Zenon
    <2>4. n \in 1 .. n
      BY <1>3
    <2>5. QED
      BY <2>1, <2>3, <2>4
  <1>4. QED
    BY <1>2, <1>3

-----------------------------------------------------------------------------
(* What Keep does with a list as a whole.                                  *)

LEMMA KeepTyped ==
    ASSUME NEW S, NEW s \in Seq(S), NEW T, NEW n \in Nat, n = Len(s),
           NEW f, Gathers(f, s, T, n)
    PROVE  \A i \in 0 .. n : f[i] \in Seq(S)
  <1> DEFINE P == {k \in Nat : k <= n => f[k] \in Seq(S)}
  <1>1. 0 \in P
    <2>1. f[0] = <<>> /\ <<>> \in Seq(S)
      BY EmptySeq DEF Gathers
    <2>2. QED
      BY <2>1
  <1>2. ASSUME NEW k \in Nat, k \in P
        PROVE  k + 1 \in P
    <2>1. SUFFICES ASSUME k + 1 <= n
                   PROVE  f[k + 1] \in Seq(S)
      OBVIOUS
    <2>2. k + 1 \in 1 .. n /\ (k + 1) - 1 = k /\ k <= n
      BY <2>1
    <2>3. f[k + 1] = IF s[k + 1] \in T THEN Append(f[k], s[k + 1]) ELSE f[k]
      BY <2>2 DEF Gathers
    <2>4. f[k] \in Seq(S) /\ s[k + 1] \in S
      BY <1>2, <2>2
    <2>5. QED
      BY <2>3, <2>4, AppendProperties
  <1>3. Nat \subseteq P
    <2> HIDE DEF P
    <2>1. QED
      BY <1>1, <1>2, Induction
  <1>4. QED
    BY <1>3

\* A list without elements of T.
LEMMA KeepNone ==
    ASSUME NEW S, NEW s \in Seq(S), NEW T, \A i \in 1 .. Len(s) : s[i] \notin T
    PROVE  Keep(s, T) = <<>>
  <1>1. PICK n \in Nat : n = Len(s)
    OBVIOUS
  <1>2. PICK f : Gathers(f, s, T, n) /\ Keep(s, T) = f[n]
    BY <1>1, KeepGathers
  <1> DEFINE P == {k \in Nat : k <= n => f[k] = <<>>}
  <1>3. 0 \in P
    BY <1>2 DEF Gathers
  <1>4. ASSUME NEW k \in Nat, k \in P
        PROVE  k + 1 \in P
    <2>1. SUFFICES ASSUME k + 1 <= n
                   PROVE  f[k + 1] = <<>>
      OBVIOUS
    <2>2. k + 1 \in 1 .. n /\ (k + 1) - 1 = k /\ k <= n
      BY <2>1
    <2>3. QED
      BY <1>1, <1>2, <1>4, <2>2 DEF Gathers
  <1>5. n \in P
    <2> HIDE DEF P
    <2>1. QED
      BY <1>3, <1>4, Induction
  <1>6. QED
    BY <1>2, <1>5

\* A list all of whose elements are in T.
LEMMA KeepAll ==
    ASSUME NEW S, NEW s \in Seq(S), NEW T, \A i \in 1 .. Len(s) : s[i] \in T
    PROVE  Keep(s, T) = s
  <1>1. PICK n \in Nat : n = Len(s)
    OBVIOUS
  <1>2. PICK f : Gathers(f, s, T, n) /\ Keep(s, T) = f[n]
    BY <1>1, KeepGathers
  <1>3. \A i \in 0 .. n : f[i] \in Seq(S)
    BY <1>1, <1>2, KeepTyped, Zenon
  <1> DEFINE P == {k \in Nat : k <= n => /\ Len(f[k]) = k
                                          /\ \A i \in 1 .. k : f[k][i] = s[i]}
  <1>4. 0 \in P
    BY <1>2 DEF Gathers
  <1>5. ASSUME NEW k \in Nat, k \in P
        PROVE  k + 1 \in P
    <2>1. SUFFICES ASSUME k + 1 <= n
                   PROVE  /\ Len(f[k + 1]) = k + 1
                          /\ \A i \in 1 .. k + 1 : f[k + 1][i] = s[i]
      OBVIOUS
    <2>2. k + 1 \in 1 .. n /\ (k + 1) - 1 = k /\ k <= n /\ k \in 0 .. n
      BY <2>1
    <2>3. f[k + 1] = Append(f[k], s[k + 1])
      BY <1>1, <1>2, <2>2 DEF Gathers
    <2>4. f[k] \in Seq(S) /\ s[k + 1] \in S /\ Len(f[k]) = k
      BY <1>1, <1>3, <1>5, <2>2
    <2>5. /\ Len(f[k + 1]) = k + 1
          /\ f[k + 1][k + 1] = s[k + 1]
          /\ \A i \in 1 .. k : f[k + 1][i] = f[k][i]
      BY <2>3, <2>4, AppendProperties
    <2>6. \A i \in 1 .. k : f[k][i] = s[i]
      BY <1>5, <2>2
    <2>7. QED
      BY <2>5, <2>6
  <1>6. n \in P
    <2> HIDE DEF P
    <2>1. QED
      BY <1>4, <1>5, Induction
  <1>7. f[n] \in Seq(S)
    BY <1>3
  <1>8. QED
    BY <1>1, <1>2, <1>6, <1>7, SeqEqual

\* Two lists one after the other: the provers take a defined relation better
\* than the operator.
Together(a, b, c) == c = a \o b

LEMMA TogetherMore ==
    ASSUME NEW S, NEW a \in Seq(S), NEW b \in Seq(S), NEW x \in S,
           NEW c, Together(a, b, c)
    PROVE  Together(a, Append(b, x), Append(c, x))
  <1>1. Append(a \o b, x) = a \o Append(b, x)
    OBVIOUS
  <1>2. QED
    BY <1>1, Zenon DEF Together

Among(v, s) == \E y \in 1 .. Len(s) : v = s[y]

LEMMA ConcatElement ==
    ASSUME NEW S, NEW a \in Seq(S), NEW b \in Seq(S), NEW c, Together(a, b, c),
           NEW v, Among(v, c)
    PROVE  Among(v, a) \/ Among(v, b)
  <1>0. PICK x \in 1 .. Len(c) : v = c[x]
    BY DEF Among
  <1>1. /\ Len(c) = Len(a) + Len(b)
        /\ \A i \in 1 .. Len(a) + Len(b) :
              c[i] = IF i <= Len(a) THEN a[i] ELSE b[i - Len(a)]
    BY ConcatProperties DEF Together
  <1>2. PICK m \in Nat : m = Len(a)
    OBVIOUS
  <1>3. PICK n \in Nat : n = Len(b)
    OBVIOUS
  <1>4. x \in 1 .. m + n /\ v = IF x <= m THEN a[x] ELSE b[x - m]
    BY <1>0, <1>1, <1>2, <1>3
  <1>5. CASE x <= m
    BY <1>2, <1>4, <1>5 DEF Among
  <1>6. CASE ~ (x <= m)
    <2>1. x - m \in 1 .. Len(b)
      BY <1>3, <1>4, <1>6
    <2>2. QED
      BY <1>4, <1>6, <2>1 DEF Among
  <1>7. QED
    BY <1>5, <1>6

LEMMA KeepConcat ==
    ASSUME NEW S, NEW s \in Seq(S), NEW t \in Seq(S), NEW c, Together(s, t, c),
           NEW T
    PROVE  /\ Keep(s, T) \in Seq(S) /\ Keep(t, T) \in Seq(S)
           /\ Together(Keep(s, T), Keep(t, T), Keep(c, T))
  <1>1. PICK m \in Nat : m = Len(s)
    OBVIOUS
  <1>2. PICK n \in Nat : n = Len(t)
    OBVIOUS
  <1>3. PICK u \in Seq(S) : u = s \o t
    BY ConcatProperties
  <1>3a. PICK l \in Nat : l = m + n
    OBVIOUS
  <1>3b. \A i \in 1 .. l : u[i] = IF i <= m THEN s[i] ELSE t[i - m]
    BY <1>1, <1>2, <1>3, <1>3a, ConcatProperties
  <1>3c. l = Len(u)
    BY <1>1, <1>2, <1>3, <1>3a, ConcatProperties
  <1>4. PICK f : Gathers(f, s, T, m) /\ Keep(s, T) = f[m]
    BY <1>1, KeepGathers
  <1>5. PICK g : Gathers(g, t, T, n) /\ Keep(t, T) = g[n]
    BY <1>2, KeepGathers
  <1>6. PICK h : Gathers(h, u, T, l) /\ Keep(u, T) = h[l]
    BY <1>3c, KeepGathers
  <1>7. /\ \A i \in 0 .. m : f[i] \in Seq(S)
        /\ \A i \in 0 .. n : g[i] \in Seq(S)
    BY <1>1, <1>2, <1>4, <1>5, KeepTyped, Zenon
  <1> DEFINE P == {k \in Nat : k <= m => h[k] = f[k]}
             Q == {k \in Nat : k <= n => \A j \in Nat : j - m = k => Together(f[m], g[k], h[j])}
  <1>8. 0 \in P
    BY <1>4, <1>6 DEF Gathers
  <1>9. ASSUME NEW k \in Nat, k \in P
        PROVE  k + 1 \in P
    <2>1. SUFFICES ASSUME k + 1 <= m
                   PROVE  h[k + 1] = f[k + 1]
      OBVIOUS
    <2>2. /\ k + 1 \in 1 .. m /\ k + 1 \in 1 .. l
          /\ (k + 1) - 1 = k /\ k <= m
      BY <1>3a, <2>1
    <2>3. u[k + 1] = s[k + 1] /\ h[k] = f[k]
      BY <1>3b, <1>9, <2>2
    <2>4. QED
      BY <1>4, <1>6, <2>2, <2>3 DEF Gathers
  <1>10. m \in P
    <2> HIDE DEF P
    <2>1. QED
      BY <1>8, <1>9, Induction
  <1>11. 0 \in Q
    <2>1. g[0] = <<>> /\ f[m] \in Seq(S) /\ h[m] = f[m]
      BY <1>5, <1>7, <1>10 DEF Gathers
    <2>2. f[m] \o g[0] = f[m]
      BY <2>1, ConcatEmptySeq
    <2>3. \A j \in Nat : j - m = 0 => j = m
      OBVIOUS
    <2>4. QED
      BY <2>1, <2>2, <2>3 DEF Together
  <1>12. ASSUME NEW k \in Nat, k \in Q
         PROVE  k + 1 \in Q
    <2>0. k + 1 \in Nat
      OBVIOUS
    <2>1. SUFFICES ASSUME k + 1 <= n, NEW j \in Nat, j - m = k + 1
                   PROVE  Together(f[m], g[k + 1], h[j])
      BY <2>0, Zenon
    <2>3. /\ k + 1 \in 1 .. n /\ (k + 1) - 1 = k /\ k <= n /\ j \in 1 .. l
          /\ j - 1 \in Nat /\ (j - 1) - m = k /\ ~ (j <= m)
      BY <1>3a, <2>1
    <2>4. u[j] = t[k + 1] /\ Together(f[m], g[k], h[j - 1])
      BY <1>3b, <1>12, <2>1, <2>3
    <2>5. h[j] = IF t[k + 1] \in T THEN Append(h[j - 1], t[k + 1]) ELSE h[j - 1]
      BY <1>6, <2>3, <2>4 DEF Gathers
    <2>6. g[k + 1] = IF t[k + 1] \in T THEN Append(g[k], t[k + 1]) ELSE g[k]
      BY <1>5, <2>3 DEF Gathers
    <2>7. f[m] \in Seq(S) /\ g[k] \in Seq(S) /\ t[k + 1] \in S
      BY <1>2, <1>7, <2>3
    <2>8. Together(f[m], Append(g[k], t[k + 1]), Append(h[j - 1], t[k + 1]))
      BY <2>4, <2>7, TogetherMore, Zenon
    <2>9. QED
      BY <2>4, <2>5, <2>6, <2>8
  <1>13. n \in Q
    <2> HIDE DEF Q
    <2>1. QED
      BY <1>11, <1>12, Induction
  <1>14. f[m] \in Seq(S) /\ g[n] \in Seq(S)
    BY <1>7
  <1>15. Together(f[m], g[n], h[l])
    <2>1. l - m = n
      BY <1>3a
    <2>2. n <= n
      OBVIOUS
    <2>3. QED
      BY <1>13, <2>1, <2>2, Zenon
  <1>16. QED
    BY <1>3, <1>4, <1>5, <1>6, <1>14, <1>15 DEF Together

\* One list after another into the result: nothing of T comes but from one.
LEMMA KeepFlatten ==
    ASSUME NEW S, NEW seqs \in Seq(Seq(S)), NEW T, NEW j \in Nat,
           \A i \in 1 .. Len(seqs) : i # j => Keep(seqs[i], T) = <<>>
    PROVE  Keep(FlattenSeq(seqs), T) =
               IF j \in 1 .. Len(seqs) THEN Keep(seqs[j], T) ELSE <<>>
  <1>1. PICK n \in Nat : n = Len(seqs)
    OBVIOUS
  <1>2. CASE n = 0
    <2>1. FlattenSeq(seqs) = seqs
      BY <1>1, <1>2, Zenon DEF FlattenSeq
    <2>2. \A i \in 1 .. Len(seqs) : seqs[i] \notin T
      BY <1>1, <1>2
    <2>3. Keep(seqs, T) = <<>>
      BY <2>2, KeepNone
    <2>4. QED
      BY <1>1, <1>2, <2>1, <2>3
  <1>3. CASE n # 0
    <2>1. PICK f : Builds(f, seqs, n) /\ FlattenSeq(seqs) = f[n]
      BY <1>1, <1>3, FlattenBuilt
    <2>2. \A i \in 1 .. n : seqs[i] \in Seq(S)
      BY <1>1
    <2>3. \A i \in 1 .. n : f[i] \in Seq(S)
      BY <2>1, <2>2, BuiltTyped, Zenon
    <2> DEFINE P == {k \in Nat : k \in 1 .. n =>
                        Keep(f[k], T) = IF j \in 1 .. k THEN Keep(seqs[j], T) ELSE <<>>}
    <2>4. 0 \in P
      OBVIOUS
    <2>5. ASSUME NEW k \in Nat, k \in P
          PROVE  k + 1 \in P
      <3>1. SUFFICES ASSUME k + 1 \in 1 .. n
                     PROVE  Keep(f[k + 1], T) =
                                IF j \in 1 .. k + 1 THEN Keep(seqs[j], T) ELSE <<>>
        OBVIOUS
      <3>2. CASE k = 0
        <4>1. f[1] = seqs[1]
          BY <1>3, <2>1, <3>1, <3>2 DEF Builds
        <4>2. j \in 1 .. 1 <=> j = 1
          OBVIOUS
        <4>3. QED
          BY <1>1, <3>1, <3>2, <4>1, <4>2
      <3>3. CASE k # 0
        <4>1. k \in 1 .. n /\ k + 1 # 1 /\ (k + 1) - 1 = k
          BY <3>1, <3>3
        <4>2. f[k + 1] = f[k] \o seqs[k + 1]
          BY <2>1, <3>1, <4>1 DEF Builds
        <4>3. f[k] \in Seq(S) /\ seqs[k + 1] \in Seq(S)
          BY <2>2, <2>3, <3>1, <4>1
        <4>3a. Together(f[k], seqs[k + 1], f[k + 1])
          BY <4>2 DEF Together
        <4>4. /\ Keep(f[k], T) \in Seq(S) /\ Keep(seqs[k + 1], T) \in Seq(S)
              /\ Together(Keep(f[k], T), Keep(seqs[k + 1], T), Keep(f[k + 1], T))
          BY <4>3, <4>3a, KeepConcat, Zenon
        <4>5. Keep(f[k], T) = IF j \in 1 .. k THEN Keep(seqs[j], T) ELSE <<>>
          BY <2>5, <4>1
        <4>6. CASE j = k + 1
          <5>1. j \notin 1 .. k /\ j \in 1 .. k + 1
            BY <4>6
          <5>2. QED
            BY <4>4, <4>5, <4>6, <5>1, ConcatEmptySeq DEF Together
        <4>7. CASE j # k + 1
          <5>1. j \in 1 .. k <=> j \in 1 .. k + 1
            BY <4>7
          <5>2. Keep(seqs[k + 1], T) = <<>>
            BY <1>1, <3>1, <4>7
          <5>3. QED
            BY <4>4, <4>5, <5>1, <5>2, ConcatEmptySeq DEF Together
        <4>8. QED
          BY <4>6, <4>7
      <3>4. QED
        BY <3>2, <3>3
    <2>6. Nat \subseteq P
      <3> HIDE DEF P
      <3>1. QED
        BY <2>4, <2>5, Induction
    <2>7. n \in 1 .. n
      BY <1>3
    <2>8. QED
      BY <1>1, <2>1, <2>6, <2>7
  <1>4. QED
    BY <1>2, <1>3

\* What is put together comes from the pieces.
LEMMA FlattenFrom ==
    ASSUME NEW S, NEW seqs \in Seq(Seq(S)), NEW v, Among(v, FlattenSeq(seqs))
    PROVE  \E i \in 1 .. Len(seqs) : Among(v, seqs[i])
  <1>1. PICK n \in Nat : n = Len(seqs)
    OBVIOUS
  <1>2. n # 0
    <2>1. SUFFICES ASSUME n = 0 PROVE FALSE
      OBVIOUS
    <2>2. FlattenSeq(seqs) = seqs
      BY <1>1, <2>1, Zenon DEF FlattenSeq
    <2>3. Among(v, seqs)
      BY <2>2
    <2>4. PICK y \in 1 .. Len(seqs) : v = seqs[y]
      BY <2>3 DEF Among
    <2>5. QED
      BY <1>1, <2>1, <2>4
  <1>3. PICK f : Builds(f, seqs, n) /\ FlattenSeq(seqs) = f[n]
    BY <1>1, <1>2, FlattenBuilt
  <1>4. \A i \in 1 .. n : seqs[i] \in Seq(S)
    BY <1>1
  <1>5. \A i \in 1 .. n : f[i] \in Seq(S)
    BY <1>3, <1>4, BuiltTyped, Zenon
  <1> DEFINE P == {k \in Nat : k \in 1 .. n /\ Among(v, f[k]) =>
                        \E i \in 1 .. k : Among(v, seqs[i])}
  <1>6. 0 \in P
    OBVIOUS
  <1>7. ASSUME NEW k \in Nat, k \in P
        PROVE  k + 1 \in P
    <2>1. SUFFICES ASSUME k + 1 \in 1 .. n, Among(v, f[k + 1])
                   PROVE  \E i \in 1 .. k + 1 : Among(v, seqs[i])
      OBVIOUS
    <2>2. CASE k = 0
      <3>1. f[1] = seqs[1] /\ 1 \in 1 .. k + 1
        BY <1>2, <1>3, <2>1, <2>2 DEF Builds
      <3>2. QED
        BY <2>1, <2>2, <3>1
    <2>3. CASE k # 0
      <3>1. k \in 1 .. n /\ k + 1 # 1 /\ (k + 1) - 1 = k
        BY <2>1, <2>3
      <3>2. Together(f[k], seqs[k + 1], f[k + 1])
        BY <1>3, <2>1, <3>1 DEF Builds, Together
      <3>3. f[k] \in Seq(S) /\ seqs[k + 1] \in Seq(S)
        BY <1>4, <1>5, <2>1, <3>1
      <3>4. Among(v, f[k]) \/ Among(v, seqs[k + 1])
        BY <2>1, <3>2, <3>3, ConcatElement, ZenonT(60)
      <3>5. k + 1 \in 1 .. k + 1 /\ \A i \in 1 .. k : i \in 1 .. k + 1
        OBVIOUS
      <3>6. QED
        BY <1>7, <3>1, <3>4, <3>5
    <2>4. QED
      BY <2>2, <2>3
  <1>8. Nat \subseteq P
    <2> HIDE DEF P
    <2>1. QED
      BY <1>6, <1>7, Induction
  <1>9. n \in 1 .. n /\ Among(v, f[n])
    BY <1>2, <1>3
  <1>10. QED
    BY <1>1, <1>8, <1>9

-----------------------------------------------------------------------------
(* The header fields.                                                      *)

\* All strings; the provers do not know of a literal that it is one.
Text == STRING \cup {"method", "authority", "scheme", "path", "user-agent"}

Field == [pseudo : BOOLEAN, name : Text, value : Text]

\* The pseudo and the ordinary fields of a name.
PseudoAs(p) == {g \in Field : g.pseudo /\ g.name = p}

NamedAs(n) == {g \in Field : ~ g.pseudo /\ g.name = n}

PseudoNames == ToSet(Pseudo)

HeaderLine == [name : Text, value : Text]

\* The types of a fingerprint's part of the header fields and of a request: the
\* client names a header with its values.
TypedFingerprint(f) ==
    /\ f.userAgent \in Text
    /\ f.http2.headers \in Seq(Text) /\ f.akamai.order \in Seq(Text)
    /\ f.http2.lines \in Seq(HeaderLine)

TypedRequest(r) ==
    /\ r = [headers |-> r.headers, body |-> r.body]
    /\ r.headers = [n \in DOMAIN r.headers |-> r.headers[n]]
    /\ DOMAIN r.headers \subseteq Text
    /\ IsFiniteSet(DOMAIN r.headers)
    /\ \A n \in DOMAIN r.headers : r.headers[n] \in Seq(Text) \ {<<>>}

LEMMA FunctionIsSeq ==
    ASSUME NEW S, NEW n \in Nat, NEW s \in [1 .. n -> S]
    PROVE  s \in Seq(S) /\ Len(s) = n
  OBVIOUS

LEMMA FourIsSeq ==
    ASSUME NEW S, NEW a \in S, NEW b \in S, NEW c \in S, NEW d \in S
    PROVE  <<a, b, c, d>> \in Seq(S) /\ Len(<<a, b, c, d>>) = 4
  OBVIOUS

LEMMA OneIsSeq ==
    ASSUME NEW S, NEW a \in S, NEW s, s = <<a>>
    PROVE  s \in Seq(S) /\ Len(s) = 1 /\ s[1] = a
  OBVIOUS

LEMMA OneHead ==
    ASSUME NEW S, NEW a \in S, NEW s, s = <<a>>
    PROVE  s # <<>> /\ Head(s) = a
  <1>1. s \in Seq(S) /\ Len(s) = 1 /\ s[1] = a
    BY OneIsSeq
  <1>2. s # <<>>
    <2>1. SUFFICES ASSUME s = <<>> PROVE FALSE
      OBVIOUS
    <2>2. Len(s) = 0
      BY <2>1
    <2>3. QED
      BY <1>1, <2>2
  <1>3. Head(s) = a
    BY <1>1, <1>2
  <1>4. QED
    BY <1>2, <1>3

LEMMA PseudoTyped ==
    /\ Pseudo \in Seq(Text) /\ Len(Pseudo) = 4
    /\ PseudoNames = {"method", "authority", "scheme", "path"}
    /\ PseudoNames \subseteq Text
    /\ \A p : AtMostOnce(p, Pseudo)
  <1>0. /\ "method" \in Text /\ "authority" \in Text
        /\ "scheme" \in Text /\ "path" \in Text
    BY DEF Text
  <1>1. Pseudo \in Seq(Text) /\ Len(Pseudo) = 4
    BY <1>0, FourIsSeq, Zenon DEF Pseudo
  <1>2. DOMAIN Pseudo = 1 .. 4
    BY <1>1
  <1>3. /\ Pseudo[1] = "method" /\ Pseudo[2] = "authority"
        /\ Pseudo[3] = "scheme" /\ Pseudo[4] = "path"
    BY DEF Pseudo
  <1>4. PseudoNames = {"method", "authority", "scheme", "path"}
    BY <1>2, <1>3 DEF PseudoNames, ToSet
  <1>5. \A p : AtMostOnce(p, Pseudo)
    BY <1>2, <1>3 DEF AtMostOnce
  <1>6. QED
    BY <1>0, <1>1, <1>4, <1>5

LEMMA TogetherParts ==
    ASSUME NEW S, NEW a \in Seq(S), NEW b \in Seq(S), NEW c, Together(a, b, c)
    PROVE  /\ c \in Seq(S)
           /\ Len(c) = Len(a) + Len(b)
           /\ \A i \in 1 .. Len(a) : c[i] = a[i]
           /\ \A i \in Len(a) + 1 .. Len(a) + Len(b) : c[i] = b[i - Len(a)]
  <1>1. Len(c) = Len(a) + Len(b)
    BY ConcatProperties DEF Together
  <1>2. \A i \in 1 .. Len(a) + Len(b) :
              c[i] = IF i <= Len(a) THEN a[i] ELSE b[i - Len(a)]
    BY ConcatProperties DEF Together
  <1>3. c \in Seq(S)
    BY ConcatProperties DEF Together
  <1>4. QED
    BY <1>1, <1>2, <1>3

LEMMA ConcatHas ==
    ASSUME NEW S, NEW a \in Seq(S), NEW b \in Seq(S), NEW c, Together(a, b, c),
           NEW v, Among(v, a) \/ Among(v, b)
    PROVE  Among(v, c)
  <1>1. PICK m \in Nat : m = Len(a)
    OBVIOUS
  <1>2. PICK n \in Nat : n = Len(b)
    OBVIOUS
  <1>3. /\ Len(c) = m + n
        /\ \A i \in 1 .. m : c[i] = a[i]
        /\ \A i \in m + 1 .. m + n : c[i] = b[i - m]
    <2>1. Len(c) = Len(a) + Len(b)
      BY TogetherParts
    <2>2. \A i \in 1 .. Len(a) : c[i] = a[i]
      BY TogetherParts
    <2>3. \A i \in Len(a) + 1 .. Len(a) + Len(b) : c[i] = b[i - Len(a)]
      BY TogetherParts
    <2>4. QED
      BY <1>1, <1>2, <2>1, <2>2, <2>3
  <1>4. CASE Among(v, a)
    <2>1. PICK y \in 1 .. m : v = a[y]
      BY <1>1, <1>4 DEF Among
    <2>2. y \in 1 .. Len(c) /\ v = c[y]
      BY <1>3, <2>1
    <2>3. QED
      BY <2>2 DEF Among
  <1>5. CASE Among(v, b)
    <2>1. PICK y \in 1 .. n : v = b[y]
      BY <1>2, <1>5 DEF Among
    <2>2. PICK x : x = m + y
      OBVIOUS
    <2>3. x \in m + 1 .. m + n /\ x - m = y /\ x \in 1 .. Len(c)
      BY <1>3, <2>1, <2>2
    <2>4. v = c[x]
      BY <1>3, <2>1, <2>3
    <2>5. QED
      BY <2>3, <2>4 DEF Among
  <1>6. QED
    BY <1>4, <1>5

\* What a piece has is put together with the others.
LEMMA FlattenHas ==
    ASSUME NEW S, NEW seqs \in Seq(Seq(S)), NEW j \in 1 .. Len(seqs),
           NEW v, Among(v, seqs[j])
    PROVE  Among(v, FlattenSeq(seqs))
  <1>1. PICK n \in Nat : n = Len(seqs)
    OBVIOUS
  <1>2. n # 0 /\ j \in 1 .. n
    BY <1>1
  <1>3. PICK f : Builds(f, seqs, n) /\ FlattenSeq(seqs) = f[n]
    BY <1>1, <1>2, FlattenBuilt
  <1>4. \A i \in 1 .. n : seqs[i] \in Seq(S)
    BY <1>1
  <1>5. \A i \in 1 .. n : f[i] \in Seq(S)
    BY <1>3, <1>4, BuiltTyped, Zenon
  <1> DEFINE P == {k \in Nat : k \in j .. n => Among(v, f[k])}
  <1>6. 0 \in P
    BY <1>2
  <1>7. ASSUME NEW k \in Nat, k \in P
        PROVE  k + 1 \in P
    <2>1. SUFFICES ASSUME k + 1 \in j .. n
                   PROVE  Among(v, f[k + 1])
      OBVIOUS
    <2>2. CASE k = 0
      <3>1. f[1] = seqs[1] /\ j = 1
        BY <1>2, <1>3, <2>1, <2>2 DEF Builds
      <3>2. QED
        BY <2>2, <3>1
    <2>3. CASE k # 0
      <3>1. k \in 1 .. n /\ k + 1 \in 1 .. n /\ k + 1 # 1 /\ (k + 1) - 1 = k
        BY <1>2, <2>1, <2>3
      <3>2. Together(f[k], seqs[k + 1], f[k + 1])
        BY <1>3, <3>1 DEF Builds, Together
      <3>3. f[k] \in Seq(S) /\ seqs[k + 1] \in Seq(S)
        BY <1>4, <1>5, <3>1
      <3>4. Among(v, f[k]) \/ Among(v, seqs[k + 1])
        <4>1. CASE j = k + 1
          BY <4>1
        <4>2. CASE j # k + 1
          <5>1. k \in j .. n
            BY <1>2, <2>1, <4>2
          <5>2. QED
            BY <1>7, <5>1
        <4>3. QED
          BY <4>1, <4>2
      <3>5. PICK a \in Seq(S) : a = f[k]
        BY <3>3
      <3>6. PICK b \in Seq(S) : b = seqs[k + 1]
        BY <3>3
      <3>7. PICK c : c = f[k + 1]
        OBVIOUS
      <3>8. Together(a, b, c) /\ (Among(v, a) \/ Among(v, b))
        BY <3>2, <3>4, <3>5, <3>6, <3>7
      <3>9. Among(v, c)
        BY <3>8, ConcatHas
      <3>10. QED
        BY <3>7, <3>9
    <2>4. QED
      BY <2>2, <2>3
  <1>8. Nat \subseteq P
    <2> HIDE DEF P
    <2>1. QED
      BY <1>6, <1>7, Induction
  <1>9. n \in j .. n
    BY <1>2
  <1>10. QED
    BY <1>3, <1>8, <1>9

LEMMA KeepFew ==
    ASSUME NEW S, NEW s \in Seq(S), Len(s) <= 1, NEW T
    PROVE  Keep(s, T) \in Seq(S) /\ Len(Keep(s, T)) <= 1
  <1>1. CASE \A i \in 1 .. Len(s) : s[i] \in T
    BY <1>1, KeepAll
  <1>2. CASE ~ \A i \in 1 .. Len(s) : s[i] \in T
    <2>1. \A i \in 1 .. Len(s) : s[i] \notin T
      BY <1>2
    <2>2. Keep(s, T) = <<>>
      BY <2>1, KeepNone
    <2>3. <<>> \in Seq(S) /\ Len(<<>>) = 0
      OBVIOUS
    <2>4. QED
      BY <2>2, <2>3
  <1>3. QED
    BY <1>1, <1>2

Shaped(F, name) ==
    /\ F \in Seq(Field)
    /\ \A i \in 1 .. Len(F) : ~ F[i].pseudo /\ F[i].name = name
    /\ name \in ForbiddenNames => F = <<>>

LEMMA FieldsShape ==
    ASSUME NEW name \in Text, NEW values \in Seq(Text),
           NEW F, F = Fields(name, values)
    PROVE  /\ F \in Seq(Field)
           /\ \A i \in 1 .. Len(F) : ~ F[i].pseudo /\ F[i].name = name
           /\ name \in ForbiddenNames => F = <<>>
  <1>1. PICK A \in Seq(Text) : A = Keep(values, ToSet(values) \ {NoValue})
    <2>1. Together(<<>>, values, values) /\ <<>> \in Seq(Text)
      BY ConcatEmptySeq DEF Together
    <2>2. QED
      BY <2>1, KeepConcat
  <1>2. F = IF name \in ForbiddenNames THEN <<>>
            ELSE [i \in DOMAIN A |->
                     [pseudo |-> FALSE, name |-> name, value |-> A[i]]]
    BY <1>1, Zenon DEF Fields
  <1>3. CASE name \in ForbiddenNames
    BY <1>2, <1>3
  <1>4. CASE name \notin ForbiddenNames
    <2>1. PICK n \in Nat : n = Len(A) /\ DOMAIN A = 1 .. n
      OBVIOUS
    <2>2. F = [i \in 1 .. n |-> [pseudo |-> FALSE, name |-> name, value |-> A[i]]]
      BY <1>2, <1>4, <2>1
    <2>3. \A i \in 1 .. n : A[i] \in Text
      BY <2>1
    <2>4. \A i \in 1 .. n : [pseudo |-> FALSE, name |-> name, value |-> A[i]] \in Field
      BY <2>3 DEF Field
    <2>5. F \in [1 .. n -> Field]
      BY <2>2, <2>4
    <2>6. F \in Seq(Field) /\ Len(F) = n
      BY <2>1, <2>5, FunctionIsSeq, Zenon
    <2>7. \A i \in 1 .. n : F[i].pseudo = FALSE /\ F[i].name = name
      BY <2>2
    <2>8. QED
      BY <1>4, <2>6, <2>7
  <1>5. QED
    BY <1>3, <1>4

LEMMA FieldsShaped ==
    ASSUME NEW name \in Text, NEW values \in Seq(Text)
    PROVE  Shaped(Fields(name, values), name)
  <1>1. PICK F : F = Fields(name, values)
    OBVIOUS
  <1>2. /\ F \in Seq(Field)
        /\ \A i \in 1 .. Len(F) : ~ F[i].pseudo /\ F[i].name = name
        /\ name \in ForbiddenNames => F = <<>>
    BY <1>1, FieldsShape
  <1>3. QED
    BY <1>1, <1>2 DEF Shaped

LEMMA PseudoFieldTyped ==
    ASSUME NEW p \in Text, NEW g, g = PseudoField(p)
    PROVE  g \in Field /\ g.pseudo /\ g.name = p
  BY DEF PseudoField, Field

\* What a loop over names adds: the wanted ones, each as often as it is listed.
LEMMA PseudoShape ==
    ASSUME NEW names \in Seq(Text), NEW W, NEW F, F = PseudoFields(names, W)
    PROVE  /\ F \in Seq(Field)
           /\ \A v : Among(v, F) =>
                 \E i \in 1 .. Len(names) : names[i] \in W /\ v = PseudoField(names[i])
           /\ \A i \in 1 .. Len(names) : names[i] \in W => Among(PseudoField(names[i]), F)
           /\ \A p : AtMostOnce(p, names) => Len(Keep(F, PseudoAs(p))) <= 1
  <1>1. PICK n \in Nat : n = Len(names) /\ DOMAIN names = 1 .. n
    OBVIOUS
  <1>2. PICK pieces : pieces = [i \in 1 .. n |->
                          IF names[i] \in W THEN <<PseudoField(names[i])>> ELSE <<>>]
    OBVIOUS
  <1>3. F = FlattenSeq(pieces)
    BY <1>1, <1>2, Zenon DEF PseudoFields
  <1>4. ASSUME NEW i \in 1 .. n
        PROVE  /\ pieces[i] \in Seq(Field) /\ Len(pieces[i]) <= 1
               /\ \A v : Among(v, pieces[i]) <=> names[i] \in W /\ v = PseudoField(names[i])
    <2>1. PICK P : P = pieces[i]
      OBVIOUS
    <2>2. CASE names[i] \in W
      <3>1. PICK g \in Field : g = PseudoField(names[i])
        <4>1. names[i] \in Text
          BY <1>1
        <4>2. QED
          BY <4>1, PseudoFieldTyped
      <3>2. P = <<g>>
        BY <1>2, <2>1, <2>2, <3>1
      <3>3. P \in Seq(Field) /\ Len(P) = 1 /\ P[1] = g
        BY <3>2, OneIsSeq
      <3>4. \A v : Among(v, P) <=> v = g
        BY <3>3 DEF Among
      <3>5. QED
        BY <2>1, <2>2, <3>1, <3>3, <3>4
    <2>3. CASE names[i] \notin W
      <3>1. P = <<>>
        BY <1>2, <2>1, <2>3
      <3>2. P \in Seq(Field) /\ Len(P) = 0
        BY <3>1
      <3>3. \A v : ~ Among(v, P)
        BY <3>2 DEF Among
      <3>4. QED
        BY <2>1, <2>3, <3>2, <3>3
    <2>4. QED
      BY <2>2, <2>3
  <1>5. PICK ps : ps = pieces
    OBVIOUS
  <1>6. ps \in Seq(Seq(Field)) /\ Len(ps) = n
    <2>1. ps \in [1 .. n -> Seq(Field)]
      BY <1>2, <1>4, <1>5
    <2>2. QED
      BY <2>1, FunctionIsSeq, Zenon
  <1>7. PICK G : G = FlattenSeq(ps)
    OBVIOUS
  <1>8. F = G
    BY <1>3, <1>5, <1>7
  <1>9. G \in Seq(Field)
    BY <1>6, <1>7, FlattenTyped, Zenon
  <1>10. ASSUME NEW v, Among(v, G)
         PROVE  \E i \in 1 .. n : names[i] \in W /\ v = PseudoField(names[i])
    <2>1. PICK j \in 1 .. Len(ps) : Among(v, ps[j])
      BY <1>6, <1>7, <1>10, FlattenFrom, Zenon
    <2>2. j \in 1 .. n /\ Among(v, pieces[j])
      BY <1>5, <1>6, <2>1
    <2>3. QED
      BY <1>4, <2>2
  <1>11. ASSUME NEW i \in 1 .. n, names[i] \in W
         PROVE  Among(PseudoField(names[i]), G)
    <2>1. i \in 1 .. Len(ps) /\ Among(PseudoField(names[i]), ps[i])
      BY <1>4, <1>5, <1>6, <1>11
    <2>2. QED
      BY <1>6, <1>7, <2>1, FlattenHas, Zenon
  <1>12. ASSUME NEW p, AtMostOnce(p, names)
         PROVE  Len(Keep(G, PseudoAs(p))) <= 1
    <2>1. PICK T : T = PseudoAs(p)
      OBVIOUS
    <2>2. PICK j \in Nat : \A i \in 1 .. n : names[i] = p => i = j
      <3>1. CASE \E i \in 1 .. n : names[i] = p
        <4>1. PICK i \in 1 .. n : names[i] = p
          BY <3>1
        <4>2. \A k \in 1 .. n : names[k] = p => k = i
          BY <1>1, <1>12, <4>1 DEF AtMostOnce
        <4>3. QED
          BY <4>2
      <3>2. CASE ~ \E i \in 1 .. n : names[i] = p
        BY <3>2
      <3>3. QED
        BY <3>1, <3>2
    <2>3. ASSUME NEW i \in 1 .. Len(ps), i # j
          PROVE  Keep(ps[i], T) = <<>>
      <3>1. PICK Q \in Seq(Field) : Q = ps[i]
        BY <1>6
      <3>2. i \in 1 .. n /\ names[i] # p /\ names[i] \in Text
        BY <1>1, <1>6, <2>2, <2>3
      <3>3. ASSUME NEW y \in 1 .. Len(Q)
            PROVE  Q[y] \notin T
        <4>1. Among(Q[y], pieces[i])
          BY <1>5, <3>1 DEF Among
        <4>2. Q[y] = PseudoField(names[i])
          BY <1>4, <3>2, <4>1
        <4>3. Q[y].name = names[i]
          BY <3>2, <4>2, PseudoFieldTyped
        <4>4. QED
          BY <2>1, <3>2, <4>3 DEF PseudoAs
      <3>4. Keep(Q, T) = <<>>
        BY <3>3, KeepNone
      <3>5. QED
        BY <3>1, <3>4
    <2>4. Keep(FlattenSeq(ps), T) = IF j \in 1 .. Len(ps) THEN Keep(ps[j], T) ELSE <<>>
      BY <1>6, <2>3, KeepFlatten
    <2>5. CASE j \in 1 .. Len(ps)
      <3>1. PICK Q \in Seq(Field) : Q = ps[j] /\ Len(Q) <= 1
        BY <1>4, <1>5, <1>6, <2>5
      <3>2. Len(Keep(Q, T)) <= 1
        BY <3>1, KeepFew
      <3>3. QED
        BY <1>7, <2>1, <2>4, <2>5, <3>1, <3>2
    <2>6. CASE j \notin 1 .. Len(ps)
      <3>1. Len(<<>>) = 0
        OBVIOUS
      <3>2. QED
        BY <1>7, <2>1, <2>4, <2>6, <3>1
    <2>7. QED
      BY <2>5, <2>6
  <1>13. QED
    BY <1>1, <1>8, <1>9, <1>10, <1>11, <1>12

\* The first d pieces are of length 1, and the others made of R.
FrontOf(seqs, d, R) ==
    /\ d <= Len(seqs)
    /\ \A i \in 1 .. d : Len(seqs[i]) = 1
    /\ \A i \in d + 1 .. Len(seqs) : \A y \in 1 .. Len(seqs[i]) : seqs[i][y] \in R

LEMMA FlattenFront ==
    ASSUME NEW S, NEW seqs \in Seq(Seq(S)), NEW d \in Nat \ {0}, NEW R,
           FrontOf(seqs, d, R), NEW F, F = FlattenSeq(seqs)
    PROVE  /\ F \in Seq(S) /\ Len(F) >= d
           /\ \A i \in 1 .. Len(F) : IF i <= d THEN F[i] = seqs[i][1] ELSE F[i] \in R
  <1>1. PICK n \in Nat : n = Len(seqs)
    OBVIOUS
  <1>2. n # 0 /\ d <= n
    BY <1>1 DEF FrontOf
  <1>3. PICK f : Builds(f, seqs, n) /\ F = f[n]
    BY <1>1, <1>2, FlattenBuilt
  <1>4. \A i \in 1 .. n : seqs[i] \in Seq(S)
    BY <1>1
  <1>5. \A i \in 1 .. n : f[i] \in Seq(S)
    BY <1>3, <1>4, BuiltTyped, Zenon
  <1> DEFINE Placed(G, k) ==
                 /\ k <= d => Len(G) = k
                 /\ k > d => Len(G) >= d
                 /\ \A i \in 1 .. Len(G) : IF i <= d THEN G[i] = seqs[i][1] ELSE G[i] \in R
             P == {k \in Nat : k \in 1 .. n => Placed(f[k], k)}
  <1>6. 0 \in P
    OBVIOUS
  <1>7. ASSUME NEW k \in Nat, k \in P
        PROVE  k + 1 \in P
    <2>1. SUFFICES ASSUME k + 1 \in 1 .. n
                   PROVE  Placed(f[k + 1], k + 1)
      BY SMTT(30)
    <2>2. CASE k = 0
      <3>1. f[1] = seqs[1]
        BY <1>2, <1>3, <2>1, <2>2 DEF Builds
      <3>2. Len(seqs[1]) = 1 /\ 1 <= d /\ f[k + 1] = seqs[1]
        BY <2>2, <3>1 DEF FrontOf
      <3>3. QED
        BY <2>2, <3>2
    <2>3. CASE k # 0
      <3>1. k \in 1 .. n /\ k + 1 # 1 /\ (k + 1) - 1 = k
        BY <2>1, <2>3
      <3>2. PICK A \in Seq(S) : A = f[k]
        BY <1>5, <3>1
      <3>3. PICK B \in Seq(S) : B = seqs[k + 1]
        BY <1>4, <2>1
      <3>4. PICK C : C = f[k + 1] /\ C = A \o B
        BY <1>3, <2>1, <3>1, <3>2, <3>3 DEF Builds
      <3>5. PICK a \in Nat : a = Len(A)
        BY <3>2
      <3>6. PICK b \in Nat : b = Len(B)
        BY <3>3
      <3>7. /\ Len(C) = a + b
            /\ \A i \in 1 .. a : C[i] = A[i]
            /\ \A i \in a + 1 .. a + b : C[i] = B[i - a]
        <4>1. Together(A, B, C) /\ A \in Seq(S) /\ B \in Seq(S)
          BY <3>2, <3>3, <3>4 DEF Together
        <4>2. Len(C) = Len(A) + Len(B)
          BY <4>1, TogetherParts
        <4>3. \A i \in 1 .. Len(A) : C[i] = A[i]
          BY <4>1, TogetherParts
        <4>4. \A i \in Len(A) + 1 .. Len(A) + Len(B) : C[i] = B[i - Len(A)]
          BY <4>1, TogetherParts
        <4>5. QED
          BY <3>5, <3>6, <4>2, <4>3, <4>4
      <3>8. Placed(A, k)
        BY <1>7, <3>1, <3>2
      <3>9. CASE k + 1 <= d
        <4>1. a = k /\ b = 1 /\ k + 1 \in 1 .. d
          BY <1>2, <3>1, <3>3, <3>5, <3>6, <3>8, <3>9, SMTT(30) DEF FrontOf
        <4>2. ASSUME NEW i \in 1 .. a + b
              PROVE  i <= d /\ C[i] = seqs[i][1]
          <5>1. CASE i <= a
            <6>1. i \in 1 .. Len(A) /\ i <= d /\ C[i] = A[i]
              BY <3>5, <3>7, <3>9, <4>1, <5>1
            <6>2. QED
              BY <3>8, <6>1
          <5>2. CASE ~ (i <= a)
            <6>1. i = k + 1 /\ i - a = 1
              BY <4>1, <5>2
            <6>2. C[i] = B[1]
              BY <3>7, <4>1, <5>2, <6>1
            <6>3. QED
              BY <3>3, <3>9, <6>1, <6>2
          <5>3. QED
            BY <5>1, <5>2
        <4>3. Len(C) = k + 1 /\ \A i \in 1 .. Len(C) : i <= d /\ C[i] = seqs[i][1]
          BY <3>7, <4>1, <4>2
        <4>4. QED
          <5>1. /\ k + 1 > d => Len(C) >= d
                /\ \A i \in 1 .. Len(C) :
                      IF i <= d THEN C[i] = seqs[i][1] ELSE C[i] \in R
            BY <3>9, <4>3
          <5>2. QED
            BY <3>4, <4>3, <5>1
      <3>10. CASE ~ (k + 1 <= d)
        <4>1. a >= d
          BY <3>5, <3>8, <3>10
        <4>2. ASSUME NEW i \in 1 .. a + b
              PROVE  IF i <= d THEN C[i] = seqs[i][1] ELSE C[i] \in R
          <5>1. CASE i <= a
            <6>1. i \in 1 .. Len(A) /\ C[i] = A[i]
              BY <3>5, <3>7, <5>1
            <6>2. QED
              BY <3>8, <6>1
          <5>2. CASE ~ (i <= a)
            <6>1. i - a \in 1 .. b /\ ~ (i <= d) /\ C[i] = B[i - a]
              BY <3>7, <4>1, <5>2
            <6>2. k + 1 \in d + 1 .. Len(seqs)
              BY <1>1, <2>1, <3>10
            <6>3. B[i - a] \in R
              BY <3>3, <3>6, <6>1, <6>2 DEF FrontOf
            <6>4. QED
              BY <6>1, <6>3
          <5>3. QED
            BY <5>1, <5>2
        <4>3. Len(C) >= d /\ Len(C) = a + b
          BY <3>7, <4>1
        <4>4. \A i \in 1 .. Len(C) : IF i <= d THEN C[i] = seqs[i][1] ELSE C[i] \in R
          BY <4>2, <4>3
        <4>5. QED
          BY <3>4, <3>10, <4>3, <4>4
      <3>11. QED
        BY <3>9, <3>10
    <2>4. QED
      BY <2>2, <2>3
  <1>8. Nat \subseteq P
    <2> HIDE DEF P
    <2>1. QED
      BY <1>6, <1>7, Induction
  <1>9. n \in 1 .. n
    BY <1>2
  <1>10. Placed(F, n)
    BY <1>3, <1>8, <1>9
  <1>11. QED
    <2>1. F \in Seq(S)
      BY <1>3, <1>5, <1>9
    <2>2. Len(F) >= d
      BY <1>2, <1>10, <2>1
    <2>3. QED
      BY <1>10, <2>1, <2>2

\* What a header line becomes.
LEMMA LineShape ==
    ASSUME NEW q, TypedRequest(q), NEW line \in HeaderLine,
           NEW F, F = LineFields(q, line)
    PROVE  /\ F \in Seq(Field)
           /\ line.name \in PseudoNames => Len(F) = 1 /\ F[1] = PseudoField(line.name)
           /\ line.name \notin PseudoNames =>
                 /\ \A i \in 1 .. Len(F) : ~ F[i].pseudo /\ F[i].name = line.name
                 /\ line.name \in ForbiddenNames => F = <<>>
                 /\ Values(q, line.name) # <<>> => F = Fields(line.name, Values(q, line.name))
  <1>1. PICK n \in Text : n = line.name /\ line.value \in Text
    BY DEF HeaderLine
  <1>2. CASE n \in PseudoNames
    <2>1. PICK g \in Field : g = PseudoField(n)
      BY PseudoFieldTyped
    <2>2. F = <<g>>
      BY <1>1, <1>2, <2>1, Zenon DEF LineFields, PseudoNames
    <2>3. F \in Seq(Field) /\ Len(F) = 1 /\ F[1] = g
      BY <2>2, OneIsSeq
    <2>4. QED
      BY <1>1, <1>2, <2>1, <2>3
  <1>3. CASE n \notin PseudoNames
    <2>1. PICK vals \in Seq(Text) :
              /\ F = Fields(n, vals)
              /\ Values(q, n) # <<>> => vals = Values(q, n)
      <3>1. CASE Values(q, n) # <<>>
        <4>1. PICK vals : vals = Values(q, n)
          OBVIOUS
        <4>2. vals \in Seq(Text)
          <5>1. CASE n = "user-agent" /\ HasAgent(q)
            <6>1. q.headers[n] \in Seq(Text) \ {<<>>}
              BY <5>1 DEF TypedRequest, HasAgent
            <6>2. PICK a \in Text : a = Head(q.headers[n])
              BY <6>1
            <6>3. vals = <<a>>
              BY <4>1, <5>1, <6>2, Zenon DEF Values
            <6>4. QED
              BY <6>2, <6>3
          <5>2. CASE ~ (n = "user-agent" /\ HasAgent(q))
            <6>1. vals = IF n \in DOMAIN q.headers THEN q.headers[n] ELSE <<>>
              BY <4>1, <5>2 DEF Values
            <6>2. n \in DOMAIN q.headers /\ vals = q.headers[n]
              BY <3>1, <4>1, <6>1
            <6>3. QED
              BY <6>2 DEF TypedRequest
          <5>3. QED
            BY <5>1, <5>2
        <4>3. F = Fields(n, vals)
          BY <1>1, <1>3, <3>1, <4>1, Zenon DEF LineFields, PseudoNames
        <4>4. QED
          BY <4>1, <4>2, <4>3
      <3>2. CASE Values(q, n) = <<>>
        <4>1. F = Fields(n, <<line.value>>)
          BY <1>1, <1>3, <3>2, Zenon DEF LineFields, PseudoNames
        <4>2. <<line.value>> \in Seq(Text)
          BY <1>1
        <4>3. QED
          BY <3>2, <4>1, <4>2
      <3>3. QED
        BY <3>1, <3>2
    <2>2. /\ F \in Seq(Field)
          /\ \A i \in 1 .. Len(F) : ~ F[i].pseudo /\ F[i].name = n
          /\ n \in ForbiddenNames => F = <<>>
      BY <2>1, FieldsShape
    <2>3. QED
      BY <1>1, <1>3, <2>1, <2>2
  <1>4. QED
    BY <1>2, <1>3

\* The pieces the header lines make, one for each.
PiecesOf(pieces, q, lines, n) ==
    /\ pieces \in Seq(Seq(Field)) /\ Len(pieces) = n
    /\ \A i \in 1 .. n :
          /\ lines[i].name \in Text
          /\ lines[i].name \in PseudoNames =>
                Len(pieces[i]) = 1 /\ pieces[i][1] = PseudoField(lines[i].name)
          /\ lines[i].name \notin PseudoNames =>
                /\ \A y \in 1 .. Len(pieces[i]) :
                      ~ pieces[i][y].pseudo /\ pieces[i][y].name = lines[i].name
                /\ lines[i].name \in ForbiddenNames => pieces[i] = <<>>
                /\ Values(q, lines[i].name) # <<>> =>
                      pieces[i] = Fields(lines[i].name, Values(q, lines[i].name))

LEMMA LinePieces ==
    ASSUME NEW q, TypedRequest(q), NEW lines \in Seq(HeaderLine),
           NEW n \in Nat, n = Len(lines),
           NEW pieces, pieces = [i \in 1 .. n |-> LineFields(q, lines[i])]
    PROVE  PiecesOf(pieces, q, lines, n)
  <1> DEFINE Made(F, name) ==
                 /\ F \in Seq(Field)
                 /\ name \in Text
                 /\ name \in PseudoNames => Len(F) = 1 /\ F[1] = PseudoField(name)
                 /\ name \notin PseudoNames =>
                       /\ \A y \in 1 .. Len(F) : ~ F[y].pseudo /\ F[y].name = name
                       /\ name \in ForbiddenNames => F = <<>>
                       /\ Values(q, name) # <<>> => F = Fields(name, Values(q, name))
  <1>1. ASSUME NEW i \in 1 .. n
        PROVE  Made(pieces[i], lines[i].name)
    <2>1. PICK line \in HeaderLine : line = lines[i]
      OBVIOUS
    <2>2. PICK F : F = LineFields(q, line)
      OBVIOUS
    <2>3. pieces[i] = F
      BY <2>1, <2>2
    <2>4. line.name \in Text
      BY DEF HeaderLine
    <2>5. Made(F, line.name)
      BY <2>2, <2>4, LineShape, SMTT(30)
    <2> HIDE DEF Made
    <2>6. QED
      BY <2>1, <2>3, <2>5
  <1>2. pieces \in [1 .. n -> Seq(Field)]
    BY <1>1
  <1>3. PICK ps : ps = pieces
    OBVIOUS
  <1>4. ps \in Seq(Seq(Field)) /\ Len(ps) = n
    <2>1. ps \in [1 .. n -> Seq(Field)]
      BY <1>2, <1>3
    <2>2. QED
      BY <2>1, FunctionIsSeq, Zenon
  <1>5. PiecesOf(ps, q, lines, n)
    BY <1>1, <1>3, <1>4, ZenonT(60) DEF PiecesOf
  <1>6. QED
    BY <1>3, <1>5

\* The fields the header lines make: where each comes from.
LEMMA LinesFrom ==
    ASSUME NEW q, NEW lines, NEW n \in Nat, NEW pieces, PiecesOf(pieces, q, lines, n),
           NEW v, Among(v, FlattenSeq(pieces))
    PROVE  \E i \in 1 .. n :
              IF lines[i].name \in PseudoNames THEN v = PseudoField(lines[i].name)
              ELSE /\ ~ v.pseudo /\ v.name = lines[i].name
                   /\ v.name \notin ForbiddenNames
                   /\ Values(q, v.name) # <<>> => Among(v, Fields(v.name, Values(q, v.name)))
  <1>1. pieces \in Seq(Seq(Field)) /\ Len(pieces) = n
    BY DEF PiecesOf
  <1>2. PICK i \in 1 .. n : Among(v, pieces[i])
    BY <1>1, FlattenFrom
  <1>3. PICK y \in 1 .. Len(pieces[i]) : v = pieces[i][y]
    BY <1>2 DEF Among
  <1>4. CASE lines[i].name \in PseudoNames
    <2>1. Len(pieces[i]) = 1 /\ pieces[i][1] = PseudoField(lines[i].name)
      BY <1>4 DEF PiecesOf
    <2>2. v = PseudoField(lines[i].name)
      BY <1>3, <2>1
    <2>3. QED
      BY <1>4, <2>2
  <1>5. CASE lines[i].name \notin PseudoNames
    <2>1. ~ v.pseudo /\ v.name = lines[i].name
      BY <1>3, <1>5 DEF PiecesOf
    <2>2. v.name \notin ForbiddenNames
      <3>1. SUFFICES ASSUME v.name \in ForbiddenNames PROVE FALSE
        OBVIOUS
      <3>2. pieces[i] = <<>>
        BY <1>5, <2>1, <3>1 DEF PiecesOf
      <3>3. Len(pieces[i]) = 0
        BY <3>2
      <3>4. QED
        BY <1>3, <3>3
    <2>3. Values(q, v.name) # <<>> => Among(v, Fields(v.name, Values(q, v.name)))
      <3>1. SUFFICES ASSUME Values(q, v.name) # <<>>
                     PROVE  Among(v, Fields(v.name, Values(q, v.name)))
        OBVIOUS
      <3>2. pieces[i] = Fields(v.name, Values(q, v.name))
        BY <1>5, <2>1, <3>1 DEF PiecesOf
      <3>3. QED
        BY <1>2, <3>2
    <2>4. QED
      BY <1>5, <2>1, <2>2, <2>3
  <1>6. QED
    BY <1>4, <1>5

\* ... and which there are.
LEMMA LinesHave ==
    ASSUME NEW q, NEW lines, NEW n \in Nat, NEW pieces, PiecesOf(pieces, q, lines, n),
           NEW i \in 1 .. n
    PROVE  /\ lines[i].name \in PseudoNames =>
                 Among(PseudoField(lines[i].name), FlattenSeq(pieces))
           /\ lines[i].name \notin PseudoNames /\ Values(q, lines[i].name) # <<>> =>
                 \A v : Among(v, Fields(lines[i].name, Values(q, lines[i].name)))
                           => Among(v, FlattenSeq(pieces))
  <1>1. pieces \in Seq(Seq(Field)) /\ Len(pieces) = n
    BY DEF PiecesOf
  <1>2. \A v : Among(v, pieces[i]) => Among(v, FlattenSeq(pieces))
    BY <1>1, FlattenHas
  <1>3. ASSUME lines[i].name \in PseudoNames
        PROVE  Among(PseudoField(lines[i].name), pieces[i])
    <2>1. Len(pieces[i]) = 1 /\ pieces[i][1] = PseudoField(lines[i].name)
      BY <1>3 DEF PiecesOf
    <2>2. 1 \in 1 .. Len(pieces[i])
      BY <2>1
    <2>3. QED
      BY <2>1, <2>2 DEF Among
  <1>4. ASSUME lines[i].name \notin PseudoNames, Values(q, lines[i].name) # <<>>
        PROVE  pieces[i] = Fields(lines[i].name, Values(q, lines[i].name))
    BY <1>4 DEF PiecesOf
  <1>5. QED
    BY <1>2, <1>3, <1>4

LEMMA OtherLines ==
    ASSUME NEW q, NEW lines, NEW n \in Nat, NEW pieces, PiecesOf(pieces, q, lines, n),
           NEW i \in 1 .. n, NEW name, lines[i].name # name
    PROVE  /\ Keep(pieces[i], PseudoAs(name)) = <<>>
           /\ Keep(pieces[i], NamedAs(name)) = <<>>
  <1>1. PICK Q \in Seq(Field) : Q = pieces[i]
    BY DEF PiecesOf
  <1>2. ASSUME NEW y \in 1 .. Len(Q)
        PROVE  Q[y].name = lines[i].name
    <2>1. CASE lines[i].name \in PseudoNames
      <3>1. Len(Q) = 1 /\ Q[1] = PseudoField(lines[i].name)
        BY <1>1, <2>1 DEF PiecesOf
      <3>2. Q[y] = PseudoField(lines[i].name)
        BY <3>1
      <3>3. QED
        BY <3>2 DEF PseudoField
    <2>2. CASE lines[i].name \notin PseudoNames
      BY <1>1, <2>2 DEF PiecesOf
    <2>3. QED
      BY <2>1, <2>2
  <1>3. \A y \in 1 .. Len(Q) : Q[y] \notin PseudoAs(name) /\ Q[y] \notin NamedAs(name)
    BY <1>2 DEF PseudoAs, NamedAs
  <1>4. Keep(Q, PseudoAs(name)) = <<>>
    BY <1>3, KeepNone
  <1>5. Keep(Q, NamedAs(name)) = <<>>
    BY <1>3, KeepNone
  <1>6. QED
    BY <1>1, <1>4, <1>5

\* A name on at most one header line is sent for that line alone.
OneLine(lines, n, name) ==
    \A i, j \in 1 .. n : lines[i].name = name /\ lines[j].name = name => i = j

SentOnce(pieces, lines, n, name) ==
    /\ Len(Keep(FlattenSeq(pieces), PseudoAs(name))) <= 1
    /\ \A i \in 1 .. n :
          lines[i].name = name =>
             Keep(FlattenSeq(pieces), NamedAs(name)) = Keep(pieces[i], NamedAs(name))

LEMMA LinesOnce ==
    ASSUME NEW q, NEW lines, NEW n \in Nat, NEW pieces, PiecesOf(pieces, q, lines, n),
           NEW name, OneLine(lines, n, name)
    PROVE  SentOnce(pieces, lines, n, name)
  <1>1. pieces \in Seq(Seq(Field)) /\ Len(pieces) = n
    BY DEF PiecesOf
  <1>2. \A i \in 1 .. n : lines[i].name # name =>
              /\ Keep(pieces[i], PseudoAs(name)) = <<>>
              /\ Keep(pieces[i], NamedAs(name)) = <<>>
    <2>1. TAKE i \in 1 .. n
    <2>2. SUFFICES ASSUME lines[i].name # name
                   PROVE  /\ Keep(pieces[i], PseudoAs(name)) = <<>>
                          /\ Keep(pieces[i], NamedAs(name)) = <<>>
      OBVIOUS
    <2>3. QED
      BY <2>2, OtherLines
  <1>3. PICK T : T = PseudoAs(name)
    OBVIOUS
  <1>4. PICK U : U = NamedAs(name)
    OBVIOUS
  <1>5. CASE \E j \in 1 .. n : lines[j].name = name
    <2>1. PICK j \in 1 .. n : lines[j].name = name
      BY <1>5
    <2>2. j \in Nat /\ j \in 1 .. Len(pieces)
      BY <1>1
    <2>3. \A i \in 1 .. Len(pieces) : i # j =>
              Keep(pieces[i], T) = <<>> /\ Keep(pieces[i], U) = <<>>
      BY <1>1, <1>2, <1>3, <1>4, <2>1 DEF OneLine
    <2>4. Keep(FlattenSeq(pieces), T) = Keep(pieces[j], T)
      <3>1. Keep(FlattenSeq(pieces), T) = IF j \in 1 .. Len(pieces) THEN Keep(pieces[j], T) ELSE <<>>
        BY <1>1, <2>2, <2>3, KeepFlatten
      <3>2. QED
        BY <2>2, <3>1
    <2>5. Keep(FlattenSeq(pieces), U) = Keep(pieces[j], U)
      <3>1. Keep(FlattenSeq(pieces), U) = IF j \in 1 .. Len(pieces) THEN Keep(pieces[j], U) ELSE <<>>
        BY <1>1, <2>2, <2>3, KeepFlatten
      <3>2. QED
        BY <2>2, <3>1
    <2>6. Len(Keep(pieces[j], T)) <= 1
      <3>1. PICK Q \in Seq(Field) : Q = pieces[j]
        BY <1>1
      <3>2. CASE name \in PseudoNames
        <4>1. Len(Q) = 1
          BY <2>1, <3>1, <3>2 DEF PiecesOf
        <4>2. Len(Q) <= 1
          BY <4>1
        <4>3. Len(Keep(Q, T)) <= 1
          BY <4>2, KeepFew
        <4>4. QED
          BY <3>1, <4>3
      <3>3. CASE name \notin PseudoNames
        <4>1. \A y \in 1 .. Len(Q) : ~ Q[y].pseudo
          BY <2>1, <3>1, <3>3 DEF PiecesOf
        <4>2. \A y \in 1 .. Len(Q) : Q[y] \notin T
          BY <1>3, <4>1 DEF PseudoAs
        <4>3. Keep(Q, T) = <<>>
          BY <4>2, KeepNone
        <4>4. Len(<<>>) = 0
          OBVIOUS
        <4>5. QED
          BY <3>1, <4>3, <4>4
      <3>4. QED
        BY <3>2, <3>3
    <2>7. \A i \in 1 .. n : lines[i].name = name => i = j
      BY <2>1 DEF OneLine
    <2>8. QED
      BY <1>3, <1>4, <2>4, <2>5, <2>6, <2>7 DEF SentOnce
  <1>6. CASE ~ \E j \in 1 .. n : lines[j].name = name
    <2>1. \A i \in 1 .. Len(pieces) : i # 0 => Keep(pieces[i], T) = <<>>
      BY <1>1, <1>2, <1>3, <1>6
    <2>2. 0 \in Nat /\ 0 \notin 1 .. Len(pieces)
      BY <1>1
    <2>3. Keep(FlattenSeq(pieces), T) = IF 0 \in 1 .. Len(pieces) THEN Keep(pieces[0], T) ELSE <<>>
      BY <1>1, <2>1, <2>2, KeepFlatten
    <2>4. Len(<<>>) = 0
      OBVIOUS
    <2>5. QED
      BY <1>3, <1>6, <2>2, <2>3, <2>4 DEF SentOnce
  <1>7. QED
    BY <1>5, <1>6

\* Header lines that have the pseudo headers in front put them in front.
LEMMA LinesFront ==
    ASSUME NEW q, NEW lines, NEW n \in Nat, NEW pieces, PiecesOf(pieces, q, lines, n),
           NEW d \in 1 .. n,
           \A i \in 1 .. n : lines[i].name \in PseudoNames <=> i <= d,
           NEW F, F = FlattenSeq(pieces)
    PROVE  \A i, j \in 1 .. Len(F) : i < j /\ F[j].pseudo => F[i].pseudo
  <1>1. pieces \in Seq(Seq(Field)) /\ Len(pieces) = n
    BY DEF PiecesOf
  <1>2. PICK R : R = {g \in Field : ~ g.pseudo}
    OBVIOUS
  <1>3. FrontOf(pieces, d, R)
    <2>1. ASSUME NEW i \in d + 1 .. n, NEW y \in 1 .. Len(pieces[i])
          PROVE  pieces[i][y] \in R
      <3>1. i \in 1 .. n /\ ~ (i <= d)
        BY <2>1
      <3>2. lines[i].name \notin PseudoNames
        BY <3>1
      <3>3. pieces[i] \in Seq(Field)
        BY <1>1, <3>1
      <3>4. ~ pieces[i][y].pseudo
        BY <2>1, <3>1, <3>2 DEF PiecesOf
      <3>5. pieces[i][y] \in Field
        BY <2>1, <3>3
      <3>6. QED
        BY <1>2, <3>4, <3>5
    <2>2. ASSUME NEW i \in 1 .. d
          PROVE  Len(pieces[i]) = 1
      <3>1. i \in 1 .. n /\ i <= d
        OBVIOUS
      <3>2. QED
        BY <3>1 DEF PiecesOf
    <2>3. d <= Len(pieces)
      BY <1>1
    <2>4. QED
      BY <1>1, <2>1, <2>2, <2>3 DEF FrontOf
  <1>4. d \in Nat \ {0}
    OBVIOUS
  <1>5. /\ F \in Seq(Field) /\ Len(F) >= d
        /\ \A i \in 1 .. Len(F) : IF i <= d THEN F[i] = pieces[i][1] ELSE F[i] \in R
    BY <1>1, <1>3, <1>4, FlattenFront
  <1>6. ASSUME NEW i \in 1 .. d
        PROVE  pieces[i][1].pseudo
    <2>1. i \in 1 .. n /\ lines[i].name \in PseudoNames
      BY <1>6
    <2>2. pieces[i][1] = PseudoField(lines[i].name)
      BY <2>1 DEF PiecesOf
    <2>3. QED
      BY <2>2 DEF PseudoField
  <1>7. ASSUME NEW i \in 1 .. Len(F), NEW j \in 1 .. Len(F), i < j, F[j].pseudo
        PROVE  F[i].pseudo
    <2>1. j <= d
      BY <1>2, <1>5, <1>7
    <2>2. i \in 1 .. d /\ F[i] = pieces[i][1]
      BY <1>5, <1>7, <2>1
    <2>3. QED
      BY <1>6, <2>2
  <1>8. QED
    BY <1>7

\* What leads: the fields of the pseudo headers and of the header lines.
Led(L, q, f) ==
    /\ L \in Seq(Field)
    /\ \A p \in PseudoNames :
          f.http2.lines # <<>> \/ p \in ToSet(Listed(f)) => Among(PseudoField(p), L)
    /\ \A p \in PseudoNames : AtMostOnce(p, Listed(f)) => Len(Keep(L, PseudoAs(p))) <= 1
    /\ Orderly(f) => \A i, j \in 1 .. Len(L) : i < j /\ L[j].pseudo => L[i].pseudo
    /\ \A v : Among(v, L) /\ ~ v.pseudo =>
          /\ v.name \in ToSet(LineNames(f)) \ PseudoNames
          /\ v.name \notin ForbiddenNames
          /\ Values(q, v.name) # <<>> => Among(v, Fields(v.name, Values(q, v.name)))
    /\ \A n \in ToSet(LineNames(f)) \ PseudoNames : Values(q, n) # <<>> =>
          /\ \A v : Among(v, Fields(n, Values(q, n))) => Among(v, L)
          /\ AtMostOnce(n, LineNames(f)) =>
                Keep(L, NamedAs(n)) = Keep(Fields(n, Values(q, n)), NamedAs(n))

\* Without header lines.
LEMMA OrderLed ==
    ASSUME NEW q, NEW f, TypedFingerprint(f), f.http2.lines = <<>>
    PROVE  Led(LeadingFields(q, f), q, f)
  <1>1. PICK order : order = PseudoOrder(f)
    OBVIOUS
  <1>2. order \in Seq(Text)
    BY <1>1, PseudoTyped DEF PseudoOrder, TypedFingerprint
  <1>3. PICK L : L = PseudoFields(order, PseudoNames)
    OBVIOUS
  <1>4. L = LeadingFields(q, f)
    BY <1>1, <1>3, Zenon DEF LeadingFields, PseudoNames
  <1>5. Listed(f) = order
    BY <1>1, Zenon DEF Listed
  <1>6. ToSet(LineNames(f)) = {}
    <2>1. PICK lines \in Seq(HeaderLine) : lines = f.http2.lines /\ lines = <<>>
      BY DEF TypedFingerprint
    <2>2. DOMAIN lines = {}
      BY <2>1
    <2>3. DOMAIN LineNames(f) = {}
      BY <2>1, <2>2 DEF LineNames
    <2>4. QED
      BY <2>3 DEF ToSet
  <1>7. L \in Seq(Field)
    BY <1>2, <1>3, PseudoShape
  <1>8. ASSUME NEW v, Among(v, L)
        PROVE  v.pseudo
    <2>1. PICK i \in 1 .. Len(order) : v = PseudoField(order[i])
      BY <1>2, <1>3, <1>8, PseudoShape
    <2>2. QED
      BY <2>1 DEF PseudoField
  <1>9. ASSUME NEW p \in PseudoNames, p \in ToSet(order)
        PROVE  Among(PseudoField(p), L)
    <2>1. PICK i \in 1 .. Len(order) : order[i] = p
      BY <1>2, <1>9 DEF ToSet
    <2>2. QED
      BY <1>2, <1>3, <1>9, <2>1, PseudoShape
  <1>10. \A p : AtMostOnce(p, order) => Len(Keep(L, PseudoAs(p))) <= 1
    BY <1>2, <1>3, PseudoShape
  <1>11. \A i, j \in 1 .. Len(L) : i < j /\ L[j].pseudo => L[i].pseudo
    <2>1. \A i \in 1 .. Len(L) : Among(L[i], L)
      BY DEF Among
    <2>2. QED
      BY <1>8, <2>1
  <1>12. Led(L, q, f)
    BY <1>5, <1>6, <1>7, <1>8, <1>9, <1>10, <1>11 DEF Led
  <1>13. QED
    BY <1>4, <1>12

\* With header lines.
LEMMA LinesLed ==
    ASSUME NEW q, TypedRequest(q), NEW f, TypedFingerprint(f), f.http2.lines # <<>>
    PROVE  Led(LeadingFields(q, f), q, f)
  <1>1. PICK lines \in Seq(HeaderLine) : lines = f.http2.lines
    BY DEF TypedFingerprint
  <1>2. PICK n \in Nat : n = Len(lines) /\ DOMAIN lines = 1 .. n
    BY <1>1
  <1>3. PICK pieces : pieces = [i \in 1 .. n |-> LineFields(q, lines[i])]
    OBVIOUS
  <1>4. PiecesOf(pieces, q, lines, n)
    BY <1>1, <1>2, <1>3, LinePieces
  <1>5. PICK F \in Seq(Field) : F = FlattenSeq(pieces)
    <2>1. pieces \in Seq(Seq(Field))
      BY <1>4 DEF PiecesOf
    <2>2. QED
      BY <2>1, FlattenTyped
  <1>6. PICK named : named = {F[i].name : i \in {j \in DOMAIN F : F[j].pseudo}}
    OBVIOUS
  <1>7. PICK M : M = PseudoFields(Pseudo, PseudoNames \ named)
    OBVIOUS
  <1>8. PICK L : L = F \o M
    OBVIOUS
  <1>9. L = LeadingFields(q, f)
    <2>1. F = FlattenSeq([i \in DOMAIN f.http2.lines |-> LineFields(q, f.http2.lines[i])])
      BY <1>1, <1>2, <1>3, <1>5, Zenon
    <2>2. QED
      BY <1>6, <1>7, <1>8, <2>1, Zenon DEF LeadingFields, PseudoNames
  <1>10. PICK names : names = LineNames(f) /\ names = [i \in 1 .. n |-> lines[i].name]
    BY <1>1, <1>2 DEF LineNames
  <1>11. Listed(f) = names
    BY <1>10, Zenon DEF Listed
  <1>12. /\ \A i \in 1 .. n : lines[i].name \in ToSet(names)
         /\ \A x \in ToSet(names) : \E i \in 1 .. n : lines[i].name = x
         /\ \A x : AtMostOnce(x, names) =>
               \A i, j \in 1 .. n : lines[i].name = x /\ lines[j].name = x => i = j
    BY <1>10 DEF ToSet, AtMostOnce
  <1>13. /\ M \in Seq(Field)
         /\ \A v : Among(v, M) => \E p \in PseudoNames \ named : v = PseudoField(p)
         /\ \A p \in PseudoNames \ named : Among(PseudoField(p), M)
         /\ \A p : Len(Keep(M, PseudoAs(p))) <= 1
    <2>1. PICK P \in Seq(Text) : P = Pseudo
      BY PseudoTyped
    <2>2. /\ M \in Seq(Field)
          /\ \A v : Among(v, M) =>
                \E i \in 1 .. Len(P) : P[i] \in PseudoNames \ named /\ v = PseudoField(P[i])
          /\ \A i \in 1 .. Len(P) :
                P[i] \in PseudoNames \ named => Among(PseudoField(P[i]), M)
          /\ \A p : AtMostOnce(p, P) => Len(Keep(M, PseudoAs(p))) <= 1
      <3>1. PICK W : W = PseudoNames \ named
        OBVIOUS
      <3>2. M = PseudoFields(P, W)
        BY <1>7, <2>1, <3>1
      <3>3. /\ M \in Seq(Field)
            /\ \A v : Among(v, M) =>
                  \E i \in 1 .. Len(P) : P[i] \in W /\ v = PseudoField(P[i])
            /\ \A i \in 1 .. Len(P) : P[i] \in W => Among(PseudoField(P[i]), M)
            /\ \A p : AtMostOnce(p, P) => Len(Keep(M, PseudoAs(p))) <= 1
        BY <3>2, PseudoShape
      <3>4. QED
        BY <3>1, <3>3
    <2>3. \A p \in PseudoNames : \E i \in 1 .. Len(P) : P[i] = p
      BY <2>1 DEF PseudoNames, ToSet
    <2>4. \A p : AtMostOnce(p, P)
      BY <2>1, PseudoTyped
    <2>5. QED
      BY <2>2, <2>3, <2>4
  <1>14. Together(F, M, L) /\ L \in Seq(Field)
    <2>1. Together(F, M, L)
      BY <1>8 DEF Together
    <2>2. QED
      BY <1>13, <2>1, TogetherParts
  <1>15. \A v : Among(v, L) <=> Among(v, F) \/ Among(v, M)
    <2>1. TAKE v
    <2>2. Among(v, L) => Among(v, F) \/ Among(v, M)
      BY <1>13, <1>14, ConcatElement
    <2>3. Among(v, F) \/ Among(v, M) => Among(v, L)
      BY <1>13, <1>14, ConcatHas
    <2>4. QED
      BY <2>2, <2>3
  <1>16. ASSUME NEW p \in PseudoNames
         PROVE  Among(PseudoField(p), L)
    <2>1. CASE p \in named
      <3>1. PICK i \in 1 .. Len(F) : F[i].pseudo /\ F[i].name = p
        BY <1>5, <1>6, <2>1
      <3>2. Among(F[i], F)
        BY DEF Among
      <3>3. PICK k \in 1 .. n :
                IF lines[k].name \in PseudoNames THEN F[i] = PseudoField(lines[k].name)
                ELSE ~ F[i].pseudo
        BY <1>4, <1>5, <3>2, LinesFrom
      <3>4. F[i] = PseudoField(lines[k].name) /\ F[i].name = lines[k].name
        BY <3>1, <3>3 DEF PseudoField
      <3>5. F[i] = PseudoField(p)
        BY <3>1, <3>4
      <3>6. QED
        BY <1>15, <3>2, <3>5
    <2>2. CASE p \notin named
      BY <1>13, <1>15, <2>2
    <2>3. QED
      BY <2>1, <2>2
  <1>17. ASSUME NEW p \in PseudoNames, AtMostOnce(p, names)
         PROVE  Len(Keep(L, PseudoAs(p))) <= 1
    <2>1. PICK T : T = PseudoAs(p)
      OBVIOUS
    <2>2. /\ Keep(F, T) \in Seq(Field) /\ Keep(M, T) \in Seq(Field)
          /\ Together(Keep(F, T), Keep(M, T), Keep(L, T))
      BY <1>13, <1>14, KeepConcat
    <2>3. Len(Keep(L, T)) = Len(Keep(F, T)) + Len(Keep(M, T))
      BY <2>2, TogetherParts
    <2>4. Len(Keep(F, T)) <= 1
      <3>1. OneLine(lines, n, p)
        BY <1>12, <1>17 DEF OneLine
      <3>2. SentOnce(pieces, lines, n, p)
        BY <1>4, <3>1, LinesOnce, Zenon
      <3>3. QED
        BY <1>5, <2>1, <3>2 DEF SentOnce
    <2>5. Len(Keep(M, T)) <= 1
      BY <1>13, <2>1
    <2>6. Len(<<>>) = 0
      OBVIOUS
    <2>7. CASE p \in named
      <3>1. ASSUME NEW i \in 1 .. Len(M)
            PROVE  M[i] \notin T
        <4>1. Among(M[i], M)
          BY DEF Among
        <4>2. PICK x \in PseudoNames \ named : M[i] = PseudoField(x)
          BY <1>13, <4>1
        <4>3. M[i].name = x
          BY <4>2 DEF PseudoField
        <4>4. QED
          BY <2>1, <2>7, <4>3 DEF PseudoAs
      <3>2. Keep(M, T) = <<>>
        BY <1>13, <3>1, KeepNone
      <3>3. QED
        BY <2>1, <2>2, <2>3, <2>4, <2>6, <3>2
    <2>8. CASE p \notin named
      <3>1. \A i \in 1 .. Len(F) : F[i] \notin T
        BY <1>5, <1>6, <2>1, <2>8 DEF PseudoAs
      <3>2. Keep(F, T) = <<>>
        BY <3>1, KeepNone
      <3>3. QED
        BY <2>1, <2>2, <2>3, <2>5, <2>6, <3>2
    <2>9. QED
      BY <2>7, <2>8
  <1>18. ASSUME Orderly(f)
         PROVE  \A i, j \in 1 .. Len(L) : i < j /\ L[j].pseudo => L[i].pseudo
    <2>1. /\ PseudoNames \subseteq ToSet(names)
          /\ \E d \in 1 .. n : \A i \in 1 .. n : lines[i].name \in PseudoNames <=> i <= d
      BY <1>1, <1>2, <1>10, <1>18, Zenon DEF Orderly, PseudoNames
    <2>2. PICK d \in 1 .. n : \A i \in 1 .. n : lines[i].name \in PseudoNames <=> i <= d
      BY <2>1
    <2>3. \A i, j \in 1 .. Len(F) : i < j /\ F[j].pseudo => F[i].pseudo
      BY <1>4, <1>5, <2>2, LinesFront
    <2>4. PseudoNames \subseteq named
      <3>1. SUFFICES ASSUME NEW p \in PseudoNames PROVE p \in named
        OBVIOUS
      <3>2. PICK k \in 1 .. n : lines[k].name = p
        BY <1>12, <2>1, <3>1
      <3>3. Among(PseudoField(p), F)
        BY <1>4, <1>5, <3>1, <3>2, LinesHave
      <3>4. PICK i \in 1 .. Len(F) : PseudoField(p) = F[i]
        BY <3>3 DEF Among
      <3>5. F[i].pseudo /\ F[i].name = p /\ i \in DOMAIN F
        BY <1>5, <3>4 DEF PseudoField
      <3>6. QED
        BY <1>6, <3>5
    <2>5. \A i \in 1 .. Len(M) : FALSE
      <3>1. SUFFICES ASSUME NEW i \in 1 .. Len(M) PROVE FALSE
        OBVIOUS
      <3>2. Among(M[i], M)
        BY DEF Among
      <3>3. QED
        BY <1>13, <2>4, <3>2
    <2>6. Len(M) = 0
      BY <1>13, <2>5
    <2>7. L = F
      <3>1. M = <<>>
        BY <1>13, <2>6, EmptySeq
      <3>2. QED
        BY <1>8, <3>1, ConcatEmptySeq
    <2>8. QED
      BY <2>3, <2>7
  <1>19. ASSUME NEW v, Among(v, L), ~ v.pseudo
         PROVE  /\ v.name \in ToSet(names) \ PseudoNames
                /\ v.name \notin ForbiddenNames
                /\ Values(q, v.name) # <<>> => Among(v, Fields(v.name, Values(q, v.name)))
    <2>1. Among(v, F)
      <3>1. SUFFICES ASSUME Among(v, M) PROVE FALSE
        BY <1>15, <1>19
      <3>2. PICK p : v = PseudoField(p)
        BY <1>13, <3>1
      <3>3. QED
        BY <1>19, <3>2 DEF PseudoField
    <2>2. PICK i \in 1 .. n :
              IF lines[i].name \in PseudoNames THEN v = PseudoField(lines[i].name)
              ELSE /\ ~ v.pseudo /\ v.name = lines[i].name
                   /\ v.name \notin ForbiddenNames
                   /\ Values(q, v.name) # <<>> => Among(v, Fields(v.name, Values(q, v.name)))
      BY <1>4, <1>5, <2>1, LinesFrom
    <2>3. lines[i].name \notin PseudoNames
      BY <1>19, <2>2 DEF PseudoField
    <2>4. QED
      BY <1>12, <2>2, <2>3
  <1>20. ASSUME NEW name \in ToSet(names) \ PseudoNames, Values(q, name) # <<>>
         PROVE  /\ \A v : Among(v, Fields(name, Values(q, name))) => Among(v, L)
                /\ AtMostOnce(name, names) =>
                      Keep(L, NamedAs(name)) = Keep(Fields(name, Values(q, name)), NamedAs(name))
    <2>1. PICK i \in 1 .. n : lines[i].name = name
      BY <1>12
    <2>2. \A v : Among(v, Fields(name, Values(q, name))) => Among(v, F)
      BY <1>4, <1>5, <1>20, <2>1, LinesHave
    <2>3. ASSUME AtMostOnce(name, names)
          PROVE  Keep(L, NamedAs(name)) = Keep(Fields(name, Values(q, name)), NamedAs(name))
      <3>1. PICK T : T = NamedAs(name)
        OBVIOUS
      <3>2. /\ Keep(F, T) \in Seq(Field) /\ Keep(M, T) \in Seq(Field)
            /\ Together(Keep(F, T), Keep(M, T), Keep(L, T))
        BY <1>13, <1>14, KeepConcat
      <3>3. Keep(F, T) = Keep(pieces[i], T)
        <4>1. OneLine(lines, n, name)
          BY <1>12, <2>3 DEF OneLine
        <4>2. SentOnce(pieces, lines, n, name)
          BY <1>4, <4>1, LinesOnce, Zenon
        <4>3. QED
          BY <1>5, <2>1, <3>1, <4>2 DEF SentOnce
      <3>4. pieces[i] = Fields(name, Values(q, name))
        BY <1>4, <1>20, <2>1 DEF PiecesOf
      <3>5. ASSUME NEW y \in 1 .. Len(M)
            PROVE  M[y] \notin T
        <4>1. Among(M[y], M)
          BY DEF Among
        <4>2. PICK x : M[y] = PseudoField(x)
          BY <1>13, <4>1
        <4>3. QED
          BY <3>1, <4>2 DEF PseudoField, NamedAs
      <3>6. Keep(M, T) = <<>>
        BY <1>13, <3>5, KeepNone
      <3>7. Keep(L, T) = Keep(F, T)
        BY <3>2, <3>6, ConcatEmptySeq DEF Together
      <3>8. QED
        BY <3>1, <3>3, <3>4, <3>7
    <2>4. QED
      BY <1>15, <2>2, <2>3
  <1>21. Led(L, q, f)
    BY <1>10, <1>11, <1>14, <1>16, <1>17, <1>18, <1>19, <1>20, Zenon DEF Led
  <1>22. QED
    BY <1>9, <1>21

\* What is found of a name in the fields made of another, and of the same.
LEMMA OtherNames ==
    ASSUME NEW F \in Seq(Field), NEW n, \A i \in 1 .. Len(F) : F[i].pseudo \/ F[i].name # n
    PROVE  Keep(F, NamedAs(n)) = <<>>
  <1>1. \A i \in 1 .. Len(F) : F[i] \notin NamedAs(n)
    BY DEF NamedAs
  <1>2. QED
    BY <1>1, KeepNone

LEMMA SameName ==
    ASSUME NEW n \in Text, NEW values \in Seq(Text), NEW F, F = Fields(n, values)
    PROVE  Keep(F, NamedAs(n)) = F
  <1>1. F \in Seq(Field) /\ \A i \in 1 .. Len(F) : ~ F[i].pseudo /\ F[i].name = n
    BY FieldsShape
  <1>2. \A i \in 1 .. Len(F) : F[i] \in NamedAs(n)
    BY <1>1 DEF NamedAs
  <1>3. QED
    BY <1>1, <1>2, KeepAll

\* A finite set as a sequence has all of it, once.
Enumerates(s, n, S) ==
    /\ s \in [1 .. n -> S]
    /\ \A i, j \in 1 .. n : i # j => s[i] # s[j]
    /\ \A v \in S : \E i \in 1 .. n : s[i] = v

LEMMA SetAsSeq ==
    ASSUME NEW S, IsFiniteSet(S), NEW s, s = SetToSeq(S)
    PROVE  \E n \in Nat : Enumerates(s, n, S)
  <1>1. PICK n \in Nat : n = Cardinality(S) /\ ExistsBijection(1 .. n, S)
    BY FS_CardinalityType
  <1>2. \E g \in [1 .. n -> S] : IsInjective(g)
    <2>1. PICK g : g \in Bijection(1 .. n, S)
      BY <1>1 DEF ExistsBijection
    <2>2. g \in [1 .. n -> S] /\ IsInjective(g)
      BY <2>1 DEF Bijection, Injection
    <2>3. QED
      BY <2>2
  <1>3. s \in [1 .. n -> S] /\ IsInjective(s)
    BY <1>1, <1>2, Zenon DEF SetToSeq
  <1>4. \A i, j \in 1 .. n : i # j => s[i] # s[j]
    BY <1>3 DEF IsInjective
  <1>5. s \in Injection(1 .. n, S)
    BY <1>3, <1>4, Fun_IsInj
  <1>6. Cardinality(1 .. n) = n
    BY FS_Interval
  <1>7. s \in Surjection(1 .. n, S)
    BY <1>1, <1>5, <1>6, FS_Injection
  <1>8. \A v \in S : \E i \in 1 .. n : s[i] = v
    BY <1>7, Fun_SurjectionProperties
  <1>9. QED
    BY <1>3, <1>4, <1>8 DEF Enumerates

\* The fields of the headers that the header lines did not send.
LEMMA OtherFields ==
    ASSUME NEW q, TypedRequest(q), NEW D, D \subseteq DOMAIN q.headers,
           NEW others, others = SetToSeq(D),
           NEW R, R = FlattenSeq([i \in DOMAIN others |->
                                     Fields(others[i], q.headers[others[i]])])
    PROVE  /\ R \in Seq(Field)
           /\ \A i \in 1 .. Len(R) : ~ R[i].pseudo
           /\ \A name : Keep(R, NamedAs(name)) =
                  IF name \in D THEN Fields(name, q.headers[name]) ELSE <<>>
           /\ \A v : Among(v, R) => v.name \in D \ ForbiddenNames
                                   /\ Among(v, Fields(v.name, q.headers[v.name]))
           /\ \A name \in D : \A v : Among(v, Fields(name, q.headers[name])) => Among(v, R)
  <1>1. IsFiniteSet(D)
    BY FS_Subset DEF TypedRequest
  <1>2. PICK n \in Nat : /\ others \in [1 .. n -> D]
                         /\ \A i, j \in 1 .. n : i # j => others[i] # others[j]
                         /\ \A v \in D : \E i \in 1 .. n : others[i] = v
    <2>1. \E n \in Nat : Enumerates(others, n, D)
      BY <1>1, SetAsSeq, Zenon
    <2>2. QED
      BY <2>1, Zenon DEF Enumerates
  <1>3. PICK names : names = others
    OBVIOUS
  <1>4. PICK pieces : pieces = [i \in 1 .. n |-> Fields(names[i], q.headers[names[i]])]
    OBVIOUS
  <1>5. R = FlattenSeq(pieces)
    BY <1>2, <1>3, <1>4
  <1>6. ASSUME NEW i \in 1 .. n
        PROVE  /\ names[i] \in D
               /\ pieces[i] = Fields(names[i], q.headers[names[i]])
               /\ pieces[i] \in Seq(Field)
               /\ \A y \in 1 .. Len(pieces[i]) :
                     ~ pieces[i][y].pseudo /\ pieces[i][y].name = names[i]
               /\ Keep(pieces[i], NamedAs(names[i])) = pieces[i]
               /\ names[i] \in ForbiddenNames => pieces[i] = <<>>
    <2>1. names[i] \in D
      BY <1>2, <1>3
    <2>2. PICK name \in Text : name = names[i]
      BY <2>1 DEF TypedRequest
    <2>3. PICK vals \in Seq(Text) : vals = q.headers[name]
      BY <2>1, <2>2 DEF TypedRequest
    <2>4. PICK P : P = Fields(name, vals)
      OBVIOUS
    <2>5. pieces[i] = P
      BY <1>4, <2>2, <2>3, <2>4
    <2>6. /\ P \in Seq(Field)
          /\ \A y \in 1 .. Len(P) : ~ P[y].pseudo /\ P[y].name = name
          /\ name \in ForbiddenNames => P = <<>>
      <3>1. Shaped(Fields(name, vals), name)
        BY FieldsShaped, Zenon
      <3>2. QED
        BY <2>4, <3>1 DEF Shaped
    <2>7. Keep(P, NamedAs(name)) = P
      BY <2>2, <2>3, <2>4, SameName
    <2>8. QED
      BY <2>1, <2>2, <2>3, <2>4, <2>5, <2>6, <2>7
  <1>7. PICK ps : ps = pieces
    OBVIOUS
  <1>8. ps \in Seq(Seq(Field)) /\ Len(ps) = n
    <2>1. ps \in [1 .. n -> Seq(Field)]
      BY <1>4, <1>6, <1>7
    <2>2. QED
      BY <2>1, FunctionIsSeq, Zenon
  <1>9. PICK F : F = FlattenSeq(ps)
    OBVIOUS
  <1>10. F \in Seq(Field)
    BY <1>8, <1>9, FlattenTyped, Zenon
  <1>11. ASSUME NEW i \in 1 .. Len(F)
         PROVE  ~ F[i].pseudo
    <2>1. Among(F[i], F)
      BY DEF Among
    <2>2. PICK j \in 1 .. Len(ps) : Among(F[i], ps[j])
      BY <1>8, <1>9, <2>1, FlattenFrom, Zenon
    <2>3. PICK y \in 1 .. Len(ps[j]) : F[i] = ps[j][y]
      BY <2>2 DEF Among
    <2>4. QED
      BY <1>6, <1>7, <1>8, <2>2, <2>3
  <1>12. ASSUME NEW name
         PROVE  Keep(F, NamedAs(name)) = IF name \in D THEN Fields(name, q.headers[name]) ELSE <<>>
    <2>1. PICK T : T = NamedAs(name)
      OBVIOUS
    <2>2. ASSUME NEW k \in 1 .. n, names[k] # name
          PROVE  Keep(ps[k], T) = <<>>
      <3>1. PICK Q \in Seq(Field) : Q = ps[k]
        BY <1>8
      <3>2. \A x \in 1 .. Len(Q) : Q[x].pseudo \/ Q[x].name # name
        BY <1>6, <1>7, <2>2, <3>1
      <3>3. Keep(Q, NamedAs(name)) = <<>>
        BY <3>1, <3>2, OtherNames
      <3>4. QED
        BY <2>1, <3>1, <3>3
    <2>3. CASE name \in D
      <3>1. PICK j \in 1 .. n : names[j] = name
        BY <1>2, <1>3, <2>3
      <3>2. \A k \in 1 .. Len(ps) : k # j => Keep(ps[k], T) = <<>>
        BY <1>2, <1>3, <1>8, <2>2, <3>1
      <3>3. j \in Nat /\ j \in 1 .. Len(ps)
        BY <1>8, <3>1
      <3>4. Keep(FlattenSeq(ps), T) = IF j \in 1 .. Len(ps) THEN Keep(ps[j], T) ELSE <<>>
        BY <1>8, <3>2, <3>3, KeepFlatten
      <3>5. Keep(ps[j], T) = Fields(name, q.headers[name])
        BY <1>6, <1>7, <2>1, <3>1
      <3>6. QED
        BY <1>9, <2>1, <2>3, <3>3, <3>4, <3>5
    <2>4. CASE name \notin D
      <3>1. \A k \in 1 .. Len(ps) : k # 0 => Keep(ps[k], T) = <<>>
        BY <1>6, <1>8, <2>2, <2>4
      <3>2. 0 \in Nat /\ 0 \notin 1 .. Len(ps)
        BY <1>8
      <3>3. Keep(FlattenSeq(ps), T) = IF 0 \in 1 .. Len(ps) THEN Keep(ps[0], T) ELSE <<>>
        BY <1>8, <3>1, <3>2, KeepFlatten
      <3>4. QED
        BY <1>9, <2>1, <2>4, <3>2, <3>3
    <2>5. QED
      BY <2>3, <2>4
  <1>13. ASSUME NEW v, Among(v, F)
         PROVE  v.name \in D \ ForbiddenNames /\ Among(v, Fields(v.name, q.headers[v.name]))
    <2>1. PICK j \in 1 .. Len(ps) : Among(v, ps[j])
      BY <1>8, <1>9, <1>13, FlattenFrom, Zenon
    <2>2. PICK y \in 1 .. Len(ps[j]) : v = ps[j][y]
      BY <2>1 DEF Among
    <2>3. j \in 1 .. n /\ v.name = names[j] /\ ps[j] = pieces[j]
      BY <1>6, <1>7, <1>8, <2>1, <2>2
    <2>4. names[j] \notin ForbiddenNames
      <3>1. SUFFICES ASSUME pieces[j] = <<>> PROVE FALSE
        BY <1>6, <2>3
      <3>2. Len(ps[j]) = 0
        BY <2>3, <3>1
      <3>3. QED
        BY <2>2, <3>2
    <2>5. QED
      BY <1>6, <2>1, <2>3, <2>4
  <1>14. ASSUME NEW name \in D, NEW v, Among(v, Fields(name, q.headers[name]))
         PROVE  Among(v, F)
    <2>1. PICK j \in 1 .. n : names[j] = name
      BY <1>2, <1>3
    <2>2. j \in 1 .. Len(ps) /\ Among(v, ps[j])
      BY <1>6, <1>7, <1>8, <1>14, <2>1
    <2>3. QED
      BY <1>8, <1>9, <2>2, FlattenHas, Zenon
  <1>15. F = R
    BY <1>5, <1>7, <1>9
  <1>16. QED
    BY <1>10, <1>11, <1>12, <1>13, <1>14, <1>15

\* What is found depends on what is looked for in the list alone.
LEMMA KeepSame ==
    ASSUME NEW S, NEW s \in Seq(S), NEW T, NEW U,
           \A i \in 1 .. Len(s) : s[i] \in T <=> s[i] \in U
    PROVE  Keep(s, T) = Keep(s, U)
  <1>1. PICK n \in Nat : n = Len(s)
    OBVIOUS
  <1>2. PICK f : Gathers(f, s, T, n) /\ Keep(s, T) = f[n]
    BY <1>1, KeepGathers
  <1>3. PICK g : Gathers(g, s, U, n) /\ Keep(s, U) = g[n]
    BY <1>1, KeepGathers
  <1> DEFINE P == {k \in Nat : k <= n => f[k] = g[k]}
  <1>4. 0 \in P
    BY <1>2, <1>3 DEF Gathers
  <1>5. ASSUME NEW k \in Nat, k \in P
        PROVE  k + 1 \in P
    <2>1. SUFFICES ASSUME k + 1 <= n PROVE f[k + 1] = g[k + 1]
      OBVIOUS
    <2>2. k + 1 \in 1 .. n /\ (k + 1) - 1 = k /\ k <= n
      BY <2>1
    <2>3. f[k] = g[k] /\ (s[k + 1] \in T <=> s[k + 1] \in U)
      BY <1>1, <1>5, <2>2
    <2>4. QED
      BY <1>2, <1>3, <2>2, <2>3 DEF Gathers
  <1>6. Nat \subseteq P
    <2> HIDE DEF P
    <2>1. QED
      BY <1>4, <1>5, Induction
  <1>7. QED
    BY <1>2, <1>3, <1>6

LEMMA OneField ==
    ASSUME NEW a \in Text, NEW name \in Text \ ForbiddenNames,
           NEW F, F = Fields(name, <<a>>)
    PROVE  IF a = NoValue THEN F = <<>> ELSE F # <<>>
  <1>1. PICK vals \in Seq(Text) : vals = <<a>> /\ Len(vals) = 1 /\ vals[1] = a
    OBVIOUS
  <1>2. PICK T : T = ToSet(vals) \ {NoValue}
    OBVIOUS
  <1>3. \A i \in 1 .. Len(vals) : vals[i] \in T <=> a # NoValue
    BY <1>1, <1>2 DEF ToSet
  <1>4. PICK K : K = Keep(vals, T)
    OBVIOUS
  <1>5. F = [i \in DOMAIN K |-> [pseudo |-> FALSE, name |-> name, value |-> K[i]]]
    BY <1>1, <1>2, <1>4, Zenon DEF Fields
  <1>6. CASE a = NoValue
    <2>1. \A i \in 1 .. Len(vals) : vals[i] \notin T
      BY <1>3, <1>6
    <2>2. K = <<>>
      BY <1>4, <2>1, KeepNone
    <2>3. QED
      BY <1>5, <1>6, <2>2
  <1>7. CASE a # NoValue
    <2>1. \A i \in 1 .. Len(vals) : vals[i] \in T
      BY <1>3, <1>7
    <2>2. K = vals
      BY <1>4, <2>1, KeepAll
    <2>3. DOMAIN vals = 1 .. 1
      BY <1>1
    <2>4. DOMAIN F = 1 .. 1
      BY <1>5, <2>2, <2>3
    <2>5. DOMAIN <<>> = {} /\ 1 \in 1 .. 1
      OBVIOUS
    <2>6. QED
      BY <1>7, <2>4, <2>5
  <1>8. QED
    BY <1>6, <1>7

\* What a header that the client names has to give: on a header line, and else.
Gives(q, f, n, w) ==
    /\ w \in Seq(Text)
    /\ n \in ToSet(LineNames(f)) => Values(q, n) = w
    /\ n \notin ToSet(LineNames(f)) \/ n # "user-agent" \/ ~ HasAgent(q) => q.headers[n] = w

LEMMA ValuesTyped ==
    ASSUME NEW q, TypedRequest(q), NEW n \in DOMAIN q.headers
    PROVE  /\ n \in Text
           /\ q.headers[n] \in Seq(Text)
           /\ Values(q, n) \in Seq(Text) /\ Values(q, n) # <<>>
           /\ n # "user-agent" \/ ~ HasAgent(q) => Values(q, n) = q.headers[n]
           /\ n = "user-agent" /\ HasAgent(q) =>
                 \E a \in Text \ {NoValue} : Values(q, n) = <<a>>
  <1>1. n \in Text /\ q.headers[n] \in Seq(Text) \ {<<>>}
    BY DEF TypedRequest
  <1>2. PICK a \in Text : a = Head(q.headers[n])
    BY <1>1
  <1>3. CASE n = "user-agent" /\ HasAgent(q)
    <2>1. Values(q, n) = <<a>> /\ a # NoValue
      BY <1>2, <1>3, Zenon DEF Values, HasAgent
    <2>2. <<a>> \in Seq(Text) /\ <<a>> # <<>>
      BY <1>2
    <2>3. QED
      BY <1>1, <1>2, <1>3, <2>1, <2>2
  <1>4. CASE ~ (n = "user-agent" /\ HasAgent(q))
    <2>1. Values(q, n) = q.headers[n]
      BY <1>4 DEF Values
    <2>2. QED
      BY <1>1, <1>4, <2>1
  <1>5. QED
    BY <1>3, <1>4

\* The request with the defaults is one a client could have made, with an agent
\* if the fingerprint has one, and gives what the client wants.
LEMMA DefaultsKeep ==
    ASSUME NEW r, TypedRequest(r), NEW f, TypedFingerprint(f), NEW q, q = WithDefaults(r, f)
    PROVE  /\ TypedRequest(q)
           /\ f.userAgent = NoValue \/ HasAgent(q)
           /\ DOMAIN q.headers = Named(r, f)
           /\ \A n \in DOMAIN q.headers : Gives(q, f, n, Wanted(r, f, n))
  <1>1. CASE f.userAgent = NoValue \/ HasAgent(r)
    <2>1. q = r
      BY <1>1 DEF WithDefaults
    <2>2. DOMAIN q.headers = Named(r, f)
      BY <1>1, <2>1 DEF Named, HasAgent
    <2>3. ASSUME NEW n \in DOMAIN q.headers
          PROVE  Gives(q, f, n, Wanted(r, f, n))
      <3>1. /\ q.headers[n] \in Seq(Text) /\ Values(q, n) \in Seq(Text)
            /\ n # "user-agent" \/ ~ HasAgent(q) => Values(q, n) = q.headers[n]
        BY <2>1, ValuesTyped
      <3>2. CASE n = "user-agent" /\ HasAgent(r) /\ n \in ToSet(LineNames(f))
        <4>1. Wanted(r, f, n) = Values(q, n)
          BY <2>1, <3>2 DEF Wanted
        <4>2. QED
          BY <2>1, <3>1, <3>2, <4>1 DEF Gives
      <3>3. CASE ~ (n = "user-agent" /\ HasAgent(r) /\ n \in ToSet(LineNames(f)))
        <4>1. Wanted(r, f, n) = q.headers[n]
          BY <1>1, <2>1, <3>3 DEF Wanted
        <4>2. n \in ToSet(LineNames(f)) => Values(q, n) = q.headers[n]
          BY <2>1, <3>1, <3>3
        <4>3. QED
          BY <3>1, <4>1, <4>2 DEF Gives
      <3>4. QED
        BY <3>2, <3>3
    <2>4. QED
      BY <1>1, <2>1, <2>2, <2>3
  <1>2. CASE ~ (f.userAgent = NoValue \/ HasAgent(r))
    <2>1. PICK h : h = [n \in DOMAIN r.headers \cup {"user-agent"} |->
                           IF n = "user-agent" THEN <<f.userAgent>> ELSE r.headers[n]]
      OBVIOUS
    <2>2. q = [r EXCEPT !.headers = h]
      BY <1>2, <2>1 DEF WithDefaults
    <2>3. r = [headers |-> r.headers, body |-> r.body]
      BY DEF TypedRequest
    <2>4. q = [headers |-> h, body |-> r.body]
      BY <2>2, <2>3
    <2>5. q.headers = h /\ q.body = r.body
      BY <2>4
    <2>6. PICK a \in Text \ {NoValue} : a = f.userAgent
      BY <1>2 DEF TypedFingerprint
    <2>7. PICK agents \in Seq(Text) : agents = <<a>> /\ agents # <<>> /\ Head(agents) = a
      <3>1. PICK one : one = <<a>>
        OBVIOUS
      <3>2. one \in Seq(Text)
        BY <3>1, OneIsSeq
      <3>3. one # <<>> /\ Head(one) = a
        BY <3>1, OneHead
      <3>4. QED
        BY <3>1, <3>2, <3>3
    <2>8. /\ DOMAIN h = DOMAIN r.headers \cup {"user-agent"}
          /\ h["user-agent"] = agents
          /\ \A n \in DOMAIN r.headers : n # "user-agent" => h[n] = r.headers[n]
      BY <2>1, <2>6, <2>7
    <2>9. TypedRequest(q)
      <3>1. q = [headers |-> q.headers, body |-> q.body]
        BY <2>4, <2>5
      <3>2. q.headers = [n \in DOMAIN q.headers |-> q.headers[n]]
        BY <2>1, <2>5, <2>8
      <3>3. DOMAIN q.headers \subseteq Text
        BY <2>5, <2>8 DEF TypedRequest, Text
      <3>4. IsFiniteSet(DOMAIN q.headers)
        BY <2>5, <2>8, FS_AddElement DEF TypedRequest
      <3>5. ASSUME NEW n \in DOMAIN q.headers
            PROVE  q.headers[n] \in Seq(Text) \ {<<>>}
        <4>1. CASE n = "user-agent"
          BY <2>5, <2>7, <2>8, <4>1
        <4>2. CASE n # "user-agent"
          <5>1. n \in DOMAIN r.headers /\ q.headers[n] = r.headers[n]
            BY <2>5, <2>8, <4>2
          <5>2. QED
            BY <5>1 DEF TypedRequest
        <4>3. QED
          BY <4>1, <4>2
      <3>6. QED
        BY <3>1, <3>2, <3>3, <3>4, <3>5 DEF TypedRequest
    <2>10. HasAgent(q)
      BY <2>5, <2>6, <2>7, <2>8 DEF HasAgent
    <2>11. DOMAIN q.headers = Named(r, f)
      BY <1>2, <2>5, <2>8 DEF Named
    <2>12. ASSUME NEW n \in DOMAIN q.headers
           PROVE  Gives(q, f, n, Wanted(r, f, n))
      <3>1. q.headers[n] \in Seq(Text) /\ Values(q, n) = q.headers[n]
        <4>1. CASE n = "user-agent"
          <5>1. q.headers[n] = agents
            BY <2>5, <2>8, <4>1
          <5>2. Values(q, n) = <<a>>
            BY <2>7, <2>10, <4>1, <5>1 DEF Values
          <5>3. QED
            BY <2>7, <5>1, <5>2
        <4>2. CASE n # "user-agent"
          BY <2>9, <4>2, ValuesTyped
        <4>3. QED
          BY <4>1, <4>2
      <3>2. Wanted(r, f, n) = q.headers[n]
        <4>1. CASE n = "user-agent"
          BY <1>2, <2>5, <2>6, <2>7, <2>8, <4>1 DEF Wanted
        <4>2. CASE n # "user-agent"
          BY <2>5, <2>8, <4>2 DEF Wanted
        <4>3. QED
          BY <4>1, <4>2
      <3>3. QED
        BY <3>1, <3>2 DEF Gives
    <2>13. QED
      BY <2>9, <2>10, <2>11, <2>12
  <1>3. QED
    BY <1>1, <1>2

\* All the fields of a request: the leading ones, and after them the headers
\* that no header line sent.
Complete(H, L, R, q, f) ==
    /\ L \in Seq(Field) /\ R \in Seq(Field) /\ Together(L, R, H)
    /\ Led(L, q, f)
    /\ \E D :
          /\ D = DOMAIN q.headers \
                    {v.name : v \in {g \in Field : Among(g, L) /\ ~ g.pseudo}}
          /\ \A i \in 1 .. Len(R) : ~ R[i].pseudo
          /\ \A name : Keep(R, NamedAs(name)) =
                 IF name \in D THEN Fields(name, q.headers[name]) ELSE <<>>
          /\ \A v : Among(v, R) => v.name \in D \ ForbiddenNames
                                   /\ Among(v, Fields(v.name, q.headers[v.name]))
          /\ \A name \in D : \A v : Among(v, Fields(name, q.headers[name])) => Among(v, R)

LEMMA FieldsComplete ==
    ASSUME NEW q, TypedRequest(q), NEW f, TypedFingerprint(f),
           f.userAgent = NoValue \/ HasAgent(q),
           NEW H, H = HeaderFields(q, f)
    PROVE  \E L, R : Complete(H, L, R, q, f)
  <1>1. PICK L : L = LeadingFields(q, f)
    OBVIOUS
  <1>2. Led(L, q, f)
    BY <1>1, OrderLed, LinesLed
  <1>3. PICK seen : seen = {L[i].name : i \in {j \in DOMAIN L : ~ L[j].pseudo}}
    OBVIOUS
  <1>4. PICK D : D = DOMAIN q.headers \ seen
    OBVIOUS
  <1>5. PICK others : others = SetToSeq(D)
    OBVIOUS
  <1>6. PICK R : R = FlattenSeq([i \in DOMAIN others |->
                                    Fields(others[i], q.headers[others[i]])])
    OBVIOUS
  <1>7. PICK agent : agent = IF Values(q, "user-agent") # <<>> THEN <<>>
                             ELSE Fields("user-agent", <<f.userAgent>>)
    OBVIOUS
  <1>8. H = (L \o agent) \o R
    BY <1>1, <1>3, <1>4, <1>5, <1>6, <1>7, Zenon DEF HeaderFields
  <1>9. agent = <<>>
    <2>1. SUFFICES ASSUME Values(q, "user-agent") = <<>>
                   PROVE  agent = <<>>
      BY <1>7
    <2>2. "user-agent" \notin DOMAIN q.headers
      BY <2>1, ValuesTyped
    <2>3. f.userAgent \in Text /\ f.userAgent = NoValue
      BY <2>2 DEF TypedFingerprint, HasAgent
    <2>4. "user-agent" \in Text \ ForbiddenNames
      BY DEF Text, ForbiddenNames
    <2>5. agent = Fields("user-agent", <<f.userAgent>>)
      BY <1>7, <2>1
    <2>6. QED
      BY <2>3, <2>4, <2>5, OneField
  <1>10. L \in Seq(Field)
    BY <1>2 DEF Led
  <1>11. seen = {v.name : v \in {g \in Field : Among(g, L) /\ ~ g.pseudo}}
    <2>1. \A i \in DOMAIN L : L[i] \in Field /\ Among(L[i], L)
      BY <1>10 DEF Among
    <2>2. \A g : Among(g, L) => \E i \in DOMAIN L : g = L[i]
      BY <1>10 DEF Among
    <2>3. QED
      BY <1>3, <2>1, <2>2
  <1>12. Together(L, R, H)
    <2>1. L \o agent = L
      BY <1>9, <1>10, ConcatEmptySeq
    <2>2. QED
      BY <1>8, <2>1 DEF Together
  <1>13. D \subseteq DOMAIN q.headers
    BY <1>4
  <1>14. /\ R \in Seq(Field)
         /\ \A i \in 1 .. Len(R) : ~ R[i].pseudo
         /\ \A name : Keep(R, NamedAs(name)) =
                IF name \in D THEN Fields(name, q.headers[name]) ELSE <<>>
         /\ \A v : Among(v, R) => v.name \in D \ ForbiddenNames
                                   /\ Among(v, Fields(v.name, q.headers[v.name]))
         /\ \A name \in D : \A v : Among(v, Fields(name, q.headers[name])) => Among(v, R)
    BY <1>5, <1>6, <1>13, OtherFields
  <1>15. Complete(H, L, R, q, f)
    BY <1>2, <1>4, <1>10, <1>11, <1>12, <1>14, Zenon DEF Complete
  <1>16. QED
    BY <1>15

\* What is found of a name is the same among the fields and all possible ones.
LEMMA FoundSame ==
    ASSUME NEW H \in Seq(Field), NEW n
    PROVE  /\ Keep(H, PseudoOf(H, n)) = Keep(H, PseudoAs(n))
           /\ Keep(H, OrdinaryOf(H, n)) = Keep(H, NamedAs(n))
           /\ \A v : v \in PseudoOf(H, n) <=> Among(v, H) /\ v.pseudo /\ v.name = n
           /\ \A v : v \in OrdinaryOf(H, n) <=> Among(v, H) /\ ~ v.pseudo /\ v.name = n
           /\ \A v : v \in ToSet(H) <=> Among(v, H)
  <1>1. ASSUME NEW i \in 1 .. Len(H)
        PROVE  /\ H[i] \in PseudoOf(H, n) <=> H[i] \in PseudoAs(n)
               /\ H[i] \in OrdinaryOf(H, n) <=> H[i] \in NamedAs(n)
    <2>1. H[i] \in ToSet(H) /\ H[i] \in Field
      BY DEF ToSet
    <2>2. QED
      BY <2>1 DEF PseudoOf, OrdinaryOf, PseudoAs, NamedAs
  <1>2. Keep(H, PseudoOf(H, n)) = Keep(H, PseudoAs(n))
    BY <1>1, KeepSame
  <1>3. Keep(H, OrdinaryOf(H, n)) = Keep(H, NamedAs(n))
    BY <1>1, KeepSame
  <1>4. \A v : v \in ToSet(H) <=> Among(v, H)
    BY DEF ToSet, Among
  <1>5. QED
    BY <1>2, <1>3, <1>4 DEF PseudoOf, OrdinaryOf

\* The pseudo headers among all the fields.
LEMMA PseudoSent ==
    ASSUME NEW q, NEW f, NEW H, NEW L, NEW R, Complete(H, L, R, q, f)
    PROVE  PseudoIntact(H, f)
  <1>1. /\ L \in Seq(Field) /\ R \in Seq(Field) /\ Together(L, R, H)
        /\ \A i \in 1 .. Len(R) : ~ R[i].pseudo
    BY DEF Complete
  <1>2. Led(L, q, f)
    BY DEF Complete
  <1>3. H \in Seq(Field)
    BY <1>1, TogetherParts
  <1>4. ASSUME NEW p \in PseudoNames, f.http2.lines # <<>> \/ p \in ToSet(Listed(f))
        PROVE  PseudoOf(H, p) # {}
    <2>1. PICK v : v = PseudoField(p)
      OBVIOUS
    <2>2. Among(v, L)
      BY <1>2, <1>4, <2>1 DEF Led
    <2>3. Among(v, H)
      BY <1>1, <2>2, ConcatHas
    <2>4. v.pseudo /\ v.name = p
      BY <2>1 DEF PseudoField
    <2>5. v \in PseudoOf(H, p)
      BY <1>3, <2>3, <2>4, FoundSame
    <2>6. QED
      BY <2>5
  <1>5. ASSUME NEW p \in PseudoNames, AtMostOnce(p, Listed(f))
        PROVE  Len(Keep(H, PseudoOf(H, p))) <= 1
    <2>1. PICK T : T = PseudoAs(p)
      OBVIOUS
    <2>2. /\ Keep(L, T) \in Seq(Field)
          /\ Together(Keep(L, T), Keep(R, T), Keep(H, T))
      BY <1>1, KeepConcat
    <2>3. \A i \in 1 .. Len(R) : R[i] \notin T
      BY <1>1, <2>1 DEF PseudoAs
    <2>4. Keep(R, T) = <<>>
      BY <1>1, <2>3, KeepNone
    <2>5. Keep(H, T) = Keep(L, T)
      BY <2>2, <2>4, ConcatEmptySeq DEF Together
    <2>6. Len(Keep(L, T)) <= 1
      BY <1>2, <1>5, <2>1 DEF Led
    <2>7. QED
      BY <1>3, <2>1, <2>5, <2>6, FoundSame
  <1>6. ASSUME Orderly(f), NEW i \in 1 .. Len(H), NEW j \in 1 .. Len(H), i < j, H[j].pseudo
        PROVE  H[i].pseudo
    <2>1. PICK a \in Nat : a = Len(L)
      BY <1>1
    <2>2. PICK b \in Nat : b = Len(R)
      BY <1>1
    <2>3. /\ Len(H) = a + b
          /\ \A k \in 1 .. a : H[k] = L[k]
          /\ \A k \in a + 1 .. a + b : H[k] = R[k - a]
      <3>1. Len(H) = Len(L) + Len(R)
        BY <1>1, TogetherParts
      <3>2. \A k \in 1 .. Len(L) : H[k] = L[k]
        BY <1>1, TogetherParts
      <3>3. \A k \in Len(L) + 1 .. Len(L) + Len(R) : H[k] = R[k - Len(L)]
        BY <1>1, TogetherParts
      <3>4. QED
        BY <2>1, <2>2, <3>1, <3>2, <3>3
    <2>4. j <= a
      <3>1. SUFFICES ASSUME j > a PROVE FALSE
        BY <2>1
      <3>2. j - a \in 1 .. Len(R) /\ H[j] = R[j - a]
        BY <2>2, <2>3, <3>1
      <3>3. QED
        BY <1>1, <1>6, <3>2
    <2>5. i \in 1 .. Len(L) /\ j \in 1 .. Len(L) /\ H[i] = L[i] /\ H[j] = L[j]
      BY <1>6, <2>1, <2>3, <2>4
    <2>6. QED
      BY <1>2, <1>6, <2>5 DEF Led
  <1>7. DOMAIN H = 1 .. Len(H)
    BY <1>3
  <1>8. QED
    BY <1>4, <1>5, <1>6, <1>7, Zenon DEF PseudoIntact, PseudoNames

\* What the client names is sent as it wants it.
LEMMA HeaderSent ==
    ASSUME NEW q, TypedRequest(q), NEW f, NEW H, NEW L, NEW R, Complete(H, L, R, q, f),
           NEW n \in DOMAIN q.headers \ ForbiddenNames, NEW w, Gives(q, f, n, w)
    PROVE  /\ OrdinaryOf(H, n) = ToSet(Fields(n, w))
           /\ AtMostOnce(n, LineNames(f)) => Keep(H, OrdinaryOf(H, n)) = Fields(n, w)
  <1>1. /\ L \in Seq(Field) /\ R \in Seq(Field) /\ Together(L, R, H)
    BY DEF Complete
  <1>2. Led(L, q, f)
    BY DEF Complete
  <1>3. H \in Seq(Field)
    BY <1>1, TogetherParts
  <1>4. PICK D :
           /\ D = DOMAIN q.headers \
                     {v.name : v \in {g \in Field : Among(g, L) /\ ~ g.pseudo}}
           /\ \A name : Keep(R, NamedAs(name)) =
                  IF name \in D THEN Fields(name, q.headers[name]) ELSE <<>>
           /\ \A v : Among(v, R) => ~ v.pseudo /\ v.name \in D \ ForbiddenNames
                                    /\ Among(v, Fields(v.name, q.headers[v.name]))
           /\ \A name \in D : \A v : Among(v, Fields(name, q.headers[name])) => Among(v, R)
    <2>1. PICK D :
             /\ D = DOMAIN q.headers \
                       {v.name : v \in {g \in Field : Among(g, L) /\ ~ g.pseudo}}
             /\ \A i \in 1 .. Len(R) : ~ R[i].pseudo
             /\ \A name : Keep(R, NamedAs(name)) =
                    IF name \in D THEN Fields(name, q.headers[name]) ELSE <<>>
             /\ \A v : Among(v, R) => v.name \in D \ ForbiddenNames
                                      /\ Among(v, Fields(v.name, q.headers[v.name]))
             /\ \A name \in D : \A v : Among(v, Fields(name, q.headers[name])) => Among(v, R)
      BY DEF Complete
    <2>2. \A v : Among(v, R) => ~ v.pseudo
      BY <2>1 DEF Among
    <2>3. QED
      BY <2>1, <2>2
  <1>5. PICK F : F = Fields(n, w)
    OBVIOUS
  <1>6. n \in Text /\ w \in Seq(Text)
    BY ValuesTyped DEF Gives
  <1>7. /\ F \in Seq(Field)
        /\ \A v : Among(v, F) => ~ v.pseudo /\ v.name = n
        /\ Keep(F, NamedAs(n)) = F
    <2>1. F \in Seq(Field) /\ \A i \in 1 .. Len(F) : ~ F[i].pseudo /\ F[i].name = n
      BY <1>5, <1>6, FieldsShape
    <2>2. Keep(F, NamedAs(n)) = F
      BY <1>5, <1>6, SameName
    <2>3. QED
      BY <2>1, <2>2 DEF Among
  <1>8. \A v : Among(v, H) <=> Among(v, L) \/ Among(v, R)
    <2>1. TAKE v
    <2>2. Among(v, H) => Among(v, L) \/ Among(v, R)
      BY <1>1, ConcatElement
    <2>3. Among(v, L) \/ Among(v, R) => Among(v, H)
      BY <1>1, ConcatHas
    <2>4. QED
      BY <2>2, <2>3
  <1>9. PICK T : T = NamedAs(n)
    OBVIOUS
  <1>10. /\ Keep(L, T) \in Seq(Field) /\ Keep(R, T) \in Seq(Field)
         /\ Together(Keep(L, T), Keep(R, T), Keep(H, T))
    BY <1>1, KeepConcat
  <1> DEFINE Exact ==
                 /\ \A v : Among(v, H) /\ ~ v.pseudo /\ v.name = n <=> Among(v, F)
                 /\ AtMostOnce(n, LineNames(f)) => Keep(H, T) = F
  <1>11. ASSUME n \notin D
         PROVE  Exact
    <2>1. PICK g \in Field : Among(g, L) /\ ~ g.pseudo /\ g.name = n
      BY <1>4, <1>11
    <2>2. n \in ToSet(LineNames(f)) \ PseudoNames
      BY <1>2, <2>1 DEF Led
    <2>3. Values(q, n) = w /\ w # <<>>
      BY <2>2, ValuesTyped DEF Gives
    <2>4. \A v : Among(v, F) => Among(v, L)
      BY <1>2, <1>5, <2>2, <2>3 DEF Led
    <2>5. \A v : Among(v, L) /\ ~ v.pseudo /\ v.name = n => Among(v, F)
      BY <1>2, <1>5, <2>3 DEF Led
    <2>6. \A v : Among(v, R) => v.name # n
      BY <1>4, <1>11
    <2>7. AtMostOnce(n, LineNames(f)) => Keep(L, T) = F
      BY <1>2, <1>5, <1>7, <1>9, <2>2, <2>3 DEF Led
    <2>8. Keep(R, T) = <<>>
      BY <1>4, <1>9, <1>11
    <2>9. Keep(H, T) = Keep(L, T)
      BY <1>10, <2>8, ConcatEmptySeq DEF Together
    <2>10. QED
      BY <1>7, <1>8, <2>4, <2>5, <2>6, <2>7, <2>9
  <1>12. ASSUME n \in D
         PROVE  Exact
    <2>1. \A v : Among(v, L) => v.pseudo \/ v.name # n
      <3>1. SUFFICES ASSUME NEW v, Among(v, L), ~ v.pseudo, v.name = n
                     PROVE  FALSE
        OBVIOUS
      <3>2. v \in Field
        BY <1>1, <3>1 DEF Among
      <3>3. QED
        BY <1>4, <1>12, <3>1, <3>2
    <2>2. \A i \in 1 .. Len(L) : L[i].pseudo \/ L[i].name # n
      BY <2>1 DEF Among
    <2>3. Keep(L, T) = <<>>
      BY <1>1, <1>9, <2>2, OtherNames
    <2>4. Fields(n, q.headers[n]) = F
      <3>1. CASE n \notin ToSet(LineNames(f)) \/ n # "user-agent" \/ ~ HasAgent(q)
        BY <1>5, <3>1 DEF Gives
      <3>2. CASE ~ (n \notin ToSet(LineNames(f)) \/ n # "user-agent" \/ ~ HasAgent(q))
        <4>1. PICK a \in Text \ {NoValue} : w = <<a>> /\ Values(q, n) = w
          BY <3>2, ValuesTyped DEF Gives
        <4>2. F # <<>>
          BY <1>5, <1>6, <4>1, OneField
        <4>3. PICK v : Among(v, F)
          <5>1. Len(F) # 0
            BY <1>7, <4>2, EmptySeq
          <5>2. 1 \in 1 .. Len(F)
            BY <1>7, <5>1
          <5>3. QED
            BY <5>2 DEF Among
        <4>4. n \notin PseudoNames
          BY <3>2, PseudoTyped
        <4>5. Values(q, n) # <<>>
          BY ValuesTyped
        <4>6. Among(v, L)
          BY <1>2, <1>5, <3>2, <4>1, <4>3, <4>4, <4>5 DEF Led
        <4>7. QED
          BY <1>7, <2>1, <4>3, <4>6
      <3>3. QED
        BY <3>1, <3>2
    <2>5. Keep(R, T) = F
      BY <1>4, <1>9, <1>12, <2>4
    <2>6. Keep(H, T) = F
      BY <1>7, <1>10, <2>3, <2>5, ConcatEmptySeq DEF Together
    <2>7. \A v : Among(v, F) => Among(v, R)
      BY <1>4, <1>12, <2>4
    <2>8. \A v : Among(v, R) /\ v.name = n => Among(v, F)
      BY <1>4, <2>4
    <2>9. QED
      BY <1>7, <1>8, <2>1, <2>6, <2>7, <2>8
  <1>13. Exact
    BY <1>11, <1>12
  <1> HIDE DEF Exact
  <1>14. OrdinaryOf(H, n) = ToSet(F)
    <2>1. \A v : v \in OrdinaryOf(H, n) <=> Among(v, H) /\ ~ v.pseudo /\ v.name = n
      BY <1>3, FoundSame
    <2>2. \A v : v \in ToSet(F) <=> Among(v, F)
      BY <1>7, FoundSame
    <2>3. \A v : v \in OrdinaryOf(H, n) <=> v \in ToSet(F)
      BY <1>13, <2>1, <2>2 DEF Exact
    <2>4. QED
      BY <2>3
  <1>15. Keep(H, OrdinaryOf(H, n)) = Keep(H, T)
    BY <1>3, <1>9, FoundSame
  <1>16. QED
    BY <1>5, <1>13, <1>14, <1>15 DEF Exact

\* The header fields of a request carry it.
LEMMA FieldsCarry ==
    ASSUME NEW r, TypedRequest(r), NEW f, TypedFingerprint(f),
           NEW H, H = HeaderFields(WithDefaults(r, f), f)
    PROVE  PseudoIntact(H, f) /\ ValuesIntact(H, r, f)
  <1>1. PICK q : q = WithDefaults(r, f)
    OBVIOUS
  <1>2. /\ TypedRequest(q)
        /\ f.userAgent = NoValue \/ HasAgent(q)
        /\ DOMAIN q.headers = Named(r, f)
        /\ \A n \in DOMAIN q.headers : Gives(q, f, n, Wanted(r, f, n))
    BY <1>1, DefaultsKeep
  <1>3. PICK L, R : Complete(H, L, R, q, f)
    BY <1>1, <1>2, FieldsComplete
  <1>4. PseudoIntact(H, f)
    BY <1>3, PseudoSent
  <1>5. ASSUME NEW n \in Named(r, f) \ ForbiddenNames
        PROVE  /\ OrdinaryOf(H, n) = ToSet(Fields(n, Wanted(r, f, n)))
               /\ AtMostOnce(n, LineNames(f)) =>
                     Keep(H, OrdinaryOf(H, n)) = Fields(n, Wanted(r, f, n))
    <2>1. n \in DOMAIN q.headers \ ForbiddenNames
      BY <1>2
    <2>2. PICK w : w = Wanted(r, f, n) /\ Gives(q, f, n, w)
      BY <1>2, <2>1
    <2>3. /\ OrdinaryOf(H, n) = ToSet(Fields(n, w))
          /\ AtMostOnce(n, LineNames(f)) => Keep(H, OrdinaryOf(H, n)) = Fields(n, w)
      BY <1>2, <1>3, <2>1, <2>2, HeaderSent
    <2>4. QED
      BY <2>2, <2>3
  <1>6. ASSUME NEW g \in ToSet(H), ~ g.pseudo
        PROVE  g.name \in (Named(r, f) \cup ToSet(LineNames(f))) \ ForbiddenNames
    <2>1. /\ L \in Seq(Field) /\ R \in Seq(Field) /\ Together(L, R, H) /\ Led(L, q, f)
          /\ \A v : Among(v, R) => v.name \in DOMAIN q.headers \ ForbiddenNames
      BY <1>3 DEF Complete
    <2>2. H \in Seq(Field)
      BY <2>1, TogetherParts
    <2>3. Among(g, H)
      BY <1>6, <2>2, FoundSame
    <2>4. Among(g, L) \/ Among(g, R)
      BY <2>1, <2>3, ConcatElement
    <2>5. CASE Among(g, L)
      BY <1>6, <2>1, <2>5 DEF Led
    <2>6. CASE Among(g, R)
      BY <1>2, <2>1, <2>6
    <2>7. QED
      BY <2>4, <2>5, <2>6
  <1>7. ValuesIntact(H, r, f)
    BY <1>5, <1>6, Zenon DEF ValuesIntact
  <1>8. QED
    BY <1>4, <1>7

\* Whatever a client asks for and whatever a fingerprint lists, the server reads
\* the client's request: under each header that may be sent come the client's
\* values, the pseudo headers come as the fingerprint lists them, and the stream
\* ends once with the body (buildHTTP2HeaderFields, RoundTrip).  Only the types
\* of requests and fingerprints are assumed.
THEOREM RequestsStayIntact ==
    ASSUME \A r \in Requests : TypedRequest(r),
           \A f \in Fingerprints : TypedFingerprint(f)
    PROVE  Spec => []RequestIntact
  <1>1. ASSUME NEW r \in Requests, NEW f \in Fingerprints,
               NEW H, H = HeaderFields(WithDefaults(r, f), f)
        PROVE  PseudoIntact(H, f) /\ ValuesIntact(H, r, f)
    BY <1>1, FieldsCarry
  <1>2. WireInv => RequestIntact
    <2>1. SUFFICES ASSUME WireInv PROVE RequestIntact
      OBVIOUS
    <2>2. PICK H : H = HeaderFields(Asked, fp)
      OBVIOUS
    <2>3. PseudoIntact(H, fp) /\ ValuesIntact(H, req, fp)
      BY <1>1, <2>1, <2>2, Zenon DEF WireInv, Asked
    <2>4. FieldsIntact
      BY <2>1, <2>2, <2>3, WireIntact, Zenon DEF FieldsIntact
    <2>5. QED
      BY <2>1, <2>4, WireIntact DEF RequestIntact
  <1>3. QED
    BY WireInitially, WireKept, <1>2, PTL DEF Spec

-----------------------------------------------------------------------------
(* The answer on its way: the client has read the first k of the frames     *)
(* sent, the others are under way.                                          *)

DataIn(F, k) == {i \in 1 .. k : F[i].type = "data"}

Under(s, k, m, F) ==
    /\ k + Len(s) = m
    /\ \A i \in 1 .. Len(s) : s[i] = F[k + i]

\* The block that is going on is the one the fragments kept belong to.
BlockAt(F, k) ==
    \/ headerBlock = <<>> /\ \A b \in 1 .. k : ~ Goes(F, b, k)
    \/ /\ headerBlock # <<>>
       /\ \E b \in 1 .. k : Goes(F, b, k) /\ Head(headerBlock) = F[b]

\* The status is that of the last block that has come to its end.
StatusOf(F, k, status) ==
    \E b \in 1 .. k : /\ F[b].type = "headers" /\ status = F[b].status
                      /\ \A c \in b + 1 .. k : F[c].type = "headers" => Goes(F, c, k)

StatusAt(F, k) == headersEnded => StatusOf(F, k, statusCode)

ReadAt(F, k) ==
    /\ body = Cardinality(DataIn(F, k))
    /\ streamEnded => \E i \in 1 .. k : F[i].endStream
    /\ BlockAt(F, k)
    /\ StatusAt(F, k)

AnswerInv ==
    /\ answer \in Answers
    /\ down \in Seq(Frames) /\ headerBlock \in Seq(Frames)
    /\ sent \in 0 .. Len(answer.frames)
    /\ body \in 0 .. MaxBody
    /\ result = "ok" => pc = "done"
    /\ \E k \in Nat : /\ Under(down, k, sent, answer.frames)
                      /\ pc # "done" => ReadAt(answer.frames, k)
    /\ WholeAnswer

LEMMA AnswerInitially == Init => AnswerInv
  <1> SUFFICES ASSUME Init PROVE AnswerInv
    OBVIOUS
  <1>1. /\ answer \in Answers /\ pc = "dial" /\ down = <<>> /\ headerBlock = <<>>
        /\ body = 0 /\ ~ headersEnded /\ ~ streamEnded /\ result = "none" /\ sent = 0
    BY DEF Init
  <1>2. answer.frames \in Seq(Frames)
    BY <1>1, AnswersAssumption DEF Lawful
  <1>3. ReadAt(answer.frames, 0)
    <2>1. DataIn(answer.frames, 0) = {}
      BY DEF DataIn
    <2>2. body = Cardinality(DataIn(answer.frames, 0))
      BY <1>1, <2>1, FS_EmptySet
    <2>3. BlockAt(answer.frames, 0) /\ StatusAt(answer.frames, 0)
      BY <1>1 DEF BlockAt, StatusAt
    <2>4. QED
      BY <1>1, <2>2, <2>3 DEF ReadAt
  <1>4. Under(down, 0, sent, answer.frames)
    BY <1>1 DEF Under
  <1>5. WholeAnswer
    BY <1>1 DEF WholeAnswer
  <1>6. body \in 0 .. MaxBody
    BY <1>1, ExchangeAssumption
  <1>7. QED
    BY <1>1, <1>2, <1>3, <1>4, <1>5, <1>6 DEF AnswerInv

\* One more unit of the body, or another frame.
LEMMA DataCounted ==
    ASSUME NEW F, NEW k \in Nat
    PROVE  /\ IsFiniteSet(DataIn(F, k)) /\ Cardinality(DataIn(F, k)) \in Nat
           /\ F[k + 1].type # "data" => DataIn(F, k + 1) = DataIn(F, k)
           /\ F[k + 1].type = "data" =>
                 Cardinality(DataIn(F, k + 1)) = Cardinality(DataIn(F, k)) + 1
  <1>1. IsFiniteSet(DataIn(F, k)) /\ Cardinality(DataIn(F, k)) \in Nat
    <2>1. IsFiniteSet(1 .. k)
      BY FS_Interval
    <2>2. DataIn(F, k) \subseteq 1 .. k
      BY DEF DataIn
    <2>3. QED
      BY <2>1, <2>2, FS_Subset, FS_CardinalityType
  <1>2. F[k + 1].type # "data" => DataIn(F, k + 1) = DataIn(F, k)
    BY DEF DataIn
  <1>3. F[k + 1].type = "data" => DataIn(F, k + 1) = DataIn(F, k) \cup {k + 1}
    BY DEF DataIn
  <1>4. k + 1 \notin DataIn(F, k)
    BY DEF DataIn
  <1>5. Cardinality(DataIn(F, k) \cup {k + 1}) = Cardinality(DataIn(F, k)) + 1
    BY <1>1, <1>4, FS_AddElement
  <1>6. QED
    BY <1>1, <1>2, <1>3, <1>5

\* When the stream and the headers of a lawful answer have ended, the body and
\* the status are there.
LEMMA AnswerWhole ==
    ASSUME NEW F, Lawful(F), NEW k \in Nat, k <= Len(F),
           NEW e \in 1 .. k, F[e].endStream, NEW status, StatusOf(F, k, status)
    PROVE  /\ Cardinality(DataIn(F, k)) = BodyOf(F)
           /\ ~ Trailers(F) /\ ~ EndsInBlock(F) =>
                 (IF status = 0 THEN 200 ELSE status) = FinalStatus(F)
  <1>1. F \in Seq(Frames) /\ DOMAIN F = 1 .. Len(F) /\ Len(F) \in Nat
    BY DEF Lawful
  <1>2. e \in DOMAIN F /\ F[e].endStream /\ e <= k
    BY <1>1
  <1>3. Cardinality(DataIn(F, k)) = BodyOf(F)
    <2>1. \A i \in DOMAIN F : F[i].type = "data" => i <= e
      BY <1>1, <1>2 DEF Lawful
    <2>2. {i \in DOMAIN F : F[i].type = "data"} = DataIn(F, k)
      BY <1>1, <1>2, <2>1 DEF DataIn
    <2>3. QED
      BY <2>2 DEF BodyOf
  <1>4. ASSUME ~ Trailers(F), ~ EndsInBlock(F)
        PROVE  (IF status = 0 THEN 200 ELSE status) = FinalStatus(F)
    <2>1. PICK f \in DOMAIN F :
              /\ IsFinal(F, f)
              /\ \A i \in DOMAIN F : F[i].type = "headers" =>
                    /\ i < f => F[i].status \in 100 .. 199
                    /\ i > f => F[i].status = 0
              /\ \A i \in DOMAIN F : F[i].endStream \/ F[i].type = "data" => i >= f
      BY DEF Lawful
    <2>2. f \in 1 .. e /\ f \in Nat
      BY <1>1, <1>2, <2>1
    <2>3. \A i \in DOMAIN F : F[i].type = "headers" => i <= f
      BY <1>1, <1>4, <2>1 DEF Trailers
    <2>4. ~ Goes(F, f, k)
      <3>1. SUFFICES ASSUME Goes(F, f, k) PROVE FALSE
        OBVIOUS
      <3>2. \A i \in f .. k : ~ F[i].endHeaders
        BY <3>1 DEF Goes
      <3>3. CASE e = f
        <4>1. F[e].type = "headers" /\ ~ F[e].endHeaders
          BY <1>2, <2>2, <3>2, <3>3, <2>1 DEF IsFinal
        <4>2. QED
          BY <1>2, <1>4, <4>1 DEF EndsInBlock
      <3>4. CASE e > f
        <4>1. Goes(F, f, e - 1)
          BY <1>2, <2>2, <3>1, <3>4 DEF Goes
        <4>2. F[e].type = "continuation"
          BY <1>2, <3>4, <4>1 DEF Lawful
        <4>3. F[e].type \in {"headers", "data"}
          BY <1>2 DEF Lawful
        <4>4. QED
          BY <4>2, <4>3
      <3>5. QED
        BY <1>2, <2>2, <3>3, <3>4
    <2>5. PICK b \in 1 .. k :
              /\ F[b].type = "headers" /\ status = F[b].status
              /\ \A c \in b + 1 .. k : F[c].type = "headers" => Goes(F, c, k)
      BY DEF StatusOf
    <2>6. b = f
      <3>1. b \in DOMAIN F
        BY <1>1
      <3>2. b <= f
        BY <2>3, <2>5, <3>1
      <3>3. ~ (b < f)
        <4>1. SUFFICES ASSUME b < f PROVE FALSE
          OBVIOUS
        <4>2. f \in b + 1 .. k
          BY <1>2, <2>2, <4>1
        <4>3. QED
          BY <2>1, <2>4, <2>5, <4>2 DEF IsFinal
      <3>4. QED
        BY <2>2, <3>2, <3>3
    <2>7. status = F[f].status /\ F[f].status \in Nat /\ F[f].status >= 200
      <3>1. F[f] \in Frames
        BY <1>1
      <3>2. QED
        BY <2>1, <2>5, <2>6, <3>1 DEF IsFinal, Frames
    <2>8. \A i \in DOMAIN F : IsFinal(F, i) => i = f
      <3>1. SUFFICES ASSUME NEW i \in DOMAIN F, IsFinal(F, i) PROVE i = f
        OBVIOUS
      <3>2. i <= f /\ i \in Nat
        BY <1>1, <2>3, <3>1 DEF IsFinal
      <3>3. ~ (i < f)
        <4>1. F[i] \in Frames
          BY <1>1, <3>1
        <4>2. QED
          <5>1. F[i].type = "headers" /\ F[i].status >= 200 /\ F[i].status \in Nat
            BY <3>1, <4>1 DEF IsFinal, Frames
          <5>2. PICK n \in Nat : n = F[i].status
            BY <5>1
          <5>3. i < f => n \in 100 .. 199
            BY <2>1, <5>1, <5>2
          <5>4. n \notin 100 .. 199
            <6>1. n >= 200
              BY <5>1, <5>2
            <6>2. n \in Nat
              BY <5>2
            <6>3. QED
              BY <6>1, <6>2, SMTT(30)
          <5>5. QED
            BY <5>3, <5>4, Zenon
      <3>4. QED
        BY <2>2, <3>2, <3>3
    <2>9. (CHOOSE i \in DOMAIN F : IsFinal(F, i)) = f
      BY <2>1, <2>8
    <2>10. FinalStatus(F) = F[f].status
      BY <2>9, Zenon DEF FinalStatus
    <2>11. (IF status = 0 THEN 200 ELSE status) = status
      BY <2>7
    <2>12. QED
      BY <2>7, <2>10, <2>11
  <1>5. QED
    BY <1>3, <1>4

\* Steps that read nothing.
LEMMA AsideKeepsAnswer ==
    ASSUME AnswerInv, UNCHANGED <<answer, down, sent, headerBlock, statusCode,
                                  headersEnded, streamEnded, body>>,
           \/ result' = result /\ (pc = "done" <=> pc' = "done")
           \/ result' # "ok" /\ pc' = "done"
    PROVE  AnswerInv'
  <1>1. PICK F : F = answer.frames
    OBVIOUS
  <1>2. PICK k \in Nat : /\ Under(down, k, sent, F)
                         /\ pc # "done" => ReadAt(F, k)
    BY <1>1 DEF AnswerInv
  <1>3. Under(down', k, sent', F) /\ answer'.frames = F
    BY <1>1, <1>2
  <1>4. pc' # "done" => ReadAt(F, k)'
    BY <1>2 DEF ReadAt, BlockAt, StatusAt
  <1>5. WholeAnswer'
    BY DEF AnswerInv, WholeAnswer, Status
  <1>6. QED
    BY <1>3, <1>4, <1>5 DEF AnswerInv

LEMMA OneMoreUnder ==
    ASSUME AnswerInv, NEW F, F = answer.frames, sent < Len(F),
           down' = Append(down, F[sent + 1]),
           NEW k \in Nat, Under(down, k, sent, F)
    PROVE  /\ down' \in Seq(Frames) /\ sent + 1 \in 1 .. Len(F)
           /\ Under(down', k, sent + 1, F)
  <1>1. F \in Seq(Frames) /\ sent \in 0 .. Len(F) /\ down \in Seq(Frames)
    BY AnswersAssumption DEF AnswerInv, Lawful
  <1>2. PICK n \in Nat : n = sent /\ n + 1 \in 1 .. Len(F)
    BY <1>1
  <1>3. F[n + 1] \in Frames
    BY <1>1, <1>2
  <1>4. PICK l \in Nat : l = Len(down) /\ k + l = n
    BY <1>1, <1>2 DEF Under
  <1>5. /\ down' \in Seq(Frames) /\ Len(down') = l + 1
        /\ \A i \in 1 .. l : down'[i] = down[i]
        /\ down'[l + 1] = F[n + 1]
    BY <1>1, <1>2, <1>3, <1>4, AppendProperties
  <1>6. ASSUME NEW i \in 1 .. l + 1 PROVE down'[i] = F[k + i]
    <2>1. CASE i \in 1 .. l
      BY <1>4, <1>5, <2>1 DEF Under
    <2>2. CASE i = l + 1
      <3>1. k + i = n + 1
        BY <1>4, <2>2, SMTT(30)
      <3>2. QED
        BY <1>5, <2>2, <3>1
    <2>3. i \in 1 .. l \/ i = l + 1
      OBVIOUS
    <2>4. QED
      BY <2>1, <2>2, <2>3, Zenon
  <1>7. k + (l + 1) = n + 1
    BY <1>4
  <1>8. Under(down', k, n + 1, F)
    BY <1>5, <1>6, <1>7 DEF Under
  <1>9. sent + 1 = n + 1
    BY <1>2
  <1>10. QED
    BY <1>2, <1>5, <1>8, <1>9, Zenon

LEMMA SendKeepsAnswer ==
    ASSUME AnswerInv, ServerSends
    PROVE  AnswerInv'
  <1>1. PICK F : F = answer.frames
    OBVIOUS
  <1>2. PICK k \in Nat : /\ Under(down, k, sent, F)
                         /\ pc # "done" => ReadAt(F, k)
    BY <1>1 DEF AnswerInv
  <1>3. /\ UNCHANGED <<answer, pc, result, headerBlock, statusCode, headersEnded,
                       streamEnded, body>>
        /\ sent < Len(F) /\ sent' = sent + 1 /\ down' = Append(down, F[sent + 1])
    BY <1>1 DEF ServerSends, reader
  <1>4. /\ down' \in Seq(Frames) /\ sent + 1 \in 1 .. Len(F)
        /\ Under(down', k, sent + 1, F)
    BY <1>1, <1>2, <1>3, OneMoreUnder
  <1>5. pc' # "done" => ReadAt(F, k)'
    BY <1>2, <1>3 DEF ReadAt, BlockAt, StatusAt
  <1>6. WholeAnswer'
    BY <1>3 DEF AnswerInv, WholeAnswer, Status
  <1>7. sent' \in 0 .. Len(F)
    BY <1>3, <1>4
  <1>8. QED
    BY <1>1, <1>2, <1>3, <1>4, <1>5, <1>6, <1>7 DEF AnswerInv

\* A frame is taken: the one after the first k, of a lawful answer.
LEMMA FrameTaken ==
    ASSUME AnswerInv, NEW type, Takes(type), NEW F, F = answer.frames
    PROVE  /\ Lawful(F) /\ result # "ok" /\ Len(F) \in Nat
           /\ \E k \in Nat : /\ ReadAt(F, k) /\ k + 1 <= Len(F)
                             /\ Head(down) = F[k + 1] /\ F[k + 1].type = type
                             /\ F[k + 1] \in Frames
                             /\ Under(down', k + 1, sent, F)
           /\ down' \in Seq(Frames)
  <1>1. /\ pc = "read" /\ down # <<>> /\ Head(down).type = type
        /\ down' = Tail(down)
    BY DEF Takes
  <1>2. Lawful(F) /\ result # "ok" /\ down \in Seq(Frames)
    BY <1>1, AnswersAssumption DEF AnswerInv
  <1>3. F \in Seq(Frames)
    BY <1>2 DEF Lawful
  <1>4. PICK k \in Nat : ReadAt(F, k) /\ Under(down, k, sent, F)
    BY <1>1 DEF AnswerInv
  <1>5. /\ down' \in Seq(Frames) /\ Len(down) \in Nat /\ Len(down) >= 1
        /\ Len(down') = Len(down) - 1
        /\ \A i \in 1 .. Len(down') : down'[i] = down[i + 1]
        /\ Head(down) = down[1]
    BY <1>1, <1>2, HeadTailProperties
  <1>6. sent \in 0 .. Len(F) /\ Len(F) \in Nat
    BY <1>3 DEF AnswerInv
  <1>7. k + 1 <= Len(F)
    BY <1>4, <1>5, <1>6 DEF Under
  <1>8. Head(down) = F[k + 1]
    BY <1>4, <1>5 DEF Under
  <1>9. Under(down', k + 1, sent, F)
    <2>1. ASSUME NEW i \in 1 .. Len(down')
          PROVE  down'[i] = F[(k + 1) + i]
      <3>1. i + 1 \in 1 .. Len(down) /\ k + (i + 1) = (k + 1) + i
        BY <1>5
      <3>2. QED
        BY <1>4, <1>5, <3>1 DEF Under
    <2>2. (k + 1) + Len(down') = sent
      BY <1>4, <1>5 DEF Under
    <2>3. QED
      BY <2>1, <2>2 DEF Under
  <1>10. F[k + 1] \in Frames
    BY <1>3, <1>7
  <1>11. QED
    BY <1>1, <1>2, <1>4, <1>5, <1>6, <1>7, <1>8, <1>9, <1>10

\* What holds after the frame, when the loop goes on or ends with it.
LEMMA FrameDone ==
    ASSUME AnswerInv, NEW F, F = answer.frames, Lawful(F), result # "ok",
           NEW k \in Nat, k + 1 <= Len(F), Len(F) \in Nat,
           UNCHANGED <<answer, sent>>,
           down' \in Seq(Frames), headerBlock' \in Seq(Frames),
           body' \in 0 .. MaxBody,
           Under(down', k + 1, sent, F), ReadAt(F, k + 1)',
           NEW headersEnd, NEW streamEnd, EndOfFrame(headersEnd, streamEnd)
    PROVE  AnswerInv'
  <1>1. Under(down', k + 1, sent', answer'.frames) /\ k + 1 \in Nat
    OBVIOUS
  <1>2. headersEnded' = headersEnd /\ streamEnded' = streamEnd
    BY DEF EndOfFrame
  <1>3. CASE result' = result
    BY <1>1, <1>3 DEF AnswerInv, WholeAnswer
  <1>4. CASE headersEnd /\ streamEnd /\ pc' = "done" /\ result' = "ok"
    <2>1. PICK e \in 1 .. k + 1 : F[e].endStream
      BY <1>2, <1>4 DEF ReadAt
    <2>2. PICK n \in Nat : n = k + 1 /\ n <= Len(F)
      OBVIOUS
    <2>3. PICK status : status = statusCode'
      OBVIOUS
    <2>4. StatusOf(F, n, status)
      BY <1>2, <1>4, <2>2, <2>3 DEF ReadAt, StatusAt
    <2>5. e \in 1 .. n /\ F[e].endStream
      BY <2>1, <2>2
    <2>6. /\ Cardinality(DataIn(F, n)) = BodyOf(F)
          /\ ~ Trailers(F) /\ ~ EndsInBlock(F) =>
                (IF status = 0 THEN 200 ELSE status) = FinalStatus(F)
      BY <2>2, <2>4, <2>5, AnswerWhole
    <2>7. body' = BodyOf(F) /\ body' <= MaxBody
      BY <2>2, <2>6, ExchangeAssumption DEF ReadAt
    <2>8. WholeAnswer'
      BY <2>3, <2>6, <2>7 DEF WholeAnswer, Status
    <2>9. QED
      BY <1>1, <1>4, <2>8 DEF AnswerInv
  <1>5. QED
    BY <1>3, <1>4 DEF EndOfFrame, Return

\* The frame ends the exchange without an answer.
LEMMA FrameRefused ==
    ASSUME AnswerInv, NEW F, F = answer.frames, NEW k \in Nat,
           UNCHANGED <<answer, sent, body>>, down' \in Seq(Frames),
           headerBlock' \in Seq(Frames),
           Under(down', k + 1, sent, F), pc' = "done", result' # "ok"
    PROVE  AnswerInv'
  <1>1. Under(down', k + 1, sent', answer'.frames) /\ k + 1 \in Nat
    OBVIOUS
  <1>2. QED
    BY <1>1 DEF AnswerInv, WholeAnswer

\* Only a CONTINUATION follows a block that goes on, and nothing else goes on.
LEMMA NoBlockGoesOn ==
    ASSUME NEW F, Lawful(F), NEW k \in Nat, k + 1 <= Len(F), Len(F) \in Nat,
           F[k + 1].type # "continuation"
    PROVE  \A b \in 1 .. k : ~ Goes(F, b, k)
  <1>1. SUFFICES ASSUME NEW b \in 1 .. k, Goes(F, b, k) PROVE FALSE
    OBVIOUS
  <1>2. PICK j \in Nat : j = k + 1
    OBVIOUS
  <1>3. DOMAIN F = 1 .. Len(F)
    BY DEF Lawful
  <1>4. b \in DOMAIN F /\ j \in DOMAIN F /\ b < j
    BY <1>2, <1>3
  <1>5. Goes(F, b, j - 1)
    BY <1>1, <1>2
  <1>6. QED
    BY <1>2, <1>4, <1>5 DEF Lawful

LEMMA BlockGoesOn ==
    ASSUME NEW F, Lawful(F), NEW k \in Nat, k + 1 <= Len(F), Len(F) \in Nat,
           F[k + 1].type = "continuation"
    PROVE  \E b \in 1 .. k : Goes(F, b, k)
  <1>1. PICK j \in Nat : j = k + 1
    OBVIOUS
  <1>2. DOMAIN F = 1 .. Len(F)
    BY DEF Lawful
  <1>3. j \in DOMAIN F
    BY <1>1, <1>2
  <1>4. \E b \in 1 .. j - 1 : Goes(F, b, j - 1)
    BY <1>1, <1>3 DEF Lawful
  <1>5. QED
    BY <1>1, <1>4

LEMMA OneBlock ==
    ASSUME NEW F, Lawful(F), NEW k \in Nat, k <= Len(F), Len(F) \in Nat,
           NEW b \in 1 .. k, NEW c \in 1 .. k, Goes(F, b, k), F[c].type = "headers"
    PROVE  c <= b
  <1>1. SUFFICES ASSUME b < c PROVE FALSE
    OBVIOUS
  <1>2. b \in DOMAIN F /\ c \in DOMAIN F
    <2>1. DOMAIN F = 1 .. Len(F)
      BY DEF Lawful
    <2>2. QED
      BY <2>1
  <1>3. Goes(F, b, c - 1)
    BY <1>1 DEF Goes
  <1>4. F[c].type = "continuation"
    BY <1>1, <1>2, <1>3 DEF Lawful
  <1>5. QED
    BY <1>4

\* A frame that belongs to no header block.
LEMMA OtherFrame ==
    ASSUME NEW F, Lawful(F), NEW k \in Nat, k + 1 <= Len(F), Len(F) \in Nat,
           F[k + 1].type \notin {"headers", "continuation"},
           BlockAt(F, k), StatusAt(F, k),
           UNCHANGED <<headerBlock, statusCode>>, headersEnded' = headersEnded
    PROVE  BlockAt(F, k + 1)' /\ StatusAt(F, k + 1)'
  <1>1. \A b \in 1 .. k : ~ Goes(F, b, k)
    BY NoBlockGoesOn
  <1>2. \A b \in 1 .. k + 1 : F[b].type = "headers" => b \in 1 .. k
    OBVIOUS
  <1>3. \A b \in 1 .. k + 1 : ~ Goes(F, b, k + 1)
    <2>1. SUFFICES ASSUME NEW b \in 1 .. k + 1, Goes(F, b, k + 1) PROVE FALSE
      OBVIOUS
    <2>2. b \in 1 .. k
      BY <1>2, <2>1 DEF Goes
    <2>3. Goes(F, b, k)
      BY <2>1, <2>2 DEF Goes
    <2>4. QED
      BY <1>1, <2>2, <2>3
  <1>4. BlockAt(F, k + 1)'
    BY <1>1, <1>3 DEF BlockAt
  <1>5. StatusAt(F, k + 1)'
    <2>1. SUFFICES ASSUME headersEnded' PROVE StatusOf(F, k + 1, statusCode')
      BY DEF StatusAt
    <2>2. PICK b \in 1 .. k :
              /\ F[b].type = "headers" /\ statusCode = F[b].status
              /\ \A c \in b + 1 .. k : F[c].type = "headers" => Goes(F, c, k)
      BY <2>1 DEF StatusAt, StatusOf
    <2>3. \A c \in b + 1 .. k + 1 : F[c].type # "headers"
      <3>1. SUFFICES ASSUME NEW c \in b + 1 .. k + 1, F[c].type = "headers"
                     PROVE  FALSE
        OBVIOUS
      <3>2. c \in 1 .. k /\ c \in b + 1 .. k
        BY <1>2, <3>1
      <3>3. QED
        BY <1>1, <2>2, <3>1, <3>2
    <2>4. b \in 1 .. k + 1
      OBVIOUS
    <2>5. QED
      BY <2>2, <2>3, <2>4 DEF StatusOf
  <1>6. QED
    BY <1>4, <1>5

\* The first fragment of the block that the frame after the first k belongs to.
FirstOf(F, k, b) ==
    /\ b \in 1 .. k + 1 /\ F[b].type = "headers"
    /\ \A i \in b .. k : ~ F[i].endHeaders
    /\ \A c \in b + 1 .. k + 1 : F[c].type # "headers"

Starts(F, k, frame) == \E b : FirstOf(F, k, b) /\ frame = F[b]

LEMMA Fragments ==
    ASSUME NEW F, Lawful(F), NEW k \in Nat, k + 1 <= Len(F), Len(F) \in Nat,
           F[k + 1].type \in {"headers", "continuation"}, F[k + 1] \in Frames,
           BlockAt(F, k), headerBlock \in Seq(Frames),
           NEW s, s = Append(headerBlock, F[k + 1])
    PROVE  /\ s \in Seq(Frames) /\ s # <<>>
           /\ Starts(F, k, Head(s))
  <1>1. /\ s \in Seq(Frames) /\ s # <<>> /\ Len(s) = Len(headerBlock) + 1
        /\ \A i \in 1 .. Len(headerBlock) : s[i] = headerBlock[i]
        /\ s[Len(headerBlock) + 1] = F[k + 1]
    BY AppendProperties
  <1>2. Head(s) = s[1]
    BY <1>1
  <1>3. CASE F[k + 1].type = "headers"
    <2>1. \A b \in 1 .. k : ~ Goes(F, b, k)
      BY <1>3, NoBlockGoesOn
    <2>2. headerBlock = <<>>
      BY <2>1 DEF BlockAt
    <2>3. Head(s) = F[k + 1]
      BY <1>1, <1>2, <2>2
    <2>4. FirstOf(F, k, k + 1)
      BY <1>3 DEF FirstOf
    <2>5. QED
      BY <1>1, <2>3, <2>4 DEF Starts
  <1>4. CASE F[k + 1].type = "continuation"
    <2>1. \E b \in 1 .. k : Goes(F, b, k)
      BY <1>4, BlockGoesOn
    <2>2. headerBlock # <<>>
      BY <2>1 DEF BlockAt
    <2>3. PICK b \in 1 .. k : Goes(F, b, k) /\ Head(headerBlock) = F[b]
      BY <2>2 DEF BlockAt
    <2>4. Head(s) = F[b]
      <3>1. Len(headerBlock) >= 1 /\ headerBlock[1] = Head(headerBlock)
        BY <2>2
      <3>2. QED
        BY <1>1, <1>2, <2>3, <3>1
    <2>5. \A c \in b + 1 .. k + 1 : F[c].type # "headers"
      <3>1. SUFFICES ASSUME NEW c \in b + 1 .. k + 1, F[c].type = "headers"
                     PROVE  FALSE
        OBVIOUS
      <3>2. c \in 1 .. k
        BY <1>4, <3>1
      <3>3. c <= b
        BY <2>3, <3>1, <3>2, OneBlock, SMTT(30)
      <3>4. QED
        BY <3>2, <3>3
    <2>6. FirstOf(F, k, b)
      BY <2>3, <2>5 DEF FirstOf, Goes
    <2>7. QED
      BY <1>1, <2>4, <2>6 DEF Starts
  <1>5. QED
    BY <1>3, <1>4

\* The fragment is kept: the block goes on.
LEMMA FragmentKept ==
    ASSUME NEW F, NEW k \in Nat, NEW b, FirstOf(F, k, b),
           ~ F[k + 1].endHeaders, StatusAt(F, k),
           headerBlock' # <<>>, Head(headerBlock') = F[b],
           headersEnded' = headersEnded, statusCode' = statusCode
    PROVE  BlockAt(F, k + 1)' /\ StatusAt(F, k + 1)'
  <1>1. b \in 1 .. k + 1 /\ Goes(F, b, k + 1)
    <2>1. \A i \in b .. k + 1 : ~ F[i].endHeaders
      BY DEF FirstOf
    <2>2. QED
      BY <2>1 DEF FirstOf, Goes
  <1>2. BlockAt(F, k + 1)'
    BY <1>1 DEF BlockAt
  <1>3. StatusAt(F, k + 1)'
    <2>1. SUFFICES ASSUME headersEnded' PROVE StatusOf(F, k + 1, statusCode')
      BY DEF StatusAt
    <2>2. PICK a \in 1 .. k :
              /\ F[a].type = "headers" /\ statusCode = F[a].status
              /\ \A c \in a + 1 .. k : F[c].type = "headers" => Goes(F, c, k)
      BY <2>1 DEF StatusAt, StatusOf
    <2>3. ASSUME NEW c \in a + 1 .. k + 1, F[c].type = "headers"
          PROVE  Goes(F, c, k + 1)
      <3>1. CASE c = k + 1
        BY <2>3, <3>1 DEF Goes
      <3>2. CASE c # k + 1
        <4>1. c \in a + 1 .. k
          BY <3>2
        <4>2. Goes(F, c, k)
          BY <2>2, <2>3, <4>1
        <4>3. \A i \in c .. k + 1 : ~ F[i].endHeaders
          BY <4>1, <4>2 DEF Goes
        <4>4. QED
          BY <2>3, <4>3 DEF Goes
      <3>3. QED
        BY <3>1, <3>2
    <2>4. a \in 1 .. k + 1
      OBVIOUS
    <2>5. QED
      BY <2>2, <2>3, <2>4 DEF StatusOf
  <1>4. QED
    BY <1>2, <1>3

\* The fragment ends its block: the status is that of its first fragment.
LEMMA BlockEnds ==
    ASSUME NEW F, NEW k \in Nat, NEW b, FirstOf(F, k, b), F[k + 1].endHeaders,
           headerBlock' = <<>>, statusCode' = F[b].status
    PROVE  BlockAt(F, k + 1)' /\ StatusAt(F, k + 1)'
  <1>1. \A c \in 1 .. k + 1 : ~ Goes(F, c, k + 1)
    BY DEF Goes
  <1>2. BlockAt(F, k + 1)'
    BY <1>1 DEF BlockAt
  <1>3. StatusAt(F, k + 1)'
    BY DEF StatusAt, StatusOf, FirstOf
  <1>4. QED
    BY <1>2, <1>3

LEMMA FragmentKeepsAnswer ==
    ASSUME AnswerInv, NEW F, F = answer.frames, Lawful(F), result # "ok",
           Len(F) \in Nat, NEW k \in Nat, k + 1 <= Len(F),
           ReadAt(F, k), Head(down) = F[k + 1],
           F[k + 1].type \in {"headers", "continuation"}, F[k + 1] \in Frames,
           Under(down', k + 1, sent, F), down' \in Seq(Frames),
           UNCHANGED <<answer, sent, body>>,
           NEW streamEnd, ReadFragment(streamEnd),
           streamEnd => streamEnded \/ F[k + 1].endStream
    PROVE  AnswerInv'
  <1>1. PICK s : s = Append(headerBlock, F[k + 1])
    OBVIOUS
  <1>2. headerBlock \in Seq(Frames) /\ BlockAt(F, k) /\ StatusAt(F, k)
    BY DEF AnswerInv, ReadAt
  <1>3. s \in Seq(Frames) /\ s # <<>>
    BY <1>1, <1>2, Fragments
  <1>4. PICK b : FirstOf(F, k, b) /\ Head(s) = F[b]
    <2>1. Starts(F, k, Head(s))
      BY <1>1, <1>2, Fragments
    <2>2. QED
      BY <2>1 DEF Starts
  <1>5. Cardinality(DataIn(F, k + 1)) = Cardinality(DataIn(F, k))
    BY DataCounted
  <1>6. body' = Cardinality(DataIn(F, k + 1)) /\ body' \in 0 .. MaxBody
    BY <1>5 DEF ReadAt, AnswerInv
  <1>7. streamEnd => \E i \in 1 .. k + 1 : F[i].endStream
    BY DEF ReadAt
  <1>8. CASE /\ ~ F[k + 1].endHeaders /\ headerBlock' = s
             /\ EndOfFrame(headersEnded, streamEnd) /\ statusCode' = statusCode
    <2>1. headersEnded' = headersEnded /\ streamEnded' = streamEnd
      BY <1>8 DEF EndOfFrame
    <2>2. BlockAt(F, k + 1)' /\ StatusAt(F, k + 1)'
      BY <1>2, <1>3, <1>4, <1>8, <2>1, FragmentKept
    <2>3. ReadAt(F, k + 1)'
      BY <1>6, <1>7, <2>1, <2>2 DEF ReadAt
    <2>4. QED
      BY <1>3, <1>6, <1>8, <2>3, FrameDone
  <1>9. CASE /\ F[k + 1].endHeaders /\ headerBlock' = <<>>
             /\ statusCode' = Head(s).status /\ EndOfFrame(TRUE, streamEnd)
    <2>1. streamEnded' = streamEnd
      BY <1>9 DEF EndOfFrame
    <2>2. BlockAt(F, k + 1)' /\ StatusAt(F, k + 1)'
      BY <1>4, <1>9, BlockEnds
    <2>3. ReadAt(F, k + 1)'
      BY <1>6, <1>7, <2>1, <2>2 DEF ReadAt
    <2>4. headerBlock' \in Seq(Frames)
      BY <1>9
    <2>5. QED
      BY <1>6, <1>9, <2>3, <2>4, FrameDone
  <1>10. CASE headerBlock' = s /\ pc' = "done" /\ result' # "ok"
    BY <1>3, <1>10, FrameRefused
  <1>11. QED
    BY <1>1, <1>8, <1>9, <1>10 DEF ReadFragment, Return

LEMMA FragmentRead ==
    ASSUME AnswerInv, NEW type \in {"headers", "continuation"}, Takes(type),
           NEW streamEnd, ReadFragment(streamEnd),
           streamEnd => streamEnded \/ Head(down).endStream,
           UNCHANGED <<answer, sent, body>>
    PROVE  AnswerInv'
  <1>1. PICK F : F = answer.frames
    OBVIOUS
  <1>2. Lawful(F) /\ result # "ok" /\ Len(F) \in Nat /\ down' \in Seq(Frames)
    BY <1>1, FrameTaken
  <1>3. PICK k \in Nat : /\ ReadAt(F, k) /\ k + 1 <= Len(F)
                         /\ Head(down) = F[k + 1] /\ F[k + 1].type = type
                         /\ F[k + 1] \in Frames
                         /\ Under(down', k + 1, sent, F)
    BY <1>1, FrameTaken
  <1>4. F[k + 1].type \in {"headers", "continuation"}
    BY <1>3
  <1>5. streamEnd => streamEnded \/ F[k + 1].endStream
    BY <1>3
  <1>6. QED
    BY <1>1, <1>2, <1>3, <1>4, <1>5, FragmentKeepsAnswer

LEMMA HeadersKeepAnswer ==
    ASSUME AnswerInv, ReadHeaders \/ ReadContinuation
    PROVE  AnswerInv'
  <1>1. UNCHANGED <<answer, sent, body>>
    BY DEF ReadHeaders, ReadContinuation, server
  <1>2. CASE ReadHeaders
    <2>1. PICK e : e = (streamEnded \/ Head(down).endStream)
      OBVIOUS
    <2>2. ReadFragment(e) /\ Takes("headers")
      BY <1>2, <2>1, Zenon DEF ReadHeaders
    <2>3. e => streamEnded \/ Head(down).endStream
      BY <2>1
    <2>4. QED
      BY <1>1, <2>2, <2>3, FragmentRead
  <1>3. CASE ReadContinuation
    <2>1. ReadFragment(streamEnded) /\ Takes("continuation")
      BY <1>3 DEF ReadContinuation
    <2>2. QED
      BY <1>1, <2>1, FragmentRead
  <1>4. QED
    BY <1>2, <1>3

LEMMA DataKeepsAnswer ==
    ASSUME AnswerInv, ReadData
    PROVE  AnswerInv'
  <1>1. PICK F : F = answer.frames
    OBVIOUS
  <1>2. Takes("data") /\ UNCHANGED <<answer, sent, headerBlock, statusCode>>
    BY DEF ReadData, server
  <1>3. Lawful(F) /\ result # "ok" /\ Len(F) \in Nat /\ down' \in Seq(Frames)
    BY <1>1, <1>2, FrameTaken
  <1>4. PICK k \in Nat : /\ ReadAt(F, k) /\ k + 1 <= Len(F)
                         /\ Head(down) = F[k + 1] /\ F[k + 1].type = "data"
                         /\ F[k + 1] \in Frames
                         /\ Under(down', k + 1, sent, F)
    BY <1>1, <1>2, FrameTaken
  <1>5. headerBlock' \in Seq(Frames)
    BY <1>2 DEF AnswerInv
  <1>6. CASE pc' = "done" /\ result' = "body too large" /\ body' = body
    BY <1>1, <1>2, <1>3, <1>4, <1>5, <1>6, FrameRefused
  <1>7. CASE /\ body + 1 <= MaxBody /\ body' = body + 1
             /\ EndOfFrame(headersEnded, streamEnded \/ Head(down).endStream)
    <2>1. headersEnded' = headersEnded
          /\ streamEnded' = (streamEnded \/ F[k + 1].endStream)
      BY <1>4, <1>7 DEF EndOfFrame
    <2>2. BlockAt(F, k + 1)' /\ StatusAt(F, k + 1)'
      BY <1>2, <1>3, <1>4, <2>1, OtherFrame DEF ReadAt
    <2>3. body' = Cardinality(DataIn(F, k + 1))
      BY <1>4, <1>7, DataCounted DEF ReadAt
    <2>4. streamEnded' => \E i \in 1 .. k + 1 : F[i].endStream
      <3>1. streamEnded' => streamEnded \/ F[k + 1].endStream
        BY <2>1
      <3>2. streamEnded => \E i \in 1 .. k : F[i].endStream
        BY <1>4 DEF ReadAt
      <3>3. QED
        BY <3>1, <3>2
    <2>5. ReadAt(F, k + 1)'
      BY <2>2, <2>3, <2>4 DEF ReadAt
    <2>6. body' \in 0 .. MaxBody
      BY <1>7, ExchangeAssumption DEF AnswerInv
    <2>7. QED
      BY <1>1, <1>2, <1>3, <1>4, <1>5, <1>7, <2>5, <2>6, FrameDone
  <1>8. QED
    BY <1>6, <1>7 DEF ReadData, Return

\* Frames that change nothing the reader keeps.
LEMMA OthersKeepAnswer ==
    ASSUME AnswerInv, ReadSettings \/ ReadRefusal \/ ReadIgnored
    PROVE  AnswerInv'
  <1>1. PICK F : F = answer.frames
    OBVIOUS
  <1>2. PICK type \in {"settings", "rst_stream", "goaway_error", "ping", "goaway", "other"} :
            Takes(type)
    BY DEF ReadSettings, ReadRefusal, ReadIgnored
  <1>3. UNCHANGED <<answer, sent, body, headerBlock, statusCode, headersEnded,
                    streamEnded>>
    BY DEF ReadSettings, ReadRefusal, ReadIgnored, reader, server
  <1>4. Lawful(F) /\ result # "ok" /\ Len(F) \in Nat /\ down' \in Seq(Frames)
    BY <1>1, <1>2, FrameTaken
  <1>5. PICK k \in Nat : /\ ReadAt(F, k) /\ k + 1 <= Len(F)
                         /\ F[k + 1].type = type /\ Under(down', k + 1, sent, F)
    BY <1>1, <1>2, FrameTaken
  <1>6. headerBlock' \in Seq(Frames)
    BY <1>3 DEF AnswerInv
  <1>7. CASE pc' = "done" /\ result' # "ok"
    BY <1>1, <1>3, <1>4, <1>5, <1>6, <1>7, FrameRefused
  <1>8. CASE pc' = pc /\ result' = result
    <2>1. F[k + 1].type \notin {"headers", "continuation"} /\ F[k + 1].type # "data"
      BY <1>2, <1>5
    <2>2. BlockAt(F, k + 1)' /\ StatusAt(F, k + 1)'
      BY <1>3, <1>4, <1>5, <2>1, OtherFrame DEF ReadAt
    <2>3. body' = Cardinality(DataIn(F, k + 1))
      BY <1>3, <1>5, <2>1, DataCounted DEF ReadAt
    <2>4. streamEnded' => \E i \in 1 .. k + 1 : F[i].endStream
      BY <1>3, <1>5 DEF ReadAt
    <2>5. ReadAt(F, k + 1)'
      BY <2>2, <2>3, <2>4 DEF ReadAt
    <2>6. WholeAnswer'
      BY <1>4, <1>8 DEF WholeAnswer
    <2>7. Under(down', k + 1, sent', answer'.frames) /\ k + 1 \in Nat
      BY <1>1, <1>3, <1>5
    <2>8. QED
      BY <1>1, <1>3, <1>4, <1>6, <1>8, <2>5, <2>6, <2>7 DEF AnswerInv
  <1>9. QED
    BY <1>7, <1>8 DEF ReadSettings, ReadRefusal, ReadIgnored, Return

LEMMA AnswerKept == AnswerInv /\ [Next]_vars => AnswerInv'
  <1> SUFFICES ASSUME AnswerInv, [Next]_vars PROVE AnswerInv'
    OBVIOUS
  <1>1. CASE \/ Dial \/ WriteFrame \/ StartRead \/ ReadEnds \/ HeaderTimeout
             \/ TotalTimeout \/ ServerReads \/ ServerCloses \/ UNCHANGED vars
    <2>1. UNCHANGED <<answer, down, sent, headerBlock, statusCode, headersEnded,
                      streamEnded, body>>
      BY <1>1 DEF Dial, WriteFrame, StartRead, ReadEnds, HeaderTimeout,
         TotalTimeout, ServerReads, ServerCloses, reader, server, vars
    <2>2. \/ result' = result /\ (pc = "done" <=> pc' = "done")
          \/ result' # "ok" /\ pc' = "done"
      BY <1>1 DEF Dial, WriteFrame, StartRead, ReadEnds, HeaderTimeout,
         TotalTimeout, ServerReads, ServerCloses, Return, vars
    <2>3. QED
      BY <2>1, <2>2, AsideKeepsAnswer
  <1>2. CASE ReadHeaders \/ ReadContinuation
    BY <1>2, HeadersKeepAnswer
  <1>3. CASE ReadData
    BY <1>3, DataKeepsAnswer
  <1>4. CASE ReadSettings \/ ReadRefusal \/ ReadIgnored
    BY <1>4, OthersKeepAnswer
  <1>5. CASE ServerSends
    BY <1>5, SendKeepsAnswer
  <1>6. QED
    BY <1>1, <1>2, <1>3, <1>4, <1>5 DEF Next, Client

\* Whatever lawful answer a server gives and however its frames come, between
\* frames of other streams, after interim answers, in pieces, a response that
\* RoundTrip returns has all of the body and, but for the two kinds of answers
\* WholeAnswer names, the final status (readHTTP2Response).
THEOREM AnswersComeWhole == Spec => []WholeAnswer
  <1>1. AnswerInv => WholeAnswer
    BY DEF AnswerInv
  <1>2. QED
    BY AnswerInitially, AnswerKept, <1>1, PTL DEF Spec

-----------------------------------------------------------------------------
(* Standing still: how far the client is with the answer, and what the     *)
(* server may still send.                                                  *)

\* The client is still there after the first k frames F of the answer: none of
\* them refused it, and those that end the headers and the stream have not both
\* come.
ProgressAt(F, k) ==
    /\ \A i \in 1 .. k : F[i].type \notin {"rst_stream", "goaway_error"}
    /\ \A i \in 1 .. k : F[i].endStream => streamEnded
    /\ \A i \in 1 .. k : F[i].type \in {"headers", "continuation"} /\ F[i].endHeaders =>
                             headersEnded
    /\ ~ (headersEnded /\ streamEnded)

ProgressInv ==
    pc # "done" => \E k \in Nat : /\ Under(down, k, sent, answer.frames)
                                  /\ ProgressAt(answer.frames, k)

\* With the first n frames of the request read and d units of data sent, the
\* windows are those opened so far, less those units; no unit is sent before the
\* headers, which come after all that opens a window, are read.
Granted(n, d) ==
    /\ n < HeadersAt => d = 0
    /\ window \in [conn : Nat, stream : Nat]
    /\ window.conn + d = ConnWindow + (IF n >= 2 THEN WindowUpdate(fp) ELSE 0)
    /\ window.stream + d =
          IF n >= 1 THEN StreamWindow(Settings(fp), ConnWindow) ELSE ConnWindow

WindowInv ==
    \E n \in Nat : WireAt(n) /\ Granted(n, Cardinality(DataIn(answer.frames, sent)))

PhaseInv == pc \in {"dial", "write", "read", "done"}

StallInv == WireInv /\ AnswerInv /\ PhaseInv /\ ProgressInv /\ WindowInv

\* A frame is taken when the client has read k of them.
LEMMA NextFrame ==
    ASSUME AnswerInv, NEW type, Takes(type), NEW F, F = answer.frames,
           NEW k \in Nat, Under(down, k, sent, F)
    PROVE  /\ Lawful(F) /\ Len(F) \in Nat /\ k + 1 <= Len(F)
           /\ Head(down) = F[k + 1] /\ F[k + 1].type = type
           /\ Under(down', k + 1, sent, F)
  <1>1. PICK j \in Nat : /\ j + 1 <= Len(F)
                         /\ Head(down) = F[j + 1] /\ F[j + 1].type = type
                         /\ Under(down', j + 1, sent, F)
    BY FrameTaken
  <1>2. down \in Seq(Frames) /\ down # <<>> /\ down' = Tail(down)
    BY DEF AnswerInv, Takes
  <1>3. Len(down) \in Nat /\ Len(down') = Len(down) - 1
    BY <1>2, HeadTailProperties
  <1>4. (j + 1) + Len(down') = sent /\ k + Len(down) = sent
    BY <1>1 DEF Under
  <1>5. j = k
    BY <1>3, <1>4
  <1>6. Lawful(F) /\ Len(F) \in Nat
    BY FrameTaken
  <1>7. QED
    BY <1>1, <1>5, <1>6

\* Only HEADERS and DATA end the stream.
LEMMA EndOfStream ==
    ASSUME NEW F, Lawful(F), NEW k \in Nat, k + 1 <= Len(F), Len(F) \in Nat,
           F[k + 1].endStream
    PROVE  F[k + 1].type \in {"headers", "data"}
  <1>1. PICK j \in Nat : j = k + 1
    OBVIOUS
  <1>2. DOMAIN F = 1 .. Len(F)
    BY DEF Lawful
  <1>3. j \in DOMAIN F /\ F[j].endStream
    BY <1>1, <1>2
  <1>4. F[j].type \in {"headers", "data"}
    BY <1>3 DEF Lawful
  <1>5. QED
    BY <1>1, <1>4

\* A frame is read and the client goes on.
LEMMA FrameGoesOn ==
    ASSUME AnswerInv, ProgressInv, NEW type, Takes(type),
           type \notin {"rst_stream", "goaway_error"},
           UNCHANGED <<answer, sent>>,
           streamEnded => streamEnded', headersEnded => headersEnded',
           type \in {"headers", "data"} /\ Head(down).endStream => streamEnded',
           type \in {"headers", "continuation"} /\ Head(down).endHeaders => headersEnded',
           ~ (headersEnded' /\ streamEnded')
    PROVE  ProgressInv'
  <1>1. PICK F : F = answer.frames
    OBVIOUS
  <1>2. PICK k \in Nat : Under(down, k, sent, F) /\ ProgressAt(F, k)
    BY <1>1 DEF ProgressInv, Takes
  <1>3. /\ Lawful(F) /\ Len(F) \in Nat /\ k + 1 <= Len(F)
        /\ Head(down) = F[k + 1] /\ F[k + 1].type = type
        /\ Under(down', k + 1, sent, F)
    BY <1>1, <1>2, NextFrame
  <1>4. F[k + 1].endStream => streamEnded'
    BY <1>3, EndOfStream
  <1>5. \A i \in 1 .. k + 1 : i \in 1 .. k \/ i = k + 1
    OBVIOUS
  <1>6. ProgressAt(F, k + 1)'
    BY <1>2, <1>3, <1>4, <1>5 DEF ProgressAt
  <1>7. k + 1 \in Nat /\ Under(down', k + 1, sent', answer'.frames)
    BY <1>1, <1>3
  <1>8. QED
    BY <1>1, <1>6, <1>7 DEF ProgressInv

LEMMA FragmentGoesOn ==
    ASSUME NEW streamEnd, ReadFragment(streamEnd), pc = "read", pc' # "done"
    PROVE  /\ streamEnded' = streamEnd
           /\ headersEnded => headersEnded'
           /\ Head(down).endHeaders => headersEnded'
           /\ ~ (headersEnded' /\ streamEnded')
  <1>1. PICK end : /\ EndOfFrame(end, streamEnd)
                   /\ headersEnded => end
                   /\ Head(down).endHeaders => end
    <2>1. \/ ~ Head(down).endHeaders /\ EndOfFrame(headersEnded, streamEnd)
          \/ EndOfFrame(TRUE, streamEnd)
      BY DEF ReadFragment, Return
    <2>2. QED
      BY <2>1
  <1>2. headersEnded' = end /\ streamEnded' = streamEnd /\ ~ (end /\ streamEnd)
    BY <1>1 DEF EndOfFrame, Return
  <1>3. QED
    BY <1>1, <1>2

LEMMA ProgressKept ==
    ASSUME AnswerInv, ProgressInv, [Next]_vars
    PROVE  ProgressInv'
  <1> SUFFICES ASSUME pc' # "done" PROVE ProgressInv'
    BY DEF ProgressInv
  <1>1. CASE ReadHeaders
    <2>1. PICK e : e = (streamEnded \/ Head(down).endStream)
      OBVIOUS
    <2>2. ReadFragment(e) /\ Takes("headers") /\ pc = "read" /\ UNCHANGED <<answer, sent>>
      BY <1>1, <2>1, Zenon DEF ReadHeaders, Takes, server
    <2>3. /\ streamEnded' = e
          /\ headersEnded => headersEnded'
          /\ Head(down).endHeaders => headersEnded'
          /\ ~ (headersEnded' /\ streamEnded')
      BY <2>2, FragmentGoesOn
    <2>4. (streamEnded => streamEnded') /\ (Head(down).endStream => streamEnded')
      BY <2>1, <2>3
    <2>5. QED
      BY <2>2, <2>3, <2>4, FrameGoesOn
  <1>2. CASE ReadContinuation
    <2>1. /\ ReadFragment(streamEnded) /\ Takes("continuation") /\ pc = "read"
          /\ UNCHANGED <<answer, sent>>
      BY <1>2 DEF ReadContinuation, Takes, server
    <2>2. /\ streamEnded' = streamEnded
          /\ headersEnded => headersEnded'
          /\ Head(down).endHeaders => headersEnded'
          /\ ~ (headersEnded' /\ streamEnded')
      BY <2>1, FragmentGoesOn
    <2>3. QED
      BY <2>1, <2>2, FrameGoesOn
  <1>3. CASE ReadData
    <2>1. Takes("data") /\ UNCHANGED <<answer, sent>>
      BY <1>3 DEF ReadData, server
    <2>2. EndOfFrame(headersEnded, streamEnded \/ Head(down).endStream)
      BY <1>3 DEF ReadData, Return
    <2>3. pc = "read"
      BY <2>1 DEF Takes
    <2>4. /\ headersEnded' = headersEnded
          /\ streamEnded' = (streamEnded \/ Head(down).endStream)
          /\ ~ (headersEnded /\ (streamEnded \/ Head(down).endStream))
      BY <2>2 DEF EndOfFrame, Return
    <2>5. QED
      BY <2>1, <2>4, FrameGoesOn
  <1>4. CASE ReadSettings \/ ReadIgnored
    <2>1. PICK type \in {"settings", "ping", "goaway", "other"} : Takes(type)
      BY <1>4 DEF ReadSettings, ReadIgnored
    <2>2. UNCHANGED <<answer, sent, headersEnded, streamEnded>>
      BY <1>4 DEF ReadSettings, ReadIgnored, reader, server
    <2>3. ~ (headersEnded /\ streamEnded)
      BY <2>1 DEF ProgressInv, ProgressAt, Takes
    <2>4. QED
      BY <2>1, <2>2, <2>3, FrameGoesOn
  <1>5. CASE ReadRefusal \/ ReadEnds \/ HeaderTimeout \/ TotalTimeout
    BY <1>5 DEF ReadRefusal, ReadEnds, HeaderTimeout, TotalTimeout, Return
  <1>6. CASE \/ Dial \/ WriteFrame \/ StartRead \/ ServerReads \/ ServerCloses
             \/ UNCHANGED vars
    <2>1. UNCHANGED <<answer, down, sent, headersEnded, streamEnded>> /\ pc # "done"
      BY <1>6 DEF Dial, WriteFrame, StartRead, ServerReads, ServerCloses, reader,
         server, vars
    <2>2. QED
      BY <2>1 DEF ProgressInv, ProgressAt
  <1>7. CASE ServerSends
    <2>1. PICK F : F = answer.frames
      OBVIOUS
    <2>2. PICK k \in Nat : Under(down, k, sent, F) /\ ProgressAt(F, k)
      BY <1>7, <2>1 DEF ProgressInv, ServerSends
    <2>3. /\ UNCHANGED <<answer, headersEnded, streamEnded>>
          /\ sent < Len(F) /\ sent' = sent + 1 /\ down' = Append(down, F[sent + 1])
      BY <1>7, <2>1 DEF ServerSends, reader
    <2>4. Under(down', k, sent + 1, F)
      BY <2>1, <2>2, <2>3, OneMoreUnder
    <2>5. ProgressAt(F, k)'
      BY <2>2, <2>3 DEF ProgressAt
    <2>6. QED
      BY <2>1, <2>3, <2>4, <2>5 DEF ProgressInv
  <1>8. QED
    BY <1>1, <1>2, <1>3, <1>4, <1>5, <1>6, <1>7 DEF Next, Client

\* What opens a window, before the headers.
LEMMA OpeningAre ==
    ASSUME NEW f, NEW O, O = OpeningFrames(f)
    PROVE  /\ Len(O) \in {1, 2}
           /\ O[1] = [type |-> "settings", settings |-> Settings(f)]
           /\ Len(O) = 1 => ~ (WindowUpdate(f) > 0)
           /\ Len(O) = 2 => O[2] = [type |-> "window_update", size |-> WindowUpdate(f)]
  <1> DEFINE S == [type |-> "settings", settings |-> Settings(f)]
             W == [type |-> "window_update", size |-> WindowUpdate(f)]
  <1>1. O = <<S>> \o (IF WindowUpdate(f) > 0 THEN <<W>> ELSE <<>>)
    BY DEF OpeningFrames
  <1> HIDE DEF S, W
  <1>2. CASE WindowUpdate(f) > 0
    <2>1. O = <<S>> \o <<W>>
      BY <1>1, <1>2
    <2>2. Len(O) = 2 /\ O[1] = S /\ O[2] = W
      BY <2>1
    <2>3. QED
      BY <2>2 DEF S, W
  <1>3. CASE ~ (WindowUpdate(f) > 0)
    <2>1. O = <<S>> \o <<>>
      BY <1>1, <1>3
    <2>2. Len(O) = 1 /\ O[1] = S
      BY <2>1
    <2>3. QED
      BY <1>3, <2>2 DEF S
  <1>4. QED
    BY <1>2, <1>3

\* The windows, which are numbers, after one more frame of the request.
LEMMA OneMoreGranted ==
    ASSUME WireInv, NEW n \in Nat, n + 1 <= Len(Wire), NEW d \in Nat, Granted(n, d),
           Grows(Wire[n + 1]), UNCHANGED ask
    PROVE  Granted(n + 1, d)'
  <1>1. fp' = fp /\ req' = req /\ fp \in Fingerprints
    BY DEF ask, WireInv
  <1>2. HeadersAt' = HeadersAt
    BY <1>1 DEF HeadersAt
  <1>3. PICK F : F = Wire
    OBVIOUS
  <1>4. PICK h : h = HeadersAt
    OBVIOUS
  <1>5. PICK O : O = OpeningFrames(fp)
    OBVIOUS
  <1>6. PICK fields : fields = HeaderFields(Asked, fp)
    OBVIOUS
  <1>7. req \in Requests
    BY DEF WireInv
  <1>8. /\ req.body \in Nat /\ Framed(F, h, req.body, fields)
        /\ \A i \in 1 .. h - 1 : F[i] = O[i]
    BY <1>1, <1>3, <1>4, <1>5, <1>6, <1>7, WireShape
  <1>9. h = Len(O) + 1 /\ h \in {2, 3}
    BY <1>4, <1>5, <1>8 DEF HeadersAt, Framed
  <1>10. /\ Len(O) \in {1, 2}
         /\ O[1] = [type |-> "settings", settings |-> Settings(fp)]
         /\ Len(O) = 1 => ~ (WindowUpdate(fp) > 0)
         /\ Len(O) = 2 => O[2] = [type |-> "window_update", size |-> WindowUpdate(fp)]
    BY <1>5, OpeningAre, Zenon
  <1>11. PICK wu \in Nat : wu = WindowUpdate(fp)
    BY <1>1, ExchangeAssumption
  <1>12. PICK sw \in Nat : sw = StreamWindow(Settings(fp), ConnWindow)
    BY <1>1, ExchangeAssumption
  <1>13. PICK cw \in Nat : cw = ConnWindow
    BY ExchangeAssumption
  <1>14. /\ n < h => d = 0
         /\ window \in [conn : Nat, stream : Nat]
         /\ window.conn + d = cw + (IF n >= 2 THEN wu ELSE 0)
         /\ window.stream + d = IF n >= 1 THEN sw ELSE cw
    BY <1>4, <1>11, <1>12, <1>13 DEF Granted
  <1>15. SUFFICES /\ n + 1 < h => d = 0
                  /\ window' \in [conn : Nat, stream : Nat]
                  /\ window'.conn + d = cw + (IF n + 1 >= 2 THEN wu ELSE 0)
                  /\ window'.stream + d = IF n + 1 >= 1 THEN sw ELSE cw
    BY <1>1, <1>2, <1>4, <1>11, <1>12, <1>13 DEF Granted
  <1>16. n + 1 < h => d = 0
    BY <1>9, <1>14
  <1>17. CASE n = 0
    <2>1. F[1] = [type |-> "settings", settings |-> Settings(fp)]
      BY <1>8, <1>9, <1>10
    <2>2. Wire[n + 1] = F[1]
      BY <1>3, <1>17
    <2>3. PICK x : x = F[1]
      OBVIOUS
    <2>4. Grows(x) /\ x.type = "settings" /\ x.settings = Settings(fp)
      BY <2>1, <2>2, <2>3
    <2>5. window' = [window EXCEPT !.stream = StreamWindow(x.settings, ConnWindow)]
      BY <2>4 DEF Grows
    <2>6. window' = [window EXCEPT !.stream = sw]
      BY <1>12, <2>4, <2>5
    <2>7. window' \in [conn : Nat, stream : Nat] /\ window'.conn = window.conn
          /\ window'.stream = sw
      BY <1>14, <2>6
    <2>8. d = 0
      BY <1>9, <1>14, <1>17
    <2>9. QED
      BY <1>14, <1>16, <1>17, <2>7, <2>8
  <1>18. CASE n = 1 /\ h = 3
    <2>1. F[2] = [type |-> "window_update", size |-> wu]
      <3>1. Len(O) = 2
        <4>1. PICK l \in {1, 2} : l = Len(O)
          BY <1>10
        <4>2. QED
          BY <1>9, <1>18, <4>1
      <3>2. O[2] = [type |-> "window_update", size |-> wu]
        BY <3>1, <1>11, <1>10
      <3>3. QED
        BY <1>8, <1>18, <3>2
    <2>2. Wire[n + 1] = F[2]
      BY <1>3, <1>18
    <2>3. PICK x : x = F[2]
      OBVIOUS
    <2>4. Grows(x) /\ x.type = "window_update" /\ x.size = wu
      BY <2>1, <2>2, <2>3
    <2>5. window' = [window EXCEPT !.conn = @ + x.size]
      BY <2>4 DEF Grows
    <2>6. window' = [window EXCEPT !.conn = window.conn + wu]
      BY <2>4, <2>5
    <2>7. window.conn \in Nat /\ window.conn + wu \in Nat
      BY <1>14, SMTT(30)
    <2>8. window' \in [conn : Nat, stream : Nat] /\ window'.stream = window.stream
          /\ window'.conn = window.conn + wu
      BY <1>14, <2>6, <2>7
    <2>9. d = 0
      BY <1>14, <1>18
    <2>10. QED
      BY <1>14, <1>16, <1>18, <2>8, <2>9
  <1>19. CASE n + 1 >= h
    <2>1. window' = window
      <3>1. PICK k \in Nat : k = n + 1 /\ k <= Len(F)
        BY <1>3
      <3>2. PICK x : x = F[k] /\ x = Wire[n + 1]
        BY <1>3, <3>1
      <3>3. x.type = "headers" \/ x.type = "data"
        <4>1. CASE k = h
          <5>1. x = [type |-> "headers", fields |-> fields, endStream |-> req.body = 0]
            BY <1>8, <3>2, <4>1 DEF Framed
          <5>2. QED
            BY <5>1
        <4>2. CASE k > h
          <5>1. k \in h + 1 .. Len(F)
            BY <1>8, <1>9, <3>1, <4>2 DEF Framed
          <5>2. x = [type |-> "data", endStream |-> k = Len(F)]
            BY <1>8, <3>2, <5>1 DEF Framed
          <5>3. QED
            BY <5>2
        <4>3. QED
          BY <1>9, <1>19, <3>1, <4>1, <4>2
      <3>4. QED
        BY <3>2, <3>3 DEF Grows
    <2>2. CASE n >= 2
      BY <1>14, <1>16, <2>1, <2>2
    <2>3. CASE n = 1 /\ h = 2
      <3>1. Len(O) = 1
        BY <1>9, <1>10, <2>3
      <3>2. ~ (wu > 0)
        BY <3>1, <1>11, <1>10
      <3>3. wu = 0
        BY <3>2
      <3>4. QED
        BY <1>14, <1>16, <2>1, <2>3, <3>3
    <2>4. QED
      BY <1>9, <1>19, <2>2, <2>3
  <1>20. QED
    BY <1>9, <1>17, <1>18, <1>19

\* The server sends only when it has read the headers.
LEMMA OneMoreSent ==
    ASSUME WireInv, AnswerInv, NEW n \in Nat, WireAt(n),
           Granted(n, Cardinality(DataIn(answer.frames, sent))), ServerSends
    PROVE  Granted(n, Cardinality(DataIn(answer.frames, sent)))'
  <1>1. PICK F : F = answer.frames
    OBVIOUS
  <1>2. PICK s \in Nat : s = sent
    BY <1>1, AnswersAssumption DEF AnswerInv, Lawful
  <1>3. PICK frame : frame = F[s + 1]
    OBVIOUS
  <1>4. /\ UNCHANGED <<ask, answer>> /\ sent' = s + 1
        /\ MaySend(frame)
        /\ window' = IF frame.type = "data"
                     THEN [conn |-> window.conn - 1, stream |-> window.stream - 1]
                     ELSE window
    BY <1>1, <1>2, <1>3 DEF ServerSends
  <1>5. fp' = fp /\ HeadersAt' = HeadersAt /\ answer'.frames = F
    BY <1>1, <1>4 DEF ask, HeadersAt
  <1>6. PICK d \in Nat : d = Cardinality(DataIn(F, s))
    BY <1>2, DataCounted
  <1>7. Granted(n, d)
    BY <1>1, <1>2, <1>6
  <1>8. CASE frame.type = "data"
    <2>1. window.conn > 0 /\ window.stream > 0 /\ (got.ends > 0 \/ got.fields # <<>>)
      BY <1>4, <1>8 DEF MaySend
    <2>2. n >= HeadersAt
      <3>1. PICK h : h = HeadersAt
        OBVIOUS
      <3>2. PICK L : L = Len(Wire)
        OBVIOUS
      <3>3. h \in {2, 3} /\ L \in Nat /\ L >= h
        <4>1. PICK F1 : F1 = Wire
          OBVIOUS
        <4>2. req.body \in Nat /\ Framed(F1, h, req.body, HeaderFields(Asked, fp))
          BY <3>1, <4>1, WireShape, Zenon DEF WireInv
        <4>3. QED
          BY <3>2, <4>1, <4>2 DEF Framed
      <3>4. got = Heard(n, h, L, HeaderFields(Asked, fp))
        BY <3>1, <3>2, Zenon DEF WireAt
      <3>5. /\ got.ends = IF n = L THEN 1 ELSE 0
            /\ got.fields = IF n >= h THEN HeaderFields(Asked, fp) ELSE <<>>
        BY <3>4 DEF Heard
      <3>6. n = L \/ n >= h
        BY <2>1, <3>5
      <3>7. QED
        BY <3>1, <3>3, <3>6
    <2>3. Cardinality(DataIn(F, s + 1)) = d + 1
      BY <1>3, <1>6, <1>8, DataCounted
    <2>4. /\ window'.conn = window.conn - 1 /\ window'.stream = window.stream - 1
          /\ window' \in [conn : Int, stream : Int]
      BY <1>4, <1>7, <1>8 DEF Granted
    <2>5. window' \in [conn : Nat, stream : Nat]
      BY <1>7, <2>1, <2>4 DEF Granted
    <2>6. window'.conn + (d + 1) = window.conn + d /\ window'.stream + (d + 1) = window.stream + d
      BY <1>7, <2>4 DEF Granted
    <2>7. HeadersAt \in {2, 3}
      <3>1. HeadersAt = Len(OpeningFrames(fp)) + 1
        BY DEF HeadersAt
      <3>2. PICK O : O = OpeningFrames(fp) /\ Len(O) \in {1, 2}
        BY OpeningAre
      <3>3. PICK l \in {1, 2} : l = Len(O)
        BY <3>2
      <3>4. HeadersAt = l + 1
        BY <3>1, <3>2, <3>3
      <3>5. QED
        BY <3>4
    <2>8. ~ (n < HeadersAt)
      BY <2>2, <2>7
    <2>9. Granted(n, d + 1)'
      BY <1>5, <1>7, <2>5, <2>6, <2>8 DEF Granted
    <2>10. QED
      BY <1>4, <1>5, <2>3, <2>9
  <1>9. CASE frame.type # "data"
    <2>1. DataIn(F, s + 1) = DataIn(F, s) /\ window' = window
      BY <1>2, <1>3, <1>4, <1>9, DataCounted
    <2>2. Granted(n, d)'
      BY <1>5, <1>7, <2>1 DEF Granted
    <2>3. QED
      BY <1>4, <1>5, <1>6, <2>1, <2>2
  <1>10. QED
    BY <1>8, <1>9

LEMMA WindowKept ==
    ASSUME WireInv, AnswerInv, WindowInv, [Next]_vars
    PROVE  WindowInv'
  <1>1. PICK n \in Nat : /\ WireAt(n)
                         /\ Granted(n, Cardinality(DataIn(answer.frames, sent)))
    BY DEF WindowInv
  <1>2. CASE ServerSends
    <2>1. Granted(n, Cardinality(DataIn(answer.frames, sent)))'
      BY <1>1, <1>2, OneMoreSent
    <2>2. ~ ServerReads
      BY <1>2 DEF ServerSends, ServerReads, server
    <2>3. WireAt(n)'
      BY <1>1, <2>2, ClientKeepsWire
    <2>4. QED
      BY <2>1, <2>3 DEF WindowInv
  <1>3. CASE ServerReads
    <2>1. UNCHANGED <<ask, answer, sent>> /\ Grows(Head(up))
      BY <1>3 DEF ServerReads
    <2>2. PICK d \in Nat : d = Cardinality(DataIn(answer.frames, sent))
      <3>1. PICK s \in Nat : s = sent
        BY AnswersAssumption DEF AnswerInv, Lawful
      <3>2. QED
        BY <3>1, DataCounted
    <2>3. d = Cardinality(DataIn(answer'.frames, sent'))
      BY <2>1, <2>2
    <2>4. CASE n + 1 <= Len(Wire) /\ Head(up) = Wire[n + 1] /\ WireAt(n + 1)'
      <3>1. Granted(n + 1, d)'
        BY <1>1, <2>1, <2>2, <2>4, OneMoreGranted
      <3>2. n + 1 \in Nat /\ WireAt(n + 1)'
        BY <2>4
      <3>3. QED
        BY <2>3, <3>1, <3>2 DEF WindowInv
    <2>5. CASE Head(up) = Ack /\ WireAt(n)'
      <3>1. window' = window
        BY <2>1, <2>5 DEF Grows, Ack
      <3>2. fp' = fp /\ HeadersAt' = HeadersAt
        BY <2>1 DEF ask, HeadersAt
      <3>3. Granted(n, d)'
        BY <1>1, <2>2, <3>1, <3>2 DEF Granted
      <3>4. QED
        BY <2>3, <2>5, <3>3 DEF WindowInv
    <2>6. QED
      BY <1>1, <1>3, <2>4, <2>5, ServerKeepsWire
  <1>4. CASE ~ ServerSends /\ ~ ServerReads
    <2>1. UNCHANGED <<ask, answer, sent, window>>
      BY <1>4 DEF Next, Client, Dial, WriteFrame, StartRead, ReadSettings, ReadHeaders,
         ReadContinuation, ReadData, ReadRefusal, ReadIgnored, ReadEnds,
         HeaderTimeout, TotalTimeout, ServerCloses, server, vars
    <2>2. fp' = fp /\ HeadersAt' = HeadersAt
      BY <2>1 DEF ask, HeadersAt
    <2>3. Granted(n, Cardinality(DataIn(answer.frames, sent)))'
      BY <1>1, <2>1, <2>2 DEF Granted
    <2>4. WireAt(n)'
      BY <1>1, <1>4, ClientKeepsWire
    <2>5. QED
      BY <2>3, <2>4 DEF WindowInv
  <1>5. QED
    BY <1>2, <1>3, <1>4

LEMMA StallInitially == Init => StallInv
  <1> SUFFICES ASSUME Init PROVE StallInv
    OBVIOUS
  <1>1. WireInv /\ AnswerInv
    BY WireInitially, AnswerInitially
  <1>2. /\ pc = "dial" /\ down = <<>> /\ sent = 0 /\ ~ headersEnded /\ ~ streamEnded
        /\ window = [conn |-> ConnWindow, stream |-> ConnWindow]
        /\ toWrite = <<>> /\ up = <<>>
    BY DEF Init
  <1>3. ProgressInv
    <2>1. Under(down, 0, sent, answer.frames)
      BY <1>2 DEF Under
    <2>2. ProgressAt(answer.frames, 0)
      BY <1>2 DEF ProgressAt
    <2>3. QED
      BY <2>1, <2>2 DEF ProgressInv
  <1>4. WindowInv
    <2>1. PICK n \in Nat : WireAt(n)
      BY <1>1 DEF WireInv
    <2>2. n = 0
      BY <1>2, <2>1 DEF WireAt
    <2>3. DataIn(answer.frames, sent) = {}
      BY <1>2 DEF DataIn
    <2>4. Cardinality(DataIn(answer.frames, sent)) = 0
      BY <2>3, FS_EmptySet
    <2>5. ConnWindow \in Nat
      BY ExchangeAssumption
    <2>6. Granted(n, 0)
      BY <1>2, <2>2, <2>5 DEF Granted
    <2>7. QED
      BY <2>1, <2>4, <2>6 DEF WindowInv
  <1>5. PhaseInv
    BY <1>2 DEF PhaseInv
  <1>6. QED
    BY <1>1, <1>3, <1>4, <1>5 DEF StallInv

LEMMA PhaseKept == PhaseInv /\ [Next]_vars => PhaseInv'
  BY DEF PhaseInv, Next, Client, Dial, WriteFrame, StartRead, ReadSettings,
     ReadHeaders, ReadContinuation, ReadFragment, ReadData, ReadRefusal, ReadIgnored,
     ReadEnds, HeaderTimeout, TotalTimeout, ServerReads, ServerSends, ServerCloses,
     Takes, EndOfFrame, Return, vars

LEMMA StallKept == StallInv /\ [Next]_vars => StallInv'
  BY WireKept, AnswerKept, PhaseKept, ProgressKept, WindowKept DEF StallInv

\* With nothing under way the server has the whole request.
LEMMA RequestArrived ==
    ASSUME WireInv, NEW n \in Nat, WireAt(n), pc = "read", up = <<>>
    PROVE  got.ends > 0 /\ n >= HeadersAt /\ HeadersAt \in {2, 3}
  <1>1. PICK F : F = Wire
    OBVIOUS
  <1>2. PICK h : h = HeadersAt
    OBVIOUS
  <1>3. req.body \in Nat /\ Framed(F, h, req.body, HeaderFields(Asked, fp))
    BY <1>1, <1>2, WireShape, Zenon DEF WireInv
  <1>4. h \in {2, 3} /\ Len(F) \in Nat /\ Len(F) >= h
    BY <1>3 DEF Framed
  <1>5. n <= Len(F) /\ n + 0 >= Len(F)
    BY <1>1 DEF WireAt
  <1>6. n = Len(F) /\ n >= h
    BY <1>4, <1>5
  <1>7. got = Heard(n, h, Len(F), HeaderFields(Asked, fp))
    BY <1>1, <1>2, Zenon DEF WireAt
  <1>8. got.ends = 1
    BY <1>6, <1>7 DEF Heard
  <1>9. QED
    BY <1>2, <1>4, <1>6, <1>8

\* A client that has read all of an answer that comes to an end is done.
LEMMA AnswerRead ==
    ASSUME NEW F, Lawful(F), ProgressAt(F, Len(F)), Finishes(F)
    PROVE  FALSE
  <1>1. DOMAIN F = 1 .. Len(F)
    BY DEF Lawful
  <1>2. QED
    BY <1>1 DEF ProgressAt, Finishes

\* The next unit of an answer that fits is within the windows.
LEMMA NextFits ==
    ASSUME NEW F, Lawful(F), NEW s \in Nat, s < Len(F), F[s + 1].type = "data",
           NEW w \in Nat, NEW free \in Nat, BodyOf(F) <= w,
           free + Cardinality(DataIn(F, s)) = w
    PROVE  free > 0
  <1>1. PICK d \in Nat : d = Cardinality(DataIn(F, s))
    BY DataCounted
  <1>2. F \in Seq(Frames) /\ DOMAIN F = 1 .. Len(F) /\ Len(F) \in Nat
    BY DEF Lawful
  <1>3. Cardinality(DataIn(F, s + 1)) = d + 1
    BY <1>1, DataCounted
  <1>4. PICK D : D = {i \in DOMAIN F : F[i].type = "data"}
    OBVIOUS
  <1>5. DataIn(F, s + 1) \subseteq D
    BY <1>2, <1>4 DEF DataIn
  <1>6. IsFiniteSet(D)
    <2>1. IsFiniteSet(1 .. Len(F))
      BY <1>2, FS_Interval
    <2>2. D \subseteq 1 .. Len(F)
      BY <1>2, <1>4
    <2>3. QED
      BY <2>1, <2>2, FS_Subset
  <1>7. d + 1 <= Cardinality(D) /\ Cardinality(D) \in Nat
    BY <1>3, <1>5, <1>6, FS_Subset, FS_CardinalityType
  <1>8. BodyOf(F) = Cardinality(D)
    BY <1>4 DEF BodyOf
  <1>9. QED
    BY <1>1, <1>7, <1>8

LEMMA NothingStandsStill == StallInv => StallFree
  <1> SUFFICES ASSUME StallInv, pc # "done", Finishes(answer.frames), Fits
               PROVE  Ready
    BY DEF StallFree
  <1>1. CASE pc # "read"
    <2>1. CASE pc = "dial"
      BY <2>1 DEF Ready
    <2>2. CASE pc = "write"
      <3>1. CASE up = <<>>
        <4>1. Len(up) < Pipe
          BY <3>1, ExchangeAssumption
        <4>2. QED
          BY <2>2, <4>1 DEF Ready
      <3>2. CASE up # <<>>
        BY <2>2, <3>2 DEF Ready
      <3>3. QED
        BY <3>1, <3>2
    <2>3. QED
      BY <1>1, <2>1, <2>2 DEF StallInv, PhaseInv
  <1>2. CASE pc = "read" /\ (closed \/ up # <<>>)
    BY <1>2 DEF Ready
  <1>3. CASE pc = "read" /\ ~ closed /\ up = <<>> /\ down # <<>>
    <2>1. Len(up) < Pipe
      BY <1>3, ExchangeAssumption
    <2>2. QED
      BY <1>3, <2>1 DEF Ready
  <1>4. CASE pc = "read" /\ ~ closed /\ up = <<>> /\ down = <<>>
    <2>1. PICK F : F = answer.frames
      OBVIOUS
    <2>2. Lawful(F) /\ Finishes(F)
      BY <2>1, AnswersAssumption DEF StallInv, AnswerInv
    <2>3. PICK k \in Nat : Under(down, k, sent, F) /\ ProgressAt(F, k)
      BY <1>4, <2>1 DEF StallInv, ProgressInv
    <2>4. PICK s \in Nat : s = sent /\ s <= Len(F) /\ Len(F) \in Nat
      BY <2>1, <2>2 DEF StallInv, AnswerInv, Lawful
    <2>5. k = s
      BY <1>4, <2>3, <2>4 DEF Under
    <2>6. s < Len(F)
      <3>1. s # Len(F)
        BY <2>2, <2>3, <2>5, AnswerRead
      <3>2. QED
        BY <2>4, <3>1
    <2>7. PICK n \in Nat : WireAt(n) /\ Granted(n, Cardinality(DataIn(F, s)))
      BY <2>1, <2>4 DEF StallInv, WindowInv
    <2>8. got.ends > 0 /\ n >= HeadersAt /\ HeadersAt \in {2, 3}
      BY <1>4, <2>7, RequestArrived DEF StallInv
    <2>9. PICK d \in Nat : d = Cardinality(DataIn(F, s))
      BY DataCounted
    <2>10. PICK wu \in Nat : wu = WindowUpdate(fp)
      BY ExchangeAssumption DEF StallInv, WireInv
    <2>11. PICK sw \in Nat : sw = StreamWindow(Settings(fp), ConnWindow)
      BY ExchangeAssumption DEF StallInv, WireInv
    <2>12. PICK cw \in Nat : cw = ConnWindow
      BY ExchangeAssumption
    <2>13. n >= 2 /\ n >= 1
      BY <2>8
    <2>14. /\ window.conn \in Nat /\ window.stream \in Nat
           /\ window.conn + d = cw + wu
           /\ window.stream + d = sw
      BY <2>7, <2>9, <2>10, <2>11, <2>12, <2>13 DEF Granted
    <2>15. BodyOf(F) <= cw + wu /\ BodyOf(F) <= sw
      BY <2>1, <2>10, <2>11, <2>12 DEF Fits
    <2>16. F[s + 1].type = "data" => window.conn > 0
      BY <2>2, <2>6, <2>9, <2>14, <2>15, NextFits
    <2>17. F[s + 1].type = "data" => window.stream > 0
      BY <2>2, <2>6, <2>9, <2>14, <2>15, NextFits
    <2>18. MaySend(F[s + 1])
      BY <2>8, <2>16, <2>17 DEF MaySend
    <2>19. Len(down) < Pipe
      BY <1>4, ExchangeAssumption
    <2>20. QED
      BY <1>4, <2>1, <2>4, <2>6, <2>18, <2>19 DEF Ready
  <1>5. QED
    BY <1>1, <1>2, <1>3, <1>4

\* Until its timers run out, an exchange never stands still with an answer that
\* comes to an end and fits the windows its fingerprint opened: the client has a
\* frame to write or to read, or the server has one to read or may send one
\* (RoundTrip, readHTTP2Response; nothing gives window back).  The provers know
\* nothing of ENABLED: that the guards Ready spells out are those of the actions
\* is the other half of NoStall, and checked by TLC.
THEOREM NothingStalls == Spec => [](StallFree /\ (GuardsSuffice => NoStall))
  <1>1. StallInv => StallFree /\ (GuardsSuffice => NoStall)
    BY NothingStandsStill DEF NoStall
  <1>2. QED
    BY StallInitially, StallKept, <1>1, PTL DEF Spec
=============================================================================
