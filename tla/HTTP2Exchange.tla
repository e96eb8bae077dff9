--------------------------- MODULE HTTP2Exchange ---------------------------
(***************************************************************************)
(* One request over the fingerprinted HTTP/2 client of the gateway         *)
(* (internal/fingerprint, http2_transport.go: RoundTrip and                *)
(* readHTTP2Response) and a server that follows the protocol.  The client  *)
(* opens a connection of its own, writes its preface, settings, headers    *)
(* and the whole body, and only then reads frames until the answer is      *)
(* complete.  It never gives the server more window than at the start.     *)
(* A unit of data is the payload of one DATA frame.                        *)
(***************************************************************************)
EXTENDS HTTP2Request, FiniteSets

CONSTANTS
    Fingerprints,   \* the fingerprints a request may use
    Requests,       \* the requests: their headers, the length of their body
    Answers,        \* the answers a server may give: [early, frames]
    ConnWindow,     \* the window a connection, and a stream, starts with
    MaxBody,        \* maxBody: the largest response body the client keeps
    Pipe,           \* bound: frames under way in one direction
    Faults          \* may dialling fail, and the server close at any time?

ASSUME ExchangeAssumption ==
    /\ {ConnWindow, DefaultWindow, MaxBody} \subseteq Nat
    /\ Pipe \in Nat \ {0}
    /\ Faults \in BOOLEAN
    /\ \A r \in Requests : r.body \in Nat
    /\ \A f \in Fingerprints :
          {WindowUpdate(f), StreamWindow(Settings(f), ConnWindow)} \subseteq Nat

VARIABLES
    fp, req,        \* the fingerprint and the request
    pc,             \* where RoundTrip is: "dial", "write", "read", "done"
    toWrite,        \* frames the client has still to write
    up, down,       \* frames under way to the server, to the client
    headerBlock,    \* the fragments of a header block read so far
    statusCode,     \* what the last complete block says, 0 when it says none
    body,           \* units of the response body read
    headersEnded, streamEnded, headerDeadlineSet,
    result,         \* what RoundTrip returned
    answer,         \* the answer the server gives
    sent,           \* how many of its frames it has sent
    got,            \* what it has read: [fields, data, ends, late]
    window,         \* what it may still send: [conn, stream]
    closed          \* it has closed the connection

ask     == <<fp, req>>
reader  == <<headerBlock, statusCode, headersEnded, headerDeadlineSet>>
server  == <<answer, sent, got, window, closed>>
vars    == <<ask, pc, toWrite, up, down, reader, body, streamEnded, result, server>>

-----------------------------------------------------------------------------
(* Frames. *)

\* A frame to the client.  Its fragment of a header block carries a status (0
\* for none); an indexed one refers to an entry of an earlier block.
Frame(type, status, indexed, endHeaders, endStream) ==
    [type |-> type, status |-> status, indexed |-> indexed,
     endHeaders |-> endHeaders, endStream |-> endStream]

Frames ==
    [type : {"settings", "headers", "continuation", "data", "rst_stream",
             "goaway_error", "goaway", "ping", "other"},
     status : Nat, indexed : BOOLEAN, endHeaders : BOOLEAN, endStream : BOOLEAN]

\* The server follows the protocol.  A header block goes on, in CONTINUATION
\* frames and without a break, until a fragment ends it; only HEADERS and DATA
\* end the stream, and neither comes after that; one block, before all data, is
\* final, those before it are interim and those after it trailers.
Goes(frames, b, j) ==
    /\ frames[b].type = "headers"
    /\ \A i \in b .. j : ~ frames[i].endHeaders

IsFinal(frames, i) == frames[i].type = "headers" /\ frames[i].status >= 200

Lawful(frames) ==
    /\ frames \in Seq(Frames)
    /\ \A b, j \in DOMAIN frames :
          b < j /\ Goes(frames, b, j - 1) => frames[j].type = "continuation"
    /\ \A j \in DOMAIN frames : frames[j].type = "continuation" =>
          \E b \in 1 .. j - 1 : Goes(frames, b, j - 1)
    /\ \A i, j \in DOMAIN frames : frames[i].endStream =>
          /\ frames[i].type \in {"headers", "data"}
          /\ i < j => frames[j].type \notin {"headers", "data"}
    /\ \E f \in DOMAIN frames :
          /\ IsFinal(frames, f)
          /\ \A i \in DOMAIN frames : frames[i].type = "headers" =>
                /\ i < f => frames[i].status \in 100 .. 199
                /\ i > f => frames[i].status = 0
          /\ \A i \in DOMAIN frames :
                frames[i].endStream \/ frames[i].type = "data" => i >= f

ASSUME AnswersAssumption == \A a \in Answers : Lawful(a.frames)

\* What writeHTTP2Body writes: only the last chunk ends the stream.
BodyFrames(n) == [i \in 1..n |-> [type |-> "data", endStream |-> i = n]]

OpeningFrames(f) ==
    <<[type |-> "settings", settings |-> Settings(f)]>>
    \o (IF WindowUpdate(f) > 0
        THEN <<[type |-> "window_update", size |-> WindowUpdate(f)]>> ELSE <<>>)

\* The bug: the headers never end the stream, as if a body always followed.
RequestFramesOpen(r, f) ==
    OpeningFrames(f)
    \o <<[type |-> "headers", fields |-> HeaderFields(r, f), endStream |-> FALSE]>>
    \o BodyFrames(r.body)

\* What RoundTrip writes.
RequestFrames(r, f) ==
    OpeningFrames(f)
    \o <<[type |-> "headers", fields |-> HeaderFields(r, f), endStream |-> r.body = 0]>>
    \o BodyFrames(r.body)

-----------------------------------------------------------------------------
(* The client writes. *)

Return(r) == pc' = "done" /\ result' = r

\* dialTLS: the handshake ends with h2 agreed, or RoundTrip fails.
Dial ==
    /\ pc = "dial"
    /\ \/ /\ Faults
          /\ Return("dial error")
          /\ UNCHANGED toWrite
       \/ /\ pc' = "write"
          /\ toWrite' = RequestFrames(WithDefaults(req, fp), fp)
          /\ UNCHANGED result
    /\ UNCHANGED <<ask, up, down, reader, body, streamEnded, server>>

\* A frame is written as soon as the connection takes it, whatever window the
\* server has granted; on a closed connection RoundTrip fails.
WriteFrame ==
    /\ pc = "write"
    /\ toWrite # <<>>
    /\ \/ /\ ~ closed
          /\ Len(up) < Pipe
          /\ up' = Append(up, Head(toWrite))
          /\ toWrite' = Tail(toWrite)
          /\ UNCHANGED <<pc, result>>
       \/ /\ closed
          /\ Return("write error")
          /\ UNCHANGED <<up, toWrite>>
    /\ UNCHANGED <<ask, down, reader, body, streamEnded, server>>

\* readHTTP2Response starts: the wait for the headers is limited.
StartRead ==
    /\ pc = "write"
    /\ toWrite = <<>>
    /\ pc' = "read"
    /\ headerDeadlineSet' = TRUE
    /\ UNCHANGED <<ask, toWrite, up, down, headerBlock, statusCode, headersEnded,
                   body, streamEnded, result, server>>

-----------------------------------------------------------------------------
(* The client reads: the loop of readHTTP2Response, one frame at a time.    *)

Takes(type) ==
    /\ pc = "read"
    /\ down # <<>>
    /\ Head(down).type = type
    /\ down' = Tail(down)

\* The loop ends after a frame when both the headers and the stream have ended.
EndOfFrame(headersEnd, streamEnd) ==
    /\ headersEnded' = headersEnd
    /\ streamEnded' = streamEnd
    /\ IF headersEnd /\ streamEnd THEN Return("ok") ELSE UNCHANGED <<pc, result>>

ReadSettings ==
    /\ Takes("settings")
    /\ \/ /\ ~ closed
          /\ Len(up) < Pipe
          /\ up' = Append(up, [type |-> "ack"])
          /\ UNCHANGED <<pc, result>>
       \/ /\ closed
          /\ Return("write error")
          /\ UNCHANGED up
    /\ UNCHANGED <<ask, toWrite, reader, body, streamEnded, server>>

\* A complete block is decoded by a decoder of its own, which knows none of
\* the entries of the blocks before; its status replaces the one before.
Decodes(fragments) == \A i \in DOMAIN fragments : ~ fragments[i].indexed

\* What a HEADERS and a CONTINUATION frame do with their fragment; "streamEnd"
\* tells whether the stream has ended with the frame.
ReadFragment(streamEnd) ==
    LET fragments == Append(headerBlock, Head(down))
    IN  \/ /\ ~ Head(down).endHeaders
           /\ headerBlock' = fragments
           /\ EndOfFrame(headersEnded, streamEnd)
           /\ UNCHANGED <<statusCode, headerDeadlineSet>>
        \/ /\ Head(down).endHeaders
           /\ Decodes(fragments)
           /\ headerBlock' = <<>>
           /\ statusCode' = Head(fragments).status
           /\ headerDeadlineSet' = FALSE
           /\ EndOfFrame(TRUE, streamEnd)
        \/ /\ Head(down).endHeaders
           /\ ~ Decodes(fragments)
           /\ Return("bad headers")
           /\ headerBlock' = fragments
           /\ UNCHANGED <<statusCode, headersEnded, headerDeadlineSet, streamEnded>>

ReadHeaders ==
    /\ Takes("headers")
    /\ ReadFragment(streamEnded \/ Head(down).endStream)
    /\ UNCHANGED <<ask, toWrite, up, body, server>>

\* The bug: a block that a CONTINUATION completes does not end the wait.
ReadContinuationWaiting ==
    /\ Takes("continuation")
    /\ LET fragments == Append(headerBlock, Head(down))
       IN  /\ Head(down).endHeaders /\ Decodes(fragments)
           /\ headerBlock' = <<>>
           /\ statusCode' = Head(fragments).status
           /\ EndOfFrame(TRUE, streamEnded)
    /\ UNCHANGED <<ask, toWrite, up, headerDeadlineSet, body, server>>

ReadContinuation ==
    /\ Takes("continuation")
    /\ ReadFragment(streamEnded)
    /\ UNCHANGED <<ask, toWrite, up, body, server>>

\* The bug: the payload of the frame that ends the stream is left out.
ReadDataLastLost ==
    /\ Takes("data")
    /\ body' = IF Head(down).endStream THEN body ELSE body + 1
    /\ EndOfFrame(headersEnded, streamEnded \/ Head(down).endStream)
    /\ UNCHANGED <<ask, toWrite, up, headerBlock, statusCode, headerDeadlineSet, server>>

ReadData ==
    /\ Takes("data")
    /\ \/ /\ body + 1 > MaxBody
          /\ Return("body too large")
          /\ UNCHANGED <<body, headersEnded, streamEnded>>
       \/ /\ body + 1 <= MaxBody
          /\ body' = body + 1
          /\ EndOfFrame(headersEnded, streamEnded \/ Head(down).endStream)
    /\ UNCHANGED <<ask, toWrite, up, headerBlock, statusCode, headerDeadlineSet, server>>

\* A reset of the stream, or a GOAWAY that names an error.
ReadRefusal ==
    /\ Takes("rst_stream") \/ Takes("goaway_error")
    /\ Return("refused")
    /\ UNCHANGED <<ask, toWrite, up, reader, body, streamEnded, server>>

\* Nothing is done about a PING, a GOAWAY without error or another stream.
ReadIgnored ==
    /\ \E type \in {"ping", "goaway", "other"} : Takes(type)
    /\ UNCHANGED <<ask, pc, toWrite, up, reader, body, streamEnded, result, server>>

ReadEnds ==
    /\ pc = "read"
    /\ down = <<>>
    /\ closed
    /\ Return("read error")
    /\ UNCHANGED <<ask, toWrite, up, down, reader, body, streamEnded, server>>

\* The wait for the headers runs out, while the reader waits for them.
HeaderTimeout ==
    /\ pc = "read"
    /\ headerDeadlineSet
    /\ Return("header timeout")
    /\ UNCHANGED <<ask, toWrite, up, down, reader, body, streamEnded, server>>

\* The client's total timeout, which is the deadline of the whole connection.
TotalTimeout ==
    /\ pc # "done"
    /\ Return("total timeout")
    /\ UNCHANGED <<ask, toWrite, up, down, reader, body, streamEnded, server>>

Client ==
    \/ Dial \/ WriteFrame \/ StartRead
    \/ ReadSettings \/ ReadHeaders \/ ReadContinuation \/ ReadData
    \/ ReadRefusal \/ ReadIgnored \/ ReadEnds

-----------------------------------------------------------------------------
(* The server, external, which follows the protocol. *)

Ends(frame) == IF frame.endStream THEN 1 ELSE 0

Grows(frame) ==
    \/ /\ frame.type = "settings"
       /\ window' = [window EXCEPT !.stream = StreamWindow(frame.settings, ConnWindow)]
       /\ UNCHANGED got
    \/ /\ frame.type = "window_update"
       /\ window' = [window EXCEPT !.conn = @ + frame.size]
       /\ UNCHANGED got
    \/ /\ frame.type = "headers"
       /\ got' = [fields |-> frame.fields, data |-> got.data,
                  ends |-> got.ends + Ends(frame), late |-> got.late]
       /\ UNCHANGED window
    \/ /\ frame.type = "data"
       /\ got' = [fields |-> got.fields, data |-> got.data + 1,
                  ends |-> got.ends + Ends(frame),
                  late |-> got.late \/ got.ends > 0]
       /\ UNCHANGED window
    \/ /\ frame.type = "ack"
       /\ UNCHANGED <<got, window>>

ServerReads ==
    /\ ~ closed
    /\ up # <<>>
    /\ Grows(Head(up))
    /\ up' = Tail(up)
    /\ UNCHANGED <<ask, pc, toWrite, down, reader, body, streamEnded, result,
                   answer, sent, closed>>

\* It answers when it has the whole request, or the headers for an early
\* answer, and sends data within the windows only.
MaySend(frame) ==
    /\ frame.type = "settings" \/ got.ends > 0
          \/ (answer.early /\ got.fields # <<>>)
    /\ frame.type = "data" => window.conn > 0 /\ window.stream > 0

ServerSends ==
    /\ ~ closed
    /\ sent < Len(answer.frames)
    /\ Len(down) < Pipe
    /\ LET frame == answer.frames[sent + 1]
       IN  /\ MaySend(frame)
           /\ window' = IF frame.type = "data"
                        THEN [conn |-> window.conn - 1, stream |-> window.stream - 1]
                        ELSE window
           /\ down' = Append(down, frame)
    /\ sent' = sent + 1
    /\ UNCHANGED <<ask, pc, toWrite, up, reader, body, streamEnded, result,
                   answer, got, closed>>

ServerCloses ==
    /\ Faults
    /\ ~ closed
    /\ closed' = TRUE
    /\ UNCHANGED <<ask, pc, toWrite, up, down, reader, body, streamEnded, result,
                   answer, sent, got, window>>

-----------------------------------------------------------------------------

Init ==
    /\ fp \in Fingerprints
    /\ req \in Requests
    /\ answer \in Answers
    /\ pc = "dial"
    /\ toWrite = <<>> /\ up = <<>> /\ down = <<>> /\ headerBlock = <<>>
    /\ statusCode = 0 /\ body = 0
    /\ headersEnded = FALSE /\ streamEnded = FALSE /\ headerDeadlineSet = FALSE
    /\ result = "none"
    /\ sent = 0
    /\ got = [fields |-> <<>>, data |-> 0, ends |-> 0, late |-> FALSE]
    /\ window = [conn |-> ConnWindow, stream |-> ConnWindow]
    /\ closed = FALSE

Next ==
    \/ Client \/ HeaderTimeout \/ TotalTimeout
    \/ ServerReads \/ ServerSends \/ ServerCloses

Spec == Init /\ [][Next]_vars

-----------------------------------------------------------------------------
(* Properties. *)

\* The status RoundTrip returns: readHTTP2Response makes 200 of none.
Status == IF statusCode = 0 THEN 200 ELSE statusCode

\* The units of body in an answer, its final status, whether trailers end it,
\* and whether the HEADERS frame of a block that goes on announces its end.
BodyOf(frames) == Cardinality({i \in DOMAIN frames : frames[i].type = "data"})

FinalStatus(frames) == frames[CHOOSE i \in DOMAIN frames : IsFinal(frames, i)].status

Trailers(frames) ==
    \E i \in DOMAIN frames : frames[i].type = "headers" /\ frames[i].status = 0

EndsInBlock(frames) ==
    \E i \in DOMAIN frames :
        frames[i].type = "headers" /\ frames[i].endStream /\ ~ frames[i].endHeaders

TypeOK ==
    /\ fp \in Fingerprints /\ req \in Requests /\ answer \in Answers
    /\ pc \in {"dial", "write", "read", "done"}
    /\ Len(up) <= Pipe /\ Len(down) <= Pipe
    /\ body \in 0..MaxBody
    /\ statusCode \in {0, 100, 200, 404}
    /\ {headersEnded, streamEnded, headerDeadlineSet, closed} \subseteq BOOLEAN
    /\ sent \in 0..Len(answer.frames)
    /\ {window.conn, window.stream} \subseteq Nat
    /\ (pc = "done") = (result # "none")

\* The fields of one name: of a pseudo header, of an ordinary one.
PseudoOf(fields, p) == {g \in ToSet(fields) : g.pseudo /\ g.name = p}

OrdinaryOf(fields, n) == {g \in ToSet(fields) : ~ g.pseudo /\ g.name = n}

LineNames(f) == [i \in DOMAIN f.http2.lines |-> f.http2.lines[i].name]

\* Where a fingerprint lists its pseudo headers.
Listed(f) == IF f.http2.lines = <<>> THEN PseudoOrder(f) ELSE LineNames(f)

AtMostOnce(n, names) == \A i, j \in DOMAIN names : names[i] = n /\ names[j] = n => i = j

\* If there are header lines, they name all four pseudo headers, in front.
Orderly(f) ==
    f.http2.lines # <<>> =>
        /\ ToSet(Pseudo) \subseteq ToSet(LineNames(f))
        /\ \E d \in DOMAIN f.http2.lines : \A i \in DOMAIN f.http2.lines :
               f.http2.lines[i].name \in ToSet(Pseudo) <=> i <= d

\* A pseudo header is missing only if an order leaves it out, comes twice only
\* if it is listed twice, and stands behind an ordinary header only if the
\* header lines put it there or leave it out.
PseudoIntact(fields, f) ==
    /\ \A p \in ToSet(Pseudo) :
          /\ f.http2.lines # <<>> \/ p \in ToSet(Listed(f)) => PseudoOf(fields, p) # {}
          /\ AtMostOnce(p, Listed(f)) => Len(Keep(fields, PseudoOf(fields, p))) <= 1
    /\ Orderly(f) => \A i, j \in DOMAIN fields :
                        i < j /\ fields[j].pseudo => fields[i].pseudo

\* What is to be sent under a name: the client's values.  An agent that is
\* empty, or none, gives way to the fingerprint's; of several agents a header
\* line takes the first.
Wanted(r, f, n) ==
    IF n = "user-agent" /\ HasAgent(r) /\ n \in ToSet(LineNames(f)) THEN Values(r, n)
    ELSE IF n = "user-agent" /\ ~ HasAgent(r) /\ f.userAgent # NoValue
    THEN <<f.userAgent>>
    ELSE r.headers[n]

Named(r, f) ==
    DOMAIN r.headers \cup (IF f.userAgent = NoValue THEN {} ELSE {"user-agent"})

\* Nothing else is sent under a name, and exactly that if no two header lines
\* bear it; nothing is sent that neither the client nor the fingerprint names,
\* and no header that HTTP/2 forbids.
ValuesIntact(fields, r, f) ==
    /\ \A n \in Named(r, f) \ ForbiddenNames :
          LET wanted == Fields(n, Wanted(r, f, n))
          IN  /\ OrdinaryOf(fields, n) = ToSet(wanted)
              /\ AtMostOnce(n, LineNames(f)) => Keep(fields, OrdinaryOf(fields, n)) = wanted
    /\ \A g \in ToSet(fields) :
          g.pseudo \/ g.name \in (Named(r, f) \cup ToSet(LineNames(f))) \ ForbiddenNames

FieldsIntact ==
    got.fields # <<>> => PseudoIntact(got.fields, fp) /\ ValuesIntact(got.fields, req, fp)

\* The stream ends once, with the last unit of the body, and has ended when
\* there is nothing left to read of what the client wrote.
StreamIntact ==
    /\ ~ got.late
    /\ got.ends <= 1
    /\ got.ends = 1 => got.data = req.body
    /\ pc = "read" /\ up = <<>> => got.ends = 1

\* The request the server reads is the client's: under each of its headers come
\* the client's values, in their order, and its stream ends once, with the last
\* unit of the body (buildHTTP2HeaderFields, RoundTrip, writeHTTP2Body).  What
\* a fingerprint may do to that is what PseudoIntact and ValuesIntact name: a
\* pseudo header left out by an order, listed twice or behind other lines, a
\* name on two header lines, which sends the values twice, and the agent.
RequestIntact == FieldsIntact /\ StreamIntact

\* A response RoundTrip returns holds the body the server sent, all of it and
\* never more than the limit, however its frames came, and the final status,
\* never an interim one (readHTTP2Response).  Two kinds of answers are left
\* out of the claim about the status: those with trailers, and those whose end
\* is announced by the HEADERS frame of a block that goes on.
WholeAnswer ==
    result = "ok" =>
        /\ body = BodyOf(answer.frames)
        /\ body <= MaxBody
        /\ ~ Trailers(answer.frames) /\ ~ EndsInBlock(answer.frames) =>
               Status = FinalStatus(answer.frames)

\* The status the caller sees is the one the target answered with: README.md
\* says of real 403, 404 and 502 answers that they come back as they are.
StatusAsAnswered == result = "ok" => Status = FinalStatus(answer.frames)

\* The wait for the headers ends only an exchange whose headers have not
\* arrived, in one frame or in many: restoreReadDeadline is called for each
\* complete block.
HeaderTimeoutHonest == result = "header timeout" => ~ headersEnded

\* The answer comes to an end: its stream is reset, or ends with some block of
\* headers complete.
Finishes(frames) ==
    \/ \E i \in DOMAIN frames : frames[i].type \in {"rst_stream", "goaway_error"}
    \/ /\ \E i \in DOMAIN frames : frames[i].endStream
       /\ \E i \in DOMAIN frames :
             frames[i].type \in {"headers", "continuation"} /\ frames[i].endHeaders

\* The answer the server gives fits the window the fingerprint opened.
Fits ==
    /\ BodyOf(answer.frames) <= ConnWindow + WindowUpdate(fp)
    /\ BodyOf(answer.frames) <= StreamWindow(Settings(fp), ConnWindow)

\* The client or the server has a step to take that is not a timer's.
Ready ==
    \/ pc = "dial"
    \/ pc = "write" /\ (toWrite = <<>> \/ closed \/ Len(up) < Pipe)
    \/ pc = "read" /\ IF down = <<>> THEN closed
                      ELSE Head(down).type = "settings" => closed \/ Len(up) < Pipe
    \/ ~ closed /\ up # <<>>
    \/ /\ ~ closed /\ sent < Len(answer.frames) /\ Len(down) < Pipe
       /\ MaySend(answer.frames[sent + 1])

StallFree == pc # "done" /\ Finishes(answer.frames) /\ Fits => Ready

GuardsSuffice == Ready => ENABLED (Client \/ ServerReads \/ ServerSends)

\* Without a timer's help an exchange stands still only if its response does
\* not fit the window the fingerprint opened, or the server never ends it: the
\* client waits for nothing else the server does not owe it.  A response that
\* does not fit stalls for good.  The guards Ready spells out are those of the
\* actions.
NoStall == StallFree /\ GuardsSuffice

=============================================================================
