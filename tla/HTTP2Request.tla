---------------------------- MODULE HTTP2Request ----------------------------
(***************************************************************************)
(* What the fingerprinted HTTP/2 client (internal/fingerprint,             *)
(* http2_transport.go) makes of a fingerprint and a request: the settings  *)
(* it opens the connection with and the header fields it sends, in order.  *)
(* A fingerprint is [akamai, http2, userAgent]: the settings, the window   *)
(* and the order of an Akamai string ("" is the record of empties), the    *)
(* detailed HTTP/2 part (absent: the record of empties), the User-Agent.   *)
(* A request is [headers, body]: a function from the lower-case names of   *)
(* the client's headers to their values, and the length of the body.       *)
(***************************************************************************)
EXTENDS Naturals, Sequences, SequencesExt

CONSTANTS
    DefaultWindow,  \* the INITIAL_WINDOW_SIZE of defaultHTTP2Settings
    Bad             \* a number in a fingerprint that does not parse

NoValue == ""

Pseudo == <<"method", "authority", "scheme", "path">>

ForbiddenNames == {"connection", "proxy-connection", "keep-alive",
                   "transfer-encoding", "upgrade", "host"}

Number(val) == IF val = Bad THEN 0 ELSE val

\* Settings: an unknown name is dropped, a value that does not parse is 0.
Parsed(settings) ==
    LET known == SelectSeq(settings, LAMBDA s : s.id # "unknown")
    IN  [i \in DOMAIN known |-> [id |-> known[i].id, val |-> Number(known[i].val)]]

DefaultSettings == <<[id |-> "initial_window", val |-> DefaultWindow]>>

\* The settings sent: the detailed part's, else the Akamai string's, else the
\* default ones.
Settings(fp) ==
    LET choices == SelectSeq(<<Parsed(fp.http2.settings), Parsed(fp.akamai.settings),
                               DefaultSettings>>, LAMBDA s : s # <<>>)
    IN  Head(choices)

\* The WINDOW_UPDATE sent for the connection, 0 for none.
WindowUpdate(fp) ==
    IF Number(fp.http2.window) > 0 THEN Number(fp.http2.window)
    ELSE Number(fp.akamai.window)

\* The stream window a server grants itself from those settings: the last
\* INITIAL_WINDOW_SIZE, the protocol's default when there is none.
StreamWindow(settings, default) ==
    LET sizes == SelectSeq(settings, LAMBDA s : s.id = "initial_window")
    IN  IF sizes = <<>> THEN default ELSE Last(sizes).val

-----------------------------------------------------------------------------

\* The client names an agent: the first value of the header is not empty.
HasAgent(req) ==
    "user-agent" \in DOMAIN req.headers /\ Head(req.headers["user-agent"]) # NoValue

\* The request with the defaults of the fingerprint, whose agent also replaces
\* an empty one.
WithDefaults(req, fp) ==
    IF fp.userAgent = NoValue \/ HasAgent(req) THEN req
    ELSE [req EXCEPT !.headers =
              [n \in DOMAIN req.headers \cup {"user-agent"} |->
                   IF n = "user-agent" THEN <<fp.userAgent>> ELSE req.headers[n]]]

\* What a header line takes from the client: of several agents the first.
Values(req, name) ==
    IF name = "user-agent" /\ HasAgent(req) THEN <<Head(req.headers[name])>>
    ELSE IF name \in DOMAIN req.headers THEN req.headers[name] ELSE <<>>

\* What a loop over s that passes over the rest adds: the elements that are in
\* T.  SelectSeq takes an operator, about which the provers know nothing.
Keep(s, T) ==
    LET kept[i \in 0 .. Len(s)] ==
            IF i = 0 THEN <<>>
            ELSE IF s[i] \in T THEN Append(kept[i - 1], s[i]) ELSE kept[i - 1]
    IN kept[Len(s)]

\* The fields of a name and its values, without what "add" leaves out.
Fields(name, values) ==
    LET added == Keep(values, ToSet(values) \ {NoValue})
    IN  IF name \in ForbiddenNames THEN <<>>
        ELSE [i \in DOMAIN added |->
                 [pseudo |-> FALSE, name |-> name, value |-> added[i]]]

PseudoField(name) == [pseudo |-> TRUE, name |-> name, value |-> name]

\* What a loop over names adds that passes over those not wanted.
PseudoFields(names, wanted) ==
    FlattenSeq([i \in DOMAIN names |->
                   IF names[i] \in wanted THEN <<PseudoField(names[i])>> ELSE <<>>])

\* A header line of the fingerprint: a pseudo header, the client's values of
\* that name, else the line's own value.
LineFields(req, line) ==
    IF line.name \in ToSet(Pseudo) THEN <<PseudoField(line.name)>>
    ELSE IF Values(req, line.name) = <<>> THEN Fields(line.name, <<line.value>>)
    ELSE Fields(line.name, Values(req, line.name))

PseudoOrder(fp) ==
    IF fp.http2.headers # <<>> THEN fp.http2.headers
    ELSE IF fp.akamai.order # <<>> THEN fp.akamai.order ELSE Pseudo

\* The fields that lead: the header lines and the pseudo headers they lack, or
\* the pseudo headers alone.
LeadingFields(req, fp) ==
    IF fp.http2.lines = <<>> THEN PseudoFields(PseudoOrder(fp), ToSet(Pseudo))
    ELSE LET lines == FlattenSeq([i \in DOMAIN fp.http2.lines |->
                                     LineFields(req, fp.http2.lines[i])])
             named == {lines[i].name : i \in {j \in DOMAIN lines : lines[j].pseudo}}
         IN  lines \o PseudoFields(Pseudo, ToSet(Pseudo) \ named)

\* The bug: what the header lines sent already is sent again.
HeaderFieldsAgain(req, fp) ==
    LET others == SetToSeq(DOMAIN req.headers)
        agent  == IF Values(req, "user-agent") # <<>> THEN <<>>
                  ELSE Fields("user-agent", <<fp.userAgent>>)
    IN  LeadingFields(req, fp) \o agent
        \o FlattenSeq([i \in DOMAIN others |-> Fields(others[i], req.headers[others[i]])])

\* All the fields of the request; the map of the client's other headers is
\* walked in some order.
HeaderFields(req, fp) ==
    LET leading == LeadingFields(req, fp)
        seen    == {leading[i].name : i \in {j \in DOMAIN leading : ~ leading[j].pseudo}}
        others  == SetToSeq(DOMAIN req.headers \ seen)
        agent   == IF Values(req, "user-agent") # <<>> THEN <<>>
                   ELSE Fields("user-agent", <<fp.userAgent>>)
    IN  leading \o agent
        \o FlattenSeq([i \in DOMAIN others |-> Fields(others[i], req.headers[others[i]])])

=============================================================================
