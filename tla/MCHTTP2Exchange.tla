-------------------------- MODULE MCHTTP2Exchange --------------------------
(* Small instances of HTTP2Exchange for TLC. *)
EXTENDS HTTP2Exchange

NoAkamai == [settings |-> <<>>, window |-> 0, order |-> <<>>]
NoHTTP2  == [settings |-> <<>>, window |-> 0, headers |-> <<>>, lines |-> <<>>]

Size(val) == [id |-> "initial_window", val |-> val]

Line(name, value) == [name |-> name, value |-> value]

Captured ==
    <<Line("path", ""), Line("method", ""), Line("authority", ""), Line("scheme", ""),
      Line("user-agent", "profile"), Line("accept", "any"), Line("host", "example")>>

\* A preset; an Akamai string with a window and an order of its own; a captured
\* profile with header lines and a User-Agent; profiles edited by hand.  One
\* has settings that are unknown, a window that does not parse and a stream
\* window taken for 0, and its order leaves out a pseudo header and has one
\* twice; in one a line stands before the pseudo headers, one pseudo header is
\* missing and names are on two lines.
MCFingerprints ==
    { [akamai |-> NoAkamai, http2 |-> NoHTTP2, userAgent |-> NoValue],
      [akamai |-> [settings |-> <<Size(1)>>, window |-> 1,
                   order |-> <<"method", "authority", "scheme", "path">>],
       http2 |-> NoHTTP2, userAgent |-> "profile"],
      [akamai |-> [NoAkamai EXCEPT !.window = 1],
       http2 |-> [settings |-> <<Size(1), [id |-> "enable_push", val |-> 0], Size(3)>>,
                  window |-> 2, headers |-> <<>>, lines |-> Captured],
       userAgent |-> "profile"],
      [akamai |-> NoAkamai, http2 |-> [NoHTTP2 EXCEPT !.lines = Captured],
       userAgent |-> NoValue],
      [akamai |-> NoAkamai,
       http2 |-> [settings |-> <<[id |-> "unknown", val |-> 1], Size(Bad)>>,
                  window |-> Bad, lines |-> <<>>,
                  headers |-> <<"accept", "scheme", "method", "scheme", "authority">>],
       userAgent |-> NoValue],
      [akamai |-> NoAkamai,
       http2 |-> [NoHTTP2 EXCEPT !.lines =
                     <<Line("accept", "any"), Line("path", ""), Line("te", "trailers"),
                       Line("user-agent", "profile"), Line("scheme", ""),
                       Line("method", ""), Line("te", "other"),
                       Line("user-agent", "again"), Line("path", "")>>],
       userAgent |-> "profile"] }

\* Requests without a header, with one of each kind, with several values, and
\* with an agent that is empty in front of another.
MCRequests ==
    { [headers |-> <<>>, body |-> 0],
      [headers |-> [n \in {"user-agent", "accept", "connection"} |-> <<"client">>],
       body |-> 2],
      [headers |-> [n \in {"user-agent", "accept", "te"} |-> <<"one", "two", "">>],
       body |-> 1],
      [headers |-> [n \in {"user-agent", "method"} |-> <<"", "late">>], body |-> 0] }

\* The answers: a status, after an interim one or not, its block in one frame
\* or two, a body of 0 to 3 units, trailers or none, and at most one frame that
\* is not part of the answer somewhere after the settings.
Plain(type) == Frame(type, 0, FALSE, FALSE, FALSE)

MCFrames(interim, split, indexed, status, n, trailers) ==
    LET last  == n = 0 /\ ~ trailers
        block == IF split
                 THEN << Frame("headers", status, FALSE, FALSE, last),
                         Frame("continuation", 0, indexed, TRUE, FALSE) >>
                 ELSE << Frame("headers", status, indexed, TRUE, last) >>
    IN  (IF interim THEN << Frame("headers", 100, FALSE, TRUE, FALSE) >> ELSE <<>>)
        \o block
        \o [i \in 1..n |-> Frame("data", 0, FALSE, FALSE, i = n /\ ~ trailers)]
        \o (IF trailers THEN << Frame("headers", 0, FALSE, TRUE, TRUE) >> ELSE <<>>)

MCPlainAnswers ==
    { MCFrames(interim, split, indexed, status, n, trailers) :
        <<interim, split, indexed, status, n, trailers>> \in
            { c \in BOOLEAN \X BOOLEAN \X BOOLEAN \X {200, 404} \X (0..3) \X BOOLEAN :
                  c[3] => c[1] } }

MCWithNoise ==
    UNION { { InsertAt(MCFrames(FALSE, FALSE, FALSE, 404, 2, FALSE), i, Plain(type)) : i \in 1..3 } :
            type \in {"ping", "goaway", "other", "goaway_error", "rst_stream"} }

\* An answer the server never ends.
MCUnfinished == { << Frame("headers", 200, FALSE, TRUE, FALSE), Plain("data") >> }

MCAnswers ==
    [early : BOOLEAN,
     frames : { << Plain("settings") >> \o frames :
                    frames \in MCPlainAnswers \cup MCWithNoise \cup MCUnfinished }]
=============================================================================
