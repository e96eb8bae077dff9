-------------------------- MODULE MCProxyAttempts --------------------------
(* Small instances of ProxyAttempts for TLC. *)
EXTENDS ProxyAttempts

\* The options of a request for the region, for any region, for none.
MCAllWants ==
    [egress : {"region"}, residential : BOOLEAN, premium : BOOLEAN,
     http2 : BOOLEAN, follow : BOOLEAN, fallback : BOOLEAN]
    \cup [egress : {"any"}, residential : BOOLEAN, premium : BOOLEAN,
          http2 : {FALSE}, follow : {FALSE}, fallback : {FALSE}]
    \cup [egress : {"direct"}, residential : {FALSE}, premium : BOOLEAN,
          http2 : BOOLEAN, follow : BOOLEAN, fallback : {FALSE}]

\* Nodes of the region: one of type "direct", a premium one, and a residential
\* one that may be tried offline.  Templates: a premium gateway that serves
\* both classes, after an ordinary one that serves the ordinary class.
CONSTANTS d1, p1, h1, t1, t2

MCCovers == (t1 :> BOOLEAN) @@ (t2 :> {FALSE})
MCOrder  == (t1 :> 2) @@ (t2 :> 1)

=============================================================================
