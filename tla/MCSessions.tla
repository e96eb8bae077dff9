----------------------------- MODULE MCSessions -----------------------------
(* Small instances of Sessions for TLC. *)
EXTENDS Sessions

CONSTANTS p1, p2, t1, api, web

\* Parameters: the token of a caller, which two requests never share, and two
\* others.
MCKeyOf == [p \in Params |-> IF p \in {"token=1", "token=2"} THEN "token" ELSE p]

\* Two requests for the same page with the parameters in another order, and a
\* tunnel to the same host.
MCUrlOf ==
    (p1 :> [scheme |-> "https", base |-> api, query |-> <<"token=1", "page">>])
        @@ (p2 :> [scheme |-> "https", base |-> api, query |-> <<"page", "token=2">>])
        @@ (t1 :> [scheme |-> "https", base |-> web, query |-> <<>>])

MCGroupingRules ==
    {GroupingRule({api}, {"token"}, TRUE), GroupingRule({api}, {"page"}, FALSE)}
MCFoldingRules == {{api}}
=============================================================================
