--------------------------- MODULE ProxyAttempts ---------------------------
(***************************************************************************)
(* POST /proxy, from the egress options to the answer (internal/server/    *)
(* server.go: resolveEgress, doProxyWithRetry, doProxy, doRemoteChijie-    *)
(* Proxy).  The candidates of a request come from several reads of the     *)
(* manager, each under its lock, while health checks and other requests    *)
(* change who is alive in between; the attempts follow one another until   *)
(* one is final, and every node whose attempt may be retried is given up.  *)
(***************************************************************************)
EXTENDS EgressSelection

CONSTANTS
    Requests,       \* requests in progress at once
    Wants,          \* the egress options they come with, and the setting
                    \* template_fallback_after_attempts they meet
    Remote,         \* templates of type "chijie": other gateways
    MaxRedirects    \* the setting max_redirects

ASSUME WantsAssumption ==
    Wants \subseteq [egress : {"direct", "any", "region"}, residential : BOOLEAN,
                     premium : BOOLEAN, http2 : BOOLEAN, follow : BOOLEAN,
                     fallback : BOOLEAN]
ASSUME RemoteAssumption    == Remote \subseteq Templates
ASSUME RedirectsAssumption == MaxRedirects \in Nat

VARIABLES
    alive,          \* nodes whose NodeEntry is alive
    req,            \* what every request holds
    hops,           \* redirects it has followed in the attempt under way
    doomed          \* not in the code: the candidate it had found worth giving
                    \* up when its caller left

vars == <<alive, req, hops, doomed>>

\* The local end of a request is not told apart from having had none.
Over      == {"answered", "refused", "failed"}
Selecting == {"entries", "offline", "templates", "any"}
Trying    == {"trying", "answering", "broken", "judged", "marked"}

\* `steady` and `replied` are not in the code: the nodes that were alive all
\* through the selection, and whether the target has sent a status that
\* client.Do does not take for a redirect to follow.
Request == [stage : Over \cup Selecting \cup Trying, want : Wants,
            residential : BOOLEAN, entries : Seq(Nodes), offline : Seq(Nodes),
            choices : Seq(Choice), tried : Seq(Choice),
            todo : Seq(Choice \cup {Choose(Direct, FALSE)}),
            gone : BOOLEAN, steady : SUBSET Nodes, replied : BOOLEAN]

\* A request that is over holds nothing but what it asked for.
Ended(stage, want, steady) ==
    [stage |-> stage, want |-> want, residential |-> want.residential,
     entries |-> <<>>, offline |-> <<>>, choices |-> <<>>, tried |-> <<>>,
     todo |-> <<>>, gone |-> FALSE, steady |-> steady, replied |-> FALSE]

\* Besides the types: what was read is dropped when the pass ends, and a
\* request that tries has a candidate to try.
TypeOK ==
    /\ alive \subseteq Nodes
    /\ req \in [Requests -> Request]
    /\ \A r \in Requests :
          /\ req[r].stage \notin Selecting =>
                req[r].entries = <<>> /\ req[r].offline = <<>> /\ req[r].choices = <<>>
          /\ req[r].stage \in Trying <=> req[r].todo # <<>>
    /\ hops \in [Requests -> 0 .. MaxRedirects]
    /\ doomed \in [Requests -> SUBSET (Nodes \cup Templates \cup {Direct})]

Become(r, new) == req' = [req EXCEPT ![r] = new]
End(r, stage)  == Become(r, Ended(stage, req[r].want, {}))

\* Who is alive changes; selections in progress see it at their next read.
ChangeAlive(new) ==
    /\ alive' = new
    /\ req' = [r \in Requests |->
                 [req[r] EXCEPT !.steady =
                    IF req[r].stage \in Selecting THEN @ \cap new ELSE @]]

-----------------------------------------------------------------------------
(* resolveEgress                                                           *)

\* The egress options: no region, any region, or the region of InRegion.
\* Premium without a region means any.
Ask(r, want) ==
    /\ req[r].stage \in Over
    /\ LET fresh == Ended("any", want, alive)
       IN Become(r, CASE want.egress = "region" -> [fresh EXCEPT !.stage = "entries"]
                      [] \/ want.egress = "any"
                         \/ want.egress = "direct" /\ want.premium -> fresh
                      [] OTHER -> [fresh EXCEPT !.stage = "trying", !.steady = {},
                                     !.todo = <<Choose(Direct, FALSE)>>])
    /\ doomed' = [doomed EXCEPT ![r] = {}]
    /\ UNCHANGED <<alive, hops>>

\* entryChoices and their order
ReadEntries(r) ==
    /\ req[r].stage = "entries"
    /\ \E entries \in EntryOrders(alive, FALSE, req[r].residential) :
          Become(r, [req[r] EXCEPT !.stage = "offline", !.entries = entries])
    /\ UNCHANGED <<alive, hops, doomed>>

\* tryOfflineEntryChoices, a read of its own
ReadOffline(r) ==
    /\ req[r].stage = "offline"
    /\ Become(r, [req[r] EXCEPT !.stage = "templates",
                    !.offline = OfflineEntries(alive, req[r].residential)])
    /\ UNCHANGED <<alive, hops, doomed>>

\* Mutated form: nodes of the other class are never asked for.
FinishPassOnce(r, group, next) ==
    LET want   == req[r].want
        routes == ProxyAttemptRoutes(want.premium, group, want.fallback)
    IN Become(r, IF routes = <<>> THEN Ended("refused", want, req[r].steady)
                 ELSE [Ended("trying", want, req[r].steady) EXCEPT
                          !.todo = routes, !.gone = req[r].gone])

\* A request of the ordinary class looks among the residential ones when it
\* found nothing, a premium one always; then the attempts are laid out.  (The
\* choices are bound by \E over one value, which a proof can name.)
FinishPass(r, group, next) ==
    LET want == req[r].want
    IN \E choices \in {req[r].choices \o group} :
         Become(r, IF ~req[r].residential /\ (choices = <<>> \/ want.premium)
                 THEN [req[r] EXCEPT !.stage = next, !.residential = TRUE,
                          !.choices = choices, !.entries = <<>>, !.offline = <<>>]
                 ELSE IF choices = <<>> THEN Ended("refused", want, req[r].steady)
                 ELSE [Ended("trying", want, req[r].steady) EXCEPT
                          !.todo = ProxyAttemptRoutes(want.premium, choices, want.fallback),
                          !.gone = req[r].gone])

Group(r, premium) ==
    EgressCandidateGroup(premium, req[r].entries, req[r].offline,
                         TemplateChoices(premium, req[r].residential),
                         req[r].want.fallback)

ReadTemplates(r) ==
    /\ req[r].stage = "templates"
    /\ FinishPass(r, ChooseEach(Group(r, req[r].want.premium), req[r].residential),
                  "entries")
    /\ UNCHANGED <<alive, hops, doomed>>

\* selectAnyEgressCandidates: one read, no templates.
ReadAny(r) ==
    /\ req[r].stage = "any"
    /\ \E entries \in EntryOrders(alive, TRUE, req[r].residential) :
          FinishPass(r, ChooseEach(PrioritizePremium(req[r].want.premium, entries),
                                   req[r].residential), "any")
    /\ UNCHANGED <<alive, hops, doomed>>

-----------------------------------------------------------------------------
(* doProxyWithRetry                                                        *)

Current(r) == Head(req[r].todo)
Stage(r, stage) == Become(r, [req[r] EXCEPT !.stage = stage])

\* client.Do starts without a redirect behind it, for every attempt.
NoHops(r) == hops' = [hops EXCEPT ![r] = 0]

\* No connection, to the target or to the one it redirected to, no response
\* header in time, a redirect whose Location cannot be parsed (net/http looks
\* at it before it asks CheckRedirect), no token for the other gateway.
ConnectFails(r) ==
    /\ req[r].stage = "trying"
    /\ Stage(r, "broken")
    /\ NoHops(r)
    /\ UNCHANGED <<alive, doomed>>

\* A request that cannot be built, a redirect to a forbidden address.
GiveUp(r) ==
    /\ req[r].stage = "trying"
    /\ End(r, "failed")
    /\ NoHops(r)
    /\ UNCHANGED <<alive, doomed>>

\* proxyRedirectTracker.CheckRedirect: the attempt goes on at another address,
\* as often as the settings allow.  Another gateway is not followed.
FollowRedirect(r) ==
    /\ req[r].stage = "trying"
    /\ req[r].want.follow
    /\ Current(r).via \notin Remote
    /\ hops[r] < MaxRedirects
    /\ hops' = [hops EXCEPT ![r] = @ + 1]
    /\ UNCHANGED <<alive, req, doomed>>

\* Any other status, redirects that are not followed included.
ReceiveStatus(r) ==
    /\ req[r].stage = "trying"
    /\ Become(r, [req[r] EXCEPT !.stage = "answering",
                    !.replied = @ \/ Current(r).via \notin Remote])
    /\ NoHops(r)
    /\ UNCHANGED <<alive, doomed>>

ReceiveBody(r) ==
    /\ req[r].stage = "answering"
    /\ End(r, "answered")
    /\ UNCHANGED <<alive, hops, doomed>>

\* Mutated form: a body that breaks off is tried again elsewhere.
LoseBodyRetry(r) ==
    /\ req[r].stage = "answering"
    /\ Stage(r, "broken")
    /\ UNCHANGED <<alive, hops, doomed>>

\* The body breaks off or is too long.  The HTTP/2 transport of a fingerprint
\* reads the body inside client.Do and reports it as an attempt that failed.
LoseBody(r) ==
    /\ req[r].stage = "answering"
    /\ IF req[r].want.http2 /\ Current(r).via \notin Remote
       THEN Stage(r, "broken")
       ELSE End(r, "failed")
    /\ UNCHANGED <<alive, hops, doomed>>

\* The other gateway answered that it could not do it.
ReceiveGatewayError(r) ==
    /\ req[r].stage = "answering"
    /\ Current(r).via \in Remote
    /\ Stage(r, "broken")
    /\ UNCHANGED <<alive, hops, doomed>>

\* Mutated form: the attempt is worth a retry whoever ended it.
JudgeAlways(r) ==
    /\ req[r].stage = "broken"
    /\ Stage(r, "judged")
    /\ UNCHANGED <<alive, hops, doomed>>

\* isRetryableProxyAttempt: an attempt that failed while the caller waited.
Judge(r) ==
    /\ req[r].stage = "broken"
    /\ IF req[r].gone THEN End(r, "failed") ELSE Stage(r, "judged")
    /\ UNCHANGED <<alive, hops, doomed>>

\* The node is given up, also if the caller has left since (MarkNode-
\* Unavailable; not one of type "direct", nor a template).
MarkAttempt(r) ==
    LET n == Current(r).via
    IN /\ req[r].stage = "judged"
       /\ alive' = alive \ ({n} \ DirectNodes)
       /\ req' = [q \in Requests |->
            IF q = r THEN [req[r] EXCEPT !.stage = "marked"]
            ELSE [req[q] EXCEPT !.steady =
                    IF req[q].stage \in Selecting THEN @ \cap alive' ELSE @]]
       /\ UNCHANGED <<hops, doomed>>

\* Mutated form: the same candidate is tried again.
RetrySame(r) ==
    /\ req[r].stage = "marked"
    /\ IF req[r].gone THEN End(r, "failed") ELSE Stage(r, "trying")
    /\ UNCHANGED <<alive, hops, doomed>>

\* The caller may have gone since: the request asks for its context twice.
Retry(r) ==
    /\ req[r].stage = "marked"
    /\ IF req[r].gone \/ Len(req[r].todo) = 1
       THEN End(r, "failed")
       ELSE Become(r, [req[r] EXCEPT !.stage = "trying",
                         !.tried = Append(@, Current(r)),
                         !.todo = Tail(@), !.steady = {}])
    /\ UNCHANGED <<alive, hops, doomed>>

-----------------------------------------------------------------------------
(* The environment                                                         *)

\* The caller closes its connection.
Leave(r) ==
    /\ req[r].stage \notin Over
    /\ ~req[r].gone
    /\ Become(r, [req[r] EXCEPT !.gone = TRUE])
    /\ doomed' = [doomed EXCEPT ![r] =
                    IF req[r].stage = "judged" THEN {Current(r).via} ELSE {}]
    /\ UNCHANGED <<alive, hops>>

\* A health check or another caller of the manager, see NodeHealth.
Check(n) ==
    /\ ChangeAlive(IF n \in alive THEN alive \ {n} ELSE alive \cup {n})
    /\ UNCHANGED <<hops, doomed>>

-----------------------------------------------------------------------------
Init ==
    /\ alive \in SUBSET Nodes
    /\ \E want \in Wants : req = [r \in Requests |-> Ended("answered", want, {})]
    /\ hops = [r \in Requests |-> 0]
    /\ doomed = [r \in Requests |-> {}]

Select(r) == ReadEntries(r) \/ ReadOffline(r) \/ ReadTemplates(r) \/ ReadAny(r)

Attempt(r) ==
    \/ ConnectFails(r) \/ GiveUp(r) \/ FollowRedirect(r) \/ ReceiveStatus(r)
    \/ ReceiveBody(r) \/ LoseBody(r) \/ ReceiveGatewayError(r)
    \/ Judge(r) \/ MarkAttempt(r) \/ Retry(r)

Next ==
    \/ \E r \in Requests :
          \/ \E want \in Wants : Ask(r, want)
          \/ Select(r)
          \/ Attempt(r)
          \/ Leave(r)
    \/ \E n \in Nodes : Check(n)

\* A request goes on: its handler never waits for a lock for long and every
\* attempt is cut off by the client's timeout.
Fairness == \A r \in Requests : WF_vars(Select(r) \/ Attempt(r))

Spec == Init /\ [][Next]_vars /\ Fairness

-----------------------------------------------------------------------------
(* Properties                                                              *)

\* Where docs/parameter-driven-egress.md 126-133 places a candidate: the class
\* asked for, then premium before ordinary if premium was asked for, then
\* nodes before templates.
Rank(want, c) ==
    (IF c.residential = want.residential THEN 0 ELSE 4)
        + (IF want.premium /\ ~IsPremium(c) THEN 2 ELSE 0)
        + (IF IsTemplate(c) THEN 1 ELSE 0)

\* The attempts follow the documented order, at most max_attempts of them
\* use a node, and a template follows a node only if the settings or its
\* premium mark allow it (proxyAttemptRoutes), whatever changed between the
\* reads the candidates come from.
PlanOK(want, plan) ==
    /\ \A i, j \in DOMAIN plan :
          i < j => /\ Rank(want, plan[i]) <= Rank(want, plan[j])
                   /\ IsNode(plan[i]) /\ IsTemplate(plan[j]) =>
                         want.fallback \/ (want.premium /\ IsPremium(plan[j]))
    /\ Cardinality({i \in DOMAIN plan : IsNode(plan[i])}) <= MaxAttempts

AttemptsInOrder ==
    \A r \in Requests : req[r].stage \in Trying =>
        PlanOK(req[r].want, req[r].tried \o req[r].todo)

\* The nodes that suit request r and were alive from its first read to its
\* last.
Available(r) ==
    LET want == req[r].want
        any  == want.egress # "region"
    IN req[r].steady \cap (Matching(any, want.residential) \cup
                           (IF want.residential THEN {} ELSE Matching(any, TRUE)))

\* Nodes that come and go during a selection do not hide those that stay: a
\* request is refused only if no suitable node stayed alive, and the first
\* candidate it tries is placed no later than any node that did.
NothingMissed ==
    \A r \in Requests :
        /\ req[r].stage = "refused" => Available(r) = {}
        /\ req[r].stage \in Trying /\ req[r].tried = <<>> =>
              \A n \in Available(r) :
                  Rank(req[r].want, Current(r))
                      <= Rank(req[r].want, Choose(n, n \in Residential))

\* README.md 197: once the target has sent a status that is not a redirect to
\* follow, or one beyond max_redirects, the request is not tried again, unless
\* an HTTP/2 fingerprint reads the body inside client.Do.  (A redirect that is
\* followed to an address that fails, or whose Location cannot be parsed, is an
\* attempt that failed although a status came.)
PlainStatusIsFinal ==
    \A r \in Requests :
        req[r].stage = "trying" /\ req[r].replied => req[r].want.http2

\* A caller that leaves costs one node at most: from then on its request gives
\* up nothing but the candidate whose failure it had already found worth a
\* retry (server.go 562, 563 and 565 ask and act without a lock).
LeavingCostsOneNode ==
    [][\A r \in Requests :
          req[r].gone /\ req[r].stage # "marked" /\ req'[r].stage = "marked"
              => Current(r).via \in doomed[r]]_vars

\* Every request ends, however nodes come and go.
Ends == \A r \in Requests : req[r].stage \notin Over ~> req[r].stage \in Over

=============================================================================
