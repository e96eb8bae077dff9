-------------------------- MODULE EgressSelection --------------------------
(***************************************************************************)
(* The order in which egress candidates are tried (internal/pool/          *)
(* manager.go, the Select... functions; internal/server/server.go,         *)
(* proxyAttemptRoutes): pure functions of what is known of the nodes and   *)
(* templates of the region a request names, or of all nodes in "any" mode. *)
(* Every node here is enabled and in an enabled pool; who is alive changes *)
(* and is a parameter.                                                     *)
(***************************************************************************)
EXTENDS Integers, SequencesExt

CONSTANTS
    Nodes,          \* static and subscription nodes, all regions
    InRegion,       \* those in the region that requests name
    Residential,    \* those of the residential class
    DirectNodes,    \* those of type "direct"
    TryOffline,     \* those of subscription pools with try_offline
    Templates,
    Covers,         \* the classes (residential or not) a template serves
    Order,          \* its place by descending priority, then by name
    Premium,        \* premium nodes and templates
    Direct,         \* no candidate: the gateway connects by itself
    MaxAttempts     \* proxy.max_attempts

ASSUME NodesAssumption ==
    /\ IsFiniteSet(Nodes) /\ IsFiniteSet(Templates)
    /\ InRegion \subseteq Nodes
    /\ Residential \subseteq Nodes
    /\ DirectNodes \subseteq Nodes
    /\ TryOffline \subseteq Nodes
ASSUME TemplatesAssumption ==
    /\ Nodes \cap Templates = {}
    /\ Covers \in [Templates -> SUBSET BOOLEAN]
    /\ Order \in [Templates -> Nat]
    /\ \A s, t \in Templates : Order[s] = Order[t] => s = t
ASSUME PremiumAssumption  == Premium \subseteq Nodes \cup Templates
ASSUME DirectAssumption   == Direct \notin Nodes \cup Templates
ASSUME AttemptsAssumption == MaxAttempts \in Nat \ {0}

\* `fallback` below is proxy.template_fallback_after_attempts.

\* EgressChoice: a template that serves both classes is one choice of each.
Choice == [via : Nodes \cup Templates, residential : BOOLEAN]

Choose(via, residential) == [via |-> via, residential |-> residential]
ChooseEach(vias, residential) ==
    [i \in DOMAIN vias |-> Choose(vias[i], residential)]

IsNode(c)     == c.via \in Nodes
IsTemplate(c) == c.via \in Templates
IsPremium(c)  == c.via \in Premium

\* entryMatchesSelector, with the region or the "direct" type beside it.
Matching(any, residential) ==
    {n \in IF any THEN Nodes \ DirectNodes ELSE InRegion :
        n \in Residential <=> residential}

\* orderEgressChoices: "random" may return any order, "round-robin" and
\* "least-latency" return one of them.
EntryOrders(alive, any, residential) ==
    SetToSeqs(Matching(any, residential) \cap alive)

\* tryOfflineEntryChoices: the only node there is, if it is down.
OfflineEntries(alive, residential) ==
    IF \E n \in TryOffline \ alive : Matching(FALSE, residential) = {n}
    THEN SetToSeq(Matching(FALSE, residential))
    ELSE <<>>

\* templateChoices
TemplateChoices(premium, residential) ==
    LET Before(s, t) ==
            IF premium /\ (s \in Premium) # (t \in Premium)
            THEN s \in Premium ELSE Order[s] < Order[t]
    IN CHOOSE s \in SetToSeqs({t \in Templates : residential \in Covers[t]}) :
          \A i, j \in DOMAIN s : i < j => Before(s[i], s[j])

\* filterChoicesByPremium, its loop: the elements of s that are in T, in their
\* order.  SelectSeq says the same, but takes an operator, about which the
\* provers know nothing.
Keep(s, T) ==
    LET kept[i \in 0 .. Len(s)] ==
            IF i = 0 THEN <<>>
            ELSE IF s[i] \in T THEN Append(kept[i - 1], s[i]) ELSE kept[i - 1]
    IN kept[Len(s)]

PremiumOf(vias)  == Keep(vias, Premium)
OrdinaryOf(vias) == Keep(vias, (Nodes \cup Templates) \ Premium)

\* Mutated form: ordinary nodes before premium templates.
PremiumCandidateGroupLate(entries, offline, templates, fallback) ==
    (IF PremiumOf(entries) # <<>> THEN PremiumOf(entries) ELSE PremiumOf(offline))
        \o OrdinaryOf(entries) \o PremiumOf(templates) \o OrdinaryOf(offline)
        \o (IF fallback THEN OrdinaryOf(templates) ELSE <<>>)

\* premiumCandidateGroup: ordinary templates only where templates follow
\* nodes anyway.
PremiumCandidateGroup(entries, offline, templates, fallback) ==
    (IF PremiumOf(entries) # <<>> THEN PremiumOf(entries) ELSE PremiumOf(offline))
        \o PremiumOf(templates) \o OrdinaryOf(entries) \o OrdinaryOf(offline)
        \o (IF fallback THEN OrdinaryOf(templates) ELSE <<>>)

\* egressCandidateGroup
EgressCandidateGroup(premium, entries, offline, templates, fallback) ==
    LET nodes == IF entries # <<>> THEN entries ELSE offline
    IN IF premium /\ PremiumOf(entries \o offline \o templates) # <<>>
       THEN PremiumCandidateGroup(entries, offline, templates, fallback)
       ELSE nodes \o (IF nodes = <<>> \/ fallback THEN templates ELSE <<>>)

\* prioritizePremiumChoices
PrioritizePremium(premium, entries) ==
    IF premium THEN PremiumOf(entries) \o OrdinaryOf(entries) ELSE entries

\* proxyAttemptRoutes: max_attempts nodes, and templates after nodes only if
\* the settings or their premium mark say so.
ProxyAttemptRoutes(premium, choices, fallback) ==
    LET hasNode == \E i \in DOMAIN choices : IsNode(choices[i])
        Nth(i)  == Cardinality({j \in 1 .. i : IsNode(choices[j])})
        Kept(i) == IF IsNode(choices[i]) THEN Nth(i) <= MaxAttempts
                   ELSE ~hasNode \/ fallback
                           \/ (premium /\ IsPremium(choices[i]))
        kept    == Keep([i \in DOMAIN choices |-> i], {i \in DOMAIN choices : Kept(i)})
    IN [k \in DOMAIN kept |-> choices[kept[k]]]

=============================================================================
