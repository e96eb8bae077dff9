---------------------------- MODULE TrafficView ----------------------------
(***************************************************************************)
(* What the Admin shows of the traces in memory (internal/traffic/         *)
(* store.go, grouping.go, success_folding.go): totals, rows and a series   *)
(* per minute.  The three are separate loops over the traces, each with    *)
(* its own notion of the failures it has already seen, and the rules that  *)
(* fold or group traces are merged into the configuration one at a time.   *)
(*                                                                         *)
(* A url is a scheme, a base, its host and path, and a sequence of         *)
(* parameters with a key; a rule's patterns are the set of bases they      *)
(* match.                                                                  *)
(***************************************************************************)
EXTENDS Naturals, Sequences, FiniteSets, SequencesExt

CONSTANTS Params, KeyOf     \* parameters, and the key of each

ASSUME ParamsAssumption == IsFiniteSet(Params)

\* A failure grouping rule: it drops the parameters with some keys.
GroupingRule(match, drop, sorted) ==
    [match |-> match, drop |-> drop, sort |-> sorted]

DefaultConfig ==
    [grouping |-> TRUE, normalize |-> FALSE, rules |-> <<>>,
     folding |-> FALSE, foldRules |-> <<>>]

-----------------------------------------------------------------------------
(* The rules                                                               *)

\* Mutated form: a second rule for the same pattern replaces the first.
MergeGroupingRuleReplace(cfg, rule) ==
    LET same == {i \in DOMAIN cfg.rules : cfg.rules[i].match = rule.match}
    IN  [cfg EXCEPT
            !.grouping = TRUE, !.normalize = TRUE,
            !.rules = IF same = {} THEN Append(@, rule)
                      ELSE [@ EXCEPT ![CHOOSE i \in same : TRUE] = rule]]

\* MergeURLNormalizationRule: the first rule with the same patterns drops the
\* new keys as well, another pattern gets a rule of its own.
MergeGroupingRule(cfg, rule) ==
    LET same == {i \in DOMAIN cfg.rules : cfg.rules[i].match = rule.match}
        first == CHOOSE i \in same : \A j \in same : i <= j
        rules == IF same = {} THEN Append(cfg.rules, rule)
                 ELSE [cfg.rules EXCEPT ![first].drop = @ \cup rule.drop]
    IN  [cfg EXCEPT
            !.grouping = TRUE, !.normalize = TRUE, !.rules = rules]

\* MergeSuccessFoldingRule
MergeFoldingRule(cfg, match) ==
    [cfg EXCEPT
        !.folding = TRUE,
        !.foldRules = IF match \in ToSet(@) THEN @ ELSE Append(@, match)]

\* What a loop over s that passes over the rest adds: the elements that are in
\* T.  SelectSeq takes an operator, about which the provers know nothing.
Keep(s, T) ==
    LET kept[i \in 0 .. Len(s)] ==
            IF i = 0 THEN <<>>
            ELSE IF s[i] \in T THEN Append(kept[i - 1], s[i]) ELSE kept[i - 1]
    IN kept[Len(s)]

\* Some order of the keys; which one makes no difference to the groups.
Keys == SetToSeq({KeyOf[p] : p \in Params})

\* url.Values.Encode: key by key, and the parameters of one key as they came.
Encode(query) ==
    FlattenSeq([i \in DOMAIN Keys |->
                   Keep(query, {p \in Params : KeyOf[p] = Keys[i]})])

\* query.Del for each key
Without(query, keys) == Keep(query, {p \in Params : KeyOf[p] \notin keys})

Matching(base, cfg) == {i \in DOMAIN cfg.rules : base \in cfg.rules[i].match}
DropKeys(base, cfg) == UNION {cfg.rules[i].drop : i \in Matching(base, cfg)}
SortQuery(base, cfg) == \E i \in Matching(base, cfg) : cfg.rules[i].sort

\* normalizeFailureURL
NormalizeURL(url, cfg) ==
    LET drop == DropKeys(url.base, cfg)
        kept == Without(url.query, drop)
    IN  IF \/ ~cfg.normalize \/ drop = {}
           \/ kept = url.query /\ ~SortQuery(url.base, cfg)
        THEN url
        ELSE [url EXCEPT !.query = Encode(kept)]

IsFailure(t) == t.status = 0 \/ t.status >= 400 \/ t.error

\* successFoldGroup
Folded(t, cfg) ==
    /\ cfg.folding
    /\ t.status = 200 /\ ~t.error
    /\ \E i \in DOMAIN cfg.foldRules : t.url.base \in cfg.foldRules[i]

\* The scheme of the url is not in the key.
FoldKey(t) == <<"fold", t.kind, t.url.base, t.area>>

\* failureGroupKey, as the set of at most one key.
FailureKeys(t, cfg) ==
    IF cfg.grouping
    THEN {<<"failure", t.kind, NormalizeURL(t.url, cfg), t.area>>}
    ELSE {}

-----------------------------------------------------------------------------
(* The three loops, over the traces from the newest to the oldest          *)

NoCounts == [raw |-> 0, ignored |-> 0, rawFailures |-> 0, requests |-> 0,
             failures |-> 0, success |-> 0, seen |-> {}]

\* One turn of the loop of metricsLocked.
CountTrace(m, t, cfg) ==
    IF Folded(t, cfg)
    THEN [m EXCEPT !.raw = @ + 1, !.ignored = @ + 1]
    ELSE IF ~IsFailure(t)
    THEN [m EXCEPT !.raw = @ + 1, !.requests = @ + 1, !.success = @ + 1]
    ELSE LET keys == FailureKeys(t, cfg)
             new == IF keys # {} /\ keys \subseteq m.seen THEN 0 ELSE 1
         IN  [m EXCEPT !.raw = @ + 1, !.rawFailures = @ + 1,
                       !.requests = @ + new, !.failures = @ + new,
                       !.seen = @ \cup keys]

\* metricsLocked
Metrics(traces, cfg) ==
    LET m[i \in 0 .. Len(traces)] ==
            IF i = 0 THEN NoCounts ELSE CountTrace(m[i - 1], traces[i], cfg)
    IN  m[Len(traces)]

\* The key of the row a trace shares with others, as the set of at most one.
RowKeys(t, cfg) ==
    IF Folded(t, cfg) THEN {FoldKey(t)}
    ELSE IF IsFailure(t) THEN FailureKeys(t, cfg) ELSE {}

\* Mutated form: failures on different exits share a row.
PlaceTraceAnyArea(rows, t, cfg) ==
    LET keys == IF Folded(t, cfg) THEN {FoldKey(t)}
                ELSE {<<k[2], k[3]>> : k \in RowKeys(t, cfg)}
        at == {i \in DOMAIN rows : rows[i].keys = keys}
    IN  IF keys = {} \/ at = {}
        THEN Append(rows, [keys |-> keys, count |-> 1, excluded |-> Folded(t, cfg)])
        ELSE [rows EXCEPT ![CHOOSE i \in at : TRUE].count = @ + 1]

\* One turn of the loop of displayTraces: a trace goes to the row of its key,
\* or begins one.  A row is its key, how many traces it stands for and whether
\* the totals leave it out.
PlaceTrace(rows, t, cfg) ==
    LET keys == RowKeys(t, cfg)
        at == {i \in DOMAIN rows : rows[i].keys = keys}
    IN  IF keys = {} \/ at = {}
        THEN Append(rows, [keys |-> keys, count |-> 1, excluded |-> Folded(t, cfg)])
        ELSE [rows EXCEPT ![CHOOSE i \in at : TRUE].count = @ + 1]

\* displayTraces
DisplayTraces(traces, cfg) ==
    LET rows[i \in 0 .. Len(traces)] ==
            IF i = 0 THEN <<>> ELSE PlaceTrace(rows[i - 1], traces[i], cfg)
    IN  rows[Len(traces)]

\* The buckets with n more in that of a minute, which is made if need be.
Bucketed(buckets, minute, n) ==
    [k \in DOMAIN buckets \cup {minute} |->
        (IF k \in DOMAIN buckets THEN buckets[k] ELSE 0) + (IF k = minute THEN n ELSE 0)]

\* One turn of the loop of buildSeries: requests and failures by minute, from
\* the cutoff on.
BucketTrace(s, t, cfg, cutoff) ==
    IF Folded(t, cfg) \/ t.minute < cutoff THEN s
    ELSE LET keys == IF IsFailure(t) THEN FailureKeys(t, cfg) ELSE {}
             new == IF keys # {} /\ keys \subseteq s.seen THEN 0 ELSE 1
         IN  [requests |-> Bucketed(s.requests, t.minute, new),
              failures |-> Bucketed(s.failures, t.minute,
                                    IF IsFailure(t) THEN new ELSE 0),
              seen |-> s.seen \cup keys]

NoBuckets == [requests |-> <<>>, failures |-> <<>>, seen |-> {}]

\* buildSeries
BuildSeries(traces, cfg, cutoff) ==
    LET s[i \in 0 .. Len(traces)] ==
            IF i = 0 THEN NoBuckets ELSE BucketTrace(s[i - 1], traces[i], cfg, cutoff)
    IN  s[Len(traces)]
=============================================================================
