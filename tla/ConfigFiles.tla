---------------------------- MODULE ConfigFiles ----------------------------
(***************************************************************************)
(* What the requests of the Admin API make of the configuration files      *)
(* (src/internal/admin/api.go): nodes.yaml, gateway.yaml with its sections *)
(* and fingerprints.yaml.  Every edit is a function of what the file holds *)
(* when the request reads it; a request the file does not allow is Refused *)
(* and changes nothing.  Pools of source direct and template keep no nodes *)
(* in the file and none of the edits below treats them in a way of its own.*)
(***************************************************************************)
EXTENDS FiniteSets

CONSTANTS Pools,        \* names of node pools
          Nodes,        \* names of nodes
          Servers,      \* server:port, as ServerKey writes it
          Aliases,      \* names given to the nodes of a subscription
          Labels,       \* a node's region and tags, taken together
          Rules,        \* url and folding rules of the traffic page
          Values,       \* values of a settings section
          Fingerprints, \* names of TLS fingerprints
          Nothing       \* an empty alias or label

Sections == {"nodes", "fingerprints", "health", "proxy", "traffic", "log"}

\* The sections of gateway.yaml are read and written together.
FileOf(section) ==
    IF section \in {"nodes", "fingerprints"} THEN section ELSE "gateway"

IsPartialFun(f, S, T) == DOMAIN f \subseteq S /\ \A x \in DOMAIN f : f[x] \in T

\* A static node may carry a switch of its own; an "unusable" one passes
\* validateNodeConfig but no dialer can be made of it.
NodeConfig == {"unset", "on", "off", "unusable"}

IsPoolConfig(c) ==
    /\ c.source \in {"static", "subscription"}
    /\ IsPartialFun(c.nodes, Nodes, NodeConfig)
    /\ c.disabled \subseteq Nodes
    /\ IsPartialFun(c.aliases, Aliases, Nodes)
    /\ IsPartialFun(c.serverAliases, Servers, Aliases)
    /\ IsPartialFun(c.labels, Nodes, Labels)
    /\ IsPartialFun(c.serverLabels, Servers, Labels)

Drop(f, S) == [x \in DOMAIN f \ S |-> f[x]]

Put(f, x, v) == [y \in DOMAIN f \cup {x} |-> IF y = x THEN v ELSE f[y]]

Switch(on) == IF on THEN "on" ELSE "off"

\* Mutated form: a static node's own switch is forgotten.
NodeListed(config, n, on) ==
    [config EXCEPT !.disabled = IF on THEN @ \ {n} ELSE @ \cup {n}]

\* updatePoolConfigNodeEnabled, and updateConfigNodeEnabled of the manager.
NodeEnabled(config, n, on) ==
    IF n \in DOMAIN config.nodes
    THEN [config EXCEPT !.nodes[n] = IF @ = "unusable" THEN @ ELSE Switch(on)]
    ELSE [config EXCEPT !.disabled = IF on THEN @ \ {n} ELSE @ \cup {n}]

-----------------------------------------------------------------------------
(* Metadata of a subscription's node.  keys has the server:port the        *)
(* request names, whatever node is there, or the one the node has at run   *)
(* time, or none.                                                          *)

SetOrDrop(f, S, value) ==
    IF value = Nothing THEN Drop(f, S)
                       ELSE [x \in DOMAIN f \cup S |-> IF x \in S THEN value ELSE f[x]]

\* Mutated form: only names are compared, not servers.
AliasNamed(config, r, keys) ==
    r.alias \in DOMAIN config.aliases /\ config.aliases[r.alias] # r.node

AliasTaken(config, r, keys) ==
    /\ r.alias # Nothing
    /\ \/ r.alias \in DOMAIN config.aliases /\ config.aliases[r.alias] # r.node
       \/ \E s \in DOMAIN config.serverAliases \ keys :
              config.serverAliases[s] = r.alias

WithMetadata(config, r, keys) ==
    LET others == Drop(config.aliases,
                       {a \in DOMAIN config.aliases : config.aliases[a] = r.node})
    IN  [config EXCEPT
            !.labels        = SetOrDrop(@, {r.node}, r.label),
            !.serverLabels  = SetOrDrop(@, keys, r.label),
            !.aliases       = IF r.alias = Nothing THEN others
                                                   ELSE Put(others, r.alias, r.node),
            !.serverAliases = SetOrDrop(@, keys, r.alias)]

-----------------------------------------------------------------------------
(* Which requests a file refuses, and what the others make of it.          *)

HasStaticNode(pools, r) ==
    /\ r.pool \in DOMAIN pools
    /\ pools[r.pool].source = "static"
    /\ r.node \in DOMAIN pools[r.pool].nodes

Refused(r, value, keys) ==
    CASE r.kind = "addPool" -> r.pool \in DOMAIN value
      [] r.kind = "updatePool" ->
            \/ r.pool \notin DOMAIN value
            \/ r.newName # r.pool /\ r.newName \in DOMAIN value
      [] r.kind \in {"deletePool", "enable"} -> r.pool \notin DOMAIN value
      [] r.kind = "metadata" ->
            \/ r.pool \notin DOMAIN value
            \/ value[r.pool].source # "subscription"
            \/ AliasTaken(value[r.pool], r, keys)
      [] r.kind = "updateNode" ->
            \/ ~HasStaticNode(value, r)
            \/ r.newName # r.node /\ r.newName \in DOMAIN value[r.pool].nodes
      [] r.kind = "deleteNode" -> ~HasStaticNode(value, r)
      [] r.kind = "addFingerprint" -> r.name \in value
      [] r.kind = "deleteFingerprint" -> r.name \notin value
      [] OTHER -> FALSE

\* An updated node takes the place of the old one, switch and all; a node that
\* gets a new name or goes leaves the list of disabled nodes.
WithNode(config, r) ==
    [config EXCEPT
        !.nodes    = Put(Drop(@, {r.node}), r.newName, r.as),
        !.disabled = IF r.newName = r.node THEN @ ELSE @ \ {r.node}]

WithoutNode(config, n) ==
    [config EXCEPT !.nodes = Drop(@, {n}), !.disabled = @ \ {n}]

Edited(r, value, keys) ==
    CASE r.kind = "addPool" -> Put(value, r.pool, r.config)
      [] r.kind = "updatePool" -> Put(Drop(value, {r.pool}), r.newName, r.config)
      [] r.kind = "deletePool" -> Drop(value, {r.pool})
      [] r.kind = "metadata" ->
            [value EXCEPT ![r.pool] = WithMetadata(@, r, keys)]
      [] r.kind = "updateNode" -> [value EXCEPT ![r.pool] = WithNode(@, r)]
      [] r.kind = "deleteNode" -> [value EXCEPT ![r.pool] = WithoutNode(@, r.node)]
      [] r.kind = "enable" -> [value EXCEPT ![r.pool] = NodeEnabled(@, r.node, r.on)]
      [] r.kind = "addFingerprint" -> value \cup {r.name}
      [] r.kind = "deleteFingerprint" -> value \ {r.name}
      [] r.kind = "addRule" -> [value EXCEPT !.rules = @ \cup {r.rule}]
      [] r.kind = "keep" -> [value EXCEPT !.keep = r.value]
      [] r.kind = "set" -> r.value

=============================================================================
