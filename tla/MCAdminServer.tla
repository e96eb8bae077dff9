--------------------------- MODULE MCAdminServer ---------------------------
(* Small instances of AdminServer for TLC. *)
EXTENDS AdminServer, TLC

CONSTANTS p1, p2, n1, n2, s1, s2, a1, a2, l1, g1, g2, f1, i1, i2

Config(source, nodes) ==
    [source |-> source, nodes |-> nodes, disabled |-> {}, aliases |-> <<>>,
     serverAliases |-> <<>>, labels |-> <<>>, serverLabels |-> <<>>]

List == Config("subscription", <<>>)
Static(state) == Config("static", n1 :> state)

MCFirstDisk ==
    [s \in Sections |->
        CASE s = "nodes" -> p1 :> List @@ p2 :> Static("unset")
          [] s = "fingerprints" -> {}
          [] s = "traffic" -> [rules |-> {}, keep |-> 1]
          [] OTHER -> 1]

Metadata(n, a, server) ==
    [kind |-> "metadata", pool |-> p1, node |-> n, alias |-> a,
     label |-> IF a = a1 THEN l1 ELSE Nothing, server |-> server]
AddPool(p, c) == [kind |-> "addPool", pool |-> p, config |-> c]
UpdatePool(p, q, c) == [kind |-> "updatePool", pool |-> p, newName |-> q, config |-> c]
DeletePool(p) == [kind |-> "deletePool", pool |-> p]
UpdateNode(n, m, s) ==
    [kind |-> "updateNode", pool |-> p2, node |-> n, newName |-> m, as |-> s]
DeleteNode(n) == [kind |-> "deleteNode", pool |-> p2, node |-> n]
Enable(p, n, on) == [kind |-> "enable", pool |-> p, node |-> n, on |-> on]
Set(s, v) == [kind |-> "set", section |-> s, value |-> v]
AddRule(g) == [kind |-> "addRule", rule |-> g]
Keep(v) == [kind |-> "keep", value |-> v]
AddFingerprint == [kind |-> "addFingerprint", name |-> f1]
DeleteFingerprint == [kind |-> "deleteFingerprint", name |-> f1]
Reload == [kind |-> "reload", failed |-> FALSE]
RefreshPool(p) == [kind |-> "refresh", pool |-> p]
Login(ip, right) == [kind |-> "login", ip |-> ip, right |-> right]

\* A source lists each node at a server of its own, or has moved the first to
\* the server of the second.
MCListings == {n1 :> s1 @@ n2 :> s2, n1 :> s2 @@ n2 :> s2}

MCHome == n1 :> s1 @@ n2 :> s1

\* Requests that meet in a file, and those of one address or two.
MCWorkloads ==
    {[requests |-> {Metadata(n1, a1, s1), Metadata(n1, Nothing, Unnamed),
                    Metadata(n2, a1, s2), Metadata(n1, a2, Unnamed)}, most |-> 3],
     [requests |-> {AddPool(p2, Static("unset")), UpdatePool(p1, p2, List),
                    UpdatePool(p2, p2, Static("off")), DeletePool(p2),
                    Reload}, most |-> 3],
     [requests |-> {UpdateNode(n1, n2, "unset"), UpdateNode(n1, n1, "unusable"),
                    DeleteNode(n1), Enable(p2, n1, FALSE),
                    Enable(p2, n1, TRUE)}, most |-> 3],
     [requests |-> {Enable(p1, n2, FALSE), Enable(p1, n2, TRUE), RefreshPool(p1),
                    Metadata(n2, a1, s1)}, most |-> 3],
     [requests |-> {Set("health", 2), Set("log", 2), AddRule(g1), Reload}, most |-> 3],
     [requests |-> {AddFingerprint, DeleteFingerprint, Set("proxy", 2), Keep(2),
                    AddRule(g2)}, most |-> 3],
     [requests |-> {Login(i1, FALSE), Login(i1, TRUE)}, most |-> 5],
     [requests |-> {Login(i1, FALSE), Login(i2, FALSE)}, most |-> 3]}

=============================================================================
