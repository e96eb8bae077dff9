----------------------- MODULE SubscriptionService -----------------------
(***************************************************************************)
(* What a subscription pool promises to whoever selects nodes from it      *)
(* (docs/subscription-routing.md, internal/pool/status.go): the nodes a    *)
(* successful fetch brought are kept on disk, a failed fetch is visible    *)
(* and never takes usable nodes away, and a new process that cannot reach  *)
(* the source starts from the nodes on disk.                               *)
(***************************************************************************)
CONSTANTS
    Content,        \* what a fetch may bring
    NoNodes,        \* the content of an empty pool
    DiskFaults      \* TRUE: the disk may refuse a read or a write

VARIABLES
    running,        \* the process has loaded its pools
    shown,          \* the nodes requests may be given
    failed,         \* the failure the Admin shows for the last attempt
    saved           \* the nodes on disk

serviceVars == <<running, shown, failed, saved>>

Init ==
    /\ ~running
    /\ shown = NoNodes
    /\ ~failed
    /\ saved = NoNodes

\* A fetch succeeded: its nodes go to disk before they are used.
Save ==
    /\ saved' \in Content
    /\ UNCHANGED <<running, shown, failed>>

\* The nodes in use are those on disk, or none if the filters reject them all
\* or the pool was switched off.
Succeed ==
    /\ running
    /\ DiskFaults \/ shown' \in {saved, NoNodes}
    /\ ~failed'
    /\ UNCHANGED <<running, saved>>

\* A fetch failed: the nodes stay; an empty pool may be filled from disk.
Fail ==
    /\ running
    /\ shown' = shown \/ (shown = NoNodes /\ shown' = saved)
    /\ failed'
    /\ UNCHANGED <<running, saved>>

Start ==
    /\ ~running
    /\ running'
    /\ (DiskFaults /\ ~failed') \/ shown' \in {saved, NoNodes}
    /\ UNCHANGED saved

Stop ==
    /\ ~running'
    /\ shown' = NoNodes
    /\ ~failed'
    /\ UNCHANGED saved

Next == Save \/ Succeed \/ Fail \/ Start \/ Stop

Spec == Init /\ [][Next]_serviceVars

=============================================================================
