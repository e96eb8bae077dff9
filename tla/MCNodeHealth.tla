--------------------------- MODULE MCNodeHealth ---------------------------
(* Small instances of NodeHealth for TLC. *)
EXTENDS NodeHealth

\* One pool configuration without a threshold of its own.
MCDefaultConfig == {[on |-> TRUE, maxFail |-> 0]}

\* A reload may also switch the pool off or give it its own threshold.
MCConfigs == {[on |-> TRUE, maxFail |-> 1], [on |-> FALSE, maxFail |-> 0]}

\* The run-time default may be lower or higher than the compiled-in one.
MCMaxFails == {1, 2, 3}

=============================================================================
