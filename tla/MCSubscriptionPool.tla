------------------------ MODULE MCSubscriptionPool ------------------------
(* Small instances of SubscriptionPool for TLC. *)
EXTENDS SubscriptionPool

\* A pool that may be switched off, reject every node or be misconfigured.
MCAllConfigs == {"on", "rejects-all", "bad-regex", "off"}

\* A pool that may be switched off and on.
MCSwitched == {"on", "off"}

=============================================================================
