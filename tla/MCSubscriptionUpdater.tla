----------------------- MODULE MCSubscriptionUpdater -----------------------
(* Small instances of SubscriptionUpdater for TLC. *)
EXTENDS SubscriptionUpdater

=============================================================================
