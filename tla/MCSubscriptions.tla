-------------------------- MODULE MCSubscriptions --------------------------
(* Small instances of Subscriptions for TLC. *)
EXTENDS Subscriptions

CONSTANTS b1, c1

Both == {<<"pawapay", "flexpay">>}
=============================================================================
