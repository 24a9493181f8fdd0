------------------------ MODULE MCWalletWithdrawals ------------------------
(* Small instances of WalletWithdrawals for TLC. *)
EXTENDS WalletWithdrawals

CONSTANTS u1, r1, c1, c2

OneRequest == {r1}
OneUserOwns == [r \in Requests |-> u1]

FlexPayOnly == {<<"flexpay">>}
PawaPayOnly == {<<"pawapay">>}
Both == {<<"flexpay", "pawapay">>, <<"pawapay", "flexpay">>}
AllRoutes == FlexPayOnly \cup PawaPayOnly \cup Both

\* Three tokens, two of them purchased.
Mixed == [balance |-> 3, withdrawable |-> 2, reserved |-> 0, blocked |-> FALSE]
MixedOnly == {Mixed}
=============================================================================
