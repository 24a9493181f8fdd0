-------------------------- MODULE MCDriverPayouts --------------------------
(* Small instances of DriverPayouts for TLC. *)
EXTENDS DriverPayouts, TLC

CONSTANTS d1, r1, r2, c1, c2, k1

TwoRequests == {r1, r2}
OneDriverOwns == [r \in Requests |-> d1]

FlexPayOnly == {<<"flexpay">>}

Symmetry == Permutations(Callers) \cup Permutations(Requests)
=============================================================================
