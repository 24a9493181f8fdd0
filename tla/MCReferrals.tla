---------------------------- MODULE MCReferrals ----------------------------
(* Small instances of Referrals for TLC. *)
EXTENDS Referrals, TLC

CONSTANTS u1, p1, p2, k1, k2, s1, r1, r2

PaidByFirst == [s \in Sources |-> u1]
OwnedByFirst == [r \in CashOuts |-> p1]

Symmetry == Permutations(Calls) \cup Permutations(CashOuts)
=============================================================================
