-------------------------------- MODULE Sums -------------------------------
(***************************************************************************)
(* The SUM of SQL over a column of whole amounts: n tokens of a row count  *)
(* as the n pairs <<row, 1>>, ..., <<row, n>>, so that a sum is the size   *)
(* of a finite set and can be reasoned about without recursion.            *)
(***************************************************************************)
EXTENDS Integers, FiniteSets

Units(f, S) == UNION {{x} \X (1 .. f[x]) : x \in S}

SumOver(f, S) == Cardinality(Units(f, S))
=============================================================================
