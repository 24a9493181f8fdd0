--------------------------- MODULE PaymentStatus ---------------------------
(***************************************************************************)
(* The statuses of a payment_transactions row, shared by the modules of    *)
(* payouts, deposits and referral withdrawals.                             *)
(***************************************************************************)

None == "none"      \* no row, or no value in a column

Open     == {"pending", "initiated"}
Refused  == {"failed", "cancelled"}
Terminal == {"succeeded"} \cup Refused
Statuses == Open \cup Terminal
=============================================================================
