--------------------------- MODULE PayoutContract --------------------------
(***************************************************************************)
(* What a payout promises, whoever asks for it and however many providers, *)
(* polls, callbacks and crashes are involved: the funds of a request are   *)
(* held before anything is sent, at most one transfer is sent while they   *)
(* are held, they are given back only when no transfer can be on its way,  *)
(* and a refusal that turns out to be a payment is put under review.       *)
(***************************************************************************)
CONSTANTS Requests

VARIABLES
  phase,    \* phase[r]: what the platform did with the funds of r
  money     \* money[r]: what became of the transfer of r

contractVars == <<phase, money>>

ContractTypeOK ==
  /\ phase \in [Requests -> {"idle", "held", "paid", "returned", "review"}]
  /\ money \in [Requests -> {"missing", "sent", "paid", "refused", "reversed"}]

Init == /\ phase = [r \in Requests |-> "idle"]
        /\ money = [r \in Requests |-> "missing"]

Phase(r, from, to) == phase[r] = from /\ phase' = [phase EXCEPT ![r] = to]

Money(r, from, to) == money[r] = from /\ money' = [money EXCEPT ![r] = to]

Hold(r) == Phase(r, "idle", "held") /\ UNCHANGED money

Send(r) == phase[r] = "held" /\ Money(r, "missing", "sent") /\ UNCHANGED phase

Decide(r) ==
  /\ \/ Money(r, "sent", "paid")
     \/ Money(r, "sent", "refused")
     \/ Money(r, "refused", "reversed")
  /\ UNCHANGED phase

Pay(r) == /\ money[r] \in {"paid", "reversed"}
          /\ Phase(r, "held", "paid") /\ UNCHANGED money

Return(r) == /\ money[r] \in {"missing", "refused", "reversed"}
             /\ Phase(r, "held", "returned") /\ UNCHANGED money

Review(r) == /\ money[r] = "reversed"
             /\ Phase(r, "returned", "review") /\ UNCHANGED money

Next == \E r \in Requests : Hold(r) \/ Send(r) \/ Decide(r) \/ Pay(r)
                            \/ Return(r) \/ Review(r)

Spec == Init /\ [][Next]_contractVars
=============================================================================
