----------------------------- MODULE Engagement -----------------------------
(***************************************************************************)
(* What client and freelancer are promised, with no services, calls or     *)
(* events: a contract is proposed, and is then either agreed to or not;    *)
(* the freelancer is paid only under a contract that both agreed to, the   *)
(* client gets the money back only under one that was never agreed to, and *)
(* either happens once and is final.                                       *)
(***************************************************************************)
CONSTANT Contracts

VARIABLE stage

Init == stage = [c \in Contracts |-> "none"]

Move(c, from, to) == stage[c] = from /\ stage' = [stage EXCEPT ![c] = to]

Propose(c) == Move(c, "none", "proposed")
Agree(c)   == Move(c, "proposed", "agreed")
Pay(c)     == Move(c, "agreed", "paid")
Refund(c)  == Move(c, "proposed", "refunded")
Drop(c)    == Move(c, "proposed", "void")

Next == \E c \in Contracts : Propose(c) \/ Agree(c) \/ Pay(c) \/ Refund(c) \/ Drop(c)

Spec == Init /\ [][Next]_stage
=============================================================================
