----------------------------- MODULE PaymentsMC -----------------------------
(***************************************************************************)
(* Instances of Payments for TLC.                                          *)
(***************************************************************************)
EXTENDS Payments, TLC

CONSTANTS Opening  \* the opening balance every wallet has in a run

OpeningEverywhere == [w \in Wallets |-> Opening]

\* Requests and wallets are interchangeable: all wallets open with the same balance.
Interchangeable == Permutations(Requests) \cup Permutations(Wallets)

\* The workload of the safety and liveness run, where symmetry would be unsound: requests
\* 1 and 2 place holds, 3 and 4 settle them in every way, and of two requests of one kind
\* the first begins first, which costs no interleaving because they are interchangeable.
\* Four requests are the fewest with two transfers that cross.
TwoAndTwo ==
  /\ \A p \in {1, 3} : pc[p] = "idle" => pc[p + 1] = "idle"
  /\ \A p \in Requests :
       /\ pc[p] = "hold_select" => p \in {1, 2}
       /\ pc[p] \in {"release_select", "transfer_select"} => p \in {3, 4} /\ arg[p].hold \in {1, 2}
TwoAndTwoFairSpec == Init /\ [][Next /\ TwoAndTwo']_vars /\ Fairness
=============================================================================
