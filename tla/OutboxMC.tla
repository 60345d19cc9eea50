------------------------------ MODULE OutboxMC ------------------------------
(***************************************************************************)
(* Instances of Outbox for TLC.                                            *)
(***************************************************************************)
EXTENDS Outbox, TLC

\* Of two rows the first is written first, which costs no interleaving: rows differ only
\* in whether they are poison, and the poison row is the one that would block the others.
\* Symmetry would be unsound for liveness.
InOrder == \A e, f \in Entries : e < f /\ row[f] # "none" => row[e] # "none"
InOrderFairSpec == Init /\ [][Next /\ InOrder']_vars /\ PublisherFairness /\ LossesEnd
=============================================================================
