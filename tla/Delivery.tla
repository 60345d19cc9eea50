------------------------------ MODULE Delivery ------------------------------
(***************************************************************************)
(* What a transactional outbox promises, with no rows, batches or locks:   *)
(* an event reaches the broker only if the transaction that recorded it    *)
(* was committed, at least once, perhaps again and again, and it is        *)
(* settled only after it has arrived.                                      *)
(***************************************************************************)
CONSTANT Entries  \* events

VARIABLES recorded,  \* the events of committed transactions
          arrived,   \* the events the broker has stored
          repeated,  \* the events it has stored more than once
          settled    \* the events the outbox will not send again

vars == <<recorded, arrived, repeated, settled>>

Init == recorded = {} /\ arrived = {} /\ repeated = {} /\ settled = {}

Record(e) ==
  /\ recorded' = recorded \cup {e}
  /\ UNCHANGED <<arrived, repeated, settled>>

\* Publishers whose database connection is gone may still send what is settled.
Deliver(e) ==
  /\ e \in recorded
  /\ arrived' = arrived \cup {e}
  /\ repeated' = IF e \in arrived THEN repeated \cup {e} ELSE repeated
  /\ UNCHANGED <<recorded, settled>>

Settle(S) ==
  /\ S \subseteq arrived
  /\ settled' = settled \cup S
  /\ UNCHANGED <<recorded, arrived, repeated>>

Next ==
  \/ \E e \in Entries : Record(e) \/ Deliver(e)
  \/ \E S \in SUBSET Entries : Settle(S)

Spec == Init /\ [][Next]_vars
=============================================================================
