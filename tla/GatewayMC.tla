----------------------------- MODULE GatewayMC -----------------------------
(***************************************************************************)
(* Instances of Gateway for TLC.                                           *)
(***************************************************************************)
EXTENDS Gateway, FiniteSets

CONSTANTS Dashboard  \* the requests that are for all services; the others are for payments

AllOrPayments == [r \in Requests |-> IF r \in Dashboard THEN Backends ELSE PoolWaits]
OneUser == [r \in Requests |-> CHOOSE u \in Users : TRUE]

\* The servers that leave, or fail to start.
Leaving == done \cup {s \in Servers : phase[s] = "exited"}
Started == \A s \in Servers : phase[s] # "starting"
Limiting == \E r \in Requests : pc[r] = "limited"
Working == {w \in Workers : worker[w] = "working"}

\* At most one of them does; the first request comes when all have started; a limiter is
\* refilled while somebody is about to ask it; one goroutine works at a time, which is
\* enough since at most one server waits for its own; and handlers use a transaction where
\* something waits for it.
OneLeavesFairSpec ==
  /\ Init
  /\ [][ /\ Next
         /\ Cardinality(Leaving') <= 1 /\ Cardinality(Working') <= 1
         /\ \A s \in Servers \ PoolWaits : inTx'[s] = {}
         /\ pc' # pc => Started
         /\ refilled' # refilled => Limiting ]_vars
  /\ Fairness
=============================================================================
