---------------------------- MODULE ContractSaga ----------------------------
(***************************************************************************)
(* The contracts service: the saga orchestrator that takes a contract      *)
(* through its lifecycle while the payments service holds, transfers or    *)
(* releases its money.  HTTP handlers run concurrently; each one reads and *)
(* writes the contracts table in short transactions, and calls payments    *)
(* over HTTP between them.  Payment events come back through the payments  *)
(* outbox and JetStream, at least once and in any order.                   *)
(*                                                                         *)
(* Payments appears as what it does to one hold per contract, atomically:  *)
(* Payments implements EscrowRequests, and here the steps of payments are  *)
(* Escrow's (PaymentsIsEscrow).  CreateContract sends one HoldFunds per    *)
(* contract, so a hold is named by its contract.                           *)
(***************************************************************************)
EXTENDS Integers, Sequences, FiniteSets

CONSTANTS Contracts,  \* contract ids
          Handlers,   \* goroutines serving requests to the contracts service
          None        \* no contract, no message

ASSUME SagaAssumption == None \notin Contracts

VARIABLES
  status,     \* contracts.status, "NONE" where there is no row
  linked,     \* the contracts whose hold_id is set
  announced,  \* the contracts outbox: event types per contract, in insertion order
  pc,         \* where each handler is
  on,         \* the contract it serves
  reply,      \* the answer of payments to its call
  hold,       \* the status of the contract's hold in payments
  late,       \* calls whose caller has gone, which payments may still serve
  payOutbox,  \* payment events not marked published
  stream,     \* payment events in JetStream, not acknowledged
  inbox       \* the event the consumer has handled, and its verdict

table    == <<status, linked, announced>>
handlers == <<pc, on, reply>>
payments == <<hold, late, payOutbox>>
nats     == <<stream, inbox>>
vars     == <<table, handlers, payments, nats>>

-----------------------------------------------------------------------------
Settled  == {"COMPLETED", "DECLINED", "CANCELLED"}
Statuses == {"NONE", "PENDING", "HOLD_PENDING", "AWAITING_ACCEPT", "ACTIVE",
             "COMPLETING", "DECLINING"} \cup Settled

\* Event types are written without the "contracts." or "payments." of their stream.
Announcements == {"contract.created", "contract.accepted", "contract.completed",
                  "contract.declined", "contract.cancelled"}

Operations == {"hold", "transfer", "release"}
Calling    == {"hold_call", "transfer_call", "release_call"}
PCs        == {"idle", "link", "compensate", "complete_mark", "complete_finish",
               "cancel_mark", "cancel_finish"} \cup Calling

Call  == [op : Operations, contract : Contracts]
Event == [type : {"payment.held", "payment.failed", "payment.transferred", "payment.released"},
          contract : Contracts]

TypeOK ==
  /\ status \in [Contracts -> Statuses]
  /\ linked \subseteq Contracts
  /\ announced \in [Contracts -> Seq(Announcements)]
  /\ pc \in [Handlers -> PCs]
  /\ on \in [Handlers -> Contracts \cup {None}]
  /\ reply \in [Handlers -> {"none", "ok", "failed"}]
  /\ hold \in [Contracts -> {"none", "active", "transferred", "released"}]
  /\ late \subseteq Call
  /\ payOutbox \subseteq Event
  /\ stream \subseteq Event
  /\ inbox \in [event : Event, verdict : {"ack", "nak"}] \cup {None}
  /\ \A t \in Handlers : pc[t] # "idle" => on[t] \in Contracts

Init ==
  /\ status = [c \in Contracts |-> "NONE"]
  /\ linked = {}
  /\ announced = [c \in Contracts |-> <<>>]
  /\ pc = [t \in Handlers |-> "idle"]
  /\ on = [t \in Handlers |-> None]
  /\ reply = [t \in Handlers |-> "none"]
  /\ hold = [c \in Contracts |-> "none"]
  /\ late = {} /\ payOutbox = {} /\ stream = {}
  /\ inbox = None

-----------------------------------------------------------------------------
(* The contracts table. *)

\* Mutant: UPDATE without "AND status = from".
UpdateStatusUnguarded(c, from, to, rows) ==
  /\ status' = [status EXCEPT ![c] = to]
  /\ announced' = [announced EXCEPT ![c] = @ \o rows]

\* UPDATE contracts SET status = to WHERE id = c AND status = from, and in the same
\* transaction the outbox rows that go with it.  When no row is affected the
\* transaction is rolled back (ErrStatusConflict).
UpdateStatus(c, from, to, rows) ==
  IF status[c] = from
  THEN /\ status' = [status EXCEPT ![c] = to]
       /\ announced' = [announced EXCEPT ![c] = @ \o rows]
  ELSE UNCHANGED <<status, announced>>

Goto(t, where) ==
  /\ pc' = [pc EXCEPT ![t] = where]
  /\ reply' = [reply EXCEPT ![t] = "none"]
  /\ on' = [on EXCEPT ![t] = IF where = "idle" THEN None ELSE @]

Enter(t, c, where) ==
  /\ pc[t] = "idle"
  /\ pc' = [pc EXCEPT ![t] = where]
  /\ on' = [on EXCEPT ![t] = c]
  /\ UNCHANGED reply

-----------------------------------------------------------------------------
(* The payments service, one atomic operation at a time. *)

OperationOf(where) ==
  CASE where = "hold_call" -> "hold"
    [] where = "transfer_call" -> "transfer"
    [] where = "release_call" -> "release"

Emit(type, c) == payOutbox' = payOutbox \cup {[type |-> type, contract |-> c]}

HoldFunds(c, answer) ==
  \/ /\ answer = "ok"
     /\ hold' = [hold EXCEPT ![c] = "active"]
     /\ Emit("payment.held", c)
  \/ /\ answer = "failed"
     /\ Emit("payment.failed", c)
     /\ UNCHANGED hold

TransferFunds(c, answer) ==
  /\ hold[c] = "active" /\ answer = "ok"
  /\ hold' = [hold EXCEPT ![c] = "transferred"]
  /\ Emit("payment.transferred", c)

ReleaseFunds(c, answer) ==
  /\ hold[c] = "active" /\ answer = "ok"
  /\ hold' = [hold EXCEPT ![c] = "released"]
  /\ Emit("payment.released", c)

\* 409 "hold is not active", any 5xx, or a call that never arrives.
NotServed(answer) == answer = "failed" /\ UNCHANGED <<hold, payOutbox>>

Serve(op, c, answer) ==
  \/ op = "hold" /\ HoldFunds(c, answer)
  \/ op = "transfer" /\ TransferFunds(c, answer)
  \/ op = "release" /\ ReleaseFunds(c, answer)
  \/ NotServed(answer)

\* Payments serves the call a handler waits on.
PaymentsServes(t) ==
  /\ pc[t] \in Calling
  /\ reply[t] = "none"
  /\ \E answer \in {"ok", "failed"} :
       /\ Serve(OperationOf(pc[t]), on[t], answer)
       /\ reply' = [reply EXCEPT ![t] = answer]
  /\ UNCHANGED <<table, pc, on, late, nats>>

\* Payments serves, or drops, a call nobody waits on any more.
PaymentsServesLate ==
  \E call \in late :
    /\ \E answer \in {"ok", "failed"} : Serve(call.op, call.contract, answer)
    /\ late' = late \ {call}
    /\ UNCHANGED <<table, handlers, nats>>

\* Mutant: a call that is left is sent again, served or not.
LeaveCallResends(t) ==
  late' = IF pc[t] \in Calling
          THEN late \cup {[op |-> OperationOf(pc[t]), contract |-> on[t]]}
          ELSE late

\* The caller stops waiting: the call, if unserved, is now late.
LeaveCall(t) ==
  late' = IF pc[t] \in Calling /\ reply[t] = "none"
          THEN late \cup {[op |-> OperationOf(pc[t]), contract |-> on[t]]}
          ELSE late

-----------------------------------------------------------------------------
(* CreateContract. *)

CreateInsert(t, c) ==
  /\ status[c] = "NONE"
  /\ Enter(t, c, "hold_call")
  /\ status' = [status EXCEPT ![c] = "PENDING"]
  /\ UNCHANGED <<linked, announced, payments, nats>>

HoldGranted(t) ==
  /\ pc[t] = "hold_call" /\ reply[t] = "ok"
  /\ Goto(t, "link")
  /\ UNCHANGED <<table, payments, nats>>

\* Mutant: a hold that timed out is asked for again, with no idempotency key.
HoldErredRetries(t) ==
  /\ pc[t] = "hold_call"
  /\ Goto(t, "hold_call")
  /\ LeaveCall(t)
  /\ UNCHANGED <<table, hold, payOutbox, nats>>

\* HoldFunds returned an error: payments said so, or the client's timeout fired.
HoldErred(t) ==
  /\ pc[t] = "hold_call"
  /\ Goto(t, "compensate")
  /\ LeaveCall(t)
  /\ UNCHANGED <<table, hold, payOutbox, nats>>

\* PENDING -> HOLD_PENDING, hold_id and contract.created in one transaction.
CreateLink(t) ==
  LET c == on[t] IN
  /\ pc[t] = "link"
  /\ UpdateStatus(c, "PENDING", "HOLD_PENDING", <<"contract.created">>)
  /\ linked' = IF status[c] = "PENDING" THEN linked \cup {c} ELSE linked
  /\ Goto(t, "idle")
  /\ UNCHANGED <<payments, nats>>

\* PENDING -> CANCELLED with contract.cancelled.  An error of the UPDATE or of the INSERT
\* is only logged, and the transaction is committed with the other alone.
CreateCompensate(t) ==
  LET c == on[t] IN
  /\ pc[t] = "compensate"
  /\ \/ status' = [status EXCEPT ![c] = IF @ = "PENDING" THEN "CANCELLED" ELSE @]
     \/ UNCHANGED status
  /\ \/ announced' = [announced EXCEPT ![c] = Append(@, "contract.cancelled")]
     \/ UNCHANGED announced
  /\ Goto(t, "idle")
  /\ UNCHANGED <<linked, payments, nats>>

-----------------------------------------------------------------------------
(* AcceptContract: one transaction. *)

Accept(c) ==
  /\ status[c] = "AWAITING_ACCEPT"
  /\ UpdateStatus(c, "AWAITING_ACCEPT", "ACTIVE", <<"contract.accepted">>)
  /\ UNCHANGED <<linked, handlers, payments, nats>>

-----------------------------------------------------------------------------
(* CompleteContract. *)

\* The contract is read; what follows depends on the status it had then.
CompleteRead(t, c) ==
  /\ \/ status[c] = "ACTIVE" /\ Enter(t, c, "complete_mark")
     \/ status[c] = "COMPLETING" /\ c \in linked /\ Enter(t, c, "transfer_call")
  /\ UNCHANGED <<table, payments, nats>>

\* ACTIVE -> COMPLETING, or ErrStatusConflict.
CompleteMark(t) ==
  LET c == on[t] IN
  /\ pc[t] = "complete_mark"
  /\ UpdateStatus(c, "ACTIVE", "COMPLETING", <<>>)
  /\ Goto(t, IF status[c] = "ACTIVE" /\ c \in linked THEN "transfer_call" ELSE "idle")
  /\ UNCHANGED <<linked, payments, nats>>

TransferReturned(t) ==
  /\ pc[t] = "transfer_call" /\ reply[t] # "none"
  /\ Goto(t, IF reply[t] = "ok" THEN "complete_finish" ELSE "idle")
  /\ UNCHANGED <<table, payments, nats>>

CompleteFinish(t) ==
  /\ pc[t] = "complete_finish"
  /\ UpdateStatus(on[t], "COMPLETING", "COMPLETED", <<"contract.completed">>)
  /\ Goto(t, "idle")
  /\ UNCHANGED <<linked, payments, nats>>

-----------------------------------------------------------------------------
(* CancelContract. *)

CancelRead(t, c) ==
  /\ \/ status[c] = "AWAITING_ACCEPT" /\ Enter(t, c, "cancel_mark")
     \/ status[c] = "DECLINING" /\ c \in linked /\ Enter(t, c, "release_call")
  /\ UNCHANGED <<table, payments, nats>>

\* Mutant: ErrStatusConflict is not returned, and the status read before is trusted.
CancelMarkTrustsRead(t) ==
  LET c == on[t] IN
  /\ pc[t] = "cancel_mark"
  /\ UpdateStatus(c, "AWAITING_ACCEPT", "DECLINING", <<>>)
  /\ Goto(t, "release_call")
  /\ UNCHANGED <<linked, payments, nats>>

\* AWAITING_ACCEPT -> DECLINING, or ErrStatusConflict.
CancelMark(t) ==
  LET c == on[t] IN
  /\ pc[t] = "cancel_mark"
  /\ UpdateStatus(c, "AWAITING_ACCEPT", "DECLINING", <<>>)
  /\ Goto(t, IF status[c] = "AWAITING_ACCEPT" /\ c \in linked THEN "release_call" ELSE "idle")
  /\ UNCHANGED <<linked, payments, nats>>

ReleaseReturned(t) ==
  /\ pc[t] = "release_call" /\ reply[t] # "none"
  /\ Goto(t, IF reply[t] = "ok" THEN "cancel_finish" ELSE "idle")
  /\ UNCHANGED <<table, payments, nats>>

CancelFinish(t) ==
  /\ pc[t] = "cancel_finish"
  /\ UpdateStatus(on[t], "DECLINING", "DECLINED", <<"contract.declined">>)
  /\ Goto(t, "idle")
  /\ UNCHANGED <<linked, payments, nats>>

\* The handler ends wherever it is: its transaction rolls back on an error or a
\* cancelled context, a call times out, or the process dies.
Die(t) ==
  /\ pc[t] # "idle"
  /\ Goto(t, "idle")
  /\ LeaveCall(t)
  /\ UNCHANGED <<table, hold, payOutbox, nats>>

-----------------------------------------------------------------------------
(* Payment events. *)

\* The payments outbox publisher sends an event and marks the row; a crash or an
\* error in between leaves the row to be sent again.
Publish(e) ==
  /\ e \in payOutbox
  /\ stream' = stream \cup {e}
  /\ payOutbox' = payOutbox \ {e}
  /\ UNCHANGED <<table, handlers, hold, late, inbox>>

PublishUnmarked(e) ==
  /\ e \in payOutbox
  /\ stream' = stream \cup {e}
  /\ UNCHANGED <<table, handlers, payments, inbox>>

\* The handler of each event; other events are ignored.  HandlePaymentHeld and
\* HandlePaymentFailed expect HOLD_PENDING.
HandleEvent(e) ==
  CASE e.type = "payment.held" ->
         UpdateStatus(e.contract, "HOLD_PENDING", "AWAITING_ACCEPT", <<>>)
    [] e.type = "payment.failed" ->
         UpdateStatus(e.contract, "HOLD_PENDING", "CANCELLED", <<"contract.cancelled">>)
    [] OTHER -> UNCHANGED <<status, announced>>

\* Mutant: the message is acknowledged though its handler returned an error.
VerdictAlwaysAck(e) == "ack"

\* Mutant: an event that finds its contract in another status is given up, not retried.
VerdictTerm(e) ==
  IF e.type \in {"payment.held", "payment.failed"} /\ status[e.contract] # "HOLD_PENDING"
  THEN "term" ELSE "ack"

\* Nak when the handler returned ErrStatusConflict, Ack otherwise.
Verdict(e) ==
  IF e.type \in {"payment.held", "payment.failed"} /\ status[e.contract] # "HOLD_PENDING"
  THEN "nak" ELSE "ack"

\* runPaymentsConsumer takes an event and runs its handler.
Consume(e) ==
  /\ e \in stream
  /\ inbox = None
  /\ HandleEvent(e)
  /\ inbox' = [event |-> e, verdict |-> Verdict(e)]
  /\ UNCHANGED <<linked, handlers, payments, stream>>

Ack ==
  /\ inbox # None /\ inbox.verdict = "ack"
  /\ stream' = stream \ {inbox.event}
  /\ inbox' = None
  /\ UNCHANGED <<table, handlers, payments>>

\* A Nak, an acknowledgement that is lost, or a consumer that dies before it: the
\* event stays in the stream and is delivered again.
Redeliver ==
  /\ inbox # None
  /\ inbox' = None
  /\ UNCHANGED <<table, handlers, payments, stream>>

-----------------------------------------------------------------------------
Handle(t) ==
  \/ HoldGranted(t) \/ HoldErred(t) \/ CreateLink(t) \/ CreateCompensate(t)
  \/ CompleteMark(t) \/ TransferReturned(t) \/ CompleteFinish(t)
  \/ CancelMark(t) \/ ReleaseReturned(t) \/ CancelFinish(t)

Request(t, c) == CreateInsert(t, c) \/ CompleteRead(t, c) \/ CancelRead(t, c)

Next ==
  \/ \E t \in Handlers : Handle(t) \/ PaymentsServes(t) \/ Die(t)
  \/ \E t \in Handlers, c \in Contracts : Request(t, c)
  \/ \E c \in Contracts : Accept(c)
  \/ PaymentsServesLate
  \/ \E e \in payOutbox : Publish(e) \/ PublishUnmarked(e)
  \/ \E e \in stream : Consume(e)
  \/ Ack \/ Redeliver

Spec == Init /\ [][Next]_vars

-----------------------------------------------------------------------------
(* Fairness. *)

\* The publisher polls for ever and sends what is unpublished; JetStream delivers
\* every unacknowledged event again, and not only some of them; the consumer's loop
\* ends what it has in hand, and an acknowledgement is not lost every time.
EventFairness ==
  /\ \A e \in Event : WF_vars(Publish(e)) /\ SF_vars(Consume(e))
  /\ \A e \in Event : SF_vars(Ack /\ inbox.event = e)
  /\ WF_vars(Redeliver)
EventSpec == Spec /\ EventFairness

\* Clients retry for ever, payments serves again and again every call it can serve,
\* and handlers do not die every time before they act on an answer.
RetryFairness ==
  \A t \in Handlers :
    /\ \A c \in Contracts : SF_vars(CompleteRead(t, c)) /\ SF_vars(CancelRead(t, c))
    /\ SF_vars(Handle(t)) /\ SF_vars(PaymentsServes(t))
    /\ SF_vars(PaymentsServes(t) /\ reply'[t] = "ok")
    /\ SF_vars(pc[t] # "hold_call" /\ reply[t] = "ok" /\ Handle(t))
    /\ SF_vars(CompleteFinish(t) \/ CancelFinish(t))
RetrySpec == Spec /\ RetryFairness

-----------------------------------------------------------------------------
(* What must hold. *)

\* The contract's status and the contract's money never contradict each other, though
\* two databases keep them: money is paid out only for a contract that is COMPLETED or
\* on its way, returned only for one that is DECLINED or on its way, and still held
\* for every contract that can be accepted, completed or cancelled.
MoneyAllowed(s) ==
  CASE s = "NONE" -> {"none"}
    [] s \in {"PENDING", "CANCELLED"} -> {"none", "active"}
    [] s \in {"HOLD_PENDING", "AWAITING_ACCEPT", "ACTIVE"} -> {"active"}
    [] s = "COMPLETING" -> {"active", "transferred"}
    [] s = "COMPLETED" -> {"transferred"}
    [] s = "DECLINING" -> {"active", "released"}
    [] s = "DECLINED" -> {"released"}
MoneyFollowsStatus == \A c \in Contracts : hold[c] \in MoneyAllowed(status[c])

\* The outbox tells each contract's history once and in order, whatever retries,
\* crashes and redeliveries there were: nothing is announced twice, and nothing is
\* missing but where the compensation of CreateContract commits the status without the
\* event or the event without the status (saga.go:100-117).
Histories(s) ==
  LET created == <<"contract.created">>
      accepted == <<"contract.created", "contract.accepted">> IN
  CASE s = "NONE" -> {<<>>}
    [] s = "PENDING" -> {<<>>, <<"contract.cancelled">>}
    [] s = "CANCELLED" -> {<<>>, <<"contract.cancelled">>, Append(created, "contract.cancelled")}
    [] s \in {"HOLD_PENDING", "AWAITING_ACCEPT", "DECLINING"} -> {created}
    [] s \in {"ACTIVE", "COMPLETING"} -> {accepted}
    [] s = "COMPLETED" -> {Append(accepted, "contract.completed")}
    [] s = "DECLINED" -> {Append(created, "contract.declined")}
HistoryToldOnce == \A c \in Contracts : announced[c] \in Histories(status[c])

\* A contract whose money is held moves on by its payment.held event, though the event
\* can arrive before the contract is HOLD_PENDING, be delivered many times, and be
\* handled by a consumer that dies before acknowledging it.
HeldGoesOn == \A c \in Contracts : (status[c] = "HOLD_PENDING") ~> (status[c] # "HOLD_PENDING")

\* HoldFunds is sent once for each contract, and so is served once: a call that waits, or
\* was left, is the only one of its contract and finds no hold there.  This is why a hold
\* may be named by its contract, though payments makes a new one at every call.
HoldAwaited(t) == pc[t] = "hold_call" /\ reply[t] = "none"
HoldLeft(c)    == [op |-> "hold", contract |-> c] \in late
HeldOnce ==
  /\ \A t \in Handlers : HoldAwaited(t) =>
       /\ hold[on[t]] = "none" /\ ~HoldLeft(on[t])
       /\ \A u \in Handlers : HoldAwaited(u) /\ on[u] = on[t] => u = t
  /\ \A c \in Contracts : HoldLeft(c) => hold[c] = "none"

\* A contract goes through a life that client and freelancer can both check, seen only
\* from its status and its money, and each stage is one step of one of them: the
\* freelancer is paid once and only under a contract that both agreed to, the client is
\* refunded once and only under one that was not, and neither is ever taken back, though
\* accept, complete and cancel race and payments serves calls that nobody waits for.
Stage(c) ==
  CASE hold[c] = "transferred" -> "paid"
    [] hold[c] = "released" -> "refunded"
    [] status[c] \in {"ACTIVE", "COMPLETING"} -> "agreed"
    [] status[c] = "CANCELLED" -> "void"
    [] status[c] = "NONE" -> "none"
    [] OTHER -> "proposed"
Deal == INSTANCE Engagement WITH stage <- [c \in Contracts |-> Stage(c)]
ImplementsEngagement == Deal!Spec

\* What the saga does to payments are steps of Escrow, whatever it leaves, retries or does
\* twice: a contract's hold is placed once, settled once, and never placed again after.
\* The client's wallet holds the contract's budget, which is the unit here.
ClientHas(c) == IF hold[c] = "transferred" THEN 0 ELSE 1
EscrowMoney ==
  INSTANCE Escrow
    WITH Wallets <- Contracts \X {"client", "freelancer"}, HoldIds <- Contracts, Amounts <- {1},
         OpeningBalance <- [w \in Contracts \X {"client", "freelancer"} |->
                              IF w[2] = "client" THEN 1 ELSE 0],
         balance <- [w \in Contracts \X {"client", "freelancer"} |->
                       IF w[2] = "client" THEN ClientHas(w[1]) ELSE 1 - ClientHas(w[1])],
         holds <- [c \in Contracts |->
                     IF hold[c] = "none"
                     THEN [status |-> "none", wallet |-> None, amount |-> 0]
                     ELSE [status |-> hold[c], wallet |-> <<c, "client">>, amount |-> 1]]
PaymentsIsEscrow == EscrowMoney!Spec

-----------------------------------------------------------------------------
(* What the comments say and the code does not do. *)

\* "CompleteContract and CancelContract handle both fresh calls and retries from
\* COMPLETING/DECLINING states (idempotent)" (saga.go:27-28): retried for ever with
\* payments up, they settle the contract.
RetrySettles ==
  \A c \in Contracts :
    /\ (status[c] = "COMPLETING") ~> (status[c] = "COMPLETED")
    /\ (status[c] = "DECLINING") ~> (status[c] = "DECLINED")

\* "Hold failed - mark contract cancelled" (saga.go:94): a contract is cancelled when
\* its hold failed, so nothing is held for a cancelled contract.
CancelledHoldsNothing == \A c \in Contracts : status[c] = "CANCELLED" => hold[c] # "active"

\* "HandlePaymentFailed marks contract as CANCELLED when hold fails.  Called by the NATS
\* consumer when payment.failed event is received." (saga.go:166-167): such an
\* event is eventually handled and leaves the stream.
FailedEventsDrain ==
  \A c \in Contracts :
    LET e == [type |-> "payment.failed", contract |-> c] IN
    (status[c] = "CANCELLED" /\ e \in stream) ~> (e \notin stream)
=============================================================================
