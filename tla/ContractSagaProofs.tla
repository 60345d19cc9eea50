------------------------- MODULE ContractSagaProofs -------------------------
(***************************************************************************)
(* Proofs about ContractSaga, for any set of contracts and handlers: the   *)
(* status of a contract and its money never contradict each other, and the *)
(* outbox tells each contract's history once.                              *)
(*                                                                         *)
(* Two databases change in separate transactions, so the invariant says    *)
(* what each call in flight - awaited by a handler, or late - knows of     *)
(* both: that is SagaInv.                                                  *)
(***************************************************************************)
EXTENDS ContractSaga, SequenceTheorems, TLAPS

Creating(t) == pc[t] \in {"hold_call", "link", "compensate"}

\* What each handler knows of the contract it serves, and of its money.
Knows(t) ==
  /\ Creating(t) => status[on[t]] = "PENDING"
  /\ pc[t] = "hold_call" /\ reply[t] = "none" =>
       hold[on[t]] = "none" /\ [op |-> "hold", contract |-> on[t]] \notin late
  /\ pc[t] \notin Calling => reply[t] = "none"
  /\ pc[t] = "link" \/ (pc[t] = "hold_call" /\ reply[t] = "ok") => hold[on[t]] = "active"
  /\ pc[t] \in {"transfer_call", "complete_finish"} => status[on[t]] \in {"COMPLETING", "COMPLETED"}
  /\ pc[t] \in {"release_call", "cancel_finish"} => status[on[t]] \in {"DECLINING", "DECLINED"}
  /\ pc[t] = "complete_finish" \/ (pc[t] = "transfer_call" /\ reply[t] = "ok") =>
       hold[on[t]] = "transferred"
  /\ pc[t] = "cancel_finish" \/ (pc[t] = "release_call" /\ reply[t] = "ok") =>
       hold[on[t]] = "released"
HandlerKnows == \A t \in Handlers : Knows(t)

\* A contract is created by one handler.
OneCreator ==
  \A t, u \in Handlers : Creating(t) /\ Creating(u) /\ on[t] = on[u] => t = u

\* What a call that nobody waits for can still meet.
LateIs(c) ==
  /\ [op |-> "hold", contract |-> c] \in late =>
       status[c] \in {"PENDING", "CANCELLED"} /\ hold[c] = "none"
  /\ [op |-> "transfer", contract |-> c] \in late => status[c] \in {"COMPLETING", "COMPLETED"}
  /\ [op |-> "release", contract |-> c] \in late => status[c] \in {"DECLINING", "DECLINED"}
LateKnows == \A c \in Contracts : LateIs(c)

SagaInv == TypeOK /\ HandlerKnows /\ OneCreator /\ LateKnows /\ MoneyFollowsStatus

-----------------------------------------------------------------------------
\* MoneyAllowed, one status at a time.
LEMMA MoneyCases ==
  /\ MoneyAllowed("NONE") = {"none"}
  /\ MoneyAllowed("PENDING") = {"none", "active"}
  /\ MoneyAllowed("CANCELLED") = {"none", "active"}
  /\ MoneyAllowed("HOLD_PENDING") = {"active"}
  /\ MoneyAllowed("AWAITING_ACCEPT") = {"active"}
  /\ MoneyAllowed("ACTIVE") = {"active"}
  /\ MoneyAllowed("COMPLETING") = {"active", "transferred"}
  /\ MoneyAllowed("COMPLETED") = {"transferred"}
  /\ MoneyAllowed("DECLINING") = {"active", "released"}
  /\ MoneyAllowed("DECLINED") = {"released"}
  BY DEF MoneyAllowed

\* The operation each calling handler waits for.
LEMMA CallCases ==
  /\ OperationOf("hold_call") = "hold"
  /\ OperationOf("transfer_call") = "transfer"
  /\ OperationOf("release_call") = "release"
  BY DEF OperationOf

\* The initial state satisfies the inductive invariant.
LEMMA InitSaga == Init => SagaInv
  <1> SUFFICES ASSUME Init PROVE SagaInv
    OBVIOUS
  <1>1. TypeOK
    BY DEF Init, TypeOK, Statuses, PCs, Announcements
  <1>2. HandlerKnows /\ OneCreator /\ LateKnows
    BY DEF Init, HandlerKnows, Knows, OneCreator, LateKnows, LateIs, Creating, Calling
  <1>3. MoneyFollowsStatus
    BY MoneyCases DEF Init, MoneyFollowsStatus
  <1> QED
    BY <1>1, <1>2, <1>3 DEF SagaInv

\* Changing a contract's status keeps the types.
LEMMA UpdateType ==
  ASSUME TypeOK, NEW c \in Contracts, NEW from, NEW to \in Statuses, NEW rows \in Seq(Announcements),
         UpdateStatus(c, from, to, rows)
  PROVE  status' \in [Contracts -> Statuses] /\ announced' \in [Contracts -> Seq(Announcements)]
  <1>1. CASE status[c] = from
    <2>1. status' \in [Contracts -> Statuses]
      BY <1>1 DEF UpdateStatus, TypeOK
    <2>2. announced[c] \o rows \in Seq(Announcements)
      BY DEF TypeOK
    <2>3. announced' \in [Contracts -> Seq(Announcements)]
      BY <1>1, <2>2 DEF UpdateStatus, TypeOK
    <2> QED
      BY <2>1, <2>3
  <1>2. CASE status[c] # from
    BY <1>2 DEF UpdateStatus, TypeOK
  <1> QED
    BY <1>1, <1>2

\* Moving a handler, or entering one, keeps the types.
LEMMA GotoType ==
  ASSUME TypeOK, NEW t \in Handlers, NEW where \in PCs, pc[t] # "idle", Goto(t, where)
  PROVE  /\ pc' \in [Handlers -> PCs] /\ reply' \in [Handlers -> {"none", "ok", "failed"}]
         /\ on' \in [Handlers -> Contracts \cup {None}]
         /\ \A u \in Handlers : pc'[u] # "idle" => on'[u] \in Contracts
  <1>1. pc' \in [Handlers -> PCs] /\ reply' \in [Handlers -> {"none", "ok", "failed"}]
    BY DEF TypeOK, Goto
  <1>2. on' \in [Handlers -> Contracts \cup {None}]
    BY DEF TypeOK, Goto
  <1>3. \A u \in Handlers : pc'[u] # "idle" => on'[u] \in Contracts
    BY DEF TypeOK, Goto
  <1> QED
    BY <1>1, <1>2, <1>3

\* A handler that takes a request.
LEMMA EnterType ==
  ASSUME TypeOK, NEW t \in Handlers, NEW c \in Contracts, NEW where \in PCs, Enter(t, c, where)
  PROVE  /\ pc' \in [Handlers -> PCs] /\ reply' \in [Handlers -> {"none", "ok", "failed"}]
         /\ on' \in [Handlers -> Contracts \cup {None}]
         /\ \A u \in Handlers : pc'[u] # "idle" => on'[u] \in Contracts
  BY DEF TypeOK, Enter

\* Serving a call keeps the types of what payments owns.
LEMMA ServeType ==
  ASSUME TypeOK, NEW op, NEW c \in Contracts, NEW answer, Serve(op, c, answer)
  PROVE  /\ hold' \in [Contracts -> {"none", "active", "transferred", "released"}]
         /\ payOutbox' \subseteq Event
  <1>1. hold' \in [Contracts -> {"none", "active", "transferred", "released"}]
    BY DEF TypeOK, Serve, HoldFunds, TransferFunds, ReleaseFunds, NotServed
  <1>2. \A type \in {"payment.held", "payment.failed", "payment.transferred", "payment.released"} :
          Emit(type, c) => payOutbox' \subseteq Event
    BY DEF TypeOK, Emit, Event
  <1>3. payOutbox' \subseteq Event
    BY <1>2 DEF TypeOK, Serve, HoldFunds, TransferFunds, ReleaseFunds, NotServed
  <1> QED
    BY <1>1, <1>3

\* A call left behind is a call.
LEMMA LeaveType ==
  ASSUME TypeOK, NEW t \in Handlers, LeaveCall(t)
  PROVE  late' \subseteq Call
  <1>1. CASE pc[t] \in Calling /\ reply[t] = "none"
    <2>1. OperationOf(pc[t]) \in Operations /\ on[t] \in Contracts
      BY <1>1, CallCases DEF Calling, Operations, TypeOK
    <2> QED
      BY <1>1, <2>1 DEF TypeOK, LeaveCall, Call
  <1>2. CASE ~(pc[t] \in Calling /\ reply[t] = "none")
    BY <1>2 DEF TypeOK, LeaveCall
  <1> QED
    BY <1>1, <1>2

\* Every action preserves the types.
LEMMA SagaTypeStep == TypeOK /\ [Next]_vars => TypeOK'
  <1> SUFFICES ASSUME TypeOK, [Next]_vars PROVE TypeOK'
    OBVIOUS
  <1> USE DEF table, handlers, payments, nats
  <1>0. CASE UNCHANGED vars
    BY <1>0 DEF vars, TypeOK
  <1>1. ASSUME NEW t \in Handlers, Handle(t) PROVE TypeOK'
    <2>1. CASE HoldGranted(t)
      BY <2>1, GotoType DEF HoldGranted, TypeOK, PCs, Calling
    <2>2. CASE HoldErred(t)
      BY <2>2, GotoType, LeaveType DEF HoldErred, TypeOK, PCs, Calling
    <2>3. CASE CreateLink(t)
      <3>1. "HOLD_PENDING" \in Statuses /\ <<"contract.created">> \in Seq(Announcements) /\ on[t] \in Contracts
        BY <2>3 DEF CreateLink, Statuses, Announcements, TypeOK
      <3> QED
        BY <2>3, <3>1, UpdateType, GotoType DEF CreateLink, TypeOK, PCs
    <2>4. CASE CreateCompensate(t)
      <3>1. on[t] \in Contracts
        BY <2>4 DEF CreateCompensate, TypeOK
      <3>2. status' \in [Contracts -> Statuses]
        BY <2>4, <3>1 DEF CreateCompensate, TypeOK, Statuses, Settled
      <3>3. announced' \in [Contracts -> Seq(Announcements)]
        <4>1. Append(announced[on[t]], "contract.cancelled") \in Seq(Announcements)
          BY <3>1 DEF TypeOK, Announcements
        <4> QED
          BY <2>4, <3>1, <4>1 DEF CreateCompensate, TypeOK
      <3> QED
        BY <2>4, <3>2, <3>3, GotoType DEF CreateCompensate, TypeOK, PCs
    <2>5. CASE CompleteMark(t)
      <3>1. "COMPLETING" \in Statuses /\ <<>> \in Seq(Announcements) /\ on[t] \in Contracts
        BY <2>5 DEF CompleteMark, Statuses, TypeOK
      <3> QED
        BY <2>5, <3>1, UpdateType, GotoType DEF CompleteMark, TypeOK, PCs, Calling
    <2>6. CASE TransferReturned(t)
      BY <2>6, GotoType DEF TransferReturned, TypeOK, PCs
    <2>7. CASE CompleteFinish(t)
      <3>1. "COMPLETED" \in Statuses /\ <<"contract.completed">> \in Seq(Announcements) /\ on[t] \in Contracts
        BY <2>7 DEF CompleteFinish, Statuses, Settled, Announcements, TypeOK
      <3> QED
        BY <2>7, <3>1, UpdateType, GotoType DEF CompleteFinish, TypeOK, PCs
    <2>8. CASE CancelMark(t)
      <3>1. "DECLINING" \in Statuses /\ <<>> \in Seq(Announcements) /\ on[t] \in Contracts
        BY <2>8 DEF CancelMark, Statuses, TypeOK
      <3> QED
        BY <2>8, <3>1, UpdateType, GotoType DEF CancelMark, TypeOK, PCs, Calling
    <2>9. CASE ReleaseReturned(t)
      BY <2>9, GotoType DEF ReleaseReturned, TypeOK, PCs
    <2>10. CASE CancelFinish(t)
      <3>1. "DECLINED" \in Statuses /\ <<"contract.declined">> \in Seq(Announcements) /\ on[t] \in Contracts
        BY <2>10 DEF CancelFinish, Statuses, Settled, Announcements, TypeOK
      <3> QED
        BY <2>10, <3>1, UpdateType, GotoType DEF CancelFinish, TypeOK, PCs
    <2> QED
      BY <1>1, <2>1, <2>2, <2>3, <2>4, <2>5, <2>6, <2>7, <2>8, <2>9, <2>10 DEF Handle
  <1>2. ASSUME NEW t \in Handlers, PaymentsServes(t) PROVE TypeOK'
    <2>1. on[t] \in Contracts
      BY <1>2 DEF PaymentsServes, Calling, TypeOK
    <2>2. PICK c \in Contracts, op \in {OperationOf(pc[t])}, answer \in {"ok", "failed"} :
            c = on[t] /\ Serve(op, c, answer) /\ reply' = [reply EXCEPT ![t] = answer]
      BY <1>2, <2>1 DEF PaymentsServes
    <2> QED
      BY <1>2, <2>2, ServeType DEF PaymentsServes, TypeOK
  <1>3. ASSUME NEW t \in Handlers, Die(t) PROVE TypeOK'
    BY <1>3, GotoType, LeaveType DEF Die, TypeOK, PCs
  <1>4. ASSUME NEW t \in Handlers, NEW c \in Contracts, Request(t, c) PROVE TypeOK'
    <2>1. CASE CreateInsert(t, c)
      BY <2>1, EnterType DEF CreateInsert, TypeOK, PCs, Calling, Statuses
    <2>2. CASE CompleteRead(t, c)
      BY <2>2, EnterType DEF CompleteRead, TypeOK, PCs, Calling
    <2>3. CASE CancelRead(t, c)
      BY <2>3, EnterType DEF CancelRead, TypeOK, PCs, Calling
    <2> QED
      BY <1>4, <2>1, <2>2, <2>3 DEF Request
  <1>5. ASSUME NEW c \in Contracts, Accept(c) PROVE TypeOK'
    <2>1. "ACTIVE" \in Statuses /\ <<"contract.accepted">> \in Seq(Announcements)
      BY DEF Statuses, Announcements
    <2> QED
      BY <1>5, <2>1, UpdateType DEF Accept, TypeOK
  <1>6. CASE PaymentsServesLate
    <2>1. PICK call \in late, answer \in {"ok", "failed"} :
            Serve(call.op, call.contract, answer) /\ late' = late \ {call}
      BY <1>6 DEF PaymentsServesLate
    <2>2. call.contract \in Contracts
      BY DEF TypeOK, Call
    <2> QED
      BY <1>6, <2>1, <2>2, ServeType DEF PaymentsServesLate, TypeOK
  <1>7. ASSUME NEW e \in payOutbox, Publish(e) \/ PublishUnmarked(e) PROVE TypeOK'
    BY <1>7 DEF Publish, PublishUnmarked, TypeOK
  <1>8. ASSUME NEW e \in stream, Consume(e) PROVE TypeOK'
    <2>1. e \in Event /\ e.contract \in Contracts
      BY DEF TypeOK, Event
    <2>2. status' \in [Contracts -> Statuses] /\ announced' \in [Contracts -> Seq(Announcements)]
      <3>1. /\ "AWAITING_ACCEPT" \in Statuses /\ "CANCELLED" \in Statuses
            /\ <<>> \in Seq(Announcements) /\ <<"contract.cancelled">> \in Seq(Announcements)
        BY DEF Statuses, Settled, Announcements
      <3> QED
        BY <1>8, <2>1, <3>1, UpdateType DEF Consume, HandleEvent, TypeOK
    <2>3. inbox' \in [event : Event, verdict : {"ack", "nak"}]
      BY <1>8, <2>1 DEF Consume, Verdict
    <2> QED
      BY <1>8, <2>2, <2>3 DEF Consume, TypeOK
  <1>9. CASE Ack \/ Redeliver
    BY <1>9 DEF Ack, Redeliver, TypeOK
  <1> QED
    BY <1>0, <1>1, <1>2, <1>3, <1>4, <1>5, <1>6, <1>7, <1>8, <1>9 DEF Next

\* A change of status suits the money when the money suits the new status.
LEMMA UpdateMoney ==
  ASSUME TypeOK, MoneyFollowsStatus, NEW c \in Contracts, NEW from, NEW to, NEW rows,
         UpdateStatus(c, from, to, rows), UNCHANGED hold,
         status[c] = from => hold[c] \in MoneyAllowed(to)
  PROVE  MoneyFollowsStatus'
  <1>1. status \in [Contracts -> Statuses]
    BY DEF TypeOK
  <1> QED
    BY <1>1 DEF UpdateStatus, MoneyFollowsStatus

\* A call that payments serves suits the status that its caller, gone or not, has seen to.
LEMMA ServeMoney ==
  ASSUME TypeOK, MoneyFollowsStatus, NEW c \in Contracts, NEW op, NEW answer,
         Serve(op, c, answer), UNCHANGED status,
         op = "hold" => status[c] \in {"PENDING", "CANCELLED"},
         op = "transfer" => status[c] \in {"COMPLETING", "COMPLETED"},
         op = "release" => status[c] \in {"DECLINING", "DECLINED"}
  PROVE  MoneyFollowsStatus'
  <1>1. hold \in [Contracts -> {"none", "active", "transferred", "released"}]
    BY DEF TypeOK
  <1>2. hold[c] \in MoneyAllowed(status[c])
    BY DEF MoneyFollowsStatus
  <1>3. CASE UNCHANGED hold
    BY <1>3 DEF MoneyFollowsStatus
  <1>4. CASE op = "hold" /\ hold' = [hold EXCEPT ![c] = "active"]
    BY <1>1, <1>4, MoneyCases DEF MoneyFollowsStatus
  <1>5. CASE op = "transfer" /\ hold[c] = "active" /\ hold' = [hold EXCEPT ![c] = "transferred"]
    BY <1>1, <1>2, <1>5, MoneyCases DEF MoneyFollowsStatus
  <1>6. CASE op = "release" /\ hold[c] = "active" /\ hold' = [hold EXCEPT ![c] = "released"]
    BY <1>1, <1>2, <1>6, MoneyCases DEF MoneyFollowsStatus
  <1> QED
    BY <1>3, <1>4, <1>5, <1>6 DEF Serve, HoldFunds, TransferFunds, ReleaseFunds, NotServed

Knowledge == HandlerKnows /\ OneCreator /\ LateKnows /\ MoneyFollowsStatus

\* Every action preserves what handlers, late calls and the two databases know of one another.
LEMMA KnowledgeStep == SagaInv /\ [Next]_vars => Knowledge'
  <1> SUFFICES ASSUME TypeOK, HandlerKnows, OneCreator, LateKnows, MoneyFollowsStatus, [Next]_vars
               PROVE  Knowledge'
    BY DEF SagaInv
  <1> USE DEF table, handlers, payments, nats, Calling
  <1>t. /\ status \in [Contracts -> Statuses] /\ hold \in [Contracts -> {"none", "active", "transferred", "released"}]
        /\ pc \in [Handlers -> PCs] /\ on \in [Handlers -> Contracts \cup {None}]
        /\ reply \in [Handlers -> {"none", "ok", "failed"}]
        /\ \A t \in Handlers : pc[t] # "idle" => on[t] \in Contracts
    BY DEF TypeOK
  <1>0. CASE UNCHANGED vars
    BY <1>0
    DEF vars, Knowledge, HandlerKnows, Knows, OneCreator, LateKnows, LateIs, MoneyFollowsStatus,
        Creating
  <1>1. ASSUME NEW t \in Handlers, HoldGranted(t) PROVE Knowledge'
    <2>1. ASSUME NEW u \in Handlers PROVE Knows(u)'
      <3>1. CASE u = t
        BY <1>t, <1>1, <3>1 DEF HoldGranted, Goto, HandlerKnows, Knows, Creating
      <3>2. CASE u # t
        BY <1>t, <1>1, <3>2 DEF HoldGranted, Goto, HandlerKnows, Knows, Creating
      <3> QED
        BY <3>1, <3>2
    <2>2. OneCreator'
      BY <1>t, <1>1 DEF HoldGranted, Goto, HandlerKnows, Knows, OneCreator, Creating
    <2>3. ASSUME NEW d \in Contracts PROVE LateIs(d)'
      BY <1>t, <1>1 DEF HoldGranted, Goto, LateKnows, LateIs
    <2>4. MoneyFollowsStatus'
      BY <1>t, <1>1 DEF HoldGranted, Goto, MoneyFollowsStatus
    <2> QED
      BY <2>1, <2>2, <2>3, <2>4 DEF Knowledge, HandlerKnows, LateKnows
  <1>2. ASSUME NEW t \in Handlers, HoldErred(t) PROVE Knowledge'
    <2>1. ASSUME NEW u \in Handlers PROVE Knows(u)'
      <3>1. CASE u = t
        BY <1>t, <1>2, <3>1 DEF HoldErred, Goto, LeaveCall, Calling, HandlerKnows, Knows, Creating
      <3>2. CASE u # t
        BY <1>t, <1>2, <3>2, CallCases
        DEF HoldErred, Goto, LeaveCall, Calling, HandlerKnows, Knows, Creating, OneCreator
      <3> QED
        BY <3>1, <3>2
    <2>2. OneCreator'
      BY <1>t, <1>2 DEF HoldErred, Goto, LeaveCall, Calling, HandlerKnows, Knows, OneCreator, Creating
    <2>3. ASSUME NEW d \in Contracts PROVE LateIs(d)'
      BY <1>t, <1>2, CallCases
      DEF HoldErred, Goto, LeaveCall, Calling, LateKnows, LateIs, HandlerKnows, Knows, Creating
    <2>4. MoneyFollowsStatus'
      BY <1>t, <1>2 DEF HoldErred, Goto, LeaveCall, Calling, MoneyFollowsStatus
    <2> QED
      BY <2>1, <2>2, <2>3, <2>4 DEF Knowledge, HandlerKnows, LateKnows
  <1>3. ASSUME NEW t \in Handlers, CreateLink(t) PROVE Knowledge'
    <2>1. ASSUME NEW u \in Handlers PROVE Knows(u)'
      <3>1. CASE u = t
        BY <1>t, <1>3, <3>1 DEF CreateLink, Goto, UpdateStatus, HandlerKnows, Knows, Creating
      <3>2. CASE u # t
        BY <1>t, <1>3, <3>2
        DEF CreateLink, Goto, UpdateStatus, HandlerKnows, Knows, Creating, OneCreator
      <3> QED
        BY <3>1, <3>2
    <2>2. OneCreator'
      BY <1>t, <1>3 DEF CreateLink, Goto, UpdateStatus, HandlerKnows, Knows, OneCreator, Creating
    <2>3. ASSUME NEW d \in Contracts PROVE LateIs(d)'
      BY <1>t, <1>3
      DEF CreateLink, Goto, UpdateStatus, LateKnows, LateIs, HandlerKnows, Knows, Creating
    <2>4. MoneyFollowsStatus'
      <3>1. PICK c \in Contracts : c = on[t] /\ hold[c] = "active"
        BY <1>t, <1>3 DEF CreateLink, HandlerKnows, Knows
      <3>2. UpdateStatus(c, "PENDING", "HOLD_PENDING", <<"contract.created">>) /\ UNCHANGED hold
        BY <1>3, <3>1 DEF CreateLink
      <3>3. hold[c] \in MoneyAllowed("HOLD_PENDING")
        BY <3>1, MoneyCases
      <3> QED
        BY <3>2, <3>3, UpdateMoney
    <2> QED
      BY <2>1, <2>2, <2>3, <2>4 DEF Knowledge, HandlerKnows, LateKnows
  <1>4. ASSUME NEW t \in Handlers, CreateCompensate(t) PROVE Knowledge'
    <2>1. ASSUME NEW u \in Handlers PROVE Knows(u)'
      <3>1. CASE u = t
        BY <1>t, <1>4, <3>1 DEF CreateCompensate, Goto, HandlerKnows, Knows, Creating
      <3>2. CASE u # t
        BY <1>t, <1>4, <3>2 DEF CreateCompensate, Goto, HandlerKnows, Knows, Creating, OneCreator
      <3> QED
        BY <3>1, <3>2
    <2>2. OneCreator'
      BY <1>t, <1>4 DEF CreateCompensate, Goto, HandlerKnows, Knows, OneCreator, Creating
    <2>3. ASSUME NEW d \in Contracts PROVE LateIs(d)'
      BY <1>t, <1>4 DEF CreateCompensate, Goto, LateKnows, LateIs, HandlerKnows, Knows, Creating
    <2>4. MoneyFollowsStatus'
      BY <1>t, <1>4, MoneyCases
      DEF CreateCompensate, Goto, MoneyFollowsStatus, HandlerKnows, Knows, Creating
    <2> QED
      BY <2>1, <2>2, <2>3, <2>4 DEF Knowledge, HandlerKnows, LateKnows
  <1>5. ASSUME NEW t \in Handlers, CompleteMark(t) PROVE Knowledge'
    <2>1. ASSUME NEW u \in Handlers PROVE Knows(u)'
      <3>1. CASE u = t
        BY <1>t, <1>5, <3>1 DEF CompleteMark, Goto, UpdateStatus, HandlerKnows, Knows, Creating
      <3>2. CASE u # t
        BY <1>t, <1>5, <3>2 DEF CompleteMark, Goto, UpdateStatus, HandlerKnows, Knows, Creating
      <3> QED
        BY <3>1, <3>2
    <2>2. OneCreator'
      BY <1>t, <1>5 DEF CompleteMark, Goto, UpdateStatus, HandlerKnows, Knows, OneCreator, Creating
    <2>3. ASSUME NEW d \in Contracts PROVE LateIs(d)'
      BY <1>t, <1>5 DEF CompleteMark, Goto, UpdateStatus, LateKnows, LateIs
    <2>4. MoneyFollowsStatus'
      BY <1>t, <1>5, MoneyCases
      DEF CompleteMark, Goto, UpdateStatus, MoneyFollowsStatus, HandlerKnows, Knows, Creating
    <2> QED
      BY <2>1, <2>2, <2>3, <2>4 DEF Knowledge, HandlerKnows, LateKnows
  <1>6. ASSUME NEW t \in Handlers, TransferReturned(t) PROVE Knowledge'
    <2>1. ASSUME NEW u \in Handlers PROVE Knows(u)'
      <3>1. CASE u = t
        BY <1>t, <1>6, <3>1 DEF TransferReturned, Goto, HandlerKnows, Knows, Creating
      <3>2. CASE u # t
        BY <1>t, <1>6, <3>2 DEF TransferReturned, Goto, HandlerKnows, Knows, Creating
      <3> QED
        BY <3>1, <3>2
    <2>2. OneCreator'
      BY <1>t, <1>6 DEF TransferReturned, Goto, HandlerKnows, Knows, OneCreator, Creating
    <2>3. ASSUME NEW d \in Contracts PROVE LateIs(d)'
      BY <1>t, <1>6 DEF TransferReturned, Goto, LateKnows, LateIs
    <2>4. MoneyFollowsStatus'
      BY <1>t, <1>6 DEF TransferReturned, Goto, MoneyFollowsStatus
    <2> QED
      BY <2>1, <2>2, <2>3, <2>4 DEF Knowledge, HandlerKnows, LateKnows
  <1>7. ASSUME NEW t \in Handlers, CompleteFinish(t) PROVE Knowledge'
    <2>1. ASSUME NEW u \in Handlers PROVE Knows(u)'
      <3>1. CASE u = t
        BY <1>t, <1>7, <3>1 DEF CompleteFinish, Goto, UpdateStatus, HandlerKnows, Knows, Creating
      <3>2. CASE u # t
        BY <1>t, <1>7, <3>2 DEF CompleteFinish, Goto, UpdateStatus, HandlerKnows, Knows, Creating
      <3> QED
        BY <3>1, <3>2
    <2>2. OneCreator'
      BY <1>t, <1>7 DEF CompleteFinish, Goto, UpdateStatus, HandlerKnows, Knows, OneCreator, Creating
    <2>3. ASSUME NEW d \in Contracts PROVE LateIs(d)'
      BY <1>t, <1>7 DEF CompleteFinish, Goto, UpdateStatus, LateKnows, LateIs
    <2>4. MoneyFollowsStatus'
      <3>1. PICK c \in Contracts : c = on[t] /\ hold[c] = "transferred"
        BY <1>t, <1>7 DEF CompleteFinish, HandlerKnows, Knows
      <3>2. UpdateStatus(c, "COMPLETING", "COMPLETED", <<"contract.completed">>) /\ UNCHANGED hold
        BY <1>7, <3>1 DEF CompleteFinish
      <3>3. hold[c] \in MoneyAllowed("COMPLETED")
        BY <3>1, MoneyCases
      <3> QED
        BY <3>2, <3>3, UpdateMoney
    <2> QED
      BY <2>1, <2>2, <2>3, <2>4 DEF Knowledge, HandlerKnows, LateKnows
  <1>8. ASSUME NEW t \in Handlers, CancelMark(t) PROVE Knowledge'
    <2>1. ASSUME NEW u \in Handlers PROVE Knows(u)'
      <3>1. CASE u = t
        BY <1>t, <1>8, <3>1 DEF CancelMark, Goto, UpdateStatus, HandlerKnows, Knows, Creating
      <3>2. CASE u # t
        BY <1>t, <1>8, <3>2 DEF CancelMark, Goto, UpdateStatus, HandlerKnows, Knows, Creating
      <3> QED
        BY <3>1, <3>2
    <2>2. OneCreator'
      BY <1>t, <1>8 DEF CancelMark, Goto, UpdateStatus, HandlerKnows, Knows, OneCreator, Creating
    <2>3. ASSUME NEW d \in Contracts PROVE LateIs(d)'
      BY <1>t, <1>8 DEF CancelMark, Goto, UpdateStatus, LateKnows, LateIs
    <2>4. MoneyFollowsStatus'
      BY <1>t, <1>8, MoneyCases
      DEF CancelMark, Goto, UpdateStatus, MoneyFollowsStatus, HandlerKnows, Knows, Creating
    <2> QED
      BY <2>1, <2>2, <2>3, <2>4 DEF Knowledge, HandlerKnows, LateKnows
  <1>9. ASSUME NEW t \in Handlers, ReleaseReturned(t) PROVE Knowledge'
    <2>1. ASSUME NEW u \in Handlers PROVE Knows(u)'
      <3>1. CASE u = t
        BY <1>t, <1>9, <3>1 DEF ReleaseReturned, Goto, HandlerKnows, Knows, Creating
      <3>2. CASE u # t
        BY <1>t, <1>9, <3>2 DEF ReleaseReturned, Goto, HandlerKnows, Knows, Creating
      <3> QED
        BY <3>1, <3>2
    <2>2. OneCreator'
      BY <1>t, <1>9 DEF ReleaseReturned, Goto, HandlerKnows, Knows, OneCreator, Creating
    <2>3. ASSUME NEW d \in Contracts PROVE LateIs(d)'
      BY <1>t, <1>9 DEF ReleaseReturned, Goto, LateKnows, LateIs
    <2>4. MoneyFollowsStatus'
      BY <1>t, <1>9 DEF ReleaseReturned, Goto, MoneyFollowsStatus
    <2> QED
      BY <2>1, <2>2, <2>3, <2>4 DEF Knowledge, HandlerKnows, LateKnows
  <1>10. ASSUME NEW t \in Handlers, CancelFinish(t) PROVE Knowledge'
    <2>1. ASSUME NEW u \in Handlers PROVE Knows(u)'
      <3>1. CASE u = t
        BY <1>t, <1>10, <3>1 DEF CancelFinish, Goto, UpdateStatus, HandlerKnows, Knows, Creating
      <3>2. CASE u # t
        BY <1>t, <1>10, <3>2 DEF CancelFinish, Goto, UpdateStatus, HandlerKnows, Knows, Creating
      <3> QED
        BY <3>1, <3>2
    <2>2. OneCreator'
      BY <1>t, <1>10 DEF CancelFinish, Goto, UpdateStatus, HandlerKnows, Knows, OneCreator, Creating
    <2>3. ASSUME NEW d \in Contracts PROVE LateIs(d)'
      BY <1>t, <1>10 DEF CancelFinish, Goto, UpdateStatus, LateKnows, LateIs
    <2>4. MoneyFollowsStatus'
      <3>1. PICK c \in Contracts : c = on[t] /\ hold[c] = "released"
        BY <1>t, <1>10 DEF CancelFinish, HandlerKnows, Knows
      <3>2. UpdateStatus(c, "DECLINING", "DECLINED", <<"contract.declined">>) /\ UNCHANGED hold
        BY <1>10, <3>1 DEF CancelFinish
      <3>3. hold[c] \in MoneyAllowed("DECLINED")
        BY <3>1, MoneyCases
      <3> QED
        BY <3>2, <3>3, UpdateMoney
    <2> QED
      BY <2>1, <2>2, <2>3, <2>4 DEF Knowledge, HandlerKnows, LateKnows
  <1>11. ASSUME NEW t \in Handlers, Die(t) PROVE Knowledge'
    <2>1. ASSUME NEW u \in Handlers PROVE Knows(u)'
      <3>1. CASE u = t
        BY <1>t, <1>11, <3>1 DEF Die, Goto, LeaveCall, Calling, HandlerKnows, Knows, Creating
      <3>2. CASE u # t
        BY <1>t, <1>11, <3>2, CallCases
        DEF Die, Goto, LeaveCall, Calling, HandlerKnows, Knows, Creating, OneCreator
      <3> QED
        BY <3>1, <3>2
    <2>2. OneCreator'
      BY <1>t, <1>11 DEF Die, Goto, LeaveCall, Calling, HandlerKnows, Knows, OneCreator, Creating
    <2>3. ASSUME NEW d \in Contracts PROVE LateIs(d)'
      BY <1>t, <1>11, CallCases
      DEF Die, Goto, LeaveCall, Calling, LateKnows, LateIs, HandlerKnows, Knows, Creating
    <2>4. MoneyFollowsStatus'
      BY <1>t, <1>11 DEF Die, Goto, LeaveCall, Calling, MoneyFollowsStatus
    <2> QED
      BY <2>1, <2>2, <2>3, <2>4 DEF Knowledge, HandlerKnows, LateKnows
  <1>12. ASSUME NEW t \in Handlers, PaymentsServes(t) PROVE Knowledge'
    <2>1. ASSUME NEW u \in Handlers PROVE Knows(u)'
      <3>1. CASE u = t
        BY <1>t, <1>12, <3>1, CallCases
        DEF PaymentsServes, Calling, Serve, HoldFunds, TransferFunds, ReleaseFunds, NotServed,
            HandlerKnows, Knows, Creating
      <3>2. CASE u # t
        BY <1>t, <1>12, <3>2, CallCases
        DEF PaymentsServes, Calling, Serve, HoldFunds, TransferFunds, ReleaseFunds, NotServed,
            HandlerKnows, Knows, Creating, OneCreator
      <3> QED
        BY <3>1, <3>2
    <2>2. OneCreator'
      BY <1>t, <1>12
      DEF PaymentsServes, Calling, Serve, HoldFunds, TransferFunds, ReleaseFunds, NotServed,
          HandlerKnows, Knows, OneCreator, Creating
    <2>3. ASSUME NEW d \in Contracts PROVE LateIs(d)'
      BY <1>t, <1>12, CallCases
      DEF PaymentsServes, Calling, Serve, HoldFunds, TransferFunds, ReleaseFunds, NotServed,
          LateKnows, LateIs, HandlerKnows, Knows, Creating
    <2>4. MoneyFollowsStatus'
      <3>1. PICK c \in Contracts, op \in {OperationOf(pc[t])}, answer \in {"ok", "failed"} :
              c = on[t] /\ Serve(op, c, answer)
        BY <1>t, <1>12 DEF PaymentsServes
      <3>2. /\ op = "hold" => status[c] \in {"PENDING", "CANCELLED"}
            /\ op = "transfer" => status[c] \in {"COMPLETING", "COMPLETED"}
            /\ op = "release" => status[c] \in {"DECLINING", "DECLINED"}
        BY <1>12, <3>1, CallCases DEF PaymentsServes, HandlerKnows, Knows, Creating
      <3>3. UNCHANGED status
        BY <1>12 DEF PaymentsServes
      <3> QED
        BY <3>1, <3>2, <3>3, ServeMoney
    <2> QED
      BY <2>1, <2>2, <2>3, <2>4 DEF Knowledge, HandlerKnows, LateKnows
  <1>13. ASSUME NEW t \in Handlers, NEW c \in Contracts, CreateInsert(t, c) PROVE Knowledge'
    <2>1. ASSUME NEW u \in Handlers PROVE Knows(u)'
      <3>1. CASE u = t
        <4>1. hold[c] = "none" /\ [op |-> "hold", contract |-> c] \notin late
          BY <1>13, MoneyCases DEF CreateInsert, MoneyFollowsStatus, LateKnows, LateIs
        <4>2. reply[t] = "none"
          BY <1>13 DEF CreateInsert, Enter, HandlerKnows, Knows
        <4>3. pc'[t] = "hold_call" /\ on'[t] = c /\ reply'[t] = "none" /\ status'[c] = "PENDING"
          BY <1>t, <1>13, <4>2 DEF CreateInsert, Enter
        <4>4. UNCHANGED <<hold, late>>
          BY <1>13 DEF CreateInsert
        <4> QED
          BY <3>1, <4>1, <4>3, <4>4 DEF Knows, Creating
      <3>2. CASE u # t
        BY <1>t, <1>13, <3>2 DEF CreateInsert, Enter, HandlerKnows, Knows, Creating
      <3> QED
        BY <3>1, <3>2
    <2>2. OneCreator'
      <3>1. \A u \in Handlers : Creating(u) => on[u] # c
        BY <1>13 DEF CreateInsert, HandlerKnows, Knows
      <3> QED
        BY <1>t, <1>13, <3>1 DEF CreateInsert, Enter, OneCreator, Creating
    <2>3. ASSUME NEW d \in Contracts PROVE LateIs(d)'
      BY <1>t, <1>13 DEF CreateInsert, Enter, LateKnows, LateIs
    <2>4. MoneyFollowsStatus'
      BY <1>t, <1>13, MoneyCases DEF CreateInsert, Enter, MoneyFollowsStatus
    <2> QED
      BY <2>1, <2>2, <2>3, <2>4 DEF Knowledge, HandlerKnows, LateKnows
  <1>14. ASSUME NEW t \in Handlers, NEW c \in Contracts, CompleteRead(t, c) PROVE Knowledge'
    <2>1. ASSUME NEW u \in Handlers PROVE Knows(u)'
      <3>1. CASE u = t
        <4>1. reply'[t] = "none" /\ on'[t] = c /\ UNCHANGED status
          BY <1>t, <1>14 DEF CompleteRead, Enter, HandlerKnows, Knows
        <4>2. pc'[t] = "complete_mark" \/ (pc'[t] = "transfer_call" /\ status[c] = "COMPLETING")
          BY <1>t, <1>14 DEF CompleteRead, Enter
        <4> QED
          BY <3>1, <4>1, <4>2 DEF Knows, Creating
      <3>2. CASE u # t
        BY <1>t, <1>14, <3>2 DEF CompleteRead, Enter, HandlerKnows, Knows, Creating
      <3> QED
        BY <3>1, <3>2
    <2>2. OneCreator'
      BY <1>t, <1>14 DEF CompleteRead, Enter, HandlerKnows, Knows, OneCreator, Creating
    <2>3. ASSUME NEW d \in Contracts PROVE LateIs(d)'
      BY <1>t, <1>14 DEF CompleteRead, Enter, LateKnows, LateIs
    <2>4. MoneyFollowsStatus'
      BY <1>t, <1>14 DEF CompleteRead, Enter, MoneyFollowsStatus
    <2> QED
      BY <2>1, <2>2, <2>3, <2>4 DEF Knowledge, HandlerKnows, LateKnows
  <1>15. ASSUME NEW t \in Handlers, NEW c \in Contracts, CancelRead(t, c) PROVE Knowledge'
    <2>1. ASSUME NEW u \in Handlers PROVE Knows(u)'
      <3>1. CASE u = t
        <4>1. reply'[t] = "none" /\ on'[t] = c /\ UNCHANGED status
          BY <1>t, <1>15 DEF CancelRead, Enter, HandlerKnows, Knows
        <4>2. pc'[t] = "cancel_mark" \/ (pc'[t] = "release_call" /\ status[c] = "DECLINING")
          BY <1>t, <1>15 DEF CancelRead, Enter
        <4> QED
          BY <3>1, <4>1, <4>2 DEF Knows, Creating
      <3>2. CASE u # t
        BY <1>t, <1>15, <3>2 DEF CancelRead, Enter, HandlerKnows, Knows, Creating
      <3> QED
        BY <3>1, <3>2
    <2>2. OneCreator'
      BY <1>t, <1>15 DEF CancelRead, Enter, HandlerKnows, Knows, OneCreator, Creating
    <2>3. ASSUME NEW d \in Contracts PROVE LateIs(d)'
      BY <1>t, <1>15 DEF CancelRead, Enter, LateKnows, LateIs
    <2>4. MoneyFollowsStatus'
      BY <1>t, <1>15 DEF CancelRead, Enter, MoneyFollowsStatus
    <2> QED
      BY <2>1, <2>2, <2>3, <2>4 DEF Knowledge, HandlerKnows, LateKnows
  <1>16. ASSUME NEW c \in Contracts, Accept(c) PROVE Knowledge'
    <2>1. ASSUME NEW u \in Handlers PROVE Knows(u)'
      BY <1>t, <1>16 DEF Accept, UpdateStatus, HandlerKnows, Knows, Creating
    <2>2. OneCreator'
      BY <1>t, <1>16 DEF Accept, UpdateStatus, HandlerKnows, Knows, OneCreator, Creating
    <2>3. ASSUME NEW d \in Contracts PROVE LateIs(d)'
      BY <1>t, <1>16 DEF Accept, UpdateStatus, LateKnows, LateIs
    <2>4. MoneyFollowsStatus'
      BY <1>t, <1>16, MoneyCases DEF Accept, UpdateStatus, MoneyFollowsStatus
    <2> QED
      BY <2>1, <2>2, <2>3, <2>4 DEF Knowledge, HandlerKnows, LateKnows
  <1>17. ASSUME PaymentsServesLate PROVE Knowledge'
    <2>0. PICK call \in late, answer \in {"ok", "failed"} :
            Serve(call.op, call.contract, answer) /\ late' = late \ {call}
      BY <1>17 DEF PaymentsServesLate
    <2> DEFINE c == call.contract
               op == call.op
    <2>a. c \in Contracts /\ [op |-> op, contract |-> c] \in late
      BY DEF TypeOK, Call
    <2>b. UNCHANGED <<status, pc, on, reply>>
      BY <1>17 DEF PaymentsServesLate
    <2>c. /\ op = "hold" => status[c] \in {"PENDING", "CANCELLED"} /\ hold[c] = "none"
          /\ op = "transfer" => status[c] \in {"COMPLETING", "COMPLETED"}
          /\ op = "release" => status[c] \in {"DECLINING", "DECLINED"}
      BY <2>a DEF LateKnows, LateIs
    <2>d. \/ UNCHANGED hold
          \/ op = "hold" /\ hold' = [hold EXCEPT ![c] = "active"]
          \/ op = "transfer" /\ hold[c] = "active" /\ hold' = [hold EXCEPT ![c] = "transferred"]
          \/ op = "release" /\ hold[c] = "active" /\ hold' = [hold EXCEPT ![c] = "released"]
      BY <2>0 DEF Serve, HoldFunds, TransferFunds, ReleaseFunds, NotServed
    <2>1. ASSUME NEW u \in Handlers PROVE Knows(u)'
      <3>1. Knows(u)
        BY DEF HandlerKnows
      <3>2. CASE UNCHANGED hold
        BY <2>0, <2>b, <3>1, <3>2 DEF Knows, Creating
      <3>3. CASE op = "hold" /\ hold' = [hold EXCEPT ![c] = "active"]
        BY <1>t, <2>0, <2>a, <2>b, <2>c, <3>1, <3>3 DEF Knows, Creating
      <3>4. CASE op = "transfer" /\ hold[c] = "active" /\ hold' = [hold EXCEPT ![c] = "transferred"]
        BY <1>t, <2>0, <2>a, <2>b, <2>c, <3>1, <3>4 DEF Knows, Creating
      <3>5. CASE op = "release" /\ hold[c] = "active" /\ hold' = [hold EXCEPT ![c] = "released"]
        BY <1>t, <2>0, <2>a, <2>b, <2>c, <3>1, <3>5 DEF Knows, Creating
      <3> QED
        BY <2>d, <3>2, <3>3, <3>4, <3>5
    <2>2. OneCreator'
      BY <2>b DEF OneCreator, Creating
    <2>3. ASSUME NEW d \in Contracts PROVE LateIs(d)'
      <3>1. LateIs(d) /\ late' \subseteq late
        BY <2>0 DEF LateKnows
      <3>2. CASE [op |-> "hold", contract |-> d] \in late'
        <4>1. hold[d] = "none" /\ (op = "hold" => d # c)
          <5>1. call = [op |-> op, contract |-> c]
            BY DEF TypeOK, Call
          <5> QED
            BY <2>0, <3>1, <3>2, <5>1 DEF LateIs
        <4>2. hold'[d] = "none"
          BY <1>t, <2>d, <4>1
        <4> QED
          BY <2>b, <3>1, <4>2 DEF LateIs
      <3>3. CASE [op |-> "hold", contract |-> d] \notin late'
        BY <2>b, <3>1, <3>3 DEF LateIs
      <3> QED
        BY <3>2, <3>3
    <2>4. MoneyFollowsStatus'
      <3>1. PICK k \in Contracts, o \in {op} : k = c
        BY <2>a
      <3> QED
        BY <2>0, <2>b, <2>c, <3>1, ServeMoney
    <2> QED
      BY <2>1, <2>2, <2>3, <2>4 DEF Knowledge, HandlerKnows, LateKnows
  <1>18. ASSUME NEW e \in stream, Consume(e) PROVE Knowledge'
    <2>1. ASSUME NEW u \in Handlers PROVE Knows(u)'
      BY <1>t, <1>18 DEF Consume, HandleEvent, UpdateStatus, Event, HandlerKnows, Knows, Creating
    <2>2. OneCreator'
      BY <1>t, <1>18
      DEF Consume, HandleEvent, UpdateStatus, Event, HandlerKnows, Knows, OneCreator, Creating
    <2>3. ASSUME NEW d \in Contracts PROVE LateIs(d)'
      BY <1>t, <1>18 DEF Consume, HandleEvent, UpdateStatus, Event, LateKnows, LateIs
    <2>4. MoneyFollowsStatus'
      BY <1>t, <1>18, MoneyCases DEF Consume, HandleEvent, UpdateStatus, Event, MoneyFollowsStatus
    <2> QED
      BY <2>1, <2>2, <2>3, <2>4 DEF Knowledge, HandlerKnows, LateKnows
  <1>19. CASE Ack \/ Redeliver \/ \E e \in payOutbox : Publish(e) \/ PublishUnmarked(e)
    BY <1>t, <1>19 DEF Ack, Redeliver, Publish, PublishUnmarked,
                 Knowledge, HandlerKnows, Knows, OneCreator, LateKnows, LateIs, MoneyFollowsStatus, Creating
  <1> QED
    BY <1>0, <1>1, <1>2, <1>3, <1>4, <1>5, <1>6, <1>7, <1>8, <1>9, <1>10, <1>11, <1>12, <1>13, <1>14, <1>15, <1>16, <1>17, <1>18, <1>19
    DEF Next, Handle, Request

\* The invariant is inductive.
LEMMA SagaStep == SagaInv /\ [Next]_vars => SagaInv'
  BY SagaTypeStep, KnowledgeStep DEF SagaInv, Knowledge

\* Every reachable state satisfies it.
THEOREM SagaInvariance == Spec => []SagaInv
  <1>1. Init => SagaInv
    BY InitSaga
  <1>2. SagaInv /\ [Next]_vars => SagaInv'
    BY SagaStep
  <1> QED
    BY <1>1, <1>2, PTL DEF Spec

\* Types: every status, handler, call and event is one the service knows.
THEOREM SagaTypes == Spec => []TypeOK
  BY SagaInvariance, PTL DEF SagaInv

\* A contract's status (saga.go) and its money in the other service's database never
\* contradict each other, with any number of handlers, timeouts, late calls and deaths.
THEOREM MoneyFollows == Spec => []MoneyFollowsStatus
  BY SagaInvariance, PTL DEF SagaInv

\* However a call of HoldFunds ends (payments_client.go, saga.go:93), no contract has money
\* held twice.
THEOREM HeldOnceOnly == Spec => []HeldOnce
  <1>1. SagaInv => HeldOnce
    <2> SUFFICES ASSUME SagaInv PROVE HeldOnce
      OBVIOUS
    <2>1. \A t \in Handlers : HoldAwaited(t) => Creating(t) /\ on[t] \in Contracts
      BY DEF SagaInv, TypeOK, HoldAwaited, Creating
    <2>2. ASSUME NEW t \in Handlers, HoldAwaited(t)
          PROVE  /\ hold[on[t]] = "none" /\ ~HoldLeft(on[t])
                 /\ \A u \in Handlers : HoldAwaited(u) /\ on[u] = on[t] => u = t
      BY <2>1, <2>2 DEF SagaInv, HandlerKnows, Knows, OneCreator, HoldAwaited, HoldLeft
    <2>3. ASSUME NEW c \in Contracts, HoldLeft(c)
          PROVE  hold[c] = "none"
      BY <2>3 DEF SagaInv, LateKnows, LateIs, HoldLeft
    <2> QED
      BY <2>2, <2>3 DEF HeldOnce
  <1> QED
    BY <1>1, SagaInvariance, PTL

-----------------------------------------------------------------------------
\* While the handler that creates a contract lives, nothing has been announced.
SilentCreators == \A t \in Handlers : Creating(t) => announced[on[t]] = <<>>

HistoryInv == SilentCreators /\ HistoryToldOnce

\* Two sequences put together, element by element.
LEMMA OneAndOne ==
  ASSUME NEW S, NEW a \in S, NEW b \in S
  PROVE  <<a>> \o <<b>> = <<a, b>>
  <1> DEFINE s == <<a>> \o <<b>>
             u == <<a, b>>
  <1>1. s \in Seq(S) /\ u \in Seq(S) /\ Len(s) = 2 /\ Len(u) = 2
    OBVIOUS
  <1>2. s[1] = u[1] /\ s[2] = u[2]
    OBVIOUS
  <1>3. \A i \in 1..2 : i = 1 \/ i = 2
    OBVIOUS
  <1> HIDE DEF s, u
  <1>4. s = u
    BY <1>1, <1>2, <1>3, SeqEqual
  <1> QED
    BY <1>4 DEF s, u

\* A third after two.
LEMMA TwoAndOne ==
  ASSUME NEW S, NEW a \in S, NEW b \in S, NEW c \in S
  PROVE  <<a, b>> \o <<c>> = <<a, b, c>>
  <1> DEFINE s == <<a, b>> \o <<c>>
             u == <<a, b, c>>
  <1>1. s \in Seq(S) /\ u \in Seq(S) /\ Len(s) = 3 /\ Len(u) = 3
    OBVIOUS
  <1>2. s[1] = u[1] /\ s[2] = u[2] /\ s[3] = u[3]
    OBVIOUS
  <1>3. \A i \in 1..3 : i = 1 \/ i = 2 \/ i = 3
    OBVIOUS
  <1> HIDE DEF s, u
  <1>4. s = u
    BY <1>1, <1>2, <1>3, SeqEqual
  <1> QED
    BY <1>4 DEF s, u

\* A change of status keeps histories when the rows inserted with it continue them.
LEMMA UpdateHistory ==
  ASSUME TypeOK, HistoryToldOnce, NEW c \in Contracts, NEW from, NEW to, NEW rows,
         UpdateStatus(c, from, to, rows),
         \A a \in Histories(from) : a \o rows \in Histories(to)
  PROVE  HistoryToldOnce'
  <1>1. status \in [Contracts -> Statuses] /\ announced \in [Contracts -> Seq(Announcements)]
    BY DEF TypeOK
  <1> QED
    BY <1>1 DEF UpdateStatus, HistoryToldOnce

\* It keeps the other contracts' announcements, and its own when the status is not the one expected.
LEMMA UpdateSilent ==
  ASSUME TypeOK, NEW c \in Contracts, NEW from, NEW to, NEW rows,
         UpdateStatus(c, from, to, rows), NEW d \in Contracts, d # c \/ status[d] # from
  PROVE  announced'[d] = announced[d]
  <1>1. announced \in [Contracts -> Seq(Announcements)]
    BY DEF TypeOK
  <1> QED
    BY <1>1 DEF UpdateStatus

\* What each change of status adds to the history.
LEMMA Continuations ==
  LET Continues(from, to, rows) == \A a \in Histories(from) : a \o rows \in Histories(to) IN
  /\ Continues("HOLD_PENDING", "AWAITING_ACCEPT", <<>>)
  /\ Continues("HOLD_PENDING", "CANCELLED", <<"contract.cancelled">>)
  /\ Continues("AWAITING_ACCEPT", "ACTIVE", <<"contract.accepted">>)
  /\ Continues("AWAITING_ACCEPT", "DECLINING", <<>>)
  /\ Continues("ACTIVE", "COMPLETING", <<>>)
  /\ Continues("COMPLETING", "COMPLETED", <<"contract.completed">>)
  /\ Continues("DECLINING", "DECLINED", <<"contract.declined">>)
  <1> DEFINE created == <<"contract.created">>
             accepted == <<"contract.created", "contract.accepted">>
  <1>1. created \o <<>> = created /\ accepted \o <<>> = accepted
    OBVIOUS
  <1>2. /\ created \o <<"contract.cancelled">> = <<"contract.created", "contract.cancelled">>
        /\ created \o <<"contract.accepted">> = accepted
        /\ created \o <<"contract.declined">> = <<"contract.created", "contract.declined">>
    <2>1. /\ "contract.created" \in Announcements /\ "contract.cancelled" \in Announcements
          /\ "contract.accepted" \in Announcements /\ "contract.declined" \in Announcements
      BY DEF Announcements
    <2> QED
      BY <2>1, OneAndOne
  <1>3. accepted \o <<"contract.completed">> =
          <<"contract.created", "contract.accepted", "contract.completed">>
    <2>1. /\ "contract.created" \in Announcements /\ "contract.accepted" \in Announcements
          /\ "contract.completed" \in Announcements
      BY DEF Announcements
    <2> QED
      BY <2>1, TwoAndOne
  <1>4. /\ Histories("HOLD_PENDING") = {created} /\ Histories("AWAITING_ACCEPT") = {created}
        /\ Histories("DECLINING") = {created}
        /\ Histories("ACTIVE") = {accepted} /\ Histories("COMPLETING") = {accepted}
        /\ <<"contract.created", "contract.cancelled">> \in Histories("CANCELLED")
        /\ <<"contract.created", "contract.accepted", "contract.completed">> \in Histories("COMPLETED")
        /\ <<"contract.created", "contract.declined">> \in Histories("DECLINED")
    BY DEF Histories
  <1> QED
    BY <1>1, <1>2, <1>3, <1>4

\* Of a contract that does not exist nothing has been told.
LEMMA HistoryNone == Histories("NONE") = {<<>>}
  BY DEF Histories

\* A change of a status other than PENDING is none of a creator's business.
LEMMA CreatorsKept ==
  ASSUME TypeOK, HandlerKnows, SilentCreators, UNCHANGED <<pc, on>>,
         NEW c \in Contracts, NEW from, NEW to, NEW rows, from # "PENDING",
         UpdateStatus(c, from, to, rows)
  PROVE  SilentCreators'
  <1> SUFFICES ASSUME NEW u \in Handlers, Creating(u) PROVE announced'[on[u]] = <<>>
    BY DEF SilentCreators, Creating
  <1>1. on[u] \in Contracts /\ status[on[u]] = "PENDING"
    BY DEF TypeOK, Creating, HandlerKnows, Knows
  <1>2. PICK d \in Contracts : d = on[u]
    BY <1>1
  <1>3. announced'[d] = announced[d]
    BY <1>1, <1>2, UpdateSilent
  <1> QED
    BY <1>2, <1>3 DEF SilentCreators

\* Every action continues the histories it touches, and no creator's has begun.
LEMMA HistoryStep == SagaInv /\ HistoryInv /\ [Next]_vars => HistoryInv'
  <1> SUFFICES ASSUME TypeOK, HandlerKnows, OneCreator, SilentCreators, HistoryToldOnce, [Next]_vars
               PROVE  HistoryInv'
    BY DEF SagaInv, HistoryInv
  <1> USE DEF table, handlers, payments, nats
  <1>t. /\ status \in [Contracts -> Statuses] /\ announced \in [Contracts -> Seq(Announcements)]
        /\ pc \in [Handlers -> PCs] /\ on \in [Handlers -> Contracts \cup {None}]
        /\ \A t \in Handlers : pc[t] # "idle" => on[t] \in Contracts
    BY DEF TypeOK
  <1>0. ASSUME UNCHANGED <<status, announced>>,
               \A u \in Handlers : Creating(u)' => Creating(u) /\ on'[u] = on[u]
        PROVE  HistoryInv'
    BY <1>0 DEF HistoryInv, SilentCreators, HistoryToldOnce
  <1>1. CASE UNCHANGED vars
    BY <1>0, <1>1 DEF vars, Creating
  <1>2. ASSUME NEW t \in Handlers,
               \/ HoldGranted(t) \/ HoldErred(t) \/ TransferReturned(t) \/ ReleaseReturned(t)
               \/ Die(t) \/ PaymentsServes(t)
               \/ \E c \in Contracts : CompleteRead(t, c) \/ CancelRead(t, c)
        PROVE  HistoryInv'
    <2>1. UNCHANGED <<status, announced>>
      BY <1>2 DEF HoldGranted, HoldErred, TransferReturned, ReleaseReturned, Die, PaymentsServes,
                  CompleteRead, CancelRead
    <2>2. ASSUME NEW u \in Handlers, Creating(u)' PROVE Creating(u) /\ on'[u] = on[u]
      <3>1. CASE \/ HoldGranted(t) \/ HoldErred(t) \/ TransferReturned(t) \/ ReleaseReturned(t) \/ Die(t)
        BY <1>t, <2>2, <3>1
        DEF HoldGranted, HoldErred, TransferReturned, ReleaseReturned, Die, Goto, Creating
      <3>2. CASE PaymentsServes(t)
        BY <2>2, <3>2 DEF PaymentsServes, Creating
      <3>3. CASE \E c \in Contracts : CompleteRead(t, c) \/ CancelRead(t, c)
        BY <1>t, <2>2, <3>3 DEF CompleteRead, CancelRead, Enter, Creating
      <3> QED
        BY <1>2, <3>1, <3>2, <3>3
    <2> QED
      BY <1>0, <2>1, <2>2
  <1>3. ASSUME NEW t \in Handlers, NEW c \in Contracts, CreateInsert(t, c) PROVE HistoryInv'
    <2>1. announced[c] = <<>> /\ status[c] = "NONE"
      BY <1>3, HistoryNone DEF CreateInsert, HistoryToldOnce
    <2>2. <<>> \in Histories("PENDING")
      BY DEF Histories
    <2>3. HistoryToldOnce'
      BY <1>t, <1>3, <2>1, <2>2 DEF CreateInsert, HistoryToldOnce
    <2>4. SilentCreators'
      BY <1>t, <1>3, <2>1 DEF CreateInsert, Enter, SilentCreators, Creating
    <2> QED
      BY <2>3, <2>4 DEF HistoryInv
  <1>4. ASSUME NEW t \in Handlers, CreateLink(t) PROVE HistoryInv'
    <2>1. PICK c \in Contracts : c = on[t]
      BY <1>t, <1>4 DEF CreateLink
    <2>2. UpdateStatus(c, "PENDING", "HOLD_PENDING", <<"contract.created">>)
      BY <1>4, <2>1 DEF CreateLink
    <2>3. status[c] = "PENDING" /\ announced[c] = <<>>
      BY <1>4, <2>1 DEF CreateLink, HandlerKnows, Knows, SilentCreators, Creating
    <2>4. status'[c] = "HOLD_PENDING" /\ announced'[c] = <<"contract.created">>
      <3>1. <<>> \o <<"contract.created">> = <<"contract.created">>
        OBVIOUS
      <3> QED
        BY <1>t, <2>2, <2>3, <3>1 DEF UpdateStatus
    <2>5. \A d \in Contracts \ {c} : status'[d] = status[d] /\ announced'[d] = announced[d]
      BY <1>t, <2>2 DEF UpdateStatus
    <2>6. <<"contract.created">> \in Histories("HOLD_PENDING")
      BY DEF Histories
    <2>7. HistoryToldOnce'
      BY <2>4, <2>5, <2>6 DEF HistoryToldOnce
    <2>8. ASSUME NEW u \in Handlers, Creating(u)' PROVE announced'[on'[u]] = <<>>
      <3>1. Creating(u) /\ on'[u] = on[u] /\ u # t /\ on[u] \in Contracts
        BY <1>t, <1>4, <2>8 DEF CreateLink, Goto, Creating
      <3>2. on[u] # c
        BY <1>4, <2>1, <3>1 DEF CreateLink, OneCreator, Creating
      <3> QED
        BY <2>5, <3>1, <3>2 DEF SilentCreators
    <2> QED
      BY <2>7, <2>8 DEF HistoryInv, SilentCreators
  <1>5. ASSUME NEW t \in Handlers, CreateCompensate(t) PROVE HistoryInv'
    <2>1. PICK c \in Contracts : c = on[t]
      BY <1>t, <1>5 DEF CreateCompensate
    <2>2. status[c] = "PENDING" /\ announced[c] = <<>>
      BY <1>5, <2>1 DEF CreateCompensate, HandlerKnows, Knows, SilentCreators, Creating
    <2>3. status'[c] \in {"PENDING", "CANCELLED"} /\ announced'[c] \in {<<>>, <<"contract.cancelled">>}
      <3>1. Append(<<>>, "contract.cancelled") = <<"contract.cancelled">>
        OBVIOUS
      <3> QED
        BY <1>t, <1>5, <2>1, <2>2, <3>1 DEF CreateCompensate
    <2>4. \A d \in Contracts \ {c} : status'[d] = status[d] /\ announced'[d] = announced[d]
      BY <1>t, <1>5, <2>1 DEF CreateCompensate
    <2>5. \A s \in {"PENDING", "CANCELLED"} : <<>> \in Histories(s) /\ <<"contract.cancelled">> \in Histories(s)
      BY DEF Histories
    <2>6. HistoryToldOnce'
      BY <2>3, <2>4, <2>5 DEF HistoryToldOnce
    <2>7. ASSUME NEW u \in Handlers, Creating(u)' PROVE announced'[on'[u]] = <<>>
      <3>1. Creating(u) /\ on'[u] = on[u] /\ u # t /\ on[u] \in Contracts
        BY <1>t, <1>5, <2>7 DEF CreateCompensate, Goto, Creating
      <3>2. on[u] # c
        BY <1>5, <2>1, <3>1 DEF CreateCompensate, OneCreator, Creating
      <3> QED
        BY <2>4, <3>1, <3>2 DEF SilentCreators
    <2> QED
      BY <2>6, <2>7 DEF HistoryInv, SilentCreators
  <1>6. ASSUME NEW t \in Handlers, CompleteMark(t) PROVE HistoryInv'
    <2>1. PICK c \in Contracts : c = on[t]
      BY <1>t, <1>6 DEF CompleteMark
    <2>2. UpdateStatus(c, "ACTIVE", "COMPLETING", <<>>)
      BY <1>6, <2>1 DEF CompleteMark
    <2>3. HistoryToldOnce'
      BY <2>2, Continuations, UpdateHistory
    <2>4. ASSUME NEW u \in Handlers, Creating(u)' PROVE announced'[on'[u]] = <<>>
      <3>1. Creating(u) /\ on'[u] = on[u] /\ status[on[u]] = "PENDING" /\ on[u] \in Contracts
        BY <1>t, <1>6, <2>4 DEF CompleteMark, Goto, Creating, HandlerKnows, Knows
      <3>2. PICK d \in Contracts : d = on[u]
        BY <3>1
      <3>3. announced'[d] = announced[d]
        BY <2>2, <3>1, <3>2, UpdateSilent
      <3> QED
        BY <3>1, <3>2, <3>3 DEF SilentCreators
    <2> QED
      BY <2>3, <2>4 DEF HistoryInv, SilentCreators
  <1>7. ASSUME NEW t \in Handlers, CompleteFinish(t) PROVE HistoryInv'
    <2>1. PICK c \in Contracts : c = on[t]
      BY <1>t, <1>7 DEF CompleteFinish
    <2>2. UpdateStatus(c, "COMPLETING", "COMPLETED", <<"contract.completed">>)
      BY <1>7, <2>1 DEF CompleteFinish
    <2>3. HistoryToldOnce'
      BY <2>2, Continuations, UpdateHistory
    <2>4. ASSUME NEW u \in Handlers, Creating(u)' PROVE announced'[on'[u]] = <<>>
      <3>1. Creating(u) /\ on'[u] = on[u] /\ status[on[u]] = "PENDING" /\ on[u] \in Contracts
        BY <1>t, <1>7, <2>4 DEF CompleteFinish, Goto, Creating, HandlerKnows, Knows
      <3>2. PICK d \in Contracts : d = on[u]
        BY <3>1
      <3>3. announced'[d] = announced[d]
        BY <2>2, <3>1, <3>2, UpdateSilent
      <3> QED
        BY <3>1, <3>2, <3>3 DEF SilentCreators
    <2> QED
      BY <2>3, <2>4 DEF HistoryInv, SilentCreators
  <1>8. ASSUME NEW t \in Handlers, CancelMark(t) PROVE HistoryInv'
    <2>1. PICK c \in Contracts : c = on[t]
      BY <1>t, <1>8 DEF CancelMark
    <2>2. UpdateStatus(c, "AWAITING_ACCEPT", "DECLINING", <<>>)
      BY <1>8, <2>1 DEF CancelMark
    <2>3. HistoryToldOnce'
      BY <2>2, Continuations, UpdateHistory
    <2>4. ASSUME NEW u \in Handlers, Creating(u)' PROVE announced'[on'[u]] = <<>>
      <3>1. Creating(u) /\ on'[u] = on[u] /\ status[on[u]] = "PENDING" /\ on[u] \in Contracts
        BY <1>t, <1>8, <2>4 DEF CancelMark, Goto, Creating, HandlerKnows, Knows
      <3>2. PICK d \in Contracts : d = on[u]
        BY <3>1
      <3>3. announced'[d] = announced[d]
        BY <2>2, <3>1, <3>2, UpdateSilent
      <3> QED
        BY <3>1, <3>2, <3>3 DEF SilentCreators
    <2> QED
      BY <2>3, <2>4 DEF HistoryInv, SilentCreators
  <1>9. ASSUME NEW t \in Handlers, CancelFinish(t) PROVE HistoryInv'
    <2>1. PICK c \in Contracts : c = on[t]
      BY <1>t, <1>9 DEF CancelFinish
    <2>2. UpdateStatus(c, "DECLINING", "DECLINED", <<"contract.declined">>)
      BY <1>9, <2>1 DEF CancelFinish
    <2>3. HistoryToldOnce'
      BY <2>2, Continuations, UpdateHistory
    <2>4. ASSUME NEW u \in Handlers, Creating(u)' PROVE announced'[on'[u]] = <<>>
      <3>1. Creating(u) /\ on'[u] = on[u] /\ status[on[u]] = "PENDING" /\ on[u] \in Contracts
        BY <1>t, <1>9, <2>4 DEF CancelFinish, Goto, Creating, HandlerKnows, Knows
      <3>2. PICK d \in Contracts : d = on[u]
        BY <3>1
      <3>3. announced'[d] = announced[d]
        BY <2>2, <3>1, <3>2, UpdateSilent
      <3> QED
        BY <3>1, <3>2, <3>3 DEF SilentCreators
    <2> QED
      BY <2>3, <2>4 DEF HistoryInv, SilentCreators
  <1>10. ASSUME NEW c \in Contracts, Accept(c) PROVE HistoryInv'
    <2>1. UpdateStatus(c, "AWAITING_ACCEPT", "ACTIVE", <<"contract.accepted">>)
      BY <1>10 DEF Accept
    <2>2. HistoryToldOnce'
      BY <2>1, Continuations, UpdateHistory
    <2>3. SilentCreators'
      BY <1>10, <2>1, CreatorsKept DEF Accept
    <2> QED
      BY <2>2, <2>3 DEF HistoryInv
  <1>11. ASSUME NEW e \in stream, Consume(e) PROVE HistoryInv'
    <2>1. PICK c \in Contracts : c = e.contract
      BY DEF TypeOK, Event
    <2>2. UNCHANGED <<pc, on>>
      BY <1>11 DEF Consume
    <2>3. CASE e.type = "payment.held"
      <3>1. UpdateStatus(c, "HOLD_PENDING", "AWAITING_ACCEPT", <<>>)
        BY <1>11, <2>1, <2>3 DEF Consume, HandleEvent
      <3>2. HistoryToldOnce'
        BY <3>1, Continuations, UpdateHistory
      <3> QED
        BY <2>2, <3>1, <3>2, CreatorsKept DEF HistoryInv
    <2>4. CASE e.type = "payment.failed"
      <3>1. UpdateStatus(c, "HOLD_PENDING", "CANCELLED", <<"contract.cancelled">>)
        BY <1>11, <2>1, <2>4 DEF Consume, HandleEvent
      <3>2. HistoryToldOnce'
        BY <3>1, Continuations, UpdateHistory
      <3> QED
        BY <2>2, <3>1, <3>2, CreatorsKept DEF HistoryInv
    <2>5. CASE e.type \notin {"payment.held", "payment.failed"}
      <3>1. UNCHANGED <<status, announced>>
        BY <1>11, <2>5 DEF Consume, HandleEvent
      <3> QED
        BY <1>0, <2>2, <3>1 DEF Creating
    <2> QED
      BY <2>3, <2>4, <2>5
  <1>12. CASE PaymentsServesLate \/ Ack \/ Redeliver \/ \E e \in payOutbox : Publish(e) \/ PublishUnmarked(e)
    BY <1>0, <1>12 DEF PaymentsServesLate, Ack, Redeliver, Publish, PublishUnmarked, Creating
  <1> QED
    BY <1>1, <1>2, <1>3, <1>4, <1>5, <1>6, <1>7, <1>8, <1>9, <1>10, <1>11, <1>12
    DEF Next, Handle, Request

\* The outbox tells each contract's history (saga.go, and the consumer) once and in order.
THEOREM HistoryTold == Spec => []HistoryToldOnce
  <1>1. Init => HistoryInv
    <2>1. Init => SilentCreators
      BY DEF Init, SilentCreators, Creating
    <2>2. Init => HistoryToldOnce
      BY DEF Init, HistoryToldOnce, Histories
    <2> QED
      BY <2>1, <2>2 DEF HistoryInv
  <1>2. SagaInv /\ HistoryInv /\ [Next]_vars => HistoryInv'
    BY HistoryStep
  <1>3. HistoryInv => HistoryToldOnce
    BY DEF HistoryInv
  <1> QED
    BY <1>1, <1>2, <1>3, SagaInvariance, PTL DEF Spec

-----------------------------------------------------------------------------
(* One contract at a time: what any step does to statuses and money. *)

StatusMoves ==
  {<<"NONE", "PENDING">>, <<"PENDING", "HOLD_PENDING">>, <<"PENDING", "CANCELLED">>,
   <<"HOLD_PENDING", "AWAITING_ACCEPT">>, <<"HOLD_PENDING", "CANCELLED">>,
   <<"AWAITING_ACCEPT", "ACTIVE">>, <<"ACTIVE", "COMPLETING">>, <<"COMPLETING", "COMPLETED">>,
   <<"AWAITING_ACCEPT", "DECLINING">>, <<"DECLINING", "DECLINED">>}
MoneyMoves == {<<"none", "active">>, <<"active", "transferred">>, <<"active", "released">>}

MovesStatus(c) ==
  /\ \E m \in StatusMoves : status[c] = m[1] /\ status' = [status EXCEPT ![c] = m[2]]
  /\ UNCHANGED hold
MovesMoney(c) ==
  /\ \E m \in MoneyMoves : hold[c] = m[1] /\ hold' = [hold EXCEPT ![c] = m[2]]
  /\ UNCHANGED status

\* An UPDATE with its expected status moves the contract so, or not at all.
LEMMA UpdateMoves ==
  ASSUME NEW c \in Contracts, NEW from, NEW to, NEW rows, UpdateStatus(c, from, to, rows),
         <<from, to>> \in StatusMoves, UNCHANGED hold
  PROVE  MovesStatus(c) \/ UNCHANGED <<status, hold>>
  BY DEF UpdateStatus, MovesStatus

\* A call that payments serves moves the money so, if it is the only hold of its contract.
LEMMA ServeMoves ==
  ASSUME NEW c \in Contracts, NEW op, NEW answer, Serve(op, c, answer), UNCHANGED status,
         op = "hold" => hold[c] = "none"
  PROVE  MovesMoney(c) \/ UNCHANGED <<status, hold>>
  BY DEF Serve, HoldFunds, TransferFunds, ReleaseFunds, NotServed, MovesMoney, MoneyMoves

\* Every step moves the status or the money of one contract, and never both: no transaction
\* spans the two databases.
LEMMA SagaMoves ==
  ASSUME SagaInv, [Next]_vars
  PROVE  (\E c \in Contracts : MovesStatus(c) \/ MovesMoney(c)) \/ UNCHANGED <<status, hold>>
  <1> USE DEF table, handlers, payments, nats
  <1>t. TypeOK /\ HandlerKnows /\ LateKnows
    BY DEF SagaInv
  <1>0. ASSUME NEW t \in Handlers, pc[t] # "idle" PROVE on[t] \in Contracts
    BY <1>0, <1>t DEF TypeOK
  <1>1. ASSUME NEW t \in Handlers,
               CreateLink(t) \/ CompleteMark(t) \/ CompleteFinish(t) \/ CancelMark(t) \/ CancelFinish(t)
        PROVE  MovesStatus(on[t]) \/ UNCHANGED <<status, hold>>
    <2>1. on[t] \in Contracts /\ UNCHANGED hold
      BY <1>0, <1>1 DEF CreateLink, CompleteMark, CompleteFinish, CancelMark, CancelFinish
    <2>2. PICK m \in StatusMoves, rows \in {<<"contract.created">>, <<>>, <<"contract.completed">>,
                                            <<"contract.declined">>} :
            UpdateStatus(on[t], m[1], m[2], rows)
      BY <1>1 DEF CreateLink, CompleteMark, CompleteFinish, CancelMark, CancelFinish, StatusMoves
    <2>3. m = <<m[1], m[2]>>
      BY DEF StatusMoves
    <2> QED
      BY <2>1, <2>2, <2>3, UpdateMoves
  <1>2. ASSUME NEW t \in Handlers, CreateCompensate(t)
        PROVE  MovesStatus(on[t]) \/ UNCHANGED <<status, hold>>
    <2>1. on[t] \in Contracts /\ status[on[t]] = "PENDING"
      BY <1>0, <1>2, <1>t DEF CreateCompensate, HandlerKnows, Knows, Creating
    <2> QED
      BY <1>2, <2>1 DEF CreateCompensate, MovesStatus, StatusMoves
  <1>3. ASSUME NEW t \in Handlers,
               HoldGranted(t) \/ HoldErred(t) \/ TransferReturned(t) \/ ReleaseReturned(t) \/ Die(t)
        PROVE  UNCHANGED <<status, hold>>
    BY <1>3 DEF HoldGranted, HoldErred, TransferReturned, ReleaseReturned, Die
  <1>4. ASSUME NEW t \in Handlers, PaymentsServes(t)
        PROVE  MovesMoney(on[t]) \/ UNCHANGED <<status, hold>>
    <2>1. on[t] \in Contracts /\ UNCHANGED status
      BY <1>0, <1>4 DEF PaymentsServes, Calling
    <2>2. PICK answer \in {"ok", "failed"} : Serve(OperationOf(pc[t]), on[t], answer)
      BY <1>4 DEF PaymentsServes
    <2>3. OperationOf(pc[t]) = "hold" => hold[on[t]] = "none"
      BY <1>4, <1>t, CallCases DEF PaymentsServes, Calling, HandlerKnows, Knows
    <2> QED
      BY <2>1, <2>2, <2>3, ServeMoves
  <1>5. ASSUME NEW t \in Handlers, NEW c \in Contracts, Request(t, c)
        PROVE  MovesStatus(c) \/ UNCHANGED <<status, hold>>
    BY <1>5 DEF Request, CreateInsert, CompleteRead, CancelRead, MovesStatus, StatusMoves
  <1>6. ASSUME NEW c \in Contracts, Accept(c) PROVE MovesStatus(c) \/ UNCHANGED <<status, hold>>
    BY <1>6, UpdateMoves DEF Accept, StatusMoves
  <1>7. ASSUME PaymentsServesLate
        PROVE  (\E c \in Contracts : MovesMoney(c)) \/ UNCHANGED <<status, hold>>
    <2>1. PICK call \in late, answer \in {"ok", "failed"} :
            Serve(call.op, call.contract, answer) /\ UNCHANGED status
      BY <1>7 DEF PaymentsServesLate
    <2>2. call \in Call
      BY <1>t DEF TypeOK
    <2>3. call.contract \in Contracts /\ call = [op |-> call.op, contract |-> call.contract]
      BY <2>2 DEF Call
    <2>4. call.op = "hold" => hold[call.contract] = "none"
      BY <1>t, <2>3 DEF LateKnows, LateIs
    <2> QED
      BY <2>1, <2>3, <2>4, ServeMoves
  <1>8. ASSUME NEW e \in stream, Consume(e)
        PROVE  (\E c \in Contracts : MovesStatus(c)) \/ UNCHANGED <<status, hold>>
    <2>1. e.contract \in Contracts /\ UNCHANGED hold
      BY <1>8, <1>t DEF Consume, TypeOK, Event
    <2>2. CASE e.type = "payment.held"
      BY <1>8, <2>1, <2>2, UpdateMoves DEF Consume, HandleEvent, StatusMoves
    <2>3. CASE e.type = "payment.failed"
      BY <1>8, <2>1, <2>3, UpdateMoves DEF Consume, HandleEvent, StatusMoves
    <2>4. CASE e.type \notin {"payment.held", "payment.failed"}
      BY <1>8, <2>1, <2>4 DEF Consume, HandleEvent
    <2> QED
      BY <2>2, <2>3, <2>4
  <1>9. ASSUME \/ UNCHANGED vars \/ Ack \/ Redeliver
               \/ \E e \in payOutbox : Publish(e) \/ PublishUnmarked(e)
        PROVE  UNCHANGED <<status, hold>>
    BY <1>9 DEF vars, Ack, Redeliver, Publish, PublishUnmarked
  <1> QED
    BY <1>0, <1>1, <1>2, <1>3, <1>4, <1>5, <1>6, <1>7, <1>8, <1>9
    DEF Next, Handle, CreateLink, CompleteMark, CompleteFinish, CancelMark, CancelFinish,
        CreateCompensate, PaymentsServes, Calling

-----------------------------------------------------------------------------
(* The engagement. *)

StageOf == [c \in Contracts |-> Stage(c)]

\* What moves one contract moves its stage, and no other's.
LEMMA OneStage ==
  ASSUME TypeOK, NEW c \in Contracts, MovesStatus(c) \/ MovesMoney(c)
  PROVE  StageOf' = [StageOf EXCEPT ![c] = Stage(c)']
  <1>1. \A d \in Contracts \ {c} : status'[d] = status[d] /\ hold'[d] = hold[d]
    BY DEF MovesStatus, MovesMoney, TypeOK
  <1>2. \A d \in Contracts \ {c} : Stage(d)' = Stage(d)
    BY <1>1 DEF Stage
  <1> QED
    BY <1>2 DEF StageOf

\* A move that the agreement of status and money allows is a step of the engagement, or
\* leaves the stage alone.
LEMMA StageMoves ==
  ASSUME TypeOK, MoneyFollowsStatus, MoneyFollowsStatus',
         NEW c \in Contracts, MovesStatus(c) \/ MovesMoney(c)
  PROVE  \/ Stage(c)' = Stage(c)
         \/ <<Stage(c), Stage(c)'>> \in {<<"none", "proposed">>, <<"proposed", "agreed">>,
                 <<"agreed", "paid">>, <<"proposed", "refunded">>, <<"proposed", "void">>}
  <1>1. hold[c] \in MoneyAllowed(status[c]) /\ hold'[c] \in MoneyAllowed(status'[c])
    BY DEF MoneyFollowsStatus
  <1>2. CASE MovesStatus(c)
    <2>1. hold'[c] = hold[c] /\ <<status[c], status'[c]>> \in StatusMoves
      BY <1>2 DEF MovesStatus, StatusMoves, TypeOK
    <2>2. CASE <<status[c], status'[c]>> \in
                 {<<"NONE", "PENDING">>, <<"PENDING", "HOLD_PENDING">>, <<"PENDING", "CANCELLED">>,
                  <<"HOLD_PENDING", "AWAITING_ACCEPT">>, <<"HOLD_PENDING", "CANCELLED">>}
      BY <1>1, <2>1, <2>2, MoneyCases DEF Stage
    <2>3. CASE <<status[c], status'[c]>> \in
                 {<<"AWAITING_ACCEPT", "ACTIVE">>, <<"ACTIVE", "COMPLETING">>,
                  <<"COMPLETING", "COMPLETED">>, <<"AWAITING_ACCEPT", "DECLINING">>,
                  <<"DECLINING", "DECLINED">>}
      BY <1>1, <2>1, <2>3, MoneyCases DEF Stage
    <2> QED
      BY <2>1, <2>2, <2>3 DEF StatusMoves
  <1>3. CASE MovesMoney(c)
    <2>1. status'[c] = status[c] /\ <<hold[c], hold'[c]>> \in MoneyMoves /\ status[c] \in Statuses
      BY <1>3 DEF MovesMoney, MoneyMoves, TypeOK
    <2>2. CASE hold[c] = "none" /\ hold'[c] = "active"
      <3>1. status[c] \in {"PENDING", "CANCELLED"}
        BY <1>1, <2>1, <2>2, MoneyCases DEF Statuses, Settled
      <3> QED
        BY <2>1, <2>2, <3>1 DEF Stage
    <2>3. CASE hold[c] = "active" /\ hold'[c] = "transferred"
      <3>1. status[c] = "COMPLETING"
        BY <1>1, <2>1, <2>3, MoneyCases DEF Statuses, Settled
      <3> QED
        BY <2>1, <2>3, <3>1 DEF Stage
    <2>4. CASE hold[c] = "active" /\ hold'[c] = "released"
      <3>1. status[c] = "DECLINING"
        BY <1>1, <2>1, <2>4, MoneyCases DEF Statuses, Settled
      <3> QED
        BY <2>1, <2>4, <3>1 DEF Stage
    <2> QED
      BY <2>1, <2>2, <2>3, <2>4 DEF MoneyMoves
  <1> QED
    BY <1>2, <1>3

\* Client and freelancer see one contract, whatever the two services and their events do:
\* it is agreed before it is paid, never agreed if it is refunded, and paid or refunded once,
\* for any number of contracts and handlers (saga.go:202-343).
THEOREM EngagementKept == Spec => ImplementsEngagement
  <1>1. Init => Deal!Init
    BY DEF Init, Stage, Deal!Init
  <1>2. SagaInv /\ SagaInv' /\ [Next]_vars => [Deal!Next]_StageOf
    <2> SUFFICES ASSUME SagaInv, SagaInv', [Next]_vars PROVE Deal!Next \/ StageOf' = StageOf
      OBVIOUS
    <2>1. TypeOK /\ MoneyFollowsStatus /\ MoneyFollowsStatus'
      BY DEF SagaInv
    <2>2. UNCHANGED <<status, hold>> => StageOf' = StageOf
      BY DEF StageOf, Stage
    <2>3. ASSUME NEW c \in Contracts, MovesStatus(c) \/ MovesMoney(c)
          PROVE  Deal!Next \/ StageOf' = StageOf
      <3>1. StageOf' = [StageOf EXCEPT ![c] = Stage(c)'] /\ StageOf[c] = Stage(c)
        BY <2>1, <2>3, OneStage DEF StageOf
      <3>2. CASE Stage(c)' = Stage(c)
        BY <3>1, <3>2 DEF StageOf
      <3>3. CASE <<Stage(c), Stage(c)'>> \in
                   {<<"none", "proposed">>, <<"proposed", "agreed">>, <<"agreed", "paid">>,
                    <<"proposed", "refunded">>, <<"proposed", "void">>}
        <4>1. PICK from \in {"none", "proposed", "agreed"}, to \in {"proposed", "agreed", "paid", "refunded", "void"} :
                Stage(c) = from /\ Stage(c)' = to /\ Deal!Move(c, from, to) /\
                <<from, to>> \in {<<"none", "proposed">>, <<"proposed", "agreed">>, <<"agreed", "paid">>,
                                  <<"proposed", "refunded">>, <<"proposed", "void">>}
          BY <3>1, <3>3 DEF Deal!Move, StageOf
        <4>2. \/ Deal!Propose(c) \/ Deal!Agree(c) \/ Deal!Pay(c) \/ Deal!Refund(c) \/ Deal!Drop(c)
          BY <4>1 DEF Deal!Propose, Deal!Agree, Deal!Pay, Deal!Refund, Deal!Drop
        <4> QED
          BY <4>2 DEF Deal!Next
      <3> QED
        BY <2>1, <2>3, <3>2, <3>3, StageMoves
    <2> QED
      BY <2>2, <2>3, SagaMoves
  <1> QED
    BY <1>1, <1>2, SagaInvariance, PTL DEF Spec, ImplementsEngagement, Deal!Spec, StageOf

-----------------------------------------------------------------------------
(* What payments is asked to do. *)

EscrowWallets == Contracts \X {"client", "freelancer"}
EscrowBalance ==
  [w \in EscrowWallets |-> IF w[2] = "client" THEN ClientHas(w[1]) ELSE 1 - ClientHas(w[1])]
EscrowHolds ==
  [c \in Contracts |-> IF hold[c] = "none"
                       THEN [status |-> "none", wallet |-> None, amount |-> 0]
                       ELSE [status |-> hold[c], wallet |-> <<c, "client">>, amount |-> 1]]

\* What moves the money of one contract leaves the holds of the others alone, and every
\* wallet but its own two.
LEMMA OthersMoney ==
  ASSUME TypeOK, NEW c \in Contracts, MovesMoney(c)
  PROVE  /\ EscrowHolds' = [EscrowHolds EXCEPT ![c] =
              [status |-> hold'[c], wallet |-> <<c, "client">>, amount |-> 1]]
         /\ \A w \in EscrowWallets : w[1] # c => EscrowBalance'[w] = EscrowBalance[w]
  <1>1. \A d \in Contracts \ {c} : hold'[d] = hold[d]
    BY DEF MovesMoney, TypeOK
  <1>2. hold'[c] # "none"
    BY DEF MovesMoney, MoneyMoves, TypeOK
  <1>3. EscrowHolds' = [EscrowHolds EXCEPT ![c] =
              [status |-> hold'[c], wallet |-> <<c, "client">>, amount |-> 1]]
    BY <1>1, <1>2 DEF EscrowHolds
  <1>4. ASSUME NEW w \in EscrowWallets, w[1] # c PROVE EscrowBalance'[w] = EscrowBalance[w]
    BY <1>1, <1>4 DEF EscrowBalance, EscrowWallets, ClientHas
  <1> QED
    BY <1>3, <1>4

\* A contract's money moves as a hold placed, released or settled.
LEMMA MoneyIsEscrow ==
  ASSUME TypeOK, NEW c \in Contracts, MovesMoney(c)
  PROVE  EscrowMoney!Next
  <1> DEFINE client == <<c, "client">>
             freelancer == <<c, "freelancer">>
  <1>w. /\ client \in EscrowWallets /\ freelancer \in EscrowWallets /\ client # freelancer
        /\ client[1] = c /\ client[2] = "client" /\ freelancer[1] = c /\ freelancer[2] = "freelancer"
        /\ \A w \in EscrowWallets : w[1] = c => w = client \/ w = freelancer
    BY DEF EscrowWallets
  <1>m. <<hold[c], hold'[c]>> \in MoneyMoves
    BY DEF MovesMoney, MoneyMoves, TypeOK
  <1>h. hold'[c] \in {"active", "transferred", "released"} /\ hold[c] \in {"none", "active"}
    BY <1>m DEF MoneyMoves
  <1>e. EscrowHolds[c] = IF hold[c] = "none" THEN [status |-> "none", wallet |-> None, amount |-> 0]
                         ELSE [status |-> hold[c], wallet |-> client, amount |-> 1]
    BY DEF EscrowHolds
  <1>1. CASE hold'[c] # "transferred"
    <2>1. ClientHas(c) = 1 /\ ClientHas(c)' = 1
      BY <1>1, <1>h DEF ClientHas
    <2>2. \A w \in EscrowWallets : w[1] = c => EscrowBalance'[w] = EscrowBalance[w]
      BY <2>1 DEF EscrowBalance
    <2>3. EscrowBalance' = EscrowBalance
      BY <2>2, OthersMoney DEF EscrowBalance
    <2>4. CASE hold[c] = "none"
      <3>1. hold'[c] = "active"
        BY <1>m, <2>4 DEF MoneyMoves
      <3>2. EscrowMoney!Place(c, client, 1)
        BY <2>3, <2>4, <1>e, <3>1, OthersMoney
        DEF EscrowMoney!Place, EscrowMoney!NoHold, EscrowHolds, EscrowBalance, EscrowWallets
      <3> QED
        BY <1>w, <3>2 DEF EscrowMoney!Next, EscrowWallets
    <2>5. CASE hold[c] = "active"
      <3>1. hold'[c] = "released"
        BY <1>1, <1>m, <2>5 DEF MoneyMoves
      <3>2. EscrowHolds' = [EscrowHolds EXCEPT ![c].status = "released"]
        BY <1>e, <2>5, <3>1, OthersMoney DEF EscrowHolds
      <3>3. EscrowMoney!Release(c)
        BY <1>e, <2>3, <2>5, <3>2
        DEF EscrowMoney!Release, EscrowHolds, EscrowBalance, EscrowWallets
      <3> QED
        BY <3>3 DEF EscrowMoney!Next
    <2> QED
      BY <1>h, <2>4, <2>5
  <1>2. CASE hold'[c] = "transferred"
    <2>1. hold[c] = "active"
      BY <1>2, <1>m DEF MoneyMoves
    <2>2. ClientHas(c) = 1 /\ ClientHas(c)' = 0
      BY <1>2, <2>1 DEF ClientHas
    <2>3. /\ EscrowBalance[client] = 1 /\ EscrowBalance[freelancer] = 0
          /\ EscrowBalance'[client] = 0 /\ EscrowBalance'[freelancer] = 1
      BY <1>w, <2>2 DEF EscrowBalance
    <2>4. EscrowBalance' = [EscrowBalance EXCEPT ![client] = 0, ![freelancer] = 1]
      <3>1. \A w \in EscrowWallets :
              EscrowBalance'[w] = IF w = freelancer THEN 1 ELSE IF w = client THEN 0 ELSE EscrowBalance[w]
        BY <1>w, <2>3, OthersMoney
      <3> HIDE DEF client, freelancer
      <3> QED
        BY <1>w, <3>1 DEF EscrowBalance
    <2>5. EscrowHolds' = [EscrowHolds EXCEPT ![c].status = "transferred"]
      BY <1>e, <1>2, <2>1, OthersMoney DEF EscrowHolds
    <2>6. /\ EscrowHolds[c].status = "active" /\ EscrowHolds[c].wallet = client
          /\ EscrowHolds[c].amount = 1
      BY <1>e, <2>1
    <2>7. EscrowBalance' = [EscrowBalance EXCEPT ![EscrowHolds[c].wallet] = @ - EscrowHolds[c].amount,
                                                 ![freelancer] = @ + EscrowHolds[c].amount]
      <3>1. EscrowBalance[client] - 1 = 0 /\ EscrowBalance[freelancer] + 1 = 1
        BY <2>3
      <3>2. DOMAIN EscrowBalance = EscrowWallets
        BY DEF EscrowBalance
      <3> HIDE DEF client, freelancer
      <3>3. [EscrowBalance EXCEPT ![client] = @ - 1, ![freelancer] = @ + 1] =
              [EscrowBalance EXCEPT ![client] = 0, ![freelancer] = 1]
        BY <1>w, <3>1, <3>2
      <3> QED
        BY <2>4, <2>6, <3>3
    <2>8. /\ freelancer # EscrowHolds[c].wallet
          /\ EscrowBalance[EscrowHolds[c].wallet] >= EscrowHolds[c].amount
      BY <1>w, <2>3, <2>6
    <2>9. EscrowMoney!Settle(c, freelancer)
      <3> HIDE DEF client, freelancer
      <3> QED
        BY <2>5, <2>6, <2>7, <2>8
        DEF EscrowMoney!Settle, EscrowHolds, EscrowBalance, EscrowWallets
    <2> QED
      BY <1>w, <2>9 DEF EscrowMoney!Next, EscrowWallets
  <1> QED
    BY <1>1, <1>2

\* The saga asks of payments only what an escrow allows, whatever calls it repeats or leaves
\* to be served late: no hold of a contract is placed twice or after it was settled, for any
\* number of contracts and handlers (saga.go:57-343).
THEOREM SagaUsesEscrow == Spec => PaymentsIsEscrow
  <1>1. Init => EscrowMoney!Init
    BY DEF Init, ClientHas, EscrowMoney!Init, EscrowMoney!NoHold
  <1>2. SagaInv /\ [Next]_vars => [EscrowMoney!Next]_EscrowMoney!vars
    <2> SUFFICES ASSUME SagaInv, [Next]_vars
                 PROVE  EscrowMoney!Next \/ UNCHANGED <<EscrowBalance, EscrowHolds>>
      BY DEF EscrowMoney!vars, EscrowBalance, EscrowHolds, EscrowWallets
    <2>1. TypeOK
      BY DEF SagaInv
    <2>2. UNCHANGED hold => UNCHANGED <<EscrowBalance, EscrowHolds>>
      BY DEF EscrowBalance, EscrowHolds, ClientHas
    <2>3. ASSUME NEW c \in Contracts, MovesMoney(c) PROVE EscrowMoney!Next
      BY <2>1, <2>3, MoneyIsEscrow
    <2>4. ASSUME NEW c \in Contracts, MovesStatus(c) PROVE UNCHANGED hold
      BY <2>4 DEF MovesStatus
    <2> QED
      BY <2>2, <2>3, <2>4, SagaMoves
  <1> QED
    BY <1>1, <1>2, SagaInvariance, PTL DEF Spec, PaymentsIsEscrow, EscrowMoney!Spec
=============================================================================
