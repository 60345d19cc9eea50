--------------------------- MODULE PaymentsProofs ---------------------------
(***************************************************************************)
(* Proofs about Payments, for any set of requests, wallets and amounts.    *)
(*                                                                         *)
(* IInv strengthens the type invariant with what the row locks guarantee   *)
(* while a handler is inside its transaction.  It is inductive, and the    *)
(* safety properties and the refinement of Escrow follow from it.          *)
(***************************************************************************)
EXTENDS Payments, TLAPS

InTransfer == {"transfer_source", "transfer_recipient", "transfer_commit"}
Settling   == {"release_ledger", "release_commit"} \cup InTransfer

\* A hold row that exists is complete, and an id that no request has used is free.
HoldRows ==
  \A h \in Requests :
    /\ IF holds[h].status = "none"
       THEN holds[h] = NoHold
       ELSE holds[h].wallet \in Wallets /\ holds[h].amount \in Amounts
    /\ pc[h] \notin Answers => holds[h].status = "none"

\* What a handler has validated so far about its request.
Validated ==
  \A p \in Requests :
    /\ pc[p] \in {"hold_select", "hold_commit"} => arg[p].amount \in Amounts
    /\ pc[p] \in {"hold_commit", "transfer_commit"} => arg[p].wallet \in Wallets
    /\ pc[p] \in {"release_select", "transfer_select"} \cup Settling => arg[p].hold \in Requests

\* A handler that settles a hold has it locked and active.
HoldOwned ==
  \A p \in Requests :
    /\ pc[p] \in Settling => holdLock[arg[p].hold] = p /\ Active(arg[p].hold)
    /\ pc[p] \in InTransfer => arg[p].wallet # holds[arg[p].hold].wallet

\* A transfer has the wallets it has read locked.
WalletsOwned ==
  \A p \in Requests :
    /\ pc[p] \in {"transfer_recipient", "transfer_commit"} =>
         walletLock[holds[arg[p].hold].wallet] = p
    /\ pc[p] = "transfer_commit" => walletLock[arg[p].wallet] = p

LockInv == HoldRows /\ Validated /\ HoldOwned /\ WalletsOwned /\ TransferReadsCurrent

IInv == TypeOK /\ LockInv

-----------------------------------------------------------------------------
\* Amounts are positive integers, and no row is called None.
LEMMA Constants ==
  /\ \A a \in Amounts : a \in Nat /\ a \in Int /\ a > 0
  /\ None \notin Requests /\ None \notin Wallets
  <1>1. \A a \in Amounts : a \in Nat \ {0}
    BY PaymentsAssumption
  <1>2. \A a \in Nat \ {0} : a \in Nat /\ a \in Int /\ a > 0
    OBVIOUS
  <1>3. None \notin Requests /\ None \notin Wallets
    BY PaymentsAssumption
  <1> QED
    BY <1>1, <1>2, <1>3

\* The initial state satisfies the inductive invariant.
LEMMA InitIInv == Init => IInv
  <1> SUFFICES ASSUME Init PROVE IInv
    OBVIOUS
  <1> USE PaymentsAssumption DEF Init
  <1>1. TypeOK
    BY DEF TypeOK, NoHold, NoArg, NoSeen, Arg, Seen, PCs
  <1>2. HoldRows
    BY DEF HoldRows, NoHold
  <1>3. Validated /\ HoldOwned /\ WalletsOwned /\ TransferReadsCurrent
    BY DEF Validated, HoldOwned, WalletsOwned, TransferReadsCurrent, Settling, InTransfer
  <1> QED
    BY <1>1, <1>2, <1>3 DEF IInv, LockInv

\* Ending a transaction keeps the types of everything it changes.
LEMMA EndTxType ==
  ASSUME TypeOK, NEW p \in Requests, NEW answer \in Answers, EndTx(p, answer)
  PROVE  /\ walletLock' \in [Wallets -> Requests \cup {None}]
         /\ walletShare' \in [Wallets -> SUBSET Requests]
         /\ holdLock' \in [Requests -> Requests \cup {None}]
         /\ pc' \in [Requests -> PCs]
         /\ arg' \in [Requests -> Arg]
         /\ seen' \in [Requests -> Seen]
  <1>1. NoArg \in Arg /\ NoSeen \in Seen
    BY DEF NoArg, NoSeen, Arg, Seen
  <1>2. answer \in PCs
    BY DEF PCs
  <1>3. /\ walletLock' \in [Wallets -> Requests \cup {None}]
        /\ walletShare' \in [Wallets -> SUBSET Requests]
        /\ holdLock' \in [Requests -> Requests \cup {None}]
    BY DEF TypeOK, EndTx
  <1>4. pc' \in [Requests -> PCs]
    BY <1>2 DEF TypeOK, EndTx, Goto
  <1>5. arg' \in [Requests -> Arg] /\ seen' \in [Requests -> Seen]
    BY <1>1 DEF TypeOK, EndTx
  <1> QED
    BY <1>3, <1>4, <1>5

\* A handler that is settling a hold has a complete, active row in hand.
LEMMA SettledRow ==
  ASSUME IInv, NEW p \in Requests, pc[p] \in Settling
  PROVE  /\ arg[p].hold \in Requests
         /\ holds[arg[p].hold].status = "active"
         /\ holds[arg[p].hold].wallet \in Wallets
         /\ holds[arg[p].hold].amount \in Amounts
         /\ holdLock[arg[p].hold] = p
  <1>1. arg[p].hold \in Requests
    BY DEF IInv, LockInv, Validated
  <1>2. holds[arg[p].hold].status = "active" /\ holdLock[arg[p].hold] = p
    BY DEF IInv, LockInv, HoldOwned, Active
  <1>3. holds[arg[p].hold].wallet \in Wallets /\ holds[arg[p].hold].amount \in Amounts
    BY <1>1, <1>2 DEF IInv, LockInv, HoldRows
  <1> QED
    BY <1>1, <1>2, <1>3

\* The actions, with the five error paths told as the rollback each of them is.
Acts(p) ==
  \/ \E w \in Wallets \cup {None}, a \in Amounts : BeginHold(p, w, a)
  \/ \E h \in Requests : BeginRelease(p, h)
  \/ \E h \in Requests, to \in Wallets \cup {None} : BeginTransfer(p, h, to)
  \/ HoldLockWallet(p) \/ HoldRefuse(p) \/ HoldPlace(p)
  \/ LockHold(p) \/ ReleaseLedger(p) \/ ReleaseCommit(p)
  \/ TransferLockSource(p) \/ TransferLockRecipient(p) \/ TransferCommit(p)
  \/ \E answer \in Answers : Rollback(p, answer)

\* Every step is one of them, or changes nothing.
LEMMA StepCases == [Next]_vars => UNCHANGED vars \/ \E p \in Requests : Acts(p)
  <1> SUFFICES ASSUME NEW p \in Requests, Begin(p) \/ Step(p) \/ Fail(p) PROVE Acts(p)
    BY DEF Next
  <1>1. "refused" \in Answers /\ "failed" \in Answers
    BY DEF Answers
  <1>2. CASE Begin(p)
    BY <1>2 DEF Begin, Acts
  <1>3. CASE Step(p)
    BY <1>1, <1>3 DEF Step, Acts, RefuseHold, TransferInvariantViolation, WalletNotFound, DeadlockVictim
  <1>4. CASE Fail(p)
    BY <1>1, <1>4 DEF Fail, Acts
  <1> QED
    BY <1>2, <1>3, <1>4

\* Every action preserves the types.
LEMMA TypeStep == IInv /\ [Next]_vars => TypeOK'
  <1> SUFFICES ASSUME IInv, [Next]_vars PROVE TypeOK'
    OBVIOUS
  <1>t. TypeOK
    BY DEF IInv
  <1>1. CASE UNCHANGED vars
    BY <1>1, <1>t DEF vars, tables, locks, TypeOK
  <1>2. ASSUME NEW p \in Requests, NEW w \in Wallets \cup {None}, NEW a \in Amounts, BeginHold(p, w, a)
        PROVE  TypeOK'
    <2>1. [wallet |-> w, amount |-> a, hold |-> None] \in Arg
      BY DEF Arg
    <2>2. arg' \in [Requests -> Arg]
      BY <1>2, <1>t, <2>1 DEF TypeOK, BeginHold
    <2>3. seen' \in [Requests -> Seen]
      BY <1>2, <1>t DEF TypeOK, BeginHold, Seen, ActiveHolds
    <2>4. pc' \in [Requests -> PCs]
      BY <1>2, <1>t DEF TypeOK, BeginHold, Goto, PCs, Selects
    <2> QED
      BY <1>2, <1>t, <2>2, <2>3, <2>4 DEF TypeOK, BeginHold, tables, locks
  <1>3. ASSUME NEW p \in Requests, NEW h \in Requests, BeginRelease(p, h) PROVE TypeOK'
    <2>1. [wallet |-> None, amount |-> 0, hold |-> h] \in Arg
      BY DEF Arg
    <2>2. arg' \in [Requests -> Arg]
      BY <1>3, <1>t, <2>1 DEF TypeOK, BeginRelease
    <2>3. pc' \in [Requests -> PCs]
      BY <1>3, <1>t DEF TypeOK, BeginRelease, Goto, PCs, Selects
    <2> QED
      BY <1>3, <1>t, <2>2, <2>3 DEF TypeOK, BeginRelease, tables, locks
  <1>4. ASSUME NEW p \in Requests, NEW h \in Requests, NEW to \in Wallets \cup {None}, BeginTransfer(p, h, to)
        PROVE  TypeOK'
    <2>1. [wallet |-> to, amount |-> 0, hold |-> h] \in Arg
      BY DEF Arg
    <2>2. arg' \in [Requests -> Arg]
      BY <1>4, <1>t, <2>1 DEF TypeOK, BeginTransfer
    <2>3. pc' \in [Requests -> PCs]
      BY <1>4, <1>t DEF TypeOK, BeginTransfer, Goto, PCs, Selects
    <2> QED
      BY <1>4, <1>t, <2>2, <2>3 DEF TypeOK, BeginTransfer, tables, locks
  <1>5. ASSUME NEW p \in Requests, HoldLockWallet(p) PROVE TypeOK'
    <2>1. arg[p].wallet \in Wallets
      BY <1>5, <1>t DEF TypeOK, HoldLockWallet, Arg
    <2>2. seen' \in [Requests -> Seen]
      BY <1>5, <1>t, <2>1 DEF TypeOK, HoldLockWallet, Seen
    <2>3. pc' \in [Requests -> PCs]
      BY <1>5, <1>t DEF TypeOK, HoldLockWallet, Goto, PCs, InTx
    <2>4. walletLock' \in [Wallets -> Requests \cup {None}]
      BY <1>5, <1>t, <2>1 DEF TypeOK, HoldLockWallet
    <2> QED
      BY <1>5, <1>t, <2>2, <2>3, <2>4 DEF TypeOK, HoldLockWallet, tables
  <1>6. ASSUME NEW p \in Requests, HoldRefuse(p) PROVE TypeOK'
    <2>1. PICK answer \in {"refused", "failed"} : EndTx(p, answer)
      BY <1>6 DEF HoldRefuse
    <2>2. answer \in Answers
      BY DEF Answers
    <2>3. arg[p].wallet \in Wallets /\ arg[p].amount \in Int
      <3>1. pc[p] = "hold_commit"
        BY <1>6 DEF HoldRefuse
      <3>2. arg[p].wallet \in Wallets /\ arg[p].amount \in Amounts
        BY <3>1 DEF IInv, LockInv, Validated
      <3> QED
        BY <3>2, Constants
    <2>4. ledger' \subseteq LedgerRow
      BY <1>6, <1>t, <2>3 DEF TypeOK, HoldRefuse, Record, LedgerRow, LedgerType
    <2>5. outbox' \subseteq Event
      BY <1>6, <1>t DEF TypeOK, HoldRefuse, Announce, Event, EventType
    <2> QED
      BY <1>6, <1>t, <2>1, <2>2, <2>4, <2>5, EndTxType DEF TypeOK, HoldRefuse
  <1>7. ASSUME NEW p \in Requests, HoldPlace(p) PROVE TypeOK'
    <2>1. PICK answer \in {"ok", "failed"} : EndTx(p, answer)
      BY <1>7 DEF HoldPlace, Commit
    <2>2. answer \in Answers
      BY DEF Answers
    <2>3. arg[p].wallet \in Wallets /\ arg[p].amount \in Amounts /\ arg[p].amount \in Int
      <3>1. pc[p] = "hold_commit"
        BY <1>7 DEF HoldPlace
      <3>2. arg[p].wallet \in Wallets /\ arg[p].amount \in Amounts
        BY <3>1 DEF IInv, LockInv, Validated
      <3> QED
        BY <3>2, Constants
    <2>4. ledger' \subseteq LedgerRow
      BY <1>7, <1>t, <2>3 DEF TypeOK, HoldPlace, Record, LedgerRow, LedgerType
    <2>5. outbox' \subseteq Event
      BY <1>7, <1>t DEF TypeOK, HoldPlace, Announce, Event, EventType
    <2>6. holds' \in [Requests -> [status : {"none", "active", "released", "transferred"},
                                   wallet : Wallets \cup {None}, amount : Amounts \cup {0}]]
      BY <1>7, <1>t, <2>3 DEF TypeOK, HoldPlace
    <2> QED
      BY <1>7, <1>t, <2>1, <2>2, <2>4, <2>5, <2>6, EndTxType DEF TypeOK, HoldPlace
  <1>8. ASSUME NEW p \in Requests, NEW answer \in Answers, Rollback(p, answer) PROVE TypeOK'
    BY <1>8, <1>t, EndTxType DEF TypeOK, Rollback, tables
  <1>9. ASSUME NEW p \in Requests, LockHold(p) PROVE TypeOK'
    <2>1. pc' \in [Requests -> PCs]
      BY <1>9, <1>t DEF TypeOK, LockHold, Goto, PCs, InTx
    <2>2. holdLock' \in [Requests -> Requests \cup {None}]
      BY <1>9, <1>t DEF TypeOK, LockHold
    <2> QED
      BY <1>9, <1>t, <2>1, <2>2 DEF TypeOK, LockHold, tables
  <1>10. ASSUME NEW p \in Requests, ReleaseLedger(p) PROVE TypeOK'
    <2>1. pc' \in [Requests -> PCs]
      BY <1>10, <1>t DEF TypeOK, ReleaseLedger, Goto, PCs, InTx
    <2>2. walletShare' \in [Wallets -> SUBSET Requests]
      BY <1>10, <1>t DEF TypeOK, ReleaseLedger
    <2> QED
      BY <1>10, <1>t, <2>1, <2>2 DEF TypeOK, ReleaseLedger, tables
  <1>11. ASSUME NEW p \in Requests, ReleaseCommit(p) PROVE TypeOK'
    <2>1. PICK answer \in {"ok", "failed"} : EndTx(p, answer)
      BY <1>11 DEF ReleaseCommit, Commit
    <2>2. answer \in Answers
      BY DEF Answers
    <2> DEFINE h == arg[p].hold
    <2>3. h \in Requests /\ holds[h].wallet \in Wallets /\ holds[h].amount \in Amounts
      BY <1>11, SettledRow DEF ReleaseCommit, Settling
    <2>4. holds[h].amount \in Int
      BY <2>3, Constants
    <2>5. ledger' \subseteq LedgerRow
      BY <1>11, <1>t, <2>3, <2>4 DEF TypeOK, ReleaseCommit, Record, LedgerRow, LedgerType
    <2>6. outbox' \subseteq Event
      BY <1>11, <1>t, <2>3 DEF TypeOK, ReleaseCommit, Announce, Event, EventType
    <2>7. holds' \in [Requests -> [status : {"none", "active", "released", "transferred"},
                                   wallet : Wallets \cup {None}, amount : Amounts \cup {0}]]
      BY <1>11, <1>t, <2>3 DEF TypeOK, ReleaseCommit
    <2> QED
      BY <1>11, <1>t, <2>1, <2>2, <2>5, <2>6, <2>7, EndTxType DEF TypeOK, ReleaseCommit
  <1>12. ASSUME NEW p \in Requests, TransferLockSource(p) PROVE TypeOK'
    <2> DEFINE w == holds[arg[p].hold].wallet
    <2>1. w \in Wallets
      BY <1>12, SettledRow DEF TransferLockSource, Settling, InTransfer
    <2>2. seen' \in [Requests -> Seen]
      BY <1>12, <1>t, <2>1 DEF TypeOK, TransferLockSource, Seen
    <2>3. pc' \in [Requests -> PCs]
      BY <1>12, <1>t DEF TypeOK, TransferLockSource, Goto, PCs, InTx
    <2>4. walletLock' \in [Wallets -> Requests \cup {None}]
      BY <1>12, <1>t, <2>1 DEF TypeOK, TransferLockSource
    <2> QED
      BY <1>12, <1>t, <2>2, <2>3, <2>4 DEF TypeOK, TransferLockSource, tables
  <1>13. ASSUME NEW p \in Requests, TransferLockRecipient(p) PROVE TypeOK'
    <2>1. arg[p].wallet \in Wallets
      BY <1>13, <1>t DEF TypeOK, TransferLockRecipient, Arg
    <2>2. seen' \in [Requests -> Seen]
      BY <1>13, <1>t, <2>1 DEF TypeOK, TransferLockRecipient, Seen
    <2>3. pc' \in [Requests -> PCs]
      BY <1>13, <1>t DEF TypeOK, TransferLockRecipient, Goto, PCs, InTx
    <2>4. walletLock' \in [Wallets -> Requests \cup {None}]
      BY <1>13, <1>t, <2>1 DEF TypeOK, TransferLockRecipient
    <2> QED
      BY <1>13, <1>t, <2>2, <2>3, <2>4 DEF TypeOK, TransferLockRecipient, tables
  <1>14. ASSUME NEW p \in Requests, TransferCommit(p) PROVE TypeOK'
    <2>1. PICK answer \in {"ok", "failed"} : EndTx(p, answer)
      BY <1>14 DEF TransferCommit, Commit
    <2>2. answer \in Answers
      BY DEF Answers
    <2> DEFINE h == arg[p].hold
               a == holds[h].amount
    <2>3. h \in Requests /\ holds[h].wallet \in Wallets /\ a \in Amounts
      BY <1>14, SettledRow DEF TransferCommit, Settling, InTransfer
    <2>4. a \in Int /\ a \in Nat /\ a > 0
      BY <2>3, Constants
    <2>5. arg[p].wallet \in Wallets
      BY <1>14 DEF TransferCommit, IInv, LockInv, Validated
    <2>6. ledger' \subseteq LedgerRow
      BY <1>14, <1>t, <2>3, <2>4, <2>5 DEF TypeOK, TransferCommit, Record, LedgerRow, LedgerType
    <2>7. outbox' \subseteq Event
      BY <1>14, <1>t, <2>3 DEF TypeOK, TransferCommit, Announce, Event, EventType
    <2>8. holds' \in [Requests -> [status : {"none", "active", "released", "transferred"},
                                   wallet : Wallets \cup {None}, amount : Amounts \cup {0}]]
      BY <1>14, <1>t, <2>3 DEF TypeOK, TransferCommit
    <2>9. balance' \in [Wallets -> Nat]
      <3>1. seen[p].balance \in Nat /\ seen[p].recipient \in Nat
        BY <1>t DEF TypeOK, Seen
      <3>2. seen[p].balance >= a
        BY <1>14 DEF TransferCommit, IInv, LockInv, TransferReadsCurrent
      <3>3. seen[p].balance - a \in Nat /\ seen[p].recipient + a \in Nat
        BY <2>4, <3>1, <3>2
      <3> QED
        BY <1>14, <1>t, <3>3 DEF TypeOK, TransferCommit
    <2> QED
      BY <1>14, <1>t, <2>1, <2>2, <2>6, <2>7, <2>8, <2>9, EndTxType DEF TypeOK, TransferCommit
  <1> QED
    BY StepCases, <1>1, <1>2, <1>3, <1>4, <1>5, <1>6, <1>7, <1>8, <1>9, <1>10, <1>11, <1>12, <1>13,
       <1>14 DEF Acts

-----------------------------------------------------------------------------
\* When a transaction ends, only its own handler and its own locks change.
LEMMA EndTxFrame ==
  ASSUME TypeOK, NEW p \in Requests, NEW answer \in Answers, EndTx(p, answer)
  PROVE  /\ pc'[p] \in Answers
         /\ \A q \in Requests \ {p} : pc'[q] = pc[q] /\ arg'[q] = arg[q] /\ seen'[q] = seen[q]
         /\ \A h \in Requests, q \in Requests \ {p} : holdLock[h] = q => holdLock'[h] = q
         /\ \A w \in Wallets, q \in Requests \ {p} : walletLock[w] = q => walletLock'[w] = q
  BY DEF TypeOK, EndTx, Goto

\* A transaction in progress is not one that has been answered.
LEMMA PlacesApart ==
  \A where : where \in Answers => /\ where \notin Settling
                                  /\ where \notin Selects \cup InTx
                                  /\ where \notin {"hold_select", "hold_commit"}
                                  /\ where \notin {"transfer_recipient", "transfer_commit"}
                                  /\ where # "idle"
  BY DEF Answers, Settling, InTransfer, Selects, InTx

\* A hold row is created once, by the request whose id it has, and stays complete.
LEMMA HoldRowsStep == IInv /\ [Next]_vars => HoldRows'
  <1> SUFFICES ASSUME IInv, [Next]_vars PROVE HoldRows'
    OBVIOUS
  <1>t. TypeOK /\ HoldRows
    BY DEF IInv, LockInv
  <1>0. ASSUME UNCHANGED holds, \A q \in Requests : pc'[q] \notin Answers => pc[q] \notin Answers
        PROVE  HoldRows'
    BY <1>0, <1>t DEF HoldRows
  <1>1. CASE UNCHANGED vars
    BY <1>0, <1>1 DEF vars, tables
  <1>2. ASSUME NEW p \in Requests,
               \/ \E w \in Wallets \cup {None}, a \in Amounts : BeginHold(p, w, a)
               \/ \E h \in Requests : BeginRelease(p, h)
               \/ \E h \in Requests, to \in Wallets \cup {None} : BeginTransfer(p, h, to)
        PROVE  HoldRows'
    BY <1>0, <1>2, <1>t
    DEF TypeOK, BeginHold, BeginRelease, BeginTransfer, Goto, tables, Answers
  <1>3. ASSUME NEW p \in Requests,
               \/ HoldLockWallet(p) \/ LockHold(p) \/ ReleaseLedger(p)
               \/ TransferLockSource(p) \/ TransferLockRecipient(p)
        PROVE  HoldRows'
    BY <1>0, <1>3, <1>t
    DEF TypeOK, HoldLockWallet, LockHold, ReleaseLedger, TransferLockSource,
        TransferLockRecipient, Goto, tables, Answers
  <1>4. ASSUME NEW p \in Requests, HoldRefuse(p) PROVE HoldRows'
    <2>1. PICK answer \in Answers : EndTx(p, answer)
      BY <1>4 DEF HoldRefuse, Answers
    <2> QED
      BY <1>0, <1>4, <1>t, <2>1, EndTxFrame DEF HoldRefuse
  <1>5. ASSUME NEW p \in Requests, NEW answer \in Answers, Rollback(p, answer) PROVE HoldRows'
    BY <1>0, <1>5, <1>t, EndTxFrame DEF Rollback, tables
  <1>6. ASSUME NEW p \in Requests, HoldPlace(p) PROVE HoldRows'
    <2>1. PICK answer \in Answers : EndTx(p, answer)
      BY <1>6 DEF HoldPlace, Commit, Answers
    <2>2. arg[p].wallet \in Wallets /\ arg[p].amount \in Amounts
      <3>1. pc[p] = "hold_commit"
        BY <1>6 DEF HoldPlace
      <3> QED
        BY <3>1 DEF IInv, LockInv, Validated
    <2>3. holds' = [holds EXCEPT ![p] = [status |-> "active", wallet |-> arg[p].wallet,
                                         amount |-> arg[p].amount]]
      BY <1>6 DEF HoldPlace
    <2> QED
      BY <1>t, <2>1, <2>2, <2>3, EndTxFrame DEF TypeOK, HoldRows
  <1>7. ASSUME NEW p \in Requests, ReleaseCommit(p) \/ TransferCommit(p) PROVE HoldRows'
    <2>1. PICK answer \in Answers : EndTx(p, answer)
      BY <1>7 DEF ReleaseCommit, TransferCommit, Commit, Answers
    <2> DEFINE h == arg[p].hold
    <2>2. /\ h \in Requests /\ holds[h].status = "active"
          /\ holds[h].wallet \in Wallets /\ holds[h].amount \in Amounts
      BY <1>7, SettledRow DEF ReleaseCommit, TransferCommit, Settling, InTransfer
    <2>3. PICK s \in {"released", "transferred"} : holds' = [holds EXCEPT ![h].status = s]
      BY <1>7 DEF ReleaseCommit, TransferCommit
    <2>4. holds'[h].wallet = holds[h].wallet /\ holds'[h].amount = holds[h].amount /\ holds'[h].status = s
      BY <1>t, <2>2, <2>3 DEF TypeOK
    <2>5. \A g \in Requests \ {h} : holds'[g] = holds[g]
      BY <1>t, <2>2, <2>3 DEF TypeOK
    <2>6. pc[h] \in Answers /\ pc[p] \notin Answers
      BY <1>7, <1>t, <2>2 DEF HoldRows, ReleaseCommit, TransferCommit, Answers
    <2> QED
      BY <1>t, <2>1, <2>2, <2>4, <2>5, <2>6, EndTxFrame DEF HoldRows
  <1> QED
    BY StepCases, <1>1, <1>2, <1>3, <1>4, <1>5, <1>6, <1>7 DEF Acts

\* What a handler has validated stays so until it answers.
LEMMA ValidatedStep == IInv /\ [Next]_vars => Validated'
  <1> SUFFICES ASSUME IInv, [Next]_vars PROVE Validated'
    OBVIOUS
  <1>t. TypeOK /\ Validated
    BY DEF IInv, LockInv
  <1>0. ASSUME NEW p \in Requests, NEW answer \in Answers, EndTx(p, answer) PROVE Validated'
    BY <1>0, <1>t, EndTxFrame, PlacesApart DEF Validated, Settling, InTransfer, Selects, InTx
  <1>1. CASE UNCHANGED vars
    BY <1>1, <1>t DEF vars, Validated
  <1>2. ASSUME NEW p \in Requests, NEW w \in Wallets \cup {None}, NEW a \in Amounts, BeginHold(p, w, a)
        PROVE  Validated'
    BY <1>2, <1>t DEF TypeOK, BeginHold, Goto, Validated, Settling, InTransfer
  <1>3. ASSUME NEW p \in Requests, NEW h \in Requests, BeginRelease(p, h) PROVE Validated'
    BY <1>3, <1>t DEF TypeOK, BeginRelease, Goto, Validated, Settling, InTransfer
  <1>4. ASSUME NEW p \in Requests, NEW h \in Requests, NEW to \in Wallets \cup {None}, BeginTransfer(p, h, to)
        PROVE  Validated'
    BY <1>4, <1>t DEF TypeOK, BeginTransfer, Goto, Validated, Settling, InTransfer
  <1>5. ASSUME NEW p \in Requests, HoldLockWallet(p) PROVE Validated'
    BY <1>5, <1>t DEF TypeOK, Arg, HoldLockWallet, Goto, Validated, Settling, InTransfer
  <1>6. ASSUME NEW p \in Requests, LockHold(p) \/ ReleaseLedger(p) PROVE Validated'
    BY <1>6, <1>t DEF TypeOK, LockHold, ReleaseLedger, Goto, Validated, Settling, InTransfer
  <1>7. ASSUME NEW p \in Requests, TransferLockSource(p) PROVE Validated'
    BY <1>7, <1>t DEF TypeOK, TransferLockSource, Goto, Validated, Settling, InTransfer
  <1>8. ASSUME NEW p \in Requests, TransferLockRecipient(p) PROVE Validated'
    BY <1>8, <1>t DEF TypeOK, Arg, TransferLockRecipient, Goto, Validated, Settling, InTransfer
  <1>9. ASSUME NEW p \in Requests,
               \/ HoldRefuse(p) \/ HoldPlace(p) \/ ReleaseCommit(p) \/ TransferCommit(p)
               \/ \E answer \in Answers : Rollback(p, answer)
        PROVE  Validated'
    <2>1. PICK answer \in Answers : EndTx(p, answer)
      BY <1>9 DEF HoldRefuse, HoldPlace, ReleaseCommit, TransferCommit, Rollback, Commit, Answers
    <2> QED
      BY <1>0, <2>1
  <1> QED
    BY StepCases, <1>1, <1>2, <1>3, <1>4, <1>5, <1>6, <1>7, <1>8, <1>9 DEF Acts

\* A step of p does not move another handler.
LEMMA OthersStay ==
  ASSUME TypeOK, NEW p \in Requests, Acts(p)
  PROVE  \A q \in Requests \ {p} : pc'[q] = pc[q]
  <1>1. CASE \E answer \in Answers : EndTx(p, answer)
    BY <1>1, EndTxFrame
  <1>2. CASE \E where : Goto(p, where)
    BY <1>2 DEF Goto, TypeOK
  <1> QED
    BY <1>1, <1>2
    DEF Acts, BeginHold, BeginRelease, BeginTransfer, HoldLockWallet, LockHold, ReleaseLedger,
        TransferLockSource, TransferLockRecipient, HoldRefuse, HoldPlace, ReleaseCommit,
        TransferCommit, Rollback, Commit, Answers

\* A step of p leaves alone the hold that another handler is settling: the row is locked.
LEMMA OthersHoldKept ==
  ASSUME IInv, NEW p \in Requests, Acts(p), NEW q \in Requests \ {p}, pc[q] \in Settling
  PROVE  /\ pc'[q] = pc[q] /\ arg'[q] = arg[q] /\ seen'[q] = seen[q]
         /\ holds'[arg[q].hold] = holds[arg[q].hold]
         /\ holdLock'[arg[q].hold] = q
  <1>t. TypeOK /\ HoldRows
    BY DEF IInv, LockInv
  <1> DEFINE g == arg[q].hold
  <1>q. g \in Requests /\ holds[g].status = "active" /\ holdLock[g] = q
    BY SettledRow
  <1>n. q # None
    BY Constants
  <1>1. CASE \/ \E w \in Wallets \cup {None}, a \in Amounts : BeginHold(p, w, a)
             \/ \E h \in Requests : BeginRelease(p, h)
             \/ \E h \in Requests, to \in Wallets \cup {None} : BeginTransfer(p, h, to)
    BY <1>1, <1>t, <1>q DEF TypeOK, BeginHold, BeginRelease, BeginTransfer, Goto, tables, locks
  <1>2. CASE \/ HoldLockWallet(p) \/ LockHold(p) \/ ReleaseLedger(p)
             \/ TransferLockSource(p) \/ TransferLockRecipient(p)
    BY <1>2, <1>t, <1>q, <1>n
    DEF TypeOK, HoldLockWallet, LockHold, ReleaseLedger, TransferLockSource, TransferLockRecipient,
        Goto, tables
  <1>3. CASE \/ HoldRefuse(p) \/ HoldPlace(p) \/ ReleaseCommit(p) \/ TransferCommit(p)
             \/ \E answer \in Answers : Rollback(p, answer)
    <2>1. PICK answer \in Answers : EndTx(p, answer)
      BY <1>3 DEF HoldRefuse, HoldPlace, ReleaseCommit, TransferCommit, Rollback, Commit, Answers
    <2>2. /\ pc'[q] = pc[q] /\ arg'[q] = arg[q] /\ seen'[q] = seen[q]
          /\ holdLock'[g] = q
      BY <1>t, <1>q, <2>1, EndTxFrame
    <2>3. CASE HoldRefuse(p) \/ \E r \in Answers : Rollback(p, r)
      BY <2>2, <2>3 DEF HoldRefuse, Rollback, tables
    <2>4. CASE HoldPlace(p)
      <3>1. p # g
        <4>1. pc[p] \notin Answers
          BY <2>4 DEF HoldPlace, Answers
        <4> QED
          BY <1>t, <1>q, <4>1 DEF HoldRows
      <3> QED
        BY <1>t, <1>q, <2>2, <2>4, <3>1 DEF TypeOK, HoldPlace
    <2>5. CASE ReleaseCommit(p) \/ TransferCommit(p)
      <3>1. arg[p].hold # g
        BY <1>q, <2>5, SettledRow DEF ReleaseCommit, TransferCommit, Settling, InTransfer
      <3>2. PICK s \in {"released", "transferred"} : holds' = [holds EXCEPT ![arg[p].hold].status = s]
        BY <2>5 DEF ReleaseCommit, TransferCommit
      <3> QED
        BY <1>t, <1>q, <2>2, <3>1, <3>2 DEF TypeOK
    <2> QED
      BY <1>3, <2>3, <2>4, <2>5
  <1> QED
    BY <1>1, <1>2, <1>3 DEF Acts

\* A hold is settled by a handler that has its row locked and found it active.
LEMMA HoldOwnedStep == IInv /\ [Next]_vars => HoldOwned'
  <1> SUFFICES ASSUME IInv, [Next]_vars PROVE HoldOwned'
    OBVIOUS
  <1>t. TypeOK /\ HoldOwned
    BY DEF IInv, LockInv
  <1>1. CASE UNCHANGED vars
    BY <1>1, <1>t DEF vars, tables, locks, HoldOwned, Active
  <1>2. ASSUME NEW p \in Requests, Acts(p) PROVE HoldOwned'
    <2> DEFINE Owned(q) == /\ pc'[q] \in Settling => holdLock'[arg'[q].hold] = q /\ holds'[arg'[q].hold].status = "active"
                           /\ pc'[q] \in InTransfer => arg'[q].wallet # holds'[arg'[q].hold].wallet
    <2>1. ASSUME NEW q \in Requests \ {p}, pc[q] \in Settling PROVE Owned(q)
      BY <1>2, <1>t, <2>1, OthersHoldKept DEF HoldOwned, Active, Settling
    <2>2. ASSUME NEW q \in Requests \ {p}, pc[q] \notin Settling PROVE Owned(q)
      <3>1. pc'[q] = pc[q]
        BY <1>2, <1>t, OthersStay
      <3> QED
        BY <2>2, <3>1 DEF Settling
    <2>3. Owned(p)
      <3>1. CASE \E answer \in Answers : EndTx(p, answer)
        BY <1>t, <3>1, EndTxFrame, PlacesApart DEF Settling
      <3>2. CASE \/ \E w \in Wallets \cup {None}, a \in Amounts : BeginHold(p, w, a)
                 \/ \E h \in Requests : BeginRelease(p, h)
                 \/ \E h \in Requests, to \in Wallets \cup {None} : BeginTransfer(p, h, to)
                 \/ HoldLockWallet(p)
        BY <3>2, <1>t DEF TypeOK, BeginHold, BeginRelease, BeginTransfer, HoldLockWallet, Goto,
                          Settling, InTransfer
      <3>3. CASE LockHold(p)
        <4>1. arg[p].hold \in Requests
          BY <3>3 DEF LockHold, IInv, LockInv, Validated
        <4>2. UNCHANGED holds /\ UNCHANGED arg /\ holdLock'[arg[p].hold] = p
          BY <3>3, <1>t, <4>1 DEF TypeOK, LockHold, tables
        <4>3. holds[arg[p].hold].status = "active"
          BY <3>3 DEF LockHold, HoldUnusable, Active
        <4>4. pc'[p] \in InTransfer => pc[p] = "transfer_select"
          BY <3>3, <1>t DEF TypeOK, LockHold, Goto, InTransfer
        <4>5. pc'[p] \in InTransfer => arg[p].wallet # holds[arg[p].hold].wallet
          BY <3>3, <4>4 DEF LockHold, HoldUnusable
        <4> QED
          BY <4>2, <4>3, <4>5
      <3>4. CASE ReleaseLedger(p) \/ TransferLockSource(p) \/ TransferLockRecipient(p)
        BY <3>4, <1>t DEF TypeOK, ReleaseLedger, TransferLockSource, TransferLockRecipient, Goto,
                          tables, HoldOwned, Active, Settling, InTransfer
      <3> QED
        BY <1>2, <3>1, <3>2, <3>3, <3>4
        DEF Acts, HoldRefuse, HoldPlace, ReleaseCommit, TransferCommit, Rollback, Commit, Answers
    <2> QED
      BY <2>1, <2>2, <2>3 DEF HoldOwned, Active
  <1> QED
    BY StepCases, <1>1, <1>2

\* A step of p leaves alone the wallet that another handler has locked.
LEMMA OthersWalletKept ==
  ASSUME IInv, NEW p \in Requests, Acts(p), NEW q \in Requests \ {p},
         NEW w \in Wallets, walletLock[w] = q
  PROVE  walletLock'[w] = q /\ balance'[w] = balance[w]
  <1>t. TypeOK
    BY DEF IInv
  <1>n. q # None
    BY Constants
  <1>1. CASE \/ \E v \in Wallets \cup {None}, a \in Amounts : BeginHold(p, v, a)
             \/ \E h \in Requests : BeginRelease(p, h)
             \/ \E h \in Requests, to \in Wallets \cup {None} : BeginTransfer(p, h, to)
             \/ LockHold(p) \/ ReleaseLedger(p)
    BY <1>1 DEF BeginHold, BeginRelease, BeginTransfer, LockHold, ReleaseLedger, tables, locks
  <1>2. CASE HoldLockWallet(p) \/ TransferLockSource(p) \/ TransferLockRecipient(p)
    BY <1>2, <1>t, <1>n
    DEF TypeOK, HoldLockWallet, TransferLockSource, TransferLockRecipient, Lockable, tables
  <1>3. CASE \/ HoldRefuse(p) \/ HoldPlace(p) \/ ReleaseCommit(p) \/ TransferCommit(p)
             \/ \E answer \in Answers : Rollback(p, answer)
    <2>1. PICK answer \in Answers : EndTx(p, answer)
      BY <1>3 DEF HoldRefuse, HoldPlace, ReleaseCommit, TransferCommit, Rollback, Commit, Answers
    <2>2. walletLock'[w] = q
      BY <1>t, <2>1, EndTxFrame
    <2>3. CASE \/ HoldRefuse(p) \/ HoldPlace(p) \/ ReleaseCommit(p)
               \/ \E r \in Answers : Rollback(p, r)
      BY <2>2, <2>3 DEF HoldRefuse, HoldPlace, ReleaseCommit, Rollback, tables
    <2>4. CASE TransferCommit(p)
      <3>1. walletLock[holds[arg[p].hold].wallet] = p /\ walletLock[arg[p].wallet] = p
        BY <2>4 DEF TransferCommit, IInv, LockInv, WalletsOwned
      <3> QED
        BY <1>t, <2>2, <2>4, <3>1 DEF TypeOK, TransferCommit
    <2> QED
      BY <1>3, <2>3, <2>4
  <1> QED
    BY <1>1, <1>2, <1>3 DEF Acts

\* What a transfer has read is protected until it commits: the wallets stay locked, and
\* the balances and the hold stay what they were.
LEMMA TransferStep == IInv /\ [Next]_vars => WalletsOwned' /\ TransferReadsCurrent'
  <1> SUFFICES ASSUME IInv, [Next]_vars PROVE WalletsOwned' /\ TransferReadsCurrent'
    OBVIOUS
  <1>t. TypeOK /\ WalletsOwned /\ TransferReadsCurrent
    BY DEF IInv, LockInv
  <1> DEFINE Reading(q) == q \in {"transfer_recipient", "transfer_commit"}
             Source(q)    == holds[arg[q].hold].wallet
             Locked(q) ==
               /\ Reading(pc[q]) => walletLock[Source(q)] = q
               /\ pc[q] = "transfer_commit" => walletLock[arg[q].wallet] = q
             Current(q) ==
               /\ Reading(pc[q]) => /\ holds[arg[q].hold].status = "active"
                                    /\ seen[q].balance = balance[Source(q)]
                                    /\ seen[q].balance >= holds[arg[q].hold].amount
               /\ pc[q] = "transfer_commit" => seen[q].recipient = balance[arg[q].wallet]
  <1>1. CASE UNCHANGED vars
    BY <1>1, <1>t DEF vars, tables, locks, WalletsOwned, TransferReadsCurrent, Active
  <1>2. ASSUME NEW p \in Requests, Acts(p) PROVE WalletsOwned' /\ TransferReadsCurrent'
    <2>1. ASSUME NEW q \in Requests \ {p} PROVE Locked(q)' /\ Current(q)'
      <3>1. CASE pc[q] \in Settling
        <4>1. /\ pc'[q] = pc[q] /\ arg'[q] = arg[q] /\ seen'[q] = seen[q]
              /\ holds'[arg[q].hold] = holds[arg[q].hold]
          BY <1>2, <3>1, OthersHoldKept
        <4>2. Locked(q) /\ Current(q)
          BY <1>t DEF WalletsOwned, TransferReadsCurrent, Active
        <4>3. Source(q) \in Wallets
          BY <3>1, SettledRow
        <4>4. pc[q] = "transfer_commit" => arg[q].wallet \in Wallets
          BY DEF IInv, LockInv, Validated
        <4>5. Reading(pc[q]) => walletLock'[Source(q)] = q /\ balance'[Source(q)] = balance[Source(q)]
          BY <1>2, <4>2, <4>3, OthersWalletKept
        <4>6. pc[q] = "transfer_commit" =>
                walletLock'[arg[q].wallet] = q /\ balance'[arg[q].wallet] = balance[arg[q].wallet]
          BY <1>2, <4>2, <4>4, OthersWalletKept
        <4> QED
          BY <4>1, <4>2, <4>5, <4>6
      <3>2. CASE pc[q] \notin Settling
        <4>1. pc'[q] = pc[q]
          BY <1>2, <1>t, OthersStay
        <4> QED
          BY <3>2, <4>1 DEF Settling, InTransfer
      <3> QED
        BY <3>1, <3>2
    <2>2. Locked(p)' /\ Current(p)'
      <3>1. CASE \E answer \in Answers : EndTx(p, answer)
        BY <1>t, <3>1, EndTxFrame, PlacesApart
      <3>2. CASE \/ \E w \in Wallets \cup {None}, a \in Amounts : BeginHold(p, w, a)
                 \/ \E h \in Requests : BeginRelease(p, h)
                 \/ \E h \in Requests, to \in Wallets \cup {None} : BeginTransfer(p, h, to)
                 \/ HoldLockWallet(p) \/ LockHold(p) \/ ReleaseLedger(p)
        <4>1. ~Reading(pc'[p])
          BY <3>2, <1>t
          DEF TypeOK, BeginHold, BeginRelease, BeginTransfer, HoldLockWallet, LockHold,
              ReleaseLedger, Goto
        <4> QED
          BY <4>1
      <3>3. CASE TransferLockSource(p)
        <4>1. Source(p) \in Wallets /\ holds[arg[p].hold].status = "active"
          BY <3>3, SettledRow DEF TransferLockSource, Settling, InTransfer
        <4>2. /\ pc'[p] = "transfer_recipient" /\ walletLock'[Source(p)] = p
              /\ seen'[p].balance = balance[Source(p)]
          BY <3>3, <1>t, <4>1 DEF TypeOK, Seen, TransferLockSource, Goto
        <4> QED
          BY <3>3, <4>1, <4>2 DEF TransferLockSource, tables
      <3>4. CASE TransferLockRecipient(p)
        <4>1. arg[p].wallet \in Wallets /\ pc[p] = "transfer_recipient"
          BY <3>4, <1>t DEF TypeOK, Arg, TransferLockRecipient
        <4>2. Locked(p) /\ Current(p)
          BY <1>t DEF WalletsOwned, TransferReadsCurrent, Active
        <4>3. /\ walletLock'[arg[p].wallet] = p
              /\ Source(p) \in Wallets => walletLock'[Source(p)] = p
          BY <3>4, <1>t, <4>1, <4>2 DEF TypeOK, TransferLockRecipient
        <4>4. /\ seen'[p].recipient = balance[arg[p].wallet]
              /\ seen'[p].balance = seen[p].balance
          BY <3>4, <1>t DEF TypeOK, Seen, TransferLockRecipient
        <4>5. Source(p) \in Wallets
          BY <4>1, SettledRow DEF Settling, InTransfer
        <4> QED
          BY <3>4, <4>1, <4>2, <4>3, <4>4, <4>5 DEF TransferLockRecipient, tables
      <3> QED
        BY <1>2, <3>1, <3>2, <3>3, <3>4
        DEF Acts, HoldRefuse, HoldPlace, ReleaseCommit, TransferCommit, Rollback, Commit, Answers
    <2> QED
      BY <2>1, <2>2 DEF WalletsOwned, TransferReadsCurrent, Active
  <1> QED
    BY StepCases, <1>1, <1>2

\* The invariant is inductive.
LEMMA IInvStep == IInv /\ [Next]_vars => IInv'
  BY TypeStep, HoldRowsStep, ValidatedStep, HoldOwnedStep, TransferStep DEF IInv, LockInv

\* Every reachable state satisfies it.
THEOREM Invariance == Spec => []IInv
  <1>1. Init => IInv
    BY InitIInv
  <1>2. IInv /\ [Next]_vars => IInv'
    BY IInvStep
  <1> QED
    BY <1>1, <1>2, PTL DEF Spec

\* Types: every table, lock and local variable holds what it is declared to hold; in
\* particular no balance goes below zero (TransferFunds writes a difference).
THEOREM TypeCorrect == Spec => []TypeOK
  BY Invariance, PTL DEF IInv

\* The reads of TransferFunds (handler.go:267-313) are current when it writes.
THEOREM ReadsCurrent == Spec => []TransferReadsCurrent
  BY Invariance, PTL DEF IInv, LockInv

-----------------------------------------------------------------------------
\* A committed hold is an atomic Place, whatever snapshot the handler compared with.
LEMMA PlaceRefines ==
  ASSUME IInv, NEW p \in Requests, HoldPlace(p)
  PROVE  /\ arg[p].wallet \in Wallets /\ AbstractEscrow!Place(p, arg[p].wallet, arg[p].amount)
         /\ AbstractEscrow!Next
  <1>1. pc[p] = "hold_commit" /\ pc[p] \notin Answers
    BY DEF HoldPlace, Answers
  <1>2. arg[p].wallet \in Wallets /\ arg[p].amount \in Amounts
    BY <1>1 DEF IInv, LockInv, Validated
  <1>3. holds[p] = AbstractEscrow!NoHold
    BY <1>1 DEF IInv, LockInv, HoldRows, NoHold, AbstractEscrow!NoHold
  <1>4. AbstractEscrow!Place(p, arg[p].wallet, arg[p].amount)
    BY <1>3 DEF HoldPlace, AbstractEscrow!Place
  <1> QED
    BY <1>2, <1>4 DEF AbstractEscrow!Next

\* A committed release is an atomic Release of a hold that is still active.
LEMMA ReleaseRefines ==
  ASSUME IInv, NEW p \in Requests, ReleaseCommit(p)
  PROVE  AbstractEscrow!Release(arg[p].hold) /\ AbstractEscrow!Next
  <1>1. arg[p].hold \in Requests /\ holds[arg[p].hold].status = "active"
    BY SettledRow DEF ReleaseCommit, Settling
  <1>2. AbstractEscrow!Release(arg[p].hold)
    BY <1>1 DEF ReleaseCommit, AbstractEscrow!Release
  <1> QED
    BY <1>1, <1>2 DEF AbstractEscrow!Next

\* A committed transfer is an atomic Settle: the balances it writes are the current ones
\* less and plus the amount, because what it read is current.
LEMMA TransferRefines ==
  ASSUME IInv, NEW p \in Requests, TransferCommit(p)
  PROVE  /\ arg[p].wallet \in Wallets /\ AbstractEscrow!Settle(arg[p].hold, arg[p].wallet)
         /\ AbstractEscrow!Next
  <1> DEFINE h == arg[p].hold
             a == holds[h].amount
             from == holds[h].wallet
             to == arg[p].wallet
  <1>1. h \in Requests /\ holds[h].status = "active" /\ from \in Wallets
    BY SettledRow DEF TransferCommit, Settling, InTransfer
  <1>2. to \in Wallets
    BY DEF TransferCommit, IInv, LockInv, Validated
  <1>3. to # from
    BY DEF TransferCommit, IInv, LockInv, HoldOwned, Settling, InTransfer
  <1>4. /\ seen[p].balance = balance[from] /\ seen[p].recipient = balance[to]
        /\ balance[from] >= a
    BY DEF TransferCommit, IInv, LockInv, TransferReadsCurrent
  <1>5. balance' = [balance EXCEPT ![from] = seen[p].balance - a, ![to] = seen[p].recipient + a]
    BY DEF TransferCommit
  <1>6. balance' = [balance EXCEPT ![from] = @ - a, ![to] = @ + a]
    BY <1>3, <1>4, <1>5 DEF IInv, TypeOK
  <1>7. AbstractEscrow!Settle(h, to)
    BY <1>1, <1>3, <1>4, <1>6 DEF TransferCommit, AbstractEscrow!Settle
  <1> QED
    BY <1>1, <1>2, <1>7 DEF AbstractEscrow!Next

\* Every step of the service is a step of the escrow, or changes no balance and no hold.
LEMMA StepRefines == IInv /\ [Next]_vars => [AbstractEscrow!Next]_AbstractEscrow!vars
  <1> SUFFICES ASSUME IInv, [Next]_vars
               PROVE  AbstractEscrow!Next \/ UNCHANGED <<balance, holds>>
    BY DEF AbstractEscrow!vars
  <1>1. CASE UNCHANGED vars
    BY <1>1 DEF vars, tables
  <1>2. ASSUME NEW p \in Requests, HoldPlace(p) PROVE AbstractEscrow!Next
    BY <1>2, PlaceRefines
  <1>3. ASSUME NEW p \in Requests, ReleaseCommit(p) PROVE AbstractEscrow!Next
    BY <1>3, ReleaseRefines
  <1>4. ASSUME NEW p \in Requests, TransferCommit(p) PROVE AbstractEscrow!Next
    BY <1>4, TransferRefines
  <1>5. ASSUME NEW p \in Requests, Acts(p), ~HoldPlace(p), ~ReleaseCommit(p), ~TransferCommit(p)
        PROVE  UNCHANGED <<balance, holds>>
    BY <1>5 DEF Acts, BeginHold, BeginRelease, BeginTransfer, HoldLockWallet, HoldRefuse, LockHold,
                ReleaseLedger, TransferLockSource, TransferLockRecipient, Rollback, tables
  <1> QED
    BY StepCases, <1>1, <1>2, <1>3, <1>4, <1>5

\* The payments service implements the escrow: whatever the interleaving of its
\* transactions (handler.go:44-374), the committed rows go through atomic holds, releases
\* and transfers, a hold is settled at most once, and a transfer moves its exact amount.
THEOREM Refinement == Spec => ImplementsEscrow
  <1>1. Init => AbstractEscrow!Init
    BY DEF Init, NoHold, AbstractEscrow!Init, AbstractEscrow!NoHold
  <1>2. IInv /\ [Next]_vars => [AbstractEscrow!Next]_AbstractEscrow!vars
    BY StepRefines
  <1> QED
    BY <1>1, <1>2, Invariance, PTL DEF Spec, ImplementsEscrow, AbstractEscrow!Spec

-----------------------------------------------------------------------------
\* An announcement adds one event, about one hold.
LEMMA AnnounceTells ==
  ASSUME NEW p, NEW type, NEW g, Announce(p, type, g), NEW h, NEW t
  PROVE  /\ g = h /\ type = t => Told(h, t)' = Told(h, t) \cup {[by |-> p, type |-> type, hold |-> g]}
         /\ g # h \/ type # t => Told(h, t)' = Told(h, t)
  BY DEF Announce, Told

\* What is told about hold h in the three events' order.
Tells(h, status) ==
  /\ ToldOnceIff(h, "payment.held", status # "none")
  /\ ToldOnceIff(h, "payment.released", status = "released")
  /\ ToldOnceIff(h, "payment.transferred", status = "transferred")

\* A hold that a step neither changes nor announces anything about is told as before.
LEMMA ToldAsBefore ==
  ASSUME EventsTellHolds, NEW h \in Requests, holds'[h].status = holds[h].status,
         \A t : Told(h, t)' = Told(h, t)
  PROVE  Tells(h, holds[h].status)'
  BY DEF EventsTellHolds, Tells, ToldOnceIff

\* The event is inserted in the transaction that creates or settles the hold, and only then.
LEMMA EventsStep == IInv /\ EventsTellHolds /\ [Next]_vars => EventsTellHolds'
  <1> SUFFICES ASSUME IInv, EventsTellHolds, [Next]_vars PROVE EventsTellHolds'
    OBVIOUS
  <1>t. TypeOK /\ HoldRows
    BY DEF IInv, LockInv
  <1>0. ASSUME UNCHANGED <<holds, outbox>> PROVE EventsTellHolds'
    BY <1>0 DEF EventsTellHolds, ToldOnceIff, Told
  <1>1. CASE UNCHANGED vars
    BY <1>0, <1>1 DEF vars, tables
  <1>2. ASSUME NEW p \in Requests, Acts(p),
               ~HoldRefuse(p), ~HoldPlace(p), ~ReleaseCommit(p), ~TransferCommit(p)
        PROVE  EventsTellHolds'
    BY <1>0, <1>2 DEF Acts, BeginHold, BeginRelease, BeginTransfer, HoldLockWallet, LockHold,
                      ReleaseLedger, TransferLockSource, TransferLockRecipient, Rollback, tables
  <1>3. ASSUME NEW p \in Requests, HoldRefuse(p) PROVE EventsTellHolds'
    <2>1. ASSUME NEW h \in Requests PROVE Tells(h, holds[h].status)'
      <3>1. Announce(p, "payment.failed", None) /\ UNCHANGED holds
        BY <1>3 DEF HoldRefuse
      <3>2. None # h
        BY Constants
      <3>3. \A t : Told(h, t)' = Told(h, t)
        BY <3>1, <3>2, AnnounceTells
      <3> QED
        BY <3>1, <3>3, ToldAsBefore
    <2> QED
      BY <2>1 DEF EventsTellHolds, Tells
  <1>4. ASSUME NEW p \in Requests, HoldPlace(p) PROVE EventsTellHolds'
    <2> DEFINE e == [by |-> p, type |-> "payment.held", hold |-> p]
    <2>1. Announce(p, "payment.held", p) /\ e \in Event
      BY <1>4 DEF HoldPlace, Event, EventType
    <2>2. holds[p].status = "none"
      BY <1>4, <1>t DEF HoldPlace, HoldRows, Answers
    <2>3. holds'[p].status = "active" /\ \A h \in Requests \ {p} : holds'[h] = holds[h]
      BY <1>4, <1>t DEF TypeOK, HoldPlace
    <2>4. Told(p, "payment.held")' = {e}
      <3>1. Told(p, "payment.held") = {}
        BY <2>2 DEF EventsTellHolds, ToldOnceIff
      <3> QED
        BY <2>1, <3>1, AnnounceTells
    <2>5. Told(p, "payment.released")' = {} /\ Told(p, "payment.transferred")' = {}
      <3>1. Told(p, "payment.released") = {} /\ Told(p, "payment.transferred") = {}
        BY <2>2 DEF EventsTellHolds, ToldOnceIff
      <3> QED
        BY <2>1, <3>1, AnnounceTells
    <2>6. Tells(p, holds[p].status)'
      BY <2>1, <2>3, <2>4, <2>5 DEF Tells, ToldOnceIff
    <2>7. ASSUME NEW h \in Requests \ {p} PROVE Tells(h, holds[h].status)'
      BY <2>1, <2>3, AnnounceTells, ToldAsBefore
    <2> QED
      BY <2>6, <2>7 DEF EventsTellHolds, Tells
  <1>5. ASSUME NEW p \in Requests, ReleaseCommit(p) PROVE EventsTellHolds'
    <2>0. PICK g \in Requests : g = arg[p].hold /\ holds[g].status = "active"
      BY <1>5, SettledRow DEF ReleaseCommit, Settling
    <2> DEFINE e == [by |-> p, type |-> "payment.released", hold |-> g]
    <2>1. holds[g].status = "active"
      BY <2>0
    <2>2. Announce(p, "payment.released", g) /\ e \in Event
      BY <1>5, <2>0 DEF ReleaseCommit, Event, EventType
    <2>3. holds'[g].status = "released" /\ \A h \in Requests \ {g} : holds'[h] = holds[h]
      BY <1>5, <1>t, <2>0 DEF TypeOK, ReleaseCommit
    <2>4. Told(g, "payment.released")' = {e}
      <3>1. Told(g, "payment.released") = {}
        BY <2>1 DEF EventsTellHolds, ToldOnceIff
      <3> QED
        BY <2>2, <3>1, AnnounceTells
    <2>5. /\ Told(g, "payment.held")' = Told(g, "payment.held")
          /\ Told(g, "payment.transferred")' = Told(g, "payment.transferred")
      BY <2>2, AnnounceTells
    <2>6. Tells(g, holds[g].status)'
      BY <2>1, <2>2, <2>3, <2>4, <2>5 DEF EventsTellHolds, Tells, ToldOnceIff
    <2>7. ASSUME NEW h \in Requests \ {g} PROVE Tells(h, holds[h].status)'
      BY <2>2, <2>3, AnnounceTells, ToldAsBefore
    <2> QED
      BY <2>6, <2>7 DEF EventsTellHolds, Tells
  <1>6. ASSUME NEW p \in Requests, TransferCommit(p) PROVE EventsTellHolds'
    <2>0. PICK g \in Requests : g = arg[p].hold /\ holds[g].status = "active"
      BY <1>6, SettledRow DEF TransferCommit, Settling, InTransfer
    <2> DEFINE e == [by |-> p, type |-> "payment.transferred", hold |-> g]
    <2>1. holds[g].status = "active"
      BY <2>0
    <2>2. Announce(p, "payment.transferred", g) /\ e \in Event
      BY <1>6, <2>0 DEF TransferCommit, Event, EventType
    <2>3. holds'[g].status = "transferred" /\ \A h \in Requests \ {g} : holds'[h] = holds[h]
      BY <1>6, <1>t, <2>0 DEF TypeOK, TransferCommit
    <2>4. Told(g, "payment.transferred")' = {e}
      <3>1. Told(g, "payment.transferred") = {}
        BY <2>1 DEF EventsTellHolds, ToldOnceIff
      <3> QED
        BY <2>2, <3>1, AnnounceTells
    <2>5. /\ Told(g, "payment.held")' = Told(g, "payment.held")
          /\ Told(g, "payment.released")' = Told(g, "payment.released")
      BY <2>2, AnnounceTells
    <2>6. Tells(g, holds[g].status)'
      BY <2>1, <2>2, <2>3, <2>4, <2>5 DEF EventsTellHolds, Tells, ToldOnceIff
    <2>7. ASSUME NEW h \in Requests \ {g} PROVE Tells(h, holds[h].status)'
      BY <2>2, <2>3, AnnounceTells, ToldAsBefore
    <2> QED
      BY <2>6, <2>7 DEF EventsTellHolds, Tells
  <1> QED
    BY StepCases, <1>1, <1>2, <1>3, <1>4, <1>5, <1>6

\* The outbox tells every hold's history exactly once: no second settlement of a hold can
\* commit, whatever two handlers do to it at the same time.
THEOREM EventsTold == Spec => []EventsTellHolds
  <1>1. Init => EventsTellHolds
    BY DEF Init, NoHold, EventsTellHolds, ToldOnceIff, Told
  <1>2. IInv /\ EventsTellHolds /\ [Next]_vars => EventsTellHolds'
    BY EventsStep
  <1> QED
    BY <1>1, <1>2, Invariance, PTL DEF Spec

-----------------------------------------------------------------------------
(* To its caller a request is one atomic step. *)

AnswerOf(where) == IF where \in Answers THEN where ELSE "none"
Op     == [p \in Requests |-> OpOf(pc[p])]
Answer == [p \in Requests |-> AnswerOf(pc[p])]

\* A request that is asked is under way at an operation, and one that ends is not.
LEMMA PlacesAsk ==
  /\ \A where \in Answers : OpOf(where) = "none" /\ AnswerOf(where) = where
  /\ OpOf("idle") = "none" /\ AnswerOf("idle") = "none"
  /\ \A where \in {"hold_select", "hold_commit"} : OpOf(where) = "hold"
  /\ \A where \in {"release_select", "release_ledger", "release_commit"} : OpOf(where) = "release"
  /\ \A where \in {"transfer_select", "transfer_source", "transfer_recipient", "transfer_commit"} :
       OpOf(where) = "transfer"
  /\ \A where \in Selects \cup InTx : OpOf(where) # "none" /\ AnswerOf(where) = "none"
  <1>1. \A where \in Answers : OpOf(where) = "none" /\ AnswerOf(where) = where
    BY DEF Answers, OpOf, AnswerOf
  <1>2. OpOf("idle") = "none" /\ AnswerOf("idle") = "none"
    BY DEF Answers, OpOf, AnswerOf
  <1>3. \A where \in {"hold_select", "hold_commit"} : OpOf(where) = "hold"
    BY DEF OpOf
  <1>4. \A where \in {"release_select", "release_ledger", "release_commit"} : OpOf(where) = "release"
    BY DEF OpOf
  <1>5. \A where \in {"transfer_select", "transfer_source", "transfer_recipient", "transfer_commit"} :
          OpOf(where) = "transfer"
    BY DEF OpOf
  <1>6. \A where \in Selects \cup InTx : OpOf(where) # "none" /\ AnswerOf(where) = "none"
    BY <1>3, <1>4, <1>5 DEF Selects, InTx, Answers, AnswerOf
  <1> QED
    BY <1>1, <1>2, <1>3, <1>4, <1>5, <1>6

\* A step of p changes what p asks and is answered, and nothing of another request.
LEMMA OneAsks ==
  ASSUME TypeOK, NEW p \in Requests, Acts(p)
  PROVE  /\ Op' = [Op EXCEPT ![p] = OpOf(pc'[p])]
         /\ Answer' = [Answer EXCEPT ![p] = AnswerOf(pc'[p])]
  BY OthersStay DEF Op, Answer

\* The end of a transaction is the reply to its request.
LEMMA EndTxReplies ==
  ASSUME TypeOK, NEW p \in Requests, Acts(p), NEW answer \in Answers, EndTx(p, answer),
         pc[p] \in Selects \cup InTx
  PROVE  AtomicRequests!Reply(p, answer)
  <1>1. pc'[p] = answer
    BY DEF EndTx, Goto, TypeOK
  <1>2. Op[p] # "none"
    BY PlacesAsk DEF Op
  <1>3. Op' = [Op EXCEPT ![p] = "none"] /\ Answer' = [Answer EXCEPT ![p] = answer]
    BY <1>1, OneAsks, PlacesAsk
  <1>4. arg' = [arg EXCEPT ![p] = AtomicRequests!NoArg]
    BY DEF EndTx, NoArg, AtomicRequests!NoArg
  <1> QED
    BY <1>2, <1>3, <1>4 DEF AtomicRequests!Reply, Op, Answer, AnswerOf

\* A handler that starts is the request asked, with a body that it may have.
LEMMA BeginAsks ==
  ASSUME TypeOK, NEW p \in Requests, Begin(p)
  PROVE  AtomicRequests!RequestsNext
  <1>a. Acts(p)
    BY DEF Begin, Acts
  <1>1. pc[p] = "idle" /\ Op[p] = "none" /\ Answer[p] = "none"
    BY PlacesAsk DEF Begin, BeginHold, BeginRelease, BeginTransfer, Op, Answer
  <1>2. PICK where \in Selects : pc'[p] = where
    BY DEF Begin, BeginHold, BeginRelease, BeginTransfer, Goto, TypeOK, Selects
  <1>3. Op' = [Op EXCEPT ![p] = OpOf(where)] /\ Answer' = [Answer EXCEPT ![p] = "none"]
    BY <1>2, <1>a, OneAsks, PlacesAsk
  <1>4. Answer' = Answer
    BY <1>1, <1>3 DEF Answer
  <1>5. UNCHANGED <<balance, holds>>
    BY DEF Begin, BeginHold, BeginRelease, BeginTransfer, tables
  <1>6. PICK what \in {"hold", "release", "transfer"} :
          what = OpOf(where) /\ \E body \in AtomicRequests!Bodies(what) : arg' = [arg EXCEPT ![p] = body]
    <2>1. ASSUME NEW w \in Wallets \cup {None}, NEW a \in Amounts, BeginHold(p, w, a)
          PROVE  /\ [wallet |-> w, amount |-> a, hold |-> None] \in AtomicRequests!Bodies("hold")
                 /\ OpOf(where) = "hold"
                 /\ arg' = [arg EXCEPT ![p] = [wallet |-> w, amount |-> a, hold |-> None]]
      BY <2>1, <1>2, PlacesAsk DEF BeginHold, Goto, TypeOK, AtomicRequests!Bodies
    <2>2. ASSUME NEW h \in Requests, BeginRelease(p, h)
          PROVE  /\ [wallet |-> None, amount |-> 0, hold |-> h] \in AtomicRequests!Bodies("release")
                 /\ OpOf(where) = "release"
                 /\ arg' = [arg EXCEPT ![p] = [wallet |-> None, amount |-> 0, hold |-> h]]
      BY <2>2, <1>2, PlacesAsk DEF BeginRelease, Goto, TypeOK, AtomicRequests!Bodies
    <2>3. ASSUME NEW h \in Requests, NEW to \in Wallets \cup {None}, BeginTransfer(p, h, to)
          PROVE  /\ [wallet |-> to, amount |-> 0, hold |-> h] \in AtomicRequests!Bodies("transfer")
                 /\ OpOf(where) = "transfer"
                 /\ arg' = [arg EXCEPT ![p] = [wallet |-> to, amount |-> 0, hold |-> h]]
      BY <2>3, <1>2, PlacesAsk DEF BeginTransfer, Goto, TypeOK, AtomicRequests!Bodies
    <2> QED
      BY <2>1, <2>2, <2>3 DEF Begin
  <1>7. PICK body \in AtomicRequests!Bodies(what) : arg' = [arg EXCEPT ![p] = body]
    BY <1>6
  <1>8. AtomicRequests!Ask(p, what, body)
    BY <1>1, <1>3, <1>4, <1>5, <1>6, <1>7
    DEF AtomicRequests!Ask, AtomicRequests!vars, Op, Answer, AnswerOf
  <1> QED
    BY <1>8 DEF AtomicRequests!RequestsNext

\* A step in which a handler takes a lock or reads is not seen by any caller.
LEMMA LockStutters ==
  ASSUME TypeOK, NEW p \in Requests,
         \/ HoldLockWallet(p) \/ LockHold(p) \/ ReleaseLedger(p)
         \/ TransferLockSource(p) \/ TransferLockRecipient(p)
  PROVE  UNCHANGED <<balance, holds, Op, arg, Answer>>
  <1>a. Acts(p)
    BY DEF Acts
  <1>1. OpOf(pc'[p]) = OpOf(pc[p]) /\ AnswerOf(pc'[p]) = AnswerOf(pc[p])
    BY PlacesAsk DEF HoldLockWallet, LockHold, ReleaseLedger, TransferLockSource,
                     TransferLockRecipient, Goto, TypeOK, Selects, InTx
  <1>2. Op' = Op /\ Answer' = Answer
    BY <1>1, <1>a, OneAsks DEF Op, Answer
  <1> QED
    BY <1>2 DEF HoldLockWallet, LockHold, ReleaseLedger, TransferLockSource, TransferLockRecipient,
                tables

\* A commit does what was asked for and answers, or the answer is lost.
LEMMA CommitServes ==
  ASSUME IInv, NEW p \in Requests, HoldPlace(p) \/ ReleaseCommit(p) \/ TransferCommit(p)
  PROVE  AtomicRequests!Serve(p)
  <1>t. TypeOK /\ Acts(p)
    BY DEF IInv, Acts
  <1>1. PICK answer \in {"ok", "failed"} : EndTx(p, answer)
    BY DEF HoldPlace, ReleaseCommit, TransferCommit, Commit
  <1>2. pc[p] \in Selects \cup InTx
    BY DEF HoldPlace, ReleaseCommit, TransferCommit, InTx
  <1>3. AtomicRequests!Reply(p, answer)
    BY <1>t, <1>1, <1>2, EndTxReplies DEF Answers
  <1>4. CASE HoldPlace(p)
    <2>1. arg[p].wallet \in Wallets /\ AtomicRequests!Place(p, arg[p].wallet, arg[p].amount)
      BY <1>4, PlaceRefines
      DEF AbstractEscrow!Place, AtomicRequests!Place, AbstractEscrow!NoHold, AtomicRequests!NoHold
    <2>2. Op[p] = "hold"
      BY <1>4, PlacesAsk DEF HoldPlace, Op
    <2> QED
      BY <1>1, <1>3, <2>1, <2>2 DEF AtomicRequests!Serve, Op
  <1>5. CASE ReleaseCommit(p)
    <2>1. AtomicRequests!Release(arg[p].hold)
      BY <1>5, ReleaseRefines DEF AbstractEscrow!Release, AtomicRequests!Release
    <2>2. Op[p] = "release"
      BY <1>5, PlacesAsk DEF ReleaseCommit, Op
    <2> QED
      BY <1>1, <1>3, <2>1, <2>2 DEF AtomicRequests!Serve, Op
  <1>6. CASE TransferCommit(p)
    <2>1. arg[p].wallet \in Wallets /\ AtomicRequests!Settle(arg[p].hold, arg[p].wallet)
      BY <1>6, TransferRefines DEF AbstractEscrow!Settle, AtomicRequests!Settle
    <2>2. Op[p] = "transfer"
      BY <1>6, PlacesAsk DEF TransferCommit, Op
    <2> QED
      BY <1>1, <1>3, <2>1, <2>2 DEF AtomicRequests!Serve, Op
  <1> QED
    BY <1>4, <1>5, <1>6

\* A request is refused only when there is nothing to do, or is a hold.
LEMMA RefusalRefuses ==
  ASSUME TypeOK, NEW p \in Requests, EndTx(p, "refused"), UNCHANGED <<balance, holds>>, Acts(p),
         HoldRefuse(p) \/ RefuseHold(p) \/ WalletNotFound(p)
  PROVE  AtomicRequests!Refuse(p)
  <1>1. pc[p] \in Selects \cup InTx
    BY DEF HoldRefuse, RefuseHold, WalletNotFound, Selects, InTx
  <1>2. AtomicRequests!Reply(p, "refused")
    BY <1>1, EndTxReplies DEF Answers
  <1>3. Op[p] \in {"release", "transfer"} => AtomicRequests!Pointless(p)
    <2>1. CASE HoldRefuse(p)
      BY <2>1, PlacesAsk DEF HoldRefuse, Op
    <2>2. CASE RefuseHold(p)
      BY <2>2, PlacesAsk DEF RefuseHold, HoldUnusable, Active, Op, AtomicRequests!Pointless
    <2>3. CASE WalletNotFound(p)
      BY <2>3, PlacesAsk DEF WalletNotFound, Op, AtomicRequests!Pointless
    <2> QED
      BY <2>1, <2>2, <2>3
  <1> QED
    BY <1>2, <1>3 DEF AtomicRequests!Refuse, AtomicRequests!vars, Op

\* A request that fails without a commit is given up: it has changed nothing.
LEMMA FailureGivesUp ==
  ASSUME TypeOK, NEW p \in Requests, Acts(p), EndTx(p, "failed"), UNCHANGED <<balance, holds>>,
         pc[p] \in Selects \cup InTx
  PROVE  AtomicRequests!GiveUp(p)
  BY EndTxReplies DEF AtomicRequests!GiveUp, AtomicRequests!vars, Answers

\* Who waits for a lock is in the middle of a request.
LEMMA WaitingIsUnderWay ==
  ASSUME NEW p \in Requests, Blockers(p) # {}
  PROVE  pc[p] \in Selects \cup InTx
  BY DEF Blockers, Selects, InTx

\* Every step is one of the callers' steps, or none of them can tell.
LEMMA StepServes == IInv /\ [Next]_vars => [AtomicRequests!RequestsNext]_<<AtomicRequests!vars, AtomicRequests!calls>>
  <1> SUFFICES ASSUME IInv, [Next]_vars
               PROVE  AtomicRequests!RequestsNext \/ UNCHANGED <<balance, holds, Op, arg, Answer>>
    BY DEF AtomicRequests!vars, AtomicRequests!calls, Op, Answer, AnswerOf
  <1>t. TypeOK
    BY DEF IInv
  <1>1. CASE UNCHANGED vars
    BY <1>1 DEF vars, tables, Op, Answer
  <1>2. ASSUME NEW p \in Requests, Begin(p) PROVE AtomicRequests!RequestsNext
    BY <1>2, <1>t, BeginAsks
  <1>3. ASSUME NEW p \in Requests,
               \/ HoldLockWallet(p) \/ LockHold(p) \/ ReleaseLedger(p)
               \/ TransferLockSource(p) \/ TransferLockRecipient(p)
        PROVE  UNCHANGED <<balance, holds, Op, arg, Answer>>
    BY <1>3, <1>t, LockStutters
  <1>4. ASSUME NEW p \in Requests, HoldPlace(p) \/ ReleaseCommit(p) \/ TransferCommit(p)
        PROVE  AtomicRequests!RequestsNext
    BY <1>4, CommitServes DEF AtomicRequests!RequestsNext
  <1>5. ASSUME NEW p \in Requests,
               \/ HoldRefuse(p) \/ RefuseHold(p) \/ WalletNotFound(p)
               \/ TransferInvariantViolation(p) \/ DeadlockVictim(p) \/ Fail(p)
        PROVE  AtomicRequests!RequestsNext
    <2>1. UNCHANGED <<balance, holds>>
      BY <1>5 DEF HoldRefuse, RefuseHold, WalletNotFound, TransferInvariantViolation, DeadlockVictim,
                  Fail, Rollback, tables
    <2>2. pc[p] \in Selects \cup InTx
      BY <1>5, WaitingIsUnderWay
      DEF HoldRefuse, RefuseHold, WalletNotFound, TransferInvariantViolation, DeadlockVictim, Fail,
          Selects, InTx
    <2>3. Acts(p)
      BY <1>5 DEF Acts, RefuseHold, WalletNotFound, TransferInvariantViolation, DeadlockVictim, Fail,
                  Answers
    <2>4. CASE EndTx(p, "failed")
      BY <1>t, <2>1, <2>2, <2>3, <2>4, FailureGivesUp DEF AtomicRequests!RequestsNext
    <2>5. CASE /\ EndTx(p, "refused")
               /\ HoldRefuse(p) \/ RefuseHold(p) \/ WalletNotFound(p)
      BY <1>t, <2>1, <2>3, <2>5, RefusalRefuses DEF AtomicRequests!RequestsNext
    <2> QED
      BY <1>5, <2>4, <2>5 DEF HoldRefuse, RefuseHold, WalletNotFound, TransferInvariantViolation,
                              DeadlockVictim, Fail, Rollback
  <1> QED
    BY <1>1, <1>2, <1>3, <1>4, <1>5 DEF Next, Step

\* To its callers the service is atomic requests: a hold, release or transfer that is
\* answered with success was done once and at one moment between call and answer, one that is
\* refused was not, and one that fails was done once or not at all, for any number of
\* requests that lock, wait, deadlock and fail in any order.
THEOREM RequestsAtomic == Spec => ImplementsRequests
  <1>1. Init => AtomicRequests!RequestsInit
    BY PlacesAsk
    DEF Init, NoHold, NoArg, AnswerOf, AtomicRequests!RequestsInit, AtomicRequests!Init,
        AtomicRequests!NoHold, AtomicRequests!NoArg
  <1>2. IInv /\ [Next]_vars =>
          [AtomicRequests!RequestsNext]_<<AtomicRequests!vars, AtomicRequests!calls>>
    BY StepServes
  <1> QED
    BY <1>1, <1>2, Invariance, PTL DEF Spec, ImplementsRequests, AtomicRequests!RequestsSpec

-----------------------------------------------------------------------------
(* Deadlocks. *)

\* Who has a lock: the converse of HoldOwned and WalletsOwned.  A lock is never left
\* behind by a request that is over, and one that waits for its second wallet has the first.
LocksOwned ==
  /\ \A q \in Requests, w \in Wallets : walletLock[w] = q =>
       /\ pc[q] \in {"hold_commit", "transfer_recipient", "transfer_commit"}
       /\ pc[q] = "transfer_recipient" => holds[arg[q].hold].wallet = w
  /\ \A q \in Requests, w \in Wallets : q \in walletShare[w] => pc[q] = "release_commit"
  /\ \A q, h \in Requests : holdLock[h] = q => pc[q] \in Settling

\* No step of p takes a lock for another request.
LEMMA OthersLockNothing ==
  ASSUME TypeOK, NEW p \in Requests, Acts(p), NEW q \in Requests \ {p}
  PROVE  /\ \A w \in Wallets : walletLock'[w] = q => walletLock[w] = q
         /\ \A w \in Wallets : q \in walletShare'[w] => q \in walletShare[w]
         /\ \A h \in Requests : holdLock'[h] = q => holdLock[h] = q
  <1>n. q # None
    BY Constants
  <1>1. CASE \E answer \in Answers : EndTx(p, answer)
    BY <1>1, <1>n DEF EndTx, TypeOK
  <1>2. CASE \/ \E w \in Wallets \cup {None}, a \in Amounts : BeginHold(p, w, a)
             \/ \E h \in Requests : BeginRelease(p, h)
             \/ \E h \in Requests, to \in Wallets \cup {None} : BeginTransfer(p, h, to)
    BY <1>2 DEF BeginHold, BeginRelease, BeginTransfer, locks
  <1>3. CASE HoldLockWallet(p) \/ TransferLockSource(p) \/ TransferLockRecipient(p)
    BY <1>3 DEF HoldLockWallet, TransferLockSource, TransferLockRecipient, TypeOK
  <1>4. CASE LockHold(p)
    BY <1>4 DEF LockHold, TypeOK
  <1>5. CASE ReleaseLedger(p)
    BY <1>5 DEF ReleaseLedger, TypeOK
  <1> QED
    BY <1>1, <1>2, <1>3, <1>4, <1>5
    DEF Acts, HoldRefuse, HoldPlace, ReleaseCommit, TransferCommit, Rollback, Commit, Answers

\* What LocksOwned says of one request.
Owns(q) ==
  /\ \A w \in Wallets : walletLock[w] = q =>
       /\ pc[q] \in {"hold_commit", "transfer_recipient", "transfer_commit"}
       /\ pc[q] = "transfer_recipient" => holds[arg[q].hold].wallet = w
  /\ \A w \in Wallets : q \in walletShare[w] => pc[q] = "release_commit"
  /\ \A h \in Requests : holdLock[h] = q => pc[q] \in Settling

\* A request that ends takes all its locks with it.
LEMMA EndTxFreesAll ==
  ASSUME TypeOK, NEW p \in Requests, NEW answer, EndTx(p, answer)
  PROVE  /\ \A w \in Wallets : walletLock'[w] # p /\ p \notin walletShare'[w]
         /\ \A h \in Requests : holdLock'[h] # p
  BY Constants DEF EndTx, TypeOK

\* A request takes a lock only where it then has it, and keeps it while it is there.
LEMMA OwnsStep ==
  ASSUME IInv, NEW p \in Requests, Acts(p), Owns(p)
  PROVE  Owns(p)'
  <1>t. TypeOK
    BY DEF IInv
  <1>1. CASE \E answer \in Answers : EndTx(p, answer)
    BY <1>1, <1>t, EndTxFreesAll DEF Owns
  <1>2. CASE \/ \E w \in Wallets \cup {None}, a \in Amounts : BeginHold(p, w, a)
             \/ \E h \in Requests : BeginRelease(p, h)
             \/ \E h \in Requests, to \in Wallets \cup {None} : BeginTransfer(p, h, to)
    BY <1>2 DEF BeginHold, BeginRelease, BeginTransfer, locks, Owns, Settling, InTransfer
  <1>3. CASE HoldLockWallet(p)
    BY <1>3, <1>t DEF HoldLockWallet, TypeOK, Goto, Owns, Settling, InTransfer
  <1>4. CASE LockHold(p)
    BY <1>4, <1>t DEF LockHold, TypeOK, Goto, Owns, Settling, InTransfer
  <1>5. CASE ReleaseLedger(p)
    BY <1>5, <1>t DEF ReleaseLedger, TypeOK, Goto, Owns, Settling, InTransfer
  <1>6. CASE TransferLockSource(p)
    <2>1. pc[p] = "transfer_source" /\ pc'[p] = "transfer_recipient" /\ UNCHANGED <<holds, arg>>
      BY <1>6, <1>t DEF TransferLockSource, TypeOK, Goto, tables
    <2>2. \A w \in Wallets : walletLock'[w] = p => w = holds[arg[p].hold].wallet
      BY <1>6, <1>t, <2>1 DEF TransferLockSource, TypeOK, Owns
    <2>3. UNCHANGED <<walletShare, holdLock>>
      BY <1>6 DEF TransferLockSource
    <2> QED
      BY <2>1, <2>2, <2>3 DEF Owns, Settling, InTransfer
  <1>7. CASE TransferLockRecipient(p)
    BY <1>7, <1>t DEF TransferLockRecipient, TypeOK, Goto, Owns, Settling, InTransfer
  <1> QED
    BY <1>1, <1>2, <1>3, <1>4, <1>5, <1>6, <1>7
    DEF Acts, HoldRefuse, HoldPlace, ReleaseCommit, TransferCommit, Rollback, Commit, Answers

\* The locks are owned after every step.
LEMMA LocksOwnedStep == IInv /\ LocksOwned /\ [Next]_vars => LocksOwned'
  <1> SUFFICES ASSUME IInv, LocksOwned, [Next]_vars PROVE LocksOwned'
    OBVIOUS
  <1>t. TypeOK
    BY DEF IInv
  <1>1. CASE UNCHANGED vars
    BY <1>1 DEF vars, tables, locks, LocksOwned
  <1>2. ASSUME NEW p \in Requests, Acts(p) PROVE LocksOwned'
    <2>1. Owns(p)'
      BY <1>2, OwnsStep DEF LocksOwned, Owns
    <2>2. ASSUME NEW q \in Requests \ {p} PROVE Owns(q)'
      <3>1. Owns(q) /\ pc'[q] = pc[q]
        BY <1>2, <1>t, OthersStay DEF LocksOwned, Owns
      <3>2. pc[q] = "transfer_recipient" => holds'[arg'[q].hold] = holds[arg[q].hold]
        BY <1>2, OthersHoldKept DEF Settling, InTransfer
      <3> QED
        BY <1>2, <1>t, <3>1, <3>2, OthersLockNothing DEF Owns
    <2> QED
      BY <2>1, <2>2 DEF LocksOwned, Owns
  <1> QED
    BY StepCases, <1>1, <1>2

\* A request that waits can only be where it waits, and not where it only commits.
WaitsForWallet == {"hold_select", "release_ledger", "transfer_source", "transfer_recipient"}
WaitsForHold   == {"release_select", "transfer_select"}
LEMMA WaitingPlaces ==
  ASSUME NEW p \in Requests, Blockers(p) # {}
  PROVE  pc[p] \in WaitsForWallet \cup WaitsForHold
  BY DEF Blockers, WaitsForWallet, WaitsForHold

\* Who blocks a request that waits for its hold is settling that hold.
LEMMA HoldBlockers ==
  ASSUME IInv, LocksOwned, NEW p \in Requests, pc[p] \in WaitsForHold, NEW q \in Blockers(p)
  PROVE  q \in Requests /\ pc[q] \in Settling
  <1>1. q \in Requests /\ holdLock[arg[p].hold] = q
    BY DEF Blockers, WaitsForHold
  <1>2. arg[p].hold \in Requests
    BY DEF IInv, LockInv, Validated, WaitsForHold
  <1> QED
    BY <1>1, <1>2 DEF LocksOwned

\* Who blocks a request that waits for a wallet has that wallet locked, or is committing a
\* release.
WalletOf(p) == IF pc[p] \in {"release_ledger", "transfer_source"} THEN holds[arg[p].hold].wallet
               ELSE arg[p].wallet
LEMMA WalletBlockers ==
  ASSUME IInv, LocksOwned, NEW p \in Requests, pc[p] \in WaitsForWallet, NEW q \in Blockers(p)
  PROVE  /\ q \in Requests \ {p}
         /\ \/ /\ pc[q] \in {"hold_commit", "transfer_recipient", "transfer_commit"}
               /\ pc[q] = "transfer_recipient" => holds[arg[q].hold].wallet = WalletOf(p)
            \/ pc[q] = "release_commit"
  <1>1. WalletOf(p) \in Wallets
    <2>1. CASE pc[p] \in {"release_ledger", "transfer_source"}
      BY <2>1, SettledRow DEF WalletOf, Settling, InTransfer
    <2>2. CASE pc[p] \in {"hold_select", "transfer_recipient"}
      BY <2>2 DEF Blockers, WalletOf, IInv, TypeOK, Arg
    <2> QED
      BY <2>1, <2>2 DEF WaitsForWallet
  <1>2. q \in Requests \ {p} /\ (walletLock[WalletOf(p)] = q \/ q \in walletShare[WalletOf(p)])
    BY <1>1 DEF Blockers, WalletOf, WaitsForWallet, IInv, TypeOK
  <1> QED
    BY <1>1, <1>2 DEF LocksOwned

\* In a ring of requests that wait for one another, a wallet is only ever waited for
\* because another transfer in the ring pays out of it.
LEMMA RingOfTransfers ==
  ASSUME IInv, LocksOwned, NEW ring \in SUBSET Requests,
         \A r \in ring : Blockers(r) \cap ring # {},
         NEW p \in ring, pc[p] \in WaitsForWallet
  PROVE  \E q \in ring \ {p} : pc[q] = "transfer_recipient" /\ holds[arg[q].hold].wallet = WalletOf(p)
  <1>1. PICK q \in ring : q \in Blockers(p)
    OBVIOUS
  <1>2. pc[q] \in WaitsForWallet \cup WaitsForHold
    BY WaitingPlaces
  <1>3. /\ q \in Requests \ {p}
        /\ \/ /\ pc[q] \in {"hold_commit", "transfer_recipient", "transfer_commit"}
              /\ pc[q] = "transfer_recipient" => holds[arg[q].hold].wallet = WalletOf(p)
           \/ pc[q] = "release_commit"
    BY <1>1, WalletBlockers
  <1> QED
    BY <1>1, <1>2, <1>3 DEF WaitsForWallet, WaitsForHold

\* So a ring has two transfers that cross: follow who waits for whom from any member.
LEMMA RingCrosses == IInv /\ LocksOwned => DeadlockIsCrossing
  <1> SUFFICES ASSUME IInv, LocksOwned PROVE DeadlockIsCrossing
    OBVIOUS
  <1>1. ASSUME NEW p \in Requests, NEW q \in Blockers(p) PROVE pc[q] \in InTx
    <2>1. pc[p] \in WaitsForWallet \cup WaitsForHold
      BY WaitingPlaces
    <2>2. CASE pc[p] \in WaitsForHold
      BY <2>2, HoldBlockers DEF Settling, InTransfer, InTx
    <2>3. CASE pc[p] \in WaitsForWallet
      BY <2>3, WalletBlockers DEF InTx
    <2> QED
      BY <2>1, <2>2, <2>3
  <1>2. ASSUME NEW ring \in SUBSET Requests, ring # {}, \A r \in ring : Blockers(r) \cap ring # {}
        PROVE  \E p, q \in ring : Waited(p, q)
    <2>1. PICK p \in ring : TRUE
      BY <1>2
    <2>2. PICK s \in ring : pc[s] \in WaitsForWallet
      <3>1. CASE pc[p] \in WaitsForWallet
        BY <3>1
      <3>2. CASE pc[p] \in WaitsForHold
        <4>1. PICK q \in ring : q \in Blockers(p)
          BY <1>2
        <4>2. pc[q] \in Settling
          BY <3>2, <4>1, HoldBlockers
        <4>3. pc[q] \in WaitsForWallet \cup WaitsForHold
          BY <1>2, WaitingPlaces
        <4> QED
          BY <4>2, <4>3 DEF Settling, InTransfer, WaitsForWallet, WaitsForHold
      <3> QED
        BY <1>2, <3>1, <3>2, WaitingPlaces
    <2>3. PICK r \in ring : pc[r] = "transfer_recipient"
      BY <1>2, <2>2, RingOfTransfers
    <2>4. PICK q \in ring \ {r} : /\ pc[q] = "transfer_recipient"
                                  /\ holds[arg[q].hold].wallet = WalletOf(r)
      BY <1>2, <2>3, RingOfTransfers DEF WaitsForWallet
    <2>5. Waited(r, q)
      BY <2>3, <2>4 DEF Waited, WalletOf
    <2> QED
      BY <2>5
  <1> QED
    BY <1>1, <1>2 DEF DeadlockIsCrossing

\* Deadlocks are crossed transfers (handler.go:290-313), however many requests hold, release
\* and transfer at once: the order hold, then source, then recipient leaves no other ring.
THEOREM DeadlocksCross == Spec => []DeadlockIsCrossing
  <1>1. Init => LocksOwned
    BY Constants DEF Init, LocksOwned
  <1>2. IInv /\ LocksOwned /\ [Next]_vars => LocksOwned'
    BY LocksOwnedStep
  <1>3. IInv /\ LocksOwned => DeadlockIsCrossing
    BY RingCrosses
  <1> QED
    BY <1>1, <1>2, <1>3, Invariance, PTL DEF Spec

UnderWay == {p \in Requests : pc[p] \in Selects \cup InTx}
NeverStuck ==
  \/ UnderWay = {}
  \/ \E p \in UnderWay : Blockers(p) = {}
  \/ /\ \E p, q \in UnderWay : Waited(p, q)
     /\ \A p \in UnderWay : Blockers(p) \cap UnderWay # {}

\* Of the requests under way one waits for nobody, or two of them are transfers that cross,
\* and then the deadlock detector has a ring to break: the service never stands still with
\* requests under way, however many there are.
THEOREM SomeoneMoves == Spec => []NeverStuck
  <1>1. IInv /\ LocksOwned => NeverStuck
    <2> SUFFICES ASSUME IInv, LocksOwned, UnderWay # {}, \A p \in UnderWay : Blockers(p) # {}
                 PROVE  /\ \E p, q \in UnderWay : Waited(p, q)
                        /\ \A p \in UnderWay : Blockers(p) \cap UnderWay # {}
      BY DEF NeverStuck
    <2>1. DeadlockIsCrossing
      BY RingCrosses
    <2>2. ASSUME NEW p \in UnderWay PROVE Blockers(p) \cap UnderWay # {}
      <3>1. PICK q \in Blockers(p) : TRUE
        OBVIOUS
      <3>2. p \in Requests /\ pc[p] \in WaitsForWallet \cup WaitsForHold
        BY WaitingPlaces DEF UnderWay
      <3>3. q \in Requests
        BY <3>2, HoldBlockers, WalletBlockers
      <3>4. pc[q] \in InTx
        BY <2>1, <3>2 DEF DeadlockIsCrossing
      <3> QED
        BY <3>1, <3>3, <3>4 DEF UnderWay
    <2>3. UnderWay \in SUBSET Requests
      BY DEF UnderWay
    <2>4. \E p, q \in UnderWay : Waited(p, q)
      BY <2>1, <2>2, <2>3 DEF DeadlockIsCrossing
    <2> QED
      BY <2>2, <2>4
  <1>2. Init => LocksOwned
    BY Constants DEF Init, LocksOwned
  <1>3. IInv /\ LocksOwned /\ [Next]_vars => LocksOwned'
    BY LocksOwnedStep
  <1> QED
    BY <1>1, <1>2, <1>3, Invariance, PTL DEF Spec
=============================================================================
