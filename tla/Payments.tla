------------------------------ MODULE Payments ------------------------------
(***************************************************************************)
(* The payments service: concurrent HoldFunds, ReleaseFunds and            *)
(* TransferFunds requests, each one PostgreSQL transaction under READ      *)
(* COMMITTED.  A transaction's own writes are invisible until it commits,  *)
(* so they happen in its commit step; what other transactions can notice   *)
(* before that, its row locks and the moment it reads, are steps of their  *)
(* own.                                                                    *)
(*                                                                         *)
(* A request is identified with the fresh uuid the database would give the *)
(* hold it creates, so holds are indexed by the request that made them.    *)
(***************************************************************************)
EXTENDS Integers, FiniteSetsExt

CONSTANTS Requests,        \* HTTP requests, and the ids of the holds they create
          Wallets,         \* wallet ids
          Amounts,         \* amounts a request may ask for
          OpeningBalance,  \* the balances the wallets are seeded with
          None             \* no lock owner; an id that names no row

ASSUME PaymentsAssumption ==
  /\ Amounts \subseteq Nat \ {0}
  /\ OpeningBalance \in [Wallets -> Nat]
  /\ None \notin Requests \cup Wallets
  /\ IsFiniteSet(Wallets)  \* the rows of a table

VARIABLES
  balance,      \* wallets.balance, as committed
  holds,        \* the holds table, as committed
  ledger,       \* the transactions table: rows tagged with the request that wrote them
  outbox,       \* the outbox table: events tagged with the request that wrote them
  walletLock,   \* owner of the FOR UPDATE lock on a wallet row
  walletShare,  \* owners of the FOR KEY SHARE lock on a wallet row (foreign key checks)
  holdLock,     \* owner of the FOR UPDATE lock on a hold row
  pc,           \* where each handler is
  arg,          \* the request's body
  seen          \* what the handler has read: a snapshot of holds and two balances

tables == <<balance, holds, ledger, outbox>>
locks  == <<walletLock, walletShare, holdLock>>
vars   == <<tables, locks, pc, arg, seen>>

-----------------------------------------------------------------------------
(* Rows and requests. *)

NoHold == [status |-> "none", wallet |-> None, amount |-> 0]

Active(h) == holds[h].status = "active"

ActiveHolds(w) == {h \in Requests : Active(h) /\ holds[h].wallet = w}

\* COALESCE(SUM(amount), 0); the amount of a hold never changes.
Total(hs) == MapThenSumSet(LAMBDA h : holds[h].amount, hs)

Answers  == {"ok", "refused", "failed"}
Selects  == {"hold_select", "release_select", "transfer_select"}
InTx     == {"hold_commit", "release_ledger", "release_commit",
             "transfer_source", "transfer_recipient", "transfer_commit"}
PCs      == {"idle"} \cup Selects \cup InTx \cup Answers

NoArg  == [wallet |-> None, amount |-> 0, hold |-> None]
NoSeen == [held |-> {}, balance |-> 0, recipient |-> 0]

Arg  == [wallet : Wallets \cup {None}, amount : Amounts \cup {0}, hold : Requests \cup {None}]
Seen == [held : SUBSET Requests, balance : Nat, recipient : Nat]

LedgerType == {"hold", "hold_failed", "release", "transfer_debit", "transfer_credit"}
\* Event types are written without the prefix "payments." of their stream's subjects.
EventType  == {"payment.held", "payment.failed", "payment.released", "payment.transferred"}

LedgerRow == [by : Requests, type : LedgerType, wallet : Wallets,
              hold : Requests \cup {None}, amount : Int]
Event     == [by : Requests, type : EventType, hold : Requests \cup {None}]

TypeOK ==
  /\ balance \in [Wallets -> Nat]
  /\ holds \in [Requests -> [status : {"none", "active", "released", "transferred"},
                             wallet : Wallets \cup {None}, amount : Amounts \cup {0}]]
  /\ ledger \subseteq LedgerRow
  /\ outbox \subseteq Event
  /\ walletLock \in [Wallets -> Requests \cup {None}]
  /\ walletShare \in [Wallets -> SUBSET Requests]
  /\ holdLock \in [Requests -> Requests \cup {None}]
  /\ pc \in [Requests -> PCs]
  /\ arg \in [Requests -> Arg]
  /\ seen \in [Requests -> Seen]

Init ==
  /\ balance = OpeningBalance
  /\ holds = [h \in Requests |-> NoHold]
  /\ ledger = {} /\ outbox = {}
  /\ walletLock = [w \in Wallets |-> None]
  /\ walletShare = [w \in Wallets |-> {}]
  /\ holdLock = [h \in Requests |-> None]
  /\ pc = [p \in Requests |-> "idle"]
  /\ arg = [p \in Requests |-> NoArg]
  /\ seen = [p \in Requests |-> NoSeen]

-----------------------------------------------------------------------------
(* Transactions. *)

Goto(p, where) == pc' = [pc EXCEPT ![p] = where]

\* Mutant: a path that ends the request without the deferred Rollback.
EndTxLeaky(p, answer) ==
  /\ Goto(p, answer)
  /\ UNCHANGED <<walletLock, walletShare>>
  /\ holdLock' = [h \in Requests |-> IF holdLock[h] = p THEN None ELSE holdLock[h]]
  /\ arg' = [arg EXCEPT ![p] = NoArg]
  /\ seen' = [seen EXCEPT ![p] = NoSeen]

\* Commit or roll back: every row lock of the transaction is released and the
\* handler answers; its local variables are gone.
EndTx(p, answer) ==
  /\ Goto(p, answer)
  /\ walletLock' = [w \in Wallets |-> IF walletLock[w] = p THEN None ELSE walletLock[w]]
  /\ walletShare' = [w \in Wallets |-> walletShare[w] \ {p}]
  /\ holdLock' = [h \in Requests |-> IF holdLock[h] = p THEN None ELSE holdLock[h]]
  /\ arg' = [arg EXCEPT ![p] = NoArg]
  /\ seen' = [seen EXCEPT ![p] = NoSeen]

\* The answer after COMMIT was sent: the connection may break before the
\* acknowledgement, and then the handler answers 500 though the rows are there.
Commit(p) == \E answer \in {"ok", "failed"} : EndTx(p, answer)

Rollback(p, answer) == EndTx(p, answer) /\ UNCHANGED tables

\* FOR UPDATE waits for every lock another transaction has on the row, FOR KEY SHARE
\* only for FOR UPDATE.
Lockable(p, w) == walletLock[w] \in {None, p} /\ walletShare[w] \subseteq {p}

Record(rows)  == ledger' = ledger \cup rows
Announce(p, type, h) == outbox' = outbox \cup {[by |-> p, type |-> type, hold |-> h]}

-----------------------------------------------------------------------------
(* HoldFunds. *)

\* The SELECT ... FOR UPDATE OF w takes its snapshot: the active holds it will
\* add up are those of now, before the statement waits for the wallet's row lock.
BeginHold(p, w, a) ==
  /\ pc[p] = "idle"
  /\ Goto(p, "hold_select")
  /\ arg' = [arg EXCEPT ![p] = [wallet |-> w, amount |-> a, hold |-> None]]
  /\ seen' = [seen EXCEPT ![p].held = ActiveHolds(w)]
  /\ UNCHANGED <<tables, locks>>

\* The row lock is granted.  The balance is that of the row's latest version;
\* the held sum is still that of the snapshot.
HoldLockWallet(p) ==
  LET w == arg[p].wallet IN
  /\ pc[p] = "hold_select"
  /\ w # None
  /\ Lockable(p, w)
  /\ walletLock' = [walletLock EXCEPT ![w] = p]
  /\ seen' = [seen EXCEPT ![p].balance = balance[w]]
  /\ Goto(p, "hold_commit")
  /\ UNCHANGED <<tables, walletShare, holdLock, arg>>

\* Mutant: the balance is compared without subtracting the active holds.
AvailableIgnoresHolds(p) == seen[p].balance

Available(p) == seen[p].balance - Total(seen[p].held)

\* Mutant: a hold of all there is left is refused.
HoldRefuseOffByOne(p) ==
  /\ pc[p] = "hold_commit"
  /\ Available(p) <= arg[p].amount
  /\ Record({[by |-> p, type |-> "hold_failed", wallet |-> arg[p].wallet,
              hold |-> None, amount |-> -arg[p].amount]})
  /\ Announce(p, "payment.failed", None)
  /\ \E answer \in {"refused", "failed"} : EndTx(p, answer)
  /\ UNCHANGED <<balance, holds>>

\* Insufficient funds: a hold_failed row and a payment.failed event, answer 422.
HoldRefuse(p) ==
  /\ pc[p] = "hold_commit"
  /\ Available(p) < arg[p].amount
  /\ Record({[by |-> p, type |-> "hold_failed", wallet |-> arg[p].wallet,
              hold |-> None, amount |-> -arg[p].amount]})
  /\ Announce(p, "payment.failed", None)
  /\ \E answer \in {"refused", "failed"} : EndTx(p, answer)
  /\ UNCHANGED <<balance, holds>>

\* The hold, its ledger row and the payment.held event are committed together.
HoldPlace(p) ==
  /\ pc[p] = "hold_commit"
  /\ Available(p) >= arg[p].amount
  /\ holds' = [holds EXCEPT ![p] = [status |-> "active", wallet |-> arg[p].wallet,
                                    amount |-> arg[p].amount]]
  /\ Record({[by |-> p, type |-> "hold", wallet |-> arg[p].wallet,
              hold |-> p, amount |-> -arg[p].amount]})
  /\ Announce(p, "payment.held", p)
  /\ Commit(p)
  /\ UNCHANGED balance

-----------------------------------------------------------------------------
(* Locking the hold, common to ReleaseFunds and TransferFunds. *)

\* Mutant: a release takes its wallet before its hold.
BeginReleaseWalletFirst(p, h) ==
  LET w == holds[h].wallet IN
  /\ pc[p] = "idle"
  /\ Goto(p, "release_select")
  /\ arg' = [arg EXCEPT ![p] = [wallet |-> None, amount |-> 0, hold |-> h]]
  /\ IF w # None
     THEN walletLock[w] = None /\ walletShare' = [walletShare EXCEPT ![w] = @ \cup {p}]
     ELSE UNCHANGED walletShare
  /\ UNCHANGED <<tables, walletLock, holdLock, seen>>

BeginRelease(p, h) ==
  /\ pc[p] = "idle"
  /\ Goto(p, "release_select")
  /\ arg' = [arg EXCEPT ![p] = [wallet |-> None, amount |-> 0, hold |-> h]]
  /\ UNCHANGED <<tables, locks, seen>>

BeginTransfer(p, h, to) ==
  /\ pc[p] = "idle"
  /\ Goto(p, "transfer_select")
  /\ arg' = [arg EXCEPT ![p] = [wallet |-> to, amount |-> 0, hold |-> h]]
  /\ UNCHANGED <<tables, locks, seen>>

\* No such hold (404), a hold already settled (409), or a transfer to the wallet
\* the money is in (400).
HoldUnusable(p) ==
  \/ ~Active(arg[p].hold)
  \/ pc[p] = "transfer_select" /\ holds[arg[p].hold].wallet = arg[p].wallet

RefuseHold(p) ==
  /\ pc[p] \in {"release_select", "transfer_select"}
  /\ holdLock[arg[p].hold] = None
  /\ HoldUnusable(p)
  /\ Rollback(p, "refused")

\* Mutant: the hold is read without FOR UPDATE.
LockHoldPlainRead(p) ==
  /\ pc[p] \in {"release_select", "transfer_select"}
  /\ ~HoldUnusable(p)
  /\ Goto(p, IF pc[p] = "release_select" THEN "release_ledger" ELSE "transfer_source")
  /\ UNCHANGED <<tables, locks, arg, seen>>

LockHold(p) ==
  LET h == arg[p].hold IN
  /\ pc[p] \in {"release_select", "transfer_select"}
  /\ holdLock[h] = None
  /\ ~HoldUnusable(p)
  /\ holdLock' = [holdLock EXCEPT ![h] = p]
  /\ Goto(p, IF pc[p] = "release_select" THEN "release_ledger" ELSE "transfer_source")
  /\ UNCHANGED <<tables, walletLock, walletShare, arg, seen>>

-----------------------------------------------------------------------------
(* ReleaseFunds. *)

\* The ledger row's foreign key takes FOR KEY SHARE on the wallet, and so waits
\* for a HoldFunds or TransferFunds that has the wallet locked.
ReleaseLedger(p) ==
  LET w == holds[arg[p].hold].wallet IN
  /\ pc[p] = "release_ledger"
  /\ walletLock[w] = None
  /\ walletShare' = [walletShare EXCEPT ![w] = @ \cup {p}]
  /\ Goto(p, "release_commit")
  /\ UNCHANGED <<tables, walletLock, holdLock, arg, seen>>

ReleaseCommit(p) ==
  LET h == arg[p].hold IN
  /\ pc[p] = "release_commit"
  /\ holds' = [holds EXCEPT ![h].status = "released"]
  /\ Record({[by |-> p, type |-> "release", wallet |-> holds[h].wallet,
              hold |-> h, amount |-> holds[h].amount]})
  /\ Announce(p, "payment.released", h)
  /\ Commit(p)
  /\ UNCHANGED balance

-----------------------------------------------------------------------------
(* TransferFunds. *)

\* Mutant: the balance check after the lock is missing.
TransferLockSourceUnchecked(p) ==
  LET w == holds[arg[p].hold].wallet IN
  /\ pc[p] = "transfer_source"
  /\ Lockable(p, w)
  /\ walletLock' = [walletLock EXCEPT ![w] = p]
  /\ seen' = [seen EXCEPT ![p].balance = balance[w]]
  /\ Goto(p, "transfer_recipient")
  /\ UNCHANGED <<tables, walletShare, holdLock, arg>>

\* The source row is locked and its balance read; a balance below the amount is
\* the "balance invariant violation", answered 500.
TransferLockSource(p) ==
  LET w == holds[arg[p].hold].wallet IN
  /\ pc[p] = "transfer_source"
  /\ Lockable(p, w)
  /\ balance[w] >= holds[arg[p].hold].amount
  /\ walletLock' = [walletLock EXCEPT ![w] = p]
  /\ seen' = [seen EXCEPT ![p].balance = balance[w]]
  /\ Goto(p, "transfer_recipient")
  /\ UNCHANGED <<tables, walletShare, holdLock, arg>>

TransferInvariantViolation(p) ==
  LET w == holds[arg[p].hold].wallet IN
  /\ pc[p] = "transfer_source"
  /\ Lockable(p, w)
  /\ balance[w] < holds[arg[p].hold].amount
  /\ Rollback(p, "failed")

\* Mutant: the recipient balance is read without FOR UPDATE.
TransferReadRecipient(p) ==
  LET w == arg[p].wallet IN
  /\ pc[p] = "transfer_recipient"
  /\ w # None
  /\ seen' = [seen EXCEPT ![p].recipient = balance[w]]
  /\ Goto(p, "transfer_commit")
  /\ UNCHANGED <<tables, locks, arg>>

TransferLockRecipient(p) ==
  LET w == arg[p].wallet IN
  /\ pc[p] = "transfer_recipient"
  /\ w # None
  /\ Lockable(p, w)
  /\ walletLock' = [walletLock EXCEPT ![w] = p]
  /\ seen' = [seen EXCEPT ![p].recipient = balance[w]]
  /\ Goto(p, "transfer_commit")
  /\ UNCHANGED <<tables, walletShare, holdLock, arg>>

\* Both balances are written from what was read, not from the rows.
TransferCommit(p) ==
  LET h == arg[p].hold
      a == holds[h].amount
      from == holds[h].wallet
      to == arg[p].wallet IN
  /\ pc[p] = "transfer_commit"
  /\ balance' = [balance EXCEPT ![from] = seen[p].balance - a,
                                ![to] = seen[p].recipient + a]
  /\ holds' = [holds EXCEPT ![h].status = "transferred"]
  /\ Record({[by |-> p, type |-> "transfer_debit", wallet |-> from, hold |-> h, amount |-> -a],
             [by |-> p, type |-> "transfer_credit", wallet |-> to, hold |-> h, amount |-> a]})
  /\ Announce(p, "payment.transferred", h)
  /\ Commit(p)

-----------------------------------------------------------------------------
(* Error paths common to the three handlers. *)

\* The wallet a request names does not exist (404).
WalletNotFound(p) ==
  /\ pc[p] \in {"hold_select", "transfer_recipient"}
  /\ arg[p].wallet = None
  /\ Rollback(p, "refused")

\* The requests whose locks p waits for.
Blockers(p) ==
  LET updater(w) == {q \in Requests \ {p} : walletLock[w] = q}
      lockers(w) == updater(w) \cup (walletShare[w] \ {p})
      h == arg[p].hold IN
  CASE pc[p] = "hold_select" /\ arg[p].wallet # None -> lockers(arg[p].wallet)
    [] pc[p] \in {"release_select", "transfer_select"} -> {q \in Requests : holdLock[h] = q}
    [] pc[p] = "release_ledger" -> updater(holds[h].wallet)
    [] pc[p] = "transfer_source" -> lockers(holds[h].wallet)
    [] pc[p] = "transfer_recipient" /\ arg[p].wallet # None -> lockers(arg[p].wallet)
    [] OTHER -> {}

\* PostgreSQL's deadlock detector aborts one of the transactions that wait for
\* one another; the handler answers 500.
DeadlockVictim(p) ==
  /\ \E ring \in SUBSET Requests :
       p \in ring /\ \A q \in ring : Blockers(q) \cap ring # {}
  /\ Rollback(p, "failed")

\* Mutant: the error of COMMIT is not looked at.
FailUnnoticed(p) ==
  /\ pc[p] \in Selects \cup InTx
  /\ Rollback(p, "ok")

\* A statement fails, the client goes away or the process dies: the deferred
\* Rollback, or the lost connection, undoes the transaction.
Fail(p) ==
  /\ pc[p] \in Selects \cup InTx
  /\ Rollback(p, "failed")

Begin(p) ==
  \/ \E w \in Wallets \cup {None}, a \in Amounts : BeginHold(p, w, a)
  \/ \E h \in Requests : BeginRelease(p, h)
  \/ \E h \in Requests, to \in Wallets \cup {None} : BeginTransfer(p, h, to)

Step(p) ==
  \/ HoldLockWallet(p) \/ HoldRefuse(p) \/ HoldPlace(p)
  \/ RefuseHold(p) \/ LockHold(p)
  \/ ReleaseLedger(p) \/ ReleaseCommit(p)
  \/ TransferLockSource(p) \/ TransferInvariantViolation(p)
  \/ TransferLockRecipient(p) \/ TransferCommit(p)
  \/ WalletNotFound(p) \/ DeadlockVictim(p)

Next == \E p \in Requests : Begin(p) \/ Step(p) \/ Fail(p)

Spec == Init /\ [][Next]_vars

\* Go schedules every handler and PostgreSQL grants locks and breaks deadlocks,
\* so a begun request keeps moving.  Nothing obliges a client to send one.
Fairness == \A p \in Requests : WF_vars(Step(p))
FairSpec == Spec /\ Fairness

-----------------------------------------------------------------------------
(* What must hold. *)

\* Every balance is the opening balance plus what the transactions table says
\* was transferred in and out: no concurrent pair of transfers loses an update
\* (both balances are read, held in variables and written back, handler.go:290-325),
\* and no balance moves without its two ledger rows.
BalanceIsLedger ==
  \A w \in Wallets :
    balance[w] = OpeningBalance[w] +
      MapThenSumSet(LAMBDA row : row.amount,
                    {row \in ledger : /\ row.wallet = w
                                     /\ row.type \in {"transfer_debit", "transfer_credit"}})

Told(h, type) == {e \in outbox : e.hold = h /\ e.type = type}
ToldOnceIff(h, type, fact) ==
  IF fact THEN \E e \in Event : Told(h, type) = {e} ELSE Told(h, type) = {}

\* The events about a hold tell its history, each exactly once and nothing more:
\* held when it exists, then released or transferred according to its status.
\* Two settlements of the same hold would leave both, or one of them twice.
EventsTellHolds ==
  \A h \in Requests :
    /\ ToldOnceIff(h, "payment.held", holds[h].status # "none")
    /\ ToldOnceIff(h, "payment.released", holds[h].status = "released")
    /\ ToldOnceIff(h, "payment.transferred", holds[h].status = "transferred")

\* What TransferFunds has read is still what the rows say when it writes them:
\* the two wallets and the hold stay as they were read until the commit, with
\* every other handler running.
TransferReadsCurrent ==
  \A p \in Requests :
    LET h == arg[p].hold IN
    /\ pc[p] \in {"transfer_recipient", "transfer_commit"} =>
         /\ Active(h)
         /\ seen[p].balance = balance[holds[h].wallet]
         /\ seen[p].balance >= holds[h].amount
    /\ pc[p] = "transfer_commit" => seen[p].recipient = balance[arg[p].wallet]

\* Money that is set aside is there: a wallet's active holds never add up to more
\* than its balance.
Headroom(w) == balance[w] - Total(ActiveHolds(w))
NoOverdraft == \A w \in Wallets : Headroom(w) >= 0

\* Two holds placed at once are the only way to an overdraft: a step that takes a
\* wallet below zero, or further below it, commits a hold whose snapshot missed
\* a hold that is active now.  No release and no transfer does it, however they
\* interleave with holds, and no hold that added up all there is (handler.go:73).
OverdraftOnlyByRace ==
  [][\A w \in Wallets :
       Headroom(w)' < 0 /\ Headroom(w)' < Headroom(w) =>
         \E p \in Requests : /\ arg[p].wallet = w
                             /\ pc[p] = "hold_commit" /\ pc'[p] # pc[p]
                             /\ ~(ActiveHolds(w) \subseteq seen[p].held)]_vars

\* The other side of the same race: a hold is refused, though its wallet has enough left,
\* only if its snapshot counted a hold that has been settled since.  A hold of exactly
\* what is left is granted, and nothing a refused or failed request did is counted.
RefusedOnlyByRace ==
  [][\A p \in Requests :
       /\ pc[p] = "hold_commit" /\ pc'[p] = "refused"
       /\ Headroom(arg[p].wallet) >= arg[p].amount
       => ~(seen[p].held \subseteq ActiveHolds(arg[p].wallet))]_vars

\* Money is neither made nor lost: whatever is held, released and transferred at the same
\* time, the wallets together have what they opened with.
MoneyConserved ==
  MapThenSumSet(LAMBDA w : balance[w], Wallets) = MapThenSumSet(LAMBDA w : OpeningBalance[w], Wallets)

\* Requests that wait for one another in a ring are transfers that cross: in every such
\* ring one transfer waits to pay into the wallet that another one in it pays out of
\* (handler.go:290-313).  No hold and no release is ever needed for a deadlock, and nobody
\* waits for a request that is over: its locks went with it.
Waited(p, q) ==
  /\ p # q /\ pc[p] = "transfer_recipient" /\ pc[q] = "transfer_recipient"
  /\ arg[p].wallet = holds[arg[q].hold].wallet
DeadlockIsCrossing ==
  /\ \A p \in Requests : \A q \in Blockers(p) : pc[q] \in InTx
  /\ \A ring \in SUBSET Requests :
       ring # {} /\ (\A p \in ring : Blockers(p) \cap ring # {}) => \E p, q \in ring : Waited(p, q)

\* Every request that begins is answered, crossed transfers included.
Answered == \A p \in Requests : (pc[p] # "idle") ~> (pc[p] \in Answers)

\* The service implements Escrow: with every interleaving, what the committed
\* tables go through is a sequence of atomic holds, releases and transfers.
AbstractEscrow == INSTANCE Escrow WITH HoldIds <- Requests
ImplementsEscrow == AbstractEscrow!Spec

\* To its callers each request is one atomic step between call and answer, and the answer
\* tells whether it was taken: what EscrowRequests promises.
OpOf(where) ==
  CASE where \in {"hold_select", "hold_commit"} -> "hold"
    [] where \in {"release_select", "release_ledger", "release_commit"} -> "release"
    [] where \in {"transfer_select", "transfer_source", "transfer_recipient", "transfer_commit"} -> "transfer"
    [] OTHER -> "none"
AtomicRequests ==
  INSTANCE EscrowRequests
    WITH HoldIds <- Requests, op <- [p \in Requests |-> OpOf(pc[p])],
         answer <- [p \in Requests |-> IF pc[p] \in Answers THEN pc[p] ELSE "none"]
ImplementsRequests == AtomicRequests!RequestsSpec
=============================================================================
