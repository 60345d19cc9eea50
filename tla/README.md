# hire-flow in TLA+

Specifications of the parts of hire-flow where money and events cross
transactions, processes and services: the payments service, the saga of the
contracts service, the transactional outbox that carries events between
services, the way from jobs-api's tables to ai-matching's vector index, the session
of a signed-in user in browser and BFF, and the life of the servers from start to
graceful shutdown with requests under way.  TLC checks them on small instances; TLAPS
proves most of the safety properties for every number of requests, wallets,
contracts, handlers, rows, publishers, items, pages, calls, servers and users.

## The system

| Component | State | Operations | Talks to |
|---|---|---|---|
| payments (`services/payments`, Go, PostgreSQL) | tables `wallets`, `holds`, `transactions`, `outbox` | `HoldFunds`, `ReleaseFunds`, `TransferFunds`, each one READ COMMITTED transaction with row locks; `GetWallet`, `ListWallets` read | called over HTTP by contracts; its outbox publisher feeds the PAYMENTS stream |
| contracts (`services/contracts`, Go, MySQL) | tables `contracts`, `milestones`, `outbox` | `CreateContract`, `AcceptContract`, `CompleteContract`, `CancelContract`, the handlers of `payment.held` and `payment.failed`, the consumer loop | calls payments over HTTP (10 s timeout); consumes PAYMENTS; its outbox publisher feeds CONTRACTS |
| outbox (`pkg/outbox`, and a copy for MySQL in contracts) | unpublished rows of an `outbox` table | `Insert` inside the caller's transaction; `PublishBatch` on a ticker: fetch with `FOR UPDATE SKIP LOCKED`, publish, mark, commit | NATS JetStream |
| JetStream (external) | streams PAYMENTS, CONTRACTS, JOBS; durable consumers | store, deliver, redeliver after Nak or the ack deadline | contracts, ai-matching |
| jobs-api (Go, PostgreSQL) | jobs, profiles, `outbox` | create and update a job or a profile, with an event in the same transaction | JOBS stream |
| ai-matching (Python, Qdrant) | the vector index | upsert from an event, match queries | consumes JOBS |
| BFF library and three BFFs (Go) | one rate limiter per user; no session: tokens are in cookies | login, refresh, token and role checks, rate limiting, forwarding, the admin's dashboard that asks three services at once | all services |
| main() of every Go server | context, listener, WaitGroup of publisher and consumer, pool and NATS connection | start, graceful shutdown on a signal or when the listener fails | its own handlers and goroutines |
| front ends (React) | per page: the user, one shared refresh promise; the browser's cookies | API client with refresh on 401, restore on load, login, logout | BFFs |
| telemetry, reverse proxy | none of the system's | exporters, routing | |

What is hard here, in order of what it could cost:

1. Money in one database and contract status in another, joined by HTTP calls
   that can time out after they took effect, and by events that can be late, early
   or repeated (`saga.go`, `payments_client.go`, `main.go`).
2. Row locks and statement snapshots under READ COMMITTED: what `HoldFunds` and
   `TransferFunds` read may be older than the lock they hold (`wallet_store.go:33-53`).
3. Transfers that cross, and the deadlocks they cause (`handler.go:290-313`).
4. Events are sent before their rows are marked, by several publishers, in batches
   (`publisher.go:59-90`).
5. Index updates that arrive in another order than the writes that caused them
   (jobs-api and ai-matching).
6. A refresh promise shared by concurrent requests of a page, and cookies shared by all
   pages; tokens that expire while requests are under way (`create-api-client.ts`,
   `auth.go`).
7. Shutdown with requests, batches and transactions under way, within ten seconds or
   not (`main.go` of each server).
8. The first requests of a user, which find no rate limiter; three goroutines that
   write one answer (`middleware.go`, `dashboard_handler.go`).

What makes each component correct:

- payments: no update of a balance is lost and no money appears or disappears; a hold
  is settled once; active holds stay within the balance; every begun request is answered,
  and is to its caller one atomic step; events and ledger rows tell exactly what happened.
- contracts: status and money never contradict each other; money goes one way only,
  to the freelancer under a contract both agreed to, or back under one that was not;
  every contract's history is announced once and in order; a contract whose money
  is held moves on; a retry settles.
- outbox: a row that is marked was sent; nothing is sent again except after a
  batch that did not commit or an answer that was lost; every committed row is
  eventually sent.
- jobs-api with ai-matching: an event carries what its transaction commits; only
  committed texts are indexed; with a consumer that is up, every item is indexed in the
  end unless its events were thrown away; and an index that stays behind has a failure or
  an overlap as its cause.
- front end and BFF: one refresh at a time, nothing takes effect twice, a session that
  is used does not end, and every call is settled.
- servers: whoever is told to stop exits, with no batch or transaction on a closed
  connection and no request cut off that was in time; a user has one rate limit; the
  BFF answers what it accepts.

## Modules

| Module | What it is |
|---|---|
| `Escrow` | abstract: wallets and holds with three atomic steps, `Place`, `Release`, `Settle` |
| `EscrowRequests` | abstract: `Escrow` behind requests, each asked, served in one step or not at all, and answered |
| `Payments` | the payments service: transactions, locks, snapshots, error paths; implements `Escrow` and `EscrowRequests` |
| `PaymentsMC` | TLC instances: symmetry, the workload of the runs |
| `PaymentsProofs` | theorems about `Payments` |
| `LedgerProofs` | what the rows of `Payments` add up to |
| `Engagement` | abstract: a contract as client and freelancer see it, proposed, agreed, paid, refunded or void |
| `ContractSaga` | the contracts service with payments reduced to its effect on one hold per contract; implements `Engagement`, and `Escrow` on the side of the money |
| `ContractSagaProofs` | theorems about `ContractSaga` |
| `Delivery` | abstract: at-least-once delivery of what was committed, with `Record`, `Deliver`, `Settle` |
| `Outbox` | `pkg/outbox` (and the MySQL copy): rows, locks, batches, several publishers; implements `Delivery` |
| `OutboxMC` | TLC instance: rows written in order, fairness |
| `OutboxProofs` | theorems about `Outbox` |
| `Catalog` | the write side of jobs-api: jobs, profiles, skills and their events |
| `Matching` | `Catalog` with its publisher, the JOBS stream, ai-matching's consumer and the index |
| `MatchingProofs` | theorems about `Catalog` and `Matching` |
| `IndexProofs` | why an index that stays behind has a cause, for `Matching` |
| `Session` | pages, cookies and tokens: the API client of the front ends and the BFF's authentication |
| `SessionMC` | TLC instance: two calls in one page, a second page |
| `SessionProofs` | theorems about `Session` |
| `Service` | main() of the Go servers: start, goroutines, graceful shutdown |
| `Gateway` | a BFF in front of its services, each of them as `Service` says: rate limiter, forwarding, dashboard |
| `GatewayMC` | TLC instance: one server leaves |
| `GatewayProofs` | theorems about `Service` and `Gateway` |

### Payments

One variable per table (`balance`, `holds`, `ledger`, `outbox`), one per kind of
row lock (`walletLock`, `walletShare`, `holdLock`), and per request its position
`pc`, its body `arg` and what it has read, `seen`.  A transaction's writes are
invisible until it commits, so they are all in its last step; the steps before it
are the ones other transactions can notice.

| Code | Actions |
|---|---|
| `HoldFunds` (handler.go:34-161) | `BeginHold` (the statement's snapshot), `HoldLockWallet` (the row lock is granted), `HoldRefuse` (422), `HoldPlace` (commit) |
| `ReleaseFunds` (163-243) | `BeginRelease`, `LockHold` or `RefuseHold` (404, 409), `ReleaseLedger` (the foreign key's lock on the wallet), `ReleaseCommit` |
| `TransferFunds` (245-394) | `BeginTransfer`, `LockHold` or `RefuseHold` (404, 409, 400), `TransferLockSource` or `TransferInvariantViolation` (500), `TransferLockRecipient`, `TransferCommit` |
| error returns | `WalletNotFound`, `Fail` (a statement error, a client that goes away, a process that dies), `Commit`'s answer `failed` (COMMIT took effect, its acknowledgement was lost) |
| PostgreSQL | `DeadlockVictim` on a cycle of `Blockers` (external) |

The central detail is in `GetByIDForUpdate` (wallet_store.go:33-53).  One statement
reads `w.balance` and the sum of the active holds and locks the wallet row with
`FOR UPDATE OF w`.  Under READ COMMITTED a statement that waits for a row lock
re-reads the locked row only; the sum over `holds` keeps the snapshot of the
statement's start.  Hence `BeginHold` records `held` and `HoldLockWallet` the balance.

`Escrow` says what the tables go through and nothing about who asked.  `EscrowRequests`
adds the callers: `op` and `arg` are what a request asks for, `answer` what it is told.
The refinement mapping takes `op` from `pc` (`OpOf`) and `answer` from the three final
positions, so a step that takes a lock or reads a row is no step at all for the caller.
"ok" then means done, "refused" not done, and of a release or a transfer that there was
nothing to do it to; "failed" leaves both open, as the code does where COMMIT errs.

### ContractSaga

`status`, `linked` (`hold_id` is set) and `announced` (the outbox rows) are the
contracts database; `pc`, `on`, `reply` the goroutines; `hold`, `payOutbox`
and `late` payments and the calls under way to it; `stream` and `inbox` JetStream
and the consumer.  Every short transaction of the code is one action.  A call has
three ends: served and answered (`PaymentsServes`), left by its caller
and served or dropped afterwards (`HoldErred` or `Die`, then
`PaymentsServesLate`), and refused.  A handler may die at every position.

| Code | Actions |
|---|---|
| `CreateContract` (saga.go:57-158) | `CreateInsert`, `HoldGranted` or `HoldErred`, `CreateLink`, `CreateCompensate` |
| `AcceptContract` (202-233) | `Accept` |
| `CompleteContract` (237-288) | `CompleteRead`, `CompleteMark`, `TransferReturned`, `CompleteFinish` |
| `CancelContract` (292-343) | `CancelRead`, `CancelMark`, `ReleaseReturned`, `CancelFinish` |
| `UpdateStatus` (contract_store.go:44-60) | `UpdateStatus`, the compare-and-set every step goes through |
| `runPaymentsConsumer` (main.go:164-219), `HandlePaymentHeld`, `HandlePaymentFailed` | `Consume`, `Ack`, `Redeliver` |
| payments' publisher | `Publish`, `PublishUnmarked` |

Payments is one atomic step per call here.  Two refinements meet to justify that:
`Payments` implements `EscrowRequests`, so a call takes effect in one step of `Escrow`
or not at all (`ImplementsRequests`), and what the saga's calls do to the money are steps
of the same `Escrow` (`PaymentsIsEscrow`).  `EscrowRequests` allows a hold to be refused at
any time, and so do `PaymentsServes` and `PaymentsServesLate`.  `Engagement` is what
remains of both services for the two people: `Stage` reads it off status and hold, and
the events, retries, announcements and intermediate statuses are steps they do not see.
A hold is named by its contract, and `HeldOnce` says why that is no loss: payments is asked to hold
at most once per contract, served or left behind, so there is never a second hold to tell
from the first.  Milestones are data inserted with the contract and are left out.

### Outbox

`row`, `created` and `clock` are the table, `owner` its row locks; `pc`, `scan`,
`todo` and `done` the loop of each publisher; `lost` the publishers whose database
connection is gone while they go on sending; `arrived` and `repeated` what JetStream
has stored; `past` and `doubted` are history, read by properties only.

| Code | Actions |
|---|---|
| `Insert` in the handler's transaction (store.go:14-24) | `Insert`, `EndInsert` (commit or rollback); `created_at` is fixed when the transaction begins |
| `FetchUnpublished` (store.go:26-44) | `Poll` (the statement's snapshot), `FetchRow` (lock, or skip), `Fetched` |
| the loop of `PublishBatch` (publisher.go:59-90) | `SendOk`, `SendError` (and the message may be stored all the same) |
| `MarkPublished` and COMMIT | `Commit` |
| what fails | `Fail` (an error before the COMMIT, a dead process), `LoseConnection` |

contracts' `outbox_publisher.go` is the same loop over MySQL.  Messages carry no
`Nats-Msg-Id`, so JetStream recognises no duplicates.

### Catalog and Matching

Requests are numbered in the order their transactions begin, which is the order of
`created_at`; each writes one event, named by it.  In `Catalog`, `columns` and
`links` are what is committed, `gone` and `added` what a transaction has deleted and
inserted, `payload` the snapshot its event carries.  In `Matching`, `marked`, `todo`
and `done` are one publisher (jobs-api runs one; `Outbox` has several), `queue` and
`back` the JOBS stream, `hand`, `fresh` and `up` the consumer, `index` the event each
vector was computed from; `late` and `lost` are history, read by properties only.

| Code | Actions |
|---|---|
| `JobHandler.Create`, `ProfileHandler.Create` | `Create` |
| `JobHandler.Update` (job_handler.go) | `Begin`, `UpdateJob` (the row lock and the latest version), `CommitJob` |
| `ProfileHandler.UpdateSkills` (profile_handler.go, profile_store.go) | `Begin`, `SelectLinks`, `DeleteLinks`, `InsertLink` for each skill, `TouchProfile` (the row lock), `ReadProfile` (for the event), `CommitSkills` |
| error returns | `Fail` |
| jobs-api's publisher | `Poll`, `SendOk`, `SendError`, `Mark`, `Abandon` |
| `NATSConsumer.run` (consumer.py:73-108) and its task (main.py:40-62) | `Subscribe` (connect and pull_subscribe succeed), `FetchMessages`, `Drop` (an error in the loop), `Stop` |
| `handle_message` (consumer.py:31-58) | `Upsert`, `Ack`, `Nak` (any other error), `Discard` (ValidationError, ValueError, KeyError) |
| `embed_batch` (api.py) | `BatchBegin` (the caller reads an item), `BatchUpsert` |

A message that is not acknowledged returns to `back` and is delivered before newer
ones, or after them, as its time comes.  Malformed JSON and unknown subjects are left out:
jobs-api writes none.  But the `try` of `handle_message` encloses the embedding and the
upsert too, so a ValueError, KeyError or ValidationError raised there, by the model or the
Qdrant client, is taken for an invalid payload: `Discard` acknowledges the message, with
the vector stored or not, and if not the event is in `lost`.

The consumer's task can end for good.  connect and pull_subscribe stand outside the loop's
`try`, nothing watches the task, and a client that gives up reconnecting lets every fetch
fail; the process and `/health` live on.  So `up` is false before the subscription, and
again after `Stop`, whether the process died or only its consumer.  `Subscribe` stands for
a process that is started, or started again, and gets as far as the loop; it need not
happen.  compose.yaml has ai-matching wait for NATS but not for jobs-api, which creates the
stream, and restarts nothing.  A call of `embed_batch` may outlive `Stop`; if it dies with
the process, that is `BatchUpsert` without effect.  Match queries change nothing.

### Session

`jar` holds the ages of the two tokens in the browser's cookies, shared by all
pages of a front end; `user`, `shared` (`refreshPromise`), `pc`, `body` and `waits` are a
page and its calls of `request()`; `net` the fetches under way, each with the cookies it
was sent with and, once answered, those the answer sets.  A token is its age: `Tick` makes
everything older, up to the lifetime at which it is refused.

| Code | Actions |
|---|---|
| `request()` (create-api-client.ts:24-62) | `Begin`, `Unauthorized` (start or join a refresh), `Refresh` (all awaiters go on in one turn of the event loop), `RefreshFailed`, `NetworkError`, `Finish` |
| `refreshToken()` (14-22) | the fetch `Unauthorized` sends, `RefreshOk` |
| `AuthState.restore` (auth-state.ts:12-33), `logout()`, `location.assign("/login")` | `Reload` (the promise and all calls are gone), `Restored` |
| `JWTMiddleware` (auth.go:32-74) and what is behind it | `HandleApi`: 401 before anything acts, or an answer, after an effect or not |
| `Login`, `Refresh`, `GenerateTokens`, `setTokenCookies` (auth.go:76-224) | `HandleLogin`, `HandleRefresh`, `Refreshed`, `Fresh`, `Answer` |
| browser (external) | cookies are sent as they are when the fetch starts (`Sent`) and stored before the page sees the answer (`Stored`) |

A refused login is a 401 too, so it goes through a refresh like any other, as in the code.
A network error may come before or after the BFF has acted.  `Refresh` stores the cookies
and sends the retry in one step, so no other page's answer comes between the two, as it may in a
browser.  A fetch sees at most one tick, and an access token lives three at least: 15 minutes are long for a fetch.

### Service and Gateway

In `Service`, `phase` is how far main() is, `done` the context, `down` a listener that
failed, `worker` the goroutines of the WaitGroup, `active` and `inTx` the requests in
handlers and those with a transaction open; `overdue`, `cut` and `cutTx` are history.
`Gateway` extends it: one of the servers is the BFF, and a request that the BFF let through
has a `part` for each service it calls.  `mu`, `limiters` and `tokens` are the rate
limiter.

| Code | Actions |
|---|---|
| main() up to the goroutines and the listener | `Start`, `StartFails` (every `os.Exit(1)`) |
| `signal.NotifyContext`, `stop()` | `Signal`, `ListenFails` |
| `Publisher.Run`, `runPaymentsConsumer` | `Work`, `Rest`, `Return` |
| `<-ctx.Done()`, `srv.Shutdown`, `wg.Wait()` | `Drain`, `Drained` or `GraceEnds`, `Join` |
| deferred closes, in reverse order | `Join` (NATS), `ClosePool`, `Exit` |
| net/http and handlers | `Accept`, `Leave`, `BeginTx`, `EndTx` |
| `JWTMiddleware`, `RequireRole` | `Arrive`, `Refuse` |
| `RateLimiter` (middleware.go:27-54) | `Lookup`, `Create` (under the mutex), `Allow`, `TooMany`; `Refill` is time |
| `ServiceClient.Do`, `Forward` (client.go), `Stats` (dashboard_handler.go:32-63) | `Reach`, `Reply`, `CallFails`, `Answer` |

`PoolWaits` are the servers on pgxpool, whose `Close` waits for every connection that
is in use; contracts is on database/sql, which closes under its users, and NoTransactionCut
says nothing about it.  A process that is killed does none of this: that is `Fail` in
`Payments` and `Outbox`, `Die` in `ContractSaga`, `Stop` and `Abandon` in `Matching`.

## Runs

| Run | Instance | Question |
|---|---|---|
| `payments_safety` | 2 holds, 2 settlements, 2 wallets, amounts 1 and 2, opening balance 2 | no lost update of a balance; holds settled once and told once; the service implements `EscrowRequests`: each request is one step of `Escrow` or none, as its answer says; a wallet is overdrawn only by two overlapping holds, and a hold with enough behind it is refused only because of one settled meanwhile; requests that wait in a ring are crossed transfers; every begun request is answered |
| `payments_overdraft` | the same | **violated**: active holds stay within the balance |
| `saga_safety` | 1 contract, 3 handlers | status and money agree; the outbox tells a history once, in order; a hold is asked for once; a contract's life is that of `Engagement` and its money moves as in `Escrow`; `payment.held` gets its contract out of HOLD_PENDING |
| `saga_retry` | 1 contract, 1 handler | **violated**: a retry settles, also after a lost answer |
| `saga_orphan_hold` | 1 contract, 1 handler | **violated**: a cancelled contract holds no money |
| `saga_failed_events` | 1 contract, 1 handler | **violated**: every `payment.failed` is acknowledged in the end |
| `outbox_safety` | 3 rows, one of them never accepted, 2 publishers, batches of 2 | publishers with a live connection never share a row; messages are repeated only where something failed; cause before effect; the outbox implements `Delivery`; every committed row that can be accepted is sent and marked in the end |
| `matching_safety` | 3 requests, 1 job, 1 profile, 1 column, 1 skill | events carry what is committed; only committed texts are indexed, under their own item; a stale vector has a failure, an overlap or an event thrown away as its cause |
| `matching_liveness` | 2 requests, 1 job, 1 profile | every created item is indexed in the end, if the consumer is up for good and not all events about the item were thrown away |
| `matching_follows` | as `matching_safety` | **violated**: when nothing is under way and no event was thrown away, the index shows what the tables hold |
| `session_safety` | 2 pages, 2 calls in one of them, one of which may be a login, lifetimes of 3 and 4 ticks | one refresh at a time; no effect twice; a retry is authorized; a session that is used goes on; every call is settled |
| `gateway_safety` | a BFF, payments with its publisher and contracts with its consumer, a dashboard request and one for payments, one user, burst of 1 | nothing works on a closed connection; what is cut off was overdue and had no transaction; one budget per user; an answer is final; a server that is told to stop exits; every request is answered |

**Bounds.**
*Payments*: the opening balance of 2 with amounts 1 and 2 makes a hold that fits
alone and not together with another.  Four requests are the fewest with two holds and
two settlements, hence with transfers that cross, with a release that races a
transfer of the same hold, and with a hold that races both.  A third wallet adds no
conflict that two do not have: a transaction touches at most two.  `payments_safety`
checks liveness too, where symmetry would be unsound, and fixes who holds and who settles
instead (`TwoAndTwo`); `payments_overdraft` uses the symmetry of requests and wallets.
*Saga*: three handlers on one contract give every race of create, accept, complete,
cancel and a retry.  Two contracts meet only in the consumer's hand, and the theorems
hold for any number of them.
*Outbox*: two publishers are the fewest that can take each other's rows, and three
rows do not fit into one batch of two, so a batch may be full, leave rows behind and
skip rows.  The row that is never accepted is the first to be written, one less than a
batch: as many as a batch would block everything, as `EveryRowPublished` says.  Rows are
begun one after the other (`InOrder`) and committed in any order.
*Matching*: three requests are a creation and two overlapping updates of one item, the
fewest that can be indexed in the wrong order.  The consumer fetches two messages at
most, so it may be stopped with one finished and one not; the stream has room
for two unacknowledged messages (`InFlight`, a bound of the model) and one text is on
its way through `embed_batch` (likewise).  `Faults` bounds the events something went wrong
with, `late` and `lost` counted together: two in `matching_safety`, each any number of
times, so that both messages of a dropped batch come again, or one comes again and one is
thrown away; in `matching_liveness` it is 2 * N, which is no bound.
*Session*: two calls of one page are enough for one to start a refresh and the other to
join it, to fail its retry late, or to find the promise gone; the second page runs no calls
but reloads at any time, which renews the cookies under the first.  Lifetimes of
3 and 4 ticks are the smallest that meet `SessionAssumption` with the two tokens apart; one
of the calls may be a login (`Forms`).  `unused` counts up to `IdleTime`.
*Gateway*: two requests of one user race for their limiter with a burst of one; one of them
goes to both services, the other to payments.  One of the three servers is told to
stop, loses its listener or fails to start (`OneLeavesFairSpec`): the others are as
they are while it leaves, and two that leave do not wait for each other.  For the same
reason one goroutine works at a time, and handlers open transactions in payments only,
where `ClosePool` waits for them.  A limiter gets a token back only while a request is about
to ask it.  The theorems make none of these restrictions.
Nothing else is bounded: the sets of events, late calls and announcements stay finite
by themselves.  `CHECK_DEADLOCK FALSE` is there because the systems really may stop:
clients need not send requests.

**Fairness.**
*Payments*: weak fairness of each begun request's steps: Go schedules every
handler, PostgreSQL grants locks and breaks deadlocks.  No fairness on `Begin`
(clients) or `Fail`.
*Saga*: `EventFairness`: the publisher polls for ever (`WF Publish`), JetStream
delivers every unacknowledged event again (`SF Consume`, since the consumer has
one event in hand at a time), and an acknowledgement is not lost every time (`SF
Ack`).  `RetryFairness` is generous on purpose: clients retry for ever, payments
keeps serving what it can serve, handlers do not die every time; `RetrySettles` fails
even so.
*Outbox*: `PublisherFairness`: the ticker goes on, a batch that began takes its next
step, a publisher without a connection finds out when it marks, and a row that can be
accepted is accepted if it is sent again and again.  `LossesEnd`: connections and
processes are not lost for ever; sends may fail for ever.  That includes the connection to
NATS, in *Saga* too: the servers connect with the client's defaults (nats.go in each), with which it gives
up reconnecting after a while, so an outage that is shorter, or a restart of the server
after it, is an assumption on the environment.
*Matching*: the publisher, and the consumer while it is up, take their next step.  The
rest is assumed of the environment and of nothing in the code: a row is not refused,
embedding and storing do not fail, and an acknowledgement is not lost every time; batches
are abandoned and dropped any number of times, not for ever.  `Subscribe` and `Stop` have
no fairness; `EveryItemIndexed` supposes instead that the consumer is up for good in the
end (`<>[]up`).
*Session*: the BFF answers every request and the browser hands each answer to its page; no
fairness on users, reloads or time, and a fetch may also fail.
*Gateway*: main() goes on; a batch of a publisher or consumer ends (its calls have a
context or a time limit); `SF Return` is Go's `select`, which picks at random when the ticker
and the context are both ready and so does not prefer the ticker for ever; handlers of the BFF
go on and their upstream calls end (10 s timeout of the HTTP client); a transaction
ends.  No fairness on `Signal`, `ListenFails`, clients, or on the services' answers.

## Disagreements with the code's own words

1. `NoOverdraft`.  The held sum is from a snapshot older than the row lock.  Two
   `HoldFunds` on one wallet begin together, the first commits, the second gets the
   lock and adds up holds without it.  `integration_test.go:542-544` expects exactly
   one of the concurrent holds to succeed.  `OverdraftOnlyByRace` shows that this
   race is the only way there: whatever else runs, only a hold whose snapshot missed
   another can overdraw.  Balances still never go negative (`TypeOK`, proved): a
   transfer compares after its lock.  The table has a CHECK for it too
   (001_create_wallets.sql:5); it is left out, so what is shown is that the code's own
   comparison is enough and the CHECK never has to refuse.
2. `RetrySettles`.  `saga.go:27-28` calls the retries idempotent.  After a transfer
   or release whose answer was lost, payments answers 409 and the saga returns an
   error for ever.
3. `CancelledHoldsNothing`.  `saga.go:94` takes every error for a hold that failed.
   A hold placed after a timeout belongs to a cancelled contract and nothing in the code
   releases it.
4. `FailedEventsDrain`.  A refused hold is compensated at once, so its event always
   finds a CANCELLED contract, is refused with `ErrStatusConflict` and negatively
   acknowledged; the consumer has no `MaxDeliver`.
5. `IndexFollows`.  `overview.md:687-688` has the next match show what was written.
   The consumer compares no versions (consumer.py:64): an event that is delivered again
   after a later one, or two updates that commit in the other order than they began,
   leave the older vector there until the item's next update.

Remarks, of what the models show and no run is about: `contract.cancelled` may be
committed for a contract that stays PENDING, since the compensation only logs the error
of its UPDATE (saga.go:100; `HistoryToldOnce` allows for it); delivery is at least
once where `overview.md:227` says exactly once; the snapshot that lets a wallet be
overdrawn also refuses holds that fit: with a balance of 4, a hold of 2 that is
transferred away while a second hold of 2 waits for the row is gone from the balance and
still counted as held, and the second is answered 422 though 2 were free all the time
(`RefusedOnlyByRace` says that nothing else causes this); two `UpdateSkills` of one profile
that overlap may leave the union of their skills, and the later event says so.  The plan of
ai-matching (docs/plans/2026-03-18-m2-ai-matching.md:7) has it "NACK transient failures (NATS
retries up to MaxDeliver=5), ACK malformed payloads (skip)".  `max_deliver` is handed to
`run` and used nowhere, so there is no such limit; and a failure of the model or of Qdrant
that is a ValueError, a KeyError or a ValidationError is acknowledged like a malformed
payload (consumer.py:49-52, `Discard`), after which the item keeps its older vector, or none:
the third cause in `StaleHasCause` and the exception in `EveryItemIndexed`.  Where
`overview.md:540` promises that a created job is found, that also takes a consumer that is
up, and nothing brings one back whose task has ended.

## Proofs

`PaymentsProofs`, for every set of requests and wallets, every set of positive
amounts and every opening balance (`PaymentsAssumption`):

- `TypeCorrect`: types, and with them that no balance goes below zero.
- `ReadsCurrent`: what a transfer read is current when it writes (`TransferReadsCurrent`).
- `EventsTold`: the outbox tells each hold's history once.
- `Refinement`: `Payments` implements `Escrow` (`ImplementsEscrow`).
- `RequestsAtomic`: `Payments` implements `EscrowRequests`.
- `DeadlocksCross`: `DeadlockIsCrossing`.
- `SomeoneMoves`: with requests under way, one waits for nobody or transfers cross and
  the deadlock detector has a ring to break (`NeverStuck`).

None of these is inductive.  The invariant is `IInv == TypeOK /\ LockInv`.
`LockInv` says why the locks work: a row that is not `none` names a wallet and an
amount (`HoldRows`); a request past `LockHold` found its hold active and, for a
transfer, in another wallet (`Validated`); it owns the hold's lock until it ends
(`HoldOwned`) and, from the point it locked them, the wallets' (`WalletsOwned`).
With exclusive owners nobody else can write those rows (`OthersHoldKept`,
`OthersWalletKept`), so what was read stays current.  `StepCases` reduces a step to
thirteen cases, all error paths being one (`Rollback`); `Invariance` has a step per
case.  The refinement maps `HoldPlace`, `ReleaseCommit` and `TransferCommit` to
`Place`, `Release` and `Settle`, everything else to a stutter.

`RequestsAtomic` uses the same cases, of which each is now a step of the caller's world:
`BeginAsks`, `LockStutters`, `CommitServes` (the commit and its answer, lost or not, are one
`Serve`), `RefusalRefuses` (the hold was inactive, the recipient missing or the owner, when
it was refused, which `LockHold`'s re-read row guarantees) and `FailureGivesUp`.

For the deadlocks `IInv` is not enough: it says what locks a request at a position has,
not that a lock belongs to somebody at that position.  `LocksOwned` adds the converse, and
with it that a lock dies with its request.  Then who waits for a hold waits for a request
that settles it (`HoldBlockers`), who waits for a wallet waits for one that holds, releases
or transfers and has it already (`WalletBlockers`), and of those only a transfer waiting
for its recipient waits for anybody: the others have all their locks and commit.
Following a ring therefore ends in transfers that wait for their recipient
(`RingOfTransfers`), and the wallet such a one waits for is another's source (`RingCrosses`).
Rings are arbitrary subsets here, of any size; nothing is said of finite sets.

`LedgerProofs`, from the same assumption (of requests, only the rows in use are finitely
many; the wallets are, being the rows of a table):

- `LedgerBalances`: `BalanceIsLedger`.
- `OverdraftRaced`: `OverdraftOnlyByRace`.
- `RefusalRaced`: `RefusedOnlyByRace`.
- `MoneyStays`: `MoneyConserved`.

All are about sums, which a fold computes in an order nobody knows.  Among the subsets
of a finite set that would be wrong one is minimal (`MinimalSet`); from that follow that a
sum exists (`SumsExist`), that any element may be taken out first (`SumsRemove`), and that
more elements do not make it smaller (`SumGrows`).  `LedgerInv` adds to the balances that
who has written rows is done, so a commit's rows are new; `SnapInv` that a handler about
to commit a hold has the wallet locked and its balance current, and says nothing of its
snapshot.  `PlaceRoom` and `SettleRoom` say what a commit leaves of a wallet.  For the
refusals the argument runs the other way: the balance that was compared is current
(`RefusedByCompare`), so if the snapshot's holds were all still active, their sum would be
at most that of the active holds, and the wallet would have less left than was asked for
(`RefuseRoom`).  `TransferConserves` takes the two wallets of a transfer out of the sum over
all of them (`SumTwo`); that they differ is `HoldUnusable`'s check, and that neither has
changed since it was read is `ReadsCurrent`.

`ContractSagaProofs`, for every set of contracts and handlers (`SagaAssumption`):

- `SagaTypes`: types.
- `MoneyFollows`: status and money never contradict each other.
- `HistoryTold`: each contract's history is announced once and in order.
- `HeldOnceOnly`: payments is asked to hold once per contract at most.
- `EngagementKept`: `ContractSaga` implements `Engagement`.
- `SagaUsesEscrow`: its money moves by steps of `Escrow`.

Status alone does not determine what a late call may do, so the invariant `SagaInv`
says what everyone knows: a handler waiting for or holding the answer of a call
knows the statuses the contract may be in (`HandlerKnows`), at most one handler creates
a contract (`OneCreator`), and a call left behind still fits its contract's status
(`LateKnows`).  `KnowledgeStep` shows that the status moves of one handler never falsify
what another knows.  `HistoryInv` adds that nothing is announced while a contract is
being created (`SilentCreators`).  The two refinements rest on `SagaMoves`: a step changes
at most one contract, its status along an edge of the saga or its money by one call
(`StatusMoves`, `MoneyMoves`), never both, and the money only in a status that `SagaInv`
knows to be right for it.  `StageMoves` reads the stage off that; `MoneyIsEscrow` the step of
`Escrow`.

`OutboxProofs`, for every finite set of rows, every set of publishers, every batch
size and every set of rows JetStream refuses (`OutboxAssumption`):

- `TypeCorrect`: types, and that no batch exceeds its limit.
- `Apart`: publishers with a live connection never share a row.
- `Repeats`: a message is stored again only after an error or an uncommitted batch.
- `Delivered`: `Outbox` implements `Delivery`.
- `CauseBeforeEffect`: `CausalOrder`.

`OutInv` adds to the types that a batch's rows are locked by their publisher
(`LocksHeld`), that a locked row is in its owner's batch (`HeldLocked`), that what is
in a batch was committed and what is done has arrived (`Known`), and what each `pc`
implies (`Phases`).  `DoubtInv` adds that what has arrived is marked, done in a live
batch, or in doubt.  For the order, `PastIsPast` and `PastAhead` say that what was
committed before a row's transaction began has a smaller `created_at` and, once the
row is in a batch or a scan, is sent, in doubt, in hand or ahead of it in the scan;
`AccountedKept` says that what is sent, in doubt or in hand stays so.

`MatchingProofs`, for every number of requests and every set of jobs, profiles,
columns and skills (`CatalogAssumption`, `MatchingAssumption`):

- `MatchTyped`: types, the primary key of `profile_skills` among them.
- `EventsTellTheTruth`: in `Catalog`, each event carries what its transaction commits.
- `EventsStayTrue`: the same of `Matching`, each of whose steps is one of `Catalog`
  or leaves the catalog alone.
- `IndexSound`: only committed texts are indexed, under their own item.

`UpdateSkills` deletes and inserts before it locks the profile, so the lock alone
does not explain it.  `CatInv` says what does: the rows a transaction has deleted are
still there for everyone else and what it has inserted collides with no row that will
stay (`Alone`), nobody else on the profile has deleted or inserted the same, and
only one is past the lock (`Apart`).  `InsideKeeps` treats the steps that commit
nothing, `CommitKeeps` those that commit, given that they take nothing from the
others (`Spares`).  `Known` adds that whatever is on its way to the index is a
committed event.

`IndexProofs`, for the same constants:

- `StaleExplained`: `StaleHasCause`.

`IndexInv` relates the order of the table, the publisher's batch and the stream.  Take the
event `l` that was committed last on an item, and an event `r` on it that began earlier
and was never skipped, sent again or delivered again (`Before`).  Then `r` is sent before
`l` (`PolledToo`), no copy of `l` comes before one of `r` in the hand and the stream
(`InLine`), and as long as `r` is there `l` is not acknowledged (`StillThere`).  So an
upsert of `r` never hides `l`: once `l` is sent and gone from the stream, its vector
shows `l`, a late event, or one whose transaction began after that of `l`, or `l` was
acknowledged without having been upserted (`Reached`);
`Upserted` carries this through the step between the upsert and the acknowledgement,
and `Told` says that showing `l` is showing what the tables hold.  `CatalogMoves`,
`SendMoves`, `FetchMoves`, `HeadMoves` (an acknowledgement, a nak, a `Discard`) and
`DropMoves` (`Drop`, `Stop`) say what a step does to the events
and messages, the lemmas on `InOrder` what it does to their order.

`SessionProofs`, for every set of pages and calls, and all lifetimes with
3 <= AccessTTL <= RefreshTTL (`SessionAssumption`):

- `SessionTypes`: types, and that nobody awaits a promise that is settled.
- `OneRefresh`: `OverlapHasCause`.
- `OneEffect`: `NoEffectTwice`.
- `RetryGoesThrough`: `RetryIsAuthorized`.
- `SlidingSession`: `SessionSlides`.

`SessionInv` adds to the properties what they rest on: which fetches are under way at
each `pc` and whom a promise belongs to (`Promises`); that a call took effect only if its
answer is back and is no 401 (`Effects`); that a good access token is as old as the refresh
token beside it, and cookies on their way as old as their fetch (`Ages`); how old the
tokens are that a retry carries (`Retries`); and that the refresh token in the jar is no older
than one a request was sent with, or came with an answer since (`Renewal`).

`GatewayProofs`, for all servers with any publishers, consumers and pools, all requests,
users and bursts (`ServiceAssumption`, `GatewayAssumption`):

- `GatewayTypes`: types, and that no limiter gives out more than it has.
- `JoinBeforeClose`: `WorkersInside`.
- `StopsInOrder`: `CutHasCause`.
- `TransactionsEnd`: `NoTransactionCut`.
- `SharedBudget`: `OneBudget`.
- `FinalAnswers`: `AnswerIsFinal`.

`GatewayInv` has a part per module.  `ServiceInv`: a goroutine that works belongs to a server
whose main() has not got past `Join` (`Quiet`), requests of a server past `Drained` are
there because its time ran out (`InTime`), and a pool that was closed has no transaction
(`PoolEmpty`).  `LimitInv`: whoever is creating a limiter has the mutex and its user
none yet (`Makers`), a limiter is known by its user's name only (`Known`), and what a user
was let through plus what the limiter still has is the burst plus what came back (`Books`).
`Waited`: an answered request has no call under way.

`ImplementsEscrow`, `MoneyConserved` and `TransferReadsCurrent` are proved and in no run: the
first two follow from `ImplementsRequests`, which is in `payments_safety`, since every step
of `EscrowRequests` leaves the tables alone or is one of `Escrow`, and those move money
without making any; the third is a part of the invariant behind them.

**Only model-checked:** `Answered`, `HeldGoesOn`, `EveryRowPublished`, `EveryItemIndexed`, `EveryCallSettles`,
`EveryStopEnds` and `EveryRequestAnswered`, liveness under fairness, which is out of the
prover's reach; and the five violated properties.

## Not modelled, and what is left

Read-only endpoints change no state.  Telemetry and infrastructure have none of the
system's.  The pages of the front ends render what they are given.  Milestones are data
inserted with their contract.  The CHECK on `wallets.balance` is left out (above).  What requests and answers say is reduced to what decides
the control flow; the checks on their form (400) are left out where nothing follows
from them.  The rate limiter's map never shrinks, in the code and in `Gateway`; nothing in
the repository promises a bound.  Idle and read timeouts of the HTTP servers end
connections that have no request in a handler.  contracts closes its database under
handlers that are overdue (database/sql); what they had open is rolled back, which is
`Die` in `ContractSaga`.

What could be added: `HireFlow`, that is `ContractSaga` with `Payments` and `Outbox` in
the place of its reduced payments, for one contract, shown to implement `ContractSaga`.
`EscrowRequests` is the interface at which the two would be joined.  What is left open
without it is their timing: that a call, its commit and the polling of its event may be as far
apart in `ContractSaga` as in `Payments` and `Outbox` is by construction (`late`,
`payOutbox`, `Publish`) and not shown.
