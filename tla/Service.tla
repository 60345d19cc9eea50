------------------------------ MODULE Service ------------------------------
(***************************************************************************)
(* The life of the Go servers: payments, jobs-api, contracts and the BFFs. *)
(* Their main() is the same everywhere: start, wait for the context to     *)
(* end (a signal, or a listener that fails), let the requests under way    *)
(* finish for ten seconds, wait for the goroutines that work beside the    *)
(* requests, and then run the deferred closes in reverse order.            *)
(*                                                                         *)
(* How requests come and are answered is for the module that extends this  *)
(* one; what their handlers do with the database is here.                  *)
(***************************************************************************)
EXTENDS Integers

CONSTANTS Servers,
          Publishing,  \* the servers with an outbox publisher
          Consuming,   \* the servers with an event consumer
          PoolWaits,   \* the servers whose pool waits for its connections when it is closed
          Requests

\* pgxpool waits, database/sql need not; a BFF has neither database nor goroutines.
ASSUME ServiceAssumption ==
  Publishing \subseteq Servers /\ Consuming \subseteq Servers /\ PoolWaits \subseteq Servers

\* The goroutines main() waits for.
Workers == (Publishing \X {"publisher"}) \cup (Consuming \X {"consumer"})
WorkersOf(s) == {w \in Workers : w[1] = s}

VARIABLES
  phase,   \* where main() is
  done,    \* the servers whose context is done
  down,    \* the servers whose listener failed
  worker,  \* where each goroutine of the WaitGroup is
  active,  \* per server, the requests its handlers have and have not answered
  inTx,    \* those of them with a transaction, hence a connection of the pool
  overdue, \* history: the servers whose ten seconds ran out
  cut,     \* history: per server, the requests its exit cut off
  cutTx    \* history: those of them that had a transaction

process  == <<phase, done, down, worker>>
handling == <<active, inTx>>
ends     == <<overdue, cut, cutTx>>
service  == <<process, handling, ends>>

Listening(s) == phase[s] = "serving" /\ s \notin down

\* The deferred closes run when all else has ended: first NATS, then the pool, which
\* gives out no connection from then on.
Connected(s) == phase[s] \in {"serving", "draining", "joining"}

ServiceTypeOK ==
  /\ phase \in [Servers ->
       {"starting", "serving", "draining", "joining", "closing", "closed", "exited"}]
  /\ done \subseteq Servers /\ down \subseteq Servers
  /\ worker \in [Workers -> {"none", "waiting", "working", "returned"}]
  /\ active \in [Servers -> SUBSET Requests]
  /\ inTx \in [Servers -> SUBSET Requests]
  /\ overdue \subseteq Servers
  /\ cut \in [Servers -> SUBSET Requests]
  /\ cutTx \in [Servers -> SUBSET Requests]
  /\ \A s \in Servers : inTx[s] \subseteq active[s] /\ cutTx[s] \subseteq cut[s]

ServiceInit ==
  /\ phase = [s \in Servers |-> "starting"]
  /\ done = {} /\ down = {}
  /\ worker = [w \in Workers |-> "none"]
  /\ active = [s \in Servers |-> {}] /\ inTx = [s \in Servers |-> {}]
  /\ overdue = {}
  /\ cut = [s \in Servers |-> {}] /\ cutTx = [s \in Servers |-> {}]

Goto(s, there) == phase' = [phase EXCEPT ![s] = there]

-----------------------------------------------------------------------------
(* Starting, and being told to stop. *)

\* Database, migrations, NATS and its streams; then the goroutines, and the listener.
Start(s) ==
  /\ phase[s] = "starting" /\ Goto(s, "serving")
  /\ worker' = [w \in Workers |-> IF w[1] = s THEN "waiting" ELSE worker[w]]
  /\ UNCHANGED <<done, down, handling, ends>>

\* os.Exit(1): something is not there, or the context is done already.
StartFails(s) ==
  /\ phase[s] = "starting" /\ Goto(s, "exited")
  /\ UNCHANGED <<done, down, worker, handling, ends>>

\* SIGINT or SIGTERM.
Signal(s) ==
  /\ phase[s] # "exited" /\ s \notin done
  /\ done' = done \cup {s}
  /\ UNCHANGED <<phase, down, worker, handling, ends>>

\* Mutant: the error is logged only.
ListenFailsLogged(s) ==
  /\ Listening(s)
  /\ down' = down \cup {s}
  /\ UNCHANGED <<phase, done, worker, handling, ends>>

\* ListenAndServe returns an error, and its goroutine calls stop().
ListenFails(s) ==
  /\ Listening(s)
  /\ down' = down \cup {s} /\ done' = done \cup {s}
  /\ UNCHANGED <<phase, worker, handling, ends>>

-----------------------------------------------------------------------------
(* The publisher and the consumer. *)

\* The publisher's select may take the ticker though the context is done (its batch then
\* fails at once); the consumer looks at the context before it fetches.
Work(w) ==
  /\ worker[w] = "waiting" /\ (w[2] = "consumer" => w[1] \notin done)
  /\ worker' = [worker EXCEPT ![w] = "working"]
  /\ UNCHANGED <<phase, done, down, handling, ends>>

Rest(w) ==
  /\ worker[w] = "working"
  /\ worker' = [worker EXCEPT ![w] = "waiting"]
  /\ UNCHANGED <<phase, done, down, handling, ends>>

Return(w) ==
  /\ worker[w] = "waiting" /\ w[1] \in done
  /\ worker' = [worker EXCEPT ![w] = "returned"]
  /\ UNCHANGED <<phase, done, down, handling, ends>>

-----------------------------------------------------------------------------
(* The way out. *)

\* <-ctx.Done(), and srv.Shutdown closes the listener.
Drain(s) ==
  /\ phase[s] = "serving" /\ s \in done /\ Goto(s, "draining")
  /\ UNCHANGED <<done, down, worker, handling, ends>>

\* Mutant: srv.Close in the place of srv.Shutdown.
DrainedAtOnce(s) ==
  /\ phase[s] = "draining" /\ Goto(s, "joining")
  /\ UNCHANGED <<done, down, worker, handling, ends>>

\* srv.Shutdown returns when every handler has.
Drained(s) ==
  /\ phase[s] = "draining" /\ active[s] = {} /\ Goto(s, "joining")
  /\ UNCHANGED <<done, down, worker, handling, ends>>

\* Or after ten seconds; the handlers go on, and nobody waits for them any more.
GraceEnds(s) ==
  /\ phase[s] = "draining" /\ active[s] # {} /\ Goto(s, "joining")
  /\ overdue' = overdue \cup {s}
  /\ UNCHANGED <<done, down, worker, handling, cut, cutTx>>

\* Mutant: no wg.Wait().
JoinNobody(s) ==
  /\ phase[s] = "joining" /\ Goto(s, "closing")
  /\ UNCHANGED <<done, down, worker, handling, ends>>

\* wg.Wait(), then nc.Close().
Join(s) ==
  /\ phase[s] = "joining" /\ \A w \in WorkersOf(s) : worker[w] = "returned"
  /\ Goto(s, "closing")
  /\ UNCHANGED <<done, down, worker, handling, ends>>

\* Mutant: pool.Close() is not deferred.
ClosePoolNever(s) ==
  /\ phase[s] = "closing" /\ Goto(s, "closed")
  /\ UNCHANGED <<done, down, worker, handling, ends>>

\* pool.Close() or db.Close().
ClosePool(s) ==
  /\ phase[s] = "closing" /\ (s \in PoolWaits => inTx[s] = {}) /\ Goto(s, "closed")
  /\ UNCHANGED <<done, down, worker, handling, ends>>

\* main() returns, and what handlers there still are end with it.
Exit(s) ==
  /\ phase[s] = "closed" /\ Goto(s, "exited")
  /\ cut' = [cut EXCEPT ![s] = active[s]] /\ cutTx' = [cutTx EXCEPT ![s] = inTx[s]]
  /\ active' = [active EXCEPT ![s] = {}] /\ inTx' = [inTx EXCEPT ![s] = {}]
  /\ UNCHANGED <<done, down, worker, overdue>>

-----------------------------------------------------------------------------
(* Handlers. *)

\* A request reaches its handler.
Accept(s, r) ==
  /\ Listening(s)
  /\ active' = [active EXCEPT ![s] = @ \cup {r}]
  /\ UNCHANGED <<process, inTx, ends>>

\* The handler returns.
Leave(s, r) ==
  /\ r \in active[s] \ inTx[s]
  /\ active' = [active EXCEPT ![s] = @ \ {r}]
  /\ UNCHANGED <<process, inTx, ends>>

BeginTx(s, r) ==
  /\ r \in active[s] \ inTx[s] /\ Connected(s)
  /\ inTx' = [inTx EXCEPT ![s] = @ \cup {r}]
  /\ UNCHANGED <<process, active, ends>>

EndTx(s, r) ==
  /\ r \in inTx[s]
  /\ inTx' = [inTx EXCEPT ![s] = @ \ {r}]
  /\ UNCHANGED <<process, active, ends>>

-----------------------------------------------------------------------------
Main(s) ==
  \/ Start(s) \/ StartFails(s)
  \/ Drain(s) \/ Drained(s) \/ GraceEnds(s) \/ Join(s) \/ ClosePool(s) \/ Exit(s)

ServiceNext ==
  \/ \E s \in Servers : Main(s) \/ Signal(s) \/ ListenFails(s)
  \/ \E w \in Workers : Work(w) \/ Rest(w) \/ Return(w)

-----------------------------------------------------------------------------
\* No goroutine works on a connection that is closed: main() waits for the publisher and
\* the consumer before it closes NATS and the pool, however long their last batch takes.
WorkersInside == \A w \in Workers : worker[w] = "working" => Connected(w[1])

\* A request that was accepted is cut off only if it took longer than the ten seconds it
\* has from the signal on.
CutHasCause == \A s \in Servers : cut[s] # {} => s \in overdue

\* Not even then is a transaction cut off in the services on pgxpool: the pool is closed
\* before the process exits, and it waits for the connections the handlers have.
NoTransactionCut == \A s \in PoolWaits : cutTx[s] = {}
=============================================================================
