------------------------------ MODULE Gateway ------------------------------
(***************************************************************************)
(* A BFF in front of its services.  A request of a user passes the token   *)
(* and role checks and the user's rate limiter, and becomes calls to one   *)
(* service (Forward) or to all of them at once (the admin's dashboard).    *)
(* Any of the servers may stop meanwhile, as Service says.                 *)
(***************************************************************************)
EXTENDS Service

CONSTANTS Bff,      \* one of the servers; all others are its upstream services
          Users,
          UserOf,   \* the user a request comes from
          Targets,  \* the services a request is for
          Burst,    \* what a limiter allows at once
          None      \* no limiter, no owner of the mutex

Backends == Servers \ {Bff}

ASSUME GatewayAssumption ==
  /\ Bff \in Servers \ (Publishing \cup Consuming \cup PoolWaits)
  /\ UserOf \in [Requests -> Users]
  /\ Targets \in [Requests -> SUBSET Backends]
  /\ Burst \in Nat
  /\ None \notin Requests

\* A limiter is named by the request that made it.
VARIABLES
  pc,        \* how far the request is in the BFF
  mu,        \* who holds RateLimiter.mu
  limiters,  \* RateLimiter.limiters
  mine,      \* the limiter getLimiter returned
  tokens,    \* what each limiter still allows
  part,      \* each call of a request to a service
  allowed,   \* history: the requests of each user that were let through
  refilled   \* history: the tokens each user's limiter got back

limiting == <<mu, limiters, mine, tokens, allowed, refilled>>
vars     == <<service, pc, limiting, part>>

GatewayTypeOK ==
  /\ pc \in [Requests -> {"new", "asking", "creating", "limited", "calling", "answered"}]
  /\ mu \in Requests \cup {None}
  /\ limiters \in [Users -> Requests \cup {None}]
  /\ mine \in [Requests -> Requests \cup {None}]
  /\ tokens \in [Requests -> 0..Burst]
  /\ part \in [Requests \X Backends -> {"none", "sent", "ok", "failed"}]
  /\ allowed \in [Users -> Nat]
  /\ refilled \in [Users -> Nat]

TypeOK == ServiceTypeOK /\ GatewayTypeOK

Init ==
  /\ ServiceInit
  /\ pc = [r \in Requests |-> "new"]
  /\ mu = None
  /\ limiters = [u \in Users |-> None]
  /\ mine = [r \in Requests |-> None]
  /\ tokens = [r \in Requests |-> 0]
  /\ part = [c \in Requests \X Backends |-> "none"]
  /\ allowed = [u \in Users |-> 0]
  /\ refilled = [u \in Users |-> 0]

At(r, here) == r \in active[Bff] /\ pc[r] = here
Move(r, there) == pc' = [pc EXCEPT ![r] = there]

-----------------------------------------------------------------------------
(* On the way in. *)

Arrive(r) ==
  /\ pc[r] = "new" /\ Move(r, "asking")
  /\ Accept(Bff, r)
  /\ UNCHANGED <<limiting, part>>

\* 401 or 403: JWTMiddleware, RequireRole.
Refuse(r) ==
  /\ At(r, "asking") /\ Move(r, "answered")
  /\ Leave(Bff, r)
  /\ UNCHANGED <<limiting, part>>

\* Mutant: getLimiter takes no lock.
LookupUnlocked(r) ==
  /\ At(r, "asking")
  /\ IF limiters[UserOf[r]] = None
     THEN Move(r, "creating") /\ UNCHANGED mine
     ELSE Move(r, "limited") /\ mine' = [mine EXCEPT ![r] = limiters[UserOf[r]]]
  /\ UNCHANGED <<service, mu, limiters, tokens, allowed, refilled, part>>

\* getLimiter takes the lock and looks.
Lookup(r) ==
  /\ At(r, "asking") /\ mu = None
  /\ IF limiters[UserOf[r]] = None
     THEN Move(r, "creating") /\ mu' = r /\ UNCHANGED mine
     ELSE Move(r, "limited") /\ mine' = [mine EXCEPT ![r] = limiters[UserOf[r]]] /\ UNCHANGED mu
  /\ UNCHANGED <<service, limiters, tokens, allowed, refilled, part>>

\* Mutant: the lock is kept.
CreateKeepsLock(r) ==
  /\ At(r, "creating") /\ Move(r, "limited")
  /\ limiters' = [limiters EXCEPT ![UserOf[r]] = r]
  /\ tokens' = [tokens EXCEPT ![r] = Burst]
  /\ mine' = [mine EXCEPT ![r] = r]
  /\ UNCHANGED <<service, mu, allowed, refilled, part>>

\* getLimiter makes a limiter, full, and gives the lock back.
Create(r) ==
  /\ At(r, "creating") /\ Move(r, "limited")
  /\ limiters' = [limiters EXCEPT ![UserOf[r]] = r]
  /\ tokens' = [tokens EXCEPT ![r] = Burst]
  /\ mine' = [mine EXCEPT ![r] = r]
  /\ mu' = None
  /\ UNCHANGED <<service, allowed, refilled, part>>

HasToken(l) == tokens[l] > 0

\* Mutant: the answer of Allow() is not looked at.
AllowAnyway(r) ==
  /\ At(r, "limited") /\ Move(r, "calling")
  /\ tokens' = [tokens EXCEPT ![mine[r]] = @ - 1]
  /\ allowed' = [allowed EXCEPT ![UserOf[r]] = @ + 1]
  /\ part' = [c \in Requests \X Backends |->
                IF c[1] = r /\ c[2] \in Targets[r] THEN "sent" ELSE part[c]]
  /\ UNCHANGED <<service, mu, limiters, mine, refilled>>

\* Allow(), and the calls begin.
Allow(r) ==
  /\ At(r, "limited") /\ HasToken(mine[r]) /\ Move(r, "calling")
  /\ tokens' = [tokens EXCEPT ![mine[r]] = @ - 1]
  /\ allowed' = [allowed EXCEPT ![UserOf[r]] = @ + 1]
  /\ part' = [c \in Requests \X Backends |->
                IF c[1] = r /\ c[2] \in Targets[r] THEN "sent" ELSE part[c]]
  /\ UNCHANGED <<service, mu, limiters, mine, refilled>>

\* 429.
TooMany(r) ==
  /\ At(r, "limited") /\ ~HasToken(mine[r]) /\ Move(r, "answered")
  /\ Leave(Bff, r)
  /\ UNCHANGED <<limiting, part>>

\* Time passes.
Refill(u) ==
  /\ limiters[u] # None /\ tokens[limiters[u]] < Burst /\ phase[Bff] # "exited"
  /\ tokens' = [tokens EXCEPT ![limiters[u]] = @ + 1]
  /\ refilled' = [refilled EXCEPT ![u] = @ + 1]
  /\ UNCHANGED <<service, pc, mu, limiters, mine, part, allowed>>

-----------------------------------------------------------------------------
(* Upstream. *)

Settled(r, b, how) == part' = [part EXCEPT ![<<r, b>>] = how]

Reach(r, b) ==
  /\ part[<<r, b>>] = "sent" /\ r \notin active[b]
  /\ Accept(b, r)
  /\ UNCHANGED <<pc, limiting, part>>

\* A handler of the service answers, to whoever still waits.
Reply(r, b) ==
  /\ Leave(b, r)
  /\ IF part[<<r, b>>] = "sent" THEN Settled(r, b, "ok") ELSE UNCHANGED part
  /\ UNCHANGED <<pc, limiting>>

\* The connection is refused, or was lost, or ten seconds have passed.
CallFails(r, b) ==
  /\ At(r, "calling") /\ part[<<r, b>>] = "sent" /\ Settled(r, b, "failed")
  /\ UNCHANGED <<service, pc, limiting>>

\* Mutant: no wg.Wait().
AnswerAtOnce(r) ==
  /\ At(r, "calling") /\ Move(r, "answered")
  /\ Leave(Bff, r)
  /\ UNCHANGED <<limiting, part>>

\* Forward passes its one answer on, or 502; Stats waits for all goroutines.
Answer(r) ==
  /\ At(r, "calling") /\ \A b \in Targets[r] : part[<<r, b>>] # "sent"
  /\ Move(r, "answered")
  /\ Leave(Bff, r)
  /\ UNCHANGED <<limiting, part>>

Transaction(r, b) == (BeginTx(b, r) \/ EndTx(b, r)) /\ UNCHANGED <<pc, limiting, part>>

-----------------------------------------------------------------------------
Serve(r) == Lookup(r) \/ Create(r) \/ Allow(r) \/ TooMany(r) \/ Answer(r)

Next ==
  \/ ServiceNext /\ UNCHANGED <<pc, limiting, part>>
  \/ \E r \in Requests : Arrive(r) \/ Refuse(r) \/ Serve(r)
  \/ \E r \in Requests, b \in Backends :
       Reach(r, b) \/ Reply(r, b) \/ CallFails(r, b) \/ Transaction(r, b)
  \/ \E u \in Users : Refill(u)

Spec == Init /\ [][Next]_vars

\* main() goes on; a batch of a goroutine ends, and its select does not always prefer the
\* ticker; a handler of the BFF goes on, and its calls do not last for ever; transactions end.
Fairness ==
  /\ \A s \in Servers : WF_vars(Main(s) /\ UNCHANGED <<pc, limiting, part>>)
  /\ \A w \in Workers : /\ WF_vars(Rest(w) /\ UNCHANGED <<pc, limiting, part>>)
                        /\ SF_vars(Return(w) /\ UNCHANGED <<pc, limiting, part>>)
  /\ \A r \in Requests : WF_vars(Serve(r) \/ \E b \in Backends : CallFails(r, b))
  /\ \A b \in Backends :
       WF_vars(\E r \in Requests : EndTx(b, r) /\ UNCHANGED <<pc, limiting, part>>)
FairSpec == Spec /\ Fairness

-----------------------------------------------------------------------------
\* A user has one budget: what is let through never exceeds the burst and what came back
\* since, though the first requests of a user find no limiter and may all make one.
OneBudget == \A u \in Users : allowed[u] <= Burst + refilled[u]

\* The dashboard's answer is final: no goroutine still writes to a response that was sent.
AnswerIsFinal ==
  [][\A r \in Requests, b \in Backends :
       pc[r] = "answered" => part'[<<r, b>>] = part[<<r, b>>]]_vars

\* A server that is told to stop, or whose listener fails, exits.
EveryStopEnds == \A s \in Servers : (s \in done \cup down) ~> (phase[s] = "exited")

\* Every request the BFF accepts is answered, whatever becomes of the services, unless the
\* BFF itself has to exit.
EveryRequestAnswered ==
  \A r \in Requests : (r \in active[Bff]) ~> (pc[r] = "answered" \/ r \in cut[Bff])
=============================================================================
