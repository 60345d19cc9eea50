--------------------------- MODULE GatewayProofs ---------------------------
(***************************************************************************)
(* Theorems about Service and Gateway, for every set of servers, users and *)
(* requests and every burst.                                               *)
(***************************************************************************)
EXTENDS Gateway, TLAPS

\* What a step does to the processes: one of main() or of a goroutine, or one of a handler.
Handling(s, r) == Accept(s, r) \/ Leave(s, r) \/ BeginTx(s, r) \/ EndTx(s, r)

ServiceStep ==
  \/ ServiceNext
  \/ \E s \in Servers, r \in Requests : Handling(s, r)
  \/ UNCHANGED service

-----------------------------------------------------------------------------
(* The invariant of the processes. *)

\* Before main() has connected and after it has closed, no goroutine is about to work.
Quiet ==
  \A w \in Workers : ~Connected(w[1]) => worker[w] \in {"none", "returned"}

\* A server that is not serving or draining, and whose time did not run out, has no
\* request; and its exit cut none off.
InTime ==
  \A s \in Servers : s \notin overdue =>
    /\ phase[s] \notin {"serving", "draining"} => active[s] = {}
    /\ cut[s] = {}

\* A pool that waits has no transaction when it is closed.
PoolEmpty ==
  \A s \in PoolWaits :
    /\ phase[s] \in {"starting", "closed", "exited"} => inTx[s] = {}
    /\ cutTx[s] = {}

ServiceInv == ServiceTypeOK /\ Quiet /\ InTime /\ PoolEmpty

LEMMA ServiceInitially == ServiceInit => ServiceInv
  BY ServiceAssumption DEF ServiceInit, ServiceInv, ServiceTypeOK, Quiet, InTime, PoolEmpty,
     Workers, Connected

\* Main and its environment.
LEMMA MainStep ==
  ASSUME ServiceInv, NEW s \in Servers, Main(s) \/ Signal(s) \/ ListenFails(s)
  PROVE  ServiceInv'
<1> USE ServiceAssumption DEF ServiceInv, Goto
<1>1. CASE Start(s)
  BY <1>1 DEF Start, ServiceTypeOK, Quiet, InTime, PoolEmpty, Connected, handling, ends, Workers
<1>2. CASE StartFails(s)
  BY <1>2 DEF StartFails, ServiceTypeOK, Quiet, InTime, PoolEmpty, Connected, handling, ends
<1>3. CASE Drain(s)
  BY <1>3 DEF Drain, ServiceTypeOK, Quiet, InTime, PoolEmpty, Connected, handling, ends
<1>4. CASE Drained(s)
  BY <1>4 DEF Drained, ServiceTypeOK, Quiet, InTime, PoolEmpty, Connected, handling, ends
<1>5. CASE GraceEnds(s)
  BY <1>5 DEF GraceEnds, ServiceTypeOK, Quiet, InTime, PoolEmpty, Connected, handling, ends
<1>6. CASE Join(s)
  BY <1>6 DEF Join, WorkersOf, ServiceTypeOK, Quiet, InTime, PoolEmpty, Connected, handling, ends
<1>7. CASE ClosePool(s)
  BY <1>7 DEF ClosePool, ServiceTypeOK, Quiet, InTime, PoolEmpty, Connected, handling, ends
<1>8. CASE Exit(s)
  BY <1>8 DEF Exit, ServiceTypeOK, Quiet, InTime, PoolEmpty, Connected, handling, ends
<1>9. CASE Signal(s)
  BY <1>9 DEF Signal, ServiceTypeOK, Quiet, InTime, PoolEmpty, Connected, handling, ends
<1>10. CASE ListenFails(s)
  BY <1>10 DEF ListenFails, ServiceTypeOK, Quiet, InTime, PoolEmpty, Connected, handling, ends
<1> QED
  BY <1>1, <1>2, <1>3, <1>4, <1>5, <1>6, <1>7, <1>8, <1>9, <1>10 DEF Main

\* The goroutines.
LEMMA WorkerStep ==
  ASSUME ServiceInv, NEW w \in Workers, Work(w) \/ Rest(w) \/ Return(w)
  PROVE  ServiceInv'
  BY DEF Work, Rest, Return, ServiceInv, ServiceTypeOK, Quiet, InTime, PoolEmpty, Connected,
     handling, ends

\* The handlers.
LEMMA HandlerStep ==
  ASSUME ServiceInv, NEW s \in Servers, NEW r \in Requests, Handling(s, r)
  PROVE  ServiceInv'
<1> USE ServiceAssumption DEF ServiceInv
<1>1. CASE Accept(s, r)
  BY <1>1 DEF Accept, Listening, ServiceTypeOK, Quiet, InTime, PoolEmpty, Connected, process, ends
<1>2. CASE Leave(s, r)
  BY <1>2 DEF Leave, ServiceTypeOK, Quiet, InTime, PoolEmpty, Connected, process, ends
<1>3. CASE BeginTx(s, r)
  BY <1>3 DEF BeginTx, ServiceTypeOK, Quiet, InTime, PoolEmpty, Connected, process, ends
<1>4. CASE EndTx(s, r)
  BY <1>4 DEF EndTx, ServiceTypeOK, Quiet, InTime, PoolEmpty, Connected, process, ends
<1> QED
  BY <1>1, <1>2, <1>3, <1>4 DEF Handling

LEMMA ServiceKept == ServiceInv /\ ServiceStep => ServiceInv'
<1> SUFFICES ASSUME ServiceInv, ServiceStep PROVE ServiceInv'
  OBVIOUS
<1>1. CASE ServiceNext
  BY <1>1, MainStep, WorkerStep DEF ServiceNext
<1>2. CASE \E s \in Servers, r \in Requests : Handling(s, r)
  BY <1>2, HandlerStep
<1>3. CASE UNCHANGED service
  BY <1>3 DEF service, process, handling, ends, ServiceInv, ServiceTypeOK, Quiet, InTime,
     PoolEmpty, Connected
<1> QED
  BY <1>1, <1>2, <1>3 DEF ServiceStep

-----------------------------------------------------------------------------
(* Every step of a BFF is one of the servers; what it leaves alone. *)

LEMMA BffServes == Bff \in Servers /\ Backends \subseteq Servers
  BY GatewayAssumption DEF Backends

\* The steps that take no part in the rate limiting.
Elsewhere ==
  \/ ServiceNext /\ UNCHANGED <<pc, limiting, part>>
  \/ \E r \in Requests, b \in Backends : Reach(r, b) \/ Transaction(r, b)

\* The cases of a step.
LEMMA Cases ==
  ASSUME [Next]_vars
  PROVE  \/ Elsewhere \/ UNCHANGED vars
         \/ \E r \in Requests : Arrive(r) \/ Refuse(r) \/ Serve(r)
         \/ \E r \in Requests, b \in Backends : Reply(r, b) \/ CallFails(r, b)
         \/ \E u \in Users : Refill(u)
  BY DEF Next, Elsewhere

LEMMA ElsewhereKeeps == Elsewhere => UNCHANGED <<pc, limiting, part>>
  BY DEF Elsewhere, Reach, Transaction

LEMMA StepServes == [Next]_vars => ServiceStep
<1> SUFFICES ASSUME [Next]_vars PROVE ServiceStep
  OBVIOUS
<1> USE BffServes DEF Handling
<1>1. CASE Elsewhere
  BY <1>1 DEF Elsewhere, Reach, Transaction, ServiceStep
<1>2. CASE UNCHANGED vars
  BY <1>2 DEF vars, ServiceStep
<1>3. ASSUME NEW r \in Requests, Arrive(r) \/ Refuse(r)
      PROVE  ServiceStep
  BY <1>3 DEF Arrive, Refuse, ServiceStep
<1>4. ASSUME NEW r \in Requests, Serve(r)
      PROVE  ServiceStep
  BY <1>4 DEF Serve, Lookup, Create, Allow, TooMany, Answer, ServiceStep
<1>5. ASSUME NEW r \in Requests, NEW b \in Backends, Reply(r, b) \/ CallFails(r, b)
      PROVE  ServiceStep
  BY <1>5 DEF Reply, CallFails, ServiceStep
<1>6. ASSUME NEW u \in Users, Refill(u)
      PROVE  ServiceStep
  BY <1>6 DEF Refill, ServiceStep
<1> QED
  BY <1>1, <1>2, <1>3, <1>4, <1>5, <1>6, Cases

-----------------------------------------------------------------------------
(* The invariant of the requests. *)

\* The request that makes a limiter holds the lock, and there is none yet.
Makers ==
  \A r \in Requests : pc[r] = "creating" => mu = r /\ limiters[UserOf[r]] = None

\* A user's limiter was made by a request of theirs, and is the one all of them ask.
Known ==
  /\ \A u \in Users : limiters[u] # None =>
       UserOf[limiters[u]] = u /\ pc[limiters[u]] \notin {"new", "asking", "creating"}
  /\ \A r \in Requests : pc[r] = "limited" =>
       limiters[UserOf[r]] # None /\ mine[r] = limiters[UserOf[r]]

\* A limiter's books.
Book(u) ==
  IF limiters[u] = None THEN allowed[u] = 0 /\ refilled[u] = 0
  ELSE allowed[u] + tokens[limiters[u]] = Burst + refilled[u]
Books == \A u \in Users : Book(u)

\* Only calls of a request that still waits for them are open.
Waited ==
  \A r \in Requests, b \in Backends :
    part[<<r, b>>] = "sent" => pc[r] = "calling" /\ b \in Targets[r]

LimitInv == GatewayTypeOK /\ Makers /\ Known /\ Books
RequestInv == LimitInv /\ Waited

LEMMA RequestInitially == Init => RequestInv
  BY GatewayAssumption
  DEF Init, RequestInv, LimitInv, GatewayTypeOK, Makers, Known, Books, Book, Waited

LEMMA NothingMoved == RequestInv /\ UNCHANGED <<pc, limiting, part>> => RequestInv'
  BY DEF limiting, RequestInv, LimitInv, GatewayTypeOK, Makers, Known, Books, Book, Waited

\* No two users share a limiter.
LEMMA OwnLimiter ==
  ASSUME RequestInv, NEW u \in Users, NEW v \in Users, u # v
  PROVE  limiters[u] = None \/ limiters[u] # limiters[v]
  BY DEF RequestInv, LimitInv, Known

LEMMA LookupKeeps ==
  ASSUME RequestInv, NEW r \in Requests, Lookup(r)
  PROVE  RequestInv'
<1> USE GatewayAssumption DEF Lookup, Move, At
<1>1. GatewayTypeOK'
  BY DEF RequestInv, LimitInv, GatewayTypeOK
<1>2. Makers' /\ Known'
  BY DEF RequestInv, LimitInv, GatewayTypeOK, Makers, Known
<1>3. Books' /\ Waited'
  BY DEF RequestInv, LimitInv, GatewayTypeOK, Books, Book, Waited
<1> QED
  BY <1>1, <1>2, <1>3 DEF RequestInv, LimitInv

LEMMA CreateKeeps ==
  ASSUME RequestInv, NEW r \in Requests, Create(r)
  PROVE  RequestInv'
<1> USE GatewayAssumption DEF Create, Move, At
<1>1. GatewayTypeOK'
  <2>1. Burst \in 0..Burst /\ r \in Requests \cup {None} /\ UserOf[r] \in Users
    OBVIOUS
  <2>2. pc' \in [Requests -> {"new", "asking", "creating", "limited", "calling", "answered"}]
    BY DEF RequestInv, LimitInv, GatewayTypeOK
  <2>3. tokens' \in [Requests -> 0..Burst]
    BY <2>1 DEF RequestInv, LimitInv, GatewayTypeOK
  <2>4. /\ limiters' \in [Users -> Requests \cup {None}]
        /\ mine' \in [Requests -> Requests \cup {None}]
    BY <2>1 DEF RequestInv, LimitInv, GatewayTypeOK
  <2> QED
    BY <2>2, <2>3, <2>4 DEF RequestInv, LimitInv, GatewayTypeOK
<1>2. Makers'
  BY DEF RequestInv, LimitInv, GatewayTypeOK, Makers
<1>3. Known'
  <2> USE DEF RequestInv, LimitInv, GatewayTypeOK
  <2>1. limiters[UserOf[r]] = None
    BY DEF Makers
  <2>2. ASSUME NEW u \in Users, limiters'[u] # None
        PROVE  UserOf[limiters'[u]] = u /\ pc'[limiters'[u]] \notin {"new", "asking", "creating"}
    <3>1. CASE u = UserOf[r]
      BY <3>1
    <3>2. CASE u # UserOf[r]
      <4>1. limiters'[u] = limiters[u] /\ limiters[u] \in Requests
        BY <2>2, <3>2
      <4> QED
        BY <2>2, <4>1 DEF Known
    <3> QED
      BY <3>1, <3>2
  <2>3. ASSUME NEW q \in Requests, pc'[q] = "limited"
        PROVE  limiters'[UserOf[q]] # None /\ mine'[q] = limiters'[UserOf[q]]
    <3>1. CASE q = r
      BY <3>1
    <3>2. CASE q # r
      <4>1. limiters[UserOf[q]] # None /\ mine[q] = limiters[UserOf[q]] /\ mine'[q] = mine[q]
        BY <2>3, <3>2 DEF Known
      <4> QED
        BY <2>1, <4>1
    <3> QED
      BY <3>1, <3>2
  <2> QED
    BY <2>2, <2>3 DEF Known
<1>4. Books'
  BY DEF RequestInv, LimitInv, GatewayTypeOK, Makers, Known, Books, Book
<1>5. Waited'
  BY DEF RequestInv, LimitInv, GatewayTypeOK, Waited
<1> QED
  BY <1>1, <1>2, <1>3, <1>4, <1>5 DEF RequestInv, LimitInv

LEMMA AllowKeeps ==
  ASSUME RequestInv, NEW r \in Requests, Allow(r)
  PROVE  RequestInv'
<1> USE GatewayAssumption DEF Allow, Move, At, HasToken
<1>1. mine[r] \in Requests /\ mine[r] = limiters[UserOf[r]] /\ tokens[mine[r]] - 1 \in 0..Burst
  BY DEF RequestInv, LimitInv, GatewayTypeOK, Known
<1>2. GatewayTypeOK'
  <2>1. tokens' \in [Requests -> 0..Burst]
    BY <1>1 DEF RequestInv, LimitInv, GatewayTypeOK
  <2>2. allowed' \in [Users -> Nat]
    <3>1. allowed \in [Users -> Nat] /\ UserOf[r] \in Users
      BY DEF RequestInv, LimitInv, GatewayTypeOK
    <3>2. allowed[UserOf[r]] + 1 \in Nat
      BY <3>1
    <3> QED
      BY <3>1, <3>2
  <2>3. part' \in [Requests \X Backends -> {"none", "sent", "ok", "failed"}]
    BY DEF RequestInv, LimitInv, GatewayTypeOK
  <2> QED
    BY <2>1, <2>2, <2>3 DEF RequestInv, LimitInv, GatewayTypeOK
<1>3. Makers' /\ Known'
  BY DEF RequestInv, LimitInv, GatewayTypeOK, Makers, Known
<1>4. Books'
  <2> USE DEF RequestInv, LimitInv, GatewayTypeOK
  <2> SUFFICES ASSUME NEW u \in Users PROVE Book(u)'
    BY DEF Books, Book
  <2>1. CASE u = UserOf[r]
    BY <1>1, <2>1 DEF Books, Book
  <2>2. CASE u # UserOf[r]
    <3>1. limiters[u] = None \/ (limiters[u] \in Requests /\ limiters[u] # mine[r])
      BY <1>1, <2>2, OwnLimiter
    <3> QED
      BY <1>1, <2>2, <3>1 DEF Books, Book
  <2> QED
    BY <2>1, <2>2
<1>5. Waited'
  BY DEF RequestInv, LimitInv, GatewayTypeOK, Waited
<1> QED
  BY <1>2, <1>3, <1>4, <1>5 DEF RequestInv, LimitInv

LEMMA OneMore ==
  ASSUME NEW a \in Nat, NEW t \in Nat, NEW b \in Nat, NEW f \in Nat, a + t = b + f
  PROVE  a + (t + 1) = b + (f + 1)
  OBVIOUS

\* A token that comes back is in the books.
LEMMA RefillBooked ==
  ASSUME RequestInv, NEW u \in Users, Refill(u)
  PROVE  Book(u)'
<1>1. /\ limiters[u] \in Requests /\ tokens[limiters[u]] \in Nat /\ Burst \in Nat
      /\ allowed[u] \in Nat /\ refilled[u] \in Nat
  BY GatewayAssumption DEF Refill, RequestInv, LimitInv, GatewayTypeOK
<1>2. allowed[u] + tokens[limiters[u]] = Burst + refilled[u]
  BY DEF Refill, RequestInv, LimitInv, Books, Book
<1>3. allowed[u] + (tokens[limiters[u]] + 1) = Burst + (refilled[u] + 1)
  BY <1>1, <1>2, OneMore
<1>4. /\ tokens'[limiters[u]] = tokens[limiters[u]] + 1
      /\ refilled'[u] = refilled[u] + 1
      /\ allowed'[u] = allowed[u] /\ limiters'[u] = limiters[u]
  BY <1>1 DEF Refill, RequestInv, LimitInv, GatewayTypeOK
<1>5. limiters'[u] # None
  BY <1>4 DEF Refill
<1>6. allowed'[u] + tokens'[limiters'[u]] = Burst + refilled'[u]
  BY <1>3, <1>4
<1> QED
  BY <1>5, <1>6 DEF Book

LEMMA RefillKeeps ==
  ASSUME RequestInv, NEW u \in Users, Refill(u)
  PROVE  RequestInv'
<1> USE GatewayAssumption DEF Refill
<1>1. GatewayTypeOK'
  BY DEF RequestInv, LimitInv, GatewayTypeOK
<1>2. Makers' /\ Known' /\ Waited'
  BY DEF RequestInv, LimitInv, GatewayTypeOK, Makers, Known, Waited
<1>3. Books'
  <2> USE DEF RequestInv, LimitInv, GatewayTypeOK
  <2> SUFFICES ASSUME NEW v \in Users PROVE Book(v)'
    BY DEF Books, Book
  <2>1. CASE v = u
    BY <2>1, RefillBooked
  <2>2. CASE v # u
    <3>1. limiters[v] = None \/ (limiters[v] \in Requests /\ limiters[v] # limiters[u])
      BY <2>2, OwnLimiter
    <3> QED
      BY <2>2, <3>1 DEF Books, Book
  <2> QED
    BY <2>1, <2>2
<1> QED
  BY <1>1, <1>2, <1>3 DEF RequestInv, LimitInv

\* The other steps of a request touch no limiter.
LEMMA PassKeeps ==
  ASSUME RequestInv, NEW r \in Requests, Arrive(r) \/ Refuse(r) \/ TooMany(r) \/ Answer(r)
  PROVE  RequestInv'
<1> USE GatewayAssumption
<1>1. UNCHANGED <<limiting, part>>
  BY DEF Arrive, Refuse, TooMany, Answer
<1>2. /\ pc[r] \in {"new", "asking", "limited", "calling"}
      /\ pc' = [pc EXCEPT ![r] = pc'[r]]
      /\ pc'[r] = "answered" \/ (pc[r] = "new" /\ pc'[r] = "asking")
      /\ pc[r] = "calling" => \A b \in Targets[r] : part[<<r, b>>] # "sent"
  BY DEF Arrive, Refuse, TooMany, Answer, At, Move, RequestInv, LimitInv, GatewayTypeOK
<1>3. GatewayTypeOK'
  BY <1>1, <1>2 DEF limiting, RequestInv, LimitInv, GatewayTypeOK
<1>4. Makers' /\ Known'
  BY <1>1, <1>2 DEF limiting, RequestInv, LimitInv, GatewayTypeOK, Makers, Known
<1>5. Books'
  BY <1>1 DEF limiting, RequestInv, LimitInv, Books, Book
<1>6. Waited'
  BY <1>1, <1>2 DEF RequestInv, LimitInv, GatewayTypeOK, Waited
<1> QED
  BY <1>3, <1>4, <1>5, <1>6 DEF RequestInv, LimitInv

LEMMA CallKeeps ==
  ASSUME RequestInv, NEW r \in Requests, NEW b \in Backends, Reply(r, b) \/ CallFails(r, b)
  PROVE  RequestInv'
<1>1. UNCHANGED <<pc, limiting>>
  BY DEF Reply, CallFails
<1>2. part' = part \/ \E how \in {"ok", "failed"} : part' = [part EXCEPT ![<<r, b>>] = how]
  BY DEF Reply, CallFails, Settled
<1>3. GatewayTypeOK' /\ Makers' /\ Known' /\ Books'
  BY <1>1, <1>2 DEF limiting, RequestInv, LimitInv, GatewayTypeOK, Makers, Known, Books, Book
<1>4. Waited'
  BY <1>1, <1>2 DEF RequestInv, LimitInv, GatewayTypeOK, Waited
<1> QED
  BY <1>3, <1>4 DEF RequestInv, LimitInv

LEMMA RequestKept == RequestInv /\ [Next]_vars => RequestInv'
<1> SUFFICES ASSUME RequestInv, [Next]_vars PROVE RequestInv'
  OBVIOUS
<1>1. CASE Elsewhere \/ UNCHANGED vars
  BY <1>1, ElsewhereKeeps, NothingMoved DEF vars
<1>2. ASSUME NEW r \in Requests, Arrive(r) \/ Refuse(r) \/ Serve(r)
      PROVE  RequestInv'
  BY <1>2, LookupKeeps, CreateKeeps, AllowKeeps, PassKeeps DEF Serve
<1> QED
  BY <1>1, <1>2, CallKeeps, RefillKeeps, Cases

-----------------------------------------------------------------------------
(* The theorems. *)

GatewayInv == ServiceInv /\ RequestInv

THEOREM GatewayInvariant == Spec => []GatewayInv
<1>1. Init => GatewayInv
  BY ServiceInitially, RequestInitially DEF Init, GatewayInv
<1>2. GatewayInv /\ [Next]_vars => GatewayInv'
  BY ServiceKept, StepServes, RequestKept DEF GatewayInv
<1> QED
  BY <1>1, <1>2, PTL DEF Spec

\* Types; no limiter is ever overdrawn.
THEOREM GatewayTypes == Spec => []TypeOK
<1>1. GatewayInv => TypeOK
  BY DEF GatewayInv, ServiceInv, RequestInv, LimitInv, TypeOK
<1> QED
  BY <1>1, GatewayInvariant, PTL

\* No publisher or consumer works on a closed connection, whenever a server is stopped.
THEOREM JoinBeforeClose == Spec => []WorkersInside
<1>1. GatewayInv => WorkersInside
  BY DEF GatewayInv, ServiceInv, Quiet, WorkersInside
<1> QED
  BY <1>1, GatewayInvariant, PTL

\* A request is cut off only by a server whose ten seconds ran out.
THEOREM StopsInOrder == Spec => []CutHasCause
<1>1. GatewayInv => CutHasCause
  BY DEF GatewayInv, ServiceInv, InTime, CutHasCause
<1> QED
  BY <1>1, GatewayInvariant, PTL

\* A service on pgxpool never exits inside a transaction of a request.
THEOREM TransactionsEnd == Spec => []NoTransactionCut
<1>1. GatewayInv => NoTransactionCut
  BY DEF GatewayInv, ServiceInv, PoolEmpty, NoTransactionCut
<1> QED
  BY <1>1, GatewayInvariant, PTL

\* However the first requests of a user overlap, they share one budget.
THEOREM SharedBudget == Spec => []OneBudget
<1>1. GatewayInv => OneBudget
  BY GatewayAssumption
  DEF GatewayInv, RequestInv, LimitInv, GatewayTypeOK, Books, Book, OneBudget
<1> QED
  BY <1>1, GatewayInvariant, PTL

\* No goroutine writes to a response that was sent.
THEOREM FinalAnswers == Spec => AnswerIsFinal
<1>1. GatewayInv /\ [Next]_vars =>
        [\A r \in Requests, b \in Backends :
           pc[r] = "answered" => part'[<<r, b>>] = part[<<r, b>>]]_vars
  <2> SUFFICES ASSUME GatewayInv, [Next]_vars,
                      NEW r \in Requests, NEW b \in Backends, pc[r] = "answered"
               PROVE  part'[<<r, b>>] = part[<<r, b>>]
    OBVIOUS
  <2> USE DEF GatewayInv, RequestInv, LimitInv, GatewayTypeOK, Waited
  <2>1. CASE Elsewhere \/ UNCHANGED vars
    BY <2>1, ElsewhereKeeps DEF vars
  <2>2. ASSUME NEW q \in Requests, Arrive(q) \/ Refuse(q) \/ Serve(q)
        PROVE  part'[<<r, b>>] = part[<<r, b>>]
    BY <2>2 DEF Arrive, Refuse, Serve, Lookup, Create, Allow, At, TooMany, Answer
  <2>3. ASSUME NEW q \in Requests, NEW d \in Backends, Reply(q, d) \/ CallFails(q, d)
        PROVE  part'[<<r, b>>] = part[<<r, b>>]
    BY <2>3 DEF Reply, CallFails, Settled
  <2>4. ASSUME NEW u \in Users, Refill(u)
        PROVE  part'[<<r, b>>] = part[<<r, b>>]
    BY <2>4 DEF Refill
  <2> QED
    BY <2>1, <2>2, <2>3, <2>4, Cases
<1> QED
  BY <1>1, GatewayInvariant, PTL DEF Spec, AnswerIsFinal
=============================================================================
