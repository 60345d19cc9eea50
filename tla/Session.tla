------------------------------ MODULE Session ------------------------------
(***************************************************************************)
(* A signed-in session: the pages of a front end, the cookies of their     *)
(* browser, and the BFF that issues and checks the tokens in them.         *)
(*                                                                         *)
(* A page runs any number of requests of its API client at once.  One that *)
(* is answered 401 starts a refresh, or joins the one that is under way,   *)
(* and then retries.  The cookies are shared by all pages; the promise of  *)
(* the refresh under way belongs to one page and is lost when it reloads.  *)
(* The BFF keeps no session: a token is good until it is too old.          *)
(*                                                                         *)
(* Time passes in ticks; a token is its age, which counts up to its TTL.   *)
(***************************************************************************)
EXTENDS Integers, FiniteSets

CONSTANTS Pages,       \* open tabs of one front end
          Calls,       \* calls of request(), each used again and again
          PageOf,      \* the page a call belongs to
          AccessTTL,   \* lifetime of an access token, in ticks
          RefreshTTL,  \* lifetime of a refresh token, in ticks
          None         \* no promise, no fetch

\* 15 minutes and 7 days; a fetch is over within one tick, so that the answer of a refresh
\* and the retry after it take less than the lifetime of an access token.
ASSUME SessionAssumption ==
  /\ PageOf \in [Calls -> Pages]
  /\ AccessTTL \in Nat /\ RefreshTTL \in Nat /\ 3 <= AccessTTL /\ AccessTTL <= RefreshTTL
  /\ None \notin Calls \cup {"ok", "error", "401"}

\* How long a session may be left alone: 7 days less 15 minutes.
IdleTime == RefreshTTL - AccessTTL + 1

VARIABLES
  jar,     \* the browser's two cookies: the ages of the tokens in them
  user,    \* per page, whether AuthState.user is set, or being restored
  shared,  \* per page, refreshPromise: the call that started it
  pc,      \* where each call of request() is
  body,    \* what it asks for
  waits,   \* the promise it awaits: the call that started it
  net,     \* the fetches under way
  served,  \* history: how often the request of this call took effect upstream
  torn,    \* history: pages where a failed retry dropped a pending refresh
  unused   \* history: ticks since the BFF last let a request through, up to IdleTime

client  == <<user, shared, pc, body, waits>>
history == <<served, torn, unused>>
vars    == <<jar, client, net, history>>

-----------------------------------------------------------------------------
(* Tokens and fetches. *)

Cookies == [access : 0..AccessTTL, refresh : 0..RefreshTTL]
Fresh   == [access |-> 0, refresh |-> 0]
Expired == [access |-> AccessTTL, refresh |-> RefreshTTL]

Older(age, ttl) == IF age < ttl THEN age + 1 ELSE age
Aged(tokens) == [access |-> Older(tokens.access, AccessTTL),
                 refresh |-> Older(tokens.refresh, RefreshTTL)]

\* Who fetches: a call its own request, a call the refresh it started, a page its restore.
Requests  == Calls \X {"call"}
Refreshes == Calls \X {"refresh"}
Restores  == Pages \X {"restore"}
Fetches   == Requests \cup Refreshes \cup Restores

Answers == {"ok", "error", "401"}

\* A request carries the cookies it was sent with, an answer those it sets (or Expired).
\* A fetch that is "late" has seen a tick.
Fetch == [answer : Answers \cup {None}, cookies : Cookies, late : BOOLEAN]

ASSUME NoneAssumption == None \notin Fetch

Sent(tokens) == [answer |-> None, cookies |-> tokens, late |-> FALSE]
Out(f)  == net[f] # None /\ net[f].answer = None
Back(f) == net[f] # None /\ net[f].answer # None

CallsOf(p) == {c \in Calls : PageOf[c] = p}

\* Mutant: only the call that started the refresh goes on.
AwaitingStarter(r) == {c \in {r} : pc[c] = "waiting"}

\* Those who go on when the refresh that r started is over.
Awaiting(r) == {c \in Calls : pc[c] = "waiting" /\ waits[c] = r}

TypeOK ==
  /\ jar \in Cookies
  /\ user \in [Pages -> {"loading", "none", "set"}]
  /\ shared \in [Pages -> Calls \cup {None}]
  /\ pc \in [Calls -> {"idle", "first", "waiting", "retry"}]
  /\ body \in [Calls -> {"api", "login"}]
  /\ waits \in [Calls -> Calls \cup {None}]
  /\ net \in [Fetches -> Fetch \cup {None}]
  /\ served \in [Calls -> Nat]
  /\ torn \subseteq Pages
  /\ unused \in 0..IdleTime
  \* Nobody awaits a promise that is settled, or one of another page.
  /\ \A c \in Calls :
       IF pc[c] = "waiting"
       THEN waits[c] \in CallsOf(PageOf[c]) /\ net[<<waits[c], "refresh">>] # None
       ELSE waits[c] = None

Init ==
  /\ jar = Expired
  /\ user = [p \in Pages |-> "none"]
  /\ shared = [p \in Pages |-> None]
  /\ pc = [c \in Calls |-> "idle"]
  /\ body = [c \in Calls |-> "api"]
  /\ waits = [c \in Calls |-> None]
  /\ net = [f \in Fetches |-> None]
  /\ served = [c \in Calls |-> 0]
  /\ torn = {}
  /\ unused = IdleTime

-----------------------------------------------------------------------------
(* The BFF. *)

Answer(f, a, tokens) ==
  net' = [net EXCEPT ![f] = [answer |-> a, cookies |-> tokens, late |-> @.late]]

\* JWTMiddleware, and behind it the role, the rate limiter and the upstream service, which
\* may have acted though the answer is an error (a timeout, for one).
HandleApi(c) ==
  LET f == <<c, "call">> IN
  /\ Out(f) /\ body[c] = "api"
  /\ \/ /\ net[f].cookies.access = AccessTTL
        /\ Answer(f, "401", Expired)
        /\ UNCHANGED <<served, unused>>
     \/ /\ net[f].cookies.access < AccessTTL
        /\ \/ Answer(f, "ok", Expired) /\ served' = [served EXCEPT ![c] = @ + 1]
           \/ Answer(f, "error", Expired) /\ served' = [served EXCEPT ![c] = @ + 1]
           \/ Answer(f, "error", Expired) /\ UNCHANGED served
        /\ unused' = 0
  /\ UNCHANGED <<jar, client, torn>>

\* Login: 400, 401 for a wrong password, or both tokens anew.
HandleLogin(c) ==
  LET f == <<c, "call">> IN
  /\ Out(f) /\ body[c] = "login"
  /\ \/ Answer(f, "ok", Fresh) /\ served' = [served EXCEPT ![c] = @ + 1]
     \/ \E a \in {"401", "error"} : Answer(f, a, Expired) /\ UNCHANGED served
  /\ UNCHANGED <<jar, client, torn, unused>>

\* Mutant: a refresh issues an access token only.
RefreshedAccessOnly(tokens) == [access |-> 0, refresh |-> tokens.refresh]

\* GenerateTokens for the user named by the refresh token.
Refreshed(tokens) == Fresh

\* Refresh: 401 for a token that is missing or too old, 500, or both tokens anew.
HandleRefresh(f) ==
  /\ f \in Refreshes \cup Restores /\ Out(f)
  /\ \/ net[f].cookies.refresh = RefreshTTL /\ Answer(f, "401", Expired)
     \/ net[f].cookies.refresh < RefreshTTL /\ Answer(f, "ok", Refreshed(net[f].cookies))
     \/ net[f].cookies.refresh < RefreshTTL /\ Answer(f, "error", Expired)
  /\ UNCHANGED <<jar, client, history>>

-----------------------------------------------------------------------------
(* request() in a page. *)

\* The calls cs end, with a value or an error, and are forgotten.
Settle(cs) ==
  /\ pc' = [c \in Calls |-> IF c \in cs THEN "idle" ELSE pc[c]]
  /\ body' = [c \in Calls |-> IF c \in cs THEN "api" ELSE body[c]]
  /\ waits' = [c \in Calls |-> IF c \in cs THEN None ELSE waits[c]]
  /\ served' = [c \in Calls |-> IF c \in cs THEN 0 ELSE served[c]]

\* A page asks for data when a user is signed in; the login form posts through the same
\* client.
Begin(c, b) ==
  /\ pc[c] = "idle"
  /\ user[PageOf[c]] = "set" \/ (user[PageOf[c]] = "none" /\ b = "login")
  /\ pc' = [pc EXCEPT ![c] = "first"]
  /\ body' = [body EXCEPT ![c] = b]
  /\ net' = [net EXCEPT ![<<c, "call">>] = Sent(jar)]
  /\ UNCHANGED <<jar, user, shared, waits, history>>

\* Mutant: whatever is not ok is retried.
RetriedUnlessOk(answer) == answer # "ok"

\* if (res.status === 401)
Retried(answer) == answer = "401"

\* The browser stores the cookies an answer sets before the page sees the answer.
Stored(f) == IF net[f].answer = "ok" THEN net[f].cookies ELSE jar

\* The final answer.
Finish(c) ==
  LET f == <<c, "call">> IN
  /\ Back(f)
  /\ pc[c] = "first" => ~Retried(net[f].answer)
  /\ Settle({c})
  /\ net' = [net EXCEPT ![f] = None]
  /\ IF body[c] = "login" /\ net[f].answer = "ok"
     THEN jar' = Stored(f) /\ user' = [user EXCEPT ![PageOf[c]] = "set"]
     ELSE UNCHANGED <<jar, user>>
  /\ UNCHANGED <<shared, torn, unused>>

\* Mutant: every 401 starts a refresh.
UnauthorizedAlone(c) ==
  LET p == PageOf[c] IN
  /\ pc[c] = "first" /\ Back(<<c, "call">>) /\ Retried(net[<<c, "call">>].answer)
  /\ pc' = [pc EXCEPT ![c] = "waiting"]
  /\ shared' = [shared EXCEPT ![p] = c]
  /\ waits' = [waits EXCEPT ![c] = c]
  /\ net' = [net EXCEPT ![<<c, "call">>] = None, ![<<c, "refresh">>] = Sent(jar)]
  /\ UNCHANGED <<jar, user, body, history>>

\* 401: start a refresh or join the one under way, and await it.
Unauthorized(c) ==
  LET p == PageOf[c] IN
  /\ pc[c] = "first" /\ Back(<<c, "call">>) /\ Retried(net[<<c, "call">>].answer)
  /\ pc' = [pc EXCEPT ![c] = "waiting"]
  /\ IF shared[p] = None
     THEN /\ shared' = [shared EXCEPT ![p] = c]
          /\ waits' = [waits EXCEPT ![c] = c]
          /\ net' = [net EXCEPT ![<<c, "call">>] = None, ![<<c, "refresh">>] = Sent(jar)]
     ELSE /\ waits' = [waits EXCEPT ![c] = shared[p]]
          /\ net' = [net EXCEPT ![<<c, "call">>] = None]
          /\ UNCHANGED shared
  /\ UNCHANGED <<jar, user, body, history>>

\* Mutant: refreshToken() does not look at the status.
RefreshAny(answer) == TRUE

\* if (!res.ok) throw
RefreshOk(answer) == answer = "ok"

\* The refresh r started succeeded: all who await it go on in one turn of the event loop.
\* Each clears refreshPromise, whoever it belongs to now, and sends its request again.
Refresh(r) ==
  LET f == <<r, "refresh">> IN
  /\ Back(f) /\ RefreshOk(net[f].answer)
  /\ jar' = Stored(f)
  /\ pc' = [c \in Calls |-> IF c \in Awaiting(r) THEN "retry" ELSE pc[c]]
  /\ waits' = [c \in Calls |-> IF c \in Awaiting(r) THEN None ELSE waits[c]]
  /\ shared' = [shared EXCEPT ![PageOf[r]] = None]
  /\ net' = [g \in Fetches |->
               IF g = f THEN None
               ELSE IF g \in Awaiting(r) \X {"call"} THEN Sent(Stored(f))
               ELSE net[g]]
  /\ UNCHANGED <<user, body, history>>

\* Mutant: the catch leaves refreshPromise as it is.
RefreshFailedKept(r) ==
  LET f == <<r, "refresh">> IN
  /\ net[f] # None /\ (Back(f) => ~RefreshOk(net[f].answer))
  /\ Settle(Awaiting(r))
  /\ net' = [net EXCEPT ![f] = None]
  /\ UNCHANGED <<jar, user, shared, torn, unused>>

\* The refresh was refused, or its fetch failed: the catch of all who await it.  After a
\* 401 they send the page to /login, which it reaches by Reload.
RefreshFailed(r) ==
  LET f == <<r, "refresh">> IN
  /\ net[f] # None /\ (Back(f) => ~RefreshOk(net[f].answer))
  /\ Settle(Awaiting(r))
  /\ shared' = [shared EXCEPT ![PageOf[r]] = None]
  /\ net' = [net EXCEPT ![f] = None]
  /\ UNCHANGED <<jar, user, torn, unused>>

\* A network error.  The first fetch is outside the try; the retry is inside it, and its
\* catch clears refreshPromise too, though another call may have started it since.
NetworkError(c) ==
  LET p == PageOf[c] IN
  /\ net[<<c, "call">>] # None
  /\ Settle({c})
  /\ net' = [net EXCEPT ![<<c, "call">>] = None]
  /\ IF pc[c] = "retry"
     THEN /\ shared' = [shared EXCEPT ![p] = None]
          /\ torn' = IF shared[p] = None THEN torn ELSE torn \cup {p}
     ELSE UNCHANGED <<shared, torn>>
  /\ UNCHANGED <<jar, user, unused>>

-----------------------------------------------------------------------------
(* Pages and time. *)

\* The page is loaded anew: by its user, by logout(), or by location.assign("/login").
\* What the old page had under way is not heard of any more; restore() asks for a refresh.
Reload(p) ==
  /\ user' = [user EXCEPT ![p] = "loading"]
  /\ shared' = [shared EXCEPT ![p] = None]
  /\ Settle(CallsOf(p))
  /\ net' = [f \in Fetches |->
               IF f = <<p, "restore">> THEN Sent(jar)
               ELSE IF f \in CallsOf(p) \X {"call", "refresh"} THEN None
               ELSE net[f]]
  /\ torn' = torn \ {p}
  /\ UNCHANGED <<jar, unused>>

\* doRestore() ends: answered, or failed.
Restored(p) ==
  LET f == <<p, "restore">> IN
  /\ net[f] # None
  /\ net' = [net EXCEPT ![f] = None]
  /\ \/ Back(f) /\ net[f].answer = "ok" /\ jar' = net[f].cookies /\ user' = [user EXCEPT ![p] = "set"]
     \/ Back(f) /\ net[f].answer # "ok" /\ user' = [user EXCEPT ![p] = "none"] /\ UNCHANGED jar
     \/ Out(f) /\ user' = [user EXCEPT ![p] = "none"] /\ UNCHANGED jar
  /\ UNCHANGED <<shared, pc, body, waits, history>>

\* A fetch sees one tick at most.
Tick ==
  /\ \A f \in Fetches : net[f] # None => ~net[f].late
  /\ jar' = Aged(jar)
  /\ net' = [f \in Fetches |->
               IF net[f] = None THEN None
               ELSE [answer |-> net[f].answer, cookies |-> Aged(net[f].cookies), late |-> TRUE]]
  /\ unused' = Older(unused, IdleTime)
  /\ UNCHANGED <<client, served, torn>>

-----------------------------------------------------------------------------
Serve == \/ \E c \in Calls : HandleApi(c) \/ HandleLogin(c)
         \/ \E f \in Fetches : HandleRefresh(f)

Continue(c) == Finish(c) \/ Unauthorized(c) \/ Refresh(c) \/ RefreshFailed(c) \/ NetworkError(c)

Next ==
  \/ Serve
  \/ \E c \in Calls : Continue(c) \/ \E b \in {"api", "login"} : Begin(c, b)
  \/ \E p \in Pages : Reload(p) \/ Restored(p)
  \/ Tick

Spec == Init /\ [][Next]_vars

\* The BFF answers (server and upstream client have timeouts), and the browser hands every
\* answer to the page that waits for it.
Fairness ==
  \A c \in Calls :
    /\ WF_vars(HandleApi(c)) /\ WF_vars(HandleLogin(c)) /\ WF_vars(HandleRefresh(<<c, "refresh">>))
    /\ WF_vars(Finish(c) \/ Unauthorized(c) \/ Refresh(c))
    /\ WF_vars(Back(<<c, "refresh">>) /\ RefreshFailed(c))
FairSpec == Spec /\ Fairness

-----------------------------------------------------------------------------
\* One refresh at a time: a page has at most one refresh under way, the one its
\* refreshPromise names, however its calls overlap.  Only a retry that ends in a network
\* error, and whose catch drops the promise of a later refresh, leads to more.
OverlapHasCause ==
  \A c \in Calls :
    PageOf[c] \notin torn /\ net[<<c, "refresh">>] # None => shared[PageOf[c]] = c

\* No call takes effect twice: a request is retried only if the BFF refused it before
\* anything behind it acted.
NoEffectTwice == \A c \in Calls : served[c] <= 1

\* A user whose refresh succeeded is not told "401" by the retry, whatever other pages do
\* to the cookies in the meantime.
RetryIsAuthorized ==
  \A c \in Calls :
    pc[c] = "retry" /\ body[c] = "api" /\ Back(<<c, "call">>) => net[<<c, "call">>].answer # "401"

\* Whoever uses the application at least every IdleTime ticks keeps a refresh
\* token that is good, and is never asked to sign in again: each refresh renews both
\* tokens, and an older answer that overwrites the cookies of a newer one does no harm.
SessionSlides == unused < IdleTime => jar.refresh < RefreshTTL

\* Every call is settled: nobody waits for a refresh that is over.
EveryCallSettles == \A c \in Calls : (pc[c] # "idle") ~> (pc[c] = "idle")
=============================================================================
