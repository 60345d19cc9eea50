--------------------------- MODULE SessionProofs ---------------------------
(***************************************************************************)
(* Proofs about Session, for any number of pages and calls and any         *)
(* lifetimes of the tokens: one refresh at a time, no call that takes      *)
(* effect twice, no retry that is refused, and a session that slides.      *)
(*                                                                         *)
(* The invariant is in five parts beside the types: who holds a promise,   *)
(* what a request has done so far, how old the tokens on their way are,    *)
(* what a retry carries, and how old the refresh token in the jar may be.  *)
(***************************************************************************)
EXTENDS Session, TLAPS

\* A refresh under way has a caller that awaits it, and a request its call.
Promises ==
  /\ \A p \in Pages : shared[p] # None =>
       net[<<shared[p], "refresh">>] # None /\ PageOf[shared[p]] = p
  /\ \A c \in Calls :
       /\ net[<<c, "refresh">>] # None => pc[c] = "waiting" /\ waits[c] = c
       /\ net[<<c, "call">>] # None <=> pc[c] \in {"first", "retry"}

\* A request that took effect has its answer, and is not refused.
Effect(c) ==
  /\ served[c] \in {0, 1}
  /\ served[c] = 1 => Back(<<c, "call">>) /\ net[<<c, "call">>].answer # "401"
Effects == \A c \in Calls : Effect(c)

\* A good access token is as old as the refresh token issued with it.
Coherent(tokens) == tokens.access < AccessTTL => tokens.refresh = tokens.access

\* The fetches whose answer sets cookies, if it is "ok".
SetsCookies(f) ==
  \/ f \in Refreshes \cup Restores
  \/ \E c \in Calls : f = <<c, "call">> /\ body[c] = "login"

\* Cookies on their way into the jar have seen as many ticks as their fetch.
Young(tokens, late) ==
  tokens.access <= (IF late THEN 1 ELSE 0) /\ tokens.refresh = tokens.access
Age(f) ==
  /\ Out(f) => Coherent(net[f].cookies)
  /\ Back(f) /\ SetsCookies(f) /\ net[f].answer = "ok" => Young(net[f].cookies, net[f].late)
Ages == Coherent(jar) /\ \A f \in Fetches : Age(f)

\* A retry carries the tokens its refresh brought.
Retry(c) ==
  pc[c] = "retry" =>
    /\ Out(<<c, "call">>) =>
         net[<<c, "call">>].cookies.access <= IF net[<<c, "call">>].late THEN 2 ELSE 1
    /\ Back(<<c, "call">>) /\ body[c] = "api" => net[<<c, "call">>].answer # "401"
Retries == \A c \in Calls : Retry(c)

\* The refresh token in the jar is no older than the one a request was sent with, unless it
\* came with an answer since; so it is renewed as long as requests get through.
Renewed(c) ==
  Out(<<c, "call">>) =>
    \/ jar.refresh <= net[<<c, "call">>].cookies.refresh
    \/ jar.refresh <= IF net[<<c, "call">>].late THEN 2 ELSE 1
Renewal ==
  /\ \A c \in Calls : Renewed(c)
  /\ unused < IdleTime => jar.refresh <= unused + AccessTTL - 1

SessionInv ==
  TypeOK /\ Promises /\ OverlapHasCause /\ Effects /\ Ages /\ Retries /\ Renewal

-----------------------------------------------------------------------------
\* The names of the fetches of calls and pages.
LEMMA FetchNames ==
  /\ \A c \in Calls : <<c, "call">> \in Fetches /\ <<c, "refresh">> \in Fetches
  /\ \A p \in Pages : <<p, "restore">> \in Fetches
  /\ Refreshes \cup Restores \subseteq Fetches
  /\ \A c \in Calls : <<c, "call">> \notin Refreshes \cup Restores
  BY DEF Fetches, Requests, Refreshes, Restores

\* Tokens are cookies.
LEMMA CookieTypes ==
  /\ Fresh \in Cookies /\ Expired \in Cookies
  /\ \A t \in Cookies : Aged(t) \in Cookies /\ Refreshed(t) = Fresh
  BY SessionAssumption DEF Cookies, Fresh, Expired, Aged, Older, Refreshed

\* An answer is a fetch, and no other fetch changes.
LEMMA AnswerNet ==
  ASSUME TypeOK, NEW f \in Fetches, net[f] # None, NEW a \in Answers, NEW t \in Cookies,
         Answer(f, a, t)
  PROVE  /\ net' \in [Fetches -> Fetch \cup {None}]
         /\ net'[f] = [answer |-> a, cookies |-> t, late |-> net[f].late]
         /\ net'[f] # None
         /\ \A g \in Fetches : g # f => net'[g] = net[g]
         /\ \A g \in Fetches : net'[g] # None <=> net[g] # None
  <1>1. net[f] \in Fetch
    BY DEF TypeOK
  <1>2. [answer |-> a, cookies |-> t, late |-> net[f].late] \in Fetch
    BY <1>1 DEF Fetch
  <1> QED
    BY <1>2, NoneAssumption DEF TypeOK, Answer

\* A fetch that is sent.
LEMMA SentFetch ==
  ASSUME NEW t \in Cookies
  PROVE  /\ Sent(t) \in Fetch /\ Sent(t) # None
         /\ Sent(t).answer = None /\ Sent(t).cookies = t /\ ~Sent(t).late
  <1>1. Sent(t) = [answer |-> None, cookies |-> t, late |-> FALSE]
    BY DEF Sent
  <1>2. Sent(t) \in Fetch
    BY <1>1 DEF Fetch
  <1>3. Sent(t) # None
    BY <1>2, NoneAssumption
  <1>4. Sent(t).answer = None /\ Sent(t).cookies = t /\ ~Sent(t).late
    BY <1>1
  <1> QED
    BY <1>2, <1>3, <1>4

\* Ending calls keeps the types.
LEMMA SettleTypes ==
  ASSUME TypeOK, NEW cs \in SUBSET Calls, Settle(cs)
  PROVE  /\ pc' \in [Calls -> {"idle", "first", "waiting", "retry"}]
         /\ body' \in [Calls -> {"api", "login"}]
         /\ waits' \in [Calls -> Calls \cup {None}]
         /\ served' \in [Calls -> Nat]
         /\ \A c \in cs : pc'[c] = "idle" /\ waits'[c] = None /\ served'[c] = 0
         /\ \A c \in Calls \ cs : /\ pc'[c] = pc[c] /\ body'[c] = body[c]
                                  /\ waits'[c] = waits[c] /\ served'[c] = served[c]
  BY DEF TypeOK, Settle

\* A tick ages what the fetches carry and changes nothing else in them.
LEMMA TickNet ==
  ASSUME TypeOK, Tick
  PROVE  /\ net' \in [Fetches -> Fetch \cup {None}]
         /\ \A f \in Fetches :
              /\ net'[f] # None <=> net[f] # None
              /\ net[f] # None => /\ net'[f].answer = net[f].answer
                                  /\ net'[f].cookies = Aged(net[f].cookies)
                                  /\ ~net[f].late /\ net'[f].late
  <1>1. ASSUME NEW f \in Fetches, net[f] # None
        PROVE  /\ net'[f] \in Fetch /\ net'[f] # None
               /\ net'[f].answer = net[f].answer /\ net'[f].cookies = Aged(net[f].cookies)
               /\ ~net[f].late /\ net'[f].late
    <2>1. net[f] \in Fetch
      BY <1>1 DEF TypeOK
    <2>2. net'[f] = [answer |-> net[f].answer, cookies |-> Aged(net[f].cookies), late |-> TRUE]
      BY <1>1 DEF Tick
    <2>3. net'[f] \in Fetch
      BY <2>1, <2>2, CookieTypes DEF Fetch
    <2>4. ~net[f].late /\ net'[f].late
      BY <1>1, <2>2 DEF Tick
    <2>5. net'[f].answer = net[f].answer /\ net'[f].cookies = Aged(net[f].cookies)
      BY <2>2
    <2>6. net'[f] # None
      BY <2>3, NoneAssumption
    <2> QED
      BY <2>3, <2>4, <2>5, <2>6
  <1>2. \A f \in Fetches : net[f] = None => net'[f] = None
    BY DEF Tick
  <1>3. net' \in [Fetches -> Fetch \cup {None}]
    BY <1>1, <1>2 DEF Tick
  <1> QED
    BY <1>1, <1>2, <1>3

\* The initial state satisfies the invariant.
LEMMA InitSession == Init => SessionInv
  <1> SUFFICES ASSUME Init PROVE SessionInv
    OBVIOUS
  <1>1. TypeOK
    BY CookieTypes, SessionAssumption DEF Init, TypeOK, IdleTime
  <1>2. Promises /\ OverlapHasCause
    BY FetchNames DEF Init, Promises, OverlapHasCause
  <1>3. Effects /\ Retries
    BY FetchNames DEF Init, Effects, Effect, Retries, Retry, Out, Back
  <1>4. Ages
    BY SessionAssumption DEF Init, Ages, Age, Coherent, Expired, Out, Back
  <1>5. Renewal
    <2>1. \A c \in Calls : ~Out(<<c, "call">>)
      BY FetchNames DEF Init, Out
    <2>2. ~(unused < IdleTime)
      BY SessionAssumption DEF Init, IdleTime
    <2> QED
      BY <2>1, <2>2 DEF Renewal, Renewed
  <1> QED
    BY <1>1, <1>2, <1>3, <1>4, <1>5 DEF SessionInv

-----------------------------------------------------------------------------
\* Every step keeps the types; that nobody awaits a settled promise rests on Promises.
LEMMA TypesStep ==
  ASSUME TypeOK, Promises, [Next]_vars
  PROVE  TypeOK'
  <1> USE FetchNames, CookieTypes
  <1>1. ASSUME NEW c \in Calls, HandleApi(c) PROVE TypeOK'
    <2> DEFINE f == <<c, "call">>
    <2>1. PICK a \in Answers : Answer(f, a, Expired)
      BY <1>1 DEF HandleApi, Answers
    <2>2. net[f] # None
      BY <1>1 DEF HandleApi, Out
    <2>3. served' \in [Calls -> Nat] /\ unused' \in 0..IdleTime
      BY <1>1, SessionAssumption DEF HandleApi, TypeOK, IdleTime
    <2>4. /\ net' \in [Fetches -> Fetch \cup {None}]
          /\ \A g \in Fetches : net'[g] # None <=> net[g] # None
      BY <2>1, <2>2, AnswerNet
    <2> QED
      BY <1>1, <2>3, <2>4 DEF HandleApi, TypeOK, client, CallsOf
  <1>2. ASSUME NEW c \in Calls, HandleLogin(c) PROVE TypeOK'
    <2> DEFINE f == <<c, "call">>
    <2>1. PICK a \in Answers, t \in Cookies : Answer(f, a, t)
      BY <1>2 DEF HandleLogin, Answers
    <2>2. net[f] # None
      BY <1>2 DEF HandleLogin, Out
    <2>3. served' \in [Calls -> Nat]
      BY <1>2 DEF HandleLogin, TypeOK
    <2>4. /\ net' \in [Fetches -> Fetch \cup {None}]
          /\ \A g \in Fetches : net'[g] # None <=> net[g] # None
      BY <2>1, <2>2, AnswerNet
    <2> QED
      BY <1>2, <2>3, <2>4 DEF HandleLogin, TypeOK, client, CallsOf
  <1>3. ASSUME NEW f \in Fetches, HandleRefresh(f) PROVE TypeOK'
    <2>1. net[f] # None /\ net[f].cookies \in Cookies
      BY <1>3 DEF HandleRefresh, Out, TypeOK, Fetch
    <2>2. PICK a \in Answers, t \in Cookies : Answer(f, a, t)
      BY <1>3, <2>1 DEF HandleRefresh, Answers
    <2>3. /\ net' \in [Fetches -> Fetch \cup {None}]
          /\ \A g \in Fetches : net'[g] # None <=> net[g] # None
      BY <2>1, <2>2, AnswerNet
    <2> QED
      BY <1>3, <2>3 DEF HandleRefresh, TypeOK, client, history, CallsOf
  <1>4. ASSUME NEW c \in Calls, Finish(c) PROVE TypeOK'
    <2> DEFINE f == <<c, "call">>
    <2>1. net[f] # None /\ net[f] \in Fetch
      BY <1>4 DEF Finish, Back, TypeOK
    <2>2. jar' \in Cookies /\ user' \in [Pages -> {"loading", "none", "set"}]
      BY <1>4, <2>1, SessionAssumption DEF Finish, Stored, TypeOK, Fetch
    <2>3. net' \in [Fetches -> Fetch \cup {None}] /\ \A d \in Calls : net'[<<d, "refresh">>] = net[<<d, "refresh">>]
      BY <1>4 DEF Finish, TypeOK
    <2>4. Settle({c}) /\ {c} \in SUBSET Calls /\ UNCHANGED <<shared, torn, unused>>
      BY <1>4 DEF Finish
    <2>5. ASSUME NEW d \in Calls
          PROVE  IF pc'[d] = "waiting"
                 THEN waits'[d] \in CallsOf(PageOf[d]) /\ net'[<<waits'[d], "refresh">>] # None
                 ELSE waits'[d] = None
      <3>1. CASE d = c
        BY <2>4, <3>1, SettleTypes
      <3>2. CASE d # c
        <4>1. pc'[d] = pc[d] /\ waits'[d] = waits[d]
          BY <2>4, <3>2, SettleTypes
        <4> QED
          BY <2>3, <4>1 DEF TypeOK, CallsOf
      <3> QED
        BY <3>1, <3>2
    <2> QED
      BY <2>2, <2>3, <2>4, <2>5, SettleTypes DEF TypeOK
  <1>5. ASSUME NEW c \in Calls, Unauthorized(c) PROVE TypeOK'
    <2> DEFINE p == PageOf[c]
    <2>1. p \in Pages /\ jar \in Cookies
      BY SessionAssumption DEF TypeOK
    <2>2. CASE shared[p] = None
      <3>1. net' \in [Fetches -> Fetch \cup {None}]
        BY <1>5, <2>1, <2>2, SentFetch DEF Unauthorized, TypeOK
      <3>2. net'[<<c, "refresh">>] # None
        BY <1>5, <2>1, <2>2, SentFetch DEF Unauthorized, TypeOK
      <3>3. \A d \in Calls \ {c} : net'[<<d, "refresh">>] = net[<<d, "refresh">>]
        BY <1>5, <2>2 DEF Unauthorized, TypeOK
      <3> QED
        BY <1>5, <2>1, <2>2, <3>1, <3>2, <3>3 DEF Unauthorized, TypeOK, history, CallsOf
    <2>3. CASE shared[p] # None
      <3>1. shared[p] \in CallsOf(p) /\ net[<<shared[p], "refresh">>] # None
        BY <2>1, <2>3 DEF TypeOK, Promises, CallsOf
      <3>2. net' \in [Fetches -> Fetch \cup {None}] /\ \A d \in Calls : net'[<<d, "refresh">>] = net[<<d, "refresh">>]
        BY <1>5, <2>3 DEF Unauthorized, TypeOK
      <3> QED
        BY <1>5, <2>1, <2>3, <3>1, <3>2 DEF Unauthorized, TypeOK, history, CallsOf
    <2> QED
      BY <2>2, <2>3
  <1>6. ASSUME NEW r \in Calls, Refresh(r) PROVE TypeOK'
    <2> DEFINE f == <<r, "refresh">>
    <2>1. net[f] \in Fetch /\ Stored(f) \in Cookies
      BY <1>6 DEF Refresh, Back, Stored, TypeOK, Fetch
    <2>2. net' \in [Fetches -> Fetch \cup {None}]
      BY <1>6, <2>1, SentFetch DEF Refresh, TypeOK
    <2>3. \A d \in Calls : d # r => net'[<<d, "refresh">>] = net[<<d, "refresh">>]
      BY <1>6 DEF Refresh, Awaiting
    <2>4. shared' \in [Pages -> Calls \cup {None}]
      BY <1>6 DEF Refresh, TypeOK
    <2>5. pc' \in [Calls -> {"idle", "first", "waiting", "retry"}] /\ waits' \in [Calls -> Calls \cup {None}]
      BY <1>6 DEF Refresh, TypeOK
    <2>6. ASSUME NEW d \in Calls
          PROVE  IF pc'[d] = "waiting"
                 THEN waits'[d] \in CallsOf(PageOf[d]) /\ net'[<<waits'[d], "refresh">>] # None
                 ELSE waits'[d] = None
      <3>1. CASE d \in Awaiting(r)
        BY <1>6, <3>1 DEF Refresh
      <3>2. CASE d \notin Awaiting(r)
        <4>1. pc'[d] = pc[d] /\ waits'[d] = waits[d]
          BY <1>6, <3>2 DEF Refresh
        <4>2. pc[d] = "waiting" => waits[d] # r /\ waits[d] \in Calls
          BY <3>2 DEF Awaiting, TypeOK, CallsOf
        <4> QED
          BY <4>1, <4>2, <2>3 DEF TypeOK
      <3> QED
        BY <3>1, <3>2
    <2> QED
      BY <1>6, <2>1, <2>2, <2>4, <2>5, <2>6 DEF Refresh, TypeOK, history
  <1>7. ASSUME NEW r \in Calls, RefreshFailed(r) PROVE TypeOK'
    <2>1. Settle(Awaiting(r)) /\ Awaiting(r) \in SUBSET Calls
      BY <1>7 DEF RefreshFailed, Awaiting
    <2>2. net' \in [Fetches -> Fetch \cup {None}] /\ shared' \in [Pages -> Calls \cup {None}]
      BY <1>7 DEF RefreshFailed, TypeOK
    <2>3. \A d \in Calls : d # r => net'[<<d, "refresh">>] = net[<<d, "refresh">>]
      BY <1>7 DEF RefreshFailed, TypeOK
    <2>4. ASSUME NEW d \in Calls
          PROVE  IF pc'[d] = "waiting"
                 THEN waits'[d] \in CallsOf(PageOf[d]) /\ net'[<<waits'[d], "refresh">>] # None
                 ELSE waits'[d] = None
      <3>1. CASE d \in Awaiting(r)
        BY <2>1, <3>1, SettleTypes
      <3>2. CASE d \notin Awaiting(r)
        <4>1. pc'[d] = pc[d] /\ waits'[d] = waits[d]
          BY <2>1, <3>2, SettleTypes
        <4>2. pc[d] = "waiting" => waits[d] # r /\ waits[d] \in Calls
          BY <3>2 DEF Awaiting, TypeOK, CallsOf
        <4> QED
          BY <4>1, <4>2, <2>3 DEF TypeOK
      <3> QED
        BY <3>1, <3>2
    <2> QED
      BY <1>7, <2>1, <2>2, <2>4, SettleTypes DEF RefreshFailed, TypeOK
  <1>8. ASSUME NEW c \in Calls, NetworkError(c) PROVE TypeOK'
    <2>1. Settle({c}) /\ {c} \in SUBSET Calls /\ PageOf[c] \in Pages
      BY <1>8, SessionAssumption DEF NetworkError
    <2>2. net' \in [Fetches -> Fetch \cup {None}] /\ \A d \in Calls : net'[<<d, "refresh">>] = net[<<d, "refresh">>]
      BY <1>8 DEF NetworkError, TypeOK
    <2>3. shared' \in [Pages -> Calls \cup {None}] /\ torn' \subseteq Pages
      BY <1>8, <2>1 DEF NetworkError, TypeOK
    <2> QED
      BY <1>8, <2>1, <2>2, <2>3, SettleTypes DEF NetworkError, TypeOK
  <1>9. ASSUME NEW c \in Calls, NEW b \in {"api", "login"}, Begin(c, b) PROVE TypeOK'
    <2>1. net' \in [Fetches -> Fetch \cup {None}] /\ \A d \in Calls : net'[<<d, "refresh">>] = net[<<d, "refresh">>]
      BY <1>9, SentFetch DEF Begin, TypeOK
    <2> QED
      BY <1>9, <2>1 DEF Begin, TypeOK, history
  <1>10. ASSUME NEW p \in Pages, Reload(p) PROVE TypeOK'
    <2>1. Settle(CallsOf(p)) /\ CallsOf(p) \in SUBSET Calls
      BY <1>10 DEF Reload, CallsOf
    <2>2. net' \in [Fetches -> Fetch \cup {None}]
      BY <1>10, SentFetch DEF Reload, TypeOK
    <2>3. \A d \in Calls \ CallsOf(p) : net'[<<d, "refresh">>] = net[<<d, "refresh">>]
      BY <1>10 DEF Reload
    <2>4. \A d \in Calls \ CallsOf(p) : CallsOf(PageOf[d]) \cap CallsOf(p) = {}
      BY DEF CallsOf
    <2>5. ASSUME NEW d \in Calls
          PROVE  IF pc'[d] = "waiting"
                 THEN waits'[d] \in CallsOf(PageOf[d]) /\ net'[<<waits'[d], "refresh">>] # None
                 ELSE waits'[d] = None
      <3>1. CASE d \in CallsOf(p)
        BY <2>1, <3>1, SettleTypes
      <3>2. CASE d \notin CallsOf(p)
        <4>1. pc'[d] = pc[d] /\ waits'[d] = waits[d]
          BY <2>1, <3>2, SettleTypes
        <4>2. pc[d] = "waiting" => waits[d] \in Calls \ CallsOf(p)
          BY <3>2, <2>4 DEF TypeOK, CallsOf
        <4> QED
          BY <4>1, <4>2, <2>3 DEF TypeOK
      <3> QED
        BY <3>1, <3>2
    <2> QED
      BY <1>10, <2>1, <2>2, <2>5, SettleTypes DEF Reload, TypeOK
  <1>11. ASSUME NEW p \in Pages, Restored(p) PROVE TypeOK'
    <2> DEFINE f == <<p, "restore">>
    <2>1. net[f] \in Fetch
      BY <1>11 DEF Restored, TypeOK
    <2>2. jar' \in Cookies /\ user' \in [Pages -> {"loading", "none", "set"}]
      BY <1>11, <2>1 DEF Restored, TypeOK, Fetch
    <2>3. net' \in [Fetches -> Fetch \cup {None}] /\ \A d \in Calls : net'[<<d, "refresh">>] = net[<<d, "refresh">>]
      BY <1>11 DEF Restored, TypeOK
    <2> QED
      BY <1>11, <2>2, <2>3 DEF Restored, TypeOK, history
  <1>12. CASE Tick
    <2>1. jar' \in Cookies
      BY <1>12 DEF Tick, TypeOK
    <2>2. unused' \in 0..IdleTime
      BY <1>12, SessionAssumption DEF Tick, TypeOK, Older, IdleTime
    <2> QED
      BY <1>12, <2>1, <2>2, TickNet DEF Tick, TypeOK, client, CallsOf
  <1>13. CASE UNCHANGED vars
    BY <1>13 DEF vars, client, history, TypeOK
  <1> QED
    BY <1>1, <1>2, <1>3, <1>4, <1>5, <1>6, <1>7, <1>8, <1>9, <1>10, <1>11, <1>12, <1>13
    DEF Next, Serve, Continue

\* A step that starts and ends no fetch of a call keeps the promises.
LEMMA PromisesKept ==
  ASSUME TypeOK, Promises, UNCHANGED <<shared, pc, waits>>,
         \A d \in Calls : /\ net'[<<d, "refresh">>] # None <=> net[<<d, "refresh">>] # None
                          /\ net'[<<d, "call">>] # None <=> net[<<d, "call">>] # None
  PROVE  Promises'
  <1>1. \A p \in Pages : shared[p] # None => shared[p] \in Calls
    BY DEF TypeOK
  <1> QED
    BY <1>1 DEF Promises

\* Every step keeps the promises.
LEMMA PromisesStep ==
  ASSUME TypeOK, Promises, [Next]_vars
  PROVE  Promises'
  <1> USE FetchNames
  <1>1. ASSUME NEW f \in Fetches, NEW a \in Answers, NEW t \in Cookies, net[f] # None,
               Answer(f, a, t), UNCHANGED client
        PROVE  Promises'
    BY <1>1, AnswerNet, PromisesKept DEF client
  <1>2. ASSUME NEW c \in Calls, HandleApi(c) PROVE Promises'
    <2>1. PICK a \in Answers : Answer(<<c, "call">>, a, Expired)
      BY <1>2 DEF HandleApi, Answers
    <2> QED
      BY <1>1, <1>2, <2>1, CookieTypes DEF HandleApi, Out
  <1>3. ASSUME NEW c \in Calls, HandleLogin(c) PROVE Promises'
    <2>1. PICK a \in Answers, t \in Cookies : Answer(<<c, "call">>, a, t)
      BY <1>3, CookieTypes DEF HandleLogin, Answers
    <2> QED
      BY <1>1, <1>3, <2>1 DEF HandleLogin, Out
  <1>4. ASSUME NEW f \in Fetches, HandleRefresh(f) PROVE Promises'
    <2>1. net[f] # None /\ net[f].cookies \in Cookies
      BY <1>4 DEF HandleRefresh, Out, TypeOK, Fetch
    <2>2. PICK a \in Answers, t \in Cookies : Answer(f, a, t)
      BY <1>4, <2>1, CookieTypes DEF HandleRefresh, Answers
    <2> QED
      BY <1>1, <1>4, <2>1, <2>2 DEF HandleRefresh
  \* c is idle now, and had no refresh of its own under way.
  <1>5. ASSUME NEW c \in Calls, Settle({c}), net' = [net EXCEPT ![<<c, "call">>] = None],
               net[<<c, "call">>] # None,
               shared' = shared \/ \E p \in Pages : shared' = [shared EXCEPT ![p] = None]
        PROVE  Promises'
    <2>1. {c} \in SUBSET Calls
      OBVIOUS
    <2>2. \A d \in Calls : net'[<<d, "refresh">>] = net[<<d, "refresh">>]
      BY <1>5 DEF TypeOK
    <2>3. \A d \in Calls \ {c} : net'[<<d, "call">>] = net[<<d, "call">>]
      BY <1>5 DEF TypeOK
    <2>4. net'[<<c, "call">>] = None /\ net[<<c, "refresh">>] = None
      BY <1>5 DEF TypeOK, Promises
    <2>5. \A p \in Pages : shared'[p] # None => shared'[p] = shared[p] /\ shared[p] \in Calls
      BY <1>5 DEF TypeOK
    <2> QED
      BY <1>5, <2>1, <2>2, <2>3, <2>4, <2>5, SettleTypes DEF Promises
  <1>6. ASSUME NEW c \in Calls, Finish(c) PROVE Promises'
    BY <1>5, <1>6 DEF Finish, Back
  <1>7. ASSUME NEW c \in Calls, NetworkError(c) PROVE Promises'
    BY <1>5, <1>7, SessionAssumption DEF NetworkError
  <1>8. ASSUME NEW c \in Calls, Unauthorized(c) PROVE Promises'
    <2> DEFINE p == PageOf[c]
    <2>1. p \in Pages /\ jar \in Cookies
      BY SessionAssumption DEF TypeOK
    <2>2. CASE shared[p] = None
      <3>1. net'[<<c, "refresh">>] # None /\ net'[<<c, "call">>] = None
        BY <1>8, <2>1, <2>2, SentFetch DEF Unauthorized, TypeOK
      <3>2. \A d \in Calls \ {c} : /\ net'[<<d, "refresh">>] = net[<<d, "refresh">>]
                                   /\ net'[<<d, "call">>] = net[<<d, "call">>]
        BY <1>8, <2>2 DEF Unauthorized, TypeOK
      <3>3. shared' = [shared EXCEPT ![p] = c] /\ pc' = [pc EXCEPT ![c] = "waiting"]
            /\ waits' = [waits EXCEPT ![c] = c]
        BY <1>8, <2>2 DEF Unauthorized
      <3>4. ASSUME NEW q \in Pages, shared'[q] # None
            PROVE  net'[<<shared'[q], "refresh">>] # None /\ PageOf[shared'[q]] = q
        <4>1. CASE q = p
          BY <2>1, <3>1, <3>3, <4>1 DEF TypeOK
        <4>2. CASE q # p
          <5>1. shared'[q] = shared[q] /\ shared[q] \in Calls
            BY <2>1, <3>3, <3>4, <4>2 DEF TypeOK
          <5>2. net[<<shared[q], "refresh">>] # None /\ PageOf[shared[q]] = q
            BY <3>4, <5>1 DEF Promises
          <5>3. net'[<<shared[q], "refresh">>] = net[<<shared[q], "refresh">>]
            BY <3>2, <4>2, <5>1, <5>2
          <5> QED
            BY <5>1, <5>2, <5>3
        <4> QED
          BY <4>1, <4>2
      <3>5. \A d \in Calls : pc'[d] = (IF d = c THEN "waiting" ELSE pc[d])
                             /\ waits'[d] = (IF d = c THEN c ELSE waits[d])
        BY <3>3 DEF TypeOK
      <3> QED
        BY <3>1, <3>2, <3>4, <3>5 DEF Promises
    <2>3. CASE shared[p] # None
      <3>1. \A d \in Calls : /\ net'[<<d, "refresh">>] = net[<<d, "refresh">>]
                             /\ d # c => net'[<<d, "call">>] = net[<<d, "call">>]
        BY <1>8, <2>3 DEF Unauthorized, TypeOK
      <3>2. net'[<<c, "call">>] = None /\ net[<<c, "refresh">>] = None
        BY <1>8, <2>3 DEF Unauthorized, TypeOK, Promises
      <3>3. shared' = shared /\ pc' = [pc EXCEPT ![c] = "waiting"]
            /\ waits' = [waits EXCEPT ![c] = shared[p]]
        BY <1>8, <2>3 DEF Unauthorized
      <3>4. \A q \in Pages : shared[q] # None => shared[q] \in Calls
        BY DEF TypeOK
      <3>5. \A d \in Calls : pc'[d] = (IF d = c THEN "waiting" ELSE pc[d])
                             /\ (d # c => waits'[d] = waits[d])
        BY <3>3 DEF TypeOK
      <3>6. ASSUME NEW q \in Pages, shared'[q] # None
            PROVE  net'[<<shared'[q], "refresh">>] # None /\ PageOf[shared'[q]] = q
        <4>1. net'[<<shared[q], "refresh">>] = net[<<shared[q], "refresh">>]
          BY <3>1, <3>3, <3>4, <3>6
        <4> QED
          BY <3>3, <3>6, <4>1 DEF Promises
      <3>7. ASSUME NEW d \in Calls
            PROVE  /\ net'[<<d, "refresh">>] # None => pc'[d] = "waiting" /\ waits'[d] = d
                   /\ net'[<<d, "call">>] # None <=> pc'[d] \in {"first", "retry"}
        BY <3>1, <3>2, <3>5 DEF Promises
      <3> QED
        BY <3>6, <3>7 DEF Promises
    <2> QED
      BY <2>2, <2>3
  <1>9. ASSUME NEW r \in Calls, Refresh(r) PROVE Promises'
    <2> DEFINE f == <<r, "refresh">>
    <2>1. net[f] \in Fetch /\ Stored(f) \in Cookies
      BY <1>9 DEF Refresh, Back, Stored, TypeOK, Fetch
    <2>2. net'[f] = None /\ \A d \in Calls \ {r} : net'[<<d, "refresh">>] = net[<<d, "refresh">>]
      BY <1>9 DEF Refresh
    <2>3. ASSUME NEW d \in Calls PROVE net'[<<d, "call">>] # None <=> pc'[d] \in {"first", "retry"}
      <3>1. CASE d \in Awaiting(r)
        BY <1>9, <2>1, <3>1, SentFetch DEF Refresh
      <3>2. CASE d \notin Awaiting(r)
        BY <1>9, <3>2 DEF Refresh, Promises
      <3> QED
        BY <3>1, <3>2
    <2>4. ASSUME NEW d \in Calls, net'[<<d, "refresh">>] # None
          PROVE  pc'[d] = "waiting" /\ waits'[d] = d
      <3>1. d # r /\ pc[d] = "waiting" /\ waits[d] = d
        BY <2>2, <2>4 DEF Promises
      <3> QED
        BY <1>9, <3>1 DEF Refresh, Awaiting
    <2>5. ASSUME NEW q \in Pages, shared'[q] # None
          PROVE  net'[<<shared'[q], "refresh">>] # None /\ PageOf[shared'[q]] = q
      <3>1. q # PageOf[r] /\ shared'[q] = shared[q] /\ shared[q] \in Calls
        BY <1>9, <2>5, SessionAssumption DEF Refresh, TypeOK
      <3> QED
        BY <2>2, <2>5, <3>1 DEF Promises
    <2> QED
      BY <2>3, <2>4, <2>5 DEF Promises
  <1>10. ASSUME NEW r \in Calls, RefreshFailed(r) PROVE Promises'
    <2>1. Settle(Awaiting(r)) /\ Awaiting(r) \in SUBSET Calls
      BY <1>10 DEF RefreshFailed, Awaiting
    <2>2. /\ net'[<<r, "refresh">>] = None
          /\ \A d \in Calls : /\ net'[<<d, "call">>] = net[<<d, "call">>]
                              /\ d # r => net'[<<d, "refresh">>] = net[<<d, "refresh">>]
      BY <1>10 DEF RefreshFailed, TypeOK
    <2>3. ASSUME NEW d \in Calls
          PROVE  /\ net'[<<d, "call">>] # None <=> pc'[d] \in {"first", "retry"}
                 /\ net'[<<d, "refresh">>] # None => pc'[d] = "waiting" /\ waits'[d] = d
      <3>1. CASE d \in Awaiting(r)
        <4>1. pc[d] = "waiting" /\ waits[d] = r /\ pc'[d] = "idle"
          BY <2>1, <3>1, SettleTypes DEF Awaiting
        <4> QED
          BY <2>2, <4>1 DEF Promises
      <3>2. CASE d \notin Awaiting(r)
        <4>1. pc'[d] = pc[d] /\ waits'[d] = waits[d]
          BY <2>1, <3>2, SettleTypes
        <4> QED
          BY <2>2, <4>1 DEF Promises
      <3> QED
        BY <3>1, <3>2
    <2>4. ASSUME NEW q \in Pages, shared'[q] # None
          PROVE  net'[<<shared'[q], "refresh">>] # None /\ PageOf[shared'[q]] = q
      <3>1. q # PageOf[r] /\ shared'[q] = shared[q] /\ shared[q] \in Calls
        BY <1>10, <2>4, SessionAssumption DEF RefreshFailed, TypeOK
      <3>2. net[<<shared[q], "refresh">>] # None /\ PageOf[shared[q]] = q
        BY <2>4, <3>1 DEF Promises
      <3>3. net'[<<shared[q], "refresh">>] = net[<<shared[q], "refresh">>]
        BY <2>2, <3>1, <3>2
      <3> QED
        BY <3>1, <3>2, <3>3
    <2> QED
      BY <2>3, <2>4 DEF Promises
  <1>11. ASSUME NEW c \in Calls, NEW b \in {"api", "login"}, Begin(c, b) PROVE Promises'
    <2>1. /\ net'[<<c, "call">>] # None
          /\ \A d \in Calls : /\ net'[<<d, "refresh">>] = net[<<d, "refresh">>]
                              /\ d # c => net'[<<d, "call">>] = net[<<d, "call">>]
      BY <1>11, SentFetch DEF Begin, TypeOK
    <2>2. net[<<c, "refresh">>] = None /\ UNCHANGED <<shared, waits>>
      BY <1>11 DEF Begin, Promises
    <2>3. \A d \in Calls : pc'[d] = IF d = c THEN "first" ELSE pc[d]
      BY <1>11 DEF Begin, TypeOK
    <2>4. \A q \in Pages : shared[q] # None => shared[q] \in Calls
      BY DEF TypeOK
    <2>5. ASSUME NEW q \in Pages, shared'[q] # None
          PROVE  net'[<<shared'[q], "refresh">>] # None /\ PageOf[shared'[q]] = q
      <3>1. net'[<<shared[q], "refresh">>] = net[<<shared[q], "refresh">>]
        BY <2>1, <2>2, <2>4, <2>5
      <3> QED
        BY <2>2, <2>5, <3>1 DEF Promises
    <2>6. ASSUME NEW d \in Calls
          PROVE  /\ net'[<<d, "refresh">>] # None => pc'[d] = "waiting" /\ waits'[d] = d
                 /\ net'[<<d, "call">>] # None <=> pc'[d] \in {"first", "retry"}
      BY <2>1, <2>2, <2>3 DEF Promises
    <2> QED
      BY <2>5, <2>6 DEF Promises
  <1>12. ASSUME NEW p \in Pages, Reload(p) PROVE Promises'
    <2>1. Settle(CallsOf(p)) /\ CallsOf(p) \in SUBSET Calls /\ shared' = [shared EXCEPT ![p] = None]
      BY <1>12 DEF Reload, CallsOf
    <2>2. ASSUME NEW d \in Calls
          PROVE  /\ d \in CallsOf(p) => net'[<<d, "refresh">>] = None /\ net'[<<d, "call">>] = None
                 /\ d \notin CallsOf(p) => /\ net'[<<d, "refresh">>] = net[<<d, "refresh">>]
                                           /\ net'[<<d, "call">>] = net[<<d, "call">>]
      BY <1>12 DEF Reload
    <2>3. ASSUME NEW d \in Calls
          PROVE  /\ net'[<<d, "call">>] # None <=> pc'[d] \in {"first", "retry"}
                 /\ net'[<<d, "refresh">>] # None => pc'[d] = "waiting" /\ waits'[d] = d
      BY <2>1, <2>2, SettleTypes DEF Promises
    <2>4. ASSUME NEW q \in Pages, shared'[q] # None
          PROVE  net'[<<shared'[q], "refresh">>] # None /\ PageOf[shared'[q]] = q
      <3>1. q # p /\ shared'[q] = shared[q] /\ shared[q] \in Calls
        BY <2>1, <2>4 DEF TypeOK
      <3>2. net[<<shared[q], "refresh">>] # None /\ PageOf[shared[q]] = q
        BY <2>4, <3>1 DEF Promises
      <3>3. net'[<<shared[q], "refresh">>] = net[<<shared[q], "refresh">>]
        BY <2>2, <3>1, <3>2 DEF CallsOf
      <3> QED
        BY <3>1, <3>2, <3>3
    <2> QED
      BY <2>3, <2>4 DEF Promises
  <1>13. ASSUME NEW p \in Pages, Restored(p) PROVE Promises'
    <2>1. \A d \in Calls : /\ net'[<<d, "refresh">>] = net[<<d, "refresh">>]
                           /\ net'[<<d, "call">>] = net[<<d, "call">>]
      BY <1>13 DEF Restored, TypeOK
    <2>2. UNCHANGED <<shared, pc, waits>>
      BY <1>13 DEF Restored
    <2> QED
      BY <2>1, <2>2, PromisesKept
  <1>14. CASE Tick
    BY <1>14, TickNet, PromisesKept DEF Tick, client
  <1>15. CASE UNCHANGED vars
    BY <1>15 DEF vars, client, Promises
  <1> QED
    BY <1>2, <1>3, <1>4, <1>6, <1>7, <1>8, <1>9, <1>10, <1>11, <1>12, <1>13, <1>14, <1>15
    DEF Next, Serve, Continue

\* Every step keeps the refreshes of a page apart, or has a cause.
LEMMA OverlapStep ==
  ASSUME TypeOK, Promises, OverlapHasCause, [Next]_vars
  PROVE  OverlapHasCause'
  <1> USE FetchNames
  <1>1. ASSUME UNCHANGED <<shared, torn>>,
               \A d \in Calls : net'[<<d, "refresh">>] # None => net[<<d, "refresh">>] # None
        PROVE  OverlapHasCause'
    BY <1>1 DEF OverlapHasCause
  <1>2. ASSUME NEW c \in Calls, HandleApi(c) PROVE OverlapHasCause'
    BY <1>1, <1>2 DEF HandleApi, Answer, client, TypeOK
  <1>3. ASSUME NEW c \in Calls, HandleLogin(c) PROVE OverlapHasCause'
    BY <1>1, <1>3 DEF HandleLogin, Answer, client, TypeOK
  <1>4. ASSUME NEW f \in Fetches, HandleRefresh(f) PROVE OverlapHasCause'
    <2>1. \A g \in Fetches : net'[g] # None => net[g] # None
      BY <1>4 DEF HandleRefresh, Answer, Out, TypeOK
    <2> QED
      BY <1>1, <1>4, <2>1 DEF HandleRefresh, client, history
  <1>5. ASSUME NEW c \in Calls, Finish(c) PROVE OverlapHasCause'
    BY <1>1, <1>5 DEF Finish, TypeOK
  <1>6. ASSUME NEW c \in Calls, Unauthorized(c) PROVE OverlapHasCause'
    <2>1. CASE shared[PageOf[c]] = None
      <3>1. \A d \in Calls \ {c} : net'[<<d, "refresh">>] = net[<<d, "refresh">>]
        BY <1>6, <2>1 DEF Unauthorized, TypeOK
      <3>2. /\ torn' = torn /\ PageOf[c] \in Pages
            /\ \A p \in Pages : shared'[p] = IF p = PageOf[c] THEN c ELSE shared[p]
        BY <1>6, <2>1, SessionAssumption DEF Unauthorized, history, TypeOK
      <3>3. ASSUME NEW d \in Calls, PageOf[d] \notin torn, net'[<<d, "refresh">>] # None
            PROVE  shared'[PageOf[d]] = d
        <4>1. CASE d = c
          BY <3>2, <4>1
        <4>2. CASE d # c
          <5>1. shared[PageOf[d]] = d /\ d # None
            BY <3>1, <3>3, <4>2, SessionAssumption DEF OverlapHasCause
          <5> QED
            BY <2>1, <3>2, <5>1, SessionAssumption
        <4> QED
          BY <4>1, <4>2
      <3> QED
        BY <3>2, <3>3 DEF OverlapHasCause
    <2>2. CASE shared[PageOf[c]] # None
      BY <1>1, <1>6, <2>2 DEF Unauthorized, history, TypeOK
    <2> QED
      BY <2>1, <2>2
  \* The refresh of r was the only one of its page, if the page is not torn.
  <1>7. ASSUME NEW r \in Calls, net[<<r, "refresh">>] # None, net'[<<r, "refresh">>] = None,
               \A d \in Calls \ {r} : net'[<<d, "refresh">>] = net[<<d, "refresh">>],
               shared' = [shared EXCEPT ![PageOf[r]] = None], torn' = torn
        PROVE  OverlapHasCause'
    <2>1. ASSUME NEW d \in Calls, PageOf[d] \notin torn, net'[<<d, "refresh">>] # None
          PROVE  shared'[PageOf[d]] = d
      <3>1. d # r /\ shared[PageOf[d]] = d
        BY <1>7, <2>1 DEF OverlapHasCause
      <3>2. PageOf[d] # PageOf[r]
        BY <1>7, <2>1, <3>1 DEF OverlapHasCause
      <3> QED
        BY <1>7, <3>1, <3>2, SessionAssumption DEF TypeOK
    <2> QED
      BY <1>7, <2>1 DEF OverlapHasCause
  <1>8. ASSUME NEW r \in Calls, Refresh(r) PROVE OverlapHasCause'
    <2>1. /\ net'[<<r, "refresh">>] = None
          /\ \A d \in Calls \ {r} : net'[<<d, "refresh">>] = net[<<d, "refresh">>]
      BY <1>8 DEF Refresh
    <2> QED
      BY <1>7, <1>8, <2>1 DEF Refresh, Back, history
  <1>9. ASSUME NEW r \in Calls, RefreshFailed(r) PROVE OverlapHasCause'
    <2>1. /\ net'[<<r, "refresh">>] = None
          /\ \A d \in Calls \ {r} : net'[<<d, "refresh">>] = net[<<d, "refresh">>]
      BY <1>9 DEF RefreshFailed, TypeOK
    <2> QED
      BY <1>7, <1>9, <2>1 DEF RefreshFailed
  <1>10. ASSUME NEW c \in Calls, NetworkError(c) PROVE OverlapHasCause'
    <2>1. \A d \in Calls : net'[<<d, "refresh">>] = net[<<d, "refresh">>]
      BY <1>10 DEF NetworkError, TypeOK
    <2>2. CASE pc[c] = "retry" /\ shared[PageOf[c]] # None
      <3>1. torn' = torn \cup {PageOf[c]} /\ shared' = [shared EXCEPT ![PageOf[c]] = None]
        BY <1>10, <2>2 DEF NetworkError
      <3> QED
        BY <2>1, <3>1, SessionAssumption DEF OverlapHasCause, TypeOK
    <2>3. CASE pc[c] = "retry" /\ shared[PageOf[c]] = None
      <3>1. torn' = torn /\ shared' = [shared EXCEPT ![PageOf[c]] = None]
        BY <1>10, <2>3 DEF NetworkError
      <3>2. shared' = shared
        BY <2>3, <3>1 DEF TypeOK
      <3> QED
        BY <1>1, <2>1, <3>1, <3>2
    <2>4. CASE pc[c] # "retry"
      BY <1>1, <1>10, <2>1, <2>4 DEF NetworkError
    <2> QED
      BY <2>2, <2>3, <2>4
  <1>11. ASSUME NEW c \in Calls, NEW b \in {"api", "login"}, Begin(c, b) PROVE OverlapHasCause'
    BY <1>1, <1>11 DEF Begin, history, TypeOK
  <1>12. ASSUME NEW p \in Pages, Reload(p) PROVE OverlapHasCause'
    <2>1. \A d \in Calls : net'[<<d, "refresh">>] =
                             IF PageOf[d] = p THEN None ELSE net[<<d, "refresh">>]
      BY <1>12 DEF Reload, CallsOf
    <2>2. torn' = torn \ {p} /\ shared' = [shared EXCEPT ![p] = None]
      BY <1>12 DEF Reload
    <2> QED
      BY <2>1, <2>2, SessionAssumption DEF OverlapHasCause, TypeOK
  <1>13. ASSUME NEW p \in Pages, Restored(p) PROVE OverlapHasCause'
    BY <1>1, <1>13 DEF Restored, history, TypeOK
  <1>14. CASE Tick
    BY <1>1, <1>14, TickNet DEF Tick, client
  <1>15. CASE UNCHANGED vars
    BY <1>1, <1>15 DEF vars, client, history
  <1> QED
    BY <1>2, <1>3, <1>4, <1>5, <1>6, <1>8, <1>9, <1>10, <1>11, <1>12, <1>13, <1>14, <1>15
    DEF Next, Serve, Continue

\* Every step lets a request take effect once at most, and retries none that did.
LEMMA EffectsStep ==
  ASSUME TypeOK, Promises, Effects, [Next]_vars
  PROVE  Effects'
  <1> USE FetchNames
  <1>0. ASSUME NEW d \in Calls, served'[d] = 0 PROVE Effect(d)'
    BY <1>0 DEF Effect, Back
  <1>1. ASSUME NEW d \in Calls, served'[d] = served[d], net'[<<d, "call">>] = net[<<d, "call">>]
        PROVE  Effect(d)'
    BY <1>1 DEF Effects, Effect, Back
  <1>2. ASSUME NEW c \in Calls, HandleApi(c) PROVE Effects'
    <2> DEFINE f == <<c, "call">>
    <2>1. served[c] = 0 /\ net[f] # None
      BY <1>2 DEF HandleApi, Effects, Effect, Out, Back
    <2>2. \A d \in Calls \ {c} : served'[d] = served[d] /\ net'[<<d, "call">>] = net[<<d, "call">>]
      BY <1>2 DEF HandleApi, Answer, TypeOK
    <2>3. Effect(c)'
      <3>1. PICK a \in Answers : /\ Answer(f, a, Expired)
                                 /\ \/ served' = [served EXCEPT ![c] = @ + 1] /\ a # "401"
                                    \/ served' = served
        BY <1>2 DEF HandleApi, Answers
      <3>2. net'[f] # None /\ net'[f] = [answer |-> a, cookies |-> Expired, late |-> net[f].late]
        BY <2>1, <3>1, CookieTypes, AnswerNet
      <3>3. net'[f].answer = a /\ a # None
        BY <3>2, SessionAssumption DEF Answers
      <3> QED
        BY <2>1, <3>1, <3>2, <3>3 DEF Effect, Back, TypeOK
    <2> QED
      BY <1>1, <2>2, <2>3 DEF Effects, Effect, Back
  <1>3. ASSUME NEW c \in Calls, HandleLogin(c) PROVE Effects'
    <2> DEFINE f == <<c, "call">>
    <2>1. served[c] = 0 /\ net[f] # None
      BY <1>3 DEF HandleLogin, Effects, Effect, Out, Back
    <2>2. \A d \in Calls \ {c} : served'[d] = served[d] /\ net'[<<d, "call">>] = net[<<d, "call">>]
      BY <1>3 DEF HandleLogin, Answer, TypeOK
    <2>3. Effect(c)'
      <3>1. PICK a \in Answers, t \in Cookies :
              /\ Answer(f, a, t)
              /\ \/ served' = [served EXCEPT ![c] = @ + 1] /\ a # "401"
                 \/ served' = served
        BY <1>3, CookieTypes DEF HandleLogin, Answers
      <3>2. net'[f] # None /\ net'[f] = [answer |-> a, cookies |-> t, late |-> net[f].late]
        BY <2>1, <3>1, AnswerNet
      <3>3. net'[f].answer = a /\ a # None
        BY <3>2, SessionAssumption DEF Answers
      <3> QED
        BY <2>1, <3>1, <3>2, <3>3 DEF Effect, Back, TypeOK
    <2> QED
      BY <1>1, <2>2, <2>3 DEF Effects, Effect, Back
  <1>4. ASSUME NEW f \in Fetches, HandleRefresh(f) PROVE Effects'
    <2>1. \A d \in Calls : served'[d] = served[d] /\ net'[<<d, "call">>] = net[<<d, "call">>]
      BY <1>4 DEF HandleRefresh, Answer, history, TypeOK
    <2> QED
      BY <1>1, <2>1 DEF Effects, Effect, Back
  <1>5. ASSUME NEW cs \in SUBSET Calls, Settle(cs),
               \A d \in Calls \ cs : net'[<<d, "call">>] = net[<<d, "call">>]
        PROVE  Effects'
    <2>1. ASSUME NEW d \in Calls PROVE Effect(d)'
      <3>1. CASE d \in cs
        BY <1>0, <1>5, <3>1, SettleTypes
      <3>2. CASE d \notin cs
        BY <1>1, <1>5, <3>2, SettleTypes
      <3> QED
        BY <3>1, <3>2
    <2> QED
      BY <2>1 DEF Effects
  <1>6. ASSUME NEW c \in Calls, Finish(c) PROVE Effects'
    <2>1. {c} \in SUBSET Calls
      OBVIOUS
    <2> QED
      BY <1>5, <1>6, <2>1 DEF Finish, TypeOK
  <1>7. ASSUME NEW c \in Calls, NetworkError(c) PROVE Effects'
    <2>1. {c} \in SUBSET Calls
      OBVIOUS
    <2> QED
      BY <1>5, <1>7, <2>1 DEF NetworkError, TypeOK
  <1>8. ASSUME NEW c \in Calls, Unauthorized(c) PROVE Effects'
    <2>1. served[c] = 0 /\ served' = served
      BY <1>8 DEF Unauthorized, Retried, Effects, Effect, history
    <2>2. \A d \in Calls \ {c} : net'[<<d, "call">>] = net[<<d, "call">>]
      BY <1>8 DEF Unauthorized, TypeOK
    <2>3. ASSUME NEW d \in Calls PROVE Effect(d)'
      <3>1. CASE d = c
        BY <1>0, <2>1, <3>1
      <3>2. CASE d # c
        BY <1>1, <2>1, <2>2, <3>2
      <3> QED
        BY <3>1, <3>2
    <2> QED
      BY <2>3 DEF Effects
  <1>9. ASSUME NEW r \in Calls, Refresh(r) PROVE Effects'
    <2>1. \A d \in Calls \ Awaiting(r) : net'[<<d, "call">>] = net[<<d, "call">>]
      BY <1>9 DEF Refresh
    <2>2. \A d \in Awaiting(r) : served[d] = 0
      BY DEF Awaiting, Promises, Effects, Effect, Back
    <2>3. served' = served
      BY <1>9 DEF Refresh, history
    <2>4. ASSUME NEW d \in Calls PROVE Effect(d)'
      <3>1. CASE d \in Awaiting(r)
        BY <1>0, <2>2, <2>3, <3>1
      <3>2. CASE d \notin Awaiting(r)
        BY <1>1, <2>1, <2>3, <3>2
      <3> QED
        BY <3>1, <3>2
    <2> QED
      BY <2>4 DEF Effects
  <1>10. ASSUME NEW r \in Calls, RefreshFailed(r) PROVE Effects'
    <2>1. Awaiting(r) \in SUBSET Calls
      BY DEF Awaiting
    <2> QED
      BY <1>5, <1>10, <2>1 DEF RefreshFailed, TypeOK
  <1>11. ASSUME NEW c \in Calls, NEW b \in {"api", "login"}, Begin(c, b) PROVE Effects'
    <2>1. served[c] = 0 /\ served' = served
      BY <1>11 DEF Begin, Promises, Effects, Effect, Back, history
    <2>2. \A d \in Calls \ {c} : net'[<<d, "call">>] = net[<<d, "call">>]
      BY <1>11 DEF Begin, TypeOK
    <2>3. ASSUME NEW d \in Calls PROVE Effect(d)'
      <3>1. CASE d = c
        BY <1>0, <2>1, <3>1
      <3>2. CASE d # c
        BY <1>1, <2>1, <2>2, <3>2
      <3> QED
        BY <3>1, <3>2
    <2> QED
      BY <2>3 DEF Effects
  <1>12. ASSUME NEW p \in Pages, Reload(p) PROVE Effects'
    <2>1. CallsOf(p) \in SUBSET Calls
      BY DEF CallsOf
    <2>2. \A d \in Calls \ CallsOf(p) : net'[<<d, "call">>] = net[<<d, "call">>]
      BY <1>12 DEF Reload
    <2> QED
      BY <1>5, <1>12, <2>1, <2>2 DEF Reload
  <1>13. ASSUME NEW p \in Pages, Restored(p) PROVE Effects'
    <2>1. \A d \in Calls : served'[d] = served[d] /\ net'[<<d, "call">>] = net[<<d, "call">>]
      BY <1>13 DEF Restored, history, TypeOK
    <2> QED
      BY <1>1, <2>1 DEF Effects, Effect, Back
  <1>14. CASE Tick
    <2>1. served' = served
      BY <1>14 DEF Tick
    <2> QED
      BY <1>14, <2>1, TickNet DEF Effects, Effect, Back
  <1>15. CASE UNCHANGED vars
    BY <1>15 DEF vars, history, Effects, Effect, Back
  <1> QED
    BY <1>2, <1>3, <1>4, <1>6, <1>7, <1>8, <1>9, <1>10, <1>11, <1>12, <1>13, <1>14, <1>15
    DEF Next, Serve, Continue

\* What the jar is after a step: what it was, an answer that is at most a tick old, or, by a
\* tick, older.
LEMMA JarStep ==
  ASSUME TypeOK, Ages, [Next]_vars
  PROVE  jar' = jar \/ (jar' \in Cookies /\ Young(jar', TRUE)) \/ Tick
  <1> USE FetchNames
  <1>1. ASSUME NEW f \in Fetches, Back(f), SetsCookies(f), net[f].answer = "ok"
        PROVE  net[f].cookies \in Cookies /\ Young(net[f].cookies, TRUE)
    <2>1. net[f] \in Fetch
      BY <1>1 DEF Back, TypeOK
    <2>2. Young(net[f].cookies, net[f].late)
      BY <1>1 DEF Ages, Age
    <2> QED
      BY <2>1, <2>2, SessionAssumption DEF Young, Fetch, Cookies
  <1>2. ASSUME NEW c \in Calls, Finish(c) PROVE jar' = jar \/ (jar' \in Cookies /\ Young(jar', TRUE))
    BY <1>1, <1>2 DEF Finish, Stored, SetsCookies
  <1>3. ASSUME NEW r \in Calls, Refresh(r) PROVE jar' = jar \/ (jar' \in Cookies /\ Young(jar', TRUE))
    BY <1>1, <1>3 DEF Refresh, Stored, SetsCookies, Refreshes
  <1>4. ASSUME NEW p \in Pages, Restored(p) PROVE jar' = jar \/ (jar' \in Cookies /\ Young(jar', TRUE))
    BY <1>1, <1>4 DEF Restored, SetsCookies, Restores
  <1>5. (\E f \in Fetches : HandleRefresh(f)) \/ (\E c \in Calls : HandleApi(c) \/ HandleLogin(c))
          => jar' = jar
    BY DEF HandleRefresh, HandleApi, HandleLogin
  <1>6. (\E c \in Calls : Unauthorized(c) \/ RefreshFailed(c) \/ NetworkError(c)) => jar' = jar
    BY DEF Unauthorized, RefreshFailed, NetworkError
  <1>7. (\E c \in Calls, b \in {"api", "login"} : Begin(c, b)) \/ (\E p \in Pages : Reload(p))
          => jar' = jar
    BY DEF Begin, Reload
  <1>8. UNCHANGED vars => jar' = jar
    BY DEF vars
  <1> QED
    BY <1>2, <1>3, <1>4, <1>5, <1>6, <1>7, <1>8 DEF Next, Serve, Continue

\* Every step keeps the ages of the tokens as those of the fetches that carry them.
LEMMA AgesStep ==
  ASSUME TypeOK, Promises, Ages, [Next]_vars
  PROVE  Ages'
  <1> USE FetchNames
  <1>1. Coherent(jar')
    <2>1. CASE jar' = jar
      BY <2>1 DEF Ages
    <2>2. CASE jar' \in Cookies /\ Young(jar', TRUE)
      BY <2>2 DEF Young, Coherent
    <2>3. CASE Tick
      BY <2>3, SessionAssumption DEF Tick, Ages, Coherent, Aged, Older, TypeOK, Cookies
    <2> QED
      BY <2>1, <2>2, <2>3, JarStep
  \* A fetch that is gone, and one that is as it was.
  <1>2. ASSUME NEW g \in Fetches, net'[g] = None PROVE Age(g)'
    BY <1>2 DEF Age, Out, Back
  <1>3. ASSUME NEW g \in Fetches, net'[g] = net[g], SetsCookies(g)' => SetsCookies(g)
        PROVE  Age(g)'
    BY <1>3 DEF Ages, Age, Out, Back
  <1>4. ASSUME NEW g \in Fetches, NEW t \in Cookies, net'[g] = Sent(t), Coherent(t)
        PROVE  Age(g)'
    BY <1>4, SentFetch DEF Age, Out, Back
  <1>5. UNCHANGED body => \A g \in Fetches : SetsCookies(g)' => SetsCookies(g)
    BY DEF SetsCookies
  <1>6. ASSUME NEW c \in Calls, HandleApi(c) PROVE \A g \in Fetches : Age(g)'
    <2> DEFINE f == <<c, "call">>
    <2>1. UNCHANGED body /\ ~SetsCookies(f)
      BY <1>6 DEF HandleApi, client, SetsCookies
    <2>2. PICK a \in Answers : Answer(f, a, Expired) /\ net[f] # None
      BY <1>6 DEF HandleApi, Answers, Out
    <2>3. net'[f] = [answer |-> a, cookies |-> Expired, late |-> net[f].late] /\ a # None
      BY <2>2, AnswerNet, CookieTypes, SessionAssumption DEF Answers
    <2>4. ~Out(f)'
      BY <2>3 DEF Out
    <2>5. Age(f)'
      BY <1>5, <2>1, <2>4 DEF Age
    <2> QED
      BY <1>3, <1>5, <2>1, <2>2, <2>5, AnswerNet, CookieTypes
  <1>7. ASSUME NEW c \in Calls, HandleLogin(c) PROVE \A g \in Fetches : Age(g)'
    <2> DEFINE f == <<c, "call">>
    <2>1. UNCHANGED body
      BY <1>7 DEF HandleLogin, client
    <2>2. PICK a \in Answers, t \in {Fresh, Expired} :
            Answer(f, a, t) /\ net[f] # None /\ (a = "ok" => t = Fresh)
      BY <1>7 DEF HandleLogin, Answers, Out
    <2>3. net'[f] = [answer |-> a, cookies |-> t, late |-> net[f].late] /\ a # None
      BY <2>2, AnswerNet, CookieTypes, SessionAssumption DEF Answers
    <2>4. Age(f)'
      BY <2>2, <2>3 DEF Age, Out, Back, Young, Fresh
    <2> QED
      BY <1>3, <1>5, <2>1, <2>2, <2>4, AnswerNet, CookieTypes
  <1>8. ASSUME NEW f \in Fetches, HandleRefresh(f) PROVE \A g \in Fetches : Age(g)'
    <2>1. UNCHANGED body /\ net[f] # None /\ net[f].cookies \in Cookies
      BY <1>8 DEF HandleRefresh, client, Out, TypeOK, Fetch
    <2>2. PICK a \in Answers, t \in {Fresh, Expired} :
            Answer(f, a, t) /\ (a = "ok" => t = Fresh)
      BY <1>8, <2>1, CookieTypes DEF HandleRefresh, Answers
    <2>3. net'[f] = [answer |-> a, cookies |-> t, late |-> net[f].late] /\ a # None
      BY <2>1, <2>2, AnswerNet, CookieTypes, SessionAssumption DEF Answers
    <2>4. Age(f)'
      BY <2>2, <2>3 DEF Age, Out, Back, Young, Fresh
    <2> QED
      BY <1>3, <1>5, <2>1, <2>2, <2>4, AnswerNet, CookieTypes
  <1>9. ASSUME NEW cs \in SUBSET Calls, Settle(cs), NEW g \in Fetches,
               net'[g] = None \/ (net'[g] = net[g] /\ g \notin cs \X {"call"})
        PROVE  Age(g)'
    <2>1. CASE net'[g] = None
      BY <1>2, <2>1
    <2>2. CASE net'[g] = net[g] /\ g \notin cs \X {"call"}
      <3>1. SetsCookies(g)' => SetsCookies(g)
        BY <1>9, <2>2, SettleTypes DEF SetsCookies
      <3> QED
        BY <1>3, <2>2, <3>1
    <2> QED
      BY <1>9, <2>1, <2>2
  <1>10. ASSUME NEW c \in Calls, Finish(c) \/ NetworkError(c) PROVE \A g \in Fetches : Age(g)'
    <2>1. {c} \in SUBSET Calls /\ Settle({c}) /\ net' = [net EXCEPT ![<<c, "call">>] = None]
      BY <1>10 DEF Finish, NetworkError
    <2>2. \A g \in Fetches : net'[g] = None \/ (net'[g] = net[g] /\ g \notin {c} \X {"call"})
      BY <2>1 DEF TypeOK
    <2> QED
      BY <1>9, <2>1, <2>2
  <1>11. ASSUME NEW c \in Calls, Unauthorized(c) PROVE \A g \in Fetches : Age(g)'
    <2>1. UNCHANGED body /\ jar \in Cookies /\ Coherent(jar)
      BY <1>11 DEF Unauthorized, TypeOK, Ages
    <2>2. \A g \in Fetches : net'[g] \in {None, net[g], Sent(jar)}
      BY <1>11 DEF Unauthorized, TypeOK
    <2> QED
      BY <1>2, <1>3, <1>4, <1>5, <2>1, <2>2
  <1>12. ASSUME NEW r \in Calls, Refresh(r) PROVE \A g \in Fetches : Age(g)'
    <2>1. UNCHANGED body /\ jar' = Stored(<<r, "refresh">>) /\ jar' \in Cookies
      BY <1>12 DEF Refresh, Stored, Back, TypeOK, Fetch
    <2>2. \A g \in Fetches : net'[g] \in {None, net[g], Sent(jar')}
      BY <1>12, <2>1 DEF Refresh
    <2> QED
      BY <1>1, <1>2, <1>3, <1>4, <1>5, <2>1, <2>2
  <1>13. ASSUME NEW r \in Calls, RefreshFailed(r) PROVE \A g \in Fetches : Age(g)'
    <2>1. Awaiting(r) \in SUBSET Calls /\ Settle(Awaiting(r))
      BY <1>13 DEF RefreshFailed, Awaiting
    <2>2. \A g \in Awaiting(r) \X {"call"} : net[g] = None
      <3>1. \A d \in Awaiting(r) : net[<<d, "call">>] = None
        BY DEF Awaiting, Promises
      <3> QED
        BY <3>1
    <2>3. \A g \in Fetches : net'[g] = None \/ net'[g] = net[g]
      BY <1>13 DEF RefreshFailed, TypeOK
    <2> QED
      BY <1>9, <2>1, <2>2, <2>3
  <1>14. ASSUME NEW c \in Calls, NEW b \in {"api", "login"}, Begin(c, b)
         PROVE  \A g \in Fetches : Age(g)'
    <2>1. jar \in Cookies /\ Coherent(jar)
      BY DEF TypeOK, Ages
    <2>2. net'[<<c, "call">>] = Sent(jar)
      BY <1>14 DEF Begin, TypeOK
    <2>3. ASSUME NEW g \in Fetches, g # <<c, "call">>
          PROVE  net'[g] = net[g] /\ (SetsCookies(g)' => SetsCookies(g))
      BY <1>14, <2>3 DEF Begin, TypeOK, SetsCookies
    <2> QED
      BY <1>3, <1>4, <2>1, <2>2, <2>3
  <1>15. ASSUME NEW p \in Pages, Reload(p) PROVE \A g \in Fetches : Age(g)'
    <2>1. CallsOf(p) \in SUBSET Calls /\ Settle(CallsOf(p)) /\ jar \in Cookies /\ Coherent(jar)
      BY <1>15 DEF Reload, CallsOf, TypeOK, Ages
    <2>2. ASSUME NEW g \in Fetches
          PROVE  \/ net'[g] = Sent(jar)
                 \/ net'[g] = None \/ (net'[g] = net[g] /\ g \notin CallsOf(p) \X {"call"})
      BY <1>15 DEF Reload
    <2> QED
      BY <1>4, <1>9, <2>1, <2>2
  <1>16. ASSUME NEW p \in Pages, Restored(p) PROVE \A g \in Fetches : Age(g)'
    <2>1. UNCHANGED body /\ \A g \in Fetches : net'[g] \in {None, net[g]}
      BY <1>16 DEF Restored, TypeOK
    <2> QED
      BY <1>2, <1>3, <1>5, <2>1
  <1>17. ASSUME Tick PROVE \A g \in Fetches : Age(g)'
    <2>1. UNCHANGED body
      BY <1>17 DEF Tick, client
    <2>2. ASSUME NEW g \in Fetches, net[g] # None PROVE Age(g)'
      <3>1. /\ net'[g].answer = net[g].answer /\ net'[g].cookies = Aged(net[g].cookies)
            /\ ~net[g].late /\ net'[g].late /\ net[g].cookies \in Cookies
        BY <1>17, <2>2, TickNet DEF TypeOK, Fetch
      <3>2. Out(g)' => Coherent(Aged(net[g].cookies))
        <4>1. Out(g)' => Coherent(net[g].cookies)
          BY <2>2, <3>1 DEF Out, Ages, Age
        <4> QED
          BY <3>1, <4>1, SessionAssumption DEF Coherent, Aged, Older, Cookies
      <3>3. (Back(g) /\ SetsCookies(g) /\ net[g].answer = "ok")' => Young(Aged(net[g].cookies), TRUE)
        <4>1. (Back(g) /\ SetsCookies(g) /\ net[g].answer = "ok")' => Young(net[g].cookies, FALSE)
          BY <1>5, <2>1, <2>2, <3>1 DEF Back, Ages, Age, Young
        <4> QED
          BY <3>1, <4>1, SessionAssumption DEF Aged, Older, Young, Cookies
      <3> QED
        BY <3>1, <3>2, <3>3 DEF Age, Young
    <2>3. ASSUME NEW g \in Fetches, net[g] = None PROVE Age(g)'
      BY <1>2, <1>17, <2>3, TickNet
    <2> QED
      BY <2>2, <2>3
  <1>18. ASSUME UNCHANGED vars, NEW g \in Fetches PROVE Age(g)'
    BY <1>3, <1>5, <1>18 DEF vars, client
  <1> QED
    <2>1. ASSUME NEW g \in Fetches PROVE Age(g)'
      BY <1>6, <1>7, <1>8, <1>10, <1>11, <1>12, <1>13, <1>14, <1>15, <1>16, <1>17, <1>18
      DEF Next, Serve, Continue
    <2> QED
      BY <1>1, <2>1 DEF Ages, Coherent

\* Every step leaves retries with tokens that are good for them.
LEMMA RetriesStep ==
  ASSUME TypeOK, Promises, Ages, Retries, [Next]_vars
  PROVE  Retries'
  <1> USE FetchNames
  <1>1. ASSUME NEW d \in Calls, pc'[d] = "retry" => pc[d] = "retry", body'[d] = body[d],
               net'[<<d, "call">>] = net[<<d, "call">>]
        PROVE  Retry(d)'
    BY <1>1 DEF Retries, Retry, Out, Back
  <1>2. ASSUME NEW d \in Calls, pc'[d] # "retry" PROVE Retry(d)'
    BY <1>2 DEF Retry
  <1>3. ASSUME NEW c \in Calls, HandleApi(c) PROVE \A d \in Calls : Retry(d)'
    <2> DEFINE f == <<c, "call">>
    <2>1. ASSUME NEW d \in Calls \ {c} PROVE Retry(d)'
      BY <1>1, <1>3 DEF HandleApi, Answer, client, TypeOK
    <2>2. ASSUME pc[c] = "retry" PROVE Retry(c)'
      <3>1. net[f] # None /\ net[f] \in Fetch /\ net[f].cookies.access # AccessTTL
        <4>1. Out(f) /\ net[f] # None /\ net[f] \in Fetch
          BY <1>3 DEF HandleApi, Out, TypeOK
        <4>2. net[f].cookies.access <= IF net[f].late THEN 2 ELSE 1
          BY <2>2, <4>1 DEF Retries, Retry
        <4>3. net[f].cookies.access \in Nat /\ net[f].cookies.access <= 2
          BY <4>1, <4>2, SessionAssumption DEF Fetch, Cookies
        <4> QED
          BY <4>1, <4>3, SessionAssumption
      <3>2. PICK a \in Answers : Answer(f, a, Expired) /\ a # "401"
        BY <1>3, <3>1 DEF HandleApi, Answers
      <3>3. net'[f] = [answer |-> a, cookies |-> Expired, late |-> net[f].late] /\ a # None
        BY <3>1, <3>2, AnswerNet, CookieTypes, SessionAssumption DEF Answers
      <3> QED
        BY <3>2, <3>3 DEF Retry, Out
    <2>3. pc' = pc
      BY <1>3 DEF HandleApi, client
    <2> QED
      BY <1>2, <2>1, <2>2, <2>3
  <1>4. ASSUME NEW c \in Calls, HandleLogin(c) PROVE \A d \in Calls : Retry(d)'
    <2> DEFINE f == <<c, "call">>
    <2>1. ASSUME NEW d \in Calls \ {c} PROVE Retry(d)'
      BY <1>1, <1>4 DEF HandleLogin, Answer, client, TypeOK
    <2>2. PICK a \in Answers, t \in Cookies : Answer(f, a, t) /\ net[f] # None
      BY <1>4, CookieTypes DEF HandleLogin, Answers, Out
    <2>3. net'[f] = [answer |-> a, cookies |-> t, late |-> net[f].late] /\ a # None
      BY <2>2, AnswerNet, SessionAssumption DEF Answers
    <2>4. body'[c] = "login"
      BY <1>4 DEF HandleLogin, client
    <2>5. Retry(c)'
      BY <2>3, <2>4 DEF Retry, Out
    <2> QED
      BY <2>1, <2>5
  <1>5. ASSUME NEW f \in Fetches, HandleRefresh(f), NEW d \in Calls PROVE Retry(d)'
    <2>1. net'[<<d, "call">>] = net[<<d, "call">>]
      BY <1>5 DEF HandleRefresh, Answer, TypeOK
    <2> QED
      BY <1>1, <1>5, <2>1 DEF HandleRefresh, client
  <1>6. ASSUME NEW cs \in SUBSET Calls, Settle(cs), NEW d \in Calls,
               d \notin cs => net'[<<d, "call">>] = net[<<d, "call">>]
        PROVE  Retry(d)'
    <2>1. CASE d \in cs
      BY <1>2, <1>6, <2>1, SettleTypes
    <2>2. CASE d \notin cs
      BY <1>1, <1>6, <2>2, SettleTypes
    <2> QED
      BY <2>1, <2>2
  <1>7. ASSUME NEW c \in Calls, Finish(c) \/ NetworkError(c), NEW d \in Calls PROVE Retry(d)'
    <2>1. {c} \in SUBSET Calls /\ Settle({c}) /\ net' = [net EXCEPT ![<<c, "call">>] = None]
      BY <1>7 DEF Finish, NetworkError
    <2>2. d \notin {c} => net'[<<d, "call">>] = net[<<d, "call">>]
      BY <2>1 DEF TypeOK
    <2> QED
      BY <1>6, <2>1, <2>2
  <1>8. ASSUME NEW c \in Calls, Unauthorized(c), NEW d \in Calls PROVE Retry(d)'
    <2>1. CASE d = c
      BY <1>2, <1>8, <2>1 DEF Unauthorized, TypeOK
    <2>2. CASE d # c
      BY <1>1, <1>8, <2>2 DEF Unauthorized, TypeOK
    <2> QED
      BY <2>1, <2>2
  <1>9. ASSUME NEW r \in Calls, Refresh(r), NEW d \in Calls PROVE Retry(d)'
    <2>1. CASE d \in Awaiting(r)
      <3> DEFINE f == <<r, "refresh">>
      <3>1. net[f] \in Fetch /\ Back(f) /\ net[f].answer = "ok"
        BY <1>9 DEF Refresh, RefreshOk, Back, TypeOK
      <3>2. Young(net[f].cookies, net[f].late) /\ net[f].cookies \in Cookies
        BY <3>1 DEF Ages, Age, SetsCookies, Refreshes, Fetch
      <3>3. net'[<<d, "call">>] = Sent(net[f].cookies)
        BY <1>9, <2>1, <3>1 DEF Refresh, Stored
      <3>4. net[f].cookies.access <= 1
        BY <3>1, <3>2 DEF Young, Cookies, Fetch
      <3>5. /\ net'[<<d, "call">>].answer = None /\ ~net'[<<d, "call">>].late
            /\ net'[<<d, "call">>].cookies = net[f].cookies
        BY <3>2, <3>3, SentFetch
      <3> QED
        BY <3>4, <3>5 DEF Retry, Out, Back
    <2>2. CASE d \notin Awaiting(r)
      BY <1>1, <1>9, <2>2 DEF Refresh
    <2> QED
      BY <2>1, <2>2
  <1>10. ASSUME NEW r \in Calls, RefreshFailed(r), NEW d \in Calls PROVE Retry(d)'
    <2>1. Awaiting(r) \in SUBSET Calls /\ net'[<<d, "call">>] = net[<<d, "call">>]
      BY <1>10 DEF RefreshFailed, Awaiting, TypeOK
    <2> QED
      BY <1>6, <1>10, <2>1 DEF RefreshFailed
  <1>11. ASSUME NEW c \in Calls, NEW b \in {"api", "login"}, Begin(c, b), NEW d \in Calls
         PROVE  Retry(d)'
    <2>1. CASE d = c
      BY <1>2, <1>11, <2>1 DEF Begin, TypeOK
    <2>2. CASE d # c
      BY <1>1, <1>11, <2>2 DEF Begin, TypeOK
    <2> QED
      BY <2>1, <2>2
  <1>12. ASSUME NEW p \in Pages, Reload(p), NEW d \in Calls PROVE Retry(d)'
    <2>1. CallsOf(p) \in SUBSET Calls /\ (d \notin CallsOf(p) => net'[<<d, "call">>] = net[<<d, "call">>])
      BY <1>12 DEF Reload, CallsOf
    <2> QED
      BY <1>6, <1>12, <2>1 DEF Reload
  <1>13. ASSUME NEW p \in Pages, Restored(p), NEW d \in Calls PROVE Retry(d)'
    BY <1>1, <1>13 DEF Restored, TypeOK
  <1>14. ASSUME Tick, NEW d \in Calls PROVE Retry(d)'
    <2> DEFINE f == <<d, "call">>
    <2>1. CASE net[f] = None
      <3>1. net'[f] = None
        BY <1>14, <2>1, TickNet
      <3> QED
        BY <3>1 DEF Retry, Out, Back
    <2>2. CASE net[f] # None
      <3>1. /\ net'[f].answer = net[f].answer /\ net'[f].cookies = Aged(net[f].cookies)
            /\ ~net[f].late /\ net'[f].late /\ net[f].cookies \in Cookies
        BY <1>14, <2>2, TickNet DEF TypeOK, Fetch
      <3>2. pc'[d] = pc[d] /\ body'[d] = body[d]
        BY <1>14 DEF Tick, client
      <3>3. pc[d] = "retry" /\ Out(f) => Aged(net[f].cookies).access <= 2
        BY <3>1, SessionAssumption DEF Retries, Retry, Aged, Older, Cookies
      <3> QED
        BY <2>2, <3>1, <3>2, <3>3 DEF Retries, Retry, Out, Back
    <2> QED
      BY <2>1, <2>2
  <1>15. ASSUME UNCHANGED vars, NEW d \in Calls PROVE Retry(d)'
    BY <1>1, <1>15 DEF vars, client
  <1>16. ASSUME NEW d \in Calls PROVE Retry(d)'
    BY <1>3, <1>4, <1>5, <1>7, <1>8, <1>9, <1>10, <1>11, <1>12, <1>13, <1>14, <1>15
    DEF Next, Serve, Continue
  <1> QED
    BY <1>16 DEF Retries

\* Every step leaves the refresh token in the jar younger than what has been sent of it.
LEMMA RenewalStep ==
  ASSUME TypeOK, Ages, Renewal, [Next]_vars
  PROVE  Renewal'
  <1> USE FetchNames
  <1>1. CASE jar' \in Cookies /\ Young(jar', TRUE) /\ unused' \in 0..IdleTime
    <2>1. jar'.refresh <= 1 /\ jar'.refresh \in Int
      BY <1>1, SessionAssumption DEF Young, Cookies
    <2>2. ASSUME NEW c \in Calls PROVE Renewed(c)'
      BY <2>1 DEF Renewed
    <2>3. jar'.refresh <= unused' + AccessTTL - 1
      BY <1>1, <2>1, SessionAssumption DEF IdleTime
    <2> QED
      BY <2>2, <2>3 DEF Renewal
  <1>2. CASE Tick
    <2>1. jar \in Cookies /\ jar' = Aged(jar) /\ unused' = Older(unused, IdleTime) /\ unused \in 0..IdleTime
      BY <1>2 DEF Tick, TypeOK
    <2>2. ASSUME NEW c \in Calls, Out(<<c, "call">>)' PROVE Renewed(c)'
      <3> DEFINE f == <<c, "call">>
      <3>1. net[f] # None
        BY <1>2, <2>2, TickNet DEF Out
      <3>2. /\ net'[f].answer = net[f].answer /\ net'[f].cookies = Aged(net[f].cookies)
            /\ ~net[f].late /\ net'[f].late /\ net[f].cookies \in Cookies
        BY <1>2, <3>1, TickNet DEF TypeOK, Fetch
      <3>3. jar.refresh <= net[f].cookies.refresh \/ jar.refresh <= 1
        BY <2>2, <3>1, <3>2 DEF Out, Renewal, Renewed
      <3>4. Aged(jar).refresh <= Aged(net[f].cookies).refresh \/ Aged(jar).refresh <= 2
        BY <2>1, <3>2, <3>3, SessionAssumption DEF Aged, Older, Cookies
      <3> QED
        BY <2>1, <3>2, <3>4 DEF Renewed
    <2>3. \A c \in Calls : Renewed(c)'
      BY <2>2 DEF Renewed
    <2>4. unused' < IdleTime => jar'.refresh <= unused' + AccessTTL - 1
      BY <2>1, SessionAssumption DEF Renewal, Aged, Older, Cookies, IdleTime
    <2> QED
      BY <2>3, <2>4 DEF Renewal
  <1>3. ASSUME NEW c \in Calls, jar' = jar,
               Out(<<c, "call">>)' => \/ net'[<<c, "call">>] = net[<<c, "call">>]
                                      \/ net'[<<c, "call">>] = Sent(jar)
        PROVE  Renewed(c)'
    <2>1. CASE net'[<<c, "call">>] = net[<<c, "call">>]
      BY <1>3, <2>1 DEF Renewal, Renewed, Out
    <2>2. CASE net'[<<c, "call">>] = Sent(jar)
      <3>1. jar \in Cookies /\ net'[<<c, "call">>].cookies = jar
        BY <2>2, SentFetch DEF TypeOK
      <3> QED
        BY <1>3, <3>1, SessionAssumption DEF Renewed, Cookies
    <2> QED
      BY <1>3, <2>1, <2>2 DEF Renewed
  <1>4. ASSUME NEW c \in Calls, HandleApi(c) PROVE Renewal'
    <2> DEFINE f == <<c, "call">>
    <2>1. jar' = jar /\ jar \in Cookies /\ unused \in 0..IdleTime
      BY <1>4 DEF HandleApi, TypeOK
    <2>2. PICK a \in Answers : Answer(f, a, Expired) /\ net[f] # None
      BY <1>4 DEF HandleApi, Answers, Out
    <2>3. net'[f] = [answer |-> a, cookies |-> Expired, late |-> net[f].late] /\ a # None
      BY <2>2, AnswerNet, CookieTypes, SessionAssumption DEF Answers
    <2>4. ~Out(f)'
      BY <2>3 DEF Out
    <2>5. \A d \in Calls : Renewed(d)'
      BY <1>3, <2>1, <2>2, <2>4, AnswerNet, CookieTypes
    <2>6. unused' < IdleTime => jar.refresh <= unused' + AccessTTL - 1
      <3>1. CASE net[f].cookies.access < AccessTTL
        <4>1. unused' = 0
          BY <1>4, <3>1, SessionAssumption DEF HandleApi
        <4>2. Out(f) /\ net[f].cookies \in Cookies /\ net[f].cookies.refresh = net[f].cookies.access
          BY <1>4, <3>1 DEF HandleApi, Out, TypeOK, Fetch, Ages, Age, Coherent
        <4>3. jar.refresh <= net[f].cookies.refresh \/ jar.refresh <= 2
          BY <2>1, <4>2 DEF Renewal, Renewed, Cookies
        <4>4. jar.refresh <= AccessTTL - 1
          BY <2>1, <3>1, <4>2, <4>3, SessionAssumption DEF Cookies
        <4> QED
          BY <4>1, <4>4, SessionAssumption
      <3>2. CASE ~(net[f].cookies.access < AccessTTL)
        BY <1>4, <3>2 DEF HandleApi, Renewal
      <3> QED
        BY <3>1, <3>2
    <2> QED
      BY <2>1, <2>5, <2>6 DEF Renewal
  <1>5. ASSUME jar' = jar, unused' = unused, \A c \in Calls : Renewed(c)' PROVE Renewal'
    BY <1>5 DEF Renewal
  <1>6. ASSUME NEW c \in Calls, HandleLogin(c) PROVE Renewal'
    <2>1. jar' = jar /\ unused' = unused
      BY <1>6 DEF HandleLogin
    <2>2. PICK a \in Answers, t \in Cookies : Answer(<<c, "call">>, a, t) /\ net[<<c, "call">>] # None
      BY <1>6, CookieTypes DEF HandleLogin, Answers, Out
    <2>3. net'[<<c, "call">>] = [answer |-> a, cookies |-> t, late |-> net[<<c, "call">>].late] /\ a # None
      BY <2>2, AnswerNet, SessionAssumption DEF Answers
    <2>4. ~Out(<<c, "call">>)'
      BY <2>3 DEF Out
    <2>5. \A d \in Calls : Renewed(d)'
      BY <1>3, <2>1, <2>2, <2>4, AnswerNet
    <2> QED
      BY <1>5, <2>1, <2>5
  <1>7. ASSUME NEW f \in Fetches, HandleRefresh(f) PROVE Renewal'
    <2>1. jar' = jar /\ unused' = unused /\ \A d \in Calls : net'[<<d, "call">>] = net[<<d, "call">>]
      BY <1>7 DEF HandleRefresh, Answer, TypeOK, history
    <2>2. \A d \in Calls : Renewed(d)'
      BY <1>3, <2>1
    <2> QED
      BY <1>5, <2>1, <2>2
  \* Of the other steps, those that leave the jar alone end or begin requests.
  <1>8. ASSUME jar' = jar, unused' = unused,
               \A d \in Calls : net'[<<d, "call">>] \in {None, net[<<d, "call">>], Sent(jar)}
        PROVE  Renewal'
    <2>1. ASSUME NEW d \in Calls PROVE Renewed(d)'
      <3>1. CASE net'[<<d, "call">>] = None
        BY <3>1 DEF Renewed, Out
      <3>2. CASE net'[<<d, "call">>] # None
        BY <1>3, <1>8, <3>2
      <3> QED
        BY <3>1, <3>2
    <2> QED
      BY <1>5, <1>8, <2>1
  <1>9. ASSUME NEW c \in Calls, Finish(c), jar' = jar PROVE Renewal'
    BY <1>8, <1>9 DEF Finish, TypeOK
  <1>10. ASSUME NEW c \in Calls, Unauthorized(c) PROVE Renewal'
    BY <1>8, <1>10 DEF Unauthorized, history, TypeOK
  <1>11. ASSUME NEW r \in Calls, Refresh(r), jar' = jar PROVE Renewal'
    BY <1>8, <1>11 DEF Refresh, history
  <1>12. ASSUME NEW r \in Calls, RefreshFailed(r) PROVE Renewal'
    BY <1>8, <1>12 DEF RefreshFailed, TypeOK
  <1>13. ASSUME NEW c \in Calls, NetworkError(c) PROVE Renewal'
    BY <1>8, <1>13 DEF NetworkError, TypeOK
  <1>14. ASSUME NEW c \in Calls, NEW b \in {"api", "login"}, Begin(c, b) PROVE Renewal'
    BY <1>8, <1>14 DEF Begin, history, TypeOK
  <1>15. ASSUME NEW p \in Pages, Reload(p) PROVE Renewal'
    BY <1>8, <1>15 DEF Reload
  <1>16. ASSUME NEW p \in Pages, Restored(p), jar' = jar PROVE Renewal'
    BY <1>8, <1>16 DEF Restored, history, TypeOK
  <1>17. ASSUME UNCHANGED vars PROVE Renewal'
    BY <1>8, <1>17 DEF vars, history
  <1>18. (\E c \in Calls : Finish(c) \/ Refresh(c)) \/ (\E p \in Pages : Restored(p))
           => unused' \in 0..IdleTime
    BY DEF Finish, Refresh, Restored, history, TypeOK
  <1> QED
    BY <1>1, <1>2, <1>4, <1>6, <1>7, <1>9, <1>10, <1>11, <1>12, <1>13, <1>14, <1>15, <1>16, <1>17,
       <1>18, JarStep
    DEF Next, Serve, Continue

-----------------------------------------------------------------------------
\* The invariant holds in every reachable state.
THEOREM SessionInvariant == Spec => []SessionInv
  <1>1. ASSUME SessionInv, [Next]_vars PROVE SessionInv'
    BY <1>1, TypesStep, PromisesStep, OverlapStep, EffectsStep, AgesStep, RetriesStep, RenewalStep
    DEF SessionInv
  <1> QED
    BY InitSession, <1>1, PTL DEF Spec

\* Cookies, promises and fetches are what the pages and the BFF make them, and nobody
\* awaits a refresh that is over.
THEOREM SessionTypes == Spec => []TypeOK
  <1>1. SessionInv => TypeOK
    BY DEF SessionInv
  <1> QED
    BY SessionInvariant, <1>1, PTL

\* A page has at most one refresh under way, unless a failed retry dropped the promise of one
\* (create-api-client.ts, refreshPromise).
THEOREM OneRefresh == Spec => []OverlapHasCause
  <1>1. SessionInv => OverlapHasCause
    BY DEF SessionInv
  <1> QED
    BY SessionInvariant, <1>1, PTL

\* A retry never repeats a request that took effect.
THEOREM OneEffect == Spec => []NoEffectTwice
  <1>1. ASSUME SessionInv, NEW c \in Calls PROVE served[c] <= 1
    <2>1. served[c] = 0 \/ served[c] = 1
      BY <1>1 DEF SessionInv, Effects, Effect
    <2> QED
      BY <2>1
  <1>2. SessionInv => NoEffectTwice
    BY <1>1 DEF NoEffectTwice
  <1> QED
    BY SessionInvariant, <1>2, PTL

\* A retry is never refused for its token.
THEOREM RetryGoesThrough == Spec => []RetryIsAuthorized
  <1>1. SessionInv => RetryIsAuthorized
    BY DEF SessionInv, Retries, Retry, RetryIsAuthorized
  <1> QED
    BY SessionInvariant, <1>1, PTL

\* Whoever uses the application keeps a good refresh token.
THEOREM SlidingSession == Spec => []SessionSlides
  <1>1. SessionInv => SessionSlides
    BY SessionAssumption DEF SessionInv, Renewal, SessionSlides, TypeOK, IdleTime, Cookies
  <1> QED
    BY SessionInvariant, <1>1, PTL
=============================================================================
