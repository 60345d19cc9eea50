------------------------------- MODULE Outbox -------------------------------
(***************************************************************************)
(* The transactional outbox: handlers insert a row in the transaction that *)
(* changes their tables, and publishers poll for unpublished rows, lock a  *)
(* batch with FOR UPDATE SKIP LOCKED, send its rows to JetStream one by    *)
(* one, mark those that were acknowledged and commit.  pkg/outbox does     *)
(* this over PostgreSQL for payments and jobs-api, outbox_publisher.go     *)
(* over MySQL for contracts.                                               *)
(***************************************************************************)
EXTENDS Integers, FiniteSets

CONSTANTS Entries,     \* outbox rows, one per writing transaction
          Publishers,  \* processes that run a publisher on this table
          Batch,       \* rows a poll fetches at most (100 in the code)
          Poison,      \* rows whose message JetStream always refuses
          None         \* no lock owner

ASSUME OutboxAssumption ==
  /\ IsFiniteSet(Entries)
  /\ Batch \in Nat \ {0}
  /\ Poison \subseteq Entries
  /\ None \notin Publishers

VARIABLES
  row,       \* where a row is: not inserted, in an open transaction, committed, marked
  created,   \* created_at
  clock,     \* the time the next transaction begins
  owner,     \* the publisher whose transaction has the row locked
  pc,        \* where each publisher is
  scan,      \* the unpublished rows of its statement's snapshot, not yet examined
  todo,      \* the rows fetched and not yet sent
  done,      \* the rows whose sending was acknowledged ("published" in the code)
  lost,      \* publishers whose database connection is gone, and who do not know
  arrived,   \* the rows whose message JetStream has stored
  repeated,  \* the rows whose message it has stored more than once
  past,      \* history: the rows that were committed when a row's transaction began
  doubted    \* history: the rows that were in a batch and not marked with it

table      == <<row, created, clock>>
publishers == <<pc, scan, todo, done, lost>>
broker     == <<arrived, repeated>>
history    == <<past, doubted>>
vars       == <<table, owner, publishers, broker, history>>

Committed == {e \in Entries : row[e] \in {"unpublished", "published"}}

TypeOK ==
  /\ row \in [Entries -> {"none", "open", "unpublished", "published", "aborted"}]
  /\ created \in [Entries -> Nat] /\ clock \in Nat
  /\ owner \in [Entries -> Publishers \cup {None}]
  /\ pc \in [Publishers -> {"idle", "fetch", "send"}]
  /\ scan \in [Publishers -> SUBSET Entries]
  /\ todo \in [Publishers -> SUBSET Entries]
  /\ done \in [Publishers -> SUBSET Entries]
  /\ \A p \in Publishers : Cardinality(todo[p] \cup done[p]) <= Batch
  /\ lost \subseteq Publishers
  /\ arrived \subseteq Entries /\ repeated \subseteq Entries
  /\ past \in [Entries -> SUBSET Entries] /\ doubted \subseteq Entries

Init ==
  /\ row = [e \in Entries |-> "none"]
  /\ created = [e \in Entries |-> 0] /\ clock = 0
  /\ owner = [e \in Entries |-> None]
  /\ pc = [p \in Publishers |-> "idle"]
  /\ scan = [p \in Publishers |-> {}]
  /\ todo = [p \in Publishers |-> {}]
  /\ done = [p \in Publishers |-> {}]
  /\ lost = {} /\ arrived = {} /\ repeated = {}
  /\ past = [e \in Entries |-> {}] /\ doubted = {}

-----------------------------------------------------------------------------
(* Handlers. *)

\* created_at defaults to now(), the time the transaction begins.
Insert(e) ==
  /\ row[e] = "none"
  /\ row' = [row EXCEPT ![e] = "open"]
  /\ created' = [created EXCEPT ![e] = clock]
  /\ clock' = clock + 1
  /\ past' = [past EXCEPT ![e] = Committed]
  /\ UNCHANGED <<owner, publishers, broker, doubted>>

\* The handler's transaction ends, in any order with the others'.
EndInsert(e) ==
  /\ row[e] = "open"
  /\ \E outcome \in {"unpublished", "aborted"} : row' = [row EXCEPT ![e] = outcome]
  /\ UNCHANGED <<created, clock, owner, publishers, broker, history>>

-----------------------------------------------------------------------------
(* PublishBatch. *)

\* What the history keeps of a failure.
Doubt(S) == doubted' = doubted \cup S /\ UNCHANGED past

\* Mutant: the rows come in no particular order.
FirstInAnyOrder(S, e) == e \in S

\* ORDER BY created_at.
First(S, e) == e \in S /\ \A f \in S : created[e] <= created[f]

\* FetchUnpublished: the statement's snapshot.  An empty one ends the batch at once.
Poll(p) ==
  LET unpublished == {e \in Entries : row[e] = "unpublished"} IN
  /\ pc[p] = "idle"
  /\ unpublished # {}
  /\ pc' = [pc EXCEPT ![p] = "fetch"]
  /\ scan' = [scan EXCEPT ![p] = unpublished]
  /\ UNCHANGED <<table, owner, todo, done, lost, broker, history>>

Take(p, e) ==
  /\ owner' = [owner EXCEPT ![e] = p]
  /\ todo' = [todo EXCEPT ![p] = @ \cup {e}]

\* Mutant: one row more than LIMIT.
RoomForOneMore(p) == Cardinality(todo[p]) <= Batch

\* LIMIT counts the rows that are locked, not those that are skipped.
Room(p) == Cardinality(todo[p]) < Batch

\* Mutant: the rows are read without FOR UPDATE.
FetchRowUnlocked(p, e) ==
  /\ pc[p] = "fetch"
  /\ Cardinality(todo[p]) < Batch
  /\ First(scan[p], e)
  /\ scan' = [scan EXCEPT ![p] = @ \ {e}]
  /\ todo' = [todo EXCEPT ![p] = @ \cup {e}]
  /\ UNCHANGED <<table, owner, pc, done, lost, broker, history>>

\* One row is examined: skipped if another transaction has it locked, or if its latest
\* version is published; locked and taken otherwise.
FetchRow(p, e) ==
  /\ pc[p] = "fetch"
  /\ Room(p)
  /\ First(scan[p], e)
  /\ scan' = [scan EXCEPT ![p] = @ \ {e}]
  /\ IF row[e] = "unpublished" /\ owner[e] = None
     THEN Take(p, e)
     ELSE UNCHANGED <<owner, todo>>
  /\ UNCHANGED <<table, pc, done, lost, broker, history>>

\* LIMIT rows, or all there are; none at all ends the batch.
Fetched(p) ==
  /\ pc[p] = "fetch"
  /\ scan[p] = {} \/ ~Room(p)
  /\ pc' = [pc EXCEPT ![p] = IF todo[p] = {} THEN "idle" ELSE "send"]
  /\ scan' = [scan EXCEPT ![p] = {}]
  /\ UNCHANGED <<table, owner, todo, done, lost, broker, history>>

\* JetStream stores the message; messages carry no id it could recognise.
Arrive(e) ==
  /\ arrived' = arrived \cup {e}
  /\ repeated' = IF e \in arrived THEN repeated \cup {e} ELSE repeated

\* Mutant: "published := append(...)" in the loop, which is lost with its iteration.
SendOkShadowed(p, e) ==
  /\ pc[p] = "send"
  /\ First(todo[p], e)
  /\ e \notin Poison
  /\ Arrive(e)
  /\ todo' = [todo EXCEPT ![p] = @ \ {e}]
  /\ UNCHANGED <<table, owner, pc, scan, done, lost, history>>

SendOk(p, e) ==
  /\ pc[p] = "send"
  /\ First(todo[p], e)
  /\ e \notin Poison
  /\ Arrive(e)
  /\ todo' = [todo EXCEPT ![p] = @ \ {e}]
  /\ done' = [done EXCEPT ![p] = @ \cup {e}]
  /\ UNCHANGED <<table, owner, pc, scan, lost, history>>

\* The end of the transaction and of the batch: the locks are gone.
EndBatch(p) ==
  /\ owner' = [e \in Entries |-> IF owner[e] = p THEN None ELSE owner[e]]
  /\ pc' = [pc EXCEPT ![p] = "idle"]
  /\ scan' = [scan EXCEPT ![p] = {}]
  /\ todo' = [todo EXCEPT ![p] = {}]
  /\ done' = [done EXCEPT ![p] = {}]
  /\ lost' = lost \ {p}

\* Mutant: an error ends the loop (break, not continue).
SendErrorBreaks(p, e) ==
  /\ pc[p] = "send"
  /\ First(todo[p], e)
  /\ (e \notin Poison /\ Arrive(e)) \/ UNCHANGED broker
  /\ todo' = [todo EXCEPT ![p] = {}]
  /\ Doubt({e})
  /\ UNCHANGED <<table, owner, pc, scan, done, lost>>

\* Publish errs and the loop continues with the next row.  The message may have been
\* stored all the same, its acknowledgement lost or late.
SendError(p, e) ==
  /\ pc[p] = "send"
  /\ First(todo[p], e)
  /\ (e \notin Poison /\ Arrive(e)) \/ UNCHANGED broker
  /\ todo' = [todo EXCEPT ![p] = @ \ {e}]
  /\ Doubt({e})
  /\ UNCHANGED <<table, owner, pc, scan, done, lost>>

\* Mutant: every row of the batch is marked, sent or not.
CommitMarksBatch(p) ==
  /\ pc[p] = "send" /\ todo[p] = {} /\ p \notin lost
  /\ row' = [e \in Entries |-> IF owner[e] = p THEN "published" ELSE row[e]]
  /\ EndBatch(p)
  /\ UNCHANGED <<created, clock, broker, history>>

\* MarkPublished of the rows that were acknowledged, and COMMIT.
Commit(p) ==
  /\ pc[p] = "send" /\ todo[p] = {} /\ p \notin lost
  /\ row' = [e \in Entries |-> IF e \in done[p] THEN "published" ELSE row[e]]
  /\ EndBatch(p)
  /\ UNCHANGED <<created, clock, broker, history>>

\* The database takes the connection for dead and rolls the transaction back, while
\* the publisher goes on sending what it has fetched.
LoseConnection(p) ==
  /\ pc[p] = "send" /\ p \notin lost
  /\ lost' = lost \cup {p}
  /\ owner' = [e \in Entries |-> IF owner[e] = p THEN None ELSE owner[e]]
  /\ Doubt(todo[p] \cup done[p])
  /\ UNCHANGED <<table, pc, scan, todo, done, broker>>

\* A statement fails, or the process dies and is started again: nothing is marked.
Fail(p) ==
  /\ pc[p] # "idle"
  /\ EndBatch(p)
  /\ Doubt(todo[p] \cup done[p])
  /\ UNCHANGED <<table, broker>>

-----------------------------------------------------------------------------
Write(e) == Insert(e) \/ EndInsert(e)

Publish(p) ==
  \/ Poll(p) \/ Fetched(p) \/ Commit(p)
  \/ \E e \in Entries : FetchRow(p, e) \/ SendOk(p, e)

Trouble(p) ==
  \/ \E e \in Entries : SendError(p, e)
  \/ LoseConnection(p) \/ Fail(p)

Next ==
  \/ \E e \in Entries : Write(e)
  \/ \E p \in Publishers : Publish(p) \/ Trouble(p)

Spec == Init /\ [][Next]_vars

-----------------------------------------------------------------------------
(* Fairness. *)

\* The ticker goes on for ever and a batch that began takes its next step; a publisher
\* whose connection is gone finds out when it marks.  A row that is not poison is
\* not refused every time it is sent.  Sends may fail for ever, but databases,
\* connections and processes are not lost for ever.
PublisherFairness ==
  /\ \A p \in Publishers :
       /\ WF_vars(Publish(p) \/ \E e \in Entries : SendError(p, e))
       /\ WF_vars(p \in lost /\ todo[p] = {} /\ Fail(p))
  /\ \A e \in Entries : SF_vars(\E p \in Publishers : SendOk(p, e))
\* (A batch that ends with nothing to mark changes what a failure does, and is none.)
Loss(p) == LoseConnection(p) \/ (p \notin lost /\ Fail(p) /\ ~Fetched(p) /\ ~Commit(p))
LossesEnd == <>[][\A p \in Publishers : ~Loss(p)]_vars
FairSpec == Spec /\ PublisherFairness /\ LossesEnd

-----------------------------------------------------------------------------
(* What must hold. *)

\* The rows a publisher holds in a live transaction are its own: nobody else is sending
\* them, and nobody has marked them (FOR UPDATE SKIP LOCKED, store.go:26-34).
SendersApart ==
  \A p \in Publishers \ lost : \A e \in todo[p] \cup done[p] :
    /\ row[e] = "unpublished"
    /\ \A q \in Publishers \ (lost \cup {p}) : e \notin todo[q] \cup done[q]

\* JetStream stores a message again only where something went wrong: an answer was an
\* error, or a batch with the row in it was not committed.  When nothing fails, every
\* message is stored once, however many publishers poll at the same time.
RepeatsDoubted == repeated \subseteq doubted

\* Cause before effect: when the message of a row is first stored, those of the rows that
\* were committed before its transaction began are stored too, but for those that
\* another publisher has in hand, or that went wrong.  With one publisher and no
\* failures the order is never broken, though rows can be committed after
\* others that began later (ORDER BY created_at, store.go:31).
InOtherHands(p) == UNION {todo[q] : q \in Publishers \ {p}}
CausalOrder ==
  [][\A p \in Publishers : \A e \in todo[p] \ todo'[p] : e \in arrived' \ arrived =>
       past[e] \subseteq arrived \cup doubted \cup InOtherHands(p)]_vars

\* A committed row is published in the end, whatever fails in between, and though
\* other rows can never be sent, as long as these do not fill a batch.
EveryRowPublished ==
  \A e \in Entries \ Poison : (row[e] = "unpublished") ~> (row[e] = "published")

\* The outbox implements at-least-once delivery of what was committed.
AtLeastOnce == INSTANCE Delivery WITH
  recorded <- Committed,
  settled <- {e \in Entries : row[e] = "published"}
ImplementsDelivery == AtLeastOnce!Spec
=============================================================================
