------------------------------ MODULE Matching ------------------------------
(***************************************************************************)
(* From the tables of jobs-api to the vector index of ai-matching: the     *)
(* outbox publisher, the JOBS stream (a work queue, external), and the     *)
(* consumer, which handles its messages one after another and overwrites   *)
(* the item's vector with the embedding of the message's text, whatever    *)
(* version that is.  POST /embed/batch writes to the same index.           *)
(***************************************************************************)
EXTENDS Catalog, Sequences, Functions

CONSTANTS Fetch,    \* messages the consumer fetches at most (consumer_batch_size)
          InFlight, \* bound: messages stored and not acknowledged, for TLC
          Faults    \* bound: events late, and events lost, for TLC; 2 * N is no bound

ASSUME MatchingAssumption == Fetch \in Nat \ {0} /\ InFlight \in Nat \ {0} /\ Faults \in Nat

VARIABLES
  marked,   \* outbox rows with published_at
  todo,     \* the publisher's batch, what is left of it
  done,     \* the rows of the batch whose sending was acknowledged
  queue,    \* JOBS: messages not yet delivered, in order
  back,     \* JOBS: messages to be delivered again
  hand,     \* the messages the consumer has fetched and not finished
  fresh,    \* the first of them is upserted already
  up,       \* the consumer's task has subscribed and is not over
  index,    \* Qdrant: the event whose text each item's vector was computed from
  posted,   \* the event whose text a call of embed_batch carries, 0 if there is no call
  late,     \* history: the events that were skipped, sent again or delivered again
  lost      \* history: the events that were acknowledged without having been upserted

publisher == <<marked, todo, done>>
stream    == <<queue, back>>
consumer  == <<hand, fresh, up>>
history   == <<late, lost>>
vars      == <<catalog, publisher, stream, consumer, index, posted, history>>

Messages == Range(queue) \cup Range(back) \cup Range(hand)

TypeOK ==
  /\ CatalogTypeOK
  /\ marked \subseteq outbox /\ todo \subseteq outbox /\ done \subseteq outbox
  /\ queue \in Seq(Requests) /\ back \in Seq(Requests)
  /\ hand \in Seq(Requests) /\ Len(hand) <= Fetch
  /\ fresh \in BOOLEAN
  /\ up \in BOOLEAN /\ (hand # <<>> => up)
  /\ index \in [Items -> 0 .. N] /\ posted \in 0 .. N
  /\ late \subseteq Requests /\ lost \subseteq Requests

Init ==
  /\ CatalogInit
  /\ marked = {} /\ todo = {} /\ done = {}
  /\ queue = <<>> /\ back = <<>>
  /\ hand = <<>> /\ fresh = FALSE /\ up = FALSE
  /\ index = [i \in Items |-> 0] /\ posted = 0
  /\ late = {} /\ lost = {}

Write == CatalogNext /\ UNCHANGED <<publisher, stream, consumer, index, posted, history>>

-----------------------------------------------------------------------------
\* History only: what went wrong with an event.
Faulty(l, t) ==
  /\ late' = late \cup l /\ lost' = lost \cup t
  /\ Cardinality(late') + Cardinality(lost') <= Faults

(* The publisher of jobs-api, alone on its table (Outbox has several). *)

Poll ==
  /\ todo = {} /\ done = {}
  /\ outbox # marked
  /\ todo' = outbox \ marked
  /\ UNCHANGED <<catalog, marked, done, stream, consumer, index, posted, history>>

\* Mutant: no ORDER BY.
FirstInAnyOrder(r) == r \in todo

\* ORDER BY created_at.
First(r) == r \in todo /\ \A q \in todo : r <= q

Store(r) ==
  /\ Len(queue) + Len(back) + Len(hand) < InFlight
  /\ queue' = Append(queue, r)
  /\ UNCHANGED back

SendOk(r) ==
  /\ First(r)
  /\ Store(r)
  /\ todo' = todo \ {r} /\ done' = done \cup {r}
  /\ UNCHANGED <<catalog, marked, consumer, index, posted, history>>

\* Mutant: a row is marked although its sending failed.
SendErrorMarked(r) ==
  /\ First(r)
  /\ Store(r) \/ UNCHANGED stream
  /\ todo' = todo \ {r} /\ done' = done \cup {r}
  /\ Faulty({r}, {})
  /\ UNCHANGED <<catalog, marked, consumer, index, posted>>

\* Publish errs, though JetStream may have stored the message, and the loop goes on.
SendError(r) ==
  /\ First(r)
  /\ Store(r) \/ UNCHANGED stream
  /\ todo' = todo \ {r}
  /\ Faulty({r}, {})
  /\ UNCHANGED <<catalog, marked, done, consumer, index, posted>>

\* MarkPublished and COMMIT.
Mark ==
  /\ todo = {} /\ done # {}
  /\ marked' = marked \cup done
  /\ done' = {}
  /\ UNCHANGED <<catalog, todo, stream, consumer, index, posted, history>>

\* An error or the death of the process before the COMMIT: all that was sent will be
\* sent again.
Abandon ==
  /\ todo # {} \/ done # {}
  /\ todo' = {} /\ done' = {}
  /\ Faulty(done, {})
  /\ UNCHANGED <<catalog, marked, stream, consumer, index, posted>>

-----------------------------------------------------------------------------
(* NATSConsumer.run and handle_message, a task of the process of ai-matching. *)

\* The process has been started, or started again, and connect and pull_subscribe succeed.
\* Nothing says that they do: outside the loop their errors end the task for good.
Subscribe ==
  /\ ~up /\ up' = TRUE
  /\ UNCHANGED <<catalog, publisher, stream, hand, fresh, index, posted, history>>

\* fetch: messages to be delivered again come first when their time has come.
FetchMessages ==
  /\ up /\ hand = <<>>
  /\ \E a \in 0 .. Len(back), b \in 0 .. Len(queue) :
       /\ a + b \in 1 .. Fetch
       /\ hand' = SubSeq(back, 1, a) \o SubSeq(queue, 1, b)
       /\ back' = SubSeq(back, a + 1, Len(back))
       /\ queue' = SubSeq(queue, b + 1, Len(queue))
  /\ UNCHANGED <<catalog, publisher, fresh, up, index, posted, history>>

Overwritten == index' = [index EXCEPT ![On(Head(hand))] = Head(hand)]

\* Embed the text and upsert the vector.
Upsert ==
  /\ hand # <<>> /\ ~fresh
  /\ Overwritten
  /\ fresh' = TRUE
  /\ UNCHANGED <<catalog, publisher, stream, hand, up, posted, history>>

\* The message leaves the hand; JetStream deletes it, or will deliver it again.
Acknowledged == hand' = Tail(hand) /\ fresh' = FALSE /\ UNCHANGED up
Redelivered(ms) ==
  /\ back' = back \o ms
  /\ Faulty(Range(ms), {})
  /\ UNCHANGED queue

\* An acknowledgement is not confirmed: it may be lost, or be late.
Ack ==
  /\ hand # <<>> /\ fresh
  /\ Acknowledged
  /\ UNCHANGED <<stream, history>> \/ Redelivered(<<Head(hand)>>)
  /\ UNCHANGED <<catalog, publisher, index, posted>>

\* The model or Qdrant errs, Qdrant perhaps after it stored the vector.
Nak ==
  /\ hand # <<>> /\ ~fresh
  /\ Overwritten \/ UNCHANGED index
  /\ Acknowledged
  /\ Redelivered(<<Head(hand)>>)
  /\ UNCHANGED <<catalog, publisher, posted>>

\* The error is a ValidationError, a ValueError or a KeyError: it is taken for that of an
\* invalid payload wherever it comes from, and the message is acknowledged.
Discard ==
  /\ hand # <<>> /\ ~fresh
  /\ Acknowledged
  /\ \/ Overwritten /\ UNCHANGED <<stream, history>>
     \/ Faulty({}, {Head(hand)}) /\ UNCHANGED <<stream, index>>
     \/ (Overwritten \/ UNCHANGED index) /\ Redelivered(<<Head(hand)>>)
  /\ UNCHANGED <<catalog, publisher, posted>>

\* Nothing of the batch is acknowledged any more, and all of it will be delivered again.
LetGo ==
  /\ hand' = <<>> /\ fresh' = FALSE
  /\ Redelivered(hand)
  /\ UNCHANGED <<catalog, publisher, index, posted>>

\* ack or nak raises; the loop logs it and goes on.
Drop == hand # <<>> /\ LetGo /\ UNCHANGED up

\* The process stops or dies, or the client gives up reconnecting and every fetch fails.
\* In the latter case nobody watches the task: the process and /health live on.
Stop == up /\ LetGo /\ up' = FALSE

-----------------------------------------------------------------------------
(* embed_batch: someone read an item and posts its text; the upserts run concurrently *)
(* with each other and with the consumer.  Bound: one text under way at a time.       *)

BatchBegin(i) ==
  /\ i \in born /\ posted = 0
  /\ posted' = last[i]
  /\ UNCHANGED <<catalog, publisher, stream, consumer, index, history>>

\* An item's error is reported in the answer and changes nothing.
BatchUpsert ==
  /\ posted # 0
  /\ \/ index' = [index EXCEPT ![On(posted)] = posted] /\ Faulty({posted}, {})
     \/ UNCHANGED <<index, history>>
  /\ posted' = 0
  /\ UNCHANGED <<catalog, publisher, stream, consumer>>

-----------------------------------------------------------------------------
Publish == Poll \/ (\E r \in Requests : SendOk(r) \/ SendError(r)) \/ Mark \/ Abandon
Consume == FetchMessages \/ Upsert \/ Ack \/ Nak \/ Discard \/ Drop

Next ==
  \/ Write \/ Publish \/ Consume \/ Subscribe \/ Stop
  \/ (\E i \in Items : BatchBegin(i)) \/ BatchUpsert

Spec == Init /\ [][Next]_vars

\* The publisher, and the consumer while it is up, take their steps.  Assumed of
\* the environment: JetStream, the model and Qdrant may fail any number of times, but not
\* every time; batches are given up any number of times, but not for ever.  Nothing is
\* assumed of Subscribe and Stop.
Fairness ==
  /\ WF_vars(Publish) /\ \A r \in Requests : SF_vars(SendOk(r))
  /\ WF_vars(Consume) /\ SF_vars(Upsert) /\ SF_vars(Ack /\ UNCHANGED stream)
  /\ <>[][~Abandon /\ ~Drop]_vars
FairSpec == Spec /\ Fairness

-----------------------------------------------------------------------------
\* What is in the index was committed: a rolled back update never shows in a match, and
\* an item's vector is never another item's.
IndexedWasCommitted ==
  \A i \in Items : index[i] # 0 => pc[index[i]] = "committed" /\ On(index[i]) = i

\* Nothing about an item is under way between the tables and the index.
Quiet(i) == \A r \in (outbox \ marked) \cup Messages \cup ({posted} \ {0}) : On(r) # i

Current(i) == index[i] # 0 /\ payload[index[i]] = Text(i)

\* An index that stays behind has one of three causes: the event it shows was skipped,
\* sent again or delivered again (or posted by embed_batch) after a later one; two updates
\* of the item overlapped and committed in the other order than they began; or the last
\* event was acknowledged without having been upserted, its error taken for that of an
\* invalid payload.  Without failures and overlaps, the index follows.
StaleHasCause ==
  \A i \in born : Quiet(i) /\ ~Current(i) =>
    index[i] \in late \/ index[i] > last[i] \/ last[i] \in lost

\* If the consumer is up for good in the end, every item that is created can be
\* matched in the end, unless every event about it was once acknowledged without having
\* been upserted.  ("Create job -> auto-embeds -> search returns",
\* docs/architecture/overview.md:540, knows neither condition.)
EveryItemIndexed ==
  <>[]up =>
    \A i \in Items : (i \in born) ~> (index[i] # 0 \/ {r \in outbox : On(r) = i} \subseteq lost)

\* "Upserts vector in Qdrant -> Next match query returns updated results"
\* (docs/architecture/overview.md:687-688): when nothing is under way any more, a match
\* is computed from what the tables hold; asked only if no event was thrown away.
IndexFollows == lost = {} => \A i \in born : Quiet(i) => Current(i)
=============================================================================
