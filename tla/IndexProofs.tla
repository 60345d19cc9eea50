----------------------------- MODULE IndexProofs -----------------------------
(***************************************************************************)
(* Why an index that stays behind has a cause, for any number of requests  *)
(* and items: StaleHasCause of Matching.                                   *)
(*                                                                         *)
(* Of two events about an item, let the later be the last that was         *)
(* committed, and the earlier one that was never skipped, sent again or    *)
(* delivered again.  Then the publisher sends the earlier one first        *)
(* (PolledToo), the stream and the hand keep them in that order (InLine),  *)
(* and the earlier one is gone when the later one is (StillThere).  So     *)
(* when the later one is gone, its vector is there, unless the event was   *)
(* thrown away (Reach).                                                    *)
(***************************************************************************)
EXTENDS MatchingProofs

Sent == done \cup marked
Line == hand \o queue

Before(r, l) == r < l /\ On(r) = On(l) /\ r \notin late

\* No copy of l comes before one of r.
InOrder(s, r, l) == \A k, m \in 1 .. Len(s) : s[k] = l /\ k <= m => s[m] # r

PolledToo(r, l) ==
  /\ l \in todo => r \in todo \cup Sent
  /\ l \in Sent \cup Messages => r \in Sent
StillThere(r, l) == l \in Sent /\ r \in Messages => l \in Messages
InLine(r, l) == (l \in Range(back) => r \notin Messages) /\ InOrder(Line, r, l)
Pair(r, l) == PolledToo(r, l) /\ StillThere(r, l) /\ InLine(r, l)

\* The events committed last.
Latest == {last[i] : i \in born}

Pairs == \A l \in Latest, r \in outbox : Before(r, l) => Pair(r, l)

\* What was sent is not sent again by this batch, and what comes back is late.
Tidy == todo \cap Sent = {} /\ Range(back) \subseteq late

\* The tables hold what the last event says.
Told == \A i \in born : payload[last[i]] = Text(i)

\* The item's vector is of the event r, or of a late one.
Shows(i, r) == index[i] = r \/ index[i] \in late
Upserted == fresh => hand # <<>> /\ Shows(On(Head(hand)), Head(hand))
Reach(l) == l \in Sent \ Messages => Shows(On(l), l) \/ index[On(l)] > l \/ l \in lost
Reached == \A l \in Latest : Reach(l)

IndexInv == MatchInv /\ Told /\ Tidy /\ Pairs /\ Upserted /\ Reached

-----------------------------------------------------------------------------
(* Sequences. *)

LEMMA RangeAppend ==
  ASSUME NEW S, NEW s \in Seq(S), NEW e \in S
  PROVE  Range(Append(s, e)) = Range(s) \cup {e}
  <1>1. Append(s, e) = s \o <<e>> /\ <<e>> \in Seq(S)
    BY AppendIsConcat
  <1>2. Range(<<e>>) = {e}
    BY DEF Range
  <1>3. Range(s \o <<e>>) = Range(s) \cup Range(<<e>>)
    BY <1>1, RangeConcatenation
  <1> QED
    BY <1>1, <1>2, <1>3

LEMMA RangeHeadTail ==
  ASSUME NEW S, NEW s \in Seq(S), s # <<>>
  PROVE  Range(s) = {Head(s)} \cup Range(Tail(s)) /\ Head(s) = s[1]
  <1>1. Len(s) \in Nat /\ Len(s) # 0 /\ Head(s) = s[1]
    BY EmptySeq
  <1>2. /\ Tail(s) \in Seq(S) /\ Len(Tail(s)) = Len(s) - 1
        /\ \A i \in 1 .. Len(Tail(s)) : Tail(s)[i] = s[i + 1]
    BY HeadTailProperties
  <1>3. Range(s) = {s[i] : i \in 1 .. Len(s)} /\ Range(Tail(s)) = {Tail(s)[i] : i \in 1 .. Len(Tail(s))}
    BY <1>2, RangeEquality
  <1>4. ASSUME NEW x \in Range(s) PROVE x = s[1] \/ x \in Range(Tail(s))
    <2>1. PICK i \in 1 .. Len(s) : x = s[i]
      BY <1>3
    <2>2. CASE i # 1
      <3>1. i - 1 \in 1 .. Len(Tail(s)) /\ (i - 1) + 1 = i
        BY <2>2, <1>1, <1>2
      <3> QED
        BY <3>1, <2>1, <1>2, <1>3
    <2> QED
      BY <2>1, <2>2
  <1>5. ASSUME NEW x \in Range(Tail(s)) PROVE x \in Range(s)
    <2>1. PICK i \in 1 .. Len(Tail(s)) : x = Tail(s)[i]
      BY <1>3
    <2>2. i + 1 \in 1 .. Len(s)
      BY <1>1, <1>2
    <2> QED
      BY <2>1, <2>2, <1>2, <1>3
  <1>6. s[1] \in Range(s)
    BY <1>1, <1>3
  <1> QED
    BY <1>1, <1>4, <1>5, <1>6

\* A message is put at the end.
LEMMA OrderAppend ==
  ASSUME NEW S, NEW s \in Seq(S), NEW e \in S, NEW r, NEW l, r # l,
         InOrder(s, r, l), e = r => l \notin Range(s)
  PROVE  InOrder(Append(s, e), r, l)
  <1>1. /\ Len(s) \in Nat /\ Len(Append(s, e)) = Len(s) + 1
        /\ \A i \in 1 .. Len(s) : Append(s, e)[i] = s[i]
        /\ Append(s, e)[Len(s) + 1] = e
    BY AppendProperties, LenProperties
  <1>2. Range(s) = {s[i] : i \in 1 .. Len(s)}
    BY RangeEquality
  <1> DEFINE t == Append(s, e)
  <1>3. ASSUME NEW k \in 1 .. Len(t), NEW m \in 1 .. Len(t), t[k] = l, k <= m PROVE t[m] # r
    <2>1. CASE m = Len(s) + 1
      <3>1. CASE k = Len(s) + 1
        BY <3>1, <2>1, <1>3, <1>1
      <3>2. CASE k \in 1 .. Len(s)
        BY <3>2, <2>1, <1>3, <1>1, <1>2
      <3> QED
        BY <3>1, <3>2, <1>1
    <2>2. CASE m # Len(s) + 1
      <3>1. k \in 1 .. Len(s) /\ m \in 1 .. Len(s)
        BY <2>2, <1>1, <1>3
      <3> QED
        BY <3>1, <1>1, <1>3 DEF InOrder
    <2> QED
      BY <2>1, <2>2
  <1> QED
    BY <1>3 DEF InOrder

\* Messages are taken from the front.
LEMMA OrderSuffix ==
  ASSUME NEW s, NEW t, NEW n \in Nat, Len(s) \in Nat, Len(t) \in Nat, Len(s) = Len(t) + n,
         \A k \in 1 .. Len(t) : t[k] = s[k + n], NEW r, NEW l, InOrder(s, r, l)
  PROVE  InOrder(t, r, l)
  <1>1. ASSUME NEW k \in 1 .. Len(t), NEW m \in 1 .. Len(t), t[k] = l, k <= m PROVE t[m] # r
    <2>1. k + n \in 1 .. Len(s) /\ m + n \in 1 .. Len(s) /\ k + n <= m + n
      BY <1>1
    <2> QED
      BY <2>1, <1>1 DEF InOrder
  <1> QED
    BY <1>1 DEF InOrder

\* Messages come in before all others.
LEMMA OrderFetched ==
  ASSUME NEW S, NEW s \in Seq(S), NEW t \in Seq(S), NEW r, NEW l, InOrder(t, r, l),
         r \notin Range(s), l \in Range(s) => r \notin Range(t)
  PROVE  InOrder(s \o t, r, l)
  <1>1. /\ Len(s) \in Nat /\ Len(t) \in Nat /\ Len(s \o t) = Len(s) + Len(t)
        /\ \A i \in 1 .. Len(s) + Len(t) :
             (s \o t)[i] = IF i <= Len(s) THEN s[i] ELSE t[i - Len(s)]
    BY ConcatProperties, LenProperties
  <1>2. Range(s) = {s[i] : i \in 1 .. Len(s)} /\ Range(t) = {t[i] : i \in 1 .. Len(t)}
    BY RangeEquality
  <1> DEFINE u == s \o t
  <1>3. ASSUME NEW k \in 1 .. Len(u), NEW m \in 1 .. Len(u), u[k] = l, k <= m PROVE u[m] # r
    <2>1. CASE m <= Len(s)
      <3>1. m \in 1 .. Len(s) /\ u[m] = s[m]
        BY <2>1, <1>1
      <3> QED
        BY <3>1, <1>2
    <2>2. CASE ~(m <= Len(s))
      <3>1. m - Len(s) \in 1 .. Len(t) /\ u[m] = t[m - Len(s)]
        BY <2>2, <1>1
      <3>2. CASE k <= Len(s)
        <4>1. k \in 1 .. Len(s) /\ u[k] = s[k]
          BY <3>2, <1>1
        <4> QED
          BY <4>1, <3>1, <1>2, <1>3
      <3>3. CASE ~(k <= Len(s))
        <4>1. k - Len(s) \in 1 .. Len(t) /\ u[k] = t[k - Len(s)] /\ k - Len(s) <= m - Len(s)
          BY <3>3, <1>1, <1>3
        <4> QED
          BY <4>1, <3>1, <1>3 DEF InOrder
      <3> QED
        BY <3>2, <3>3
    <2> QED
      BY <2>1, <2>2
  <1> QED
    BY <1>3 DEF InOrder

\* What stands behind a part that holds l is not r.
LEMMA OrderSplit ==
  ASSUME NEW S, NEW s \in Seq(S), NEW t \in Seq(S), NEW r, NEW l, InOrder(s \o t, r, l),
         l \in Range(s)
  PROVE  r \notin Range(t)
  <1>1. /\ Len(s) \in Nat /\ Len(t) \in Nat /\ Len(s \o t) = Len(s) + Len(t)
        /\ \A i \in 1 .. Len(s) + Len(t) :
             (s \o t)[i] = IF i <= Len(s) THEN s[i] ELSE t[i - Len(s)]
    BY ConcatProperties, LenProperties
  <1>2. Range(s) = {s[i] : i \in 1 .. Len(s)} /\ Range(t) = {t[i] : i \in 1 .. Len(t)}
    BY RangeEquality
  <1>3. PICK k \in 1 .. Len(s) : s[k] = l
    BY <1>2
  <1>4. ASSUME NEW m \in 1 .. Len(t), t[m] = r PROVE FALSE
    <2>1. k \in 1 .. Len(s \o t) /\ m + Len(s) \in 1 .. Len(s \o t) /\ k <= m + Len(s)
      BY <1>1
    <2>2. (s \o t)[k] = l
      BY <1>1, <1>3
    <2>3. (s \o t)[m + Len(s)] = t[m]
      BY <1>1
    <2> QED
      BY <2>1, <2>2, <2>3, <1>4 DEF InOrder
  <1> QED
    BY <1>2, <1>4

-----------------------------------------------------------------------------
(* The tables. *)

\* A step of the catalog commits an event, the last one on its item, or leaves the tables.
Committing(r, i) ==
  /\ outbox' = outbox \cup {r} /\ last' = [last EXCEPT ![i] = r] /\ born' = born \cup {i}
  /\ pc'[r] = "committed" /\ On(r)' = i
  /\ \A j \in Items \ {i} : Text(j)' = Text(j)

LEMMA CatalogMoves ==
  ASSUME CatInv, CatalogNext
  PROVE  \E r \in Requests :
           /\ pc[r] # "committed" /\ r \notin outbox
           /\ \A q \in Requests \ {r} : payload'[q] = payload[q]
           /\ (\E i \in Items : Committing(r, i)) \/ UNCHANGED tables
  <1>1. PICK r \in Requests :
          \/ \E i \in Items : Create(r, i) \/ \E want \in Wants(i) : Begin(r, i, want)
          \/ UpdateJob(r) \/ CommitJob(r)
          \/ SelectLinks(r) \/ DeleteLinks(r) \/ \E s \in Skills : InsertLink(r, s)
          \/ TouchProfile(r) \/ ReadProfile(r) \/ CommitSkills(r)
          \/ Fail(r)
    BY DEF CatalogNext
  <1>2. pc[r] # "committed" /\ r \notin outbox
    <2>1. pc[r] # "committed"
      BY <1>1 DEF Create, Begin, UpdateJob, CommitJob, SelectLinks, DeleteLinks, InsertLink,
         TouchProfile, ReadProfile, CommitSkills, Fail, Beginning, Open, Deleted, Holding
    <2> QED
      BY <2>1 DEF CatInv, Alone
  <1>3. \A q \in Requests \ {r} : payload'[q] = payload[q]
    BY <1>1 DEF CatInv, CatalogTypeOK, Create, Begin, UpdateJob, CommitJob, SelectLinks, DeleteLinks,
       InsertLink, TouchProfile, ReadProfile, CommitSkills, Fail
  <1>4. ASSUME NEW i \in Items, Commit(r, i)
        PROVE  /\ outbox' = outbox \cup {r} /\ last' = [last EXCEPT ![i] = r]
               /\ pc'[r] = "committed" /\ On(r)' = i
    BY <1>4 DEF CatInv, CatalogTypeOK, Commit, End, Goto, On
  <1>5. ASSUME NEW i \in Items, Create(r, i) PROVE Committing(r, i)
    <2>1. Commit(r, i) /\ links' = links /\ born' = born \cup {i}
      BY <1>5 DEF Create
    <2>2. \A j \in Jobs \ {i} : columns'[j] = columns[j]
      BY <1>5 DEF Create, CatInv, CatalogTypeOK
    <2> QED
      BY <2>1, <2>2, <1>4 DEF Committing, Text
  <1>6. ASSUME CommitJob(r) PROVE \E i \in Items : Committing(r, i)
    <2>1. /\ On(r) \in Items /\ On(r) \in born /\ Commit(r, On(r)) /\ links' = links
          /\ born' = born
      BY <1>6 DEF CommitJob, Items, CatInv, Alone, Open, Deleted, Holding
    <2>2. \A j \in Jobs \ {On(r)} : columns'[j] = columns[j]
      BY <1>6 DEF CommitJob, CatInv, CatalogTypeOK
    <2>3. Committing(r, On(r))
      BY <2>1, <2>2, <1>4 DEF Committing, Text
    <2> QED
      BY <2>1, <2>3
  <1>7. ASSUME CommitSkills(r) PROVE \E i \in Items : Committing(r, i)
    <2>1. /\ On(r) \in Items /\ On(r) \in born /\ Commit(r, On(r)) /\ columns' = columns
          /\ born' = born
      BY <1>7 DEF CommitSkills, Items, CatInv, Alone, Open, Deleted, Holding
    <2>2. \A j \in Profiles \ {On(r)} : links'[j] = links[j]
      BY <1>7 DEF CommitSkills, CatInv, CatalogTypeOK
    <2>3. \A j \in Items \ {On(r)} : Text(j)' = Text(j)
      BY <2>1, <2>2 DEF Text, Items
    <2>4. Committing(r, On(r))
      BY <2>1, <2>3, <1>4 DEF Committing
    <2> QED
      BY <2>1, <2>4
  <1>8. ASSUME \/ \E i \in Items : \E want \in Wants(i) : Begin(r, i, want)
               \/ UpdateJob(r) \/ SelectLinks(r) \/ DeleteLinks(r)
               \/ \E s \in Skills : InsertLink(r, s)
               \/ TouchProfile(r) \/ ReadProfile(r) \/ Fail(r)
        PROVE  UNCHANGED tables
    BY <1>8 DEF Begin, UpdateJob, SelectLinks, DeleteLinks, InsertLink, TouchProfile, ReadProfile, Fail
  <1> QED
    BY <1>1, <1>2, <1>3, <1>5, <1>6, <1>7, <1>8

LEMMA ToldStep == MatchInv /\ Told /\ CatalogNext => Told'
  <1> SUFFICES ASSUME MatchInv, Told, CatalogNext, NEW j \in born' PROVE payload'[last'[j]] = Text(j)'
    BY DEF Told
  <1>0. CatInv
    BY DEF MatchInv
  <1>1. PICK r \in Requests :
           /\ pc[r] # "committed" /\ r \notin outbox
           /\ \A q \in Requests \ {r} : payload'[q] = payload[q]
           /\ (\E i \in Items : Committing(r, i)) \/ UNCHANGED tables
    BY <1>0, CatalogMoves
  <1>2. \A i \in born : i \in Items /\ last[i] \in outbox /\ last[i] \in Requests /\ last[i] # r
    BY <1>0, <1>1 DEF CatInv, CatalogTypeOK
  <1>3. CASE UNCHANGED tables
    <2>1. j \in born /\ last' = last /\ Text(j)' = Text(j)
      BY <1>3 DEF tables, Text
    <2> QED
      BY <2>1, <1>1, <1>2 DEF Told
  <1>4. ASSUME NEW i \in Items, Committing(r, i) PROVE payload'[last'[j]] = Text(j)'
    <2>1. CASE j = i
      <3>1. last'[j] = r /\ On(r)' = i /\ pc'[r] = "committed"
        BY <2>1, <1>4, <1>0 DEF Committing, CatInv, CatalogTypeOK
      <3>2. payload'[r] = Text(i)'
        BY <3>1, <1>0, <1>1, CommitAnnounces DEF Announces
      <3> QED
        BY <3>1, <3>2, <2>1
    <2>2. CASE j # i
      <3>1. j \in born /\ j \in Items /\ last'[j] = last[j] /\ Text(j)' = Text(j)
        BY <2>2, <1>4, <1>0, <1>2 DEF Committing, CatInv, CatalogTypeOK
      <3> QED
        BY <3>1, <1>1, <1>2 DEF Told
    <2> QED
      BY <2>1, <2>2
  <1> QED
    BY <1>1, <1>3, <1>4

-----------------------------------------------------------------------------
(* What a step does to the messages. *)

LEMMA Numbers ==
  ASSUME MatchInv
  PROVE  /\ \A r \in outbox : r \in Nat /\ On(r) \in Items
         /\ Latest \subseteq outbox
         /\ \A i \in born : i \in Items /\ On(last[i]) = i
         /\ queue \in Seq(outbox) /\ back \in Seq(outbox) /\ hand \in Seq(outbox)
         /\ Line \in Seq(outbox) /\ Range(Line) = Range(hand) \cup Range(queue)
         /\ Messages \subseteq outbox
  <1>1. \A r \in outbox : r \in Nat /\ On(r) \in Items
    BY EventsAreOnItems, CatalogAssumption DEF MatchInv, Requests
  <1>2. \A i \in born : i \in Items /\ last[i] \in outbox /\ On(last[i]) = i
    BY DEF MatchInv, CatInv, CatalogTypeOK
  <1>3. Latest \subseteq outbox
    BY <1>2 DEF Latest
  <1>4. queue \in Seq(outbox) /\ back \in Seq(outbox) /\ hand \in Seq(outbox)
    BY DEF MatchInv, Known
  <1>5. Line \in Seq(outbox)
    BY <1>4, ConcatProperties DEF Line
  <1>6. Range(Line) = Range(hand) \cup Range(queue)
    BY <1>4, RangeConcatenation DEF Line
  <1>7. Range(queue) \subseteq outbox /\ Range(back) \subseteq outbox /\ Range(hand) \subseteq outbox
    BY <1>4, RangeOfSeq
  <1> QED
    BY <1>1, <1>2, <1>3, <1>4, <1>5, <1>6, <1>7 DEF Messages

\* Messages are fetched, those that are delivered again first.
LEMMA FetchParts ==
  ASSUME MatchInv, FetchMessages
  PROVE  \E first, taken \in Seq(outbox) :
           /\ back' \in Seq(outbox) /\ first \o back' = back
           /\ queue' \in Seq(outbox) /\ taken \o queue' = queue
           /\ hand' = first \o taken
  <1>1. PICK a \in 0 .. Len(back), b \in 0 .. Len(queue) :
          /\ hand' = SubSeq(back, 1, a) \o SubSeq(queue, 1, b)
          /\ back' = SubSeq(back, a + 1, Len(back))
          /\ queue' = SubSeq(queue, b + 1, Len(queue))
    BY DEF FetchMessages
  <1>2. queue \in Seq(outbox) /\ back \in Seq(outbox)
    BY Numbers
  <1>3. Len(queue) \in Nat /\ Len(back) \in Nat /\ a \in Nat /\ b \in Nat
    BY <1>2, LenProperties
  <1> DEFINE first == SubSeq(back, 1, a)
             taken == SubSeq(queue, 1, b)
  <1>4. first \in Seq(outbox) /\ back' \in Seq(outbox) /\ first \o back' = back
    <2>1. \A k \in 1 .. Len(back) : back[k] \in outbox
      BY <1>2, ElementOfSeq
    <2>2. first \in Seq(outbox) /\ back' \in Seq(outbox)
      BY <2>1, <1>1, <1>3, SubSeqProperties
    <2>3. 1 \in 1 .. Len(back) + 1 /\ a \in 1 - 1 .. Len(back) /\ Len(back) \in a .. Len(back)
      BY <1>3
    <2>4. first \o back' = SubSeq(back, 1, Len(back))
      BY <2>3, <1>1, <1>2, ConcatAdjacentSubSeq
    <2> QED
      BY <2>2, <2>4, <1>2, SubSeqFull
  <1>5. taken \in Seq(outbox) /\ queue' \in Seq(outbox) /\ taken \o queue' = queue
    <2>1. \A k \in 1 .. Len(queue) : queue[k] \in outbox
      BY <1>2, ElementOfSeq
    <2>2. taken \in Seq(outbox) /\ queue' \in Seq(outbox)
      BY <2>1, <1>1, <1>3, SubSeqProperties
    <2>3. 1 \in 1 .. Len(queue) + 1 /\ b \in 1 - 1 .. Len(queue) /\ Len(queue) \in b .. Len(queue)
      BY <1>3
    <2>4. taken \o queue' = SubSeq(queue, 1, Len(queue))
      BY <2>3, <1>1, <1>2, ConcatAdjacentSubSeq
    <2> QED
      BY <2>2, <2>4, <1>2, SubSeqFull
  <1>6. hand' = first \o taken
    BY <1>1
  <1> HIDE DEF first, taken
  <1> QED
    BY <1>4, <1>5, <1>6

LEMMA FetchMoves ==
  ASSUME MatchInv, FetchMessages
  PROVE  Messages' = Messages /\ Range(back') \subseteq Range(back)
  <1>1. PICK first \in Seq(outbox), taken \in Seq(outbox) :
           /\ back' \in Seq(outbox) /\ first \o back' = back
           /\ queue' \in Seq(outbox) /\ taken \o queue' = queue
           /\ hand' = first \o taken
    BY FetchParts
  <1>2. Range(back) = Range(first) \cup Range(back')
    BY <1>1, RangeConcatenation
  <1>3. Range(queue) = Range(taken) \cup Range(queue')
    BY <1>1, RangeConcatenation
  <1>4. Range(hand') = Range(first) \cup Range(taken)
    BY <1>1, RangeConcatenation
  <1>5. Range(hand) = {}
    BY DEF FetchMessages, Range
  <1> QED
    BY <1>2, <1>3, <1>4, <1>5 DEF Messages

\* What is sent is stored, or late.
LEMMA SendMoves ==
  ASSUME MatchInv, NEW x \in Requests, SendOk(x) \/ SendError(x)
  PROVE  Messages \subseteq Messages' /\ Sent' \ Messages' \subseteq Sent \ Messages
  <1>1. x \in outbox /\ queue \in Seq(outbox) /\ back' = back /\ hand' = hand
    BY Numbers DEF SendOk, SendError, First, Store, stream, consumer, MatchInv, Known
  <1>2. CASE queue' = queue /\ Sent' = Sent
    BY <1>1, <1>2 DEF Messages
  <1>3. CASE queue' = Append(queue, x) /\ Sent' \subseteq Sent \cup {x}
    <2>1. Range(queue') = Range(queue) \cup {x}
      BY <1>1, <1>3, RangeAppend
    <2>2. Messages' = Messages \cup {x}
      BY <2>1, <1>1 DEF Messages
    <2> QED
      BY <2>2, <1>3
  <1> QED
    BY <1>2, <1>3 DEF SendOk, SendError, Store, stream, Sent

\* The first message leaves the hand: acknowledged, or to be delivered again.
LEMMA HeadMoves ==
  ASSUME MatchInv, Ack \/ Nak \/ Discard
  PROVE  /\ Messages = {Head(hand)} \cup Messages'
         /\ \/ Range(back') = Range(back) /\ late' = late
            \/ Range(back') = Range(back) \cup {Head(hand)} /\ late' = late \cup {Head(hand)}
         /\ Redelivered(<<Head(hand)>>) => Messages' = Messages /\ Head(hand) \in late'
  <1>1. hand # <<>> /\ hand' = Tail(hand) /\ queue' = queue
    BY DEF Ack, Nak, Discard, Acknowledged, Redelivered, stream
  <1> DEFINE h == Head(hand)
  <1>2. /\ back \in Seq(outbox) /\ hand \in Seq(outbox) /\ <<h>> \in Seq(outbox)
        /\ Range(hand) = {h} \cup Range(hand')
    BY <1>1, Numbers, HeadTailProperties, RangeHeadTail
  <1>3. \/ back' = back /\ late' = late /\ ~Redelivered(<<h>>)
        \/ back' = back \o <<h>> /\ late' = late \cup Range(<<h>>)
    <2>1. CASE Redelivered(<<h>>)
      BY <2>1 DEF Redelivered, Faulty
    <2>2. CASE ~Redelivered(<<h>>)
      BY <2>2 DEF Ack, Nak, Discard, Faulty, stream, history
    <2> QED
      BY <2>1, <2>2
  <1>4. Range(<<h>>) = {h}
    BY DEF Range
  <1>5. back \in Seq(outbox) /\ <<h>> \in Seq(outbox)
    BY <1>2
  <1>6. Range(back \o <<h>>) = Range(back) \cup Range(<<h>>)
    BY <1>5, RangeConcatenation
  <1>7. \/ Range(back') = Range(back) /\ late' = late /\ ~Redelivered(<<h>>)
        \/ Range(back') = Range(back) \cup {h} /\ late' = late \cup {h}
    BY <1>3, <1>4, <1>6
  <1>8. Messages = {h} \cup Messages' /\ (Redelivered(<<h>>) => Messages' = Messages)
    BY <1>1, <1>2, <1>7 DEF Messages
  <1> QED
    BY <1>7, <1>8

\* The hand is dropped.
LEMMA DropMoves ==
  ASSUME MatchInv, LetGo
  PROVE  Messages' = Messages /\ Range(back') = Range(back) \cup Range(hand)
  <1>1. hand' = <<>> /\ queue' = queue /\ back' = back \o hand
    BY DEF LetGo, Redelivered
  <1>2. Range(back \o hand) = Range(back) \cup Range(hand)
    BY Numbers, RangeConcatenation
  <1>3. Range(<<>>) = {}
    BY DEF Range
  <1> QED
    BY <1>1, <1>2, <1>3 DEF Messages

-----------------------------------------------------------------------------
(* The steps, for a pair of events. *)

LEMMA PairStill ==
  ASSUME UNCHANGED <<publisher, stream, hand>>, NEW r, NEW l, Pair(r, l)
  PROVE  Pair(r, l)'
  BY DEF Pair, PolledToo, StillThere, InLine, InOrder, Line, Messages, Sent, publisher, stream

\* A message is sent, the smallest of the batch.
LEMMA SendPair ==
  ASSUME MatchInv, Tidy, NEW x \in Requests, SendOk(x) \/ SendError(x),
         NEW r \in outbox, NEW l \in outbox, Before(r, l)', Pair(r, l)
  PROVE  Pair(r, l)'
  <1>1. /\ x \in todo /\ x \in outbox /\ todo' = todo \ {x} /\ back' = back /\ hand' = hand
        /\ \A q \in todo : x <= q
    BY DEF SendOk, SendError, First, Store, stream, consumer, MatchInv, Known
  <1>2. Sent \subseteq Sent' /\ Sent' \subseteq Sent \cup {x} /\ (x \in Sent' \/ x \in late')
    BY DEF SendOk, SendError, Sent, Faulty
  <1>3. r \in Nat /\ l \in Nat /\ x \in Nat /\ r < l /\ r \notin late'
    BY <1>1, Numbers DEF Before
  <1>4. r # l /\ (l = x => r \notin todo)
    BY <1>1, <1>3
  <1>5. r = x => x \in Sent'
    BY <1>2, <1>3
  <1>6. Messages = Range(queue) \cup Range(back) \cup Range(hand)
    BY DEF Messages
  <1>7. \/ queue' = queue /\ Sent' = Sent /\ r # x
        \/ queue' = Append(queue, x)
    BY <1>1, <1>3 DEF SendOk, SendError, Store, Faulty, stream, Sent
  <1>8. l \in Sent \cup Messages \cup {x} => r \in Sent
    BY <1>1, <1>4 DEF Pair, PolledToo
  <1>9. r = x => l \notin Sent \cup Messages
    BY <1>8, <1>1 DEF Tidy
  <1>10. CASE queue' = queue /\ Sent' = Sent /\ r # x
    <2>1. Messages' = Messages /\ Line' = Line
      BY <1>1, <1>10 DEF Messages, Line
    <2>2. PolledToo(r, l)' /\ StillThere(r, l)'
      BY <2>1, <1>1, <1>10 DEF Pair, PolledToo, StillThere, Sent
    <2>3. InLine(r, l)'
      BY <2>1, <1>1 DEF Pair, InLine, InOrder
    <2> QED
      BY <2>2, <2>3 DEF Pair
  <1>11. CASE queue' = Append(queue, x)
    <2>1. queue \in Seq(outbox) /\ hand \in Seq(outbox) /\ Line \in Seq(outbox) /\ <<x>> \in Seq(outbox)
      BY <1>1, Numbers
    <2>2. Range(queue') = Range(queue) \cup {x}
      BY <1>11, <1>1, <2>1, RangeAppend
    <2>3. Messages' = Messages \cup {x}
      BY <2>2, <1>1 DEF Messages
    <2>4. Line' = Append(Line, x)
      <3>1. Append(queue, x) = queue \o <<x>> /\ Append(Line, x) = Line \o <<x>>
        BY <1>1, <2>1, AppendIsConcat
      <3>2. (hand \o queue) \o <<x>> = hand \o (queue \o <<x>>)
        BY <2>1, ConcatAssociative
      <3> QED
        BY <3>1, <3>2, <1>1, <1>11 DEF Line
    <2>5. PolledToo(r, l)'
      <3>1. l \in todo' => r \in todo' \cup Sent'
        BY <1>1, <1>2, <1>5 DEF Pair, PolledToo
      <3>2. l \in Sent' \cup Messages' => r \in Sent'
        BY <1>2, <1>8, <2>3
      <3> QED
        BY <3>1, <3>2 DEF PolledToo, Sent
    <2>6. StillThere(r, l)'
      <3>1. ASSUME l \in Sent', r \in Messages' PROVE l \in Messages'
        BY <3>1, <1>2, <1>9, <1>4, <2>3 DEF Pair, StillThere
      <3> QED
        BY <3>1 DEF StillThere, Sent
    <2>7. InOrder(Line, r, l)'
      <3>1. x = r => l \notin Range(Line)
        BY <1>9, <1>6, Numbers
      <3>2. InOrder(Append(Line, x), r, l)
        BY <3>1, <1>1, <1>4, <2>1, OrderAppend DEF Pair, InLine
      <3> QED
        BY <3>2, <2>4 DEF InOrder
    <2>8. l \in Range(back') => r \notin Messages'
      BY <1>1, <1>6, <1>9, <2>3 DEF Pair, InLine
    <2>9. InLine(r, l)'
      BY <2>7, <2>8 DEF InLine
    <2> QED
      BY <2>5, <2>6, <2>9 DEF Pair
  <1> QED
    BY <1>7, <1>10, <1>11

\* The batch begins, is committed, or is given up.
LEMMA BatchPair ==
  ASSUME MatchInv, Poll \/ Mark \/ Abandon,
         NEW r \in outbox, NEW l \in outbox, Before(r, l)', Pair(r, l)
  PROVE  Pair(r, l)'
  <1>1. UNCHANGED <<stream, consumer>>
    BY DEF Poll, Mark, Abandon
  <1>2. Messages' = Messages /\ Line' = Line /\ back' = back
    BY <1>1 DEF stream, consumer, Messages, Line
  <1>3. InLine(r, l)'
    BY <1>2 DEF Pair, InLine, InOrder
  <1>4. Sent' \subseteq Sent /\ (r \in Sent => r \in Sent')
    BY DEF Poll, Mark, Abandon, Faulty, Sent, Before
  <1>5. l \in todo' => r \in todo' \cup Sent'
    BY <1>4 DEF Poll, Mark, Abandon, Sent, Pair, PolledToo
  <1>6. PolledToo(r, l)'
    BY <1>2, <1>4, <1>5 DEF Pair, PolledToo, Sent
  <1>7. StillThere(r, l)'
    BY <1>2, <1>4 DEF Pair, StillThere, Sent
  <1> QED
    BY <1>3, <1>6, <1>7 DEF Pair

LEMMA FetchPair ==
  ASSUME MatchInv, Tidy, FetchMessages,
         NEW r \in outbox, NEW l \in outbox, Before(r, l)', Pair(r, l)
  PROVE  Pair(r, l)'
  <1>1. hand = <<>> /\ UNCHANGED <<publisher, late>>
    BY DEF FetchMessages, history
  <1>2. PICK first \in Seq(outbox), taken \in Seq(outbox) :
           /\ back' \in Seq(outbox) /\ first \o back' = back
           /\ queue' \in Seq(outbox) /\ taken \o queue' = queue
           /\ hand' = first \o taken
    BY FetchParts
  <1>3. queue \in Seq(outbox) /\ first \in Seq(outbox)
    BY Numbers
  <1>4. Range(back) = Range(first) \cup Range(back')
    BY <1>2, RangeConcatenation
  <1>5. Messages' = Messages
    BY FetchMoves
  <1>6. Line' = first \o queue /\ Line = queue
    <2>1. first \in Seq(outbox) /\ taken \in Seq(outbox) /\ queue' \in Seq(outbox)
      BY <1>2
    <2>2. (first \o taken) \o queue' = first \o (taken \o queue')
      BY <2>1, ConcatAssociative
    <2>3. <<>> \o queue = queue
      BY <1>3, ConcatEmptySeq
    <2> QED
      BY <2>2, <2>3, <1>1, <1>2 DEF Line
  <1>7. r \notin late /\ r \notin Range(first)
    BY <1>1, <1>4 DEF Before, Tidy
  <1>8. l \in Range(first) => r \notin Messages
    BY <1>4 DEF Pair, InLine
  <1>9. InOrder(first \o queue, r, l)
    BY <1>3, <1>6, <1>7, <1>8, OrderFetched DEF Pair, InLine, Messages
  <1>10. InLine(r, l)'
    BY <1>4, <1>5, <1>6, <1>9 DEF Pair, InLine, InOrder
  <1>11. PolledToo(r, l)' /\ StillThere(r, l)'
    BY <1>1, <1>5 DEF Pair, PolledToo, StillThere, Sent, publisher
  <1> QED
    BY <1>10, <1>11 DEF Pair

LEMMA HeadPair ==
  ASSUME MatchInv, Tidy, Ack \/ Nak \/ Discard,
         NEW r \in outbox, NEW l \in outbox, Before(r, l)', Pair(r, l)
  PROVE  Pair(r, l)'
  <1>1. hand # <<>> /\ hand' = Tail(hand) /\ UNCHANGED publisher /\ queue' = queue
    BY DEF Ack, Nak, Discard, Acknowledged, Redelivered, stream
  <1> DEFINE h == Head(hand)
  <1>2. /\ queue \in Seq(outbox) /\ back \in Seq(outbox) /\ hand \in Seq(outbox)
        /\ h \in outbox /\ hand' \in Seq(outbox) /\ <<h>> \in Seq(outbox)
        /\ Range(hand) = {h} \cup Range(hand') /\ h = hand[1]
    BY <1>1, Numbers, HeadTailProperties, RangeHeadTail
  <1>3. Range(<<h>>) = {h}
    BY DEF Range
  <1>4. \/ Range(back') = Range(back) /\ late' = late
        \/ Range(back') = Range(back) \cup {h} /\ late' = late \cup {h}
    BY HeadMoves
  <1>5. r \notin late' /\ r \notin Range(back') /\ r # l
    BY <1>4, Numbers DEF Before, Tidy
  <1>6. Line = <<h>> \o Line'
    <2>1. hand = <<h>> \o hand'
      <3>1. /\ Len(hand) \in Nat /\ Len(hand') = Len(hand) - 1 /\ Len(hand') \in Nat
            /\ \A k \in 1 .. Len(hand') : hand'[k] = hand[k + 1]
        BY <1>1, <1>2, HeadTailProperties, LenProperties
      <3>2. /\ <<h>> \o hand' \in Seq(outbox) /\ Len(<<h>> \o hand') = 1 + Len(hand')
            /\ \A k \in 1 .. 1 + Len(hand') : (<<h>> \o hand')[k] = IF k <= 1 THEN <<h>>[k] ELSE hand'[k - 1]
        BY <1>2, ConcatProperties
      <3>3. Len(<<h>> \o hand') = Len(hand)
        BY <3>1, <3>2
      <3>4. ASSUME NEW k \in 1 .. Len(hand) PROVE (<<h>> \o hand')[k] = hand[k]
        <4>1. CASE k = 1
          BY <4>1, <3>1, <3>2, <1>2
        <4>2. CASE k # 1
          <5>1. k - 1 \in 1 .. Len(hand') /\ (k - 1) + 1 = k /\ k \in 1 .. 1 + Len(hand') /\ ~(k <= 1)
            BY <4>2, <3>1
          <5> QED
            BY <5>1, <3>1, <3>2
        <4> QED
          BY <4>1, <4>2
      <3> QED
        BY <3>2, <3>3, <3>4, <1>2, SeqEqual
    <2>2. (<<h>> \o hand') \o queue = <<h>> \o (hand' \o queue)
      BY <1>2, ConcatAssociative
    <2> QED
      BY <2>1, <2>2, <1>1 DEF Line
  <1>7. Line' \in Seq(outbox) /\ Range(Line') = Range(hand') \cup Range(queue)
    BY <1>1, <1>2, ConcatProperties, RangeConcatenation DEF Line
  <1>8. l = h => r \notin Range(Line')
    BY <1>2, <1>3, <1>6, <1>7, OrderSplit DEF Pair, InLine
  <1>9. InOrder(Line, r, l)'
    <2>1. /\ Len(Line) \in Nat /\ Len(Line') \in Nat /\ Len(Line) = 1 + Len(Line')
          /\ \A k \in 1 .. 1 + Len(Line') : Line[k] = IF k <= 1 THEN <<h>>[k] ELSE Line'[k - 1]
      BY <1>2, <1>6, <1>7, ConcatProperties, LenProperties, Numbers
    <2>2. Len(Line) = Len(Line') + 1
      BY <2>1
    <2>3. ASSUME NEW k \in 1 .. Len(Line') PROVE Line'[k] = Line[k + 1]
      <3>1. k + 1 \in 1 .. 1 + Len(Line') /\ ~(k + 1 <= 1) /\ (k + 1) - 1 = k
        BY <2>1
      <3> QED
        BY <3>1, <2>1
    <2>4. InOrder(Line', r, l)
      BY <2>1, <2>2, <2>3, OrderSuffix DEF Pair, InLine
    <2> QED
      BY <2>4 DEF InOrder
  <1>10. Messages = {h} \cup Range(Line') \cup Range(back) /\ Messages' = Range(Line') \cup Range(back')
    BY <1>1, <1>2, <1>7 DEF Messages
  <1>11. Messages' \subseteq Messages
    BY <1>4, <1>10
  <1>12. r \in Messages' => r \in Range(Line') /\ l # h
    BY <1>5, <1>8, <1>10
  <1>13. InLine(r, l)'
    BY <1>4, <1>9, <1>11, <1>12 DEF Pair, InLine
  <1>14. StillThere(r, l)'
    <2>1. l \in Sent /\ r \in Messages' => l \in Messages'
      BY <1>4, <1>10, <1>11, <1>12 DEF Pair, StillThere
    <2> QED
      BY <2>1, <1>1 DEF StillThere, Sent, publisher
  <1>15. PolledToo(r, l)'
    BY <1>1, <1>11 DEF Pair, PolledToo, Sent, publisher
  <1> QED
    BY <1>13, <1>14, <1>15 DEF Pair

LEMMA DropPair ==
  ASSUME MatchInv, Tidy, LetGo,
         NEW r \in outbox, NEW l \in outbox, Before(r, l)', Pair(r, l)
  PROVE  Pair(r, l)'
  <1>1. hand' = <<>> /\ UNCHANGED publisher /\ queue' = queue /\ back' = back \o hand
        /\ late' = late \cup Range(hand)
    BY DEF LetGo, Redelivered, Faulty
  <1>2. queue \in Seq(outbox) /\ back \in Seq(outbox) /\ hand \in Seq(outbox)
    BY Numbers
  <1>3. Range(back') = Range(back) \cup Range(hand)
    BY DropMoves
  <1>4. Messages' = Messages
    BY DropMoves
  <1>5. r \notin late' /\ r \notin Range(back')
    BY <1>1, <1>3 DEF Before, Tidy
  <1>6. l \in Range(hand) => r \notin Range(queue)
    BY <1>2, OrderSplit DEF Pair, InLine, Line
  <1>7. l \in Range(back') => r \notin Messages'
    BY <1>1, <1>3, <1>4, <1>5, <1>6 DEF Pair, InLine, Messages
  <1>8. InOrder(Line, r, l)'
    <2>1. Line' = queue
      BY <1>1, <1>2, ConcatEmptySeq DEF Line
    <2>2. /\ Len(Line) = Len(hand) + Len(queue) /\ Len(hand) \in Nat /\ Len(queue) \in Nat
          /\ \A i \in 1 .. Len(hand) + Len(queue) :
               Line[i] = IF i <= Len(hand) THEN hand[i] ELSE queue[i - Len(hand)]
      BY <1>2, ConcatProperties, LenProperties DEF Line
    <2>3. ASSUME NEW k \in 1 .. Len(queue) PROVE queue[k] = Line[k + Len(hand)]
      <3>1. /\ k + Len(hand) \in 1 .. Len(hand) + Len(queue) /\ ~(k + Len(hand) <= Len(hand))
            /\ (k + Len(hand)) - Len(hand) = k
        BY <2>2
      <3> QED
        BY <3>1, <2>2
    <2>4. Len(Line) \in Nat /\ Len(Line) = Len(queue) + Len(hand)
      BY <2>2
    <2>5. InOrder(queue, r, l)
      BY <2>2, <2>3, <2>4, OrderSuffix DEF Pair, InLine
    <2> QED
      BY <2>1, <2>5 DEF InOrder
  <1>9. InLine(r, l)'
    BY <1>7, <1>8 DEF InLine
  <1>10. PolledToo(r, l)' /\ StillThere(r, l)'
    BY <1>1, <1>4 DEF Pair, PolledToo, StillThere, Sent, publisher
  <1> QED
    BY <1>9, <1>10 DEF Pair

-----------------------------------------------------------------------------
(* The tables are written. *)

LEMMA NewPair ==
  ASSUME MatchInv, NEW r, NEW l, l \notin outbox
  PROVE  Pair(r, l) /\ l \notin Sent
  <1>1. l \notin todo /\ l \notin Sent /\ l \notin Messages
    BY Numbers DEF MatchInv, Known, Sent
  <1>2. \A k \in 1 .. Len(Line) : Line[k] # l
    BY Numbers, ElementOfSeq
  <1>3. l \notin Range(back)
    BY <1>1 DEF Messages
  <1> QED
    BY <1>1, <1>2, <1>3 DEF Pair, PolledToo, StillThere, InLine, InOrder

LEMMA WriteIndex ==
  ASSUME MatchInv, Tidy, Pairs, Upserted, Reached, Write
  PROVE  Tidy' /\ Pairs' /\ Upserted' /\ Reached'
  <1>1. UNCHANGED <<publisher, stream, consumer, index, late, lost>> /\ CatalogNext /\ CatInv
    BY DEF Write, MatchInv, history
  <1>2. outbox \subseteq outbox' /\ \A x \in outbox : On(x)' = On(x)
    BY <1>1, EventsStay
  <1>3. PICK r \in Requests :
           /\ r \notin outbox
           /\ (\E i \in Items : Committing(r, i)) \/ UNCHANGED tables
    BY <1>1, CatalogMoves
  <1>4. Tidy'
    BY <1>1 DEF Tidy, Sent, publisher, stream
  <1>5. Upserted'
    <2>1. fresh => Head(hand) \in outbox
      BY Numbers, HeadTailProperties DEF Upserted
    <2>2. fresh => On(Head(hand))' = On(Head(hand))
      BY <1>1, <1>2, <2>1 DEF consumer, On
    <2> QED
      BY <1>1, <2>2 DEF Upserted, Shows, consumer
  <1>6. ASSUME NEW l \in Latest'
        PROVE  \/ l = r
               \/ l \in Latest /\ \A x \in outbox' \ outbox : On(x)' # On(l)'
    <2>1. CASE UNCHANGED tables
      BY <2>1, <1>6 DEF tables, Latest
    <2>2. ASSUME NEW i \in Items, Committing(r, i), l # r
          PROVE  l \in Latest /\ \A x \in outbox' \ outbox : On(x)' # On(l)'
      <3>1. PICK j \in born' : l = last'[j]
        BY <1>6 DEF Latest
      <3>2. j # i /\ j \in born /\ j \in Items /\ last'[j] = last[j]
        BY <3>1, <2>2, <1>1 DEF Committing, CatInv, CatalogTypeOK
      <3>3. l \in Latest /\ l \in outbox /\ On(l) = j
        BY <3>1, <3>2, Numbers DEF Latest
      <3>4. \A x \in outbox' \ outbox : x = r
        BY <2>2 DEF Committing
      <3>5. On(l)' = j /\ On(r)' = i
        BY <3>3, <2>2, <1>2 DEF Committing
      <3>6. \A x \in outbox' \ outbox : On(x)' = i
        BY <3>4, <3>5 DEF On
      <3> QED
        BY <3>2, <3>3, <3>5, <3>6
    <2> QED
      BY <2>1, <2>2, <1>3
  <1>7. Latest \subseteq outbox
    BY Numbers
  <1>8. Pairs'
    <2> SUFFICES ASSUME NEW l \in Latest', NEW x \in outbox', Before(x, l)' PROVE Pair(x, l)'
      BY DEF Pairs
    <2>1. CASE l = r
      BY <2>1, <1>1, <1>3, NewPair, PairStill DEF consumer
    <2>2. CASE l # r
      <3>1. l \in Latest /\ x \in outbox
        BY <2>2, <1>6 DEF Before
      <3>2. On(x)' = On(x) /\ On(l)' = On(l)
        BY <3>1, <1>2, <1>7
      <3>3. Before(x, l)
        BY <3>2, <1>1 DEF Before
      <3> QED
        BY <3>1, <3>3, <1>1, PairStill DEF Pairs, consumer
    <2> QED
      BY <2>1, <2>2
  <1>9. Reached'
    <2> SUFFICES ASSUME NEW l \in Latest' PROVE Reach(l)'
      BY DEF Reached
    <2>1. CASE l = r
      <3>1. l \notin Sent
        BY <2>1, <1>3, NewPair
      <3> QED
        BY <3>1, <1>1 DEF Reach, Sent, publisher
    <2>2. CASE l # r
      <3>1. l \in Latest /\ On(l)' = On(l)
        BY <2>2, <1>2, <1>6, <1>7
      <3> QED
        BY <3>1, <1>1 DEF Reached, Reach, Shows, Sent, Messages, publisher, stream, consumer
    <2> QED
      BY <2>1, <2>2
  <1> QED
    BY <1>4, <1>5, <1>8, <1>9
-----------------------------------------------------------------------------
(* The other steps leave the tables alone. *)

Pipeline == Publish \/ Consume \/ Subscribe \/ Stop \/ (\E i \in Items : BatchBegin(i)) \/ BatchUpsert

LEMMA PipelineStill ==
  ASSUME Pipeline
  PROVE  /\ UNCHANGED catalog /\ outbox' = outbox /\ Latest' = Latest
         /\ \A x : On(x)' = On(x)
         /\ late \subseteq late' /\ lost \subseteq lost'
  <1>1. UNCHANGED catalog
    BY DEF Pipeline, Publish, Consume, Poll, SendOk, SendError, Mark, Abandon, FetchMessages,
       Upsert, Ack, Nak, Discard, Drop, Subscribe, Stop, LetGo, BatchBegin, BatchUpsert
  <1>2. late \subseteq late' /\ lost \subseteq lost'
    BY DEF Pipeline, Publish, Consume, Poll, SendOk, SendError, Mark, Abandon, FetchMessages,
       Upsert, Ack, Nak, Discard, Drop, Subscribe, Stop, LetGo, BatchBegin, BatchUpsert, Redelivered,
       Faulty, history
  <1> QED
    BY <1>1, <1>2 DEF catalog, tables, writers, Latest, On

LEMMA PairsStep == MatchInv /\ Tidy /\ Pairs /\ Pipeline => Pairs'
  <1> SUFFICES ASSUME MatchInv, Tidy, Pairs, Pipeline,
                      NEW l \in Latest', NEW r \in outbox', Before(r, l)'
               PROVE  Pair(r, l)'
    BY DEF Pairs
  <1>1. l \in Latest /\ r \in outbox /\ l \in outbox
    BY PipelineStill, Numbers
  <1>2. Pair(r, l)
    BY <1>1, PipelineStill DEF Before, Pairs
  <1>3. CASE \E x \in Requests : SendOk(x) \/ SendError(x)
    BY <1>1, <1>2, <1>3, SendPair
  <1>4. CASE Poll \/ Mark \/ Abandon
    BY <1>1, <1>2, <1>4, BatchPair
  <1>5. CASE FetchMessages
    BY <1>1, <1>2, <1>5, FetchPair
  <1>6. CASE Ack \/ Nak \/ Discard
    BY <1>1, <1>2, <1>6, HeadPair
  <1>7. CASE Drop \/ Stop
    BY <1>1, <1>2, <1>7, DropPair DEF Drop, Stop
  <1>8. CASE Upsert \/ Subscribe \/ (\E i \in Items : BatchBegin(i)) \/ BatchUpsert
    <2>1. UNCHANGED <<publisher, stream, hand>>
      BY <1>8 DEF Upsert, Subscribe, BatchBegin, BatchUpsert, consumer
    <2> QED
      BY <2>1, <1>2, PairStill
  <1> QED
    BY <1>3, <1>4, <1>5, <1>6, <1>7, <1>8 DEF Pipeline, Publish, Consume

LEMMA TidyStep == MatchInv /\ Tidy /\ Pipeline => Tidy'
  <1> SUFFICES ASSUME MatchInv, Tidy, Pipeline PROVE Tidy'
    OBVIOUS
  <1>1. todo' \cap Sent' = {}
    BY DEF Tidy, Sent, Pipeline, Publish, Consume, Poll, SendOk, SendError, Mark, Abandon,
       FetchMessages, Upsert, Ack, Nak, Discard, Drop, Subscribe, Stop, LetGo, BatchBegin, BatchUpsert,
       publisher
  <1>2. CASE FetchMessages
    <2>1. Range(back') \subseteq Range(back)
      BY <1>2, FetchMoves
    <2> QED
      BY <2>1, <1>1, <1>2 DEF Tidy, Sent, FetchMessages, history
  <1>3. CASE Ack \/ Nak \/ Discard
    <2>1. \/ Range(back') = Range(back) /\ late' = late
          \/ Range(back') = Range(back) \cup {Head(hand)} /\ late' = late \cup {Head(hand)}
      BY <1>3, HeadMoves
    <2> QED
      BY <2>1, <1>1 DEF Tidy, Sent
  <1>4. CASE Drop \/ Stop
    <2>1. Range(back') = Range(back) \cup Range(hand)
      BY <1>4, DropMoves DEF Drop, Stop
    <2> QED
      BY <2>1, <1>1, <1>4 DEF Tidy, Sent, Drop, Stop, LetGo, Redelivered, Faulty
  <1>5. CASE ~(FetchMessages \/ Ack \/ Nak \/ Discard \/ Drop \/ Stop)
    <2>1. back' = back
      BY <1>5 DEF Pipeline, Publish, Consume, Poll, SendOk, SendError, Store, Mark, Abandon,
         Upsert, Subscribe, BatchBegin, BatchUpsert, stream
    <2> QED
      BY <2>1, <1>1, PipelineStill DEF Tidy, Sent
  <1> QED
    BY <1>2, <1>3, <1>4, <1>5

\* Overwriting a vector with the text of an event.
LEMMA IndexOverwritten ==
  ASSUME MatchInv, NEW h \in outbox, index' = [index EXCEPT ![On(h)] = h], NEW i \in Items
  PROVE  index'[i] = IF i = On(h) THEN h ELSE index[i]
  BY DEF MatchInv, Known

LEMMA UpsertedStep == MatchInv /\ Upserted /\ Pipeline => Upserted'
  <1> SUFFICES ASSUME MatchInv, Upserted, Pipeline, fresh'
               PROVE  hand' # <<>> /\ Shows(On(Head(hand)), Head(hand))'
    BY DEF Upserted
  <1>1. ~Ack /\ ~Nak /\ ~Discard /\ ~Drop /\ ~Stop
    BY DEF Ack, Nak, Discard, Drop, Stop, LetGo, Acknowledged
  <1>2. ~FetchMessages
    BY DEF FetchMessages, Upserted
  <1>3. hand' = hand /\ hand # <<>>
    BY <1>1, <1>2 DEF Pipeline, Publish, Consume, Poll, SendOk, SendError, Mark, Abandon, Upsert,
       Subscribe, BatchBegin, BatchUpsert, consumer, Upserted
  <1> DEFINE h == Head(hand)
  <1>4. h \in outbox /\ On(h) \in Items
    BY <1>3, Numbers, HeadTailProperties
  <1>5. On(Head(hand))' = On(h) /\ Head(hand)' = h
    BY <1>3, PipelineStill DEF On, catalog, writers
  <1>6. index'[On(h)] = h \/ index'[On(h)] \in late'
    <2>1. CASE Upsert
      <3>1. index' = [index EXCEPT ![On(h)] = h]
        BY <2>1 DEF Upsert, Overwritten
      <3> QED
        BY <3>1, <1>4, IndexOverwritten
    <2>2. CASE BatchUpsert /\ posted \in late' /\ index' = [index EXCEPT ![On(posted)] = posted]
      <3>1. posted \in outbox
        BY <2>2 DEF BatchUpsert, MatchInv, Known
      <3>2. index'[On(h)] = IF On(h) = On(posted) THEN posted ELSE index[On(h)]
        BY <3>1, <2>2, <1>4, IndexOverwritten
      <3>3. fresh
        BY <2>2 DEF BatchUpsert, consumer
      <3> QED
        BY <3>2, <3>3, <2>2, PipelineStill DEF Upserted, Shows
    <2>3. CASE ~Upsert /\ index' = index
      <3>1. fresh
        BY <2>3, <1>1, <1>2 DEF Pipeline, Publish, Consume, Poll, SendOk, SendError, Mark, Abandon,
           Subscribe, BatchBegin, BatchUpsert, consumer
      <3> QED
        BY <3>1, <2>3, PipelineStill DEF Upserted, Shows
    <2> QED
      BY <2>1, <2>2, <2>3, <1>1, <1>2 DEF Pipeline, Publish, Consume, Poll, SendOk, SendError, Mark,
         Abandon, Subscribe, BatchBegin, BatchUpsert, Faulty
  <1> QED
    BY <1>3, <1>5, <1>6 DEF Shows

\* A step that sends or acknowledges nothing of l, and overwrites l's vector with a late
\* event only.
LEMMA ReachStill ==
  ASSUME NEW l, Reach(l), Pipeline, Sent' \ Messages' \subseteq Sent \ Messages,
         index'[On(l)] = index[On(l)] \/ index'[On(l)] \in late'
  PROVE  Reach(l)'
  <1>1. On(l)' = On(l) /\ late \subseteq late' /\ lost \subseteq lost'
    BY PipelineStill
  <1>2. index[On(l)]' = index'[On(l)]
    BY <1>1
  <1>3. l \in Sent' \ Messages' =>
          index'[On(l)] = l \/ index'[On(l)] \in late' \/ index'[On(l)] > l \/ l \in lost'
    BY <1>1 DEF Reach, Shows
  <1> QED
    BY <1>2, <1>3 DEF Reach, Shows, Sent, Messages

LEMMA ReachedStep == MatchInv /\ Pairs /\ Upserted /\ Reached /\ Pipeline => Reached'
  <1> SUFFICES ASSUME MatchInv, Pairs, Upserted, Reached, Pipeline, NEW l \in Latest'
               PROVE  Reach(l)'
    BY DEF Reached
  <1>1. l \in Latest /\ l \in outbox /\ Reach(l) /\ l \in Nat /\ On(l) \in Items
    BY PipelineStill, Numbers DEF Reached
  <1> DEFINE h == Head(hand)
  <1>2. CASE Publish
    <2>1. index' = index
      BY <1>2 DEF Publish, Poll, SendOk, SendError, Mark, Abandon
    <2>2. Sent' \ Messages' \subseteq Sent \ Messages
      <3>1. CASE \E x \in Requests : SendOk(x) \/ SendError(x)
        BY <3>1, SendMoves
      <3>2. CASE Poll \/ Mark \/ Abandon
        <4>1. Sent' \subseteq Sent /\ UNCHANGED <<stream, consumer>>
          BY <3>2 DEF Poll, Mark, Abandon, Sent
        <4> QED
          BY <4>1 DEF Messages, stream, consumer
      <3> QED
        BY <3>1, <3>2, <1>2 DEF Publish
    <2> QED
      BY <2>1, <2>2, <1>1, ReachStill
  <1>3. CASE FetchMessages \/ Subscribe \/ Drop \/ Stop
    <2>1. index' = index /\ Sent' = Sent
      BY <1>3 DEF FetchMessages, Subscribe, Drop, Stop, LetGo, Sent, publisher
    <2>2. Messages' = Messages
      <3>1. CASE Subscribe
        BY <3>1 DEF Subscribe, Messages, stream
      <3> QED
        BY <3>1, <1>3, FetchMoves, DropMoves DEF Drop, Stop
    <2> QED
      BY <2>1, <2>2, <1>1, ReachStill
  <1>4. CASE Upsert
    <2>1. /\ h \in outbox /\ h \in Nat /\ h \in Messages
          /\ index' = [index EXCEPT ![On(h)] = h] /\ late' = late
          /\ Sent' = Sent /\ Messages' = Messages
      <3>1. hand # <<>> /\ hand \in Seq(outbox)
        BY <1>4, Numbers DEF Upsert
      <3>2. h \in outbox /\ h \in Range(hand)
        BY <3>1, HeadTailProperties, RangeHeadTail
      <3> QED
        BY <3>2, <1>4, Numbers DEF Upsert, Overwritten, Messages, Sent, publisher, stream, history
    <2>2. index'[On(l)] = IF On(l) = On(h) THEN h ELSE index[On(l)]
      BY <2>1, <1>1, IndexOverwritten
    <2>3. CASE On(l) # On(h) \/ h \in late
      BY <2>3, <2>1, <2>2, <1>1, ReachStill
    <2>4. CASE On(l) = On(h) /\ h \notin late /\ h < l
      <3>1. l \in Sent => l \in Messages
        BY <2>4, <2>1, <1>1 DEF Pairs, Before, Pair, StillThere
      <3> QED
        BY <3>1, <2>1 DEF Reach, Sent, Messages
    <2>5. CASE On(l) = On(h) /\ ~(h < l)
      <3>1. index'[On(l)] = l \/ index'[On(l)] > l
        BY <2>5, <2>1, <2>2, <1>1
      <3>2. On(l)' = On(l)
        BY PipelineStill
      <3> QED
        BY <3>1, <3>2 DEF Reach, Shows
    <2> QED
      BY <2>3, <2>4, <2>5
  <1>5. CASE (Nak \/ Discard) /\ Redelivered(<<h>>)
    <2>1. Messages' = Messages /\ h \in late'
      BY <1>5, HeadMoves
    <2>2. h \in outbox /\ Sent' = Sent
      <3>1. hand # <<>> /\ hand \in Seq(outbox)
        BY <1>5, Numbers DEF Nak, Discard
      <3> QED
        BY <3>1, <1>5, HeadTailProperties DEF Nak, Discard, Sent, publisher
    <2>3. index'[On(l)] = index[On(l)] \/ index'[On(l)] = h
      <3>1. CASE index' = [index EXCEPT ![On(h)] = h]
        BY <3>1, <2>2, <1>1, IndexOverwritten
      <3> QED
        BY <3>1, <1>5 DEF Nak, Discard, Overwritten
    <2> QED
      BY <2>1, <2>2, <2>3, <1>1, ReachStill
  <1>6. CASE Ack
    <2>1. /\ Messages = {h} \cup Messages' /\ index' = index /\ Sent' = Sent /\ fresh
      BY <1>6, HeadMoves DEF Ack, Sent, publisher
    <2>2. CASE l = h
      <3>1. index[On(l)] = l \/ index[On(l)] \in late
        BY <2>1, <2>2 DEF Upserted, Shows
      <3>2. On(l)' = On(l) /\ late \subseteq late' /\ lost \subseteq lost'
        BY PipelineStill
      <3> QED
        BY <2>1, <3>1, <3>2 DEF Reach, Shows
    <2>3. CASE l # h
      <3>1. l \in Messages => l \in Messages'
        BY <2>1, <2>3
      <3>2. On(l)' = On(l) /\ late \subseteq late' /\ lost \subseteq lost'
        BY PipelineStill
      <3>3. l \in Sent' \ Messages' =>
              index'[On(l)] = l \/ index'[On(l)] \in late' \/ index'[On(l)] > l \/ l \in lost'
        BY <3>1, <3>2, <2>1, <1>1 DEF Reach, Shows
      <3> QED
        BY <3>2, <3>3 DEF Reach, Shows, Sent, Messages
    <2> QED
      BY <2>2, <2>3
  <1>7. CASE Discard /\ ~Redelivered(<<h>>)
    <2>1. /\ Messages = {h} \cup Messages' /\ Sent' = Sent
          /\ h \in outbox /\ h \in Nat /\ h \in Messages
      <3>1. hand # <<>> /\ hand \in Seq(outbox)
        BY <1>7, Numbers DEF Discard
      <3>2. h \in outbox
        BY <3>1, HeadTailProperties
      <3> QED
        BY <3>2, <1>7, HeadMoves, Numbers DEF Discard, Sent, publisher
    <2>2. On(l)' = On(l) /\ late \subseteq late' /\ lost \subseteq lost'
      BY PipelineStill
    <2>3. l \in Messages => l \in Messages' \/ l = h
      BY <2>1
    <2>4. CASE index' = index /\ h \in lost'
      <3>1. l \in Sent' \ Messages' =>
              index'[On(l)] = l \/ index'[On(l)] \in late' \/ index'[On(l)] > l \/ l \in lost'
        BY <2>1, <2>2, <2>3, <2>4, <1>1 DEF Reach, Shows
      <3> QED
        BY <3>1, <2>2 DEF Reach, Shows, Sent, Messages
    <2>5. CASE index' = [index EXCEPT ![On(h)] = h]
      <3>1. index'[On(l)] = IF On(l) = On(h) THEN h ELSE index[On(l)]
        BY <2>5, <2>1, <1>1, IndexOverwritten
      <3>2. ASSUME l \in Sent' \ Messages'
            PROVE  index'[On(l)] = l \/ index'[On(l)] \in late' \/ index'[On(l)] > l \/ l \in lost'
        <4>1. CASE On(l) # On(h)
          BY <4>1, <3>1, <3>2, <2>1, <2>2, <2>3, <1>1 DEF Reach, Shows
        <4>2. CASE On(l) = On(h) /\ (h \in late \/ ~(h < l))
          BY <4>2, <3>1, <2>1, <2>2, <1>1
        <4>3. CASE On(l) = On(h) /\ h \notin late /\ h < l
          <5>1. l \in Messages
            BY <4>3, <3>2, <2>1, <1>1 DEF Pairs, Before, Pair, StillThere
          <5> QED
            BY <5>1, <4>3, <3>2, <2>3, <1>1
        <4> QED
          BY <4>1, <4>2, <4>3
      <3> QED
        BY <3>2, <2>2 DEF Reach, Shows, Sent, Messages
    <2> QED
      BY <2>4, <2>5, <1>7 DEF Discard, Overwritten, Faulty
  <1>8. CASE (\E i \in Items : BatchBegin(i)) \/ BatchUpsert
    <2>1. Sent' = Sent /\ Messages' = Messages
      BY <1>8 DEF BatchBegin, BatchUpsert, publisher, stream, consumer, Sent, Messages
    <2>2. index'[On(l)] = index[On(l)] \/ index'[On(l)] \in late'
      <3>1. CASE BatchUpsert /\ posted \in late' /\ index' = [index EXCEPT ![On(posted)] = posted]
        <4>1. posted \in outbox
          BY <3>1 DEF BatchUpsert, MatchInv, Known
        <4> QED
          BY <4>1, <3>1, <1>1, IndexOverwritten
      <3> QED
        BY <3>1, <1>8 DEF BatchBegin, BatchUpsert, Faulty
    <2> QED
      BY <2>1, <2>2, <1>1, ReachStill
  <1> QED
    BY <1>2, <1>3, <1>4, <1>5, <1>6, <1>7, <1>8 DEF Pipeline, Consume, Nak

-----------------------------------------------------------------------------
LEMMA IndexInit == Init => IndexInv
  <1> SUFFICES ASSUME Init PROVE IndexInv
    OBVIOUS
  <1>1. MatchInv
    BY MatchInit
  <1>2. born = {} /\ Latest = {}
    BY DEF Init, CatalogInit, Latest
  <1>3. Range(<<>>) = {}
    BY DEF Range
  <1>4. Told /\ Pairs /\ Reached
    BY <1>2 DEF Told, Pairs, Reached
  <1>5. Tidy /\ Upserted
    BY <1>3 DEF Init, Tidy, Upserted, Sent
  <1> QED
    BY <1>1, <1>4, <1>5 DEF IndexInv

LEMMA IndexStep == IndexInv /\ [Next]_vars => IndexInv'
  <1> SUFFICES ASSUME IndexInv, [Next]_vars PROVE IndexInv'
    OBVIOUS
  <1>1. MatchInv'
    BY MatchStep DEF IndexInv
  <1>2. CASE Write
    BY <1>1, <1>2, WriteIndex, ToldStep DEF IndexInv, Write
  <1>3. CASE Pipeline
    <2>1. Told'
      BY <1>3, PipelineStill DEF IndexInv, Told, Text, catalog, tables, writers
    <2> QED
      BY <1>1, <1>3, <2>1, PairsStep, TidyStep, UpsertedStep, ReachedStep DEF IndexInv
  <1>4. CASE UNCHANGED vars
    <2>1. /\ UNCHANGED <<catalog, publisher, stream, consumer, index, late, lost>>
          /\ outbox' = outbox /\ arg' = arg /\ last' = last /\ born' = born
      BY <1>4 DEF vars, history, catalog, tables, writers
    <2>2. Latest' = Latest /\ \A x : On(x)' = On(x)
      BY <2>1 DEF Latest, On
    <2>3. Told'
      BY <2>1 DEF IndexInv, Told, Text, catalog, tables, writers
    <2>4. Tidy'
      BY <2>1 DEF IndexInv, Tidy, Sent, publisher, stream
    <2>5. Pairs'
      <3>1. ASSUME NEW l \in Latest', NEW r \in outbox', Before(r, l)' PROVE Pair(r, l)'
        BY <3>1, <2>1, <2>2, PairStill DEF IndexInv, Pairs, Before, consumer
      <3> QED
        BY <3>1 DEF Pairs
    <2>6. Upserted'
      BY <2>1, <2>2 DEF IndexInv, Upserted, Shows, On, consumer
    <2>7. Reached'
      <3>1. ASSUME NEW l \in Latest PROVE Reach(l)'
        BY <2>1, <2>2 DEF IndexInv, Reached, Reach, Shows, Sent, Messages, publisher, stream, consumer
      <3> QED
        BY <3>1, <2>2 DEF Reached
    <2> QED
      BY <1>1, <2>3, <2>4, <2>5, <2>6, <2>7 DEF IndexInv
  <1> QED
    BY <1>2, <1>3, <1>4 DEF Next, Pipeline

\* When nothing about an item is under way any more, its vector is computed from what the
\* tables hold, unless the event it shows was skipped, sent again, delivered again or
\* posted by embed_batch (publisher.go, consumer.py, main.py), or its transaction began
\* after that of the last commit, or the event of the last commit was acknowledged without
\* having been upserted (consumer.py:49-52), for any number of requests and items.
THEOREM StaleExplained == Spec => []StaleHasCause
  <1>1. ASSUME IndexInv, NEW i \in born, Quiet(i), ~Current(i)
        PROVE  index[i] \in late \/ index[i] > last[i] \/ last[i] \in lost
    <2> DEFINE l == last[i]
    <2>1. l \in Latest /\ l \in outbox /\ On(l) = i /\ 0 \notin outbox
      BY <1>1, Numbers, EventsAreOnItems DEF IndexInv, Latest, MatchInv
    <2>2. l \in marked /\ l \notin Messages
      BY <1>1, <2>1 DEF Quiet
    <2>3. Shows(i, l) \/ index[i] > l \/ l \in lost
      BY <1>1, <2>1, <2>2 DEF IndexInv, Reached, Reach, Sent
    <2>4. index[i] # l
      BY <1>1, <2>1 DEF IndexInv, Told, Current
    <2> QED
      BY <2>3, <2>4 DEF Shows
  <1>2. IndexInv => StaleHasCause
    BY <1>1 DEF StaleHasCause
  <1> QED
    BY IndexInit, IndexStep, <1>2, PTL DEF Spec
=============================================================================
