---------------------------- MODULE OutboxProofs ----------------------------
(***************************************************************************)
(* Proofs about Outbox, for any set of rows and publishers and any limit.  *)
(*                                                                         *)
(* OutInv says who may hold a row: the owner of a row's lock is a live     *)
(* publisher, the row is unpublished, and a live publisher owns all of its *)
(* batch.   With it, what is sent was committed, what is marked has     *)
(* arrived, and no two live transactions hold the same row.                *)
(***************************************************************************)
EXTENDS Outbox, FiniteSetTheorems, TLAPS

Held(p) == todo[p] \cup done[p]

\* A locked row is unpublished, and its owner's connection lives.
LocksHeld == \A e \in Entries : owner[e] # None => owner[e] \notin lost /\ row[e] = "unpublished"

\* Such a publisher has every row of its batch locked.
HeldLocked == \A p \in Publishers \ lost : \A e \in Held(p) : owner[e] = p

\* Rows that publishers know of are committed, and those they count as published have arrived.
Known ==
  /\ \A p \in Publishers : scan[p] \cup Held(p) \subseteq Committed /\ done[p] \subseteq arrived
  /\ \A e \in Entries : row[e] = "published" => e \in arrived

\* Where a publisher is tells what it has.
Phases ==
  \A p \in Publishers :
    /\ pc[p] # "send" => done[p] = {} /\ p \notin lost
    /\ pc[p] = "idle" => todo[p] = {}

OutInv == TypeOK /\ LocksHeld /\ HeldLocked /\ Known /\ Phases

-----------------------------------------------------------------------------
LEMMA OutInit == Init => OutInv
  <1> SUFFICES ASSUME Init PROVE OutInv
    OBVIOUS
  <1>1. \A p \in Publishers : Cardinality(todo[p] \cup done[p]) <= Batch
    <2>1. \A p \in Publishers : todo[p] \cup done[p] = {}
      BY DEF Init
    <2>2. Cardinality({}) <= Batch
      BY FS_EmptySet, OutboxAssumption
    <2> QED
      BY <2>1, <2>2
  <1>2. TypeOK
    BY <1>1 DEF Init, TypeOK
  <1> QED
    BY <1>2 DEF Init, OutInv, LocksHeld, HeldLocked, Held, Known, Phases

\* A batch grows by one row while there is room, and otherwise only shrinks.
LEMMA LimitKept ==
  ASSUME NEW S \in SUBSET Entries, NEW e \in Entries
  PROVE  /\ Cardinality(S) < Batch => Cardinality(S \cup {e}) <= Batch
         /\ \A T \in SUBSET S : Cardinality(S) <= Batch => Cardinality(T) <= Batch
  <1>1. IsFiniteSet(S) /\ Cardinality(S) \in Nat
    BY FS_Subset, FS_CardinalityType, OutboxAssumption
  <1>2. Cardinality(S \cup {e}) \in {Cardinality(S), Cardinality(S) + 1}
    BY <1>1, FS_AddElement
  <1>3. ASSUME NEW T \in SUBSET S PROVE Cardinality(T) <= Cardinality(S) /\ Cardinality(T) \in Nat
    BY <1>1, FS_Subset, FS_CardinalityType
  <1> QED
    BY <1>1, <1>2, <1>3, OutboxAssumption

LEMMA TypeStep == OutInv /\ [Next]_vars => TypeOK'
  <1> SUFFICES ASSUME OutInv, [Next]_vars PROVE TypeOK'
    OBVIOUS
  <1> USE OutboxAssumption
  <1>t. TypeOK
    BY DEF OutInv
  <1>1. ASSUME NEW e \in Entries, Write(e) PROVE TypeOK'
    <2>1. CASE Insert(e)
      BY <1>t, <2>1 DEF TypeOK, Insert, Committed, publishers, broker, history
    <2>2. CASE EndInsert(e)
      BY <1>t, <2>2 DEF TypeOK, EndInsert, publishers, broker, history
    <2> QED
      BY <1>1, <2>1, <2>2 DEF Write
  <1>2. ASSUME NEW p \in Publishers, EndBatch(p), UNCHANGED <<created, clock, broker>>,
               UNCHANGED past, doubted' \subseteq Entries,
               row' = row \/ row' = [e \in Entries |-> IF e \in done[p] THEN "published" ELSE row[e]]
        PROVE  TypeOK'
    <2>1. Cardinality({}) <= Batch
      BY FS_EmptySet
    <2>2. \A q \in Publishers : (todo[q] \cup done[q])' \in {{}, todo[q] \cup done[q]}
      BY <1>2, <1>t DEF EndBatch, TypeOK
    <2>3. \A q \in Publishers : Cardinality((todo[q] \cup done[q])') <= Batch
      BY <1>t, <2>1, <2>2 DEF TypeOK
    <2> QED
      BY <1>2, <1>t, <2>3 DEF EndBatch, TypeOK, broker
  <1>3. ASSUME NEW p \in Publishers, Poll(p) \/ Fetched(p) \/ LoseConnection(p) PROVE TypeOK'
    <2>1. CASE Poll(p)
      BY <1>t, <2>1 DEF TypeOK, Poll, table, broker, history
    <2>2. CASE Fetched(p)
      BY <1>t, <2>2 DEF TypeOK, Fetched, table, broker, history
    <2>3. CASE LoseConnection(p)
      BY <1>t, <2>3 DEF TypeOK, LoseConnection, Doubt, table, broker, history
    <2> QED
      BY <1>3, <2>1, <2>2, <2>3
  <1>4. ASSUME NEW p \in Publishers, NEW e \in Entries, FetchRow(p, e) PROVE TypeOK'
    <2>1. done[p] = {} /\ Cardinality(todo[p]) < Batch
      BY <1>4 DEF FetchRow, Room, OutInv, Phases
    <2>2. Cardinality(todo[p] \cup {e}) <= Batch
      BY <1>t, <2>1, LimitKept DEF TypeOK
    <2>3. todo' = todo \/ todo' = [todo EXCEPT ![p] = @ \cup {e}]
      BY <1>4 DEF FetchRow, Take
    <2>4. \A q \in Publishers : Cardinality((todo[q] \cup done[q])') <= Batch
      <3>1. done' = done
        BY <1>4 DEF FetchRow
      <3>2. \A q \in Publishers : \/ (todo[q] \cup done[q])' = todo[q] \cup done[q]
                                  \/ q = p /\ (todo[q] \cup done[q])' = todo[p] \cup {e}
        BY <1>t, <2>1, <2>3, <3>1 DEF TypeOK
      <3> QED
        BY <1>t, <2>2, <3>2 DEF TypeOK
    <2> QED
      BY <1>4, <1>t, <2>3, <2>4 DEF FetchRow, Take, TypeOK, table, broker, history
  <1>5. ASSUME NEW p \in Publishers, NEW e \in Entries, SendOk(p, e) \/ SendError(p, e)
        PROVE  TypeOK'
    <2>0. e \in todo[p]
      BY <1>5 DEF SendOk, SendError, First
    <2>1. \A q \in Publishers : (todo[q] \cup done[q])' \subseteq todo[q] \cup done[q]
      BY <1>5, <1>t, <2>0 DEF SendOk, SendError, TypeOK
    <2>2. \A q \in Publishers : Cardinality((todo[q] \cup done[q])') <= Batch
      <3> SUFFICES ASSUME NEW q \in Publishers
                   PROVE  Cardinality((todo[q] \cup done[q])') <= Batch
        OBVIOUS
      <3>1. todo[q] \cup done[q] \in SUBSET Entries /\ Cardinality(todo[q] \cup done[q]) <= Batch
        BY <1>t DEF TypeOK
      <3> QED
        BY <2>1, <3>1, LimitKept
    <2>3. arrived' \subseteq Entries /\ repeated' \subseteq Entries
      BY <1>5, <1>t DEF SendOk, SendError, Arrive, TypeOK, broker
    <2> QED
      BY <1>5, <1>t, <2>2, <2>3 DEF SendOk, SendError, Doubt, TypeOK, table, history
  <1>6. CASE UNCHANGED vars
    BY <1>t, <1>6 DEF TypeOK, vars, table, publishers, broker, history
  <1>7. ASSUME NEW p \in Publishers, Commit(p) \/ Fail(p) PROVE TypeOK'
    BY <1>7, <1>2, <1>t DEF Commit, Fail, Doubt, TypeOK, table, history
  <1> QED
    BY <1>1, <1>3, <1>4, <1>5, <1>6, <1>7 DEF Next, Publish, Trouble

\* What all ends of a batch have in common: the locks and the batch of one publisher go.
LEMMA EndBatchStep ==
  ASSUME NEW p \in Publishers, OutInv, EndBatch(p), UNCHANGED <<created, clock, broker>>,
         \/ row' = row
         \/ p \notin lost /\ row' = [e \in Entries |-> IF e \in done[p] THEN "published" ELSE row[e]]
  PROVE  (LocksHeld /\ HeldLocked /\ Known /\ Phases)'
  <1> USE OutboxAssumption DEF OutInv
  <1>1. /\ \A e \in Entries : owner'[e] = IF owner[e] = p THEN None ELSE owner[e]
        /\ Held(p)' = {} /\ scan'[p] = {} /\ pc'[p] = "idle" /\ done'[p] = {} /\ todo'[p] = {}
        /\ \A q \in Publishers \ {p} : /\ Held(q)' = Held(q) /\ done'[q] = done[q]
                                       /\ todo'[q] = todo[q]
                                       /\ scan'[q] = scan[q] /\ pc'[q] = pc[q]
        /\ lost' = lost \ {p} /\ arrived' = arrived
    BY DEF TypeOK, EndBatch, Held, broker
  <1>2. \A e \in Entries : \/ row'[e] = row[e]
                           \/ /\ row'[e] = "published" /\ p \notin lost
                              /\ e \in done[p] /\ row[e] \in {"unpublished", "published"}
    BY DEF TypeOK, Known, Held, Committed
  <1>3. \A e \in Entries : row'[e] = row[e] \/ owner[e] = p
    BY <1>2 DEF HeldLocked, Held
  <1>4. LocksHeld'
    <2> SUFFICES ASSUME NEW e \in Entries, owner'[e] # None
                 PROVE  owner'[e] \notin lost' /\ row'[e] = "unpublished"
      BY DEF LocksHeld
    <2>1. owner'[e] = owner[e] /\ owner[e] # p /\ owner[e] \in Publishers
      BY <1>1 DEF TypeOK
    <2> QED
      BY <1>1, <1>3, <2>1 DEF LocksHeld
  <1>5. HeldLocked'
    <2> SUFFICES ASSUME NEW q \in Publishers \ lost', NEW e \in Held(q)' PROVE owner'[e] = q
      BY DEF HeldLocked, Held
    <2>1. q # p /\ q \notin lost /\ e \in Held(q)
      BY <1>1
    <2>2. e \in Entries /\ owner[e] = q
      BY <2>1 DEF HeldLocked, TypeOK, Held
    <2> QED
      BY <1>1, <2>1, <2>2
  <1>6. Known'
    <2>1. \A e \in Committed : e \in Committed'
      BY <1>2 DEF Committed
    <2>2. \A q \in Publishers : (scan[q] \cup Held(q))' \subseteq scan[q] \cup Held(q)
      BY <1>1
    <2>3. \A q \in Publishers : (scan[q] \cup Held(q))' \subseteq Committed'
      BY <2>1, <2>2 DEF Known
    <2>4. \A q \in Publishers : done'[q] \subseteq arrived'
      BY <1>1 DEF Known
    <2>5. \A e \in Entries : row'[e] = "published" => e \in arrived'
      BY <1>1, <1>2 DEF Known
    <2> QED
      BY <2>3, <2>4, <2>5 DEF Known
  <1>7. Phases'
    BY <1>1 DEF Phases
  <1> QED
    BY <1>4, <1>5, <1>6, <1>7

\* Every other step that touches a batch or a lock.
LEMMA FetchRowStep ==
  ASSUME NEW p \in Publishers, NEW e \in Entries, OutInv, FetchRow(p, e)
  PROVE  (LocksHeld /\ HeldLocked /\ Known /\ Phases)'
  <1> USE OutboxAssumption DEF OutInv
  <1>1. /\ pc[p] = "fetch" /\ p \notin lost /\ e \in scan[p]
        /\ row' = row /\ lost' = lost /\ done' = done /\ pc' = pc /\ arrived' = arrived
        /\ scan' = [scan EXCEPT ![p] = @ \ {e}]
    BY DEF FetchRow, First, Phases, table, broker, history
  <1>2. CASE UNCHANGED <<owner, todo>>
    BY <1>1, <1>2 DEF TypeOK, LocksHeld, HeldLocked, Held, Known, Phases, Committed
  <1>3. CASE row[e] = "unpublished" /\ owner[e] = None /\ Take(p, e)
    <2>1. /\ owner' = [owner EXCEPT ![e] = p] /\ todo' = [todo EXCEPT ![p] = @ \cup {e}]
      BY <1>3 DEF Take
    <2>2. \A q \in Publishers : Held(q)' = IF q = p THEN Held(q) \cup {e} ELSE Held(q)
      BY <1>1, <2>1 DEF TypeOK, Held
    <2>3. \A q \in Publishers \ lost : e \notin Held(q)
      BY <1>3 DEF HeldLocked
    <2>4. LocksHeld'
      <3> SUFFICES ASSUME NEW f \in Entries, owner'[f] # None
                   PROVE  owner'[f] \notin lost' /\ row'[f] = "unpublished"
        BY DEF LocksHeld
      <3>1. CASE f = e
        BY <1>1, <1>3, <2>1, <2>2, <3>1 DEF TypeOK
      <3>2. CASE f # e
        <4>1. owner'[f] = owner[f] /\ owner[f] \in Publishers
          BY <2>1, <3>2 DEF TypeOK
        <4> QED
          BY <1>1, <2>2, <4>1 DEF LocksHeld
      <3> QED
        BY <3>1, <3>2
    <2>5. HeldLocked'
      <3> SUFFICES ASSUME NEW q \in Publishers \ lost', NEW f \in Held(q)' PROVE owner'[f] = q
        BY DEF HeldLocked, Held
      <3>1. f \in Entries
        BY <2>2 DEF TypeOK, Held
      <3> QED
        BY <1>1, <2>1, <2>2, <2>3, <3>1 DEF TypeOK, HeldLocked
    <2>6. Known'
      BY <1>1, <1>3, <2>2 DEF TypeOK, Known, Committed
    <2>7. Phases'
      BY <1>1, <2>1 DEF TypeOK, Phases
    <2> QED
      BY <2>4, <2>5, <2>6, <2>7
  <1> QED
    BY <1>2, <1>3 DEF FetchRow

LEMMA SendStep ==
  ASSUME NEW p \in Publishers, NEW e \in Entries, OutInv, SendOk(p, e) \/ SendError(p, e)
  PROVE  (LocksHeld /\ HeldLocked /\ Known /\ Phases)'
  <1> USE OutboxAssumption DEF OutInv
  <1>1. /\ pc[p] = "send" /\ e \in todo[p]
        /\ row' = row /\ lost' = lost /\ pc' = pc /\ scan' = scan
        /\ todo' = [todo EXCEPT ![p] = @ \ {e}]
        /\ arrived \subseteq arrived'
        /\ \/ done' = done
           \/ done' = [done EXCEPT ![p] = @ \cup {e}] /\ e \in arrived'
    BY DEF SendOk, SendError, First, Arrive, table, broker, history
  <1>2. \A q \in Publishers : Held(q)' \subseteq Held(q)
    BY <1>1 DEF TypeOK, Held
  <1>3. owner' = owner
    BY DEF SendOk, SendError
  <1>4. LocksHeld' /\ HeldLocked'
    BY <1>1, <1>2, <1>3 DEF LocksHeld, HeldLocked
  <1>5. Known' /\ Phases'
    BY <1>1, <1>2 DEF TypeOK, Known, Phases, Committed
  <1> QED
    BY <1>4, <1>5

LEMMA LoseStep ==
  ASSUME NEW p \in Publishers, OutInv, LoseConnection(p)
  PROVE  (LocksHeld /\ HeldLocked /\ Known /\ Phases)'
  <1> USE OutboxAssumption DEF OutInv
  <1>1. /\ pc[p] = "send" /\ row' = row /\ lost' = lost \cup {p}
        /\ pc' = pc /\ scan' = scan /\ todo' = todo /\ done' = done /\ arrived' = arrived
        /\ \A e \in Entries : owner'[e] = IF owner[e] = p THEN None ELSE owner[e]
    BY DEF LoseConnection, table, broker
  <1>2. LocksHeld' /\ Phases'
    BY <1>1 DEF LocksHeld, Phases
  <1>3. HeldLocked'
    BY <1>1 DEF TypeOK, HeldLocked, Held
  <1>4. Known'
    BY <1>1 DEF Known, Held, Committed
  <1> QED
    BY <1>2, <1>3, <1>4

\* Polling and the end of fetching touch no lock, and handlers only rows nobody has.
LEMMA QuietStep ==
  ASSUME OutInv, \/ \E p \in Publishers : Poll(p) \/ Fetched(p)
                 \/ \E e \in Entries : Write(e)
                 \/ UNCHANGED vars
  PROVE  (LocksHeld /\ HeldLocked /\ Known /\ Phases)'
  <1> USE OutboxAssumption DEF OutInv
  <1>1. ASSUME NEW p \in Publishers, Poll(p) PROVE (LocksHeld /\ HeldLocked /\ Known /\ Phases)'
    BY <1>1 DEF TypeOK, Poll, LocksHeld, HeldLocked, Held, Known, Committed, Phases, table, broker
  <1>2. ASSUME NEW p \in Publishers, Fetched(p) PROVE (LocksHeld /\ HeldLocked /\ Known /\ Phases)'
    BY <1>2 DEF TypeOK, Fetched, LocksHeld, HeldLocked, Held, Known, Committed, Phases, table, broker
  <1>3. ASSUME NEW e \in Entries, Write(e) PROVE (LocksHeld /\ HeldLocked /\ Known /\ Phases)'
    <2>1. /\ row[e] \in {"none", "open"} /\ row'[e] # "published"
          /\ \A f \in Entries \ {e} : row'[f] = row[f]
          /\ UNCHANGED <<owner, publishers, broker>>
      BY <1>3 DEF TypeOK, Write, Insert, EndInsert
    <2> QED
      BY <2>1 DEF TypeOK, LocksHeld, HeldLocked, Held, Known, Committed, Phases, publishers, broker
  <1>4. CASE UNCHANGED vars
    BY <1>4 DEF LocksHeld, HeldLocked, Held, Known, Committed, Phases, vars, table, publishers, broker
  <1> QED
    BY <1>1, <1>2, <1>3, <1>4

LEMMA OutStep == OutInv /\ [Next]_vars => OutInv'
  <1> SUFFICES ASSUME OutInv, [Next]_vars PROVE OutInv'
    OBVIOUS
  <1> DEFINE Rest == LocksHeld /\ HeldLocked /\ Known /\ Phases
  <1>1. ASSUME NEW p \in Publishers, NEW e \in Entries,
               FetchRow(p, e) \/ SendOk(p, e) \/ SendError(p, e)
        PROVE  Rest'
    BY <1>1, FetchRowStep, SendStep
  <1>2. ASSUME NEW p \in Publishers, Commit(p) \/ Fail(p) PROVE Rest'
    BY <1>2, EndBatchStep DEF Commit, Fail, table
  <1>3. ASSUME NEW p \in Publishers, LoseConnection(p) PROVE Rest'
    BY <1>3, LoseStep
  <1>4. Rest'
    BY <1>1, <1>2, <1>3, QuietStep DEF Next, Publish, Trouble
  <1>5. TypeOK'
    BY TypeStep
  <1> QED
    BY <1>4, <1>5 DEF OutInv

THEOREM OutInvariance == Spec => []OutInv
  <1> QED
    BY OutInit, OutStep, PTL DEF Spec

-----------------------------------------------------------------------------
\* Types are preserved for any number of rows and publishers, and no batch ever exceeds its
\* limit.
THEOREM TypeCorrect == Spec => []TypeOK
  <1>1. OutInv => TypeOK
    BY DEF OutInv
  <1> QED
    BY <1>1, OutInvariance, PTL

\* FOR UPDATE SKIP LOCKED keeps publishers apart: the rows in the batch of one whose
\* connection lives are unmarked and in nobody else's.
THEOREM Apart == Spec => []SendersApart
  <1>1. OutInv => SendersApart
    <2> SUFFICES ASSUME OutInv, NEW p \in Publishers \ lost, NEW e \in todo[p] \cup done[p]
                 PROVE  /\ row[e] = "unpublished"
                        /\ \A q \in Publishers \ (lost \cup {p}) : e \notin todo[q] \cup done[q]
      BY DEF SendersApart
    <2>1. e \in Entries /\ owner[e] = p /\ p # None
      BY OutboxAssumption DEF OutInv, TypeOK, HeldLocked, Held
    <2>2. \A q \in Publishers \ lost : e \in todo[q] \cup done[q] => q = p
      BY <2>1 DEF OutInv, HeldLocked, Held
    <2> QED
      BY <2>1, <2>2 DEF OutInv, LocksHeld
  <1> QED
    BY <1>1, OutInvariance, PTL

-----------------------------------------------------------------------------
(* The refinement. *)

LEMMA DeliverRefines ==
  ASSUME NEW p \in Publishers, NEW e \in Entries, OutInv, SendOk(p, e) \/ SendError(p, e)
  PROVE  AtLeastOnce!Next \/ UNCHANGED AtLeastOnce!vars
  <1>1. e \in Committed
    BY DEF SendOk, SendError, First, OutInv, Known, Held
  <1>2. row' = row
    BY DEF SendOk, SendError, table
  <1>3. Arrive(e) \/ UNCHANGED broker
    BY DEF SendOk, SendError
  <1>4. CASE Arrive(e)
    BY <1>1, <1>2, <1>4 DEF Arrive, Committed, AtLeastOnce!Next, AtLeastOnce!Deliver
  <1>5. CASE UNCHANGED broker
    BY <1>2, <1>5 DEF broker, Committed, AtLeastOnce!vars
  <1> QED
    BY <1>3, <1>4, <1>5

LEMMA SettleRefines ==
  ASSUME NEW p \in Publishers, OutInv, Commit(p)
  PROVE  AtLeastOnce!Next
  <1> DEFINE S == done[p]
  <1>1. S \subseteq Committed /\ S \subseteq Entries /\ S \subseteq arrived
    BY DEF OutInv, Known, Held, TypeOK
  <1>2. \A e \in Entries : row'[e] = IF e \in S THEN "published" ELSE row[e]
    BY DEF Commit
  <1>3. {e \in Entries : row[e] = "published"}' = {e \in Entries : row[e] = "published"} \cup S
    BY <1>1, <1>2
  <1>4. Committed' = Committed
    BY <1>1, <1>2 DEF Committed
  <1>5. UNCHANGED <<arrived, repeated>>
    BY DEF Commit, broker
  <1>6. AtLeastOnce!Settle(S)
    BY <1>1, <1>3, <1>4, <1>5 DEF AtLeastOnce!Settle
  <1>7. S \in SUBSET Entries
    BY <1>1
  <1> HIDE DEF S
  <1> QED
    BY <1>6, <1>7, Zenon DEF AtLeastOnce!Next, AtLeastOnce!Settle

LEMMA WriteRefines ==
  ASSUME NEW e \in Entries, OutInv, Write(e)
  PROVE  AtLeastOnce!Next \/ UNCHANGED AtLeastOnce!vars
  <1>1. /\ UNCHANGED <<arrived, repeated>> /\ row[e] \in {"none", "open"}
        /\ \A f \in Entries \ {e} : row'[f] = row[f]
        /\ row'[e] \in {"open", "unpublished", "aborted"}
    BY DEF OutInv, TypeOK, Write, Insert, EndInsert, broker
  <1>2. {f \in Entries : row[f] = "published"}' = {f \in Entries : row[f] = "published"}
    BY <1>1
  <1>3. CASE row'[e] = "unpublished"
    <2>1. Committed' = Committed \cup {e}
      BY <1>1, <1>3 DEF Committed
    <2> QED
      BY <1>1, <1>2, <2>1 DEF AtLeastOnce!Next, AtLeastOnce!Record
  <1>4. CASE row'[e] # "unpublished"
    <2>1. Committed' = Committed
      BY <1>1, <1>4 DEF Committed
    <2> QED
      BY <1>1, <1>2, <2>1 DEF AtLeastOnce!vars
  <1> QED
    BY <1>3, <1>4

\* The outbox delivers at least once what was committed and nothing else, and marks only
\* what has arrived, whatever connections and processes are lost.
THEOREM Delivered == Spec => ImplementsDelivery
  <1>1. Init => AtLeastOnce!Init
    BY DEF Init, Committed, AtLeastOnce!Init
  <1>2. OutInv /\ [Next]_vars => [AtLeastOnce!Next]_(AtLeastOnce!vars)
    <2> SUFFICES ASSUME OutInv, [Next]_vars
                 PROVE  AtLeastOnce!Next \/ UNCHANGED AtLeastOnce!vars
      BY DEF AtLeastOnce!vars
    <2>1. ASSUME NEW p \in Publishers, NEW e \in Entries, SendOk(p, e) \/ SendError(p, e)
          PROVE  AtLeastOnce!Next \/ UNCHANGED AtLeastOnce!vars
      BY <2>1, DeliverRefines
    <2>2. ASSUME NEW p \in Publishers, Commit(p) PROVE AtLeastOnce!Next
      BY <2>2, SettleRefines
    <2>3. ASSUME NEW e \in Entries, Write(e)
          PROVE  AtLeastOnce!Next \/ UNCHANGED AtLeastOnce!vars
      BY <2>3, WriteRefines
    <2>4. CASE \/ UNCHANGED vars
               \/ \E p \in Publishers : \/ Poll(p) \/ Fetched(p) \/ LoseConnection(p) \/ Fail(p)
                                        \/ \E e \in Entries : FetchRow(p, e)
      <3>1. row' = row /\ UNCHANGED <<arrived, repeated>>
        BY <2>4 DEF vars, table, broker, Poll, Fetched, LoseConnection, Fail, FetchRow
      <3> QED
        BY <3>1 DEF Committed, AtLeastOnce!vars
    <2> QED
      BY <2>1, <2>2, <2>3, <2>4 DEF Next, Publish, Trouble
  <1> QED
    BY <1>1, <1>2, OutInvariance, PTL DEF Spec, ImplementsDelivery, AtLeastOnce!Spec

-----------------------------------------------------------------------------
(* Repeats. *)

\* A row that has arrived is marked, or about to be marked by a publisher that has it, or
\* something went wrong with it.
DoubtInv ==
  /\ \A e \in arrived : \/ row[e] = "published" \/ e \in doubted
                        \/ \E p \in Publishers \ lost : e \in done[p]
  /\ \A p \in lost : Held(p) \subseteq doubted
  /\ \A p \in Publishers \ lost : todo[p] \cap done[p] = {}
  /\ repeated \subseteq doubted

\* A row that is sent by a live publisher and has arrived before is a doubted one.
LEMMA SentBefore ==
  ASSUME NEW p \in Publishers, NEW e \in Entries, OutInv, DoubtInv, e \in todo[p], e \in arrived
  PROVE  e \in doubted
  <1>1. CASE p \in lost
    BY <1>1 DEF DoubtInv, Held
  <1>2. CASE p \notin lost
    <2>1. owner[e] = p /\ row[e] = "unpublished"
      BY <1>2, OutboxAssumption DEF OutInv, TypeOK, HeldLocked, LocksHeld, Held
    <2>2. \A q \in Publishers \ lost : e \in done[q] => q = p
      BY <2>1 DEF OutInv, HeldLocked, Held
    <2> QED
      BY <1>2, <2>1, <2>2 DEF DoubtInv
  <1> QED
    BY <1>1, <1>2

LEMMA DoubtStep == OutInv /\ DoubtInv /\ [Next]_vars => DoubtInv'
  <1> SUFFICES ASSUME OutInv, DoubtInv, [Next]_vars PROVE DoubtInv'
    OBVIOUS
  <1>t. TypeOK
    BY DEF OutInv
  <1>1. ASSUME NEW p \in Publishers, NEW e \in Entries, FetchRow(p, e) PROVE DoubtInv'
    <2>1. /\ p \notin lost /\ done[p] = {}
          /\ row' = row /\ arrived' = arrived /\ repeated' = repeated /\ doubted' = doubted
          /\ lost' = lost /\ done' = done
          /\ \A q \in Publishers \ {p} : todo'[q] = todo[q]
      BY <1>1, <1>t DEF FetchRow, Take, OutInv, Phases, TypeOK, table, broker, history
    <2> QED
      BY <2>1, <1>t DEF DoubtInv, Held, TypeOK
  <1>2. ASSUME NEW p \in Publishers, NEW e \in Entries, SendOk(p, e) PROVE DoubtInv'
    <2>1. /\ e \in todo[p] /\ Arrive(e)
          /\ todo' = [todo EXCEPT ![p] = @ \ {e}]
          /\ done' = [done EXCEPT ![p] = @ \cup {e}]
          /\ UNCHANGED <<row, doubted, lost>>
      BY <1>2 DEF SendOk, First, table, history
    <2>2. repeated' \subseteq doubted'
      BY <2>1, SentBefore DEF Arrive, DoubtInv
    <2>3. \A q \in Publishers : Held(q)' = Held(q) /\ done[q] \subseteq done'[q]
      BY <2>1, <1>t DEF TypeOK, Held
    <2>4. \A q \in Publishers \ lost : (todo[q] \cap done[q])' = {}
      BY <2>1, <1>t DEF TypeOK, DoubtInv
    <2>5. \A q \in lost' : Held(q)' \subseteq doubted'
      BY <2>1, <2>3, <1>t DEF TypeOK, DoubtInv
    <2>6. ASSUME NEW f \in arrived'
          PROVE  (row[f] = "published" \/ f \in doubted \/ \E q \in Publishers \ lost : f \in done[q])'
      <3>1. CASE f = e
        BY <2>1, <3>1, <1>t DEF TypeOK, DoubtInv, Held
      <3>2. CASE f # e
        BY <2>1, <2>3, <3>2 DEF Arrive, DoubtInv
      <3> QED
        BY <3>1, <3>2
    <2> QED
      BY <2>1, <2>2, <2>4, <2>5, <2>6 DEF DoubtInv
  <1>3. ASSUME NEW p \in Publishers, NEW e \in Entries, SendError(p, e) PROVE DoubtInv'
    <2>1. /\ e \in todo[p] /\ (Arrive(e) \/ UNCHANGED broker)
          /\ todo' = [todo EXCEPT ![p] = @ \ {e}]
          /\ doubted' = doubted \cup {e}
          /\ UNCHANGED <<row, done, lost>>
      BY <1>3 DEF SendError, First, Doubt, table
    <2>2. arrived' \subseteq arrived \cup {e} /\ repeated' \subseteq repeated \cup {e}
      BY <2>1 DEF Arrive, broker
    <2>3. \A q \in Publishers : todo'[q] \subseteq todo[q]
      BY <2>1, <1>t DEF TypeOK
    <2> QED
      BY <2>1, <2>2, <2>3, <1>t DEF TypeOK, DoubtInv, Held
  <1>4. ASSUME NEW p \in Publishers, Commit(p) PROVE DoubtInv'
    <2>1. /\ p \notin lost /\ lost' = lost
          /\ UNCHANGED <<arrived, repeated, doubted>>
          /\ \A e \in Entries : row'[e] = IF e \in done[p] THEN "published" ELSE row[e]
          /\ todo'[p] = {} /\ done'[p] = {}
          /\ \A q \in Publishers \ {p} : todo'[q] = todo[q] /\ done'[q] = done[q]
      BY <1>4, <1>t DEF Commit, EndBatch, TypeOK, broker, history
    <2> QED
      BY <2>1, <1>t DEF DoubtInv, Held, TypeOK
  <1>5. ASSUME NEW p \in Publishers, Fail(p) \/ LoseConnection(p) PROVE DoubtInv'
    <2>1. /\ UNCHANGED <<row, arrived, repeated>>
          /\ doubted' = doubted \cup Held(p)
          /\ lost' \subseteq lost \cup {p} /\ lost \subseteq lost' \cup {p}
          /\ \A q \in Publishers \ {p} : todo'[q] = todo[q] /\ done'[q] = done[q]
          /\ \/ todo'[p] = {} /\ done'[p] = {}
             \/ p \in lost' /\ todo'[p] = todo[p] /\ done'[p] = done[p]
      BY <1>5, <1>t DEF Fail, LoseConnection, EndBatch, Doubt, Held, TypeOK, table, broker
    <2>2. ASSUME NEW f \in arrived'
          PROVE  (row[f] = "published" \/ f \in doubted \/ \E q \in Publishers \ lost : f \in done[q])'
      <3>1. CASE f \in Held(p)
        BY <2>1, <3>1
      <3>2. CASE f \notin Held(p)
        BY <2>1, <3>2 DEF DoubtInv, Held
      <3> QED
        BY <3>1, <3>2
    <2>3. \A q \in lost' : Held(q)' \subseteq doubted'
      BY <2>1, <1>t DEF DoubtInv, Held, TypeOK
    <2>4. \A q \in Publishers \ lost' : (todo[q] \cap done[q])' = {}
      BY <2>1 DEF DoubtInv
    <2> QED
      BY <2>1, <2>2, <2>3, <2>4 DEF DoubtInv
  <1>6. CASE \/ UNCHANGED vars
             \/ \E p \in Publishers : Poll(p) \/ Fetched(p)
             \/ \E e \in Entries : Write(e)
    <2>1. /\ UNCHANGED <<arrived, repeated, doubted, lost, todo, done>>
          /\ \A e \in Entries : row[e] = "published" => row'[e] = "published"
      BY <1>6, <1>t DEF vars, table, broker, history, publishers, Poll, Fetched, Write, Insert,
         EndInsert, TypeOK
    <2> QED
      BY <2>1, <1>t DEF DoubtInv, Held, TypeOK
  <1> QED
    BY <1>1, <1>2, <1>3, <1>4, <1>5, <1>6 DEF Next, Publish, Trouble

\* JetStream stores a message again only after an error or a batch that was not committed;
\* polling by many publishers at once never causes it.
THEOREM Repeats == Spec => []RepeatsDoubted
  <1>1. Init => DoubtInv
    BY DEF Init, DoubtInv, Held
  <1>2. DoubtInv => RepeatsDoubted
    BY DEF DoubtInv, RepeatsDoubted
  <1> QED
    BY <1>1, <1>2, DoubtStep, OutInvariance, PTL DEF Spec

-----------------------------------------------------------------------------
(* Order. *)

\* The rows that have arrived, went wrong, or are in somebody's hands; none is ever
\* forgotten again.
Accounted == arrived \cup doubted \cup UNION {todo[q] : q \in Publishers}

\* Time: what was committed before a transaction began was created before it.
PastIsPast ==
  /\ \A e \in Entries : row[e] # "none" => created[e] < clock
  /\ \A f \in Entries : \A e \in past[f] :
       e \in Committed /\ row[f] # "none" /\ created[e] < created[f]

\* A row in a batch has all of its past accounted for; one that is still to be examined,
\* all but what is examined before it.
PastAhead ==
  /\ \A e \in Entries : owner[e] # None => e \in Accounted
  /\ \A p \in Publishers :
       /\ \A f \in todo[p] : past[f] \subseteq Accounted
       /\ \A f \in scan[p] : past[f] \subseteq Accounted \cup scan[p]

LEMMA PastStep == OutInv /\ PastIsPast /\ [Next]_vars => PastIsPast'
  <1> SUFFICES ASSUME OutInv, PastIsPast, [Next]_vars PROVE PastIsPast'
    OBVIOUS
  <1>t. TypeOK
    BY DEF OutInv
  <1>1. ASSUME NEW e \in Entries, Insert(e) PROVE PastIsPast'
    <2>1. /\ row[e] = "none" /\ row' = [row EXCEPT ![e] = "open"]
          /\ created' = [created EXCEPT ![e] = clock] /\ clock' = clock + 1
          /\ past' = [past EXCEPT ![e] = Committed]
      BY <1>1 DEF Insert
    <2>2. e \notin Committed /\ Committed \subseteq Committed'
      BY <2>1, <1>t DEF Committed, TypeOK
    <2>3. \A f \in Entries : row'[f] # "none" => created'[f] < clock'
      BY <2>1, <1>t DEF PastIsPast, TypeOK
    <2>4. ASSUME NEW f \in Entries, NEW g \in past'[f]
          PROVE  g \in Committed' /\ row'[f] # "none" /\ created'[g] < created'[f]
      <3>1. CASE f = e
        <4>1. g \in Committed /\ g # e /\ g \in Entries /\ row[g] # "none"
          BY <2>1, <2>2, <3>1, <1>t DEF TypeOK, Committed
        <4> QED
          BY <2>1, <2>2, <3>1, <4>1, <1>t DEF TypeOK, PastIsPast
      <3>2. CASE f # e
        <4>1. g \in past[f] /\ g \in Committed /\ g \in Entries
          BY <2>1, <3>2, <1>t DEF TypeOK, PastIsPast
        <4> QED
          BY <2>1, <2>2, <3>2, <4>1, <1>t DEF TypeOK, PastIsPast
      <3> QED
        BY <3>1, <3>2
    <2> QED
      BY <2>3, <2>4 DEF PastIsPast
  <1>2. CASE /\ UNCHANGED <<created, clock, past>>
             /\ \A e \in Entries : /\ e \in Committed => e \in Committed'
                                   /\ row'[e] = "none" <=> row[e] = "none"
    BY <1>2, <1>t DEF PastIsPast, TypeOK
  <1>3. ASSUME NEW e \in Entries, EndInsert(e) PROVE PastIsPast'
    BY <1>3, <1>2, <1>t DEF EndInsert, history, Committed, TypeOK
  <1>4. ASSUME NEW p \in Publishers, Commit(p) PROVE PastIsPast'
    <2>1. done[p] \subseteq Committed
      BY DEF OutInv, Known, Held
    <2> QED
      BY <1>4, <1>2, <2>1, <1>t DEF Commit, history, Committed, TypeOK
  <1>5. CASE UNCHANGED <<row, created, clock, past>>
    BY <1>5, <1>2 DEF Committed
  <1>6. ASSUME NEW p \in Publishers, Poll(p) \/ Fetched(p) \/ LoseConnection(p) \/ Fail(p)
        PROVE  PastIsPast'
    BY <1>6, <1>5 DEF Poll, Fetched, LoseConnection, Fail, Doubt, table, history
  <1>7. ASSUME NEW p \in Publishers, NEW e \in Entries,
               FetchRow(p, e) \/ SendOk(p, e) \/ SendError(p, e)
        PROVE  PastIsPast'
    BY <1>7, <1>5 DEF FetchRow, SendOk, SendError, Doubt, table, history
  <1>8. CASE UNCHANGED vars
    BY <1>8, <1>5 DEF vars, table, history
  <1> QED
    BY <1>1, <1>3, <1>4, <1>6, <1>7, <1>8 DEF Next, Write, Publish, Trouble

\* Nothing that is accounted for is lost sight of: a row leaves a batch only by being
\* sent, or doubted.
LEMMA AccountedKept == OutInv /\ [Next]_vars => Accounted \subseteq Accounted'
  <1> SUFFICES ASSUME OutInv, [Next]_vars PROVE Accounted \subseteq Accounted'
    OBVIOUS
  <1>t. TypeOK
    BY DEF OutInv
  <1>1. /\ arrived \subseteq arrived' /\ doubted \subseteq doubted'
        /\ \A p \in Publishers : todo[p] \subseteq arrived' \cup doubted' \cup todo'[p]
    <2>1. ASSUME NEW p \in Publishers, NEW e \in Entries, FetchRow(p, e)
          PROVE  /\ UNCHANGED <<arrived, doubted>>
                 /\ \A q \in Publishers : todo[q] \subseteq todo'[q]
      BY <2>1, <1>t DEF FetchRow, Take, TypeOK, broker, history
    <2>2. ASSUME NEW p \in Publishers, NEW e \in Entries, SendOk(p, e) \/ SendError(p, e)
          PROVE  /\ arrived \subseteq arrived' /\ doubted \subseteq doubted'
                 /\ \A q \in Publishers : todo[q] \subseteq arrived' \cup doubted' \cup todo'[q]
      BY <2>2, <1>t DEF SendOk, SendError, Arrive, Doubt, TypeOK, broker, history
    <2>3. ASSUME NEW p \in Publishers, Commit(p) \/ Fail(p)
          PROVE  /\ arrived \subseteq arrived' /\ doubted \subseteq doubted'
                 /\ \A q \in Publishers : todo[q] \subseteq arrived' \cup doubted' \cup todo'[q]
      BY <2>3, <1>t DEF Commit, Fail, EndBatch, Doubt, TypeOK, broker, history
    <2>4. CASE \/ UNCHANGED vars
               \/ \E p \in Publishers : Poll(p) \/ Fetched(p) \/ LoseConnection(p)
               \/ \E e \in Entries : Write(e)
      <3>1. todo' = todo /\ arrived' = arrived /\ doubted \subseteq doubted'
        BY <2>4 DEF vars, publishers, broker, history, Poll, Fetched, LoseConnection, Doubt,
           Write, Insert, EndInsert
      <3> QED
        BY <3>1
    <2> QED
      BY <2>1, <2>2, <2>3, <2>4 DEF Next, Publish, Trouble
  <1> QED
    BY <1>1 DEF Accounted

LEMMA AheadStep == OutInv /\ PastIsPast /\ PastAhead /\ [Next]_vars => PastAhead'
  <1> SUFFICES ASSUME OutInv, PastIsPast, PastAhead, [Next]_vars PROVE PastAhead'
    OBVIOUS
  <1>t. TypeOK
    BY DEF OutInv
  <1>a. Accounted \subseteq Accounted'
    BY AccountedKept
  <1>1. ASSUME NEW p \in Publishers, NEW e \in Entries, FetchRow(p, e) PROVE PastAhead'
    <2>1. /\ First(scan[p], e) /\ scan' = [scan EXCEPT ![p] = @ \ {e}]
          /\ past' = past /\ arrived' = arrived
      BY <1>1 DEF FetchRow, history, broker
    <2>2. \/ /\ owner' = [owner EXCEPT ![e] = p] /\ todo' = [todo EXCEPT ![p] = @ \cup {e}]
          \/ UNCHANGED <<owner, todo>> /\ (row[e] # "unpublished" \/ owner[e] # None)
      BY <1>1 DEF FetchRow, Take
    <2>3. e \in Accounted'
      <3>1. CASE e \in todo'[p]
        BY <3>1 DEF Accounted
      <3>2. CASE owner[e] # None
        BY <1>a, <3>2 DEF PastAhead
      <3>3. CASE row[e] # "unpublished"
        <4>1. e \in arrived
          BY <2>1, <3>3 DEF First, OutInv, Known, Committed
        <4> QED
          BY <2>1, <4>1 DEF Accounted
      <3> QED
        BY <2>2, <3>1, <3>2, <3>3, <1>t DEF TypeOK
    <2>4. past[e] \subseteq Accounted
      <3>1. \A f \in past[e] : f \notin scan[p]
        BY <2>1, <1>t DEF First, PastIsPast, TypeOK
      <3> QED
        BY <2>1, <3>1 DEF First, PastAhead
    <2>5. \A f \in Entries : owner'[f] # None => f \in Accounted'
      BY <2>2, <2>3, <1>a, <1>t DEF PastAhead, TypeOK
    <2>6. \A q \in Publishers : \A f \in todo'[q] : past'[f] \subseteq Accounted'
      BY <2>1, <2>2, <2>4, <1>a, <1>t DEF PastAhead, TypeOK
    <2>7. \A q \in Publishers : \A f \in scan'[q] : past'[f] \subseteq Accounted' \cup scan'[q]
      BY <2>1, <2>3, <1>a, <1>t DEF PastAhead, TypeOK
    <2> QED
      BY <2>5, <2>6, <2>7 DEF PastAhead
  <1>2. ASSUME NEW p \in Publishers, Poll(p) PROVE PastAhead'
    <2>1. /\ scan' = [scan EXCEPT ![p] = {e \in Entries : row[e] = "unpublished"}]
          /\ UNCHANGED <<owner, todo, past>>
      BY <1>2 DEF Poll, history
    <2>2. \A f \in Entries : past[f] \subseteq Accounted \cup {e \in Entries : row[e] = "unpublished"}
      BY DEF PastIsPast, Committed, OutInv, Known, Accounted
    <2> QED
      BY <2>1, <2>2, <1>a, <1>t DEF PastAhead, TypeOK
  <1>3. ASSUME NEW e \in Entries, Insert(e) PROVE PastAhead'
    <2>1. /\ row[e] = "none" /\ past' = [past EXCEPT ![e] = Committed]
          /\ UNCHANGED <<owner, scan, todo>>
      BY <1>3 DEF Insert, publishers
    <2>2. \A p \in Publishers : e \notin scan[p] \cup todo[p]
      BY <2>1 DEF OutInv, Known, Held, Committed
    <2>3. \A p \in Publishers : \A f \in scan[p] \cup todo[p] : past'[f] = past[f]
      BY <2>1, <2>2, <1>t DEF TypeOK
    <2> QED
      BY <2>1, <2>3, <1>a DEF PastAhead
  <1>4. CASE /\ past' = past
             /\ \A e \in Entries : owner'[e] # None => owner[e] # None
             /\ \A p \in Publishers : todo'[p] \subseteq todo[p] /\ scan'[p] \in {scan[p], {}}
    BY <1>4, <1>a, <1>t DEF PastAhead, TypeOK
  <1>5. ASSUME NEW p \in Publishers, NEW e \in Entries, SendOk(p, e) \/ SendError(p, e)
        PROVE  PastAhead'
    BY <1>5, <1>4, <1>t DEF SendOk, SendError, Doubt, history, TypeOK
  <1>6. ASSUME NEW p \in Publishers, Commit(p) \/ Fail(p) PROVE PastAhead'
    <2>1. EndBatch(p) /\ past' = past
      BY <1>6 DEF Commit, Fail, Doubt, history
    <2> QED
      BY <2>1, <1>4, <1>t DEF EndBatch, TypeOK
  <1>7. ASSUME NEW p \in Publishers, Fetched(p) \/ LoseConnection(p) PROVE PastAhead'
    BY <1>7, <1>4, <1>t DEF Fetched, LoseConnection, Doubt, history, TypeOK
  <1>8. CASE UNCHANGED vars \/ \E e \in Entries : EndInsert(e)
    BY <1>8, <1>4 DEF vars, publishers, history, EndInsert
  <1> QED
    BY <1>1, <1>2, <1>3, <1>5, <1>6, <1>7, <1>8 DEF Next, Write, Publish, Trouble

\* Cause before effect: a row overtakes one that was committed before its transaction
\* began only where that one is in another publisher's hands or went wrong.
THEOREM CauseBeforeEffect == Spec => CausalOrder
  <1> DEFINE Ordered ==
        \A p \in Publishers : \A e \in todo[p] \ todo'[p] : e \in arrived' \ arrived =>
          past[e] \subseteq arrived \cup doubted \cup InOtherHands(p)
  <1>1. OutInv /\ PastIsPast /\ PastAhead /\ [Next]_vars => [Ordered]_vars
    <2> SUFFICES ASSUME OutInv, PastIsPast, PastAhead, [Next]_vars, NEW p \in Publishers,
                        NEW e \in todo[p] \ todo'[p], e \in arrived' \ arrived
                 PROVE  past[e] \subseteq arrived \cup doubted \cup InOtherHands(p)
      OBVIOUS
    <2>t. TypeOK
      BY DEF OutInv
    <2>1. SendOk(p, e) \/ SendError(p, e)
      <3>1. ASSUME NEW q \in Publishers, NEW f \in Entries, SendOk(q, f) \/ SendError(q, f)
            PROVE  q = p /\ f = e
        BY <3>1, <2>t DEF SendOk, SendError, Arrive, TypeOK, broker
      <3>2. CASE \/ UNCHANGED vars
                 \/ \E q \in Publishers : \/ Poll(q) \/ Fetched(q) \/ Commit(q)
                                          \/ LoseConnection(q) \/ Fail(q)
                                          \/ \E f \in Entries : FetchRow(q, f)
                 \/ \E f \in Entries : Write(f)
        <4>1. arrived' = arrived
          BY <3>2 DEF vars, broker, Poll, Fetched, Commit, LoseConnection, Fail, FetchRow, Write,
             Insert, EndInsert
        <4> QED
          BY <4>1
      <3> QED
        BY <3>1, <3>2 DEF Next, Publish, Trouble
    <2>2. First(todo[p], e)
      BY <2>1 DEF SendOk, SendError
    <2>3. \A f \in past[e] : f \notin todo[p]
      BY <2>2, <2>t DEF First, PastIsPast, TypeOK
    <2>4. past[e] \subseteq Accounted
      BY DEF PastAhead
    <2> QED
      BY <2>3, <2>4 DEF Accounted, InOtherHands
  <1>2. Init => PastIsPast /\ PastAhead
    BY DEF Init, PastIsPast, PastAhead
  <1>3. CausalOrder <=> [][Ordered]_vars
    BY PTL DEF CausalOrder
  <1> QED
    BY <1>1, <1>2, <1>3, PastStep, AheadStep, OutInvariance, PTL DEF Spec
=============================================================================
