--------------------------- MODULE MatchingProofs ---------------------------
(***************************************************************************)
(* Proofs about Catalog and Matching, for any number of requests and any   *)
(* jobs, profiles and skills.                                              *)
(*                                                                         *)
(* CatInv says why UpdateSkills is safe although it locks the profile last:*)
(* what a transaction has deleted is still there for everyone else, nobody *)
(* else has deleted it, what it has inserted collides with no row that     *)
(* will stay (Alone, Apart), and from the moment it reads the profile for  *)
(* its event nobody else can commit (Holding).                             *)
(***************************************************************************)
EXTENDS Matching, SequenceTheorems, TLAPS

\* What holds of a request's transaction by itself.
Alone(r) ==
  /\ pc[r] \in Open \cup {"committed"} => On(r) \in born
  /\ pc[r] \in {"deleting", "inserting", "touched"} => On(r) \in Profiles
  /\ pc[r] \notin Deleted => added[r] = {}
  /\ pc[r] \in Deleted /\ On(r) \in Profiles =>
       /\ gone[r] \subseteq links[On(r)]
       /\ \A l \in links[On(r)] : l.skill \in added[r] => l \in gone[r]
  /\ pc[r] = "read" /\ On(r) \in Profiles => payload[r] = {l.skill : l \in Rewritten(r)}
  /\ r \in outbox <=> pc[r] = "committed"

\* What keeps two transactions on one item apart.
Apart(q, r) ==
  q # r /\ On(q) = On(r) /\ pc[q] \in Deleted /\ pc[r] \in Deleted =>
    /\ pc[q] \notin Holding \/ pc[r] \notin Holding
    /\ gone[q] \cap gone[r] = {} /\ added[q] \cap added[r] = {}

CatInv ==
  /\ CatalogTypeOK
  /\ \A p \in Profiles \ born : links[p] = {}
  /\ \A r \in Requests : Alone(r)
  /\ \A q, r \in Requests : Apart(q, r)
  /\ \A i \in Items : IF i \in born THEN last[i] \in outbox /\ On(last[i]) = i ELSE last[i] = 0

-----------------------------------------------------------------------------
LEMMA CatInit == CatalogInit => CatInv
  <1> SUFFICES ASSUME CatalogInit PROVE CatInv
    OBVIOUS
  <1>0. 0 \in 0 .. N
    BY CatalogAssumption
  <1>1. CatalogTypeOK
    BY <1>0 DEF CatalogInit, CatalogTypeOK, Texts, Open, Deleted, Holding, Items
  <1>2. \A r \in Requests : Alone(r)
    BY DEF CatalogInit, Alone, Open, Deleted, Holding
  <1>3. \A q, r \in Requests : Apart(q, r)
    BY DEF CatalogInit, Apart, Deleted, Holding
  <1>4. \A i \in Items : i \notin born /\ last[i] = 0
    BY DEF CatalogInit
  <1>5. \A p \in Profiles \ born : links[p] = {}
    BY DEF CatalogInit
  <1> QED
    BY <1>1, <1>2, <1>3, <1>4, <1>5 DEF CatInv

\* A step of one request that leaves the tables alone.
Inside(r) ==
  /\ UNCHANGED tables
  /\ pc' \in [Requests -> {"idle", "committed", "failed"} \cup Open]
  /\ arg' \in [Requests -> [item : Items \cup {None}, want : SUBSET (Columns \cup Skills)]]
  /\ gone' \in [Requests -> SUBSET Link] /\ added' \in [Requests -> SUBSET Skills]
  /\ DOMAIN payload' = Requests
  /\ \A q \in Requests \ {r} : /\ pc'[q] = pc[q] /\ arg'[q] = arg[q] /\ payload'[q] = payload[q]
                               /\ gone'[q] = gone[q] /\ added'[q] = added[q]
  /\ pc[r] # "committed" /\ pc'[r] # "committed"

\* Such a step has to account for the request itself only.
LEMMA InsideKeeps ==
  ASSUME CatInv, NEW r \in Requests, Inside(r), Alone(r)',
         pc'[r] = "read" => payload'[r] \in Texts(On(r)'),
         \A q \in Requests : Apart(q, r)'
  PROVE  CatInv'
  <1>1. CatalogTypeOK'
    <2>1. \A q \in Requests : pc'[q] \in {"read", "committed"} => payload'[q] \in Texts(arg'[q].item)
      BY DEF CatInv, CatalogTypeOK, Inside, On
    <2> QED
      BY <2>1 DEF CatInv, CatalogTypeOK, Inside, tables, Texts
  <1>2. \A p \in Profiles \ born' : links'[p] = {}
    BY DEF CatInv, Inside, tables
  <1>3. ASSUME NEW q \in Requests PROVE Alone(q)'
    <2>1. CASE q = r
      BY <2>1
    <2>2. CASE q # r
      <3>1. /\ On(q)' = On(q) /\ pc'[q] = pc[q] /\ payload'[q] = payload[q]
            /\ gone'[q] = gone[q] /\ added'[q] = added[q]
            /\ links' = links /\ born' = born /\ outbox' = outbox
        BY <2>2 DEF Inside, tables, On
      <3>2. Rewritten(q)' = Rewritten(q)
        BY <3>1 DEF Rewritten
      <3>3. Alone(q)
        BY DEF CatInv
      <3> QED
        BY <3>1, <3>2, <3>3 DEF Alone
    <2> QED
      BY <2>1, <2>2
  <1>4. ASSUME NEW q \in Requests, NEW s \in Requests PROVE Apart(q, s)'
    <2>1. CASE q # r /\ s # r
      BY <2>1 DEF CatInv, Inside, tables, Apart, On
    <2>2. CASE s = r
      BY <2>2
    <2>3. CASE q = r /\ s # r
      <3>1. Apart(s, r)'
        OBVIOUS
      <3> QED
        BY <3>1, <2>3 DEF Apart, On
    <2> QED
      BY <2>1, <2>2, <2>3
  <1>5. \A i \in Items : IF i \in born' THEN last'[i] \in outbox' /\ On(last[i])' = i ELSE last'[i] = 0
    <2>1. \A i \in Items : i \in born => last[i] \in Requests /\ last[i] # r
      BY DEF CatInv, CatalogTypeOK, Alone, Inside
    <2> QED
      BY <2>1 DEF CatInv, Inside, tables, On
  <1> QED
    BY <1>1, <1>2, <1>3, <1>4, <1>5 DEF CatInv

-----------------------------------------------------------------------------
LEMMA BeginKeeps ==
  ASSUME CatInv, NEW r \in Requests, NEW i \in Items, NEW want \in Wants(i), Begin(r, i, want)
  PROVE  CatInv'
  <1>1. Inside(r) /\ pc'[r] = "begun" /\ On(r)' = i /\ i \in born
    BY DEF CatInv, CatalogTypeOK, Inside, Begin, Goto, Open, Wants, On, Beginning
  <1>2. Alone(r)'
    BY <1>1 DEF CatInv, CatalogTypeOK, Alone, Begin, Open, Deleted, Holding, Beginning, tables
  <1>3. \A q \in Requests : Apart(q, r)'
    BY <1>1 DEF Apart, Deleted, Holding
  <1> QED
    BY <1>1, <1>2, <1>3, InsideKeeps

LEMMA UpdateJobKeeps ==
  ASSUME CatInv, NEW r \in Requests, UpdateJob(r)
  PROVE  CatInv'
  <1> USE DEF Deleted, Holding, Open
  <1>1. Inside(r) /\ pc'[r] = "read" /\ On(r)' = On(r) /\ On(r) \in Jobs /\ pc[r] = "begun"
    BY DEF CatInv, CatalogTypeOK, Inside, UpdateJob, Goto, On
  <1>2. On(r) \notin Profiles
    BY <1>1, CatalogAssumption
  <1>3. Alone(r)'
    BY <1>1, <1>2 DEF CatInv, Alone, UpdateJob, tables
  <1>4. ASSUME NEW q \in Requests PROVE Apart(q, r)'
    <2>1. CASE q # r /\ On(q) = On(r)
      <3>1. pc[q] \notin Deleted
        BY <2>1, <1>1, <1>2 DEF UpdateJob, Others, CatInv, Alone
      <3> QED
        BY <3>1, <1>1, <2>1 DEF Apart, Inside
    <2> QED
      BY <2>1, <1>1 DEF Apart, Inside, On
  <1>5. payload'[r] \in Texts(On(r)')
    BY <1>1 DEF CatInv, CatalogTypeOK, UpdateJob, Texts, Requests
  <1> QED
    BY <1>1, <1>3, <1>4, <1>5, InsideKeeps

LEMMA SelectLinksKeeps ==
  ASSUME CatInv, NEW r \in Requests, SelectLinks(r)
  PROVE  CatInv'
  <1> USE DEF Deleted, Holding, Open
  <1>1. Inside(r) /\ pc'[r] = "deleting" /\ On(r)' = On(r) /\ On(r) \in Profiles /\ pc[r] = "begun"
    BY DEF CatInv, CatalogTypeOK, Inside, SelectLinks, Goto, On
  <1>2. Alone(r)'
    BY <1>1 DEF CatInv, Alone, SelectLinks, tables
  <1>3. \A q \in Requests : Apart(q, r)'
    BY <1>1 DEF Apart
  <1> QED
    BY <1>1, <1>2, <1>3, InsideKeeps

LEMMA DeleteLinksKeeps ==
  ASSUME CatInv, NEW r \in Requests, DeleteLinks(r)
  PROVE  CatInv'
  <1> USE DEF Deleted, Holding, Open
  <1>1. /\ Inside(r) /\ pc'[r] = "inserting" /\ On(r)' = On(r) /\ On(r) \in Profiles
        /\ pc[r] = "deleting" /\ added'[r] = {}
        /\ gone'[r] = gone[r] \cap links[On(r)]
    BY DEF CatInv, CatalogTypeOK, Inside, DeleteLinks, Goto, On, Alone
  <1>2. Alone(r)'
    BY <1>1 DEF CatInv, Alone, DeleteLinks, tables
  <1>3. ASSUME NEW q \in Requests PROVE Apart(q, r)'
    <2>1. CASE q # r /\ On(q) = On(r) /\ pc[q] \in Deleted
      <3>1. gone[q] \cap gone'[r] = {}
        BY <2>1, <1>1 DEF DeleteLinks, Others
      <3> QED
        BY <3>1, <2>1, <1>1 DEF Apart, Inside
    <2> QED
      BY <2>1, <1>1 DEF Apart, Inside, On
  <1> QED
    BY <1>1, <1>2, <1>3, InsideKeeps

LEMMA InsertLinkKeeps ==
  ASSUME CatInv, NEW r \in Requests, NEW s \in Skills, InsertLink(r, s)
  PROVE  CatInv'
  <1> USE DEF Deleted, Holding, Open
  <1>1. /\ Inside(r) /\ pc[r] = "inserting" /\ pc'[r] = "inserting" /\ On(r)' = On(r)
        /\ On(r) \in Profiles /\ gone'[r] = gone[r] /\ added'[r] = added[r] \cup {s}
    BY DEF CatInv, CatalogTypeOK, Inside, InsertLink, On, Alone
  <1>2. Alone(r)'
    <2>1. \A l \in links[On(r)] : l.skill \in added'[r] => l \in gone[r]
      BY <1>1 DEF CatInv, Alone, InsertLink, Free
    <2> QED
      BY <1>1, <2>1 DEF CatInv, Alone, InsertLink, tables
  <1>3. ASSUME NEW q \in Requests PROVE Apart(q, r)'
    <2>1. CASE q # r /\ On(q) = On(r) /\ pc[q] \in Deleted
      <3>1. s \notin added[q]
        BY <2>1 DEF InsertLink, Free, Others
      <3> QED
        BY <3>1, <2>1, <1>1 DEF CatInv, Apart, Inside
    <2> QED
      BY <2>1, <1>1 DEF Apart, Inside, On
  <1> QED
    BY <1>1, <1>2, <1>3, InsideKeeps

LEMMA TouchProfileKeeps ==
  ASSUME CatInv, NEW r \in Requests, TouchProfile(r)
  PROVE  CatInv'
  <1> USE DEF Deleted, Holding, Open
  <1>1. /\ Inside(r) /\ pc[r] = "inserting" /\ pc'[r] = "touched" /\ On(r)' = On(r)
        /\ On(r) \in Profiles /\ gone'[r] = gone[r] /\ added'[r] = added[r]
    BY DEF CatInv, CatalogTypeOK, Inside, TouchProfile, Goto, On, Alone
  <1>2. Alone(r)'
    BY <1>1 DEF CatInv, Alone, TouchProfile, tables
  <1>3. ASSUME NEW q \in Requests PROVE Apart(q, r)'
    <2>1. CASE q # r /\ On(q) = On(r)
      <3>1. pc[q] \notin Holding
        BY <2>1 DEF TouchProfile, RowFree, Others
      <3> QED
        BY <3>1, <2>1, <1>1 DEF CatInv, Apart, Inside
    <2> QED
      BY <2>1, <1>1 DEF Apart, Inside, On
  <1> QED
    BY <1>1, <1>2, <1>3, InsideKeeps

LEMMA ReadProfileKeeps ==
  ASSUME CatInv, NEW r \in Requests, ReadProfile(r)
  PROVE  CatInv'
  <1> USE DEF Deleted, Holding, Open
  <1>1. /\ Inside(r) /\ pc[r] = "touched" /\ pc'[r] = "read" /\ On(r)' = On(r)
        /\ On(r) \in Profiles /\ gone'[r] = gone[r] /\ added'[r] = added[r]
        /\ payload'[r] = {l.skill : l \in Rewritten(r)} /\ links' = links
    BY DEF CatInv, CatalogTypeOK, Inside, ReadProfile, Goto, On, Alone, tables
  <1>2. Rewritten(r)' = Rewritten(r)
    BY <1>1 DEF Rewritten
  <1>3. Alone(r)'
    BY <1>1, <1>2 DEF CatInv, Alone, ReadProfile, tables
  <1>4. \A q \in Requests : Apart(q, r)'
    BY <1>1 DEF CatInv, Apart, Inside, On
  <1>5. Rewritten(r) \subseteq Link
    BY <1>1 DEF CatInv, CatalogTypeOK, Rewritten, Link
  <1>6. payload'[r] \in Texts(On(r)')
    BY <1>1, <1>5, CatalogAssumption DEF Texts, Link
  <1> QED
    BY <1>1, <1>3, <1>4, <1>6, InsideKeeps

LEMMA FailKeeps ==
  ASSUME CatInv, NEW r \in Requests, Fail(r)
  PROVE  CatInv'
  <1> USE DEF Deleted, Holding, Open
  <1>1. Inside(r) /\ pc'[r] = "failed" /\ pc[r] \in Open /\ added'[r] = {}
    BY DEF CatInv, CatalogTypeOK, Inside, Fail, End, Goto, On
  <1>2. Alone(r)'
    BY <1>1 DEF CatInv, Alone, Fail, tables
  <1>3. \A q \in Requests : Apart(q, r)'
    BY <1>1 DEF Apart
  <1> QED
    BY <1>1, <1>2, <1>3, InsideKeeps

-----------------------------------------------------------------------------
\* What a commit on an item owes the others: what they have deleted is still there, no
\* row they will collide with has come, and nobody has read the item for an event.
Spares(q) ==
  /\ pc[q] \in Deleted /\ On(q) \in Profiles =>
       /\ gone[q] \subseteq links'[On(q)]
       /\ \A l \in links'[On(q)] : l.skill \in added[q] => l \in gone[q]
  /\ pc[q] = "read" /\ On(q) \in Profiles => links'[On(q)] = links[On(q)]

LEMMA CommitKeeps ==
  ASSUME CatInv, NEW r \in Requests, NEW i \in Items, Commit(r, i), pc[r] # "committed",
         born' = born \cup {i},
         columns' \in [Jobs -> [Columns -> 0 .. N]],
         links' \in [Profiles -> SUBSET Link],
         \A p \in Profiles : \A k, l \in links'[p] : k.skill = l.skill => k = l,
         \A p \in Profiles \ born' : links'[p] = {},
         DOMAIN payload' = Requests, payload'[r] \in Texts(i),
         \A q \in Requests \ {r} : payload'[q] = payload[q],
         \A q \in Requests \ {r} : Spares(q)
  PROVE  CatInv'
  <1>1. /\ pc'[r] = "committed" /\ On(r)' = i /\ gone'[r] = {} /\ added'[r] = {}
        /\ outbox' = outbox \cup {r}
    BY DEF CatInv, CatalogTypeOK, Commit, End, Goto, On
  <1>2. \A q \in Requests \ {r} : /\ pc'[q] = pc[q] /\ arg'[q] = arg[q] /\ On(q)' = On(q)
                                  /\ gone'[q] = gone[q] /\ added'[q] = added[q]
    BY DEF CatInv, CatalogTypeOK, Commit, End, Goto, On
  <1>3. r \in 0 .. N
    BY CatalogAssumption DEF Requests
  <1>4. CatalogTypeOK'
    <2>1. /\ pc' \in [Requests -> {"idle", "committed", "failed"} \cup Open]
          /\ arg' \in [Requests -> [item : Items \cup {None}, want : SUBSET (Columns \cup Skills)]]
      BY DEF CatInv, CatalogTypeOK, Commit, End, Goto
    <2>2. gone' \in [Requests -> SUBSET Link] /\ added' \in [Requests -> SUBSET Skills]
      BY DEF CatInv, CatalogTypeOK, Commit, End
    <2>3. last' \in [Items -> 0 .. N]
      BY <1>3 DEF CatInv, CatalogTypeOK, Commit
    <2>4. ASSUME NEW q \in Requests, pc'[q] \in {"read", "committed"}
          PROVE  payload'[q] \in Texts(arg'[q].item)
      <3>1. CASE q = r
        BY <3>1, <1>1 DEF On
      <3>2. CASE q # r
        BY <3>2, <2>4, <1>2 DEF CatInv, CatalogTypeOK
      <3> QED
        BY <3>1, <3>2
    <2>5. outbox' \subseteq Requests /\ born' \subseteq Items
      BY <1>1 DEF CatInv, CatalogTypeOK
    <2>6. \A q \in Requests : pc'[q] \in {"read", "committed"} => payload'[q] \in Texts(arg[q].item)'
      BY <2>4 DEF Texts
    <2> QED
      BY <2>1, <2>2, <2>3, <2>5, <2>6 DEF CatalogTypeOK
  <1>5. ASSUME NEW q \in Requests PROVE Alone(q)'
    <2>1. CASE q = r
      BY <2>1, <1>1 DEF Alone, Open, Deleted, Holding
    <2>2. CASE q # r
      <3>1. /\ On(q)' = On(q) /\ pc'[q] = pc[q] /\ payload'[q] = payload[q]
            /\ gone'[q] = gone[q] /\ added'[q] = added[q] /\ born \subseteq born'
            /\ q \in outbox' <=> q \in outbox
        BY <2>2, <1>1, <1>2
      <3>2. Alone(q) /\ Spares(q)
        BY <2>2 DEF CatInv
      <3>3. pc[q] = "read" /\ On(q) \in Profiles => payload'[q] = {l.skill : l \in Rewritten(q)'}
        BY <3>1, <3>2 DEF Alone, Spares, Rewritten
      <3>4. pc[q] \in Deleted /\ On(q) \in Profiles =>
              /\ gone'[q] \subseteq links'[On(q)]
              /\ \A l \in links'[On(q)] : l.skill \in added'[q] => l \in gone'[q]
        BY <3>1, <3>2 DEF Spares
      <3> QED
        BY <3>1, <3>2, <3>3, <3>4 DEF Alone
    <2> QED
      BY <2>1, <2>2
  <1>6. ASSUME NEW q \in Requests, NEW s \in Requests PROVE Apart(q, s)'
    <2>1. CASE q # r /\ s # r
      BY <2>1, <1>2 DEF CatInv, Apart
    <2>2. CASE q = r \/ s = r
      BY <2>2, <1>1 DEF Apart, Deleted, Holding
    <2> QED
      BY <2>1, <2>2
  <1>7. ASSUME NEW x \in Items
        PROVE  IF x \in born' THEN last'[x] \in outbox' /\ On(last[x])' = x ELSE last'[x] = 0
    <2>1. CASE x = i
      <3>1. last'[x] = r
        BY <2>1 DEF CatInv, CatalogTypeOK, Commit
      <3>2. On(last[x])' = On(r)'
        BY <3>1 DEF On
      <3> QED
        BY <3>1, <3>2, <2>1, <1>1
    <2>2. CASE x # i
      <3>1. last'[x] = last[x] /\ (x \in born' <=> x \in born)
        BY <2>2 DEF CatInv, CatalogTypeOK, Commit
      <3>2. CASE x \in born
        <4>1. last[x] \in Requests /\ last[x] # r /\ last[x] \in outbox /\ On(last[x]) = x
          BY <3>2 DEF CatInv, CatalogTypeOK, Alone
        <4>2. On(last[x])' = x
          BY <4>1, <3>1, <1>2 DEF On
        <4> QED
          BY <3>1, <3>2, <4>1, <4>2, <1>1
      <3>3. CASE x \notin born
        BY <3>1, <3>3 DEF CatInv
      <3> QED
        BY <3>2, <3>3
    <2> QED
      BY <2>1, <2>2
  <1> QED
    BY <1>4, <1>5, <1>6, <1>7 DEF CatInv

LEMMA CreateKeeps ==
  ASSUME CatInv, NEW r \in Requests, NEW i \in Items, Create(r, i)
  PROVE  CatInv'
  <1>1. pc[r] # "committed" /\ Commit(r, i) /\ born' = born \cup {i} /\ links' = links
    BY DEF Create, Beginning
  <1>2. [c \in Columns |-> r] \in [Columns -> 0 .. N]
    BY CatalogAssumption DEF Requests
  <1>3. columns' \in [Jobs -> [Columns -> 0 .. N]]
    BY <1>2 DEF CatInv, CatalogTypeOK, Create
  <1>4. /\ DOMAIN payload' = Requests /\ payload'[r] \in Texts(i)
        /\ \A q \in Requests \ {r} : payload'[q] = payload[q]
    BY <1>2 DEF CatInv, CatalogTypeOK, Create, Texts
  <1>5. \A q \in Requests \ {r} : Spares(q)
    BY <1>1 DEF CatInv, Alone, Spares
  <1>6. /\ links' \in [Profiles -> SUBSET Link] /\ \A p \in Profiles \ born' : links'[p] = {}
        /\ \A p \in Profiles : \A k, l \in links'[p] : k.skill = l.skill => k = l
    BY <1>1 DEF CatInv, CatalogTypeOK
  <1> QED
    BY <1>1, <1>3, <1>4, <1>5, <1>6, CommitKeeps

LEMMA CommitJobKeeps ==
  ASSUME CatInv, NEW r \in Requests, CommitJob(r)
  PROVE  CatInv'
  <1>1. /\ pc[r] = "read" /\ On(r) \in Jobs /\ Commit(r, On(r)) /\ links' = links
        /\ born' = born /\ payload' = payload /\ On(r) \in born
    BY DEF CatInv, CommitJob, Alone, Open, Deleted, Holding
  <1>2. payload[r] \in Texts(On(r)) /\ On(r) \in Items
    BY <1>1 DEF CatInv, CatalogTypeOK, On, Items
  <1>3. columns' \in [Jobs -> [Columns -> 0 .. N]]
    BY <1>1, <1>2 DEF CatInv, CatalogTypeOK, CommitJob, Texts
  <1>4. \A q \in Requests \ {r} : Spares(q)
    BY <1>1 DEF CatInv, Alone, Spares
  <1>5. /\ links' \in [Profiles -> SUBSET Link] /\ \A p \in Profiles \ born' : links'[p] = {}
        /\ \A p \in Profiles : \A k, l \in links'[p] : k.skill = l.skill => k = l
    BY <1>1 DEF CatInv, CatalogTypeOK
  <1>6. born' = born \cup {On(r)} /\ pc[r] # "committed" /\ DOMAIN payload' = Requests
    BY <1>1 DEF CatInv, CatalogTypeOK
  <1> QED
    BY <1>1, <1>2, <1>3, <1>4, <1>5, <1>6, CommitKeeps

LEMMA CommitSkillsKeeps ==
  ASSUME CatInv, NEW r \in Requests, CommitSkills(r)
  PROVE  CatInv'
  <1> USE DEF Deleted, Holding, Open
  <1>1. /\ pc[r] = "read" /\ On(r) \in Profiles /\ Commit(r, On(r)) /\ columns' = columns
        /\ born' = born /\ payload' = payload /\ On(r) \in born /\ On(r) \in Items
    BY DEF CatInv, CommitSkills, Alone, Items
  <1>2. /\ links'[On(r)] = Rewritten(r)
        /\ \A p \in Profiles : p # On(r) => links'[p] = links[p]
    BY <1>1 DEF CatInv, CatalogTypeOK, CommitSkills
  <1>3. added[r] \subseteq Skills /\ links[On(r)] \subseteq Link
    BY <1>1 DEF CatInv, CatalogTypeOK
  <1>4. Rewritten(r) \subseteq Link
    BY <1>3 DEF Rewritten, Link
  <1>5. links' \in [Profiles -> SUBSET Link]
    BY <1>1, <1>4 DEF CatInv, CatalogTypeOK, CommitSkills
  <1>6. ASSUME NEW k \in Rewritten(r), NEW l \in Rewritten(r), k.skill = l.skill PROVE k = l
    <2>1. \A m \in Rewritten(r) : \/ m \in links[On(r)] /\ m.skill \notin added[r]
                                  \/ m = [skill |-> m.skill, by |-> r] /\ m.skill \in added[r]
      BY <1>1 DEF CatInv, Alone, Rewritten
    <2> QED
      BY <2>1, <1>6, <1>1 DEF CatInv, CatalogTypeOK
  <1>7. \A p \in Profiles : \A k, l \in links'[p] : k.skill = l.skill => k = l
    BY <1>2, <1>6 DEF CatInv, CatalogTypeOK
  <1>8. ASSUME NEW q \in Requests \ {r} PROVE Spares(q)
    <2>1. CASE On(q) = On(r) /\ pc[q] \in Deleted
      <3>1. /\ pc[q] \notin Holding /\ gone[q] \cap gone[r] = {} /\ added[q] \cap added[r] = {}
        BY <2>1, <1>1 DEF CatInv, Apart
      <3>2. /\ gone[q] \subseteq links[On(r)]
            /\ \A l \in links[On(r)] : l.skill \in added[q] => l \in gone[q]
        BY <2>1, <1>1 DEF CatInv, Alone
      <3>3. gone[q] \subseteq Rewritten(r)
        BY <3>1, <3>2 DEF Rewritten
      <3>4. \A l \in Rewritten(r) : l.skill \in added[q] => l \in gone[q]
        BY <3>1, <3>2 DEF Rewritten
      <3> QED
        BY <3>1, <3>3, <3>4, <2>1, <1>2 DEF Spares
    <2>2. CASE On(q) # On(r) \/ pc[q] \notin Deleted
      BY <2>2, <1>2 DEF CatInv, Alone, Spares
    <2> QED
      BY <2>1, <2>2
  <1>9. payload'[r] \in Texts(On(r)) /\ DOMAIN payload' = Requests /\ born' = born \cup {On(r)}
    BY <1>1 DEF CatInv, CatalogTypeOK, On
  <1>10. \A p \in Profiles \ born' : links'[p] = {}
    BY <1>1, <1>2 DEF CatInv
  <1>11. columns' \in [Jobs -> [Columns -> 0 .. N]] /\ pc[r] # "committed"
    BY <1>1 DEF CatInv, CatalogTypeOK
  <1> QED
    BY <1>1, <1>5, <1>7, <1>8, <1>9, <1>10, <1>11, CommitKeeps

-----------------------------------------------------------------------------
LEMMA CatStep == CatInv /\ [CatalogNext]_catalog => CatInv'
  <1> SUFFICES ASSUME CatInv, [CatalogNext]_catalog PROVE CatInv'
    OBVIOUS
  <1>1. CASE CatalogNext
    <2> PICK r \in Requests :
          \/ \E i \in Items : Create(r, i) \/ \E want \in Wants(i) : Begin(r, i, want)
          \/ UpdateJob(r) \/ CommitJob(r)
          \/ SelectLinks(r) \/ DeleteLinks(r) \/ \E s \in Skills : InsertLink(r, s)
          \/ TouchProfile(r) \/ ReadProfile(r) \/ CommitSkills(r)
          \/ Fail(r)
      BY <1>1 DEF CatalogNext
    <2> QED
      BY CreateKeeps, BeginKeeps, UpdateJobKeeps, CommitJobKeeps, SelectLinksKeeps,
         DeleteLinksKeeps, InsertLinkKeeps, TouchProfileKeeps, ReadProfileKeeps,
         CommitSkillsKeeps, FailKeeps
  <1>2. CASE UNCHANGED catalog
    <2>1. \A r \in Requests : Alone(r)' = Alone(r)
      BY <1>2 DEF catalog, tables, writers, Alone, Rewritten, On
    <2>2. \A q, r \in Requests : Apart(q, r)' = Apart(q, r)
      BY <1>2 DEF catalog, tables, writers, Apart, On
    <2>3. CatalogTypeOK'
      BY <1>2 DEF CatInv, CatalogTypeOK, catalog, tables, writers, Texts
    <2>4. \A i \in Items : On(last[i])' = On(last[i])
      BY <1>2 DEF catalog, tables, writers, On
    <2> QED
      BY <2>1, <2>2, <2>3, <2>4, <1>2 DEF CatInv, catalog, tables, writers
  <1> QED
    BY <1>1, <1>2

\* A profile never lists a skill twice, and no insert of one request meets the rows of
\* another: the types of the catalog, the primary key of profile_skills among them
\* (profile_store.go:54-83).
THEOREM CatalogTyped == CatalogSpec => []CatalogTypeOK
  <1>1. CatInv => CatalogTypeOK
    BY DEF CatInv
  <1> QED
    BY CatInit, CatStep, <1>1, PTL DEF CatalogSpec

-----------------------------------------------------------------------------
\* The step that commits an event commits exactly what the event says.
Announces == \A r \in Requests : pc[r] # "committed" /\ pc'[r] = "committed" =>
               (payload[r] = Text(On(r)))'

LEMMA CommitAnnounces == CatInv /\ [CatalogNext]_catalog => Announces
  <1> SUFFICES ASSUME CatInv, [CatalogNext]_catalog,
                      NEW q \in Requests, pc[q] # "committed", pc'[q] = "committed"
               PROVE  (payload[q] = Text(On(q)))'
    BY DEF Announces
  <1> USE DEF Deleted, Holding, Open
  <1>0. \A r \in Requests, i \in Items : Commit(r, i) =>
          /\ On(r)' = i /\ \A x \in Requests \ {r} : pc'[x] = pc[x]
    BY DEF CatInv, CatalogTypeOK, Commit, End, Goto, On
  <1>1. ASSUME NEW r \in Requests, NEW i \in Items, Create(r, i) PROVE (payload[q] = Text(On(q)))'
    <2>1. q = r /\ On(q)' = i
      BY <1>1, <1>0 DEF Create
    <2>2. i \in Profiles \ Jobs => links'[i] = {}
      BY <1>1 DEF Create, CatInv
    <2>3. i \in Jobs => columns'[i] = [c \in Columns |-> r]
      BY <1>1 DEF Create, CatInv, CatalogTypeOK
    <2>4. payload'[q] = IF i \in Jobs THEN [c \in Columns |-> r] ELSE {}
      BY <1>1, <2>1 DEF Create, CatInv, CatalogTypeOK
    <2>5. i \in Jobs \/ i \in Profiles \ Jobs
      BY DEF Items
    <2> QED
      BY <2>1, <2>2, <2>3, <2>4, <2>5 DEF Text
  <1>2. ASSUME NEW r \in Requests, CommitJob(r) PROVE (payload[q] = Text(On(q)))'
    <2>1. q = r /\ On(q)' = On(r) /\ On(r) \in Jobs /\ payload' = payload
      BY <1>2, <1>0 DEF CommitJob, Items
    <2>2. columns'[On(r)] = payload[r]
      BY <1>2, <2>1 DEF CommitJob, CatInv, CatalogTypeOK
    <2> QED
      BY <2>1, <2>2 DEF Text
  <1>3. ASSUME NEW r \in Requests, CommitSkills(r) PROVE (payload[q] = Text(On(q)))'
    <2>1. q = r /\ On(q)' = On(r) /\ On(r) \in Profiles /\ payload' = payload
      BY <1>3, <1>0 DEF CommitSkills, Items
    <2>2. On(r) \notin Jobs
      BY <2>1, CatalogAssumption
    <2>3. links'[On(r)] = Rewritten(r)
      BY <1>3, <2>1 DEF CommitSkills, CatInv, CatalogTypeOK
    <2>4. payload[r] = {l.skill : l \in Rewritten(r)}
      BY <1>3 DEF CommitSkills, CatInv, Alone
    <2> QED
      BY <2>1, <2>2, <2>3, <2>4 DEF Text
  <1>4. ASSUME NEW r \in Requests,
               \/ \E i \in Items : \E want \in Wants(i) : Begin(r, i, want)
               \/ UpdateJob(r) \/ SelectLinks(r) \/ DeleteLinks(r)
               \/ \E s \in Skills : InsertLink(r, s)
               \/ TouchProfile(r) \/ ReadProfile(r) \/ Fail(r)
        PROVE  FALSE
    BY <1>4 DEF CatInv, CatalogTypeOK, Begin, UpdateJob, SelectLinks, DeleteLinks, InsertLink,
       TouchProfile, ReadProfile, Fail, End, Goto
  <1>5. CASE UNCHANGED catalog
    BY <1>5 DEF catalog, writers
  <1> QED
    BY <1>1, <1>2, <1>3, <1>4, <1>5 DEF CatalogNext

\* An event carries its item exactly as its transaction commits it, for any number of
\* requests that overlap in any way (job_handler.go and profile_handler.go).
THEOREM EventsTellTheTruth == CatalogSpec => PayloadCommitted
  <1>1. CatInv /\ [CatalogNext]_catalog => Announces
    BY CommitAnnounces
  <1> QED
    BY CatInit, CatStep, <1>1, PTL DEF CatalogSpec, PayloadCommitted, Announces

-----------------------------------------------------------------------------
(* Matching adds the publisher, the stream and the index, and writes no table. *)

\* Whatever is on its way to the index, or in it, is a committed event.
Known ==
  /\ marked \subseteq outbox /\ todo \subseteq outbox /\ done \subseteq outbox
  /\ queue \in Seq(outbox) /\ back \in Seq(outbox)
  /\ hand \in Seq(outbox) /\ Len(hand) <= Fetch
  /\ fresh \in BOOLEAN
  /\ up \in BOOLEAN /\ (hand # <<>> => up)
  /\ index \in [Items -> outbox \cup {0}] /\ posted \in outbox \cup {0}
  /\ \A i \in Items : index[i] # 0 => On(index[i]) = i
  /\ late \subseteq outbox /\ lost \subseteq outbox

MatchInv == CatInv /\ Known

LEMMA MatchInit == Init => MatchInv
  <1> SUFFICES ASSUME Init PROVE MatchInv
    OBVIOUS
  <1>1. CatInv
    BY CatInit DEF Init
  <1>2. <<>> \in Seq(outbox) /\ Len(<<>>) <= Fetch
    BY MatchingAssumption
  <1>3. Known
    BY <1>2 DEF Init, Known
  <1> QED
    BY <1>1, <1>3 DEF MatchInv

LEMMA WriteOrNot == Next => Write \/ UNCHANGED catalog
  BY DEF Next, Publish, Consume, Poll, SendOk, SendError, Mark, Abandon, FetchMessages, Upsert,
     Ack, Nak, Discard, Drop, Subscribe, Stop, LetGo, BatchBegin, BatchUpsert

\* A committed event stays what it is.
LEMMA EventsStay ==
  ASSUME CatInv, CatalogNext
  PROVE  /\ outbox \subseteq outbox'
         /\ \A r \in outbox : On(r)' = On(r)
  <1>1. \A r \in outbox : r \in Requests /\ pc[r] = "committed"
    BY DEF CatInv, CatalogTypeOK, Alone
  <1>2. PICK r \in Requests :
          \/ \E i \in Items : Create(r, i) \/ \E want \in Wants(i) : Begin(r, i, want)
          \/ UpdateJob(r) \/ CommitJob(r)
          \/ SelectLinks(r) \/ DeleteLinks(r) \/ \E s \in Skills : InsertLink(r, s)
          \/ TouchProfile(r) \/ ReadProfile(r) \/ CommitSkills(r)
          \/ Fail(r)
    BY DEF CatalogNext
  <1>3. /\ pc[r] # "committed" /\ outbox \subseteq outbox'
        /\ \/ arg' = arg
           \/ \E v : arg' = [arg EXCEPT ![r] = v]
    BY <1>2 DEF Create, Begin, UpdateJob, CommitJob, SelectLinks, DeleteLinks, InsertLink,
       TouchProfile, ReadProfile, CommitSkills, Fail, Commit, End, Beginning, tables, Open,
       Deleted, Holding
  <1> QED
    BY <1>1, <1>3 DEF CatInv, CatalogTypeOK, On

LEMMA SeqGrows ==
  ASSUME NEW S, NEW T, S \subseteq T, NEW s \in Seq(S)
  PROVE  s \in Seq(T)
  OBVIOUS

LEMMA EventsAreOnItems ==
  ASSUME CatInv
  PROVE  /\ \A r \in outbox : r \in Requests /\ pc[r] = "committed" /\ On(r) \in Items
         /\ 0 \notin outbox
  <1>1. \A r \in outbox : r \in Requests /\ pc[r] = "committed" /\ On(r) \in Items
    BY DEF CatInv, CatalogTypeOK, Alone
  <1>2. 0 \notin Requests
    BY CatalogAssumption DEF Requests
  <1> QED
    BY <1>1, <1>2

\* Overwriting an item's vector with the text of an event about it.
LEMMA IndexTakes ==
  ASSUME MatchInv, NEW r \in outbox, index' = [index EXCEPT ![On(r)] = r], UNCHANGED catalog
  PROVE  /\ index' \in [Items -> outbox \cup {0}]
         /\ \A i \in Items : index'[i] # 0 => On(index[i])' = i
  <1>1. On(r) \in Items /\ index \in [Items -> outbox \cup {0}]
    BY EventsAreOnItems DEF MatchInv, Known
  <1>2. \A q : On(q)' = arg[q].item
    BY DEF catalog, writers, On
  <1>3. arg' = arg
    BY DEF catalog, writers
  <1>4. index' \in [Items -> outbox \cup {0}]
    BY <1>1
  <1>5. ASSUME NEW i \in Items, index'[i] # 0 PROVE On(index[i])' = i
    <2>1. On(index[i])' = On(index'[i])
      BY <1>3 DEF On
    <2>2. CASE i = On(r)
      BY <2>1, <2>2, <1>1
    <2>3. CASE i # On(r)
      BY <2>1, <2>3, <1>1, <1>5 DEF MatchInv, Known
    <2> QED
      BY <2>2, <2>3
  <1> QED
    BY <1>4, <1>5

LEMMA WriteKeeps == MatchInv /\ Write => MatchInv'
  <1> SUFFICES ASSUME MatchInv, Write PROVE MatchInv'
    OBVIOUS
  <1>1. CatInv'
    BY CatStep DEF MatchInv, Write
  <1>2. outbox \subseteq outbox' /\ \A r \in outbox : On(r)' = On(r)
    BY EventsStay DEF MatchInv, Write
  <1>3. /\ marked' = marked /\ todo' = todo /\ done' = done /\ queue' = queue /\ back' = back
        /\ hand' = hand /\ fresh' = fresh /\ up' = up /\ index' = index /\ posted' = posted
        /\ late' = late /\ lost' = lost
    BY DEF Write, publisher, stream, consumer, history
  <1>4. queue' \in Seq(outbox') /\ back' \in Seq(outbox') /\ hand' \in Seq(outbox')
    BY <1>2, <1>3, SeqGrows DEF MatchInv, Known
  <1>5. \A i \in Items : index'[i] # 0 => On(index[i])' = i
    BY <1>2, <1>3 DEF MatchInv, Known
  <1>6. Known'
    BY <1>2, <1>3, <1>4, <1>5 DEF MatchInv, Known
  <1> QED
    BY <1>1, <1>6 DEF MatchInv

LEMMA CatalogStill ==
  ASSUME CatInv, UNCHANGED catalog
  PROVE  CatInv' /\ outbox' = outbox /\ arg' = arg
  BY CatStep DEF catalog, tables, writers

LEMMA PublishKeeps == MatchInv /\ Publish => MatchInv'
  <1> SUFFICES ASSUME MatchInv, Publish PROVE MatchInv'
    OBVIOUS
  <1>1. /\ UNCHANGED catalog
        /\ hand' = hand /\ fresh' = fresh /\ up' = up /\ index' = index /\ posted' = posted
    BY DEF Publish, Poll, SendOk, SendError, Mark, Abandon, consumer
  <1>2. CatInv' /\ outbox' = outbox /\ arg' = arg
    BY <1>1, CatalogStill DEF MatchInv
  <1>3. \A i \in Items : index'[i] # 0 => On(index[i])' = i
    BY <1>1, <1>2 DEF MatchInv, Known, On
  <1>4. \A r \in todo : Append(queue, r) \in Seq(outbox)
    BY AppendProperties DEF MatchInv, Known
  <1>5. queue' \in Seq(outbox) /\ back' \in Seq(outbox)
    BY <1>4 DEF MatchInv, Known, Publish, Poll, SendOk, SendError, Mark, Abandon, Store, First, stream
  <1>6. /\ marked' \subseteq outbox /\ todo' \subseteq outbox /\ done' \subseteq outbox
        /\ late' \subseteq outbox /\ lost' \subseteq outbox
    BY DEF MatchInv, Known, Publish, Poll, SendOk, SendError, Mark, Abandon, First, Faulty, history
  <1>7. Known'
    BY <1>1, <1>2, <1>3, <1>5, <1>6 DEF MatchInv, Known
  <1> QED
    BY <1>2, <1>7 DEF MatchInv

LEMMA FetchKeeps == MatchInv /\ FetchMessages => MatchInv'
  <1> SUFFICES ASSUME MatchInv, FetchMessages PROVE MatchInv'
    OBVIOUS
  <1>1. CatInv' /\ outbox' = outbox /\ arg' = arg
    BY CatalogStill DEF MatchInv, FetchMessages
  <1>2. PICK a \in 0 .. Len(back), b \in 0 .. Len(queue) :
          /\ a + b \in 1 .. Fetch
          /\ hand' = SubSeq(back, 1, a) \o SubSeq(queue, 1, b)
          /\ back' = SubSeq(back, a + 1, Len(back))
          /\ queue' = SubSeq(queue, b + 1, Len(queue))
    BY DEF FetchMessages
  <1>3. queue \in Seq(outbox) /\ back \in Seq(outbox)
    BY DEF MatchInv, Known
  <1>4. /\ Len(queue) \in Nat /\ \A k \in 1 .. Len(queue) : queue[k] \in outbox
        /\ Len(back) \in Nat /\ \A k \in 1 .. Len(back) : back[k] \in outbox
    BY <1>3, LenProperties, ElementOfSeq
  <1>5. a \in Nat /\ b \in Nat /\ a <= Len(back) /\ b <= Len(queue)
    BY <1>4
  <1>6. SubSeq(back, 1, a) \in Seq(outbox) /\ Len(SubSeq(back, 1, a)) = a
    BY <1>4, <1>5, SubSeqProperties
  <1>7. SubSeq(queue, 1, b) \in Seq(outbox) /\ Len(SubSeq(queue, 1, b)) = b
    BY <1>4, <1>5, SubSeqProperties
  <1>8. back' \in Seq(outbox) /\ queue' \in Seq(outbox)
    BY <1>2, <1>4, <1>5, SubSeqProperties
  <1>9. hand' \in Seq(outbox) /\ Len(hand') = a + b
    BY <1>2, <1>6, <1>7, ConcatProperties
  <1>10. Len(hand') <= Fetch
    BY <1>9, <1>2, <1>5, MatchingAssumption
  <1>11. Known'
    BY <1>1, <1>8, <1>9, <1>10 DEF MatchInv, Known, FetchMessages, publisher, history, On
  <1> QED
    BY <1>1, <1>11 DEF MatchInv

\* Messages are to be delivered again.
LEMMA BackKeeps ==
  ASSUME MatchInv, NEW ms \in Seq(outbox), Redelivered(ms)
  PROVE  /\ queue' = queue /\ back' \in Seq(outbox)
         /\ late' \subseteq outbox /\ lost' \subseteq outbox
  <1>1. back \in Seq(outbox) /\ late \subseteq outbox /\ lost \subseteq outbox
    BY DEF MatchInv, Known
  <1>2. back \o ms \in Seq(outbox)
    BY <1>1, ConcatProperties
  <1>3. Range(ms) \subseteq outbox
    BY RangeOfSeq
  <1> QED
    BY <1>1, <1>2, <1>3 DEF Redelivered, Faulty

\* What the consumer does with its first message.
LEMMA HandKeeps == MatchInv /\ (Upsert \/ Ack \/ Nak \/ Discard) => MatchInv'
  <1> SUFFICES ASSUME MatchInv, Upsert \/ Ack \/ Nak \/ Discard PROVE MatchInv'
    OBVIOUS
  <1>1. /\ UNCHANGED catalog /\ hand # <<>> /\ posted' = posted /\ up' = up
        /\ marked' = marked /\ todo' = todo /\ done' = done
    BY DEF Upsert, Ack, Nak, Discard, Acknowledged, publisher
  <1>2. CatInv' /\ outbox' = outbox /\ arg' = arg
    BY <1>1, CatalogStill DEF MatchInv
  <1>3. hand \in Seq(outbox) /\ back \in Seq(outbox) /\ Len(hand) \in Nat /\ Len(hand) <= Fetch
    BY LenProperties DEF MatchInv, Known
  <1>4. Head(hand) \in outbox /\ Tail(hand) \in Seq(outbox) /\ Len(Tail(hand)) = Len(hand) - 1
    BY <1>1, <1>3, HeadTailProperties
  <1>5. hand' \in Seq(outbox) /\ Len(hand') <= Fetch /\ fresh' \in BOOLEAN
    <2>2. hand' = hand \/ hand' = Tail(hand)
      BY DEF Upsert, Ack, Nak, Discard, Acknowledged
    <2>3. fresh' \in BOOLEAN
      BY DEF Upsert, Ack, Nak, Discard, Acknowledged
    <2>4. Len(Tail(hand)) <= Fetch
      BY <1>3, <1>4, MatchingAssumption
    <2>5. hand' \in Seq(outbox)
      BY <2>2, <1>3, <1>4
    <2>6. Len(hand') <= Fetch
      BY <2>2, <2>4, <1>3
    <2> QED
      BY <2>3, <2>5, <2>6
  <1>6. index' \in [Items -> outbox \cup {0}] /\ \A i \in Items : index'[i] # 0 => On(index[i])' = i
    <2>1. CASE index' = index
      BY <2>1, <1>2 DEF MatchInv, Known, On
    <2>2. CASE index' = [index EXCEPT ![On(Head(hand))] = Head(hand)]
      BY <2>2, <1>1, <1>4, IndexTakes
    <2> QED
      BY <2>1, <2>2 DEF Upsert, Ack, Nak, Discard, Overwritten
  <1>7. /\ queue' = queue /\ back' \in Seq(outbox)
        /\ late' \subseteq outbox /\ lost' \subseteq outbox
    <2>1. CASE UNCHANGED stream /\ UNCHANGED history
      BY <2>1 DEF MatchInv, Known, stream, history
    <2>2. CASE UNCHANGED stream /\ Faulty({}, {Head(hand)})
      BY <2>2, <1>4 DEF MatchInv, Known, stream, Faulty
    <2>3. CASE Redelivered(<<Head(hand)>>)
      <3>1. <<Head(hand)>> \in Seq(outbox)
        BY <1>4
      <3> QED
        BY <3>1, <2>3, BackKeeps
    <2> QED
      BY <2>1, <2>2, <2>3 DEF Upsert, Ack, Nak, Discard
  <1>8. Known'
    BY <1>1, <1>2, <1>5, <1>6, <1>7 DEF MatchInv, Known
  <1> QED
    BY <1>2, <1>8 DEF MatchInv

\* The consumer's task begins, and nothing of a batch is acknowledged any more.
LEMMA TaskKeeps == MatchInv /\ (Subscribe \/ Drop \/ Stop) => MatchInv'
  <1> SUFFICES ASSUME MatchInv, Subscribe \/ Drop \/ Stop PROVE MatchInv'
    OBVIOUS
  <1>1. /\ UNCHANGED catalog /\ posted' = posted /\ index' = index
        /\ marked' = marked /\ todo' = todo /\ done' = done
    BY DEF Subscribe, Drop, Stop, LetGo, publisher
  <1>2. CatInv' /\ outbox' = outbox /\ arg' = arg
    BY <1>1, CatalogStill DEF MatchInv
  <1>3. \A i \in Items : index'[i] # 0 => On(index[i])' = i
    BY <1>1, <1>2 DEF MatchInv, Known, On
  <1>4. CASE Subscribe
    <2>1. /\ queue' = queue /\ back' = back /\ hand' = hand /\ fresh' = fresh /\ up' = TRUE
          /\ late' = late /\ lost' = lost
      BY <1>4 DEF Subscribe, stream, history
    <2>2. Known'
      BY <1>1, <1>2, <1>3, <2>1 DEF MatchInv, Known
    <2> QED
      BY <1>2, <2>2 DEF MatchInv
  <1>5. CASE Drop \/ Stop
    <2>1. /\ hand' = <<>> /\ fresh' = FALSE /\ Redelivered(hand)
          /\ up' \in BOOLEAN
      BY <1>5 DEF MatchInv, Known, Drop, Stop, LetGo
    <2>2. <<>> \in Seq(outbox) /\ Len(<<>>) <= Fetch
      BY MatchingAssumption
    <2>3. hand \in Seq(outbox)
      BY DEF MatchInv, Known
    <2>4. /\ queue' = queue /\ back' \in Seq(outbox)
          /\ late' \subseteq outbox /\ lost' \subseteq outbox
      BY <2>1, <2>3, BackKeeps
    <2>5. Known'
      BY <1>1, <1>2, <1>3, <2>1, <2>2, <2>4 DEF MatchInv, Known
    <2> QED
      BY <1>2, <2>5 DEF MatchInv
  <1> QED
    BY <1>4, <1>5

LEMMA BatchKeeps == MatchInv /\ ((\E i \in Items : BatchBegin(i)) \/ BatchUpsert) => MatchInv'
  <1> SUFFICES ASSUME MatchInv, (\E i \in Items : BatchBegin(i)) \/ BatchUpsert PROVE MatchInv'
    OBVIOUS
  <1>1. UNCHANGED catalog /\ UNCHANGED <<publisher, stream, consumer>>
    BY DEF BatchBegin, BatchUpsert
  <1>2. CatInv' /\ outbox' = outbox /\ arg' = arg
    BY <1>1, CatalogStill DEF MatchInv
  <1>3. posted' \in outbox \cup {0}
    BY DEF MatchInv, CatInv, BatchBegin, BatchUpsert
  <1>4. index' \in [Items -> outbox \cup {0}] /\ \A i \in Items : index'[i] # 0 => On(index[i])' = i
    <2>1. CASE index' = index
      BY <2>1, <1>2 DEF MatchInv, Known, On
    <2>2. CASE posted \in outbox /\ index' = [index EXCEPT ![On(posted)] = posted]
      BY <2>2, <1>1, IndexTakes
    <2> QED
      BY <2>1, <2>2 DEF BatchBegin, BatchUpsert, MatchInv, Known
  <1>5. late' \subseteq outbox /\ lost' \subseteq outbox
    BY DEF BatchBegin, BatchUpsert, Faulty, history, MatchInv, Known
  <1>6. Known'
    BY <1>1, <1>2, <1>3, <1>4, <1>5 DEF MatchInv, Known, publisher, stream, consumer
  <1> QED
    BY <1>2, <1>6 DEF MatchInv

LEMMA MatchStep == MatchInv /\ [Next]_vars => MatchInv'
  <1> SUFFICES ASSUME MatchInv, [Next]_vars PROVE MatchInv'
    OBVIOUS
  <1>1. CASE UNCHANGED vars
    <2>1. CatInv' /\ outbox' = outbox /\ arg' = arg
      BY <1>1, CatalogStill DEF MatchInv, vars
    <2>2. Known'
      BY <2>1, <1>1 DEF MatchInv, Known, vars, publisher, stream, consumer, history, On
    <2> QED
      BY <2>1, <2>2 DEF MatchInv
  <1>2. CASE Next
    BY <1>2, WriteKeeps, PublishKeeps, FetchKeeps, HandKeeps, TaskKeeps, BatchKeeps DEF Next, Consume
  <1> QED
    BY <1>1, <1>2

\* The tables, the stream, the consumer's hand and the index hold what they are typed to
\* hold, and the consumer never has more than one fetch in hand (consumer.py:31-64).
THEOREM MatchTyped == Spec => []TypeOK
  <1>1. MatchInv => TypeOK
    <2> SUFFICES ASSUME MatchInv PROVE TypeOK
      OBVIOUS
    <2>1. outbox \subseteq Requests /\ Requests \subseteq 0 .. N /\ 0 \in 0 .. N
      BY CatalogAssumption DEF MatchInv, CatInv, CatalogTypeOK, Requests
    <2>2. queue \in Seq(Requests) /\ back \in Seq(Requests) /\ hand \in Seq(Requests)
      BY <2>1, SeqGrows DEF MatchInv, Known
    <2> QED
      BY <2>1, <2>2 DEF MatchInv, CatInv, Known, TypeOK
  <1> QED
    BY MatchInit, MatchStep, <1>1, PTL DEF Spec

\* Whatever fails, is lost or is delivered again between the outbox and the index, an
\* item's vector comes from a committed event about that item (consumer.py, main.py).
THEOREM IndexSound == Spec => []IndexedWasCommitted
  <1>1. MatchInv => IndexedWasCommitted
    BY EventsAreOnItems DEF MatchInv, Known, IndexedWasCommitted
  <1> QED
    BY MatchInit, MatchStep, <1>1, PTL DEF Spec

\* The pipeline does not disturb the catalog: with it running too, every event carries
\* its item as its transaction commits it.
THEOREM EventsStayTrue == Spec => PayloadCommitted
  <1>1. Init => CatalogInit
    BY DEF Init
  <1>2. [Next]_vars => [CatalogNext]_catalog
    BY WriteOrNot DEF Write, vars
  <1>3. CatalogSpec => PayloadCommitted
    BY EventsTellTheTruth
  <1> QED
    BY <1>1, <1>2, <1>3, PTL DEF Spec, CatalogSpec
=============================================================================
