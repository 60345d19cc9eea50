------------------------------- MODULE Catalog ------------------------------
(***************************************************************************)
(* The write side of jobs-api: the handlers that create and update a job   *)
(* or a profile, each one READ COMMITTED transaction that also inserts an  *)
(* outbox row with a snapshot of what it wrote.  A job is one row, updated *)
(* by UPDATE ... RETURNING.  A profile's skills are rows of profile_skills,*)
(* deleted and inserted again before the profile's own row is locked.      *)
(* Requests are numbered in the order their transactions begin, which is   *)
(* the order of created_at; a request writes one event, named by it.       *)
(***************************************************************************)
EXTENDS Integers, FiniteSets

CONSTANTS N,         \* requests
          Jobs, Profiles,
          Columns,   \* what a job's embedding is computed from: title, description
          Skills,
          None

Requests == 1 .. N
Items    == Jobs \cup Profiles

ASSUME CatalogAssumption ==
  /\ N \in Nat
  /\ Jobs \cap Profiles = {}
  /\ None \notin Items

VARIABLES
  columns,  \* jobs: who wrote each column last
  links,    \* profile_skills: the rows of a profile, each with the request that inserted it
  outbox,   \* committed outbox rows
  pc,       \* where each request is
  arg,      \* what it is about: [item, want], want the columns or the skills it gives
  gone,     \* the rows its DELETE has selected, then deleted
  added,    \* the skills it has inserted
  payload,  \* the snapshot its event carries
  born,     \* the items whose creation is committed
  last      \* history: the request that committed last on an item

tables  == <<columns, links, outbox, born, last>>
writers == <<pc, arg, gone, added, payload>>
catalog == <<tables, writers>>

Link == [skill : Skills, by : Requests]

\* What the embedding of an item would be computed from now.
Text(i) == IF i \in Jobs THEN columns[i] ELSE {l.skill : l \in links[i]}
Texts(i) == IF i \in Jobs THEN [Columns -> 0 .. N] ELSE SUBSET Skills

Holding == {"touched", "read"}                \* has the row of the job or profile locked
Deleted == {"inserting"} \cup Holding         \* has deleted rows of profile_skills
Open    == {"begun", "deleting"} \cup Deleted

CatalogTypeOK ==
  /\ columns \in [Jobs -> [Columns -> 0 .. N]]
  /\ links \in [Profiles -> SUBSET Link]
  \* PRIMARY KEY (profile_id, skill_id)
  /\ \A p \in Profiles : \A k, l \in links[p] : k.skill = l.skill => k = l
  /\ outbox \subseteq Requests
  /\ pc \in [Requests -> {"idle", "committed", "failed"} \cup Open]
  /\ arg \in [Requests -> [item : Items \cup {None}, want : SUBSET (Columns \cup Skills)]]
  /\ DOMAIN payload = Requests
  /\ \A r \in Requests :
       pc[r] \in {"read", "committed"} => payload[r] \in Texts(arg[r].item)
  /\ gone \in [Requests -> SUBSET Link] /\ added \in [Requests -> SUBSET Skills]
  /\ born \subseteq Items
  /\ last \in [Items -> 0 .. N]

CatalogInit ==
  /\ columns = [j \in Jobs |-> [c \in Columns |-> 0]]
  /\ links = [p \in Profiles |-> {}]
  /\ outbox = {} /\ born = {}
  /\ pc = [r \in Requests |-> "idle"]
  /\ arg = [r \in Requests |-> [item |-> None, want |-> {}]]
  /\ gone = [r \in Requests |-> {}] /\ added = [r \in Requests |-> {}]
  /\ payload = [r \in Requests |-> {}]
  /\ last = [i \in Items |-> 0]

-----------------------------------------------------------------------------
Goto(r, place) == pc' = [pc EXCEPT ![r] = place]
On(r) == arg[r].item

\* The others with a transaction on the same item, at one of the given places.
Others(r, places) == {q \in Requests \ {r} : On(q) = On(r) /\ pc[q] \in places}

\* Requests are numbered as they begin.
Beginning(r) == pc[r] = "idle" /\ \A q \in Requests : q < r => pc[q] # "idle"

\* The transaction ends, and what was pending with it.
End(r, place, i) ==
  /\ Goto(r, place)
  /\ arg' = [arg EXCEPT ![r] = [item |-> i, want |-> {}]]
  /\ gone' = [gone EXCEPT ![r] = {}] /\ added' = [added EXCEPT ![r] = {}]

\* The row and its event are committed together.
Commit(r, i) ==
  /\ End(r, "committed", i)
  /\ outbox' = outbox \cup {r}
  /\ last' = [last EXCEPT ![i] = r]

\* POST: nobody knows the id before the commit, so the transaction is one step.  A new
\* job's columns are its creator's; a new profile has no skills.
Create(r, i) ==
  /\ Beginning(r)
  /\ i \notin born
  /\ born' = born \cup {i}
  /\ columns' = IF i \in Jobs THEN [columns EXCEPT ![i] = [c \in Columns |-> r]] ELSE columns
  /\ payload' = [payload EXCEPT ![r] = IF i \in Jobs THEN [c \in Columns |-> r] ELSE {}]
  /\ Commit(r, i)
  /\ UNCHANGED links

\* PUT: the transaction begins.  UpdateSkills reads the profile first; ids that do not
\* exist are answered 404 and change nothing.
Begin(r, i, want) ==
  /\ Beginning(r)
  /\ i \in born
  /\ Goto(r, "begun")
  /\ arg' = [arg EXCEPT ![r] = [item |-> i, want |-> want]]
  /\ UNCHANGED <<tables, gone, added, payload>>

-----------------------------------------------------------------------------
(* JobHandler.Update. *)

\* UPDATE ... COALESCE ... RETURNING: the row is locked, and its latest version gives
\* the columns the request leaves out.
UpdateJob(r) ==
  /\ pc[r] = "begun" /\ On(r) \in Jobs
  /\ Others(r, Holding) = {}
  /\ payload' = [payload EXCEPT ![r] =
                   [c \in Columns |-> IF c \in arg[r].want THEN r ELSE columns[On(r)][c]]]
  /\ Goto(r, "read")
  /\ UNCHANGED <<tables, arg, gone, added>>

CommitJob(r) ==
  /\ pc[r] = "read" /\ On(r) \in Jobs
  /\ columns' = [columns EXCEPT ![On(r)] = payload[r]]
  /\ Commit(r, On(r))
  /\ UNCHANGED <<links, born, payload>>

-----------------------------------------------------------------------------
(* ProfileHandler.UpdateSkills. *)

\* DELETE FROM profile_skills: the statement's snapshot.
SelectLinks(r) ==
  /\ pc[r] = "begun" /\ On(r) \in Profiles
  /\ gone' = [gone EXCEPT ![r] = links[On(r)]]
  /\ Goto(r, "deleting")
  /\ UNCHANGED <<tables, arg, added, payload>>

\* It waits for rows another transaction has deleted, and then finds them gone.  Rows
\* committed since the snapshot are not seen.
DeleteLinks(r) ==
  LET found == gone[r] \cap links[On(r)] IN
  /\ pc[r] = "deleting"
  /\ \A q \in Others(r, Deleted) : gone[q] \cap found = {}
  /\ gone' = [gone EXCEPT ![r] = found]
  /\ Goto(r, "inserting")
  /\ UNCHANGED <<tables, arg, added, payload>>

\* Mutant: no primary key.
FreeWithoutKey(r, s) == s \notin added[r]

\* The primary key: an INSERT waits while another transaction has inserted the same row,
\* or is deleting it, and errs (Fail) when there is one in the end.
Free(r, s) ==
  /\ s \notin added[r]
  /\ \A l \in links[On(r)] : l.skill = s => l \in gone[r]
  /\ \A q \in Others(r, Deleted) : s \notin added[q]

InsertLink(r, s) ==
  /\ pc[r] = "inserting"
  /\ s \in arg[r].want
  /\ Free(r, s)
  /\ added' = [added EXCEPT ![r] = @ \cup {s}]
  /\ UNCHANGED <<tables, pc, arg, gone, payload>>

\* Mutant: the UPDATE of updated_at, and with it the row lock, left out.
RowFreeAlways(r) == TRUE

RowFree(r) == Others(r, Holding) = {}

\* UPDATE profiles SET updated_at: only now the profile's row is locked.
TouchProfile(r) ==
  /\ pc[r] = "inserting"
  /\ added[r] = arg[r].want
  /\ RowFree(r)
  /\ Goto(r, "touched")
  /\ UNCHANGED <<tables, arg, gone, added, payload>>

Rewritten(r) == (links[On(r)] \ gone[r]) \cup {[skill |-> s, by |-> r] : s \in added[r]}

\* GetByID again, for the event: what is committed by now, with its own changes.
ReadProfile(r) ==
  /\ pc[r] = "touched"
  /\ payload' = [payload EXCEPT ![r] = {l.skill : l \in Rewritten(r)}]
  /\ Goto(r, "read")
  /\ UNCHANGED <<tables, arg, gone, added>>

CommitSkills(r) ==
  /\ pc[r] = "read" /\ On(r) \in Profiles
  /\ links' = [links EXCEPT ![On(r)] = Rewritten(r)]
  /\ Commit(r, On(r))
  /\ UNCHANGED <<columns, born, payload>>

-----------------------------------------------------------------------------
\* Mutant: the event is inserted outside the transaction (pool for tx).
FailAnnounced(r) ==
  /\ pc[r] \in Open
  /\ End(r, "failed", On(r))
  /\ outbox' = IF pc[r] = "read" THEN outbox \cup {r} ELSE outbox
  /\ UNCHANGED <<columns, links, born, last, payload>>

\* A statement errs (a duplicate or unknown skill, a deadlock's victim), the client goes
\* away, or the process dies: the transaction is rolled back.
Fail(r) ==
  /\ pc[r] \in Open
  /\ End(r, "failed", On(r))
  /\ UNCHANGED <<tables, payload>>

Wants(i) == SUBSET IF i \in Jobs THEN Columns ELSE Skills

CatalogNext ==
  \E r \in Requests :
    \/ \E i \in Items : Create(r, i) \/ \E want \in Wants(i) : Begin(r, i, want)
    \/ UpdateJob(r) \/ CommitJob(r)
    \/ SelectLinks(r) \/ DeleteLinks(r) \/ \E s \in Skills : InsertLink(r, s)
    \/ TouchProfile(r) \/ ReadProfile(r) \/ CommitSkills(r)
    \/ Fail(r)

CatalogSpec == CatalogInit /\ [][CatalogNext]_catalog

-----------------------------------------------------------------------------
\* An event carries its item exactly as its transaction commits it, though the skills
\* are written before the profile is locked and two requests may merge: the row lock
\* taken at the end (profile_store.go:77) keeps every other commit out from the moment
\* the profile is read for the event (profile_handler.go:104).
PayloadCommitted ==
  [][\A r \in Requests : pc[r] # "committed" /\ pc'[r] = "committed" =>
       (payload[r] = Text(On(r)))']_catalog
=============================================================================
