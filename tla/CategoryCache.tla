---------------------------- MODULE CategoryCache ----------------------------
(***************************************************************************)
(* The list of job categories: readers fill a cache entry from the table   *)
(* when they find none, administrators change the table and delete the     *)
(* entry, and the seeding command changes the table only.                  *)
(***************************************************************************)
EXTENDS Naturals

CONSTANTS
  Readers,     \* requests for the list
  Editors,     \* requests of the administration site
  CacheLife,   \* the entry's timeout of an hour, in ticks
  MaxEdits     \* bound: committed changes of the table

ASSUME CategoryAssumption == CacheLife \in Nat /\ MaxEdits \in Nat

VARIABLES
  version,     \* the committed table, as the number of changes it has seen
  entry,       \* the cache entry
  reading,     \* per reader, where it is and what it queried
  editing      \* per editor, where it is: "written" and "evicted" inside the
               \* form's transaction, "deleted" once a bulk deletion is
               \* committed and its eviction is to come

cacheVars == <<version, entry, reading, editing>>

NoEntry == [cached |-> FALSE, of |-> 0, left |-> 0, doubted |-> FALSE]
NotReading == [at |-> "idle", of |-> 0, raced |-> FALSE]

CacheInit ==
  /\ version = 0
  /\ entry = NoEntry
  /\ reading = [r \in Readers |-> NotReading]
  /\ editing = [e \in Editors |-> "idle"]

EditUnderWay == \E e \in Editors : editing[e] # "idle"

-----------------------------------------------------------------------------
(* JobCategoryViewSet.list; a reader that finds an entry answers it. *)

Miss(r) ==
  /\ reading[r].at = "idle" /\ ~entry.cached
  /\ reading' = [reading EXCEPT ![r].at = "query"]
  /\ UNCHANGED <<version, entry, editing>>

Query(r) ==
  /\ reading[r].at = "query"
  /\ reading' = [reading EXCEPT ![r] =
                  [at |-> "store", of |-> version, raced |-> EditUnderWay]]
  /\ UNCHANGED <<version, entry, editing>>

\* The entry is doubted if an edit ran somewhere between query and store.
Store(r) ==
  /\ reading[r].at = "store"
  /\ entry' = [cached |-> TRUE, of |-> reading[r].of, left |-> CacheLife,
               doubted |-> \/ reading[r].raced \/ EditUnderWay
                           \/ reading[r].of # version]
  /\ reading' = [reading EXCEPT ![r] = NotReading]
  /\ UNCHANGED <<version, editing>>

DieReading(r) ==
  /\ reading[r].at # "idle"
  /\ reading' = [reading EXCEPT ![r] = NotReading]
  /\ UNCHANGED <<version, entry, editing>>

-----------------------------------------------------------------------------
(* JobCategoryAdmin; the site wraps a form in a transaction, not an action. *)

Reach(e, stage) == editing' = [editing EXCEPT ![e] = stage]
Changes == version < MaxEdits /\ version' = version + 1

\* save_model and delete_model
Write(e) ==
  /\ editing[e] = "idle" /\ version < MaxEdits
  /\ Reach(e, "written")
  /\ UNCHANGED <<version, entry, reading>>

\* Mutant of EvictWritten: save_model without its cache.delete.
WriteOnly(e) ==
  /\ editing[e] = "written"
  /\ Reach(e, "evicted")
  /\ UNCHANGED <<version, entry, reading>>

EvictWritten(e) ==
  /\ editing[e] = "written"
  /\ entry' = NoEntry
  /\ Reach(e, "evicted")
  /\ UNCHANGED <<version, reading>>

CommitForm(e) ==
  /\ editing[e] = "evicted"
  /\ Changes
  /\ Reach(e, "idle")
  /\ UNCHANGED <<entry, reading>>

\* delete_queryset commits by itself and evicts afterwards.
DeleteQueryset(e) ==
  /\ editing[e] = "idle"
  /\ Changes
  /\ Reach(e, "deleted")
  /\ UNCHANGED <<entry, reading>>

EvictDeleted(e) ==
  /\ editing[e] = "deleted"
  /\ entry' = NoEntry
  /\ Reach(e, "idle")
  /\ UNCHANGED <<version, reading>>

\* The request dies, or Redis refuses it: a form is rolled back, a bulk
\* deletion stands and leaves the entry.
DieEditing(e) ==
  /\ editing[e] # "idle"
  /\ entry' = IF editing[e] = "deleted" THEN [entry EXCEPT !.doubted = TRUE]
              ELSE entry
  /\ Reach(e, "idle")
  /\ UNCHANGED <<version, reading>>

\* seed_data creates or deletes categories and evicts nothing.
Seed ==
  /\ Changes
  /\ entry' = [entry EXCEPT !.doubted = TRUE]
  /\ UNCHANGED <<reading, editing>>

\* Mutant of Tick: an entry stored without a timeout.
TickWithoutEnd ==
  /\ entry.cached
  /\ entry' = [entry EXCEPT !.left = IF @ = 0 THEN 0 ELSE @ - 1]
  /\ UNCHANGED <<version, reading, editing>>

\* An hour's end deletes the entry.
Tick ==
  /\ entry.cached
  /\ entry' = IF entry.left = 0 THEN NoEntry ELSE [entry EXCEPT !.left = @ - 1]
  /\ UNCHANGED <<version, reading, editing>>

-----------------------------------------------------------------------------

ReaderStep(r) == Query(r) \/ Store(r)
EditorStep(e) == EvictWritten(e) \/ CommitForm(e) \/ EvictDeleted(e)

CacheNext ==
  \/ \E r \in Readers : Miss(r) \/ ReaderStep(r) \/ DieReading(r)
  \/ \E e \in Editors :
       Write(e) \/ DeleteQueryset(e) \/ EditorStep(e) \/ DieEditing(e)
  \/ Seed \/ Tick

\* Requests run on and the entry's time passes; nobody has to edit or to read.
CacheFairness ==
  /\ \A r \in Readers : WF_cacheVars(ReaderStep(r))
  /\ \A e \in Editors : WF_cacheVars(EditorStep(e))
  /\ WF_cacheVars(Tick)

CacheSpec == CacheInit /\ [][CacheNext]_cacheVars /\ CacheFairness

-----------------------------------------------------------------------------

Stale == entry.cached /\ entry.of # version

(***************************************************************************)
(* An administrator's save takes effect on readers: while no edit is under *)
(* way, an entry is older than the table only if the reader that stored it *)
(* overlapped an edit, or a change was made that evicted nothing.          *)
(***************************************************************************)
StaleOnlyOverlapped == Stale /\ ~EditUnderWay => entry.doubted

\* "Cache categories" for "1 hour" (views.py:55): whatever readers raced with
\* editors, the last change of the table is shown in the end and from then on.
EditShows == <>[]~Stale
=============================================================================
