---------------------------- MODULE JobDiscovery ----------------------------
(***************************************************************************)
(* A worker walks through the pages of GET /jobs/ while employers post     *)
(* jobs and jobs are accepted or cancelled.  Each page is a request of its *)
(* own: it counts the matching jobs, then fetches a slice of them, or, for *)
(* a search around a place, sorts one fetched list in memory.              *)
(***************************************************************************)
EXTENDS Naturals, SequencesExt

CONSTANTS
  Jobs,        \* numbers of jobs, in the order of their created_at
  Price,       \* of a job
  Distance,    \* of a job from the worker, rounded to 10 metres
  Filters,     \* what a category, a price range and a radius let through:
               \* sets of jobs
  PageSize

ASSUME DiscoveryAssumption ==
  /\ Jobs \subseteq Nat
  /\ Price \in [Jobs -> Nat] /\ Distance \in [Jobs -> Nat]
  /\ Filters \subseteq SUBSET Jobs
  /\ PageSize \in Nat \ {0}

VARIABLES
  posted,      \* the jobs that were committed
  gone,        \* those that are no longer CREATED
  walk         \* the worker's walk

discoveryVars == <<posted, gone, walk>>

Sorts == {"-created_at", "created_at", "-price", "price", "distance"}

\* JobFilterSerializer: a sort by distance needs a place.
Queries ==
  {q \in [near : BOOLEAN, sort_by : Sorts, filter : Filters] :
     q.sort_by = "distance" => q.near}

NoQuery == [near |-> FALSE, sort_by |-> "-created_at", filter |-> {}]

\* "asked" and "counted" are inside a request, "paged" is between two.
NoWalk ==
  [at |-> "idle", query |-> NoQuery, page |-> 1, count |-> 0,
   seen |-> {}, from |-> {}, upset |-> 0]

DiscoveryInit == posted = {} /\ gone = {} /\ walk = NoWalk

-----------------------------------------------------------------------------
(* get_available_jobs *)

Listed(q) == (posted \ gone) \cap q.filter

\* A place puts the price aside and turns the order of creation round.
Precedes(q, i, j) ==
  CASE q.near /\ q.sort_by = "distance" ->
         Distance[i] < Distance[j] \/ (Distance[i] = Distance[j] /\ i > j)
    [] q.near /\ q.sort_by \in {"-created_at", "-price"} -> i < j
    [] q.near /\ q.sort_by \in {"created_at", "price"} -> i > j
    [] ~q.near /\ q.sort_by = "-created_at" -> i > j
    [] ~q.near /\ q.sort_by = "created_at" -> i < j
    [] ~q.near /\ q.sort_by = "-price" -> Price[i] > Price[j]
    [] ~q.near /\ q.sort_by = "price" -> Price[i] < Price[j]

\* Mutant of Ordered: rows in whatever order the database finds them.
AnyOrder(q) == SetToSeqs(Listed(q))

\* Jobs of one price come in any order, in another one for the next page.
Ordered(q) ==
  {s \in SetToSeqs(Listed(q)) :
     \A a, b \in DOMAIN s : a < b => ~Precedes(q, s[b], s[a])}

-----------------------------------------------------------------------------
(* The paginator *)

Ask(q) ==
  /\ walk.at = "idle"
  /\ walk' = [NoWalk EXCEPT !.at = "asked", !.query = q, !.from = Listed(q)]
  /\ UNCHANGED <<posted, gone>>

NextPage ==
  /\ walk.at = "paged"
  /\ walk' = [walk EXCEPT !.at = "asked", !.page = @ + 1]
  /\ UNCHANGED <<posted, gone>>

NumPages(count) == IF count = 0 THEN 1 ELSE (count + PageSize - 1) \div PageSize

\* The slice ends where the count ended; the walk ends with the last page.
Shown(s, page, count) ==
  LET end == Min({page * PageSize, count, Len(s)})
  IN ToSet(SubSeq(s, (page - 1) * PageSize + 1, end))

Show(s, count) ==
  walk' = [walk EXCEPT
             !.at = IF walk.page < NumPages(count) THEN "paged" ELSE "done",
             !.count = 0,
             !.seen = @ \cup Shown(s, walk.page, count)]

\* A page past the last one is answered 404.
Count ==
  /\ walk.at = "asked" /\ ~walk.query.near
  /\ LET count == Cardinality(Listed(walk.query))
     IN walk' = IF walk.page > NumPages(count) THEN [walk EXCEPT !.at = "done"]
                ELSE [walk EXCEPT !.at = "counted", !.count = count]
  /\ UNCHANGED <<posted, gone>>

Slice ==
  /\ walk.at = "counted"
  /\ \E s \in Ordered(walk.query) : Show(s, walk.count)
  /\ UNCHANGED <<posted, gone>>

\* One query serves the count and the slice.
PageOfList ==
  /\ walk.at = "asked" /\ walk.query.near
  /\ \E s \in Ordered(walk.query) :
       IF walk.page > NumPages(Len(s)) THEN walk' = [walk EXCEPT !.at = "done"]
       ELSE Show(s, Len(s))
  /\ UNCHANGED <<posted, gone>>

Leave ==
  /\ walk.at = "done"
  /\ walk' = NoWalk
  /\ UNCHANGED <<posted, gone>>

-----------------------------------------------------------------------------
(* The jobs, as the list sees them.  walk.upset counts what may cost the   *)
(* walk a job: a listed job that leaves, a job posted inside a request.    *)

Walking == walk.at \in {"asked", "counted", "paged"}

\* A job's created_at is taken before its transaction commits, so that jobs
\* are committed in any order.
Post(j) ==
  /\ j \in Jobs \ posted
  /\ posted' = posted \cup {j}
  /\ walk' = [walk EXCEPT !.upset =
               @ + (IF walk.at = "counted" /\ j \in walk.query.filter
                    THEN 1 ELSE 0)]
  /\ UNCHANGED gone

\* accept_job and cancel_job
Unlist(j) ==
  /\ j \in posted \ gone
  /\ gone' = gone \cup {j}
  /\ walk' = [walk EXCEPT !.upset =
               @ + (IF Walking /\ j \in walk.query.filter THEN 1 ELSE 0)]
  /\ UNCHANGED posted

DiscoveryNext ==
  \/ \E q \in Queries : Ask(q)
  \/ NextPage \/ Count \/ Slice \/ PageOfList \/ Leave
  \/ \E j \in Jobs : Post(j) \/ Unlist(j)

DiscoverySpec == DiscoveryInit /\ [][DiscoveryNext]_discoveryVars

-----------------------------------------------------------------------------

ByTies(q) ==
  /\ ~q.near /\ q.sort_by \in {"price", "-price"}
  /\ \E i, j \in posted \cap q.filter : i # j /\ Price[i] = Price[j]

(***************************************************************************)
(* What pages lose: a worker who followed every "next" has seen each job   *)
(* that was listed from the first request to the last, but for at most one *)
(* per listed job that left meanwhile and per job posted inside a request. *)
(* An order by price is no such order where two jobs cost the same.        *)
(***************************************************************************)
PagesMissOnlyExplained ==
  walk.at = "done" /\ ~ByTies(walk.query) =>
    Cardinality((walk.from \ gone) \ walk.seen) <= walk.upset
=============================================================================
