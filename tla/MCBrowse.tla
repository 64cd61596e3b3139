------------------------------ MODULE MCBrowse ------------------------------
(***************************************************************************)
(* Instances of CategoryCache and JobDiscovery for TLC.  The two share no  *)
(* state, so a behaviour that takes only one of them reaches every state   *)
(* of it.                                                                  *)
(***************************************************************************)
EXTENDS CategoryCache, JobDiscovery

CONSTANTS r1, r2, e1, e2

TwoReaders == {r1, r2}
TwoEditors == {e1, e2}

FourJobs == 1 .. 4
\* Jobs 2 and 3 cost the same, jobs 1 and 4 are equally far.
Prices == <<3, 2, 2, 1>>
Distances == <<1, 2, 0, 1>>
SomeFilters == {FourJobs, {1, 2, 4}}

Closed == [r \in Readers |-> NotReading]
Unedited == [e \in Editors |-> "idle"]

CategoriesStep ==
  /\ posted = {} /\ walk = NoWalk
  /\ CacheNext
  /\ UNCHANGED discoveryVars

JobsStep ==
  /\ version = 0 /\ ~entry.cached /\ reading = Closed /\ editing = Unedited
  /\ DiscoveryNext
  /\ UNCHANGED cacheVars

BrowseInit == CacheInit /\ DiscoveryInit

Spec ==
  /\ BrowseInit
  /\ [][CategoriesStep \/ JobsStep]_<<cacheVars, discoveryVars>>
  /\ CacheFairness
=============================================================================
