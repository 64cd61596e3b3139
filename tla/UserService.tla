---------------------------- MODULE UserService ----------------------------
(***************************************************************************)
(* The rows of accounts_users as requests change them: ratings after a     *)
(* completed job, the owner's profile, an administrator's form or block.   *)
(* Requests work on the copy of a row they read when they began and save   *)
(* it without a lock, some of them with every column it has.               *)
(***************************************************************************)
EXTENDS Rating, Totals

CONSTANTS
  Parties,      \* the users
  Completed,    \* the completed jobs
  EmployerOf, WorkerOf,  \* the two parties of each of them
  Ratings,      \* ratings a request may give, 1.0 to 5.0 in tenths
  UuidJobIds,   \* whether jobs have the UUIDs that RatingSerializer asks for
  Threads,      \* requests served at a time
  MaxRatings    \* bound: ratings answered before the last request to rate

ASSUME UserAssumption ==
  /\ EmployerOf \in [Completed -> Parties]
  /\ WorkerOf \in [Completed -> Parties]
  /\ Ratings \subseteq 100 .. 500
  /\ UuidJobIds \in BOOLEAN
  /\ MaxRatings \in Nat

VARIABLES
  user,     \* the rows
  given,    \* per user, the ratings answered with success
  stale,    \* users whose row was saved from an outdated copy
  saving    \* per thread, the request it serves

userVars == <<user, given, stale, saving>>

Row ==
  [rating : 0 .. 500, rating_count : Nat, is_profile_complete : BOOLEAN,
   is_active : BOOLEAN, is_blocked : BOOLEAN]

NewRow ==
  [rating |-> 0, rating_count |-> 0, is_profile_complete |-> FALSE,
   is_active |-> TRUE, is_blocked |-> FALSE]

\* How many ratings were given, their sum, the lowest and the highest.
Given == [count : Nat, total : Nat, low : 100 .. 500, high : 100 .. 500]

NoneGiven == [count |-> 0, total |-> 0, low |-> 500, high |-> 100]

With(g, rating) ==
  [count |-> g.count + 1, total |-> g.total + rating,
   low |-> IF rating < g.low THEN rating ELSE g.low,
   high |-> IF rating > g.high THEN rating ELSE g.high]

\* What a request carries is chosen when it is used, at its save.
Saving ==
  [op : {"none"}] \cup
  [op : {"rate", "profile", "form"}, target : Parties, copy : Row]

Nothing == [op |-> "none"]

UserTypeOK ==
  /\ user \in [Parties -> Row]
  /\ given \in [Parties -> Given]
  /\ stale \subseteq Parties
  /\ saving \in [Threads -> Saving]

UserInit ==
  /\ user = [u \in Parties |-> NewRow]
  /\ given = [u \in Parties |-> NoneGiven]
  /\ stale = {}
  /\ saving = [t \in Threads |-> Nothing]

\* IsAuthenticated and IsActiveUser.
MayCall(u) == user[u].is_active /\ ~user[u].is_blocked

\* The request of thread t saves the row of u, maybe not as it now is.
Saves(t, u) ==
  stale' = IF saving[t].copy = user[u] THEN stale ELSE stale \cup {u}

-----------------------------------------------------------------------------
(* Rating *)

\* Whoever was a party to the job may rate the other, as often as they like.
ReadTarget(t, by, u, j) ==
  /\ saving[t] = Nothing
  /\ UuidJobIds
  /\ MayCall(by) /\ user[u].is_active
  /\ {by, u} \subseteq {EmployerOf[j], WorkerOf[j]}
  /\ by # u
  /\ Total(Parties, [v \in Parties |-> given[v].count]) < MaxRatings
  /\ saving' = [saving EXCEPT ![t] =
       [op |-> "rate", target |-> u, copy |-> user[u]]]
  /\ UNCHANGED <<user, given, stale>>

Answered(t, rating) ==
  LET r == saving[t]
  IN  /\ Saves(t, r.target)
      /\ given' = [given EXCEPT ![r.target] = With(@, rating)]
      /\ saving' = [saving EXCEPT ![t] = Nothing]

\* Mutant of SaveRating: the whole row is saved.
SaveRatedRow(t, rating) ==
  LET r == saving[t]
  IN  /\ r.op = "rate"
      /\ \E average \in
           NewAverages(r.copy.rating, r.copy.rating_count, rating) :
           user' = [user EXCEPT ![r.target] =
             [r.copy EXCEPT !.rating = average, !.rating_count = @ + 1]]
      /\ Answered(t, rating)

\* Mutant of SaveRating: the count is left out of update_fields.
SaveAverage(t, rating) ==
  LET r == saving[t]
  IN  /\ r.op = "rate"
      /\ \E average \in
           NewAverages(r.copy.rating, r.copy.rating_count, rating) :
           user' = [user EXCEPT ![r.target].rating = average]
      /\ Answered(t, rating)

\* save(update_fields=["rating", "rating_count"])
SaveRating(t, rating) ==
  LET r == saving[t]
  IN  /\ r.op = "rate"
      /\ \E average \in
           NewAverages(r.copy.rating, r.copy.rating_count, rating) :
           user' = [user EXCEPT
             ![r.target].rating = average,
             ![r.target].rating_count = r.copy.rating_count + 1]
      /\ Answered(t, rating)

-----------------------------------------------------------------------------
(* Profile *)

ReadProfile(t, u) ==
  /\ saving[t] = Nothing
  /\ MayCall(u)
  /\ saving' = [saving EXCEPT ![t] =
       [op |-> "profile", target |-> u, copy |-> user[u]]]
  /\ UNCHANGED <<user, given, stale>>

\* instance.save() of every column, as they were when the request began.
SaveProfile(t) ==
  LET p == saving[t]
  IN  /\ p.op = "profile"
      /\ \E named \in BOOLEAN :
           user' = [user EXCEPT ![p.target] =
             [p.copy EXCEPT !.is_profile_complete = @ \/ named]]
      /\ Saves(t, p.target)
      /\ saving' = [saving EXCEPT ![t] = Nothing]
      /\ UNCHANGED given

-----------------------------------------------------------------------------
(* The administrator's form: its fields on the row as the POST read it. *)

ReadForm(t, u) ==
  /\ saving[t] = Nothing
  /\ saving' = [saving EXCEPT ![t] =
       [op |-> "form", target |-> u, copy |-> user[u]]]
  /\ UNCHANGED <<user, given, stale>>

\* The form edits role and staff too, which no other step here looks at.
SaveForm(t) ==
  LET f == saving[t]
  IN  /\ f.op = "form"
      /\ \E active, blocked \in BOOLEAN :
           user' = [user EXCEPT ![f.target] =
             [f.copy EXCEPT !.is_active = active, !.is_blocked = blocked]]
      /\ Saves(t, f.target)
      /\ saving' = [saving EXCEPT ![t] = Nothing]
      /\ UNCHANGED given

-----------------------------------------------------------------------------
(* Blocking: one UPDATE of columns that depend on no earlier read. *)

Block(u) ==
  /\ user' = [user EXCEPT ![u].is_blocked = TRUE, ![u].is_active = FALSE]
  /\ UNCHANGED <<given, stale, saving>>

Unblock(u) ==
  /\ user' = [user EXCEPT ![u].is_blocked = FALSE, ![u].is_active = TRUE]
  /\ UNCHANGED <<given, stale, saving>>

Administer == \E u \in Parties : Block(u) \/ Unblock(u)

UserNext ==
  \/ \E t \in Threads :
       \/ \E by, u \in Parties, j \in Completed : ReadTarget(t, by, u, j)
       \/ \E rating \in Ratings : SaveRating(t, rating)
       \/ \E u \in Parties : ReadProfile(t, u) \/ ReadForm(t, u)
       \/ SaveProfile(t) \/ SaveForm(t)
  \/ Administer

UserSpec == UserInit /\ [][UserNext]_userVars

-----------------------------------------------------------------------------

(***************************************************************************)
(* However requests overtake one another, what a row shows is a mean of    *)
(* ratings given: between the lowest and the highest of them, so that it   *)
(* fits its column.                                                        *)
(***************************************************************************)
RatingWithinGiven ==
  \A u \in Parties : user[u].rating_count > 0 =>
    given[u].low <= user[u].rating /\ user[u].rating <= given[u].high

(***************************************************************************)
(* "Recalculate average rating after a new review" (models.py:130): every  *)
(* rating answered with success is counted, unless some save of the row    *)
(* worked on an outdated copy.                                             *)
(***************************************************************************)
RatingsCounted ==
  \A u \in Parties \ stale : user[u].rating_count = given[u].count

(***************************************************************************)
(* Each update starts from a rounded average, so the error adds up; it     *)
(* stays within half a hundredth for each update and rating weighed in:    *)
(* n(n + 1)/4 hundredths on the sum of n ratings.                          *)
(***************************************************************************)
Drift(u) == user[u].rating * user[u].rating_count - given[u].total

DriftBounded ==
  \A u \in Parties \ stale :
    LET most == user[u].rating_count * (user[u].rating_count + 1)
    IN  -most <= 4 * Drift(u) /\ 4 * Drift(u) <= most

(***************************************************************************)
(* Ratings leave the rest of the row alone: one that read the row before   *)
(* an administrator or the owner changed it undoes neither.                *)
(***************************************************************************)
RatingsTouchNothingElse ==
  [][\A t \in Threads :
       (saving[t].op = "rate" /\ saving'[t] = Nothing) =>
         \A u \in Parties :
           [user'[u] EXCEPT !.rating = 0, !.rating_count = 0] =
           [user[u] EXCEPT !.rating = 0, !.rating_count = 0]]_userVars

\* "Admin action to block a user" (services.py:259): only an administrator's
\* action takes a block away.
BlockSticks ==
  [][\A u \in Parties :
       (user[u].is_blocked /\ ~user'[u].is_blocked) =>
         Unblock(u) \/ \E t \in Threads : SaveForm(t)]_userVars
=============================================================================
