---------------------------- MODULE RatingProofs ----------------------------
(***************************************************************************)
(* What the rows of users keep, for any users, any ratings and any number  *)
(* of requests that save outdated copies of them.                          *)
(***************************************************************************)
EXTENDS UserService, TLAPS

\* Multiplying by a natural keeps the order, and distributes.
LEMMA Scale ==
  ASSUME NEW a \in Int, NEW b \in Int, NEW c \in Nat, a <= b
  PROVE  a * c <= b * c
OBVIOUS

\* One more or one less of a, times c.
LEMMA OneLess ==
  ASSUME NEW a \in Int, NEW c \in Nat
  PROVE  (a - 1) * c = a * c - c /\ (a + 1) * c = a * c + c
OBVIOUS

\* A rounded quotient is an integer at most half a divisor off.
LEMMA RoundedIsNear ==
  ASSUME NEW t \in Nat, NEW c \in Nat \ {0}, NEW q \in Rounded(t, c)
  PROVE  /\ q \in Int
         /\ -c <= 2 * (q * c - t) /\ 2 * (q * c - t) <= c
<1>1. t \div c \in Int
  OBVIOUS
<1> QED
  BY <1>1 DEF Rounded

\* ... and stays between bounds that hold of the quotient.
LEMMA RoundedIsBetween ==
  ASSUME NEW t \in Nat, NEW c \in Nat \ {0}, NEW q \in Rounded(t, c),
         NEW lo \in Nat, NEW hi \in Nat, lo * c <= t, t <= hi * c
  PROVE  lo <= q /\ q <= hi
<1>1. /\ q \in Int
      /\ -c <= 2 * (q * c - t) /\ 2 * (q * c - t) <= c
  BY RoundedIsNear
<1>2. lo <= q
  <2>1. SUFFICES ASSUME q <= lo - 1 PROVE FALSE
    BY <1>1
  <2>2. q * c <= (lo - 1) * c
    BY <1>1, <2>1, Scale
  <2>3. (lo - 1) * c = lo * c - c
    BY OneLess
  <2>4. q * c \in Int /\ lo * c \in Int
    BY <1>1
  <2> QED
    BY <1>1, <2>2, <2>3, <2>4
<1>3. q <= hi
  <2>1. SUFFICES ASSUME hi + 1 <= q PROVE FALSE
    BY <1>1
  <2>2. (hi + 1) * c <= q * c
    BY <1>1, <2>1, Scale
  <2>3. (hi + 1) * c = hi * c + c
    BY OneLess
  <2>4. q * c \in Int /\ hi * c \in Int
    BY <1>1
  <2> QED
    BY <1>1, <2>2, <2>3, <2>4
<1> QED
  BY <1>2, <1>3

\* A sum whose terms all lie between two bounds.
LEMMA SumBetween ==
  ASSUME NEW r \in Nat, NEW n \in Nat, NEW x \in Nat, NEW lo \in Nat,
         NEW hi \in Nat, lo <= x, x <= hi, n > 0 => lo <= r /\ r <= hi
  PROVE  /\ r * n + x \in Nat
         /\ lo * (n + 1) <= r * n + x /\ r * n + x <= hi * (n + 1)
<1>1. lo * n <= r * n /\ r * n <= hi * n
  <2>1. CASE n = 0
    BY <2>1
  <2>2. CASE n > 0
    BY <2>2, Scale
  <2> QED
    BY <2>1, <2>2
<1>2. lo * (n + 1) = lo * n + lo /\ hi * (n + 1) = hi * n + hi
  OBVIOUS
<1>3. r * n \in Nat /\ lo * n \in Nat /\ hi * n \in Nat
  OBVIOUS
<1> QED
  BY <1>1, <1>2, <1>3

-----------------------------------------------------------------------------
(* One rating *)

\* A row shows nothing, or a rating between the lowest and highest given.
Within(row, g) ==
  row.rating_count > 0 => g.low <= row.rating /\ row.rating <= g.high

\* One more rating widens the range of those given, if at all.
LEMMA Extremes ==
  ASSUME NEW g \in Given, NEW x \in 100 .. 500
  PROVE  /\ With(g, x) \in Given
         /\ With(g, x).low <= x /\ x <= With(g, x).high
         /\ With(g, x).low <= g.low /\ g.high <= With(g, x).high
BY SMTT(30) DEF Given, With

\* A new average lies between the extremes, the new rating's included.
LEMMA RatedIsWithin ==
  ASSUME NEW row \in Row, NEW g \in Given, Within(row, g),
         NEW x \in 100 .. 500,
         NEW average \in NewAverages(row.rating, row.rating_count, x)
  PROVE  /\ average \in 0 .. 500
         /\ With(g, x).low <= average /\ average <= With(g, x).high
<1> DEFINE n == row.rating_count
           sum == row.rating * n + x
           lo == With(g, x).low
           hi == With(g, x).high
<1>1. /\ n \in Nat /\ row.rating \in Nat /\ n + 1 \in Nat \ {0} /\ x \in Nat
      /\ average \in Rounded(sum, n + 1)
  <2>1. n \in Nat /\ row.rating \in Nat
    BY DEF Row
  <2>2. average \in Rounded(sum, n + 1)
    BY DEF NewAverages
  <2> QED
    BY <2>1, <2>2
<1>2. /\ lo \in 100 .. 500 /\ hi \in 100 .. 500
      /\ lo <= x /\ x <= hi /\ lo <= g.low /\ g.high <= hi
      /\ g.low \in 100 .. 500 /\ g.high \in 100 .. 500
  <2>1. /\ With(g, x) \in Given
        /\ lo <= x /\ x <= hi /\ lo <= g.low /\ g.high <= hi
    BY Extremes, ZenonT(30)
  <2> QED
    BY <2>1, SMTT(30) DEF Given
<1> HIDE DEF lo, hi, n, sum
<1>3. n > 0 => lo <= row.rating /\ row.rating <= hi
  <2>1. n > 0 => g.low <= row.rating /\ row.rating <= g.high
    BY DEF Within, n
  <2>2. lo \in Int /\ hi \in Int /\ g.low \in Int /\ g.high \in Int
    BY <1>2, SMTT(30)
  <2>3. row.rating \in Int
    BY <1>1
  <2> QED
    BY <1>2, <2>1, <2>2, <2>3
<1>4. sum \in Nat /\ lo * (n + 1) <= sum /\ sum <= hi * (n + 1)
  <2>1. lo \in Nat /\ hi \in Nat
    BY <1>2
  <2> QED
    BY <1>1, <1>2, <1>3, <2>1, SumBetween DEF sum
<1>5. average \in Int
  BY <1>1, <1>4, RoundedIsNear
<1>6. lo <= average /\ average <= hi
  <2>1. lo \in Nat /\ hi \in Nat
    BY <1>2
  <2> QED
    BY <1>1, <1>4, <2>1, RoundedIsBetween
<1>7. average \in 0 .. 500
  BY <1>2, <1>5, <1>6, SMTT(30)
<1>8. lo = With(g, x).low /\ hi = With(g, x).high
  BY DEF lo, hi
<1> QED
  BY <1>6, <1>7, <1>8

\* n(n + 1)/4 hundredths on the sum of n ratings.
Near(rating, n, total) ==
  /\ -(n * (n + 1)) <= 4 * (rating * n - total)
  /\ 4 * (rating * n - total) <= n * (n + 1)

\* One more rating adds the rounding of the average, times its weight.
LEMMA RatedIsNear ==
  ASSUME NEW r \in Nat, NEW n \in Nat, NEW total \in Nat, NEW x \in Nat,
         Near(r, n, total), NEW average \in NewAverages(r, n, x)
  PROVE  Near(average, n + 1, total + x)
<1> DEFINE sum == r * n + x
           most == n * (n + 1)
           product == average * (n + 1)
<1>1. /\ average \in Int
      /\ -(n + 1) <= 2 * (product - sum) /\ 2 * (product - sum) <= n + 1
  <2>1. sum \in Nat /\ n + 1 \in Nat \ {0} /\ average \in Rounded(sum, n + 1)
    BY DEF NewAverages
  <2> QED
    BY <2>1, RoundedIsNear
<1>2. -most <= 4 * (r * n - total) /\ 4 * (r * n - total) <= most
  BY DEF Near
<1>3. (n + 1) * (n + 2) = most + 2 * (n + 1)
  OBVIOUS
<1>4. most \in Int /\ product \in Int /\ r * n \in Int
  BY <1>1
<1>5. /\ -(most + 2 * (n + 1)) <= 4 * (product - (total + x))
      /\ 4 * (product - (total + x)) <= most + 2 * (n + 1)
  <2> HIDE DEF most, product
  <2> QED
    BY <1>1, <1>2, <1>4
<1>6. (n + 1) + 1 = n + 2
  OBVIOUS
<1> QED
  BY <1>3, <1>5, <1>6 DEF Near

-----------------------------------------------------------------------------

(***************************************************************************)
(* The inductive invariant.  The copies that requests hold are rows of the *)
(* past, when fewer ratings had been given, and so lie between the         *)
(* extremes of today; a row no outdated copy was ever saved to counts      *)
(* every rating and drifts no further than its roundings.                  *)
(***************************************************************************)
CopiesWithin ==
  \A t \in Threads :
    saving[t].op # "none" => Within(saving[t].copy, given[saving[t].target])

RatingInv ==
  /\ UserTypeOK
  /\ RatingWithinGiven
  /\ CopiesWithin
  /\ RatingsCounted
  /\ DriftBounded

\* At first nobody is rated and no request holds a copy.
LEMMA InitRating ==
  UserInit => RatingInv
<1> SUFFICES ASSUME UserInit PROVE RatingInv
  OBVIOUS
<1>1. UserTypeOK
  BY DEF UserInit, UserTypeOK, NewRow, Row, NoneGiven, Given, Saving, Nothing
<1>2. RatingWithinGiven /\ RatingsCounted
  BY DEF UserInit, RatingWithinGiven, RatingsCounted, NewRow, NoneGiven
<1>3. CopiesWithin
  BY DEF UserInit, CopiesWithin, Nothing
<1>4. DriftBounded
  BY DEF UserInit, DriftBounded, Drift, NewRow, NoneGiven
<1> QED
  BY <1>1, <1>2, <1>3, <1>4 DEF RatingInv

\* What the fields of a row and of the ratings given are.
LEMMA RowFields ==
  ASSUME NEW row \in Row
  PROVE  row.rating \in 0 .. 500 /\ row.rating \in Nat /\ row.rating_count \in Nat
BY DEF Row

\* The record of the ratings given holds numbers.
LEMMA GivenFields ==
  ASSUME NEW g \in Given
  PROVE  /\ g.count \in Nat /\ g.total \in Nat /\ g.low \in Int /\ g.high \in Int
         /\ g.low <= g.low /\ g.high <= g.high
BY DEF Given

\* The flags of a row can be set without touching its rating.
LEMMA RowFlagged ==
  ASSUME NEW row \in Row, NEW active \in BOOLEAN, NEW blocked \in BOOLEAN
  PROVE  LET flagged == [row EXCEPT !.is_active = active,
                                    !.is_blocked = blocked]
         IN  /\ flagged \in Row /\ flagged.rating = row.rating
             /\ flagged.rating_count = row.rating_count
BY ZenonT(30) DEF Row

\* A request under way holds a copy of a user's row.
LEMMA Request ==
  ASSUME UserTypeOK, NEW t \in Threads, saving[t].op # "none"
  PROVE  saving[t].target \in Parties /\ saving[t].copy \in Row
BY DEF UserTypeOK, Saving

\* A request that begins holds the row as it is.
LEMMA ReadKeeps ==
  ASSUME RatingInv, NEW t \in Threads, NEW u \in Parties,
         NEW op \in {"rate", "profile", "form"},
         saving' = [saving EXCEPT ![t] =
           [op |-> op, target |-> u, copy |-> user[u]]],
         UNCHANGED <<user, given, stale>>
  PROVE  RatingInv'
<1>1. UserTypeOK'
  BY DEF RatingInv, UserTypeOK, Saving
<1>2. RatingWithinGiven' /\ RatingsCounted'
  BY DEF RatingInv, RatingWithinGiven, RatingsCounted
<1>3. DriftBounded'
  BY DEF RatingInv, DriftBounded, Drift
<1>4. CopiesWithin'
  <2> SUFFICES ASSUME NEW s \in Threads, saving'[s].op # "none"
               PROVE  Within(saving'[s].copy, given[saving'[s].target])
    BY DEF CopiesWithin
  <2>1. CASE s = t
    BY <2>1 DEF RatingInv, UserTypeOK, RatingWithinGiven, Within
  <2>2. CASE s # t
    BY <2>2 DEF RatingInv, UserTypeOK, CopiesWithin
  <2> QED
    BY <2>1, <2>2
<1> QED
  BY <1>1, <1>2, <1>3, <1>4 DEF RatingInv

\* A request that ends with ratings given to its target or none.
LEMMA EndKeepsCopies ==
  ASSUME RatingInv, NEW t \in Threads, NEW v \in Parties,
         saving' = [saving EXCEPT ![t] = Nothing],
         given' \in [Parties -> Given],
         \A u \in Parties : /\ given'[u].low <= given[u].low
                            /\ given[u].high <= given'[u].high
  PROVE  CopiesWithin' /\ saving' \in [Threads -> Saving]
<1>1. saving' \in [Threads -> Saving]
  BY DEF RatingInv, UserTypeOK, Saving, Nothing
<1>2. CopiesWithin'
  <2> SUFFICES ASSUME NEW s \in Threads, saving'[s].op # "none"
               PROVE  Within(saving'[s].copy, given'[saving'[s].target])
    BY DEF CopiesWithin
  <2>1. saving'[s] = saving[s] /\ saving[s].op # "none"
    BY DEF RatingInv, UserTypeOK, Nothing
  <2>2. saving[s].target \in Parties /\ saving[s].copy \in Row
    BY <2>1, Request DEF RatingInv
  <2> DEFINE c == saving[s].copy
             u == saving[s].target
  <2>3. Within(c, given[u])
    BY <2>1 DEF RatingInv, CopiesWithin
  <2>4. /\ c.rating \in Int /\ c.rating_count \in Nat
        /\ given[u].low \in Int /\ given[u].high \in Int
        /\ given'[u].low \in Int /\ given'[u].high \in Int
        /\ given'[u].low <= given[u].low /\ given[u].high <= given'[u].high
    <3>1. given \in [Parties -> Given]
      BY DEF RatingInv, UserTypeOK
    <3> QED
      BY <2>2, <3>1, RowFields, GivenFields
  <2> QED
    BY <2>1, <2>3, <2>4 DEF Within
<1> QED
  BY <1>1, <1>2

\* A row that is saved with the rating and count of the request's copy.
LEMMA RewriteKeeps ==
  ASSUME RatingInv, NEW t \in Threads, saving[t].op # "none", NEW row \in Row,
         row.rating = saving[t].copy.rating,
         row.rating_count = saving[t].copy.rating_count,
         user' = [user EXCEPT ![saving[t].target] = row],
         Saves(t, saving[t].target),
         saving' = [saving EXCEPT ![t] = Nothing], given' = given
  PROVE  RatingInv'
<1> DEFINE x == saving[t].target
           c == saving[t].copy
<1>1. x \in Parties /\ c \in Row
  BY Request DEF RatingInv
<1>2. /\ user \in [Parties -> Row] /\ given \in [Parties -> Given]
      /\ stale \subseteq Parties
  BY DEF RatingInv, UserTypeOK
<1>3. CopiesWithin' /\ saving' \in [Threads -> Saving]
  <2>1. \A u \in Parties : /\ given[u].low <= given[u].low
                           /\ given[u].high <= given[u].high
    BY <1>2, GivenFields
  <2> QED
    BY <1>1, <1>2, <2>1, EndKeepsCopies
<1>4. /\ user'[x] = row
      /\ \A u \in Parties : u # x => user'[u] = user[u]
      /\ user' \in [Parties -> Row]
  BY <1>1, <1>2
<1>5. /\ stale \subseteq stale' /\ stale' \subseteq Parties
      /\ x \notin stale' => c = user[x]
  BY <1>1, <1>2 DEF Saves
<1>6. RatingWithinGiven'
  <2>1. Within(c, given[x])
    BY DEF RatingInv, CopiesWithin
  <2> QED
    BY <1>4, <2>1 DEF RatingInv, RatingWithinGiven, Within
<1>7. \A u \in Parties \ stale' :
        /\ u \notin stale
        /\ user'[u].rating = user[u].rating
        /\ user'[u].rating_count = user[u].rating_count
  BY <1>4, <1>5
<1>8. RatingsCounted'
  BY <1>7 DEF RatingInv, RatingsCounted
<1>9. DriftBounded'
  <2> SUFFICES ASSUME NEW u \in Parties \ stale'
               PROVE  (LET most == user[u].rating_count * (user[u].rating_count + 1)
                       IN  -most <= 4 * Drift(u) /\ 4 * Drift(u) <= most)'
    BY DEF DriftBounded
  <2> QED
    BY <1>7 DEF RatingInv, DriftBounded, Drift
<1> QED
  BY <1>2, <1>3, <1>4, <1>5, <1>6, <1>8, <1>9 DEF RatingInv, UserTypeOK

\* The profile update saves the copy it read, every column of it.
LEMMA ProfileKeeps ==
  ASSUME RatingInv, NEW t \in Threads, SaveProfile(t)
  PROVE  RatingInv'
<1>1. saving[t].op # "none"
  BY DEF SaveProfile
<1>2. saving[t].copy \in Row
  BY <1>1, Request DEF RatingInv
<1>3. PICK named \in BOOLEAN :
        user' = [user EXCEPT ![saving[t].target] =
          [saving[t].copy EXCEPT !.is_profile_complete = @ \/ named]]
  BY DEF SaveProfile
<1> DEFINE row == [saving[t].copy EXCEPT
                     !.is_profile_complete =
                       saving[t].copy.is_profile_complete \/ named]
<1>4. /\ row \in Row
      /\ row.rating = saving[t].copy.rating
      /\ row.rating_count = saving[t].copy.rating_count
  BY <1>2, ZenonT(30) DEF Row
<1>5. user' = [user EXCEPT ![saving[t].target] = row]
  BY <1>3
<1> HIDE DEF row
<1> QED
  BY <1>1, <1>4, <1>5, RewriteKeeps DEF SaveProfile

\* So does the administrator's form.
LEMMA FormKeeps ==
  ASSUME RatingInv, NEW t \in Threads, SaveForm(t)
  PROVE  RatingInv'
<1>1. saving[t].op # "none"
  BY DEF SaveForm
<1>2. saving[t].copy \in Row
  BY <1>1, Request DEF RatingInv
<1>3. PICK active \in BOOLEAN, blocked \in BOOLEAN :
        user' = [user EXCEPT ![saving[t].target] =
          [saving[t].copy EXCEPT !.is_active = active, !.is_blocked = blocked]]
  BY DEF SaveForm
<1> DEFINE row == [saving[t].copy EXCEPT !.is_active = active,
                                         !.is_blocked = blocked]
<1>4. /\ row \in Row
      /\ row.rating = saving[t].copy.rating
      /\ row.rating_count = saving[t].copy.rating_count
  BY <1>2, ZenonT(30) DEF Row
<1>5. user' = [user EXCEPT ![saving[t].target] = row]
  BY <1>3
<1> HIDE DEF row
<1> QED
  BY <1>1, <1>4, <1>5, RewriteKeeps DEF SaveForm

\* Blocking changes neither the rating nor the count of any row.
LEMMA AdministerKeeps ==
  ASSUME RatingInv, Administer
  PROVE  RatingInv'
<1>1. /\ given' = given /\ stale' = stale /\ saving' = saving
      /\ user' \in [Parties -> Row]
      /\ \A u \in Parties : /\ user'[u].rating = user[u].rating
                            /\ user'[u].rating_count = user[u].rating_count
  <2>1. PICK u \in Parties : Block(u) \/ Unblock(u)
    BY DEF Administer
  <2>2. user \in [Parties -> Row]
    BY DEF RatingInv, UserTypeOK
  <2>3. PICK active \in BOOLEAN, blocked \in BOOLEAN :
          user' = [user EXCEPT ![u] =
            [user[u] EXCEPT !.is_active = active, !.is_blocked = blocked]]
    <3>1. user[u] \in Row
      BY <2>2
    <3>2. CASE Block(u)
      <4>1. user' = [user EXCEPT ![u] =
              [user[u] EXCEPT !.is_active = FALSE, !.is_blocked = TRUE]]
        BY <2>2, <3>1, <3>2, ZenonT(30) DEF Block, Row
      <4> QED
        BY <4>1
    <3>3. CASE Unblock(u)
      <4>1. user' = [user EXCEPT ![u] =
              [user[u] EXCEPT !.is_active = TRUE, !.is_blocked = FALSE]]
        BY <2>2, <3>1, <3>3, ZenonT(30) DEF Unblock, Row
      <4> QED
        BY <4>1
    <3> QED
      BY <2>1, <3>2, <3>3
  <2> DEFINE row == [user[u] EXCEPT !.is_active = active, !.is_blocked = blocked]
  <2>4. /\ row \in Row /\ row.rating = user[u].rating
        /\ row.rating_count = user[u].rating_count
    BY <2>2, RowFlagged
  <2>5. user' = [user EXCEPT ![u] = row]
    BY <2>3
  <2> HIDE DEF row
  <2>6. given' = given /\ stale' = stale /\ saving' = saving
    BY <2>1 DEF Block, Unblock
  <2> QED
    BY <2>2, <2>4, <2>5, <2>6
<1>2. UserTypeOK'
  BY <1>1 DEF RatingInv, UserTypeOK
<1>3. RatingWithinGiven' /\ CopiesWithin' /\ RatingsCounted'
  BY <1>1
  DEF RatingInv, RatingWithinGiven, CopiesWithin, RatingsCounted, Within
<1>4. DriftBounded'
  BY <1>1 DEF RatingInv, DriftBounded, Drift
<1> QED
  BY <1>2, <1>3, <1>4 DEF RatingInv

\* A rating saves the mean it computed from its copy, and the count.
LEMMA RateKeeps ==
  ASSUME RatingInv, NEW t \in Threads, NEW x \in Ratings, SaveRating(t, x)
  PROVE  RatingInv'
<1> DEFINE v == saving[t].target
           c == saving[t].copy
<1>1. saving[t].op # "none"
  BY DEF SaveRating
<1>2. v \in Parties /\ c \in Row
  BY <1>1, Request DEF RatingInv
<1>3. /\ user \in [Parties -> Row] /\ given \in [Parties -> Given]
      /\ stale \subseteq Parties
  BY DEF RatingInv, UserTypeOK
<1>4. PICK average \in NewAverages(c.rating, c.rating_count, x) :
        user' = [user EXCEPT ![v].rating = average,
                             ![v].rating_count = c.rating_count + 1]
  BY DEF SaveRating
<1>5. /\ given' = [given EXCEPT ![v] = With(given[v], x)]
      /\ saving' = [saving EXCEPT ![t] = Nothing] /\ Saves(t, v)
  BY DEF SaveRating, Answered
<1>6. x \in 100 .. 500 /\ given[v] \in Given /\ Within(c, given[v])
  BY <1>1, <1>2, <1>3, UserAssumption DEF RatingInv, CopiesWithin
<1>7. /\ average \in 0 .. 500
      /\ With(given[v], x).low <= average /\ average <= With(given[v], x).high
  BY <1>2, <1>6, RatedIsWithin, ZenonT(30)
<1>8. /\ With(given[v], x) \in Given
      /\ With(given[v], x).low <= given[v].low
      /\ given[v].high <= With(given[v], x).high
  BY <1>6, Extremes, ZenonT(30)
<1>9. /\ user' \in [Parties -> Row]
      /\ user'[v].rating = average
      /\ user'[v].rating_count = c.rating_count + 1
      /\ \A u \in Parties : u # v => user'[u] = user[u]
  <2> DEFINE n == c.rating_count + 1
             row == [user[v] EXCEPT !.rating = average, !.rating_count = n]
  <2>1. user[v] \in Row /\ n \in Nat
    BY <1>2, <1>3, RowFields
  <2>2. row \in Row /\ row.rating = average /\ row.rating_count = n
    <3>1. average \in 0 .. 500
      BY <1>7
    <3> HIDE DEF n, v
    <3> QED
      BY <2>1, <3>1 DEF Row
  <2>3. user' = [user EXCEPT ![v] = row]
    BY <1>2, <1>3, <1>4
  <2> HIDE DEF row
  <2> QED
    BY <1>2, <1>3, <2>2, <2>3
<1>10. /\ given' \in [Parties -> Given] /\ given'[v] = With(given[v], x)
       /\ \A u \in Parties : u # v => given'[u] = given[u]
  BY <1>2, <1>3, <1>5, <1>8
<1>11. CopiesWithin' /\ saving' \in [Threads -> Saving]
  <2>1. \A u \in Parties : /\ given'[u].low <= given[u].low
                           /\ given[u].high <= given'[u].high
    <3>1. \A g \in Given : g.low <= g.low /\ g.high <= g.high
      BY GivenFields
    <3> QED
      BY <1>3, <1>8, <1>10, <3>1
  <2> QED
    BY <1>2, <1>5, <1>10, <2>1, EndKeepsCopies
<1>12. RatingWithinGiven'
  BY <1>7, <1>9, <1>10 DEF RatingInv, RatingWithinGiven
<1>13. /\ stale \subseteq stale' /\ stale' \subseteq Parties
       /\ v \notin stale' => c = user[v]
  BY <1>2, <1>3, <1>5 DEF Saves
<1>14. RatingsCounted'
  <2> SUFFICES ASSUME NEW u \in Parties \ stale'
               PROVE  user'[u].rating_count = given'[u].count
    BY DEF RatingsCounted
  <2>1. user[u].rating_count = given[u].count
    BY <1>13 DEF RatingInv, RatingsCounted
  <2>2. CASE u = v
    BY <1>9, <1>10, <1>13, <2>1, <2>2 DEF With
  <2> QED
    BY <1>9, <1>10, <2>1, <2>2
<1>15. DriftBounded'
  <2> SUFFICES ASSUME NEW u \in Parties \ stale'
               PROVE  Near(user'[u].rating, user'[u].rating_count,
                           given'[u].total)
    BY DEF DriftBounded, Drift, Near
  <2>1. Near(user[u].rating, user[u].rating_count, given[u].total)
    BY <1>13 DEF RatingInv, DriftBounded, Drift, Near
  <2>2. CASE u = v
    <3>1. /\ user[v].rating \in Nat /\ user[v].rating_count \in Nat
          /\ given[v].total \in Nat /\ x \in Nat
      <4>1. user[v] \in Row /\ given[v] \in Given /\ x \in 100 .. 500
        BY <1>2, <1>3, <1>6
      <4>2. x \in Nat
        BY <4>1
      <4> QED
        BY <4>1, <4>2, RowFields, GivenFields
    <3>2. Near(average, user[v].rating_count + 1, given[v].total + x)
      BY <1>13, <2>1, <2>2, <3>1, RatedIsNear
    <3>3. given'[v].total = given[v].total + x
      BY <1>10 DEF With
    <3> QED
      BY <1>9, <1>13, <2>2, <3>2, <3>3
  <2> QED
    BY <1>9, <1>10, <2>1, <2>2
<1> QED
  BY <1>9, <1>10, <1>11, <1>12, <1>13, <1>14, <1>15 DEF RatingInv, UserTypeOK

\* Every step keeps the inductive invariant.
LEMMA NextRating ==
  RatingInv /\ [UserNext]_userVars => RatingInv'
<1> SUFFICES ASSUME RatingInv, [UserNext]_userVars PROVE RatingInv'
  OBVIOUS
<1>1. CASE UNCHANGED userVars
  BY <1>1 DEF userVars, RatingInv, UserTypeOK, RatingWithinGiven, CopiesWithin,
              RatingsCounted, DriftBounded, Drift
<1>2. CASE Administer
  BY <1>2, AdministerKeeps
<1>3. ASSUME NEW t \in Threads, NEW x \in Ratings, SaveRating(t, x)
      PROVE  RatingInv'
  BY <1>3, RateKeeps
<1>4. ASSUME NEW t \in Threads, SaveProfile(t) \/ SaveForm(t)
      PROVE  RatingInv'
  BY <1>4, ProfileKeeps, FormKeeps
<1>5. ASSUME NEW t \in Threads, NEW u \in Parties,
             \/ \E by \in Parties, j \in Completed : ReadTarget(t, by, u, j)
             \/ ReadProfile(t, u) \/ ReadForm(t, u)
      PROVE  RatingInv'
  BY <1>5, ReadKeeps DEF ReadTarget, ReadProfile, ReadForm
<1> QED
  BY <1>1, <1>2, <1>3, <1>4, <1>5 DEF UserNext

-----------------------------------------------------------------------------

\* The columns hold what they are declared for.
THEOREM UserTypeCorrect == UserSpec => []UserTypeOK
<1>1. RatingInv => UserTypeOK
  BY DEF RatingInv
<1> QED
  BY <1>1, InitRating, NextRating, PTL DEF UserSpec

\* However requests overtake one another, the rating shown never leaves the
\* range of the ratings given.
THEOREM RatingStaysWithin == UserSpec => []RatingWithinGiven
<1>1. RatingInv => RatingWithinGiven
  BY DEF RatingInv
<1> QED
  BY <1>1, InitRating, NextRating, PTL DEF UserSpec

\* Only a save of an outdated copy loses a rating.
THEOREM RatingsAreCounted == UserSpec => []RatingsCounted
<1>1. RatingInv => RatingsCounted
  BY DEF RatingInv
<1> QED
  BY <1>1, InitRating, NextRating, PTL DEF UserSpec

\* The rounding errors of n updates add up to at most n(n + 1)/4.
THEOREM DriftStaysBounded == UserSpec => []DriftBounded
<1>1. RatingInv => DriftBounded
  BY DEF RatingInv
<1> QED
  BY <1>1, InitRating, NextRating, PTL DEF UserSpec

\* A row without its rating.
Others(row) == [row EXCEPT !.rating = 0, !.rating_count = 0]

\* The two columns of a rating are no others.
LEMMA RatedAlike ==
  ASSUME NEW row \in Row, NEW a, NEW n
  PROVE  Others([row EXCEPT !.rating = a, !.rating_count = n]) = Others(row)
BY DEF Row, Others

\* The save of a rating names its two columns.
LEMMA RateTouches ==
  ASSUME UserTypeOK, NEW t \in Threads, NEW x \in Ratings, SaveRating(t, x),
         NEW u \in Parties
  PROVE  Others(user'[u]) = Others(user[u])
<1>1. saving[t].op = "rate"
  BY DEF SaveRating
<1>2. saving[t].target \in Parties /\ user \in [Parties -> Row]
  BY <1>1, Request DEF UserTypeOK
<1> DEFINE v == saving[t].target
           n == saving[t].copy.rating_count + 1
<1>3. PICK average : user' = [user EXCEPT ![v].rating = average, ![v].rating_count = n]
  BY DEF SaveRating
<1> HIDE DEF v, n
<1>4. v \in Parties
  BY <1>2 DEF v
<1>5. CASE u # v
  BY <1>2, <1>3, <1>4, <1>5
<1>6. CASE u = v
  <2> DEFINE row == [user[v] EXCEPT !.rating = average, !.rating_count = n]
  <2>1. user' = [user EXCEPT ![v] = row]
    BY <1>2, <1>3, <1>4
  <2>2. Others(row) = Others(user[v])
    BY <1>2, <1>4, RatedAlike
  <2> HIDE DEF row
  <2> QED
    BY <1>2, <1>4, <1>6, <2>1, <2>2
<1> QED
  BY <1>5, <1>6

\* Who rates and is answered did it in this step.
LEMMA OnlyRateAnswers ==
  ASSUME UserTypeOK, [UserNext]_userVars, NEW t \in Threads,
         saving[t].op = "rate", saving'[t] = Nothing
  PROVE  \E x \in Ratings : SaveRating(t, x)
<1>1. saving \in [Threads -> Saving] /\ saving'[t].op = "none"
  BY DEF UserTypeOK, Nothing
<1>2. saving' # saving
  BY <1>1
<1>3. PICK s \in Threads :
        \/ \E by, u \in Parties, j \in Completed : ReadTarget(s, by, u, j)
        \/ \E x \in Ratings : SaveRating(s, x)
        \/ \E u \in Parties : ReadProfile(s, u) \/ ReadForm(s, u)
        \/ SaveProfile(s) \/ SaveForm(s)
  BY <1>2 DEF UserNext, userVars, Administer, Block, Unblock
<1>4. s = t
  <2>1. \E c : saving' = [saving EXCEPT ![s] = c]
    BY <1>3 DEF ReadTarget, SaveRating, Answered, ReadProfile, ReadForm,
                SaveProfile, SaveForm
  <2> QED
    BY <1>1, <2>1
<1>5. ASSUME NEW op \in {"rate", "profile", "form"}, NEW u, NEW c
      PROVE  saving' # [saving EXCEPT ![t] = [op |-> op, target |-> u, copy |-> c]]
  BY <1>1
<1>6. ~(\E by, u \in Parties, j \in Completed : ReadTarget(t, by, u, j))
  <2>1. ASSUME NEW by, NEW u, NEW j, ReadTarget(t, by, u, j)  PROVE FALSE
    <3>1. saving' = [saving EXCEPT ![t] =
            [op |-> "rate", target |-> u, copy |-> user[u]]]
      BY <2>1 DEF ReadTarget
    <3> QED
      BY <1>5, <3>1
  <2> QED
    BY <2>1
<1>7. ~(\E u \in Parties : ReadProfile(t, u) \/ ReadForm(t, u))
  BY <1>5 DEF ReadProfile, ReadForm
<1>8. ~SaveProfile(t) /\ ~SaveForm(t)
  BY DEF SaveProfile, SaveForm
<1> QED
  BY <1>3, <1>4, <1>6, <1>7, <1>8

\* Ratings leave the rest of a row alone: a block, a profile or a form that is
\* saved while they work on an older copy stays as it is.
THEOREM RatingsLeaveTheRest == UserSpec => RatingsTouchNothingElse
<1>1. ASSUME UserTypeOK, [UserNext]_userVars
      PROVE  [\A t \in Threads :
                (saving[t].op = "rate" /\ saving'[t] = Nothing) =>
                  \A u \in Parties :
                    [user'[u] EXCEPT !.rating = 0, !.rating_count = 0] =
                    [user[u] EXCEPT !.rating = 0, !.rating_count = 0]]_userVars
  BY <1>1, OnlyRateAnswers, RateTouches DEF Others
<1> QED
  BY <1>1, UserTypeCorrect, PTL DEF UserSpec, RatingsTouchNothingElse
=============================================================================
