------------------------------- MODULE Rating -------------------------------
(***************************************************************************)
(* The running average of User.update_rating.  Ratings are counted in      *)
(* hundredths, the unit of the column they are stored in.                  *)
(***************************************************************************)
EXTENDS Integers

\* Mutant of Rounded: up, whatever the fraction.
RoundedUp(total, count) == {total \div count + 1}

(***************************************************************************)
(* total / count to the nearest hundredth.  Ties go to the even one where  *)
(* Django formats the number, away from zero where PostgreSQL's numeric    *)
(* column rounds it: both are possible.                                    *)
(***************************************************************************)
Rounded(total, count) ==
  {q \in {total \div count, total \div count + 1} :
     LET twice == 2 * (q * count - total)
     IN  -count <= twice /\ twice <= count}

\* Mutant of NewAverages: divided by the count before the new rating.
AveragesByOldCount(rating, count, new) ==
  Rounded(rating * count + new, IF count = 0 THEN 1 ELSE count)

NewAverages(rating, count, new) == Rounded(rating * count + new, count + 1)
=============================================================================
