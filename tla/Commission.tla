----------------------------- MODULE Commission -----------------------------
(***************************************************************************)
(* The platform commission: apps/core/utils.py, calculate_commission.      *)
(* Amounts are integers in tiyin.                                          *)
(***************************************************************************)
EXTENDS Integers

CONSTANT PlatformCommissionPercent   \* settings.PLATFORM_COMMISSION_PERCENT

ASSUME CommissionAssumption == PlatformCommissionPercent \in 0..100

\* 2147483647, the largest price of a PositiveIntegerField in PostgreSQL.
MaxPrice == 2^30 + (2^30 - 1)

\* The argument "percent" left to its default, None.
NoPercent == -1

\* "percent or getattr(settings, ...)": zero is as falsy as None.
EffectivePercent(percent) ==
  IF percent \in {NoPercent, 0} THEN PlatformCommissionPercent ELSE percent

(***************************************************************************)
(* int(amount * percent / 100): the quotient truncated to whole tiyin.     *)
(* Python's "/" returns a float, whose truncation may be one too high once *)
(* quotients reach 2^47; up to MaxPrice it is that of the exact quotient,  *)
(* and the price of a job is all that calculate_commission is called with. *)
(***************************************************************************)
CommissionOf(amount, percent) == (amount * EffectivePercent(percent)) \div 100

WorkerAmount(amount, percent) == amount - CommissionOf(amount, percent)

(***************************************************************************)
(* What a released job costs the platform's client and pays its worker:    *)
(* the service calls calculate_commission with the price alone.            *)
(***************************************************************************)
JobCommission(price) == CommissionOf(price, NoPercent)
Payout(price) == WorkerAmount(price, NoPercent)
=============================================================================
