------------------------------ MODULE Amounts ------------------------------
(***************************************************************************)
(* The amount of an order, from the price in cents to what is charged: the *)
(* client sends max_total = cents / 100, a binary64 number, and the        *)
(* gateway charges int(max_total * 100).  Both operations round, and int   *)
(* truncates: for some prices a cent is lost (29, 57, 58, ..., 1999).      *)
(*                                                                         *)
(* Also the policy hook, a function of that amount.                        *)
(***************************************************************************)
EXTENDS Naturals

PowerOfTwo[n \in Nat] == IF n = 0 THEN 1 ELSE 2 * PowerOfTwo[n - 1]

(* How many bits the positive number n has.                                *)
Bits(n) == CHOOSE b \in 1 .. 64 : PowerOfTwo[b - 1] <= n /\ n < PowerOfTwo[b]

(* The nearest integer to n / d, the even one of two.                      *)
Nearest(n, d) ==
  LET q == n \div d
      r == n % d
  IN  IF 2 * r > d \/ (2 * r = d /\ q % 2 = 1) THEN q + 1 ELSE q

(* cents / 100 has its significand of `precision` bits after a shift by    *)
(* this many bits.                                                         *)
Shift(cents, precision) ==
  (precision + (IF 32 * cents < 25 * PowerOfTwo[Bits(cents)] THEN 7 ELSE 6)) - Bits(cents)

(* int(cents / 100 * 100) as a processor with significands of that many    *)
(* bits computes it.                                                       *)
AmountAt(cents, precision) ==
  LET k == Shift(cents, precision)
      max_total == Nearest(cents * PowerOfTwo[k], 100)         \* times 2^-k
      extra == Bits(100 * max_total) - precision
      unit == PowerOfTwo[extra]
      product == Nearest(100 * max_total, unit) * unit        \* times 2^-k
  IN  product \div PowerOfTwo[k]

PowerOfTwoMod100[n \in Nat] == IF n = 0 THEN 1 ELSE (2 * PowerOfTwoMod100[n - 1]) % 100

(* The same without the large numbers.  With r what cents * 2^k leaves     *)
(* modulo 100, max_total is below cents / 100 if r < 50, by r / 100 of its *)
(* last place; the product then stays below cents if that is more than     *)
(* half the distance between cents and the number before it.               *)
LosesCent(cents, precision) ==
  LET b == Bits(cents)
      r == (cents * PowerOfTwoMod100[Shift(cents, precision)]) % 100
  IN  /\ 32 < r /\ r < 50
      /\ 32 * cents >= 25 * PowerOfTwo[b] \/ cents = PowerOfTwo[b - 1]

(* int(payload.max_total * 100) for max_total = cents / 100 in binary64.   *)
AmountCents(cents) == IF cents # 0 /\ LosesCent(cents, 53) THEN cents - 1 ELSE cents

(* policy_hook.evaluate_policy.                                            *)
EvaluatePolicy(amount_cents, risk_signals) ==
  IF amount_cents > 100000 THEN "REVIEW"
  ELSE IF risk_signals.deny THEN "DENY"
  ELSE IF risk_signals.review THEN "REVIEW"
  ELSE "ALLOW"

(* /authorize passes a user agent and an address, no verdict.              *)
RiskSignals == [deny |-> FALSE, review |-> FALSE]
=============================================================================
