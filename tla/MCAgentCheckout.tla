-------------------------- MODULE MCAgentCheckout --------------------------
(* Instances of AgentCheckout for TLC, and the arithmetic of Amounts over  *)
(* a range of inputs.                                                      *)
EXTENDS AgentCheckout, TLC

CONSTANTS a1, a2

(* The closed form is what the two rounded operations compute, for         *)
(* significands short enough for TLC's integers (AmountsProofs: for all).  *)
ASSUME ClosedForm ==
  \A precision \in 10 .. 15 : \A cents \in 1 .. 500 :
    AmountAt(cents, precision) = IF LosesCent(cents, precision) THEN cents - 1 ELSE cents

(* An order is reviewed exactly when its price is over $1,000: the cent    *)
(* that is lost never takes a price across the threshold.                  *)
ASSUME ThresholdIsExact ==
  \A cents \in 99000 .. 101000 :
    EvaluatePolicy(AmountCents(cents), RiskSignals) = "REVIEW" <=> cents > 100000

Signed == {Transcript(a) : a \in Agents}

(* A price that loses a cent, and one over the threshold.                  *)
Prices == [a \in Agents |-> IF a = a1 THEN 1999 ELSE 100001]

Decisions == [a \in Agents |-> EvaluatePolicy(Charge[a], RiskSignals)]
=============================================================================
