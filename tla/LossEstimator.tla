---------------------------- MODULE LossEstimator ----------------------------
(***************************************************************************)
(* LossEstimator of src/src/fec/adaptive.rs, without the optional Kalman   *)
(* filter: an exponential moving average of the reported loss rates, and a *)
(* window of the latest packet outcomes.                                   *)
(*                                                                         *)
(* A rate is a number of RateUnits.  The average is kept as an integer in  *)
(* units of 1 / LambdaDen^MaxReports of that, in which its first           *)
(* MaxReports values are exact (the code computes in f32).                 *)
(***************************************************************************)
EXTENDS Integers, Sequences, SequencesExt, FiniteSetsExt

CONSTANTS
  RateUnit,              \* a rate of 100 %; every total reported divides it
  LambdaNum, LambdaDen,  \* lambda, 1 / 10 by default
  burst_capacity,        \* at least 1 (FecConfig::validate)
  MaxReports             \* bound: calls of report_loss

VARIABLES
  ema_loss_rate, burst_window,
  history     \* the reports so far

estimator == <<ema_loss_rate, burst_window, history>>

Scale == LambdaDen^MaxReports

NewEstimator == ema_loss_rate = 0 /\ burst_window = <<>> /\ history = <<>>

Rate(r) == IF r[2] > 0 THEN (RateUnit * r[1]) \div r[2] ELSE 0

Ema(ema, rate) ==
  (LambdaNum * rate * Scale + (LambdaDen - LambdaNum) * ema) \div LambdaDen

PushBack(w, outcome) == Append(IF Len(w) = burst_capacity THEN Tail(w) ELSE w, outcome)

Repeat(outcome, n) == [j \in 1 .. n |-> outcome]

(* First the losses of the report are pushed, then the packets that        *)
(* arrived.                                                                *)
Outcomes(r) == Repeat(TRUE, r[1]) \o Repeat(FALSE, r[2] - r[1])

report_loss(r) ==
  /\ Len(history) < MaxReports
  /\ ema_loss_rate' = Ema(ema_loss_rate, Rate(r))
  /\ burst_window' = FoldLeft(PushBack, burst_window, Outcomes(r))
  /\ history' = Append(history, r)

Losses == {j \in DOMAIN burst_window : burst_window[j]}
=============================================================================
