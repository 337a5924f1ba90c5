---------------------------- MODULE CreditRules ----------------------------
(***************************************************************************)
(* The pure rules that decide whether a goodwill credit may be asked for   *)
(* or applied: domain/credit.py and domain/risk.py.  request_credit runs   *)
(* them on the call, apply_decisions runs them again before it writes.     *)
(*                                                                         *)
(* Amounts are whole francs (the code's Decimals are exact, so no rounding *)
(* is abstracted), days are natural numbers, and a credit note carries its *)
(* amount as the positive number the code obtains with abs().              *)
(***************************************************************************)
EXTENDS Integers, FiniteSetsExt

CONSTANTS
  MaxPerRequest,  \* policy credit_max_per_request, inclusive
  MaxRolling,     \* policy credit_max_rolling, inclusive
  WindowDays,     \* policy credit_window_months, in days
  HistoryDays     \* HISTORY_WINDOW_DAYS of the risk patterns

ASSUME PolicyAssumption ==
  /\ MaxPerRequest \in Nat
  /\ MaxRolling \in Nat
  /\ WindowDays \in Nat
  /\ HistoryDays \in Nat

-----------------------------------------------------------------------------
(* Credits against a charge and in the rolling window.                     *)

CountedStatuses == {"APPROVED", "PENDING_APPROVAL"}

\* The amounts of the credit notes in S, summed.
Total(S) == MapThenSumSet(LAMBDA note : note.amount, S)

Counted(credits) == {note \in credits : note.status \in CountedStatuses}

\* rolling_credit_total: the cutoff day itself is still inside the window.
RollingCreditTotal(credits, today) ==
  Total({note \in Counted(credits) : note.date >= today - WindowDays})

AlreadyCredited(credits, entry) ==
  Total({note \in Counted(credits) : note.entry = entry})

-----------------------------------------------------------------------------
(* Risk.                                                                   *)

DecisiveSignals ==
  {"SUSPECTED_GUESSING", "REPEATED_FAILED_VERIFICATION",
   "CONFLICTING_IDENTITY_DATA", "SUSPECTED_THRESHOLD_SPLITTING"}

AccumulatingSignals ==
  {"HIGH_CONTACT_FREQUENCY", "REPEATED_DISPUTES", "UNUSUAL_PAYMENT_BEHAVIOUR"}

SignalTypes == DecisiveSignals \cup AccumulatingSignals

AccumulationThreshold == 2
ThresholdSplittingCount == 3

NoSignals == [s \in SignalTypes |-> 0]

\* A list of signals is a bag: how many of each type it holds.
AddSignals(bag, S) == [s \in SignalTypes |-> bag[s] + IF s \in S THEN 1 ELSE 0]

\* Mutant: no signal decides by itself.
EvaluateRiskByCount(bag) ==
  IF SumFunction(bag) >= AccumulationThreshold THEN "HIGH"
  ELSE IF SumFunction(bag) > 0 THEN "ELEVATED" ELSE "NONE"

\* evaluate: any decisive signal, or enough accumulating ones, is HIGH.
EvaluateRisk(bag) ==
  IF \/ \E s \in DecisiveSignals : bag[s] > 0
     \/ SumFunction(bag) >= AccumulationThreshold
  THEN "HIGH"
  ELSE IF SumFunction(bag) > 0 THEN "ELEVATED" ELSE "NONE"

\* A credit at four fifths of the per-request ceiling or more is near it.
NearLimit(credits, today) ==
  {note \in credits : /\ 5 * note.amount >= 4 * MaxPerRequest
                      /\ note.date >= today - HistoryDays}

\* detect_history_signals: threshold splitting is read off the ledger; the
\* patterns in earlier calls and unmatched payments arrive as `patterns'.
DetectHistorySignals(credits, patterns, today) ==
  patterns \cup
    {s \in {"SUSPECTED_THRESHOLD_SPLITTING"} :
       Cardinality(NearLimit(credits, today)) >= ThresholdSplittingCount}

-----------------------------------------------------------------------------
(* The decision.  A charge is a record, or NoCharge when the ledger has no *)
(* such entry or it is not an invoice (entry_from_ledger returning None).  *)

NoCharge == [amount |-> 0, already |-> 0, disputed |-> FALSE, exists |-> FALSE]

Charge(amount, already, disputed) ==
  [amount |-> amount, already |-> already, disputed |-> disputed, exists |-> TRUE]

\* Mutant: a charge under review may be credited.
IneligibleUnlessListed(requested, charge, accountStatus) ==
  requested <= 0 \/ accountStatus # "ACTIVE" \/ ~charge.exists

Ineligible(requested, charge, accountStatus) ==
  \/ requested <= 0
  \/ accountStatus # "ACTIVE"
  \/ ~charge.exists
  \/ charge.disputed

Outcomes ==
  {"GRANTED", "DENIED_LIMIT", "DENIED_RISK", "DENIED_INELIGIBLE", "DENIED_EXCEEDS_ENTRY"}

\* Mutant: the rolling ceiling is forgotten.
EvaluateCreditPerRequest(requested, charge, accountStatus, rolling, risk) ==
  IF Ineligible(requested, charge, accountStatus) THEN "DENIED_INELIGIBLE"
  ELSE IF risk = "HIGH" THEN "DENIED_RISK"
  ELSE IF requested > charge.amount - charge.already THEN "DENIED_EXCEEDS_ENTRY"
  ELSE IF requested > MaxPerRequest THEN "DENIED_LIMIT" ELSE "GRANTED"

\* Mutant: the charge as billed, not what is left of it.
EvaluateCreditAsBilled(requested, charge, accountStatus, rolling, risk) ==
  IF Ineligible(requested, charge, accountStatus) THEN "DENIED_INELIGIBLE"
  ELSE IF risk = "HIGH" THEN "DENIED_RISK"
  ELSE IF requested > charge.amount THEN "DENIED_EXCEEDS_ENTRY"
  ELSE IF requested > MaxPerRequest \/ rolling + requested > MaxRolling THEN "DENIED_LIMIT"
  ELSE "GRANTED"

\* evaluate_credit: the first rule that fails names the outcome.
EvaluateCredit(requested, charge, accountStatus, rolling, risk) ==
  IF Ineligible(requested, charge, accountStatus) THEN "DENIED_INELIGIBLE"
  ELSE IF risk = "HIGH" THEN "DENIED_RISK"
  ELSE IF requested > charge.amount - charge.already THEN "DENIED_EXCEEDS_ENTRY"
  ELSE IF requested > MaxPerRequest \/ rolling + requested > MaxRolling THEN "DENIED_LIMIT"
  ELSE "GRANTED"
=============================================================================
