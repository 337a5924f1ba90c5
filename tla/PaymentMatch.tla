---------------------------- MODULE PaymentMatch ----------------------------
(***************************************************************************)
(* domain/payment_match.py: whether a payment a caller describes is one of *)
(* those on record, and what the reference written on it says about the    *)
(* invoice it is for.                                                      *)
(*                                                                         *)
(* A candidate is a record of its entry, amount, date, status, reference   *)
(* and whether the payer's name and address are those on file.  A claim is *)
(* an amount and a date.  References are sequences of characters; the      *)
(* empty one stands for none and for blanks.  Dates are days.              *)
(***************************************************************************)
EXTENDS Integers, SequencesExt

CONSTANTS
  ToleranceDays,   \* policy payment_date_tolerance_days
  TypoDistance,    \* policy reference_typo_max_distance
  NotSaid,         \* an amount or a date the caller cannot give
  NoPayment        \* nothing matched

ASSUME PaymentMatchAssumption == ToleranceDays \in Nat /\ TypoDistance \in Nat

SettledStatuses == {"UNALLOCATED", "UNDER_REVIEW", "ALLOCATED"}

-----------------------------------------------------------------------------
(* The reference.                                                          *)

\* One row of the table of distances, from the row before it: how far the
\* written characters up to this one are from the first j of the key.
NextRow(previous, character, key) ==
  LET row[j \in 0..Len(key)] ==
        IF j = 0 THEN previous[0] + 1
        ELSE Min({previous[j] + 1,
                  row[j - 1] + 1,
                  previous[j - 1] + IF character = key[j] THEN 0 ELSE 1})
  IN  row

\* edit_distance: insertions, deletions and substitutions.
EditDistance(written, key) ==
  LET row[i \in 0..Len(written)] ==
        IF i = 0 THEN [j \in 0..Len(key) |-> j] ELSE NextRow(row[i - 1], written[i], key)
  IN  row[Len(written)][Len(key)]

\* What is written when x characters after the first n of s give way to middle.
Spliced(s, n, x, middle) ==
  SubSeq(s, 1, n) \o middle \o SubSeq(s, n + x + 1, Len(s))

\* The strings one edit from those in S: a character or none gives way to one of
\* these characters or to none.
WithinEdits(S, characters) ==
  LET middles == {<<>>} \cup {<<a>> : a \in characters}
  IN  UNION {{Spliced(s, n, x, middle) : n \in 0..(Len(s) - x), middle \in middles} :
               s \in S, x \in {0, 1}}

\* What the distance means: the strings that the edits allowed make of the key.
NearMissesOf(key, characters) ==
  LET near[n \in 0..TypoDistance] ==
        IF n = 0 THEN {key} ELSE WithinEdits(near[n - 1], characters)
  IN  near[TypoDistance]

\* Mutant: a near miss is a typo, whatever else it is.
ClassifyTypoFirst(written, number, key, known) ==
  IF written = <<>> THEN "ABSENT"
  ELSE IF written \in {number, key} THEN "EXACT"
  ELSE IF EditDistance(written, key) <= TypoDistance THEN "PROBABLE_TYPO"
  ELSE IF written \in known THEN "OTHER_INVOICE"
  ELSE "UNRELATED"

\* Mutant: the distance the policy allows is the first that is not.
ClassifyTypoShort(written, number, key, known) ==
  IF written = <<>> THEN "ABSENT"
  ELSE IF written \in {number, key} THEN "EXACT"
  ELSE IF written \in known THEN "OTHER_INVOICE"
  ELSE IF EditDistance(written, key) < TypoDistance THEN "PROBABLE_TYPO"
  ELSE "UNRELATED"

\* classify_reference.  A near miss that is another invoice's key is that
\* invoice's; near misses of an invoice number mean nothing.
ClassifyReference(written, number, key, known) ==
  IF written = <<>> THEN "ABSENT"
  ELSE IF written \in {number, key} THEN "EXACT"
  ELSE IF written \in known THEN "OTHER_INVOICE"
  ELSE IF EditDistance(written, key) <= TypoDistance THEN "PROBABLE_TYPO"
  ELSE "UNRELATED"

-----------------------------------------------------------------------------
(* The rule.                                                               *)

Missing(claim) ==
  (IF claim.amount = NotSaid THEN {"claimed_amount"} ELSE {})
  \cup (IF claim.date = NotSaid THEN {"claimed_transfer_date"} ELSE {})

\* A transfer arrives on the day it is made or a few days later, never before.
Fits(candidate, claim) ==
  /\ candidate.status \in SettledStatuses
  /\ candidate.amount = claim.amount
  /\ candidate.date - claim.date \in 0..ToleranceDays

NoResult ==
  [status |-> "none", payment |-> NoPayment, covers |-> FALSE, link |-> "ABSENT",
   address |-> FALSE, name |-> FALSE, missing |-> {}]

\* The payment that alone fits, unless it says it is for another invoice.
Judge(payment, invoice, known) ==
  LET link == ClassifyReference(payment.reference, invoice.number, invoice.key, known)
  IN  IF link = "OTHER_INVOICE"
        THEN [NoResult EXCEPT !.status = "NO_MATCH", !.link = link]
        ELSE [NoResult EXCEPT
                !.status = "MATCH", !.payment = payment.entry, !.link = link,
                !.covers = payment.amount >= invoice.amount,
                !.address = ~payment.addressMatches, !.name = ~payment.nameMatches]

\* match_payment: what is missing is said before anything is looked at, and two
\* payments that fit are not told apart by choosing one.
MatchClaim(claim, invoice, candidates, known) ==
  IF Missing(claim) # {}
    THEN [NoResult EXCEPT !.status = "INSUFFICIENT", !.missing = Missing(claim)]
    ELSE LET fitting == {p \in candidates : Fits(p, claim)}
         IN  CASE fitting = {}               -> [NoResult EXCEPT !.status = "NO_MATCH"]
               [] Cardinality(fitting) > 1   -> [NoResult EXCEPT !.status = "INSUFFICIENT"]
               [] OTHER -> Judge(CHOOSE p \in fitting : TRUE, invoice, known)
=============================================================================
