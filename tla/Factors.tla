------------------------------ MODULE Factors ------------------------------
(***************************************************************************)
(* domain/verification.py: what a caller can be asked for, the form each   *)
(* answer is reduced to before it is compared, counted or looked up, and   *)
(* the rule that decides whether the answers prove who the caller is.      *)
(*                                                                         *)
(* An answer as transcribed is, per factor: an email as a sequence of      *)
(* letters, signs and the names of signs; a phone number as a sequence of  *)
(* digits; a date as its three numbers and the style they were written in; *)
(* a customer id as itself.  Capital letters and filler words are not in   *)
(* the model.                                                              *)
(***************************************************************************)
EXTENDS Integers, Sequences, FiniteSets

CONSTANTS
  RequiredFactorCount,      \* policy required_factor_count
  MaxDistinctValues,        \* policy guessing_max_distinct_values
  PhoneSignificantDigits,   \* how many trailing digits of a number count
  Today                     \* the date, as <<year, month, day>>

ASSUME FactorsAssumption ==
  /\ RequiredFactorCount \in Nat \ {0}
  /\ MaxDistinctValues \in Nat
  /\ PhoneSignificantDigits \in Nat \ {0}

\* Factor, and those that are facts about the person.
Factors == {"email", "phone", "date_of_birth", "customer_id"}
PersonalFactors == {"email", "phone", "date_of_birth"}

-----------------------------------------------------------------------------
(* The normal form of an answer.                                           *)

\* Signs a caller names rather than pronounces.
Sign(token) ==
  CASE token \in {"dot", "period", "point"} -> "."
    [] token = "at"                         -> "@"
    [] token \in {"hyphen", "dash"}         -> "-"
    [] token = "underscore"                 -> "_"
    [] OTHER                                -> token

\* Named signs become signs first; spaces and hyphens go after that.
NormaliseEmail(tokens) ==
  SelectSeq([i \in DOMAIN tokens |-> Sign(tokens[i])], LAMBDA t : t \notin {" ", "-"})

NormalisePhone(digits) ==
  LET n == Len(digits)
  IN  IF n <= PhoneSignificantDigits THEN digits
      ELSE SubSeq(digits, n - PhoneSignificantDigits + 1, n)

Unparseable == <<0, 0, 0>>

LeapYear(y) == (y % 4 = 0 /\ y % 100 # 0) \/ y % 400 = 0

DaysIn(y, m) ==
  CASE m = 2              -> IF LeapYear(y) THEN 29 ELSE 28
    [] m \in {4, 6, 9, 11} -> 30
    [] OTHER              -> 31

IsDate(d) == d[1] > 0 /\ d[2] \in 1..12 /\ d[3] \in 1..DaysIn(d[1], d[2])

Later(d, e) ==
  \/ d[1] > e[1]
  \/ d[1] = e[1] /\ (d[2] > e[2] \/ (d[2] = e[2] /\ d[3] > e[3]))

\* A two-digit year, as %y reads it.
Year(y) == IF y > 99 THEN y ELSE IF y < 69 THEN 2000 + y ELSE 1900 + y

\* DATE_FORMATS: ISO; day first with dots, slashes or dashes; or the month in
\* words, which alone may have a year of two digits.
AsWritten(said) ==
  CASE said.style = "iso" /\ said.year > 99    -> <<said.year, said.first, said.second>>
    [] said.style = "dotted" /\ said.year > 99 -> <<said.year, said.second, said.first>>
    [] said.style = "worded"                   -> <<Year(said.year), said.second, said.first>>
    [] OTHER                                   -> Unparseable

\* Nobody has been born in the future.
NormaliseDate(said) ==
  LET d == AsWritten(said)
  IN  CASE ~IsDate(d)      -> Unparseable
        [] Later(d, Today) -> <<d[1] - 100, d[2], d[3]>>
        [] OTHER           -> d

\* ambiguous_date: numbers only, and both could be the month.
AmbiguousDate(said) ==
  /\ said.style \in {"dotted", "spaced"}
  /\ said.first \in 1..12 /\ said.second \in 1..12
  /\ said.first # said.second
  /\ said.year > 0

Normalise(f, v) ==
  CASE f = "email"         -> NormaliseEmail(v)
    [] f = "phone"         -> NormalisePhone(v)
    [] f = "date_of_birth" -> NormaliseDate(v)
    [] OTHER               -> v

Matches(f, v, w) == Normalise(f, v) = Normalise(f, w)

\* Mutant: what was said is what is counted.
FingerprintAsSaid(f, v) == <<f, v>>

\* A salted hash of the field and the normal form: two answers have the same
\* one when they are the same answer to the same question.
Fingerprint(f, v) == <<f, Normalise(f, v)>>

Fingerprints(supplied) == {Fingerprint(f, supplied[f]) : f \in DOMAIN supplied}

\* How many of a set of fingerprints are for one field.
CountFor(prints, f) == Cardinality({p \in prints : p[1] = f})

\* Some field has been offered more values than the allowance.
IsEnumerating(prints) == \E f \in Factors : CountFor(prints, f) > MaxDistinctValues

-----------------------------------------------------------------------------
(* check_factors.  The supplied and the stored values are functions on     *)
(* some of the factors; nobody is found means that nothing is stored.      *)

Unreadable(supplied) ==
  {f \in DOMAIN supplied \cap {"date_of_birth"} : NormaliseDate(supplied[f]) = Unparseable}

Confirmed(supplied, stored) ==
  {f \in (DOMAIN supplied \cap DOMAIN stored) \ Unreadable(supplied) :
     Matches(f, supplied[f], stored[f])}

Mismatched(supplied, stored) ==
  DOMAIN supplied \ (Unreadable(supplied) \cup Confirmed(supplied, stored))

\* Mutant: what the caller got right counts in spite of what they got wrong.
StatusInSpiteOfMistakes(supplied, stored) ==
  IF Cardinality(Confirmed(supplied, stored)) >= RequiredFactorCount
    THEN "VERIFIED" ELSE "PARTIALLY_VERIFIED"

\* Any wrong answer fails the attempt; otherwise there must be enough right
\* ones, and one about the person.
CheckFactors(supplied, stored) ==
  IF Mismatched(supplied, stored) # {} THEN "FAILED"
  ELSE IF /\ Cardinality(Confirmed(supplied, stored)) >= RequiredFactorCount
          /\ Confirmed(supplied, stored) \cap PersonalFactors # {}
    THEN "VERIFIED" ELSE "PARTIALLY_VERIFIED"
=============================================================================
