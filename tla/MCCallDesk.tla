----------------------------- MODULE MCCallDesk -----------------------------
(***************************************************************************)
(* Small instances of CallDesk for TLC: two people of two companies, who   *)
(* are told from each other by letters and digits; mistakes that are       *)
(* repeated, spelled in two ways, made for two fields at once, or that     *)
(* belong to the other person; dates that cannot be read or can be read    *)
(* two ways.                                                               *)
(***************************************************************************)
EXTENDS CallDesk, TLC

CONSTANTS anna, beat, acme, birch, i1, i2, i3, b1, p1, p2, p3, p4, p5

MCToday == <<2026, 7, 1>>

AnnasEmail == <<"a", "@", "x">>
Spelled == <<"a", " ", "-", "at", " ", "x">>
Wrong == <<"d", "@", "x">>
WrongSpelled == <<"d", "at", "x">>
WrongAgain == <<"e", "@", "x">>
BeatsEmail == <<"b", "@", "x">>

AnnasPhone == <<"4", "1", "5">>
AnnasPhoneAbroad == <<"7", "4", "1", "5">>
BeatsPhone == <<"2", "2">>

Dated(style, first, second, year) == [style |-> style, first |-> first, second |-> second, year |-> year]
AnnasBirth == Dated("worded", 5, 6, 58)
BeatsBirth == Dated("iso", 11, 6, 1994)
TwoWays == Dated("dotted", 5, 6, 1958)
Spaced == Dated("spaced", 25, 6, 1958)

MCContacts == {anna, beat}
MCStored ==
  anna :> [email |-> AnnasEmail, phone |-> AnnasPhone,
           date_of_birth |-> Dated("iso", 6, 5, 1958), customer_id |-> acme]
  @@ beat :> [email |-> BeatsEmail, phone |-> BeatsPhone,
              date_of_birth |-> BeatsBirth, customer_id |-> birch]
MCLanguage == anna :> "fr" @@ beat :> "de"

\* What the agent sends: everything right; one mistake, the same mistake in
\* other words, another; two mistakes in one breath.
Right == [phone |-> AnnasPhoneAbroad, date_of_birth |-> AnnasBirth]
MCOffers ==
  {Right,
   [email |-> Wrong, phone |-> AnnasPhoneAbroad, date_of_birth |-> AnnasBirth],
   [email |-> WrongSpelled, phone |-> AnnasPhoneAbroad],
   [email |-> WrongAgain, phone |-> BeatsPhone]}
MCSaid ==
  [email |-> {Spelled, Wrong, WrongSpelled, WrongAgain}, phone |-> {AnnasPhoneAbroad, BeatsPhone},
   date_of_birth |-> {TwoWays, AnnasBirth}, customer_id |-> {acme}]

\* Everything right, one mistake, or too little: three offers, so that answers
\* may be lost as well.
MCFewOffers ==
  {Right, [email |-> Wrong, phone |-> AnnasPhoneAbroad], [email |-> Spelled]}
MCFewSaid ==
  [email |-> {Spelled, Wrong}, phone |-> {AnnasPhoneAbroad}, date_of_birth |-> {AnnasBirth},
   customer_id |-> {}]

MCInCrm == {anna}

Unknown == <<"9">>
MCUnknown == {Unknown}
MCNumbers == {AnnasPhone}

\* The two of them, Anna with a date that cannot be read on top of what is
\* right; someone who only knows the company, and someone who knows nothing.
MCVisitors ==
  {[email |-> Spelled, customer_id |-> acme, date_of_birth |-> Spaced],
   [email |-> BeatsEmail, customer_id |-> birch],
   [email |-> Blank, customer_id |-> acme],
   [email |-> Blank]}
MCHeard ==
  [email |-> {Spelled, BeatsEmail}, phone |-> {}, date_of_birth |-> {Spaced},
   customer_id |-> {acme, birch}]

-----------------------------------------------------------------------------
(* Three invoices of acme and one of birch, whose key is a typo away from  *)
(* that of i1.  p1 quotes i1 with a digit missing, p2 the key of b1, p3    *)
(* nothing; p4 is of the same amount as p1 and a day later; p5 is birch's. *)
(* Of i1 and i3, due the same day, only one is read out.                   *)

MCNoItems == [i \in {} |-> i]

Bill(owner, amount, number, key, due) ==
  [owner |-> owner, amount |-> amount, number |-> number, key |-> key, due |-> due, issued |-> due]

Paid(owner, amount, date, reference, known) ==
  [owner |-> owner, amount |-> amount, date |-> date, reference |-> reference,
   nameMatches |-> TRUE, addressMatches |-> known]

MCInvoice ==
  i1 :> Bill(acme, 5, <<"i", "1">>, <<"1", "2", "3">>, 2)
  @@ i2 :> Bill(acme, 3, <<"i", "2">>, <<"7", "7", "8">>, 1)
  @@ i3 :> Bill(acme, 4, <<"i", "3">>, <<"9", "9", "9">>, 2)
  @@ b1 :> Bill(birch, 4, <<"i", "4">>, <<"1", "2", "4">>, 1)

MCPayment ==
  p1 :> Paid(acme, 5, 3, <<"1", "3">>, FALSE)
  @@ p2 :> Paid(acme, 4, 3, <<"1", "2", "4">>, TRUE)
  @@ p3 :> Paid(acme, 3, 2, <<>>, TRUE)
  @@ p4 :> Paid(acme, 5, 4, <<"i", "2">>, TRUE)
  @@ p5 :> Paid(birch, 5, 3, <<"1", "2", "4">>, TRUE)

Claim(amount, date) == [amount |-> amount, date |-> date]
MCClaims ==
  {Claim(5, 2), Claim(5, 3), Claim(4, 2), Claim(3, 2), Claim(5, NotSaid), Claim(Garbled, 3)}

DeskSymmetry == Permutations(Attempts) \cup Permutations(Checks)
=============================================================================
