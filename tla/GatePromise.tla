---------------------------- MODULE GatePromise ----------------------------
(***************************************************************************)
(* What the desk promises about who is let in, without saying how: there   *)
(* are no rows, no reads and no invocations that overlap.  A caller is let *)
(* in on one set of answers that proves who they are, and is told about no *)
(* more values of a detail than the allowance; they are turned away only   *)
(* for guessing or for mistakes, and then for good; an account is locked   *)
(* for mistakes made on one call, and freed by time or by proof.  The one  *)
(* excuse is a count that was lost.                                        *)
(***************************************************************************)
EXTENDS Integers, FiniteSets

CONSTANTS
  Calls, People, Details, Answers, Nobody,
  Allowance,        \* different values of one detail that may be offered on a call
  MaxWrong,         \* different wrong values of one detail that lock an account
  LockWindow,
  Normal(_, _),     \* one value of a detail, however it is spelled
  Right(_, _, _),   \* this value of a detail is what is on record about somebody
  Proof(_, _)       \* these answers prove that the caller is this person

VARIABLES
  offers,   \* per call: the sets of answers offered, about whom, and whether too late
  heard,    \* per call and detail: the values offered, all together or one by one
  told,     \* per call and detail: the values the caller has been told about
  refused,  \* the calls that have been turned away
  letIn,    \* per call: who the caller is let in as
  freeAt,   \* per person: when their account is free again
  now,
  losses    \* per call: counts of offers, and of mistakes, that were lost

promiseVars == <<offers, heard, told, refused, letIn, freeAt, now, losses>>

Counts == {"offered", "wrong"}

NoneLost(c) == \A count \in Counts : losses[c][count] = 0

Init ==
  /\ offers = [c \in Calls |-> {}]
  /\ heard = [c \in Calls |-> [d \in Details |-> {}]]
  /\ told = [c \in Calls |-> [d \in Details |-> {}]]
  /\ refused = {}
  /\ letIn = [c \in Calls |-> Nobody]
  /\ freeAt = [p \in People |-> 0]
  /\ now = 0
  /\ losses = [c \in Calls |-> [count \in Counts |-> 0]]

\* The values of one detail, and those of some answers with them.
With(values, d, answers) ==
  values \cup IF d \in DOMAIN answers THEN {Normal(d, answers[d])} ELSE {}

Hear(c, answers) ==
  heard' = [heard EXCEPT ![c] = [d \in Details |-> With(heard[c][d], d, answers)]]

\* The caller learns whether each of these answers is right.
Judge(c, answers) ==
  told' = [told EXCEPT ![c] = [d \in Details |-> With(told[c][d], d, answers)]]

\* No more than the allowance, and as much again for each count lost.
WithinAllowance(c) ==
  \A d \in Details : Cardinality(told'[c][d]) <= Allowance * (1 + losses[c]["offered"])

Guessing(c) == \E d \in Details : Cardinality(heard[c][d]) > Allowance

Wrong(c, d) ==
  {Normal(d, o.answers[d]) :
     o \in {o \in offers[c] : d \in DOMAIN o.answers /\ ~Right(d, o.answers[d], o.about)}}

Mistaken(c) == \E d \in Details : Cardinality(Wrong(c, d)) >= MaxWrong

TurnAway(c) == refused' = refused \cup {c}

-----------------------------------------------------------------------------

Offer(c, answers, p) ==
  /\ offers' = [offers EXCEPT ![c] =
       @ \cup {[answers |-> answers, about |-> p, late |-> c \in refused]}]
  /\ Hear(c, answers)
  /\ UNCHANGED <<told, refused, letIn, freeAt, now, losses>>

\* Asked only whether some details were heard right.
Ask(c, answers) ==
  Hear(c, answers) /\ UNCHANGED <<offers, told, refused, letIn, freeAt, now, losses>>

Tell(c, answers) ==
  /\ Judge(c, answers) /\ WithinAllowance(c)
  /\ \A d \in DOMAIN answers : Normal(d, answers[d]) \in heard[c][d]
  /\ UNCHANGED <<offers, heard, refused, letIn, freeAt, now, losses>>

Refuse(c) ==
  /\ Guessing(c) \/ Mistaken(c)
  /\ TurnAway(c)
  /\ UNCHANGED <<offers, heard, told, letIn, freeAt, now, losses>>

\* On one set of answers offered on this very call, and not after it was turned
\* away; that they are let in may never reach them.
LetIn(c, o) ==
  /\ o.about \in People /\ Proof(o.answers, o.about)
  /\ o.late => ~NoneLost(c)
  /\ letIn' = [letIn EXCEPT ![c] = o.about]
  /\ (Judge(c, o.answers) /\ WithinAllowance(c)) \/ UNCHANGED told
  /\ UNCHANGED <<offers, heard, refused, freeAt, now, losses>>

\* The call that earned the lock is turned away, if the answer is not lost.
Lock(c, o) ==
  /\ o.about \in People /\ Mistaken(c)
  /\ freeAt' = [freeAt EXCEPT ![o.about] = now + LockWindow]
  /\ TurnAway(c) \/ UNCHANGED refused
  /\ UNCHANGED <<offers, heard, told, letIn, now, losses>>

\* A proof frees the account even on a call that is turned away.
Free(c, o) ==
  /\ o.about \in People /\ Proof(o.answers, o.about)
  /\ freeAt' = [freeAt EXCEPT ![o.about] = 0]
  /\ (Mistaken(c) /\ TurnAway(c)) \/ UNCHANGED refused
  /\ UNCHANGED <<offers, heard, told, letIn, now, losses>>

LoseCount(c, count) ==
  /\ losses' = [losses EXCEPT ![c][count] = @ + 1]
  /\ UNCHANGED <<offers, heard, told, refused, letIn, freeAt, now>>

Tick ==
  now' = now + 1 /\ UNCHANGED <<offers, heard, told, refused, letIn, freeAt, losses>>

Next ==
  \/ Tick
  \/ \E c \in Calls :
       \/ \E answers \in Answers :
            \/ \E p \in People \cup {Nobody} : Offer(c, answers, p)
            \/ Ask(c, answers)
            \/ Tell(c, answers)
       \/ Refuse(c)
       \/ \E o \in offers[c] : LetIn(c, o) \/ Lock(c, o) \/ Free(c, o)
       \/ \E count \in Counts : LoseCount(c, count)

Spec == Init /\ [][Next]_promiseVars
=============================================================================
