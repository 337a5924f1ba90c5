----------------------------- MODULE CallerRows -----------------------------
(***************************************************************************)
(* What identifying a caller reads and writes: the conversation row        *)
(* (common/conversation_state.py), the identity records and their indexes  *)
(* (common/identity.py), and what conversation_init passes to the call.    *)
(*                                                                         *)
(* Values offered and values found wrong are each one attribute of the     *)
(* row, read, extended in memory and written back whole.  A write replaces *)
(* whatever another invocation has put there since the read.               *)
(***************************************************************************)
EXTENDS Factors, FiniteSetsExt

CONSTANTS
  Calls,        \* conversation ids
  Contacts,     \* contact ids of the identity table
  Stored,       \* the factors on each contact's record; customer_id is its account_id
  Language,     \* preferred_language of each contact
  Said,         \* per factor, what callers may be heard to say
  Numbers,      \* the numbers calls come from
  Nobody,       \* no contact, no candidate, nobody verified
  LockWindow,   \* how long an account is locked
  MaxClock,     \* bound on time
  MaxFaults     \* bound: calls to the table that fail

\* domain/locale.py: SUPPORTED.
Languages == {"de", "fr", "it", "en"}

Accounts == {Stored[p]["customer_id"] : p \in Contacts}

ASSUME CallerRowsAssumption ==
  /\ IsFiniteSet(Contacts)
  /\ \A p \in Contacts : DOMAIN Stored[p] = Factors /\ Language[p] \in Languages
  /\ \A f \in Factors : IsFiniteSet(Said[f])
  /\ Nobody \notin Contacts \cup Accounts
  /\ Contacts \cap Accounts = {}
  /\ LockWindow \in Nat \ {0} /\ MaxClock \in Nat /\ MaxFaults \in Nat

VARIABLES
  offered,     \* factor_attempts of each call, as fingerprints
  wrong,       \* wrong_values of each call
  resolved,    \* resolved_contact_id
  signals,     \* types of the risk signals
  gate,        \* verification_status VERIFIED: the customer_id and the contact_id
  candidate,   \* what conversation_init passed: the candidate and the language
  account,     \* failed_verification_attempts and locked_until of each contact
  clock,
  faults,
  lost         \* history: writes of each attribute that replaced a value newer than
               \* the one they extend

rowVars == <<offered, wrong, resolved, signals, gate, candidate, account, clock, faults, lost>>

\* The attributes of the row that are written from what was read of them.
Extended == {"offered", "wrong", "resolved"}

AllFingerprints == UNION {{Fingerprint(f, v) : v \in Said[f]} : f \in Factors}

NotVerified == [customer |-> Nobody, contact |-> Nobody]

Verified(c) == gate[c] # NotVerified

\* The agent's tools are called once the call has been answered.
Arrived(c) == candidate[c].language # "none"

CallerRowsTypeOK ==
  /\ offered \in [Calls -> SUBSET AllFingerprints]
  /\ wrong \in [Calls -> SUBSET AllFingerprints]
  /\ resolved \in [Calls -> Contacts \cup {Nobody}]
  /\ signals \in [Calls -> SUBSET {"SUSPECTED_GUESSING", "CONFLICTING_IDENTITY_DATA"}]
  /\ gate \in [Calls -> [customer : Accounts \cup {Nobody}, contact : Contacts \cup {Nobody}]]
  /\ candidate \in [Calls -> [customer : Accounts \cup {Nobody}, language : Languages \cup {"none"}]]
  /\ account \in [Contacts -> [attempts : Nat, lockedUntil : 0..(MaxClock + LockWindow)]]
  /\ clock \in 0..MaxClock
  /\ faults \in 0..MaxFaults
  /\ lost \in [Calls -> [Extended -> Nat]]

CallerRowsInit ==
  /\ offered = [c \in Calls |-> {}]
  /\ wrong = [c \in Calls |-> {}]
  /\ resolved = [c \in Calls |-> Nobody]
  /\ signals = [c \in Calls |-> {}]
  /\ gate = [c \in Calls |-> NotVerified]
  /\ candidate = [c \in Calls |-> [customer |-> Nobody, language |-> "none"]]
  /\ account = [p \in Contacts |-> [attempts |-> 0, lockedUntil |-> 0]]
  /\ clock = 0
  /\ faults = 0
  /\ lost = [c \in Calls |-> [a \in Extended |-> 0]]

-----------------------------------------------------------------------------
(* Reads.                                                                  *)

\* An index query by normal form; more than one hit resolves nobody.
LookupContact(f, v) ==
  LET hits == {p \in Contacts : Matches(f, Stored[p][f], v)}
  IN  IF Cardinality(hits) = 1 THEN CHOOSE p \in hits : TRUE ELSE Nobody

\* The factors of a record, and nothing when there is no such record.
StoredFactors(p) == IF p \in Contacts THEN Stored[p] ELSE <<>>

\* Zero stands for a locked_until that was never set or has been removed.
IsLocked(p) == p \in Contacts /\ account[p].lockedUntil > clock

-----------------------------------------------------------------------------
(* Writes.  Those that extend a value are given the value that was read.   *)

WriteOver(c, attribute, current, read) ==
  lost' = [lost EXCEPT ![c][attribute] = @ + IF current = read THEN 0 ELSE 1]

RecordFactorAttempts(c, read, prints) ==
  /\ offered' = [offered EXCEPT ![c] = read \cup prints]
  /\ WriteOver(c, "offered", offered[c], read)

RecordWrongValues(c, read, prints) ==
  /\ wrong' = [wrong EXCEPT ![c] = read \cup prints]
  /\ WriteOver(c, "wrong", wrong[c], read)

\* It was nobody when it was read.
SetResolvedContact(c, p) ==
  /\ resolved' = [resolved EXCEPT ![c] = p]
  /\ WriteOver(c, "resolved", resolved[c], Nobody)

RecordRiskSignal(c, type) == signals' = [signals EXCEPT ![c] = @ \cup {type}]

\* Mutant: the gate is opened to the person.
SetVerificationOfContact(c, p) == gate' = [gate EXCEPT ![c] = [customer |-> p, contact |-> p]]

\* set_verification; the account is the contact's company.
SetVerification(c, p) ==
  gate' = [gate EXCEPT ![c] = [customer |-> Stored[p]["customer_id"], contact |-> p]]

ClearAttempts(p) == account' = [account EXCEPT ![p] = [attempts |-> 0, lockedUntil |-> 0]]

CountAttempts(p, n) == account' = [account EXCEPT ![p].attempts = n]

LockAccount(p, n) ==
  account' = [account EXCEPT ![p] = [attempts |-> n, lockedUntil |-> clock + LockWindow]]

Fault == faults < MaxFaults /\ faults' = faults + 1

-----------------------------------------------------------------------------

\* A call arrives: the contact its number belongs to picks the language, and
\* the company of that contact is passed along.
Recognise(c, number) ==
  LET p == LookupContact("phone", number)
  IN  candidate' = [candidate EXCEPT ![c] =
        IF p = Nobody THEN [customer |-> Nobody, language |-> "de"]
        ELSE [customer |-> Stored[p]["customer_id"], language |-> Language[p]]]

\* A lookup that fails is a number nobody knows: no call is lost for it.
Initiate(c, number) ==
  /\ ~Arrived(c)
  /\ \/ Recognise(c, number) /\ UNCHANGED faults
     \/ Fault /\ candidate' = [candidate EXCEPT ![c].language = "de"]
  /\ UNCHANGED <<offered, wrong, resolved, signals, gate, account, clock, lost>>

Tick ==
  /\ clock < MaxClock
  /\ clock' = clock + 1
  /\ UNCHANGED <<offered, wrong, resolved, signals, gate, candidate, account, faults, lost>>

CallerRowsNext == Tick \/ \E c \in Calls, n \in Numbers : Initiate(c, n)
=============================================================================
