# A TLA+ model of the voice billing agent

This directory holds TLA+ modules, TLC configurations and TLAPS proofs about the
backend of the voice billing agent in this repository: the Python Lambdas under
`src/src/` that a voice agent calls during a telephone call, the scheduled job that
applies what a person has approved, and the webhook that closes a call.

Paths are relative to the repository root unless they start with `infra/`, `specs/`,
`docs/` or `tests/`, which are under `src/`; `AD`, `RC` and so on abbreviate the handler
named beside them.

Contents: 1 the system; 2 components; 3 modules and how they correspond to the code;
4 runs; 5 bounds; 6 fairness; 7 proofs; 8 where code and documents disagree; 9 what is
abstracted; 10 what is not modelled; 11 plan; 12 running it.

## 1. The system

Nothing the agent says or does on a call moves money. A caller's agent *asks* (a HubSpot
ticket is raised), a person *answers* in HubSpot (`request_outcome`), and a scheduled run
*applies* the answer to a DynamoDB table, the ledger. There are no transactions and no
locks. What the parts share:

* **tickets** in HubSpot, written directly but *found* only through a search index that lags
  (`docs/decisions.md` 12.56 measured about 1.5 s);
* **ledger rows**, written by two conditional operations (`put_if_absent`, `update_if`) and
  read by queries that ask for no consistent read;
* **conversation rows**, which every tool of a call, and the webhook after it, create on
  demand and overwrite field by field;
* the **summary** and **history** of a customer, which concurrent calls share;
* an **audit log**, whose write swallows its own failures.

Every handler is a sequence of network calls; a process may be killed between any two of
them (Lambda timeout of four seconds, `infra/terraform/modules/lambda/variables.tf:32-35`),
and any call may fail, or succeed and have its answer lost. The applier is started every
minute (`infra/terraform/applier.tf:57`) and nothing reserves it to one instance, so runs
overlap. These interleavings are what the models are about.

## 2. Components

| Component | State | Operations | Hard behaviour | What makes it correct |
|---|---|---|---|---|
| credit rules `domain/credit.py`, `domain/risk.py` | none | `evaluate_credit`, `rolling_credit_total`, `evaluate`, `detect_history_signals` | inclusive ceilings, a date cut-off, order of refusals | limits hold, decisive signals decide alone |
| `request_credit` | conversation row (signals, display status) | read ledger, read open tickets, screen, decide, raise | reads before writes over the network; repeats; lost answers; signals recorded meanwhile | REQUESTED means there is a ticket; suspects never ask; a repeat gets the open ticket |
| `apply_decisions`, credits | ledger credit notes | search, recheck, put, audit, note, refuse | overlapping runs, kills, stale reads, reversals, disputes | only accepted credits, once, as asked, within the ceilings; every acceptance answered |
| `apply_decisions`, allocations | ledger payments and invoices | search, recheck, move, settle each, audit, note | a kill between payment and invoice; two tickets for one payment; malformed tickets | a payment moves once and its invoices are settled |
| `propose_allocation` | none of its own | read rows, search, decide, raise | stale row, lagging index, two callers | told "under review" only if it is |
| HubSpot adapter | tickets, notes, index | create, note, two searches | lag, one page of 100, notes in two requests | searches find what they should |
| `verify_identity`, `check_factor`, `common/guessing.py`, `domain/verification.py` | factor attempts, wrong values, resolved contact, gate; counter and lock of the account | look up, count, compare, count mistakes, move the counter, admit; check one detail | read-modify-write of counters, several calls under way at once, two endpoints counting together | only the proved are verified, no judging beyond the allowance, locks are earned and last |
| `create_escalation` | callback on the row, ticket | identity, gate, ticket or append, callback, audit | CRM down, callback not recordable, call cut off | promised only what is on the row |
| `post_call` | performance, history, metrics, summary, preferences, callback | claim, six steps | duplicates, kills after the claim, two calls folding at once | each step once; failed transfers called back |
| `match_payment`, `domain/payment_match.py` | none | gate, invoice, payments, rule, address | rows that move between reads; ties; a typo that is another invoice's key | told only of the account proved; a match is the one payment that fits |
| `conversation_init` | candidate and language of the call | look the number up | a lookup that fails | no call is lost |
| `get_account_context` | none | gate, ledger, CRM, summary | CRM down, list cut short, rows settled meanwhile | told only of the account proved, and of everything owed |
| policy, audit, adapters, HTTP, formatting | | | | |

The hazards this list gives rise to are in `PROJECT.json`, each at its line.

## 3. Modules

```
CreditRules ── Ledger ──┬── RequestCredit ──┐
               Crm ─────┴── ApplyDecisions ─┴── CreditFlow ──── MCCreditFlow
                                                  │  └───────── CreditFlow_proofs
                                                  └ refines     CreditPromise
FiniteSums ──┬── CreditFlow_proofs
             └── CallDeskAnswers_proofs

PaymentLedger ──┬── ProposeAllocation ──┐
Crm ────────────┴── ApplyAllocations ───┴── AllocationFlow ──── MCAllocationFlow
                                                  │  └───────── AllocationFlow_proofs
                                                  └ refines     AllocationPromise

CallRecord ──┬── Escalation ──┐
             └── PostCall ────┴── CallEnd ───── MCCallEnd
                                     └───────── CallEnd_proofs

Factors ──── CallerRows ──┬── VerifyIdentity ──┐
                          ├── CheckFactor ─────┤
PaymentMatch ─ OpenItems ─┼── MatchPayment ────┤
                          └── AccountContext ──┴── CallDesk ──── MCCallDesk
                                                     │  └─────── CallDesk_proofs ──┬── CallDeskLimits_proofs
                                                     │                             └── CallDeskAnswers_proofs
                                                     └ refines   GatePromise
PaymentMatch ──── PaymentMatch_proofs ──── CallDeskAnswers_proofs
```

The exact lines each definition stands for are under `map` in `PROJECT.json`. A few
definitions are commented `Mutant:`; no specification uses them. Each is the bug that a
property must be able to see, and `PROJECT.json` says which property it breaks.

### The credit workflow

* **CreditRules**: `evaluate_credit`, the two totals, risk evaluation and the threshold
  splitting rule, as operators. A charge is a record, or `NoCharge` where
  `entry_from_ledger` returns `None`. A list of risk signals is a bag, because the code
  counts repetitions.
* **Ledger**: `credits` are the credit-note rows. `Put` is `put_if_absent` on `cn_<ticket>`.
  `LedgerReads` is what `dynamo.query` may return: all notes, or, with `StrongReads` false,
  any set between those replicated and all of them. Disputes are opened and resolved by
  finance.
* **Crm**: `ticket` is what HubSpot stores, `index` what a search knows. `Reindex` closes the
  gap at any time. `Decide` is a person, who may change an earlier answer; `RaiseByHand` is a
  ticket the endpoint's rules have never seen, which the applier has to expect. `accepted`
  is a history variable.
* **RequestCredit**: `request[r]` is one invocation; its `pc` says which call comes next.
  `ReadLedger`, `ReadPending`, `Screen`, then `Refuse`, `AnswerWithOpenTicket` or `Permit`,
  then `RaiseRequest`. `RaiseUnanswered` creates the ticket and loses the answer;
  `FailRequest` is any other failure. `Screen` first writes the history signals to the
  conversation and `Decision` adds them again to what is read back, as the code does
  (`request_credit.py` 103-112). `suspect` is a history variable.
* **ApplyDecisions**: `applier[a]` is one run: `Fetch` a page, `Revalidate` a ticket of it
  against a fresh read, `PutCredit` or `AlreadyApplied`, `AuditCredit`, `NoteApplied`, or
  `NoteRefused`. `PutUnanswered`, `LoseAudit`, `FailTicket`, `FailRevalidate` and `CrashRun` are
  the failures at each point. Which ticket is next is any of the page: HubSpot promises no
  order.
* **CreditFlow** puts them together, one step of one part at a time, and states the
  properties. **CreditPromise** is the abstract specification: no conversations, searches or
  runs, only *ask*, *approve*, *grant*. CreditFlow implements it with
  `granted <- credits, approved <- accepted, asked <-` the tickets' payloads.

### The allocation workflow

* **PaymentLedger**: the rows with status, `allocated_to`, `settled_by` and source ticket.
  `MoveIfUnallocated` and `SettleUnlessPaid` are the two `update_if`s. Payments clear and
  invoices are settled elsewhere by external actions.
* **ProposeAllocation**: the ownership check, the open-review search, `decide_allocation`, the
  ticket, the audit event; a get may answer a stale status.
* **ApplyAllocations**: the branch of the applier for a ticket without a credit amount.
  `Recheck` re-reads the rows and the arithmetic, `MovePayment`, then one `SettleInvoice` per
  invoice, `AuditAllocation`, `NoteAllocated`. `SkipMalformed` is a ticket that raises an error the
  loop catches, `AbortRun` one that raises an error it does not.
* **AllocationFlow** composes them with the same **Crm**; **AllocationPromise** is what they
  implement: a payment is given to invoices once, for an accepted ticket and only if it covers
  them, and a row is settled once, by a payment given to it. A row that is given may itself be
  settled later, like any row a ticket names as an invoice (section 8), and is not given afterwards; the mapping reads a payment
  that was settled as one whose ticket is forgotten.

### The end of a call

* **CallRecord**: the fields of the conversation row (`verified`, `callback`, `claimed`) and the
  tickets escalations raise.
* **Escalation**: `Begin` (identity and the gate on the reason), `CreateTicket`, `AppendToTicket` or
  `TicketUnanswered`, `Promise` or `PromiseFails`, `Respond`.
* **PostCall**: `Claim` or `AnswerDuplicate`, then the six steps in the order of the code. The
  summary is two steps, `ReadSummary` and `Fold`, since that is where two calls meet.
  `FailStep` is a step that raises (the delivery carries on), `CrashDelivery` a kill (it does
  not).
* **CallEnd** composes them and states the properties.

### The call desk

A call from the moment it arrives to the point where money is talked about.

* **Factors**: `domain/verification.py` as operators: what each answer is reduced to (spelled
  emails, trailing digits, dates in their styles and centuries), fingerprints, enumeration, and
  `CheckFactors`. An email is a sequence of letters, signs and names of signs; a date is its
  three numbers and the style they were said in.
* **CallerRows**: the conversation row (`offered`, `wrong`, `resolved`, `signals`, `gate`), the
  counter and lock of each contact's record (`account`), the candidate of `conversation_init`
  (`Initiate`), and the clock. A write that extends what was read takes the value that was read
  and replaces what is there; `lost` is a history variable that counts the writes that replaced
  something they had not seen.
* **VerifyIdentity**: `attempt[v]` is one invocation. `BeginAttempt` finds the record and reads
  what was offered, `CountOffer` writes it, `SuspectGuessing` ends it; then `ReadRecord`,
  `ReadWrongValues`, `MarkWrongValues`, `Settle` (the counter and the lock), `NoteConflict` and
  `Admit`. `FailAttempt` is a call to the table that fails, and `Conclude` loses the answer of
  the last write.
* **CheckFactor**: `check[k]` likewise: `BeginCheck`, `CountCheck` (and the date that can be read
  two ways), `SuspectGuesser`, `ResolveOnce`, `Remember`.
* **PaymentMatch**: `domain/payment_match.py` as operators, the edit distance row by row as the code
  fills its table. `NearMissesOf` is what the distance is meant to be: the strings that so many
  edits, one after the other, make of the key.
  **OpenItems**: invoices and payments of several accounts, settled and allocated meanwhile by
  others. **MatchPayment**: gate, invoice, payments, and the payments once more for the address.
* **AccountContext**: gate, ledger, CRM, summary. `ReadCrm` that fails is an answer that says
  less; anything else that fails is no answer.
* **CallDesk** puts them together, any number of invocations under way at once, and states the
  properties. **GatePromise** is the abstract specification of its first half, who is let in: no rows,
  no reads, no invocations that overlap. A caller *offers* answers or *asks* about them, is *told*
  about values, *refused*, *let in*; an account is *locked* and *freed*; counts are *lost*. Each has the
  grounds it may happen on, all in terms of what was offered on the call. CallDesk implements it
  (`ImplementsGate`) with `letIn <-` the gate, `freeAt <-` the locks, `now <- clock`, `offers`, `heard`,
  `told` and `refused <-` what the invocations have sent and been answered, and `losses <- lost`.

## 4. Runs

Nine runs must find no error.

| Run | Question | Properties |
|---|---|---|
| `credit_serial` | One run of the applier at a time, reads that see every write; two days, a fault, disputes, every kind of ticket. | `RollingCeiling` and `EntryCeiling` (exact here), `ImplementsPromise`, `DisputeStopsTheCredit` |
| `credit_ask` | Two invocations on one conversation with signals, account changes, stale reads, lost answers, and the applier. | `TypeOK`, `CreditsWereAccepted`, `RequestedMeansRaised`, `SuspectCallsAskForNothing` |
| `credit_apply` | Two overlapping runs near both ceilings, one fault anywhere, fairness. | `RollingCeiling` and `EntryCeiling` (each gives way by one credit at most), `CreditsAreAudited`, `ImplementsPromise`, `AcceptedIsAnswered` |
| `allocation` | A proposal, tickets raised by hand, one of which names the payment as its own invoice, and two overlapping runs want one pending payment; stale reads, lagging index. | `TypeOK`, `ReviewIsReal`, `MovedIsSettled`, `ImplementsPromise` |
| `allocation_live` | Every kind of ticket, one fault anywhere, fairness. | `MovedIsSettled`, `AcceptedIsActedOn` |
| `call_end` | Two calls end at once, two escalations under way, two deliveries that may be of the same call, one fault. | `TypeOK`, `PromisedIsOwed`, `NothingForTheUnverified`, `FoldedOnce`, `FailedTransferIsCalledBack`, `CallsAreOnRecord`, `NoCallIsForgotten` |
| `identity` | Three calls to the two identity endpoints on one conversation, at once or in turn, with mistakes repeated, respelled, made together or about somebody else. | `VerifiedIsProved`, `AllowanceHolds`, `LockedCallStaysLocked`, `LockIsEarned`, `OneRecordPerCall`, `GuessingIsEarned`, `UnlockNeedsTimeOrProof` |
| `gate` | Two verifications and one check of a detail overlap, and an answer or a write is lost. | `ImplementsGate` |
| `call_desk` | A verification, questions about payments and a reading of the account interleave while rows move; one fault anywhere. | `TypeOK`, `MatchesAreForTheVerified`, `ContextIsForTheVerified`, `MatchIsTheOnlyFit`, `TypoIsANearMiss`, `OutstandingIsComplete` |

What they show, in words:

* The ceilings of FR-013b and FR-013d hold exactly only while one run is active and reads
  are current. Each further run that overlaps can carry a customer past either by one
  credit at most (`Overshoot`); that this holds of any number of tickets and runs is proved. With stale reads they give further, and no run claims
  otherwise.
* Whatever overlaps, fails or is repeated: a credit is written once per ticket, only after
  acceptance, for the amount and charge of the ticket, within the per-request limit.
  A dispute opened before the recheck stops it; one opened between the recheck and the put
  does not.
* Every acceptance that is not withdrawn is answered. A fault loses at most one audit event
  or leaves at most one payment half done; no interleaving without a fault loses any.
* A delivery that answers OK with nothing failed has left the call on record and, after a
  failed transfer, a callback. After a kill nothing makes it good: the claim stays, and every
  redelivery is a duplicate (FR-040, `post_call.py` 46-48).

* Whatever attempts are under way at once, a call is verified only as somebody whom one attempt
  proved, and a lock is neither earned by one mistake said three ways nor lifted by another
  mistake; nobody is stopped for guessing who only repeats or respells an answer. To a caller it is
  as if the desk saw every offer and did one thing at a time, but for counts that are lost. The allowance of two values per field is one allowance for both endpoints; each
  write that is lost to another starts it afresh, and nothing else does.
* A caller is told of payments and invoices only of the account they proved, also when
  somebody else is verified on the call while the answer is on its way; the match they are told
  of is the only payment they can mean; and everything still owed is in the sum they hear.

Three more runs each check one statement that a document, comment or test makes and that the
code does not keep; TLC finds the counterexample. They are in section 8.

`CHECK_DEADLOCK FALSE` appears where the system may really stop: when every invocation of the
endpoint, every escalation, every delivery and every tool call has been made, and when there is nothing for
the allocation applier to find. In the other runs reviewers can always change an answer.

## 5. Bounds

| Bound | Value | Why it is enough |
|---|---|---|
| `Tickets` | 2 | two compete for a ceiling or a payment |
| `SeedCredits` | 1, or 2 in `credit_apply`; the ceilings are at 3 | from 1 one large credit fits and a second does not; from 2 one small credit fits, two do only if their runs overlap, and a large one never does |
| `Appliers` | 1 or 2 | 2 is the least overlap; `Overshoot` is linear in the number |
| `Requests`, `Conversations` | 2 on 1 | a repeat, and signals shared between the two |
| `Amounts`, `Billed` | within 1..3; 3 and 2 | `MaxPerRequest` 2, `MaxRolling` 3: below, at and above every limit; the rules only add and compare |
| entries | 2 and one foreign | a credit may be against another charge, or one the customer does not have |
| `MaxDay` | 0 or 1 | 1 lets a credit leave a `WindowDays` of 0 and a ticket age; 0 elsewhere |
| `MaxFaults` | 0 or 1 | a fault may come at any point; every loss is counted against the number of faults. The proofs have no bound |
| `LookbackDays`, `SearchLimit` | 1, 100 | within a page; beyond one the liveness properties fail (section 9) |
| rows | one payment, one or two invoices; two of each in `allocation_half_done` | a payment that covers both invoices (`allocation_live`), and a pending one that two tickets want (`allocation`) |
| `Calls`, `Deliveries`, `Escalations` | 2 each | both deliveries of one call, or one of each; both escalations on one call, or one on each |
| people, invoices, payments | 2 of 2 companies; 3 and 1 invoices, 4 and 1 payments | one to be taken for the other; ties, typos, another invoice's key, and more owed than is read out (`MaxInvoices` 2) |
| `MaxInvocations` | 3 | two that overlap and one before or after; a third value of one field. `call_desk`: verify, then two at once. `gate`: two verifications and one check |
| `RequiredFactorCount`, `MaxAttempts`, `MaxDistinctValues` | 2 each, 1 and 1 of the last two in `gate` | one value and one mistake let two verifications reach every ground for an answer; with the shipped 3, 3 and 2 a call needs more invocations for the same cases, and its lock is out of reach (section 8) |
| `Said`, `Offers`, `Claims` | 4 emails, 2 phones, 2 dates; 4 offers (3 in `gate`); 6 claims | each right, wrong, wrong in another spelling, wrong in another way, the other person's, unreadable or ambiguous |
| `MaxClock`, `LockWindow` | 1 and 1; 0 in `call_desk` | a lock is set and runs out |
| `MaxFaults` at the desk | 0 in `identity`, 1 in `gate` and `call_desk` | `identity` was also explored with 1 (two million states, no error); it is left out for time, and the proofs cover any number |
| `HandPayloads` | `MCHandOdd` in `allocation` | a right ticket and one that names a payment among its invoices; the kinds a form may be filled in wrong (`MCHandRaised`) are in `allocation_live` |
| `Moving` | one invoice, one payment | settled or allocated at any moment of the call, or never |
| `SourcesKept` | 20 | the code's value; never reached, so forgetting is never excused |

Symmetry is used on tickets, runs, invocations, calls and deliveries, only under
specifications without fairness and without temporal properties that distinguish them:
the action properties and refinements checked with symmetry are invariant under the
permutations. Liveness runs use none.

## 6. Fairness

`FairSpec` assumes weak fairness of

* `Reindex(t)`: HubSpot's index catches up. The documents measure the delay and rely on it;
* `Fetch(a) \/ ApplierStep(a)`: EventBridge starts a run every minute
  (`rate(1 minute)`, `infra/terraform/applier.tf:57`), an asynchronous failure is retried, and a
  run that is not killed goes on to its next call.

It assumes nothing of reviewers, callers, finance, days, or faults, and no fairness among the
tickets of a page: a run takes the whole page, so each gets its turn. Faults are finite
(`MaxFaults`), which is what "eventually" can mean for a retry loop.

The call-end and call-desk runs check safety only: a tool call that is given up answers nothing
and owes nothing, and nothing retries it.

## 7. Proofs

### The credit workflow

`CreditFlow_proofs` proves, for every set of tickets, runs, invocations, conversations,
entries and amounts, every policy value and every number of faults, with stale or current
reads:

| Theorem | States |
|---|---|
| `GrantedObeysTheRules` | what a grant implies: the per-request limit, both ceilings as they stood, an active account, a charge that exists and is not disputed, no high risk |
| `InvariantIsInvariant` | `Spec => []IInv` |
| `TypesAreKept` | `Spec => []TypeOK` |
| `OnlyAcceptedCredits` | `Spec => []CreditsWereAccepted` |
| `NoEmptyPromise` | `Spec => []RequestedMeansRaised` |
| `SuspectsAreRefused` | `Spec => []SuspectCallsAskForNothing` |
| `DisputeIsRespected` | `Spec => DisputeStopsTheCredit` |
| `WorkflowKeepsThePromise` | `Spec => Promise!Spec`: CreditFlow implements CreditPromise |

**Assumptions.** The named `ASSUME`s of `CreditRules`, `Ledger`, `Crm`, `RequestCredit`,
`ApplyDecisions` and `CreditFlow`: limits and days are natural numbers, payloads are entry and
amount, the credits on the ledger at the start are not of the tickets of the model, special
values are distinct from ids. TLC evaluates them in every credit run.

**The invariant.** None of the safety properties is inductive. `CreditsWereAccepted` depends
on what a run holds between its recheck and its put, so `IInv` adds

* `AcceptanceInv`: a ticket that is Accepted, in the CRM or in the index, was accepted by a
  person, and one that is absent has no payload. The index can lag but not invent;
* `RunInv`: the page and the ticket in hand of every run were accepted, and a run about to put
  has a payload within the limit, about a charge of the ledger;
* `InvocationInv`: what an invocation read exists, a conversation that was suspect when it
  began still is (signals are only added), and a `REQUESTED` answer names a stored ticket;
* `TypeOK`, which the arithmetic needs.

**The argument.** Two lemmas say once what any step can do to the CRM and to the ledger
(`CrmStep`, `LedgerStep`); `TicketsAreKept` says that no step loses a ticket, changes its payload
or forgets an acceptance. The preservation lemmas use those instead of going through all the
actions again, and go through the actions only for the variables of the part they are about.
`WorkflowKeepsThePromise` maps `CreateTicket` to *ask*, an acceptance to *approve*, a put to
*grant*, everything else to a stutter.

### The call desk

`CallDesk_proofs` proves, for every set of calls, people, answers, invocations, invoices and
payments, every policy and every number of faults:

| Theorem | States |
|---|---|
| `DeskIsTyped` | `Spec => []DeskInv`: rows, attempts and checks hold what the code can put in them |
| `OnlyTheProvedAreVerified` | `Spec => []VerifiedIsProved` |
| `LocksLast` | `Spec => UnlockNeedsTimeOrProof` |
| `LocksAreEarned` | `Spec => []LockIsEarned` |
| `DetailsAreOfOne` | `Spec => []OneRecordPerCall` |
| `MatchesAreTheirs` | `Spec => []MatchesAreForTheVerified` |

**Assumptions.** `FactorsAssumption`, `CallerRowsAssumption`, `VerifyIdentityAssumption`,
`PaymentMatchAssumption`, `MatchPaymentAssumption`, `OpenItemsAssumption` and `AccountContextAssumption`: policies are
positive, invoices and payments are finitely many, invoices have a number and a key, every record has its factors, ids of people and of companies are different things,
and agents send what callers can be heard to say.

**The invariants.** Four, each built on the one before:

* `DeskInv`: the types, and that an attempt about to open the gate has a verdict `VERIFIED` for the
  contact it found. The gate is opened two writes after the verdict, so `VerifiedIsProved`
  alone is not inductive. `VerifiedProves` is the lemma that such a verdict is a proof;
* `LockInv`: every value on the row as wrong *was made* by some attempt of the call (`Made`), and
  an attempt that holds a count at the limit, between reading the values and moving the counter,
  is of a call that has made so many different mistakes in one field (`CountOK`). Lost writes only remove values, which is
  why locks stay earned whatever overlaps;
* `RecordsInv`: the people some detail of a call has been matched with, and the one it is
  resolved to now, number at most one more than the resolutions that replaced another;
* `QuestionsInv`: a question past the gate is for an account that was proved, its invoice is of
  that account, and so is the payment it found. `ReadersOnlyRead` and `AccountStaysProved` say
  that nothing that happens meanwhile takes this away.

**The argument.** `AttemptsMove` and `ChecksMove` say once what any step does to the
invocations: they only go forward, keep what they were asked, and what has been answered
stays answered. The other lemmas cite these and go through the actions only for the variable
they are about (`OnlyAdmitOpens`, `OnlySettleCounts`, `OnlyMarkWrites`, `OnlyRememberResolves`).

`CallDeskLimits_proofs` adds the two properties that count:

| Theorem | States |
|---|---|
| `AllowanceIsKept` | `Spec => []AllowanceHolds` |
| `LockedCallsStayLocked` | `Spec => []LockedCallStaysLocked` |
| `StoppedHaveGuessed` | `Spec => []GuessingIsEarned` |
| `GateIsKept` | `Spec => ImplementsGate`: the two endpoints implement GatePromise |

None is inductive. `AllowanceInv` splits the judged values of a field into those on the row,
which are within the allowance while no write was lost, and those that a lost write took off it,
of which there are at most an allowance for each write that was lost (`WithinAllowance`). A value
is judged only after it was written (`JudgedIsCounted`, `CheckedIsCounted`), only the two counting
steps write (`OnlyCountingWrites`), and what they write over is either what they had read or is
lost with one more count (`JudgedGrowsByTheCounted`). `BarredInv` follows an attempt that began
after LOCKED was said: while nothing is lost, what locked the call is still on the row
(`OfferedStays`, `WrongStays`), so the attempt ends at the same guard and never at the gate. `GuessInv` says of the row, and of what
every invocation has read of it, that each value on it was offered on the call (`Shown`), and that
whoever is about to be stopped has guessed (`Guessed`): the code counts fingerprints of the row, the
property counts values that were heard.

`GateIsKept` needs all of these: `GateInv` is `DeskInv`, `LockInv`, `BarredInv`, `GuessInv` and
`AllowanceHolds` together, and `StepIsPromised` maps each step, from a state in which it holds, to a step
of the promise. What a caller is told and what is done to an account come from one decision in the code but reach the
caller some writes apart, so each abstract step has its own place among the concrete ones:

| Step of the desk | Step of the promise | Grounds from |
|---|---|---|
| `BeginAttempt`, `BeginCheck` | *offer*, *ask* | none (`OfferingIsPromised`, `AskingIsPromised`) |
| an answer about values | *tell* | `AllowanceHolds`, `GuessInv` (`SayingIsPromised`, `CheckIsPromised`) |
| an answer that turns the call away | *refuse* | `GuessInv`, `LockInv` (`StoppedAsPromised`) |
| `Settle` | *lock* or *free*, with or without being turned away | `LockInv`, `VerifiedProves` (`SettlingIsPromised`) |
| `Admit` | *let in* | `DeskInv`, `BarredInv` (`AdmittingIsPromised`) |
| a write over one that was not seen | *lose a count* | none (`LossAsPromised`) |
| every other step of any tool | a stutter | |

`CallDeskAnswers_proofs` is about what is said at the end, under the same assumptions:

| Theorem | States |
|---|---|
| `ContextIsTheirs` | `Spec => []ContextIsForTheVerified` |
| `NothingOwedIsMissing` | `Spec => []OutstandingIsComplete` |
| `NoOtherIsMeant` | `Spec => []MatchIsTheOnlyFit` |
| `TyposAreNearMisses` | `Spec => []TypoIsANearMiss` |
| `EverythingIsTyped` | `Spec => []TypeOK` |

An answer is fixed when the ledger is read and spoken some steps later, so its properties speak of
two moments. `ReadingInv` and `FitsInv` relate what an invocation has gathered to the ledger as it is
*now*, at every program point after the read (`Complete`, `OnlyFit`). Both hold when the ledger is read
(`ReadingIsComplete`, `MatchedIsOnlyFit`), and a ledger whose rows move one way keeps them
(`CompleteStaysComplete`, `OnlyFitStays`, with `ItemsMoveAlone`): an invoice settled since makes
a sum no less complete, and a payment allocated since leaves the match the only one.

The list that is read out is a sorted one, chosen among the listings of a set. That there is one is the
least counterexample again: the heaviest member of a finite set (`OneIsHeaviest`) completes a sorted
listing of the others (`HeaviestComesLast`, `SortedListing`), and a listing has every member because it
repeats none (`ListingLists`). Invoices with the same date come in any order, and the model has
two such at the point where the list is cut.

### The edit distance

`PaymentMatch_proofs` proves of the table that `edit_distance` fills, for every key and every string
over any characters:

| Theorem | States |
|---|---|
| `TheDistanceIsTheEdits` | the distance is at most `TypoDistance` exactly when the string is among `NearMissesOf` the key |

**Recursion.** What a recursive function computes is an induction over its argument. A set that
has 0 in it, and with every number the next one, has all numbers (`AllNumbers`): the least number
missing would have one before it (`WFMin` over the naturals). `RecursionIsDefined` gets from it that
what is computed from the value before, step by step, exists and is the only thing that takes these
steps; it is used for a row (`NextRowFollows`), for the table (`DistanceIsInATable`) and for the sets of
`NearMissesOf` (`NearMissesAreNearOnes`).

**No further than the edits.** Neighbouring entries of the table differ by one at most
(`RowsFollowClosely`), so one edit makes a row differ by one at most (`RowsDrift`), and rows that go on with
the same characters stay as close as they are (`RowsStayClose`, `TablesStayClose`). Hence one edit adds one to the
distance at most (`OneEditIsOneMore`), and the key is at distance 0 (`NoDistanceFromItself`).

**No fewer edits than the distance.** The entry at row `k` and column `j` counts edits that make the
string that begins as the first `k` characters of what is written and ends as the key does after `j`
(`Halfway`, `RowIsReached`); each of the three ways an entry is computed is one edit, or none where the
characters agree (`HalfwayIsOneEdit`, `HalfwayIsTheSame`). The last entry is for what is written itself.

Keys and references are strings, that is sequences of characters (`OpenItemsAssumption`); nothing else
is assumed of them, nor of `TypoDistance` but that it is a number.

### The ceilings and the audit log

The last part of `CreditFlow_proofs` proves what counts credits, for any number of runs:

| Theorem | States |
|---|---|
| `RollingCeilingGivesWayByTheOverlap` | `WithinAtFirst` implies `Spec => []RollingCeiling` |
| `EntryCeilingGivesWayByTheOverlap` | `WithinAtFirst` implies `Spec => []EntryCeiling` |
| `AuditsAreLostToFaultsOnly` | `Spec => []CreditsAreAudited` |

**Hypotheses.** `WithinAtFirst`: reads see every write (`StrongReads`; with stale reads the ceilings
do give way further, section 4), at least one run and finitely many at a time, a finite number of
credits at the start, and a customer who is not past the ceilings then. The audit theorem
has no hypothesis.

**The invariant.** `CeilingInv`: what is on the ledger *and what runs have in hand to write* is
within the ceiling and the margin. A run that takes a ticket up has read the whole ledger, so the
ledger and its own credit are within the ceiling, and each of the other runs has at most one
credit in hand (`CeilingsTakeUp`); a write moves a credit from a hand to the ledger (`CeilingsWrite`);
nothing else adds (`CeilingsWait`). `AuditInv` says that the unaudited credits no run is about to audit
are at most the faults, and that there are finitely many.

**The sums.** `Total` folds a choice over a set, so what it computes is recursion over data.
`FiniteSums` gets the laws of such sums, for any weights (unfolding by any member, adding one, monotone, bounded by the
number of members) without an induction principle, by the least counterexample: strict inclusion is
well-founded on the subsets of a finite set (`FS_StrictSubsetOrderingWellFounded`), so a law that some
subset breaks has a smallest subset that breaks it (`SmallestSet`). The totals of credit notes here and
those of invoices at the call desk are such sums (`TotalIsSum`, `OwingIsSum`).

### The allocation workflow

`AllocationFlow_proofs` proves, for every set of payments, invoices and tickets, every number of
proposals, runs and faults, with stale or current reads:

| Theorem | States |
|---|---|
| `InvariantIsInvariant` | `Spec => []IInv` |
| `TypesAreKept` | `Spec => []TypeOK` |
| `HalfDoneNeedsAFault` | `Spec => []MovedIsSettled` |
| `ReviewsAreReal` | `AuthorityMax = 0` implies `Spec => []ReviewIsReal` |
| `WorkflowKeepsThePromise` | `Spec => Promise!Spec`: AllocationFlow implements AllocationPromise |

`AuthorityMax = 0` is the policy as shipped (`allocation_authority_max`); with more, the endpoint
answers ALLOCATED and has allocated nothing (section 8), so the property does not hold.

**The invariant.** `AcceptanceInv` as for credits; `RowInv`: what a row's status says about its
other fields; `RunInv`: a ticket in hand was accepted, names invoices, and a run between payment and
invoices has its payment given to the invoices of the ticket, all but the ones left being paid;
`ProposalInv`: what an invocation has read and answered is so or was so; and the payments that are
half done, with nobody at work on them, are at most the faults. `CrmStep` and `RowStep` say once what
any step does to the CRM and to the rows; rows only move forward (`RowsAreKept`), which is why what
a run read between two of its calls is not taken back by another.

### The end of a call

`CallEnd_proofs` proves, for every number of calls, escalations, deliveries and faults and any
`SourcesKept`:

| Theorem | States |
|---|---|
| `InvariantIsInvariant` | `Spec => []IInv` |
| `TypesAreKept` | `Spec => []TypeOK` |
| `PromisesAreKept` | `Spec => []PromisedIsOwed` |
| `UnverifiedGetNothing` | `Spec => []NothingForTheUnverified` |
| `CallsAreFoldedOnce` | `Spec => []FoldedOnce` |
| `CallsAreRemembered` | `Spec => NoCallIsForgotten` |
| `FailedTransfersAreCalledBack` | `Spec => []FailedTransferIsCalledBack` |
| `CallsAreRecorded` | `Spec => []CallsAreOnRecord` |

**The invariant.** `EscalationInv`: what an escalation knows of its call stays so; `ClaimInv`: the
delivery that claimed a call is the only one at work on it; `SummaryInv`: a call that is still to be
folded is not in the summary, the summary repeats nothing, and a delivery about to fold has read
the summary of the version it read. The last is what the version check relies on: the update is conditional on the
version alone, so the property needs that a version names one summary. `RecordInv` and
`CompletionInv`: what each step leaves behind, while there was no fault. The first gives `FoldedOnce`
together with `NoRepeatCounts`, a sequence that repeats nothing has as many elements as it is long.

### Model-checked only

* Everything under fairness: `AcceptedIsAnswered` and `AcceptedIsActedOn`. Liveness
  under fairness is beyond the provers installed.

## 8. Where code and documents disagree

Each with a run that exhibits it (`findings` in `PROJECT.json` quotes both sides):

* `credit_false_note`: a run re-checks a ticket that is already applied before it looks for its
  note, counts that credit against itself, and writes on the ticket "Nothing has been
  credited.", although re-applying is documented to be a no-op. It happens every minute for
  the seven days the ticket is still searched for, whenever a repeat would break a limit;
* `allocation_half_done`: a run stopped between payment and invoice leaves a payment that is
  allocated to an invoice that stays unpaid; no later run gets that far;
* `own_number`: a caller who rings from the number on their own record is recorded as a conflict of
  identities, since `verify_identity.py` 122 compares the company that `conversation_init.py` 62
  passes with the id of a person. The signal is decisive (`risk.py` 42) and refuses every credit of
  the call. The test that says otherwise (`tests/contract/test_verify_identity.py` 388) sends a
  contact id; `tests/integration/test_webhooks.py` 92 is named
  `test_the_candidate_is_the_company_not_the_person`.

Others met while modelling, kept here and in the hazards rather than as runs. About money:

* A repeat of an open request is evaluated with the open request counted against it, and the
  open ticket is only looked for after a grant (`request_credit.py` 118): a repeat for more than
  what is left is denied, where `spec.md` 214-216 wants the open ticket returned. A caller who
  asks for 2 on a charge of 3, twice, is told DENIED_EXCEEDS_ENTRY.
* One accumulating risk pattern is recorded on the conversation (103-104) and added again to what
  is read back (112), so it counts twice, reaches the threshold and refuses a credit, although
  `risk.py` 35-37 says "one repeated dispute is a customer with a problem".
* The reconciliation of a failed transfer (`post_call.py` 352) looks for a callback under a name
  that nothing writes and replaces the one `record_callback` wrote, its reason and its ticket.
  `tests/unit/test_post_call.py` 194, `test_a_callback_already_recorded_is_not_duplicated`, stubs a
  row of a shape no code writes.
* An accepted ticket with an empty `related_entry_id` raises `IndexError` (`apply_decisions.py`
  159), which the loop does not catch although its docstring (45-46) says one ticket does not
  stop the rest. `AcceptedIsActedOn` excepts that case and `AbortRun` models it. Such a ticket
  would stop credits of the same page too.
* The account's status is not re-checked when a credit is applied (273), although FR-013g
  (`specs/001-voice-billing-agent/spec.md` 670-672) reads as if it should be; nor is the status of an
  invoice when a payment is allocated to it, which the docstring (152-154) gives as the reason
  for the recheck.
* A request repeated before the index has the first ticket raises a second one
  (`request_credit.py` 120-122).
* A ticket whose payment is still `PENDING` when it is applied is counted `already_applied` and
  nobody is told. `AcceptedIsActedOn` counts that as acted on.
* A malformed ticket is tried again every minute and noted nowhere.
* Nothing tells a payment from an invoice among the ids of a ticket (`apply_decisions.py` 163-166, 197-220): a
  ticket raised by hand that names a payment as an invoice is applied, and the payment becomes
  PAID with the source ticket of the settlement, also when it had been allocated. The model allows it, and
  the promise is stated so that it covers it.
* The loser of two folds drops its call, although `post_call.py` 265-266 says it re-reads.
  `NoCallIsForgotten` says only that the winner's stays.
* With a raised `allocation_authority_max` the endpoint would answer ALLOCATED and still only
  raise a ticket; as shipped the policy is zero. `review_ticket_id` is a field nothing writes.

About identity:

* With the shipped policy (three attempts, two distinct values) the lock of an account, and of a
  call, is out of reach unless a write is lost: the third wrong value of a field is the third
  value of it, and is stopped as enumeration first (`verify_identity.py` 76-80). The test of the
  lock (`tests/contract/test_verify_identity.py` 163) stubs the count.
* The counter of an account is set from the mistakes of this call (319), so another call
  lowers it; FR-006 counts "per customer and per caller session", and `data-model.md` 27 has it
  reset on success. A call with too many mistakes that gives the right answers clears the
  counter and the lock, and is told LOCKED all the same (108-119). A verification that read the
  record before a lock was set lifts it.
* A call that was verified stays so when it is later told LOCKED: nothing closes the gate.
* FR-006 wants a risk signal with LOCKED; the lock for wrong values records none, and nothing ever
  records `REPEATED_FAILED_VERIFICATION` (`risk.py` 26).
* `check_factor` answers about the record of a locked account.
* `ambiguous_date` reads a year of two digits as one of the first century; a date in spaced
  digits, clarified or not, cannot be read by `verify_identity`.
* A leap day of a far year whose century before has none makes `_normalise_date` raise
  `ValueError`, which neither endpoint catches.
* `match_payment` reads the payments again for the address (147): a payment allocated meanwhile
  is a discrepancy without the address it is about.

About the rest:

* `common/idempotency.py` has no caller (FR-022, `spec.md` 744); `data-model.md` 80-81 and
  `contracts/tools.md` 108 describe an `UNDER_REVIEW` transition that no code makes.

## 9. Abstractions

* **One customer.** Every ledger query is keyed by customer and tickets of others are filtered
  out; the search page is the one thing customers share (see the last point).
* **Amounts are whole francs.** The code's decimals are exact and only added and compared.
* **Reads close together are one step** where nothing between them is written: the
  conversation row and the ledger at the start of `request_credit`; the two rows of a proposal.
* **A note and its association** to the ticket are two requests in the code and one step here;
  failing in between is a note that was not written, since nobody can read it.
* **Notes are a set**: a refusal written every minute is the refusal, once.
* **History patterns** (contact frequency, disputes, unusual payments) are inputs; threshold
  splitting, which is read off the ledger, is computed.
* **Two loops for one applier.** Credits and allocations are applied by one loop over one page.
  They share no state but the page, so each is modelled over its own tickets.
* **The order** in which a run takes tickets and settles invoices is any order.
* **A call's tools** may be under way when it ends; in the model new ones may begin then, too.
  A step of the webhook that fails after its write differs from success only in the log.
  `known` stands for a payload that names a customer and a contact and has a summary.
* **What is heard.** Capital letters, filler words, ordinals and month names are not in the
  model; the style of a date stands for how it was said. A hash is the pair it is a hash of,
  so different answers never collide.
* **Records of people** do not change during a call; only their counters and locks do. Looking
  somebody up and the read that follows are one step.
* **Agents pass the candidate on** as `conversation_init` gave it, and call tools only after the
  call has arrived. They may call any number of them at once.
* **Rows move one way** during a call: invoices are settled and payments allocated.
* **A summary and tickets** are read in `AccountContext` and have no content there.
* **Lookback and page size.** An applied ticket keeps matching the search for seven days, and
  the search returns one page of 100 in no stated order. `Pages` and `AcceptedRequests` model
  both, but the liveness runs stay within a page and a day: beyond either the code does not
  guarantee that a ticket is ever reached.

## 10. Not modelled

The wording of handoffs, summaries, notes, dates and amounts; metrics rates; the loading of
policy; secrets, parameters, API keys and webhook signatures; logging and redaction: formatting
and I/O, with no state of their own. Prompts, seed and validation scripts, and Terraform are not
the program. `conversation_state.start`, `record_failed_attempt` and `common/idempotency.py` have no
caller. Row expiry (two days) is longer than any call. A query's page limit of 1 MB, two calls of a
customer that start in the same second (`call_history.py` 47), and a ticket that fails for the whole
week it is searched for (`apply_decisions.py` 36) are cases the code does not handle and the models
do not reach.

The workflows are composed each on its own. What passes between them is the conversation row:
`RequestCredit` and `Escalation` take the result of verification, which `VerifyIdentity` computes,
and the signals it records, as external inputs (`Verify`, `RecordSignal`) that may come at any time.

## 11. Plan

Written in this order, the most consequential first: credits (rules, endpoint, applier,
composition, promise, proofs), allocations, the end of a call, the call desk (identity, payment
matching, account context, composition, proofs), then the proofs of allocations, of the end of a
call, of the ceilings, of the desk's limits, of its answers, of its gate and of the edit distance. Left to do:

1. **The applier's page**: credits and allocations in one loop, with more matches than fit.
2. **One call from end to end**: the call desk in place of the external inputs of `RequestCredit`
   and `Escalation`.

## 12. Running it

In this directory: `tlc -workers 2 -config credit_ask.cfg MCCreditFlow`, and likewise for the other
configurations with the module `PROJECT.json` names; `tlapm` with `FiniteSums` and each of the modules
whose names end in `_proofs` for the proofs.
The longest run visits about two million states and takes two to three minutes on two cores; the
proofs take a few minutes.
