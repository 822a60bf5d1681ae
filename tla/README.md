# PayFlex in TLA+

Specifications of [PayFlex](../src/README.md), a payments and microfinance
application on top of BMONI's wallet API: a NestJS backend (`backend/src`), a
Flutter app (`app/lib`) and a Postgres database reached through Prisma.  The
modules are translated from the source; TLC checks them on small instances and
TLAPS proves the main results for every value of the constants.

## The system

Everything that moves money in PayFlex is one thing: a BMONI *transfer
proposal*.  It is created, BMONI prepares a payload for it, somebody signs the
payload, and BMONI executes it when the wallet can pay for it.
`TransferService` is the only caller of the proposal endpoints; links, split
bills, savings, loans and agents decide "who, how much" and then keep a row of
their own beside the proposal.

| Component | State it keeps | Operations that change it |
|---|---|---|
| BMONI (external) | proposals, wallets, KYC | everything below ends in a call to it |
| `TransferService` | `TransferProposal` rows | `createTransfer`, `submitSignature`, `reject` |
| `LinksService` | `ClaimableLink` rows | `sendViaLink`, `claim` |
| `SplitBillService` | `SplitBill` and contributor rows | `create`, `pay` |
| `SavingsService`, its cron | goals and contributions | `createGoal`, `runDueCheck`, `contribute` |
| `LoansService` | applications and repayments | `apply` (with disbursement), `payRepayment` |
| Credit scoring | none | pure: `score` |
| `TreasuryService` | cached ids, the treasury's key | signs loans and releases |
| `UsersService` | `AppUser` rows | `getOrCreate`, `setOwnerAddress` |
| `OnboardingService` | wallets, rail rows | `createSmartWallet`, `start*`, `getVbaUsdStatus` |
| `KycService` | KYC profiles | `submit*`, `patch`, `getReadiness`, `activate` |
| `PayTagService`, `QrPayService` | PayTags; none (HMAC tokens) | `register`; `pay` |
| `AgentService` | agents' flag and ledger rows | `setAgentStatus`, `cashIn`, `cashOut` |
| Payments, wallet, webhooks | none; webhook log | forwarded calls, one of which creates a withdrawal proposal; one insert |
| Sandbox scripts | where they are | one person taken through onboarding, step by step |
| App | stored user id, screens | transfer flow, start-up, retries |

How they interact: an HTTP handler awaits database statements and BMONI calls,
one after the other.  Node runs other handlers at every `await`; each Prisma
statement is atomic, and apart from one two-statement transaction
(`runDueCheck`) and nested writes nothing ties two statements together: there
are no locks, no conditional updates, no retries of a handler and no job that
resumes one.  A call to BMONI can be refused, or can take effect and lose its
answer (axios gives up after 30 seconds).  So the hard behaviours are

* two handlers for the same row, each acting on what it read before the other wrote;
* a handler that stops half way (refusal, timeout, database error, restart);
* answers of concurrent calls stored out of order;
* BMONI's own schedule: the payload is prepared some time later, or never.

`PROJECT.json` lists the hazards one by one, each at its line.

What makes each component correct, in a sentence: the proposal table never
claims what BMONI has not done; a link's row tells the truth about its release
and a settled link releases no more; a bill is complete when and only when all
have paid; a contribution is asked for once per period, and a goal that is due is marked
by the next check that gets to its end; a loan that was paid out is owed; a debt
on record as asked for is not asked for again; a person's rows (user, wallets,
documents, review, activations, rails, payments) never claim what BMONI does not
have, lose nothing to an overlap (but an activation and the dollar rail's
status), and registering again is answered with the row; a credit verdict is within
the request and fair between applicants; one payment on the phone signs at most
one proposal, and what its screen says is so; and every request, script or screen
that polls ends.  Several of these do not hold as the documents state them: see
*Where code and documents differ*.

## Modules

There are two bases.  `TransferProposals` is BMONI's side of every proposal
(`stage`) and PayFlex's row for it (`mirror`), the effect of each BMONI call and
`persistProposal`; the five modules about what happens to one proposal extend it.
`Accounts` is about one person and everything that comes before a proposal, and
ends where the proposal exists and has its row.  In both, an action is what
happens between two awaits, so every await is an interleaving point and a place
to fail (`Abort...`), and a BMONI call has the outcomes *done and answered*,
*done and answer lost*, *not done*.  A handler makes at most one `createProposal`
call, so a proposal is named by the request that creates it.

| Module | Source | State | Actions |
|---|---|---|---|
| `TransferProposals` | `transfer.service.ts`, BMONI | `stage`, `mirror` | `CreateProposal`, `SignProposal`, `RejectProposal`, `PreparePayload`, `Execute`, `Expire`, `PersistProposal` |
| `TransferService` | `transfer.service.ts` | `create`, `submit` | `StartCreate`..`PersistCreated`; `StartSubmit`, `CallSign`, `CallReject`, `PersistSubmitted`; aborts |
| `TransferFlow` (on `TransferService`) | `app/lib`: `transfer_flow`, `retry`, `api_client`, the send and QR screens | `flow` | `Post`, `PostBreaks`, `PostAnswered`; `Confirm`, `AnswerPrompt`, `PollSignPayload`, `Sign`, `SignBreaks`, `SignAnswered` |
| `Links` | `links.service.ts` | `link`, `expired`, `send`, `claim` | `StartDirect`, `StartEscrow`, ..`WriteEscrowed`; `StartClaim`, `ReadLink`, `CheckDeadline`, ..`WriteClaimed`; `PassDeadline` |
| `SplitBill` | `split-bill.service.ts` | `bill`, `share`, `pay` | `CreateBill`; `ReadBill`, ..`WriteShare`, `WriteCompleted` |
| `Savings` | `savings.service.ts`, scheduler | `clock`, `next`, `contribution`, `check`, `pay` | `CreateGoal`, `StartCheck`, `ReadDue`, `WriteDue`; `ReadContribution`, ..`WriteProposed` |
| `Loans` (on `Scoring`) | `loans.service.ts` | `loan`, `repayment`, `apply`, `pay` | `RecordVerdict`, `ProposeDisbursement`, `PollSignPayload`, `SignDisbursement`, `WriteDisbursed`; `ReadRepayment`, .. |
| `Scoring` | `credit-scoring/` | none | operators `Score`, `Approved`, `ApprovedAmount` |
| `Obligation` | abstract | `debt`, `accepted`, `made` | `Raise`, `Accept`, `Withdraw`, `Ask`, `Record` |
| `Release` | abstract | `cause`, `admitted`, `payment`, `filed`, `answered` | `Open`, `OpenFor`, `Admit`, `Make`, `File`, `Sign`, `Record`, `Close`, .. |
| `Accounts` | `users`, `onboarding`, `kyc`, `agent`, `payments`, `wallet`, QR pay and the transfer entry points | `bmoni`, `row`, `req`, `code` | `Begin`; `Call...` per kind of BMONI call; `Store...` per kind of row; `Abort`; BMONI's own steps |
| `AccountScripts` (on `Accounts`) | `backend/scripts` | `script` | `ScriptCall`, `ScriptReturn` (with `PollAgain`), `ScriptThrows` |
| `MCLinks`, `MCLoans`, `MCTransferFlow` | | | constants for TLC |
| `*Proofs` | | | theorems about the module of that name |

BMONI moves a proposal by itself (`BmoniMoves`): it prepares the payload,
executes what is signed, and lets a proposal run out at its `expiresAt` as long as
it has not executed.  It tells PayFlex of none of this.  In `Links`, `SplitBill`,
`Savings` and `Loans`, signing by a customer (`Sign...`) and rejecting (`Decline`)
stand for the whole transfer endpoint, whose row is stored or not; how its answers
can be stored late is the question `TransferService` asks.

`Accounts` has one shape for some thirty endpoints, because the code has: a
handler reads PayFlex's rows and perhaps refuses (`Begin`, with one guard per
lookup: `UserKnown`, `AddressKnown`, `WalletOnFile`, `IsAgent`, `CodeVerified`),
calls BMONI (`CallBmoni`) and stores the answer (`StoreAnswer`).  The endpoints
that keep nothing are one operation, `forward`.  `bmoni` is what BMONI holds of
the person and `row` what PayFlex's tables say; the properties relate the two.
`AccountScripts` composes `Accounts` with a script that is one of its callers and
takes the person through a `Plan`, a sequence of operations copied from the
order of calls in the script's `main`, with its polling loop, its `throw`s and,
in kyc-bvn-mismatch-check, its `catch`.

`TransferFlow` composes `TransferService` with the phone.  A payment is a tap of
"Review & send" or a scan; its create and sign requests are requests of
`TransferService` under the names `<<flow, try>>` and `<<flow, prompt>>`, so the
app's and the server's steps interleave, and the server may still be serving a
request the app has given up.  A broken connection (`PostBreaks`, `SignBreaks`)
may happen before the request arrived, while it is served or after it ended: the
app cannot tell.  `withRetry` posts a scan again, up to three times; nothing else
is retried.  The screens of loans, savings, bills, links and agents begin with a
create request of their own and go on as "send".  Other callers of the API reject
proposals; they do not sign, because the key is on the phone.

### Obligation: what three services promise

A split-bill share, a savings contribution and a loan repayment are one idea: an
amount comes to be owed, a request that finds it open may ask for it, and once
the asking is on record no new request may ask again.  `Obligation` says this
without rows, awaits or BMONI.  `SplitBill`, `Savings` and `Loans` each
instantiate it with a refinement mapping: the status and proposal id of the row
are `debt`, the handlers past their check are `accepted`, the proposals that
exist are `made`.  That two requests may both be accepted is in the abstract
module too, because all three services allow it; what it rules out is a second
asking by a request that starts later, a record of a proposal that was not made
for the debt, and a debt that comes back.

### Release: what the treasury's two payers promise

A claimed link and an approved loan are paid by the treasury, whose key the
server holds, so nobody on a phone stands between a handler and the money.
`Release` says what must hold of such a payment whatever stops half way: its
request found the *cause* open (a link ESCROWED, a loan APPROVED), the treasury
signs only a payment that PayFlex has *filed* in its table, and the cause names
only a payment made for it whose signature was *answered*.  `Links` maps its rows
to `cause`, the claims past their check to `admitted`, BMONI's stage of a release
to `payment` and the table's row to `filed`; `Loans` does so with its
applications, where one write opens the cause and admits the request that opened
it (`OpenFor`).  Polls, deadlines and the order of BMONI's steps are hidden.
Two payments for one cause, and one that no cause names, are in the abstract
module too: the code allows them (findings 2 and 5).

### Abstractions

Amounts, names, descriptions and tokens are left out except in `Scoring`, where
amounts are whole cents: no other property is about them.  In the modules over
`TransferProposals`, lookups that can only refuse (an unknown user, no wallet, a
treasury without the currency) are part of `Abort...`; `Accounts` models them.
`Scoring` leaves out requests that are negative, finer than a cent or not
numbers, and rounds half a cent up where `toFixed` may go either way.  The code
adds incoming amounts up in doubles, so a total that is an exact number of
hundreds can come out a hair short and lose its point (99.00 and ten times 0.10 make
99.99999999999994): which single amounts do that, and in which order, is not
modelled; an applicant's `short` says whether his do, and `Counted` is the total as
the strategy holds it.  It cannot come out high enough to gain a point, since the
error is far below a cent.  Each of `SplitBill` and `Savings` treats what handlers can share:
one bill, the goals; different bills touch different rows.  The 30 and 1.5
second timers are not timed: a call returns or does not, a poll counts.  BMONI
is assumed to sign a proposal only once its payload is ready and to execute only
what is signed; that is how the code's comments describe it.

In `Accounts` there is one person, one QR code of somebody else's, and the rails
NGN and USD; payments are made in NGN.  A wallet on file has an address.  Each
handler awaits its lookups one by one, but no row is ever deleted, so one step
that looks at all of them refuses the same requests.  Of BMONI it is assumed
that a phone number is registered once across all partners, that a review needs
all documents, that start-usa answers 422 only while the rail has not started
and that a rail never goes back: what `bmoni-client.service.ts` and its DTOs
report as observed.

## Runs

| Run | Instance | States | Shows |
|---|---|---|---|
| `transfer_flow` | 1 payment, tapped or scanned; 2 tries, 2 prompts, 2 polls; 1 reject by another caller | 43,377 | the table never runs ahead of BMONI, and at rest is behind it only by what BMONI did by itself when requests do not overlap; one payment signs at most one proposal, a cancelled one none; a receipt is on record; the app stops waiting |
| `links` | 1 link, 2 claims by 2 users, 2 polls | 231,668 | a claimed row names a signed release of its own; no release without an escrow on record; settled links release no more; records stay; claims end; claims implement `Release` |
| `links_unsigned_escrow` | same | violation | `EscrowedMeansHeld` |
| `links_two_releases` | same | violation | `OneReleasePerLink` |
| `split_bill` | 2 contributors, 2 payments | 28,588 | never completed early; shares name their contributor's proposals; serial payments complete the bill; shares implement `Obligation` |
| `split_bill_overlap` | same | violation | `PaidBillIsCompleted` |
| `savings` | 1 goal, 2 checks, 2 payments, clock to 2 | 301,160 | contributions implement `Obligation`; a check that gets to its end leaves no goal it found due unmarked; serial checks space contributions |
| `savings_overlap` | 1 goal, 2 checks, period 2, clock to 5 | violation | `DueWhenMarked` |
| `loans` | 1 application, 2 repayment requests, 2 polls, 320 applicants | 54,749 | the verdict is fair; a disbursed loan is signed and owed; applications end; repayments implement `Obligation`, disbursements `Release` |
| `loans_unrecorded` | same | violation | `MoneySentIsRecorded` |
| `accounts` | 2 callers, or 1 beside a script; 2 documents, 2 polls | 137,710 | rows are never ahead of BMONI; the existing row wins; overlaps alone lose no user, wallet, document, naira rail or payment, and nothing at all is lost without an overlap or a failure; an expired code pays nothing; a script is never refused, ends, and vouches only for what is there |
| `qr_paid_twice` | 2 callers | violation | `CodePaidOnce` |

Why these bounds are enough to be interesting: every race in this code is
between two requests for one row, so two requests per row give each of them, and
two contributors let a snapshot be stale about the other one.  In
`transfer_flow` two tries (`withRetry` makes up to three) let a payment leave a
request behind that is still served; the proofs have any number.  Two prompts and a
foreign reject give sign against sign, sign against reject, and an answer stored
after two others.  Two payments of one person share
no state of `TransferFlow`, which is why one is enough.  Two polls give a retried 409 and the last one.  A clock of 2 with
period 1 gives a goal two due dates.  One goal, since two do not touch
each other's rows but through a check that dies between them: with two goals and
two payments there are eight million states, too many for the temporal
properties, and the theorems `DueMarked` and `ChecksSpace` hold for any number.
`savings_overlap` uses period 2, so that "one period later" and "a tick later"
differ.  The 320 applicants are every
combination of values on both sides of each cap, of the threshold, of a whole point
of income, added up exactly or short, and of the amount below which a request is
granted in full.  In `accounts` either two free
requests start from a new person or from one who has wallets and documents (what
takes a dozen requests to reach), or a script of up to fifteen calls runs beside
one free request (phase 1 with either wallet, since it takes the first BMONI lists
where cNGN is not on offer); two documents make a review wait for the second, and codes are
shown only where no script runs, since no script scans one.  Requests are used once: a retry is
another request.  The proofs then remove the bounds for the safety properties.

`CHECK_DEADLOCK FALSE` is everywhere, because a finite set of requests is
served and the system then rests.

### Fairness

Only the four liveness properties, `ClaimEnds`, `ApplyEnds`, `ScriptEnds` and
`BusyEnds`, need any.  Weak fairness is assumed of the *handler's own steps* (`ClaimStep`,
`ApplyStep`; for a script its own steps, `ScriptStep`, and the request it waits
for, `Served`; for the app `AppStep` and the requests the server is serving) and of
nothing else: a started handler goes on because each of its
awaits settles, a database call by returning or throwing and a BMONI call at the
latest after the 30 seconds of `bmoni-client.service.ts:96`.  BMONI is given no
fairness: it may never prepare a payload, never execute.  Users are given none:
they may never sign.  The connection is given none either: `BusyEnds` holds although
no request of the app has a timeout and no connection ever breaks, because the
server ends what it has started.  What the properties show is that the bounded polling
(8 attempts in the services, 10 and 15 in the scripts) is what ends them.  A
rail may stay pending for ever.

### Serial properties

`SerialRequestsMirror` (of `TransferService` and of `Accounts`),
`SerialPaymentsComplete` and `SerialChecksSpace` have the form
`[]OneAtATime => []...`: they say what the code guarantees if the requests for one
row are served one after the other, and so that the overlaps the violation runs
exhibit are really what breaks the stronger claims.  They say nothing of the hazards
their premise excludes.  `OneAtATime` also excludes a request that fails, whose row
may stay behind; `SerialChecksSpace` only asks that the checks of a goal do not
overlap, and lets them fail.  In `TransferService` the premise is about one proposal
at a time, whatever happens to the others, and what remains even then is what BMONI
does by itself: the row of a proposal that has executed or expired says "created" or
"signed" until somebody asks again, which no code does.  In `Accounts` the same is
said of the overlaps too by `OverlapsKeepRows`, for all rows but the two that can be
overwritten.  All are proved, so no other interleaving hides behind the bounds.

## Where code and documents differ

The six violation runs each refute a sentence of the repository; the findings
in `PROJECT.json` quote them.

1. A link is ESCROWED, and its claim token is issued, before the sender signs.
2. Two claims of one link (overlapping, or one repeated after a failure past the
   signature) are both paid by the treasury.
3. Two contributors who pay at once leave a fully paid bill ACTIVE for ever.
4. The cron's due check and the admin's can both mark one goal for one period.
5. A failure between the treasury's signature and the row pays a loan out
   without recording it, or the repayment.
6. A QR code that "can only be paid once" can be paid until it expires: nothing
   records that its token was used.

Statuses the schema names and no code writes (PAID, CONFIRMED, FAILED, PAUSED,
REPAYING, CLOSED, CANCELLED) are not in the models.

Some weaknesses no sentence of the repository denies; they show up in the models as
exceptions the properties have to make.  A withdrawal's proposal has no row, so the
properties about rows leave it out.  Two requests that both find a share, a
contribution or a repayment open both propose it, which `Obligation` therefore
allows; a share whose proposal is declined or runs out stays PROPOSED; and a bill
whose last write fails stays ACTIVE.  A proposal's row keeps the answer that was
written last, not the one BMONI gave last.  A slow due check moves a goal's next
date back behind a later check's.  Of two activations that overlap one can be
missing from the profile.  kyc-bvn-mismatch-check reports PASS for any error of
start-nigeria, also when BMONI has started the rail and the answer was lost.  The QR confirm screen stays after an error and
can prompt again; cancelling that prompt shows "nothing was submitted", which is true
of the prompt and may be false of the payment, so `CancelledMovesNothing` is about
the screen that prompts once.

## Proofs

All for every value of the constants, from the `ASSUME` of the module (the
request sets are disjoint where their names serve as proposals, `None` is none
of them, `MaxAttempts` is at least 1, a person has finitely many `Documents`: the
code has three kinds).

* **`TransferServiceProofs`**: `TypeCorrect`, `NeverAhead`, `SerialMirror`.  `MirrorNeverAhead` is
  not inductive: a handler about to store an answer has to know that BMONI is at
  least that far.  `Inv` adds, for each handler, what its stage of the proposal
  must be; stages only move forward, which carries it past the steps of others.
  `SerialMirror` rests on a second invariant, `SerialInv`, of one proposal, preserved
  by the steps with its `OneAtATime` at both ends: a row that lags behind BMONI, but
  for an execution or an expiry, has one request in flight, which holds the answer the
  row lacks.
* **`TransferFlowProofs`**: `FlowTypeCorrect`, `FlowImplementsService`, `OnePayment`,
  `CancelledIsSafe`, `PaidRecorded`, `FlowNeverAhead`, `FlowSerialMirror`.  `FlowImplementsService` maps every step of app
  and server to a step of `TransferService` or to a stutter, so its `Inv` and
  `NeverAhead` carry over.  `FlowInv` adds that a signature in the server's hands,
  or accepted, is for the proposal its payment asks about, and that the payment is
  past the point of no return (`Sent`), from which no step leads back to another try.
  `RecordInv` adds that a sign request's proposal has its own row already, so that
  only another answer can overwrite what the signature stored.  `FlowNeverAhead` and
  `FlowSerialMirror` follow from the refinement and the service's theorems.
* **`LinksProofs`**: `TypeCorrect`, `ClaimRecord`, `EscrowFirst`,
  `RecordedForGood`, `LateClaimsRefused`, `ClaimsReleased`.  `Inv` says what each
  program counter of the two handlers knows of the row (`SendInv`, `ClaimInv`): until the send has
  finished the row is PENDING_ESCROW at most, so nobody holds a token; a claim
  that has started has an opened link; a claim past the signature has a signed
  release.  The action property follows from `Inv` step by step.
  `LateClaimsRefused` has a nested box: `Late` (the link settled and the claim
  not past its read) is shown to be preserved by every step.  `ClaimsReleased` is the
  refinement of `Release`: one lemma per action, from what a handler that moves alone
  does to the mapping (`ClaimMoves`, `ReleaseMoves`, `RowWritten`).  It needs of `Inv`
  that a claim with a release to store has one at BMONI.
* **`SplitBillProofs`**: `TypeCorrect`, `NotCompletedEarly`,
  `SharesNameProposals`, `SharesObliged`, `SerialCompletes`.  The key part of `Inv`: the
  set a handler has in its snapshot contains every share that is PENDING now,
  because shares only leave PENDING; so an empty remainder means nobody is left.
  `SharesObliged` is a refinement, proved as `Obliged` below.  `SerialCompletes`:
  with payments one at a time, the snapshot of the only one in flight is exact, so
  the one that leaves nobody PENDING sees it and completes the bill.
* **`LoansProofs`**: `TypeCorrect`, `DisbursementRecorded`, `VerdictFirst`,
  `RepaymentsObliged`, `DisbursementsReleased`, `FairVerdicts`.
  `VerdictFirst` (money follows the verdict) has no property of its own in a run,
  because the two refinements imply it.  `DisbursedIsOwed` is about rows alone; `Inv` ties it to the
  apply handler's program counter (`LoanInv`): a handler about to write DISBURSED
  has a signed proposal with a row in the table, and its loan is still APPROVED,
  so the repayment it creates cannot reset one that is PROPOSED.  `RepaymentsObliged`, the refinement, needs a
  second invariant, `Books`: a repayment not yet owed names no request, so that the
  disbursement, which writes its status alone, makes a fresh debt.  `DisbursementsReleased`
  is proved as `ClaimsReleased` is.  `FairVerdicts`, about
  `Scoring`, follows from lemmas about each cap, the score's range and monotonicity in
  what is `Counted`, that a hair of income is at most one point (`OneCentOnePoint`),
  and one about the rounded product, the only nonlinear step.
* **`SavingsProofs`**: `TypeCorrect`, `Obliged`, `ChecksSpace`, `DueMarked`.
  `Inv` says which date each check has read, that a date is only written together
  with the contribution it follows, and what a contribute request has found and
  made.  `Obliged` is the refinement: the initial state maps to `Obligation`'s and
  every action to one of its actions or to a stutter, under `Inv`.  `ChecksSpace`
  needs what a check that runs alone knows: the date it read is the goal's
  date now, and no contribution is marked later than an interval before that date.
  `DueMarked` has a nested box: a goal that is due stays so (`DateStays`) until some
  check marks it, and a check that read it as due has it on its list until then
  (`CheckGoesOn`, `UnskippedStep`).
* **`AccountsProofs`**: `TypeCorrect`, `NeverAhead`, `RowWins`, `ExpiredCode`,
  `OverlapsLoseNothing`, `SerialMirror`.  A row is written some steps after the answer it records, so `RowsNeverAhead` is
  not inductive; `Inv` adds what a handler that is about to write knows of BMONI
  (`Knows`), and every step is shown to keep it because BMONI takes nothing back
  (`Remembers`).  `RowWins` and `ExpiredCode` have a nested box and are proved like
  `LateClaimsRefused`.  `OverlapsLoseNothing` has an invariant of its own, `OwedInv`:
  what BMONI has is told by a row, or owed by a handler that is about to store it or
  has failed; no step of another handler takes back a row (`Kept`) or a debt.
  `SerialMirror`: what BMONI has and the rows do not tell is
  what the single request in flight is about to store.
* **`AccountScriptsProofs`**: `ScriptTypeCorrect`, `VerifiedProvisioned`,
  `NeverRefused`, and the five properties of `Accounts` again (`ScriptRowsNeverAhead`,
  `ScriptRowWins`, `ScriptExpiredCode`, `ScriptSerialMirror`, and `ScriptKeepsRows` for
  `OverlapsLoseNothing`), since a script uses one caller for request after request and so is no behaviour of `Accounts!Spec`.
  The plans are data: lemmas state what each step of each plan is and that it comes
  after all it needs.  `ScriptInv` then says that every step a script is past
  is `Achieved` in the rows (`Behind`), that the request it waits for is the step it
  stands at (`OnPlan`), and what it has `Learnt` of the rail; `Kept` is why no step
  of anybody undoes an achievement, and `Forgets` and `Payless` are what resetting the
  caller leaves of `Accounts`' own invariants.

Left to TLC alone: the four liveness properties (fairness and `ENABLED` are out of
the prover's reach).  `tlapm M.tla` checks a proof
module; none uses more than the SMT, Zenon and PTL backends.

## Not modelled

* BMONI's insides beyond what the calls show, balances among them: no code of
  PayFlex compares a balance before it proposes, so whether the treasury's one
  wallet covers all that is charged to it is not a question about this code.
* HTTP routing and validation, presentation, cryptography, logging.
* PayTag registration and the webhook log: one statement each, kept correct by a
  unique key or read by nothing.
* `money.util.ts` and the BMONI client's methods without a caller (payouts,
  exchange, offramp).
* The app beyond a payment: its start-up, its onboarding screens and its lists keep
  one stored id; what they ask of the backend is in `Accounts`.  The QR
  screen's Retry button after an offline error reads a token that has been reset
  and throws before it asks anything, so it is no step of `TransferFlow`.
* The scripts of phases 3 to 5, which take several people through the services
  one after the other.

## Plan

Done: every backend service that keeps state, the app's payment over it, the
scripts of one person, two abstract specifications with five refinements, all
five proved, and a theorem for every property that is not liveness.

1. The app's start-up over `Accounts`: the id it stores and the registration an
   error of `getUser` leads to.
2. The scripts of phases 3 to 5, once `Accounts` has more than one person.
