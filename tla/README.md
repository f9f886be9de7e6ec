# Verification of SendAm's payment core

SendAm lets a WhatsApp user send money over the Stellar network. An Express API
server takes webhooks and REST calls, BullMQ workers hold the conversation and
pay, Prisma/Postgres keeps the rows, Redis the queues and locks, and Horizon
servers are the view of the Stellar ledger. This directory holds TLA+ modules of
the parts where an interleaving, a lost answer or a crash can cost money or lose a
message, the configurations that model-check them, and proofs of what matters most for every
value of the constants. Sources are cited relative to `apps/api/src/`.

Contents: [inventory](#1-inventory) · [plan](#2-plan) ·
[the modules](#3-the-modules) · [the runs](#4-the-runs) ·
[bounds](#5-bounds) · [fairness](#6-fairness) · [proofs](#7-proofs) ·
[disagreements](#8-where-code-and-documents-disagree) ·
[not modelled](#9-not-modelled)

## 1. Inventory

| Component | State it keeps | Operations | Talks to | Hard behaviour | What makes it correct |
|---|---|---|---|---|---|
| Payment orchestrator (`payment/payment.orchestrator.js`, `markFailed.js`) | `Transaction` rows, `Quote`s | executePayment, executeRefund | adapter, journal, transitions, policy | crash or error between submission, hash, journal; the failure path of a payment that moved money | a payment's row and journal tell what the ledger did |
| Status matrix (`payment/payment.transitions.js`) | `Transaction.status` | transitionPaymentState (compare-and-set) | all that move rows | late writers | final statuses are not overwritten |
| Journal (`payment/ledger.service.js`) | `JournalEntry`, `LedgerPosting` | settle, reverse, refund | orchestrator | posted twice, settled and reversed | one outcome per payment, balanced |
| Reconciler (`payment/payment.reconciler.js`, `jobs/reconciliation.jobs.js`) | none of its own | sweep of stale rows, operator retry / resolve / escalate, checkpoints | Horizon, transitions | overlapping sweeps, stale snapshots, ingestion lag; nobody starts it | success only with ledger evidence; a late sweep undoes no final status |
| Stellar adapter (`wallet/stellar.adapter.js`) | `accountSubmissionLocks` of each process | submitPayment, trustlines, funding | Horizon client | sequence numbers shared by calls and processes, lost answers, retries | a returned hash is on the ledger; no collisions; no double payment |
| Horizon client (`config/horizon.js`) | circuit breaker per endpoint | reads with failover, writes once | Horizon | timeouts racing answers | a write is never resent, ambiguity is reported |
| Idempotent send (`payment/idempotency.service.js`, `controllers/wallet.controller.js`) | `PaymentIdempotency` (state, lease, reserved id) | execute, replayOrWait | orchestrator | lease ends while the owner pays, crashed owner, reused key | one payment per key, stored answers replayed |
| Conversation (`whatsapp/assistant.service.js`, `pendingClaim.js`, `voice/`) | `User.pendingSend` | request, confirm, cancel, PIN | PIN, orchestrator | two replies at once, a send replaced between read and claim | what is paid was confirmed, once |
| PIN (`compliance/pin.service.js`) | `pinFailedAttempts`, `pinLockedUntil` | verifyPinAttempt | conversation | concurrent wrong PINs lose counts | lock after N failures |
| Ordering (`queues/ordering.service.js`) | Redis cursor and lock per sender | withOrdering | queues | cursor read before the lock, lock expiry | one message of a sender at a time, in order |
| Queues, dead letters (`queues/queue.service.js`, `dlq.service.js`) | BullMQ jobs, DLQ records | enqueue, attempts, replay, discard | workers | retained job ids swallow replays | no accepted message is lost |
| Webhook ingress (`controllers/webhook.controller.js`) | `ProcessedMessage` | claim, enqueue, acknowledge | queue | crash between claim and enqueue, redelivery | acknowledged messages are handled once |
| Webhook inbox, callback idempotency (`services/webhookInbox.service.js`, `webhooks/`) | `WebhookInboxEvent` | claim, process, retry, dead letter, replay | delivery status | crash while processing, replay of a running event | durable before acknowledged, retried |
| Notifications (`services/notificationOutbox.service.js`, `whatsapp.service.js`) | `Notification` rows | reserve, claim, send, sweep, record status | WhatsApp API | crash mid-send, late or repeated statuses | sent at most once, status never regresses |
| Deposits (`jobs/deposits.jobs.js`) | cursor, `DepositOutbox` | poll, process, dead letter, replay | Horizon, notifications | overlapping polls, cursor races | each deposit recorded and told once |
| Wallet provisioning (`wallet/wallet.service.js`, `walletRecovery.service.js`) | `Wallet` with funding and trustline state | provision, recover | adapter | leases of 5 minutes, recovery under a running lease | one funding per wallet |
| Quotes and rates (`pricing/`) | `Quote`, `PolicyRate` | create, consume | orchestrator | quote used twice | a quote pays once |
| KYC, consent, retention, privacy (`compliance/`, `services/userErasure.service.js`) | verification and consent records | transitions, expiry, erasure | providers | callbacks against reviewers and expiry | decisions follow the matrix |
| Admin, support, auth, secrets, observability, Redis policy, HTTP plumbing | little | handlers, metrics | all | — | — |
| Admin console, landing page, chat simulator (`apps/admin`, `apps/landing`, `apps/chat-sim`) | UI state | — | API | — | — |

How a payment flows: webhook → `ProcessedMessage` claim → queue → ordering →
conversation → PIN → claim of `pendingSend` → executePayment → adapter lock →
Horizon → row with hash → journal; later a sweep asks Horizon for the hash and
makes the row final. REST calls enter at executePayment, with or without the
idempotency service in front of it.

`PROJECT.json` lists every component with its status, and under `hazards` every
place where this code is exposed to a behaviour a test would hardly reach.

## 2. Plan

In the order of what an error costs.

| # | Modules | Composes | Abstract specification | Run | State |
|---|---|---|---|---|---|
| 1 | `PaymentTransitions`, `PaymentLifecycle`, `PaymentLifecycleProofs` | orchestrator, journal, sweeps, operators, Horizon's lag | — | `lifecycle`, `lifecycle_sweeps` | done |
| 2 | `SubmissionContract`, `StellarSubmission`, `StellarSubmissionProofs` | adapter lock, attempts, ledger sequence numbers | `SubmissionContract`, which is also what module 1 assumes | `submission` | done |
| 3 | `IdempotentSend`, `IdempotentSendProofs` | idempotency service and executePayment under a reserved id | at most one submission per key | `idempotent_send` | done |
| 4 | `SenderConversation`, `SenderConversationProofs` | ordering gate, job attempts, conversation, claim | — | `conversation` | done; the PIN's failure counter is left |
| 5 | `InboundMessages`, `InboundMessagesProofs` | webhook claim, queue, worker, dead letters, operator | — | `inbound` | done |
| 6 | `Notifications`, `NotificationsProofs` | outbox, Meta, delivery reports, inbox and its drains | — | `notifications` | done |
| 7 | `Deposits`, `WalletProofs` | poller, deposit outbox, the notification row it meets | — | `deposits`, `untold_deposit` | done |
| 8 | `WalletProvisioning`, `WalletProofs` | creation, leases of funding and trustline, recovery | — | `wallets` | done |
| 9 | `KycProfile`, `KycProfileProofs` | operators, verification, callbacks, screening | — | `kyc` | done |
| 10 | `Refunds`, `PaymentLifecycleProofs` | refunds of one payment, sweeps and operators at their rows | — | `refunds` | done |
| 11 | quotes; the Horizon breaker | consumeQuote; `config/horizon.js` | — | — | left |

Every safety and action property that a run expects to hold is a theorem (section 7).
What is left to prove is what new modules will state; liveness stays with TLC.

## 3. The modules

A TLA+ action is the code between two awaits: one database statement, one
database transaction, one request to Horizon. Errors of a statement leave it
unapplied (the one place where the code reads after a committed write,
`payment.transitions.js:189`, is modelled as such). A crash may happen between
any two actions.

### PaymentTransitions
The matrix `PAYMENT_TRANSITIONS` and the check `transitionPaymentState` makes
after its read.

### PaymentLifecycle
One element of `Request` is a call of executePayment; a call that creates a row
gives the row its name, so a row is also a `Request`.

| Variable | Code |
|---|---|
| `row` | `Transaction` (status, txHash, idempotencyKey); status `none`: no row |
| `age` | now − createdAt, in units that tell `staleAgeMs`, `staleAgeMs*3` and `LEDGER_SEQUENCE_WINDOW_MS` apart |
| `journal` | settlement and reversal entries of each row |
| `pc`, `on`, `got` | where a call is, its row, `result.txHash` |
| `chain` | what the Stellar ledger did with each envelope |
| `visible` | what Horizon has ingested |
| `sweep` | one row of a running sweep: the snapshot, the decision, the step of transitionPaymentState |
| `ops` | operator actions so far (bound) |

| Action | Code |
|---|---|
| `Reserve`, `Reuse`, `Refuse` | runCore in its database transaction; the short-circuit; its errors |
| `Include`, `Accept`, `Throw` | walletService.submitPayment, as `SubmissionContract` allows |
| `Link` | transitionPaymentState processing → pending with the hash |
| `PostSettled` | ledger.postPaymentSettled and the return |
| `MarkFailed`, `PostReversal` | the catch: markTransactionFailed, postPaymentFailed |
| `Select`, `ConsultHash`, `ConsultHistory` | the sweep's findMany, step 1, steps 2 and 3 |
| `TransitionRead`, `TransitionWrite` | transitionPaymentState, read and compare-and-set apart |
| `OperatorResolve` | operatorResolveStuckPayment |
| `Tick`, `Ingest`, `Crash` | time, Horizon, stops |

Amount, asset, sender and destination are one value, `Kind`; the history search
compares amount and destination of the sender's payments only, so two rows of one
sender with equal amount and destination but different assets have one `Kind`.
The audit and event writes of transitionPaymentState are best effort and left
out, and so is the row's metadata.

### SubmissionContract and StellarSubmission
`StellarSubmission` is submitPayment for the calls that pay from one account:
the promise chain of `withAccountLock` (`queue`, one per process, holder first),
the attempts, each with an envelope built on the sequence number Horizon has
ingested (`NextSequence`), the answers a POST may get, the lookup by hash, and
the ledger, which takes an envelope only when it carries the next sequence
number. `AnswerLost` is `HorizonWriteUncertainError`; `AnswerUnclear` an answer
that says nothing of the outcome but that `isAmbiguous` does not recognise
(HTTP 504, the total time limit), which is thrown like a refusal. `AnswerBadSeq`
also covers a resent envelope that met itself. From throw to the `finally` that
releases the lock nothing is awaited, so an error is one action (`ThrowOut`).

`SubmissionContract` is what a caller may rely on: a returned hash is on the
ledger and the call puts nothing else there afterwards; a call that throws
promises nothing, its envelopes may be, or come to be, on the ledger.
`KeepsContract` is the refinement; `PaymentLifecycle` uses the same contract for
the submission inside executePayment (`Include`, `Accept`, `Throw`).

### IdempotentSend
The calls of one user with one key: the `PaymentIdempotency` row (`record`, with
the lease as a `term` counter and whether the current term is `over`), the
payment rows that reserved ids name (`row`), and for each call where it is, what
it read (`seen`), the id it pays with, what it answered (`told`) and the transaction
id in that answer (`receipt`). A response, in the record (`record.response`) or in an
answer, is the transaction id it carries: the one the run for the key paid with
(`RecordResponse`), the stored one (`Replay`), or that of the reserved row which a sweep
settled (`ReplaySettled`). `RecordFailure` overwrites a stored response. `execute`
is `Create`/`Collide`, the rounds of replayOrWait (`ReadRecord`, then one of
`Replay`, `Refuse`, `ReplaySettled`, `Abandoned`, `StillProcessing`), `Claim`,
the run (`Reserve`, `Pay`), `RecordResponse` and `RecordFailure`. `read` fetches
the record and its transaction in two queries, so they are two actions. When the
second replayOrWait returns null, the code answers 200 with a null response:
`told` is `"empty"`. The fingerprint is a model value.

### SenderConversation
The messages of one customer, each a job of the inbound queue, the gate that
orders them and the pending send they work on.

| Variable | Code |
|---|---|
| `said` | text and provider timestamp of each message, of one of the conversations in `Script` |
| `cursor`, `lock` | `whatsapp:ordering:cursor`, `whatsapp:ordering:lock` in Redis; `Orphan` owns what a stopped worker left |
| `pending` | `User.pendingSend`: whose send, its step (`risk` is AWAITING_HIGH_RISK_CONFIRMATION), and the number of the write, which stands for expiresAt |
| `lapsed` | writes up to this one are past their ten minutes |
| `pc`, `found`, `snap`, `tries` | where a job is, what resolveUser's first query returned, the pendingSend it works with, its failed attempts |
| `writes`, `asked`, `agreed`, `closed`, `paid` | counts for the properties: writes of pendingSend; requests, "yes" replies, endings without payment and payments of each send |
| `faults`, `expiries` | bounds |

| Action | Code |
|---|---|
| `ReadCursor`, `TryAcquire`, `Requeue` | evaluateOrdering and withOrdering's answers to it |
| `AdvanceCursor`, `Release`, `ReleaseAndRetry` | advanceCursor, release in the `finally`, and what the queue makes of an error |
| `FindUser`, `UpdateUser` | resolveUser, then the branch that processMessage and handlePendingPin take (`Branch`) |
| `RequestSend`, `ClearPending`, `ConfirmRisk` | requestConfirmation's write; "no" and expiry; "yes" |
| `VerifyPin`, `ClaimPendingSend`, `ExecutePayment` | verifyPinAttempt's verdict, pendingClaim.js, the payment and the reply that throws |
| `Crash`, `DatabaseFails`, `PendingLapses`, `OrphanExpires`, `LockExpires` | worker stops, failed statements, time |

A text is one of five: a request to a known destination (`send`) or to a new one
(`risky`), `yes`, `no`, and `pin`, four to six digits of which `VerifyPin` decides
whether they are right. The customer is assumed to have a PIN. executePayment
returns a null receipt for every new payment (`payment.orchestrator.js:249`), so
the reply after it always throws: `ExecutePayment` ends in `failed`, paid or not.
Every message is queued from the start; a job waits as long as it likes, which
includes arriving late. A reply that changes nothing is not a step.

### InboundMessages
The batch of messages Meta delivers until it is told 200, the jobs they become,
and the dead letters of jobs that fail. `Scene` gives the batch and how often a
fault, a failed call to the queue or the removal of a finished job may happen.

| Variable | Code |
|---|---|
| `row` | `ProcessedMessage.status` of each message |
| `pc`, `item`, `retry` | where a request is, the message it is at, whether it will answer 503 |
| `accepted` | Meta has been told 200 and stops |
| `job`, `tries`, `stalls`, `lives` | the BullMQ job of each message, its failed attempts, its stalls, how often it was added |
| `letter`, `replay` | dead letters by message and life of its job, and replays under way |
| `settled`, `beaten`, `answered`, `broken` | counts for the properties |

| Action | Code |
|---|---|
| `Deliver`, `CreateRow`, `FindRow`, `Reclaim` | handleIncomingMessage and the claim at the start of processMessage |
| `Screen`, `DropItem` | the number's check and the rate limit; the released claim |
| `Enqueue`, `EnqueueFails`, `MarkFailed`, `MarkQueued`, `Respond` | enqueue and the rows written after it, the answer for the batch |
| `DropStale`, `StartJob`, `ProcessMessage`, `CompleteJob`, `FailAttempt` | the inbound worker of `jobs/whatsapp.jobs.js` within the ordering gate |
| `MoveToDeadLetters`, `WorkerStops`, `RemoveJob` | the failed event, BullMQ's stalled check, the retained jobs |
| `CheckReplay`, `EnqueueReplay`, `ReplayFails`, `SaveReplayed`, `Discard` | replayDeadLetterJob, discardDeadLetterJob |
| `RequestLost`, `DatabaseFails` | a stopped process or a connection Meta gave up; a rejected query |

The queue ignores a job whose id it still knows, which is why `Add` may do
nothing. The admin console's handler passes no queue (`admin.controller.js:1106`),
so `EnqueueReplay` may leave the queue alone.

### Notifications
One notification, its senders, Meta, and Meta's reports on it.

| Variable | Code |
|---|---|
| `row` | `Notification` rows: one shared by all senders when the type is durable, else one each; status, provider id, time of the last status |
| `pc`, `calls`, `got` | where a sender is, its calls to Meta, the id it was given |
| `meta` | Meta's messages: what it reported last, and in which second |
| `inbox` | `WebhookInboxEvent` rows of the reports: state, attempts, time |
| `seen` | `WhatsappStatusEvent`: reports recorded once |
| `dpc`, `event`, `target`, `snap` | where a drain is, its report, the row it found and what it said |

| Action | Code |
|---|---|
| `Reserve`, `SkipReserve`, `ClaimForSend` | reserveOutboundNotification, claimForSend |
| `MetaAccepts`, `MetaIsBusy`, `MetaRefuses`, `MetaDoesNotAnswer` | the POST with its retries |
| `Attach`, `RecordFailure` | attachProviderResult and the row of a plain notification; failures |
| `ReconcileUnresolved` | the sweep of rows that stay 'sending' |
| `MetaReports`, `Ingest` | Meta; ingestStatusBatch |
| `ClaimEvent`, `RecordEvent`, `MatchRow`, `ApplyStatus`, `MarkProcessed` | drainInbox and recordDeliveryStatus |
| `HandlerFails`, `Replay` | markFailed with the dead letter; replayEvent |
| `SenderStops`, `DrainStops` | stops |

Meta's times are whole seconds: reports of one second have one time, and the
local clock that stamps an attached row is ahead of them within the second.
The backoff of a failed report is an arbitrary delay.

### Deposits
Overlapping sweeps at one wallet. A payment is its place in Horizon's list, a
cursor is the place of the last payment read, and `record` holds the
`DepositOutboxRecord` of each.

| Action | Code |
|---|---|
| `ListPayment` | Stellar and Horizon |
| `StartSweep`, `FetchLatest`, `InitCursor` | runDepositSweep loads the wallets; the first poll of one |
| `FetchPage`, `WriteRecord`, `CheckDelivered`, `NotifyOwner`, `MarkDelivered`, `DeferDelivery`, `AdvanceCursor` | pollWallet, page by page |
| `LoadPending`, `RetryNotify`, `WriteResult`, `FinishSweep` | processDepositOutbox |
| `CheckFails`, `ResultUnwritten`, `PollFails` | failed calls, where the code catches them |
| `SweepStops`, `StopsWhileTelling` | stops, also between the claim of the notification and Meta's answer |
| `ReplayRecord` | replayFailedDepositOutboxRecord |

`Notify` is sendTextMessage as `Notifications` has it, in one step: `alerted` says
that the row of the wallet's "deposit_received" exists and was claimed, after which
nothing is sent for that key. An unverified asset has a type without a row.

### WalletProvisioning
The wallet of one user and the calls that create, provision and recover it.

| Variable | Code |
|---|---|
| `exists`, `funded`, `state`, `expired` | the `Wallet` row: funded, fundingState and trustlineState, whether the lease of a part is over |
| `ledger` | what Stellar has: the account, its trustline |
| `place`, `sawFunded`, `saw` | where a call is; what an operator's call read |
| `forced` | a lease ended under a call, or a recovery overwrote one |

| Action | Code |
|---|---|
| `AskForWallet`, `InsertWallet` | createOrGetWallet |
| `LoadWallet`, `ClaimFunding`, `FundAccount`, `WriteFunded`, `FundedRowFails`, `WriteUnfunded` | provisionWallet |
| `ClaimTrustline`, `EstablishTrustline`, `WriteOpened`, `WriteUnopened` | ensureUsdcTrustline |
| `LeaseEnds`, `CallOutlastsLease` | leases of five minutes, without and with their owner still waiting |
| `ReadForRecovery`, `ResetFunding`, `ResetTrustline` | recoverWallet, which then provisions |
| `CallStops` | a stop, or a rejected query that nothing catches |

The count of attempts that tells 'pending' from 'failed' is abstracted: a failure
writes either (`FailureStates`); both may be claimed again. No name is one of
`Deposits`, since `WalletProofs` extends both; so it is with `Refunds` and
`PaymentLifecycle`.

### KycProfile
The `KycProfile` of one user with the copy of tier and risk score at `User`.

| Variable | Code |
|---|---|
| `profile`, `user` | the five columns of the decision; `User.kycTier`, `User.riskScore` |
| `screened` | the age of sanctionsScreenedAt: within 24 hours, within 72, older |
| `approvals`, `target`, `deciding` | `KycApproval` rows; what an operator's request is about to write; the approval it decides |
| `answer`, `owed`, `handled`, `event` | Smile ID's answers, those it still owes, `KycWebhookEvent`, what a callback in hand carries |
| `pc`, `fresh` | where an actor is; whether the profile is as it read it (updatedAt, for the page an operator saw) |
| `split`, `abandoned` | for the properties: two writes of a tier came apart; 'pending' without a submission |

| Action | Code |
|---|---|
| `OpenPage`, `Review`, `ApplyReview`, `CopyToUser` | the console's page, reviewKyc |
| `DecideOverride`, `MarkApproved` | approveOverride, with the two writes above between them |
| `ReadForStart`, `BeginVerification`, `Submit`, `MarkForRecovery` | startKycVerification |
| `SmileAnswers`, `DeliverNew`, `DeliverAgain`, `CommitAnswer`, `AnswerFails` | Smile ID; processSmileIdCallback |
| `CheckPolicy`, `ReadScreening`, `Screen` | enforceTransactionPolicy and screenSanctions within a payment's transaction |
| `ScreeningAges`, `ReviewStops`, `StartStops` | time; stops |

The reads a handler makes before its first write are one step, and so is the
write that supersedes an override. A verification is started at a profile whose status
is not 'pending'; that line 175 of `compliance.service.js` also asks for a provider
reference is left out, which concerns only profiles that an operator made 'pending', and
those `PendingIsDecided` exempts (`abandoned`). A screening hit throws, and the
payment's transaction takes its result back, so `Screen` commits clear results only.

### Refunds
The refunds of one successful payment. Nothing keeps two calls of executeRefund apart,
so each is modelled from its read of the payment to its last write; `Refund` numbers
the calls in the order in which they start, and a call names the row it creates.

| Variable | Code |
|---|---|
| `refund` | the refund's `Transaction`: status, and whether txHash is its own or another payment's |
| `listed`, `snap` | `metadata.refunds` of the payment, and the copy a call read |
| `posted` | `refund.settled` entries of each refund |
| `ledger` | how many of each refund's envelopes the Stellar ledger paid, and how many it took without paying |
| `place`, `want` | where a call is, the amount it refunds |
| `unseen` | for the property: refunds under way or unsuccessful when the call looked |

| Action | Code |
|---|---|
| `ReadPayment`, `CheckRefundable` | the payment; the refunds' rows and the check against the larger sum |
| `CreateRow` | the wallets and the row in 'processing' |
| `Submit`, `IncludeRefund` | submitPayment, as `SubmissionContract` allows: up to `Envelopes` of a call may be included, and paid, also late; one after the first is a fault, since it follows a lost or unclear answer |
| `Settle` | the transaction: row, the payment's metadata, journal; it may fail |
| `MarkRefundFailed`, `CallStops` | the catch, whose own error is swallowed; a stop |
| `SweepConfirms`, `SweepGivesUp` | reconcileStaleTransactions at a refund's row |
| `OperatorRetries` | operatorResolveStuckPayment; the matrix admits a retry of a failed refund only |

A sweep's two reads and its write are one step, since its compare-and-set asks for
'processing' and a refund's row is never 'pending'. Ages are left out: any time may
pass between two steps, so a sweep may decide at any moment, also before the
envelope's time bound; that only adds behaviours.

Amounts are whole units, and what refunds add up to (`Total`) is the number of their
units, so that facts about sums are facts about finite sets.

### Proof and MC modules
`PaymentLifecycleProofs` (with `Refunds`), `StellarSubmissionProofs`,
`IdempotentSendProofs`, `SenderConversationProofs`, `InboundMessagesProofs`,
`NotificationsProofs`, `WalletProofs` (`Deposits` and `WalletProvisioning`) and
`KycProfileProofs` hold the theorems. The `MC`
modules, one for each checked module, give TLC what a configuration cannot write:
`Kind`, symmetry, initial states up to renaming, conversations and scenes.

## 4. The runs

| Run | Properties | What it shows |
|---|---|---|
| `lifecycle` | RecordedHashOnLedger, SuccessOnLedger, JournalPostsOnce | Two payments, optionally with one shared key, one sweep, crashes and Horizon's lag. A hash in a row is always the hash of an envelope on the ledger. 'success' means that the ledger moved the money for this sender, destination and amount, through every path to it. No payment is both settled and reversed, or either twice. (3.0 million states.) |
| `lifecycle_sweeps` | FinalRowsMoveOnlyByFailureWrite | One payment, two overlapping sweeps, two operator actions. A final row is moved only by the failure write of a call still at work on it, never by a late sweep or operator. (80 thousand states.) |
| `submission` | TypeOK, SerializedCallsDoNotCollide, SecondPaymentFollowsAMissedLookup, KeepsContract, EveryCallReturns | Two calls on one or two processes. One process that hears every outcome never loses a sequence number to itself; a second payment of one call happens only after a lookup that missed the first; submitPayment implements its contract; the lock is never left taken. (620 thousand states.) |
| `idempotent_send` | OneSubmissionPerKey, OtherRequestsAreRefused, ToldOfReservedPayment, WaitersAreAnswered | Three calls with one key. At most one reaches the submission, whatever leases, crashes and sweeps do; every response names the payment that the key reserved. (130 thousand states.) |
| `conversation` | OneAtATime, EachRequestEndsOnce, RiskySendsAreConfirmed, EveryMessageIsSettled | Three messages in one of three conversations, one crash or failed statement, one lock lost by a live owner. Messages overlap only after a lost lock; until then each request for a send is paid or closed once, also over retries. Overlapping replies may confuse two sends, but never pay an unconfirmed one. (250 thousand states.) |
| `inbound` | TypeOK, AcceptedMeansQueued, AnsweredOncePerLife, WorkerOwnsTheRow, EveryMessageIsSettled | Two requests deliver one message, with every failure, or two. Meta is told 200 only for messages that were queued or dropped on purpose, but for two requests that meet at a failed row; late webhook writes leave the worker's row alone; a message is answered once each time it is queued, but for a worker that stops after the answer; no message is forgotten but one whose claim a crash or failed call left behind. (630 thousand states.) |
| `notifications` | TypeOK, NotSentTwice, RowNeverGoesBack, SendsAndReportsSettle | Two senders and a crash: Meta has a durable notification once, but for a busy answer to a message it did accept. Reports late, repeated and out of order take no row back, but for two drains that overlap on one row. No send stays in flight; a report is left in processing only by a stop. (200 thousand states.) |
| `deposits` | TypeOK, NoDepositSkipped, DepositToldOnce, EveryDepositIsSettled | Two sweeps overlap, fail and stop at any place over several pages: every inbound payment behind the cursor has its record, the owner is told of it at most once, and each record is delivered, dead-lettered, or overlooked because the other sweep counted its attempts. (580 thousand states.) |
| `wallets` | ProvisioningTypeOK, CallsDoNotOverlap, WalletBecomesReady | Three calls, a fault, a call that outlasts its lease, a recovery. Friendbot and Horizon are asked by one call at a time unless a lease was overrun or reset; nothing is marked done that Stellar does not have; the wallet becomes ready, but for a late failure write over a funding that succeeded. (260 thousand states.) |
| `kyc` | CopiesAgree, OverridesTakeTwo, BlocksAreKept, PendingIsDecided | Operators, a verification with repeated callbacks, and payments that are screened, in three scenes. (480 thousand states.) |
| `refunds` | OverRefundExplained, JournalFollowsTheRow | Three calls without faults, or two with faults and retries, refund parts or all of a payment whose customer also received a like amount elsewhere. Two things only give back more than was paid: a submission that pays twice by itself, which is counted apart, and a call that could not see the other's money; neither lost metadata nor a sweep's confirmation does. The journal has what the row and the ledger have. (3.0 million states.) |
| `untold_deposit` | DeliveredMeansTold, violated | See section 8. |

Every module has its type invariant proved for every instance (section 7); the runs
of `PaymentLifecycle`, `IdempotentSend`, `SenderConversation`, `KycProfile` and
`Refunds` do not repeat theirs.

Each property of a passing run has a mutant in `PROJECT.json`: a plausible bug,
as an alternative definition beside the original, that makes TLC find the
property violated under the same configuration.

## 5. Bounds

- `MaxEnvelopes = 1` in `PaymentLifecycle`: the adapter may put up to three
  envelopes on the ledger for one call; for the row only the one it recorded or a
  history match matters, and a second paid envelope of a call is
  `StellarSubmission`'s subject. The proofs cover every bound.
- `StaleAge`, `MaxStaleAge`, `Window`: the smallest values that keep "too young",
  "stale", "window closed" and "old enough to give up" apart; `lifecycle_sweeps`
  keeps all four distinct, `lifecycle` merges the window with the stale age (the
  deployed values, 5 minutes each). `age` stops at the largest: no comparison
  changes beyond it.
- `MaxOps = 2` operator actions: an escalation or resolution against a sweep and
  a retry of a failed row followed by another action.
- `MaxAttempts = 2` of the 3 in `submission` (with 3, and two calls, the state
  space does not fit the time); a first, a middle and a last attempt differ only
  in whether another follows, and two calls on two processes are enough for
  every collision.
- Three calls with one key: an owner, a call that takes over its lease, and a
  third that waits or takes over again; leases are unbounded in number.
- Symmetry is used in `lifecycle` only, which has no temporal property. In
  `submission` and `idempotent_send` initial states are fixed up to renaming.
- `conversation`: three messages are a request and two replies, which is what two
  rapid PIN replies, a "yes" and a PIN, or a "no" and a PIN need; `MaxAttempts = 2`
  of 3 keeps a retry and the last attempt, which differ only in what follows; one
  fault and one lost lock may fall anywhere.
- Scenes. The later modules choose at `Init` one of a few records that bound what
  may go wrong, so that one run holds several small instances instead of one that
  has everything at once. `inbound`: one message with two attempts, two faults, an
  outage and a forgotten job (a second life, a replay over it, a stall), and a
  batch of two with an outage (one answer for two outcomes). `notifications`: two
  senders with two calls each that Meta does not take at once; one sender
  with two reports; one whose report fails twice and is dead-lettered
  (`MaxAttempts = 2`). `deposits`: pages of two under three deposits; a stop or
  failed call; an unverified asset and a refused message; a fault, a refusal and a
  replay together. `kyc`: overrides among three operators, the requests for them
  limited to two; a verification asked for twice, beside an operator and two
  callbacks; two payments beside two operators, without faults (a payment that
  fails writes nothing).
- `refunds`: an amount of two units is the least that can be refunded in parts; three
  calls are two that race and a third that reads what they left, where the payment's
  metadata may have lost one of the two. `Envelopes = 2` of the 3 that
  `SEND_MAX_ATTEMPTS` admits: one submission can pay twice, and each call of the scene
  with faults can. The proofs cover every bound.
- `wallets`: two callers race, the third is the operator or takes over an ended lease.
- `CHECK_DEADLOCK FALSE`: calls end; when all have ended nothing needs to happen.
  `wallets` never stops and is checked for deadlock.

## 6. Fairness

Weak fairness is assumed of what a running process does by itself: a call that
can take its next step takes it (`WF(SubmitPayment(c))`, `WF(Execute(c))`,
`WF(RequestStep(r))`, `WF(SendStep(s))`, `WF(DrainStep(d))`, `WF(Start(c))`,
`WF(Step(c))`), because every request has a time limit and the event loop runs what is
ready; clocks go on (`Deadline`, `LeaseEnds` of a wallet). Crash actions are never
fair, nor is any fault, the network's inclusion of an envelope, an operator, or the end
of an idempotency lease.

`PaymentLifecycle` and `Refunds` have no fairness, and nothing is claimed of when a
payment becomes final: no process registers, schedules or triggers the payment sweeps,
so a row that its call left 'processing' or 'pending' may stay so for ever. What is
checked is what sweeps may and may not do when they run.

`WaitersAreAnswered` needs no assumption on the owner: the deadline
alone ends the wait. In `SenderConversation` the queue runs every job
(`WF(JobStep(m))`) and Redis drops a lock whose owner is gone (`WF(OrphanExpires)`);
nothing else is fair.

Meta repeats a request until it is told 200 (`WF(Deliver(r) \/ RequestStep(r))`) and
a report until it was kept (`WF(Ingest(e))`); the outbox sweep, the inbox drain and
the deposit poller run at their intervals in `jobs/messaging.jobs.js` and
`jobs/deposits.jobs.js` (`ReconcileUnresolved`, `DrainStep`, `SweepStep`). Users write
again, and so ask for their wallet again (`WF(AskForWallet(c))`). Smile ID answers what
it accepted, and repeats a callback until it is acknowledged; a callback in hand may be
another's, so `DeliverNew` is strongly fair.

## 7. Proofs

Checked by TLAPS for every value of the constants that satisfies the modules'
assumptions: bounds are positive numbers (`ConstantsOK`, `Bounds`,
`SubmissionConstants`, `ProvisioningBounds`, `RefundConstants`), `None` and the like are
no data (`Names`, `NoneIsNoCall`), scenes are what their module describes (`Scenes`).
Three of them say more: `Notifications` has finitely many senders, since its properties
count them; the history of a wallet in `Deposits` is not longer than its payments;
amounts of refunds are positive and the largest is that of the payment.

*PaymentLifecycleProofs.* `SuccessOnLedger` is not inductive: that a sweep's
decision is still right when it is written depends on what the sweep knew. The
invariant `IInv` adds: a call that works on another call's row found it by its key,
and a call at work has a row (`CallsOwnRows`); a row that does not exist is blank
(`BlankRows`); hashes in rows, in calls and in sweeps are on the ledger
(`HashesOnLedger`); the hash of a keyless row is its own call's or one of its
kind (`KeylessHashes`); a sweep about to write 'success' holds or has found a
paid hash of the row's kind (`SweepsKnow`). The journal needs a second invariant
that counts entries against the call's stage. `Finality`, `HashOnLedger`,
`JournalOnce` and `TypeCorrect` follow. `FinalRowsStay` is the action property: no write
of a call, a sweep or an operator but the catch's starts from a final status.

Its last sections are about `Refunds`. `JournalFollowsTheRow` rests on: a call that
settles holds a hash that is on the ledger (`SettlesWhatIsThere`), nothing is posted for
a call before its last step (`PostedAtTheEnd`), and no writer starts from a success.
`OverRefundExplained` speaks of the refunds that were paid, in whatever order their
calls looked, and counts every unit of every envelope the ledger paid. The units of a
call's first paid envelope are at most the units it asked for (`GivenBackCounts`), so it
remains to bound the amounts of the paid refunds, and the invariant speaks of all sets
of refunds at once (`SeenFits`): any refunds the check let through, none of which
overlooked another, fit into the payment. It is inductive because a refund that is let through fits beside all successes it sees,
and those are all the others of such a set; what sweeps and retries do to the rows
later changes nothing. Sums are cardinalities of sets of units (`TotalGrows`,
`TotalWith`).

*StellarSubmissionProofs.* The lock (`LockInv`): whoever runs waits in its process's
queue, once, and whoever works is at its head. Envelopes are built attempt by attempt,
each after an answer that is looked up (`AttemptsInOrder`); the ledger has each envelope
at its own sequence number and nothing else (`LedgerBySequence`); numbers are taken from
what Horizon has ingested, so those of one call never fall (`SequencesGrow`).
`SerializedCallsNeverCollide` adds: as long as one process signs and heard of every
envelope, Horizon is level with the ledger but for the envelope in flight
(`LevelWhenAlone`). `SubmissionKeepsContract` maps each step of a submission to a step of
`SubmissionContract` or a stutter: a hash that was returned is the last attempt's, and is
on the ledger (`ReturnedIsThere`).

*IdempotentSendProofs.* `OneSubmissionPerKey` rests on: the record, once
created, never changes its reserved id (`KeyTaken`, `RunsReservedId`: every call
that runs, runs with that id); the row of the id is created by one call only, and
that call alone is paying or has paid (`OnePayer`); rows of other ids stay absent;
nothing is stored or told as a success before the reserved row exists, and every
response that is stored, was read or was told carries the reserved id
(`SuccessIsReserved`, from which `ToldOfReserved` follows); and the calls that run or were answered carry the record's fingerprint (`SameRequests`).

*SenderConversationProofs.* `OneAtATime` follows from `OwnsLock`: until a live
owner loses it, a message at work owns the lock, so what it read of the pending
send is still there when it writes (`ReadIsFresh`), and the books of a send
balance at every step (`EachRequestEndsOnce`, `YesIsUsedOnce`). When messages
overlap `ReadIsFresh` is lost; that a risky send still comes to its PIN by a "yes"
only is carried by every copy of it, in the row or in a message's hand
(`PinsAreConfirmed`). `HasSend` and `AttemptsLeft` type the steps.

*InboundMessagesProofs.* `AcceptedMeansQueued` rests on what a request knows at each
place (`RequestsFit`): with nothing to retry, every item behind it was queued, dropped on
purpose or lost to another request at a failed row, and a row past its claim is of such
a message (`RowsKnown`). `AnsweredOncePerLife` is a balance (`AnswersCounted`): a life
that has not come to its end still owes one processing. `WorkerOwnsTheRow` follows from
the conditions of the webhook's writes.

*NotificationsProofs.* `NotSentTwice` has two reasons. A durable notification has one
row, which one sender claims, once, while nobody else may call Meta (`ClaimedOnce`), and
of that sender's calls all but the last are in doubt (`AcceptedOnce`). Of any other, each
sender has at most one accepted call that is not in doubt, which is its last
(`AcceptedPerSender`, by counting the senders that make no further call). Ids stay within
the calls made, since accepted messages are not more than calls (`SendersFit`).
`RowNeverGoesBack`: a drain about to write has a report not behind what it read
(`DrainsFit`), and a sender writes only to a row without a reported status
(`ClaimedOnce`, `OwnRowsWait`).

*WalletProofs.* `NoDepositSkipped`: at every place of a sweep, all payments up to the
one it is at have their record or are history (`PagesCovered`), so the cursor it writes
skips none, also when another sweep has moved the cursor meanwhile; records are never
deleted. That a page ends where it says needs the smallest of a set of payments, which
the well-foundedness of the numbers gives (`Smallest`). `DepositToldOnce`: before its row
is claimed the owner was told of nothing (`ToldByTheRow`).

In its second part `CallsDoNotOverlap` alone is not inductive: that a second
claim is refused needs to know that the part is in progress under a lease that is not
over while a call holds it, and that the parts come in order. `ProvisioningInv` adds `Unforced`,
which says so until a lease is overrun or reset (`LeaseIsHeld`, `FundedAsItSays`,
`TrustlineAfterFunding`), and `MadeIsOnLedger`: a call about to write 'succeeded' saw
its account or trustline on Stellar.

*KycProfileProofs.* `IInv` types every column (`Types`), says what an actor at each
place has in hand (`InHand`), that an operator who decides no approval is about to
write no override of what it read (`AloneIsMinor`), that a payment on its way to the
screening read a profile without a block (`NoBlockSeen`), and that an operator between
its two writes is about to copy what the profile has, unless another write came between
(`CopyIsKnown`), which makes `CopiesAgree` inductive. The four theorems follow from it;
the two action properties need the action as well.

Only model-checked: the liveness properties `EveryCallReturns`,
`WaitersAreAnswered`, `EveryMessageIsSettled` (both), `SendsAndReportsSettle`,
`EveryDepositIsSettled`, `WalletBecomesReady` and `PendingIsDecided`: the prover has no
rule for liveness under fairness, and no ENABLED.

## 8. Where code and documents disagree

The run `untold_deposit` ends with TLC's counterexample, and its finding quotes the
line: all deposits of a wallet have one notification key. After the first nothing is
sent, and the record is marked delivered, where the module promises one notification
for each inbound payment.

Met while reading, described here and not run.

*Payments.* An uncertain submission ends in `markTransactionFailed`
(`payment.orchestrator.js:250-256`, `markFailed.js:59`), and sweeps do not look at failed
rows, so a paid row stays 'failed', where `.kiro/specs/stellar-payment-finality/bugfix.md:67`
wants 'pending' and reconciliation. Nothing registers the reconciliation jobs, so a submitted payment stays
'pending' (`jobs/reconciliation.jobs.js:4`). An uncertain attempt is retried with a new
envelope, though the log says "resubmitting same envelope" (`stellar.adapter.js:607`).
The failure of a call whose lease ran out overwrites the response stored for the key
(`idempotency.service.js:149`). A history match may take another payment of the same
amount and destination, or another asset (`payment.reconciler.js:162-167`, where line
34 asks for the txHash); a hash that submission returned may still be marked 'expired'
when Horizon shows nothing for five minutes (line 139); the sweep's compare-and-set
names the expected statuses, not the one it read, so after an operator's retry it can
write a change the matrix does not list (line 149 of the transitions);
markTransactionFailed overwrites terminal statuses (transitions.js:24-25); the
recovered lookup does not ask whether the transaction was successful (adapter 597);
sweeps do not filter by type; a reused key whose row is still 'processing' is submitted
again (orchestrator 194), though no deployed caller passes one; and two nulls in a row
from replayOrWait are answered as a replayed null (idempotency.service 136-137).

*Refunds.* Two refunds under way do not see each other, and a refund that failed after
its envelope was sent, or whose row could not be settled, does not count, so a payment
may be refunded twice; and one call may pay a refund twice by itself, when its first
answer is lost and Horizon does not show the envelope yet (`stellar.adapter.js:594-611`).
The drill of `docs/incidents/drills/2026-08-29-tabletop-payment.md:41`
asks for refund idempotency to be confirmed. A refund that a sweep confirms has no journal
entry and is not listed in the payment's metadata, and the hash may be another payment's.
Two refunds that settle both write the metadata they read: one is lost from the list.

*Conversation.* The reply after a payment throws (`assistant.service.js:275`), so a paid
PIN reply neither completes nor advances the cursor; a request whose worker stopped after
its write runs again after the payment and asks for the send anew, and the next PIN
reply pays it a second time. `EachRequestEndsOnce` holds: the same message became two
requests. The cursor is read before the lock is taken (`ordering.service.js:182`), so an
older message can be processed after a newer one.

*Inbound messages.* A crash, or a rate limit that throws, leaves a claim 'claiming', and
every redelivery answers 503 from then on, until Meta gives up. Of two requests that
find a failed row the one that loses the reclaim answers "duplicate" before the other
has queued anything (`webhook.controller.js:82-88`). A replay reuses the id of the job the
queue still retains and is ignored, while the letter says 'replayed'
(`dlq.service.js:322`); the admin handler passes no queue at all. A job that stalls twice
fails with attempts left and gets no dead letter.

*Notifications.* `Notification` has no `metadata` column, so the row for a retry after
busy answers cannot be written and the call throws. A retry job for a failed delivery
carries a field the worker does not read, and is dropped. A report is recorded before
the row is updated: when that update fails, the retry finds a duplicate and the status is
lost. Reports that arrive before the provider id was attached, and those of the second
it was attached in, are dropped. A report whose process stopped stays 'processing':
replayEvent, which would bring it back, has no caller.

*Deposits.* Two first polls may set the cursor to different payments, and a deposit
between them is taken for history; after a failed lookup of the newest payment the
cursor starts at the oldest page and history is told as new. A record whose attempts
another sweep used up stays 'pending', is no longer loaded, and is not dead-lettered.

*Wallets.* A call that outlasts its lease and fails, or a recovery meanwhile, leaves a
funded wallet 'pending' or 'failed' for ever, where the comment at
`wallet.service.js:168-169` calls the recovery idempotent. Friendbot is asked without
a timeout. Line 102 returns the success's update without awaiting it, outside its try.

*KYC.* A screening hit is recorded in the payment's transaction, which its own exception
rolls back, so neither the block nor its audit entry stays, where the comment at
`compliance.service.js:372` says "with full audit trail". A review writes five columns
whatever was written since; two approvers may both apply one override; callbacks set
status and tier whatever an operator decided; a late failure of the submission overwrites
the callback's decision; and a stop after the write of 'pending' strands the profile,
since a pending verification is not submitted again.

## 9. Not modelled

Not yet: the consumption of quotes; the circuit breaker and failover
of `config/horizon.js`; the PIN's failure counter, whose only caller is serialized for
each sender; the per-process ordering memory that stands in while Redis fails.

Left out of modelled parts: templates, the simulator's transport and the worker of
retried messages (notifications); the deletion of delivered deposit records after 30
days; the creation of a profile by two first requests; the amount limits of a tier; the
queues beside the inbound one. `walletRecovery.service.js` (key rotation, recovery by
challenge) and the in-memory `PaymentIdempotencyService` have no callers. The expiry of
verifications is registered by no process. `reconcileTransactionCheckpoints` only reports.

Not at all: formatting, logging, metrics and authentication; the arithmetic of money and
rates; the user interfaces, which keep no state the payments depend on and are most of
the repository's lines; consent, retention and the erasure of a user's rows while a
payment runs; policy checks inside runCore beyond their outcome.
