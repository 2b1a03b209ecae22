# EVzone Investimates: formal models

TLA+ models, model-checking runs and machine-checked proofs for the EVzone
platform backend (`src/`): a NestJS API and its workers over PostgreSQL
(Prisma), Redis, Kafka and object storage.  Paths below are relative to `src/`.

## 1. The system

### Components, their state and how they meet

| Component | Where | State | Meets |
| --- | --- | --- | --- |
| Investment commitments | `apps/api/src/modules/investments.module.ts` | `Investment`, `Transaction`, `LedgerEntry`; the Redis idempotency window | writes `Project.fundingRaised` and status, outbox rows; reads deals, alerts |
| Deals | `.../deals.module.ts` | `Deal`, its investments | writes investments and projects; the scheduler's sweep would close deals |
| Projects | `.../projects.module.ts` | `Project` and its status | due diligence, investments, deals, media |
| Payments, ledger posting | `.../payments/` | `PaymentIntent`, `PaymentTransaction`, `WebhookEvent`, `LedgerEntry`, `ReconciliationItem` | providers by HTTP and webhooks; `worker-webhooks`, `worker-payments` |
| Transactional outbox | `libs/events`, `apps/worker-events` | `OutboxEvent` | every writer; Kafka; notifications |
| Notifications | `libs/notifications`, `apps/worker-notifications` | `NotificationDispatch` (the queue), `Notification` | filled by the outbox publisher; mail, SMS and push providers |
| Due diligence | `.../due-diligence.module.ts` | requests, assignments, reports | projects |
| Compliance, KYC/KYB | `.../compliance.module.ts`, `.../payments/kyc-kyb.service.ts`, `apps/worker-compliance` | alerts, checks, `User.kycStatus` | investments read both |
| Scheduler | `apps/scheduler` | none of its own | meant to close deals, remind of due diligence, clean up media; does not start |
| Authentication | `.../auth.module.ts`, `libs/auth` | users' failure counts, refresh tokens, reset tokens, MFA flags | users, administration |
| Media, documents | `.../media.module.ts`, `apps/worker-media`, `.../documents.module.ts` | upload intents, assets | object storage, outbox |
| Votes, watchlist, messaging, notifications' inbox, tenants, activity, AI advisor | `.../*.module.ts` | rows of their own | projects, deals, users |
| Impact reporting | `libs/impact` | reports, metrics in Redis | Redis; no application calls it yet |
| Kafka consumer | `libs/events/src/kafka-consumer.service.ts` | offsets, dead letters | Kafka |
| Health | `.../health.module.ts` | none | every dependency |
| Lists and reports | queries of most modules | none: each is several queries over rows that move | all tables |
| Administration, users | `.../admin.module.ts`, `.../users.module.ts` | other components' rows | all |
| Circuit breaker, cache, idempotency helpers | `libs/observability`, `libs/redis` | in-memory or Redis | provider adapters; no application uses the cache lock or the idempotency service yet |

### What is hard here

* **Check outside, write inside.**  Almost every handler reads a row, decides, and
  opens its transaction afterwards without reading again.  PostgreSQL runs at READ
  COMMITTED and nothing retries, so only unique constraints and atomic increments
  protect against a second handler in between.
* **Writes without a transaction** (`confirm`, `runReconciliation`, `submitKyc`, the
  webhook worker, refresh-token rotation, the advisor's chat): a crash leaves a prefix.
* **Two stores.**  Redis answers before PostgreSQL is asked, and evicts when it likes;
  an upload is in the object store and in a row.
* **Queues in tables** (outbox, webhooks, notifications) drained by workers that can
  overlap, crash between the effect and its mark, and retry.
* **Rounds** that take a batch, stop at the first error, and come again.
* **Providers** answer late, twice or never, and by a webhook as well as by the call.
* **Processes that do not do their work.**  The scheduler and worker-compliance ask their
  container for `OutboxService`, which their modules do not import, so that their bootstrap
  ends before the loops (`apps/scheduler/src/main.ts:17-39`,
  `apps/worker-compliance/src/main.ts:18-28`); worker-media reads `event.payload` of messages
  that are the payload itself and returns on every one (`apps/worker-media/src/main.ts:86-87`,
  `libs/events/src/kafka-publisher.service.ts:74-77`).  Nothing here relies on any of them.
* **Several queries, one answer.**  A page and its total, the figures of a dashboard and
  the parts of a tally are read one after the other while the rows move.

### What makes each component correct

* Commitments: one investment per idempotency key and one answer for it; no money
  counted twice or lost; events exactly for what was stored; caps respected.
* Deals and projects: nothing is offered that was not approved, whatever races with it.
* Payments: no final status is invented, no investment is confirmed without its entries,
  the ledger repeats exactly what was recorded and balances, and a collection is posted once.
* Outbox and notifications: what was committed is published at least once, nothing
  else is; what is marked done was done; leases expire; users are notified.
* Due diligence, KYC, compliance: administrators decide, the provider's last word stands,
  rejections are raised, events and alerts agree with the cases.
* Logins and sessions: failed logins lock, locks stand on their counts; a token is spent for
  one successor.
* Documents: what is shown as ready is there.
* Lists, reports, tallies: off by no more than what changed while they were read.
* Shared libraries: the breaker recovers, no message is passed over, "ok" means up, time
  clears the caches.

## 2. The plan, and how far it is done

In order of importance.

1. `Commitments`, `Funding`: commitments, cancellation, confirmation, compliance verdicts
   and project transitions, with the refinement and its proof.  Done.
2. `AtLeastOnce`, `Outbox`, `Notifications`, each of the two table queues shown to
   implement the same abstract channel; `EventPipeline` composes them.  Done.
   `Leases` says what the leases of the notification queue are worth.
3. `Payments`: intents, webhook workers, verification, reconciliation, the ledger.  Done,
   proved.
4. `Deals`, `Projects` with the investments that write their statuses back.  Done, proved.
5. `Logins`, `Sessions`, `DueDiligence`, `Verification` (KYC and KYB), `Compliance`,
   `Disputes`.  Done, proved.
6. `Documents`, `Milestones`, `Gallery`, `Votes`, `Watchlist`, `Messaging`, `Inbox`,
   `Advisor`: done, their safety proved.
7. Libraries: `CircuitBreaker`, `KafkaConsumer`, `SharedCache`, `Impact`, `Health`: done, their
   safety proved.
8. What many handlers have in common and no one component shows: `Paging` for every list,
   `Reports` for every report made of several queries.  Done, proved.
9. Left: the composition of `Payments` with `Outbox`; two projects in one `Deals` and
   `Funding`.

### How the runs are put together

Components that share no state are checked in one run: the initial state picks a *part*,
every step is one of that part, the variables of the others stay at their initial values,
and fairness is stated for the behaviours that are a part's own
(`MCServices`, `MCPlatform`, `MCDelivery`).  Nothing is lost, since the
product of independent components has no behaviour that matters beyond theirs.
`MCFundingParts` does the same with five settings of one module, which differ in the
operations, the amounts and the number of handlers.

| Run | Module | Checks |
| --- | --- | --- |
| `funding` | `MCFundingParts` | `TypeOK`, `OneInvestmentPerKey`, `SameAnswer`, `FundingConservation`, `OutboxMatchesTables`, `ConfirmedEventIsBacked`, `ChecksHoldAlone`, `KeepsPromise` |
| `funding_race_cap` | `MCFunding` | `DealCapHolds` is violated |
| `funding_race_cancel` | `MCFunding` | `RefundedAtMostOnce` is violated |
| `payments` | `MCPayments` | `TypeOK`, `FinalStatusIsTheProviders`, `DoneWasRecorded`, `LedgerFollowsPayments` |
| `payments_ledger` | `MCPayments` | `SuccessIsRecorded` is violated |
| `payments_twice` | `MCPayments` | `CollectionPostsOnce` is violated |
| `outbox_kafka` | `Outbox` | `TypeOK`, `SentFirst`, `ReachesKafka` |
| `outbox_stop` | `Outbox` | `QueuedInTheEnd` is violated |
| `notify_live` | `Notifications` | `TypeOK`, `SentWasDelivered`, `ReachesUser` |
| `delivery` | `MCDelivery` | `OneWorkerPerRow`, `SentIsFinal`, `NotifiedOnce`, `UsersAreNotified`, `PublishersKeepTheQueue` |
| `services` | `MCServices` | `TypeOK`, `OfferedWasApproved`, `SessionsAreKept`, `VerdictsAreKept`, `RecordsAreKept`, `FiguresAreClose`, `DecisionsStand` |
| `platform` | `MCPlatform` | `PlatformTypeOK`, `OpenedFirst`, `AccountsAreTrue`, `DecisionsAreTrue`, `BreakerRecovers`, `MessagesAreKept`, `TimersEnd` |

A property of a composed run is a conjunction with one conjunct per part; the sections
below say which conjunct asks what.  Deadlock is checked nowhere: with bounded rows,
messages and changes every instance may come to rest, and clients may simply stop.

### How handlers are modelled

An await that reads something the handler relies on later is a step; the writes of one
`$transaction` are one step; the writes of a handler without a transaction are one step
each.  A handler between two steps is a *job* in a slot (`req`, `call`, `worker`), which
carries what it has read and nothing else.  An error, a lost connection or the end of the
process takes the job away (`Fail`, `Stop`, `Abandon`, `RoundFails`): a transaction rolls
back, what was written before it stays.  Two slots are what a race between two requests
takes.  Times (`closesAt`, leases, tokens, windows, due dates) are abstracted to "not yet"
and "past", with an action that makes the one the other.  Audit rows, response bodies and
wording are left out.

Each module that a mutant refers to holds its faulty variants beside the definition they
vary, marked *Faulty variant*; no specification uses them.

## 3. Funding

### State and actions

`Funding` has one variable per table the handlers share (`project`, `investment`,
`transaction`, `refund`, `ledgerEntry`, `outboxEvent`), the Redis window `idem`, the
answers clients have received (`answered`), and `req`, the handlers in flight.  A
handler is a job in a slot: the arguments, what it has read (`seen`, `passed`), the
row it works on, and the next step (`pc`).

| Code | Actions |
| --- | --- |
| `InvestmentsService.invest` | `AnswerFromCache`, `BeginInvest`, `AnswerExisting`, `MissExisting`, `ReadProject`, `CheckDeal`, `CommitInvest`, `Conflict`, `CacheAnswer` |
| Redis expiry and eviction (external) | `ForgetAnswer` |
| `DealsService.invest` | `BeginDealInvest`, `CheckCap`, `CommitDealInvest`, `Conflict` |
| `cancel` | `BeginCancel` (the status check), `CommitCancel` (the transaction) |
| `runComplianceCheck` | `BeginCompliance` (the verdict, any), `CommitCompliance` |
| `confirm` | `ConfirmRow`, `ConfirmTransaction`, `ConfirmEvent`, `ConfirmLedgerEvent` |
| `update`, `updateTransactionStatus` | `UpdateInvestment`, `UpdateTransaction` |
| `approve`, `reject`, `publish` | `ApproveProject`, `RejectProject`, `BeginPublish`, `CommitPublish` |
| an error, a lost connection, the end of the process | `Fail` |

A uniqueness violation is `Conflict`.  The increment of `fundingRaised` is done
by the database on the current value (`RaisedAfter`), while the status is computed from,
and written back as, the value read before (`StatusAfter`): that asymmetry is the code's.

Abstractions: amounts are small numbers within a project's `minInvestment` and
`maxInvestment`; currency, payment method, audit rows and response bodies are left out;
a deal is LIVE throughout (its lifecycle is module `Deals`); the audit write of `confirm`
can only fail, which `Fail` covers; the outbox is a set, since what is asked here is
which events exist.  The investor's ledger account and the project's escrow account are
named by their owners.

### Abstract specification

`Commitments` is what an investor is promised about a key: a commitment is *made* at
most once, never replaced, and every answer *told* names it.  `Funding` implements it
under `made <- [p |-> RowOf(p)]`, `told <- answered` (`KeepsPromise`).

### Runs (`MCFunding`, `MCFundingParts`)

One project, one deal, one investor (a second investor shares no key, row or cap with
the first that one investor with two keys does not), two keys, two rows, three slots.
Rows, slots and keys are interchangeable, hence symmetric.  Bounds: the number of rows (an
insert needs a free identifier), `MaxRefund` refunds per row, the amounts, the slots; a
part may allow fewer in flight (`InFlight`), one row or one key.

| Part of `funding` | Instance | What it is for |
| --- | --- | --- |
| `promise` | three calls of both endpoints, retries, evictions, crashes | the idempotency promise: two calls that race and a third that repeats one |
| `money` | two handlers: commitments, cancellations, verdicts, amounts 1 and 2 | `FundingConservation`, `OutboxMatchesTables` |
| `serial` | the same checks, one handler at a time | `ChecksHoldAlone` |
| `office` | two handlers: confirm, the administrators' updates, cancel | `ConfirmedEventIsBacked` |
| `lifecycle` | two handlers: approve, reject, publish beside investments | what a status written back late does to the rest |

All invariants are checked in all parts.  `ChecksHoldAlone` exists so that the two
violations mean something: the checks are right, and it is their distance from the writes
that breaks them.  `funding_race_cap` lets two investments read the sum before either
commits; `funding_race_cancel` lets two cancellations pass the status check.

Seen while modelling, without a run, because no interleaving is needed or nothing promises
otherwise: `cancel` writes no ledger entry, though the title of its test says "and reverse
ledger" (`test/investments.spec.ts:174`); the quarter of a deal's target one investor may
take (`investments.module.ts:260`) is checked by one endpoint over rows that only the other
one writes; the flow of `ARCHITECTURE_AUDIT.md:128` is not enforced, since `confirm`
writes CONFIRMED whatever the status was and a compliance verdict may revive a cancelled
investment; a project rejected while an investment is in flight gets the status that
investment had read back; `createPaymentIntent` is in `Payments`.

No fairness is assumed and no liveness stated: a client may leave at any time.

### Proofs

All for arbitrary constants satisfying `FundingAssumption` (amounts and targets are
numbers, a deal has a project, `None` is none of the identifiers).

* `FundingProofs`, types: `TypeCorrect`, `Spec => []TypeOK`.  `TypeOK` is not inductive:
  a commit writes the status its job has read and the later handlers write the row they
  name.  `TypeInv` adds what each job carries at its step (`InvestJobReady`,
  `RowJobReady`, `PublishJobReady`) and that a stored row has its investor, key and
  project (`RowsReady`).
* `FundingProofs`, promise: `OneInvestmentPerKeyHolds`, `SameAnswerHolds` and
  `Refinement`, `Spec => KeepsPromise`.  `PromiseInv` adds that whatever may still be
  told of a pair names a row of the pair: the window (`IdemBacked`), the answers
  (`AnswersBacked`), the handlers about to fill the window (`CachersBacked`).  Steps fall
  into four kinds (`StepKinds`): quiet ones, answers, evictions, commits.  A commit is
  abstract `Make`, an answer is `Tell`, the rest is invisible.
* `FundingProofs`, books: `FundingIsConserved` and `OutboxMatches`.  `Total` is the
  library's fold over a set, along a chosen order; the module first proves what the books
  need of it: that the sum exists, that any element may be taken out first
  (`TotalTakesOut`) and that only the values on the set matter (`TotalSame`).  The induction
  is over subsets of a finite set, by the smallest counterexample.  `BooksInv` adds to the
  two properties that an identifier without a row has neither refund nor ledger entry
  (`NewRowsAreBlank`), so that an insert adds to the sums and changes nothing in them, and
  that the tables are finite.
* `FundingProofs`, events: `ConfirmedEventIsBackedHolds`.  `ConfirmInv` says how far
  a running confirm has come, and that an event is about a stored row, since inserting a
  row would reset what the event reports.

* `FundingProofs`, one handler at a time: `ChecksHoldAloneHolds`, for the composed
  specification of `funding` and under `PartsAssumption` (only the operations that the serial
  part runs, positive targets, which the controller demands, `projects.module.ts:403-405`).
  `SerialInv` says that at most one handler is in flight and that what it has checked is
  still true (`StillTrue`): the status and amount it saw are the project's, the deal still
  fits under its cap, the investment is still one that may be cancelled; and that a refunded
  investment is no longer such a one.  The two violated properties of section 3 are thus
  races and nothing else: with the handlers one after another they hold for any number of
  deals, investors and rows.

## 4. Events and notifications

### State and actions

An event is one row of `OutboxEvent`, written in the transaction it reports (`Create`;
`Funding` shows which transactions write which events).  `Outbox` keeps the rows, the set
`log` of events Kafka has, the `NotificationDispatch` rows and the publishers;
`Notifications` keeps the rows, the workers and `inApp`, the notifications users have.
`Leases` extends it by a history of the leases: which workers are `exposed` (their lease ran
out, or such a worker settled their row), which are `unsure` (`markSucceeded` failed for them
although it took effect), which events were `retried`.

| Code | Actions |
| --- | --- |
| `OutboxService.create`, `createMany` | `Outbox!Create` |
| `findPending`, the loop of `processBatch` | `FindPending`, `Start`, `NextEvent` |
| `processEvent`: publish, markPublished, enqueueFromEvent | `Publish`, `MarkPublished`, `Enqueue` |
| its catch clause | `Throw` or `LostAnswer`, then `MarkFailed` |
| `nextAttemptAt` passes | `RetryDue` (both modules) |
| `findReady`, the loop of worker-notifications | `FindReady`, `Continue` |
| `markProcessing` | `Claim`, or `Skip` when it changed no row |
| `processingStartedAt` is five minutes old | `LeaseEnds` |
| `NotificationDeliveryService.dispatch`, `deliver` | `Deliver` (up to the in-app row), `Channels` (e-mail, SMS, push) |
| `markSucceeded`, `markFailed` | `MarkSucceeded`, `MarkFailed` |
| the inner catch; the outer catch, SIGTERM, a kill | `Throw`, `LostAnswer`; `Stop` |

Each await the outcome depends on is a step.  A call may reject without effect (`Throw`)
or after it (`LostAnswer`), and a process may end anywhere (`Stop`).  `Stop` also stands
for a rejection of the calls outside `processEvent`'s try block, `findPending` and
`markFailed`: nothing catches it, Node ends the process, and Docker starts it again.
`Faults` says which of the three an instance allows, `Slow` which workers may hold a row
longer than its lease.

Abstractions: fewer events than a batch takes, so the limits of 50 are not reached; the
attempt counters only choose the delay, which is unbounded here, so they are left out;
two notifications of one event are not told from more (`Many`); the branch for a missing
Kafka producer cannot be reached, since the module connects it before the loop starts.
The channels after the in-app row are external: each failure of theirs is swallowed,
except the lookup of push subscriptions, which is `Throw` at `channels`.  `Addressed` are
the events whose handler finds a user.  An event that has a handler but no addressee is a
successful delivery of nothing: `project.approved`, `project.rejected` and
`project.revision-requested` ask for a `payload.ownerUserId` their publishers do not send,
so that is a case the code is really in.

### Abstract specification

`AtLeastOnce`: nothing is delivered that was not accepted, nothing is withdrawn, and what
was accepted is delivered in the end, possibly several times.  `Outbox` implements it
with Kafka as the receiver (`ReachesKafka`), `Notifications` with the users
(`ReachesUser`), `EventPipeline` from the committed row to the user (`UsersAreNotified`).

### Runs

| Run | Instance | Result |
| --- | --- | --- |
| `outbox_kafka` | two events, two publishers, every fault | `TypeOK`, `SentFirst`, `ReachesKafka` hold |
| `outbox_stop` | the same | `QueuedInTheEnd` violated |
| `notify_live` | two events, one without an addressee; two workers, one slow; every fault | `TypeOK`, `SentWasDelivered`, `ReachesUser` hold |
| `delivery`, part `lease` | the same two events; two workers, one slow; every fault | `OneWorkerPerRow`, `SentIsFinal`, `NotifiedOnce` hold |
| `delivery`, part `pipeline` | one event; two publishers that reject and lose answers; two workers, one slow, with every fault | `UsersAreNotified`, `PublishersKeepTheQueue` hold |

Two events are what it takes for a batch to hold a row that another process changes
meanwhile; two or three processes are what the races need, since each is between one that
holds a row and one that takes it.  `ReachesUser` is the abstract channel together with
the requirement that every queued event is marked SENT in the end.

`outbox_stop`: `processEvent` marks the row PUBLISHED before it queues the notification,
and `findPending` never returns a PUBLISHED row.  When the process ends in between, or
one lost database connection makes both `enqueueFromEvent` and `markFailed` reject, the
event is never queued.  That is why part `pipeline` allows its publishers to fail but not to
stop: with a stop, `UsersAreNotified` fails for the same reason.

No call of a worker has a timeout that keeps it within its lease, so two workers may have one
row, a SENT row may be taken up again, and a user may hear of an event twice; the service does
not promise otherwise.  `Leases` says when: two workers have one row only if one of them is
exposed (`OneWorkerPerRow`), a SENT row is settled again only by an exposed or unsure worker
(`SentIsFinal`: `markFailed` does not look), and an event is notified twice only if an attempt
failed or outlived its lease (`NotifiedOnce`).  These hold with slow workers and all faults.
`PublishersKeepTheQueue` is the other half: to the workers, publishers that repeat each other
are the queue's `Enqueue`, so that the three hold behind them too.

### Fairness

Each loop takes a step when it can (WF of `Step`): the loops never end by themselves and
their processes are restarted (`docker-compose.yml:161` and `:193`, `restart:
unless-stopped`).  Times come (WF of `RetryDue` and `LeaseEnds`).  Strong fairness of the
single calls, per event, says that an event which is attempted again and again is not
rejected every time; retries are unlimited in both queues, so attempts do not run out.
Nothing is assumed of `Throw`, `LostAnswer` and `Stop` but that they are not all there
ever is.

### Proofs

For any sets of events, publishers and workers (`OutboxAssumption`,
`NotificationsAssumption`).

* `OutboxProofs`: `OutboxTypeCorrect`, `SentFirstHolds`, `OnlyCommittedHolds`.  `OutboxInv`
  adds what a job carries: its event and its batch are stored rows, and from `mark`'s
  answer on its event is in the log.  The oldest event of a batch is an element of it
  (`OldestInBatch`, from the well-foundedness of the naturals).
* `NotificationsProofs`: `QueueTypeCorrect`, `SentWasDeliveredHolds`, `OnlyQueuedHolds`
  from `QueueInv` (a worker past `deliver` on an addressed event has notified its user,
  whatever became of the lease).  `OneWorkerPerRowHolds`, `SentIsFinalHolds` and
  `NotifiedOnceHolds`, for any slow workers and any faults, from `LeaseInv` (the row of a
  worker that is not exposed is PROCESSING and its lease has not ended, but for an unsure one
  about to write) and `OnceInv` (of an event that was never retried nothing was delivered but
  by the worker that holds its row).  `OnlyCommittedHolds` and
  `OnlyQueuedHolds` are the safety half of the two refinements.
* `NotificationsProofs`, about the pipeline: `PublishersKeepTheQueueHolds`, that each of its
  steps is a step of the queue or leaves the queue alone.

Only model-checked: every liveness property, and the refinement of the whole pipeline.

## 5. Deals

### State and actions

`Deals` keeps the status and closing time of each row (`deal`), which deals have an
investment (`invested`), the events written (`outboxEvent`) and the handlers in flight
(`req`).  Each handler of `DealsService` is two steps, because its status check and its
transaction are: `CheckUpdate` and `Update`, `CheckSubmit` and `Submit`, and likewise
approve, reject, open, pause, resume, close and invest.  `Create` and `Remove` are one
step each: the first checks nothing that changes, the second checks only that the row is
there.  `Sweep` is the scheduler's `closeExpiredDeals`, one conditional update of all rows
without an event.  `ClosingTime` is the clock, `Fail` an error or the end of the process.
`closesAt` is abstracted to null, future or past.

### Run

Part `deals` of `platform`: one deal, two handlers and the sweep; `OpenedFirst` holds.  Deals
share nothing but the sweep's statement, and a race is between two handlers or a handler and
the sweep.

`OpenedFirst` is the promise of the review: however stale the status a handler acts on, a
deal that is or was open to investors, or has an investment, was approved and opened.
The sweep may happen and need not: at this commit the scheduler ends before its loop
(section 1), so no fairness is assumed of it, and nothing closes a deal whose time is over.

Seen while modelling, without a run: pause and resume write their status over a sweep's
close, so that a closed deal may be LIVE again until the next sweep; a submit overtaken
by an approval takes the deal back to review; an update whose check was early changes the
terms of a deal that is live by then, which its own message excludes
(`deals.module.ts:288`); a deal the sweep closes has no `deal.closed` event.

### Proofs

`PlatformProofs`, for any sets of deals and handlers: `OpenedFirstHolds`, and the types as
part of `PlatformTypeCorrect`.  `OpenedFirst` is not inductive, since a handler writes on the
strength of what was true at its check.  `DealsInv` adds that an approved deal has its
event (`ApprovedFirst`) and that each job carries what its check established
(`JobBacked`); both survive interference because events are never taken back.

## 6. Payments

### State and actions

`Payments` has the rows `intent`, `investment`, `payment`, `posting` (a bag: how often a
draft was posted for a payment row, where two stands for more), `webhook`, `alert`,
`outboxEvent`; the provider's `collection`, which settles once; the jobs of the webhook
workers and of the API.

| Code | Actions |
| --- | --- |
| the provider settles a collection, calls the webhook | `Settle` (external), `Receive` |
| `WebhookProcessingService.processBatch`, its loop | `Poll`, `NextEvent`, `FindIntent`, `Ask` |
| its transaction; the balance guard throws | `RecordAnswer`; `RefuseAnswer` |
| after the commit: PROCESSED, the event | `MarkProcessed`, `EmitResult` |
| its catch clause; a rejected call, a lost answer, a stop | `MarkFailed`; `Reject`, `LostAnswer`, `Stop` |
| `createPaymentIntent`, `createCollectionIntent` | `CheckPayable`, `CreateCollection` (no look at the investment), `Charge`, `StoreIntent`, `AnnounceIntent` |
| `verifyAndUpdateIntent` (a method no controller calls) | `CheckOpen`, `AskForIntent`, `LookForPayment`, `UpdateIntent` |
| `runReconciliation` | `Scan`, `Compare`, `Overwrite`, `InsertPayment`, `Audit`, `SkipIntent`, `NextIntent` |
| `LedgerPostingService`, `balanced-ledger.ts` | `CollectionDraft`, `ReversalDraft`, `IsBalanced`, `Posts` |

Abstractions: amounts are `Gross` and a `Fee`; providers and currencies are left out; the
answer a handler holds may be older than the collection.  `StoreIntent` stores the status of
the provider's answer to the charge.  An answer without data is PENDING without a fee, as the
adapters make it (`flutterwave.adapter.ts:83-100`), and names no transaction: `Traceable` are
the intents for which the provider gave an id.  The look for a duplicate and the transaction's
writes are two steps, since the transaction is READ COMMITTED and no constraint stands behind
the look (`payments.service.ts:249-264`).  Nothing calls `verifyAndUpdateIntent` at this commit;
it is in the model because the properties must survive it, and no violation rests on it.

### Runs

`payments`: one intent, one provider event, two workers, one API request, fees 0 and 1 of a
gross amount of 1, every fault.  One intent is enough because intents share only their
investment; one event suffices for a repeated recording, since nothing claims its row and one
that a stop left PENDING is read again.  A fee of 1 is the only one the balance guard lets
through, and both kinds are needed: that which posts and that which is refused.  `MaxPayments`
bounds the payment rows: two, and the third that goes beyond is still looked at.

* `FinalStatusIsTheProviders`: the intent takes whatever is written last, so an open status
  may stand over a final one; no final status is ever invented.
* `DoneWasRecorded`: a confirmed investment has its postings, a PROCESSED webhook its
  payment row, whatever stops in between.
* `LedgerFollowsPayments`: as often as an answer is recorded it is posted, nothing else is,
  and what is posted balances.  It does not say that a collection is posted once.

`payments_twice`: no faults, two workers, and of the API only the creation of the intent.  `CollectionPostsOnce` is violated: `processEvent`
looks for no earlier row, nothing claims the webhook, and both workers record and post
(`webhook-processing.service.ts:83`), against `ARCHITECTURE_AUDIT.md:289`.  While the balance
guard refuses every success whose fee is less than the whole amount, it takes such a fee to
see it; with the guard mended, any fee does.

`payments_ledger`: no faults.  `postCollectionSuccess` debits net and fee and credits gross
and net; `assertBalancedLedgerDraft` throws unless net is zero, the webhook ends FAILED and
the investment is never confirmed.  The worker's own test replaces the ledger by a stub.

### Proofs

`PaymentsProofs`, for any sets of intents, events, workers and requests, any amount and
fees, and any of the faults.

* `PaymentsTypeCorrect` from `TypeInv`: whatever a job, a row or a webhook names has been
  charged, so that what is asked about it and written is a status and never NONE.
* `FinalStatusIsTrue` from `FinalInv`: an answer that is not open, in a row or in a
  handler, is what the provider says from then on, so that it may be written late.
* `WhatIsDoneWasRecorded` from `DoneInv`: a worker about to mark has recorded.
* `LedgerIsFaithful`: `LedgerFollowsPayments` is inductive over the types.  The lemmas are
  about the table that counts equal rows: one more of one kind, the others as before.

Only model-checked: the violations of `payments_ledger` and `payments_twice`, which are
counterexamples.

Payouts are not modelled: `createPayout` asks the provider and inserts one row, and
`verifyPayout`, the only method that would change it (`payments.service.ts:462`), has no caller.

## 7. Projects, milestones, gallery

`Projects` (part `projects`): one project, two handlers.  Each handler of
`ProjectsService` that writes is a check and a write (`CheckPublish`, `Publish`, ...), and
so are the two routes that invest: they write back the status they have read
(`investments.module.ts:310`, `deals.module.ts:672`).  `seen` is the part of the row a
handler uses later.  `OfferedWasApproved` asks that no such write gives a project a status
nobody decided: the events of the outbox must say so of every status, the public ones
(`projects.module.ts:1176-1184`) among them, and of every status an investment in flight is
about to write.  There is one exception, which the property names: a deal is created, opened
and invested in whatever its project's status, so that an investment in a live deal that
reaches the target makes a DRAFT or REJECTED project FUNDED, and thereby public
(`deals.module.ts:672-679`); `fundedByDeal` records it.  All that the review promises holds but
for that.

`DeskProofs` proves it for any sets of projects and handlers.  It is not inductive,
because a handler may work on a row that is not there, and a publish relies on what it read:
`ProjectsInv` adds `ProjectJobBacked`.  Both survive interference since events are never
taken back.

`Milestones` (part `milestones`): find, then write.  `VouchedStays`: who vouched for a
completed milestone stays on record, and what was removed stays removed.  That its status
and amount can still be changed by the owner is what the code does.

`Gallery` (part `gallery`): two reorders of three pictures and single updates, with the row
locks of a transaction (`Held`).  `LastOrderStands`: never a mixture of two orders; two that
take the rows in opposite order deadlock, and the database ends one (`AbortOrder`).

Both are proved in `ServicesProofs`, for any numbers of milestones, pictures and requests.
`GalleryInv` says of every committed order that a picture it placed and nobody moved since is
where that order put it.

## 8. Logins and sessions

`Logins`: one account, which may have a second factor, two requests, three tries, at most four
failures.  Nothing but registration runs in a transaction, so login reads a copy of the account
(`Login`) and writes both columns of the lockout from it (`LoginFails`, `LoginSucceeds`).
Three tries are enough for one failure to be lost and the others still to lock; the code has
five.  `past` counts the failures since the last good login, and those an overlapping one
overwrote.

* `FullCountLocks`: the lock stands exactly when its count is full, though every login writes
  both from a copy.
* `FailuresLock`: failures lock the account, but for those that overlap.  Five logins that read
  the same count leave it at one, so "5 failed login attempts = 15min lockout" (`SPEC.md:242`,
  `ARCHITECTURE_AUDIT.md:259`) is true of logins one after the other only.

`Sessions`: three tokens, two requests, one reset.  `Refresh` looks the token up, `Issue` makes
the next one, `Revoke` writes by id; three tokens are one and two successors.  `repeated` are
the tokens refreshed while another refresh of theirs was under way, or after one that stopped
before it revoked.

* `SpentForASuccessor`: a token is spent only for another.  The answer may be lost after the
  revocation (`auth.module.ts:338-342`): the user then has neither, and logs in again.
* `RotatedOnce`: a token has one successor unless it is `repeated`; `ARCHITECTURE_AUDIT.md:251`
  knows no such exception.

Proved in `DeskProofs`, for any number of tries, tokens and requests.  `LoginsInv`: the copy
of every login is one that stood on its own count, and the failures it misses are those that
came since; so that writing it back leaves the count short by at most what overlapped.
`SessionsInv`: a refresh about to spend has issued a successor, two of one token are `repeated`,
and a token that was not issued replaces nothing.

## 9. Due diligence, KYC, compliance, disputes

`DueDiligence`: one case, an assessor and an administrator, one task, two requests.
`NoAssessorDecides`: a text that *stands for* APPROVED is normalised before it is asked who
sets it, and a late write does not decide for another.  It speaks of decisions: a stale report
may still take a decided case back to review (the hazards list it).  `CompletedWasBegun`:
tasks may move in ways the table of transitions excludes, since the table is asked before the
write; still none is completed that was not worked on.

`Verification`: the three separate writes of `submitKyc`/`submitKyb` (`Create`,
`RecordAnswer`, `AnnounceSubmitted`), every word of the provider's webhook in any order with
them (`Verify`, `Reject`, `Interim`), the user's form and the decisions by hand.  One KYC and
one KYB application; the provider may give either a job id of its own (`renamed`, any subset).
The answers are one that is a verdict and one that is not.

* `LastWordStands`: a word that comes while no answer is on its way stands until the next one,
  and from the announcement on none is refused.  What comes before the answer is written has
  neither promise: a word about a renamed job finds no row and is lost, and the late answer
  writes over VERIFIED or REJECTED (`kyc-kyb.service.ts:114-133`, `260-283`) while the user's
  `kycStatus`, the events and the alert of that verdict stay.
* `RejectionIsRaised`: who publishes a rejection has raised the alert, whatever the order.

`Compliance` (part of `platform`): three cases of which two are personal, a batch of one, two
evaluations at a time.  `C!DecisionsAreTrue`: an event is about a decided case, a rejected user
has an alert, wherever a round is cut off.  `AllowedOncePerWindow`: one SET NX.  The round of
the worker may happen, beside the officers; since its process ends before the loop (section 1),
none has to, and no fairness is assumed.  The rounds over stale applications and overdue cases
are left out for that reason.

`Disputes`: two disputes, two requests.  `FiguresAgree` and `ResolvedIsDated`: the two
endpoints that resolve a dispute write over each other, and both date it.

Proved in `DeskProofs`, for any numbers of cases, tasks, applications, disputes and requests:
the safety of `DueDiligence`, `Verification` and `Disputes`.  `DiligenceInv` adds that a job
which would decide is its administrator's and that one which completes a task has seen it
begun; `VerificationInv` that once the answer is recorded the row has the provider's
reference; `DisputesInv` that each figure read so far counts the disputes there are, but for
those that came since it was read.  `DecisionsAreTrue` of `MCPlatform` is proved in
`PlatformProofs` (`DecisionsAreTrueHolds`), for any cases, users and evaluations: `EngineInv`
and `WorkerInv` say what an alert, an event and a job past its check are evidence of.

Seen while modelling: the event of a decision may be missing after a crash
(`worker-compliance/main.ts:260`); `user.verified` (`ARCHITECTURE_AUDIT.md:196`) is not sent when the provider's first
answer is VERIFIED; the comments "route to manual review" (`worker-compliance/main.ts:49`,
`:66`) speak of what `:176-199` decides as REJECTED; `mapStatus` of Smile Identity reads any
text that contains "verified" as VERIFIED; `mergeAssessments` replaces the assessments a
partial save does not send by undefined ones (`due-diligence.module.ts:860`); login with MFA
asks Redis for the word `verified` where `verifyMfa` has stored an object
(`auth.module.ts:262`, `:642`).

## 10. Documents

`Documents` (part `documents` of `platform`): two documents, each with a row in the database
and an object in the store, written one after the other (`PutObject`, `CreateRow`) or by the
client at a signed URL (`CreateUploadIntent`, `SendDocument`).  `ReadyHasObject`: a document
that is shown as ready has its object, wherever an upload is cut off.

Media assets are not modelled.  Their worker returns on every message (section 1), nothing
routes to `completeUpload`, and `UpdateMediaDto` lets an owner set any status
(`projects.module.ts:339-341`), which is the only way an asset becomes READY: there is nothing
the code ensures about it.  The order of a gallery is in section 7.

## 11. Votes, watchlist, messages, notifications, advisor

All parts of `services`, two requests each unless said otherwise.

* `Votes`: two voters.  `TallyIsClose`: four counts, ballots in between.  `OutcomeStays`: the
  deadline is checked before the ballot is stored; once those are through, nothing changes.
* `Watchlist`: two deals.  `ListedAsTold`: the unique index over user and deal is what makes
  the answers add up.
* `Messaging`: three writers, three messages, a fetch of two.  `ConversationsAreCurrent`,
  `UnreadIsInConversations`: the list of conversations is one pass over the newest messages.
* `Inbox`: two notifications, two readers, a list of one.  `CountedOnce`, `BadgeIsShown`,
  `SeenStaysSeen`.
* `Advisor`: two sessions, three questions.  `AnswersFollow`: question and answer are separate
  writes of calls that interleave.

Proved for any number of rows and requests, `Votes` in `DeskProofs` and the others in
`ServicesProofs`: `TallyIsClose` (`VotesInv` bounds each of the counts a tally has read by the
ballots that changed since), `OutcomeStays`, `ListedAsTold`, `SeenStaysSeen`, `AnswersFollow`
(`AdvisorInv`: an answer that is being written comes after its question in its session).

Figures computed from rows are proved with the theorems on cardinalities.  `CountedOnce`:
what calls of read-all have answered and what is unread come of different notifications, so
that their sum is at most the number of those that came (`CountsInv`).  `BadgeIsShown` and
`ConversationsAreCurrent`: the newest of a set are those with fewer than the limit newer than
themselves; whatever the limit, they are the set or as many as the limit, and the last
message with a partner is among them if any with that partner is.  `UnreadIsInConversations`:
every message of a user has one partner, who is a writer.

## 12. Lists and reports

`Paging` is one client that walks through one of the lists of the API, page by page, while
rows are created, leave, enter and move.  A list is what `Listing` says of it: its filter,
its order, whether rows may leave or be touched, taken from each `findAll`.  Three rows, a
page of one, two changes.  `WalkIsClose`: a walk misses no more rows, and meets no more
twice, than there were changes.  Equal values of the sort column are excluded: PostgreSQL
may order them anew for every page.  Proved in `ServicesProofs` for any number of rows, any
limit and any number of changes.  `PagingInv`: a list has each row once whatever enters,
leaves and moves, and no walk is beyond the rows there are.  `CloseInv`, which implies
`WalkIsClose` and is inductive where it is not: from the walk's place on, the rows ahead are
known; of those listed when it began, the ones neither read nor ahead are at most as many as
the changes, and so are the ones met twice with those read that are ahead once more.  A
change moves at most one row over the walk's place, in either direction.

`Reports` is one report, made of queries answered in any order (`Together`) or one after the
other, over two rows that change twice.  A `Relation` is a pair of figures of a report and what
they have to do with each other (`AtMost`, `Same`); the initial state picks one, so that all
are checked.  `FiguresMatch`: they differ by no more than the changes meanwhile.  A period that is
over is not frozen: a row's `createdAt` is the moment of its insert, and `Create` is its
commit, so a row of an ended period may still appear between two queries
(`admin.module.ts:676-731`).  All other changes no longer count there.  Proved in `DeskProofs`, for any number of rows and changes
(`MatchInv`): while the second figure is awaited, the first and what the second would be at
this moment are apart by at most the changes since the first was answered, as each change
moves a count by one at most.  The three figures of `getPortfolioStats` are followed query by
query in the order they are asked in; those of a portfolio come of one query.

Seen while modelling: the portfolio lists REFUNDED investments under two headings; the pending
reviews of the dashboard count deleted projects, its pending KYC count is not the tenant's;
the audit report's total is that of a capped list; `GET admin/disputes/stats` is declared
after `disputes/:id` (`admin.module.ts:1084`, `:1109`), which answers it;
`getKycStatusReport` filters users by `tenantId`, which `User` does not have
(`admin.module.ts:861`); the ledger reconciliation reads accounts and entries one after the
other.

## 13. Shared libraries

All parts of `platform`; their safety is proved in `PlatformProofs`, as is that of documents,
each for any number of rows, requests, workers, calls, messages and dependencies
(`PlatformAssumption`: bounds are numbers).

* `CircuitBreaker`: three calls, a threshold of two, two trials.  A call begins in one step
  and settles in another.  `OneFailureReopens`; `AskedAgain` and `TrialEnds` (liveness: time
  passes, calls come and end; nothing is assumed of how they end).
* `KafkaConsumer`: two instances, three messages, two attempts at the dead-letter topic.  The
  service subscribes with `fromBeginning: false` (`kafka-consumer.service.ts:54`), so a group
  that stops or is rebalanced before its first commit starts at the end of the log (`Start`)
  and passes over what it had not handled, although its own comment speaks of "rethrowing to
  prevent offset commit" (`:115`).  `begun` is where it last started so.  `NothingPassedOver`:
  from there on nothing is passed over, and an offset once committed is kept.
  `MessagesAreSettled`: after the first commit every message from there on is handled or
  buried (SF: an instance that owns the partition is not interrupted every time).
* `SharedCache`: `getOrSet` with two requests.  `LockIsFreed` and `StaleIsForgotten` (liveness:
  WF of the expiry of keys only; every request may stop).
* `Impact`: one project, two requests, two sets of metrics.  `DatabaseAnswersAreVerified`;
  `RejectedIsForgotten` (WF of the expiry).  The cache is filled before the commit and before
  any review (`impact-reporting.service.ts:95`): it may show what was never stored, for as
  long as the entry lives.
* `Health`: two dependencies.  `OkMeansUp`; `CheckIsAnswered` (WF of the timers).

## 14. What is proved, and what is only model-checked

| Module | Theorems | Assumes |
| --- | --- | --- |
| `FundingProofs` | `TypeCorrect`, `OneInvestmentPerKeyHolds`, `SameAnswerHolds`, `Refinement`, `FundingIsConserved`, `OutboxMatches`, `ConfirmedEventIsBackedHolds`, `ChecksHoldAloneHolds` | `FundingAssumption`; the last one also `PartsAssumption` |
| `OutboxProofs` | `OutboxTypeCorrect`, `SentFirstHolds`, `OnlyCommittedHolds` | `OutboxAssumption` |
| `NotificationsProofs` | `QueueTypeCorrect`, `SentWasDeliveredHolds`, `OnlyQueuedHolds`, `OneWorkerPerRowHolds`, `SentIsFinalHolds`, `NotifiedOnceHolds`, `PublishersKeepTheQueueHolds` | `NotificationsAssumption`, whatever the faults and however slow the workers |
| `PaymentsProofs` | `PaymentsTypeCorrect`, `FinalStatusIsTrue`, `WhatIsDoneWasRecorded`, `LedgerIsFaithful` | `PaymentsAssumption` |
| `PlatformProofs` | `PlatformTypeCorrect`, `OpenedFirstHolds`, `AccountsAreTrueHolds`, `DecisionsAreTrueHolds` | `PlatformAssumption` |
| `DeskProofs` | the parts of `ServicesProofs` up to the disputes, and `Reports` | |
| `ServicesProofs` | `ServicesTypeCorrect`, `OfferedWasApprovedHolds`, `SessionsAreKeptHolds`, `VerdictsAreKeptHolds`, `RecordsAreKeptHolds`, `FiguresAreCloseHolds`, `DecisionsStandHolds` | `ServicesAssumption` |

`PlatformProofs` and `ServicesProofs` are about the composed specifications themselves.  Each
part has an inductive invariant, proved over its own `Next` and its stutters; a step of the
composition is a step of one part and a stutter of the others (`Separate`), so the
conjunction of the parts' invariants is inductive (`PlatformInv`, `ServicesInv`).
`ServicesAssumption` says what the parts take from the code: the statuses that requests may
ask for are those of the enums and the two texts `normalizeStatus` knows, what a provider tells
is mapped to the enum, rows are finitely many, bounds are numbers.

Only model-checked:

* every liveness property and the liveness half of the refinements, which the prover cannot
  express;
* what the publishers do in `EventPipeline`: `UsersAreNotified`.

Every invariant that a run finds true is stated by a theorem.

What a run shows on its bounds says nothing beyond them; the bounds are given in each section.

## 15. Not modelled

* Provider adapters and object storage are external: their answers are choices of
  `Payments`, `Verification` and `Documents`.
* Payouts (section 6), media assets and their worker (section 10), and the rounds of
  processes that end before their loops: the overdue reminder and the media clean-up of the
  scheduler, the stale applications of worker-compliance (sections 1 and 9).
* `MfaService`, `IdempotencyService`, `HealthCheckService`, `createEvent` of the activity
  feed, `postPayoutSuccess` and `getAccountBalance` have no caller or keep no state that
  anything reads.  Payment schedules are created and listed, and nothing executes them.
* Administration of tenants, users' profiles, deposits and withdrawals, assessments and
  evidence are single-row writes; suspicious-activity, audit and KYC listings are capped
  queries.  `submitKyc` replaces all preferences of a user, a single-row write too.
* The jurisdiction round of worker-compliance and the impact reminder of the scheduler, which
  do not run either, only add rows.
* Permissions, audit, encryption, configuration and DTOs are pure functions or appends; where
  they guard an operation they are part of its action.
* `apps/worker-payments` subscribes with `KafkaConsumerService.consume`
  (`payment-reconciliation.service.ts:26`), which does not exist, and no compose service
  starts it.  `archive/`, seeds and tests are not part of the running system.
* Smaller races that no document speaks of are in the models without a property: a submit
  overtaken by an approval, a late change of a deal's terms, a lost toggle of a featured
  project.
