------------------------------ MODULE Payments ------------------------------
(***************************************************************************)
(* Collections: payment intents, the provider's answers about them, the    *)
(* webhook rows and their workers, reconciliation and the ledger           *)
(* (apps/api/src/modules/payments, apps/worker-webhooks).                  *)
(*                                                                         *)
(* The provider is external: a collection settles once and stays as it     *)
(* is.  What it answers may be old by the time it is written down.  A      *)
(* worker or an API handler is a job that carries what it read from one    *)
(* await to the next; only the recording of an answer is a transaction.    *)
(***************************************************************************)
EXTENDS Integers, FiniteSets, SequencesExt

CONSTANTS
    Intent,         \* internal references: a collection, and its intent row
    Traceable,      \* intents for which the provider gave a transaction id
    Investment,     \* investments the intents pay for
    PaysFor,        \* the investment of each intent
    Event,          \* provider event ids: one webhook row each
    Worker,         \* worker-webhooks processes
    Request,        \* API handlers in flight at a time
    Operations,     \* the API operations an instance allows
    Gross,          \* the amount of every intent
    Fee,            \* provider fees
    Outcome,        \* the ways a collection may end
    Faults          \* what may go wrong: rejected calls, lost answers, error bodies, stops

PaymentStatus ==
    {"PENDING", "REQUIRES_ACTION", "PROCESSING", "SUCCEEDED", "FAILED", "CANCELLED", "EXPIRED"}
Open == {"PENDING", "PROCESSING"}
Returned == {"FAILED", "CANCELLED"}
AllOperations == {"create", "verify", "reconcile"}
AllFaults == {"reject", "lost answer", "error body", "stop"}

ASSUME PaymentsAssumption ==
    /\ Traceable \subseteq Intent
    /\ PaysFor \in [Intent -> Investment]
    /\ Operations \subseteq AllOperations
    /\ Gross \in Nat \ {0} /\ Fee \subseteq 0 .. Gross /\ 0 \in Fee
    /\ Outcome \subseteq PaymentStatus \ {"PENDING"}
    /\ Faults \subseteq AllFaults

VARIABLES
    collection,     \* the provider's status and fee of each collection
    intent,         \* status of each PaymentIntent row
    investment,     \* status of each investment
    payment,        \* PaymentTransaction rows: how many of each content
    posting,        \* ledger transactions: how many of each draft, by the row they go with
    webhook,        \* PaymentWebhookEvent rows: status and the intent they name
    alert,          \* intents with a reconciliation alert
    outboxEvent,    \* outbox rows written
    worker,         \* job of each webhook worker
    req             \* job of each API handler

vars ==
    <<collection, intent, investment, payment, posting, webhook, alert, outboxEvent, worker, req>>
books == <<intent, investment, payment, posting>>

Idle == [at |-> "idle"]
NoCollection == [status |-> "NONE", fee |-> 0]

\* What the adapters make of a body: without data, PENDING and no fee, and the transaction id
\* that was asked for instead of the provider's own.
NoData == [status |-> "PENDING", fee |-> 0, data |-> FALSE]
AnswersAbout(c) ==
    {[status |-> c.status, fee |-> c.fee, data |-> TRUE]}
        \cup IF "error body" \in Faults THEN {NoData} ELSE {}
NoWebhook == [status |-> "ABSENT"]

Events(topics, i) == outboxEvent \cup {[topic |-> t, intent |-> i] : t \in topics}

\* How many rows are alike: two stands for two or more.
Many == 2
Count(rows, row) == IF row \in DOMAIN rows THEN rows[row] ELSE 0
Add(rows, row) ==
    [x \in DOMAIN rows \cup {row} |->
        IF x # row THEN rows[x]
        ELSE IF Count(rows, row) < Many THEN Count(rows, row) + 1 ELSE Many]

(***************************************************************************)
(* LedgerPostingService: the drafts and the guard.                         *)
(***************************************************************************)

Sum(amounts) == FoldSeq(LAMBDA a, b : a + b, 0, amounts)

\* Faulty variant: the guard of the drafts is not there.
IsAnything(draft) == TRUE

IsBalanced(draft) == Sum(draft.debit) = Sum(draft.credit)

\* postCollectionSuccess: cash and fee against the commitment and the escrow.
CollectionDraft(fee) ==
    [debit |-> <<Gross - fee, fee>>, credit |-> <<Gross, Gross - fee>>]
ReversalDraft == [debit |-> <<Gross>>, credit |-> <<Gross>>]

\* What an answer posts: nothing for a collection that is open or expired.
DraftsFor(answer) ==
    CASE answer.status = "SUCCEEDED" -> {CollectionDraft(answer.fee)}
      [] answer.status \in Returned -> {ReversalDraft}
      [] OTHER -> {}
Posts(answer) == \A draft \in DraftsFor(answer) : IsBalanced(draft)

(***************************************************************************)
(* Writing an answer down.                                                 *)
(***************************************************************************)

Row(i, answer, by) == [intent |-> i, answer |-> answer, by |-> by]

\* Faulty variant: a collection that is still open is reversed.
AddPostingsForOpen(row) ==
    CASE row.answer.status = "SUCCEEDED" ->
             Add(posting, [row |-> row, draft |-> CollectionDraft(row.answer.fee)])
      [] row.answer.status \in Returned \cup {"PENDING"} ->
             Add(posting, [row |-> row, draft |-> ReversalDraft])
      [] OTHER -> posting

AddPostings(row) ==
    CASE row.answer.status = "SUCCEEDED" ->
             Add(posting, [row |-> row, draft |-> CollectionDraft(row.answer.fee)])
      [] row.answer.status \in Returned -> Add(posting, [row |-> row, draft |-> ReversalDraft])
      [] OTHER -> posting

\* Faulty variant: the investment is confirmed and nothing is posted.
RecordUnposted(i, answer, by) ==
    /\ payment' = Add(payment, Row(i, answer, by))
    /\ intent' = [intent EXCEPT ![i] = answer.status]
    /\ investment' =
           IF answer.status = "SUCCEEDED" THEN [investment EXCEPT ![PaysFor[i]] = "CONFIRMED"]
           ELSE investment
    /\ UNCHANGED posting

\* Faulty variant: what has not succeeded by now has failed.
RecordAsFailed(i, answer, by) ==
    /\ Posts(answer)
    /\ payment' = Add(payment, Row(i, answer, by))
    /\ intent' = [intent EXCEPT ![i] = IF answer.status = "SUCCEEDED" THEN "SUCCEEDED" ELSE "FAILED"]
    /\ investment' =
           IF answer.status = "SUCCEEDED" THEN [investment EXCEPT ![PaysFor[i]] = "CONFIRMED"]
           ELSE investment
    /\ posting' = AddPostings(Row(i, answer, by))

\* The transaction: the payment row, the intent, the investment, the ledger.  A draft
\* that does not balance throws and rolls all of it back.
Record(i, answer, by) ==
    /\ Posts(answer)
    /\ payment' = Add(payment, Row(i, answer, by))
    /\ intent' = [intent EXCEPT ![i] = answer.status]
    /\ investment' =
           IF answer.status = "SUCCEEDED" THEN [investment EXCEPT ![PaysFor[i]] = "CONFIRMED"]
           ELSE investment
    /\ posting' = AddPostings(Row(i, answer, by))

(***************************************************************************)
(* The provider, and the investor (external).                              *)
(***************************************************************************)

\* What a collection may come to: an outcome, of which only success costs a fee.
Result == {result \in [status : Outcome, fee : Fee] : result.status = "SUCCEEDED" \/ result.fee = 0}

\* The customer pays, or the payment is refused, or is being processed, or time runs out.
Settle(i) ==
    /\ collection[i].status \in Open
    /\ \E result \in Result :
           /\ result.status # collection[i].status
           /\ collection' = [collection EXCEPT ![i] = result]
    /\ UNCHANGED <<books, webhook, alert, outboxEvent, worker, req>>

\* The cancellation of module Funding.
CancelInvestment(v) ==
    /\ investment[v] = "PENDING_PAYMENT"
    /\ investment' = [investment EXCEPT ![v] = "CANCELLED"]
    /\ UNCHANGED <<collection, intent, payment, posting, webhook, alert, outboxEvent, worker, req>>

(***************************************************************************)
(* PaymentWebhooksService.                                                 *)
(***************************************************************************)

\* processWebhook for a signed event: its row, then its outbox event, which a stop may
\* leave out.  A repeated event meets the unique constraint; one without a valid
\* signature is stored as FAILED and never read: neither is a step here.
Receive(e, i) ==
    /\ webhook[e] = NoWebhook
    /\ collection[i] # NoCollection
    /\ webhook' = [webhook EXCEPT ![e] = [status |-> "PENDING", intent |-> i]]
    /\ \/ outboxEvent' = Events({"payment.webhook.received"}, i)
       \/ "stop" \in Faults /\ UNCHANGED outboxEvent
    /\ UNCHANGED <<collection, books, alert, worker, req>>

(***************************************************************************)
(* WebhookProcessingService: processPendingBatch and processEvent.         *)
(***************************************************************************)

IntentOf(e) == webhook[e].intent
Mark(e, status) == webhook' = [webhook EXCEPT ![e].status = status]

At(w, step, e) == worker[w].at = step /\ worker[w].event = e
Go(w, step) == worker' = [worker EXCEPT ![w].at = step]
\* The next event of the batch, or the next poll.
NextEvent(w) ==
    worker' = [worker EXCEPT ![w] =
        IF @.batch = {@.event} THEN Idle
        ELSE [at |-> "batch", batch |-> @.batch \ {@.event}]]

\* A batch has room for every event here; its order is left open.
Poll(w) ==
    LET pending == {e \in Event : webhook[e].status = "PENDING"} IN
    /\ worker[w] = Idle
    /\ pending # {}
    /\ worker' = [worker EXCEPT ![w] = [at |-> "batch", batch |-> pending]]
    /\ UNCHANGED <<collection, books, webhook, alert, outboxEvent, req>>

\* The lookup of the intent by the reference the event carries.
FindIntent(w, e) ==
    /\ worker[w].at = "batch" /\ e \in worker[w].batch
    /\ worker' = [worker EXCEPT ![w] =
           [at |-> IF intent[IntentOf(e)] # "ABSENT" /\ IntentOf(e) \in Traceable
                  THEN "ask" ELSE "fail",
            batch |-> @.batch, event |-> e]]
    /\ UNCHANGED <<collection, books, webhook, alert, outboxEvent, req>>

\* verifyCollection: what the provider says now.
Ask(w, e) ==
    /\ At(w, "ask", e)
    /\ \E answer \in AnswersAbout(collection[IntentOf(e)]) :
           worker' = [worker EXCEPT ![w] =
               [at |-> "record", batch |-> @.batch, event |-> e, answer |-> answer]]
    /\ UNCHANGED <<collection, books, webhook, alert, outboxEvent, req>>

RecordAnswer(w, e) ==
    /\ At(w, "record", e)
    /\ Record(IntentOf(e), worker[w].answer, "webhook")
    /\ Go(w, "mark")
    /\ UNCHANGED <<collection, webhook, alert, outboxEvent, req>>

\* Faulty variant: the error is logged and the webhook marked as processed.
RefuseAndMark(w, e) ==
    /\ At(w, "record", e)
    /\ ~Posts(worker[w].answer)
    /\ Go(w, "mark")
    /\ UNCHANGED <<collection, books, webhook, alert, outboxEvent, req>>

\* The guard of the ledger throws.
RefuseAnswer(w, e) ==
    /\ At(w, "record", e)
    /\ ~Posts(worker[w].answer)
    /\ Go(w, "fail")
    /\ UNCHANGED <<collection, books, webhook, alert, outboxEvent, req>>

MarkProcessed(w, e) ==
    /\ At(w, "mark", e)
    /\ Mark(e, "PROCESSED")
    /\ Go(w, "emit")
    /\ UNCHANGED <<collection, books, alert, outboxEvent, req>>

\* Faulty variant: a topic per status, which nobody subscribes to.
CollectionTopicByStatus(answer) == "payment.collection_" \o answer.status

\* Whatever did not succeed is announced as failed.
CollectionTopic(answer) ==
    IF answer.status = "SUCCEEDED" THEN "payment.collection_succeeded"
    ELSE "payment.collection_failed"

EmitResult(w, e) ==
    /\ At(w, "emit", e)
    /\ outboxEvent' = Events({CollectionTopic(worker[w].answer)}, IntentOf(e))
    /\ NextEvent(w)
    /\ UNCHANGED <<collection, books, webhook, alert, req>>

MarkFailed(w, e) ==
    /\ At(w, "fail", e)
    /\ Mark(e, "FAILED")
    /\ NextEvent(w)
    /\ UNCHANGED <<collection, books, alert, outboxEvent, req>>

\* A call inside the try rejects: without effect, or after it.
Reject(w) ==
    /\ "reject" \in Faults
    /\ worker[w].at \in {"ask", "record", "mark", "emit"}
    /\ Go(w, "fail")
    /\ UNCHANGED <<collection, books, webhook, alert, outboxEvent, req>>

LostAnswer(w, e) ==
    /\ "lost answer" \in Faults
    /\ \/ /\ At(w, "record", e)
          /\ Record(IntentOf(e), worker[w].answer, "webhook")
          /\ UNCHANGED <<webhook, outboxEvent>>
       \/ /\ At(w, "mark", e)
          /\ Mark(e, "PROCESSED")
          /\ UNCHANGED <<books, outboxEvent>>
       \/ /\ At(w, "emit", e)
          /\ outboxEvent' = Events({CollectionTopic(worker[w].answer)}, IntentOf(e))
          /\ UNCHANGED <<books, webhook>>
    /\ Go(w, "fail")
    /\ UNCHANGED <<collection, alert, req>>

\* The process ends, or a call outside the try rejects and ends it; it starts again.
Stop(w) ==
    /\ "stop" \in Faults
    /\ worker[w] # Idle
    /\ worker' = [worker EXCEPT ![w] = Idle]
    /\ UNCHANGED <<collection, books, webhook, alert, outboxEvent, req>>

(***************************************************************************)
(* createPaymentIntent and createCollectionIntent.                         *)
(***************************************************************************)

Begin(r, op, job) ==
    /\ op \in Operations
    /\ req[r] = Idle
    /\ req' = [req EXCEPT ![r] = job]
Becomes(r, job) == req' = [req EXCEPT ![r] = job]

\* Each call draws an internal reference of its own.
Drawn(i) == collection[i] # NoCollection \/ \E r \in Request : req[r] = [at |-> "charge", intent |-> i]

\* POST investments/:id/payment-intent
CheckPayable(r, i) ==
    /\ ~Drawn(i)
    /\ investment[PaysFor[i]] = "PENDING_PAYMENT"
    /\ Begin(r, "create", [at |-> "charge", intent |-> i])
    /\ UNCHANGED <<collection, books, webhook, alert, outboxEvent, worker>>

\* POST payments/collection-intents: for any investment, whatever has become of it.
CreateCollection(r, i) ==
    /\ ~Drawn(i)
    /\ Begin(r, "create", [at |-> "charge", intent |-> i])
    /\ UNCHANGED <<collection, books, webhook, alert, outboxEvent, worker>>

\* The provider has settled the collection before it answers, or has not, and the answer
\* names a transaction or, without data, none.
Charge(r, i) ==
    /\ req[r] = [at |-> "charge", intent |-> i]
    /\ \E result \in Result \cup {[status |-> "PENDING", fee |-> 0]} :
           /\ collection' = [collection EXCEPT ![i] = result]
           /\ Becomes(r, [at |-> "store", intent |-> i,
                          status |-> IF i \in Traceable THEN result.status ELSE "PENDING"])
    /\ UNCHANGED <<books, webhook, alert, outboxEvent, worker>>

StoreIntent(r, i) ==
    /\ req[r].at = "store" /\ req[r].intent = i
    /\ intent' = [intent EXCEPT ![i] = req[r].status]
    /\ Becomes(r, [at |-> "announce", intent |-> i])
    /\ UNCHANGED <<collection, investment, payment, posting, webhook, alert, outboxEvent, worker>>

\* One event about the intent, one about the investment.
AnnounceIntent(r, i) ==
    /\ req[r] = [at |-> "announce", intent |-> i]
    /\ outboxEvent' = Events({"payment.intent_created"}, i)
    /\ Becomes(r, Idle)
    /\ UNCHANGED <<collection, books, webhook, alert, worker>>

(***************************************************************************)
(* verifyAndUpdateIntent: a method of the service that no controller calls.*)
(***************************************************************************)

HasPayment(i) == \E row \in DOMAIN payment : row.intent = i
\* A row with the transaction id of the answer.
IsRecorded(i, answer) ==
    \E row \in DOMAIN payment : row.intent = i /\ row.answer.data = answer.data
Settled(i) == intent[i] \in Returned \cup {"SUCCEEDED"} /\ HasPayment(i)

CheckOpen(r, i) ==
    /\ intent[i] # "ABSENT" /\ i \in Traceable /\ ~Settled(i)
    /\ Begin(r, "verify", [at |-> "verify", intent |-> i])
    /\ UNCHANGED <<collection, books, webhook, alert, outboxEvent, worker>>

AskForIntent(r, i) ==
    /\ req[r] = [at |-> "verify", intent |-> i]
    /\ \E answer \in AnswersAbout(collection[i]) :
           Becomes(r, [at |-> "look", intent |-> i, answer |-> answer])
    /\ UNCHANGED <<collection, books, webhook, alert, outboxEvent, worker>>

\* The transaction looks for a row of the same provider transaction first, and locks nothing
\* by it: others may commit such a row before this one does.
LookForPayment(r, i) ==
    /\ req[r].at = "look" /\ req[r].intent = i
    /\ Becomes(r, IF IsRecorded(i, req[r].answer) THEN Idle ELSE [req[r] EXCEPT !.at = "update"])
    /\ UNCHANGED <<collection, books, webhook, alert, outboxEvent, worker>>

UpdateIntent(r, i) ==
    /\ req[r].at = "update" /\ req[r].intent = i
    /\ Record(i, req[r].answer, "verify")
    /\ outboxEvent' =
           IF req[r].answer.status = "SUCCEEDED"
           THEN Events({"payment.confirmed", "ledger.transaction_posted"}, i)
           ELSE outboxEvent
    /\ Becomes(r, Idle)
    /\ UNCHANGED <<collection, webhook, alert, worker>>

(***************************************************************************)
(* ReconciliationService.runReconciliation.                                *)
(***************************************************************************)

NextIntent(r) ==
    Becomes(r, IF req[r].seen = <<>> THEN Idle
               ELSE [at |-> "scan", seen |-> req[r].seen])
Rest(seen, i) == [j \in DOMAIN seen \ {i} |-> seen[j]]

\* The open intents and their statuses, read once.
Scan(r) ==
    LET open == {i \in Traceable : intent[i] \in Open} IN
    /\ open # {}
    /\ Begin(r, "reconcile", [at |-> "scan", seen |-> [i \in open |-> intent[i]]])
    /\ UNCHANGED <<collection, books, webhook, alert, outboxEvent, worker>>

\* The provider's answer about the next one, beside the status seen.
Compare(r, i) ==
    /\ req[r].at = "scan" /\ i \in DOMAIN req[r].seen
    /\ \E answer \in AnswersAbout(collection[i]) :
           Becomes(r, [at |-> IF answer.status # req[r].seen[i] THEN "overwrite" ELSE "audit",
                       intent |-> i, answer |-> answer, seen |-> Rest(req[r].seen, i)])
    /\ UNCHANGED <<collection, books, webhook, alert, outboxEvent, worker>>

Overwrite(r, i) ==
    /\ req[r].at = "overwrite" /\ req[r].intent = i
    /\ intent' = [intent EXCEPT ![i] = req[r].answer.status]
    /\ Becomes(r, [req[r] EXCEPT !.at = "insert"])
    /\ UNCHANGED <<collection, investment, payment, posting, webhook, alert, outboxEvent, worker>>

InsertPayment(r, i) ==
    /\ req[r].at = "insert" /\ req[r].intent = i
    /\ payment' = Add(payment, Row(i, req[r].answer, "reconcile"))
    /\ Becomes(r, [req[r] EXCEPT !.at = "audit"])
    /\ UNCHANGED <<collection, intent, investment, posting, webhook, alert, outboxEvent, worker>>

\* The entries stored under the intent's own id: those of its reversals.
LedgerSum(i) ==
    MapThenSumSet(LAMBDA p : posting[p] * (Sum(p.draft.debit) + Sum(p.draft.credit)),
                  {p \in DOMAIN posting : p.row.intent = i /\ p.draft = ReversalDraft})

Audit(r, i) ==
    /\ req[r].at = "audit" /\ req[r].intent = i
    /\ alert' = IF req[r].answer.status = "SUCCEEDED" /\ LedgerSum(i) # Gross
                THEN alert \cup {i} ELSE alert
    /\ NextIntent(r)
    /\ UNCHANGED <<collection, books, webhook, outboxEvent, worker>>

\* The catch of the loop: the next intent.
SkipIntent(r) ==
    /\ "reject" \in Faults
    /\ req[r].at \in {"overwrite", "insert", "audit"}
    /\ NextIntent(r)
    /\ UNCHANGED <<collection, books, webhook, alert, outboxEvent, worker>>

\* An error, a lost connection, the end of the process.
Abandon(r) ==
    /\ req[r] # Idle
    /\ Faults # {} \/ (req[r].at = "update" /\ ~Posts(req[r].answer))
    /\ Becomes(r, Idle)
    /\ UNCHANGED <<collection, books, webhook, alert, outboxEvent, worker>>

(***************************************************************************)
(* The specification.                                                      *)
(***************************************************************************)

Init ==
    /\ collection = [i \in Intent |-> NoCollection]
    /\ intent = [i \in Intent |-> "ABSENT"]
    /\ investment = [v \in Investment |-> "PENDING_PAYMENT"]
    /\ payment = <<>> /\ posting = <<>>
    /\ webhook = [e \in Event |-> NoWebhook]
    /\ alert = {} /\ outboxEvent = {}
    /\ worker = [w \in Worker |-> Idle]
    /\ req = [r \in Request |-> Idle]

ProviderStep ==
    \/ \E i \in Intent : Settle(i) \/ \E e \in Event : Receive(e, i)
    \/ \E v \in Investment : CancelInvestment(v)
Process(w, e) ==
    \/ FindIntent(w, e) \/ Ask(w, e) \/ RecordAnswer(w, e) \/ RefuseAnswer(w, e)
    \/ MarkProcessed(w, e) \/ EmitResult(w, e) \/ MarkFailed(w, e)
WorkerStep(w) == Poll(w) \/ \E e \in Event : Process(w, e)
WorkerFault(w) == Reject(w) \/ Stop(w) \/ \E e \in Event : LostAnswer(w, e)
ApiStep(r) ==
    \/ Scan(r) \/ SkipIntent(r) \/ Abandon(r)
    \/ \E i \in Intent :
           \/ CheckPayable(r, i) \/ CreateCollection(r, i)
           \/ Charge(r, i) \/ StoreIntent(r, i) \/ AnnounceIntent(r, i)
           \/ CheckOpen(r, i) \/ AskForIntent(r, i) \/ LookForPayment(r, i) \/ UpdateIntent(r, i)
           \/ Compare(r, i) \/ Overwrite(r, i) \/ InsertPayment(r, i) \/ Audit(r, i)

Next ==
    \/ ProviderStep
    \/ \E w \in Worker : WorkerStep(w) \/ WorkerFault(w)
    \/ \E r \in Request : ApiStep(r)

Spec == Init /\ [][Next]_vars

(***************************************************************************)
(* Properties.                                                             *)
(***************************************************************************)

Collection == [status : PaymentStatus, fee : Fee]
Answer == [status : PaymentStatus, fee : Fee, data : BOOLEAN]
PaymentRow == [intent : Intent, answer : Answer, by : {"webhook", "verify", "reconcile"}]
Draft == {CollectionDraft(fee) : fee \in Fee} \cup {ReversalDraft}
Topic ==
    {"payment.intent_created", "payment.webhook.received", "payment.collection_succeeded",
     "payment.collection_failed", "payment.confirmed", "ledger.transaction_posted"}

WorkerJob ==
    {Idle} \cup [at : {"batch"}, batch : SUBSET Event]
    \cup [at : {"ask", "fail"}, batch : SUBSET Event, event : Event]
    \cup [at : {"record", "mark", "emit", "fail"}, batch : SUBSET Event, event : Event, answer : Answer]
Seen == UNION {[S -> Open] : S \in SUBSET Intent}
ApiJob ==
    {Idle} \cup [at : {"charge", "announce", "verify"}, intent : Intent]
    \cup [at : {"store"}, intent : Intent, status : PaymentStatus]
    \cup [at : {"look", "update"}, intent : Intent, answer : Answer]
    \cup [at : {"scan"}, seen : Seen]
    \cup [at : {"overwrite", "insert", "audit"}, intent : Intent, answer : Answer, seen : Seen]

TypeOK ==
    /\ collection \in [Intent -> {NoCollection} \cup Collection]
    /\ intent \in [Intent -> PaymentStatus \cup {"ABSENT"}]
    /\ investment \in [Investment -> {"PENDING_PAYMENT", "CONFIRMED", "CANCELLED"}]
    /\ DOMAIN payment \subseteq PaymentRow
    /\ DOMAIN posting \subseteq [row : PaymentRow, draft : Draft]
    /\ webhook \in [Event -> {NoWebhook} \cup
                       [status : {"PENDING", "PROCESSED", "FAILED"}, intent : Intent]]
    /\ alert \subseteq Intent
    /\ outboxEvent \subseteq [topic : Topic, intent : Intent]
    /\ worker \in [Worker -> WorkerJob]
    /\ req \in [Request -> ApiJob]

\* A final status in the database is the provider's, however old the answer was when it
\* was written and whoever wrote it last; what may be wrong is an open status
\* (webhook-processing.service.ts:107, payments.service.ts:285, 696).
FinalStatusIsTheProviders ==
    \A i \in Intent : intent[i] \notin Open \cup {"ABSENT"} => collection[i].status = intent[i]

\* An investment is confirmed by a payment only together with its ledger entries, whatever
\* fails after the commit (webhook-processing.service.ts:83), and a webhook is PROCESSED only
\* when its answer was recorded: one the ledger refused is never marked as done (line 132).
DoneWasRecorded ==
    /\ \A v \in Investment : investment[v] = "CONFIRMED" =>
           \E p \in DOMAIN posting :
               p.row.answer.status = "SUCCEEDED" /\ PaysFor[p.row.intent] = v
    /\ \A e \in Event : webhook[e].status = "PROCESSED" =>
           \E row \in DOMAIN payment : row.by = "webhook" /\ row.intent = IntentOf(e)

\* As often as a worker or a verification records an answer, its draft is posted, and
\* nothing else is: reconciliation posts nothing, and a recording that is rolled back leaves
\* no posting.  The entries of every posting balance, for every fee
\* (ledger-posting.service.ts:149).  It does not say that a collection is posted once, which
\* repeated webhooks break: CollectionPostsOnce.
LedgerFollowsPayments ==
    /\ \A p \in DOMAIN posting :
           p.row \in DOMAIN payment /\ p.row.by # "reconcile" /\ p.draft \in DraftsFor(p.row.answer)
    /\ \A row \in DOMAIN payment : row.by # "reconcile" =>
           \A draft \in DraftsFor(row.answer) :
               Count(posting, [row |-> row, draft |-> draft]) = payment[row]
    /\ \A p \in DOMAIN posting : Sum(p.draft.debit) = Sum(p.draft.credit)

\* A collection is posted to the ledger as received once, however many webhooks, workers and
\* verifications record it (payments.service.ts:249: "Check for duplicate transaction inside
\* the transaction to guard against races").
CollectionPostsOnce ==
    \A i \in Intent :
        LET received == {p \in DOMAIN posting :
                             p.row.intent = i /\ p.row.answer.status = "SUCCEEDED"}
        IN  Cardinality(received) <= 1 /\ \A p \in received : posting[p] = 1

\* With no call rejected, a worker that knows of a success records it and does not fail
\* its webhook.
SuccessIsRecorded ==
    \A w \in Worker :
        "answer" \in DOMAIN worker[w] /\ worker[w].answer.status = "SUCCEEDED" => worker[w].at # "fail"

=============================================================================
