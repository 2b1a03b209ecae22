--------------------------- MODULE PaymentsProofs ---------------------------
(***************************************************************************)
(* Proofs about Payments, for every set of intents, webhooks, workers and  *)
(* handlers, every amount, fee and outcome, and with any of the faults.    *)
(***************************************************************************)
EXTENDS Payments, TLAPS

USE PaymentsAssumption

(***************************************************************************)
(* The jobs, and what a step makes of one.                                 *)
(***************************************************************************)

Answered == {"record", "mark", "emit"}

LEMMA WorkerJobForm ==
    ASSUME NEW job \in WorkerJob
    PROVE  /\ job.at \in {"idle", "batch", "ask", "fail"} \cup Answered
           /\ job.at = "idle" => job = Idle
           /\ job.at # "idle" => job.batch \in SUBSET Event
           /\ job.at \notin {"idle", "batch"} => job.event \in Event
           /\ job.at \in Answered => job.answer \in Answer
BY DEF WorkerJob, Answered, Idle

LEMMA GoFail ==
    ASSUME NEW job \in WorkerJob, job.at \in {"ask"} \cup Answered,
           NEW next, next = [job EXCEPT !.at = "fail"]
    PROVE  next \in WorkerJob /\ next.at = "fail" /\ next.batch = job.batch /\ next.event = job.event
BY DEF WorkerJob, Answered, Idle

LEMMA GoOn ==
    ASSUME NEW job \in WorkerJob, job.at \in Answered, NEW step \in {"mark", "emit"},
           NEW next, next = [job EXCEPT !.at = step]
    PROVE  /\ next \in WorkerJob /\ next.at = step
           /\ next.batch = job.batch /\ next.event = job.event /\ next.answer = job.answer
BY DEF WorkerJob, Answered, Idle

LEMMA GoNext ==
    ASSUME NEW job \in WorkerJob, job.at \notin {"idle", "batch"},
           NEW next, next = IF job.batch = {job.event} THEN Idle
                            ELSE [at |-> "batch", batch |-> job.batch \ {job.event}]
    PROVE  /\ next \in WorkerJob
           /\ \/ next.at = "idle"
              \/ next.at = "batch" /\ next.batch = job.batch \ {job.event}
BY WorkerJobForm DEF WorkerJob, Idle

LEMMA ApiJobForm ==
    ASSUME NEW job \in ApiJob
    PROVE  /\ job.at = "idle" => job = Idle
           /\ job.at \notin {"idle", "scan"} => job.intent \in Intent
           /\ job.at \in {"look", "update", "overwrite", "insert", "audit"} => job.answer \in Answer
           /\ job.at = "store" => job.status \in PaymentStatus
           /\ job.at \in {"scan", "overwrite", "insert", "audit"} => job.seen \in Seen
           /\ job.at \in {"charge", "announce", "verify"} =>
                  job = [at |-> job.at, intent |-> job.intent]
BY DEF ApiJob, Idle

LEMMA ApiGoOn ==
    ASSUME NEW job \in ApiJob, job.at \in {"overwrite", "insert"}, NEW step \in {"insert", "audit"},
           NEW next, next = [job EXCEPT !.at = step]
    PROVE  /\ next \in ApiJob /\ next.at = step
           /\ next.intent = job.intent /\ next.answer = job.answer /\ next.seen = job.seen
BY DEF ApiJob, Idle

LEMMA LookGoOn ==
    ASSUME NEW job \in ApiJob, job.at = "look", NEW next, next = [job EXCEPT !.at = "update"]
    PROVE  next \in ApiJob /\ next.at = "update" /\ next.intent = job.intent /\ next.answer = job.answer
BY DEF ApiJob, Idle

LEMMA RestSeen ==
    ASSUME NEW seen \in Seen, NEW i
    PROVE  Rest(seen, i) \in Seen /\ DOMAIN Rest(seen, i) \subseteq DOMAIN seen /\ DOMAIN seen \subseteq Intent
<1>1. PICK S \in SUBSET Intent : seen \in [S -> Open]
  BY DEF Seen
<1>2. Rest(seen, i) \in [S \ {i} -> Open]
  BY <1>1 DEF Rest
<1> QED
  BY <1>1, <1>2 DEF Seen

LEMMA ScanJob ==
    ASSUME NEW seen \in Seen
    PROVE  [at |-> "scan", seen |-> seen] \in ApiJob
BY DEF ApiJob

LEMMA NoAnswerIsNone == NoCollection \notin Collection
BY DEF NoCollection, Collection, PaymentStatus

\* What the provider answers about a collection, with data or without.
LEMMA AnswerForm ==
    ASSUME NEW c \in Collection, NEW answer \in AnswersAbout(c)
    PROVE  answer \in Answer /\ (answer.status \notin Open => c.status = answer.status)
<1>1. NoData \in Answer /\ NoData.status \in Open
  BY DEF NoData, Answer, PaymentStatus, Open
<1>2. CASE answer = [status |-> c.status, fee |-> c.fee, data |-> TRUE]
  BY <1>2 DEF Answer, Collection
<1> QED
  BY <1>1, <1>2 DEF AnswersAbout

LEMMA ResultForm == Result \cup {[status |-> "PENDING", fee |-> 0]} \subseteq Collection
<1>1. [status |-> "PENDING", fee |-> 0] \in Collection
  BY DEF Collection, PaymentStatus
<1>2. [status : Outcome, fee : Fee] \subseteq Collection
  BY DEF Collection
<1>3. Result \subseteq [status : Outcome, fee : Fee]
  BY DEF Result
<1> QED
  BY <1>1, <1>2, <1>3

(***************************************************************************)
(* Rows of which the module counts how many are alike.                     *)
(***************************************************************************)

\* The table has one more row like this one, and otherwise as many as before.
OneMore(rows, row, next) ==
    /\ DOMAIN next = DOMAIN rows \cup {row}
    /\ next[row] = IF Count(rows, row) < Many THEN Count(rows, row) + 1 ELSE Many
    /\ \A x \in DOMAIN rows : x # row => next[x] = rows[x]

LEMMA Adds ==
    ASSUME NEW rows, NEW row, NEW next, next = Add(rows, row)
    PROVE  OneMore(rows, row, next)
BY DEF Add, OneMore

LEMMA OneMoreCounts ==
    ASSUME NEW rows, NEW row, NEW next, OneMore(rows, row, next)
    PROVE  /\ Count(next, row) = IF Count(rows, row) < Many THEN Count(rows, row) + 1 ELSE Many
           /\ \A x : x # row => Count(next, x) = Count(rows, x)
BY DEF OneMore, Count

\* What recording an answer does to the rows: a payment row, and the draft of the answer if it
\* has one.
LEMMA RecordPosts ==
    ASSUME NEW i, NEW answer, NEW by, Record(i, answer, by), NEW row, row = Row(i, answer, by)
    PROVE  /\ OneMore(payment, row, payment')
           /\ \/ DraftsFor(answer) = {} /\ UNCHANGED posting
              \/ \E draft : /\ DraftsFor(answer) = {draft}
                            /\ OneMore(posting, [row |-> row, draft |-> draft], posting')
<1>1. payment' = Add(payment, row) /\ posting' = AddPostings(row) /\ row.answer = answer
  BY DEF Record, Row
<1>2. OneMore(payment, row, payment')
  BY <1>1, Adds, Zenon
<1>3. ASSUME NEW draft, posting' = Add(posting, [row |-> row, draft |-> draft])
      PROVE  OneMore(posting, [row |-> row, draft |-> draft], posting')
  BY <1>3, Adds, Zenon
<1>4. CASE answer.status = "SUCCEEDED"
  <2>1. PICK draft : draft = CollectionDraft(answer.fee)
    OBVIOUS
  <2>2. CollectionDraft(row.answer.fee) = draft
    BY <1>1, <2>1, Zenon
  <2>3. DraftsFor(answer) = {draft}
    BY <1>4, <2>1 DEF DraftsFor, Returned
  <2>4. posting' = Add(posting, [row |-> row, draft |-> draft])
    BY <1>1, <1>4, <2>2 DEF AddPostings, Returned
  <2> QED
    BY <1>2, <1>3, <2>3, <2>4
<1>5. CASE answer.status # "SUCCEEDED" /\ answer.status \in Returned
  <2>1. DraftsFor(answer) = {ReversalDraft} /\ posting' = Add(posting, [row |-> row, draft |-> ReversalDraft])
    BY <1>1, <1>5 DEF AddPostings, DraftsFor
  <2> QED
    BY <1>2, <1>3, <2>1
<1>6. CASE answer.status # "SUCCEEDED" /\ answer.status \notin Returned
  BY <1>1, <1>2, <1>6 DEF AddPostings, DraftsFor
<1> QED
  BY <1>4, <1>5, <1>6

LEMMA RecordAdds ==
    ASSUME NEW i, NEW answer, NEW by, Record(i, answer, by), NEW row, row = Row(i, answer, by)
    PROVE  /\ DOMAIN payment' = DOMAIN payment \cup {row}
           /\ \A p : p \in DOMAIN posting' <=>
                  p \in DOMAIN posting \/ \E draft \in DraftsFor(answer) : p = [row |-> row, draft |-> draft]
<1>1. ASSUME NEW draft, OneMore(posting, [row |-> row, draft |-> draft], posting')
      PROVE  \A p : p \in DOMAIN posting' <=> p \in DOMAIN posting \/ p = [row |-> row, draft |-> draft]
  <2>1. PICK p : p = [row |-> row, draft |-> draft]
    OBVIOUS
  <2> QED
    BY <1>1, <2>1 DEF OneMore
<1>2. DOMAIN payment' = DOMAIN payment \cup {row}
  BY RecordPosts DEF OneMore
<1>3. CASE DraftsFor(answer) = {} /\ UNCHANGED posting
  BY <1>2, <1>3
<1>4. ASSUME NEW draft, DraftsFor(answer) = {draft},
             OneMore(posting, [row |-> row, draft |-> draft], posting')
      PROVE  \A p : p \in DOMAIN posting' <=>
                 p \in DOMAIN posting \/ \E d \in DraftsFor(answer) : p = [row |-> row, draft |-> d]
  BY <1>1, <1>4
<1> QED
  BY <1>2, <1>3, <1>4, RecordPosts

(***************************************************************************)
(* Type correctness.  Whatever a job, a row or a webhook names has been    *)
(* charged, so the provider's answer about it is a status and not NONE.    *)
(***************************************************************************)

Charged(i) == collection[i] # NoCollection
Received(e) == webhook[e] # NoWebhook

WorkerKnown(job) ==
    /\ job.at # "idle" => \A e \in job.batch : Received(e)
    /\ job.at \notin {"idle", "batch"} => job.event \in job.batch
RequestKnown(job) ==
    /\ job.at \in {"store", "verify", "look", "update", "overwrite", "insert", "audit"} => Charged(job.intent)
    /\ job.at \in {"scan", "overwrite", "insert", "audit"} => \A i \in DOMAIN job.seen : Charged(i)
RowsKnown ==
    /\ \A i \in Intent : intent[i] # "ABSENT" => Charged(i)
    /\ \A e \in Event : Received(e) => Charged(IntentOf(e))
WorkersKnown == \A w \in Worker : WorkerKnown(worker[w])
RequestsKnown == \A r \in Request : RequestKnown(req[r])
TypeInv == TypeOK /\ RowsKnown /\ WorkersKnown /\ RequestsKnown

LEMMA PaymentsInit == Init => TypeInv
BY DEF Init, TypeInv, TypeOK, RowsKnown, WorkersKnown, RequestsKnown, WorkerKnown, RequestKnown,
       Received, Charged, WorkerJob, ApiJob, Idle, NoWebhook, NoCollection

\* Recording leaves the types of the four tables right.
LEMMA RecordTypes ==
    ASSUME TypeOK, NEW i \in Intent, NEW answer \in Answer, NEW by \in {"webhook", "verify"},
           Record(i, answer, by)
    PROVE  /\ intent' \in [Intent -> PaymentStatus \cup {"ABSENT"}]
           /\ investment' \in [Investment -> {"PENDING_PAYMENT", "CONFIRMED", "CANCELLED"}]
           /\ DOMAIN payment' \subseteq PaymentRow
           /\ DOMAIN posting' \subseteq [row : PaymentRow, draft : Draft]
           /\ intent' = [intent EXCEPT ![i] = answer.status]
<1>1. Row(i, answer, by) \in PaymentRow
  BY DEF Row, PaymentRow
<1>2. DraftsFor(answer) \subseteq Draft
  BY DEF DraftsFor, Draft, Answer
<1>3. answer.status \in PaymentStatus
  BY DEF Answer
<1>4. DOMAIN payment' \subseteq PaymentRow /\ DOMAIN posting' \subseteq [row : PaymentRow, draft : Draft]
  <2>1. PICK row \in PaymentRow : row = Row(i, answer, by)
    BY <1>1
  <2>2. /\ DOMAIN payment' = DOMAIN payment \cup {row}
        /\ \A p \in DOMAIN posting' :
               p \in DOMAIN posting \/ \E draft \in DraftsFor(answer) : p = [row |-> row, draft |-> draft]
    BY <2>1, RecordAdds
  <2> QED
    BY <1>2, <2>2 DEF TypeOK
<1>5. intent' = [intent EXCEPT ![i] = answer.status]
  BY DEF Record
<1>6. intent' \in [Intent -> PaymentStatus \cup {"ABSENT"}]
  BY <1>3, <1>5 DEF TypeOK
<1>7. investment' \in [Investment -> {"PENDING_PAYMENT", "CONFIRMED", "CANCELLED"}]
  BY DEF Record, TypeOK
<1> QED
  BY <1>4, <1>5, <1>6, <1>7

USE DEF TypeInv, Charged, Received

LEMMA ProviderKeepsTypes ==
    ASSUME TypeInv, ProviderStep
    PROVE  TypeInv'
<1> USE DEF books
<1>1. ASSUME NEW i \in Intent, Settle(i)
      PROVE  TypeInv'
  <2>1. PICK result \in Collection : collection' = [collection EXCEPT ![i] = result]
    BY <1>1, ResultForm DEF Settle
  <2>2. \A j \in Intent : Charged(j) => Charged(j)'
    BY <2>1, NoAnswerIsNone DEF TypeOK
  <2>3. TypeOK'
    BY <1>1, <2>1 DEF Settle, TypeOK
  <2>4. RowsKnown'
    BY <1>1, <2>2 DEF Settle, RowsKnown, IntentOf, TypeOK, NoWebhook
  <2>5. WorkersKnown'
    BY <1>1 DEF Settle, WorkersKnown, WorkerKnown
  <2>6. RequestsKnown'
    BY <1>1, <2>2, ApiJobForm, RestSeen DEF Settle, RequestsKnown, RequestKnown, TypeOK
  <2> QED
    BY <2>3, <2>4, <2>5, <2>6
<1>2. ASSUME NEW i \in Intent, NEW e \in Event, Receive(e, i)
      PROVE  TypeInv'
  <2>1. TypeOK'
    BY <1>2 DEF Receive, TypeOK, Topic, Events
  <2>2. RowsKnown'
    BY <1>2 DEF Receive, RowsKnown, IntentOf, TypeOK, NoWebhook
  <2>3. WorkersKnown'
    BY <1>2 DEF Receive, WorkersKnown, WorkerKnown, TypeOK, NoWebhook
  <2>4. RequestsKnown'
    BY <1>2 DEF Receive, RequestsKnown, RequestKnown
  <2> QED
    BY <2>1, <2>2, <2>3, <2>4
<1>3. ASSUME NEW v \in Investment, CancelInvestment(v)
      PROVE  TypeInv'
  BY <1>3 DEF CancelInvestment, TypeOK, RowsKnown, IntentOf, WorkersKnown, WorkerKnown,
              RequestsKnown, RequestKnown
<1> QED
  BY <1>1, <1>2, <1>3 DEF ProviderStep

\* What is known of the jobs and rows when a step only moves a worker on.
LEMMA WorkerMoves ==
    ASSUME TypeInv, NEW w \in Worker, NEW job \in WorkerJob,
           worker' = [worker EXCEPT ![w] = job], WorkerKnown(job),
           TypeOK', UNCHANGED <<collection, req>>,
           \A i \in Intent : intent'[i] # intent[i] => Charged(i),
           \A e \in Event : Received(e)' <=> Received(e),
           \A e \in Event : Received(e) => IntentOf(e)' = IntentOf(e)
    PROVE  TypeInv'
<1>1. RowsKnown'
  BY DEF RowsKnown, TypeOK
<1>2. WorkersKnown'
  BY WorkerJobForm DEF WorkersKnown, WorkerKnown, TypeOK
<1>3. RequestsKnown'
  BY DEF RequestsKnown, RequestKnown
<1> QED
  BY <1>1, <1>2, <1>3

\* Marking a webhook changes its status and nothing else.
LEMMA MarkKeeps ==
    ASSUME TypeOK, NEW e \in Event, Received(e), NEW status \in {"PROCESSED", "FAILED"}, Mark(e, status)
    PROVE  /\ webhook' \in [Event -> {NoWebhook} \cup
                               [status : {"PENDING", "PROCESSED", "FAILED"}, intent : Intent]]
           /\ \A f \in Event : Received(f)' <=> Received(f)
           /\ \A f \in Event : Received(f) => IntentOf(f)' = IntentOf(f)
<1>1. webhook[e] \in [status : {"PENDING", "PROCESSED", "FAILED"}, intent : Intent]
  BY DEF TypeOK
<1>2. PICK row : row = [webhook[e] EXCEPT !.status = status]
  OBVIOUS
<1>3. /\ row \in [status : {"PENDING", "PROCESSED", "FAILED"}, intent : Intent]
      /\ row.intent = webhook[e].intent
  BY <1>1, <1>2
<1>4. webhook' = [webhook EXCEPT ![e] = row]
  BY <1>2 DEF Mark, TypeOK
<1> QED
  BY <1>3, <1>4 DEF IntentOf, TypeOK, NoWebhook

\* The job a worker is left with after an event, or after a call of it failed.
LEMMA WorkerGoesOn ==
    ASSUME TypeInv, NEW w \in Worker, worker[w].at \notin {"idle", "batch"}, NEW next,
           worker' = [worker EXCEPT ![w] = next],
           \/ worker[w].at # "fail" /\ next = [worker[w] EXCEPT !.at = "fail"]
           \/ worker[w].at \in Answered /\ \E step \in {"mark", "emit"} : next = [worker[w] EXCEPT !.at = step]
           \/ next = IF worker[w].batch = {worker[w].event} THEN Idle
                     ELSE [at |-> "batch", batch |-> worker[w].batch \ {worker[w].event}]
    PROVE  next \in WorkerJob /\ WorkerKnown(next)
<1>1. worker[w] \in WorkerJob /\ WorkerKnown(worker[w])
  BY DEF TypeOK, WorkersKnown
<1>2. CASE worker[w].at # "fail" /\ next = [worker[w] EXCEPT !.at = "fail"]
  BY <1>1, <1>2, WorkerJobForm, GoFail DEF WorkerKnown
<1>3. CASE worker[w].at \in Answered /\ \E step \in {"mark", "emit"} : next = [worker[w] EXCEPT !.at = step]
  BY <1>1, <1>3, GoOn DEF WorkerKnown, Answered
<1>4. CASE next = IF worker[w].batch = {worker[w].event} THEN Idle
                  ELSE [at |-> "batch", batch |-> worker[w].batch \ {worker[w].event}]
  BY <1>1, <1>4, GoNext DEF WorkerKnown, Idle
<1> QED
  BY <1>2, <1>3, <1>4

\* A worker past the lookup holds a webhook that was received and names a charged intent.
LEMMA EventAtHand ==
    ASSUME TypeInv, NEW w \in Worker, worker[w].at \notin {"idle", "batch"}
    PROVE  /\ worker[w].event \in Event /\ Received(worker[w].event)
           /\ IntentOf(worker[w].event) \in Intent /\ Charged(IntentOf(worker[w].event))
           /\ collection[IntentOf(worker[w].event)] \in Collection
           /\ worker[w].at \in Answered => worker[w].answer \in Answer
<1>1. worker[w] \in WorkerJob /\ WorkerKnown(worker[w])
  BY DEF TypeOK, WorkersKnown
<1>2. worker[w].event \in Event /\ Received(worker[w].event)
  BY <1>1, WorkerJobForm DEF WorkerKnown
<1> QED
  BY <1>1, <1>2, WorkerJobForm DEF TypeOK, RowsKnown, IntentOf

LEMMA WorkerRecords ==
    ASSUME TypeInv, NEW w \in Worker, NEW e \in Event, At(w, "record", e),
           Record(IntentOf(e), worker[w].answer, "webhook"), UNCHANGED <<collection, webhook>>,
           NEW job \in WorkerJob, WorkerKnown(job), worker' = [worker EXCEPT ![w] = job],
           UNCHANGED <<alert, outboxEvent, req>>
    PROVE  TypeInv'
<1>1. /\ IntentOf(e) \in Intent /\ Charged(IntentOf(e)) /\ worker[w].answer \in Answer
  BY EventAtHand DEF At, Answered
<1>2. PICK i \in Intent, answer \in Answer : i = IntentOf(e) /\ answer = worker[w].answer
  BY <1>1
<1>3. Record(i, answer, "webhook")
  BY <1>2
<1>4. TypeOK' /\ intent' = [intent EXCEPT ![i] = answer.status]
  BY <1>3, RecordTypes DEF TypeOK
<1> QED
  BY <1>1, <1>2, <1>4, WorkerMoves DEF TypeOK, IntentOf

LEMMA WorkerKeepsTypes ==
    ASSUME TypeInv, NEW w \in Worker, WorkerStep(w) \/ WorkerFault(w)
    PROVE  TypeInv'
<1> USE DEF books
<1>j. worker[w] \in WorkerJob /\ WorkerKnown(worker[w])
  BY DEF TypeOK, WorkersKnown
<1>1. CASE Poll(w)
  <2>1. PICK job : job = [at |-> "batch", batch |-> {e \in Event : webhook[e].status = "PENDING"}]
    OBVIOUS
  <2>2. job \in WorkerJob /\ WorkerKnown(job)
    BY <2>1 DEF WorkerJob, WorkerKnown, NoWebhook
  <2>3. worker' = [worker EXCEPT ![w] = job]
    BY <1>1, <2>1 DEF Poll
  <2>4. TypeOK'
    BY <1>1, <2>2, <2>3 DEF Poll, TypeOK
  <2> QED
    BY <1>1, <2>2, <2>3, <2>4, WorkerMoves DEF Poll, IntentOf
<1>2. ASSUME NEW e \in Event, FindIntent(w, e)
      PROVE  TypeInv'
  <2>1. PICK job : job = [at |-> IF intent[IntentOf(e)] # "ABSENT" /\ IntentOf(e) \in Traceable
                                 THEN "ask" ELSE "fail",
                          batch |-> worker[w].batch, event |-> e]
    OBVIOUS
  <2>2. job \in WorkerJob /\ WorkerKnown(job)
    BY <1>2, <1>j, <2>1, WorkerJobForm DEF FindIntent, WorkerJob, WorkerKnown
  <2>3. worker' = [worker EXCEPT ![w] = job]
    BY <1>2, <2>1 DEF FindIntent, TypeOK
  <2>4. TypeOK'
    BY <1>2, <2>2, <2>3 DEF FindIntent, TypeOK
  <2> QED
    BY <1>2, <2>2, <2>3, <2>4, WorkerMoves DEF FindIntent, IntentOf
<1>3. ASSUME NEW e \in Event, Ask(w, e)
      PROVE  TypeInv'
  <2>a. PICK answer \in AnswersAbout(collection[IntentOf(e)]) :
            worker' = [worker EXCEPT ![w] = [at |-> "record", batch |-> worker[w].batch, event |-> e,
                                             answer |-> answer]]
    BY <1>3 DEF Ask, TypeOK
  <2>b. answer \in Answer
    BY <1>3, AnswerForm, EventAtHand DEF Ask, At
  <2>1. PICK job : job = [at |-> "record", batch |-> worker[w].batch, event |-> e, answer |-> answer]
    OBVIOUS
  <2>2. job \in WorkerJob /\ WorkerKnown(job)
    BY <1>3, <1>j, <2>1, <2>b, WorkerJobForm DEF Ask, At, WorkerJob, WorkerKnown
  <2>3. worker' = [worker EXCEPT ![w] = job]
    BY <2>a, <2>1
  <2>4. TypeOK'
    BY <1>3, <2>2, <2>3 DEF Ask, TypeOK
  <2> QED
    BY <1>3, <2>2, <2>3, <2>4, WorkerMoves DEF Ask, IntentOf
<1>4. ASSUME NEW e \in Event, RecordAnswer(w, e)
      PROVE  TypeInv'
  <2>1. PICK job : job = [worker[w] EXCEPT !.at = "mark"]
    OBVIOUS
  <2>2. worker' = [worker EXCEPT ![w] = job] /\ At(w, "record", e)
    BY <1>4, <2>1 DEF RecordAnswer, Go, TypeOK
  <2>3. job \in WorkerJob /\ WorkerKnown(job)
    BY <2>1, <2>2, WorkerGoesOn DEF At, Answered
  <2> QED
    BY <1>4, <2>2, <2>3, WorkerRecords DEF RecordAnswer
<1>5. ASSUME NEW e \in Event, MarkProcessed(w, e)
      PROVE  TypeInv'
  <2>1. PICK job : job = [worker[w] EXCEPT !.at = "emit"]
    OBVIOUS
  <2>2. worker' = [worker EXCEPT ![w] = job] /\ At(w, "mark", e)
    BY <1>5, <2>1 DEF MarkProcessed, Go, TypeOK
  <2>3. job \in WorkerJob /\ WorkerKnown(job)
    BY <2>1, <2>2, WorkerGoesOn DEF At, Answered
  <2>4. Received(e) /\ Mark(e, "PROCESSED")
    BY <1>5, EventAtHand DEF MarkProcessed, At
  <2>5. TypeOK'
    BY <1>5, <2>2, <2>3, <2>4, MarkKeeps DEF MarkProcessed, TypeOK
  <2> QED
    BY <1>5, <2>2, <2>3, <2>4, <2>5, MarkKeeps, WorkerMoves DEF MarkProcessed
<1>6. ASSUME NEW e \in Event, EmitResult(w, e)
      PROVE  TypeInv'
  <2>1. PICK job : job = IF worker[w].batch = {worker[w].event} THEN Idle
                         ELSE [at |-> "batch", batch |-> worker[w].batch \ {worker[w].event}]
    OBVIOUS
  <2>2. worker' = [worker EXCEPT ![w] = job] /\ At(w, "emit", e)
    BY <1>6, <2>1 DEF EmitResult, NextEvent, TypeOK
  <2>3. job \in WorkerJob /\ WorkerKnown(job)
    BY <2>1, <2>2, WorkerGoesOn DEF At, Answered
  <2>4. PICK i \in Intent, topic \in Topic : outboxEvent' = Events({topic}, i)
    BY <1>6, EventAtHand DEF EmitResult, At, CollectionTopic, Topic
  <2>5. TypeOK'
    BY <1>6, <2>2, <2>3, <2>4 DEF EmitResult, TypeOK, Events
  <2> QED
    BY <1>6, <2>2, <2>3, <2>5, WorkerMoves DEF EmitResult, IntentOf
<1>7. ASSUME NEW e \in Event, MarkFailed(w, e)
      PROVE  TypeInv'
  <2>1. PICK job : job = IF worker[w].batch = {worker[w].event} THEN Idle
                         ELSE [at |-> "batch", batch |-> worker[w].batch \ {worker[w].event}]
    OBVIOUS
  <2>2. worker' = [worker EXCEPT ![w] = job] /\ At(w, "fail", e)
    BY <1>7, <2>1 DEF MarkFailed, NextEvent, TypeOK
  <2>3. job \in WorkerJob /\ WorkerKnown(job)
    BY <2>1, <2>2, WorkerGoesOn DEF At
  <2>4. Received(e) /\ Mark(e, "FAILED")
    BY <1>7, EventAtHand DEF MarkFailed, At
  <2>5. TypeOK'
    BY <1>7, <2>2, <2>3, <2>4, MarkKeeps DEF MarkFailed, TypeOK
  <2> QED
    BY <1>7, <2>2, <2>3, <2>4, <2>5, MarkKeeps, WorkerMoves DEF MarkFailed
<1>8. CASE Reject(w) \/ \E e \in Event : RefuseAnswer(w, e) \/ LostAnswer(w, e)
  <2>1. PICK job : job = [worker[w] EXCEPT !.at = "fail"]
    OBVIOUS
  <2>2. worker' = [worker EXCEPT ![w] = job] /\ worker[w].at \in {"ask"} \cup Answered
    BY <1>8, <2>1 DEF Reject, RefuseAnswer, LostAnswer, Go, At, TypeOK, Answered
  <2>3. job \in WorkerJob /\ WorkerKnown(job)
    BY <2>1, <2>2, WorkerGoesOn DEF Answered
  <2>4. CASE UNCHANGED <<collection, intent, investment, payment, posting, webhook, alert, outboxEvent, req>>
    <3>1. TypeOK'
      BY <2>2, <2>3, <2>4 DEF TypeOK
    <3> QED
      BY <2>2, <2>3, <2>4, <3>1, WorkerMoves DEF IntentOf
  <2>5. ASSUME NEW e \in Event, LostAnswer(w, e)
        PROVE  TypeInv'
    <3>1. CASE At(w, "record", e)
      BY <2>2, <2>3, <2>5, <3>1, WorkerRecords DEF LostAnswer, At
    <3>2. CASE At(w, "mark", e)
      <4>1. Received(e) /\ Mark(e, "PROCESSED") /\ UNCHANGED <<intent, collection, req>>
        BY <2>5, <3>2, EventAtHand DEF LostAnswer, At
      <4>2. TypeOK'
        BY <2>2, <2>3, <2>5, <3>2, <4>1, MarkKeeps DEF LostAnswer, At, TypeOK
      <4> QED
        BY <2>2, <2>3, <4>1, <4>2, MarkKeeps, WorkerMoves
    <3>3. CASE At(w, "emit", e)
      <4>e. /\ outboxEvent' = Events({CollectionTopic(worker[w].answer)}, IntentOf(e))
            /\ UNCHANGED <<collection, books, webhook, alert, req>>
        BY <2>5, <3>3 DEF LostAnswer, At
      <4>1. PICK i \in Intent, topic \in Topic : outboxEvent' = Events({topic}, i)
        BY <4>e, <3>3, EventAtHand DEF At, CollectionTopic, Topic
      <4>2. TypeOK'
        BY <2>2, <2>3, <4>e, <4>1 DEF TypeOK, Events
      <4> QED
        BY <2>2, <2>3, <4>e, <4>2, WorkerMoves DEF IntentOf
    <3> QED
      BY <2>5, <3>1, <3>2, <3>3 DEF LostAnswer
  <2> QED
    BY <1>8, <2>4, <2>5 DEF Reject, RefuseAnswer
<1>9. CASE Stop(w)
  <2>1. Idle \in WorkerJob /\ WorkerKnown(Idle)
    BY DEF Idle, WorkerJob, WorkerKnown
  <2>2. TypeOK'
    BY <1>9, <2>1 DEF Stop, TypeOK
  <2> QED
    BY <1>9, <2>1, <2>2, WorkerMoves DEF Stop, IntentOf
<1> QED
  BY <1>1, <1>2, <1>3, <1>4, <1>5, <1>6, <1>7, <1>8, <1>9 DEF WorkerStep, WorkerFault, Process

\* What is known of the jobs and rows when a step only moves a handler on.
LEMMA ApiMoves ==
    ASSUME TypeInv, NEW r \in Request, NEW job \in ApiJob, req' = [req EXCEPT ![r] = job],
           RequestKnown(job)', TypeOK', UNCHANGED <<webhook, worker>>,
           \A i \in Intent : Charged(i) => Charged(i)',
           \A i \in Intent : intent'[i] # intent[i] => Charged(i)
    PROVE  TypeInv'
<1>1. RowsKnown'
  <2>1. \A e \in Event : Received(e) => IntentOf(e) \in Intent /\ IntentOf(e)' = IntentOf(e)
    BY DEF IntentOf, TypeOK
  <2> QED
    BY <2>1 DEF RowsKnown, TypeOK
<1>2. WorkersKnown'
  BY DEF WorkersKnown, WorkerKnown
<1>3. ASSUME NEW q \in Request
      PROVE  RequestKnown(req[q])'
  <2>1. CASE q = r
    BY <2>1 DEF RequestKnown, TypeOK
  <2>2. CASE q # r
    <3>1. req'[q] = req[q] /\ req[q] \in ApiJob /\ RequestKnown(req[q])
      BY <2>2 DEF TypeOK, RequestsKnown
    <3> QED
      BY <3>1, ApiJobForm, RestSeen DEF RequestKnown
  <2> QED
    BY <2>1, <2>2
<1> QED
  BY <1>1, <1>2, <1>3 DEF RequestsKnown

\* The same when the handler writes nothing.
LEMMA ApiOnlyMoves ==
    ASSUME TypeInv, NEW r \in Request, NEW job \in ApiJob, req' = [req EXCEPT ![r] = job],
           RequestKnown(job), alert' \subseteq Intent,
           UNCHANGED <<collection, books, webhook, outboxEvent, worker>>
    PROVE  TypeInv'
<1>1. TypeOK'
  BY DEF TypeOK, books
<1>2. RequestKnown(job)'
  BY DEF RequestKnown
<1> QED
  BY <1>1, <1>2, ApiMoves DEF books

\* The job that goes on to the next intent of a reconciliation.
LEMMA NextIntentKnown ==
    ASSUME TypeInv, NEW r \in Request, req[r].at \in {"overwrite", "insert", "audit"}, NextIntent(r)
    PROVE  \E job \in ApiJob : req' = [req EXCEPT ![r] = job] /\ RequestKnown(job)
<1>1. PICK job : job = IF req[r].seen = <<>> THEN Idle ELSE [at |-> "scan", seen |-> req[r].seen]
  OBVIOUS
<1>2. req[r] \in ApiJob /\ RequestKnown(req[r])
  BY DEF TypeOK, RequestsKnown
<1>3. job \in ApiJob
  BY <1>1, <1>2, ApiJobForm, ScanJob DEF ApiJob
<1>4. RequestKnown(job)
  BY <1>1, <1>2 DEF RequestKnown, Idle
<1> QED
  BY <1>1, <1>3, <1>4 DEF NextIntent, Becomes

LEMMA ApiKeepsTypes ==
    ASSUME TypeInv, NEW r \in Request, ApiStep(r)
    PROVE  TypeInv'
<1>r. req[r] \in ApiJob /\ RequestKnown(req[r])
  BY DEF TypeOK, RequestsKnown
<1>1. CASE Scan(r)
  <2>1. PICK open \in SUBSET Intent : open = {i \in Traceable : intent[i] \in Open}
    BY DEF PaymentsAssumption
  <2>2. PICK seen : seen = [i \in open |-> intent[i]]
    OBVIOUS
  <2>3. seen \in Seen /\ DOMAIN seen = open
    BY <2>1, <2>2 DEF Seen
  <2>4. PICK job : job = [at |-> "scan", seen |-> seen]
    OBVIOUS
  <2>5. job \in ApiJob /\ RequestKnown(job)
    BY <2>1, <2>3, <2>4, ScanJob DEF RequestKnown, RowsKnown, Open
  <2> QED
    BY <1>1, <2>1, <2>2, <2>4, <2>5, ApiOnlyMoves DEF Scan, Begin, TypeOK
<1>2. CASE SkipIntent(r)
  BY <1>2, NextIntentKnown, ApiOnlyMoves DEF SkipIntent, TypeOK
<1>3. CASE Abandon(r)
  BY <1>3, ApiOnlyMoves DEF Abandon, Becomes, TypeOK, ApiJob, Idle, RequestKnown
<1>4. ASSUME NEW i \in Intent, CheckPayable(r, i) \/ CreateCollection(r, i)
      PROVE  TypeInv'
  <2>1. PICK job : job = [at |-> "charge", intent |-> i]
    OBVIOUS
  <2>2. job \in ApiJob /\ RequestKnown(job)
    BY <2>1 DEF ApiJob, RequestKnown
  <2> QED
    BY <1>4, <2>1, <2>2, ApiOnlyMoves DEF CheckPayable, CreateCollection, Begin, TypeOK
<1>5. ASSUME NEW i \in Intent, Charge(r, i)
      PROVE  TypeInv'
  <2>1. PICK result \in Collection :
            /\ collection' = [collection EXCEPT ![i] = result]
            /\ Becomes(r, [at |-> "store", intent |-> i,
                           status |-> IF i \in Traceable THEN result.status ELSE "PENDING"])
    BY <1>5, ResultForm DEF Charge
  <2>2. PICK job : job = [at |-> "store", intent |-> i,
                          status |-> IF i \in Traceable THEN result.status ELSE "PENDING"]
    OBVIOUS
  <2>3. collection' = [collection EXCEPT ![i] = result] /\ req' = [req EXCEPT ![r] = job]
    BY <2>1, <2>2 DEF Becomes
  <2>4. \A j \in Intent : Charged(j) => Charged(j)'
    BY <2>3, NoAnswerIsNone DEF TypeOK
  <2>5. Charged(i)'
    BY <2>3, NoAnswerIsNone DEF TypeOK
  <2>6. job \in ApiJob /\ RequestKnown(job)'
    BY <2>2, <2>5 DEF ApiJob, RequestKnown, Collection, PaymentStatus
  <2>7. TypeOK'
    BY <1>5, <2>3, <2>6 DEF Charge, books, TypeOK
  <2> QED
    BY <1>5, <2>3, <2>4, <2>6, <2>7, ApiMoves DEF Charge, books
<1>6. ASSUME NEW i \in Intent, StoreIntent(r, i)
      PROVE  TypeInv'
  <2>1. PICK job : job = [at |-> "announce", intent |-> i]
    OBVIOUS
  <2>2. job \in ApiJob /\ RequestKnown(job)'
    BY <2>1 DEF ApiJob, RequestKnown
  <2>3. Charged(i) /\ req' = [req EXCEPT ![r] = job] /\ req[r].status \in PaymentStatus
    BY <1>6, <1>r, <2>1, ApiJobForm DEF StoreIntent, RequestKnown, Becomes
  <2>4. TypeOK'
    BY <1>6, <2>2, <2>3 DEF StoreIntent, TypeOK, PaymentStatus
  <2> QED
    BY <1>6, <2>2, <2>3, <2>4, ApiMoves DEF StoreIntent, TypeOK
<1>7. ASSUME NEW i \in Intent, AnnounceIntent(r, i)
      PROVE  TypeInv'
  <2>1. Idle \in ApiJob /\ RequestKnown(Idle)'
    BY DEF ApiJob, Idle, RequestKnown
  <2>2. TypeOK'
    BY <1>7, <2>1 DEF AnnounceIntent, Becomes, TypeOK, books, Events, Topic
  <2> QED
    BY <1>7, <2>1, <2>2, ApiMoves DEF AnnounceIntent, Becomes, books
<1>8. ASSUME NEW i \in Intent, CheckOpen(r, i)
      PROVE  TypeInv'
  <2>1. PICK job : job = [at |-> "verify", intent |-> i]
    OBVIOUS
  <2>2. job \in ApiJob /\ RequestKnown(job)
    BY <1>8, <2>1 DEF CheckOpen, ApiJob, RequestKnown, RowsKnown
  <2> QED
    BY <1>8, <2>1, <2>2, ApiOnlyMoves DEF CheckOpen, Begin, TypeOK
<1>9. ASSUME NEW i \in Intent, AskForIntent(r, i)
      PROVE  TypeInv'
  <2>1. PICK answer \in AnswersAbout(collection[i]) :
            Becomes(r, [at |-> "look", intent |-> i, answer |-> answer])
    BY <1>9 DEF AskForIntent
  <2>2. Charged(i) /\ answer \in Answer
    BY <1>9, <1>r, AnswerForm DEF AskForIntent, RequestKnown, TypeOK
  <2>3. PICK job : job = [at |-> "look", intent |-> i, answer |-> answer]
    OBVIOUS
  <2>4. job \in ApiJob /\ RequestKnown(job)
    BY <2>2, <2>3 DEF ApiJob, RequestKnown
  <2> QED
    BY <1>9, <2>1, <2>3, <2>4, ApiOnlyMoves DEF AskForIntent, Becomes, TypeOK
<1>15. ASSUME NEW i \in Intent, LookForPayment(r, i)
       PROVE  TypeInv'
  <2>1. CASE IsRecorded(i, req[r].answer)
    BY <1>15, <2>1, ApiOnlyMoves DEF LookForPayment, Becomes, TypeOK, ApiJob, Idle, RequestKnown
  <2>2. CASE ~IsRecorded(i, req[r].answer)
    <3>1. PICK job : job = [req[r] EXCEPT !.at = "update"]
      OBVIOUS
    <3>2. job \in ApiJob /\ RequestKnown(job)
      BY <1>15, <1>r, <3>1, LookGoOn DEF LookForPayment, RequestKnown
    <3> QED
      BY <1>15, <2>2, <3>1, <3>2, ApiOnlyMoves DEF LookForPayment, Becomes, TypeOK
  <2> QED
    BY <2>1, <2>2
<1>10. ASSUME NEW i \in Intent, UpdateIntent(r, i)
       PROVE  TypeInv'
  <2>1. PICK answer \in Answer : answer = req[r].answer
    BY <1>10, <1>r, ApiJobForm DEF UpdateIntent
  <2>2. Charged(i)
    BY <1>10, <1>r DEF UpdateIntent, RequestKnown
  <2>3. /\ intent' = [intent EXCEPT ![i] = answer.status]
        /\ intent' \in [Intent -> PaymentStatus \cup {"ABSENT"}]
        /\ investment' \in [Investment -> {"PENDING_PAYMENT", "CONFIRMED", "CANCELLED"}]
        /\ DOMAIN payment' \subseteq PaymentRow
        /\ DOMAIN posting' \subseteq [row : PaymentRow, draft : Draft]
    BY <1>10, <2>1, RecordTypes DEF UpdateIntent
  <2>4. outboxEvent' \subseteq [topic : Topic, intent : Intent]
    BY <1>10 DEF UpdateIntent, TypeOK, Events, Topic
  <2>5. Idle \in ApiJob /\ RequestKnown(Idle)' /\ req' = [req EXCEPT ![r] = Idle]
    BY <1>10 DEF UpdateIntent, Becomes, ApiJob, Idle, RequestKnown
  <2>6. TypeOK'
    BY <1>10, <2>3, <2>4, <2>5 DEF UpdateIntent, TypeOK
  <2> QED
    BY <1>10, <2>2, <2>3, <2>5, <2>6, ApiMoves DEF UpdateIntent, TypeOK
<1>11. ASSUME NEW i \in Intent, Compare(r, i)
       PROVE  TypeInv'
  <2>1. PICK answer \in AnswersAbout(collection[i]) :
            Becomes(r, [at |-> IF answer.status # req[r].seen[i] THEN "overwrite" ELSE "audit",
                        intent |-> i, answer |-> answer, seen |-> Rest(req[r].seen, i)])
    BY <1>11 DEF Compare
  <2>2. Charged(i) /\ answer \in Answer
    <3>1. Charged(i) /\ collection[i] \in Collection
      BY <1>11, <1>r DEF Compare, RequestKnown, TypeOK
    <3> QED
      BY <3>1, AnswerForm
  <2>3. /\ Rest(req[r].seen, i) \in Seen
        /\ DOMAIN Rest(req[r].seen, i) \subseteq DOMAIN req[r].seen
    BY <1>11, <1>r, ApiJobForm, RestSeen DEF Compare
  <2>4. PICK job : job = [at |-> IF answer.status # req[r].seen[i] THEN "overwrite" ELSE "audit",
                          intent |-> i, answer |-> answer, seen |-> Rest(req[r].seen, i)]
    OBVIOUS
  <2>5. job \in ApiJob /\ RequestKnown(job)
    BY <1>11, <1>r, <2>2, <2>3, <2>4 DEF Compare, ApiJob, RequestKnown
  <2> QED
    BY <1>11, <2>1, <2>4, <2>5, ApiOnlyMoves DEF Compare, Becomes, TypeOK
<1>12. ASSUME NEW i \in Intent, Overwrite(r, i)
       PROVE  TypeInv'
  <2>1. PICK job : job = [req[r] EXCEPT !.at = "insert"]
    OBVIOUS
  <2>2. /\ job \in ApiJob /\ job.at = "insert" /\ req' = [req EXCEPT ![r] = job]
        /\ job.intent = i /\ job.seen = req[r].seen
    BY <1>12, <1>r, <2>1, ApiGoOn DEF Overwrite, Becomes
  <2>3. Charged(i) /\ RequestKnown(job) /\ req[r].answer.status \in PaymentStatus
    BY <1>12, <1>r, <2>2, ApiJobForm DEF Overwrite, RequestKnown, Answer
  <2>4. RequestKnown(job)'
    BY <1>12, <2>3 DEF Overwrite, RequestKnown
  <2>5. TypeOK'
    BY <1>12, <2>2, <2>3 DEF Overwrite, TypeOK
  <2> QED
    BY <1>12, <2>2, <2>3, <2>4, <2>5, ApiMoves DEF Overwrite, TypeOK
<1>13. ASSUME NEW i \in Intent, InsertPayment(r, i)
       PROVE  TypeInv'
  <2>1. PICK job : job = [req[r] EXCEPT !.at = "audit"]
    OBVIOUS
  <2>2. /\ job \in ApiJob /\ job.at = "audit" /\ req' = [req EXCEPT ![r] = job]
        /\ job.intent = i /\ job.seen = req[r].seen
    BY <1>13, <1>r, <2>1, ApiGoOn DEF InsertPayment, Becomes
  <2>3. RequestKnown(job) /\ req[r].answer \in Answer
    BY <1>13, <1>r, <2>2, ApiJobForm DEF InsertPayment, RequestKnown
  <2>4. RequestKnown(job)'
    BY <1>13, <2>3 DEF InsertPayment, RequestKnown
  <2>5. PICK row \in PaymentRow : row = Row(i, req[r].answer, "reconcile")
    BY <2>3 DEF Row, PaymentRow
  <2>6. DOMAIN payment' = DOMAIN payment \cup {row}
    BY <1>13, <2>5, Adds DEF InsertPayment, OneMore
  <2>7. TypeOK'
    BY <1>13, <2>2, <2>6 DEF InsertPayment, TypeOK
  <2> QED
    BY <1>13, <2>2, <2>4, <2>7, ApiMoves DEF InsertPayment
<1>14. ASSUME NEW i \in Intent, Audit(r, i)
       PROVE  TypeInv'
  BY <1>14, NextIntentKnown, ApiOnlyMoves DEF Audit, TypeOK
<1> QED
  BY <1>1, <1>2, <1>3, <1>4, <1>5, <1>6, <1>7, <1>8, <1>9, <1>10, <1>11, <1>12, <1>13, <1>14, <1>15 DEF ApiStep

LEMMA TypeInvHolds == Spec => []TypeInv
<1>1. TypeInv /\ [Next]_vars => TypeInv'
  <2> SUFFICES ASSUME TypeInv, [Next]_vars
               PROVE  TypeInv'
    OBVIOUS
  <2>1. CASE Next
    BY <2>1, ProviderKeepsTypes, WorkerKeepsTypes, ApiKeepsTypes DEF Next
  <2>2. CASE UNCHANGED vars
    BY <2>2 DEF vars, TypeOK, RowsKnown, IntentOf, WorkersKnown, WorkerKnown, RequestsKnown, RequestKnown
  <2> QED
    BY <2>1, <2>2
<1> QED
  BY <1>1, PaymentsInit, PTL DEF Spec

\* Whatever is read or written about a collection has its type: no step asks for the answer
\* about an intent that was never charged, and none writes NONE as a status.
THEOREM PaymentsTypeCorrect == Spec => []TypeOK
<1>1. TypeInv => TypeOK
  OBVIOUS
<1> QED
  BY <1>1, TypeInvHolds, PTL

(***************************************************************************)
(* What a step does to a collection, a webhook, a job and the books.       *)
(***************************************************************************)

\* An intent is charged by the one handler that drew it, and once.
ChargedOnce ==
    /\ \A r \in Request : req[r].at = "charge" => ~Charged(req[r].intent)
    /\ \A q, r \in Request :
           q # r /\ req[q].at = "charge" /\ req[r].at = "charge" => req[q].intent # req[r].intent

Checked == {"look", "update", "overwrite", "insert", "audit"}

\* An answer that is not open is what the provider says from then on.
StillTrue(answer, i) == answer.status \notin Open => collection[i].status = answer.status

FinalInv ==
    /\ FinalStatusIsTheProviders
    /\ \A w \in Worker : worker[w].at \in Answered =>
           StillTrue(worker[w].answer, IntentOf(worker[w].event))
    /\ \A r \in Request : req[r].at \in Checked => StillTrue(req[r].answer, req[r].intent)
    /\ \A r \in Request : req[r].at = "store" => StillTrue(req[r], req[r].intent)

HasWebhookPayment(i) == \E row \in DOMAIN payment : row.by = "webhook" /\ row.intent = i

DoneInv ==
    /\ DoneWasRecorded
    /\ \A w \in Worker : worker[w].at \in {"mark", "emit"} =>
           HasWebhookPayment(IntentOf(worker[w].event))

LEMMA ChargedOnceInit == Init => ChargedOnce
BY DEF Init, ChargedOnce, Idle

\* A handler becomes one that charges only by drawing an intent nobody has.
LEMMA ChargeSteps ==
    ASSUME [Next]_vars, NEW r \in Request, TypeOK, TypeOK', req'[r].at = "charge"
    PROVE  \/ req'[r] = req[r]
           \/ /\ \A q \in Request \ {r} : req'[q] = req[q]
              /\ UNCHANGED collection
              /\ ~Drawn(req'[r].intent)
<1>1. CASE UNCHANGED vars
  BY <1>1 DEF vars
<1>2. CASE ProviderStep \/ \E w \in Worker : WorkerStep(w) \/ WorkerFault(w)
  BY <1>2 DEF ProviderStep, Settle, Receive, CancelInvestment, WorkerStep, Poll, Process, FindIntent, Ask,
              RecordAnswer, RefuseAnswer, MarkProcessed, EmitResult, MarkFailed, WorkerFault, Reject, Stop, LostAnswer
<1>3. ASSUME NEW q \in Request, ApiStep(q)
      PROVE  \/ req'[r] = req[r]
             \/ /\ \A p \in Request \ {r} : req'[p] = req[p]
                /\ UNCHANGED collection
                /\ ~Drawn(req'[r].intent)
  <2>1. CASE q # r
    BY <1>3, <2>1 DEF ApiStep, Scan, SkipIntent, NextIntent, Abandon, Begin, Becomes, CheckPayable, CreateCollection, Charge, StoreIntent,
                AnnounceIntent, CheckOpen, AskForIntent, LookForPayment, UpdateIntent, Compare, Overwrite, InsertPayment, Audit, TypeOK
  <2>2. CASE q = r /\ \E i \in Intent : CheckPayable(r, i) \/ CreateCollection(r, i)
    BY <2>2 DEF CheckPayable, CreateCollection, Begin, TypeOK
  <2>3. CASE q = r /\ \E i \in Intent : Overwrite(r, i) \/ InsertPayment(r, i)
    BY <2>3, ApiGoOn DEF Overwrite, InsertPayment, Becomes, TypeOK
  <2>7. CASE q = r /\ \E i \in Intent : LookForPayment(r, i)
    <3>1. CASE req' = [req EXCEPT ![r] = Idle]
      BY <3>1 DEF Idle, TypeOK
    <3>2. ASSUME NEW job, job = [req[r] EXCEPT !.at = "update"], req[r].at = "look", req' = [req EXCEPT ![r] = job]
          PROVE  req'[r].at # "charge"
      BY <3>2, LookGoOn DEF TypeOK
    <3> QED
      BY <2>7, <3>1, <3>2 DEF LookForPayment, Becomes
  <2>4. CASE q = r /\ \E i \in Intent : Charge(r, i) \/ StoreIntent(r, i) \/ AnnounceIntent(r, i) \/ CheckOpen(r, i)
    BY <2>4 DEF Charge, StoreIntent, AnnounceIntent, CheckOpen, Begin, Becomes, Idle, TypeOK
  <2>5. CASE q = r /\ \E i \in Intent : AskForIntent(r, i) \/ UpdateIntent(r, i) \/ Compare(r, i) \/ Audit(r, i)
    BY <2>5 DEF AskForIntent, UpdateIntent, Compare, Audit, NextIntent, Becomes, Idle, TypeOK
  <2>6. CASE q = r /\ (Scan(r) \/ SkipIntent(r) \/ Abandon(r))
    BY <2>6 DEF Scan, SkipIntent, NextIntent, Abandon, Begin, Becomes, Idle, TypeOK
  <2> QED
    BY <1>3, <2>1, <2>2, <2>3, <2>4, <2>5, <2>6, <2>7 DEF ApiStep
<1> QED
  BY <1>1, <1>2, <1>3 DEF Next

\* What the provider says of a collection: nothing new, a first word to the handler that
\* charges it, or what has become of an open one.
LEMMA CollectionSteps ==
    ASSUME [Next]_vars, TypeOK
    PROVE  \/ UNCHANGED collection
           \/ \E r \in Request, i \in Intent :
                  /\ Charge(r, i)
                  /\ \A j \in Intent \ {i} : collection'[j] = collection[j]
           \/ \E i \in Intent :
                  /\ collection[i].status \in Open
                  /\ \A j \in Intent \ {i} : collection'[j] = collection[j]
                  /\ UNCHANGED req
<1>1. CASE UNCHANGED vars
  BY <1>1 DEF vars
<1>2. CASE ProviderStep
  <2>1. ASSUME NEW i \in Intent, Settle(i)
        PROVE  /\ collection[i].status \in Open /\ UNCHANGED req
               /\ \A j \in Intent \ {i} : collection'[j] = collection[j]
    <3>1. PICK answer : collection' = [collection EXCEPT ![i] = answer]
      BY <2>1 DEF Settle
    <3> QED
      BY <2>1, <3>1 DEF Settle, TypeOK
  <2> QED
    BY <1>2, <2>1 DEF ProviderStep, Receive, CancelInvestment
<1>3. CASE \E w \in Worker : WorkerStep(w) \/ WorkerFault(w)
  BY <1>3 DEF WorkerStep, Poll, Process, FindIntent, Ask,
              RecordAnswer, RefuseAnswer, MarkProcessed, EmitResult, MarkFailed, WorkerFault, Reject, Stop, LostAnswer
<1>4. CASE \E r \in Request, i \in Intent : Charge(r, i)
  <2>1. PICK r \in Request, i \in Intent : Charge(r, i)
    BY <1>4
  <2>2. PICK answer : collection' = [collection EXCEPT ![i] = answer]
    BY <2>1 DEF Charge
  <2>3. \A j \in Intent \ {i} : collection'[j] = collection[j]
    BY <2>2 DEF TypeOK
  <2> QED
    BY <2>1, <2>3
<1>5. ASSUME NEW r \in Request, ApiStep(r), ~\E i \in Intent : Charge(r, i)
      PROVE  UNCHANGED collection
  <2>1. CASE Scan(r) \/ SkipIntent(r) \/ Abandon(r)
    BY <2>1 DEF Scan, SkipIntent, Abandon
  <2>2. ASSUME NEW i \in Intent,
               \/ CheckPayable(r, i) \/ CreateCollection(r, i) \/ LookForPayment(r, i)
               \/ StoreIntent(r, i) \/ AnnounceIntent(r, i) \/ CheckOpen(r, i)
               \/ AskForIntent(r, i) \/ UpdateIntent(r, i) \/ Compare(r, i) \/ Overwrite(r, i)
               \/ InsertPayment(r, i) \/ Audit(r, i)
        PROVE  UNCHANGED collection
    BY <2>2 DEF CheckPayable, CreateCollection, StoreIntent, AnnounceIntent, CheckOpen, AskForIntent,
                LookForPayment, UpdateIntent, Compare,
                Overwrite, InsertPayment, Audit
  <2> QED
    BY <1>5, <2>1, <2>2 DEF ApiStep
<1> QED
  BY <1>1, <1>2, <1>3, <1>4, <1>5 DEF Next

\* What a charge finds is a collection of its own.
LEMMA EachIntentIsChargedOnce == Spec => []ChargedOnce
<1>1. TypeInv /\ TypeInv' /\ ChargedOnce /\ [Next]_vars => ChargedOnce'
  <2> SUFFICES ASSUME TypeInv, TypeInv', ChargedOnce, [Next]_vars
               PROVE  ChargedOnce'
    OBVIOUS
  <2>1. ASSUME NEW q \in Request, NEW r \in Request, q # r, req'[q].at = "charge", req'[r].at = "charge"
        PROVE  req'[q].intent # req'[r].intent
    <3>1. ASSUME NEW a \in Request, NEW b \in Request, a # b, req'[b] = req[b], req'[b].at = "charge",
                 ~Drawn(req'[a].intent)
          PROVE  req'[a].intent # req'[b].intent
      <4>1. req[b] = [at |-> "charge", intent |-> req[b].intent]
        BY <3>1, ApiJobForm DEF TypeOK
      <4> QED
        BY <3>1, <4>1 DEF Drawn
    <3> QED
      BY <2>1, <3>1, ChargeSteps DEF ChargedOnce
  <2>2. ASSUME NEW r \in Request, req'[r].at = "charge"
        PROVE  collection'[req'[r].intent] = NoCollection
    <3>1. CASE req'[r] = req[r]
      <4>1. collection[req[r].intent] = NoCollection /\ req[r].intent \in Intent /\ req[r].at = "charge"
        BY <2>2, <3>1, ApiJobForm DEF ChargedOnce, TypeOK
      <4>2. ASSUME NEW q \in Request, NEW i \in Intent, Charge(q, i), 
                   \A j \in Intent \ {i} : collection'[j] = collection[j]
            PROVE  collection'[req[r].intent] = NoCollection
        <5>1. q # r
          BY <2>2, <4>2 DEF Charge, Becomes, TypeOK
        <5>2. req[r].intent # i
          BY <4>1, <4>2, <5>1 DEF Charge, ChargedOnce
        <5> QED
          BY <4>1, <4>2, <5>2
      <4> QED
        <5>1. ASSUME NEW i \in Intent, collection[i].status \in Open,
                     \A j \in Intent \ {i} : collection'[j] = collection[j]
              PROVE  collection'[req[r].intent] = NoCollection
          BY <4>1, <5>1 DEF NoCollection, Open
        <5> QED
          BY <3>1, <4>1, <4>2, <5>1, CollectionSteps
    <3>2. CASE req'[r] # req[r]
      BY <2>2, <3>2, ChargeSteps DEF Drawn
    <3> QED
      BY <3>1, <3>2
  <2> QED
    BY <2>1, <2>2 DEF ChargedOnce
<1> QED
  BY <1>1, TypeInvHolds, ChargedOnceInit, PTL DEF Spec

\* What a step does to the books: an answer is recorded by a worker or a verification, a
\* row is stored, overwritten or inserted by a handler, an investment is cancelled.
BookStep ==
    \/ UNCHANGED books
    \/ \E w \in Worker, e \in Event :
           At(w, "record", e) /\ Record(IntentOf(e), worker[w].answer, "webhook")
    \/ \E r \in Request :
           req[r].at = "update" /\ Record(req[r].intent, req[r].answer, "verify")
    \/ \E r \in Request :
           /\ req[r].at = "store"
           /\ intent' = [intent EXCEPT ![req[r].intent] = req[r].status]
           /\ UNCHANGED <<investment, payment, posting>>
    \/ \E r \in Request :
           /\ req[r].at = "overwrite"
           /\ intent' = [intent EXCEPT ![req[r].intent] = req[r].answer.status]
           /\ UNCHANGED <<investment, payment, posting>>
    \/ \E r \in Request :
           /\ req[r].at = "insert"
           /\ payment' = Add(payment, Row(req[r].intent, req[r].answer, "reconcile"))
           /\ UNCHANGED <<intent, investment, posting>>
    \/ \E v \in Investment :
           /\ investment' = [investment EXCEPT ![v] = "CANCELLED"]
           /\ UNCHANGED <<intent, payment, posting>>

LEMMA BookSteps == [Next]_vars => BookStep
<1> SUFFICES ASSUME [Next]_vars PROVE BookStep
  OBVIOUS
<1>1. CASE UNCHANGED vars
  BY <1>1 DEF vars, books, BookStep
<1>2. CASE ProviderStep
  BY <1>2 DEF ProviderStep, Settle, Receive, CancelInvestment, BookStep, books
<1>3. ASSUME NEW w \in Worker, WorkerStep(w) \/ WorkerFault(w)
      PROVE  BookStep
  <2>1. CASE \E e \in Event : RecordAnswer(w, e)
    BY <2>1 DEF RecordAnswer, BookStep
  <2>2. CASE \E e \in Event : LostAnswer(w, e)
    BY <2>2 DEF LostAnswer, BookStep
  <2>3. CASE Poll(w) \/ Reject(w) \/ Stop(w) \/ \E e \in Event :
                 FindIntent(w, e) \/ Ask(w, e) \/ RefuseAnswer(w, e) \/ MarkProcessed(w, e)
                 \/ EmitResult(w, e) \/ MarkFailed(w, e)
    BY <2>3 DEF Poll, Reject, Stop, FindIntent, Ask, RefuseAnswer, MarkProcessed, EmitResult, MarkFailed, BookStep
  <2> QED
    BY <1>3, <2>1, <2>2, <2>3 DEF WorkerStep, WorkerFault, Process
<1>4. ASSUME NEW r \in Request, ApiStep(r)
      PROVE  BookStep
  <2>1. ASSUME NEW i \in Intent, UpdateIntent(r, i)
        PROVE  BookStep
    BY <2>1 DEF UpdateIntent, BookStep
  <2>2. ASSUME NEW i \in Intent, StoreIntent(r, i)
        PROVE  BookStep
    BY <2>2 DEF StoreIntent, BookStep
  <2>3. ASSUME NEW i \in Intent, Overwrite(r, i)
        PROVE  BookStep
    BY <2>3 DEF Overwrite, BookStep
  <2>4. ASSUME NEW i \in Intent, InsertPayment(r, i)
        PROVE  BookStep
    BY <2>4 DEF InsertPayment, BookStep
  <2>5. CASE Scan(r) \/ SkipIntent(r) \/ Abandon(r)
    BY <2>5 DEF Scan, SkipIntent, Abandon, BookStep
  <2>6. ASSUME NEW i \in Intent,
               \/ CheckPayable(r, i) \/ CreateCollection(r, i) \/ LookForPayment(r, i)
               \/ Charge(r, i) \/ AnnounceIntent(r, i) \/ CheckOpen(r, i)
               \/ AskForIntent(r, i) \/ Compare(r, i) \/ Audit(r, i)
        PROVE  BookStep
    BY <2>6 DEF CheckPayable, CreateCollection, LookForPayment, Charge, AnnounceIntent, CheckOpen, AskForIntent, Compare, Audit, BookStep
  <2> QED
    BY <1>4, <2>1, <2>2, <2>3, <2>4, <2>5, <2>6 DEF ApiStep
<1> QED
  BY <1>1, <1>2, <1>3, <1>4 DEF Next

\* A received webhook keeps the intent it names, and becomes PROCESSED only by a worker at
\* "mark" for it.
LEMMA WebhookSteps ==
    ASSUME [Next]_vars, TypeInv, NEW e \in Event
    PROVE  /\ Received(e) => IntentOf(e)' = IntentOf(e)
           /\ webhook'[e].status = "PROCESSED" =>
                  Received(e) /\ (webhook[e].status = "PROCESSED" \/ \E w \in Worker : At(w, "mark", e))
<1> DEFINE Goal == /\ Received(e) => IntentOf(e)' = IntentOf(e)
                   /\ webhook'[e].status = "PROCESSED" =>
                          Received(e) /\ (webhook[e].status = "PROCESSED" \/ \E w \in Worker : At(w, "mark", e))
<1>1. CASE UNCHANGED webhook
  BY <1>1 DEF IntentOf, NoWebhook
<1>2. ASSUME NEW f \in Event, NEW i \in Intent, Receive(f, i)
      PROVE  Goal
  <2>1. PICK row : row = [status |-> "PENDING", intent |-> i]
    OBVIOUS
  <2>2. webhook' = [webhook EXCEPT ![f] = row] /\ webhook[f] = NoWebhook
    BY <1>2, <2>1 DEF Receive
  <2> QED
    BY <2>1, <2>2 DEF TypeOK, IntentOf, NoWebhook
<1>3. ASSUME NEW f \in Event, NEW status \in {"PROCESSED", "FAILED"}, Mark(f, status), Received(f),
             status = "PROCESSED" => \E w \in Worker : At(w, "mark", f)
      PROVE  Goal
  <2>1. Received(e) => IntentOf(e)' = IntentOf(e)
    BY <1>3, MarkKeeps
  <2>2. CASE e # f
    BY <1>3, <2>1, <2>2 DEF Mark, TypeOK, NoWebhook
  <2>3. CASE e = f
    <3>1. webhook[f] \in [status : {"PENDING", "PROCESSED", "FAILED"}, intent : Intent]
      BY <1>3 DEF TypeOK
    <3>2. webhook'[f].status = status
      BY <1>3, <3>1 DEF Mark, TypeOK
    <3> QED
      BY <1>3, <2>1, <2>3, <3>2
  <2> QED
    BY <2>2, <2>3
<1>4. CASE UNCHANGED vars
  BY <1>1, <1>4 DEF vars
<1>5. CASE ProviderStep
  BY <1>1, <1>2, <1>5 DEF ProviderStep, Settle, CancelInvestment
<1>6. ASSUME NEW r \in Request, ApiStep(r)
      PROVE  UNCHANGED webhook
  <2>1. CASE Scan(r) \/ SkipIntent(r) \/ Abandon(r)
    BY <2>1 DEF Scan, SkipIntent, Abandon
  <2>2. ASSUME NEW i \in Intent,
               \/ CheckPayable(r, i) \/ CreateCollection(r, i) \/ LookForPayment(r, i)
               \/ Charge(r, i) \/ StoreIntent(r, i) \/ AnnounceIntent(r, i)
               \/ CheckOpen(r, i) \/ AskForIntent(r, i) \/ UpdateIntent(r, i) \/ Compare(r, i)
               \/ Overwrite(r, i) \/ InsertPayment(r, i) \/ Audit(r, i)
        PROVE  UNCHANGED webhook
    BY <2>2 DEF CheckPayable, CreateCollection, Charge, StoreIntent, AnnounceIntent, CheckOpen, AskForIntent, LookForPayment, UpdateIntent,
                Compare, Overwrite, InsertPayment, Audit
  <2> QED
    BY <1>6, <2>1, <2>2 DEF ApiStep
<1>7. ASSUME NEW w \in Worker, WorkerStep(w) \/ WorkerFault(w)
      PROVE  UNCHANGED webhook \/ \E f \in Event :
                 \/ At(w, "mark", f) /\ Mark(f, "PROCESSED")
                 \/ At(w, "fail", f) /\ Mark(f, "FAILED")
  BY <1>7 DEF WorkerStep, WorkerFault, Process, Poll, Reject, Stop, FindIntent, Ask, RecordAnswer, RefuseAnswer,
              MarkProcessed, EmitResult, MarkFailed, LostAnswer
<1> QED
  BY <1>1, <1>3, <1>4, <1>5, <1>6, <1>7, EventAtHand DEF Next, At

\* A worker holds an answer because it just asked, or because it held it before; it is at
\* "mark" because it recorded the answer.
LEMMA WorkerSteps ==
    ASSUME [Next]_vars, TypeInv, NEW w \in Worker, worker'[w].at \in Answered
    PROVE  \/ worker'[w] = worker[w]
           \/ /\ worker'[w].answer \in AnswersAbout(collection[IntentOf(worker'[w].event)])
              /\ worker'[w].at = "record" /\ worker[w].at = "ask" /\ worker'[w].event = worker[w].event
              /\ UNCHANGED <<collection, webhook>>
           \/ /\ worker[w].at \in Answered
              /\ worker'[w].answer = worker[w].answer /\ worker'[w].event = worker[w].event
              /\ \/ worker[w].at = "mark"
                 \/ Record(IntentOf(worker[w].event), worker[w].answer, "webhook") /\ UNCHANGED webhook
<1>1. CASE UNCHANGED worker
  BY <1>1
<1>2. ASSUME NEW x \in Worker, x # w, WorkerStep(x) \/ WorkerFault(x)
      PROVE  worker'[w] = worker[w]
  BY <1>2 DEF WorkerStep, WorkerFault, Process, Poll, Reject, Stop, FindIntent, Ask, RecordAnswer, RefuseAnswer,
              MarkProcessed, EmitResult, MarkFailed, LostAnswer, Go, NextEvent, TypeOK
<1>3. ASSUME NEW e \in Event, Ask(w, e)
      PROVE  /\ worker'[w].answer \in AnswersAbout(collection[IntentOf(worker'[w].event)])
             /\ worker'[w].at = "record" /\ worker[w].at = "ask" /\ worker'[w].event = worker[w].event
             /\ UNCHANGED <<collection, webhook>>
  BY <1>3 DEF Ask, At, TypeOK
<1>4. ASSUME NEW e \in Event, NEW step \in {"mark", "emit"}, At(w, "record", e) \/ At(w, "mark", e), Go(w, step)
      PROVE  worker'[w].answer = worker[w].answer /\ worker'[w].event = worker[w].event
  <2>1. PICK job : job = [worker[w] EXCEPT !.at = step]
    OBVIOUS
  <2>2. job.answer = worker[w].answer /\ job.event = worker[w].event
    BY <1>4, <2>1, GoOn DEF At, Answered, TypeOK
  <2> QED
    BY <1>4, <2>1, <2>2 DEF Go, TypeOK
<1>5. ASSUME NEW e \in Event, RecordAnswer(w, e) \/ MarkProcessed(w, e)
      PROVE  /\ worker[w].at \in Answered
             /\ worker'[w].answer = worker[w].answer /\ worker'[w].event = worker[w].event
             /\ \/ worker[w].at = "mark"
                \/ Record(IntentOf(worker[w].event), worker[w].answer, "webhook") /\ UNCHANGED webhook
  BY <1>4, <1>5 DEF RecordAnswer, MarkProcessed, At, Answered
<1>6. ASSUME Go(w, "fail")
      PROVE  worker'[w].at \notin Answered
  <2>1. PICK job : job = [worker[w] EXCEPT !.at = "fail"]
    OBVIOUS
  <2>2. worker' = [worker EXCEPT ![w] = job]
    BY <1>6, <2>1 DEF Go, TypeOK
  <2> QED
    BY <2>1, <2>2 DEF TypeOK, WorkerJob, Answered, Idle
<1>7. CASE \/ Poll(w) \/ Stop(w)
           \/ \E e \in Event : FindIntent(w, e) \/ EmitResult(w, e) \/ MarkFailed(w, e)
  BY <1>7 DEF Poll, Stop, FindIntent, EmitResult, MarkFailed, NextEvent, Idle, TypeOK, Answered
<1>8. CASE Reject(w) \/ \E e \in Event : RefuseAnswer(w, e) \/ LostAnswer(w, e)
  BY <1>6, <1>8 DEF Reject, RefuseAnswer, LostAnswer
<1>9. CASE ProviderStep \/ \E r \in Request : ApiStep(r)
  <2>1. CASE ProviderStep
    BY <1>1, <2>1 DEF ProviderStep, Settle, Receive, CancelInvestment
  <2>2. ASSUME NEW r \in Request, Scan(r) \/ SkipIntent(r) \/ Abandon(r)
        PROVE  UNCHANGED worker
    BY <2>2 DEF Scan, SkipIntent, Abandon
  <2>3. ASSUME NEW r \in Request, NEW i \in Intent,
               \/ CheckPayable(r, i) \/ CreateCollection(r, i) \/ LookForPayment(r, i)
               \/ Charge(r, i) \/ StoreIntent(r, i) \/ AnnounceIntent(r, i)
               \/ CheckOpen(r, i) \/ AskForIntent(r, i) \/ UpdateIntent(r, i) \/ Compare(r, i)
               \/ Overwrite(r, i) \/ InsertPayment(r, i) \/ Audit(r, i)
        PROVE  UNCHANGED worker
    BY <2>3 DEF CheckPayable, CreateCollection, Charge, StoreIntent, AnnounceIntent, CheckOpen, AskForIntent, LookForPayment, UpdateIntent,
                Compare, Overwrite, InsertPayment, Audit
  <2> QED
    BY <1>1, <1>9, <2>1, <2>2, <2>3 DEF ApiStep
<1>10. CASE WorkerStep(w) \/ WorkerFault(w)
  BY <1>3, <1>5, <1>7, <1>8, <1>10 DEF WorkerStep, WorkerFault, Process
<1>11. CASE \E x \in Worker : x # w /\ (WorkerStep(x) \/ WorkerFault(x))
  BY <1>2, <1>11
<1>12. CASE UNCHANGED vars
  BY <1>1, <1>12 DEF vars
<1> QED
  BY <1>9, <1>10, <1>11, <1>12 DEF Next

\* A handler holds an answer because it just asked, or because it held it before.
LEMMA ApiSteps ==
    ASSUME [Next]_vars, TypeInv, NEW r \in Request, req'[r].at \in Checked
    PROVE  \/ req'[r] = req[r]
           \/ req'[r].answer \in AnswersAbout(collection[req'[r].intent]) /\ UNCHANGED collection
           \/ /\ req[r].at \in Checked
              /\ req'[r].answer = req[r].answer /\ req'[r].intent = req[r].intent
<1>1. CASE UNCHANGED req
  BY <1>1
<1>2. CASE UNCHANGED vars \/ ProviderStep
  BY <1>1, <1>2 DEF vars, ProviderStep, Settle, Receive, CancelInvestment
<1>3. CASE \E w \in Worker : WorkerStep(w) \/ WorkerFault(w)
  BY <1>1, <1>3 DEF WorkerStep, WorkerFault, Process, Poll, Reject, Stop, FindIntent, Ask, RecordAnswer, RefuseAnswer,
              MarkProcessed, EmitResult, MarkFailed, LostAnswer
<1>4. ASSUME NEW q \in Request, q # r, ApiStep(q)
      PROVE  req'[r] = req[r]
  BY <1>4 DEF ApiStep, Scan, SkipIntent, NextIntent, Abandon, Begin, Becomes, CheckPayable, CreateCollection, Charge, StoreIntent,
              AnnounceIntent, CheckOpen, AskForIntent, LookForPayment, UpdateIntent, Compare, Overwrite, InsertPayment, Audit, TypeOK
<1>5. CASE \E i \in Intent : AskForIntent(r, i) \/ Compare(r, i)
  BY <1>5 DEF AskForIntent, Compare, Becomes, TypeOK
<1>6. ASSUME NEW i \in Intent, Overwrite(r, i) \/ InsertPayment(r, i)
      PROVE  /\ req[r].at \in Checked
             /\ req'[r].answer = req[r].answer /\ req'[r].intent = req[r].intent
  <2>1. PICK step \in {"insert", "audit"} : req' = [req EXCEPT ![r] = [req[r] EXCEPT !.at = step]]
    BY <1>6 DEF Overwrite, InsertPayment, Becomes
  <2>2. PICK job : job = [req[r] EXCEPT !.at = step] /\ req' = [req EXCEPT ![r] = job]
    BY <2>1
  <2> QED
    BY <1>6, <2>1, <2>2, ApiGoOn DEF Overwrite, InsertPayment, TypeOK, Checked
<1>8. ASSUME NEW i \in Intent, LookForPayment(r, i)
      PROVE  /\ req[r].at \in Checked
             /\ req'[r].answer = req[r].answer /\ req'[r].intent = req[r].intent
  <2>1. PICK job : job = [req[r] EXCEPT !.at = "update"]
    OBVIOUS
  <2>2. req'[r] = Idle \/ req'[r] = job
    BY <1>8, <2>1 DEF LookForPayment, Becomes, TypeOK
  <2>3. req'[r] = job /\ req[r].at = "look"
    BY <1>8, <2>2 DEF LookForPayment, Idle, Checked
  <2> QED
    BY <2>1, <2>3, LookGoOn DEF TypeOK, Checked
<1>7. CASE \/ Scan(r) \/ SkipIntent(r) \/ Abandon(r)
           \/ \E i \in Intent : \/ CheckPayable(r, i) \/ CreateCollection(r, i) \/ Charge(r, i) \/ StoreIntent(r, i) \/ AnnounceIntent(r, i)
                                \/ CheckOpen(r, i) \/ UpdateIntent(r, i) \/ Audit(r, i)
  BY <1>7 DEF Scan, SkipIntent, Abandon, CheckPayable, CreateCollection, Charge, StoreIntent, AnnounceIntent, CheckOpen, UpdateIntent,
              Audit, NextIntent, Begin, Becomes, Idle, Checked, TypeOK
<1> QED
  BY <1>2, <1>3, <1>4, <1>5, <1>6, <1>7, <1>8 DEF Next, ApiStep

(***************************************************************************)
(* A final status is the provider's.                                       *)
(***************************************************************************)

\* What the provider has said for good it goes on saying.
LEMMA FinalStays ==
    ASSUME [Next]_vars, TypeInv, ChargedOnce,
           NEW i \in Intent, collection[i] \in Collection, collection[i].status \notin Open
    PROVE  collection'[i] = collection[i]
<1>1. ASSUME NEW r \in Request, Charge(r, i)
      PROVE  FALSE
  BY <1>1, NoAnswerIsNone DEF Charge, ChargedOnce
<1> QED
  BY <1>1, CollectionSteps

\* A handler that is to store a status has it from the provider, just now or before.
LEMMA StoreSteps ==
    ASSUME [Next]_vars, TypeInv, NEW r \in Request, req'[r].at = "store"
    PROVE  req'[r] = req[r] \/ StillTrue(req[r], req[r].intent)'
<1>1. CASE UNCHANGED req
  BY <1>1
<1>2. CASE UNCHANGED vars \/ ProviderStep
  BY <1>1, <1>2 DEF vars, ProviderStep, Settle, Receive, CancelInvestment
<1>3. CASE \E w \in Worker : WorkerStep(w) \/ WorkerFault(w)
  BY <1>1, <1>3 DEF WorkerStep, WorkerFault, Process, Poll, Reject, Stop, FindIntent, Ask, RecordAnswer, RefuseAnswer,
              MarkProcessed, EmitResult, MarkFailed, LostAnswer
<1>4. ASSUME NEW q \in Request, q # r, ApiStep(q)
      PROVE  req'[r] = req[r]
  BY <1>4 DEF ApiStep, Scan, SkipIntent, NextIntent, Abandon, Begin, Becomes, CheckPayable, CreateCollection, Charge, StoreIntent,
              AnnounceIntent, CheckOpen, AskForIntent, LookForPayment, UpdateIntent, Compare, Overwrite, InsertPayment, Audit, TypeOK
<1>5. ASSUME NEW i \in Intent, Charge(r, i)
      PROVE  StillTrue(req[r], req[r].intent)'
  <2>1. PICK result :
            /\ collection' = [collection EXCEPT ![i] = result]
            /\ Becomes(r, [at |-> "store", intent |-> i,
                           status |-> IF i \in Traceable THEN result.status ELSE "PENDING"])
    BY <1>5 DEF Charge
  <2> QED
    BY <2>1 DEF Becomes, StillTrue, Open, TypeOK
<1>6. ASSUME NEW i \in Intent, NEW step \in {"update", "insert", "audit"},
             LookForPayment(r, i) \/ Overwrite(r, i) \/ InsertPayment(r, i),
             req' = [req EXCEPT ![r] = [req[r] EXCEPT !.at = step]],
             req[r].at = "look" <=> step = "update"
      PROVE  req'[r].at # "store"
  <2>1. PICK job : job = [req[r] EXCEPT !.at = step] /\ req' = [req EXCEPT ![r] = job]
    BY <1>6
  <2> QED
    BY <1>6, <2>1, LookGoOn, ApiGoOn DEF LookForPayment, Overwrite, InsertPayment, TypeOK
<1>7. ASSUME NEW i \in Intent, LookForPayment(r, i) \/ Overwrite(r, i) \/ InsertPayment(r, i)
      PROVE  req'[r].at # "store"
  <2>1. CASE req' = [req EXCEPT ![r] = Idle]
    BY <2>1 DEF Idle, TypeOK
  <2> QED
    BY <1>6, <1>7, <2>1 DEF LookForPayment, Overwrite, InsertPayment, Becomes
<1>8. CASE \/ Scan(r) \/ SkipIntent(r) \/ Abandon(r)
           \/ \E i \in Intent : \/ CheckPayable(r, i) \/ CreateCollection(r, i) \/ StoreIntent(r, i)
                                \/ AnnounceIntent(r, i) \/ CheckOpen(r, i) \/ AskForIntent(r, i)
                                \/ UpdateIntent(r, i) \/ Compare(r, i) \/ Audit(r, i)
  BY <1>8 DEF Scan, SkipIntent, Abandon, CheckPayable, CreateCollection, StoreIntent, AnnounceIntent, CheckOpen,
              AskForIntent, UpdateIntent, Compare, Audit, NextIntent, Begin, Becomes, Idle, TypeOK
<1> QED
  BY <1>2, <1>3, <1>4, <1>5, <1>7, <1>8 DEF Next, ApiStep

LEMMA StaysTrue ==
    ASSUME [Next]_vars, TypeInv, ChargedOnce, NEW i \in Intent, Charged(i),
           NEW answer, StillTrue(answer, i)
    PROVE  StillTrue(answer, i)'
BY FinalStays DEF StillTrue, TypeOK

LEMMA FinalInit == Init => FinalInv
BY DEF Init, FinalInv, FinalStatusIsTheProviders, Answered, Checked, Idle

\* A final status in the database is the provider's, whoever wrote it last and however old
\* the answer was: an answer that is not open cannot be out of date
\* (webhook-processing.service.ts:107, payments.service.ts:285, 696).
THEOREM FinalStatusIsTrue == Spec => []FinalStatusIsTheProviders
<1>1. TypeInv /\ TypeInv' /\ ChargedOnce /\ FinalInv /\ [Next]_vars => FinalInv'
  <2> SUFFICES ASSUME TypeInv, TypeInv', ChargedOnce, FinalInv, [Next]_vars
               PROVE  FinalInv'
    OBVIOUS
  <2>1. ASSUME NEW w \in Worker, worker'[w].at \in Answered
        PROVE  StillTrue(worker[w].answer, IntentOf(worker[w].event))'
    <3>1. CASE /\ worker'[w].answer \in AnswersAbout(collection[IntentOf(worker'[w].event)])
               /\ worker[w].at = "ask" /\ worker'[w].event = worker[w].event
               /\ UNCHANGED <<collection, webhook>>
      BY <3>1, EventAtHand, AnswerForm DEF StillTrue, IntentOf
    <3>2. CASE /\ worker[w].at \in Answered
               /\ worker'[w].answer = worker[w].answer /\ worker'[w].event = worker[w].event
      <4>1. PICK e \in Event, answer \in Answer : e = worker[w].event /\ answer = worker[w].answer
        BY <3>2, EventAtHand DEF Answered
      <4>2. PICK i \in Intent : i = IntentOf(e)
        BY <3>2, <4>1, EventAtHand DEF Answered
      <4>3. IntentOf(e)' = i /\ Charged(i)
        BY <3>2, <4>1, <4>2, EventAtHand, WebhookSteps DEF Answered
      <4>4. StillTrue(answer, i)
        BY <3>2, <4>1, <4>2 DEF FinalInv
      <4>5. StillTrue(answer, i)'
        BY <4>3, <4>4, StaysTrue
      <4> QED
        BY <3>2, <4>1, <4>3, <4>5 DEF StillTrue, IntentOf
    <3>3. CASE worker'[w] = worker[w]
      BY <2>1, <3>2, <3>3
    <3> QED
      BY <2>1, <3>1, <3>2, <3>3, WorkerSteps
  <2>2. ASSUME NEW r \in Request, req'[r].at \in Checked
        PROVE  StillTrue(req[r].answer, req[r].intent)'
    <3>1. CASE req'[r].answer \in AnswersAbout(collection[req'[r].intent]) /\ UNCHANGED collection
      <4>1. req'[r].intent \in Intent /\ collection[req'[r].intent] \in Collection
        BY <2>2, <3>1, ApiJobForm DEF Checked, TypeOK, RequestsKnown, RequestKnown
      <4> QED
        BY <3>1, <4>1, AnswerForm DEF StillTrue
    <3>2. CASE /\ req[r].at \in Checked
               /\ req'[r].answer = req[r].answer /\ req'[r].intent = req[r].intent
      <4>1. PICK i \in Intent, answer \in Answer : i = req[r].intent /\ answer = req[r].answer
        BY <3>2, ApiJobForm DEF Checked, TypeOK
      <4>2. Charged(i) /\ StillTrue(answer, i)
        BY <3>2, <4>1 DEF FinalInv, Checked, RequestsKnown, RequestKnown
      <4>3. StillTrue(answer, i)'
        BY <4>2, StaysTrue
      <4> QED
        BY <3>2, <4>1, <4>3 DEF StillTrue
    <3>3. CASE req'[r] = req[r]
      BY <2>2, <3>2, <3>3
    <3> QED
      BY <2>2, <3>1, <3>2, <3>3, ApiSteps
  <2>4. ASSUME NEW r \in Request, req'[r].at = "store"
        PROVE  StillTrue(req[r], req[r].intent)'
    <3>1. CASE req'[r] = req[r]
      <4>1. PICK i, job : i \in Intent /\ i = req[r].intent /\ job = req[r]
        BY <2>4, <3>1, ApiJobForm DEF TypeOK
      <4>2. Charged(i) /\ StillTrue(job, i)
        BY <2>4, <3>1, <4>1 DEF FinalInv, RequestsKnown, RequestKnown
      <4>3. StillTrue(job, i)'
        BY <4>1, <4>2, StaysTrue
      <4> QED
        BY <3>1, <4>1, <4>3 DEF StillTrue
    <3> QED
      BY <2>4, <3>1, StoreSteps
  <2>3. ASSUME NEW i \in Intent, intent'[i] \notin Open \cup {"ABSENT"}
        PROVE  collection'[i].status = intent'[i]
    <3>1. CASE intent'[i] = intent[i]
      <4>1. collection[i].status = intent[i]
        BY <2>3, <3>1 DEF FinalInv, FinalStatusIsTheProviders
      <4>2. collection[i] \in Collection
        BY <2>3, <3>1 DEF RowsKnown, TypeOK
      <4> QED
        BY <2>3, <3>1, <4>1, <4>2, FinalStays
    <3>2. ASSUME NEW answer, NEW j \in Intent, Charged(j), StillTrue(answer, j),
                 intent' = [intent EXCEPT ![j] = answer.status], i = j
          PROVE  collection'[i].status = intent'[i]
      <4>1. intent'[i] = answer.status
        BY <3>2 DEF TypeOK
      <4>2. collection[i] \in Collection
        BY <3>2 DEF TypeOK
      <4> QED
        BY <2>3, <3>2, <4>1, <4>2, FinalStays DEF StillTrue
    <3>3. ASSUME NEW answer, NEW j \in Intent, Charged(j), StillTrue(answer, j),
                 intent' = [intent EXCEPT ![j] = answer.status]
          PROVE  collection'[i].status = intent'[i]
      BY <3>1, <3>2, <3>3 DEF TypeOK
    <3>4. ASSUME NEW w \in Worker, NEW e \in Event, At(w, "record", e),
                 Record(IntentOf(e), worker[w].answer, "webhook")
          PROVE  collection'[i].status = intent'[i]
      <4>1. PICK j \in Intent, answer \in Answer : j = IntentOf(e) /\ answer = worker[w].answer
        BY <3>4, EventAtHand DEF At, Answered
      <4>2. Charged(j) /\ StillTrue(answer, j)
        BY <3>4, <4>1, EventAtHand DEF At, Answered, FinalInv
      <4> QED
        BY <3>3, <3>4, <4>1, <4>2 DEF Record
    <3>5. ASSUME NEW r \in Request, req[r].at \in Checked,
                 intent' = [intent EXCEPT ![req[r].intent] = req[r].answer.status]
          PROVE  collection'[i].status = intent'[i]
      <4>1. PICK j \in Intent, answer \in Answer : j = req[r].intent /\ answer = req[r].answer
        BY <3>5, ApiJobForm DEF Checked, TypeOK
      <4>2. Charged(j) /\ StillTrue(answer, j)
        BY <3>5, <4>1 DEF FinalInv, Checked, RequestsKnown, RequestKnown
      <4> QED
        BY <3>3, <3>5, <4>1, <4>2
    <3>6. ASSUME NEW r \in Request, req[r].at = "store",
                 intent' = [intent EXCEPT ![req[r].intent] = req[r].status]
          PROVE  collection'[i].status = intent'[i]
      <4>1. PICK j, job : j \in Intent /\ j = req[r].intent /\ job = req[r]
        BY <3>6, ApiJobForm DEF TypeOK
      <4>2. Charged(j) /\ StillTrue(job, j)
        BY <3>6, <4>1 DEF FinalInv, RequestsKnown, RequestKnown
      <4> QED
        BY <3>3, <3>6, <4>1, <4>2
    <3> QED
      BY <3>1, <3>4, <3>5, <3>6, BookSteps DEF BookStep, books, Record, Checked
  <2> QED
    BY <2>1, <2>2, <2>3, <2>4 DEF FinalInv, FinalStatusIsTheProviders
<1>2. FinalInv => FinalStatusIsTheProviders
  BY DEF FinalInv
<1> QED
  BY <1>1, <1>2, TypeInvHolds, EachIntentIsChargedOnce, FinalInit, PTL DEF Spec

(***************************************************************************)
(* What is announced as done was recorded.                                 *)
(***************************************************************************)

LEMMA DoneInit == Init => DoneInv
BY DEF Init, DoneInv, DoneWasRecorded, NoWebhook, Idle

\* No payment row and no posting is ever removed.
LEMMA RowsStay ==
    ASSUME [Next]_vars
    PROVE  DOMAIN payment \subseteq DOMAIN payment' /\ DOMAIN posting \subseteq DOMAIN posting'
<1>1. ASSUME NEW i, NEW answer, NEW by, Record(i, answer, by)
      PROVE  DOMAIN payment \subseteq DOMAIN payment' /\ DOMAIN posting \subseteq DOMAIN posting'
  <2>1. PICK row : row = Row(i, answer, by)
    OBVIOUS
  <2> QED
    BY <1>1, <2>1, RecordAdds
<1>2. ASSUME NEW row, payment' = Add(payment, row), UNCHANGED posting
      PROVE  DOMAIN payment \subseteq DOMAIN payment' /\ DOMAIN posting \subseteq DOMAIN posting'
  <2>1. OneMore(payment, row, payment')
    BY <1>2, Adds, Zenon
  <2> QED
    BY <1>2, <2>1 DEF OneMore
<1> QED
  BY <1>1, <1>2, BookSteps DEF BookStep, books

\* Recording a success posts it for the investment it confirms; recording anything else
\* confirms nothing.
LEMMA RecordConfirms ==
    ASSUME TypeOK, NEW i \in Intent, NEW answer \in Answer, NEW by, Record(i, answer, by),
           NEW v \in Investment, investment'[v] = "CONFIRMED"
    PROVE  \/ investment[v] = "CONFIRMED"
           \/ \E p \in DOMAIN posting' : p.row.answer.status = "SUCCEEDED" /\ PaysFor[p.row.intent] = v
<1>1. CASE answer.status # "SUCCEEDED" \/ PaysFor[i] # v
  BY <1>1 DEF Record, TypeOK
<1>2. CASE answer.status = "SUCCEEDED" /\ PaysFor[i] = v
  <2>1. PICK row, draft : row = Row(i, answer, by) /\ draft = CollectionDraft(answer.fee)
    OBVIOUS
  <2>2. PICK p : p = [row |-> row, draft |-> draft]
    OBVIOUS
  <2>3. DraftsFor(answer) = {draft}
    BY <1>2, <2>1 DEF DraftsFor, Returned
  <2>4. p \in DOMAIN posting'
    BY <2>1, <2>2, <2>3, RecordAdds
  <2>5. p.row.answer = answer /\ p.row.intent = i
    BY <2>1, <2>2 DEF Row
  <2> QED
    BY <1>2, <2>4, <2>5
<1> QED
  BY <1>1, <1>2

\* An investment is confirmed by a payment only together with its ledger entries, and a
\* webhook is PROCESSED only when its answer was recorded, whatever fails in between
\* (webhook-processing.service.ts:83, 132).
THEOREM WhatIsDoneWasRecorded == Spec => []DoneWasRecorded
<1>1. TypeInv /\ DoneInv /\ [Next]_vars => DoneInv'
  <2> SUFFICES ASSUME TypeInv, DoneInv, [Next]_vars
               PROVE  DoneInv'
    OBVIOUS
  <2>1. ASSUME NEW v \in Investment, investment'[v] = "CONFIRMED"
        PROVE  \E p \in DOMAIN posting' : p.row.answer.status = "SUCCEEDED" /\ PaysFor[p.row.intent] = v
    <3>1. CASE investment[v] = "CONFIRMED"
      BY <3>1, RowsStay DEF DoneInv, DoneWasRecorded
    <3>2. ASSUME NEW w \in Worker, NEW e \in Event, At(w, "record", e),
                 Record(IntentOf(e), worker[w].answer, "webhook")
          PROVE  \E p \in DOMAIN posting' : p.row.answer.status = "SUCCEEDED" /\ PaysFor[p.row.intent] = v
      <4>1. PICK i \in Intent, answer \in Answer : i = IntentOf(e) /\ answer = worker[w].answer
        BY <3>2, EventAtHand DEF At, Answered
      <4> QED
        BY <2>1, <3>1, <3>2, <4>1, RecordConfirms
    <3>3. ASSUME NEW r \in Request, req[r].at = "update", Record(req[r].intent, req[r].answer, "verify")
          PROVE  \E p \in DOMAIN posting' : p.row.answer.status = "SUCCEEDED" /\ PaysFor[p.row.intent] = v
      <4>1. PICK i \in Intent, answer \in Answer : i = req[r].intent /\ answer = req[r].answer
        BY <3>3, ApiJobForm DEF TypeOK
      <4> QED
        BY <2>1, <3>1, <3>3, <4>1, RecordConfirms
    <3>4. ASSUME NEW u \in Investment, investment' = [investment EXCEPT ![u] = "CANCELLED"]
          PROVE  investment[v] = "CONFIRMED"
      BY <2>1, <3>4 DEF TypeOK
    <3> QED
      BY <2>1, <3>1, <3>2, <3>3, <3>4, BookSteps DEF BookStep, books
  <2>2. ASSUME NEW e \in Event, webhook'[e].status = "PROCESSED"
        PROVE  HasWebhookPayment(IntentOf(e))'
    <3>1. Received(e)
      BY <2>2, WebhookSteps
    <3>2. HasWebhookPayment(IntentOf(e))
      BY <2>2, <3>1, WebhookSteps DEF DoneInv, DoneWasRecorded, HasWebhookPayment, At
    <3>3. IntentOf(e)' = IntentOf(e)
      BY <3>1, WebhookSteps
    <3> QED
      BY <3>2, <3>3, RowsStay DEF HasWebhookPayment
  <2>3. ASSUME NEW w \in Worker, worker'[w].at \in {"mark", "emit"}
        PROVE  HasWebhookPayment(IntentOf(worker[w].event))'
    <3>1. /\ worker[w].at \in Answered /\ worker'[w].event = worker[w].event
          /\ \/ worker[w].at \in {"mark", "emit"}
             \/ Record(IntentOf(worker[w].event), worker[w].answer, "webhook")
      BY <2>3, WorkerSteps DEF Answered
    <3>2. PICK e \in Event : e = worker[w].event /\ Received(e)
      BY <3>1, EventAtHand DEF Answered
    <3>3. IntentOf(e)' = IntentOf(e)
      BY <3>2, WebhookSteps
    <3>4. CASE worker[w].at \in {"mark", "emit"}
      <4>1. HasWebhookPayment(IntentOf(e))
        BY <3>2, <3>4 DEF DoneInv
      <4> QED
        BY <3>1, <3>2, <3>3, <4>1, RowsStay DEF HasWebhookPayment, IntentOf
    <3>5. CASE Record(IntentOf(worker[w].event), worker[w].answer, "webhook")
      <4>1. PICK i, answer, row : i = IntentOf(e) /\ answer = worker[w].answer /\ row = Row(i, answer, "webhook")
        OBVIOUS
      <4>2. DOMAIN payment' = DOMAIN payment \cup {row}
        BY <3>2, <3>5, <4>1, RecordAdds
      <4>3. row.by = "webhook" /\ row.intent = i
        BY <4>1 DEF Row
      <4> QED
        BY <3>1, <3>2, <3>3, <4>1, <4>2, <4>3 DEF HasWebhookPayment, IntentOf
    <3> QED
      BY <3>1, <3>4, <3>5
  <2> QED
    BY <2>1, <2>2, <2>3 DEF DoneInv, DoneWasRecorded, HasWebhookPayment
<1>2. DoneInv => DoneWasRecorded
  BY DEF DoneInv
<1> QED
  BY <1>1, <1>2, TypeInvHolds, DoneInit, PTL DEF Spec

(***************************************************************************)
(* The ledger follows the payments.                                        *)
(***************************************************************************)

LEMMA LedgerInit == Init => LedgerFollowsPayments
BY DEF Init, LedgerFollowsPayments

\* A recorded answer adds as many postings as payments: where the row was new there was no
\* posting for it, and where it was not there were as many of each.
LEMMA RecordKeepsLedger ==
    ASSUME LedgerFollowsPayments, NEW i, NEW answer, NEW by \in {"webhook", "verify"}, Record(i, answer, by)
    PROVE  LedgerFollowsPayments'
<1>1. PICK row : row = Row(i, answer, by)
  OBVIOUS
<1>2. row.answer = answer /\ row.by # "reconcile"
  BY <1>1 DEF Row
<1>3. OneMore(payment, row, payment')
  BY <1>1, RecordPosts
<1>4. \A draft \in DraftsFor(answer) : Sum(draft.debit) = Sum(draft.credit)
  BY DEF Record, Posts, IsBalanced
<1>5. CASE DraftsFor(answer) = {} /\ UNCHANGED posting
  BY <1>2, <1>3, <1>5 DEF OneMore, LedgerFollowsPayments
<1>6. ASSUME NEW draft, DraftsFor(answer) = {draft}, OneMore(posting, [row |-> row, draft |-> draft], posting')
      PROVE  LedgerFollowsPayments'
  <2>1. PICK p : p = [row |-> row, draft |-> draft]
    OBVIOUS
  <2>2. OneMore(posting, p, posting') /\ p.row = row /\ p.draft = draft
    BY <1>6, <2>1
  <2>3. Count(posting, p) = Count(payment, row)
    <3>1. CASE row \in DOMAIN payment
      BY <1>2, <1>6, <2>1, <3>1 DEF LedgerFollowsPayments, Count
    <3>2. CASE row \notin DOMAIN payment
      BY <2>2, <3>2 DEF LedgerFollowsPayments, Count
    <3> QED
      BY <3>1, <3>2
  <2>4. Count(posting', p) = payment'[row]
    <3>1. Count(posting', p) = IF Count(posting, p) < Many THEN Count(posting, p) + 1 ELSE Many
      BY <2>2, OneMoreCounts
    <3>2. payment'[row] = IF Count(payment, row) < Many THEN Count(payment, row) + 1 ELSE Many
      BY <1>3 DEF OneMore
    <3> QED
      BY <2>3, <3>1, <3>2
  <2>5. ASSUME NEW q \in DOMAIN posting'
        PROVE  /\ q.row \in DOMAIN payment' /\ q.row.by # "reconcile" /\ q.draft \in DraftsFor(q.row.answer)
               /\ Sum(q.draft.debit) = Sum(q.draft.credit)
    BY <1>2, <1>3, <1>4, <1>6, <2>2, <2>5 DEF OneMore, LedgerFollowsPayments
  <2>6. ASSUME NEW other \in DOMAIN payment', other.by # "reconcile", NEW d \in DraftsFor(other.answer)
        PROVE  Count(posting', [row |-> other, draft |-> d]) = payment'[other]
    <3>1. CASE other = row
      BY <1>2, <1>6, <2>1, <2>4, <2>6, <3>1
    <3>2. CASE other # row
      <4>1. PICK q : q = [row |-> other, draft |-> d]
        OBVIOUS
      <4>2. q # p
        BY <2>1, <3>2, <4>1
      <4>3. Count(posting', q) = Count(posting, q)
        BY <2>2, <4>2, OneMoreCounts
      <4>4. other \in DOMAIN payment /\ payment'[other] = payment[other]
        BY <1>3, <2>6, <3>2 DEF OneMore
      <4>5. Count(posting, q) = payment[other]
        BY <2>6, <4>1, <4>4 DEF LedgerFollowsPayments
      <4> QED
        BY <4>1, <4>3, <4>4, <4>5
    <3> QED
      BY <3>1, <3>2
  <2> QED
    BY <2>5, <2>6 DEF LedgerFollowsPayments
<1> QED
  BY <1>1, <1>5, <1>6, RecordPosts

\* A row that reconciliation inserts has no posting and needs none.
LEMMA InsertKeepsLedger ==
    ASSUME LedgerFollowsPayments, NEW row, row.by = "reconcile", payment' = Add(payment, row), UNCHANGED posting
    PROVE  LedgerFollowsPayments'
<1>1. OneMore(payment, row, payment')
  BY Adds, Zenon
<1> QED
  BY <1>1 DEF OneMore, LedgerFollowsPayments

\* As often as a worker or a verification records an answer its draft is posted, nothing else
\* is posted, and every posting balances (ledger-posting.service.ts:149).
THEOREM LedgerIsFaithful == Spec => []LedgerFollowsPayments
<1>1. LedgerFollowsPayments /\ [Next]_vars => LedgerFollowsPayments'
  <2> SUFFICES ASSUME LedgerFollowsPayments, [Next]_vars
               PROVE  LedgerFollowsPayments'
    OBVIOUS
  <2>1. CASE UNCHANGED <<payment, posting>>
    BY <2>1 DEF LedgerFollowsPayments, Count
  <2>2. ASSUME NEW w \in Worker, NEW e \in Event, Record(IntentOf(e), worker[w].answer, "webhook")
        PROVE  LedgerFollowsPayments'
    <3>1. PICK i, answer : i = IntentOf(e) /\ answer = worker[w].answer
      OBVIOUS
    <3> QED
      BY <2>2, <3>1, RecordKeepsLedger
  <2>3. ASSUME NEW r \in Request, Record(req[r].intent, req[r].answer, "verify")
        PROVE  LedgerFollowsPayments'
    <3>1. PICK i, answer : i = req[r].intent /\ answer = req[r].answer
      OBVIOUS
    <3> QED
      BY <2>3, <3>1, RecordKeepsLedger
  <2>4. ASSUME NEW r \in Request, payment' = Add(payment, Row(req[r].intent, req[r].answer, "reconcile")),
               UNCHANGED posting
        PROVE  LedgerFollowsPayments'
    <3>1. PICK row : row = Row(req[r].intent, req[r].answer, "reconcile")
      OBVIOUS
    <3>2. row.by = "reconcile"
      BY <3>1 DEF Row
    <3> QED
      BY <2>4, <3>1, <3>2, InsertKeepsLedger
  <2> QED
    BY <2>1, <2>2, <2>3, <2>4, BookSteps DEF BookStep, books
<1> QED
  BY <1>1, LedgerInit, PTL DEF Spec
=============================================================================
