---------------------------- MODULE OutboxProofs ----------------------------
(***************************************************************************)
(* The safety of the outbox for any number of rows and publishers, with    *)
(* every fault of the model: nothing that did not commit reaches Kafka,    *)
(* and nothing is marked published or queued before it is there.           *)
(***************************************************************************)
EXTENDS Outbox, WellFoundedInduction, TLAPS

\* What a publisher carries: only stored events, and past publish only an event
\* that Kafka has.
JobBacked(job) ==
    /\ \A e \in job.batch : Stored(e)
    /\ job.pc # "idle" => Stored(job.event)
    /\ job.pc \in {"mark", "enqueue"} => job.event \in log

OutboxInv ==
    /\ TypeOK
    /\ SentFirst
    /\ \A e \in log : Stored(e)
    /\ \A p \in Publisher : JobBacked(publisher[p])

\* The oldest event of a batch is one of the batch.
LEMMA OldestInBatch ==
    ASSUME NEW S, S \subseteq Nat, S # {}
    PROVE  Min(S) \in S
<1>1. PICK x \in S : \A y \in S : ~ (<<y, x>> \in OpToRel(<, Nat))
  BY NatLessThanWellFounded, WFMin
<1>2. \A y \in S : x =< y
  <2>1. SUFFICES ASSUME NEW y \in S, ~ (x =< y)
                 PROVE  FALSE
    OBVIOUS
  <2>2. x \in Nat /\ y \in Nat /\ y < x
    BY <2>1
  <2>3. <<y, x>> \in OpToRel(<, Nat)
    BY <2>2 DEF OpToRel
  <2>4. QED
    BY <1>1, <2>3
<1>3. QED
  BY <1>2 DEF Min

\* Taking the next event of a batch of stored events.
LEMMA StartBacked ==
    ASSUME NEW p \in Publisher, NEW batch \in SUBSET Event,
           publisher \in [Publisher -> Job], Start(p, batch),
           \A e \in batch : Stored(e)', \A q \in Publisher \ {p} : JobBacked(publisher[q])'
    PROVE  publisher' \in [Publisher -> Job] /\ \A q \in Publisher : JobBacked(publisher[q])'
<1>1. CASE batch = {}
  <2>1. publisher' = [publisher EXCEPT ![p] = Idle]
    BY <1>1 DEF Start
  <2>2. publisher'[p] = Idle /\ publisher' \in [Publisher -> Job]
    BY <2>1 DEF Job
  <2>3. JobBacked(publisher[p])'
    BY <2>2 DEF JobBacked, Idle
  <2>4. QED
    BY <2>2, <2>3
<1>2. CASE batch # {}
  <2> DEFINE next == [pc |-> "publish", batch |-> batch \ {Min(batch)}, event |-> Min(batch)]
  <2>1. Min(batch) \in batch
    BY <1>2, OldestInBatch, OutboxAssumption
  <2>2. publisher' = [publisher EXCEPT ![p] = next]
    BY <1>2 DEF Start
  <2>3. next \in Job
    BY <2>1 DEF Job
  <2>4. publisher'[p] = next /\ publisher' \in [Publisher -> Job]
    BY <2>2, <2>3
  <2>5. JobBacked(publisher[p])'
    BY <2>1, <2>4 DEF JobBacked
  <2>6. QED
    BY <2>4, <2>5
<1>3. QED
  BY <1>1, <1>2

LEMMA OutboxInit == Init => OutboxInv
BY DEF Init, OutboxInv, TypeOK, SentFirst, JobBacked, Stored, Queued, NoRow, NoDispatch, Idle, Job,
       OutboxStatus

\* A stored row stays stored and Kafka forgets nothing: a job that stays as it is
\* stays backed.
Kept == (\A e \in Event : Stored(e) => Stored(e)') /\ log \subseteq log'

LEMMA KeptJob ==
    ASSUME OutboxInv, Kept, NEW q \in Publisher, publisher'[q] = publisher[q]
    PROVE  JobBacked(publisher[q])'
<1>1. publisher[q] \in Job /\ JobBacked(publisher[q])
  BY DEF OutboxInv, TypeOK
<1>2. QED
  BY <1>1 DEF Kept, JobBacked, Job, Idle

\* Writing one outbox row keeps the rows stored.
LEMMA WriteKept ==
    ASSUME OutboxInv, NEW e \in Event, UNCHANGED log,
           NEW row \in [status : OutboxStatus, due : BOOLEAN],
           outbox' = [outbox EXCEPT ![e] = row]
    PROVE  Kept /\ Stored(e)' /\ outbox' \in [Event -> [status : {"ABSENT"} \cup OutboxStatus, due : BOOLEAN]]
BY DEF OutboxInv, TypeOK, Kept, Stored, OutboxStatus

\* The events of the table: a row is created, its retry falls due.
LEMMA CreateStep == ASSUME OutboxInv, NEW e \in Event, Create(e) PROVE OutboxInv'
<1> USE DEF Create
<1>1. NewRow \in [status : OutboxStatus, due : BOOLEAN]
  BY DEF NewRow, OutboxStatus
<1>2. Kept /\ TypeOK'
  BY <1>1, WriteKept DEF OutboxInv, TypeOK
<1>3. SentFirst'
  BY DEF OutboxInv, TypeOK, SentFirst, NewRow, Queued
<1>4. \A f \in log' : Stored(f)'
  BY <1>2 DEF OutboxInv, TypeOK, Kept
<1>5. \A p \in Publisher : JobBacked(publisher[p])'
  BY <1>2, KeptJob
<1>6. QED
  BY <1>2, <1>3, <1>4, <1>5 DEF OutboxInv

LEMMA RetryDueStep == ASSUME OutboxInv, NEW e \in Event, RetryDue(e) PROVE OutboxInv'
<1> USE DEF RetryDue
<1>1. Kept /\ TypeOK'
  BY DEF OutboxInv, TypeOK, Kept, Stored
<1>2. SentFirst'
  BY DEF OutboxInv, TypeOK, SentFirst, Queued
<1>3. \A f \in log' : Stored(f)'
  BY <1>1 DEF OutboxInv, TypeOK, Kept
<1>4. \A p \in Publisher : JobBacked(publisher[p])'
  BY <1>1, KeptJob
<1>5. QED
  BY <1>1, <1>2, <1>3, <1>4 DEF OutboxInv

\* What the calls do to the tables and to Kafka, whoever makes them.
TablesInv == 
    /\ outbox \in [Event -> [status : {"ABSENT"} \cup OutboxStatus, due : BOOLEAN]]
    /\ log \subseteq Event
    /\ dispatch \in [Event -> [status : {"ABSENT", "PENDING"}, due : BOOLEAN, expired : BOOLEAN]]
    /\ SentFirst
    /\ \A e \in log : Stored(e)

LEMMA SentEffect ==
    ASSUME OutboxInv, NEW e \in Event, Stored(e), Sent(e)
    PROVE  Kept /\ TablesInv' /\ e \in log'
BY DEF OutboxInv, TypeOK, SentFirst, Sent, Kept, TablesInv, Stored, Queued

LEMMA MarkedEffect ==
    ASSUME OutboxInv, NEW e \in Event, e \in log, MarkedPublished(e)
    PROVE  Kept /\ TablesInv' /\ e \in log'
BY DEF OutboxInv, TypeOK, SentFirst, MarkedPublished, Kept, TablesInv, Stored, Queued, OutboxStatus

LEMMA EnqueuedEffect ==
    ASSUME OutboxInv, NEW e \in Event, e \in log, Enqueued(e)
    PROVE  Kept /\ TablesInv' /\ e \in log'
BY DEF OutboxInv, TypeOK, SentFirst, Enqueued, NewDispatch, Kept, TablesInv,
       Stored, Queued

LEMMA FailedEffect ==
    ASSUME OutboxInv, NEW e \in Event, UNCHANGED <<log, dispatch>>,
           outbox' = [outbox EXCEPT ![e] = [status |-> "FAILED", due |-> FALSE]]
    PROVE  Kept /\ TablesInv'
<1>1. [status |-> "FAILED", due |-> FALSE] \in [status : OutboxStatus, due : BOOLEAN]
  BY DEF OutboxStatus
<1>2. Kept /\ outbox' \in [Event -> [status : {"ABSENT"} \cup OutboxStatus, due : BOOLEAN]]
  BY <1>1, WriteKept
<1>3. SentFirst'
  BY DEF OutboxInv, TypeOK, SentFirst, Queued
<1>4. QED
  BY <1>2, <1>3 DEF OutboxInv, TypeOK, Kept, TablesInv

\* A publisher that holds an event and goes on to another step of its handler.
LEMMA GotoStep ==
    ASSUME OutboxInv, Kept, TablesInv', NEW p \in Publisher, publisher[p].pc # "idle",
           NEW pc \in {"publish", "mark", "enqueue", "fail"}, Goto(p, pc),
           pc \in {"mark", "enqueue"} => publisher[p].event \in log'
    PROVE  OutboxInv'
<1>1. publisher[p] \in Job \ {Idle} /\ JobBacked(publisher[p])
  BY DEF OutboxInv, TypeOK, Idle
<1>2. publisher' \in [Publisher -> Job]
  BY <1>1 DEF OutboxInv, TypeOK, Goto, Job
<1>3. JobBacked(publisher[p])'
  <2>1. publisher'[p] = [publisher[p] EXCEPT !.pc = pc]
    BY DEF OutboxInv, TypeOK, Goto
  <2>2. publisher[p].batch \subseteq Event /\ publisher[p].event \in Event
    BY <1>1 DEF Job
  <2>3. QED
    BY <1>1, <2>1, <2>2 DEF JobBacked, Kept, Job
<1>4. \A q \in Publisher \ {p} : JobBacked(publisher[q])'
  BY KeptJob DEF Goto, OutboxInv, TypeOK
<1>5. QED
  BY <1>2, <1>3, <1>4 DEF OutboxInv, TypeOK, TablesInv

\* A publisher that takes its next event, or a first one.
LEMMA StartStep ==
    ASSUME OutboxInv, Kept, TablesInv', NEW p \in Publisher,
           NEW batch \in SUBSET Event, \A e \in batch : Stored(e), Start(p, batch)
    PROVE  OutboxInv'
<1>1. \A q \in Publisher \ {p} : JobBacked(publisher[q])'
  BY KeptJob DEF Start, OutboxInv, TypeOK
<1>2. publisher' \in [Publisher -> Job] /\ \A q \in Publisher : JobBacked(publisher[q])'
  BY <1>1, StartBacked DEF OutboxInv, TypeOK, Kept
<1>3. QED
  BY <1>2 DEF OutboxInv, TypeOK, TablesInv

\* What a publisher at a step of its handler holds.
LEMMA HeldEvent ==
    ASSUME OutboxInv, NEW p \in Publisher, publisher[p].pc # "idle"
    PROVE  /\ publisher[p].batch \subseteq Event /\ \A e \in publisher[p].batch : Stored(e)
           /\ publisher[p].event \in Event /\ Stored(publisher[p].event)
           /\ publisher[p].pc \in {"mark", "enqueue"} => publisher[p].event \in log
<1>1. publisher[p] \in Job /\ JobBacked(publisher[p])
  BY DEF OutboxInv, TypeOK
<1>2. QED
  BY <1>1 DEF Job, Idle, JobBacked

LEMMA ProgressStep ==
    ASSUME OutboxInv, NEW p \in Publisher, NEW e \in Event, Progress(p, e)
    PROVE  OutboxInv'
<1>1. publisher[p].pc # "idle" /\ publisher[p].event = e
  BY DEF Progress, Publish, MarkPublished, Enqueue, MarkFailed, At, Holds
<1>2. /\ publisher[p].batch \subseteq Event /\ \A f \in publisher[p].batch : Stored(f)
      /\ Stored(e)
      /\ publisher[p].pc \in {"mark", "enqueue"} => e \in log
  BY <1>1, HeldEvent
<1>3. CASE Publish(p, e)
  BY <1>1, <1>2, <1>3, SentEffect, GotoStep DEF Publish
<1>4. CASE MarkPublished(p, e)
  BY <1>1, <1>2, <1>4, MarkedEffect, GotoStep DEF MarkPublished, At
<1>5. CASE Enqueue(p, e)
  BY <1>1, <1>2, <1>5, EnqueuedEffect, StartStep DEF Enqueue, At, NextEvent
<1>6. CASE MarkFailed(p, e)
  BY <1>1, <1>2, <1>6, FailedEffect, StartStep DEF MarkFailed, NextEvent
<1>7. QED
  BY <1>3, <1>4, <1>5, <1>6 DEF Progress

LEMMA LostAnswerStep ==
    ASSUME OutboxInv, NEW p \in Publisher, NEW e \in Event, LostAnswer(p, e)
    PROVE  OutboxInv'
<1>1. publisher[p].pc # "idle" /\ publisher[p].event = e /\ Goto(p, "fail")
  BY DEF LostAnswer, At, Holds
<1>2. Stored(e) /\ (publisher[p].pc \in {"mark", "enqueue"} => e \in log)
  BY <1>1, HeldEvent
<1>3. Kept /\ TablesInv'
  BY <1>1, <1>2, SentEffect, MarkedEffect, EnqueuedEffect DEF LostAnswer, At
<1>4. QED
  BY <1>1, <1>3, GotoStep

\* Steps that leave the tables and Kafka alone.
LEMMA SameTables ==
    ASSUME OutboxInv, UNCHANGED <<outbox, log, dispatch>>
    PROVE  Kept /\ TablesInv'
BY DEF OutboxInv, TypeOK, SentFirst, Kept, TablesInv, Stored, Queued

LEMMA OutboxStep == OutboxInv /\ [Next]_vars => OutboxInv'
<1> SUFFICES ASSUME OutboxInv, [Next]_vars PROVE OutboxInv'
  OBVIOUS
<1>1. CASE \E e \in Event : Create(e) \/ RetryDue(e)
  BY <1>1, CreateStep, RetryDueStep
<1>2. ASSUME NEW p \in Publisher, FindPending(p) PROVE OutboxInv'
  <2>1. Kept /\ TablesInv'
    BY <1>2, SameTables DEF FindPending
  <2>2. Ready \in SUBSET Event /\ \A e \in Ready : Stored(e)
    BY DEF Ready, Stored
  <2>3. QED
    BY <1>2, <2>1, <2>2, StartStep DEF FindPending
<1>3. ASSUME NEW p \in Publisher, Throw(p) PROVE OutboxInv'
  BY <1>3, SameTables, GotoStep DEF Throw
<1>4. ASSUME NEW p \in Publisher, Stop(p) PROVE OutboxInv'
  <2>1. Kept /\ TablesInv'
    BY <1>4, SameTables DEF Stop
  <2>2. Start(p, {})
    BY <1>4 DEF Start, Stop
  <2>3. QED
    BY <2>1, <2>2, StartStep
<1>5. CASE UNCHANGED vars
  BY <1>5 DEF vars, OutboxInv, TypeOK, SentFirst, JobBacked, Stored, Queued
<1>6. QED
  BY <1>1, <1>2, <1>3, <1>4, <1>5, ProgressStep, LostAnswerStep DEF Next, Step

THEOREM OutboxInvariant == Spec => []OutboxInv
BY OutboxInit, OutboxStep, PTL DEF Spec

\* Every outbox row, Kafka event, queue row and job keeps its type, for any number
\* of rows and publishers.
THEOREM OutboxTypeCorrect == Spec => []TypeOK
BY OutboxInvariant, PTL DEF OutboxInv

\* Whatever publishers share, repeat or leave unfinished, an event that is marked
\* PUBLISHED or queued for notification is in Kafka (OutboxPublisherService.processEvent).
THEOREM SentFirstHolds == Spec => []SentFirst
BY OutboxInvariant, PTL DEF OutboxInv

(***************************************************************************)
(* The outbox keeps the safety half of AtLeastOnce: creating a row is      *)
(* Accept, publishing it is Deliver, everything else is invisible.         *)
(***************************************************************************)
Accepted == {e \in Event : Stored(e)}

\* Writing a row that is stored already is invisible, as long as Kafka stays.
LEMMA Invisible ==
    ASSUME OutboxInv, UNCHANGED log,
           \A e \in Event : Stored(e)' <=> Stored(e)
    PROVE  UNCHANGED <<Accepted, log>>
BY DEF Accepted

LEMMA DeliverStep ==
    ASSUME OutboxInv, NEW e \in Event, Stored(e), Sent(e)
    PROVE  Channel!Deliver(e)
BY DEF Sent, Channel!Deliver, Stored

LEMMA MarkedInvisible ==
    ASSUME OutboxInv, NEW e \in Event, Stored(e), MarkedPublished(e)
    PROVE  UNCHANGED <<Accepted, log>>
<1>1. \A f \in Event : Stored(f)' <=> Stored(f)
  BY DEF MarkedPublished, OutboxInv, TypeOK, Stored
<1>2. QED
  BY <1>1, Invisible DEF MarkedPublished

LEMMA PublisherStep ==
    ASSUME OutboxInv, NEW p \in Publisher, Step(p) \/ Stop(p)
    PROVE  Channel!Next \/ UNCHANGED <<Accepted, log>>
<1>1. CASE UNCHANGED <<outbox, log>>
  BY <1>1, Invisible DEF Stored
<1>2. ASSUME NEW e \in Event, Progress(p, e) \/ LostAnswer(p, e)
      PROVE  Channel!Next \/ UNCHANGED <<Accepted, log>>
  <2>1. publisher[p].pc # "idle" /\ publisher[p].event = e
    BY <1>2 DEF Progress, Publish, MarkPublished, Enqueue, MarkFailed, LostAnswer, At, Holds
  <2>2. Stored(e)
    BY <2>1, HeldEvent
  <2>3. CASE Sent(e)
    BY <2>2, <2>3, DeliverStep DEF Channel!Next
  <2>4. CASE MarkedPublished(e)
    BY <2>2, <2>4, MarkedInvisible
  <2>5. CASE Enqueued(e)
    BY <2>5, <1>1 DEF Enqueued
  <2>6. CASE MarkFailed(p, e)
    <3>1. \A f \in Event : Stored(f)' <=> Stored(f)
      BY <2>2, <2>6 DEF MarkFailed, OutboxInv, TypeOK, Stored
    <3>2. QED
      BY <2>6, <3>1, Invisible DEF MarkFailed
  <2>7. QED
    BY <1>2, <2>3, <2>4, <2>5, <2>6 DEF Progress, Publish, MarkPublished, Enqueue, LostAnswer
<1>3. CASE FindPending(p) \/ Throw(p) \/ Stop(p)
  BY <1>1, <1>3 DEF FindPending, Throw, Stop
<1>4. QED
  BY <1>2, <1>3 DEF Step

LEMMA ChannelStep == OutboxInv /\ [Next]_vars => [Channel!Next]_<<Accepted, log>>
<1> SUFFICES ASSUME OutboxInv, [Next]_vars PROVE Channel!Next \/ UNCHANGED <<Accepted, log>>
  OBVIOUS
<1>1. ASSUME NEW e \in Event, Create(e) PROVE Channel!Next
  <2>1. Accepted' = Accepted \cup {e}
    BY <1>1 DEF Create, Accepted, Stored, NewRow, OutboxInv, TypeOK
  <2>2. QED
    BY <1>1, <2>1 DEF Create, Channel!Next, Channel!Accept, Accepted
<1>2. ASSUME NEW e \in Event, RetryDue(e) PROVE UNCHANGED <<Accepted, log>>
  <2>1. \A f \in Event : Stored(f)' <=> Stored(f)
    BY <1>2 DEF RetryDue, OutboxInv, TypeOK, Stored
  <2>2. QED
    BY <1>2, <2>1, Invisible DEF RetryDue
<1>3. CASE UNCHANGED vars
  BY <1>3, Invisible DEF vars, Stored
<1>4. QED
  BY <1>1, <1>2, <1>3, PublisherStep DEF Next

\* Kafka receives only events whose transaction committed, and neither the outbox
\* nor Kafka takes one back: OutboxService and the publishers implement the safety
\* half of AtLeastOnce.
THEOREM OnlyCommittedHolds == Spec => OnlyCommitted
<1>1. Init => Channel!Init
  BY DEF Init, Channel!Init, Stored, NoRow
<1>2. OutboxInv /\ [Next]_vars => [Channel!Next]_Channel!vars
  BY ChannelStep DEF Channel!vars, Accepted
<1>3. QED
  BY <1>1, <1>2, OutboxInvariant, PTL DEF Spec, OnlyCommitted, Channel!Safe
=============================================================================
