--------------------------- MODULE KafkaConsumer ---------------------------
(***************************************************************************)
(* KafkaConsumerService (libs/events): one partition of one topic, read by *)
(* the instances of a consumer group.  A message whose handler throws goes *)
(* to the dead letter topic; when that fails three times the error goes to *)
(* kafkajs, which does not move past the message.                          *)
(*                                                                         *)
(* kafkajs itself is external: it calls eachMessage for one message after  *)
(* the other, commits now and then how far it has come, and after a crash  *)
(* or a rebalance starts from what was committed; a group that has         *)
(* committed nothing starts at the end of the log (the service subscribes  *)
(* with fromBeginning: false).  An instance that has lost the partition    *)
(* still ends the call it is in.                                           *)
(***************************************************************************)
EXTENDS Naturals

CONSTANTS
    Consumer,       \* instances of the group
    MaxLog,         \* messages of the partition (a bound of the model)
    MaxRetries      \* attempts to send a dead letter (3)

VARIABLES
    log,            \* messages 1 .. log are in the partition
    committed,      \* the group's offset: messages up to it are not delivered again; 0: none yet
    begun,          \* where the group last began without an offset (not stored anywhere)
    owner,          \* the instance that has the partition
    position,       \* how far the owner has come since it got the partition
    job,            \* the message each instance handles, and the attempts to bury it
    handled,        \* messages whose handler came to its end
    dead            \* messages in the dead letter topic

vars == <<log, committed, begun, owner, position, job, handled, dead>>

Waiting == [at |-> "wait"]

(***************************************************************************)
(* kafkajs and the producers.                                              *)
(***************************************************************************)

Produce ==
    /\ log < MaxLog
    /\ log' = log + 1
    /\ UNCHANGED <<committed, begun, owner, position, job, handled, dead>>

Deliver(c) ==
    /\ c = owner
    /\ job[c] = Waiting
    /\ position < log
    /\ job' = [job EXCEPT ![c] = [at |-> "handle", message |-> position + 1]]
    /\ UNCHANGED <<log, committed, begun, owner, position, handled, dead>>

\* Only what was processed is committed.
CommitOffset ==
    /\ committed < position /\ begun < position
    /\ committed' = position
    /\ UNCHANGED <<log, begun, owner, position, job, handled, dead>>

\* fromBeginning: false.
Start ==
    IF committed = 0
    THEN position' = log /\ begun' = log
    ELSE position' = committed /\ UNCHANGED begun

Rebalance(c) ==
    /\ c # owner
    /\ owner' = c
    /\ Start
    /\ UNCHANGED <<log, committed, job, handled, dead>>

Crash(c) ==
    /\ job' = [job EXCEPT ![c] = Waiting]
    /\ IF c = owner THEN Start ELSE UNCHANGED <<position, begun>>
    /\ UNCHANGED <<log, committed, owner, handled, dead>>

(***************************************************************************)
(* eachMessage and sendToDlqWithRetry.                                     *)
(***************************************************************************)

\* eachMessage returns: the owner is past the message.
Return(c) ==
    /\ job' = [job EXCEPT ![c] = Waiting]
    /\ position' = IF c = owner /\ job[c].message = position + 1 THEN position + 1 ELSE position

Handle(c) ==
    /\ job[c].at = "handle"
    /\ handled' = handled \cup {job[c].message}
    /\ Return(c)
    /\ UNCHANGED <<log, committed, begun, owner, dead>>

\* Whatever the handler did until it threw.
HandlerThrows(c) ==
    /\ job[c].at = "handle"
    /\ job' = [job EXCEPT ![c] = [at |-> "bury", message |-> @.message, attempt |-> 1]]
    /\ UNCHANGED <<log, committed, begun, owner, position, handled, dead>>

SendToDlq(c) ==
    /\ job[c].at = "bury"
    /\ dead' = dead \cup {job[c].message}
    /\ Return(c)
    /\ UNCHANGED <<log, committed, begun, owner, handled>>

\* Faulty variant: after the last attempt the error is logged, and that is all.
SendFailsQuietly(c) ==
    /\ job[c].at = "bury"
    /\ IF job[c].attempt = MaxRetries
       THEN Return(c)
       ELSE /\ job' = [job EXCEPT ![c].attempt = @ + 1]
            /\ UNCHANGED position
    /\ UNCHANGED <<log, committed, begun, owner, handled, dead>>

\* After the last attempt the error is thrown: kafkajs delivers the message again.
SendFails(c) ==
    /\ job[c].at = "bury"
    /\ IF job[c].attempt = MaxRetries
       THEN job' = [job EXCEPT ![c] = Waiting]
       ELSE job' = [job EXCEPT ![c].attempt = @ + 1]
    /\ UNCHANGED <<log, committed, begun, owner, position, handled, dead>>

\* The group starts for the first time at a topic others have written to.
Init ==
    /\ log \in 0 .. MaxLog
    /\ committed = 0
    /\ begun = log
    /\ owner \in Consumer
    /\ position = log
    /\ job = [c \in Consumer |-> Waiting]
    /\ handled = {}
    /\ dead = {}

Next ==
    \/ Produce \/ CommitOffset
    \/ \E c \in Consumer :
           \/ Deliver(c) \/ Rebalance(c) \/ Crash(c)
           \/ Handle(c) \/ HandlerThrows(c) \/ SendToDlq(c) \/ SendFails(c)

Spec == Init /\ [][Next]_vars

\* Instances are started again, the partition stays with one long enough now and then, and
\* it is not every time that both the handler and the dead letter topic fail.
FairSpec ==
    /\ Spec
    /\ SF_vars(\E c \in Consumer : Deliver(c))
    /\ SF_vars(\E c \in Consumer : c = owner /\ (Handle(c) \/ SendToDlq(c)))
    /\ SF_vars(CommitOffset)

(***************************************************************************)
(* Properties.                                                             *)
(***************************************************************************)

Message == 1 .. MaxLog
Settled == handled \cup dead

TypeOK ==
    /\ log \in 0 .. MaxLog
    /\ begun \in 0 .. log /\ position \in begun .. log
    /\ committed = 0 \/ committed \in begun .. position
    /\ owner \in Consumer
    /\ job \in [Consumer -> {Waiting} \cup [at : {"handle"}, message : Message]
                   \cup [at : {"bury"}, message : Message, attempt : 1 .. MaxRetries]]
    /\ Settled \subseteq 1 .. log

\* From where it began, the group never passes over a message that was neither handled nor
\* buried, and once it has committed an offset it never begins anew: whichever instance
\* crashes or loses the partition in the middle of a message, and however often the dead
\* letter topic fails (kafka-consumer.service.ts:58-76, 97-118).  What it had not handled
\* when it stopped before its first commit, it passes over (line 54).
NothingPassedOver == begun + 1 .. position \subseteq Settled

\* Once the group has committed an offset, every message from where it began is handled or
\* buried in the end.
MessagesAreSettled ==
    \A m \in Message : (m > begun /\ m <= log /\ committed # 0) ~> m \in Settled

=============================================================================
