----------------------------- MODULE Messaging -----------------------------
(***************************************************************************)
(* Messages between users: MessagingService of messaging.module.ts.  A     *)
(* conversation is not stored: the list of conversations is made from the  *)
(* newest messages by one pass over them.  A message never changes but for *)
(* readAt, and is never removed, so that the look-up of markAsRead cannot  *)
(* be out of date when the update is made.                                 *)
(***************************************************************************)
EXTENDS Naturals, Sequences, FiniteSets, FiniteSetsExt

CONSTANTS
    Writer,         \* users
    MaxMessages,    \* messages sent (a bound of the model)
    FetchLimit      \* messages that findConversations fetches (200 in the code)

VARIABLE message    \* the messages in the order of createdAt

vars == <<message>>

Mail == [from : Writer, to : Writer, read : BOOLEAN]

\* A user may write to himself.
Send(u, v) ==
    /\ Len(message) < MaxMessages
    /\ message' = Append(message, [from |-> u, to |-> v, read |-> FALSE])

\* The recipient only.
MarkAsRead(u, i) ==
    /\ message[i].to = u
    /\ message' = [message EXCEPT ![i].read = TRUE]

Parties(i) == {message[i].from, message[i].to}

\* Messages a user sent or received after message i.
NewerThan(u, i) == {j \in DOMAIN message : j > i /\ u \in Parties(j)}

\* The newest FetchLimit messages a user sent or received.
Fetched(u) == {i \in DOMAIN message : u \in Parties(i) /\ Cardinality(NewerThan(u, i)) < FetchLimit}

Partner(u, i) == IF message[i].from = u THEN message[i].to ELSE message[i].from

\* Faulty variant: a later message of the pass replaces the one found before.
ConversationsByLast(u) ==
    [v \in {Partner(u, i) : i \in Fetched(u)} |-> Min({i \in Fetched(u) : Partner(u, i) = v})]

\* findConversations: the first message with each partner that a pass from the newest on meets.
FindConversations(u) ==
    [v \in {Partner(u, i) : i \in Fetched(u)} |-> Max({i \in Fetched(u) : Partner(u, i) = v})]

\* findConversation
FindConversation(u, v) == {i \in DOMAIN message : Parties(i) = {u, v}}

\* getUnreadCount
UnreadMail(u) == Cardinality({i \in DOMAIN message : message[i].to = u /\ ~message[i].read})

Init == message = <<>>

Next ==
    \E u \in Writer :
        \/ \E v \in Writer : Send(u, v)
        \/ \E i \in DOMAIN message : MarkAsRead(u, i)

Spec == Init /\ [][Next]_vars

(***************************************************************************)
(* Properties.                                                             *)
(***************************************************************************)

\* What the list of conversations shows is the end of the conversation it opens; a partner is
\* missing only when FetchLimit messages with others are newer than the last with that partner; and
\* two partners see the same end of their conversation, when both see it
\* (messaging.module.ts:37-54, 57-70).
ConversationsAreCurrent ==
    \A u, v \in Writer :
        LET talk == FindConversation(u, v)
            found == FindConversations(u)
        IN  /\ v \in DOMAIN found <=>
                   talk # {} /\ Cardinality(NewerThan(u, Max(talk))) < FetchLimit
            /\ v \in DOMAIN found => found[v] = Max(talk)
            /\ v \in DOMAIN found /\ u \in DOMAIN FindConversations(v) =>
                   FindConversations(v)[u] = found[v]

\* The unread messages of the conversations are those the badge counts
\* (messaging.module.ts:57-70, 97-103).
UnreadIsInConversations ==
    \A u \in Writer :
        UnreadMail(u) =
            Cardinality(UNION {{i \in FindConversation(u, v) : message[i].to = u /\ ~message[i].read} :
                               v \in Writer})

\* Messages keep their type.
TypeOK == Len(message) <= MaxMessages /\ \A i \in DOMAIN message : message[i] \in Mail

=============================================================================
