------------------------------- MODULE Inbox -------------------------------
(***************************************************************************)
(* The notifications of a user: NotificationsService of                    *)
(* notifications.module.ts.  markAsRead and delete find the row first and  *)
(* change it by a second query; markAllAsRead and the counts are one       *)
(* query.  The rows that the delivery worker writes are rows like these.   *)
(***************************************************************************)
EXTENDS Naturals, Sequences, FiniteSets, SequencesExt

CONSTANTS
    Note,           \* notifications that come to be
    Reader,         \* users
    NoteRequest,    \* calls of markAsRead and delete under way together
    Recent,         \* notifications findByUser shows (100 in the code)
    ReadAlls        \* calls of markAllAsRead (a bound of the model)

VARIABLES
    arrived,        \* the notifications in the order of createdAt
    note,           \* user and state of each
    call,           \* what each call has found
    readAll         \* the counts that markAllAsRead returned, by user (history)

vars == <<arrived, note, call, readAll>>

Absent == [user |-> "nobody", state |-> "ABSENT"]
Idle == [op |-> "idle"]

NotesOf(u) == {n \in Note : note[n].user = u /\ note[n].state \in {"UNREAD", "READ"}}
UnreadOf(u) == {n \in NotesOf(u) : note[n].state = "UNREAD"}

\* The notifications of a user that came after n.
NewerNotes(u, n) ==
    {m \in NotesOf(u) : \E j, k \in DOMAIN arrived : j < k /\ arrived[j] = n /\ arrived[k] = m}

\* Faulty variant: the oldest first.
FindOldest(u) == {n \in NotesOf(u) : Cardinality({m \in NotesOf(u) : n \in NewerNotes(u, m)}) < Recent}

\* findByUser: the newest.
FindByUser(u) == {n \in NotesOf(u) : Cardinality(NewerNotes(u, n)) < Recent}

\* getUnreadCount
UnreadCount(u) == Cardinality(UnreadOf(u))

CreateNote(n, u) ==
    /\ note[n] = Absent
    /\ note' = [note EXCEPT ![n] = [user |-> u, state |-> "UNREAD"]]
    /\ arrived' = Append(arrived, n)
    /\ UNCHANGED <<call, readAll>>

\* findUnique, and the owner it must have.
Find(r, op, n, u) ==
    /\ call[r] = Idle
    /\ n \in NotesOf(u)
    /\ call' = [call EXCEPT ![r] = [op |-> op, note |-> n, user |-> u]]
    /\ UNCHANGED <<arrived, note, readAll>>

\* Faulty variant: the row is written again if it is gone.
MarkAgain(r) ==
    /\ call[r].op = "markAsRead"
    /\ note' = [note EXCEPT ![call[r].note] = [user |-> call[r].user, state |-> "READ"]]
    /\ call' = [call EXCEPT ![r] = Idle]
    /\ UNCHANGED <<arrived, readAll>>

\* An update or delete of a row that is gone fails.
MarkAsRead(r) ==
    /\ call[r].op = "markAsRead"
    /\ note' = [note EXCEPT ![call[r].note].state = IF @ = "DELETED" THEN @ ELSE "READ"]
    /\ call' = [call EXCEPT ![r] = Idle]
    /\ UNCHANGED <<arrived, readAll>>

DeleteNote(r) ==
    /\ call[r].op = "delete"
    /\ note' = [note EXCEPT ![call[r].note].state = "DELETED"]
    /\ call' = [call EXCEPT ![r] = Idle]
    /\ UNCHANGED <<arrived, readAll>>

\* Faulty variant: every row of the user is updated and counted.
MarkEveryOneAsRead(u) ==
    /\ readAll[u].calls < ReadAlls
    /\ note' = [n \in Note |-> IF n \in NotesOf(u) THEN [note[n] EXCEPT !.state = "READ"] ELSE note[n]]
    /\ readAll' = [readAll EXCEPT ![u] = [calls |-> @.calls + 1, sum |-> @.sum + Cardinality(NotesOf(u))]]
    /\ UNCHANGED <<arrived, call>>

MarkAllAsRead(u) ==
    /\ readAll[u].calls < ReadAlls
    /\ note' = [n \in Note |-> IF n \in UnreadOf(u) THEN [note[n] EXCEPT !.state = "READ"] ELSE note[n]]
    /\ readAll' = [readAll EXCEPT ![u] = [calls |-> @.calls + 1, sum |-> @.sum + UnreadCount(u)]]
    /\ UNCHANGED <<arrived, call>>

Fail(r) ==
    /\ call[r] # Idle
    /\ call' = [call EXCEPT ![r] = Idle]
    /\ UNCHANGED <<arrived, note, readAll>>

Init ==
    /\ arrived = <<>>
    /\ note = [n \in Note |-> Absent]
    /\ call = [r \in NoteRequest |-> Idle]
    /\ readAll = [u \in Reader |-> [calls |-> 0, sum |-> 0]]

Next ==
    \/ \E u \in Reader :
           \/ MarkAllAsRead(u)
           \/ \E n \in Note :
                  \/ CreateNote(n, u)
                  \/ \E r \in NoteRequest, op \in {"markAsRead", "delete"} : Find(r, op, n, u)
    \/ \E r \in NoteRequest : MarkAsRead(r) \/ DeleteNote(r) \/ Fail(r)

Spec == Init /\ [][Next]_vars

(***************************************************************************)
(* Properties.                                                             *)
(***************************************************************************)

\* What was read never comes back as unread, and what was deleted never comes back at all,
\* whichever of two calls that found the row is the later (notifications.module.ts:60-68, 94-101).
SeenStaysSeen ==
    [][\A n \in Note :
           /\ note[n].state = "READ" => note'[n].state # "UNREAD"
           /\ note[n].state = "DELETED" => note'[n] = note[n]]_vars

\* No notification is counted by two calls of read-all: the counts a user was told sum up to
\* no more than the notifications that ever came, less those unread (notifications.module.ts:70-76).
CountedOnce ==
    \A u \in Reader :
        readAll[u].sum + UnreadCount(u) <= Cardinality({n \in Note : note[n].user = u})

\* A badge that counts more than the list shows is explained by the limit of the list: all
\* that is shown is the newest of what there is (notifications.module.ts:44-58).
BadgeIsShown ==
    \A u \in Reader : LET shown == FindByUser(u) IN
        /\ Cardinality(shown) <= Recent
        /\ Cardinality(shown) < Recent => UnreadOf(u) \subseteq shown
        /\ \A n \in NotesOf(u) \ shown : shown \subseteq NewerNotes(u, n)

\* Notifications and calls keep their types.
TypeOK ==
    /\ arrived \in SeqOf(Note, Cardinality(Note))
    /\ \A n \in Note : note[n] \in {Absent} \cup [user : Reader, state : {"UNREAD", "READ", "DELETED"}]
    /\ \A r \in NoteRequest : call[r] \in {Idle} \cup
           [op : {"markAsRead", "delete"}, note : Note, user : Reader]
    /\ readAll \in [Reader -> [calls : 0 .. ReadAlls, sum : Nat]]

=============================================================================
