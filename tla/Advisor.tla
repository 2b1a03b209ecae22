------------------------------ MODULE Advisor ------------------------------
(***************************************************************************)
(* The advisor's chat of one user: AiAdvisorService of                     *)
(* ai-advisor.module.ts.  sendMessage is four queries without a            *)
(* transaction: the session is created or found, then the question, the    *)
(* answer and the date of the session are written one by one, and other    *)
(* calls on the same session may come in between.                          *)
(***************************************************************************)
EXTENDS Naturals, Sequences, FiniteSets

CONSTANTS
    Session,        \* chat sessions
    Question        \* calls of sendMessage, and what they ask

VARIABLES
    opened,         \* the sessions that exist
    messages,       \* of each session, in the order of createdAt
    call            \* how far each call has come, and on which session

vars == <<opened, messages, call>>

Start == [at |-> "start"]

OpenSession(q, s) ==
    /\ call[q] = Start
    /\ s \notin opened
    /\ opened' = opened \cup {s}
    /\ call' = [call EXCEPT ![q] = [at |-> "asking", session |-> s]]
    /\ UNCHANGED messages

\* 404 for a session that is not there.
FindSession(q, s) ==
    /\ call[q] = Start
    /\ s \in opened
    /\ call' = [call EXCEPT ![q] = [at |-> "asking", session |-> s]]
    /\ UNCHANGED <<opened, messages>>

Say(q, role) == messages' = [messages EXCEPT ![call[q].session] = Append(@, [role |-> role, of |-> q])]

AskAdvisor(q) ==
    /\ call[q].at = "asking"
    /\ Say(q, "user")
    /\ call' = [call EXCEPT ![q].at = "asked"]
    /\ UNCHANGED opened

\* Faulty variant: the answer is made from, and written, before the question is.
AnswerEarly(q) ==
    /\ call[q].at \in {"asking", "asked"}
    /\ Say(q, "ai")
    /\ call' = [call EXCEPT ![q].at = IF @ = "asking" THEN "asked" ELSE "answered"]
    /\ UNCHANGED opened

AnswerUser(q) ==
    /\ call[q].at = "asked"
    /\ Say(q, "ai")
    /\ call' = [call EXCEPT ![q].at = "answered"]
    /\ UNCHANGED opened

\* The date of the session, which orders the list of sessions, is not kept.
TouchSession(q) ==
    /\ call[q].at = "answered"
    /\ call' = [call EXCEPT ![q].at = "done"]
    /\ UNCHANGED <<opened, messages>>

\* What has been written stays.
GiveUp(q) ==
    /\ call[q].at \in {"asking", "asked", "answered"}
    /\ call' = [call EXCEPT ![q].at = "failed"]
    /\ UNCHANGED <<opened, messages>>

Init ==
    /\ opened = {}
    /\ messages = [s \in Session |-> <<>>]
    /\ call = [q \in Question |-> Start]

Next ==
    \E q \in Question :
        \/ AskAdvisor(q) \/ AnswerUser(q) \/ TouchSession(q) \/ GiveUp(q)
        \/ \E s \in Session : OpenSession(q, s) \/ FindSession(q, s)

Spec == Init /\ [][Next]_vars

(***************************************************************************)
(* Properties.                                                             *)
(***************************************************************************)

SaidBy(s, q, role) == {i \in DOMAIN messages[s] : messages[s][i] = [role |-> role, of |-> q]}

\* In every session each answer follows the one question it answers, also when calls
\* interleave; and a question without an answer, like a session without a question, belongs
\* to a call that is under way or was given up (ai-advisor.module.ts:86-129).
AnswersFollow ==
    \A s \in Session :
        /\ \A q \in Question :
               /\ Cardinality(SaidBy(s, q, "user")) <= 1 /\ Cardinality(SaidBy(s, q, "ai")) <= 1
               /\ \A i \in SaidBy(s, q, "ai") : \E j \in SaidBy(s, q, "user") : j < i
               /\ SaidBy(s, q, "user") # {} /\ SaidBy(s, q, "ai") = {} =>
                      call[q].at \in {"asked", "failed"}
        /\ s \in opened /\ messages[s] = <<>> =>
               \E q \in Question : call[q].at \in {"asking", "failed"} /\ call[q].session = s

\* Sessions, messages and calls keep their types.
TypeOK ==
    /\ opened \subseteq Session
    /\ \A s \in Session : \A i \in DOMAIN messages[s] :
           messages[s][i] \in [role : {"user", "ai"}, of : Question]
    /\ \A q \in Question : call[q] \in {Start} \cup
           [at : {"asking", "asked", "answered", "done", "failed"}, session : Session]

=============================================================================
