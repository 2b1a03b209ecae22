------------------------------ MODULE Sessions ------------------------------
(***************************************************************************)
(* The sessions of one account: the refresh tokens of AuthService, and the *)
(* reset of a forgotten password, which ends them.                         *)
(*                                                                         *)
(* A session is one row of RefreshToken after the other.  Only             *)
(* resetPassword runs in a transaction: refresh looks its token up, issues *)
(* the next one, and revokes the old one by id, each on its own.           *)
(***************************************************************************)
CONSTANTS
    Request,        \* requests under way together
    Token,          \* rows of RefreshToken
    Reset,          \* rows of PasswordResetToken
    NoToken

VARIABLES
    token,          \* "none", "live", "spent" by a refresh, or "ended" (expired too)
    replaces,       \* the token a token was issued for (not in the tables)
    repeated,       \* tokens refreshed while, or after, another refresh of theirs was under
                    \* way that did not end with the revocation (not in the tables)
    reset,          \* "none", "open" or "used" (expired too)
    req             \* what each request is about to do, and for which row

vars == <<token, replaces, repeated, reset, req>>

Step == {"idle", "issue", "revoke", "end", "reset"}

Idle == [at |-> "idle", old |-> NoToken, reset |-> NoToken]

Is(r, step) == req[r].at = step
Do(r, step) == req' = [req EXCEPT ![r] = [Idle EXCEPT !.at = step]]
Finish(r) == req' = [req EXCEPT ![r] = Idle]

EndAll == token' = [t \in Token |-> IF token[t] = "live" THEN "ended" ELSE token[t]]

(***************************************************************************)
(* issueTokens, the last step of register, login and verifyMfa, and the    *)
(* last but one of refresh.                                                *)
(***************************************************************************)

SignIn(r) ==
    /\ Is(r, "idle")
    /\ Do(r, "issue")
    /\ UNCHANGED <<token, replaces, repeated, reset>>

Issue(r, t) ==
    /\ Is(r, "issue")
    /\ token[t] = "none"
    /\ token' = [token EXCEPT ![t] = "live"]
    /\ replaces' = [replaces EXCEPT ![t] = req[r].old]
    /\ req' = [req EXCEPT ![r] = IF @.old = NoToken THEN Idle ELSE [@ EXCEPT !.at = "revoke"]]
    /\ UNCHANGED <<repeated, reset>>

(***************************************************************************)
(* refresh.                                                                *)
(***************************************************************************)

\* Faulty variant: the old token goes with the look-up.
RefreshSpending(r, t) ==
    /\ Is(r, "idle")
    /\ token[t] = "live"
    /\ token' = [token EXCEPT ![t] = "spent"]
    /\ req' = [req EXCEPT ![r] = [at |-> "issue", old |-> t, reset |-> NoToken]]
    /\ UNCHANGED <<replaces, repeated, reset>>

\* Up to issueTokens.
Refresh(r, t) ==
    /\ Is(r, "idle")
    /\ token[t] = "live"
    /\ req' = [req EXCEPT ![r] = [at |-> "issue", old |-> t, reset |-> NoToken]]
    /\ repeated' = IF \E s \in Request : req[s].old = t THEN repeated \cup {t} ELSE repeated
    /\ UNCHANGED <<token, replaces, reset>>

\* Faulty variant: the old token stays as it is.
RevokeNothing(r) ==
    /\ Is(r, "revoke")
    /\ Finish(r)
    /\ UNCHANGED <<token, replaces, repeated, reset>>

\* The last write: by id, whatever was done to the row meanwhile.
Revoke(r) ==
    /\ Is(r, "revoke")
    /\ token' = [token EXCEPT ![req[r].old] = "spent"]
    /\ Finish(r)
    /\ UNCHANGED <<replaces, repeated, reset>>

TokenExpires(t) ==
    /\ token[t] = "live"
    /\ token' = [token EXCEPT ![t] = "ended"]
    /\ UNCHANGED <<replaces, repeated, reset, req>>

(***************************************************************************)
(* logout, logoutAll, and the end of changePassword.                       *)
(***************************************************************************)

\* logout is asked for; changePassword has compared, and has written the new hash.
Logout(r) ==
    /\ Is(r, "idle")
    /\ Do(r, "end")
    /\ UNCHANGED <<token, replaces, repeated, reset>>

LogoutAll(r) ==
    /\ Is(r, "end")
    /\ EndAll
    /\ Finish(r)
    /\ UNCHANGED <<replaces, repeated, reset>>

(***************************************************************************)
(* A forgotten password.                                                   *)
(***************************************************************************)

ForgotPassword(x) ==
    /\ reset[x] = "none"
    /\ reset' = [reset EXCEPT ![x] = "open"]
    /\ UNCHANGED <<token, replaces, repeated, req>>

ReadReset(r, x) ==
    /\ Is(r, "idle")
    /\ reset[x] = "open"
    /\ req' = [req EXCEPT ![r] = [at |-> "reset", old |-> NoToken, reset |-> x]]
    /\ UNCHANGED <<token, replaces, repeated, reset>>

\* One transaction: the hash, the row and the tokens.
ResetPassword(r) ==
    /\ Is(r, "reset")
    /\ reset' = [reset EXCEPT ![req[r].reset] = "used"]
    /\ EndAll
    /\ Finish(r)
    /\ UNCHANGED <<replaces, repeated>>

ResetExpires(x) ==
    /\ reset[x] = "open"
    /\ reset' = [reset EXCEPT ![x] = "used"]
    /\ UNCHANGED <<token, replaces, repeated, req>>

\* A refresh that stops before its last write leaves the old token beside the new one.
Stop(r) ==
    /\ ~Is(r, "idle")
    /\ Finish(r)
    /\ repeated' = IF Is(r, "revoke") THEN repeated \cup {req[r].old} ELSE repeated
    /\ UNCHANGED <<token, replaces, reset>>

Init ==
    /\ token = [t \in Token |-> "none"]
    /\ replaces = [t \in Token |-> NoToken]
    /\ repeated = {}
    /\ reset = [x \in Reset |-> "none"]
    /\ req = [r \in Request |-> Idle]

Next ==
    \/ \E r \in Request :
           \/ SignIn(r) \/ Revoke(r) \/ LogoutAll(r) \/ Logout(r) \/ ResetPassword(r) \/ Stop(r)
           \/ \E t \in Token : Issue(r, t) \/ Refresh(r, t)
           \/ \E x \in Reset : ReadReset(r, x)
    \/ \E t \in Token : TokenExpires(t)
    \/ \E x \in Reset : ForgotPassword(x) \/ ResetExpires(x)

Spec == Init /\ [][Next]_vars

(***************************************************************************)
(* Properties.                                                             *)
(***************************************************************************)

TypeOK ==
    /\ token \in [Token -> {"none", "live", "spent", "ended"}]
    /\ replaces \in [Token -> Token \cup {NoToken}]
    /\ repeated \subseteq Token
    /\ reset \in [Reset -> {"none", "open", "used"}]
    /\ req \in [Request -> [at : Step, old : Token \cup {NoToken}, reset : Reset \cup {NoToken}]]

\* A refresh token is spent only for a successor that was issued, wherever the handler
\* stops (auth.module.ts:333-342).  Its answer may be lost after that: then the owner has
\* never seen the successor, and has to log in again.
SpentForASuccessor ==
    \A t \in Token : token[t] = "spent" => \E u \in Token : replaces[u] = t

\* Rotation gives a token one successor, unless it is refreshed twice at the same time or a
\* refresh stops before it revokes: the token is looked up long before it is revoked, and
\* then by id (auth.module.ts:306-341; ARCHITECTURE_AUDIT.md:251 knows no exception).
RotatedOnce ==
    \A t \in Token \ repeated, u, v \in Token :
        replaces[u] = t /\ replaces[v] = t => u = v

=============================================================================
