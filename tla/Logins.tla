------------------------------- MODULE Logins -------------------------------
(***************************************************************************)
(* Logging in to one account: AuthService's register, login and second     *)
(* factor, and the account's status as UsersService and AdminService set   *)
(* it.  What a login opens is a session (module Sessions).                 *)
(*                                                                         *)
(* Nothing here but register runs in a transaction: login reads the        *)
(* account, works on its copy (bcrypt takes a while), and writes what      *)
(* follows from the copy.                                                  *)
(***************************************************************************)
EXTENDS Naturals

CONSTANTS
    Request,        \* requests under way together
    Tries,          \* failed logins before the account is locked (5)
    MaxFailures     \* bound: no login fails after so many failures

VARIABLES
    account,        \* status, loginAttempts, lockoutUntil and mfaEnabled
    otp,            \* a code is in Redis that has been sent and not verified
    req,            \* what each request is about to do, and its copies
    past            \* what no table has: the failed logins since the last good one, and
                    \* those of them that an overlapping one overwrote

vars == <<account, otp, req, past>>

\* softDelete sets deletedAt and BLOCKED; deletedAt alone bars the account, whatever the
\* status is set to afterwards.
UserStatus == {"ACTIVE", "SUSPENDED", "DELETED"}
Lockout == {"none", "running", "over"}
Step == {"idle", "fail", "write", "challenge", "code"}

Absent ==
    [exists |-> FALSE, status |-> "ACTIVE", attempts |-> 0, lockout |-> "none", mfa |-> FALSE]

Idle == [at |-> "idle", attempts |-> 0, lockout |-> "none", missed |-> 0]

Is(r, step) == req[r].at = step
Do(r, step) == req' = [req EXCEPT ![r] = [Idle EXCEPT !.at = step]]
Finish(r) == req' = [req EXCEPT ![r] = Idle]

Set(field, value) == account' = [account EXCEPT ![field] = value]

(***************************************************************************)
(* register and login.                                                     *)
(***************************************************************************)

Register ==
    /\ ~account.exists
    /\ Set("exists", TRUE)
    /\ UNCHANGED <<otp, req, past>>

MayLogin ==
    /\ account.exists
    /\ account.status \notin {"DELETED", "SUSPENDED"}
    /\ account.lockout # "running"

\* login reads the account and compares the password.
Login(r, right) ==
    /\ Is(r, "idle")
    /\ MayLogin
    /\ right \/ past.failed < MaxFailures
    /\ req' = [req EXCEPT ![r] =
           [at |-> IF ~right THEN "fail" ELSE IF account.mfa THEN "challenge" ELSE "write",
            attempts |-> account.attempts, lockout |-> account.lockout, missed |-> 0]]
    /\ UNCHANGED <<account, otp, past>>

\* Faulty variant: the last failure that is permitted is not counted.
AttemptsLate(r) == IF req[r].attempts + 1 >= Tries THEN Tries - 1 ELSE req[r].attempts + 1

\* More than Tries attempts are the same as Tries.
Attempts(r) == IF req[r].attempts + 1 > Tries THEN Tries ELSE req[r].attempts + 1

\* The failure is counted, and so are those of which this one knows nothing; the others
\* under way know nothing of this one.
CountFailure(r) ==
    /\ req' = [s \in Request |-> IF s = r THEN Idle
                                ELSE IF Is(s, "fail") THEN [req[s] EXCEPT !.missed = @ + 1]
                                ELSE req[s]]
    /\ past' = [past EXCEPT !.failed = @ + 1, !.overlapped = @ + req[r].missed]

\* Faulty variant: a time of lockout that is not renewed is left as the row has it.
LoginFailsPartly(r) ==
    /\ Is(r, "fail")
    /\ account' = [account EXCEPT !.attempts = Attempts(r),
                                  !.lockout = IF Attempts(r) >= Tries THEN "running" ELSE @]
    /\ CountFailure(r)
    /\ UNCHANGED otp

\* Both columns are written from the copy.
LoginFails(r) ==
    /\ Is(r, "fail")
    /\ account' = [account EXCEPT
           !.attempts = Attempts(r),
           !.lockout = IF Attempts(r) >= Tries THEN "running" ELSE req[r].lockout]
    /\ CountFailure(r)
    /\ UNCHANGED otp

\* The account has a second factor: a code is sent and login ends.  (It looks for the word
\* "verified", which verifyMfa never stores: it stores an object.)
Challenge(r) ==
    /\ Is(r, "challenge")
    /\ otp' = TRUE
    /\ Finish(r)
    /\ UNCHANGED <<account, past>>

\* The count begins anew for every login under way; a session is opened.
LoginSucceeds(r) ==
    /\ Is(r, "write")
    /\ account' = [account EXCEPT !.attempts = 0, !.lockout = "none"]
    /\ req' = [s \in Request |-> IF s = r THEN Idle ELSE [req[s] EXCEPT !.missed = 0]]
    /\ past' = [failed |-> 0, overlapped |-> 0]
    /\ UNCHANGED otp

LockoutPasses ==
    /\ account.lockout = "running"
    /\ Set("lockout", "over")
    /\ UNCHANGED <<otp, req, past>>

(***************************************************************************)
(* The second factor.  Nothing a controller reaches switches it on; an     *)
(* account may have it from the start (the column mfaEnabled).             *)
(***************************************************************************)

\* verifyMfa: the code is read, then marked, and a session is opened.
ReadCode(r) ==
    /\ Is(r, "idle")
    /\ otp
    /\ Do(r, "code")
    /\ UNCHANGED <<account, otp, past>>
VerifyMfa(r) ==
    /\ Is(r, "code")
    /\ otp' = FALSE
    /\ Finish(r)
    /\ UNCHANGED <<account, past>>

DisableMfa ==
    /\ account.mfa
    /\ Set("mfa", FALSE)
    /\ otp' = FALSE
    /\ UNCHANGED <<req, past>>

CodeExpires ==
    /\ otp
    /\ otp' = FALSE
    /\ UNCHANGED <<account, req, past>>

(***************************************************************************)
(* The status: suspend, unsuspend, suspendAssessor, softDelete.            *)
(***************************************************************************)

\* The check that the account is not deleted was made on an earlier read, and the write
\* does not repeat it: it may come after softDelete.
SetStatus(status) ==
    /\ account.exists
    /\ status \in {"SUSPENDED", "ACTIVE"}
    /\ Set("status", IF account.status = "DELETED" THEN "DELETED" ELSE status)
    /\ UNCHANGED <<otp, req, past>>

SoftDelete ==
    /\ account.exists
    /\ Set("status", "DELETED")
    /\ UNCHANGED <<otp, req, past>>

Stop(r) ==
    /\ ~Is(r, "idle")
    /\ Finish(r)
    /\ UNCHANGED <<account, otp, past>>

Init ==
    /\ account \in {Absent, [Absent EXCEPT !.exists = TRUE, !.mfa = TRUE]}
    /\ otp = FALSE
    /\ req = [r \in Request |-> Idle]
    /\ past = [failed |-> 0, overlapped |-> 0]

Next ==
    \/ \E r \in Request :
           \/ LoginFails(r) \/ Challenge(r) \/ LoginSucceeds(r) \/ ReadCode(r) \/ VerifyMfa(r)
           \/ Stop(r)
           \/ \E right \in BOOLEAN : Login(r, right)
    \/ \E status \in UserStatus : SetStatus(status)
    \/ Register \/ LockoutPasses \/ CodeExpires \/ DisableMfa \/ SoftDelete

Spec == Init /\ [][Next]_vars

(***************************************************************************)
(* Properties.                                                             *)
(***************************************************************************)

TypeOK ==
    /\ account \in [exists : BOOLEAN, status : UserStatus,
                    attempts : 0 .. Tries, lockout : Lockout, mfa : BOOLEAN]
    /\ otp \in BOOLEAN
    /\ req \in [Request -> [at : Step, attempts : 0 .. Tries, lockout : Lockout, missed : Nat]]
    /\ past \in [failed : Nat, overlapped : Nat]

\* The account is locked, or was until a while ago, exactly when its count is full, although
\* logins that read the account before others wrote it write both columns from their copies:
\* otherwise a lock would be left that no attempts explain, or a full count without one
\* (auth.module.ts:236-245, 282-289).
FullCountLocks == account.lockout # "none" <=> account.attempts >= Tries

\* Failed logins lock the account, but for those that overlap: each that is written from a
\* copy older than another failure takes that one out of the count, and may take back its
\* lock.  Without overlaps Tries failures lock; SPEC.md:242 and ARCHITECTURE_AUDIT.md:259
\* promise it of any five (auth.module.ts:236-245).
FailuresLock == account.lockout = "none" => past.failed < Tries + past.overlapped

=============================================================================
