---------------------------- MODULE SharedCache ----------------------------
(***************************************************************************)
(* CacheService.getOrSet (libs/redis): one key, its lock, and requests     *)
(* that miss it together.  A request that does not get the lock waits for  *)
(* 200 ms, and computes the value itself if the cache is still empty;      *)
(* either way it ends with the release of the lock, whoever has it.        *)
(* Nothing in the applications calls it yet.                               *)
(***************************************************************************)
EXTENDS Naturals

CONSTANTS
    Request,        \* requests under way together
    MaxVersion      \* how often the value changes (a bound of the model)

VARIABLES
    source,         \* the version of the value that the factory computes
    entry,          \* the version in the cache, and whether it has a time to live
    lock,           \* Redis: "free", "held" or, without a time to live, "for good"
    req

vars == <<source, entry, lock, req>>

NoValue == MaxVersion + 1
Empty == [value |-> NoValue, ttl |-> TRUE]
Idle == [at |-> "idle", value |-> NoValue]

Do(r, step) == req' = [req EXCEPT ![r].at = step]

\* getJson: a value that is there is answered at once.
Miss(r) ==
    /\ req[r] = Idle
    /\ entry = Empty
    /\ Do(r, "lock")
    /\ UNCHANGED <<source, entry, lock>>

\* Faulty variant: the lock has no time to live.
AcquireForGood(r) ==
    /\ req[r].at = "lock"
    /\ lock' = IF lock = "free" THEN "for good" ELSE lock
    /\ Do(r, IF lock = "free" THEN "compute" ELSE "wait")
    /\ UNCHANGED <<source, entry>>

\* acquireLock: SET NX EX.
Acquire(r) ==
    /\ req[r].at = "lock"
    /\ lock' = IF lock = "free" THEN "held" ELSE lock
    /\ Do(r, IF lock = "free" THEN "compute" ELSE "wait")
    /\ UNCHANGED <<source, entry>>

\* After 200 ms.
Retry(r) ==
    /\ req[r].at = "wait"
    /\ Do(r, IF entry = Empty THEN "compute" ELSE "idle")
    /\ UNCHANGED <<source, entry, lock>>

\* The factory.
Compute(r) ==
    /\ req[r].at = "compute"
    /\ req' = [req EXCEPT ![r] = [at |-> "write", value |-> source]]
    /\ UNCHANGED <<source, entry, lock>>

\* Faulty variant: set without EX.
WriteForGood(r) ==
    /\ req[r].at = "write"
    /\ entry' = [value |-> req[r].value, ttl |-> FALSE]
    /\ req' = [req EXCEPT ![r] = [Idle EXCEPT !.at = "release"]]
    /\ UNCHANGED <<source, lock>>

\* setJson: also over a newer version.
Write(r) ==
    /\ req[r].at = "write"
    /\ entry' = [value |-> req[r].value, ttl |-> TRUE]
    /\ req' = [req EXCEPT ![r] = [Idle EXCEPT !.at = "release"]]
    /\ UNCHANGED <<source, lock>>

\* The factory throws, or Redis does: finally.
Throw(r) ==
    /\ req[r].at \in {"compute", "write"}
    /\ req' = [req EXCEPT ![r] = [Idle EXCEPT !.at = "release"]]
    /\ UNCHANGED <<source, entry, lock>>

Release(r) ==
    /\ req[r].at = "release"
    /\ lock' = "free"
    /\ Do(r, "idle")
    /\ UNCHANGED <<source, entry>>

\* The process ends, without the finally.
Crash(r) ==
    /\ req[r] # Idle
    /\ req' = [req EXCEPT ![r] = Idle]
    /\ UNCHANGED <<source, entry, lock>>

(***************************************************************************)
(* Redis, and the rest of the system.                                      *)
(***************************************************************************)

LockExpires ==
    /\ lock = "held"
    /\ lock' = "free"
    /\ UNCHANGED <<source, entry, req>>

EntryExpires ==
    /\ entry # Empty /\ entry.ttl
    /\ entry' = Empty
    /\ UNCHANGED <<source, lock, req>>

Change ==
    /\ source < MaxVersion
    /\ source' = source + 1
    /\ UNCHANGED <<entry, lock, req>>

Init ==
    /\ source = 0
    /\ entry = Empty
    /\ lock = "free"
    /\ req = [r \in Request |-> Idle]

Next ==
    \/ \E r \in Request :
           \/ Miss(r) \/ Acquire(r) \/ Retry(r) \/ Compute(r) \/ Write(r)
           \/ Throw(r) \/ Release(r) \/ Crash(r)
    \/ LockExpires \/ EntryExpires \/ Change

Spec == Init /\ [][Next]_vars

\* Redis forgets what has a time to live; requests may stop anywhere for ever.
FairSpec == Spec /\ WF_vars(LockExpires) /\ WF_vars(EntryExpires)

(***************************************************************************)
(* Properties.                                                             *)
(***************************************************************************)

\* Neither the cache nor a request ever has a version that is still to come.
TypeOK ==
    /\ source \in 0 .. MaxVersion
    /\ entry \in [value : (0 .. source) \cup {NoValue}, ttl : BOOLEAN]
    /\ lock \in {"free", "held", "for good"}
    /\ req \in [Request -> [at : {"idle", "lock", "wait", "compute", "write", "release"},
                            value : (0 .. source) \cup {NoValue}]]

\* The lock does not stay with a request that stopped (cache.service.ts:68, "to prevent
\* deadlocks"), although nobody else need ever come.
LockIsFreed == lock # "free" ~> lock = "free"

\* A version that is no longer true leaves the cache, also one that a slow request wrote
\* over a newer one (cache.service.ts:101-103).
StaleIsForgotten ==
    \A v \in 0 .. MaxVersion :
        entry.value = v /\ source # v ~> entry.value # v

=============================================================================
