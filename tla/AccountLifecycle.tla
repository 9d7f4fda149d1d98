-------------------------- MODULE AccountLifecycle --------------------------
(***************************************************************************)
(* backend/src/routes/account.routes.ts, lib/accountLock.ts,               *)
(* lib/accountPurge.ts, the lock check of middleware/auth.ts and the       *)
(* supervision route of routes/admin.routes.ts: ordinary accounts that are *)
(* closed for a grace period, reactivated, supervised and purged. Every    *)
(* await is a boundary between steps: a lock read from the database lands  *)
(* in the cache later, a purge works through a list it took earlier, and a *)
(* sign-in goes on with the row it read.                                   *)
(*                                                                         *)
(* The clock counts days; the five seconds a cached lock lives are an      *)
(* action of their own, possible at any time.                              *)
(***************************************************************************)
EXTENDS Naturals, FiniteSets

CONSTANTS
    Accounts,
    Busy,           \* the accounts whose owner and administrator act in this instance
    Stuck,          \* accounts the database never manages to delete
    Calls,          \* requests the server handles at a time
    Runs,           \* runs of the purge that may overlap
    Absent,
    DeletionDays,   \* DELETION_DAYS
    MaxDay,         \* bound on the clock
    MaxStops        \* bound on restarts

ASSUME LifecycleAssumption ==
    /\ Busy \subseteq Accounts /\ Stuck \subseteq Accounts
    /\ DeletionDays \in Nat \ {0} /\ MaxDay \in Nat /\ MaxStops \in Nat
    /\ Absent \notin Nat \cup Accounts

VARIABLES
    today,
    row,        \* User rows: the date of deletion and the supervision flag, or Absent
    lockCache,  \* accountLock.ts: the lock of an account as last read, or Absent
    token,      \* has the owner's browser a token the session version accepts?
    call,       \* one authenticated request each: see Call
    signIn,     \* accounts for which a sign-in read an open row and is not done
    reactivate, \* a reactivation: "none", "checked" or "saved"
    admin,      \* the supervision route: "none", "start", "started", "lift", "lifted"
    purge,      \* one run each: the accounts still to do, and the one audited last
    stops,
    audited,    \* (history) accounts with an "account_permanently_deleted" row
    purged,     \* (history) accounts a purge deleted
    crossed,    \* (history) accounts whose date came while a reactivation was under way
    late        \* (history) accounts whose cached lock was read before the last change

lifeVars == <<today, row, lockCache, token, call, signIn, reactivate, admin, purge,
              stops, audited, purged, crossed, late>>

Days == 0..MaxDay
Row  == [due : Days \cup {Absent}, supervised : BOOLEAN]
Lock == [closed : BOOLEAN, supervised : BOOLEAN]

\* A request of an account; "read" and "passed" say how far authenticate() got,
\* "schedule" and "close" that it is POST /deletion/schedule before and after its
\* update. open: (history) was the account open, or its lock in doubt, at some
\* time since the request arrived? stale: (history) has the lock changed since the
\* request read it?
Call == [account : Accounts, step : {"miss", "read", "passed", "schedule", "close"},
         lock : Lock \cup {Absent}, open : BOOLEAN, stale : BOOLEAN]
Run  == [todo : SUBSET Accounts, now : Accounts \cup {Absent}]

ASSUME AbsentAssumption == Absent \notin Row \cup Lock \cup Call \cup Run

LifecycleTypeOK ==
    /\ today \in Days
    /\ row \in [Accounts -> Row \cup {Absent}]
    /\ lockCache \in [Accounts -> Lock \cup {Absent}]
    /\ token \in [Accounts -> BOOLEAN]
    /\ call \in [Calls -> Call \cup {Absent}]
    /\ signIn \subseteq Accounts
    /\ reactivate \in [Accounts -> {"none", "checked", "saved"}]
    /\ admin \in [Accounts -> {"none", "start", "started", "lift", "lifted"}]
    /\ purge \in [Runs -> Run \cup {Absent}]
    /\ stops \in 0..MaxStops
    /\ audited \subseteq Accounts /\ purged \subseteq Accounts
    /\ crossed \subseteq Accounts /\ late \subseteq Accounts

\* Busy accounts are in use; the others were scheduled for deletion before.
LifecycleInit ==
    /\ today = 0
    /\ row = [a \in Accounts |->
                [due |-> IF a \in Busy THEN Absent ELSE 0, supervised |-> FALSE]]
    /\ lockCache = [a \in Accounts |-> Absent]
    /\ token = [a \in Accounts |-> FALSE]
    /\ call = [c \in Calls |-> Absent]
    /\ signIn = {}
    /\ reactivate = [a \in Accounts |-> "none"]
    /\ admin = [a \in Accounts |-> "none"]
    /\ purge = [k \in Runs |-> Absent]
    /\ stops = 0
    /\ audited = {} /\ purged = {} /\ crossed = {} /\ late = {}

-----------------------------------------------------------------------------
(* The lock of an account *)

Exists(a) == row[a] # Absent
Closed(a) == Exists(a) /\ row[a].due # Absent

\* What getAccountLock() reads: no row is no restriction.
LockOf(a) == [closed |-> Closed(a), supervised |-> Exists(a) /\ row[a].supervised]

Free(lock) == ~lock.closed /\ ~lock.supervised

\* Someone changed the row of a and has not dropped the cached lock yet.
Changing(a) ==
    \/ reactivate[a] = "saved" \/ admin[a] \in {"started", "lifted"}
    \/ \E c \in Calls : call[c] # Absent /\ call[c].account = a /\ call[c].step = "close"

\* Is the lock open, or what requests see of it in doubt?
InDoubt(a) == Free(LockOf(a)) \/ a \in late \/ Changing(a)

\* Requests of a that have read the lock from the database but not cached it.
Reading(a) == {c \in Calls : call[c] # Absent /\ call[c].account = a /\ call[c].step = "read"}

\* invalidateAccountLock(); what requests already read is old from now on.
\* The remaining requests are calls; seen: all of a's have seen it open or changing.
Invalidate(a, calls) ==
    /\ lockCache' = [lockCache EXCEPT ![a] = Absent]
    /\ late' = late \ {a}
    /\ call' = [c \in Calls |->
                    IF c \in Reading(a) THEN [calls[c] EXCEPT !.stale = TRUE] ELSE calls[c]]

\* A change of a's row is in doubt for every request of a under way.
Doubt(a, calls) ==
    [c \in Calls |-> IF calls[c] # Absent /\ calls[c].account = a
                     THEN [calls[c] EXCEPT !.open = TRUE] ELSE calls[c]]

-----------------------------------------------------------------------------
(* authenticate() *)

\* The request goes on if the lock allows it. (The three sign-in endpoints a
\* supervised account may call change nothing here and are left out.)
Decide(c, a, lock) ==
    call' = [call EXCEPT ![c] =
        IF Free(lock)
        THEN [account |-> a, step |-> "passed", lock |-> Absent,
              open |-> IF @ = Absent THEN InDoubt(a) ELSE @.open, stale |-> FALSE]
        ELSE Absent]

\* A request with an accepted token: the cached lock decides, if there is one.
Arrive(c, a) ==
    /\ call[c] = Absent /\ token[a]
    /\ \/ lockCache[a] # Absent /\ Decide(c, a, lockCache[a])
       \/ /\ lockCache[a] = Absent
          /\ call' = [call EXCEPT ![c] = [account |-> a, step |-> "miss", lock |-> Absent,
                                          open |-> InDoubt(a), stale |-> FALSE]]
    /\ UNCHANGED <<today, row, lockCache, token, signIn, reactivate, admin, purge,
                   stops, audited, purged, crossed, late>>

\* The database answers ...
ReadLock(c) ==
    /\ call[c] # Absent /\ call[c].step = "miss"
    /\ call' = [call EXCEPT ![c].step = "read", ![c].lock = LockOf(call[c].account)]
    /\ UNCHANGED <<today, row, lockCache, token, signIn, reactivate, admin, purge,
                   stops, audited, purged, crossed, late>>

\* ... and the handler caches what it read, however old, and goes by it.
FillLock(c) ==
    /\ call[c] # Absent /\ call[c].step = "read"
    /\ LET a == call[c].account
       IN /\ lockCache' = [lockCache EXCEPT ![a] = call[c].lock]
          /\ late' = IF call[c].stale THEN late \cup {a} ELSE late \ {a}
          /\ Decide(c, a, call[c].lock)
    /\ UNCHANGED <<today, row, token, signIn, reactivate, admin, purge,
                   stops, audited, purged, crossed>>

\* TTL_MS have passed.
ExpireLock(a) ==
    /\ lockCache[a] # Absent
    /\ lockCache' = [lockCache EXCEPT ![a] = Absent]
    /\ late' = late \ {a}
    /\ UNCHANGED <<today, row, token, call, signIn, reactivate, admin, purge,
                   stops, audited, purged, crossed>>

\* Any other handler ends.
EndCall(c) ==
    /\ call[c] # Absent /\ call[c].step = "passed"
    /\ call' = [call EXCEPT ![c] = Absent]
    /\ UNCHANGED <<today, row, lockCache, token, signIn, reactivate, admin, purge,
                   stops, audited, purged, crossed, late>>

-----------------------------------------------------------------------------
(* POST /deletion/schedule *)

\* me() finds the row, the proofs and the puzzle are right.
CheckSchedule(c) ==
    /\ call[c] # Absent /\ call[c].step = "passed" /\ Exists(call[c].account)
    /\ today + DeletionDays <= MaxDay
    /\ call' = [call EXCEPT ![c].step = "schedule"]
    /\ UNCHANGED <<today, row, lockCache, token, signIn, reactivate, admin, purge,
                   stops, audited, purged, crossed, late>>

\* The update; on a row that is gone it throws.
SaveSchedule(c) ==
    /\ call[c] # Absent /\ call[c].step = "schedule"
    /\ LET a == call[c].account
       IN \/ /\ Exists(a)
             /\ row' = [row EXCEPT ![a].due = today + DeletionDays]
             /\ call' = Doubt(a, [call EXCEPT ![c].step = "close"])
          \/ ~Exists(a) /\ call' = [call EXCEPT ![c] = Absent] /\ UNCHANGED row
    /\ UNCHANGED <<today, lockCache, token, signIn, reactivate, admin, purge,
                   stops, audited, purged, crossed, late>>

\* (mutant) the session version is bumped, the lock is left to its five seconds
CloseWithoutLock(c) ==
    /\ call[c] # Absent /\ call[c].step = "close"
    /\ token' = [token EXCEPT ![call[c].account] = FALSE]
    /\ call' = [call EXCEPT ![c] = Absent]
    /\ UNCHANGED <<today, row, lockCache, signIn, reactivate, admin, purge,
                   stops, audited, purged, crossed, late>>

\* The lock is dropped and every session ends.
CloseSessions(c) ==
    /\ call[c] # Absent /\ call[c].step = "close"
    /\ LET a == call[c].account
       IN /\ Invalidate(a, [call EXCEPT ![c] = Absent])
          /\ token' = [token EXCEPT ![a] = FALSE]
    /\ UNCHANGED <<today, row, signIn, reactivate, admin, purge,
                   stops, audited, purged, crossed>>

-----------------------------------------------------------------------------
(* Signing in: password, PIN, emailed code or passkey, and the second factor *)

\* The handler reads the row; completeLogin() refuses one with a date.
BeginSignIn(a) ==
    /\ a \notin signIn /\ Exists(a) /\ ~Closed(a)
    /\ signIn' = signIn \cup {a}
    /\ UNCHANGED <<today, row, lockCache, token, call, reactivate, admin, purge,
                   stops, audited, purged, crossed, late>>

\* The tokens are issued on the strength of that row, or the sign-in is given up.
EndSignIn(a) ==
    /\ a \in signIn
    /\ signIn' = signIn \ {a}
    /\ token' \in {token, [token EXCEPT ![a] = TRUE]}
    /\ UNCHANGED <<today, row, lockCache, call, reactivate, admin, purge,
                   stops, audited, purged, crossed, late>>

-----------------------------------------------------------------------------
(* POST /reactivate/start and /reactivate/verify *)

\* (mutant) the date is not compared with today
CheckAnyDate(a) ==
    /\ reactivate[a] = "none" /\ Closed(a)
    /\ reactivate' = [reactivate EXCEPT ![a] = "checked"]
    /\ UNCHANGED <<today, row, lockCache, token, call, signIn, admin, purge,
                   stops, audited, purged, crossed, late>>

\* The code is right and the date has not come.
CheckReactivation(a) ==
    /\ reactivate[a] = "none" /\ Closed(a) /\ row[a].due > today
    /\ reactivate' = [reactivate EXCEPT ![a] = "checked"]
    /\ UNCHANGED <<today, row, lockCache, token, call, signIn, admin, purge,
                   stops, audited, purged, crossed, late>>

\* The update; on a row that is gone it throws.
SaveReactivation(a) ==
    /\ reactivate[a] = "checked"
    /\ \/ /\ Exists(a)
          /\ row' = [row EXCEPT ![a].due = Absent]
          /\ reactivate' = [reactivate EXCEPT ![a] = "saved"]
          /\ call' = Doubt(a, call)
       \/ /\ ~Exists(a)
          /\ reactivate' = [reactivate EXCEPT ![a] = "none"]
          /\ UNCHANGED <<row, call>>
    /\ UNCHANGED <<today, lockCache, token, signIn, admin, purge, stops,
                   audited, purged, crossed, late>>

\* The lock is dropped, and completeLogin() signs in or asks for a second factor.
EndReactivation(a) ==
    /\ reactivate[a] = "saved"
    /\ reactivate' = [reactivate EXCEPT ![a] = "none"]
    /\ Invalidate(a, call)
    /\ token' \in {token, [token EXCEPT ![a] = TRUE]}
    /\ UNCHANGED <<today, row, signIn, admin, purge, stops, audited, purged, crossed>>

-----------------------------------------------------------------------------
(* POST /users/:id/supervision, DELETE /users/:id *)

CheckSupervision(a) ==
    /\ admin[a] = "none" /\ Exists(a)
    /\ admin' = [admin EXCEPT ![a] = IF row[a].supervised THEN "lift" ELSE "start"]
    /\ UNCHANGED <<today, row, lockCache, token, call, signIn, reactivate, purge,
                   stops, audited, purged, crossed, late>>

SaveSupervision(a) ==
    /\ admin[a] \in {"start", "lift"}
    /\ \/ /\ Exists(a)
          /\ row' = [row EXCEPT ![a].supervised = (admin[a] = "start")]
          /\ admin' = [admin EXCEPT ![a] = IF @ = "start" THEN "started" ELSE "lifted"]
          /\ call' = Doubt(a, call)
       \/ ~Exists(a) /\ admin' = [admin EXCEPT ![a] = "none"] /\ UNCHANGED <<row, call>>
    /\ UNCHANGED <<today, lockCache, token, signIn, reactivate, purge,
                   stops, audited, purged, crossed, late>>

EndSupervision(a) ==
    /\ admin[a] \in {"started", "lifted"}
    /\ admin' = [admin EXCEPT ![a] = "none"]
    /\ Invalidate(a, call)
    /\ UNCHANGED <<today, row, token, signIn, reactivate, purge,
                   stops, audited, purged, crossed>>

\* An administrator deletes the account: no session ends, no lock is dropped.
AdminDelete(a) ==
    /\ Exists(a)
    /\ row' = [row EXCEPT ![a] = Absent]
    /\ call' = Doubt(a, call)
    /\ UNCHANGED <<today, lockCache, token, signIn, reactivate, admin, purge,
                   stops, audited, purged, crossed, late>>

-----------------------------------------------------------------------------
(* purgeDueAccounts() *)

\* Start-up and every hour: the accounts whose date has come.
ListDue(k) ==
    /\ purge[k] = Absent
    /\ LET due == {a \in Accounts : Closed(a) /\ row[a].due <= today}
       IN due # {} /\ purge' = [purge EXCEPT ![k] = [todo |-> due, now |-> Absent]]
    /\ UNCHANGED <<today, row, lockCache, token, call, signIn, reactivate, admin,
                   stops, audited, purged, crossed, late>>

\* (mutant) the audit row is left for after the delete
AuditLater(k, a) ==
    /\ purge[k] # Absent /\ purge[k].now = Absent /\ a \in purge[k].todo
    /\ purge' = [purge EXCEPT ![k].now = a]
    /\ UNCHANGED <<today, row, lockCache, token, call, signIn, reactivate, admin,
                   stops, audited, purged, crossed, late>>

\* The audit row is written first.
Audit(k, a) ==
    /\ purge[k] # Absent /\ purge[k].now = Absent /\ a \in purge[k].todo
    /\ purge' = [purge EXCEPT ![k].now = a]
    /\ audited' = audited \cup {a}
    /\ UNCHANGED <<today, row, lockCache, token, call, signIn, reactivate, admin,
                   stops, purged, crossed, late>>

\* The account of a run is done with.
NextAccount(k) ==
    LET rest == purge[k].todo \ {purge[k].now}
    IN purge' = [purge EXCEPT ![k] =
                    IF rest = {} THEN Absent ELSE [todo |-> rest, now |-> Absent]]

\* The account is deleted with all it owns; the list is not looked at again.
Delete(k) ==
    /\ purge[k] # Absent /\ purge[k].now # Absent
    /\ LET a == purge[k].now
       IN /\ Exists(a) /\ a \notin Stuck
          /\ row' = [row EXCEPT ![a] = Absent]
          /\ purged' = purged \cup {a}
          /\ call' = Doubt(a, call)
    /\ NextAccount(k)
    /\ UNCHANGED <<today, lockCache, token, signIn, reactivate, admin,
                   stops, audited, crossed, late>>

\* (mutant) an error ends the run
DeleteThrows(k) ==
    /\ purge[k] # Absent /\ purge[k].now # Absent
    /\ purge' = [purge EXCEPT ![k] = Absent]
    /\ UNCHANGED <<today, row, lockCache, token, call, signIn, reactivate, admin,
                   stops, audited, purged, crossed, late>>

\* The delete fails (always, if the account is gone): the run goes on with the next.
DeleteFails(k) ==
    /\ purge[k] # Absent /\ purge[k].now # Absent
    /\ NextAccount(k)
    /\ UNCHANGED <<today, row, lockCache, token, call, signIn, reactivate, admin,
                   stops, audited, purged, crossed, late>>

-----------------------------------------------------------------------------

\* The next day. Authenticated requests are over by then (they take seconds, the
\* grace period weeks) and locks cached today have expired; a reactivation, a
\* sign-in or a purge may go on.
Tomorrow ==
    /\ today < MaxDay /\ \A c \in Calls : call[c] = Absent
    /\ today' = today + 1
    /\ lockCache' = [a \in Accounts |-> Absent]
    /\ late' = {}
    /\ crossed' = crossed \cup
            {a \in Accounts : reactivate[a] = "checked" /\ Closed(a) /\ row[a].due <= today'}
    /\ UNCHANGED <<row, token, call, signIn, reactivate, admin, purge,
                   stops, audited, purged>>

\* The process stops and starts again.
StopServer ==
    /\ stops < MaxStops /\ stops' = stops + 1
    /\ lockCache' = [a \in Accounts |-> Absent]
    /\ call' = [c \in Calls |-> Absent]
    /\ signIn' = {}
    /\ reactivate' = [a \in Accounts |-> "none"]
    /\ admin' = [a \in Accounts |-> "none"]
    /\ purge' = [k \in Runs |-> Absent]
    /\ late' = {}
    /\ UNCHANGED <<today, row, token, audited, purged, crossed>>

CallStep(c) ==
    \/ ReadLock(c) \/ FillLock(c) \/ EndCall(c)
    \/ CheckSchedule(c) \/ SaveSchedule(c) \/ CloseSessions(c)

AccountStep(a) ==
    \/ ExpireLock(a) \/ BeginSignIn(a) \/ EndSignIn(a)
    \/ CheckReactivation(a) \/ SaveReactivation(a) \/ EndReactivation(a)
    \/ CheckSupervision(a) \/ SaveSupervision(a) \/ EndSupervision(a) \/ AdminDelete(a)

PurgeStep(k) ==
    \/ ListDue(k) \/ (\E a \in Accounts : Audit(k, a)) \/ Delete(k) \/ DeleteFails(k)

LifecycleNext ==
    \/ \E c \in Calls : CallStep(c) \/ \E a \in Busy : Arrive(c, a)
    \/ \E a \in Busy : AccountStep(a)
    \/ \E k \in Runs : PurgeStep(k)
    \/ Tomorrow \/ StopServer

LifecycleSpec == LifecycleInit /\ [][LifecycleNext]_lifeVars

\* Time passes, the hourly timer starts runs and every run goes on, in any order;
\* a delete tried again and again succeeds at last, unless the account is stuck.
LifecycleFairness ==
    /\ SF_lifeVars(Tomorrow) /\ \A c \in Calls : WF_lifeVars(CallStep(c))
    /\ \A k \in Runs :
        /\ WF_lifeVars(ListDue(k)) /\ WF_lifeVars(\E a \in Accounts : Audit(k, a))
        /\ WF_lifeVars(Delete(k) \/ DeleteFails(k))
        /\ \A a \in Accounts : SF_lifeVars(Delete(k) /\ purge[k].now = a)

-----------------------------------------------------------------------------
(* What the life of an account promises *)

\* middleware/auth.ts:99 "a closed (deletion-scheduled) account has no valid
\* sessions, and a supervised account may only reach the endpoints needed to sign
\* in": a request that arrives after the closing or supervising route has dropped
\* the cached lock is refused, whatever sign-in overlapped it, unless the account
\* is opened again meanwhile, or a request that had read the lock before the
\* change has put that back into the cache.
LockedOut ==
    \A c \in Calls : call[c] # Absent /\ call[c].step \in {"passed", "schedule"} => call[c].open

\* accountPurge.ts:4 "accounts whose 30-day deletion period has ended": a purge
\* deletes only an account whose date has come, though it looks at the date once,
\* when it takes its list, and owners reactivate and schedule again meanwhile;
\* except one whose reactivation was under way when the date came.
PurgedWhenDue ==
    [][\A a \in purged' \ purged :
        a \in crossed \/ (row[a].due # Absent /\ row[a].due <= today)]_lifeVars

\* accountPurge.ts:9 "a final row is written first": no account a purge deleted is
\* without an audit row, whenever the process stops and however runs overlap.
PurgeIsAudited == purged \subseteq audited

\* accountPurge.ts:4: an account scheduled for deletion is deleted or reactivated
\* at last, though deletes fail, another account can never be deleted, and the
\* process restarts.
DueIsPurged ==
    \A a \in Accounts \ Stuck : Closed(a) ~> ~Closed(a)

=============================================================================
