----------------------- MODULE AccountLifecycle_proofs -----------------------
(***************************************************************************)
(* For any number of accounts, requests and overlapping purges, any grace  *)
(* period and any bounds: the types of AccountLifecycle, that a closed or  *)
(* supervised account is locked out, and that a purge deletes only what is *)
(* due and has an audit row. Behind the lock-out: a lock that lets a       *)
(* request pass, cached or still in its hands, was open while it ran.      *)
(* Behind the purge: nobody gets past the lock of an account whose date    *)
(* has come, so nobody can postpone that date.                             *)
(***************************************************************************)
EXTENDS AccountLifecycle, TLAPS

\* A request that may get past the lock has seen it open, and a lock still in its
\* hands that is open is old or true.
Honest(r) ==
    /\ r.step = "miss" /\ Free(LockOf(r.account)) => r.open
    /\ r.step = "read" /\ Free(r.lock) => r.open
    /\ r.step \in {"passed", "schedule"} => r.open
    /\ r.step = "read" /\ Free(r.lock) =>
            r.stale \/ Changing(r.account) \/ Free(LockOf(r.account))
    /\ r.step = "schedule" => today + DeletionDays <= MaxDay

HonestCalls == \A c \in Calls : call[c] # Absent => Honest(call[c])

\* An open lock in the cache is true, unless a change is under way or it is late.
HonestCache ==
    \A a \in Accounts : lockCache[a] # Absent /\ Free(lockCache[a]) =>
        a \in late \/ Changing(a) \/ Free(LockOf(a))

\* The date of a has come.
Due(a) == Closed(a) /\ row[a].due <= today

\* Such an account is shut: no request of it gets past the lock.
ShutCall(r) == r.step \in {"miss", "read"} /\ (r.step = "read" => ~Free(r.lock))

DueIsShut ==
    \A a \in Accounts : Due(a) =>
        \/ a \in crossed
        \/ /\ lockCache[a] = Absent \/ ~Free(lockCache[a])
           /\ \A c \in Calls : call[c] # Absent /\ call[c].account = a => ShutCall(call[c])

\* What a purge still has to do is due or gone; what it does now is audited.
ListIsDue ==
    \A k \in Runs : purge[k] # Absent =>
        /\ \A a \in purge[k].todo : a \in crossed \/ ~Exists(a) \/ Due(a)
        /\ purge[k].now # Absent => purge[k].now \in purge[k].todo \cap audited

\* A reactivation was checked in time, or the date came while it was under way.
CheckedInTime ==
    \A a \in Accounts : reactivate[a] = "checked" /\ Due(a) => a \in crossed

Inv ==
    /\ LifecycleTypeOK /\ PurgeIsAudited
    /\ HonestCalls /\ HonestCache /\ DueIsShut /\ ListIsDue /\ CheckedInTime

-----------------------------------------------------------------------------
(* Types *)

CallTable == [Calls -> Call \cup {Absent}]

\* A lock read from the database has the type of one.
LEMMA LockType == \A a : LockOf(a) \in Lock
  <1> TAKE a
  <1>1. Closed(a) \in BOOLEAN /\ (Exists(a) /\ row[a].supervised) \in BOOLEAN
    BY DEF Closed, Exists
  <1> QED
    BY <1>1 DEF LockOf, Lock

\* A change of the row keeps the type of the requests.
LEMMA DoubtTypes ==
    ASSUME NEW calls \in CallTable, NEW a
    PROVE  Doubt(a, calls) \in CallTable
<1> SUFFICES ASSUME NEW c \in Calls, calls[c] # Absent
             PROVE  [calls[c] EXCEPT !.open = TRUE] \in Call
  BY DEF Doubt, CallTable
<1> QED
  BY DEF CallTable, Call

\* So does dropping the cached lock.
LEMMA InvalidateTypes ==
    ASSUME LifecycleTypeOK, NEW calls \in CallTable, NEW a,
           \A c \in Reading(a) : calls[c] # Absent,
           Invalidate(a, calls)
    PROVE  /\ call' \in CallTable
           /\ lockCache' \in [Accounts -> Lock \cup {Absent}]
           /\ late' \subseteq Accounts
<1>1. \A c \in Reading(a) : [calls[c] EXCEPT !.stale = TRUE] \in Call
  BY DEF CallTable, Call, Reading
<1> QED
  BY <1>1 DEF Invalidate, LifecycleTypeOK, CallTable

\* So does the decision about a request.
LEMMA DecideTypes ==
    ASSUME LifecycleTypeOK, NEW c \in Calls, NEW a \in Accounts, NEW lock, Decide(c, a, lock),
           call[c] = Absent \/ call[c] \in Call
    PROVE  call' \in CallTable
<1>1. InDoubt(a) \in BOOLEAN
  BY DEF InDoubt, Free, LockOf, Closed, Exists, Changing
<1>2. (IF call[c] = Absent THEN InDoubt(a) ELSE call[c].open) \in BOOLEAN
  BY <1>1 DEF Call
<1>3. [account |-> a, step |-> "passed", lock |-> Absent,
       open |-> IF call[c] = Absent THEN InDoubt(a) ELSE call[c].open, stale |-> FALSE] \in Call
  BY <1>2 DEF Call
<1> QED
  BY <1>3 DEF Decide, LifecycleTypeOK, CallTable

\* The initial values have their types.
LEMMA InitTypes == LifecycleInit => LifecycleTypeOK
<1> SUFFICES ASSUME LifecycleInit PROVE LifecycleTypeOK
  OBVIOUS
<1>1. 0 \in Days /\ 0 \in 0..MaxStops
  BY LifecycleAssumption DEF Days
<1>2. \A a \in Accounts : [due |-> IF a \in Busy THEN Absent ELSE 0, supervised |-> FALSE] \in Row
  BY <1>1 DEF Row
<1>3. row \in [Accounts -> Row \cup {Absent}]
  BY <1>2 DEF LifecycleInit
<1> QED
  BY <1>1, <1>3 DEF LifecycleInit, LifecycleTypeOK

\* Every step of a request keeps the types.
LEMMA CallTypes ==
    ASSUME LifecycleTypeOK, HonestCalls, NEW c \in Calls,
           CallStep(c) \/ \E a \in Busy : Arrive(c, a)
    PROVE  LifecycleTypeOK'
<1>0. call \in CallTable /\ (call[c] = Absent \/ call[c] \in Call)
  BY DEF LifecycleTypeOK, CallTable
<1>1. ASSUME NEW a \in Busy, Arrive(c, a) PROVE LifecycleTypeOK'
  <2>1. a \in Accounts /\ InDoubt(a) \in BOOLEAN
    BY LifecycleAssumption DEF InDoubt, Free, LockOf, Closed, Exists, Changing
  <2>2. CASE Decide(c, a, lockCache[a])
    <3>1. call' \in CallTable
      BY <1>0, <2>1, <2>2, DecideTypes
    <3> QED
      BY <1>1, <3>1 DEF Arrive, LifecycleTypeOK, CallTable
  <2>3. CASE call' = [call EXCEPT ![c] = [account |-> a, step |-> "miss", lock |-> Absent,
                                          open |-> InDoubt(a), stale |-> FALSE]]
    <3>1. [account |-> a, step |-> "miss", lock |-> Absent,
           open |-> InDoubt(a), stale |-> FALSE] \in Call
      BY <2>1 DEF Call
    <3> QED
      BY <1>1, <2>3, <3>1 DEF Arrive, LifecycleTypeOK
  <2> QED
    BY <1>1, <2>2, <2>3 DEF Arrive
<1>2. CASE ReadLock(c)
  <2>1. call[c] \in Call /\ LockOf(call[c].account) \in Lock
    BY <1>0, <1>2, LockType DEF ReadLock
  <2>2. [call[c] EXCEPT !.step = "read", !.lock = LockOf(call[c].account)] \in Call
    BY <2>1 DEF Call
  <2>3. call' = [call EXCEPT ![c] = [call[c] EXCEPT !.step = "read", !.lock = LockOf(call[c].account)]]
    BY <1>2 DEF ReadLock
  <2> QED
    BY <1>2, <2>2, <2>3 DEF ReadLock, LifecycleTypeOK
<1>3. CASE FillLock(c)
  <2>1. call[c] \in Call
    BY <1>0, <1>3 DEF FillLock
  <2>2. call[c].account \in Accounts /\ call[c].lock \in Lock \cup {Absent}
    BY <2>1 DEF Call
  <2>3. call' \in CallTable
    BY <1>0, <1>3, <2>2, DecideTypes DEF FillLock
  <2>4. lockCache' \in [Accounts -> Lock \cup {Absent}] /\ late' \subseteq Accounts
    BY <1>3, <2>2 DEF FillLock, LifecycleTypeOK
  <2> QED
    BY <1>3, <2>3, <2>4 DEF FillLock, LifecycleTypeOK, CallTable
<1>4. CASE EndCall(c)
  BY <1>4 DEF EndCall, LifecycleTypeOK
<1>5. CASE CheckSchedule(c)
  <2>1. [call[c] EXCEPT !.step = "schedule"] \in Call
    BY <1>0, <1>5 DEF CheckSchedule, Call
  <2>2. call' = [call EXCEPT ![c] = [call[c] EXCEPT !.step = "schedule"]]
    BY <1>5 DEF CheckSchedule
  <2> QED
    BY <1>5, <2>1, <2>2 DEF CheckSchedule, LifecycleTypeOK
<1>6. CASE SaveSchedule(c)
  <2>1. call[c] \in Call /\ call[c].account \in Accounts
    BY <1>0, <1>6 DEF SaveSchedule, Call
  <2>2. CASE UNCHANGED row /\ call' = [call EXCEPT ![c] = Absent]
    BY <1>6, <2>2 DEF SaveSchedule, LifecycleTypeOK
  <2>3. CASE /\ Exists(call[c].account)
             /\ row' = [row EXCEPT ![call[c].account].due = today + DeletionDays]
             /\ call' = Doubt(call[c].account, [call EXCEPT ![c].step = "close"])
    <3>1. [call[c] EXCEPT !.step = "close"] \in Call
      BY <2>1 DEF Call
    <3>2. [call EXCEPT ![c].step = "close"] \in CallTable
      BY <1>0, <3>1 DEF CallTable
    <3>3. call' \in CallTable
      BY <2>3, <3>2, DoubtTypes
    <3>4. today + DeletionDays \in Days
      BY <1>6, LifecycleAssumption DEF SaveSchedule, HonestCalls, Honest, Days, LifecycleTypeOK
    <3>5. [row[call[c].account] EXCEPT !.due = today + DeletionDays] \in Row
      BY <2>1, <2>3, <3>4 DEF Row, Exists, LifecycleTypeOK
    <3>6. row' = [row EXCEPT ![call[c].account] = [row[call[c].account] EXCEPT !.due = today + DeletionDays]]
      BY <2>3
    <3>7. row' \in [Accounts -> Row \cup {Absent}]
      BY <3>5, <3>6, <2>1 DEF LifecycleTypeOK
    <3> QED
      BY <1>6, <3>3, <3>7 DEF SaveSchedule, LifecycleTypeOK, CallTable
  <2> QED
    BY <1>6, <2>2, <2>3 DEF SaveSchedule
<1>7. CASE CloseSessions(c)
  <2>1. call[c] \in Call /\ call[c].account \in Accounts
    BY <1>0, <1>7 DEF CloseSessions, Call
  <2>2. [call EXCEPT ![c] = Absent] \in CallTable
    BY <1>0 DEF CallTable
  <2>3. \A d \in Reading(call[c].account) : [call EXCEPT ![c] = Absent][d] # Absent
    BY <1>7 DEF CloseSessions, Reading, LifecycleTypeOK
  <2>4. /\ call' \in CallTable
        /\ lockCache' \in [Accounts -> Lock \cup {Absent}]
        /\ late' \subseteq Accounts
    BY <1>7, <2>2, <2>3, InvalidateTypes DEF CloseSessions
  <2> QED
    BY <1>7, <2>1, <2>4 DEF CloseSessions, LifecycleTypeOK, CallTable
<1> QED
  BY <1>1, <1>2, <1>3, <1>4, <1>5, <1>6, <1>7 DEF CallStep

\* Every step about one account keeps the types.
LEMMA AccountTypes ==
    ASSUME LifecycleTypeOK, NEW a \in Accounts, AccountStep(a)
    PROVE  LifecycleTypeOK'
<1>0. call \in CallTable /\ Doubt(a, call) \in CallTable
  BY DoubtTypes DEF LifecycleTypeOK, CallTable
<1>1. \A c \in Reading(a) : call[c] # Absent
  BY DEF Reading
<1>2. Invalidate(a, call) =>
        /\ call' \in CallTable
        /\ lockCache' \in [Accounts -> Lock \cup {Absent}]
        /\ late' \subseteq Accounts
  BY <1>0, <1>1, InvalidateTypes
<1>3. Exists(a) => row[a] \in Row
  BY DEF Exists, LifecycleTypeOK
<1>4. CASE ExpireLock(a)
  BY <1>4 DEF ExpireLock, LifecycleTypeOK
<1>5. CASE BeginSignIn(a)
  BY <1>5 DEF BeginSignIn, LifecycleTypeOK
<1>6. CASE EndSignIn(a)
  BY <1>6 DEF EndSignIn, LifecycleTypeOK
<1>7. CASE CheckReactivation(a)
  BY <1>7 DEF CheckReactivation, LifecycleTypeOK
<1>8. CASE SaveReactivation(a)
  <2>1. Exists(a) => [row[a] EXCEPT !.due = Absent] \in Row
    BY <1>3 DEF Row
  <2>2. (row' = [row EXCEPT ![a] = [row[a] EXCEPT !.due = Absent]] /\ Exists(a)) \/ row' = row
    BY <1>8 DEF SaveReactivation
  <2>3. row' \in [Accounts -> Row \cup {Absent}]
    BY <2>1, <2>2 DEF LifecycleTypeOK
  <2> QED
    BY <1>0, <1>8, <2>3 DEF SaveReactivation, LifecycleTypeOK, CallTable
<1>9. CASE EndReactivation(a)
  BY <1>2, <1>9 DEF EndReactivation, LifecycleTypeOK, CallTable
<1>10. CASE CheckSupervision(a)
  BY <1>10 DEF CheckSupervision, LifecycleTypeOK
<1>11. CASE SaveSupervision(a)
  <2>1. Exists(a) => [row[a] EXCEPT !.supervised = (admin[a] = "start")] \in Row
    BY <1>3 DEF Row
  <2>2. \/ /\ row' = [row EXCEPT ![a] = [row[a] EXCEPT !.supervised = (admin[a] = "start")]]
           /\ Exists(a)
        \/ row' = row
    BY <1>11 DEF SaveSupervision
  <2>3. row' \in [Accounts -> Row \cup {Absent}]
    BY <2>1, <2>2 DEF LifecycleTypeOK
  <2>4. admin' \in [Accounts -> {"none", "start", "started", "lift", "lifted"}]
    BY <1>11 DEF SaveSupervision, LifecycleTypeOK
  <2> QED
    BY <1>0, <1>11, <2>3, <2>4 DEF SaveSupervision, LifecycleTypeOK, CallTable
<1>12. CASE EndSupervision(a)
  BY <1>2, <1>12 DEF EndSupervision, LifecycleTypeOK, CallTable
<1>13. CASE AdminDelete(a)
  BY <1>0, <1>13 DEF AdminDelete, LifecycleTypeOK, CallTable
<1> QED
  BY <1>4, <1>5, <1>6, <1>7, <1>8, <1>9, <1>10, <1>11, <1>12, <1>13 DEF AccountStep

\* Every step of a purge keeps the types.
LEMMA PurgeTypes ==
    ASSUME LifecycleTypeOK, NEW k \in Runs, PurgeStep(k)
    PROVE  LifecycleTypeOK'
<1>0. purge[k] # Absent => purge[k] \in Run
  BY DEF LifecycleTypeOK
<1>1. CASE ListDue(k)
  <2>1. {a \in Accounts : Closed(a) /\ row[a].due <= today} \in SUBSET Accounts
    OBVIOUS
  <2>2. PICK due \in SUBSET Accounts : purge' = [purge EXCEPT ![k] = [todo |-> due, now |-> Absent]]
    BY <1>1, <2>1 DEF ListDue
  <2>3. [todo |-> due, now |-> Absent] \in Run
    BY DEF Run
  <2> QED
    BY <1>1, <2>2, <2>3 DEF ListDue, LifecycleTypeOK
<1>2. ASSUME NEW a \in Accounts, Audit(k, a) PROVE LifecycleTypeOK'
  <2>1. [purge[k] EXCEPT !.now = a] \in Run
    BY <1>0, <1>2 DEF Audit, Run
  <2>2. purge' = [purge EXCEPT ![k] = [purge[k] EXCEPT !.now = a]]
    BY <1>2 DEF Audit
  <2> QED
    BY <1>2, <2>1, <2>2 DEF Audit, LifecycleTypeOK
<1>3. ASSUME purge[k] # Absent, NextAccount(k)
      PROVE purge' \in [Runs -> Run \cup {Absent}]
  <2>1. [todo |-> purge[k].todo \ {purge[k].now}, now |-> Absent] \in Run
    BY <1>0, <1>3 DEF Run
  <2> QED
    BY <1>3, <2>1 DEF NextAccount, LifecycleTypeOK
<1>4. CASE Delete(k)
  <2>1. purge[k].now \in Accounts
    BY <1>0, <1>4 DEF Delete, Run
  <2>2. Doubt(purge[k].now, call) \in CallTable
    BY DoubtTypes DEF LifecycleTypeOK, CallTable
  <2>3. purge' \in [Runs -> Run \cup {Absent}]
    BY <1>3, <1>4 DEF Delete
  <2>4. row' \in [Accounts -> Row \cup {Absent}] /\ purged' \subseteq Accounts
    BY <1>4, <2>1 DEF Delete, LifecycleTypeOK
  <2> QED
    BY <1>4, <2>2, <2>3, <2>4 DEF Delete, LifecycleTypeOK, CallTable
<1>5. CASE DeleteFails(k)
  <2>1. purge' \in [Runs -> Run \cup {Absent}]
    BY <1>3, <1>5 DEF DeleteFails
  <2> QED
    BY <1>5, <2>1 DEF DeleteFails, LifecycleTypeOK
<1> QED
  BY <1>1, <1>2, <1>4, <1>5 DEF PurgeStep

\* A new day and a restart keep the types.
LEMMA ClockTypes == LifecycleTypeOK /\ (Tomorrow \/ StopServer) => LifecycleTypeOK'
<1>1. LifecycleTypeOK /\ Tomorrow => LifecycleTypeOK'
  <2>1. LifecycleTypeOK /\ Tomorrow => today' \in Days
    BY LifecycleAssumption DEF Tomorrow, LifecycleTypeOK, Days
  <2> QED
    BY <2>1 DEF Tomorrow, LifecycleTypeOK
<1>2. LifecycleTypeOK /\ StopServer => LifecycleTypeOK'
  <2>1. LifecycleTypeOK /\ StopServer => stops' \in 0..MaxStops
    BY LifecycleAssumption DEF StopServer, LifecycleTypeOK
  <2> QED
    BY <2>1 DEF StopServer, LifecycleTypeOK
<1> QED
  BY <1>1, <1>2

-----------------------------------------------------------------------------
(* The lock *)

\* A step that leaves rows, cache and requests as they are.
LEMMA SameLocks ==
    ASSUME HonestCalls, HonestCache,
           UNCHANGED <<today, row, lockCache, call, late>>,
           \A b \in Accounts : Changing(b)' = Changing(b),
           LifecycleTypeOK
    PROVE  HonestCalls' /\ HonestCache'
<1>1. \A b \in Accounts : LockOf(b)' = LockOf(b)
  BY DEF LockOf, Closed, Exists
<1>2. \A c \in Calls : call[c] # Absent => call[c].account \in Accounts
  BY DEF LifecycleTypeOK, Call
<1>3. HonestCalls'
  BY <1>1, <1>2 DEF HonestCalls, Honest, Free
<1>4. HonestCache'
  BY <1>1 DEF HonestCache, Free
<1> QED
  BY <1>3, <1>4

\* A change of the row of a that goes on to drop the lock, or opens it for good.
LEMMA AfterChange ==
    ASSUME LifecycleTypeOK, HonestCalls, HonestCache,
           NEW a \in Accounts, NEW calls \in CallTable,
           \A c \in Calls : calls[c] # Absent => Honest(calls[c]),
           call' = Doubt(a, calls),
           UNCHANGED <<today, lockCache, late>>,
           \A b \in Accounts \ {a} : row'[b] = row[b] /\ Changing(b)' = Changing(b),
           Changing(a)' \/ Free(LockOf(a))'
    PROVE  HonestCalls' /\ HonestCache'
<1>1. \A b \in Accounts \ {a} : LockOf(b)' = LockOf(b)
  BY DEF LockOf, Closed, Exists
<1>2. ASSUME NEW c \in Calls, call'[c] # Absent
      PROVE  Honest(call[c])'
  <2>1. calls[c] # Absent /\ calls[c] \in Call /\ calls[c].account \in Accounts
    BY <1>2 DEF Doubt, CallTable, Call
  <2>2. CASE calls[c].account = a
    <3>1. call'[c] = [calls[c] EXCEPT !.open = TRUE]
      BY <2>1, <2>2 DEF Doubt
    <3>2. /\ call'[c].open = TRUE /\ call'[c].account = a
          /\ call'[c].step = calls[c].step
      BY <2>1, <2>2, <3>1 DEF Call
    <3> QED
      BY <2>1, <3>2 DEF Honest
  <2>3. CASE calls[c].account # a
    <3>1. call'[c] = calls[c]
      BY <2>1, <2>3 DEF Doubt
    <3> QED
      BY <1>1, <2>1, <2>3, <3>1 DEF Honest, Free
  <2> QED
    BY <2>2, <2>3
<1>3. HonestCache'
  BY <1>1 DEF HonestCache, Free
<1> QED
  BY <1>2, <1>3 DEF HonestCalls

\* Dropping the lock of a: what is still in a request's hands is old.
LEMMA AfterDrop ==
    ASSUME LifecycleTypeOK, HonestCalls, HonestCache,
           NEW a \in Accounts, NEW calls \in CallTable,
           \A c \in Calls : calls[c] \in {call[c], Absent},
           \A c \in Reading(a) : calls[c] # Absent,
           Invalidate(a, calls),
           UNCHANGED <<today, row>>,
           \A b \in Accounts \ {a} : Changing(b)' = Changing(b)
    PROVE  HonestCalls' /\ HonestCache'
<1>1. \A b \in Accounts : LockOf(b)' = LockOf(b)
  BY DEF LockOf, Closed, Exists
<1>2. ASSUME NEW c \in Calls, call'[c] # Absent
      PROVE  Honest(call[c])'
  <2>1. CASE c \in Reading(a)
    <3>1. call'[c] = [call[c] EXCEPT !.stale = TRUE] /\ call[c] \in Call /\ Honest(call[c])
      BY <2>1 DEF Invalidate, Reading, LifecycleTypeOK, HonestCalls
    <3>2. /\ call'[c].stale = TRUE /\ call'[c].account = a /\ call'[c].step = "read"
          /\ call'[c].lock = call[c].lock /\ call'[c].open = call[c].open
      BY <2>1, <3>1 DEF Call, Reading
    <3> QED
      BY <2>1, <3>1, <3>2 DEF Honest, Reading, Free
  <2>2. CASE c \notin Reading(a)
    <3>1. call'[c] = call[c] /\ call[c] # Absent /\ call[c] \in Call
      BY <1>2, <2>2 DEF Invalidate, LifecycleTypeOK
    <3>2. Honest(call[c]) /\ call[c].account \in Accounts
      BY <3>1 DEF HonestCalls, Call
    <3>3. call[c].account # a \/ call[c].step # "read"
      BY <2>2, <3>1 DEF Reading
    <3> QED
      BY <1>1, <3>1, <3>2, <3>3 DEF Honest, Free
  <2> QED
    BY <2>1, <2>2
<1>3. ASSUME NEW b \in Accounts, lockCache'[b] # Absent, Free(lockCache[b])'
      PROVE  b \in late' \/ Changing(b)' \/ Free(LockOf(b))'
  <2>1. b # a /\ lockCache'[b] = lockCache[b]
    BY <1>3 DEF Invalidate, LifecycleTypeOK
  <2> QED
    BY <1>1, <1>3, <2>1 DEF HonestCache, Invalidate, Free
<1> QED
  BY <1>2, <1>3 DEF HonestCalls, HonestCache

\* Nobody but the requests named changes what is under way.
LEMMA SameChanging ==
    ASSUME NEW b \in Accounts,
           (reactivate[b] = "saved")' <=> reactivate[b] = "saved",
           (admin[b] \in {"started", "lifted"})' <=> admin[b] \in {"started", "lifted"},
           \A c \in Calls :
               (call[c] # Absent /\ call[c].account = b /\ call[c].step = "close")' <=>
               (call[c] # Absent /\ call[c].account = b /\ call[c].step = "close")
    PROVE  Changing(b)' = Changing(b)
  BY DEF Changing

\* A change of the row in doubt leaves requests where they are.
LEMMA DoubtKeeps ==
    ASSUME NEW calls \in CallTable, NEW a, NEW c \in Calls
    PROVE  LET d == Doubt(a, calls)[c]
           IN /\ d = Absent <=> calls[c] = Absent
              /\ calls[c] # Absent =>
                    /\ d.account = calls[c].account /\ d.step = calls[c].step
                    /\ d.lock = calls[c].lock
<1> USE AbsentAssumption
<1>1. CASE calls[c] # Absent /\ calls[c].account = a
  <2>1. calls[c] \in Call /\ Doubt(a, calls)[c] = [calls[c] EXCEPT !.open = TRUE]
    BY <1>1 DEF CallTable, Doubt
  <2>2. Doubt(a, calls)[c] \in Call
    BY <2>1 DEF Call
  <2> QED
    BY <1>1, <2>1, <2>2 DEF Call
<1>2. CASE ~(calls[c] # Absent /\ calls[c].account = a)
  BY <1>2 DEF Doubt
<1> QED
  BY <1>1, <1>2

\* The steps about one account keep locks honest.
LEMMA AccountLocks ==
    ASSUME LifecycleTypeOK, HonestCalls, HonestCache, NEW a \in Accounts, AccountStep(a)
    PROVE  HonestCalls' /\ HonestCache'
<1>0. /\ call \in CallTable
      /\ \A c \in Calls : call[c] # Absent => Honest(call[c])
      /\ \A c \in Reading(a) : call[c] # Absent
      /\ \A c \in Calls : call[c] \in {call[c], Absent}
  BY DEF LifecycleTypeOK, CallTable, HonestCalls, Reading
<1>1. ASSUME call' = Doubt(a, call), NEW b \in Accounts,
             (reactivate[b] = "saved")' <=> reactivate[b] = "saved",
             (admin[b] \in {"started", "lifted"})' <=> admin[b] \in {"started", "lifted"}
      PROVE  Changing(b)' = Changing(b)
  <2>1. \A c \in Calls :
            (call[c] # Absent /\ call[c].account = b /\ call[c].step = "close")' <=>
            (call[c] # Absent /\ call[c].account = b /\ call[c].step = "close")
    BY <1>0, <1>1, DoubtKeeps
  <2> QED
    BY <1>1, <2>1, SameChanging
<1>2. ASSUME Invalidate(a, call), NEW b \in Accounts,
             (reactivate[b] = "saved")' <=> reactivate[b] = "saved",
             (admin[b] \in {"started", "lifted"})' <=> admin[b] \in {"started", "lifted"}
      PROVE  Changing(b)' = Changing(b)
  <2>1. ASSUME NEW c \in Calls
        PROVE (call[c] # Absent /\ call[c].account = b /\ call[c].step = "close")' <=>
              (call[c] # Absent /\ call[c].account = b /\ call[c].step = "close")
    <3>1. CASE c \in Reading(a)
      <4>1. call'[c] = [call[c] EXCEPT !.stale = TRUE] /\ call[c] \in Call
        BY <1>0, <1>2, <3>1 DEF Invalidate, Reading, CallTable
      <4>2. call'[c].step = "read" /\ call[c].step = "read"
        BY <3>1, <4>1 DEF Call, Reading
      <4> QED
        BY <4>2
    <3>2. CASE c \notin Reading(a)
      BY <1>2, <3>2 DEF Invalidate
    <3> QED
      BY <3>1, <3>2
  <2> QED
    BY <1>2, <2>1, SameChanging
<1>3. CASE ExpireLock(a)
  <2>1. \A b \in Accounts : Changing(b)' = Changing(b) /\ LockOf(b)' = LockOf(b)
    BY <1>3 DEF ExpireLock, Changing, LockOf, Closed, Exists
  <2>2. \A b \in Accounts \ {a} : lockCache'[b] = lockCache[b] /\ (b \in late => b \in late')
    BY <1>3 DEF ExpireLock
  <2>3. lockCache'[a] = Absent
    BY <1>3 DEF ExpireLock, LifecycleTypeOK
  <2>4. HonestCache'
    BY <2>1, <2>2, <2>3 DEF HonestCache, Free
  <2>5. \A c \in Calls : call[c] # Absent => call[c].account \in Accounts
    BY DEF LifecycleTypeOK, Call
  <2>6. HonestCalls'
    BY <1>3, <2>1, <2>5 DEF HonestCalls, Honest, Free, ExpireLock
  <2> QED
    BY <2>4, <2>6
<1>4. CASE BeginSignIn(a) \/ EndSignIn(a) \/ CheckReactivation(a) \/ CheckSupervision(a)
  <2>1. \A b \in Accounts : Changing(b)' = Changing(b)
    BY <1>4 DEF BeginSignIn, EndSignIn, CheckReactivation, CheckSupervision, Changing, LifecycleTypeOK
  <2>2. UNCHANGED <<today, row, lockCache, call, late>>
    BY <1>4 DEF BeginSignIn, EndSignIn, CheckReactivation, CheckSupervision
  <2> QED
    BY <2>1, <2>2, SameLocks
<1>5. CASE SaveReactivation(a)
  <2>1. CASE call' = Doubt(a, call) /\ reactivate' = [reactivate EXCEPT ![a] = "saved"]
             /\ row' = [row EXCEPT ![a].due = Absent]
    <3>1. \A b \in Accounts \ {a} : row'[b] = row[b] /\ Changing(b)' = Changing(b)
      BY <1>1, <1>5, <2>1 DEF SaveReactivation, LifecycleTypeOK
    <3>2. Changing(a)'
      BY <2>1 DEF Changing, LifecycleTypeOK
    <3>3. UNCHANGED <<today, lockCache, late>>
      BY <1>5 DEF SaveReactivation
    <3> QED
      BY <1>0, <2>1, <3>1, <3>2, <3>3, AfterChange
  <2>2. CASE UNCHANGED <<row, call>> /\ reactivate' = [reactivate EXCEPT ![a] = "none"]
    <3>1. \A b \in Accounts : Changing(b)' = Changing(b)
      BY <1>5, <2>2 DEF SaveReactivation, Changing, LifecycleTypeOK
    <3> QED
      BY <1>5, <2>2, <3>1, SameLocks DEF SaveReactivation
  <2> QED
    BY <1>5, <2>1, <2>2 DEF SaveReactivation
<1>6. CASE EndReactivation(a)
  <2>1. \A b \in Accounts \ {a} : Changing(b)' = Changing(b)
    BY <1>2, <1>6 DEF EndReactivation, LifecycleTypeOK
  <2> QED
    BY <1>0, <1>6, <2>1, AfterDrop DEF EndReactivation
<1>7. CASE SaveSupervision(a)
  <2>1. CASE /\ call' = Doubt(a, call)
             /\ admin' = [admin EXCEPT ![a] = IF admin[a] = "start" THEN "started" ELSE "lifted"]
             /\ row' = [row EXCEPT ![a].supervised = (admin[a] = "start")]
    <3>1. \A b \in Accounts \ {a} : row'[b] = row[b] /\ Changing(b)' = Changing(b)
      BY <1>1, <1>7, <2>1 DEF SaveSupervision, LifecycleTypeOK
    <3>2. Changing(a)'
      BY <2>1 DEF Changing, LifecycleTypeOK
    <3>3. UNCHANGED <<today, lockCache, late>>
      BY <1>7 DEF SaveSupervision
    <3> QED
      BY <1>0, <2>1, <3>1, <3>2, <3>3, AfterChange
  <2>2. CASE UNCHANGED <<row, call>> /\ admin' = [admin EXCEPT ![a] = "none"]
    <3>1. \A b \in Accounts : Changing(b)' = Changing(b)
      BY <1>7, <2>2 DEF SaveSupervision, Changing, LifecycleTypeOK
    <3> QED
      BY <1>7, <2>2, <3>1, SameLocks DEF SaveSupervision
  <2> QED
    BY <1>7, <2>1, <2>2 DEF SaveSupervision
<1>8. CASE EndSupervision(a)
  <2>1. \A b \in Accounts \ {a} : Changing(b)' = Changing(b)
    BY <1>2, <1>8 DEF EndSupervision, LifecycleTypeOK
  <2> QED
    BY <1>0, <1>8, <2>1, AfterDrop DEF EndSupervision
<1>9. CASE AdminDelete(a)
  <2>1. \A b \in Accounts \ {a} : row'[b] = row[b] /\ Changing(b)' = Changing(b)
    BY <1>1, <1>9 DEF AdminDelete, LifecycleTypeOK
  <2>2. Free(LockOf(a))'
    BY <1>9 DEF AdminDelete, LifecycleTypeOK, Free, LockOf, Closed, Exists
  <2> QED
    BY <1>0, <1>9, <2>1, <2>2, AfterChange DEF AdminDelete
<1> QED
  BY <1>3, <1>4, <1>5, <1>6, <1>7, <1>8, <1>9 DEF AccountStep

\* The steps of a purge keep locks honest: a deleted account has an open lock.
LEMMA PurgeLocks ==
    ASSUME LifecycleTypeOK, HonestCalls, HonestCache, NEW k \in Runs, PurgeStep(k)
    PROVE  HonestCalls' /\ HonestCache'
<1>1. CASE ListDue(k) \/ (\E a \in Accounts : Audit(k, a)) \/ DeleteFails(k)
  <2>1. UNCHANGED <<today, row, lockCache, call, late, reactivate, admin>>
    BY <1>1 DEF ListDue, Audit, DeleteFails
  <2>2. \A b \in Accounts : Changing(b)' = Changing(b)
    BY <2>1 DEF Changing
  <2> QED
    BY <2>1, <2>2, SameLocks
<1>2. CASE Delete(k)
  <2>1. PICK a \in Accounts : a = purge[k].now
    BY <1>2 DEF Delete, LifecycleTypeOK, Run
  <2>2. /\ call \in CallTable /\ call' = Doubt(a, call)
        /\ UNCHANGED <<today, lockCache, late, reactivate, admin>>
    BY <1>2, <2>1 DEF Delete, LifecycleTypeOK, CallTable
  <2>3. ASSUME NEW b \in Accounts PROVE Changing(b)' = Changing(b)
    <3>1. \A c \in Calls :
            (call[c] # Absent /\ call[c].account = b /\ call[c].step = "close")' <=>
            (call[c] # Absent /\ call[c].account = b /\ call[c].step = "close")
      BY <2>2, DoubtKeeps
    <3> QED
      BY <2>2, <3>1, SameChanging
  <2>4. \A b \in Accounts \ {a} : row'[b] = row[b]
    BY <1>2, <2>1 DEF Delete, LifecycleTypeOK
  <2>5. Free(LockOf(a))'
    BY <1>2, <2>1 DEF Delete, LifecycleTypeOK, Free, LockOf, Closed, Exists
  <2>6. \A c \in Calls : call[c] # Absent => Honest(call[c])
    BY DEF HonestCalls
  <2> QED
    BY <2>1, <2>2, <2>3, <2>4, <2>5, <2>6, AfterChange
<1> QED
  BY <1>1, <1>2 DEF PurgeStep

\* A new day, which no request sees, and a restart forget every lock.
LEMMA ClockLocks ==
    LifecycleTypeOK /\ (Tomorrow \/ StopServer) => HonestCalls' /\ HonestCache'
  BY DEF Tomorrow, StopServer, HonestCalls, HonestCache, LifecycleTypeOK

\* A step that replaces one request by an honest one, outside the closing route.
LEMMA OneCall ==
    ASSUME LifecycleTypeOK, HonestCalls, HonestCache, NEW c \in Calls,
           UNCHANGED <<today, row, lockCache, late, reactivate, admin>>,
           \A d \in Calls \ {c} : call'[d] = call[d],
           call[c] = Absent \/ call[c].step # "close",
           call'[c] # Absent => call'[c].step # "close" /\ Honest(call[c])'
    PROVE  HonestCalls' /\ HonestCache'
<1>1. \A b \in Accounts : Changing(b)' = Changing(b) /\ LockOf(b)' = LockOf(b)
  BY DEF Changing, LockOf, Closed, Exists
<1>2. ASSUME NEW d \in Calls, call'[d] # Absent PROVE Honest(call[d])'
  <2>1. CASE d # c
    <3>1. call'[d] = call[d] /\ Honest(call[d]) /\ call[d].account \in Accounts
      BY <1>2, <2>1 DEF HonestCalls, LifecycleTypeOK, Call
    <3> QED
      BY <1>1, <3>1 DEF Honest, Free
  <2> QED
    BY <1>2, <2>1
<1>3. HonestCache'
  BY <1>1 DEF HonestCache, Free
<1> QED
  BY <1>2, <1>3 DEF HonestCalls

\* The schedule route goes on to drop the lock.
LEMMA Scheduled ==
    ASSUME call \in CallTable, NEW c \in Calls, call[c] # Absent, NEW a, a = call[c].account,
           call' = Doubt(a, [call EXCEPT ![c].step = "close"])
    PROVE  \E calls \in CallTable :
              /\ call' = Doubt(a, calls)
              /\ \A d \in Calls \ {c} : calls[d] = call[d]
              /\ calls[c] # Absent /\ calls[c].step = "close" /\ calls[c].account = a
<1>1. [call[c] EXCEPT !.step = "close"] \in Call
  BY DEF Call, CallTable
<1>2. /\ [call[c] EXCEPT !.step = "close"].step = "close"
      /\ [call[c] EXCEPT !.step = "close"].account = a
  BY DEF Call, CallTable
<1>3. [call EXCEPT ![c] = [call[c] EXCEPT !.step = "close"]] \in CallTable
  BY <1>1 DEF CallTable
<1>4. call' = Doubt(a, [call EXCEPT ![c] = [call[c] EXCEPT !.step = "close"]])
  OBVIOUS
<1> QED
  BY <1>1, <1>2, <1>3, <1>4, AbsentAssumption DEF CallTable

\* The steps of a request keep locks honest.
LEMMA CallLocks ==
    ASSUME LifecycleTypeOK, HonestCalls, HonestCache, NEW c \in Calls,
           CallStep(c) \/ \E a \in Busy : Arrive(c, a)
    PROVE  HonestCalls' /\ HonestCache'
<1>0. /\ call \in CallTable
      /\ call[c] # Absent => call[c] \in Call /\ call[c].account \in Accounts /\ Honest(call[c])
  BY DEF LifecycleTypeOK, CallTable, Call, HonestCalls
<1>1. ASSUME NEW a \in Busy, Arrive(c, a) PROVE HonestCalls' /\ HonestCache'
  <2>1. a \in Accounts
    BY LifecycleAssumption
  <2>2. /\ UNCHANGED <<today, row, lockCache, late, reactivate, admin>>
        /\ \A d \in Calls \ {c} : call'[d] = call[d]
        /\ call[c] = Absent
    BY <1>0, <1>1 DEF Arrive, Decide, CallTable
  <2>3. CASE lockCache[a] # Absent /\ Decide(c, a, lockCache[a])
    <3>1. Free(lockCache[a]) => InDoubt(a)
      BY <2>1, <2>3 DEF HonestCache, InDoubt
    <3>2. call'[c] # Absent => call'[c].step = "passed" /\ call'[c].open
      BY <1>0, <2>2, <2>3, <3>1 DEF Decide, CallTable
    <3> QED
      BY <2>2, <3>2, OneCall DEF Honest
  <2>4. CASE call' = [call EXCEPT ![c] = [account |-> a, step |-> "miss", lock |-> Absent,
                                          open |-> InDoubt(a), stale |-> FALSE]]
    <3>1. call'[c].step = "miss" /\ call'[c].account = a /\ call'[c].open = InDoubt(a)
      BY <1>0, <2>4 DEF CallTable
    <3>2. LockOf(a)' = LockOf(a)
      BY <2>2 DEF LockOf, Closed, Exists
    <3>3. Honest(call[c])'
      BY <3>1, <3>2 DEF Honest, InDoubt, Free
    <3> QED
      BY <2>2, <3>1, <3>3, OneCall
  <2> QED
    BY <1>1, <2>3, <2>4 DEF Arrive
<1>2. CASE ReadLock(c)
  <2>1. /\ UNCHANGED <<today, row, lockCache, late, reactivate, admin>>
        /\ \A d \in Calls \ {c} : call'[d] = call[d]
        /\ call[c] # Absent /\ call[c].step = "miss"
    BY <1>0, <1>2 DEF ReadLock, CallTable
  <2>2. call'[c] = [call[c] EXCEPT !.step = "read", !.lock = LockOf(call[c].account)]
    BY <1>0, <1>2 DEF ReadLock, CallTable
  <2>3. /\ call'[c].step = "read" /\ call'[c].account = call[c].account
        /\ call'[c].lock = LockOf(call[c].account) /\ call'[c].open = call[c].open
    BY <1>0, <2>1, <2>2 DEF Call
  <2>5. /\ call'[c].step = "read"
        /\ Free(call'[c].lock) => call'[c].open /\ Free(LockOf(call'[c].account))
    BY <1>0, <2>1, <2>3 DEF Honest
  <2>7. Honest(call[c])'
    BY <2>5, <2>1 DEF Honest, Free, LockOf, Closed, Exists
  <2> QED
    BY <2>1, <2>3, <2>7, OneCall
<1>3. CASE FillLock(c)
  <2>1. PICK a \in Accounts : a = call[c].account
    BY <1>0, <1>3 DEF FillLock
  <2>2. /\ UNCHANGED <<today, row, reactivate, admin>>
        /\ \A d \in Calls \ {c} : call'[d] = call[d]
        /\ call[c] # Absent /\ call[c].step = "read"
        /\ lockCache' = [lockCache EXCEPT ![a] = call[c].lock]
        /\ late' = IF call[c].stale THEN late \cup {a} ELSE late \ {a}
        /\ Decide(c, a, call[c].lock)
    BY <1>0, <1>3, <2>1 DEF FillLock, Decide, CallTable
  <2>3. call'[c] # Absent => call'[c].step = "passed" /\ call'[c].open
    BY <1>0, <2>2 DEF Decide, CallTable, Honest
  <2>4. \A b \in Accounts : Changing(b)' = Changing(b) /\ LockOf(b)' = LockOf(b)
    <3>1. \A d \in Calls : (call[d] # Absent /\ call[d].step = "close")' <=>
                            (call[d] # Absent /\ call[d].step = "close")
      BY <2>2, <2>3
    <3>2. \A d \in Calls : call[d] # Absent /\ call[d].step = "close" => call'[d] = call[d]
      BY <2>2
    <3> QED
      BY <2>2, <3>1, <3>2 DEF Changing, LockOf, Closed, Exists
  <2>5. ASSUME NEW d \in Calls, call'[d] # Absent PROVE Honest(call[d])'
    <3>1. CASE d = c
      BY <2>3, <2>5, <3>1 DEF Honest
    <3>2. CASE d # c
      <4>1. call'[d] = call[d] /\ Honest(call[d]) /\ call[d].account \in Accounts
        BY <2>2, <2>5, <3>2 DEF HonestCalls, LifecycleTypeOK, Call
      <4> QED
        BY <2>2, <2>4, <4>1 DEF Honest, Free
    <3> QED
      BY <3>1, <3>2
  <2>6. ASSUME NEW b \in Accounts, lockCache'[b] # Absent, Free(lockCache[b])'
        PROVE b \in late' \/ Changing(b)' \/ Free(LockOf(b))'
    <3>1. CASE b = a
      <4>1. lockCache'[b] = call[c].lock
        BY <2>2, <3>1 DEF LifecycleTypeOK
      <4>2. call[c].stale \/ Changing(a) \/ Free(LockOf(a))
        BY <1>0, <2>1, <2>2, <2>6, <4>1 DEF Honest, Free
      <4> QED
        BY <2>2, <2>4, <3>1, <4>2 DEF Free
    <3>2. CASE b # a
      BY <2>2, <2>4, <2>6, <3>2 DEF HonestCache, LifecycleTypeOK, Free
    <3> QED
      BY <3>1, <3>2
  <2> QED
    BY <2>5, <2>6 DEF HonestCalls, HonestCache
<1>4. CASE EndCall(c)
  <2>1. /\ UNCHANGED <<today, row, lockCache, late, reactivate, admin>>
        /\ \A d \in Calls \ {c} : call'[d] = call[d]
        /\ call[c].step # "close" /\ call'[c] = Absent
    BY <1>0, <1>4 DEF EndCall, CallTable
  <2> QED
    BY <2>1, OneCall
<1>5. CASE CheckSchedule(c)
  <2>1. /\ UNCHANGED <<today, row, lockCache, late, reactivate, admin>>
        /\ \A d \in Calls \ {c} : call'[d] = call[d]
        /\ call[c] # Absent /\ call[c].step = "passed"
        /\ today + DeletionDays <= MaxDay
        /\ call'[c] = [call[c] EXCEPT !.step = "schedule"]
    BY <1>0, <1>5 DEF CheckSchedule, CallTable
  <2>2. call'[c].step = "schedule" /\ call'[c].open
    BY <1>0, <2>1 DEF Call, Honest
  <2>3. Honest(call[c])'
    BY <2>1, <2>2 DEF Honest
  <2> QED
    BY <2>1, <2>2, <2>3, OneCall
<1>6. CASE SaveSchedule(c)
  <2>1. PICK a \in Accounts : a = call[c].account
    BY <1>0, <1>6 DEF SaveSchedule
  <2>2. /\ UNCHANGED <<today, lockCache, late, reactivate, admin>>
        /\ call[c] # Absent /\ call[c].step = "schedule"
    BY <1>6 DEF SaveSchedule
  <2>3. CASE call' = [call EXCEPT ![c] = Absent] /\ UNCHANGED row
    <3>1. (\A d \in Calls \ {c} : call'[d] = call[d]) /\ call'[c] = Absent
      BY <1>0, <2>3 DEF CallTable
    <3> QED
      BY <2>2, <2>3, <3>1, OneCall
  <2>4. CASE /\ row' = [row EXCEPT ![a].due = today + DeletionDays]
             /\ call' = Doubt(a, [call EXCEPT ![c].step = "close"])
    <3>1. PICK calls \in CallTable :
              /\ call' = Doubt(a, calls)
              /\ \A d \in Calls \ {c} : calls[d] = call[d]
              /\ calls[c] # Absent /\ calls[c].step = "close" /\ calls[c].account = a
      BY <1>0, <2>1, <2>2, <2>4, Scheduled
    <3>2. \A d \in Calls : calls[d] # Absent => Honest(calls[d])
      BY <3>1 DEF Honest, HonestCalls
    <3>3. /\ call'[c] # Absent /\ call'[c].step = "close" /\ call'[c].account = a
      BY <3>1, DoubtKeeps
    <3>4. Changing(a)'
      BY <3>3 DEF Changing
    <3>5. ASSUME NEW b \in Accounts \ {a} PROVE Changing(b)' = Changing(b)
      <4>1. ASSUME NEW d \in Calls
            PROVE (call[d] # Absent /\ call[d].account = b /\ call[d].step = "close")' <=>
                  (call[d] # Absent /\ call[d].account = b /\ call[d].step = "close")
        <5>1. CASE d = c
          BY <2>1, <3>3, <5>1
        <5>2. CASE d # c
          BY <3>1, <5>2, DoubtKeeps
        <5> QED
          BY <5>1, <5>2
      <4> QED
        BY <2>2, <4>1, SameChanging
    <3>6. \A b \in Accounts \ {a} : row'[b] = row[b]
      BY <2>4 DEF LifecycleTypeOK
    <3> QED
      BY <2>2, <3>1, <3>2, <3>4, <3>5, <3>6, AfterChange
  <2> QED
    BY <1>6, <2>1, <2>3, <2>4 DEF SaveSchedule
<1>7. CASE CloseSessions(c)
  <2>1. PICK a \in Accounts : a = call[c].account
    BY <1>0, <1>7 DEF CloseSessions
  <2>2. PICK calls \in CallTable :
            /\ \A d \in Calls \ {c} : calls[d] = call[d]
            /\ calls[c] = Absent
            /\ Invalidate(a, calls)
    <3>1. [call EXCEPT ![c] = Absent] \in CallTable
      BY <1>0 DEF CallTable
    <3> QED
      BY <1>0, <1>7, <2>1, <3>1 DEF CloseSessions, CallTable
  <2>3. /\ UNCHANGED <<today, row, reactivate, admin>>
        /\ call[c] # Absent /\ call[c].step = "close" /\ call[c].account = a
        /\ c \notin Reading(a)
    BY <1>7, <2>1 DEF CloseSessions, Reading
  <2>4. /\ \A d \in Calls : calls[d] \in {call[d], Absent}
        /\ \A d \in Reading(a) : calls[d] # Absent
    BY <2>2, <2>3 DEF Reading
  <2>5. ASSUME NEW b \in Accounts \ {a} PROVE Changing(b)' = Changing(b)
    <3>1. ASSUME NEW d \in Calls
          PROVE (call[d] # Absent /\ call[d].account = b /\ call[d].step = "close")' <=>
                (call[d] # Absent /\ call[d].account = b /\ call[d].step = "close")
      <4>1. CASE d \in Reading(a)
        <5>1. call'[d] = [call[d] EXCEPT !.stale = TRUE] /\ call[d] \in Call
          BY <1>0, <2>2, <2>3, <4>1 DEF Invalidate, Reading, CallTable
        <5>2. call'[d].step = "read" /\ call[d].step = "read"
          BY <4>1, <5>1 DEF Call, Reading
        <5> QED
          BY <5>2
      <4>2. CASE d \notin Reading(a)
        BY <2>2, <2>3, <4>2 DEF Invalidate
      <4> QED
        BY <4>1, <4>2
    <3> QED
      BY <2>3, <3>1, SameChanging
  <2> QED
    BY <2>2, <2>3, <2>4, <2>5, AfterDrop
<1> QED
  BY <1>1, <1>2, <1>3, <1>4, <1>5, <1>6, <1>7 DEF CallStep

-----------------------------------------------------------------------------
(* What is due *)

\* A step that opens no lock to requests of what is due: each request of b is as it
\* was, is over, or is still before the lock.
LEMMA StaysShut ==
    ASSUME LifecycleTypeOK, DueIsShut,
           \A b \in Accounts : b \in crossed => b \in crossed',
           \A b \in Accounts : Due(b)' => Due(b) \/ b \in crossed',
           \A b \in Accounts : Due(b)' => lockCache'[b] \in {lockCache[b], Absent} \/ ~Free(lockCache'[b]),
           \A c \in Calls : call'[c] # Absent /\ Due(call[c].account)' /\ call'[c].account \notin crossed =>
               \/ ShutCall(call'[c])
               \/ /\ call[c] # Absent /\ call[c].account = call'[c].account
                  /\ call[c].step = call'[c].step /\ call[c].lock = call'[c].lock
    PROVE  DueIsShut'
<1> SUFFICES ASSUME NEW b \in Accounts, Due(b)', b \notin crossed'
             PROVE  /\ lockCache'[b] = Absent \/ ~Free(lockCache'[b])
                    /\ \A c \in Calls : call'[c] # Absent /\ call'[c].account = b => ShutCall(call'[c])
  BY DEF DueIsShut, ShutCall, Free
<1>1. /\ lockCache[b] = Absent \/ ~Free(lockCache[b])
      /\ \A c \in Calls : call[c] # Absent /\ call[c].account = b => ShutCall(call[c])
  BY DEF DueIsShut
<1>2. ASSUME NEW c \in Calls, call'[c] # Absent, call'[c].account = b PROVE ShutCall(call'[c])
  <2>1. Due(call[c].account)' /\ call'[c].account \notin crossed
    BY <1>2
  <2> QED
    BY <1>1, <1>2, <2>1 DEF ShutCall, Free
<1> QED
  BY <1>1, <1>2

\* The steps of a request open no lock of what is due, and put no date off.
LEMMA CallDue ==
    ASSUME LifecycleTypeOK, DueIsShut, ListIsDue, NEW c \in Calls,
           CallStep(c) \/ \E a \in Busy : Arrive(c, a)
    PROVE  DueIsShut' /\ ListIsDue'
<1> USE DEF LifecycleTypeOK
<1>0. /\ call \in CallTable
      /\ call[c] # Absent => call[c] \in Call /\ call[c].account \in Accounts
  BY DEF CallTable, Call
<1>1. \A a \in Accounts : Due(a) => ~Free(LockOf(a))
  BY DEF Due, Free, LockOf
<1>2. ASSUME UNCHANGED <<today, row, purge, crossed, audited>>
      PROVE  ListIsDue' /\ \A b \in Accounts : Due(b)' = Due(b)
  BY <1>2 DEF ListIsDue, Due, Closed, Exists
<1>3. ASSUME NEW a \in Busy, Arrive(c, a) PROVE DueIsShut' /\ ListIsDue'
  <2>1. a \in Accounts /\ UNCHANGED <<today, row, purge, crossed, audited, lockCache>>
    BY <1>3, LifecycleAssumption DEF Arrive
  <2>2. \A d \in Calls \ {c} : call'[d] = call[d]
    BY <1>0, <1>3 DEF Arrive, Decide, CallTable
  <2>3. call'[c] # Absent => /\ call'[c].account = a
                             /\ call'[c].step = "miss" \/ (lockCache[a] # Absent /\ Free(lockCache[a]))
    BY <1>0, <1>3 DEF Arrive, Decide, CallTable
  <2>4. call'[c] # Absent /\ Due(a) /\ a \notin crossed => ShutCall(call'[c])
    BY <2>1, <2>3 DEF DueIsShut, ShutCall
  <2>5. DueIsShut'
    BY <1>2, <2>1, <2>2, <2>3, <2>4, StaysShut DEF Due, Closed, Exists
  <2> QED
    BY <1>2, <2>1, <2>5
<1>4. CASE ReadLock(c)
  <2>1. UNCHANGED <<today, row, purge, crossed, audited, lockCache>>
    BY <1>4 DEF ReadLock
  <2>2. \A d \in Calls \ {c} : call'[d] = call[d]
    BY <1>0, <1>4 DEF ReadLock, CallTable
  <2>3. call'[c] = [call[c] EXCEPT !.step = "read", !.lock = LockOf(call[c].account)]
    BY <1>0, <1>4 DEF ReadLock, CallTable
  <2>4. call'[c].step = "read" /\ call'[c].account = call[c].account /\ call'[c].lock = LockOf(call[c].account)
    BY <1>0, <1>4, <2>3 DEF Call, ReadLock
  <2>5. Due(call[c].account) => ShutCall(call'[c])
    BY <1>0, <1>1, <1>4, <2>4 DEF ShutCall, ReadLock
  <2>6. DueIsShut'
    BY <1>2, <2>1, <2>2, <2>4, <2>5, StaysShut DEF Due, Closed, Exists
  <2> QED
    BY <1>2, <2>1, <2>6
<1>5. CASE FillLock(c)
  <2>1. PICK a \in Accounts : a = call[c].account
    BY <1>0, <1>5 DEF FillLock
  <2>2. /\ UNCHANGED <<today, row, purge, crossed, audited>>
        /\ \A d \in Calls \ {c} : call'[d] = call[d]
        /\ call[c] # Absent /\ call[c].step = "read"
        /\ lockCache' = [lockCache EXCEPT ![a] = call[c].lock]
        /\ Decide(c, a, call[c].lock)
    BY <1>0, <1>5, <2>1 DEF FillLock, Decide, CallTable
  <2>3. call'[c] # Absent => call'[c].account = a /\ Free(call[c].lock)
    BY <1>0, <2>2 DEF Decide, CallTable
  <2>4. Due(a) /\ a \notin crossed => ~Free(call[c].lock)
    BY <2>1, <2>2 DEF DueIsShut, ShutCall
  <2>5. \A b \in Accounts : Due(b) /\ b \notin crossed =>
            lockCache'[b] \in {lockCache[b], Absent} \/ ~Free(lockCache'[b])
    BY <2>2, <2>4
  <2>6. ASSUME NEW b \in Accounts, Due(b), b \notin crossed
        PROVE  /\ lockCache'[b] = Absent \/ ~Free(lockCache'[b])
               /\ \A d \in Calls : call'[d] # Absent /\ call'[d].account = b => ShutCall(call'[d])
    <3>1. /\ lockCache[b] = Absent \/ ~Free(lockCache[b])
          /\ \A d \in Calls : call[d] # Absent /\ call[d].account = b => ShutCall(call[d])
      BY <2>6 DEF DueIsShut
    <3> QED
      BY <2>2, <2>3, <2>4, <2>5, <2>6, <3>1
  <2>7. DueIsShut'
    BY <1>2, <2>2, <2>6 DEF DueIsShut, ShutCall, Free
  <2> QED
    BY <1>2, <2>2, <2>7
<1>6. CASE EndCall(c)
  <2>1. UNCHANGED <<today, row, purge, crossed, audited, lockCache>>
    BY <1>6 DEF EndCall
  <2>2. (\A d \in Calls \ {c} : call'[d] = call[d]) /\ call'[c] = Absent
    BY <1>0, <1>6 DEF EndCall, CallTable
  <2>3. DueIsShut'
    BY <1>2, <2>1, <2>2, StaysShut
  <2> QED
    BY <1>2, <2>1, <2>3
<1>7. CASE CheckSchedule(c)
  <2>1. UNCHANGED <<today, row, purge, crossed, audited, lockCache>>
    BY <1>7 DEF CheckSchedule
  <2>2. \A d \in Calls \ {c} : call'[d] = call[d]
    BY <1>0, <1>7 DEF CheckSchedule, CallTable
  <2>3. call'[c] = [call[c] EXCEPT !.step = "schedule"]
    BY <1>0, <1>7 DEF CheckSchedule, CallTable
  <2>4. call'[c].account = call[c].account /\ call[c].step = "passed"
    BY <1>0, <1>7, <2>3 DEF Call, CheckSchedule
  <2>5. Due(call[c].account) => call[c].account \in crossed
    BY <1>0, <1>7 DEF DueIsShut, ShutCall, CheckSchedule
  <2>6. DueIsShut'
    BY <1>2, <2>1, <2>2, <2>4, <2>5, StaysShut DEF Due, Closed, Exists
  <2> QED
    BY <1>2, <2>1, <2>6
<1>8. CASE SaveSchedule(c)
  <2>1. PICK a \in Accounts : a = call[c].account
    BY <1>0, <1>8 DEF SaveSchedule
  <2>2. /\ UNCHANGED <<today, purge, crossed, audited, lockCache>>
        /\ call[c] # Absent /\ call[c].step = "schedule"
    BY <1>8 DEF SaveSchedule
  <2>3. CASE UNCHANGED row /\ call' = [call EXCEPT ![c] = Absent]
    <3>1. (\A d \in Calls \ {c} : call'[d] = call[d]) /\ call'[c] = Absent
      BY <1>0, <2>3 DEF CallTable
    <3> QED
      BY <1>2, <2>2, <2>3, <3>1, StaysShut
  <2>4. CASE /\ Exists(a)
             /\ row' = [row EXCEPT ![a].due = today + DeletionDays]
             /\ call' = Doubt(a, [call EXCEPT ![c].step = "close"])
    <3>1. row'[a] # Absent => row'[a].due = today + DeletionDays
      <4>1. row[a] \in Row /\ row'[a] = [row[a] EXCEPT !.due = today + DeletionDays]
        BY <2>4 DEF Exists
      <4> QED
        BY <4>1 DEF Row
    <3>2. ~Due(a)'
      BY <2>2, <3>1, LifecycleAssumption DEF Due, Closed, Exists, Days
    <3>3. \A b \in Accounts \ {a} : row'[b] = row[b]
      BY <2>4
    <3>4. \A b \in Accounts \ {a} : Due(b)' = Due(b)
      BY <2>2, <3>3 DEF Due, Closed, Exists
    <3>5. PICK calls \in CallTable :
              /\ call' = Doubt(a, calls)
              /\ \A d \in Calls \ {c} : calls[d] = call[d]
              /\ calls[c] # Absent /\ calls[c].step = "close" /\ calls[c].account = a
      BY <1>0, <2>1, <2>2, <2>4, Scheduled
    <3>6. /\ call'[c].account = a
          /\ \A d \in Calls \ {c} : call'[d] # Absent =>
              /\ call[d] # Absent /\ call[d].account = call'[d].account
              /\ call[d].step = call'[d].step /\ call[d].lock = call'[d].lock
      BY <3>5, DoubtKeeps
    <3>7. DueIsShut'
      BY <2>2, <3>2, <3>4, <3>6, StaysShut DEF Due, Closed, Exists
    <3>8. Due(a) => a \in crossed
      BY <2>1, <2>2 DEF DueIsShut, ShutCall
    <3>9. ListIsDue'
      BY <2>2, <2>4, <3>3, <3>4, <3>8 DEF ListIsDue, Exists, Run
    <3> QED
      BY <3>7, <3>9
  <2> QED
    BY <1>8, <2>1, <2>3, <2>4 DEF SaveSchedule
<1>9. CASE CloseSessions(c)
  <2>1. UNCHANGED <<today, row, purge, crossed, audited>>
    BY <1>9 DEF CloseSessions
  <2>2. \A b \in Accounts : lockCache'[b] \in {lockCache[b], Absent}
    BY <1>9 DEF CloseSessions, Invalidate
  <2>3. ASSUME NEW d \in Calls, call'[d] # Absent
        PROVE  /\ call[d] # Absent /\ call[d].account = call'[d].account
               /\ call[d].step = call'[d].step /\ call[d].lock = call'[d].lock
    <3>1. CASE d \in Reading(call[c].account)
      <4>1. d # c /\ call[d] \in Call /\ call'[d] = [call[d] EXCEPT !.stale = TRUE]
        BY <1>0, <1>9, <3>1 DEF CloseSessions, Invalidate, Reading, CallTable
      <4> QED
        BY <3>1, <4>1 DEF Call, Reading
    <3>2. CASE d \notin Reading(call[c].account)
      BY <1>0, <1>9, <2>3, <3>2 DEF CloseSessions, Invalidate, CallTable
    <3> QED
      BY <3>1, <3>2
  <2>4. DueIsShut'
    BY <1>2, <2>1, <2>2, <2>3, StaysShut
  <2> QED
    BY <1>2, <2>1, <2>4
<1> QED
  BY <1>3, <1>4, <1>5, <1>6, <1>7, <1>8, <1>9 DEF CallStep

\* The steps about one account open no lock of what is due; a reactivation that
\* takes a date away after it came is remembered.
LEMMA AccountDue ==
    ASSUME LifecycleTypeOK, DueIsShut, ListIsDue, CheckedInTime, NEW a \in Accounts,
           AccountStep(a)
    PROVE  DueIsShut' /\ ListIsDue'
<1> USE DEF LifecycleTypeOK
<1>0. call \in CallTable
  BY DEF CallTable
<1>1. ASSUME \A b \in Accounts \ {a} : row'[b] = row[b],
             Due(a)' => Due(a) \/ a \in crossed',
             Due(a) => Due(a)' \/ a \in crossed' \/ ~Exists(a)',
             UNCHANGED <<today, purge, audited>>, crossed \subseteq crossed'
      PROVE  ListIsDue' /\ \A b \in Accounts : Due(b)' => Due(b) \/ b \in crossed'
  <2>1. \A b \in Accounts \ {a} : Due(b)' = Due(b) /\ Exists(b)' = Exists(b)
    BY <1>1 DEF Due, Closed, Exists
  <2>2. ~Exists(a) => ~Exists(a)'
    <3>1. row \in [Accounts -> Row \cup {Absent}] /\ (~Exists(a) => row[a] = Absent)
      BY DEF Exists
    <3>2. CASE ~Exists(a)
      BY <3>1, <3>2 DEF AccountStep, ExpireLock, BeginSignIn, EndSignIn, CheckReactivation,
           SaveReactivation, EndReactivation, CheckSupervision, SaveSupervision,
           EndSupervision, AdminDelete, Exists
    <3> QED
      BY <3>2
  <2> QED
    BY <1>1, <2>1, <2>2 DEF ListIsDue, Run
<1>2. ASSUME row' = row, today' = today PROVE Due(a)' = Due(a)
  BY <1>2 DEF Due, Closed, Exists
<1>3. ASSUME call' \in {call, Doubt(a, call)}, NEW c \in Calls, call'[c] # Absent
      PROVE  /\ call[c] # Absent /\ call[c].account = call'[c].account
             /\ call[c].step = call'[c].step /\ call[c].lock = call'[c].lock
  BY <1>0, <1>3, DoubtKeeps
<1>4. ASSUME Invalidate(a, call), NEW c \in Calls, call'[c] # Absent
      PROVE  /\ call[c] # Absent /\ call[c].account = call'[c].account
             /\ call[c].step = call'[c].step /\ call[c].lock = call'[c].lock
  <2>1. CASE c \in Reading(a)
    <3>1. call[c] \in Call /\ call'[c] = [call[c] EXCEPT !.stale = TRUE]
      BY <1>4, <2>1 DEF Invalidate, Reading
    <3> QED
      BY <2>1, <3>1 DEF Call, Reading
  <2>2. CASE c \notin Reading(a)
    BY <1>4, <2>2 DEF Invalidate
  <2> QED
    BY <2>1, <2>2
<1>5. CASE \/ ExpireLock(a) \/ BeginSignIn(a) \/ EndSignIn(a)
           \/ CheckReactivation(a) \/ CheckSupervision(a)
  <2>1. /\ UNCHANGED <<today, row, purge, audited, crossed, call>>
        /\ \A b \in Accounts : lockCache'[b] \in {lockCache[b], Absent}
    BY <1>5 DEF ExpireLock, BeginSignIn, EndSignIn, CheckReactivation, CheckSupervision
  <2>2. ListIsDue' /\ \A b \in Accounts : Due(b)' => Due(b) \/ b \in crossed'
    BY <1>1, <1>2, <2>1
  <2> QED
    BY <2>1, <2>2, StaysShut
<1>6. CASE SaveReactivation(a)
  <2>1. /\ UNCHANGED <<today, purge, audited, lockCache>> /\ crossed \subseteq crossed'
        /\ \A b \in Accounts \ {a} : row'[b] = row[b]
        /\ call' \in {call, Doubt(a, call)}
    BY <1>6 DEF SaveReactivation
  <2>2. (Due(a)' => Due(a)) /\ (Due(a) => Due(a)' \/ a \in crossed')
    <3>1. CASE Exists(a)
      <4>1. row[a] \in Row /\ row'[a] = [row[a] EXCEPT !.due = Absent]
        BY <1>6, <3>1 DEF SaveReactivation, Exists
      <4>2. row'[a].due = Absent
        BY <4>1 DEF Row
      <4>3. Due(a) => a \in crossed
        BY <1>6 DEF SaveReactivation, CheckedInTime
      <4> QED
        BY <1>6, <4>2, <4>3 DEF SaveReactivation, Due, Closed, Exists
    <3>2. CASE ~Exists(a)
      BY <1>2, <1>6, <3>2 DEF SaveReactivation
    <3> QED
      BY <3>1, <3>2
  <2>3. ListIsDue' /\ \A b \in Accounts : Due(b)' => Due(b) \/ b \in crossed'
    BY <1>1, <2>1, <2>2
  <2> QED
    BY <1>3, <2>1, <2>3, StaysShut
<1>7. CASE EndReactivation(a) \/ EndSupervision(a)
  <2>1. /\ UNCHANGED <<today, row, purge, audited, crossed>>
        /\ \A b \in Accounts : lockCache'[b] \in {lockCache[b], Absent}
        /\ Invalidate(a, call)
    BY <1>7 DEF EndReactivation, EndSupervision, Invalidate
  <2>2. ListIsDue' /\ \A b \in Accounts : Due(b)' => Due(b) \/ b \in crossed'
    BY <1>1, <1>2, <2>1
  <2> QED
    BY <1>4, <2>1, <2>2, StaysShut
<1>8. CASE SaveSupervision(a)
  <2>1. /\ UNCHANGED <<today, purge, audited, lockCache, crossed>>
        /\ \A b \in Accounts \ {a} : row'[b] = row[b]
        /\ call' \in {call, Doubt(a, call)}
    BY <1>8 DEF SaveSupervision
  <2>2. Due(a)' = Due(a)
    <3>1. CASE Exists(a)
      <4>1. row[a] \in Row /\ row'[a] = [row[a] EXCEPT !.supervised = (admin[a] = "start")]
        BY <1>8, <3>1 DEF SaveSupervision, Exists
      <4>2. row'[a].due = row[a].due /\ row'[a] \in Row
        BY <4>1 DEF Row
      <4> QED
        BY <2>1, <3>1, <4>2, AbsentAssumption DEF Due, Closed, Exists
    <3>2. CASE ~Exists(a)
      BY <1>2, <1>8, <3>2 DEF SaveSupervision
    <3> QED
      BY <3>1, <3>2
  <2>3. ListIsDue' /\ \A b \in Accounts : Due(b)' => Due(b) \/ b \in crossed'
    BY <1>1, <2>1, <2>2
  <2> QED
    BY <1>3, <2>1, <2>3, StaysShut
<1>9. CASE AdminDelete(a)
  <2>1. /\ UNCHANGED <<today, purge, audited, lockCache, crossed>>
        /\ \A b \in Accounts \ {a} : row'[b] = row[b]
        /\ call' \in {call, Doubt(a, call)}
        /\ ~Exists(a)' /\ ~Due(a)'
    BY <1>9 DEF AdminDelete, Due, Closed, Exists
  <2>2. ListIsDue' /\ \A b \in Accounts : Due(b)' => Due(b) \/ b \in crossed'
    BY <1>1, <2>1
  <2> QED
    BY <1>3, <2>1, <2>2, StaysShut
<1> QED
  BY <1>5, <1>6, <1>7, <1>8, <1>9 DEF AccountStep

\* A purge takes what is due, writes the audit row and only then deletes.
LEMMA PurgeDue ==
    ASSUME LifecycleTypeOK, PurgeIsAudited, DueIsShut, ListIsDue, NEW k \in Runs, PurgeStep(k)
    PROVE  DueIsShut' /\ ListIsDue' /\ PurgeIsAudited'
<1> USE DEF LifecycleTypeOK
<1>0. call \in CallTable /\ (purge[k] # Absent => purge[k] \in Run)
  BY DEF CallTable
<1>1. ASSUME UNCHANGED <<today, row, crossed>>
      PROVE  \A b \in Accounts : Due(b)' = Due(b) /\ Exists(b)' = Exists(b)
  BY <1>1 DEF Due, Closed, Exists
<1>2. ASSUME NextAccount(k), purge[k] # Absent
      PROVE  /\ \A j \in Runs \ {k} : purge'[j] = purge[j]
             /\ purge'[k] # Absent => /\ purge'[k].todo \subseteq purge[k].todo
                                      /\ purge'[k].now = Absent
  BY <1>2 DEF NextAccount
<1>3. CASE ListDue(k)
  <2>1. UNCHANGED <<today, row, crossed, lockCache, call, audited, purged>>
    BY <1>3 DEF ListDue
  <2>2. PICK due \in SUBSET Accounts :
            /\ due = {b \in Accounts : Due(b)}
            /\ purge' = [purge EXCEPT ![k] = [todo |-> due, now |-> Absent]]
    BY <1>3 DEF ListDue, Due
  <2>3. ListIsDue'
    BY <1>1, <2>1, <2>2 DEF ListIsDue, Run
  <2>4. DueIsShut'
    BY <1>1, <2>1, StaysShut
  <2> QED
    BY <2>1, <2>3, <2>4 DEF PurgeIsAudited
<1>4. ASSUME NEW a \in Accounts, Audit(k, a) PROVE DueIsShut' /\ ListIsDue' /\ PurgeIsAudited'
  <2>1. UNCHANGED <<today, row, crossed, lockCache, call, purged>> /\ audited' = audited \cup {a}
    BY <1>4 DEF Audit
  <2>2. /\ \A j \in Runs \ {k} : purge'[j] = purge[j]
        /\ purge'[k] = [purge[k] EXCEPT !.now = a] /\ purge[k] # Absent /\ a \in purge[k].todo
    BY <1>4 DEF Audit
  <2>3. purge'[k].todo = purge[k].todo /\ purge'[k].now = a
    BY <1>0, <2>2 DEF Run
  <2>4. ListIsDue'
    BY <1>1, <2>1, <2>2, <2>3 DEF ListIsDue, Run
  <2>5. DueIsShut'
    BY <1>1, <2>1, StaysShut
  <2> QED
    BY <2>1, <2>4, <2>5 DEF PurgeIsAudited
<1>5. CASE Delete(k)
  <2>1. PICK a \in Accounts : a = purge[k].now
    BY <1>0, <1>5 DEF Delete, Run
  <2>2. /\ UNCHANGED <<today, crossed, lockCache, audited>>
        /\ purged' = purged \cup {a} /\ a \in audited
        /\ row' = [row EXCEPT ![a] = Absent] /\ call' = Doubt(a, call)
        /\ NextAccount(k) /\ purge[k] # Absent
    BY <1>5, <2>1 DEF Delete, ListIsDue
  <2>3. /\ ~Exists(a)' /\ ~Due(a)'
        /\ \A b \in Accounts \ {a} : Due(b)' = Due(b) /\ Exists(b)' = Exists(b)
    BY <2>2 DEF Due, Closed, Exists
  <2>4. ListIsDue'
    BY <1>2, <2>2, <2>3 DEF ListIsDue, Run
  <2>5. \A c \in Calls : call'[c] # Absent =>
            /\ call[c] # Absent /\ call[c].account = call'[c].account
            /\ call[c].step = call'[c].step /\ call[c].lock = call'[c].lock
    BY <1>0, <2>2, DoubtKeeps
  <2>6. DueIsShut'
    BY <2>2, <2>3, <2>5, StaysShut
  <2> QED
    BY <2>2, <2>4, <2>6 DEF PurgeIsAudited
<1>6. CASE DeleteFails(k)
  <2>1. UNCHANGED <<today, row, crossed, lockCache, call, audited, purged>> /\ NextAccount(k) /\ purge[k] # Absent
    BY <1>6 DEF DeleteFails
  <2>2. ListIsDue'
    BY <1>1, <1>2, <2>1 DEF ListIsDue, Run
  <2>3. DueIsShut'
    BY <1>1, <2>1, StaysShut
  <2> QED
    BY <2>1, <2>2, <2>3 DEF PurgeIsAudited
<1> QED
  BY <1>3, <1>4, <1>5, <1>6 DEF PurgeStep

\* When a day begins nobody is inside, and after a restart nobody is either.
LEMMA ClockDue ==
    ASSUME LifecycleTypeOK, ListIsDue, Tomorrow \/ StopServer
    PROVE  DueIsShut' /\ ListIsDue'
<1> USE DEF LifecycleTypeOK
<1>1. CASE Tomorrow
  <2>1. \A b \in Accounts : (Due(b) => Due(b)') /\ Exists(b)' = Exists(b)
    BY <1>1, LifecycleAssumption DEF Tomorrow, Due, Closed, Exists, Row, Days
  <2>2. ListIsDue'
    BY <1>1, <2>1 DEF Tomorrow, ListIsDue, Run
  <2> QED
    BY <1>1, <2>2 DEF Tomorrow, DueIsShut
<1>2. CASE StopServer
  BY <1>2 DEF StopServer, DueIsShut, ListIsDue
<1> QED
  BY <1>1, <1>2

\* No step makes a reactivation late unnoticed: it begins before the date, and a
\* date is only ever set to a day to come.
LEMMA StaysInTime == LifecycleTypeOK /\ CheckedInTime /\ LifecycleNext => CheckedInTime'
<1> SUFFICES ASSUME LifecycleTypeOK, CheckedInTime, LifecycleNext PROVE CheckedInTime'
  OBVIOUS
<1> USE DEF LifecycleTypeOK
<1>0. Busy \subseteq Accounts
  BY LifecycleAssumption
<1>1. ASSUME crossed' = crossed, today' = today,
             NEW a \in Accounts, \A b \in Accounts \ {a} : row'[b] = row[b] /\ reactivate'[b] = reactivate[b],
             reactivate'[a] = "checked" /\ Due(a)' => reactivate[a] = "checked" /\ Due(a)
      PROVE  CheckedInTime'
  BY <1>1 DEF CheckedInTime, Due, Closed, Exists
<1>2. ASSUME UNCHANGED <<crossed, today, row, reactivate>> PROVE CheckedInTime'
  BY <1>2 DEF CheckedInTime, Due, Closed, Exists
<1>3. ASSUME NEW c \in Calls, CallStep(c) \/ \E a \in Busy : Arrive(c, a) PROVE CheckedInTime'
  <2>1. CASE SaveSchedule(c) /\ row' # row
    <3>1. PICK a \in Accounts : a = call[c].account
      BY <2>1 DEF SaveSchedule, Call
    <3>2. /\ Exists(a) /\ row' = [row EXCEPT ![a].due = today + DeletionDays]
          /\ UNCHANGED <<crossed, today, reactivate>>
      BY <2>1, <3>1 DEF SaveSchedule
    <3>3. row[a] \in Row /\ row'[a] = [row[a] EXCEPT !.due = today + DeletionDays]
      BY <3>2 DEF Exists
    <3>4. row'[a].due = today + DeletionDays
      BY <3>3 DEF Row
    <3>5. ~Due(a)'
      BY <3>2, <3>4, LifecycleAssumption DEF Due, Closed, Exists, Days
    <3> QED
      BY <1>1, <3>2, <3>5
  <2>2. CASE ~(SaveSchedule(c) /\ row' # row)
    <3>1. UNCHANGED <<crossed, today, row, reactivate>>
      BY <1>3, <2>2 DEF CallStep, Arrive, ReadLock, FillLock, EndCall, CheckSchedule,
           SaveSchedule, CloseSessions
    <3> QED
      BY <1>2, <3>1
  <2> QED
    BY <2>1, <2>2
<1>4. ASSUME NEW a \in Accounts, AccountStep(a) PROVE CheckedInTime'
  <2>1. CASE CheckReactivation(a)
    <3>1. /\ UNCHANGED <<crossed, today, row>>
          /\ \A b \in Accounts \ {a} : reactivate'[b] = reactivate[b]
          /\ row[a] \in Row /\ row[a].due # Absent /\ row[a].due > today
      BY <2>1 DEF CheckReactivation, Closed, Exists
    <3>2. ~Due(a)'
      BY <3>1 DEF Due, Closed, Exists, Row, Days
    <3> QED
      BY <1>1, <3>1, <3>2
  <2>2. CASE SaveReactivation(a) \/ EndReactivation(a)
    <3>1. /\ UNCHANGED <<crossed, today>> /\ reactivate'[a] # "checked"
          /\ \A b \in Accounts \ {a} : row'[b] = row[b] /\ reactivate'[b] = reactivate[b]
      BY <2>2 DEF SaveReactivation, EndReactivation
    <3> QED
      BY <1>1, <3>1
  <2>3. CASE SaveSupervision(a)
    <3>1. UNCHANGED <<crossed, today, reactivate>> /\ \A b \in Accounts \ {a} : row'[b] = row[b]
      BY <2>3 DEF SaveSupervision
    <3>2. CASE Exists(a)
      <4>1. row[a] \in Row /\ row'[a] = [row[a] EXCEPT !.supervised = (admin[a] = "start")]
        BY <2>3, <3>2 DEF SaveSupervision, Exists
      <4>2. row'[a].due = row[a].due
        BY <4>1 DEF Row
      <4>3. Due(a)' => Due(a)
        BY <3>1, <3>2, <4>2 DEF Due, Closed, Exists
      <4> QED
        BY <1>1, <3>1, <4>3
    <3>3. CASE ~Exists(a)
      BY <1>2, <2>3, <3>1, <3>3 DEF SaveSupervision
    <3> QED
      BY <3>2, <3>3
  <2>4. CASE AdminDelete(a)
    <3>1. /\ UNCHANGED <<crossed, today, reactivate>> /\ ~Due(a)'
          /\ \A b \in Accounts \ {a} : row'[b] = row[b]
      BY <2>4 DEF AdminDelete, Due, Closed, Exists
    <3> QED
      BY <1>1, <3>1
  <2>5. CASE \/ ExpireLock(a) \/ BeginSignIn(a) \/ EndSignIn(a)
             \/ CheckSupervision(a) \/ EndSupervision(a)
    <3>1. UNCHANGED <<crossed, today, row, reactivate>>
      BY <2>5 DEF ExpireLock, BeginSignIn, EndSignIn, CheckSupervision, EndSupervision
    <3> QED
      BY <1>2, <3>1
  <2> QED
    BY <1>4, <2>1, <2>2, <2>3, <2>4, <2>5 DEF AccountStep
<1>5. ASSUME NEW k \in Runs, PurgeStep(k) PROVE CheckedInTime'
  <2>1. CASE Delete(k)
    <3>1. PICK a \in Accounts : a = purge[k].now
      BY <2>1 DEF Delete, Run
    <3>2. /\ UNCHANGED <<crossed, today, reactivate>> /\ ~Due(a)'
          /\ \A b \in Accounts \ {a} : row'[b] = row[b]
      BY <2>1, <3>1 DEF Delete, Due, Closed, Exists
    <3> QED
      BY <1>1, <3>2
  <2>2. CASE ListDue(k) \/ (\E a \in Accounts : Audit(k, a)) \/ DeleteFails(k)
    <3>1. UNCHANGED <<crossed, today, row, reactivate>>
      BY <2>2 DEF ListDue, Audit, DeleteFails
    <3> QED
      BY <1>2, <3>1
  <2> QED
    BY <1>5, <2>1, <2>2 DEF PurgeStep
<1>6. CASE Tomorrow
  BY <1>6 DEF Tomorrow, CheckedInTime, Due, Closed, Exists
<1>7. CASE StopServer
  BY <1>7 DEF StopServer, CheckedInTime
<1> QED
  BY <1>0, <1>3, <1>4, <1>5, <1>6, <1>7 DEF LifecycleNext

-----------------------------------------------------------------------------
(* The invariant and what follows from it *)

\* It holds at first.
LEMMA InitInv == LifecycleInit => Inv
<1>1. LifecycleInit => LifecycleTypeOK
  BY InitTypes
<1>2. LifecycleInit => PurgeIsAudited /\ HonestCalls /\ HonestCache /\ DueIsShut /\ ListIsDue
                      /\ CheckedInTime
  BY DEF LifecycleInit, PurgeIsAudited, HonestCalls, HonestCache, DueIsShut, ListIsDue, CheckedInTime
<1> QED
  BY <1>1, <1>2 DEF Inv

\* Every step keeps it.
LEMMA NextInv == Inv /\ [LifecycleNext]_lifeVars => Inv'
<1> SUFFICES ASSUME Inv, [LifecycleNext]_lifeVars PROVE Inv'
  OBVIOUS
<1> USE DEF Inv
<1>0. LifecycleNext => CheckedInTime'
  BY StaysInTime
<1>1. ASSUME NEW c \in Calls, CallStep(c) \/ \E a \in Busy : Arrive(c, a) PROVE Inv'
  <2>0. LifecycleNext
    BY <1>1 DEF LifecycleNext
  <2>1. purged' = purged /\ audited' = audited
    BY <1>1 DEF CallStep, Arrive, ReadLock, FillLock, EndCall, CheckSchedule, SaveSchedule, CloseSessions
  <2> QED
    BY <1>0, <1>1, <2>0, <2>1, CallTypes, CallLocks, CallDue DEF PurgeIsAudited
<1>2. ASSUME NEW a \in Busy, AccountStep(a) PROVE Inv'
  <2>1. a \in Accounts /\ LifecycleNext
    BY <1>2, LifecycleAssumption DEF LifecycleNext
  <2>2. purged' = purged /\ audited' = audited
    BY <1>2 DEF AccountStep, ExpireLock, BeginSignIn, EndSignIn, CheckReactivation,
         SaveReactivation, EndReactivation, CheckSupervision, SaveSupervision,
         EndSupervision, AdminDelete
  <2> QED
    BY <1>0, <1>2, <2>1, <2>2, AccountTypes, AccountLocks, AccountDue DEF PurgeIsAudited
<1>3. ASSUME NEW k \in Runs, PurgeStep(k) PROVE Inv'
  <2>1. LifecycleNext
    BY <1>3 DEF LifecycleNext
  <2> QED
    BY <1>0, <1>3, <2>1, PurgeTypes, PurgeLocks, PurgeDue
<1>4. CASE Tomorrow \/ StopServer
  <2>1. purged' = purged /\ audited' = audited /\ LifecycleNext
    BY <1>4 DEF Tomorrow, StopServer, LifecycleNext
  <2> QED
    BY <1>0, <1>4, <2>1, ClockTypes, ClockLocks, ClockDue DEF PurgeIsAudited
<1>5. CASE UNCHANGED lifeVars
  <2>1. LifecycleTypeOK' /\ PurgeIsAudited'
    BY <1>5 DEF lifeVars, LifecycleTypeOK, PurgeIsAudited
  <2>2. HonestCalls' /\ HonestCache'
    BY <1>5 DEF lifeVars, HonestCalls, HonestCache, Honest, Free, LockOf, Closed, Exists, Changing
  <2>3. DueIsShut' /\ ListIsDue' /\ CheckedInTime'
    BY <1>5 DEF lifeVars, DueIsShut, ListIsDue, CheckedInTime, Due, Closed, Exists, ShutCall, Free
  <2> QED
    BY <2>1, <2>2, <2>3
<1> QED
  BY <1>1, <1>2, <1>3, <1>4, <1>5 DEF LifecycleNext

\* The invariant holds throughout.
LEMMA Invariance == LifecycleSpec => []Inv
  BY InitInv, NextInv, PTL DEF LifecycleSpec

\* The variables of account.routes.ts, accountLock.ts and accountPurge.ts keep
\* their types, for any number of accounts and requests and any grace period.
THEOREM TypeCorrect == LifecycleSpec => []LifecycleTypeOK
<1>1. Inv => LifecycleTypeOK
  BY DEF Inv
<1> QED
  BY Invariance, <1>1, PTL

\* authenticate() lets no request of a closed or supervised account pass that
\* arrived after the lock was dropped, but for a lock read before the change.
THEOREM ClosedIsLockedOut == LifecycleSpec => []LockedOut
<1>1. Inv => LockedOut
  BY DEF Inv, HonestCalls, Honest, LockedOut
<1> QED
  BY Invariance, <1>1, PTL

\* Whatever a purge deleted has its audit row.
THEOREM PurgesAreAudited == LifecycleSpec => []PurgeIsAudited
<1>1. Inv => PurgeIsAudited
  BY DEF Inv
<1> QED
  BY Invariance, <1>1, PTL

\* A purge deletes only what is due, though it looked at the date once, when it
\* took its list: from the date on nobody is let in to put it off.
THEOREM PurgesWhatIsDue == LifecycleSpec => PurgedWhenDue
<1>1. ASSUME Inv, [LifecycleNext]_lifeVars, NEW a \in purged' \ purged
      PROVE  a \in crossed \/ (row[a].due # Absent /\ row[a].due <= today)
  <2>1. PICK k \in Runs : Delete(k)
    BY <1>1 DEF LifecycleNext, lifeVars, PurgeStep, CallStep, AccountStep, Arrive, ReadLock,
         FillLock, EndCall, CheckSchedule, SaveSchedule, CloseSessions, ExpireLock, BeginSignIn,
         EndSignIn, CheckReactivation, SaveReactivation, EndReactivation, CheckSupervision,
         SaveSupervision, EndSupervision, AdminDelete, ListDue, Audit, DeleteFails,
         Tomorrow, StopServer
  <2>2. a = purge[k].now /\ purge[k] # Absent /\ Exists(a) /\ purge[k].now # Absent
    BY <1>1, <2>1 DEF Delete
  <2>3. a \in crossed \/ Due(a)
    BY <1>1, <2>2 DEF Inv, ListIsDue
  <2> QED
    BY <2>3 DEF Due, Closed
<1>2. Inv /\ [LifecycleNext]_lifeVars =>
        [\A a \in purged' \ purged :
            a \in crossed \/ (row[a].due # Absent /\ row[a].due <= today)]_lifeVars
  BY <1>1
<1> QED
  BY Invariance, <1>2, PTL DEF LifecycleSpec, PurgedWhenDue

=============================================================================
