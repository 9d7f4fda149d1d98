----------------------------- MODULE Reminders -----------------------------
(***************************************************************************)
(* backend/src/services/push/billReminders.ts and index.ts: the hourly run *)
(* that reminds users of a bill by web push, against the subscription rows *)
(* of push.routes.ts and the ledger of what was pushed (PushDelivery).     *)
(*                                                                         *)
(* A user has one bill. A run begun before the last one has ended overlaps *)
(* it, as do the runs of two processes during a deployment. An endpoint is *)
(* a browser's push address; a browser that asks again gets another.       *)
(***************************************************************************)
EXTENDS Integers, FiniteSets

CONSTANTS
    Users, Endpoints, Runs,
    Stuck,      \* users whose Drive can never be read
    Retries,    \* RETRIES of services/push/index.ts
    FirstDay,   \* days to the due date when the behaviour begins
    AtFirst,    \* whose device each endpoint may be when the behaviour begins
    MaxFaults,  \* bound on failures of the push service, the database and Drive, and on restarts
    MaxChanges, \* bound on what users change about their devices
    Absent

ASSUME RemindersAssumption ==
    /\ Stuck \subseteq Users
    /\ {Retries, FirstDay, MaxFaults, MaxChanges} \subseteq Nat
    /\ AtFirst \subseteq [Endpoints -> Users]

Days == 0..FirstDay

\* What the ledger has one row of: (userId, dedupeKey).
Reminder == Users \X Days

VARIABLES
    days,      \* days to the due date
    due,       \* users with an unpaid bill in Drive and reminders switched on
    sub,       \* PushSubscription by endpoint: its user, are bills on?
    dead,      \* endpoints their browser has given up
    ledger,    \* status of PushDelivery
    run,       \* runBillReminders() under way
    faults, changes,
    \* what happened, for the properties
    taken,     \* how often the push service queued a reminder for an endpoint
    lost,      \* how often it did and the answer was lost
    cut        \* reminders a restart or a failed statement left claimed

bounds  == <<faults, changes>>
devices == <<sub, dead>>
history == <<taken, lost, cut>>
remVars == <<days, due, sub, dead, ledger, run, faults, changes, taken, lost, cut>>

Row == [user : Users, bills : BOOLEAN]

Run == [day : Days, step : {"next", "bill", "claim", "send"},
        todo : SUBSET Users,            \* users still to look at
        user : Users \cup {Absent},     \* the user reminded
        left : SUBSET Endpoints,        \* devices still to send to
        at : Endpoints \cup {Absent},   \* the device being retried
        tries : Nat,
        accepted : BOOLEAN]             \* result.accepted > 0

ASSUME AbsentReminder ==
    Absent \notin Users /\ Absent \notin Run /\ Absent \notin {"pending", "accepted"}

RemindersTypeOK ==
    /\ days \in Days
    /\ due \subseteq Users
    /\ sub \in [Endpoints -> Row \cup {Absent}]
    /\ dead \subseteq Endpoints
    /\ ledger \in [Reminder -> {"pending", "accepted", Absent}]
    /\ run \in [Runs -> Run \cup {Absent}]
    /\ \A k \in Runs : run[k] # Absent => run[k].tries <= Retries
    /\ faults \in 0..MaxFaults /\ changes \in 0..MaxChanges
    /\ taken \in [Reminder \X Endpoints -> Nat]
    /\ lost \in [Reminder \X Endpoints -> Nat]
    /\ cut \subseteq Reminder

RemInit ==
    /\ days = FirstDay /\ due = Users \ Stuck
    /\ \E owner \in AtFirst : sub = [e \in Endpoints |-> [user |-> owner[e], bills |-> TRUE]]
    /\ dead = {}
    /\ ledger = [r \in Reminder |-> Absent]
    /\ run = [k \in Runs |-> Absent]
    /\ faults = 0 /\ changes = 0
    /\ taken = [p \in Reminder \X Endpoints |-> 0]
    /\ lost = [p \in Reminder \X Endpoints |-> 0]
    /\ cut = {}

\* dueBucket(): three days ahead, one day ahead and on the day.
Bucket(d) == d \in {0, 1, 3}

\* categoryOn() of a device that is registered for u.
Subscribed(u) == {e \in Endpoints : sub[e] # Absent /\ sub[e].user = u /\ sub[e].bills}

At(k, step) == run[k] # Absent /\ run[k].step = step
Of(k)       == <<run[k].user, run[k].day>>

Fault == faults < MaxFaults /\ faults' = faults + 1

-----------------------------------------------------------------------------
(* runBillReminders() *)

\* Shortly after start-up and every hour, by day.
StartRun(k) ==
    /\ run[k] = Absent
    /\ LET users == {u \in Users : Subscribed(u) # {}}
       IN /\ users # {}
          /\ run' = [run EXCEPT ![k] =
                [day |-> days, step |-> "next", todo |-> users, user |-> Absent,
                 left |-> {}, at |-> Absent, tries |-> 0, accepted |-> FALSE]]
    /\ UNCHANGED <<days, due, devices, ledger, bounds, history>>

\* The run is done with user u and goes on to the next, or ends.
NextUser(k, u) ==
    LET rest == run[k].todo \ {u}
    IN run' = [run EXCEPT ![k] =
          IF rest = {} THEN Absent
          ELSE [@ EXCEPT !.step = "next", !.todo = rest, !.user = Absent, !.left = {},
                         !.at = Absent, !.tries = 0, !.accepted = FALSE]]

\* The user's settings and bills are read: there is something to remind of.
Look(k, u) ==
    /\ At(k, "next") /\ u \in run[k].todo \ Stuck
    /\ u \in due /\ Bucket(run[k].day)
    /\ run' = [run EXCEPT ![k].step = "bill", ![k].user = u]
    /\ UNCHANGED <<days, due, devices, ledger, bounds, history>>

\* Nothing is due.
Skip(k, u) ==
    /\ At(k, "next") /\ u \in run[k].todo \ Stuck
    /\ u \notin due \/ ~Bucket(run[k].day)
    /\ NextUser(k, u)
    /\ UNCHANGED <<days, due, devices, ledger, bounds, history>>

\* (mutant) an error ends the run
DriveThrows(k, u) ==
    /\ At(k, "next") /\ u \in run[k].todo
    /\ \/ u \in Stuck /\ UNCHANGED faults
       \/ u \notin Stuck /\ Fault
    /\ run' = [run EXCEPT ![k] = Absent]
    /\ UNCHANGED <<days, due, devices, ledger, changes, history>>

\* Drive cannot be read: the run goes on with the next user.
DriveFails(k, u) ==
    /\ At(k, "next") /\ u \in run[k].todo
    /\ \/ u \in Stuck /\ UNCHANGED faults
       \/ u \notin Stuck /\ Fault
    /\ NextUser(k, u)
    /\ UNCHANGED <<days, due, devices, ledger, changes, history>>

-----------------------------------------------------------------------------
(* sendPushToUser() *)

\* (mutant) the reminder is claimed before its devices are known
ReadDevicesClaimed(k) ==
    /\ At(k, "bill")
    /\ LET u == run[k].user
       IN IF Subscribed(u) = {}
          THEN NextUser(k, u) /\ ledger' = [ledger EXCEPT ![Of(k)] = "pending"]
          ELSE /\ run' = [run EXCEPT ![k].step = "claim", ![k].left = Subscribed(u)]
               /\ UNCHANGED ledger
    /\ UNCHANGED <<days, due, devices, bounds, history>>

\* The user's devices that take bills.
ReadDevices(k) ==
    /\ At(k, "bill")
    /\ LET u == run[k].user
       IN IF Subscribed(u) = {} THEN NextUser(k, u)
          ELSE run' = [run EXCEPT ![k].step = "claim", ![k].left = Subscribed(u)]
    /\ UNCHANGED <<days, due, devices, ledger, bounds, history>>

\* The unique row is created ...
Claim(k) ==
    /\ At(k, "claim") /\ ledger[Of(k)] = Absent
    /\ ledger' = [ledger EXCEPT ![Of(k)] = "pending"]
    /\ run' = [run EXCEPT ![k].step = "send"]
    /\ UNCHANGED <<days, due, devices, bounds, history>>

\* (mutant) a pending row is taken over
ClaimedAlreadyUnlessPending(k) ==
    /\ At(k, "claim") /\ ledger[Of(k)] # Absent
    /\ IF ledger[Of(k)] = "pending" THEN run' = [run EXCEPT ![k].step = "send"]
       ELSE NextUser(k, run[k].user)
    /\ UNCHANGED <<days, due, devices, ledger, bounds, history>>

\* ... unless it is there (P2002): somebody else reminds or has reminded.
ClaimedAlready(k) ==
    /\ At(k, "claim") /\ ledger[Of(k)] # Absent
    /\ NextUser(k, run[k].user)
    /\ UNCHANGED <<days, due, devices, ledger, bounds, history>>

\* The database fails before the claim: the push is given up.
GiveUp(k) ==
    /\ At(k, "bill") \/ At(k, "claim")
    /\ Fault
    /\ NextUser(k, run[k].user)
    /\ UNCHANGED <<days, due, devices, ledger, changes, history>>

\* sendOne() may turn to e: the device it retries, or the next one.
Sending(k, e) ==
    /\ At(k, "send") /\ e \in run[k].left
    /\ run[k].at \in {e, Absent}

\* The run is done with device e.
NextDevice(k, e, ok) ==
    run' = [run EXCEPT ![k].left = @ \ {e}, ![k].at = Absent, ![k].tries = 0,
                       ![k].accepted = @ \/ ok]

\* Queued: 201.
Accept(k, e) ==
    /\ Sending(k, e) /\ e \notin dead
    /\ taken' = [taken EXCEPT ![<<Of(k), e>>] = @ + 1]
    /\ NextDevice(k, e, TRUE)
    /\ UNCHANGED <<days, due, devices, ledger, bounds, lost, cut>>

\* 404 or 410: the row goes.
Gone(k, e) ==
    /\ Sending(k, e) /\ e \in dead
    /\ sub' = [sub EXCEPT ![e] = Absent]
    /\ NextDevice(k, e, FALSE)
    /\ UNCHANGED <<days, due, dead, ledger, bounds, history>>

\* An error that may pass (429, 5xx, no answer): tried again, Retries times.
Retry(k, e) ==
    IF run[k].tries = Retries THEN NextDevice(k, e, FALSE)
    ELSE run' = [run EXCEPT ![k].at = e, ![k].tries = @ + 1]

Passing(k, e) ==
    /\ Sending(k, e) /\ Fault
    /\ Retry(k, e)
    /\ UNCHANGED <<days, due, devices, ledger, changes, history>>

\* Queued, but the answer is lost.
AnswerLost(k, e) ==
    /\ Sending(k, e) /\ e \notin dead /\ Fault
    /\ taken' = [taken EXCEPT ![<<Of(k), e>>] = @ + 1]
    /\ lost' = [lost EXCEPT ![<<Of(k), e>>] = @ + 1]
    /\ Retry(k, e)
    /\ UNCHANGED <<days, due, devices, ledger, changes, cut>>

\* 400, 401 or 403: not tried again.
Refuse(k, e) ==
    /\ Sending(k, e) /\ Fault
    /\ NextDevice(k, e, FALSE)
    /\ UNCHANGED <<days, due, devices, ledger, changes, history>>

\* No device is left: the claim stands if one accepted, and is released otherwise.
Settle(k) ==
    /\ At(k, "send") /\ run[k].left = {}
    /\ ledger' = [ledger EXCEPT ![Of(k)] = IF run[k].accepted THEN "accepted" ELSE Absent]
    /\ NextUser(k, run[k].user)
    /\ UNCHANGED <<days, due, devices, bounds, history>>

\* The database fails, and the claim stays as it is.
SettleFails(k) ==
    /\ At(k, "send") /\ run[k].left = {} /\ Fault
    /\ cut' = cut \cup {Of(k)}
    /\ NextUser(k, run[k].user)
    /\ UNCHANGED <<days, due, devices, ledger, changes, taken, lost>>

-----------------------------------------------------------------------------
(* Users, browsers, the calendar, the process *)

Change == changes < MaxChanges /\ changes' = changes + 1

\* POST /subscribe: an endpoint belongs to whoever registered it last.
Subscribe(e, u) ==
    /\ e \notin dead /\ Change
    /\ sub' = [sub EXCEPT ![e] = [user |-> u, bills |-> TRUE]]
    /\ UNCHANGED <<days, due, dead, ledger, run, faults, history>>

\* PATCH /preferences
SetBills(e) ==
    /\ sub[e] # Absent /\ Change
    /\ sub' = [sub EXCEPT ![e].bills = ~@]
    /\ UNCHANGED <<days, due, dead, ledger, run, faults, history>>

\* DELETE /subscribe, or more devices than MAX_DEVICES.
Unregister(e) ==
    /\ sub[e] # Absent /\ Change
    /\ sub' = [sub EXCEPT ![e] = Absent]
    /\ UNCHANGED <<days, due, dead, ledger, run, faults, history>>

\* The browser gives the endpoint up, whatever the server knows.
Unsubscribe(e) ==
    /\ e \notin dead /\ Change
    /\ dead' = dead \cup {e}
    /\ UNCHANGED <<days, due, sub, ledger, run, faults, history>>

\* The bill is paid, or reminders are switched off.
Pay(u) ==
    /\ u \in due
    /\ due' = due \ {u}
    /\ UNCHANGED <<days, devices, ledger, run, bounds, history>>

NextDay ==
    /\ days > 0 /\ days' = days - 1
    /\ UNCHANGED <<due, devices, ledger, run, bounds, history>>

\* The process stops and starts again: claims of its runs stay.
StopServer ==
    /\ Fault
    /\ run' = [k \in Runs |-> Absent]
    /\ cut' = cut \cup {Of(k) : k \in {j \in Runs : At(j, "send")}}
    /\ UNCHANGED <<days, due, devices, ledger, changes, taken, lost>>

RunStep(k) ==
    \/ \E u \in Users : Look(k, u) \/ Skip(k, u) \/ DriveFails(k, u)
    \/ ReadDevices(k) \/ Claim(k) \/ ClaimedAlready(k) \/ GiveUp(k)
    \/ \E e \in Endpoints : \/ Accept(k, e) \/ Gone(k, e) \/ Passing(k, e)
                            \/ AnswerLost(k, e) \/ Refuse(k, e)
    \/ Settle(k) \/ SettleFails(k)

RemNext ==
    \/ \E k \in Runs : StartRun(k) \/ RunStep(k)
    \/ \E e \in Endpoints : SetBills(e) \/ Unregister(e) \/ Unsubscribe(e)
                            \/ \E u \in Users : Subscribe(e, u)
    \/ \E u \in Users : Pay(u)
    \/ NextDay \/ StopServer

RemSpec == RemInit /\ [][RemNext]_remVars

\* The timer starts runs and every run goes on.
RemFairness == \A k \in Runs : WF_remVars(StartRun(k)) /\ WF_remVars(RunStep(k))

RemFairSpec == RemSpec /\ RemFairness

-----------------------------------------------------------------------------
(* What reminders promise *)

\* schema.prisma:652 "claimed before sending so the same bill reminder for the same
\* due date can never be pushed twice, even across restarts or concurrent runs": the
\* push service queues a reminder for a device once, and once more for each answer
\* it did not get through.
RemindedOnce == \A p \in Reminder \X Endpoints : taken[p] <= 1 + lost[p]

\* push/index.ts:113 "Nothing was accepted: release the claim so a later run can
\* retry this reminder": a reminder stands claimed only while a run is sending it
\* or when a device has got it, unless a restart or a failing database came between.
ClaimIsEarned ==
    \A r \in Reminder : ledger[r] # Absent =>
        \/ \E k \in Runs : At(k, "send") /\ Of(k) = r
        \/ \E e \in Endpoints : taken[<<r, e>>] > 0
        \/ r \in cut

\* On the due day a user with a device that takes bills is reminded at last, or
\* pays, or has no such device any more: whatever fails for a while, whosever Drive
\* cannot be read at all, and though runs overlap (claims left behind excepted).
DueIsReminded ==
    \A u \in Users \ Stuck :
        LET Waits == days = 0 /\ u \in due /\ Subscribed(u) \ dead # {}
                     /\ <<u, 0>> \notin cut /\ \A e \in Endpoints : taken[<<<<u, 0>>, e>>] = 0
        IN Waits ~> ~Waits

=============================================================================
