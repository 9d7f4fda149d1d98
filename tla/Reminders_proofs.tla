-------------------------- MODULE Reminders_proofs --------------------------
(***************************************************************************)
(* For any number of users, devices and overlapping runs, any calendar and *)
(* any bounds on what fails: the types of Reminders, that a device gets a  *)
(* reminder once but for lost answers, and that a claim is earned. Behind  *)
(* both: a claim is held by one run at a time, and while it has not been   *)
(* answered for a device, that device got no more than what was lost.      *)
(***************************************************************************)
EXTENDS Reminders, TLAPS

\* Device e got reminder r at most in pushes whose answer was lost.
Fresh(r, e) == taken[<<r, e>>] <= lost[<<r, e>>]

\* What a run has done agrees with the ledger and with what was queued.
Sound(s) ==
    /\ s.step # "next" => s.user \in Users
    /\ s.step # "send" => ~s.accepted
    /\ s.step = "send" =>
          /\ ledger[<<s.user, s.day>>] # Absent
          /\ \A e \in Endpoints : e \in s.left \/ ~s.accepted => Fresh(<<s.user, s.day>>, e)
          /\ s.accepted => \E e \in Endpoints : taken[<<<<s.user, s.day>>, e>>] > 0

SoundRuns == \A k \in Runs : run[k] # Absent => Sound(run[k])

\* Two runs never send the same reminder.
Exclusive ==
    \A j, k \in Runs : At(j, "send") /\ At(k, "send") /\ Of(j) = Of(k) => j = k

\* A reminder that is not claimed can be sent.
FreeIsFresh ==
    \A r \in Reminder : ledger[r] = Absent => \A e \in Endpoints : Fresh(r, e)

Inv ==
    /\ RemindersTypeOK /\ SoundRuns /\ Exclusive /\ FreeIsFresh
    /\ RemindedOnce /\ ClaimIsEarned

-----------------------------------------------------------------------------
(* Types *)

RunTable == [Runs -> Run \cup {Absent}]

\* A run at work on a user names a reminder.
LEMMA NamesReminder ==
    ASSUME RemindersTypeOK, SoundRuns, NEW k \in Runs, run[k] # Absent, run[k].step # "next"
    PROVE  /\ run[k] \in Run /\ run[k].user \in Users /\ run[k].day \in Days
           /\ Of(k) \in Reminder
BY DEF RemindersTypeOK, SoundRuns, Sound, Run, Of, Reminder

\* Going on with the next user leaves the other runs alone and is no longer sending.
LEMMA NextUserRuns ==
    ASSUME RemindersTypeOK, NEW k \in Runs, run[k] # Absent, NEW u, NextUser(k, u)
    PROVE  /\ run' \in RunTable
           /\ \A j \in Runs : j # k => run'[j] = run[j]
           /\ run'[k] = Absent \/ (run'[k] \in Run /\ run'[k].step = "next" /\ run'[k].tries = 0
                                  /\ ~run'[k].accepted)
<1> DEFINE rest == run[k].todo \ {u}
<1> DEFINE next == [run[k] EXCEPT !.step = "next", !.todo = rest, !.user = Absent, !.left = {},
                                  !.at = Absent, !.tries = 0, !.accepted = FALSE]
<1>1. run[k] \in Run
  BY DEF RemindersTypeOK
<1>2. next \in Run /\ next.step = "next" /\ next.tries = 0 /\ ~next.accepted
  BY <1>1 DEF Run
<1>3. run' = [run EXCEPT ![k] = IF rest = {} THEN Absent ELSE next]
  BY DEF NextUser
<1> HIDE DEF next, rest
<1> QED
  BY <1>2, <1>3 DEF RemindersTypeOK, RunTable

\* Going on with the next device leaves the other runs alone and drops device e.
LEMMA NextDeviceRuns ==
    ASSUME RemindersTypeOK, NEW k \in Runs, run[k] # Absent, NEW e, NEW ok \in BOOLEAN,
           NextDevice(k, e, ok)
    PROVE  /\ run' \in RunTable
           /\ \A j \in Runs : j # k => run'[j] = run[j]
           /\ run'[k] \in Run /\ run'[k].tries = 0
           /\ run'[k].step = run[k].step /\ run'[k].user = run[k].user
           /\ run'[k].day = run[k].day /\ run'[k].left = run[k].left \ {e}
           /\ run'[k].accepted = (run[k].accepted \/ ok)
<1> DEFINE next == [run[k] EXCEPT !.left = run[k].left \ {e}, !.at = Absent, !.tries = 0,
                                  !.accepted = run[k].accepted \/ ok]
<1>1. run[k] \in Run
  BY DEF RemindersTypeOK
<1>2. (run[k].accepted \/ ok) \in BOOLEAN
  BY <1>1 DEF Run
<1>3. /\ next \in Run /\ next.tries = 0
      /\ next.step = run[k].step /\ next.user = run[k].user /\ next.day = run[k].day
      /\ next.left = run[k].left \ {e} /\ next.accepted = (run[k].accepted \/ ok)
  BY <1>1, <1>2 DEF Run
<1>4. run' = [run EXCEPT ![k] = next]
  BY DEF NextDevice
<1> HIDE DEF next
<1> QED
  BY <1>1, <1>3, <1>4 DEF RemindersTypeOK, RunTable

\* A retry stays with the device, or goes on with the next one.
LEMMA RetryRuns ==
    ASSUME RemindersTypeOK, NEW k \in Runs, run[k] # Absent, NEW e \in Endpoints, Retry(k, e)
    PROVE  /\ run' \in RunTable
           /\ \A j \in Runs : j # k => run'[j] = run[j]
           /\ run'[k] \in Run /\ run'[k].tries <= Retries
           /\ run'[k].step = run[k].step /\ run'[k].user = run[k].user
           /\ run'[k].day = run[k].day /\ run'[k].left \subseteq run[k].left
           /\ run'[k].accepted = run[k].accepted
<1>1. run[k] \in Run /\ run[k].tries <= Retries /\ run[k].tries \in Nat /\ Retries \in Nat
  BY RemindersAssumption DEF RemindersTypeOK, Run
<1>2. CASE run[k].tries = Retries
  <2>1. NextDevice(k, e, FALSE)
    BY <1>2 DEF Retry
  <2>2. run[k].accepted \in BOOLEAN /\ FALSE \in BOOLEAN
    BY <1>1 DEF Run
  <2>3. /\ run' \in RunTable
        /\ \A j \in Runs : j # k => run'[j] = run[j]
        /\ run'[k] \in Run /\ run'[k].tries = 0
        /\ run'[k].step = run[k].step /\ run'[k].user = run[k].user
        /\ run'[k].day = run[k].day /\ run'[k].left = run[k].left \ {e}
        /\ run'[k].accepted = (run[k].accepted \/ FALSE)
    BY <2>1, <2>2, NextDeviceRuns
  <2> QED
    BY <1>1, <2>2, <2>3
<1>3. CASE run[k].tries # Retries
  <2> DEFINE next == [run[k] EXCEPT !.at = e, !.tries = run[k].tries + 1]
  <2>n. run[k].tries + 1 \in Nat /\ run[k].tries + 1 <= Retries
    BY <1>1, <1>3
  <2>1. /\ next \in Run /\ next.tries = run[k].tries + 1
        /\ next.step = run[k].step /\ next.user = run[k].user /\ next.day = run[k].day
        /\ next.left = run[k].left /\ next.accepted = run[k].accepted
    BY <1>1, <2>n DEF Run
  <2>2. run' = [run EXCEPT ![k] = next]
    BY <1>3 DEF Retry
  <2> HIDE DEF next
  <2> QED
    BY <1>1, <2>n, <2>1, <2>2 DEF RemindersTypeOK, RunTable
<1> QED
  BY <1>2, <1>3

\* The initial values have their types.
LEMMA InitTypes == RemInit => RemindersTypeOK
<1> SUFFICES ASSUME RemInit PROVE RemindersTypeOK
  OBVIOUS
<1>1. FirstDay \in Days /\ 0 \in 0..MaxFaults /\ 0 \in 0..MaxChanges
  BY RemindersAssumption DEF Days
<1>2. sub \in [Endpoints -> Row \cup {Absent}]
  <2>1. PICK owner \in AtFirst :
            sub = [e \in Endpoints |-> [user |-> owner[e], bills |-> TRUE]]
    BY DEF RemInit
  <2>2. owner \in [Endpoints -> Users]
    BY RemindersAssumption
  <2> QED
    BY <2>1, <2>2 DEF Row
<1> QED
  BY <1>1, <1>2 DEF RemInit, RemindersTypeOK

\* So do the values after any step of a run.
LEMMA RunTypes ==
    ASSUME RemindersTypeOK, SoundRuns, NEW k \in Runs, StartRun(k) \/ RunStep(k)
    PROVE  RemindersTypeOK'
<1>f. ASSUME Fault PROVE faults' \in 0..MaxFaults
  BY <1>f, RemindersAssumption DEF Fault, RemindersTypeOK
<1>t. ASSUME run' \in RunTable, \A j \in Runs : run'[j] = run[j] \/ run'[j] = Absent \/ run'[j].tries <= Retries
      PROVE  /\ run' \in [Runs -> Run \cup {Absent}]
             /\ \A j \in Runs : run'[j] # Absent => run'[j].tries <= Retries
  BY <1>t DEF RunTable, RemindersTypeOK
<1>u. ASSUME NEW u, run[k] # Absent, NextUser(k, u)
      PROVE  /\ run' \in [Runs -> Run \cup {Absent}]
             /\ \A j \in Runs : run'[j] # Absent => run'[j].tries <= Retries
  <2>1. 0 <= Retries
    BY RemindersAssumption
  <2> QED
    BY <1>u, <1>t, <2>1, NextUserRuns
<1>d. ASSUME NEW e, NEW ok \in BOOLEAN, run[k] # Absent, NextDevice(k, e, ok)
      PROVE  /\ run' \in [Runs -> Run \cup {Absent}]
             /\ \A j \in Runs : run'[j] # Absent => run'[j].tries <= Retries
  <2>1. 0 <= Retries
    BY RemindersAssumption
  <2> QED
    BY <1>d, <1>t, <2>1, NextDeviceRuns
<1>r. ASSUME NEW e \in Endpoints, run[k] # Absent, Retry(k, e)
      PROVE  /\ run' \in [Runs -> Run \cup {Absent}]
             /\ \A j \in Runs : run'[j] # Absent => run'[j].tries <= Retries
  BY <1>r, <1>t, RetryRuns
<1>1. CASE StartRun(k)
  <2> DEFINE users == {u \in Users : Subscribed(u) # {}}
  <2> DEFINE new == [day |-> days, step |-> "next", todo |-> users, user |-> Absent,
                     left |-> {}, at |-> Absent, tries |-> 0, accepted |-> FALSE]
  <2>1. new \in Run /\ new.tries = 0 /\ 0 <= Retries
    BY RemindersAssumption DEF RemindersTypeOK, Run
  <2>2. run' = [run EXCEPT ![k] = new]
    BY <1>1 DEF StartRun
  <2> HIDE DEF new
  <2>3. /\ run' \in RunTable
        /\ \A j \in Runs : run'[j] = run[j] \/ run'[j] = Absent \/ run'[j].tries <= Retries
    BY <2>1, <2>2 DEF RemindersTypeOK, RunTable
  <2> QED
    BY <1>1, <1>t, <2>3 DEF StartRun, RemindersTypeOK, devices, bounds, history
<1>2. ASSUME NEW u \in Users, Look(k, u) PROVE RemindersTypeOK'
  <2>1. run[k] \in Run /\ run[k].tries <= Retries
    BY <1>2 DEF Look, At, RemindersTypeOK
  <2> DEFINE new == [run[k] EXCEPT !.step = "bill", !.user = u]
  <2>2. new \in Run /\ new.tries = run[k].tries
    BY <2>1 DEF Run
  <2>3. run' = [run EXCEPT ![k] = new]
    BY <1>2 DEF Look
  <2> HIDE DEF new
  <2>4. /\ run' \in RunTable
        /\ \A j \in Runs : run'[j] = run[j] \/ run'[j] = Absent \/ run'[j].tries <= Retries
    BY <2>1, <2>2, <2>3 DEF RemindersTypeOK, RunTable
  <2> QED
    BY <1>2, <1>t, <2>4 DEF Look, RemindersTypeOK, devices, bounds, history
<1>3. ASSUME NEW u \in Users, Skip(k, u) PROVE RemindersTypeOK'
  BY <1>3, <1>u DEF Skip, At, RemindersTypeOK, devices, bounds, history
<1>4. ASSUME NEW u \in Users, DriveFails(k, u) PROVE RemindersTypeOK'
  <2>1. faults' \in 0..MaxFaults
    BY <1>4, <1>f DEF DriveFails, RemindersTypeOK
  <2> QED
    BY <1>4, <1>u, <2>1 DEF DriveFails, At, RemindersTypeOK, devices, history
<1>5. CASE ReadDevices(k)
  <2>1. run[k] # Absent /\ run[k] \in Run /\ run[k].tries <= Retries
    BY <1>5 DEF ReadDevices, At, RemindersTypeOK
  <2>2. CASE Subscribed(run[k].user) = {}
    BY <1>5, <1>u, <2>1, <2>2 DEF ReadDevices, RemindersTypeOK, devices, bounds, history
  <2>3. CASE Subscribed(run[k].user) # {}
    <3> DEFINE new == [run[k] EXCEPT !.step = "claim", !.left = Subscribed(run[k].user)]
    <3>1. new \in Run /\ new.tries = run[k].tries
      BY <2>1 DEF Run, Subscribed
    <3>2. run' = [run EXCEPT ![k] = new]
      BY <1>5, <2>3 DEF ReadDevices
    <3> HIDE DEF new
    <3>3. /\ run' \in RunTable
          /\ \A j \in Runs : run'[j] = run[j] \/ run'[j] = Absent \/ run'[j].tries <= Retries
      BY <2>1, <3>1, <3>2 DEF RemindersTypeOK, RunTable
    <3> QED
      BY <1>5, <1>t, <3>3 DEF ReadDevices, RemindersTypeOK, devices, bounds, history
  <2> QED
    BY <2>2, <2>3
<1>6. CASE Claim(k)
  <2>1. run[k] # Absent /\ run[k] \in Run /\ run[k].tries <= Retries /\ Of(k) \in Reminder
    BY <1>6, NamesReminder DEF Claim, At, RemindersTypeOK
  <2> DEFINE new == [run[k] EXCEPT !.step = "send"]
  <2>2. new \in Run /\ new.tries = run[k].tries
    BY <2>1 DEF Run
  <2>3. run' = [run EXCEPT ![k] = new]
    BY <1>6 DEF Claim
  <2> HIDE DEF new
  <2>4. /\ run' \in RunTable
        /\ \A j \in Runs : run'[j] = run[j] \/ run'[j] = Absent \/ run'[j].tries <= Retries
    BY <2>1, <2>2, <2>3 DEF RemindersTypeOK, RunTable
  <2>5. ledger' \in [Reminder -> {"pending", "accepted", Absent}]
    BY <1>6, <2>1 DEF Claim, RemindersTypeOK
  <2> QED
    BY <1>6, <1>t, <2>4, <2>5 DEF Claim, RemindersTypeOK, devices, bounds, history
<1>7. CASE ClaimedAlready(k)
  BY <1>7, <1>u DEF ClaimedAlready, At, RemindersTypeOK, devices, bounds, history
<1>8. CASE GiveUp(k)
  BY <1>8, <1>u, <1>f DEF GiveUp, At, RemindersTypeOK, devices, history
<1>9. ASSUME NEW e \in Endpoints, Accept(k, e) PROVE RemindersTypeOK'
  <2>1. run[k] # Absent /\ Of(k) \in Reminder
    BY <1>9, NamesReminder DEF Accept, Sending, At
  <2>2. taken' \in [Reminder \X Endpoints -> Nat]
    BY <1>9, <2>1 DEF Accept, RemindersTypeOK
  <2> QED
    BY <1>9, <1>d, <2>1, <2>2 DEF Accept, RemindersTypeOK, devices, bounds
<1>10. ASSUME NEW e \in Endpoints, Gone(k, e) PROVE RemindersTypeOK'
  <2>1. sub' \in [Endpoints -> Row \cup {Absent}]
    BY <1>10 DEF Gone, RemindersTypeOK
  <2> QED
    BY <1>10, <1>d, <2>1 DEF Gone, Sending, At, RemindersTypeOK, bounds, history
<1>11. ASSUME NEW e \in Endpoints, Passing(k, e) PROVE RemindersTypeOK'
  BY <1>11, <1>r, <1>f DEF Passing, Sending, At, RemindersTypeOK, devices, history
<1>12. ASSUME NEW e \in Endpoints, AnswerLost(k, e) PROVE RemindersTypeOK'
  <2>1. run[k] # Absent /\ Of(k) \in Reminder
    BY <1>12, NamesReminder DEF AnswerLost, Sending, At
  <2>2. taken' \in [Reminder \X Endpoints -> Nat] /\ lost' \in [Reminder \X Endpoints -> Nat]
    BY <1>12, <2>1 DEF AnswerLost, RemindersTypeOK
  <2> QED
    BY <1>12, <1>r, <1>f, <2>1, <2>2 DEF AnswerLost, RemindersTypeOK, devices
<1>13. ASSUME NEW e \in Endpoints, Refuse(k, e) PROVE RemindersTypeOK'
  BY <1>13, <1>d, <1>f DEF Refuse, Sending, At, RemindersTypeOK, devices, history
<1>14. CASE Settle(k)
  <2>1. ledger' \in [Reminder -> {"pending", "accepted", Absent}]
    BY <1>14 DEF Settle, RemindersTypeOK
  <2> QED
    BY <1>14, <1>u, <2>1 DEF Settle, At, RemindersTypeOK, devices, bounds, history
<1>15. CASE SettleFails(k)
  <2>1. Of(k) \in Reminder
    BY <1>15, NamesReminder DEF SettleFails, At
  <2> QED
    BY <1>15, <1>u, <1>f, <2>1 DEF SettleFails, At, RemindersTypeOK, devices
<1> QED
  BY <1>1, <1>2, <1>3, <1>4, <1>5, <1>6, <1>7, <1>8, <1>9, <1>10, <1>11, <1>12, <1>13, <1>14, <1>15
  DEF RunStep

WorldStep ==
    \/ \E e \in Endpoints : SetBills(e) \/ Unregister(e) \/ Unsubscribe(e)
                            \/ \E u \in Users : Subscribe(e, u)
    \/ \E u \in Users : Pay(u)
    \/ NextDay \/ StopServer

\* And after any step of users, browsers, the calendar and the process.
LEMMA WorldTypes ==
    ASSUME RemindersTypeOK, SoundRuns, WorldStep
    PROVE  RemindersTypeOK'
<1>f. ASSUME Fault PROVE faults' \in 0..MaxFaults
  BY <1>f, RemindersAssumption DEF Fault, RemindersTypeOK
<1>c. ASSUME Change PROVE changes' \in 0..MaxChanges
  BY <1>c, RemindersAssumption DEF Change, RemindersTypeOK
<1>1. ASSUME NEW e \in Endpoints, SetBills(e) PROVE RemindersTypeOK'
  <2>1. [sub[e] EXCEPT !.bills = ~@] \in Row
    BY <1>1 DEF SetBills, RemindersTypeOK, Row
  <2>2. sub' \in [Endpoints -> Row \cup {Absent}]
    BY <1>1, <2>1 DEF SetBills, RemindersTypeOK
  <2> QED
    BY <1>1, <1>c, <2>2 DEF SetBills, RemindersTypeOK, history
<1>2. ASSUME NEW e \in Endpoints, Unregister(e) PROVE RemindersTypeOK'
  BY <1>2, <1>c DEF Unregister, RemindersTypeOK, history
<1>3. ASSUME NEW e \in Endpoints, Unsubscribe(e) PROVE RemindersTypeOK'
  BY <1>3, <1>c DEF Unsubscribe, RemindersTypeOK, history
<1>4. ASSUME NEW e \in Endpoints, NEW u \in Users, Subscribe(e, u) PROVE RemindersTypeOK'
  <2>1. sub' \in [Endpoints -> Row \cup {Absent}]
    BY <1>4 DEF Subscribe, RemindersTypeOK, Row
  <2> QED
    BY <1>4, <1>c, <2>1 DEF Subscribe, RemindersTypeOK, history
<1>5. ASSUME NEW u \in Users, Pay(u) PROVE RemindersTypeOK'
  BY <1>5 DEF Pay, RemindersTypeOK, devices, bounds, history
<1>6. CASE NextDay
  BY <1>6, RemindersAssumption DEF NextDay, RemindersTypeOK, Days, devices, bounds, history
<1>7. CASE StopServer
  <2>1. \A k \in Runs : At(k, "send") => Of(k) \in Reminder
    BY NamesReminder DEF At
  <2>2. cut' \subseteq Reminder
    BY <1>7, <2>1 DEF StopServer, RemindersTypeOK
  <2> QED
    BY <1>7, <1>f, <2>2 DEF StopServer, RemindersTypeOK, devices
<1> QED
  BY <1>1, <1>2, <1>3, <1>4, <1>5, <1>6, <1>7 DEF WorldStep

-----------------------------------------------------------------------------
(* One claim, one run *)

Promises == SoundRuns /\ Exclusive /\ FreeIsFresh /\ RemindedOnce /\ ClaimIsEarned

\* A step that neither claims, pushes nor settles, and after which a run that is
\* sending was sending before, keeps every promise.
LEMMA Quiet ==
    ASSUME Inv, UNCHANGED <<ledger, taken, lost>>, cut \subseteq cut',
           \A j \in Runs : \/ run'[j] = run[j]
                           \/ run'[j] = Absent
                           \/ /\ run'[j].step # "send" /\ ~run'[j].accepted
                              /\ run'[j].step # "next" => run'[j].user \in Users,
           \A j \in Runs : At(j, "send") => run'[j] = run[j] \/ Of(j) \in cut'
    PROVE  Promises'
<1>1. SoundRuns'
  BY DEF Inv, SoundRuns, Sound, Fresh
<1>2. \A j \in Runs : At(j, "send")' => At(j, "send") /\ Of(j)' = Of(j)
  BY DEF At, Of
<1>3. Exclusive'
  BY <1>2 DEF Inv, Exclusive
<1>4. FreeIsFresh' /\ RemindedOnce'
  BY DEF Inv, FreeIsFresh, RemindedOnce, Fresh
<1>5. ClaimIsEarned'
  <2> SUFFICES ASSUME NEW r \in Reminder, ledger[r] # Absent,
                      ~ \E e \in Endpoints : taken[<<r, e>>] > 0, r \notin cut'
               PROVE  \E k \in Runs : At(k, "send")' /\ Of(k)' = r
    BY DEF ClaimIsEarned
  <2>1. PICK k \in Runs : At(k, "send") /\ Of(k) = r
    BY DEF Inv, ClaimIsEarned
  <2>2. run'[k] = run[k]
    BY <2>1
  <2> QED
    BY <2>1, <2>2 DEF At, Of
<1> QED
  BY <1>1, <1>3, <1>4, <1>5 DEF Promises

\* So do the steps of a run that do none of that.
LEMMA QuietSteps ==
    ASSUME Inv, NEW k \in Runs,
           \/ StartRun(k) \/ ReadDevices(k) \/ ClaimedAlready(k) \/ GiveUp(k) \/ SettleFails(k)
           \/ \E u \in Users : Look(k, u) \/ Skip(k, u) \/ DriveFails(k, u)
    PROVE  Promises'
<1>u. ASSUME NEW u, run[k] # Absent, NextUser(k, u)
      PROVE  /\ \A j \in Runs : j # k => run'[j] = run[j]
             /\ run'[k] = Absent \/ (run'[k].step = "next" /\ ~run'[k].accepted)
  BY <1>u, NextUserRuns DEF Inv
<1>1. CASE StartRun(k)
  <2>1. /\ \A j \in Runs : j # k => run'[j] = run[j]
        /\ run'[k].step = "next" /\ ~run'[k].accepted /\ ~At(k, "send")
    BY <1>1 DEF StartRun, At, Inv, RemindersTypeOK
  <2> QED
    BY <1>1, <2>1, Quiet DEF StartRun, history
<1>2. ASSUME NEW u \in Users, Look(k, u) PROVE Promises'
  <2>1. run[k] \in Run
    BY <1>2 DEF Look, At, Inv, RemindersTypeOK
  <2>2. /\ \A j \in Runs : j # k => run'[j] = run[j]
        /\ run'[k].step = "bill" /\ run'[k].user = u /\ ~At(k, "send")
        /\ run'[k].accepted = run[k].accepted
    BY <1>2, <2>1 DEF Look, At, Inv, RemindersTypeOK, Run
  <2>3. ~run[k].accepted
    BY <1>2 DEF Look, At, Inv, SoundRuns, Sound
  <2> QED
    BY <1>2, <2>2, <2>3, Quiet DEF Look, history
<1>3. ASSUME NEW u \in Users, Skip(k, u) PROVE Promises'
  <2>1. run[k] # Absent /\ ~At(k, "send")
    BY <1>3 DEF Skip, At
  <2> QED
    BY <1>3, <1>u, <2>1, Quiet DEF Skip, history
<1>4. ASSUME NEW u \in Users, DriveFails(k, u) PROVE Promises'
  <2>1. run[k] # Absent /\ ~At(k, "send")
    BY <1>4 DEF DriveFails, At
  <2> QED
    BY <1>4, <1>u, <2>1, Quiet DEF DriveFails, history
<1>5. CASE ReadDevices(k)
  <2>1. run[k] # Absent /\ ~At(k, "send") /\ run[k] \in Run /\ run[k].user \in Users
    BY <1>5, NamesReminder DEF ReadDevices, At, Inv
  <2>2. CASE Subscribed(run[k].user) = {}
    BY <1>5, <1>u, <2>1, <2>2, Quiet DEF ReadDevices, history
  <2>3. CASE Subscribed(run[k].user) # {}
    <3>1. /\ \A j \in Runs : j # k => run'[j] = run[j]
          /\ run'[k].step = "claim" /\ run'[k].user = run[k].user
          /\ run'[k].accepted = run[k].accepted
      BY <1>5, <2>1, <2>3 DEF ReadDevices, Inv, RemindersTypeOK, Run
    <3>2. ~run[k].accepted
      BY <1>5 DEF ReadDevices, At, Inv, SoundRuns, Sound
    <3> QED
      BY <1>5, <2>1, <3>1, <3>2, Quiet DEF ReadDevices, history
  <2> QED
    BY <2>2, <2>3
<1>6. CASE ClaimedAlready(k)
  <2>1. run[k] # Absent /\ ~At(k, "send")
    BY <1>6 DEF ClaimedAlready, At
  <2> QED
    BY <1>6, <1>u, <2>1, Quiet DEF ClaimedAlready, history
<1>7. CASE GiveUp(k)
  <2>1. run[k] # Absent /\ ~At(k, "send")
    BY <1>7 DEF GiveUp, At
  <2> QED
    BY <1>7, <1>u, <2>1, Quiet DEF GiveUp, history
<1>8. CASE SettleFails(k)
  <2>1. run[k] # Absent /\ Of(k) \in cut'
    BY <1>8 DEF SettleFails, At
  <2> QED
    BY <1>8, <1>u, <2>1, Quiet DEF SettleFails
<1> QED
  BY <1>1, <1>2, <1>3, <1>4, <1>5, <1>6, <1>7, <1>8

\* So do users, browsers, the calendar and the process.
LEMMA WorldSteps ==
    ASSUME Inv, WorldStep
    PROVE  Promises'
<1>1. CASE StopServer
  <2>1. \A j \in Runs : run'[j] = Absent
    BY <1>1 DEF StopServer
  <2>2. \A j \in Runs : At(j, "send") => Of(j) \in cut'
    BY <1>1 DEF StopServer
  <2> QED
    BY <1>1, <2>1, <2>2, Quiet DEF StopServer
<1>2. CASE ~StopServer
  <2>1. UNCHANGED <<ledger, run, taken, lost, cut>>
    BY <1>2 DEF WorldStep, SetBills, Unregister, Unsubscribe, Subscribe, Pay, NextDay, history
  <2> QED
    BY <2>1, Quiet
<1> QED
  BY <1>1, <1>2

\* Claiming a reminder nobody has claimed makes its run the only one.
LEMMA ClaimStep ==
    ASSUME Inv, NEW k \in Runs, Claim(k)
    PROVE  Promises'
<1>1. run[k] # Absent /\ run[k] \in Run /\ run[k].user \in Users /\ Of(k) \in Reminder
  BY NamesReminder DEF Claim, At, Inv
<1>2. /\ \A j \in Runs : j # k => run'[j] = run[j]
      /\ run'[k] \in Run /\ run'[k].step = "send"
      /\ run'[k].user = run[k].user /\ run'[k].day = run[k].day
      /\ run'[k].left = run[k].left /\ run'[k].accepted = run[k].accepted
  BY <1>1 DEF Claim, Inv, RemindersTypeOK, Run
<1>3. /\ \A r \in Reminder : r # Of(k) => ledger'[r] = ledger[r]
      /\ ledger[Of(k)] = Absent /\ ledger'[Of(k)] = "pending" /\ "pending" # Absent
      /\ taken' = taken /\ lost' = lost /\ cut' = cut
  BY <1>1, AbsentReminder DEF Claim, Inv, RemindersTypeOK, history
<1>4. \A r \in Reminder : ledger[r] # Absent => ledger'[r] # Absent
  BY <1>3
<1>5. \A e \in Endpoints : Fresh(Of(k), e)
  BY <1>1, <1>3 DEF Inv, FreeIsFresh
<1>6. ASSUME NEW j \in Runs, run'[j] # Absent PROVE Sound(run[j])'
  <2>1. CASE j = k
    <3>1. ~run[k].accepted
      BY <1>1 DEF Claim, Inv, SoundRuns, Sound, At
    <3> QED
      BY <1>1, <1>2, <1>3, <1>5, <2>1, <3>1 DEF Sound, Fresh, Of
  <2>2. CASE j # k
    <3>1. run'[j] = run[j] /\ run[j] # Absent /\ Sound(run[j])
      BY <1>2, <1>6, <2>2 DEF Inv, SoundRuns
    <3>2. run[j].step = "send" => Of(j) \in Reminder /\ ledger'[Of(j)] # Absent
      BY <1>4, <3>1, NamesReminder DEF Inv, Sound, Of
    <3> QED
      BY <1>3, <3>1, <3>2 DEF Sound, Fresh, Of
  <2> QED
    BY <2>1, <2>2
<1>7. Exclusive'
  <2>1. \A j \in Runs : At(j, "send") => Of(j) # Of(k)
    BY <1>3 DEF Inv, SoundRuns, Sound, At, Of
  <2>2. \A j \in Runs : j # k /\ At(j, "send")' => At(j, "send") /\ Of(j)' = Of(j)
    BY <1>2 DEF At, Of
  <2>3. Of(k)' = Of(k)
    BY <1>2 DEF Of
  <2> QED
    BY <2>1, <2>2, <2>3 DEF Inv, Exclusive
<1>8. FreeIsFresh' /\ RemindedOnce'
  BY <1>3, <1>4 DEF Inv, FreeIsFresh, RemindedOnce, Fresh
<1>9. ClaimIsEarned'
  <2> SUFFICES ASSUME NEW r \in Reminder, ledger'[r] # Absent,
                      ~ \E e \in Endpoints : taken[<<r, e>>] > 0, r \notin cut
               PROVE  \E j \in Runs : At(j, "send")' /\ Of(j)' = r
    BY <1>3 DEF ClaimIsEarned
  <2>1. CASE r = Of(k)
    BY <1>2, <2>1, AbsentReminder DEF At, Of, Run
  <2>2. CASE r # Of(k)
    <3>1. PICK j \in Runs : At(j, "send") /\ Of(j) = r
      BY <1>3, <2>2 DEF Inv, ClaimIsEarned
    <3>2. j # k
      BY <2>2, <3>1
    <3> QED
      BY <1>2, <3>1, <3>2 DEF At, Of
  <2> QED
    BY <2>1, <2>2
<1> QED
  BY <1>6, <1>7, <1>8, <1>9 DEF Promises, SoundRuns

\* A push, whatever comes of it, concerns the reminder its run has claimed alone.
LEMMA PushStep ==
    ASSUME Inv, NEW k \in Runs, NEW e \in Endpoints,
           Accept(k, e) \/ Gone(k, e) \/ Passing(k, e) \/ AnswerLost(k, e) \/ Refuse(k, e)
    PROVE  Promises'
<1> DEFINE r == Of(k)
<1>1. /\ At(k, "send") /\ run[k] # Absent /\ run[k] \in Run /\ e \in run[k].left
      /\ run[k].user \in Users /\ Of(k) \in Reminder
  BY NamesReminder DEF Accept, Gone, Passing, AnswerLost, Refuse, Sending, At, Inv
<1>2. Sound(run[k]) /\ ledger[Of(k)] # Absent
  BY <1>1 DEF Inv, SoundRuns, Sound, At, Of
<1>3. Fresh(Of(k), e)
  BY <1>1, <1>2 DEF Sound, At, Of
<1>b. run[k].accepted \in BOOLEAN
  BY <1>1 DEF Run
<1>4. /\ \A j \in Runs : j # k => run'[j] = run[j]
      /\ run'[k] \in Run /\ run'[k].step = "send"
      /\ run'[k].user = run[k].user /\ run'[k].day = run[k].day
      /\ run'[k].left \subseteq run[k].left
  <2>1. CASE Passing(k, e) \/ AnswerLost(k, e)
    BY <1>1, <2>1, RetryRuns DEF Passing, AnswerLost, At, Inv
  <2>2. CASE Accept(k, e)
    BY <1>1, <2>2, NextDeviceRuns, TRUE \in BOOLEAN DEF Accept, At, Inv
  <2>3. CASE Gone(k, e) \/ Refuse(k, e)
    BY <1>1, <2>3, NextDeviceRuns, FALSE \in BOOLEAN DEF Gone, Refuse, At, Inv
  <2> QED
    BY <2>1, <2>2, <2>3
<1>5. \/ Accept(k, e) /\ e \notin run'[k].left /\ run'[k].accepted
      \/ ~Accept(k, e) /\ run'[k].accepted = run[k].accepted
  <2>1. CASE Passing(k, e) \/ AnswerLost(k, e)
    <3>1. run'[k].accepted = run[k].accepted
      BY <1>1, <2>1, RetryRuns DEF Passing, AnswerLost, Inv
    <3>2. CASE Accept(k, e)
      BY <1>1, <1>b, <3>2, NextDeviceRuns, TRUE \in BOOLEAN DEF Accept, Inv
    <3> QED
      BY <3>1, <3>2
  <2>2. CASE Accept(k, e)
    BY <1>1, <1>b, <2>2, NextDeviceRuns, TRUE \in BOOLEAN DEF Accept, Inv
  <2>3. CASE (Gone(k, e) \/ Refuse(k, e)) /\ ~Accept(k, e)
    BY <1>1, <1>b, <2>3, NextDeviceRuns, FALSE \in BOOLEAN DEF Gone, Refuse, Inv
  <2> QED
    BY <2>1, <2>2, <2>3
<1>6. /\ ledger' = ledger /\ cut' = cut
      /\ \/ taken' = taken /\ lost' = lost /\ ~Accept(k, e)
         \/ taken' = [taken EXCEPT ![<<r, e>>] = @ + 1] /\ lost' = lost /\ Accept(k, e)
         \/ /\ taken' = [taken EXCEPT ![<<r, e>>] = @ + 1]
            /\ lost' = [lost EXCEPT ![<<r, e>>] = @ + 1] /\ ~Accept(k, e)
  <2>1. /\ taken[<<r, e>>] \in Nat /\ lost[<<r, e>>] \in Nat
        /\ DOMAIN taken = Reminder \X Endpoints /\ <<r, e>> \in DOMAIN taken
    BY <1>1 DEF Inv, RemindersTypeOK
  <2>2. Accept(k, e) => taken' # taken /\ lost' = lost
    BY <2>1 DEF Accept
  <2>3. AnswerLost(k, e) => lost' # lost
    <3>1. DOMAIN lost = Reminder \X Endpoints /\ lost[<<r, e>>] + 1 # lost[<<r, e>>]
      BY <2>1 DEF Inv, RemindersTypeOK
    <3> QED
      BY <2>1, <3>1 DEF AnswerLost
  <2>4. Gone(k, e) \/ Passing(k, e) \/ Refuse(k, e) => taken' = taken /\ lost' = lost /\ cut' = cut
    BY DEF Gone, Passing, Refuse, history
  <2> QED
    BY <2>2, <2>3, <2>4 DEF Accept, AnswerLost, Gone, Passing, Refuse
<1>7. /\ taken' \in [Reminder \X Endpoints -> Nat] /\ lost' \in [Reminder \X Endpoints -> Nat]
      /\ taken \in [Reminder \X Endpoints -> Nat] /\ lost \in [Reminder \X Endpoints -> Nat]
  BY <1>1, <1>6 DEF Inv, RemindersTypeOK
<1>8. \A p \in Reminder \X Endpoints :
          /\ taken'[p] >= taken[p]
          /\ p # <<r, e>> => taken'[p] = taken[p] /\ lost'[p] = lost[p]
  <2> SUFFICES ASSUME NEW p \in Reminder \X Endpoints
               PROVE  /\ taken'[p] >= taken[p]
                      /\ p # <<r, e>> => taken'[p] = taken[p] /\ lost'[p] = lost[p]
    OBVIOUS
  <2>1. taken[p] \in Nat /\ p \in DOMAIN taken /\ p \in DOMAIN lost
    BY <1>7
  <2>2. CASE taken' = taken /\ lost' = lost
    BY <2>1, <2>2
  <2>3. CASE taken' = [taken EXCEPT ![<<r, e>>] = @ + 1]
    <3>1. taken'[p] = IF p = <<r, e>> THEN taken[p] + 1 ELSE taken[p]
      BY <2>1, <2>3
    <3>2. lost' = lost \/ lost' = [lost EXCEPT ![<<r, e>>] = @ + 1]
      BY <1>6
    <3>3. p # <<r, e>> => lost'[p] = lost[p]
      BY <2>1, <3>2
    <3> QED
      BY <2>1, <3>1, <3>3
  <2> QED
    BY <1>6, <2>2, <2>3
<1>9. /\ ~Accept(k, e) => taken'[<<r, e>>] <= lost'[<<r, e>>]
      /\ Accept(k, e) => taken'[<<r, e>>] <= 1 + lost'[<<r, e>>] /\ taken'[<<r, e>>] > 0
  <2>1. taken[<<r, e>>] \in Nat /\ lost[<<r, e>>] \in Nat /\ <<r, e>> \in Reminder \X Endpoints
    BY <1>1, <1>7
  <2>2. taken[<<r, e>>] <= lost[<<r, e>>]
    BY <1>3 DEF Fresh
  <2> QED
    BY <1>6, <1>7, <2>1, <2>2
<1>10. Sound(run[k])'
  <2>1. <<run'[k].user, run'[k].day>> = r
    BY <1>4 DEF Of
  <2>2. ASSUME NEW d \in Endpoints, d \in run'[k].left \/ ~run'[k].accepted
        PROVE  taken'[<<r, d>>] <= lost'[<<r, d>>]
    <3>1. CASE d = e
      <4>1. ~Accept(k, e)
        BY <1>5, <2>2, <3>1
      <4> QED
        BY <1>9, <3>1, <4>1
    <3>2. CASE d # e
      <4>1. d \in run[k].left \/ ~run[k].accepted
        BY <1>4, <1>5, <2>2
      <4>2. Fresh(r, d)
        BY <1>1, <1>2, <4>1 DEF Sound, At, Of
      <4>3. <<r, d>> \in Reminder \X Endpoints /\ <<r, d>> # <<r, e>>
        BY <1>1, <3>2
      <4> QED
        BY <1>8, <4>2, <4>3 DEF Fresh
    <3> QED
      BY <3>1, <3>2
  <2>3. run'[k].accepted => \E d \in Endpoints : taken'[<<r, d>>] > 0
    <3>1. CASE Accept(k, e)
      BY <1>9, <3>1
    <3>2. CASE ~Accept(k, e)
      <4> SUFFICES ASSUME run[k].accepted PROVE \E d \in Endpoints : taken'[<<r, d>>] > 0
        BY <1>5, <3>2
      <4>1. PICK d \in Endpoints : taken[<<r, d>>] > 0
        BY <1>1, <1>2 DEF Sound, At, Of
      <4>2. <<r, d>> \in Reminder \X Endpoints
        BY <1>1
      <4>3. taken'[<<r, d>>] >= taken[<<r, d>>] /\ taken[<<r, d>>] \in Nat /\ taken'[<<r, d>>] \in Nat
        BY <1>7, <1>8, <4>2
      <4> QED
        BY <4>1, <4>3
    <3> QED
      BY <3>1, <3>2
  <2> HIDE DEF r
  <2> QED
    BY <1>1, <1>2, <1>4, <1>6, <2>1, <2>2, <2>3 DEF Sound, Fresh, r
<1>11. ASSUME NEW j \in Runs, j # k, run'[j] # Absent PROVE Sound(run[j])'
  <2>1. run'[j] = run[j] /\ run[j] # Absent /\ Sound(run[j])
    BY <1>4, <1>11 DEF Inv, SoundRuns
  <2>2. CASE run[j].step # "send"
    BY <2>1, <2>2 DEF Sound
  <2>3. CASE run[j].step = "send"
    <3>1. Of(j) \in Reminder /\ Of(j) # r
      BY <1>1, <1>11, <2>1, <2>3, NamesReminder DEF Inv, Exclusive, At
    <3>2. \A d \in Endpoints : <<Of(j), d>> \in Reminder \X Endpoints /\ <<Of(j), d>> # <<r, e>>
      BY <3>1
    <3>3. \A d \in Endpoints : taken'[<<Of(j), d>>] = taken[<<Of(j), d>>]
                               /\ lost'[<<Of(j), d>>] = lost[<<Of(j), d>>]
      BY <1>8, <3>2
    <3> QED
      BY <1>6, <2>1, <2>3, <3>3 DEF Sound, Fresh, Of
  <2> QED
    BY <2>2, <2>3
<1>12. Exclusive'
  <2>1. \A j \in Runs : At(j, "send")' => At(j, "send") /\ Of(j)' = Of(j)
    BY <1>1, <1>4 DEF At, Of
  <2> QED
    BY <2>1 DEF Inv, Exclusive
<1>13. FreeIsFresh'
  <2> SUFFICES ASSUME NEW q \in Reminder, ledger[q] = Absent, NEW d \in Endpoints
               PROVE  taken'[<<q, d>>] <= lost'[<<q, d>>]
    BY <1>6 DEF FreeIsFresh, Fresh
  <2>1. q # r
    BY <1>2
  <2>2. <<q, d>> \in Reminder \X Endpoints /\ <<q, d>> # <<r, e>>
    BY <2>1
  <2>3. Fresh(q, d)
    BY DEF Inv, FreeIsFresh
  <2> QED
    BY <1>8, <2>2, <2>3 DEF Fresh
<1>14. RemindedOnce'
  <2> SUFFICES ASSUME NEW p \in Reminder \X Endpoints PROVE taken'[p] <= 1 + lost'[p]
    BY DEF RemindedOnce
  <2>1. CASE p = <<r, e>>
    <3>1. taken'[<<r, e>>] \in Nat /\ lost'[<<r, e>>] \in Nat
      BY <1>7, <2>1
    <3> QED
      BY <1>9, <2>1, <3>1
  <2>2. CASE p # <<r, e>>
    BY <1>8, <2>2 DEF Inv, RemindedOnce
  <2> QED
    BY <2>1, <2>2
<1>15. ClaimIsEarned'
  <2> SUFFICES ASSUME NEW q \in Reminder, ledger[q] # Absent,
                      ~ \E d \in Endpoints : taken'[<<q, d>>] > 0, q \notin cut
               PROVE  \E j \in Runs : At(j, "send")' /\ Of(j)' = q
    BY <1>6 DEF ClaimIsEarned
  <2>1. ~ \E d \in Endpoints : taken[<<q, d>>] > 0
    <3> SUFFICES ASSUME NEW d \in Endpoints, taken[<<q, d>>] > 0 PROVE taken'[<<q, d>>] > 0
      OBVIOUS
    <3>1. <<q, d>> \in Reminder \X Endpoints
      OBVIOUS
    <3>2. taken'[<<q, d>>] >= taken[<<q, d>>] /\ taken[<<q, d>>] \in Nat /\ taken'[<<q, d>>] \in Nat
      BY <1>7, <1>8, <3>1
    <3> QED
      BY <3>2
  <2>2. PICK j \in Runs : At(j, "send") /\ Of(j) = q
    BY <2>1 DEF Inv, ClaimIsEarned
  <2>3. CASE j = k
    BY <1>1, <1>4, <2>2, <2>3, AbsentReminder DEF At, Of, Run
  <2>4. CASE j # k
    BY <1>4, <2>2, <2>4 DEF At, Of
  <2> QED
    BY <2>3, <2>4
<1> QED
  BY <1>10, <1>11, <1>12, <1>13, <1>14, <1>15 DEF Promises, SoundRuns

\* Settling releases the claim only when no device has the reminder.
LEMMA SettleStep ==
    ASSUME Inv, NEW k \in Runs, Settle(k)
    PROVE  Promises'
<1>1. /\ At(k, "send") /\ run[k] # Absent /\ run[k] \in Run /\ run[k].left = {}
      /\ Of(k) \in Reminder /\ Sound(run[k])
  BY NamesReminder DEF Settle, At, Inv, SoundRuns
<1>2. /\ \A j \in Runs : j # k => run'[j] = run[j]
      /\ run'[k] = Absent \/ (run'[k].step = "next" /\ ~run'[k].accepted)
  BY <1>1, NextUserRuns DEF Settle, Inv
<1>3. /\ \A q \in Reminder : q # Of(k) => ledger'[q] = ledger[q]
      /\ ledger'[Of(k)] = IF run[k].accepted THEN "accepted" ELSE Absent
      /\ taken' = taken /\ lost' = lost /\ cut' = cut
  BY <1>1 DEF Settle, Inv, RemindersTypeOK, history
<1>4. \A j \in Runs : At(j, "send")' => j # k /\ At(j, "send") /\ Of(j)' = Of(j) /\ Of(j) # Of(k)
  BY <1>1, <1>2 DEF At, Of, Inv, Exclusive
<1>5. ASSUME NEW j \in Runs, run'[j] # Absent PROVE Sound(run[j])'
  <2>1. CASE j = k
    BY <1>2, <1>5, <2>1 DEF Sound
  <2>2. CASE j # k
    <3>1. run'[j] = run[j] /\ run[j] # Absent /\ Sound(run[j])
      BY <1>2, <1>5, <2>2 DEF Inv, SoundRuns
    <3>2. CASE run[j].step # "send"
      BY <3>1, <3>2 DEF Sound
    <3>3. CASE run[j].step = "send"
      <4>1. Of(j) \in Reminder /\ Of(j) # Of(k)
        BY <1>1, <2>2, <3>1, <3>3, NamesReminder DEF Inv, Exclusive, At
      <4> QED
        BY <1>3, <3>1, <3>3, <4>1 DEF Sound, Fresh, Of
    <3> QED
      BY <3>2, <3>3
  <2> QED
    BY <2>1, <2>2
<1>6. Exclusive'
  BY <1>4 DEF Inv, Exclusive
<1>7. FreeIsFresh'
  <2> SUFFICES ASSUME NEW q \in Reminder, ledger'[q] = Absent, NEW e \in Endpoints
               PROVE  Fresh(q, e)
    BY <1>3 DEF FreeIsFresh, Fresh
  <2>1. CASE q = Of(k)
    <3>1. ~run[k].accepted
      BY <1>3, <2>1, AbsentReminder
    <3> QED
      BY <1>1, <2>1, <3>1 DEF Sound, At, Of
  <2>2. CASE q # Of(k)
    BY <1>3, <2>2 DEF Inv, FreeIsFresh
  <2> QED
    BY <2>1, <2>2
<1>8. RemindedOnce'
  BY <1>3 DEF Inv, RemindedOnce
<1>9. ClaimIsEarned'
  <2> SUFFICES ASSUME NEW q \in Reminder, ledger'[q] # Absent,
                      ~ \E e \in Endpoints : taken[<<q, e>>] > 0, q \notin cut
               PROVE  \E j \in Runs : At(j, "send")' /\ Of(j)' = q
    BY <1>3 DEF ClaimIsEarned
  <2>1. q # Of(k)
    <3> SUFFICES ASSUME q = Of(k) PROVE FALSE
      OBVIOUS
    <3>1. run[k].accepted
      BY <1>3
    <3> QED
      BY <1>1, <3>1 DEF Sound, At, Of
  <2>2. PICK j \in Runs : At(j, "send") /\ Of(j) = q
    BY <1>3, <2>1 DEF Inv, ClaimIsEarned
  <2> QED
    BY <1>2, <2>1, <2>2 DEF At, Of
<1> QED
  BY <1>5, <1>6, <1>7, <1>8, <1>9 DEF Promises, SoundRuns

-----------------------------------------------------------------------------
(* The theorems *)

LEMMA InvInit == RemInit => Inv
<1> SUFFICES ASSUME RemInit PROVE Inv
  OBVIOUS
<1>1. RemindersTypeOK
  BY InitTypes
<1>2. SoundRuns /\ Exclusive
  BY DEF RemInit, SoundRuns, Exclusive, At
<1>3. \A r \in Reminder, e \in Endpoints : taken[<<r, e>>] = 0 /\ lost[<<r, e>>] = 0
  BY DEF RemInit
<1>4. FreeIsFresh
  BY <1>3 DEF FreeIsFresh, Fresh
<1>5. RemindedOnce /\ ClaimIsEarned
  BY DEF RemInit, RemindedOnce, ClaimIsEarned
<1> QED
  BY <1>1, <1>2, <1>4, <1>5 DEF Inv

LEMMA InvStep == Inv /\ [RemNext]_remVars => Inv'
<1> SUFFICES ASSUME Inv, [RemNext]_remVars PROVE Inv'
  OBVIOUS
<1>1. ASSUME NEW k \in Runs, StartRun(k) \/ RunStep(k) PROVE Inv'
  <2>1. RemindersTypeOK'
    BY <1>1, RunTypes DEF Inv
  <2>2. CASE Claim(k)
    BY <2>1, <2>2, ClaimStep DEF Inv, Promises
  <2>3. CASE Settle(k)
    BY <2>1, <2>3, SettleStep DEF Inv, Promises
  <2>4. ASSUME NEW e \in Endpoints,
               Accept(k, e) \/ Gone(k, e) \/ Passing(k, e) \/ AnswerLost(k, e) \/ Refuse(k, e)
        PROVE  Inv'
    BY <2>1, <2>4, PushStep DEF Inv, Promises
  <2>5. CASE \/ StartRun(k) \/ ReadDevices(k) \/ ClaimedAlready(k) \/ GiveUp(k) \/ SettleFails(k)
             \/ \E u \in Users : Look(k, u) \/ Skip(k, u) \/ DriveFails(k, u)
    BY <2>1, <2>5, QuietSteps DEF Inv, Promises
  <2> QED
    BY <1>1, <2>2, <2>3, <2>4, <2>5 DEF RunStep
<1>2. CASE WorldStep
  <2>1. RemindersTypeOK'
    BY <1>2, WorldTypes DEF Inv
  <2> QED
    BY <1>2, <2>1, WorldSteps DEF Inv, Promises
<1>3. CASE UNCHANGED remVars
  <2>1. RemindersTypeOK'
    BY <1>3 DEF Inv, RemindersTypeOK, remVars
  <2>2. Promises'
    BY <1>3, Quiet DEF remVars
  <2> QED
    BY <2>1, <2>2 DEF Inv, Promises
<1> QED
  BY <1>1, <1>2, <1>3 DEF RemNext, WorldStep

LEMMA AlwaysInv == RemSpec => []Inv
  BY InvInit, InvStep, PTL DEF RemSpec

\* Every variable keeps its type; a run never tries a device more than Retries
\* times again.
THEOREM TypeCorrect == RemSpec => []RemindersTypeOK
<1>1. Inv => RemindersTypeOK
  BY DEF Inv
<1> QED
  BY <1>1, AlwaysInv, PTL

\* However many runs overlap and wherever the process stops, a device gets a
\* reminder once, and once more for each answer that was lost.
THEOREM NeverTwice == RemSpec => []RemindedOnce
<1>1. Inv => RemindedOnce
  BY DEF Inv
<1> QED
  BY <1>1, AlwaysInv, PTL

\* No reminder stands claimed for nothing.
THEOREM NoEmptyClaim == RemSpec => []ClaimIsEarned
<1>1. Inv => ClaimIsEarned
  BY DEF Inv
<1> QED
  BY <1>1, AlwaysInv, PTL

=============================================================================
