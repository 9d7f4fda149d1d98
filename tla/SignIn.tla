------------------------------- MODULE SignIn -------------------------------
(***************************************************************************)
(* The factors of one account, backend/src/routes/auth.routes.ts: password *)
(* and PIN with their shared count of wrong answers and lock (413-473,     *)
(* 661-694), the second factor with its backup codes (162-178, 547-588,    *)
(* 703-838), the forced change of a password (477-545) and what a right    *)
(* answer leads to (375-409).                                              *)
(*                                                                         *)
(* Every handler reads the account once, compares for a tenth of a second  *)
(* (bcrypt) and writes absolute values made from what it had read. Whether *)
(* an answer is right is the client's choice; a handler refused at its     *)
(* first read changes nothing and is not shown. What happens to a session  *)
(* once it is issued is module Session.                                    *)
(***************************************************************************)
EXTENDS Naturals, FiniteSets

CONSTANTS
    Handlers,         \* requests under way at once
    Backups,          \* the codes of one batch: generateBackupCodes()
    MaxLoginAttempts, \* MAX_LOGIN_ATTEMPTS
    MaxBatches, MaxArrivals, \* bounds
    NoHandler

Batches == 1..MaxBatches
Codes == Batches \X Backups
Batch(n) == {c \in Codes : c[1] = n}

FirstFactors == {"password", "pin"}
SecondFactors == {"login-verify", "disable", "reverify"}
Routes == FirstFactors \cup SecondFactors \cup {"confirm", "change"}

Account == [attempts : Nat, lock : {"none", "held", "lapsed"}, mustChange : BOOLEAN,
            enabled : BOOLEAN, pending : BOOLEAN, backups : SUBSET Codes]

\* behind, stale: the attempts, the backup codes were written since the read.
Handling == [route : Routes, step : {"read", "proved"}, seen : Account, behind : BOOLEAN, stale : BOOLEAN]

ASSUME SignInAssumption ==
    /\ MaxLoginAttempts \in Nat \ {0} /\ MaxBatches \in Nat /\ MaxArrivals \in Nat
    /\ NoHandler \notin Handling

VARIABLES
    account,  \* the User row
    handler,  \* requests under way
    tickets,  \* short-lived tokens out: challengeToken, passwordChangeToken
    signedIn, \* does a browser hold a session?
    arrivals, \* requests so far
    \* what happened, for the properties
    guesses,  \* wrong passwords and PINs judged since the last right one
    raced,    \* did a handler count from a number that was out of date?
    batch,    \* batches of backup codes made so far; the user has the last one
    usedCodes, \* backup codes accepted
    torn      \* did a handler take a code from a list that was out of date?

siVars == <<account, handler, tickets, signedIn, arrivals, guesses, raced, batch, usedCodes, torn>>
coding == <<batch, usedCodes, torn>>
counting == <<guesses, raced>>

SiTypeOK ==
    /\ account \in Account
    /\ handler \in [Handlers -> Handling \cup {NoHandler}]
    /\ tickets \subseteq {"challenge", "change"}
    /\ signedIn \in BOOLEAN /\ arrivals \in 0..MaxArrivals
    /\ guesses \in Nat /\ raced \in BOOLEAN
    /\ batch \in 0..MaxBatches /\ usedCodes \subseteq Codes /\ torn \in BOOLEAN

SiInit ==
    /\ account = [attempts |-> 0, lock |-> "none", mustChange |-> FALSE,
                  enabled |-> FALSE, pending |-> FALSE, backups |-> {}]
    /\ handler = [h \in Handlers |-> NoHandler]
    /\ tickets = {} /\ signedIn = FALSE /\ arrivals = 0
    /\ guesses = 0 /\ raced = FALSE
    /\ batch = 0 /\ usedCodes = {} /\ torn = FALSE

-----------------------------------------------------------------------------
(* The first read *)

\* What a route asks of the request and of the account it reads.
Admitted(route) ==
    CASE route \in FirstFactors -> account.lock # "held"
      [] route = "login-verify" -> "challenge" \in tickets
      [] route = "change"       -> "change" \in tickets
      [] route = "confirm"      -> signedIn /\ account.pending
      [] route \in {"disable", "reverify"} -> signedIn /\ account.enabled

ReadAccount(h, route) ==
    /\ handler[h] = NoHandler /\ arrivals < MaxArrivals /\ arrivals' = arrivals + 1
    /\ Admitted(route)
    /\ handler' = [handler EXCEPT ![h] =
           [route |-> route, step |-> "read", seen |-> account, behind |-> FALSE, stale |-> FALSE]]
    /\ UNCHANGED <<account, tickets, signedIn, counting, coding>>

At(h, routes, step) == handler[h] # NoHandler /\ handler[h].route \in routes /\ handler[h].step = step

Ends(h) == handler' = [handler EXCEPT ![h] = NoHandler]

\* h ends after a write of the attempts, or of the backup codes.
EndsCounting(h) ==
    handler' = [g \in Handlers |-> IF g = h \/ handler[g] = NoHandler THEN NoHandler
                                   ELSE [handler[g] EXCEPT !.behind = TRUE]]
EndsCoding(h) ==
    handler' = [g \in Handlers |-> IF g = h \/ handler[g] = NoHandler THEN NoHandler
                                   ELSE [handler[g] EXCEPT !.stale = TRUE]]

-----------------------------------------------------------------------------
(* First factor *)

\* completeLogin() of what was read: the gate of a forced change, the second
\* factor, the session.
CompleteLogin(seen) ==
    IF seen.mustChange THEN tickets' = tickets \cup {"change"} /\ UNCHANGED signedIn
    ELSE IF seen.enabled THEN tickets' = tickets \cup {"challenge"} /\ UNCHANGED signedIn
    ELSE signedIn' = TRUE /\ UNCHANGED tickets

\* (mutant) wrong PINs do not count
WrongPassword(h) ==
    /\ At(h, FirstFactors, "read")
    /\ LET n == handler[h].seen.attempts + (IF handler[h].route = "pin" THEN 0 ELSE 1)
       IN account' = [account EXCEPT !.attempts = n,
                                     !.lock = IF n >= MaxLoginAttempts THEN "held" ELSE "none"]
    /\ guesses' = guesses + 1 /\ raced' = (raced \/ handler[h].behind)
    /\ EndsCounting(h)
    /\ UNCHANGED <<tickets, signedIn, arrivals, coding>>

WrongAnswer(h) ==
    /\ At(h, FirstFactors, "read")
    /\ LET n == handler[h].seen.attempts + 1
       IN account' = [account EXCEPT !.attempts = n,
                                     !.lock = IF n >= MaxLoginAttempts THEN "held" ELSE "none"]
    /\ guesses' = guesses + 1 /\ raced' = (raced \/ handler[h].behind)
    /\ EndsCounting(h)
    /\ UNCHANGED <<tickets, signedIn, arrivals, coding>>

\* The count and the lock are cleared when the handler had read any.
RightAnswer(h) ==
    /\ At(h, FirstFactors, "read")
    /\ LET seen == handler[h].seen
       IN /\ \/ /\ seen.attempts > 0 \/ seen.lock # "none"
                /\ account' = [account EXCEPT !.attempts = 0, !.lock = "none"]
                /\ EndsCounting(h)
             \/ seen.attempts = 0 /\ seen.lock = "none" /\ Ends(h) /\ UNCHANGED account
          /\ CompleteLogin(seen)
    /\ guesses' = 0 /\ raced' = FALSE
    /\ UNCHANGED <<arrivals, coding>>

\* POST /force-change-password
ChangeForced(h) ==
    /\ At(h, {"change"}, "read")
    /\ account' = [account EXCEPT !.mustChange = FALSE]
    /\ signedIn' = TRUE
    /\ Ends(h)
    /\ UNCHANGED <<tickets, arrivals, counting, coding>>

-----------------------------------------------------------------------------
(* Second factor *)

\* What the route does once the code is right; disabling takes one more write.
Passes(h) == signedIn' = (signedIn \/ handler[h].route = "login-verify")

\* A code of the authenticator application.
AcceptTotp(h) ==
    /\ At(h, SecondFactors, "read") /\ handler[h].seen.enabled
    /\ IF handler[h].route = "disable" THEN handler' = [handler EXCEPT ![h] = [handler[h] EXCEPT !.step = "proved"]]
       ELSE Ends(h)
    /\ Passes(h)
    /\ UNCHANGED <<account, tickets, arrivals, counting, coding>>

\* (mutant) a re-verification does not take the code
AcceptBackupAtLogin(h, c) ==
    /\ At(h, SecondFactors, "read") /\ handler[h].seen.enabled /\ c \in handler[h].seen.backups
    /\ account' = IF handler[h].route = "reverify" THEN account
                  ELSE [account EXCEPT !.backups = handler[h].seen.backups \ {c}]
    /\ usedCodes' = usedCodes \cup {c} /\ torn' = (torn \/ handler[h].stale)
    /\ handler' = [g \in Handlers |->
           IF handler[g] = NoHandler \/ (g = h /\ handler[h].route # "disable") THEN NoHandler
           ELSE [handler[g] EXCEPT !.stale = TRUE, !.step = IF g = h THEN "proved" ELSE handler[g].step]]
    /\ Passes(h)
    /\ UNCHANGED <<tickets, arrivals, counting, batch>>

\* verifyTwoFactorCode(): a backup code is taken out of the list that was read.
AcceptBackup(h, c) ==
    /\ At(h, SecondFactors, "read") /\ handler[h].seen.enabled /\ c \in handler[h].seen.backups
    /\ account' = [account EXCEPT !.backups = handler[h].seen.backups \ {c}]
    /\ usedCodes' = usedCodes \cup {c} /\ torn' = (torn \/ handler[h].stale)
    /\ handler' = [g \in Handlers |->
           IF handler[g] = NoHandler \/ (g = h /\ handler[h].route # "disable") THEN NoHandler
           ELSE [handler[g] EXCEPT !.stale = TRUE, !.step = IF g = h THEN "proved" ELSE handler[g].step]]
    /\ Passes(h)
    /\ UNCHANGED <<tickets, arrivals, counting, batch>>

\* A wrong code, or a handler that throws.
RejectCode(h) ==
    /\ handler[h] # NoHandler
    /\ Ends(h)
    /\ UNCHANGED <<account, tickets, signedIn, arrivals, counting, coding>>

\* POST /2fa/setup
Setup ==
    /\ signedIn /\ ~account.pending
    /\ account' = [account EXCEPT !.pending = TRUE]
    /\ UNCHANGED <<handler, tickets, signedIn, arrivals, counting, coding>>

\* POST /2fa/verify: a new batch of codes, shown to the user.
Confirm(h) ==
    /\ At(h, {"confirm"}, "read") /\ batch < MaxBatches
    /\ batch' = batch + 1
    /\ account' = [account EXCEPT !.enabled = TRUE, !.pending = FALSE, !.backups = Batch(batch')]
    /\ torn' = FALSE
    /\ EndsCoding(h)
    /\ UNCHANGED <<tickets, signedIn, arrivals, counting, usedCodes>>

\* POST /2fa/disable, its second write.
Disable(h) ==
    /\ At(h, {"disable"}, "proved")
    /\ account' = [account EXCEPT !.enabled = FALSE, !.pending = FALSE, !.backups = {}]
    /\ torn' = FALSE
    /\ EndsCoding(h)
    /\ UNCHANGED <<tickets, signedIn, arrivals, counting, batch, usedCodes>>

-----------------------------------------------------------------------------
(* Around them *)

LockLapses ==
    /\ account.lock = "held"
    /\ account' = [account EXCEPT !.lock = "lapsed"]
    /\ UNCHANGED <<handler, tickets, signedIn, arrivals, counting, coding>>

TicketExpires(t) ==
    /\ t \in tickets /\ tickets' = tickets \ {t}
    /\ UNCHANGED <<account, handler, signedIn, arrivals, counting, coding>>

\* POST /users/:id/reset-password: a temporary password, every session ended.
AdminReset ==
    /\ ~account.mustChange
    /\ account' = [account EXCEPT !.mustChange = TRUE]
    /\ signedIn' = FALSE
    /\ UNCHANGED <<handler, tickets, arrivals, counting, coding>>

\* A forgotten password is set anew (module Recovery).
Recovered ==
    /\ account' = [account EXCEPT !.mustChange = FALSE]
    /\ signedIn' = FALSE
    /\ UNCHANGED <<handler, tickets, arrivals, counting, coding>>

\* POST /reactivate/verify of an account that was closed.
Reactivate ==
    /\ arrivals < MaxArrivals /\ arrivals' = arrivals + 1
    /\ account' = [account EXCEPT !.attempts = 0, !.lock = "none"]
    /\ handler' = [h \in Handlers |-> IF handler[h] = NoHandler THEN NoHandler
                                      ELSE [handler[h] EXCEPT !.behind = TRUE]]
    /\ CompleteLogin(account)
    /\ guesses' = 0 /\ raced' = FALSE
    /\ UNCHANGED coding

SignOut ==
    /\ signedIn /\ signedIn' = FALSE
    /\ UNCHANGED <<account, handler, tickets, arrivals, counting, coding>>

Handle(h) ==
    \/ \E route \in Routes : ReadAccount(h, route)
    \/ WrongAnswer(h) \/ RightAnswer(h) \/ ChangeForced(h)
    \/ AcceptTotp(h) \/ (\E c \in Codes : AcceptBackup(h, c)) \/ RejectCode(h)
    \/ Confirm(h) \/ Disable(h)

SiNext ==
    \/ \E h \in Handlers : Handle(h)
    \/ \E t \in {"challenge", "change"} : TicketExpires(t)
    \/ Setup \/ LockLapses \/ AdminReset \/ Recovered \/ Reactivate \/ SignOut

SiSpec == SiInit /\ [][SiNext]_siVars

-----------------------------------------------------------------------------
(* What the factors promise *)

\* auth.routes.ts:682 "Same counters/lockout as password login, so a 4-digit PIN
\* cannot be brute-forced": MaxLoginAttempts wrong passwords and PINs at the two
\* sign-in routes, over however many handlers, lapsed locks and reactivations, lock
\* the account, unless one of them was counted from a number another handler had
\* changed. (POST /pin/verify, for those signed in, counts nothing.)
GuessesLock == raced \/ guesses < MaxLoginAttempts \/ account.lock # "none"

\* auth.routes.ts:161 "falling back to (and consuming) a backup code": the codes that
\* are accepted are the user's newest batch without the ones used, unless a code
\* was taken from a list that another handler had changed.
BackupCodesHold ==
    torn \/ account.backups = IF account.enabled THEN Batch(batch) \ usedCodes ELSE {}

=============================================================================
