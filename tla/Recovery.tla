------------------------------ MODULE Recovery ------------------------------
(***************************************************************************)
(* Account recovery: backend/src/routes/auth.routes.ts 135-151, 903-1226   *)
(* and the page frontend/src/app/forgot-password. One account, several     *)
(* pages of its user in one browser, requests that overlap, answers that   *)
(* get lost while the handler runs on.                                     *)
(*                                                                         *)
(* Every handler reads its RecoverySession row once and writes it after    *)
(* its awaits. Time is a choice: a code, a session or the wait between two *)
(* codes may be over at any moment.                                        *)
(***************************************************************************)
EXTENDS Naturals, FiniteSets

CONSTANTS
    Pages, Calls,
    Offered,     \* the methods this account has set up
    MaxAttempts, \* MAX_OTP_ATTEMPTS, MAX_TOTP_ATTEMPTS, MAX_SECURITY_ANSWER_ATTEMPTS
    MaxResends,  \* MAX_OTP_RESENDS
    MaxSessions, MaxCodes, MaxRequests, \* bounds
    Absent

Methods == {"EMAIL_OTP", "TOTP", "SECURITY_QUESTIONS"}

ASSUME RecoveryAssumption ==
    /\ IsFiniteSet(Calls)
    /\ {MaxAttempts, MaxResends, MaxSessions, MaxCodes, MaxRequests} \subseteq Nat
    /\ MaxAttempts >= 1
    /\ Offered \subseteq Methods /\ "EMAIL_OTP" \in Offered

Sessions == 1..MaxSessions

VARIABLES
    jar,      \* recovery_token cookie: the session it names, 0 without
    page,     \* what the page shows
    call,     \* the requests under way
    row,      \* RecoverySession
    codes,    \* codes mailed so far
    asked,    \* requests made so far
    \* what happened, for the properties
    newest,    \* the session started last
    overlap,   \* did two starts overlap?
    proof,     \* methods answered right, by session
    wrong,     \* wrong answers judged since the method was chosen or the code sent
    resets,    \* resets a session paid for
    crossed    \* sessions of which a choice or a reset overtook another handler

rowVars == <<row, codes, asked>>
history == <<newest, overlap, proof, wrong, resets, crossed>>
recVars == <<jar, page, call, row, codes, asked, newest, overlap, proof, wrong, resets, crossed>>

States == {"STARTED", "METHOD_SELECTED", "AUTHORIZED", "COMPLETED", "LOCKED", "EXPIRED"}

Row == [state : States, method : Methods \cup {Absent}, code : 0..MaxCodes,
        attempts : [Methods -> Nat], resends : Nat, consumed : BOOLEAN, late : BOOLEAN]

Page == [step : {"ENTER_EMAIL", "CHOOSE_METHOD", "SET_NEW_PASSWORD", "SUCCESS"} \cup Methods,
         locked : BOOLEAN]

Ops == {"start", "select", "resend", "verify", "reset"}

Call == [op : Ops, page : Pages \cup {Absent}, session : 0..MaxSessions,
         method : Methods \cup {Absent}, answer : 0..MaxCodes + 1,
         step : {"sent", "loaded", "ok", "refused", "locked"}, code : 0..MaxCodes]

ASSUME AbsentAssumption == Absent \notin Row \cup Call /\ Absent \notin Pages \cup Methods

RecTypeOK ==
    /\ jar \in 0..MaxSessions
    /\ page \in [Pages -> Page]
    /\ call \in [Calls -> Call \cup {Absent}]
    /\ row \in [Sessions -> Row \cup {Absent}]
    /\ codes \in 0..MaxCodes /\ asked \in 0..MaxRequests
    /\ newest \in 0..MaxSessions
    /\ overlap \in BOOLEAN
    /\ proof \in [Sessions -> SUBSET Methods]
    /\ wrong \in [Sessions -> [Methods -> Nat]]
    /\ resets \in [Sessions -> Nat]
    /\ crossed \subseteq Sessions

Blank == [step |-> "ENTER_EMAIL", locked |-> FALSE]

RecInit ==
    /\ jar = 0
    /\ page = [p \in Pages |-> Blank]
    /\ call = [c \in Calls |-> Absent]
    /\ row = [s \in Sessions |-> Absent]
    /\ codes = 0 /\ asked = 0
    /\ newest = 0 /\ overlap = FALSE
    /\ proof = [s \in Sessions |-> {}]
    /\ wrong = [s \in Sessions |-> [m \in Methods |-> 0]]
    /\ resets = [s \in Sessions |-> 0]
    /\ crossed = {}

-----------------------------------------------------------------------------
(* The page *)

\* Requests of a page that it still waits for: isPending, pendingMethod.
Waiting(p, ops) == {c \in Calls : call[c] # Absent /\ call[c].page = p /\ call[c].op \in ops}

Request(c, p, op, method, answer) ==
    /\ call[c] = Absent /\ asked < MaxRequests /\ asked' = asked + 1
    /\ call' = [call EXCEPT ![c] =
          [op |-> op, page |-> p, session |-> jar,
           method |-> method, answer |-> answer, step |-> "sent", code |-> 0]]
    /\ UNCHANGED <<jar, page, row, codes, history>>

Pending(p) == Waiting(p, {"start", "verify", "reset"}) # {}

SubmitEmail(p, c) ==
    /\ page[p].step = "ENTER_EMAIL" /\ ~Pending(p)
    /\ Request(c, p, "start", Absent, 0)

ChooseMethod(p, c) ==
    /\ page[p].step = "CHOOSE_METHOD" /\ Waiting(p, {"select"}) = {}
    /\ \E m \in Methods : Request(c, p, "select", m, 0)

Resend(p, c) ==
    /\ page[p].step = "EMAIL_OTP"
    /\ Request(c, p, "resend", Absent, 0)

\* The answer is wrong (0), a mailed code, or right for the other methods (1).
SubmitAnswer(p, c) ==
    /\ page[p].step \in Methods /\ ~Pending(p)
    /\ \E a \in 0..MaxCodes :
          /\ a <= IF page[p].step = "EMAIL_OTP" THEN codes ELSE 1
          /\ Request(c, p, "verify", page[p].step, a)

SubmitPassword(p, c) ==
    /\ page[p].step = "SET_NEW_PASSWORD" /\ ~Pending(p)
    /\ Request(c, p, "reset", Absent, 0)

\* "Choose a different method", also while an answer is being verified.
BackToMethods(p) ==
    /\ page[p].step \in Methods
    /\ page' = [page EXCEPT ![p].step = "CHOOSE_METHOD"]
    /\ UNCHANGED <<jar, call, rowVars, history>>

\* "Start over", offered after "too many attempts".
StartOver(p) ==
    /\ page[p].locked
    /\ page' = [page EXCEPT ![p] = Blank]
    /\ UNCHANGED <<jar, call, rowVars, history>>

\* The user leaves the page and comes back to it.
Leave(p) ==
    /\ page' = [page EXCEPT ![p] = Blank]
    /\ call' = [c \in Calls |-> IF call[c] # Absent /\ call[c].page = p
                                THEN IF call[c].step \in {"sent", "loaded"}
                                     THEN [call[c] EXCEPT !.page = Absent] ELSE Absent
                                ELSE call[c]]
    /\ UNCHANGED <<jar, rowVars, history>>

\* The page stops waiting; the handler runs on and its answer is lost.
GiveUp(c) ==
    /\ call[c] # Absent /\ call[c].page # Absent
    /\ call' = [call EXCEPT ![c] = IF @.step \in {"sent", "loaded"}
                                   THEN [@ EXCEPT !.page = Absent] ELSE Absent]
    /\ UNCHANGED <<jar, page, rowVars, history>>

-----------------------------------------------------------------------------
(* The handlers *)

\* The handler answers; nobody may be waiting any more.
Done(c, how) ==
    call' = [call EXCEPT ![c] = IF @.page = Absent THEN Absent ELSE [@ EXCEPT !.step = how]]

\* (mutant) only the state tells whether a session is active
ActiveByState(s) ==
    /\ s # 0 /\ row[s] # Absent
    /\ row[s].state \notin {"LOCKED", "EXPIRED", "COMPLETED"} /\ ~row[s].late

\* loadActiveRecoverySession() of the row as it is now.
Active(s) ==
    /\ s # 0 /\ row[s] # Absent
    /\ ~row[s].consumed /\ row[s].state \notin {"LOCKED", "EXPIRED"} /\ ~row[s].late

\* (mutant) any chosen method may be answered
AdmitsAny(k, r) ==
    CASE k.op = "select" -> r.state \in {"STARTED", "METHOD_SELECTED"} /\ k.method \in Offered
      [] k.op = "resend" -> r.state = "METHOD_SELECTED" /\ r.method = "EMAIL_OTP"
      [] k.op = "verify" -> r.state = "METHOD_SELECTED"
      [] k.op = "reset"  -> r.state \in {"METHOD_SELECTED", "AUTHORIZED"}

\* What the handler asks of the row before its awaits.
Admits(k, r) ==
    CASE k.op = "select" -> r.state \in {"STARTED", "METHOD_SELECTED"} /\ k.method \in Offered
      [] k.op = "resend" -> r.state = "METHOD_SELECTED" /\ r.method = "EMAIL_OTP"
      [] k.op = "verify" -> r.state = "METHOD_SELECTED" /\ r.method = k.method
      [] k.op = "reset"  -> r.state = "AUTHORIZED"

\* (mutant) one attempt too many
ExhaustedLater(k, r) ==
    \/ k.op = "resend" /\ r.resends > MaxResends
    \/ k.op = "verify" /\ r.attempts[k.method] > MaxAttempts

\* Too many attempts or codes: the session is locked.
Exhausted(k, r) ==
    \/ k.op = "resend" /\ r.resends >= MaxResends
    \/ k.op = "verify" /\ r.attempts[k.method] >= MaxAttempts

\* The handler reads the row, and is done or goes on to its awaits.
Load(c) ==
    /\ call[c] # Absent /\ call[c].step = "sent" /\ call[c].op # "start"
    /\ LET k == call[c]
           s == k.session
           r == row[s]
       IN \/ /\ ~Active(s)
             /\ row' = IF s # 0 /\ row[s] # Absent /\ r.late /\ ~r.consumed /\ r.state # "LOCKED"
                       THEN [row EXCEPT ![s].state = "EXPIRED"] ELSE row
             /\ Done(c, "refused")
          \/ /\ Active(s) /\ ~Admits(k, r)
             /\ Done(c, "refused") /\ UNCHANGED row
          \/ /\ Active(s) /\ Admits(k, r) /\ Exhausted(k, r)
             /\ row' = [row EXCEPT ![s].state = "LOCKED"]
             /\ Done(c, "locked")
          \* the code is too old (asked before the count is), the last one too recent,
          \* the password too weak, or the method is no longer the user's
          \/ /\ Active(s) /\ Admits(k, r)
             /\ Exhausted(k, r) => k.op = "verify" /\ k.method = "EMAIL_OTP"
             /\ Done(c, "refused") /\ UNCHANGED row
          \/ /\ Active(s) /\ Admits(k, r) /\ ~Exhausted(k, r)
             /\ call' = [call EXCEPT ![c].step = "loaded",
                    ![c].code = IF k.op = "verify" /\ k.method = "EMAIL_OTP"
                                THEN r.code ELSE 0]
             /\ UNCHANGED row
    /\ UNCHANGED <<jar, page, asked, codes, history>>

\* POST /forgot-password: the account's other sessions end ...
Start(c) ==
    /\ call[c] # Absent /\ call[c].op = "start" /\ call[c].step = "sent"
    /\ row' = [s \in Sessions |->
                  IF row[s] # Absent /\ ~row[s].consumed
                  THEN [row[s] EXCEPT !.consumed = TRUE, !.state = "EXPIRED"] ELSE row[s]]
    /\ call' = [call EXCEPT ![c].step = "loaded"]
    /\ overlap' = (overlap \/ \E d \in Calls \ {c} :
                       call[d] # Absent /\ call[d].op = "start" /\ call[d].step = "loaded")
    /\ UNCHANGED <<jar, page, asked, codes, newest, proof, wrong, resets, crossed>>

\* ... and a new one begins.
Create(c) ==
    /\ call[c] # Absent /\ call[c].op = "start" /\ call[c].step = "loaded"
    /\ newest < MaxSessions
    /\ LET s == newest + 1
       IN /\ row' = [row EXCEPT ![s] =
                [state |-> "STARTED", method |-> Absent, code |-> 0,
                 attempts |-> [m \in Methods |-> 0], resends |-> 0,
                 consumed |-> FALSE, late |-> FALSE]]
          /\ newest' = s
          /\ call' = [call EXCEPT ![c] = IF @.page = Absent THEN Absent
                                         ELSE [@ EXCEPT !.step = "ok", !.session = s]]
    /\ UNCHANGED <<jar, page, asked, codes, overlap, proof, wrong, resets, crossed>>

Loaded(c, op) == call[c] # Absent /\ call[c].op = op /\ call[c].step = "loaded"

\* Is a verification, of this session, under way?
Verifying(s) == \E d \in Calls : Loaded(d, "verify") /\ call[d].session = s

\* A choice of e-mail sends the first code.
Select(c) ==
    /\ Loaded(c, "select")
    /\ LET s == call[c].session
           m == call[c].method
       IN /\ m = "EMAIL_OTP" => codes < MaxCodes
          /\ codes' = IF m = "EMAIL_OTP" THEN codes + 1 ELSE codes
          /\ row' = [row EXCEPT ![s] =
                [row[s] EXCEPT !.state = "METHOD_SELECTED", !.method = m,
                    !.attempts = [row[s].attempts EXCEPT ![m] = 0],
                    !.code = IF m = "EMAIL_OTP" THEN codes' ELSE row[s].code,
                    !.resends = IF m = "EMAIL_OTP" THEN 0 ELSE row[s].resends]]
          /\ wrong' = [wrong EXCEPT ![s][m] = 0]
          /\ crossed' = IF Verifying(s) \/ row[s].state \notin {"STARTED", "METHOD_SELECTED"}
                        THEN crossed \cup {s} ELSE crossed
    /\ Done(c, "ok")
    /\ UNCHANGED <<jar, page, asked, newest, overlap, proof, resets>>

\* A new code replaces the last one and starts its attempts anew.
SendAgain(c) ==
    /\ Loaded(c, "resend") /\ codes < MaxCodes
    /\ LET s == call[c].session
       IN /\ row' = [row EXCEPT ![s] =
                [row[s] EXCEPT !.attempts = [row[s].attempts EXCEPT !["EMAIL_OTP"] = 0],
                               !.code = codes + 1, !.resends = @ + 1]]
          /\ wrong' = [wrong EXCEPT ![s]["EMAIL_OTP"] = 0]
    /\ codes' = codes + 1
    /\ Done(c, "ok")
    /\ UNCHANGED <<jar, page, asked, newest, overlap, proof, resets, crossed>>

\* The answer is compared with what was read.
Right(k) == IF k.method = "EMAIL_OTP" THEN k.answer # 0 /\ k.answer = k.code ELSE k.answer = 1

\* A right answer authorizes the session, a wrong one counts.
Verify(c) ==
    /\ Loaded(c, "verify")
    /\ LET k == call[c]
           s == k.session
       IN IF Right(k)
          THEN /\ row' = [row EXCEPT ![s] =
                     [row[s] EXCEPT !.state = "AUTHORIZED",
                         !.attempts = [row[s].attempts EXCEPT ![k.method] = 0],
                         !.code = IF k.method = "EMAIL_OTP" THEN 0 ELSE row[s].code]]
               /\ proof' = [proof EXCEPT ![s] = @ \cup {k.method}]
               /\ Done(c, "ok") /\ UNCHANGED wrong
          ELSE /\ row' = [row EXCEPT ![s] =
                     [row[s] EXCEPT !.attempts = [row[s].attempts EXCEPT ![k.method] = @ + 1]]]
               /\ wrong' = [wrong EXCEPT ![s][k.method] = @ + 1]
               /\ Done(c, "refused") /\ UNCHANGED proof
    /\ UNCHANGED <<jar, page, asked, codes, newest, overlap, resets, crossed>>

\* The password and the end of the session are one transaction.
Reset(c) ==
    /\ Loaded(c, "reset")
    /\ LET s == call[c].session
       IN /\ row' = [row EXCEPT ![s] =
                [row[s] EXCEPT !.state = "COMPLETED", !.consumed = TRUE]]
          /\ resets' = [resets EXCEPT ![s] = @ + 1]
          /\ crossed' = IF \E d \in Calls \ {c} : Loaded(d, "reset") /\ call[d].session = s
                        THEN crossed \cup {s} ELSE crossed
    /\ Done(c, "ok")
    /\ UNCHANGED <<jar, page, asked, codes, newest, overlap, proof, wrong>>

-----------------------------------------------------------------------------
(* Answers *)

NextStep(p, k) ==
    CASE k.op = "start"  -> [page[p] EXCEPT !.step = "CHOOSE_METHOD"]
      [] k.op = "select" -> [page[p] EXCEPT !.step = k.method]
      [] k.op = "resend" -> page[p]
      [] k.op = "verify" -> [page[p] EXCEPT !.step = "SET_NEW_PASSWORD"]
      [] k.op = "reset"  -> [page[p] EXCEPT !.step = "SUCCESS"]

\* The answer arrives, with the cookie it sets or clears, and the page moves on.
Answer(c) ==
    /\ call[c] # Absent /\ call[c].step \in {"ok", "refused", "locked"}
    /\ LET k == call[c]
           p == k.page
       IN /\ jar' = IF k.step # "ok" THEN jar
                    ELSE IF k.op = "start" THEN k.session
                    ELSE IF k.op = "reset" THEN 0 ELSE jar
          /\ page' = [page EXCEPT ![p] = IF k.step = "ok" THEN NextStep(p, k)
                                        ELSE [@ EXCEPT !.locked = (k.step = "locked")]]
    /\ call' = [call EXCEPT ![c] = Absent]
    /\ UNCHANGED <<rowVars, history>>

\* A session's fifteen minutes are over.
Age(s) ==
    /\ row[s] # Absent /\ ~row[s].late /\ ~row[s].consumed
    /\ row' = [row EXCEPT ![s].late = TRUE]
    /\ UNCHANGED <<jar, page, asked, call, codes, history>>

FromPage(p) ==
    \/ \E c \in Calls : SubmitEmail(p, c) \/ ChooseMethod(p, c) \/ Resend(p, c)
                        \/ SubmitAnswer(p, c) \/ SubmitPassword(p, c)
    \/ BackToMethods(p) \/ StartOver(p) \/ Leave(p)

Handler(c) == Load(c) \/ Start(c) \/ Create(c) \/ Select(c) \/ SendAgain(c) \/ Verify(c) \/ Reset(c)

RecNext ==
    \/ \E p \in Pages : FromPage(p)
    \/ \E c \in Calls : Handler(c) \/ Answer(c) \/ GiveUp(c)
    \/ \E s \in Sessions : Age(s)

RecSpec == RecInit /\ [][RecNext]_recVars

-----------------------------------------------------------------------------
(* What recovery promises *)

\* auth.routes.ts:933 "Starting a new session invalidates any previous active
\* session for the same user - only the newest stays valid": whatever older pages
\* and late handlers still do, no other session is ever active again; unless two
\* starts overlapped.
OnlyNewest == overlap \/ \A s \in Sessions : Active(s) => s = newest

\* Between two choices of its method, or two codes, a session gets MaxAttempts wrong
\* answers, although handlers read, compare and count in separate steps: those that
\* read the counter at the same time can exceed it, each by one. (Choices have no
\* limit, so neither have the answers that a session gets in all.)
FewGuesses ==
    \A s \in Sessions, m \in Methods : wrong[s][m] < MaxAttempts + Cardinality(Calls)

\* auth.routes.ts:909 "The user picks exactly ONE recovery method up front; only that
\* method's verify endpoint can ever advance the session to AUTHORIZED": a session
\* sets the password only when the method it names was answered right, and only
\* once, unless a new choice overtook the verification or two resets overlapped.
ResetIsEarned ==
    \A s \in Sessions : resets[s] > 0 =>
        /\ proof[s] # {}
        /\ s \in crossed \/ (row[s].method \in proof[s] /\ resets[s] = 1)

=============================================================================
