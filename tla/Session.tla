------------------------------ MODULE Session ------------------------------
(***************************************************************************)
(* backend/src/lib/sessionVersion.ts, lib/sessionRevocation.ts,            *)
(* middleware/auth.ts and routes/auth.routes.ts: the sessions of one       *)
(* account in several browsers. Tokens are stateless; what ends them is    *)
(* the account's session version and the set of revoked Session rows, both *)
(* cached in the process and written to PostgreSQL behind it. Every await  *)
(* of a handler is a step of its own, so sign-ins, refreshes, sign-outs    *)
(* and an administrator's actions interleave, and the process restarts.    *)
(* (The update of Session rows and the cache entries that follow it are    *)
(* one step: only a list of open rows could fall between them.)            *)
(***************************************************************************)
EXTENDS Naturals, FiniteSets

CONSTANTS
    Browsers,
    None,
    MaxVersion,     \* bound on what ends sessions
    MaxSessions,    \* bound on Session rows
    MaxRestarts

ASSUME SessionAssumption ==
    /\ None \notin Browsers \cup (1..MaxSessions)
    /\ MaxVersion \in Nat /\ MaxSessions \in Nat /\ MaxRestarts \in Nat

VARIABLES
    saved,      \* User.sessionVersion in the database
    writes,     \* updates of it under way
    version,    \* the cached version
    rows,       \* Session rows: "none", "open" or "revoked"
    revoked,    \* the cached set of revoked sessions
    sweep,      \* what a force-logout still does: "find", "save" or nothing
    cookie,     \* each browser's token, or None
    request,    \* one authenticated request of each browser, or None
    signIn,     \* one sign-in of each browser, or None
    origin,     \* (history) the session each browser's token began with
    ended,      \* (history) browsers whose sign-in was ended
    firm,       \* (history) browsers whose sign-in nothing has disturbed
    reissued,   \* (history) browsers that got a token from the 2FA or UID routes since
    lost,       \* (history) has the database or the process missed a version or revocation?
    restarts

server  == <<saved, writes, version, rows, revoked, sweep>>
history == <<origin, ended, firm, reissued, lost>>
vars    == <<server, cookie, request, signIn, history, restarts>>

Sessions == 1..MaxSessions
Token == [version : 0..MaxVersion, session : Sessions \cup {None}]
Asked == [token : Token, step : {"sent", "passed", "refused"}]
Begun == [step : {"list", "revoke", "create", "answer"}, version : 0..MaxVersion,
          found : SUBSET Sessions, session : Sessions \cup {None}]

ASSUME NoneIsNoValue == None \notin Token /\ None \notin Begun

TypeOK ==
    /\ saved \in 0..MaxVersion /\ version \in 0..MaxVersion
    /\ writes \subseteq 0..MaxVersion
    /\ rows \in [Sessions -> {"none", "open", "revoked"}]
    /\ revoked \subseteq Sessions
    /\ sweep \in {"none", "find", "save"}
    /\ cookie \in [Browsers -> Token \cup {None}]
    /\ request \in [Browsers -> Asked \cup {None}]
    /\ signIn \in [Browsers -> Begun \cup {None}]
    /\ origin \in [Browsers -> Sessions \cup {None}]
    /\ ended \subseteq Browsers /\ firm \subseteq Browsers
    /\ reissued \subseteq Browsers /\ lost \in BOOLEAN
    /\ restarts \in 0..MaxRestarts

Init ==
    /\ saved = 0 /\ writes = {} /\ version = 0
    /\ rows = [s \in Sessions |-> "none"]
    /\ revoked = {} /\ sweep = "none"
    /\ cookie = [b \in Browsers |-> None]
    /\ request = [b \in Browsers |-> None]
    /\ signIn = [b \in Browsers |-> None]
    /\ origin = [b \in Browsers |-> None]
    /\ ended = {} /\ firm = {} /\ reissued = {} /\ lost = FALSE
    /\ restarts = 0

-----------------------------------------------------------------------------
(* Versions and revocations *)

\* authenticate(), /refresh: what a token must be.
Accepted(t) == t.version = version /\ t.session \notin revoked

Holders == {b \in Browsers : cookie[b] # None}
Open == {s \in Sessions : rows[s] = "open"}
Revoked == {s \in Sessions : rows[s] = "revoked"}

\* bumpSessionVersion(): the cache at once, the row when the update gets there.
\* Every token in a browser is over.
Bump ==
    /\ version < MaxVersion
    /\ version' = version + 1
    /\ writes' = writes \cup {version'}
    /\ ended' = ended \cup Holders

Persist(v) ==
    /\ saved' = v
    /\ writes' = writes \ {v}
    /\ lost' = (lost \/ \E w \in writes : w < v)
    /\ UNCHANGED <<version, rows, revoked, sweep, cookie, request, signIn, origin, ended, firm, reissued, restarts>>

\* .catch(() => {})
LoseWrite(v) ==
    /\ writes' = writes \ {v}
    /\ lost' = TRUE
    /\ UNCHANGED <<saved, version, rows, revoked, sweep, cookie, request, signIn, origin, ended, firm, reissued, restarts>>

-----------------------------------------------------------------------------
(* Sign-in: completeLogin() and /2fa/login-verify, the passkey route, and the *)
(* first password change                                                      *)

\* Nothing of the account is under way that could touch a sign-in of b.
Quiet(b) ==
    /\ \A c \in Browsers : signIn[c] = None
    /\ request[b] = None /\ sweep = "none"

\* The credentials are right: the version is bumped before anything is awaited.
\* A passkey leaves the rows of other sessions alone, a first password has none.
SignIn(b, step) ==
    /\ signIn[b] = None
    /\ Bump
    /\ signIn' = [signIn EXCEPT ![b] =
            [step |-> step, version |-> version', found |-> {}, session |-> None]]
    /\ firm' = IF Quiet(b) THEN {b} ELSE {}
    /\ UNCHANGED <<saved, rows, revoked, sweep, cookie, request, origin, reissued, lost, restarts>>

At(b, step) == signIn[b] # None /\ signIn[b].step = step

\* revokeOtherSessions()
ListSessions(b) ==
    /\ At(b, "list")
    /\ signIn' = [signIn EXCEPT ![b].step = "revoke", ![b].found = Open]
    /\ UNCHANGED <<server, cookie, request, history, restarts>>

RevokeOthers(b) ==
    /\ At(b, "revoke")
    /\ LET found == signIn[b].found
       IN /\ rows' = [s \in Sessions |-> IF s \in found THEN "revoked" ELSE rows[s]]
          /\ revoked' = revoked \cup found
    /\ signIn' = [signIn EXCEPT ![b].step = "create", ![b].found = {}]
    /\ UNCHANGED <<saved, writes, version, sweep, cookie, request, history, restarts>>

\* createSessionRecord(), whose failure does not stop the sign-in.
CreateSession(b) ==
    /\ At(b, "create")
    /\ \/ \E s \in Sessions :
            /\ rows[s] = "none" /\ \A r \in 1..(s - 1) : rows[r] # "none"
            /\ rows' = [rows EXCEPT ![s] = "open"]
            /\ signIn' = [signIn EXCEPT ![b].step = "answer", ![b].session = s]
       \/ signIn' = [signIn EXCEPT ![b].step = "answer"] /\ UNCHANGED rows
    /\ UNCHANGED <<saved, writes, version, revoked, sweep, cookie, request, history, restarts>>

AnswerSignIn(b) ==
    /\ At(b, "answer")
    /\ cookie' = [cookie EXCEPT ![b] =
            [version |-> signIn[b].version, session |-> signIn[b].session]]
    /\ origin' = [origin EXCEPT ![b] = signIn[b].session]
    /\ ended' = ended \ {b}
    /\ reissued' = IF request[b] = None THEN reissued \ {b} ELSE reissued
    /\ signIn' = [signIn EXCEPT ![b] = None]
    /\ UNCHANGED <<server, request, firm, lost, restarts>>

\* The handler throws, or its answer is lost.
SignInFails(b) ==
    /\ signIn[b] # None
    /\ signIn' = [signIn EXCEPT ![b] = None]
    /\ firm' = firm \ {b}
    /\ UNCHANGED <<server, cookie, request, origin, ended, reissued, lost, restarts>>

-----------------------------------------------------------------------------
(* Authenticated requests and /refresh *)

Request(b) ==
    /\ cookie[b] # None /\ request[b] = None
    /\ request' = [request EXCEPT ![b] = [token |-> cookie[b], step |-> "sent"]]
    /\ firm' = IF signIn[b] # None THEN firm \ {b} ELSE firm
    /\ UNCHANGED <<server, cookie, signIn, origin, ended, reissued, lost, restarts>>

\* The checks come first; what the handler awaits comes after them.
Check(b) ==
    /\ request[b] # None /\ request[b].step = "sent"
    /\ request' = [request EXCEPT ![b].step =
            IF Accepted(request[b].token) THEN "passed" ELSE "refused"]
    /\ UNCHANGED <<server, cookie, signIn, history, restarts>>

\* (mutant) the slide signs with the account's current version
AnswerCurrent(b) ==
    /\ request[b] # None /\ request[b].step # "sent"
    /\ LET t == request[b].token
           new == IF request[b].step = "passed" THEN [t EXCEPT !.version = version] ELSE None
       IN cookie' \in {cookie, [cookie EXCEPT ![b] = new]}
    /\ request' = [request EXCEPT ![b] = None]
    /\ UNCHANGED <<server, signIn, history, restarts>>

\* A request that passed may slide the deadline: the token is signed anew with
\* the claims it came with. One that did not may clear the cookies (/refresh).
AnswerRequest(b) ==
    /\ request[b] # None /\ request[b].step # "sent"
    /\ LET new == IF request[b].step = "passed" THEN request[b].token ELSE None
       IN cookie' \in {cookie, [cookie EXCEPT ![b] = new]}
    /\ request' = [request EXCEPT ![b] = None]
    /\ UNCHANGED <<server, signIn, history, restarts>>

\* /2fa/verify, /2fa/disable, /2fa/reverify: a token with the version of now, for
\* no session in particular. The answer may be lost.
Reverify(b) ==
    /\ request[b] # None /\ request[b].step = "passed"
    /\ cookie' \in {cookie, [cookie EXCEPT ![b] = [version |-> version, session |-> None]]}
    /\ request' = [request EXCEPT ![b] = None]
    /\ reissued' = reissued \cup {b}
    /\ UNCHANGED <<server, signIn, origin, ended, firm, lost, restarts>>

\* /change-uid ends every other browser's session.
ChangeUid(b) ==
    /\ request[b] # None /\ request[b].step = "passed"
    /\ version < MaxVersion
    /\ version' = version + 1
    /\ writes' = writes \cup {version'}
    /\ ended' = (ended \cup Holders) \ {b}
    /\ firm' = {}
    /\ reissued' = reissued \cup {b}
    /\ cookie' \in {cookie, [cookie EXCEPT ![b] = [version |-> version', session |-> None]]}
    /\ request' = [request EXCEPT ![b] = None]
    /\ UNCHANGED <<saved, rows, revoked, sweep, signIn, origin, lost, restarts>>

\* The deadline or the cookie's own age has passed, or a /refresh that failed on
\* the database has cleared it.
Lapse(b) ==
    /\ cookie[b] # None
    /\ cookie' = [cookie EXCEPT ![b] = None]
    /\ firm' = firm \ {b}
    /\ UNCHANGED <<server, request, signIn, origin, ended, reissued, lost, restarts>>

-----------------------------------------------------------------------------
(* What ends sessions *)

\* POST /logout decodes whatever token the browser still has; its answer clears
\* the cookies, or is lost.
Logout(b) ==
    /\ cookie[b] # None
    /\ Bump
    /\ cookie' \in {cookie, [cookie EXCEPT ![b] = None]}
    /\ firm' = {}
    /\ UNCHANGED <<saved, rows, revoked, sweep, request, signIn, origin, reissued, lost, restarts>>

\* A password reset, by recovery or an administrator, and a UID reset.
ResetAccount ==
    /\ Bump
    /\ firm' = {}
    /\ UNCHANGED <<saved, rows, revoked, sweep, cookie, request, signIn, origin, reissued, lost, restarts>>

\* (mutant) the cache is not told
RevokeRow(s) ==
    /\ rows[s] # "none"
    /\ rows' = [rows EXCEPT ![s] = "revoked"]
    /\ LET theirs == {b \in Holders : origin[b] = s}
       IN ended' = ended \cup theirs
    /\ firm' = firm \ {b \in Browsers : origin[b] = s \/ signIn[b] # None}
    /\ UNCHANGED <<saved, writes, version, revoked, sweep, cookie, request, signIn, origin, reissued, lost, restarts>>

\* An administrator revokes one session.
Revoke(s) ==
    /\ rows[s] # "none"
    /\ rows' = [rows EXCEPT ![s] = "revoked"]
    /\ revoked' = revoked \cup {s}
    /\ LET theirs == {b \in Holders : origin[b] = s}
       IN ended' = ended \cup theirs
    /\ firm' = firm \ {b \in Browsers : origin[b] = s \/ signIn[b] # None}
    /\ UNCHANGED <<saved, writes, version, sweep, cookie, request, signIn, origin, reissued, lost, restarts>>

\* Force-logout answers at once and sees to the rows afterwards; scheduling a
\* deletion takes the same steps before it answers.
ForceLogout ==
    /\ sweep = "none"
    /\ Bump
    /\ sweep' = "find"
    /\ firm' = {}
    /\ UNCHANGED <<saved, rows, revoked, cookie, request, signIn, origin, reissued, lost, restarts>>

Sweep ==
    /\ \/ sweep = "find" /\ revoked' = revoked \cup Open /\ sweep' = "save" /\ UNCHANGED rows
       \/ /\ sweep = "save" /\ sweep' = "none" /\ UNCHANGED revoked
          /\ rows' = [s \in Sessions |-> IF s \in Open THEN "revoked" ELSE rows[s]]
    /\ UNCHANGED <<saved, writes, version, cookie, request, signIn, history, restarts>>

-----------------------------------------------------------------------------

\* The process stops and starts again, and nobody gets an answer.
Reboot ==
    /\ restarts < MaxRestarts /\ restarts' = restarts + 1
    /\ writes' = {} /\ sweep' = "none"
    /\ request' = [b \in Browsers |-> None]
    /\ signIn' = [b \in Browsers |-> None]
    /\ firm' = {b \in firm : signIn[b] = None}
    /\ UNCHANGED <<saved, rows, cookie, origin, ended, reissued>>

\* (mutant) initSessionVersion() is never called
RestartAtZero ==
    /\ Reboot
    /\ version' = 0 /\ revoked' = Revoked
    /\ lost' = (lost \/ writes # {})

\* initSessionVersion(), initSessionRevocations(): both caches come from the
\* database; when it does not answer, the process starts without.
Restart ==
    /\ Reboot
    /\ version' \in {saved, 0} /\ revoked' \in {Revoked, {}}
    /\ lost' = (lost \/ writes # {} \/ version' # saved \/ revoked' # Revoked)

BrowserStep(b) ==
    \/ \E step \in {"list", "create", "answer"} : SignIn(b, step)
    \/ ListSessions(b) \/ RevokeOthers(b) \/ CreateSession(b)
    \/ AnswerSignIn(b) \/ SignInFails(b)
    \/ Request(b) \/ Check(b) \/ AnswerRequest(b)
    \/ Reverify(b) \/ ChangeUid(b)
    \/ Lapse(b) \/ Logout(b)

Next ==
    \/ \E b \in Browsers : BrowserStep(b)
    \/ \E v \in writes : Persist(v) \/ LoseWrite(v)
    \/ \E s \in Sessions : Revoke(s)
    \/ ResetAccount \/ ForceLogout \/ Sweep \/ Restart

Spec == Init /\ [][Next]_vars

-----------------------------------------------------------------------------
(* What sessions promise *)

\* auth.routes.ts:363 "Single active login": whatever sign-ins, refreshes and
\* restarts overlap, two browsers never hold tokens that are both accepted, as
\* long as every version reaches the database in its turn and every start reads it.
\* (A browser with a token of the 2FA or UID routes is not counted: they sign what
\* their check, some awaits ago, did not see.)
OneLiveSession ==
    \A b, c \in Holders \ reissued :
        ~lost /\ Accepted(cookie[b]) /\ Accepted(cookie[c]) => b = c

\* sessionVersion.ts:15: a sign-in that a later sign-in, a sign-out, a reset or an
\* administrator has ended stays ended, also when an answer of before arrives late
\* and when the process restarts; the same exceptions.
EndedStaysEnded ==
    \A b \in (ended \cap Holders) \ reissued : lost \/ ~Accepted(cookie[b])

\* auth.routes.ts:363: a sign-in that began with nothing else under way, and that
\* nothing has ended since, is accepted, also after a restart.
SignInHolds ==
    \A b \in firm : signIn[b] = None /\ ~lost => cookie[b] # None /\ Accepted(cookie[b])

=============================================================================
