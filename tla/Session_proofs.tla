-------------------------- MODULE Session_proofs --------------------------
(***************************************************************************)
(* For any number of browsers and any bounds: the types of Session, that   *)
(* an account has one live session, and that what was ended stays ended.   *)
(* The invariant behind the second is that no two browsers ever have a     *)
(* claim to the same version: a sign-in claims the version it made, and    *)
(* answers only hand on what was claimed before. Behind the third: what a  *)
(* browser has, or may get back, is its sign-in's token or a dead one.     *)
(* And that a sign-in nothing disturbs is accepted: it is alone, and what  *)
(* is counted against other sessions never names the one it begins.        *)
(***************************************************************************)
EXTENDS Session, TLAPS

\* The version v is one that b's sign-in made or, unless another route issued it
\* a token, one that b has in its cookie or in a request under way.
Claims(b, v) ==
    \/ signIn[b] # None /\ v = signIn[b].version
    \/ /\ b \notin reissued
       /\ \/ cookie[b] # None /\ v = cookie[b].version
          \/ request[b] # None /\ v = request[b].token.version

\* The database is behind the process only by the updates under way.
Behind ==
    /\ writes = {} => saved = version
    /\ writes # {} => version \in writes
    /\ \A w \in writes : w <= version

Distinct ==
    \A b \in Browsers, v \in Nat : Claims(b, v) =>
        /\ v <= version
        /\ \A c \in Browsers : Claims(c, v) => b = c

Inv == TypeOK /\ (~lost => Behind /\ Distinct)

-----------------------------------------------------------------------------
(* Types *)

\* The initial values have their types.
LEMMA InitTypes == Init => TypeOK
<1> SUFFICES ASSUME Init PROVE TypeOK
  OBVIOUS
<1> USE SessionAssumption DEF Init
<1>1. 0 \in 0..MaxVersion /\ 0 \in 0..MaxRestarts
  OBVIOUS
<1>2. rows \in [Sessions -> {"none", "open", "revoked"}]
  OBVIOUS
<1>3. /\ cookie \in [Browsers -> Token \cup {None}]
      /\ request \in [Browsers -> Asked \cup {None}]
      /\ signIn \in [Browsers -> Begun \cup {None}]
      /\ origin \in [Browsers -> Sessions \cup {None}]
  OBVIOUS
<1> QED
  BY <1>1, <1>2, <1>3 DEF TypeOK

\* Every step of a browser keeps the types.
LEMMA BrowserTypes ==
    ASSUME TypeOK, NEW b \in Browsers, BrowserStep(b)
    PROVE  TypeOK'
<1> USE SessionAssumption DEF TypeOK, server, history
<1>1. ASSUME NEW step \in {"list", "create", "answer"}, SignIn(b, step) PROVE TypeOK'
  <2>1. version' \in 0..MaxVersion /\ writes' \subseteq 0..MaxVersion
    BY <1>1 DEF SignIn, Bump
  <2>2. [step |-> step, version |-> version', found |-> {}, session |-> None] \in Begun
    BY <2>1 DEF Begun
  <2>3. signIn' \in [Browsers -> Begun \cup {None}]
    BY <1>1, <2>2 DEF SignIn
  <2> QED
    BY <1>1, <2>1, <2>3 DEF SignIn, Bump, Holders
<1>2. CASE ListSessions(b)
  <2>0. signIn[b] \in Begun /\ Open \in SUBSET Sessions
    BY <1>2 DEF ListSessions, At, Open
  <2>1. [signIn[b] EXCEPT !.step = "revoke", !.found = Open] \in Begun
    BY <2>0 DEF Begun
  <2>2. signIn' = [signIn EXCEPT ![b] = [signIn[b] EXCEPT !.step = "revoke", !.found = Open]]
    BY <1>2 DEF ListSessions
  <2> QED
    BY <1>2, <2>1, <2>2 DEF ListSessions
<1>3. CASE RevokeOthers(b)
  <2>1. signIn[b] \in Begun
    BY <1>3 DEF RevokeOthers, At
  <2>2. [signIn[b] EXCEPT !.step = "create", !.found = {}] \in Begun
    BY <2>1 DEF Begun
  <2>3. signIn[b].found \subseteq Sessions
    BY <2>1 DEF Begun
  <2>4. signIn' = [signIn EXCEPT ![b] = [signIn[b] EXCEPT !.step = "create", !.found = {}]]
    BY <1>3 DEF RevokeOthers
  <2> QED
    BY <1>3, <2>2, <2>3, <2>4 DEF RevokeOthers
<1>4. CASE CreateSession(b)
  <2>1. signIn[b] \in Begun
    BY <1>4 DEF CreateSession, At
  <2>2. \A s \in Sessions : [signIn[b] EXCEPT !.step = "answer", !.session = s] \in Begun
    BY <2>1 DEF Begun
  <2>3. [signIn[b] EXCEPT !.step = "answer"] \in Begun
    BY <2>1 DEF Begun
  <2>4. \/ signIn' = [signIn EXCEPT ![b] = [signIn[b] EXCEPT !.step = "answer"]]
        \/ \E s \in Sessions :
              signIn' = [signIn EXCEPT ![b] = [signIn[b] EXCEPT !.step = "answer", !.session = s]]
    <3>1. CASE signIn' = [signIn EXCEPT ![b].step = "answer"]
      BY <3>1
    <3>2. ASSUME NEW s \in Sessions, signIn' = [signIn EXCEPT ![b].step = "answer", ![b].session = s]
          PROVE  signIn' = [signIn EXCEPT ![b] = [signIn[b] EXCEPT !.step = "answer", !.session = s]]
      <4>1. signIn \in [Browsers -> Begun \cup {None}] /\ signIn[b] \in Begun
        BY <2>1
      <4> QED
        BY <3>2, <4>1
    <3> QED
      BY <1>4, <3>1, <3>2 DEF CreateSession
  <2>5. rows' \in [Sessions -> {"none", "open", "revoked"}]
    BY <1>4 DEF CreateSession
  <2>6. PICK r \in Begun : signIn' = [signIn EXCEPT ![b] = r]
    BY ONLY <2>2, <2>3, <2>4
  <2>7. signIn' \in [Browsers -> Begun \cup {None}]
    BY <2>6
  <2> QED
    BY <1>4, <2>5, <2>7 DEF CreateSession
<1>5. CASE AnswerSignIn(b)
  <2>1. [version |-> signIn[b].version, session |-> signIn[b].session] \in Token
    BY <1>5 DEF AnswerSignIn, At, Token, Begun
  <2>2. signIn[b].session \in Sessions \cup {None}
    BY <1>5 DEF AnswerSignIn, At, Begun
  <2> QED
    BY <1>5, <2>1, <2>2 DEF AnswerSignIn
<1>6. CASE SignInFails(b)
  BY <1>6 DEF SignInFails
<1>7. CASE Request(b)
  <2>1. [token |-> cookie[b], step |-> "sent"] \in Asked
    BY <1>7 DEF Request, Asked
  <2> QED
    BY <1>7, <2>1 DEF Request
<1>8. CASE Check(b)
  <2>1. request[b] \in Asked
    BY <1>8 DEF Check
  <2>2. \A step \in {"passed", "refused"} : [request[b] EXCEPT !.step = step] \in Asked
    BY <2>1 DEF Asked
  <2>3. request' \in [Browsers -> Asked \cup {None}]
    BY <1>8, <2>2 DEF Check
  <2> QED
    BY <1>8, <2>3 DEF Check
<1>9. CASE AnswerRequest(b)
  <2>1. request[b] \in Asked /\ request[b].token \in Token
    BY <1>9 DEF AnswerRequest, Asked
  <2> QED
    BY <1>9, <2>1 DEF AnswerRequest
<1>10. CASE Reverify(b)
  <2>1. [version |-> version, session |-> None] \in Token
    BY DEF Token
  <2> QED
    BY <1>10, <2>1 DEF Reverify
<1>11. CASE ChangeUid(b)
  <2>1. version' \in 0..MaxVersion /\ writes' \subseteq 0..MaxVersion
    BY <1>11 DEF ChangeUid
  <2>2. [version |-> version', session |-> None] \in Token
    BY <2>1 DEF Token
  <2> QED
    BY <1>11, <2>1, <2>2 DEF ChangeUid, Holders
<1>12. CASE Lapse(b)
  BY <1>12 DEF Lapse
<1>13. CASE Logout(b)
  <2>1. version' \in 0..MaxVersion /\ writes' \subseteq 0..MaxVersion
    BY <1>13 DEF Logout, Bump
  <2> QED
    BY <1>13, <2>1 DEF Logout, Bump, Holders
<1> QED
  BY <1>1, <1>2, <1>3, <1>4, <1>5, <1>6, <1>7, <1>8, <1>9, <1>10, <1>11, <1>12, <1>13
  DEF BrowserStep

\* So does everything else, and every step that changes nothing.
LEMMA NextTypes == TypeOK /\ [Next]_vars => TypeOK'
<1> SUFFICES ASSUME TypeOK, [Next]_vars PROVE TypeOK'
  OBVIOUS
<1> USE SessionAssumption DEF TypeOK, server, history
<1>1. ASSUME NEW b \in Browsers, BrowserStep(b) PROVE TypeOK'
  BY <1>1, BrowserTypes
<1>2. ASSUME NEW v \in writes, Persist(v) PROVE TypeOK'
  BY <1>2 DEF Persist
<1>3. ASSUME NEW v \in writes, LoseWrite(v) PROVE TypeOK'
  BY <1>3 DEF LoseWrite
<1>4. ASSUME NEW s \in Sessions, Revoke(s) PROVE TypeOK'
  BY <1>4 DEF Revoke, Holders
<1>5. CASE ResetAccount
  <2>1. version' \in 0..MaxVersion /\ writes' \subseteq 0..MaxVersion
    BY <1>5 DEF ResetAccount, Bump
  <2> QED
    BY <1>5, <2>1 DEF ResetAccount, Bump, Holders
<1>6. CASE ForceLogout
  <2>1. version' \in 0..MaxVersion /\ writes' \subseteq 0..MaxVersion
    BY <1>6 DEF ForceLogout, Bump
  <2> QED
    BY <1>6, <2>1 DEF ForceLogout, Bump, Holders
<1>7. CASE Sweep
  BY <1>7 DEF Sweep, Open
<1>8. CASE Restart
  <2>1. version' \in 0..MaxVersion /\ revoked' \subseteq Sessions
    BY <1>8 DEF Restart, Revoked
  <2>2. UNCHANGED <<saved, rows, cookie, origin, ended, reissued>>
    BY <1>8 DEF Restart, Reboot
  <2>3. /\ writes' = {} /\ sweep' = "none" /\ lost' \in BOOLEAN /\ restarts' \in 0..MaxRestarts
        /\ firm' \subseteq Browsers
        /\ request' \in [Browsers -> Asked \cup {None}]
        /\ signIn' \in [Browsers -> Begun \cup {None}]
    BY <1>8 DEF Restart, Reboot
  <2> QED
    BY <2>1, <2>2, <2>3
<1>9. CASE UNCHANGED vars
  BY <1>9 DEF vars
<1> QED
  BY <1>1, <1>2, <1>3, <1>4, <1>5, <1>6, <1>7, <1>8, <1>9 DEF Next

\* Every state of every behaviour has the declared types.
THEOREM TypeCorrect == Spec => []TypeOK
<1>1. Init => TypeOK
  BY InitTypes
<1>2. TypeOK /\ [Next]_vars => TypeOK'
  BY NextTypes
<1> QED
  BY <1>1, <1>2, PTL DEF Spec

-----------------------------------------------------------------------------
(* One live session *)

\* A step that only hands claims on keeps them distinct.
LEMMA HandedOn ==
    ASSUME TypeOK, TypeOK', Distinct, version <= version',
           \A b \in Browsers, v \in Nat : Claims(b, v)' => Claims(b, v)
    PROVE  Distinct'
<1>1. version \in Nat /\ version' \in Nat
  BY SessionAssumption DEF TypeOK
<1> QED
  BY <1>1 DEF Distinct

\* What ends sessions leaves the new version on its way to the database.
LEMMA BumpBehind ==
    ASSUME TypeOK, Behind, version' = version + 1, writes' = writes \cup {version'}
    PROVE  Behind'
<1>1. version \in Nat /\ writes \subseteq Nat
  BY SessionAssumption DEF TypeOK
<1> QED
  BY <1>1 DEF Behind

\* A sign-in claims a version nobody has a claim to.
LEMMA SignInDistinct ==
    ASSUME TypeOK, Distinct, NEW b \in Browsers, NEW step, SignIn(b, step)
    PROVE  Distinct'
<1>1. version \in Nat /\ version' = version + 1
  BY SessionAssumption DEF TypeOK, SignIn, Bump
<1>2. ASSUME NEW c \in Browsers, NEW v \in Nat, Claims(c, v)'
      PROVE  Claims(c, v) \/ (c = b /\ v = version')
  <2>1. CASE c = b
    BY <1>2, <2>1 DEF Claims, SignIn, TypeOK
  <2>2. CASE c # b
    BY <1>2, <2>2 DEF Claims, SignIn, TypeOK
  <2> QED
    BY <2>1, <2>2
<1>3. \A c \in Browsers, v \in Nat : Claims(c, v) => v < version'
  BY <1>1 DEF Distinct
<1> QED
  BY <1>1, <1>2, <1>3 DEF Distinct

\* Every other step of a browser hands on what was claimed, or nothing.
LEMMA BrowserHandsOn ==
    ASSUME TypeOK, NEW b \in Browsers, BrowserStep(b),
           \A step \in {"list", "create", "answer"} : ~SignIn(b, step),
           NEW c \in Browsers, NEW v \in Nat, Claims(c, v)'
    PROVE  Claims(c, v)
<1> USE DEF Claims, TypeOK, server, history
<1>1. CASE ListSessions(b) \/ RevokeOthers(b) \/ CreateSession(b)
  <2>1. /\ signIn'[c] # None => signIn[c] # None /\ signIn'[c].version = signIn[c].version
        /\ UNCHANGED <<cookie, request, reissued>>
    BY <1>1 DEF ListSessions, RevokeOthers, CreateSession, At, Begun
  <2> QED
    BY <2>1
<1>2. CASE AnswerSignIn(b)
  BY <1>2 DEF AnswerSignIn, At
<1>3. CASE SignInFails(b)
  BY <1>3 DEF SignInFails
<1>4. CASE Request(b)
  BY <1>4 DEF Request
<1>5. CASE Check(b)
  <2>1. /\ request'[c] # None => request[c] # None /\ request'[c].token = request[c].token
        /\ UNCHANGED <<cookie, signIn, reissued>>
    BY <1>5 DEF Check, Asked
  <2> QED
    BY <2>1
<1>6. CASE AnswerRequest(b)
  BY <1>6 DEF AnswerRequest
<1>7. CASE Reverify(b)
  BY <1>7 DEF Reverify
<1>8. CASE ChangeUid(b)
  BY <1>8 DEF ChangeUid
<1>9. CASE Lapse(b)
  BY <1>9 DEF Lapse
<1>10. CASE Logout(b)
  BY <1>10 DEF Logout, Bump
<1> QED
  BY <1>1, <1>2, <1>3, <1>4, <1>5, <1>6, <1>7, <1>8, <1>9, <1>10 DEF BrowserStep

\* A step of a browser either leaves versions and updates alone, or ends sessions.
LEMMA BrowserVersion ==
    ASSUME NEW b \in Browsers, BrowserStep(b)
    PROVE  /\ lost' = lost
           /\ \/ UNCHANGED <<saved, writes, version>>
              \/ /\ version' = version + 1 /\ writes' = writes \cup {version'}
                 /\ UNCHANGED saved
  BY DEF BrowserStep, SignIn, ListSessions, RevokeOthers, CreateSession, AnswerSignIn,
         SignInFails, Request, Check, AnswerRequest, Reverify, ChangeUid, Lapse, Logout,
         Bump, server, history

\* While no version is lost, the database is behind by the updates under way and
\* no two browsers claim one version.
LEMMA NextInv == Inv /\ [Next]_vars => Inv'
<1> SUFFICES ASSUME Inv, [Next]_vars PROVE Inv'
  OBVIOUS
<1>1. TypeOK /\ TypeOK'
  BY NextTypes DEF Inv
<1>2. version \in Nat /\ writes \subseteq Nat
  BY <1>1, SessionAssumption DEF TypeOK
<1>3. SUFFICES ASSUME ~lost' PROVE Behind' /\ Distinct'
  BY <1>1 DEF Inv
<1>4. ASSUME ~lost, UNCHANGED <<saved, writes, version, cookie, request, signIn, reissued>>
      PROVE  Behind' /\ Distinct'
  <2>1. Behind'
    BY <1>4 DEF Inv, Behind
  <2>2. \A b \in Browsers, v \in Nat : Claims(b, v)' => Claims(b, v)
    BY <1>4 DEF Claims
  <2> QED
    BY <1>1, <1>2, <1>4, <2>1, <2>2, HandedOn DEF Inv
<1>5. ASSUME ~lost, version' = version + 1, writes' = writes \cup {version'},
             UNCHANGED <<cookie, request, signIn, reissued>>
      PROVE  Behind' /\ Distinct'
  <2>1. \A b \in Browsers, v \in Nat : Claims(b, v)' => Claims(b, v)
    BY <1>5 DEF Claims
  <2> QED
    BY <1>1, <1>2, <1>5, <2>1, HandedOn, BumpBehind DEF Inv
<1>6. ASSUME NEW b \in Browsers, BrowserStep(b) PROVE Behind' /\ Distinct'
  <2>1. ~lost /\ version <= version'
    BY <1>2, <1>3, <1>6, BrowserVersion
  <2>2. Behind /\ Distinct
    BY <2>1 DEF Inv
  <2>3. Behind'
    <3>1. CASE UNCHANGED <<saved, writes, version>>
      BY <2>2, <3>1 DEF Behind
    <3>2. CASE version' = version + 1 /\ writes' = writes \cup {version'}
      BY <1>1, <2>2, <3>2, BumpBehind
    <3> QED
      BY <1>6, <3>1, <3>2, BrowserVersion
  <2>4. CASE \E step \in {"list", "create", "answer"} : SignIn(b, step)
    BY <1>1, <2>2, <2>3, <2>4, SignInDistinct
  <2>5. CASE \A step \in {"list", "create", "answer"} : ~SignIn(b, step)
    <3>1. \A c \in Browsers, v \in Nat : Claims(c, v)' => Claims(c, v)
      BY <1>1, <1>6, <2>5, BrowserHandsOn
    <3> QED
      BY <1>1, <2>1, <2>2, <2>3, <3>1, HandedOn
  <2> QED
    BY <2>4, <2>5
<1>7. ASSUME NEW v \in writes, Persist(v) PROVE Behind' /\ Distinct'
  <2>1. ~lost /\ \A w \in writes : ~(w < v)
    BY <1>3, <1>7 DEF Persist
  <2>2. Behind
    BY <2>1 DEF Inv
  <2>3. Behind'
    <3>1. CASE writes \ {v} = {}
      BY <1>7, <2>2, <3>1 DEF Behind, Persist
    <3>2. CASE writes \ {v} # {}
      <4>1. PICK w \in writes : w # v
        BY <3>2
      <4>2. v < w /\ w <= version
        BY <1>2, <2>1, <2>2, <4>1 DEF Behind
      <4>3. version \in writes \ {v}
        BY <1>2, <2>2, <4>2 DEF Behind
      <4> QED
        BY <1>7, <2>2, <4>3 DEF Behind, Persist
    <3> QED
      BY <3>1, <3>2
  <2>4. \A b \in Browsers, n \in Nat : Claims(b, n)' => Claims(b, n)
    BY <1>7 DEF Claims, Persist
  <2>5. version <= version'
    BY <1>2, <1>7 DEF Persist
  <2> QED
    BY <1>1, <2>1, <2>3, <2>4, <2>5, HandedOn DEF Inv
<1>8. ASSUME NEW v \in writes, LoseWrite(v) PROVE FALSE
  BY <1>3, <1>8 DEF LoseWrite
<1>9. ASSUME NEW s \in Sessions, Revoke(s) PROVE Behind' /\ Distinct'
  BY <1>3, <1>4, <1>9 DEF Revoke
<1>10. CASE ResetAccount
  BY <1>3, <1>5, <1>10 DEF ResetAccount, Bump
<1>11. CASE ForceLogout
  BY <1>3, <1>5, <1>11 DEF ForceLogout, Bump
<1>12. CASE Sweep
  BY <1>3, <1>4, <1>12 DEF Sweep, history
<1>13. CASE Restart
  <2>1. ~lost /\ writes = {} /\ version' = saved /\ revoked' = Revoked
    BY <1>3, <1>13 DEF Restart, Reboot
  <2>2. version' = version /\ saved' = saved /\ writes' = {} /\ saved = version
    BY <1>13, <2>1 DEF Restart, Reboot, Inv, Behind
  <2>3. Behind'
    BY <2>2 DEF Behind
  <2>4. \A b \in Browsers, v \in Nat : Claims(b, v)' => Claims(b, v)
    BY <1>13 DEF Claims, Restart, Reboot
  <2> QED
    BY <1>1, <1>2, <2>1, <2>2, <2>3, <2>4, HandedOn DEF Inv
<1>14. CASE UNCHANGED vars
  BY <1>3, <1>4, <1>14 DEF vars, server, history
<1> QED
  BY <1>6, <1>7, <1>8, <1>9, <1>10, <1>11, <1>12, <1>13, <1>14 DEF Next

\* auth.routes.ts:363, for any number of browsers, sign-ins and restarts: two
\* browsers never both hold a token that is accepted, while every version reaches
\* the database in its turn.
THEOREM SingleSession == Spec => []OneLiveSession
<1>1. Init => Inv
  <2>1. ASSUME Init PROVE Behind /\ Distinct
    BY <2>1, SessionAssumption DEF Init, Behind, Distinct, Claims
  <2> QED
    BY <2>1, InitTypes DEF Inv
<1>2. Inv /\ [Next]_vars => Inv'
  BY NextInv
<1>3. Inv => OneLiveSession
  <2>1. SUFFICES ASSUME Inv, ~lost, NEW b \in Holders \ reissued, NEW c \in Holders \ reissued,
                        Accepted(cookie[b]), Accepted(cookie[c])
                 PROVE  b = c
    BY DEF OneLiveSession
  <2>2. version \in Nat /\ b \in Browsers /\ c \in Browsers
    BY <2>1, SessionAssumption DEF Inv, TypeOK, Holders
  <2>3. Claims(b, version) /\ Claims(c, version)
    BY <2>1 DEF Claims, Holders, Accepted
  <2> QED
    BY <2>1, <2>2, <2>3 DEF Inv, Distinct
<1> QED
  BY <1>1, <1>2, <1>3, PTL DEF Spec

-----------------------------------------------------------------------------
(* What was ended stays ended *)

\* A token that is never accepted again.
Dead(t) == t.version < version \/ (t.session \in revoked /\ rows[t.session] = "revoked")

\* b has the token t, or may get it back from a request under way.
Has(b, t) ==
    /\ b \notin reissued
    /\ \/ cookie[b] # None /\ t = cookie[b]
       \/ request[b] # None /\ t = request[b].token

\* What b has is the token of its sign-in or dead, dead when that was ended, and
\* of before the sign-in b has under way.
Fate(b, t) ==
    /\ t.session = origin[b] \/ Dead(t)
    /\ b \in ended => Dead(t)
    /\ signIn[b] # None => t.version < signIn[b].version

Ends == \A b \in Browsers, t \in Token : Has(b, t) => Fate(b, t)

EndInv == Inv /\ (~lost => Ends)

\* Revocations are not forgotten.
Remembered ==
    \A s \in Sessions : s \in revoked /\ rows[s] = "revoked" =>
        s \in revoked' /\ rows'[s] = "revoked"

\* The dead stay dead.
LEMMA StaysDead ==
    ASSUME TypeOK, version <= version', version' \in Nat, Remembered, NEW t \in Token, Dead(t)
    PROVE  Dead(t)'
<1>1. version \in Nat /\ t.version \in Nat /\ revoked \subseteq Sessions
  BY SessionAssumption DEF TypeOK, Token
<1> QED
  BY <1>1 DEF Dead, Remembered

\* A step that hands tokens on, and ends nobody whose tokens it does not kill.
LEMMA StillEnded ==
    ASSUME TypeOK, TypeOK', Ends, version <= version', Remembered, origin' = origin,
           \A b \in Browsers, t \in Token : Has(b, t)' => Has(b, t),
           \A b \in Browsers, t \in Token : Has(b, t)' /\ b \in ended' \ ended => Dead(t)',
           \A b \in Browsers, t \in Token : Has(b, t)' /\ signIn'[b] # None =>
               t.version < signIn'[b].version
    PROVE  Ends'
<1>1. version' \in Nat
  BY SessionAssumption DEF TypeOK
<1>2. Token' = Token
  BY DEF Token, Sessions
<1> SUFFICES ASSUME NEW b \in Browsers, NEW t \in Token, Has(b, t)' PROVE Fate(b, t)'
  BY <1>2 DEF Ends
<1>3. Fate(b, t)
  BY DEF Ends
<1>4. Dead(t) => Dead(t)'
  BY <1>1, StaysDead
<1> QED
  BY <1>3, <1>4 DEF Fate

\* A new version kills every token there is.
LEMMA BumpKills ==
    ASSUME TypeOK, Distinct, version' = version + 1, NEW b \in Browsers, NEW t \in Token, Has(b, t)
    PROVE  t.version < version' /\ Dead(t)'
<1>1. version \in Nat /\ t.version \in Nat
  BY SessionAssumption DEF TypeOK, Token
<1>2. Claims(b, t.version)
  BY DEF Claims, Has
<1>3. t.version <= version
  BY <1>1, <1>2 DEF Distinct
<1> QED
  BY <1>1, <1>3 DEF Dead

\* All steps of a browser but the end of a sign-in hand tokens on, or none.
LEMMA BrowserHas ==
    ASSUME TypeOK, NEW b \in Browsers, BrowserStep(b), ~AnswerSignIn(b),
           NEW c \in Browsers, NEW t \in Token, Has(c, t)'
    PROVE  Has(c, t)
<1> USE DEF Has, TypeOK, server, history
<1>1. ASSUME NEW step \in {"list", "create", "answer"}, SignIn(b, step) PROVE Has(c, t)
  BY <1>1 DEF SignIn
<1>2. CASE ListSessions(b) \/ RevokeOthers(b) \/ CreateSession(b) \/ SignInFails(b)
  BY <1>2 DEF ListSessions, RevokeOthers, CreateSession, SignInFails
<1>3. CASE Request(b)
  BY <1>3 DEF Request
<1>4. CASE Check(b)
  <2>1. /\ request'[c] # None => request[c] # None /\ request'[c].token = request[c].token
        /\ UNCHANGED <<cookie, reissued>>
    BY <1>4 DEF Check, Asked
  <2> QED
    BY <2>1
<1>5. CASE AnswerRequest(b)
  BY <1>5 DEF AnswerRequest
<1>6. CASE Reverify(b)
  BY <1>6 DEF Reverify
<1>7. CASE ChangeUid(b)
  BY <1>7 DEF ChangeUid
<1>8. CASE Lapse(b) \/ Logout(b)
  BY <1>8 DEF Lapse, Logout, Bump
<1> QED
  BY <1>1, <1>2, <1>3, <1>4, <1>5, <1>6, <1>7, <1>8 DEF BrowserStep

\* The same steps leave origins alone, forget no revocation, begin a sign-in only
\* with a new version, and end others only with a new version.
LEMMA BrowserEnds ==
    ASSUME TypeOK, NEW b \in Browsers, BrowserStep(b), ~AnswerSignIn(b)
    PROVE  /\ origin' = origin /\ Remembered
           /\ ended' \subseteq ended \/ version' = version + 1
           /\ \A c \in Browsers : signIn'[c] # None =>
                \/ signIn[c] # None /\ signIn'[c].version = signIn[c].version
                \/ version' = version + 1 /\ signIn'[c].version = version'
<1> USE DEF TypeOK, server, history
<1>1. ASSUME NEW step \in {"list", "create", "answer"}, SignIn(b, step)
      PROVE  /\ UNCHANGED <<origin, revoked, rows>> /\ version' = version + 1
             /\ \A c \in Browsers : signIn'[c] # None =>
                  \/ signIn[c] # None /\ signIn'[c].version = signIn[c].version
                  \/ signIn'[c].version = version'
  BY <1>1 DEF SignIn, Bump
<1>2. CASE ListSessions(b) \/ RevokeOthers(b) \/ CreateSession(b)
  <2>1. /\ UNCHANGED <<origin, ended>>
        /\ \A c \in Browsers : signIn'[c] # None =>
              signIn[c] # None /\ signIn'[c].version = signIn[c].version
    BY <1>2 DEF ListSessions, RevokeOthers, CreateSession, At, Begun
  <2>2. Remembered
    BY <1>2 DEF ListSessions, RevokeOthers, CreateSession, Remembered
  <2> QED
    BY <2>1, <2>2
<1>3. CASE SignInFails(b)
  BY <1>3 DEF SignInFails, Remembered
<1>4. CASE Request(b) \/ Check(b) \/ AnswerRequest(b) \/ Reverify(b) \/ Lapse(b)
  BY <1>4 DEF Request, Check, AnswerRequest, Reverify, Lapse, Remembered
<1>5. CASE ChangeUid(b) \/ Logout(b)
  BY <1>5 DEF ChangeUid, Logout, Bump, Remembered
<1> QED
  BY <1>1, <1>2, <1>3, <1>4, <1>5 DEF BrowserStep, Remembered

\* The end of a sign-in: what the browser may still get back is of before it.
LEMMA AnswerEnds ==
    ASSUME TypeOK, TypeOK', Ends, Distinct, NEW b \in Browsers, AnswerSignIn(b)
    PROVE  Ends'
<1> USE DEF server
<1>1. UNCHANGED <<version, revoked, rows, request>> /\ signIn[b] # None
  BY DEF AnswerSignIn, At
<1>2. Token' = Token
  BY DEF Token, Sessions
<1> SUFFICES ASSUME NEW c \in Browsers, NEW t \in Token, Has(c, t)' PROVE Fate(c, t)'
  BY <1>2 DEF Ends
<1>3. version \in Nat /\ t.version \in Nat
  BY SessionAssumption DEF TypeOK, Token
<1>4. Dead(t) => Dead(t)'
  BY <1>1 DEF Dead
<1>5. CASE c # b
  <2>1. Has(c, t)
    BY <1>5 DEF Has, AnswerSignIn, TypeOK
  <2>2. Fate(c, t)
    BY <2>1 DEF Ends
  <2> QED
    BY <1>4, <1>5, <2>2 DEF Fate, AnswerSignIn, TypeOK
<1>6. CASE c = b
  <2>1. b \notin ended' /\ signIn'[b] = None /\ origin'[b] = signIn[b].session
    BY DEF AnswerSignIn, TypeOK
  <2>2. CASE t = cookie'[b]
    <3>1. t.session = origin'[b]
      BY <2>1, <2>2 DEF AnswerSignIn, TypeOK
    <3> QED
      BY <1>6, <2>1, <3>1 DEF Fate
  <2>3. CASE t # cookie'[b]
    <3>1. Has(b, t)
      BY <1>1, <1>6, <2>3 DEF Has, AnswerSignIn
    <3>2. t.version < signIn[b].version
      BY <1>1, <3>1 DEF Ends, Fate
    <3>3. signIn[b].version \in Nat
      BY <1>1, SessionAssumption DEF TypeOK, Begun
    <3>4. signIn[b].version <= version
      BY <1>1, <3>3 DEF Claims, Distinct
    <3>5. Dead(t)'
      BY <1>1, <1>3, <3>2, <3>3, <3>4 DEF Dead
    <3> QED
      BY <1>6, <2>1, <3>5 DEF Fate
  <2> QED
    BY <2>2, <2>3
<1> QED
  BY <1>5, <1>6

\* While no version is lost, what was ended is dead.
LEMMA NextEnds == EndInv /\ [Next]_vars => EndInv'
<1> SUFFICES ASSUME EndInv, [Next]_vars PROVE EndInv'
  OBVIOUS
<1>1. Inv /\ Inv' /\ TypeOK /\ TypeOK'
  BY NextInv DEF EndInv, Inv
<1>2. version \in Nat /\ version' \in Nat
  BY <1>1, SessionAssumption DEF TypeOK
<1>3. SUFFICES ASSUME ~lost' PROVE Ends'
  BY <1>1 DEF EndInv
<1>4. \A b \in Browsers, t \in Token : ~lost /\ Has(b, t) /\ signIn[b] # None =>
          t.version < signIn[b].version
  BY DEF EndInv, Ends, Fate
<1>5. ASSUME ~lost, version <= version', Remembered, ended' = ended,
             UNCHANGED <<cookie, request, signIn, origin, reissued>>
      PROVE  Ends'
  <2>1. \A b \in Browsers, t \in Token : Has(b, t)' => Has(b, t)
    BY <1>5 DEF Has
  <2> QED
    BY <1>1, <1>4, <1>5, <2>1, StillEnded DEF EndInv
<1>6. ASSUME ~lost, version' = version + 1, ended' \subseteq Browsers,
             UNCHANGED <<cookie, request, signIn, origin, reissued, rows, revoked>>
      PROVE  Ends'
  <2>1. \A b \in Browsers, t \in Token : Has(b, t)' => Has(b, t)
    BY <1>6 DEF Has
  <2>2. \A b \in Browsers, t \in Token : Has(b, t)' => Dead(t)'
    BY <1>1, <1>6, <2>1, BumpKills DEF Inv
  <2>3. Remembered /\ version <= version'
    BY <1>2, <1>6 DEF Remembered
  <2> QED
    BY <1>1, <1>4, <1>6, <2>1, <2>2, <2>3, StillEnded DEF EndInv
<1>7. ASSUME NEW b \in Browsers, BrowserStep(b) PROVE Ends'
  <2>1. ~lost /\ version <= version' /\ Ends /\ Distinct
    BY <1>1, <1>2, <1>3, <1>7, BrowserVersion DEF EndInv, Inv
  <2>2. CASE AnswerSignIn(b)
    BY <1>1, <2>1, <2>2, AnswerEnds
  <2>3. CASE ~AnswerSignIn(b)
    <3>1. \A c \in Browsers, t \in Token : Has(c, t)' => Has(c, t)
      BY <1>1, <1>7, <2>3, BrowserHas
    <3>2. ASSUME NEW c \in Browsers, NEW t \in Token, Has(c, t)', c \in ended' \ ended
          PROVE  Dead(t)'
      <4>1. version' = version + 1
        BY <1>1, <1>7, <2>3, <3>2, BrowserEnds
      <4> QED
        BY <1>1, <2>1, <3>1, <3>2, <4>1, BumpKills
    <3>3. ASSUME NEW c \in Browsers, NEW t \in Token, Has(c, t)', signIn'[c] # None
          PROVE  t.version < signIn'[c].version
      <4>1. CASE signIn[c] # None /\ signIn'[c].version = signIn[c].version
        BY <1>4, <2>1, <3>1, <3>3, <4>1
      <4>2. CASE version' = version + 1 /\ signIn'[c].version = version'
        BY <1>1, <2>1, <3>1, <3>3, <4>2, BumpKills
      <4> QED
        BY <1>1, <1>7, <2>3, <3>3, <4>1, <4>2, BrowserEnds
    <3>4. origin' = origin /\ Remembered
      BY <1>1, <1>7, <2>3, BrowserEnds
    <3> QED
      BY <1>1, <2>1, <3>1, <3>2, <3>3, <3>4, StillEnded
  <2> QED
    BY <2>2, <2>3
<1>8. ASSUME NEW v \in writes, Persist(v) \/ LoseWrite(v) PROVE Ends'
  <2>1. ~lost /\ UNCHANGED <<version, rows, revoked, cookie, request, signIn, origin, ended, reissued>>
    BY <1>3, <1>8 DEF Persist, LoseWrite
  <2>2. version <= version' /\ Remembered
    BY <1>2, <2>1 DEF Remembered
  <2> QED
    BY <1>5, <2>1, <2>2
<1>9. ASSUME NEW s \in Sessions, Revoke(s) PROVE Ends'
  <2>1. ~lost /\ version <= version' /\ origin' = origin /\ UNCHANGED <<cookie, request, signIn, reissued>>
    BY <1>2, <1>3, <1>9 DEF Revoke
  <2>2. Remembered
    BY <1>1, <1>9 DEF Revoke, Remembered, TypeOK
  <2>3. \A b \in Browsers, t \in Token : Has(b, t)' => Has(b, t)
    BY <2>1 DEF Has
  <2>4. ASSUME NEW b \in Browsers, NEW t \in Token, Has(b, t)', b \in ended' \ ended
        PROVE  Dead(t)'
    <3>1. origin[b] = s /\ s \in revoked' /\ rows'[s] = "revoked"
      BY <1>1, <1>9, <2>4 DEF Revoke, TypeOK
    <3>2. t.session = origin[b] \/ Dead(t)
      BY <2>1, <2>3, <2>4 DEF EndInv, Ends, Fate
    <3>3. Dead(t) => Dead(t)'
      BY <1>1, <1>2, <2>1, <2>2, StaysDead
    <3> QED
      BY <3>1, <3>2, <3>3 DEF Dead
  <2> QED
    BY <1>1, <1>4, <2>1, <2>2, <2>3, <2>4, StillEnded DEF EndInv
<1>10. CASE ResetAccount
  BY <1>1, <1>3, <1>6, <1>10 DEF ResetAccount, Bump, TypeOK
<1>11. CASE ForceLogout
  BY <1>1, <1>3, <1>6, <1>11 DEF ForceLogout, Bump, TypeOK
<1>12. CASE Sweep
  <2>1. Remembered
    BY <1>1, <1>12 DEF Sweep, Open, Remembered, TypeOK
  <2> QED
    BY <1>2, <1>3, <1>5, <1>12, <2>1 DEF Sweep, history
<1>13. CASE Restart
  <2>1. ~lost /\ writes = {} /\ version' = saved /\ revoked' = Revoked
    BY <1>3, <1>13 DEF Restart, Reboot
  <2>2. version' = version
    BY <1>1, <1>13, <2>1 DEF Restart, Reboot, Inv, Behind
  <2>3. Remembered
    BY <2>1, <1>13 DEF Restart, Reboot, Revoked, Remembered
  <2>4. \A b \in Browsers, t \in Token : Has(b, t)' => Has(b, t)
    BY <1>13 DEF Has, Restart, Reboot
  <2>5. version <= version' /\ origin' = origin /\ ended' = ended
    BY <1>2, <1>13, <2>2 DEF Restart, Reboot
  <2>6. \A b \in Browsers : signIn'[b] = None
    BY <1>13 DEF Restart, Reboot
  <2> QED
    BY <1>1, <2>1, <2>3, <2>4, <2>5, <2>6, StillEnded DEF EndInv
<1>14. CASE UNCHANGED vars
  BY <1>2, <1>3, <1>5, <1>14 DEF vars, server, history, Remembered
<1> QED
  BY <1>7, <1>8, <1>9, <1>10, <1>11, <1>12, <1>13, <1>14 DEF Next

\* sessionVersion.ts:15, for any number of browsers, sign-ins and restarts: what
\* was ended stays ended, while every version reaches the database in its turn.
THEOREM NoRevival == Spec => []EndedStaysEnded
<1>1. Init => EndInv
  <2>1. ASSUME Init PROVE Behind /\ Distinct /\ Ends
    BY <2>1, SessionAssumption DEF Init, Behind, Distinct, Claims, Ends, Has
  <2> QED
    BY <2>1, InitTypes DEF EndInv, Inv
<1>2. EndInv /\ [Next]_vars => EndInv'
  BY NextEnds
<1>3. EndInv => EndedStaysEnded
  <2>1. SUFFICES ASSUME EndInv, ~lost, NEW b \in (ended \cap Holders) \ reissued
                 PROVE  ~Accepted(cookie[b])
    BY DEF EndedStaysEnded
  <2>2. /\ version \in Nat /\ b \in Browsers /\ cookie[b] \in Token
        /\ cookie[b].version \in Nat
    BY <2>1, SessionAssumption DEF EndInv, Inv, TypeOK, Holders, Token
  <2>3. Dead(cookie[b])
    BY <2>1, <2>2 DEF EndInv, Ends, Has, Fate, Holders
  <2> QED
    BY <2>2, <2>3 DEF Dead, Accepted
<1> QED
  BY <1>1, <1>2, <1>3, PTL DEF Spec

-----------------------------------------------------------------------------
(* A sign-in that nothing disturbs *)

\* Only rows that exist are revoked, now or by a sign-in under way.
Known ==
    /\ \A s \in revoked : rows[s] # "none"
    /\ \A b \in Browsers : signIn[b] # None => \A s \in signIn[b].found : rows[s] # "none"

\* A session that nobody has revoked.
Live(s) == s = None \/ (rows[s] = "open" /\ s \notin revoked)

\* A token of b that is accepted, and that only what is counted against b can end.
Valid(b, t) == t.version = version /\ (t.session = None \/ t.session = origin[b]) /\ Live(t.session)

\* b's sign-in under way: alone, with the newest version, and before it has a
\* session it may still revoke the sessions there are.
Coming(b) ==
    /\ request[b] = None
    /\ signIn[b].version = version
    /\ IF signIn[b].step = "answer" THEN Live(signIn[b].session) ELSE signIn[b].session = None

\* b is signed in, and no request of b will take that away.
Arrived(b) ==
    /\ cookie[b] # None /\ Valid(b, cookie[b])
    /\ request[b] # None => Valid(b, request[b].token) /\ request[b].step # "refused"

Undisturbed(b) ==
    /\ sweep = "none"
    /\ \A c \in Browsers \ {b} : signIn[c] = None
    /\ IF signIn[b] # None THEN Coming(b) ELSE Arrived(b)

Held == \A b \in firm : Undisturbed(b)

HoldInv == Inv /\ Known /\ (~lost => Held)

\* No row is forgotten, and nothing is revoked, or about to be, that has none.
LEMMA StillKnown ==
    ASSUME TypeOK, Known,
           \A s \in Sessions : rows[s] # "none" => rows'[s] # "none",
           \A s \in revoked' : s \in revoked \/ (s \in Sessions /\ rows'[s] # "none"),
           \A b \in Browsers : signIn'[b] # None => \A s \in signIn'[b].found :
               \/ s \in Sessions /\ rows'[s] # "none"
               \/ signIn[b] # None /\ s \in signIn[b].found
    PROVE  Known'
<1>1. revoked \subseteq Sessions
  BY DEF TypeOK
<1>2. \A b \in Browsers : signIn[b] # None => signIn[b].found \subseteq Sessions
  BY DEF TypeOK, Begun
<1> QED
  BY <1>1, <1>2 DEF Known

\* Every step of a browser keeps it so.
LEMMA BrowserKnown ==
    ASSUME TypeOK, Known, NEW b \in Browsers, BrowserStep(b)
    PROVE  Known'
<1> USE DEF TypeOK, server, history
<1>1. ASSUME NEW step \in {"list", "create", "answer"}, SignIn(b, step) PROVE Known'
  <2>1. UNCHANGED <<rows, revoked>>
    BY <1>1 DEF SignIn
  <2>2. \A c \in Browsers : signIn'[c] = signIn[c] \/ signIn'[c].found = {}
    BY <1>1 DEF SignIn
  <2> QED
    BY <2>1, <2>2, StillKnown
<1>2. CASE ListSessions(b)
  <2>1. UNCHANGED <<rows, revoked>>
    BY <1>2 DEF ListSessions
  <2>2. \A c \in Browsers : signIn'[c] = signIn[c] \/ signIn'[c].found = Open
    BY <1>2 DEF ListSessions, At, Begun
  <2> QED
    BY <2>1, <2>2, StillKnown DEF Open
<1>3. CASE RevokeOthers(b)
  <2>1. signIn[b] # None /\ signIn[b].found \subseteq Sessions
    BY <1>3 DEF RevokeOthers, At, Begun
  <2>2. \A s \in Sessions : rows'[s] = IF s \in signIn[b].found THEN "revoked" ELSE rows[s]
    BY <1>3 DEF RevokeOthers
  <2>3. revoked' = revoked \cup signIn[b].found
    BY <1>3 DEF RevokeOthers
  <2>4. \A c \in Browsers : signIn'[c] = signIn[c] \/ signIn'[c].found = {}
    BY <1>3, <2>1 DEF RevokeOthers, Begun
  <2> QED
    BY <2>1, <2>2, <2>3, <2>4, StillKnown
<1>4. CASE CreateSession(b)
  <2>1. /\ revoked' = revoked
        /\ \A s \in Sessions : rows[s] # "none" => rows'[s] # "none"
    BY <1>4 DEF CreateSession
  <2>2. \A c \in Browsers : signIn'[c] # None => signIn[c] # None /\ signIn'[c].found = signIn[c].found
    BY <1>4 DEF CreateSession, At, Begun
  <2> QED
    BY <2>1, <2>2, StillKnown
<1>5. CASE AnswerSignIn(b) \/ SignInFails(b)
  <2>1. /\ UNCHANGED <<rows, revoked>>
        /\ \A c \in Browsers : signIn'[c] # None => signIn'[c] = signIn[c]
    BY <1>5 DEF AnswerSignIn, SignInFails
  <2> QED
    BY <2>1, StillKnown
<1>6. CASE Request(b) \/ Check(b) \/ AnswerRequest(b) \/ Reverify(b) \/ Lapse(b)
  BY <1>6 DEF Request, Check, AnswerRequest, Reverify, Lapse, Known
<1>7. CASE ChangeUid(b) \/ Logout(b)
  BY <1>7 DEF ChangeUid, Logout, Bump, Known
<1> QED
  BY <1>1, <1>2, <1>3, <1>4, <1>5, <1>6, <1>7 DEF BrowserStep

\* And so does every other step.
LEMMA NextKnown == TypeOK /\ Known /\ [Next]_vars => Known'
<1> SUFFICES ASSUME TypeOK, Known, [Next]_vars PROVE Known'
  OBVIOUS
<1>1. ASSUME NEW b \in Browsers, BrowserStep(b) PROVE Known'
  BY <1>1, BrowserKnown
<1>2. ASSUME UNCHANGED <<rows, revoked, signIn>> PROVE Known'
  BY <1>2 DEF Known
<1>3. ASSUME NEW v \in writes, Persist(v) \/ LoseWrite(v) PROVE Known'
  BY <1>2, <1>3 DEF Persist, LoseWrite
<1>4. ASSUME NEW s \in Sessions, Revoke(s) PROVE Known'
  <2>1. \A r \in Sessions : rows[r] # "none" => rows'[r] # "none"
    BY <1>4 DEF Revoke, TypeOK
  <2>2. /\ \A r \in revoked' : r \in revoked \/ (r \in Sessions /\ rows'[r] # "none")
        /\ signIn' = signIn
    BY <1>4, <2>1 DEF Revoke
  <2> QED
    BY <2>1, <2>2, StillKnown
<1>5. CASE ResetAccount \/ ForceLogout
  BY <1>2, <1>5 DEF ResetAccount, ForceLogout, Bump
<1>6. CASE Sweep
  <2>1. \A r \in Sessions : rows[r] # "none" => rows'[r] # "none"
    BY <1>6 DEF Sweep, Open, TypeOK
  <2>2. \A r \in revoked' : r \in revoked \/ (r \in Sessions /\ rows[r] # "none")
    BY <1>6 DEF Sweep, Open
  <2>3. signIn' = signIn
    BY <1>6 DEF Sweep
  <2> QED
    BY <2>1, <2>2, <2>3, StillKnown
<1>7. CASE Restart
  <2>1. /\ rows' = rows /\ revoked' \subseteq Revoked
        /\ \A c \in Browsers : signIn'[c] = None
    BY <1>7 DEF Restart, Reboot
  <2> QED
    BY <2>1, StillKnown DEF Revoked
<1>8. CASE UNCHANGED vars
  BY <1>2, <1>8 DEF vars, server
<1> QED
  BY <1>1, <1>3, <1>4, <1>5, <1>6, <1>7, <1>8 DEF Next

\* A valid token passes every check.
LEMMA ValidPasses ==
    ASSUME TypeOK, NEW b \in Browsers, NEW t \in Token, Valid(b, t)
    PROVE  Accepted(t)
<1>1. None \notin revoked
  BY SessionAssumption DEF TypeOK, Sessions
<1> QED
  BY <1>1 DEF Valid, Live, Accepted

\* What happens in another browser leaves b undisturbed.
LEMMA Elsewhere ==
    ASSUME NEW b \in Browsers, Undisturbed(b), UNCHANGED <<sweep, version, rows, revoked>>,
           \A c \in Browsers \ {b} : signIn'[c] = None,
           cookie'[b] = cookie[b], request'[b] = request[b], signIn'[b] = signIn[b],
           origin'[b] = origin[b]
    PROVE  Undisturbed(b)'
  BY DEF Undisturbed, Coming, Arrived, Valid, Live

\* A sign-in that nothing disturbs goes on so.
LEMMA SignInGoesOn ==
    ASSUME TypeOK, TypeOK', Known, NEW c \in Browsers, NEW b \in firm',
           b \in firm => Undisturbed(b),
           \/ \E step \in {"list", "create", "answer"} : SignIn(c, step)
           \/ ListSessions(c) \/ RevokeOthers(c) \/ CreateSession(c)
           \/ AnswerSignIn(c) \/ SignInFails(c)
    PROVE  Undisturbed(b)'
<1> USE NoneIsNoValue DEF TypeOK, server, history
<1>0. b \in Browsers
  OBVIOUS
<1>1. ASSUME NEW step \in {"list", "create", "answer"}, SignIn(c, step) PROVE Undisturbed(b)'
  <2>1. b = c /\ Quiet(c)
    BY <1>1 DEF SignIn
  <2>2. signIn'[c] = [step |-> step, version |-> version', found |-> {}, session |-> None]
    BY <1>1 DEF SignIn
  <2>3. signIn'[c] # None
    BY <2>2 DEF Begun
  <2>4. /\ sweep' = "none" /\ request'[b] = None
        /\ \A d \in Browsers \ {b} : signIn'[d] = None
    BY <1>1, <2>1 DEF SignIn, Quiet
  <2> QED
    BY <2>1, <2>2, <2>3, <2>4 DEF Undisturbed, Coming, Live
<1>2. ASSUME b \in firm, signIn[c] # None PROVE b = c /\ Undisturbed(b) /\ Coming(b)
  BY <1>2 DEF Undisturbed
<1>3. CASE ListSessions(c)
  <2>1. b \in firm /\ At(c, "list") /\ b = c /\ Undisturbed(b) /\ Coming(b)
    BY <1>2, <1>3 DEF ListSessions, At
  <2>2. /\ signIn'[b].step = "revoke" /\ signIn'[b].version = signIn[b].version
        /\ signIn'[b].session = signIn[b].session /\ signIn'[b] # None
    <3>1. signIn[b] \in Begun /\ Open \in SUBSET Sessions
      BY <2>1 DEF At, Open
    <3>2. signIn'[b] = [signIn[b] EXCEPT !.step = "revoke", !.found = Open]
      BY <1>3, <2>1, <3>1 DEF ListSessions
    <3>3. [signIn[b] EXCEPT !.step = "revoke", !.found = Open] \in Begun
      BY <3>1 DEF Begun
    <3> QED
      BY <3>1, <3>2, <3>3 DEF Begun
  <2>3. \A d \in Browsers \ {b} : signIn'[d] = signIn[d]
    BY <1>3, <2>1 DEF ListSessions
  <2>4. UNCHANGED <<sweep, version, request>>
    BY <1>3 DEF ListSessions
  <2> QED
    BY <2>1, <2>2, <2>3, <2>4 DEF Undisturbed, Coming, At
<1>4. CASE RevokeOthers(c)
  <2>1. b \in firm /\ At(c, "revoke") /\ b = c /\ Undisturbed(b) /\ Coming(b)
    BY <1>2, <1>4 DEF RevokeOthers, At
  <2>2. /\ signIn'[b].step = "create" /\ signIn'[b].version = signIn[b].version
        /\ signIn'[b].session = signIn[b].session /\ signIn'[b] # None
    <3>1. signIn[b] \in Begun
      BY <2>1 DEF At
    <3>2. signIn'[b] = [signIn[b] EXCEPT !.step = "create", !.found = {}]
      BY <1>4, <2>1, <3>1 DEF RevokeOthers
    <3>3. [signIn[b] EXCEPT !.step = "create", !.found = {}] \in Begun
      BY <3>1 DEF Begun
    <3> QED
      BY <3>1, <3>2, <3>3 DEF Begun
  <2>3. \A d \in Browsers \ {b} : signIn'[d] = signIn[d]
    BY <1>4, <2>1 DEF RevokeOthers
  <2>4. UNCHANGED <<sweep, version, request>>
    BY <1>4 DEF RevokeOthers
  <2> QED
    BY <2>1, <2>2, <2>3, <2>4 DEF Undisturbed, Coming, At
<1>5. CASE CreateSession(c)
  <2>1. b \in firm /\ At(c, "create") /\ b = c /\ Undisturbed(b) /\ Coming(b)
    BY <1>2, <1>5 DEF CreateSession, At
  <2>2. /\ signIn'[b].step = "answer" /\ signIn'[b].version = signIn[b].version
        /\ signIn'[b] # None
    BY <1>5, <2>1 DEF CreateSession, At, Begun
  <2>3. \/ signIn'[b].session = signIn[b].session
        \/ \E s \in Sessions : rows[s] = "none" /\ rows'[s] = "open" /\ signIn'[b].session = s
    BY <1>5, <2>1 DEF CreateSession, At, Begun
  <2>4. UNCHANGED <<sweep, version, request, revoked>>
    BY <1>5 DEF CreateSession
  <2>5. PICK s \in Sessions \cup {None} : s = signIn'[b].session
    BY <2>2 DEF Begun
  <2>7. Live(s)'
    BY <2>1, <2>3, <2>4, <2>5 DEF Live, Known, Coming, At
  <2>6. \A d \in Browsers \ {b} : signIn'[d] = signIn[d]
    BY <1>5, <2>1 DEF CreateSession
  <2> QED
    BY <2>1, <2>2, <2>4, <2>5, <2>6, <2>7 DEF Undisturbed, Coming
<1>6. CASE AnswerSignIn(c)
  <2>1. b \in firm /\ At(c, "answer") /\ b = c /\ Undisturbed(b) /\ Coming(b)
    BY <1>2, <1>6 DEF AnswerSignIn, At
  <2>2. /\ cookie'[b] = [version |-> signIn[b].version, session |-> signIn[b].session]
        /\ origin'[b] = signIn[b].session /\ signIn'[b] = None
        /\ \A d \in Browsers \ {b} : signIn'[d] = signIn[d]
    BY <1>6, <2>1 DEF AnswerSignIn
  <2>3. cookie'[b] # None
    BY <2>1, <2>2 DEF Token, Begun, At
  <2>4. UNCHANGED <<sweep, version, rows, revoked, request>>
    BY <1>6 DEF AnswerSignIn
  <2>5. PICK t \in Token : t = cookie'[b]
    BY <2>1, <2>3
  <2>6. Valid(b, t)' /\ request'[b] = None
    BY <2>1, <2>2, <2>4, <2>5 DEF Valid, Live, Coming, At
  <2> QED
    BY <2>1, <2>2, <2>3, <2>4, <2>5, <2>6 DEF Undisturbed, Arrived
<1>7. CASE SignInFails(c)
  BY <1>2, <1>7 DEF SignInFails
<1> QED
  BY <1>1, <1>3, <1>4, <1>5, <1>6, <1>7

\* And what a browser asks does not sign it out, nor another that nothing disturbs.
LEMMA RequestsHold ==
    ASSUME TypeOK, TypeOK', NEW c \in Browsers, NEW b \in firm',
           b \in firm => Undisturbed(b),
           \/ Request(c) \/ Check(c) \/ AnswerRequest(c)
           \/ Reverify(c) \/ ChangeUid(c) \/ Lapse(c) \/ Logout(c)
    PROVE  Undisturbed(b)'
<1> USE NoneIsNoValue DEF TypeOK, server, history
<1>1. CASE ChangeUid(c) \/ Logout(c)
  BY <1>1 DEF ChangeUid, Logout
<1> SUFFICES ASSUME Request(c) \/ Check(c) \/ AnswerRequest(c) \/ Reverify(c) \/ Lapse(c)
             PROVE  Undisturbed(b)'
  BY <1>1
<1>2. /\ b \in Browsers /\ b \in firm /\ Undisturbed(b)
      /\ UNCHANGED <<sweep, version, rows, revoked, signIn, origin>>
  BY DEF Request, Check, AnswerRequest, Reverify, Lapse
<1>3. CASE b # c
  <2>1. cookie'[b] = cookie[b] /\ request'[b] = request[b]
    BY <1>2, <1>3 DEF Request, Check, AnswerRequest, Reverify, Lapse
  <2> QED
    BY <1>2, <2>1, Elsewhere DEF Undisturbed
<1>4. CASE b = c
  <2>1. signIn[b] = None /\ Arrived(b)
    BY <1>2, <1>4 DEF Undisturbed, Coming, Request, Check, AnswerRequest, Reverify, Lapse
  <2>2. \A t : Valid(b, t) => Valid(b, t)'
    BY <1>2 DEF Valid, Live
  <2>3. Arrived(b)'
    <3>1. CASE Request(c)
      <4>1. request'[b].token = cookie[b] /\ request'[b].step = "sent" /\ cookie' = cookie
        BY <1>4, <3>1 DEF Request
      <4> QED
        BY <2>1, <2>2, <4>1 DEF Arrived
    <3>2. CASE Check(c)
      <4>1. request[b] # None /\ request[b].token \in Token /\ Valid(b, request[b].token)
        BY <1>4, <2>1, <3>2 DEF Check, Arrived, Asked
      <4>2. Accepted(request[b].token)
        BY <1>2, <4>1, ValidPasses
      <4>3. request'[b].token = request[b].token /\ request'[b].step = "passed" /\ cookie' = cookie
        BY <1>4, <3>2, <4>1, <4>2 DEF Check, Asked
      <4> QED
        BY <2>1, <2>2, <4>1, <4>3 DEF Arrived
    <3>3. CASE AnswerRequest(c)
      <4>1. /\ request[b] # None /\ request[b].step = "passed"
            /\ request[b].token \in Token /\ Valid(b, request[b].token)
        BY <1>4, <2>1, <3>3 DEF AnswerRequest, Arrived, Asked
      <4>2. request'[b] = None /\ (cookie'[b] = cookie[b] \/ cookie'[b] = request[b].token)
        BY <1>4, <3>3, <4>1 DEF AnswerRequest
      <4>3. cookie'[b] # None /\ Valid(b, cookie'[b])
        BY <2>1, <4>1, <4>2 DEF Arrived
      <4> QED
        BY <2>2, <4>2, <4>3 DEF Arrived
    <3>4. CASE Reverify(c)
      <4>1. /\ request'[b] = None
            /\ cookie'[b] = cookie[b] \/ cookie'[b] = [version |-> version, session |-> None]
        BY <1>4, <3>4 DEF Reverify
      <4>2. [version |-> version, session |-> None] \in Token
        BY DEF Token
      <4>3. Valid(b, [version |-> version, session |-> None])
        BY DEF Valid, Live
      <4>4. cookie'[b] # None /\ Valid(b, cookie'[b])
        BY <2>1, <4>1, <4>2, <4>3 DEF Arrived
      <4> QED
        BY <2>2, <4>1, <4>4 DEF Arrived
    <3>5. CASE Lapse(c)
      BY <1>4, <3>5 DEF Lapse
    <3> QED
      BY <3>1, <3>2, <3>3, <3>4, <3>5
  <2> QED
    BY <1>2, <2>1, <2>3 DEF Undisturbed
<1> QED
  BY <1>3, <1>4

\* While no version is lost, no step disturbs a sign-in that it does not count against.
LEMMA NextHolds == HoldInv /\ [Next]_vars => HoldInv'
<1> SUFFICES ASSUME HoldInv, [Next]_vars PROVE HoldInv'
  OBVIOUS
<1>1. Inv /\ Inv' /\ TypeOK /\ TypeOK' /\ Known /\ Known'
  BY NextInv, NextKnown DEF HoldInv, Inv
<1>2. SUFFICES ASSUME ~lost', NEW b \in firm' PROVE Undisturbed(b)'
  BY <1>1 DEF HoldInv, Held
<1>3. ~lost => (b \in firm => Undisturbed(b))
  BY DEF HoldInv, Held
<1>4. ASSUME NEW c \in Browsers, BrowserStep(c) PROVE Undisturbed(b)'
  <2>1. b \in firm => Undisturbed(b)
    BY <1>2, <1>3, <1>4, BrowserVersion
  <2>2. CASE \/ \E step \in {"list", "create", "answer"} : SignIn(c, step)
             \/ ListSessions(c) \/ RevokeOthers(c) \/ CreateSession(c)
             \/ AnswerSignIn(c) \/ SignInFails(c)
    BY <1>1, <2>1, <2>2, SignInGoesOn
  <2>3. CASE \/ Request(c) \/ Check(c) \/ AnswerRequest(c)
             \/ Reverify(c) \/ ChangeUid(c) \/ Lapse(c) \/ Logout(c)
    BY <1>1, <2>1, <2>3, RequestsHold
  <2> QED
    BY ONLY <1>4, <2>2, <2>3 DEF BrowserStep
<1>5. ASSUME ~lost, firm' = firm,
             UNCHANGED <<sweep, version, rows, revoked, cookie, request, signIn, origin>>
      PROVE  Undisturbed(b)'
  BY <1>1, <1>3, <1>5, Elsewhere DEF TypeOK, Undisturbed
<1>6. ASSUME NEW v \in writes, Persist(v) \/ LoseWrite(v) PROVE Undisturbed(b)'
  BY <1>2, <1>5, <1>6 DEF Persist, LoseWrite
<1>7. ASSUME NEW s \in Sessions, Revoke(s) PROVE Undisturbed(b)'
  <2>1. /\ ~lost /\ b \in firm /\ origin[b] # s /\ signIn[b] = None
        /\ UNCHANGED <<sweep, version, cookie, request, signIn, origin>>
    BY <1>1, <1>2, <1>7 DEF Revoke, TypeOK
  <2>2. \A t \in Token : Valid(b, t) => Valid(b, t)'
    BY <1>1, <1>7, <2>1, SessionAssumption DEF Valid, Live, Revoke, Token, Sessions, TypeOK
  <2>3. Undisturbed(b) /\ Arrived(b)
    BY <1>3, <2>1 DEF Undisturbed
  <2>4. /\ cookie[b] \in Token
        /\ request[b] # None => request[b].token \in Token
    BY <1>1, <2>1, <2>3 DEF TypeOK, Arrived, Asked
  <2>5. Arrived(b)'
    BY <2>1, <2>2, <2>3, <2>4 DEF Arrived
  <2> QED
    BY <2>1, <2>3, <2>5 DEF Undisturbed
<1>8. CASE ResetAccount \/ ForceLogout
  BY <1>2, <1>8 DEF ResetAccount, ForceLogout
<1>9. CASE Sweep
  BY <1>2, <1>3, <1>9 DEF Sweep, Undisturbed, history
<1>10. CASE Restart
  <2>1. /\ ~lost /\ writes = {} /\ version' = saved /\ revoked' = Revoked
        /\ b \in firm /\ signIn[b] = None
        /\ UNCHANGED <<rows, cookie, origin>> /\ sweep' = "none"
    BY <1>2, <1>10 DEF Restart, Reboot
  <2>2. version' = version
    BY <1>1, <2>1 DEF Inv, Behind
  <2>3. \A c \in Browsers : signIn'[c] = None /\ request'[c] = None
    BY <1>10 DEF Restart, Reboot
  <2>4. Undisturbed(b) /\ Arrived(b) /\ b \in Browsers
    BY <1>1, <1>3, <2>1 DEF Undisturbed, TypeOK
  <2>5. Valid(b, cookie[b])'
    BY <2>1, <2>2, <2>4 DEF Arrived, Valid, Live, Revoked
  <2> QED
    BY <2>1, <2>3, <2>4, <2>5 DEF Undisturbed, Arrived
<1>11. CASE UNCHANGED vars
  BY <1>2, <1>5, <1>11 DEF vars, server, history
<1> QED
  BY <1>4, <1>6, <1>7, <1>8, <1>9, <1>10, <1>11 DEF Next

\* auth.routes.ts:363, for any number of browsers, sign-ins and restarts: a sign-in
\* that began with nothing else under way and that nothing has ended since is
\* accepted, while every version reaches the database in its turn.
THEOREM SignInsHold == Spec => []SignInHolds
<1>1. Init => HoldInv
  <2>1. ASSUME Init PROVE Behind /\ Distinct /\ Known /\ Held
    BY <2>1, SessionAssumption DEF Init, Behind, Distinct, Claims, Known, Held
  <2> QED
    BY <2>1, InitTypes DEF HoldInv, Inv
<1>2. HoldInv /\ [Next]_vars => HoldInv'
  BY NextHolds
<1>3. HoldInv => SignInHolds
  <2>1. SUFFICES ASSUME HoldInv, ~lost, NEW b \in firm, signIn[b] = None
                 PROVE  cookie[b] # None /\ Accepted(cookie[b])
    BY DEF SignInHolds
  <2>2. b \in Browsers /\ TypeOK
    BY <2>1 DEF HoldInv, Inv, TypeOK
  <2>3. Arrived(b)
    BY <2>1 DEF HoldInv, Held, Undisturbed
  <2>4. cookie[b] \in Token
    BY <2>2, <2>3 DEF Arrived, TypeOK
  <2> QED
    BY <2>2, <2>3, <2>4, ValidPasses DEF Arrived
<1> QED
  BY <1>1, <1>2, <1>3, PTL DEF Spec

=============================================================================
