------------------------- MODULE Credentials_proofs -------------------------
(***************************************************************************)
(* SignIn and Recovery, for any number of overlapping requests, pages,     *)
(* sessions and codes.                                                     *)
(*                                                                         *)
(* SignIn: its types, that wrong answers lock the account, and that the    *)
(* backup codes are the user's unused ones. Behind both: a handler that    *)
(* nothing has overtaken still holds what the account holds.               *)
(*                                                                         *)
(* Recovery: its types, that only the newest session is active, that a     *)
(* session pays for a password once and only after a right answer, and     *)
(* that few answers can be guessed. Behind the first: a start that is      *)
(* under way has ended every session, and no handler brings one back.      *)
(* Behind the second: a session is authorized only once a method was       *)
(* answered right. Behind the last: the wrong answers judged and those     *)
(* still to be judged are counted together.                                *)
(***************************************************************************)
EXTENDS SignIn, Recovery, FiniteSetTheorems, TLAPS

-----------------------------------------------------------------------------
(* Sign-in: what holds throughout *)

\* What a handler read is still so, unless another one wrote it since.
Fresh(h) ==
    /\ ~handler[h].behind => handler[h].seen.attempts = account.attempts
    /\ ~handler[h].stale => /\ handler[h].seen.backups = account.backups
                            /\ handler[h].seen.enabled = account.enabled

AllFresh == \A h \in Handlers : handler[h] # NoHandler => Fresh(h)

\* The count is at least the wrong answers given, and a full count locks.
Counted == /\ raced \/ guesses <= account.attempts
           /\ account.attempts >= MaxLoginAttempts => account.lock # "none"

\* No code is of a batch still to be made.
Made(C) == \A c \in C : c[1] <= batch
AllMade == /\ Made(usedCodes) /\ Made(account.backups)
           /\ \A h \in Handlers : handler[h] # NoHandler => Made(handler[h].seen.backups)

SiInv == SiTypeOK /\ AllFresh /\ Counted /\ AllMade /\ BackupCodesHold

-----------------------------------------------------------------------------
(* Types *)

LEMMA SiInitTypes == SiInit => SiTypeOK
<1> SUFFICES ASSUME SiInit PROVE SiTypeOK
  OBVIOUS
<1>1. account \in Account
  <2>1. 0 \in Nat /\ {} \in SUBSET Codes /\ FALSE \in BOOLEAN
    OBVIOUS
  <2> QED
    BY <2>1 DEF SiInit, Account
<1>2. handler \in [Handlers -> Handling \cup {NoHandler}]
  BY DEF SiInit
<1>3. arrivals \in 0..MaxArrivals /\ batch \in 0..MaxBatches /\ guesses \in Nat
  BY SignInAssumption DEF SiInit
<1> QED
  BY <1>1, <1>2, <1>3 DEF SiInit, SiTypeOK

\* The other handlers after a write of the attempts.
LEMMA CountingMarks ==
    ASSUME SiTypeOK, NEW h \in Handlers, EndsCounting(h)
    PROVE  /\ handler' \in [Handlers -> Handling \cup {NoHandler}]
           /\ handler'[h] = NoHandler
           /\ \A g \in Handlers : handler'[g] # NoHandler =>
                 /\ handler[g] # NoHandler /\ handler'[g].behind
                 /\ handler'[g].seen = handler[g].seen /\ handler'[g].stale = handler[g].stale
<1> DEFINE marked(g) == [handler[g] EXCEPT !.behind = TRUE]
<1>1. \A g \in Handlers : handler[g] # NoHandler =>
          /\ marked(g) \in Handling /\ marked(g).behind
          /\ marked(g).seen = handler[g].seen /\ marked(g).stale = handler[g].stale
  BY DEF SiTypeOK, Handling
<1>2. handler' = [g \in Handlers |-> IF g = h \/ handler[g] = NoHandler THEN NoHandler ELSE marked(g)]
  BY DEF EndsCounting
<1> HIDE DEF marked
<1> QED
  BY <1>1, <1>2

\* The other handlers after a write of the backup codes.
LEMMA CodingMarks ==
    ASSUME SiTypeOK, NEW h \in Handlers, EndsCoding(h)
    PROVE  /\ handler' \in [Handlers -> Handling \cup {NoHandler}]
           /\ handler'[h] = NoHandler
           /\ \A g \in Handlers : handler'[g] # NoHandler =>
                 /\ handler[g] # NoHandler /\ handler'[g].stale
                 /\ handler'[g].seen = handler[g].seen /\ handler'[g].behind = handler[g].behind
<1> DEFINE marked(g) == [handler[g] EXCEPT !.stale = TRUE]
<1>1. \A g \in Handlers : handler[g] # NoHandler =>
          /\ marked(g) \in Handling /\ marked(g).stale
          /\ marked(g).seen = handler[g].seen /\ marked(g).behind = handler[g].behind
  BY DEF SiTypeOK, Handling
<1>2. handler' = [g \in Handlers |-> IF g = h \/ handler[g] = NoHandler THEN NoHandler ELSE marked(g)]
  BY DEF EndsCoding
<1> HIDE DEF marked
<1> QED
  BY <1>1, <1>2

\* The handlers after one has taken a backup code.
LEMMA AcceptMarks ==
    ASSUME SiTypeOK, NEW h \in Handlers, NEW c \in Codes, AcceptBackup(h, c)
    PROVE  /\ handler' \in [Handlers -> Handling \cup {NoHandler}]
           /\ \A g \in Handlers : handler'[g] # NoHandler =>
                 /\ handler[g] # NoHandler /\ handler'[g].stale
                 /\ handler'[g].seen = handler[g].seen /\ handler'[g].behind = handler[g].behind
<1> DEFINE marked(g) == [handler[g] EXCEPT !.stale = TRUE,
                                           !.step = IF g = h THEN "proved" ELSE handler[g].step]
<1>1. \A g \in Handlers : handler[g] # NoHandler =>
          /\ marked(g) \in Handling /\ marked(g).stale
          /\ marked(g).seen = handler[g].seen /\ marked(g).behind = handler[g].behind
  BY DEF SiTypeOK, Handling
<1>2. handler' = [g \in Handlers |->
          IF handler[g] = NoHandler \/ (g = h /\ handler[h].route # "disable") THEN NoHandler ELSE marked(g)]
  BY DEF AcceptBackup
<1> HIDE DEF marked
<1> QED
  BY <1>1, <1>2

\* The handlers under way when the account is reactivated.
LEMMA ReactivationMarks ==
    ASSUME SiTypeOK, Reactivate
    PROVE  /\ handler' \in [Handlers -> Handling \cup {NoHandler}]
           /\ \A g \in Handlers : handler'[g] # NoHandler =>
                 /\ handler[g] # NoHandler /\ handler'[g].behind
                 /\ handler'[g].seen = handler[g].seen /\ handler'[g].stale = handler[g].stale
<1> DEFINE marked(g) == [handler[g] EXCEPT !.behind = TRUE]
<1>1. \A g \in Handlers : handler[g] # NoHandler =>
          /\ marked(g) \in Handling /\ marked(g).behind
          /\ marked(g).seen = handler[g].seen /\ marked(g).stale = handler[g].stale
  BY DEF SiTypeOK, Handling
<1>2. handler' = [g \in Handlers |-> IF handler[g] = NoHandler THEN NoHandler ELSE marked(g)]
  BY DEF Reactivate
<1> HIDE DEF marked
<1> QED
  BY <1>1, <1>2

\* What a login leads to.
LEMMA LoginTypes ==
    ASSUME SiTypeOK, NEW seen, CompleteLogin(seen)
    PROVE  tickets' \subseteq {"challenge", "change"} /\ signedIn' \in BOOLEAN
BY DEF SiTypeOK, CompleteLogin

\* Every step keeps the types.
LEMMA TypesKept ==
    ASSUME SiTypeOK, [SiNext]_siVars
    PROVE  SiTypeOK'
<1> USE DEF SiTypeOK, counting, coding
<1>1. ASSUME NEW h \in Handlers, NEW route \in Routes, ReadAccount(h, route) PROVE SiTypeOK'
  <2> DEFINE begun == [route |-> route, step |-> "read", seen |-> account, behind |-> FALSE, stale |-> FALSE]
  <2>1. begun \in Handling
    BY DEF Handling
  <2>2. handler' = [handler EXCEPT ![h] = begun]
    BY <1>1 DEF ReadAccount
  <2> HIDE DEF begun
  <2>3. handler' \in [Handlers -> Handling \cup {NoHandler}]
    BY <2>1, <2>2
  <2>4. arrivals' \in 0..MaxArrivals
    BY <1>1, SignInAssumption DEF ReadAccount
  <2> QED
    BY <1>1, <2>3, <2>4 DEF ReadAccount
<1>2. ASSUME NEW h \in Handlers, WrongAnswer(h) PROVE SiTypeOK'
  <2>1. handler[h].seen.attempts + 1 \in Nat
    BY <1>2 DEF WrongAnswer, At, Handling, Account
  <2>2. account' \in Account
    BY <1>2, <2>1 DEF WrongAnswer, Account
  <2> QED
    BY <1>2, <2>2, CountingMarks DEF WrongAnswer
<1>3. ASSUME NEW h \in Handlers, RightAnswer(h) PROVE SiTypeOK'
  <2>1. account' \in {account, [account EXCEPT !.attempts = 0, !.lock = "none"]}
    BY <1>3 DEF RightAnswer
  <2>2. [account EXCEPT !.attempts = 0, !.lock = "none"] \in Account
    BY DEF Account
  <2>3. handler' \in [Handlers -> Handling \cup {NoHandler}]
    BY <1>3, CountingMarks DEF RightAnswer, Ends
  <2>4. tickets' \subseteq {"challenge", "change"} /\ signedIn' \in BOOLEAN
    BY <1>3, LoginTypes DEF RightAnswer
  <2> QED
    BY <1>3, <2>1, <2>2, <2>3, <2>4 DEF RightAnswer
<1>4. ASSUME NEW h \in Handlers, ChangeForced(h) PROVE SiTypeOK'
  <2>1. account' \in Account
    BY <1>4 DEF ChangeForced, Account
  <2> QED
    BY <1>4, <2>1 DEF ChangeForced, Ends
<1>5. ASSUME NEW h \in Handlers, AcceptTotp(h) PROVE SiTypeOK'
  <2> DEFINE proved == [handler[h] EXCEPT !.step = "proved"]
  <2>1. proved \in Handling
    BY <1>5 DEF AcceptTotp, At, Handling
  <2>2. handler' \in {[handler EXCEPT ![h] = proved], [handler EXCEPT ![h] = NoHandler]}
    BY <1>5 DEF AcceptTotp, Ends
  <2> HIDE DEF proved
  <2>3. handler' \in [Handlers -> Handling \cup {NoHandler}]
    BY <2>1, <2>2
  <2> QED
    BY <1>5, <2>3 DEF AcceptTotp, Passes
<1>6. ASSUME NEW h \in Handlers, NEW c \in Codes, AcceptBackup(h, c) PROVE SiTypeOK'
  <2>1. handler[h].seen.backups \ {c} \in SUBSET Codes
    BY <1>6 DEF AcceptBackup, At, Handling, Account
  <2>2. account' \in Account
    BY <1>6, <2>1 DEF AcceptBackup, Account
  <2> QED
    BY <1>6, <2>2, AcceptMarks DEF AcceptBackup, Passes
<1>7. ASSUME NEW h \in Handlers, RejectCode(h) PROVE SiTypeOK'
  BY <1>7 DEF RejectCode, Ends
<1>8. ASSUME NEW h \in Handlers, Confirm(h) PROVE SiTypeOK'
  <2>1. batch' \in 0..MaxBatches /\ Batch(batch') \in SUBSET Codes
    BY <1>8, SignInAssumption DEF Confirm, Batch
  <2>2. account' \in Account
    BY <1>8, <2>1 DEF Confirm, Account
  <2> QED
    BY <1>8, <2>1, <2>2, CodingMarks DEF Confirm
<1>9. ASSUME NEW h \in Handlers, Disable(h) PROVE SiTypeOK'
  <2>1. account' \in Account
    BY <1>9 DEF Disable, Account
  <2> QED
    BY <1>9, <2>1, CodingMarks DEF Disable
<1>10. ASSUME NEW t, TicketExpires(t) PROVE SiTypeOK'
  BY <1>10 DEF TicketExpires
<1>11. ASSUME Setup \/ LockLapses \/ AdminReset \/ Recovered PROVE SiTypeOK'
  <2>1. account' \in Account
    BY <1>11 DEF Setup, LockLapses, AdminReset, Recovered, Account
  <2> QED
    BY <1>11, <2>1 DEF Setup, LockLapses, AdminReset, Recovered
<1>12. ASSUME Reactivate PROVE SiTypeOK'
  <2>1. account' \in Account
    BY <1>12 DEF Reactivate, Account
  <2>2. handler' \in [Handlers -> Handling \cup {NoHandler}]
    BY <1>12, ReactivationMarks
  <2>3. tickets' \subseteq {"challenge", "change"} /\ signedIn' \in BOOLEAN
    BY <1>12, LoginTypes DEF Reactivate
  <2>4. arrivals' \in 0..MaxArrivals
    BY <1>12, SignInAssumption DEF Reactivate
  <2> QED
    BY <1>12, <2>1, <2>2, <2>3, <2>4 DEF Reactivate
<1>13. CASE SignOut
  BY <1>13 DEF SignOut
<1>14. CASE UNCHANGED siVars
  BY <1>14 DEF siVars
<1> QED
  BY <1>1, <1>2, <1>3, <1>4, <1>5, <1>6, <1>7, <1>8, <1>9, <1>10, <1>11, <1>12, <1>13, <1>14
     DEF SiNext, Handle

\* Every variable of SignIn keeps its type for any handlers, codes and bounds.
THEOREM SiTypeCorrect == SiSpec => []SiTypeOK
<1>1. SiInit => SiTypeOK
  BY SiInitTypes
<1>2. SiTypeOK /\ [SiNext]_siVars => SiTypeOK'
  BY TypesKept
<1> QED
  BY <1>1, <1>2, PTL DEF SiSpec

-----------------------------------------------------------------------------
(* Wrong answers and backup codes *)

LEMMA InitInv == SiInit => SiInv
<1> SUFFICES ASSUME SiInit PROVE SiInv
  OBVIOUS
<1>1. SiTypeOK
  BY SiInitTypes
<1>2. AllFresh /\ AllMade
  BY DEF SiInit, AllFresh, AllMade, Made
<1>3. Counted /\ BackupCodesHold
  BY SignInAssumption DEF SiInit, Counted, BackupCodesHold
<1> QED
  BY <1>1, <1>2, <1>3 DEF SiInv

\* The handlers that go on keep what they read, and so does the account unless
\* they are told.
Keeps(h) ==
    handler'[h] # NoHandler =>
        /\ handler[h] # NoHandler /\ handler'[h].seen = handler[h].seen
        /\ ~handler'[h].behind => ~handler[h].behind /\ account'.attempts = account.attempts
        /\ ~handler'[h].stale => /\ ~handler[h].stale /\ account'.backups = account.backups
                                 /\ account'.enabled = account.enabled

LEMMA KeepsFresh ==
    ASSUME AllFresh, \A h \in Handlers : Keeps(h)
    PROVE  AllFresh'
BY DEF AllFresh, Fresh, Keeps

\* A batch that is made is still made.
LEMMA MadeKept ==
    ASSUME SiTypeOK, AllMade, batch' \in Nat, batch' >= batch,
           \A h \in Handlers : handler'[h] # NoHandler =>
               handler[h] # NoHandler /\ handler'[h].seen = handler[h].seen,
           usedCodes' \subseteq usedCodes \cup account.backups \cup
               UNION {handler[h].seen.backups : h \in {g \in Handlers : handler[g] # NoHandler}},
           account'.backups \subseteq account.backups \cup Batch(batch') \cup
               UNION {handler[h].seen.backups : h \in {g \in Handlers : handler[g] # NoHandler}}
    PROVE  AllMade'
<1> DEFINE held == usedCodes \cup account.backups \cup
               UNION {handler[h].seen.backups : h \in {g \in Handlers : handler[g] # NoHandler}}
<1>1. \A c \in held : c \in Codes /\ c[1] <= batch
  BY DEF SiTypeOK, Account, Handling, AllMade, Made
<1>2. \A c \in Codes : c[1] \in Nat
  BY DEF Codes, Batches
<1>3. \A c \in held : c[1] <= batch'
  BY <1>1, <1>2 DEF SiTypeOK
<1>4. \A c \in Batch(batch') : c[1] <= batch'
  BY DEF Batch
<1>5. Made(usedCodes)' /\ Made(account.backups)'
  BY <1>3, <1>4 DEF Made
<1>6. \A h \in Handlers : handler'[h] # NoHandler => Made(handler[h].seen.backups)'
  BY <1>3 DEF Made
<1> HIDE DEF held
<1> QED
  BY <1>5, <1>6 DEF AllMade, Made

\* What an action says of one account and handler when it leaves the others' numbers alone.
Untouched ==
    /\ account'.attempts = account.attempts /\ account'.backups = account.backups
    /\ account'.enabled = account.enabled
    /\ account.lock # "none" => account'.lock # "none"
    /\ UNCHANGED <<guesses, raced, batch, usedCodes, torn>>
    /\ \A h \in Handlers : handler'[h] # NoHandler =>
          /\ handler[h] # NoHandler /\ handler'[h].seen = handler[h].seen
          /\ handler'[h].behind = handler[h].behind /\ handler'[h].stale = handler[h].stale

LEMMA UntouchedKeeps ==
    ASSUME SiInv, SiTypeOK', Untouched
    PROVE  SiInv'
<1>1. AllFresh'
  BY KeepsFresh DEF SiInv, Untouched, Keeps
<1>2. Counted' /\ BackupCodesHold'
  BY DEF SiInv, Untouched, Counted, BackupCodesHold, Batch
<1>3. AllMade'
  BY DEF SiInv, Untouched, AllMade, Made
<1> QED
  BY <1>1, <1>2, <1>3 DEF SiInv

LEMMA ReadKeeps ==
    ASSUME SiInv, SiTypeOK', NEW h \in Handlers, NEW route \in Routes, ReadAccount(h, route)
    PROVE  SiInv'
<1> DEFINE begun == [route |-> route, step |-> "read", seen |-> account, behind |-> FALSE, stale |-> FALSE]
<1>1. /\ UNCHANGED <<account, guesses, raced, batch, usedCodes, torn>>
      /\ handler' = [handler EXCEPT ![h] = begun]
  BY DEF ReadAccount, counting, coding
<1>2. begun.seen = account
  OBVIOUS
<1> HIDE DEF begun
<1>3. handler'[h] = begun /\ \A g \in Handlers \ {h} : handler'[g] = handler[g]
  BY <1>1 DEF SiInv, SiTypeOK
<1>4. AllFresh'
  BY <1>1, <1>2, <1>3 DEF SiInv, AllFresh, Fresh
<1>5. AllMade'
  BY <1>1, <1>2, <1>3 DEF SiInv, AllMade, Made
<1>6. Counted' /\ BackupCodesHold'
  BY <1>1 DEF SiInv, Counted, BackupCodesHold, Batch
<1> QED
  BY <1>4, <1>5, <1>6 DEF SiInv

\* A handler nothing overtook counts one more than the account did.
LEMMA WrongKeeps ==
    ASSUME SiInv, SiTypeOK', NEW h \in Handlers, WrongAnswer(h)
    PROVE  SiInv'
<1> DEFINE n == handler[h].seen.attempts + 1
<1>1. /\ account'.attempts = n /\ account'.backups = account.backups
      /\ account'.enabled = account.enabled
      /\ account'.lock = IF n >= MaxLoginAttempts THEN "held" ELSE "none"
  BY DEF WrongAnswer, SiInv, SiTypeOK, Account
<1>2. /\ guesses' = guesses + 1 /\ raced' = (raced \/ handler[h].behind)
      /\ UNCHANGED <<batch, usedCodes, torn>>
  BY DEF WrongAnswer, coding
<1>3. \A g \in Handlers : Keeps(g)
  BY <1>1, CountingMarks DEF WrongAnswer, Keeps, SiInv
<1>4. handler[h] # NoHandler /\ handler[h] \in Handling
  BY DEF WrongAnswer, At, SiInv, SiTypeOK
<1>5. ~handler[h].behind => handler[h].seen.attempts = account.attempts
  BY <1>4 DEF SiInv, AllFresh, Fresh
<1>6. guesses \in Nat /\ account.attempts \in Nat /\ n \in Nat
  BY <1>4 DEF SiInv, SiTypeOK, Account, Handling
<1>7. raced' \/ guesses' <= account'.attempts
  <2>1. CASE raced'
    BY <2>1
  <2>2. CASE ~raced'
    <3>1. guesses <= account.attempts /\ ~handler[h].behind
      BY <1>2, <2>2 DEF SiInv, Counted
    <3>2. n = account.attempts + 1
      BY <1>5, <3>1
    <3> QED
      BY <1>1, <1>2, <1>6, <3>1, <3>2
  <2> QED
    BY <2>1, <2>2
<1>8. Counted'
  BY <1>1, <1>7 DEF Counted
<1>9. AllFresh' /\ BackupCodesHold'
  BY <1>1, <1>2, <1>3, KeepsFresh DEF SiInv, BackupCodesHold, Batch
<1>10. AllMade'
  BY <1>1, <1>2, <1>3 DEF SiInv, AllMade, Made, Keeps
<1> QED
  BY <1>8, <1>9, <1>10 DEF SiInv

\* The count starts again, or was clear already.
LEMMA RightKeeps ==
    ASSUME SiInv, SiTypeOK', NEW h \in Handlers, RightAnswer(h)
    PROVE  SiInv'
<1>1. /\ account'.backups = account.backups /\ account'.enabled = account.enabled
      /\ \/ account'.attempts = 0
         \/ account'.attempts = account.attempts /\ account'.lock = account.lock
  BY DEF RightAnswer, SiInv, SiTypeOK, Account
<1>2. guesses' = 0 /\ UNCHANGED <<batch, usedCodes, torn>>
  BY DEF RightAnswer, coding
<1>3. \A g \in Handlers : Keeps(g)
  <2>1. CASE EndsCounting(h)
    BY <1>1, <2>1, CountingMarks DEF Keeps, SiInv
  <2>2. CASE Ends(h) /\ UNCHANGED account
    BY <2>2 DEF Ends, Keeps, SiInv, SiTypeOK
  <2> QED
    BY <2>1, <2>2 DEF RightAnswer
<1>4. Counted'
  BY <1>1, <1>2, SignInAssumption DEF SiInv, Counted, SiTypeOK, Account
<1>5. AllFresh' /\ BackupCodesHold'
  BY <1>1, <1>2, <1>3, KeepsFresh DEF SiInv, BackupCodesHold, Batch
<1>6. AllMade'
  BY <1>1, <1>2, <1>3 DEF SiInv, AllMade, Made, Keeps
<1> QED
  BY <1>4, <1>5, <1>6 DEF SiInv

LEMMA ReactivateKeeps ==
    ASSUME SiInv, SiTypeOK', Reactivate
    PROVE  SiInv'
<1>1. /\ account'.backups = account.backups /\ account'.enabled = account.enabled
      /\ account'.attempts = 0
  BY DEF Reactivate, SiInv, SiTypeOK, Account
<1>2. guesses' = 0 /\ UNCHANGED <<batch, usedCodes, torn>>
  BY DEF Reactivate, coding
<1>3. \A g \in Handlers : Keeps(g)
  BY <1>1, ReactivationMarks DEF Keeps, SiInv
<1>4. Counted'
  BY <1>1, <1>2, SignInAssumption DEF Counted
<1>5. AllFresh' /\ BackupCodesHold'
  BY <1>1, <1>2, <1>3, KeepsFresh DEF SiInv, BackupCodesHold, Batch
<1>6. AllMade'
  BY <1>1, <1>2, <1>3 DEF SiInv, AllMade, Made, Keeps
<1> QED
  BY <1>4, <1>5, <1>6 DEF SiInv

\* A handler nothing overtook takes the code out of the codes the account has.
LEMMA AcceptKeeps ==
    ASSUME SiInv, SiTypeOK', NEW h \in Handlers, NEW c \in Codes, AcceptBackup(h, c)
    PROVE  SiInv'
<1>1. /\ account'.attempts = account.attempts /\ account'.lock = account.lock
      /\ account'.enabled = account.enabled
      /\ account'.backups = handler[h].seen.backups \ {c}
  BY DEF AcceptBackup, SiInv, SiTypeOK, Account
<1>2. /\ usedCodes' = usedCodes \cup {c} /\ torn' = (torn \/ handler[h].stale)
      /\ UNCHANGED <<guesses, raced, batch>>
  BY DEF AcceptBackup, counting
<1>3. /\ handler[h] # NoHandler /\ handler[h] \in Handling /\ handler[h].seen.enabled
      /\ c \in handler[h].seen.backups
  BY DEF AcceptBackup, At, SiInv, SiTypeOK
<1>4. ~handler[h].stale => /\ handler[h].seen.backups = account.backups
                           /\ handler[h].seen.enabled = account.enabled
  BY <1>3 DEF SiInv, AllFresh, Fresh
<1>5. BackupCodesHold'
  BY <1>1, <1>2, <1>3, <1>4 DEF SiInv, BackupCodesHold, Batch
<1>6. Counted'
  BY <1>1, <1>2 DEF SiInv, Counted
<1>7. \A g \in Handlers : handler'[g] # NoHandler =>
          handler[g] # NoHandler /\ handler'[g].seen = handler[g].seen
  BY <1>3, AcceptMarks DEF SiInv
<1>8. AllMade'
  BY <1>1, <1>2, <1>3, <1>7, MadeKept DEF SiInv, SiTypeOK
<1>9. AllFresh'
  BY <1>1, AcceptMarks, KeepsFresh DEF SiInv, Keeps
<1> QED
  BY <1>5, <1>6, <1>8, <1>9 DEF SiInv

\* A new batch replaces whatever there was.
LEMMA ConfirmKeeps ==
    ASSUME SiInv, SiTypeOK', NEW h \in Handlers, Confirm(h)
    PROVE  SiInv'
<1>1. /\ account'.attempts = account.attempts /\ account'.lock = account.lock
      /\ account'.enabled /\ account'.backups = Batch(batch')
  BY DEF Confirm, SiInv, SiTypeOK, Account
<1>2. /\ batch' = batch + 1 /\ UNCHANGED <<guesses, raced, usedCodes>>
  BY DEF Confirm, counting
<1>3. Batch(batch') \cap usedCodes = {}
  BY <1>2 DEF SiInv, AllMade, Made, Batch, SiTypeOK
<1>4. BackupCodesHold'
  BY <1>1, <1>2, <1>3 DEF BackupCodesHold, Batch
<1>5. Counted'
  BY <1>1, <1>2 DEF SiInv, Counted
<1>6. \A g \in Handlers : handler'[g] # NoHandler =>
          handler[g] # NoHandler /\ handler'[g].seen = handler[g].seen
  BY CodingMarks DEF SiInv, Confirm
<1>7. AllMade'
  BY <1>1, <1>2, <1>6, MadeKept DEF SiInv, SiTypeOK
<1>8. AllFresh'
  BY <1>1, CodingMarks, KeepsFresh DEF SiInv, Keeps, Confirm
<1> QED
  BY <1>4, <1>5, <1>7, <1>8 DEF SiInv

LEMMA DisableKeeps ==
    ASSUME SiInv, SiTypeOK', NEW h \in Handlers, Disable(h)
    PROVE  SiInv'
<1>1. /\ account'.attempts = account.attempts /\ account'.lock = account.lock
      /\ ~account'.enabled /\ account'.backups = {}
  BY DEF Disable, SiInv, SiTypeOK, Account
<1>2. UNCHANGED <<guesses, raced, batch, usedCodes>>
  BY DEF Disable, counting
<1>3. BackupCodesHold'
  BY <1>1 DEF BackupCodesHold
<1>4. Counted'
  BY <1>1, <1>2 DEF SiInv, Counted
<1>5. \A g \in Handlers : handler'[g] # NoHandler =>
          handler[g] # NoHandler /\ handler'[g].seen = handler[g].seen
  BY CodingMarks DEF SiInv, Disable
<1>6. AllMade'
  BY <1>1, <1>2, <1>5 DEF SiInv, AllMade, Made
<1>7. AllFresh'
  BY <1>1, CodingMarks, KeepsFresh DEF SiInv, Keeps, Disable
<1> QED
  BY <1>3, <1>4, <1>6, <1>7 DEF SiInv

\* The other actions write neither count nor codes.
LEMMA OthersKeep ==
    ASSUME SiInv, SiTypeOK',
           \/ \E h \in Handlers : ChangeForced(h) \/ AcceptTotp(h) \/ RejectCode(h)
           \/ \E t \in {"challenge", "change"} : TicketExpires(t)
           \/ Setup \/ LockLapses \/ AdminReset \/ Recovered \/ SignOut
           \/ UNCHANGED siVars
    PROVE  SiInv'
<1>1. ASSUME NEW h \in Handlers, ChangeForced(h) PROVE Untouched
  BY <1>1 DEF ChangeForced, Ends, Untouched, SiInv, SiTypeOK, Account, counting, coding
<1>2. ASSUME NEW h \in Handlers, AcceptTotp(h) PROVE Untouched
  <2> DEFINE proved == [handler[h] EXCEPT !.step = "proved"]
  <2>1. handler[h] # NoHandler /\ handler[h] \in Handling
    BY <1>2 DEF AcceptTotp, At, SiInv, SiTypeOK
  <2>2. /\ proved.seen = handler[h].seen /\ proved.behind = handler[h].behind
        /\ proved.stale = handler[h].stale
    BY <2>1 DEF Handling
  <2>3. handler' \in {[handler EXCEPT ![h] = proved], [handler EXCEPT ![h] = NoHandler]}
    BY <1>2 DEF AcceptTotp, Ends
  <2>4. UNCHANGED <<account, guesses, raced, batch, usedCodes, torn>>
    BY <1>2 DEF AcceptTotp, counting, coding
  <2> HIDE DEF proved
  <2> QED
    BY <2>1, <2>2, <2>3, <2>4 DEF Untouched, SiInv, SiTypeOK
<1>3. ASSUME NEW h \in Handlers, RejectCode(h) PROVE Untouched
  BY <1>3 DEF RejectCode, Ends, Untouched, SiInv, SiTypeOK, counting, coding
<1>4. ASSUME NEW t, TicketExpires(t) PROVE Untouched
  BY <1>4 DEF TicketExpires, Untouched, counting, coding
<1>5. ASSUME Setup \/ LockLapses \/ AdminReset \/ Recovered PROVE Untouched
  BY <1>5 DEF Setup, LockLapses, AdminReset, Recovered, Untouched, SiInv, SiTypeOK, Account, counting, coding
<1>6. CASE SignOut
  BY <1>6, UntouchedKeeps DEF SignOut, Untouched, counting, coding
<1>7. CASE UNCHANGED siVars
  BY <1>7, UntouchedKeeps DEF siVars, Untouched
<1> QED
  BY <1>1, <1>2, <1>3, <1>4, <1>5, <1>6, <1>7, UntouchedKeeps

LEMMA InvKept ==
    ASSUME SiInv, [SiNext]_siVars
    PROVE  SiInv'
<1>1. SiTypeOK'
  BY TypesKept DEF SiInv
<1> QED
  BY <1>1, ReadKeeps, WrongKeeps, RightKeeps, ReactivateKeeps, AcceptKeeps, ConfirmKeeps, DisableKeeps,
     OthersKeep DEF SiNext, Handle

LEMMA InvHolds == SiSpec => []SiInv
<1>1. SiInit => SiInv
  BY InitInv
<1>2. SiInv /\ [SiNext]_siVars => SiInv'
  BY InvKept
<1> QED
  BY <1>1, <1>2, PTL DEF SiSpec

\* auth.routes.ts:682: for any handlers, lapses and reactivations, MaxLoginAttempts
\* wrong answers lock the account unless one was counted from an outdated number.
THEOREM GuessesLockIt == SiSpec => []GuessesLock
<1>1. SiInv => GuessesLock
  BY SignInAssumption DEF SiInv, Counted, GuessesLock, SiTypeOK, Account
<1> QED
  BY <1>1, InvHolds, PTL

\* auth.routes.ts:161: the codes that are accepted are the user's unused ones, unless
\* one was taken from an outdated list.
THEOREM CodesHold == SiSpec => []BackupCodesHold
<1>1. SiInv => BackupCodesHold
  BY DEF SiInv
<1> QED
  BY <1>1, InvHolds, PTL

-----------------------------------------------------------------------------
(* Recovery: what holds throughout *)

Starting(c) == Loaded(c, "start")

\* A request has what its handler needs: the session it loaded, a method to choose
\* or to verify, a page that waits for the answer.
Equipped(k) ==
    /\ k.op # "start" /\ k.step = "loaded" => k.session \in Sessions /\ row[k.session] # Absent
    /\ k.op \in {"select", "verify"} => k.method \in Methods
    /\ k.step \in {"ok", "refused", "locked"} => k.page \in Pages

AllEquipped == \A c \in Calls : call[c] # Absent => Equipped(call[c])

\* Sessions are numbered as they begin.
Numbered == \A s \in Sessions : s > newest => row[s] = Absent

Ended(s) == row[s] # Absent => row[s].consumed

\* Unless two starts overlapped, all sessions but the newest have ended, and all of
\* them while a start is under way.
OthersEnded ==
    overlap \/ /\ \A s \in Sessions : s # newest => Ended(s)
               /\ \A c, d \in Calls : Starting(c) /\ Starting(d) => c = d
               /\ (\E c \in Calls : Starting(c)) => \A s \in Sessions : Ended(s)

\* A session pays for a reset.
Paying(s) == \E c \in Calls : Loaded(c, "reset") /\ call[c].session = s

\* The method the session names was answered right.
Backed(s) == proof[s] # {} /\ (s \in crossed \/ row[s].method \in proof[s])

\* A session is authorized, pays, and has paid, for a right answer.
Earned(s) ==
    /\ row[s].state = "AUTHORIZED" => Backed(s)
    /\ Paying(s) \/ resets[s] > 0 =>
          /\ Backed(s)
          /\ s \in crossed \/ row[s].state \notin {"STARTED", "METHOD_SELECTED"}
    /\ resets[s] > 0 => s \in crossed \/ (resets[s] = 1 /\ row[s].consumed /\ ~Paying(s))
    /\ \A c \in Calls : Loaded(c, "verify") /\ call[c].session = s =>
          s \in crossed \/ row[s].method = call[c].method

AllEarned ==
    \A s \in Sessions : IF row[s] = Absent THEN resets[s] = 0 ELSE Earned(s)

RecInv == RecTypeOK /\ AllEquipped /\ Numbered /\ OthersEnded /\ AllEarned

\* A step starts no handler's awaits.
LoadedBefore ==
    \A d \in Calls, op \in Ops : Loaded(d, op)' =>
        /\ Loaded(d, op)
        /\ call[d].session' = call[d].session /\ call[d].method' = call[d].method

\* A step writes no row but to end it.
RowsKept ==
    \A t \in Sessions :
        /\ row[t] = Absent <=> row'[t] = Absent
        /\ row[t] # Absent =>
              /\ row'[t].method = row[t].method
              /\ row[t].consumed => row'[t].consumed
              /\ row'[t].state = row[t].state \/ row'[t].state \in {"LOCKED", "EXPIRED"}

-----------------------------------------------------------------------------
(* Types *)

CallTable == [Calls -> Call \cup {Absent}]
RowTable  == [Sessions -> Row \cup {Absent}]

LEMMA RecInitTypes == RecInit => RecTypeOK
<1> SUFFICES ASSUME RecInit PROVE RecTypeOK
  OBVIOUS
<1>1. 0 \in 0..MaxSessions /\ 0 \in 0..MaxCodes /\ 0 \in 0..MaxRequests /\ Blank \in Page
  BY RecoveryAssumption DEF Blank, Page
<1> QED
  BY <1>1 DEF RecInit, RecTypeOK

\* A new request of a page.
LEMMA RequestKeeps ==
    ASSUME RecTypeOK, AllEquipped, NEW c \in Calls, NEW p \in Pages, NEW op \in Ops,
           NEW method \in Methods \cup {Absent}, NEW answer \in 0..MaxCodes + 1,
           op \in {"select", "verify"} => method \in Methods,
           Request(c, p, op, method, answer)
    PROVE  /\ RecTypeOK' /\ AllEquipped'
           /\ row' = row /\ newest' = newest /\ overlap' = overlap
           /\ proof' = proof /\ resets' = resets /\ crossed' = crossed /\ LoadedBefore
<1> DEFINE k == [op |-> op, page |-> p, session |-> jar,
                 method |-> method, answer |-> answer, step |-> "sent", code |-> 0]
<1>1. k \in Call /\ k.step = "sent" /\ k.op = op /\ k.method = method
  BY RecoveryAssumption DEF RecTypeOK, Call
<1>2. call' = [call EXCEPT ![c] = k] /\ call[c] = Absent
  BY DEF Request
<1> HIDE DEF k
<1>3. call' \in CallTable /\ asked' \in 0..MaxRequests
  BY <1>1, <1>2, RecoveryAssumption DEF Request, RecTypeOK, CallTable
<1>4. RecTypeOK'
  BY <1>3 DEF Request, RecTypeOK, rowVars, history, CallTable
<1>5. AllEquipped'
  BY <1>1, <1>2 DEF RecTypeOK, AllEquipped, Equipped, Request
<1>6. LoadedBefore
  BY <1>1, <1>2 DEF RecTypeOK, LoadedBefore, Loaded
<1> QED
  BY <1>4, <1>5, <1>6 DEF Request, history

\* A handler that answers.
LEMMA DoneKeeps ==
    ASSUME call \in CallTable, AllEquipped, NEW c \in Calls, call[c] # Absent,
           NEW how \in {"ok", "refused", "locked"}, Done(c, how),
           \A s \in Sessions : row[s] # Absent => row'[s] # Absent
    PROVE  /\ call' \in CallTable /\ AllEquipped'
           /\ LoadedBefore
           /\ \A d \in Calls : d # c => call'[d] = call[d]
           /\ \A op \in Ops : ~Loaded(c, op)'
<1> DEFINE k == [call[c] EXCEPT !.step = how]
<1>1. call[c] \in Call /\ k \in Call /\ k.step = how /\ k.op = call[c].op
      /\ k.method = call[c].method /\ k.page = call[c].page
  BY DEF CallTable, Call
<1>2. call' = [call EXCEPT ![c] = IF call[c].page = Absent THEN Absent ELSE k]
  BY DEF Done
<1>3. k.page # Absent => k.page \in Pages
  BY <1>1 DEF Call
<1> HIDE DEF k
<1>4. call' \in CallTable
  BY <1>1, <1>2 DEF CallTable
<1>5. AllEquipped'
  <2> SUFFICES ASSUME NEW d \in Calls, call'[d] # Absent PROVE Equipped(call[d])'
    BY DEF AllEquipped
  <2>1. CASE d = c
    <3>1. call'[d] = k /\ Equipped(call[c])
      BY <1>2, <2>1 DEF CallTable, AllEquipped
    <3> QED
      BY <1>1, <1>2, <1>3, <2>1, <3>1 DEF Equipped, CallTable
  <2>2. CASE d # c
    <3>1. call'[d] = call[d] /\ Equipped(call[d])
      BY <1>2, <2>2 DEF CallTable, AllEquipped
    <3> QED
      BY <3>1 DEF Equipped
  <2> QED
    BY <2>1, <2>2
<1>6. /\ \A d \in Calls : d # c => call'[d] = call[d]
      /\ \A op \in Ops : ~Loaded(c, op)'
  BY <1>1, <1>2 DEF CallTable, Loaded
<1>7. LoadedBefore
  BY <1>6 DEF LoadedBefore, Loaded
<1> QED
  BY <1>4, <1>5, <1>6, <1>7

\* A row that is written.
LEMMA RowWritten ==
    ASSUME row \in RowTable, NEW s \in Sessions, NEW r \in Row, row' = [row EXCEPT ![s] = r],
           row[s] # Absent, row[s].consumed => r.consumed
    PROVE  /\ row' \in RowTable
           /\ \A t \in Sessions : row[t] # Absent <=> row'[t] # Absent
           /\ \A t \in Sessions : Ended(t) => Ended(t)'
BY AbsentAssumption DEF RowTable, Ended

\* A step that starts no reset and no verification and only ends rows keeps what
\* the sessions have earned.
LEMMA EarnedKept ==
    ASSUME AllEarned, UNCHANGED <<proof, resets, crossed>>, RowsKept,
           \A d \in Calls, op \in {"reset", "verify"} : Loaded(d, op)' =>
               /\ Loaded(d, op)
               /\ call[d].session' = call[d].session /\ call[d].method' = call[d].method
    PROVE  AllEarned'
<1>1. \A t \in Sessions : Paying(t)' => Paying(t)
  BY DEF Paying
<1>2. \A d \in Calls : Loaded(d, "verify")' => Loaded(d, "verify")
          /\ call[d].session' = call[d].session /\ call[d].method' = call[d].method
  OBVIOUS
<1> SUFFICES ASSUME NEW s \in Sessions, row'[s] # Absent PROVE Earned(s)'
  BY DEF AllEarned, RowsKept
<1>3. row[s] # Absent /\ Earned(s)
  BY DEF AllEarned, RowsKept
<1>4. Backed(s)' <=> Backed(s)
  BY <1>3 DEF Backed, RowsKept
<1> QED
  BY <1>1, <1>2, <1>3, <1>4 DEF Earned, RowsKept

\* A step that starts no awaits either keeps what is known of the sessions.
LEMMA SessionsKept ==
    ASSUME RecTypeOK, Numbered, OthersEnded, AllEarned,
           UNCHANGED <<newest, overlap, proof, resets, crossed>>, LoadedBefore, RowsKept
    PROVE  Numbered' /\ OthersEnded' /\ AllEarned'
<1>1. \A d \in Calls : Starting(d)' => Starting(d)
  BY DEF LoadedBefore, Starting, Ops
<1>2. \A t \in Sessions : Ended(t) => Ended(t)'
  BY DEF RowsKept, Ended
<1>3. Numbered' /\ OthersEnded'
  BY <1>1, <1>2 DEF Numbered, OthersEnded, RowsKept
<1>4. \A d \in Calls, op \in {"reset", "verify"} : Loaded(d, op)' =>
               /\ Loaded(d, op)
               /\ call[d].session' = call[d].session /\ call[d].method' = call[d].method
  BY DEF LoadedBefore, Ops
<1>5. AllEarned'
  BY <1>4, EarnedKept
<1> QED
  BY <1>3, <1>5

-----------------------------------------------------------------------------
(* The page *)

\* What the user does on a page.
LEMMA PageStep ==
    ASSUME RecInv, NEW p \in Pages, FromPage(p)
    PROVE  RecInv'
<1>r. ASSUME NEW c \in Calls, NEW op \in Ops, NEW method \in Methods \cup {Absent},
             NEW answer \in 0..MaxCodes + 1, op \in {"select", "verify"} => method \in Methods,
             Request(c, p, op, method, answer)
      PROVE  RecInv'
  <2>1. /\ RecTypeOK' /\ AllEquipped'
        /\ row' = row /\ newest' = newest /\ overlap' = overlap
        /\ proof' = proof /\ resets' = resets /\ crossed' = crossed /\ LoadedBefore
    BY <1>r, RequestKeeps DEF RecInv
  <2> QED
    BY <2>1, SessionsKept DEF RecInv, RowsKept
<1>0. 0 \in 0..MaxCodes + 1
  BY RecoveryAssumption
<1>1. ASSUME NEW c \in Calls, SubmitEmail(p, c) PROVE RecInv'
  BY <1>0, <1>1, <1>r DEF SubmitEmail, Ops
<1>2. ASSUME NEW c \in Calls, ChooseMethod(p, c) PROVE RecInv'
  BY <1>0, <1>2, <1>r DEF ChooseMethod, Ops
<1>3. ASSUME NEW c \in Calls, Resend(p, c) PROVE RecInv'
  BY <1>0, <1>3, <1>r DEF Resend, Ops
<1>4. ASSUME NEW c \in Calls, SubmitAnswer(p, c) PROVE RecInv'
  <2>1. PICK a \in 0..MaxCodes : Request(c, p, "verify", page[p].step, a)
    BY <1>4 DEF SubmitAnswer
  <2>2. a \in 0..MaxCodes + 1 /\ page[p].step \in Methods /\ "verify" \in Ops
    BY <1>4, RecoveryAssumption DEF SubmitAnswer, Ops
  <2> QED
    BY <2>1, <2>2, <1>r
<1>5. ASSUME NEW c \in Calls, SubmitPassword(p, c) PROVE RecInv'
  BY <1>0, <1>5, <1>r DEF SubmitPassword, Ops
<1>6. CASE BackToMethods(p) \/ StartOver(p)
  <2>1. page' \in [Pages -> Page]
    <3>1. [page[p] EXCEPT !.step = "CHOOSE_METHOD"] \in Page /\ Blank \in Page
      BY DEF RecInv, RecTypeOK, Page, Blank
    <3>2. CASE BackToMethods(p)
      <4>1. page' = [page EXCEPT ![p] = [page[p] EXCEPT !.step = "CHOOSE_METHOD"]]
        BY <3>2 DEF BackToMethods
      <4> QED
        BY <3>1, <4>1 DEF RecInv, RecTypeOK
    <3>3. CASE StartOver(p)
      BY <3>1, <3>3 DEF StartOver, RecInv, RecTypeOK
    <3> QED
      BY <1>6, <3>2, <3>3
  <2>2. UNCHANGED <<jar, call, row, codes, asked, newest, overlap, proof, wrong, resets, crossed>>
    BY <1>6 DEF BackToMethods, StartOver, rowVars, history
  <2>3. RecTypeOK' /\ AllEquipped'
    BY <2>1, <2>2 DEF RecInv, RecTypeOK, AllEquipped, Equipped
  <2> QED
    BY <2>2, <2>3, SessionsKept DEF RecInv, LoadedBefore, Loaded, RowsKept
<1>7. CASE Leave(p)
  <2>1. UNCHANGED <<jar, row, codes, asked, newest, overlap, proof, wrong, resets, crossed>>
    BY <1>7 DEF Leave, rowVars, history
  <2>2. Blank \in Page /\ page' \in [Pages -> Page]
    BY <1>7 DEF Leave, RecInv, RecTypeOK, Blank, Page
  <2>3. \A c \in Calls : \/ call'[c] = call[c]
                         \/ call'[c] = Absent
                         \/ /\ call[c] # Absent /\ call'[c] = [call[c] EXCEPT !.page = Absent]
                            /\ call[c].step \in {"sent", "loaded"}
    BY <1>7 DEF Leave
  <2>4. \A c \in Calls : call[c] # Absent =>
            LET k == [call[c] EXCEPT !.page = Absent]
            IN k \in Call /\ k.op = call[c].op /\ k.step = call[c].step
               /\ k.session = call[c].session /\ k.method = call[c].method
    <3> SUFFICES ASSUME NEW c \in Calls, call[c] # Absent
                 PROVE  LET k == [call[c] EXCEPT !.page = Absent]
                        IN k \in Call /\ k.op = call[c].op /\ k.step = call[c].step
                           /\ k.session = call[c].session /\ k.method = call[c].method
      OBVIOUS
    <3>1. call[c] \in Call
      BY DEF RecInv, RecTypeOK
    <3> QED
      BY <3>1 DEF Call
  <2>5. call' \in CallTable
    <3> DEFINE after(c) == IF call[c] # Absent /\ call[c].page = p
                           THEN IF call[c].step \in {"sent", "loaded"}
                                THEN [call[c] EXCEPT !.page = Absent] ELSE Absent
                           ELSE call[c]
    <3>1. call' = [c \in Calls |-> after(c)]
      BY <1>7 DEF Leave
    <3>2. \A c \in Calls : after(c) \in Call \cup {Absent}
      BY <2>4 DEF RecInv, RecTypeOK
    <3> HIDE DEF after
    <3> QED
      BY <3>1, <3>2 DEF CallTable
  <2>6. RecTypeOK'
    BY <2>1, <2>2, <2>5 DEF RecInv, RecTypeOK, CallTable
  <2>7. AllEquipped'
    <3> SUFFICES ASSUME NEW c \in Calls, call'[c] # Absent PROVE Equipped(call[c])'
      BY DEF AllEquipped
    <3>1. call[c] # Absent /\ Equipped(call[c])
      BY <2>3 DEF RecInv, AllEquipped
    <3>2. CASE call'[c] = call[c]
      BY <2>1, <3>1, <3>2 DEF Equipped
    <3>3. CASE call'[c] # call[c]
      <4>1. /\ call'[c].op = call[c].op /\ call'[c].step = call[c].step
            /\ call'[c].session = call[c].session /\ call'[c].method = call[c].method
            /\ call[c].step \in {"sent", "loaded"}
        BY <2>3, <2>4, <3>3
      <4> QED
        BY <2>1, <3>1, <4>1 DEF Equipped
    <3> QED
      BY <3>2, <3>3
  <2>8. LoadedBefore
    BY <2>3, <2>4 DEF LoadedBefore, Loaded
  <2> QED
    BY <2>1, <2>6, <2>7, <2>8, SessionsKept DEF RecInv, RowsKept
<1> QED
  BY <1>1, <1>2, <1>3, <1>4, <1>5, <1>6, <1>7 DEF FromPage

-----------------------------------------------------------------------------
(* Answers and time *)

LEMMA NextStepType ==
    ASSUME RecTypeOK, NEW p \in Pages, NEW k \in Call, k.op \in {"select", "verify"} => k.method \in Methods
    PROVE  NextStep(p, k) \in Page
<1>1. page[p] \in Page /\ k.op \in Ops
  BY DEF RecTypeOK, Call
<1> QED
  BY <1>1 DEF NextStep, Page, Ops

LEMMA AnswerStep ==
    ASSUME RecInv, NEW c \in Calls, Answer(c) \/ GiveUp(c)
    PROVE  RecInv'
<1>1. call[c] # Absent /\ call[c] \in Call /\ Equipped(call[c])
  BY DEF Answer, GiveUp, RecInv, RecTypeOK, AllEquipped
<1>2. CASE Answer(c)
  <2>1. UNCHANGED <<row, codes, asked, newest, overlap, proof, wrong, resets, crossed>>
    BY <1>2 DEF Answer, rowVars, history
  <2>2. call[c].page \in Pages
    BY <1>1, <1>2 DEF Answer, Equipped
  <2>3. NextStep(call[c].page, call[c]) \in Page
    BY <1>1, <2>2, NextStepType DEF RecInv, Equipped
  <2>4. [page[call[c].page] EXCEPT !.locked = (call[c].step = "locked")] \in Page
    <3>1. ASSUME NEW b \in BOOLEAN PROVE [page[call[c].page] EXCEPT !.locked = b] \in Page
      BY <2>2 DEF RecInv, RecTypeOK, Page
    <3>2. (call[c].step = "locked") \in BOOLEAN
      OBVIOUS
    <3> QED
      BY <3>1, <3>2
  <2>5. page' \in [Pages -> Page] /\ jar' \in 0..MaxSessions
    <3>1. page' = [page EXCEPT ![call[c].page] =
                      IF call[c].step = "ok" THEN NextStep(call[c].page, call[c])
                      ELSE [page[call[c].page] EXCEPT !.locked = (call[c].step = "locked")]]
      BY <1>2 DEF Answer
    <3>2. jar' \in 0..MaxSessions
      BY <1>1, <1>2, RecoveryAssumption DEF Answer, RecInv, RecTypeOK, Call
    <3> QED
      BY <2>2, <2>3, <2>4, <3>1, <3>2 DEF RecInv, RecTypeOK
  <2>6. /\ RecTypeOK' /\ AllEquipped' /\ LoadedBefore
    BY <1>2, <2>1, <2>5 DEF Answer, RecInv, RecTypeOK, AllEquipped, Equipped, LoadedBefore, Loaded
  <2> QED
    BY <2>1, <2>6, SessionsKept DEF RecInv, RowsKept
<1>3. CASE GiveUp(c)
  <2>1. UNCHANGED <<jar, page, row, codes, asked, newest, overlap, proof, wrong, resets, crossed>>
    BY <1>3 DEF GiveUp, rowVars, history
  <2> DEFINE k == [call[c] EXCEPT !.page = Absent]
  <2>2. k \in Call /\ k.op = call[c].op /\ k.step = call[c].step
        /\ k.session = call[c].session /\ k.method = call[c].method
    BY <1>1 DEF Call
  <2>3. call' = [call EXCEPT ![c] = IF call[c].step \in {"sent", "loaded"} THEN k ELSE Absent]
    BY <1>3 DEF GiveUp
  <2> HIDE DEF k
  <2>4. /\ RecTypeOK' /\ AllEquipped' /\ LoadedBefore
    BY <1>1, <2>1, <2>2, <2>3 DEF RecInv, RecTypeOK, AllEquipped, Equipped, LoadedBefore, Loaded
  <2> QED
    BY <2>1, <2>4, SessionsKept DEF RecInv, RowsKept
<1> QED
  BY <1>2, <1>3

LEMMA AgeStep ==
    ASSUME RecInv, NEW s \in Sessions, Age(s)
    PROVE  RecInv'
<1> DEFINE r == [row[s] EXCEPT !.late = TRUE]
<1>1. row[s] # Absent /\ r \in Row /\ r.consumed = row[s].consumed
      /\ r.method = row[s].method /\ r.state = row[s].state
  BY DEF Age, RecInv, RecTypeOK, Row
<1>2. row' = [row EXCEPT ![s] = r]
  BY DEF Age
<1> HIDE DEF r
<1>3. /\ row' \in RowTable
      /\ \A t \in Sessions : row[t] # Absent <=> row'[t] # Absent
      /\ \A t \in Sessions : Ended(t) => Ended(t)'
  BY <1>1, <1>2, RowWritten DEF RecInv, RecTypeOK, RowTable
<1>4. UNCHANGED <<jar, page, asked, call, codes, newest, overlap, proof, wrong, resets, crossed>>
  BY DEF Age, history
<1>5. RecTypeOK' /\ AllEquipped'
  BY <1>3, <1>4 DEF RecInv, RecTypeOK, RowTable, AllEquipped, Equipped
<1>6. RowsKept
  BY <1>1, <1>2, <1>3 DEF RecInv, RecTypeOK, RowsKept
<1> QED
  BY <1>4, <1>5, <1>6, SessionsKept DEF RecInv, LoadedBefore, Loaded

-----------------------------------------------------------------------------
(* The handlers *)

\* An active session that is asked for exists.
LEMMA ActiveExists ==
    ASSUME RecInv, NEW c \in Calls, call[c] # Absent, Active(call[c].session)
    PROVE  /\ call[c].session \in Sessions /\ row[call[c].session] # Absent
           /\ row[call[c].session] \in Row /\ ~row[call[c].session].consumed
<1>1. call[c].session \in 0..MaxSessions
  BY DEF RecInv, RecTypeOK, Call
<1> QED
  BY <1>1, RecoveryAssumption DEF Active, Sessions, RecInv, RecTypeOK

\* The row is read: the handler answers at once, or goes on with what it needs.
LEMMA LoadStep ==
    ASSUME RecInv, NEW c \in Calls, Load(c)
    PROVE  RecInv'
<1> DEFINE k == call[c]
<1> DEFINE s == call[c].session
<1>0. /\ call[c] # Absent /\ call[c] \in Call /\ call[c].step = "sent" /\ call[c].op # "start"
      /\ call[c].op \in Ops /\ s \in 0..MaxSessions /\ Equipped(call[c])
  BY DEF Load, RecInv, RecTypeOK, AllEquipped, Call
<1>u. UNCHANGED <<jar, page, asked, codes, newest, overlap, proof, wrong, resets, crossed>>
  BY DEF Load, history
<1>d. ASSUME NEW how \in {"ok", "refused", "locked"}, Done(c, how), row' \in RowTable, RowsKept
      PROVE  RecInv'
  <2>1. call' \in CallTable /\ AllEquipped' /\ LoadedBefore
    BY <1>0, <1>d, DoneKeeps DEF RecInv, RecTypeOK, CallTable, RowsKept
  <2>2. RecTypeOK'
    BY <1>d, <1>u, <2>1 DEF RecInv, RecTypeOK, CallTable, RowTable
  <2> QED
    BY <1>d, <1>u, <2>1, <2>2, SessionsKept DEF RecInv
<1>k. row' = row => row' \in RowTable /\ RowsKept
  BY DEF RecInv, RecTypeOK, RowTable, RowsKept
<1>w. ASSUME NEW state \in {"LOCKED", "EXPIRED"}, s \in Sessions, row[s] # Absent,
             row' = [row EXCEPT ![s].state = state]
      PROVE  row' \in RowTable /\ RowsKept
  <2> DEFINE r == [row[s] EXCEPT !.state = state]
  <2>1. r \in Row /\ r.consumed = row[s].consumed /\ r.method = row[s].method /\ r.state = state
    BY <1>w DEF RecInv, RecTypeOK, Row, States
  <2>2. row' = [row EXCEPT ![s] = r]
    BY <1>w
  <2> HIDE DEF r
  <2>3. row'[s] = r /\ \A t \in Sessions : t # s => row'[t] = row[t]
    BY <1>w, <2>2 DEF RecInv, RecTypeOK
  <2>4. row' \in RowTable
    BY <2>1, <2>2 DEF RecInv, RecTypeOK, RowTable
  <2>5. r # Absent
    BY <2>1, AbsentAssumption
  <2>6. RowsKept
    BY <1>w, <2>1, <2>3, <2>5 DEF RowsKept
  <2> QED
    BY <2>4, <2>6
<1>1. CASE /\ ~Active(s)
           /\ row' = IF s # 0 /\ row[s] # Absent /\ row[s].late /\ ~row[s].consumed
                        /\ row[s].state # "LOCKED"
                     THEN [row EXCEPT ![s].state = "EXPIRED"] ELSE row
           /\ Done(c, "refused")
  <2>1. s # 0 => s \in Sessions
    BY <1>0, RecoveryAssumption DEF Sessions
  <2>2. row' \in RowTable /\ RowsKept
    BY <1>1, <1>k, <1>w, <2>1
  <2> QED
    BY <1>1, <1>d, <2>2
<1>2. CASE Done(c, "refused") /\ UNCHANGED row
  BY <1>2, <1>d, <1>k
<1>3. CASE /\ Active(s) /\ row' = [row EXCEPT ![s].state = "LOCKED"] /\ Done(c, "locked")
  <2>1. s \in Sessions /\ row[s] # Absent
    BY <1>0, <1>3, ActiveExists
  <2> QED
    BY <1>3, <1>d, <1>w, <2>1
<1>4. CASE /\ Active(s) /\ Admits(k, row[s]) /\ UNCHANGED row
           /\ call' = [call EXCEPT ![c].step = "loaded",
                  ![c].code = IF k.op = "verify" /\ k.method = "EMAIL_OTP" THEN row[s].code ELSE 0]
  <2>0. s \in Sessions /\ row[s] # Absent /\ row[s] \in Row /\ ~row[s].consumed
    BY <1>0, <1>4, ActiveExists
  <2> DEFINE code == IF k.op = "verify" /\ k.method = "EMAIL_OTP" THEN row[s].code ELSE 0
  <2> DEFINE l == [call[c] EXCEPT !.step = "loaded", !.code = code]
  <2>1. code \in 0..MaxCodes
    BY <2>0, RecoveryAssumption DEF Row
  <2> HIDE DEF code
  <2>2. l \in Call /\ l.step = "loaded" /\ l.op = k.op /\ l.session = s /\ l.method = k.method
    BY <1>0, <2>1 DEF Call
  <2>3. call' = [call EXCEPT ![c] = l]
    BY <1>4 DEF code
  <2> HIDE DEF l
  <2>4. call' \in CallTable
    BY <2>2, <2>3 DEF RecInv, RecTypeOK, CallTable
  <2>5. RecTypeOK'
    BY <1>4, <1>u, <2>4 DEF RecInv, RecTypeOK, CallTable
  <2>6. call'[c] = l /\ \A d \in Calls : d # c => call'[d] = call[d]
    BY <2>3 DEF RecInv, RecTypeOK
  <2>7. AllEquipped'
    BY <1>0, <1>4, <2>0, <2>2, <2>6 DEF RecInv, AllEquipped, Equipped
  <2>8. \A d \in Calls : Starting(d)' => Starting(d)
    BY <1>0, <2>2, <2>6 DEF Starting, Loaded
  <2>9. Numbered' /\ OthersEnded'
    BY <1>4, <1>u, <2>8 DEF RecInv, Numbered, OthersEnded, Ended
  <2>10. AllEarned'
    <3> SUFFICES ASSUME NEW t \in Sessions, row[t] # Absent PROVE Earned(t)'
      BY <1>4, <1>u DEF RecInv, AllEarned
    <3>1. Earned(t) /\ (Backed(t)' <=> Backed(t))
      BY <1>4, <1>u DEF RecInv, AllEarned, Backed
    <3>2. CASE t # s
      <4>1. Paying(t)' => Paying(t)
        BY <1>0, <2>2, <2>6, <3>2 DEF Paying, Loaded
      <4>2. \A d \in Calls : Loaded(d, "verify")' /\ call'[d].session = t =>
                Loaded(d, "verify") /\ call[d].session = t /\ call'[d].method = call[d].method
        BY <1>0, <2>2, <2>6, <3>2 DEF Loaded
      <4>3. row' = row /\ resets' = resets /\ crossed' = crossed
        BY <1>4, <1>u
      <4>4. /\ row'[t].state = "AUTHORIZED" => Backed(t)'
            /\ Paying(t)' \/ resets'[t] > 0 =>
                  Backed(t)' /\ (t \in crossed' \/ row'[t].state \notin {"STARTED", "METHOD_SELECTED"})
        BY <3>1, <4>1, <4>3 DEF Earned
      <4>5. resets'[t] > 0 => t \in crossed' \/ (resets'[t] = 1 /\ row'[t].consumed /\ ~Paying(t)')
        BY <3>1, <4>1, <4>3 DEF Earned
      <4>6. \A d \in Calls : Loaded(d, "verify")' /\ call'[d].session = t =>
                t \in crossed' \/ row'[t].method = call'[d].method
        BY <3>1, <4>2, <4>3 DEF Earned
      <4> QED
        BY <4>4, <4>5, <4>6 DEF Earned
    <3>3. CASE t = s
      <4>1. k.op = "reset" => row[t].state = "AUTHORIZED"
        BY <1>4, <3>3 DEF Admits
      <4>2. k.op = "verify" => row[t].method = k.method
        BY <1>4, <3>3 DEF Admits
      <4>3. Paying(t)' => Paying(t) \/ row[t].state = "AUTHORIZED"
        BY <2>2, <2>6, <4>1 DEF Paying, Loaded
      <4>4. Paying(t)' \/ resets[t] > 0 =>
                /\ Backed(t)
                /\ t \in crossed \/ row[t].state \notin {"STARTED", "METHOD_SELECTED"}
        BY <3>1, <4>3 DEF Earned
      <4>5. resets[t] > 0 => t \in crossed
        BY <2>0, <3>1, <3>3 DEF Earned
      <4>6. \A d \in Calls : Loaded(d, "verify")' /\ call'[d].session = t =>
                t \in crossed \/ row[t].method = call'[d].method
        BY <2>2, <2>6, <3>1, <4>2 DEF Earned, Loaded
      <4> QED
        BY <1>4, <1>u, <3>1, <4>4, <4>5, <4>6 DEF Earned
    <3> QED
      BY <3>2, <3>3
  <2> QED
    BY <2>5, <2>7, <2>9, <2>10 DEF RecInv
<1> QED
  BY <1>1, <1>2, <1>3, <1>4 DEF Load

\* The other sessions end, and the start is under way.
LEMMA StartStep ==
    ASSUME RecInv, NEW c \in Calls, Start(c)
    PROVE  RecInv'
<1>1. call[c] # Absent /\ call[c] \in Call /\ call[c].op = "start" /\ Equipped(call[c])
  BY DEF Start, RecInv, RecTypeOK, AllEquipped
<1>2. UNCHANGED <<jar, page, asked, codes, newest, proof, wrong, resets, crossed>>
  BY DEF Start
<1> DEFINE l == [call[c] EXCEPT !.step = "loaded"]
<1>3. l \in Call /\ l.step = "loaded" /\ l.op = "start"
  BY <1>1 DEF Call
<1>4. call' = [call EXCEPT ![c] = l]
  BY DEF Start
<1> HIDE DEF l
<1>5. call' \in CallTable /\ call'[c] = l /\ \A d \in Calls : d # c => call'[d] = call[d]
  BY <1>3, <1>4 DEF RecInv, RecTypeOK, CallTable
<1> DEFINE over(s) == [row[s] EXCEPT !.consumed = TRUE, !.state = "EXPIRED"]
<1>6. \A s \in Sessions : row[s] # Absent =>
          over(s) \in Row /\ over(s).consumed /\ over(s).state = "EXPIRED"
          /\ over(s).method = row[s].method
  BY DEF RecInv, RecTypeOK, Row, States
<1>7. row' = [s \in Sessions |-> IF row[s] # Absent /\ ~row[s].consumed THEN over(s) ELSE row[s]]
  BY DEF Start
<1> HIDE DEF over
<1>8. row' \in RowTable
  BY <1>6, <1>7 DEF RecInv, RecTypeOK, RowTable
<1>9. RowsKept /\ \A s \in Sessions : Ended(s)'
  BY <1>6, <1>7, AbsentAssumption DEF RowsKept, Ended
<1>10. overlap' \in BOOLEAN
  BY DEF Start, RecInv, RecTypeOK, Loaded
<1>11. RecTypeOK'
  BY <1>2, <1>5, <1>8, <1>10 DEF RecInv, RecTypeOK, CallTable, RowTable
<1>12. AllEquipped'
  BY <1>3, <1>5, <1>9 DEF RecInv, AllEquipped, Equipped, RowsKept
<1>13. Numbered'
  BY <1>2, <1>9 DEF RecInv, Numbered, RowsKept
<1>14. OthersEnded'
  <2>1. ~overlap' => \A d \in Calls : Starting(d)' => d = c
    BY <1>5 DEF Start, Starting, Loaded
  <2> QED
    BY <1>9, <2>1 DEF OthersEnded
<1>15. AllEarned'
  <2>1. \A d \in Calls, op \in {"reset", "verify"} : Loaded(d, op)' =>
               /\ Loaded(d, op)
               /\ call[d].session' = call[d].session /\ call[d].method' = call[d].method
    BY <1>3, <1>5 DEF Loaded
  <2> QED
    BY <1>2, <1>9, <2>1, EarnedKept DEF RecInv
<1> QED
  BY <1>11, <1>12, <1>13, <1>14, <1>15 DEF RecInv

\* The new session begins where none was.
LEMMA CreateStep ==
    ASSUME RecInv, NEW c \in Calls, Create(c)
    PROVE  RecInv'
<1> DEFINE s == newest + 1
<1> DEFINE r == [state |-> "STARTED", method |-> Absent, code |-> 0,
                 attempts |-> [m \in Methods |-> 0], resends |-> 0,
                 consumed |-> FALSE, late |-> FALSE]
<1>1. call[c] # Absent /\ call[c] \in Call /\ Starting(c) /\ Equipped(call[c])
  BY DEF Create, Starting, Loaded, RecInv, RecTypeOK, AllEquipped
<1>2. UNCHANGED <<jar, page, asked, codes, overlap, proof, wrong, resets, crossed>>
  BY DEF Create
<1>3. s \in Sessions /\ s > newest /\ row[s] = Absent /\ newest' = s
  BY RecoveryAssumption DEF Create, RecInv, RecTypeOK, Sessions, Numbered
<1>4. r \in Row /\ r.state = "STARTED" /\ r # Absent
  <2>1. r \in Row
    BY RecoveryAssumption DEF Row, States
  <2> QED
    BY <2>1, AbsentAssumption
<1>5. row' = [row EXCEPT ![s] = r]
  BY DEF Create
<1> HIDE DEF r
<1>6. row' \in RowTable /\ row'[s] = r /\ \A t \in Sessions : t # s => row'[t] = row[t]
  BY <1>3, <1>4, <1>5 DEF RecInv, RecTypeOK, RowTable
<1> DEFINE l == [call[c] EXCEPT !.step = "ok", !.session = s]
<1>7. l \in Call /\ l.step = "ok" /\ l.op = "start" /\ l.page = call[c].page /\ s \in 0..MaxSessions
  <2>1. s \in 0..MaxSessions
    BY <1>3, RecoveryAssumption DEF Sessions
  <2> QED
    BY <1>1, <2>1 DEF Call, Starting, Loaded
<1>8. call' = [call EXCEPT ![c] = IF call[c].page = Absent THEN Absent ELSE l]
  BY DEF Create
<1> HIDE DEF l
<1>9. /\ call' \in CallTable /\ \A d \in Calls : d # c => call'[d] = call[d]
      /\ call'[c] = Absent \/ (call'[c] = l /\ l.page \in Pages)
  BY <1>1, <1>7, <1>8 DEF RecInv, RecTypeOK, CallTable, Call
<1>10. RecTypeOK'
  BY <1>2, <1>3, <1>6, <1>7, <1>9 DEF RecInv, RecTypeOK, CallTable, RowTable
<1>11. AllEquipped'
  <2> SUFFICES ASSUME NEW d \in Calls, call'[d] # Absent PROVE Equipped(call[d])'
    BY DEF AllEquipped
  <2>1. CASE d = c
    BY <1>7, <1>9, <2>1 DEF Equipped
  <2>2. CASE d # c
    <3>1. call'[d] = call[d] /\ Equipped(call[d])
      BY <1>9, <2>2 DEF RecInv, AllEquipped
    <3>2. \A t \in Sessions : row[t] # Absent => row'[t] # Absent
      BY <1>3, <1>6
    <3> QED
      BY <3>1, <3>2 DEF Equipped
  <2> QED
    BY <2>1, <2>2
<1>12. Numbered'
  <2> SUFFICES ASSUME NEW t \in Sessions, t > s PROVE row'[t] = Absent
    BY <1>3 DEF Numbered
  <2>1. t > newest /\ t # s
    BY <1>3 DEF RecInv, RecTypeOK, Sessions
  <2> QED
    BY <1>6, <2>1 DEF RecInv, Numbered
<1>13. \A d \in Calls : Starting(d)' => Starting(d) /\ d # c
  BY <1>7, <1>9 DEF Starting, Loaded
<1>14. OthersEnded'
  <2> SUFFICES ASSUME ~overlap PROVE OthersEnded'
    BY <1>2 DEF OthersEnded
  <2>1. \A d \in Calls : Starting(d) => d = c
    BY <1>1 DEF RecInv, OthersEnded
  <2>2. \A t \in Sessions : Ended(t)
    BY <1>1 DEF RecInv, OthersEnded
  <2>3. \A t \in Sessions : t # s => Ended(t)'
    BY <1>6, <2>2 DEF Ended
  <2> QED
    BY <1>3, <1>13, <2>1, <2>3 DEF OthersEnded
<1>15. AllEarned'
  <2>1. resets[s] = 0 /\ \A d \in Calls, op \in {"reset", "verify"} : Loaded(d, op) => call[d].session # s
    <3>1. resets[s] = 0
      BY <1>3 DEF RecInv, AllEarned
    <3>2. ASSUME NEW d \in Calls, NEW op \in {"reset", "verify"}, Loaded(d, op)
          PROVE  call[d].session # s
      BY <1>3, <3>2 DEF RecInv, AllEquipped, Equipped, Loaded
    <3> QED
      BY <3>1, <3>2
  <2>2. \A d \in Calls, op \in {"reset", "verify"} : Loaded(d, op)' =>
            Loaded(d, op) /\ call'[d] = call[d]
    BY <1>7, <1>9 DEF Loaded
  <2> SUFFICES ASSUME NEW t \in Sessions, row'[t] # Absent PROVE Earned(t)'
    <3>1. ASSUME NEW t \in Sessions, row'[t] = Absent PROVE resets'[t] = 0
      BY <1>2, <1>3, <1>4, <1>6, <3>1 DEF RecInv, AllEarned
    <3> QED
      BY <3>1 DEF AllEarned
  <2>3. Paying(t)' => Paying(t)
    BY <2>2 DEF Paying
  <2>4. CASE t = s
    BY <1>2, <1>4, <1>6, <2>1, <2>2, <2>4 DEF Earned, Paying
  <2>5. CASE t # s
    <3>1. row'[t] = row[t] /\ Earned(t)
      BY <1>6, <2>5 DEF RecInv, AllEarned
    <3> QED
      BY <1>2, <2>2, <2>3, <3>1 DEF Earned, Backed
  <2> QED
    BY <2>4, <2>5
<1> QED
  BY <1>10, <1>11, <1>12, <1>14, <1>15 DEF RecInv

\* A handler past its awaits has a session to write.
LEMMA HasSession ==
    ASSUME RecInv, NEW c \in Calls, NEW op \in Ops, op # "start", Loaded(c, op)
    PROVE  /\ call[c] # Absent /\ call[c] \in Call /\ Equipped(call[c])
           /\ call[c].session \in Sessions /\ row[call[c].session] # Absent
           /\ row[call[c].session] \in Row /\ Earned(call[c].session)
<1>1. call[c] # Absent /\ call[c] \in Call /\ Equipped(call[c]) /\ call[c].op = op
      /\ call[c].step = "loaded"
  BY DEF Loaded, RecInv, RecTypeOK, AllEquipped
<1>2. call[c].session \in Sessions /\ row[call[c].session] # Absent
  BY <1>1 DEF Equipped
<1> QED
  BY <1>1, <1>2 DEF RecInv, RecTypeOK, AllEarned

\* It answers, and disturbs what is known of that session at most.
LEMMA HandlerKeeps ==
    ASSUME RecInv, NEW c \in Calls, NEW op \in Ops, op # "start", Loaded(c, op),
           NEW s \in Sessions, s = call[c].session,
           NEW r \in Row, row' = [row EXCEPT ![s] = r],
           row[s].consumed => r.consumed,
           NEW how \in {"ok", "refused", "locked"}, Done(c, how),
           UNCHANGED <<jar, page, asked, newest, overlap>>,
           codes' \in 0..MaxCodes, wrong' \in [Sessions -> [Methods -> Nat]],
           proof' \in [Sessions -> SUBSET Methods], resets' \in [Sessions -> Nat],
           crossed' \subseteq Sessions,
           \A t \in Sessions : t # s =>
               /\ proof'[t] = proof[t] /\ resets'[t] = resets[t]
               /\ t \in crossed' <=> t \in crossed,
           Earned(s)'
    PROVE  RecInv'
<1>1. call[c] # Absent /\ row[s] # Absent
  BY HasSession
<1>2. /\ row' \in RowTable
      /\ \A t \in Sessions : row[t] # Absent <=> row'[t] # Absent
      /\ \A t \in Sessions : Ended(t) => Ended(t)'
  BY <1>1, RowWritten DEF RecInv, RecTypeOK, RowTable
<1>3. \A t \in Sessions : t # s => row'[t] = row[t]
  BY DEF RecInv, RecTypeOK
<1>4. call' \in CallTable /\ AllEquipped' /\ LoadedBefore
  BY <1>1, <1>2, DoneKeeps DEF RecInv, RecTypeOK, CallTable
<1>5. RecTypeOK'
  BY <1>2, <1>4 DEF RecInv, RecTypeOK, CallTable, RowTable
<1>6. Numbered' /\ OthersEnded'
  <2>1. \A d \in Calls : Starting(d)' => Starting(d)
    BY <1>4 DEF LoadedBefore, Starting, Ops
  <2> QED
    BY <1>2, <2>1 DEF RecInv, Numbered, OthersEnded
<1>7. AllEarned'
  <2>1. ASSUME NEW t \in Sessions, row'[t] = Absent PROVE resets'[t] = 0
    <3>1. row[t] = Absent /\ t # s
      BY <1>1, <1>2, <2>1
    <3> QED
      BY <3>1 DEF RecInv, AllEarned
  <2>2. ASSUME NEW t \in Sessions, row'[t] # Absent, t # s PROVE Earned(t)'
    <3>1. row'[t] = row[t] /\ Earned(t)
      BY <1>2, <1>3, <2>2 DEF RecInv, AllEarned
    <3>2. Paying(t)' => Paying(t)
      BY <1>4 DEF LoadedBefore, Paying, Ops
    <3>3. \A d \in Calls : Loaded(d, "verify")' => Loaded(d, "verify")
              /\ call[d].session' = call[d].session /\ call[d].method' = call[d].method
      BY <1>4 DEF LoadedBefore, Ops
    <3> QED
      BY <2>2, <3>1, <3>2, <3>3 DEF Earned, Backed
  <2> QED
    BY <2>1, <2>2 DEF AllEarned
<1> QED
  BY <1>4, <1>5, <1>6, <1>7 DEF RecInv

\* A handler that is done is no longer under way; the others are as they were.
LEMMA DoneIsOver ==
    ASSUME RecInv, NEW c \in Calls, call[c] # Absent, NEW how \in {"ok", "refused", "locked"}, Done(c, how)
    PROVE  /\ \A d \in Calls : d # c => call'[d] = call[d]
           /\ \A op \in Ops : ~Loaded(c, op)'
BY DEF Done, Loaded, RecInv, RecTypeOK

\* A choice of method; it may overtake a verification, or come after the answer.
LEMMA SelectStep ==
    ASSUME RecInv, NEW c \in Calls, Select(c)
    PROVE  RecInv'
<1>0. "select" \in Ops /\ Loaded(c, "select") /\ Done(c, "ok") /\ "ok" \in {"ok", "refused", "locked"}
  BY DEF Select, Ops
<1>1. PICK s \in Sessions : s = call[c].session
  BY <1>0, HasSession
<1>2. /\ call[c] # Absent /\ call[c] \in Call /\ Equipped(call[c])
      /\ row[s] # Absent /\ row[s] \in Row /\ Earned(s)
  BY <1>0, <1>1, HasSession
<1>m. PICK m \in Methods : m = call[c].method
  BY <1>0, <1>2 DEF Equipped, Loaded
<1>3. codes' \in 0..MaxCodes
  BY RecoveryAssumption DEF Select, RecInv, RecTypeOK
<1> DEFINE attempts == [row[s].attempts EXCEPT ![m] = 0]
<1> DEFINE code == IF m = "EMAIL_OTP" THEN codes' ELSE row[s].code
<1> DEFINE resends == IF m = "EMAIL_OTP" THEN 0 ELSE row[s].resends
<1> DEFINE r == [row[s] EXCEPT !.state = "METHOD_SELECTED", !.method = m, !.attempts = attempts,
                               !.code = code, !.resends = resends]
<1>4. attempts \in [Methods -> Nat] /\ code \in 0..MaxCodes /\ resends \in Nat
  BY <1>2, <1>3 DEF Row
<1>5. row' = [row EXCEPT ![s] = r]
  BY <1>1, <1>m DEF Select
<1> HIDE DEF attempts, code, resends
<1>6. r \in Row /\ r.consumed = row[s].consumed /\ r.state = "METHOD_SELECTED" /\ r.method = m
  BY <1>2, <1>4 DEF Row, States
<1> HIDE DEF r
<1>7. row'[s] = r
  BY <1>1, <1>5 DEF RecInv, RecTypeOK
<1>8. wrong' \in [Sessions -> [Methods -> Nat]]
  <2>1. [wrong[s] EXCEPT ![m] = 0] \in [Methods -> Nat]
    BY DEF RecInv, RecTypeOK
  <2>2. wrong' = [wrong EXCEPT ![s] = [wrong[s] EXCEPT ![m] = 0]]
    BY <1>1, <1>m DEF Select
  <2> QED
    BY <1>1, <2>1, <2>2 DEF RecInv, RecTypeOK
<1>9. /\ UNCHANGED <<jar, page, asked, newest, overlap, proof, resets>>
      /\ crossed' = IF Verifying(s) \/ row[s].state \notin {"STARTED", "METHOD_SELECTED"}
                    THEN crossed \cup {s} ELSE crossed
  BY <1>1 DEF Select
<1>10. Earned(s)'
  <2>1. Paying(s)' => Paying(s)
    BY <1>0, <1>2, DoneIsOver DEF Paying, Loaded, Ops
  <2>2. Paying(s) \/ resets[s] > 0 => Backed(s) /\ s \in crossed'
    BY <1>2, <1>9 DEF Earned
  <2>3. Backed(s) /\ s \in crossed' => Backed(s)'
    BY <1>9 DEF Backed
  <2>4. ASSUME NEW d \in Calls, Loaded(d, "verify")', call'[d].session = s
        PROVE  s \in crossed'
    <3>1. Verifying(s)
      <4>1. d # c
        BY <1>0, <1>2, <2>4, DoneIsOver DEF Ops
      <4>2. call'[d] = call[d]
        BY <1>0, <1>2, <4>1, DoneIsOver
      <4> QED
        BY <2>4, <4>2 DEF Verifying, Loaded
    <3> QED
      BY <1>9, <3>1
  <2>5. ~(row'[s].state = "AUTHORIZED")
    BY <1>6, <1>7
  <2>6. resets[s] > 0 => s \in crossed'
    BY <2>2
  <2> QED
    BY <1>9, <2>1, <2>2, <2>3, <2>4, <2>5, <2>6 DEF Earned
<1>11. /\ proof' \in [Sessions -> SUBSET Methods] /\ resets' \in [Sessions -> Nat]
       /\ crossed' \subseteq Sessions
       /\ \A t \in Sessions : t # s => /\ proof'[t] = proof[t] /\ resets'[t] = resets[t]
                                       /\ t \in crossed' <=> t \in crossed
  BY <1>9 DEF RecInv, RecTypeOK
<1> QED
  BY <1>0, <1>1, <1>2, <1>3, <1>5, <1>6, <1>8, <1>9, <1>10, <1>11, HandlerKeeps

\* The verifications and the resets under way, other than this handler's.
LEMMA OthersGoOn ==
    ASSUME RecInv, NEW c \in Calls, NEW own \in Ops, Loaded(c, own),
           NEW how \in {"ok", "refused", "locked"}, Done(c, how)
    PROVE  \A d \in Calls, op \in {"reset", "verify"} : Loaded(d, op)' =>
               Loaded(d, op) /\ call'[d] = call[d] /\ d # c
<1>1. call[c] # Absent
  BY DEF Loaded
<1>2. SUFFICES ASSUME NEW d \in Calls, NEW op \in {"reset", "verify"}, Loaded(d, op)'
               PROVE  Loaded(d, op) /\ call'[d] = call[d] /\ d # c
  OBVIOUS
<1>3. d # c
  BY <1>1, <1>2, DoneIsOver DEF Ops
<1> QED
  BY <1>1, <1>2, <1>3, DoneIsOver DEF Loaded

\* Another code.
LEMMA SendAgainStep ==
    ASSUME RecInv, NEW c \in Calls, SendAgain(c)
    PROVE  RecInv'
<1>0. "resend" \in Ops /\ Loaded(c, "resend") /\ Done(c, "ok") /\ "ok" \in {"ok", "refused", "locked"}
  BY DEF SendAgain, Ops
<1>1. PICK s \in Sessions : s = call[c].session
  BY <1>0, HasSession
<1>2. row[s] \in Row /\ Earned(s)
  BY <1>0, <1>1, HasSession
<1>3. codes' = codes + 1 /\ codes' \in 0..MaxCodes /\ "EMAIL_OTP" \in Methods
  BY RecoveryAssumption DEF SendAgain, RecInv, RecTypeOK, Methods
<1> DEFINE attempts == [row[s].attempts EXCEPT !["EMAIL_OTP"] = 0]
<1> DEFINE r == [row[s] EXCEPT !.attempts = attempts, !.code = codes + 1, !.resends = row[s].resends + 1]
<1>4. attempts \in [Methods -> Nat] /\ codes + 1 \in 0..MaxCodes /\ row[s].resends + 1 \in Nat
  BY <1>2, <1>3 DEF Row
<1>5. row' = [row EXCEPT ![s] = r]
  BY <1>1 DEF SendAgain
<1> HIDE DEF attempts
<1>6. r \in Row /\ r.consumed = row[s].consumed /\ r.state = row[s].state /\ r.method = row[s].method
  BY <1>2, <1>4 DEF Row
<1> HIDE DEF r
<1>7. row'[s] = r
  BY <1>1, <1>5 DEF RecInv, RecTypeOK
<1>8. wrong' \in [Sessions -> [Methods -> Nat]]
  <2>1. [wrong[s] EXCEPT !["EMAIL_OTP"] = 0] \in [Methods -> Nat]
    BY <1>3 DEF RecInv, RecTypeOK
  <2>2. wrong' = [wrong EXCEPT ![s] = [wrong[s] EXCEPT !["EMAIL_OTP"] = 0]]
    BY <1>1 DEF SendAgain
  <2> QED
    BY <1>1, <2>1, <2>2 DEF RecInv, RecTypeOK
<1>9. UNCHANGED <<jar, page, asked, newest, overlap, proof, resets, crossed>>
  BY DEF SendAgain
<1>10. Earned(s)'
  <2>1. \A d \in Calls, op \in {"reset", "verify"} : Loaded(d, op)' =>
            Loaded(d, op) /\ call'[d] = call[d]
    BY <1>0, OthersGoOn
  <2>2. Paying(s)' => Paying(s)
    BY <2>1 DEF Paying
  <2>3. Backed(s)' <=> Backed(s)
    BY <1>6, <1>7, <1>9 DEF Backed
  <2> QED
    BY <1>2, <1>6, <1>7, <1>9, <2>1, <2>2, <2>3 DEF Earned
<1>11. /\ proof' \in [Sessions -> SUBSET Methods] /\ resets' \in [Sessions -> Nat]
       /\ crossed' \subseteq Sessions
       /\ \A t \in Sessions : t # s => /\ proof'[t] = proof[t] /\ resets'[t] = resets[t]
                                       /\ t \in crossed' <=> t \in crossed
  BY <1>9 DEF RecInv, RecTypeOK
<1> QED
  BY <1>0, <1>1, <1>3, <1>5, <1>6, <1>8, <1>9, <1>10, <1>11, HandlerKeeps

\* An answer is judged.
LEMMA VerifyStep ==
    ASSUME RecInv, NEW c \in Calls, Verify(c)
    PROVE  RecInv'
<1>0. "verify" \in Ops /\ Loaded(c, "verify") /\ {"ok", "refused"} \subseteq {"ok", "refused", "locked"}
  BY DEF Verify, Ops
<1>1. PICK s \in Sessions : s = call[c].session
  BY <1>0, HasSession
<1>2. row[s] \in Row /\ Earned(s)
  BY <1>0, <1>1, HasSession
<1>3. PICK m \in Methods : m = call[c].method
  BY <1>0, HasSession DEF Equipped, Loaded
<1>4. UNCHANGED <<jar, page, asked, codes, newest, overlap, resets, crossed>>
  BY DEF Verify
<1>5. s \in crossed \/ row[s].method = m
  BY <1>0, <1>1, <1>2, <1>3 DEF Earned
<1>6. codes' \in 0..MaxCodes /\ resets' \in [Sessions -> Nat] /\ crossed' \subseteq Sessions
      /\ \A t \in Sessions : resets'[t] = resets[t] /\ (t \in crossed' <=> t \in crossed)
  BY <1>4 DEF RecInv, RecTypeOK
<1>7. CASE Right(call[c])
  <2> DEFINE attempts == [row[s].attempts EXCEPT ![m] = 0]
  <2> DEFINE code == IF m = "EMAIL_OTP" THEN 0 ELSE row[s].code
  <2> DEFINE r == [row[s] EXCEPT !.state = "AUTHORIZED", !.attempts = attempts, !.code = code]
  <2>1. attempts \in [Methods -> Nat] /\ code \in 0..MaxCodes
    BY <1>2, RecoveryAssumption DEF Row
  <2>2. row' = [row EXCEPT ![s] = r]
    BY <1>1, <1>3, <1>7 DEF Verify
  <2> HIDE DEF attempts, code
  <2>3. r \in Row /\ r.consumed = row[s].consumed /\ r.state = "AUTHORIZED" /\ r.method = row[s].method
    BY <1>2, <2>1 DEF Row, States
  <2> HIDE DEF r
  <2>4. row'[s] = r
    BY <1>1, <2>2 DEF RecInv, RecTypeOK
  <2>5. proof' = [proof EXCEPT ![s] = proof[s] \cup {m}] /\ Done(c, "ok") /\ wrong' = wrong
    BY <1>1, <1>3, <1>7 DEF Verify
  <2>6. /\ proof' \in [Sessions -> SUBSET Methods] /\ wrong' \in [Sessions -> [Methods -> Nat]]
        /\ proof'[s] = proof[s] \cup {m} /\ \A t \in Sessions : t # s => proof'[t] = proof[t]
    BY <2>5 DEF RecInv, RecTypeOK
  <2>7. Earned(s)'
    <3>1. \A d \in Calls, op \in {"reset", "verify"} : Loaded(d, op)' =>
              Loaded(d, op) /\ call'[d] = call[d]
      BY <1>0, <2>5, OthersGoOn
    <3>2. Paying(s)' => Paying(s)
      BY <3>1 DEF Paying
    <3>3. Backed(s)'
      BY <1>4, <1>5, <2>3, <2>4, <2>6 DEF Backed
    <3> QED
      BY <1>2, <1>4, <2>3, <2>4, <3>1, <3>2, <3>3 DEF Earned
  <2>8. /\ UNCHANGED <<jar, page, asked, newest, overlap>> /\ "ok" \in {"ok", "refused", "locked"}
        /\ Done(c, "ok") /\ (row[s].consumed => r.consumed)
        /\ \A t \in Sessions : t # s => /\ proof'[t] = proof[t] /\ resets'[t] = resets[t]
                                        /\ t \in crossed' <=> t \in crossed
    BY <1>4, <1>6, <2>3, <2>5, <2>6
  <2>9. r \in Row /\ proof' \in [Sessions -> SUBSET Methods] /\ wrong' \in [Sessions -> [Methods -> Nat]]
    BY <2>3, <2>6
  <2>10. "verify" # "start" /\ "verify" \in Ops /\ Loaded(c, "verify")
    BY <1>0
  <2> QED
    BY <1>1, <1>6, <2>2, <2>7, <2>8, <2>9, <2>10, HandlerKeeps
<1>8. CASE ~Right(call[c])
  <2> DEFINE attempts == [row[s].attempts EXCEPT ![m] = row[s].attempts[m] + 1]
  <2> DEFINE r == [row[s] EXCEPT !.attempts = attempts]
  <2>1. attempts \in [Methods -> Nat]
    BY <1>2 DEF Row
  <2>2. row' = [row EXCEPT ![s] = r]
    BY <1>1, <1>3, <1>8 DEF Verify
  <2> HIDE DEF attempts
  <2>3. r \in Row /\ r.consumed = row[s].consumed /\ r.state = row[s].state /\ r.method = row[s].method
    BY <1>2, <2>1 DEF Row
  <2> HIDE DEF r
  <2>4. row'[s] = r
    BY <1>1, <2>2 DEF RecInv, RecTypeOK
  <2>5. /\ wrong' = [wrong EXCEPT ![s] = [wrong[s] EXCEPT ![m] = wrong[s][m] + 1]]
        /\ Done(c, "refused") /\ proof' = proof
    BY <1>1, <1>3, <1>8 DEF Verify, RecInv, RecTypeOK
  <2>6. wrong' \in [Sessions -> [Methods -> Nat]] /\ proof' \in [Sessions -> SUBSET Methods]
    <3>1. [wrong[s] EXCEPT ![m] = wrong[s][m] + 1] \in [Methods -> Nat]
      BY DEF RecInv, RecTypeOK
    <3> QED
      BY <1>1, <2>5, <3>1 DEF RecInv, RecTypeOK
  <2>7. Earned(s)'
    <3>1. \A d \in Calls, op \in {"reset", "verify"} : Loaded(d, op)' =>
              Loaded(d, op) /\ call'[d] = call[d]
      BY <1>0, <2>5, OthersGoOn
    <3>2. Paying(s)' => Paying(s)
      BY <3>1 DEF Paying
    <3>3. Backed(s)' <=> Backed(s)
      BY <1>4, <2>3, <2>4, <2>5 DEF Backed
    <3> QED
      BY <1>2, <1>4, <2>3, <2>4, <3>1, <3>2, <3>3 DEF Earned
  <2> QED
    BY <1>0, <1>1, <1>4, <1>6, <2>2, <2>3, <2>5, <2>6, <2>7, HandlerKeeps
<1> QED
  BY <1>7, <1>8

\* A password is set.
LEMMA ResetStep ==
    ASSUME RecInv, NEW c \in Calls, Reset(c)
    PROVE  RecInv'
<1>0. "reset" \in Ops /\ Loaded(c, "reset") /\ Done(c, "ok") /\ "ok" \in {"ok", "refused", "locked"}
  BY DEF Reset, Ops
<1>1. PICK s \in Sessions : s = call[c].session
  BY <1>0, HasSession
<1>2. row[s] \in Row /\ Earned(s) /\ Paying(s)
  BY <1>0, <1>1, HasSession DEF Paying
<1> DEFINE r == [row[s] EXCEPT !.state = "COMPLETED", !.consumed = TRUE]
<1>3. row' = [row EXCEPT ![s] = r]
  BY <1>1 DEF Reset
<1>4. r \in Row /\ r.consumed = TRUE /\ r.state = "COMPLETED" /\ r.method = row[s].method
  BY <1>2 DEF Row, States
<1> HIDE DEF r
<1>5. row'[s] = r
  BY <1>1, <1>3 DEF RecInv, RecTypeOK
<1>6. /\ UNCHANGED <<jar, page, asked, codes, newest, overlap, proof, wrong>>
      /\ resets' = [resets EXCEPT ![s] = resets[s] + 1]
      /\ crossed' = IF \E d \in Calls \ {c} : Loaded(d, "reset") /\ call[d].session = s
                    THEN crossed \cup {s} ELSE crossed
  BY <1>1 DEF Reset, RecInv, RecTypeOK
<1>7. /\ codes' \in 0..MaxCodes /\ wrong' \in [Sessions -> [Methods -> Nat]]
      /\ proof' \in [Sessions -> SUBSET Methods] /\ resets' \in [Sessions -> Nat]
      /\ crossed' \subseteq Sessions /\ resets'[s] = resets[s] + 1 /\ resets[s] \in Nat
      /\ \A t \in Sessions : t # s => /\ proof'[t] = proof[t] /\ resets'[t] = resets[t]
                                      /\ t \in crossed' <=> t \in crossed
  BY <1>6 DEF RecInv, RecTypeOK
<1>8. Earned(s)'
  <2>1. \A d \in Calls, op \in {"reset", "verify"} : Loaded(d, op)' =>
            Loaded(d, op) /\ call'[d] = call[d] /\ d # c
    BY <1>0, OthersGoOn
  <2>2. Backed(s)'
    BY <1>2, <1>4, <1>5, <1>6 DEF Earned, Backed
  <2>3. ASSUME s \notin crossed' PROVE resets'[s] = 1 /\ ~Paying(s)'
    <3>1. s \notin crossed /\ ~\E d \in Calls \ {c} : Loaded(d, "reset") /\ call[d].session = s
      BY <1>6, <2>3
    <3>2. ~(resets[s] > 0)
      BY <1>2, <3>1 DEF Earned
    <3>3. ~Paying(s)'
      BY <2>1, <3>1 DEF Paying
    <3> QED
      BY <1>7, <3>2, <3>3
  <2>4. \A d \in Calls : Loaded(d, "verify")' /\ call'[d].session = s =>
            s \in crossed' \/ row'[s].method = call'[d].method
    BY <1>2, <1>4, <1>5, <1>6, <2>1 DEF Earned
  <2> QED
    BY <1>4, <1>5, <2>2, <2>3, <2>4 DEF Earned
<1> QED
  BY <1>0, <1>1, <1>3, <1>4, <1>6, <1>7, <1>8, HandlerKeeps

-----------------------------------------------------------------------------
(* The theorems *)

LEMMA InvInit == RecInit => RecInv
<1> SUFFICES ASSUME RecInit PROVE RecInv
  OBVIOUS
<1>1. RecTypeOK
  BY RecInitTypes
<1>2. AllEquipped /\ Numbered /\ OthersEnded /\ AllEarned
  BY DEF RecInit, AllEquipped, Numbered, OthersEnded, AllEarned, Starting, Loaded, Ended
<1> QED
  BY <1>1, <1>2 DEF RecInv

LEMMA InvStep == RecInv /\ [RecNext]_recVars => RecInv'
<1> SUFFICES ASSUME RecInv, [RecNext]_recVars PROVE RecInv'
  OBVIOUS
<1>1. CASE UNCHANGED recVars
  BY <1>1 DEF recVars, RecInv, RecTypeOK, AllEquipped, Equipped, Numbered, OthersEnded, Ended,
              Starting, Loaded, AllEarned, Earned, Backed, Paying
<1>2. ASSUME NEW p \in Pages, FromPage(p) PROVE RecInv'
  BY <1>2, PageStep
<1>3. ASSUME NEW c \in Calls, Handler(c) PROVE RecInv'
  BY <1>3, LoadStep, StartStep, CreateStep, SelectStep, SendAgainStep, VerifyStep, ResetStep
     DEF Handler
<1>4. ASSUME NEW c \in Calls, Answer(c) \/ GiveUp(c) PROVE RecInv'
  BY <1>4, AnswerStep
<1>5. ASSUME NEW s \in Sessions, Age(s) PROVE RecInv'
  BY <1>5, AgeStep
<1> QED
  BY <1>1, <1>2, <1>3, <1>4, <1>5 DEF RecNext

LEMMA AlwaysInv == RecSpec => []RecInv
BY InvInit, InvStep, PTL DEF RecSpec

\* RecoverySession and its pages stay what auth.routes.ts and the page declare.
THEOREM RecTypeCorrect == RecSpec => []RecTypeOK
<1>1. RecInv => RecTypeOK
  BY DEF RecInv
<1> QED
  BY <1>1, AlwaysInv, PTL

\* Only the newest session is active, whatever older pages and late handlers do
\* (auth.routes.ts:933-951), unless two starts overlapped.
THEOREM NewestOnly == RecSpec => []OnlyNewest
<1>1. RecInv => OnlyNewest
  BY DEF RecInv, OthersEnded, Ended, OnlyNewest, Active
<1> QED
  BY <1>1, AlwaysInv, PTL

\* A session pays for one password, with a right answer to the method it names
\* (auth.routes.ts:1193-1226).
THEOREM ResetsAreEarned == RecSpec => []ResetIsEarned
<1>1. RecInv => ResetIsEarned
  <2> SUFFICES ASSUME RecInv, NEW s \in Sessions, resets[s] > 0
               PROVE  proof[s] # {} /\ (s \in crossed \/ (row[s].method \in proof[s] /\ resets[s] = 1))
    BY DEF ResetIsEarned
  <2>1. Earned(s)
    BY DEF RecInv, AllEarned, RecTypeOK
  <2> QED
    BY <2>1 DEF Earned, Backed
<1> QED
  BY <1>1, AlwaysInv, PTL

-----------------------------------------------------------------------------
(* Recovery: how many answers can be guessed *)

\* The verifications under way that will judge an answer to method m of session s.
Judging(s, m) == {c \in Calls : Loaded(c, "verify") /\ call[c].session = s /\ call[c].method = m}

\* The wrong answers that were judged and those that may still be are bounded, and
\* the row of a session whose method is chosen has counted the wrong ones.
Guessed(s, m) ==
    /\ wrong[s][m] + Cardinality(Judging(s, m)) <= MaxAttempts - 1 + Cardinality(Calls)
    /\ row[s] # Absent /\ row[s].state = "METHOD_SELECTED" /\ row[s].method = m =>
          wrong[s][m] <= row[s].attempts[m]

AllGuessed == \A s \in Sessions, m \in Methods : Guessed(s, m)

\* No step but a verification's own read makes it judge.
JudgedBefore ==
    \A d \in Calls : Loaded(d, "verify")' =>
        /\ Loaded(d, "verify")
        /\ call'[d].session = call[d].session /\ call'[d].method = call[d].method

\* The chosen methods and what is counted for them stay.
ChoicesKept ==
    \A s \in Sessions : row'[s] # Absent /\ row'[s].state = "METHOD_SELECTED" =>
        /\ row[s] # Absent /\ row[s].state = "METHOD_SELECTED"
        /\ row'[s].method = row[s].method /\ row'[s].attempts = row[s].attempts

\* The verifications under way are some of the finitely many requests.
LEMMA JudgingSize ==
    ASSUME NEW s, NEW m
    PROVE  /\ IsFiniteSet(Judging(s, m)) /\ Cardinality(Judging(s, m)) \in Nat
           /\ Cardinality(Judging(s, m)) <= Cardinality(Calls) /\ Cardinality(Calls) \in Nat
<1>1. Judging(s, m) \in SUBSET Calls
  BY DEF Judging
<1> QED
  BY <1>1, RecoveryAssumption, FS_Subset, FS_CardinalityType

\* The same after a step.
LEMMA JudgingSizeNext ==
    ASSUME NEW s, NEW m
    PROVE  /\ IsFiniteSet(Judging(s, m)') /\ Cardinality(Judging(s, m)') \in Nat
           /\ Cardinality(Judging(s, m)') <= Cardinality(Calls) /\ Cardinality(Calls) \in Nat
<1>1. Judging(s, m)' \in SUBSET Calls
  BY DEF Judging
<1> QED
  BY <1>1, RecoveryAssumption, FS_Subset, FS_CardinalityType

LEMMA FewerJudge ==
    ASSUME JudgedBefore, NEW s, NEW m
    PROVE  Cardinality(Judging(s, m)') <= Cardinality(Judging(s, m))
<1>1. Judging(s, m)' \in SUBSET Judging(s, m)
  BY DEF Judging, JudgedBefore, Loaded
<1> QED
  BY <1>1, JudgingSize, FS_Subset

\* Most steps judge nothing and count nothing.
LEMMA UncountedStep ==
    ASSUME RecTypeOK, AllGuessed, wrong' = wrong, JudgedBefore, ChoicesKept
    PROVE  AllGuessed'
<1> SUFFICES ASSUME NEW s \in Sessions, NEW m \in Methods PROVE Guessed(s, m)'
  BY DEF AllGuessed
<1>1. Guessed(s, m) /\ wrong[s][m] \in Nat
  BY DEF AllGuessed, RecTypeOK
<1>2. wrong[s][m] + Cardinality(Judging(s, m)') <= MaxAttempts - 1 + Cardinality(Calls)
  BY <1>1, FewerJudge, JudgingSize, JudgingSizeNext, RecoveryAssumption DEF Guessed
<1>3. (row[s] # Absent /\ row[s].state = "METHOD_SELECTED" /\ row[s].method = m)' =>
          wrong[s][m] <= row'[s].attempts[m]
  BY <1>1 DEF Guessed, ChoicesKept
<1> QED
  BY <1>2, <1>3 DEF Guessed

\* The handlers that end a wait without a verdict.
LEMMA DoneJudges ==
    ASSUME RecInv, NEW c \in Calls, call[c] # Absent, NEW how \in {"ok", "refused", "locked"}, Done(c, how)
    PROVE  JudgedBefore
BY DoneIsOver DEF JudgedBefore, Loaded, Ops

\* What the user does on a page, and the answers.
LEMMA PageUncounted ==
    ASSUME RecInv, (\E p \in Pages : FromPage(p)) \/ \E c \in Calls : Answer(c) \/ GiveUp(c)
    PROVE  wrong' = wrong /\ row' = row /\ JudgedBefore
<1> USE DEF RecInv, RecTypeOK
<1>1. ASSUME NEW c \in Calls, NEW p, NEW o, NEW m, NEW a, Request(c, p, o, m, a)
      PROVE  wrong' = wrong /\ row' = row /\ JudgedBefore
  BY <1>1 DEF Request, JudgedBefore, Loaded, history
<1>2. ASSUME NEW p \in Pages, NEW c \in Calls,
             \/ SubmitEmail(p, c) \/ ChooseMethod(p, c) \/ Resend(p, c)
             \/ SubmitAnswer(p, c) \/ SubmitPassword(p, c)
      PROVE  wrong' = wrong /\ row' = row /\ JudgedBefore
  BY <1>1, <1>2 DEF SubmitEmail, ChooseMethod, Resend, SubmitAnswer, SubmitPassword
<1>3. ASSUME NEW p \in Pages, BackToMethods(p) \/ StartOver(p)
      PROVE  wrong' = wrong /\ row' = row /\ JudgedBefore
  BY <1>3 DEF BackToMethods, StartOver, rowVars, history, JudgedBefore, Loaded
<1>4. ASSUME NEW k \in Call
      PROVE  LET l == [k EXCEPT !.page = Absent]
             IN l.op = k.op /\ l.step = k.step /\ l.session = k.session /\ l.method = k.method
  BY DEF Call
<1>5. ASSUME NEW p \in Pages, Leave(p) PROVE wrong' = wrong /\ row' = row /\ JudgedBefore
  <2>1. \A c \in Calls : \/ call'[c] = call[c]
                         \/ call'[c] = Absent
                         \/ call[c] # Absent /\ call'[c] = [call[c] EXCEPT !.page = Absent]
    BY <1>5 DEF Leave
  <2> QED
    BY <1>4, <1>5, <2>1 DEF Leave, rowVars, history, JudgedBefore, Loaded
<1>6. ASSUME NEW c \in Calls, GiveUp(c) PROVE wrong' = wrong /\ row' = row /\ JudgedBefore
  <2>1. \A d \in Calls : \/ call'[d] = call[d]
                         \/ call'[d] = Absent
                         \/ call[d] # Absent /\ call'[d] = [call[d] EXCEPT !.page = Absent]
    BY <1>6 DEF GiveUp
  <2> QED
    BY <1>4, <1>6, <2>1 DEF GiveUp, rowVars, history, JudgedBefore, Loaded
<1>7. ASSUME NEW c \in Calls, Answer(c) PROVE wrong' = wrong /\ row' = row /\ JudgedBefore
  BY <1>7 DEF Answer, rowVars, history, JudgedBefore, Loaded
<1> QED
  BY <1>2, <1>3, <1>5, <1>6, <1>7 DEF FromPage

\* A start, a reset and time end what they write.
LEMMA EndingStep ==
    ASSUME RecInv, AllGuessed,
           \/ \E c \in Calls : Start(c) \/ Create(c) \/ Reset(c)
           \/ \E s \in Sessions : Age(s)
    PROVE  AllGuessed'
<1>0. RecTypeOK
  BY DEF RecInv
<1>1. ASSUME NEW c \in Calls, Start(c) PROVE wrong' = wrong /\ JudgedBefore /\ ChoicesKept
  <2>1. call[c].op = "start" /\ call[c] \in Call /\ call' = [call EXCEPT ![c].step = "loaded"]
    BY <1>0, <1>1 DEF Start, RecTypeOK
  <2>2. call'[c].op = "start" /\ \A d \in Calls : d # c => call'[d] = call[d]
    BY <1>0, <2>1 DEF RecTypeOK, Call
  <2>3. JudgedBefore
    BY <2>2 DEF JudgedBefore, Loaded
  <2>4. \A s \in Sessions : row'[s] = row[s] \/ row'[s] = [row[s] EXCEPT !.consumed = TRUE, !.state = "EXPIRED"]
    BY <1>1 DEF Start
  <2>5. \A s \in Sessions : row[s] # Absent =>
            [row[s] EXCEPT !.consumed = TRUE, !.state = "EXPIRED"].state = "EXPIRED"
    BY <1>0 DEF RecTypeOK, Row
  <2>6. \A s \in Sessions : row[s] = Absent => row'[s] = row[s]
    BY <1>1 DEF Start
  <2>7. ChoicesKept
    BY <2>4, <2>5, <2>6 DEF ChoicesKept
  <2> QED
    BY <1>1, <2>3, <2>7 DEF Start
<1>2. ASSUME NEW c \in Calls, Create(c) PROVE wrong' = wrong /\ JudgedBefore /\ ChoicesKept
  <2>0. newest \in 0..MaxSessions /\ newest < MaxSessions /\ MaxSessions \in Nat
    BY <1>0, <1>2, RecoveryAssumption DEF Create, RecTypeOK
  <2>1. call[c].op = "start" /\ call[c] \in Call /\ newest + 1 \in Sessions
    <3>1. newest + 1 \in Sessions
      BY <2>0 DEF Sessions
    <3> QED
      BY <1>0, <1>2, <3>1 DEF Create, RecTypeOK
  <2>2. /\ call'[c] = Absent \/ call'[c].op = "start"
        /\ \A d \in Calls : d # c => call'[d] = call[d]
    <3>1. call' = [call EXCEPT ![c] = IF call[c].page = Absent THEN Absent
                                      ELSE [call[c] EXCEPT !.step = "ok", !.session = newest + 1]]
      BY <1>2 DEF Create
    <3>2. [call[c] EXCEPT !.step = "ok", !.session = newest + 1].op = "start"
      BY <2>1 DEF Call
    <3> QED
      BY <1>0, <3>1, <3>2 DEF RecTypeOK
  <2>3. JudgedBefore
    BY <2>2 DEF JudgedBefore, Loaded
  <2>4. row'[newest + 1].state = "STARTED" /\ \A s \in Sessions : s # newest + 1 => row'[s] = row[s]
    BY <1>0, <1>2, <2>1 DEF Create, RecTypeOK
  <2>5. ChoicesKept
    BY <2>4 DEF ChoicesKept
  <2> QED
    BY <1>2, <2>3, <2>5 DEF Create
<1>3. ASSUME NEW c \in Calls, Reset(c) PROVE wrong' = wrong /\ JudgedBefore /\ ChoicesKept
  <2>0. "reset" \in Ops /\ Loaded(c, "reset") /\ Done(c, "ok") /\ wrong' = wrong
    BY <1>3 DEF Reset, Ops
  <2>1. PICK s \in Sessions : s = call[c].session
    BY <2>0, HasSession
  <2>2. row[s] \in Row /\ call[c] # Absent
    BY <2>0, <2>1, HasSession
  <2>3. row' = [row EXCEPT ![s] = [row[s] EXCEPT !.state = "COMPLETED", !.consumed = TRUE]]
    BY <1>3, <2>1 DEF Reset
  <2>4. row'[s].state = "COMPLETED" /\ \A t \in Sessions : t # s => row'[t] = row[t]
    BY <1>0, <2>2, <2>3 DEF RecTypeOK, Row
  <2>5. ChoicesKept
    BY <2>4 DEF ChoicesKept
  <2> QED
    BY <2>0, <2>2, <2>5, DoneJudges
<1>4. ASSUME NEW s \in Sessions, Age(s) PROVE wrong' = wrong /\ JudgedBefore /\ ChoicesKept
  <2>1. row' = [row EXCEPT ![s] = [row[s] EXCEPT !.late = TRUE]] /\ row[s] \in Row
    BY <1>0, <1>4 DEF Age, RecTypeOK
  <2>2. [row[s] EXCEPT !.late = TRUE].state = row[s].state
        /\ [row[s] EXCEPT !.late = TRUE].method = row[s].method
        /\ [row[s] EXCEPT !.late = TRUE].attempts = row[s].attempts
    BY <2>1 DEF Row
  <2>3. ChoicesKept
    BY <1>0, <1>4, <2>1, <2>2 DEF ChoicesKept, RecTypeOK, Age
  <2> QED
    BY <1>4, <2>3 DEF Age, history, JudgedBefore, Loaded
<1> QED
  BY <1>0, <1>1, <1>2, <1>3, <1>4, UncountedStep

\* The read of a verification checks the counter, so its answer is still to be had.
LEMMA LoadGuesses ==
    ASSUME RecInv, AllGuessed, NEW c \in Calls, Load(c)
    PROVE  AllGuessed'
<1> DEFINE s == call[c].session
<1>0. /\ RecTypeOK /\ call[c] # Absent /\ call[c] \in Call /\ wrong' = wrong
      /\ Equipped(call[c]) /\ s \in 0..MaxSessions /\ call[c].op \in Ops
  BY DEF Load, RecInv, RecTypeOK, AllEquipped, Call, history
<1>1. ASSUME NEW how \in {"ok", "refused", "locked"}, Done(c, how),
             \/ row' = row
             \/ s \in Sessions /\ row[s] # Absent /\ row' = [row EXCEPT ![s].state = "LOCKED"]
             \/ s \in Sessions /\ row[s] # Absent /\ row' = [row EXCEPT ![s].state = "EXPIRED"]
      PROVE  AllGuessed'
  <2>1. JudgedBefore
    BY <1>0, <1>1, DoneJudges
  <2>2. ASSUME NEW v \in {"LOCKED", "EXPIRED"}, s \in Sessions, row[s] # Absent, row' = [row EXCEPT ![s].state = v]
        PROVE  ChoicesKept
    <3>1. row[s] \in Row
      BY <1>0, <2>2 DEF RecTypeOK
    <3>2. row'[s].state = v /\ \A t \in Sessions : t # s => row'[t] = row[t]
      BY <1>0, <2>2, <3>1 DEF RecTypeOK, Row
    <3> QED
      BY <3>2 DEF ChoicesKept
  <2>3. ChoicesKept
    BY <1>1, <2>2 DEF ChoicesKept
  <2> QED
    BY <1>0, <2>1, <2>3, UncountedStep
<1>2. CASE /\ Active(s) /\ Admits(call[c], row[s]) /\ ~Exhausted(call[c], row[s]) /\ UNCHANGED row
           /\ call' = [call EXCEPT ![c].step = "loaded",
                  ![c].code = IF call[c].op = "verify" /\ call[c].method = "EMAIL_OTP"
                              THEN row[s].code ELSE 0]
  <2>1. s \in Sessions /\ row[s] # Absent /\ row[s] \in Row
    BY <1>0, <1>2, ActiveExists DEF RecTypeOK
  <2>2. /\ call'[c].op = call[c].op /\ call'[c].session = s /\ call'[c].method = call[c].method
        /\ \A d \in Calls : d # c => call'[d] = call[d]
    BY <1>0, <1>2 DEF RecTypeOK, Call
  <2>3. CASE call[c].op # "verify"
    BY <1>0, <1>2, <2>2, <2>3, UncountedStep DEF JudgedBefore, ChoicesKept, Loaded
  <2>4. CASE call[c].op = "verify"
    <3>1. call[c].method \in Methods
      BY <1>0, <2>4 DEF Equipped
    <3>2. row[s].state = "METHOD_SELECTED" /\ row[s].method = call[c].method
      BY <1>2, <2>4 DEF Admits
    <3>3. row[s].attempts[call[c].method] < MaxAttempts /\ row[s].attempts[call[c].method] \in Nat
      BY <1>2, <2>1, <2>4, <3>1, RecoveryAssumption DEF Exhausted, Row
    <3> SUFFICES ASSUME NEW t \in Sessions, NEW m \in Methods PROVE Guessed(t, m)'
      BY DEF AllGuessed
    <3>4. Guessed(t, m) /\ wrong[t][m] \in Nat
      BY <1>0 DEF AllGuessed, RecTypeOK
    <3>5. wrong[t][m] + Cardinality(Judging(t, m)') <= MaxAttempts - 1 + Cardinality(Calls)
      <4>1. CASE t = s /\ m = call[c].method
        BY <2>1, <3>2, <3>3, <3>4, <4>1, JudgingSizeNext, RecoveryAssumption DEF Guessed
      <4>2. CASE ~(t = s /\ m = call[c].method)
        <5>1. Judging(t, m)' \in SUBSET Judging(t, m)
          BY <2>2, <4>2 DEF Judging, Loaded
        <5>2. Cardinality(Judging(t, m)') <= Cardinality(Judging(t, m))
          BY <5>1, JudgingSize, FS_Subset
        <5> QED
          BY <3>4, <5>2, JudgingSize, JudgingSizeNext, RecoveryAssumption DEF Guessed
      <4> QED
        BY <4>1, <4>2
    <3> QED
      BY <1>0, <1>2, <3>4, <3>5 DEF Guessed
  <2> QED
    BY <2>3, <2>4
<1>3. CASE ~Active(s) /\ Done(c, "refused")
           /\ row' = IF s # 0 /\ row[s] # Absent /\ row[s].late /\ ~row[s].consumed
                        /\ row[s].state # "LOCKED"
                     THEN [row EXCEPT ![s].state = "EXPIRED"] ELSE row
  <2>1. s # 0 => s \in Sessions
    BY <1>0, RecoveryAssumption DEF Sessions
  <2> QED
    BY <1>1, <1>3, <2>1
<1>4. CASE Active(s) /\ Done(c, "locked") /\ row' = [row EXCEPT ![s].state = "LOCKED"]
  BY <1>0, <1>1, <1>4, ActiveExists
<1>5. CASE Done(c, "refused") /\ UNCHANGED row
  BY <1>1, <1>5
<1> QED
  BY <1>2, <1>3, <1>4, <1>5 DEF Load

\* A choice of method or a new code starts the count anew.
LEMMA AnewGuesses ==
    ASSUME RecInv, AllGuessed, NEW s \in Sessions, NEW m \in Methods,
           row[s] # Absent, wrong' = [wrong EXCEPT ![s][m] = 0], JudgedBefore,
           \A t \in Sessions : t # s => row'[t] = row[t],
           row'[s].state = "METHOD_SELECTED" =>
               \/ row'[s].method = m /\ row'[s].attempts[m] = 0
               \/ /\ row[s].state = "METHOD_SELECTED" /\ row'[s].method = row[s].method
                  /\ \A n \in Methods : n # m => row'[s].attempts[n] = row[s].attempts[n]
                  /\ row'[s].attempts[m] = 0
    PROVE  AllGuessed'
<1> SUFFICES ASSUME NEW t \in Sessions, NEW n \in Methods PROVE Guessed(t, n)'
  BY DEF AllGuessed
<1>0. wrong \in [Sessions -> [Methods -> Nat]] /\ MaxAttempts \in Nat /\ MaxAttempts >= 1
  BY RecoveryAssumption DEF RecInv, RecTypeOK
<1>1. wrong'[s][m] = 0 /\ (t # s \/ n # m => wrong'[t][n] = wrong[t][n])
  BY <1>0
<1>2. Guessed(t, n) /\ wrong[t][n] \in Nat
  BY <1>0 DEF AllGuessed
<1>3. wrong'[t][n] + Cardinality(Judging(t, n)') <= MaxAttempts - 1 + Cardinality(Calls)
  <2>1. CASE t = s /\ n = m
    BY <1>0, <1>1, <2>1, JudgingSizeNext
  <2>2. CASE t # s \/ n # m
    BY <1>0, <1>1, <1>2, <2>2, FewerJudge, JudgingSize, JudgingSizeNext DEF Guessed
  <2> QED
    BY <2>1, <2>2
<1>4. row'[t] # Absent /\ row'[t].state = "METHOD_SELECTED" /\ row'[t].method = n =>
          wrong'[t][n] <= row'[t].attempts[n]
  BY <1>1, <1>2 DEF Guessed
<1> QED
  BY <1>3, <1>4 DEF Guessed

\* A verdict: a wrong answer is counted in the row, and is no longer to be judged.
LEMMA VerdictGuesses ==
    ASSUME RecInv, AllGuessed, NEW c \in Calls, Verify(c)
    PROVE  AllGuessed'
<1>0. RecTypeOK /\ "verify" \in Ops /\ Loaded(c, "verify") /\ {"ok", "refused"} \subseteq {"ok", "refused", "locked"}
  BY DEF Verify, Ops, RecInv
<1>1. PICK s \in Sessions : s = call[c].session
  BY <1>0, HasSession
<1>2. row[s] \in Row /\ row[s] # Absent /\ call[c] # Absent
  BY <1>0, <1>1, HasSession
<1>3. PICK m \in Methods : m = call[c].method
  BY <1>0, HasSession DEF Equipped, Loaded
<1>4. \A d \in Calls : d # c => call'[d] = call[d]
  BY <1>0, <1>2, DoneIsOver DEF Verify
<1>5. JudgedBefore /\ ~Loaded(c, "verify")'
  BY <1>0, <1>2, DoneJudges, DoneIsOver DEF Verify
<1>6. CASE Right(call[c])
  <2> DEFINE attempts == [row[s].attempts EXCEPT ![m] = 0]
  <2> DEFINE code == IF m = "EMAIL_OTP" THEN 0 ELSE row[s].code
  <2>1. wrong' = wrong
        /\ row' = [row EXCEPT ![s] = [row[s] EXCEPT !.state = "AUTHORIZED", !.attempts = attempts, !.code = code]]
    BY <1>1, <1>3, <1>6 DEF Verify
  <2> HIDE DEF attempts, code
  <2>2. row'[s].state = "AUTHORIZED" /\ \A t \in Sessions : t # s => row'[t] = row[t]
    BY <1>0, <1>2, <2>1 DEF RecTypeOK, Row
  <2>3. ChoicesKept
    BY <2>2 DEF ChoicesKept
  <2> QED
    BY <1>0, <1>5, <2>1, <2>3, UncountedStep
<1>7. CASE ~Right(call[c])
  <2> DEFINE attempts == [row[s].attempts EXCEPT ![m] = row[s].attempts[m] + 1]
  <2>1. /\ row' = [row EXCEPT ![s] = [row[s] EXCEPT !.attempts = attempts]]
        /\ wrong' = [wrong EXCEPT ![s] = [wrong[s] EXCEPT ![m] = wrong[s][m] + 1]]
    BY <1>1, <1>3, <1>7 DEF Verify, RecTypeOK
  <2>2. /\ wrong'[s][m] = wrong[s][m] + 1
        /\ \A t \in Sessions, n \in Methods : t # s \/ n # m => wrong'[t][n] = wrong[t][n]
    BY <1>0, <2>1 DEF RecTypeOK
  <2>3. attempts[m] = row[s].attempts[m] + 1 /\ \A n \in Methods : n # m => attempts[n] = row[s].attempts[n]
    BY <1>2 DEF Row
  <2> HIDE DEF attempts
  <2>4. row'[s].attempts = attempts /\ row'[s].state = row[s].state /\ row'[s].method = row[s].method
        /\ \A t \in Sessions : t # s => row'[t] = row[t]
    BY <1>0, <1>2, <2>1 DEF RecTypeOK, Row
  <2> SUFFICES ASSUME NEW t \in Sessions, NEW n \in Methods PROVE Guessed(t, n)'
    BY DEF AllGuessed
  <2>5. Guessed(t, n) /\ wrong[t][n] \in Nat
    BY <1>0 DEF AllGuessed, RecTypeOK
  <2>6. wrong'[t][n] + Cardinality(Judging(t, n)') <= MaxAttempts - 1 + Cardinality(Calls)
    <3>1. CASE t = s /\ n = m
      <4>1. c \in Judging(s, m) /\ Judging(s, m)' \in SUBSET (Judging(s, m) \ {c})
        BY <1>0, <1>1, <1>3, <1>5 DEF Judging, JudgedBefore, Loaded
      <4>2. IsFiniteSet(Judging(s, m) \ {c}) /\ Cardinality(Judging(s, m) \ {c}) = Cardinality(Judging(s, m)) - 1
        BY <4>1, JudgingSize, FS_RemoveElement
      <4>3. Cardinality(Judging(s, m)') <= Cardinality(Judging(s, m)) - 1
        BY <4>1, <4>2, FS_Subset
      <4> QED
        BY <2>2, <2>5, <3>1, <4>3, JudgingSize, JudgingSizeNext, RecoveryAssumption DEF Guessed
    <3>2. CASE t # s \/ n # m
      BY <1>5, <2>2, <2>5, <3>2, FewerJudge, JudgingSize, JudgingSizeNext, RecoveryAssumption DEF Guessed
    <3> QED
      BY <3>1, <3>2
  <2>7. row'[t] # Absent /\ row'[t].state = "METHOD_SELECTED" /\ row'[t].method = n =>
            wrong'[t][n] <= row'[t].attempts[n]
    <3>1. row[s].attempts[m] \in Nat /\ wrong[s][m] \in Nat
      BY <1>0, <1>2 DEF RecTypeOK, Row
    <3>2. CASE t = s
      BY <1>2, <2>2, <2>3, <2>4, <2>5, <3>1, <3>2 DEF Guessed
    <3>3. CASE t # s
      BY <2>2, <2>4, <2>5, <3>3 DEF Guessed
    <3> QED
      BY <3>2, <3>3
  <2> QED
    BY <2>6, <2>7 DEF Guessed
<1> QED
  BY <1>6, <1>7

LEMMA SelectGuesses ==
    ASSUME RecInv, AllGuessed, NEW c \in Calls, Select(c)
    PROVE  AllGuessed'
<1>0. RecTypeOK /\ "select" \in Ops /\ Loaded(c, "select") /\ Done(c, "ok") /\ "ok" \in {"ok", "refused", "locked"}
  BY DEF Select, Ops, RecInv
<1>1. PICK s \in Sessions : s = call[c].session
  BY <1>0, HasSession
<1>2. row[s] \in Row /\ row[s] # Absent /\ call[c] # Absent
  BY <1>0, <1>1, HasSession
<1>3. PICK m \in Methods : m = call[c].method
  BY <1>0, HasSession DEF Equipped, Loaded
<1> DEFINE attempts == [row[s].attempts EXCEPT ![m] = 0]
<1> DEFINE code == IF m = "EMAIL_OTP" THEN codes' ELSE row[s].code
<1> DEFINE resends == IF m = "EMAIL_OTP" THEN 0 ELSE row[s].resends
<1>4. /\ row' = [row EXCEPT ![s] = [row[s] EXCEPT !.state = "METHOD_SELECTED", !.method = m,
                     !.attempts = attempts, !.code = code, !.resends = resends]]
      /\ wrong' = [wrong EXCEPT ![s][m] = 0]
  BY <1>1, <1>3 DEF Select
<1>5. attempts[m] = 0
  BY <1>2 DEF Row
<1> HIDE DEF attempts, code, resends
<1>6. /\ row'[s].method = m /\ row'[s].attempts = attempts
      /\ \A t \in Sessions : t # s => row'[t] = row[t]
  BY <1>0, <1>2, <1>4 DEF RecTypeOK, Row
<1>7. JudgedBefore
  BY <1>0, <1>2, DoneJudges
<1> QED
  BY <1>2, <1>4, <1>5, <1>6, <1>7, AnewGuesses

LEMMA SendAgainGuesses ==
    ASSUME RecInv, AllGuessed, NEW c \in Calls, SendAgain(c)
    PROVE  AllGuessed'
<1>0. RecTypeOK /\ "resend" \in Ops /\ Loaded(c, "resend") /\ Done(c, "ok") /\ "ok" \in {"ok", "refused", "locked"}
  BY DEF SendAgain, Ops, RecInv
<1>1. PICK s \in Sessions : s = call[c].session
  BY <1>0, HasSession
<1>2. row[s] \in Row /\ row[s] # Absent /\ call[c] # Absent
  BY <1>0, <1>1, HasSession
<1>3. PICK m \in Methods : m = "EMAIL_OTP"
  BY DEF Methods
<1> DEFINE attempts == [row[s].attempts EXCEPT ![m] = 0]
<1> DEFINE resends == row[s].resends + 1
<1>4. /\ row' = [row EXCEPT ![s] = [row[s] EXCEPT !.attempts = attempts, !.code = codes + 1, !.resends = resends]]
      /\ wrong' = [wrong EXCEPT ![s][m] = 0]
  BY <1>1, <1>3 DEF SendAgain
<1>5. attempts[m] = 0 /\ \A n \in Methods : n # m => attempts[n] = row[s].attempts[n]
  BY <1>2 DEF Row
<1> HIDE DEF attempts, resends
<1>6. /\ row'[s].method = row[s].method /\ row'[s].state = row[s].state /\ row'[s].attempts = attempts
      /\ \A t \in Sessions : t # s => row'[t] = row[t]
  BY <1>0, <1>2, <1>4 DEF RecTypeOK, Row
<1>7. JudgedBefore
  BY <1>0, <1>2, DoneJudges
<1>8. row'[s].state = "METHOD_SELECTED" =>
          /\ row[s].state = "METHOD_SELECTED" /\ row'[s].method = row[s].method
          /\ \A n \in Methods : n # m => row'[s].attempts[n] = row[s].attempts[n]
          /\ row'[s].attempts[m] = 0
  BY <1>5, <1>6
<1> QED
  BY <1>2, <1>4, <1>6, <1>7, <1>8, AnewGuesses

\* auth.routes.ts:974-1190: from one choice of a method, or one mailed code, to the
\* next, a session takes MaxAttempts wrong answers and one more for each other
\* handler that read the counter at the same time. It is no bound on a session's
\* answers in all: each choice and each code starts the count anew (:997-1034).
THEOREM FewGuessesPerChoice == RecSpec => []FewGuesses
<1>1. RecInit => AllGuessed
  <2> SUFFICES ASSUME RecInit, NEW s \in Sessions, NEW m \in Methods PROVE Guessed(s, m)
    BY DEF AllGuessed
  <2>1. Judging(s, m) = {}
    BY DEF RecInit, Judging, Loaded
  <2>2. Cardinality(Calls) \in Nat /\ Cardinality(Judging(s, m)) = 0
    BY <2>1, JudgingSize, FS_EmptySet
  <2> QED
    BY <2>2, RecoveryAssumption DEF RecInit, Guessed
<1>2. RecInv /\ AllGuessed /\ [RecNext]_recVars => AllGuessed'
  <2> SUFFICES ASSUME RecInv, AllGuessed, [RecNext]_recVars PROVE AllGuessed'
    OBVIOUS
  <2>0. RecTypeOK
    BY DEF RecInv
  <2>1. CASE UNCHANGED recVars
    <3>1. wrong' = wrong /\ JudgedBefore /\ ChoicesKept
      BY <2>1 DEF recVars, JudgedBefore, ChoicesKept, Loaded
    <3> QED
      BY <2>0, <3>1, UncountedStep
  <2>2. CASE (\E p \in Pages : FromPage(p)) \/ \E c \in Calls : Answer(c) \/ GiveUp(c)
    <3>1. wrong' = wrong /\ row' = row /\ JudgedBefore
      BY <2>2, PageUncounted
    <3> QED
      BY <2>0, <3>1, UncountedStep DEF ChoicesKept
  <2>3. CASE (\E c \in Calls : Start(c) \/ Create(c) \/ Reset(c)) \/ \E s \in Sessions : Age(s)
    BY <2>3, EndingStep
  <2>4. ASSUME NEW c \in Calls, Load(c) \/ Select(c) \/ SendAgain(c) \/ Verify(c) PROVE AllGuessed'
    BY <2>4, LoadGuesses, SelectGuesses, SendAgainGuesses, VerdictGuesses
  <2> QED
    BY <2>1, <2>2, <2>3, <2>4 DEF RecNext, Handler
<1>3. RecInv /\ AllGuessed => FewGuesses
  <2> SUFFICES ASSUME RecInv, AllGuessed, NEW s \in Sessions, NEW m \in Methods
               PROVE  wrong[s][m] < MaxAttempts + Cardinality(Calls)
    BY DEF FewGuesses
  <2>1. Guessed(s, m) /\ wrong[s][m] \in Nat
    BY DEF AllGuessed, RecInv, RecTypeOK
  <2> QED
    BY <2>1, JudgingSize, RecoveryAssumption DEF Guessed
<1> QED
  BY <1>1, <1>2, <1>3, AlwaysInv, PTL DEF RecSpec

=============================================================================
