------------------------------- MODULE Outbox -------------------------------
(***************************************************************************)
(* frontend/src/lib/offlineQueue.ts, offlineSync.ts and worker/index.ts:   *)
(* the durable outbox of one browser. Every tab, and the service worker,   *)
(* may run a flush over the same IndexedDB store; they share one session   *)
(* cookie, but each tab has its own idea of who is signed in, and the      *)
(* service worker reads a third copy in Cache Storage.                     *)
(*                                                                         *)
(* Entries are numbered in the order they were queued (their sortable id). *)
(* An account is known in the browser by its uid, which the user may       *)
(* change: <<u, n>> is the uid of u after n changes.                       *)
(***************************************************************************)
EXTENDS Naturals, FiniteSets, FiniteSetsExt

CONSTANTS
    Users,          \* accounts that sign in on this browser
    Tabs,           \* open pages of the app
    ServiceWorkers, \* the registered service worker, if any
    None,
    Browsers,       \* the browsers of this instance
    Orphans,        \* may entries be queued before a page knows its account?
    Faults,         \* which failures happen in this instance
    MaxEntries,     \* bound on entries
    MaxAttempts,    \* MAX_ATTEMPTS (10 in the code)
    MaxRenames,     \* bound on changes of a user's uid
    MaxRetries,     \* bound on "Try again" clicks
    MaxLapses       \* bound on sign-outs, expired sessions and closed pages

FaultKinds == {"retry", "reject", "net", "kill", "expire"}

ASSUME OutboxAssumption ==
    /\ Tabs \cap ServiceWorkers = {}
    /\ Browsers \subseteq [tabs : SUBSET Tabs, workers : SUBSET ServiceWorkers, locks : BOOLEAN]
    /\ Orphans \in BOOLEAN
    /\ Faults \subseteq FaultKinds
    /\ MaxEntries \in Nat /\ MaxAttempts \in Nat \ {0}
    /\ MaxRenames \in Nat /\ MaxRetries \in Nat /\ MaxLapses \in Nat

Workers == Tabs \cup ServiceWorkers
Entries == 1..MaxEntries
Uids    == Users \X (0..MaxRenames)

VARIABLES
    browser,    \* its open pages, its service worker if it registers one, and
                \* whether it has navigator.locks
    store,      \* IndexedDB: entry -> its record, or None
    queued,     \* how many entries were ever queued
    cookie,     \* whose session the browser's cookie is
    gen,        \* how often each user has changed uid
    tabOwner,   \* currentOwner of each page
    cacheOwner, \* the owner mirrored into Cache Storage for the service worker
    origin,     \* does the service worker know the API origin?
    syncTag,    \* is a background sync registered?
    pc,         \* where each worker is in its run
    me,         \* the account the run is for
    items,      \* the entries the run still has to send, as it read them
    as, reply,  \* whose session its request carries, and the answer to it
    lapses, retries,
    \* what happened, for the properties
    by,         \* who entered each entry
    applied,    \* <<entry, user>>: the server took this entry under this account
    last,       \* the entry the server took last, by account
    faults,     \* retryable failures since the last "Try again" (up to MaxAttempts)
    refused,    \* entries the API definitively refused
    setAside,   \* entries that were "rejected" at some time
    discarded   \* entries the user discarded

worker  == <<origin, syncTag>>
session == <<cookie, gen, tabOwner, cacheOwner>>
run     == <<pc, me, items, as, reply>>
history == <<by, applied, last, faults, refused, setAside, discarded>>
vars    == <<browser, store, queued, session, worker, run, lapses, retries, history>>

Entry == [owner : Uids \cup {None}, attempts : 0..MaxAttempts, status : {"pending", "rejected"}]
Replies == {"ok", "auth", "retry", "reject", "net"}

ASSUME NoneAssumption == None \notin Users \cup Uids \cup Entry

TypeOK ==
    /\ browser \in Browsers
    /\ store \in [Entries -> Entry \cup {None}]
    /\ queued \in 0..MaxEntries
    /\ cookie \in Users \cup {None}
    /\ gen \in [Users -> 0..MaxRenames]
    /\ tabOwner \in [Tabs -> Uids \cup {None}]
    /\ cacheOwner \in Uids \cup {None}
    /\ origin \in BOOLEAN /\ syncTag \in BOOLEAN
    /\ pc \in [Workers -> {"idle", "run", "adopting", "sent", "answered"}]
    /\ me \in [Workers -> Uids \cup {None}]
    /\ items \in [Workers -> [Entries -> Entry \cup {None}]]
    /\ as \in [Workers -> Users \cup {None}]
    /\ reply \in [Workers -> Replies \cup {None}]
    /\ lapses \in 0..MaxLapses /\ retries \in 0..MaxRetries
    /\ by \in [Entries -> Users \cup {None}]
    /\ applied \in SUBSET (Entries \X Users)
    /\ last \in [Users -> 0..MaxEntries]
    /\ faults \in [Entries -> 0..MaxAttempts]
    /\ refused \in SUBSET Entries /\ setAside \in SUBSET Entries /\ discarded \in SUBSET Entries

NoEntries == [i \in Entries |-> None]

\* A browser on which nobody is signed in and nothing is queued.
Init ==
    /\ browser \in Browsers
    /\ store = NoEntries /\ queued = 0
    /\ cookie = None
    /\ gen = [u \in Users |-> 0]
    /\ tabOwner = [t \in Tabs |-> None]
    /\ cacheOwner = None /\ origin = FALSE /\ syncTag = FALSE
    /\ pc = [w \in Workers |-> "idle"]
    /\ me = [w \in Workers |-> None]
    /\ items = [w \in Workers |-> NoEntries]
    /\ as = [w \in Workers |-> None]
    /\ reply = [w \in Workers |-> None]
    /\ lapses = 0 /\ retries = 0
    /\ by = [i \in Entries |-> None]
    /\ applied = {} /\ last = [u \in Users |-> 0]
    /\ faults = [i \in Entries |-> 0]
    /\ refused = {} /\ setAside = {} /\ discarded = {}

Uid(u) == <<u, gen[u]>>

-----------------------------------------------------------------------------
(* Signing in and out *)

\* A login answered on a page that shows nobody signed in.
SignIn(u) ==
    /\ cookie = None
    /\ \E t \in browser.tabs : tabOwner[t] = None
    /\ cookie' = u
    /\ UNCHANGED <<browser, store, queued, gen, tabOwner, cacheOwner, worker, run, lapses, retries, history>>

\* A page learns who is signed in (login, or /auth/me after a load) and its
\* effect records that as the queue owner; it tells the service worker the API
\* origin.
KnowUser(t) ==
    /\ t \in browser.tabs /\ tabOwner[t] = None /\ cookie # None
    /\ tabOwner' = [tabOwner EXCEPT ![t] = Uid(cookie)]
    /\ cacheOwner' = Uid(cookie)
    /\ origin' = TRUE
    /\ UNCHANGED <<browser, store, queued, cookie, gen, syncTag, run, lapses, retries, history>>

\* logout(): setQueueOwner(null), then the server ends the session. The other
\* pages are not told of a deliberate sign-out.
SignOut(t) ==
    /\ tabOwner[t] # None /\ lapses < MaxLapses
    /\ tabOwner' = [tabOwner EXCEPT ![t] = None]
    /\ cacheOwner' = None
    /\ cookie' = None
    /\ lapses' = lapses + 1
    /\ UNCHANGED <<browser, store, queued, gen, worker, run, retries, history>>

\* forceLogout(): a page was told that its session is over, and tells the others.
ForcedOut ==
    /\ cookie = None
    /\ \E t \in Tabs : tabOwner[t] # None
    /\ tabOwner' = [t \in Tabs |-> None]
    /\ cacheOwner' = None
    /\ UNCHANGED <<browser, store, queued, cookie, gen, worker, run, lapses, retries, history>>

\* The session ends at the server.
Expire ==
    /\ "expire" \in Faults /\ lapses < MaxLapses
    /\ cookie # None
    /\ cookie' = None
    /\ lapses' = lapses + 1
    /\ UNCHANGED <<browser, store, queued, gen, tabOwner, cacheOwner, worker, run, retries, history>>

\* changeUid(): the page that did it adopts the new uid.
Rename(t) ==
    /\ cookie # None /\ tabOwner[t] = Uid(cookie)
    /\ gen[cookie] < MaxRenames
    /\ gen' = [gen EXCEPT ![cookie] = gen[cookie] + 1]
    /\ tabOwner' = [tabOwner EXCEPT ![t] = <<cookie, gen'[cookie]>>]
    /\ cacheOwner' = <<cookie, gen'[cookie]>>
    /\ UNCHANGED <<browser, store, queued, cookie, worker, run, lapses, retries, history>>

-----------------------------------------------------------------------------
(* The user's side of the queue *)

\* enqueueMutation(): tagged with the page's account, if it knows one, and
\* announced to the service worker.
Enqueue(t) ==
    /\ queued < MaxEntries
    /\ t \in browser.tabs /\ (tabOwner[t] # None \/ Orphans)
    /\ LET i == queued + 1
           o == tabOwner[t]
       IN /\ queued' = i
          /\ store' = [store EXCEPT ![i] = [owner |-> o, attempts |-> 0, status |-> "pending"]]
          /\ by' = [by EXCEPT ![i] = IF o = None THEN None ELSE o[1]]
    /\ syncTag' = TRUE
    /\ UNCHANGED <<browser, session, origin, run, lapses, retries,
                   applied, last, faults, refused, setAside, discarded>>

\* The rejected entries the banner of some page offers. A page does not hear
\* what another page does to an entry it shows.
Offered == {i \in setAside : /\ store[i] # None
                             /\ store[i].status = "rejected" \/ Cardinality(browser.tabs) > 1
                             /\ \E t \in Tabs : store[i].owner \in {None, tabOwner[t]}}

\* retryRejected()
TryAgain(i) ==
    /\ i \in Offered /\ retries < MaxRetries
    /\ retries' = retries + 1
    /\ store' = [store EXCEPT ![i] = [store[i] EXCEPT !.status = "pending", !.attempts = 0]]
    /\ faults' = [faults EXCEPT ![i] = 0]
    /\ refused' = refused \ {i}
    /\ UNCHANGED <<browser, queued, session, worker, run, lapses, by, applied, last, setAside, discarded>>

\* discardQueued()
Discard(i) ==
    /\ i \in Offered
    /\ store' = [store EXCEPT ![i] = None]
    /\ discarded' = discarded \cup {i}
    /\ UNCHANGED <<browser, queued, session, worker, run, lapses, retries, by, applied, last, faults, refused, setAside>>

-----------------------------------------------------------------------------
(* One run of a worker over the queue *)

\* (mutant) rejected entries are sent again
SendableRejected(w, o) ==
    {i \in Entries : /\ store[i] # None
                     /\ store[i].owner = o \/ (w \in Tabs /\ store[i].owner = None)}

\* Entries a run of w for account o goes through: never a rejected one, never
\* another account's; only a page adopts an entry without owner.
Sendable(w, o) ==
    {i \in Entries : /\ store[i] # None /\ store[i].status = "pending"
                     /\ store[i].owner = o \/ (w \in Tabs /\ store[i].owner = None)}

\* What can run in this browser.
Running == browser.tabs \cup browser.workers

Mine(w) == IF w \in Tabs THEN tabOwner[w] ELSE cacheOwner

\* (mutant) a run that gives up keeps the slot of the one run at a time
RestKeepingSlot(w) ==
    /\ pc' = [pc EXCEPT ![w] = IF @ = "run" THEN "idle" ELSE @]
    /\ me' = [me EXCEPT ![w] = None]
    /\ items' = IF pc[w] = "run" THEN [items EXCEPT ![w] = NoEntries] ELSE items
    /\ as' = [as EXCEPT ![w] = None]
    /\ reply' = [reply EXCEPT ![w] = None]

\* The worker is between runs.
Rest(w) ==
    /\ pc' = [pc EXCEPT ![w] = "idle"]
    /\ me' = [me EXCEPT ![w] = None]
    /\ items' = [items EXCEPT ![w] = NoEntries]
    /\ as' = [as EXCEPT ![w] = None]
    /\ reply' = [reply EXCEPT ![w] = None]

\* (mutant) pages do not ask for the Web Lock
StartAnyway(w) ==
    /\ w \in Running /\ pc[w] = "idle" /\ Mine(w) # None
    /\ pc' = [pc EXCEPT ![w] = "run"]
    /\ me' = [me EXCEPT ![w] = Mine(w)]
    /\ items' = [items EXCEPT ![w] =
            [i \in Entries |-> IF i \in Sendable(w, Mine(w)) THEN store[i] ELSE None]]
    /\ UNCHANGED <<browser, store, queued, session, worker, as, reply, lapses, retries, history>>

\* requestFlush() and the sync event: the owner and a snapshot of the queue are
\* read once. A page runs only if no other page holds the Web Lock; the service
\* worker, once for each registered sync.
Start(w) ==
    /\ w \in Running /\ pc[w] = "idle" /\ Mine(w) # None
    /\ w \in ServiceWorkers => syncTag
    /\ (w \in Tabs /\ browser.locks) => \A t \in Tabs : pc[t] = "idle"
    /\ pc' = [pc EXCEPT ![w] = "run"]
    /\ me' = [me EXCEPT ![w] = Mine(w)]
    /\ items' = [items EXCEPT ![w] =
            [i \in Entries |-> IF i \in Sendable(w, Mine(w)) THEN store[i] ELSE None]]
    /\ syncTag' = (syncTag /\ w \in Tabs)
    /\ UNCHANGED <<browser, store, queued, session, origin, as, reply, lapses, retries, history>>

Todo(w) == {i \in Entries : items[w][i] # None}

\* The loop's end: nothing left, or the page's account changed since the start.
Finish(w) ==
    /\ pc[w] = "run"
    /\ Todo(w) = {} \/ (w \in Tabs /\ tabOwner[w] # me[w])
    /\ Rest(w)
    /\ UNCHANGED <<browser, store, queued, session, worker, lapses, retries, history>>

\* (mutant) a page trusts the account it read at the start
ReadyUnchecked(w) == pc[w] = "run" /\ Todo(w) # {}

\* The oldest entry is next. A page re-checks the account before every entry.
Ready(w) == pc[w] = "run" /\ Todo(w) # {} /\ (w \in Tabs => tabOwner[w] = me[w])

Current(w) == Min(Todo(w))

\* A page first writes itself down as the owner of an entry without one ...
Adopt(w) ==
    /\ Ready(w)
    /\ LET i == Current(w)
       IN /\ items[w][i].owner = None
          /\ store' = IF store[i] = None THEN store ELSE [store EXCEPT ![i] = [store[i] EXCEPT !.owner = me[w]]]
    /\ pc' = [pc EXCEPT ![w] = "adopting"]
    /\ UNCHANGED <<browser, queued, session, worker, me, items, as, reply, lapses, retries, history>>

\* ... and the request leaves with whatever session the browser has.
Send(w) ==
    /\ pc[w] = "adopting" \/ (Ready(w) /\ items[w][Current(w)].owner # None)
    /\ pc' = [pc EXCEPT ![w] = "sent"]
    /\ as' = [as EXCEPT ![w] = cookie]
    /\ UNCHANGED <<browser, store, queued, session, worker, me, items, reply, lapses, retries, history>>

\* The request is over, with this answer.
Answered(w, a) ==
    /\ pc' = [pc EXCEPT ![w] = "answered"]
    /\ as' = [as EXCEPT ![w] = None]
    /\ reply' = [reply EXCEPT ![w] = a]
    /\ UNCHANGED <<me, items>>

\* The API takes entry i under account u.
Take(i, u) ==
    /\ applied' = applied \cup {<<i, u>>}
    /\ last' = [last EXCEPT ![u] = i]

\* The API handles the request and answers: refused without a session, else
\* done and confirmed, or one of the failures of this instance; a request whose
\* answer is a failure or is lost may have been done all the same.
Serve(w) ==
    /\ pc[w] = "sent" /\ (w \in ServiceWorkers => origin)
    /\ LET i == Current(w)
       IN \E a \in {"ok", "auth"} \cup (Faults \cap {"retry", "reject", "net"}) :
            /\ (a = "auth") <=> (as[w] = None \/ as[w] # cookie)
            /\ Answered(w, a)
            /\ \/ a \in {"ok", "retry", "net"} /\ Take(i, as[w])
               \/ a # "ok" /\ UNCHANGED <<applied, last>>
            /\ faults' = IF a = "retry" /\ faults[i] < MaxAttempts
                         THEN [faults EXCEPT ![i] = faults[i] + 1] ELSE faults
            /\ refused' = IF a = "reject" THEN refused \cup {i} ELSE refused
    /\ UNCHANGED <<browser, store, queued, session, worker, lapses, retries, by, setAside, discarded>>

\* A service worker that was restarted has lost the API origin: it asks the
\* frontend's own origin, which has no such route and answers 404.
WrongOrigin(w) ==
    /\ pc[w] = "sent" /\ w \in ServiceWorkers /\ ~origin
    /\ Answered(w, "reject")
    /\ UNCHANGED <<browser, store, queued, session, worker, lapses, retries, history>>

\* The connection fails before the request is answered; it may have been done.
Unreachable(w) ==
    /\ "net" \in Faults /\ pc[w] = "sent"
    /\ Answered(w, "net")
    /\ UNCHANGED <<browser, store, queued, session, worker, lapses, retries, history>>

-----------------------------------------------------------------------------
(* What an answer does to the entry *)

\* update(): a patch of an entry that is gone does nothing.
Patch(i, attempts, status) ==
    store' = IF store[i] = None THEN store
             ELSE [store EXCEPT ![i] = [store[i] EXCEPT !.attempts = attempts, !.status = status]]

\* (mutant) a refused entry is deleted
RejectDrops(w, i, attempts) ==
    /\ store' = [store EXCEPT ![i] = None]
    /\ setAside' = setAside \cup {i}

Reject(w, i, attempts) ==
    /\ Patch(i, attempts, "rejected")
    /\ setAside' = setAside \cup {i}

\* The run goes on with the next entry.
Continue(w, i) ==
    /\ pc' = [pc EXCEPT ![w] = "run"]
    /\ items' = [items EXCEPT ![w] = [items[w] EXCEPT ![i] = None]]
    /\ reply' = [reply EXCEPT ![w] = None]
    /\ UNCHANGED <<me, as>>

Confirmed(w, i) ==
    /\ reply[w] = "ok"
    /\ store' = [store EXCEPT ![i] = None]
    /\ Continue(w, i)
    /\ UNCHANGED setAside

Refused(w, i) ==
    /\ reply[w] = "reject"
    /\ Reject(w, i, IF store[i] = None THEN 0 ELSE store[i].attempts)
    /\ Continue(w, i)

\* (mutant) an expired session counts as a failed attempt everywhere
CountsAuth(w) == reply[w] \in {"retry", "auth"}

\* A page does not count an expired session; the service worker does.
Counts(w) == reply[w] = "retry" \/ (reply[w] = "auth" /\ w \in ServiceWorkers)

\* The counter is read from the run's own snapshot.
CountAttempt(w, i) ==
    /\ Counts(w)
    /\ LET n == items[w][i].attempts + 1
       IN \/ /\ n >= MaxAttempts
             /\ Reject(w, i, MaxAttempts)
             /\ IF reply[w] = "auth" THEN Rest(w) ELSE Continue(w, i)
          \/ /\ n < MaxAttempts
             /\ Patch(i, n, IF store[i] = None THEN "pending" ELSE store[i].status)
             /\ Rest(w)
             /\ UNCHANGED setAside

GiveUpForNow(w) ==
    /\ reply[w] = "net" \/ (reply[w] = "auth" /\ w \in Tabs)
    /\ Rest(w)
    /\ UNCHANGED <<browser, store, setAside>>

Handle(w) ==
    /\ pc[w] = "answered"
    /\ LET i == Current(w)
       IN Confirmed(w, i) \/ Refused(w, i) \/ CountAttempt(w, i) \/ GiveUpForNow(w)
    /\ UNCHANGED <<browser, queued, session, worker, lapses, retries, by, applied, last, faults, refused, discarded>>

\* A page is closed or reloaded, or the browser stops the service worker: the
\* run is gone (its request may have been served), and so is what it had in
\* memory. The browser fires a sync that was cut short again.
Kill(w) ==
    /\ w \in Running /\ "kill" \in Faults /\ lapses < MaxLapses
    /\ lapses' = lapses + 1
    /\ Rest(w)
    /\ tabOwner' = [t \in Tabs |-> IF t = w THEN None ELSE tabOwner[t]]
    /\ origin' = (origin /\ w \notin ServiceWorkers)
    /\ syncTag' = (syncTag \/ (w \in ServiceWorkers /\ pc[w] # "idle"))
    /\ UNCHANGED <<browser, store, queued, cookie, gen, cacheOwner, retries, history>>

-----------------------------------------------------------------------------

Flush(w) ==
    \/ Start(w) \/ Finish(w) \/ Adopt(w) \/ Send(w)
    \/ Serve(w) \/ WrongOrigin(w) \/ Unreachable(w) \/ Handle(w)

Next ==
    \/ \E w \in Workers : Flush(w) \/ Kill(w)
    \/ \E t \in Tabs : KnowUser(t) \/ SignOut(t) \/ Rename(t) \/ Enqueue(t)
    \/ \E u \in Users : SignIn(u)
    \/ \E i \in Entries : TryAgain(i) \/ Discard(i)
    \/ Expire \/ ForcedOut

Spec == Init /\ [][Next]_vars

\* A user with work to do comes back and signs in; a page whose session is over
\* notices (every view it shows asks the API); the retry timer starts a run while
\* anything is pending; every request ends one way or another, and one that is
\* sent again and again is confirmed at last.
Fairness ==
    /\ WF_vars(ForcedOut) /\ \A u \in Users : WF_vars(SignIn(u))
    /\ \A t \in Tabs : WF_vars(KnowUser(t)) /\ SF_vars(Start(t))
    /\ \A w \in Workers :
        /\ WF_vars(Finish(w)) /\ WF_vars(Adopt(w)) /\ WF_vars(Send(w)) /\ WF_vars(Handle(w))
        /\ WF_vars(Serve(w) \/ WrongOrigin(w))
        /\ SF_vars(Serve(w) /\ reply'[w] = "ok")

FairSpec == Spec /\ Fairness

-----------------------------------------------------------------------------
(* What the outbox promises *)

\* offlineSync.ts:41 "Nothing is ever deleted except after the server confirmed
\* it": an entry is stored until the API took it under the account of the user
\* who made it, or that user discarded it; whatever pages, the service worker,
\* failures and account switches do in between.
NothingLost ==
    \A i \in 1..queued :
        \/ store[i] # None \/ i \in discarded
        \/ \E u \in Users : <<i, u>> \in applied /\ by[i] \in {u, None}

\* offlineQueue.ts:26, logoutGuard.ts:14: an entry is only ever sent under the
\* account that made it, though the session cookie, the page's and the service
\* worker's idea of who is signed in change separately during a run.
OnlyOwnAccount ==
    \A i \in Entries, u \in Users : <<i, u>> \in applied => by[i] \in {u, None}

\* offlineSync.ts:38 "Order is preserved": an account's entries reach it in the
\* order they were made, but for one that was set aside as rejected and tried
\* again; a later edit is never followed by an earlier one. Pages keep this order
\* among themselves; a service worker that runs beside them does not.
AppliedInOrder ==
    [][\A u \in Users : \/ browser.workers # {}
                        \/ last'[u] >= last[u] \/ last'[u] \in setAside]_vars

\* offlineQueue.ts:30: an entry is set aside as "rejected" only if the API
\* refused it or failed on it MAX_ATTEMPTS times since the user last asked to
\* try again; being offline or signed out never costs an entry an attempt.
RejectedForCause ==
    \A i \in 1..queued :
        store[i] # None /\ store[i].status = "rejected" => i \in refused \/ faults[i] >= MaxAttempts

\* offlineSync.ts:105: what the user discarded is not sent by a run that still
\* holds it in its snapshot.
DiscardIsFinal ==
    [][\A i \in discarded, u \in Users : <<i, u>> \in applied' => <<i, u>> \in applied]_vars

\* logoutGuard.ts:24 "will sync the next time you sign in": no entry stays
\* pending forever, it is taken or set aside for the user to decide.
PendingIsSettled ==
    \A i \in Entries :
        (store[i] # None /\ store[i].status = "pending") ~>
        (store[i] = None \/ store[i].status = "rejected")

=============================================================================
