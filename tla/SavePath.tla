------------------------------ MODULE SavePath ------------------------------
(***************************************************************************)
(* frontend/src/lib/saveTransaction.ts, offlineAwarePost.ts,               *)
(* pendingTransactions.ts and invalidate.ts with the two forms that use    *)
(* them: one page of one user, from the click on Save to the row in the    *)
(* refreshed list. The outbox is abstracted to what a page sees of it      *)
(* (module Outbox has the rest), the server to an idempotent store.        *)
(*                                                                         *)
(* Forms are numbered as they are opened; a form adds an entry ("new") or  *)
(* changes the one record there was before ("edit"). The value of that     *)
(* record, and the body of an edit, are the set of edits they contain.     *)
(***************************************************************************)
EXTENDS Naturals, FiniteSets, FiniteSetsExt

CONSTANTS
    MaxForms,   \* bound on forms opened
    MaxFaults,  \* bound on lost answers, refusals and entries the service worker sends
    MaxOffline, \* bound on losses of the connection
    Helper,     \* does a service worker run the outbox, too?
    Nil

ASSUME SaveAssumption ==
    /\ MaxForms \in Nat /\ MaxFaults \in Nat /\ MaxOffline \in Nat
    /\ Helper \in BOOLEAN

Forms == 1..MaxForms
Keys  == 0..(2 * MaxForms)

VARIABLES
    owner,      \* getQueueOwner(): does the page know its account?
    online,     \* navigator.onLine
    opened,
    form,       \* the open form, or Nil
    keyRef,     \* createIdempotencyKeyRef: the key of the next create
    save,       \* persistTransaction() under way, or Nil
    queue,      \* the outbox, by form
    flush,      \* the run over the outbox, or Nil
    again,      \* was another run asked for meanwhile?
    rows,       \* the outbox as the banner and the pending strip last read it
    unread,     \* has the outbox changed since?
    confirming, \* creates the server confirmed, remembered for CONFIRMING_MS
    list,       \* the list as the page last fetched it
    fetch,      \* a fetch under way: "asked", or what the server answered it
    created,    \* the server's records: <<form, key>>
    record,     \* the value of the record there was before
    faults, losses,
    \* what happened, for the properties
    kind,       \* what each form was for
    told,       \* what the user was told of each form's save
    refused,    \* forms whose save the server refused
    applied,    \* forms whose save the server took
    blind,      \* edits that need not build on the ones before: the page could not know
                \* those, or Save was clicked before they had been read into the form
    byHelper    \* entries the service worker sent

ui     == <<form, keyRef, opened, kind>>
strip  == <<rows, unread, confirming>>
server == <<created, record, applied>>
pathVars == <<owner, online, opened, form, keyRef, save, queue, flush, again, rows, unread,
              confirming, list, fetch, created, record, faults, losses, kind, told, refused,
              applied, blind, byHelper>>

Form == [n : Forms, kind : {"new", "edit"}, base : SUBSET Forms, filled : BOOLEAN]
Save == [n : Forms, kind : {"new", "edit"}, key : Keys, body : SUBSET Forms,
         step : {"post", "taken", "lost", "refused", "store", "announce", "keep", "kept"}]
Item == [kind : {"new", "edit"}, key : Keys, body : SUBSET Forms, rejected : BOOLEAN]
List == [created : SUBSET Forms, record : SUBSET Forms]
Run  == [items : [Forms -> Item \cup {Nil}],
         step : {"read", "next", "ok", "refused", "end"}, synced : SUBSET Forms]

ASSUME NilIsNoValue ==
    /\ Nil \notin {"new", "edit", "syncing", "saved", "failed"}
    /\ Nil \notin Form /\ Nil \notin Save /\ Nil \notin Item /\ Nil \notin Run

\* The types of the variables.
SaveTypeOK ==
    /\ owner \in BOOLEAN /\ online \in BOOLEAN
    /\ opened \in 0..MaxForms
    /\ form \in Form \cup {Nil}
    /\ keyRef \in Keys
    /\ save \in Save \cup {Nil}
    /\ queue \in [Forms -> Item \cup {Nil}]
    /\ flush \in Run \cup {Nil} /\ again \in BOOLEAN
    /\ rows \in [Forms -> Item \cup {Nil}] /\ unread \in BOOLEAN
    /\ confirming \subseteq Forms
    /\ list \in List
    /\ fetch \in [step : {"none", "asked", "answered"}, list : List]
    /\ created \subseteq Forms \X Keys /\ record \subseteq Forms
    /\ faults \in 0..MaxFaults /\ losses \in 0..MaxOffline
    /\ kind \in [Forms -> {"new", "edit", Nil}]
    /\ told \in [Forms -> {"syncing", "saved", "failed", Nil}]
    /\ refused \subseteq Forms /\ applied \subseteq Forms
    /\ blind \subseteq Forms /\ byHelper \subseteq Forms

EmptyList == [created |-> {}, record |-> {}]
NoFetch   == [step |-> "none", list |-> EmptyList]
Asked     == [step |-> "asked", list |-> EmptyList]

Nothing == [n \in Forms |-> Nil]

SaveInit ==
    /\ owner = FALSE /\ online = TRUE
    /\ opened = 0 /\ form = Nil /\ keyRef = 0 /\ save = Nil
    /\ queue = Nothing /\ flush = Nil /\ again = FALSE
    /\ rows = Nothing /\ unread = FALSE /\ confirming = {}
    /\ list = EmptyList /\ fetch = NoFetch
    /\ created = {} /\ record = {} /\ faults = 0 /\ losses = 0
    /\ kind = [n \in Forms |-> Nil] /\ told = [n \in Forms |-> Nil]
    /\ refused = {} /\ applied = {} /\ blind = {} /\ byHelper = {}

-----------------------------------------------------------------------------
(* The server and the outbox *)

\* The server has a record for the key already and answers with that.
Replays(key) == \E m \in Forms : <<m, key>> \in created

\* The server takes the save of form n.
Take(n, item) ==
    /\ created' = IF item.kind = "new" /\ ~Replays(item.key)
                  THEN created \cup {<<n, item.key>>} ELSE created
    /\ record' = IF item.kind = "edit" THEN item.body ELSE record
    /\ applied' = applied \cup {n}

Pending == {n \in Forms : queue[n] # Nil /\ ~queue[n].rejected}

NewRun == [items |-> Nothing, step |-> "read", synced |-> {}]

\* What the run has read and not sent yet.
Todo == {n \in Forms : flush.items[n] # Nil}

\* requestFlush(): one run at a time; asked during a run, it goes around once more.
RequestFlush ==
    IF flush = Nil THEN flush' = NewRun /\ UNCHANGED again
    ELSE again' = TRUE /\ UNCHANGED flush

-----------------------------------------------------------------------------
(* Opening and closing a form *)

\* An edit shows the listed record; the outbox is read for it if it has an owner.
NewForm(k) == [n |-> opened', kind |-> k, filled |-> k = "new" \/ ~owner,
               base |-> IF k = "edit" THEN list.record ELSE {}]

\* (mutant) the key of the last create is kept
OpenSameKey(k) ==
    /\ form = Nil /\ opened < MaxForms
    /\ opened' = opened + 1
    /\ kind' = [kind EXCEPT ![opened'] = k]
    /\ form' = NewForm(k)
    /\ blind' = IF k = "edit" /\ ~owner THEN blind \cup {opened'} ELSE blind
    /\ UNCHANGED <<owner, online, keyRef, save, queue, flush, again, strip, list, fetch,
                   server, faults, losses, told, refused, byHelper>>

\* A fresh form is a new attempt with a new key.
Open(k) ==
    /\ form = Nil /\ opened < MaxForms
    /\ opened' = opened + 1
    /\ kind' = [kind EXCEPT ![opened'] = k]
    /\ form' = NewForm(k)
    /\ keyRef' = IF k = "new" THEN keyRef + 1 ELSE keyRef
    /\ blind' = IF k = "edit" /\ ~owner THEN blind \cup {opened'} ELSE blind
    /\ UNCHANGED <<owner, online, save, queue, flush, again, strip, list, fetch,
                   server, faults, losses, told, refused, byHelper>>

\* The edits in the outbox that were not refused.
Waiting == {n \in Pending : queue[n].kind = "edit"}

\* The page can know what the record is about to be: the outbox is its own, no
\* save is on its way there, what the server took is listed or still waits, and the
\* edits that wait were themselves made so and not refused.
Known ==
    /\ owner /\ save = Nil
    /\ \A e \in record \ form.base : queue[e] # Nil
    /\ \A e \in blind \cup refused : queue[e] = Nil \/ queue[e].kind = "new"

\* Save was clicked before the outbox was read for the form.
SavesItself == save # Nil /\ save.n = form.n

\* (mutant) an edit starts from the listed record
FillListed ==
    /\ form # Nil /\ ~form.filled
    /\ form' = [form EXCEPT !.filled = TRUE]
    /\ blind' = IF Known \/ SavesItself THEN blind ELSE blind \cup {form.n}
    /\ UNCHANGED <<owner, online, opened, keyRef, save, queue, flush, again, strip, list, fetch,
                   server, faults, losses, kind, told, refused, byHelper>>

\* pendingEditBody() is answered, at some moment while the form is open: the form is
\* filled anew, from the newest edit still in the outbox.
Fill ==
    /\ form # Nil /\ ~form.filled
    /\ form' = [form EXCEPT !.filled = TRUE,
                            !.base = IF Waiting = {} THEN @ ELSE queue[Max(Waiting)].body]
    /\ blind' = IF Known \/ SavesItself THEN blind ELSE blind \cup {form.n}
    /\ UNCHANGED <<owner, online, opened, keyRef, save, queue, flush, again, strip, list, fetch,
                   server, faults, losses, kind, told, refused, byHelper>>

\* Cancel. A save under way goes on; without one, the form was as good as not opened.
Close ==
    /\ form # Nil /\ save # Nil /\ form' = Nil
    /\ UNCHANGED <<owner, online, opened, keyRef, save, queue, flush, again, strip, list, fetch,
                   server, faults, losses, kind, told, refused, blind, byHelper>>

-----------------------------------------------------------------------------
(* persistTransaction() *)

\* Save is clicked, whether or not the outbox has been read for the form; while a
\* save runs, the button is off and a second click joins it.
Click ==
    /\ form # Nil /\ save = Nil
    /\ save' = [n |-> form.n, kind |-> form.kind, key |-> keyRef,
                body |-> IF form.kind = "edit" THEN form.base \cup {form.n} ELSE {},
                step |-> IF owner THEN "store" ELSE "post"]
    /\ blind' = IF form.filled \/ (Known /\ Waiting = {}) THEN blind ELSE blind \cup {form.n}
    /\ UNCHANGED <<owner, online, ui, queue, flush, again, strip, list, fetch,
                   server, faults, losses, told, refused, byHelper>>

\* A fault of this instance.
Fault == faults < MaxFaults /\ faults' = faults + 1

\* The direct request is served, refused, or lost on the way there or back (as is
\* a refusal of what the server took before: it leads to the same).
Post ==
    /\ save # Nil /\ save.step = "post"
    /\ \/ /\ online /\ Take(save.n, save)
          /\ \/ save' = [save EXCEPT !.step = "taken"] /\ UNCHANGED faults
             \/ save' = [save EXCEPT !.step = "lost"] /\ Fault
          /\ UNCHANGED refused
       \/ /\ save' = [save EXCEPT !.step = "lost"]
          /\ IF online THEN Fault ELSE UNCHANGED faults
          /\ UNCHANGED <<server, refused>>
       \/ /\ online /\ save.n \notin applied
          /\ save' = [save EXCEPT !.step = "refused"] /\ Fault
          /\ refused' = refused \cup {save.n}
          /\ UNCHANGED server
    /\ UNCHANGED <<owner, online, ui, queue, flush, again, strip, list, fetch,
                   losses, told, blind, byHelper>>

\* onSuccess: whatever form is open closes, and the next create gets a new key.
Ends(word) ==
    /\ told' = [told EXCEPT ![save.n] = word]
    /\ save' = Nil /\ form' = Nil
    /\ keyRef' = IF save.kind = "new" THEN keyRef + 1 ELSE keyRef

\* The answer to the direct request: confirmed, ...
PostConfirmed ==
    /\ save # Nil /\ save.step = "taken"
    /\ Ends("saved")
    /\ fetch' = Asked
    /\ UNCHANGED <<owner, online, opened, queue, flush, again, strip, list, server,
                   faults, losses, kind, refused, blind, byHelper>>

\* ... put into the outbox because the browser is offline by now, or because the
\* server took it and the answer cannot be read, ...
PostKept ==
    /\ save # Nil /\ save.step \in {"lost", "refused"} /\ save.kind = "new"
    /\ ~online \/ (save.step = "lost" /\ save.n \in applied)
    /\ save' = [save EXCEPT !.step = "keep"]
    /\ UNCHANGED <<owner, online, ui, queue, flush, again, strip, list, fetch,
                   server, faults, losses, told, refused, blind, byHelper>>

\* (mutant) after an error the next click is a new attempt
FailsWithNewKey ==
    /\ save # Nil /\ save.step \in {"lost", "refused"} /\ (online \/ save.kind = "edit")
    /\ told' = [told EXCEPT ![save.n] = "failed"]
    /\ save' = Nil /\ keyRef' = keyRef + 1
    /\ UNCHANGED <<owner, online, opened, form, queue, flush, again, strip, list, fetch,
                   server, faults, losses, kind, refused, blind, byHelper>>

\* ... or reported; the form keeps the entry and the key.
PostFailed ==
    /\ save # Nil /\ save.step \in {"lost", "refused"} /\ (online \/ save.kind = "edit")
    /\ told' = [told EXCEPT ![save.n] = "failed"]
    /\ save' = Nil
    /\ UNCHANGED <<owner, online, ui, queue, flush, again, strip, list, fetch,
                   server, faults, losses, refused, blind, byHelper>>

\* enqueueMutation(): the entry is committed to the outbox, the strip is told to
\* read it, and the service worker is asked for a sync ...
Store ==
    /\ save # Nil /\ save.step \in {"store", "keep"}
    /\ queue' = [queue EXCEPT ![save.n] =
                    [kind |-> save.kind, key |-> save.key, body |-> save.body, rejected |-> FALSE]]
    /\ unread' = TRUE
    /\ save' = [save EXCEPT !.step = IF @ = "store" THEN "announce" ELSE "kept"]
    /\ UNCHANGED <<owner, online, ui, flush, again, rows, confirming, list, fetch,
                   server, faults, losses, told, refused, blind, byHelper>>

\* ... and once it is ready the form is released; the outbox path starts a run.
Stored ==
    /\ save # Nil /\ save.step \in {"announce", "kept"}
    /\ Ends("syncing")
    /\ IF save.step = "announce" THEN RequestFlush ELSE UNCHANGED <<flush, again>>
    /\ UNCHANGED <<owner, online, opened, queue, strip, list, fetch, server,
                   faults, losses, kind, refused, blind, byHelper>>

-----------------------------------------------------------------------------
(* A run over the outbox *)

\* The pending entries are read once.
ReadOutbox ==
    /\ flush # Nil /\ flush.step = "read"
    /\ flush' = [flush EXCEPT !.step = "next",
                   !.items = [n \in Forms |-> IF n \in Pending THEN queue[n] ELSE Nil]]
    /\ UNCHANGED <<owner, online, ui, save, queue, again, strip, list, fetch,
                   server, faults, losses, told, refused, blind, byHelper>>

\* The oldest is sent, as the run read it: taken, refused (a new entry also when the
\* server has it, with other values), or given up for now.
Send ==
    /\ flush # Nil /\ flush.step = "next" /\ Todo # {}
    /\ LET n == Min(Todo)
       IN \/ /\ online /\ Take(n, flush.items[n])
             /\ \/ flush' = [flush EXCEPT !.step = "ok"] /\ UNCHANGED faults
                \/ flush' = [flush EXCEPT !.step = "end"] /\ Fault
             /\ UNCHANGED refused
          \/ /\ flush' = [flush EXCEPT !.step = "end"]
             /\ IF online THEN Fault ELSE UNCHANGED faults
             /\ UNCHANGED <<server, refused>>
          \/ /\ online
             /\ n \notin applied \/ flush.items[n].kind = "new"
             /\ flush' = [flush EXCEPT !.step = "refused"] /\ Fault
             /\ refused' = refused \cup {n}
             /\ UNCHANGED server
    /\ UNCHANGED <<owner, online, ui, save, queue, again, strip, list, fetch,
                   losses, told, blind, byHelper>>

\* What the answer does to the entry; the strip is told to read the outbox.
Settle ==
    /\ flush # Nil /\ flush.step \in {"ok", "refused"}
    /\ LET n == Min(Todo)
       IN /\ flush' = [items |-> [flush.items EXCEPT ![n] = Nil], step |-> "next",
                       synced |-> IF flush.step = "ok" THEN flush.synced \cup {n} ELSE flush.synced]
          /\ queue' = IF flush.step = "ok" THEN [queue EXCEPT ![n] = Nil]
                      ELSE IF queue[n] = Nil THEN queue
                      ELSE [queue EXCEPT ![n].rejected = TRUE]
    /\ unread' = TRUE
    /\ UNCHANGED <<owner, online, ui, save, again, rows, confirming, list, fetch,
                   server, faults, losses, told, refused, blind, byHelper>>

\* (mutant) a fetch under way is left to answer
EndRunKeepingFetch ==
    /\ flush # Nil
    /\ flush.step = "end" \/ (flush.step = "next" /\ Todo = {})
    /\ confirming' = confirming \cup {n \in flush.synced : kind[n] = "new"}
    /\ fetch' = IF flush.synced # {} /\ fetch = NoFetch THEN Asked ELSE fetch
    /\ flush' = IF again THEN NewRun ELSE Nil
    /\ again' = FALSE
    /\ UNCHANGED <<owner, online, ui, save, queue, rows, unread, list,
                   server, faults, losses, told, refused, blind, byHelper>>

\* The end of a run: the creates it confirmed are remembered, the list is fetched
\* anew, and the run goes around once more if it was asked to.
EndRun ==
    /\ flush # Nil
    /\ flush.step = "end" \/ (flush.step = "next" /\ Todo = {})
    /\ confirming' = confirming \cup {n \in flush.synced : kind[n] = "new"}
    /\ fetch' = IF flush.synced # {} THEN Asked ELSE fetch
    /\ flush' = IF again THEN NewRun ELSE Nil
    /\ again' = FALSE
    /\ UNCHANGED <<owner, online, ui, save, queue, rows, unread, list,
                   server, faults, losses, told, refused, blind, byHelper>>

\* The retry timer, while something waits.
Timer ==
    /\ owner /\ online /\ Pending # {} /\ flush = Nil
    /\ RequestFlush
    /\ UNCHANGED <<owner, online, ui, save, queue, strip, list, fetch,
                   server, faults, losses, told, refused, blind, byHelper>>

\* The user sees that an entry was refused and tries it again.
TryAgain(n) ==
    /\ rows[n] # Nil /\ rows[n].rejected
    /\ queue[n] # Nil /\ queue[n].rejected
    /\ queue' = [queue EXCEPT ![n].rejected = FALSE]
    /\ unread' = TRUE
    /\ RequestFlush
    /\ UNCHANGED <<owner, online, ui, save, rows, confirming, list, fetch,
                   server, faults, losses, told, refused, blind, byHelper>>

\* The service worker sends the oldest entry; its message makes the page fetch the
\* list, but not read the outbox for the strip.
HelperSends ==
    /\ Helper /\ owner /\ online /\ Pending # {} /\ Fault
    /\ LET n == Min(Pending)
       IN /\ Take(n, queue[n])
          /\ queue' = [queue EXCEPT ![n] = Nil]
          /\ byHelper' = byHelper \cup {n}
    /\ fetch' = Asked
    /\ UNCHANGED <<owner, online, ui, save, flush, again, strip, list,
                   losses, told, refused, blind>>

-----------------------------------------------------------------------------
(* What the page shows *)

\* The strip reads the outbox.
ReadRows ==
    /\ unread /\ rows' = queue /\ unread' = FALSE
    /\ UNCHANGED <<owner, online, ui, save, queue, flush, again, confirming, list, fetch,
                   server, faults, losses, told, refused, blind, byHelper>>

\* CONFIRMING_MS are over.
Forget(n) ==
    /\ n \in confirming /\ confirming' = confirming \ {n}
    /\ UNCHANGED <<owner, online, ui, save, queue, flush, again, rows, unread, list, fetch,
                   server, faults, losses, told, refused, blind, byHelper>>

\* The server answers the list's request, and the page shows the answer.
AnswerFetch ==
    /\ fetch.step = "asked"
    /\ fetch' = [step |-> "answered",
                 list |-> [created |-> {c[1] : c \in created}, record |-> record]]
    /\ UNCHANGED <<owner, online, ui, save, queue, flush, again, strip, list,
                   server, faults, losses, told, refused, blind, byHelper>>

ShowList ==
    /\ fetch.step = "answered"
    /\ list' = fetch.list /\ fetch' = NoFetch
    /\ UNCHANGED <<owner, online, ui, save, queue, flush, again, strip,
                   server, faults, losses, told, refused, blind, byHelper>>

\* The account is known: the outbox is its, and what waits is sent.
KnowOwner ==
    /\ ~owner /\ owner' = TRUE
    /\ RequestFlush
    /\ UNCHANGED <<online, ui, save, queue, strip, list, fetch,
                   server, faults, losses, told, refused, blind, byHelper>>

GoOffline ==
    /\ online /\ losses < MaxOffline
    /\ online' = FALSE /\ losses' = losses + 1
    /\ UNCHANGED <<owner, ui, save, queue, flush, again, strip, list, fetch,
                   server, faults, told, refused, blind, byHelper>>

GoOnline ==
    /\ ~online /\ online' = TRUE
    /\ RequestFlush
    /\ UNCHANGED <<owner, ui, save, queue, strip, list, fetch,
                   server, faults, losses, told, refused, blind, byHelper>>

SaveStep == Post \/ PostConfirmed \/ PostKept \/ PostFailed \/ Store \/ Stored
RunStep  == ReadOutbox \/ Send \/ Settle \/ EndRun

SaveNext ==
    \/ (\E k \in {"new", "edit"} : Open(k)) \/ Fill \/ Close \/ Click
    \/ SaveStep \/ RunStep \/ Timer \/ HelperSends
    \/ \E n \in Forms : TryAgain(n) \/ Forget(n)
    \/ ReadRows \/ AnswerFetch \/ ShowList
    \/ KnowOwner \/ GoOffline \/ GoOnline

SaveSpec == SaveInit /\ [][SaveNext]_pathVars

\* Handlers run to their end and the retry timer starts a run when none is under
\* way; reads and fetches are answered; the account becomes known and the
\* connection comes back.
SaveFairness ==
    /\ WF_pathVars(SaveStep) /\ WF_pathVars(RunStep \/ Timer)
    /\ WF_pathVars(ReadRows \/ AnswerFetch \/ ShowList)
    /\ WF_pathVars(KnowOwner \/ GoOnline)

-----------------------------------------------------------------------------
(* What saving promises *)

Recorded(n) == \E k \in Keys : <<n, k>> \in created

\* saveTransaction.ts:22 "retries reuse the same key, so they cannot create a
\* second record": one entry makes at most one record, whatever mix of direct
\* requests, lost answers, clicks and outbox runs it goes through, and none is
\* mistaken for another.
OneRecordPerEntry ==
    \A n \in Forms : Cardinality({k \in Keys : <<n, k>> \in created}) <= 1

\* saveTransaction.ts:86 "Never says saved for something Drive hasn't confirmed":
\* what was reported saved the server has, under that entry; what was reported
\* syncing is in the outbox until the server has it.
TellsTheTruth ==
    \A n \in Forms :
        LET there == IF kind[n] = "new" THEN Recorded(n) ELSE n \in applied
        IN /\ told[n] = "saved" => there
           /\ told[n] = "syncing" => there \/ queue[n] # Nil

\* pendingTransactions.ts:133 "would let a second edit silently overwrite the first
\* one's changes": an edit the user was told of is never overwritten by a later one,
\* whether it was listed or still in the outbox when the later form was opened. Exempt
\* are an edit saved before the outbox had been read for its form while another waited
\* (the button is on meanwhile), a form opened while the page could not know of an
\* earlier edit, or while an edit waits that was made so or refused, and a refused
\* edit that the user tries again.
EditsBuildOnEdits ==
    [][\A e \in (record \ record') \ refused :
          told[e] \in {"syncing", "saved"} =>
              /\ record' # {}
              /\ \/ Max(record') \in blind \cup refused
                 \/ byHelper # {}]_pathVars

\* pendingTransactions.ts:14 "so it is never shown twice": whenever the page has
\* caught up, an entry the user was told is on its way is shown exactly once, in
\* the strip or in the list.
Quiet == save = Nil /\ flush = Nil /\ ~unread /\ fetch = NoFetch

Shown(n) == {place \in {"strip", "confirming", "list"} :
    \/ place = "strip" /\ rows[n] # Nil
    \/ place = "confirming" /\ n \in confirming /\ n \notin list.created
    \/ place = "list" /\ n \in list.created}

ShownOnce ==
    Quiet => \A n \in Forms :
        told[n] \in {"syncing", "saved"} /\ kind[n] = "new" /\ n \notin byHelper
            /\ (queue[n] = Nil \/ ~Recorded(n)) => Cardinality(Shown(n)) = 1

\* saveTransaction.ts:21 "Because the outbox is durable, the save survives": however
\* often it is looked at, there comes a time when every entry whose form was closed as
\* syncing is listed, or refused and shown as such.
SyncingIsListed ==
    []<>(\A n \in Forms :
            told[n] = "syncing" /\ kind[n] = "new" =>
                n \in list.created \/ (rows[n] # Nil /\ rows[n].rejected))

=============================================================================
