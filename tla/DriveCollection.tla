-------------------------- MODULE DriveCollection --------------------------
(***************************************************************************)
(* backend/src/services/drive/dataService.ts: one user's collection file   *)
(* in Google Drive, as served by one Node process.                         *)
(*                                                                         *)
(* Every request runs as the chain of awaits the code writes: wait for the *)
(* per-collection lock, resolve the workspace, load the file (20 s read    *)
(* cache or a Drive GET), change it, and write the file and the manifest   *)
(* to Drive at the same time. Readers run the same load WITHOUT the lock.  *)
(* Drive serves a GET at one moment and its answer is processed at a later *)
(* one; a PUT is sent, applied and answered at three different moments.    *)
(***************************************************************************)
EXTENDS Records, Naturals, Sequences

CONSTANTS
    Ops,            \* operations clients may ask for (a subset of Op)
    Faults,         \* which failures happen in this instance
    LateFills,      \* may a PUT take effect between a reader's GET being
                    \* served by Drive and its answer being processed?
    MaxRestarts     \* bound on process restarts

FaultKinds == {"load", "fileWrite", "manifestWrite", "restart"}

ASSUME OpsAssumption == Ops \subseteq Op
ASSUME EnvAssumption ==
    /\ Faults \subseteq FaultKinds
    /\ LateFills \in BOOLEAN
    /\ MaxRestarts \in Nat
ASSUME NoneIsNoContent == None \notin Content

VARIABLES
    drive,      \* content of the collection file in Google Drive
    revisions,  \* Drive's revision history of that file
    cache,      \* recordCache entry: a file, or None
    idem,       \* idempotencyCache: key -> [id, hash] or None
    queue,      \* locks: unsettled withLock() calls, oldest first
    pc,         \* where each request is
    op,         \* what each request asks for
    file,       \* the request's own copy of the file
    put,        \* the request's PUT of the collection file
    man,        \* the request's PUT of manifest.json
    answer,     \* what the client was told
    restarts

vars == <<drive, revisions, cache, idem, queue, pc, op, file, put, man, answer, restarts>>

writes == <<drive, revisions, put, man>>

Pc == {"idle", "queued", "ready", "loading", "loaded", "saving", "settled"}
Status == {"ok", "conflict", "missing", "error", "lost"}
Answer == [status : Status, id : Ids \cup {None}]

ASSUME NoneIsNoAnswer == None \notin Op \cup Answer

TypeOK ==
    /\ drive \in Content
    /\ revisions \in SUBSET Content
    /\ cache \in Content \cup {None}
    /\ idem \in [Keys -> [id : Ids, hash : Vals] \cup {None}]
    /\ queue \in Seq(Requests)
    /\ pc \in [Requests -> Pc]
    /\ op \in [Requests -> Ops \cup {None}]
    /\ file \in [Requests -> Content]
    /\ put \in [Requests -> {"none", "sent", "applied", "dropped"}]
    /\ man \in [Requests -> {"none", "sent", "ok", "failed"}]
    /\ answer \in [Requests -> Answer \cup {None}]
    /\ restarts \in Nat

\* A workspace that setupWorkspace has just verified, and a fresh process.
Init ==
    /\ drive = EmptyFile
    /\ revisions = {EmptyFile}
    /\ cache = None
    /\ idem = [k \in Keys |-> None]
    /\ queue = << >>
    /\ pc = [r \in Requests |-> "idle"]
    /\ op = [r \in Requests |-> None]
    /\ file = [r \in Requests |-> EmptyFile]
    /\ put = [r \in Requests |-> "none"]
    /\ man = [r \in Requests |-> "none"]
    /\ answer = [r \in Requests |-> None]
    /\ restarts = 0

-----------------------------------------------------------------------------
(* Answering a request *)

\* The withLock() promise of a write settles: the next caller's turn.
Unlock(r) == queue' = IF IsWrite(op[r]) THEN Tail(queue) ELSE queue

Settle(r, status, id) ==
    /\ pc' = [pc EXCEPT ![r] = "settled"]
    /\ answer' = [answer EXCEPT ![r] = [status |-> status, id |-> id]]

\* idempotentHit(): the key is remembered by this process.
Hit(o) == IsKeyed(o) /\ idem[o.key] # None

\* (mutant) a repeated key is answered without comparing payloads
AnswerAnyPayload(r, o, id, hash) == Settle(r, "ok", id)

\* Same key and same payload -> the original record; other payload -> 409.
AnswerOriginal(r, o, id, hash) ==
    IF hash = o.val THEN Settle(r, "ok", id) ELSE Settle(r, "conflict", None)

-----------------------------------------------------------------------------
(* Arrival, and the turn under the lock *)

\* A request arrives. A keyed create that this process remembers is answered
\* before the lock; every other write joins the lock's promise chain.
Arrive(r) ==
    /\ pc[r] = "idle"
    /\ \E o \in Ops :
        /\ op' = [op EXCEPT ![r] = o]
        /\ \/ /\ Hit(o)
              /\ AnswerOriginal(r, o, idem[o.key].id, idem[o.key].hash)
              /\ UNCHANGED <<queue, file>>
           \/ /\ ~Hit(o) /\ IsWrite(o)
              /\ pc' = [pc EXCEPT ![r] = "queued"]
              /\ queue' = Append(queue, r)
              /\ IF o.kind = "restore"
                 THEN \E rev \in revisions : file' = [file EXCEPT ![r] = rev]
                 ELSE UNCHANGED file
              /\ UNCHANGED answer
           \/ /\ ~IsWrite(o)
              /\ pc' = [pc EXCEPT ![r] = "ready"]
              /\ UNCHANGED <<queue, file, answer>>
    /\ UNCHANGED <<writes, cache, idem, restarts>>

\* withLock(): fn starts once every earlier write has settled.
TakeLock(r) ==
    /\ pc[r] = "queued" /\ queue # << >> /\ Head(queue) = r
    /\ pc' = [pc EXCEPT ![r] = "ready"]
    /\ UNCHANGED <<writes, cache, idem, queue, op, file, answer, restarts>>

-----------------------------------------------------------------------------
(* Loading, changing and saving the file *)

\* saveCollectionFile(): both PUTs leave together.
Send(r, content) ==
    /\ file' = [file EXCEPT ![r] = content]
    /\ pc' = [pc EXCEPT ![r] = "saving"]
    /\ put' = [put EXCEPT ![r] = "sent"]
    /\ man' = [man EXCEPT ![r] = "sent"]
    /\ UNCHANGED <<drive, revisions, idem, queue, answer>>

\* A read is answered with the file it loaded.
FinishRead(r, base) ==
    /\ ~IsWrite(op[r])
    /\ Settle(r, "ok", None)
    /\ file' = [file EXCEPT ![r] = base]
    /\ UNCHANGED <<writes, idem, queue>>

\* A retried create whose record is already in the file: no second record.
FinishDuplicate(r, base) ==
    /\ IsKeyed(op[r])
    /\ \E i \in Marked(base, op[r].key) :
        /\ AnswerOriginal(r, op[r], i, base[i].hash)
        /\ idem' = IF base[i].hash = op[r].val
                   THEN [idem EXCEPT ![op[r].key] = [id |-> i, hash |-> op[r].val]]
                   ELSE idem
    /\ Unlock(r)
    /\ UNCHANGED <<writes, file>>

\* An update of an unknown id is a 404; a delete that finds nothing writes nothing.
FinishMissing(r, base) ==
    /\ IsWrite(op[r]) /\ ~HasTarget(op[r], base)
    /\ Settle(r, "missing", None)
    /\ Unlock(r)
    /\ UNCHANGED <<writes, idem, file>>

\* (mutant) only the key cache is asked for duplicates, not the file
ChangeUnchecked(r, base) ==
    /\ IsWrite(op[r]) /\ HasTarget(op[r], base)
    /\ Send(r, Effect(op[r], r, base))

\* The change itself, on a private copy of the file.
Change(r, base) ==
    /\ IsWrite(op[r]) /\ HasTarget(op[r], base)
    /\ IsKeyed(op[r]) => Marked(base, op[r].key) = {}
    /\ Send(r, Effect(op[r], r, base))

\* What follows a load, synchronously: one of the four outcomes.
UseFile(r, base) ==
    \/ FinishRead(r, base)
    \/ FinishDuplicate(r, base)
    \/ FinishMissing(r, base)
    \/ Change(r, base)

\* The workspace is resolved; the callback runs up to its first await.
Enter(r) ==
    /\ pc[r] = "ready"
    /\ \/ \* another request with this key finished while we waited for the lock
          /\ Hit(op[r])
          /\ AnswerOriginal(r, op[r], idem[op[r].key].id, idem[op[r].key].hash)
          /\ Unlock(r)
          /\ UNCHANGED <<writes, idem, file>>
       \/ \* a restore never loads the current file
          /\ op[r].kind = "restore"
          /\ Send(r, file[r])
       \/ \* fresh copy in the record cache
          /\ ~Hit(op[r]) /\ op[r].kind \notin {"restore", "verify"}
          /\ cache # None
          /\ UseFile(r, cache)
       \/ \* ask Drive
          /\ ~Hit(op[r]) /\ op[r].kind # "restore"
          /\ cache = None \/ op[r].kind = "verify"
          /\ pc' = [pc EXCEPT ![r] = "loading"]
          /\ UNCHANGED <<writes, idem, queue, file, answer>>
    /\ UNCHANGED <<cache, op, restarts>>

\* Drive serves the GET ...
ServeGet(r) ==
    /\ pc[r] = "loading"
    /\ pc' = [pc EXCEPT ![r] = "loaded"]
    /\ file' = [file EXCEPT ![r] = drive]
    /\ UNCHANGED <<writes, cache, idem, queue, op, answer, restarts>>

\* ... and its answer is processed: loadCollectionFile fills the cache.
ReturnGet(r) ==
    /\ pc[r] = "loaded"
    /\ cache' = file[r]
    /\ UseFile(r, file[r])
    /\ UNCHANGED <<op, restarts>>

\* Token, folder, manifest or file could not be read: the request fails, and a
\* save whose own manifest load failed drops the cached file as well.
LoadFails(r) ==
    /\ "load" \in Faults
    /\ pc[r] \in {"ready", "loading", "loaded"}
    /\ Settle(r, "error", None)
    /\ Unlock(r)
    /\ cache' = cache \/ (IsWrite(op[r]) /\ cache' = None)
    /\ UNCHANGED <<writes, idem, op, file, restarts>>

-----------------------------------------------------------------------------
(* The two PUTs, and Promise.all over them *)

\* Readers hold no lock: their GET may have been served and not processed yet.
ReaderPending == \E s \in Requests : pc[s] = "loaded" /\ ~IsWrite(op[s])

\* Drive applies a PUT of the collection file, even one nobody awaits any more.
ApplyPut(r) ==
    /\ put[r] = "sent"
    /\ LateFills \/ ~ReaderPending
    /\ drive' = file[r]
    /\ revisions' = revisions \cup {file[r]}
    /\ put' = [put EXCEPT ![r] = "applied"]
    /\ UNCHANGED <<cache, idem, queue, pc, op, file, man, answer, restarts>>

\* The PUT never takes effect (refused by Drive, or the connection broke).
DropPut(r) ==
    /\ "fileWrite" \in Faults
    /\ put[r] = "sent"
    /\ put' = [put EXCEPT ![r] = "dropped"]
    /\ UNCHANGED <<drive, revisions, cache, idem, queue, pc, op, file, man, answer, restarts>>

ManifestWritten(r) ==
    /\ man[r] = "sent"
    /\ man' = [man EXCEPT ![r] = "ok"]
    /\ UNCHANGED <<drive, revisions, cache, idem, queue, pc, op, file, put, answer, restarts>>

ManifestFails(r) ==
    /\ "manifestWrite" \in Faults
    /\ man[r] = "sent"
    /\ man' = [man EXCEPT ![r] = "failed"]
    /\ UNCHANGED <<drive, revisions, cache, idem, queue, pc, op, file, put, answer, restarts>>

\* (mutant) the answer waits for the manifest only
SaveSucceedsEarly(r) ==
    /\ pc[r] = "saving" /\ man[r] = "ok"
    /\ cache' = file[r]
    /\ UNCHANGED idem
    /\ Settle(r, "ok", IF op[r].kind = "create" THEN r ELSE None)
    /\ Unlock(r)
    /\ UNCHANGED <<writes, op, file, restarts>>

\* (mutant) no write-through
SaveKeepsCache(r) ==
    /\ pc[r] = "saving" /\ put[r] = "applied" /\ man[r] = "ok"
    /\ UNCHANGED <<cache, idem>>
    /\ Settle(r, "ok", IF op[r].kind = "create" THEN r ELSE None)
    /\ Unlock(r)
    /\ UNCHANGED <<writes, op, file, restarts>>

\* Both writes confirmed: write-through, remember the key, answer.
SaveSucceeds(r) ==
    /\ pc[r] = "saving" /\ put[r] = "applied" /\ man[r] = "ok"
    /\ cache' = file[r]
    /\ idem' = IF IsKeyed(op[r])
               THEN [idem EXCEPT ![op[r].key] = [id |-> r, hash |-> op[r].val]]
               ELSE idem
    /\ Settle(r, "ok", IF op[r].kind = "create" THEN r ELSE None)
    /\ Unlock(r)
    /\ UNCHANGED <<writes, op, file, restarts>>

\* (mutant) a failed save leaves the cached file in place
FailKeepsCache(r) ==
    /\ pc[r] = "saving"
    /\ put[r] = "dropped" \/ (put[r] = "applied" /\ "fileWrite" \in Faults) \/ man[r] = "failed"
    /\ Settle(r, "error", None)
    /\ Unlock(r)
    /\ UNCHANGED <<writes, cache, idem, op, file, restarts>>

\* (mutant) a failed save never lets the next writer go on
FailKeepsLock(r) ==
    /\ pc[r] = "saving"
    /\ put[r] = "dropped" \/ (put[r] = "applied" /\ "fileWrite" \in Faults) \/ man[r] = "failed"
    /\ cache' = None
    /\ Settle(r, "error", None)
    /\ UNCHANGED <<writes, idem, queue, op, file, restarts>>

\* Promise.all rejects as soon as ONE write is known to have failed (a PUT that
\* was applied fails too when its answer is lost); the other is not awaited.
SaveFails(r) ==
    /\ pc[r] = "saving"
    /\ \/ put[r] = "dropped"
       \/ put[r] = "applied" /\ "fileWrite" \in Faults
       \/ man[r] = "failed"
    /\ cache' = None
    /\ Settle(r, "error", None)
    /\ Unlock(r)
    /\ UNCHANGED <<writes, idem, op, file, restarts>>

-----------------------------------------------------------------------------
(* Time and restarts *)

CacheExpires ==
    /\ cache # None
    /\ cache' = None
    /\ UNCHANGED <<writes, idem, queue, pc, op, file, answer, restarts>>

IdemExpires(k) ==
    /\ idem[k] # None
    /\ idem' = [idem EXCEPT ![k] = None]
    /\ UNCHANGED <<writes, cache, queue, pc, op, file, answer, restarts>>

\* The process dies and starts again: everything in memory is gone, no client
\* gets an answer, and Drive settles the PUTs it had received (it applies at
\* most one of them last) before the new process serves requests.
Restart ==
    /\ "restart" \in Faults /\ restarts < MaxRestarts
    /\ restarts' = restarts + 1
    /\ cache' = None
    /\ idem' = [k \in Keys |-> None]
    /\ queue' = << >>
    /\ LET open == {r \in Requests : pc[r] \notin {"idle", "settled"}}
           sent == {r \in Requests : put[r] = "sent"}
       IN /\ pc' = [r \in Requests |-> IF r \in open THEN "settled" ELSE pc[r]]
          /\ answer' = [r \in Requests |->
                IF r \in open THEN [status |-> "lost", id |-> None] ELSE answer[r]]
          /\ \E late \in SUBSET sent :
                /\ put' = [r \in Requests |->
                     IF r \in late THEN "applied"
                     ELSE IF r \in sent THEN "dropped" ELSE put[r]]
                /\ revisions' = revisions \cup {file[r] : r \in late}
                /\ IF late = {} THEN drive' = drive
                   ELSE \E r \in late : drive' = file[r]
    /\ UNCHANGED <<op, file, man>>

-----------------------------------------------------------------------------

Step(r) ==
    \/ TakeLock(r) \/ Enter(r) \/ ServeGet(r) \/ ReturnGet(r)
    \/ ApplyPut(r) \/ ManifestWritten(r)
    \/ SaveSucceeds(r) \/ SaveFails(r)

Fault(r) == LoadFails(r) \/ DropPut(r) \/ ManifestFails(r)

Next ==
    \/ \E r \in Requests : Arrive(r) \/ Step(r) \/ Fault(r)
    \/ \E k \in Keys : IdemExpires(k)
    \/ CacheExpires
    \/ Restart

Spec == Init /\ [][Next]_vars

\* Node runs every ready callback, and Google answers every request in the end.
Fairness ==
    \A r \in Requests :
        /\ WF_vars(TakeLock(r)) /\ WF_vars(Enter(r))
        /\ WF_vars(ServeGet(r)) /\ WF_vars(ReturnGet(r))
        /\ WF_vars(ApplyPut(r) \/ DropPut(r))
        /\ WF_vars(ManifestWritten(r) \/ ManifestFails(r))
        /\ WF_vars(SaveSucceeds(r) \/ SaveFails(r))

FairSpec == Spec /\ Fairness

-----------------------------------------------------------------------------
(* What clients rely on *)

\* Requests between taking and releasing the lock.
Working == {r \in Requests : pc[r] \in {"ready", "loading", "loaded", "saving"}}
Writers == {r \in Working : IsWrite(op[r])}

\* withLock(): two writes of one collection never run at the same time, and the
\* lock is held by the write that asked first.
OneWriter == \A r \in Writers : queue # << >> /\ Head(queue) = r

\* createRecord()'s duplicate check: no file that exists anywhere - in Drive, in
\* its history, in the cache or on its way to Drive - holds two records created
\* under one idempotency key, whatever fails and whatever is retried.
OneRecordPerKey ==
    /\ \A c \in revisions \cup {drive} : OnePerKey(c)
    /\ cache # None => OnePerKey(cache)
    /\ \A r \in Requests : OnePerKey(file[r])

\* A record of this content was in some version of the file Drive has stored.
WasStored(i, k, h) == \E c \in revisions : c[i] # None /\ c[i].key = k /\ c[i].hash = h

\* A client told that its create succeeded can find that record in Drive's
\* history with its own payload, and a client refused with 409 really had reused
\* a key that a stored record with another payload carries.
AnswersAreTrue ==
    \A r \in Requests :
        LET o == op[r]
            a == answer[r]
        IN (a # None /\ o.kind = "create") =>
            /\ a.status = "ok" => a.id # None /\ WasStored(a.id, o.key, o.val)
            /\ a.status = "conflict" =>
                  \E i \in Ids : \E h \in Vals \ {o.val} : WasStored(i, o.key, h)

\* "read current state, mutate, write back" is safe against lost updates: every
\* change of the file in Drive is one operation applied to its current content.
AtomicChange(r) ==
    /\ put[r] = "sent" /\ put'[r] = "applied"
    /\ \/ op[r].kind = "restore" /\ drive' \in revisions
       \/ /\ op[r].kind # "restore"
          /\ HasTarget(op[r], drive)
          /\ IsKeyed(op[r]) => Marked(drive, op[r].key) = {}
          /\ drive' = Effect(op[r], r, drive)

NoLostUpdate == [][drive' # drive => \E r \in Requests : AtomicChange(r)]_vars

\* A list that is answered while no write is under way shows what Drive holds,
\* cache or no cache: a client reads its own confirmed writes.
ReadIsCurrent(r) ==
    (/\ pc[r] # "settled" /\ pc'[r] = "settled" /\ answer'[r].status = "ok"
     /\ op'[r].kind = "list" /\ Writers = {}) => file'[r] = drive

ReadsAreCurrent == [][\A r \in Requests : ReadIsCurrent(r)]_vars

\* Some request was told to take record i away (a restore may take any).
RemovalAsked(i) ==
    \E r \in Requests : /\ op[r] # None
                        /\ op[r].kind = "restore" \/ (op[r].kind = "delete" /\ i \in op[r].ids)

\* dataService.ts:277, saveTransaction.ts:22: creates retried under one key are
\* all answered with one record - across restarts, expiry of the key cache and
\* answers that got lost - unless somebody removed that record in between.
RetryReturnsOriginal ==
    \A r, s \in Requests :
        (/\ answer[r] # None /\ answer[s] # None
         /\ IsKeyed(op[r]) /\ IsKeyed(op[s]) /\ op[r].key = op[s].key
         /\ answer[r].status = "ok" /\ answer[s].status = "ok")
        => \/ answer[r].id = answer[s].id
           \/ RemovalAsked(answer[r].id) \/ RemovalAsked(answer[s].id)

\* One failed write never wedges the lock for everyone after it: every request
\* is answered.
EveryRequestAnswered == \A r \in Requests : pc[r] # "idle" ~> pc[r] = "settled"

-----------------------------------------------------------------------------
(* The store the service promises *)

Store == INSTANCE RecordStore WITH
    store   <- drive,
    past    <- revisions,
    call    <- op,
    applied <- {r \in Requests : put[r] = "applied"},
    reply   <- answer

\* Seen through the file in Drive and the answers, the service is an atomic
\* record store: each write takes effect at most once, in one step between its
\* request and its answer, and every answer is true of that store.
ImplementsStore == Store!SSpec
=============================================================================
