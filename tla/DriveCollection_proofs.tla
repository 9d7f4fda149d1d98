----------------------- MODULE DriveCollection_proofs -----------------------
(***************************************************************************)
(* DriveCollection, for every set of requests, keys and payloads. In every *)
(* environment: its types, that one write works at a time and no one is    *)
(* wedged, that a key has one record, and that answers are true. In a calm *)
(* one: that copies in memory are what Drive holds, so that no update is   *)
(* lost, reads are current, retries meet the record of the first try, and  *)
(* the service implements the abstract RecordStore.                        *)
(***************************************************************************)
EXTENDS DriveCollection, TLAPS

-----------------------------------------------------------------------------
(* The operators of Records *)

\* A request's operation turns a well-formed file into a well-formed file.
LEMMA EffectType ==
    ASSUME NEW o \in Op, NEW r \in Requests, NEW c \in Content, HasTarget(o, c)
    PROVE  Effect(o, r, c) \in Content
<1>1. CASE o.kind = "create"
    <2>1. o.key \in Keys \cup {NoKey} /\ o.val \in Vals
        BY <1>1 DEF Op, CreateOp, UpdateOp, UpsertOp, DeleteOp, RestoreOp, ReadOp
    <2> QED  BY <1>1, <2>1 DEF Effect, Created, Updated, Upserted, Deleted, Content, Record, Ids
<1>2. CASE o.kind = "update"
    <2>1. o.id \in Ids /\ o.val \in Vals
        BY <1>2 DEF Op, CreateOp, UpdateOp, UpsertOp, DeleteOp, RestoreOp, ReadOp
    <2>2. c[o.id] \in Record
        BY <1>2, <2>1 DEF HasTarget, Content
    <2> QED  BY <1>2, <2>1, <2>2 DEF Effect, Created, Updated, Upserted, Deleted, Content, Record
<1>3. CASE o.kind = "upsert"
    <2>1. o.val \in Vals
        BY <1>3 DEF Op, CreateOp, UpdateOp, UpsertOp, DeleteOp, RestoreOp, ReadOp
    <2> QED  BY <1>3, <2>1 DEF Effect, Created, Updated, Upserted, Deleted, Content, Record, Ids
<1>4. CASE o.kind = "delete"
    BY <1>4 DEF Effect, Created, Updated, Upserted, Deleted, Content
<1>5. CASE o.kind \notin {"create", "update", "upsert", "delete"}
    BY <1>5 DEF Effect, Created, Updated, Upserted, Deleted
<1> QED  BY <1>1, <1>2, <1>3, <1>4, <1>5

\* An operation never gives a file a second record under one idempotency key,
\* provided a keyed create found no record under its key.
LEMMA EffectOnePerKey ==
    ASSUME NEW o \in Op, NEW r \in Requests, NEW c \in Content, HasTarget(o, c),
           IsKeyed(o) => Marked(c, o.key) = {}, OnePerKey(c)
    PROVE  OnePerKey(Effect(o, r, c))
<1> DEFINE d == Effect(o, r, c)
<1> SUFFICES ASSUME NEW k \in Keys, NEW i \in Marked(d, k), NEW j \in Marked(d, k)
             PROVE  i = j
    BY DEF OnePerKey
<1>0. d \in Content
    BY EffectType
<1>a. /\ i \in Ids /\ d[i] # None /\ d[i].key = k
      /\ j \in Ids /\ d[j] # None /\ d[j].key = k
    BY DEF Marked
<1>b. \A x, y \in Ids : (c[x] # None /\ c[x].key = k /\ c[y] # None /\ c[y].key = k) => x = y
    BY DEF OnePerKey, Marked
<1>c. k # NoKey
    BY DistinctConstants
<1>1. CASE o.kind = "create"
    <2>1. d = [c EXCEPT ![r] = [key |-> o.key, hash |-> o.val, val |-> o.val]]
        BY <1>1 DEF Effect, Created, Updated, Upserted, Deleted
    <2>2. r \in Ids /\ DOMAIN c = Ids
        BY DEF Ids, Content
    <2>3. d[r].key = o.key /\ \A x \in Ids \ {r} : d[x] = c[x]
        BY <2>1, <2>2
    <2>4. o.key = k => \A x \in Ids : c[x] # None => c[x].key # k
        BY <1>1, <1>c DEF IsKeyed, Marked
    <2> QED  BY <2>3, <2>4, <1>a, <1>b
<1>2. CASE o.kind = "update"
    <2>1. o.id \in Ids /\ o.val \in Vals
        BY <1>2 DEF Op, CreateOp, UpdateOp, UpsertOp, DeleteOp, RestoreOp, ReadOp
    <2>2. c[o.id] # None
        BY <1>2 DEF HasTarget
    <2>3. \A x \in Ids : d[x] # None => c[x] # None /\ d[x].key = c[x].key
        BY <1>2, <2>1, <2>2 DEF Effect, Created, Updated, Upserted, Deleted, Content
    <2> QED  BY <2>3, <1>a, <1>b
<1>3. CASE o.kind = "upsert"
    <2>1. d[FixedId].key = NoKey /\ \A x \in Ids \ {FixedId} : d[x] = c[x]
        BY <1>3 DEF Effect, Created, Updated, Upserted, Deleted, Content, Ids
    <2> QED  BY <2>1, <1>a, <1>b, <1>c
<1>4. CASE o.kind = "delete"
    <2>1. \A x \in Ids : d[x] # None => d[x] = c[x]
        BY <1>4 DEF Effect, Created, Updated, Upserted, Deleted
    <2> QED  BY <2>1, <1>a, <1>b
<1>5. CASE o.kind \notin {"create", "update", "upsert", "delete"}
    <2>1. d = c
        BY <1>5 DEF Effect, Created, Updated, Upserted, Deleted
    <2> QED  BY <2>1, <1>a, <1>b
<1> QED  BY <1>1, <1>2, <1>3, <1>4, <1>5

-----------------------------------------------------------------------------
(* The lock *)

\* The requests in the promise chain of the collection's lock.
InLine(r) == pc[r] \notin {"idle", "settled"} /\ IsWrite(op[r])

\* What keeps OneWriter true: every request past arrival knows what it asks
\* for, each write in the chain is there once, and only the first one runs.
LockInv ==
    /\ \A r \in Requests : pc[r] # "idle" => op[r] \in Ops
    /\ \A r \in Requests : pc[r] = "queued" => IsWrite(op[r])
    /\ \A i, j \in 1..Len(queue) : queue[i] = queue[j] => i = j
    /\ \A i \in 1..Len(queue) : InLine(queue[i])
    /\ OneWriter

Inv == TypeOK /\ LockInv

\* Nothing runs and nobody waits in the initial state.
LEMMA InitInv == Init => Inv
BY NoneIsNoContent, EnvAssumption DEF Init, Inv, TypeOK, LockInv, OneWriter, Writers, Working, InLine,
    Content, EmptyFile, Pc, Answer

\* The reads and writes of a request keep their kind of answer and leave the
\* chain of the lock in order.
LEMMA SettleType ==
    ASSUME TypeOK, NEW r \in Requests, NEW status \in Status, NEW id \in Ids \cup {None},
           Settle(r, status, id)
    PROVE  /\ pc' \in [Requests -> Pc]
           /\ answer' \in [Requests -> Answer \cup {None}]
BY DEF TypeOK, Settle, Pc, Answer

\* Popping the chain of the lock leaves a sequence of requests.
LEMMA UnlockType ==
    ASSUME Inv, NEW r \in Requests, pc[r] \in {"ready", "loading", "loaded", "saving"}, Unlock(r)
    PROVE  queue' \in Seq(Requests)
BY DEF Inv, TypeOK, LockInv, OneWriter, Writers, Working, Unlock

\* A request that has arrived asks for an operation.
LEMMA OpType == ASSUME Inv, NEW r \in Requests, pc[r] # "idle" PROVE op[r] \in Op
BY OpsAssumption DEF Inv, LockInv

\* Using a loaded file keeps every variable it changes well-formed.
LEMMA UseFileType ==
    ASSUME Inv, NEW r \in Requests, NEW base \in Content,
           pc[r] \in {"ready", "loaded"}, UseFile(r, base)
    PROVE  /\ drive' \in Content /\ revisions' \in SUBSET Content
           /\ idem' \in [Keys -> [id : Ids, hash : Vals] \cup {None}]
           /\ queue' \in Seq(Requests)
           /\ pc' \in [Requests -> Pc]
           /\ file' \in [Requests -> Content]
           /\ put' \in [Requests -> {"none", "sent", "applied", "dropped"}]
           /\ man' \in [Requests -> {"none", "sent", "ok", "failed"}]
           /\ answer' \in [Requests -> Answer \cup {None}]
<1> USE DEF Inv
<1>0. op[r] \in Op
    BY OpType
<1>1. CASE FinishRead(r, base)
    BY <1>1, SettleType DEF FinishRead, TypeOK, writes, Status
<1>2. CASE FinishMissing(r, base)
    BY <1>2, SettleType, UnlockType DEF FinishMissing, TypeOK, writes, Status
<1>3. CASE FinishDuplicate(r, base)
    <2>1. op[r].key \in Keys /\ op[r].val \in Vals
        BY <1>0, <1>3 DEF FinishDuplicate, IsKeyed, Op, CreateOp, UpdateOp, UpsertOp, DeleteOp, RestoreOp, ReadOp
    <2>2. PICK i \in Ids : 
              /\ AnswerOriginal(r, op[r], i, base[i].hash)
              /\ idem' = IF base[i].hash = op[r].val
                         THEN [idem EXCEPT ![op[r].key] = [id |-> i, hash |-> op[r].val]]
                         ELSE idem
        BY <1>3 DEF FinishDuplicate, Marked
    <2>3. idem' \in [Keys -> [id : Ids, hash : Vals] \cup {None}]
        BY <2>1, <2>2 DEF TypeOK
    <2>4. pc' \in [Requests -> Pc] /\ answer' \in [Requests -> Answer \cup {None}]
        BY <2>2, SettleType DEF AnswerOriginal, Status
    <2> QED  BY <1>3, <2>3, <2>4, UnlockType DEF FinishDuplicate, TypeOK, writes
<1>4. CASE Change(r, base)
    <2>1. Effect(op[r], r, base) \in Content
        BY <1>0, <1>4, EffectType DEF Change
    <2> QED  BY <1>4, <2>1 DEF Change, Send, TypeOK, Pc
<1> QED  BY <1>1, <1>2, <1>3, <1>4 DEF UseFile

\* Every step keeps every variable in its type.
LEMMA TypeStep == Inv /\ [Next]_vars => TypeOK'
<1> SUFFICES ASSUME Inv, [Next]_vars PROVE TypeOK'
    OBVIOUS
<1> USE DEF Inv
<1>1. CASE UNCHANGED vars
    BY <1>1 DEF TypeOK, vars
<1>2. ASSUME NEW r \in Requests, Arrive(r) PROVE TypeOK'
    <2>1. PICK o \in Ops : 
              /\ op' = [op EXCEPT ![r] = o]
              /\ \/ /\ Hit(o)
                    /\ AnswerOriginal(r, o, idem[o.key].id, idem[o.key].hash)
                    /\ UNCHANGED <<queue, file>>
                 \/ /\ ~Hit(o) /\ IsWrite(o)
                    /\ pc' = [pc EXCEPT ![r] = "queued"]
                    /\ queue' = Append(queue, r)
                    /\ IF o.kind = "restore"
                       THEN \E rev \in revisions : file' = [file EXCEPT ![r] = rev]
                       ELSE UNCHANGED file
                    /\ UNCHANGED answer
                 \/ /\ ~IsWrite(o)
                    /\ pc' = [pc EXCEPT ![r] = "ready"]
                    /\ UNCHANGED <<queue, file, answer>>
        BY <1>2 DEF Arrive
    <2>2. UNCHANGED <<writes, cache, idem, restarts>>
        BY <1>2 DEF Arrive
    <2>3. op' \in [Requests -> Ops \cup {None}]
        BY <2>1 DEF TypeOK
    <2>4. pc' \in [Requests -> Pc] /\ answer' \in [Requests -> Answer \cup {None}]
        <3>1. CASE Hit(o) /\ AnswerOriginal(r, o, idem[o.key].id, idem[o.key].hash)
            <4>1. o.key \in Keys
                BY <3>1, OpsAssumption DEF Hit, IsKeyed, Op, CreateOp, UpdateOp, UpsertOp,
                    DeleteOp, RestoreOp, ReadOp
            <4>2. idem[o.key].id \in Ids
                BY <3>1, <4>1 DEF Hit, TypeOK
            <4> QED  BY <3>1, <4>2, SettleType DEF AnswerOriginal, Status
        <3>2. CASE ~(Hit(o) /\ AnswerOriginal(r, o, idem[o.key].id, idem[o.key].hash))
            BY <2>1, <3>2 DEF TypeOK, Pc
        <3> QED  BY <3>1, <3>2
    <2>5. queue' \in Seq(Requests) /\ file' \in [Requests -> Content]
        <3>1. queue' = queue \/ queue' = Append(queue, r)
            BY <2>1
        <3>2. file' = file \/ \E rev \in revisions : file' = [file EXCEPT ![r] = rev]
            BY <2>1
        <3> QED  BY <3>1, <3>2 DEF TypeOK
    <2> QED  BY <2>2, <2>3, <2>4, <2>5 DEF TypeOK, writes
<1>3. ASSUME NEW r \in Requests, TakeLock(r) PROVE TypeOK'
    BY <1>3 DEF TakeLock, TypeOK, writes, Pc
<1>4. ASSUME NEW r \in Requests, Enter(r) PROVE TypeOK'
    <2>0. pc[r] = "ready" /\ op[r] \in Op /\ UNCHANGED <<cache, op, restarts>>
        BY <1>4, OpType DEF Enter
    <2>1. CASE /\ Hit(op[r])
               /\ AnswerOriginal(r, op[r], idem[op[r].key].id, idem[op[r].key].hash)
               /\ Unlock(r)
               /\ UNCHANGED <<writes, idem, file>>
        <3>1. op[r].key \in Keys
            BY <2>0, <2>1 DEF Hit, IsKeyed, Op, CreateOp, UpdateOp, UpsertOp, DeleteOp, RestoreOp, ReadOp
        <3>2. idem[op[r].key].id \in Ids
            BY <2>1, <3>1 DEF Hit, TypeOK
        <3>3. pc' \in [Requests -> Pc] /\ answer' \in [Requests -> Answer \cup {None}]
            BY <2>1, <3>2, SettleType DEF AnswerOriginal, Status
        <3> QED  BY <2>0, <2>1, <3>3, UnlockType DEF TypeOK, writes
    <2>2. CASE op[r].kind = "restore" /\ Send(r, file[r])
        BY <2>0, <2>2 DEF Send, TypeOK, Pc
    <2>3. CASE cache # None /\ UseFile(r, cache)
        <3>1. cache \in Content
            BY <2>3 DEF TypeOK
        <3> HIDE DEF Inv
        <3>2. /\ drive' \in Content /\ revisions' \in SUBSET Content
              /\ idem' \in [Keys -> [id : Ids, hash : Vals] \cup {None}]
              /\ queue' \in Seq(Requests)
              /\ pc' \in [Requests -> Pc]
              /\ file' \in [Requests -> Content]
              /\ put' \in [Requests -> {"none", "sent", "applied", "dropped"}]
              /\ man' \in [Requests -> {"none", "sent", "ok", "failed"}]
              /\ answer' \in [Requests -> Answer \cup {None}]
            BY <2>0, <2>3, <3>1, UseFileType
        <3> QED  BY <2>0, <3>2 DEF TypeOK, Inv
    <2>4. CASE /\ pc' = [pc EXCEPT ![r] = "loading"]
               /\ UNCHANGED <<writes, idem, queue, file, answer>>
        BY <2>0, <2>4 DEF TypeOK, writes, Pc
    <2> QED  BY <1>4, <2>1, <2>2, <2>3, <2>4 DEF Enter
<1>5. ASSUME NEW r \in Requests, ServeGet(r) PROVE TypeOK'
    BY <1>5 DEF ServeGet, TypeOK, writes, Pc
<1>6. ASSUME NEW r \in Requests, ReturnGet(r) PROVE TypeOK'
    <2>1. /\ pc[r] = "loaded" /\ UseFile(r, file[r]) /\ file[r] \in Content
          /\ cache' = file[r] /\ UNCHANGED <<op, restarts>>
        BY <1>6 DEF ReturnGet, TypeOK
    <2> HIDE DEF Inv
    <2>2. /\ drive' \in Content /\ revisions' \in SUBSET Content
          /\ idem' \in [Keys -> [id : Ids, hash : Vals] \cup {None}]
          /\ queue' \in Seq(Requests)
          /\ pc' \in [Requests -> Pc]
          /\ file' \in [Requests -> Content]
          /\ put' \in [Requests -> {"none", "sent", "applied", "dropped"}]
          /\ man' \in [Requests -> {"none", "sent", "ok", "failed"}]
          /\ answer' \in [Requests -> Answer \cup {None}]
        BY <2>1, UseFileType
    <2> QED  BY <2>1, <2>2 DEF TypeOK, Inv
<1>7. ASSUME NEW r \in Requests, LoadFails(r) PROVE TypeOK'
    <2>1. pc' \in [Requests -> Pc] /\ answer' \in [Requests -> Answer \cup {None}]
        BY <1>7, SettleType DEF LoadFails, Status
    <2>2. queue' \in Seq(Requests)
        BY <1>7, UnlockType DEF LoadFails
    <2> QED  BY <1>7, <2>1, <2>2 DEF LoadFails, TypeOK, writes
<1>8. ASSUME NEW r \in Requests, ApplyPut(r) \/ DropPut(r) \/ ManifestWritten(r) \/ ManifestFails(r)
      PROVE  TypeOK'
    BY <1>8 DEF ApplyPut, DropPut, ManifestWritten, ManifestFails, TypeOK
<1>9. ASSUME NEW r \in Requests, SaveSucceeds(r) PROVE TypeOK'
    <2>1. pc' \in [Requests -> Pc] /\ answer' \in [Requests -> Answer \cup {None}]
        BY <1>9, SettleType DEF SaveSucceeds, Status, Ids
    <2>2. queue' \in Seq(Requests)
        BY <1>9, UnlockType DEF SaveSucceeds
    <2>3. idem' \in [Keys -> [id : Ids, hash : Vals] \cup {None}]
        <3>1. op[r] \in Op
            BY <1>9, OpType DEF SaveSucceeds
        <3>2. IsKeyed(op[r]) => op[r].val \in Vals
            BY <3>1 DEF IsKeyed, Op, CreateOp, UpdateOp, UpsertOp, DeleteOp, RestoreOp, ReadOp
        <3> QED  BY <1>9, <3>2 DEF SaveSucceeds, TypeOK, Ids
    <2> QED  BY <1>9, <2>1, <2>2, <2>3 DEF SaveSucceeds, TypeOK, writes
<1>10. ASSUME NEW r \in Requests, SaveFails(r) PROVE TypeOK'
    <2>1. pc' \in [Requests -> Pc] /\ answer' \in [Requests -> Answer \cup {None}]
        BY <1>10, SettleType DEF SaveFails, Status
    <2>2. queue' \in Seq(Requests)
        BY <1>10, UnlockType DEF SaveFails
    <2> QED  BY <1>10, <2>1, <2>2 DEF SaveFails, TypeOK, writes
<1>11. CASE CacheExpires
    BY <1>11 DEF CacheExpires, TypeOK, writes
<1>12. ASSUME NEW k \in Keys, IdemExpires(k) PROVE TypeOK'
    BY <1>12 DEF IdemExpires, TypeOK, writes
<1>13. CASE Restart
    <2>1. /\ drive' \in Content /\ revisions' \in SUBSET Content
          /\ put' \in [Requests -> {"none", "sent", "applied", "dropped"}]
        BY <1>13 DEF Restart, TypeOK
    <2>2. /\ pc' \in [Requests -> Pc] /\ answer' \in [Requests -> Answer \cup {None}]
        BY <1>13 DEF Restart, TypeOK, Pc, Answer, Status
    <2>3. /\ cache' = None /\ queue' = << >> /\ restarts' \in Nat
          /\ idem' \in [Keys -> [id : Ids, hash : Vals] \cup {None}]
          /\ UNCHANGED <<op, file, man>>
        BY <1>13 DEF Restart, TypeOK
    <2> QED  BY <2>1, <2>2, <2>3 DEF TypeOK
<1> QED
    BY <1>1, <1>2, <1>3, <1>4, <1>5, <1>6, <1>7, <1>8, <1>9, <1>10, <1>11, <1>12, <1>13
    DEF Next, Step, Fault

\* The lock's chain survives a step that leaves the queue and every operation
\* alone, in which request r is the only one to move: between two places inside
\* the chain, or, for a read, out of it.
LEMMA LockMove ==
    ASSUME Inv, NEW r \in Requests, NEW p \in Pc \ {"idle", "queued"},
           pc[r] \notin {"idle", "settled"}, pc' = [pc EXCEPT ![r] = p],
           op' = op, queue' = queue,
           pc[r] = "queued" => queue # << >> /\ Head(queue) = r,
           p = "settled" => ~IsWrite(op[r])
    PROVE  LockInv'
<1> USE DEF Inv, TypeOK, Pc
<1>1. \A s \in Requests : s # r => pc'[s] = pc[s]
    OBVIOUS
<1>2. pc'[r] = p
    OBVIOUS
<1>3. (\A s \in Requests : pc[s] # "idle" => op[s] \in Ops)'
    BY <1>1 DEF LockInv
<1>4. (\A s \in Requests : pc[s] = "queued" => IsWrite(op[s]))'
    BY <1>1, <1>2 DEF LockInv
<1>5. \A s \in Requests : InLine(s) => InLine(s)'
    BY <1>1, <1>2 DEF InLine
<1>6. (\A i \in 1..Len(queue) : InLine(queue[i]))'
    BY <1>5 DEF LockInv
<1>7. OneWriter'
    BY <1>1, <1>2 DEF LockInv, OneWriter, Writers, Working
<1> QED  BY <1>3, <1>4, <1>6, <1>7 DEF LockInv

\* A working request that settles and hands the lock on keeps the chain right.
LEMMA LockLeave ==
    ASSUME Inv, NEW r \in Requests, pc[r] \in {"ready", "loading", "loaded", "saving"},
           pc' = [pc EXCEPT ![r] = "settled"], op' = op, Unlock(r)
    PROVE  LockInv'
<1> USE DEF Inv, TypeOK, Pc
<1>1. CASE ~IsWrite(op[r])
    BY <1>1, LockMove DEF Unlock
<1>2. CASE IsWrite(op[r])
    <2>1. queue # << >> /\ Head(queue) = r /\ queue' = Tail(queue)
        BY <1>2 DEF LockInv, OneWriter, Writers, Working, Unlock
    <2>2. /\ Len(queue') = Len(queue) - 1
          /\ \A i \in 1..Len(queue') : queue'[i] = queue[i + 1] /\ i + 1 \in 1..Len(queue)
        BY <2>1
    <2>3. \A i \in 1..Len(queue') : queue'[i] # r
        BY <2>1, <2>2 DEF LockInv
    <2>4. \A s \in Requests : s # r => pc'[s] = pc[s]
        OBVIOUS
    <2>5. \A s \in Requests : s # r /\ InLine(s) => InLine(s)'
        BY <2>4 DEF InLine
    <2>6. (\A i \in 1..Len(queue) : InLine(queue[i]))'
        BY <2>2, <2>3, <2>5 DEF LockInv
    <2>7. (\A i, j \in 1..Len(queue) : queue[i] = queue[j] => i = j)'
        <3> SUFFICES ASSUME NEW i \in 1..Len(queue'), NEW j \in 1..Len(queue'), queue'[i] = queue'[j]
                     PROVE  i = j
            OBVIOUS
        <3>1. queue[i + 1] = queue[j + 1] /\ i + 1 \in 1..Len(queue) /\ j + 1 \in 1..Len(queue)
            BY <2>2
        <3>2. i + 1 = j + 1
            BY <3>1 DEF LockInv
        <3>3. i \in Nat /\ j \in Nat
            BY <2>2
        <3> QED  BY <3>2, <3>3
    <2>8. \A s \in Requests : s # r => s \notin Writers'
        BY <2>1, <2>4 DEF LockInv, OneWriter, Writers, Working
    <2>9. OneWriter'
        BY <2>8 DEF OneWriter, Writers, Working
    <2> QED  BY <2>4, <2>6, <2>7, <2>9 DEF LockInv
<1> QED  BY <1>1, <1>2

\* What using a loaded file does to the lock.
LEMMA UseFileLock ==
    ASSUME Inv, NEW r \in Requests, NEW base \in Content,
           pc[r] \in {"ready", "loaded"}, UseFile(r, base), op' = op
    PROVE  LockInv'
<1>1. CASE FinishRead(r, base)
    BY <1>1, LockLeave DEF FinishRead, Settle, Unlock
<1>2. CASE FinishMissing(r, base)
    BY <1>2, LockLeave DEF FinishMissing, Settle
<1>3. CASE FinishDuplicate(r, base)
    <2>1. pc' = [pc EXCEPT ![r] = "settled"] /\ Unlock(r)
        BY <1>3 DEF FinishDuplicate, AnswerOriginal, Settle
    <2> QED  BY <2>1, LockLeave
<1>4. CASE Change(r, base)
    BY <1>4, LockMove DEF Change, Send, Pc
<1> QED  BY <1>1, <1>2, <1>3, <1>4 DEF UseFile

\* Every step keeps the chain of the lock in order: who waits is in line, who
\* writes is at its head.
LEMMA LockStep == Inv /\ [Next]_vars => LockInv'
<1> SUFFICES ASSUME Inv, [Next]_vars PROVE LockInv'
    OBVIOUS
<1>a. ASSUME UNCHANGED <<pc, op, queue>> PROVE LockInv'
    BY <1>a DEF Inv, LockInv, OneWriter, Writers, Working, InLine
<1>1. CASE UNCHANGED vars
    BY <1>1, <1>a DEF vars
<1>2. ASSUME NEW r \in Requests, Arrive(r) PROVE LockInv'
    <2> USE DEF Inv, TypeOK, Pc
    <2>1. PICK o \in Ops : op' = [op EXCEPT ![r] = o]
        BY <1>2 DEF Arrive
    <2>2. pc[r] = "idle" /\ op'[r] = o /\ \A s \in Requests : s # r => op'[s] = op[s]
        BY <1>2, <2>1 DEF Arrive
    <2>3. \/ queue' = queue /\ pc' = [pc EXCEPT ![r] = "settled"]
          \/ queue' = queue /\ pc' = [pc EXCEPT ![r] = "ready"] /\ ~IsWrite(op'[r])
          \/ queue' = Append(queue, r) /\ pc' = [pc EXCEPT ![r] = "queued"] /\ IsWrite(op'[r])
        BY <1>2 DEF Arrive, AnswerOriginal, Settle
    <2>4. \A s \in Requests : s # r => pc'[s] = pc[s]
        BY <2>3
    <2>5. (\A s \in Requests : pc[s] # "idle" => op[s] \in Ops)'
        BY <2>2, <2>4 DEF LockInv
    <2>6. (\A s \in Requests : pc[s] = "queued" => IsWrite(op[s]))'
        BY <2>2, <2>3, <2>4 DEF LockInv
    <2>7. \A s \in Requests : InLine(s) => s # r /\ InLine(s)'
        BY <2>2, <2>4 DEF InLine
    <2>8. \A i \in 1..Len(queue) : queue[i] # r
        BY <2>7 DEF LockInv
    <2>9. CASE queue' = queue
        <3>1. pc'[r] \in Pc /\ (pc'[r] = "settled" \/ ~IsWrite(op'[r]))
            BY <2>3, <2>9
        <3>2. OneWriter'
            BY <2>2, <2>4, <2>9, <3>1 DEF LockInv, OneWriter, Writers, Working
        <3> QED  BY <2>5, <2>6, <2>7, <2>9, <3>2 DEF LockInv
    <2>10. CASE queue' = Append(queue, r) /\ pc'[r] = "queued" /\ IsWrite(op'[r])
        <3>1. /\ Len(queue') = Len(queue) + 1 /\ queue'[Len(queue) + 1] = r
              /\ \A i \in 1..Len(queue) : queue'[i] = queue[i]
            BY <2>10
        <3>2. InLine(r)'
            BY <2>10 DEF InLine
        <3>3. (\A i \in 1..Len(queue) : InLine(queue[i]))'
            <4>1. \A i \in 1..Len(queue) : \E s \in Requests : s = queue[i] /\ InLine(s)'
                BY <2>7 DEF LockInv
            <4>2. \A i \in 1..Len(queue') : \E s \in Requests : s = queue'[i] /\ InLine(s)'
                BY <3>1, <3>2, <4>1
            <4> QED  BY <4>2 DEF InLine
        <3>4. (\A i, j \in 1..Len(queue) : queue[i] = queue[j] => i = j)'
            BY <2>8, <3>1 DEF LockInv
        <3>5. OneWriter'
            BY <2>2, <2>4, <2>10 DEF LockInv, OneWriter, Writers, Working
        <3> QED  BY <2>5, <2>6, <3>3, <3>4, <3>5 DEF LockInv
    <2> QED  BY <2>3, <2>9, <2>10
<1>3. ASSUME NEW r \in Requests, TakeLock(r) PROVE LockInv'
    BY <1>3, LockMove DEF TakeLock, Pc
<1>4. ASSUME NEW r \in Requests, Enter(r) PROVE LockInv'
    <2>0. pc[r] = "ready" /\ op' = op
        BY <1>4 DEF Enter
    <2>1. CASE pc' = [pc EXCEPT ![r] = "settled"] /\ Unlock(r)
        BY <2>0, <2>1, LockLeave
    <2>2. CASE Send(r, file[r])
        BY <2>0, <2>2, LockMove DEF Send, Pc
    <2>3. CASE cache # None /\ UseFile(r, cache)
        <3>1. cache \in Content
            BY <2>3 DEF Inv, TypeOK
        <3> QED  BY <2>0, <2>3, <3>1, UseFileLock
    <2>4. CASE pc' = [pc EXCEPT ![r] = "loading"] /\ UNCHANGED queue
        BY <2>0, <2>4, LockMove DEF Pc
    <2> QED  BY <1>4, <2>1, <2>2, <2>3, <2>4 DEF Enter, AnswerOriginal, Settle
<1>5. ASSUME NEW r \in Requests, ServeGet(r) PROVE LockInv'
    BY <1>5, LockMove DEF ServeGet, Pc
<1>6. ASSUME NEW r \in Requests, ReturnGet(r) PROVE LockInv'
    <2>1. pc[r] = "loaded" /\ UseFile(r, file[r]) /\ file[r] \in Content /\ op' = op
        BY <1>6 DEF ReturnGet, Inv, TypeOK
    <2> QED  BY <2>1, UseFileLock
<1>7. ASSUME NEW r \in Requests, LoadFails(r) \/ SaveSucceeds(r) \/ SaveFails(r) PROVE LockInv'
    BY <1>7, LockLeave DEF LoadFails, SaveSucceeds, SaveFails, Settle
<1>8. ASSUME NEW r \in Requests, ApplyPut(r) \/ DropPut(r) \/ ManifestWritten(r) \/ ManifestFails(r)
      PROVE  LockInv'
    BY <1>8, <1>a DEF ApplyPut, DropPut, ManifestWritten, ManifestFails
<1>9. CASE CacheExpires \/ \E k \in Keys : IdemExpires(k)
    BY <1>9, <1>a DEF CacheExpires, IdemExpires
<1>10. CASE Restart
    <2>1. /\ queue' = << >> /\ op' = op
          /\ \A s \in Requests : pc'[s] \in {"idle", "settled"} /\ (pc'[s] # "idle" => pc[s] # "idle")
        BY <1>10 DEF Restart, Inv, TypeOK, Pc
    <2> QED  BY <2>1 DEF Inv, LockInv, OneWriter, Writers, Working
<1> QED
    BY <1>1, <1>2, <1>3, <1>4, <1>5, <1>6, <1>7, <1>8, <1>9, <1>10 DEF Next, Step, Fault

\* The inductive invariant holds in every behaviour of the collection.
THEOREM InvHolds == Spec => []Inv
<1>1. Inv /\ [Next]_vars => Inv'
    BY TypeStep, LockStep DEF Inv
<1> QED  BY InitInv, <1>1, PTL DEF Spec

\* Every variable keeps its type (TypeOK), whatever fails and in every interleaving.
THEOREM TypeCorrect == Spec => []TypeOK
<1>1. Inv => TypeOK
    BY DEF Inv
<1> QED  BY InvHolds, <1>1, PTL

\* withLock() of dataService.ts: one write of a collection runs at a time, the
\* one that asked first, whatever fails and however the process restarts.
THEOREM LockExcludes == Spec => []OneWriter
<1>1. Inv => OneWriter
    BY DEF Inv, LockInv
<1> QED  BY InvHolds, <1>1, PTL

-----------------------------------------------------------------------------
(* Nobody is wedged: what EveryRequestAnswered rests on besides fairness *)

\* A write that was asked for and is not answered is in the chain of the lock.
NobodyForgotten == \A r \in Requests : InLine(r) => \E i \in 1..Len(queue) : queue[i] = r

\* Who saves is a write and has sent both PUTs.
BothSent == \A r \in Requests : pc[r] = "saving" => IsWrite(op[r]) /\ put[r] # "none" /\ man[r] # "none"

WedgeInv == NobodyForgotten /\ BothSent

\* The process or Drive has a step to take for request r.
CanGo(r) ==
    \/ pc[r] = "queued" /\ queue # << >> /\ Head(queue) = r
    \/ pc[r] \in {"ready", "loading", "loaded"}
    \/ /\ pc[r] = "saving"
       /\ \/ put[r] = "sent" /\ (LateFills \/ ~ReaderPending)
          \/ put[r] = "dropped" \/ man[r] \in {"sent", "failed"}
          \/ put[r] = "applied" /\ man[r] = "ok"

\* Who has no step is a write that waits for the head of the chain, which has one,
\* or for the answer to a read, which Drive has served.
NoWedge ==
    \A r \in Requests : pc[r] \notin {"idle", "settled"} /\ ~CanGo(r) =>
        IsWrite(op[r]) /\ queue # << >> /\ (CanGo(Head(queue)) \/ ReaderPending)

\* How far a request has come.
Stage(p) ==
    CASE p = "idle" -> 0 [] p = "queued" -> 1 [] p = "ready" -> 2 [] p = "loading" -> 3
      [] p = "loaded" -> 4 [] p = "saving" -> 5 [] p = "settled" -> 6

\* Nobody is overtaken in the chain of the lock.
KeepsPlace(r) ==
    \A i \in 1..Len(queue') : queue'[i] = r => \E j \in 1..Len(queue) : i <= j /\ queue[j] = r

\* A request only goes on, and while it saves each of its PUTs is settled once.
Forward(r) ==
    /\ pc'[r] = pc[r] \/ Stage(pc'[r]) > Stage(pc[r])
    /\ pc[r] = "saving" => /\ put'[r] = put[r] \/ put[r] = "sent"
                           /\ man'[r] = man[r] \/ man[r] = "sent"
    /\ pc[r] # "idle" => KeepsPlace(r)

OnlyForward == [][\A r \in Requests : Forward(r)]_vars

\* The chain grows at its end, by who just arrived, and shrinks at its head.
LEMMA ChainKeepsPlaces ==
    ASSUME Inv, NEW r \in Requests,
           \/ queue' = queue \/ queue' = << >>
           \/ queue # << >> /\ queue' = Tail(queue)
           \/ pc[r] = "idle" /\ queue' = Append(queue, r)
    PROVE  \A s \in Requests : pc[s] # "idle" => KeepsPlace(s)
<1>0. queue \in Seq(Requests) /\ Len(queue) \in Nat
    BY DEF Inv, TypeOK
<1> SUFFICES ASSUME NEW s \in Requests, pc[s] # "idle", NEW i \in 1..Len(queue'), queue'[i] = s
             PROVE  \E j \in 1..Len(queue) : i <= j /\ queue[j] = s
    BY DEF KeepsPlace
<1>1. CASE queue' = queue
    BY <1>0, <1>1
<1>2. CASE queue' = << >>
    BY <1>2
<1>3. CASE queue # << >> /\ queue' = Tail(queue)
    <2>1. i \in Nat /\ i + 1 \in 1..Len(queue) /\ queue[i + 1] = s
        BY <1>0, <1>3
    <2> QED  BY <2>1
<1>4. CASE pc[r] = "idle" /\ queue' = Append(queue, r)
    <2>1. i \in 1..Len(queue) /\ queue[i] = s
        BY <1>0, <1>4
    <2> QED  BY <2>1
<1> QED  BY <1>1, <1>2, <1>3, <1>4

\* One request goes on: it leaves the chain only when it settles.
LEMMA WedgeMove ==
    ASSUME Inv, WedgeInv, NEW r \in Requests, NEW p \in Pc,
           pc[r] \notin {"idle", "settled"}, pc' = [pc EXCEPT ![r] = p], op' = op,
           Stage(p) > Stage(pc[r]),
           IF p = "settled" THEN pc[r] # "queued" /\ Unlock(r) ELSE queue' = queue,
           IF p = "saving" THEN /\ IsWrite(op[r])
                                /\ put' = [put EXCEPT ![r] = "sent"] /\ man' = [man EXCEPT ![r] = "sent"]
                           ELSE UNCHANGED <<put, man>>
    PROVE  WedgeInv' /\ \A s \in Requests : Forward(s)
<1> USE DEF Inv, TypeOK
<1>1. pc'[r] = p /\ \A s \in Requests : s # r => pc'[s] = pc[s]
    OBVIOUS
<1>2. \/ queue' = queue
      \/ p = "settled" /\ IsWrite(op[r]) /\ queue # << >> /\ Head(queue) = r /\ queue' = Tail(queue)
    <2>1. CASE p # "settled"
        BY <2>1
    <2>2. CASE p = "settled"
        <3>1. IsWrite(op[r]) => r \in Writers
            BY <2>2 DEF Writers, Working, Pc
        <3> QED  BY <2>2, <3>1 DEF Unlock, LockInv, OneWriter
    <2> QED  BY <2>1, <2>2
<1>3. NobodyForgotten'
    <2> SUFFICES ASSUME NEW s \in Requests, InLine(s)' PROVE \E i \in 1..Len(queue') : queue'[i] = s
        BY DEF NobodyForgotten
    <2>1. InLine(s)
        BY <1>1 DEF InLine
    <2>2. PICK i \in 1..Len(queue) : queue[i] = s
        BY <2>1 DEF WedgeInv, NobodyForgotten
    <2>3. CASE queue' = queue
        BY <2>2, <2>3
    <2>4. CASE p = "settled" /\ queue # << >> /\ Head(queue) = r /\ queue' = Tail(queue)
        <3>1. s # r
            BY <1>1, <2>4 DEF InLine
        <3>2. i # 1 /\ i - 1 \in 1..Len(queue') /\ queue'[i - 1] = s
            BY <2>2, <2>4, <3>1
        <3> QED  BY <3>2
    <2> QED  BY <1>2, <2>3, <2>4
<1>4. BothSent'
    <2> SUFFICES ASSUME NEW s \in Requests, pc'[s] = "saving"
                 PROVE  IsWrite(op[s]) /\ put'[s] # "none" /\ man'[s] # "none"
        BY DEF BothSent
    <2>1. CASE s = r
        BY <1>1, <2>1
    <2>2. CASE s # r
        BY <1>1, <2>2 DEF WedgeInv, BothSent
    <2> QED  BY <2>1, <2>2
<1>5. \A s \in Requests : pc[s] # "idle" => KeepsPlace(s)
    BY <1>2, ChainKeepsPlaces
<1>6. \A s \in Requests : pc'[s] = pc[s] \/ Stage(pc'[s]) > Stage(pc[s])
    BY <1>1
<1>7. pc[r] # "saving" \/ UNCHANGED <<put, man>>
    BY DEF Stage
<1>8. \A s \in Requests : pc[s] = "saving" => put'[s] = put[s] /\ man'[s] = man[s]
    BY <1>7
<1> QED  BY <1>3, <1>4, <1>5, <1>6, <1>8 DEF WedgeInv, Forward

\* What follows a load.
LEMMA UseFileMoves ==
    ASSUME Inv, WedgeInv, NEW r \in Requests, NEW base, pc[r] \in {"ready", "loaded"}, UseFile(r, base),
           op' = op
    PROVE  WedgeInv' /\ \A s \in Requests : Forward(s)
<1>0. Stage("settled") > Stage(pc[r]) /\ Stage("saving") > Stage(pc[r])
    BY DEF Stage
<1>1. CASE FinishRead(r, base)
    BY <1>0, <1>1, WedgeMove DEF FinishRead, Settle, Unlock, writes, Pc
<1>2. CASE FinishDuplicate(r, base) \/ FinishMissing(r, base)
    <2>1. pc' = [pc EXCEPT ![r] = "settled"] /\ Unlock(r) /\ UNCHANGED <<put, man>>
        BY <1>2 DEF FinishDuplicate, FinishMissing, AnswerOriginal, Settle, writes
    <2> QED  BY <1>0, <2>1, WedgeMove DEF Pc
<1>3. CASE Change(r, base)
    BY <1>0, <1>3, WedgeMove DEF Change, Send, Pc
<1> QED  BY <1>1, <1>2, <1>3 DEF UseFile

\* Every step keeps the chain complete, and takes no request back.
LEMMA WedgeStep ==
    ASSUME Inv, WedgeInv, [Next]_vars
    PROVE  WedgeInv' /\ \A s \in Requests : Forward(s)
<1> DEFINE Done == WedgeInv' /\ \A s \in Requests : Forward(s)
<1>a. ASSUME UNCHANGED <<pc, op, queue>>,
             \A s \in Requests : /\ put'[s] = put[s] \/ (put[s] = "sent" /\ put'[s] # "none")
                                 /\ man'[s] = man[s] \/ (man[s] = "sent" /\ man'[s] # "none")
      PROVE  Done
    <2>1. WedgeInv'
        BY <1>a DEF WedgeInv, NobodyForgotten, InLine, BothSent
    <2>2. \A s \in Requests : pc[s] # "idle" => KeepsPlace(s)
        BY <1>a, ChainKeepsPlaces
    <2> QED  BY <1>a, <2>1, <2>2 DEF Forward
<1>1. ASSUME NEW r \in Requests, Arrive(r) PROVE Done
    <2> USE DEF Inv, TypeOK
    <2>1. PICK o \in Ops : op' = [op EXCEPT ![r] = o]
        BY <1>1 DEF Arrive
    <2>2. /\ pc[r] = "idle" /\ op'[r] = o /\ UNCHANGED <<put, man>>
          /\ \A s \in Requests : s # r => op'[s] = op[s]
        BY <1>1, <2>1 DEF Arrive, writes
    <2>3. \/ queue' = queue /\ pc' = [pc EXCEPT ![r] = "settled"]
          \/ queue' = queue /\ pc' = [pc EXCEPT ![r] = "ready"] /\ ~IsWrite(op'[r])
          \/ queue' = Append(queue, r) /\ pc' = [pc EXCEPT ![r] = "queued"] /\ IsWrite(op'[r])
        BY <1>1, <2>2 DEF Arrive, AnswerOriginal, Settle
    <2>4. pc'[r] \in {"settled", "ready", "queued"} /\ \A s \in Requests : s # r => pc'[s] = pc[s]
        BY <2>3
    <2>5. NobodyForgotten'
        <3> SUFFICES ASSUME NEW s \in Requests, InLine(s)' PROVE \E i \in 1..Len(queue') : queue'[i] = s
            BY DEF NobodyForgotten
        <3>1. CASE s = r
            <4>1. queue' = Append(queue, r)
                BY <2>3, <3>1 DEF InLine
            <4>2. Len(queue') = Len(queue) + 1 /\ queue'[Len(queue) + 1] = r /\ Len(queue) \in Nat
                BY <4>1
            <4> QED  BY <3>1, <4>2
        <3>2. CASE s # r
            <4>1. InLine(s)
                BY <2>2, <2>4, <3>2 DEF InLine
            <4>2. PICK i \in 1..Len(queue) : queue[i] = s
                BY <4>1 DEF WedgeInv, NobodyForgotten
            <4>3. CASE queue' = queue
                BY <4>2, <4>3
            <4>4. CASE queue' = Append(queue, r)
                <5>1. i \in 1..Len(queue') /\ queue'[i] = s
                    BY <4>2, <4>4
                <5> QED  BY <5>1
            <4> QED  BY <2>3, <4>3, <4>4
        <3> QED  BY <3>1, <3>2
    <2>6. BothSent'
        BY <2>2, <2>4 DEF WedgeInv, BothSent
    <2>7. \A s \in Requests : pc[s] # "idle" => KeepsPlace(s)
        BY <2>2, <2>3, ChainKeepsPlaces
    <2>8. \A s \in Requests : pc'[s] = pc[s] \/ Stage(pc'[s]) > Stage(pc[s])
        BY <2>2, <2>4 DEF Stage
    <2> QED  BY <2>2, <2>5, <2>6, <2>7, <2>8 DEF WedgeInv, Forward
<1>2. ASSUME NEW r \in Requests, TakeLock(r) PROVE Done
    <2>1. Stage("ready") > Stage(pc[r])
        BY <1>2 DEF TakeLock, Stage
    <2> QED  BY <1>2, <2>1, WedgeMove DEF TakeLock, Pc, writes
<1>3. ASSUME NEW r \in Requests, Enter(r) PROVE Done
    <2>1. /\ pc[r] = "ready" /\ op' = op
          /\ Stage("settled") > Stage(pc[r]) /\ Stage("saving") > Stage(pc[r]) /\ Stage("loading") > Stage(pc[r])
        BY <1>3 DEF Enter, Stage
    <2>2. CASE pc' = [pc EXCEPT ![r] = "settled"] /\ Unlock(r) /\ UNCHANGED <<put, man>>
        BY <2>1, <2>2, WedgeMove DEF Pc
    <2>3. CASE op[r].kind = "restore" /\ Send(r, file[r])
        BY <2>1, <2>3, WedgeMove DEF Send, IsWrite, Pc
    <2>4. CASE UseFile(r, cache)
        BY <2>1, <2>4, UseFileMoves
    <2>5. CASE pc' = [pc EXCEPT ![r] = "loading"] /\ UNCHANGED <<put, man, queue>>
        BY <2>1, <2>5, WedgeMove DEF Pc
    <2> QED  BY <1>3, <2>2, <2>3, <2>4, <2>5 DEF Enter, AnswerOriginal, Settle, writes
<1>4. ASSUME NEW r \in Requests, ServeGet(r) PROVE Done
    <2>1. Stage("loaded") > Stage(pc[r])
        BY <1>4 DEF ServeGet, Stage
    <2> QED  BY <1>4, <2>1, WedgeMove DEF ServeGet, Pc, writes
<1>5. ASSUME NEW r \in Requests, ReturnGet(r) PROVE Done
    BY <1>5, UseFileMoves DEF ReturnGet
<1>6. ASSUME NEW r \in Requests, LoadFails(r) \/ SaveSucceeds(r) \/ SaveFails(r) PROVE Done
    <2>1. /\ pc[r] \in {"ready", "loading", "loaded", "saving"} /\ pc' = [pc EXCEPT ![r] = "settled"]
          /\ Unlock(r) /\ op' = op /\ UNCHANGED <<put, man>>
        BY <1>6 DEF LoadFails, SaveSucceeds, SaveFails, Settle, writes
    <2>2. Stage("settled") > Stage(pc[r])
        BY <2>1 DEF Stage
    <2> QED  BY <2>1, <2>2, WedgeMove DEF Pc
<1>7. ASSUME NEW r \in Requests, ApplyPut(r) \/ DropPut(r) \/ ManifestWritten(r) \/ ManifestFails(r)
      PROVE  Done
    BY <1>7, <1>a DEF ApplyPut, DropPut, ManifestWritten, ManifestFails, Inv, TypeOK
<1>8. CASE UNCHANGED vars \/ CacheExpires \/ \E k \in Keys : IdemExpires(k)
    BY <1>8, <1>a DEF CacheExpires, IdemExpires, vars, writes
<1>9. CASE Restart
    <2> USE DEF Inv, TypeOK
    <2>1. /\ queue' = << >> /\ man' = man
          /\ \A s \in Requests : pc'[s] = IF pc[s] \in {"idle", "settled"} THEN pc[s] ELSE "settled"
        BY <1>9 DEF Restart
    <2>2. \A s \in Requests : put[s] # "sent" => put'[s] = put[s]
        BY <1>9 DEF Restart
    <2>3. WedgeInv'
        BY <2>1 DEF WedgeInv, NobodyForgotten, InLine, BothSent
    <2>4. \A s \in Requests : pc[s] # "idle" => KeepsPlace(s)
        BY <2>1, ChainKeepsPlaces
    <2>5. \A s \in Requests : pc'[s] = pc[s] \/ Stage(pc'[s]) > Stage(pc[s])
        BY <2>1 DEF Stage, Pc
    <2> QED  BY <2>1, <2>2, <2>3, <2>4, <2>5 DEF Forward
<1> QED  BY <1>1, <1>2, <1>3, <1>4, <1>5, <1>6, <1>7, <1>8, <1>9 DEF Next, Step, Fault

\* The chain is complete, and both PUTs of a save were sent, whatever happens.
THEOREM ChainIsComplete == Spec => []WedgeInv
<1>1. Init => WedgeInv
    BY DEF Init, WedgeInv, NobodyForgotten, InLine, BothSent
<1>2. Inv /\ WedgeInv /\ [Next]_vars => WedgeInv'
    BY WedgeStep
<1> QED  BY <1>1, <1>2, InvHolds, PTL DEF Spec

\* dataService.ts:128 "failed write never wedges the lock for everyone after it": who
\* has no step to take waits for somebody who has one.
THEOREM NobodyIsWedged == Spec => []NoWedge
<1>1. Inv /\ WedgeInv => NoWedge
    <2> SUFFICES ASSUME Inv, WedgeInv, NEW r \in Requests, pc[r] \notin {"idle", "settled"}, ~CanGo(r)
                 PROVE  IsWrite(op[r]) /\ queue # << >> /\ (CanGo(Head(queue)) \/ ReaderPending)
        BY DEF NoWedge
    <2> USE DEF Inv, TypeOK
    <2>1. \A s \in Requests : CanGo(s) \/ pc[s] \in {"idle", "settled", "queued"} \/ ReaderPending
        <3> SUFFICES ASSUME NEW s \in Requests, pc[s] = "saving", ~ReaderPending PROVE CanGo(s)
            BY DEF CanGo, Pc
        <3>1. put[s] \in {"sent", "applied", "dropped"} /\ man[s] \in {"sent", "ok", "failed"}
            BY DEF WedgeInv, BothSent
        <3> QED  BY <3>1 DEF CanGo
    <2>2. pc[r] \in {"queued", "saving"}
        BY DEF CanGo, Pc
    <2>3. IsWrite(op[r])
        BY <2>2 DEF WedgeInv, BothSent, LockInv
    <2>4. PICK i \in 1..Len(queue) : queue[i] = r
        BY <2>3 DEF WedgeInv, NobodyForgotten, InLine
    <2>5. queue # << >> /\ Head(queue) = queue[1] /\ 1 \in 1..Len(queue) /\ queue[1] \in Requests
        BY <2>4
    <2>6. InLine(queue[1])
        BY <2>5 DEF LockInv
    <2>7. CanGo(queue[1]) \/ ReaderPending
        BY <2>1, <2>5, <2>6 DEF InLine, CanGo
    <2> QED  BY <2>3, <2>5, <2>7
<1> QED  BY <1>1, InvHolds, ChainIsComplete, PTL

\* No step takes a request back, settles a PUT twice, or lets one write overtake
\* another in the chain of the lock.
THEOREM NobodyGoesBack == Spec => OnlyForward
<1>1. Inv /\ WedgeInv /\ [Next]_vars => [\A r \in Requests : Forward(r)]_vars
    BY WedgeStep
<1> QED  BY <1>1, InvHolds, ChainIsComplete, PTL DEF Spec, OnlyForward

-----------------------------------------------------------------------------
(* One record per idempotency key *)

\* Every file a request works on comes from a file without duplicates, and only
\* a create that found no record under its key adds one.
LEMMA UseFileOneKey ==
    ASSUME Inv, OneRecordPerKey, NEW r \in Requests, NEW base \in Content, OnePerKey(base),
           pc[r] \in {"ready", "loaded"}, UseFile(r, base)
    PROVE  /\ UNCHANGED <<drive, revisions>>
           /\ \A s \in Requests : OnePerKey(file'[s])
<1> USE DEF Inv, TypeOK
<1>1. CASE FinishRead(r, base)
    BY <1>1 DEF FinishRead, OneRecordPerKey, writes
<1>2. CASE FinishDuplicate(r, base) \/ FinishMissing(r, base)
    BY <1>2 DEF FinishDuplicate, FinishMissing, OneRecordPerKey, writes
<1>3. CASE Change(r, base)
    <2>1. OnePerKey(Effect(op[r], r, base))
        <3> HIDE DEF Inv
        <3> QED  BY <1>3, OpType, EffectOnePerKey DEF Change
    <2> QED  BY <1>3, <2>1 DEF Change, Send, OneRecordPerKey
<1> QED  BY <1>1, <1>2, <1>3 DEF UseFile

\* No step brings a second record under one key into any version of the file.
LEMMA OneKeyStep == Inv /\ OneRecordPerKey /\ [Next]_vars => OneRecordPerKey'
<1> SUFFICES ASSUME Inv, OneRecordPerKey, [Next]_vars PROVE OneRecordPerKey'
    OBVIOUS
<1>0. TypeOK
    BY DEF Inv
<1>a. ASSUME UNCHANGED <<drive, revisions, file>>, cache' \in {cache, None} PROVE OneRecordPerKey'
    BY <1>a DEF OneRecordPerKey
<1>1. CASE UNCHANGED vars
    BY <1>1, <1>a DEF vars
<1>2. ASSUME NEW r \in Requests, Arrive(r) PROVE OneRecordPerKey'
    <2>1. file' = file \/ \E rev \in revisions : file' = [file EXCEPT ![r] = rev]
        BY <1>2 DEF Arrive
    <2> QED  BY <1>0, <1>2, <2>1 DEF Arrive, OneRecordPerKey, TypeOK, writes
<1>3. ASSUME NEW r \in Requests, TakeLock(r) \/ LoadFails(r) \/ SaveFails(r) PROVE OneRecordPerKey'
    BY <1>3, <1>a DEF TakeLock, LoadFails, SaveFails, writes
<1>4. ASSUME NEW r \in Requests, Enter(r) PROVE OneRecordPerKey'
    <2>0. pc[r] = "ready" /\ cache' = cache
        BY <1>4 DEF Enter
    <2>1. CASE UNCHANGED writes /\ UNCHANGED file
        BY <2>0, <2>1, <1>a DEF writes
    <2>2. CASE Send(r, file[r])
        BY <1>0, <2>0, <2>2 DEF Send, OneRecordPerKey, TypeOK
    <2>3. CASE cache # None /\ UseFile(r, cache)
        <3>1. cache \in Content /\ OnePerKey(cache)
            BY <1>0, <2>3 DEF TypeOK, OneRecordPerKey
        <3>2. UNCHANGED <<drive, revisions>> /\ \A s \in Requests : OnePerKey(file'[s])
            BY <2>0, <2>3, <3>1, UseFileOneKey
        <3> QED  BY <2>0, <3>2 DEF OneRecordPerKey
    <2> QED  BY <1>4, <2>1, <2>2, <2>3 DEF Enter
<1>5. ASSUME NEW r \in Requests, ServeGet(r) PROVE OneRecordPerKey'
    BY <1>0, <1>5 DEF ServeGet, OneRecordPerKey, TypeOK, writes
<1>6. ASSUME NEW r \in Requests, ReturnGet(r) PROVE OneRecordPerKey'
    <2>1. /\ pc[r] = "loaded" /\ UseFile(r, file[r]) /\ cache' = file[r]
          /\ file[r] \in Content /\ OnePerKey(file[r])
        BY <1>0, <1>6 DEF ReturnGet, TypeOK, OneRecordPerKey
    <2>2. UNCHANGED <<drive, revisions>> /\ \A s \in Requests : OnePerKey(file'[s])
        BY <2>1, UseFileOneKey
    <2> QED  BY <2>1, <2>2 DEF OneRecordPerKey
<1>7. ASSUME NEW r \in Requests, ApplyPut(r) PROVE OneRecordPerKey'
    BY <1>7 DEF ApplyPut, OneRecordPerKey
<1>8. ASSUME NEW r \in Requests, DropPut(r) \/ ManifestWritten(r) \/ ManifestFails(r) PROVE OneRecordPerKey'
    BY <1>8, <1>a DEF DropPut, ManifestWritten, ManifestFails
<1>9. ASSUME NEW r \in Requests, SaveSucceeds(r) PROVE OneRecordPerKey'
    BY <1>9 DEF SaveSucceeds, OneRecordPerKey, writes
<1>10. CASE CacheExpires \/ \E k \in Keys : IdemExpires(k)
    BY <1>10, <1>a DEF CacheExpires, IdemExpires, writes
<1>11. CASE Restart
    <2>1. /\ drive' = drive \/ \E s \in Requests : drive' = file[s]
          /\ \A c \in revisions' : c \in revisions \/ \E s \in Requests : c = file[s]
          /\ cache' = None /\ file' = file
        BY <1>11 DEF Restart
    <2> QED  BY <2>1 DEF OneRecordPerKey
<1> QED
    BY <1>1, <1>2, <1>3, <1>4, <1>5, <1>6, <1>7, <1>8, <1>9, <1>10, <1>11 DEF Next, Step, Fault

\* Whatever is retried, lost, interleaved or restarted, no version of the file -
\* in Drive, in its history, in the cache or in flight - ever holds two records
\* created under one idempotency key.
THEOREM NoDuplicates == Spec => []OneRecordPerKey
<1>1. Init => OneRecordPerKey
    BY DEF Init, OneRecordPerKey, OnePerKey, Marked, EmptyFile
<1>2. Inv /\ OneRecordPerKey /\ [Next]_vars => OneRecordPerKey'
    BY OneKeyStep
<1> QED  BY <1>1, <1>2, InvHolds, PTL DEF Spec

-----------------------------------------------------------------------------
(* No lost update *)

\* What the PUT of request r may write: its operation applied to the content
\* Drive holds now, or a revision Drive has.
Based(r) ==
    \/ op[r].kind = "restore" /\ file[r] \in revisions
    \/ /\ op[r].kind # "restore"
       /\ HasTarget(op[r], drive)
       /\ IsKeyed(op[r]) => Marked(drive, op[r].key) = {}
       /\ file[r] = Effect(op[r], r, drive)

\* The copies of the file in memory are as fresh as the code believes: only a
\* write under the lock has a PUT on its way, that PUT is based on what Drive
\* holds, and a loaded or cached copy differs from Drive only while the lock's
\* holder waits for the answer to a PUT that has taken effect.
SentBased == \A r \in Requests : put[r] = "sent" => pc[r] = "saving" /\ Based(r)
OnlyWritesSave == \A r \in Requests : pc[r] = "saving" => IsWrite(op[r]) /\ man[r] # "failed"
AppliedIsCurrent == \A r \in Requests : pc[r] = "saving" /\ put[r] = "applied" => file[r] = drive
LoadedIsCurrent == \A r \in Requests : pc[r] = "loaded" => file[r] = drive
RestoreIsKnown ==
    \A r \in Requests : pc[r] # "idle" /\ op[r].kind = "restore" =>
        /\ pc[r] \in {"queued", "ready", "saving", "settled"}
        /\ pc[r] \in {"queued", "ready"} => file[r] \in revisions
CacheIsCurrent ==
    cache \in {None, drive} \/ \E r \in Requests : pc[r] = "saving" /\ put[r] = "applied"

FreshInv ==
    /\ SentBased /\ OnlyWritesSave /\ AppliedIsCurrent
    /\ LoadedIsCurrent /\ RestoreIsKnown /\ CacheIsCurrent

\* The environment in which the claim holds: no reader's answer is overtaken by
\* a write, and no manifest PUT fails while its file PUT is still on its way.
Calm == LateFills = FALSE /\ "manifestWrite" \notin Faults

\* Under the lock, two requests that write are one and the same.
LEMMA SoleWriter ==
    ASSUME Inv, NEW r \in Writers, NEW s \in Writers
    PROVE  r = s
BY DEF Inv, LockInv, OneWriter

\* Using a copy of the file that is current, if r writes, keeps copies fresh.
LEMMA UseFileFresh ==
    ASSUME Inv, FreshInv, NEW r \in Requests, NEW base \in Content, UseFile(r, base), op' = op,
           pc[r] \in {"ready", "loaded"}, op[r].kind # "restore", IsWrite(op[r]) => base = drive
    PROVE  /\ (SentBased /\ OnlyWritesSave /\ AppliedIsCurrent /\ LoadedIsCurrent /\ RestoreIsKnown)'
           /\ UNCHANGED <<drive, revisions>>
           /\ \A s \in Requests : pc[s] = "saving" => pc'[s] = "saving" /\ put'[s] = put[s]
<1> USE DEF Inv, TypeOK, FreshInv
<1>1. CASE FinishRead(r, base)
    <2>1. /\ pc' = [pc EXCEPT ![r] = "settled"] /\ file' = [file EXCEPT ![r] = base]
          /\ UNCHANGED <<drive, revisions, put, man>>
        BY <1>1 DEF FinishRead, Settle, writes
    <2>2. (SentBased /\ OnlyWritesSave)'
        BY <2>1 DEF SentBased, OnlyWritesSave, Based
    <2>3. (AppliedIsCurrent /\ LoadedIsCurrent /\ RestoreIsKnown)'
        BY <2>1 DEF AppliedIsCurrent, LoadedIsCurrent, RestoreIsKnown
    <2> QED  BY <2>1, <2>2, <2>3
<1>2. CASE FinishDuplicate(r, base) \/ FinishMissing(r, base)
    <2>1. /\ pc' = [pc EXCEPT ![r] = "settled"] /\ file' = file
          /\ UNCHANGED <<drive, revisions, put, man>>
        BY <1>2 DEF FinishDuplicate, FinishMissing, AnswerOriginal, Settle, writes
    <2>2. (SentBased /\ OnlyWritesSave)'
        BY <2>1 DEF SentBased, OnlyWritesSave, Based
    <2>3. (AppliedIsCurrent /\ LoadedIsCurrent /\ RestoreIsKnown)'
        BY <2>1 DEF AppliedIsCurrent, LoadedIsCurrent, RestoreIsKnown
    <2> QED  BY <2>1, <2>2, <2>3
<1>3. CASE Change(r, base)
    <2>1. /\ IsWrite(op[r]) /\ HasTarget(op[r], drive)
          /\ IsKeyed(op[r]) => Marked(drive, op[r].key) = {}
          /\ pc' = [pc EXCEPT ![r] = "saving"]
          /\ file' = [file EXCEPT ![r] = Effect(op[r], r, drive)]
          /\ put' = [put EXCEPT ![r] = "sent"] /\ man' = [man EXCEPT ![r] = "sent"]
          /\ UNCHANGED <<drive, revisions>>
        BY <1>3 DEF Change, Send
    <2>2. SentBased'
        <3> SUFFICES ASSUME NEW s \in Requests, put'[s] = "sent"
                     PROVE  (pc[s] = "saving" /\ Based(s))'
            BY DEF SentBased
        <3>1. CASE s = r
            BY <2>1, <3>1 DEF Based
        <3>2. CASE s # r
            BY <2>1, <3>2 DEF SentBased, Based
        <3> QED  BY <3>1, <3>2
    <2>3. (OnlyWritesSave /\ AppliedIsCurrent)'
        BY <2>1 DEF OnlyWritesSave, AppliedIsCurrent
    <2>4. (LoadedIsCurrent /\ RestoreIsKnown)'
        BY <2>1 DEF LoadedIsCurrent, RestoreIsKnown
    <2> QED  BY <2>1, <2>2, <2>3, <2>4
<1> QED  BY <1>1, <1>2, <1>3 DEF UseFile

\* A step that leaves files, PUTs and what Drive holds alone and moves only
\* request r, not into a save and not into holding a loaded copy.
LEMMA FreshMove ==
    ASSUME Inv, FreshInv, NEW r \in Requests, NEW p \in {"ready", "loading", "settled"},
           pc' = [pc EXCEPT ![r] = p], UNCHANGED <<drive, revisions, put, man, file, op>>,
           pc[r] \in {"queued", "ready"} \/ p = "settled", pc[r] # "idle",
           p = "ready" => pc[r] = "queued",
           p = "loading" => op[r].kind # "restore",
           pc[r] = "saving" => put[r] # "sent",
           \/ cache' = cache /\ ~(pc[r] = "saving" /\ put[r] = "applied")
           \/ cache' \in {None, drive}
    PROVE  FreshInv'
<1> USE DEF Inv, TypeOK, FreshInv
<1>1. SentBased'
    BY DEF SentBased, Based
<1>2. (OnlyWritesSave /\ AppliedIsCurrent /\ LoadedIsCurrent /\ RestoreIsKnown)'
    BY DEF OnlyWritesSave, AppliedIsCurrent, LoadedIsCurrent, RestoreIsKnown
<1>3. CacheIsCurrent'
    BY DEF CacheIsCurrent
<1> QED  BY <1>1, <1>2, <1>3

\* In a calm environment every step keeps the copies of the file that writers and
\* the cache rely on equal to what Drive holds, or will hold after the PUT under way.
LEMMA FreshStep ==
    ASSUME Calm
    PROVE  Inv /\ FreshInv /\ [Next]_vars => FreshInv'
<1> SUFFICES ASSUME Inv, FreshInv, [Next]_vars PROVE FreshInv'
    OBVIOUS
<1>0. TypeOK
    BY DEF Inv
<1>1. CASE UNCHANGED vars
    BY <1>1 DEF vars, FreshInv, SentBased, Based, OnlyWritesSave, AppliedIsCurrent, LoadedIsCurrent,
        RestoreIsKnown, CacheIsCurrent
<1>2. ASSUME NEW r \in Requests, Arrive(r) PROVE FreshInv'
    <2>1. /\ pc[r] = "idle" /\ UNCHANGED <<drive, revisions, put, man, cache>>
          /\ \A s \in Requests : s # r => pc'[s] = pc[s] /\ op'[s] = op[s] /\ file'[s] = file[s]
          /\ pc'[r] \in {"queued", "ready", "settled"}
          /\ put[r] # "sent"
        BY <1>0, <1>2 DEF Arrive, AnswerOriginal, Settle, TypeOK, writes, FreshInv, SentBased
    <2>2. op'[r].kind = "restore" => pc'[r] = "queued" /\ file'[r] \in revisions
        BY <1>0, <1>2 DEF Arrive, AnswerOriginal, Settle, TypeOK, Hit, IsKeyed, IsWrite
    <2>3. SentBased'
        BY <2>1 DEF FreshInv, SentBased, Based
    <2>4. (OnlyWritesSave /\ AppliedIsCurrent /\ LoadedIsCurrent)'
        BY <2>1 DEF FreshInv, OnlyWritesSave, AppliedIsCurrent, LoadedIsCurrent
    <2>5. RestoreIsKnown'
        BY <2>1, <2>2 DEF FreshInv, RestoreIsKnown
    <2>6. CacheIsCurrent'
        BY <2>1 DEF FreshInv, CacheIsCurrent
    <2> QED  BY <2>3, <2>4, <2>5, <2>6 DEF FreshInv
<1>3. ASSUME NEW r \in Requests, TakeLock(r) PROVE FreshInv'
    BY <1>3, FreshMove DEF TakeLock, writes
<1>4. ASSUME NEW r \in Requests, LoadFails(r) PROVE FreshInv'
    BY <1>4, FreshMove DEF LoadFails, Settle, writes
<1>5. ASSUME NEW r \in Requests, Enter(r) PROVE FreshInv'
    <2>0. pc[r] = "ready" /\ UNCHANGED <<cache, op, restarts>>
        BY <1>5 DEF Enter
    <2>1. CASE pc' = [pc EXCEPT ![r] = "settled"] /\ UNCHANGED <<writes, file>>
        BY <2>0, <2>1, FreshMove DEF writes
    <2>2. CASE op[r].kind # "restore" /\ pc' = [pc EXCEPT ![r] = "loading"] /\ UNCHANGED <<writes, file>>
        BY <2>0, <2>2, FreshMove DEF writes
    <2>3. CASE op[r].kind = "restore" /\ Send(r, file[r])
        <3>1. /\ file[r] \in revisions /\ IsWrite(op[r])
              /\ pc' = [pc EXCEPT ![r] = "saving"] /\ file' = file
              /\ put' = [put EXCEPT ![r] = "sent"] /\ man' = [man EXCEPT ![r] = "sent"]
              /\ UNCHANGED <<drive, revisions>>
            BY <1>0, <2>0, <2>3 DEF Send, TypeOK, FreshInv, RestoreIsKnown, IsWrite
        <3>2. SentBased'
            BY <1>0, <2>0, <2>3, <3>1 DEF FreshInv, SentBased, Based, TypeOK
        <3>3. (OnlyWritesSave /\ AppliedIsCurrent)'
            BY <1>0, <2>0, <3>1 DEF FreshInv, OnlyWritesSave, AppliedIsCurrent, TypeOK
        <3>4. (LoadedIsCurrent /\ RestoreIsKnown /\ CacheIsCurrent)'
            BY <1>0, <2>0, <3>1 DEF FreshInv, LoadedIsCurrent, RestoreIsKnown, CacheIsCurrent, TypeOK
        <3> QED  BY <3>2, <3>3, <3>4 DEF FreshInv
    <2>4. CASE op[r].kind # "restore" /\ cache # None /\ UseFile(r, cache)
        <3>1. IsWrite(op[r]) => cache = drive
            <4> SUFFICES ASSUME IsWrite(op[r]) PROVE cache = drive
                OBVIOUS
            <4>1. \A s \in Requests : pc[s] # "saving"
                BY <2>0, SoleWriter DEF FreshInv, OnlyWritesSave, Writers, Working
            <4> QED  BY <2>4, <4>1 DEF FreshInv, CacheIsCurrent
        <3>2. cache \in Content
            BY <1>0, <2>4 DEF TypeOK
        <3>3. /\ (SentBased /\ OnlyWritesSave /\ AppliedIsCurrent /\ LoadedIsCurrent /\ RestoreIsKnown)'
              /\ UNCHANGED <<drive, revisions>>
              /\ \A s \in Requests : pc[s] = "saving" => pc'[s] = "saving" /\ put'[s] = put[s]
            BY <2>0, <2>4, <3>1, <3>2, UseFileFresh
        <3>4. CacheIsCurrent'
            BY <2>0, <3>3 DEF FreshInv, CacheIsCurrent
        <3> QED  BY <3>3, <3>4 DEF FreshInv
    <2> QED
        BY <1>5, <2>1, <2>2, <2>3, <2>4 DEF Enter, AnswerOriginal, Settle, Hit, IsKeyed
<1>6. ASSUME NEW r \in Requests, ServeGet(r) PROVE FreshInv'
    <2>1. /\ pc[r] = "loading" /\ op[r].kind # "restore" /\ put[r] # "sent"
          /\ pc' = [pc EXCEPT ![r] = "loaded"] /\ file' = [file EXCEPT ![r] = drive]
          /\ UNCHANGED <<drive, revisions, put, man, cache, op>>
        BY <1>6 DEF ServeGet, writes, FreshInv, RestoreIsKnown, SentBased
    <2>2. SentBased'
        BY <1>0, <2>1 DEF FreshInv, SentBased, Based, TypeOK
    <2>3. (OnlyWritesSave /\ AppliedIsCurrent)'
        BY <1>0, <2>1 DEF FreshInv, OnlyWritesSave, AppliedIsCurrent, TypeOK
    <2>4. (LoadedIsCurrent /\ RestoreIsKnown /\ CacheIsCurrent)'
        BY <1>0, <2>1 DEF FreshInv, LoadedIsCurrent, RestoreIsKnown, CacheIsCurrent, TypeOK
    <2> QED  BY <2>2, <2>3, <2>4 DEF FreshInv
<1>7. ASSUME NEW r \in Requests, ReturnGet(r) PROVE FreshInv'
    <2>1. /\ pc[r] = "loaded" /\ UseFile(r, file[r]) /\ cache' = file[r] /\ op' = op
          /\ file[r] = drive /\ file[r] \in Content /\ op[r].kind # "restore"
        BY <1>0, <1>7 DEF ReturnGet, TypeOK, FreshInv, LoadedIsCurrent, RestoreIsKnown
    <2>2. /\ (SentBased /\ OnlyWritesSave /\ AppliedIsCurrent /\ LoadedIsCurrent /\ RestoreIsKnown)'
          /\ UNCHANGED <<drive, revisions>>
        BY <2>1, UseFileFresh
    <2> QED  BY <2>1, <2>2 DEF FreshInv, CacheIsCurrent
<1>8. ASSUME NEW r \in Requests, ApplyPut(r) PROVE FreshInv'
    <2>1. /\ put[r] = "sent" /\ pc[r] = "saving" /\ r \in Writers
          /\ put' = [put EXCEPT ![r] = "applied"] /\ drive' = file[r]
          /\ revisions' = revisions \cup {file[r]}
          /\ UNCHANGED <<cache, pc, op, file, man>>
        BY <1>8 DEF ApplyPut, FreshInv, SentBased, OnlyWritesSave, Writers, Working
    <2>2. \A s \in Requests : pc[s] = "saving" => s = r
        BY <2>1, SoleWriter DEF FreshInv, OnlyWritesSave, Writers, Working
    <2>3. \A s \in Requests : pc[s] # "loaded"
        BY <1>8, <2>1, SoleWriter DEF Calm, ApplyPut, ReaderPending, Writers, Working
    <2>4. (SentBased /\ OnlyWritesSave /\ AppliedIsCurrent)'
        BY <1>0, <2>1, <2>2 DEF FreshInv, SentBased, OnlyWritesSave, AppliedIsCurrent, TypeOK
    <2>5. (LoadedIsCurrent /\ RestoreIsKnown /\ CacheIsCurrent)'
        BY <1>0, <2>1, <2>3 DEF FreshInv, LoadedIsCurrent, RestoreIsKnown, CacheIsCurrent, TypeOK
    <2> QED  BY <2>4, <2>5 DEF FreshInv
<1>9. ASSUME NEW r \in Requests, DropPut(r) \/ ManifestWritten(r) \/ ManifestFails(r) PROVE FreshInv'
    <2>1. /\ ~ManifestFails(r)
          /\ UNCHANGED <<drive, revisions, cache, pc, op, file>>
          /\ \A s \in Requests : man'[s] \in {man[s], "ok"}
          /\ \A s \in Requests : put'[s] = put[s] \/ (put[s] = "sent" /\ put'[s] = "dropped")
        BY <1>0, <1>9 DEF Calm, DropPut, ManifestWritten, ManifestFails, TypeOK
    <2>2. (SentBased /\ OnlyWritesSave /\ AppliedIsCurrent)'
        BY <2>1 DEF FreshInv, SentBased, Based, OnlyWritesSave, AppliedIsCurrent
    <2>3. (LoadedIsCurrent /\ RestoreIsKnown /\ CacheIsCurrent)'
        BY <2>1 DEF FreshInv, LoadedIsCurrent, RestoreIsKnown, CacheIsCurrent
    <2> QED  BY <2>2, <2>3 DEF FreshInv
<1>10. ASSUME NEW r \in Requests, SaveSucceeds(r) PROVE FreshInv'
    <2>1. pc[r] = "saving" /\ put[r] = "applied" /\ cache' = drive
        BY <1>10 DEF SaveSucceeds, FreshInv, AppliedIsCurrent
    <2> QED  BY <1>10, <2>1, FreshMove DEF SaveSucceeds, Settle, writes
<1>11. ASSUME NEW r \in Requests, SaveFails(r) PROVE FreshInv'
    <2>1. put[r] # "sent"
        BY <1>11 DEF SaveFails, FreshInv, OnlyWritesSave
    <2> QED  BY <1>11, <2>1, FreshMove DEF SaveFails, Settle, writes
<1>12. CASE CacheExpires \/ \E k \in Keys : IdemExpires(k)
    BY <1>12 DEF CacheExpires, IdemExpires, writes, FreshInv, SentBased, Based, OnlyWritesSave,
        AppliedIsCurrent, LoadedIsCurrent, RestoreIsKnown, CacheIsCurrent
<1>13. CASE Restart
    <2>1. /\ \A s \in Requests : pc'[s] \in {"idle", "settled"} /\ put'[s] # "sent"
          /\ \A s \in Requests : pc'[s] # "idle" => pc[s] # "idle"
          /\ cache' = None /\ op' = op
        BY <1>0, <1>13 DEF Restart, TypeOK, Pc
    <2> QED
        BY <2>1 DEF FreshInv, SentBased, OnlyWritesSave, AppliedIsCurrent, LoadedIsCurrent,
            RestoreIsKnown, CacheIsCurrent
<1> QED
    BY <1>1, <1>2, <1>3, <1>4, <1>5, <1>6, <1>7, <1>8, <1>9, <1>10, <1>11, <1>12, <1>13
    DEF Next, Step, Fault

\* The cached file and the copy a writer works on are never behind Drive.
THEOREM CopiesStayFresh ==
    ASSUME Calm
    PROVE  Spec => []FreshInv
<1>1. Init => FreshInv
    BY DEF Init, FreshInv, SentBased, OnlyWritesSave, AppliedIsCurrent, LoadedIsCurrent,
        RestoreIsKnown, CacheIsCurrent
<1>2. Inv /\ FreshInv /\ [Next]_vars => FreshInv'
    BY FreshStep
<1> QED  BY <1>1, <1>2, InvHolds, PTL DEF Spec

\* Where Drive changes, it changes by a PUT on its way, and that PUT is Based.
LEMMA ChangeIsAtomic ==
    ASSUME Inv, FreshInv, [Next]_vars, drive' # drive
    PROVE  \E r \in Requests : AtomicChange(r)
<1>0. TypeOK
    BY DEF Inv
<1>1. ASSUME NEW r \in Requests, put[r] = "sent", put'[r] = "applied", drive' = file[r]
      PROVE  AtomicChange(r)
    BY <1>1 DEF FreshInv, SentBased, Based, AtomicChange
<1>2. ASSUME NEW r \in Requests, ApplyPut(r) PROVE AtomicChange(r)
    BY <1>0, <1>1, <1>2 DEF ApplyPut, TypeOK
<1>3. CASE Restart
    <2>1. PICK r \in Requests : put[r] = "sent" /\ put'[r] = "applied" /\ drive' = file[r]
        BY <1>3 DEF Restart
    <2> QED  BY <1>1, <2>1
<1>4. ASSUME NEW r \in Requests, NEW base, UseFile(r, base) PROVE drive' = drive
    BY <1>4 DEF UseFile, FinishRead, FinishDuplicate, FinishMissing, Change, Send, writes
<1>5. ASSUME NEW r \in Requests, Enter(r) \/ ReturnGet(r) PROVE FALSE
    BY <1>4, <1>5 DEF Enter, ReturnGet, Send, writes
<1>6. ASSUME NEW r \in Requests,
             Arrive(r) \/ TakeLock(r) \/ ServeGet(r) \/ ManifestWritten(r) \/ SaveSucceeds(r)
             \/ SaveFails(r) \/ Fault(r)
      PROVE  FALSE
    BY <1>6 DEF Arrive, TakeLock, ServeGet, ManifestWritten, SaveSucceeds, SaveFails, Fault,
        LoadFails, DropPut, ManifestFails, writes
<1>7. ~CacheExpires /\ (\A k \in Keys : ~IdemExpires(k)) /\ ~UNCHANGED vars
    BY DEF CacheExpires, IdemExpires, writes, vars
<1> QED  BY <1>2, <1>3, <1>5, <1>6, <1>7 DEF Next, Step

\* dataService.ts:117-121: reading the current state, changing it and writing it
\* back under the lock loses no update - with the cached copy of lines 182-187,
\* failing loads, failing file PUTs and restarts, as long as no reader's fill of
\* the cache is overtaken and no manifest PUT fails before its file PUT lands.
THEOREM UpdatesSurvive ==
    ASSUME Calm
    PROVE  Spec => NoLostUpdate
<1>1. Inv /\ FreshInv /\ [Next]_vars => [drive' # drive => \E r \in Requests : AtomicChange(r)]_vars
    BY ChangeIsAtomic
<1> QED  BY <1>1, InvHolds, CopiesStayFresh, PTL DEF Spec, NoLostUpdate

\* With no write under way, a list is answered with what Drive holds, cached or
\* not, in every interleaving of the same environment.
THEOREM ReadsStayCurrent ==
    ASSUME Calm
    PROVE  Spec => ReadsAreCurrent
<1>1. ASSUME Inv, FreshInv, [Next]_vars, NEW s \in Requests PROVE ReadIsCurrent(s)
    <2> SUFFICES ASSUME pc[s] # "settled", pc'[s] = "settled", answer'[s].status = "ok",
                        op'[s].kind = "list", Writers = {}
                 PROVE  file'[s] = drive
        BY DEF ReadIsCurrent
    <2> USE <1>1 DEF Inv, TypeOK
    <2>1. cache \in {None, drive} /\ (pc[s] = "loaded" => file[s] = drive)
        BY DEF FreshInv, CacheIsCurrent, LoadedIsCurrent, OnlyWritesSave, Writers, Working
    <2>2. ASSUME NEW base \in {cache, file[s]}, base = drive, op' = op, UseFile(s, base)
          PROVE  file'[s] = drive
        BY <2>2 DEF UseFile, FinishRead, FinishDuplicate, FinishMissing, Change, Send, IsKeyed, IsWrite
    <2>3. CASE Enter(s)
        BY <2>1, <2>2, <2>3 DEF Enter, Hit, IsKeyed, Send
    <2>4. CASE ReturnGet(s)
        BY <2>1, <2>2, <2>4 DEF ReturnGet
    <2>5. CASE Arrive(s)
        BY <2>5 DEF Arrive, Hit, IsKeyed
    <2>6. CASE LoadFails(s)
        BY <2>6 DEF LoadFails, Settle
    <2>7. CASE SaveSucceeds(s) \/ SaveFails(s)
        BY <2>7 DEF SaveSucceeds, SaveFails, FreshInv, OnlyWritesSave, Writers, Working
    <2>8. CASE Restart
        BY <2>8 DEF Restart, Pc
    <2>9. ~TakeLock(s) /\ ~ServeGet(s)
        BY DEF TakeLock, ServeGet
    <2>10. ASSUME NEW r \in Requests,
                  ApplyPut(r) \/ DropPut(r) \/ ManifestWritten(r) \/ ManifestFails(r)
           PROVE  FALSE
        BY <2>10 DEF ApplyPut, DropPut, ManifestWritten, ManifestFails
    <2>11. ~CacheExpires /\ (\A k \in Keys : ~IdemExpires(k)) /\ ~UNCHANGED vars
        BY DEF CacheExpires, IdemExpires, vars
    <2>12. ASSUME NEW r \in Requests, r # s, Step(r) \/ Arrive(r) \/ Fault(r) PROVE FALSE
        <3>1. ASSUME NEW base, UseFile(r, base) PROVE FALSE
            BY <2>12, <3>1 DEF UseFile, FinishRead, FinishDuplicate, FinishMissing, Change, Send,
                AnswerOriginal, Settle
        <3>2. ~Enter(r) /\ ~ReturnGet(r)
            BY <2>12, <3>1 DEF Enter, ReturnGet, Send, AnswerOriginal, Settle
        <3>3. ~TakeLock(r) /\ ~ServeGet(r) /\ ~SaveSucceeds(r) /\ ~SaveFails(r) /\ ~LoadFails(r)
            BY <2>12 DEF TakeLock, ServeGet, SaveSucceeds, SaveFails, LoadFails, Settle
        <3>4. ~Arrive(r)
            BY <2>12 DEF Arrive, AnswerOriginal, Settle
        <3> QED  BY <2>10, <2>12, <3>2, <3>3, <3>4 DEF Step, Fault
    <2> QED
        BY <2>3, <2>4, <2>5, <2>6, <2>7, <2>8, <2>9, <2>10, <2>11, <2>12 DEF Next, Step, Fault
<1>2. Inv /\ FreshInv /\ [Next]_vars => [\A r \in Requests : ReadIsCurrent(r)]_vars
    BY <1>1
<1> QED  BY <1>2, InvHolds, CopiesStayFresh, PTL DEF Spec, ReadsAreCurrent

-----------------------------------------------------------------------------
(* What the answers rest on *)

\* A request has its operation once it has arrived, its answer once it is settled,
\* and no PUT before it has loaded the file; only writes send one.
PhaseOK(r) ==
    /\ pc[r] = "idle" <=> op[r] = None
    /\ pc[r] = "settled" <=> answer[r] # None
    /\ pc[r] \in {"idle", "queued", "ready", "loading", "loaded"} => put[r] = "none"
    /\ put[r] # "none" => IsWrite(op[r])

\* The create that first stored key k with payload v.
Original(i, k, v) == /\ i \in Requests /\ put[i] = "applied"
                     /\ op[i] = [kind |-> "create", key |-> k, val |-> v]

\* The keyed records of a file are those that applied creates put there.
Known(c) == \A i \in Ids : c[i] # None /\ c[i].key \in Keys => Original(i, c[i].key, c[i].hash)

\* So are those of every file but the request's own record on its way to Drive ...
FileKnown(r) ==
    /\ put[r] \in {"none", "applied"} => Known(file[r])
    /\ \A i \in Ids : i # r /\ file[r][i] # None /\ file[r][i].key \in Keys =>
            Original(i, file[r][i].key, file[r][i].hash)
    /\ file[r][r] # None /\ file[r][r].key \in Keys /\ put[r] # "none" =>
            op[r] = [kind |-> "create", key |-> file[r][r].key, val |-> file[r][r].hash]

\* ... and the key cache remembers applied creates only.
KnownInv ==
    /\ \A c \in revisions \cup {drive} : Known(c)
    /\ cache # None => Known(cache)
    /\ \A k \in Keys : idem[k] # None => Original(idem[k].id, k, idem[k].hash)
    /\ \A r \in Requests : FileKnown(r)

\* What a create sends holds its record, and Drive's history holds what was applied.
StoredInv ==
    \A r \in Requests : put[r] # "none" /\ op[r].kind = "create" =>
        /\ file[r][r] # None /\ file[r][r].key = op[r].key /\ file[r][r].hash = op[r].val
        /\ put[r] = "applied" => file[r] \in revisions

\* A create was answered with an applied create of its key and payload, or refused
\* because of one with another payload.
AnswerBased(r) ==
    answer[r] # None /\ op[r].kind = "create" =>
        /\ answer[r].status = "ok" =>
                \/ answer[r].id = r /\ put[r] = "applied"
                \/ IsKeyed(op[r]) /\ Original(answer[r].id, op[r].key, op[r].val)
        /\ answer[r].status = "conflict" =>
                \E i \in Requests, v \in Vals \ {op[r].val} : Original(i, op[r].key, v)

AnswerInv ==
    /\ \A r \in Requests : PhaseOK(r) /\ AnswerBased(r)
    /\ KnownInv /\ StoredInv

\* The record of an applied keyed create is still there unless its removal was asked.
KeptInv ==
    \A i \in Requests : put[i] = "applied" /\ IsKeyed(op[i]) =>
        \/ drive[i] # None /\ drive[i].key = op[i].key
        \/ RemovalAsked(i)

\* Of two applied creates of one key the older one's removal was asked.
OneOriginal ==
    \A i, j \in Requests :
        put[i] = "applied" /\ put[j] = "applied" /\ IsKeyed(op[i]) /\ IsKeyed(op[j]) /\ op[i].key = op[j].key
        => i = j \/ RemovalAsked(i) \/ RemovalAsked(j)

-----------------------------------------------------------------------------
(* Operations and the records of a file *)

\* A create is its key and payload.
LEMMA CreateForm ==
    ASSUME NEW o \in Op, o.kind = "create"
    PROVE  /\ o = [kind |-> "create", key |-> o.key, val |-> o.val]
           /\ o.key \in Keys \cup {NoKey} /\ o.val \in Vals
BY DEF Op, CreateOp, UpdateOp, UpsertOp, DeleteOp, RestoreOp, ReadOp

\* What is an original stays one while applied PUTs stay applied.
LEMMA OriginalStays ==
    ASSUME \A i \in Requests : put[i] = "applied" => put'[i] = "applied" /\ op'[i] = op[i],
           NEW i, NEW k, NEW v, Original(i, k, v)
    PROVE  Original(i, k, v)'
BY DEF Original

LEMMA KnownStays ==
    ASSUME \A i \in Requests : put[i] = "applied" => put'[i] = "applied" /\ op'[i] = op[i],
           NEW c, Known(c)
    PROVE  Known(c)'
BY OriginalStays DEF Known

\* Among the records of the changed file only the request's own is new, and only
\* if it is a create.
LEMMA EffectKnown ==
    ASSUME NEW o \in Op, NEW r \in Requests, NEW c \in Content, HasTarget(o, c), Known(c), put[r] = "none"
    PROVE  LET d == Effect(o, r, c)
           IN /\ \A i \in Ids : i # r /\ d[i] # None /\ d[i].key \in Keys => Original(i, d[i].key, d[i].hash)
              /\ d[r] # None /\ d[r].key \in Keys => o = [kind |-> "create", key |-> d[r].key, val |-> d[r].hash]
              /\ o.kind = "create" => d[r] # None /\ d[r].key = o.key /\ d[r].hash = o.val
<1> DEFINE d == Effect(o, r, c)
<1>a. r \in Ids /\ FixedId \in Ids /\ FixedId # r /\ DOMAIN c = Ids
    BY DistinctConstants DEF Ids, Content
<1>b. c[r] # None => c[r].key \notin Keys
    BY <1>a DEF Known, Original
<1>1. CASE o.kind = "create"
    <2>1. o = [kind |-> "create", key |-> o.key, val |-> o.val]
        BY <1>1, CreateForm
    <2>2. d = [c EXCEPT ![r] = [key |-> o.key, hash |-> o.val, val |-> o.val]]
        BY <1>1 DEF Effect, Created, Updated, Upserted, Deleted
    <2>3. /\ d[r] = [key |-> o.key, hash |-> o.val, val |-> o.val]
          /\ \A i \in Ids : i # r => d[i] = c[i]
        BY <1>a, <2>2
    <2>4. d[r] \in Record
        BY <1>1, <2>3, CreateForm DEF Record
    <2>5. d[r] # None
        BY <2>4, NoneIsNoValue DEF Record
    <2> QED  BY <2>1, <2>3, <2>5 DEF Known
<1>2. CASE o.kind = "update"
    <2>1. o.id \in Ids /\ c[o.id] # None
        BY <1>2 DEF HasTarget, Op, CreateOp, UpdateOp, UpsertOp, DeleteOp, RestoreOp, ReadOp
    <2>2. \A i \in Ids : d[i] # None => c[i] # None /\ d[i].key = c[i].key /\ d[i].hash = c[i].hash
        BY <1>2, <1>a, <2>1 DEF Effect, Created, Updated, Upserted, Deleted
    <2> QED  BY <1>2, <1>a, <1>b, <2>2 DEF Known
<1>3. CASE o.kind = "upsert"
    <2>1. d[FixedId].key = NoKey /\ \A i \in Ids \ {FixedId} : d[i] = c[i]
        BY <1>3, <1>a DEF Effect, Created, Updated, Upserted, Deleted
    <2>2. \A i \in Ids : d[i] # None /\ d[i].key \in Keys => d[i] = c[i]
        BY <2>1, DistinctConstants
    <2> QED  BY <1>3, <1>a, <1>b, <2>1, <2>2 DEF Known
<1>4. CASE o.kind = "delete"
    <2>1. \A i \in Ids : d[i] # None => d[i] = c[i]
        BY <1>4 DEF Effect, Created, Updated, Upserted, Deleted
    <2> QED  BY <1>4, <1>a, <1>b, <2>1 DEF Known
<1>5. CASE o.kind \notin {"create", "update", "upsert", "delete"}
    <2>1. d = c
        BY <1>5 DEF Effect, Created, Updated, Upserted, Deleted
    <2> QED  BY <1>5, <1>a, <1>b, <2>1 DEF Known
<1> QED  BY <1>1, <1>2, <1>3, <1>4, <1>5

-----------------------------------------------------------------------------
(* Answering *)

\* What request r, asking for o, is told is true of the writes applied so far. That
\* a target is missing is true of the file in Drive if the copy was fresh.
Truth(r, o, a) ==
    \/ a.status = "ok" /\ ~IsWrite(o) /\ a.id = None
    \/ a.status = "ok" /\ put[r] = "applied" /\ a.id = (IF o.kind = "create" THEN r ELSE None)
    \/ a.status = "ok" /\ IsKeyed(o) /\ Original(a.id, o.key, o.val)
    \/ /\ a.status = "conflict" /\ IsKeyed(o) /\ a.id = None
       /\ \E i \in Requests, v \in Vals \ {o.val} : Original(i, o.key, v)
    \/ /\ a.status = "missing" /\ IsWrite(o) /\ a.id = None /\ put[r] = "none"
       /\ FreshInv => ~HasTarget(o, drive)
    \/ a.status = "error" /\ a.id = None

\* The step answers request r, and only that.
Answers(r) ==
    /\ \E a \in Answer : answer' = [answer EXCEPT ![r] = a] /\ Truth(r, op'[r], a)
    /\ pc' = [pc EXCEPT ![r] = "settled"]
    /\ UNCHANGED <<drive, revisions, put>>

\* An answer that repeats an original, or refuses because of it.
LEMMA OriginalAnswers ==
    ASSUME NEW r \in Requests, NEW o \in Op, IsKeyed(o), op'[r] = o, NEW i, NEW h,
           Original(i, o.key, h), h \in Vals, AnswerOriginal(r, o, i, h),
           UNCHANGED <<drive, revisions, put>>
    PROVE  Answers(r)
<1>1. i \in Ids
    BY DEF Original, Ids
<1>2. CASE h = o.val
    <2>1. [status |-> "ok", id |-> i] \in Answer
        BY <1>1 DEF Answer, Status
    <2>2. Truth(r, o, [status |-> "ok", id |-> i])
        BY <1>2 DEF Truth
    <2> QED  BY <1>2, <2>1, <2>2 DEF Answers, AnswerOriginal, Settle
<1>3. CASE h # o.val
    <2>1. [status |-> "conflict", id |-> None] \in Answer
        BY DEF Answer, Status
    <2>2. Truth(r, o, [status |-> "conflict", id |-> None])
        <3>1. i \in Requests /\ h \in Vals \ {o.val}
            BY <1>3 DEF Original
        <3> QED  BY <3>1 DEF Truth
    <2> QED  BY <1>3, <2>1, <2>2 DEF Answers, AnswerOriginal, Settle
<1> QED  BY <1>2, <1>3

\* The remembered key of a create names an original.
LEMMA HitIsOriginal ==
    ASSUME TypeOK, KnownInv, NEW o \in Op, Hit(o)
    PROVE  IsKeyed(o) /\ idem[o.key].hash \in Vals /\ Original(idem[o.key].id, o.key, idem[o.key].hash)
<1>1. IsKeyed(o) /\ o.key \in Keys /\ idem[o.key] # None
    BY CreateForm DEF Hit, IsKeyed
<1> QED  BY <1>1 DEF KnownInv, TypeOK

AnswerTrue == Inv /\ AnswerInv

\* The three ways to end a request with a file at hand.
LEMMA UseFileAnswers ==
    ASSUME AnswerTrue, NEW r \in Requests, NEW base \in Content, Known(base),
           pc[r] \in {"ready", "loaded"}, op' = op,
           FreshInv /\ IsWrite(op[r]) => base = drive,
           FinishRead(r, base) \/ FinishDuplicate(r, base) \/ FinishMissing(r, base)
    PROVE  Answers(r)
<1>0. op[r] \in Op /\ put[r] = "none"
    BY OpType DEF AnswerTrue, AnswerInv, PhaseOK
<1>1. CASE FinishRead(r, base)
    <2>1. [status |-> "ok", id |-> None] \in Answer
        BY DEF Answer, Status
    <2>2. Truth(r, op[r], [status |-> "ok", id |-> None])
        BY <1>1 DEF Truth, FinishRead
    <2> QED  BY <1>1, <2>1, <2>2 DEF Answers, FinishRead, Settle, writes
<1>2. CASE FinishMissing(r, base)
    <2>1. [status |-> "missing", id |-> None] \in Answer
        BY DEF Answer, Status
    <2>2. Truth(r, op[r], [status |-> "missing", id |-> None])
        BY <1>0, <1>2 DEF Truth, FinishMissing
    <2> QED  BY <1>2, <2>1, <2>2 DEF Answers, FinishMissing, Settle, writes
<1>3. CASE FinishDuplicate(r, base)
    <2>1. IsKeyed(op[r]) /\ UNCHANGED <<drive, revisions, put>>
        BY <1>3 DEF FinishDuplicate, writes
    <2>2. PICK i \in Marked(base, op[r].key) : AnswerOriginal(r, op[r], i, base[i].hash)
        BY <1>3 DEF FinishDuplicate
    <2>3. i \in Ids /\ base[i] # None /\ base[i].key = op[r].key /\ op[r].key \in Keys
        BY <1>0, <2>1, CreateForm DEF Marked, IsKeyed
    <2>4. base[i].hash \in Vals /\ Original(i, op[r].key, base[i].hash)
        BY <2>3 DEF Known, Content, Record
    <2> QED  BY <1>0, <2>1, <2>2, <2>4, OriginalAnswers
<1> QED  BY <1>1, <1>2, <1>3

\* Requests whose PUT was applied have arrived, and keep their operation when
\* another one arrives.
LEMMA AppliedArrived ==
    ASSUME AnswerTrue, NEW r \in Requests,
           op' = op \/ (pc[r] = "idle" /\ \A s \in Requests : s # r => op'[s] = op[s])
    PROVE  \A i \in Requests : put[i] = "applied" => i # r \/ op' = op
BY DEF AnswerTrue, AnswerInv, PhaseOK

\* After an answer the phases are right and every answer is.
LEMMA AnswersKeep ==
    ASSUME AnswerTrue, NEW r \in Requests, Answers(r), pc[r] # "settled", op'[r] \in Op,
           op' = op \/ (pc[r] = "idle" /\ \A s \in Requests : s # r => op'[s] = op[s])
    PROVE  \A s \in Requests : PhaseOK(s)' /\ AnswerBased(s)'
<1> USE DEF AnswerTrue, AnswerInv
<1>1. PICK a \in Answer : answer' = [answer EXCEPT ![r] = a] /\ Truth(r, op'[r], a)
    BY DEF Answers
<1>2. pc' = [pc EXCEPT ![r] = "settled"] /\ put' = put
    BY DEF Answers
<1>3. a # None /\ op'[r] # None
    BY NoneIsNoAnswer
<1>4. answer'[r] = a /\ pc'[r] = "settled"
    BY <1>1, <1>2 DEF Inv, TypeOK
<1>5. \A s \in Requests : s # r => answer'[s] = answer[s] /\ pc'[s] = pc[s] /\ op'[s] = op[s]
    BY <1>1, <1>2 DEF Inv, TypeOK
<1>6. \A i \in Requests : put[i] = "applied" => put'[i] = "applied" /\ op'[i] = op[i]
    BY <1>2, <1>5, AppliedArrived
<1>7. ASSUME NEW s \in Requests, s # r PROVE PhaseOK(s)' /\ AnswerBased(s)'
    <2>1. PhaseOK(s)'
        BY <1>2, <1>5, <1>7 DEF PhaseOK
    <2>2. \A i, k, v : Original(i, k, v) => Original(i, k, v)'
        BY <1>6, OriginalStays
    <2>3. AnswerBased(s)'
        BY <1>2, <1>5, <1>7, <2>2 DEF AnswerBased
    <2> QED  BY <2>1, <2>3
<1>8. PhaseOK(r)'
    <2>1. pc[r] = "idle" => put[r] = "none"
        BY DEF PhaseOK
    <2>2. put'[r] # "none" => IsWrite(op'[r])
        BY <1>2, <2>1 DEF PhaseOK
    <2> QED  BY <1>3, <1>4, <2>2 DEF PhaseOK
<1>9. AnswerBased(r)'
    <2>1. PICK o \in Op : o = op'[r]
        OBVIOUS
    <2>2. SUFFICES ASSUME o.kind = "create"
                   PROVE  /\ a.status = "ok" =>
                                \/ a.id = r /\ put[r] = "applied"
                                \/ IsKeyed(o) /\ Original(a.id, o.key, o.val)'
                          /\ a.status = "conflict" =>
                                \E i \in Requests, v \in Vals \ {o.val} : Original(i, o.key, v)'
        BY <1>2, <1>4, <2>1 DEF AnswerBased
    <2>3. IsWrite(o)
        BY <2>2 DEF IsWrite
    <2>4. \A i, k, v : Original(i, k, v) => Original(i, k, v)'
        BY <1>6, OriginalStays
    <2>5. Truth(r, o, a)
        BY <1>1, <2>1
    <2> QED  BY <2>2, <2>3, <2>4, <2>5 DEF Truth
<1> QED  BY <1>7, <1>8, <1>9

\* Other steps move a request without answering it.
LEMMA MovesKeep ==
    ASSUME AnswerTrue, NEW r \in Requests, NEW p \in {"queued", "ready", "loading", "loaded"},
           pc' = [pc EXCEPT ![r] = p], UNCHANGED <<put, answer>>,
           \/ op' = op /\ pc[r] \in {"queued", "ready", "loading"}
           \/ pc[r] = "idle" /\ op'[r] \in Op /\ \A s \in Requests : s # r => op'[s] = op[s]
    PROVE  \A s \in Requests : PhaseOK(s)' /\ AnswerBased(s)'
<1> USE DEF AnswerTrue, AnswerInv
<1>1. pc'[r] = p /\ \A s \in Requests : s # r => pc'[s] = pc[s]
    BY DEF Inv, TypeOK
<1>2. put[r] = "none" /\ answer[r] = None /\ op'[r] # None
    BY NoneIsNoAnswer DEF PhaseOK
<1>3. \A i \in Requests : put[i] = "applied" => put'[i] = "applied" /\ op'[i] = op[i]
    BY <1>2
<1>4. \A i, k, v : Original(i, k, v) => Original(i, k, v)'
    BY <1>3, OriginalStays
<1>5. ASSUME NEW s \in Requests, s # r PROVE PhaseOK(s)' /\ AnswerBased(s)'
    BY <1>1, <1>4, <1>5 DEF PhaseOK, AnswerBased
<1>6. PhaseOK(r)' /\ AnswerBased(r)'
    BY <1>1, <1>2 DEF PhaseOK, AnswerBased
<1> QED  BY <1>5, <1>6

\* So do a save and what becomes of its PUT.
LEMMA PutsKeep ==
    ASSUME AnswerTrue, NEW r \in Requests, UNCHANGED <<op, answer>>, IsWrite(op[r]), op[r] # None,
           \/ pc[r] \in {"ready", "loaded"} /\ pc' = [pc EXCEPT ![r] = "saving"] /\ put' = [put EXCEPT ![r] = "sent"]
           \/ put[r] = "sent" /\ pc' = pc /\ put' \in {[put EXCEPT ![r] = "applied"], [put EXCEPT ![r] = "dropped"]}
    PROVE  \A s \in Requests : PhaseOK(s)' /\ AnswerBased(s)'
<1> USE DEF AnswerTrue, AnswerInv
<1>1. \A s \in Requests : s # r => pc'[s] = pc[s] /\ put'[s] = put[s]
    BY DEF Inv, TypeOK
<1>2. put[r] # "applied" /\ (answer[r] # None <=> pc'[r] = "settled") /\ pc'[r] # "idle"
    BY DEF PhaseOK, Inv, TypeOK
<1>3. \A i \in Requests : put[i] = "applied" => put'[i] = "applied" /\ op'[i] = op[i]
    BY <1>1, <1>2
<1>4. \A i, k, v : Original(i, k, v) => Original(i, k, v)'
    BY <1>3, OriginalStays
<1>5. \A s \in Requests : AnswerBased(s)'
    BY <1>1, <1>2, <1>4 DEF AnswerBased
<1>6. PhaseOK(r)'
    BY <1>2 DEF PhaseOK, Inv, TypeOK
<1>7. \A s \in Requests : s # r => PhaseOK(s)'
    BY <1>1 DEF PhaseOK
<1> QED  BY <1>5, <1>6, <1>7

-----------------------------------------------------------------------------
(* What each step does to answers and PUTs *)

\* The step moves request r on without an answer, and without touching a PUT.
Moves(r) ==
    /\ \E p \in {"queued", "ready", "loading", "loaded"} : pc' = [pc EXCEPT ![r] = p]
    /\ UNCHANGED <<drive, revisions, put, answer>>

\* It sends the changed file, made of base.
Saves(r, base) ==
    /\ pc[r] \in {"ready", "loaded"} /\ IsWrite(op[r]) /\ HasTarget(op[r], base)
    /\ file' = [file EXCEPT ![r] = Effect(op[r], r, base)]
    /\ pc' = [pc EXCEPT ![r] = "saving"] /\ put' = [put EXCEPT ![r] = "sent"]
    /\ UNCHANGED <<drive, revisions, idem, answer>>

\* A request arrives: answered from the key cache, or on its way.
LEMMA ArriveShape ==
    ASSUME AnswerTrue, NEW r \in Requests, Arrive(r)
    PROVE  /\ pc[r] = "idle" /\ op[r] = None /\ put[r] = "none"
           /\ op'[r] \in Ops /\ op' = [op EXCEPT ![r] = op'[r]]
           /\ (Answers(r) /\ IsKeyed(op'[r])) \/ Moves(r)
           /\ UNCHANGED <<cache, idem>>
           /\ \A s \in Requests : s # r => file'[s] = file[s]
           /\ file'[r] \in {file[r]} \cup revisions
<1> USE DEF AnswerTrue, AnswerInv
<1>0. TypeOK /\ pc[r] = "idle" /\ op[r] = None /\ put[r] = "none"
    BY DEF Arrive, PhaseOK, Inv
<1>1. PICK o \in Ops :
          /\ op' = [op EXCEPT ![r] = o]
          /\ \/ /\ Hit(o)
                /\ AnswerOriginal(r, o, idem[o.key].id, idem[o.key].hash)
                /\ UNCHANGED <<queue, file>>
             \/ /\ ~Hit(o) /\ IsWrite(o)
                /\ pc' = [pc EXCEPT ![r] = "queued"]
                /\ queue' = Append(queue, r)
                /\ IF o.kind = "restore"
                   THEN \E rev \in revisions : file' = [file EXCEPT ![r] = rev]
                   ELSE UNCHANGED file
                /\ UNCHANGED answer
             \/ /\ ~IsWrite(o)
                /\ pc' = [pc EXCEPT ![r] = "ready"]
                /\ UNCHANGED <<queue, file, answer>>
    BY DEF Arrive
<1>2. UNCHANGED <<writes, cache, idem>>
    BY DEF Arrive
<1>3. op'[r] = o /\ o \in Op
    BY <1>0, <1>1, OpsAssumption DEF TypeOK
<1>4. (Answers(r) /\ IsKeyed(op'[r])) \/ Moves(r)
    <2>1. CASE Hit(o) /\ AnswerOriginal(r, o, idem[o.key].id, idem[o.key].hash)
        <3>1. IsKeyed(o) /\ idem[o.key].hash \in Vals /\ Original(idem[o.key].id, o.key, idem[o.key].hash)
            BY <1>0, <1>3, <2>1, HitIsOriginal
        <3>2. UNCHANGED <<drive, revisions, put>>
            BY <1>2 DEF writes
        <3>3. Answers(r)
            BY <1>3, <2>1, <3>1, <3>2, OriginalAnswers
        <3> QED  BY <1>3, <3>1, <3>3
    <2>2. CASE ~(Hit(o) /\ AnswerOriginal(r, o, idem[o.key].id, idem[o.key].hash))
        BY <1>1, <1>2, <2>2 DEF Moves, writes
    <2> QED  BY <2>1, <2>2
<1>5. file' = file \/ \E rev \in revisions : file' = [file EXCEPT ![r] = rev]
    BY <1>1
<1>6. (\A s \in Requests : s # r => file'[s] = file[s]) /\ file'[r] \in {file[r]} \cup revisions
    BY <1>0, <1>5 DEF TypeOK
<1> QED  BY <1>0, <1>1, <1>2, <1>3, <1>4, <1>6

\* What follows a load: an answer, which the key cache may remember, or a save.
LEMMA UseFileShape ==
    ASSUME AnswerTrue, NEW r \in Requests, NEW base \in Content, Known(base),
           pc[r] \in {"ready", "loaded"}, op' = op, UseFile(r, base),
           FreshInv /\ IsWrite(op[r]) => base = drive
    PROVE  /\ Answers(r) \/ Saves(r, base)
           /\ \A k \in Keys : idem'[k] = idem[k] \/ Original(idem'[k].id, k, idem'[k].hash)
           /\ Answers(r) => file' \in {file, [file EXCEPT ![r] = base]}
<1>1. CASE Change(r, base)
    <2>1. Saves(r, base) /\ idem' = idem /\ pc'[r] = "saving"
        BY <1>1 DEF Change, Send, Saves, AnswerTrue, Inv, TypeOK
    <2>2. ~Answers(r)
        BY <2>1 DEF Answers, AnswerTrue, Inv, TypeOK
    <2> QED  BY <2>1, <2>2
<1>2. CASE FinishRead(r, base) \/ FinishMissing(r, base)
    <2>1. idem' = idem /\ file' \in {file, [file EXCEPT ![r] = base]}
        BY <1>2 DEF FinishRead, FinishMissing
    <2> QED  BY <1>2, <2>1, UseFileAnswers
<1>3. CASE FinishDuplicate(r, base)
    <2>0. op[r] \in Op /\ IsKeyed(op[r]) /\ file' = file
        BY <1>3, OpType DEF FinishDuplicate, AnswerTrue
    <2>1. PICK i \in Marked(base, op[r].key) :
              idem' = IF base[i].hash = op[r].val
                      THEN [idem EXCEPT ![op[r].key] = [id |-> i, hash |-> op[r].val]]
                      ELSE idem
        BY <1>3 DEF FinishDuplicate
    <2>2. Original(i, op[r].key, base[i].hash)
        BY <2>0, CreateForm DEF Marked, IsKeyed, Known
    <2>3. \A k \in Keys : idem'[k] = idem[k] \/ Original(idem'[k].id, k, idem'[k].hash)
        BY <2>1, <2>2 DEF AnswerTrue, Inv, TypeOK
    <2> QED  BY <1>3, <2>0, <2>3, UseFileAnswers
<1> QED  BY <1>1, <1>2, <1>3 DEF UseFile

\* The step after the lock: an answer, a save or a GET.
LEMMA EnterShape ==
    ASSUME AnswerTrue, NEW r \in Requests, Enter(r)
    PROVE  /\ pc[r] = "ready" /\ op' = op /\ cache' = cache
           /\ \/ Answers(r) /\ \E c \in {file[r], cache} : Known(c) /\ file' = [file EXCEPT ![r] = c]
              \/ \E c \in Content : Known(c) /\ Saves(r, c)
              \/ Moves(r) /\ UNCHANGED <<file, idem>>
           /\ \A k \in Keys : idem'[k] = idem[k] \/ Original(idem'[k].id, k, idem'[k].hash)
<1> USE DEF AnswerTrue, AnswerInv
<1>0. TypeOK /\ pc[r] = "ready" /\ op' = op /\ cache' = cache /\ op[r] \in Op /\ put[r] = "none"
    BY OpType DEF Enter, PhaseOK, Inv
<1>a. Known(file[r]) /\ file[r] \in Content /\ file = [file EXCEPT ![r] = file[r]]
    BY <1>0 DEF KnownInv, FileKnown, TypeOK
<1>1. CASE /\ Hit(op[r])
           /\ AnswerOriginal(r, op[r], idem[op[r].key].id, idem[op[r].key].hash)
           /\ UNCHANGED <<writes, idem, file>>
    <2>1. IsKeyed(op[r]) /\ idem[op[r].key].hash \in Vals
          /\ Original(idem[op[r].key].id, op[r].key, idem[op[r].key].hash)
        BY <1>0, <1>1, HitIsOriginal
    <2>2. UNCHANGED <<drive, revisions, put>>
        BY <1>1 DEF writes
    <2>3. Answers(r)
        BY <1>0, <1>1, <2>1, <2>2, OriginalAnswers
    <2> QED  BY <1>0, <1>1, <1>a, <2>3
<1>2. CASE op[r].kind = "restore" /\ Send(r, file[r])
    <2>1. IsWrite(op[r]) /\ HasTarget(op[r], file[r]) /\ Effect(op[r], r, file[r]) = file[r]
        BY <1>2 DEF IsWrite, HasTarget, Effect
    <2>2. Saves(r, file[r])
        BY <1>0, <1>2, <2>1 DEF Saves, Send
    <2>3. idem' = idem
        BY <2>2 DEF Saves
    <2> QED  BY <1>0, <1>a, <2>2, <2>3
<1>3. CASE op[r].kind # "restore" /\ cache # None /\ UseFile(r, cache)
    <2>1. cache \in Content /\ Known(cache)
        BY <1>0, <1>3 DEF TypeOK, KnownInv
    <2>2. FreshInv /\ IsWrite(op[r]) => cache = drive
        <3> SUFFICES ASSUME FreshInv, IsWrite(op[r]) PROVE cache = drive
            OBVIOUS
        <3>1. \A s \in Requests : pc[s] # "saving"
            BY <1>0, SoleWriter DEF FreshInv, OnlyWritesSave, Writers, Working
        <3> QED  BY <1>3, <3>1 DEF FreshInv, CacheIsCurrent
    <2>3. /\ Answers(r) \/ Saves(r, cache)
          /\ \A k \in Keys : idem'[k] = idem[k] \/ Original(idem'[k].id, k, idem'[k].hash)
          /\ Answers(r) => file' \in {file, [file EXCEPT ![r] = cache]}
        BY <1>0, <1>3, <2>1, <2>2, UseFileShape
    <2> QED  BY <1>0, <1>a, <2>1, <2>3
<1>4. CASE pc' = [pc EXCEPT ![r] = "loading"] /\ UNCHANGED <<writes, idem, file, answer>>
    BY <1>0, <1>4 DEF Moves, writes
<1> QED  BY <1>1, <1>2, <1>3, <1>4 DEF Enter

\* Drive's answer to a GET arrives: an answer or a save, from the file it served.
LEMMA ReturnShape ==
    ASSUME AnswerTrue, NEW r \in Requests, ReturnGet(r)
    PROVE  /\ pc[r] = "loaded" /\ op' = op /\ cache' = file[r] /\ Known(file[r]) /\ file[r] \in Content
           /\ (Answers(r) /\ file' = file) \/ Saves(r, file[r])
           /\ \A k \in Keys : idem'[k] = idem[k] \/ Original(idem'[k].id, k, idem'[k].hash)
<1> USE DEF AnswerTrue, AnswerInv
<1>0. TypeOK /\ pc[r] = "loaded" /\ op' = op /\ put[r] = "none" /\ cache' = file[r] /\ UseFile(r, file[r])
    BY DEF ReturnGet, PhaseOK, Inv
<1>a. Known(file[r]) /\ file[r] \in Content /\ file = [file EXCEPT ![r] = file[r]]
    BY <1>0 DEF KnownInv, FileKnown, TypeOK
<1>1. FreshInv /\ IsWrite(op[r]) => file[r] = drive
    BY <1>0 DEF FreshInv, LoadedIsCurrent
<1>2. /\ Answers(r) \/ Saves(r, file[r])
      /\ \A k \in Keys : idem'[k] = idem[k] \/ Original(idem'[k].id, k, idem'[k].hash)
      /\ Answers(r) => file' \in {file, [file EXCEPT ![r] = file[r]]}
    BY <1>0, <1>a, <1>1, UseFileShape
<1> QED  BY <1>0, <1>a, <1>2

\* A request fails, or both its PUTs are confirmed.
LEMMA SettleShape ==
    ASSUME AnswerTrue, NEW r \in Requests, LoadFails(r) \/ SaveFails(r) \/ SaveSucceeds(r)
    PROVE  Answers(r) /\ pc[r] \notin {"idle", "queued", "settled"} /\ op' = op /\ file' = file
<1>1. CASE LoadFails(r) \/ SaveFails(r)
    <2>1. [status |-> "error", id |-> None] \in Answer
        BY DEF Answer, Status
    <2>2. Truth(r, op'[r], [status |-> "error", id |-> None])
        BY DEF Truth
    <2> QED  BY <1>1, <2>1, <2>2 DEF Answers, LoadFails, SaveFails, Settle, writes
<1>2. CASE SaveSucceeds(r)
    <2> DEFINE a == [status |-> "ok", id |-> IF op[r].kind = "create" THEN r ELSE None]
    <2>1. a \in Answer
        BY DEF Answer, Status, Ids
    <2>2. Truth(r, op'[r], a)
        BY <1>2 DEF Truth, SaveSucceeds
    <2> QED  BY <1>2, <2>1, <2>2 DEF Answers, SaveSucceeds, Settle, writes
<1> QED  BY <1>1, <1>2

-----------------------------------------------------------------------------
(* The records of every file stay those of applied creates *)

\* Applied PUTs stay applied, under the operation that made them.
AppliedStays == \A i \in Requests : put[i] = "applied" => put'[i] = "applied" /\ op'[i] = op[i]

\* Nothing happens to the file of request s except that its PUT may be settled.
LEMMA FileKeeps ==
    ASSUME AppliedStays, NEW s \in Requests, FileKnown(s), file'[s] = file[s],
           op'[s] = op[s] \/ put'[s] = "none",
           put'[s] = put[s] \/ (put[s] = "sent" /\ put'[s] \in {"applied", "dropped"})
    PROVE  FileKnown(s)'
<1>1. \A i, k, v : Original(i, k, v) => Original(i, k, v)'
    BY OriginalStays DEF AppliedStays
<1>2. \A i \in Ids : i # s /\ file[s][i] # None /\ file[s][i].key \in Keys =>
          Original(i, file[s][i].key, file[s][i].hash)'
    BY <1>1 DEF FileKnown
<1>3. file[s][s] # None /\ file[s][s].key \in Keys /\ put'[s] # "none" =>
          op'[s] = [kind |-> "create", key |-> file[s][s].key, val |-> file[s][s].hash]
    BY DEF FileKnown
<1>4. put'[s] \in {"none", "applied"} => Known(file[s])'
    <2>1. CASE put[s] \in {"none", "applied"}
        BY <1>1, <2>1 DEF FileKnown, Known
    <2>2. CASE put[s] = "sent" /\ put'[s] = "applied"
        BY <1>2, <1>3, <2>2 DEF Known, Original
    <2> QED  BY <2>1, <2>2
<1>5. PICK f : f = file'[s] /\ f = file[s]
    OBVIOUS
<1> QED  BY <1>2, <1>3, <1>4, <1>5 DEF FileKnown

\* A copy of a known file, before any PUT.
LEMMA FileLoads ==
    ASSUME AppliedStays, NEW s \in Requests, NEW c, Known(c), file'[s] = c, put'[s] \in {"none", "applied"},
           put'[s] = "none" \/ (put[s] = put'[s] /\ file[s] = c /\ FileKnown(s))
    PROVE  FileKnown(s)'
<1>1. Known(c)'
    BY KnownStays DEF AppliedStays
<1>2. CASE put'[s] = "none"
    BY <1>1, <1>2 DEF FileKnown, Known
<1>3. CASE put[s] = "applied" /\ file[s] = c /\ FileKnown(s) /\ put'[s] = "applied"
    <2>1. op'[s] = op[s]
        BY <1>3 DEF AppliedStays
    <2> QED  BY <1>3, <2>1, FileKeeps
<1> QED  BY <1>2, <1>3

\* The file a save sends.
LEMMA FileSaves ==
    ASSUME AnswerTrue, AppliedStays, NEW r \in Requests, NEW base \in Content, Known(base),
           put[r] = "none", op' = op, Saves(r, base)
    PROVE  FileKnown(r)'
<1> USE DEF AnswerTrue
<1>1. op[r] \in Op /\ HasTarget(op[r], base) /\ pc[r] # "idle"
    BY OpType DEF Saves
<1>0. PICK d : d = Effect(op[r], r, base)
    OBVIOUS
<1>2. /\ \A i \in Ids : i # r /\ d[i] # None /\ d[i].key \in Keys => Original(i, d[i].key, d[i].hash)
      /\ d[r] # None /\ d[r].key \in Keys => op[r] = [kind |-> "create", key |-> d[r].key, val |-> d[r].hash]
    BY <1>0, <1>1, EffectKnown
<1>3. file'[r] = d /\ put'[r] = "sent"
    BY <1>0 DEF Saves, Inv, TypeOK
<1>4. \A i, k, v : Original(i, k, v) => Original(i, k, v)'
    BY OriginalStays DEF AppliedStays
<1>5. \A i \in Ids : i # r /\ d[i] # None /\ d[i].key \in Keys => Original(i, d[i].key, d[i].hash)'
    BY <1>2, <1>4
<1> QED  BY <1>2, <1>3, <1>5 DEF FileKnown

\* Drive, its history, the caches and the files stay known when they only take
\* over known files and originals.
LEMMA KnownKeeps ==
    ASSUME AppliedStays, KnownInv, \A s \in Requests : FileKnown(s)',
           \A c \in revisions' \cup {drive'} :
               c \in revisions \cup {drive} \/ \E s \in Requests : c = file'[s] /\ put'[s] = "applied",
           cache' \in {cache, None} \/ \E s \in Requests : cache' = file[s] /\ put[s] \in {"none", "applied"},
           \A k \in Keys : \/ idem'[k] \in {idem[k], None}
                           \/ Original(idem'[k].id, k, idem'[k].hash)
    PROVE  KnownInv'
<1>1. \A c : Known(c) => Known(c)'
    BY KnownStays DEF AppliedStays
<1>2. ASSUME NEW c \in revisions' \cup {drive'} PROVE Known(c)'
    <2>1. CASE c \in revisions \cup {drive}
        BY <1>1, <2>1 DEF KnownInv
    <2>2. ASSUME NEW s \in Requests, c = file'[s], put'[s] = "applied" PROVE Known(c)'
        BY <2>2 DEF FileKnown
    <2> QED  BY <1>2, <2>1, <2>2
<1>3. (cache # None => Known(cache))'
    <2>1. PICK c : c = cache'
        OBVIOUS
    <2>2. c # None => Known(c)
        BY <2>1 DEF KnownInv, FileKnown
    <2>3. c # None => Known(c)'
        BY <1>1, <2>2
    <2> QED  BY <2>1, <2>3
<1>4. ASSUME NEW k \in Keys PROVE (idem[k] # None => Original(idem[k].id, k, idem[k].hash))'
    <2>1. PICK e : e = idem'[k]
        OBVIOUS
    <2>2. e # None => Original(e.id, k, e.hash)
        BY <2>1 DEF KnownInv
    <2>3. e # None => Original(e.id, k, e.hash)'
        BY <2>2, OriginalStays DEF AppliedStays
    <2> QED  BY <2>1, <2>3
<1>5. (\A c \in revisions \cup {drive} : Known(c))'
    BY <1>2
<1> QED  BY <1>3, <1>4, <1>5 DEF KnownInv

\* In Drive's history a create that was sent and applied stays; a step that applies
\* no PUT and sends at most that of r keeps the rest.
LEMMA StoredKeeps ==
    ASSUME AnswerTrue, NEW r \in Requests, NEW base \in Content, Known(base), op' = op, put[r] = "none",
           Saves(r, base)
    PROVE  StoredInv'
<1> USE DEF AnswerTrue, AnswerInv
<1>1. /\ put'[r] = "sent" /\ file'[r] = Effect(op[r], r, base) /\ revisions' = revisions
      /\ \A s \in Requests : s # r => put'[s] = put[s] /\ file'[s] = file[s]
    BY DEF Saves, Inv, TypeOK
<1>2. op[r] \in Op /\ HasTarget(op[r], base)
    BY OpType DEF Saves
<1>3. op[r].kind = "create" =>
        Effect(op[r], r, base)[r] # None /\ Effect(op[r], r, base)[r].key = op[r].key
        /\ Effect(op[r], r, base)[r].hash = op[r].val
    BY <1>2, EffectKnown
<1> QED  BY <1>1, <1>3 DEF StoredInv

\* The whole of the invariant after a save.
LEMMA SaveKeeps ==
    ASSUME AnswerTrue, NEW r \in Requests, NEW base \in Content, Known(base), op' = op, Saves(r, base),
           cache' = cache \/ cache' = file[r]
    PROVE  AnswerInv'
<1> USE DEF AnswerTrue, AnswerInv
<1>1. put[r] = "none" /\ op[r] # None
    BY DEF Saves, PhaseOK
<1>2. AppliedStays /\ \A s \in Requests : s # r => file'[s] = file[s] /\ put'[s] = put[s]
    BY <1>1 DEF Saves, AppliedStays, Inv, TypeOK
<1>3. ASSUME NEW s \in Requests PROVE FileKnown(s)'
    <2>1. CASE s = r
        BY <1>1, <1>2, <2>1, FileSaves
    <2>2. CASE s # r
        BY <1>2, <2>2, FileKeeps DEF KnownInv
    <2> QED  BY <2>1, <2>2
<1>4. KnownInv'
    BY <1>1, <1>2, <1>3, KnownKeeps DEF Saves
<1>5. StoredInv'
    BY <1>1, StoredKeeps
<1>6. \A s \in Requests : PhaseOK(s)' /\ AnswerBased(s)'
    BY <1>1, PutsKeep DEF Saves
<1> QED  BY <1>4, <1>5, <1>6

\* Answering or moving on changes no PUT; the files of requests with one stay.
LEMMA QuietKeeps ==
    ASSUME AnswerTrue, NEW r \in Requests, UNCHANGED <<drive, revisions, put>>,
           op' = op \/ (put[r] = "none" /\ \A s \in Requests : s # r => op'[s] = op[s]),
           \A s \in Requests : s # r => file'[s] = file[s],
           file'[r] = file[r] \/ (put[r] = "none" /\ Known(file'[r])),
           cache' \in {cache, None} \/ (cache' = file[r] /\ put[r] \in {"none", "applied"}),
           \A k \in Keys : idem'[k] \in {idem[k], None} \/ Original(idem'[k].id, k, idem'[k].hash)
    PROVE  (KnownInv /\ StoredInv)'
<1> USE DEF AnswerTrue, AnswerInv
<1>1. AppliedStays
    BY DEF AppliedStays
<1>2. ASSUME NEW s \in Requests PROVE FileKnown(s)'
    <2>1. FileKnown(s)
        BY DEF KnownInv
    <2>2. CASE file'[s] = file[s]
        BY <1>1, <2>1, <2>2, FileKeeps
    <2>3. CASE file'[s] # file[s]
        BY <1>1, <2>3, FileLoads
    <2> QED  BY <2>2, <2>3
<1>3. KnownInv'
    BY <1>1, <1>2, KnownKeeps
<1>4. StoredInv'
    BY DEF StoredInv
<1> QED  BY <1>3, <1>4

\* A PUT or several are settled: applied ones enter the history.
LEMMA PutsSettle ==
    ASSUME AnswerTrue, UNCHANGED <<op, file>>, cache' \in {cache, None},
           \A k \in Keys : idem'[k] \in {idem[k], None},
           \A s \in Requests : put'[s] = put[s] \/ (put[s] = "sent" /\ put'[s] \in {"applied", "dropped"}),
           revisions' = revisions \cup {file[s] : s \in {q \in Requests : put'[q] = "applied" /\ put[q] = "sent"}},
           drive' = drive \/ \E s \in Requests : drive' = file[s] /\ put'[s] = "applied"
    PROVE  (KnownInv /\ StoredInv)'
<1> USE DEF AnswerTrue, AnswerInv
<1>1. AppliedStays
    BY DEF AppliedStays
<1>2. \A s \in Requests : FileKnown(s)'
    BY <1>1, FileKeeps DEF KnownInv
<1>3. KnownInv'
    BY <1>1, <1>2, KnownKeeps
<1>4. StoredInv'
    BY DEF StoredInv
<1> QED  BY <1>3, <1>4

\* Every answer rests on applied creates, in every interleaving and failure.
LEMMA AnswerStep == AnswerTrue /\ [Next]_vars => AnswerInv'
<1> SUFFICES ASSUME AnswerTrue, [Next]_vars PROVE AnswerInv'
    OBVIOUS
<1>0. Inv /\ TypeOK /\ KnownInv /\ StoredInv /\ \A s \in Requests : PhaseOK(s) /\ AnswerBased(s)
    BY DEF AnswerTrue, AnswerInv, Inv
<1>a. ASSUME UNCHANGED <<drive, revisions, pc, put, op, file, answer>>, cache' \in {cache, None},
             \A k \in Keys : idem'[k] \in {idem[k], None}
      PROVE  AnswerInv'
    <2>1. \A s \in Requests : PhaseOK(s)' /\ AnswerBased(s)'
        BY <1>0, <1>a DEF PhaseOK, AnswerBased, Original
    <2>2. ASSUME NEW r \in Requests PROVE (KnownInv /\ StoredInv)'
        BY <1>a, QuietKeeps
    <2>3. CASE Requests = {}
        <3>1. \A c : Known(c) => Known(c)'
            BY <1>a DEF Known, Original
        <3>2. AppliedStays
            BY <1>a DEF AppliedStays
        <3>3. KnownInv'
            BY <1>0, <1>a, <2>3, <3>2, KnownKeeps
        <3> QED  BY <2>1, <2>3, <3>3 DEF AnswerInv, StoredInv
    <2> QED  BY <2>1, <2>2, <2>3 DEF AnswerInv
<1>1. CASE UNCHANGED vars
    BY <1>1, <1>a DEF vars
<1>2. ASSUME NEW r \in Requests, Arrive(r) PROVE AnswerInv'
    <2>1. /\ pc[r] = "idle" /\ put[r] = "none"
          /\ op'[r] \in Op /\ \A s \in Requests : s # r => op'[s] = op[s]
          /\ Answers(r) \/ Moves(r)
          /\ UNCHANGED <<cache, idem>>
          /\ \A s \in Requests : s # r => file'[s] = file[s]
          /\ file'[r] \in {file[r]} \cup revisions
        BY <1>0, <1>2, ArriveShape, OpsAssumption DEF TypeOK
    <2>2. UNCHANGED <<drive, revisions, put>>
        BY <2>1 DEF Answers, Moves
    <2>3. file'[r] = file[r] \/ Known(file'[r])
        BY <1>0, <2>1 DEF KnownInv
    <2>4. (KnownInv /\ StoredInv)'
        BY <2>1, <2>2, <2>3, QuietKeeps
    <2>5. \A s \in Requests : PhaseOK(s)' /\ AnswerBased(s)'
        BY <2>1, AnswersKeep, MovesKeep DEF Moves
    <2> QED  BY <2>4, <2>5 DEF AnswerInv
<1>3. ASSUME NEW r \in Requests, TakeLock(r) PROVE AnswerInv'
    <2>1. /\ pc[r] = "queued" /\ pc' = [pc EXCEPT ![r] = "ready"]
          /\ UNCHANGED <<drive, revisions, put, answer, op, file, cache, idem>>
        BY <1>3 DEF TakeLock, writes
    <2>2. (KnownInv /\ StoredInv)'
        BY <2>1, QuietKeeps
    <2>3. \A s \in Requests : PhaseOK(s)' /\ AnswerBased(s)'
        BY <2>1, MovesKeep
    <2> QED  BY <2>2, <2>3 DEF AnswerInv
<1>4. ASSUME NEW r \in Requests, Enter(r) PROVE AnswerInv'
    <2>0. /\ pc[r] = "ready" /\ op' = op /\ cache' = cache
          /\ \A k \in Keys : idem'[k] = idem[k] \/ Original(idem'[k].id, k, idem'[k].hash)
        BY <1>4, EnterShape
    <2>1. put[r] = "none" /\ op[r] \in Op
        BY <1>0, <2>0, OpType DEF PhaseOK
    <2>2. ASSUME Answers(r), NEW c, Known(c), file' = [file EXCEPT ![r] = c] PROVE AnswerInv'
        <3>1. file'[r] = c /\ \A s \in Requests : s # r => file'[s] = file[s]
            BY <1>0, <2>2 DEF TypeOK
        <3>2. UNCHANGED <<drive, revisions, put>>
            BY <2>2 DEF Answers
        <3>3. (KnownInv /\ StoredInv)'
            BY <2>0, <2>1, <2>2, <3>1, <3>2, QuietKeeps
        <3>4. \A s \in Requests : PhaseOK(s)' /\ AnswerBased(s)'
            BY <2>0, <2>1, <2>2, AnswersKeep
        <3> QED  BY <3>3, <3>4 DEF AnswerInv
    <2>3. ASSUME NEW c \in Content, Known(c), Saves(r, c) PROVE AnswerInv'
        BY <2>0, <2>3, SaveKeeps
    <2>4. CASE Moves(r) /\ UNCHANGED <<file, idem>>
        <3>1. (KnownInv /\ StoredInv)'
            BY <2>0, <2>4, QuietKeeps DEF Moves
        <3>2. \A s \in Requests : PhaseOK(s)' /\ AnswerBased(s)'
            BY <2>0, <2>4, MovesKeep DEF Moves
        <3> QED  BY <3>1, <3>2 DEF AnswerInv
    <2> QED  BY <1>4, <2>2, <2>3, <2>4, EnterShape
<1>5. ASSUME NEW r \in Requests, ServeGet(r) PROVE AnswerInv'
    <2>1. /\ pc[r] = "loading" /\ pc' = [pc EXCEPT ![r] = "loaded"]
          /\ UNCHANGED <<drive, revisions, put, answer, op, cache, idem>>
          /\ file' = [file EXCEPT ![r] = drive]
        BY <1>5 DEF ServeGet, writes
    <2>2. put[r] = "none" /\ Known(drive)
        BY <1>0, <2>1 DEF PhaseOK, KnownInv
    <2>3. file'[r] = drive /\ \A s \in Requests : s # r => file'[s] = file[s]
        BY <1>0, <2>1 DEF TypeOK
    <2>4. (KnownInv /\ StoredInv)'
        BY <2>1, <2>2, <2>3, QuietKeeps
    <2>5. \A s \in Requests : PhaseOK(s)' /\ AnswerBased(s)'
        BY <2>1, MovesKeep
    <2> QED  BY <2>4, <2>5 DEF AnswerInv
<1>6. ASSUME NEW r \in Requests, ReturnGet(r) PROVE AnswerInv'
    <2>1. /\ pc[r] = "loaded" /\ op' = op /\ cache' = file[r] /\ Known(file[r]) /\ file[r] \in Content
          /\ (Answers(r) /\ file' = file) \/ Saves(r, file[r])
          /\ \A k \in Keys : idem'[k] = idem[k] \/ Original(idem'[k].id, k, idem'[k].hash)
        BY <1>6, ReturnShape
    <2>2. put[r] = "none" /\ op[r] \in Op
        BY <1>0, <2>1, OpType DEF PhaseOK
    <2>3. CASE Answers(r) /\ file' = file
        <3>1. (KnownInv /\ StoredInv)'
            BY <2>1, <2>2, <2>3, QuietKeeps DEF Answers
        <3>2. \A s \in Requests : PhaseOK(s)' /\ AnswerBased(s)'
            BY <2>1, <2>2, <2>3, AnswersKeep
        <3> QED  BY <3>1, <3>2 DEF AnswerInv
    <2> QED  BY <2>1, <2>3, SaveKeeps
<1>7. ASSUME NEW r \in Requests, LoadFails(r) \/ SaveFails(r) \/ SaveSucceeds(r) PROVE AnswerInv'
    <2>1. Answers(r) /\ pc[r] \notin {"idle", "queued", "settled"} /\ op' = op /\ file' = file
        BY <1>7, SettleShape
    <2>2. op[r] \in Op
        BY <1>0, <2>1, OpType
    <2>3. CASE LoadFails(r) \/ SaveFails(r)
        BY <2>1, <2>3, QuietKeeps, <2>2, AnswersKeep DEF Answers, LoadFails, SaveFails, AnswerInv
    <2>4. CASE SaveSucceeds(r)
        <3>1. cache' = file[r] /\ put[r] = "applied"
            BY <2>4 DEF SaveSucceeds
        <3>2. \A k \in Keys : idem'[k] = idem[k] \/ Original(idem'[k].id, k, idem'[k].hash)
            <4>1. IsKeyed(op[r]) => Original(r, op[r].key, op[r].val)
                BY <2>2, <3>1, CreateForm DEF IsKeyed, Original
            <4> QED  BY <1>0, <2>4, <4>1 DEF SaveSucceeds, TypeOK
        <3> QED
            BY <2>1, <2>2, <3>1, <3>2, QuietKeeps, AnswersKeep DEF Answers, AnswerInv
    <2> QED  BY <1>7, <2>3, <2>4
<1>8. ASSUME NEW r \in Requests, ApplyPut(r) \/ DropPut(r) PROVE AnswerInv'
    <2>1. /\ put[r] = "sent" /\ UNCHANGED <<pc, op, file, answer, cache, idem>>
          /\ put' \in {[put EXCEPT ![r] = "applied"], [put EXCEPT ![r] = "dropped"]}
        BY <1>8 DEF ApplyPut, DropPut
    <2>2. /\ put'[r] \in {"applied", "dropped"}
          /\ \A s \in Requests : s # r => put'[s] = put[s]
        BY <1>0, <2>1 DEF TypeOK
    <2>3. /\ revisions' = revisions \cup {file[s] : s \in {q \in Requests : put'[q] = "applied" /\ put[q] = "sent"}}
          /\ drive' = drive \/ (drive' = file[r] /\ put'[r] = "applied")
        BY <1>0, <1>8, <2>1, <2>2 DEF ApplyPut, DropPut, TypeOK
    <2>4. (KnownInv /\ StoredInv)'
        BY <2>1, <2>2, <2>3, PutsSettle
    <2>5. IsWrite(op[r]) /\ op[r] # None
        BY <1>0, <2>1, NoneIsNoAnswer DEF PhaseOK, Inv, LockInv
    <2>6. \A s \in Requests : PhaseOK(s)' /\ AnswerBased(s)'
        BY <2>1, <2>5, PutsKeep
    <2> QED  BY <2>4, <2>6 DEF AnswerInv
<1>9. ASSUME NEW r \in Requests, ManifestWritten(r) \/ ManifestFails(r) PROVE AnswerInv'
    BY <1>9, <1>a DEF ManifestWritten, ManifestFails
<1>10. CASE CacheExpires
    BY <1>10, <1>a DEF CacheExpires, writes
<1>11. ASSUME NEW k \in Keys, IdemExpires(k) PROVE AnswerInv'
    <2>1. \A j \in Keys : idem'[j] \in {idem[j], None}
        BY <1>0, <1>11 DEF IdemExpires, TypeOK
    <2> QED  BY <1>11, <1>a, <2>1 DEF IdemExpires, writes
<1>12. CASE Restart
    <2>1. PICK late \in SUBSET {r \in Requests : put[r] = "sent"} :
              /\ put' = [r \in Requests |->
                     IF r \in late THEN "applied"
                     ELSE IF put[r] = "sent" THEN "dropped" ELSE put[r]]
              /\ revisions' = revisions \cup {file[r] : r \in late}
              /\ IF late = {} THEN drive' = drive ELSE \E r \in late : drive' = file[r]
        BY <1>0, <1>12 DEF Restart, TypeOK
    <2>2. /\ UNCHANGED <<op, file>> /\ cache' = None /\ \A k \in Keys : idem'[k] = None
          /\ \A s \in Requests :
                IF pc[s] \notin {"idle", "settled"}
                THEN pc'[s] = "settled" /\ answer'[s] = [status |-> "lost", id |-> None]
                ELSE pc'[s] = pc[s] /\ answer'[s] = answer[s]
        BY <1>12 DEF Restart
    <2>3. /\ \A s \in Requests : put'[s] = put[s] \/ (put[s] = "sent" /\ put'[s] \in {"applied", "dropped"})
          /\ late = {q \in Requests : put'[q] = "applied" /\ put[q] = "sent"}
          /\ \A s \in late : put'[s] = "applied"
        BY <2>1
    <2>4. (KnownInv /\ StoredInv)'
        BY <2>1, <2>2, <2>3, PutsSettle
    <2>5. AppliedStays
        BY <2>2, <2>3 DEF AppliedStays
    <2>6. \A i, k, v : Original(i, k, v) => Original(i, k, v)'
        BY <2>5, OriginalStays DEF AppliedStays
    <2>7. ASSUME NEW s \in Requests PROVE PhaseOK(s)' /\ AnswerBased(s)'
        <3>1. PhaseOK(s)'
            <4>1. [status |-> "lost", id |-> None] # None
                BY NoneIsNoAnswer DEF Answer, Status
            <4> QED  BY <1>0, <2>2, <2>3, <4>1 DEF PhaseOK
        <3>2. AnswerBased(s)'
            BY <1>0, <2>2, <2>3, <2>6 DEF AnswerBased
        <3> QED  BY <3>1, <3>2
    <2> QED  BY <2>4, <2>7 DEF AnswerInv
<1> QED
    BY <1>1, <1>2, <1>3, <1>4, <1>5, <1>6, <1>7, <1>8, <1>9, <1>10, <1>11, <1>12 DEF Next, Step, Fault

\* At the start nothing is stored, remembered or answered.
LEMMA InitAnswers == Init => AnswerInv
<1> SUFFICES ASSUME Init PROVE AnswerInv
    OBVIOUS
<1>1. \A i \in Ids : EmptyFile[i] = None
    BY DEF EmptyFile
<1>2. Known(EmptyFile)
    BY <1>1 DEF Known
<1>3. \A r \in Requests : FileKnown(r)
    BY <1>1, <1>2 DEF Init, FileKnown
<1>4. KnownInv
    BY <1>2, <1>3 DEF Init, KnownInv
<1> QED  BY <1>4 DEF Init, AnswerInv, PhaseOK, AnswerBased, StoredInv

\* Answers rest on applied creates in every behaviour.
THEOREM AnswersRest == Spec => []AnswerTrue
<1>1. Inv /\ AnswerInv /\ [Next]_vars => (Inv /\ AnswerInv)'
    BY AnswerStep, TypeStep, LockStep DEF AnswerTrue, Inv
<1> QED  BY InitInv, InitAnswers, <1>1, PTL DEF Spec, AnswerTrue

\* createRecord(), dataService.ts: who is told that a create succeeded finds it in
\* Drive's history with the payload sent, and a 409 names a key that a stored
\* record with another payload carries - whatever fails or is retried.
THEOREM AnswersHold == Spec => []AnswersAreTrue
<1>1. ASSUME AnswerTrue, NEW r \in Requests, answer[r] # None, op[r].kind = "create"
      PROVE  /\ answer[r].status = "ok" => answer[r].id # None /\ WasStored(answer[r].id, op[r].key, op[r].val)
             /\ answer[r].status = "conflict" =>
                   \E i \in Ids : \E h \in Vals \ {op[r].val} : WasStored(i, op[r].key, h)
    <2> USE <1>1 DEF AnswerTrue, AnswerInv
    <2>1. \A i, k, v : Original(i, k, v) => i \in Requests /\ WasStored(i, k, v)
        BY DEF Original, StoredInv, WasStored
    <2>2. AnswerBased(r) /\ PhaseOK(r)
        OBVIOUS
    <2>3. answer[r].status = "ok" => answer[r].id \in Requests /\ WasStored(answer[r].id, op[r].key, op[r].val)
        BY <2>1, <2>2 DEF AnswerBased, StoredInv, WasStored
    <2>4. answer[r].status = "conflict" =>
              \E i \in Ids : \E h \in Vals \ {op[r].val} : WasStored(i, op[r].key, h)
        BY <2>1, <2>2 DEF AnswerBased, Ids
    <2> QED  BY <2>3, <2>4, DistinctConstants
<1>2. AnswerTrue => AnswersAreTrue
    BY <1>1 DEF AnswersAreTrue
<1> QED  BY AnswersRest, <1>2, PTL

-----------------------------------------------------------------------------
(* A retried create is answered with its original *)

\* An operation once asked for stays, so what was asked to be removed stays asked.
LEMMA OpStays ==
    ASSUME AnswerTrue, [Next]_vars, NEW s \in Requests, op[s] # None
    PROVE  op'[s] = op[s]
<1>1. ASSUME NEW r \in Requests, Arrive(r) PROVE op'[s] = op[s]
    BY <1>1, ArriveShape DEF AnswerTrue, Inv, TypeOK
<1>2. ASSUME NEW r \in Requests, Enter(r) \/ ReturnGet(r) PROVE op' = op
    BY <1>2 DEF Enter, ReturnGet
<1>3. ASSUME NEW r \in Requests,
             TakeLock(r) \/ ServeGet(r) \/ ApplyPut(r) \/ ManifestWritten(r) \/ SaveSucceeds(r)
             \/ SaveFails(r) \/ Fault(r)
      PROVE  op' = op
    BY <1>3 DEF TakeLock, ServeGet, ApplyPut, ManifestWritten, SaveSucceeds, SaveFails, Fault,
        LoadFails, DropPut, ManifestFails
<1>4. CASE CacheExpires \/ Restart \/ UNCHANGED vars \/ \E k \in Keys : IdemExpires(k)
    BY <1>4 DEF CacheExpires, IdemExpires, Restart, vars
<1> QED  BY <1>1, <1>2, <1>3, <1>4 DEF Next, Step

\* A PUT takes effect alone, and what it writes is then what Drive holds: only the
\* holder of the lock has one on its way.
LEMMA AppliesAlone ==
    ASSUME AnswerTrue, FreshInv, [Next]_vars, NEW r \in Requests, put[r] # "applied", put'[r] = "applied"
    PROVE  /\ put[r] = "sent" /\ Based(r) /\ drive' = file[r] /\ op' = op
           /\ revisions' = revisions \cup {file[r]} /\ pc[r] = "saving"
           /\ \A s \in Requests : s # r => (put'[s] = "applied" <=> put[s] = "applied")
           /\ ApplyPut(r) \/ Restart
<1> USE DEF AnswerTrue, Inv
<1>0. TypeOK
    OBVIOUS
<1>1. CASE ApplyPut(r)
    <2>1. put[r] = "sent" /\ put' = [put EXCEPT ![r] = "applied"]
        BY <1>1 DEF ApplyPut
    <2> QED  BY <1>0, <1>1, <2>1 DEF ApplyPut, FreshInv, SentBased, TypeOK
<1>2. CASE Restart
    <2>1. PICK late \in SUBSET {s \in Requests : put[s] = "sent"} :
              /\ put' = [s \in Requests |->
                     IF s \in late THEN "applied"
                     ELSE IF put[s] = "sent" THEN "dropped" ELSE put[s]]
              /\ revisions' = revisions \cup {file[s] : s \in late}
              /\ IF late = {} THEN drive' = drive ELSE \E s \in late : drive' = file[s]
        BY <1>0, <1>2 DEF Restart, TypeOK
    <2>2. r \in late
        BY <2>1
    <2>3. \A s \in late : s \in Writers
        BY <2>1 DEF FreshInv, SentBased, OnlyWritesSave, Writers, Working
    <2>4. late = {r}
        <3> HIDE DEF Inv
        <3> QED  BY <2>2, <2>3, SoleWriter
    <2>5. put[r] = "sent" /\ drive' = file[r] /\ revisions' = revisions \cup {file[r]}
        BY <2>1, <2>4
    <2>6. \A s \in Requests : s # r => (put'[s] = "applied" <=> put[s] = "applied")
        BY <2>1, <2>4
    <2> QED  BY <1>2, <2>5, <2>6 DEF Restart, FreshInv, SentBased
<1>3. ASSUME NEW s \in Requests, put'[s] = put[s] \/ put'[s] \in {"sent", "dropped"} PROVE s # r
    BY <1>3
<1>4. ASSUME put' = put PROVE FALSE
    BY <1>4
<1>5. ASSUME NEW s \in Requests, UNCHANGED writes \/ Send(s, Effect(op[s], s, cache))
             \/ Send(s, Effect(op[s], s, file[s])) \/ Send(s, file[s])
      PROVE  FALSE
    BY <1>0, <1>5 DEF writes, Send, TypeOK
<1>6. ASSUME NEW s \in Requests, Enter(s) \/ ReturnGet(s) PROVE FALSE
    BY <1>5, <1>6 DEF Enter, ReturnGet, UseFile, FinishRead, FinishDuplicate, FinishMissing, Change
<1>7. ASSUME NEW s \in Requests, Arrive(s) \/ TakeLock(s) \/ ServeGet(s) \/ LoadFails(s)
             \/ SaveSucceeds(s) \/ SaveFails(s)
      PROVE  FALSE
    BY <1>5, <1>7 DEF Arrive, TakeLock, ServeGet, LoadFails, SaveSucceeds, SaveFails
<1>8. ASSUME NEW s \in Requests, ManifestWritten(s) \/ ManifestFails(s) \/ DropPut(s) PROVE FALSE
    BY <1>0, <1>8 DEF ManifestWritten, ManifestFails, DropPut, TypeOK
<1>9. ASSUME NEW s \in Requests, ApplyPut(s) PROVE s = r
    BY <1>0, <1>9 DEF ApplyPut, TypeOK
<1>10. CASE CacheExpires \/ UNCHANGED vars \/ \E k \in Keys : IdemExpires(k)
    BY <1>4, <1>10 DEF CacheExpires, IdemExpires, vars, writes
<1> QED  BY <1>1, <1>2, <1>6, <1>7, <1>8, <1>9, <1>10 DEF Next, Step, Fault

\* Applied PUTs stay applied.
LEMMA PutsStay ==
    ASSUME AnswerTrue, [Next]_vars, NEW s \in Requests, put[s] = "applied"
    PROVE  put'[s] = "applied"
<1> USE DEF AnswerTrue, Inv
<1>0. TypeOK
    OBVIOUS
<1>1. ASSUME NEW r \in Requests, NEW base, UseFile(r, base) \/ Send(r, base) PROVE put'[s] = "applied" \/ s = r
    BY <1>0, <1>1 DEF UseFile, FinishRead, FinishDuplicate, FinishMissing, Change, Send, writes, TypeOK
<1>2. ASSUME NEW r \in Requests, Enter(r) \/ ReturnGet(r) PROVE put'[s] = "applied"
    <2>1. pc[r] \in {"ready", "loaded"}
        BY <1>2 DEF Enter, ReturnGet
    <2>2. s # r
        BY <2>1 DEF AnswerInv, PhaseOK
    <2> QED  BY <1>1, <1>2, <2>2 DEF Enter, ReturnGet, writes
<1>3. ASSUME NEW r \in Requests,
             Arrive(r) \/ TakeLock(r) \/ ServeGet(r) \/ ManifestWritten(r) \/ SaveSucceeds(r)
             \/ SaveFails(r) \/ LoadFails(r) \/ ManifestFails(r)
      PROVE  put' = put
    BY <1>3 DEF Arrive, TakeLock, ServeGet, ManifestWritten, SaveSucceeds, SaveFails, LoadFails,
        ManifestFails, writes
<1>4. ASSUME NEW r \in Requests, ApplyPut(r) \/ DropPut(r) PROVE put'[s] = "applied"
    BY <1>0, <1>4 DEF ApplyPut, DropPut, TypeOK
<1>5. CASE CacheExpires \/ UNCHANGED vars \/ \E k \in Keys : IdemExpires(k)
    BY <1>5 DEF CacheExpires, IdemExpires, vars, writes
<1>6. CASE Restart
    BY <1>6 DEF Restart
<1> QED  BY <1>2, <1>3, <1>4, <1>5, <1>6 DEF Next, Step, Fault

\* A record leaves the file only by a delete of its id or by a restore.
LEMMA EffectKeeps ==
    ASSUME NEW o \in Op, NEW r \in Requests, NEW c \in Content, NEW i \in Requests, i # r,
           c[i] # None, HasTarget(o, c), ~(o.kind = "delete" /\ i \in o.ids)
    PROVE  Effect(o, r, c)[i] # None /\ Effect(o, r, c)[i].key = c[i].key
<1>1. i \in Ids /\ i # FixedId /\ r \in Ids /\ FixedId \in Ids /\ c[i] \in Record
    BY DistinctConstants DEF Ids, Content
<1>2. CASE o.kind = "update"
    <2>1. o.id \in Ids /\ o.val \in Vals
        BY <1>2 DEF Op, CreateOp, UpdateOp, UpsertOp, DeleteOp, RestoreOp, ReadOp
    <2>2. PICK d \in Content : d = Effect(o, r, c)
        BY EffectType
    <2>3. d = [c EXCEPT ![o.id] = [key |-> @.key, hash |-> @.hash, val |-> o.val]]
        BY <1>2, <2>2 DEF Effect, Updated
    <2>4. i # o.id => d[i] = c[i]
        BY <1>1, <2>3 DEF Content
    <2>5. i = o.id => d[i] = [key |-> c[i].key, hash |-> c[i].hash, val |-> o.val]
        BY <1>1, <2>3 DEF Content
    <2>6. i = o.id => d[i] \in Record
        BY <1>1, <2>1, <2>5 DEF Record
    <2>7. d[i] # None
        BY <2>4, <2>6, NoneIsNoValue DEF Record
    <2> QED  BY <2>2, <2>4, <2>5, <2>7
<1>3. CASE o.kind # "update"
    BY <1>1, <1>3 DEF Effect, Created, Upserted, Deleted, Content
<1> QED  BY <1>2, <1>3

KeptTrue == KeptInv /\ OneOriginal

\* In a calm environment no applied create is overwritten unasked, and so no second
\* one of its key is ever applied.
LEMMA KeptStep ==
    ASSUME AnswerTrue, FreshInv, KeptTrue, [Next]_vars
    PROVE  KeptTrue'
<1> USE DEF AnswerTrue, KeptTrue
<1>0. TypeOK /\ \A s \in Requests : put[s] # "none" => op[s] # None /\ op[s] \in Op
    BY NoneIsNoAnswer, OpType DEF Inv, AnswerInv, PhaseOK
<1>1. \A i : RemovalAsked(i) => RemovalAsked(i)'
    BY OpStays DEF RemovalAsked
<1>2. CASE \A s \in Requests : put'[s] = "applied" => put[s] = "applied"
    <2>1. drive' = drive
        BY <1>2, ChangeIsAtomic DEF AtomicChange
    <2>2. \A s \in Requests : put'[s] = "applied" => put[s] = "applied" /\ op'[s] = op[s]
        BY <1>0, <1>2, OpStays
    <2>3. KeptInv'
        BY <1>1, <2>1, <2>2 DEF KeptInv
    <2>4. OneOriginal'
        BY <1>1, <2>2 DEF OneOriginal
    <2> QED  BY <2>3, <2>4
<1>3. ASSUME NEW r \in Requests, put[r] # "applied", put'[r] = "applied" PROVE KeptTrue'
    <2>1. /\ put[r] = "sent" /\ Based(r) /\ drive' = file[r] /\ op' = op
          /\ \A s \in Requests : s # r => (put'[s] = "applied" <=> put[s] = "applied")
        BY <1>3, AppliesAlone
    <2>2. op[r] \in Op /\ op[r] # None
        BY <1>0, <2>1
    <2>3. CASE op[r].kind = "restore"
        <3>1. \A i : RemovalAsked(i)
            BY <2>2, <2>3 DEF RemovalAsked
        <3> QED  BY <1>1, <3>1 DEF KeptInv, OneOriginal
    <2>4. CASE op[r].kind # "restore"
        <3>1. /\ HasTarget(op[r], drive) /\ drive' = Effect(op[r], r, drive)
              /\ IsKeyed(op[r]) => Marked(drive, op[r].key) = {}
            BY <2>1, <2>4 DEF Based
        <3>2. ASSUME NEW i \in Requests, i # r, drive[i] # None
              PROVE  RemovalAsked(i) \/ (drive'[i] # None /\ drive'[i].key = drive[i].key)
            <4>1. CASE op[r].kind = "delete" /\ i \in op[r].ids
                BY <2>2, <4>1 DEF RemovalAsked
            <4>2. CASE ~(op[r].kind = "delete" /\ i \in op[r].ids)
                BY <1>0, <2>2, <3>1, <3>2, <4>2, EffectKeeps DEF TypeOK
            <4> QED  BY <4>1, <4>2
        <3>3. IsKeyed(op[r]) => drive'[r] # None /\ drive'[r].key = op[r].key
            BY <2>1 DEF AnswerInv, StoredInv, IsKeyed
        <3>4. KeptInv'
            <4> SUFFICES ASSUME NEW i \in Requests, put'[i] = "applied", IsKeyed(op[i])
                         PROVE  \/ drive'[i] # None /\ drive'[i].key = op[i].key
                                \/ RemovalAsked(i)'
                BY <2>1 DEF KeptInv
            <4>1. CASE i = r
                BY <3>3, <4>1
            <4>2. CASE i # r
                BY <1>1, <2>1, <3>2, <4>2 DEF KeptInv
            <4> QED  BY <4>1, <4>2
        <3>5. OneOriginal'
            <4>1. ASSUME NEW i \in Requests, i # r, put[i] = "applied", IsKeyed(op[i]), IsKeyed(op[r]),
                         op[i].key = op[r].key
                  PROVE  RemovalAsked(i)
                BY <3>1, <4>1 DEF KeptInv, Marked, Ids
            <4> QED  BY <1>1, <2>1, <4>1 DEF OneOriginal
        <3> QED  BY <3>4, <3>5
    <2> QED  BY <2>3, <2>4
<1> QED  BY <1>2, <1>3

\* dataService.ts:277: creates retried under one key are answered with one record,
\* across restarts, lost answers and expiry of the key cache, unless somebody asked
\* for that record's removal - in the environment of UpdatesSurvive.
THEOREM RetriesMeetOriginal ==
    ASSUME Calm
    PROVE  Spec => []RetryReturnsOriginal
<1>1. Init => KeptTrue
    BY DEF Init, KeptTrue, KeptInv, OneOriginal
<1>2. AnswerTrue /\ FreshInv /\ KeptTrue /\ [Next]_vars => KeptTrue'
    BY KeptStep
<1>3. ASSUME AnswerTrue, NEW r \in Requests, answer[r] # None, IsKeyed(op[r]), answer[r].status = "ok"
      PROVE  /\ answer[r].id \in Requests /\ put[answer[r].id] = "applied"
             /\ IsKeyed(op[answer[r].id]) /\ op[answer[r].id].key = op[r].key
    <2>1. AnswerBased(r)
        BY <1>3 DEF AnswerTrue, AnswerInv
    <2> QED  BY <1>3, <2>1 DEF AnswerBased, IsKeyed, Original
<1>4. AnswerTrue /\ KeptTrue => RetryReturnsOriginal
    BY <1>3 DEF KeptTrue, OneOriginal, RetryReturnsOriginal
<1> QED  BY <1>1, <1>2, <1>4, AnswersRest, CopiesStayFresh, PTL DEF Spec

-----------------------------------------------------------------------------
(* The service implements the record store *)

\* The abstract store reads files and operations as the service does.
LEMMA StoreOperators ==
    /\ Store!Ids = Ids /\ Store!EmptyFile = EmptyFile
    /\ \A o : Store!IsWrite(o) = IsWrite(o) /\ Store!IsKeyed(o) = IsKeyed(o)
    /\ \A c, k : Store!Marked(c, k) = Marked(c, k)
    /\ \A o, c : Store!HasTarget(o, c) = HasTarget(o, c)
    /\ \A o, r, c : Store!Effect(o, r, c) = Effect(o, r, c)
BY DEF Store!Ids, Ids, Store!EmptyFile, EmptyFile, Store!IsWrite, IsWrite, Store!IsKeyed, IsKeyed,
    Store!Marked, Marked, Store!HasTarget, HasTarget, Store!Effect, Effect, Store!Created, Created,
    Store!Updated, Updated, Store!Upserted, Upserted, Store!Deleted, Deleted

\* What the service answers is a reply the store may give.
LEMMA TrueReplies ==
    ASSUME FreshInv, NEW r \in Requests, NEW o, NEW a \in Answer, Truth(r, o, a)
    PROVE  a \in Store!Replies(r, o)
<1>1. \A i, k, v : Original(i, k, v) => i \in {q \in Requests : put[q] = "applied"} /\ Store!Original(i, k, v)
    BY DEF Original, Store!Original
<1>2. Store!TrueReply(r, o, a)
    BY <1>1, StoreOperators DEF Truth, Store!TrueReply
<1> QED  BY <1>2, StoreOperators DEF Answer, Status, Store!Replies

\* The write that takes effect does what the store's write does.
LEMMA TakesEffect ==
    ASSUME AnswerTrue, FreshInv, [Next]_vars, NEW r \in Requests, put[r] # "applied", put'[r] = "applied"
    PROVE  Store!TakeEffect(r)
<1>1. /\ put[r] = "sent" /\ Based(r) /\ drive' = file[r] /\ op' = op
      /\ revisions' = revisions \cup {file[r]} /\ pc[r] = "saving"
      /\ \A s \in Requests : s # r => (put'[s] = "applied" <=> put[s] = "applied")
    BY AppliesAlone
<1>2. op[r] # None /\ answer[r] = None /\ IsWrite(op[r])
    BY <1>1 DEF AnswerTrue, AnswerInv, PhaseOK
<1>3. {q \in Requests : put'[q] = "applied"} = {q \in Requests : put[q] = "applied"} \cup {r}
    BY <1>1
<1> QED  BY <1>1, <1>2, <1>3, StoreOperators DEF Store!TakeEffect, Store!Pending, Based

\* An answered request was pending, and its answer is the store's.
LEMMA AnswersPending ==
    ASSUME AnswerTrue, FreshInv, NEW r \in Requests, Answers(r), op' = op, pc[r] \notin {"idle", "settled"}
    PROVE  Store!Answer(r)
<1>1. PICK a \in Answer : answer' = [answer EXCEPT ![r] = a] /\ Truth(r, op[r], a)
    BY DEF Answers
<1>2. a \in Store!Replies(r, op[r])
    BY <1>1, TrueReplies
<1>3. op[r] # None /\ answer[r] = None
    BY DEF AnswerTrue, AnswerInv, PhaseOK
<1> QED  BY <1>1, <1>2, <1>3 DEF Store!Answer, Store!Pending, Answers

\* Every step of the service is a step of the store, or none it can see.
LEMMA StoreStep ==
    ASSUME AnswerTrue, FreshInv, [Next]_vars
    PROVE  [Store!SNext]_(Store!svars)
<1>0. TypeOK /\ \A s \in Requests : PhaseOK(s)
    BY DEF AnswerTrue, AnswerInv, Inv
<1>a. ASSUME UNCHANGED <<drive, revisions, op, put, answer>> PROVE [Store!SNext]_(Store!svars)
    BY <1>a DEF Store!svars
<1>b. ASSUME Restart
      PROVE  answer' = [r \in Requests |->
                IF Store!Pending(r) THEN [status |-> "lost", id |-> None] ELSE answer[r]]
    <2>1. \A r \in Requests : Store!Pending(r) <=> pc[r] \notin {"idle", "settled"}
        BY <1>0 DEF PhaseOK, Store!Pending
    <2> QED  BY <1>b, <2>1 DEF Restart
<1>1. CASE UNCHANGED vars
    BY <1>1, <1>a DEF vars
<1>2. ASSUME NEW r \in Requests, put[r] # "applied", put'[r] = "applied"
      PROVE  [Store!SNext]_(Store!svars)
    <2>1. Store!TakeEffect(r)
        BY <1>2, TakesEffect
    <2>2. CASE ApplyPut(r)
        BY <2>1, <2>2 DEF ApplyPut, Store!Apply, Store!SNext
    <2>3. CASE Restart
        BY <1>b, <2>1, <2>3 DEF Restart, Store!Crash, Store!SNext
    <2> QED  BY <1>2, <2>2, <2>3, AppliesAlone
<1>3. ASSUME \A r \in Requests : put'[r] = "applied" => put[r] = "applied",
             Restart \/ \E r \in Requests : ApplyPut(r) \/ DropPut(r)
      PROVE  [Store!SNext]_(Store!svars)
    <2>1. {r \in Requests : put'[r] = "applied"} = {r \in Requests : put[r] = "applied"}
        BY <1>3, PutsStay
    <2>2. ASSUME NEW r \in Requests, ApplyPut(r) PROVE FALSE
        BY <1>0, <1>3, <2>2 DEF ApplyPut, TypeOK
    <2>3. ASSUME NEW r \in Requests, DropPut(r) PROVE [Store!SNext]_(Store!svars)
        BY <2>1, <2>3 DEF DropPut, Store!svars
    <2>4. CASE Restart
        <3>1. PICK late \in SUBSET {s \in Requests : put[s] = "sent"} :
                  /\ put' = [s \in Requests |->
                         IF s \in late THEN "applied"
                         ELSE IF put[s] = "sent" THEN "dropped" ELSE put[s]]
                  /\ revisions' = revisions \cup {file[s] : s \in late}
                  /\ IF late = {} THEN drive' = drive ELSE \E s \in late : drive' = file[s]
            BY <1>0, <2>4 DEF Restart, TypeOK
        <3>2. late = {}
            BY <1>3, <3>1
        <3>3. UNCHANGED <<drive, revisions, op>>
            BY <2>4, <3>1, <3>2 DEF Restart
        <3> QED  BY <1>b, <2>1, <2>4, <3>3 DEF Store!Crash, Store!SNext
    <2> QED  BY <1>3, <2>2, <2>3, <2>4
<1>4. ASSUME NEW r \in Requests, Arrive(r) PROVE [Store!SNext]_(Store!svars)
    <2>1. /\ op[r] = None /\ op'[r] \in Ops /\ op' = [op EXCEPT ![r] = op'[r]]
          /\ (Answers(r) /\ IsKeyed(op'[r])) \/ Moves(r)
        BY <1>4, ArriveShape
    <2>2. PICK o \in Ops : o = op'[r]
        BY <2>1
    <2>3. UNCHANGED <<drive, revisions, put>>
        BY <2>1 DEF Answers, Moves
    <2>4. CASE Moves(r)
        BY <2>1, <2>2, <2>3, <2>4 DEF Moves, Store!Call, Store!SNext
    <2>5. CASE Answers(r) /\ IsKeyed(o)
        <3>1. PICK a \in Answer : answer' = [answer EXCEPT ![r] = a] /\ Truth(r, o, a)
            BY <2>2, <2>5 DEF Answers
        <3>2. a \in Store!Replies(r, o)
            BY <3>1, TrueReplies
        <3>3. Store!IsKeyed(o)
            BY <2>5, StoreOperators
        <3> QED  BY <2>1, <2>2, <2>3, <3>1, <3>2, <3>3 DEF Store!Call, Store!SNext
    <2> QED  BY <2>1, <2>2, <2>4, <2>5
<1>5. ASSUME NEW r \in Requests, Enter(r) PROVE [Store!SNext]_(Store!svars)
    <2>1. pc[r] = "ready" /\ op' = op
        BY <1>5, EnterShape
    <2>2. CASE Answers(r)
        BY <2>1, <2>2, AnswersPending DEF Store!SNext
    <2>3. ASSUME NEW c, Saves(r, c) PROVE [Store!SNext]_(Store!svars)
        <3>1. put[r] = "none" /\ put' = [put EXCEPT ![r] = "sent"]
            BY <1>0, <2>1, <2>3 DEF Saves, PhaseOK
        <3>2. {s \in Requests : put'[s] = "applied"} = {s \in Requests : put[s] = "applied"}
            BY <1>0, <3>1 DEF TypeOK
        <3> QED  BY <2>1, <2>3, <3>2 DEF Saves, Store!svars
    <2>4. CASE Moves(r)
        BY <2>1, <2>4, <1>a DEF Moves
    <2> QED  BY <1>5, <2>2, <2>3, <2>4, EnterShape
<1>6. ASSUME NEW r \in Requests, ReturnGet(r) PROVE [Store!SNext]_(Store!svars)
    <2>1. pc[r] = "loaded" /\ op' = op /\ (Answers(r) \/ Saves(r, file[r]))
        BY <1>6, ReturnShape
    <2>2. CASE Answers(r)
        BY <2>1, <2>2, AnswersPending DEF Store!SNext
    <2>3. CASE Saves(r, file[r])
        <3>1. put[r] = "none" /\ put' = [put EXCEPT ![r] = "sent"]
            BY <1>0, <2>1, <2>3 DEF Saves, PhaseOK
        <3>2. {s \in Requests : put'[s] = "applied"} = {s \in Requests : put[s] = "applied"}
            BY <1>0, <3>1 DEF TypeOK
        <3> QED  BY <2>1, <2>3, <3>2 DEF Saves, Store!svars
    <2> QED  BY <2>1, <2>2, <2>3
<1>7. ASSUME NEW r \in Requests, LoadFails(r) \/ SaveFails(r) \/ SaveSucceeds(r)
      PROVE  [Store!SNext]_(Store!svars)
    BY <1>7, SettleShape, AnswersPending DEF Store!SNext
<1>8. ASSUME NEW r \in Requests, TakeLock(r) \/ ServeGet(r) \/ ManifestWritten(r) \/ ManifestFails(r)
      PROVE  [Store!SNext]_(Store!svars)
    BY <1>8, <1>a DEF TakeLock, ServeGet, ManifestWritten, ManifestFails, writes
<1>9. CASE CacheExpires \/ \E k \in Keys : IdemExpires(k)
    BY <1>9, <1>a DEF CacheExpires, IdemExpires, writes
<1> QED
    BY <1>1, <1>2, <1>3, <1>4, <1>5, <1>6, <1>7, <1>8, <1>9 DEF Next, Step, Fault

\* Seen through the file in Drive and the answers, caches, lock, lost answers and
\* restarts disappear: the service is an atomic store of records - in the
\* environment of UpdatesSurvive.
THEOREM ServiceIsAStore ==
    ASSUME Calm
    PROVE  Spec => ImplementsStore
<1>1. Init => Store!SInit
    BY StoreOperators DEF Init, Store!SInit
<1>2. AnswerTrue /\ FreshInv /\ [Next]_vars => [Store!SNext]_(Store!svars)
    BY StoreStep
<1> QED  BY <1>1, <1>2, AnswersRest, CopiesStayFresh, PTL DEF Spec, ImplementsStore, Store!SSpec
=============================================================================
