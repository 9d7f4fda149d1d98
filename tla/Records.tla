------------------------------ MODULE Records ------------------------------
(***************************************************************************)
(* The data of one Drive collection file ("transactions.json", ...): which *)
(* records it holds, and what each dataService operation makes of it.      *)
(* A record is reduced to what the store tells apart: the idempotency      *)
(* marker stored on it (_idem.k, _idem.h) and the value of its fields.     *)
(* crypto.randomUUID() never repeats, so the id of a record created by     *)
(* request r is r itself; FixedId is the caller-chosen id of a singleton   *)
(* record (upsertRecordWithId).                                            *)
(***************************************************************************)
CONSTANTS
    Requests,   \* HTTP requests that reach the server
    FixedId,    \* the stable id of a singleton record
    Keys,       \* client idempotency keys
    Vals,       \* payloads; a payload stands for its own hash
    NoKey,      \* "no Idempotency-Key header"
    None        \* "no record", "nothing cached", "no answer yet"

ASSUME DistinctConstants ==
    /\ FixedId \notin Requests
    /\ None \notin Requests \cup {FixedId}
    /\ NoKey \notin Keys

ASSUME NoneIsNoValue == None \notin [key : Keys \cup {NoKey}, hash : Vals, val : Vals]

Ids == Requests \cup {FixedId}

Record == [key : Keys \cup {NoKey}, hash : Vals, val : Vals]

\* The records array of a collection file, by record id.
Content == [Ids -> Record \cup {None}]

EmptyFile == [i \in Ids |-> None]

CreateOp  == [kind : {"create"}, key : Keys \cup {NoKey}, val : Vals]
UpdateOp  == [kind : {"update"}, id : Ids, val : Vals]
UpsertOp  == [kind : {"upsert"}, val : Vals]
DeleteOp  == [kind : {"delete"}, ids : SUBSET Ids]
RestoreOp == [kind : {"restore"}]
ReadOp    == [kind : {"list", "verify"}]

Op == CreateOp \cup UpdateOp \cup UpsertOp \cup DeleteOp \cup RestoreOp \cup ReadOp

\* The operations that run under the per-collection write lock.
IsWrite(o) == o.kind \notin {"list", "verify"}

\* Creates that carry an idempotency key.
IsKeyed(o) == o.kind = "create" /\ o.key # NoKey

\* Records of file c created under idempotency key k (the _idem.k lookup).
Marked(c, k) == {i \in Ids : c[i] # None /\ c[i].key = k}

\* No file may hold two records created under one key.
OnePerKey(c) == \A k \in Keys : \A i, j \in Marked(c, k) : i = j

\* Whether the operation finds its target in file c: an update of an unknown id
\* is a 404, a delete that removes nothing writes nothing.
HasTarget(o, c) ==
    /\ o.kind = "update" => c[o.id] # None
    /\ o.kind = "delete" => \E i \in o.ids : c[i] # None

Created(o, r, c) == [c EXCEPT ![r] = [key |-> o.key, hash |-> o.val, val |-> o.val]]
Updated(o, c)    == [c EXCEPT ![o.id] = [key |-> @.key, hash |-> @.hash, val |-> o.val]]
Upserted(o, c)   == [c EXCEPT ![FixedId] = [key |-> NoKey, hash |-> o.val, val |-> o.val]]
Deleted(o, c)    == [i \in Ids |-> IF i \in o.ids THEN None ELSE c[i]]

\* The file that request r, asking for o, makes of file c.
Effect(o, r, c) ==
    IF      o.kind = "create" THEN Created(o, r, c)
    ELSE IF o.kind = "update" THEN Updated(o, c)
    ELSE IF o.kind = "upsert" THEN Upserted(o, c)
    ELSE IF o.kind = "delete" THEN Deleted(o, c)
    ELSE c
=============================================================================
