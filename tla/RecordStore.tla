---------------------------- MODULE RecordStore ----------------------------
(***************************************************************************)
(* What dataService.ts promises to its callers, without caches, locks or   *)
(* Google Drive: one store of records on which every write takes effect    *)
(* at most once, at one moment between the call and its answer, and whose  *)
(* answers are true. DriveCollection implements it.                        *)
(***************************************************************************)
EXTENDS Records

CONSTANT Ops    \* operations callers may ask for

VARIABLES
    store,      \* the records
    past,       \* every content the store has had
    call,       \* what each request asks for
    applied,    \* requests whose write has taken effect
    reply       \* what each caller was told

svars == <<store, past, call, applied, reply>>

SInit ==
    /\ store = EmptyFile
    /\ past = {EmptyFile}
    /\ call = [r \in Requests |-> None]
    /\ applied = {}
    /\ reply = [r \in Requests |-> None]

Pending(r) == call[r] # None /\ reply[r] = None

\* The create that first stored key k with payload v.
Original(i, k, v) == i \in applied /\ call[i] = [kind |-> "create", key |-> k, val |-> v]

\* What request r, asking for o, may be told.
TrueReply(r, o, a) ==
    \/ a.status = "ok" /\ ~IsWrite(o) /\ a.id = None
    \/ a.status = "ok" /\ r \in applied /\ a.id = (IF o.kind = "create" THEN r ELSE None)
    \/ a.status = "ok" /\ IsKeyed(o) /\ Original(a.id, o.key, o.val)
    \/ /\ a.status = "conflict" /\ IsKeyed(o) /\ a.id = None
       /\ \E i \in applied, v \in Vals \ {o.val} : Original(i, o.key, v)
    \/ /\ a.status = "missing" /\ IsWrite(o) /\ a.id = None
       /\ r \notin applied /\ ~HasTarget(o, store)
    \/ a.status \in {"error", "lost"} /\ a.id = None

Replies(r, o) ==
    {a \in [status : {"ok", "conflict", "missing", "error", "lost"}, id : Ids \cup {None}] :
        TrueReply(r, o, a)}

\* The write of r takes effect on the current store, or brings back a past one.
TakeEffect(r) ==
    /\ Pending(r) /\ IsWrite(call[r]) /\ r \notin applied
    /\ applied' = applied \cup {r}
    /\ past' = past \cup {store'}
    /\ \/ call[r].kind = "restore" /\ store' \in past
       \/ /\ call[r].kind # "restore" /\ HasTarget(call[r], store)
          /\ IsKeyed(call[r]) => Marked(store, call[r].key) = {}
          /\ store' = Effect(call[r], r, store)

\* A caller asks; a create whose key is remembered is answered on the spot.
Call(r) ==
    /\ call[r] = None
    /\ \E o \in Ops :
        /\ call' = [call EXCEPT ![r] = o]
        /\ \/ UNCHANGED reply
           \/ \E a \in Replies(r, o) : IsKeyed(o) /\ reply' = [reply EXCEPT ![r] = a]
    /\ UNCHANGED <<store, past, applied>>

Apply(r) == TakeEffect(r) /\ UNCHANGED <<call, reply>>

Answer(r) ==
    /\ Pending(r)
    /\ \E a \in Replies(r, call[r]) : reply' = [reply EXCEPT ![r] = a]
    /\ UNCHANGED <<store, past, call, applied>>

\* The server dies: nobody pending gets an answer, and at most one write that
\* was under way still takes effect.
Crash ==
    /\ reply' = [r \in Requests |->
          IF Pending(r) THEN [status |-> "lost", id |-> None] ELSE reply[r]]
    /\ \/ UNCHANGED <<store, past, applied>>
       \/ \E r \in Requests : TakeEffect(r)
    /\ UNCHANGED call

SNext == Crash \/ \E r \in Requests : Call(r) \/ Apply(r) \/ Answer(r)

SSpec == SInit /\ [][SNext]_svars
=============================================================================
