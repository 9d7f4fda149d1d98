------------------------- MODULE MCDriveCollection -------------------------
(* Small instances of DriveCollection for TLC. *)
EXTENDS DriveCollection, TLC

CONSTANTS r1, r2, r3, k1, v1, v2

MCRequests == {r1, r2, r3}
MCKeys == {k1}
MCVals == {v1, v2}
NoFaults == {}
DriveFaults == {"load", "fileWrite", "restart"}
ManifestFault == {"manifestWrite"}
AllFaults == DriveFaults \cup ManifestFault

Create(k, v) == [kind |-> "create", key |-> k, val |-> v]
Update(i, v) == [kind |-> "update", id |-> i, val |-> v]
Delete(I)    == [kind |-> "delete", ids |-> I]
List         == [kind |-> "list"]

\* Retried creates, edits and lists: no record ever disappears on purpose.
KeepOps == {Create(k1, v) : v \in MCVals} \cup {Update(i, v2) : i \in MCRequests} \cup {List}

\* Every operation; a create may reuse its key with another payload.
AllOps ==
    {Create(k1, v) : v \in MCVals} \cup {List, [kind |-> "verify"], [kind |-> "restore"],
     [kind |-> "upsert", val |-> v2]}
    \cup {Update(i, v2) : i \in MCRequests} \cup {Delete({i}) : i \in MCRequests}

\* A keyed create, a read, an update and a removal of the same record, and a restore
\* of the whole file. A verify is a read that finds no cache, an upsert an update
\* that may also create: they wait for the lock and for Drive at the same places.
LiveOps ==
    {Create(k1, v1), List, Update(r1, v1), Delete({r1}), [kind |-> "restore"]}

Symmetry == Permutations(MCRequests)
=============================================================================
