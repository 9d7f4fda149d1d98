----------------------------- MODULE DriveSetup -----------------------------
(***************************************************************************)
(* backend/src/routes/drive.routes.ts and services/drive/init.ts: how a    *)
(* user's Google account is connected, its workspace found or created, the *)
(* records that PostgreSQL still holds copied into it, and the connection  *)
(* declared ready. Every step is a call to Google or to the database; the  *)
(* process may fail or stop at each, and the user connects again.          *)
(*                                                                         *)
(* One connect flow runs at a time. What an earlier, failed flow of the    *)
(* same user left under way (Promise.all does not cancel) goes on in late. *)
(* The code does not hold up another user's flow meanwhile; here it waits, *)
(* because locks are a user's own and such a rest can land on the records  *)
(* of the other: nothing is promised then (README, Known limits).          *)
(***************************************************************************)
EXTENDS Naturals, FiniteSets

CONSTANTS
    Users,          \* accounts of the app
    GoogleAccounts,
    Collections,    \* COLLECTIONS
    Seeded,         \* the collections a new user gets defaults in
    Legacy,         \* user -> the collections with rows in PostgreSQL
    Counted,        \* the collections whose rows make a user one to migrate
    None,
    MaxConnects,    \* bound on connect flows
    MaxFaults,      \* bound on failing calls and restarts
    MaxMisreads     \* bound on reads that fail where the code goes on without them

ASSUME SetupAssumption ==
    /\ Seeded \subseteq Collections /\ Seeded # {}
    /\ Legacy \in [Users -> SUBSET Collections] /\ Counted \subseteq Collections
    /\ None \notin Users
    /\ MaxConnects \in Nat /\ MaxFaults \in Nat /\ MaxMisreads \in Nat

VARIABLES
    conn,      \* BackupConnection: user -> account and initialized root, or None
    choices,   \* pendingAccountChanges
    folders,   \* roots that exist in Drive
    files,     \* what each collection file of each root holds, or None
    manifest,  \* the manifest of each root, or None
    pc,        \* where the flow is; "refused" is how it ended
    me, ws,    \* the flow's user and root
    copy,      \* the manifest as the flow read it
    left,      \* collections its current loop has still to visit
    found,     \* did the check find records?
    task,      \* replaceCollectionWithContext for each collection
    late,      \* replaces left behind by failed flows
    connects, misreads, faults

drive == <<folders, files, manifest>>
flow  == <<me, ws, copy, left, found, task>>
bounds == <<connects, misreads, faults>>
vars  == <<conn, choices, drive, pc, flow, late, bounds>>

\* "Penny Pilot" and the dated folder of "start fresh" (one a day).
Roots == GoogleAccounts \X {"main", "fresh"}

\* Records: which user's they are, and whether the setup put them there.
Tags == Users \X {"copied", "saved"}

Connection == [account : GoogleAccounts, root : {None} \cup Roots]
Manifest == [files : SUBSET Collections, marked : BOOLEAN]

ASSUME NoneIsNoValue ==
    /\ None \notin Roots \cup Connection \cup Manifest
    /\ \A held \in SUBSET Tags : held # None

Blank == [files |-> {}, marked |-> FALSE]
NoTask == [c \in Collections |-> "none"]

\* hasAnyData: rows of accounts and payment methods alone do not count.
Migrates(u) == Legacy[u] \cap Counted # {}

\* What a setup for u replaces, and what its verification then asks for: all that
\* PostgreSQL has, or the defaults. (Seeded leaves payment methods out: they are
\* seeded as well, but nothing asks for them.)
Replaced(u) == IF Migrates(u) THEN Collections ELSE Seeded
Expected(u) == IF Migrates(u) THEN Legacy[u] ELSE Seeded
Copied(u, c) == IF c \in Expected(u) THEN {<<u, "copied">>} ELSE {}

\* The types of the variables.
TypeOK ==
    /\ conn \in [Users -> {None} \cup Connection]
    /\ choices \subseteq Users \X GoogleAccounts
    /\ folders \subseteq Roots
    /\ files \in [Roots -> [Collections -> {None} \cup SUBSET Tags]]
    /\ manifest \in [Roots -> {None} \cup Manifest]
    /\ pc \in {"idle", "probe", "folders", "manifest", "files", "write", "marker",
               "check", "migrate", "verify", "mark", "ready", "refused"}
    /\ me \in Users \cup {None} /\ ws \in Roots \cup {None}
    /\ copy \in Manifest
    /\ left \subseteq Collections /\ found \in BOOLEAN
    /\ task \in [Collections -> {"none", "asked", "done"}]
    /\ late \subseteq [user : Users, root : Roots, col : Collections, marked : BOOLEAN]
    /\ connects \in 0..MaxConnects /\ misreads \in 0..MaxMisreads /\ faults \in 0..MaxFaults

Init ==
    /\ conn = [u \in Users |-> None]
    /\ choices = {}
    /\ folders = {}
    /\ files = [r \in Roots |-> [c \in Collections |-> None]]
    /\ manifest = [r \in Roots |-> None]
    /\ pc = "idle"
    /\ me = None /\ ws = None
    /\ copy = Blank /\ left = {} /\ found = FALSE
    /\ task = NoTask
    /\ late = {}
    /\ connects = 0 /\ misreads = 0 /\ faults = 0

-----------------------------------------------------------------------------
(* The routes *)

Idle == pc \in {"idle", "refused"}

\* A flow of u begins: no other runs, and none of another user is still writing
\* (an assumption, not a guard of the code).
Begin(u) ==
    /\ Idle /\ \A l \in late : l.user = u
    /\ connects < MaxConnects
    /\ connects' = connects + 1 /\ UNCHANGED misreads
    /\ me' = u
    /\ copy' = Blank /\ left' = {} /\ found' = FALSE /\ task' = NoTask

\* (mutant) the row is ready as soon as the tokens are saved
ReadyEarly(u, g) ==
    /\ Begin(u)
    /\ LET changed == conn[u] # None /\ conn[u].account # g
       IN /\ conn' = [conn EXCEPT ![u] = [account |-> g, root |-> <<g, "main">>]]
          /\ pc' = IF changed THEN "probe" ELSE "folders"
    /\ ws' = <<g, "main">>
    /\ UNCHANGED <<choices, drive, late, faults>>

\* GET /callback: the tokens are saved; another account than before is not
\* ready until its workspace is settled.
Connect(u, g) ==
    /\ Begin(u)
    /\ LET prior   == conn[u]
           changed == prior # None /\ prior.account # g
       IN /\ conn' = [conn EXCEPT ![u] =
                [account |-> g, root |-> IF prior = None \/ changed THEN None ELSE prior.root]]
          /\ pc' = IF changed THEN "probe" ELSE "folders"
    /\ ws' = <<g, "main">>
    /\ UNCHANGED <<choices, drive, late, faults>>

\* The new account already has a workspace: the user is asked.
Probe ==
    /\ pc = "probe"
    /\ IF ws \in folders
       THEN pc' = "idle" /\ choices' = choices \cup {<<me, ws[1]>>}
       ELSE pc' = "folders" /\ UNCHANGED choices
    /\ UNCHANGED <<conn, drive, flow, late, bounds>>

\* POST /resolve-account-change, with the account the question was about.
Resolve(u, g, root) ==
    /\ <<u, g>> \in choices /\ Begin(u)
    /\ choices' = choices \ {<<u, g>>}
    /\ ws' = <<g, root>>
    /\ folders' = folders \cup {ws'}
    /\ pc' = IF conn[u] = None THEN "idle" ELSE "manifest"
    /\ UNCHANGED <<conn, files, manifest, late, faults>>

\* getOrCreatePennyPilotFolders(), after a note in the connection's row.
Folders ==
    /\ pc = "folders"
    /\ pc' = IF conn[me] = None THEN "idle" ELSE "manifest"
    /\ folders' = IF conn[me] = None THEN folders ELSE folders \cup {ws}
    /\ UNCHANGED <<conn, choices, files, manifest, flow, late, bounds>>

\* setupWorkspace() returned: the connection's row, if it is still there, is ready.
Ready ==
    /\ pc = "ready"
    /\ conn' = [conn EXCEPT ![me] = IF @ = None THEN None ELSE [@ EXCEPT !.root = ws]]
    /\ pc' = "idle"
    /\ UNCHANGED <<choices, drive, flow, late, bounds>>

\* DELETE /disconnect
Disconnect(u) ==
    /\ conn[u] # None
    /\ conn' = [conn EXCEPT ![u] = None]
    /\ UNCHANGED <<choices, drive, pc, flow, late, bounds>>

\* What the app does once a connection is ready: records are added to the workspace.
Save(u, c) ==
    /\ conn[u] # None /\ conn[u].root # None
    /\ conn[u].root[1] = conn[u].account
    /\ files[conn[u].root][c] # None
    /\ files' = [files EXCEPT ![conn[u].root][c] = @ \cup {<<u, "saved">>}]
    /\ UNCHANGED <<conn, choices, folders, manifest, pc, flow, late, bounds>>

-----------------------------------------------------------------------------
(* initializeEmptyWorkspace() *)

\* A read fails in passing, and the code goes on without what it would have read.
Misread == misreads < MaxMisreads /\ misreads' = misreads + 1

\* The manifest is read; one that cannot be read is replaced by a blank one.
ReadManifest ==
    /\ pc = "manifest"
    /\ \/ copy' = (IF manifest[ws] = None THEN Blank ELSE manifest[ws]) /\ UNCHANGED misreads
       \/ copy' = Blank /\ Misread
    /\ left' = Collections \ copy'.files
    /\ pc' = "files"
    /\ UNCHANGED <<conn, choices, drive, me, ws, found, task, late, connects, faults>>

\* A file the manifest does not list is adopted, created empty if there is none,
\* and overwritten if it cannot be read.
InitFile(c) ==
    /\ pc = "files" /\ c \in left
    /\ \/ files' = [files EXCEPT ![ws][c] = IF @ = None THEN {} ELSE @] /\ UNCHANGED misreads
       \/ files' = [files EXCEPT ![ws][c] = {}] /\ Misread
    /\ copy' = [copy EXCEPT !.files = @ \cup {c}]
    /\ left' = left \ {c}
    /\ UNCHANGED <<conn, choices, folders, manifest, pc, me, ws, found, task, late,
                   connects, faults>>

WriteManifest ==
    /\ pc = "files" /\ left = {}
    /\ manifest' = [manifest EXCEPT ![ws] = copy]
    /\ pc' = "marker"
    /\ UNCHANGED <<conn, choices, folders, files, flow, late, bounds>>

-----------------------------------------------------------------------------
(* setupWorkspace() *)

\* readMigrationMarker(): a manifest that cannot be read has no marker.
ReadMarker ==
    /\ pc = "marker"
    /\ \/ manifest[ws].marked /\ pc' = "ready" /\ UNCHANGED <<left, misreads>>
       \/ /\ pc' = "check" /\ left' = Collections
          /\ IF manifest[ws].marked THEN Misread ELSE UNCHANGED misreads
    /\ UNCHANGED <<conn, choices, drive, me, ws, copy, found, task, late, connects, faults>>

\* The safety gate: verifyStorageWithContext() counts each file's records; one
\* it cannot read does not count.
Check(c) ==
    /\ pc = "check" /\ c \in left
    /\ \/ found' = (found \/ files[ws][c] # {}) /\ UNCHANGED misreads
       \/ Misread /\ UNCHANGED found
    /\ left' = left \ {c}
    /\ UNCHANGED <<conn, choices, drive, pc, me, ws, copy, task, late, connects, faults>>

\* 409 DRIVE_WORKSPACE_UNVERIFIED
Refuse ==
    /\ pc = "check" /\ left = {} /\ found
    /\ pc' = "refused"
    /\ UNCHANGED <<conn, choices, drive, flow, late, bounds>>

\* (mutant) no safety gate
MigrateAnyway ==
    /\ pc = "check" /\ left = {}
    /\ pc' = "migrate"
    /\ copy' = manifest[ws]
    /\ task' = [c \in Collections |-> IF c \in Replaced(me) THEN "asked" ELSE "none"]
    /\ UNCHANGED <<conn, choices, drive, me, ws, left, found, late, bounds>>

\* The replaces are asked for all at once.
Migrate ==
    /\ pc = "check" /\ left = {} /\ ~found
    /\ pc' = "migrate"
    /\ copy' = manifest[ws]
    /\ task' = [c \in Collections |-> IF c \in Replaced(me) THEN "asked" ELSE "none"]
    /\ UNCHANGED <<conn, choices, drive, me, ws, left, found, late, bounds>>

\* A replace of collection c for u reaches root r: the file, and the manifest as
\* the flow loaded it.
Put(u, r, c, marked) ==
    /\ files' = [files EXCEPT ![r][c] = Copied(u, c)]
    /\ manifest' = [manifest EXCEPT ![r].marked = marked]

\* The lock of a user's collection is held by whoever asked first.
Free(c) == \A l \in late : ~(l.user = me /\ l.col = c)

Replace(c) ==
    /\ pc = "migrate" /\ task[c] = "asked" /\ Free(c)
    /\ Put(me, ws, c, copy.marked)
    /\ task' = [task EXCEPT ![c] = "done"]
    /\ UNCHANGED <<conn, choices, folders, pc, me, ws, copy, left, found, late, bounds>>

Asked == {c \in Collections : task[c] = "asked"}

\* One replace fails, done or not; the flow ends and the others go on.
ReplaceFails(c) ==
    /\ pc = "migrate" /\ task[c] = "asked" /\ Free(c)
    /\ faults < MaxFaults
    /\ faults' = faults + 1
    /\ Put(me, ws, c, copy.marked) \/ UNCHANGED <<files, manifest>>
    /\ pc' = "idle"
    /\ task' = NoTask
    /\ late' = late \cup {[user |-> me, root |-> ws, col |-> d, marked |-> copy.marked] : d \in Asked \ {c}}
    /\ UNCHANGED <<conn, choices, folders, me, ws, copy, left, found, connects, misreads>>

LateReplace(l) ==
    /\ Put(l.user, l.root, l.col, l.marked) \/ UNCHANGED <<files, manifest>>
    /\ late' = late \ {l}
    /\ UNCHANGED <<conn, choices, folders, pc, flow, bounds>>

\* (mutant) the marker does not wait for the replaces
VerifyEarly ==
    /\ pc = "migrate"
    /\ pc' = "mark"
    /\ UNCHANGED <<conn, choices, drive, flow, late, bounds>>

\* All replaces are done: what Drive now holds is read back.
Verify ==
    /\ pc = "migrate" /\ Asked = {}
    /\ pc' = IF \A c \in Expected(me) : files[ws][c] # {} THEN "mark" ELSE "idle"
    /\ UNCHANGED <<conn, choices, drive, flow, late, bounds>>

\* markMigrationVerified()
Mark ==
    /\ pc = "mark"
    /\ manifest' = [manifest EXCEPT ![ws].marked = TRUE]
    /\ pc' = "ready"
    /\ UNCHANGED <<conn, choices, folders, files, flow, late, bounds>>

-----------------------------------------------------------------------------
(* Failures *)

\* A call to Google or the database fails and the flow ends there.
Fail ==
    /\ ~Idle /\ faults < MaxFaults
    /\ pc = "migrate" => Asked = {}
    /\ faults' = faults + 1
    /\ pc' = "idle"
    /\ UNCHANGED <<conn, choices, drive, flow, late, connects, misreads>>

\* The process stops: questions asked and replaces not yet sent are forgotten.
Restart ==
    /\ faults < MaxFaults
    /\ faults' = faults + 1
    /\ pc' = "idle"
    /\ task' = NoTask
    /\ choices' = {} /\ late' = {}
    /\ UNCHANGED <<conn, drive, me, ws, copy, left, found, connects, misreads>>

-----------------------------------------------------------------------------

Setup ==
    \/ Probe \/ Folders \/ Ready
    \/ ReadManifest \/ WriteManifest \/ ReadMarker
    \/ Refuse \/ Migrate \/ Verify \/ Mark
    \/ \E c \in Collections : InitFile(c) \/ Check(c) \/ Replace(c) \/ ReplaceFails(c)

Next ==
    \/ Setup \/ Fail \/ Restart
    \/ \E l \in late : LateReplace(l)
    \/ \E u \in Users, g \in GoogleAccounts :
        Connect(u, g) \/ \E root \in {"main", "fresh"} : Resolve(u, g, root)
    \/ \E u \in Users : Disconnect(u) \/ \E c \in Collections : Save(u, c)

Spec == Init /\ [][Next]_vars

-----------------------------------------------------------------------------
(* What connecting promises *)

\* dataService.ts:497 "this can't accidentally wipe a workspace that already has
\* records in it", init.ts:335: whatever is connected, by whom, how often and
\* with which failures in between, no file in Drive ever loses a record to it. One
\* read that fails in passing can cost only copies that PostgreSQL still has.
Copies == {<<u, "copied">> : u \in Users}

NothingWiped ==
    [][\A r \in Roots, c \in Collections :
        files[r][c] # None =>
            /\ files'[r][c] # None
            /\ files[r][c] \ files'[r][c] \subseteq IF misreads = 0 THEN {} ELSE Copies]_vars

\* drive.routes.ts:178: the app is never shown a workspace that is only partly
\* set up; a ready connection's root has every file and the marker, and keeps
\* them while the user or somebody else connects it again (but for the marker of a
\* manifest that a read failed to show).
ReadyMeansComplete ==
    \A u \in Users : conn[u] # None /\ conn[u].root # None =>
        LET r == conn[u].root
        IN /\ manifest[r] # None /\ (manifest[r].marked \/ misreads > 0)
           /\ \A c \in Collections : c \in manifest[r].files /\ files[r][c] # None

\* init.ts:309: the marker is stamped only on a workspace into which everything
\* some user had was copied.
MarkedMeansMigrated ==
    \A r \in Roots : manifest[r] # None /\ manifest[r].marked =>
        \E u \in Users : \A c \in Expected(u) : <<u, "copied">> \in files[r][c]

=============================================================================
