----------------------- MODULE DriveSetup_proofs -----------------------
(***************************************************************************)
(* For any users, Google accounts, collections and rows in PostgreSQL, any *)
(* number of connects, failures and restarts: connecting a workspace loses *)
(* no record, the app is shown complete workspaces only, and the migration *)
(* marker is true. The files, the manifests and what the app is shown stay *)
(* whole however many reads fail where the code goes on without them       *)
(* (Sound). What the files hold, and the marker, need that at most one read *)
(* failed (IInv): a root becomes Lived (marked, ready for somebody, holding *)
(* records a user saved) only when the marker is stamped, and nothing      *)
(* replaces a file of such a root again.                                   *)
(***************************************************************************)
EXTENDS DriveSetup, TLAPS

\* Everything some user had has been copied into root r.
Migrated(r) == \E u \in Users : \A c \in Expected(u) : <<u, "copied">> \in files[r][c]

Marked(r) == manifest[r] # None /\ manifest[r].marked

\* Somebody works with root r, has worked with it, or may do so.
ReadyFor(u, r) == conn[u] # None /\ conn[u].root = r
Holds(u, r, c) == files[r][c] # None /\ <<u, "saved">> \in files[r][c]
Lived(r) == Marked(r) \/ \E u \in Users : ReadyFor(u, r) \/ \E c \in Collections : Holds(u, r, c)

\* A manifest lists every file, each file it lists exists, and before there is a
\* manifest nothing is in the files.
ManifestsTrue ==
    \A r \in Roots, c \in Collections :
        /\ manifest[r] # None => c \in manifest[r].files /\ files[r][c] # None
        /\ manifest[r] = None => files[r][c] \in {None, {}}

\* What is lived in was migrated, and has lost its marker only to a misread.
LivedIsMigrated ==
    \A r \in Roots : Lived(r) => /\ Migrated(r)
                                 /\ manifest[r] # None /\ (manifest[r].marked \/ misreads > 0)

\* A replace left behind is of the last flow's user, waits for a root nobody lives
\* in, and would write what the file holds already.
LateHarmless ==
    \A l \in late :
        /\ manifest[l.root] # None /\ ~Lived(l.root) /\ ~l.marked
        /\ l.col \in Replaced(l.user)
        /\ misreads = 0 => files[l.root][l.col] \subseteq Copied(l.user, l.col)
        /\ l.user = me

\* The flow has a user and a root; from the marker on the root has a manifest.
FlowStarted ==
    /\ ~Idle => me \in Users /\ ws \in Roots
    /\ pc \in {"marker", "check", "migrate", "mark", "ready"} => manifest[ws] # None

\* The manifest the flow works with shows the marker, and the files, if there are
\* any, unless it could not be read.
FilesFlow ==
    pc = "files" =>
        /\ left = Collections \ copy.files
        /\ \A c \in copy.files : files[ws][c] # None
        /\ copy.marked => Marked(ws)
        /\ misreads = 0 => (Marked(ws) => copy.marked) /\ (manifest[ws] # None => left = {})

\* The safety gate finds the records of a root that is lived in; without a misread
\* what it passes holds no more than the flow itself would put there.
CheckFlow ==
    pc = "check" =>
        /\ Lived(ws) => misreads > 0 /\ (found \/ \E c \in left : files[ws][c] # {})
        /\ misreads = 0 /\ ~found => \A c \in Collections \ left : files[ws][c] \subseteq Copied(me, c)

\* Only a root nobody lives in is migrated, and what was replaced is there.
MigrateFlow ==
    pc = "migrate" =>
        /\ ~Lived(ws) /\ ~copy.marked
        /\ misreads = 0 => \A c \in Collections : files[ws][c] \subseteq Copied(me, c)
        /\ \A c \in Replaced(me) : task[c] # "none"
        /\ \A c \in Collections : task[c] # "none" => c \in Replaced(me)
        /\ \A c \in Collections : task[c] = "done" => Free(c) /\ Copied(me, c) \subseteq files[ws][c]

\* The marker is stamped when everything is there and no replace is left.
MarkFlow ==
    /\ pc = "mark" => late = {} /\ \A c \in Expected(me) : <<me, "copied">> \in files[ws][c]
    /\ pc = "ready" => Marked(ws)

\* What the invariant says of a flow under way.
FlowTrue == FlowStarted /\ FilesFlow /\ CheckFlow /\ MigrateFlow /\ MarkFlow

IInv == TypeOK /\ ManifestsTrue /\ LivedIsMigrated /\ LateHarmless /\ FlowTrue

\* What a flow lists in its manifest is there.
FilesListed ==
    pc = "files" => left = Collections \ copy.files /\ \A c \in copy.files : files[ws][c] # None

\* A root that is ready, or that a late replace waits for, has a manifest.
Rooted ==
    /\ \A l \in late : manifest[l.root] # None
    /\ \A u \in Users, r \in Roots : ReadyFor(u, r) => manifest[r] # None

\* What any number of reads that fail leaves standing.
Sound == TypeOK /\ ManifestsTrue /\ FlowStarted /\ FilesListed /\ Rooted

-----------------------------------------------------------------------------
(* What a setup copies *)

\* Something is expected of every setup, it is among what is replaced, and what is
\* put there are copies.
LEMMA CopiedFacts ==
    ASSUME NEW u \in Users
    PROVE  /\ Expected(u) \subseteq Replaced(u) /\ Replaced(u) \subseteq Collections /\ Expected(u) # {}
           /\ \A c \in Collections : Copied(u, c) \subseteq Tags \cap Copies
           /\ \A c \in Expected(u) : <<u, "copied">> \in Copied(u, c)
           /\ \A c \in Collections, v \in Users : <<v, "saved">> \notin Copied(u, c)
<1>1. Legacy[u] \subseteq Collections /\ Seeded \subseteq Collections /\ Seeded # {}
    BY SetupAssumption
<1>2. Expected(u) \subseteq Replaced(u) /\ Replaced(u) \subseteq Collections /\ Expected(u) # {}
    BY <1>1 DEF Expected, Replaced, Migrates
<1>3. \A c \in Collections : Copied(u, c) \subseteq Tags \cap Copies
    BY DEF Copied, Tags, Copies
<1>4. \A c \in Expected(u) : <<u, "copied">> \in Copied(u, c)
    BY DEF Copied
<1>5. \A c \in Collections, v \in Users : <<v, "saved">> \notin Copied(u, c)
    BY DEF Copied
<1> QED
    BY <1>2, <1>3, <1>4, <1>5

\* A root is in an account.
LEMMA RootAccount == \A r \in Roots : r[1] \in GoogleAccounts
    BY DEF Roots

-----------------------------------------------------------------------------
(* Types *)

\* Initially.
LEMMA InitTypes == Init => TypeOK
<1>1. ASSUME Init PROVE TypeOK
    <2>1. Blank \in Manifest /\ NoTask \in [Collections -> {"none", "asked", "done"}]
        BY DEF Blank, Manifest, NoTask
    <2>2. /\ conn \in [Users -> {None} \cup Connection]
          /\ files \in [Roots -> [Collections -> {None} \cup SUBSET Tags]]
          /\ manifest \in [Roots -> {None} \cup Manifest]
        BY <1>1 DEF Init
    <2>3. connects \in 0..MaxConnects /\ misreads \in 0..MaxMisreads /\ faults \in 0..MaxFaults
        BY <1>1, SetupAssumption DEF Init
    <2> QED
        BY <1>1, <2>1, <2>2, <2>3 DEF Init, TypeOK
<1> QED
    BY <1>1

\* Where a flow begins.
LEMMA BlankTypes == Blank \in Manifest /\ NoTask \in [Collections -> {"none", "asked", "done"}]
    BY DEF Blank, Manifest, NoTask

\* A read that fails stays within the bound.
LEMMA MisreadTypes ==
    ASSUME misreads \in 0..MaxMisreads, Misread \/ UNCHANGED misreads
    PROVE  misreads' \in 0..MaxMisreads
    BY SetupAssumption DEF Misread

\* A step of the routes.
LEMMA RouteTypes ==
    ASSUME TypeOK, NEW u \in Users, NEW g \in GoogleAccounts, NEW root \in {"main", "fresh"},
           Connect(u, g) \/ Resolve(u, g, root) \/ Disconnect(u)
    PROVE  TypeOK'
<1>1. <<g, "main">> \in Roots /\ <<g, root>> \in Roots
    BY DEF Roots
<1> USE SetupAssumption DEF TypeOK
<1>2. ASSUME Begin(u)
      PROVE  /\ connects' \in 0..MaxConnects /\ misreads' \in 0..MaxMisreads
             /\ me' \in Users \cup {None} /\ copy' \in Manifest /\ left' \subseteq Collections
             /\ found' \in BOOLEAN /\ task' \in [Collections -> {"none", "asked", "done"}]
    <2>1. connects' \in 0..MaxConnects /\ misreads' \in 0..MaxMisreads
        BY <1>2 DEF Begin
    <2> QED
        BY <1>2, <2>1, BlankTypes DEF Begin
<1>3. CASE Connect(u, g)
    <2>1. conn' \in [Users -> {None} \cup Connection]
        <3>1. conn[u] # None => conn[u] \in Connection /\ conn[u].root \in {None} \cup Roots
            BY DEF Connection
        <3> QED
            BY <1>3, <3>1 DEF Connect, Connection
    <2> QED
        BY <1>1, <1>2, <1>3, <2>1 DEF Connect, drive
<1>4. CASE Resolve(u, g, root)
    BY <1>1, <1>2, <1>4 DEF Resolve
<1>5. CASE Disconnect(u)
    BY <1>5 DEF Disconnect, drive, flow, bounds
<1> QED
    BY <1>3, <1>4, <1>5

\* What a replace writes is well formed.
LEMMA PutTypes ==
    ASSUME TypeOK, NEW u \in Users, NEW r \in Roots, NEW c \in Collections, NEW marked \in BOOLEAN,
           manifest[r] # None, Put(u, r, c, marked)
    PROVE  /\ files' \in [Roots -> [Collections -> {None} \cup SUBSET Tags]]
           /\ manifest' \in [Roots -> {None} \cup Manifest]
<1>1. Copied(u, c) \in SUBSET Tags
    BY CopiedFacts
<1>2. files[r] \in [Collections -> {None} \cup SUBSET Tags]
    BY DEF TypeOK
<1>3. files' \in [Roots -> [Collections -> {None} \cup SUBSET Tags]]
    BY <1>1, <1>2 DEF TypeOK, Put
<1>4. manifest[r] \in Manifest
    BY DEF TypeOK
<1>5. [manifest[r] EXCEPT !.marked = marked] \in Manifest
    BY <1>4 DEF Manifest
<1>6. manifest' = [manifest EXCEPT ![r] = [manifest[r] EXCEPT !.marked = marked]]
    BY DEF Put, TypeOK
<1>7. manifest' \in [Roots -> {None} \cup Manifest]
    BY <1>5, <1>6 DEF TypeOK
<1> QED
    BY <1>3, <1>7

\* A step of the flow.
LEMMA FlowTypes ==
    ASSUME TypeOK, FlowStarted, ManifestsTrue, Setup \/ Fail \/ Restart
    PROVE  TypeOK'
<1> USE SetupAssumption DEF TypeOK
<1>0. ~Idle => me \in Users /\ ws \in Roots
    BY DEF FlowStarted
<1>1. CASE Probe
    <2>1. me \in Users /\ ws \in Roots
        BY <1>0, <1>1 DEF Probe, Idle
    <2>2. ws[1] \in GoogleAccounts
        BY <2>1, RootAccount
    <2> QED
        BY <1>1, <2>1, <2>2 DEF Probe, drive, flow, bounds
<1>2. CASE Folders
    BY <1>0, <1>2 DEF Folders, flow, bounds, Idle
<1>3. CASE Ready
    <2>1. conn[me] # None => [conn[me] EXCEPT !.root = ws] \in Connection
        BY <1>0, <1>3 DEF Ready, Connection, Idle
    <2> QED
        BY <1>0, <1>3, <2>1 DEF Ready, drive, flow, bounds, Idle
<1>4. CASE ReadManifest
    <2>1. ws \in Roots /\ (manifest[ws] = None \/ manifest[ws] \in Manifest)
        BY <1>0, <1>4 DEF ReadManifest, Idle
    <2>2. copy' \in Manifest /\ left' \subseteq Collections
        BY <1>4, <2>1, BlankTypes DEF ReadManifest
    <2>3. misreads' \in 0..MaxMisreads
        BY <1>4, MisreadTypes DEF ReadManifest
    <2> QED
        BY <1>4, <2>2, <2>3 DEF ReadManifest, drive
<1>5. ASSUME NEW c \in Collections, InitFile(c) PROVE TypeOK'
    <2>1. copy' \in Manifest
        BY <1>5 DEF InitFile, Manifest
    <2>2. ws \in Roots /\ left' \subseteq Collections
        BY <1>0, <1>5 DEF InitFile, Idle
    <2>3. misreads' \in 0..MaxMisreads
        BY <1>5, MisreadTypes DEF InitFile
    <2>4. files[ws] \in [Collections -> {None} \cup SUBSET Tags]
        BY <2>2
    <2>5. files[ws][c] \in {None} \cup SUBSET Tags /\ {} \in SUBSET Tags
        BY <2>4
    <2>6. files' \in [Roots -> [Collections -> {None} \cup SUBSET Tags]]
        <3> DEFINE V == {None} \cup SUBSET Tags
        <3>1. PICK v \in V : files' = [files EXCEPT ![ws][c] = v]
            BY <1>5, <2>5 DEF InitFile
        <3> HIDE DEF V, TypeOK
        <3>2. [files[ws] EXCEPT ![c] = v] \in [Collections -> V]
            BY ONLY <2>4, <3>1 DEF V
        <3>3. files \in [Roots -> [Collections -> V]]
            BY DEF TypeOK, V
        <3>4. files' \in [Roots -> [Collections -> V]]
            BY ONLY <2>2, <3>1, <3>2, <3>3
        <3> QED
            BY <3>4 DEF V
    <2> QED
        BY <1>5, <2>1, <2>6, <2>2, <2>3 DEF InitFile
<1>6. CASE WriteManifest
    BY <1>6 DEF WriteManifest, flow, bounds
<1>7. CASE ReadMarker
    BY <1>7, MisreadTypes DEF ReadMarker, drive
<1>8. ASSUME NEW c \in Collections, Check(c) PROVE TypeOK'
    BY <1>8, MisreadTypes DEF Check, drive
<1>9. CASE Refuse \/ Verify
    BY <1>9 DEF Refuse, Verify, drive, flow, bounds
<1>10. CASE Migrate
    <2>1. manifest[ws] \in Manifest
        BY <1>0, <1>10 DEF Migrate, FlowStarted, Idle
    <2> QED
        BY <1>10, <2>1 DEF Migrate, drive, bounds
<1>11. ASSUME NEW c \in Collections, Replace(c) \/ ReplaceFails(c) PROVE TypeOK'
    <2>1. /\ pc = "migrate" /\ me \in Users /\ ws \in Roots /\ manifest[ws] # None
          /\ copy.marked \in BOOLEAN
        BY <1>0, <1>11 DEF Replace, ReplaceFails, FlowStarted, Idle, Manifest
    <2>2. Put(me, ws, c, copy.marked) \/ UNCHANGED <<files, manifest>>
        BY <1>11 DEF Replace, ReplaceFails
    <2>3. /\ files' \in [Roots -> [Collections -> {None} \cup SUBSET Tags]]
          /\ manifest' \in [Roots -> {None} \cup Manifest]
        BY <2>1, <2>2, PutTypes
    <2>4. CASE Replace(c)
        BY <2>3, <2>4 DEF Replace, bounds
    <2>5. CASE ReplaceFails(c)
        <3>1. late' \subseteq [user : Users, root : Roots, col : Collections, marked : BOOLEAN]
            BY <2>1, <2>5 DEF ReplaceFails, Asked
        <3> QED
            BY <2>3, <2>5, <3>1 DEF ReplaceFails, NoTask
    <2> QED
        BY <1>11, <2>4, <2>5
<1>12. CASE Mark
    <2>1. manifest[ws] \in Manifest /\ ws \in Roots
        BY <1>0, <1>12 DEF Mark, FlowStarted, Idle
    <2>2. [manifest[ws] EXCEPT !.marked = TRUE] \in Manifest
        BY <2>1 DEF Manifest
    <2>3. manifest' = [manifest EXCEPT ![ws] = [manifest[ws] EXCEPT !.marked = TRUE]]
        BY <1>12 DEF Mark
    <2>4. manifest' \in [Roots -> {None} \cup Manifest]
        BY <2>1, <2>2, <2>3
    <2> QED
        BY <1>12, <2>4 DEF Mark, flow, bounds
<1>13. CASE Fail
    BY <1>13 DEF Fail, drive, flow
<1>14. CASE Restart
    BY <1>14 DEF Restart, drive, NoTask
<1> QED
    BY <1>1, <1>2, <1>3, <1>4, <1>5, <1>6, <1>7, <1>8, <1>9, <1>10, <1>11, <1>12, <1>13, <1>14 DEF Setup

\* A replace left behind, and what the app saves.
LEMMA OtherTypes ==
    ASSUME TypeOK, Rooted,
           (\E l \in late : LateReplace(l)) \/ (\E u \in Users, c \in Collections : Save(u, c))
    PROVE  TypeOK'
<1>1. ASSUME NEW l \in late, LateReplace(l) PROVE TypeOK'
    <2>1. /\ l.user \in Users /\ l.root \in Roots /\ l.col \in Collections /\ l.marked \in BOOLEAN
          /\ manifest[l.root] # None
        BY DEF TypeOK, Rooted
    <2>2. /\ files' \in [Roots -> [Collections -> {None} \cup SUBSET Tags]]
          /\ manifest' \in [Roots -> {None} \cup Manifest]
        BY <1>1, <2>1, PutTypes DEF LateReplace, TypeOK
    <2> QED
        BY <1>1, <2>2 DEF LateReplace, TypeOK, flow, bounds
<1>2. ASSUME NEW u \in Users, NEW c \in Collections, Save(u, c) PROVE TypeOK'
    <2>1. PICK r \in Roots : r = conn[u].root
        BY <1>2 DEF Save, TypeOK, Connection
    <2>2. files[r] \in [Collections -> {None} \cup SUBSET Tags] /\ files[r][c] \in SUBSET Tags
        BY <1>2, <2>1 DEF Save, TypeOK
    <2>3. files[r][c] \cup {<<u, "saved">>} \in SUBSET Tags
        BY <2>2 DEF Tags
    <2>4. files' = [files EXCEPT ![r] = [files[r] EXCEPT ![c] = files[r][c] \cup {<<u, "saved">>}]]
        BY <1>2, <2>1 DEF Save, TypeOK
    <2>5. files' \in [Roots -> [Collections -> {None} \cup SUBSET Tags]]
        BY <2>2, <2>3, <2>4 DEF TypeOK
    <2> QED
        BY <1>2, <2>5 DEF Save, TypeOK, flow, bounds
<1> QED
    BY <1>1, <1>2

-----------------------------------------------------------------------------
(* Whatever is misread *)

\* A file or a manifest that is there stays.
DriveStands ==
    \A r \in Roots : /\ manifest[r] # None => manifest'[r] # None
                     /\ \A c \in Collections : files[r][c] # None => files'[r][c] # None

\* The invariant of one misread says as much, and more.
LEMMA InvSound == IInv => Sound
<1>1. ASSUME IInv PROVE Sound
    <2>1. FlowStarted /\ FilesListed
        BY <1>1 DEF IInv, FlowTrue, FilesFlow, FilesListed
    <2>2. Rooted
        BY <1>1 DEF IInv, LateHarmless, LivedIsMigrated, Lived, Rooted
    <2> QED
        BY <1>1, <2>1, <2>2 DEF IInv, Sound
<1> QED
    BY <1>1

\* Every type stays.
LEMMA SoundTypes ==
    ASSUME Sound, [Next]_vars
    PROVE  TypeOK'
<1> USE DEF Sound
<1>1. CASE Setup \/ Fail \/ Restart
    BY <1>1, FlowTypes
<1>2. CASE (\E l \in late : LateReplace(l)) \/ (\E u \in Users, c \in Collections : Save(u, c))
    BY <1>2, OtherTypes DEF Rooted
<1>3. CASE \E u \in Users, g \in GoogleAccounts :
               Connect(u, g) \/ \E root \in {"main", "fresh"} : Resolve(u, g, root)
    BY <1>3, RouteTypes
<1>4. ASSUME NEW u \in Users, Disconnect(u) PROVE TypeOK'
    <2>1. PICK g \in GoogleAccounts : TRUE
        BY <1>4 DEF Disconnect, TypeOK, Connection
    <2> QED
        BY <1>4, <2>1, RouteTypes
<1>5. CASE UNCHANGED vars
    BY <1>5 DEF TypeOK, vars, drive, flow, bounds
<1> QED
    BY <1>1, <1>2, <1>3, <1>4, <1>5 DEF Next

\* A replace leaves a root as whole as it was.
LEMMA PutStands ==
    ASSUME TypeOK, ManifestsTrue, NEW u \in Users, NEW r \in Roots, NEW c \in Collections,
           NEW marked \in BOOLEAN, manifest[r] # None, Put(u, r, c, marked)
    PROVE  ManifestsTrue' /\ DriveStands
<1>1. Copied(u, c) # None
    BY CopiedFacts, NoneIsNoValue
<1>2. \A x \in Roots, d \in Collections :
          files'[x][d] = IF x = r /\ d = c THEN Copied(u, c) ELSE files[x][d]
    BY DEF Put, TypeOK
<1>3. manifest[r] \in Manifest
    BY DEF TypeOK
<1>4. PICK m : m = [manifest[r] EXCEPT !.marked = marked]
    OBVIOUS
<1>5. m \in Manifest /\ m.files = manifest[r].files
    BY <1>3, <1>4 DEF Manifest
<1>6. \A x \in Roots : manifest'[x] = IF x = r THEN m ELSE manifest[x]
    BY <1>4 DEF Put, TypeOK
<1>7. m # None
    BY <1>5, NoneIsNoValue
<1> QED
    BY <1>1, <1>2, <1>5, <1>6, <1>7 DEF ManifestsTrue, DriveStands

\* Every step leaves the files and the manifests whole.
LEMMA SoundDrive ==
    ASSUME Sound, [Next]_vars
    PROVE  ManifestsTrue' /\ DriveStands
<1> USE DEF Sound
<1>1. CASE UNCHANGED <<files, manifest>>
    BY <1>1 DEF ManifestsTrue, DriveStands
<1>2. ASSUME NEW c \in Collections, InitFile(c) PROVE ManifestsTrue' /\ DriveStands
    <2>1. ws \in Roots /\ manifest' = manifest
        BY <1>2 DEF InitFile, FlowStarted, Idle
    <2>2. PICK v : /\ files' = [files EXCEPT ![ws][c] = v]
                   /\ v = {} \/ (v = files[ws][c] /\ v # None)
        BY <1>2 DEF InitFile
    <2>3. v # None
        BY <2>2, NoneIsNoValue
    <2>4. \A x \in Roots, d \in Collections :
              files'[x][d] = IF x = ws /\ d = c THEN v ELSE files[x][d]
        BY <2>1, <2>2 DEF TypeOK
    <2>5. manifest[ws] = None => v = {}
        BY <2>1, <2>2 DEF ManifestsTrue
    <2> QED
        BY <2>1, <2>3, <2>4, <2>5 DEF ManifestsTrue, DriveStands
<1>3. CASE WriteManifest
    <2>1. ws \in Roots /\ files' = files
        BY <1>3 DEF WriteManifest, FlowStarted, Idle
    <2>2. copy # None /\ \A c \in Collections : c \in copy.files /\ files[ws][c] # None
        BY <1>3, NoneIsNoValue DEF WriteManifest, FilesListed, TypeOK
    <2>3. \A x \in Roots : manifest'[x] = IF x = ws THEN copy ELSE manifest[x]
        BY <1>3 DEF WriteManifest, TypeOK
    <2> QED
        BY <2>1, <2>2, <2>3 DEF ManifestsTrue, DriveStands
<1>4. ASSUME NEW c \in Collections, Replace(c) \/ ReplaceFails(c) PROVE ManifestsTrue' /\ DriveStands
    <2>1. /\ me \in Users /\ ws \in Roots /\ manifest[ws] # None /\ copy.marked \in BOOLEAN
          /\ Put(me, ws, c, copy.marked) \/ UNCHANGED <<files, manifest>>
        BY <1>4 DEF Replace, ReplaceFails, FlowStarted, Idle, TypeOK, Manifest
    <2> QED
        BY <1>1, <2>1, PutStands
<1>5. ASSUME NEW l \in late, LateReplace(l) PROVE ManifestsTrue' /\ DriveStands
    <2>1. /\ l.user \in Users /\ l.root \in Roots /\ l.col \in Collections /\ l.marked \in BOOLEAN
          /\ manifest[l.root] # None
          /\ Put(l.user, l.root, l.col, l.marked) \/ UNCHANGED <<files, manifest>>
        BY <1>5 DEF TypeOK, Rooted, LateReplace
    <2> QED
        BY <1>1, <2>1, PutStands
<1>6. CASE Mark
    <2>1. ws \in Roots /\ files' = files /\ manifest[ws] # None /\ manifest[ws] \in Manifest
        BY <1>6 DEF Mark, FlowStarted, Idle, TypeOK
    <2>2. PICK m : m = [manifest[ws] EXCEPT !.marked = TRUE]
        OBVIOUS
    <2>3. m \in Manifest /\ m.files = manifest[ws].files
        BY <2>1, <2>2 DEF Manifest
    <2>4. \A x \in Roots : manifest'[x] = IF x = ws THEN m ELSE manifest[x]
        BY <1>6, <2>2 DEF Mark, TypeOK
    <2>5. m # None
        BY <2>3, NoneIsNoValue
    <2> QED
        BY <2>1, <2>3, <2>4, <2>5 DEF ManifestsTrue, DriveStands
<1>7. ASSUME NEW u \in Users, NEW c \in Collections, Save(u, c) PROVE ManifestsTrue' /\ DriveStands
    <2>1. PICK r \in Roots : r = conn[u].root
        BY <1>7 DEF Save, TypeOK, Connection
    <2>2. /\ files[r][c] # None /\ manifest' = manifest /\ manifest[r] # None
          /\ files' = [files EXCEPT ![r][c] = files[r][c] \cup {<<u, "saved">>}]
        BY <1>7, <2>1 DEF Save, TypeOK, Rooted, ReadyFor
    <2>3. files[r][c] \cup {<<u, "saved">>} \in SUBSET Tags
        BY <2>2 DEF TypeOK, Tags
    <2>4. \A x \in Roots, d \in Collections :
              files'[x][d] = IF x = r /\ d = c THEN files[r][c] \cup {<<u, "saved">>} ELSE files[x][d]
        BY <2>2 DEF TypeOK
    <2>5. files[r][c] \cup {<<u, "saved">>} # None
        BY <2>3, NoneIsNoValue
    <2> QED
        BY <2>2, <2>4, <2>5 DEF ManifestsTrue, DriveStands
<1>8. CASE Setup
    BY <1>1, <1>2, <1>3, <1>4, <1>6, <1>8 DEF Setup, Probe, Folders, Ready, ReadManifest, ReadMarker,
       Refuse, Migrate, Verify, Check, drive
<1>9. CASE Fail \/ Restart \/ UNCHANGED vars
    BY <1>1, <1>9 DEF Fail, Restart, vars, drive
<1>10. ASSUME NEW u \in Users, NEW g \in GoogleAccounts, NEW root \in {"main", "fresh"},
              Connect(u, g) \/ Resolve(u, g, root)
       PROVE  ManifestsTrue' /\ DriveStands
    BY <1>1, <1>10 DEF Connect, Resolve, drive
<1>11. ASSUME NEW u \in Users, Disconnect(u) PROVE ManifestsTrue' /\ DriveStands
    BY <1>1, <1>11 DEF Disconnect, drive
<1> QED
    BY <1>5, <1>7, <1>8, <1>9, <1>10, <1>11 DEF Next

\* Replaces are left behind, and connections become ready, where there is a manifest.
LEMMA RootedStays ==
    ASSUME TypeOK, Rooted, DriveStands,
           \A l \in late' : l \in late \/ (l.root \in Roots /\ manifest[l.root] # None),
           \A u \in Users, r \in Roots : ReadyFor(u, r)' => ReadyFor(u, r) \/ manifest[r] # None
    PROVE  Rooted'
<1>1. \A l \in late : l.root \in Roots
    BY DEF TypeOK
<1> QED
    BY <1>1 DEF Rooted, DriveStands

\* A flow goes on from where it stood.
LEMMA SoundFlow ==
    ASSUME Sound, DriveStands, Setup \/ Fail \/ Restart
    PROVE  FlowStarted' /\ FilesListed' /\ Rooted'
<1> USE DEF Sound
<1>1. ~Idle => me \in Users /\ ws \in Roots
    BY DEF FlowStarted
<1>2. CASE Probe \/ Folders \/ Refuse \/ Fail \/ Restart
    <2>1. FlowStarted' /\ FilesListed'
        BY <1>2 DEF Probe, Folders, Refuse, Fail, Restart, drive, flow, FlowStarted, FilesListed, Idle
    <2>2. late' \subseteq late /\ conn' = conn
        BY <1>2 DEF Probe, Folders, Refuse, Fail, Restart
    <2> QED
        BY <2>1, <2>2, RootedStays DEF ReadyFor
<1>3. CASE Ready
    <2>1. ws \in Roots /\ manifest[ws] # None
        BY <1>3 DEF Ready, FlowStarted, Idle
    <2>2. \A u \in Users, r \in Roots : ReadyFor(u, r)' => ReadyFor(u, r) \/ r = ws
        BY <1>3 DEF Ready, ReadyFor, TypeOK, Connection
    <2>3. Rooted'
        BY <1>3, <2>1, <2>2, RootedStays DEF Ready
    <2> QED
        BY <1>3, <2>3 DEF Ready, FlowStarted, FilesListed, Idle
<1>4. CASE ReadManifest
    <2>1. /\ me \in Users /\ ws \in Roots /\ pc' = "files" /\ me' = me /\ ws' = ws /\ files' = files
          /\ left' = Collections \ copy'.files /\ late' = late /\ conn' = conn
        BY <1>4 DEF ReadManifest, FlowStarted, Idle, drive
    <2>2. copy' = Blank \/ (manifest[ws] # None /\ copy' = manifest[ws])
        BY <1>4 DEF ReadManifest
    <2>3. \A c \in copy'.files : files[ws][c] # None
        <3>1. CASE copy' = Blank
            BY <3>1 DEF Blank
        <3>2. CASE manifest[ws] # None /\ copy' = manifest[ws]
            <4>1. copy'.files \subseteq Collections
                BY <2>1, <3>2 DEF TypeOK, Manifest
            <4> QED
                BY <2>1, <3>2, <4>1 DEF ManifestsTrue
        <3> QED
            BY <2>2, <3>1, <3>2
    <2>4. Rooted'
        BY <2>1, RootedStays DEF ReadyFor
    <2> QED
        BY <2>1, <2>3, <2>4 DEF FlowStarted, FilesListed, Idle
<1>5. ASSUME NEW c \in Collections, InitFile(c) PROVE FlowStarted' /\ FilesListed' /\ Rooted'
    <2>1. /\ me \in Users /\ ws \in Roots /\ pc = "files" /\ pc' = "files" /\ me' = me /\ ws' = ws
          /\ copy' = [copy EXCEPT !.files = copy.files \cup {c}] /\ left' = left \ {c}
          /\ late' = late /\ conn' = conn
        BY <1>5 DEF InitFile, FlowStarted, Idle
    <2>2. copy'.files = copy.files \cup {c} /\ copy.files \subseteq Collections
        BY <2>1 DEF TypeOK, Manifest
    <2>3. files'[ws][c] # None
        <3>1. PICK v : /\ files' = [files EXCEPT ![ws][c] = v]
                       /\ v = {} \/ (v = files[ws][c] /\ v # None)
            BY <1>5 DEF InitFile
        <3>2. v # None
            BY <3>1, NoneIsNoValue
        <3> QED
            BY <2>1, <3>1, <3>2 DEF TypeOK
    <2>4. \A d \in copy'.files : files'[ws][d] # None
        BY <2>1, <2>2, <2>3 DEF FilesListed, DriveStands
    <2>5. left' = Collections \ copy'.files
        BY <2>1, <2>2 DEF FilesListed
    <2>6. Rooted'
        BY <2>1, RootedStays DEF ReadyFor
    <2> QED
        BY <2>1, <2>4, <2>5, <2>6 DEF FlowStarted, FilesListed, Idle
<1>6. CASE WriteManifest
    <2>1. /\ me \in Users /\ ws \in Roots /\ pc' = "marker" /\ me' = me /\ ws' = ws
          /\ late' = late /\ conn' = conn /\ manifest' = [manifest EXCEPT ![ws] = copy]
        BY <1>6 DEF WriteManifest, FlowStarted, Idle, flow
    <2>2. manifest'[ws] # None
        BY <2>1, NoneIsNoValue DEF TypeOK
    <2>3. Rooted'
        BY <2>1, RootedStays DEF ReadyFor
    <2> QED
        BY <2>1, <2>2, <2>3 DEF FlowStarted, FilesListed, Idle
<1>7. ASSUME NEW c,
             ReadMarker \/ Check(c) \/ Migrate \/ Verify \/ Mark \/ Replace(c) \/ ReplaceFails(c)
      PROVE  FlowStarted' /\ FilesListed' /\ Rooted'
    <2>1. /\ me \in Users /\ ws \in Roots /\ manifest[ws] # None /\ me' = me /\ ws' = ws /\ conn' = conn
          /\ pc' # "files"
        BY <1>7 DEF ReadMarker, Check, Migrate, Verify, Mark, Replace, ReplaceFails, FlowStarted, Idle, flow
    <2>2. manifest'[ws] # None
        BY <2>1 DEF DriveStands
    <2>3. \A l \in late' : l \in late \/ l.root = ws
        BY <1>7 DEF ReadMarker, Check, Migrate, Verify, Mark, Replace, ReplaceFails
    <2>4. Rooted'
        BY <2>1, <2>3, RootedStays DEF ReadyFor
    <2> QED
        BY <2>1, <2>2, <2>4 DEF FlowStarted, FilesListed
<1> QED
    BY <1>2, <1>3, <1>4, <1>5, <1>6, <1>7 DEF Setup

\* Every step keeps it.
LEMMA SoundStep ==
    ASSUME Sound, [Next]_vars
    PROVE  Sound'
<1>1. TypeOK' /\ ManifestsTrue' /\ DriveStands
    BY SoundTypes, SoundDrive
<1> USE DEF Sound
<1>2. CASE Setup \/ Fail \/ Restart
    BY <1>1, <1>2, SoundFlow
<1>3. ASSUME NEW u \in Users, NEW g \in GoogleAccounts, NEW root \in {"main", "fresh"},
             Connect(u, g) \/ Resolve(u, g, root)
      PROVE  Sound'
    <2>1. me' \in Users /\ ws' \in Roots /\ pc' \in {"idle", "probe", "folders", "manifest"} /\ late' = late
        BY <1>3 DEF Connect, Resolve, Begin, Roots
    <2>2. \A v \in Users, r \in Roots : ReadyFor(v, r)' => ReadyFor(v, r)
        BY <1>3, NoneIsNoValue DEF Connect, Resolve, ReadyFor, TypeOK
    <2>3. Rooted'
        BY <1>1, <2>1, <2>2, RootedStays
    <2> QED
        BY <1>1, <2>1, <2>3 DEF FlowStarted, FilesListed, Idle
<1>4. ASSUME NEW u \in Users, Disconnect(u) PROVE Sound'
    <2>1. UNCHANGED <<drive, pc, flow, late>> /\ conn' = [conn EXCEPT ![u] = None]
        BY <1>4 DEF Disconnect
    <2>2. \A v \in Users, r \in Roots : ReadyFor(v, r)' => ReadyFor(v, r)
        BY <2>1 DEF ReadyFor, TypeOK
    <2>3. Rooted'
        BY <1>1, <2>1, <2>2, RootedStays
    <2> QED
        BY <1>1, <2>1, <2>3 DEF FlowStarted, FilesListed, Idle, drive, flow
<1>5. ASSUME (\E l \in late : LateReplace(l)) \/ (\E u \in Users, c \in Collections : Save(u, c))
             \/ UNCHANGED vars
      PROVE  Sound'
    <2>1. UNCHANGED <<conn, pc, flow>> /\ late' \subseteq late
        BY <1>5 DEF LateReplace, Save, vars
    <2>2. Rooted'
        BY <1>1, <2>1, RootedStays DEF ReadyFor
    <2>3. FlowStarted'
        <3>1. ~Idle => me \in Users /\ ws \in Roots
            BY DEF FlowStarted
        <3> QED
            BY <1>1, <2>1, <3>1 DEF FlowStarted, DriveStands, Idle, flow
    <2>4. FilesListed'
        <3>1. pc = "files" => ws \in Roots /\ copy.files \subseteq Collections
            BY DEF FlowStarted, TypeOK, Manifest, Idle
        <3> QED
            BY <1>1, <2>1, <3>1 DEF FilesListed, DriveStands, flow
    <2> QED
        BY <1>1, <2>2, <2>3, <2>4
<1> QED
    BY <1>2, <1>3, <1>4, <1>5 DEF Next

\* And it holds at the start.
LEMMA SoundInit == Init => Sound
<1>1. ASSUME Init PROVE Sound
    <2>1. ManifestsTrue /\ FlowStarted /\ FilesListed
        BY <1>1 DEF Init, ManifestsTrue, FlowStarted, FilesListed, Idle
    <2>2. Rooted
        BY <1>1 DEF Init, Rooted, ReadyFor
    <2> QED
        BY <1>1, <2>1, <2>2, InitTypes DEF Sound
<1> QED
    BY <1>1

-----------------------------------------------------------------------------
(* Steps that keep what is in a set-up workspace *)

\* No root comes to be lived in; a root with a manifest keeps it and what its files
\* hold, exactly so while nobody lives there, and loses the marker only to a misread.
Gentle ==
    /\ misreads' \in Nat /\ misreads <= misreads'
    /\ \A r \in Roots : Lived(r)' => Lived(r)
    /\ \A r \in Roots : manifest[r] # None =>
        /\ manifest'[r] # None
        /\ \A c \in Collections : files[r][c] \subseteq files'[r][c]
        /\ ~Lived(r) => files'[r] = files[r]
        /\ Marked(r) => Marked(r)' \/ misreads' > 0

\* Such a step keeps what is said of lived-in roots and of the late replaces.
LEMMA GentleKeeps ==
    ASSUME TypeOK, LivedIsMigrated, LateHarmless, Gentle, late' \subseteq late, late' # {} => me' = me
    PROVE  LivedIsMigrated' /\ LateHarmless'
<1>1. misreads \in Nat /\ misreads' \in Nat /\ misreads <= misreads'
    BY SetupAssumption DEF TypeOK, Gentle
<1>2. ASSUME NEW r \in Roots, Lived(r)'
      PROVE  Migrated(r)' /\ manifest'[r] # None /\ (manifest'[r].marked \/ misreads' > 0)
    <2>1. Lived(r) /\ Migrated(r) /\ manifest[r] # None /\ (manifest[r].marked \/ misreads > 0)
        BY <1>2 DEF Gentle, LivedIsMigrated
    <2>2. /\ manifest'[r] # None /\ \A c \in Collections : files[r][c] \subseteq files'[r][c]
          /\ Marked(r) => Marked(r)' \/ misreads' > 0
        BY <2>1 DEF Gentle
    <2>3. PICK u \in Users : \A c \in Expected(u) : <<u, "copied">> \in files[r][c]
        BY <2>1 DEF Migrated
    <2>4. \A c \in Expected(u) : <<u, "copied">> \in files'[r][c]
        BY <2>2, <2>3, CopiedFacts
    <2>5. Migrated(r)'
        BY <2>4 DEF Migrated, Expected
    <2>6. manifest'[r].marked \/ misreads' > 0
        BY <1>1, <2>1, <2>2 DEF Marked
    <2> QED
        BY <2>2, <2>5, <2>6
<1>3. ASSUME NEW l \in late'
      PROVE  /\ manifest'[l.root] # None /\ ~Lived(l.root)' /\ ~l.marked
             /\ l.col \in Replaced(l.user)
             /\ misreads' = 0 => files'[l.root][l.col] \subseteq Copied(l.user, l.col)
             /\ l.user = me'
    <2>1. l \in late /\ l.root \in Roots /\ me' = me
        BY <1>3 DEF TypeOK
    <2>2. /\ manifest[l.root] # None /\ ~Lived(l.root) /\ ~l.marked
          /\ l.col \in Replaced(l.user) /\ l.user = me
          /\ misreads = 0 => files[l.root][l.col] \subseteq Copied(l.user, l.col)
        BY <2>1 DEF LateHarmless
    <2>3. manifest'[l.root] # None /\ files'[l.root] = files[l.root] /\ ~Lived(l.root)'
        BY <2>1, <2>2 DEF Gentle
    <2>4. misreads' = 0 => misreads = 0
        BY <1>1
    <2> QED
        BY <2>1, <2>2, <2>3, <2>4
<1>4. LivedIsMigrated'
    BY <1>2 DEF LivedIsMigrated
<1>5. LateHarmless'
    BY <1>3 DEF LateHarmless, Replaced, Copied, Expected
<1> QED
    BY <1>4, <1>5

\* A step that leaves Drive alone, and makes no root ready but a marked one, is gentle.
LEMMA DriveStays ==
    ASSUME TypeOK, TypeOK', ManifestsTrue, UNCHANGED <<files, manifest>>, misreads' >= misreads,
           \A u \in Users, r \in Roots : ReadyFor(u, r)' => ReadyFor(u, r) \/ Marked(r)
    PROVE  /\ Gentle /\ ManifestsTrue'
           /\ \A r \in Roots : (Lived(r)' => Lived(r)) /\ (Marked(r)' <=> Marked(r))
<1>1. misreads' \in Nat /\ misreads <= misreads'
    BY SetupAssumption DEF TypeOK
<1>2. \A r \in Roots : Marked(r)' <=> Marked(r)
    BY DEF Marked
<1>3. \A u \in Users, r \in Roots, c \in Collections : Holds(u, r, c)' <=> Holds(u, r, c)
    BY DEF Holds
<1>4. \A r \in Roots : Lived(r)' => Lived(r)
    BY <1>2, <1>3 DEF Lived
<1>5. ManifestsTrue'
    BY DEF ManifestsTrue
<1> QED
    BY <1>1, <1>2, <1>4, <1>5 DEF Gentle

\* A gentle step of somebody else leaves a flow as it was.
LEMMA FlowStays ==
    ASSUME TypeOK, LivedIsMigrated, FlowTrue, Gentle,
           UNCHANGED <<pc, flow, manifest, misreads>>, late' \subseteq late,
           \A r \in Roots, c \in Collections : files[r][c] # None => files'[r][c] # None,
           \A r \in Roots : ~Lived(r) => files'[r] = files[r]
    PROVE  FlowTrue'
<1>1. pc' = pc /\ me' = me /\ ws' = ws /\ copy' = copy /\ left' = left /\ found' = found /\ task' = task
    BY DEF flow
<1>2. FlowStarted'
    BY <1>1 DEF FlowTrue, FlowStarted, Idle
<1>3. FilesFlow'
    <2>1. SUFFICES ASSUME pc = "files" PROVE FilesFlow'
        BY <1>1 DEF FilesFlow
    <2>2. ws \in Roots /\ copy.files \subseteq Collections
        BY <2>1 DEF TypeOK, Manifest, FlowTrue, FlowStarted, Idle
    <2> QED
        BY <1>1, <2>1, <2>2 DEF FlowTrue, FilesFlow, Marked
<1>4. CheckFlow'
    <2>1. SUFFICES ASSUME pc = "check" PROVE CheckFlow'
        BY <1>1 DEF CheckFlow
    <2>2. ws \in Roots /\ left \subseteq Collections /\ manifest[ws] # None
        BY <2>1 DEF TypeOK, FlowTrue, FlowStarted, Idle
    <2>3. \A c \in Collections : files[ws][c] # {} => files'[ws][c] # {}
        BY <2>2 DEF Gentle
    <2>4. (Lived(ws)' => Lived(ws)) /\ (Lived(ws) \/ files'[ws] = files[ws])
        BY <1>1, <2>2 DEF Gentle
    <2>5. (Lived(ws) => misreads > 0 /\ (found \/ \E c \in left : files[ws][c] # {}))
        BY <2>1 DEF FlowTrue, CheckFlow
    <2>6. misreads = 0 /\ ~found => \A c \in Collections \ left : files[ws][c] \subseteq Copied(me, c)
        BY <2>1 DEF FlowTrue, CheckFlow
    <2>7. Lived(ws)' => misreads' > 0 /\ (found' \/ \E c \in left' : files'[ws][c] # {})
        BY <1>1, <2>2, <2>3, <2>4, <2>5
    <2>8. misreads' = 0 /\ ~found' => \A c \in Collections \ left' : files'[ws][c] \subseteq Copied(me, c)
        <3>1. SUFFICES ASSUME misreads = 0, ~found PROVE \A c \in Collections \ left : files'[ws][c] \subseteq Copied(me, c)
            BY <1>1
        <3>2. ~Lived(ws)
            BY <2>5, <3>1
        <3> QED
            BY <2>4, <2>6, <3>1, <3>2
    <2> QED
        BY <1>1, <2>7, <2>8 DEF CheckFlow, Copied, Expected
<1>5. MigrateFlow'
    <2>1. SUFFICES ASSUME pc = "migrate" PROVE MigrateFlow'
        BY <1>1 DEF MigrateFlow
    <2>2. ws \in Roots /\ manifest[ws] # None /\ ~Lived(ws)
        BY <2>1 DEF FlowTrue, FlowStarted, MigrateFlow, Idle
    <2>3. files'[ws] = files[ws] /\ ~Lived(ws)'
        BY <1>1, <2>2 DEF Gentle
    <2>4. \A c \in Collections : Free(c) => Free(c)'
        BY <1>1 DEF Free
    <2>5. \A c : Copied(me, c)' = Copied(me, c) /\ Replaced(me)' = Replaced(me)
        BY <1>1 DEF Copied, Expected, Replaced
    <2> QED
        BY <1>1, <2>1, <2>3, <2>4, <2>5 DEF FlowTrue, MigrateFlow
<1>6. MarkFlow'
    <2>1. pc = "mark" => \A c \in Expected(me) : <<me, "copied">> \in files'[ws][c]
        <3>1. SUFFICES ASSUME pc = "mark" PROVE \A c \in Expected(me) : <<me, "copied">> \in files'[ws][c]
            OBVIOUS
        <3>2. ws \in Roots /\ manifest[ws] # None /\ me \in Users
            BY <3>1 DEF FlowTrue, FlowStarted, Idle
        <3>3. Expected(me) \subseteq Collections
            BY <3>2, CopiedFacts
        <3>4. \A c \in Collections : files[ws][c] \subseteq files'[ws][c]
            BY <3>2 DEF Gentle
        <3> QED
            BY <3>1, <3>3, <3>4 DEF FlowTrue, MarkFlow
    <2> QED
        BY <1>1, <2>1 DEF FlowTrue, MarkFlow, Marked, Expected
<1> QED
    BY <1>2, <1>3, <1>4, <1>5, <1>6 DEF FlowTrue

-----------------------------------------------------------------------------
(* Steps that do not write to Drive *)

\* A step that goes to a phase of which nothing is claimed.
Unclaimed == {"idle", "probe", "folders", "manifest", "refused"}

LEMMA NothingClaimed ==
    ASSUME pc' \in Unclaimed, pc' \in {"idle", "refused"} \/ (me' \in Users /\ ws' \in Roots)
    PROVE  FlowTrue'
    BY DEF Unclaimed, FlowTrue, FlowStarted, FilesFlow, CheckFlow, MigrateFlow, MarkFlow, Idle

\* The routes.
LEMMA RouteSteps ==
    ASSUME IInv, NEW u \in Users, NEW g \in GoogleAccounts, NEW root \in {"main", "fresh"},
           Connect(u, g) \/ Resolve(u, g, root) \/ Disconnect(u)
    PROVE  IInv'
<1> USE DEF IInv
<1>1. TypeOK'
    BY RouteTypes
<1>2. UNCHANGED <<files, manifest, misreads, late>>
    BY DEF Connect, Resolve, Disconnect, Begin, drive, bounds
<1>3. \A v \in Users, r \in Roots : ReadyFor(v, r)' => ReadyFor(v, r)
    <2>1. SUFFICES ASSUME NEW v \in Users, NEW r \in Roots, ReadyFor(v, r)' PROVE ReadyFor(v, r)
        OBVIOUS
    <2>2. CASE Connect(u, g)
        <3>1. r # None
            BY NoneIsNoValue
        <3> QED
            BY <2>1, <2>2, <3>1 DEF Connect, ReadyFor, TypeOK
    <2>3. CASE Resolve(u, g, root) \/ Disconnect(u)
        BY <2>1, <2>3 DEF Resolve, Disconnect, ReadyFor, TypeOK
    <2> QED
        BY <2>2, <2>3
<1>4. misreads' >= misreads
    BY <1>2, SetupAssumption DEF TypeOK
<1>5. Gentle /\ ManifestsTrue'
    BY <1>1, <1>2, <1>3, <1>4, DriveStays
<1>6. late' # {} => me' = me
    <2>1. \A l \in late : l.user = me
        BY DEF LateHarmless
    <2>2. CASE Connect(u, g) \/ Resolve(u, g, root)
        BY <1>2, <2>1, <2>2 DEF Connect, Resolve, Begin
    <2>3. CASE Disconnect(u)
        BY <2>3 DEF Disconnect, flow
    <2> QED
        BY <2>2, <2>3
<1>7. LivedIsMigrated' /\ LateHarmless'
    BY <1>2, <1>5, <1>6, GentleKeeps
<1>8. FlowTrue'
    <2>1. CASE Connect(u, g) \/ Resolve(u, g, root)
        <3>1. <<g, "main">> \in Roots /\ <<g, root>> \in Roots
            BY DEF Roots
        <3>2. pc' \in Unclaimed /\ me' = u /\ ws' \in Roots
            BY <2>1, <3>1 DEF Connect, Resolve, Begin, Unclaimed
        <3> QED
            BY <3>2, NothingClaimed
    <2>2. CASE Disconnect(u)
        <3>1. UNCHANGED <<pc, flow, manifest, misreads>> /\ UNCHANGED files
            BY <2>2 DEF Disconnect, drive, bounds
        <3> QED
            BY <1>2, <1>5, <3>1, FlowStays
    <2> QED
        BY <2>1, <2>2
<1> QED
    BY <1>1, <1>5, <1>7, <1>8

\* What every step of the flow that leaves Drive and the connection alone keeps.
LEMMA QuietSteps ==
    ASSUME IInv, TypeOK', UNCHANGED <<conn, files, manifest>>, misreads' >= misreads,
           late' \subseteq late, me' = me
    PROVE  /\ ManifestsTrue' /\ LivedIsMigrated' /\ LateHarmless'
           /\ \A r \in Roots : (Lived(r)' => Lived(r)) /\ (Marked(r)' <=> Marked(r))
<1>1. \A v \in Users, r \in Roots : ReadyFor(v, r)' => ReadyFor(v, r)
    BY DEF ReadyFor
<1>2. /\ Gentle /\ ManifestsTrue'
      /\ \A r \in Roots : (Lived(r)' => Lived(r)) /\ (Marked(r)' <=> Marked(r))
    BY <1>1, DriveStays DEF IInv
<1> QED
    BY <1>2, GentleKeeps DEF IInv

\* The steps of a flow that come before it looks at the manifest, and those that end it.
LEMMA PlainSteps ==
    ASSUME IInv, Probe \/ Folders \/ Ready \/ Refuse \/ Fail \/ Restart
    PROVE  IInv'
<1> USE DEF IInv
<1>1. TypeOK'
    BY FlowTypes DEF Setup, FlowTrue
<1>2. UNCHANGED <<files, manifest, misreads, me, ws>> /\ late' \subseteq late /\ pc' \in Unclaimed
    BY DEF Probe, Folders, Ready, Refuse, Fail, Restart, drive, flow, bounds, Unclaimed
<1>3. pc' \in {"idle", "refused"} \/ (me' \in Users /\ ws' \in Roots)
    BY <1>2 DEF Probe, Folders, Ready, Refuse, Fail, Restart, FlowTrue, FlowStarted, Idle
<1>4. FlowTrue'
    BY <1>2, <1>3, NothingClaimed
<1>5. misreads' >= misreads
    BY <1>2, SetupAssumption DEF TypeOK
<1>6. \A v \in Users, r \in Roots : ReadyFor(v, r)' => ReadyFor(v, r) \/ Marked(r)
    <2>1. CASE Ready
        <3>1. Marked(ws)
            BY <2>1 DEF Ready, FlowTrue, MarkFlow
        <3> QED
            BY <2>1, <3>1 DEF Ready, ReadyFor, TypeOK, Connection
    <2>2. CASE ~Ready
        BY <2>2 DEF Probe, Folders, Refuse, Fail, Restart, ReadyFor
    <2> QED
        BY <2>1, <2>2
<1>7. Gentle /\ ManifestsTrue'
    BY <1>1, <1>2, <1>5, <1>6, DriveStays
<1> QED
    BY <1>1, <1>2, <1>4, <1>7, GentleKeeps

-----------------------------------------------------------------------------
(* initializeEmptyWorkspace(): steps while the manifest and the files are settled *)

LEMMA ReadManifestStep ==
    ASSUME IInv, ReadManifest
    PROVE  IInv'
<1> USE DEF IInv
<1>1. TypeOK'
    BY FlowTypes DEF Setup, FlowTrue
<1>2. ws \in Roots /\ me \in Users /\ misreads \in Nat
    BY SetupAssumption DEF ReadManifest, FlowTrue, FlowStarted, Idle, TypeOK
<1>3. misreads' >= misreads /\ (misreads' = misreads \/ misreads' > 0)
    BY <1>2 DEF ReadManifest, Misread
<1>4. /\ ManifestsTrue' /\ LivedIsMigrated' /\ LateHarmless'
      /\ \A r \in Roots : (Lived(r)' => Lived(r)) /\ (Marked(r)' <=> Marked(r))
    BY <1>1, <1>3, QuietSteps DEF ReadManifest, drive
<1>5. FilesFlow'
    <2>1. /\ ws' = ws /\ files' = files /\ manifest' = manifest /\ pc' = "files"
          /\ left' = Collections \ copy'.files
        BY DEF ReadManifest, drive
    <2>2. CASE copy' = Blank
        <3>1. copy'.files = {} /\ ~copy'.marked
            BY <2>2 DEF Blank
        <3>2. misreads' = 0 => manifest[ws] = None
            <4>1. CASE Misread
                BY <1>2, <4>1 DEF Misread
            <4>2. CASE copy' = IF manifest[ws] = None THEN Blank ELSE manifest[ws]
                <5>1. SUFFICES ASSUME manifest[ws] # None PROVE FALSE
                    OBVIOUS
                <5>2. PICK c \in Collections : TRUE
                    BY <1>2, CopiedFacts
                <5>3. c \in manifest[ws].files
                    BY <1>2, <5>1 DEF ManifestsTrue
                <5> QED
                    BY <2>2, <3>1, <4>2, <5>1, <5>3
            <4> QED
                BY <4>1, <4>2 DEF ReadManifest
        <3> QED
            BY <2>1, <3>1, <3>2 DEF FilesFlow, Marked
    <2>3. CASE manifest[ws] # None /\ copy' = manifest[ws]
        <3>1. \A c \in Collections : c \in copy'.files /\ files[ws][c] # None
            BY <1>2, <2>3 DEF ManifestsTrue
        <3>2. copy'.files \subseteq Collections
            BY <1>1 DEF TypeOK, Manifest
        <3> QED
            BY <2>1, <2>3, <3>1, <3>2 DEF FilesFlow, Marked
    <2> QED
        BY <2>2, <2>3 DEF ReadManifest
<1>6. FlowTrue'
    BY <1>2, <1>5 DEF ReadManifest, FlowTrue, FlowStarted, CheckFlow, MigrateFlow, MarkFlow, Idle
<1> QED
    BY <1>1, <1>4, <1>6

\* A file is created, or emptied, only where there is no manifest yet.
LEMMA InitFileEffect ==
    ASSUME IInv, misreads' <= 1, NEW c \in Collections, InitFile(c)
    PROVE  /\ ws \in Roots /\ me \in Users /\ manifest' = manifest
           /\ \/ files' = files
              \/ manifest[ws] = None /\ files' = [files EXCEPT ![ws] = [files[ws] EXCEPT ![c] = {}]]
           /\ files'[ws][c] # None
<1> USE DEF IInv
<1>1. pc = "files" /\ c \in left /\ ws \in Roots /\ me \in Users /\ manifest' = manifest
    BY DEF InitFile, FlowTrue, FlowStarted, Idle
<1>2. files \in [Roots -> [Collections -> {None} \cup SUBSET Tags]] /\ {} # None
    BY NoneIsNoValue DEF TypeOK
<1>3. c \notin copy.files /\ (misreads = 0 => (manifest[ws] # None => left = {}))
    BY <1>1 DEF FlowTrue, FilesFlow
<1>4. CASE files[ws][c] # None /\ files' = [files EXCEPT ![ws][c] = files[ws][c]]
    BY <1>1, <1>2, <1>4
<1>5. CASE files[ws][c] = None /\ files' = [files EXCEPT ![ws][c] = {}]
    <2>1. manifest[ws] = None
        BY <1>1, <1>5 DEF ManifestsTrue
    <2> QED
        BY <1>1, <1>2, <1>5, <2>1
<1>6. CASE Misread /\ files' = [files EXCEPT ![ws][c] = {}]
    <2>1. misreads = 0
        BY <1>6, SetupAssumption DEF Misread, TypeOK
    <2>2. manifest[ws] = None
        BY <1>1, <1>3, <2>1
    <2> QED
        BY <1>1, <1>2, <1>6, <2>2
<1> QED
    BY <1>1, <1>4, <1>5, <1>6 DEF InitFile

LEMMA InitFileStep ==
    ASSUME IInv, misreads' <= 1, NEW c \in Collections, InitFile(c)
    PROVE  IInv'
<1> USE DEF IInv
<1>1. TypeOK'
    BY FlowTypes DEF Setup, FlowTrue
<1>2. /\ ws \in Roots /\ me \in Users /\ manifest' = manifest
      /\ \/ files' = files
         \/ manifest[ws] = None /\ files' = [files EXCEPT ![ws] = [files[ws] EXCEPT ![c] = {}]]
      /\ files'[ws][c] # None
    BY InitFileEffect
<1>3. misreads' \in Nat /\ misreads' >= misreads /\ (misreads' = misreads \/ misreads' > 0)
    BY SetupAssumption DEF InitFile, Misread, TypeOK
<1>4. /\ conn' = conn /\ late' = late /\ me' = me /\ ws' = ws /\ pc = "files" /\ pc' = "files"
      /\ copy' = [copy EXCEPT !.files = @ \cup {c}] /\ left' = left \ {c}
    BY DEF InitFile
<1>5. \A r \in Roots : manifest[r] # None => files'[r] = files[r]
    BY <1>2 DEF TypeOK
<1>6. \A r \in Roots, d \in Collections :
          \/ files'[r][d] = files[r][d]
          \/ r = ws /\ manifest[r] = None /\ files'[r][d] = {}
    BY <1>2 DEF TypeOK
<1>7. \A r \in Roots : Lived(r)' => Lived(r)
    <2>1. \A r \in Roots : Marked(r)' => Marked(r)
        BY <1>2 DEF Marked
    <2>2. \A v \in Users, r \in Roots : ReadyFor(v, r)' => ReadyFor(v, r)
        BY <1>4 DEF ReadyFor
    <2>3. \A v \in Users, r \in Roots, d \in Collections : Holds(v, r, d)' => Holds(v, r, d)
        BY <1>6 DEF Holds
    <2> QED
        BY <2>1, <2>2, <2>3 DEF Lived
<1>8. Gentle
    BY <1>2, <1>3, <1>5, <1>7 DEF Gentle, Marked
<1>9. ManifestsTrue'
    BY <1>2, <1>5, <1>6 DEF ManifestsTrue
<1>10. LivedIsMigrated' /\ LateHarmless'
    BY <1>4, <1>8, GentleKeeps
<1>11. FilesFlow'
    <2>1. /\ left = Collections \ copy.files
          /\ \A d \in copy.files : files[ws][d] # None
          /\ copy.marked => Marked(ws)
          /\ misreads = 0 => (Marked(ws) => copy.marked) /\ (manifest[ws] # None => left = {})
        BY <1>4 DEF FlowTrue, FilesFlow
    <2>2. copy.files \subseteq Collections /\ copy'.files = copy.files \cup {c} /\ copy'.marked = copy.marked
        BY <1>4 DEF TypeOK, Manifest
    <2>3. \A d \in copy'.files : files'[ws][d] # None
        BY <1>2, <1>6, <2>1, <2>2, NoneIsNoValue
    <2>4. Marked(ws)' <=> Marked(ws)
        BY <1>2, <1>4 DEF Marked
    <2>5. misreads' = 0 => misreads = 0
        BY <1>3
    <2> QED
        BY <1>2, <1>4, <2>1, <2>2, <2>3, <2>4, <2>5 DEF FilesFlow
<1>12. FlowTrue'
    BY <1>2, <1>4, <1>11 DEF FlowTrue, FlowStarted, CheckFlow, MigrateFlow, MarkFlow, Idle
<1> QED
    BY <1>1, <1>9, <1>10, <1>12

\* The manifest is written when it lists every file; only a misread costs the marker.
LEMMA WriteManifestStep ==
    ASSUME IInv, WriteManifest
    PROVE  IInv'
<1> USE DEF IInv
<1>1. TypeOK'
    BY FlowTypes DEF Setup, FlowTrue
<1>2. /\ ws \in Roots /\ me \in Users /\ pc = "files" /\ pc' = "marker" /\ left = {}
      /\ ws' = ws /\ me' = me /\ files' = files /\ conn' = conn /\ late' = late /\ misreads' = misreads
      /\ misreads \in Nat
    BY SetupAssumption DEF WriteManifest, FlowTrue, FlowStarted, Idle, TypeOK, flow, bounds
<1>3. copy # None /\ manifest' = [manifest EXCEPT ![ws] = copy]
    BY NoneIsNoValue DEF WriteManifest, TypeOK
<1>4. /\ \A c \in Collections : c \in copy.files /\ files[ws][c] # None
      /\ copy.marked => Marked(ws)
      /\ misreads = 0 => (Marked(ws) => copy.marked)
    BY <1>2 DEF FlowTrue, FilesFlow
<1>5. \A r \in Roots : manifest'[r] = IF r = ws THEN copy ELSE manifest[r]
    BY <1>3 DEF TypeOK
<1>6. \A r \in Roots : (Marked(r)' => Marked(r)) /\ (Marked(r) => Marked(r)' \/ misreads > 0)
    BY <1>2, <1>3, <1>4, <1>5 DEF Marked
<1>7. \A r \in Roots : Lived(r)' => Lived(r)
    <2>1. \A v \in Users, r \in Roots : ReadyFor(v, r)' => ReadyFor(v, r)
        BY <1>2 DEF ReadyFor
    <2>2. \A v \in Users, r \in Roots, d \in Collections : Holds(v, r, d)' => Holds(v, r, d)
        BY <1>2 DEF Holds
    <2> QED
        BY <1>6, <2>1, <2>2 DEF Lived
<1>8. Gentle
    BY <1>2, <1>3, <1>5, <1>6, <1>7 DEF Gentle
<1>9. ManifestsTrue'
    BY <1>2, <1>3, <1>4, <1>5 DEF ManifestsTrue
<1>10. LivedIsMigrated' /\ LateHarmless'
    BY <1>2, <1>8, GentleKeeps
<1>11. FlowTrue'
    BY <1>2, <1>3, <1>5 DEF FlowTrue, FlowStarted, FilesFlow, CheckFlow, MigrateFlow, MarkFlow, Idle
<1> QED
    BY <1>1, <1>9, <1>10, <1>11

-----------------------------------------------------------------------------
(* setupWorkspace(): the marker and the safety gate *)

\* What was migrated holds something.
LEMMA MigratedHolds ==
    ASSUME NEW r \in Roots, Migrated(r)
    PROVE  \E c \in Collections : files[r][c] # {}
<1>1. PICK u \in Users : \A c \in Expected(u) : <<u, "copied">> \in files[r][c]
    BY DEF Migrated
<1>2. PICK c \in Expected(u) : TRUE
    BY CopiedFacts
<1>3. c \in Collections /\ <<u, "copied">> \in files[r][c]
    BY <1>1, <1>2, CopiedFacts
<1> QED
    BY <1>3

LEMMA ReadMarkerStep ==
    ASSUME IInv, ReadMarker
    PROVE  IInv'
<1> USE DEF IInv
<1>1. TypeOK'
    BY FlowTypes DEF Setup, FlowTrue
<1>2. /\ ws \in Roots /\ me \in Users /\ pc = "marker" /\ manifest[ws] # None /\ misreads \in Nat
      /\ ws' = ws /\ me' = me /\ late' = late /\ UNCHANGED <<conn, files, manifest>>
    BY SetupAssumption DEF ReadMarker, FlowTrue, FlowStarted, Idle, TypeOK, drive
<1>3. misreads' >= misreads
    BY <1>2 DEF ReadMarker, Misread
<1>4. /\ ManifestsTrue' /\ LivedIsMigrated' /\ LateHarmless'
      /\ \A r \in Roots : (Lived(r)' => Lived(r)) /\ (Marked(r)' <=> Marked(r))
    BY <1>1, <1>2, <1>3, QuietSteps
<1>5. ASSUME manifest[ws].marked /\ pc' = "ready" PROVE FlowTrue'
    BY <1>2, <1>5 DEF FlowTrue, FlowStarted, FilesFlow, CheckFlow, MigrateFlow, MarkFlow, Marked, Idle
<1>6. ASSUME pc' = "check", left' = Collections,
             IF manifest[ws].marked THEN Misread ELSE UNCHANGED misreads
      PROVE  FlowTrue'
    <2>1. Lived(ws) => misreads' > 0 /\ \E c \in left' : files'[ws][c] # {}
        <3>1. SUFFICES ASSUME Lived(ws) PROVE misreads' > 0 /\ \E c \in Collections : files[ws][c] # {}
            BY <1>2, <1>6
        <3>2. Migrated(ws) /\ (manifest[ws].marked \/ misreads > 0)
            BY <1>2, <3>1 DEF LivedIsMigrated
        <3>3. misreads' > 0
            BY <1>2, <1>6, <3>2 DEF Misread
        <3> QED
            BY <1>2, <3>2, <3>3, MigratedHolds
    <2>2. Lived(ws)' => Lived(ws)
        BY <1>2, <1>4
    <2>3. CheckFlow'
        BY <1>2, <1>6, <2>1, <2>2 DEF CheckFlow
    <2> QED
        BY <1>1, <1>2, <1>4, <1>6, <2>3 DEF FlowTrue, FlowStarted, FilesFlow, MigrateFlow, MarkFlow, Idle
<1>7. FlowTrue'
    BY <1>5, <1>6 DEF ReadMarker
<1> QED
    BY <1>1, <1>4, <1>7

\* The gate counts a file's records, or fails to; the one misread is already spent
\* if somebody lives in the root.
LEMMA CheckStep ==
    ASSUME IInv, misreads' <= 1, NEW c \in Collections, Check(c)
    PROVE  IInv'
<1> USE DEF IInv
<1>1. TypeOK'
    BY FlowTypes DEF Setup, FlowTrue
<1>2. /\ ws \in Roots /\ me \in Users /\ pc = "check" /\ pc' = "check" /\ manifest[ws] # None
      /\ ws' = ws /\ me' = me /\ late' = late /\ UNCHANGED <<conn, files, manifest>>
      /\ c \in left /\ left' = left \ {c} /\ left \subseteq Collections /\ found \in BOOLEAN
    BY DEF Check, FlowTrue, FlowStarted, Idle, TypeOK, drive
<1>3. misreads \in Nat /\ misreads' \in Nat /\ misreads' >= misreads
    BY SetupAssumption DEF Check, Misread, TypeOK
<1>4. /\ ManifestsTrue' /\ LivedIsMigrated' /\ LateHarmless'
      /\ \A r \in Roots : (Lived(r)' => Lived(r)) /\ (Marked(r)' <=> Marked(r))
    BY <1>1, <1>2, <1>3, QuietSteps
<1>5. /\ Lived(ws) => misreads > 0 /\ (found \/ \E d \in left : files[ws][d] # {})
      /\ misreads = 0 /\ ~found => \A d \in Collections \ left : files[ws][d] \subseteq Copied(me, d)
    BY <1>2 DEF FlowTrue, CheckFlow
<1>6. CheckFlow'
    <2>1. Lived(ws)' => Lived(ws)
        BY <1>2, <1>4
    <2>2. CASE found' = (found \/ files[ws][c] # {}) /\ misreads' = misreads
        <3>1. Lived(ws) => misreads' > 0 /\ (found' \/ \E d \in left' : files[ws][d] # {})
            BY <1>2, <1>5, <2>2
        <3>2. misreads' = 0 /\ ~found' => \A d \in Collections \ left' : files[ws][d] \subseteq Copied(me, d)
            BY <1>2, <1>5, <2>2
        <3> QED
            BY <1>2, <2>1, <3>1, <3>2 DEF CheckFlow, Copied, Expected
    <2>3. CASE Misread
        <3>1. misreads = 0 /\ misreads' > 0
            BY <1>3, <2>3, SetupAssumption DEF Misread
        <3>2. ~Lived(ws)
            BY <1>5, <3>1
        <3> QED
            BY <1>3, <2>1, <3>1, <3>2 DEF CheckFlow
    <2> QED
        BY <2>2, <2>3 DEF Check
<1>7. FlowTrue'
    BY <1>2, <1>6 DEF FlowTrue, FlowStarted, FilesFlow, MigrateFlow, MarkFlow, Idle
<1> QED
    BY <1>1, <1>4, <1>7

\* What passes the gate is lived in by nobody.
LEMMA MigrateStep ==
    ASSUME IInv, Migrate
    PROVE  IInv'
<1> USE DEF IInv
<1>1. TypeOK'
    BY FlowTypes DEF Setup, FlowTrue
<1>2. /\ ws \in Roots /\ me \in Users /\ pc = "check" /\ pc' = "migrate" /\ manifest[ws] # None
      /\ ws' = ws /\ me' = me /\ late' = late /\ UNCHANGED <<conn, files, manifest, misreads>>
      /\ left = {} /\ ~found /\ copy' = manifest[ws] /\ misreads \in Nat
      /\ task' = [c \in Collections |-> IF c \in Replaced(me) THEN "asked" ELSE "none"]
    BY SetupAssumption DEF Migrate, FlowTrue, FlowStarted, Idle, TypeOK, drive, bounds
<1>3. /\ ManifestsTrue' /\ LivedIsMigrated' /\ LateHarmless'
      /\ \A r \in Roots : (Lived(r)' => Lived(r)) /\ (Marked(r)' <=> Marked(r))
    BY <1>1, <1>2, QuietSteps
<1>4. ~Lived(ws) /\ (misreads = 0 => \A d \in Collections : files[ws][d] \subseteq Copied(me, d))
    BY <1>2 DEF FlowTrue, CheckFlow
<1>5. ~copy'.marked /\ ~Lived(ws)'
    BY <1>2, <1>3, <1>4 DEF Lived, Marked
<1>6. Replaced(me) \subseteq Collections
    BY <1>2, CopiedFacts
<1>7. MigrateFlow'
    <2>1. /\ \A c \in Replaced(me) : task'[c] # "none"
          /\ \A c \in Collections : task'[c] # "none" => c \in Replaced(me)
          /\ \A c \in Collections : task'[c] # "done"
        BY <1>2, <1>6
    <2>2. Replaced(me)' = Replaced(me) /\ \A c : Copied(me, c)' = Copied(me, c)
        BY <1>2 DEF Replaced, Copied, Expected
    <2> QED
        BY <1>2, <1>4, <1>5, <2>1, <2>2 DEF MigrateFlow
<1>8. FlowTrue'
    BY <1>2, <1>7 DEF FlowTrue, FlowStarted, FilesFlow, CheckFlow, MarkFlow, Idle
<1> QED
    BY <1>1, <1>3, <1>8

\* When every replace of the flow is done no older one is left, and everything
\* PostgreSQL has, or the defaults, is there.
LEMMA VerifyStep ==
    ASSUME IInv, Verify
    PROVE  IInv'
<1> USE DEF IInv
<1>1. TypeOK'
    BY FlowTypes DEF Setup, FlowTrue
<1>2. /\ ws \in Roots /\ me \in Users /\ pc = "migrate" /\ manifest[ws] # None
      /\ ws' = ws /\ me' = me /\ late' = late /\ UNCHANGED <<conn, files, manifest, misreads>>
      /\ Asked = {} /\ pc' \in {"mark", "idle"} /\ misreads \in Nat
    BY SetupAssumption DEF Verify, FlowTrue, FlowStarted, Idle, TypeOK, drive, flow, bounds
<1>3. ManifestsTrue' /\ LivedIsMigrated' /\ LateHarmless'
    BY <1>1, <1>2, QuietSteps
<1>4. \A c \in Replaced(me) : c \in Collections /\ task[c] = "done"
    <2>1. Replaced(me) \subseteq Collections
        BY <1>2, CopiedFacts
    <2>2. \A c \in Collections : task[c] \in {"none", "asked", "done"} /\ task[c] # "asked"
        BY <1>2 DEF TypeOK, Asked
    <2> QED
        BY <1>2, <2>1, <2>2 DEF FlowTrue, MigrateFlow
<1>5. \A c \in Replaced(me) : Free(c) /\ Copied(me, c) \subseteq files[ws][c]
    BY <1>2, <1>4 DEF FlowTrue, MigrateFlow
<1>6. late = {}
    <2>1. SUFFICES ASSUME NEW l \in late PROVE FALSE
        OBVIOUS
    <2>2. l.user = me /\ l.col \in Replaced(me)
        BY <2>1 DEF LateHarmless
    <2>3. Free(l.col)
        BY <1>5, <2>2
    <2> QED
        BY <2>1, <2>2, <2>3 DEF Free
<1>7. \A c \in Expected(me) : <<me, "copied">> \in files[ws][c]
    BY <1>2, <1>5, CopiedFacts
<1>8. MarkFlow'
    BY <1>2, <1>6, <1>7 DEF MarkFlow, Expected
<1>9. FlowTrue'
    BY <1>2, <1>8 DEF FlowTrue, FlowStarted, FilesFlow, CheckFlow, MigrateFlow, Idle
<1> QED
    BY <1>1, <1>3, <1>9

-----------------------------------------------------------------------------
(* The replaces *)

\* A replace that reaches an unlived-in root with the marker unset changes one file
\* of it and brings no marker and no saved record.
LEMMA PutEffect ==
    ASSUME TypeOK, ManifestsTrue, LivedIsMigrated,
           NEW u \in Users, NEW r \in Roots, NEW c \in Collections,
           manifest[r] # None, ~Lived(r), Put(u, r, c, FALSE), conn' = conn, misreads' = misreads
    PROVE  /\ manifest' = manifest /\ ManifestsTrue' /\ LivedIsMigrated'
           /\ \A x \in Roots : (Lived(x)' => Lived(x)) /\ (Marked(x)' <=> Marked(x))
           /\ files'[r][c] = Copied(u, c)
           /\ \A x \in Roots, d \in Collections : x # r \/ d # c => files'[x][d] = files[x][d]
<1>1. manifest[r] \in Manifest /\ manifest[r].marked = FALSE
    BY DEF TypeOK, Lived, Marked, Manifest
<1>2. [manifest[r] EXCEPT !.marked = FALSE] = manifest[r]
    BY <1>1 DEF Manifest
<1>3. manifest' = [manifest EXCEPT ![r] = [manifest[r] EXCEPT !.marked = FALSE]]
    BY DEF Put
<1>4. manifest' = manifest
    BY <1>2, <1>3 DEF TypeOK
<1>5. /\ files'[r][c] = Copied(u, c)
      /\ \A x \in Roots, d \in Collections : x # r \/ d # c => files'[x][d] = files[x][d]
    BY DEF Put, TypeOK
<1>6. Copied(u, c) # None /\ \A v \in Users : <<v, "saved">> \notin Copied(u, c)
    BY CopiedFacts, NoneIsNoValue
<1>7. ManifestsTrue'
    BY <1>4, <1>5, <1>6 DEF ManifestsTrue
<1>8. \A x \in Roots : Lived(x)' => Lived(x)
    <2>1. \A x \in Roots : Marked(x)' => Marked(x)
        BY <1>4 DEF Marked
    <2>2. \A v \in Users, x \in Roots : ReadyFor(v, x)' => ReadyFor(v, x)
        BY DEF ReadyFor
    <2>3. \A v \in Users, x \in Roots, d \in Collections : Holds(v, x, d)' => Holds(v, x, d)
        BY <1>5, <1>6 DEF Holds
    <2> QED
        BY <2>1, <2>2, <2>3 DEF Lived
<1>9. LivedIsMigrated'
    <2>1. SUFFICES ASSUME NEW x \in Roots, Lived(x)'
                   PROVE  Migrated(x)' /\ manifest'[x] # None /\ (manifest'[x].marked \/ misreads' > 0)
        BY DEF LivedIsMigrated
    <2>2. Lived(x) /\ x # r
        BY <1>8, <2>1
    <2>3. Migrated(x) /\ manifest[x] # None /\ (manifest[x].marked \/ misreads > 0)
        BY <2>2 DEF LivedIsMigrated
    <2>4. PICK v \in Users : \A d \in Expected(v) : <<v, "copied">> \in files[x][d]
        BY <2>3 DEF Migrated
    <2>5. \A d \in Expected(v) : <<v, "copied">> \in files'[x][d]
        BY <1>5, <2>2, <2>4, CopiedFacts
    <2>6. Migrated(x)'
        BY <2>5 DEF Migrated, Expected
    <2> QED
        BY <1>4, <2>3, <2>6
<1>10. \A x \in Roots : Marked(x)' <=> Marked(x)
    BY <1>4 DEF Marked
<1> QED
    BY <1>4, <1>5, <1>7, <1>8, <1>9, <1>10

\* The flow's own replace of collection c, or what a failed one leaves: before it the
\* root is nobody's, and no older replace of that collection is left.
LEMMA ReplaceStart ==
    ASSUME IInv, NEW c \in Collections, Replace(c) \/ ReplaceFails(c)
    PROVE  /\ ws \in Roots /\ me \in Users /\ pc = "migrate" /\ manifest[ws] # None
           /\ ~Lived(ws) /\ copy.marked = FALSE /\ c \in Replaced(me) /\ Free(c)
           /\ conn' = conn /\ misreads' = misreads /\ misreads \in Nat
<1> USE DEF IInv
<1>1. pc = "migrate" /\ task[c] = "asked" /\ Free(c) /\ conn' = conn /\ misreads' = misreads
    BY DEF Replace, ReplaceFails, bounds
<1>2. ws \in Roots /\ me \in Users /\ manifest[ws] # None /\ misreads \in Nat
    BY <1>1, SetupAssumption DEF FlowTrue, FlowStarted, Idle, TypeOK
<1>3. ~Lived(ws) /\ ~copy.marked /\ c \in Replaced(me)
    BY <1>1 DEF FlowTrue, MigrateFlow
<1>4. copy.marked = FALSE
    BY <1>3 DEF TypeOK, Manifest
<1> QED
    BY <1>1, <1>2, <1>3, <1>4

LEMMA ReplaceStep ==
    ASSUME IInv, NEW c \in Collections, Replace(c)
    PROVE  IInv'
<1> USE DEF IInv
<1>1. TypeOK'
    BY FlowTypes DEF Setup, FlowTrue
<1>2. /\ ws \in Roots /\ me \in Users /\ pc = "migrate" /\ manifest[ws] # None
      /\ ~Lived(ws) /\ copy.marked = FALSE /\ c \in Replaced(me) /\ Free(c)
      /\ conn' = conn /\ misreads' = misreads
    BY ReplaceStart
<1>3. /\ pc' = pc /\ me' = me /\ ws' = ws /\ copy' = copy /\ late' = late
      /\ task' = [task EXCEPT ![c] = "done"] /\ Put(me, ws, c, FALSE)
    BY <1>2 DEF Replace
<1>4. /\ manifest' = manifest /\ ManifestsTrue' /\ LivedIsMigrated'
      /\ \A x \in Roots : (Lived(x)' => Lived(x)) /\ (Marked(x)' <=> Marked(x))
      /\ files'[ws][c] = Copied(me, c)
      /\ \A x \in Roots, d \in Collections : x # ws \/ d # c => files'[x][d] = files[x][d]
    BY <1>2, <1>3, PutEffect
<1>5. LateHarmless'
    <2>1. SUFFICES ASSUME NEW l \in late
                   PROVE  /\ manifest'[l.root] # None /\ ~Lived(l.root)' /\ ~l.marked
                          /\ l.col \in Replaced(l.user) /\ l.user = me
                          /\ misreads = 0 => files'[l.root][l.col] \subseteq Copied(l.user, l.col)
        BY <1>2, <1>3 DEF LateHarmless, Replaced, Copied, Expected
    <2>2. l.root \in Roots /\ l.col \in Collections
        BY DEF TypeOK
    <2>3. /\ manifest[l.root] # None /\ ~Lived(l.root) /\ ~l.marked
          /\ l.col \in Replaced(l.user) /\ l.user = me
          /\ misreads = 0 => files[l.root][l.col] \subseteq Copied(l.user, l.col)
        BY DEF LateHarmless
    <2>4. l.col # c
        BY <1>2, <2>3 DEF Free
    <2> QED
        BY <1>4, <2>2, <2>3, <2>4
<1>6. MigrateFlow'
    <2>1. /\ misreads = 0 => \A d \in Collections : files[ws][d] \subseteq Copied(me, d)
          /\ \A d \in Replaced(me) : task[d] # "none"
          /\ \A d \in Collections : task[d] # "none" => d \in Replaced(me)
          /\ \A d \in Collections : task[d] = "done" => Free(d) /\ Copied(me, d) \subseteq files[ws][d]
        BY <1>2 DEF FlowTrue, MigrateFlow
    <2>2. \A d \in Collections : task'[d] = IF d = c THEN "done" ELSE task[d]
        BY <1>3 DEF TypeOK
    <2>3. ~Lived(ws)' /\ ~copy'.marked
        BY <1>2, <1>3, <1>4
    <2>4. misreads' = 0 => \A d \in Collections : files'[ws][d] \subseteq Copied(me, d)
        BY <1>2, <1>4, <2>1
    <2>5. /\ \A d \in Replaced(me) : task'[d] # "none"
          /\ \A d \in Collections : task'[d] # "none" => d \in Replaced(me)
        BY <1>2, <2>1, <2>2, CopiedFacts
    <2>6. \A d \in Collections : Free(d) => Free(d)'
        BY <1>3 DEF Free
    <2>7. \A d \in Collections : task'[d] = "done" => Free(d)' /\ Copied(me, d) \subseteq files'[ws][d]
        BY <1>2, <1>4, <2>1, <2>2, <2>6
    <2>8. Replaced(me)' = Replaced(me) /\ \A d : Copied(me, d)' = Copied(me, d)
        BY <1>3 DEF Replaced, Copied, Expected
    <2> QED
        BY <1>3, <2>3, <2>4, <2>5, <2>7, <2>8 DEF MigrateFlow
<1>7. FlowTrue'
    BY <1>2, <1>3, <1>4, <1>6 DEF FlowTrue, FlowStarted, FilesFlow, CheckFlow, MarkFlow, Idle
<1> QED
    BY <1>1, <1>4, <1>5, <1>7

\* The replaces it leaves behind are of the same root, which still is nobody's.
LEMMA ReplaceFailsStep ==
    ASSUME IInv, NEW c \in Collections, ReplaceFails(c)
    PROVE  IInv'
<1> USE DEF IInv
<1>1. TypeOK'
    BY FlowTypes DEF Setup, FlowTrue
<1>2. /\ ws \in Roots /\ me \in Users /\ pc = "migrate" /\ manifest[ws] # None
      /\ ~Lived(ws) /\ copy.marked = FALSE /\ c \in Replaced(me) /\ Free(c)
      /\ conn' = conn /\ misreads' = misreads
    BY ReplaceStart
<1>3. /\ pc' = "idle" /\ me' = me /\ ws' = ws
      /\ late' = late \cup {[user |-> me, root |-> ws, col |-> d, marked |-> FALSE] : d \in Asked \ {c}}
      /\ Put(me, ws, c, FALSE) \/ UNCHANGED <<files, manifest>>
    BY <1>2 DEF ReplaceFails
<1>4. /\ manifest' = manifest /\ ManifestsTrue' /\ LivedIsMigrated'
      /\ \A x \in Roots : (Lived(x)' => Lived(x)) /\ (Marked(x)' <=> Marked(x))
      /\ \A x \in Roots, d \in Collections : x # ws \/ d # c => files'[x][d] = files[x][d]
    <2>1. CASE Put(me, ws, c, FALSE)
        BY <1>2, <2>1, PutEffect
    <2>2. CASE UNCHANGED <<files, manifest>>
        <3>1. \A v \in Users, r \in Roots : ReadyFor(v, r)' => ReadyFor(v, r)
            BY <1>2 DEF ReadyFor
        <3>2. misreads' >= misreads
            BY <1>2, SetupAssumption DEF TypeOK
        <3>3. /\ Gentle /\ ManifestsTrue'
              /\ \A r \in Roots : (Lived(r)' => Lived(r)) /\ (Marked(r)' <=> Marked(r))
            BY <1>1, <2>2, <3>1, <3>2, DriveStays
        <3>4. LivedIsMigrated'
            <4>1. SUFFICES ASSUME NEW r \in Roots, Lived(r)'
                           PROVE  Migrated(r)' /\ manifest'[r] # None /\ (manifest'[r].marked \/ misreads' > 0)
                BY DEF LivedIsMigrated
            <4>2. Migrated(r) /\ manifest[r] # None /\ (manifest[r].marked \/ misreads > 0)
                BY <3>3, <4>1 DEF LivedIsMigrated
            <4> QED
                BY <1>2, <2>2, <4>2 DEF Migrated, Expected
        <3> QED
            BY <2>2, <3>3, <3>4
    <2> QED
        BY <1>3, <2>1, <2>2
<1>5. LateHarmless'
    <2>1. SUFFICES ASSUME NEW l \in late'
                   PROVE  /\ manifest'[l.root] # None /\ ~Lived(l.root)' /\ ~l.marked
                          /\ l.col \in Replaced(l.user) /\ l.user = me
                          /\ misreads = 0 => files'[l.root][l.col] \subseteq Copied(l.user, l.col)
        BY <1>2, <1>3 DEF LateHarmless, Replaced, Copied, Expected
    <2>2. CASE l \in late
        <3>1. l.root \in Roots /\ l.col \in Collections
            BY <2>2 DEF TypeOK
        <3>2. /\ manifest[l.root] # None /\ ~Lived(l.root) /\ ~l.marked
              /\ l.col \in Replaced(l.user) /\ l.user = me
              /\ misreads = 0 => files[l.root][l.col] \subseteq Copied(l.user, l.col)
            BY <2>2 DEF LateHarmless
        <3>3. l.col # c
            BY <1>2, <2>2, <3>2 DEF Free
        <3> QED
            BY <1>4, <3>1, <3>2, <3>3
    <2>3. ASSUME NEW d \in Asked \ {c}, l = [user |-> me, root |-> ws, col |-> d, marked |-> FALSE]
          PROVE  /\ manifest'[l.root] # None /\ ~Lived(l.root)' /\ ~l.marked
                 /\ l.col \in Replaced(l.user) /\ l.user = me
                 /\ misreads = 0 => files'[l.root][l.col] \subseteq Copied(l.user, l.col)
        <3>1. l.user = me /\ l.root = ws /\ l.col = d /\ ~l.marked
            BY <2>3
        <3>2. d \in Collections /\ task[d] = "asked" /\ d # c
            BY DEF Asked
        <3>3. d \in Replaced(me) /\ (misreads = 0 => files[ws][d] \subseteq Copied(me, d))
            BY <1>2, <3>2 DEF FlowTrue, MigrateFlow
        <3>4. files'[ws][d] = files[ws][d] /\ manifest'[ws] # None /\ ~Lived(l.root)'
            <4>1. \A x \in Roots : ~Lived(x) => ~Lived(x)'
                BY <1>4
            <4>2. ~Lived(l.root)'
                BY <1>2, <3>1, <4>1
            <4> QED
                BY <1>2, <1>4, <3>2, <4>2
        <3> QED
            BY <3>1, <3>3, <3>4
    <2> QED
        BY <1>3, <2>2, <2>3
<1>6. FlowTrue'
    BY <1>3, NothingClaimed DEF Unclaimed
<1> QED
    BY <1>1, <1>4, <1>5, <1>6

\* A replace of an earlier flow puts what the file holds already, or the same user's
\* flow is about to put.
LEMMA LateReplaceStep ==
    ASSUME IInv, NEW k \in late, LateReplace(k)
    PROVE  IInv'
<1> USE DEF IInv
<1>1. TypeOK'
    BY InvSound, OtherTypes DEF Sound
<1>2. /\ k.user \in Users /\ k.root \in Roots /\ k.col \in Collections /\ k.marked = FALSE
      /\ manifest[k.root] # None /\ ~Lived(k.root) /\ k.user = me
    BY DEF TypeOK, LateHarmless
<1>3. /\ conn' = conn /\ misreads' = misreads /\ late' = late \ {k} /\ misreads \in Nat
      /\ pc' = pc /\ me' = me /\ ws' = ws /\ copy' = copy /\ left' = left /\ found' = found /\ task' = task
      /\ Put(me, k.root, k.col, FALSE) \/ UNCHANGED <<files, manifest>>
    <2>1. misreads \in Nat
        BY SetupAssumption DEF TypeOK
    <2>2. /\ conn' = conn /\ late' = late \ {k} /\ UNCHANGED <<pc, flow, bounds>>
          /\ Put(k.user, k.root, k.col, k.marked) \/ UNCHANGED <<files, manifest>>
        BY DEF LateReplace
    <2>3. Put(me, k.root, k.col, FALSE) \/ UNCHANGED <<files, manifest>>
        BY <1>2, <2>2
    <2> QED
        BY <2>1, <2>2, <2>3 DEF flow, bounds
<1>4. CASE UNCHANGED <<files, manifest>>
    <2>1. \A v \in Users, r \in Roots : ReadyFor(v, r)' => ReadyFor(v, r)
        BY <1>3 DEF ReadyFor
    <2>2. misreads' >= misreads
        BY <1>3
    <2>3. Gentle /\ ManifestsTrue'
        BY <1>1, <1>4, <2>1, <2>2, DriveStays
    <2>4. LivedIsMigrated' /\ LateHarmless'
        BY <1>3, <2>3, GentleKeeps
    <2>5. UNCHANGED <<pc, flow, manifest, misreads>>
        BY <1>3, <1>4 DEF flow
    <2>6. FlowTrue'
        BY <1>3, <1>4, <2>3, <2>5, FlowStays
    <2> QED
        BY <1>1, <2>3, <2>4, <2>6
<1>5. CASE Put(me, k.root, k.col, FALSE)
    <2>1. /\ manifest' = manifest /\ ManifestsTrue' /\ LivedIsMigrated'
          /\ \A x \in Roots : (Lived(x)' => Lived(x)) /\ (Marked(x)' <=> Marked(x))
          /\ files'[k.root][k.col] = Copied(me, k.col)
          /\ \A x \in Roots, d \in Collections : x # k.root \/ d # k.col => files'[x][d] = files[x][d]
        <3>1. TypeOK /\ ManifestsTrue /\ LivedIsMigrated /\ me \in Users /\ conn' = conn /\ misreads' = misreads
            BY <1>2, <1>3
        <3>2. k.root \in Roots /\ k.col \in Collections /\ manifest[k.root] # None /\ ~Lived(k.root)
            BY <1>2
        <3>3. PICK u \in Users, r \in Roots, c \in Collections : u = me /\ r = k.root /\ c = k.col
            BY <3>1, <3>2
        <3>4. Put(u, r, c, FALSE) /\ manifest[r] # None /\ ~Lived(r)
            BY <1>5, <3>2, <3>3
        <3>5. /\ manifest' = manifest /\ ManifestsTrue' /\ LivedIsMigrated'
              /\ \A x \in Roots : (Lived(x)' => Lived(x)) /\ (Marked(x)' <=> Marked(x))
              /\ files'[r][c] = Copied(u, c)
              /\ \A x \in Roots, d \in Collections : x # r \/ d # c => files'[x][d] = files[x][d]
            BY <3>1, <3>4, PutEffect
        <3> QED
            BY <3>3, <3>5
    <2>2. LateHarmless'
        <3>1. SUFFICES ASSUME NEW l \in late
                       PROVE  /\ manifest'[l.root] # None /\ ~Lived(l.root)' /\ ~l.marked
                              /\ l.col \in Replaced(l.user) /\ l.user = me
                              /\ misreads = 0 => files'[l.root][l.col] \subseteq Copied(l.user, l.col)
            BY <1>3 DEF LateHarmless, Replaced, Copied, Expected
        <3>2. l.root \in Roots /\ l.col \in Collections
            BY DEF TypeOK
        <3>3. /\ manifest[l.root] # None /\ ~Lived(l.root) /\ ~l.marked
              /\ l.col \in Replaced(l.user) /\ l.user = me
              /\ misreads = 0 => files[l.root][l.col] \subseteq Copied(l.user, l.col)
            BY DEF LateHarmless
        <3> QED
            BY <2>1, <3>2, <3>3
    <2>3. Expected(me)' = Expected(me) /\ Replaced(me)' = Replaced(me) /\ \A c : Copied(me, c)' = Copied(me, c)
        BY <1>3 DEF Replaced, Copied, Expected
    <2>4. \A c \in Collections : Free(c) => Free(c)'
        BY <1>3 DEF Free
    <2>5. FlowStarted'
        BY <1>3, <2>1 DEF FlowTrue, FlowStarted, Idle
    <2>6. FilesFlow'
        <3>1. SUFFICES ASSUME pc = "files" PROVE FilesFlow'
            BY <1>3 DEF FilesFlow
        <3>2. ws \in Roots /\ copy.files \subseteq Collections
            BY <3>1 DEF FlowTrue, FlowStarted, TypeOK, Manifest, Idle
        <3>3. \A d \in Collections : files[ws][d] # None => files'[ws][d] # None
            BY <1>2, <2>1, <3>2 DEF ManifestsTrue
        <3> QED
            BY <1>3, <2>1, <3>1, <3>2, <3>3 DEF FlowTrue, FilesFlow
    <2>7. CheckFlow'
        <3>1. SUFFICES ASSUME pc = "check" PROVE CheckFlow'
            BY <1>3 DEF CheckFlow
        <3>2. /\ Lived(ws) => misreads > 0 /\ (found \/ \E c \in left : files[ws][c] # {})
              /\ misreads = 0 /\ ~found => \A c \in Collections \ left : files[ws][c] \subseteq Copied(me, c)
              /\ ws \in Roots /\ left \subseteq Collections
            BY <3>1 DEF FlowTrue, FlowStarted, CheckFlow, TypeOK, Idle
        <3>3. Lived(ws)' => Lived(ws) /\ ws # k.root
            BY <1>2, <1>3, <2>1, <3>2
        <3>4. Lived(ws)' => misreads > 0 /\ (found \/ \E c \in left : files'[ws][c] # {})
            BY <2>1, <3>2, <3>3
        <3>5. misreads = 0 /\ ~found => \A c \in Collections \ left : files'[ws][c] \subseteq Copied(me, c)
            BY <2>1, <3>2
        <3> QED
            BY <1>3, <2>3, <3>4, <3>5 DEF CheckFlow
    <2>8. MigrateFlow'
        <3>1. SUFFICES ASSUME pc = "migrate" PROVE MigrateFlow'
            BY <1>3 DEF MigrateFlow
        <3>2. /\ ~Lived(ws) /\ ~copy.marked /\ ws \in Roots
              /\ misreads = 0 => \A c \in Collections : files[ws][c] \subseteq Copied(me, c)
              /\ \A c \in Replaced(me) : task[c] # "none"
              /\ \A c \in Collections : task[c] # "none" => c \in Replaced(me)
              /\ \A c \in Collections : task[c] = "done" => Free(c) /\ Copied(me, c) \subseteq files[ws][c]
            BY <3>1 DEF FlowTrue, FlowStarted, MigrateFlow, Idle
        <3>3. ~Lived(ws)'
            BY <1>3, <2>1, <3>2
        <3>4. misreads = 0 => \A c \in Collections : files'[ws][c] \subseteq Copied(me, c)
            BY <2>1, <3>2
        <3>5. \A c \in Collections : task[c] = "done" => Free(c)' /\ Copied(me, c) \subseteq files'[ws][c]
            BY <2>1, <2>4, <3>2
        <3> QED
            BY <1>3, <2>3, <3>2, <3>3, <3>4, <3>5 DEF MigrateFlow
    <2>9. MarkFlow'
        <3>1. pc # "mark"
            BY DEF FlowTrue, MarkFlow
        <3>2. pc = "ready" => Marked(ws)'
            BY <1>3, <2>1 DEF FlowTrue, MarkFlow, Marked
        <3> QED
            BY <1>3, <3>1, <3>2 DEF MarkFlow
    <2> QED
        BY <1>1, <2>1, <2>2, <2>5, <2>6, <2>7, <2>8, <2>9 DEF FlowTrue
<1> QED
    BY <1>3, <1>4, <1>5

-----------------------------------------------------------------------------
(* The marker, and the app *)

\* The one step by which a root comes to be lived in: everything is there, and no
\* replace is left that could take it away.
LEMMA MarkStep ==
    ASSUME IInv, Mark
    PROVE  IInv'
<1> USE DEF IInv
<1>1. TypeOK'
    BY FlowTypes DEF Setup, FlowTrue
<1>2. /\ ws \in Roots /\ me \in Users /\ pc = "mark" /\ pc' = "ready" /\ manifest[ws] # None
      /\ ws' = ws /\ me' = me /\ late' = late /\ files' = files /\ conn' = conn /\ misreads' = misreads
      /\ manifest' = [manifest EXCEPT ![ws].marked = TRUE]
    BY DEF Mark, FlowTrue, FlowStarted, Idle, flow, bounds
<1>3. late = {} /\ \A c \in Expected(me) : <<me, "copied">> \in files[ws][c]
    BY <1>2 DEF FlowTrue, MarkFlow
<1>4. manifest[ws] \in Manifest
    BY <1>2 DEF TypeOK
<1>5. manifest'[ws] = [manifest[ws] EXCEPT !.marked = TRUE] /\ \A r \in Roots : r # ws => manifest'[r] = manifest[r]
    BY <1>2 DEF TypeOK
<1>6. manifest'[ws] # None /\ manifest'[ws].marked /\ manifest'[ws].files = manifest[ws].files
    <2>1. [manifest[ws] EXCEPT !.marked = TRUE] \in Manifest
        BY <1>4 DEF Manifest
    <2>2. manifest'[ws] # None
        BY <1>5, <2>1, NoneIsNoValue
    <2> QED
        BY <1>4, <1>5, <2>2 DEF Manifest
<1>7. ManifestsTrue'
    BY <1>2, <1>5, <1>6 DEF ManifestsTrue
<1>8. LivedIsMigrated'
    <2>1. SUFFICES ASSUME NEW r \in Roots, Lived(r)'
                   PROVE  Migrated(r)' /\ manifest'[r] # None /\ (manifest'[r].marked \/ misreads' > 0)
        BY DEF LivedIsMigrated
    <2>2. CASE r = ws
        <3>1. Migrated(ws)
            BY <1>2, <1>3 DEF Migrated
        <3> QED
            BY <1>2, <1>6, <2>2, <3>1 DEF Migrated, Expected
    <2>3. CASE r # ws
        <3>1. Lived(r)
            BY <1>2, <1>5, <2>1, <2>3 DEF Lived, Marked, ReadyFor, Holds
        <3> QED
            BY <1>2, <1>5, <2>3, <3>1 DEF LivedIsMigrated, Migrated, Expected
    <2> QED
        BY <2>2, <2>3
<1>9. LateHarmless'
    BY <1>2, <1>3 DEF LateHarmless
<1>10. Marked(ws)'
    BY <1>2, <1>6 DEF Marked
<1>11. FlowTrue'
    BY <1>2, <1>6, <1>10 DEF FlowTrue, FlowStarted, FilesFlow, CheckFlow, MigrateFlow, MarkFlow, Idle
<1> QED
    BY <1>1, <1>7, <1>8, <1>9, <1>11

\* The app only adds, and only to a root that is lived in.
LEMMA SaveEffect ==
    ASSUME TypeOK, ManifestsTrue, NEW u \in Users, NEW c \in Collections, Save(u, c)
    PROVE  /\ UNCHANGED <<conn, manifest, misreads>>
           /\ \A r \in Roots, d \in Collections :
                /\ files[r][d] # None => files'[r][d] # None /\ files[r][d] \subseteq files'[r][d]
                /\ files[r][d] = None => files'[r][d] = None
           /\ \A r \in Roots : ~Lived(r) => files'[r] = files[r]
           /\ \A r \in Roots : Lived(r)' => Lived(r)
<1>1. PICK r \in Roots : r = conn[u].root
    BY DEF Save, TypeOK, Connection
<1>2. /\ UNCHANGED <<conn, manifest, misreads>> /\ ReadyFor(u, r) /\ files[r][c] # None
      /\ files' = [files EXCEPT ![r][c] = files[r][c] \cup {<<u, "saved">>}]
    BY <1>1 DEF Save, ReadyFor, bounds, TypeOK
<1>3. Lived(r)
    BY <1>2 DEF Lived
<1>4. /\ files'[r][c] = files[r][c] \cup {<<u, "saved">>}
      /\ \A x \in Roots, d \in Collections : x # r \/ d # c => files'[x][d] = files[x][d]
      /\ \A x \in Roots : x # r => files'[x] = files[x]
    BY <1>2 DEF TypeOK
<1>5. files'[r][c] # None
    <2>1. files[r][c] \in SUBSET Tags
        BY <1>2 DEF TypeOK
    <2>2. files'[r][c] \in SUBSET Tags
        BY <1>4, <2>1 DEF Tags
    <2> QED
        BY <2>2, NoneIsNoValue
<1>6. \A x \in Roots : x # r => (Lived(x)' => Lived(x))
    BY <1>2, <1>4 DEF Lived, Marked, ReadyFor, Holds
<1> QED
    BY <1>2, <1>3, <1>4, <1>5, <1>6

LEMMA SaveStep ==
    ASSUME IInv, NEW u \in Users, NEW c \in Collections, Save(u, c)
    PROVE  IInv'
<1> USE DEF IInv
<1>1. TypeOK'
    BY InvSound, OtherTypes DEF Sound
<1>2. /\ UNCHANGED <<conn, manifest, misreads>>
      /\ \A r \in Roots, d \in Collections :
            /\ files[r][d] # None => files'[r][d] # None /\ files[r][d] \subseteq files'[r][d]
            /\ files[r][d] = None => files'[r][d] = None
      /\ \A r \in Roots : ~Lived(r) => files'[r] = files[r]
      /\ \A r \in Roots : Lived(r)' => Lived(r)
    BY SaveEffect
<1>3. UNCHANGED <<pc, flow, late>> /\ me' = me
    BY DEF Save, flow
<1>4. misreads \in Nat
    BY SetupAssumption DEF TypeOK
<1>5. Gentle
    <2>1. \A r \in Roots : manifest[r] # None =>
              /\ manifest'[r] # None
              /\ \A d \in Collections : files[r][d] \subseteq files'[r][d]
              /\ ~Lived(r) => files'[r] = files[r]
              /\ Marked(r) => Marked(r)'
        BY <1>2 DEF Marked, ManifestsTrue
    <2> QED
        BY <1>2, <1>4, <2>1 DEF Gentle
<1>6. ManifestsTrue'
    <2>1. SUFFICES ASSUME NEW r \in Roots, NEW d \in Collections
                   PROVE  /\ manifest[r] # None => d \in manifest[r].files /\ files'[r][d] # None
                          /\ manifest[r] = None => files'[r][d] \in {None, {}}
        BY <1>2 DEF ManifestsTrue
    <2>2. manifest[r] = None => ~Lived(r)
        BY DEF LivedIsMigrated
    <2> QED
        BY <1>2, <2>2 DEF ManifestsTrue
<1>7. LivedIsMigrated' /\ LateHarmless'
    BY <1>3, <1>5, GentleKeeps
<1>8. FlowTrue'
    BY <1>2, <1>3, <1>5, FlowStays
<1> QED
    BY <1>1, <1>6, <1>7, <1>8

-----------------------------------------------------------------------------
(* The theorems *)

LEMMA InitIInv == Init => IInv
<1>1. ASSUME Init PROVE IInv
    <2>1. \A r \in Roots : ~Lived(r)
        BY <1>1 DEF Init, Lived, Marked, ReadyFor, Holds
    <2>2. ManifestsTrue
        BY <1>1 DEF Init, ManifestsTrue
    <2>3. LivedIsMigrated /\ LateHarmless
        BY <1>1, <2>1 DEF Init, LivedIsMigrated, LateHarmless
    <2>4. FlowTrue
        BY <1>1 DEF Init, FlowTrue, FlowStarted, FilesFlow, CheckFlow, MigrateFlow, MarkFlow, Idle
    <2> QED
        BY <1>1, <2>2, <2>3, <2>4, InitTypes DEF IInv
<1> QED
    BY <1>1

\* The invariant is inductive as long as at most one read has failed where the code
\* goes on without it.
LEMMA Inductive ==
    ASSUME IInv, misreads' <= 1, [Next]_vars
    PROVE  IInv'
<1>1. CASE Setup
    BY <1>1, PlainSteps, ReadManifestStep, WriteManifestStep, ReadMarkerStep, MigrateStep, VerifyStep,
       MarkStep, InitFileStep, CheckStep, ReplaceStep, ReplaceFailsStep DEF Setup
<1>2. CASE Fail \/ Restart
    BY <1>2, PlainSteps
<1>3. CASE \E l \in late : LateReplace(l)
    BY <1>3, LateReplaceStep
<1>4. CASE \E u \in Users, g \in GoogleAccounts :
               Connect(u, g) \/ \E root \in {"main", "fresh"} : Resolve(u, g, root)
    BY <1>4, RouteSteps
<1>5. ASSUME NEW u \in Users, Disconnect(u) PROVE IInv'
    <2>1. PICK g \in GoogleAccounts : TRUE
        BY <1>5 DEF Disconnect, IInv, TypeOK, Connection
    <2> QED
        BY <1>5, <2>1, RouteSteps
<1>6. CASE \E u \in Users, c \in Collections : Save(u, c)
    BY <1>6, SaveStep
<1>7. CASE UNCHANGED vars
    <2>1. /\ conn' = conn /\ choices' = choices /\ folders' = folders /\ files' = files /\ manifest' = manifest
          /\ pc' = pc /\ me' = me /\ ws' = ws /\ copy' = copy /\ left' = left /\ found' = found
          /\ task' = task /\ late' = late /\ connects' = connects /\ misreads' = misreads /\ faults' = faults
        BY <1>7 DEF vars, drive, flow, bounds
    <2>2. TypeOK'
        BY <2>1 DEF IInv, TypeOK
    <2>3. misreads' >= misreads
        BY <2>1, SetupAssumption DEF IInv, TypeOK
    <2>4. \A v \in Users, r \in Roots : ReadyFor(v, r)' => ReadyFor(v, r)
        BY <2>1 DEF ReadyFor
    <2>5. Gentle /\ ManifestsTrue'
        BY <2>1, <2>2, <2>3, <2>4, DriveStays DEF IInv
    <2>6. LivedIsMigrated' /\ LateHarmless'
        BY <2>1, <2>5, GentleKeeps DEF IInv
    <2>7. FlowTrue'
        BY <2>1, <2>5, FlowStays DEF IInv, flow
    <2> QED
        BY <2>2, <2>5, <2>6, <2>7 DEF IInv
<1> QED
    BY <1>1, <1>2, <1>3, <1>4, <1>5, <1>6, <1>7 DEF Next

\* How many reads may have failed in passing for the migration to be sound.
OneMisread == misreads <= 1

\* A read that failed stays counted.
LEMMA MisreadsGrow ==
    ASSUME TypeOK, [Next]_vars
    PROVE  misreads' >= misreads
<1>1. misreads \in Nat
    BY SetupAssumption DEF TypeOK
<1>2. misreads' = misreads \/ Misread
    BY DEF Next, Setup, Connect, Resolve, Begin, Disconnect, Save, Probe, Folders, Ready, ReadManifest,
       InitFile, WriteManifest, ReadMarker, Check, Refuse, Migrate, Replace, ReplaceFails, LateReplace,
       Verify, Mark, Fail, Restart, bounds, vars
<1> QED
    BY <1>1, <1>2 DEF Misread

\* The workspaces stay whole whatever is misread, and the invariant holds until a
\* second read has failed.
THEOREM Invariance == Spec => [](Sound /\ (OneMisread => IInv))
<1>1. Init => Sound /\ (OneMisread => IInv)
    BY SoundInit, InitIInv
<1>2. Sound /\ (OneMisread => IInv) /\ [Next]_vars => Sound' /\ (OneMisread' => IInv')
    <2>1. SUFFICES ASSUME Sound, OneMisread => IInv, [Next]_vars
                   PROVE  Sound' /\ (OneMisread' => IInv')
        OBVIOUS
    <2>2. Sound'
        BY <2>1, SoundStep
    <2>3. misreads \in Nat /\ misreads' \in Nat /\ misreads' >= misreads
        BY <2>1, <2>2, MisreadsGrow, SetupAssumption DEF Sound, TypeOK
    <2>4. OneMisread' => OneMisread
        BY <2>3 DEF OneMisread
    <2> QED
        BY <2>1, <2>2, <2>4, Inductive DEF OneMisread
<1> QED
    BY <1>1, <1>2, PTL DEF Spec

\* Every variable keeps its type.
THEOREM TypeCorrect == Spec => []TypeOK
<1>1. Sound => TypeOK
    BY DEF Sound
<1> QED
    BY <1>1, Invariance, PTL

\* drive.routes.ts:178: a ready connection's root has every file and, unless a read
\* has failed, the marker.
THEOREM ShownComplete == Spec => []ReadyMeansComplete
<1>1. Sound /\ (OneMisread => IInv) => ReadyMeansComplete
    <2>1. SUFFICES ASSUME Sound, OneMisread => IInv, NEW u \in Users, conn[u] # None, conn[u].root # None
                   PROVE  LET r == conn[u].root
                          IN /\ manifest[r] # None /\ (manifest[r].marked \/ misreads > 0)
                             /\ \A c \in Collections : c \in manifest[r].files /\ files[r][c] # None
        BY DEF ReadyMeansComplete
    <2>2. PICK r \in Roots : r = conn[u].root /\ ReadyFor(u, r)
        BY <2>1 DEF Sound, TypeOK, Connection, ReadyFor
    <2>3. manifest[r] # None
        BY <2>1, <2>2 DEF Sound, Rooted
    <2>4. \A c \in Collections : c \in manifest[r].files /\ files[r][c] # None
        BY <2>1, <2>3 DEF Sound, ManifestsTrue
    <2>5. manifest[r].marked \/ misreads > 0
        <3>1. misreads \in Nat
            BY <2>1, SetupAssumption DEF Sound, TypeOK
        <3>2. CASE misreads > 0
            BY <3>2
        <3>3. CASE misreads = 0
            <4>1. IInv
                BY <2>1, <3>3 DEF OneMisread
            <4> QED
                BY <2>2, <4>1 DEF IInv, LivedIsMigrated, Lived
        <3> QED
            BY <3>1, <3>2, <3>3
    <2> QED
        BY <2>2, <2>3, <2>4, <2>5
<1> QED
    BY <1>1, Invariance, PTL

\* init.ts:309: until a second read has failed, what bears the migration marker holds
\* all that some user had.
THEOREM MarkersAreTrue == Spec => [](OneMisread => MarkedMeansMigrated)
<1>1. IInv => MarkedMeansMigrated
    BY DEF IInv, LivedIsMigrated, Lived, Marked, Migrated, MarkedMeansMigrated
<1> QED
    BY <1>1, Invariance, PTL

\* What is no saved record is a copy that PostgreSQL still has.
LEMMA UnsavedIsCopy ==
    ASSUME TypeOK, NEW r \in Roots, NEW c \in Collections, files[r][c] # None, ~Lived(r)
    PROVE  files[r][c] \subseteq Copies
<1>1. files[r][c] \subseteq Tags /\ \A u \in Users : <<u, "saved">> \notin files[r][c]
    BY DEF TypeOK, Lived, Holds
<1>2. ASSUME NEW t \in files[r][c] PROVE t \in Copies
    <2>1. PICK u \in Users, how \in {"copied", "saved"} : t = <<u, how>>
        BY <1>1 DEF Tags
    <2> QED
        BY <1>1, <2>1 DEF Copies
<1> QED
    BY <1>2

\* A replace of the last flow's user loses nothing, or copies only.
LEMMA PutLosesNothing ==
    ASSUME TypeOK, NEW u \in Users, NEW r \in Roots, NEW c \in Collections,
           ~Lived(r), misreads = 0 => files[r][c] \subseteq Copied(u, c),
           files'[r][c] = Copied(u, c),
           \A x \in Roots, d \in Collections : x # r \/ d # c => files'[x][d] = files[x][d],
           NEW x \in Roots, NEW d \in Collections, files[x][d] # None
    PROVE  /\ files'[x][d] # None
           /\ files[x][d] \ files'[x][d] \subseteq IF misreads = 0 THEN {} ELSE Copies
<1>1. Copied(u, c) # None
    BY CopiedFacts, NoneIsNoValue
<1>2. CASE x # r \/ d # c
    BY <1>2
<1>3. CASE x = r /\ d = c
    BY <1>1, <1>3, UnsavedIsCopy
<1> QED
    BY <1>2, <1>3

\* dataService.ts:497, init.ts:335: connecting loses no record; with one read that
\* fails it loses only copies that PostgreSQL still has.
THEOREM NothingIsWiped ==
    ASSUME MaxMisreads <= 1
    PROVE  Spec => NothingWiped
<1> DEFINE Kept(r, c) == files[r][c] # None =>
               /\ files'[r][c] # None
               /\ files[r][c] \ files'[r][c] \subseteq IF misreads = 0 THEN {} ELSE Copies
           KeptAll == \A r \in Roots, c \in Collections : Kept(r, c)
<1>1. ASSUME IInv, misreads' <= 1, [Next]_vars PROVE KeptAll
    <2>1. CASE files' = files
        BY <2>1
    <2>2. ASSUME NEW c \in Collections, InitFile(c) PROVE KeptAll
        <3>1. /\ ws \in Roots
              /\ \/ files' = files
                 \/ manifest[ws] = None /\ files' = [files EXCEPT ![ws] = [files[ws] EXCEPT ![c] = {}]]
              /\ files'[ws][c] # None
            BY <1>1, <2>2, InitFileEffect
        <3>2. ASSUME manifest[ws] = None, files' = [files EXCEPT ![ws] = [files[ws] EXCEPT ![c] = {}]],
                     NEW r \in Roots, NEW d \in Collections
              PROVE  Kept(r, d)
            <4>1. files'[r][d] = IF r = ws /\ d = c THEN {} ELSE files[r][d]
                BY <1>1, <3>1, <3>2 DEF IInv, TypeOK
            <4>2. files[ws][c] \in {None, {}}
                BY <1>1, <3>1, <3>2 DEF IInv, ManifestsTrue
            <4> QED
                BY <3>1, <4>1, <4>2
        <3> QED
            BY <2>1, <3>1, <3>2
    <2>3. ASSUME NEW c \in Collections, Replace(c) \/ ReplaceFails(c) PROVE KeptAll
        <3>1. /\ ws \in Roots /\ me \in Users /\ pc = "migrate" /\ manifest[ws] # None
              /\ ~Lived(ws) /\ copy.marked = FALSE /\ conn' = conn /\ misreads' = misreads
            BY <1>1, <2>3, ReplaceStart
        <3>2. misreads = 0 => files[ws][c] \subseteq Copied(me, c)
            BY <1>1, <3>1 DEF IInv, FlowTrue, MigrateFlow
        <3>3. Put(me, ws, c, FALSE) \/ files' = files
            BY <2>3, <3>1 DEF Replace, ReplaceFails
        <3>4. CASE Put(me, ws, c, FALSE)
            <4>1. /\ files'[ws][c] = Copied(me, c)
                  /\ \A x \in Roots, d \in Collections : x # ws \/ d # c => files'[x][d] = files[x][d]
                BY <1>1, <3>1, <3>4, PutEffect DEF IInv
            <4> QED
                BY <1>1, <3>1, <3>2, <4>1, PutLosesNothing DEF IInv
        <3> QED
            BY <2>1, <3>3, <3>4
    <2>4. ASSUME NEW k \in late, LateReplace(k) PROVE KeptAll
        <3>1. /\ k.user \in Users /\ k.root \in Roots /\ k.col \in Collections /\ k.marked = FALSE
              /\ manifest[k.root] # None /\ ~Lived(k.root)
              /\ misreads = 0 => files[k.root][k.col] \subseteq Copied(k.user, k.col)
            BY <1>1 DEF IInv, TypeOK, LateHarmless
        <3>2. /\ conn' = conn /\ misreads' = misreads
              /\ Put(k.user, k.root, k.col, FALSE) \/ files' = files
            BY <2>4, <3>1 DEF LateReplace, bounds
        <3>3. CASE Put(k.user, k.root, k.col, FALSE)
            <4>1. TypeOK
                BY <1>1 DEF IInv
            <4>2. /\ files'[k.root][k.col] = Copied(k.user, k.col)
                  /\ \A x \in Roots, d \in Collections : x # k.root \/ d # k.col => files'[x][d] = files[x][d]
                BY <4>1, <3>1, <3>3 DEF Put, TypeOK
            <4> QED
                BY <4>1, <3>1, <4>2, PutLosesNothing
        <3> QED
            BY <2>1, <3>2, <3>3
    <2>5. ASSUME NEW u \in Users, NEW c \in Collections, Save(u, c) PROVE KeptAll
        BY <1>1, <2>5, SaveEffect DEF IInv
    <2>6. CASE Setup
        BY <2>1, <2>2, <2>3, <2>6 DEF Setup, Probe, Folders, Ready, ReadManifest, WriteManifest, ReadMarker,
           Refuse, Migrate, Verify, Mark, Check, drive
    <2>7. CASE Fail \/ Restart \/ UNCHANGED vars
        BY <2>1, <2>7 DEF Fail, Restart, vars, drive
    <2>8. ASSUME NEW u \in Users, NEW g \in GoogleAccounts, NEW root \in {"main", "fresh"},
                 Connect(u, g) \/ Resolve(u, g, root)
          PROVE  KeptAll
        BY <2>1, <2>8 DEF Connect, Resolve, drive
    <2>9. ASSUME NEW u \in Users, Disconnect(u) PROVE KeptAll
        BY <2>1, <2>9 DEF Disconnect, drive
    <2> QED
        BY <1>1, <2>4, <2>5, <2>6, <2>7, <2>8, <2>9 DEF Next
<1>2. Sound => OneMisread
    BY SetupAssumption DEF Sound, TypeOK, OneMisread
<1>3. Sound /\ (OneMisread => IInv) /\ [Next]_vars => [KeptAll]_vars
    <2>1. SUFFICES ASSUME Sound, OneMisread => IInv, [Next]_vars PROVE KeptAll
        OBVIOUS
    <2>2. Sound'
        BY <2>1, SoundStep
    <2>3. misreads' <= 1
        BY <2>2, SetupAssumption DEF Sound, TypeOK
    <2> QED
        BY <1>1, <1>2, <2>1, <2>3
<1> QED
    BY <1>3, Invariance, PTL DEF NothingWiped, Spec
=============================================================================
