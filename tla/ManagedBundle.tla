------------------------------ MODULE ManagedBundle ------------------------------
(***************************************************************************)
(* One wiki whose bundle the program writes itself: an assistant memory    *)
(* ("personal"), an imported bundle ("imported"), or the portable memory   *)
(* of a project, whose files live in the user's folder ("project").        *)
(*                                                                         *)
(* A change of a concept is a row in the journal, an atomic replacement of *)
(* its file, an update of the concepts table, of index.md and of the row   *)
(* of the wiki, and the removal of the journal row (memory.rs).  It may    *)
(* fail or the process may die between any two of them; the next start     *)
(* completes or withholds it.  One lock orders these changes, the          *)
(* reconciliation of a project bundle (project_memory.rs) and the changes  *)
(* of grants; creation, deletion, detaching and the user do not take it.   *)
(***************************************************************************)
EXTENDS Naturals, FiniteSets

CONSTANTS
  Paths,       \* logical paths of concepts
  Apps,        \* connected assistant applications
  Scopes,      \* kinds of wiki of the instance
  MaxBytes,    \* bound on the versions of a concept
  MaxEdits,    \* bound on changes made by the user in the bundle
  MaxGrants,   \* bound on changes of grants and revocations
  MaxFaults,   \* bound on failed operations
  MaxCrashes   \* bound on crashes

ASSUME ScopeAssumption == Scopes \subseteq {"personal", "imported", "project"}
ASSUME BoundAssumption ==
  {MaxBytes, MaxEdits, MaxGrants, MaxFaults, MaxCrashes} \subseteq Nat /\ MaxBytes # 0
ASSUME PathAssumption == "." \notin Paths   \* the journal's name of a whole bundle

VARIABLES
  row,         \* scope of the collection row, "none" before and "gone" after it
  attachment,  \* state of the attachment of a project wiki, or "none"
  proj,        \* version of every concept in okf_concept_projection
  journal,     \* the row of managed_bundle_mutations
  role,        \* grant of every application on the wiki
  revoked,     \* applications whose capability is revoked
  files,       \* version of every concept file of the bundle
  folder,      \* "absent", "valid", "broken", or "foreign": another identity
  index,       \* concepts index.md lists
  left,        \* directories beside the bundle: "staging", "retired"
  op,          \* the operation that holds the lock
  life,        \* the creation or deletion in flight
  phase,       \* of the process
  watcher,     \* of a project folder: "off", "quiet", "event" or "failed"
  fresh,       \* versions rendered so far
  asked,       \* writes journalled so far
  kept,        \* what the table of a withheld project held when it was withheld
  intruded,    \* the user has changed files of the bundle
  edited,      \* ... since the table was last loaded from them
  doomed,      \* a deletion took the bundle away
  edits, grants, faults, crashes

tables == <<row, attachment, proj, journal, role, revoked>>
disk == <<files, folder, index, left>>
process == <<op, life, phase, watcher>>
history == <<fresh, asked, kept, intruded, edited, doomed>>
bounds == <<edits, grants, faults, crashes>>
bundleVars == <<tables, disk, process, history, bounds>>

Absent == 0
Bytes == 1..MaxBytes
Empty == [p \in Paths |-> Absent]
Root == "."
Nobody == "nobody"

NoJournal == [state |-> "none", path |-> Root, prev |-> Absent, repl |-> Absent,
              bundle |-> Empty]
Free == [kind |-> "free", pc |-> "free", app |-> Nobody, path |-> Root,
         prev |-> Absent, repl |-> Absent, snap |-> Empty, sound |-> "absent"]
NoLife == [pc |-> "idle", scope |-> "none", bundle |-> Empty, sound |-> "absent"]

Init ==
  /\ row = "none" /\ attachment = "none" /\ proj = Empty /\ journal = NoJournal
  /\ role = [a \in Apps |-> "none"] /\ revoked = {}
  /\ files = Empty /\ folder = "absent" /\ index = {} /\ left = {}
  /\ op = Free /\ life = NoLife /\ phase = "serving" /\ watcher = "off"
  /\ fresh = 0 /\ asked = {} /\ kept = Empty /\ intruded = FALSE /\ edited = FALSE /\ doomed = FALSE
  /\ edits = 0 /\ grants = 0 /\ faults = 0 /\ crashes = 0

-------------------------------------------------------------------------------
Serving == phase = "serving"
Pending == journal.state # "none"
Mine(p) == [journal EXCEPT !.state = p]
Exists == row \in {"personal", "imported", "project"}

(* application_wiki_role, and the refusal of readers.                         *)
MayWrite(a) ==
  /\ role[a] \in {"owner", "editor"} /\ a \notin revoked
  /\ row = "personal" \/ (row = "project" /\ attachment = "active")

(* What a search or a page of the wiki serves.                                *)
Served == Exists /\ ~Pending /\ (row = "project" => attachment = "active")

Fault == faults < MaxFaults /\ faults' = faults + 1
Release == op' = Free
Goto(pc) == op' = [op EXCEPT !.pc = pc]

(* The deletion of the row deletes what refers to it.                         *)
DropRowKeepingJournal ==
  /\ row' = "gone" /\ attachment' = "none" /\ proj' = Empty
  /\ role' = [a \in Apps |-> "none"]
  /\ UNCHANGED <<journal, revoked>>

DropRow ==
  /\ row' = "gone" /\ attachment' = "none" /\ proj' = Empty /\ journal' = NoJournal
  /\ role' = [a \in Apps |-> "none"]
  /\ UNCHANGED revoked

-------------------------------------------------------------------------------
(* Creation of a memory, and import of a bundle: staging, row with journal,    *)
(* rename, table, completion.                                                 *)

Stage(scope) ==
  /\ Serving /\ row = "none" /\ life = NoLife
  /\ scope \in Scopes \ {"project"}
  /\ left' = left \union {"staging"}
  /\ \E b \in IF scope = "personal" THEN {Empty} ELSE [Paths -> {Absent, 1}] :
       /\ life' = [NoLife EXCEPT !.pc = "staged", !.scope = scope, !.bundle = b]
       /\ fresh' = IF b = Empty THEN 0 ELSE 1
  /\ UNCHANGED <<tables, files, folder, index, op, phase, watcher, asked, kept,
                 intruded, edited, doomed, bounds>>

(* Applications that are connected receive a reader grant on a new wiki; a    *)
(* personal memory is of its creator only.                                    *)
Connected == [a \in Apps |-> IF a \in revoked THEN "none" ELSE "reader"]

(* create_managed_collection_with_mutation, in one transaction.               *)
Register(a) ==
  /\ life.pc = "staged" /\ (life.scope = "personal" => a \notin revoked)
  /\ row' = life.scope
  /\ journal' = [NoJournal EXCEPT !.state = "prepared", !.bundle = life.bundle]
  /\ role' = IF life.scope = "personal" THEN [role EXCEPT ![a] = "owner"] ELSE Connected
  /\ life' = [life EXCEPT !.pc = "registered"]
  /\ UNCHANGED <<attachment, proj, revoked, disk, op, phase, watcher, history, bounds>>

RegisterRefused ==
  /\ life.pc = "staged"
  /\ (life.scope = "personal" /\ revoked = Apps /\ UNCHANGED faults) \/ Fault
  /\ left' = left \ {"staging"} /\ life' = NoLife
  /\ UNCHANGED <<tables, files, folder, index, op, phase, watcher, history, edits,
                 grants, crashes>>

Activate ==
  /\ life.pc = "registered"
  /\ left' = left \ {"staging"}
  /\ files' = life.bundle /\ folder' = "valid" /\ index' = {}
  /\ life' = [life EXCEPT !.pc = "activated"]
  /\ UNCHANGED <<tables, op, phase, watcher, history, bounds>>

ActivateFails ==
  /\ life.pc = "registered" /\ Fault
  /\ DropRow
  /\ left' = left \ {"staging"} /\ life' = NoLife
  /\ UNCHANGED <<files, folder, index, op, phase, watcher, history, edits, grants, crashes>>

MarkActivated ==
  /\ life.pc = "activated"
  /\ journal' = Mine("file_replaced")
  /\ life' = [life EXCEPT !.pc = "marked"]
  /\ UNCHANGED <<row, attachment, proj, role, revoked, disk, op, phase, watcher,
                 history, bounds>>

(* A new memory over the quota of its owner is removed.                       *)
OverQuota ==
  /\ life.pc = "marked" /\ life.scope = "personal" /\ Fault
  /\ DropRow
  /\ files' = Empty /\ folder' = "absent" /\ index' = {} /\ life' = NoLife
  /\ UNCHANGED <<left, op, phase, watcher, history, edits, grants, crashes>>

LoadImported ==
  /\ life.pc = "marked"
  /\ proj' = IF life.scope = "imported" THEN life.bundle ELSE proj
  /\ life' = [life EXCEPT !.pc = "loaded"]
  /\ UNCHANGED <<row, attachment, journal, role, revoked, disk, op, phase, watcher,
                 history, bounds>>

(* An error after the rename leaves the row in the journal to the next start. *)
CreationFails ==
  /\ life.pc \in {"activated", "marked", "loaded"} /\ Fault
  /\ life' = NoLife
  /\ journal' \in {journal} \union
       (IF life.pc = "marked" /\ life.scope = "imported"
        THEN {Mine("recovery_required")} ELSE {})
  /\ UNCHANGED <<row, attachment, proj, role, revoked, disk, op, phase, watcher,
                 history, edits, grants, crashes>>

CompleteCreation ==
  /\ life.pc = "loaded"
  /\ journal' = NoJournal /\ life' = NoLife
  /\ UNCHANGED <<row, attachment, proj, role, revoked, disk, op, phase, watcher,
                 history, bounds>>

-------------------------------------------------------------------------------
(* Deletion of a private wiki: its bundle is renamed away before its row goes. *)

Retire ==
  /\ Serving /\ life = NoLife /\ row \in {"personal", "imported"}
  /\ "retired" \notin left
  /\ life' = [NoLife EXCEPT !.pc = "retired", !.bundle = files, !.sound = folder]
  /\ left' = IF folder = "absent" THEN left ELSE left \union {"retired"}
  /\ files' = Empty /\ folder' = "absent" /\ index' = {}
  /\ doomed' = TRUE
  /\ UNCHANGED <<tables, op, phase, watcher, fresh, asked, kept, intruded, edited, bounds>>

DeleteRow ==
  /\ life.pc = "retired"
  /\ DropRow
  /\ life' = [life EXCEPT !.pc = "deleted"]
  /\ UNCHANGED <<disk, op, phase, watcher, history, bounds>>

DeleteRowFails ==
  /\ life.pc = "retired" /\ Fault
  /\ life' = NoLife
  /\ IF "retired" \in left /\ folder = "absent"
     THEN files' = life.bundle /\ folder' = life.sound /\ left' = left \ {"retired"}
     ELSE UNCHANGED <<files, folder, left>>
  /\ UNCHANGED <<tables, index, op, phase, watcher, history, edits, grants, crashes>>

RemoveRetired ==
  /\ life.pc = "deleted"
  /\ life' = NoLife
  /\ \/ left' = left \ {"retired"} /\ UNCHANGED faults
     \/ Fault /\ UNCHANGED left
  /\ UNCHANGED <<tables, files, folder, index, op, phase, watcher, history, edits,
                 grants, crashes>>

-------------------------------------------------------------------------------
(* Project memory: approval of the user, detaching, and the grants             *)

(* approve: the files are materialized, or are there already; the row and the  *)
(* grant follow in one transaction, the watcher and its reconciliation after   *)
(* it.                                                                        *)
AttachProject(a) ==
  /\ Serving /\ op = Free /\ row = "none" /\ life = NoLife
  /\ "project" \in Scopes /\ a \notin revoked
  /\ \E b \in {Empty} \union [Paths -> {Absent, 1}] :
       /\ files' = b
       /\ fresh' = IF b = Empty THEN 0 ELSE 1
       /\ intruded' = (b # Empty)
  /\ folder' = "valid" /\ edited' = TRUE
  /\ row' = "project" /\ attachment' = "invalid"
  /\ role' = [Connected EXCEPT ![a] = "editor"]
  /\ watcher' \in {"event", "failed"}
  /\ UNCHANGED <<proj, journal, revoked, index, left, op, life, phase, asked, kept,
                 doomed, bounds>>

Detach ==
  /\ Serving /\ row = "project"
  /\ DropRow
  /\ watcher' = "off"
  /\ UNCHANGED <<disk, op, life, phase, history, bounds>>

(* Grants and revocations wait for the lock.                                  *)
SetRole(a, r) ==
  /\ Serving /\ op = Free /\ Exists /\ grants < MaxGrants
  /\ role[a] # "owner" /\ r \in {"none", "reader", "editor"} /\ r # role[a]
  /\ r # "none" => a \notin revoked /\ (row = "project" => attachment = "active")
  /\ r = "editor" => row # "imported"
  /\ role' = [role EXCEPT ![a] = r]
  /\ grants' = grants + 1
  /\ UNCHANGED <<row, attachment, proj, journal, revoked, disk, process, history, edits,
                 faults, crashes>>

RevokeAtOnce(a) ==
  /\ Serving /\ grants < MaxGrants
  /\ revoked' = IF a \in revoked THEN revoked \ {a} ELSE revoked \union {a}
  /\ role' = [role EXCEPT ![a] = IF a \notin revoked /\ @ # "owner" THEN "none" ELSE @]
  /\ grants' = grants + 1
  /\ UNCHANGED <<row, attachment, proj, journal, disk, process, history, edits, faults,
                 crashes>>

Revoke(a) ==
  /\ Serving /\ op = Free /\ grants < MaxGrants
  /\ revoked' = IF a \in revoked THEN revoked \ {a} ELSE revoked \union {a}
  /\ role' = [role EXCEPT ![a] = IF a \notin revoked /\ @ # "owner" THEN "none" ELSE @]
  /\ grants' = grants + 1
  /\ UNCHANGED <<row, attachment, proj, journal, disk, process, history, edits, faults,
                 crashes>>

-------------------------------------------------------------------------------
(* The user in the files of the bundle: a page, or the whole folder            *)

Notice == watcher' = IF watcher \in {"quiet", "event"} THEN "event" ELSE watcher

EditBundle ==
  /\ edits < MaxEdits /\ edits' = edits + 1
  /\ \/ \E p \in Paths, b \in 0..fresh :
          /\ folder # "absent" /\ files' = [files EXCEPT ![p] = b]
          /\ UNCHANGED folder
     \/ \E f \in {"valid", "broken", "foreign"} :
          /\ folder # "absent" /\ f # folder /\ folder' = f
          /\ UNCHANGED files
     \/ /\ row = "project" /\ folder # "absent"
        /\ files' = Empty /\ folder' = "absent"
  /\ intruded' = TRUE /\ edited' = TRUE
  /\ Notice
  /\ UNCHANGED <<tables, index, left, op, life, phase, fresh, asked, kept, doomed,
                 grants, faults, crashes>>

-------------------------------------------------------------------------------
(* A change of one concept, under the lock: an application writes or           *)
(* deprecates it, the user keeps the result of a computation or verifies it.   *)

Begin(kind, a, p) ==
  /\ Serving /\ op = Free
  /\ folder # "absent"
  /\ proj[p] # Absent => files[p] = proj[p]
  /\ op' = [Free EXCEPT !.kind = kind, !.pc = "checked", !.app = a, !.path = p,
                        !.prev = proj[p]]
  /\ UNCHANGED <<tables, disk, life, phase, watcher, history, bounds>>

BeginWrite(a, p) == MayWrite(a) /\ Begin("write", a, p)

BeginDeprecate(a, p) == MayWrite(a) /\ proj[p] # Absent /\ Begin("deprecate", a, p)

BeginResult(p) ==
  /\ row = "personal" \/ (row = "project" /\ attachment = "active")
  /\ proj[p] = Absent
  /\ Begin("result", Nobody, p)

BeginVerify(p) ==
  /\ Exists /\ ~Pending /\ proj[p] # Absent
  /\ Begin("verify", Nobody, p)

Changing == op.kind \in {"write", "deprecate", "result", "verify"}
OnDisk == files[op.path]

(* begin_managed_bundle_mutation, after the file was compared once more.      *)
MayJournal ==
  /\ op.kind \in {"write", "result"} => OnDisk = op.prev
  /\ Exists /\ ~Pending /\ proj[op.path] = op.prev

Journal ==
  /\ op.pc = "checked" /\ MayJournal /\ fresh < MaxBytes
  /\ fresh' = fresh + 1
  /\ journal' = [NoJournal EXCEPT !.state = "prepared", !.path = op.path,
                                  !.prev = op.prev, !.repl = fresh + 1]
  /\ asked' = asked \union {[path |-> op.path, prev |-> op.prev, repl |-> fresh + 1]}
  /\ op' = [op EXCEPT !.pc = "journaled", !.repl = fresh + 1]
  /\ UNCHANGED <<row, attachment, proj, role, revoked, disk, life, phase, watcher, kept,
                 intruded, edited, doomed, bounds>>

Refuse ==
  /\ op.pc = "checked" /\ (~MayJournal \/ fresh = MaxBytes)
  /\ Release
  /\ UNCHANGED <<tables, disk, life, phase, watcher, history, bounds>>

(* atomic_write creates the directory again when a deletion took it away.     *)
ReplaceFile ==
  /\ op.pc = "journaled"
  /\ files' = [files EXCEPT ![op.path] = op.repl]
  /\ folder' = IF folder = "absent" THEN "broken" ELSE folder
  /\ Goto("replaced")
  /\ Notice
  /\ UNCHANGED <<tables, index, left, life, phase, history, bounds>>

MarkReplaced ==
  /\ op.pc = "replaced" /\ Pending
  /\ journal' = Mine("file_replaced")
  /\ Goto("marked")
  /\ UNCHANGED <<row, attachment, proj, role, revoked, disk, life, phase, watcher,
                 history, bounds>>

(* A verification projects the page it finds in the validated folder.         *)
Project ==
  /\ op.pc = "marked" /\ Exists
  /\ op.kind = "verify" => folder \in {"valid", "foreign"} /\ OnDisk # Absent
  /\ proj' = [proj EXCEPT ![op.path] = IF op.kind = "verify" THEN OnDisk ELSE op.repl]
  /\ Goto("projected")
  /\ UNCHANGED <<row, attachment, journal, role, revoked, disk, life, phase, watcher,
                 history, bounds>>

WriteIndex ==
  /\ op.pc = "projected"
  /\ index' = IF row = "personal" /\ op.kind # "verify"
              THEN {p \in Paths : proj[p] # Absent} ELSE index
  /\ Goto("indexed")
  /\ UNCHANGED <<tables, files, folder, left, life, phase, watcher, history, bounds>>

Complete ==
  /\ op.pc = "indexed" /\ Pending
  /\ journal' = NoJournal
  /\ Release
  /\ UNCHANGED <<row, attachment, proj, role, revoked, disk, life, phase, watcher,
                 history, bounds>>

(* Any step after the journal row may fail: what was written stays, and the   *)
(* row asks for recovery if that can still be stored.                         *)
Unable ==
  \/ op.pc \in {"replaced", "indexed"} /\ ~Pending
  \/ op.pc = "marked" /\ ~Exists
  \/ op.pc = "marked" /\ op.kind = "verify"
       /\ (folder \notin {"valid", "foreign"} \/ OnDisk = Absent)

ChangeFails ==
  /\ Changing /\ op.pc # "checked"
  /\ (Unable /\ UNCHANGED faults) \/ (~Unable /\ Fault)
  /\ Release
  /\ journal' \in {journal} \union (IF Pending THEN {Mine("recovery_required")} ELSE {})
  /\ UNCHANGED <<row, attachment, proj, role, revoked, disk, life, phase, watcher,
                 history, edits, grants, crashes>>

-------------------------------------------------------------------------------
(* The reconciliation of a project bundle: withhold, inspect, activate         *)

Withheld(state) ==
  /\ attachment' = state
  /\ proj' = Empty
  /\ kept' = IF attachment = "active" THEN proj ELSE kept
  /\ UNCHANGED <<row, journal, role, revoked>>

StartReconcile ==
  /\ op = Free /\ row = "project"
  /\ Withheld("invalid")
  /\ op' = [Free EXCEPT !.kind = "reconcile", !.pc = "withheld"]

(* A watcher event, a watcher that started, an application that opens the     *)
(* project.                                                                   *)
OnChange ==
  /\ Serving /\ watcher = "event"
  /\ StartReconcile
  /\ watcher' = "quiet"
  /\ UNCHANGED <<disk, life, phase, fresh, asked, intruded, edited, doomed, bounds>>

Open(a) ==
  /\ Serving /\ a \notin revoked
  /\ folder # "absent"
  /\ StartReconcile
  /\ UNCHANGED <<disk, life, phase, watcher, fresh, asked, intruded, edited, doomed, bounds>>

Inspect ==
  /\ op.pc = "withheld"
  /\ op' = [op EXCEPT !.pc = "inspected", !.snap = files, !.sound = folder]
  /\ UNCHANGED <<tables, disk, life, phase, watcher, history, bounds>>

ResolveClearingEvents ==
  /\ op.pc = "inspected" /\ row = "project"
  /\ attachment' = IF op.sound = "valid" THEN "active" ELSE "invalid"
  /\ proj' = IF op.sound = "valid" THEN op.snap ELSE Empty
  /\ edited' = IF op.sound = "valid" THEN op.snap # files ELSE edited
  /\ watcher' = IF watcher = "event" THEN "quiet" ELSE watcher
  /\ Release
  /\ UNCHANGED <<row, journal, role, revoked, disk, life, phase, fresh, asked, kept,
                 intruded, doomed, bounds>>

ResolveKeepingTable ==
  /\ op.pc = "inspected" /\ row = "project"
  /\ attachment' = IF op.sound = "valid" THEN "active" ELSE "invalid"
  /\ edited' = IF op.sound = "valid" THEN op.snap # files ELSE edited
  /\ Release
  /\ UNCHANGED <<row, proj, journal, role, revoked, disk, life, phase, watcher, fresh,
                 asked, kept, intruded, doomed, bounds>>

Resolve ==
  /\ op.pc = "inspected" /\ row = "project"
  /\ attachment' = CASE op.sound = "valid" -> "active"
                    [] op.sound = "foreign" -> "identity_conflict"
                    [] op.sound = "broken" -> "invalid"
                    [] op.sound = "absent" -> "missing"
  /\ proj' = IF op.sound = "valid" THEN op.snap ELSE Empty
  /\ edited' = IF op.sound = "valid" THEN op.snap # files ELSE edited
  /\ Release
  /\ UNCHANGED <<row, journal, role, revoked, disk, life, phase, watcher, fresh, asked,
                 kept, intruded, doomed, bounds>>

ReconcileFails ==
  /\ op.kind = "reconcile"
  /\ (row # "project" /\ UNCHANGED faults) \/ (row = "project" /\ Fault)
  /\ Release
  /\ UNCHANGED <<tables, disk, life, phase, watcher, history, edits, grants, crashes>>

WatcherFails ==
  /\ Serving /\ watcher \in {"quiet", "event"} /\ Fault
  /\ watcher' = "failed"
  /\ UNCHANGED <<tables, disk, op, life, phase, history, edits, grants, crashes>>

WithholdUnwatched ==
  /\ Serving /\ op = Free /\ row = "project" /\ watcher = "failed"
  /\ Withheld("invalid")
  /\ watcher' = "off"
  /\ UNCHANGED <<disk, op, life, phase, fresh, asked, intruded, edited, doomed, bounds>>

(* The retry of the worker, and the start of the watchers.                    *)
EnsureWatcher ==
  /\ Serving /\ row = "project" /\ watcher = "off"
  /\ watcher' = "event"
  /\ UNCHANGED <<tables, disk, op, life, phase, history, bounds>>

-------------------------------------------------------------------------------
(* Crash, and the start of the process: retired directories, journal, project  *)
(* bundles, then service.                                                     *)

Crash ==
  /\ crashes < MaxCrashes /\ crashes' = crashes + 1
  /\ op' = Free /\ life' = NoLife /\ phase' = "starting" /\ watcher' = "off"
  /\ UNCHANGED <<tables, disk, history, edits, grants, faults>>

RemoveLeftovers ==
  /\ phase = "starting"
  /\ phase' = "recovering"
  /\ \/ left' = left \ {"retired"} /\ UNCHANGED faults
     \/ "retired" \in left /\ Fault /\ UNCHANGED left
  /\ UNCHANGED <<tables, files, folder, index, op, life, watcher, history, edits, grants,
                 crashes>>

Recovering == phase = "recovering" /\ op = Free
Recovered == phase' = "reconciling"

NothingPending ==
  /\ Recovering /\ ~Pending /\ Recovered
  /\ UNCHANGED <<tables, disk, op, life, watcher, history, bounds>>

(* A creation that never renamed its directory is undone; a failure of that   *)
(* ends the start.                                                            *)
NeverActivated ==
  journal.state = "prepared" /\ journal.path = Root /\ folder = "absent"

UndoCreation ==
  /\ Recovering /\ NeverActivated
  /\ left' = left \ {"staging"}
  /\ DropRow /\ Recovered
  /\ UNCHANGED <<files, folder, index, op, life, watcher, history, bounds>>

Sound == folder \in {"valid", "foreign"}

(* The bundle must be what the journal says; index.md is part of it.          *)
CreationIsWhole == Sound /\ files = journal.bundle
FinishCreation ==
  /\ Recovering /\ Pending /\ journal.path = Root /\ CreationIsWhole
  /\ proj' = files
  /\ journal' = NoJournal
  /\ Recovered
  /\ UNCHANGED <<row, attachment, role, revoked, disk, op, life, watcher, history, bounds>>

Stored == files[journal.path]
Projected == proj[journal.path]

NeverProjected ==
  /\ Pending /\ journal.path # Root /\ journal.state # "file_replaced"
  /\ folder # "absent" /\ Projected = journal.prev

NeverReplaced ==
  /\ Pending /\ journal.path # Root /\ journal.state # "file_replaced"
  /\ folder # "absent" /\ Stored = journal.prev /\ Projected = journal.prev

ForgetChange ==
  /\ Recovering /\ NeverReplaced
  /\ journal' = NoJournal /\ Recovered
  /\ UNCHANGED <<row, attachment, proj, role, revoked, disk, op, life, watcher, history,
                 bounds>>

ChangeIsUnprojected ==
  /\ Pending /\ journal.path # Root /\ Sound
  /\ Stored = journal.repl /\ Projected = journal.prev

ChangeIsWhole ==
  /\ Pending /\ journal.path # Root /\ Sound
  /\ Stored = journal.repl /\ Projected \in {journal.prev, journal.repl}

ReplayChange ==
  /\ Recovering /\ ChangeIsWhole /\ ~NeverReplaced
  /\ proj' = [proj EXCEPT ![journal.path] = journal.repl]
  /\ op' = [Free EXCEPT !.kind = "recover", !.pc = "replayed"]
  /\ UNCHANGED <<row, attachment, journal, role, revoked, disk, life, phase, watcher,
                 history, bounds>>

ReplayWithoutIndex ==
  /\ op.pc = "replayed"
  /\ Goto("reindexed")
  /\ UNCHANGED <<tables, disk, life, phase, watcher, history, bounds>>

ReplayIndex ==
  /\ op.pc = "replayed"
  /\ index' = IF row = "personal" THEN {p \in Paths : proj[p] # Absent} ELSE index
  /\ Goto("reindexed")
  /\ UNCHANGED <<tables, files, folder, left, life, phase, watcher, history, bounds>>

FinishReplay ==
  /\ op.pc = "reindexed"
  /\ journal' = NoJournal
  /\ Release /\ Recovered
  /\ UNCHANGED <<row, attachment, proj, role, revoked, disk, life, watcher, history,
                 bounds>>

CannotRecover ==
  /\ Pending /\ ~NeverActivated
  /\ IF journal.path = Root THEN ~CreationIsWhole ELSE ~NeverReplaced /\ ~ChangeIsWhole

RecoveryFails ==
  /\ phase = "recovering" /\ Pending /\ ~NeverActivated
  /\ \/ op = Free /\ CannotRecover /\ UNCHANGED faults
     \/ ~(op = Free /\ CannotRecover) /\ Fault
  /\ journal' = Mine("recovery_required")
  /\ Release /\ Recovered
  /\ UNCHANGED <<row, attachment, proj, role, revoked, disk, life, watcher, history, edits,
                 grants, crashes>>

(* reconcile_all, then withhold_active_until_watchers_start.                  *)
StartupReconcile ==
  /\ phase = "reconciling" /\ StartReconcile
  /\ phase' = "withholding"
  /\ UNCHANGED <<disk, life, watcher, fresh, asked, intruded, edited, doomed, bounds>>

NoProject ==
  /\ phase = "reconciling" /\ row # "project"
  /\ phase' = "serving"
  /\ UNCHANGED <<tables, disk, op, life, watcher, history, bounds>>

WithholdUntilWatched ==
  /\ phase = "withholding" /\ op = Free
  /\ IF attachment = "active" THEN Withheld("invalid")
     ELSE UNCHANGED <<row, attachment, proj, journal, role, revoked, kept>>
  /\ watcher' \in {"event", "failed"}
  /\ phase' = "serving"
  /\ UNCHANGED <<disk, op, life, fresh, asked, intruded, edited, doomed, bounds>>

-------------------------------------------------------------------------------
Create ==
  \/ \E scope \in Scopes : Stage(scope)
  \/ \E a \in Apps : Register(a)
  \/ RegisterRefused \/ Activate \/ ActivateFails \/ MarkActivated \/ OverQuota
  \/ LoadImported \/ CreationFails \/ CompleteCreation

Delete == Retire \/ DeleteRow \/ DeleteRowFails \/ RemoveRetired \/ Detach

Access ==
  \/ \E a \in Apps : AttachProject(a) \/ Revoke(a) \/ Open(a)
  \/ \E a \in Apps, r \in {"none", "reader", "editor"} : SetRole(a, r)

ChangeStep ==
  Journal \/ Refuse \/ ReplaceFile \/ MarkReplaced \/ Project \/ WriteIndex \/ Complete

Change ==
  \/ \E p \in Paths, a \in Apps : BeginWrite(a, p) \/ BeginDeprecate(a, p)
  \/ \E p \in Paths : BeginResult(p) \/ BeginVerify(p)
  \/ ChangeStep \/ ChangeFails

Watch == OnChange \/ Inspect \/ Resolve \/ WithholdUnwatched \/ EnsureWatcher

Start ==
  \/ RemoveLeftovers \/ NothingPending \/ UndoCreation \/ FinishCreation \/ ForgetChange
  \/ ReplayChange \/ ReplayIndex \/ FinishReplay \/ StartupReconcile \/ NoProject
  \/ WithholdUntilWatched

Next ==
  \/ Create \/ Delete \/ Access \/ Change \/ Watch \/ Start
  \/ RecoveryFails \/ ReconcileFails \/ WatcherFails \/ EditBundle \/ Crash

Spec == Init /\ [][Next]_bundleVars

(* The operation that holds the lock runs on, a start completes, and the       *)
(* worker consumes watcher events and retries watchers.                       *)
FairSpec ==
  /\ Spec
  /\ WF_bundleVars(ChangeStep \/ ChangeFails) /\ WF_bundleVars(Inspect \/ Resolve)
  /\ WF_bundleVars(ReconcileFails) /\ WF_bundleVars(Start \/ RecoveryFails)
  /\ SF_bundleVars(OnChange) /\ SF_bundleVars(WithholdUnwatched)
  /\ WF_bundleVars(EnsureWatcher)

-------------------------------------------------------------------------------
(* The rows, the journal and the operation that holds the lock have the        *)
(* shapes of the schema, and a start takes no lock.  (storage.rs, memory.rs)   *)
BundleTypeOK ==
  /\ row \in {"none", "personal", "imported", "project", "gone"}
  /\ attachment \in {"none", "active", "invalid", "missing", "identity_conflict"}
  /\ (attachment # "none") = (row = "project")
  /\ proj \in [Paths -> Bytes \union {Absent}] /\ files \in [Paths -> Bytes \union {Absent}]
  /\ journal.state \in {"none", "prepared", "file_replaced", "recovery_required"}
  /\ journal.path \in Paths \union {Root}
  /\ Pending => Exists
  /\ role \in [Apps -> {"none", "reader", "editor", "owner"}]
  /\ op.pc \in {"checked", "journaled", "replaced", "marked", "projected", "indexed"}
       => Changing /\ Serving
  /\ op.kind = "reconcile" => phase \in {"serving", "withholding"}

(* A search or a page serves only versions that are in the files of the        *)
(* bundle, whatever crashed or failed before, until the user changes them or   *)
(* deletes the wiki.  (memory.rs recover_pending, project_memory.rs reconcile)            *)
ServedConceptsAreOnDisk ==
  Serving /\ Served /\ ~edited /\ ~doomed => proj = files

(* Once no change is pending, index.md of a personal memory lists exactly its  *)
(* concepts.  (memory.rs write_attributed, recover_managed_concept_mutation)   *)
IndexListsConcepts ==
  row = "personal" /\ ~Pending /\ op = Free /\ ~intruded /\ ~doomed =>
    index = {p \in Paths : proj[p] # Absent}

(* The file of a concept is replaced for an application only while it may      *)
(* write the wiki: grants, revocations and reconciliations wait for the lock.  *)
(* (memory.rs write_attributed, storage.rs managed_bundle_guard)               *)
WritesAreAuthorized ==
  [][op.kind \in {"write", "deprecate"} /\ op.pc = "journaled" /\ files' # files
       /\ op'.pc = "replaced" => MayWrite(op.app) \/ row = "gone"]_bundleVars

(* A start resolves every change the program itself left half done; only       *)
(* bytes of the user, a failure of that start, a deletion that took the        *)
(* bundle or a project whose table is withheld keep it pending.  (memory.rs    *)
(* recover_pending)                                                           *)
StartResolvesOwnChanges ==
  [][phase = "recovering" /\ phase' = "reconciling" /\ journal'.state # "none"
       => \/ intruded \/ faults' # faults \/ doomed
          \/ row = "project" /\ attachment # "active"]_bundleVars

(* What an application wrote replaces exactly the version it was made from.    *)
(* (memory.rs FingerprintConflict, storage.rs begin_managed_bundle_mutation)   *)
ShownConcepts == IF row = "project" /\ attachment # "active" THEN kept ELSE proj
Cas == INSTANCE CasMemory WITH memory <- ShownConcepts, outside <- intruded,
                                gone <- (row = "gone")
ImplementsCasMemory == Cas!MemorySpec

(* After the user stops changing a project folder, the memory converges: it    *)
(* serves the files if they are sound and nothing otherwise, unless an         *)
(* operation failed.  (worker.rs watcher events, project_memory.rs reconcile)  *)
ProjectConverges ==
  <>[](Serving /\ row = "project" /\ op = Free /\ faults = 0 =>
         IF folder = "valid" THEN attachment = "active" /\ proj = files
         ELSE attachment # "active")
================================================================================
