-------------------------- MODULE ManagedBundle_proofs --------------------------
(***************************************************************************)
(* A managed bundle serves what its files hold and implements CasMemory,   *)
(* for every set of applications and of concepts and every number of       *)
(* edits, faults and crashes.  First the invariant, then one lemma for     *)
(* each action, then the refinement, then the theorems.                    *)
(***************************************************************************)
EXTENDS ManagedBundle, TLAPS

(* The types of the tables, the journal, the pending operation and the life of *)
(* the wiki.                                                                  *)
Folders == {"absent", "valid", "broken", "foreign"}
Seen == 0..fresh
Concepts == [Paths -> Seen]
ChangeKinds == {"write", "deprecate", "result", "verify"}
ChangeSteps == {"checked", "journaled", "replaced", "marked", "projected", "indexed"}
JournalStates == {"none", "prepared", "file_replaced", "recovery_required"}
Journals ==
  [state : JournalStates,
   path : Paths \union {Root}, prev : Seen, repl : Seen, bundle : Concepts]
Steps == ChangeSteps \union {"free", "withheld", "inspected", "replayed", "reindexed"}
Operations ==
  [kind : ChangeKinds \union {"free", "reconcile", "recover"}, pc : Steps,
   app : Apps \union {Nobody}, path : Paths \union {Root}, prev : Seen, repl : Seen,
   snap : Concepts, sound : Folders]
LifeSteps ==
  {"idle", "staged", "registered", "activated", "marked", "loaded", "retired", "deleted"}
Lives ==
  [pc : LifeSteps, scope : {"none", "personal", "imported"},
   bundle : Concepts, sound : Folders]

Typed ==
  /\ row \in {"none", "personal", "imported", "project", "gone"}
  /\ attachment \in {"none", "active", "invalid", "missing", "identity_conflict"}
  /\ phase \in {"starting", "recovering", "reconciling", "withholding", "serving"}
  /\ fresh \in 0..MaxBytes
  /\ proj \in Concepts /\ files \in Concepts /\ kept \in Concepts
  /\ folder \in Folders /\ index \subseteq Paths
  /\ journal \in Journals /\ op \in Operations /\ life \in Lives
  /\ role \in [Apps -> {"none", "reader", "editor", "owner"}]
  /\ intruded \in BOOLEAN /\ edited \in BOOLEAN /\ doomed \in BOOLEAN /\ faults \in Nat

(* What is idle is empty, every step belongs to its operation, and an operation *)
(* to a phase.                                                                *)
OperationsFit ==
  /\ op.pc = "free" => op = Free
  /\ op.pc \in ChangeSteps =>
       op.kind \in ChangeKinds /\ phase = "serving" /\ op.path \in Paths
  /\ op.pc \in {"withheld", "inspected"} =>
       op.kind = "reconcile" /\ phase \in {"withholding", "serving"}
  /\ op.pc \in {"replayed", "reindexed"} => op.kind = "recover" /\ phase = "recovering"
  /\ op.kind \in {"write", "deprecate"} => op.app \in Apps
  /\ op.kind = "verify" => op.prev # Absent

RowsFit ==
  /\ (attachment # "none") = (row = "project")
  /\ Pending => Exists
  /\ row = "none" =>
       /\ proj = Empty /\ journal = NoJournal /\ files = Empty /\ folder = "absent"
       /\ index = {} /\ op.pc = "free" /\ asked = {} /\ kept = Empty
       /\ intruded = FALSE /\ edited = FALSE /\ doomed = FALSE
  /\ row \in {"personal", "imported"} => edited = intruded
  /\ row = "project" /\ attachment # "active" /\ phase \in {"withholding", "serving"}
       => proj = Empty
  /\ row = "project" /\ attachment = "active" /\ ~intruded => ~edited
  /\ row = "project" => ~doomed
  /\ op.kind = "reconcile" => row = "gone" \/ (row = "project" /\ attachment # "active")

Created == {"registered", "activated", "marked", "loaded"}
LivesFit ==
  /\ life.pc # "idle" => phase = "serving"
  /\ life.pc = "staged" => row = "none"
  /\ life.pc \in Created =>
       /\ row \in {"personal", "imported"} /\ row = life.scope
       /\ Pending /\ journal.path = Root /\ journal.bundle = life.bundle /\ ~doomed
  /\ life.pc \in Created \ {"loaded"} => proj = Empty
  /\ life.pc = "loaded" => proj = life.bundle
  /\ life.pc = "registered" => folder = "absent" /\ journal.state = "prepared"
  /\ life.pc \in Created \ {"registered"} => folder # "absent"
  /\ life.pc \in Created \union {"staged"} => life.scope # "none"
  /\ life.scope = "personal" => life.bundle = Empty
  /\ life.pc = "retired" => row \in {"personal", "imported"} /\ doomed
  /\ life.pc = "deleted" => row = "gone"

(* A wiki whose creation is not complete.                                     *)
Unborn == Pending /\ journal.path = Root
CreationFits ==
  Unborn =>
    /\ asked = {} /\ row \in {"personal", "imported"}
    /\ proj \in {Empty, journal.bundle} /\ op.pc \in {"free", "checked"}
    /\ row = "personal" => journal.bundle = Empty
    /\ ~doomed => index = {}
    /\ ~intruded /\ ~doomed =>
         IF folder = "absent" THEN journal.state = "prepared"
                              ELSE folder = "valid" /\ files = journal.bundle

Done == [path |-> journal.path, prev |-> journal.prev, repl |-> journal.repl]
Half == Pending /\ journal.path # Root
Mutation == [path |-> op.path, prev |-> op.prev, repl |-> op.repl]
Journaled == op.pc \in ChangeSteps \ {"checked"}

ChangeFits ==
  /\ Half => Done \in asked /\ journal.prev < journal.repl
  /\ op.pc \in ChangeSteps /\ row = "project" => attachment = "active"
  /\ op.pc \in ChangeSteps => row # "none"
  /\ op.pc \in {"checked", "journaled"} /\ op.kind \in {"write", "deprecate"}
       => MayWrite(op.app) \/ row = "gone"
  /\ Journaled => Mutation \in asked /\ op.prev < op.repl
  /\ Journaled /\ row # "gone" =>
       /\ Pending /\ Done = Mutation
       /\ op.pc \in {"journaled", "replaced"} => journal.state = "prepared"
       /\ op.pc \in {"journaled", "replaced", "marked"} => proj[op.path] = op.prev
       /\ op.pc \in {"projected", "indexed"} => proj[op.path] # Absent
       /\ op.pc \in {"projected", "indexed"} /\ op.kind # "verify"
            => proj[op.path] = op.repl
  /\ op.kind = "recover" => Half /\ proj[journal.path] = journal.repl

(* What is served and what the files hold, unless the user or a deletion has   *)
(* changed them since.                                                        *)
Faithful == Exists /\ ~edited /\ ~doomed /\ (row = "project" => attachment = "active")
FilesFit ==
  Faithful =>
    /\ ~Pending => proj = files
    /\ Half => \A p \in Paths \ {journal.path} : proj[p] = files[p]
    /\ op.pc = "journaled" => proj = files
    /\ op.pc \in {"replaced", "marked"} => files[op.path] = op.repl
    /\ op.pc \in {"projected", "indexed"} => proj = files
    /\ op.kind = "recover" => proj = files

(* A half done change the next start can complete.                            *)
Untouched == Exists /\ ~intruded /\ ~doomed
RecoveryFits ==
  /\ Untouched /\ ~Unborn => folder = "valid"
  /\ Untouched /\ Half =>
       /\ files[journal.path] \in {journal.prev, journal.repl}
       /\ journal.state = "file_replaced" => files[journal.path] = journal.repl
       /\ (row = "project" => attachment = "active") =>
            /\ proj[journal.path] \in {journal.prev, journal.repl}
            /\ files[journal.path] = journal.prev => proj[journal.path] = journal.prev

Listed == {p \in Paths : proj[p] # Absent}
IndexFits ==
  row = "personal" /\ ~intruded /\ ~doomed =>
    /\ ~Pending => index = Listed
    /\ Half /\ (\/ proj[journal.path] = journal.prev \/ op.kind = "verify"
                \/ op.pc \in {"indexed", "reindexed"}) => index = Listed

(* A deletion that fails puts the verified bytes back.                        *)
Here == {"valid", "foreign"}
VerifiedFits ==
  op.pc \in {"replaced", "marked"} /\ ~intruded =>
    /\ folder \in Here => files[op.path] = op.repl
    /\ life.pc = "retired" /\ folder = "absent" /\ life.sound \in Here
         => life.bundle[op.path] = op.repl

(* A project folder the user never touched holds the memory, or one change    *)
(* more than it.                                                              *)
Follows(m) ==
  \/ files = m
  \/ \E w \in asked : m[w.path] = w.prev /\ files = [m EXCEPT ![w.path] = w.repl]
ProjectFits ==
  row = "project" /\ ~intruded =>
    /\ Follows(ShownConcepts)
    /\ op.pc = "inspected" => op.snap = files /\ op.sound = folder

BundleInv ==
  /\ Typed /\ OperationsFit /\ RowsFit /\ LivesFit /\ CreationFits /\ ChangeFits
  /\ FilesFit /\ RecoveryFits /\ IndexFits /\ VerifiedFits /\ ProjectFits

(* What the properties and the actions are stated with is unfolded throughout. *)
USE DEF tables, disk, process, history, bounds, Absent, Root, Nobody, Empty, Serving,
   Pending, Exists, Release, Goto, Fault, Mine, Recovering, Recovered, Half, Unborn, Done,
   Mutation, Journaled, Created, Faithful, Untouched, Listed, Here, ChangeKinds,
   ChangeSteps, Changing, OnDisk, NoJournal, Free, NoLife

(* While no version is created, the types of the tables do not change.        *)
LEMMA VersionsStay ==
  ASSUME fresh' = fresh
  PROVE  /\ Seen' = Seen /\ Concepts' = Concepts /\ Journals' = Journals
         /\ Operations' = Operations /\ Lives' = Lives
BY DEF Seen, Concepts, Journals, Operations, Lives, Steps, Folders, LifeSteps, JournalStates

(* A new version only adds to them.                                           *)
LEMMA VersionsGrow ==
  ASSUME fresh \in Nat, fresh' = fresh + 1
  PROVE  /\ Seen \subseteq Seen' /\ Concepts \subseteq Concepts'
         /\ Journals \subseteq Journals'
         /\ Operations \subseteq Operations' /\ Lives \subseteq Lives'
<1>1. Seen \subseteq Seen'
  BY DEF Seen
<1>2. Concepts \subseteq Concepts'
  BY <1>1 DEF Concepts
<1>3. Journals \subseteq Journals'
  BY <1>1, <1>2 DEF Journals, JournalStates
<1>4. Operations \subseteq Operations'
  BY <1>1, <1>2 DEF Operations, Steps, Folders
<1>5. Lives \subseteq Lives'
  BY <1>1, <1>2 DEF Lives, LifeSteps, Folders
<1> QED
  BY <1>1, <1>2, <1>3, <1>4, <1>5

(* The empty tables are typed whatever versions exist.                        *)
LEMMA NothingTyped ==
  ASSUME fresh \in Nat
  PROVE  /\ Absent \in Seen /\ Empty \in Concepts /\ NoJournal \in Journals
         /\ Free \in Operations /\ NoLife \in Lives
<1>1. Absent \in Seen /\ Empty \in Concepts
  BY DEF Seen, Concepts
<1>2. NoJournal \in Journals
  BY <1>1 DEF Journals, JournalStates
<1>3. Free \in Operations
  BY <1>1 DEF Operations, Steps, Folders
<1>4. NoLife \in Lives
  BY <1>1 DEF Lives, LifeSteps, Folders
<1> QED
  BY <1>1, <1>2, <1>3, <1>4

(* The updates of one field, which the actions below are made of.             *)
LEMMA ConceptSet ==
  ASSUME NEW c \in Concepts, NEW p \in Paths, NEW v \in Seen
  PROVE  [c EXCEPT ![p] = v] \in Concepts
BY DEF Concepts

(* The state of the journal moves within its type.                            *)
LEMMA JournalSet ==
  ASSUME NEW j \in Journals, NEW state \in JournalStates
  PROVE  [j EXCEPT !.state = state] \in Journals
BY DEF Journals

(* So does the step of the operation.                                         *)
LEMMA OperationSet ==
  ASSUME NEW o \in Operations, NEW pc \in Steps
  PROVE  [o EXCEPT !.pc = pc] \in Operations
BY DEF Operations

(* And that of the life of the wiki.                                          *)
LEMMA LifeSet ==
  ASSUME NEW l \in Lives, NEW pc \in LifeSteps
  PROVE  [l EXCEPT !.pc = pc] \in Lives
BY DEF Lives

(* Versions are naturals.                                                     *)
LEMMA FreshTyped ==
  ASSUME Typed
  PROVE  fresh \in Nat
BY BoundAssumption DEF Typed

(* Every action keeps the invariant.  Creation: a staged directory is         *)
(* nothing yet.                                                               *)
LEMMA StageStep ==
  ASSUME BundleInv, NEW scope \in Scopes, Stage(scope)
  PROVE  BundleInv'
<1>1. PICK b : /\ b \in [Paths -> {Absent, 1}]
               /\ life' = [NoLife EXCEPT !.pc = "staged", !.scope = scope, !.bundle = b]
               /\ scope = "personal" => b = Empty
               /\ fresh' = IF b = Empty THEN 0 ELSE 1
  <2>1. Empty \in [Paths -> {Absent, 1}]
    OBVIOUS
  <2> QED
    BY <2>1 DEF Stage
<1>2. fresh' \in 0..MaxBytes /\ fresh' \in Nat /\ b \in Concepts' /\ Absent \in Seen'
  BY <1>1, BoundAssumption DEF Concepts, Seen
<1>3. scope \in {"personal", "imported"} /\ row = "none" /\ row' = "none"
  BY ScopeAssumption DEF Stage
<1>4. life' \in Lives'
  BY <1>1, <1>2, <1>3 DEF Lives, LifeSteps, Folders
<1>5. Empty \in Concepts' /\ NoJournal \in Journals'
  BY <1>2 DEF Concepts, Seen, Journals, JournalStates
<1>6. op' \in Operations'
  BY <1>2, <1>3, <1>5 DEF BundleInv, RowsFit, OperationsFit, Operations, Steps, Folders,
     Stage
<1>7. Typed'
  BY <1>2, <1>3, <1>4, <1>5, <1>6 DEF BundleInv, RowsFit, Typed, Stage
<1>8. /\ OperationsFit' /\ RowsFit' /\ LivesFit' /\ CreationFits' /\ ChangeFits'
      /\ FilesFit' /\ RecoveryFits' /\ IndexFits' /\ VerifiedFits' /\ ProjectFits'
  BY <1>1, <1>3 DEF BundleInv, OperationsFit, RowsFit, LivesFit, CreationFits, ChangeFits,
     FilesFit, RecoveryFits, IndexFits, VerifiedFits, ProjectFits, MayWrite, Follows,
     ShownConcepts, Stage
<1> QED
  BY <1>7, <1>8 DEF BundleInv

(* The row, its journal and its owner are inserted together.                  *)
LEMMA RegisterStep ==
  ASSUME BundleInv, NEW a \in Apps, Register(a)
  PROVE  BundleInv'
<1>1. life.scope \in {"personal", "imported"}
  BY DEF BundleInv, LivesFit, Typed, Lives, Register, Connected
<1>2. life' \in Lives
  BY LifeSet DEF BundleInv, Typed, LifeSteps, Register, Connected
<1>3. journal' \in Journals
  BY FreshTyped, NothingTyped DEF BundleInv, Typed, Journals, JournalStates, Lives,
     Concepts, Register, Connected
<1>4. role' \in [Apps -> {"none", "reader", "editor", "owner"}]
  BY DEF BundleInv, Typed, Register, Connected
<1>5. Typed'
  BY <1>1, <1>2, <1>3, <1>4, FreshTyped, VersionsStay, NothingTyped DEF BundleInv, Typed,
     Register, Connected
<1>6. OperationsFit' /\ RecoveryFits' /\ IndexFits' /\ VerifiedFits'
  BY <1>1, <1>2, <1>3, <1>4 DEF BundleInv, OperationsFit, RecoveryFits, IndexFits,
     VerifiedFits, Register, Connected
<1>7. RowsFit'
  BY <1>1, <1>2, <1>3, <1>4, PathAssumption DEF BundleInv, RowsFit, OperationsFit, LivesFit,
     Register, Connected
<1>8. LivesFit'
  BY <1>1, <1>2, <1>3, <1>4 DEF BundleInv, LivesFit, RowsFit, Register, Connected
<1>9. ChangeFits'
  BY <1>1, <1>2, <1>3, <1>4 DEF BundleInv, ChangeFits, RowsFit, LivesFit, Register,
     Connected
<1>10. FilesFit'
  BY <1>1, <1>2, <1>3, <1>4 DEF BundleInv, FilesFit, RowsFit, LivesFit, Register, Connected
<1>11. CreationFits'
  BY <1>1, <1>2, <1>3, <1>4 DEF BundleInv, CreationFits, RowsFit, LivesFit, Register,
     Connected
<1>12. ProjectFits'
  BY <1>1, <1>2, <1>3, <1>4 DEF BundleInv, ProjectFits, Register, Connected
<1> QED
  BY <1>5, <1>6, <1>7, <1>8, <1>9, <1>10, <1>11, <1>12 DEF BundleInv

(* A grant that vanished leaves nothing behind.                               *)
LEMMA RegisterRefusedStep ==
  ASSUME BundleInv, RegisterRefused
  PROVE  BundleInv'
<1>1. Typed'
  BY FreshTyped, VersionsStay, NothingTyped DEF BundleInv, Typed, RegisterRefused
<1>2. /\ OperationsFit' /\ RowsFit' /\ LivesFit' /\ CreationFits' /\ ChangeFits'
      /\ FilesFit' /\ RecoveryFits' /\ IndexFits' /\ VerifiedFits' /\ ProjectFits'
  BY DEF BundleInv, OperationsFit, RowsFit, LivesFit, CreationFits, ChangeFits, FilesFit,
     RecoveryFits, IndexFits, VerifiedFits, ProjectFits, MayWrite, Follows, ShownConcepts,
     RegisterRefused
<1> QED
  BY <1>1, <1>2 DEF BundleInv

(* The directory is renamed into place, whole.                                *)
LEMMA ActivateStep ==
  ASSUME BundleInv, Activate
  PROVE  BundleInv'
<1>1. life.bundle \in Concepts
  BY DEF BundleInv, Typed, Lives, Activate
<1>2. life' \in Lives
  BY LifeSet DEF BundleInv, Typed, LifeSteps, Activate
<1>3. Typed'
  BY <1>1, <1>2, FreshTyped, VersionsStay, NothingTyped DEF BundleInv, Typed, Folders,
     Activate
<1>4. OperationsFit' /\ LivesFit' /\ ChangeFits'
  BY <1>1 DEF BundleInv, OperationsFit, LivesFit, ChangeFits, MayWrite, Activate
<1>5. RowsFit'
  BY <1>1 DEF BundleInv, RowsFit, LivesFit, Activate
<1>6. CreationFits'
  BY <1>1 DEF BundleInv, CreationFits, LivesFit, Activate
<1>7. RecoveryFits'
  BY <1>1 DEF BundleInv, RecoveryFits, LivesFit, Activate
<1>8. IndexFits'
  BY <1>1 DEF BundleInv, IndexFits, LivesFit, Activate
<1>9. FilesFit'
  BY <1>1 DEF BundleInv, FilesFit, LivesFit, CreationFits, ChangeFits, Activate
<1>10. VerifiedFits'
  BY <1>1 DEF BundleInv, VerifiedFits, LivesFit, CreationFits, Activate
<1>11. ProjectFits'
  BY <1>1 DEF BundleInv, ProjectFits, LivesFit, Activate
<1> QED
  BY <1>3, <1>4, <1>5, <1>6, <1>7, <1>8, <1>9, <1>10, <1>11 DEF BundleInv

(* A rename that fails withdraws the row.                                     *)
LEMMA ActivateFailsStep ==
  ASSUME BundleInv, ActivateFails
  PROVE  BundleInv'
<1>1. Typed'
  BY FreshTyped, VersionsStay, NothingTyped DEF BundleInv, Typed, ActivateFails, DropRow
<1>2. /\ OperationsFit' /\ RowsFit' /\ LivesFit' /\ CreationFits' /\ FilesFit'
      /\ RecoveryFits' /\ IndexFits' /\ VerifiedFits' /\ ProjectFits'
  BY DEF BundleInv, OperationsFit, RowsFit, LivesFit, CreationFits, FilesFit, RecoveryFits,
     IndexFits, VerifiedFits, ProjectFits, Follows, ShownConcepts, ActivateFails, DropRow
<1>3. ChangeFits'
  BY DEF BundleInv, ChangeFits, LivesFit, ActivateFails, DropRow
<1> QED
  BY <1>1, <1>2, <1>3 DEF BundleInv

(* The journal says the directory is there.                                   *)
LEMMA MarkActivatedStep ==
  ASSUME BundleInv, MarkActivated
  PROVE  BundleInv'
<1>1. journal' \in Journals
  BY JournalSet DEF BundleInv, Typed, JournalStates, MarkActivated
<1>2. life' \in Lives
  BY LifeSet DEF BundleInv, Typed, LifeSteps, MarkActivated
<1>3. Typed'
  BY <1>1, <1>2, FreshTyped, VersionsStay, NothingTyped DEF BundleInv, Typed, MarkActivated
<1>4. /\ OperationsFit' /\ LivesFit' /\ FilesFit' /\ IndexFits' /\ VerifiedFits'
      /\ ProjectFits'
  BY DEF BundleInv, OperationsFit, LivesFit, FilesFit, IndexFits, VerifiedFits, ProjectFits,
     Follows, ShownConcepts, MarkActivated
<1>5. RowsFit'
  BY DEF BundleInv, RowsFit, LivesFit, MarkActivated
<1>6. CreationFits'
  BY DEF BundleInv, CreationFits, LivesFit, MarkActivated
<1>7. ChangeFits'
  BY PathAssumption DEF BundleInv, ChangeFits, OperationsFit, LivesFit, MayWrite,
     MarkActivated
<1>8. RecoveryFits'
  BY DEF BundleInv, RecoveryFits, LivesFit, MarkActivated
<1> QED
  BY <1>3, <1>4, <1>5, <1>6, <1>7, <1>8 DEF BundleInv

(* An import beyond the quota is undone.                                      *)
LEMMA OverQuotaStep ==
  ASSUME BundleInv, OverQuota
  PROVE  BundleInv'
<1>1. Typed'
  BY FreshTyped, VersionsStay, NothingTyped DEF BundleInv, Typed, Folders, OverQuota,
     DropRow
<1>2. /\ OperationsFit' /\ RowsFit' /\ LivesFit' /\ CreationFits' /\ FilesFit'
      /\ RecoveryFits' /\ IndexFits' /\ VerifiedFits' /\ ProjectFits'
  BY DEF BundleInv, OperationsFit, RowsFit, LivesFit, CreationFits, FilesFit, RecoveryFits,
     IndexFits, VerifiedFits, ProjectFits, Follows, ShownConcepts, OverQuota, DropRow
<1>3. ChangeFits'
  BY DEF BundleInv, ChangeFits, LivesFit, OverQuota, DropRow
<1> QED
  BY <1>1, <1>2, <1>3 DEF BundleInv

(* The imported concepts are served from here on.                             *)
LEMMA LoadImportedStep ==
  ASSUME BundleInv, LoadImported
  PROVE  BundleInv'
<1>1. life' \in Lives
  BY LifeSet DEF BundleInv, Typed, LifeSteps, LoadImported
<1>2. proj' \in Concepts
  BY ConceptSet, NothingTyped, FreshTyped DEF BundleInv, Typed, OperationsFit, Operations,
     Journals, Lives, LoadImported
<1>3. Typed'
  BY <1>1, <1>2, FreshTyped, VersionsStay, NothingTyped DEF BundleInv, Typed, LoadImported
<1>4. OperationsFit' /\ LivesFit' /\ VerifiedFits'
  BY DEF BundleInv, OperationsFit, LivesFit, VerifiedFits, LoadImported
<1>5. RowsFit'
  BY DEF BundleInv, RowsFit, LivesFit, LoadImported
<1>6. CreationFits'
  BY DEF BundleInv, CreationFits, LivesFit, LoadImported
<1>7. ChangeFits'
  BY PathAssumption DEF BundleInv, ChangeFits, OperationsFit, LivesFit, MayWrite,
     LoadImported
<1>8. RecoveryFits'
  BY DEF BundleInv, RecoveryFits, LivesFit, LoadImported
<1>9. IndexFits'
  BY DEF BundleInv, IndexFits, LivesFit, LoadImported
<1>10. FilesFit'
  BY DEF BundleInv, FilesFit, LivesFit, CreationFits, ChangeFits, LoadImported
<1>11. ProjectFits'
  BY DEF BundleInv, ProjectFits, LivesFit, LoadImported
<1> QED
  BY <1>3, <1>4, <1>5, <1>6, <1>7, <1>8, <1>9, <1>10, <1>11 DEF BundleInv

(* A creation that cannot go on is left to the next start.                    *)
LEMMA CreationFailsStep ==
  ASSUME BundleInv, CreationFails
  PROVE  BundleInv'
<1>1. journal' \in Journals
  BY JournalSet DEF BundleInv, Typed, JournalStates, CreationFails
<1>2. Typed'
  BY <1>1, FreshTyped, VersionsStay, NothingTyped DEF BundleInv, Typed, CreationFails
<1>3. OperationsFit' /\ LivesFit' /\ VerifiedFits' /\ ProjectFits'
  BY DEF BundleInv, OperationsFit, LivesFit, VerifiedFits, ProjectFits, Follows,
     ShownConcepts, CreationFails
<1>4. RowsFit'
  BY DEF BundleInv, RowsFit, LivesFit, CreationFails
<1>5. IndexFits'
  BY DEF BundleInv, IndexFits, LivesFit, CreationFails
<1>6. CreationFits'
  BY DEF BundleInv, CreationFits, LivesFit, Typed, Journals, CreationFails
<1>7. ChangeFits'
  BY DEF BundleInv, ChangeFits, LivesFit, CreationFits, Typed, Journals, MayWrite,
     CreationFails
<1>8. FilesFit'
  BY DEF BundleInv, FilesFit, Typed, Journals, CreationFails
<1>9. RecoveryFits'
  BY DEF BundleInv, RecoveryFits, LivesFit, Typed, Journals, CreationFails
<1> QED
  BY <1>2, <1>3, <1>4, <1>5, <1>6, <1>7, <1>8, <1>9 DEF BundleInv

(* Clearing the journal is what makes the wiki complete.                      *)
LEMMA CompleteCreationStep ==
  ASSUME BundleInv, CompleteCreation
  PROVE  BundleInv'
<1>1. Typed'
  BY FreshTyped, VersionsStay, NothingTyped DEF BundleInv, Typed, CompleteCreation
<1>2. /\ OperationsFit' /\ RowsFit' /\ LivesFit' /\ CreationFits' /\ VerifiedFits'
      /\ ProjectFits'
  BY DEF BundleInv, OperationsFit, RowsFit, LivesFit, CreationFits, VerifiedFits,
     ProjectFits, Follows, ShownConcepts, CompleteCreation
<1>3. ChangeFits'
  BY PathAssumption DEF BundleInv, ChangeFits, OperationsFit, LivesFit, MayWrite,
     CompleteCreation
<1>4. FilesFit'
  BY DEF BundleInv, FilesFit, RowsFit, LivesFit, CreationFits, CompleteCreation
<1>5. RecoveryFits'
  BY DEF BundleInv, RecoveryFits, LivesFit, CreationFits, CompleteCreation
<1>6. IndexFits'
  BY DEF BundleInv, IndexFits, LivesFit, CreationFits, CompleteCreation
<1> QED
  BY <1>1, <1>2, <1>3, <1>4, <1>5, <1>6 DEF BundleInv

(* Deletion moves the directory away first.                                   *)
LEMMA RetireStep ==
  ASSUME BundleInv, Retire
  PROVE  BundleInv'
<1>1. life' \in Lives
  BY DEF BundleInv, Typed, Lives, LifeSteps, Retire
<1>2. Typed'
  BY <1>1, FreshTyped, VersionsStay, NothingTyped DEF BundleInv, Typed, Folders, Retire
<1>3. /\ OperationsFit' /\ RowsFit' /\ LivesFit' /\ CreationFits' /\ ChangeFits'
      /\ FilesFit' /\ RecoveryFits' /\ IndexFits' /\ VerifiedFits' /\ ProjectFits'
  BY DEF BundleInv, OperationsFit, RowsFit, LivesFit, CreationFits, ChangeFits, FilesFit,
     RecoveryFits, IndexFits, VerifiedFits, ProjectFits, MayWrite, Follows, ShownConcepts,
     Retire
<1> QED
  BY <1>2, <1>3 DEF BundleInv

(* Then it removes the row, and all that hung on it.                          *)
LEMMA DeleteRowStep ==
  ASSUME BundleInv, DeleteRow
  PROVE  BundleInv'
<1>1. life' \in Lives
  BY LifeSet DEF BundleInv, Typed, LifeSteps, DeleteRow, DropRow
<1>2. Typed'
  BY <1>1, FreshTyped, VersionsStay, NothingTyped DEF BundleInv, Typed, DeleteRow, DropRow
<1>3. /\ OperationsFit' /\ RowsFit' /\ LivesFit' /\ CreationFits' /\ FilesFit'
      /\ RecoveryFits' /\ IndexFits' /\ VerifiedFits' /\ ProjectFits'
  BY DEF BundleInv, OperationsFit, RowsFit, LivesFit, CreationFits, FilesFit, RecoveryFits,
     IndexFits, VerifiedFits, ProjectFits, Follows, ShownConcepts, DeleteRow, DropRow
<1>4. ChangeFits'
  BY DEF BundleInv, ChangeFits, OperationsFit, LivesFit, Typed, Operations, Steps,
     DeleteRow, DropRow
<1> QED
  BY <1>2, <1>3, <1>4 DEF BundleInv

(* Or it puts the directory back, with the bytes it had.                      *)
LEMMA DeleteRowFailsStep ==
  ASSUME BundleInv, DeleteRowFails
  PROVE  BundleInv'
<1>1. Typed'
  BY FreshTyped, VersionsStay, NothingTyped DEF BundleInv, Typed, Folders, Lives,
     DeleteRowFails
<1>2. /\ OperationsFit' /\ LivesFit' /\ ChangeFits' /\ RecoveryFits' /\ IndexFits'
      /\ VerifiedFits'
  BY DEF BundleInv, OperationsFit, LivesFit, ChangeFits, RecoveryFits, IndexFits,
     VerifiedFits, MayWrite, DeleteRowFails
<1>3. RowsFit'
  BY DEF BundleInv, RowsFit, LivesFit, DeleteRowFails
<1>4. CreationFits'
  BY DEF BundleInv, CreationFits, LivesFit, DeleteRowFails
<1>5. FilesFit'
  BY DEF BundleInv, FilesFit, LivesFit, DeleteRowFails
<1>6. ProjectFits'
  BY DEF BundleInv, ProjectFits, LivesFit, DeleteRowFails
<1> QED
  BY <1>1, <1>2, <1>3, <1>4, <1>5, <1>6 DEF BundleInv

(* The retired directory goes last.                                           *)
LEMMA RemoveRetiredStep ==
  ASSUME BundleInv, RemoveRetired
  PROVE  BundleInv'
<1>1. Typed'
  BY FreshTyped, VersionsStay, NothingTyped DEF BundleInv, Typed, RemoveRetired
<1>2. /\ OperationsFit' /\ RowsFit' /\ LivesFit' /\ CreationFits' /\ ChangeFits'
      /\ FilesFit' /\ RecoveryFits' /\ IndexFits' /\ VerifiedFits' /\ ProjectFits'
  BY DEF BundleInv, OperationsFit, RowsFit, LivesFit, CreationFits, ChangeFits, FilesFit,
     RecoveryFits, IndexFits, VerifiedFits, ProjectFits, MayWrite, Follows, ShownConcepts,
     RemoveRetired
<1> QED
  BY <1>1, <1>2 DEF BundleInv

(* A project is let go with its row; its folder is the person's.              *)
LEMMA DetachStep ==
  ASSUME BundleInv, Detach
  PROVE  BundleInv'
<1>1. Typed'
  BY FreshTyped, VersionsStay, NothingTyped DEF BundleInv, Typed, Detach, DropRow
<1>2. /\ OperationsFit' /\ RowsFit' /\ LivesFit' /\ CreationFits' /\ FilesFit'
      /\ RecoveryFits' /\ IndexFits' /\ VerifiedFits' /\ ProjectFits'
  BY DEF BundleInv, OperationsFit, RowsFit, LivesFit, CreationFits, FilesFit, RecoveryFits,
     IndexFits, VerifiedFits, ProjectFits, Follows, ShownConcepts, Detach, DropRow
<1>3. ChangeFits'
  BY DEF BundleInv, ChangeFits, OperationsFit, Typed, Operations, Steps, Detach, DropRow
<1> QED
  BY <1>1, <1>2, <1>3 DEF BundleInv

(* A project folder is adopted as it is.                                      *)
LEMMA AttachProjectStep ==
  ASSUME BundleInv, NEW a \in Apps, AttachProject(a)
  PROVE  BundleInv'
<1>1. PICK b \in {Empty} \union [Paths -> {Absent, 1}] :
         files' = b /\ fresh' = (IF b = Empty THEN 0 ELSE 1) /\ intruded' = (b # Empty)
  BY DEF AttachProject
<1>2. fresh' \in 0..MaxBytes /\ fresh' \in Nat /\ b \in Concepts'
  BY <1>1, BoundAssumption DEF Concepts, Seen
<1>3. /\ Empty \in Concepts' /\ NoJournal \in Journals'
      /\ Free \in Operations' /\ NoLife \in Lives'
  BY <1>2 DEF Concepts, Seen, Journals, JournalStates, Operations, Steps, Folders, Lives,
     LifeSteps
<1>4. role' \in [Apps -> {"none", "reader", "editor", "owner"}]
  BY DEF AttachProject, Connected
<1>5. Typed'
  BY <1>1, <1>2, <1>3, <1>4 DEF BundleInv, RowsFit, Typed, Folders, AttachProject
<1>6. /\ OperationsFit' /\ RowsFit' /\ LivesFit' /\ CreationFits' /\ ChangeFits'
      /\ FilesFit' /\ RecoveryFits' /\ IndexFits' /\ VerifiedFits'
  BY DEF BundleInv, OperationsFit, RowsFit, LivesFit, CreationFits, ChangeFits, FilesFit,
     RecoveryFits, IndexFits, VerifiedFits, MayWrite, AttachProject, Connected
<1>7. ProjectFits'
  BY <1>1 DEF BundleInv, RowsFit, ProjectFits, Follows, ShownConcepts, AttachProject
<1> QED
  BY <1>5, <1>6, <1>7 DEF BundleInv

(* Who loses a grant has no other.                                            *)
LEMMA RevokeStep ==
  ASSUME BundleInv, NEW a \in Apps, Revoke(a)
  PROVE  BundleInv'
<1>1. Typed'
  BY FreshTyped, VersionsStay, NothingTyped DEF BundleInv, Typed, Revoke
<1>2. /\ OperationsFit' /\ RowsFit' /\ LivesFit' /\ CreationFits' /\ ChangeFits'
      /\ FilesFit' /\ RecoveryFits' /\ IndexFits' /\ VerifiedFits' /\ ProjectFits'
  BY DEF BundleInv, OperationsFit, RowsFit, LivesFit, CreationFits, ChangeFits, FilesFit,
     RecoveryFits, IndexFits, VerifiedFits, ProjectFits, MayWrite, Follows, ShownConcepts,
     Revoke
<1> QED
  BY <1>1, <1>2 DEF BundleInv

(* Opening looks at a project again.                                          *)
LEMMA OpenStep ==
  ASSUME BundleInv, NEW a \in Apps, Open(a)
  PROVE  BundleInv'
<1>1. op' \in Operations
  BY NothingTyped, FreshTyped DEF BundleInv, Typed, Operations, Steps, Folders, Seen,
     Concepts, Open, StartReconcile, Withheld
<1>2. Typed'
  BY <1>1, FreshTyped, VersionsStay, NothingTyped DEF BundleInv, Typed, Open,
     StartReconcile, Withheld
<1>3. /\ OperationsFit' /\ RowsFit' /\ LivesFit' /\ CreationFits' /\ ChangeFits'
      /\ FilesFit' /\ RecoveryFits' /\ IndexFits' /\ VerifiedFits' /\ ProjectFits'
  BY DEF BundleInv, OperationsFit, RowsFit, LivesFit, CreationFits, ChangeFits, FilesFit,
     RecoveryFits, IndexFits, VerifiedFits, ProjectFits, MayWrite, Follows, ShownConcepts,
     Open, StartReconcile, Withheld
<1> QED
  BY <1>2, <1>3 DEF BundleInv

(* Roles move under the owner.                                                *)
LEMMA SetRoleStep ==
  ASSUME BundleInv, NEW a \in Apps, NEW r \in {"none", "reader", "editor"}, SetRole(a, r)
  PROVE  BundleInv'
<1>1. Typed'
  BY FreshTyped, VersionsStay, NothingTyped DEF BundleInv, Typed, SetRole
<1>2. /\ OperationsFit' /\ RowsFit' /\ LivesFit' /\ CreationFits' /\ ChangeFits'
      /\ FilesFit' /\ RecoveryFits' /\ IndexFits' /\ VerifiedFits' /\ ProjectFits'
  BY DEF BundleInv, OperationsFit, RowsFit, LivesFit, CreationFits, ChangeFits, FilesFit,
     RecoveryFits, IndexFits, VerifiedFits, ProjectFits, MayWrite, Follows, ShownConcepts,
     SetRole
<1> QED
  BY <1>1, <1>2 DEF BundleInv

(* A change begins with what its author may write and has read.               *)
LEMMA BeginWriteStep ==
  ASSUME BundleInv, NEW a \in Apps, NEW p \in Paths, BeginWrite(a, p)
  PROVE  BundleInv'
<1>1. op' \in Operations
  BY NothingTyped, FreshTyped DEF BundleInv, Typed, Operations, Steps, Folders, Seen,
     Concepts, BeginWrite, MayWrite, Begin
<1>2. Typed'
  BY <1>1, FreshTyped, VersionsStay, NothingTyped DEF BundleInv, Typed, BeginWrite,
     MayWrite, Begin
<1>3. /\ OperationsFit' /\ RowsFit' /\ LivesFit' /\ CreationFits' /\ ChangeFits'
      /\ FilesFit' /\ RecoveryFits' /\ IndexFits' /\ VerifiedFits' /\ ProjectFits'
  BY DEF BundleInv, OperationsFit, RowsFit, LivesFit, CreationFits, ChangeFits, FilesFit,
     RecoveryFits, IndexFits, VerifiedFits, ProjectFits, MayWrite, Follows, ShownConcepts,
     BeginWrite, Begin
<1> QED
  BY <1>2, <1>3 DEF BundleInv

(* So does a deprecation.                                                     *)
LEMMA BeginDeprecateStep ==
  ASSUME BundleInv, NEW a \in Apps, NEW p \in Paths, BeginDeprecate(a, p)
  PROVE  BundleInv'
<1>1. op' \in Operations
  BY NothingTyped, FreshTyped DEF BundleInv, Typed, Operations, Steps, Folders, Seen,
     Concepts, BeginDeprecate, MayWrite, Begin
<1>2. Typed'
  BY <1>1, FreshTyped, VersionsStay, NothingTyped DEF BundleInv, Typed, BeginDeprecate,
     MayWrite, Begin
<1>3. /\ OperationsFit' /\ RowsFit' /\ LivesFit' /\ CreationFits' /\ ChangeFits'
      /\ FilesFit' /\ RecoveryFits' /\ IndexFits' /\ VerifiedFits' /\ ProjectFits'
  BY DEF BundleInv, OperationsFit, RowsFit, LivesFit, CreationFits, ChangeFits, FilesFit,
     RecoveryFits, IndexFits, VerifiedFits, ProjectFits, MayWrite, Follows, ShownConcepts,
     BeginDeprecate, Begin
<1> QED
  BY <1>2, <1>3 DEF BundleInv

(* And a verified result.                                                     *)
LEMMA BeginResultStep ==
  ASSUME BundleInv, NEW p \in Paths, BeginResult(p)
  PROVE  BundleInv'
<1>1. proj[p] \in Seen
  BY DEF BundleInv, Typed, Concepts, BeginResult, Begin
<1>2. op' \in Operations
  BY <1>1, NothingTyped, FreshTyped DEF BundleInv, Typed, Operations, Steps, Folders,
     BeginResult, Begin
<1>3. Typed'
  BY <1>1, <1>2, FreshTyped, VersionsStay, NothingTyped DEF BundleInv, Typed, BeginResult,
     Begin
<1>4. /\ OperationsFit' /\ RowsFit' /\ LivesFit' /\ CreationFits' /\ ChangeFits'
      /\ FilesFit' /\ RecoveryFits' /\ IndexFits' /\ VerifiedFits' /\ ProjectFits'
  BY <1>1 DEF BundleInv, OperationsFit, RowsFit, LivesFit, CreationFits, ChangeFits,
     FilesFit, RecoveryFits, IndexFits, VerifiedFits, ProjectFits, MayWrite, Follows,
     ShownConcepts, BeginResult, Begin
<1> QED
  BY <1>3, <1>4 DEF BundleInv

(* A verification rereads a concept that exists.                              *)
LEMMA BeginVerifyStep ==
  ASSUME BundleInv, NEW p \in Paths, BeginVerify(p)
  PROVE  BundleInv'
<1>1. op' \in Operations
  BY NothingTyped, FreshTyped DEF BundleInv, Typed, Operations, Steps, Folders, Seen,
     Concepts, BeginVerify, Begin
<1>2. Typed'
  BY <1>1, FreshTyped, VersionsStay, NothingTyped DEF BundleInv, Typed, BeginVerify, Begin
<1>3. /\ OperationsFit' /\ RowsFit' /\ LivesFit' /\ CreationFits' /\ FilesFit'
      /\ RecoveryFits' /\ IndexFits' /\ VerifiedFits' /\ ProjectFits'
  BY DEF BundleInv, OperationsFit, RowsFit, LivesFit, CreationFits, FilesFit, RecoveryFits,
     IndexFits, VerifiedFits, ProjectFits, Follows, ShownConcepts, BeginVerify, Begin
<1>4. ChangeFits'
  BY DEF BundleInv, ChangeFits, RowsFit, BeginVerify, Begin
<1> QED
  BY <1>2, <1>3, <1>4 DEF BundleInv

(* The journal takes a new version and the author's claim.                    *)
LEMMA JournalStep ==
  ASSUME BundleInv, Journal
  PROVE  BundleInv'
<1>1. fresh \in Nat /\ fresh' = fresh + 1 /\ fresh' \in 0..MaxBytes /\ fresh + 1 \in Seen'
  BY BoundAssumption DEF BundleInv, Typed, Journal, Seen
<1>2. op.path \in Paths /\ op.prev \in Seen'
  BY <1>1, VersionsGrow DEF BundleInv, OperationsFit, Typed, Operations, Journal
<1>3. Empty \in Concepts'
  BY <1>1, VersionsGrow, NothingTyped
<1>4. journal' \in Journals'
  BY <1>1, <1>2, <1>3 DEF Journals, JournalStates, Journal
<1>5. op' \in Operations'
  BY <1>1, VersionsGrow DEF BundleInv, Typed, Operations, Steps, Journal
<1>6. Typed'
  BY <1>1, <1>4, <1>5, VersionsGrow DEF BundleInv, Typed, Journal
<1>7. /\ OperationsFit' /\ RowsFit' /\ LivesFit' /\ FilesFit' /\ IndexFits'
      /\ VerifiedFits' /\ ProjectFits'
  BY DEF BundleInv, OperationsFit, RowsFit, LivesFit, FilesFit, IndexFits, VerifiedFits,
     ProjectFits, Follows, ShownConcepts, Journal, MayJournal
<1>8. CreationFits'
  BY PathAssumption DEF BundleInv, CreationFits, OperationsFit, Journal, MayJournal
<1>9. ChangeFits'
  BY DEF BundleInv, ChangeFits, Typed, Seen, Operations, MayWrite, Journal, MayJournal
<1>10. RecoveryFits'
  BY DEF BundleInv, RecoveryFits, RowsFit, ChangeFits, FilesFit, Journal, MayJournal
<1> QED
  BY <1>6, <1>7, <1>8, <1>9, <1>10 DEF BundleInv

(* A refusal changes nothing.                                                 *)
LEMMA RefuseStep ==
  ASSUME BundleInv, Refuse
  PROVE  BundleInv'
<1>1. Typed'
  BY FreshTyped, VersionsStay, NothingTyped DEF BundleInv, Typed, Refuse, MayJournal
<1>2. /\ OperationsFit' /\ RowsFit' /\ LivesFit' /\ CreationFits' /\ ChangeFits'
      /\ FilesFit' /\ RecoveryFits' /\ IndexFits' /\ VerifiedFits' /\ ProjectFits'
  BY DEF BundleInv, OperationsFit, RowsFit, LivesFit, CreationFits, ChangeFits, FilesFit,
     RecoveryFits, IndexFits, VerifiedFits, ProjectFits, MayWrite, Follows, ShownConcepts,
     Refuse, MayJournal
<1> QED
  BY <1>1, <1>2 DEF BundleInv

(* The file is replaced by exactly the journaled version.                     *)
LEMMA ReplaceFileStep ==
  ASSUME BundleInv, ReplaceFile
  PROVE  BundleInv'
<1>1. op' \in Operations
  BY OperationSet DEF BundleInv, Typed, Steps, ReplaceFile, Notice
<1>2. files' \in Concepts
  BY ConceptSet, NothingTyped, FreshTyped DEF BundleInv, Typed, OperationsFit, Operations,
     ReplaceFile, Notice
<1>3. Typed'
  BY <1>1, <1>2, FreshTyped, VersionsStay, NothingTyped DEF BundleInv, Typed, Folders,
     ReplaceFile, Notice
<1>4. OperationsFit' /\ RowsFit' /\ CreationFits' /\ ChangeFits' /\ IndexFits'
  BY DEF BundleInv, OperationsFit, RowsFit, CreationFits, ChangeFits, IndexFits, MayWrite,
     ReplaceFile, Notice
<1>5. LivesFit'
  BY DEF BundleInv, LivesFit, CreationFits, ReplaceFile, Notice
<1>6. RecoveryFits'
  BY DEF BundleInv, RecoveryFits, ChangeFits, ReplaceFile, Notice
<1>7. FilesFit'
  BY DEF BundleInv, FilesFit, CreationFits, ChangeFits, Typed, Concepts, Operations,
     ReplaceFile, Notice
<1>8. VerifiedFits'
  BY DEF BundleInv, VerifiedFits, Typed, OperationsFit, Concepts, ReplaceFile, Notice
<1>9. ProjectFits'
  <2> SUFFICES ASSUME row = "project", ~intruded
               PROVE  Follows(ShownConcepts)'
    BY DEF ProjectFits, BundleInv, OperationsFit, ReplaceFile
  <2>1. attachment = "active" /\ proj = files /\ proj \in Concepts /\ op.path \in Paths
    BY DEF BundleInv, ChangeFits, RowsFit, FilesFit, OperationsFit, Typed, ReplaceFile
  <2>2. Mutation \in asked /\ proj[op.path] = op.prev
    BY DEF BundleInv, ChangeFits, ReplaceFile
  <2>3. files' = [proj EXCEPT ![Mutation.path] = Mutation.repl]
    BY <2>1 DEF ReplaceFile
  <2>4. ShownConcepts' = proj /\ asked' = asked
    BY <2>1 DEF ShownConcepts, ReplaceFile
  <2> QED
    BY <2>2, <2>3, <2>4 DEF Follows
<1> QED
  BY <1>3, <1>4, <1>5, <1>6, <1>7, <1>8, <1>9 DEF BundleInv

(* The journal says so.                                                       *)
LEMMA MarkReplacedStep ==
  ASSUME BundleInv, MarkReplaced
  PROVE  BundleInv'
<1>1. op' \in Operations
  BY OperationSet DEF BundleInv, Typed, Steps, MarkReplaced
<1>2. journal' \in Journals
  BY JournalSet DEF BundleInv, Typed, JournalStates, MarkReplaced
<1>3. Typed'
  BY <1>1, <1>2, FreshTyped, VersionsStay, NothingTyped DEF BundleInv, Typed, MarkReplaced
<1>4. /\ OperationsFit' /\ RowsFit' /\ CreationFits' /\ ChangeFits' /\ FilesFit'
      /\ IndexFits' /\ VerifiedFits' /\ ProjectFits'
  BY DEF BundleInv, OperationsFit, RowsFit, CreationFits, ChangeFits, FilesFit, IndexFits,
     VerifiedFits, ProjectFits, MayWrite, Follows, ShownConcepts, MarkReplaced
<1>5. LivesFit'
  BY DEF BundleInv, LivesFit, CreationFits, MarkReplaced
<1>6. RecoveryFits'
  BY DEF BundleInv, RecoveryFits, ChangeFits, VerifiedFits, MarkReplaced
<1> QED
  BY <1>3, <1>4, <1>5, <1>6 DEF BundleInv

(* The table follows the file.                                                *)
LEMMA ProjectStep ==
  ASSUME BundleInv, Project
  PROVE  BundleInv'
<1>1. op.path \in Paths /\ op.repl \in Seen
  BY DEF BundleInv, OperationsFit, Typed, Operations, Project
<1>2. OnDisk \in Seen
  BY <1>1 DEF BundleInv, Typed, Concepts, Project
<1>3. \E v \in Seen : proj' = [proj EXCEPT ![op.path] = v]
  BY <1>1, <1>2 DEF Project
<1>4. op' \in Operations
  BY OperationSet DEF BundleInv, Typed, Steps, Project
<1>5. proj' \in Concepts
  BY <1>1, <1>2, <1>3, ConceptSet, NothingTyped, FreshTyped DEF BundleInv, Typed,
     OperationsFit, Operations, Journals, Lives, Project
<1>6. Typed'
  BY <1>1, <1>2, <1>3, <1>4, <1>5, FreshTyped, VersionsStay, NothingTyped DEF BundleInv,
     Typed, Project
<1>7. OperationsFit' /\ CreationFits' /\ VerifiedFits'
  BY <1>1, <1>2, <1>3 DEF BundleInv, OperationsFit, CreationFits, VerifiedFits, Project
<1>8. RowsFit'
  BY <1>1, <1>2, <1>3 DEF BundleInv, RowsFit, ChangeFits, Project
<1>9. LivesFit'
  BY <1>1, <1>2, <1>3 DEF BundleInv, LivesFit, CreationFits, Project
<1>10. IndexFits'
  BY <1>1, <1>2, <1>3 DEF BundleInv, IndexFits, OperationsFit, ChangeFits, Project
<1>11. ChangeFits'
  BY <1>1, <1>2, <1>3 DEF BundleInv, ChangeFits, Typed, Concepts, Seen, Project
<1>12. FilesFit'
  BY <1>1, <1>2, <1>3 DEF BundleInv, FilesFit, CreationFits, ChangeFits, Typed, Concepts,
     Project
<1>13. RecoveryFits'
  BY <1>1, <1>2, <1>3 DEF BundleInv, RecoveryFits, VerifiedFits, Project
<1>14. ProjectFits'
  BY <1>1, <1>2, <1>3 DEF BundleInv, ProjectFits, RowsFit, ChangeFits, FilesFit, Seen,
     Follows, ShownConcepts, Project
<1> QED
  BY <1>6, <1>7, <1>8, <1>9, <1>10, <1>11, <1>12, <1>13, <1>14 DEF BundleInv

(* The index follows the table.                                               *)
LEMMA WriteIndexStep ==
  ASSUME BundleInv, WriteIndex
  PROVE  BundleInv'
<1>1. op' \in Operations
  BY OperationSet DEF BundleInv, Typed, Steps, WriteIndex
<1>2. Typed'
  BY <1>1, FreshTyped, VersionsStay, NothingTyped DEF BundleInv, Typed, WriteIndex
<1>3. /\ OperationsFit' /\ RowsFit' /\ LivesFit' /\ CreationFits' /\ ChangeFits'
      /\ FilesFit' /\ RecoveryFits' /\ IndexFits' /\ VerifiedFits' /\ ProjectFits'
  BY DEF BundleInv, OperationsFit, RowsFit, LivesFit, CreationFits, ChangeFits, FilesFit,
     RecoveryFits, IndexFits, VerifiedFits, ProjectFits, MayWrite, Follows, ShownConcepts,
     WriteIndex
<1> QED
  BY <1>2, <1>3 DEF BundleInv

(* The journal is cleared when all three agree.                               *)
LEMMA CompleteStep ==
  ASSUME BundleInv, Complete
  PROVE  BundleInv'
<1>1. Typed'
  BY FreshTyped, VersionsStay, NothingTyped DEF BundleInv, Typed, Complete
<1>2. /\ OperationsFit' /\ RowsFit' /\ CreationFits' /\ ChangeFits' /\ FilesFit'
      /\ VerifiedFits' /\ ProjectFits'
  BY DEF BundleInv, OperationsFit, RowsFit, CreationFits, ChangeFits, FilesFit,
     VerifiedFits, ProjectFits, MayWrite, Follows, ShownConcepts, Complete
<1>3. LivesFit'
  BY DEF BundleInv, LivesFit, CreationFits, Complete
<1>4. RecoveryFits'
  BY DEF BundleInv, RecoveryFits, CreationFits, Complete
<1>5. IndexFits'
  BY DEF BundleInv, IndexFits, CreationFits, Complete
<1> QED
  BY <1>1, <1>2, <1>3, <1>4, <1>5 DEF BundleInv

(* A change that cannot go on keeps its journal for the next start.           *)
LEMMA ChangeFailsStep ==
  ASSUME BundleInv, ChangeFails
  PROVE  BundleInv'
<1>1. journal' \in Journals
  BY JournalSet DEF BundleInv, Typed, JournalStates, ChangeFails, Unable
<1>2. Typed'
  BY <1>1, FreshTyped, VersionsStay, NothingTyped DEF BundleInv, Typed, ChangeFails, Unable
<1>3. OperationsFit' /\ RowsFit' /\ VerifiedFits' /\ ProjectFits'
  BY DEF BundleInv, OperationsFit, RowsFit, VerifiedFits, ProjectFits, Follows,
     ShownConcepts, ChangeFails, Unable
<1>4. LivesFit'
  BY DEF BundleInv, LivesFit, OperationsFit, CreationFits, ChangeFails, Unable
<1>5. CreationFits'
  BY DEF BundleInv, CreationFits, OperationsFit, Typed, Journals, ChangeFails, Unable
<1>6. ChangeFits'
  BY DEF BundleInv, ChangeFits, Typed, Journals, ChangeFails, Unable
<1>7. FilesFit'
  BY DEF BundleInv, FilesFit, Typed, Journals, ChangeFails, Unable
<1>8. RecoveryFits'
  BY DEF BundleInv, RecoveryFits, Typed, Journals, ChangeFails, Unable
<1>9. IndexFits'
  BY DEF BundleInv, IndexFits, Typed, Journals, ChangeFails, Unable
<1> QED
  BY <1>2, <1>3, <1>4, <1>5, <1>6, <1>7, <1>8, <1>9 DEF BundleInv

(* A change of the watched folder withholds the project first.                *)
LEMMA OnChangeStep ==
  ASSUME BundleInv, OnChange
  PROVE  BundleInv'
<1>1. op' \in Operations
  BY NothingTyped, FreshTyped DEF BundleInv, Typed, Operations, Steps, Folders, Seen,
     Concepts, OnChange, StartReconcile, Withheld
<1>2. Typed'
  BY <1>1, FreshTyped, VersionsStay, NothingTyped DEF BundleInv, Typed, OnChange,
     StartReconcile, Withheld
<1>3. /\ OperationsFit' /\ RowsFit' /\ LivesFit' /\ CreationFits' /\ ChangeFits'
      /\ FilesFit' /\ RecoveryFits' /\ IndexFits' /\ VerifiedFits' /\ ProjectFits'
  BY DEF BundleInv, OperationsFit, RowsFit, LivesFit, CreationFits, ChangeFits, FilesFit,
     RecoveryFits, IndexFits, VerifiedFits, ProjectFits, MayWrite, Follows, ShownConcepts,
     OnChange, StartReconcile, Withheld
<1> QED
  BY <1>2, <1>3 DEF BundleInv

(* What was inspected is what the folder holds, unless the person writes.     *)
LEMMA InspectStep ==
  ASSUME BundleInv, Inspect
  PROVE  BundleInv'
<1>1. op' \in Operations
  BY DEF BundleInv, Typed, Operations, Steps, Inspect
<1>2. Typed'
  BY <1>1, FreshTyped, VersionsStay, NothingTyped DEF BundleInv, Typed, Inspect
<1>3. /\ OperationsFit' /\ RowsFit' /\ LivesFit' /\ CreationFits' /\ ChangeFits'
      /\ FilesFit' /\ RecoveryFits' /\ IndexFits' /\ VerifiedFits' /\ ProjectFits'
  BY DEF BundleInv, OperationsFit, RowsFit, LivesFit, CreationFits, ChangeFits, FilesFit,
     RecoveryFits, IndexFits, VerifiedFits, ProjectFits, MayWrite, Follows, ShownConcepts,
     Inspect
<1> QED
  BY <1>2, <1>3 DEF BundleInv

(* A resolution adopts what was inspected, or keeps the project withheld.     *)
LEMMA ResolveStep ==
  ASSUME BundleInv, Resolve
  PROVE  BundleInv'
<1>1. op.sound \in Folders /\ op.snap \in Concepts
  BY DEF BundleInv, Typed, Operations, Resolve
<1>2. IF op.sound = "valid"
       THEN attachment' = "active" /\ proj' = op.snap /\ edited' = (op.snap # files)
       ELSE /\ attachment' \in {"invalid", "missing", "identity_conflict"}
            /\ proj' = Empty /\ edited' = edited
  BY <1>1 DEF Folders, Resolve
<1>3. edited' \in BOOLEAN
  BY <1>2 DEF BundleInv, Typed, Resolve
<1>4. proj' \in Concepts
  BY <1>1, <1>2, <1>3, ConceptSet, NothingTyped, FreshTyped DEF BundleInv, Typed,
     OperationsFit, Operations, Journals, Lives, Resolve
<1>5. Typed'
  BY <1>1, <1>2, <1>3, <1>4, FreshTyped, VersionsStay, NothingTyped DEF BundleInv, Typed,
     Resolve
<1>6. /\ OperationsFit' /\ LivesFit' /\ CreationFits' /\ ChangeFits' /\ IndexFits'
      /\ VerifiedFits'
  BY <1>1, <1>2, <1>3 DEF BundleInv, OperationsFit, LivesFit, CreationFits, ChangeFits,
     IndexFits, VerifiedFits, MayWrite, Resolve
<1>7. ProjectFits'
  BY <1>1, <1>2, <1>3 DEF BundleInv, ProjectFits, OperationsFit, RowsFit, Folders, Follows,
     ShownConcepts, Resolve
<1>8. FilesFit'
  BY <1>1, <1>2, <1>3, PathAssumption, BoundAssumption DEF BundleInv, FilesFit, Typed,
     OperationsFit, RowsFit, LivesFit, CreationFits, ChangeFits, RecoveryFits, IndexFits,
     VerifiedFits, Concepts, Seen, MayWrite, Resolve
<1>9. RowsFit'
  BY <1>1, <1>2, <1>3, PathAssumption, BoundAssumption DEF BundleInv, RowsFit, ChangeFits,
     ProjectFits, Typed, Concepts, Seen, MayWrite, Follows, ShownConcepts, Resolve
<1>10. RecoveryFits'
  BY <1>1, <1>2, <1>3 DEF BundleInv, RecoveryFits, ProjectFits, Resolve
<1> QED
  BY <1>5, <1>6, <1>7, <1>8, <1>9, <1>10 DEF BundleInv

(* A project nobody watches is withheld.                                      *)
LEMMA WithholdUnwatchedStep ==
  ASSUME BundleInv, WithholdUnwatched
  PROVE  BundleInv'
<1>1. Typed'
  BY FreshTyped, VersionsStay, NothingTyped DEF BundleInv, Typed, WithholdUnwatched,
     Withheld
<1>2. /\ OperationsFit' /\ RowsFit' /\ LivesFit' /\ CreationFits' /\ ChangeFits'
      /\ FilesFit' /\ RecoveryFits' /\ IndexFits' /\ VerifiedFits' /\ ProjectFits'
  BY DEF BundleInv, OperationsFit, RowsFit, LivesFit, CreationFits, ChangeFits, FilesFit,
     RecoveryFits, IndexFits, VerifiedFits, ProjectFits, MayWrite, Follows, ShownConcepts,
     WithholdUnwatched, Withheld
<1> QED
  BY <1>1, <1>2 DEF BundleInv

(* A watcher that starts leaves the tables to the reconciliation.             *)
LEMMA EnsureWatcherStep ==
  ASSUME BundleInv, EnsureWatcher
  PROVE  BundleInv'
<1>1. Typed'
  BY FreshTyped, VersionsStay, NothingTyped DEF BundleInv, Typed, EnsureWatcher
<1>2. /\ OperationsFit' /\ RowsFit' /\ LivesFit' /\ CreationFits' /\ ChangeFits'
      /\ FilesFit' /\ RecoveryFits' /\ IndexFits' /\ VerifiedFits' /\ ProjectFits'
  BY DEF BundleInv, OperationsFit, RowsFit, LivesFit, CreationFits, ChangeFits, FilesFit,
     RecoveryFits, IndexFits, VerifiedFits, ProjectFits, MayWrite, Follows, ShownConcepts,
     EnsureWatcher
<1> QED
  BY <1>1, <1>2 DEF BundleInv

(* The start.  Directories of no row are removed.                             *)
LEMMA RemoveLeftoversStep ==
  ASSUME BundleInv, RemoveLeftovers
  PROVE  BundleInv'
<1>1. Typed'
  BY FreshTyped, VersionsStay, NothingTyped DEF BundleInv, Typed, RemoveLeftovers
<1>2. /\ OperationsFit' /\ RowsFit' /\ LivesFit' /\ CreationFits' /\ ChangeFits'
      /\ FilesFit' /\ RecoveryFits' /\ IndexFits' /\ VerifiedFits' /\ ProjectFits'
  BY DEF BundleInv, OperationsFit, RowsFit, LivesFit, CreationFits, ChangeFits, FilesFit,
     RecoveryFits, IndexFits, VerifiedFits, ProjectFits, MayWrite, Follows, ShownConcepts,
     RemoveLeftovers
<1> QED
  BY <1>1, <1>2 DEF BundleInv

(* Without a journal there is nothing to recover.                             *)
LEMMA NothingPendingStep ==
  ASSUME BundleInv, NothingPending
  PROVE  BundleInv'
<1>1. Typed'
  BY FreshTyped, VersionsStay, NothingTyped DEF BundleInv, Typed, NothingPending
<1>2. /\ OperationsFit' /\ RowsFit' /\ LivesFit' /\ CreationFits' /\ ChangeFits'
      /\ FilesFit' /\ RecoveryFits' /\ IndexFits' /\ VerifiedFits' /\ ProjectFits'
  BY DEF BundleInv, OperationsFit, RowsFit, LivesFit, CreationFits, ChangeFits, FilesFit,
     RecoveryFits, IndexFits, VerifiedFits, ProjectFits, MayWrite, Follows, ShownConcepts,
     NothingPending
<1> QED
  BY <1>1, <1>2 DEF BundleInv

(* A creation that never renamed its directory is undone.                     *)
LEMMA UndoCreationStep ==
  ASSUME BundleInv, UndoCreation
  PROVE  BundleInv'
<1>1. Typed'
  BY FreshTyped, VersionsStay, NothingTyped DEF BundleInv, Typed, UndoCreation,
     NeverActivated, DropRow
<1>2. /\ OperationsFit' /\ RowsFit' /\ LivesFit' /\ CreationFits' /\ ChangeFits'
      /\ FilesFit' /\ RecoveryFits' /\ IndexFits' /\ VerifiedFits' /\ ProjectFits'
  BY DEF BundleInv, OperationsFit, RowsFit, LivesFit, CreationFits, ChangeFits, FilesFit,
     RecoveryFits, IndexFits, VerifiedFits, ProjectFits, MayWrite, Follows, ShownConcepts,
     UndoCreation, NeverActivated, DropRow
<1> QED
  BY <1>1, <1>2 DEF BundleInv

(* One that did is finished from the files.                                   *)
LEMMA FinishCreationStep ==
  ASSUME BundleInv, FinishCreation
  PROVE  BundleInv'
<1>1. Typed'
  BY FreshTyped, VersionsStay, NothingTyped DEF BundleInv, Typed, FinishCreation,
     CreationIsWhole, Sound
<1>2. /\ OperationsFit' /\ RowsFit' /\ LivesFit' /\ CreationFits' /\ ChangeFits'
      /\ FilesFit' /\ VerifiedFits'
  BY DEF BundleInv, OperationsFit, RowsFit, LivesFit, CreationFits, ChangeFits, FilesFit,
     VerifiedFits, MayWrite, FinishCreation, CreationIsWhole, Sound
<1>3. RecoveryFits'
  BY DEF BundleInv, RecoveryFits, CreationFits, FinishCreation, CreationIsWhole, Sound
<1>4. IndexFits'
  BY DEF BundleInv, IndexFits, CreationFits, FinishCreation, CreationIsWhole, Sound
<1>5. ProjectFits'
  BY DEF BundleInv, ProjectFits, CreationFits, FinishCreation, CreationIsWhole, Sound
<1> QED
  BY <1>1, <1>2, <1>3, <1>4, <1>5 DEF BundleInv

(* A change that never replaced its file is forgotten.                        *)
LEMMA ForgetChangeStep ==
  ASSUME BundleInv, ForgetChange
  PROVE  BundleInv'
<1>1. Typed'
  BY FreshTyped, VersionsStay, NothingTyped DEF BundleInv, Typed, ForgetChange,
     NeverReplaced, Stored, Projected
<1>2. /\ OperationsFit' /\ RowsFit' /\ LivesFit' /\ CreationFits' /\ ChangeFits'
      /\ RecoveryFits' /\ IndexFits' /\ VerifiedFits' /\ ProjectFits'
  BY DEF BundleInv, OperationsFit, RowsFit, LivesFit, CreationFits, ChangeFits,
     RecoveryFits, IndexFits, VerifiedFits, ProjectFits, MayWrite, Follows, ShownConcepts,
     ForgetChange, NeverReplaced, Stored, Projected
<1>3. FilesFit'
  BY DEF BundleInv, FilesFit, Typed, Concepts, ForgetChange, NeverReplaced, Stored,
     Projected
<1> QED
  BY <1>1, <1>2, <1>3 DEF BundleInv

(* One that did reaches the table.                                            *)
LEMMA ReplayChangeStep ==
  ASSUME BundleInv, ReplayChange
  PROVE  BundleInv'
<1>1. op' \in Operations
  BY NothingTyped, FreshTyped DEF BundleInv, Typed, Operations, Steps, Folders, Seen,
     Concepts, ReplayChange, ChangeIsWhole, NeverReplaced, Sound, Stored, Projected
<1>2. proj' \in Concepts
  BY ConceptSet, NothingTyped, FreshTyped DEF BundleInv, Typed, OperationsFit, Operations,
     Journals, Lives, ReplayChange, ChangeIsWhole, NeverReplaced, Sound, Stored, Projected
<1>3. Typed'
  BY <1>1, <1>2, FreshTyped, VersionsStay, NothingTyped DEF BundleInv, Typed, ReplayChange,
     ChangeIsWhole, NeverReplaced, Sound, Stored, Projected
<1>4. /\ OperationsFit' /\ RowsFit' /\ LivesFit' /\ CreationFits' /\ RecoveryFits'
      /\ IndexFits' /\ VerifiedFits'
  BY DEF BundleInv, OperationsFit, RowsFit, LivesFit, CreationFits, RecoveryFits, IndexFits,
     VerifiedFits, ReplayChange, ChangeIsWhole, NeverReplaced, Sound, Stored, Projected
<1>5. ChangeFits'
  BY DEF BundleInv, ChangeFits, Typed, Concepts, Journals, ReplayChange, ChangeIsWhole,
     NeverReplaced, Sound, Stored, Projected
<1>6. FilesFit'
  BY DEF BundleInv, FilesFit, Typed, Concepts, ReplayChange, ChangeIsWhole, NeverReplaced,
     Sound, Stored, Projected
<1>7. ProjectFits'
  BY DEF BundleInv, ProjectFits, Typed, Concepts, Follows, ShownConcepts, ReplayChange,
     ChangeIsWhole, NeverReplaced, Sound, Stored, Projected
<1> QED
  BY <1>3, <1>4, <1>5, <1>6, <1>7 DEF BundleInv

(* And the index.                                                             *)
LEMMA ReplayIndexStep ==
  ASSUME BundleInv, ReplayIndex
  PROVE  BundleInv'
<1>1. op' \in Operations
  BY OperationSet DEF BundleInv, Typed, Steps, ReplayIndex
<1>2. Typed'
  BY <1>1, FreshTyped, VersionsStay, NothingTyped DEF BundleInv, Typed, ReplayIndex
<1>3. /\ OperationsFit' /\ RowsFit' /\ LivesFit' /\ CreationFits' /\ ChangeFits'
      /\ FilesFit' /\ RecoveryFits' /\ IndexFits' /\ VerifiedFits' /\ ProjectFits'
  BY DEF BundleInv, OperationsFit, RowsFit, LivesFit, CreationFits, ChangeFits, FilesFit,
     RecoveryFits, IndexFits, VerifiedFits, ProjectFits, MayWrite, Follows, ShownConcepts,
     ReplayIndex
<1> QED
  BY <1>2, <1>3 DEF BundleInv

(* And its journal is cleared.                                                *)
LEMMA FinishReplayStep ==
  ASSUME BundleInv, FinishReplay
  PROVE  BundleInv'
<1>1. Typed'
  BY FreshTyped, VersionsStay, NothingTyped DEF BundleInv, Typed, FinishReplay
<1>2. /\ OperationsFit' /\ RowsFit' /\ CreationFits' /\ ChangeFits' /\ VerifiedFits'
      /\ ProjectFits'
  BY DEF BundleInv, OperationsFit, RowsFit, CreationFits, ChangeFits, VerifiedFits,
     ProjectFits, MayWrite, Follows, ShownConcepts, FinishReplay
<1>3. LivesFit'
  BY DEF BundleInv, LivesFit, OperationsFit, FinishReplay
<1>4. FilesFit'
  BY DEF BundleInv, FilesFit, OperationsFit, FinishReplay
<1>5. RecoveryFits'
  BY DEF BundleInv, RecoveryFits, CreationFits, FinishReplay
<1>6. IndexFits'
  BY DEF BundleInv, IndexFits, CreationFits, FinishReplay
<1> QED
  BY <1>1, <1>2, <1>3, <1>4, <1>5, <1>6 DEF BundleInv

(* Projects are looked at again.                                              *)
LEMMA StartupReconcileStep ==
  ASSUME BundleInv, StartupReconcile
  PROVE  BundleInv'
<1>1. op' \in Operations
  BY NothingTyped, FreshTyped DEF BundleInv, Typed, Operations, Steps, Folders, Seen,
     Concepts, StartupReconcile, StartReconcile, Withheld
<1>2. Typed'
  BY <1>1, FreshTyped, VersionsStay, NothingTyped DEF BundleInv, Typed, StartupReconcile,
     StartReconcile, Withheld
<1>3. /\ OperationsFit' /\ RowsFit' /\ LivesFit' /\ CreationFits' /\ ChangeFits'
      /\ FilesFit' /\ RecoveryFits' /\ IndexFits' /\ VerifiedFits' /\ ProjectFits'
  BY DEF BundleInv, OperationsFit, RowsFit, LivesFit, CreationFits, ChangeFits, FilesFit,
     RecoveryFits, IndexFits, VerifiedFits, ProjectFits, MayWrite, Follows, ShownConcepts,
     StartupReconcile, StartReconcile, Withheld
<1> QED
  BY <1>2, <1>3 DEF BundleInv

(* Other wikis are served.                                                    *)
LEMMA NoProjectStep ==
  ASSUME BundleInv, NoProject
  PROVE  BundleInv'
<1>1. Typed'
  BY FreshTyped, VersionsStay, NothingTyped DEF BundleInv, Typed, NoProject
<1>2. /\ OperationsFit' /\ RowsFit' /\ LivesFit' /\ CreationFits' /\ ChangeFits'
      /\ FilesFit' /\ RecoveryFits' /\ IndexFits' /\ VerifiedFits' /\ ProjectFits'
  BY DEF BundleInv, OperationsFit, RowsFit, LivesFit, CreationFits, ChangeFits, FilesFit,
     RecoveryFits, IndexFits, VerifiedFits, ProjectFits, MayWrite, Follows, ShownConcepts,
     NoProject
<1> QED
  BY <1>1, <1>2 DEF BundleInv

(* Projects wait for their watcher.                                           *)
LEMMA WithholdUntilWatchedStep ==
  ASSUME BundleInv, WithholdUntilWatched
  PROVE  BundleInv'
<1>1. Typed'
  BY FreshTyped, VersionsStay, NothingTyped DEF BundleInv, Typed, WithholdUntilWatched,
     Withheld
<1>2. /\ OperationsFit' /\ RowsFit' /\ LivesFit' /\ CreationFits' /\ ChangeFits'
      /\ VerifiedFits' /\ ProjectFits'
  BY DEF BundleInv, OperationsFit, RowsFit, LivesFit, CreationFits, ChangeFits,
     VerifiedFits, ProjectFits, MayWrite, Follows, ShownConcepts, WithholdUntilWatched,
     Withheld
<1>3. FilesFit'
  BY DEF BundleInv, FilesFit, RowsFit, WithholdUntilWatched, Withheld
<1>4. RecoveryFits'
  BY DEF BundleInv, RecoveryFits, RowsFit, WithholdUntilWatched, Withheld
<1>5. IndexFits'
  BY DEF BundleInv, IndexFits, RowsFit, WithholdUntilWatched, Withheld
<1> QED
  BY <1>1, <1>2, <1>3, <1>4, <1>5 DEF BundleInv

(* A recovery that fails is remembered in the journal.                        *)
LEMMA RecoveryFailsStep ==
  ASSUME BundleInv, RecoveryFails
  PROVE  BundleInv'
<1>1. journal' \in Journals
  BY JournalSet DEF BundleInv, Typed, JournalStates, RecoveryFails, NeverActivated,
     CannotRecover, CreationIsWhole, NeverReplaced, ChangeIsWhole, Sound, Stored, Projected
<1>2. Typed'
  BY <1>1, FreshTyped, VersionsStay, NothingTyped DEF BundleInv, Typed, RecoveryFails,
     NeverActivated, CannotRecover, CreationIsWhole, NeverReplaced, ChangeIsWhole, Sound,
     Stored, Projected
<1>3. /\ OperationsFit' /\ RowsFit' /\ LivesFit' /\ CreationFits' /\ ChangeFits'
      /\ FilesFit' /\ RecoveryFits' /\ IndexFits' /\ VerifiedFits' /\ ProjectFits'
  BY DEF BundleInv, OperationsFit, RowsFit, LivesFit, CreationFits, ChangeFits, FilesFit,
     RecoveryFits, IndexFits, VerifiedFits, ProjectFits, MayWrite, Follows, ShownConcepts,
     RecoveryFails, NeverActivated, CannotRecover, CreationIsWhole, NeverReplaced,
     ChangeIsWhole, Sound, Stored, Projected
<1> QED
  BY <1>2, <1>3 DEF BundleInv

(* A reconciliation that fails leaves the project withheld.                   *)
LEMMA ReconcileFailsStep ==
  ASSUME BundleInv, ReconcileFails
  PROVE  BundleInv'
<1>1. Typed'
  BY FreshTyped, VersionsStay, NothingTyped DEF BundleInv, Typed, ReconcileFails
<1>2. /\ OperationsFit' /\ RowsFit' /\ LivesFit' /\ CreationFits' /\ ChangeFits'
      /\ FilesFit' /\ RecoveryFits' /\ IndexFits' /\ VerifiedFits' /\ ProjectFits'
  BY DEF BundleInv, OperationsFit, RowsFit, LivesFit, CreationFits, ChangeFits, FilesFit,
     RecoveryFits, IndexFits, VerifiedFits, ProjectFits, MayWrite, Follows, ShownConcepts,
     ReconcileFails
<1> QED
  BY <1>1, <1>2 DEF BundleInv

(* So does a watcher.                                                         *)
LEMMA WatcherFailsStep ==
  ASSUME BundleInv, WatcherFails
  PROVE  BundleInv'
<1>1. Typed'
  BY FreshTyped, VersionsStay, NothingTyped DEF BundleInv, Typed, WatcherFails
<1>2. /\ OperationsFit' /\ RowsFit' /\ LivesFit' /\ CreationFits' /\ ChangeFits'
      /\ FilesFit' /\ RecoveryFits' /\ IndexFits' /\ VerifiedFits' /\ ProjectFits'
  BY DEF BundleInv, OperationsFit, RowsFit, LivesFit, CreationFits, ChangeFits, FilesFit,
     RecoveryFits, IndexFits, VerifiedFits, ProjectFits, MayWrite, Follows, ShownConcepts,
     WatcherFails
<1> QED
  BY <1>1, <1>2 DEF BundleInv

(* The person may write anything, at any time.                                *)
LEMMA EditBundleStep ==
  ASSUME BundleInv, EditBundle
  PROVE  BundleInv'
<1>1. files' \in Concepts
  BY ConceptSet, NothingTyped, FreshTyped DEF BundleInv, Typed, OperationsFit, Operations,
     Seen, EditBundle, Notice
<1>2. Typed'
  BY <1>1, FreshTyped, VersionsStay, NothingTyped DEF BundleInv, Typed, Folders, EditBundle,
     Notice
<1>3. /\ OperationsFit' /\ RowsFit' /\ LivesFit' /\ CreationFits' /\ ChangeFits'
      /\ FilesFit' /\ RecoveryFits' /\ IndexFits' /\ VerifiedFits' /\ ProjectFits'
  BY DEF BundleInv, OperationsFit, RowsFit, LivesFit, CreationFits, ChangeFits, FilesFit,
     RecoveryFits, IndexFits, VerifiedFits, ProjectFits, MayWrite, Follows, ShownConcepts,
     EditBundle, Notice
<1> QED
  BY <1>2, <1>3 DEF BundleInv

(* And the program may stop at any step.                                      *)
LEMMA CrashStep ==
  ASSUME BundleInv, Crash
  PROVE  BundleInv'
<1>1. Typed'
  BY FreshTyped, VersionsStay, NothingTyped DEF BundleInv, Typed, Crash
<1>2. /\ OperationsFit' /\ RowsFit' /\ LivesFit' /\ CreationFits' /\ ChangeFits'
      /\ FilesFit' /\ RecoveryFits' /\ IndexFits' /\ VerifiedFits' /\ ProjectFits'
  BY DEF BundleInv, OperationsFit, RowsFit, LivesFit, CreationFits, ChangeFits, FilesFit,
     RecoveryFits, IndexFits, VerifiedFits, ProjectFits, MayWrite, Follows, ShownConcepts,
     Crash
<1> QED
  BY <1>1, <1>2 DEF BundleInv

Still ==
  /\ ShownConcepts' = ShownConcepts /\ asked' = asked /\ intruded' = intruded
  /\ (row' = "gone") <=> (row = "gone")

(* A step that does not show is a stutter of CasMemory.                       *)
LEMMA StillMaps ==
  ASSUME Still
  PROVE  UNCHANGED Cas!memoryVars
BY DEF Still, Cas!memoryVars

(* The four ways a step shows.  One asked change takes effect on the version  *)
(* it names.                                                                  *)
LEMMA EffectMaps ==
  ASSUME NEW w \in asked, ShownConcepts[w.path] = w.prev,
         ShownConcepts' = [ShownConcepts EXCEPT ![w.path] = w.repl],
         asked' = asked, intruded' = intruded, (row' = "gone") <=> (row = "gone")
  PROVE  Cas!MemoryNext
<1>1. Cas!TakeEffect(w)
  BY DEF Cas!TakeEffect
<1> QED
  BY <1>1 DEF Cas!MemoryNext

(* The wiki is removed.                                                       *)
LEMMA RemoveMaps ==
  ASSUME DropRow, row # "gone", asked' = asked, intruded' = intruded
  PROVE  Cas!MemoryNext
<1>1. ShownConcepts' = Cas!Nothing
  BY DEF DropRow, ShownConcepts, Cas!Nothing
<1>2. Cas!Remove
  BY <1>1 DEF DropRow, Cas!Remove
<1> QED
  BY <1>2 DEF Cas!MemoryNext

(* What the person wrote is adopted.                                          *)
LEMMA AdoptMaps ==
  ASSUME intruded, ShownConcepts' \in [Paths -> Bytes \union {Absent}],
         asked' = asked, intruded' = intruded, (row' = "gone") <=> (row = "gone")
  PROVE  Cas!MemoryNext
<1>1. Cas!Adopt
  BY DEF Cas!Adopt
<1> QED
  BY <1>1 DEF Cas!MemoryNext

(* An import fills a memory that is empty and was never asked.                *)
LEMMA ImportMaps ==
  ASSUME ShownConcepts = Empty, asked = {},
         ShownConcepts' \in [Paths -> Bytes \union {Absent}],
         asked' = asked, intruded' = intruded, (row' = "gone") <=> (row = "gone")
  PROVE  Cas!MemoryNext
<1>1. Cas!Import
  BY DEF Cas!Import, Cas!Nothing
<1> QED
  BY <1>1 DEF Cas!MemoryNext

(* The person writes.                                                         *)
LEMMA IntrudeMaps ==
  ASSUME intruded' = TRUE, ShownConcepts' = ShownConcepts, asked' = asked,
         (row' = "gone") <=> (row = "gone")
  PROVE  Cas!MemoryNext
<1>1. Cas!Intrude
  BY DEF Cas!Intrude
<1> QED
  BY <1>1 DEF Cas!MemoryNext

(* The table holds versions.                                                  *)
LEMMA ConceptsAreVersions ==
  ASSUME Typed, NEW c \in Concepts
  PROVE  c \in [Paths -> Bytes \union {Absent}]
BY BoundAssumption DEF Typed, Concepts, Seen, Bytes

(* A journaled change is an asked one.                                        *)
LEMMA JournalMaps ==
  ASSUME BundleInv, Journal
  PROVE  Cas!MemoryNext
<1> DEFINE w == [path |-> op.path, prev |-> op.prev, repl |-> fresh + 1]
<1>1. fresh \in Nat /\ fresh + 1 \in Bytes /\ op.path \in Paths
  BY BoundAssumption DEF BundleInv, Typed, OperationsFit, Journal, Bytes
<1>2. op.prev \in Bytes \union {Absent}
  BY BoundAssumption DEF BundleInv, Typed, Operations, Seen, Bytes
<1>3. w \in Cas!Write
  BY <1>1, <1>2 DEF Cas!Write
<1>4. ShownConcepts = proj /\ ShownConcepts' = proj
  BY DEF BundleInv, ChangeFits, RowsFit, ShownConcepts, Journal
<1>5. Cas!Ask(w)
  BY <1>4 DEF Cas!Ask, Journal, MayJournal
<1> QED
  BY <1>3, <1>5 DEF Cas!MemoryNext

(* The write of the table is the effect of the journaled change, or adopts    *)
(* what a verification found.                                                 *)
LEMMA ProjectMaps ==
  ASSUME BundleInv, Project
  PROVE  Cas!MemoryNext
<1>1. ShownConcepts = proj /\ ShownConcepts' = proj'
  BY DEF BundleInv, ChangeFits, RowsFit, ShownConcepts, Project
<1>2. asked' = asked /\ intruded' = intruded /\ row' = row
  BY DEF Project
<1>3. Mutation \in asked /\ proj[op.path] = op.prev
  BY DEF BundleInv, ChangeFits, Project
<1>4. CASE op.kind # "verify"
  BY <1>1, <1>2, <1>3, <1>4, EffectMaps DEF Project
<1>5. CASE op.kind = "verify" /\ ~intruded
  <2>1. OnDisk = op.repl
    BY <1>5 DEF BundleInv, VerifiedFits, Project
  <2> QED
    BY <1>1, <1>2, <1>3, <1>5, <2>1, EffectMaps DEF Project
<1>6. CASE intruded
  <2>1. proj' \in [Paths -> Bytes \union {Absent}]
    BY ProjectStep, ConceptsAreVersions, VersionsStay DEF BundleInv, Typed, Project
  <2> QED
    BY <1>1, <1>2, <1>6, <2>1, AdoptMaps
<1> QED
  BY <1>4, <1>5, <1>6 DEF BundleInv, Typed

(* Loading an import shows it for the first time.                             *)
LEMMA LoadImportedMaps ==
  ASSUME BundleInv, LoadImported
  PROVE  Cas!MemoryNext \/ UNCHANGED Cas!memoryVars
<1>1. asked = {} /\ proj = Empty /\ row # "project"
  BY DEF BundleInv, LivesFit, CreationFits, LoadImported
<1>2. ShownConcepts = proj /\ ShownConcepts' = proj'
  BY <1>1 DEF ShownConcepts, LoadImported
<1>3. proj' \in [Paths -> Bytes \union {Absent}]
  BY LoadImportedStep, ConceptsAreVersions, VersionsStay DEF BundleInv, Typed, LoadImported
<1> QED
  BY <1>1, <1>2, <1>3, ImportMaps DEF LoadImported

(* So may finishing its creation at the next start, or it was loaded before.  *)
LEMMA FinishCreationMaps ==
  ASSUME BundleInv, FinishCreation
  PROVE  Cas!MemoryNext \/ UNCHANGED Cas!memoryVars
<1>1. asked = {} /\ proj \in {Empty, proj'} /\ row # "project"
  BY DEF BundleInv, CreationFits, FinishCreation, CreationIsWhole
<1>2. ShownConcepts = proj /\ ShownConcepts' = proj'
  BY <1>1 DEF ShownConcepts, FinishCreation
<1>3. proj' \in [Paths -> Bytes \union {Absent}]
  BY ConceptsAreVersions DEF BundleInv, Typed, FinishCreation
<1>4. CASE proj = proj'
  BY <1>2, <1>4, StillMaps DEF Still, FinishCreation
<1>5. CASE proj = Empty
  BY <1>1, <1>2, <1>3, <1>5, ImportMaps DEF FinishCreation
<1> QED
  BY <1>1, <1>4, <1>5

(* A replayed change takes effect, once: what took effect before the stop is  *)
(* not shown again.                                                           *)
LEMMA ReplayMaps ==
  ASSUME BundleInv, ReplayChange
  PROVE  Cas!MemoryNext \/ UNCHANGED Cas!memoryVars
<1>1. Done \in asked /\ asked' = asked /\ intruded' = intruded /\ row' = row
  BY DEF BundleInv, ChangeFits, ReplayChange, ChangeIsWhole
<1>2. CASE row = "project" /\ attachment # "active"
  BY <1>1, <1>2, StillMaps DEF Still, ShownConcepts, ReplayChange
<1>3. CASE ~(row = "project" /\ attachment # "active")
  <2>1. /\ ShownConcepts = proj
        /\ ShownConcepts' = [proj EXCEPT ![journal.path] = journal.repl]
    BY <1>3 DEF ShownConcepts, ReplayChange
  <2>2. CASE proj[journal.path] = journal.prev
    BY <1>1, <2>1, <2>2, EffectMaps
  <2>3. CASE proj[journal.path] = journal.repl
    <3>1. ShownConcepts' = ShownConcepts
      BY <2>1, <2>3 DEF BundleInv, Typed, Concepts
    <3> QED
      BY <1>1, <3>1, StillMaps DEF Still
  <2> QED
    BY <2>2, <2>3 DEF ReplayChange, ChangeIsWhole, Projected
<1> QED
  BY <1>2, <1>3

(* A resolved project shows what it did, one asked change more, or what the   *)
(* person wrote.                                                              *)
LEMMA ResolveMaps ==
  ASSUME BundleInv, Resolve
  PROVE  Cas!MemoryNext \/ UNCHANGED Cas!memoryVars
<1>1. op.sound \in Folders /\ op.snap \in Concepts
  BY DEF BundleInv, Typed, Operations
<1>2. /\ row = "project" /\ attachment # "active" /\ ShownConcepts = kept
      /\ ShownConcepts' = IF op.sound = "valid" THEN op.snap ELSE kept
      /\ asked' = asked /\ intruded' = intruded /\ row' = row
  BY <1>1 DEF BundleInv, OperationsFit, RowsFit, ShownConcepts, Folders, Resolve
<1>3. CASE op.sound # "valid"
  BY <1>2, <1>3, StillMaps DEF Still
<1>4. CASE op.sound = "valid" /\ intruded
  BY <1>1, <1>2, <1>4, AdoptMaps, ConceptsAreVersions DEF BundleInv
<1>5. CASE op.sound = "valid" /\ ~intruded
  <2>1. op.snap = files /\ Follows(ShownConcepts)
    BY <1>2, <1>5 DEF BundleInv, ProjectFits, Resolve
  <2>2. CASE files = ShownConcepts
    BY <1>2, <1>5, <2>1, <2>2, StillMaps DEF Still
  <2>3. ASSUME NEW w \in asked, ShownConcepts[w.path] = w.prev,
               files = [ShownConcepts EXCEPT ![w.path] = w.repl]
        PROVE  Cas!MemoryNext
    BY <1>2, <1>5, <2>1, <2>3, EffectMaps
  <2> QED
    BY <2>1, <2>2, <2>3 DEF Follows
<1> QED
  BY <1>3, <1>4, <1>5 DEF BundleInv, Typed

(* Every way a row goes removes the wiki.                                     *)
LEMMA DropMaps ==
  ASSUME BundleInv, ActivateFails \/ OverQuota \/ DeleteRow \/ Detach \/ UndoCreation
  PROVE  Cas!MemoryNext
<1>1. CASE ActivateFails
  BY <1>1, RemoveMaps DEF BundleInv, LivesFit, ActivateFails
<1>2. CASE OverQuota
  BY <1>2, RemoveMaps DEF BundleInv, LivesFit, OverQuota
<1>3. CASE DeleteRow
  BY <1>3, RemoveMaps DEF BundleInv, LivesFit, DeleteRow
<1>4. CASE Detach
  BY <1>4, RemoveMaps DEF Detach
<1>5. CASE UndoCreation
  BY <1>5, RemoveMaps DEF BundleInv, RowsFit, UndoCreation, NeverActivated
<1> QED
  BY <1>1, <1>2, <1>3, <1>4, <1>5

(* The person's own steps.                                                    *)
LEMMA UserMaps ==
  ASSUME BundleInv, EditBundle \/ \E a \in Apps : AttachProject(a)
  PROVE  Cas!MemoryNext \/ UNCHANGED Cas!memoryVars
<1>1. CASE EditBundle
  BY <1>1, IntrudeMaps DEF EditBundle, ShownConcepts
<1>2. ASSUME NEW a \in Apps, AttachProject(a)
      PROVE  Cas!MemoryNext \/ UNCHANGED Cas!memoryVars
  <2>1. /\ ShownConcepts' = ShownConcepts /\ asked' = asked
        /\ (row' = "gone") <=> (row = "gone")
    BY <1>2 DEF BundleInv, RowsFit, ShownConcepts, AttachProject
  <2>2. intruded' \in BOOLEAN /\ ~intruded
    BY <1>2 DEF BundleInv, RowsFit, AttachProject
  <2>3. CASE intruded'
    BY <2>1, <2>2, <2>3, IntrudeMaps
  <2>4. CASE ~intruded'
    BY <2>1, <2>2, <2>4, StillMaps DEF Still, BundleInv, Typed
  <2> QED
    BY <2>3, <2>4
<1> QED
  BY <1>1, <1>2

(* Creation and deletion, but for the table and the row, do not show.         *)
LEMMA CreationStill ==
  ASSUME BundleInv,
         \/ \E scope \in Scopes : Stage(scope)
         \/ \E a \in Apps : Register(a)
         \/ RegisterRefused
         \/ Activate
         \/ MarkActivated
         \/ CreationFails
         \/ CompleteCreation
         \/ Retire
         \/ DeleteRowFails
         \/ RemoveRetired
  PROVE  Still
<1>1. ASSUME NEW scope \in Scopes, Stage(scope)
      PROVE  Still
  BY <1>1 DEF BundleInv, RowsFit, LivesFit, ChangeFits, Still, ShownConcepts, Stage
<1>2. ASSUME NEW a \in Apps, Register(a)
      PROVE  Still
  BY <1>2 DEF BundleInv, RowsFit, LivesFit, ChangeFits, Still, ShownConcepts, Typed, Lives,
     Register, Connected
<1>3. CASE RegisterRefused
  BY <1>3 DEF BundleInv, RowsFit, LivesFit, ChangeFits, Still, ShownConcepts,
     RegisterRefused
<1>4. CASE Activate
  BY <1>4 DEF BundleInv, RowsFit, LivesFit, ChangeFits, Still, ShownConcepts, Activate
<1>5. CASE MarkActivated
  BY <1>5 DEF BundleInv, RowsFit, LivesFit, ChangeFits, Still, ShownConcepts, MarkActivated
<1>6. CASE CreationFails
  BY <1>6 DEF BundleInv, RowsFit, LivesFit, ChangeFits, Still, ShownConcepts, CreationFails
<1>7. CASE CompleteCreation
  BY <1>7 DEF BundleInv, RowsFit, LivesFit, ChangeFits, Still, ShownConcepts,
     CompleteCreation
<1>8. CASE Retire
  BY <1>8 DEF BundleInv, RowsFit, LivesFit, ChangeFits, Still, ShownConcepts, Retire
<1>9. CASE DeleteRowFails
  BY <1>9 DEF BundleInv, RowsFit, LivesFit, ChangeFits, Still, ShownConcepts, DeleteRowFails
<1>10. CASE RemoveRetired
  BY <1>10 DEF BundleInv, RowsFit, LivesFit, ChangeFits, Still, ShownConcepts, RemoveRetired
<1> QED
  BY <1>1, <1>2, <1>3, <1>4, <1>5, <1>6, <1>7, <1>8, <1>9, <1>10

(* Grants, and changes before their journal, do not show.                     *)
LEMMA AccessStill ==
  ASSUME BundleInv,
         \/ \E a \in Apps : Revoke(a)
         \/ \E a \in Apps : Open(a)
         \/ \E a \in Apps, r \in {"none", "reader", "editor"} : SetRole(a, r)
         \/ \E a \in Apps, p \in Paths : BeginWrite(a, p)
         \/ \E a \in Apps, p \in Paths : BeginDeprecate(a, p)
         \/ \E p \in Paths : BeginResult(p)
         \/ \E p \in Paths : BeginVerify(p)
  PROVE  Still
<1>1. ASSUME NEW a \in Apps, Revoke(a)
      PROVE  Still
  BY <1>1 DEF BundleInv, RowsFit, LivesFit, ChangeFits, Still, ShownConcepts, Revoke
<1>2. ASSUME NEW a \in Apps, Open(a)
      PROVE  Still
  BY <1>2 DEF BundleInv, RowsFit, LivesFit, ChangeFits, Still, ShownConcepts, Open,
     StartReconcile, Withheld
<1>3. ASSUME NEW a \in Apps, NEW r \in {"none", "reader", "editor"}, SetRole(a, r)
      PROVE  Still
  BY <1>3 DEF BundleInv, RowsFit, LivesFit, ChangeFits, Still, ShownConcepts, SetRole
<1>4. ASSUME NEW a \in Apps, NEW p \in Paths, BeginWrite(a, p)
      PROVE  Still
  BY <1>4 DEF BundleInv, RowsFit, LivesFit, ChangeFits, Still, ShownConcepts, BeginWrite,
     MayWrite, Begin
<1>5. ASSUME NEW a \in Apps, NEW p \in Paths, BeginDeprecate(a, p)
      PROVE  Still
  BY <1>5 DEF BundleInv, RowsFit, LivesFit, ChangeFits, Still, ShownConcepts,
     BeginDeprecate, MayWrite, Begin
<1>6. ASSUME NEW p \in Paths, BeginResult(p)
      PROVE  Still
  BY <1>6 DEF BundleInv, RowsFit, LivesFit, ChangeFits, Still, ShownConcepts, BeginResult,
     Begin
<1>7. ASSUME NEW p \in Paths, BeginVerify(p)
      PROVE  Still
  BY <1>7 DEF BundleInv, RowsFit, LivesFit, ChangeFits, Still, ShownConcepts, BeginVerify,
     Begin
<1> QED
  BY <1>1, <1>2, <1>3, <1>4, <1>5, <1>6, <1>7

(* A change shows in its journal and in the table only; a watched folder in   *)
(* its resolution only.                                                       *)
LEMMA ChangeStill ==
  ASSUME BundleInv,
         \/ Refuse
         \/ ReplaceFile
         \/ MarkReplaced
         \/ WriteIndex
         \/ Complete
         \/ ChangeFails
         \/ OnChange
         \/ Inspect
         \/ WithholdUnwatched
         \/ EnsureWatcher
  PROVE  Still
<1>1. CASE Refuse
  BY <1>1 DEF BundleInv, RowsFit, LivesFit, ChangeFits, Still, ShownConcepts, Refuse,
     MayJournal
<1>2. CASE ReplaceFile
  BY <1>2 DEF BundleInv, RowsFit, LivesFit, ChangeFits, Still, ShownConcepts, ReplaceFile,
     Notice
<1>3. CASE MarkReplaced
  BY <1>3 DEF BundleInv, RowsFit, LivesFit, ChangeFits, Still, ShownConcepts, MarkReplaced
<1>4. CASE WriteIndex
  BY <1>4 DEF BundleInv, RowsFit, LivesFit, ChangeFits, Still, ShownConcepts, WriteIndex
<1>5. CASE Complete
  BY <1>5 DEF BundleInv, RowsFit, LivesFit, ChangeFits, Still, ShownConcepts, Complete
<1>6. CASE ChangeFails
  BY <1>6 DEF BundleInv, RowsFit, LivesFit, ChangeFits, Still, ShownConcepts, ChangeFails,
     Unable
<1>7. CASE OnChange
  BY <1>7 DEF BundleInv, RowsFit, LivesFit, ChangeFits, Still, ShownConcepts, OnChange,
     StartReconcile, Withheld
<1>8. CASE Inspect
  BY <1>8 DEF BundleInv, RowsFit, LivesFit, ChangeFits, Still, ShownConcepts, Inspect
<1>9. CASE WithholdUnwatched
  BY <1>9 DEF BundleInv, RowsFit, LivesFit, ChangeFits, Still, ShownConcepts,
     WithholdUnwatched, Withheld
<1>10. CASE EnsureWatcher
  BY <1>10 DEF BundleInv, RowsFit, LivesFit, ChangeFits, Still, ShownConcepts, EnsureWatcher
<1> QED
  BY <1>1, <1>2, <1>3, <1>4, <1>5, <1>6, <1>7, <1>8, <1>9, <1>10

(* Of the start, only what it completes or undoes shows; failures and stops   *)
(* do not.                                                                    *)
LEMMA StartStill ==
  ASSUME BundleInv,
         \/ RemoveLeftovers
         \/ NothingPending
         \/ ForgetChange
         \/ ReplayIndex
         \/ FinishReplay
         \/ StartupReconcile
         \/ NoProject
         \/ WithholdUntilWatched
         \/ RecoveryFails
         \/ ReconcileFails
         \/ WatcherFails
         \/ Crash
  PROVE  Still
<1>1. CASE RemoveLeftovers
  BY <1>1 DEF BundleInv, RowsFit, LivesFit, ChangeFits, Still, ShownConcepts,
     RemoveLeftovers
<1>2. CASE NothingPending
  BY <1>2 DEF BundleInv, RowsFit, LivesFit, ChangeFits, Still, ShownConcepts, NothingPending
<1>3. CASE ForgetChange
  BY <1>3 DEF BundleInv, RowsFit, LivesFit, ChangeFits, Still, ShownConcepts, ForgetChange,
     NeverReplaced, Stored, Projected
<1>4. CASE ReplayIndex
  BY <1>4 DEF BundleInv, RowsFit, LivesFit, ChangeFits, Still, ShownConcepts, ReplayIndex
<1>5. CASE FinishReplay
  BY <1>5 DEF BundleInv, RowsFit, LivesFit, ChangeFits, Still, ShownConcepts, FinishReplay
<1>6. CASE StartupReconcile
  BY <1>6 DEF BundleInv, RowsFit, LivesFit, ChangeFits, Still, ShownConcepts,
     StartupReconcile, StartReconcile, Withheld
<1>7. CASE NoProject
  BY <1>7 DEF BundleInv, RowsFit, LivesFit, ChangeFits, Still, ShownConcepts, NoProject
<1>8. CASE WithholdUntilWatched
  BY <1>8 DEF BundleInv, RowsFit, LivesFit, ChangeFits, Still, ShownConcepts,
     WithholdUntilWatched, Withheld
<1>9. CASE RecoveryFails
  BY <1>9 DEF BundleInv, RowsFit, LivesFit, ChangeFits, Still, ShownConcepts, RecoveryFails,
     NeverActivated, CannotRecover, CreationIsWhole, NeverReplaced, ChangeIsWhole, Sound,
     Stored, Projected
<1>10. CASE ReconcileFails
  BY <1>10 DEF BundleInv, RowsFit, LivesFit, ChangeFits, Still, ShownConcepts,
     ReconcileFails
<1>11. CASE WatcherFails
  BY <1>11 DEF BundleInv, RowsFit, LivesFit, ChangeFits, Still, ShownConcepts, WatcherFails
<1>12. CASE Crash
  BY <1>12 DEF BundleInv, RowsFit, LivesFit, ChangeFits, Still, ShownConcepts, Crash
<1> QED
  BY <1>1, <1>2, <1>3, <1>4, <1>5, <1>6, <1>7, <1>8, <1>9, <1>10, <1>11, <1>12

(* Every step is one of CasMemory, or a stutter.                              *)
LEMMA MemoryStep ==
  ASSUME BundleInv, [Next]_bundleVars
  PROVE  Cas!MemoryNext \/ UNCHANGED Cas!memoryVars
<1>1. CASE UNCHANGED bundleVars
  BY <1>1, StillMaps DEF bundleVars, Still, ShownConcepts
<1>2. CASE Create
  BY <1>2, StillMaps, CreationStill, LoadImportedMaps, DropMaps DEF Create
<1>3. CASE Delete
  BY <1>3, StillMaps, CreationStill, DropMaps DEF Delete
<1>4. CASE Access
  BY <1>4, StillMaps, AccessStill, UserMaps DEF Access
<1>5. CASE Change
  BY <1>5, StillMaps, AccessStill, ChangeStill, JournalMaps, ProjectMaps DEF Change,
     ChangeStep
<1>6. CASE Watch
  BY <1>6, StillMaps, ChangeStill, ResolveMaps DEF Watch
<1>7. CASE Start
  BY <1>7, StillMaps, StartStill, DropMaps, FinishCreationMaps, ReplayMaps DEF Start
<1>8. CASE RecoveryFails \/ ReconcileFails \/ WatcherFails \/ EditBundle \/ Crash
  BY <1>8, StillMaps, StartStill, UserMaps
<1> QED
  BY <1>1, <1>2, <1>3, <1>4, <1>5, <1>6, <1>7, <1>8 DEF Next

(* The program starts with no wiki.                                           *)
LEMMA BundleStarts ==
  ASSUME Init
  PROVE  BundleInv
<1>1. Typed
  <2>1. fresh \in Nat /\ fresh \in 0..MaxBytes
    BY BoundAssumption DEF Init
  <2>2. role \in [Apps -> {"none", "reader", "editor", "owner"}]
    BY DEF Init
  <2> QED
    BY <2>1, <2>2, NothingTyped DEF Typed, Init, Folders
<1>2. OperationsFit /\ RowsFit /\ LivesFit /\ CreationFits
  BY DEF Init, OperationsFit, RowsFit, LivesFit, CreationFits
<1>3. ChangeFits /\ FilesFit /\ RecoveryFits /\ IndexFits /\ VerifiedFits /\ ProjectFits
  BY DEF Init, ChangeFits, FilesFit, RecoveryFits, IndexFits, VerifiedFits, ProjectFits
<1> QED
  BY <1>1, <1>2, <1>3 DEF BundleInv

(* What does not change, does not break.                                      *)
LEMMA BundleStays ==
  ASSUME BundleInv, UNCHANGED bundleVars
  PROVE  BundleInv'
<1>1. Typed'
  BY VersionsStay DEF BundleInv, Typed, bundleVars
<1>2. OperationsFit' /\ RowsFit' /\ LivesFit' /\ CreationFits'
  BY DEF BundleInv, bundleVars, OperationsFit, RowsFit, LivesFit, CreationFits
<1>3. ChangeFits' /\ FilesFit' /\ RecoveryFits'
  BY DEF BundleInv, bundleVars, ChangeFits, MayWrite, FilesFit, RecoveryFits
<1>4. IndexFits' /\ VerifiedFits' /\ ProjectFits'
  BY DEF BundleInv, bundleVars, IndexFits, VerifiedFits, ProjectFits, Follows, ShownConcepts
<1> QED
  BY <1>1, <1>2, <1>3, <1>4 DEF BundleInv

(* Every step keeps the invariant.                                            *)
LEMMA BundleStep ==
  ASSUME BundleInv, [Next]_bundleVars
  PROVE  BundleInv'
<1>1. CASE UNCHANGED bundleVars
  BY <1>1, BundleStays
<1>2. CASE Create
  BY <1>2, StageStep, RegisterStep, RegisterRefusedStep, ActivateStep, ActivateFailsStep,
     MarkActivatedStep, OverQuotaStep, LoadImportedStep, CreationFailsStep,
     CompleteCreationStep DEF Create
<1>3. CASE Delete
  BY <1>3, RetireStep, DeleteRowStep, DeleteRowFailsStep, RemoveRetiredStep, DetachStep
     DEF Delete
<1>4. CASE Access
  BY <1>4, AttachProjectStep, RevokeStep, OpenStep, SetRoleStep DEF Access
<1>5. CASE Change
  BY <1>5, BeginWriteStep, BeginDeprecateStep, BeginResultStep, BeginVerifyStep,
     JournalStep,
     RefuseStep, ReplaceFileStep, MarkReplacedStep, ProjectStep, WriteIndexStep,
     CompleteStep, ChangeFailsStep DEF Change, ChangeStep
<1>6. CASE Watch
  BY <1>6, OnChangeStep, InspectStep, ResolveStep, WithholdUnwatchedStep,
     EnsureWatcherStep DEF Watch
<1>7. CASE Start
  BY <1>7, RemoveLeftoversStep, NothingPendingStep, UndoCreationStep, FinishCreationStep,
     ForgetChangeStep, ReplayChangeStep, ReplayIndexStep, FinishReplayStep,
     StartupReconcileStep, NoProjectStep, WithholdUntilWatchedStep DEF Start
<1>8. CASE RecoveryFails \/ ReconcileFails \/ WatcherFails \/ EditBundle \/ Crash
  BY <1>8, RecoveryFailsStep, ReconcileFailsStep, WatcherFailsStep, EditBundleStep,
     CrashStep
<1> QED
  BY <1>1, <1>2, <1>3, <1>4, <1>5, <1>6, <1>7, <1>8 DEF Next

(* The invariant holds of every execution, for every set of applications and  *)
(* concepts and all bounds.                                                   *)
THEOREM BundleInvariance == Spec => []BundleInv
<1>1. Init => BundleInv
  BY BundleStarts
<1>2. BundleInv /\ [Next]_bundleVars => BundleInv'
  BY BundleStep
<1> QED
  BY <1>1, <1>2, PTL DEF Spec

(* The rows, the journal and the pending operation have their types, and an   *)
(* operation its phase.                                                       *)
THEOREM BundleTypeCorrectness == Spec => []BundleTypeOK
<1>1. BundleInv => BundleTypeOK
  <2> SUFFICES ASSUME BundleInv
               PROVE  BundleTypeOK
    OBVIOUS
  <2>1. /\ proj \in [Paths -> Bytes \union {Absent}]
        /\ files \in [Paths -> Bytes \union {Absent}]
    BY ConceptsAreVersions DEF BundleInv, Typed
  <2>2. journal.state \in JournalStates /\ journal.path \in Paths \union {Root}
    BY DEF BundleInv, Typed, Journals
  <2>3. op.kind = "reconcile" => phase \in {"serving", "withholding"}
    BY DEF BundleInv, Typed, Operations, Steps, OperationsFit
  <2> QED
    BY <2>1, <2>2, <2>3
       DEF BundleInv, Typed, JournalStates, OperationsFit, RowsFit, BundleTypeOK
<1> QED
  BY <1>1, BundleInvariance, PTL

(* What an application is served is what the files hold, through changes,     *)
(* deletions, stops and recoveries, unless the person edited the folder       *)
(* (memory.rs and storage.rs write the file, then the table, under one        *)
(* journal).                                                                  *)
THEOREM ServedIsAlwaysOnDisk == Spec => []ServedConceptsAreOnDisk
<1>1. BundleInv => ServedConceptsAreOnDisk
  BY DEF BundleInv, FilesFit, ServedConceptsAreOnDisk, Served
<1> QED
  BY <1>1, BundleInvariance, PTL

(* A personal wiki at rest has an index of exactly its concepts, also after   *)
(* a change that a start completed.                                           *)
THEOREM IndexAlwaysListsConcepts == Spec => []IndexListsConcepts
<1>1. BundleInv => IndexListsConcepts
  BY DEF BundleInv, IndexFits, IndexListsConcepts
<1> QED
  BY <1>1, BundleInvariance, PTL

(* No file of a wiki is replaced for an application whose grant has gone      *)
(* since it asked: the checks before the journal still hold when the file is  *)
(* written.                                                                   *)
THEOREM WritesAreAlwaysAuthorized == Spec => WritesAreAuthorized
<1>1. BundleInv /\ [Next]_bundleVars =>
        [op.kind \in {"write", "deprecate"} /\ op.pc = "journaled" /\ files' # files
           /\ op'.pc = "replaced" => MayWrite(op.app) \/ row = "gone"]_bundleVars
  BY DEF BundleInv, ChangeFits
<1> QED
  BY <1>1, BundleInvariance, PTL DEF Spec, WritesAreAuthorized

(* Only the start moves on from recovery, and it settles the journal or       *)
(* fails.                                                                     *)
LEMMA StartSettles ==
  ASSUME BundleInv, [Next]_bundleVars, phase = "recovering", phase' = "reconciling",
         journal'.state # "none"
  PROVE  RecoveryFails
<1>1. ~(UNCHANGED bundleVars)
  BY DEF bundleVars
<1>2. ~Create
  BY DEF Create, Stage, Register, RegisterRefused, Activate, ActivateFails, MarkActivated,
     OverQuota, LoadImported, CreationFails, CompleteCreation
<1>3. ~Delete /\ ~Access
  BY DEF Delete, Access, Retire, DeleteRow, DeleteRowFails, RemoveRetired, Detach,
     AttachProject, Revoke, Open, SetRole
<1>4. ~Change
  BY DEF BundleInv, OperationsFit, Change, ChangeStep, BeginWrite, BeginDeprecate,
     BeginResult, BeginVerify,
     Begin, Journal, Refuse, ReplaceFile, MarkReplaced, Project, WriteIndex, Complete,
     ChangeFails
<1>5. ~Watch
  BY DEF BundleInv, OperationsFit, Watch, OnChange, Inspect, Resolve, WithholdUnwatched,
     EnsureWatcher
<1>6. ~Start
  BY DEF Start, RemoveLeftovers, NothingPending, UndoCreation, DropRow, FinishCreation,
     ForgetChange, ReplayChange, ReplayIndex, FinishReplay, StartupReconcile, NoProject,
     WithholdUntilWatched
<1>7. ~(ReconcileFails \/ WatcherFails \/ EditBundle \/ Crash)
  BY DEF ReconcileFails, WatcherFails, EditBundle, Crash
<1> QED
  BY <1>1, <1>2, <1>3, <1>4, <1>5, <1>6, <1>7 DEF Next

(* A start that fails without a fault met what the program did not leave.     *)
LEMMA FailureIsForeign ==
  ASSUME BundleInv, RecoveryFails, faults' = faults, ~intruded, ~doomed
  PROVE  row = "project" /\ attachment # "active"
<1> SUFFICES ASSUME row = "project" => attachment = "active"
             PROVE  FALSE
  OBVIOUS
<1>1. Pending /\ Exists /\ ~NeverActivated /\ CannotRecover
  BY DEF BundleInv, Typed, RowsFit, RecoveryFails
<1>2. CASE journal.path = Root
  BY <1>1, <1>2 DEF BundleInv, CreationFits, CannotRecover, CreationIsWhole, Sound,
     NeverActivated
<1>3. CASE journal.path # Root
  BY <1>1, <1>3 DEF BundleInv, RecoveryFits, CannotRecover, NeverReplaced, ChangeIsWhole,
     Sound,
     Stored, Projected
<1> QED
  BY <1>2, <1>3

(* A start never gives up on a change or a creation the program itself left   *)
(* half done: it gives up only after an edit by the person, a fault of the    *)
(* disk, a deletion or a withheld project.                                    *)
THEOREM StartsAlwaysResolve == Spec => StartResolvesOwnChanges
<1>1. BundleInv /\ [Next]_bundleVars =>
        [phase = "recovering" /\ phase' = "reconciling" /\ journal'.state # "none"
           => \/ intruded \/ faults' # faults \/ doomed
              \/ row = "project" /\ attachment # "active"]_bundleVars
  BY StartSettles, FailureIsForeign
<1> QED
  BY <1>1, BundleInvariance, PTL DEF Spec, StartResolvesOwnChanges

(* A managed bundle implements the compare-and-swap memory of CasMemory:      *)
(* every asked change takes effect at most as asked, on the version its       *)
(* author had read, through stops and recoveries.                             *)
THEOREM MemoryKeepsThePromise == Spec => ImplementsCasMemory
<1>1. Init => Cas!MemoryInit
  BY DEF Init, Cas!MemoryInit, Cas!Nothing, ShownConcepts
<1>2. BundleInv /\ [Next]_bundleVars => [Cas!MemoryNext]_(Cas!memoryVars)
  BY MemoryStep
<1> QED
  BY <1>1, <1>2, BundleInvariance, PTL DEF Spec, ImplementsCasMemory, Cas!MemorySpec

================================================================================
