--------------------------- MODULE FolderWiki_proofs ---------------------------
(***************************************************************************)
(* Proofs about FolderWiki, for every set of documents, paths, contents,   *)
(* proposals, jobs and tasks and every bound: the running system only ever *)
(* runs the transactions of SourceLifecycle, so that its theorems hold of  *)
(* it; the publication lock is held where it is needed; the pages of the   *)
(* bundle are of the stored bytes; and a version becomes searchable only   *)
(* when its page, index entry and log entry are written.                   *)
(***************************************************************************)
EXTENDS FolderWiki, SourceLifecycle_proofs

-------------------------------------------------------------------------------
(* The types of what a task works on and of what its pass has to do            *)

Withdrawals == {"withdraw", "relist", "logRemoval"}
IngestSteps ==
  {"extract", "enrich", "save", "embed", "draft", "completed", "failed", "superseded"}
PublisherSteps ==
  {"recover", "page", "index", "log", "commit", "cancel", "discard", "unlist", "dropClaim",
   "restore"}
ReanalysisSteps == {"regenerate", "replace", "redraft", "abandon"}

Removals == [s : Sources, sha : Hashes]
Rows == [s : Sources, sha : Hashes, linked : BOOLEAN, status : SourceStatus]
Pendings == [s : Sources, p : Paths, sha : Hashes, revision : Revisions]

Steps ==
  {"idle", "register", "registering", "reread", "sweep", "unsafe", "process", "approve"}
  \union Withdrawals \union IngestSteps \union PublisherSteps \union ReanalysisSteps

Work ==
  [pc : Steps, back : {"none", "register", "sweep", "quarantined", "startup", "approval", "own"},
   s : Sources \union {None}, p : Paths \union {None}, sha : Hashes \union {None},
   revision : Revisions, job : Jobs \union {None}, purge : SUBSET Removals,
   listed : SUBSET Sources]

Passes ==
  [left : SUBSET Paths, found : SUBSET Paths, large : SUBSET (Paths \union Rows),
   gone : SUBSET Rows, dead : SUBSET Rows, pending : SUBSET Pendings]

(* What a step works on is named by the time it is taken.                      *)
IsNamed(w) ==
  /\ w.pc \in {"registering", "reread"} \union IngestSteps => w.p \in Paths /\ w.sha \in Hashes
  /\ w.pc \in {"reread", "approve"} \union IngestSteps \union ReanalysisSteps => w.s \in Sources
  /\ w.pc \in IngestSteps \union PublisherSteps \union ReanalysisSteps => w.job \in Jobs
  /\ w.pc \in PublisherSteps /\ w.back = "approval" => w.s \in Sources
  /\ w.pc \in Withdrawals => w.back \in {"register", "sweep", "quarantined"}
  /\ w.pc \in Withdrawals /\ w.back = "register" =>
       w.s \in Sources /\ w.p \in Paths /\ w.sha \in Hashes

(* The sweep works on rows; before it, `large` holds the paths of large files.  *)
Sweeps(w) == w.pc = "sweep" \/ (w.pc \in Withdrawals /\ w.back = "sweep")

FilesTyped ==
  /\ folder \in [Paths -> Hashes \union {None}]
  /\ page \in [Sources -> {NoPage} \union [kind : {"draft", "stable"}, version : Version]]
  /\ index \subseteq Sources
  /\ log \subseteq [what : {"published", "removed"}, s : Sources, sha : Hashes,
                    revision : Revisions]

TasksTyped ==
  /\ task \in [Tasks -> Work] /\ pass \in [Tasks -> Passes]
  /\ \A t \in Tasks :
       /\ IsNamed(task[t])
       /\ Sweeps(task[t]) => pass[t].large \subseteq Rows
       /\ task[t].pc \in PublisherSteps => job[task[t].job].kind # "none"

LockIsHeld ==
  /\ guard \in Tasks \union {None}
  /\ \A t \in Tasks :
       /\ task[t].pc \in LockedSteps => guard = t
       /\ guard = t => task[t].pc \in LockedSteps \union {"withdraw"}

(* A publication claim is only made, and only recovered, by the publisher.      *)
ClaimHasPublisher == claim # None => Publisher \in Tasks

WikiTyped == FilesTyped /\ TasksTyped /\ LockIsHeld /\ ClaimHasPublisher

-------------------------------------------------------------------------------
(* What the steps have in common *)

(* No transaction forgets what a job is for.                                   *)
LEMMA KindsStay ==
  ASSUME LifecycleInv, [Next]_vars
  PROVE  \A j \in Jobs : job[j].kind # "none" => job'[j].kind # "none"
<1>1. job \in [Jobs -> JobRow]
  BY DEF LifecycleInv, TypeOK
<1>2. \A j \in Jobs, kind \in {"ingest", "reanalyze", "publish"}, s \in Sources :
        StartJob(j, kind, s) => \A i \in Jobs : job[i].kind # "none" => job'[i].kind # "none"
  BY <1>1 DEF StartJob
<1>3. \A j \in Jobs : FinishJob(j) => \A i \in Jobs : job'[i].kind = job[i].kind
  BY <1>1 DEF FinishJob, JobRow
<1>4. \A S, status : Withdraw(S, status) => \A i \in Jobs : job'[i].kind = job[i].kind
  BY <1>1 DEF Withdraw, CancelPublication, SupersedeIngest, JobRow
<1>5. CASE UNCHANGED vars
  BY <1>5 DEF vars
<1>6. CASE Register
  BY <1>4, <1>6 DEF Register, RegisterRetry, RegisterReplaced, RegisterMoved, RegisterNew
<1>7. CASE Ingest
  BY <1>2, <1>3, <1>7 DEF Ingest, ClaimIngestJob, MarkExtracted, MarkEnriched, SaveEnrichment,
     ReplaceChunks, CompleteIngestJob, FailIngestJob
<1>8. CASE Review
  BY <1>2, <1>3, <1>8 DEF Review, ShowReview, ExcludeReview, BeginReanalysis,
     CompleteReanalysis, FailReanalysis
<1>9. CASE Publish
  <2>1. \A j \in Jobs : job' = [job EXCEPT ![j].state = "cancelling"] =>
          \A i \in Jobs : job'[i].kind = job[i].kind
    BY <1>1 DEF JobRow
  <2> QED
    BY <1>2, <1>3, <1>9, <2>1 DEF Publish, BeginPublication, CompletePublication,
       MarkPublicationCancelling, FinishPublicationCancellation
<1>10. CASE FailClosed
  <2>1. RecoverInterruptedJobs => \A i \in Jobs : job'[i].kind = job[i].kind
    BY <1>1 DEF RecoverInterruptedJobs, JobRow
  <2> QED
    BY <1>4, <1>10, <2>1 DEF FailClosed, ReturnToReview, MarkSourceFailed, MarkDeleted,
       QuarantineSource, QuarantineCollection
<1> QED
  BY <1>5, <1>6, <1>7, <1>8, <1>9, <1>10 DEF Next

(* A step of task t, which goes on with work w and pass q.                      *)
LEMMA TaskStepTyped ==
  ASSUME WikiTyped, LifecycleInv, [Next]_vars,
         NEW t \in Tasks, NEW w \in Work, NEW q \in Passes,
         task' = [task EXCEPT ![t] = w], pass' = [pass EXCEPT ![t] = q],
         IsNamed(w), Sweeps(w) => q.large \subseteq Rows,
         w.pc \in PublisherSteps => job'[w.job].kind # "none",
         \/ /\ guard' = guard
            /\ w.pc \in LockedSteps => guard = t
            /\ guard = t => w.pc \in LockedSteps \union {"withdraw"}
         \/ guard' = t /\ guard \in {None, t} /\ w.pc \in LockedSteps \union {"withdraw"}
         \/ guard' = None /\ guard \in {None, t} /\ w.pc \notin LockedSteps,
         FilesTyped', claim' # None => Publisher \in Tasks
  PROVE  WikiTyped'
<1>1. /\ \A u \in Tasks : u # t => task'[u] = task[u] /\ pass'[u] = pass[u]
      /\ task'[t] = w /\ pass'[t] = q
      /\ task' \in [Tasks -> Work] /\ pass' \in [Tasks -> Passes]
  BY DEF WikiTyped, TasksTyped
<1>2. \A u \in Tasks : u # t /\ task[u].pc \in PublisherSteps => job'[task[u].job].kind # "none"
  BY KindsStay DEF WikiTyped, TasksTyped, IsNamed
<1>3. TasksTyped'
  BY <1>1, <1>2 DEF WikiTyped, TasksTyped
<1>4. LockIsHeld'
  BY <1>1, TaskAssumption DEF WikiTyped, LockIsHeld
<1> QED
  BY <1>3, <1>4 DEF WikiTyped, ClaimHasPublisher

(* A step that moves no file.                                                  *)
LEMMA FilesStay ==
  ASSUME WikiTyped, UNCHANGED <<folder, bundle>>
  PROVE  FilesTyped'
BY DEF WikiTyped, FilesTyped, bundle

(* A task that has nothing to do, or begins its next step with nothing.         *)
LEMMA IdleWork ==
  /\ Idle \in Work /\ IsNamed(Idle) /\ NoPass \in Passes
  /\ \A pc \in {"idle", "register", "sweep", "unsafe", "process"} :
       LET w == [Idle EXCEPT !.pc = pc] IN w \in Work /\ IsNamed(w) /\ w.pc = pc /\ w.back = "none"
<1>1. 0 \in Revisions
  BY BoundAssumption DEF Revisions
<1>2. Idle \in Work
  BY <1>1 DEF Idle, Work, Steps
<1>3. NoPass \in Passes
  BY DEF NoPass, Passes
<1>4. ASSUME NEW pc \in {"idle", "register", "sweep", "unsafe", "process"}
      PROVE  LET w == [Idle EXCEPT !.pc = pc]
             IN w \in Work /\ IsNamed(w) /\ w.pc = pc /\ w.back = "none"
  <2> DEFINE w == [Idle EXCEPT !.pc = pc]
  <2>1. w \in Work /\ w.pc = pc /\ w.back = "none"
    BY <1>2 DEF Work, Steps, Idle
  <2> HIDE DEF w
  <2>2. IsNamed(w)
    BY <2>1 DEF IsNamed, IngestSteps, ReanalysisSteps, PublisherSteps, Withdrawals
  <2> QED
    BY <2>1, <2>2 DEF w
<1>5. IsNamed(Idle)
  BY DEF IsNamed, Idle, IngestSteps, ReanalysisSteps, PublisherSteps, Withdrawals
<1> QED
  BY <1>2, <1>3, <1>4, <1>5

(* A task that neither holds nor needs the lock, and writes no file.            *)
LEMMA FreeStep ==
  ASSUME WikiTyped, LifecycleInv, [Next]_vars,
         NEW t \in Tasks, NEW w \in Work, NEW q \in Passes,
         task' = [task EXCEPT ![t] = w], pass' = [pass EXCEPT ![t] = q],
         task[t].pc \notin LockedSteps \union {"withdraw"}, w.pc \notin LockedSteps,
         IsNamed(w), Sweeps(w) => q.large \subseteq Rows,
         UNCHANGED <<folder, bundle, guard, claim>>
  PROVE  WikiTyped'
<1>1. guard # t
  BY DEF WikiTyped, LockIsHeld
<1>2. w.pc \notin PublisherSteps
  BY DEF PublisherSteps, LockedSteps
<1>3. FilesTyped'
  BY FilesStay
<1>4. claim' # None => Publisher \in Tasks
  BY DEF WikiTyped, ClaimHasPublisher
<1> QED
  BY <1>1, <1>2, <1>3, <1>4, TaskStepTyped

(* The pass of a task, and one that differs in one field.                      *)
LEMMA PassOf ==
  ASSUME WikiTyped, NEW t \in Tasks
  PROVE  /\ task[t] \in Work /\ pass[t] \in Passes /\ IsNamed(task[t])
         /\ pass = [pass EXCEPT ![t] = pass[t]] /\ task = [task EXCEPT ![t] = task[t]]
         /\ Sweeps(task[t]) => pass[t].large \subseteq Rows
BY DEF WikiTyped, TasksTyped

-------------------------------------------------------------------------------
(* Reconciliation *)

LEMMA StartPassStep ==
  ASSUME WikiTyped, LifecycleInv, NEW t \in Tasks, StartPass(t)
  PROVE  [Next]_vars /\ WikiTyped'
<1> DEFINE there == {p \in Paths : folder[p] # None}
<1> DEFINE large == {p \in there : folder[p] \in Large}
<1> DEFINE w == [task[t] EXCEPT !.pc = "register"]
<1> DEFINE q == [NoPass EXCEPT !.left = there \ large, !.found = there, !.large = large]
<1>1. task[t] \in Work /\ task[t].pc = "idle"
  BY PassOf DEF StartPass, At
<1>2. w \in Work /\ w.pc = "register"
  BY <1>1 DEF Work, Steps
<1>3. q \in Passes
  BY DEF NoPass, Passes
<1>4. /\ task' = [task EXCEPT ![t] = w] /\ pass' = [pass EXCEPT ![t] = q]
      /\ UNCHANGED <<vars, folder, bundle, guard>>
  BY DEF StartPass, Goto, world, outside
<1> HIDE DEF w, q
<1>5. IsNamed(w) /\ ~Sweeps(w)
  BY <1>2 DEF IsNamed, IngestSteps, ReanalysisSteps, PublisherSteps, Withdrawals, Sweeps
<1> QED
  BY <1>1, <1>2, <1>3, <1>4, <1>5, FreeStep DEF vars, LockedSteps

(* A collection is quarantined, and its published pages are to be withdrawn. *)
LEMMA QuarantineStep ==
  ASSUME WikiTyped, LifecycleInv, NEW t \in Tasks, QuarantineFolder(t),
         task[t].pc \in {"idle", "unsafe"}
  PROVE  [Next]_vars /\ WikiTyped'
<1> DEFINE removed == {s \in Sources : source[s].status = "published"}
<1> DEFINE purge == {[s |-> s, sha |-> source[s].sha] : s \in removed}
<1> DEFINE w == [task[t] EXCEPT !.pc = "withdraw", !.back = "quarantined", !.purge = purge]
<1>1. task[t] \in Work /\ pass[t] \in Passes
  BY PassOf
<1>2. purge \subseteq Removals
  BY DEF LifecycleInv, TypeOK, SourceRow, Removals
<1>3. w \in Work /\ w.pc = "withdraw" /\ w.back = "quarantined"
  <2> HIDE DEF purge
  <2> QED
    BY <1>1, <1>2 DEF Work, Steps, Withdrawals
<1>4. /\ task' = [task EXCEPT ![t] = w] /\ pass' = [pass EXCEPT ![t] = pass[t]]
      /\ UNCHANGED <<folder, bundle, guard, claim>>
  BY PassOf DEF QuarantineFolder, outside, QuarantineCollection, Withdraw
<1>5. [Next]_vars
  BY DEF QuarantineFolder, Next, FailClosed
<1> HIDE DEF w
<1>6. IsNamed(w) /\ ~Sweeps(w)
  BY <1>3 DEF IsNamed, IngestSteps, ReanalysisSteps, PublisherSteps, Withdrawals, Sweeps
<1> QED
  BY <1>1, <1>3, <1>4, <1>5, <1>6, FreeStep DEF LockedSteps

(* A file that was found is hashed, is gone, or cannot be read.              *)
LEMMA HashFileStep ==
  ASSUME WikiTyped, LifecycleInv, NEW t \in Tasks, NEW p \in Paths,
         HashFile(t, p) \/ HashFails(t, p)
  PROVE  [Next]_vars /\ WikiTyped'
<1> DEFINE q == [pass[t] EXCEPT !.left = @ \ {p}]
<1> DEFINE w == [task[t] EXCEPT !.pc = "registering", !.p = p, !.sha = folder[p]]
<1>1. /\ task[t] \in Work /\ pass[t] \in Passes /\ task[t].pc = "register"
      /\ IsNamed(task[t]) /\ ~Sweeps(task[t]) /\ task = [task EXCEPT ![t] = task[t]]
  BY PassOf DEF HashFile, HashFails, At, Sweeps, Withdrawals
<1>2. q \in Passes
  BY <1>1 DEF Passes
<1>3. pass' = [pass EXCEPT ![t] = q] /\ UNCHANGED <<vars, folder, bundle, guard>>
  BY DEF HashFile, HashFails, world, outside
<1>4. task' = task \/ (folder[p] # None /\ task' = [task EXCEPT ![t] = w])
  BY DEF HashFile, HashFails
<1> HIDE DEF q
<1>5. CASE task' = task
  BY <1>1, <1>2, <1>3, <1>5, FreeStep DEF vars, LockedSteps
<1>6. CASE folder[p] # None /\ task' = [task EXCEPT ![t] = w]
  <2>1. folder[p] \in Hashes
    BY <1>6 DEF WikiTyped, FilesTyped
  <2>2. w \in Work /\ w.pc = "registering" /\ w.p = p /\ w.sha = folder[p]
    BY <1>1, <2>1 DEF Work, Steps
  <2> HIDE DEF w
  <2>3. IsNamed(w) /\ ~Sweeps(w)
    BY <2>1, <2>2 DEF IsNamed, IngestSteps, ReanalysisSteps, PublisherSteps, Withdrawals, Sweeps
  <2> QED
    BY <1>1, <1>2, <1>3, <1>6, <2>2, <2>3, FreeStep DEF vars, LockedSteps
<1> QED
  BY <1>4, <1>5, <1>6

(* A registration goes on to the next file, or reads the row again.             *)
LEMMA RegisterFileStep ==
  ASSUME WikiTyped, LifecycleInv, NEW t \in Tasks, RegisterFile(t)
  PROVE  [Next]_vars /\ WikiTyped'
<1> DEFINE p == task[t].p
<1> DEFINE h == task[t].sha
<1> DEFINE missing == {q \in Paths : folder[q] = None}
<1> DEFINE w(s, old) == [task[t] EXCEPT !.pc = "reread", !.s = s,
                                        !.purge = {[s |-> s, sha |-> old]}]
<1>1. /\ task[t] \in Work /\ pass[t] \in Passes /\ task[t].pc = "registering"
      /\ pass = [pass EXCEPT ![t] = pass[t]]
  BY PassOf DEF RegisterFile, At
<1>2. p \in Paths /\ h \in Hashes /\ missing \in SUBSET Paths
  BY <1>1, PassOf DEF IsNamed
<1>3. UNCHANGED <<folder, bundle, guard, pass>>
  BY DEF RegisterFile, world, outside
<1>4. PICK s \in Sources :
        \/ UNCHANGED vars /\ NextFile(t)
        \/ RegisterMoved(s, p, h, missing) /\ NextFile(t)
        \/ /\ \/ RegisterRetry(s, p, h) \/ RegisterMoved(s, p, h, missing)
              \/ RegisterNew(s, p, h, missing)
           /\ task' = [task EXCEPT ![t] = w(s, h)]
        \/ RegisterReplaced(s, p, h) /\ task' = [task EXCEPT ![t] = w(s, source[s].sha)]
  BY DEF RegisterFile
<1>5. [Next]_vars
  BY <1>2, <1>4 DEF Next, Register
<1>6. UNCHANGED claim
  BY <1>4 DEF vars, RegisterRetry, RegisterReplaced, RegisterMoved, RegisterNew, Withdraw
<1>7. CASE NextFile(t)
  BY <1>1, <1>3, <1>5, <1>6, <1>7, FreeStep, IdleWork DEF NextFile, LockedSteps, Sweeps, Withdrawals
<1>8. ASSUME NEW old \in Hashes, task' = [task EXCEPT ![t] = w(s, old)]
      PROVE  WikiTyped'
  <2> DEFINE v == w(s, old)
  <2> DEFINE purge == {[s |-> s, sha |-> old]}
  <2>1. purge \subseteq Removals
    BY DEF Removals
  <2>2. v \in Work /\ v.pc = "reread" /\ v.s = s /\ v.p = p /\ v.sha = h
    <3>1. v = [task[t] EXCEPT !.pc = "reread", !.s = s, !.purge = purge]
      OBVIOUS
    <3> HIDE DEF purge
    <3> QED
      BY <1>1, <2>1, <3>1 DEF Work, Steps
  <2>3. task' = [task EXCEPT ![t] = v]
    BY <1>8
  <2> HIDE DEF v
  <2>4. IsNamed(v) /\ ~Sweeps(v)
    BY <1>2, <2>2 DEF IsNamed, IngestSteps, ReanalysisSteps, PublisherSteps, Withdrawals, Sweeps
  <2> QED
    BY <1>1, <1>3, <1>5, <1>6, <2>2, <2>3, <2>4, FreeStep DEF LockedSteps
<1>9. RegisterReplaced(s, p, h) => source[s].sha \in Hashes
  BY DEF RegisterReplaced, RowsAt, Exists, LifecycleInv, TypeOK, SourceRow
<1> QED
  BY <1>2, <1>4, <1>5, <1>7, <1>8, <1>9

(* The documents a pass goes on to prepare.                                    *)
LEMMA PendType ==
  ASSUME WikiTyped, NEW t \in Tasks, NEW s \in Sources, NEW revision \in Revisions,
         task[t].p \in Paths, task[t].sha \in Hashes, Pend(t, s, revision)
  PROVE  \E q \in Passes : /\ pass' = [pass EXCEPT ![t] = q] /\ q.large = pass[t].large
<1> DEFINE r == [s |-> s, p |-> task[t].p, sha |-> task[t].sha, revision |-> revision]
<1> DEFINE q == [pass[t] EXCEPT !.pending = @ \union {r}]
<1>1. r \in Pendings
  BY DEF Pendings
<1>2. q \in Passes /\ q.large = pass[t].large
  <2> HIDE DEF r
  <2> QED
    BY <1>1, PassOf DEF Passes
<1>3. pass' = [pass EXCEPT ![t] = q]
  BY DEF Pend
<1> QED
  BY <1>2, <1>3

(* The row of a registered file is read again.                               *)
LEMMA RereadStep ==
  ASSUME WikiTyped, LifecycleInv, NEW t \in Tasks, Reread(t)
  PROVE  [Next]_vars /\ WikiTyped'
<1> DEFINE s == task[t].s
<1> DEFINE w == [task[t] EXCEPT !.pc = "withdraw", !.back = "register",
                                !.revision = source[s].revision]
<1>1. /\ task[t] \in Work /\ pass[t] \in Passes /\ task[t].pc = "reread"
      /\ pass = [pass EXCEPT ![t] = pass[t]]
  BY PassOf DEF Reread, At
<1>2. s \in Sources /\ task[t].p \in Paths /\ task[t].sha \in Hashes
  BY <1>1, PassOf DEF IsNamed
<1>3. source[s].revision \in Revisions
  BY <1>2 DEF LifecycleInv, TypeOK, SourceRow
<1>4. UNCHANGED <<vars, folder, bundle, guard>>
  BY DEF Reread, world, outside
<1>5. CASE NextFile(t) /\ UNCHANGED pass
  BY <1>1, <1>4, <1>5, FreeStep, IdleWork
     DEF NextFile, LockedSteps, Sweeps, Withdrawals, vars
<1>6. CASE NextFile(t) /\ Pend(t, s, source[s].revision)
  <2>1. PICK q \in Passes : pass' = [pass EXCEPT ![t] = q]
    BY <1>2, <1>3, <1>6, PendType
  <2> QED
    BY <1>1, <1>4, <1>6, <2>1, FreeStep, IdleWork
       DEF NextFile, LockedSteps, Sweeps, Withdrawals, vars
<1>7. CASE task' = [task EXCEPT ![t] = w] /\ UNCHANGED pass
  <2>1. /\ w \in Work /\ w.pc = "withdraw" /\ w.back = "register"
        /\ w.s = s /\ w.p = task[t].p /\ w.sha = task[t].sha
    BY <1>1, <1>3 DEF Work, Steps, Withdrawals
  <2> HIDE DEF w
  <2>2. IsNamed(w) /\ ~Sweeps(w)
    BY <1>2, <2>1 DEF IsNamed, IngestSteps, ReanalysisSteps, PublisherSteps, Withdrawals, Sweeps
  <2> QED
    BY <1>1, <1>4, <1>7, <2>1, <2>2, FreeStep DEF LockedSteps, vars
<1> QED
  BY <1>4, <1>5, <1>6, <1>7 DEF Reread, vars

(* The rows the sweep works on are listed.                                   *)
LEMMA ListSourcesStep ==
  ASSUME WikiTyped, LifecycleInv, NEW t \in Tasks, ListSources(t)
  PROVE  [Next]_vars /\ WikiTyped'
<1> DEFINE w == [task[t] EXCEPT !.pc = "sweep"]
<1>1. task[t] \in Work /\ pass[t] \in Passes /\ task[t].pc = "register"
  BY PassOf DEF ListSources, At
<1>2. w \in Work /\ w.pc = "sweep"
  BY <1>1 DEF Work, Steps
<1>3. \A s \in Sources : Exists(s) =>
        [s |-> s, sha |-> source[s].sha, linked |-> source[s].linked,
         status |-> source[s].status] \in Rows
  BY DEF Exists, LifecycleInv, TypeOK, SourceRow, Rows
<1> DEFINE row(s) == [s |-> s, sha |-> source[s].sha, linked |-> source[s].linked,
                      status |-> source[s].status]
<1> DEFINE isLarge(s) == source[s].path \in pass[t].large
<1> DEFINE deleted(s) == source[s].status = "deleted"
<1> DEFINE found(s) == source[s].path \in pass[t].found
<1> DEFINE large == {row(s) : s \in {s \in Sources : Exists(s) /\ isLarge(s) /\ ~deleted(s)}}
<1> DEFINE dead == {row(s) : s \in {s \in Sources : Exists(s) /\ ~isLarge(s) /\ deleted(s)
                                                   /\ source[s].linked}}
<1> DEFINE gone == {row(s) : s \in {s \in Sources : Exists(s) /\ ~isLarge(s) /\ ~deleted(s)
                                                   /\ ~found(s)}}
<1>4. large \subseteq Rows /\ dead \subseteq Rows /\ gone \subseteq Rows
  BY <1>3
<1> DEFINE q == [pass[t] EXCEPT !.large = large, !.dead = dead, !.gone = gone]
<1>5. pass' = [pass EXCEPT ![t] = q]
  BY DEF ListSources
<1>6. q \in Passes /\ q.large \subseteq Rows
  <2> HIDE DEF large, dead, gone
  <2> QED
    BY <1>1, <1>4 DEF Passes
<1>7. task' = [task EXCEPT ![t] = w] /\ UNCHANGED <<vars, folder, bundle, guard>>
  BY DEF ListSources, Goto, world, outside
<1> HIDE DEF w, q
<1>8. IsNamed(w)
  BY <1>2 DEF IsNamed, IngestSteps, ReanalysisSteps, PublisherSteps, Withdrawals
<1> QED
  BY <1>1, <1>2, <1>5, <1>6, <1>7, <1>8, FreeStep DEF LockedSteps, vars

(* The page of a row is to be removed.                                         *)
LEMMA RemovePageWork ==
  ASSUME WikiTyped, NEW t \in Tasks, NEW row, row.s \in Sources, row.sha \in Hashes,
         RemovePageOf(t, row)
  PROVE  \E w \in Work : /\ task' = [task EXCEPT ![t] = w]
                         /\ w.pc = "withdraw" /\ w.back = "sweep" /\ IsNamed(w)
<1> DEFINE purge == {[s |-> row.s, sha |-> row.sha]}
<1> DEFINE w == [task[t] EXCEPT !.pc = "withdraw", !.back = "sweep", !.purge = purge]
<1>1. purge \subseteq Removals
  BY DEF Removals
<1>2. task' = [task EXCEPT ![t] = w]
  BY DEF RemovePageOf
<1>3. w \in Work /\ w.pc = "withdraw" /\ w.back = "sweep"
  <2> HIDE DEF purge
  <2> QED
    BY <1>1, PassOf DEF Work, Steps, Withdrawals
<1> HIDE DEF w
<1>4. IsNamed(w)
  BY <1>3 DEF IsNamed, IngestSteps, ReanalysisSteps, PublisherSteps, Withdrawals
<1> QED
  BY <1>2, <1>3, <1>4

(* A step of the sweep: a row is done, or its page is to be removed.            *)
LEMMA SweepFrame ==
  ASSUME WikiTyped, LifecycleInv, [Next]_vars, NEW t \in Tasks, NEW q \in Passes,
         pass' = [pass EXCEPT ![t] = q], q.large \subseteq Rows, At(t, "sweep"),
         UNCHANGED <<folder, bundle, guard, claim>>,
         \/ task' = task
         \/ \E w \in Work : /\ task' = [task EXCEPT ![t] = w]
                            /\ w.pc = "withdraw" /\ w.back = "sweep" /\ IsNamed(w)
  PROVE  WikiTyped'
<1>1. task[t].pc \notin LockedSteps \union {"withdraw"}
  BY DEF At, LockedSteps
<1>2. "withdraw" \notin LockedSteps
  BY DEF LockedSteps
<1> QED
  BY <1>1, <1>2, PassOf, FreeStep

(* The rows a sweep has still to look at.                                      *)
LEMMA SweptRows ==
  ASSUME WikiTyped, NEW t \in Tasks, At(t, "sweep")
  PROVE  /\ pass[t] \in Passes /\ pass[t].large \subseteq Rows
         /\ pass[t].gone \subseteq Rows /\ pass[t].dead \subseteq Rows
BY PassOf DEF At, Sweeps, Passes

(* The row of a large file is quarantined.                                   *)
LEMMA SweepLargeStep ==
  ASSUME WikiTyped, LifecycleInv, NEW t \in Tasks, NEW row \in pass[t].large, SweepLarge(t, row)
  PROVE  [Next]_vars /\ WikiTyped'
<1> DEFINE q == [pass[t] EXCEPT !.large = @ \ {row}]
<1> DEFINE current == [row EXCEPT !.sha = source[row.s].sha]
<1>1. At(t, "sweep") /\ UNCHANGED <<folder, bundle, guard>> /\ pass' = [pass EXCEPT ![t] = q]
  BY DEF SweepLarge, world, outside
<1>2. row \in Rows /\ row.s \in Sources
  BY <1>1, SweptRows DEF Rows
<1>3. q \in Passes /\ q.large \subseteq Rows
  BY <1>1, SweptRows DEF Passes
<1> HIDE DEF q
<1>4. CASE UNCHANGED <<vars, task>>
  BY <1>1, <1>3, <1>4, SweepFrame DEF vars
<1>5. CASE QuarantineSource(row.s) /\ task' = task
  <2>1. [Next]_vars /\ UNCHANGED claim
    BY <1>2, <1>5 DEF Next, FailClosed, QuarantineSource, Withdraw
  <2> QED
    BY <1>1, <1>3, <1>5, <2>1, SweepFrame
<1>6. CASE QuarantineSource(row.s) /\ source[row.s].status = "published" /\ RemovePageOf(t, current)
  <2>1. [Next]_vars /\ UNCHANGED claim
    BY <1>2, <1>6 DEF Next, FailClosed, QuarantineSource, Withdraw
  <2>2. current.s = row.s /\ current.sha = source[row.s].sha
    BY <1>2 DEF Rows
  <2>3. source[row.s].sha \in Hashes
    BY <1>2, <1>6 DEF LifecycleInv, TypeOK, SourceRow
  <2>4. \E w \in Work : /\ task' = [task EXCEPT ![t] = w]
                        /\ w.pc = "withdraw" /\ w.back = "sweep" /\ IsNamed(w)
    <3> HIDE DEF current
    <3> QED
      BY <1>2, <1>6, <2>2, <2>3, RemovePageWork
  <2> QED
    BY <1>1, <1>3, <2>1, <2>4, SweepFrame
<1> QED
  BY <1>4, <1>5, <1>6 DEF SweepLarge

(* The row of a missing file becomes a tombstone.                            *)
LEMMA SweepGoneStep ==
  ASSUME WikiTyped, LifecycleInv, NEW t \in Tasks, NEW row \in pass[t].gone, SweepGone(t, row)
  PROVE  [Next]_vars /\ WikiTyped'
<1> DEFINE q == [pass[t] EXCEPT !.gone = @ \ {row}]
<1>1. /\ At(t, "sweep") /\ UNCHANGED <<folder, bundle, guard>> /\ pass' = [pass EXCEPT ![t] = q]
      /\ MarkDeleted(row.s) /\ (RemovePageOf(t, row) \/ task' = task)
  BY DEF SweepGone, world, outside
<1>2. row.s \in Sources /\ row.sha \in Hashes
  BY <1>1, SweptRows DEF Rows
<1>3. q \in Passes /\ q.large \subseteq Rows
  BY <1>1, SweptRows DEF Passes
<1>4. [Next]_vars /\ UNCHANGED claim
  BY <1>1, <1>2 DEF Next, FailClosed, MarkDeleted, Withdraw
<1> HIDE DEF q
<1> QED
  BY <1>1, <1>2, <1>3, <1>4, RemovePageWork, SweepFrame

(* The page of a tombstone is removed again.                                 *)
LEMMA SweepDeadStep ==
  ASSUME WikiTyped, LifecycleInv, NEW t \in Tasks, NEW row \in pass[t].dead, SweepDead(t, row)
  PROVE  [Next]_vars /\ WikiTyped'
<1> DEFINE q == [pass[t] EXCEPT !.dead = @ \ {row}]
<1>1. /\ At(t, "sweep") /\ UNCHANGED <<vars, folder, bundle, guard>>
      /\ pass' = [pass EXCEPT ![t] = q] /\ RemovePageOf(t, row)
  BY DEF SweepDead, world, outside
<1>2. row.s \in Sources /\ row.sha \in Hashes
  BY <1>1, SweptRows DEF Rows
<1>3. q \in Passes /\ q.large \subseteq Rows
  BY <1>1, SweptRows DEF Passes
<1> HIDE DEF q
<1> QED
  BY <1>1, <1>2, <1>3, RemovePageWork, SweepFrame DEF vars

(* A scan turns to its pending documents, a preflight is done.               *)
LEMMA EndSweepStep ==
  ASSUME WikiTyped, LifecycleInv, NEW t \in Tasks, EndSweep(t)
  PROVE  [Next]_vars /\ WikiTyped'
<1> DEFINE w == [task[t] EXCEPT !.pc = "process"]
<1>1. /\ task[t] \in Work /\ pass[t] \in Passes /\ task[t].pc = "sweep"
      /\ pass = [pass EXCEPT ![t] = pass[t]]
      /\ UNCHANGED <<vars, folder, bundle, guard>>
  BY PassOf DEF EndSweep, At, world, outside
<1>2. CASE task' = [task EXCEPT ![t] = w] /\ UNCHANGED pass
  <2>1. w \in Work /\ w.pc = "process"
    BY <1>1 DEF Work, Steps
  <2> HIDE DEF w
  <2>2. IsNamed(w) /\ ~Sweeps(w)
    BY <2>1 DEF IsNamed, IngestSteps, ReanalysisSteps, PublisherSteps, Withdrawals, Sweeps
  <2> QED
    BY <1>1, <1>2, <2>1, <2>2, FreeStep DEF LockedSteps, vars
<1>3. CASE task' = [task EXCEPT ![t] = Idle] /\ pass' = [pass EXCEPT ![t] = NoPass]
  BY <1>1, <1>3, IdleWork, FreeStep DEF LockedSteps, vars, Sweeps, Idle, Withdrawals
<1> QED
  BY <1>2, <1>3 DEF EndSweep, Goto

-------------------------------------------------------------------------------
(* Withdrawal of pages, under the publication lock                             *)

(* What a withdrawing task goes on with: other steps of the withdrawal.         *)
LEMMA WithdrawalWork ==
  ASSUME WikiTyped, NEW t \in Tasks, task[t].pc \in Withdrawals, NEW w \in Work,
         w.pc \in Withdrawals, w.back = task[t].back,
         w.s = task[t].s \/ w.s \in Sources, w.p = task[t].p, w.sha = task[t].sha
  PROVE  IsNamed(w) /\ (Sweeps(w) => pass[t].large \subseteq Rows)
<1>1. IsNamed(task[t]) /\ (Sweeps(task[t]) => pass[t].large \subseteq Rows)
  BY PassOf
<1> QED
  BY <1>1 DEF IsNamed, Sweeps, Withdrawals, IngestSteps, ReanalysisSteps, PublisherSteps

(* A withdrawing task takes the lock, or keeps it.                              *)
LEMMA TakingStep ==
  ASSUME WikiTyped, LifecycleInv, UNCHANGED vars, NEW t \in Tasks, NEW w \in Work,
         task' = [task EXCEPT ![t] = w], pass' = [pass EXCEPT ![t] = pass[t]],
         guard' = t, guard \in {None, t}, FilesTyped',
         task[t].pc \in Withdrawals, w.pc \in Withdrawals, w.back = task[t].back,
         w.s = task[t].s \/ w.s \in Sources, w.p = task[t].p, w.sha = task[t].sha
  PROVE  [Next]_vars /\ WikiTyped'
<1>1. IsNamed(w) /\ (Sweeps(w) => pass[t].large \subseteq Rows)
  BY WithdrawalWork
<1>2. w.pc \in LockedSteps \union {"withdraw"} /\ w.pc \notin PublisherSteps
  BY DEF LockedSteps, PublisherSteps, Withdrawals
<1>3. claim' # None => Publisher \in Tasks
  BY DEF WikiTyped, ClaimHasPublisher, vars
<1>4. pass[t] \in Passes
  BY PassOf
<1> QED
  BY <1>1, <1>2, <1>3, <1>4, TaskStepTyped

(* A page is removed under the publication lock.                             *)
LEMMA UnlinkStep ==
  ASSUME WikiTyped, LifecycleInv, NEW t \in Tasks, NEW x \in task[t].purge, Unlink(t, x)
  PROVE  [Next]_vars /\ WikiTyped'
<1>1. /\ task[t] \in Work /\ pass[t] \in Passes /\ task[t].pc = "withdraw"
      /\ pass' = [pass EXCEPT ![t] = pass[t]]
      /\ guard' = t /\ guard \in {None, t} /\ UNCHANGED <<vars, folder, index, log>>
  BY PassOf DEF Unlink, At, world, outside
<1>2. x.s \in Sources
  BY <1>1 DEF Work, Removals
<1>3. CASE task' = [task EXCEPT ![t].purge = @ \ {x}] /\ UNCHANGED page
  <2> DEFINE w == [task[t] EXCEPT !.purge = @ \ {x}]
  <2>1. /\ w \in Work /\ w.pc = "withdraw" /\ w.back = task[t].back
        /\ w.s = task[t].s /\ w.p = task[t].p /\ w.sha = task[t].sha
    BY <1>1 DEF Work
  <2>2. task' = [task EXCEPT ![t] = w]
    BY <1>3
  <2>3. FilesTyped'
    BY <1>1, <1>3, FilesStay DEF bundle
  <2> HIDE DEF w
  <2> QED
    BY <1>1, <2>1, <2>2, <2>3, TakingStep DEF Withdrawals
<1>4. CASE /\ page' = [page EXCEPT ![x.s] = NoPage]
           /\ task' = [task EXCEPT ![t].pc = "relist", ![t].listed = Published, ![t].s = x.s]
  <2> DEFINE w == [task[t] EXCEPT !.pc = "relist", !.listed = Published, !.s = x.s]
  <2>1. /\ w \in Work /\ w.pc = "relist" /\ w.back = task[t].back
        /\ w.s = x.s /\ w.p = task[t].p /\ w.sha = task[t].sha
    BY <1>1, <1>2 DEF Work, Steps, Withdrawals, Published
  <2>2. task' = [task EXCEPT ![t] = w]
    BY <1>4
  <2>3. FilesTyped'
    BY <1>1, <1>4 DEF WikiTyped, FilesTyped
  <2> HIDE DEF w
  <2> QED
    BY <1>1, <1>2, <2>1, <2>2, <2>3, TakingStep DEF Withdrawals
<1> QED
  BY <1>1, <1>3, <1>4 DEF Unlink, vars

(* index.md is written again.                                                *)
LEMMA RelistStep ==
  ASSUME WikiTyped, LifecycleInv, NEW t \in Tasks, Relist(t)
  PROVE  [Next]_vars /\ WikiTyped'
<1> DEFINE w == [task[t] EXCEPT !.pc = "logRemoval"]
<1>1. /\ task[t] \in Work /\ pass[t] \in Passes /\ task[t].pc = "relist" /\ guard = t
      /\ pass' = [pass EXCEPT ![t] = pass[t]] /\ task' = [task EXCEPT ![t] = w]
      /\ UNCHANGED <<vars, folder, guard>>
  BY PassOf DEF Relist, Goto, At, world, outside, WikiTyped, LockIsHeld, LockedSteps
<1>2. /\ w \in Work /\ w.pc = "logRemoval" /\ w.back = task[t].back
      /\ w.s = task[t].s /\ w.p = task[t].p /\ w.sha = task[t].sha
  BY <1>1 DEF Work, Steps, Withdrawals
<1> HIDE DEF w
<1>3. FilesTyped'
  BY <1>1 DEF Relist, WikiTyped, FilesTyped, Work
<1> QED
  BY <1>1, <1>2, <1>3, TakingStep DEF Withdrawals

(* log.md names the removal.                                                 *)
LEMMA LogRemovalStep ==
  ASSUME WikiTyped, LifecycleInv, NEW t \in Tasks, LogRemoval(t)
  PROVE  [Next]_vars /\ WikiTyped'
<1>1. /\ task[t] \in Work /\ pass[t] \in Passes /\ task[t].pc = "logRemoval" /\ guard = t
      /\ pass' = [pass EXCEPT ![t] = pass[t]]
      /\ UNCHANGED <<vars, folder, page, index, guard>>
  BY PassOf DEF LogRemoval, At, world, outside, WikiTyped, LockIsHeld, LockedSteps
<1>2. PICK x \in task[t].purge :
        /\ log' = log \union {Removal(x)}
        /\ task' = [task EXCEPT ![t].pc = "withdraw", ![t].purge = @ \ {x}]
  BY DEF LogRemoval
<1> DEFINE w == [task[t] EXCEPT !.pc = "withdraw", !.purge = @ \ {x}]
<1>3. /\ w \in Work /\ w.pc = "withdraw" /\ w.back = task[t].back
      /\ w.s = task[t].s /\ w.p = task[t].p /\ w.sha = task[t].sha
  BY <1>1 DEF Work, Steps, Withdrawals
<1>4. task' = [task EXCEPT ![t] = w]
  BY <1>2
<1> HIDE DEF w
<1>5. FilesTyped'
  <2>1. x \in Removals /\ 0 \in Revisions
    BY <1>1, BoundAssumption DEF Work, Revisions
  <2>2. Removal(x) \in [what : {"published", "removed"}, s : Sources, sha : Hashes,
                        revision : Revisions]
    BY <2>1 DEF Removal, Removals
  <2> QED
    BY <1>1, <1>2, <2>2 DEF WikiTyped, FilesTyped
<1> QED
  BY <1>1, <1>3, <1>4, <1>5, TakingStep DEF Withdrawals

(* The lock goes back with the withdrawal, done or failed.                      *)
LEMMA ReleaseStep ==
  ASSUME WikiTyped, LifecycleInv, UNCHANGED <<vars, folder, bundle>>,
         NEW t \in Tasks, NEW w \in Work, NEW q \in Passes, task[t].pc \in Withdrawals, Release(t),
         task' = [task EXCEPT ![t] = w], pass' = [pass EXCEPT ![t] = q],
         w.pc \notin LockedSteps, w.pc \notin Withdrawals, IsNamed(w),
         Sweeps(w) => q.large \subseteq Rows
  PROVE  [Next]_vars /\ WikiTyped'
<1>1. w.pc \notin PublisherSteps
  BY DEF PublisherSteps, LockedSteps
<1>2. FilesTyped'
  BY FilesStay
<1>3. claim' # None => Publisher \in Tasks
  BY DEF WikiTyped, ClaimHasPublisher, vars
<1>4. \/ guard' = guard /\ guard # t
      \/ guard' = None /\ guard = t
  BY DEF Release
<1> QED
  BY <1>1, <1>2, <1>3, <1>4, TaskStepTyped DEF Withdrawals

(* Nothing is left to withdraw: the lock is released.                        *)
LEMMA WithdrawnStep ==
  ASSUME WikiTyped, LifecycleInv, NEW t \in Tasks, Withdrawn(t)
  PROVE  [Next]_vars /\ WikiTyped'
<1>1. /\ task[t] \in Work /\ pass[t] \in Passes /\ task[t].pc = "withdraw" /\ IsNamed(task[t])
      /\ Release(t) /\ UNCHANGED <<vars, folder, bundle>>
  BY PassOf DEF Withdrawn, At, world, outside
<1>2. task[t].pc \in Withdrawals
  BY <1>1 DEF Withdrawals
<1>3. task[t].back \in {"register", "sweep", "quarantined"}
  BY <1>1, <1>2 DEF IsNamed
<1>4. {"idle", "register", "sweep"} \cap (LockedSteps \union Withdrawals) = {}
  BY DEF LockedSteps, Withdrawals
<1>5. CASE task[t].back = "register"
  <2>1. NextFile(t) /\ Pend(t, task[t].s, task[t].revision)
    BY <1>3, <1>5 DEF Withdrawn
  <2>2. PICK q \in Passes : pass' = [pass EXCEPT ![t] = q]
    <3>1. /\ task[t].s \in Sources /\ task[t].p \in Paths /\ task[t].sha \in Hashes
          /\ task[t].revision \in Revisions
      BY <1>1, <1>2, <1>5 DEF IsNamed, Work
    <3> QED
      BY <2>1, <3>1, PendType
  <2> DEFINE w == [Idle EXCEPT !.pc = "register"]
  <2>3. w \in Work /\ IsNamed(w) /\ w.pc = "register" /\ task' = [task EXCEPT ![t] = w]
    BY <2>1, IdleWork DEF NextFile
  <2> HIDE DEF w
  <2> QED
    BY <1>1, <1>2, <1>4, <2>2, <2>3, ReleaseStep DEF Sweeps
<1>6. CASE task[t].back = "sweep"
  <2> DEFINE w == [Idle EXCEPT !.pc = "sweep"]
  <2>1. task' = [task EXCEPT ![t] = w] /\ pass' = [pass EXCEPT ![t] = pass[t]]
    BY <1>3, <1>6, PassOf DEF Withdrawn
  <2>2. w \in Work /\ IsNamed(w) /\ w.pc = "sweep" /\ pass[t].large \subseteq Rows
    BY <1>2, <1>6, IdleWork, PassOf DEF Sweeps
  <2> HIDE DEF w
  <2> QED
    BY <1>1, <1>2, <1>4, <2>1, <2>2, ReleaseStep
<1>7. CASE task[t].back = "quarantined"
  <2>1. task' = [task EXCEPT ![t] = Idle] /\ pass' = [pass EXCEPT ![t] = pass[t]]
    BY <1>3, <1>7, PassOf DEF Withdrawn
  <2>2. Idle \in Work /\ IsNamed(Idle) /\ Idle.pc = "idle"
    BY IdleWork DEF Idle
  <2> QED
    BY <1>1, <1>2, <1>4, <2>1, <2>2, ReleaseStep DEF Sweeps
<1> QED
  BY <1>3, <1>5, <1>6, <1>7

(* A withdrawal fails: the lock is released.                                 *)
LEMMA WithdrawFailsStep ==
  ASSUME WikiTyped, LifecycleInv, NEW t \in Tasks, WithdrawFails(t)
  PROVE  [Next]_vars /\ WikiTyped'
<1>1. /\ task[t] \in Work /\ pass[t] \in Passes /\ task[t].pc \in Withdrawals
      /\ Release(t) /\ UNCHANGED <<vars, folder, bundle>>
      /\ pass = [pass EXCEPT ![t] = pass[t]]
  BY PassOf DEF WithdrawFails, At, outside, Withdrawals
<1>2. PICK pc \in {"idle", "register", "unsafe"}, q \in Passes :
        task' = [task EXCEPT ![t] = [Idle EXCEPT !.pc = pc]] /\ pass' = [pass EXCEPT ![t] = q]
  BY <1>1, IdleWork DEF WithdrawFails, NextFile
<1> DEFINE w == [Idle EXCEPT !.pc = pc]
<1>3. w \in Work /\ IsNamed(w) /\ w.pc = pc /\ task' = [task EXCEPT ![t] = w]
  BY <1>2, IdleWork
<1>4. pc \notin LockedSteps /\ pc \notin Withdrawals /\ pc # "sweep"
  BY DEF LockedSteps, Withdrawals
<1> HIDE DEF w
<1> QED
  BY <1>1, <1>2, <1>3, <1>4, ReleaseStep DEF Sweeps

-------------------------------------------------------------------------------
(* Ingestion *)

(* A worker, the publisher or a reanalysis goes on with what it works on.       *)
LEMMA GotoWork ==
  ASSUME WikiTyped, NEW t \in Tasks, NEW pc, Goto(t, pc),
         \/ task[t].pc \in IngestSteps /\ pc \in IngestSteps
         \/ task[t].pc \in PublisherSteps /\ pc \in PublisherSteps
         \/ task[t].pc \in ReanalysisSteps /\ pc \in ReanalysisSteps
  PROVE  \E w \in Work : /\ task' = [task EXCEPT ![t] = w] /\ w.pc = pc /\ w.job = task[t].job
                         /\ IsNamed(w) /\ ~Sweeps(w)
<1> DEFINE w == [task[t] EXCEPT !.pc = pc]
<1>1. task[t] \in Work /\ IsNamed(task[t])
  BY PassOf
<1>2. /\ w \in Work /\ w.pc = pc /\ w.job = task[t].job /\ w.s = task[t].s
      /\ w.p = task[t].p /\ w.sha = task[t].sha /\ w.back = task[t].back
  BY <1>1 DEF Work, Steps
<1>3. task' = [task EXCEPT ![t] = w]
  BY DEF Goto
<1> HIDE DEF w
<1>4. IsNamed(w) /\ ~Sweeps(w)
  BY <1>1, <1>2
     DEF IsNamed, Sweeps, IngestSteps, PublisherSteps, ReanalysisSteps, Withdrawals
<1> QED
  BY <1>2, <1>3, <1>4

(* A step of the worker that neither holds the lock nor takes it.               *)
LEMMA IngestFrame ==
  ASSUME WikiTyped, LifecycleInv, [Next]_vars, NEW t \in Tasks, NEW pc \in IngestSteps,
         task[t].pc \in IngestSteps \ {"draft"}, pc # "draft", Goto(t, pc),
         UNCHANGED <<folder, bundle, pass, guard, claim>>
  PROVE  WikiTyped'
<1>1. PICK w \in Work : /\ task' = [task EXCEPT ![t] = w] /\ w.pc = pc
                        /\ IsNamed(w) /\ ~Sweeps(w)
  BY GotoWork
<1>2. task[t].pc \notin LockedSteps \union {"withdraw"} /\ w.pc \notin LockedSteps
  BY <1>1 DEF IngestSteps, LockedSteps
<1> QED
  BY <1>1, <1>2, PassOf, FreeStep

(* A pending document is claimed, or passed over.                            *)
LEMMA ClaimPendingStep ==
  ASSUME WikiTyped, LifecycleInv, NEW t \in Tasks, NEW r \in pass[t].pending, ClaimPending(t, r)
  PROVE  [Next]_vars /\ WikiTyped'
<1> DEFINE q == [pass[t] EXCEPT !.pending = @ \ {r}]
<1>1. /\ task[t] \in Work /\ pass[t] \in Passes /\ task[t].pc = "process"
      /\ pass' = [pass EXCEPT ![t] = q] /\ UNCHANGED <<folder, bundle, guard>>
  BY PassOf DEF ClaimPending, At, world, outside
<1>2. q \in Passes /\ q.large = pass[t].large /\ r \in Pendings
  BY <1>1 DEF Passes
<1> HIDE DEF q
<1>3. CASE UNCHANGED <<vars, task>>
  BY <1>1, <1>2, <1>3, PassOf, FreeStep DEF vars, LockedSteps
<1>4. CASE \E j \in Jobs :
             /\ ClaimIngestJob(j, r.s)
             /\ task' = [task EXCEPT ![t] =
                  [Idle EXCEPT !.pc = "extract", !.s = r.s, !.p = r.p, !.sha = r.sha,
                               !.revision = r.revision, !.job = j]]
  <2>1. PICK j \in Jobs :
          /\ ClaimIngestJob(j, r.s)
          /\ task' = [task EXCEPT ![t] =
               [Idle EXCEPT !.pc = "extract", !.s = r.s, !.p = r.p, !.sha = r.sha,
                            !.revision = r.revision, !.job = j]]
    BY <1>4
  <2> DEFINE w == [Idle EXCEPT !.pc = "extract", !.s = r.s, !.p = r.p, !.sha = r.sha,
                               !.revision = r.revision, !.job = j]
  <2>2. r.s \in Sources /\ r.p \in Paths /\ r.sha \in Hashes /\ r.revision \in Revisions
    BY <1>2 DEF Pendings
  <2>3. /\ w \in Work /\ w.pc = "extract" /\ w.s = r.s /\ w.p = r.p /\ w.sha = r.sha
        /\ w.job = j
    BY <2>2, IdleWork DEF Work, Steps, IngestSteps
  <2>4. task' = [task EXCEPT ![t] = w]
    BY <2>1
  <2> HIDE DEF w
  <2>5. IsNamed(w) /\ ~Sweeps(w)
    BY <2>2, <2>3 DEF IsNamed, Sweeps, IngestSteps, PublisherSteps, ReanalysisSteps, Withdrawals
  <2>6. [Next]_vars /\ UNCHANGED claim
    BY <2>1, <2>2 DEF Next, Ingest, ClaimIngestJob
  <2> QED
    BY <1>1, <1>2, <2>3, <2>4, <2>5, <2>6, FreeStep DEF LockedSteps
<1> QED
  BY <1>3, <1>4 DEF ClaimPending

(* The steps of an ingestion that need no lock.                              *)
LEMMA ExtractStep ==
  ASSUME WikiTyped, LifecycleInv, NEW t \in Tasks, Extract(t) \/ Enrich(t) \/ Save(t)
  PROVE  [Next]_vars /\ WikiTyped'
<1>1. /\ task[t].pc \in IngestSteps \ {"draft"} /\ task[t].job \in Jobs
      /\ UNCHANGED <<folder, bundle, pass, guard>>
  BY PassOf DEF Extract, Enrich, Save, At, IsNamed, IngestSteps, world, outside
<1>2. PICK pc \in {"enrich", "save", "embed", "superseded", "failed"} : Goto(t, pc)
  BY DEF Extract, Enrich, Save
<1>3. pc \in IngestSteps /\ pc # "draft"
  BY DEF IngestSteps
<1>4. [Next]_vars
  BY <1>1 DEF Extract, Enrich, Save, Next, Ingest, vars
<1>5. UNCHANGED claim
  BY DEF Extract, Enrich, Save, MarkExtracted, MarkEnriched, SaveEnrichment, vars
<1> QED
  BY <1>1, <1>2, <1>3, <1>4, <1>5, IngestFrame

(* The chunks are stored, and the lock is taken for the draft page.          *)
LEMMA EmbedStep ==
  ASSUME WikiTyped, LifecycleInv, NEW t \in Tasks, Embed(t)
  PROVE  [Next]_vars /\ WikiTyped'
<1>1. /\ task[t].pc \in IngestSteps \ {"draft"} /\ task[t].job \in Jobs
      /\ UNCHANGED <<folder, bundle, pass>>
  BY PassOf DEF Embed, At, IsNamed, IngestSteps, outside
<1>2. [Next]_vars /\ UNCHANGED claim
  BY <1>1 DEF Embed, Next, Ingest, ReplaceChunks, vars
<1>3. CASE guard = None /\ guard' = t /\ Goto(t, "draft")
  <2>1. PICK w \in Work : /\ task' = [task EXCEPT ![t] = w] /\ w.pc = "draft"
                          /\ IsNamed(w) /\ ~Sweeps(w)
    BY <1>1, <1>3, GotoWork DEF IngestSteps
  <2>2. w.pc \in LockedSteps /\ w.pc \notin PublisherSteps
    BY <2>1 DEF LockedSteps, PublisherSteps
  <2>3. FilesTyped' /\ (claim' # None => Publisher \in Tasks)
    BY <1>1, <1>2, FilesStay DEF WikiTyped, ClaimHasPublisher
  <2> QED
    BY <1>1, <1>2, <1>3, <2>1, <2>2, <2>3, PassOf, TaskStepTyped
<1>4. CASE UNCHANGED guard /\ (Goto(t, "superseded") \/ Goto(t, "failed"))
  BY <1>1, <1>2, <1>4, IngestFrame DEF IngestSteps
<1> QED
  BY <1>2, <1>3, <1>4 DEF Embed

(* The page of a document with a proposal is of a version.                      *)
LEMMA PageType ==
  ASSUME LifecycleInv, NEW s \in Sources, concept[s].status # "absent",
         source[s].status # "absent", NEW kind \in {"draft", "stable"}
  PROVE  PageOf(s, kind) \in [kind : {"draft", "stable"}, version : Version]
<1>1. source[s].revision \in Revisions /\ source[s].sha \in Hashes
  BY DEF LifecycleInv, TypeOK, SourceRow
<1>2. concept[s].draft \in Drafts
  BY DEF LifecycleInv, TypeOK, AbsentRowsAreEmpty, ConceptRow
<1> QED
  BY <1>1, <1>2 DEF PageOf, VersionOf, Version

(* A page is written of the rows as they are, or removed.                       *)
LEMMA PageTyped ==
  ASSUME WikiTyped, LifecycleInv, NEW s \in Sources, UNCHANGED <<folder, index, log>>,
         \/ page' = page
         \/ page' = [page EXCEPT ![s] = NoPage]
         \/ \E kind \in {"draft", "stable"} :
              /\ page' = [page EXCEPT ![s] = PageOf(s, kind)]
              /\ concept[s].status # "absent" /\ source[s].status # "absent"
  PROVE  FilesTyped'
BY PageType DEF WikiTyped, FilesTyped

(* The draft page is written, and the lock released.                         *)
LEMMA WriteDraftStep ==
  ASSUME WikiTyped, LifecycleInv, NEW t \in Tasks, WriteDraft(t)
  PROVE  [Next]_vars /\ WikiTyped'
<1>1. /\ task[t].pc \in IngestSteps /\ task[t].pc \in LockedSteps /\ task[t].s \in Sources
      /\ UNCHANGED <<vars, folder, index, log, pass>> /\ guard' = None
  BY PassOf DEF WriteDraft, At, IsNamed, IngestSteps, LockedSteps, outside
<1>2. guard = t
  BY <1>1 DEF WikiTyped, LockIsHeld
<1>3. PICK pc \in {"completed", "failed"} : Goto(t, pc)
  BY DEF WriteDraft
<1>4. PICK w \in Work : /\ task' = [task EXCEPT ![t] = w] /\ w.pc = pc
                        /\ IsNamed(w) /\ ~Sweeps(w)
  BY <1>1, <1>3, GotoWork DEF IngestSteps
<1>5. w.pc \notin LockedSteps /\ w.pc \notin PublisherSteps
  BY <1>4 DEF LockedSteps, PublisherSteps
<1>6. FilesTyped'
  BY <1>1, PageTyped DEF WriteDraft, MayWriteDraft
<1>7. claim' # None => Publisher \in Tasks
  BY <1>1 DEF WikiTyped, ClaimHasPublisher, vars
<1> QED
  BY <1>1, <1>2, <1>4, <1>5, <1>6, <1>7, PassOf, TaskStepTyped

(* An ingestion closes its job.                                              *)
LEMMA FinishIngestStep ==
  ASSUME WikiTyped, LifecycleInv, NEW t \in Tasks, FinishIngest(t)
  PROVE  [Next]_vars /\ WikiTyped'
<1> DEFINE j == task[t].job
<1> DEFINE w == [Idle EXCEPT !.pc = "process"]
<1>1. /\ task[t].pc \in {"completed", "failed", "superseded"} /\ j \in Jobs
      /\ UNCHANGED <<folder, bundle, pass, guard>> /\ task' = [task EXCEPT ![t] = w]
  BY PassOf DEF FinishIngest, IsNamed, IngestSteps, world, outside
<1>2. \/ UNCHANGED vars \/ CompleteIngestJob(j)
      \/ \E markSource \in BOOLEAN : FailIngestJob(j, markSource)
  BY DEF FinishIngest, At
<1>3. [Next]_vars /\ UNCHANGED claim
  BY <1>1, <1>2 DEF Next, Ingest, CompleteIngestJob, FailIngestJob, vars
<1>4. w \in Work /\ IsNamed(w) /\ w.pc = "process"
  BY IdleWork
<1> HIDE DEF w
<1> QED
  BY <1>1, <1>3, <1>4, PassOf, FreeStep DEF LockedSteps, Sweeps, Withdrawals

(* A scan is done.                                                           *)
LEMMA EndScanStep ==
  ASSUME WikiTyped, LifecycleInv, NEW t \in Tasks, EndScan(t)
  PROVE  [Next]_vars /\ WikiTyped'
<1>1. /\ task[t].pc = "process" /\ UNCHANGED <<vars, folder, bundle, guard>>
      /\ task' = [task EXCEPT ![t] = Idle] /\ pass' = [pass EXCEPT ![t] = NoPass]
  BY DEF EndScan, At, world, outside
<1>2. Idle \in Work /\ IsNamed(Idle) /\ Idle.pc = "idle" /\ NoPass \in Passes
  BY IdleWork DEF Idle
<1> QED
  BY <1>1, <1>2, FreeStep DEF LockedSteps, Sweeps, Withdrawals, vars

-------------------------------------------------------------------------------
(* Publication *)

(* The publisher is between two steps of a claim, or about to make one: it      *)
(* holds the lock, and its job is a claim of some document.                     *)
LEMMA PublisherWork ==
  ASSUME WikiTyped, LifecycleInv, Publisher \in Tasks,
         task[Publisher].pc \in PublisherSteps \union {"approve"}
  PROVE  /\ guard = Publisher /\ task[Publisher] \in Work /\ IsNamed(task[Publisher])
         /\ task[Publisher].pc = "approve" => task[Publisher].s \in Sources
         /\ task[Publisher].pc \in PublisherSteps =>
              /\ task[Publisher].job \in Jobs
              /\ job[task[Publisher].job].source \in Sources
              /\ job[task[Publisher].job].sha \in Hashes
              /\ job[task[Publisher].job].revision \in Revisions
<1>1. guard = Publisher
  BY DEF WikiTyped, LockIsHeld, LockedSteps, PublisherSteps
<1>2. task[Publisher] \in Work /\ IsNamed(task[Publisher])
  BY PassOf
<1>3. ASSUME task[Publisher].pc \in PublisherSteps
      PROVE  /\ task[Publisher].job \in Jobs /\ job[task[Publisher].job].kind # "none"
  BY <1>2, <1>3 DEF IsNamed, WikiTyped, TasksTyped
<1>4. \A j \in Jobs : job[j].kind # "none" =>
        job[j].source \in Sources /\ job[j].sha \in Hashes /\ job[j].revision \in Revisions
  BY DEF LifecycleInv, JobsNameDocuments, TypeOK, JobRow
<1> QED
  BY <1>1, <1>2, <1>3, <1>4 DEF IsNamed

(* What the publisher does between two steps: it ends, it turns to its own      *)
(* approval, or it takes the next step of its claim.                            *)
LEMMA PublisherFrame ==
  ASSUME WikiTyped, LifecycleInv, [Next]_vars, Publisher \in Tasks,
         task[Publisher].pc \in PublisherSteps \union {"approve"},
         FilesTyped', UNCHANGED pass,
         \/ PublisherEnds
         \/ task[Publisher].pc \in PublisherSteps /\ PublisherGoesOn
         \/ /\ UNCHANGED guard
            /\ \E w \in Work : /\ task' = [task EXCEPT ![Publisher] = w]
                               /\ w.pc \in PublisherSteps /\ IsNamed(w)
                               /\ job'[w.job].kind # "none"
  PROVE  WikiTyped'
<1>1. /\ guard = Publisher /\ pass[Publisher] \in Passes
      /\ pass' = [pass EXCEPT ![Publisher] = pass[Publisher]]
      /\ task[Publisher] \in Work /\ IsNamed(task[Publisher])
  BY PublisherWork, PassOf
<1>2. CASE PublisherEnds
  <2>1. Idle \in Work /\ IsNamed(Idle) /\ Idle.pc = "idle"
    BY IdleWork DEF Idle
  <2> QED
    BY <1>1, <1>2, <2>1, TaskStepTyped
       DEF PublisherEnds, Sweeps, Withdrawals, PublisherSteps, LockedSteps
<1>3. CASE task[Publisher].pc \in PublisherSteps /\ PublisherGoesOn /\ ~PublisherEnds
  <2> DEFINE w == [task[Publisher] EXCEPT !.pc = "approve", !.job = None, !.p = None,
                                          !.listed = {}]
  <2>1. task' = [task EXCEPT ![Publisher] = w] /\ UNCHANGED guard
    BY <1>3 DEF PublisherGoesOn
  <2>2. task[Publisher].s \in Sources
    BY <1>1, <1>3 DEF PublisherGoesOn, IsNamed
  <2>3. w \in Work /\ w.pc = "approve" /\ w.s = task[Publisher].s
    BY <1>1 DEF Work, Steps
  <2> HIDE DEF w
  <2>4. IsNamed(w) /\ ~Sweeps(w) /\ w.pc \notin PublisherSteps /\ w.pc \in LockedSteps
    BY <2>2, <2>3 DEF IsNamed, Sweeps, IngestSteps, PublisherSteps, ReanalysisSteps,
       Withdrawals, LockedSteps
  <2> QED
    BY <1>1, <2>1, <2>3, <2>4, TaskStepTyped
<1>4. CASE /\ UNCHANGED guard
           /\ \E w \in Work : /\ task' = [task EXCEPT ![Publisher] = w]
                              /\ w.pc \in PublisherSteps /\ IsNamed(w)
                              /\ job'[w.job].kind # "none"
  <2>1. PICK w \in Work : /\ task' = [task EXCEPT ![Publisher] = w]
                          /\ w.pc \in PublisherSteps /\ IsNamed(w)
                          /\ job'[w.job].kind # "none"
    BY <1>4
  <2>2. w.pc \in LockedSteps /\ ~Sweeps(w)
    BY <2>1 DEF LockedSteps, PublisherSteps, Sweeps, Withdrawals
  <2> QED
    BY <1>1, <1>4, <2>1, <2>2, TaskStepTyped
<1> QED
  BY <1>2, <1>3, <1>4

(* A step of a claim that goes on with the same job.                            *)
LEMMA PublisherGoto ==
  ASSUME WikiTyped, LifecycleInv, [Next]_vars, Publisher \in Tasks,
         task[Publisher].pc \in PublisherSteps, NEW pc \in PublisherSteps,
         \/ Goto(Publisher, pc)
         \/ \E listed \in SUBSET Sources :
              task' = [task EXCEPT ![Publisher].pc = pc, ![Publisher].listed = listed]
  PROVE  \E w \in Work : /\ task' = [task EXCEPT ![Publisher] = w]
                         /\ w.pc \in PublisherSteps /\ IsNamed(w)
                         /\ job'[w.job].kind # "none"
<1>1. task[Publisher] \in Work /\ IsNamed(task[Publisher])
  BY PassOf
<1>2. task[Publisher].job \in Jobs /\ job'[task[Publisher].job].kind # "none"
  BY <1>1, KindsStay DEF IsNamed, WikiTyped, TasksTyped
<1>3. CASE Goto(Publisher, pc)
  BY <1>2, <1>3, GotoWork
<1>4. CASE \E listed \in SUBSET Sources :
             task' = [task EXCEPT ![Publisher].pc = pc, ![Publisher].listed = listed]
  <2>1. PICK listed \in SUBSET Sources :
          task' = [task EXCEPT ![Publisher].pc = pc, ![Publisher].listed = listed]
    BY <1>4
  <2> DEFINE w == [task[Publisher] EXCEPT !.pc = pc, !.listed = listed]
  <2>2. task' = [task EXCEPT ![Publisher] = w]
    BY <2>1
  <2>3. /\ w \in Work /\ w.pc = pc /\ w.job = task[Publisher].job /\ w.s = task[Publisher].s
        /\ w.back = task[Publisher].back
    BY <1>1 DEF Work, Steps
  <2> HIDE DEF w
  <2>4. IsNamed(w)
    BY <1>1, <2>3
       DEF IsNamed, IngestSteps, PublisherSteps, ReanalysisSteps, Withdrawals
  <2> QED
    BY <1>2, <2>2, <2>3, <2>4
<1> QED
  BY <1>3, <1>4

(* A claim that was loaded from its row.                                       *)
LEMMA LoadedClaimWork ==
  ASSUME LifecycleInv, claim # None, NEW s \in Sources \union {None},
         NEW back \in {"startup", "approval"}, back = "approval" => s \in Sources
  PROVE  LET w == LoadedClaim(back, s)
         IN /\ w \in Work /\ IsNamed(w) /\ w.pc = "recover" /\ w.job = claim
            /\ claim \in Jobs /\ job[claim].kind # "none"
<1> DEFINE w == LoadedClaim(back, s)
<1>1. claim \in Jobs /\ job[claim].kind = "publish"
  BY DEF LifecycleInv, TypeOK, ClaimIsOpen
<1>2. job[claim].source \in Sources
  BY <1>1 DEF LifecycleInv, JobsNameDocuments
<1>3. source[job[claim].source].path \in Paths \union {None}
  BY <1>2 DEF LifecycleInv, TypeOK, SourceRow
<1>4. w \in Work /\ w.pc = "recover" /\ w.job = claim /\ w.s = s /\ w.back = back
  <2> DEFINE p == source[job[claim].source].path
  <2>1. w = [Idle EXCEPT !.pc = "recover", !.back = back, !.s = s, !.job = claim, !.p = p]
    BY DEF LoadedClaim
  <2>2. p \in Paths \union {None}
    BY <1>3
  <2> HIDE DEF p, w
  <2> QED
    BY <1>1, <2>1, <2>2, IdleWork DEF Work, Steps, PublisherSteps
<1> HIDE DEF w
<1>5. IsNamed(w)
  BY <1>1, <1>4 DEF IsNamed, IngestSteps, PublisherSteps, ReanalysisSteps, Withdrawals
<1> QED
  BY <1>1, <1>4, <1>5 DEF w

(* An approval takes the lock, with the claim an earlier one left.           *)
LEMMA StartApprovalStep ==
  ASSUME WikiTyped, LifecycleInv, Publisher \in Tasks, NEW s \in Sources, StartApproval(s)
  PROVE  [Next]_vars /\ WikiTyped'
<1>1. /\ guard = None /\ guard' = Publisher /\ UNCHANGED <<vars, folder, bundle, pass>>
      /\ pass[Publisher] \in Passes /\ pass' = [pass EXCEPT ![Publisher] = pass[Publisher]]
  BY PassOf DEF StartApproval, world, outside
<1>2. FilesTyped' /\ [Next]_vars
  BY <1>1, FilesStay
<1>3. CASE claim = None
  <2> DEFINE w == [Idle EXCEPT !.pc = "approve", !.back = "approval", !.s = s]
  <2>1. w \in Work /\ w.pc = "approve" /\ w.s = s
    BY IdleWork DEF Work, Steps
  <2>2. task' = [task EXCEPT ![Publisher] = w]
    BY <1>3 DEF StartApproval
  <2> HIDE DEF w
  <2>3. IsNamed(w) /\ ~Sweeps(w) /\ w.pc \notin PublisherSteps /\ w.pc \in LockedSteps
    BY <2>1 DEF IsNamed, Sweeps, IngestSteps, PublisherSteps, ReanalysisSteps, Withdrawals,
       LockedSteps
  <2> QED
    BY <1>1, <1>2, <2>1, <2>2, <2>3, TaskStepTyped
<1>4. CASE claim # None
  <2> DEFINE w == LoadedClaim("approval", s)
  <2>1. task' = [task EXCEPT ![Publisher] = w]
    BY <1>4 DEF StartApproval
  <2>2. w \in Work /\ IsNamed(w) /\ w.pc = "recover" /\ w.job = claim
    BY <1>4, LoadedClaimWork
  <2>3. job'[w.job].kind # "none"
    BY <1>1, <1>4, <2>2, LoadedClaimWork DEF vars
  <2> HIDE DEF w
  <2>4. ~Sweeps(w) /\ w.pc \in LockedSteps
    BY <2>2 DEF Sweeps, Withdrawals, LockedSteps
  <2> QED
    BY <1>1, <1>2, <2>1, <2>2, <2>3, <2>4, TaskStepTyped
<1> QED
  BY <1>3, <1>4

(* A claim that was left is finished or cancelled.                           *)
LEMMA RecoverClaimStep ==
  ASSUME WikiTyped, LifecycleInv, Publisher \in Tasks, RecoverClaim
  PROVE  [Next]_vars /\ WikiTyped'
<1>1. /\ task[Publisher].pc \in PublisherSteps /\ UNCHANGED <<vars, folder, bundle, pass>>
  BY DEF RecoverClaim, At, PublisherSteps, outside
<1>2. FilesTyped' /\ [Next]_vars
  BY <1>1, FilesStay
<1>3. \/ PublisherEnds
      \/ UNCHANGED guard /\ \E pc \in PublisherSteps : Goto(Publisher, pc)
  BY DEF RecoverClaim, PublisherSteps
<1> QED
  BY <1>1, <1>2, <1>3, PublisherFrame, PublisherGoto

(* The claim of an approval is made.                                         *)
LEMMA ApproveStep ==
  ASSUME WikiTyped, LifecycleInv, Publisher \in Tasks, NEW j \in Jobs, NEW d \in Drafts,
         Approve(j, d)
  PROVE  [Next]_vars /\ WikiTyped'
<1> DEFINE s == task[Publisher].s
<1> DEFINE w == [task[Publisher] EXCEPT !.pc = "page", !.back = "own", !.job = j,
                                        !.p = source[s].path]
<1>1. /\ task[Publisher].pc = "approve" /\ s \in Sources /\ task[Publisher] \in Work
      /\ UNCHANGED <<folder, bundle, pass, guard>> /\ BeginPublication(j, s, d)
  BY PublisherWork DEF Approve, At, world, outside
<1>2. [Next]_vars
  BY <1>1 DEF Next, Publish
<1>3. FilesTyped'
  BY <1>1, FilesStay
<1>4. w \in Work /\ w.pc = "page" /\ w.back = "own" /\ w.job = j
  <2>1. source[s].path \in Paths \union {None}
    BY <1>1 DEF LifecycleInv, TypeOK, SourceRow
  <2> QED
    BY <1>1, <2>1 DEF Work, Steps, PublisherSteps
<1>5. task' = [task EXCEPT ![Publisher] = w]
  BY DEF Approve
<1>6. job'[w.job].kind # "none"
  BY <1>1, <1>4 DEF BeginPublication, StartJob, LifecycleInv, TypeOK
<1> HIDE DEF w
<1>7. IsNamed(w) /\ w.pc \in PublisherSteps
  BY <1>4 DEF IsNamed, IngestSteps, PublisherSteps, ReanalysisSteps, Withdrawals
<1> QED
  BY <1>1, <1>2, <1>3, <1>4, <1>5, <1>6, <1>7, PublisherFrame

(* An approval is refused.                                                   *)
LEMMA ApproveFailsStep ==
  ASSUME WikiTyped, LifecycleInv, Publisher \in Tasks, ApproveFails
  PROVE  [Next]_vars /\ WikiTyped'
<1>1. /\ task[Publisher].pc = "approve" /\ UNCHANGED <<vars, folder, bundle, pass>>
      /\ PublisherEnds
  BY DEF ApproveFails, At, outside
<1>2. FilesTyped' /\ [Next]_vars
  BY <1>1, FilesStay
<1> QED
  BY <1>1, <1>2, PublisherFrame

(* A failure leaves the claim to the next recovery, or cancels it.              *)
LEMMA FailsOrGoesOn ==
  ASSUME WikiTyped, LifecycleInv, [Next]_vars, Publisher \in Tasks,
         task[Publisher].pc \in PublisherSteps, FilesTyped', UNCHANGED pass,
         \/ PublisherFails
         \/ PublisherEnds
         \/ PublisherGoesOn
         \/ /\ UNCHANGED guard
            /\ \E pc \in PublisherSteps :
                 \/ Goto(Publisher, pc)
                 \/ \E listed \in SUBSET Sources :
                      task' = [task EXCEPT ![Publisher].pc = pc, ![Publisher].listed = listed]
                 \/ task' = [task EXCEPT ![Publisher].pc = pc]
  PROVE  WikiTyped'
<1>1. \/ PublisherEnds
      \/ PublisherGoesOn
      \/ /\ UNCHANGED guard
         /\ \E pc \in PublisherSteps :
              \/ Goto(Publisher, pc)
              \/ \E listed \in SUBSET Sources :
                   task' = [task EXCEPT ![Publisher].pc = pc, ![Publisher].listed = listed]
  BY DEF PublisherFails, PublisherSteps, Goto
<1> QED
  BY <1>1, PublisherFrame, PublisherGoto

(* The files of a publication, or of its cancellation, are written.          *)
LEMMA MaterializeStep ==
  ASSUME WikiTyped, LifecycleInv, Publisher \in Tasks,
         WritePage \/ WriteIndex \/ WriteLog \/ DiscardPage \/ Unlist
  PROVE  [Next]_vars /\ WikiTyped'
<1> DEFINE j == task[Publisher].job
<1> DEFINE s == job[j].source
<1>1. /\ task[Publisher].pc \in PublisherSteps /\ UNCHANGED <<vars, folder, pass>>
  BY DEF WritePage, WriteIndex, WriteLog, DiscardPage, Unlist, At, PublisherSteps, outside
<1>2. /\ j \in Jobs /\ s \in Sources /\ job[j].sha \in Hashes /\ job[j].revision \in Revisions
      /\ task[Publisher].listed \subseteq Sources
  BY <1>1, PublisherWork DEF Work
<1>3. [Next]_vars
  BY <1>1
<1>4. FilesTyped'
  <2>1. CASE WritePage \/ DiscardPage
    BY <1>2, <2>1, PageTyped DEF WritePage, DiscardPage, ClaimIsCurrent, Publishing, outside
  <2>2. CASE WriteIndex \/ Unlist
    BY <1>2, <2>2 DEF WriteIndex, Unlist, WikiTyped, FilesTyped, outside
  <2>3. CASE WriteLog
    <3>1. Publication(j) \in [what : {"published", "removed"}, s : Sources, sha : Hashes,
                              revision : Revisions]
      BY <1>2 DEF Publication
    <3> QED
      BY <2>3, <3>1 DEF WriteLog, WikiTyped, FilesTyped, outside
  <2> QED
    BY <2>1, <2>2, <2>3
<1>5. Published \in SUBSET Sources /\ Published \union {s} \in SUBSET Sources
  BY <1>2 DEF Published
<1>6. \/ PublisherFails
      \/ PublisherEnds
      \/ /\ UNCHANGED guard
         /\ \E pc \in PublisherSteps :
              \/ Goto(Publisher, pc)
              \/ \E listed \in SUBSET Sources :
                   task' = [task EXCEPT ![Publisher].pc = pc, ![Publisher].listed = listed]
  BY <1>5 DEF WritePage, WriteIndex, WriteLog, DiscardPage, Unlist, PublisherSteps
<1> QED
  BY <1>1, <1>3, <1>4, <1>6, FailsOrGoesOn

(* The last transaction of a publication.                                    *)
LEMMA CommitStep ==
  ASSUME WikiTyped, LifecycleInv, Publisher \in Tasks, Commit
  PROVE  [Next]_vars /\ WikiTyped'
<1>1. /\ task[Publisher].pc \in PublisherSteps /\ UNCHANGED <<folder, bundle, pass>>
  BY DEF Commit, At, PublisherSteps, outside
<1>2. FilesTyped' /\ task[Publisher].job \in Jobs
  BY <1>1, FilesStay, PublisherWork
<1>3. [Next]_vars
  BY <1>2 DEF Commit, Next, Publish
<1>4. PublisherGoesOn \/ PublisherFails
  BY DEF Commit
<1> QED
  BY <1>1, <1>2, <1>3, <1>4, FailsOrGoesOn

(* The transactions of a cancellation.                                       *)
LEMMA CancelStep ==
  ASSUME WikiTyped, LifecycleInv, Publisher \in Tasks, BeginCancel \/ FinishCancel
  PROVE  [Next]_vars /\ WikiTyped'
<1>1. /\ task[Publisher].pc \in PublisherSteps /\ UNCHANGED <<folder, bundle, pass, guard>>
  BY DEF BeginCancel, FinishCancel, At, PublisherSteps, world, outside
<1>2. FilesTyped' /\ task[Publisher].job \in Jobs
  BY <1>1, FilesStay, PublisherWork
<1>3. [Next]_vars
  BY <1>2 DEF BeginCancel, FinishCancel, Next, Publish
<1>4. \E pc \in PublisherSteps : Goto(Publisher, pc)
  BY DEF BeginCancel, FinishCancel, PublisherSteps, Goto
<1> QED
  BY <1>1, <1>2, <1>3, <1>4, FailsOrGoesOn

(* The draft page comes back after a cancellation.                           *)
LEMMA RestoreDraftStep ==
  ASSUME WikiTyped, LifecycleInv, Publisher \in Tasks, RestoreDraft
  PROVE  [Next]_vars /\ WikiTyped'
<1> DEFINE s == job[task[Publisher].job].source
<1>1. /\ task[Publisher].pc \in PublisherSteps /\ UNCHANGED <<folder, index, log, pass>>
  BY DEF RestoreDraft, At, PublisherSteps, outside
<1>2. s \in Sources
  BY <1>1, PublisherWork
<1>3. [Next]_vars
  BY <1>2 DEF RestoreDraft, Next, FailClosed
<1>4. FilesTyped'
  BY <1>1, <1>2, PageTyped DEF RestoreDraft, MayWriteDraft
<1>5. PublisherGoesOn \/ PublisherEnds
  BY DEF RestoreDraft
<1> QED
  BY <1>1, <1>3, <1>4, <1>5, FailsOrGoesOn

-------------------------------------------------------------------------------
(* Reanalysis *)

LEMMA StartReanalysisStep ==
  ASSUME WikiTyped, LifecycleInv, NEW t \in Tasks, NEW s \in Sources, NEW j \in Jobs,
         StartReanalysis(t, s, j)
  PROVE  [Next]_vars /\ WikiTyped'
<1> DEFINE w == [Idle EXCEPT !.pc = "regenerate", !.s = s, !.job = j, !.p = source[s].path,
                             !.sha = source[s].sha]
<1>1. /\ task[t].pc = "idle" /\ UNCHANGED <<folder, bundle, pass, guard>>
      /\ BeginReanalysis(j, s) /\ task' = [task EXCEPT ![t] = w]
  BY DEF StartReanalysis, At, world, outside
<1>2. [Next]_vars /\ UNCHANGED claim
  BY <1>1 DEF Next, Review, BeginReanalysis
<1>3. w \in Work /\ w.pc = "regenerate" /\ w.s = s /\ w.job = j
  <2>1. source[s].path \in Paths \union {None} /\ source[s].sha \in Hashes \union {None}
    BY DEF LifecycleInv, TypeOK, SourceRow
  <2> QED
    BY <2>1, IdleWork DEF Work, Steps, ReanalysisSteps
<1> HIDE DEF w
<1>4. IsNamed(w) /\ ~Sweeps(w) /\ w.pc \notin LockedSteps
  BY <1>3 DEF IsNamed, Sweeps, IngestSteps, PublisherSteps, ReanalysisSteps, Withdrawals,
     LockedSteps
<1> QED
  BY <1>1, <1>2, <1>3, <1>4, PassOf, FreeStep DEF LockedSteps

(* A reanalysis has its new proposal, or gives up.                           *)
LEMMA RegenerateStep ==
  ASSUME WikiTyped, LifecycleInv, NEW t \in Tasks, Regenerate(t) \/ ReplaceFails(t)
  PROVE  [Next]_vars /\ WikiTyped'
<1>1. /\ task[t].pc \in {"regenerate", "replace"}
      /\ UNCHANGED <<vars, folder, bundle, pass, guard>>
  BY DEF Regenerate, ReplaceFails, At, outside
<1>2. PICK pc \in {"replace", "abandon"} : Goto(t, pc)
  BY DEF Regenerate, ReplaceFails
<1>3. PICK w \in Work : /\ task' = [task EXCEPT ![t] = w] /\ w.pc = pc
                        /\ IsNamed(w) /\ ~Sweeps(w)
  BY <1>1, <1>2, GotoWork DEF ReanalysisSteps
<1> QED
  BY <1>1, <1>2, <1>3, PassOf, FreeStep DEF LockedSteps, vars

(* The draft is replaced, and the lock taken for its page.                   *)
LEMMA ReplaceDraftStep ==
  ASSUME WikiTyped, LifecycleInv, NEW t \in Tasks, NEW d \in Drafts, ReplaceDraft(t, d)
  PROVE  [Next]_vars /\ WikiTyped'
<1>1. /\ task[t].pc = "replace" /\ guard = None /\ guard' = t /\ task[t].job \in Jobs
      /\ UNCHANGED <<folder, bundle, pass>>
  BY PassOf DEF ReplaceDraft, At, IsNamed, ReanalysisSteps, world, outside
<1>2. [Next]_vars /\ UNCHANGED claim
  BY <1>1 DEF ReplaceDraft, Next, Review, CompleteReanalysis
<1>3. PICK w \in Work : /\ task' = [task EXCEPT ![t] = w] /\ w.pc = "redraft"
                        /\ IsNamed(w) /\ ~Sweeps(w)
  BY <1>1, GotoWork DEF ReplaceDraft, ReanalysisSteps
<1>4. w.pc \in LockedSteps /\ w.pc \notin PublisherSteps
  BY <1>3 DEF LockedSteps, PublisherSteps
<1>5. FilesTyped' /\ (claim' # None => Publisher \in Tasks)
  BY <1>1, <1>2, FilesStay DEF WikiTyped, ClaimHasPublisher
<1> QED
  BY <1>1, <1>2, <1>3, <1>4, <1>5, PassOf, TaskStepTyped

(* The page of the new draft is written, and the lock released.              *)
LEMMA RedraftStep ==
  ASSUME WikiTyped, LifecycleInv, NEW t \in Tasks, Redraft(t)
  PROVE  [Next]_vars /\ WikiTyped'
<1>1. /\ task[t].pc = "redraft" /\ task[t].s \in Sources
      /\ UNCHANGED <<folder, index, log, pass>> /\ guard' = None
  BY PassOf DEF Redraft, At, IsNamed, ReanalysisSteps, outside
<1>2. guard = t
  BY <1>1 DEF WikiTyped, LockIsHeld, LockedSteps
<1>3. [Next]_vars /\ UNCHANGED claim
  BY <1>1 DEF Redraft, Next, FailClosed, MarkSourceFailed, vars
<1>4. PICK w \in Work : /\ task' = [task EXCEPT ![t] = w] /\ w.pc \in {"idle", "abandon"}
                        /\ IsNamed(w) /\ ~Sweeps(w)
  <2>1. Goto(t, "abandon") \/ task' = [task EXCEPT ![t] = Idle]
    BY DEF Redraft
  <2>2. Idle \in Work /\ IsNamed(Idle) /\ Idle.pc = "idle" /\ ~Sweeps(Idle)
    BY IdleWork DEF Idle, Sweeps, Withdrawals
  <2> QED
    BY <1>1, <2>1, <2>2, GotoWork DEF ReanalysisSteps
<1>5. w.pc \notin LockedSteps /\ w.pc \notin PublisherSteps
  BY <1>4 DEF LockedSteps, PublisherSteps
<1>6. FilesTyped'
  BY <1>1, PageTyped DEF Redraft, MayWriteDraft
<1>7. claim' # None => Publisher \in Tasks
  BY <1>3 DEF WikiTyped, ClaimHasPublisher
<1> QED
  BY <1>1, <1>2, <1>3, <1>4, <1>5, <1>6, <1>7, PassOf, TaskStepTyped

(* A reanalysis gives the draft back.                                        *)
LEMMA AbandonStep ==
  ASSUME WikiTyped, LifecycleInv, NEW t \in Tasks, Abandon(t)
  PROVE  [Next]_vars /\ WikiTyped'
<1>1. /\ task[t].pc = "abandon" /\ task[t].job \in Jobs
      /\ UNCHANGED <<folder, bundle, pass, guard>> /\ task' = [task EXCEPT ![t] = Idle]
  BY PassOf DEF Abandon, At, IsNamed, ReanalysisSteps, world, outside
<1>2. [Next]_vars /\ UNCHANGED claim
  BY <1>1 DEF Abandon, Next, Review, FailReanalysis, vars
<1>3. Idle \in Work /\ IsNamed(Idle) /\ Idle.pc = "idle"
  BY IdleWork DEF Idle
<1> QED
  BY <1>1, <1>2, <1>3, PassOf, FreeStep DEF LockedSteps, Sweeps, Withdrawals

-------------------------------------------------------------------------------
(* The person, the folder and the process *)

LEMMA OutsideStep ==
  ASSUME WikiTyped, LifecycleInv,
         \/ \E s \in Sources : Person(s)
         \/ \E p \in Paths, content \in Hashes \union {None} : EditFolder(p, content)
         \/ \E p, q \in Paths : RenameFile(p, q)
  PROVE  [Next]_vars /\ WikiTyped'
<1>1. UNCHANGED <<bundle, control>>
  BY DEF Person, EditFolder, RenameFile
<1>2. [Next]_vars /\ UNCHANGED claim
  BY DEF Person, EditFolder, RenameFile, Next, Review, ShowReview, ExcludeReview, vars
<1>3. folder' \in [Paths -> Hashes \union {None}]
  <2>1. CASE \E s \in Sources : Person(s)
    BY <2>1 DEF Person, world, outside, WikiTyped, FilesTyped
  <2>2. CASE \E p \in Paths, content \in Hashes \union {None} : EditFolder(p, content)
    BY <2>2 DEF EditFolder, WikiTyped, FilesTyped
  <2>3. CASE \E p, q \in Paths : RenameFile(p, q)
    BY <2>3 DEF RenameFile, WikiTyped, FilesTyped
  <2> QED
    BY <2>1, <2>2, <2>3
<1>4. FilesTyped'
  BY <1>1, <1>3 DEF bundle, WikiTyped, FilesTyped
<1>5. TasksTyped'
  <2>1. \A t \in Tasks : task[t].pc \in PublisherSteps => job'[task[t].job].kind # "none"
    BY <1>2, KindsStay DEF WikiTyped, TasksTyped, IsNamed
  <2> QED
    BY <1>1, <2>1 DEF control, WikiTyped, TasksTyped
<1>6. LockIsHeld' /\ ClaimHasPublisher'
  BY <1>1, <1>2 DEF control, WikiTyped, LockIsHeld, ClaimHasPublisher
<1> QED
  BY <1>2, <1>4, <1>5, <1>6 DEF WikiTyped

(* After a restart no task works, but the publisher on a claim that was left. *)
LEMMA RestartStep ==
  ASSUME WikiTyped, LifecycleInv, Restart
  PROVE  [Next]_vars /\ WikiTyped'
<1>1. /\ RecoverInterruptedJobs /\ UNCHANGED <<folder, bundle, claim>>
      /\ pass' = [t \in Tasks |-> NoPass]
  BY DEF Restart, RecoverInterruptedJobs
<1>2. [Next]_vars
  BY <1>1 DEF Next, FailClosed
<1>3. FilesTyped' /\ ClaimHasPublisher'
  BY <1>1, FilesStay DEF WikiTyped, ClaimHasPublisher
<1>4. /\ Idle \in Work /\ IsNamed(Idle) /\ Idle.pc = "idle" /\ ~Sweeps(Idle)
      /\ NoPass \in Passes
  BY IdleWork DEF Idle, Sweeps, Withdrawals
<1>5. CASE claim = None
  <2>1. task' = [t \in Tasks |-> Idle] /\ guard' = None
    BY <1>5 DEF Restart
  <2>2. TasksTyped'
    BY <1>1, <1>4, <2>1 DEF TasksTyped, PublisherSteps
  <2>3. LockIsHeld'
    BY <1>4, <2>1, TaskAssumption DEF LockIsHeld, LockedSteps
  <2> QED
    BY <1>2, <1>3, <2>2, <2>3 DEF WikiTyped
<1>6. CASE claim # None
  <2> DEFINE w == LoadedClaim("startup", None)
  <2>1. /\ w \in Work /\ IsNamed(w) /\ w.pc = "recover" /\ w.job = claim
        /\ claim \in Jobs /\ job[claim].kind # "none"
    BY <1>6, LoadedClaimWork
  <2>2. task' = [[t \in Tasks |-> Idle] EXCEPT ![Publisher] = w] /\ guard' = Publisher
    BY <1>6 DEF Restart
  <2>3. job'[w.job].kind # "none"
    BY <1>2, <2>1, KindsStay
  <2> HIDE DEF w
  <2>4. Publisher \in Tasks /\ ~Sweeps(w)
    BY <1>6, <2>1 DEF WikiTyped, ClaimHasPublisher, Sweeps, Withdrawals
  <2>5. /\ \A t \in Tasks : task'[t] = IF t = Publisher THEN w ELSE Idle
        /\ task' \in [Tasks -> Work]
    BY <1>4, <2>1, <2>2
  <2>6. TasksTyped'
    BY <1>1, <1>4, <2>1, <2>3, <2>4, <2>5 DEF TasksTyped, PublisherSteps
  <2>7. LockIsHeld'
    BY <1>4, <2>1, <2>2, <2>4, <2>5 DEF LockIsHeld, LockedSteps
  <2> QED
    BY <1>2, <1>3, <2>6, <2>7 DEF WikiTyped
<1> QED
  BY <1>5, <1>6

-------------------------------------------------------------------------------
(* Every step *)

LEMMA ReconcilesStep ==
  ASSUME WikiTyped, LifecycleInv, NEW t \in Tasks, Starts(t) \/ Reconciles(t)
  PROVE  [Next]_vars /\ WikiTyped'
<1>1. CASE Starts(t)
  BY <1>1, StartPassStep, QuarantineStep DEF Starts, Quarantine, At
<1>2. CASE QuarantineUnsafe(t)
  BY <1>2, QuarantineStep DEF QuarantineUnsafe, At
<1>3. CASE Reconciles(t) /\ ~QuarantineUnsafe(t)
  BY <1>3, HashFileStep, RegisterFileStep, RereadStep, ListSourcesStep, SweepLargeStep,
     SweepGoneStep, SweepDeadStep, EndSweepStep, UnlinkStep, RelistStep, LogRemovalStep,
     WithdrawnStep, WithdrawFailsStep
     DEF Reconciles
<1> QED
  BY <1>1, <1>2, <1>3

(* Every step of the running system is a transaction of the tables, or leaves  *)
(* them alone, and keeps its own types.                                        *)
LEMMA WikiStep ==
  ASSUME WikiTyped, LifecycleInv, [WikiNext]_wikiVars
  PROVE  [Next]_vars /\ WikiTyped'
<1>1. CASE UNCHANGED wikiVars
  BY <1>1 DEF wikiVars, vars, bundle, control, world, outside, WikiTyped, FilesTyped,
     TasksTyped, LockIsHeld, ClaimHasPublisher
<1>2. CASE \E t \in Tasks : Starts(t) \/ Reconciles(t)
  BY <1>2, ReconcilesStep
<1>3. CASE \E t \in Tasks : Ingests(t)
  BY <1>3, ClaimPendingStep, ExtractStep, EmbedStep, WriteDraftStep, FinishIngestStep,
     EndScanStep
     DEF Ingests
<1>4. CASE Publisher \in Tasks /\ (Publishes \/ \E s \in Sources : StartApproval(s))
  BY <1>4, StartApprovalStep, RecoverClaimStep, ApproveStep, ApproveFailsStep,
     MaterializeStep, CommitStep, CancelStep, RestoreDraftStep
     DEF Publishes
<1>5. CASE \E t \in Tasks : \/ Reanalyzes(t)
                            \/ \E s \in Sources, j \in Jobs : StartReanalysis(t, s, j)
  BY <1>5, StartReanalysisStep, RegenerateStep, ReplaceDraftStep, RedraftStep, AbandonStep
     DEF Reanalyzes
<1>6. CASE \/ \E s \in Sources : Person(s)
           \/ \E p \in Paths, content \in Hashes \union {None} : EditFolder(p, content)
           \/ \E p, q \in Paths : RenameFile(p, q)
  BY <1>6, OutsideStep
<1>7. CASE Restart
  BY <1>7, RestartStep
<1> QED
  BY <1>1, <1>2, <1>3, <1>4, <1>5, <1>6, <1>7 DEF WikiNext, TaskStep

(* The initial states.                                                       *)
LEMMA WikiStart == WikiInit => Init /\ LifecycleInv /\ WikiTyped
<1> SUFFICES ASSUME WikiInit PROVE Init /\ LifecycleInv /\ WikiTyped
  OBVIOUS
<1>1. Init /\ LifecycleInv
  BY InitSatisfiesInv DEF WikiInit
<1>2. FilesTyped
  BY DEF WikiInit, FilesTyped
<1>3. /\ Idle \in Work /\ IsNamed(Idle) /\ Idle.pc = "idle" /\ ~Sweeps(Idle)
      /\ NoPass \in Passes
  BY IdleWork DEF Idle, Sweeps, Withdrawals
<1>4. TasksTyped
  BY <1>3 DEF WikiInit, TasksTyped, PublisherSteps
<1>5. LockIsHeld
  BY <1>3, TaskAssumption DEF WikiInit, LockIsHeld, LockedSteps
<1>6. ClaimHasPublisher
  BY DEF WikiInit, Init, ClaimHasPublisher
<1> QED
  BY <1>1, <1>2, <1>4, <1>5, <1>6 DEF WikiTyped

(* The running system only ever runs the transactions of SourceLifecycle: what  *)
(* is proved of the tables holds of it.                                        *)
THEOREM WikiRunsTheTables == WikiSpec => Spec /\ [](LifecycleInv /\ WikiTyped)
<1>1. LifecycleInv /\ WikiTyped /\ [WikiNext]_wikiVars => (LifecycleInv /\ WikiTyped)'
  BY WikiStep, StepKeepsInv
<1>2. LifecycleInv /\ WikiTyped /\ [WikiNext]_wikiVars => [Next]_vars
  BY WikiStep
<1> QED
  BY <1>1, <1>2, WikiStart, PTL DEF WikiSpec, Spec

(* Every variable of the wiki has its type, and the publication lock is held by *)
(* the one task that is between steps which need it (FolderWiki!WikiTypeOK).    *)
THEOREM WikiTypeCorrectness == WikiSpec => []WikiTypeOK
<1>1. LifecycleInv /\ WikiTyped => WikiTypeOK
  BY DEF LifecycleInv, WikiTyped, FilesTyped, TasksTyped, LockIsHeld, WikiTypeOK, Work
<1> QED
  BY <1>1, WikiRunsTheTables, PTL

(* In the running system, too, whatever is searchable is what a person last     *)
(* approved, and the tables keep the promise of ReviewedPublication.            *)
THEOREM WikiKeepsThePromise == WikiSpec => []ExposureIsReviewed /\ ImplementsPromise
  BY WikiRunsTheTables, ExposureIsAlwaysReviewed, TablesImplementPromise, PTL

-------------------------------------------------------------------------------
(* The pages of the bundle are of the stored bytes                              *)

(* The page of s, if it has one, is of the bytes and the revision stored.       *)
PageFits(s) ==
  page[s] # NoPage =>
    page[s].version.sha = source[s].sha /\ page[s].version.revision = source[s].revision

(* x, a pending document or the work of a task, names the stored revision.      *)
NamesStored(x) == source[x.s].sha = x.sha /\ source[x.s].revision = x.revision

(* x may be prepared as soon as it is the stored revision: by then the page of  *)
(* an older one has left the bundle.                                           *)
MayPrepare(x) ==
  /\ x.revision <= source[x.s].revision
  /\ NamesStored(x) => PageFits(x.s)

(* A registration that withdraws the page of its document first: it purges that *)
(* document, and is done with it once nothing is left to purge.                 *)
WithdrawsFirst(w) ==
  /\ w.pc = "reread" => w.purge # {} /\ \A x \in w.purge : x.s = w.s
  /\ w.pc \in Withdrawals /\ w.back = "register" =>
       /\ \A x \in w.purge : x.s = w.s
       /\ w.revision <= source[w.s].revision
       /\ (w.pc # "withdraw" \/ w.purge = {}) => MayPrepare(w)

(* Statuses a document reaches only once its pages are of the stored bytes.     *)
Prepared == Settled \union {"extracted", "enriched"}

PagesFit ==
  /\ \A s \in Sources :
       /\ source[s].status \in Prepared => PageFits(s)
       /\ ActiveIngest(s) => PageFits(s)
       /\ ~source[s].linked => page[s] = NoPage
  /\ \A t \in Tasks : \A r \in pass[t].pending : MayPrepare(r)
  /\ \A t \in Tasks : WithdrawsFirst(task[t])

(* What a transaction does to a document: it keeps its bytes and its revision,  *)
(* or starts a new revision; nothing runs of a document that is detected anew;  *)
(* only a running ingestion makes a detected one prepared; a concept is never   *)
(* unlinked.                                                                   *)
Moves(s) ==
  /\ \/ source'[s].sha = source[s].sha /\ source'[s].revision = source[s].revision
     \/ /\ source'[s].status = "detected" /\ source'[s].revision > source[s].revision
        /\ ~ActiveIngest(s)'
  /\ source'[s].status = "detected" => source[s].status = "detected" \/ ~ActiveIngest(s)'
  /\ source'[s].status \in Prepared =>
       \/ source[s].status \in Prepared
       \/ source[s].status = "detected" /\ ActiveIngest(s)
  /\ source[s].linked => source'[s].linked

NoNewIngest == \A s \in Sources : ActiveIngest(s)' => ActiveIngest(s)

(* A transaction that only sets the status of some documents.                *)
LEMMA StatusMoves ==
  ASSUME NEW S, NEW status, source \in [Sources -> SourceRow],
         source' = WithStatus(source, S, status),
         status \in {"failed", "deleted"} \/
           (status # "detected" /\ \A s \in S : s \in Sources => source[s].status \in Prepared)
  PROVE  \A s \in Sources : Moves(s)
BY DEF WithStatus, SourceRow, Moves, Prepared, Settled

(* Registrations.                                                            *)
LEMMA RegisterMoves ==
  ASSUME LifecycleInv, Register
  PROVE  (\A s \in Sources : Moves(s)) /\ NoNewIngest
<1>1. PICK s \in Sources, p \in Paths, h \in Hashes :
        \/ RegisterRetry(s, p, h)
        \/ RegisterReplaced(s, p, h)
        \/ \E missing \in SUBSET Paths :
             RegisterMoved(s, p, h, missing) \/ RegisterNew(s, p, h, missing)
  BY DEF Register
<1>2. source \in [Sources -> SourceRow] /\ job \in [Jobs -> JobRow]
  BY Typed
<1>3. Withdraw({s}, "needs_review") => NoNewIngest /\ ~ActiveIngest(s)'
  <2> SUFFICES ASSUME Withdraw({s}, "needs_review") PROVE NoNewIngest /\ ~ActiveIngest(s)'
    OBVIOUS
  <2>1. \A j \in Jobs : /\ job'[j].kind = job[j].kind /\ job'[j].source = job[j].source
                        /\ job'[j].state = "running" => job[j].state = "running"
                        /\ job'[j].state = "running" /\ job[j].kind = "ingest" =>
                             job[j].source # s
    BY WithdrawnJobs DEF Withdraw, LifecycleInv, TypeOK, ClaimIsOpen
  <2> QED
    BY <2>1 DEF NoNewIngest, ActiveIngest, RunningJobs
<1>4. CASE RegisterRetry(s, p, h)
  BY <1>2, <1>3, <1>4 DEF RegisterRetry, Moves, SourceRow, Prepared, Settled
<1>5. CASE RegisterReplaced(s, p, h)
  <2>1. source[s].revision \in Nat
    BY <1>2 DEF SourceRow, Revisions
  <2>2. source'[s].revision > source[s].revision /\ source'[s].status = "detected"
    BY <1>2, <1>5, <2>1 DEF RegisterReplaced, SourceRow
  <2> QED
    BY <1>2, <1>3, <1>5, <2>2 DEF RegisterReplaced, Moves, SourceRow, Prepared, Settled
<1>6. CASE \E missing \in SUBSET Paths : RegisterMoved(s, p, h, missing)
  <2>1. CASE source[s].status \in Settled
    BY <1>2, <1>6, <2>1
       DEF RegisterMoved, Moves, SourceRow, Prepared, NoNewIngest, ActiveIngest, RunningJobs
  <2>2. CASE source[s].status \notin Settled
    BY <1>2, <1>3, <1>6, <2>2 DEF RegisterMoved, Moves, SourceRow, Prepared, Settled
  <2> QED
    BY <2>1, <2>2
<1>7. CASE \E missing \in SUBSET Paths : RegisterNew(s, p, h, missing)
  <2>1. source[s].status = "absent" /\ source[s].sha = None /\ ~source[s].linked
        /\ source[s].revision = 0
    BY <1>7 DEF RegisterNew, Exists, LifecycleInv, TypeOK, AbsentRowsAreEmpty
  <2>2. ~ActiveIngest(s)
    BY <2>1, NoneAssumption
       DEF ActiveIngest, RunningJobs, LifecycleInv, IngestIsExclusive, Owns, JobsNameDocuments
  <2>3. /\ source'[s] = [status |-> "detected", sha |-> h, revision |-> 1, path |-> p,
                         linked |-> FALSE]
        /\ \A t \in Sources : t # s => source'[t] = source[t]
        /\ UNCHANGED job
    BY <1>2, <1>7 DEF RegisterNew
  <2>4. NoNewIngest
    BY <2>3 DEF NoNewIngest, ActiveIngest, RunningJobs
  <2> QED
    BY <2>1, <2>2, <2>3, <2>4 DEF Moves, NoNewIngest, Prepared, Settled
<1> QED
  BY <1>1, <1>4, <1>5, <1>6, <1>7

(* An ingestion that is under way.                                             *)
Prepare(j) ==
  \/ MarkExtracted(j) \/ MarkEnriched(j) \/ ReplaceChunks(j) \/ CompleteIngestJob(j)
  \/ \E d \in Drafts : SaveEnrichment(j, d)
  \/ \E markSource \in BOOLEAN : FailIngestJob(j, markSource)

(* Steps of an ingestion.                                                    *)
LEMMA PrepareMoves ==
  ASSUME LifecycleInv, NEW j \in Jobs, Prepare(j)
  PROVE  (\A s \in Sources : Moves(s)) /\ NoNewIngest
<1>1. source \in [Sources -> SourceRow] /\ job \in [Jobs -> JobRow]
  BY Typed
<1>2. NoNewIngest
  <2>1. UNCHANGED job \/ FinishJob(j)
    BY DEF Prepare, MarkExtracted, MarkEnriched, ReplaceChunks, CompleteIngestJob,
       SaveEnrichment, FailIngestJob
  <2>2. \A i \in Jobs : /\ job'[i].kind = job[i].kind /\ job'[i].source = job[i].source
                        /\ job'[i].state = "running" => job[i].state = "running"
    BY <2>1, FinishedJob
  <2> QED
    BY <2>2 DEF NoNewIngest, ActiveIngest, RunningJobs
<1>3. CASE \E status \in {"extracted", "enriched"}, old \in {"detected", "extracted"} :
             /\ source' = [source EXCEPT ![job[j].source].status = status]
             /\ IngestOwns(j, old)
  <2>1. PICK status \in {"extracted", "enriched"}, old \in {"detected", "extracted"} :
          /\ source' = [source EXCEPT ![job[j].source].status = status]
          /\ IngestOwns(j, old)
    BY <1>3
  <2>2. /\ job[j].source \in Sources /\ ActiveIngest(job[j].source)
        /\ source[job[j].source].status = old
    BY <2>1, IngestOwner DEF IngestOwns, Owns, ActiveIngest, RunningJobs
  <2>3. old \in Prepared \/ old = "detected"
    BY DEF Prepared
  <2> QED
    BY <1>1, <1>2, <2>1, <2>2, <2>3 DEF Moves, SourceRow
<1>4. CASE \E d \in Drafts : SaveEnrichment(j, d)
  BY <1>1, <1>2, <1>4, IngestOwner DEF SaveEnrichment, IngestOwns, Moves, Prepared, SourceRow
<1>5. CASE source' = source
  BY <1>2, <1>5 DEF Moves
<1>6. CASE source' = WithStatus(source, {job[j].source}, "failed")
  BY <1>1, <1>2, <1>6, StatusMoves
<1> QED
  BY <1>3, <1>4, <1>5, <1>6
     DEF Prepare, MarkExtracted, MarkEnriched, ReplaceChunks, CompleteIngestJob, FailIngestJob

(* Steps of the review.                                                      *)
LEMMA ReviewMoves ==
  ASSUME LifecycleInv, Review
  PROVE  (\A s \in Sources : Moves(s)) /\ NoNewIngest
<1>1. source \in [Sources -> SourceRow] /\ job \in [Jobs -> JobRow]
  BY Typed
<1>2. NoNewIngest
  <2>1. \/ UNCHANGED job
        \/ \E j \in Jobs : FinishJob(j)
        \/ \E j \in Jobs, s \in Sources : BeginReanalysis(j, s)
    BY DEF Review, ShowReview, ExcludeReview, CompleteReanalysis, FailReanalysis
  <2>2. CASE \E j \in Jobs, s \in Sources : BeginReanalysis(j, s)
    BY <1>1, <2>2 DEF BeginReanalysis, StartJob, NoNewIngest, ActiveIngest, RunningJobs
  <2>3. CASE UNCHANGED job \/ \E j \in Jobs : FinishJob(j)
    <3>1. \A i \in Jobs : /\ job'[i].kind = job[i].kind /\ job'[i].source = job[i].source
                          /\ job'[i].state = "running" => job[i].state = "running"
      BY <2>3, FinishedJob
    <3> QED
      BY <3>1 DEF NoNewIngest, ActiveIngest, RunningJobs
  <2> QED
    BY <2>1, <2>2, <2>3
<1>3. \/ UNCHANGED source
      \/ \E s \in Sources, status \in SourceStatus \ {"detected"} :
           source[s].status \in Prepared /\ source' = WithStatus(source, {s}, status)
  <2>1. {"excluded", "enriched", "needs_review"} \subseteq SourceStatus \ {"detected"}
    BY DEF SourceStatus, Settled, InFlight
  <2> QED
    BY <2>1 DEF Review, ShowReview, ExcludeReview, BeginReanalysis, CompleteReanalysis,
       FailReanalysis, AwaitingReview, Reanalyzing, Owns, LifecycleInv, JobsNameDocuments,
       Prepared, Settled
<1>4. CASE UNCHANGED source
  BY <1>2, <1>4 DEF Moves
<1>5. CASE \E s \in Sources, status \in SourceStatus \ {"detected"} :
             source[s].status \in Prepared /\ source' = WithStatus(source, {s}, status)
  BY <1>1, <1>2, <1>5, StatusMoves
<1> QED
  BY <1>3, <1>4, <1>5

(* Steps of a publication.                                                   *)
LEMMA PublishMoves ==
  ASSUME LifecycleInv, Publish
  PROVE  (\A s \in Sources : Moves(s)) /\ NoNewIngest
<1>1. source \in [Sources -> SourceRow] /\ job \in [Jobs -> JobRow]
  BY Typed
<1>2. NoNewIngest
  <2>1. \/ \E j \in Jobs : FinishJob(j)
        \/ \E j \in Jobs : MarkPublicationCancelling(j)
        \/ \E j \in Jobs, s \in Sources, d \in Drafts : BeginPublication(j, s, d)
    BY DEF Publish, CompletePublication, FinishPublicationCancellation
  <2>2. CASE \E j \in Jobs, s \in Sources, d \in Drafts : BeginPublication(j, s, d)
    BY <1>1, <2>2 DEF BeginPublication, StartJob, NoNewIngest, ActiveIngest, RunningJobs
  <2>3. CASE \E j \in Jobs : FinishJob(j)
    <3>1. \A i \in Jobs : /\ job'[i].kind = job[i].kind /\ job'[i].source = job[i].source
                          /\ job'[i].state = "running" => job[i].state = "running"
      BY <2>3, FinishedJob
    <3> QED
      BY <3>1 DEF NoNewIngest, ActiveIngest, RunningJobs
  <2>4. CASE \E j \in Jobs : MarkPublicationCancelling(j)
    BY <1>1, <2>4
       DEF MarkPublicationCancelling, JobRow, NoNewIngest, ActiveIngest, RunningJobs
  <2> QED
    BY <2>1, <2>2, <2>3, <2>4
<1>3. \/ UNCHANGED source
      \/ \E s \in Sources, status \in SourceStatus \ {"detected"} :
           source[s].status \in Prepared /\ source' = WithStatus(source, {s}, status)
  <2>1. {"publishing", "published", "needs_review"} \subseteq SourceStatus \ {"detected"}
    BY DEF SourceStatus, Settled, InFlight
  <2>2. \A j \in Jobs : claim = j => job[j].source \in Sources
    BY NoneAssumption DEF LifecycleInv, ClaimIsOpen, JobsNameDocuments
  <2> QED
    BY <2>1, <2>2 DEF Publish, BeginPublication, CompletePublication, MayCommit, Publishing,
       MarkPublicationCancelling, FinishPublicationCancellation, ReturnClaimed,
       MatchesReviewed, AwaitingReview, Prepared, Settled
<1>4. CASE UNCHANGED source
  BY <1>2, <1>4 DEF Moves
<1>5. CASE \E s \in Sources, status \in SourceStatus \ {"detected"} :
             source[s].status \in Prepared /\ source' = WithStatus(source, {s}, status)
  BY <1>1, <1>2, <1>5, StatusMoves
<1> QED
  BY <1>3, <1>4, <1>5

(* Withdrawals, quarantines and the recovery.                                *)
LEMMA FailClosedMoves ==
  ASSUME LifecycleInv, FailClosed
  PROVE  (\A s \in Sources : Moves(s)) /\ NoNewIngest
<1>1. source \in [Sources -> SourceRow] /\ job \in [Jobs -> JobRow]
  BY Typed
<1>2. NoNewIngest
  <2>1. \A i \in Jobs : /\ job'[i].kind = job[i].kind /\ job'[i].source = job[i].source
                        /\ job'[i].state = "running" => job[i].state = "running"
    <3>1. CASE \E S \in SUBSET Sources : \E status : Withdraw(S, status)
      BY <3>1, WithdrawnJobs DEF Withdraw, LifecycleInv
    <3>2. CASE RecoverInterruptedJobs
      BY <1>1, <3>2 DEF RecoverInterruptedJobs, JobRow
    <3>3. CASE UNCHANGED job
      BY <3>3
    <3> QED
      BY <3>1, <3>2, <3>3 DEF FailClosed, ReturnToReview, MarkSourceFailed, MarkDeleted,
         QuarantineSource, QuarantineCollection
  <2> QED
    BY <2>1 DEF NoNewIngest, ActiveIngest, RunningJobs
<1>3. CASE RecoverInterruptedJobs
  <2>1. \A s \in Sources :
          /\ source'[s].sha = source[s].sha /\ source'[s].revision = source[s].revision
          /\ source'[s].linked = source[s].linked
          /\ source'[s].status \in {source[s].status, "failed", "needs_review"}
          /\ source'[s].status = "needs_review" =>
               source[s].status \in {"needs_review", "enriched"}
    BY <1>1, <1>3 DEF RecoverInterruptedJobs, SourceRow, InFlight
  <2> QED
    BY <1>2, <2>1 DEF Moves, Prepared, Settled
<1>4. CASE \E S \in SUBSET Sources, status \in {"failed", "deleted"} :
             source' = WithStatus(source, S, status)
  BY <1>1, <1>2, <1>4, StatusMoves
<1>5. CASE \E s \in Sources : ReturnToReview(s)
  BY <1>1, <1>2, <1>5, StatusMoves DEF ReturnToReview, Prepared, Settled
<1> QED
  BY <1>3, <1>4, <1>5 DEF FailClosed, MarkSourceFailed, MarkDeleted, QuarantineSource,
     QuarantineCollection

(* Every transaction moves the documents that way, and only the claim of a      *)
(* detected document begins an ingestion.                                       *)
LEMMA TablesMove ==
  ASSUME LifecycleInv, [Next]_vars
  PROVE  /\ \A s \in Sources : Moves(s)
         /\ NoNewIngest \/ \E j \in Jobs, s \in Sources : ClaimIngestJob(j, s)
<1>1. CASE UNCHANGED vars
  BY <1>1 DEF vars, Moves, NoNewIngest, ActiveIngest, RunningJobs
<1>2. CASE Ingest
  BY <1>2, PrepareMoves DEF Ingest, Prepare, ClaimIngestJob, Moves
<1> QED
  BY <1>1, <1>2, RegisterMoves, ReviewMoves, PublishMoves, FailClosedMoves DEF Next

(* A page stays, leaves, or is written of the rows as they are.                 *)
PagesMove ==
  \A s \in Sources :
    \/ page'[s] = page[s]
    \/ page'[s] = NoPage
    \/ UNCHANGED source /\ source[s].linked /\ page'[s].version = VersionOf(s)

(* The page of a document that keeps its bytes stays of these bytes.         *)
LEMMA StaysFitting ==
  ASSUME PagesMove, NEW s \in Sources, PageFits(s),
         source'[s].sha = source[s].sha, source'[s].revision = source[s].revision
  PROVE  PageFits(s)'
<1>1. CASE page'[s] = page[s]
  BY <1>1 DEF PageFits
<1>2. CASE page'[s] = NoPage
  BY <1>2 DEF PageFits
<1>3. CASE UNCHANGED source /\ page'[s].version = VersionOf(s)
  BY <1>3 DEF PageFits, VersionOf
<1> QED
  BY <1>1, <1>2, <1>3 DEF PagesMove

(* What may be prepared may be prepared after a transaction.                    *)
LEMMA StaysPrepared ==
  ASSUME LifecycleInv, LifecycleInv', PagesMove, NEW x, x.s \in Sources, x.revision \in Revisions,
         Moves(x.s), MayPrepare(x)
  PROVE  MayPrepare(x)'
<1>1. /\ source[x.s].revision \in Nat /\ x.revision \in Nat
      /\ x.revision <= source[x.s].revision
  BY Typed DEF SourceRow, Revisions, MayPrepare
<1>2. CASE source'[x.s].sha = source[x.s].sha /\ source'[x.s].revision = source[x.s].revision
  <2>1. PageFits(x.s) => PageFits(x.s)'
    BY <1>2, StaysFitting
  <2> QED
    BY <1>2, <2>1 DEF MayPrepare, NamesStored
<1>3. CASE source'[x.s].revision > source[x.s].revision /\ source'[x.s].status = "detected"
  <2>1. x.revision <= source'[x.s].revision /\ x.revision # source'[x.s].revision
    <3>1. source'[x.s].revision \in Nat
      BY DEF LifecycleInv, TypeOK, SourceRow, Revisions
    <3> QED
      BY <1>1, <1>3, <3>1
  <2> QED
    BY <2>1 DEF MayPrepare, NamesStored
<1> QED
  BY <1>2, <1>3 DEF Moves

(* A withdrawal ahead of a registration stays one.                           *)
LEMMA StaysWithdrawing ==
  ASSUME LifecycleInv, LifecycleInv', PagesMove, NEW w \in Work, IsNamed(w),
         \A s \in Sources : Moves(s), WithdrawsFirst(w)
  PROVE  WithdrawsFirst(w)'
<1>1. CASE w.pc \in Withdrawals /\ w.back = "register"
  <2>1. w.s \in Sources /\ w.revision \in Revisions
    BY <1>1 DEF IsNamed, Work
  <2>2. MayPrepare(w) => MayPrepare(w)'
    BY <2>1, StaysPrepared
  <2>3. w.revision <= source'[w.s].revision
    <3>1. /\ source[w.s].revision \in Nat /\ source'[w.s].revision \in Nat
          /\ w.revision \in Nat
      BY <2>1 DEF LifecycleInv, TypeOK, SourceRow, Revisions
    <3>2. source[w.s].revision <= source'[w.s].revision
      BY <2>1, <3>1 DEF Moves
    <3> QED
      BY <1>1, <3>1, <3>2 DEF WithdrawsFirst
  <2> QED
    BY <1>1, <2>2, <2>3 DEF WithdrawsFirst, Withdrawals
<1>2. CASE ~(w.pc \in Withdrawals /\ w.back = "register")
  BY <1>2 DEF WithdrawsFirst
<1> QED
  BY <1>1, <1>2

(* A step keeps the pages of the stored bytes when what changes of the work and *)
(* of the pending documents allows it.                                         *)
LEMMA PagesFrame ==
  ASSUME PagesFit, WikiTyped, LifecycleInv, [Next]_vars, PagesMove,
         \A s \in Sources : ActiveIngest(s)' => ActiveIngest(s) \/ PageFits(s)',
         \A t \in Tasks : task'[t] = task[t] \/ WithdrawsFirst(task[t])',
         \A t \in Tasks : \A r \in pass'[t].pending : r \in pass[t].pending \/ MayPrepare(r)'
  PROVE  PagesFit'
<1>1. LifecycleInv' /\ \A s \in Sources : Moves(s)
  BY StepKeepsInv, TablesMove
<1>2. \A s \in Sources : /\ source'[s].status \in Prepared => PageFits(s)'
                         /\ ActiveIngest(s)' => PageFits(s)'
                         /\ ~source'[s].linked => page'[s] = NoPage
  <2> TAKE s \in Sources
  <2>1. source'[s].status \in Prepared =>
          PageFits(s) /\ source'[s].sha = source[s].sha
          /\ source'[s].revision = source[s].revision
    BY <1>1 DEF PagesFit, Moves, Prepared, Settled
  <2>2. ActiveIngest(s)' =>
          \/ PageFits(s)'
          \/ PageFits(s) /\ source'[s].sha = source[s].sha
             /\ source'[s].revision = source[s].revision
    BY <1>1 DEF PagesFit, Moves
  <2>3. ~source'[s].linked => page'[s] = NoPage
    BY <1>1 DEF PagesFit, Moves, PagesMove
  <2> QED
    BY <2>1, <2>2, <2>3, StaysFitting
<1>3. \A u \in Tasks : \A r \in pass'[u].pending : MayPrepare(r)'
  <2> SUFFICES ASSUME NEW u \in Tasks, NEW r \in pass[u].pending
               PROVE  MayPrepare(r)'
    OBVIOUS
  <2>1. r \in Pendings
    BY PassOf DEF Passes
  <2> QED
    BY <1>1, <2>1, StaysPrepared DEF PagesFit, Pendings
<1>4. \A u \in Tasks : WithdrawsFirst(task[u])'
  <2> SUFFICES ASSUME NEW u \in Tasks, task'[u] = task[u] PROVE WithdrawsFirst(task[u])'
    OBVIOUS
  <2>1. PICK w \in Work : w = task[u]
    BY PassOf
  <2>2. IsNamed(w) /\ WithdrawsFirst(w)
    BY <2>1, PassOf DEF PagesFit
  <2>3. WithdrawsFirst(w)'
    BY <1>1, <2>2, StaysWithdrawing
  <2> QED
    BY <2>1, <2>3
<1> QED
  BY <1>2, <1>3, <1>4 DEF PagesFit

(* Transactions that begin no ingestion.                                       *)
LEMMA QuietTransaction ==
  ASSUME LifecycleInv,
         \/ UNCHANGED vars \/ Register \/ Review \/ Publish \/ FailClosed
         \/ \E j \in Jobs : Prepare(j)
  PROVE  NoNewIngest
<1>1. UNCHANGED vars => NoNewIngest
  BY DEF vars, NoNewIngest, ActiveIngest, RunningJobs
<1> QED
  BY <1>1, RegisterMoves, ReviewMoves, PublishMoves, FailClosedMoves, PrepareMoves

(* A step that begins no ingestion, no registration and finds nothing pending.  *)
LEMMA PlainStep ==
  ASSUME PagesFit, WikiTyped, LifecycleInv, [Next]_vars, PagesMove, NoNewIngest,
         \A t \in Tasks : \/ task'[t] = task[t]
                          \/ task'[t].pc \notin {"reread"} \union Withdrawals
                          \/ task'[t].pc # "reread" /\ task'[t].back # "register",
         \A t \in Tasks : pass'[t].pending \subseteq pass[t].pending
  PROVE  PagesFit'
<1>1. \A t \in Tasks : task'[t] = task[t] \/ WithdrawsFirst(task[t])'
  BY DEF WithdrawsFirst
<1>2. \A s \in Sources : ActiveIngest(s)' => ActiveIngest(s) \/ PageFits(s)'
  BY DEF NoNewIngest
<1> QED
  BY <1>1, <1>2, PagesFrame

(* A step that writes no page.                                               *)
LEMMA PagesStay ==
  ASSUME UNCHANGED page
  PROVE  PagesMove
BY DEF PagesMove

(* The steps of a pass before and between its registrations and sweeps.      *)
LEMMA PassPages ==
  ASSUME PagesFit, WikiTyped, LifecycleInv, NEW t \in Tasks,
         \/ StartPass(t) \/ Quarantine(t) \/ QuarantineUnsafe(t)
         \/ \E p \in Paths : HashFile(t, p) \/ HashFails(t, p)
         \/ ListSources(t) \/ EndSweep(t)
  PROVE  PagesFit'
<1>1. task \in [Tasks -> Work] /\ pass \in [Tasks -> Passes]
  BY DEF WikiTyped, TasksTyped
<1>2. [Next]_vars
  BY ReconcilesStep DEF Starts, Reconciles
<1>3. UNCHANGED vars \/ FailClosed
  BY DEF StartPass, Quarantine, QuarantineUnsafe, QuarantineFolder, HashFile, HashFails,
     ListSources, EndSweep, FailClosed
<1>4. UNCHANGED page
  BY DEF StartPass, Quarantine, QuarantineUnsafe, QuarantineFolder, HashFile, HashFails,
     ListSources, EndSweep, bundle
<1>5. \/ task' = task
      \/ \E w : /\ task' = [task EXCEPT ![t] = w]
                 /\ \/ w.pc \notin {"reread"} \union Withdrawals
                    \/ w.pc # "reread" /\ w.back # "register"
  <2>1. CASE StartPass(t) \/ ListSources(t)
    <3>1. \E pc \in {"register", "sweep"} : task' = [task EXCEPT ![t].pc = pc]
      BY <2>1 DEF StartPass, ListSources, Goto
    <3>2. \A pc \in {"register", "sweep"} :
            [task EXCEPT ![t].pc = pc] = [task EXCEPT ![t] = [task[t] EXCEPT !.pc = pc]]
            /\ [task[t] EXCEPT !.pc = pc].pc = pc
      BY <1>1 DEF Work
    <3> QED
      BY <3>1, <3>2 DEF Withdrawals
  <2>2. CASE Quarantine(t) \/ QuarantineUnsafe(t)
    BY <1>1, <2>2 DEF Quarantine, QuarantineUnsafe, QuarantineFolder, Work
  <2>3. CASE \E p \in Paths : HashFile(t, p) \/ HashFails(t, p)
    <3>1. PICK p \in Paths : HashFile(t, p) \/ HashFails(t, p)
      BY <2>3
    <3> DEFINE w == [task[t] EXCEPT !.pc = "registering", !.p = p, !.sha = folder[p]]
    <3>2. task' = task \/ task' = [task EXCEPT ![t] = w]
      BY <3>1 DEF HashFile, HashFails
    <3>3. w.pc = "registering"
      BY <1>1 DEF Work
    <3> QED
      BY <3>2, <3>3 DEF Withdrawals
  <2>4. CASE EndSweep(t)
    BY <1>1, <2>4 DEF EndSweep, Goto, Work, Idle, Withdrawals
  <2> QED
    BY <2>1, <2>2, <2>3, <2>4
<1>6. \A u \in Tasks : pass'[u].pending \subseteq pass[u].pending
  <2>1. CASE StartPass(t)
    BY <1>1, <2>1 DEF StartPass, NoPass
  <2>2. CASE Quarantine(t) \/ QuarantineUnsafe(t)
    BY <1>1, <2>2 DEF Quarantine, QuarantineUnsafe, QuarantineFolder
  <2>3. CASE \E p \in Paths : HashFile(t, p) \/ HashFails(t, p)
    <3>1. \E left : pass' = [pass EXCEPT ![t].left = left]
      BY <2>3 DEF HashFile, HashFails
    <3> QED
      BY <1>1, <3>1 DEF Passes
  <2>4. CASE EndSweep(t)
    BY <1>1, <2>4 DEF EndSweep, Passes, NoPass
  <2>5. CASE ListSources(t)
    <3>1. \E large, dead, gone :
            pass' = [pass EXCEPT ![t].large = large, ![t].dead = dead, ![t].gone = gone]
      BY <2>5 DEF ListSources
    <3> QED
      BY <1>1, <3>1 DEF Passes
  <2> QED
    BY <2>1, <2>2, <2>3, <2>4, <2>5
<1> QED
  BY <1>1, <1>2, <1>3, <1>4, <1>5, <1>6, QuietTransaction, PagesStay, PlainStep

(* The steps of a sweep.                                                     *)
LEMMA SweepPages ==
  ASSUME PagesFit, WikiTyped, LifecycleInv, NEW t \in Tasks,
         \/ \E row \in pass[t].large : SweepLarge(t, row)
         \/ \E row \in pass[t].gone : SweepGone(t, row)
         \/ \E row \in pass[t].dead : SweepDead(t, row)
  PROVE  PagesFit'
<1>1. task \in [Tasks -> Work] /\ pass \in [Tasks -> Passes]
  BY DEF WikiTyped, TasksTyped
<1>2. [Next]_vars
  BY ReconcilesStep DEF Reconciles
<1>3. UNCHANGED page
  BY DEF SweepLarge, SweepGone, SweepDead, bundle
<1>4. \A u \in Tasks : \/ task'[u] = task[u]
                       \/ task'[u].pc # "reread" /\ task'[u].back # "register"
  <2>1. task' = task \/ \E row : RemovePageOf(t, row)
    BY DEF SweepLarge, SweepGone, SweepDead
  <2> QED
    BY <1>1, <2>1 DEF RemovePageOf, Work
<1>5. \A u \in Tasks : pass'[u].pending \subseteq pass[u].pending
  <2>1. CASE \E row \in pass[t].large : SweepLarge(t, row)
    BY <1>1, <2>1 DEF SweepLarge, Passes
  <2>2. CASE \E row \in pass[t].gone : SweepGone(t, row)
    BY <1>1, <2>2 DEF SweepGone, Passes
  <2>3. CASE \E row \in pass[t].dead : SweepDead(t, row)
    BY <1>1, <2>3 DEF SweepDead, Passes
  <2> QED
    BY <2>1, <2>2, <2>3
<1>6. UNCHANGED vars \/ FailClosed
  <2>1. task[t].pc = "sweep" /\ pass[t].large \subseteq Rows /\ pass[t].gone \subseteq Rows
    BY PassOf DEF SweepLarge, SweepGone, SweepDead, At, Sweeps, Passes
  <2>2. CASE \E row \in pass[t].large : SweepLarge(t, row)
    BY <2>1, <2>2 DEF SweepLarge, FailClosed, Rows, vars
  <2>3. CASE \E row \in pass[t].gone : SweepGone(t, row)
    BY <2>1, <2>3 DEF SweepGone, FailClosed, Rows
  <2>4. CASE \E row \in pass[t].dead : SweepDead(t, row)
    BY <2>4 DEF SweepDead
  <2> QED
    BY <2>2, <2>3, <2>4
<1> QED
  BY <1>2, <1>3, <1>4, <1>5, <1>6, QuietTransaction, PagesStay, PlainStep

(* What is registered is purged before it is prepared.                         *)
LEMMA RegisterPages ==
  ASSUME PagesFit, WikiTyped, LifecycleInv, NEW t \in Tasks, RegisterFile(t)
  PROVE  PagesFit'
<1> DEFINE p == task[t].p
<1> DEFINE h == task[t].sha
<1> DEFINE missing == {q \in Paths : folder[q] = None}
<1> DEFINE w(s, old) == [task[t] EXCEPT !.pc = "reread", !.s = s,
                                        !.purge = {[s |-> s, sha |-> old]}]
<1>1. /\ task \in [Tasks -> Work] /\ task[t].pc = "registering"
      /\ p \in Paths /\ h \in Hashes /\ missing \in SUBSET Paths
      /\ UNCHANGED <<page, pass>>
  BY PassOf DEF WikiTyped, TasksTyped, RegisterFile, At, IsNamed, bundle
<1>2. [Next]_vars
  BY ReconcilesStep DEF Reconciles
<1>3. PICK s \in Sources :
        \/ UNCHANGED vars /\ NextFile(t)
        \/ RegisterMoved(s, p, h, missing) /\ NextFile(t)
        \/ /\ \/ RegisterRetry(s, p, h) \/ RegisterMoved(s, p, h, missing)
              \/ RegisterNew(s, p, h, missing)
           /\ task' = [task EXCEPT ![t] = w(s, h)]
        \/ RegisterReplaced(s, p, h) /\ task' = [task EXCEPT ![t] = w(s, source[s].sha)]
  BY DEF RegisterFile
<1>4. NoNewIngest
  BY <1>1, <1>3, QuietTransaction DEF Register
<1>5. NextFile(t) \/ \E old : task' = [task EXCEPT ![t] = w(s, old)]
  BY <1>3
<1>6. CASE NextFile(t)
  <2>1. \A u \in Tasks : task'[u] = task[u] \/ task'[u].pc = "register"
    BY <1>1, <1>6 DEF NextFile, Idle
  <2> QED
    BY <1>1, <1>2, <1>4, <2>1, PagesStay, PlainStep DEF Withdrawals
<1>7. CASE \E old : task' = [task EXCEPT ![t] = w(s, old)]
  <2>1. PICK old : task' = [task EXCEPT ![t] = w(s, old)]
    BY <1>7
  <2> DEFINE x == [s |-> s, sha |-> old]
  <2>2. w(s, old).pc = "reread" /\ w(s, old).s = s /\ w(s, old).purge = {x} /\ x.s = s
    BY <1>1 DEF Work
  <2>3. \A u \in Tasks : task'[u] = task[u] \/ task'[u] = w(s, old)
    BY <1>1, <2>1
  <2>4. \A u \in Tasks : task'[u] = task[u] \/ WithdrawsFirst(task[u])'
    <3> HIDE DEF w, x
    <3> QED
      BY <2>2, <2>3 DEF WithdrawsFirst, Withdrawals
  <2> QED
    BY <1>1, <1>2, <1>4, <2>4, PagesStay, PagesFrame DEF NoNewIngest
<1> QED
  BY <1>5, <1>6, <1>7

(* A document without a concept has no page: it is pending at once.             *)
LEMMA RereadPages ==
  ASSUME PagesFit, WikiTyped, LifecycleInv, NEW t \in Tasks, Reread(t)
  PROVE  PagesFit'
<1> DEFINE s == task[t].s
<1>1. /\ task \in [Tasks -> Work] /\ pass \in [Tasks -> Passes]
      /\ task[t].pc = "reread" /\ s \in Sources /\ UNCHANGED <<vars, page>>
  BY PassOf DEF WikiTyped, TasksTyped, Reread, At, IsNamed, bundle
<1>2. NoNewIngest
  BY <1>1, QuietTransaction
<1>3. source[s].revision \in Nat
  BY <1>1, Typed DEF SourceRow, Revisions
<1>4. CASE NextFile(t) /\ UNCHANGED pass
  <2>1. \A u \in Tasks : task'[u] = task[u] \/ task'[u].pc = "register"
    BY <1>1, <1>4 DEF NextFile, Idle
  <2> QED
    BY <1>1, <1>2, <1>4, <2>1, PagesStay, PlainStep DEF Withdrawals
<1>5. CASE NextFile(t) /\ Pend(t, s, source[s].revision) /\ ~source[s].linked
  <2>1. PICK r : r = [s |-> s, p |-> task[t].p, sha |-> task[t].sha,
                      revision |-> source[s].revision]
    OBVIOUS
  <2>2. \A u \in Tasks : task'[u] = task[u] \/ WithdrawsFirst(task[u])'
    BY <1>1, <1>5 DEF NextFile, Idle, WithdrawsFirst, Withdrawals
  <2>3. \A u \in Tasks : pass'[u].pending \subseteq pass[u].pending \union {r}
    BY <1>1, <1>5, <2>1 DEF Pend, Passes
  <2>4. page[s] = NoPage /\ page'[s] = NoPage /\ UNCHANGED source
    BY <1>1, <1>5 DEF PagesFit, vars
  <2>5. MayPrepare(r)'
    <3>1. r.s = s /\ r.revision = source[s].revision
      BY <2>1
    <3> QED
      BY <1>3, <2>4, <3>1 DEF MayPrepare, PageFits, NoPage
  <2> QED
    BY <1>1, <1>2, <2>2, <2>3, <2>5, PagesStay, PagesFrame DEF NoNewIngest
<1>6. CASE /\ task' = [task EXCEPT ![t].pc = "withdraw", ![t].back = "register",
                                   ![t].revision = source[s].revision]
           /\ UNCHANGED pass
  <2>1. \A u \in Tasks :
          \/ task'[u] = task[u]
          \/ /\ task'[u].pc = "withdraw" /\ task'[u].revision = source[s].revision
             /\ task'[u].purge = task[t].purge /\ task'[u].s = s
    BY <1>1, <1>6 DEF Work
  <2>2. task[t].purge # {} /\ \A x \in task[t].purge : x.s = s
    BY <1>1 DEF PagesFit, WithdrawsFirst
  <2>3. \A u \in Tasks : task'[u] = task[u] \/ WithdrawsFirst(task[u])'
    BY <1>1, <1>3, <2>1, <2>2 DEF WithdrawsFirst, vars
  <2> QED
    BY <1>1, <1>2, <1>6, <2>3, PagesStay, PagesFrame DEF NoNewIngest
<1> QED
  BY <1>4, <1>5, <1>6 DEF Reread

(* A removal leaves its document without a page, and is done with it only then. *)
LEMMA UnlinkPages ==
  ASSUME PagesFit, WikiTyped, LifecycleInv, NEW t \in Tasks, NEW x \in task[t].purge,
         Unlink(t, x)
  PROVE  PagesFit'
<1>1. /\ task \in [Tasks -> Work] /\ task[t].pc = "withdraw" /\ UNCHANGED <<vars, pass>>
      /\ page \in [Sources -> {NoPage} \union [kind : {"draft", "stable"}, version : Version]]
  BY DEF WikiTyped, TasksTyped, FilesTyped, Unlink, At
<1>2. [Next]_vars /\ NoNewIngest
  BY <1>1, QuietTransaction
<1>3. x.s \in Sources
  BY <1>1 DEF Work, Removals
<1>4. PagesMove /\ page'[x.s] = NoPage
  BY <1>1, <1>3 DEF Unlink, RemovalIsComplete, PagesMove
<1>5. /\ \A u \in Tasks : u # t => task'[u] = task[u]
      /\ task'[t].back = task[t].back /\ task'[t].revision = task[t].revision
      /\ task'[t].sha = task[t].sha /\ task'[t].purge \subseteq task[t].purge
      /\ \/ task'[t].pc = "withdraw" /\ task'[t].s = task[t].s
         \/ task'[t].pc = "relist" /\ task'[t].s = x.s
  BY <1>1 DEF Unlink, Work
<1>6. WithdrawsFirst(task[t])'
  <2>1. CASE task[t].back # "register"
    BY <1>5, <2>1 DEF WithdrawsFirst
  <2>2. CASE task[t].back = "register"
    <3>1. /\ \A y \in task[t].purge : y.s = task[t].s
          /\ task[t].revision <= source[task[t].s].revision
      BY <1>1, <2>2 DEF PagesFit, WithdrawsFirst, Withdrawals
    <3>2. /\ task'[t].s = task[t].s /\ x.s = task[t].s
          /\ \A y \in task'[t].purge : y.s = task'[t].s
          /\ task'[t].revision <= source'[task'[t].s].revision
      BY <1>1, <1>5, <3>1 DEF vars
    <3>3. MayPrepare(task[t])'
      BY <1>4, <3>2 DEF MayPrepare, PageFits, NoPage
    <3> QED
      BY <1>5, <3>2, <3>3 DEF WithdrawsFirst
  <2> QED
    BY <2>1, <2>2
<1> QED
  BY <1>1, <1>2, <1>4, <1>5, <1>6, PagesFrame DEF NoNewIngest

(* index.md and log.md follow the page that was removed.                     *)
LEMMA RelistPages ==
  ASSUME PagesFit, WikiTyped, LifecycleInv, NEW t \in Tasks, Relist(t) \/ LogRemoval(t)
  PROVE  PagesFit'
<1>1. /\ task \in [Tasks -> Work] /\ task[t].pc \in {"relist", "logRemoval"}
      /\ UNCHANGED <<vars, pass, page>>
  BY DEF WikiTyped, TasksTyped, Relist, LogRemoval, At
<1>2. [Next]_vars /\ NoNewIngest
  BY <1>1, QuietTransaction
<1>3. /\ \A u \in Tasks : u # t => task'[u] = task[u]
      /\ task'[t].back = task[t].back /\ task'[t].revision = task[t].revision
      /\ task'[t].sha = task[t].sha /\ task'[t].s = task[t].s
      /\ task'[t].purge \subseteq task[t].purge
      /\ task'[t].pc \in {"withdraw", "logRemoval"}
  <2>1. CASE Relist(t)
    BY <1>1, <2>1 DEF Relist, Goto, Work
  <2>2. CASE LogRemoval(t)
    <3>1. \E x : task' = [task EXCEPT ![t].pc = "withdraw", ![t].purge = @ \ {x}]
      BY <2>2 DEF LogRemoval
    <3> QED
      BY <1>1, <3>1 DEF Work
  <2> QED
    BY <2>1, <2>2
<1>4. WithdrawsFirst(task[t])'
  <2>1. CASE task[t].back # "register"
    BY <1>3, <2>1 DEF WithdrawsFirst
  <2>2. CASE task[t].back = "register"
    <3>1. /\ \A y \in task[t].purge : y.s = task[t].s
          /\ task[t].revision <= source[task[t].s].revision /\ MayPrepare(task[t])
      BY <1>1, <2>2 DEF PagesFit, WithdrawsFirst, Withdrawals
    <3>2. MayPrepare(task[t])'
      BY <1>1, <1>3, <3>1 DEF MayPrepare, NamesStored, PageFits, vars
    <3> QED
      BY <1>1, <1>3, <3>1, <3>2 DEF WithdrawsFirst, vars
  <2> QED
    BY <2>1, <2>2
<1> QED
  BY <1>1, <1>2, <1>3, <1>4, PagesStay, PagesFrame DEF NoNewIngest

(* A registered document is pending when its page has left.                     *)
LEMMA WithdrawnPages ==
  ASSUME PagesFit, WikiTyped, LifecycleInv, NEW t \in Tasks, Withdrawn(t) \/ WithdrawFails(t)
  PROVE  PagesFit'
<1>1. /\ task \in [Tasks -> Work] /\ pass \in [Tasks -> Passes] /\ IsNamed(task[t])
      /\ task[t].pc \in Withdrawals /\ UNCHANGED <<vars, page>>
  BY PassOf DEF WikiTyped, TasksTyped, Withdrawn, WithdrawFails, At, Withdrawals, bundle
<1>2. [Next]_vars /\ NoNewIngest
  BY <1>1, QuietTransaction
<1>3. \E pc \in {"idle", "register", "sweep", "unsafe"} :
        task' = [task EXCEPT ![t] = [Idle EXCEPT !.pc = pc]]
  <2>1. Idle = [Idle EXCEPT !.pc = "idle"]
    BY DEF Idle
  <2>2. CASE Withdrawn(t)
    BY <1>1, <2>1, <2>2 DEF Withdrawn, NextFile, IsNamed, Withdrawals
  <2>3. CASE WithdrawFails(t)
    BY <2>3 DEF WithdrawFails, NextFile
  <2> QED
    BY <2>2, <2>3
<1>4. \A u \in Tasks : task'[u] = task[u] \/ task'[u].pc \notin {"reread"} \union Withdrawals
  BY <1>1, <1>3 DEF Idle, Withdrawals
<1>5. CASE ~(Withdrawn(t) /\ task[t].back = "register")
  <2>1. \A u \in Tasks : pass'[u].pending \subseteq pass[u].pending
    <3>1. UNCHANGED pass \/ pass' = [pass EXCEPT ![t] = NoPass]
      BY <1>1, <1>5 DEF Withdrawn, WithdrawFails, IsNamed
    <3> QED
      BY <1>1, <3>1 DEF NoPass
  <2> QED
    BY <1>1, <1>2, <1>4, <2>1, PagesStay, PlainStep
<1>6. CASE Withdrawn(t) /\ task[t].back = "register"
  <2>1. /\ Pend(t, task[t].s, task[t].revision) /\ task[t].pc = "withdraw"
        /\ task[t].purge = {}
    BY <1>6 DEF Withdrawn, At
  <2>2. PICK r : r = [s |-> task[t].s, p |-> task[t].p, sha |-> task[t].sha,
                      revision |-> task[t].revision]
    OBVIOUS
  <2>3. \A u \in Tasks : pass'[u].pending \subseteq pass[u].pending \union {r}
    BY <1>1, <2>1, <2>2 DEF Pend, Passes
  <2>4. MayPrepare(task[t])
    BY <1>1, <1>6, <2>1 DEF PagesFit, WithdrawsFirst
  <2>5. r.s = task[t].s /\ r.sha = task[t].sha /\ r.revision = task[t].revision
    BY <2>2
  <2>6. MayPrepare(r)'
    BY <1>1, <2>4, <2>5 DEF MayPrepare, NamesStored, PageFits, vars
  <2>7. \A u \in Tasks : task'[u] = task[u] \/ WithdrawsFirst(task[u])'
    BY <1>4 DEF WithdrawsFirst
  <2> QED
    BY <1>1, <1>2, <2>3, <2>6, <2>7, PagesStay, PagesFrame DEF NoNewIngest
<1> QED
  BY <1>5, <1>6

(* The claim of a pending document finds the page of its bytes, or none.        *)
LEMMA ClaimPages ==
  ASSUME PagesFit, WikiTyped, LifecycleInv, NEW t \in Tasks, NEW r \in pass[t].pending,
         ClaimPending(t, r)
  PROVE  PagesFit'
<1>1. /\ task \in [Tasks -> Work] /\ pass \in [Tasks -> Passes] /\ r \in Pendings
      /\ UNCHANGED <<page, source>>
  BY PassOf DEF WikiTyped, TasksTyped, ClaimPending, Passes, bundle, ClaimIngestJob, vars
<1>2. [Next]_vars
  BY ClaimPendingStep
<1>3. \A u \in Tasks : pass'[u].pending \subseteq pass[u].pending
  BY <1>1 DEF ClaimPending, Passes
<1>4. \A u \in Tasks : task'[u] = task[u] \/ task'[u].pc \notin {"reread"} \union Withdrawals
  <2>1. \/ UNCHANGED task
        \/ \E j : task' = [task EXCEPT ![t] =
             [Idle EXCEPT !.pc = "extract", !.s = r.s, !.p = r.p, !.sha = r.sha,
                          !.revision = r.revision, !.job = j]]
    BY DEF ClaimPending
  <2> QED
    BY <1>1, <2>1 DEF Idle, Withdrawals
<1>5. \A s \in Sources : ActiveIngest(s)' => ActiveIngest(s) \/ PageFits(s)'
  <2>1. CASE UNCHANGED vars
    BY <2>1, QuietTransaction DEF NoNewIngest
  <2>2. CASE \E j \in Jobs : ClaimIngestJob(j, r.s) /\ NamesStored(r)
    <3>1. PageFits(r.s)'
      BY <1>1, <2>2 DEF PagesFit, MayPrepare, PageFits
    <3>2. \A s \in Sources : s # r.s => (ActiveIngest(s)' => ActiveIngest(s))
      BY <2>2, Typed DEF ClaimIngestJob, StartJob, ActiveIngest, RunningJobs
    <3> QED
      BY <3>1, <3>2
  <2> QED
    BY <2>1, <2>2 DEF ClaimPending, NamesStored
<1>6. \A u \in Tasks : task'[u] = task[u] \/ WithdrawsFirst(task[u])'
  BY <1>4 DEF WithdrawsFirst
<1> QED
  BY <1>1, <1>2, <1>3, <1>5, <1>6, PagesStay, PagesFrame

(* A page that is written is of the rows as they are.                           *)
LEMMA WrittenPage ==
  ASSUME LifecycleInv, WikiTyped, NEW s \in Sources,
         \/ UNCHANGED page
         \/ page' = [page EXCEPT ![s] = NoPage]
         \/ /\ UNCHANGED source /\ concept[s].status # "absent"
            /\ \E kind \in {"draft", "stable"} : page' = [page EXCEPT ![s] = PageOf(s, kind)]
  PROVE  PagesMove
<1>1. concept[s].status # "absent" => source[s].linked
  BY DEF LifecycleInv, TypeOK, AbsentRowsAreEmpty
<1> QED
  BY <1>1 DEF WikiTyped, FilesTyped, PagesMove, PageOf

(* A task that goes on with another step than a registration or a withdrawal.   *)
LEMMA GoesOnPlainly ==
  ASSUME WikiTyped, NEW t \in Tasks,
         \/ \E pc \in IngestSteps \union PublisherSteps \union ReanalysisSteps : Goto(t, pc)
         \/ \E pc \in {"idle", "process"} : task' = [task EXCEPT ![t] = [Idle EXCEPT !.pc = pc]]
         \/ task' = [task EXCEPT ![t] = Idle]
  PROVE  \A u \in Tasks :
           task'[u] = task[u] \/ task'[u].pc \notin {"reread"} \union Withdrawals
BY DEF WikiTyped, TasksTyped, Work, Goto, Idle, IngestSteps, PublisherSteps, ReanalysisSteps,
   Withdrawals

(* An ingestion writes the draft page of the rows as they are.               *)
LEMMA IngestPages ==
  ASSUME PagesFit, WikiTyped, LifecycleInv, NEW t \in Tasks,
         \/ Extract(t) \/ Enrich(t) \/ Save(t) \/ Embed(t) \/ WriteDraft(t)
         \/ FinishIngest(t) \/ EndScan(t)
  PROVE  PagesFit'
<1>1. pass \in [Tasks -> Passes]
  BY DEF WikiTyped, TasksTyped
<1>2. [Next]_vars
  BY ExtractStep, EmbedStep, WriteDraftStep, FinishIngestStep, EndScanStep
<1>3. task[t].pc \in IngestSteps => task[t].job \in Jobs /\ task[t].s \in Sources
  BY PassOf DEF IsNamed
<1>4. NoNewIngest
  <2>1. UNCHANGED vars \/ \E j \in Jobs : Prepare(j)
    BY <1>3 DEF Extract, Enrich, Save, Embed, WriteDraft, FinishIngest, EndScan, Prepare, At,
       IngestSteps
  <2> QED
    BY <2>1, QuietTransaction
<1>5. PagesMove
  <2>1. CASE WriteDraft(t)
    BY <1>3, <2>1, WrittenPage DEF WriteDraft, At, IngestSteps, MayWriteDraft, vars
  <2>2. CASE ~WriteDraft(t)
    BY <2>2, PagesStay DEF Extract, Enrich, Save, Embed, FinishIngest, EndScan, bundle
  <2> QED
    BY <2>1, <2>2
<1>6. \A u \in Tasks : task'[u] = task[u] \/ task'[u].pc \notin {"reread"} \union Withdrawals
  <2>1. \/ \E pc \in IngestSteps : Goto(t, pc)
        \/ task' = [task EXCEPT ![t] = [Idle EXCEPT !.pc = "process"]]
        \/ task' = [task EXCEPT ![t] = Idle]
    BY DEF Extract, Enrich, Save, Embed, WriteDraft, FinishIngest, EndScan, IngestSteps
  <2> QED
    BY <2>1, GoesOnPlainly
<1>7. \A u \in Tasks : pass'[u].pending \subseteq pass[u].pending
  <2>1. UNCHANGED pass \/ pass' = [pass EXCEPT ![t] = NoPass]
    BY DEF Extract, Enrich, Save, Embed, WriteDraft, FinishIngest, EndScan
  <2> QED
    BY <1>1, <2>1 DEF NoPass
<1> QED
  BY <1>2, <1>4, <1>5, <1>6, <1>7, PlainStep

(* The publisher writes and discards pages of the rows as they are.          *)
LEMMA PublisherPages ==
  ASSUME PagesFit, WikiTyped, LifecycleInv, Publisher \in Tasks,
         Publishes \/ \E s \in Sources : StartApproval(s)
  PROVE  PagesFit'
<1>1. task \in [Tasks -> Work] /\ UNCHANGED pass
  BY DEF WikiTyped, TasksTyped, Publishes, StartApproval, RecoverClaim, Approve, ApproveFails,
     WritePage, WriteIndex, WriteLog, Commit, BeginCancel, DiscardPage, Unlist, FinishCancel,
     RestoreDraft
<1>2. [Next]_vars
  BY StartApprovalStep, RecoverClaimStep, ApproveStep, ApproveFailsStep, MaterializeStep,
     CommitStep, CancelStep, RestoreDraftStep
     DEF Publishes
<1> DEFINE j == task[Publisher].job
<1> DEFINE s == job[j].source
<1>3. task[Publisher].pc \in PublisherSteps => j \in Jobs /\ s \in Sources
  BY PublisherWork
<1>4. task[Publisher].pc = "approve" => task[Publisher].s \in Sources
  BY PublisherWork
<1>5. NoNewIngest
  <2>1. CASE Commit \/ BeginCancel \/ FinishCancel \/ RestoreDraft
    BY <1>3, <2>1, QuietTransaction DEF Commit, BeginCancel, FinishCancel, RestoreDraft,
       At, PublisherSteps, Publish, FailClosed
  <2>2. CASE \E i \in Jobs, d \in Drafts : Approve(i, d)
    BY <1>4, <2>2, QuietTransaction DEF Approve, At, Publish
  <2>3. CASE UNCHANGED vars
    BY <2>3, QuietTransaction
  <2> QED
    BY <2>1, <2>2, <2>3 DEF Publishes, StartApproval, RecoverClaim, ApproveFails, WritePage,
       WriteIndex, WriteLog, DiscardPage, Unlist
<1>6. PagesMove
  <2>1. CASE WritePage \/ DiscardPage \/ RestoreDraft
    <3>1. s \in Sources
      BY <1>3, <2>1 DEF WritePage, DiscardPage, RestoreDraft, At, PublisherSteps
    <3> QED
      BY <2>1, <3>1, WrittenPage DEF WritePage, DiscardPage, RestoreDraft, MayWriteDraft,
         ClaimIsCurrent, Publishing, vars
  <2>2. CASE UNCHANGED page
    BY <2>2, PagesStay
  <2> QED
    BY <2>1, <2>2 DEF Publishes, StartApproval, RecoverClaim, Approve, ApproveFails,
       WriteIndex, WriteLog, Commit, BeginCancel, Unlist, FinishCancel, bundle
<1>7. \A u \in Tasks : task'[u] = task[u] \/ task'[u].pc \notin {"reread"} \union Withdrawals
  <2>1. \/ PublisherEnds \/ PublisherGoesOn \/ PublisherFails
        \/ \E pc \in PublisherSteps : Goto(Publisher, pc)
        \/ \E pc \in PublisherSteps : \E listed :
             task' = [task EXCEPT ![Publisher].pc = pc, ![Publisher].listed = listed]
        \/ \E i, p : task' = [task EXCEPT ![Publisher].pc = "page", ![Publisher].back = "own",
                                          ![Publisher].job = i, ![Publisher].p = p]
        \/ \E i : task' = [task EXCEPT ![Publisher] =
                             [Idle EXCEPT !.pc = "approve", !.back = "approval", !.s = i]]
        \/ \E i : task' = [task EXCEPT ![Publisher] = LoadedClaim("approval", i)]
    BY DEF Publishes, StartApproval, RecoverClaim, Approve, ApproveFails, WritePage,
       WriteIndex, WriteLog, Commit, BeginCancel, DiscardPage, Unlist, FinishCancel,
       RestoreDraft, Goto, PublisherSteps
  <2>2. PICK pc \in PublisherSteps \union {"approve", "idle"} :
          task'[Publisher].pc = pc /\ \A u \in Tasks : u # Publisher => task'[u] = task[u]
    <3>1. CASE PublisherEnds \/ PublisherGoesOn \/ PublisherFails
      BY <1>1, <3>1 DEF PublisherEnds, PublisherGoesOn, PublisherFails, Goto, Idle, Work,
         PublisherSteps
    <3>2. CASE \E pc \in PublisherSteps : Goto(Publisher, pc)
      BY <1>1, <3>2 DEF Goto, Work
    <3>3. CASE \E pc \in PublisherSteps : \E listed :
                 task' = [task EXCEPT ![Publisher].pc = pc, ![Publisher].listed = listed]
      BY <1>1, <3>3 DEF Work
    <3>4. CASE \E i, p : task' = [task EXCEPT ![Publisher].pc = "page",
                   ![Publisher].back = "own", ![Publisher].job = i, ![Publisher].p = p]
      BY <1>1, <3>4 DEF Work, PublisherSteps
    <3>5. CASE \E i : task' = [task EXCEPT ![Publisher] =
                         [Idle EXCEPT !.pc = "approve", !.back = "approval", !.s = i]]
      BY <1>1, <3>5 DEF Idle
    <3>6. CASE \E i : task' = [task EXCEPT ![Publisher] = LoadedClaim("approval", i)]
      BY <1>1, <3>6 DEF LoadedClaim, Idle, PublisherSteps
    <3> QED
      BY <2>1, <3>1, <3>2, <3>3, <3>4, <3>5, <3>6
  <2> QED
    BY <2>2 DEF PublisherSteps, Withdrawals
<1> QED
  BY <1>1, <1>2, <1>5, <1>6, <1>7, PlainStep

(* A reanalysis writes the page of the draft it replaced.                    *)
LEMMA ReanalysisPages ==
  ASSUME PagesFit, WikiTyped, LifecycleInv, NEW t \in Tasks,
         Reanalyzes(t) \/ \E s \in Sources, j \in Jobs : StartReanalysis(t, s, j)
  PROVE  PagesFit'
<1>1. task \in [Tasks -> Work] /\ UNCHANGED pass
  BY DEF WikiTyped, TasksTyped, Reanalyzes, StartReanalysis, Regenerate, ReplaceDraft,
     ReplaceFails, Redraft, Abandon
<1>2. [Next]_vars
  BY StartReanalysisStep, RegenerateStep, ReplaceDraftStep, RedraftStep, AbandonStep
     DEF Reanalyzes
<1>3. task[t].pc \in ReanalysisSteps => task[t].job \in Jobs /\ task[t].s \in Sources
  BY PassOf DEF IsNamed
<1>4. NoNewIngest
  <2>1. UNCHANGED vars \/ Review \/ FailClosed
    BY <1>3 DEF Reanalyzes, StartReanalysis, Regenerate, ReplaceDraft, ReplaceFails, Redraft,
       Abandon, Review, FailClosed, At, ReanalysisSteps
  <2> QED
    BY <2>1, QuietTransaction
<1>5. PagesMove
  <2>1. CASE Redraft(t)
    BY <1>3, <2>1, WrittenPage DEF Redraft, At, ReanalysisSteps, MayWriteDraft, vars
  <2>2. CASE UNCHANGED page
    BY <2>2, PagesStay
  <2> QED
    BY <2>1, <2>2 DEF Reanalyzes, StartReanalysis, Regenerate, ReplaceDraft, ReplaceFails,
       Abandon, bundle
<1>6. \A u \in Tasks : task'[u] = task[u] \/ task'[u].pc \notin {"reread"} \union Withdrawals
  <2>1. CASE \E s \in Sources, j \in Jobs : StartReanalysis(t, s, j)
    <3> PICK s \in Sources, j \in Jobs : StartReanalysis(t, s, j)
      BY <2>1
    <3> DEFINE w == [Idle EXCEPT !.pc = "regenerate", !.s = s, !.job = j,
                                 !.p = source[s].path, !.sha = source[s].sha]
    <3>1. task' = [task EXCEPT ![t] = w] /\ w.pc = "regenerate"
      BY DEF StartReanalysis, Idle
    <3>2. task'[t].pc = "regenerate" /\ \A u \in Tasks : u # t => task'[u] = task[u]
      BY <1>1, <3>1
    <3> QED
      BY <3>2 DEF Withdrawals
  <2>2. CASE Reanalyzes(t)
    <3>1. (\E pc \in ReanalysisSteps : Goto(t, pc)) \/ task' = [task EXCEPT ![t] = Idle]
      BY <2>2 DEF Reanalyzes, Regenerate, ReplaceDraft, ReplaceFails, Redraft, Abandon,
         ReanalysisSteps
    <3> QED
      BY <3>1, GoesOnPlainly
  <2> QED
    BY <2>1, <2>2
<1> QED
  BY <1>1, <1>2, <1>4, <1>5, <1>6, PlainStep

(* The person, the folder and a restart write no page.                       *)
LEMMA OutsidePages ==
  ASSUME PagesFit, WikiTyped, LifecycleInv,
         \/ \E s \in Sources : Person(s)
         \/ \E p \in Paths, content \in Hashes \union {None} : EditFolder(p, content)
         \/ \E p, q \in Paths : RenameFile(p, q)
         \/ Restart
  PROVE  PagesFit'
<1>1. [Next]_vars
  BY OutsideStep, RestartStep
<1>2. UNCHANGED page
  BY DEF Person, EditFolder, RenameFile, Restart, bundle
<1>3. UNCHANGED vars \/ Review \/ FailClosed
  BY DEF Person, EditFolder, RenameFile, Restart, Review, FailClosed
<1>4. \A u \in Tasks : task'[u] = task[u] \/ task'[u].pc \notin {"reread"} \union Withdrawals
  <2>1. CASE Restart
    <3> DEFINE w == LoadedClaim("startup", None)
    <3>1. /\ w.pc = "recover"
          /\ \/ task' = [t \in Tasks |-> Idle]
             \/ task' = [[t \in Tasks |-> Idle] EXCEPT ![Publisher] = w]
      BY <2>1 DEF Restart, LoadedClaim, Idle
    <3> HIDE DEF w
    <3>2. \A u \in Tasks : task'[u] \in {Idle, w}
      BY <3>1
    <3> QED
      BY <3>1, <3>2 DEF Idle, Withdrawals
  <2>2. CASE UNCHANGED task
    BY <2>2
  <2> QED
    BY <2>1, <2>2 DEF Person, EditFolder, RenameFile, control
<1>5. \A u \in Tasks : pass'[u].pending \subseteq pass[u].pending
  BY DEF Person, EditFolder, RenameFile, Restart, control, NoPass
<1> QED
  BY <1>1, <1>2, <1>3, <1>4, <1>5, QuietTransaction, PagesStay, PlainStep

(* Every step.                                                               *)
LEMMA PagesStep ==
  ASSUME PagesFit, WikiTyped, LifecycleInv, [WikiNext]_wikiVars
  PROVE  PagesFit'
<1>1. CASE UNCHANGED wikiVars
  BY <1>1 DEF wikiVars, vars, bundle, control, PagesFit, PageFits, ActiveIngest, RunningJobs,
     MayPrepare, NamesStored, WithdrawsFirst
<1>2. CASE \E t \in Tasks : Starts(t) \/ Reconciles(t)
  BY <1>2, PassPages, SweepPages, RegisterPages, RereadPages, UnlinkPages, RelistPages,
     WithdrawnPages
     DEF Starts, Reconciles
<1>3. CASE \E t \in Tasks : Ingests(t)
  BY <1>3, ClaimPages, IngestPages DEF Ingests
<1>4. CASE Publisher \in Tasks /\ (Publishes \/ \E s \in Sources : StartApproval(s))
  BY <1>4, PublisherPages
<1>5. CASE \E t \in Tasks : \/ Reanalyzes(t)
                            \/ \E s \in Sources, j \in Jobs : StartReanalysis(t, s, j)
  BY <1>5, ReanalysisPages
<1>6. CASE \/ \E s \in Sources : Person(s)
           \/ \E p \in Paths, content \in Hashes \union {None} : EditFolder(p, content)
           \/ \E p, q \in Paths : RenameFile(p, q)
           \/ Restart
  BY <1>6, OutsidePages
<1> QED
  BY <1>1, <1>2, <1>3, <1>4, <1>5, <1>6 DEF WikiNext, TaskStep

(* Pages fit in every state.                                                   *)
LEMMA PagesAlwaysFit == WikiSpec => []PagesFit
<1>1. WikiInit => PagesFit
  <2> SUFFICES ASSUME WikiInit PROVE PagesFit
    OBVIOUS
  <2> QED
    BY DEF WikiInit, Init, PagesFit, PageFits, ActiveIngest, RunningJobs, UnusedJob, NoPass,
       Idle, WithdrawsFirst, Withdrawals
<1>2. PagesFit /\ WikiTyped /\ LifecycleInv /\ [WikiNext]_wikiVars => PagesFit'
  BY PagesStep
<1> QED
  BY <1>1, <1>2, WikiRunsTheTables, PTL DEF WikiSpec

(* A document in review or published never has the page of older bytes,          *)
(* whatever scans, quarantines, approvals and reanalyses overlap: the page       *)
(* leaves before the new revision is pending (FolderWiki!PagesAreOfStoredBytes). *)
THEOREM PagesAreAlwaysOfStoredBytes == WikiSpec => []PagesAreOfStoredBytes
<1>1. PagesFit => PagesAreOfStoredBytes
  BY DEF PagesFit, PageFits, PagesAreOfStoredBytes, Prepared
<1> QED
  BY <1>1, PagesAlwaysFit, PTL

-------------------------------------------------------------------------------
(* A version becomes searchable only once it is in the bundle                   *)

(* Steps of the publisher from the claim to the last transaction.              *)
Materializing == {"recover", "page", "index", "log", "commit"}

(* What the publisher has written so far is still there, of the approved version.*)
MaterializationFits ==
  LET w == task[Publisher]
      s == job[w.job].source
  IN
  Publisher \in Tasks =>
    /\ w.pc \in Materializing => w.job = claim
    /\ w.pc \in {"index", "log", "commit"} =>
         page[s] = [kind |-> "stable", version |-> approved[s]]
    /\ w.pc = "index" => s \in w.listed
    /\ w.pc \in {"log", "commit"} => s \in index
    /\ w.pc = "commit" => Publication(w.job) \in log

(* While the claim stays, so does what it names, and so do the approvals.       *)
LEMMA ClaimNamesTheSame ==
  ASSUME LifecycleInv, [Next]_vars, claim # None, claim' = claim
  PROVE  /\ job'[claim].source = job[claim].source
         /\ job'[claim].sha = job[claim].sha
         /\ job'[claim].revision = job[claim].revision
         /\ approved' = approved
<1>1. /\ claim \in Jobs /\ job \in [Jobs -> JobRow]
      /\ job[claim].state \in {"running", "cancelling"}
  BY DEF LifecycleInv, TypeOK, ClaimIsOpen
<1>2. \A j \in Jobs : \A kind, s : StartJob(j, kind, s) => job'[claim] = job[claim]
  BY <1>1 DEF StartJob
<1>3. \A j : FinishJob(j) => /\ job'[claim].source = job[claim].source
                             /\ job'[claim].sha = job[claim].sha
                             /\ job'[claim].revision = job[claim].revision
  BY <1>1 DEF FinishJob, JobRow
<1>4. \A S, status : Withdraw(S, status) =>
        /\ job'[claim].source = job[claim].source /\ job'[claim].sha = job[claim].sha
        /\ job'[claim].revision = job[claim].revision /\ approved' = approved
  BY <1>1 DEF Withdraw, CancelPublication, SupersedeIngest, JobRow
<1>5. CASE UNCHANGED vars
  BY <1>5 DEF vars
<1>6. CASE Register
  BY <1>4, <1>6 DEF Register, RegisterRetry, RegisterReplaced, RegisterMoved, RegisterNew
<1>7. CASE Ingest
  BY <1>2, <1>3, <1>7 DEF Ingest, ClaimIngestJob, MarkExtracted, MarkEnriched, SaveEnrichment,
     ReplaceChunks, CompleteIngestJob, FailIngestJob
<1>8. CASE Review
  BY <1>2, <1>3, <1>8 DEF Review, ShowReview, ExcludeReview, BeginReanalysis,
     CompleteReanalysis, FailReanalysis
<1>9. CASE Publish
  <2>1. PICK j \in Jobs : MarkPublicationCancelling(j)
    BY <1>1, <1>9, NoneAssumption
       DEF Publish, BeginPublication, CompletePublication, FinishPublicationCancellation
  <2> QED
    BY <1>1, <2>1 DEF MarkPublicationCancelling, JobRow
<1>10. CASE FailClosed
  <2>1. CASE RecoverInterruptedJobs
    BY <1>1, <2>1 DEF RecoverInterruptedJobs, JobRow
  <2> QED
    BY <1>4, <1>10, <2>1 DEF FailClosed, ReturnToReview, MarkSourceFailed, MarkDeleted,
       QuarantineSource, QuarantineCollection
<1> QED
  BY <1>5, <1>6, <1>7, <1>8, <1>9, <1>10 DEF Next

(* A step of some task other than the publisher's own work.                     *)
Works(t) ==
  \/ Starts(t) \/ Reconciles(t) \/ Ingests(t) \/ Reanalyzes(t)
  \/ \E s \in Sources, j \in Jobs : StartReanalysis(t, s, j)

(* It leaves the claim alone.                                                 *)
LEMMA WorkKeepsClaim ==
  ASSUME NEW t \in Tasks, Works(t)
  PROVE  claim' = claim
<1>1. CASE Starts(t)
  BY <1>1 DEF Starts, StartPass, Quarantine, QuarantineFolder, QuarantineCollection, Withdraw,
     vars
<1>2. CASE Reconciles(t)
  <2>1. CASE RegisterFile(t)
    BY <2>1 DEF RegisterFile, RegisterUnchanged, RegisterRetry, RegisterReplaced, RegisterMoved,
       RegisterNew, Withdraw, vars
  <2>2. CASE QuarantineUnsafe(t) \/ \E row : SweepLarge(t, row) \/ SweepGone(t, row)
    BY <2>2 DEF QuarantineUnsafe, QuarantineFolder, QuarantineCollection, SweepLarge,
       SweepGone, QuarantineSource, MarkDeleted, Withdraw, vars
  <2> QED
    BY <1>2, <2>1, <2>2 DEF Reconciles, HashFile, HashFails, Reread, ListSources, SweepDead,
       EndSweep, Unlink, Relist, LogRemoval, Withdrawn, WithdrawFails, vars
<1>3. CASE Ingests(t)
  BY <1>3 DEF Ingests, ClaimPending, ClaimIngestJob, Extract, Enrich, Save, Embed, WriteDraft,
     FinishIngest, EndScan, MarkExtracted, MarkEnriched, SaveEnrichment, ReplaceChunks,
     CompleteIngestJob, FailIngestJob, vars
<1>4. CASE Reanalyzes(t) \/ \E s \in Sources, j \in Jobs : StartReanalysis(t, s, j)
  BY <1>4 DEF Reanalyzes, StartReanalysis, Regenerate, ReplaceDraft, ReplaceFails, Redraft,
     Abandon, BeginReanalysis, CompleteReanalysis, FailReanalysis, MarkSourceFailed, vars
<1> QED
  BY <1>1, <1>2, <1>3, <1>4 DEF Works

(* It takes the task to no step of a publication, and touches no other task.    *)
LEMMA WorkIsNoPublication ==
  ASSUME WikiTyped, NEW t \in Tasks, Works(t)
  PROVE  /\ \A u \in Tasks : u # t => task'[u] = task[u]
         /\ task[t].pc \notin Materializing /\ task'[t].pc \notin Materializing
<1>1. task \in [Tasks -> Work]
  BY DEF WikiTyped, TasksTyped
<1>2. CASE Starts(t)
  BY <1>1, <1>2 DEF Starts, StartPass, Quarantine, QuarantineFolder, Goto, At, Work,
     Materializing
<1>3. CASE Reconciles(t)
  <2>1. CASE RegisterFile(t) \/ Reread(t)
    <3>1. \/ NextFile(t)
          \/ \E s, purge : task' = [task EXCEPT ![t].pc = "reread", ![t].s = s,
                                               ![t].purge = purge]
          \/ task' = [task EXCEPT ![t].pc = "withdraw", ![t].back = "register",
                                  ![t].revision = source[task[t].s].revision]
      BY <2>1 DEF RegisterFile, Reread
    <3>2. task[t].pc \in {"registering", "reread"}
      BY <2>1 DEF RegisterFile, Reread, At
    <3>3. CASE NextFile(t)
      BY <1>1, <3>2, <3>3 DEF NextFile, Idle, Materializing
    <3>4. CASE ~NextFile(t)
      <4>1. CASE \E s, purge : task' = [task EXCEPT ![t].pc = "reread", ![t].s = s,
                                                   ![t].purge = purge]
        <5>1. PICK s, purge : task' = [task EXCEPT ![t].pc = "reread", ![t].s = s,
                                                  ![t].purge = purge]
          BY <4>1
        <5> QED
          BY <1>1, <3>2, <5>1 DEF Work, Materializing
      <4>2. CASE task' = [task EXCEPT ![t].pc = "withdraw", ![t].back = "register",
                                      ![t].revision = source[task[t].s].revision]
        BY <1>1, <3>2, <4>2 DEF Work, Materializing
      <4> QED
        BY <3>1, <3>4, <4>1, <4>2
    <3> QED
      BY <3>3, <3>4
  <2>2. CASE \E p \in Paths : HashFile(t, p) \/ HashFails(t, p)
    BY <1>1, <2>2 DEF HashFile, HashFails, At, Work, Materializing
  <2>3. CASE QuarantineUnsafe(t) \/ ListSources(t) \/ EndSweep(t)
    <3>1. \/ \E pc \in {"sweep", "process"} : Goto(t, pc)
          \/ task' = [task EXCEPT ![t] = Idle]
          \/ \E purge : task' = [task EXCEPT ![t].pc = "withdraw", ![t].back = "quarantined",
                                            ![t].purge = purge]
      BY <2>3 DEF QuarantineUnsafe, QuarantineFolder, ListSources, EndSweep
    <3>2. task[t].pc \in {"unsafe", "register", "sweep"}
      BY <2>3 DEF QuarantineUnsafe, ListSources, EndSweep, At
    <3> QED
      BY <1>1, <3>1, <3>2 DEF Goto, Idle, Work, Materializing
  <2>4. CASE \E row : SweepLarge(t, row) \/ SweepGone(t, row) \/ SweepDead(t, row)
    BY <1>1, <2>4 DEF SweepLarge, SweepGone, SweepDead, RemovePageOf, At, Work, Materializing
  <2>5. CASE (\E x \in task[t].purge : Unlink(t, x)) \/ Relist(t) \/ LogRemoval(t)
    BY <1>1, <2>5 DEF Unlink, Relist, LogRemoval, Goto, At, Work, Materializing
  <2>6. CASE Withdrawn(t) \/ WithdrawFails(t)
    <3>1. At(t, "withdraw") \/ At(t, "relist") \/ At(t, "logRemoval")
      BY <2>6 DEF Withdrawn, WithdrawFails
    <3>2. \/ NextFile(t)
          \/ \E pc \in {"sweep", "unsafe", "idle"} :
               task' = [task EXCEPT ![t] = [Idle EXCEPT !.pc = pc]]
          \/ task' = [task EXCEPT ![t] = Idle]
          \/ At(t, "withdraw") /\ task[t].back \notin {"register", "sweep", "quarantined"}
      BY <2>6 DEF Withdrawn, WithdrawFails
    <3>3. task[t].back \in {"register", "sweep", "quarantined"}
      BY <3>1, PassOf DEF IsNamed, At, Withdrawals
    <3> QED
      BY <1>1, <3>1, <3>2, <3>3 DEF NextFile, Idle, At, Materializing
  <2> QED
    BY <1>3, <2>1, <2>2, <2>3, <2>4, <2>5, <2>6 DEF Reconciles
<1>4. CASE Ingests(t)
  <2>1. CASE \E r \in pass[t].pending : ClaimPending(t, r)
    <3> DEFINE w(r, j) == [Idle EXCEPT !.pc = "extract", !.s = r.s, !.p = r.p, !.sha = r.sha,
                                       !.revision = r.revision, !.job = j]
    <3>1. \/ UNCHANGED task
          \/ \E r, j : task' = [task EXCEPT ![t] = w(r, j)]
      BY <2>1 DEF ClaimPending
    <3>2. \A r, j : w(r, j).pc = "extract"
      BY DEF Idle
    <3> HIDE DEF w
    <3>3. task[t].pc = "process"
      BY <2>1 DEF ClaimPending, At
    <3> QED
      BY <1>1, <3>1, <3>2, <3>3 DEF Materializing
  <2>2. CASE FinishIngest(t) \/ EndScan(t)
    BY <1>1, <2>2 DEF FinishIngest, EndScan, Idle, At, Work, Materializing
  <2> QED
    BY <1>1, <1>4, <2>1, <2>2 DEF Ingests, Extract, Enrich, Save, Embed, WriteDraft, Goto, At,
       Work, Materializing
<1>5. CASE Reanalyzes(t)
  <2>1. task[t].pc \in {"regenerate", "replace", "redraft", "abandon"}
    BY <1>5 DEF Reanalyzes, Regenerate, ReplaceDraft, ReplaceFails, Redraft, Abandon, At
  <2>2. \/ \E pc \in {"replace", "redraft", "abandon"} : Goto(t, pc)
        \/ task' = [task EXCEPT ![t] = Idle]
    BY <1>5 DEF Reanalyzes, Regenerate, ReplaceDraft, ReplaceFails, Redraft, Abandon
  <2> QED
    BY <1>1, <2>1, <2>2 DEF Goto, Idle, Work, Materializing
<1>6. CASE \E s \in Sources, j \in Jobs : StartReanalysis(t, s, j)
  BY <1>1, <1>6 DEF StartReanalysis, Idle, At, Work, Materializing
<1> QED
  BY <1>2, <1>3, <1>4, <1>5, <1>6 DEF Works

(* It writes to the bundle under the publication lock only.                     *)
LEMMA WorkWritesLocked ==
  ASSUME WikiTyped, NEW t \in Tasks, Works(t)
  PROVE  UNCHANGED bundle \/ guard \in {None, t}
<1>1. task[t].pc \in LockedSteps => guard = t
  BY DEF WikiTyped, LockIsHeld
<1>2. CASE Starts(t)
  BY <1>2 DEF Starts, StartPass, Quarantine, QuarantineFolder
<1>3. CASE Reconciles(t)
  BY <1>1, <1>3 DEF Reconciles, HashFile, HashFails, QuarantineUnsafe, QuarantineFolder,
     RegisterFile, Reread, ListSources, SweepLarge, SweepGone, SweepDead, EndSweep, Unlink,
     Relist, LogRemoval, Withdrawn, WithdrawFails, At, LockedSteps
<1>4. CASE Ingests(t)
  BY <1>1, <1>4 DEF Ingests, ClaimPending, Extract, Enrich, Save, Embed, WriteDraft,
     FinishIngest, EndScan, At, LockedSteps
<1>5. CASE Reanalyzes(t) \/ \E s \in Sources, j \in Jobs : StartReanalysis(t, s, j)
  BY <1>1, <1>5 DEF Reanalyzes, StartReanalysis, Regenerate, ReplaceDraft, ReplaceFails,
     Redraft, Abandon, At, LockedSteps
<1> QED
  BY <1>2, <1>3, <1>4, <1>5 DEF Works

(* It stays so while the claim and the task stay and nothing is written.       *)
LEMMA MaterializationStays ==
  ASSUME WikiTyped, LifecycleInv, [Next]_vars, MaterializationFits, claim # None, claim' = claim,
         task'[Publisher] = task[Publisher],
         task[Publisher].pc \in Materializing => UNCHANGED bundle
  PROVE  MaterializationFits'
<1>1. Publisher \in Tasks /\ task[Publisher].pc \in Materializing =>
        /\ task[Publisher].job = claim
        /\ job'[claim].source = job[claim].source /\ Publication(claim)' = Publication(claim)
        /\ approved' = approved /\ UNCHANGED bundle
  BY ClaimNamesTheSame DEF MaterializationFits, Publication
<1> QED
  BY <1>1 DEF MaterializationFits, Materializing, bundle, Publication

(* Steps of the others: the publisher holds the lock while it writes.          *)
LEMMA WorkKeepsMaterialization ==
  ASSUME WikiTyped, LifecycleInv, [Next]_vars, MaterializationFits, NEW t \in Tasks, Works(t)
  PROVE  MaterializationFits'
<1>1. CASE t = Publisher
  <2>1. task'[Publisher].pc \notin Materializing
    BY <1>1, WorkIsNoPublication
  <2> QED
    BY <2>1 DEF MaterializationFits, Materializing
<1>2. CASE t # Publisher /\ Publisher \in Tasks
  <2>1. task'[Publisher] = task[Publisher] /\ claim' = claim
    BY <1>2, WorkIsNoPublication, WorkKeepsClaim
  <2>2. CASE task[Publisher].pc \notin Materializing
    BY <2>1, <2>2 DEF MaterializationFits, Materializing
  <2>3. CASE task[Publisher].pc \in Materializing
    <3>1. guard = Publisher /\ Publisher # None
      BY <1>2, <2>3, TaskAssumption DEF WikiTyped, LockIsHeld, LockedSteps, Materializing
    <3>2. UNCHANGED bundle
      BY <1>2, <3>1, WorkWritesLocked
    <3>3. claim # None
      BY <1>2, <2>3, NoneAssumption, PassOf
         DEF MaterializationFits, IsNamed, PublisherSteps, Materializing
    <3> QED
      BY <2>1, <3>2, <3>3, MaterializationStays
  <2> QED
    BY <2>2, <2>3
<1> QED
  BY <1>1, <1>2 DEF MaterializationFits

(* The page, the index and the log entry are written one after the other.      *)
LEMMA WrittenFits ==
  ASSUME WikiTyped, LifecycleInv, MaterializationFits, Publisher \in Tasks,
         RecoverClaim \/ WritePage \/ WriteIndex \/ WriteLog
  PROVE  MaterializationFits'
<1> DEFINE j == task[Publisher].job
<1> DEFINE s == job[j].source
<1>1. task \in [Tasks -> Work] /\ page \in [Sources -> {NoPage} \union
                                         [kind : {"draft", "stable"}, version : Version]]
  BY DEF WikiTyped, TasksTyped, FilesTyped
<1>2. /\ task[Publisher].pc \in {"recover", "page", "index", "log"}
      /\ UNCHANGED <<source, concept, job, claim, approved>>
  BY DEF RecoverClaim, WritePage, WriteIndex, WriteLog, At, vars
<1>3. j = claim /\ s \in Sources
  BY <1>2, PublisherWork DEF MaterializationFits, Materializing, PublisherSteps
<1>4. CASE PublisherFails \/ PublisherEnds
  <2>1. task'[Publisher].pc \in {"cancel", "idle"}
    BY <1>1, <1>4 DEF PublisherFails, PublisherEnds, Goto, Idle, Work
  <2> QED
    BY <2>1 DEF MaterializationFits, Materializing
<1>5. CASE RecoverClaim /\ ~PublisherEnds
  <2>1. task'[Publisher].pc \in {"page", "cancel"} /\ task'[Publisher].job = j
    BY <1>1, <1>5 DEF RecoverClaim, Goto, Work
  <2> QED
    BY <1>2, <1>3, <2>1 DEF MaterializationFits, Materializing
<1>6. CASE WritePage /\ ~PublisherFails
  <2>1. /\ ClaimIsCurrent(j) /\ page' = [page EXCEPT ![s] = PageOf(s, "stable")]
        /\ task' = [task EXCEPT ![Publisher].pc = "index",
                                ![Publisher].listed = Published \union {s}]
    BY <1>6 DEF WritePage
  <2>2. /\ task'[Publisher].pc = "index" /\ task'[Publisher].job = j
        /\ s \in task'[Publisher].listed
    BY <1>1, <2>1 DEF Work
  <2>3. approved[s] = VersionOf(s)
    BY <1>3, <2>1 DEF ClaimIsCurrent, Publishing, LifecycleInv, ApprovedVersionIsStored
  <2>4. page'[s] = [kind |-> "stable", version |-> approved[s]]
    BY <1>1, <1>3, <2>1, <2>3 DEF PageOf
  <2> QED
    BY <1>2, <1>3, <2>2, <2>4 DEF MaterializationFits, Materializing
<1>7. CASE WriteIndex /\ ~PublisherFails
  <2>1. /\ task[Publisher].pc = "index" /\ index' = task[Publisher].listed
        /\ UNCHANGED page /\ Goto(Publisher, "log")
    BY <1>7 DEF WriteIndex, At
  <2>2. task'[Publisher].pc = "log" /\ task'[Publisher].job = j
    BY <1>1, <2>1 DEF Goto, Work
  <2> QED
    BY <1>2, <1>3, <2>1, <2>2 DEF MaterializationFits, Materializing
<1>8. CASE WriteLog /\ ~PublisherFails
  <2>1. /\ task[Publisher].pc = "log" /\ log' = log \union {Publication(j)}
        /\ UNCHANGED <<page, index>> /\ Goto(Publisher, "commit")
    BY <1>8 DEF WriteLog, At
  <2>2. task'[Publisher].pc = "commit" /\ task'[Publisher].job = j
    BY <1>1, <2>1 DEF Goto, Work
  <2>3. Publication(j)' = Publication(j)
    BY <1>2, <2>2 DEF Publication
  <2> QED
    BY <1>2, <1>3, <2>1, <2>2, <2>3 DEF MaterializationFits, Materializing
<1> QED
  BY <1>4, <1>5, <1>6, <1>7, <1>8

(* The other steps of an approval start at its beginning or leave it.           *)
LEMMA PublisherKeepsMaterialization ==
  ASSUME WikiTyped, LifecycleInv, MaterializationFits, Publisher \in Tasks,
         Publishes \/ \E s \in Sources : StartApproval(s)
  PROVE  MaterializationFits'
<1>1. task \in [Tasks -> Work]
  BY DEF WikiTyped, TasksTyped
<1>2. CASE RecoverClaim \/ WritePage \/ WriteIndex \/ WriteLog
  BY <1>2, WrittenFits
<1>3. CASE \E s \in Sources : StartApproval(s)
  <2> PICK s \in Sources : StartApproval(s)
    BY <1>3
  <2>1. \/ task'[Publisher].pc = "approve"
        \/ /\ task'[Publisher].pc = "recover" /\ task'[Publisher].job = claim
           /\ claim' = claim
    BY <1>1 DEF StartApproval, LoadedClaim, Idle, vars
  <2> QED
    BY <2>1 DEF MaterializationFits, Materializing
<1>4. CASE \E j \in Jobs, d \in Drafts : Approve(j, d)
  <2>1. PICK j \in Jobs, d \in Drafts : Approve(j, d)
    BY <1>4
  <2>2. task'[Publisher].pc = "page" /\ task'[Publisher].job = j /\ claim' = j
    BY <1>1, <2>1 DEF Approve, BeginPublication, Work
  <2> QED
    BY <2>2 DEF MaterializationFits, Materializing
<1>5. CASE \/ ApproveFails \/ Commit \/ BeginCancel \/ DiscardPage \/ Unlist \/ FinishCancel
           \/ RestoreDraft
  <2>1. task'[Publisher].pc \in {"idle", "approve", "cancel", "discard", "unlist", "dropClaim",
                                 "restore"}
    <3>1. \/ PublisherEnds \/ PublisherGoesOn \/ PublisherFails
          \/ \E pc \in {"discard", "unlist", "dropClaim", "restore"} :
               Goto(Publisher, pc)
          \/ task' = [task EXCEPT ![Publisher].pc = "unlist", ![Publisher].listed = Published]
      BY <1>5 DEF ApproveFails, Commit, BeginCancel, DiscardPage, Unlist, FinishCancel,
         RestoreDraft, Goto
    <3> QED
      BY <1>1, <3>1 DEF PublisherEnds, PublisherGoesOn, PublisherFails, Goto, Idle, Work
  <2> QED
    BY <2>1 DEF MaterializationFits, Materializing
<1> QED
  BY <1>2, <1>3, <1>4, <1>5 DEF Publishes

(* The person, the folder and a restart.                                     *)
LEMMA OutsideKeepsMaterialization ==
  ASSUME WikiTyped, LifecycleInv, [Next]_vars, MaterializationFits,
         \/ \E s \in Sources : Person(s)
         \/ \E p \in Paths, content \in Hashes \union {None} : EditFolder(p, content)
         \/ \E p, q \in Paths : RenameFile(p, q)
         \/ Restart
  PROVE  MaterializationFits'
<1>1. CASE Restart
  <2>1. /\ claim' = claim
        /\ \/ task' = [t \in Tasks |-> Idle]
           \/ task' = [[t \in Tasks |-> Idle] EXCEPT ![Publisher] =
                         LoadedClaim("startup", None)]
    BY <1>1 DEF Restart, RecoverInterruptedJobs
  <2>2. Publisher \in Tasks =>
          \/ task'[Publisher].pc = "idle"
          \/ task'[Publisher].pc = "recover" /\ task'[Publisher].job = claim
    <3> DEFINE w == LoadedClaim("startup", None)
    <3>1. w.pc = "recover" /\ w.job = claim /\ Idle.pc = "idle"
      BY DEF LoadedClaim, Idle
    <3> HIDE DEF w
    <3>2. Publisher \in Tasks => task'[Publisher] \in {Idle, w}
      BY <2>1 DEF w
    <3> QED
      BY <3>1, <3>2
  <2> QED
    BY <2>1, <2>2 DEF MaterializationFits, Materializing
<1>2. CASE ~Restart
  <2>1. UNCHANGED <<job, claim, approved, bundle, task>>
    BY <1>2 DEF Person, EditFolder, RenameFile, ShowReview, ExcludeReview, control, vars
  <2> QED
    BY <2>1 DEF MaterializationFits, Materializing, bundle, Publication
<1> QED
  BY <1>1, <1>2

(* Every step.                                                               *)
LEMMA MaterializationStep ==
  ASSUME WikiTyped, LifecycleInv, [WikiNext]_wikiVars, MaterializationFits
  PROVE  MaterializationFits'
<1>1. [Next]_vars
  BY WikiStep
<1>2. CASE UNCHANGED wikiVars
  BY <1>2 DEF wikiVars, vars, bundle, control, MaterializationFits, Publication
<1>3. CASE \E t \in Tasks : Works(t)
  BY <1>1, <1>3, WorkKeepsMaterialization
<1>4. CASE Publisher \in Tasks /\ (Publishes \/ \E s \in Sources : StartApproval(s))
  BY <1>4, PublisherKeepsMaterialization
<1>5. CASE \/ \E s \in Sources : Person(s)
           \/ \E p \in Paths, content \in Hashes \union {None} : EditFolder(p, content)
           \/ \E p, q \in Paths : RenameFile(p, q)
           \/ Restart
  BY <1>1, <1>5, OutsideKeepsMaterialization
<1> QED
  BY <1>2, <1>3, <1>4, <1>5 DEF WikiNext, TaskStep, Works

(* What the publisher has written is there until it commits.                   *)
LEMMA MaterializationAlwaysFits == WikiSpec => []MaterializationFits
<1>1. WikiInit => MaterializationFits
  BY DEF WikiInit, MaterializationFits, Materializing, Idle
<1>2. MaterializationFits /\ WikiTyped /\ LifecycleInv /\ [WikiNext]_wikiVars
        => MaterializationFits'
  BY MaterializationStep
<1> QED
  BY <1>1, <1>2, WikiRunsTheTables, PTL DEF WikiSpec

(* Only the last transaction of a publication makes a document searchable.     *)
LEMMA OnlyCommitsExpose ==
  ASSUME LifecycleInv, [Next]_vars, NEW s \in Sources, Searchable(s)', ~Searchable(s)
  PROVE  \E j \in Jobs : CompletePublication(j) /\ job[j].source = s
<1>1. ~OthersStayPublished /\ ~UNCHANGED vars
  BY DEF OthersStayPublished, Searchable, vars
<1>2. PICK j \in Jobs : \/ \E t \in Sources, d \in Drafts : BeginPublication(j, t, d)
                       \/ CompletePublication(j)
  BY <1>1, RegisterStays, IngestStays, ReviewStays, CancellationStays, FailClosedStays
     DEF Next, Publish
<1>3. /\ source \in [Sources -> SourceRow] /\ concept \in [Sources -> ConceptRow]
      /\ chunks' = chunks
  BY <1>2, Typed DEF BeginPublication, CompletePublication
<1>4. ~ \E t \in Sources, d \in Drafts : BeginPublication(j, t, d)
  <2> SUFFICES ASSUME NEW t \in Sources, NEW d \in Drafts, BeginPublication(j, t, d)
               PROVE  FALSE
    OBVIOUS
  <2>1. /\ s # t => source'[s] = source[s] /\ concept'[s] = concept[s]
        /\ concept'[t].status = "publishing"
    BY <1>3 DEF BeginPublication, WithStatus
  <2> QED
    BY <1>3, <2>1 DEF Searchable
<1>5. CompletePublication(j)
  BY <1>2, <1>4
<1>6. s # job[j].source => source'[s] = source[s] /\ concept'[s] = concept[s]
  BY <1>3, <1>5 DEF CompletePublication, WithStatus
<1> QED
  BY <1>3, <1>5, <1>6 DEF Searchable

(* It is the publisher that runs it, and the page, the index and the log entry  *)
(* are written by then.                                                        *)
LEMMA ExposedByCommit ==
  ASSUME MaterializationFits, WikiTyped, LifecycleInv, [WikiNext]_wikiVars,
         NEW s \in Sources, Searchable(s)', ~Searchable(s)
  PROVE  /\ Publisher \in Tasks /\ claim \in Jobs /\ job[claim].source = s
         /\ Commit /\ task[Publisher].job = claim /\ CompletePublication(claim)
         /\ page[s] = PageOf(s, "stable") /\ s \in index /\ Publication(claim) \in log
<1>1. PICK j \in Jobs : CompletePublication(j) /\ job[j].source = s
  BY WikiStep, OnlyCommitsExpose
<1>2. /\ claim = j /\ claim' # claim /\ source[s].status = "publishing"
      /\ concept'[s].status = "published" /\ concept[s].status # "published"
  BY <1>1, NoneAssumption DEF CompletePublication, MayCommit, Publishing, Searchable
<1>3. Publisher \in Tasks /\ (Publishes \/ \E t \in Sources : StartApproval(t))
  <2>1. ~ \E t \in Tasks : Works(t)
    BY <1>2, WorkKeepsClaim
  <2>2. ~UNCHANGED wikiVars
    BY <1>2 DEF wikiVars, vars
  <2>3. claim' = claim \/ ~ \/ \E t \in Sources : Person(t)
                            \/ \E p \in Paths, content \in Hashes \union {None} :
                                 EditFolder(p, content)
                            \/ \E p, q \in Paths : RenameFile(p, q)
                            \/ Restart
    BY DEF Person, ShowReview, ExcludeReview, EditFolder, RenameFile, Restart,
       RecoverInterruptedJobs, vars
  <2> QED
    BY <1>2, <2>1, <2>2, <2>3 DEF WikiNext, TaskStep, Works
<1>4. ~ \E i \in Jobs, d \in Drafts : Approve(i, d)
  BY <1>2, NoneAssumption DEF Approve, BeginPublication
<1>5. ~FinishCancel
  <2>1. FinishCancel => \E S : concept' \in {concept, WithStatus(concept, S, "needs_review")}
    BY DEF FinishCancel, FinishPublicationCancellation, ReturnClaimed
  <2>2. \A S : WithStatus(concept, S, "needs_review")[s].status # "published"
    BY <1>2, Typed DEF WithStatus, ConceptRow
  <2> QED
    BY <1>2, <2>1, <2>2
<1>6. Commit
  BY <1>2, <1>3, <1>4, <1>5 DEF Publishes, StartApproval, RecoverClaim, ApproveFails,
     WritePage, WriteIndex, WriteLog, BeginCancel, MarkPublicationCancelling, DiscardPage,
     Unlist, RestoreDraft, MarkSourceFailed, vars
<1>7. task[Publisher].job = claim
  BY <1>3, <1>6 DEF MaterializationFits, Materializing, Commit, At
<1>8. /\ page[s] = [kind |-> "stable", version |-> approved[s]] /\ s \in index
      /\ Publication(claim) \in log
  BY <1>1, <1>2, <1>3, <1>6, <1>7 DEF MaterializationFits, Commit, At
<1>9. approved[s] = VersionOf(s)
  BY <1>2 DEF LifecycleInv, ApprovedVersionIsStored
<1> QED
  BY <1>1, <1>2, <1>3, <1>6, <1>7, <1>8, <1>9 DEF PageOf

(* A version becomes searchable only when its page, its index entry and its log *)
(* entry are written, whatever other passes, removals and failures did since   *)
(* the approval (FolderWiki!ExposureIsMaterialized).                           *)
THEOREM ExposureIsAlwaysMaterialized == WikiSpec => ExposureIsMaterialized
<1> DEFINE Exposed ==
      \A s \in Sources : Searchable(s)' /\ ~Searchable(s) =>
        /\ page[s] = PageOf(s, "stable")
        /\ s \in index
        /\ [what |-> "published", s |-> s, sha |-> source[s].sha,
            revision |-> source[s].revision] \in log
<1>1. MaterializationFits /\ WikiTyped /\ LifecycleInv /\ [WikiNext]_wikiVars => Exposed
  <2> SUFFICES ASSUME MaterializationFits, WikiTyped, LifecycleInv, [WikiNext]_wikiVars,
                      NEW s \in Sources, Searchable(s)', ~Searchable(s)
               PROVE  /\ page[s] = PageOf(s, "stable")
                      /\ s \in index
                      /\ [what |-> "published", s |-> s, sha |-> source[s].sha,
                          revision |-> source[s].revision] \in log
    OBVIOUS
  <2>1. /\ job[claim].source = s /\ CompletePublication(claim)
        /\ page[s] = PageOf(s, "stable") /\ s \in index /\ Publication(claim) \in log
    BY ExposedByCommit
  <2>2. source[s].sha = job[claim].sha /\ source[s].revision = job[claim].revision
    BY <2>1 DEF CompletePublication, MayCommit, Owns
  <2> QED
    BY <2>1, <2>2 DEF Publication
<1>2. WikiSpec => [][Exposed]_wikiVars
  BY <1>1, MaterializationAlwaysFits, WikiRunsTheTables, PTL DEF WikiSpec
<1> QED
  BY <1>2 DEF ExposureIsMaterialized
================================================================================
