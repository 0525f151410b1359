------------------------ MODULE FolderWikiStartup_proofs ------------------------
(***************************************************************************)
(* Search opens on current bytes: when the startup preflight could read    *)
(* every file it found, what is searchable once the wiki serves is on disk *)
(* unless its path changed since the process started                       *)
(* (FolderWiki!StartupServesCurrentBytes).                                 *)
(*                                                                         *)
(* The argument follows every stale document, searchable although the      *)
(* bytes at its path are others or gone, through the preflight: it waits   *)
(* in `left`, `large` or outside `found` until its file is registered or   *)
(* its row is listed, and then among the rows to sweep, so that a          *)
(* preflight that comes to its end leaves none.  Nothing else makes a      *)
(* document stale: the publisher hashes the file before it commits, a row  *)
(* only moves to a path whose bytes were just read, and the folder changes *)
(* are remembered in `dirty`.                                              *)
(***************************************************************************)
EXTENDS FolderWiki_proofs

Current(s) == source[s].path \in dirty \/ OnDisk(s, source[s].sha)

Stale(s) == Searchable(s) /\ ~Current(s)

(* Steps of a pass that has not listed the rows yet.                           *)
Registers(w) ==
  \/ w.pc \in {"register", "registering", "reread"}
  \/ w.pc \in Withdrawals /\ w.back = "register"

(* Steps of a task that is not in a pass.                                      *)
Unoccupied == {"idle", "approve"} \union PublisherSteps

(* The pass of t has the stale document s still before it.                     *)
Awaits(t, s) ==
  LET w == task[t]
      q == pass[t]
      p == source[s].path
  IN
  /\ Registers(w) => \/ p \in q.left \/ p \in q.large \/ p \notin q.found
                     \/ w.pc = "registering" /\ w.p = p
  /\ Sweeps(w) => \/ \E row \in q.large : row.s = s /\ row.status # "failed"
                  \/ \E row \in q.gone : row.s = s
  /\ ~(w.pc \in Withdrawals /\ w.back = "quarantined")

(* No two documents have one path.                                             *)
DocumentsHavePaths ==
  /\ \A s \in Sources : Exists(s) => source[s].path \in Paths
  /\ \A s, u \in Sources : Exists(s) /\ Exists(u) /\ source[s].path = source[u].path => s = u
  /\ claim # None => Exists(job[claim].source)

(* What a pass found and what it hashed changed since only on a dirty path.     *)
ReadingIsCurrent(t) ==
  /\ At(t, "registering") => task[t].p \in dirty \/ folder[task[t].p] = task[t].sha
  /\ \A p \in pass[t].left : p \in dirty \/ folder[p] # None

(* The publisher hashes the file its claim was loaded with: a row that moved    *)
(* since is of bytes just read at its new path.                                *)
PublisherHasPath ==
  LET w == task[Publisher]
      s == job[w.job].source
  IN
  Publisher \in Tasks /\ w.pc \in Materializing => source[s].path = w.p \/ Current(s)

StartupIsAwaited ==
  /\ phase = "recovering" => \A t \in Tasks : task[t].pc \in Unoccupied
  /\ phase = "checking" => \A t \in Tasks, s \in Sources : Stale(s) => Awaits(t, s)
  /\ phase = "serving" => \A s \in Sources : ~Stale(s)
  /\ phase \in {"recovering", "checking", "serving"}

StartupInv ==
  /\ DocumentsHavePaths
  /\ \A t \in Tasks : ReadingIsCurrent(t)
  /\ PublisherHasPath
  /\ StartupIsAwaited

(* The startup preflight can read every file it found: one that cannot be opened *)
(* keeps its row, whatever its bytes (HashFails).                              *)
StartupReadsEveryFile ==
  [][phase = "checking" => ~ \E t \in Tasks, p \in Paths : HashFails(t, p)]_wikiVars

-------------------------------------------------------------------------------
(* What becomes of the rows and of the folder *)

RowsKeep ==
  \A s \in Sources : source'[s].path = source[s].path /\ source'[s].sha = source[s].sha

RowsMove ==
  \A s \in Sources :
    \/ source'[s].path = source[s].path /\ source'[s].sha = source[s].sha
    \/ Current(s)'

FolderMoves == dirty \subseteq dirty' /\ \A p \in Paths : folder'[p] = folder[p] \/ p \in dirty'

LEMMA StatusKeepsRows ==
  ASSUME LifecycleInv
  PROVE  /\ \A S, status : source' = WithStatus(source, S, status) => RowsKeep
         /\ \A x, status : source' = [source EXCEPT ![x].status = status] => RowsKeep
         /\ \A x, status, linked :
              source' = [source EXCEPT ![x].status = status, ![x].linked = linked] => RowsKeep
         /\ RecoverInterruptedJobs => RowsKeep
         /\ source' = source => RowsKeep
<1>1. source \in [Sources -> SourceRow]
  BY Typed
<1>2. RecoverInterruptedJobs => RowsKeep
  BY <1>1 DEF RecoverInterruptedJobs, RowsKeep, SourceRow
<1>3. \A S, status : source' = WithStatus(source, S, status) => RowsKeep
  BY <1>1 DEF WithStatus, RowsKeep, SourceRow
<1> QED
  BY <1>1, <1>2, <1>3 DEF RowsKeep, SourceRow

(* Only the registration of a file gives a document a path or bytes.           *)
LEMMA WorkKeepsRows ==
  ASSUME LifecycleInv, NEW t \in Tasks, Works(t), ~RegisterFile(t)
  PROVE  RowsKeep
<1>1. CASE Starts(t)
  BY <1>1, StatusKeepsRows
     DEF Starts, StartPass, Quarantine, QuarantineFolder, QuarantineCollection, vars
<1>2. CASE Reconciles(t)
  <2>1. CASE QuarantineUnsafe(t) \/ \E row : SweepLarge(t, row) \/ SweepGone(t, row)
    BY <2>1, StatusKeepsRows DEF QuarantineUnsafe, QuarantineFolder, QuarantineCollection,
       SweepLarge, SweepGone, QuarantineSource, MarkDeleted, vars
  <2> QED
    BY <1>2, <2>1, StatusKeepsRows DEF Reconciles, HashFile, HashFails, Reread, ListSources,
       SweepDead, EndSweep, Unlink, Relist, LogRemoval, Withdrawn, WithdrawFails, vars
<1>3. CASE Ingests(t)
  BY <1>3, StatusKeepsRows DEF Ingests, ClaimPending, ClaimIngestJob, Extract, Enrich, Save,
     Embed, WriteDraft, FinishIngest, EndScan, MarkExtracted, MarkEnriched, SaveEnrichment,
     ReplaceChunks, CompleteIngestJob, FailIngestJob, vars
<1>4. CASE Reanalyzes(t) \/ \E s \in Sources, j \in Jobs : StartReanalysis(t, s, j)
  BY <1>4, StatusKeepsRows DEF Reanalyzes, StartReanalysis, Regenerate, ReplaceDraft,
     ReplaceFails, Redraft, Abandon, BeginReanalysis, CompleteReanalysis, FailReanalysis,
     MarkSourceFailed, vars
<1> QED
  BY <1>1, <1>2, <1>3, <1>4 DEF Works

LEMMA OthersKeepRows ==
  ASSUME LifecycleInv,
         \/ Publishes \/ \E s \in Sources : StartApproval(s) \/ Person(s)
         \/ \E p \in Paths, content \in Hashes \union {None} : EditFolder(p, content)
         \/ \E p, q \in Paths : RenameFile(p, q)
         \/ Restart
  PROVE  RowsKeep
BY StatusKeepsRows DEF Publishes, StartApproval, Person, EditFolder, RenameFile, Restart,
   RecoverClaim, Approve, BeginPublication, ApproveFails, WritePage, WriteIndex, WriteLog,
   Commit, CompletePublication, BeginCancel, MarkPublicationCancelling, ReturnClaimed,
   DiscardPage, Unlist, FinishCancel, FinishPublicationCancellation, RestoreDraft,
   MarkSourceFailed, ShowReview, ExcludeReview, vars

(* Current bytes stay current.                                               *)
LEMMA CurrentStays ==
  ASSUME DocumentsHavePaths, FolderMoves, RowsMove, NEW s \in Sources, Exists(s), Current(s)
  PROVE  Current(s)'
BY DEF DocumentsHavePaths, FolderMoves, RowsMove, Current, OnDisk

(* A publication is exposed only when its bytes were on disk in that step.      *)
LEMMA ExposesCurrent ==
  ASSUME PublisherHasPath, MaterializationFits, WikiTyped, LifecycleInv, [WikiNext]_wikiVars,
         NEW s \in Sources, Searchable(s)', ~Searchable(s)
  PROVE  Current(s)
<1>1. /\ Publisher \in Tasks /\ claim \in Jobs /\ job[claim].source = s
      /\ Commit /\ task[Publisher].job = claim /\ CompletePublication(claim)
  BY ExposedByCommit
<1>2. claim' # claim /\ source[s].sha = job[claim].sha
  BY <1>1, NoneAssumption DEF CompletePublication, MayCommit, Owns
<1>3. ClaimOnDisk(claim) /\ At(Publisher, "commit")
  BY <1>1, <1>2 DEF Commit, vars
<1> QED
  BY <1>1, <1>2, <1>3 DEF PublisherHasPath, Materializing, At, ClaimOnDisk, Current, OnDisk

(* No document becomes stale.                                                *)
LEMMA StaleStays ==
  ASSUME DocumentsHavePaths, PublisherHasPath, MaterializationFits, WikiTyped, LifecycleInv,
         [WikiNext]_wikiVars, FolderMoves, RowsMove, NEW s \in Sources, Stale(s)'
  PROVE  Stale(s) /\ source'[s].path = source[s].path /\ source'[s].sha = source[s].sha
<1>1. Exists(s) /\ Searchable(s)
  <2>1. Searchable(s) => Exists(s)
    BY DEF Searchable, Exists
  <2>2. ASSUME ~Searchable(s) PROVE FALSE
    <3>1. Current(s) /\ Exists(s)
      <4>1. job[claim].source = s /\ CompletePublication(claim)
        BY <2>2, ExposedByCommit DEF Stale
      <4>2. Exists(s)
        BY <4>1 DEF CompletePublication, MayCommit, Publishing, Exists
      <4> QED
        BY <2>2, <4>2, ExposesCurrent DEF Stale
    <3> QED
      BY <3>1, CurrentStays DEF Stale
  <2> QED
    BY <2>1, <2>2
<1>2. ~Current(s)
  BY <1>1, CurrentStays DEF Stale
<1> QED
  BY <1>1, <1>2 DEF Stale, RowsMove

-------------------------------------------------------------------------------
(* Documents keep paths of their own *)

(* The claim, when a step leaves one, names a document that exists.             *)
LEMMA ClaimedExists ==
  ASSUME WikiTyped, LifecycleInv, LifecycleInv', [WikiNext]_wikiVars, claim' # None,
         claim # None => Exists(job[claim].source),
         \A s \in Sources : Exists(s) => Exists(s)'
  PROVE  Exists(job[claim].source)'
<1>1. CASE claim' = claim
  <2>1. job'[claim].source = job[claim].source /\ job[claim].source \in Sources
    BY <1>1, WikiStep, ClaimNamesTheSame, Typed DEF LifecycleInv, ClaimIsOpen, JobsNameDocuments
  <2> QED
    BY <1>1, <2>1
<1>2. CASE claim' # claim
  <2>1. \E j \in Jobs, s \in Sources, d \in Drafts : BeginPublication(j, s, d)
    <3>1. ~ \E t \in Tasks : Works(t)
      BY <1>2, WorkKeepsClaim
    <3>2. ~UNCHANGED wikiVars
      BY <1>2 DEF wikiVars, vars
    <3>3. claim' = claim \/ ~ \/ \E t \in Sources : Person(t)
                              \/ \E p \in Paths, content \in Hashes \union {None} :
                                   EditFolder(p, content)
                              \/ \E p, q \in Paths : RenameFile(p, q)
                              \/ Restart
      BY DEF Person, ShowReview, ExcludeReview, EditFolder, RenameFile, Restart,
         RecoverInterruptedJobs, vars
    <3>4. Publisher \in Tasks /\ (Publishes \/ \E t \in Sources : StartApproval(t))
      BY <1>2, <3>1, <3>2, <3>3 DEF WikiNext, TaskStep, Works
    <3>5. ~Commit /\ ~FinishCancel
      BY <1>2 DEF Commit, CompletePublication, FinishCancel, FinishPublicationCancellation, vars
    <3>6. PICK j \in Jobs, d \in Drafts : Approve(j, d)
      BY <1>2, <3>4, <3>5 DEF Publishes, StartApproval, RecoverClaim, ApproveFails, WritePage,
         WriteIndex, WriteLog, BeginCancel, MarkPublicationCancelling, DiscardPage, Unlist,
         RestoreDraft, MarkSourceFailed, vars
    <3>7. task[Publisher].s \in Sources
      BY <3>4, <3>6, PublisherWork DEF Approve, At
    <3> QED
      BY <3>6, <3>7 DEF Approve
  <2>2. PICK j \in Jobs, s \in Sources, d \in Drafts : BeginPublication(j, s, d)
    BY <2>1
  <2>3. claim' = j /\ job'[j].source = s /\ Exists(s)
    BY <2>2, Typed DEF BeginPublication, StartJob, MatchesReviewed, AwaitingReview, Exists
  <2> QED
    BY <2>2, <2>3
<1> QED
  BY <1>1, <1>2

(* A registration gives a row a path no other row has, and the bytes it hashed. *)
LEMMA RegistrationMoves ==
  ASSUME DocumentsHavePaths, LifecycleInv, LifecycleInv', NEW t \in Tasks, RegisterFile(t),
         task[t].p \in Paths, task[t].sha \in Hashes
  PROVE  /\ \A s \in Sources : Exists(s) => Exists(s)'
         /\ \A s \in Sources : Exists(s)' => source'[s].path \in Paths
         /\ \A s, u \in Sources :
              Exists(s)' /\ Exists(u)' /\ source'[s].path = source'[u].path => s = u
         /\ \A s \in Sources :
              \/ source'[s].path = source[s].path /\ source'[s].sha = source[s].sha
              \/ source'[s].path = task[t].p /\ source'[s].sha = task[t].sha
<1> DEFINE p == task[t].p
<1> DEFINE h == task[t].sha
<1> DEFINE missing == {q \in Paths : folder[q] = None}
<1>1. PICK s \in Sources :
        \/ UNCHANGED vars
        \/ RegisterRetry(s, p, h) \/ RegisterReplaced(s, p, h)
        \/ RegisterMoved(s, p, h, missing) \/ RegisterNew(s, p, h, missing)
  BY DEF RegisterFile
<1>2. source \in [Sources -> SourceRow] /\ source' \in [Sources -> SourceRow]
  BY Typed DEF LifecycleInv, TypeOK
<1> HIDE DEF missing, p, h
<1>3. CASE UNCHANGED vars
  BY <1>3 DEF vars, DocumentsHavePaths, Exists
<1>4. CASE RegisterRetry(s, p, h) \/ RegisterReplaced(s, p, h)
  <2>1. /\ s \in RowsAt(p) /\ source'[s].path = p /\ source'[s].sha = h
        /\ source'[s].status = "detected" /\ source[s].path = p
        /\ \A u \in Sources : u # s => source'[u] = source[u]
    BY <1>2, <1>4 DEF RegisterRetry, RegisterReplaced, RowsAt, SourceRow
  <2> QED
    BY <2>1 DEF DocumentsHavePaths, RowsAt, Exists, p, h
<1>5. CASE RegisterMoved(s, p, h, missing) \/ RegisterNew(s, p, h, missing)
  <2>1. /\ RowsAt(p) = {} /\ source'[s].path = p /\ source'[s].sha = h /\ Exists(s)'
        /\ \A u \in Sources : u # s => source'[u] = source[u]
    <3>1. CASE RegisterMoved(s, p, h, missing)
      <4>1. s \in SameContent(h) /\ RowsAt(p) = {}
        BY <3>1 DEF RegisterMoved, IsMove
      <4>2. /\ source'[s].path = p /\ source'[s].sha = source[s].sha
            /\ source'[s].status \in {source[s].status, "detected"}
            /\ \A u \in Sources : u # s => source'[u] = source[u]
        BY <1>2, <3>1 DEF RegisterMoved, SourceRow
      <4> QED
        BY <4>1, <4>2 DEF SameContent, Exists
    <3>2. CASE RegisterNew(s, p, h, missing)
      BY <1>2, <3>2 DEF RegisterNew, Exists
    <3> QED
      BY <1>5, <3>1, <3>2
  <2> QED
    BY <2>1 DEF DocumentsHavePaths, RowsAt, Exists, p, h
<1> QED
  BY <1>1, <1>3, <1>4, <1>5

(* Every step keeps the paths apart; only a registration moves a row.          *)
LEMMA PathsStep ==
  ASSUME DocumentsHavePaths, WikiTyped, LifecycleInv, [WikiNext]_wikiVars
  PROVE  /\ DocumentsHavePaths'
         /\ RowsKeep \/ \E t \in Tasks : RegisterFile(t)
<1>1. LifecycleInv' /\ [Next]_vars
  BY WikiStep, StepKeepsInv
<1>2. RowsKeep \/ \E t \in Tasks : RegisterFile(t)
  <2>1. CASE UNCHANGED wikiVars
    BY <2>1, StatusKeepsRows DEF wikiVars, vars
  <2>2. CASE \E t \in Tasks : Works(t)
    BY <2>2, WorkKeepsRows
  <2>3. CASE ~UNCHANGED wikiVars /\ ~ \E t \in Tasks : Works(t)
    BY <2>3, OthersKeepRows DEF WikiNext, TaskStep, Works
  <2> QED
    BY <2>1, <2>2, <2>3
<1>3. /\ \A s \in Sources : Exists(s) => Exists(s)'
      /\ \A s \in Sources : Exists(s)' => source'[s].path \in Paths
      /\ \A s, u \in Sources :
           Exists(s)' /\ Exists(u)' /\ source'[s].path = source'[u].path => s = u
  <2>1. CASE RowsKeep
    <3>1. \A s \in Sources : Exists(s)' <=> Exists(s)
      BY <1>1, <2>1 DEF RowsKeep, Exists, LifecycleInv, TypeOK
    <3> QED
      BY <2>1, <3>1 DEF RowsKeep, DocumentsHavePaths
  <2>2. CASE \E t \in Tasks : RegisterFile(t)
    <3>1. PICK t \in Tasks : RegisterFile(t)
      BY <2>2
    <3>2. task[t].p \in Paths /\ task[t].sha \in Hashes
      BY <3>1, PassOf DEF RegisterFile, At, IsNamed
    <3> QED
      BY <1>1, <3>1, <3>2, RegistrationMoves
  <2> QED
    BY <1>2, <2>1, <2>2
<1>4. claim' # None => Exists(job[claim].source)'
  BY <1>1, <1>3, ClaimedExists DEF DocumentsHavePaths
<1> QED
  BY <1>2, <1>3, <1>4 DEF DocumentsHavePaths

-------------------------------------------------------------------------------
(* Steps of the running process *)

(* The folder only changes where that makes a path dirty.                      *)
LEMMA FolderStep ==
  ASSUME WikiTyped, [WikiNext]_wikiVars, ~Restart
  PROVE  FolderMoves
<1>1. CASE \E p \in Paths, content \in Hashes \union {None} : EditFolder(p, content)
  BY <1>1 DEF EditFolder, FolderMoves, WikiTyped, FilesTyped
<1>2. CASE \E p, q \in Paths : RenameFile(p, q)
  BY <1>2 DEF RenameFile, FolderMoves, WikiTyped, FilesTyped
<1>3. CASE UNCHANGED <<folder, dirty>>
  BY <1>3 DEF FolderMoves
<1>4. CASE UNCHANGED wikiVars
  BY <1>3, <1>4 DEF wikiVars, world, outside
<1>5. ASSUME NEW t \in Tasks, Starts(t) \/ Reconciles(t)
      PROVE  UNCHANGED <<folder, dirty>>
  BY <1>5 DEF Starts, StartPass, Quarantine, QuarantineFolder, Reconciles, HashFile, HashFails,
     QuarantineUnsafe, RegisterFile, Reread, ListSources, SweepLarge, SweepGone, SweepDead,
     EndSweep, Unlink, Relist, LogRemoval, Withdrawn, WithdrawFails, world, outside
<1>6. ASSUME NEW t \in Tasks, Ingests(t)
      PROVE  UNCHANGED <<folder, dirty>>
  BY <1>6 DEF Ingests, ClaimPending, Extract, Enrich, Save, Embed, WriteDraft, FinishIngest,
     EndScan, world, outside
<1>7. ASSUME NEW t \in Tasks,
             Reanalyzes(t) \/ \E s \in Sources, j \in Jobs : StartReanalysis(t, s, j)
      PROVE  UNCHANGED <<folder, dirty>>
  BY <1>7 DEF Reanalyzes, StartReanalysis, Regenerate, ReplaceDraft, ReplaceFails, Redraft,
     Abandon, world, outside
<1>8. ASSUME Publishes \/ \E s \in Sources : StartApproval(s) \/ Person(s)
      PROVE  UNCHANGED <<folder, dirty>>
  BY <1>8 DEF Publishes, StartApproval, Person, RecoverClaim, Approve, ApproveFails, WritePage,
     WriteIndex, WriteLog, Commit, BeginCancel, DiscardPage, Unlist, FinishCancel, RestoreDraft,
     world, outside
<1> QED
  BY <1>1, <1>2, <1>3, <1>4, <1>5, <1>6, <1>7, <1>8 DEF WikiNext, TaskStep

(* A row that moves or gets new bytes is of the bytes just read at its path.    *)
LEMMA RowsStep ==
  ASSUME StartupInv, WikiTyped, LifecycleInv, [WikiNext]_wikiVars
  PROVE  RowsMove
<1>1. CASE RowsKeep
  BY <1>1 DEF RowsKeep, RowsMove
<1>2. CASE \E t \in Tasks : RegisterFile(t)
  <2>1. PICK t \in Tasks : RegisterFile(t)
    BY <1>2
  <2>2. task[t].p \in Paths /\ task[t].sha \in Hashes
    BY <2>1, PassOf DEF RegisterFile, At, IsNamed
  <2>3. task[t].p \in dirty' \/ folder'[task[t].p] = task[t].sha
    BY <2>1 DEF StartupInv, ReadingIsCurrent, RegisterFile, world, outside
  <2>4. LifecycleInv'
    BY WikiStep, StepKeepsInv
  <2>5. \A s \in Sources :
          \/ source'[s].path = source[s].path /\ source'[s].sha = source[s].sha
          \/ source'[s].path = task[t].p /\ source'[s].sha = task[t].sha
    BY <2>1, <2>2, <2>4, RegistrationMoves DEF StartupInv
  <2> QED
    BY <2>3, <2>5 DEF RowsMove, Current, OnDisk
<1> QED
  BY <1>1, <1>2, PathsStep DEF StartupInv

(* The publisher keeps the path of its claim.                                  *)
LEMMA ClaimKeepsPath ==
  ASSUME StartupInv, MaterializationFits, WikiTyped, LifecycleInv, [WikiNext]_wikiVars,
         FolderMoves, Publisher \in Tasks, task[Publisher].pc \in Materializing, claim' = claim,
         task'[Publisher].job = task[Publisher].job, task'[Publisher].p = task[Publisher].p
  PROVE  PublisherHasPath'
<1> DEFINE w == task[Publisher]
<1>1. w.job = claim /\ claim # None
  BY NoneAssumption, PublisherWork DEF MaterializationFits, Materializing, PublisherSteps
<1>2. job'[claim].source = job[claim].source
  BY <1>1, WikiStep, ClaimNamesTheSame
<1>3. PICK s \in Sources : s = job[claim].source
  BY <1>1, PublisherWork DEF Materializing, PublisherSteps
<1>4. Exists(s) /\ (source[s].path = w.p \/ Current(s))
  BY <1>1, <1>3 DEF StartupInv, DocumentsHavePaths, PublisherHasPath
<1>5. Current(s) => Current(s)'
  BY <1>4, CurrentStays, RowsStep DEF StartupInv
<1>6. source'[s].path = source[s].path \/ Current(s)'
  BY RowsStep DEF RowsMove
<1> QED
  BY <1>1, <1>2, <1>3, <1>4, <1>5, <1>6 DEF PublisherHasPath

LEMMA PublisherPathStep ==
  ASSUME StartupInv, MaterializationFits, WikiTyped, LifecycleInv, [WikiNext]_wikiVars
  PROVE  PublisherHasPath'
<1>1. task \in [Tasks -> Work]
  BY DEF WikiTyped, TasksTyped
<1>2. CASE Restart
  <2>1. /\ \/ task' = [t \in Tasks |-> Idle]
           \/ task' = [[t \in Tasks |-> Idle] EXCEPT ![Publisher] =
                         LoadedClaim("startup", None)]
        /\ claim # None => job'[claim].source = job[claim].source
        /\ claim = None => task' = [t \in Tasks |-> Idle]
    <3>1. claim # None => job'[claim].source = job[claim].source
      BY <1>2, WikiStep, ClaimNamesTheSame DEF Restart, RecoverInterruptedJobs
    <3> QED
      BY <1>2, <3>1 DEF Restart
  <2>2. RowsKeep
    BY <1>2, OthersKeepRows
  <2>3. claim # None => job[claim].source \in Sources
    BY Typed DEF LifecycleInv, ClaimIsOpen, JobsNameDocuments
  <2> DEFINE w == LoadedClaim("startup", None)
  <2>4. w.job = claim /\ w.p = source[job[claim].source].path /\ w.pc = "recover"
    BY DEF LoadedClaim, Idle
  <2> HIDE DEF w
  <2>5. Publisher \in Tasks => task'[Publisher] = Idle \/ (claim # None /\ task'[Publisher] = w)
    BY <2>1 DEF w
  <2>6. Idle.pc \notin Materializing
    BY DEF Idle, Materializing
  <2> QED
    BY <2>1, <2>2, <2>3, <2>4, <2>5, <2>6 DEF PublisherHasPath, RowsKeep
<1>3. CASE ~Restart /\ Publisher \in Tasks
  <2>1. FolderMoves
    BY <1>3, FolderStep
  <2>2. CASE task'[Publisher] = task[Publisher] /\ claim' = claim
    <3>1. CASE task[Publisher].pc \in Materializing
      BY <1>3, <2>1, <2>2, <3>1, ClaimKeepsPath
    <3>2. CASE task[Publisher].pc \notin Materializing
      BY <2>2, <3>2 DEF PublisherHasPath
    <3> QED
      BY <3>1, <3>2
  <2>3. CASE task'[Publisher].pc \notin Materializing
    BY <2>3 DEF PublisherHasPath
  <2>4. CASE UNCHANGED wikiVars
    BY <2>2, <2>4 DEF wikiVars, vars, control
  <2>5. CASE \E t \in Tasks : Works(t)
    <3>1. PICK t \in Tasks : Works(t)
      BY <2>5
    <3> QED
      BY <1>3, <2>2, <2>3, <3>1, WorkIsNoPublication, WorkKeepsClaim
  <2>6. CASE \/ \E s \in Sources : Person(s)
             \/ \E p \in Paths, content \in Hashes \union {None} : EditFolder(p, content)
             \/ \E p, q \in Paths : RenameFile(p, q)
    BY <2>2, <2>6 DEF Person, ShowReview, ExcludeReview, EditFolder, RenameFile, control, vars
  <2>7. CASE \E s \in Sources : StartApproval(s)
    <3>1. PICK s \in Sources : StartApproval(s)
      BY <2>7
    <3>2. \/ task'[Publisher].pc = "approve"
          \/ /\ task'[Publisher].job = claim
             /\ task'[Publisher].p = source[job[claim].source].path
      BY <1>1, <1>3, <3>1 DEF StartApproval, LoadedClaim, Idle
    <3> QED
      BY <2>3, <3>1, <3>2 DEF StartApproval, PublisherHasPath, vars, Materializing
  <2>8. CASE \E j \in Jobs, d \in Drafts : Approve(j, d)
    <3>1. PICK j \in Jobs, d \in Drafts : Approve(j, d)
      BY <2>8
    <3> DEFINE s == task[Publisher].s
    <3>2. s \in Sources
      BY <1>3, <3>1, PublisherWork DEF Approve, At
    <3>3. task'[Publisher].job = j /\ task'[Publisher].p = source[s].path
      BY <1>1, <1>3, <3>1 DEF Approve, Work
    <3>4. job'[j].source = s
      BY <3>1, Typed DEF Approve, BeginPublication, StartJob
    <3>5. RowsKeep
      BY <3>1, OthersKeepRows DEF Publishes
    <3> QED
      BY <3>2, <3>3, <3>4, <3>5 DEF PublisherHasPath, RowsKeep
  <2>9. CASE RecoverClaim \/ WritePage \/ WriteIndex \/ WriteLog
    <3>1. claim' = claim /\ task[Publisher].pc \in Materializing
      BY <2>9 DEF RecoverClaim, WritePage, WriteIndex, WriteLog, At, Materializing, vars
    <3>2. \/ PublisherEnds \/ PublisherFails
          \/ \E pc \in {"page", "cancel", "log", "commit"} : Goto(Publisher, pc)
          \/ task' = [task EXCEPT ![Publisher].pc = "index",
                                  ![Publisher].listed = Published \union
                                    {job[task[Publisher].job].source}]
      BY <2>9 DEF RecoverClaim, WritePage, WriteIndex, WriteLog
    <3>3. \/ task'[Publisher].pc \notin Materializing
          \/ /\ task'[Publisher].job = task[Publisher].job
             /\ task'[Publisher].p = task[Publisher].p
      BY <1>1, <1>3, <3>2 DEF PublisherEnds, PublisherFails, Goto, Idle, Work, Materializing
    <3> QED
      BY <1>3, <2>1, <2>3, <3>1, <3>3, ClaimKeepsPath
  <2>10. CASE \/ ApproveFails \/ Commit \/ BeginCancel \/ DiscardPage \/ Unlist \/ FinishCancel
              \/ RestoreDraft
    <3>1. \/ PublisherEnds \/ PublisherGoesOn \/ PublisherFails
          \/ \E pc \in {"discard", "unlist", "dropClaim", "restore"} :
               Goto(Publisher, pc)
          \/ task' = [task EXCEPT ![Publisher].pc = "unlist", ![Publisher].listed = Published]
      BY <2>10 DEF ApproveFails, Commit, BeginCancel, DiscardPage, Unlist, FinishCancel,
         RestoreDraft, Goto
    <3>2. task'[Publisher].pc \notin Materializing
      BY <1>1, <1>3, <3>1 DEF PublisherEnds, PublisherGoesOn, PublisherFails, Goto, Idle, Work,
         Materializing
    <3> QED
      BY <2>3, <3>2
  <2> QED
    BY <1>3, <2>4, <2>5, <2>6, <2>7, <2>8, <2>9, <2>10 DEF WikiNext, TaskStep, Works, Publishes
<1> QED
  BY <1>2, <1>3 DEF PublisherHasPath

-------------------------------------------------------------------------------
(* The steps of a pass *)

LEMMA UnoccupiedAwaits ==
  ASSUME NEW w, w.pc \in Unoccupied \union {"unsafe", "process"} \union IngestSteps
                           \union ReanalysisSteps
  PROVE  ~Registers(w) /\ ~Sweeps(w) /\ w.pc \notin Withdrawals /\ w.pc # "registering"
BY DEF Unoccupied, PublisherSteps, IngestSteps, ReanalysisSteps, Registers, Sweeps, Withdrawals

(* A step of the tasks T: what they read is current, and what was stale and     *)
(* still is awaits them.                                                       *)
LEMMA StartupFrame ==
  ASSUME StartupInv, MaterializationFits, WikiTyped, LifecycleInv, [WikiNext]_wikiVars,
         FolderMoves, NEW T \in SUBSET Tasks,
         \A u \in Tasks \ T : task'[u] = task[u] /\ pass'[u] = pass[u],
         \A t \in T : ReadingIsCurrent(t)',
         \A t \in T : phase' = "recovering" => task'[t].pc \in Unoccupied,
         \A t \in T, s \in Sources :
           phase' = "checking" /\ Stale(s) /\ Stale(s)' => Awaits(t, s)',
         \/ phase' = phase
         \/ phase = "recovering" /\ phase' = "checking"
         \/ phase' = "serving" /\ \A s \in Sources : Stale(s) => ~Stale(s)'
  PROVE  StartupInv'
<1>1. RowsMove /\ DocumentsHavePaths' /\ PublisherHasPath'
  BY RowsStep, PathsStep, PublisherPathStep DEF StartupInv
<1>2. \A s \in Sources : Stale(s)' => Stale(s) /\ source'[s].path = source[s].path
  BY <1>1, StaleStays DEF StartupInv
<1>3. \A u \in Tasks \ T : ReadingIsCurrent(u)'
  <2> SUFFICES ASSUME NEW u \in Tasks, u \notin T PROVE ReadingIsCurrent(u)'
    OBVIOUS
  <2>1. ReadingIsCurrent(u) /\ task'[u] = task[u] /\ pass'[u] = pass[u]
    BY DEF StartupInv
  <2>2. pass[u].left \subseteq Paths /\ (At(u, "registering") => task[u].p \in Paths)
    BY PassOf DEF Passes, At, IsNamed
  <2> QED
    BY <2>1, <2>2 DEF ReadingIsCurrent, FolderMoves, At
<1>4. ASSUME NEW u \in Tasks, u \notin T, NEW s \in Sources, phase' = "checking", Stale(s)'
      PROVE  Awaits(u, s)'
  <2>1. Stale(s) /\ source'[s].path = source[s].path /\ phase \in {"recovering", "checking"}
    BY <1>2, <1>4 DEF StartupInv, StartupIsAwaited
  <2>2. Awaits(u, s)
    <3>1. task[u].pc \in Unoccupied => Awaits(u, s)
      BY UnoccupiedAwaits DEF Awaits
    <3> QED
      BY <2>1, <3>1 DEF StartupInv, StartupIsAwaited
  <2> QED
    BY <1>4, <2>1, <2>2 DEF Awaits
<1>5. StartupIsAwaited'
  BY <1>2, <1>4 DEF StartupInv, StartupIsAwaited
<1> QED
  BY <1>1, <1>3, <1>5 DEF StartupInv

LEMMA TaskFrame ==
  ASSUME StartupInv, MaterializationFits, WikiTyped, LifecycleInv, [WikiNext]_wikiVars,
         FolderMoves, NEW t \in Tasks,
         \A u \in Tasks \ {t} : task'[u] = task[u] /\ pass'[u] = pass[u],
         ReadingIsCurrent(t)',
         phase' = "recovering" => task'[t].pc \in Unoccupied,
         \A s \in Sources : phase' = "checking" /\ Stale(s) /\ Stale(s)' => Awaits(t, s)',
         \/ phase' = phase
         \/ phase = "recovering" /\ phase' = "checking"
         \/ phase' = "serving" /\ \A s \in Sources : Stale(s) => ~Stale(s)'
  PROVE  StartupInv'
<1> DEFINE T == {t}
<1>1. T \in SUBSET Tasks /\ \A u \in T : u = t
  OBVIOUS
<1>2. \A u \in Tasks \ T : task'[u] = task[u] /\ pass'[u] = pass[u]
  OBVIOUS
<1> HIDE DEF T
<1> QED
  BY <1>1, <1>2, StartupFrame

(* Nobody works while a claim is recovered.                                    *)
LEMMA WorkIsLater ==
  ASSUME StartupInv, NEW t \in Tasks, Works(t)
  PROVE  phase \in {"checking", "serving"}
<1>1. CASE Starts(t) \/ \E s \in Sources, j \in Jobs : StartReanalysis(t, s, j)
  BY <1>1 DEF Starts, StartPass, Quarantine, MayReconcile, StartReanalysis
<1>2. CASE Reconciles(t)
  <2>1. task[t].pc \in {"register", "unsafe", "registering", "reread", "sweep"} \union Withdrawals
    BY <1>2 DEF Reconciles, HashFile, HashFails, QuarantineUnsafe, RegisterFile, Reread,
       ListSources, SweepLarge, SweepGone, SweepDead, EndSweep, Unlink, Relist, LogRemoval,
       Withdrawn, WithdrawFails, At, Withdrawals
  <2> QED
    BY <2>1 DEF StartupInv, StartupIsAwaited, Unoccupied, PublisherSteps, Withdrawals
<1>3. CASE Ingests(t) \/ Reanalyzes(t)
  <2>1. task[t].pc \in {"process"} \union IngestSteps \union ReanalysisSteps
    BY <1>3 DEF Ingests, ClaimPending, Extract, Enrich, Save, Embed, WriteDraft, FinishIngest,
       EndScan, Reanalyzes, Regenerate, ReplaceDraft, ReplaceFails, Redraft, Abandon, At,
       IngestSteps, ReanalysisSteps
  <2> QED
    BY <2>1 DEF StartupInv, StartupIsAwaited, Unoccupied, PublisherSteps, IngestSteps,
       ReanalysisSteps
<1> QED
  BY <1>1, <1>2, <1>3 DEF Works

(* A step of task t, which does not find new files and goes on where it awaits  *)
(* what it awaited.                                                            *)
LEMMA WorkFrame ==
  ASSUME StartupInv, MaterializationFits, WikiTyped, LifecycleInv, [WikiNext]_wikiVars,
         FolderMoves, NEW t \in Tasks, Works(t),
         NEW w, NEW q, task' = [task EXCEPT ![t] = w], pass' = [pass EXCEPT ![t] = q],
         q.left \subseteq pass[t].left, w.pc # "registering",
         \A s \in Sources : phase = "checking" /\ phase' = "checking" /\ Stale(s) /\ Stale(s)'
                              => Awaits(t, s)',
         \/ phase' = phase
         \/ phase' = "serving" /\ \A s \in Sources : phase = "checking" /\ Stale(s) => ~Stale(s)'
  PROVE  StartupInv'
<1>1. phase \in {"checking", "serving"}
  BY WorkIsLater
<1>2. /\ task'[t] = w /\ pass'[t] = q
      /\ \A u \in Tasks \ {t} : task'[u] = task[u] /\ pass'[u] = pass[u]
  BY DEF WikiTyped, TasksTyped
<1>3. ReadingIsCurrent(t)'
  <2>1. q.left \subseteq Paths
    BY PassOf DEF Passes
  <2> QED
    BY <1>2, <2>1 DEF StartupInv, ReadingIsCurrent, FolderMoves, At
<1>4. phase = "serving" => \A s \in Sources : ~Stale(s)
  BY DEF StartupInv, StartupIsAwaited
<1> QED
  BY <1>1, <1>2, <1>3, <1>4, TaskFrame

(* A step that ends where nothing is awaited.                                  *)
LEMMA LeavesThePass ==
  ASSUME StartupInv, MaterializationFits, WikiTyped, LifecycleInv, [WikiNext]_wikiVars,
         FolderMoves, NEW t \in Tasks, Works(t),
         NEW w, NEW q, task' = [task EXCEPT ![t] = w], pass' = [pass EXCEPT ![t] = q],
         q.left \subseteq pass[t].left,
         w.pc \in Unoccupied \union {"unsafe", "process"} \union IngestSteps \union ReanalysisSteps,
         \/ phase' = phase
         \/ phase' = "serving" /\ \A s \in Sources : phase = "checking" /\ Stale(s) => ~Stale(s)'
  PROVE  StartupInv'
<1>1. ~Registers(w) /\ ~Sweeps(w) /\ w.pc \notin Withdrawals /\ w.pc # "registering"
  BY UnoccupiedAwaits
<1>2. task'[t] = w
  BY DEF WikiTyped, TasksTyped
<1>3. \A s \in Sources : Awaits(t, s)'
  BY <1>1, <1>2 DEF Awaits
<1> QED
  BY <1>1, <1>3, WorkFrame

LEMMA StartPassStartup ==
  ASSUME StartupInv, MaterializationFits, WikiTyped, LifecycleInv, [WikiNext]_wikiVars,
         FolderMoves, NEW t \in Tasks, StartPass(t)
  PROVE  StartupInv'
<1> DEFINE there == {p \in Paths : folder[p] # None}
<1> DEFINE large == {p \in there : folder[p] \in Large}
<1> DEFINE q == [NoPass EXCEPT !.left = there \ large, !.found = there, !.large = large]
<1>1. /\ task'[t].pc = "register" /\ pass'[t] = q
      /\ \A u \in Tasks \ {t} : task'[u] = task[u] /\ pass'[u] = pass[u]
      /\ UNCHANGED <<phase, folder, dirty>> /\ UNCHANGED vars /\ phase # "recovering"
  BY DEF WikiTyped, TasksTyped, StartPass, Goto, Work, world, outside, MayReconcile
<1>2. q.left = there \ large /\ q.found = there /\ q.large = large
  BY DEF NoPass
<1> HIDE DEF q
<1>3. ReadingIsCurrent(t)'
  BY <1>1, <1>2 DEF ReadingIsCurrent, At
<1>4. ASSUME NEW s \in Sources, Stale(s) PROVE Awaits(t, s)'
  <2>1. source[s].path \in Paths /\ UNCHANGED source
    BY <1>1, <1>4 DEF StartupInv, DocumentsHavePaths, Stale, Searchable, Exists, vars
  <2>2. source[s].path \in q.left \/ source[s].path \in q.large \/ source[s].path \notin q.found
    BY <1>2, <2>1
  <2>3. ~Sweeps(task'[t]) /\ task'[t].pc \notin Withdrawals
    BY <1>1 DEF Sweeps, Withdrawals
  <2> QED
    BY <1>1, <2>1, <2>2, <2>3 DEF Awaits
<1> QED
  BY <1>1, <1>3, <1>4, TaskFrame

(* A quarantine leaves nothing searchable.                                     *)
LEMMA QuarantineStartup ==
  ASSUME StartupInv, MaterializationFits, WikiTyped, LifecycleInv, [WikiNext]_wikiVars,
         FolderMoves, NEW t \in Tasks, Works(t), QuarantineFolder(t)
  PROVE  StartupInv'
<1> DEFINE purge == {[s |-> s, sha |-> source[s].sha] : s \in Published}
<1>1. \A s \in Sources : ~Searchable(s)'
  BY Typed DEF QuarantineFolder, QuarantineCollection, WithStatus, Exists, Searchable, SourceRow
<1>2. PICK w : task' = [task EXCEPT ![t] = w] /\ w.pc = "withdraw"
  <2>1. \E P : task' = [task EXCEPT ![t] = [task[t] EXCEPT !.pc = "withdraw",
                                                        !.back = "quarantined", !.purge = P]]
    BY DEF QuarantineFolder
  <2>2. \A P : [task[t] EXCEPT !.pc = "withdraw", !.back = "quarantined", !.purge = P].pc
                 = "withdraw"
    BY PassOf DEF Work
  <2> QED
    BY <2>1, <2>2
<1>3. UNCHANGED phase /\ pass' = [pass EXCEPT ![t] = pass[t]]
  BY PassOf DEF QuarantineFolder
<1> QED
  BY <1>1, <1>2, <1>3, WorkFrame DEF Stale

LEMMA HashFileStartup ==
  ASSUME StartupInv, MaterializationFits, WikiTyped, LifecycleInv, [WikiNext]_wikiVars,
         FolderMoves, NEW t \in Tasks, NEW p \in Paths,
         HashFile(t, p) \/ (HashFails(t, p) /\ phase # "checking")
  PROVE  StartupInv'
<1> DEFINE w == [task[t] EXCEPT !.pc = "registering", !.p = p, !.sha = folder[p]]
<1> DEFINE q == [pass[t] EXCEPT !.left = @ \ {p}]
<1>1. /\ task[t] \in Work /\ pass[t] \in Passes /\ task[t].pc = "register" /\ p \in pass[t].left
  BY PassOf DEF HashFile, HashFails, At
<1>2. /\ q.left = pass[t].left \ {p} /\ q.found = pass[t].found /\ q.large = pass[t].large
      /\ w.pc = "registering" /\ w.p = p /\ w.sha = folder[p]
  BY <1>1 DEF Work, Passes
<1>3. /\ pass' = [pass EXCEPT ![t] = q] /\ UNCHANGED <<vars, folder, dirty, phase>>
      /\ task' = task \/ task' = [task EXCEPT ![t] = w]
      /\ phase # "checking" \/ folder[p] = None \/ task' = [task EXCEPT ![t] = w]
  BY DEF HashFile, HashFails, world, outside
<1> HIDE DEF w, q
<1>4. /\ pass'[t] = q /\ (task'[t] = task[t] \/ task'[t] = w)
      /\ phase # "checking" \/ folder[p] = None \/ task'[t] = w
      /\ \A u \in Tasks \ {t} : task'[u] = task[u] /\ pass'[u] = pass[u]
  BY <1>3 DEF WikiTyped, TasksTyped
<1>5. ReadingIsCurrent(t) /\ phase \in {"checking", "serving"}
  BY WorkIsLater DEF StartupInv, Works, Reconciles
<1>6. ReadingIsCurrent(t)'
  BY <1>1, <1>2, <1>3, <1>4, <1>5 DEF ReadingIsCurrent, At
<1>7. ASSUME NEW s \in Sources, Stale(s), phase = "checking" PROVE Awaits(t, s)'
  <2> DEFINE x == source[s].path
  <2>1. x \in pass[t].left \/ x \in pass[t].large \/ x \notin pass[t].found
    BY <1>1, <1>7 DEF StartupInv, StartupIsAwaited, Awaits, Registers
  <2>2. x = p => task'[t] = w
    <3>1. x \notin dirty
      BY <1>7 DEF Stale, Current
    <3> QED
      BY <1>1, <1>4, <1>5, <1>7, <3>1 DEF ReadingIsCurrent
  <2>3. task'[t].pc \in {"register", "registering"} /\ source' = source
    BY <1>1, <1>2, <1>3, <1>4 DEF vars
  <2> QED
    BY <1>2, <1>4, <2>1, <2>2, <2>3 DEF Awaits, Sweeps, Withdrawals
<1> QED
  BY <1>3, <1>4, <1>5, <1>6, <1>7, TaskFrame

(* A stale document at the path of a registration gets its bytes.              *)
LEMMA RegistrationWithdraws ==
  ASSUME StartupInv, LifecycleInv, NEW t \in Tasks, RegisterFile(t), NEW s \in Sources, Stale(s),
         source[s].path = task[t].p
  PROVE  ~Searchable(s)'
<1> DEFINE p == task[t].p
<1> DEFINE h == task[t].sha
<1> DEFINE missing == {q \in Paths : folder[q] = None}
<1>1. s \in RowsAt(p) /\ source[s].sha # h
  <2>1. p \in dirty \/ folder[p] = h
    BY DEF StartupInv, ReadingIsCurrent, RegisterFile
  <2> QED
    BY <2>1 DEF Stale, Current, OnDisk, Searchable, RowsAt, Exists
<1>2. \A u \in Sources : u \in RowsAt(p) => u = s
  BY <1>1 DEF StartupInv, DocumentsHavePaths, RowsAt, Exists
<1>3. PICK u \in Sources :
        \/ RegisterUnchanged(u, p, h) \/ RegisterRetry(u, p, h) \/ RegisterReplaced(u, p, h)
        \/ RegisterMoved(u, p, h, missing) \/ RegisterNew(u, p, h, missing)
  BY DEF RegisterFile
<1> HIDE DEF p, h, missing
<1>4. RegisterReplaced(u, p, h) /\ u = s
  BY <1>1, <1>2, <1>3
     DEF RegisterUnchanged, RegisterRetry, RegisterReplaced, RegisterMoved, RegisterNew, IsMove
<1>5. source'[s].status = "detected"
  BY <1>4, Typed DEF RegisterReplaced, SourceRow
<1> QED
  BY <1>5 DEF Searchable

LEMMA NextFileWork ==
  ASSUME NEW t \in Tasks, NextFile(t)
  PROVE  \E w : task' = [task EXCEPT ![t] = w] /\ w.pc = "register"
<1> DEFINE w == [Idle EXCEPT !.pc = "register"]
<1>1. w.pc = "register"
  BY DEF Idle
<1>2. task' = [task EXCEPT ![t] = w]
  BY DEF NextFile
<1> HIDE DEF w
<1> QED
  BY <1>1, <1>2

LEMMA RegisterFileStartup ==
  ASSUME StartupInv, MaterializationFits, WikiTyped, LifecycleInv, [WikiNext]_wikiVars,
         FolderMoves, NEW t \in Tasks, RegisterFile(t)
  PROVE  StartupInv'
<1>1. /\ task[t].pc = "registering" /\ UNCHANGED <<pass, phase>>
      /\ pass = [pass EXCEPT ![t] = pass[t]] /\ task[t] \in Work
  BY PassOf DEF RegisterFile, At
<1> DEFINE reread(s, old) == [task[t] EXCEPT !.pc = "reread", !.s = s,
                                             !.purge = {[s |-> s, sha |-> old]}]
<1>2. \E w : task' = [task EXCEPT ![t] = w] /\ w.pc \in {"register", "reread"}
  <2>1. PICK s \in Sources : \/ NextFile(t)
                            \/ task' = [task EXCEPT ![t] = reread(s, task[t].sha)]
                            \/ task' = [task EXCEPT ![t] = reread(s, source[s].sha)]
    BY DEF RegisterFile
  <2>2. CASE NextFile(t)
    BY <2>2, NextFileWork
  <2>3. ASSUME NEW old, task' = [task EXCEPT ![t] = reread(s, old)]
        PROVE  \E w : task' = [task EXCEPT ![t] = w] /\ w.pc \in {"register", "reread"}
    <3>1. reread(s, old).pc = "reread"
      BY <1>1 DEF Work
    <3> HIDE DEF reread
    <3> QED
      BY <2>3, <3>1
  <2> QED
    BY <2>1, <2>2, <2>3
<1>3. PICK w : task' = [task EXCEPT ![t] = w] /\ w.pc \in {"register", "reread"}
  BY <1>2
<1>4. task'[t] = w
  BY <1>3 DEF WikiTyped, TasksTyped
<1>5. ASSUME NEW s \in Sources, phase = "checking", Stale(s), Stale(s)' PROVE Awaits(t, s)'
  <2>1. source'[s].path = source[s].path
    BY <1>5, StaleStays, RowsStep DEF StartupInv
  <2>2. source[s].path # task[t].p
    BY <1>5, RegistrationWithdraws DEF Stale
  <2>3. Awaits(t, s) /\ Registers(task[t])
    BY <1>1, <1>5 DEF StartupInv, StartupIsAwaited, Registers
  <2> QED
    BY <1>1, <1>3, <1>4, <2>1, <2>2, <2>3 DEF Awaits, Sweeps, Withdrawals
<1> QED
  BY <1>1, <1>3, <1>5, WorkFrame DEF Works, Reconciles

(* A task that goes on in the same part of its pass.                           *)
LEMMA GoesOnWaiting ==
  ASSUME StartupInv, MaterializationFits, WikiTyped, LifecycleInv, [WikiNext]_wikiVars,
         FolderMoves, NEW t \in Tasks, Works(t), UNCHANGED phase,
         NEW w, NEW q, task' = [task EXCEPT ![t] = w], pass' = [pass EXCEPT ![t] = q],
         q.left = pass[t].left, q.found = pass[t].found, q.large = pass[t].large,
         q.gone = pass[t].gone,
         w.pc # "registering", task[t].pc # "registering",
         Registers(w) <=> Registers(task[t]), Sweeps(w) <=> Sweeps(task[t]),
         w.pc \in Withdrawals /\ w.back = "quarantined" =>
           task[t].pc \in Withdrawals /\ task[t].back = "quarantined"
  PROVE  StartupInv'
<1>1. task'[t] = w /\ pass'[t] = q
  BY DEF WikiTyped, TasksTyped
<1>2. ASSUME NEW s \in Sources, phase = "checking", Stale(s), Stale(s)' PROVE Awaits(t, s)'
  <2>1. source'[s].path = source[s].path
    BY <1>2, StaleStays, RowsStep DEF StartupInv
  <2>2. Awaits(t, s)
    BY <1>2 DEF StartupInv, StartupIsAwaited
  <2> QED
    BY <1>1, <2>1, <2>2 DEF Awaits
<1> QED
  BY <1>2, WorkFrame

(* What Pend leaves alone.                                                     *)
LEMMA PendedPass ==
  ASSUME WikiTyped, NEW t \in Tasks, NEW s, NEW revision, Pend(t, s, revision)
  PROVE  \E q : /\ pass' = [pass EXCEPT ![t] = q]
                /\ q.left = pass[t].left /\ q.found = pass[t].found
                /\ q.large = pass[t].large /\ q.gone = pass[t].gone
<1> DEFINE P == pass[t].pending \union
                  {[s |-> s, p |-> task[t].p, sha |-> task[t].sha, revision |-> revision]}
<1> DEFINE q == [pass[t] EXCEPT !.pending = P]
<1>1. pass' = [pass EXCEPT ![t] = q]
  BY DEF Pend
<1> HIDE DEF P
<1>2. q.left = pass[t].left /\ q.found = pass[t].found /\ q.large = pass[t].large
      /\ q.gone = pass[t].gone
  BY PassOf DEF Passes
<1> QED
  BY <1>1, <1>2

LEMMA RereadStartup ==
  ASSUME StartupInv, MaterializationFits, WikiTyped, LifecycleInv, [WikiNext]_wikiVars,
         FolderMoves, NEW t \in Tasks, Reread(t)
  PROVE  StartupInv'
<1>1. task[t].pc = "reread" /\ UNCHANGED phase /\ task[t] \in Work /\ Works(t)
      /\ pass = [pass EXCEPT ![t] = pass[t]]
  BY PassOf DEF Reread, At, Works, Reconciles
<1>2. PICK w : /\ task' = [task EXCEPT ![t] = w]
               /\ w.pc = "register" \/ (w.pc = "withdraw" /\ w.back = "register")
  <2> DEFINE v == [task[t] EXCEPT !.pc = "withdraw", !.back = "register",
                                  !.revision = source[task[t].s].revision]
  <2>1. NextFile(t) \/ task' = [task EXCEPT ![t] = v]
    BY DEF Reread
  <2>2. v.pc = "withdraw" /\ v.back = "register"
    BY <1>1 DEF Work
  <2> HIDE DEF v
  <2>3. CASE NextFile(t)
    BY <2>3, NextFileWork
  <2> QED
    BY <2>1, <2>2, <2>3
<1>3. PICK q : /\ pass' = [pass EXCEPT ![t] = q]
               /\ q.left = pass[t].left /\ q.found = pass[t].found
               /\ q.large = pass[t].large /\ q.gone = pass[t].gone
  BY <1>1, PendedPass DEF Reread
<1>4. Registers(task[t]) /\ ~Sweeps(task[t]) /\ Registers(w) /\ ~Sweeps(w)
      /\ w.pc # "registering"
  BY <1>1, <1>2 DEF Registers, Sweeps, Withdrawals
<1> QED
  BY <1>1, <1>2, <1>3, <1>4, GoesOnWaiting DEF Withdrawals

(* Every stale document that awaits its registration no longer is listed.      *)
LEMMA ListSourcesStartup ==
  ASSUME StartupInv, MaterializationFits, WikiTyped, LifecycleInv, [WikiNext]_wikiVars,
         FolderMoves, NEW t \in Tasks, ListSources(t)
  PROVE  StartupInv'
<1> DEFINE row(s) == [s |-> s, sha |-> source[s].sha, linked |-> source[s].linked,
                      status |-> source[s].status]
<1> DEFINE isLarge(s) == source[s].path \in pass[t].large
<1> DEFINE deleted(s) == source[s].status = "deleted"
<1> DEFINE found(s) == source[s].path \in pass[t].found
<1> DEFINE large == {row(s) : s \in {s \in Sources : Exists(s) /\ isLarge(s) /\ ~deleted(s)}}
<1> DEFINE dead == {row(s) : s \in {s \in Sources : Exists(s) /\ ~isLarge(s) /\ deleted(s)
                                                      /\ source[s].linked}}
<1> DEFINE gone == {row(s) : s \in {s \in Sources : Exists(s) /\ ~isLarge(s) /\ ~deleted(s)
                                                      /\ ~found(s)}}
<1> DEFINE q == [pass[t] EXCEPT !.large = large, !.dead = dead, !.gone = gone]
<1> DEFINE w == [task[t] EXCEPT !.pc = "sweep"]
<1>1. /\ task[t].pc = "register" /\ pass[t].left = {} /\ UNCHANGED phase /\ UNCHANGED vars
      /\ task' = [task EXCEPT ![t] = w] /\ Works(t)
  BY DEF ListSources, At, Goto, Works, Reconciles
<1>2. pass' = [pass EXCEPT ![t] = q]
  BY DEF ListSources
<1>3. w.pc = "sweep"
  BY PassOf DEF Work
<1>4. q.left = {} /\ q.large = large /\ q.gone = gone
  <2> HIDE DEF large, dead, gone
  <2> QED
    BY <1>1, PassOf DEF Passes
<1>5. ASSUME NEW s \in Sources, phase = "checking", Stale(s) PROVE Awaits(t, s)'
  <2>1. isLarge(s) \/ ~found(s)
    BY <1>1, <1>5 DEF StartupInv, StartupIsAwaited, Awaits, Registers
  <2>2. Exists(s) /\ ~deleted(s) /\ source[s].status = "published"
    BY <1>5 DEF Stale, Searchable, Exists
  <2>3. \E r : r.s = s /\ r.status # "failed" /\ (r \in large \/ r \in gone)
    <3>1. row(s).s = s /\ row(s).status # "failed" /\ (row(s) \in large \/ row(s) \in gone)
      BY <2>1, <2>2
    <3> HIDE DEF row
    <3> QED
      BY <3>1
  <2>4. pass'[t] = q /\ task'[t] = w
    BY <1>1, <1>2 DEF WikiTyped, TasksTyped
  <2>5. \/ \E r \in q.large : r.s = s /\ r.status # "failed"
        \/ \E g \in q.gone : g.s = s
    <3> HIDE DEF q, large, gone
    <3> QED
      BY <1>4, <2>3
  <2> HIDE DEF q, w
  <2>6. ~Registers(w) /\ w.pc \notin Withdrawals
    BY <1>3 DEF Registers, Withdrawals
  <2>7. \/ \E r \in pass'[t].large : r.s = s /\ r.status # "failed"
        \/ \E g \in pass'[t].gone : g.s = s
    BY <2>4, <2>5
  <2> QED
    BY <2>4, <2>6, <2>7 DEF Awaits
<1> HIDE DEF q, w
<1> QED
  BY <1>1, <1>2, <1>3, <1>4, <1>5, WorkFrame

(* What the sweep of a row does to its task.                                   *)
LEMMA RemovePageGoesOn ==
  ASSUME WikiTyped, NEW t \in Tasks, task[t].pc = "sweep", NEW row,
         RemovePageOf(t, row) \/ UNCHANGED task
  PROVE  \E w : /\ task' = [task EXCEPT ![t] = w]
                /\ w = task[t] \/ (w.pc = "withdraw" /\ w.back = "sweep")
<1>1. task[t] \in Work /\ task = [task EXCEPT ![t] = task[t]]
  BY PassOf
<1> DEFINE v == [task[t] EXCEPT !.pc = "withdraw", !.back = "sweep",
                                !.purge = {[s |-> row.s, sha |-> row.sha]}]
<1>2. v.pc = "withdraw" /\ v.back = "sweep"
  BY <1>1 DEF Work
<1>3. RemovePageOf(t, row) => task' = [task EXCEPT ![t] = v]
  BY DEF RemovePageOf
<1> HIDE DEF v
<1>4. CASE RemovePageOf(t, row)
  BY <1>2, <1>3, <1>4
<1>5. CASE UNCHANGED task
  BY <1>1, <1>5
<1> QED
  BY <1>4, <1>5

(* A sweep withdraws the rows it goes over.                                    *)
LEMMA SweepStartup ==
  ASSUME StartupInv, MaterializationFits, WikiTyped, LifecycleInv, [WikiNext]_wikiVars,
         FolderMoves, NEW t \in Tasks, NEW row,
         \/ row \in pass[t].large /\ SweepLarge(t, row)
         \/ row \in pass[t].gone /\ SweepGone(t, row)
         \/ row \in pass[t].dead /\ SweepDead(t, row)
  PROVE  StartupInv'
<1>1. /\ task[t].pc = "sweep" /\ UNCHANGED phase /\ Works(t) /\ pass[t] \in Passes
      /\ task[t] \in Work
  BY PassOf DEF SweepLarge, SweepGone, SweepDead, At, Works, Reconciles
<1>2. PICK w : /\ task' = [task EXCEPT ![t] = w]
               /\ w = task[t] \/ (w.pc = "withdraw" /\ w.back = "sweep")
  <2>1. \E x : RemovePageOf(t, x) \/ UNCHANGED task
    BY DEF SweepLarge, SweepGone, SweepDead
  <2> QED
    BY <1>1, <2>1, RemovePageGoesOn
<1>3. PICK q : /\ pass' = [pass EXCEPT ![t] = q] /\ q.left = pass[t].left
               /\ \A r \in pass[t].large : r \in q.large \/ (r = row /\ SweepLarge(t, row))
               /\ \A r \in pass[t].gone : r \in q.gone \/ (r = row /\ SweepGone(t, row))
  <2>1. CASE SweepLarge(t, row)
    <3> DEFINE v == [pass[t] EXCEPT !.large = @ \ {row}]
    <3>1. pass' = [pass EXCEPT ![t] = v]
      BY <2>1 DEF SweepLarge
    <3>2. v.left = pass[t].left /\ v.large = pass[t].large \ {row} /\ v.gone = pass[t].gone
      BY <1>1 DEF Passes
    <3> HIDE DEF v
    <3> QED
      BY <2>1, <3>1, <3>2
  <2>2. CASE SweepGone(t, row)
    <3> DEFINE v == [pass[t] EXCEPT !.gone = @ \ {row}]
    <3>1. pass' = [pass EXCEPT ![t] = v]
      BY <2>2 DEF SweepGone
    <3>2. v.left = pass[t].left /\ v.large = pass[t].large /\ v.gone = pass[t].gone \ {row}
      BY <1>1 DEF Passes
    <3> HIDE DEF v
    <3> QED
      BY <2>2, <3>1, <3>2
  <2>3. CASE SweepDead(t, row)
    <3> DEFINE v == [pass[t] EXCEPT !.dead = @ \ {row}]
    <3>1. pass' = [pass EXCEPT ![t] = v]
      BY <2>3 DEF SweepDead
    <3>2. v.left = pass[t].left /\ v.large = pass[t].large /\ v.gone = pass[t].gone
      BY <1>1 DEF Passes
    <3> HIDE DEF v
    <3> QED
      BY <2>3, <3>1, <3>2
  <2> QED
    BY <2>1, <2>2, <2>3
<1>4. task'[t] = w /\ pass'[t] = q /\ w.pc # "registering" /\ ~Registers(w) /\ Sweeps(w)
      /\ ~(w.pc \in Withdrawals /\ w.back = "quarantined")
  <2>1. task'[t] = w /\ pass'[t] = q
    BY <1>2, <1>3 DEF WikiTyped, TasksTyped
  <2> QED
    BY <1>1, <1>2, <2>1 DEF Registers, Sweeps, Withdrawals
<1>5. ASSUME NEW s \in Sources, Stale(s), Stale(s)', row.s = s
      PROVE  /\ ~SweepGone(t, row)
             /\ SweepLarge(t, row) => row.status = "failed"
  <2>1. source[s].status = "published" /\ source'[s].status = "published"
    BY <1>5 DEF Stale, Searchable
  <2>2. \A status : source' = WithStatus(source, {s}, status) => source'[s].status = status
    BY <2>1, Typed DEF WithStatus, SourceRow
  <2> QED
    BY <1>5, <2>1, <2>2 DEF SweepGone, MarkDeleted, SweepLarge, QuarantineSource
<1>6. ASSUME NEW s \in Sources, phase = "checking", Stale(s), Stale(s)' PROVE Awaits(t, s)'
  <2>1. \/ \E r \in pass[t].large : r.s = s /\ r.status # "failed"
        \/ \E r \in pass[t].gone : r.s = s
    BY <1>1, <1>6 DEF StartupInv, StartupIsAwaited, Awaits, Sweeps
  <2>2. \/ \E r \in q.large : r.s = s /\ r.status # "failed"
        \/ \E r \in q.gone : r.s = s
    BY <1>3, <1>5, <1>6, <2>1
  <2> QED
    BY <1>4, <2>2 DEF Awaits
<1> QED
  BY <1>1, <1>2, <1>3, <1>4, <1>6, WorkFrame

(* A preflight that comes to its end leaves no stale document.                 *)
LEMMA EndSweepStartup ==
  ASSUME StartupInv, MaterializationFits, WikiTyped, LifecycleInv, [WikiNext]_wikiVars,
         FolderMoves, NEW t \in Tasks, EndSweep(t)
  PROVE  StartupInv'
<1>1. /\ task[t].pc = "sweep" /\ Works(t) /\ pass[t].large = {} /\ pass[t].gone = {}
      /\ task[t] \in Work /\ pass = [pass EXCEPT ![t] = pass[t]]
  BY PassOf DEF EndSweep, At, Works, Reconciles
<1>2. CASE t = "scan"
  <2> DEFINE w == [task[t] EXCEPT !.pc = "process"]
  <2>1. task' = [task EXCEPT ![t] = w] /\ UNCHANGED <<pass, phase>>
    BY <1>2 DEF EndSweep, Goto
  <2>2. w.pc = "process"
    BY <1>1 DEF Work
  <2> HIDE DEF w
  <2> QED
    BY <1>1, <2>1, <2>2, LeavesThePass
<1>3. CASE t # "scan"
  <2>1. /\ task' = [task EXCEPT ![t] = Idle] /\ pass' = [pass EXCEPT ![t] = NoPass]
        /\ phase' = "serving" /\ Idle.pc = "idle" /\ NoPass.left = {}
    BY <1>3 DEF EndSweep, Idle, NoPass
  <2>2. phase = "checking" => \A s \in Sources : ~Stale(s)
    BY <1>1 DEF StartupInv, StartupIsAwaited, Awaits, Sweeps
  <2> QED
    BY <1>1, <2>1, <2>2, LeavesThePass DEF Unoccupied
<1> QED
  BY <1>2, <1>3

(* Withdrawals of pages.                                                     *)
LEMMA WithdrawalStartup ==
  ASSUME StartupInv, MaterializationFits, WikiTyped, LifecycleInv, [WikiNext]_wikiVars,
         FolderMoves, NEW t \in Tasks,
         (\E x \in task[t].purge : Unlink(t, x)) \/ Relist(t) \/ LogRemoval(t)
  PROVE  StartupInv'
<1>1. /\ task[t].pc \in Withdrawals /\ UNCHANGED <<phase, pass>> /\ Works(t) /\ task[t] \in Work
      /\ pass = [pass EXCEPT ![t] = pass[t]]
  BY PassOf DEF Unlink, Relist, LogRemoval, At, Works, Reconciles, Withdrawals
<1>2. PICK w : task' = [task EXCEPT ![t] = w] /\ w.pc \in Withdrawals /\ w.back = task[t].back
  <2>2. CASE \E x \in task[t].purge : Unlink(t, x)
    <3> DEFINE a(x) == [task[t] EXCEPT !.purge = @ \ {x}]
    <3> DEFINE b(x) == [task[t] EXCEPT !.pc = "relist", !.listed = Published, !.s = x.s]
    <3>1. PICK x : task' = [task EXCEPT ![t] = a(x)] \/ task' = [task EXCEPT ![t] = b(x)]
      BY <2>2 DEF Unlink
    <3>2. a(x).pc \in Withdrawals /\ a(x).back = task[t].back
          /\ b(x).pc \in Withdrawals /\ b(x).back = task[t].back
      BY <1>1 DEF Work, Withdrawals
    <3> HIDE DEF a, b
    <3> QED
      BY <3>1, <3>2
  <2>3. CASE Relist(t)
    <3> DEFINE a == [task[t] EXCEPT !.pc = "logRemoval"]
    <3>1. task' = [task EXCEPT ![t] = a]
      BY <2>3 DEF Relist, Goto
    <3>2. a.pc \in Withdrawals /\ a.back = task[t].back
      BY <1>1 DEF Work, Withdrawals
    <3> HIDE DEF a
    <3> QED
      BY <3>1, <3>2
  <2>4. CASE LogRemoval(t)
    <3> DEFINE a(x) == [task[t] EXCEPT !.pc = "withdraw", !.purge = @ \ {x}]
    <3>1. PICK x : task' = [task EXCEPT ![t] = a(x)]
      BY <2>4 DEF LogRemoval
    <3>2. a(x).pc \in Withdrawals /\ a(x).back = task[t].back
      BY <1>1 DEF Work, Withdrawals
    <3> HIDE DEF a
    <3> QED
      BY <3>1, <3>2
  <2> QED
    BY <2>2, <2>3, <2>4
<1>3. /\ Registers(w) <=> Registers(task[t])
      /\ Sweeps(w) <=> Sweeps(task[t])
      /\ w.pc # "registering" /\ task[t].pc # "registering"
  BY <1>1, <1>2 DEF Registers, Sweeps, Withdrawals
<1> QED
  BY <1>1, <1>2, <1>3, GoesOnWaiting

LEMMA WithdrawnStartup ==
  ASSUME StartupInv, MaterializationFits, WikiTyped, LifecycleInv, [WikiNext]_wikiVars,
         FolderMoves, NEW t \in Tasks, Withdrawn(t) \/ WithdrawFails(t)
  PROVE  StartupInv'
<1>1. /\ task[t].pc \in Withdrawals /\ Works(t) /\ task[t] \in Work
      /\ task[t].back \in {"register", "sweep", "quarantined"}
      /\ pass = [pass EXCEPT ![t] = pass[t]]
      /\ task[t].pc # "registering"
  BY PassOf DEF Withdrawn, WithdrawFails, At, Works, Reconciles, Withdrawals, IsNamed
<1>2. CASE task[t].back = "register"
  <2>1. NextFile(t) /\ UNCHANGED phase
        /\ (UNCHANGED pass \/ Pend(t, task[t].s, task[t].revision))
    BY <1>2 DEF Withdrawn, WithdrawFails
  <2>2. PICK w : task' = [task EXCEPT ![t] = w] /\ w.pc = "register"
    BY <2>1, NextFileWork
  <2>3. PICK q : /\ pass' = [pass EXCEPT ![t] = q]
                 /\ q.left = pass[t].left /\ q.found = pass[t].found
                 /\ q.large = pass[t].large /\ q.gone = pass[t].gone
    BY <1>1, <2>1, PendedPass
  <2>4. Registers(w) /\ Registers(task[t]) /\ ~Sweeps(w) /\ ~Sweeps(task[t])
    BY <1>1, <1>2, <2>2 DEF Registers, Sweeps, Withdrawals
  <2> QED
    BY <1>1, <2>1, <2>2, <2>3, <2>4, GoesOnWaiting DEF Withdrawals
<1>3. CASE Withdrawn(t) /\ task[t].back = "sweep"
  <2> DEFINE w == [Idle EXCEPT !.pc = "sweep"]
  <2>1. w.pc = "sweep" /\ w.back = "none" /\ task' = [task EXCEPT ![t] = w]
        /\ UNCHANGED <<pass, phase>>
    BY <1>3 DEF Withdrawn, Idle
  <2> HIDE DEF w
  <2>2. ~Registers(w) /\ ~Registers(task[t]) /\ Sweeps(w) /\ Sweeps(task[t])
    BY <1>1, <1>3, <2>1 DEF Registers, Sweeps, Withdrawals
  <2> QED
    BY <1>1, <2>1, <2>2, GoesOnWaiting DEF Withdrawals
<1>4. CASE Withdrawn(t) /\ task[t].back = "quarantined"
  <2>1. /\ task' = [task EXCEPT ![t] = Idle] /\ Idle.pc = "idle" /\ UNCHANGED pass
        /\ phase' = "serving" \/ phase' = phase
    BY <1>4 DEF Withdrawn, Idle
  <2>2. phase = "checking" => \A s \in Sources : ~Stale(s)
    BY <1>1, <1>4 DEF StartupInv, StartupIsAwaited, Awaits
  <2> QED
    BY <1>1, <2>1, <2>2, LeavesThePass DEF Unoccupied
<1>5. CASE WithdrawFails(t) /\ task[t].back # "register"
  <2>1. PICK pc \in {"idle", "unsafe"} : task' = [task EXCEPT ![t] = [Idle EXCEPT !.pc = pc]]
    BY <1>5 DEF WithdrawFails
  <2> DEFINE w == [Idle EXCEPT !.pc = pc]
  <2>2. w.pc = pc /\ task' = [task EXCEPT ![t] = w] /\ pass' = [pass EXCEPT ![t] = NoPass]
        /\ NoPass.left = {} /\ UNCHANGED phase
    BY <1>5, <2>1 DEF WithdrawFails, NoPass, Idle
  <2> HIDE DEF w
  <2> QED
    BY <1>1, <2>2, LeavesThePass DEF Unoccupied
<1> QED
  BY <1>1, <1>2, <1>3, <1>4, <1>5

-------------------------------------------------------------------------------
(* The other steps *)

(* Where an ingestion and a reanalysis go.                                     *)
LEMMA PreparationGoesOn ==
  ASSUME WikiTyped, NEW t \in Tasks,
         Ingests(t) \/ Reanalyzes(t) \/ \E s \in Sources, j \in Jobs : StartReanalysis(t, s, j)
  PROVE  /\ UNCHANGED phase
         /\ \E w, q : /\ task' = [task EXCEPT ![t] = w] /\ pass' = [pass EXCEPT ![t] = q]
                      /\ q.left \subseteq pass[t].left
                      /\ w.pc \in {"idle", "process"} \union IngestSteps \union ReanalysisSteps
<1>1. task[t] \in Work /\ pass[t] \in Passes /\ pass = [pass EXCEPT ![t] = pass[t]]
      /\ task = [task EXCEPT ![t] = task[t]]
  BY PassOf
<1>2. UNCHANGED phase
  BY DEF Ingests, ClaimPending, Extract, Enrich, Save, Embed, WriteDraft, FinishIngest, EndScan,
     Reanalyzes, StartReanalysis, Regenerate, ReplaceDraft, ReplaceFails, Redraft, Abandon
<1>3. CASE \E r \in pass[t].pending : ClaimPending(t, r)
  <2> DEFINE a(r, j) == [Idle EXCEPT !.pc = "extract", !.s = r.s, !.p = r.p, !.sha = r.sha,
                                     !.revision = r.revision, !.job = j]
  <2> DEFINE b(r) == [pass[t] EXCEPT !.pending = @ \ {r}]
  <2>1. PICK r : /\ pass' = [pass EXCEPT ![t] = b(r)]
                 /\ At(t, "process")
                 /\ UNCHANGED task \/ \E j : task' = [task EXCEPT ![t] = a(r, j)]
    BY <1>3 DEF ClaimPending
  <2>2. b(r).left = pass[t].left /\ \A j : a(r, j).pc = "extract"
    BY <1>1 DEF Passes, Idle
  <2> HIDE DEF a, b
  <2>3. CASE UNCHANGED task
    BY <1>1, <1>2, <2>1, <2>2, <2>3 DEF At
  <2>4. CASE \E j : task' = [task EXCEPT ![t] = a(r, j)]
    <3>1. PICK j : task' = [task EXCEPT ![t] = a(r, j)]
      BY <2>4
    <3>2. a(r, j).pc \in IngestSteps
      BY <2>2 DEF IngestSteps
    <3> QED
      BY <1>2, <2>1, <2>2, <3>1, <3>2
  <2> QED
    BY <2>1, <2>3, <2>4
<1>4. CASE FinishIngest(t)
  <2> DEFINE w == [Idle EXCEPT !.pc = "process"]
  <2>1. task' = [task EXCEPT ![t] = w] /\ UNCHANGED pass
    BY <1>4 DEF FinishIngest
  <2>2. w.pc = "process"
    BY DEF Idle
  <2> HIDE DEF w
  <2> QED
    BY <1>1, <1>2, <2>1, <2>2
<1>5. CASE EndScan(t)
  <2>1. /\ task' = [task EXCEPT ![t] = Idle] /\ pass' = [pass EXCEPT ![t] = NoPass]
        /\ NoPass.left = {} /\ Idle.pc = "idle"
    BY <1>5 DEF EndScan, NoPass, Idle
  <2> QED
    BY <1>2, <2>1
<1>6. CASE \E s \in Sources, j \in Jobs : StartReanalysis(t, s, j)
  <2> DEFINE a(s, j) == [Idle EXCEPT !.pc = "regenerate", !.s = s, !.job = j,
                             !.p = source[s].path, !.sha = source[s].sha]
  <2>1. PICK s, j : task' = [task EXCEPT ![t] = a(s, j)] /\ UNCHANGED pass
    BY <1>6 DEF StartReanalysis
  <2>2. a(s, j).pc \in ReanalysisSteps
    BY DEF Idle, ReanalysisSteps
  <2> HIDE DEF a
  <2> QED
    BY <1>1, <1>2, <2>1, <2>2
<1>7. CASE \/ Extract(t) \/ Enrich(t) \/ Save(t) \/ Embed(t) \/ WriteDraft(t)
           \/ Regenerate(t) \/ ReplaceFails(t) \/ \E d \in Drafts : ReplaceDraft(t, d)
           \/ Redraft(t) \/ Abandon(t)
  <2>1. UNCHANGED pass
    BY <1>7 DEF Extract, Enrich, Save, Embed, WriteDraft, Regenerate, ReplaceFails, ReplaceDraft,
       Redraft, Abandon
  <2>2. \/ task' = [task EXCEPT ![t] = Idle]
        \/ \E pc \in {"enrich", "superseded", "failed", "save", "embed", "draft", "completed",
                      "replace", "abandon", "redraft"} : Goto(t, pc)
    BY <1>7 DEF Extract, Enrich, Save, Embed, WriteDraft, Regenerate, ReplaceFails, ReplaceDraft,
       Redraft, Abandon
  <2>3. ASSUME task' = [task EXCEPT ![t] = Idle]
        PROVE  \E w : /\ task' = [task EXCEPT ![t] = w]
                      /\ w.pc \in {"idle", "process"} \union IngestSteps \union ReanalysisSteps
    <3>1. Idle.pc = "idle"
      BY DEF Idle
    <3> QED
      BY <2>3, <3>1
  <2>4. ASSUME NEW pc \in {"enrich", "superseded", "failed", "save", "embed", "draft",
                           "completed", "replace", "abandon", "redraft"}, Goto(t, pc)
        PROVE  \E w : /\ task' = [task EXCEPT ![t] = w]
                      /\ w.pc \in {"idle", "process"} \union IngestSteps \union ReanalysisSteps
    <3> DEFINE w == [task[t] EXCEPT !.pc = pc]
    <3>1. task' = [task EXCEPT ![t] = w]
      BY <2>4 DEF Goto
    <3>2. w.pc = pc
      BY <1>1 DEF Work
    <3>3. w.pc \in IngestSteps \union ReanalysisSteps
      BY <3>2 DEF IngestSteps, ReanalysisSteps
    <3> HIDE DEF w
    <3> QED
      BY <3>1, <3>3
  <2>5. \E w : /\ task' = [task EXCEPT ![t] = w]
               /\ w.pc \in {"idle", "process"} \union IngestSteps \union ReanalysisSteps
    BY <2>2, <2>3, <2>4
  <2>6. pass' = [pass EXCEPT ![t] = pass[t]] /\ pass[t].left \subseteq pass[t].left
    BY <1>1, <2>1
  <2> QED
    BY <1>2, <2>5, <2>6
<1> QED
  BY <1>3, <1>4, <1>5, <1>6, <1>7 DEF Ingests, Reanalyzes

(* The publisher.                                                            *)
LEMMA PublisherStartup ==
  ASSUME StartupInv, MaterializationFits, WikiTyped, LifecycleInv, [WikiNext]_wikiVars,
         FolderMoves, Publisher \in Tasks, Publishes \/ \E s \in Sources : StartApproval(s)
  PROVE  StartupInv'
<1>1. task \in [Tasks -> Work] /\ UNCHANGED pass
  BY DEF WikiTyped, TasksTyped, Publishes, StartApproval, RecoverClaim, Approve, ApproveFails,
     WritePage, WriteIndex, WriteLog, Commit, BeginCancel, DiscardPage, Unlist, FinishCancel,
     RestoreDraft
<1>2. task'[Publisher].pc \in Unoccupied /\ \A u \in Tasks \ {Publisher} : task'[u] = task[u]
  <2>1. CASE \E s \in Sources : StartApproval(s)
    BY <1>1, <2>1 DEF StartApproval, LoadedClaim, Idle, Unoccupied, PublisherSteps
  <2>2. CASE \E j \in Jobs, d \in Drafts : Approve(j, d)
    BY <1>1, <2>2 DEF Approve, Work, Unoccupied, PublisherSteps
  <2>3. CASE \/ RecoverClaim \/ ApproveFails \/ WritePage \/ WriteIndex \/ WriteLog \/ Commit
             \/ BeginCancel \/ DiscardPage \/ Unlist \/ FinishCancel \/ RestoreDraft
    <3>1. \/ PublisherEnds \/ PublisherGoesOn \/ PublisherFails
          \/ \E pc \in PublisherSteps : Goto(Publisher, pc)
          \/ \E pc \in PublisherSteps : \E listed :
               task' = [task EXCEPT ![Publisher].pc = pc, ![Publisher].listed = listed]
      BY <2>3 DEF RecoverClaim, ApproveFails, WritePage, WriteIndex, WriteLog, Commit,
         BeginCancel, DiscardPage, Unlist, FinishCancel, RestoreDraft, Goto, PublisherSteps
    <3>2. ASSUME NEW pc \in PublisherSteps, Goto(Publisher, pc)
          PROVE  task'[Publisher].pc = pc /\ \A u \in Tasks \ {Publisher} : task'[u] = task[u]
      BY <1>1, <3>2 DEF Goto, Work
    <3>3. ASSUME NEW pc \in PublisherSteps, NEW listed,
                 task' = [task EXCEPT ![Publisher].pc = pc, ![Publisher].listed = listed]
          PROVE  task'[Publisher].pc = pc /\ \A u \in Tasks \ {Publisher} : task'[u] = task[u]
      BY <1>1, <3>3 DEF Work
    <3>4. CASE PublisherEnds \/ PublisherGoesOn \/ PublisherFails
      BY <1>1, <3>4 DEF PublisherEnds, PublisherGoesOn, PublisherFails, Goto, Idle, Work,
         Unoccupied, PublisherSteps
    <3> QED
      BY <3>1, <3>2, <3>3, <3>4 DEF Unoccupied
  <2> QED
    BY <2>1, <2>2, <2>3 DEF Publishes
<1>3. phase' = phase \/ (phase = "recovering" /\ phase' = "checking")
  BY DEF Publishes, StartApproval, RecoverClaim, Approve, ApproveFails, WritePage, WriteIndex,
     WriteLog, Commit, BeginCancel, DiscardPage, Unlist, FinishCancel, RestoreDraft,
     PublisherEnds, PublisherGoesOn, PublisherFails
<1>4. ~At(Publisher, "registering")' /\ \A s \in Sources : Awaits(Publisher, s)'
  BY <1>2, UnoccupiedAwaits DEF Awaits, At
<1>5. ReadingIsCurrent(Publisher)'
  <2>1. pass[Publisher].left \subseteq Paths
    BY PassOf DEF Passes
  <2> QED
    BY <1>1, <1>4, <2>1 DEF StartupInv, ReadingIsCurrent, FolderMoves
<1> QED
  BY <1>1, <1>2, <1>3, <1>4, <1>5, TaskFrame

(* The person and the folder.                                                *)
LEMMA OutsideStartup ==
  ASSUME StartupInv, MaterializationFits, WikiTyped, LifecycleInv, [WikiNext]_wikiVars,
         FolderMoves, UNCHANGED control
  PROVE  StartupInv'
<1> DEFINE T == {}
<1>1. T \in SUBSET Tasks /\ \A t \in T : FALSE
  OBVIOUS
<1>2. /\ \A u \in Tasks \ T : task'[u] = task[u] /\ pass'[u] = pass[u]
      /\ phase' = phase
  BY DEF control
<1> HIDE DEF T
<1> QED
  BY <1>1, <1>2, StartupFrame

(* A restart forgets what was found and what was dirty.                        *)
LEMMA RestartStartup ==
  ASSUME StartupInv, MaterializationFits, WikiTyped, LifecycleInv, Restart
  PROVE  StartupInv'
<1>1. [WikiNext]_wikiVars
  BY DEF WikiNext
<1>2. DocumentsHavePaths' /\ PublisherHasPath'
  BY <1>1, PathsStep, PublisherPathStep DEF StartupInv
<1> DEFINE w == LoadedClaim("startup", None)
<1>3. w.pc = "recover" /\ Idle.pc = "idle" /\ NoPass.left = {}
  BY DEF LoadedClaim, Idle, NoPass
<1>4. /\ \A t \in Tasks : task'[t] \in {Idle, w} /\ pass'[t] = NoPass
      /\ \/ phase' = "recovering"
         \/ phase' = "checking" /\ \A t \in Tasks : task'[t] = Idle
  <2> HIDE DEF w
  <2>1. \/ task' = [t \in Tasks |-> Idle] /\ phase' = "checking"
        \/ task' = [[t \in Tasks |-> Idle] EXCEPT ![Publisher] = w] /\ phase' = "recovering"
    BY DEF Restart, w
  <2> QED
    BY <2>1 DEF Restart
<1> HIDE DEF w
<1>5. \A t \in Tasks : task'[t].pc \in Unoccupied
  BY <1>3, <1>4 DEF Unoccupied, PublisherSteps
<1>6. \A t \in Tasks : ReadingIsCurrent(t)' /\ \A s \in Sources : Awaits(t, s)'
  <2> TAKE t \in Tasks
  <2>1. ~Registers(task'[t]) /\ ~Sweeps(task'[t]) /\ task'[t].pc \notin Withdrawals
        /\ task'[t].pc # "registering"
    BY <1>5, UnoccupiedAwaits
  <2> QED
    BY <1>3, <1>4, <2>1 DEF ReadingIsCurrent, Awaits, At
<1>7. StartupIsAwaited'
  BY <1>4, <1>5, <1>6 DEF StartupIsAwaited
<1> QED
  BY <1>2, <1>6, <1>7 DEF StartupInv

(* Every step of a process whose preflight reads every file.                   *)
LEMMA StartupStep ==
  ASSUME StartupInv, MaterializationFits, WikiTyped, LifecycleInv, [WikiNext]_wikiVars,
         phase = "checking" => ~ \E t \in Tasks, p \in Paths : HashFails(t, p)
  PROVE  StartupInv'
<1>1. CASE Restart
  BY <1>1, RestartStartup
<1>2. CASE ~Restart
  <2>1. FolderMoves
    BY <1>2, FolderStep
  <2>2. CASE UNCHANGED wikiVars
    BY <2>1, <2>2, OutsideStartup DEF wikiVars
  <2>3. CASE \E t \in Tasks : Starts(t)
    BY <2>1, <2>3, StartPassStartup, QuarantineStartup DEF Starts, Quarantine, Works
  <2>4. CASE \E t \in Tasks : Reconciles(t)
    <3>1. PICK t \in Tasks : Reconciles(t)
      BY <2>4
    <3>2. CASE QuarantineUnsafe(t)
      BY <2>1, <3>1, <3>2, QuarantineStartup DEF QuarantineUnsafe, Works
    <3> QED
      BY <2>1, <3>1, <3>2, HashFileStartup, RegisterFileStartup, RereadStartup,
         ListSourcesStartup, SweepStartup, EndSweepStartup, WithdrawalStartup, WithdrawnStartup
         DEF Reconciles
  <2>5. CASE \E t \in Tasks : \/ Ingests(t) \/ Reanalyzes(t)
                              \/ \E s \in Sources, j \in Jobs : StartReanalysis(t, s, j)
    <3>1. PICK t \in Tasks : \/ Ingests(t) \/ Reanalyzes(t)
                             \/ \E s \in Sources, j \in Jobs : StartReanalysis(t, s, j)
      BY <2>5
    <3> QED
      BY <2>1, <3>1, PreparationGoesOn, LeavesThePass DEF Works, Unoccupied
  <2>6. CASE Publisher \in Tasks /\ (Publishes \/ \E s \in Sources : StartApproval(s))
    BY <2>1, <2>6, PublisherStartup
  <2>7. CASE \/ \E s \in Sources : Person(s)
             \/ \E p \in Paths, content \in Hashes \union {None} : EditFolder(p, content)
             \/ \E p, q \in Paths : RenameFile(p, q)
    BY <2>1, <2>7, OutsideStartup DEF Person, EditFolder, RenameFile
  <2> QED
    BY <1>2, <2>2, <2>3, <2>4, <2>5, <2>6, <2>7 DEF WikiNext, TaskStep
<1> QED
  BY <1>1, <1>2

(* Search opens after the startup preflight: as long as the preflight could read *)
(* every file it found, what is searchable once the wiki serves is on disk     *)
(* unless its path changed since the process started, whatever the publisher,  *)
(* quarantines and removals do meanwhile                                       *)
(* (FolderWiki!StartupServesCurrentBytes).                                     *)
THEOREM StartupAlwaysServesCurrentBytes ==
  WikiSpec /\ StartupReadsEveryFile => []StartupServesCurrentBytes
<1> DEFINE Reads == phase = "checking" => ~ \E t \in Tasks, p \in Paths : HashFails(t, p)
<1>1. WikiInit => StartupInv
  <2> SUFFICES ASSUME WikiInit PROVE StartupInv
    OBVIOUS
  <2>1. DocumentsHavePaths
    BY DEF WikiInit, Init, DocumentsHavePaths, Exists, AbsentSource
  <2>2. \A t \in Tasks : ReadingIsCurrent(t)
    BY DEF WikiInit, ReadingIsCurrent, At, Idle, NoPass
  <2>3. PublisherHasPath
    BY DEF WikiInit, PublisherHasPath, Materializing, Idle
  <2>4. StartupIsAwaited
    BY DEF WikiInit, Init, StartupIsAwaited, Stale, Searchable, AbsentConcept
  <2> QED
    BY <2>1, <2>2, <2>3, <2>4 DEF StartupInv
<1>2. StartupInv /\ MaterializationFits /\ WikiTyped /\ LifecycleInv /\ [WikiNext]_wikiVars
        /\ [Reads]_wikiVars => StartupInv'
  <2>1. CASE UNCHANGED wikiVars
    <3> SUFFICES ASSUME StartupInv, MaterializationFits, WikiTyped, LifecycleInv,
                        [WikiNext]_wikiVars
                 PROVE  StartupInv'
      OBVIOUS
    <3>1. FolderMoves /\ UNCHANGED control
      BY <2>1 DEF wikiVars, FolderMoves, world, outside
    <3> QED
      BY <3>1, OutsideStartup
  <2> QED
    BY <2>1, StartupStep
<1>3. StartupInv => StartupServesCurrentBytes
  BY DEF StartupInv, StartupIsAwaited, Stale, Current, StartupServesCurrentBytes
<1>4. StartupReadsEveryFile <=> [][Reads]_wikiVars
  BY DEF StartupReadsEveryFile
<1> QED
  BY <1>1, <1>2, <1>3, <1>4, WikiRunsTheTables, MaterializationAlwaysFits, PTL DEF WikiSpec

================================================================================
