------------------------ MODULE FolderWikiPasses_proofs ------------------------
(***************************************************************************)
(* What holds of a folder wiki while its passes do not overlap: whatever   *)
(* is searchable keeps its page and its log entry                          *)
(* (FolderWiki!SearchableIsMaterialized), no stable page is left over      *)
(* (FolderWiki!StablePageIsAccounted), and, before anything fails or the   *)
(* process restarts, a bundle at rest mirrors the tables                   *)
(* (FolderWiki!QuietBundleMirrorsTables).  Before a restart, and whatever  *)
(* fails, the draft pages at rest are the proposals                        *)
(* (FolderWiki!DraftPageIsCurrent).                                        *)
(*                                                                         *)
(* The argument is about what a pass has still to do.  A document that is  *)
(* to be purged, or that was registered, cannot be published before the    *)
(* pass is done with it: only an ingestion brings it back to review, and   *)
(* the one task that ingests is in no pass then.  So a removal never takes *)
(* the page of a published document, and a document that is prepared has   *)
(* lost its stable page.                                                   *)
(*                                                                         *)
(* For the bundle at rest the argument is that somebody answers for every  *)
(* document the bundle shows: the tables, which publish it, the pass that  *)
(* has its page in hand, or the publisher, which claims it.  Who gives it  *)
(* up has taken its page and its entry in the index away by then, and      *)
(* whoever holds a list to write has the lock, so the list is still true.  *)
(*                                                                         *)
(* For the draft pages it is that somebody owes the page of every proposal *)
(* that came under review or changed: the ingestion or the reanalysis that *)
(* stored it, or the publisher that gave its claim up.  Whoever owes a     *)
(* page writes it or fails the document.                                   *)
(***************************************************************************)
EXTENDS FolderWiki_proofs, FiniteSetTheorems

Reconcilers == {"scan", "preflight", "quarantine"}

(* The worker runs one scan, one preflight and one quarantine of a collection   *)
(* at a time.  That they do not overlap is more than it guarantees: a change    *)
(* that arrives during a scan starts a preflight beside it.                     *)
PassesDoNotOverlap ==
  \A t, u \in Reconcilers \cap Tasks : ~At(t, "idle") /\ ~At(u, "idle") => t = u

(* Steps of a pass before it prepares documents, and of a quarantine.           *)
PassSteps == {"register", "registering", "reread", "sweep", "unsafe"} \union Withdrawals

(* Work that collects pending documents, and work that prepares them.          *)
Gathers(w) ==
  \/ w.pc \in {"register", "registering", "reread", "sweep"}
  \/ w.pc \in Withdrawals /\ w.back # "quarantined"
Prepares(w) == w.pc \in {"process"} \union IngestSteps

(* Work on a document that was registered.                                      *)
Registered(w) == w.pc = "reread" \/ (w.pc \in Withdrawals /\ w.back = "register")

(* Document s is out of the way of a publication until it is prepared again.    *)
OutStatuses == {"detected", "failed", "deleted"}
Out(s) == source[s].status \in OutStatuses /\ ~ActiveIngest(s)

Stable(s) == page[s].kind = "stable"

(* A document that may be prepared has no stable page.                         *)
Unprinted(s) == source[s].status = "detected" => ~Stable(s)

RoleIsKept(t) ==
  /\ task[t].pc \in PassSteps => t \in Reconcilers
  /\ Prepares(task[t]) => t = "scan"
  /\ task[t].pc \in ReanalysisSteps => t = "reanalysis"

PurgesOutDocuments(t) ==
  LET w == task[t] IN
  /\ w.pc \in {"reread"} \union Withdrawals => \A x \in w.purge : Out(x.s)
  /\ Sweeps(w) => \A row \in pass[t].dead : Out(row.s)
  /\ Registered(w) =>
       /\ Out(w.s)
       /\ (w.pc \in {"relist", "logRemoval"} \/ (w.pc = "withdraw" /\ w.purge = {})) =>
            ~Stable(w.s)

PendingIsUnprinted(t) ==
  LET w == task[t]
      pending == pass[t].pending
  IN
  /\ Gathers(w) => \A r \in pending : Out(r.s) /\ ~Stable(r.s)
  /\ Prepares(w) => \A r \in pending : Unprinted(r.s)
  /\ ~Gathers(w) /\ ~Prepares(w) => pending = {}

TaskIsOrderly(t) == RoleIsKept(t) /\ PurgesOutDocuments(t) /\ PendingIsUnprinted(t)

(* Steps of the publisher from the claim to its end.                           *)
Claiming == Materializing \union {"cancel", "discard", "unlist", "dropClaim"}

PublisherHoldsClaim ==
  LET w == task[Publisher] IN
  Publisher \in Tasks =>
    /\ w.pc \in Claiming => w.job = claim
    /\ w.pc \in {"unlist", "dropClaim"} => ~Stable(job[claim].source)

ClaimedIsNotPublished == claim # None => source[job[claim].source].status # "published"

PassInv ==
  /\ \A t \in Tasks : TaskIsOrderly(t)
  /\ PublisherHoldsClaim
  /\ ClaimedIsNotPublished
  /\ \A s \in Sources : ActiveIngest(s) => Unprinted(s)

-------------------------------------------------------------------------------
(* What the transactions do to the documents                                    *)

(* No document is detected anew.                                               *)
NoneDetected == \A s \in Sources : source'[s].status = "detected" => source[s].status = "detected"

LEMMA StatusDetects ==
  ASSUME NEW S, NEW status, source \in [Sources -> SourceRow], status # "detected",
         source' = WithStatus(source, S, status)
  PROVE  NoneDetected
BY DEF NoneDetected, WithStatus, SourceRow

(* Only a registration does.                                                   *)
LEMMA OnlyRegistrationDetects ==
  ASSUME LifecycleInv, UNCHANGED vars \/ Ingest \/ Review \/ Publish \/ FailClosed
  PROVE  NoneDetected
<1>1. source \in [Sources -> SourceRow]
  BY Typed
<1>2. CASE UNCHANGED source
  BY <1>2 DEF NoneDetected
<1>3. CASE \E S : \E status \in SourceStatus \ {"detected"} : source' = WithStatus(source, S, status)
  BY <1>1, <1>3, StatusDetects
<1>4. CASE \E j \in Jobs : \E status \in {"extracted", "enriched"} :
             source' = [source EXCEPT ![job[j].source].status = status]
  BY <1>1, <1>4 DEF NoneDetected, SourceRow
<1>5. CASE \E j \in Jobs, d \in Drafts : SaveEnrichment(j, d)
  BY <1>1, <1>5 DEF SaveEnrichment, NoneDetected, SourceRow
<1>6. CASE RecoverInterruptedJobs
  BY <1>1, <1>6 DEF RecoverInterruptedJobs, NoneDetected, SourceRow, InFlight
<1>7. {"failed", "deleted", "needs_review", "excluded", "enriched", "publishing", "published"}
        \subseteq SourceStatus \ {"detected"}
  BY DEF SourceStatus, Settled, InFlight
<1>8. CASE Ingest
  BY <1>2, <1>3, <1>4, <1>5, <1>7, <1>8
     DEF Ingest, ClaimIngestJob, MarkExtracted, MarkEnriched, ReplaceChunks, CompleteIngestJob,
         FailIngestJob
<1>9. CASE Review
  BY <1>2, <1>3, <1>7, <1>9
     DEF Review, ShowReview, ExcludeReview, BeginReanalysis, CompleteReanalysis, FailReanalysis
<1>10. CASE Publish
  BY <1>2, <1>3, <1>7, <1>10
     DEF Publish, BeginPublication, CompletePublication, MarkPublicationCancelling,
         FinishPublicationCancellation, ReturnClaimed
<1>11. CASE FailClosed
  BY <1>2, <1>3, <1>6, <1>7, <1>11
     DEF FailClosed, ReturnToReview, MarkSourceFailed, MarkDeleted, QuarantineSource,
         QuarantineCollection
<1> QED
  BY <1>2, <1>8, <1>9, <1>10, <1>11 DEF vars

(* A document out of the way stays so while no ingestion begins.               *)
LEMMA OutStays ==
  ASSUME LifecycleInv, [Next]_vars, NoNewIngest, NEW s \in Sources, Out(s)
  PROVE  Out(s)'
<1>1. LifecycleInv' /\ Moves(s)
  BY StepKeepsInv, TablesMove
<1>2. ~ActiveIngest(s)'
  BY DEF Out, NoNewIngest
<1>3. source'[s].status \notin Prepared
  BY <1>1 DEF Moves, Out, OutStatuses, Prepared, Settled
<1>4. source'[s].status # "absent"
  <2>1. source[s].sha # None
    BY DEF LifecycleInv, TypeOK, Out, OutStatuses
  <2>2. source'[s].status = "absent" => source'[s].sha = None
    BY <1>1 DEF LifecycleInv, TypeOK
  <2> QED
    BY <1>1, <2>1, <2>2 DEF Moves
<1>5. source'[s].status \in SourceStatus
  BY <1>1 DEF LifecycleInv, TypeOK, SourceRow
<1> QED
  BY <1>2, <1>3, <1>4, <1>5 DEF Out, OutStatuses, SourceStatus, Prepared, InFlight

(* A document that is out is prepared again only by its running ingestion.     *)
LEMMA OnlyIngestionPrepares ==
  ASSUME LifecycleInv, [Next]_vars, NEW s \in Sources, source[s].status \in OutStatuses,
         source'[s].status \notin OutStatuses
  PROVE  source[s].status = "detected" /\ ActiveIngest(s)
<1>1. LifecycleInv' /\ Moves(s)
  BY StepKeepsInv, TablesMove
<1>2. source'[s].status # "absent"
  <2>1. source[s].sha # None
    BY DEF LifecycleInv, TypeOK, OutStatuses
  <2>2. source'[s].status = "absent" => source'[s].sha = None
    BY <1>1 DEF LifecycleInv, TypeOK
  <2> QED
    BY <1>1, <2>1, <2>2 DEF Moves, OutStatuses
<1>3. source'[s].status \in SourceStatus
  BY <1>1 DEF LifecycleInv, TypeOK, SourceRow
<1>4. source'[s].status \in Prepared
  BY <1>2, <1>3 DEF OutStatuses, SourceStatus, Prepared, InFlight
<1>5. source[s].status \notin Prepared
  BY DEF OutStatuses, Prepared, Settled
<1> QED
  BY <1>1, <1>4, <1>5 DEF Moves


(* A published document keeps its version as long as it stays published.       *)
LEMMA PublishedStays ==
  ASSUME LifecycleInv, [Next]_vars, NEW s \in Sources,
         source[s].status = "published", source'[s].status = "published"
  PROVE  /\ VersionOf(s)' = VersionOf(s) /\ concept'[s].status = "published"
         /\ chunks'[s] = chunks[s]
<1>1. /\ source \in [Sources -> SourceRow] /\ concept \in [Sources -> ConceptRow]
      /\ concept[s].status = "published"
  BY Typed DEF LifecycleInv, RowsAgreeOnExposure
<1>2. CASE OthersStayPublished
  BY <1>1, <1>2 DEF OthersStayPublished, VersionOf
<1>3. CASE UNCHANGED vars
  BY <1>1, <1>3 DEF vars, VersionOf
<1>4. CASE \E j \in Jobs, u \in Sources, d \in Drafts : BeginPublication(j, u, d)
  <2>1. PICK u \in Sources : /\ \E d : concept' = [concept EXCEPT ![u] = d]
                             /\ source' = WithStatus(source, {u}, "publishing")
                             /\ source[u].status # "published" /\ chunks' = chunks
    BY <1>4 DEF BeginPublication, MatchesReviewed, AwaitingReview
  <2> QED
    BY <1>1, <2>1 DEF WithStatus, VersionOf
<1>5. CASE \E j \in Jobs : CompletePublication(j)
  <2>1. PICK S : /\ source' = WithStatus(source, S, "published")
                 /\ concept' = WithStatus(concept, S, "published") /\ chunks' = chunks
    BY <1>5 DEF CompletePublication
  <2> QED
    BY <1>1, <2>1 DEF WithStatus, VersionOf, SourceRow, ConceptRow
<1> QED
  BY <1>2, <1>3, <1>4, <1>5, RegisterStays, IngestStays, ReviewStays, CancellationStays,
     FailClosedStays
     DEF Next, Publish

(* Only transactions of a publication touch the claim.                         *)
LEMMA OnlyPublicationsClaim ==
  ASSUME [Next]_vars
  PROVE  \/ claim' = claim
         \/ claim = None /\ \E j \in Jobs, s \in Sources, d \in Drafts : BeginPublication(j, s, d)
         \/ /\ claim \in Jobs /\ claim' = None
            /\ CompletePublication(claim) \/ FinishPublicationCancellation(claim)
<1>1. CASE UNCHANGED vars
  BY <1>1 DEF vars
<1>2. CASE Register
  BY <1>2 DEF Register, RegisterRetry, RegisterReplaced, RegisterMoved, RegisterNew, Withdraw
<1>3. CASE Ingest
  BY <1>3 DEF Ingest, ClaimIngestJob, MarkExtracted, MarkEnriched, SaveEnrichment,
     ReplaceChunks, CompleteIngestJob, FailIngestJob
<1>4. CASE Review
  BY <1>4 DEF Review, ShowReview, ExcludeReview, BeginReanalysis, CompleteReanalysis,
     FailReanalysis
<1>5. CASE Publish
  BY <1>5 DEF Publish, BeginPublication, CompletePublication, MayCommit,
     MarkPublicationCancelling, FinishPublicationCancellation
<1>6. CASE FailClosed
  BY <1>6 DEF FailClosed, ReturnToReview, MarkSourceFailed, MarkDeleted, QuarantineSource,
     QuarantineCollection, RecoverInterruptedJobs, Withdraw
<1> QED
  BY <1>1, <1>2, <1>3, <1>4, <1>5, <1>6 DEF Next

(* The claimed document is published by the last transaction only.             *)
LEMMA ClaimedStays ==
  ASSUME LifecycleInv, [Next]_vars, ClaimedIsNotPublished
  PROVE  ClaimedIsNotPublished'
<1> SUFFICES ASSUME claim' # None PROVE source'[job'[claim'].source].status # "published"
  BY DEF ClaimedIsNotPublished
<1>1. CASE claim' = claim
  <2>1. claim \in Jobs /\ job'[claim].source = job[claim].source /\ job[claim].source \in Sources
    BY <1>1, ClaimNamesTheSame DEF LifecycleInv, TypeOK, ClaimIsOpen, JobsNameDocuments
  <2>2. OthersStayPublished \/ UNCHANGED vars
    <3>1. ~ \E j \in Jobs : \/ CompletePublication(j)
                            \/ \E s \in Sources, d \in Drafts : BeginPublication(j, s, d)
      BY <1>1, NoneAssumption DEF CompletePublication, BeginPublication
    <3> QED
      BY <3>1, RegisterStays, IngestStays, ReviewStays, CancellationStays, FailClosedStays
         DEF Next, Publish
  <2> QED
    BY <1>1, <2>1, <2>2 DEF OthersStayPublished, ClaimedIsNotPublished, vars
<1>2. CASE \E j \in Jobs, s \in Sources, d \in Drafts : BeginPublication(j, s, d)
  <2>1. PICK j \in Jobs, s \in Sources, d \in Drafts : BeginPublication(j, s, d)
    BY <1>2
  <2>2. claim' = j /\ job'[j].source = s
    BY <2>1, Typed DEF BeginPublication, StartJob
  <2>3. source'[s].status \in {"publishing", source[s].status} /\ source[s].status # "published"
    BY <2>1, Typed DEF BeginPublication, WithStatus, MatchesReviewed, AwaitingReview, SourceRow
  <2> QED
    BY <2>2, <2>3
<1> QED
  BY <1>1, <1>2, OnlyPublicationsClaim

-------------------------------------------------------------------------------
(* What the steps do to the pages                                              *)

(* A page is written of document s.                                            *)
Prints(s, kind) ==
  /\ page' = [page EXCEPT ![s] = PageOf(s, kind)]
  /\ UNCHANGED vars

Unprints(s) ==
  /\ page' = [page EXCEPT ![s] = NoPage]
  /\ UNCHANGED vars

(* Who changes a page: a removal, a draft that is written, the publisher.      *)
LEMMA PagesChange ==
  ASSUME WikiTyped, LifecycleInv, [WikiNext]_wikiVars, page' # page
  PROVE  \/ \E t \in Tasks : \E x \in task[t].purge : task[t].pc = "withdraw" /\ Unprints(x.s)
         \/ \E s \in Sources : MayWriteDraft(s) /\ Prints(s, "draft")
         \/ /\ Publisher \in Tasks
            /\ LET j == task[Publisher].job IN
               \/ WritePage /\ ClaimIsCurrent(j) /\ Prints(job[j].source, "stable")
               \/ DiscardPage /\ Unprints(job[j].source)
<1>1. \A t \in Tasks : task[t].pc \in IngestSteps \union ReanalysisSteps => task[t].s \in Sources
  BY PassOf DEF IsNamed
<1>2. ASSUME NEW t \in Tasks, Starts(t) \/ Reconciles(t)
      PROVE  \E x \in task[t].purge : task[t].pc = "withdraw" /\ Unprints(x.s)
  BY <1>2 DEF Starts, StartPass, Quarantine, QuarantineFolder, Reconciles, HashFile, HashFails,
     QuarantineUnsafe, RegisterFile, Reread, ListSources, SweepLarge, SweepGone, SweepDead,
     EndSweep, Unlink, Relist, LogRemoval, Withdrawn, WithdrawFails, At, Unprints, bundle
<1>3. ASSUME NEW t \in Tasks, Ingests(t)
      PROVE  \E s \in Sources : MayWriteDraft(s) /\ Prints(s, "draft")
  BY <1>1, <1>3 DEF Ingests, ClaimPending, Extract, Enrich, Save, Embed, WriteDraft,
     FinishIngest, EndScan, At, IngestSteps, Prints, bundle
<1>4. ASSUME NEW t \in Tasks, Reanalyzes(t) \/ \E s \in Sources, j \in Jobs : StartReanalysis(t, s, j)
      PROVE  \E s \in Sources : MayWriteDraft(s) /\ Prints(s, "draft")
  BY <1>1, <1>4 DEF Reanalyzes, StartReanalysis, Regenerate, ReplaceDraft, ReplaceFails,
     Redraft, Abandon, At, ReanalysisSteps, Prints, bundle
<1>5. ASSUME Publisher \in Tasks, Publishes \/ \E s \in Sources : StartApproval(s)
      PROVE  \/ \E s \in Sources : MayWriteDraft(s) /\ Prints(s, "draft")
             \/ LET j == task[Publisher].job IN
                \/ WritePage /\ ClaimIsCurrent(j) /\ Prints(job[j].source, "stable")
                \/ DiscardPage /\ Unprints(job[j].source)
  <2>1. RestoreDraft => job[task[Publisher].job].source \in Sources
    BY <1>5, PublisherWork DEF RestoreDraft, At, PublisherSteps
  <2> QED
    BY <1>5, <2>1 DEF Publishes, StartApproval, RecoverClaim, Approve, ApproveFails, WritePage,
       WriteIndex, WriteLog, Commit, BeginCancel, DiscardPage, Unlist, FinishCancel,
       RestoreDraft, Prints, Unprints, bundle
<1>6. ~UNCHANGED wikiVars
  BY DEF wikiVars, bundle
<1>7. ~ \/ \E s \in Sources : Person(s)
        \/ \E p \in Paths, content \in Hashes \union {None} : EditFolder(p, content)
        \/ \E p, q \in Paths : RenameFile(p, q)
        \/ Restart
  BY DEF Person, EditFolder, RenameFile, Restart, bundle
<1> QED
  BY <1>2, <1>3, <1>4, <1>5, <1>6, <1>7 DEF WikiNext, TaskStep

(* Only the publisher makes a page stable, of the document it claimed.         *)
LEMMA OnlyThePublisherPrints ==
  ASSUME PublisherHoldsClaim, WikiTyped, LifecycleInv, [WikiNext]_wikiVars, NEW s \in Sources,
         Stable(s)', page'[s] # page[s]
  PROVE  /\ Publisher \in Tasks /\ WritePage /\ UNCHANGED vars
         /\ claim \in Jobs /\ job[claim].source = s /\ source[s].status = "publishing"
<1>1. page \in [Sources -> {NoPage} \union [kind : {"draft", "stable"}, version : Version]]
  BY DEF WikiTyped, FilesTyped
<1>2. ~ \E u : Unprints(u) \/ Prints(u, "draft")
  BY <1>1 DEF Unprints, Prints, PageOf, NoPage, Stable
<1>3. /\ Publisher \in Tasks /\ WritePage
      /\ ClaimIsCurrent(task[Publisher].job) /\ Prints(job[task[Publisher].job].source, "stable")
  BY <1>1, <1>2, PagesChange
<1>4. task[Publisher].pc = "page" /\ task[Publisher].job = claim
  BY <1>3 DEF WritePage, At, PublisherHoldsClaim, Claiming, Materializing
<1>5. claim \in Jobs
  BY <1>3, <1>4, PublisherWork DEF PublisherSteps
<1> QED
  BY <1>1, <1>3, <1>4, <1>5 DEF Prints, ClaimIsCurrent, Publishing

(* No step touches the page of a published document.                           *)
LEMMA PublishedPageStays ==
  ASSUME PassInv, WikiTyped, LifecycleInv, [WikiNext]_wikiVars, NEW s \in Sources,
         source[s].status = "published"
  PROVE  page'[s] = page[s]
<1>1. page \in [Sources -> {NoPage} \union [kind : {"draft", "stable"}, version : Version]]
  BY DEF WikiTyped, FilesTyped
<1>2. ASSUME NEW t \in Tasks, NEW x \in task[t].purge, task[t].pc = "withdraw"
      PROVE  x.s # s
  BY <1>2 DEF PassInv, TaskIsOrderly, PurgesOutDocuments, Withdrawals, Out, OutStatuses
<1>3. MayWriteDraft(s) => FALSE
  BY DEF MayWriteDraft, LifecycleInv, RowsAgreeOnExposure
<1>4. ASSUME Publisher \in Tasks, WritePage \/ DiscardPage
      PROVE  job[task[Publisher].job].source # s
  <2>1. task[Publisher].pc \in {"page", "discard"} /\ task[Publisher].job = claim
    BY <1>4 DEF WritePage, DiscardPage, At, PassInv, PublisherHoldsClaim, Claiming, Materializing
  <2>2. claim # None
    BY <1>4, <2>1, PublisherWork, NoneAssumption DEF PublisherSteps
  <2> QED
    BY <2>1, <2>2 DEF PassInv, ClaimedIsNotPublished
<1> QED
  BY <1>1, <1>2, <1>3, <1>4, PagesChange DEF Prints, Unprints


-------------------------------------------------------------------------------
(* The transactions of each kind of task                                       *)

(* A pass registers, withdraws or quarantines.                                 *)
LEMMA PassTransactions ==
  ASSUME WikiTyped, NEW t \in Tasks, Starts(t) \/ Reconciles(t)
  PROVE  \/ UNCHANGED vars
         \/ Register /\ task[t].pc = "registering"
         \/ QuarantineCollection
         \/ \E s \in Sources : MarkDeleted(s) \/ QuarantineSource(s)
<1>1. task[t].pc = "sweep" => \A row \in pass[t].large \union pass[t].gone : row.s \in Sources
  BY PassOf DEF Sweeps, Passes, Rows
<1>2. task[t].pc = "registering" => task[t].p \in Paths /\ task[t].sha \in Hashes
  BY PassOf DEF IsNamed
<1>3. CASE Starts(t)
  BY <1>3 DEF Starts, StartPass, Quarantine, QuarantineFolder
<1>4. CASE RegisterFile(t)
  BY <1>2, <1>4 DEF RegisterFile, At, Register
<1>5. CASE \/ \E row \in pass[t].large : SweepLarge(t, row)
           \/ \E row \in pass[t].gone : SweepGone(t, row)
  BY <1>1, <1>5 DEF SweepLarge, SweepGone, At, vars
<1>6. CASE ~RegisterFile(t) /\ Reconciles(t)
  BY <1>5, <1>6 DEF Reconciles, HashFile, HashFails, QuarantineUnsafe, QuarantineFolder, Reread,
     ListSources, SweepDead, EndSweep, Unlink, Relist, LogRemoval, Withdrawn, WithdrawFails
<1> QED
  BY <1>3, <1>4, <1>6

(* An ingestion prepares, or begins with the claim of a pending document.      *)
LEMMA IngestTransactions ==
  ASSUME WikiTyped, NEW t \in Tasks, Ingests(t)
  PROVE  /\ Prepares(task[t])
         /\ \/ UNCHANGED vars
            \/ \E j \in Jobs : Prepare(j)
            \/ /\ task[t].pc = "process" /\ UNCHANGED page
               /\ \E j \in Jobs : \E r \in pass[t].pending : ClaimIngestJob(j, r.s)
<1>1. task[t].pc \in {"process"} \union IngestSteps
  BY DEF Ingests, ClaimPending, Extract, Enrich, Save, Embed, WriteDraft, FinishIngest, EndScan,
     At, IngestSteps
<1>2. task[t].pc \in IngestSteps => task[t].job \in Jobs
  BY PassOf DEF IsNamed
<1>3. CASE \E r \in pass[t].pending : ClaimPending(t, r)
  BY <1>1, <1>3 DEF Prepares, ClaimPending, At, bundle, vars
<1>4. CASE ~ \E r \in pass[t].pending : ClaimPending(t, r)
  BY <1>1, <1>2, <1>4 DEF Prepares, Ingests, Extract, Enrich, Save, Embed, WriteDraft,
     FinishIngest, EndScan, At, IngestSteps, Prepare
<1> QED
  BY <1>3, <1>4

LEMMA ReanalysisTransactions ==
  ASSUME WikiTyped, NEW t \in Tasks,
         Reanalyzes(t) \/ \E s \in Sources, j \in Jobs : StartReanalysis(t, s, j)
  PROVE  UNCHANGED vars \/ Review \/ \E s \in Sources : MarkSourceFailed(s)
<1>1. task[t].pc \in ReanalysisSteps => task[t].job \in Jobs /\ task[t].s \in Sources
  BY PassOf DEF IsNamed
<1> QED
  BY <1>1 DEF Reanalyzes, StartReanalysis, Regenerate, ReplaceDraft, ReplaceFails, Redraft,
     Abandon, Review, At, ReanalysisSteps

LEMMA PublisherTransactions ==
  ASSUME WikiTyped, LifecycleInv, Publisher \in Tasks,
         Publishes \/ \E s \in Sources : StartApproval(s)
  PROVE  UNCHANGED vars \/ Publish \/ \E s \in Sources : MarkSourceFailed(s)
<1> DEFINE j == task[Publisher].job
<1>1. task[Publisher].pc \in PublisherSteps => j \in Jobs /\ job[j].source \in Sources
  BY PublisherWork
<1>2. task[Publisher].pc = "approve" => task[Publisher].s \in Sources
  BY PublisherWork
<1>3. CASE \E i \in Jobs, d \in Drafts : Approve(i, d)
  BY <1>2, <1>3 DEF Approve, At, Publish
<1>4. CASE Commit \/ BeginCancel \/ FinishCancel \/ RestoreDraft
  BY <1>1, <1>4 DEF Commit, BeginCancel, FinishCancel, RestoreDraft, At, PublisherSteps, Publish
<1> QED
  BY <1>3, <1>4 DEF Publishes, StartApproval, RecoverClaim, ApproveFails, WritePage,
     WriteIndex, WriteLog, DiscardPage, Unlist

(* All of them: what the callers never run is the repair of SourceLifecycle.    *)
LEMMA RunningTransactions ==
  ASSUME WikiTyped, LifecycleInv, [WikiNext]_wikiVars, ~Restart
  PROVE  \/ UNCHANGED vars \/ Register \/ Ingest \/ Review \/ Publish
         \/ QuarantineCollection
         \/ \E s \in Sources : MarkSourceFailed(s) \/ MarkDeleted(s) \/ QuarantineSource(s)
<1>1. CASE UNCHANGED wikiVars
  BY <1>1 DEF wikiVars
<1>2. CASE \E t \in Tasks : Starts(t) \/ Reconciles(t)
  BY <1>2, PassTransactions
<1>3. CASE \E t \in Tasks : Ingests(t)
  <2>1. PICK t \in Tasks : Ingests(t)
    BY <1>3
  <2>2. \A r \in pass[t].pending : r.s \in Sources
    BY PassOf DEF Passes, Pendings
  <2> QED
    BY <2>1, <2>2, IngestTransactions DEF Ingest, Prepare
<1>4. CASE \E t \in Tasks : \/ Reanalyzes(t)
                            \/ \E s \in Sources, j \in Jobs : StartReanalysis(t, s, j)
  BY <1>4, ReanalysisTransactions
<1>5. CASE Publisher \in Tasks /\ (Publishes \/ \E s \in Sources : StartApproval(s))
  BY <1>5, PublisherTransactions
<1>6. CASE \/ \E s \in Sources : Person(s)
           \/ \E p \in Paths, content \in Hashes \union {None} : EditFolder(p, content)
           \/ \E p, q \in Paths : RenameFile(p, q)
  BY <1>6 DEF Person, EditFolder, RenameFile, Review
<1> QED
  BY <1>1, <1>2, <1>3, <1>4, <1>5, <1>6 DEF WikiNext, TaskStep

LEMMA WikiTransactions ==
  ASSUME WikiTyped, LifecycleInv, [WikiNext]_wikiVars
  PROVE  \/ UNCHANGED vars \/ Register \/ Ingest \/ Review \/ Publish
         \/ QuarantineCollection \/ RecoverInterruptedJobs
         \/ \E s \in Sources : MarkSourceFailed(s) \/ MarkDeleted(s) \/ QuarantineSource(s)
<1>1. CASE Restart
  BY <1>1 DEF Restart
<1> QED
  BY <1>1, RunningTransactions

(* A published document is withdrawn to where the next pass takes it up.       *)
LEMMA PublishedIsWithdrawn ==
  ASSUME WikiTyped, LifecycleInv, [WikiNext]_wikiVars, NEW s \in Sources,
         source[s].status = "published"
  PROVE  source'[s].status \in {"published"} \union OutStatuses
<1>1. /\ source \in [Sources -> SourceRow] /\ Exists(s)
      /\ concept[s].status = "published"
  BY Typed DEF Exists, LifecycleInv, RowsAgreeOnExposure
<1>2. CASE UNCHANGED vars
  BY <1>2 DEF vars
<1>3. CASE Register
  BY <1>1, <1>3 DEF Register, RegisterRetry, RegisterReplaced, RegisterMoved, RegisterNew,
     SourceRow, OutStatuses
<1>4. CASE Ingest
  BY <1>1, <1>4 DEF Ingest, ClaimIngestJob, MarkExtracted, MarkEnriched, SaveEnrichment,
     ReplaceChunks, CompleteIngestJob, FailIngestJob, IngestOwns, WithStatus, SourceRow,
     OutStatuses
<1>5. CASE Review
  BY <1>1, <1>5 DEF Review, ShowReview, ExcludeReview, BeginReanalysis, CompleteReanalysis,
     FailReanalysis, AwaitingReview, Reanalyzing, WithStatus, SourceRow
<1>6. CASE Publish
  BY <1>1, <1>6 DEF Publish, BeginPublication, CompletePublication, MarkPublicationCancelling,
     FinishPublicationCancellation, ReturnClaimed, MayCommit, Publishing, MatchesReviewed,
     AwaitingReview, WithStatus, SourceRow
<1>7. CASE QuarantineCollection \/ \E u \in Sources :
             MarkSourceFailed(u) \/ MarkDeleted(u) \/ QuarantineSource(u)
  BY <1>1, <1>7 DEF QuarantineCollection, MarkSourceFailed, MarkDeleted, QuarantineSource,
     WithStatus, SourceRow, OutStatuses
<1>8. CASE RecoverInterruptedJobs
  BY <1>1, <1>8 DEF RecoverInterruptedJobs, SourceRow, OutStatuses
<1> QED
  BY <1>2, <1>3, <1>4, <1>5, <1>6, <1>7, <1>8, WikiTransactions


-------------------------------------------------------------------------------
(* What that says of the bundle                                                *)

(* The entries of log.md stay.                                                 *)
LEMMA LogGrows ==
  ASSUME [WikiNext]_wikiVars
  PROVE  log \subseteq log'
<1>1. ASSUME NEW t \in Tasks, Works(t) PROVE log \subseteq log'
  BY <1>1 DEF Works, Starts, StartPass, Quarantine, QuarantineFolder, Reconciles, HashFile,
     HashFails, QuarantineUnsafe, RegisterFile, Reread, ListSources, SweepLarge, SweepGone,
     SweepDead, EndSweep, Unlink, Relist, LogRemoval, Withdrawn, WithdrawFails, Ingests,
     ClaimPending, Extract, Enrich, Save, Embed, WriteDraft, FinishIngest, EndScan,
     Reanalyzes, StartReanalysis, Regenerate, ReplaceDraft, ReplaceFails, Redraft, Abandon,
     bundle
<1>2. Publishes \/ (\E s \in Sources : StartApproval(s)) => log \subseteq log'
  BY DEF Publishes, StartApproval, RecoverClaim, Approve, ApproveFails, WritePage, WriteIndex,
     WriteLog, Commit, BeginCancel, DiscardPage, Unlist, FinishCancel, RestoreDraft, bundle
<1> QED
  BY <1>1, <1>2 DEF WikiNext, TaskStep, Works, Person, EditFolder, RenameFile, Restart,
     wikiVars, bundle

(* A searchable document keeps its page and its entry.                         *)
LEMMA SearchableStep ==
  ASSUME PassInv, MaterializationFits, WikiTyped, LifecycleInv, [WikiNext]_wikiVars,
         SearchableIsMaterialized
  PROVE  SearchableIsMaterialized'
<1> DEFINE Entry(s) == [what |-> "published", s |-> s, sha |-> source[s].sha,
                        revision |-> source[s].revision]
<1> SUFFICES ASSUME NEW s \in Sources, Searchable(s)'
             PROVE  page'[s] = PageOf(s, "stable")' /\ Entry(s)' \in log'
  BY DEF SearchableIsMaterialized
<1>1. [Next]_vars /\ log \subseteq log'
  BY WikiStep, LogGrows
<1>2. CASE Searchable(s)
  <2>1. VersionOf(s)' = VersionOf(s)
    BY <1>1, <1>2, PublishedStays DEF Searchable
  <2>2. page'[s] = page[s]
    BY <1>2, PublishedPageStays DEF Searchable
  <2>3. Entry(s)' = Entry(s)
    BY <2>1 DEF VersionOf
  <2> QED
    BY <1>1, <1>2, <2>1, <2>2, <2>3 DEF SearchableIsMaterialized, PageOf
<1>3. CASE ~Searchable(s)
  <2>1. /\ job[claim].source = s /\ CompletePublication(claim)
        /\ Commit /\ page[s] = PageOf(s, "stable") /\ Publication(claim) \in log
    BY <1>3, ExposedByCommit
  <2>2. /\ source[s].sha = job[claim].sha /\ source[s].revision = job[claim].revision
        /\ \E S : source' = WithStatus(source, S, "published")
                  /\ concept' = WithStatus(concept, S, "published")
    BY <2>1 DEF CompletePublication, MayCommit, Owns
  <2>3. VersionOf(s)' = VersionOf(s)
    BY <2>2, Typed DEF WithStatus, VersionOf, SourceRow, ConceptRow
  <2>4. UNCHANGED <<page, log>>
    BY <2>1 DEF Commit, bundle
  <2>5. Publication(claim) = Entry(s)
    BY <2>1, <2>2 DEF Publication
  <2>6. Entry(s)' = Entry(s)
    BY <2>3 DEF VersionOf
  <2> QED
    BY <2>1, <2>3, <2>4, <2>5, <2>6 DEF PageOf
<1> QED
  BY <1>2, <1>3

(* A claim is dropped once its page has left the bundle, or with the publication *)
(* of its page.                                                                *)
LEMMA ClaimLeavesNoPage ==
  ASSUME PassInv, MaterializationFits, WikiTyped, LifecycleInv, [WikiNext]_wikiVars,
         claim # None, claim' # claim, NEW s \in Sources, job[claim].source = s, Stable(s)
  PROVE  concept'[s].status = "published" /\ page'[s] = PageOf(s, "stable")'
<1>1. [Next]_vars
  BY WikiStep
<1>2. ~ \E t \in Tasks : Works(t)
  BY WorkKeepsClaim
<1>3. Publisher \in Tasks /\ (Publishes \/ \E u \in Sources : StartApproval(u))
  BY <1>2 DEF WikiNext, TaskStep, Works, Person, ShowReview, ExcludeReview, EditFolder,
     RenameFile, Restart, RecoverInterruptedJobs, wikiVars, vars
<1>4. Commit \/ FinishCancel
  BY <1>3, NoneAssumption DEF Publishes, StartApproval, RecoverClaim, Approve, BeginPublication,
     ApproveFails, WritePage, WriteIndex, WriteLog, BeginCancel, MarkPublicationCancelling,
     DiscardPage, Unlist, RestoreDraft, MarkSourceFailed, vars
<1>5. task[Publisher].job = claim /\ task[Publisher].pc \in {"commit", "dropClaim"}
  BY <1>3, <1>4 DEF Commit, FinishCancel, At, PassInv, PublisherHoldsClaim, Claiming, Materializing
<1>6. ~FinishCancel
  BY <1>3, <1>5 DEF FinishCancel, At, PassInv, PublisherHoldsClaim
<1>7. CompletePublication(claim) /\ UNCHANGED page /\ task[Publisher].pc = "commit"
  BY <1>4, <1>5, <1>6 DEF Commit, At, bundle, vars
<1>8. /\ page[s] = [kind |-> "stable", version |-> approved[s]]
      /\ source[s].status = "publishing" /\ concept[s].status = "publishing"
  BY <1>3, <1>5, <1>7 DEF MaterializationFits, CompletePublication, MayCommit, Publishing
<1>9. approved[s] = VersionOf(s)
  BY <1>8 DEF LifecycleInv, ApprovedVersionIsStored
<1>10. source' = WithStatus(source, {s}, "published")
       /\ concept' = WithStatus(concept, {s}, "published")
  BY <1>7 DEF CompletePublication
<1>11. VersionOf(s)' = VersionOf(s) /\ concept'[s].status = "published"
  BY <1>8, <1>10, Typed DEF WithStatus, VersionOf, SourceRow, ConceptRow
<1> QED
  BY <1>7, <1>8, <1>9, <1>11 DEF PageOf

(* A stable page is that of a published document, of the claimed one, or of one *)
(* that is out; it leaves before the document is prepared.                     *)
LEMMA StablePageStep ==
  ASSUME PassInv, MaterializationFits, WikiTyped, LifecycleInv, [WikiNext]_wikiVars,
         StablePageIsAccounted
  PROVE  StablePageIsAccounted'
<1> SUFFICES ASSUME NEW s \in Sources, Stable(s)'
             PROVE  \/ concept'[s].status = "published" /\ page'[s] = PageOf(s, "stable")'
                    \/ claim' # None /\ job'[claim'].source = s
                    \/ source'[s].status \in OutStatuses
  BY DEF StablePageIsAccounted, Stable, OutStatuses
<1>1. [Next]_vars
  BY WikiStep
<1>2. CASE page'[s] # page[s]
  <2>1. UNCHANGED vars /\ claim \in Jobs /\ job[claim].source = s
    BY <1>2, OnlyThePublisherPrints DEF PassInv
  <2> QED
    BY <2>1, NoneAssumption DEF vars
<1>3. CASE page'[s] = page[s] /\ concept[s].status = "published" /\ page[s] = PageOf(s, "stable")
  <2>1. source[s].status = "published"
    BY <1>3 DEF LifecycleInv, RowsAgreeOnExposure
  <2>2. source'[s].status \in {"published"} \union OutStatuses
    BY <2>1, PublishedIsWithdrawn
  <2>3. CASE source'[s].status = "published"
    BY <1>1, <1>3, <2>1, <2>3, PublishedStays DEF PageOf
  <2> QED
    BY <2>2, <2>3
<1>4. CASE page'[s] = page[s] /\ claim # None /\ job[claim].source = s
  <2>1. CASE claim' = claim
    BY <1>1, <1>4, <2>1, ClaimNamesTheSame
  <2>2. CASE claim' # claim
    BY <1>4, <2>2, ClaimLeavesNoPage DEF Stable
  <2> QED
    BY <2>1, <2>2
<1>5. CASE page'[s] = page[s] /\ source[s].status \in OutStatuses
  <2>1. CASE source'[s].status \notin OutStatuses
    <3>1. source[s].status = "detected" /\ ActiveIngest(s)
      BY <1>1, <1>5, <2>1, OnlyIngestionPrepares
    <3> QED
      BY <1>5, <3>1 DEF PassInv, Unprinted, Stable
  <2> QED
    BY <2>1
<1> QED
  BY <1>2, <1>3, <1>4, <1>5 DEF StablePageIsAccounted, Stable, OutStatuses


-------------------------------------------------------------------------------
(* What the other tasks keep                                                   *)

(* No page of a document becomes stable that is not being published.           *)
LEMMA StaysWithoutPage ==
  ASSUME PassInv, WikiTyped, LifecycleInv, [WikiNext]_wikiVars, NEW s \in Sources,
         ~Stable(s), source[s].status # "publishing"
  PROVE  ~Stable(s)'
BY OnlyThePublisherPrints DEF PassInv, Stable

LEMMA OutStaysWithoutPage ==
  ASSUME PassInv, WikiTyped, LifecycleInv, [WikiNext]_wikiVars, NoNewIngest,
         NEW s \in Sources, Out(s)
  PROVE  Out(s)' /\ (~Stable(s) => ~Stable(s)')
<1>1. source[s].status # "publishing"
  BY DEF Out, OutStatuses
<1> QED
  BY <1>1, WikiStep, OutStays, StaysWithoutPage

LEMMA UnprintedStays ==
  ASSUME PassInv, WikiTyped, LifecycleInv, [WikiNext]_wikiVars, NoneDetected,
         NEW s \in Sources, Unprinted(s)
  PROVE  Unprinted(s)'
<1> SUFFICES ASSUME source'[s].status = "detected" PROVE ~Stable(s)'
  BY DEF Unprinted
<1>1. source[s].status = "detected" /\ ~Stable(s)
  BY DEF NoneDetected, Unprinted
<1> QED
  BY <1>1, StaysWithoutPage

(* What is named by the work of a task.                                        *)
LEMMA NamedDocuments ==
  ASSUME WikiTyped, NEW t \in Tasks
  PROVE  /\ \A x \in task[t].purge : x.s \in Sources
         /\ \A row \in pass[t].dead : row.s \in Sources
         /\ \A r \in pass[t].pending : r.s \in Sources
         /\ Registered(task[t]) => task[t].s \in Sources
BY PassOf DEF Work, Passes, Removals, Rows, Pendings, IsNamed, Registered

(* A task that rests keeps its order.                                          *)
LEMMA RestsOrderly ==
  ASSUME PassInv, WikiTyped, LifecycleInv, [WikiNext]_wikiVars, NEW u \in Tasks,
         task'[u] = task[u], pass'[u] = pass[u],
         task[u].pc \in PassSteps => NoNewIngest,
         Prepares(task[u]) => NoneDetected
  PROVE  TaskIsOrderly(u)'
<1>1. TaskIsOrderly(u)
  BY DEF PassInv
<1>2. /\ task[u].pc \in {"reread"} \union Withdrawals => task[u].pc \in PassSteps
      /\ Sweeps(task[u]) => task[u].pc \in PassSteps
      /\ Registered(task[u]) => task[u].pc \in PassSteps
      /\ Gathers(task[u]) => task[u].pc \in PassSteps
  BY DEF PassSteps, Withdrawals, Sweeps, Registered, Gathers
<1>3. RoleIsKept(u)'
  BY <1>1 DEF TaskIsOrderly, RoleIsKept
<1>4. PurgesOutDocuments(u)'
  BY <1>1, <1>2, NamedDocuments, OutStaysWithoutPage DEF TaskIsOrderly, PurgesOutDocuments
<1>5. PendingIsUnprinted(u)'
  BY <1>1, <1>2, NamedDocuments, OutStaysWithoutPage, UnprintedStays
     DEF TaskIsOrderly, PendingIsUnprinted
<1> QED
  BY <1>3, <1>4, <1>5 DEF TaskIsOrderly

(* The work of a task leaves the passes of the others alone.                    *)
LEMMA WorkKeepsPasses ==
  ASSUME WikiTyped, NEW t \in Tasks, Works(t)
  PROVE  \A u \in Tasks : u # t => pass'[u] = pass[u]
<1> SUFFICES ASSUME NEW u \in Tasks, u # t PROVE pass'[u] = pass[u]
  OBVIOUS
<1>1. pass \in [Tasks -> Passes]
  BY DEF WikiTyped, TasksTyped
<1>2. CASE StartPass(t) \/ ListSources(t) \/ EndSweep(t) \/ WithdrawFails(t)
  BY <1>1, <1>2 DEF StartPass, ListSources, EndSweep, WithdrawFails
<1>3. CASE Quarantine(t) \/ QuarantineUnsafe(t)
  BY <1>3 DEF Quarantine, QuarantineUnsafe, QuarantineFolder
<1>4. CASE Reread(t)
  BY <1>1, <1>4 DEF Reread, Pend
<1>9. CASE Withdrawn(t)
  <2>1. task[t].back \in {"register", "sweep", "quarantined"}
    BY <1>9, PassOf DEF Withdrawn, At, IsNamed, Withdrawals
  <2>2. UNCHANGED pass \/ Pend(t, task[t].s, task[t].revision)
    BY <1>9, <2>1 DEF Withdrawn
  <2> QED
    BY <1>1, <2>2 DEF Pend
<1>5. CASE \/ \E p \in Paths : HashFile(t, p) \/ HashFails(t, p)
           \/ \E row \in pass[t].large : SweepLarge(t, row)
           \/ \E row \in pass[t].gone : SweepGone(t, row)
           \/ \E row \in pass[t].dead : SweepDead(t, row)
  BY <1>1, <1>5 DEF HashFile, HashFails, SweepLarge, SweepGone, SweepDead
<1>6. CASE \/ RegisterFile(t) \/ Relist(t) \/ LogRemoval(t)
           \/ \E x \in task[t].purge : Unlink(t, x)
  BY <1>6 DEF RegisterFile, Relist, LogRemoval, Unlink
<1>7. CASE Ingests(t)
  BY <1>1, <1>7 DEF Ingests, ClaimPending, Extract, Enrich, Save, Embed, WriteDraft,
     FinishIngest, EndScan
<1>8. CASE Reanalyzes(t) \/ \E s \in Sources, j \in Jobs : StartReanalysis(t, s, j)
  BY <1>8 DEF Reanalyzes, StartReanalysis, Regenerate, ReplaceDraft, ReplaceFails, Redraft,
     Abandon
<1> QED
  BY <1>2, <1>3, <1>4, <1>5, <1>6, <1>7, <1>8, <1>9 DEF Works, Starts, Reconciles

(* What runs is prepared under the page of no older revision.                  *)
LEMMA IngestsStayUnprinted ==
  ASSUME PassInv, WikiTyped, LifecycleInv, [WikiNext]_wikiVars, NEW s \in Sources,
         ActiveIngest(s)'
  PROVE  Unprinted(s)'
<1>1. Moves(s)
  BY WikiStep, TablesMove
<1>2. CASE ActiveIngest(s)
  <2> SUFFICES ASSUME source'[s].status = "detected" PROVE ~Stable(s)'
    BY DEF Unprinted
  <2>1. source[s].status = "detected" /\ ~Stable(s)
    BY <1>1, <1>2 DEF Moves, PassInv, Unprinted
  <2> QED
    BY <2>1, StaysWithoutPage
<1>3. CASE ~ActiveIngest(s)
  <2>1. ~NoNewIngest
    BY <1>3 DEF NoNewIngest
  <2>2. \A u \in Sources : MarkSourceFailed(u) \/ MarkDeleted(u) \/ QuarantineSource(u) => FailClosed
    BY DEF FailClosed
  <2>3. QuarantineCollection \/ RecoverInterruptedJobs => FailClosed
    BY DEF FailClosed
  <2>4. ~(UNCHANGED vars \/ Register \/ Review \/ Publish \/ FailClosed)
    BY <2>1, QuietTransaction
  <2>5. PICK t \in Tasks : Ingests(t)
    BY <2>2, <2>3, <2>4, PassTransactions, ReanalysisTransactions, PublisherTransactions
       DEF WikiNext, TaskStep, wikiVars, Person, EditFolder, RenameFile, Restart, Review
  <2>6. PICK j \in Jobs, r \in pass[t].pending :
          task[t].pc = "process" /\ UNCHANGED page /\ ClaimIngestJob(j, r.s)
    BY <2>1, <2>4, <2>5, IngestTransactions, QuietTransaction
  <2>7. r.s = s /\ UNCHANGED source
    BY <1>3, <2>6, Typed DEF ClaimIngestJob, StartJob, ActiveIngest, RunningJobs
  <2>8. Unprinted(s)
    BY <2>6, <2>7 DEF PassInv, TaskIsOrderly, PendingIsUnprinted, Prepares
  <2> QED
    BY <2>6, <2>7, <2>8 DEF Unprinted, Stable
<1> QED
  BY <1>2, <1>3

(* The publisher keeps its claim while it rests.                               *)
LEMMA PublisherRests ==
  ASSUME PassInv, WikiTyped, LifecycleInv, [WikiNext]_wikiVars, claim' = claim,
         Publisher \in Tasks => task'[Publisher] = task[Publisher]
  PROVE  PublisherHoldsClaim'
<1> SUFFICES ASSUME Publisher \in Tasks,
                    task[Publisher].pc \in {"unlist", "dropClaim"}
             PROVE  ~Stable(job[claim].source)'
  BY DEF PassInv, PublisherHoldsClaim
<1>1. task[Publisher].job = claim /\ ~Stable(job[claim].source)
  BY DEF PassInv, PublisherHoldsClaim, Claiming
<1>2. claim # None /\ job[claim].source \in Sources
  BY <1>1, PublisherWork, NoneAssumption DEF PublisherSteps
<1>3. job'[claim'].source = job[claim].source
  BY <1>2, WikiStep, ClaimNamesTheSame
<1>5. ~WritePage
  BY DEF WritePage, At
<1>6. page'[job[claim].source] = page[job[claim].source] \/ page'[job[claim].source].kind # "stable"
  BY <1>2, <1>5, OnlyThePublisherPrints DEF PassInv, Stable
<1> QED
  BY <1>1, <1>3, <1>6 DEF Stable

(* Whoever works is in a pass or reanalyzes; who begins an ingestion prepares,  *)
(* who detects a document registers a file.                                    *)
LEMMA WhoWorks ==
  ASSUME PassInv, WikiTyped, LifecycleInv, NEW t \in Tasks, Works(t)
  PROVE  /\ t # Publisher
         /\ NoNewIngest \/ (t = "scan" /\ Prepares(task[t]))
         /\ NoneDetected \/ (t \in Reconcilers /\ task[t].pc = "registering")
<1>1. RoleIsKept(t)
  BY DEF PassInv, TaskIsOrderly
<1>2. \A s \in Sources : MarkSourceFailed(s) \/ MarkDeleted(s) \/ QuarantineSource(s) => FailClosed
  BY DEF FailClosed
<1>3. QuarantineCollection => FailClosed
  BY DEF FailClosed
<1>4. CASE Starts(t) \/ Reconciles(t)
  <2>1. t \in Reconcilers
    <3>1. Reconciles(t) => task[t].pc \in PassSteps
      BY DEF Reconciles, HashFile, HashFails, QuarantineUnsafe, RegisterFile, Reread, ListSources,
         SweepLarge, SweepGone, SweepDead, EndSweep, Unlink, Relist, LogRemoval, Withdrawn,
         WithdrawFails, At, PassSteps, Withdrawals
    <3>2. Starts(t) => t \in Reconcilers
      BY DEF Starts, StartPass, Quarantine, Reconcilers
    <3> QED
      BY <1>1, <1>4, <3>1, <3>2 DEF RoleIsKept
  <2>2. NoNewIngest
    BY <1>2, <1>3, <1>4, PassTransactions, QuietTransaction
  <2>3. NoneDetected \/ task[t].pc = "registering"
    BY <1>2, <1>3, <1>4, PassTransactions, OnlyRegistrationDetects
  <2> QED
    BY <2>1, <2>2, <2>3 DEF Reconcilers, Publisher
<1>5. CASE Ingests(t)
  <2>1. t = "scan" /\ Prepares(task[t])
    BY <1>1, <1>5, IngestTransactions DEF RoleIsKept
  <2>2. \A r \in pass[t].pending : r.s \in Sources
    BY PassOf DEF Passes, Pendings
  <2>3. UNCHANGED vars \/ Ingest
    BY <1>5, <2>2, IngestTransactions DEF Ingest, Prepare
  <2>4. NoneDetected
    BY <2>3, OnlyRegistrationDetects
  <2> QED
    BY <2>1, <2>4 DEF Publisher
<1>6. CASE Reanalyzes(t) \/ \E s \in Sources, j \in Jobs : StartReanalysis(t, s, j)
  <2>1. t = "reanalysis"
    BY <1>1, <1>6 DEF RoleIsKept, Reanalyzes, StartReanalysis, Regenerate, ReplaceDraft,
       ReplaceFails, Redraft, Abandon, At, ReanalysisSteps
  <2>2. UNCHANGED vars \/ Review \/ FailClosed
    BY <1>2, <1>6, ReanalysisTransactions
  <2> QED
    BY <2>1, <2>2, QuietTransaction, OnlyRegistrationDetects DEF Publisher
<1> QED
  BY <1>4, <1>5, <1>6 DEF Works

(* A step of a task that leaves the task itself in order leaves everything so.  *)
LEMMA PassFrame ==
  ASSUME PassInv, PassesDoNotOverlap, WikiTyped, LifecycleInv, [WikiNext]_wikiVars,
         NEW t \in Tasks, Works(t), TaskIsOrderly(t)'
  PROVE  PassInv'
<1>1. ASSUME NEW u \in Tasks, u # t PROVE TaskIsOrderly(u)'
  <2>1. task'[u] = task[u] /\ pass'[u] = pass[u]
    BY <1>1, WorkIsNoPublication, WorkKeepsPasses
  <2>2. RoleIsKept(u) /\ RoleIsKept(t)
    BY DEF PassInv, TaskIsOrderly
  <2>3. task[u].pc \in PassSteps => NoNewIngest
    <3> SUFFICES ASSUME task[u].pc \in PassSteps, t = "scan", Prepares(task[t]) PROVE FALSE
      BY WhoWorks
    <3>1. u \in Reconcilers /\ t \in Reconcilers
      BY <2>2 DEF RoleIsKept, Reconcilers
    <3>2. ~At(u, "idle") /\ ~At(t, "idle")
      BY DEF At, PassSteps, Withdrawals, Prepares, IngestSteps
    <3> QED
      BY <1>1, <3>1, <3>2 DEF PassesDoNotOverlap
  <2>4. Prepares(task[u]) => NoneDetected
    <3> SUFFICES ASSUME Prepares(task[u]), t \in Reconcilers, task[t].pc = "registering" PROVE FALSE
      BY WhoWorks
    <3>1. u \in Reconcilers
      BY <2>2 DEF RoleIsKept, Reconcilers
    <3>2. ~At(u, "idle") /\ ~At(t, "idle")
      BY DEF At, Prepares, IngestSteps
    <3> QED
      BY <1>1, <3>1, <3>2 DEF PassesDoNotOverlap
  <2> QED
    BY <2>1, <2>3, <2>4, RestsOrderly
<1>2. PublisherHoldsClaim'
  BY WhoWorks, WorkKeepsClaim, WorkIsNoPublication, PublisherRests
<1>3. ClaimedIsNotPublished'
  BY WikiStep, ClaimedStays DEF PassInv
<1>4. \A s \in Sources : ActiveIngest(s)' => Unprinted(s)'
  BY IngestsStayUnprinted
<1> QED
  BY <1>1, <1>2, <1>3, <1>4 DEF PassInv

-------------------------------------------------------------------------------
(* What a task does to its own order                                           *)

(* What is withdrawn has no worker any more.                                   *)
LEMMA WithdrawnHasNoWorker ==
  ASSUME LifecycleInv, NEW S \in SUBSET Sources, NEW status, Withdraw(S, status)
  PROVE  \A s \in S : ~ActiveIngest(s)'
BY WithdrawnJobs DEF LifecycleInv, Withdraw, ActiveIngest, RunningJobs

LEMMA RegisteredIsOut ==
  ASSUME LifecycleInv, NEW s \in Sources, NEW p \in Paths, NEW h \in Hashes,
         \/ RegisterRetry(s, p, h) \/ RegisterReplaced(s, p, h)
         \/ \E missing \in SUBSET Paths :
              \/ RegisterMoved(s, p, h, missing) /\ source[s].status \notin Settled
              \/ RegisterNew(s, p, h, missing)
  PROVE  Out(s)'
<1>1. source \in [Sources -> SourceRow]
  BY Typed
<1>2. source'[s].status = "detected"
  BY <1>1 DEF RegisterRetry, RegisterReplaced, RegisterMoved, RegisterNew, SourceRow
<1>3. ~ActiveIngest(s)'
  <2>1. CASE Withdraw({s}, "needs_review")
    BY <2>1, WithdrawnHasNoWorker
  <2>2. CASE \E missing \in SUBSET Paths : RegisterNew(s, p, h, missing)
    <3>1. Register /\ source[s].status # "detected"
      BY <2>2 DEF Register, RegisterNew, Exists
    <3> QED
      BY <1>2, <3>1, RegisterMoves DEF Moves
  <2> QED
    BY <2>1, <2>2 DEF RegisterRetry, RegisterReplaced, RegisterMoved
<1> QED
  BY <1>2, <1>3 DEF Out, OutStatuses

LEMMA FailedClosedIsOut ==
  ASSUME LifecycleInv, NEW s \in Sources,
         \/ MarkDeleted(s) \/ QuarantineSource(s)
         \/ QuarantineCollection /\ source[s].status = "published"
  PROVE  Out(s)'
<1>1. source \in [Sources -> SourceRow]
  BY Typed
<1>2. CASE MarkDeleted(s)
  BY <1>1, <1>2, WithdrawnHasNoWorker
     DEF MarkDeleted, Exists, WithStatus, SourceRow, Out, OutStatuses
<1>3. CASE QuarantineSource(s)
  BY <1>1, <1>3, WithdrawnHasNoWorker
     DEF QuarantineSource, Exists, WithStatus, SourceRow, Out, OutStatuses
<1>4. CASE QuarantineCollection /\ source[s].status = "published"
  <2> DEFINE present == {u \in Sources : Exists(u) /\ source[u].status # "deleted"}
  <2>1. s \in present
    BY <1>4 DEF Exists
  <2>2. source' = WithStatus(source, present, "failed") /\ Withdraw(present, "failed")
    BY <1>4 DEF QuarantineCollection
  <2>3. ~ActiveIngest(s)'
    <3> HIDE DEF present
    <3>1. present \in SUBSET Sources
      BY DEF present
    <3> QED
      BY <2>1, <2>2, <3>1, WithdrawnHasNoWorker
  <2>4. source'[s].status = "failed"
    BY <1>1, <1>4, <2>1, <2>2 DEF WithStatus, SourceRow
  <2> QED
    BY <2>3, <2>4 DEF Out, OutStatuses
<1> QED
  BY <1>2, <1>3, <1>4

(* The pending documents of a task stay unprinted while it goes on gathering,  *)
(* or goes over to prepare them.                                               *)
LEMMA PendingStays ==
  ASSUME PassInv, WikiTyped, LifecycleInv, [WikiNext]_wikiVars, NEW t \in Tasks, Works(t),
         \A r \in pass'[t].pending :
           r \in pass[t].pending \/ (r.s \in Sources /\ Out(r.s)' /\ ~Stable(r.s)'),
         \/ pass'[t].pending = {}
         \/ Gathers(task[t]) /\ (Gathers(task[t])' \/ Prepares(task[t])')
         \/ Prepares(task[t]) /\ Prepares(task[t])'
  PROVE  PendingIsUnprinted(t)'
<1>1. PendingIsUnprinted(t)
  BY DEF PassInv, TaskIsOrderly
<1>2. ~(Gathers(task[t]) /\ Prepares(task[t])) /\ ~(Gathers(task[t])' /\ Prepares(task[t])')
  BY DEF Gathers, Prepares, Withdrawals, IngestSteps
<1>3. CASE pass'[t].pending = {}
  BY <1>3 DEF PendingIsUnprinted
<1>4. CASE Gathers(task[t]) /\ (Gathers(task[t])' \/ Prepares(task[t])')
  <2>1. NoNewIngest
    BY <1>2, <1>4, WhoWorks
  <2>2. \A r \in pass'[t].pending : Out(r.s)' /\ ~Stable(r.s)'
    BY <1>1, <1>4, <2>1, NamedDocuments, OutStaysWithoutPage DEF PendingIsUnprinted
  <2> QED
    BY <1>2, <1>4, <2>2 DEF PendingIsUnprinted, Unprinted
<1>5. CASE Prepares(task[t]) /\ Prepares(task[t])'
  <2>1. NoneDetected
    BY <1>5, WhoWorks DEF Prepares, IngestSteps
  <2>2. \A r \in pass'[t].pending : Unprinted(r.s)'
    BY <1>1, <1>5, <2>1, NamedDocuments, UnprintedStays DEF PendingIsUnprinted, Unprinted
  <2> QED
    BY <1>2, <1>5, <2>2 DEF PendingIsUnprinted
<1> QED
  BY <1>3, <1>4, <1>5

LEMMA PlainlyOrderly ==
  ASSUME NEW t \in Tasks, task'[t].pc \notin {"reread", "sweep"} \union Withdrawals,
         RoleIsKept(t)', PendingIsUnprinted(t)'
  PROVE  TaskIsOrderly(t)'
BY DEF TaskIsOrderly, PurgesOutDocuments, Sweeps, Registered

LEMMA HashOrderly ==
  ASSUME PassInv, WikiTyped, LifecycleInv, [WikiNext]_wikiVars, NEW t \in Tasks, Works(t),
         StartPass(t) \/ \E p \in Paths : HashFile(t, p) \/ HashFails(t, p)
  PROVE  TaskIsOrderly(t)'
<1>1. task \in [Tasks -> Work] /\ pass \in [Tasks -> Passes] /\ RoleIsKept(t)
  BY DEF WikiTyped, TasksTyped, PassInv, TaskIsOrderly
<1>2. CASE StartPass(t)
  <2>1. task'[t].pc = "register" /\ pass'[t].pending = {} /\ t \in Reconcilers
    BY <1>1, <1>2 DEF StartPass, Goto, Work, NoPass, Reconcilers
  <2>2. RoleIsKept(t)' /\ PendingIsUnprinted(t)'
    BY <2>1 DEF RoleIsKept, Prepares, IngestSteps, ReanalysisSteps, PendingIsUnprinted
  <2> QED
    BY <2>1, <2>2, PlainlyOrderly DEF Withdrawals
<1>3. CASE \E p \in Paths : HashFile(t, p) \/ HashFails(t, p)
  <2>1. /\ task[t].pc = "register" /\ task'[t].pc \in {"register", "registering"}
        /\ pass'[t].pending = pass[t].pending
    <3>1. task[t].pc = "register" /\ \E p \in Paths : pass' = [pass EXCEPT ![t].left = @ \ {p}]
      BY <1>3 DEF HashFile, HashFails, At
    <3>2. \/ task' = task
          \/ \E p \in Paths : task' = [task EXCEPT ![t].pc = "registering", ![t].p = p,
                                                   ![t].sha = folder[p]]
      BY <1>3 DEF HashFile, HashFails
    <3>3. task'[t].pc \in {"register", "registering"}
      <4>1. CASE task' = task
        BY <3>1, <4>1
      <4>2. CASE \E p \in Paths : task' = [task EXCEPT ![t].pc = "registering", ![t].p = p,
                                                      ![t].sha = folder[p]]
        <5>1. PICK p \in Paths : task' = [task EXCEPT ![t].pc = "registering", ![t].p = p,
                                                       ![t].sha = folder[p]]
          BY <4>2
        <5>2. task'[t].pc = "registering"
          BY <1>1, <5>1 DEF Work
        <5> QED
          BY <5>2
      <4> QED
        BY <3>2, <4>1, <4>2
    <3>4. pass'[t].pending = pass[t].pending
      BY <1>1, <3>1 DEF Passes
    <3> QED
      BY <3>1, <3>3, <3>4
  <2>2. Gathers(task[t]) /\ Gathers(task[t])'
    BY <2>1 DEF Gathers
  <2>3. RoleIsKept(t)'
    BY <1>1, <2>1 DEF RoleIsKept, PassSteps, Prepares, IngestSteps, ReanalysisSteps
  <2>4. PendingIsUnprinted(t)'
    BY <2>1, <2>2, PendingStays
  <2> QED
    BY <2>1, <2>3, <2>4, PlainlyOrderly DEF Withdrawals
<1> QED
  BY <1>2, <1>3

(* A quarantine purges what it just failed.                                    *)
LEMMA QuarantineOrderly ==
  ASSUME PassInv, WikiTyped, LifecycleInv, [WikiNext]_wikiVars, NEW t \in Tasks, Works(t),
         Quarantine(t) \/ QuarantineUnsafe(t)
  PROVE  TaskIsOrderly(t)'
<1>1. task \in [Tasks -> Work] /\ TaskIsOrderly(t)
  BY DEF WikiTyped, TasksTyped, PassInv
<1>2. task[t].pc \in {"idle", "unsafe"} /\ t \in Reconcilers /\ QuarantineFolder(t)
  BY <1>1 DEF Quarantine, QuarantineUnsafe, At, Reconcilers, TaskIsOrderly, RoleIsKept, PassSteps
<1>3. pass[t].pending = {}
  BY <1>1, <1>2 DEF TaskIsOrderly, PendingIsUnprinted, Gathers, Prepares, IngestSteps, Withdrawals
<1>4. /\ task'[t].pc = "withdraw" /\ task'[t].back = "quarantined" /\ pass' = pass
      /\ task'[t].purge = {[s |-> s, sha |-> source[s].sha] :
                             s \in {u \in Sources : source[u].status = "published"}}
  BY <1>1, <1>2 DEF QuarantineFolder, Work
<1>5. \A x \in task'[t].purge : Out(x.s)'
  <2>1. \A x \in task'[t].purge : x.s \in Sources /\ source[x.s].status = "published"
    BY <1>4
  <2> QED
    BY <1>2, <2>1, FailedClosedIsOut DEF QuarantineFolder
<1>6. RoleIsKept(t)'
  BY <1>2, <1>4 DEF RoleIsKept, Prepares, IngestSteps, ReanalysisSteps
<1>7. PurgesOutDocuments(t)'
  BY <1>4, <1>5 DEF PurgesOutDocuments, Sweeps, Registered
<1>8. PendingIsUnprinted(t)'
  BY <1>3, <1>4 DEF PendingIsUnprinted
<1> QED
  BY <1>6, <1>7, <1>8 DEF TaskIsOrderly

LEMMA RegisterOrderly ==
  ASSUME PassInv, WikiTyped, LifecycleInv, [WikiNext]_wikiVars, NEW t \in Tasks, Works(t),
         RegisterFile(t)
  PROVE  TaskIsOrderly(t)'
<1>1. task \in [Tasks -> Work] /\ pass \in [Tasks -> Passes] /\ RoleIsKept(t)
  BY DEF WikiTyped, TasksTyped, PassInv, TaskIsOrderly
<1>2. task[t].pc = "registering" /\ UNCHANGED pass /\ Gathers(task[t]) /\ t \in Reconcilers
  BY <1>1 DEF RegisterFile, At, Gathers, RoleIsKept, PassSteps
<1>3. task[t].p \in Paths /\ task[t].sha \in Hashes
  BY <1>2, PassOf DEF IsNamed
<1>4. \/ NextFile(t)
      \/ \E s \in Sources : \E old :
           /\ task' = [task EXCEPT ![t].pc = "reread", ![t].s = s,
                                   ![t].purge = {[s |-> s, sha |-> old]}]
           /\ Out(s)'
  <2>1. {q \in Paths : folder[q] = None} \in SUBSET Paths
    OBVIOUS
  <2> QED
    BY <1>3, <2>1, RegisteredIsOut DEF RegisterFile
<1>5. CASE NextFile(t)
  <2>1. task'[t].pc = "register"
    BY <1>1, <1>5 DEF NextFile, Idle
  <2>2. RoleIsKept(t)'
    BY <1>2, <2>1 DEF RoleIsKept, Prepares, IngestSteps, ReanalysisSteps
  <2>3. PendingIsUnprinted(t)'
    BY <1>2, <2>1, PendingStays DEF Gathers
  <2> QED
    BY <2>1, <2>2, <2>3, PlainlyOrderly DEF Withdrawals
<1>6. CASE \E s \in Sources : \E old :
             /\ task' = [task EXCEPT ![t].pc = "reread", ![t].s = s,
                                     ![t].purge = {[s |-> s, sha |-> old]}]
             /\ Out(s)'
  <2>1. PICK s \in Sources : \E old :
             /\ task' = [task EXCEPT ![t].pc = "reread", ![t].s = s,
                                     ![t].purge = {[s |-> s, sha |-> old]}]
             /\ Out(s)'
    BY <1>6
  <2>2. task'[t].pc = "reread" /\ task'[t].s = s /\ \A x \in task'[t].purge : x.s = s
    BY <1>1, <2>1 DEF Work
  <2>3. RoleIsKept(t)'
    BY <1>2, <2>2 DEF RoleIsKept, Prepares, IngestSteps, ReanalysisSteps
  <2>4. PurgesOutDocuments(t)'
    BY <2>1, <2>2 DEF PurgesOutDocuments, Sweeps, Withdrawals
  <2>5. PendingIsUnprinted(t)'
    BY <1>2, <2>2, PendingStays DEF Gathers
  <2> QED
    BY <2>3, <2>4, <2>5 DEF TaskIsOrderly
<1> QED
  BY <1>4, <1>5, <1>6

(* A document without a concept has no page; any other is withdrawn first.      *)
LEMMA RereadOrderly ==
  ASSUME PassInv, PagesFit, WikiTyped, LifecycleInv, [WikiNext]_wikiVars, NEW t \in Tasks,
         Works(t), Reread(t)
  PROVE  TaskIsOrderly(t)'
<1> DEFINE s == task[t].s
<1>1. task \in [Tasks -> Work] /\ pass \in [Tasks -> Passes] /\ TaskIsOrderly(t)
  BY DEF WikiTyped, TasksTyped, PassInv
<1>2. /\ task[t].pc = "reread" /\ UNCHANGED <<vars, bundle>>
      /\ Gathers(task[t]) /\ t \in Reconcilers
  BY <1>1 DEF Reread, At, Gathers, TaskIsOrderly, RoleIsKept, PassSteps
<1>3. s \in Sources /\ Out(s) /\ \A x \in task[t].purge : Out(x.s)
  BY <1>1, <1>2, PassOf DEF IsNamed, TaskIsOrderly, PurgesOutDocuments, Registered
<1>4. \A u \in Sources : (Out(u)' <=> Out(u)) /\ (Stable(u)' <=> Stable(u))
  BY <1>2 DEF vars, bundle, Out, ActiveIngest, RunningJobs, Stable
<1>5. CASE NextFile(t)
  <2>1. task'[t].pc = "register"
    BY <1>1, <1>5 DEF NextFile, Idle
  <2>2. RoleIsKept(t)'
    BY <1>2, <2>1 DEF RoleIsKept, Prepares, IngestSteps, ReanalysisSteps
  <2>3. UNCHANGED pass \/ (~source[s].linked /\ Pend(t, s, source[s].revision))
    BY <1>1, <1>5, <2>1 DEF Reread, Work
  <2>4. ~source[s].linked => ~Stable(s)
    BY <1>3 DEF PagesFit, NoPage, Stable
  <2>5. \A r \in pass'[t].pending :
          r \in pass[t].pending \/ (r.s \in Sources /\ Out(r.s)' /\ ~Stable(r.s)')
    <3>1. CASE UNCHANGED pass
      BY <3>1
    <3>2. CASE ~source[s].linked /\ Pend(t, s, source[s].revision)
      <4>1. \A r \in pass'[t].pending : r \in pass[t].pending \/ r.s = s
        BY <1>1, <3>2 DEF Pend, Passes
      <4> QED
        BY <1>3, <1>4, <2>4, <3>2, <4>1
    <3> QED
      BY <2>3, <3>1, <3>2
  <2>6. PendingIsUnprinted(t)'
    BY <1>2, <2>1, <2>5, PendingStays DEF Gathers
  <2> QED
    BY <2>1, <2>2, <2>6, PlainlyOrderly DEF Withdrawals
<1>6. CASE ~NextFile(t)
  <2>1. /\ task' = [task EXCEPT ![t].pc = "withdraw", ![t].back = "register",
                                ![t].revision = source[s].revision]
        /\ UNCHANGED pass
    BY <1>6 DEF Reread
  <2>2. /\ task'[t].pc = "withdraw" /\ task'[t].back = "register" /\ task'[t].s = s
        /\ task'[t].purge = task[t].purge
    BY <1>1, <2>1 DEF Work
  <2>3. task[t].purge # {}
    BY <1>2 DEF PagesFit, WithdrawsFirst
  <2>4. RoleIsKept(t)'
    BY <1>2, <2>2 DEF RoleIsKept, Prepares, IngestSteps, ReanalysisSteps
  <2>5. PurgesOutDocuments(t)'
    BY <1>3, <1>4, <2>2, <2>3, NamedDocuments DEF PurgesOutDocuments, Sweeps
  <2>6. PendingIsUnprinted(t)'
    BY <1>2, <2>1, <2>2, PendingStays DEF Gathers, Withdrawals
  <2> QED
    BY <2>4, <2>5, <2>6 DEF TaskIsOrderly
<1> QED
  BY <1>5, <1>6

(* A document marked deleted has no worker.                                    *)
LEMMA ListSourcesOrderly ==
  ASSUME PassInv, WikiTyped, LifecycleInv, [WikiNext]_wikiVars, NEW t \in Tasks, Works(t),
         ListSources(t)
  PROVE  TaskIsOrderly(t)'
<1>1. task \in [Tasks -> Work] /\ pass \in [Tasks -> Passes] /\ RoleIsKept(t)
  BY DEF WikiTyped, TasksTyped, PassInv, TaskIsOrderly
<1>2. /\ task[t].pc = "register" /\ UNCHANGED vars /\ Gathers(task[t]) /\ t \in Reconcilers
  BY <1>1 DEF ListSources, At, Gathers, RoleIsKept, PassSteps
<1>3. task'[t].pc = "sweep"
  BY <1>1 DEF ListSources, Goto, Work
<1> DEFINE row(s) == [s |-> s, sha |-> source[s].sha, linked |-> source[s].linked,
                      status |-> source[s].status]
<1> DEFINE isLarge(s) == source[s].path \in pass[t].large
<1> DEFINE deleted(s) == source[s].status = "deleted"
<1> DEFINE found(s) == source[s].path \in pass[t].found
<1> DEFINE large == {row(s) : s \in {s \in Sources : Exists(s) /\ isLarge(s) /\ ~deleted(s)}}
<1> DEFINE dead == {row(s) : s \in {s \in Sources : Exists(s) /\ ~isLarge(s) /\ deleted(s)
                                                   /\ source[s].linked}}
<1> DEFINE gone == {row(s) : s \in {s \in Sources : Exists(s) /\ ~isLarge(s) /\ ~deleted(s)
                                                   /\ ~found(s)}}
<1>11. pass' = [pass EXCEPT ![t] = [pass[t] EXCEPT !.large = large, !.dead = dead, !.gone = gone]]
  BY DEF ListSources
<1>5. \A r \in dead : r.s \in Sources /\ source[r.s].status = "deleted"
  OBVIOUS
<1> HIDE DEF large, dead, gone
<1>4. pass'[t].pending = pass[t].pending /\ pass'[t].dead = dead
  BY <1>1, <1>11 DEF Passes
<1>6. \A s \in Sources : source[s].status = "deleted" => Out(s)'
  BY <1>2 DEF Out, OutStatuses, ActiveIngest, RunningJobs, LifecycleInv, IngestIsExclusive, vars
<1>7. RoleIsKept(t)'
  BY <1>2, <1>3 DEF RoleIsKept, Prepares, IngestSteps, ReanalysisSteps
<1>8. PurgesOutDocuments(t)'
  BY <1>3, <1>4, <1>5, <1>6 DEF PurgesOutDocuments, Sweeps, Registered, Withdrawals
<1>9. PendingIsUnprinted(t)'
  BY <1>2, <1>3, <1>4, PendingStays DEF Gathers
<1> QED
  BY <1>7, <1>8, <1>9 DEF TaskIsOrderly

(* The sweep purges a document it just failed or deleted, or a tombstone.       *)
LEMMA SweepOrderly ==
  ASSUME PassInv, WikiTyped, LifecycleInv, [WikiNext]_wikiVars, NEW t \in Tasks, Works(t),
         \/ \E row \in pass[t].large : SweepLarge(t, row)
         \/ \E row \in pass[t].gone : SweepGone(t, row)
         \/ \E row \in pass[t].dead : SweepDead(t, row)
  PROVE  TaskIsOrderly(t)'
<1>1. task \in [Tasks -> Work] /\ pass \in [Tasks -> Passes] /\ TaskIsOrderly(t)
  BY DEF WikiTyped, TasksTyped, PassInv
<1>2. /\ task[t].pc = "sweep" /\ Gathers(task[t]) /\ Sweeps(task[t]) /\ t \in Reconcilers
  BY <1>1 DEF SweepLarge, SweepGone, SweepDead, At, Gathers, Sweeps, TaskIsOrderly, RoleIsKept,
     PassSteps
<1>3. NoNewIngest
  BY <1>2, WhoWorks DEF Prepares, IngestSteps
<1>4. \A row \in pass[t].large \union pass[t].gone \union pass[t].dead : row.s \in Sources
  BY <1>2, PassOf DEF Sweeps, Passes, Rows
<1>5. \A row \in pass[t].dead : Out(row.s)'
  BY <1>1, <1>2, <1>3, <1>4, OutStaysWithoutPage DEF TaskIsOrderly, PurgesOutDocuments
<1>6. \/ task' = task
      \/ \E row : RemovePageOf(t, row) /\ Out(row.s)'
  <2>1. CASE \E row \in pass[t].large : SweepLarge(t, row)
    <3>1. PICK row \in pass[t].large : SweepLarge(t, row)
      BY <2>1
    <3>2. \/ task' = task
          \/ /\ QuarantineSource(row.s)
             /\ RemovePageOf(t, [row EXCEPT !.sha = source[row.s].sha])
      BY <3>1 DEF SweepLarge
    <3>3. [row EXCEPT !.sha = source[row.s].sha].s = row.s
      BY <1>2, PassOf DEF Sweeps, Rows
    <3> QED
      BY <1>4, <3>2, <3>3, FailedClosedIsOut
  <2>2. CASE \E row \in pass[t].gone : SweepGone(t, row)
    BY <1>4, <2>2, FailedClosedIsOut DEF SweepGone
  <2>3. CASE \E row \in pass[t].dead : SweepDead(t, row)
    BY <1>5, <2>3 DEF SweepDead
  <2> QED
    BY <2>1, <2>2, <2>3
<1>7. pass'[t].pending = pass[t].pending /\ pass'[t].dead \subseteq pass[t].dead
  <2>1. \/ \E row : pass' = [pass EXCEPT ![t].large = @ \ {row}]
        \/ \E row : pass' = [pass EXCEPT ![t].gone = @ \ {row}]
        \/ \E row : pass' = [pass EXCEPT ![t].dead = @ \ {row}]
    BY DEF SweepLarge, SweepGone, SweepDead
  <2> QED
    BY <1>1, <2>1 DEF Passes
<1>8. CASE task' = task
  <2>1. RoleIsKept(t)'
    BY <1>1, <1>8 DEF TaskIsOrderly, RoleIsKept
  <2>2. PurgesOutDocuments(t)'
    BY <1>2, <1>5, <1>7, <1>8 DEF PurgesOutDocuments, Sweeps, Registered, Withdrawals
  <2>3. PendingIsUnprinted(t)'
    BY <1>2, <1>7, <1>8, PendingStays
  <2> QED
    BY <2>1, <2>2, <2>3 DEF TaskIsOrderly
<1>9. CASE \E row : RemovePageOf(t, row) /\ Out(row.s)'
  <2>1. PICK row : RemovePageOf(t, row) /\ Out(row.s)'
    BY <1>9
  <2>2. /\ task'[t].pc = "withdraw" /\ task'[t].back = "sweep"
        /\ task'[t].purge = {[s |-> row.s, sha |-> row.sha]}
    BY <1>1, <2>1 DEF RemovePageOf, Work
  <2>3. RoleIsKept(t)'
    BY <1>2, <2>2 DEF RoleIsKept, Prepares, IngestSteps, ReanalysisSteps
  <2>4. PurgesOutDocuments(t)'
    BY <1>5, <1>7, <2>1, <2>2 DEF PurgesOutDocuments, Registered
  <2>5. PendingIsUnprinted(t)'
    BY <1>2, <1>7, <2>2, PendingStays DEF Gathers, Withdrawals
  <2> QED
    BY <2>3, <2>4, <2>5 DEF TaskIsOrderly
<1> QED
  BY <1>6, <1>8, <1>9

LEMMA EndSweepOrderly ==
  ASSUME PassInv, WikiTyped, LifecycleInv, [WikiNext]_wikiVars, NEW t \in Tasks, Works(t),
         EndSweep(t)
  PROVE  TaskIsOrderly(t)'
<1>1. task \in [Tasks -> Work] /\ pass \in [Tasks -> Passes] /\ Gathers(task[t])
  BY DEF WikiTyped, TasksTyped, EndSweep, At, Gathers
<1>2. CASE t = "scan"
  <2>1. task'[t].pc = "process" /\ UNCHANGED pass
    BY <1>1, <1>2 DEF EndSweep, Goto, Work
  <2>2. RoleIsKept(t)'
    BY <1>2, <2>1 DEF RoleIsKept, PassSteps, Withdrawals, ReanalysisSteps
  <2>3. PendingIsUnprinted(t)'
    BY <1>1, <2>1, PendingStays DEF Prepares
  <2> QED
    BY <2>1, <2>2, <2>3, PlainlyOrderly DEF Withdrawals
<1>3. CASE t # "scan"
  <2>1. task'[t].pc = "idle" /\ pass'[t].pending = {}
    BY <1>1, <1>3 DEF EndSweep, Idle, NoPass
  <2>2. RoleIsKept(t)' /\ PendingIsUnprinted(t)'
    BY <2>1 DEF RoleIsKept, PassSteps, Withdrawals, Prepares, IngestSteps, ReanalysisSteps,
       PendingIsUnprinted
  <2> QED
    BY <2>1, <2>2, PlainlyOrderly DEF Withdrawals
<1> QED
  BY <1>2, <1>3

-------------------------------------------------------------------------------
(* Withdrawals                                                                 *)

(* What a removal leaves or takes of the pages.                                *)
LEMMA UnlinkOrderly ==
  ASSUME PassInv, PagesFit, WikiTyped, LifecycleInv, [WikiNext]_wikiVars, NEW t \in Tasks,
         Works(t), NEW x \in task[t].purge, Unlink(t, x)
  PROVE  TaskIsOrderly(t)'
<1>1. task \in [Tasks -> Work] /\ TaskIsOrderly(t) /\ x.s \in Sources
  BY NamedDocuments DEF WikiTyped, TasksTyped, PassInv
<1>2. /\ task[t].pc = "withdraw" /\ UNCHANGED <<vars, pass>> /\ t \in Reconcilers
      /\ task[t].back \in {"register", "sweep", "quarantined"}
  BY <1>1, PassOf DEF Unlink, At, TaskIsOrderly, RoleIsKept, PassSteps, Withdrawals, IsNamed
<1>3. \A u \in Sources : (Out(u)' <=> Out(u)) /\ (~Stable(u) => ~Stable(u)')
  <2>1. \A u \in Sources : Out(u)' <=> Out(u)
    BY <1>2 DEF vars, Out, ActiveIngest, RunningJobs
  <2>2. page' = page \/ page' = [page EXCEPT ![x.s] = NoPage]
    BY DEF Unlink
  <2>3. page \in [Sources -> {NoPage} \union [kind : {"draft", "stable"}, version : Version]]
    BY DEF WikiTyped, FilesTyped
  <2> QED
    BY <2>1, <2>2, <2>3 DEF Stable, NoPage
<1>4. /\ \A y \in task[t].purge : Out(y.s)
      /\ task[t].back = "sweep" => \A row \in pass[t].dead : Out(row.s)
      /\ task[t].back = "register" => Out(task[t].s) /\ x.s = task[t].s
  BY <1>1, <1>2 DEF TaskIsOrderly, PurgesOutDocuments, Sweeps, Registered, Withdrawals, PagesFit,
     WithdrawsFirst
<1>5. /\ task'[t].pc \in {"withdraw", "relist"} /\ task'[t].back = task[t].back
      /\ task'[t].purge \subseteq task[t].purge
      /\ task[t].back = "register" => task'[t].s = task[t].s
      /\ task'[t].s = task[t].s \/ task'[t].s = x.s
      /\ ~Stable(x.s)'
  <2>1. CASE RemovalIsComplete(x)
    <3>1. task' = [task EXCEPT ![t].purge = @ \ {x}] /\ page' = page /\ page[x.s] = NoPage
      BY <2>1 DEF Unlink, RemovalIsComplete
    <3> QED
      BY <1>1, <1>2, <3>1 DEF Work, Stable, NoPage
  <2>2. CASE ~RemovalIsComplete(x)
    <3>1. /\ page' = [page EXCEPT ![x.s] = NoPage]
          /\ task' = [task EXCEPT ![t].pc = "relist", ![t].listed = Published, ![t].s = x.s]
      BY <2>2 DEF Unlink
    <3>2. page'[x.s] = NoPage
      BY <1>1, <3>1 DEF WikiTyped, FilesTyped
    <3>3. /\ task'[t].pc = "relist" /\ task'[t].back = task[t].back /\ task'[t].s = x.s
          /\ task'[t].purge = task[t].purge
      BY <1>1, <3>1 DEF Work
    <3> QED
      BY <1>4, <3>2, <3>3 DEF Stable, NoPage
  <2> QED
    BY <2>1, <2>2
<1>6. RoleIsKept(t)'
  BY <1>2, <1>5 DEF RoleIsKept, Prepares, IngestSteps, ReanalysisSteps
<1>7. PurgesOutDocuments(t)'
  <2>1. \A y \in task'[t].purge : Out(y.s)'
    BY <1>3, <1>4, <1>5, NamedDocuments
  <2>2. Sweeps(task[t])' => \A row \in pass'[t].dead : Out(row.s)'
    BY <1>2, <1>3, <1>4, <1>5, NamedDocuments DEF Sweeps
  <2>3. Registered(task[t])' => Out(task[t].s)' /\ ~Stable(task[t].s)'
    BY <1>1, <1>3, <1>4, <1>5 DEF Registered
  <2> QED
    BY <2>1, <2>2, <2>3 DEF PurgesOutDocuments
<1>8. PendingIsUnprinted(t)'
  <2>1. CASE task[t].back = "quarantined"
    <3>1. pass[t].pending = {}
      BY <1>1, <1>2, <2>1 DEF TaskIsOrderly, PendingIsUnprinted, Gathers, Prepares, IngestSteps,
         Withdrawals
    <3> QED
      BY <1>2, <3>1 DEF PendingIsUnprinted
  <2>2. CASE task[t].back # "quarantined"
    BY <1>2, <1>5, <2>2, PendingStays DEF Gathers, Withdrawals
  <2> QED
    BY <2>1, <2>2
<1> QED
  BY <1>6, <1>7, <1>8 DEF TaskIsOrderly

LEMMA RelistOrderly ==
  ASSUME PassInv, WikiTyped, LifecycleInv, [WikiNext]_wikiVars, NEW t \in Tasks, Works(t),
         Relist(t) \/ LogRemoval(t)
  PROVE  TaskIsOrderly(t)'
<1>1. task \in [Tasks -> Work] /\ TaskIsOrderly(t)
  BY DEF WikiTyped, TasksTyped, PassInv
<1>2. /\ task[t].pc \in {"relist", "logRemoval"} /\ UNCHANGED <<vars, page, pass>>
      /\ t \in Reconcilers
  BY <1>1 DEF Relist, LogRemoval, At, TaskIsOrderly, RoleIsKept, PassSteps, Withdrawals
<1>3. \A u \in Sources : (Out(u)' <=> Out(u)) /\ (~Stable(u) => ~Stable(u)')
  BY <1>2 DEF vars, Out, ActiveIngest, RunningJobs, Stable
<1>4. /\ \A y \in task[t].purge : Out(y.s)
      /\ task[t].back = "sweep" => \A row \in pass[t].dead : Out(row.s)
      /\ task[t].back # "quarantined" /\ task[t].back # "sweep" => Registered(task[t])
      /\ Registered(task[t]) => Out(task[t].s) /\ ~Stable(task[t].s)
  <2>1. task[t].back \in {"register", "sweep", "quarantined"}
    BY <1>2, PassOf DEF IsNamed, Withdrawals
  <2> QED
    BY <1>1, <1>2, <2>1 DEF TaskIsOrderly, PurgesOutDocuments, Sweeps, Registered, Withdrawals
<1>5. /\ task'[t].pc \in {"withdraw", "logRemoval"} /\ task'[t].back = task[t].back
      /\ task'[t].purge \subseteq task[t].purge /\ task'[t].s = task[t].s
  <2>1. CASE Relist(t)
    BY <1>1, <2>1 DEF Relist, Goto, Work
  <2>2. CASE LogRemoval(t)
    <3>1. \E x : task' = [task EXCEPT ![t].pc = "withdraw", ![t].purge = @ \ {x}]
      BY <2>2 DEF LogRemoval
    <3> QED
      BY <1>1, <3>1 DEF Work
  <2> QED
    BY <2>1, <2>2
<1>6. RoleIsKept(t)'
  BY <1>2, <1>5 DEF RoleIsKept, Prepares, IngestSteps, ReanalysisSteps
<1>7. PurgesOutDocuments(t)'
  <2>1. \A y \in task'[t].purge : Out(y.s)'
    BY <1>3, <1>4, <1>5, NamedDocuments
  <2>2. Sweeps(task[t])' => \A row \in pass'[t].dead : Out(row.s)'
    BY <1>2, <1>3, <1>4, <1>5, NamedDocuments DEF Sweeps
  <2>3. Registered(task[t])' => Registered(task[t])
    BY <1>2, <1>5 DEF Registered, Withdrawals
  <2>4. Registered(task[t])' => Out(task[t].s)' /\ ~Stable(task[t].s)'
    BY <1>3, <1>4, <1>5, <2>3, NamedDocuments
  <2> QED
    BY <2>1, <2>2, <2>4 DEF PurgesOutDocuments
<1>8. PendingIsUnprinted(t)'
  <2>1. CASE task[t].back = "quarantined"
    <3>1. pass[t].pending = {}
      BY <1>1, <1>2, <2>1 DEF TaskIsOrderly, PendingIsUnprinted, Gathers, Prepares, IngestSteps,
         Withdrawals
    <3> QED
      BY <1>2, <3>1 DEF PendingIsUnprinted
  <2>2. CASE task[t].back # "quarantined"
    BY <1>2, <1>5, <2>2, PendingStays DEF Gathers, Withdrawals
  <2> QED
    BY <2>1, <2>2
<1> QED
  BY <1>6, <1>7, <1>8 DEF TaskIsOrderly

(* A registered document is pending once its page has left.                     *)
LEMMA WithdrawnOrderly ==
  ASSUME PassInv, WikiTyped, LifecycleInv, [WikiNext]_wikiVars, NEW t \in Tasks, Works(t),
         Withdrawn(t)
  PROVE  TaskIsOrderly(t)'
<1> DEFINE s == task[t].s
<1>1. task \in [Tasks -> Work] /\ pass \in [Tasks -> Passes] /\ TaskIsOrderly(t)
  BY DEF WikiTyped, TasksTyped, PassInv
<1>2. /\ task[t].pc = "withdraw" /\ task[t].purge = {} /\ UNCHANGED <<vars, bundle>>
      /\ t \in Reconcilers /\ task[t].back \in {"register", "sweep", "quarantined"}
  BY <1>1, PassOf DEF Withdrawn, At, TaskIsOrderly, RoleIsKept, PassSteps, Withdrawals, IsNamed
<1>3. \A u \in Sources : (Out(u)' <=> Out(u)) /\ (Stable(u)' <=> Stable(u))
  BY <1>2 DEF vars, bundle, Out, ActiveIngest, RunningJobs, Stable
<1>4. CASE task[t].back = "register"
  <2>1. NextFile(t) /\ Pend(t, s, task[t].revision)
    BY <1>4 DEF Withdrawn
  <2>2. task'[t].pc = "register"
    BY <1>1, <2>1 DEF NextFile, Idle
  <2>3. s \in Sources /\ Out(s) /\ ~Stable(s)
    BY <1>1, <1>2, <1>4, NamedDocuments
       DEF TaskIsOrderly, PurgesOutDocuments, Registered, Withdrawals
  <2>4. \A r \in pass'[t].pending : r \in pass[t].pending \/ r.s = s
    BY <1>1, <2>1 DEF Pend, Passes
  <2>5. PendingIsUnprinted(t)'
    BY <1>2, <1>3, <1>4, <2>2, <2>3, <2>4, PendingStays DEF Gathers, Withdrawals
  <2>6. RoleIsKept(t)'
    BY <1>2, <2>2 DEF RoleIsKept, Prepares, IngestSteps, ReanalysisSteps
  <2> QED
    BY <2>2, <2>5, <2>6, PlainlyOrderly DEF Withdrawals
<1>5. CASE task[t].back = "sweep"
  <2>1. task'[t].pc = "sweep" /\ UNCHANGED pass
    BY <1>1, <1>5 DEF Withdrawn, Idle
  <2>2. \A row \in pass[t].dead : Out(row.s)
    BY <1>1, <1>2, <1>5 DEF TaskIsOrderly, PurgesOutDocuments, Sweeps, Withdrawals
  <2>3. PurgesOutDocuments(t)'
    BY <1>3, <2>1, <2>2, NamedDocuments DEF PurgesOutDocuments, Registered, Withdrawals
  <2>4. PendingIsUnprinted(t)'
    BY <1>2, <1>5, <2>1, PendingStays DEF Gathers, Withdrawals
  <2>5. RoleIsKept(t)'
    BY <1>2, <2>1 DEF RoleIsKept, Prepares, IngestSteps, ReanalysisSteps
  <2> QED
    BY <2>3, <2>4, <2>5 DEF TaskIsOrderly
<1>6. CASE task[t].back = "quarantined"
  <2>1. task'[t].pc = "idle" /\ UNCHANGED pass
    BY <1>1, <1>6 DEF Withdrawn, Idle
  <2>2. pass[t].pending = {}
    BY <1>1, <1>2, <1>6 DEF TaskIsOrderly, PendingIsUnprinted, Gathers, Prepares, IngestSteps,
       Withdrawals
  <2>3. RoleIsKept(t)' /\ PendingIsUnprinted(t)'
    BY <2>1, <2>2 DEF RoleIsKept, PassSteps, Withdrawals, Prepares, IngestSteps, ReanalysisSteps,
       PendingIsUnprinted
  <2> QED
    BY <2>1, <2>3, PlainlyOrderly DEF Withdrawals
<1> QED
  BY <1>2, <1>4, <1>5, <1>6

LEMMA WithdrawFailsOrderly ==
  ASSUME PassInv, WikiTyped, LifecycleInv, [WikiNext]_wikiVars, NEW t \in Tasks, Works(t),
         WithdrawFails(t)
  PROVE  TaskIsOrderly(t)'
<1>1. task \in [Tasks -> Work] /\ pass \in [Tasks -> Passes] /\ RoleIsKept(t)
  BY DEF WikiTyped, TasksTyped, PassInv, TaskIsOrderly
<1>2. task[t].pc \in Withdrawals /\ t \in Reconcilers
  BY <1>1 DEF WithdrawFails, At, RoleIsKept, PassSteps, Withdrawals
<1>3. CASE task[t].back = "register"
  <2>1. task'[t].pc = "register" /\ UNCHANGED pass
    BY <1>1, <1>3 DEF WithdrawFails, NextFile, Idle
  <2>2. RoleIsKept(t)'
    BY <1>2, <2>1 DEF RoleIsKept, Prepares, IngestSteps, ReanalysisSteps
  <2>3. PendingIsUnprinted(t)'
    BY <1>2, <1>3, <2>1, PendingStays DEF Gathers
  <2> QED
    BY <2>1, <2>2, <2>3, PlainlyOrderly DEF Withdrawals
<1>4. CASE task[t].back # "register"
  <2>1. task'[t].pc \in {"idle", "unsafe"} /\ pass'[t].pending = {}
    BY <1>1, <1>4 DEF WithdrawFails, Idle, NoPass
  <2>2. RoleIsKept(t)' /\ PendingIsUnprinted(t)'
    BY <1>2, <2>1 DEF RoleIsKept, Prepares, IngestSteps, ReanalysisSteps, PendingIsUnprinted
  <2> QED
    BY <2>1, <2>2, PlainlyOrderly DEF Withdrawals
<1> QED
  BY <1>3, <1>4

-------------------------------------------------------------------------------
(* Ingestion and reanalysis                                                    *)

LEMMA IngestOrderly ==
  ASSUME PassInv, WikiTyped, LifecycleInv, [WikiNext]_wikiVars, NEW t \in Tasks, Works(t),
         Ingests(t)
  PROVE  TaskIsOrderly(t)'
<1>1. task \in [Tasks -> Work] /\ pass \in [Tasks -> Passes] /\ RoleIsKept(t)
  BY DEF WikiTyped, TasksTyped, PassInv, TaskIsOrderly
<1>2. Prepares(task[t]) /\ t = "scan"
  BY <1>1, IngestTransactions DEF RoleIsKept
<1>3. \/ /\ task'[t].pc \in {"process"} \union IngestSteps
         /\ pass'[t].pending \subseteq pass[t].pending
      \/ task'[t].pc = "idle" /\ pass'[t].pending = {}
  <2>1. CASE \E r \in pass[t].pending : ClaimPending(t, r)
    <3>1. PICK r \in pass[t].pending : ClaimPending(t, r)
      BY <2>1
    <3>2. task'[t].pc \in {"process", "extract"}
      <4>1. CASE task' = task
        BY <3>1, <4>1 DEF ClaimPending, At
      <4>2. CASE task' # task
        BY <1>1, <3>1, <4>2 DEF ClaimPending, Idle
      <4> QED
        BY <4>1, <4>2
    <3>3. pass'[t].pending = pass[t].pending \ {r}
      BY <1>1, <3>1 DEF ClaimPending, Passes
    <3> QED
      BY <3>2, <3>3 DEF IngestSteps
  <2>2. CASE Extract(t) \/ Enrich(t) \/ Save(t) \/ Embed(t) \/ WriteDraft(t)
    BY <1>1, <2>2 DEF Extract, Enrich, Save, Embed, WriteDraft, Goto, Work, IngestSteps
  <2>3. CASE FinishIngest(t)
    BY <1>1, <2>3 DEF FinishIngest, Idle
  <2>4. CASE EndScan(t)
    BY <1>1, <2>4 DEF EndScan, Idle, NoPass
  <2> QED
    BY <2>1, <2>2, <2>3, <2>4 DEF Ingests
<1>4. RoleIsKept(t)'
  BY <1>2, <1>3 DEF RoleIsKept, PassSteps, Withdrawals, IngestSteps, ReanalysisSteps
<1>5. PendingIsUnprinted(t)'
  BY <1>2, <1>3, PendingStays DEF Prepares
<1>6. task'[t].pc \notin {"reread", "sweep"} \union Withdrawals
  BY <1>3 DEF IngestSteps, Withdrawals
<1> QED
  BY <1>4, <1>5, <1>6, PlainlyOrderly

LEMMA ReanalysisOrderly ==
  ASSUME PassInv, WikiTyped, LifecycleInv, [WikiNext]_wikiVars, NEW t \in Tasks, Works(t),
         Reanalyzes(t) \/ \E s \in Sources, j \in Jobs : StartReanalysis(t, s, j)
  PROVE  TaskIsOrderly(t)'
<1>1. task \in [Tasks -> Work] /\ TaskIsOrderly(t)
  BY DEF WikiTyped, TasksTyped, PassInv
<1>2. task[t].pc \in {"idle"} \union ReanalysisSteps /\ t = "reanalysis"
  BY <1>1 DEF Reanalyzes, StartReanalysis, Regenerate, ReplaceDraft, ReplaceFails, Redraft,
     Abandon, At, ReanalysisSteps, TaskIsOrderly, RoleIsKept
<1>3. task'[t].pc \in {"idle"} \union ReanalysisSteps
  <2>1. CASE Regenerate(t) \/ ReplaceFails(t) \/ \E d \in Drafts : ReplaceDraft(t, d)
    <3>1. \E pc \in ReanalysisSteps : Goto(t, pc)
      BY <2>1 DEF Regenerate, ReplaceDraft, ReplaceFails, ReanalysisSteps
    <3> QED
      BY <1>1, <3>1 DEF Goto, Work
  <2>2. CASE Redraft(t) \/ Abandon(t)
    <3>1. Goto(t, "abandon") \/ task' = [task EXCEPT ![t] = Idle]
      BY <2>2 DEF Redraft, Abandon
    <3> QED
      BY <1>1, <3>1 DEF Goto, Work, Idle, ReanalysisSteps
  <2>3. CASE \E s \in Sources, j \in Jobs : StartReanalysis(t, s, j)
    BY <1>1, <2>3 DEF StartReanalysis, Idle, ReanalysisSteps
  <2> QED
    BY <2>1, <2>2, <2>3 DEF Reanalyzes
<1>4. UNCHANGED pass
  BY DEF Reanalyzes, StartReanalysis, Regenerate, ReplaceDraft, ReplaceFails, Redraft, Abandon
<1>5. pass[t].pending = {}
  BY <1>1, <1>2 DEF TaskIsOrderly, PendingIsUnprinted, Gathers, Prepares, IngestSteps, Withdrawals,
     ReanalysisSteps
<1>6. RoleIsKept(t)' /\ PendingIsUnprinted(t)'
  BY <1>2, <1>3, <1>4, <1>5 DEF RoleIsKept, PassSteps, Withdrawals, Prepares, IngestSteps,
     ReanalysisSteps, PendingIsUnprinted
<1>7. task'[t].pc \notin {"reread", "sweep"} \union Withdrawals
  BY <1>3 DEF ReanalysisSteps, Withdrawals
<1> QED
  BY <1>6, <1>7, PlainlyOrderly

(* Whatever a task does leaves the wiki in order.                              *)
LEMMA WorkKeepsPassInv ==
  ASSUME PassInv, PassesDoNotOverlap, PagesFit, WikiTyped, LifecycleInv, [WikiNext]_wikiVars,
         NEW t \in Tasks, Works(t)
  PROVE  PassInv'
<1>1. CASE Starts(t) \/ Reconciles(t)
  BY <1>1, HashOrderly, QuarantineOrderly, RegisterOrderly, RereadOrderly, ListSourcesOrderly,
     SweepOrderly, EndSweepOrderly, UnlinkOrderly, RelistOrderly, WithdrawnOrderly,
     WithdrawFailsOrderly, PassFrame
     DEF Starts, Reconciles
<1> QED
  BY <1>1, IngestOrderly, ReanalysisOrderly, PassFrame DEF Works

-------------------------------------------------------------------------------
(* The publisher, the outside and a restart                                    *)

LEMMA PublisherGoesTo ==
  ASSUME WikiTyped, LifecycleInv, Publisher \in Tasks,
         Publishes \/ \E s \in Sources : StartApproval(s)
  PROVE  /\ task[Publisher].pc \in {"idle", "approve"} \union PublisherSteps
         /\ task'[Publisher].pc \in {"idle", "approve"} \union PublisherSteps
         /\ UNCHANGED pass
         /\ \A u \in Tasks : u # Publisher => task'[u] = task[u]
<1>1. task \in [Tasks -> Work]
  BY DEF WikiTyped, TasksTyped
<1>2. task[Publisher].pc \in {"idle", "approve"} \union PublisherSteps
  BY DEF Publishes, StartApproval, RecoverClaim, Approve, ApproveFails, WritePage, WriteIndex,
     WriteLog, Commit, BeginCancel, DiscardPage, Unlist, FinishCancel, RestoreDraft, At,
     PublisherSteps
<1>3. UNCHANGED pass
  BY DEF Publishes, StartApproval, RecoverClaim, Approve, ApproveFails, WritePage, WriteIndex,
     WriteLog, Commit, BeginCancel, DiscardPage, Unlist, FinishCancel, RestoreDraft
<1>4. /\ task'[Publisher].pc \in {"idle", "approve"} \union PublisherSteps
      /\ \A u \in Tasks : u # Publisher => task'[u] = task[u]
  <2>1. CASE \E s \in Sources : StartApproval(s)
    BY <1>1, <2>1 DEF StartApproval, LoadedClaim, Idle, PublisherSteps
  <2>2. CASE RecoverClaim \/ ApproveFails
    BY <1>1, <2>2 DEF RecoverClaim, ApproveFails, PublisherEnds, Goto, Work, Idle, PublisherSteps
  <2>6. CASE \E j \in Jobs, d \in Drafts : Approve(j, d)
    BY <1>1, <2>6 DEF Approve, Work, PublisherSteps
  <2>3. CASE WritePage \/ WriteIndex \/ WriteLog
    BY <1>1, <2>3 DEF WritePage, WriteIndex, WriteLog, PublisherFails, PublisherEnds, Goto, Work,
       Idle, PublisherSteps
  <2>4. CASE Commit \/ RestoreDraft
    BY <1>1, <2>4 DEF Commit, RestoreDraft, PublisherFails, PublisherGoesOn, PublisherEnds, Goto,
       Work, Idle, PublisherSteps
  <2>5. CASE BeginCancel \/ DiscardPage \/ Unlist \/ FinishCancel
    BY <1>1, <2>5 DEF BeginCancel, DiscardPage, Unlist, FinishCancel, PublisherEnds, Goto, Work,
       Idle, PublisherSteps
  <2> QED
    BY <2>1, <2>2, <2>3, <2>4, <2>5, <2>6 DEF Publishes
<1> QED
  BY <1>2, <1>3, <1>4

(* The publisher works on the claim from its beginning to its end.              *)
LEMMA PublisherKeepsClaim ==
  ASSUME PassInv, WikiTyped, LifecycleInv, Publisher \in Tasks,
         Publishes \/ \E s \in Sources : StartApproval(s)
  PROVE  PublisherHoldsClaim'
<1> DEFINE ended == task'[Publisher].pc \in {"idle", "approve", "restore"}
<1>1. task \in [Tasks -> Work]
  BY DEF WikiTyped, TasksTyped
<1>2. task[Publisher].pc \in Claiming => task[Publisher].job = claim
  BY DEF PassInv, PublisherHoldsClaim
<1>3. PublisherEnds => ended
  BY <1>1 DEF PublisherEnds, Idle
<1>4. PublisherGoesOn => ended
  BY <1>1, <1>3 DEF PublisherGoesOn, Work
<1>5. ended => PublisherHoldsClaim'
  BY DEF PublisherHoldsClaim, Claiming, Materializing
<1>6. ASSUME NEW pc, pc \notin {"unlist", "dropClaim"}, Goto(Publisher, pc),
             task[Publisher].pc \in Claiming, claim' = claim
      PROVE  PublisherHoldsClaim'
  <2>1. task'[Publisher].pc = pc /\ task'[Publisher].job = task[Publisher].job
    BY <1>1, <1>6 DEF Goto, Work
  <2> QED
    BY <1>2, <1>6, <2>1 DEF PublisherHoldsClaim
<1>7. ASSUME PublisherFails, task[Publisher].pc \in Claiming, claim' = claim
      PROVE  PublisherHoldsClaim'
  BY <1>3, <1>5, <1>6, <1>7 DEF PublisherFails
<1>8. CASE \E s \in Sources : StartApproval(s)
  <2>1. CASE claim = None
    BY <1>1, <1>5, <1>8, <2>1 DEF StartApproval, Idle
  <2>2. CASE claim # None
    <3>1. task'[Publisher].pc = "recover" /\ task'[Publisher].job = claim /\ claim' = claim
      BY <1>1, <1>8, <2>2 DEF StartApproval, LoadedClaim, Idle, vars
    <3> QED
      BY <3>1 DEF PublisherHoldsClaim
  <2> QED
    BY <2>1, <2>2
<1>9. CASE RecoverClaim
  BY <1>3, <1>5, <1>6, <1>9 DEF RecoverClaim, At, Claiming, Materializing, vars
<1>10. CASE \E j \in Jobs, d \in Drafts : Approve(j, d)
  <2>1. task'[Publisher].pc = "page" /\ task'[Publisher].job = claim'
    BY <1>1, <1>10 DEF Approve, BeginPublication, Work
  <2> QED
    BY <2>1 DEF PublisherHoldsClaim
<1>11. CASE ApproveFails
  BY <1>3, <1>5, <1>11 DEF ApproveFails
<1>12. CASE WritePage
  <2>1. CASE PublisherFails
    BY <1>7, <1>12, <2>1 DEF WritePage, At, Claiming, Materializing, vars
  <2>2. CASE ~PublisherFails
    <3>1. task'[Publisher].pc = "index" /\ task'[Publisher].job = task[Publisher].job
      BY <1>1, <1>12, <2>2 DEF WritePage, Work
    <3> QED
      BY <1>2, <1>12, <3>1 DEF WritePage, At, PublisherHoldsClaim, Claiming, Materializing, vars
  <2> QED
    BY <2>1, <2>2
<1>13. CASE WriteIndex \/ WriteLog
  BY <1>6, <1>7, <1>13 DEF WriteIndex, WriteLog, At, Claiming, Materializing, vars
<1>14. CASE Commit
  BY <1>4, <1>5, <1>7, <1>14 DEF Commit, At, Claiming, Materializing, vars
<1>15. CASE BeginCancel
  <2>1. /\ task'[Publisher].pc = "discard" /\ task'[Publisher].job = task[Publisher].job
        /\ claim' = claim
    BY <1>1, <1>15 DEF BeginCancel, MarkPublicationCancelling, Work
  <2> QED
    BY <1>2, <1>15, <2>1 DEF BeginCancel, At, PublisherHoldsClaim, Claiming
<1>16. CASE DiscardPage
  <2>1. CASE PublisherEnds
    BY <1>3, <1>5, <2>1
  <2>2. CASE ~PublisherEnds
    <3>1. /\ task'[Publisher].pc = "unlist" /\ task'[Publisher].job = task[Publisher].job
          /\ page' = [page EXCEPT ![job[task[Publisher].job].source] = NoPage]
          /\ task[Publisher].pc = "discard" /\ UNCHANGED vars
      BY <1>1, <1>16, <2>2 DEF DiscardPage, At, Work
    <3>2. job[claim].source \in Sources /\ task[Publisher].job = claim
      BY <1>2, <3>1, PublisherWork DEF Claiming, PublisherSteps
    <3>3. page \in [Sources -> {NoPage} \union [kind : {"draft", "stable"}, version : Version]]
      BY DEF WikiTyped, FilesTyped
    <3> QED
      BY <3>1, <3>2, <3>3 DEF PublisherHoldsClaim, Stable, NoPage, vars
  <2> QED
    BY <2>1, <2>2
<1>17. CASE Unlist
  <2>1. CASE PublisherEnds
    BY <1>3, <1>5, <2>1
  <2>2. CASE ~PublisherEnds
    <3>1. /\ task'[Publisher].pc = "dropClaim" /\ task'[Publisher].job = task[Publisher].job
          /\ task[Publisher].pc = "unlist" /\ UNCHANGED <<vars, page>>
      BY <1>1, <1>17, <2>2 DEF Unlist, Goto, At, Work
    <3>2. task[Publisher].job = claim /\ ~Stable(job[claim].source)
      BY <3>1 DEF PassInv, PublisherHoldsClaim, Claiming
    <3> QED
      BY <3>1, <3>2 DEF PublisherHoldsClaim, Stable, vars
  <2> QED
    BY <2>1, <2>2
<1>18. CASE FinishCancel
  BY <1>1, <1>5, <1>18 DEF FinishCancel, Goto, Work
<1>19. CASE RestoreDraft
  BY <1>3, <1>4, <1>5, <1>19 DEF RestoreDraft
<1> QED
  BY <1>8, <1>9, <1>10, <1>11, <1>12, <1>13, <1>14, <1>15, <1>16, <1>17, <1>18, <1>19 DEF Publishes

LEMMA PublisherKeepsPassInv ==
  ASSUME PassInv, WikiTyped, LifecycleInv, [WikiNext]_wikiVars, Publisher \in Tasks,
         Publishes \/ \E s \in Sources : StartApproval(s)
  PROVE  PassInv'
<1>1. \A s \in Sources : MarkSourceFailed(s) => FailClosed
  BY DEF FailClosed
<1>2. NoNewIngest /\ NoneDetected
  BY <1>1, PublisherTransactions, QuietTransaction, OnlyRegistrationDetects
<1>3. ASSUME NEW u \in Tasks, u # Publisher PROVE TaskIsOrderly(u)'
  BY <1>2, <1>3, PublisherGoesTo, RestsOrderly
<1>4. TaskIsOrderly(Publisher)'
  <2>1. pass[Publisher].pending = {}
    BY PublisherGoesTo DEF PassInv, TaskIsOrderly, PendingIsUnprinted, Gathers, Prepares,
       IngestSteps, Withdrawals, PublisherSteps
  <2>2. RoleIsKept(Publisher)' /\ PendingIsUnprinted(Publisher)'
    BY <2>1, PublisherGoesTo DEF RoleIsKept, PassSteps, Withdrawals, Prepares, IngestSteps,
       ReanalysisSteps, PublisherSteps, PendingIsUnprinted
  <2>3. task'[Publisher].pc \notin {"reread", "sweep"} \union Withdrawals
    BY PublisherGoesTo DEF PublisherSteps, Withdrawals
  <2> QED
    BY <2>2, <2>3, PlainlyOrderly
<1>5. PublisherHoldsClaim'
  BY PublisherKeepsClaim
<1>6. ClaimedIsNotPublished'
  BY WikiStep, ClaimedStays DEF PassInv
<1>7. \A s \in Sources : ActiveIngest(s)' => Unprinted(s)'
  BY IngestsStayUnprinted
<1> QED
  BY <1>3, <1>4, <1>5, <1>6, <1>7 DEF PassInv

(* The person and the folder leave the tasks alone; a restart stops them.       *)
LEMMA OutsideKeepsPassInv ==
  ASSUME PassInv, WikiTyped, LifecycleInv, [WikiNext]_wikiVars,
         \/ UNCHANGED wikiVars
         \/ \E s \in Sources : Person(s)
         \/ \E p \in Paths, content \in Hashes \union {None} : EditFolder(p, content)
         \/ \E p, q \in Paths : RenameFile(p, q)
  PROVE  PassInv'
<1>1. UNCHANGED <<task, pass, claim>> /\ (UNCHANGED vars \/ Review)
  BY DEF wikiVars, control, vars, Person, EditFolder, RenameFile, Review, ShowReview, ExcludeReview
<1>2. NoNewIngest /\ NoneDetected
  BY <1>1, QuietTransaction, OnlyRegistrationDetects
<1>3. \A u \in Tasks : TaskIsOrderly(u)'
  BY <1>1, <1>2, RestsOrderly
<1>4. PublisherHoldsClaim'
  BY <1>1, PublisherRests
<1>5. ClaimedIsNotPublished'
  BY WikiStep, ClaimedStays DEF PassInv
<1>6. \A s \in Sources : ActiveIngest(s)' => Unprinted(s)'
  BY IngestsStayUnprinted
<1> QED
  BY <1>3, <1>4, <1>5, <1>6 DEF PassInv

LEMMA RestartKeepsPassInv ==
  ASSUME PassInv, WikiTyped, LifecycleInv, [WikiNext]_wikiVars, Restart
  PROVE  PassInv'
<1>1. /\ pass' = [t \in Tasks |-> NoPass] /\ claim' = claim
      /\ IF claim = None
         THEN task' = [t \in Tasks |-> Idle]
         ELSE task' = [[t \in Tasks |-> Idle] EXCEPT ![Publisher] = LoadedClaim("startup", None)]
  BY DEF Restart, RecoverInterruptedJobs
<1>2. \A t \in Tasks : \/ task'[t].pc = "idle"
                       \/ t = Publisher /\ task'[t].pc = "recover" /\ task'[t].job = claim
  <2> DEFINE loaded == LoadedClaim("startup", None)
  <2>1. loaded.pc = "recover" /\ loaded.job = claim /\ Idle.pc = "idle"
    BY DEF LoadedClaim, Idle
  <2>2. \A t \in Tasks : task'[t] = Idle \/ (t = Publisher /\ task'[t] = loaded)
    BY <1>1
  <2> HIDE DEF loaded
  <2> QED
    BY <2>1, <2>2
<1>3. \A t \in Tasks : TaskIsOrderly(t)'
  <2> SUFFICES ASSUME NEW t \in Tasks PROVE TaskIsOrderly(t)'
    OBVIOUS
  <2>1. pass'[t].pending = {} /\ task'[t].pc \in {"idle", "recover"}
    BY <1>1, <1>2 DEF NoPass
  <2>2. RoleIsKept(t)' /\ PendingIsUnprinted(t)'
    BY <2>1 DEF RoleIsKept, PassSteps, Withdrawals, Prepares, IngestSteps, ReanalysisSteps,
       PendingIsUnprinted
  <2> QED
    BY <2>1, <2>2, PlainlyOrderly DEF Withdrawals
<1>4. PublisherHoldsClaim'
  BY <1>1, <1>2 DEF PublisherHoldsClaim, Claiming, Materializing
<1>5. ClaimedIsNotPublished'
  BY WikiStep, ClaimedStays DEF PassInv
<1>6. \A s \in Sources : ActiveIngest(s)' => Unprinted(s)'
  BY IngestsStayUnprinted
<1> QED
  BY <1>3, <1>4, <1>5, <1>6 DEF PassInv

LEMMA PassInvStep ==
  ASSUME PassInv, PassesDoNotOverlap, PagesFit, WikiTyped, LifecycleInv, [WikiNext]_wikiVars
  PROVE  PassInv'
<1>1. CASE \E t \in Tasks : Works(t)
  BY <1>1, WorkKeepsPassInv
<1>2. CASE Publisher \in Tasks /\ (Publishes \/ \E s \in Sources : StartApproval(s))
  BY <1>2, PublisherKeepsPassInv
<1>3. CASE \/ UNCHANGED wikiVars
           \/ \E s \in Sources : Person(s)
           \/ \E p \in Paths, content \in Hashes \union {None} : EditFolder(p, content)
           \/ \E p, q \in Paths : RenameFile(p, q)
  BY <1>3, OutsideKeepsPassInv
<1>4. CASE Restart
  BY <1>4, RestartKeepsPassInv
<1> QED
  BY <1>1, <1>2, <1>3, <1>4 DEF WikiNext, TaskStep, Works

LEMMA PassInvStart == WikiInit => PassInv /\ SearchableIsMaterialized /\ StablePageIsAccounted
<1> SUFFICES ASSUME WikiInit PROVE PassInv /\ SearchableIsMaterialized /\ StablePageIsAccounted
  OBVIOUS
<1>1. /\ \A t \in Tasks : task[t].pc = "idle" /\ pass[t].pending = {}
      /\ claim = None /\ \A s \in Sources : page[s].kind = "none" /\ concept[s].status = "absent"
      /\ job = [j \in Jobs |-> UnusedJob]
  BY DEF WikiInit, Init, Idle, NoPass, NoPage, AbsentConcept
<1>2. \A t \in Tasks : TaskIsOrderly(t)
  BY <1>1 DEF TaskIsOrderly, RoleIsKept, PassSteps, Withdrawals, Prepares, IngestSteps,
     ReanalysisSteps, PurgesOutDocuments, Sweeps, Registered, PendingIsUnprinted
<1>3. PublisherHoldsClaim /\ ClaimedIsNotPublished
  BY <1>1 DEF PublisherHoldsClaim, ClaimedIsNotPublished, Claiming, Materializing
<1>4. \A s \in Sources : ActiveIngest(s) => Unprinted(s)
  BY <1>1 DEF Unprinted, Stable
<1>5. SearchableIsMaterialized /\ StablePageIsAccounted
  BY <1>1 DEF SearchableIsMaterialized, StablePageIsAccounted, Searchable
<1> QED
  BY <1>2, <1>3, <1>4, <1>5 DEF PassInv

-------------------------------------------------------------------------------
(* The theorems                                                                *)

LEMMA PassesAreOrderly == WikiSpec /\ []PassesDoNotOverlap => []PassInv
<1>1. PassInv /\ PassesDoNotOverlap /\ PagesFit /\ WikiTyped /\ LifecycleInv /\ [WikiNext]_wikiVars
        => PassInv'
  BY PassInvStep
<1> QED
  BY <1>1, PassInvStart, WikiRunsTheTables, PagesAlwaysFit, PTL DEF WikiSpec

(* Only the start of a pass takes a task of the reconciliation out of its rest.  *)
LEMMA OnlyStartsBegin ==
  ASSUME WikiTyped, LifecycleInv, [WikiNext]_wikiVars, NEW t \in Reconcilers \cap Tasks,
         task[t].pc = "idle", task'[t].pc # "idle"
  PROVE  Starts(t)
<1>1. ASSUME NEW u \in Tasks, Works(u) PROVE u = t
  BY <1>1, WorkIsNoPublication
<1>2. ~(Reconciles(t) \/ Ingests(t) \/ Reanalyzes(t))
  BY DEF Reconciles, HashFile, HashFails, QuarantineUnsafe, RegisterFile, Reread, ListSources,
     SweepLarge, SweepGone, SweepDead, EndSweep, Unlink, Relist, LogRemoval, Withdrawn,
     WithdrawFails, Ingests, ClaimPending, Extract, Enrich, Save, Embed, WriteDraft,
     FinishIngest, EndScan, Reanalyzes, Regenerate, ReplaceDraft, ReplaceFails, Redraft,
     Abandon, At
<1>3. \A s, j : ~StartReanalysis(t, s, j)
  BY DEF Reconcilers, StartReanalysis
<1>4. ASSUME Publisher \in Tasks, Publishes \/ \E s \in Sources : StartApproval(s) PROVE FALSE
  BY <1>4, PublisherGoesTo DEF Reconcilers, Publisher
<1>5. ~ \/ UNCHANGED wikiVars
        \/ \E s \in Sources : Person(s)
        \/ \E p \in Paths, content \in Hashes \union {None} : EditFolder(p, content)
        \/ \E p, q \in Paths : RenameFile(p, q)
  BY DEF wikiVars, control, Person, EditFolder, RenameFile
<1>6. ~Restart
  BY DEF Restart, LoadedClaim, Idle, Reconcilers, Publisher
<1> QED
  BY <1>1, <1>2, <1>3, <1>4, <1>5, <1>6 DEF WikiNext, TaskStep, Works

(* With room for one pass at a time, passes do not overlap.                     *)
THEOREM OnePassDoesNotOverlap ==
  ASSUME MaxPasses = 1
  PROVE  WikiSpec => []PassesDoNotOverlap
<1>1. WikiInit => PassesDoNotOverlap
  BY DEF WikiInit, PassesDoNotOverlap, At, Idle
<1>2. ASSUME PassesDoNotOverlap, WikiTyped, LifecycleInv, [WikiNext]_wikiVars
      PROVE  PassesDoNotOverlap'
  <2> SUFFICES ASSUME NEW t \in Reconcilers \cap Tasks, NEW u \in Reconcilers \cap Tasks,
                      ~At(t, "idle")', ~At(u, "idle")', t # u
               PROVE  FALSE
    BY DEF PassesDoNotOverlap
  <2>1. ASSUME NEW a \in Reconcilers \cap Tasks, NEW b \in Reconcilers \cap Tasks, a # b,
               Starts(a), task'[b].pc # "idle"
        PROVE  FALSE
    <3> DEFINE busy == {v \in {"scan", "preflight", "quarantine"} \cap Tasks : ~At(v, "idle")}
    <3>1. Cardinality(busy) < 1
      BY <1>2, <2>1 DEF Starts, StartPass, Quarantine, MayReconcile
    <3>2. IsFiniteSet(busy)
      <4>1. IsFiniteSet({"scan", "preflight", "quarantine"})
        <5>1. IsFiniteSet({"quarantine"})
          BY FS_EmptySet, FS_AddElement, {} \union {"quarantine"} = {"quarantine"}
        <5>2. IsFiniteSet({"quarantine"} \union {"preflight"})
          BY <5>1, FS_AddElement
        <5>3. IsFiniteSet(({"quarantine"} \union {"preflight"}) \union {"scan"})
          BY <5>2, FS_AddElement
        <5> QED
          BY <5>3, ({"quarantine"} \union {"preflight"}) \union {"scan"}
                     = {"scan", "preflight", "quarantine"}
      <4> QED
        BY <4>1, FS_Subset
    <3>3. busy = {}
      BY <3>1, <3>2, FS_CardinalityType, FS_EmptySet
    <3>4. task[b].pc = "idle"
      BY <3>3 DEF At, Reconcilers
    <3>5. task'[b] = task[b]
      BY <1>2, <2>1, WorkIsNoPublication DEF Works
    <3> QED
      BY <2>1, <3>4, <3>5
  <2>2. ~At(t, "idle") /\ ~At(u, "idle")
    BY <1>2, <2>1, OnlyStartsBegin DEF At
  <2> QED
    BY <1>2, <2>2 DEF PassesDoNotOverlap
<1>3. PassesDoNotOverlap /\ WikiTyped /\ LifecycleInv /\ [WikiNext]_wikiVars
        => PassesDoNotOverlap'
  BY <1>2
<1> QED
  BY <1>1, <1>3, WikiRunsTheTables, PTL DEF WikiSpec

(* While the passes of a wiki do not overlap, whatever is searchable has its    *)
(* stable page of exactly that version and its entry in log.md: no removal of   *)
(* an earlier withdrawal reaches the page of a document that was published     *)
(* again meanwhile (FolderWiki!SearchableIsMaterialized).                       *)
THEOREM SearchableIsAlwaysMaterialized ==
  WikiSpec /\ []PassesDoNotOverlap => []SearchableIsMaterialized
<1>1. SearchableIsMaterialized /\ PassInv /\ MaterializationFits /\ WikiTyped /\ LifecycleInv
        /\ [WikiNext]_wikiVars => SearchableIsMaterialized'
  BY SearchableStep
<1> QED
  BY <1>1, PassInvStart, PassesAreOrderly, WikiRunsTheTables, MaterializationAlwaysFits, PTL
     DEF WikiSpec

(* While they do not overlap, a stable page belongs to a published document of  *)
(* that version, to the document of a pending claim, or to a row the next pass  *)
(* over it cleans up: no page is left over (FolderWiki!StablePageIsAccounted).  *)
THEOREM StablePageIsAlwaysAccounted ==
  WikiSpec /\ []PassesDoNotOverlap => []StablePageIsAccounted
<1>1. StablePageIsAccounted /\ PassInv /\ MaterializationFits /\ WikiTyped /\ LifecycleInv
        /\ [WikiNext]_wikiVars => StablePageIsAccounted'
  BY StablePageStep
<1> QED
  BY <1>1, PassInvStart, PassesAreOrderly, WikiRunsTheTables, MaterializationAlwaysFits, PTL
     DEF WikiSpec

-------------------------------------------------------------------------------
(* The bundle at rest mirrors the tables                                       *)

(* Nothing has failed and nothing has crashed when this step is done.          *)
Calm ==
  /\ faults \in Nat /\ restarts \in Nat
  /\ faults' = 0 /\ restarts' = 0

(* The page of s is about to leave the bundle.                                 *)
InHand(s) ==
  \E t \in Tasks : task[t].pc \in {"reread"} \union Withdrawals /\ \E x \in task[t].purge : x.s = s

Claimed(s) == claim # None /\ job[claim].source = s

(* Somebody answers for what the bundle shows of s: the tables, the pass that   *)
(* withdraws it, or the publisher.                                             *)
Kept(s) == source[s].linked /\ (source[s].status = "published" \/ InHand(s) \/ Claimed(s))

(* Steps at which a task holds the list of documents it will write to the index.*)
ListSteps == {"relist", "index", "unlist"}

ListFits(t) ==
  task[t].pc \in ListSteps =>
    Published \subseteq task[t].listed /\ \A s \in task[t].listed : Kept(s)

(* What is being removed is on its way out of page, list and index.            *)
RemovalFits(t) ==
  LET w == task[t] IN
  /\ w.pc = "relist" => w.s \in Sources \ w.listed /\ ~Stable(w.s)
  /\ w.pc = "logRemoval" => w.s \in Sources \ index /\ ~Stable(w.s)
  /\ w.pc = "unlist" => t = Publisher /\ job[claim].source \notin w.listed
  /\ w.pc = "dropClaim" => t = Publisher /\ job[claim].source \notin index

(* A reanalysis is of the document of its job.                                 *)
ReanalysisFits(t) ==
  task[t].pc \in {"regenerate", "replace"} => job[task[t].job].source = task[t].s

(* Who writes a draft page, or fails to, does not take a published document back.*)
DraftFits(t) ==
  LET w == task[t] IN
  /\ t = Publisher /\ w.pc = "restore" => source[job[w.job].source].status # "published"
  /\ ReanalysisFits(t)
  /\ w.pc = "redraft" => source[w.s].status # "published"

(* What a pass read of a row is still so.                                      *)
RowsFit(t) ==
  LET w == task[t] IN
  /\ w.pc = "reread" => source[w.s].sha = w.sha
  /\ Sweeps(w) => \A row \in pass[t].gone : source[row.s].linked => row.linked

BundleInv ==
  /\ \A s \in Sources : s \in index \/ Stable(s) => Kept(s)
  /\ Published \subseteq index
  /\ \A t \in Tasks : ListFits(t) /\ RemovalFits(t) /\ DraftFits(t) /\ RowsFit(t)

LEMMA CalmStep ==
  ASSUME Calm
  PROVE  (\A kinds : ~Fault(kinds)) /\ ~Restart /\ \A t : ~WithdrawFails(t)
<1>1. \A kinds : ~Fault(kinds)
  BY DEF Calm, Fault
<1> QED
  BY <1>1 DEF Calm, Restart, WithdrawFails

(* What has been approved has a proposal.                                      *)
LEMMA ExposedIsLinked ==
  ASSUME LifecycleInv, NEW s \in Sources, source[s].status \in {"publishing", "published"}
  PROVE  source[s].linked
<1>1. approved[s] = VersionOf(s) /\ approved[s] \in Version \union {None}
  BY Typed DEF LifecycleInv, ApprovedVersionIsStored
<1>2. concept[s].status # "absent"
  BY DEF LifecycleInv, RowsAgreeOnExposure
<1> QED
  BY <1>2, Typed DEF LifecycleInv, AbsentRowsAreEmpty

(* Only a registration changes the bytes of a row, and only an ingestion links  *)
(* it to a proposal.                                                           *)
RowsStay ==
  \A s \in Sources : source'[s].sha = source[s].sha /\ source'[s].linked = source[s].linked

LEMMA OthersKeepRows ==
  ASSUME LifecycleInv, UNCHANGED vars \/ Review \/ Publish \/ FailClosed
  PROVE  RowsStay
<1>1. source \in [Sources -> SourceRow]
  BY Typed
<1>2. \A S, status : source' = WithStatus(source, S, status) => RowsStay
  BY <1>1 DEF WithStatus, SourceRow, RowsStay
<1>3. UNCHANGED source => RowsStay
  BY DEF RowsStay
<1>4. CASE UNCHANGED vars
  BY <1>3, <1>4 DEF vars
<1>5. CASE Review
  BY <1>2, <1>3, <1>5 DEF Review, ShowReview, ExcludeReview, BeginReanalysis, CompleteReanalysis,
     FailReanalysis
<1>6. CASE Publish
  BY <1>2, <1>3, <1>6 DEF Publish, BeginPublication, CompletePublication,
     MarkPublicationCancelling, FinishPublicationCancellation, ReturnClaimed
<1>7. CASE RecoverInterruptedJobs
  BY <1>1, <1>7 DEF RecoverInterruptedJobs, SourceRow, RowsStay
<1>8. CASE FailClosed /\ ~RecoverInterruptedJobs
  BY <1>2, <1>8 DEF FailClosed, ReturnToReview, MarkSourceFailed, MarkDeleted, QuarantineSource,
     QuarantineCollection
<1> QED
  BY <1>4, <1>5, <1>6, <1>7, <1>8

(* A document is published by the commit of the publisher, once it is listed.   *)
LEMMA PublishedByCommit ==
  ASSUME MaterializationFits, WikiTyped, LifecycleInv, [WikiNext]_wikiVars,
         NEW s \in Sources, source[s].status # "published", source'[s].status = "published"
  PROVE  /\ Publisher \in Tasks /\ Commit /\ task[Publisher].job = claim /\ claim \in Jobs
         /\ job[claim].source = s /\ CompletePublication(claim)
         /\ s \in index /\ UNCHANGED bundle
<1>1. LifecycleInv'
  BY WikiStep, StepKeepsInv
<1>2. Searchable(s)'
  BY <1>1 DEF LifecycleInv, RowsAgreeOnExposure, EvidenceIsCurrent, Searchable
<1>3. ~Searchable(s)
  BY DEF Searchable
<1> QED
  BY <1>2, <1>3, ExposedByCommit DEF Commit, bundle

-------------------------------------------------------------------------------
(* Who moves                                                                   *)

(* A task is moved by nobody but itself.                                       *)
LEMMA WhoActs ==
  ASSUME ~Restart, PassInv, WikiTyped, LifecycleInv, [WikiNext]_wikiVars, NEW u \in Tasks,
         task'[u] # task[u] \/ pass'[u] # pass[u]
  PROVE  \/ Works(u) /\ u # Publisher
         \/ u = Publisher /\ (Publishes \/ \E s \in Sources : StartApproval(s))
<1>1. ASSUME NEW t \in Tasks, Works(t) PROVE t = u /\ t # Publisher
  BY <1>1, WorkIsNoPublication, WorkKeepsPasses, WhoWorks
<1>2. ASSUME Publisher \in Tasks, Publishes \/ \E s \in Sources : StartApproval(s)
      PROVE  u = Publisher
  BY <1>2, PublisherGoesTo
<1>3. ~ \/ UNCHANGED wikiVars
        \/ \E s \in Sources : Person(s)
        \/ \E p \in Paths, content \in Hashes \union {None} : EditFolder(p, content)
        \/ \E p, q \in Paths : RenameFile(p, q)
  BY DEF wikiVars, control, Person, EditFolder, RenameFile
<1> QED
  BY <1>1, <1>2, <1>3 DEF WikiNext, TaskStep, Works

LEMMA WhoMoves ==
  ASSUME Calm, PassInv, WikiTyped, LifecycleInv, [WikiNext]_wikiVars, NEW u \in Tasks,
         task'[u] # task[u] \/ pass'[u] # pass[u]
  PROVE  \/ Works(u) /\ u # Publisher
         \/ u = Publisher /\ (Publishes \/ \E s \in Sources : StartApproval(s))
BY CalmStep, WhoActs

(* Who holds the list writes it to the index, as its next step.                *)
LEMMA IndexChanges ==
  ASSUME WikiTyped, LifecycleInv, [WikiNext]_wikiVars, index' # index
  PROVE  \E t \in Tasks : /\ task[t].pc \in ListSteps /\ task'[t].pc # task[t].pc
                          /\ index' = task[t].listed /\ UNCHANGED <<vars, page>>
<1>1. task \in [Tasks -> Work]
  BY DEF WikiTyped, TasksTyped
<1>2. ASSUME NEW t \in Tasks, Works(t) PROVE Relist(t)
  BY <1>2 DEF Works, Starts, StartPass, Quarantine, QuarantineFolder, Reconciles, HashFile,
     HashFails, QuarantineUnsafe, RegisterFile, Reread, ListSources, SweepLarge, SweepGone,
     SweepDead, EndSweep, Unlink, LogRemoval, Withdrawn, WithdrawFails, Ingests,
     ClaimPending, Extract, Enrich, Save, Embed, WriteDraft, FinishIngest, EndScan,
     Reanalyzes, StartReanalysis, Regenerate, ReplaceDraft, ReplaceFails, Redraft, Abandon,
     bundle
<1>3. ASSUME NEW t \in Tasks, Relist(t)
      PROVE  /\ task[t].pc \in ListSteps /\ task'[t].pc # task[t].pc
             /\ index' = task[t].listed /\ UNCHANGED <<vars, page>>
  BY <1>1, <1>3 DEF Relist, At, Goto, ListSteps
<1>4. ASSUME Publisher \in Tasks, Publishes \/ \E s \in Sources : StartApproval(s)
      PROVE  WriteIndex \/ Unlist
  BY <1>4 DEF Publishes, StartApproval, RecoverClaim, Approve, ApproveFails, WritePage,
     WriteLog, Commit, BeginCancel, DiscardPage, FinishCancel, RestoreDraft, bundle
<1>5. ASSUME Publisher \in Tasks, WriteIndex \/ Unlist
      PROVE  /\ task[Publisher].pc \in ListSteps /\ task'[Publisher].pc # task[Publisher].pc
             /\ index' = task[Publisher].listed /\ UNCHANGED <<vars, page>>
  <2>1. CASE WriteIndex
    <3>1. task[Publisher].pc = "index" /\ Goto(Publisher, "log") /\ index' = task[Publisher].listed
      BY <2>1 DEF WriteIndex, At
    <3> QED
      BY <1>1, <1>5, <2>1, <3>1 DEF WriteIndex, Goto, ListSteps
  <2>2. CASE Unlist
    <3>1. /\ task[Publisher].pc = "unlist" /\ Goto(Publisher, "dropClaim")
          /\ index' = task[Publisher].listed
      BY <2>2 DEF Unlist, At
    <3> QED
      BY <1>1, <1>5, <2>2, <3>1 DEF Unlist, Goto, ListSteps
  <2> QED
    BY <1>5, <2>1, <2>2
<1> QED
  BY <1>2, <1>3, <1>4, <1>5 DEF WikiNext, TaskStep, Works, Person, EditFolder, RenameFile, Restart,
     wikiVars, bundle

(* While the holder of the publication lock rests, the index stays, no page      *)
(* becomes stable and nothing is published.                                    *)
LEMMA LockedRest ==
  ASSUME PassInv, MaterializationFits, WikiTyped, LifecycleInv, [WikiNext]_wikiVars,
         NEW u \in Tasks, task[u].pc \in LockedSteps, task'[u] = task[u]
  PROVE  /\ index' = index
         /\ \A s \in Sources : Stable(s)' => Stable(s)
         /\ \A s \in Sources : source'[s].status = "published" => source[s].status = "published"
<1>1. task \in [Tasks -> Work] /\ guard = u
      /\ \A t \in Tasks : task[t].pc \in LockedSteps => t = u
  BY DEF WikiTyped, TasksTyped, LockIsHeld
<1>2. index' = index
  BY <1>1, IndexChanges DEF ListSteps, LockedSteps
<1>3. ASSUME Publisher \in Tasks, WritePage \/ Commit PROVE FALSE
  <2>1. u = Publisher
    BY <1>1, <1>3 DEF WritePage, Commit, At, LockedSteps
  <2>2. task'[Publisher].pc # task[Publisher].pc
    <3>1. PublisherEnds => task'[Publisher].pc = "idle"
      BY <1>1, <1>3 DEF PublisherEnds, Idle
    <3>2. PublisherFails => task'[Publisher].pc \in {"idle", "cancel"}
      BY <1>1, <1>3, <3>1 DEF PublisherFails, Goto, Work
    <3>3. PublisherGoesOn => task'[Publisher].pc \in {"idle", "approve"}
      BY <1>1, <1>3, <3>1 DEF PublisherGoesOn, Work
    <3>4. CASE WritePage
      <4>1. task'[Publisher].pc \in {"idle", "cancel", "index"} /\ task[Publisher].pc = "page"
        BY <1>1, <1>3, <3>2, <3>4 DEF WritePage, At, Work
      <4> QED
        BY <4>1
    <3>5. CASE Commit
      BY <3>2, <3>3, <3>5 DEF Commit, At
    <3> QED
      BY <1>3, <3>4, <3>5
  <2> QED
    BY <2>1, <2>2
<1>4. ASSUME NEW s \in Sources, Stable(s)' PROVE Stable(s)
  BY <1>3, <1>4, OnlyThePublisherPrints DEF PassInv, Stable
<1>5. ASSUME NEW s \in Sources, source'[s].status = "published"
      PROVE  source[s].status = "published"
  BY <1>3, <1>5, PublishedByCommit
<1> QED
  BY <1>2, <1>4, <1>5

(* The claim ends with the commit or with the end of its cancellation.         *)
LEMMA ClaimEnds ==
  ASSUME PassInv, WikiTyped, LifecycleInv, [WikiNext]_wikiVars, claim # None, claim' # claim
  PROVE  /\ Publisher \in Tasks /\ task[Publisher].job = claim
         /\ \/ task[Publisher].pc = "commit" /\ Commit /\ CompletePublication(claim)
            \/ task[Publisher].pc = "dropClaim" /\ FinishCancel
<1>1. ~ \E t \in Tasks : Works(t)
  BY WorkKeepsClaim
<1>2. Publisher \in Tasks /\ (Publishes \/ \E u \in Sources : StartApproval(u))
  BY <1>1 DEF WikiNext, TaskStep, Works, Person, ShowReview, ExcludeReview, EditFolder,
     RenameFile, Restart, RecoverInterruptedJobs, wikiVars, vars
<1>3. Commit \/ FinishCancel
  BY <1>2, NoneAssumption DEF Publishes, StartApproval, RecoverClaim, Approve, BeginPublication,
     ApproveFails, WritePage, WriteIndex, WriteLog, BeginCancel, MarkPublicationCancelling,
     DiscardPage, Unlist, RestoreDraft, MarkSourceFailed, vars
<1>4. task[Publisher].job = claim
  BY <1>2, <1>3 DEF Commit, FinishCancel, At, PassInv, PublisherHoldsClaim, Claiming, Materializing
<1> QED
  BY <1>2, <1>3, <1>4 DEF Commit, FinishCancel, At, vars

-------------------------------------------------------------------------------
(* Who answers for a document goes on doing so                                 *)

(* Nothing of s is left in the bundle, and nobody is about to list it.          *)
IsGone(s) ==
  /\ s \notin index /\ ~Stable(s)
  /\ \A u \in Tasks : task[u].pc \notin ListSteps

(* No task holds a list while another one keeps the lock and stops listing.     *)
LEMMA NobodyLists ==
  ASSUME WikiTyped, NEW t \in Tasks, guard \in {None, t}, task'[t].pc \notin ListSteps,
         \A u \in Tasks : u # t => task'[u] = task[u]
  PROVE  \A u \in Tasks : task'[u].pc \notin ListSteps
<1>1. \A u \in Tasks : task[u].pc \in ListSteps => guard = u
  BY DEF WikiTyped, LockIsHeld, ListSteps, LockedSteps
<1> QED
  BY <1>1, TaskAssumption

(* A pass withdraws what it has in hand.                                       *)
LEMMA InHandStays ==
  ASSUME Calm, BundleInv, PassInv, PagesFit, WikiTyped, LifecycleInv, [WikiNext]_wikiVars,
         NEW s \in Sources, source[s].linked, InHand(s), ~InHand(s)'
  PROVE  IsGone(s)'
<1>1. PICK t \in Tasks : /\ task[t].pc \in {"reread"} \union Withdrawals
                         /\ \E x \in task[t].purge : x.s = s
  BY DEF InHand
<1>2. PICK x \in task[t].purge : x.s = s
  BY <1>1
<1>3. /\ task \in [Tasks -> Work] /\ t \in Reconcilers /\ ListFits(t) /\ RemovalFits(t)
      /\ RowsFit(t)
  BY <1>1 DEF WikiTyped, TasksTyped, PassInv, TaskIsOrderly, RoleIsKept, PassSteps, BundleInv
<1>4. ASSUME task'[t].pc \in {"reread"} \union Withdrawals, x \in task'[t].purge PROVE FALSE
  BY <1>2, <1>4 DEF InHand
<1>5. Works(t) /\ \A u \in Tasks : u # t => task'[u] = task[u]
  <2>1. task'[t] # task[t]
    BY <1>1, <1>4
  <2>2. Works(t)
    BY <1>3, <2>1, WhoMoves DEF Reconcilers, Publisher
  <2> QED
    BY <2>2, WorkIsNoPublication
<1>6. \/ Reread(t) \/ Relist(t) \/ LogRemoval(t) \/ Withdrawn(t)
      \/ \E y \in task[t].purge : Unlink(t, y)
  BY <1>1, <1>5, CalmStep DEF Works, Starts, StartPass, Quarantine, Reconciles, HashFile,
     HashFails, QuarantineUnsafe, RegisterFile, ListSources, SweepLarge, SweepGone,
     SweepDead, EndSweep, Ingests, ClaimPending, Extract, Enrich, Save, Embed, WriteDraft,
     FinishIngest, EndScan, Reanalyzes, StartReanalysis, Regenerate, ReplaceDraft, ReplaceFails,
     Redraft, Abandon, At, Withdrawals
<1>7. CASE Reread(t)
  <2>1. task[t].pc = "reread" /\ source[task[t].s].sha = task[t].sha /\ task[t].s = s
    BY <1>2, <1>3, <1>7 DEF Reread, At, RowsFit, PagesFit, WithdrawsFirst
  <2>2. task' = [task EXCEPT ![t].pc = "withdraw", ![t].back = "register",
                             ![t].revision = source[s].revision]
    BY <1>7, <2>1 DEF Reread
  <2>3. task'[t].pc = "withdraw" /\ task'[t].purge = task[t].purge
    BY <1>3, <2>2 DEF Work
  <2> QED
    BY <1>4, <2>3 DEF Withdrawals
<1>8. CASE Relist(t)
  <2>1. task'[t].pc = "logRemoval" /\ task'[t].purge = task[t].purge
    BY <1>3, <1>8 DEF Relist, Goto, Work
  <2> QED
    BY <1>4, <2>1 DEF Withdrawals
<1>9. CASE LogRemoval(t)
  <2>1. PICK y \in task[t].purge :
          /\ y.s = task[t].s
          /\ task' = [task EXCEPT ![t].pc = "withdraw", ![t].purge = @ \ {y}]
    BY <1>9 DEF LogRemoval
  <2>2. task'[t].pc = "withdraw" /\ task'[t].purge = task[t].purge \ {y}
    BY <1>3, <2>1 DEF Work
  <2>3. y = x
    BY <1>4, <2>2 DEF Withdrawals
  <2>4. s \notin index /\ ~Stable(s) /\ UNCHANGED <<index, page>> /\ guard = t
    BY <1>2, <1>3, <1>9, <2>1, <2>3 DEF LogRemoval, At, RemovalFits, WikiTyped, LockIsHeld,
       LockedSteps
  <2> QED
    BY <1>5, <2>2, <2>4, NobodyLists DEF IsGone, Stable, ListSteps
<1>10. CASE Withdrawn(t)
  BY <1>2, <1>10 DEF Withdrawn
<1>11. CASE \E y \in task[t].purge : Unlink(t, y)
  <2>1. PICK y \in task[t].purge : Unlink(t, y)
    BY <1>11
  <2>2. CASE ~RemovalIsComplete(y)
    <3>1. task' = [task EXCEPT ![t].pc = "relist", ![t].listed = Published, ![t].s = y.s]
      BY <2>1, <2>2 DEF Unlink
    <3>2. task'[t].pc = "relist" /\ task'[t].purge = task[t].purge
      BY <1>3, <3>1 DEF Work
    <3> QED
      BY <1>4, <3>2 DEF Withdrawals
  <2>3. CASE RemovalIsComplete(y)
    <3>1. task' = [task EXCEPT ![t].purge = @ \ {y}] /\ task[t].pc = "withdraw"
      BY <2>1, <2>3 DEF Unlink, At
    <3>2. task'[t].pc = "withdraw" /\ task'[t].purge = task[t].purge \ {y}
      BY <1>3, <3>1 DEF Work
    <3>3. y = x
      BY <1>4, <3>2 DEF Withdrawals
    <3>4. s \notin index /\ ~Stable(s) /\ UNCHANGED <<index, page>> /\ guard \in {None, t}
      BY <1>2, <2>1, <2>3, <3>3 DEF Unlink, RemovalIsComplete, Stable, NoPage
    <3> QED
      BY <1>5, <3>2, <3>4, NobodyLists DEF IsGone, Stable, ListSteps
  <2> QED
    BY <2>2, <2>3
<1> QED
  BY <1>6, <1>7, <1>8, <1>9, <1>10, <1>11

(* A claim is kept until its document is published or has left the bundle.      *)
LEMMA ClaimedIsKept ==
  ASSUME Calm, BundleInv, PassInv, WikiTyped, LifecycleInv, [WikiNext]_wikiVars,
         NEW s \in Sources, Claimed(s), ~Claimed(s)'
  PROVE  source'[s].status = "published" \/ IsGone(s)'
<1>1. claim # None /\ job[claim].source = s /\ [Next]_vars
  BY WikiStep DEF Claimed
<1>2. claim' # claim
  BY <1>1, ClaimNamesTheSame DEF Claimed
<1>3. Publisher \in Tasks /\ task[Publisher].job = claim
  BY <1>1, <1>2, ClaimEnds
<1>4. CASE CompletePublication(claim)
  BY <1>1, <1>4, Typed DEF CompletePublication, MayCommit, Publishing, WithStatus, SourceRow
<1>5. CASE task[Publisher].pc = "dropClaim" /\ FinishCancel
  <2>1. s \notin index /\ ~Stable(s) /\ UNCHANGED <<index, page>> /\ guard = Publisher
    BY <1>1, <1>3, <1>5 DEF FinishCancel, bundle, BundleInv, RemovalFits, PassInv,
       PublisherHoldsClaim, WikiTyped, LockIsHeld, LockedSteps
  <2>2. task'[Publisher].pc = "restore" /\ \A u \in Tasks : u # Publisher => task'[u] = task[u]
    BY <1>3, <1>5 DEF FinishCancel, Goto, WikiTyped, TasksTyped, Work
  <2> QED
    BY <1>3, <2>1, <2>2, NobodyLists DEF IsGone, Stable, ListSteps
<1> QED
  BY <1>1, <1>2, <1>4, <1>5, ClaimEnds

(* Only what fails closed takes a published document back.                     *)
LEMMA PublishedEndures ==
  ASSUME LifecycleInv, NEW s \in Sources, source[s].status = "published",
         UNCHANGED vars \/ Ingest \/ Review \/ Publish
  PROVE  source'[s].status = "published"
<1>1. /\ source \in [Sources -> SourceRow] /\ concept[s].status = "published"
  BY Typed DEF LifecycleInv, RowsAgreeOnExposure
<1>2. CASE UNCHANGED vars
  BY <1>2 DEF vars
<1>3. CASE Ingest
  BY <1>1, <1>3 DEF Ingest, ClaimIngestJob, MarkExtracted, MarkEnriched, SaveEnrichment,
     ReplaceChunks, CompleteIngestJob, FailIngestJob, IngestOwns, WithStatus, SourceRow
<1>4. CASE Review
  BY <1>1, <1>4 DEF Review, ShowReview, ExcludeReview, BeginReanalysis, CompleteReanalysis,
     FailReanalysis, AwaitingReview, Reanalyzing, WithStatus, SourceRow
<1>5. CASE Publish
  BY <1>1, <1>5 DEF Publish, BeginPublication, CompletePublication, MarkPublicationCancelling,
     FinishPublicationCancellation, ReturnClaimed, MayCommit, Publishing, MatchesReviewed,
     AwaitingReview, WithStatus, SourceRow
<1> QED
  BY <1>2, <1>3, <1>4, <1>5

(* Then its page is in the hands of the pass that does.                        *)
LEMMA TakenInHand ==
  ASSUME Calm, BundleInv, PassInv, WikiTyped, LifecycleInv, [WikiNext]_wikiVars,
         NEW s \in Sources, source[s].status = "published", source'[s].status # "published"
  PROVE  InHand(s)'
<1>1. /\ task \in [Tasks -> Work] /\ source \in [Sources -> SourceRow]
      /\ concept[s].status = "published" /\ Exists(s) /\ source[s].linked
  BY Typed, ExposedIsLinked DEF WikiTyped, TasksTyped, LifecycleInv, RowsAgreeOnExposure, Exists
<1>2. ~(UNCHANGED vars \/ Ingest \/ Review \/ Publish)
  BY PublishedEndures
<1>3. ASSUME NEW t \in Tasks, task'[t].pc \in {"reread", "withdraw"}, NEW x \in task'[t].purge,
             x.s = s
      PROVE  InHand(s)'
  BY <1>3 DEF InHand, Withdrawals
<1>4. ASSUME NEW t \in Tasks, QuarantineFolder(t) PROVE InHand(s)'
  <2>1. task' = [task EXCEPT ![t].pc = "withdraw", ![t].back = "quarantined",
          ![t].purge = {[s |-> u, sha |-> source[u].sha] :
                          u \in {u \in Sources : source[u].status = "published"}}]
    BY <1>4 DEF QuarantineFolder
  <2>2. /\ task'[t].pc = "withdraw"
        /\ task'[t].purge = {[s |-> u, sha |-> source[u].sha] :
                               u \in {u \in Sources : source[u].status = "published"}}
    BY <1>1, <2>1 DEF Work
  <2>3. [s |-> s, sha |-> source[s].sha] \in task'[t].purge
    BY <2>2
  <2> QED
    BY <1>3, <2>2, <2>3
<1>5. ASSUME NEW t \in Tasks, RegisterFile(t) PROVE InHand(s)'
  <2> DEFINE p == task[t].p
             h == task[t].sha
  <2>1. PICK u \in Sources :
          \/ RegisterUnchanged(u, p, h) /\ UNCHANGED vars
          \/ RegisterRetry(u, p, h)
          \/ /\ RegisterReplaced(u, p, h)
             /\ task' = [task EXCEPT ![t].pc = "reread", ![t].s = u,
                                     ![t].purge = {[s |-> u, sha |-> source[u].sha]}]
          \/ RegisterMoved(u, p, h, {q \in Paths : folder[q] = None})
          \/ RegisterNew(u, p, h, {q \in Paths : folder[q] = None})
    BY <1>5 DEF RegisterFile
  <2>2. /\ RegisterReplaced(s, p, h)
        /\ task' = [task EXCEPT ![t].pc = "reread", ![t].s = s,
                                ![t].purge = {[s |-> s, sha |-> source[s].sha]}]
    BY <1>1, <1>2, <2>1 DEF RegisterRetry, RegisterUnchanged, RegisterReplaced, RegisterMoved,
       RegisterNew, Settled, SourceRow
  <2>3. task'[t].pc = "reread" /\ task'[t].purge = {[s |-> s, sha |-> source[s].sha]}
    BY <1>1, <2>2 DEF Work
  <2>4. [s |-> s, sha |-> source[s].sha] \in task'[t].purge
    BY <2>3
  <2> QED
    BY <1>3, <2>3, <2>4
<1>6. ASSUME NEW t \in Tasks, NEW row, row.s = s, RemovePageOf(t, row) PROVE InHand(s)'
  <2>1. task'[t].pc = "withdraw" /\ task'[t].purge = {[s |-> s, sha |-> row.sha]}
    BY <1>1, <1>6 DEF RemovePageOf, Work
  <2>2. [s |-> s, sha |-> row.sha] \in task'[t].purge
    BY <2>1
  <2> QED
    BY <1>3, <2>1, <2>2
<1>7. ASSUME NEW t \in Tasks, NEW row \in pass[t].large, SweepLarge(t, row) PROVE InHand(s)'
  <2>1. row \in Rows /\ QuarantineSource(row.s)
    BY <1>2, <1>7, SweptRows DEF SweepLarge, vars
  <2>2. row.s = s
    BY <1>1, <2>1 DEF QuarantineSource, WithStatus, SourceRow
  <2>3. RemovePageOf(t, [row EXCEPT !.sha = source[row.s].sha])
    BY <1>2, <1>7, <2>2 DEF SweepLarge
  <2>4. [row EXCEPT !.sha = source[row.s].sha].s = s
    BY <2>1, <2>2 DEF Rows
  <2> QED
    BY <1>6, <2>3, <2>4
<1>8. ASSUME NEW t \in Tasks, NEW row \in pass[t].gone, SweepGone(t, row) PROVE InHand(s)'
  <2>1. row.s = s
    BY <1>1, <1>8 DEF SweepGone, MarkDeleted, WithStatus, SourceRow
  <2>2. row.linked
    BY <1>1, <1>8, <2>1 DEF SweepGone, At, BundleInv, RowsFit, Sweeps
  <2> QED
    BY <1>6, <1>8, <2>1, <2>2 DEF SweepGone
<1>9. ASSUME NEW t \in Tasks, Starts(t) \/ Reconciles(t) PROVE InHand(s)'
  <2>1. UNCHANGED <<vars, bundle>> => UNCHANGED vars
    BY DEF vars
  <2> QED
    BY <1>2, <1>4, <1>5, <1>7, <1>8, <1>9 DEF Starts, StartPass, Quarantine, Reconciles, HashFile,
       HashFails, QuarantineUnsafe, Reread, ListSources, SweepDead, EndSweep, Unlink, Relist,
       LogRemoval, Withdrawn, WithdrawFails
<1>10. ASSUME NEW u \in Sources, MarkSourceFailed(u) PROVE u = s
  BY <1>1, <1>10 DEF MarkSourceFailed, WithStatus, SourceRow
<1>11. ASSUME NEW t \in Tasks, Ingests(t) PROVE FALSE
  <2>1. \A r \in pass[t].pending : r.s \in Sources
    BY PassOf DEF Passes, Pendings
  <2> QED
    BY <1>2, <1>11, <2>1, IngestTransactions DEF Ingest, Prepare
<1>12. ASSUME NEW t \in Tasks,
              Reanalyzes(t) \/ \E u \in Sources, j \in Jobs : StartReanalysis(t, u, j)
       PROVE  FALSE
  <2>1. task[t].pc \in ReanalysisSteps => task[t].job \in Jobs /\ task[t].s \in Sources
    BY PassOf DEF IsNamed
  <2>2. Redraft(t) /\ MarkSourceFailed(task[t].s)
    BY <1>2, <1>12, <2>1 DEF Reanalyzes, StartReanalysis, Regenerate, ReplaceDraft, ReplaceFails,
       Redraft, Abandon, Review, At, ReanalysisSteps
  <2> QED
    BY <1>10, <2>1, <2>2 DEF Redraft, At, ReanalysisSteps, BundleInv, DraftFits
<1>13. ASSUME Publisher \in Tasks, Publishes \/ \E u \in Sources : StartApproval(u) PROVE FALSE
  <2> DEFINE j == task[Publisher].job
  <2>1. task[Publisher].pc \in PublisherSteps => j \in Jobs /\ job[j].source \in Sources
    BY <1>13, PublisherWork
  <2>2. task[Publisher].pc = "approve" => task[Publisher].s \in Sources
    BY <1>13, PublisherWork
  <2>3. \A i \in Jobs, d \in Drafts : ~Approve(i, d)
    BY <1>2, <2>2 DEF Approve, At, Publish
  <2>4. ~(Commit \/ BeginCancel \/ FinishCancel)
    BY <1>2, <2>1 DEF Commit, BeginCancel, FinishCancel, At, PublisherSteps, Publish
  <2>5. RestoreDraft /\ MarkSourceFailed(job[j].source)
    BY <1>2, <1>13, <2>3, <2>4 DEF Publishes, StartApproval, RecoverClaim, ApproveFails, WritePage,
       WriteIndex, WriteLog, DiscardPage, Unlist, RestoreDraft
  <2> QED
    BY <1>10, <1>13, <2>1, <2>5 DEF RestoreDraft, At, PublisherSteps, BundleInv, DraftFits
<1>14. ~Restart
  BY CalmStep
<1> QED
  BY <1>2, <1>9, <1>11, <1>12, <1>13, <1>14 DEF WikiNext, TaskStep, wikiVars, Person, EditFolder,
     RenameFile, Review

(* So somebody answers for a document as long as the bundle shows it.           *)
LEMMA KeptStays ==
  ASSUME Calm, BundleInv, PassInv, PagesFit, WikiTyped, LifecycleInv, [WikiNext]_wikiVars,
         NEW s \in Sources, Kept(s)
  PROVE  Kept(s)' \/ IsGone(s)'
<1>1. source[s].linked /\ source'[s].linked
  BY WikiStep, TablesMove DEF Kept, Moves
<1>2. CASE source[s].status = "published"
  BY <1>1, <1>2, TakenInHand DEF Kept
<1>3. CASE InHand(s)
  BY <1>1, <1>3, InHandStays DEF Kept
<1>4. CASE Claimed(s)
  BY <1>1, <1>4, ClaimedIsKept DEF Kept
<1> QED
  BY <1>2, <1>3, <1>4 DEF Kept

-------------------------------------------------------------------------------
(* A step keeps the bundle in order: what it shows                             *)

LEMMA ShownIsKept ==
  ASSUME Calm, BundleInv, PassInv, PagesFit, WikiTyped, LifecycleInv, [WikiNext]_wikiVars,
         NEW s \in Sources, s \in index' \/ Stable(s)'
  PROVE  Kept(s)'
<1>1. Kept(s) => Kept(s)'
  BY KeptStays DEF IsGone
<1>2. CASE s \in index \/ Stable(s)
  BY <1>1, <1>2 DEF BundleInv
<1>3. CASE s \in index' /\ s \notin index
  <2>1. PICK t \in Tasks : task[t].pc \in ListSteps /\ index' = task[t].listed
    BY <1>3, IndexChanges
  <2> QED
    BY <1>1, <1>3, <2>1 DEF BundleInv, ListFits
<1>4. CASE Stable(s)' /\ ~Stable(s)
  <2>1. UNCHANGED vars /\ claim \in Jobs /\ job[claim].source = s /\ source[s].status = "publishing"
    BY <1>4, OnlyThePublisherPrints DEF PassInv, Stable
  <2> QED
    BY <2>1, ExposedIsLinked, NoneAssumption DEF vars, Kept, Claimed
<1> QED
  BY <1>2, <1>3, <1>4

LEMMA PublishedIsListed ==
  ASSUME BundleInv, MaterializationFits, WikiTyped, LifecycleInv, [WikiNext]_wikiVars
  PROVE  Published' \subseteq index'
<1> SUFFICES ASSUME NEW s \in Sources, concept'[s].status = "published" PROVE s \in index'
  BY DEF Published
<1>1. LifecycleInv'
  BY WikiStep, StepKeepsInv
<1>2. source'[s].status = "published"
  BY <1>1 DEF LifecycleInv, RowsAgreeOnExposure
<1>3. CASE source[s].status # "published"
  BY <1>2, <1>3, PublishedByCommit DEF bundle
<1>4. CASE source[s].status = "published"
  <2>1. s \in Published
    BY <1>4 DEF Published, LifecycleInv, RowsAgreeOnExposure
  <2>2. CASE index' = index
    BY <2>1, <2>2 DEF BundleInv
  <2>3. CASE index' # index
    <3>1. PICK t \in Tasks : task[t].pc \in ListSteps /\ index' = task[t].listed
      BY <2>3, IndexChanges
    <3> QED
      BY <2>1, <3>1 DEF BundleInv, ListFits
  <2> QED
    BY <2>2, <2>3
<1> QED
  BY <1>3, <1>4

(* What takes a task to a step of a removal, or to one that writes the index.   *)
LEMMA ListsBegin ==
  ASSUME Calm, PassInv, WikiTyped, LifecycleInv, [WikiNext]_wikiVars, NEW u \in Tasks,
         task'[u] # task[u], task'[u].pc \in ListSteps \union {"logRemoval", "dropClaim"}
  PROVE  \/ \E x \in task[u].purge : Unlink(u, x) /\ ~RemovalIsComplete(x)
         \/ Relist(u)
         \/ u = Publisher /\ (DiscardPage \/ Unlist \/ (WritePage /\ ClaimIsCurrent(task[u].job)))
<1>1. task \in [Tasks -> Work]
  BY DEF WikiTyped, TasksTyped
<1>2. task'[u].pc \notin {"idle", "register", "registering", "reread", "withdraw", "sweep",
        "unsafe", "process", "draft", "approve", "log", "commit", "cancel", "discard", "restore", "recover",
        "page"} \union IngestSteps \union ReanalysisSteps
  BY DEF ListSteps, IngestSteps, ReanalysisSteps
<1>3. ASSUME Works(u), u # Publisher
      PROVE  Relist(u) \/ \E x \in task[u].purge : Unlink(u, x) /\ ~RemovalIsComplete(x)
  <2>1. ~Starts(u) /\ ~QuarantineUnsafe(u)
    <3>1. StartPass(u) => task'[u].pc = "register"
      BY <1>1 DEF StartPass, Goto, Work
    <3>2. QuarantineFolder(u) => task'[u].pc = "withdraw"
      BY <1>1 DEF QuarantineFolder, Work
    <3> QED
      BY <1>2, <3>1, <3>2 DEF Starts, Quarantine, QuarantineUnsafe
  <2>2. ~RegisterFile(u) /\ ~Reread(u)
    <3>1. ASSUME RegisterFile(u) \/ Reread(u)
          PROVE  \/ NextFile(u)
                 \/ \E s, purge : task' = [task EXCEPT ![u].pc = "reread", ![u].s = s,
                                                      ![u].purge = purge]
                 \/ task' = [task EXCEPT ![u].pc = "withdraw", ![u].back = "register",
                                         ![u].revision = source[task[u].s].revision]
      BY <3>1 DEF RegisterFile, Reread
    <3>2. NextFile(u) => task'[u].pc = "register"
      BY <1>1 DEF NextFile, Idle
    <3>3. \A s, purge : task' = [task EXCEPT ![u].pc = "reread", ![u].s = s, ![u].purge = purge]
            => task'[u].pc = "reread"
      BY <1>1 DEF Work
    <3>4. task' = [task EXCEPT ![u].pc = "withdraw", ![u].back = "register",
                               ![u].revision = source[task[u].s].revision]
            => task'[u].pc = "withdraw"
      BY <1>1 DEF Work
    <3> QED
      BY <1>2, <3>1, <3>2, <3>3, <3>4
  <2>3. \A p \in Paths : ~HashFile(u, p) /\ ~HashFails(u, p)
    BY <1>1, <1>2 DEF HashFile, HashFails, Work
  <2>4. ~ListSources(u) /\ ~EndSweep(u)
    <3>1. ListSources(u) \/ EndSweep(u) =>
            (\E pc \in {"sweep", "process"} : Goto(u, pc)) \/ task' = [task EXCEPT ![u] = Idle]
      BY DEF ListSources, EndSweep
    <3> QED
      BY <1>1, <1>2, <3>1 DEF Goto, Idle, Work
  <2>5. \A row : ~SweepLarge(u, row) /\ ~SweepGone(u, row) /\ ~SweepDead(u, row)
    BY <1>1, <1>2 DEF SweepLarge, SweepGone, SweepDead, RemovePageOf, Work
  <2>6. ~LogRemoval(u)
    <3>1. LogRemoval(u) => \E x : task' = [task EXCEPT ![u].pc = "withdraw", ![u].purge = @ \ {x}]
      BY DEF LogRemoval
    <3> QED
      BY <1>1, <1>2, <3>1 DEF Work
  <2>7. ~Withdrawn(u)
    <3>1. Withdrawn(u) => task[u].back \in {"register", "sweep", "quarantined"}
      BY PassOf DEF Withdrawn, At, IsNamed, Withdrawals
    <3>2. Withdrawn(u) => \/ NextFile(u)
                         \/ task' = [task EXCEPT ![u] = [Idle EXCEPT !.pc = "sweep"]]
                         \/ task' = [task EXCEPT ![u] = Idle]
      BY <3>1 DEF Withdrawn
    <3> QED
      BY <1>1, <1>2, <3>2 DEF NextFile, Idle
  <2>8. \A x \in task[u].purge : Unlink(u, x) => ~RemovalIsComplete(x)
    <3> SUFFICES ASSUME NEW x \in task[u].purge, Unlink(u, x), RemovalIsComplete(x) PROVE FALSE
      OBVIOUS
    <3>1. task' = [task EXCEPT ![u].purge = @ \ {x}] /\ task[u].pc = "withdraw"
      BY DEF Unlink, At
    <3> QED
      BY <1>1, <1>2, <3>1 DEF Work
  <2>9. ~Ingests(u)
    <3>1. \A r \in pass[u].pending : ~ClaimPending(u, r)
      <4> SUFFICES ASSUME NEW r \in pass[u].pending, ClaimPending(u, r) PROVE FALSE
        OBVIOUS
      <4>1. \E j : task' = [task EXCEPT ![u] =
                 [Idle EXCEPT !.pc = "extract", !.s = r.s, !.p = r.p, !.sha = r.sha,
                              !.revision = r.revision, !.job = j]]
        BY DEF ClaimPending
      <4> QED
        BY <1>1, <1>2, <4>1 DEF Idle, IngestSteps
    <3>2. ~(FinishIngest(u) \/ EndScan(u))
      BY <1>1, <1>2 DEF FinishIngest, EndScan, Idle
    <3>3. ~(Extract(u) \/ Enrich(u) \/ Save(u) \/ Embed(u) \/ WriteDraft(u))
      BY <1>1, <1>2 DEF Extract, Enrich, Save, Embed, WriteDraft, Goto, IngestSteps, Work
    <3> QED
      BY <3>1, <3>2, <3>3 DEF Ingests
  <2>10. ~(Reanalyzes(u) \/ \E s \in Sources, j \in Jobs : StartReanalysis(u, s, j))
    <3>1. Reanalyzes(u) => \/ \E pc \in {"replace", "redraft", "abandon"} : Goto(u, pc)
                           \/ task' = [task EXCEPT ![u] = Idle]
      BY DEF Reanalyzes, Regenerate, ReplaceDraft, ReplaceFails, Redraft, Abandon
    <3>2. \A s, j : StartReanalysis(u, s, j) => task'[u].pc = "regenerate"
      BY <1>1 DEF StartReanalysis, Idle
    <3> QED
      BY <1>1, <1>2, <3>1, <3>2 DEF Goto, Idle, ReanalysisSteps, Work
  <2> QED
    BY <1>3, <2>1, <2>2, <2>3, <2>4, <2>5, <2>6, <2>7, <2>8, <2>9, <2>10, CalmStep
       DEF Works, Reconciles
<1>4. ASSUME u = Publisher, Publishes \/ \E s \in Sources : StartApproval(s)
      PROVE  DiscardPage \/ Unlist \/ (WritePage /\ ClaimIsCurrent(task[u].job))
  <2>1. PublisherEnds => task'[u].pc = "idle"
    BY <1>1, <1>4 DEF PublisherEnds, Idle
  <2>2. PublisherFails => task'[u].pc \in {"idle", "cancel"}
    BY <1>1, <1>4, <2>1 DEF PublisherFails, Goto, Work
  <2>3. PublisherGoesOn => task'[u].pc \in {"idle", "approve"}
    BY <1>1, <1>4, <2>1 DEF PublisherGoesOn, Work
  <2>4. ~ \E s \in Sources : StartApproval(s)
    BY <1>1, <1>2, <1>4 DEF StartApproval, LoadedClaim, Idle
  <2>5. ~(RecoverClaim \/ ApproveFails \/ Commit \/ RestoreDraft \/ BeginCancel \/ FinishCancel)
    BY <1>1, <1>2, <1>4, <2>1, <2>2, <2>3 DEF RecoverClaim, ApproveFails, Commit, RestoreDraft,
       BeginCancel, FinishCancel, Goto, Work
  <2>6. \A j, d : ~Approve(j, d)
    BY <1>1, <1>2, <1>4 DEF Approve, Work
  <2>7. ~WriteLog
    BY <1>1, <1>2, <1>4, <2>2 DEF WriteLog, Goto, Work
  <2>8. ~WriteIndex
    <3>1. WriteIndex => Goto(u, "log") \/ PublisherFails
      BY <1>4 DEF WriteIndex
    <3> QED
      BY <1>1, <1>2, <2>2, <3>1 DEF Goto, Work
  <2>9. WritePage => ClaimIsCurrent(task[u].job)
    BY <1>2, <1>4, <2>2 DEF WritePage
  <2> QED
    BY <1>4, <2>4, <2>5, <2>6, <2>7, <2>8, <2>9 DEF Publishes
<1> QED
  BY <1>3, <1>4, WhoMoves


LEMMA ListStays ==
  ASSUME Calm, BundleInv, PassInv, PagesFit, MaterializationFits, WikiTyped, LifecycleInv,
         [WikiNext]_wikiVars, NEW u \in Tasks
  PROVE  ListFits(u)'
<1> SUFFICES ASSUME task'[u].pc \in ListSteps
             PROVE  Published' \subseteq task'[u].listed /\ \A s \in task'[u].listed : Kept(s)'
  BY DEF ListFits
<1>1. task \in [Tasks -> Work] /\ LifecycleInv'
  BY WikiStep, StepKeepsInv DEF WikiTyped, TasksTyped
<1>2. \A s : ~IsGone(s)'
  BY DEF IsGone
<1>3. CASE task'[u] = task[u]
  <2>1. task[u].pc \in LockedSteps /\ task[u].listed \subseteq Sources /\ ListFits(u)
    BY <1>1, <1>3 DEF ListSteps, LockedSteps, Work, BundleInv
  <2>2. Published' \subseteq Published
    BY <1>1, <1>3, <2>1, LockedRest DEF Published, LifecycleInv, RowsAgreeOnExposure
  <2>3. \A s \in task[u].listed : Kept(s)'
    BY <1>2, <1>3, <2>1, KeptStays DEF ListFits
  <2> QED
    BY <1>3, <2>1, <2>2, <2>3 DEF ListFits
<1>4. ASSUME UNCHANGED vars PROVE Published' = Published /\ \A s \in Published : Kept(s)'
  BY <1>4, ExposedIsLinked DEF vars, Published, Kept, LifecycleInv, RowsAgreeOnExposure
<1>5. CASE \E x \in task[u].purge : Unlink(u, x) /\ ~RemovalIsComplete(x)
  <2>1. PICK x \in task[u].purge :
          /\ task' = [task EXCEPT ![u].pc = "relist", ![u].listed = Published, ![u].s = x.s]
          /\ UNCHANGED vars
    BY <1>5 DEF Unlink, vars
  <2>2. task'[u].listed = Published
    BY <1>1, <2>1 DEF Work
  <2> QED
    BY <1>4, <2>1, <2>2
<1>6. CASE Relist(u)
  <2>1. task'[u].pc = "logRemoval"
    BY <1>1, <1>6 DEF Relist, Goto, Work
  <2> QED
    BY <2>1 DEF ListSteps
<1>7. CASE u = Publisher /\ DiscardPage
  <2>1. PublisherEnds => task'[u].pc = "idle"
    BY <1>1, <1>7 DEF PublisherEnds, Idle
  <2>2. /\ task' = [task EXCEPT ![u].pc = "unlist", ![u].listed = Published]
        /\ UNCHANGED vars
    BY <1>7, <2>1 DEF DiscardPage, vars, ListSteps
  <2>3. task'[u].listed = Published
    BY <1>1, <2>2 DEF Work
  <2> QED
    BY <1>4, <2>2, <2>3
<1>8. CASE u = Publisher /\ Unlist
  <2>1. task'[u].pc \in {"idle", "dropClaim"}
    BY <1>1, <1>8 DEF Unlist, PublisherEnds, Idle, Goto, Work
  <2> QED
    BY <2>1 DEF ListSteps
<1>9. CASE u = Publisher /\ WritePage /\ ClaimIsCurrent(task[u].job)
  <2> PICK d : d = job[task[u].job].source
    OBVIOUS
  <2>1. PublisherFails => task'[u].pc \in {"idle", "cancel"}
    BY <1>1, <1>9 DEF PublisherFails, PublisherEnds, Idle, Goto, Work
  <2>2. /\ task' = [task EXCEPT ![u].pc = "index", ![u].listed = Published \union {d}]
        /\ UNCHANGED vars
    BY <1>9, <2>1 DEF WritePage, vars, ListSteps
  <2>3. task'[u].listed = Published \union {d}
    BY <1>1, <2>2 DEF Work
  <2>4. task[u].pc = "page" /\ claim = task[u].job /\ source[d].status = "publishing"
    BY <1>9 DEF WritePage, At, ClaimIsCurrent, Publishing
  <2>5. d \in Sources /\ claim # None
    BY <1>9, <2>4, PublisherWork, NoneAssumption DEF PublisherSteps
  <2>6. Kept(d)'
    BY <2>2, <2>4, <2>5, ExposedIsLinked DEF vars, Kept, Claimed
  <2> QED
    BY <1>4, <2>2, <2>3, <2>6
<1> QED
  BY <1>3, <1>5, <1>6, <1>7, <1>8, <1>9, ListsBegin

LEMMA RemovalStays ==
  ASSUME Calm, BundleInv, PassInv, MaterializationFits, WikiTyped, LifecycleInv,
         [WikiNext]_wikiVars, NEW u \in Tasks
  PROVE  RemovalFits(u)'
<1> SUFFICES ASSUME task'[u].pc \in {"relist", "logRemoval", "unlist", "dropClaim"}
             PROVE  RemovalFits(u)'
  BY DEF RemovalFits
<1> DEFINE w == task[u]
<1>1. /\ task \in [Tasks -> Work] /\ RemovalFits(u)
      /\ page \in [Sources -> {NoPage} \union [kind : {"draft", "stable"}, version : Version]]
  BY DEF WikiTyped, TasksTyped, FilesTyped, BundleInv
<1>2. CASE task'[u] = w
  <2>1. w.pc \in LockedSteps
    BY <1>2 DEF LockedSteps
  <2>2. index' = index /\ \A s \in Sources : Stable(s)' => Stable(s)
    BY <1>2, <2>1, LockedRest
  <2>3. CASE w.pc \in {"relist", "logRemoval"}
    BY <1>1, <1>2, <2>2, <2>3 DEF RemovalFits
  <2>4. CASE w.pc \in {"unlist", "dropClaim"}
    <3>1. u = Publisher
      BY <1>1, <2>4 DEF RemovalFits
    <3>2. claim = w.job /\ claim # None /\ claim \in Jobs
      BY <2>4, <3>1, PublisherWork, NoneAssumption
         DEF PublisherSteps, PassInv, PublisherHoldsClaim, Claiming
    <3>3. claim' = claim
      <4>1. ~FinishCancel
        <5>1. FinishCancel => task'[u].pc = "restore" /\ w.pc = "dropClaim"
          BY <1>1, <3>1 DEF FinishCancel, Goto, At, Work
        <5> QED
          BY <1>2, <5>1
      <4> QED
        BY <2>4, <3>2, <3>1, <4>1, ClaimEnds
    <3>4. job'[claim].source = job[claim].source
      BY <3>2, <3>3, WikiStep, ClaimNamesTheSame
    <3> QED
      BY <1>1, <1>2, <2>2, <2>4, <3>3, <3>4 DEF RemovalFits
  <2> QED
    BY <1>2, <2>3, <2>4
<1>3. CASE \E x \in w.purge : Unlink(u, x) /\ ~RemovalIsComplete(x)
  <2>1. PICK x \in w.purge :
          /\ task' = [task EXCEPT ![u].pc = "relist", ![u].listed = Published, ![u].s = x.s]
          /\ page' = [page EXCEPT ![x.s] = NoPage] /\ w.pc = "withdraw"
    BY <1>3 DEF Unlink, At
  <2>2. task'[u].pc = "relist" /\ task'[u].listed = Published /\ task'[u].s = x.s
    BY <1>1, <2>1 DEF Work
  <2>3. x.s \in Sources /\ Out(x.s)
    BY <2>1, NamedDocuments DEF PassInv, TaskIsOrderly, PurgesOutDocuments, Withdrawals
  <2>4. x.s \notin Published
    BY <2>3 DEF Out, OutStatuses, Published, LifecycleInv, RowsAgreeOnExposure
  <2>5. ~Stable(x.s)'
    BY <1>1, <2>1, <2>3 DEF Stable, NoPage
  <2> QED
    BY <2>2, <2>3, <2>4, <2>5 DEF RemovalFits
<1>4. CASE Relist(u)
  <2>1. w.pc = "relist" /\ index' = w.listed /\ UNCHANGED page /\ Goto(u, "logRemoval")
    BY <1>4 DEF Relist, At
  <2>2. task'[u].pc = "logRemoval" /\ task'[u].s = w.s
    BY <1>1, <2>1 DEF Goto, Work
  <2> QED
    BY <1>1, <2>1, <2>2 DEF RemovalFits, Stable
<1>5. CASE u = Publisher /\ DiscardPage
  <2>1. PublisherEnds => task'[u].pc = "idle"
    BY <1>1, <1>5 DEF PublisherEnds, Idle
  <2>2. /\ task' = [task EXCEPT ![u].pc = "unlist", ![u].listed = Published]
        /\ w.pc = "discard" /\ UNCHANGED vars
    BY <1>5, <2>1 DEF DiscardPage, At, vars
  <2>3. task'[u].pc = "unlist" /\ task'[u].listed = Published
    BY <1>1, <2>2 DEF Work
  <2>4. claim = w.job /\ claim # None
    BY <1>5, <2>2, PublisherWork, NoneAssumption
       DEF PublisherSteps, PassInv, PublisherHoldsClaim, Claiming
  <2>5. job[claim].source \notin Published
    BY <2>4 DEF PassInv, ClaimedIsNotPublished, Published, LifecycleInv, RowsAgreeOnExposure
  <2> QED
    BY <1>5, <2>2, <2>3, <2>5 DEF RemovalFits, vars
<1>6. CASE u = Publisher /\ Unlist
  <2>1. PublisherEnds => task'[u].pc = "idle"
    BY <1>1, <1>6 DEF PublisherEnds, Idle
  <2>2. /\ Goto(u, "dropClaim") /\ index' = w.listed /\ w.pc = "unlist" /\ UNCHANGED vars
    BY <1>6, <2>1 DEF Unlist, At, vars
  <2>3. task'[u].pc = "dropClaim"
    BY <1>1, <2>2 DEF Goto, Work
  <2> QED
    BY <1>1, <2>2, <2>3 DEF RemovalFits, vars
<1>7. CASE u = Publisher /\ WritePage /\ ClaimIsCurrent(w.job)
  <2>1. task'[u].pc \in {"idle", "cancel", "index"}
    BY <1>1, <1>7 DEF WritePage, PublisherFails, PublisherEnds, Idle, Goto, Work
  <2> QED
    BY <2>1
<1> QED
  BY <1>2, <1>3, <1>4, <1>5, <1>6, <1>7, ListsBegin DEF ListSteps


(* A job that a task holds stays of its document.                              *)
LEMMA HeldJobStays ==
  ASSUME WikiTyped, LifecycleInv, [WikiNext]_wikiVars, NEW u \in Tasks, task[u].job \in Jobs
  PROVE  job'[task[u].job].source = job[task[u].job].source
<1> DEFINE i == task[u].job
           Stays == job'[i].source = job[i].source
<1>1. i \in Jobs /\ job \in [Jobs -> JobRow] /\ task \in [Tasks -> Work]
  BY Typed DEF WikiTyped, TasksTyped
<1>2. \A j : \A kind, s : StartJob(j, kind, s) /\ FreeJob(j) => Stays
  BY <1>1 DEF StartJob, FreeJob
<1>3. \A j : FinishJob(j) => Stays
  BY <1>1 DEF FinishJob, JobRow
<1>4. \A S, status : Withdraw(S, status) => Stays
  BY <1>1 DEF Withdraw, CancelPublication, SupersedeIngest, JobRow
<1>5. UNCHANGED vars => Stays
  BY DEF vars
<1>6. \A j : MarkPublicationCancelling(j) => Stays
  BY <1>1 DEF MarkPublicationCancelling, JobRow
<1>7. CASE \E t \in Tasks : Starts(t) \/ Reconciles(t)
  <2>1. Register => Stays
    BY <1>4 DEF Register, RegisterRetry, RegisterReplaced, RegisterMoved, RegisterNew
  <2>2. QuarantineCollection \/ (\E s \in Sources : MarkDeleted(s) \/ QuarantineSource(s)) => Stays
    BY <1>4 DEF QuarantineCollection, MarkDeleted, QuarantineSource
  <2> QED
    BY <1>5, <1>7, <2>1, <2>2, PassTransactions
<1>8. CASE \E t \in Tasks : Ingests(t)
  <2>1. CASE \E t \in Tasks : \E r \in pass[t].pending : ClaimPending(t, r)
    <3>1. UNCHANGED vars \/ \E j, s : FreeJob(j) /\ ClaimIngestJob(j, s)
      BY <2>1 DEF ClaimPending, vars
    <3> QED
      BY <1>2, <1>5, <3>1 DEF ClaimIngestJob
  <2>2. CASE \E t \in Tasks : FinishIngest(t)
    <3>1. \/ UNCHANGED vars
          \/ \E j : CompleteIngestJob(j) \/ \E failed : FailIngestJob(j, failed)
      BY <2>2 DEF FinishIngest
    <3> QED
      BY <1>3, <1>5, <3>1 DEF CompleteIngestJob, FailIngestJob
  <2> QED
    BY <1>5, <1>8, <2>1, <2>2 DEF Ingests, Extract, MarkExtracted, Enrich, MarkEnriched, Save,
       SaveEnrichment, Embed, ReplaceChunks, WriteDraft, EndScan
<1>9. CASE \E t \in Tasks : \/ Reanalyzes(t)
                            \/ \E s \in Sources, j \in Jobs : StartReanalysis(t, s, j)
  BY <1>2, <1>3, <1>5, <1>9 DEF Reanalyzes, Regenerate, ReplaceDraft, CompleteReanalysis,
     ReplaceFails, Redraft, MarkSourceFailed, Abandon, FailReanalysis, StartReanalysis,
     BeginReanalysis
<1>10. CASE Publishes \/ \E s \in Sources : StartApproval(s)
  BY <1>2, <1>3, <1>5, <1>6, <1>10 DEF Publishes, StartApproval, RecoverClaim, Approve,
     BeginPublication, ApproveFails, WritePage, WriteIndex, WriteLog, Commit, CompletePublication,
     BeginCancel, DiscardPage, Unlist, FinishCancel, FinishPublicationCancellation, RestoreDraft,
     MarkSourceFailed
<1>11. CASE Restart
  BY <1>1, <1>11 DEF Restart, RecoverInterruptedJobs, JobRow
<1>12. CASE \/ UNCHANGED wikiVars
            \/ \E s \in Sources : Person(s)
            \/ \E p \in Paths, content \in Hashes \union {None} : EditFolder(p, content)
            \/ \E p, q \in Paths : RenameFile(p, q)
  BY <1>5, <1>12 DEF wikiVars, Person, ShowReview, ExcludeReview, EditFolder, RenameFile
<1> QED
  BY <1>7, <1>8, <1>9, <1>10, <1>11, <1>12 DEF WikiNext, TaskStep


(* Who reanalyzes is no pass.                                                  *)
LEMMA WhoReanalyzes ==
  ASSUME PassInv, WikiTyped, LifecycleInv, NEW u \in Tasks, u = "reanalysis", Works(u)
  PROVE  Reanalyzes(u) \/ \E s \in Sources, j \in Jobs : StartReanalysis(u, s, j)
<1>1. RoleIsKept(u)
  BY DEF PassInv, TaskIsOrderly
<1>2. Reconciles(u) => task[u].pc \in PassSteps
  BY DEF Reconciles, HashFile, HashFails, QuarantineUnsafe, RegisterFile, Reread, ListSources,
     SweepLarge, SweepGone, SweepDead, EndSweep, Unlink, Relist, LogRemoval, Withdrawn,
     WithdrawFails, At, PassSteps, Withdrawals
<1>3. ~Starts(u) /\ ~Reconciles(u) /\ ~Ingests(u)
  BY <1>1, <1>2, IngestTransactions DEF RoleIsKept, Reconcilers, Starts, StartPass, Quarantine
<1> QED
  BY <1>3 DEF Works

LEMMA ReanalysisStays ==
  ASSUME ~Restart, PassInv, PassInv', WikiTyped, LifecycleInv, [WikiNext]_wikiVars, NEW u \in Tasks,
         ReanalysisFits(u)
  PROVE  ReanalysisFits(u)'
<1> DEFINE w == task[u]
<1>1. task \in [Tasks -> Work] /\ IsNamed(w) /\ job \in [Jobs -> JobRow]
  BY Typed DEF WikiTyped, TasksTyped
<1> SUFFICES ASSUME task'[u].pc \in {"regenerate", "replace"}
             PROVE  job'[task'[u].job].source = task'[u].s
  BY DEF ReanalysisFits
<1>2. CASE task'[u] = w
  <2>1. w.job \in Jobs
    BY <1>1, <1>2 DEF IsNamed, ReanalysisSteps
  <2> QED
    BY <1>2, <2>1, HeldJobStays DEF ReanalysisFits
<1>3. CASE task'[u] # w
  <2>1. u = "reanalysis"
    BY DEF PassInv, TaskIsOrderly, RoleIsKept, ReanalysisSteps
  <2>2. Works(u)
    BY <1>3, <2>1, WhoActs DEF Publisher
  <2>3. CASE \E s \in Sources, j \in Jobs : StartReanalysis(u, s, j)
    <3>1. PICK s \in Sources, j \in Jobs : StartReanalysis(u, s, j)
      BY <2>3
    <3>2. job' = [job EXCEPT ![j] = [kind |-> "reanalyze", source |-> s, sha |-> source[s].sha,
                                     revision |-> source[s].revision, state |-> "running"]]
      BY <3>1 DEF StartReanalysis, BeginReanalysis, StartJob
    <3>3. job'[j].source = s
      BY <1>1, <3>2
    <3>4. task'[u].s = s /\ task'[u].job = j
      BY <1>1, <3>1 DEF StartReanalysis, Idle
    <3> QED
      BY <3>3, <3>4
  <2>4. CASE Regenerate(u)
    <3>1. w.pc = "regenerate" /\ UNCHANGED vars /\ \E pc \in {"replace", "abandon"} : Goto(u, pc)
      BY <2>4 DEF Regenerate, At
    <3>2. task'[u].s = w.s /\ task'[u].job = w.job
      BY <1>1, <3>1 DEF Goto, Work
    <3> QED
      BY <3>1, <3>2 DEF ReanalysisFits, vars
  <2>5. CASE Redraft(u) \/ Abandon(u) \/ ReplaceFails(u) \/ \E d \in Drafts : ReplaceDraft(u, d)
    <3>1. (\E pc \in {"abandon", "redraft"} : Goto(u, pc)) \/ task' = [task EXCEPT ![u] = Idle]
      BY <2>5 DEF Redraft, Abandon, ReplaceFails, ReplaceDraft
    <3> QED
      BY <1>1, <3>1 DEF Goto, Idle, Work
  <2> QED
    BY <2>1, <2>2, <2>3, <2>4, <2>5, WhoReanalyzes DEF Reanalyzes
<1> QED
  BY <1>2, <1>3

LEMMA DraftsStay ==
  ASSUME Calm, BundleInv, PassInv, PassInv', MaterializationFits, WikiTyped, LifecycleInv,
         [WikiNext]_wikiVars, NEW u \in Tasks
  PROVE  DraftFits(u)'
<1> DEFINE w == task[u]
<1>1. task \in [Tasks -> Work] /\ DraftFits(u) /\ IsNamed(w)
  BY DEF WikiTyped, TasksTyped, BundleInv
<1>2. source \in [Sources -> SourceRow] /\ job \in [Jobs -> JobRow]
  BY Typed
<1>3. ReanalysisFits(u)'
  BY <1>1, CalmStep, ReanalysisStays DEF DraftFits
<1>4. CASE w.pc = "redraft" /\ task'[u] = w
  <2>1. w.s \in Sources
    BY <1>1, <1>4 DEF IsNamed, ReanalysisSteps
  <2>2. source'[w.s].status = "published" => source[w.s].status = "published"
    BY <1>4, <2>1, LockedRest DEF LockedSteps
  <2> QED
    BY <1>1, <1>3, <1>4, <2>2 DEF DraftFits
<1>5. CASE u = Publisher /\ w.pc = "restore" /\ task'[u] = w
  <2>1. w.job \in Jobs /\ job[w.job].source \in Sources
    BY <1>5, PublisherWork DEF PublisherSteps
  <2>2. job'[w.job].source = job[w.job].source
    BY <2>1, HeldJobStays
  <2>3. source'[job[w.job].source].status = "published" =>
          source[job[w.job].source].status = "published"
    BY <1>5, <2>1, LockedRest DEF LockedSteps
  <2> QED
    BY <1>1, <1>3, <1>5, <2>1, <2>2, <2>3 DEF DraftFits
<1>6. CASE task'[u].pc = "redraft" /\ task'[u] # w
  <2>1. u = "reanalysis"
    BY <1>6 DEF PassInv, TaskIsOrderly, RoleIsKept, ReanalysisSteps
  <2>2. Works(u)
    BY <1>6, <2>1, WhoMoves DEF Publisher
  <2>3. \A s, j : ~StartReanalysis(u, s, j)
    BY <1>1, <1>6 DEF StartReanalysis, Idle
  <2>4. ~(Regenerate(u) \/ Redraft(u) \/ Abandon(u) \/ ReplaceFails(u))
    <3>1. \A pc \in {"replace", "abandon"} : ~Goto(u, pc)
      BY <1>1, <1>6 DEF Goto, Work
    <3>2. task' # [task EXCEPT ![u] = Idle]
      BY <1>1, <1>6 DEF Idle
    <3> QED
      BY <3>1, <3>2 DEF Regenerate, Redraft, Abandon, ReplaceFails
  <2>5. PICK d \in Drafts : ReplaceDraft(u, d)
    BY <2>1, <2>2, <2>3, <2>4, WhoReanalyzes DEF Reanalyzes
  <2>6. w.pc = "replace" /\ Goto(u, "redraft") /\ CompleteReanalysis(w.job, d)
    BY <2>5 DEF ReplaceDraft, At
  <2>7. task'[u].s = w.s /\ job[w.job].source = w.s /\ w.s \in Sources
    BY <1>1, <2>6 DEF Goto, Work, DraftFits, ReanalysisFits, IsNamed, ReanalysisSteps
  <2>8. source'[w.s].status = "needs_review"
    BY <1>2, <2>6, <2>7 DEF CompleteReanalysis, Reanalyzing, WithStatus, SourceRow
  <2> QED
    BY <1>3, <1>6, <2>7, <2>8 DEF DraftFits
<1>7. CASE u = Publisher /\ task'[u].pc = "restore" /\ task'[u] # w
  <2>1. Publishes \/ \E s \in Sources : StartApproval(s)
    BY <1>7, WhoMoves
  <2>2. FinishCancel
    <3>1. PublisherEnds => task'[u].pc = "idle"
      BY <1>1, <1>7 DEF PublisherEnds, Idle
    <3>2. PublisherFails => task'[u].pc \in {"idle", "cancel"}
      BY <1>1, <1>7, <3>1 DEF PublisherFails, Goto, Work
    <3>3. PublisherGoesOn => task'[u].pc \in {"idle", "approve"}
      BY <1>1, <1>7, <3>1 DEF PublisherGoesOn, Work
    <3>4. ~ \E s \in Sources : StartApproval(s)
      BY <1>1, <1>7 DEF StartApproval, LoadedClaim, Idle
    <3>5. ~(RecoverClaim \/ ApproveFails \/ Commit \/ RestoreDraft)
      BY <1>1, <1>7, <3>1, <3>2, <3>3 DEF RecoverClaim, ApproveFails, Commit, RestoreDraft, Goto,
         Work
    <3>6. ~(BeginCancel \/ DiscardPage \/ Unlist)
      BY <1>1, <1>7, <3>1 DEF BeginCancel, DiscardPage, Unlist, Goto, Work
    <3>7. \A j, d : ~Approve(j, d)
      <4>1. \A j, d : Approve(j, d) => task'[u].pc = "page"
        BY <1>1, <1>7 DEF Approve, Work
      <4> QED
        BY <1>7, <4>1
    <3>8. ~(WritePage \/ WriteIndex \/ WriteLog)
      <4>1. ~WritePage
        BY <1>1, <1>7, <3>2 DEF WritePage, Work
      <4>2. WriteIndex \/ WriteLog => Goto(u, "log") \/ Goto(u, "commit") \/ PublisherFails
        BY <1>7 DEF WriteIndex, WriteLog
      <4> QED
        BY <1>1, <1>7, <3>2, <4>1, <4>2 DEF Goto, Work
    <3> QED
      BY <2>1, <3>4, <3>5, <3>6, <3>7, <3>8 DEF Publishes
  <2>3. /\ w.pc = "dropClaim" /\ FinishPublicationCancellation(w.job) /\ Goto(u, "restore")
    BY <1>7, <2>2 DEF FinishCancel, At
  <2>4. w.job = claim /\ claim # None /\ w.job \in Jobs /\ job[w.job].source \in Sources
    BY <1>7, <2>3, PublisherWork, NoneAssumption
       DEF PublisherSteps, PassInv, PublisherHoldsClaim, Claiming
  <2>5. source'[job[w.job].source].status # "published"
    BY <1>2, <2>3, <2>4 DEF PassInv, ClaimedIsNotPublished, FinishPublicationCancellation,
       ReturnClaimed, WithStatus, SourceRow
  <2>6. job'[w.job].source = job[w.job].source /\ task'[u].job = w.job /\ task'[u].pc = "restore"
    BY <1>1, <2>3, <2>4, HeldJobStays DEF Goto, Work
  <2> QED
    BY <1>3, <2>5, <2>6 DEF DraftFits
<1> QED
  BY <1>3, <1>4, <1>5, <1>6, <1>7 DEF DraftFits


(* Rows stay while a pass reads one again, or sweeps.                          *)
LEMMA RowsRest ==
  ASSUME PassesDoNotOverlap, PassInv, WikiTyped, LifecycleInv, [WikiNext]_wikiVars,
         NEW u \in Tasks, task[u].pc = "reread" \/ Sweeps(task[u])
  PROVE  RowsStay
<1>1. \A s \in Sources : MarkSourceFailed(s) \/ MarkDeleted(s) \/ QuarantineSource(s) => FailClosed
  BY DEF FailClosed
<1>2. QuarantineCollection \/ RecoverInterruptedJobs => FailClosed
  BY DEF FailClosed
<1>3. /\ task[u].pc \in PassSteps /\ task[u].pc # "registering" /\ ~At(u, "idle")
      /\ u \in Reconcilers \cap Tasks
  BY DEF PassSteps, Withdrawals, Sweeps, At, PassInv, TaskIsOrderly, RoleIsKept
<1>4. ASSUME NEW t \in Tasks, Starts(t) \/ Reconciles(t) PROVE RowsStay
  <2>1. task[t].pc # "registering"
    <3> SUFFICES ASSUME task[t].pc = "registering" PROVE FALSE
      OBVIOUS
    <3>1. t \in Reconcilers /\ ~At(t, "idle")
      BY DEF PassInv, TaskIsOrderly, RoleIsKept, PassSteps, At
    <3> QED
      BY <1>3, <3>1 DEF PassesDoNotOverlap
  <2> QED
    BY <1>1, <1>2, <1>4, <2>1, PassTransactions, OthersKeepRows
<1>5. ASSUME NEW t \in Tasks, Ingests(t) PROVE FALSE
  <2>1. t = "scan" /\ ~At(t, "idle") /\ task[t].pc \notin PassSteps
    BY <1>5, IngestTransactions
       DEF PassInv, TaskIsOrderly, RoleIsKept, Prepares, IngestSteps, At, PassSteps, Withdrawals
  <2> QED
    BY <1>3, <2>1 DEF PassesDoNotOverlap, Reconcilers
<1>6. ASSUME NEW t \in Tasks,
             Reanalyzes(t) \/ \E s \in Sources, j \in Jobs : StartReanalysis(t, s, j)
      PROVE  RowsStay
  BY <1>1, <1>6, ReanalysisTransactions, OthersKeepRows
<1>7. ASSUME Publisher \in Tasks, Publishes \/ \E s \in Sources : StartApproval(s)
      PROVE  RowsStay
  BY <1>1, <1>7, PublisherTransactions, OthersKeepRows
<1>8. CASE \/ UNCHANGED wikiVars
           \/ \E s \in Sources : Person(s)
           \/ \E p \in Paths, content \in Hashes \union {None} : EditFolder(p, content)
           \/ \E p, q \in Paths : RenameFile(p, q)
           \/ Restart
  <2>1. UNCHANGED vars \/ Review \/ FailClosed
    BY <1>2, <1>8 DEF wikiVars, Person, Review, EditFolder, RenameFile, Restart
  <2> QED
    BY <2>1, OthersKeepRows
<1> QED
  BY <1>4, <1>5, <1>6, <1>7, <1>8 DEF WikiNext, TaskStep

(* What takes a pass to read a row again, and to sweep.                         *)
LEMMA PassMoves ==
  ASSUME Calm, PassInv, WikiTyped, LifecycleInv, [WikiNext]_wikiVars, NEW u \in Tasks,
         task'[u] # task[u] \/ pass'[u] # pass[u]
  PROVE  /\ task'[u].pc = "reread" => RegisterFile(u)
         /\ Sweeps(task[u])' =>
              \/ ListSources(u)
              \/ Sweeps(task[u]) /\ pass'[u].gone \subseteq pass[u].gone
<1> SUFFICES ASSUME task'[u].pc = "reread" \/ Sweeps(task[u])'
             PROVE  \/ RegisterFile(u) /\ task'[u].pc = "reread"
                    \/ ListSources(u) /\ task'[u].pc = "sweep"
                    \/ /\ Sweeps(task[u])' /\ Sweeps(task[u])
                       /\ pass'[u].gone \subseteq pass[u].gone
  BY DEF Sweeps, Withdrawals
<1>1. task \in [Tasks -> Work] /\ pass \in [Tasks -> Passes] /\ IsNamed(task[u])
  BY DEF WikiTyped, TasksTyped
<1>2. task'[u].pc \in {"reread", "sweep"} \union Withdrawals
  BY DEF Sweeps
<1>3. task'[u].pc \notin {"idle", "approve", "process", "register", "registering", "unsafe"}
        \union PublisherSteps \union IngestSteps \union ReanalysisSteps
  BY <1>2 DEF Withdrawals, PublisherSteps, IngestSteps, ReanalysisSteps
<1>4. Works(u)
  <2>1. u = Publisher => task'[u].pc \in {"idle", "approve"} \union PublisherSteps \/ Works(u)
    BY WhoMoves, PublisherGoesTo
  <2> QED
    BY <1>3, <2>1, WhoMoves
<1>5. ~Starts(u) /\ ~QuarantineUnsafe(u)
  <2>1. StartPass(u) => task'[u].pc = "register"
    BY <1>1 DEF StartPass, Goto, Work
  <2>2. QuarantineFolder(u) => task'[u].pc = "withdraw" /\ task'[u].back = "quarantined"
    BY <1>1 DEF QuarantineFolder, Work
  <2> QED
    BY <1>3, <2>1, <2>2 DEF Starts, Quarantine, QuarantineUnsafe, Sweeps
<1>6. ~Ingests(u)
  <2>1. \A r \in pass[u].pending : ~ClaimPending(u, r)
    <3> SUFFICES ASSUME NEW r \in pass[u].pending, ClaimPending(u, r) PROVE FALSE
      OBVIOUS
    <3>1. \/ task'[u].pc = "process"
          \/ \E j : task' = [task EXCEPT ![u] =
               [Idle EXCEPT !.pc = "extract", !.s = r.s, !.p = r.p, !.sha = r.sha,
                            !.revision = r.revision, !.job = j]]
      BY DEF ClaimPending, At
    <3> QED
      BY <1>1, <1>3, <3>1 DEF Idle, IngestSteps
  <2>2. ~(FinishIngest(u) \/ EndScan(u))
    BY <1>1, <1>3 DEF FinishIngest, EndScan, Idle
  <2>3. ~(Extract(u) \/ Enrich(u) \/ Save(u) \/ Embed(u) \/ WriteDraft(u))
    BY <1>1, <1>3 DEF Extract, Enrich, Save, Embed, WriteDraft, Goto, IngestSteps, Work
  <2> QED
    BY <2>1, <2>2, <2>3 DEF Ingests
<1>7. ~(Reanalyzes(u) \/ \E s \in Sources, j \in Jobs : StartReanalysis(u, s, j))
  <2>1. Reanalyzes(u) => \/ \E pc \in {"replace", "redraft", "abandon"} : Goto(u, pc)
                         \/ task' = [task EXCEPT ![u] = Idle]
    BY DEF Reanalyzes, Regenerate, ReplaceDraft, ReplaceFails, Redraft, Abandon
  <2>2. \A s, j : StartReanalysis(u, s, j) => task'[u].pc = "regenerate"
    BY <1>1 DEF StartReanalysis, Idle
  <2> QED
    BY <1>1, <1>3, <2>1, <2>2 DEF Goto, Idle, ReanalysisSteps, Work
<1>8. ~ \E p \in Paths : HashFile(u, p) \/ HashFails(u, p)
  <2> SUFFICES ASSUME NEW p \in Paths, HashFile(u, p) PROVE FALSE
    BY CalmStep DEF HashFails
  <2>1. /\ task[u].pc = "register"
        /\ task' = task \/ task' = [task EXCEPT ![u].pc = "registering", ![u].p = p,
                                                ![u].sha = folder[p]]
    BY DEF HashFile, At
  <2> QED
    BY <1>1, <1>3, <2>1 DEF Work
<1>9. CASE RegisterFile(u)
  <2>1. NextFile(u) => task'[u].pc = "register"
    BY <1>1 DEF NextFile, Idle
  <2>2. \A s, purge : task' = [task EXCEPT ![u].pc = "reread", ![u].s = s, ![u].purge = purge]
          => task'[u].pc = "reread"
    BY <1>1 DEF Work
  <2> QED
    BY <1>3, <1>9, <2>1, <2>2 DEF RegisterFile
<1>10. CASE Reread(u)
  <2>1. \/ NextFile(u)
        \/ task' = [task EXCEPT ![u].pc = "withdraw", ![u].back = "register",
                                ![u].revision = source[task[u].s].revision]
    BY <1>10 DEF Reread
  <2>2. task'[u].pc = "register" \/ (task'[u].pc = "withdraw" /\ task'[u].back = "register")
    BY <1>1, <2>1 DEF NextFile, Idle, Work
  <2> QED
    BY <1>3, <2>2 DEF Sweeps
<1>11. CASE ListSources(u)
  BY <1>1, <1>11 DEF ListSources, Goto, Work
<1>12. CASE \E row : SweepLarge(u, row) \/ SweepGone(u, row) \/ SweepDead(u, row)
  <2>1. PICK row : SweepLarge(u, row) \/ SweepGone(u, row) \/ SweepDead(u, row)
    BY <1>12
  <2>2. task[u].pc = "sweep"
    BY <2>1 DEF SweepLarge, SweepGone, SweepDead, At
  <2>3. pass'[u].gone \subseteq pass[u].gone
    BY <1>1, <2>1 DEF SweepLarge, SweepGone, SweepDead, Passes
  <2>4. Sweeps(task[u])'
    <3>1. task' = task \/ \E r : RemovePageOf(u, r)
      BY <2>1 DEF SweepLarge, SweepGone, SweepDead
    <3> QED
      BY <1>1, <2>2, <3>1 DEF RemovePageOf, Work, Sweeps, Withdrawals
  <2> QED
    BY <2>2, <2>3, <2>4 DEF Sweeps
<1>13. CASE EndSweep(u)
  <2>1. task'[u].pc \in {"process", "idle"}
    BY <1>1, <1>13 DEF EndSweep, Goto, Idle, Work
  <2> QED
    BY <1>3, <2>1
<1>14. CASE Relist(u) \/ LogRemoval(u) \/ \E x \in task[u].purge : Unlink(u, x)
  <2>1. task[u].pc \in Withdrawals /\ UNCHANGED pass
    BY <1>14 DEF Relist, LogRemoval, Unlink, At, Withdrawals
  <2>2. task'[u].back = task[u].back /\ task'[u].pc # "reread" /\ task'[u].pc # "sweep"
    <3>1. CASE Relist(u)
      BY <1>1, <3>1 DEF Relist, Goto, Work
    <3>2. CASE LogRemoval(u)
      <4>1. \E x : task' = [task EXCEPT ![u].pc = "withdraw", ![u].purge = @ \ {x}]
        BY <3>2 DEF LogRemoval
      <4> QED
        BY <1>1, <4>1 DEF Work
    <3>3. CASE \E x \in task[u].purge : Unlink(u, x)
      <4>1. \E x : \/ task' = [task EXCEPT ![u].purge = @ \ {x}] /\ task[u].pc = "withdraw"
                   \/ task' = [task EXCEPT ![u].pc = "relist", ![u].listed = Published,
                                           ![u].s = x.s]
        BY <3>3 DEF Unlink, At
      <4> QED
        BY <1>1, <4>1 DEF Work
    <3> QED
      BY <1>14, <3>1, <3>2, <3>3
  <2> QED
    BY <2>1, <2>2 DEF Sweeps
<1>15. CASE Withdrawn(u)
  <2>1. /\ task[u].pc = "withdraw" /\ task[u].back \in {"register", "sweep", "quarantined"}
    BY <1>1, <1>15 DEF Withdrawn, At, IsNamed, Withdrawals
  <2>2. CASE task[u].back = "sweep"
    BY <1>1, <1>15, <2>1, <2>2 DEF Withdrawn, Idle, Sweeps, Withdrawals
  <2>3. CASE task[u].back # "sweep"
    <3>1. NextFile(u) \/ task' = [task EXCEPT ![u] = Idle]
      BY <1>15, <2>1, <2>3 DEF Withdrawn
    <3> QED
      BY <1>1, <1>3, <3>1 DEF NextFile, Idle
  <2> QED
    BY <2>2, <2>3
<1> QED
  BY <1>4, <1>5, <1>6, <1>7, <1>8, <1>9, <1>10, <1>11, <1>12, <1>13, <1>14, <1>15, CalmStep
     DEF Works, Reconciles


LEMMA RowsFitStays ==
  ASSUME Calm, BundleInv, PassesDoNotOverlap, PassInv, WikiTyped, LifecycleInv,
         [WikiNext]_wikiVars, NEW u \in Tasks
  PROVE  RowsFit(u)'
<1>1. /\ task \in [Tasks -> Work] /\ pass \in [Tasks -> Passes] /\ RowsFit(u)
      /\ source \in [Sources -> SourceRow]
  BY Typed DEF WikiTyped, TasksTyped, BundleInv
<1>2. ASSUME task'[u].pc = "reread" PROVE source'[task'[u].s].sha = task'[u].sha
  <2>1. CASE task'[u] = task[u]
    <3>1. RowsStay /\ task[u].s \in Sources
      BY <1>2, <2>1, RowsRest, PassOf DEF IsNamed
    <3> QED
      BY <1>1, <1>2, <2>1, <3>1 DEF RowsFit, RowsStay
  <2>2. CASE task'[u] # task[u]
    <3> DEFINE p == task[u].p
               h == task[u].sha
               reread(s, old) == [task EXCEPT ![u].pc = "reread", ![u].s = s,
                                              ![u].purge = {[s |-> s, sha |-> old]}]
    <3>1. RegisterFile(u)
      BY <1>2, <2>2, PassMoves
    <3>2. ~NextFile(u)
      BY <1>1, <1>2 DEF NextFile, Idle
    <3>3. PICK s \in Sources :
            /\ \/ RegisterRetry(s, p, h) /\ task' = reread(s, h)
               \/ RegisterReplaced(s, p, h) /\ task' = reread(s, source[s].sha)
               \/ /\ RegisterMoved(s, p, h, {q \in Paths : folder[q] = None})
                  /\ task' = reread(s, h)
               \/ RegisterNew(s, p, h, {q \in Paths : folder[q] = None}) /\ task' = reread(s, h)
      BY <3>1, <3>2 DEF RegisterFile
    <3>4. task'[u].s = s /\ task'[u].sha = h
      BY <1>1, <3>3 DEF Work
    <3>5. source'[s].sha = h
      <4>1. CASE RegisterRetry(s, p, h)
        BY <1>1, <4>1 DEF RegisterRetry, SourceRow
      <4>2. CASE RegisterReplaced(s, p, h)
        BY <1>1, <4>2 DEF RegisterReplaced, SourceRow
      <4>3. CASE RegisterMoved(s, p, h, {q \in Paths : folder[q] = None})
        BY <1>1, <4>3 DEF RegisterMoved, IsMove, SameContent, SourceRow
      <4>4. CASE RegisterNew(s, p, h, {q \in Paths : folder[q] = None})
        BY <1>1, <4>4 DEF RegisterNew, SourceRow
      <4> QED
        BY <3>3, <4>1, <4>2, <4>3, <4>4
    <3> QED
      BY <3>4, <3>5
  <2> QED
    BY <2>1, <2>2
<1>3. ASSUME Sweeps(task[u])', NEW row \in pass'[u].gone, source'[row.s].linked PROVE row.linked
  <2>1. CASE Sweeps(task[u]) /\ pass'[u].gone \subseteq pass[u].gone
    <3>1. row \in pass[u].gone /\ row.s \in Sources
      BY <1>1, <1>3, <2>1 DEF Passes, Rows
    <3> QED
      BY <1>1, <1>3, <2>1, <3>1, RowsRest DEF RowsStay, RowsFit
  <2>2. CASE ListSources(u)
    <3>1. UNCHANGED vars
          /\ \E S \in SUBSET Sources :
               pass'[u].gone = {[s |-> s, sha |-> source[s].sha, linked |-> source[s].linked,
                                 status |-> source[s].status] : s \in S}
      <4> DEFINE S == {s \in {s \in Sources : Exists(s) /\ source[s].path \notin pass[u].large
                              /\ source[s].status # "deleted"} :
                     source[s].path \notin pass[u].found}
      <4>1. pass'[u].gone = {[s |-> s, sha |-> source[s].sha, linked |-> source[s].linked,
                              status |-> source[s].status] : s \in S}
        BY <1>1, <2>2 DEF ListSources, Passes
      <4> QED
        BY <2>2, <4>1 DEF ListSources
    <3> QED
      BY <1>3, <3>1 DEF vars
  <2>3. CASE task'[u] = task[u] /\ pass'[u] = pass[u]
    BY <1>3, <2>1, <2>3 DEF Sweeps
  <2> QED
    BY <1>3, <2>1, <2>2, <2>3, PassMoves
<1> QED
  BY <1>2, <1>3 DEF RowsFit

-------------------------------------------------------------------------------
(* The bundle at rest                                                          *)

LEMMA BundleStep ==
  ASSUME Calm, BundleInv, PassesDoNotOverlap, PassInv, PagesFit, MaterializationFits, WikiTyped,
         LifecycleInv, [WikiNext]_wikiVars
  PROVE  BundleInv'
<1>1. PassInv'
  BY PassInvStep
<1> QED
  BY <1>1, ShownIsKept, PublishedIsListed, ListStays, RemovalStays, DraftsStay, RowsFitStays
     DEF BundleInv

(* Faults and restarts are counted.                                            *)
Counted == faults \in Nat /\ restarts \in Nat

LEMMA CountedStep ==
  ASSUME Counted, [WikiNext]_wikiVars
  PROVE  Counted' /\ (faults' = 0 => faults = 0) /\ (restarts' = 0 => restarts = 0)
<1> DEFINE Grows == /\ faults' = faults \/ faults' = faults + 1
                    /\ restarts' = restarts \/ restarts' = restarts + 1
<1>1. ASSUME NEW t \in Tasks, Starts(t) \/ Reconciles(t) PROVE Grows
  BY <1>1 DEF Starts, StartPass, Quarantine, QuarantineFolder, Reconciles, HashFile, HashFails,
     QuarantineUnsafe, RegisterFile, Reread, ListSources, SweepLarge, SweepGone, SweepDead,
     EndSweep, Unlink, Relist, LogRemoval, Withdrawn, WithdrawFails, Fault, NoFault, world, outside
<1>2. ASSUME NEW t \in Tasks, Ingests(t) PROVE Grows
  BY <1>2 DEF Ingests, ClaimPending, Extract, Enrich, Save, Embed, WriteDraft, FinishIngest,
     EndScan, RefusedOrFault, Fault, NoFault, world, outside
<1>3. ASSUME NEW t \in Tasks,
             Reanalyzes(t) \/ \E s \in Sources, j \in Jobs : StartReanalysis(t, s, j)
      PROVE  Grows
  BY <1>3 DEF Reanalyzes, StartReanalysis, Regenerate, ReplaceDraft, ReplaceFails, Redraft,
     Abandon, RefusedOrFault, Fault, NoFault, world, outside
<1>4. ASSUME Publishes \/ \E s \in Sources : StartApproval(s) PROVE Grows
  BY <1>4 DEF Publishes, StartApproval, RecoverClaim, Approve, ApproveFails, WritePage,
     WriteIndex, WriteLog, Commit, BeginCancel, DiscardPage, Unlist, FinishCancel, RestoreDraft,
     RefusedOrFault, Fault, NoFault, world, outside
<1>5. ASSUME \/ UNCHANGED wikiVars
             \/ \E s \in Sources : Person(s)
             \/ \E p \in Paths, content \in Hashes \union {None} : EditFolder(p, content)
             \/ \E p, q \in Paths : RenameFile(p, q)
             \/ Restart
      PROVE  Grows
  BY <1>5 DEF wikiVars, Person, EditFolder, RenameFile, Restart, world, outside
<1>6. Grows
  <2> HIDE DEF Grows
  <2> QED
    BY <1>1, <1>2, <1>3, <1>4, <1>5 DEF WikiNext, TaskStep
<1> QED
  BY <1>6 DEF Counted

(* At rest nobody withdraws and nothing is claimed.                            *)
LEMMA QuietIsMirrored ==
  ASSUME BundleInv, SearchableIsMaterialized, WikiTyped, LifecycleInv
  PROVE  QuietBundleMirrorsTables
<1> SUFFICES ASSUME Quiet PROVE BundleMirrorsTables
  BY DEF QuietBundleMirrorsTables
<1>1. \A s \in Sources : Kept(s) => s \in Published
  BY DEF Quiet, At, Kept, InHand, Claimed, Withdrawals, Published, LifecycleInv,
     RowsAgreeOnExposure
<1>2. \A s \in Published : Stable(s)
  <2> SUFFICES ASSUME NEW s \in Published PROVE Stable(s)
    OBVIOUS
  <2>1. Searchable(s)
    BY DEF Searchable, Published, LifecycleInv, RowsAgreeOnExposure, EvidenceIsCurrent
  <2>2. page[s] = PageOf(s, "stable")
    BY <2>1 DEF SearchableIsMaterialized, Published
  <2> QED
    BY <2>2 DEF Stable, PageOf
<1>3. index \subseteq Sources
  BY DEF WikiTyped, FilesTyped
<1> QED
  BY <1>1, <1>2, <1>3 DEF BundleInv, BundleMirrorsTables, Stable, Published

LEMMA BundleStart == WikiInit => BundleInv /\ Counted
<1> SUFFICES ASSUME WikiInit PROVE BundleInv /\ Counted
  OBVIOUS
<1>1. /\ index = {} /\ \A t \in Tasks : task[t].pc = "idle"
      /\ \A s \in Sources : page[s].kind = "none" /\ concept[s].status = "absent"
  BY DEF WikiInit, Init, Idle, NoPage, AbsentConcept
<1>2. Published = {}
  BY <1>1 DEF Published
<1>3. \A t \in Tasks : ListFits(t) /\ RemovalFits(t) /\ DraftFits(t) /\ RowsFit(t)
  BY <1>1 DEF ListFits, ListSteps, RemovalFits, DraftFits, ReanalysisFits, RowsFit, Sweeps,
     Withdrawals
<1> QED
  BY <1>1, <1>2, <1>3 DEF BundleInv, Stable, WikiInit, Counted

(* While the passes of a wiki do not overlap and the process has not restarted,  *)
(* a bundle at rest mirrors the tables unless something failed: the index lists *)
(* the published documents and only they have a stable page, whatever was      *)
(* withdrawn, quarantined, cancelled or published in between, in whatever order *)
(* (FolderWiki!QuietBundleMirrorsTables).                                      *)
THEOREM QuietBundleAlwaysMirrorsTables ==
  WikiSpec /\ []PassesDoNotOverlap => [](restarts = 0 => QuietBundleMirrorsTables)
<1> DEFINE Inv == Counted /\ (faults = 0 /\ restarts = 0 => BundleInv)
<1>1. WikiInit => Inv
  BY BundleStart
<1>2. Inv /\ PassesDoNotOverlap /\ PassInv /\ PagesFit /\ MaterializationFits /\ WikiTyped
        /\ LifecycleInv /\ [WikiNext]_wikiVars => Inv'
  <2> SUFFICES ASSUME Inv, PassesDoNotOverlap, PassInv, PagesFit, MaterializationFits, WikiTyped,
                      LifecycleInv, [WikiNext]_wikiVars, faults' = 0, restarts' = 0
               PROVE  BundleInv'
    BY CountedStep
  <2>1. Calm
    BY DEF Counted, Calm
  <2>2. faults = 0 /\ restarts = 0
    BY CountedStep
  <2> QED
    BY <2>1, <2>2, BundleStep
<1>3. Inv /\ SearchableIsMaterialized /\ WikiTyped /\ LifecycleInv
        => (restarts = 0 => QuietBundleMirrorsTables)
  BY QuietIsMirrored DEF QuietBundleMirrorsTables
<1> QED
  BY <1>1, <1>2, <1>3, SearchableIsAlwaysMaterialized, PassesAreOrderly, PagesAlwaysFit,
     WikiRunsTheTables, MaterializationAlwaysFits, PTL DEF WikiSpec

-------------------------------------------------------------------------------
(* The draft page between two tasks                                            *)

(* The process does not restart in this step.                                  *)
Runs == restarts \in Nat /\ restarts' = 0

(* A proposal under review, or withheld while it is reanalyzed.                *)
Proposed == {"needs_review", "excluded", "enriched"}

Evident(s) == concept[s].status \in Proposed /\ chunks[s] # 0

(* Somebody still has to write the draft page of s, or to fail the document: the *)
(* ingestion or the reanalysis that stored the proposal, or the publisher, who  *)
(* restores the draft when it gives its claim up.                              *)
Owed(s) ==
  \/ Claimed(s)
  \/ \E t \in Tasks :
       \/ task[t].pc \in {"draft", "failed", "redraft"} /\ task[t].s = s
       \/ t = Publisher /\ task[t].pc = "restore" /\ job[task[t].job].source = s

(* The two rows of a document with evidence, or under review, agree.           *)
RowsMatch ==
  \A s \in Sources :
    /\ chunks[s] # 0 => concept[s].status = source[s].status
    /\ source[s].status \in {"needs_review", "excluded"} => concept[s].status = source[s].status

(* Nobody interferes with an ingestion: its job runs, and the document is not   *)
(* under review before its proposal is stored.                                 *)
IngestionFits(t) ==
  LET w == task[t] IN
  /\ w.pc \in IngestSteps =>
       /\ job[w.job].kind = "ingest" /\ job[w.job].state = "running"
       /\ job[w.job].source = w.s
  /\ w.pc \in {"extract", "enrich", "save"} =>
       source[w.s].status \notin Settled /\ concept[w.s].status # "enriched"

DraftInv ==
  /\ RowsMatch
  /\ \A t \in Tasks : IngestionFits(t) /\ ReanalysisFits(t)
  /\ \A s \in Sources : Evident(s) => page[s] = PageOf(s, "draft") \/ Owed(s)

LEMMA RunsStep ==
  ASSUME Runs
  PROVE  ~Restart
BY DEF Runs, Restart

-------------------------------------------------------------------------------
(* The rows go on matching                                                     *)

LEMMA StatusMatches ==
  ASSUME LifecycleInv, RowsMatch, NEW S, NEW status, UNCHANGED chunks,
         source' = WithStatus(source, S, status), concept' = WithStatus(concept, S, status),
         \A s \in S \cap Sources : concept[s].status = "absent" =>
           status \notin {"needs_review", "excluded"}
  PROVE  RowsMatch'
<1> SUFFICES ASSUME NEW s \in Sources
             PROVE  /\ chunks[s] # 0 => concept'[s].status = source'[s].status
                    /\ source'[s].status \in {"needs_review", "excluded"} =>
                         concept'[s].status = source'[s].status
  BY DEF RowsMatch
<1>1. source[s] \in SourceRow /\ concept[s] \in ConceptRow
  BY Typed
<1>2. /\ source'[s].status = IF s \in S /\ source[s].status # "absent" THEN status
                             ELSE source[s].status
      /\ concept'[s].status = IF s \in S /\ concept[s].status # "absent" THEN status
                              ELSE concept[s].status
  BY <1>1 DEF WithStatus, SourceRow, ConceptRow
<1> QED
  BY <1>2 DEF RowsMatch

LEMMA WithdrawnMatches ==
  ASSUME LifecycleInv, RowsMatch, NEW S, NEW status, Withdraw(S, status),
         \A s \in Sources : /\ s \notin S => source'[s].status = source[s].status
                            /\ s \in S => source'[s].status \notin {"needs_review", "excluded"}
  PROVE  RowsMatch'
<1> SUFFICES ASSUME NEW s \in Sources
             PROVE  /\ chunks'[s] # 0 => concept'[s].status = source'[s].status
                    /\ source'[s].status \in {"needs_review", "excluded"} =>
                         concept'[s].status = source'[s].status
  BY DEF RowsMatch
<1>1. s \in S => chunks'[s] = 0
  BY DEF Withdraw, WithoutChunks
<1>2. s \notin S => chunks'[s] = chunks[s] /\ concept'[s] = concept[s]
  BY Typed DEF Withdraw, WithoutChunks, WithStatus
<1> QED
  BY <1>1, <1>2 DEF RowsMatch

LEMMA RowsMatchStep ==
  ASSUME LifecycleInv, RowsMatch,
         \/ UNCHANGED vars \/ Register \/ Ingest \/ Review \/ Publish \/ QuarantineCollection
         \/ \E s \in Sources : MarkSourceFailed(s) \/ MarkDeleted(s) \/ QuarantineSource(s)
  PROVE  RowsMatch'
<1>1. /\ source \in [Sources -> SourceRow] /\ concept \in [Sources -> ConceptRow]
      /\ job \in [Jobs -> JobRow]
  BY Typed
<1>2. UNCHANGED <<source, concept, chunks>> => RowsMatch'
  BY DEF RowsMatch
<1>3. CASE UNCHANGED vars
  BY <1>2, <1>3 DEF vars
<1>4. CASE Register
  <2>1. PICK s \in Sources, p \in Paths, h \in Hashes :
          \/ RegisterRetry(s, p, h) \/ RegisterReplaced(s, p, h)
          \/ \E missing \in SUBSET Paths :
               RegisterMoved(s, p, h, missing) \/ RegisterNew(s, p, h, missing)
    BY <1>4 DEF Register
  <2>2. CASE /\ Withdraw({s}, "needs_review") /\ source'[s].status = "detected"
             /\ \A u \in Sources : u # s => source'[u] = source[u]
    BY <2>2, WithdrawnMatches
  <2>3. CASE /\ UNCHANGED <<concept, chunks>>
             /\ \A u \in Sources : source'[u].status = source[u].status
    BY <2>3 DEF RowsMatch
  <2>4. CASE /\ UNCHANGED <<concept, chunks>> /\ source'[s].status = "detected" /\ ~Exists(s)
             /\ \A u \in Sources : u # s => source'[u] = source[u]
    <3>1. chunks[s] = 0
      <4>1. source[s].revision = 0 /\ chunks[s] \in {0, source[s].revision}
        BY <2>4 DEF LifecycleInv, AbsentRowsAreEmpty, EvidenceIsCurrent, Exists
      <4> QED
        BY <4>1
    <3> QED
      BY <2>4, <3>1 DEF RowsMatch
  <2>5. CASE RegisterRetry(s, p, h)
    BY <1>1, <2>2, <2>5 DEF RegisterRetry, SourceRow
  <2>6. CASE RegisterReplaced(s, p, h)
    BY <1>1, <2>2, <2>6 DEF RegisterReplaced, SourceRow
  <2>7. CASE \E missing \in SUBSET Paths : RegisterMoved(s, p, h, missing)
    <3>1. CASE source[s].status \in Settled
      BY <1>1, <2>3, <2>7, <3>1 DEF RegisterMoved, SourceRow
    <3>2. CASE source[s].status \notin Settled
      BY <1>1, <2>2, <2>7, <3>2 DEF RegisterMoved, SourceRow
    <3> QED
      BY <3>1, <3>2
  <2>8. CASE \E missing \in SUBSET Paths : RegisterNew(s, p, h, missing)
    BY <1>1, <2>4, <2>8 DEF RegisterNew
  <2> QED
    BY <2>1, <2>5, <2>6, <2>7, <2>8
<1>5. CASE Ingest
  <2>1. PICK j \in Jobs :
          \/ \E s \in Sources : ClaimIngestJob(j, s)
          \/ MarkExtracted(j) \/ MarkEnriched(j) \/ (\E d \in Drafts : SaveEnrichment(j, d))
          \/ ReplaceChunks(j) \/ CompleteIngestJob(j)
          \/ \E markSource \in BOOLEAN : FailIngestJob(j, markSource)
    BY <1>5 DEF Ingest
  <2> DEFINE u == job[j].source
  <2>2. CASE (\E s \in Sources : ClaimIngestJob(j, s)) \/ CompleteIngestJob(j)
    BY <1>2, <2>2 DEF ClaimIngestJob, CompleteIngestJob
  <2>3. u \in Sources \/ ~ \E status : IngestOwns(j, status)
    BY DEF IngestOwns, Owns, LifecycleInv, JobsNameDocuments
  <2>4. CASE MarkExtracted(j) \/ MarkEnriched(j)
    <3>1. /\ u \in Sources /\ source[u].status \in {"detected", "extracted"}
          /\ \E status \in {"extracted", "enriched"} : source' = [source EXCEPT ![u].status = status]
          /\ UNCHANGED <<concept, chunks>>
      BY <2>3, <2>4 DEF MarkExtracted, MarkEnriched, IngestOwns
    <3>2. chunks[u] = 0
      <4>1. concept[u].status \in ConceptStatus
        BY <1>1, <3>1 DEF ConceptRow
      <4> QED
        BY <3>1, <4>1 DEF RowsMatch, ConceptStatus
    <3>3. /\ source'[u].status \in {"extracted", "enriched"}
          /\ \A s \in Sources : s # u => source'[s] = source[s]
      BY <1>1, <3>1 DEF SourceRow
    <3> QED
      BY <3>1, <3>2, <3>3 DEF RowsMatch
  <2>5. CASE \E d \in Drafts : SaveEnrichment(j, d)
    <3>1. /\ u \in Sources /\ source'[u].status = "needs_review" /\ concept'[u].status = "needs_review"
          /\ \A s \in Sources : s # u => source'[s] = source[s] /\ concept'[s] = concept[s]
          /\ UNCHANGED chunks
      BY <1>1, <2>3, <2>5 DEF SaveEnrichment, SourceRow
    <3> QED
      BY <3>1 DEF RowsMatch
  <2>6. CASE ReplaceChunks(j)
    <3>1. /\ u \in Sources /\ source[u].status = "needs_review"
          /\ \A s \in Sources : s # u => chunks'[s] = chunks[s]
          /\ UNCHANGED <<source, concept>>
      BY <1>1, <2>3, <2>6 DEF ReplaceChunks, IngestOwns
    <3> QED
      BY <3>1 DEF RowsMatch
  <2>7. CASE \E markSource \in BOOLEAN : FailIngestJob(j, markSource)
    <3>1. /\ UNCHANGED chunks
          /\ \/ UNCHANGED <<source, concept>>
             \/ /\ source' = WithStatus(source, {u}, "failed")
                /\ concept' = WithStatus(concept, {u}, "failed")
      BY <2>7 DEF FailIngestJob
    <3> QED
      BY <1>2, <3>1, StatusMatches
  <2> QED
    BY <2>1, <2>2, <2>4, <2>5, <2>6, <2>7
<1>6. CASE Review
  <2>1. CASE \E s \in Sources : ShowReview(s)
    BY <1>2, <2>1 DEF ShowReview
  <2>2. CASE \E s \in Sources : ExcludeReview(s)
    BY <2>2, StatusMatches DEF ExcludeReview, AwaitingReview
  <2>3. CASE \E j \in Jobs, s \in Sources : BeginReanalysis(j, s)
    BY <2>3, StatusMatches DEF BeginReanalysis
  <2>4. CASE \E j \in Jobs, d \in Drafts : CompleteReanalysis(j, d)
    <3>1. PICK j \in Jobs, d \in Drafts : CompleteReanalysis(j, d)
      BY <2>4
    <3>2. job[j].source \in Sources
      BY <3>1 DEF CompleteReanalysis, Owns, LifecycleInv, JobsNameDocuments
    <3>3. /\ source'[job[j].source].status = "needs_review"
          /\ concept'[job[j].source].status = "needs_review"
          /\ \A s \in Sources : s # job[j].source =>
               source'[s] = source[s] /\ concept'[s] = concept[s] /\ chunks'[s] = chunks[s]
      BY <1>1, <3>1, <3>2, Typed DEF CompleteReanalysis, Reanalyzing, WithStatus, SourceRow
    <3> QED
      BY <3>3 DEF RowsMatch
  <2>5. CASE \E j \in Jobs : FailReanalysis(j)
    <3>1. PICK j \in Jobs : FailReanalysis(j)
      BY <2>5
    <3>2. CASE Owns(j, "reanalyze") /\ Reanalyzing(job[j].source)
      BY <3>1, <3>2, StatusMatches DEF FailReanalysis, Reanalyzing
    <3> QED
      BY <1>2, <3>1, <3>2 DEF FailReanalysis
  <2> QED
    BY <1>6, <2>1, <2>2, <2>3, <2>4, <2>5 DEF Review
<1>7. CASE Publish
  <2>1. CASE \E j \in Jobs, s \in Sources, d \in Drafts : BeginPublication(j, s, d)
    <3>1. PICK j \in Jobs, s \in Sources, d \in Drafts : BeginPublication(j, s, d)
      BY <2>1
    <3>2. /\ source'[s].status = "publishing" /\ concept'[s].status = "publishing"
          /\ UNCHANGED chunks
          /\ \A u \in Sources : u # s => source'[u] = source[u] /\ concept'[u] = concept[u]
      BY <1>1, <3>1 DEF BeginPublication, MatchesReviewed, AwaitingReview, WithStatus, SourceRow
    <3> QED
      BY <3>2 DEF RowsMatch
  <2>2. CASE \E j \in Jobs : CompletePublication(j)
    BY <2>2, StatusMatches DEF CompletePublication
  <2>3. CASE \E j \in Jobs : MarkPublicationCancelling(j) \/ FinishPublicationCancellation(j)
    <3>1. claim # None /\ ReturnClaimed(claim) /\ UNCHANGED chunks
      BY <2>3, NoneAssumption DEF MarkPublicationCancelling, FinishPublicationCancellation
    <3> DEFINE u == job[claim].source
    <3>2. u \in Sources
      BY <3>1 DEF LifecycleInv, ClaimIsOpen, JobsNameDocuments, TypeOK
    <3>3. source[u].status = "publishing" <=> concept[u].status = "publishing"
      BY <3>2 DEF LifecycleInv, RowsAgreeOnExposure
    <3>4. source[u].status = "publishing" =>
            source[u].sha = job[claim].sha /\ source[u].revision = job[claim].revision
      BY <3>2 DEF LifecycleInv, PublishingIsOwned, Owns
    <3>5. \/ UNCHANGED <<source, concept>>
          \/ /\ source' = WithStatus(source, {u}, "needs_review")
             /\ concept' = WithStatus(concept, {u}, "needs_review")
             /\ concept[u].status = "publishing"
      BY <3>1, <3>3, <3>4 DEF ReturnClaimed
    <3> QED
      BY <1>2, <3>1, <3>5, StatusMatches
  <2> QED
    BY <1>7, <2>1, <2>2, <2>3 DEF Publish
<1>8. CASE \E s \in Sources : MarkSourceFailed(s)
  BY <1>8, StatusMatches DEF MarkSourceFailed
<1>9. CASE \/ QuarantineCollection
           \/ \E s \in Sources : MarkDeleted(s) \/ QuarantineSource(s)
  <2>1. PICK S : \E status \in {"failed", "deleted"} :
          source' = WithStatus(source, S, status) /\ Withdraw(S, status)
    BY <1>9 DEF QuarantineCollection, MarkDeleted, QuarantineSource
  <2>2. \A s \in Sources : /\ s \notin S => source'[s] = source[s]
                           /\ s \in S => source'[s].status \in {"absent", "failed", "deleted"}
    BY <1>1, <2>1 DEF WithStatus, SourceRow
  <2> QED
    BY <2>1, <2>2, WithdrawnMatches
<1> QED
  BY <1>3, <1>4, <1>5, <1>6, <1>7, <1>8, <1>9

-------------------------------------------------------------------------------
(* Nobody interferes with an ingestion                                         *)

(* What may happen beside it.                                                  *)
Beside ==
  UNCHANGED vars \/ Review \/ Publish \/ \E s \in Sources : MarkSourceFailed(s)

(* A pass is a step of a task that reconciles.                                 *)
LEMMA WhoPasses ==
  ASSUME PassInv, NEW t \in Tasks, Starts(t) \/ Reconciles(t)
  PROVE  t \in Reconcilers /\ (task[t].pc \in PassSteps \/ (Starts(t) /\ At(t, "idle")))
<1>1. Reconciles(t) => task[t].pc \in PassSteps
  BY DEF Reconciles, HashFile, HashFails, QuarantineUnsafe, RegisterFile, Reread, ListSources,
     SweepLarge, SweepGone, SweepDead, EndSweep, Unlink, Relist, LogRemoval, Withdrawn,
     WithdrawFails, At, PassSteps, Withdrawals
<1>2. Starts(t) => t \in Reconcilers /\ At(t, "idle")
  BY DEF Starts, StartPass, Quarantine, Reconcilers
<1> QED
  BY <1>1, <1>2 DEF PassInv, TaskIsOrderly, RoleIsKept

LEMMA OthersRun ==
  ASSUME Runs, PassesDoNotOverlap, PassesDoNotOverlap', PassInv, WikiTyped, LifecycleInv,
         [WikiNext]_wikiVars, NEW t \in Tasks, task[t].pc \in IngestSteps, ~Ingests(t)
  PROVE  task'[t] = task[t] /\ Beside
<1>1. /\ t = "scan" /\ t \in Reconcilers /\ ~At(t, "idle")
      /\ task[t].pc \notin PassSteps \union ReanalysisSteps
  BY DEF PassInv, TaskIsOrderly, RoleIsKept, Prepares, IngestSteps, Reconcilers, At, PassSteps,
     Withdrawals, ReanalysisSteps
<1>2. task \in [Tasks -> Work]
  BY DEF WikiTyped, TasksTyped
<1>3. \A u \in Tasks : ~Ingests(u)
  BY <1>1, IngestTransactions DEF PassInv, TaskIsOrderly, RoleIsKept
<1>4. ASSUME NEW u \in Tasks, Starts(u) \/ Reconciles(u) PROVE FALSE
  <2>1. u \in Reconcilers /\ u # t /\ (task[u].pc \in PassSteps \/ Starts(u))
    BY <1>1, <1>4, WhoPasses DEF At
  <2>2. task[u].pc \notin PassSteps
    <3>1. task[u].pc \in PassSteps => ~At(u, "idle")
      BY DEF At, PassSteps, Withdrawals
    <3> QED
      BY <1>1, <2>1, <3>1 DEF PassesDoNotOverlap
  <2>3. task'[u].pc \in {"register", "withdraw"}
    BY <1>2, <2>1, <2>2 DEF Starts, StartPass, Quarantine, QuarantineFolder, Goto, Work
  <2>4. task'[t] = task[t]
    BY <1>4, <2>1, WorkIsNoPublication DEF Works
  <2> QED
    BY <1>1, <2>1, <2>3, <2>4 DEF PassesDoNotOverlap, At
<1>5. task'[t] = task[t]
  <2> SUFFICES ASSUME task'[t] # task[t] PROVE FALSE
    OBVIOUS
  <2>1. Works(t)
    BY <1>1, RunsStep, WhoActs DEF Publisher
  <2> QED
    BY <1>1, <1>3, <1>4, <2>1 DEF Works, Reanalyzes, Regenerate, Redraft, Abandon, ReplaceFails,
       ReplaceDraft, StartReanalysis, At, ReanalysisSteps
<1>6. Beside
  <2>1. UNCHANGED wikiVars => Beside
    BY DEF wikiVars, Beside
  <2>2. \A u \in Tasks : Reanalyzes(u) \/ (\E s \in Sources, j \in Jobs : StartReanalysis(u, s, j))
          => Beside
    BY ReanalysisTransactions DEF Beside
  <2>3. Publisher \in Tasks /\ (Publishes \/ \E s \in Sources : StartApproval(s)) => Beside
    BY PublisherTransactions DEF Beside
  <2>4. (\E s \in Sources : Person(s)) => Beside
    BY DEF Person, Review, Beside
  <2>5. \/ \E p \in Paths, content \in Hashes \union {None} : EditFolder(p, content)
        \/ \E p, q \in Paths : RenameFile(p, q)
        => Beside
    BY DEF EditFolder, RenameFile, Beside
  <2> QED
    BY <1>3, <1>4, <2>1, <2>2, <2>3, <2>4, <2>5, RunsStep DEF WikiNext, TaskStep
<1> QED
  BY <1>5, <1>6

(* An ingestion that runs is closed by its own worker.                         *)
LEMMA IngestionRuns ==
  ASSUME LifecycleInv, Beside, NEW j \in Jobs, job[j].kind = "ingest", job[j].state = "running"
  PROVE  job'[j] = job[j]
<1>1. job \in [Jobs -> JobRow]
  BY Typed
<1>2. \A i : \A kind, s : StartJob(i, kind, s) => job'[j] = job[j]
  BY <1>1 DEF StartJob
<1>3. \A i : FinishJob(i) /\ i # j => job'[j] = job[j]
  BY <1>1 DEF FinishJob
<1>4. claim # j
  BY NoneAssumption DEF LifecycleInv, ClaimIsOpen
<1>5. CASE Review
  BY <1>2, <1>3, <1>5 DEF Review, ShowReview, ExcludeReview, BeginReanalysis, CompleteReanalysis,
     FailReanalysis, Owns
<1>6. CASE Publish
  <2>1. \A i : MarkPublicationCancelling(i) => job'[j] = job[j]
    BY <1>1, <1>4 DEF MarkPublicationCancelling
  <2> QED
    BY <1>2, <1>3, <1>4, <1>6, <2>1 DEF Publish, BeginPublication, CompletePublication, MayCommit,
       FinishPublicationCancellation
<1> QED
  BY <1>5, <1>6 DEF Beside, vars, MarkSourceFailed

(* A document that is not under review is not put there.                       *)
LEMMA UnsettledStays ==
  ASSUME LifecycleInv, Beside, NEW s \in Sources, source[s].status \notin Settled,
         concept[s].status # "enriched"
  PROVE  source'[s].status \notin Settled /\ concept'[s].status # "enriched"
<1>1. source \in [Sources -> SourceRow] /\ concept \in [Sources -> ConceptRow]
  BY Typed
<1>2. concept[s].status \notin {"publishing", "published"} /\ ~AwaitingReview(s) /\ ~Reanalyzing(s)
  BY DEF LifecycleInv, RowsAgreeOnExposure, Settled, AwaitingReview, Reanalyzing
<1>3. \A u, status : u # s /\ source' = WithStatus(source, {u}, status)
        => source'[s].status = source[s].status
  BY DEF WithStatus
<1>4. \A u, status : u # s /\ concept' = WithStatus(concept, {u}, status)
        => concept'[s].status = concept[s].status
  BY DEF WithStatus
<1>5. CASE Review
  <2>1. CASE \E u \in Sources : ShowReview(u) \/ ExcludeReview(u)
    BY <1>2, <1>3, <1>4, <2>1 DEF ShowReview, ExcludeReview
  <2>2. CASE \E j \in Jobs, u \in Sources : BeginReanalysis(j, u)
    BY <1>2, <1>3, <1>4, <2>2 DEF BeginReanalysis
  <2>3. CASE \E j \in Jobs, d \in Drafts : CompleteReanalysis(j, d)
    BY <1>1, <1>2, <1>3, <2>3 DEF CompleteReanalysis
  <2>4. CASE \E j \in Jobs : FailReanalysis(j)
    BY <1>2, <1>3, <1>4, <2>4 DEF FailReanalysis
  <2> QED
    BY <1>5, <2>1, <2>2, <2>3, <2>4 DEF Review
<1>6. CASE Publish
  <2>1. CASE \E j \in Jobs, u \in Sources, d \in Drafts : BeginPublication(j, u, d)
    BY <1>1, <1>2, <1>3, <2>1 DEF BeginPublication, MatchesReviewed
  <2>2. CASE \E j \in Jobs : CompletePublication(j)
    BY <1>2, <1>3, <1>4, <2>2 DEF CompletePublication, MayCommit, Publishing
  <2>3. CASE \E j \in Jobs : MarkPublicationCancelling(j) \/ FinishPublicationCancellation(j)
    <3>1. \E j \in Jobs : ReturnClaimed(j)
      BY <2>3 DEF MarkPublicationCancelling, FinishPublicationCancellation
    <3> QED
      BY <1>2, <1>3, <1>4, <3>1 DEF ReturnClaimed, Settled
  <2> QED
    BY <1>6, <2>1, <2>2, <2>3 DEF Publish
<1>7. CASE \E u \in Sources : MarkSourceFailed(u)
  BY <1>1, <1>7 DEF MarkSourceFailed, WithStatus, SourceRow, ConceptRow, Settled
<1> QED
  BY <1>5, <1>6, <1>7 DEF Beside, vars

(* A pass takes a task to no step of an ingestion.                             *)
LEMMA PassIsNoIngestion ==
  ASSUME WikiTyped, NEW u \in Tasks, Starts(u) \/ Reconciles(u), task[u].pc \notin IngestSteps
  PROVE  task'[u].pc \notin IngestSteps
<1>1. task \in [Tasks -> Work] /\ IsNamed(task[u])
  BY DEF WikiTyped, TasksTyped
<1>2. \A pc : Goto(u, pc) => task'[u].pc = pc
  BY <1>1 DEF Goto, Work
<1>3. task' = task => task'[u].pc \notin IngestSteps
  OBVIOUS
<1>4. NextFile(u) => task'[u].pc \notin IngestSteps
  BY <1>1 DEF NextFile, Idle, IngestSteps
<1>5. task' = [task EXCEPT ![u] = Idle] => task'[u].pc \notin IngestSteps
  BY <1>1 DEF Idle, IngestSteps
<1>6. CASE Starts(u)
  BY <1>1, <1>6 DEF Starts, StartPass, Quarantine, QuarantineFolder, Goto, Work, IngestSteps
<1>7. CASE \E p \in Paths : HashFile(u, p) \/ HashFails(u, p)
  <2>1. task' = task \/ \E p : task' = [task EXCEPT ![u].pc = "registering", ![u].p = p,
                                                   ![u].sha = folder[p]]
    BY <1>7 DEF HashFile, HashFails
  <2>2. \A p : task' = [task EXCEPT ![u].pc = "registering", ![u].p = p, ![u].sha = folder[p]]
          => task'[u].pc = "registering"
    BY <1>1 DEF Work
  <2> QED
    BY <1>3, <2>1, <2>2 DEF IngestSteps
<1>8. CASE QuarantineUnsafe(u)
  BY <1>1, <1>8 DEF QuarantineUnsafe, QuarantineFolder, Work, IngestSteps
<1>9. CASE RegisterFile(u)
  <2>1. CASE NextFile(u)
    BY <1>4, <2>1
  <2>2. CASE ~NextFile(u)
    <3>1. PICK s, purge : task' = [task EXCEPT ![u].pc = "reread", ![u].s = s, ![u].purge = purge]
      BY <1>9, <2>2 DEF RegisterFile
    <3>2. task'[u].pc = "reread"
      BY <1>1, <3>1 DEF Work
    <3> QED
      BY <3>2 DEF IngestSteps
  <2> QED
    BY <2>1, <2>2
<1>10. CASE Reread(u)
  <2>1. NextFile(u) \/ \E r : task' = [task EXCEPT ![u].pc = "withdraw", ![u].back = "register",
                                                  ![u].revision = r]
    BY <1>10 DEF Reread
  <2> QED
    BY <1>1, <1>4, <2>1 DEF Work, IngestSteps
<1>11. CASE ListSources(u) \/ Relist(u)
  BY <1>2, <1>11 DEF ListSources, Relist, IngestSteps
<1>12. CASE \E row : SweepLarge(u, row) \/ SweepGone(u, row) \/ SweepDead(u, row)
  <2>1. task' = task \/ \E row : RemovePageOf(u, row)
    BY <1>12 DEF SweepLarge, SweepGone, SweepDead
  <2> QED
    BY <1>1, <1>3, <2>1 DEF RemovePageOf, Work, IngestSteps
<1>13. CASE EndSweep(u)
  BY <1>2, <1>5, <1>13 DEF EndSweep, IngestSteps
<1>14. CASE LogRemoval(u) \/ \E x \in task[u].purge : Unlink(u, x)
  <2>1. \E x : \/ task' = [task EXCEPT ![u].pc = "withdraw", ![u].purge = @ \ {x}]
               \/ task' = [task EXCEPT ![u].purge = @ \ {x}]
               \/ task' = [task EXCEPT ![u].pc = "relist", ![u].listed = Published, ![u].s = x.s]
    BY <1>14 DEF LogRemoval, Unlink
  <2> QED
    BY <1>1, <2>1 DEF Work, IngestSteps
<1>15. CASE Withdrawn(u)
  <2>1. task[u].back \in {"register", "sweep", "quarantined"}
    BY <1>1, <1>15 DEF Withdrawn, At, IsNamed, Withdrawals
  <2>2. \/ NextFile(u) \/ task' = [task EXCEPT ![u] = Idle]
        \/ task' = [task EXCEPT ![u] = [Idle EXCEPT !.pc = "sweep"]]
    BY <1>15, <2>1 DEF Withdrawn
  <2> QED
    BY <1>1, <1>4, <1>5, <2>2 DEF Idle, IngestSteps
<1>16. CASE WithdrawFails(u)
  <2>1. NextFile(u) \/ \E pc \in {"unsafe", "idle"} :
                         task' = [task EXCEPT ![u] = [Idle EXCEPT !.pc = pc]]
    BY <1>16 DEF WithdrawFails
  <2> QED
    BY <1>1, <1>4, <2>1 DEF Idle, IngestSteps
<1> QED
  BY <1>6, <1>7, <1>8, <1>9, <1>10, <1>11, <1>12, <1>13, <1>14, <1>15, <1>16 DEF Reconciles

LEMMA IngestionGoesOn ==
  ASSUME WikiTyped, LifecycleInv, NEW u \in Tasks, Ingests(u), IngestionFits(u)
  PROVE  IngestionFits(u)'
<1> DEFINE w == task[u]
           Keeps == task'[u].s = w.s /\ task'[u].job = w.job
<1>1. task \in [Tasks -> Work] /\ IsNamed(w)
  BY DEF WikiTyped, TasksTyped
<1>2. /\ source \in [Sources -> SourceRow] /\ job \in [Jobs -> JobRow]
  BY Typed
<1>3. \A pc : Goto(u, pc) => task'[u].pc = pc /\ Keeps
  BY <1>1 DEF Goto, Work
<1>4. CASE \E r \in pass[u].pending : ClaimPending(u, r)
  <2>1. PICK r \in pass[u].pending : ClaimPending(u, r)
    BY <1>4
  <2>2. r.s \in Sources
    BY NamedDocuments
  <2>3. CASE task' = task
    BY <2>1, <2>3 DEF ClaimPending, At, IngestionFits, IngestSteps
  <2>4. CASE task' # task
    <3>1. PICK j \in Jobs :
            /\ ClaimIngestJob(j, r.s)
            /\ task' = [task EXCEPT ![u] =
                 [Idle EXCEPT !.pc = "extract", !.s = r.s, !.p = r.p, !.sha = r.sha,
                              !.revision = r.revision, !.job = j]]
      BY <2>1, <2>4 DEF ClaimPending
    <3>2. task'[u].s = r.s /\ task'[u].job = j
      BY <1>1, <3>1 DEF Idle
    <3>3. /\ job'[j].kind = "ingest" /\ job'[j].state = "running" /\ job'[j].source = r.s
          /\ source'[r.s].status = "detected" /\ concept' = concept
      BY <1>2, <3>1 DEF ClaimIngestJob, StartJob
    <3>4. concept[r.s].status # "enriched"
      BY <2>2, <3>1 DEF ClaimIngestJob, LifecycleInv, ReanalysisIsOwned
    <3> QED
      BY <3>2, <3>3, <3>4 DEF IngestionFits, Settled
  <2> QED
    BY <2>3, <2>4
<1>5. CASE Extract(u)
  <2>1. /\ w.pc = "extract" /\ Keeps /\ task'[u].pc \in {"enrich", "superseded", "failed"}
        /\ UNCHANGED vars \/ MarkExtracted(w.job)
    BY <1>3, <1>5 DEF Extract, At
  <2>2. UNCHANGED <<job, concept>> /\ source'[w.s].status \notin Settled
    BY <1>1, <1>2, <2>1 DEF IngestionFits, IngestSteps, IsNamed, MarkExtracted, vars, SourceRow,
       Settled
  <2> QED
    BY <2>1, <2>2 DEF IngestionFits, IngestSteps
<1>6. CASE Enrich(u)
  <2>1. /\ w.pc = "enrich" /\ Keeps /\ task'[u].pc \in {"save", "superseded"}
        /\ UNCHANGED vars \/ MarkEnriched(w.job)
    BY <1>3, <1>6 DEF Enrich, At
  <2>2. UNCHANGED <<job, concept>> /\ source'[w.s].status \notin Settled
    BY <1>1, <1>2, <2>1 DEF IngestionFits, IngestSteps, IsNamed, MarkEnriched, vars, SourceRow,
       Settled
  <2> QED
    BY <2>1, <2>2 DEF IngestionFits, IngestSteps
<1>7. CASE Save(u) \/ Embed(u) \/ WriteDraft(u)
  <2>1. /\ w.pc \in IngestSteps /\ Keeps
        /\ task'[u].pc \in {"embed", "superseded", "draft", "failed", "completed"}
    BY <1>3, <1>7 DEF Save, Embed, WriteDraft, At, IngestSteps
  <2>2. UNCHANGED job
    BY <1>7 DEF Save, Embed, WriteDraft, SaveEnrichment, ReplaceChunks, vars
  <2> QED
    BY <2>1, <2>2 DEF IngestionFits
<1>8. CASE FinishIngest(u) \/ EndScan(u)
  <2>1. task'[u].pc \in {"process", "idle"}
    BY <1>1, <1>8 DEF FinishIngest, EndScan, Idle
  <2> QED
    BY <2>1 DEF IngestionFits, IngestSteps
<1> QED
  BY <1>4, <1>5, <1>6, <1>7, <1>8 DEF Ingests

LEMMA IngestionStays ==
  ASSUME Runs, PassesDoNotOverlap, PassesDoNotOverlap', PassInv, PassInv', WikiTyped,
         LifecycleInv, [WikiNext]_wikiVars, NEW u \in Tasks, IngestionFits(u)
  PROVE  IngestionFits(u)'
<1> DEFINE w == task[u]
<1>1. CASE w.pc \in IngestSteps /\ ~Ingests(u)
  <2>1. task'[u] = w /\ Beside /\ w.job \in Jobs /\ w.s \in Sources
    BY <1>1, OthersRun, PassOf DEF IsNamed
  <2>2. job'[w.job] = job[w.job]
    BY <1>1, <2>1, IngestionRuns DEF IngestionFits
  <2>3. w.pc \in {"extract", "enrich", "save"} =>
          source'[w.s].status \notin Settled /\ concept'[w.s].status # "enriched"
    BY <2>1, UnsettledStays DEF IngestionFits
  <2> QED
    BY <2>1, <2>2, <2>3 DEF IngestionFits
<1>2. CASE w.pc \notin IngestSteps /\ ~Ingests(u)
  <2>1. task'[u].pc \notin IngestSteps
    <3> SUFFICES ASSUME task'[u].pc \in IngestSteps PROVE FALSE
      OBVIOUS
    <3>1. u = "scan"
      BY DEF PassInv, TaskIsOrderly, RoleIsKept, Prepares
    <3>2. Works(u)
      BY <1>2, <3>1, RunsStep, WhoActs DEF Publisher
    <3>3. Starts(u) \/ Reconciles(u)
      BY <1>2, <3>1, <3>2 DEF Works, PassInv, TaskIsOrderly, RoleIsKept, Reanalyzes, Regenerate,
         Redraft, Abandon, ReplaceFails, ReplaceDraft, StartReanalysis, At, ReanalysisSteps
    <3> QED
      BY <1>2, <3>3, PassIsNoIngestion
  <2> QED
    BY <2>1 DEF IngestionFits, IngestSteps
<1> QED
  BY <1>1, <1>2, IngestionGoesOn

-------------------------------------------------------------------------------
(* Whoever makes a proposal evident owes its page                              *)

(* The same proposal was evident before.                                       *)
SameEvidence(s) == Evident(s) /\ VersionOf(s)' = VersionOf(s)

LEMMA StatusKeepsEvidence ==
  ASSUME LifecycleInv, NEW S, NEW status, UNCHANGED chunks, NEW s \in Sources,
         source' = WithStatus(source, S, status), concept' = WithStatus(concept, S, status),
         s \in S /\ status \in Proposed => concept[s].status \in Proposed, Evident(s)'
  PROVE  SameEvidence(s)
<1>1. source[s] \in SourceRow /\ concept[s] \in ConceptRow
  BY Typed
<1>2. /\ concept'[s].status = IF s \in S /\ concept[s].status # "absent" THEN status
                              ELSE concept[s].status
      /\ concept'[s].draft = concept[s].draft
      /\ source'[s].sha = source[s].sha /\ source'[s].revision = source[s].revision
  BY <1>1 DEF WithStatus, SourceRow, ConceptRow
<1> QED
  BY <1>2 DEF SameEvidence, Evident, VersionOf

LEMMA UnchangedEvidence ==
  ASSUME UNCHANGED <<concept, chunks>>, NEW s \in Sources, Evident(s)',
         source'[s].sha = source[s].sha, source'[s].revision = source[s].revision
  PROVE  SameEvidence(s)
BY DEF SameEvidence, Evident, VersionOf

(* A pass makes nothing evident: what it registers or withdraws has no evidence. *)
LEMMA PassShowsNothing ==
  ASSUME WikiTyped, LifecycleInv, NEW t \in Tasks, Starts(t) \/ Reconciles(t), NEW s \in Sources,
         Evident(s)'
  PROVE  SameEvidence(s)
<1>1. /\ source \in [Sources -> SourceRow] /\ concept \in [Sources -> ConceptRow]
  BY Typed
<1>2. ASSUME NEW S, NEW status, Withdraw(S, status), s \notin S => source'[s] = source[s]
      PROVE  SameEvidence(s)
  <2>1. s \notin S
    BY <1>2 DEF Withdraw, WithoutChunks, Evident
  <2>2. chunks'[s] = chunks[s] /\ concept'[s] = concept[s] /\ source'[s] = source[s]
    BY <1>2, <2>1 DEF Withdraw, WithoutChunks, WithStatus
  <2> QED
    BY <2>2 DEF SameEvidence, Evident, VersionOf
<1>3. CASE UNCHANGED vars
  BY <1>3, UnchangedEvidence DEF vars
<1>4. CASE QuarantineCollection \/ \E u \in Sources : MarkDeleted(u) \/ QuarantineSource(u)
  <2>1. PICK S : \E status \in {"failed", "deleted"} :
          source' = WithStatus(source, S, status) /\ Withdraw(S, status)
    BY <1>4 DEF QuarantineCollection, MarkDeleted, QuarantineSource
  <2>2. s \notin S => source'[s] = source[s]
    BY <2>1 DEF WithStatus
  <2> QED
    BY <1>2, <2>1, <2>2
<1>5. CASE Register
  <2>1. PICK u \in Sources, p \in Paths, h \in Hashes :
          \/ RegisterRetry(u, p, h) \/ RegisterReplaced(u, p, h)
          \/ \E missing \in SUBSET Paths :
               RegisterMoved(u, p, h, missing) \/ RegisterNew(u, p, h, missing)
    BY <1>5 DEF Register
  <2>2. u # s => source'[s] = source[s]
    BY <1>1, <2>1 DEF RegisterRetry, RegisterReplaced, RegisterMoved, RegisterNew
  <2>3. Withdraw({u}, "needs_review") => SameEvidence(s)
    BY <1>2, <2>2
  <2>4. CASE \E missing \in SUBSET Paths : RegisterNew(u, p, h, missing)
    <3>1. UNCHANGED <<concept, chunks>> /\ source[u].status = "absent"
      BY <2>4 DEF RegisterNew, Exists
    <3>2. u = s => chunks[s] = 0
      <4>1. u = s => source[s].revision = 0 /\ chunks[s] \in {0, source[s].revision}
        BY <3>1 DEF LifecycleInv, AbsentRowsAreEmpty, EvidenceIsCurrent
      <4> QED
        BY <4>1
    <3> QED
      BY <2>2, <3>1, <3>2, UnchangedEvidence DEF Evident
  <2>5. CASE \E missing \in SUBSET Paths : RegisterMoved(u, p, h, missing)
    <3>1. CASE UNCHANGED <<concept, chunks>> /\ source' = [source EXCEPT ![u].path = p]
      BY <1>1, <3>1, UnchangedEvidence DEF SourceRow
    <3> QED
      BY <2>3, <2>5, <3>1 DEF RegisterMoved
  <2> QED
    BY <2>1, <2>3, <2>4, <2>5 DEF RegisterRetry, RegisterReplaced
<1> QED
  BY <1>3, <1>4, <1>5, PassTransactions

(* An ingestion that indexes a proposal goes on to write its page.             *)
LEMMA IngestionOwes ==
  ASSUME DraftInv, WikiTyped, LifecycleInv, NEW t \in Tasks, Ingests(t), NEW s \in Sources,
         Evident(s)', ~SameEvidence(s)
  PROVE  Owed(s)'
<1> DEFINE w == task[t]
<1>1. /\ source \in [Sources -> SourceRow] /\ concept \in [Sources -> ConceptRow]
      /\ task \in [Tasks -> Work] /\ IsNamed(w) /\ IngestionFits(t)
  BY Typed DEF WikiTyped, TasksTyped, DraftInv
<1>2. ~UNCHANGED vars
  BY UnchangedEvidence DEF vars
<1>3. ~ \E r \in pass[t].pending : ClaimPending(t, r)
  BY <1>2, UnchangedEvidence DEF ClaimPending, ClaimIngestJob
<1>4. ~Extract(t) /\ ~Enrich(t)
  <2>1. \A u, status : source' = [source EXCEPT ![u].status = status] =>
          source'[s].sha = source[s].sha /\ source'[s].revision = source[s].revision
    BY <1>1 DEF SourceRow
  <2> QED
    BY <1>2, <2>1, UnchangedEvidence DEF Extract, Enrich, MarkExtracted, MarkEnriched
<1>5. ~Save(t)
  <2> SUFFICES ASSUME Save(t) PROVE FALSE
    OBVIOUS
  <2>1. PICK d \in Drafts : w.pc = "save" /\ SaveEnrichment(w.job, d)
    BY <1>2 DEF Save, At
  <2>2. job[w.job].source = w.s /\ w.s \in Sources /\ concept[w.s].status # "enriched"
    BY <1>1, <2>1 DEF IngestionFits, IngestSteps, IsNamed
  <2>3. chunks[w.s] = 0
    BY <2>1, <2>2 DEF DraftInv, RowsMatch, SaveEnrichment, IngestOwns
  <2>4. s # w.s
    BY <2>1, <2>3 DEF SaveEnrichment, Evident
  <2>5. /\ source'[s] = source[s] /\ concept'[s] = concept[s] /\ chunks' = chunks
    BY <1>1, <2>1, <2>2, <2>4 DEF SaveEnrichment
  <2> QED
    BY <2>5 DEF SameEvidence, Evident, VersionOf
<1>6. CASE Embed(t)
  <2>1. w.pc = "embed" /\ ReplaceChunks(w.job) /\ Goto(t, "draft")
    BY <1>2, <1>6 DEF Embed, At
  <2>2. job[w.job].source = w.s /\ w.s \in Sources
    BY <1>1, <2>1 DEF IngestionFits, IngestSteps, IsNamed
  <2>3. s = w.s
    <3>1. s # w.s => chunks'[s] = chunks[s]
      BY <2>1, <2>2, Typed DEF ReplaceChunks
    <3> QED
      BY <2>1, <3>1 DEF ReplaceChunks, SameEvidence, Evident, VersionOf
  <2>4. task'[t].pc = "draft" /\ task'[t].s = s
    BY <1>1, <2>1, <2>3 DEF Goto, Work
  <2> QED
    BY <2>4 DEF Owed
<1>7. ~WriteDraft(t) /\ ~EndScan(t)
  BY <1>2 DEF WriteDraft, EndScan
<1>8. ~FinishIngest(t)
  <2> SUFFICES ASSUME FinishIngest(t) PROVE FALSE
    OBVIOUS
  <2>1. CompleteIngestJob(w.job) \/ \E failed : FailIngestJob(w.job, failed)
    BY <1>2 DEF FinishIngest
  <2>2. UNCHANGED <<source, concept, chunks>>
        \/ \E S : /\ source' = WithStatus(source, S, "failed")
                  /\ concept' = WithStatus(concept, S, "failed") /\ UNCHANGED chunks
    BY <2>1 DEF CompleteIngestJob, FailIngestJob
  <2> QED
    BY <2>2, UnchangedEvidence, StatusKeepsEvidence DEF Proposed
<1> QED
  BY <1>3, <1>4, <1>5, <1>6, <1>7, <1>8 DEF Ingests

(* A reanalysis that replaces a proposal goes on to write its page.            *)
LEMMA ReanalysisOwes ==
  ASSUME DraftInv, WikiTyped, LifecycleInv, NEW t \in Tasks,
         Reanalyzes(t) \/ \E u \in Sources, j \in Jobs : StartReanalysis(t, u, j),
         NEW s \in Sources, Evident(s)', ~SameEvidence(s)
  PROVE  Owed(s)'
<1> DEFINE w == task[t]
<1>1. /\ source \in [Sources -> SourceRow] /\ concept \in [Sources -> ConceptRow]
      /\ task \in [Tasks -> Work] /\ IsNamed(w) /\ ReanalysisFits(t)
  BY Typed DEF WikiTyped, TasksTyped, DraftInv
<1>2. ~UNCHANGED vars
  BY UnchangedEvidence DEF vars
<1>3. ~ \E u \in Sources, j \in Jobs : StartReanalysis(t, u, j)
  <2> SUFFICES ASSUME NEW u \in Sources, NEW j \in Jobs, StartReanalysis(t, u, j) PROVE FALSE
    OBVIOUS
  <2>1. /\ source' = WithStatus(source, {u}, "enriched") /\ UNCHANGED chunks
        /\ concept' = WithStatus(concept, {u}, "enriched")
        /\ concept[u].status \in {"needs_review", "excluded"}
    BY DEF StartReanalysis, BeginReanalysis, AwaitingReview
  <2> QED
    BY <2>1, StatusKeepsEvidence DEF Proposed
<1>4. CASE \E d \in Drafts : ReplaceDraft(t, d)
  <2>1. PICK d \in Drafts : w.pc = "replace" /\ CompleteReanalysis(w.job, d) /\ Goto(t, "redraft")
    BY <1>4 DEF ReplaceDraft, At
  <2>2. job[w.job].source = w.s /\ w.s \in Sources
    BY <1>1, <2>1 DEF ReanalysisFits, ReanalysisSteps, IsNamed
  <2>3. s = w.s
    <3>1. s # w.s => /\ chunks'[s] = chunks[s] /\ source'[s] = source[s] /\ concept'[s] = concept[s]
      BY <1>1, <2>1, <2>2, Typed DEF CompleteReanalysis, WithStatus
    <3> QED
      BY <3>1 DEF SameEvidence, Evident, VersionOf
  <2>4. task'[t].pc = "redraft" /\ task'[t].s = s
    BY <1>1, <2>1, <2>3 DEF Goto, Work
  <2> QED
    BY <2>4 DEF Owed
<1>5. ~Redraft(t)
  BY <1>2, StatusKeepsEvidence DEF Redraft, MarkSourceFailed, Proposed
<1>6. ~Abandon(t)
  <2> SUFFICES ASSUME Abandon(t) PROVE FALSE
    OBVIOUS
  <2>1. FailReanalysis(w.job)
    BY <1>2 DEF Abandon
  <2>2. CASE UNCHANGED <<source, concept>>
    BY <2>1, <2>2, UnchangedEvidence DEF FailReanalysis
  <2>3. CASE ~UNCHANGED <<source, concept>>
    <3>1. /\ source' = WithStatus(source, {job[w.job].source}, "needs_review")
          /\ concept' = WithStatus(concept, {job[w.job].source}, "needs_review")
          /\ UNCHANGED chunks /\ concept[job[w.job].source].status = "enriched"
      BY <2>1, <2>3 DEF FailReanalysis, Reanalyzing
    <3> QED
      BY <3>1, StatusKeepsEvidence DEF Proposed
  <2> QED
    BY <2>2, <2>3
<1>7. ~Regenerate(t) /\ ~ReplaceFails(t)
  BY <1>2 DEF Regenerate, ReplaceFails
<1> QED
  BY <1>3, <1>4, <1>5, <1>6, <1>7 DEF Reanalyzes

(* A publisher that gives a proposal back still claims it, or restores its page. *)
LEMMA CancelOwes ==
  ASSUME PassInv, WikiTyped, LifecycleInv, [WikiNext]_wikiVars, Publisher \in Tasks,
         BeginCancel \/ FinishCancel, NEW s \in Sources, Claimed(s)
  PROVE  Owed(s)'
<1>1. task \in [Tasks -> Work]
  BY DEF WikiTyped, TasksTyped
<1>2. task[Publisher].job = claim /\ claim \in Jobs
  BY Typed DEF BeginCancel, FinishCancel, At, PassInv, PublisherHoldsClaim, Claiming, Claimed
<1>3. job'[claim].source = s
  BY <1>2, HeldJobStays DEF Claimed
<1>4. CASE BeginCancel
  BY <1>3, <1>4 DEF BeginCancel, MarkPublicationCancelling, Owed, Claimed
<1>5. CASE FinishCancel
  <2>1. task'[Publisher].pc = "restore" /\ task'[Publisher].job = claim
    BY <1>1, <1>2, <1>5 DEF FinishCancel, Goto, Work
  <2> QED
    BY <1>3, <2>1 DEF Owed
<1> QED
  BY <1>4, <1>5

LEMMA PublisherOwes ==
  ASSUME PassInv, WikiTyped, LifecycleInv, [WikiNext]_wikiVars, Publisher \in Tasks,
         Publishes \/ \E u \in Sources : StartApproval(u),
         NEW s \in Sources, Evident(s)', ~SameEvidence(s)
  PROVE  Owed(s)'
<1> DEFINE w == task[Publisher]
<1>1. /\ source \in [Sources -> SourceRow] /\ concept \in [Sources -> ConceptRow]
  BY Typed
<1>2. ~UNCHANGED vars
  BY UnchangedEvidence DEF vars
<1>3. ~ \/ \E u \in Sources : StartApproval(u)
        \/ RecoverClaim \/ ApproveFails \/ WritePage \/ WriteIndex \/ WriteLog
        \/ DiscardPage \/ Unlist
  BY <1>2 DEF StartApproval, RecoverClaim, ApproveFails, WritePage, WriteIndex, WriteLog,
     DiscardPage, Unlist
<1>4. ~ \E j \in Jobs, d \in Drafts : Approve(j, d)
  <2> SUFFICES ASSUME NEW j \in Jobs, NEW d \in Drafts, Approve(j, d) PROVE FALSE
    OBVIOUS
  <2>1. /\ w.s \in Sources /\ UNCHANGED chunks /\ source' = WithStatus(source, {w.s}, "publishing")
        /\ concept' = [concept EXCEPT ![w.s] = [status |-> "publishing", draft |-> d]]
    BY PublisherWork DEF Approve, At, BeginPublication
  <2>2. s # w.s
    BY <1>1, <2>1 DEF Evident, Proposed
  <2>3. source'[s] = source[s] /\ concept'[s] = concept[s]
    BY <1>1, <2>1, <2>2 DEF WithStatus
  <2> QED
    BY <2>1, <2>3 DEF SameEvidence, Evident, VersionOf
<1>5. ~Commit
  BY <1>2, StatusKeepsEvidence DEF Commit, CompletePublication, Proposed
<1>6. ~RestoreDraft
  BY <1>2, StatusKeepsEvidence DEF RestoreDraft, MarkSourceFailed, Proposed
<1>7. CASE BeginCancel \/ FinishCancel
  <2>1. w.job = claim /\ claim \in Jobs /\ ReturnClaimed(claim) /\ UNCHANGED chunks
    BY <1>7, PublisherWork
       DEF BeginCancel, FinishCancel, At, PublisherSteps, MarkPublicationCancelling,
           FinishPublicationCancellation
  <2>2. job[claim].source = s
    <3> SUFFICES ASSUME job[claim].source # s PROVE FALSE
      OBVIOUS
    <3>1. source'[s] = source[s] /\ concept'[s] = concept[s]
      BY <2>1 DEF ReturnClaimed, WithStatus
    <3> QED
      BY <2>1, <3>1 DEF SameEvidence, Evident, VersionOf
  <2> QED
    BY <1>7, <2>1, <2>2, CancelOwes, NoneAssumption DEF Claimed
<1> QED
  BY <1>3, <1>4, <1>5, <1>6, <1>7 DEF Publishes

LEMMA NewlyEvident ==
  ASSUME Runs, DraftInv, PassInv, WikiTyped, LifecycleInv, [WikiNext]_wikiVars,
         NEW s \in Sources, Evident(s)', ~SameEvidence(s)
  PROVE  Owed(s)'
<1>1. ~ \/ UNCHANGED wikiVars
        \/ \E p \in Paths, content \in Hashes \union {None} : EditFolder(p, content)
        \/ \E p, q \in Paths : RenameFile(p, q)
  BY UnchangedEvidence DEF wikiVars, vars, EditFolder, RenameFile
<1>2. ~ \E u \in Sources : Person(u)
  <2> SUFFICES ASSUME NEW u \in Sources, Person(u) PROVE FALSE
    OBVIOUS
  <2>1. CASE ShowReview(u)
    BY <2>1, UnchangedEvidence DEF ShowReview
  <2>2. CASE ExcludeReview(u)
    <3>1. /\ source' = WithStatus(source, {u}, "excluded") /\ UNCHANGED chunks
          /\ concept' = WithStatus(concept, {u}, "excluded")
          /\ concept[u].status \in {"needs_review", "excluded"}
      BY <2>2 DEF ExcludeReview, AwaitingReview
    <3> QED
      BY <3>1, StatusKeepsEvidence DEF Proposed
  <2> QED
    BY <2>1, <2>2 DEF Person
<1> QED
  BY <1>1, <1>2, RunsStep, PassShowsNothing, IngestionOwes, ReanalysisOwes, PublisherOwes
     DEF WikiNext, TaskStep

-------------------------------------------------------------------------------
(* Who owes the page writes it, or fails the document                          *)

LEMMA WritersAct ==
  ASSUME NEW t \in Tasks, Works(t)
  PROVE  /\ task[t].pc = "draft" => WriteDraft(t)
         /\ task[t].pc = "failed" => FinishIngest(t)
         /\ task[t].pc = "redraft" => Redraft(t)
BY DEF Works, Starts, StartPass, Quarantine, Reconciles, HashFile, HashFails, QuarantineUnsafe,
   RegisterFile, Reread, ListSources, SweepLarge, SweepGone, SweepDead, EndSweep, Unlink, Relist,
   LogRemoval, Withdrawn, WithdrawFails, Ingests, ClaimPending, Extract, Enrich, Save, Embed,
   WriteDraft, FinishIngest, EndScan, Reanalyzes, StartReanalysis, Regenerate, Redraft, Abandon,
   ReplaceFails, ReplaceDraft, At

(* A document that fails has no proposal under review.                         *)
LEMMA FailedIsNotEvident ==
  ASSUME LifecycleInv, NEW s \in Sources, concept' = WithStatus(concept, {s}, "failed")
  PROVE  ~Evident(s)'
BY Typed DEF WithStatus, Evident, Proposed, ConceptRow

Current(s) == page[s] = PageOf(s, "draft")

LEMMA WriterPays ==
  ASSUME Runs, DraftInv, PassInv, WikiTyped, LifecycleInv, [WikiNext]_wikiVars,
         NEW s \in Sources, SameEvidence(s), Evident(s)', NEW t \in Tasks,
         task[t].pc \in {"draft", "failed", "redraft"}, task[t].s = s
  PROVE  Current(s)' \/ Owed(s)'
<1> DEFINE w == task[t]
<1>1. /\ task \in [Tasks -> Work] /\ IsNamed(w) /\ IngestionFits(t)
      /\ page \in [Sources -> {NoPage} \union [kind : {"draft", "stable"}, version : Version]]
  BY DEF WikiTyped, TasksTyped, FilesTyped, DraftInv
<1>2. page' = [page EXCEPT ![s] = PageOf(s, "draft")] => Current(s)'
  BY <1>1 DEF Current, SameEvidence, PageOf
<1>3. CASE task'[t] = w
  BY <1>3 DEF Owed
<1>4. CASE task'[t] # w
  <2>1. Works(t)
    BY <1>4, RunsStep, WhoActs, PublisherGoesTo DEF PublisherSteps
  <2>2. CASE w.pc = "draft"
    <3>1. WriteDraft(t)
      BY <2>1, <2>2, WritersAct
    <3>2. Goto(t, "failed") => task'[t].pc = "failed" /\ task'[t].s = s
      BY <1>1 DEF Goto, Work
    <3> QED
      BY <1>2, <3>1, <3>2 DEF WriteDraft, Owed
  <2>3. CASE w.pc = "failed"
    <3>1. FinishIngest(t)
      BY <2>1, <2>3, WritersAct
    <3>2. /\ w.job \in Jobs /\ job[w.job].kind = "ingest" /\ job[w.job].state = "running"
          /\ job[w.job].source = s
      BY <1>1, <2>3 DEF IngestionFits, IngestSteps, IsNamed
    <3>3. FailIngestJob(w.job, TRUE)
      BY <2>3, <3>1, <3>2 DEF FinishIngest, At
    <3>4. Owns(w.job, "ingest")
      BY <3>2 DEF LifecycleInv, IngestIsExclusive
    <3>5. source[s].status \notin {"published", "deleted"}
      BY DEF SameEvidence, Evident, Proposed, DraftInv, RowsMatch
    <3>6. concept' = WithStatus(concept, {s}, "failed")
      BY <3>2, <3>3, <3>4, <3>5 DEF FailIngestJob
    <3> QED
      BY <3>6, FailedIsNotEvident
  <2>4. CASE w.pc = "redraft"
    <3>1. Redraft(t)
      BY <2>1, <2>4, WritersAct
    <3> QED
      BY <1>2, <3>1, FailedIsNotEvident DEF Redraft, MarkSourceFailed
  <2> QED
    BY <2>2, <2>3, <2>4
<1> QED
  BY <1>3, <1>4

LEMMA PublisherPays ==
  ASSUME Runs, PassInv, WikiTyped, LifecycleInv, [WikiNext]_wikiVars,
         NEW s \in Sources, SameEvidence(s), Evident(s)', Publisher \in Tasks,
         task[Publisher].pc = "restore", job[task[Publisher].job].source = s
  PROVE  Current(s)' \/ Owed(s)'
<1> DEFINE w == task[Publisher]
<1>1. page \in [Sources -> {NoPage} \union [kind : {"draft", "stable"}, version : Version]]
  BY DEF WikiTyped, FilesTyped
<1>2. page' = [page EXCEPT ![s] = PageOf(s, "draft")] => Current(s)'
  BY <1>1 DEF Current, SameEvidence, PageOf
<1>3. CASE task'[Publisher] = w
  <2>1. w.job \in Jobs
    BY PublisherWork DEF PublisherSteps
  <2> QED
    BY <1>3, <2>1, HeldJobStays DEF Owed
<1>4. CASE task'[Publisher] # w
  <2>1. Publishes \/ \E u \in Sources : StartApproval(u)
    BY <1>4, RunsStep, WhoActs
  <2>2. RestoreDraft
    BY <2>1 DEF Publishes, StartApproval, RecoverClaim, Approve, ApproveFails, WritePage,
       WriteIndex, WriteLog, Commit, BeginCancel, DiscardPage, Unlist, FinishCancel, At
  <2> QED
    BY <1>2, <2>2, FailedIsNotEvident DEF RestoreDraft, MarkSourceFailed
<1> QED
  BY <1>3, <1>4

LEMMA ClaimantPays ==
  ASSUME PassInv, WikiTyped, LifecycleInv, [WikiNext]_wikiVars,
         NEW s \in Sources, Evident(s)', Claimed(s)
  PROVE  Owed(s)'
<1>1. CASE claim' = claim
  BY <1>1, WikiStep, ClaimNamesTheSame DEF Owed, Claimed
<1>2. CASE claim' # claim
  <2>1. /\ Publisher \in Tasks
        /\ CompletePublication(claim) \/ FinishCancel
    BY <1>2, ClaimEnds DEF Claimed
  <2>2. ~CompletePublication(claim)
    BY Typed DEF CompletePublication, MayCommit, Publishing, Claimed, WithStatus, Evident, Proposed,
       ConceptRow
  <2> QED
    BY <2>1, <2>2, CancelOwes
<1> QED
  BY <1>1, <1>2

(* A current page is only taken by the publisher, who claims the document: what  *)
(* a pass purges is out of review.                                             *)
LEMMA PageIsKept ==
  ASSUME DraftInv, PassInv, WikiTyped, LifecycleInv, [WikiNext]_wikiVars, NEW s \in Sources,
         SameEvidence(s), Evident(s)', Current(s)
  PROVE  Current(s)' \/ Owed(s)'
<1>1. page \in [Sources -> {NoPage} \union [kind : {"draft", "stable"}, version : Version]]
  BY DEF WikiTyped, FilesTyped
<1>2. CASE page'[s] = page[s]
  BY <1>2 DEF Current, SameEvidence, PageOf
<1>3. CASE page'[s] # page[s]
  <2>1. ~ \E t \in Tasks : \E x \in task[t].purge : task[t].pc = "withdraw" /\ Unprints(x.s)
    <3> SUFFICES ASSUME NEW t \in Tasks, NEW x \in task[t].purge, task[t].pc = "withdraw",
                        Unprints(x.s)
                 PROVE  FALSE
      OBVIOUS
    <3>1. x.s = s
      BY <1>1, <1>3 DEF Unprints
    <3>2. source[s].status \in OutStatuses
      BY <3>1 DEF PassInv, TaskIsOrderly, PurgesOutDocuments, Withdrawals, Out
    <3> QED
      BY <3>2 DEF SameEvidence, Evident, Proposed, DraftInv, RowsMatch, OutStatuses
  <2>2. ASSUME NEW u \in Sources, Prints(u, "draft") PROVE Current(s)'
    <3>1. u = s /\ page'[s] = PageOf(s, "draft")
      BY <1>1, <1>3, <2>2 DEF Prints
    <3> QED
      BY <3>1 DEF Current, SameEvidence, PageOf
  <2>3. ASSUME Publisher \in Tasks, WritePage \/ DiscardPage,
               Unprints(job[task[Publisher].job].source)
                 \/ Prints(job[task[Publisher].job].source, "stable")
        PROVE  Claimed(s)
    <3>1. job[task[Publisher].job].source = s
      BY <1>1, <1>3, <2>3 DEF Unprints, Prints
    <3>2. task[Publisher].pc \in {"page", "discard"} /\ task[Publisher].job = claim
      BY <2>3 DEF WritePage, DiscardPage, At, PassInv, PublisherHoldsClaim, Claiming, Materializing
    <3>3. claim \in Jobs
      BY <2>3, <3>2, PublisherWork DEF PublisherSteps
    <3> QED
      BY <3>1, <3>2, <3>3, NoneAssumption DEF Claimed
  <2> QED
    BY <1>3, <2>1, <2>2, <2>3, PagesChange, ClaimantPays
<1> QED
  BY <1>2, <1>3

-------------------------------------------------------------------------------

LEMMA DraftStep ==
  ASSUME Runs, DraftInv, PassesDoNotOverlap, PassesDoNotOverlap', PassInv, PassInv', WikiTyped,
         LifecycleInv, [WikiNext]_wikiVars
  PROVE  DraftInv'
<1>1. RowsMatch'
  BY RunsStep, RunningTransactions, RowsMatchStep DEF DraftInv
<1>2. ASSUME NEW s \in Sources, Evident(s)' PROVE Current(s)' \/ Owed(s)'
  <2>1. CASE ~SameEvidence(s)
    BY <1>2, <2>1, NewlyEvident
  <2>2. CASE SameEvidence(s)
    <3>1. Current(s) \/ Owed(s)
      BY <2>2 DEF SameEvidence, DraftInv, Current
    <3> QED
      BY <1>2, <2>2, <3>1, PageIsKept, ClaimantPays, WriterPays, PublisherPays DEF Owed
  <2> QED
    BY <2>1, <2>2
<1> QED
  BY <1>1, <1>2, RunsStep, IngestionStays, ReanalysisStays DEF DraftInv, Current

LEMMA DraftStart == WikiInit => DraftInv
<1> SUFFICES ASSUME WikiInit PROVE DraftInv
  OBVIOUS
<1>1. /\ \A t \in Tasks : task[t].pc = "idle"
      /\ \A s \in Sources : source[s].status = "absent" /\ chunks[s] = 0
  BY DEF WikiInit, Init, Idle, AbsentSource
<1> QED
  BY <1>1 DEF DraftInv, RowsMatch, IngestionFits, IngestSteps, ReanalysisFits, Evident

(* At rest nobody owes a page.                                                 *)
LEMMA QuietIsCurrent ==
  ASSUME DraftInv
  PROVE  DraftPageIsCurrent
<1> SUFFICES ASSUME Quiet, NEW s \in Sources, AwaitingReview(s), chunks[s] # 0
             PROVE  page[s] = PageOf(s, "draft")
  BY DEF DraftPageIsCurrent
<1>1. Evident(s) /\ ~Owed(s)
  BY DEF Quiet, At, AwaitingReview, Evident, Proposed, Owed, Claimed
<1> QED
  BY <1>1 DEF DraftInv

(* While the passes of a wiki do not overlap and the process has not restarted,  *)
(* the draft page of a proposal with evidence is, whenever no task runs, the   *)
(* proposal an approval would publish, whatever failed before                  *)
(* (FolderWiki!DraftPageIsCurrent).                                            *)
THEOREM DraftPageAlwaysCurrent ==
  WikiSpec /\ []PassesDoNotOverlap => [](restarts = 0 => DraftPageIsCurrent)
<1> DEFINE Inv == Counted /\ (restarts = 0 => DraftInv)
<1>1. WikiInit => Inv
  BY BundleStart, DraftStart
<1>2. Inv /\ PassesDoNotOverlap /\ PassesDoNotOverlap' /\ PassInv /\ PassInv' /\ WikiTyped
        /\ LifecycleInv /\ [WikiNext]_wikiVars => Inv'
  <2> SUFFICES ASSUME Inv, PassesDoNotOverlap, PassesDoNotOverlap', PassInv,
                      PassInv', WikiTyped, LifecycleInv, [WikiNext]_wikiVars, restarts' = 0
               PROVE  DraftInv'
    BY CountedStep
  <2>1. Runs /\ DraftInv
    BY CountedStep DEF Counted, Runs
  <2> QED
    BY <2>1, DraftStep
<1>3. Inv => (restarts = 0 => DraftPageIsCurrent)
  BY QuietIsCurrent
<1> QED
  BY <1>1, <1>2, <1>3, PassesAreOrderly, WikiRunsTheTables, PTL DEF WikiSpec

================================================================================
