---------------------------- MODULE SourceLifecycle ----------------------------
(***************************************************************************)
(* The operational state SQLite keeps for one folder wiki of AirWiki: the  *)
(* source documents, their concepts, the evidence chunks, the jobs and the *)
(* durable publication claim (crates/airwiki-core/src/storage.rs).         *)
(*                                                                         *)
(* Every method of Database runs one SQLite transaction under the          *)
(* connection mutex, so every action below is one transaction.  Who calls  *)
(* it and when is left open: scans, ingestion workers, reanalyses,         *)
(* approvals, quarantines and recoveries interleave freely, and a worker   *)
(* may hold a claim long after the database moved on.  FolderWiki.tla      *)
(* fixes the callers and adds the files.                                   *)
(***************************************************************************)
EXTENDS Naturals, FiniteSets

CONSTANTS
  Sources,      \* identities a source_documents row can get
  Paths,        \* paths inside the watched folder
  Hashes,       \* contents a file can have (their SHA-256)
  Drafts,       \* contents a proposal can have
  Jobs,         \* identities a jobs row can get
  MaxRevision,  \* bound on source_documents.revision
  None

ASSUME BoundAssumption == MaxRevision \in Nat \ {0}
ASSUME NoneAssumption ==
  /\ None \notin Hashes /\ None \notin Drafts /\ None \notin Jobs
  /\ None \notin Paths /\ None \notin Sources

VARIABLES
  source,    \* source_documents: status, hash, revision, path, concept_id set
  concept,   \* concepts: status and the proposal it carries
  chunks,    \* source_revision of the chunks of the source, 0 when it has none
  job,       \* jobs, with the claim handed to the worker that owns the row
  claim,     \* job of the publication_claims row of the collection, or None
  shown,     \* review version the person has on screen, or None
  approved   \* what the person last approved (history variable)

vars == <<source, concept, chunks, job, claim, shown, approved>>

Settled == {"needs_review", "excluded", "publishing", "published"}
InFlight == {"detected", "extracted", "enriched"}
SourceStatus == Settled \union InFlight \union {"failed", "deleted", "absent"}
ConceptStatus ==
  {"absent", "needs_review", "excluded", "enriched", "publishing", "published",
   "failed", "deleted"}
JobKind == {"none", "ingest", "reanalyze", "publish"}
JobState == {"unused", "running", "cancelling", "finished"}

Revisions == 0..MaxRevision
SourceRow == [status : SourceStatus, sha : Hashes \union {None},
              revision : Revisions, path : Paths \union {None}, linked : BOOLEAN]
ConceptRow == [status : ConceptStatus, draft : Drafts \union {None}]
JobRow == [kind : JobKind, source : Sources \union {None}, sha : Hashes \union {None},
           revision : Revisions, state : JobState]
Version == [revision : Revisions, sha : Hashes, draft : Drafts]
ReviewToken == [revision : Revisions, sha : Hashes, draft : Drafts, evidence : Revisions]

ASSUME NoVersionAssumption == None \notin Version

AbsentSource ==
  [status |-> "absent", sha |-> None, revision |-> 0, path |-> None, linked |-> FALSE]
AbsentConcept == [status |-> "absent", draft |-> None]
UnusedJob ==
  [kind |-> "none", source |-> None, sha |-> None, revision |-> 0, state |-> "unused"]

Init ==
  /\ source = [s \in Sources |-> AbsentSource]
  /\ concept = [s \in Sources |-> AbsentConcept]
  /\ chunks = [s \in Sources |-> 0]
  /\ job = [j \in Jobs |-> UnusedJob]
  /\ claim = None
  /\ shown = [s \in Sources |-> None]
  /\ approved = [s \in Sources |-> None]

-------------------------------------------------------------------------------
(* Reading the tables *)

Exists(s) == source[s].status # "absent"

VersionOf(s) ==
  [revision |-> source[s].revision, sha |-> source[s].sha, draft |-> concept[s].draft]

(* What every exposure asks of a concept: publication_is_current and the      *)
(* search, browse and manifest queries.                                      *)
Searchable(s) ==
  /\ concept[s].status = "published"
  /\ source[s].status = "published"
  /\ chunks[s] # 0
  /\ chunks[s] = source[s].revision

RunningJobs(s, kind) ==
  {j \in Jobs : job[j].source = s /\ job[j].kind = kind /\ job[j].state = "running"}

ActiveIngest(s) == RunningJobs(s, "ingest") # {}

(* The job is still running and its claim still names the stored revision.    *)
Owns(j, kind) ==
  LET s == job[j].source IN
  /\ job[j].kind = kind
  /\ job[j].state = "running"
  /\ source[s].sha = job[j].sha
  /\ source[s].revision = job[j].revision

(* A mutant: a worker asks for the state it left the document in and no more.  *)
IngestStateOnly(j, status) ==
  /\ job[j].kind = "ingest"
  /\ source[job[j].source].status = status

IngestOwns(j, status) ==
  /\ Owns(j, "ingest")
  /\ source[job[j].source].status = status

AwaitingReview(s) ==
  /\ source[s].status \in {"needs_review", "excluded"}
  /\ concept[s].status = source[s].status
  /\ source[s].linked

(* Digest of the draft, the revision and the chunks (pending_review_snapshot).*)
ReviewVersion(s) ==
  [revision |-> source[s].revision, sha |-> source[s].sha,
   draft |-> concept[s].draft, evidence |-> chunks[s]]

-------------------------------------------------------------------------------
(* Parts of transactions *)

WithStatus(rows, S, status) ==
  [s \in Sources |-> IF s \in S /\ rows[s].status # "absent"
                     THEN [rows[s] EXCEPT !.status = status] ELSE rows[s]]

(* A finished job is history, and its identity is free for the next one; that  *)
(* bounds how many jobs are alive, not how many ever run.                     *)
StartJob(j, kind, s) ==
  /\ job[j].state \in {"unused", "finished"}
  /\ job' = [job EXCEPT ![j] = [kind |-> kind, source |-> s, sha |-> source[s].sha,
                                revision |-> source[s].revision, state |-> "running"]]

FinishJob(j) == job' = [job EXCEPT ![j].state = "finished"]

(* A mutant: reconciliation leaves the ingestion it overtakes running.         *)
LeaveIngestRunning(rows, S) == rows

SupersedeIngest(rows, S) ==
  [j \in Jobs |-> IF rows[j].kind = "ingest" /\ rows[j].state = "running"
                       /\ rows[j].source \in S
                  THEN [rows[j] EXCEPT !.state = "finished"] ELSE rows[j]]

CancelPublication(rows, S) ==
  [j \in Jobs |-> IF j = claim /\ rows[j].state = "running" /\ rows[j].source \in S
                  THEN [rows[j] EXCEPT !.state = "cancelling"] ELSE rows[j]]

(* A mutant: chunks of the withdrawn revision stay indexed.                   *)
KeepChunks(S) == chunks

WithoutChunks(S) == [s \in Sources |-> IF s \in S THEN 0 ELSE chunks[s]]

(* A mutant: the concept row keeps the state its source row lost.             *)
WithdrawSourceRowOnly(S, conceptStatus) ==
  /\ job' = CancelPublication(SupersedeIngest(job, S), S)
  /\ chunks' = WithoutChunks(S)
  /\ UNCHANGED <<concept, claim, shown, approved>>

(* supersede_active_ingest_jobs and withdraw_source on every source of S; the *)
(* concepts end in conceptStatus.                                            *)
Withdraw(S, conceptStatus) ==
  /\ job' = CancelPublication(SupersedeIngest(job, S), S)
  /\ chunks' = WithoutChunks(S)
  /\ concept' = WithStatus(concept, S, conceptStatus)
  /\ UNCHANGED <<claim, shown, approved>>

-------------------------------------------------------------------------------
(* Registration of one discovered file, path p with content h.  `missing` is   *)
(* the set of paths whose absence the file system confirms at that moment.     *)

RowsAt(p) == {s \in Sources : Exists(s) /\ source[s].path = p}

SameContent(h) == {s \in Sources : Exists(s) /\ source[s].sha = h}

(* A mutant: a document in preparation is taken for one that has a worker.     *)
RegisterKnownUnchanged(s, p, h) ==
  /\ s \in RowsAt(p)
  /\ source[s].sha = h
  /\ source[s].status \in Settled \union InFlight

(* The known bytes are settled, or a worker is still preparing them.          *)
RegisterUnchanged(s, p, h) ==
  /\ s \in RowsAt(p)
  /\ source[s].sha = h
  /\ \/ source[s].status \in Settled
     \/ source[s].status \in InFlight /\ ActiveIngest(s)

(* The same bytes, after a failure or an abandoned attempt: same revision.    *)
RegisterRetry(s, p, h) ==
  /\ s \in RowsAt(p)
  /\ source[s].sha = h
  /\ source[s].status # "deleted"
  /\ ~RegisterUnchanged(s, p, h)
  /\ source' = [source EXCEPT ![s].status = "detected"]
  /\ Withdraw({s}, "needs_review")

(* New bytes, or a restored tombstone: a new revision.                        *)
RegisterReplaced(s, p, h) ==
  /\ s \in RowsAt(p)
  /\ source[s].sha # h \/ source[s].status = "deleted"
  /\ source[s].revision < MaxRevision
  /\ source' = [source EXCEPT ![s].status = "detected", ![s].sha = h,
                              ![s].revision = @ + 1]
  /\ Withdraw({s}, "needs_review")

(* An unknown path whose bytes belong to exactly one row whose old path is    *)
(* gone: the row moves, and restarts unless it was settled.                   *)
IsMove(s, p, h, missing) ==
  /\ RowsAt(p) = {}
  /\ SameContent(h) = {s}
  /\ source[s].path \in missing

RegisterMoved(s, p, h, missing) ==
  /\ IsMove(s, p, h, missing)
  /\ IF source[s].status \in Settled
     THEN /\ source' = [source EXCEPT ![s].path = p]
          /\ UNCHANGED <<concept, chunks, job, claim, shown, approved>>
     ELSE /\ source' = [source EXCEPT ![s].path = p, ![s].status = "detected"]
          /\ Withdraw({s}, "needs_review")

RegisterNew(s, p, h, missing) ==
  /\ RowsAt(p) = {}
  /\ \A t \in Sources : ~IsMove(t, p, h, missing)
  /\ ~Exists(s)
  /\ source' = [source EXCEPT ![s] = [status |-> "detected", sha |-> h, revision |-> 1,
                                      path |-> p, linked |-> FALSE]]
  /\ UNCHANGED <<concept, chunks, job, claim, shown, approved>>

-------------------------------------------------------------------------------
(* Ingestion by the worker that holds job j *)

ClaimIngestJob(j, s) ==
  /\ source[s].status = "detected"
  /\ ~ActiveIngest(s)
  /\ StartJob(j, "ingest", s)
  /\ UNCHANGED <<source, concept, chunks, claim, shown, approved>>

MarkExtracted(j) ==
  /\ IngestOwns(j, "detected")
  /\ source' = [source EXCEPT ![job[j].source].status = "extracted"]
  /\ UNCHANGED <<concept, chunks, job, claim, shown, approved>>

MarkEnriched(j) ==
  /\ IngestOwns(j, "extracted")
  /\ source' = [source EXCEPT ![job[j].source].status = "enriched"]
  /\ UNCHANGED <<concept, chunks, job, claim, shown, approved>>

(* A mutant: the new concept is not linked from its source row.               *)
SaveUnlinked(j, d) ==
  LET s == job[j].source IN
  /\ IngestOwns(j, "enriched")
  /\ source' = [source EXCEPT ![s].status = "needs_review"]
  /\ concept' = [concept EXCEPT ![s] = [status |-> "needs_review", draft |-> d]]
  /\ UNCHANGED <<chunks, job, claim, shown, approved>>

SaveEnrichment(j, d) ==
  LET s == job[j].source IN
  /\ IngestOwns(j, "enriched")
  /\ source' = [source EXCEPT ![s].status = "needs_review", ![s].linked = TRUE]
  /\ concept' = [concept EXCEPT ![s] = [status |-> "needs_review", draft |-> d]]
  /\ UNCHANGED <<chunks, job, claim, shown, approved>>

ReplaceChunks(j) ==
  /\ IngestOwns(j, "needs_review")
  /\ chunks' = [chunks EXCEPT ![job[j].source] = job[j].revision]
  /\ UNCHANGED <<source, concept, job, claim, shown, approved>>

CompleteIngestJob(j) ==
  /\ job[j].kind = "ingest" /\ job[j].state = "running"
  /\ FinishJob(j)
  /\ UNCHANGED <<source, concept, chunks, claim, shown, approved>>

(* A superseded worker only closes its job; after any other failure it also    *)
(* fails the revision its claim names (markSource).                           *)
FailIngestJob(j, markSource) ==
  LET s == job[j].source
      fails == /\ markSource
               /\ Owns(j, "ingest")
               /\ source[s].status \notin {"published", "deleted"}
  IN
  /\ job[j].kind = "ingest" /\ job[j].state = "running"
  /\ FinishJob(j)
  /\ source' = IF fails THEN WithStatus(source, {s}, "failed") ELSE source
  /\ concept' = IF fails THEN WithStatus(concept, {s}, "failed") ELSE concept
  /\ UNCHANGED <<chunks, claim, shown, approved>>

-------------------------------------------------------------------------------
(* Human review and reanalysis *)

(* review_evidence_page hands out the version a later approval must repeat.   *)
ShowReview(s) ==
  /\ AwaitingReview(s)
  /\ shown' = [shown EXCEPT ![s] = ReviewVersion(s)]
  /\ UNCHANGED <<source, concept, chunks, job, claim, approved>>

(* The person sets aside the revision on screen; only its number is compared.  *)
(* The window offers it once the evidence is on screen                        *)
(* (ReviewWorkspace.svelte:81).                                               *)
ExcludeReview(s) ==
  /\ AwaitingReview(s)
  /\ shown[s] # None
  /\ shown[s].evidence # 0
  /\ shown[s].revision = source[s].revision
  /\ source' = WithStatus(source, {s}, "excluded")
  /\ concept' = WithStatus(concept, {s}, "excluded")
  /\ UNCHANGED <<chunks, job, claim, shown, approved>>

BeginReanalysis(j, s) ==
  /\ AwaitingReview(s)
  /\ StartJob(j, "reanalyze", s)
  /\ source' = WithStatus(source, {s}, "enriched")
  /\ concept' = WithStatus(concept, {s}, "enriched")
  /\ UNCHANGED <<chunks, claim, shown, approved>>

Reanalyzing(s) == source[s].status = "enriched" /\ concept[s].status = "enriched"

CompleteReanalysis(j, d) ==
  LET s == job[j].source IN
  /\ Owns(j, "reanalyze")
  /\ Reanalyzing(s)
  /\ FinishJob(j)
  /\ source' = WithStatus(source, {s}, "needs_review")
  /\ concept' = [concept EXCEPT ![s] = [status |-> "needs_review", draft |-> d]]
  /\ chunks' = [chunks EXCEPT ![s] = job[j].revision]
  /\ UNCHANGED <<claim, shown, approved>>

(* A mutant: the failed job is closed and the draft is left claimed.          *)
FailReanalysisJobOnly(j) ==
  /\ job[j].kind = "reanalyze" /\ job[j].state = "running"
  /\ FinishJob(j)
  /\ UNCHANGED <<source, concept, chunks, claim, shown, approved>>

FailReanalysis(j) ==
  LET s == job[j].source IN
  /\ job[j].kind = "reanalyze" /\ job[j].state = "running"
  /\ FinishJob(j)
  /\ IF Owns(j, "reanalyze") /\ Reanalyzing(s)
     THEN /\ source' = WithStatus(source, {s}, "needs_review")
          /\ concept' = WithStatus(concept, {s}, "needs_review")
     ELSE UNCHANGED <<source, concept>>
  /\ UNCHANGED <<chunks, claim, shown, approved>>

-------------------------------------------------------------------------------
(* Publication *)

(* A mutant: the version on screen is not revalidated in the transaction.     *)
PendingAsReviewed(s) == AwaitingReview(s) /\ shown[s] # None /\ chunks[s] # 0

MatchesReviewed(s) == AwaitingReview(s) /\ shown[s] = ReviewVersion(s) /\ chunks[s] # 0

(* The person approves what is on screen, possibly with edits (draft d).  The  *)
(* claims table admits one row per collection.                                *)
BeginPublication(j, s, d) ==
  /\ MatchesReviewed(s)
  /\ claim = None
  /\ StartJob(j, "publish", s)
  /\ claim' = j
  /\ source' = WithStatus(source, {s}, "publishing")
  /\ concept' = [concept EXCEPT ![s] = [status |-> "publishing", draft |-> d]]
  /\ approved' = [approved EXCEPT ![s] = [revision |-> shown[s].revision,
                                          sha |-> shown[s].sha, draft |-> d]]
  /\ UNCHANGED <<chunks, shown>>

Publishing(s) == source[s].status = "publishing" /\ concept[s].status = "publishing"

ClaimIsCurrent(j) ==
  LET s == job[j].source IN
  /\ claim = j
  /\ Owns(j, "publish")
  /\ Publishing(s)
  /\ chunks[s] = source[s].revision

(* A mutant: the last commit asks only for the claim row.                     *)
CommitUnchecked(j) == claim = j

MayCommit(j) ==
  /\ claim = j
  /\ Owns(j, "publish")
  /\ Publishing(job[j].source)

CompletePublication(j) ==
  LET s == job[j].source IN
  /\ MayCommit(j)
  /\ FinishJob(j)
  /\ claim' = None
  /\ source' = WithStatus(source, {s}, "published")
  /\ concept' = WithStatus(concept, {s}, "published")
  /\ UNCHANGED <<chunks, shown, approved>>

(* Both steps of a cancellation return a publishing row to review, the source *)
(* row only while it still is the claimed revision.                           *)
ReturnClaimed(j) ==
  LET s == job[j].source IN
  /\ concept' = IF concept[s].status = "publishing"
                THEN WithStatus(concept, {s}, "needs_review") ELSE concept
  /\ source' = IF /\ source[s].status = "publishing"
                  /\ source[s].sha = job[j].sha
                  /\ source[s].revision = job[j].revision
               THEN WithStatus(source, {s}, "needs_review") ELSE source

MarkPublicationCancelling(j) ==
  /\ claim = j
  /\ job[j].state \in {"running", "cancelling"}
  /\ job' = [job EXCEPT ![j].state = "cancelling"]
  /\ ReturnClaimed(j)
  /\ UNCHANGED <<chunks, claim, shown, approved>>

(* A mutant: the claim row goes while its job stays open.                     *)
DropClaim(j) ==
  /\ claim = j
  /\ claim' = None
  /\ UNCHANGED <<source, concept, chunks, job, shown, approved>>

FinishPublicationCancellation(j) ==
  /\ claim = j
  /\ FinishJob(j)
  /\ claim' = None
  /\ ReturnClaimed(j)
  /\ UNCHANGED <<chunks, shown, approved>>

(* Guided repair sends an incoherent stable page back to review.              *)
ReturnToReview(s) ==
  /\ source[s].status = "published" /\ concept[s].status = "published"
  /\ source' = WithStatus(source, {s}, "needs_review")
  /\ concept' = WithStatus(concept, {s}, "needs_review")
  /\ UNCHANGED <<chunks, job, claim, shown, approved>>

-------------------------------------------------------------------------------
(* Failing closed *)

MarkSourceFailed(s) ==
  /\ Exists(s)
  /\ source' = WithStatus(source, {s}, "failed")
  /\ concept' = WithStatus(concept, {s}, "failed")
  /\ UNCHANGED <<chunks, job, claim, shown, approved>>

MarkDeleted(s) ==
  /\ Exists(s)
  /\ source' = WithStatus(source, {s}, "deleted")
  /\ Withdraw({s}, "deleted")

QuarantineSource(s) ==
  /\ Exists(s) /\ source[s].status # "deleted"
  /\ source' = WithStatus(source, {s}, "failed")
  /\ Withdraw({s}, "failed")

QuarantineCollection ==
  LET present == {s \in Sources : Exists(s) /\ source[s].status # "deleted"} IN
  /\ source' = WithStatus(source, present, "failed")
  /\ Withdraw(present, "failed")

(* Database::open after the previous process died.  The person's screen is     *)
(* gone with it; publication claims are left for the publisher to recover.    *)
RecoverInterruptedJobs ==
  LET reanalyzed == {s \in Sources : RunningJobs(s, "reanalyze") # {}}
      ingested == {s \in Sources : ActiveIngest(s)}
      sourceStatus(s) ==
        IF source[s].status = "enriched" /\ s \in reanalyzed /\ source[s].linked
        THEN "needs_review" ELSE source[s].status
      conceptStatus(s) ==
        IF concept[s].status = "enriched" /\ s \in reanalyzed
        THEN "needs_review" ELSE concept[s].status
  IN
  /\ concept' = [s \in Sources |-> [concept[s] EXCEPT !.status =
       IF conceptStatus(s) = "needs_review" /\ s \in ingested
       THEN "failed" ELSE conceptStatus(s)]]
  /\ source' = [s \in Sources |-> [source[s] EXCEPT !.status =
       IF sourceStatus(s) \in InFlight \union {"needs_review"} /\ s \in ingested
       THEN "failed" ELSE sourceStatus(s)]]
  /\ job' = [j \in Jobs |-> IF job[j].state = "running" /\ job[j].kind # "publish"
                            THEN [job[j] EXCEPT !.state = "finished"] ELSE job[j]]
  /\ shown' = [s \in Sources |-> None]
  /\ UNCHANGED <<chunks, claim, approved>>

-------------------------------------------------------------------------------

Register ==
  \E s \in Sources, p \in Paths, h \in Hashes :
    \/ RegisterRetry(s, p, h)
    \/ RegisterReplaced(s, p, h)
    \/ \E missing \in SUBSET Paths :
         RegisterMoved(s, p, h, missing) \/ RegisterNew(s, p, h, missing)

Ingest ==
  \E j \in Jobs :
    \/ \E s \in Sources : ClaimIngestJob(j, s)
    \/ MarkExtracted(j)
    \/ MarkEnriched(j)
    \/ \E d \in Drafts : SaveEnrichment(j, d)
    \/ ReplaceChunks(j)
    \/ CompleteIngestJob(j)
    \/ \E markSource \in BOOLEAN : FailIngestJob(j, markSource)

Review ==
  \/ \E s \in Sources : ShowReview(s) \/ ExcludeReview(s)
  \/ \E j \in Jobs :
       \/ \E s \in Sources : BeginReanalysis(j, s)
       \/ \E d \in Drafts : CompleteReanalysis(j, d)
       \/ FailReanalysis(j)

Publish ==
  \E j \in Jobs :
    \/ \E s \in Sources, d \in Drafts : BeginPublication(j, s, d)
    \/ CompletePublication(j)
    \/ MarkPublicationCancelling(j)
    \/ FinishPublicationCancellation(j)

FailClosed ==
  \/ \E s \in Sources :
       ReturnToReview(s) \/ MarkSourceFailed(s) \/ MarkDeleted(s) \/ QuarantineSource(s)
  \/ QuarantineCollection
  \/ RecoverInterruptedJobs

Next == Register \/ Ingest \/ Review \/ Publish \/ FailClosed

Spec == Init /\ [][Next]_vars

-------------------------------------------------------------------------------
(* Properties *)

(* Every variable has its type, and a proposal exists exactly when the source  *)
(* row links to it (concept_id), whatever path led to the row.                *)
TypeOK ==
  /\ source \in [Sources -> SourceRow]
  /\ concept \in [Sources -> ConceptRow]
  /\ chunks \in [Sources -> Revisions]
  /\ job \in [Jobs -> JobRow]
  /\ claim \in Jobs \union {None}
  /\ shown \in [Sources -> ReviewToken \union {None}]
  /\ approved \in [Sources -> Version \union {None}]
  /\ \A s \in Sources :
       /\ source[s].linked <=> concept[s].draft # None
       /\ source[s].status = "absent" <=> source[s].sha = None

(* Whatever is searchable is, word for word, what a person last approved:     *)
(* same revision, same bytes, same proposal (docs/architecture.md:112).       *)
ExposureIsReviewed ==
  \A s \in Sources : Searchable(s) => approved[s] = VersionOf(s)

(* The two rows of a document agree on exposure: list_published_concepts      *)
(* reads only the concept row, search reads both.                             *)
RowsAgreeOnExposure ==
  \A s \in Sources : \A status \in {"publishing", "published"} :
    (concept[s].status = status) <=> (source[s].status = status)

(* Evidence is never of another revision than the one stored, and a published *)
(* revision is never without it, although the final commit does not look.     *)
EvidenceIsCurrent ==
  \A s \in Sources :
    /\ chunks[s] \in {0, source[s].revision}
    /\ source[s].status \in {"publishing", "published"} => chunks[s] # 0

(* A publishing document is never stranded: a durable claim for exactly that  *)
(* revision exists, so a restart can finish or cancel it (docs/recovery.md).  *)
PublishingIsOwned ==
  \A s \in Sources : source[s].status = "publishing" =>
    /\ claim # None
    /\ job[claim].source = s
    /\ Owns(claim, "publish")

(* A draft withheld for reanalysis always has a running job of its revision   *)
(* that will return it to review.                                             *)
ReanalysisIsOwned ==
  \A s \in Sources : concept[s].status = "enriched" =>
    /\ source[s].status = "enriched"
    /\ \E j \in RunningJobs(s, "reanalyze") : Owns(j, "reanalyze")

(* At most one worker prepares a document, and it prepares the stored bytes.  *)
IngestIsExclusive ==
  \A i \in Jobs : (job[i].kind = "ingest" /\ job[i].state = "running") =>
    /\ Owns(i, "ingest")
    /\ source[job[i].source].status # "deleted"
    /\ \A j \in RunningJobs(job[i].source, "ingest") : j = i

(* A proposal is only ever rewritten by a running job of the stored revision, *)
(* or by the approval of the version on screen.                               *)
ProposalChangesAreOwned ==
  [][\A s \in Sources : concept'[s].draft # concept[s].draft =>
       \/ \E j \in Jobs : job[j].source = s /\ (Owns(j, "ingest") \/ Owns(j, "reanalyze"))
       \/ MatchesReviewed(s)]_vars

(* The version whose approval is durable and not yet exposed, and the exposed  *)
(* version, of each document.                                                 *)
ApprovedIntent ==
  [s \in Sources |-> IF Publishing(s) THEN VersionOf(s) ELSE None]

ExposedVersion ==
  [s \in Sources |-> IF Searchable(s) THEN VersionOf(s) ELSE None]

Promise == INSTANCE ReviewedPublication WITH
  Documents <- Sources, Versions <- Version, NoVersion <- None,
  intent <- ApprovedIntent, visible <- ExposedVersion

(* The tables implement the promise: every exposure went through an approval  *)
(* of exactly that version, and no transaction alters an exposed version.     *)
ImplementsPromise == Promise!Spec
================================================================================
