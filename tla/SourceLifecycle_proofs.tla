------------------------- MODULE SourceLifecycle_proofs -------------------------
(***************************************************************************)
(* Proofs about SourceLifecycle, for every set of documents, paths, hashes, *)
(* proposals and jobs and every bound on revisions.                        *)
(***************************************************************************)
EXTENDS SourceLifecycle, TLAPS

-------------------------------------------------------------------------------
(* The inductive invariant: the properties of SourceLifecycle and four facts    *)
(* that hold them together.                                                   *)

AbsentRowsAreEmpty ==
  \A s \in Sources :
    /\ source[s].status = "absent" => ~source[s].linked /\ source[s].revision = 0
    /\ concept[s].draft = None => concept[s].status = "absent"

(* From the approval on, and not only once it is exposed, the rows carry the   *)
(* approved version.                                                          *)
ApprovedVersionIsStored ==
  \A s \in Sources :
    source[s].status \in {"publishing", "published"} => approved[s] = VersionOf(s)

JobsNameDocuments ==
  \A j \in Jobs : job[j].kind # "none" => job[j].source \in Sources /\ job[j].sha \in Hashes

ClaimIsOpen ==
  claim # None => job[claim].kind = "publish" /\ job[claim].state \in {"running", "cancelling"}

LifecycleInv ==
  /\ TypeOK
  /\ RowsAgreeOnExposure
  /\ EvidenceIsCurrent
  /\ PublishingIsOwned
  /\ ReanalysisIsOwned
  /\ IngestIsExclusive
  /\ AbsentRowsAreEmpty
  /\ ApprovedVersionIsStored
  /\ JobsNameDocuments
  /\ ClaimIsOpen

-------------------------------------------------------------------------------
(* Reconciliation *)

LEMMA WithStatusType ==
  ASSUME NEW rows \in [Sources -> ConceptRow], NEW S \in SUBSET Sources,
         NEW status \in ConceptStatus
  PROVE  /\ WithStatus(rows, S, status) \in [Sources -> ConceptRow]
         /\ \A s \in Sources :
              /\ WithStatus(rows, S, status)[s].draft = rows[s].draft
              /\ WithStatus(rows, S, status)[s].status =
                   IF s \in S /\ rows[s].status # "absent" THEN status ELSE rows[s].status
BY DEF WithStatus, ConceptRow

LEMMA WithdrawnJobs ==
  ASSUME NEW S \in SUBSET Sources, TypeOK, JobsNameDocuments, ClaimIsOpen
  PROVE  LET after == CancelPublication(SupersedeIngest(job, S), S) IN
         /\ after \in [Jobs -> JobRow]
         /\ \A j \in Jobs :
              /\ after[j].kind = job[j].kind /\ after[j].source = job[j].source
              /\ after[j].sha = job[j].sha /\ after[j].revision = job[j].revision
              /\ after[j].state =
                   IF job[j].state = "running" /\ job[j].source \in S
                   THEN IF j = claim THEN "cancelling"
                        ELSE IF job[j].kind = "ingest" THEN "finished" ELSE "running"
                   ELSE job[j].state
<1> DEFINE rows == SupersedeIngest(job, S)
<1>1. job \in [Jobs -> JobRow]
  BY DEF TypeOK
<1>2. /\ rows \in [Jobs -> JobRow]
      /\ \A j \in Jobs :
           /\ rows[j].kind = job[j].kind /\ rows[j].source = job[j].source
           /\ rows[j].sha = job[j].sha /\ rows[j].revision = job[j].revision
           /\ rows[j].state =
                IF job[j].state = "running" /\ job[j].source \in S /\ job[j].kind = "ingest"
                THEN "finished" ELSE job[j].state
  BY <1>1 DEF SupersedeIngest, JobRow, JobState
<1>3. claim \in Jobs /\ claim # None => job[claim].kind # "ingest"
  BY DEF ClaimIsOpen
<1>4. claim \in Jobs => claim # None
  BY NoneAssumption
<1> HIDE DEF rows
<1>5. /\ CancelPublication(rows, S) \in [Jobs -> JobRow]
      /\ \A j \in Jobs :
           /\ CancelPublication(rows, S)[j].kind = rows[j].kind
           /\ CancelPublication(rows, S)[j].source = rows[j].source
           /\ CancelPublication(rows, S)[j].sha = rows[j].sha
           /\ CancelPublication(rows, S)[j].revision = rows[j].revision
           /\ CancelPublication(rows, S)[j].state =
                IF j = claim /\ rows[j].state = "running" /\ rows[j].source \in S
                THEN "cancelling" ELSE rows[j].state
  BY <1>2 DEF CancelPublication, JobRow, JobState
<1> QED
  BY <1>2, <1>3, <1>4, <1>5 DEF rows

(* Withdrawing documents and restarting, failing or deleting them keeps the    *)
(* invariant, whichever they are.                                             *)
LEMMA WithdrawalKeepsInv ==
  ASSUME LifecycleInv,
         NEW S \in SUBSET Sources, NEW status \in {"needs_review", "failed", "deleted"},
         Withdraw(S, status),
         source' \in [Sources -> SourceRow],
         \A s \in Sources \ S : source'[s] = source[s],
         \A s \in S : /\ source[s].status # "absent" /\ source'[s].sha # None
                       /\ source'[s].status \in {"detected", "failed", "deleted"}
                       /\ source'[s].linked = source[s].linked
  PROVE  LifecycleInv'
<1> USE DEF LifecycleInv
<1>1. /\ concept \in [Sources -> ConceptRow] /\ source \in [Sources -> SourceRow]
      /\ chunks \in [Sources -> Revisions] /\ job \in [Jobs -> JobRow]
      /\ claim \in Jobs \union {None}
  BY DEF TypeOK
<1>2. /\ concept' \in [Sources -> ConceptRow]
      /\ \A s \in Sources :
           /\ concept'[s].draft = concept[s].draft
           /\ concept'[s].status =
                IF s \in S /\ concept[s].status # "absent" THEN status ELSE concept[s].status
  BY <1>1, WithStatusType DEF Withdraw, ConceptStatus
<1>3. /\ job' \in [Jobs -> JobRow]
      /\ \A j \in Jobs :
           /\ job'[j].kind = job[j].kind /\ job'[j].source = job[j].source
           /\ job'[j].sha = job[j].sha /\ job'[j].revision = job[j].revision
           /\ job'[j].state =
                IF job[j].state = "running" /\ job[j].source \in S
                THEN IF j = claim THEN "cancelling"
                     ELSE IF job[j].kind = "ingest" THEN "finished" ELSE "running"
                ELSE job[j].state
  BY WithdrawnJobs DEF Withdraw
<1>4. /\ chunks' \in [Sources -> Revisions]
      /\ \A s \in Sources : chunks'[s] = IF s \in S THEN 0 ELSE chunks[s]
  BY <1>1, BoundAssumption DEF Withdraw, WithoutChunks, Revisions
<1>5. claim' = claim /\ shown' = shown /\ approved' = approved
  BY DEF Withdraw
<1>6. claim # None => claim \in Jobs
  BY <1>1
<1>7. TypeOK'
  <2>1. \A s \in Sources : (source[s].linked <=> concept[s].draft # None)'
    BY <1>2 DEF TypeOK
  <2>2. \A s \in Sources : (source[s].status = "absent" <=> source[s].sha = None)'
    BY DEF TypeOK
  <2> QED
    BY <1>2, <1>3, <1>4, <1>5, <2>1, <2>2 DEF TypeOK
<1>8. RowsAgreeOnExposure'
  BY <1>2 DEF RowsAgreeOnExposure
<1>9. EvidenceIsCurrent'
  BY <1>4 DEF EvidenceIsCurrent
<1>10. PublishingIsOwned'
  BY <1>3, <1>5, <1>6 DEF PublishingIsOwned, Owns
<1>11. ReanalysisIsOwned'
  <2> SUFFICES ASSUME NEW s \in Sources, concept'[s].status = "enriched"
               PROVE  /\ source'[s].status = "enriched"
                      /\ \E j \in RunningJobs(s, "reanalyze")' : Owns(j, "reanalyze")'
    BY DEF ReanalysisIsOwned
  <2>1. s \notin S /\ concept[s].status = "enriched"
    BY <1>2
  <2>2. PICK j \in RunningJobs(s, "reanalyze") : Owns(j, "reanalyze")
    BY <2>1 DEF ReanalysisIsOwned
  <2>3. j \in RunningJobs(s, "reanalyze")'
    BY <2>1, <2>2, <1>3 DEF RunningJobs
  <2>4. Owns(j, "reanalyze")'
    BY <2>1, <2>2, <1>3 DEF RunningJobs, Owns
  <2> QED
    BY <2>1, <2>3, <2>4 DEF ReanalysisIsOwned
<1>12. IngestIsExclusive'
  BY <1>3, <1>6 DEF IngestIsExclusive, RunningJobs, Owns, JobsNameDocuments, ClaimIsOpen
<1>13. AbsentRowsAreEmpty'
  BY <1>2 DEF AbsentRowsAreEmpty
<1>14. ApprovedVersionIsStored'
  BY <1>2, <1>5 DEF ApprovedVersionIsStored, VersionOf
<1>15. JobsNameDocuments'
  BY <1>3 DEF JobsNameDocuments
<1>16. ClaimIsOpen'
  BY <1>3, <1>5, <1>6 DEF ClaimIsOpen
<1> QED
  BY <1>7, <1>8, <1>9, <1>10, <1>11, <1>12, <1>13, <1>14, <1>15, <1>16

(* What the type invariant says of the rows an action reads.                  *)
LEMMA Typed ==
  ASSUME LifecycleInv
  PROVE  /\ concept \in [Sources -> ConceptRow] /\ source \in [Sources -> SourceRow]
         /\ chunks \in [Sources -> Revisions] /\ job \in [Jobs -> JobRow]
         /\ claim \in Jobs \union {None} /\ (claim # None => claim \in Jobs)
         /\ shown \in [Sources -> ReviewToken \union {None}]
         /\ approved \in [Sources -> Version \union {None}]
         /\ \A s \in Sources : /\ source[s].linked <=> concept[s].draft # None
                               /\ source[s].status = "absent" <=> source[s].sha = None
BY DEF LifecycleInv, TypeOK

LEMMA RegisterKeepsInv ==
  ASSUME LifecycleInv, NEW s \in Sources, NEW p \in Paths, NEW h \in Hashes,
         NEW missing \in SUBSET Paths,
         \/ RegisterRetry(s, p, h) \/ RegisterReplaced(s, p, h)
         \/ RegisterMoved(s, p, h, missing) \/ RegisterNew(s, p, h, missing)
  PROVE  LifecycleInv'
<1>1. /\ source \in [Sources -> SourceRow]
      /\ source[s].status = "absent" <=> source[s].sha = None
      /\ {s} \in SUBSET Sources /\ h # None
  BY Typed, NoneAssumption
<1>2. CASE RegisterRetry(s, p, h)
  <2>1. source' = [source EXCEPT ![s].status = "detected"] /\ Withdraw({s}, "needs_review")
    BY <1>2 DEF RegisterRetry
  <2>2. source[s].status # "absent"
    BY <1>2 DEF RegisterRetry, RowsAt, Exists
  <2>3. source' \in [Sources -> SourceRow]
    BY <1>1, <2>1 DEF SourceRow, SourceStatus, InFlight
  <2> QED
    BY <1>1, <2>1, <2>2, <2>3, WithdrawalKeepsInv DEF SourceRow
<1>3. CASE RegisterReplaced(s, p, h)
  <2>1. /\ source' = [source EXCEPT ![s].status = "detected", ![s].sha = h,
                                    ![s].revision = @ + 1]
        /\ source[s].revision < MaxRevision
        /\ Withdraw({s}, "needs_review")
    BY <1>3 DEF RegisterReplaced
  <2>2. source[s].status # "absent"
    BY <1>3 DEF RegisterReplaced, RowsAt, Exists
  <2>3. source[s].revision + 1 \in Revisions
    BY <1>1, <2>1, BoundAssumption DEF SourceRow, Revisions
  <2>4. source' = [source EXCEPT ![s] = [source[s] EXCEPT
                     !.status = "detected", !.sha = h, !.revision = source[s].revision + 1]]
    BY <1>1, <2>1
  <2>5. source' \in [Sources -> SourceRow]
    BY <1>1, <2>3, <2>4 DEF SourceRow, SourceStatus, InFlight
  <2>6. \A t \in Sources \ {s} : source'[t] = source[t]
    BY <1>1, <2>4
  <2>7. /\ source'[s].sha # None /\ source'[s].status = "detected"
        /\ source'[s].linked = source[s].linked
    BY <1>1, <2>4, NoneAssumption DEF SourceRow
  <2> QED
    BY <1>1, <2>2, <2>1, <2>5, <2>6, <2>7, WithdrawalKeepsInv
<1>4. CASE RegisterMoved(s, p, h, missing) /\ source[s].status \notin Settled
  <2>1. /\ source' = [source EXCEPT ![s].path = p, ![s].status = "detected"]
        /\ Withdraw({s}, "needs_review")
    BY <1>4 DEF RegisterMoved
  <2>2. source[s].status # "absent"
    BY <1>4 DEF RegisterMoved, IsMove, SameContent, Exists
  <2> DEFINE row == [source[s] EXCEPT !.path = p, !.status = "detected"]
  <2>row. /\ row \in SourceRow
        /\ row.sha = source[s].sha /\ row.status = "detected"
        /\ row.linked = source[s].linked
    BY <1>1 DEF SourceRow, SourceStatus, InFlight
  <2>written. source' = [source EXCEPT ![s] = row]
    BY <1>1, <2>1
  <2> HIDE DEF row
  <2>3. source' \in [Sources -> SourceRow]
    BY <1>1, <2>row, <2>written
  <2>4. \A t \in Sources \ {s} : source'[t] = source[t]
    BY <1>1, <2>written
  <2>5. /\ source'[s].sha = source[s].sha /\ source'[s].status = "detected"
        /\ source'[s].linked = source[s].linked
    BY <1>1, <2>row, <2>written
  <2>6. source[s].sha # None
    BY <2>2, Typed
  <2> QED
    BY <1>1, <2>1, <2>2, <2>3, <2>4, <2>5, <2>6, WithdrawalKeepsInv
<1>5. CASE RegisterMoved(s, p, h, missing) /\ source[s].status \in Settled
  <2>1. /\ source' = [source EXCEPT ![s].path = p]
        /\ UNCHANGED <<concept, chunks, job, claim, shown, approved>>
    BY <1>5 DEF RegisterMoved
  <2>2. /\ source' \in [Sources -> SourceRow]
        /\ \A t \in Sources :
             /\ source'[t].status = source[t].status /\ source'[t].sha = source[t].sha
             /\ source'[t].revision = source[t].revision
             /\ source'[t].linked = source[t].linked
    BY <1>1, <2>1 DEF SourceRow
  <2>3. TypeOK'
    BY <2>1, <2>2 DEF LifecycleInv, TypeOK
  <2>4. /\ RowsAgreeOnExposure' /\ EvidenceIsCurrent' /\ AbsentRowsAreEmpty'
        /\ JobsNameDocuments' /\ ClaimIsOpen'
    BY <2>1, <2>2 DEF LifecycleInv, RowsAgreeOnExposure, EvidenceIsCurrent,
                      AbsentRowsAreEmpty, JobsNameDocuments, ClaimIsOpen
  <2>5. ApprovedVersionIsStored'
    BY <2>1, <2>2 DEF LifecycleInv, ApprovedVersionIsStored, VersionOf
  <2>6. PublishingIsOwned' /\ ReanalysisIsOwned' /\ IngestIsExclusive'
    BY <2>1, <2>2, Typed DEF LifecycleInv, PublishingIsOwned, ReanalysisIsOwned,
         IngestIsExclusive, RunningJobs, Owns, JobsNameDocuments, ClaimIsOpen
  <2> QED
    BY <2>3, <2>4, <2>5, <2>6 DEF LifecycleInv
<1>6. CASE RegisterNew(s, p, h, missing)
  <2>1. /\ source' = [source EXCEPT ![s] = [status |-> "detected", sha |-> h,
                                revision |-> 1, path |-> p, linked |-> FALSE]]
        /\ source[s].status = "absent"
        /\ UNCHANGED <<concept, chunks, job, claim, shown, approved>>
    BY <1>6 DEF RegisterNew, Exists
  <2>2. source' \in [Sources -> SourceRow]
    BY <1>1, <2>1, BoundAssumption DEF SourceRow, SourceStatus, InFlight, Revisions
  <2>3. ~source[s].linked /\ source[s].revision = 0 /\ source[s].sha = None
    BY <1>1, <2>1 DEF LifecycleInv, AbsentRowsAreEmpty
  <2>4. TypeOK'
    BY <1>1, <2>1, <2>2, <2>3, Typed DEF TypeOK
  <2>5. /\ RowsAgreeOnExposure' /\ EvidenceIsCurrent' /\ AbsentRowsAreEmpty'
        /\ JobsNameDocuments' /\ ClaimIsOpen'
    BY <1>1, <2>1, <2>3, Typed DEF LifecycleInv, RowsAgreeOnExposure, EvidenceIsCurrent,
                      AbsentRowsAreEmpty, JobsNameDocuments, ClaimIsOpen
  <2>6. ApprovedVersionIsStored'
    BY <1>1, <2>1 DEF LifecycleInv, ApprovedVersionIsStored, VersionOf
  <2>7. \A j \in Jobs : job[j].kind # "none" /\ Owns(j, job[j].kind) => job[j].source # s
    BY <2>3, NoneAssumption DEF LifecycleInv, JobsNameDocuments, Owns
  <2>8. PublishingIsOwned'
    BY <1>1, <2>1, <2>7, Typed DEF LifecycleInv, PublishingIsOwned, Owns
  <2>9. ReanalysisIsOwned'
    BY <1>1, <2>1, <2>7, Typed DEF LifecycleInv, ReanalysisIsOwned, RunningJobs, Owns
  <2>10. IngestIsExclusive'
    BY <1>1, <2>1, <2>7, Typed DEF LifecycleInv, IngestIsExclusive, RunningJobs, Owns,
         JobsNameDocuments
  <2> QED
    BY <2>2, <2>4, <2>5, <2>6, <2>8, <2>9, <2>10 DEF LifecycleInv
<1> QED
  BY <1>2, <1>3, <1>4, <1>5, <1>6

-------------------------------------------------------------------------------
(* Ingestion *)

LEMMA StartedJob ==
  ASSUME LifecycleInv, NEW j \in Jobs, NEW s \in Sources, source[s].status # "absent",
         NEW kind \in {"ingest", "reanalyze", "publish"}, StartJob(j, kind, s)
  PROVE  /\ job' \in [Jobs -> JobRow]
         /\ j # claim /\ job[j].state # "running"
         /\ job'[j] = [kind |-> kind, source |-> s, sha |-> source[s].sha,
                       revision |-> source[s].revision, state |-> "running"]
         /\ source[s].sha \in Hashes
         /\ \A i \in Jobs : i # j => job'[i] = job[i]
<1>1. source[s] \in SourceRow /\ source[s].sha # None /\ job \in [Jobs -> JobRow]
  BY Typed
<1>2. source[s].sha \in Hashes /\ source[s].revision \in Revisions
  BY <1>1 DEF SourceRow
<1>3. job' \in [Jobs -> JobRow]
  BY <1>1, <1>2 DEF StartJob, JobRow, JobKind, JobState
<1>4. j # claim
  BY NoneAssumption DEF LifecycleInv, ClaimIsOpen, StartJob
<1> QED
  BY <1>1, <1>2, <1>3, <1>4 DEF StartJob

LEMMA FinishedJob ==
  ASSUME LifecycleInv, NEW j \in Jobs, FinishJob(j)
  PROVE  /\ job' \in [Jobs -> JobRow]
         /\ \A i \in Jobs :
              /\ job'[i].kind = job[i].kind /\ job'[i].source = job[i].source
              /\ job'[i].sha = job[i].sha /\ job'[i].revision = job[i].revision
              /\ job'[i].state = IF i = j THEN "finished" ELSE job[i].state
BY Typed DEF FinishJob, JobRow, JobState

(* A running ingestion has a live document, which it alone prepares.          *)
LEMMA IngestOwner ==
  ASSUME LifecycleInv, NEW j \in Jobs, NEW status, IngestOwns(j, status)
  PROVE  /\ job[j].source \in Sources
         /\ source[job[j].source].status = status
         /\ job[j].kind = "ingest" /\ job[j].state = "running" /\ Owns(j, "ingest")
BY DEF LifecycleInv, JobsNameDocuments, IngestOwns, Owns

LEMMA ClaimIngestJobKeepsInv ==
  ASSUME LifecycleInv, NEW j \in Jobs, NEW s \in Sources, ClaimIngestJob(j, s)
  PROVE  LifecycleInv'
<1>1. /\ source[s].status = "detected" /\ ~ActiveIngest(s) /\ StartJob(j, "ingest", s)
      /\ UNCHANGED <<source, concept, chunks, claim, shown, approved>>
  BY DEF ClaimIngestJob
<1>2. /\ job' \in [Jobs -> JobRow]
      /\ j # claim /\ job[j].state # "running"
      /\ job'[j] = [kind |-> "ingest", source |-> s, sha |-> source[s].sha,
                    revision |-> source[s].revision, state |-> "running"]
      /\ source[s].sha \in Hashes
      /\ \A i \in Jobs : i # j => job'[i] = job[i]
  BY <1>1, StartedJob
<1>3. TypeOK' /\ RowsAgreeOnExposure' /\ EvidenceIsCurrent' /\ AbsentRowsAreEmpty'
  BY <1>1, <1>2 DEF LifecycleInv, TypeOK, RowsAgreeOnExposure, EvidenceIsCurrent,
                    AbsentRowsAreEmpty
<1>4. ApprovedVersionIsStored'
  BY <1>1 DEF LifecycleInv, ApprovedVersionIsStored, VersionOf
<1>5. JobsNameDocuments' /\ ClaimIsOpen' /\ PublishingIsOwned'
  BY <1>1, <1>2, Typed DEF LifecycleInv, JobsNameDocuments, ClaimIsOpen,
                           PublishingIsOwned, Owns
<1>6. ReanalysisIsOwned'
  BY <1>1, <1>2 DEF LifecycleInv, ReanalysisIsOwned, RunningJobs, Owns
<1>7. IngestIsExclusive'
  BY <1>1, <1>2 DEF LifecycleInv, IngestIsExclusive, ActiveIngest, RunningJobs, Owns
<1> QED
  BY <1>3, <1>4, <1>5, <1>6, <1>7 DEF LifecycleInv

(* Extraction and enrichment only move the source row along.                  *)
LEMMA MarkProgressKeepsInv ==
  ASSUME LifecycleInv, NEW j \in Jobs, MarkExtracted(j) \/ MarkEnriched(j)
  PROVE  LifecycleInv'
<1> DEFINE s == job[j].source
           status == IF source[s].status = "detected" THEN "extracted" ELSE "enriched"
<1>1. /\ s \in Sources
      /\ source[s].status \in {"detected", "extracted"}
      /\ source' = [source EXCEPT ![s].status = status]
      /\ UNCHANGED <<concept, chunks, job, claim, shown, approved>>
  BY IngestOwner DEF MarkExtracted, MarkEnriched
<1>2. status \in {"extracted", "enriched"}
  OBVIOUS
<1> HIDE DEF s, status
<1>3. /\ source' \in [Sources -> SourceRow]
      /\ \A t \in Sources :
           /\ source'[t].sha = source[t].sha /\ source'[t].revision = source[t].revision
           /\ source'[t].linked = source[t].linked
           /\ source'[t].status = IF t = s THEN status ELSE source[t].status
  BY <1>1, <1>2, Typed DEF SourceRow, SourceStatus, InFlight
<1>4. TypeOK'
  BY <1>1, <1>2, <1>3 DEF LifecycleInv, TypeOK
<1>5. /\ RowsAgreeOnExposure' /\ EvidenceIsCurrent' /\ AbsentRowsAreEmpty'
      /\ JobsNameDocuments' /\ ClaimIsOpen'
  BY <1>1, <1>2, <1>3 DEF LifecycleInv, RowsAgreeOnExposure, EvidenceIsCurrent,
                          AbsentRowsAreEmpty, JobsNameDocuments, ClaimIsOpen
<1>6. ApprovedVersionIsStored'
  BY <1>1, <1>2, <1>3 DEF LifecycleInv, ApprovedVersionIsStored, VersionOf
<1>7. PublishingIsOwned'
  BY <1>1, <1>2, <1>3, Typed DEF LifecycleInv, PublishingIsOwned, Owns, ClaimIsOpen,
                                 JobsNameDocuments
<1>8. ReanalysisIsOwned'
  BY <1>1, <1>2, <1>3, Typed DEF LifecycleInv, ReanalysisIsOwned, RunningJobs, Owns
<1>9. IngestIsExclusive'
  BY <1>1, <1>2, <1>3, Typed DEF LifecycleInv, IngestIsExclusive, RunningJobs, Owns,
                                 JobsNameDocuments
<1> QED
  BY <1>4, <1>5, <1>6, <1>7, <1>8, <1>9 DEF LifecycleInv

LEMMA SaveEnrichmentKeepsInv ==
  ASSUME LifecycleInv, NEW j \in Jobs, NEW d \in Drafts, SaveEnrichment(j, d)
  PROVE  LifecycleInv'
<1> DEFINE s == job[j].source
<1>1. /\ s \in Sources
      /\ source[s].status = "enriched"
      /\ source' = [source EXCEPT ![s].status = "needs_review", ![s].linked = TRUE]
      /\ concept' = [concept EXCEPT ![s] = [status |-> "needs_review", draft |-> d]]
      /\ UNCHANGED <<chunks, job, claim, shown, approved>>
  BY IngestOwner DEF SaveEnrichment
<1> HIDE DEF s
<1>2. /\ source' \in [Sources -> SourceRow]
      /\ \A t \in Sources :
           /\ source'[t].sha = source[t].sha /\ source'[t].revision = source[t].revision
           /\ source'[t].linked = IF t = s THEN TRUE ELSE source[t].linked
           /\ source'[t].status = IF t = s THEN "needs_review" ELSE source[t].status
  <2> DEFINE row == [source[s] EXCEPT !.status = "needs_review", !.linked = TRUE]
  <2>1. source' = [source EXCEPT ![s] = row]
    BY <1>1, Typed
  <2>2. /\ row \in SourceRow
        /\ row.sha = source[s].sha /\ row.revision = source[s].revision
        /\ row.linked = TRUE /\ row.status = "needs_review"
    BY <1>1, Typed DEF SourceRow, SourceStatus, Settled
  <2> HIDE DEF row
  <2>3. source \in [Sources -> SourceRow] /\ s \in Sources
    BY <1>1, Typed
  <2>4. source'[s] = row /\ \A t \in Sources : t # s => source'[t] = source[t]
    BY <2>1, <2>3
  <2>5. source' \in [Sources -> SourceRow]
    BY <2>1, <2>2, <2>3
  <2> QED
    BY <2>2, <2>4, <2>5
<1>3. /\ concept' \in [Sources -> ConceptRow]
      /\ concept'[s] = [status |-> "needs_review", draft |-> d]
      /\ \A t \in Sources : t # s => concept'[t] = concept[t]
  BY <1>1, Typed DEF ConceptRow, ConceptStatus
<1>4. TypeOK'
  BY <1>1, <1>2, <1>3, Typed, NoneAssumption DEF TypeOK
<1>5. /\ RowsAgreeOnExposure' /\ EvidenceIsCurrent'
      /\ JobsNameDocuments' /\ ClaimIsOpen'
  BY <1>1, <1>2, <1>3 DEF LifecycleInv, RowsAgreeOnExposure, EvidenceIsCurrent,
                          JobsNameDocuments, ClaimIsOpen
<1>6. ApprovedVersionIsStored'
  BY <1>1, <1>2, <1>3 DEF LifecycleInv, ApprovedVersionIsStored, VersionOf
<1>7. PublishingIsOwned'
  BY <1>1, <1>2, Typed DEF LifecycleInv, PublishingIsOwned, Owns, ClaimIsOpen,
                           JobsNameDocuments
<1>8. ReanalysisIsOwned'
  BY <1>1, <1>2, <1>3, Typed DEF LifecycleInv, ReanalysisIsOwned, RunningJobs, Owns
<1>9. IngestIsExclusive'
  BY <1>1, <1>2, Typed DEF LifecycleInv, IngestIsExclusive, RunningJobs, Owns,
                           JobsNameDocuments
<1>10. AbsentRowsAreEmpty'
  BY <1>1, <1>2, <1>3, NoneAssumption DEF LifecycleInv, AbsentRowsAreEmpty
<1> QED
  BY <1>4, <1>5, <1>6, <1>7, <1>8, <1>9, <1>10 DEF LifecycleInv

LEMMA ReplaceChunksKeepsInv ==
  ASSUME LifecycleInv, NEW j \in Jobs, ReplaceChunks(j)
  PROVE  LifecycleInv'
<1> DEFINE s == job[j].source
<1>1. /\ s \in Sources
      /\ source[s].status = "needs_review" /\ job[j].revision = source[s].revision
      /\ chunks' = [chunks EXCEPT ![s] = source[s].revision]
      /\ UNCHANGED <<source, concept, job, claim, shown, approved>>
  BY IngestOwner DEF ReplaceChunks, Owns
<1>2. source[s].revision \in Revisions
  BY <1>1, Typed DEF SourceRow
<1> HIDE DEF s
<1>3. TypeOK' /\ EvidenceIsCurrent'
  BY <1>1, <1>2, Typed DEF LifecycleInv, TypeOK, EvidenceIsCurrent
<1>4. /\ RowsAgreeOnExposure' /\ PublishingIsOwned' /\ ReanalysisIsOwned'
      /\ IngestIsExclusive' /\ AbsentRowsAreEmpty' /\ ApprovedVersionIsStored'
      /\ JobsNameDocuments' /\ ClaimIsOpen'
  BY <1>1 DEF LifecycleInv, RowsAgreeOnExposure, PublishingIsOwned, ReanalysisIsOwned,
              IngestIsExclusive, AbsentRowsAreEmpty, ApprovedVersionIsStored,
              JobsNameDocuments, ClaimIsOpen, RunningJobs, Owns, VersionOf
<1> QED
  BY <1>3, <1>4 DEF LifecycleInv

(* Closing an ingestion, or a reanalysis that withholds nothing, changes no row. *)
LEMMA ClosingKeepsInv ==
  ASSUME LifecycleInv, NEW j \in Jobs, FinishJob(j), j # claim,
         UNCHANGED <<source, concept, chunks, claim, shown, approved>>,
         job[j].kind = "reanalyze" =>
           ~(Owns(j, "reanalyze") /\ concept[job[j].source].status = "enriched")
  PROVE  LifecycleInv'
<1>1. /\ job' \in [Jobs -> JobRow]
      /\ \A i \in Jobs :
           /\ job'[i].kind = job[i].kind /\ job'[i].source = job[i].source
           /\ job'[i].sha = job[i].sha /\ job'[i].revision = job[i].revision
           /\ job'[i].state = IF i = j THEN "finished" ELSE job[i].state
  BY FinishedJob
<1>2. /\ TypeOK' /\ RowsAgreeOnExposure' /\ EvidenceIsCurrent' /\ AbsentRowsAreEmpty'
      /\ ApprovedVersionIsStored'
  BY <1>1 DEF LifecycleInv, TypeOK, RowsAgreeOnExposure, EvidenceIsCurrent,
              AbsentRowsAreEmpty, ApprovedVersionIsStored, VersionOf
<1>3. JobsNameDocuments' /\ ClaimIsOpen' /\ PublishingIsOwned'
  BY <1>1, Typed DEF LifecycleInv, JobsNameDocuments, ClaimIsOpen, PublishingIsOwned, Owns
<1>4. ReanalysisIsOwned'
  BY <1>1, Typed DEF LifecycleInv, ReanalysisIsOwned, RunningJobs, Owns
<1>5. IngestIsExclusive'
  <2> SUFFICES ASSUME NEW i \in Jobs, job'[i].kind = "ingest", job'[i].state = "running"
               PROVE  /\ Owns(i, "ingest")' /\ source'[job'[i].source].status # "deleted"
                      /\ \A k \in Jobs : k \in RunningJobs(job[i].source, "ingest")' => k = i
    BY DEF IngestIsExclusive, RunningJobs
  <2>1. job[i].kind = "ingest" /\ job[i].state = "running"
    BY <1>1
  <2>2. /\ Owns(i, "ingest") /\ source[job[i].source].status # "deleted"
        /\ \A k \in RunningJobs(job[i].source, "ingest") : k = i
    BY <2>1 DEF LifecycleInv, IngestIsExclusive
  <2> QED
    BY <1>1, <2>1, <2>2 DEF RunningJobs, Owns
<1> QED
  BY <1>2, <1>3, <1>4, <1>5 DEF LifecycleInv

(* A step may close jobs other than the claim; the reanalyses among them are of *)
(* document s.                                                                *)
OnlyCloses(s) ==
  /\ job' \in [Jobs -> JobRow]
  /\ \A i \in Jobs :
       /\ job'[i].kind = job[i].kind /\ job'[i].source = job[i].source
       /\ job'[i].sha = job[i].sha /\ job'[i].revision = job[i].revision
       /\ \/ job'[i].state = job[i].state
          \/ /\ job'[i].state = "finished" /\ i # claim
             /\ job[i].kind = "reanalyze" => job[i].source = s

(* Document s is failed, set aside or returned to review.                     *)
SetsStatus(s, after) ==
  /\ source[s].status # "absent"
  /\ source' = WithStatus(source, {s}, after) /\ concept' = WithStatus(concept, {s}, after)
  /\ UNCHANGED <<chunks, claim, shown, approved>>

LEMMA FinishedOnlyCloses ==
  ASSUME LifecycleInv, NEW j \in Jobs, FinishJob(j), j # claim,
         NEW s \in Sources, job[j].source = s
  PROVE  OnlyCloses(s)
BY FinishedJob DEF OnlyCloses

LEMMA SetsStatusRows ==
  ASSUME LifecycleInv, NEW s \in Sources,
         NEW after \in {"failed", "needs_review", "excluded"}, SetsStatus(s, after)
  PROVE  /\ source' \in [Sources -> SourceRow]
         /\ \A t \in Sources :
              /\ source'[t].sha = source[t].sha /\ source'[t].revision = source[t].revision
              /\ source'[t].linked = source[t].linked
              /\ source'[t].status = IF t = s THEN after ELSE source[t].status
         /\ concept' \in [Sources -> ConceptRow]
         /\ \A t \in Sources :
              /\ concept'[t].draft = concept[t].draft
              /\ concept'[t].status =
                   IF t = s /\ concept[t].status # "absent" THEN after ELSE concept[t].status
<1>1. after \in SourceStatus /\ after \in ConceptStatus
  BY DEF SourceStatus, ConceptStatus, Settled
<1>2. source \in [Sources -> SourceRow] /\ concept \in [Sources -> ConceptRow]
  BY Typed
<1>3. /\ source' \in [Sources -> SourceRow]
      /\ \A t \in Sources :
           /\ source'[t].sha = source[t].sha /\ source'[t].revision = source[t].revision
           /\ source'[t].linked = source[t].linked
           /\ source'[t].status = IF t = s THEN after ELSE source[t].status
  BY <1>1, <1>2 DEF SetsStatus, WithStatus, SourceRow
<1>4. /\ concept' \in [Sources -> ConceptRow]
      /\ \A t \in Sources :
           /\ concept'[t].draft = concept[t].draft
           /\ concept'[t].status =
                IF t = s /\ concept[t].status # "absent" THEN after ELSE concept[t].status
  BY <1>1, <1>2 DEF SetsStatus, WithStatus, ConceptRow
<1> QED
  BY <1>3, <1>4

LEMMA SetsStatusKeepsInv ==
  ASSUME LifecycleInv, NEW s \in Sources,
         NEW after \in {"failed", "needs_review", "excluded"},
         SetsStatus(s, after), OnlyCloses(s)
  PROVE  LifecycleInv'
<1>1. /\ source' \in [Sources -> SourceRow]
      /\ \A t \in Sources :
           /\ source'[t].sha = source[t].sha /\ source'[t].revision = source[t].revision
           /\ source'[t].linked = source[t].linked
           /\ source'[t].status = IF t = s THEN after ELSE source[t].status
      /\ concept' \in [Sources -> ConceptRow]
      /\ \A t \in Sources :
           /\ concept'[t].draft = concept[t].draft
           /\ concept'[t].status =
                IF t = s /\ concept[t].status # "absent" THEN after ELSE concept[t].status
      /\ source[s].status # "absent"
      /\ UNCHANGED <<chunks, claim, shown, approved>>
  <2>1. source[s].status # "absent" /\ UNCHANGED <<chunks, claim, shown, approved>>
    BY DEF SetsStatus
  <2> QED
    BY <2>1, SetsStatusRows
<1>2. /\ job' \in [Jobs -> JobRow]
      /\ \A i \in Jobs :
           /\ job'[i].kind = job[i].kind /\ job'[i].source = job[i].source
           /\ job'[i].sha = job[i].sha /\ job'[i].revision = job[i].revision
           /\ \/ job'[i].state = job[i].state
              \/ /\ job'[i].state = "finished" /\ i # claim
                 /\ job[i].kind = "reanalyze" => job[i].source = s
  BY DEF OnlyCloses
<1>3. TypeOK'
  <2>1. \A t \in Sources : /\ (source[t].linked <=> concept[t].draft # None)'
                            /\ (source[t].status = "absent" <=> source[t].sha = None)'
    BY <1>1, Typed
  <2> QED
    BY <1>1, <1>2, <2>1, Typed DEF TypeOK
<1>4. RowsAgreeOnExposure'
  BY <1>1 DEF LifecycleInv, RowsAgreeOnExposure
<1>5. EvidenceIsCurrent' /\ AbsentRowsAreEmpty'
  BY <1>1 DEF LifecycleInv, EvidenceIsCurrent, AbsentRowsAreEmpty
<1>6. JobsNameDocuments' /\ ClaimIsOpen'
  BY <1>1, <1>2, Typed DEF LifecycleInv, JobsNameDocuments, ClaimIsOpen
<1>7. ApprovedVersionIsStored'
  <2> SUFFICES ASSUME NEW t \in Sources, source'[t].status \in {"publishing", "published"}
               PROVE  approved[t] = VersionOf(t)'
    BY <1>1 DEF ApprovedVersionIsStored
  <2>1. source[t].status \in {"publishing", "published"}
    BY <1>1, <1>2
  <2>2. approved[t] = VersionOf(t)
    BY <2>1 DEF LifecycleInv, ApprovedVersionIsStored
  <2>3. VersionOf(t)' = VersionOf(t)
    BY <1>1 DEF VersionOf
  <2> QED
    BY <1>1, <2>2, <2>3
<1>8. PublishingIsOwned'
  BY <1>1, <1>2, Typed DEF LifecycleInv, PublishingIsOwned, Owns
<1>9. ReanalysisIsOwned'
  <2> SUFFICES ASSUME NEW t \in Sources, concept'[t].status = "enriched"
               PROVE  /\ source'[t].status = "enriched"
                      /\ \E j \in RunningJobs(t, "reanalyze")' : Owns(j, "reanalyze")'
    BY DEF ReanalysisIsOwned
  <2>1. t # s /\ concept[t].status = "enriched"
    BY <1>1, <1>2
  <2>2. PICK j \in RunningJobs(t, "reanalyze") : Owns(j, "reanalyze")
    BY <2>1 DEF LifecycleInv, ReanalysisIsOwned
  <2>3. j \in Jobs /\ job[j].source = t /\ job[j].kind = "reanalyze" /\ job[j].state = "running"
    BY <2>2 DEF RunningJobs
  <2>4. job'[j].state = "running"
    BY <1>2, <2>1, <2>3
  <2>5. j \in RunningJobs(t, "reanalyze")' /\ Owns(j, "reanalyze")'
    BY <1>1, <1>2, <2>2, <2>3, <2>4 DEF RunningJobs, Owns
  <2>6. source'[t].status = "enriched"
    BY <1>1, <2>1 DEF LifecycleInv, ReanalysisIsOwned
  <2> QED
    BY <2>5, <2>6
<1>10. IngestIsExclusive'
  <2> SUFFICES ASSUME NEW i \in Jobs, job'[i].kind = "ingest", job'[i].state = "running"
               PROVE  /\ Owns(i, "ingest")' /\ source'[job'[i].source].status # "deleted"
                      /\ \A k \in Jobs : k \in RunningJobs(job[i].source, "ingest")' => k = i
    BY DEF IngestIsExclusive, RunningJobs
  <2>1. job[i].kind = "ingest" /\ job[i].state = "running"
    BY <1>1, <1>2
  <2>2. /\ Owns(i, "ingest") /\ source[job[i].source].status # "deleted"
        /\ \A k \in RunningJobs(job[i].source, "ingest") : k = i
    BY <2>1 DEF LifecycleInv, IngestIsExclusive
  <2>3. job[i].source \in Sources
    BY <2>1 DEF LifecycleInv, JobsNameDocuments
  <2>4. Owns(i, "ingest")' /\ source'[job'[i].source].status # "deleted"
    BY <1>1, <1>2, <2>2, <2>3 DEF Owns
  <2>5. \A k \in Jobs : k \in RunningJobs(job[i].source, "ingest")' => k = i
    BY <1>2, <2>2 DEF RunningJobs
  <2> QED
    BY <2>4, <2>5
<1> QED
  BY <1>3, <1>4, <1>5, <1>6, <1>7, <1>8, <1>9, <1>10 DEF LifecycleInv

LEMMA CloseIngestJobKeepsInv ==
  ASSUME LifecycleInv, NEW j \in Jobs, NEW markSource \in BOOLEAN,
         CompleteIngestJob(j) \/ FailIngestJob(j, markSource)
  PROVE  LifecycleInv'
<1> DEFINE s == job[j].source
           fails == /\ markSource
                    /\ Owns(j, "ingest")
                    /\ source[s].status \notin {"published", "deleted"}
<1>1. /\ job[j].kind = "ingest" /\ job[j].state = "running" /\ FinishJob(j)
      /\ UNCHANGED <<chunks, claim, shown, approved>>
  BY DEF CompleteIngestJob, FailIngestJob
<1>2. j # claim /\ s \in Sources
  BY <1>1, NoneAssumption DEF LifecycleInv, ClaimIsOpen, JobsNameDocuments
<1>3. CASE source' = source /\ concept' = concept
  BY <1>1, <1>2, <1>3, ClosingKeepsInv
<1>4. CASE /\ Owns(j, "ingest")
           /\ source' = WithStatus(source, {s}, "failed")
           /\ concept' = WithStatus(concept, {s}, "failed")
  <2>1. source[s].status # "absent"
    BY <1>1, <1>2, <1>4, Typed, NoneAssumption DEF LifecycleInv, JobsNameDocuments, Owns
  <2>2. OnlyCloses(s)
    BY <1>1, <1>2, FinishedOnlyCloses
  <2>3. SetsStatus(s, "failed")
    BY <1>1, <1>4, <2>1 DEF SetsStatus
  <2> QED
    BY <1>2, <2>2, <2>3, SetsStatusKeepsInv
<1>5. fails \/ ~fails
  OBVIOUS
<1> QED
  BY <1>3, <1>4, <1>5 DEF CompleteIngestJob, FailIngestJob

-------------------------------------------------------------------------------
(* Review *)

LEMMA ShowReviewKeepsInv ==
  ASSUME LifecycleInv, NEW s \in Sources, ShowReview(s)
  PROVE  LifecycleInv'
<1>1. /\ AwaitingReview(s)
      /\ shown' = [shown EXCEPT ![s] = ReviewVersion(s)]
      /\ UNCHANGED <<source, concept, chunks, job, claim, approved>>
  BY DEF ShowReview
<1>2. ReviewVersion(s) \in ReviewToken
  <2>1. source[s] \in SourceRow /\ concept[s] \in ConceptRow /\ chunks[s] \in Revisions
    BY Typed
  <2>2. source[s].sha # None /\ concept[s].draft # None
    BY <1>1, Typed DEF AwaitingReview
  <2> QED
    BY <2>1, <2>2 DEF ReviewVersion, ReviewToken, SourceRow, ConceptRow
<1>3. TypeOK'
  BY <1>1, <1>2 DEF LifecycleInv, TypeOK
<1>4. /\ RowsAgreeOnExposure' /\ EvidenceIsCurrent' /\ PublishingIsOwned'
      /\ ReanalysisIsOwned' /\ IngestIsExclusive' /\ AbsentRowsAreEmpty'
      /\ ApprovedVersionIsStored' /\ JobsNameDocuments' /\ ClaimIsOpen'
  BY <1>1 DEF LifecycleInv, RowsAgreeOnExposure, EvidenceIsCurrent, PublishingIsOwned,
              ReanalysisIsOwned, IngestIsExclusive, AbsentRowsAreEmpty,
              ApprovedVersionIsStored, JobsNameDocuments, ClaimIsOpen, RunningJobs, Owns,
              VersionOf
<1> QED
  BY <1>3, <1>4 DEF LifecycleInv

(* The status changes that touch no job.                                      *)
LEMMA SetAsideKeepsInv ==
  ASSUME LifecycleInv, NEW s \in Sources,
         ExcludeReview(s) \/ ReturnToReview(s) \/ MarkSourceFailed(s)
  PROVE  LifecycleInv'
<1>1. job' = job
  BY DEF ExcludeReview, ReturnToReview, MarkSourceFailed
<1>2. OnlyCloses(s)
  BY <1>1, Typed DEF OnlyCloses
<1>3. PICK after \in {"failed", "needs_review", "excluded"} : SetsStatus(s, after)
  BY DEF ExcludeReview, ReturnToReview, MarkSourceFailed, AwaitingReview, Exists, SetsStatus
<1> QED
  BY <1>2, <1>3, SetsStatusKeepsInv

LEMMA FailReanalysisKeepsInv ==
  ASSUME LifecycleInv, NEW j \in Jobs, FailReanalysis(j)
  PROVE  LifecycleInv'
<1> DEFINE s == job[j].source
<1>1. /\ job[j].kind = "reanalyze" /\ job[j].state = "running" /\ FinishJob(j)
      /\ UNCHANGED <<chunks, claim, shown, approved>>
  BY DEF FailReanalysis
<1>2. j # claim /\ s \in Sources
  BY <1>1, NoneAssumption DEF LifecycleInv, ClaimIsOpen, JobsNameDocuments
<1>3. CASE Owns(j, "reanalyze") /\ Reanalyzing(s)
  <2>1. /\ source' = WithStatus(source, {s}, "needs_review")
        /\ concept' = WithStatus(concept, {s}, "needs_review")
        /\ source[s].status # "absent"
    BY <1>3 DEF FailReanalysis, Reanalyzing
  <2>2. OnlyCloses(s)
    BY <1>1, <1>2, FinishedOnlyCloses
  <2>3. SetsStatus(s, "needs_review")
    BY <1>1, <1>3, <2>1 DEF SetsStatus
  <2> QED
    BY <1>2, <2>2, <2>3, SetsStatusKeepsInv
<1>4. CASE ~(Owns(j, "reanalyze") /\ Reanalyzing(s))
  <2>1. source' = source /\ concept' = concept
    BY <1>4 DEF FailReanalysis
  <2>2. ~(Owns(j, "reanalyze") /\ concept[s].status = "enriched")
    BY <1>2, <1>4 DEF LifecycleInv, ReanalysisIsOwned, Reanalyzing
  <2> QED
    BY <1>1, <1>2, <2>1, <2>2, ClosingKeepsInv
<1> QED
  BY <1>3, <1>4

LEMMA BeginReanalysisKeepsInv ==
  ASSUME LifecycleInv, NEW j \in Jobs, NEW s \in Sources, BeginReanalysis(j, s)
  PROVE  LifecycleInv'
<1>1. /\ AwaitingReview(s) /\ StartJob(j, "reanalyze", s)
      /\ source' = WithStatus(source, {s}, "enriched")
      /\ concept' = WithStatus(concept, {s}, "enriched")
      /\ UNCHANGED <<chunks, claim, shown, approved>>
  BY DEF BeginReanalysis
<1>2. /\ source[s].status \in {"needs_review", "excluded"} /\ source[s].linked
      /\ concept[s].status = source[s].status
  BY <1>1 DEF AwaitingReview
<1>3. /\ source' \in [Sources -> SourceRow]
      /\ \A t \in Sources :
           /\ source'[t].sha = source[t].sha /\ source'[t].revision = source[t].revision
           /\ source'[t].linked = source[t].linked
           /\ source'[t].status = IF t = s THEN "enriched" ELSE source[t].status
  <2>1. "enriched" \in SourceStatus /\ source \in [Sources -> SourceRow]
    BY Typed DEF SourceStatus, InFlight
  <2> QED
    BY <1>1, <1>2, <2>1 DEF WithStatus, SourceRow
<1>4. /\ concept' \in [Sources -> ConceptRow]
      /\ \A t \in Sources :
           /\ concept'[t].draft = concept[t].draft
           /\ concept'[t].status = IF t = s THEN "enriched" ELSE concept[t].status
  BY <1>1, <1>2, Typed DEF WithStatus, ConceptRow, ConceptStatus
<1>5. /\ job' \in [Jobs -> JobRow]
      /\ j # claim /\ job[j].state # "running"
      /\ job'[j] = [kind |-> "reanalyze", source |-> s, sha |-> source[s].sha,
                    revision |-> source[s].revision, state |-> "running"]
      /\ source[s].sha \in Hashes
      /\ \A i \in Jobs : i # j => job'[i] = job[i]
  BY <1>1, <1>2, StartedJob
<1>6. TypeOK'
  <2>1. \A t \in Sources : /\ (source[t].linked <=> concept[t].draft # None)'
                           /\ (source[t].status = "absent" <=> source[t].sha = None)'
    BY <1>2, <1>3, <1>4, Typed
  <2> QED
    BY <1>1, <1>3, <1>4, <1>5, <2>1, Typed DEF TypeOK
<1>7. RowsAgreeOnExposure'
  BY <1>2, <1>3, <1>4 DEF LifecycleInv, RowsAgreeOnExposure
<1>8. EvidenceIsCurrent' /\ AbsentRowsAreEmpty'
  <2>1. EvidenceIsCurrent'
    BY <1>1, <1>3 DEF LifecycleInv, EvidenceIsCurrent
  <2>2. AbsentRowsAreEmpty'
    BY <1>2, <1>3, <1>4, Typed DEF LifecycleInv, AbsentRowsAreEmpty
  <2> QED
    BY <2>1, <2>2
<1>9. JobsNameDocuments' /\ ClaimIsOpen'
  BY <1>1, <1>5, Typed DEF LifecycleInv, JobsNameDocuments, ClaimIsOpen
<1>10. ApprovedVersionIsStored'
  BY <1>1, <1>3, <1>4 DEF LifecycleInv, ApprovedVersionIsStored, VersionOf
<1>11. PublishingIsOwned'
  <2> SUFFICES ASSUME NEW t \in Sources, source'[t].status = "publishing"
               PROVE  claim' # None /\ job'[claim'].source = t /\ Owns(claim, "publish")'
    BY DEF PublishingIsOwned
  <2>1. source[t].status = "publishing"
    BY <1>3
  <2>2. claim # None /\ job[claim].source = t /\ Owns(claim, "publish") /\ claim \in Jobs
    BY <2>1, Typed DEF LifecycleInv, PublishingIsOwned
  <2>3. claim' = claim /\ job'[claim] = job[claim]
    BY <1>1, <1>5, <2>2
  <2> QED
    BY <1>3, <2>2, <2>3 DEF Owns
<1>12. ReanalysisIsOwned'
  <2> SUFFICES ASSUME NEW t \in Sources, concept'[t].status = "enriched"
               PROVE  /\ source'[t].status = "enriched"
                      /\ \E k \in RunningJobs(t, "reanalyze")' : Owns(k, "reanalyze")'
    BY DEF ReanalysisIsOwned
  <2>1. CASE t = s
    <3>1. j \in RunningJobs(t, "reanalyze")' /\ Owns(j, "reanalyze")'
      <4>1. j \in RunningJobs(s, "reanalyze")'
        BY <1>5 DEF RunningJobs
      <4>2. Owns(j, "reanalyze")'
        BY <1>3, <1>5 DEF Owns
      <4> QED
        BY <2>1, <4>1, <4>2
    <3> QED
      BY <1>3, <2>1, <3>1
  <2>2. CASE t # s
    <3>1. concept[t].status = "enriched"
      BY <1>4, <2>2
    <3>2. source[t].status = "enriched"
      BY <3>1 DEF LifecycleInv, ReanalysisIsOwned
    <3>3. PICK k \in RunningJobs(t, "reanalyze") : Owns(k, "reanalyze")
      BY <3>1 DEF LifecycleInv, ReanalysisIsOwned
    <3>4. k \in RunningJobs(t, "reanalyze")' /\ Owns(k, "reanalyze")'
      <4>1. /\ k \in Jobs /\ k # j /\ job'[k] = job[k] /\ job[k].kind = "reanalyze"
            /\ job[k].source = t /\ job[k].state = "running"
        BY <1>5, <3>3 DEF RunningJobs
      <4>2. k \in RunningJobs(t, "reanalyze")'
        BY <4>1 DEF RunningJobs
      <4>3. Owns(k, "reanalyze")'
        BY <1>3, <3>3, <4>1 DEF Owns
      <4> QED
        BY <4>2, <4>3
    <3> QED
      BY <1>3, <2>2, <3>2, <3>4
  <2> QED
    BY <2>1, <2>2
<1>13. IngestIsExclusive'
  <2> SUFFICES ASSUME NEW i \in Jobs, job'[i].kind = "ingest", job'[i].state = "running"
               PROVE  /\ Owns(i, "ingest")' /\ source'[job'[i].source].status # "deleted"
                      /\ \A k \in Jobs :
                           job'[k].source = job'[i].source /\ job'[k].kind = "ingest"
                             /\ job'[k].state = "running" => k = i
    BY DEF IngestIsExclusive, RunningJobs
  <2>1. i # j /\ job'[i] = job[i]
    BY <1>5
  <2>2. /\ Owns(i, "ingest") /\ source[job[i].source].status # "deleted"
        /\ \A k \in RunningJobs(job[i].source, "ingest") : k = i
        /\ job[i].source \in Sources
    BY <2>1 DEF LifecycleInv, IngestIsExclusive, JobsNameDocuments
  <2>3. Owns(i, "ingest")' /\ source'[job'[i].source].status # "deleted"
    BY <1>3, <2>1, <2>2 DEF Owns
  <2>4. \A k \in Jobs : job'[k].kind = "ingest" => k # j /\ job'[k] = job[k]
    BY <1>5
  <2> QED
    BY <2>1, <2>2, <2>3, <2>4 DEF RunningJobs
<1> QED
  BY <1>6, <1>7, <1>8, <1>9, <1>10, <1>11, <1>12, <1>13 DEF LifecycleInv

(* No document gets other bytes or is deleted.                                *)
BytesStay ==
  \A t \in Sources :
    /\ source'[t].sha = source[t].sha /\ source'[t].revision = source[t].revision
    /\ source'[t].status = "deleted" => source[t].status = "deleted"

(* No job of this kind starts.                                                *)
NoneStarts(kind) ==
  \A j \in Jobs : job'[j].kind = kind /\ job'[j].state = "running" =>
    /\ job[j].kind = kind /\ job[j].state = "running"
    /\ job'[j].source = job[j].source /\ job'[j].sha = job[j].sha
    /\ job'[j].revision = job[j].revision

LEMMA IngestStaysExclusive ==
  ASSUME LifecycleInv, BytesStay, NoneStarts("ingest")
  PROVE  IngestIsExclusive'
<1> SUFFICES ASSUME NEW i \in Jobs, job'[i].kind = "ingest", job'[i].state = "running"
             PROVE  /\ Owns(i, "ingest")' /\ source'[job'[i].source].status # "deleted"
                    /\ \A k \in Jobs :
                         job'[k].source = job'[i].source /\ job'[k].kind = "ingest"
                           /\ job'[k].state = "running" => k = i
  BY DEF IngestIsExclusive, RunningJobs
<1>1. /\ job[i].kind = "ingest" /\ job[i].state = "running"
      /\ job'[i].source = job[i].source /\ job'[i].sha = job[i].sha
      /\ job'[i].revision = job[i].revision
  BY DEF NoneStarts
<1>2. /\ Owns(i, "ingest") /\ source[job[i].source].status # "deleted"
      /\ \A k \in RunningJobs(job[i].source, "ingest") : k = i
      /\ job[i].source \in Sources
  BY <1>1 DEF LifecycleInv, IngestIsExclusive, JobsNameDocuments
<1>3. Owns(i, "ingest")' /\ source'[job'[i].source].status # "deleted"
  BY <1>1, <1>2 DEF Owns, BytesStay
<1>4. \A k \in Jobs :
        job'[k].source = job'[i].source /\ job'[k].kind = "ingest"
          /\ job'[k].state = "running" => k = i
  BY <1>1, <1>2 DEF RunningJobs, NoneStarts
<1> QED
  BY <1>3, <1>4

(* No draft is newly withheld, and the reanalyses of those that stay withheld   *)
(* go on.                                                                     *)
ReanalysesGoOn ==
  \A t \in Sources : concept'[t].status = "enriched" =>
    /\ concept[t].status = "enriched" /\ source'[t].status = source[t].status
    /\ source'[t].sha = source[t].sha /\ source'[t].revision = source[t].revision
    /\ \A k \in Jobs :
         job[k].kind = "reanalyze" /\ job[k].source = t /\ job[k].state = "running" =>
           /\ job'[k].kind = "reanalyze" /\ job'[k].source = t /\ job'[k].state = "running"
           /\ job'[k].sha = job[k].sha /\ job'[k].revision = job[k].revision

LEMMA ReanalysisStaysOwned ==
  ASSUME LifecycleInv, ReanalysesGoOn
  PROVE  ReanalysisIsOwned'
<1> SUFFICES ASSUME NEW t \in Sources, concept'[t].status = "enriched"
             PROVE  /\ source'[t].status = "enriched"
                    /\ \E k \in RunningJobs(t, "reanalyze")' : Owns(k, "reanalyze")'
  BY DEF ReanalysisIsOwned
<1>1. concept[t].status = "enriched" /\ source'[t].status = source[t].status
  BY DEF ReanalysesGoOn
<1>2. source[t].status = "enriched"
  BY <1>1 DEF LifecycleInv, ReanalysisIsOwned
<1>3. PICK k \in RunningJobs(t, "reanalyze") : Owns(k, "reanalyze")
  BY <1>1 DEF LifecycleInv, ReanalysisIsOwned
<1>4. /\ k \in Jobs /\ job[k].kind = "reanalyze" /\ job[k].source = t
      /\ job[k].state = "running"
  BY <1>3 DEF RunningJobs
<1>5. k \in RunningJobs(t, "reanalyze")' /\ Owns(k, "reanalyze")'
  BY <1>3, <1>4 DEF RunningJobs, Owns, ReanalysesGoOn
<1> QED
  BY <1>1, <1>2, <1>5

LEMMA CompleteReanalysisKeepsInv ==
  ASSUME LifecycleInv, NEW j \in Jobs, NEW d \in Drafts, CompleteReanalysis(j, d)
  PROVE  LifecycleInv'
<1> DEFINE s == job[j].source
<1>1. /\ Owns(j, "reanalyze") /\ source[s].status = "enriched" /\ FinishJob(j)
      /\ concept[s].status = "enriched"
      /\ source' = WithStatus(source, {s}, "needs_review")
      /\ concept' = [concept EXCEPT ![s] = [status |-> "needs_review", draft |-> d]]
      /\ chunks' = [chunks EXCEPT ![s] = job[j].revision]
  BY DEF CompleteReanalysis, Reanalyzing
<1>same. UNCHANGED <<claim, shown, approved>>
  BY DEF CompleteReanalysis
<1>2. /\ s \in Sources /\ j # claim /\ job[j].revision = source[s].revision
      /\ job[j].kind = "reanalyze"
  BY <1>1, NoneAssumption DEF LifecycleInv, JobsNameDocuments, ClaimIsOpen, Owns
<1>3. /\ job' \in [Jobs -> JobRow]
      /\ \A i \in Jobs :
           /\ job'[i].kind = job[i].kind /\ job'[i].source = job[i].source
           /\ job'[i].sha = job[i].sha /\ job'[i].revision = job[i].revision
           /\ job'[i].state = IF i = j THEN "finished" ELSE job[i].state
  BY <1>1, FinishedJob
<1>4. source[s].linked /\ source[s].sha # None /\ d # None
  BY <1>1, <1>2, Typed, NoneAssumption DEF LifecycleInv, AbsentRowsAreEmpty
<1> HIDE DEF s
<1>5. /\ source' \in [Sources -> SourceRow]
      /\ \A t \in Sources :
           /\ source'[t].sha = source[t].sha /\ source'[t].revision = source[t].revision
           /\ source'[t].linked = source[t].linked
           /\ source'[t].status = IF t = s THEN "needs_review" ELSE source[t].status
  <2>1. "needs_review" \in SourceStatus /\ source \in [Sources -> SourceRow]
    BY Typed DEF SourceStatus, Settled
  <2> QED
    BY <1>1, <1>2, <2>1 DEF WithStatus, SourceRow
<1>6. /\ concept' \in [Sources -> ConceptRow]
      /\ \A t \in Sources :
           /\ concept'[t].status = IF t = s THEN "needs_review" ELSE concept[t].status
           /\ concept'[t].draft = IF t = s THEN d ELSE concept[t].draft
  BY <1>1, <1>2, Typed DEF ConceptRow, ConceptStatus
<1>7. /\ chunks' \in [Sources -> Revisions]
      /\ chunks'[s] = source[s].revision
      /\ \A t \in Sources : t # s => chunks'[t] = chunks[t]
  <2>1. source[s].revision \in Revisions
    BY <1>2, Typed DEF SourceRow
  <2> QED
    BY <1>1, <1>2, <2>1, Typed
<1>8. TypeOK'
  <2>1. \A t \in Sources : /\ (source[t].linked <=> concept[t].draft # None)'
                           /\ (source[t].status = "absent" <=> source[t].sha = None)'
    BY <1>4, <1>5, <1>6, Typed
  <2>2. /\ claim \in Jobs \union {None}
        /\ shown \in [Sources -> ReviewToken \union {None}]
        /\ approved \in [Sources -> Version \union {None}]
    BY Typed
  <2> QED
    BY <1>same, <1>3, <1>5, <1>6, <1>7, <2>1, <2>2 DEF TypeOK
<1>9. RowsAgreeOnExposure'
  BY <1>5, <1>6 DEF LifecycleInv, RowsAgreeOnExposure
<1>10. EvidenceIsCurrent'
  BY <1>5, <1>7 DEF LifecycleInv, EvidenceIsCurrent
<1>11. AbsentRowsAreEmpty'
  BY <1>5, <1>6, NoneAssumption DEF LifecycleInv, AbsentRowsAreEmpty
<1>12. JobsNameDocuments' /\ ClaimIsOpen'
  BY <1>same, <1>2, <1>3, Typed DEF LifecycleInv, JobsNameDocuments, ClaimIsOpen
<1>13. ApprovedVersionIsStored'
  <2> SUFFICES ASSUME NEW t \in Sources, source'[t].status \in {"publishing", "published"}
               PROVE  approved[t] = VersionOf(t)'
    BY <1>same DEF ApprovedVersionIsStored
  <2>1. t # s /\ source[t].status \in {"publishing", "published"}
    BY <1>5
  <2>2. approved[t] = VersionOf(t)
    BY <2>1 DEF LifecycleInv, ApprovedVersionIsStored
  <2>3. VersionOf(t)' = VersionOf(t)
    BY <1>5, <1>6, <2>1 DEF VersionOf
  <2> QED
    BY <2>2, <2>3
<1>14. PublishingIsOwned'
  BY <1>same, <1>2, <1>3, <1>5, Typed DEF LifecycleInv, PublishingIsOwned, Owns
<1>15. ReanalysisIsOwned'
  <2>1. ReanalysesGoOn
    BY <1>3, <1>5, <1>6 DEF ReanalysesGoOn, s
  <2> QED
    BY <2>1, ReanalysisStaysOwned
<1>16. IngestIsExclusive'
  <2>1. BytesStay /\ NoneStarts("ingest")
    BY <1>3, <1>5 DEF BytesStay, NoneStarts
  <2> QED
    BY <2>1, IngestStaysExclusive
<1> QED
  BY <1>8, <1>9, <1>10, <1>11, <1>12, <1>13, <1>14, <1>15, <1>16 DEF LifecycleInv

-------------------------------------------------------------------------------
(* Publication *)

LEMMA BeginPublicationKeepsInv ==
  ASSUME LifecycleInv, NEW j \in Jobs, NEW s \in Sources, NEW d \in Drafts,
         BeginPublication(j, s, d)
  PROVE  LifecycleInv'
<1>1. /\ MatchesReviewed(s) /\ claim = None /\ StartJob(j, "publish", s)
      /\ source' = WithStatus(source, {s}, "publishing")
      /\ concept' = [concept EXCEPT ![s] = [status |-> "publishing", draft |-> d]]
      /\ approved' = [approved EXCEPT ![s] = [revision |-> shown[s].revision,
                                              sha |-> shown[s].sha, draft |-> d]]
  BY DEF BeginPublication
<1>same. UNCHANGED <<chunks, shown>> /\ claim' = j
  BY DEF BeginPublication
<1>2. /\ source[s].status \in {"needs_review", "excluded"} /\ source[s].linked
      /\ chunks[s] # 0 /\ source[s].sha # None /\ d # None /\ j # None
      /\ shown[s].revision = source[s].revision /\ shown[s].sha = source[s].sha
  BY <1>1, Typed, NoneAssumption DEF MatchesReviewed, AwaitingReview, ReviewVersion
<1>3. \A t \in Sources : source[t].status # "publishing"
  BY <1>1 DEF LifecycleInv, PublishingIsOwned
<1>4. /\ job' \in [Jobs -> JobRow]
      /\ job[j].state # "running"
      /\ job'[j] = [kind |-> "publish", source |-> s, sha |-> source[s].sha,
                    revision |-> source[s].revision, state |-> "running"]
      /\ source[s].sha \in Hashes
      /\ \A i \in Jobs : i # j => job'[i] = job[i]
  BY <1>1, <1>2, StartedJob
<1>5. /\ source' \in [Sources -> SourceRow]
      /\ \A t \in Sources :
           /\ source'[t].sha = source[t].sha /\ source'[t].revision = source[t].revision
           /\ source'[t].linked = source[t].linked
           /\ source'[t].status = IF t = s THEN "publishing" ELSE source[t].status
  <2>1. "publishing" \in SourceStatus /\ source \in [Sources -> SourceRow]
    BY Typed DEF SourceStatus, Settled
  <2> QED
    BY <1>1, <1>2, <2>1 DEF WithStatus, SourceRow
<1>6. /\ concept' \in [Sources -> ConceptRow]
      /\ \A t \in Sources :
           /\ concept'[t].status = IF t = s THEN "publishing" ELSE concept[t].status
           /\ concept'[t].draft = IF t = s THEN d ELSE concept[t].draft
  BY <1>1, Typed DEF ConceptRow, ConceptStatus
<1>7. /\ approved' \in [Sources -> Version \union {None}]
      /\ approved'[s] = [revision |-> source[s].revision, sha |-> source[s].sha, draft |-> d]
      /\ \A t \in Sources : t # s => approved'[t] = approved[t]
  <2>1. source[s].revision \in Revisions
    BY Typed DEF SourceRow
  <2>2. [revision |-> source[s].revision, sha |-> source[s].sha, draft |-> d] \in Version
    BY <1>4, <2>1 DEF Version
  <2> QED
    BY <1>1, <1>2, <2>2, Typed
<1>8. TypeOK'
  <2>1. \A t \in Sources : /\ (source[t].linked <=> concept[t].draft # None)'
                           /\ (source[t].status = "absent" <=> source[t].sha = None)'
    BY <1>2, <1>5, <1>6, Typed
  <2>2. /\ chunks \in [Sources -> Revisions]
        /\ shown \in [Sources -> ReviewToken \union {None}]
    BY Typed
  <2> QED
    BY <1>same, <1>4, <1>5, <1>6, <1>7, <2>1, <2>2 DEF TypeOK
<1>9. RowsAgreeOnExposure'
  BY <1>5, <1>6 DEF LifecycleInv, RowsAgreeOnExposure
<1>10. EvidenceIsCurrent'
  BY <1>same, <1>2, <1>5 DEF LifecycleInv, EvidenceIsCurrent
<1>11. AbsentRowsAreEmpty'
  BY <1>2, <1>5, <1>6 DEF LifecycleInv, AbsentRowsAreEmpty
<1>12. JobsNameDocuments' /\ ClaimIsOpen'
  BY <1>same, <1>4 DEF LifecycleInv, JobsNameDocuments, ClaimIsOpen
<1>13. ApprovedVersionIsStored'
  <2> SUFFICES ASSUME NEW t \in Sources, source'[t].status \in {"publishing", "published"}
               PROVE  approved'[t] = VersionOf(t)'
    BY DEF ApprovedVersionIsStored
  <2>1. CASE t = s
    BY <1>5, <1>6, <1>7, <2>1 DEF VersionOf
  <2>2. CASE t # s
    <3>1. approved[t] = VersionOf(t)
      BY <1>5, <2>2 DEF LifecycleInv, ApprovedVersionIsStored
    <3>2. VersionOf(t)' = VersionOf(t)
      BY <1>5, <1>6, <2>2 DEF VersionOf
    <3> QED
      BY <1>7, <2>2, <3>1, <3>2
  <2> QED
    BY <2>1, <2>2
<1>14. PublishingIsOwned'
  <2>1. \A t \in Sources : source'[t].status = "publishing" => t = s
    BY <1>3, <1>5
  <2>2. Owns(j, "publish")'
    BY <1>4, <1>5 DEF Owns
  <2> QED
    BY <1>same, <1>2, <1>4, <2>1, <2>2 DEF PublishingIsOwned
<1>15. ReanalysisIsOwned'
  <2>1. ReanalysesGoOn
    BY <1>4, <1>5, <1>6 DEF ReanalysesGoOn
  <2> QED
    BY <2>1, ReanalysisStaysOwned
<1>16. IngestIsExclusive'
  <2>1. BytesStay /\ NoneStarts("ingest")
    BY <1>4, <1>5 DEF BytesStay, NoneStarts
  <2> QED
    BY <2>1, IngestStaysExclusive
<1> QED
  BY <1>8, <1>9, <1>10, <1>11, <1>12, <1>13, <1>14, <1>15, <1>16 DEF LifecycleInv

LEMMA CompletePublicationKeepsInv ==
  ASSUME LifecycleInv, NEW j \in Jobs, CompletePublication(j)
  PROVE  LifecycleInv'
<1> DEFINE s == job[j].source
<1>1. /\ claim = j /\ Owns(j, "publish") /\ FinishJob(j)
      /\ source[s].status = "publishing" /\ concept[s].status = "publishing"
      /\ source' = WithStatus(source, {s}, "published")
      /\ concept' = WithStatus(concept, {s}, "published")
  BY DEF CompletePublication, MayCommit, Publishing
<1>same. UNCHANGED <<chunks, shown, approved>> /\ claim' = None
  BY DEF CompletePublication
<1>2. s \in Sources /\ job[j].kind = "publish"
  BY <1>1 DEF LifecycleInv, JobsNameDocuments, Owns
<1>3. \A t \in Sources : source[t].status = "publishing" => t = s
  BY <1>1 DEF LifecycleInv, PublishingIsOwned
<1>4. /\ job' \in [Jobs -> JobRow]
      /\ \A i \in Jobs :
           /\ job'[i].kind = job[i].kind /\ job'[i].source = job[i].source
           /\ job'[i].sha = job[i].sha /\ job'[i].revision = job[i].revision
           /\ job'[i].state = IF i = j THEN "finished" ELSE job[i].state
  BY <1>1, FinishedJob
<1> HIDE DEF s
<1>5. /\ source' \in [Sources -> SourceRow]
      /\ \A t \in Sources :
           /\ source'[t].sha = source[t].sha /\ source'[t].revision = source[t].revision
           /\ source'[t].linked = source[t].linked
           /\ source'[t].status = IF t = s THEN "published" ELSE source[t].status
  <2>1. "published" \in SourceStatus /\ source \in [Sources -> SourceRow]
    BY Typed DEF SourceStatus, Settled
  <2> QED
    BY <1>1, <1>2, <2>1 DEF WithStatus, SourceRow
<1>6. /\ concept' \in [Sources -> ConceptRow]
      /\ \A t \in Sources :
           /\ concept'[t].status = IF t = s THEN "published" ELSE concept[t].status
           /\ concept'[t].draft = concept[t].draft
  <2>1. "published" \in ConceptStatus /\ concept \in [Sources -> ConceptRow]
    BY Typed DEF ConceptStatus
  <2> QED
    BY <1>1, <1>2, <2>1 DEF WithStatus, ConceptRow
<1>7. source[s].status = "publishing" /\ concept[s].status = "publishing"
  BY <1>1
<1>8. TypeOK'
  <2>1. \A t \in Sources : /\ (source[t].linked <=> concept[t].draft # None)'
                           /\ (source[t].status = "absent" <=> source[t].sha = None)'
    BY <1>5, <1>6, <1>7, Typed
  <2>2. /\ chunks \in [Sources -> Revisions]
        /\ shown \in [Sources -> ReviewToken \union {None}]
        /\ approved \in [Sources -> Version \union {None}]
    BY Typed
  <2> QED
    BY <1>same, <1>4, <1>5, <1>6, <2>1, <2>2 DEF TypeOK
<1>9. RowsAgreeOnExposure'
  BY <1>5, <1>6 DEF LifecycleInv, RowsAgreeOnExposure
<1>10. EvidenceIsCurrent'
  BY <1>same, <1>5, <1>7 DEF LifecycleInv, EvidenceIsCurrent
<1>11. AbsentRowsAreEmpty'
  BY <1>5, <1>6, <1>7 DEF LifecycleInv, AbsentRowsAreEmpty
<1>12. JobsNameDocuments' /\ ClaimIsOpen'
  BY <1>same, <1>4 DEF LifecycleInv, JobsNameDocuments, ClaimIsOpen
<1>13. ApprovedVersionIsStored'
  <2> SUFFICES ASSUME NEW t \in Sources, source'[t].status \in {"publishing", "published"}
               PROVE  approved[t] = VersionOf(t)'
    BY <1>same DEF ApprovedVersionIsStored
  <2>1. approved[t] = VersionOf(t)
    BY <1>5, <1>7 DEF LifecycleInv, ApprovedVersionIsStored
  <2>2. VersionOf(t)' = VersionOf(t)
    BY <1>5, <1>6 DEF VersionOf
  <2> QED
    BY <2>1, <2>2
<1>14. PublishingIsOwned'
  BY <1>3, <1>5 DEF PublishingIsOwned
<1>15. ReanalysisIsOwned'
  <2>1. ReanalysesGoOn
    BY <1>2, <1>4, <1>5, <1>6 DEF ReanalysesGoOn
  <2> QED
    BY <2>1, ReanalysisStaysOwned
<1>16. IngestIsExclusive'
  <2>1. BytesStay /\ NoneStarts("ingest")
    BY <1>4, <1>5 DEF BytesStay, NoneStarts
  <2> QED
    BY <2>1, IngestStaysExclusive
<1> QED
  BY <1>8, <1>9, <1>10, <1>11, <1>12, <1>13, <1>14, <1>15, <1>16 DEF LifecycleInv

(* Both steps of a cancellation, which return the claimed document to review   *)
(* and keep the claim or give it up.                                          *)
LEMMA CancellationKeepsInv ==
  ASSUME LifecycleInv, NEW j \in Jobs,
         MarkPublicationCancelling(j) \/ FinishPublicationCancellation(j)
  PROVE  LifecycleInv'
<1> DEFINE s == job[j].source
<1>1. claim = j /\ ReturnClaimed(j) /\ UNCHANGED <<chunks, shown, approved>>
  BY DEF MarkPublicationCancelling, FinishPublicationCancellation
<1>2. s \in Sources /\ job[j].kind = "publish" /\ j # None
  BY <1>1, NoneAssumption DEF LifecycleInv, JobsNameDocuments, ClaimIsOpen
<1>3. \A t \in Sources :
        /\ source[t].status = "publishing" => t = s
        /\ source[t].status = "publishing" <=> concept[t].status = "publishing"
  BY <1>1 DEF LifecycleInv, PublishingIsOwned, RowsAgreeOnExposure
<1>4. source[s].status = "publishing" =>
        source[s].sha = job[j].sha /\ source[s].revision = job[j].revision
  BY <1>1, <1>2 DEF LifecycleInv, PublishingIsOwned, Owns
<1>5. /\ job' \in [Jobs -> JobRow]
      /\ \A i \in Jobs :
           /\ job'[i].kind = job[i].kind /\ job'[i].source = job[i].source
           /\ job'[i].sha = job[i].sha /\ job'[i].revision = job[i].revision
           /\ i # j => job'[i].state = job[i].state
      /\ \/ claim' = None
         \/ claim' = claim /\ job'[j].state = "cancelling"
  <2>1. CASE MarkPublicationCancelling(j)
    <3>1. job' = [job EXCEPT ![j].state = "cancelling"] /\ claim' = claim
      BY <2>1 DEF MarkPublicationCancelling
    <3> QED
      BY <3>1, Typed DEF JobRow, JobState
  <2>2. CASE FinishPublicationCancellation(j)
    <3>1. FinishJob(j) /\ claim' = None
      BY <2>2 DEF FinishPublicationCancellation
    <3> QED
      BY <3>1, FinishedJob
  <2> QED
    BY <2>1, <2>2
<1>6. /\ source' \in [Sources -> SourceRow]
      /\ \A t \in Sources :
           /\ source'[t].sha = source[t].sha /\ source'[t].revision = source[t].revision
           /\ source'[t].linked = source[t].linked
           /\ source'[t].status = IF source[t].status = "publishing" THEN "needs_review"
                                                                    ELSE source[t].status
  <2>1. "needs_review" \in SourceStatus /\ source \in [Sources -> SourceRow]
    BY Typed DEF SourceStatus, Settled
  <2>2. CASE source[s].status = "publishing"
    <3>1. source' = WithStatus(source, {s}, "needs_review")
      BY <1>1, <1>4, <2>2 DEF ReturnClaimed
    <3> QED
      BY <1>2, <1>3, <2>1, <2>2, <3>1 DEF WithStatus, SourceRow
  <2>3. CASE source[s].status # "publishing"
    <3>1. source' = source
      BY <1>1, <2>3 DEF ReturnClaimed
    <3> QED
      BY <1>3, <2>1, <2>3, <3>1
  <2> QED
    BY <2>2, <2>3
<1>7. /\ concept' \in [Sources -> ConceptRow]
      /\ \A t \in Sources :
           /\ concept'[t].draft = concept[t].draft
           /\ concept'[t].status = IF source[t].status = "publishing" THEN "needs_review"
                                                                     ELSE concept[t].status
  <2>1. "needs_review" \in ConceptStatus /\ concept \in [Sources -> ConceptRow]
    BY Typed DEF ConceptStatus
  <2>2. CASE source[s].status = "publishing"
    <3>1. concept' = WithStatus(concept, {s}, "needs_review") /\ concept[s].status = "publishing"
      BY <1>1, <1>2, <1>3, <2>2 DEF ReturnClaimed
    <3> QED
      BY <1>2, <1>3, <2>1, <2>2, <3>1 DEF WithStatus, ConceptRow
  <2>3. CASE source[s].status # "publishing"
    <3>1. concept' = concept
      BY <1>1, <1>2, <1>3, <2>3 DEF ReturnClaimed
    <3> QED
      BY <1>3, <2>1, <2>3, <3>1
  <2> QED
    BY <2>2, <2>3
<1> HIDE DEF s
<1>8. TypeOK'
  <2>1. \A t \in Sources : /\ (source[t].linked <=> concept[t].draft # None)'
                           /\ (source[t].status = "absent" <=> source[t].sha = None)'
    BY <1>6, <1>7, Typed
  <2>2. /\ claim' \in Jobs \union {None}
        /\ chunks \in [Sources -> Revisions]
        /\ shown \in [Sources -> ReviewToken \union {None}]
        /\ approved \in [Sources -> Version \union {None}]
    BY <1>5, Typed
  <2> QED
    BY <1>1, <1>5, <1>6, <1>7, <2>1, <2>2 DEF TypeOK
<1>9. RowsAgreeOnExposure'
  BY <1>3, <1>6, <1>7 DEF LifecycleInv, RowsAgreeOnExposure
<1>10. EvidenceIsCurrent'
  BY <1>1, <1>6 DEF LifecycleInv, EvidenceIsCurrent
<1>11. AbsentRowsAreEmpty'
  BY <1>3, <1>6, <1>7 DEF LifecycleInv, AbsentRowsAreEmpty
<1>12. JobsNameDocuments' /\ ClaimIsOpen'
  BY <1>1, <1>2, <1>5 DEF LifecycleInv, JobsNameDocuments, ClaimIsOpen
<1>13. ApprovedVersionIsStored'
  <2> SUFFICES ASSUME NEW t \in Sources, source'[t].status \in {"publishing", "published"}
               PROVE  approved[t] = VersionOf(t)'
    BY <1>1 DEF ApprovedVersionIsStored
  <2>1. approved[t] = VersionOf(t)
    BY <1>6 DEF LifecycleInv, ApprovedVersionIsStored
  <2>2. VersionOf(t)' = VersionOf(t)
    BY <1>6, <1>7 DEF VersionOf
  <2> QED
    BY <2>1, <2>2
<1>14. PublishingIsOwned'
  BY <1>6 DEF PublishingIsOwned
<1>15. ReanalysisIsOwned'
  <2>1. ReanalysesGoOn
    BY <1>2, <1>3, <1>5, <1>6, <1>7 DEF ReanalysesGoOn
  <2> QED
    BY <2>1, ReanalysisStaysOwned
<1>16. IngestIsExclusive'
  <2>1. BytesStay /\ NoneStarts("ingest")
    BY <1>2, <1>5, <1>6 DEF BytesStay, NoneStarts
  <2> QED
    BY <2>1, IngestStaysExclusive
<1> QED
  BY <1>8, <1>9, <1>10, <1>11, <1>12, <1>13, <1>14, <1>15, <1>16 DEF LifecycleInv

-------------------------------------------------------------------------------
(* Failing closed *)

LEMMA WithdrawingKeepsInv ==
  ASSUME LifecycleInv, NEW S \in SUBSET Sources,
         NEW status \in {"failed", "deleted"},
         \A s \in S : source[s].status # "absent",
         source' = WithStatus(source, S, status), Withdraw(S, status)
  PROVE  LifecycleInv'
<1>1. status \in SourceStatus /\ source \in [Sources -> SourceRow]
  BY Typed DEF SourceStatus
<1>2. /\ source' \in [Sources -> SourceRow]
      /\ \A s \in Sources : s \notin S => source'[s] = source[s]
      /\ \A s \in S : /\ source'[s].status = status /\ source'[s].sha = source[s].sha
                      /\ source'[s].linked = source[s].linked
  BY <1>1 DEF WithStatus, SourceRow
<1>3. \A s \in S : source'[s].sha # None
  BY <1>2, Typed
<1> QED
  BY <1>2, <1>3, WithdrawalKeepsInv

LEMMA FailClosedKeepsInv ==
  ASSUME LifecycleInv,
         \/ \E s \in Sources : MarkDeleted(s) \/ QuarantineSource(s)
         \/ QuarantineCollection
  PROVE  LifecycleInv'
<1>1. CASE \E s \in Sources : MarkDeleted(s) \/ QuarantineSource(s)
  <2>1. PICK s \in Sources : MarkDeleted(s) \/ QuarantineSource(s)
    BY <1>1
  <2>2. PICK status \in {"failed", "deleted"} :
          source' = WithStatus(source, {s}, status) /\ Withdraw({s}, status)
    BY <2>1 DEF MarkDeleted, QuarantineSource
  <2>3. {s} \in SUBSET Sources /\ \A t \in {s} : source[t].status # "absent"
    BY <2>1 DEF MarkDeleted, QuarantineSource, Exists
  <2> QED
    BY <2>2, <2>3, WithdrawingKeepsInv
<1>2. CASE QuarantineCollection
  <2> DEFINE present == {s \in Sources : Exists(s) /\ source[s].status # "deleted"}
  <2>1. source' = WithStatus(source, present, "failed") /\ Withdraw(present, "failed")
    BY <1>2 DEF QuarantineCollection
  <2>2. present \in SUBSET Sources /\ \A s \in present : source[s].status # "absent"
    BY DEF Exists
  <2> HIDE DEF present
  <2> QED
    BY <2>1, <2>2, WithdrawingKeepsInv
<1> QED
  BY <1>1, <1>2

LEMMA RecoverInterruptedJobsKeepsInv ==
  ASSUME LifecycleInv, RecoverInterruptedJobs
  PROVE  LifecycleInv'
<1>1. /\ UNCHANGED <<chunks, claim, approved>>
      /\ shown' = [s \in Sources |-> None]
      /\ job' = [j \in Jobs |-> IF job[j].state = "running" /\ job[j].kind # "publish"
                                THEN [job[j] EXCEPT !.state = "finished"] ELSE job[j]]
  BY DEF RecoverInterruptedJobs
<1>2. /\ job' \in [Jobs -> JobRow]
      /\ \A j \in Jobs :
           /\ job'[j].kind = job[j].kind /\ job'[j].source = job[j].source
           /\ job'[j].sha = job[j].sha /\ job'[j].revision = job[j].revision
           /\ job'[j].state = IF job[j].state = "running" /\ job[j].kind # "publish"
                              THEN "finished" ELSE job[j].state
  <2>1. job \in [Jobs -> JobRow]
    BY Typed
  <2>2. \A j \in Jobs :
          job'[j] = IF job[j].state = "running" /\ job[j].kind # "publish"
                    THEN [job[j] EXCEPT !.state = "finished"] ELSE job[j]
    BY <1>1
  <2>3. \A j \in Jobs :
          /\ [job[j] EXCEPT !.state = "finished"] \in JobRow
          /\ [job[j] EXCEPT !.state = "finished"].state = "finished"
          /\ [job[j] EXCEPT !.state = "finished"].kind = job[j].kind
          /\ [job[j] EXCEPT !.state = "finished"].source = job[j].source
          /\ [job[j] EXCEPT !.state = "finished"].sha = job[j].sha
          /\ [job[j] EXCEPT !.state = "finished"].revision = job[j].revision
    BY <2>1 DEF JobRow, JobState
  <2>4. job' \in [Jobs -> JobRow]
    BY <1>1, <2>1, <2>3
  <2>5. ASSUME NEW j \in Jobs
        PROVE  /\ job'[j].kind = job[j].kind /\ job'[j].source = job[j].source
               /\ job'[j].sha = job[j].sha /\ job'[j].revision = job[j].revision
               /\ job'[j].state = IF job[j].state = "running" /\ job[j].kind # "publish"
                                  THEN "finished" ELSE job[j].state
    <3>1. CASE job[j].state = "running" /\ job[j].kind # "publish"
      <4>1. job'[j] = [job[j] EXCEPT !.state = "finished"]
        BY <2>2, <3>1
      <4> QED
        BY <2>3, <3>1, <4>1
    <3>2. CASE ~(job[j].state = "running" /\ job[j].kind # "publish")
      BY <2>2, <3>2
    <3> QED
      BY <3>1, <3>2
  <2> QED
    BY <2>4, <2>5
<1>3. \A s \in Sources : concept[s].status = "enriched" => RunningJobs(s, "reanalyze") # {}
  BY DEF LifecycleInv, ReanalysisIsOwned
<1>4. /\ concept' \in [Sources -> ConceptRow]
      /\ \A s \in Sources :
           /\ concept'[s].draft = concept[s].draft
           /\ \/ concept'[s].status = concept[s].status /\ concept[s].status # "enriched"
              \/ /\ concept[s].status \in {"enriched", "needs_review"}
                 /\ concept'[s].status \in {"needs_review", "failed"}
  <2> DEFINE status(s) ==
               IF concept[s].status = "enriched" /\ RunningJobs(s, "reanalyze") # {}
               THEN "needs_review" ELSE concept[s].status
             after(s) == IF status(s) = "needs_review" /\ ActiveIngest(s)
                         THEN "failed" ELSE status(s)
  <2>1. concept' = [s \in Sources |-> [concept[s] EXCEPT !.status = after(s)]]
    BY DEF RecoverInterruptedJobs
  <2>2. \A s \in Sources :
          \/ after(s) = concept[s].status /\ concept[s].status # "enriched"
          \/ /\ concept[s].status \in {"enriched", "needs_review"}
             /\ after(s) \in {"needs_review", "failed"}
    BY <1>3
  <2>3. \A s \in Sources : after(s) \in ConceptStatus
    BY <2>2, Typed DEF ConceptRow, ConceptStatus
  <2> HIDE DEF after
  <2> QED
    BY <2>1, <2>2, <2>3, Typed DEF ConceptRow
<1>5. /\ source' \in [Sources -> SourceRow]
      /\ \A s \in Sources :
           /\ source'[s].sha = source[s].sha /\ source'[s].revision = source[s].revision
           /\ source'[s].linked = source[s].linked
           /\ \/ source'[s].status = source[s].status
              \/ /\ source[s].status \in InFlight \union {"needs_review"}
                 /\ source'[s].status \in {"needs_review", "failed"}
  <2> DEFINE status(s) ==
               IF /\ source[s].status = "enriched" /\ RunningJobs(s, "reanalyze") # {}
                  /\ source[s].linked
               THEN "needs_review" ELSE source[s].status
             after(s) == IF status(s) \in InFlight \union {"needs_review"} /\ ActiveIngest(s)
                         THEN "failed" ELSE status(s)
  <2>1. source' = [s \in Sources |-> [source[s] EXCEPT !.status = after(s)]]
    BY DEF RecoverInterruptedJobs
  <2>2. \A s \in Sources :
          \/ after(s) = source[s].status
          \/ /\ source[s].status \in InFlight \union {"needs_review"}
             /\ after(s) \in {"needs_review", "failed"}
    BY DEF InFlight
  <2>3. \A s \in Sources : after(s) \in SourceStatus
    BY <2>2, Typed DEF SourceRow, SourceStatus, Settled
  <2> HIDE DEF after
  <2> QED
    BY <2>1, <2>2, <2>3, Typed DEF SourceRow
<1>6. TypeOK'
  <2>1. \A s \in Sources : /\ (source[s].linked <=> concept[s].draft # None)'
                           /\ (source[s].status = "absent" <=> source[s].sha = None)'
    BY <1>4, <1>5, Typed DEF InFlight
  <2>2. /\ claim \in Jobs \union {None} /\ chunks \in [Sources -> Revisions]
        /\ shown' \in [Sources -> ReviewToken \union {None}]
        /\ approved \in [Sources -> Version \union {None}]
    BY <1>1, Typed
  <2> QED
    BY <1>1, <1>2, <1>4, <1>5, <2>1, <2>2 DEF TypeOK
<1>7. RowsAgreeOnExposure'
  BY <1>4, <1>5 DEF LifecycleInv, RowsAgreeOnExposure, InFlight
<1>8. EvidenceIsCurrent'
  BY <1>1, <1>5 DEF LifecycleInv, EvidenceIsCurrent
<1>9. AbsentRowsAreEmpty'
  BY <1>4, <1>5 DEF LifecycleInv, AbsentRowsAreEmpty
<1>10. JobsNameDocuments' /\ ClaimIsOpen'
  BY <1>1, <1>2, Typed DEF LifecycleInv, JobsNameDocuments, ClaimIsOpen
<1>11. ApprovedVersionIsStored'
  <2> SUFFICES ASSUME NEW s \in Sources, source'[s].status \in {"publishing", "published"}
               PROVE  approved[s] = VersionOf(s)'
    BY <1>1 DEF ApprovedVersionIsStored
  <2>1. approved[s] = VersionOf(s)
    BY <1>5 DEF LifecycleInv, ApprovedVersionIsStored
  <2>2. VersionOf(s)' = VersionOf(s)
    BY <1>4, <1>5 DEF VersionOf
  <2> QED
    BY <2>1, <2>2
<1>12. PublishingIsOwned'
  BY <1>1, <1>2, <1>5, Typed DEF LifecycleInv, PublishingIsOwned, Owns
<1>13. ReanalysisIsOwned'
  BY <1>4 DEF ReanalysisIsOwned
<1>14. IngestIsExclusive'
  BY <1>2 DEF IngestIsExclusive
<1> QED
  BY <1>6, <1>7, <1>8, <1>9, <1>10, <1>11, <1>12, <1>13, <1>14 DEF LifecycleInv

-------------------------------------------------------------------------------
(* The theorems *)

LEMMA InitSatisfiesInv == Init => LifecycleInv
<1> SUFFICES ASSUME Init PROVE LifecycleInv
  OBVIOUS
<1>1. /\ \A s \in Sources : /\ source[s] = AbsentSource /\ concept[s] = AbsentConcept
                            /\ chunks[s] = 0
      /\ \A j \in Jobs : job[j] = UnusedJob
      /\ claim = None
  BY DEF Init
<1>2. 0 \in Revisions
  BY BoundAssumption DEF Revisions
<1>3. /\ AbsentSource \in SourceRow /\ AbsentConcept \in ConceptRow /\ UnusedJob \in JobRow
  BY <1>2 DEF AbsentSource, SourceRow, SourceStatus, AbsentConcept, ConceptRow,
              ConceptStatus, UnusedJob, JobRow, JobKind, JobState
<1>4. /\ source \in [Sources -> SourceRow] /\ concept \in [Sources -> ConceptRow]
      /\ chunks \in [Sources -> Revisions] /\ job \in [Jobs -> JobRow]
      /\ claim \in Jobs \union {None}
      /\ shown \in [Sources -> ReviewToken \union {None}]
      /\ approved \in [Sources -> Version \union {None}]
  BY <1>2, <1>3 DEF Init
<1>5. TypeOK
  BY <1>1, <1>4 DEF TypeOK, AbsentSource, AbsentConcept
<1>6. RowsAgreeOnExposure /\ EvidenceIsCurrent /\ AbsentRowsAreEmpty
  BY <1>1 DEF RowsAgreeOnExposure, EvidenceIsCurrent, AbsentRowsAreEmpty, AbsentSource,
              AbsentConcept
<1>7. ApprovedVersionIsStored /\ PublishingIsOwned /\ ReanalysisIsOwned
  BY <1>1 DEF ApprovedVersionIsStored, PublishingIsOwned, ReanalysisIsOwned, AbsentSource,
              AbsentConcept
<1>8. IngestIsExclusive /\ JobsNameDocuments /\ ClaimIsOpen
  BY <1>1 DEF IngestIsExclusive, JobsNameDocuments, ClaimIsOpen, UnusedJob
<1> QED
  BY <1>5, <1>6, <1>7, <1>8 DEF LifecycleInv

LEMMA StepKeepsInv == LifecycleInv /\ [Next]_vars => LifecycleInv'
<1> SUFFICES ASSUME LifecycleInv, [Next]_vars PROVE LifecycleInv'
  OBVIOUS
<1>1. CASE Register
  BY <1>1, RegisterKeepsInv DEF Register
<1>2. CASE Ingest
  <2>1. PICK j \in Jobs :
          \/ \E s \in Sources : ClaimIngestJob(j, s)
          \/ MarkExtracted(j) \/ MarkEnriched(j)
          \/ \E d \in Drafts : SaveEnrichment(j, d)
          \/ ReplaceChunks(j)
          \/ CompleteIngestJob(j)
          \/ \E markSource \in BOOLEAN : FailIngestJob(j, markSource)
    BY <1>2 DEF Ingest
  <2> QED
    BY <2>1, ClaimIngestJobKeepsInv, MarkProgressKeepsInv, SaveEnrichmentKeepsInv,
       ReplaceChunksKeepsInv, CloseIngestJobKeepsInv
<1>3. CASE Review
  BY <1>3, ShowReviewKeepsInv, SetAsideKeepsInv, BeginReanalysisKeepsInv,
     CompleteReanalysisKeepsInv, FailReanalysisKeepsInv DEF Review
<1>4. CASE Publish
  BY <1>4, BeginPublicationKeepsInv, CompletePublicationKeepsInv, CancellationKeepsInv
     DEF Publish
<1>5. CASE FailClosed
  BY <1>5, SetAsideKeepsInv, FailClosedKeepsInv, RecoverInterruptedJobsKeepsInv
     DEF FailClosed
<1>6. CASE UNCHANGED vars
  BY <1>6 DEF vars, LifecycleInv, TypeOK, RowsAgreeOnExposure, EvidenceIsCurrent,
              PublishingIsOwned, ReanalysisIsOwned, IngestIsExclusive, AbsentRowsAreEmpty,
              ApprovedVersionIsStored, JobsNameDocuments, ClaimIsOpen, RunningJobs, Owns,
              VersionOf
<1> QED
  BY <1>1, <1>2, <1>3, <1>4, <1>5, <1>6 DEF Next

(* The tables keep the inductive invariant, whoever calls the transactions and *)
(* in whatever order.                                                         *)
THEOREM LifecycleInvariance == Spec => []LifecycleInv
  BY InitSatisfiesInv, StepKeepsInv, PTL DEF Spec

(* Every variable keeps its type, and a proposal exists exactly when its       *)
(* source row links to it (SourceLifecycle!TypeOK).                           *)
THEOREM TypeCorrectness == Spec => []TypeOK
<1>1. LifecycleInv => TypeOK
  BY DEF LifecycleInv
<1> QED
  BY <1>1, LifecycleInvariance, PTL

(* Whatever is searchable is what a person last approved: same revision, same  *)
(* bytes, same proposal.                                                      *)
THEOREM ExposureIsAlwaysReviewed == Spec => []ExposureIsReviewed
<1>1. LifecycleInv => ExposureIsReviewed
  BY DEF LifecycleInv, ApprovedVersionIsStored, ExposureIsReviewed, Searchable
<1> QED
  BY <1>1, LifecycleInvariance, PTL

(* The concept row and the source row never disagree on whether a document is  *)
(* being published or is exposed.                                             *)
THEOREM RowsAlwaysAgree == Spec => []RowsAgreeOnExposure
<1>1. LifecycleInv => RowsAgreeOnExposure
  BY DEF LifecycleInv
<1> QED
  BY <1>1, LifecycleInvariance, PTL

(* Chunks are always of the stored revision, and an approved document is never *)
(* without them.                                                              *)
THEOREM EvidenceIsAlwaysCurrent == Spec => []EvidenceIsCurrent
<1>1. LifecycleInv => EvidenceIsCurrent
  BY DEF LifecycleInv
<1> QED
  BY <1>1, LifecycleInvariance, PTL

(* A document in publication always has the durable claim a restart needs to   *)
(* finish or cancel it.                                                       *)
THEOREM PublishingIsAlwaysOwned == Spec => []PublishingIsOwned
<1>1. LifecycleInv => PublishingIsOwned
  BY DEF LifecycleInv
<1> QED
  BY <1>1, LifecycleInvariance, PTL

(* A draft withheld for reanalysis always has the running job that returns it. *)
THEOREM ReanalysisIsAlwaysOwned == Spec => []ReanalysisIsOwned
<1>1. LifecycleInv => ReanalysisIsOwned
  BY DEF LifecycleInv
<1> QED
  BY <1>1, LifecycleInvariance, PTL

(* No two workers prepare one document, and none prepares other bytes than the *)
(* stored ones.                                                               *)
THEOREM IngestIsAlwaysExclusive == Spec => []IngestIsExclusive
<1>1. LifecycleInv => IngestIsExclusive
  BY DEF LifecycleInv
<1> QED
  BY <1>1, LifecycleInvariance, PTL

-------------------------------------------------------------------------------
(* The tables implement the promise                                           *)

(* Every step but an approval and a final commit withdraws some documents and  *)
(* leaves the publications of the others alone.                               *)
OthersStayPublished ==
  \A t \in Sources : source'[t].status \in {"publishing", "published"} =>
    /\ source'[t].status = source[t].status
    /\ source'[t].sha = source[t].sha /\ source'[t].revision = source[t].revision
    /\ concept'[t].status = concept[t].status /\ concept'[t].draft = concept[t].draft
    /\ chunks'[t] = chunks[t]

LEMMA WithdrawalMapsToWithdraw ==
  ASSUME LifecycleInv, OthersStayPublished
  PROVE  \E S \in SUBSET Sources : Promise!Withdraw(S)
<1> DEFINE S == {t \in Sources : source'[t].status \notin {"publishing", "published"}}
<1>1. \A t \in Sources :
        ApprovedIntent'[t] = IF t \in S THEN None ELSE ApprovedIntent[t]
  BY DEF OthersStayPublished, ApprovedIntent, Publishing, VersionOf
<1>2. \A t \in Sources :
        ExposedVersion'[t] = IF t \in S THEN None ELSE ExposedVersion[t]
  BY DEF OthersStayPublished, ExposedVersion, Searchable, VersionOf
<1>3. /\ ApprovedIntent' = [t \in Sources |-> ApprovedIntent'[t]]
      /\ ExposedVersion' = [t \in Sources |-> ExposedVersion'[t]]
  BY DEF ApprovedIntent, ExposedVersion
<1>4. Promise!Withdraw(S)
  BY <1>1, <1>2, <1>3 DEF Promise!Withdraw
<1> QED
  BY <1>4

LEMMA WithdrawnStay ==
  ASSUME LifecycleInv, NEW S \in SUBSET Sources,
         NEW status \in {"needs_review", "failed", "deleted"}, Withdraw(S, status),
         \A s \in Sources \ S : source'[s] = source[s],
         \A s \in S : source'[s].status \in {"detected", "failed", "deleted"}
  PROVE  OthersStayPublished
<1>1. \A t \in Sources \ S : concept'[t] = concept[t] /\ chunks'[t] = chunks[t]
  BY Typed DEF Withdraw, WithStatus, WithoutChunks
<1> QED
  BY <1>1 DEF OthersStayPublished

LEMMA SetsStatusStay ==
  ASSUME LifecycleInv, NEW s \in Sources,
         NEW after \in {"failed", "needs_review", "excluded"}, SetsStatus(s, after)
  PROVE  OthersStayPublished
<1>1. \A t \in Sources :
        /\ source'[t].sha = source[t].sha /\ source'[t].revision = source[t].revision
        /\ source'[t].status = IF t = s THEN after ELSE source[t].status
        /\ concept'[t].draft = concept[t].draft
        /\ t # s => concept'[t].status = concept[t].status
  BY SetsStatusRows
<1>2. chunks' = chunks
  BY DEF SetsStatus
<1>3. after \notin {"publishing", "published"}
  OBVIOUS
<1> QED
  BY <1>1, <1>2, <1>3 DEF OthersStayPublished

LEMMA RegisterStays ==
  ASSUME LifecycleInv, Register
  PROVE  OthersStayPublished
<1>1. PICK s \in Sources, p \in Paths, h \in Hashes :
        \/ RegisterRetry(s, p, h) \/ RegisterReplaced(s, p, h)
        \/ \E missing \in SUBSET Paths :
             RegisterMoved(s, p, h, missing) \/ RegisterNew(s, p, h, missing)
  BY DEF Register
<1>2. source \in [Sources -> SourceRow] /\ {s} \in SUBSET Sources
  BY Typed
<1>3. CASE /\ Withdraw({s}, "needs_review") /\ source'[s].status = "detected"
           /\ \A t \in Sources \ {s} : source'[t] = source[t]
  BY <1>2, <1>3, WithdrawnStay
<1>4. CASE RegisterRetry(s, p, h)
  <2>1. source' = [source EXCEPT ![s].status = "detected"] /\ Withdraw({s}, "needs_review")
    BY <1>4 DEF RegisterRetry
  <2> QED
    BY <1>2, <1>3, <2>1 DEF SourceRow
<1>5. CASE RegisterReplaced(s, p, h)
  <2>1. /\ source' = [source EXCEPT ![s].status = "detected", ![s].sha = h,
                                    ![s].revision = @ + 1]
        /\ Withdraw({s}, "needs_review")
    BY <1>5 DEF RegisterReplaced
  <2> QED
    BY <1>2, <1>3, <2>1 DEF SourceRow
<1>6. ASSUME NEW missing \in SUBSET Paths, RegisterMoved(s, p, h, missing)
      PROVE  OthersStayPublished
  <2>1. CASE source[s].status \in Settled
    <3>1. source' = [source EXCEPT ![s].path = p] /\ UNCHANGED <<concept, chunks>>
      BY <1>6, <2>1 DEF RegisterMoved
    <3> QED
      BY <1>2, <3>1 DEF SourceRow, OthersStayPublished
  <2>2. CASE source[s].status \notin Settled
    <3>1. /\ source' = [source EXCEPT ![s].path = p, ![s].status = "detected"]
          /\ Withdraw({s}, "needs_review")
      BY <1>6, <2>2 DEF RegisterMoved
    <3> QED
      BY <1>2, <1>3, <3>1 DEF SourceRow
  <2> QED
    BY <2>1, <2>2
<1>7. ASSUME NEW missing \in SUBSET Paths, RegisterNew(s, p, h, missing)
      PROVE  OthersStayPublished
  BY <1>2, <1>7 DEF RegisterNew, OthersStayPublished
<1> QED
  BY <1>1, <1>4, <1>5, <1>6, <1>7

LEMMA IngestStays ==
  ASSUME LifecycleInv, Ingest
  PROVE  OthersStayPublished
<1>1. PICK j \in Jobs :
        \/ \E s \in Sources : ClaimIngestJob(j, s)
        \/ MarkExtracted(j) \/ MarkEnriched(j)
        \/ \E d \in Drafts : SaveEnrichment(j, d)
        \/ ReplaceChunks(j)
        \/ CompleteIngestJob(j)
        \/ \E markSource \in BOOLEAN : FailIngestJob(j, markSource)
  BY DEF Ingest
<1> DEFINE s == job[j].source
<1>2. source \in [Sources -> SourceRow] /\ concept \in [Sources -> ConceptRow]
  BY Typed
<1>3. CASE UNCHANGED <<source, concept, chunks>>
  BY <1>3 DEF OthersStayPublished
<1>4. CASE MarkExtracted(j) \/ MarkEnriched(j)
  <2>1. s \in Sources /\ UNCHANGED <<concept, chunks>>
    BY <1>4, IngestOwner DEF MarkExtracted, MarkEnriched
  <2>2. PICK after \in {"extracted", "enriched"} : source' = [source EXCEPT ![s].status = after]
    BY <1>4 DEF MarkExtracted, MarkEnriched
  <2> HIDE DEF s
  <2> QED
    BY <1>2, <2>1, <2>2 DEF OthersStayPublished, SourceRow
<1>5. ASSUME NEW d \in Drafts, SaveEnrichment(j, d) PROVE OthersStayPublished
  <2>1. s \in Sources /\ chunks' = chunks
    BY <1>5, IngestOwner DEF SaveEnrichment
  <2>2. /\ source' = [source EXCEPT ![s].status = "needs_review", ![s].linked = TRUE]
        /\ concept' = [concept EXCEPT ![s] = [status |-> "needs_review", draft |-> d]]
    BY <1>5 DEF SaveEnrichment
  <2> HIDE DEF s
  <2>3. \A t \in Sources : t # s => source'[t] = source[t] /\ concept'[t] = concept[t]
    BY <1>2, <2>1, <2>2
  <2>4. source'[s].status = "needs_review"
    BY <1>2, <2>1, <2>2 DEF SourceRow
  <2> QED
    BY <2>1, <2>3, <2>4 DEF OthersStayPublished
<1>6. CASE ReplaceChunks(j)
  <2>1. /\ s \in Sources /\ source[s].status = "needs_review"
        /\ chunks' = [chunks EXCEPT ![s] = job[j].revision]
        /\ UNCHANGED <<source, concept>>
    BY <1>6, IngestOwner DEF ReplaceChunks
  <2> HIDE DEF s
  <2> QED
    BY <2>1, Typed DEF OthersStayPublished
<1>7. ASSUME NEW markSource \in BOOLEAN, FailIngestJob(j, markSource)
      PROVE  OthersStayPublished
  <2>1. CASE UNCHANGED <<source, concept>>
    BY <1>3, <1>7, <2>1 DEF FailIngestJob
  <2>2. CASE /\ source' = WithStatus(source, {s}, "failed")
             /\ concept' = WithStatus(concept, {s}, "failed")
             /\ Owns(j, "ingest")
    <3>1. s \in Sources /\ source[s].status # "absent"
      BY <2>2, Typed, NoneAssumption DEF LifecycleInv, JobsNameDocuments, Owns
    <3>2. SetsStatus(s, "failed")
      BY <1>7, <2>2, <3>1 DEF SetsStatus, FailIngestJob
    <3> QED
      BY <3>1, <3>2, SetsStatusStay
  <2> QED
    BY <1>7, <2>1, <2>2 DEF FailIngestJob
<1> QED
  BY <1>1, <1>3, <1>4, <1>5, <1>6, <1>7 DEF ClaimIngestJob, CompleteIngestJob

LEMMA ReviewStays ==
  ASSUME LifecycleInv, Review
  PROVE  OthersStayPublished
<1>1. source \in [Sources -> SourceRow] /\ concept \in [Sources -> ConceptRow]
  BY Typed
<1>2. CASE UNCHANGED <<source, concept, chunks>>
  BY <1>2 DEF OthersStayPublished
<1>3. ASSUME NEW s \in Sources, ExcludeReview(s) PROVE OthersStayPublished
  <2>1. SetsStatus(s, "excluded")
    BY <1>3 DEF ExcludeReview, AwaitingReview, SetsStatus
  <2> QED
    BY <2>1, SetsStatusStay
<1>4. ASSUME NEW j \in Jobs, NEW s \in Sources, BeginReanalysis(j, s)
      PROVE  OthersStayPublished
  <2>1. /\ source' = WithStatus(source, {s}, "enriched") /\ source[s].status # "absent"
        /\ concept' = WithStatus(concept, {s}, "enriched") /\ chunks' = chunks
    BY <1>4 DEF BeginReanalysis, AwaitingReview
  <2> QED
    BY <1>1, <2>1 DEF OthersStayPublished, WithStatus, SourceRow
<1>5. ASSUME NEW j \in Jobs, NEW d \in Drafts, CompleteReanalysis(j, d)
      PROVE  OthersStayPublished
  <2> DEFINE s == job[j].source
  <2>1. /\ source' = WithStatus(source, {s}, "needs_review") /\ source[s].status = "enriched"
        /\ concept' = [concept EXCEPT ![s] = [status |-> "needs_review", draft |-> d]]
        /\ chunks' = [chunks EXCEPT ![s] = job[j].revision]
    BY <1>5 DEF CompleteReanalysis, Reanalyzing
  <2>2. s \in Sources
    BY <1>5 DEF CompleteReanalysis, Owns, LifecycleInv, JobsNameDocuments
  <2> HIDE DEF s
  <2>3. source'[s].status = "needs_review" /\ \A t \in Sources : t # s => source'[t] = source[t]
    BY <1>1, <2>1, <2>2 DEF WithStatus, SourceRow
  <2>4. \A t \in Sources : t # s => concept'[t] = concept[t] /\ chunks'[t] = chunks[t]
    BY <1>1, <2>1, <2>2, Typed
  <2> QED
    BY <2>3, <2>4 DEF OthersStayPublished
<1>6. ASSUME NEW j \in Jobs, FailReanalysis(j) PROVE OthersStayPublished
  <2> DEFINE s == job[j].source
  <2>1. CASE Owns(j, "reanalyze") /\ Reanalyzing(s)
    <3>1. s \in Sources
      BY <2>1 DEF Owns, LifecycleInv, JobsNameDocuments
    <3>2. SetsStatus(s, "needs_review")
      BY <1>6, <2>1 DEF FailReanalysis, Reanalyzing, SetsStatus
    <3> QED
      BY <3>1, <3>2, SetsStatusStay
  <2>2. CASE ~(Owns(j, "reanalyze") /\ Reanalyzing(s))
    BY <1>2, <1>6, <2>2 DEF FailReanalysis
  <2> QED
    BY <2>1, <2>2
<1> QED
  BY <1>2, <1>3, <1>4, <1>5, <1>6 DEF Review, ShowReview

LEMMA CancellationStays ==
  ASSUME LifecycleInv, NEW j \in Jobs,
         MarkPublicationCancelling(j) \/ FinishPublicationCancellation(j)
  PROVE  OthersStayPublished
<1> DEFINE s == job[j].source
<1>1. /\ claim = j /\ ReturnClaimed(j) /\ chunks' = chunks
  BY DEF MarkPublicationCancelling, FinishPublicationCancellation
<1>2. \A t \in Sources : source[t].status = "publishing" => t = s
  BY <1>1 DEF LifecycleInv, PublishingIsOwned
<1>3. s \in Sources
  BY <1>1, NoneAssumption DEF LifecycleInv, JobsNameDocuments, ClaimIsOpen
<1> HIDE DEF s
<1>4. /\ \A t \in Sources : t # s => source'[t] = source[t] /\ concept'[t] = concept[t]
      /\ source'[s] = source[s] \/ source'[s].status = "needs_review"
      /\ concept'[s] = concept[s] \/ concept[s].status = "publishing"
  BY <1>1, <1>3, Typed DEF ReturnClaimed, WithStatus, SourceRow, ConceptRow, s
<1>5. source'[s].status = "published" => concept[s].status # "publishing"
  BY <1>3, <1>4 DEF LifecycleInv, RowsAgreeOnExposure
<1>6. source'[s].status # "publishing"
  BY <1>1, <1>3, Typed DEF ReturnClaimed, WithStatus, SourceRow, s, LifecycleInv,
       PublishingIsOwned, Owns
<1> QED
  BY <1>1, <1>4, <1>5, <1>6 DEF OthersStayPublished

LEMMA FailClosedStays ==
  ASSUME LifecycleInv, FailClosed
  PROVE  OthersStayPublished
<1>1. source \in [Sources -> SourceRow] /\ concept \in [Sources -> ConceptRow]
  BY Typed
<1>2. ASSUME NEW s \in Sources, ReturnToReview(s) \/ MarkSourceFailed(s)
      PROVE  OthersStayPublished
  <2>1. PICK after \in {"failed", "needs_review"} : SetsStatus(s, after)
    BY <1>2 DEF ReturnToReview, MarkSourceFailed, Exists, SetsStatus
  <2> QED
    BY <2>1, SetsStatusStay
<1>3. ASSUME NEW S \in SUBSET Sources, NEW status \in {"failed", "deleted"},
             \A s \in S : source[s].status # "absent",
             source' = WithStatus(source, S, status), Withdraw(S, status)
      PROVE  OthersStayPublished
  <2>1. /\ \A t \in Sources \ S : source'[t] = source[t]
        /\ \A t \in S : source'[t].status = status
    BY <1>1, <1>3 DEF WithStatus, SourceRow
  <2> QED
    BY <1>3, <2>1, WithdrawnStay
<1>4. ASSUME NEW s \in Sources, MarkDeleted(s) \/ QuarantineSource(s)
      PROVE  OthersStayPublished
  <2>1. PICK status \in {"failed", "deleted"} :
          source' = WithStatus(source, {s}, status) /\ Withdraw({s}, status)
    BY <1>4 DEF MarkDeleted, QuarantineSource
  <2>2. {s} \in SUBSET Sources /\ \A t \in {s} : source[t].status # "absent"
    BY <1>4 DEF MarkDeleted, QuarantineSource, Exists
  <2> QED
    BY <1>3, <2>1, <2>2
<1>5. CASE QuarantineCollection
  <2> DEFINE present == {s \in Sources : Exists(s) /\ source[s].status # "deleted"}
  <2>1. source' = WithStatus(source, present, "failed") /\ Withdraw(present, "failed")
    BY <1>5 DEF QuarantineCollection
  <2>2. present \in SUBSET Sources /\ \A s \in present : source[s].status # "absent"
    BY DEF Exists
  <2> HIDE DEF present
  <2> QED
    BY <1>3, <2>1, <2>2
<1>6. CASE RecoverInterruptedJobs
  <2>1. \A t \in Sources : source'[t].status \in {"publishing", "published"} =>
          source'[t] = source[t]
    BY <1>1, <1>6 DEF RecoverInterruptedJobs, SourceRow
  <2>2. \A t \in Sources : concept[t].status \in {"publishing", "published"} =>
          concept'[t] = concept[t]
    BY <1>1, <1>6 DEF RecoverInterruptedJobs, ConceptRow
  <2>3. chunks' = chunks
    BY <1>6 DEF RecoverInterruptedJobs
  <2> QED
    BY <2>1, <2>2, <2>3 DEF OthersStayPublished, LifecycleInv, RowsAgreeOnExposure
<1> QED
  BY <1>2, <1>4, <1>5, <1>6 DEF FailClosed

(* An approval is the abstract Approve of exactly the version it stores. *)
LEMMA ApprovalMapsToApprove ==
  ASSUME LifecycleInv, NEW j \in Jobs, NEW s \in Sources, NEW d \in Drafts,
         BeginPublication(j, s, d)
  PROVE  \E v \in Version : Promise!Approve(s, v)
<1> DEFINE v == [revision |-> source[s].revision, sha |-> source[s].sha, draft |-> d]
<1>1. /\ MatchesReviewed(s) /\ claim = None /\ chunks' = chunks
      /\ source' = WithStatus(source, {s}, "publishing")
      /\ concept' = [concept EXCEPT ![s] = [status |-> "publishing", draft |-> d]]
  BY DEF BeginPublication
<1>2. /\ source[s].status \in {"needs_review", "excluded"}
      /\ source[s].revision \in Revisions /\ source[s].sha \in Hashes
  BY <1>1, Typed DEF MatchesReviewed, AwaitingReview, SourceRow
<1>3. \A t \in Sources : source[t].status # "publishing"
  BY <1>1 DEF LifecycleInv, PublishingIsOwned
<1>4. /\ source'[s].status = "publishing" /\ concept'[s].status = "publishing"
      /\ VersionOf(s)' = v
  BY <1>1, <1>2, Typed DEF WithStatus, SourceRow, VersionOf
<1>5. \A t \in Sources : t # s => source'[t] = source[t] /\ concept'[t] = concept[t]
  BY <1>1, Typed DEF WithStatus
<1>6. ApprovedIntent = [t \in Sources |-> None]
  BY <1>3 DEF ApprovedIntent, Publishing
<1>7. ExposedVersion[s] = None /\ ExposedVersion'[s] = None
  BY <1>2, <1>4 DEF ExposedVersion, Searchable
<1>8. \A t \in Sources : ApprovedIntent'[t] = IF t = s THEN v ELSE ApprovedIntent[t]
  <2>1. ApprovedIntent'[s] = v
    BY <1>4 DEF ApprovedIntent, Publishing
  <2>2. \A t \in Sources : t # s => ApprovedIntent'[t] = None
    BY <1>3, <1>5 DEF ApprovedIntent, Publishing
  <2> QED
    BY <1>6, <2>1, <2>2
<1>9. \A t \in Sources : ExposedVersion'[t] = ExposedVersion[t]
  <2>1. \A t \in Sources : t # s => ExposedVersion'[t] = ExposedVersion[t]
    BY <1>1, <1>5 DEF ExposedVersion, Searchable, VersionOf
  <2> QED
    BY <1>7, <2>1
<1>10. /\ ApprovedIntent \in [Sources -> {ApprovedIntent[t] : t \in Sources}]
       /\ ApprovedIntent' = [t \in Sources |-> ApprovedIntent'[t]]
       /\ ExposedVersion = [t \in Sources |-> ExposedVersion[t]]
       /\ ExposedVersion' = [t \in Sources |-> ExposedVersion'[t]]
  BY DEF ApprovedIntent, ExposedVersion
<1>11. ApprovedIntent' = [ApprovedIntent EXCEPT ![s] = v] /\ ExposedVersion' = ExposedVersion
  BY <1>8, <1>9, <1>10
<1>12. v \in Version
  BY <1>2 DEF Version
<1> QED
  BY <1>6, <1>7, <1>11, <1>12 DEF Promise!Approve

(* The final commit is the abstract Publish of the claimed document. *)
LEMMA CommitMapsToPublish ==
  ASSUME LifecycleInv, NEW j \in Jobs, CompletePublication(j)
  PROVE  \E s \in Sources : Promise!Publish(s)
<1>1. PICK s \in Sources : s = job[j].source
  BY DEF CompletePublication, MayCommit, Owns, LifecycleInv, JobsNameDocuments
<1>2. /\ claim = j /\ Owns(j, "publish") /\ chunks' = chunks
      /\ source[s].status = "publishing" /\ concept[s].status = "publishing"
      /\ source' = WithStatus(source, {s}, "published")
      /\ concept' = WithStatus(concept, {s}, "published")
  BY <1>1 DEF CompletePublication, MayCommit, Publishing
<1>3. \A t \in Sources : source[t].status = "publishing" => t = s
  BY <1>1, <1>2 DEF LifecycleInv, PublishingIsOwned
<1>4. approved[s] = VersionOf(s) /\ chunks[s] # 0 /\ chunks[s] = source[s].revision
  BY <1>2 DEF LifecycleInv, ApprovedVersionIsStored, EvidenceIsCurrent
<1>5. VersionOf(s) # None
  <2>1. /\ source[s].sha \in Hashes /\ source[s].revision \in Revisions
        /\ concept[s].draft \in Drafts
    BY <1>2, Typed DEF LifecycleInv, AbsentRowsAreEmpty, SourceRow, ConceptRow
  <2> QED
    BY <2>1, NoVersionAssumption DEF VersionOf, Version
<1>6. /\ source'[s].status = "published" /\ concept'[s].status = "published"
      /\ source'[s].revision = source[s].revision /\ VersionOf(s)' = VersionOf(s)
  BY <1>2, Typed DEF WithStatus, SourceRow, ConceptRow, VersionOf
<1>7. \A t \in Sources : t # s => source'[t] = source[t] /\ concept'[t] = concept[t]
  BY <1>2, Typed DEF WithStatus
<1>8. ApprovedIntent[s] = VersionOf(s) /\ ApprovedIntent'[s] = None
  BY <1>2, <1>6 DEF ApprovedIntent, Publishing
<1>9. ExposedVersion'[s] = VersionOf(s)
  BY <1>2, <1>4, <1>6 DEF ExposedVersion, Searchable
<1>10. \A t \in Sources : t # s => /\ ApprovedIntent'[t] = ApprovedIntent[t]
                                   /\ ExposedVersion'[t] = ExposedVersion[t]
  BY <1>2, <1>7 DEF ApprovedIntent, Publishing, ExposedVersion, Searchable, VersionOf
<1>11. /\ ApprovedIntent = [t \in Sources |-> ApprovedIntent[t]]
       /\ ApprovedIntent' = [t \in Sources |-> ApprovedIntent'[t]]
       /\ ExposedVersion = [t \in Sources |-> ExposedVersion[t]]
       /\ ExposedVersion' = [t \in Sources |-> ExposedVersion'[t]]
  BY DEF ApprovedIntent, ExposedVersion
<1>12. /\ ApprovedIntent' = [ApprovedIntent EXCEPT ![s] = None]
       /\ ExposedVersion' = [ExposedVersion EXCEPT ![s] = ApprovedIntent[s]]
  BY <1>2, <1>8, <1>9, <1>10, <1>11
<1> QED
  BY <1>2, <1>5, <1>8, <1>12 DEF Promise!Publish

LEMMA InitMapsToInit == Init => Promise!Init
<1> SUFFICES ASSUME Init PROVE Promise!Init
  OBVIOUS
<1>1. \A t \in Sources : concept[t].status = "absent"
  BY DEF Init, AbsentConcept
<1> QED
  BY <1>1 DEF Promise!Init, ApprovedIntent, ExposedVersion, Publishing, Searchable

LEMMA StepMapsToStep ==
  LifecycleInv /\ [Next]_vars =>
    [Promise!Next]_<<ApprovedIntent, ExposedVersion>>
<1> SUFFICES ASSUME LifecycleInv, [Next]_vars
             PROVE  [Promise!Next]_<<ApprovedIntent, ExposedVersion>>
  OBVIOUS
<1>1. CASE OthersStayPublished
  BY <1>1, WithdrawalMapsToWithdraw DEF Promise!Next
<1>2. CASE Register \/ Ingest \/ Review \/ FailClosed
  BY <1>1, <1>2, RegisterStays, IngestStays, ReviewStays, FailClosedStays
<1>3. CASE Publish
  <2>1. PICK j \in Jobs :
          \/ \E s \in Sources, d \in Drafts : BeginPublication(j, s, d)
          \/ CompletePublication(j)
          \/ MarkPublicationCancelling(j)
          \/ FinishPublicationCancellation(j)
    BY <1>3 DEF Publish
  <2>2. CASE \E s \in Sources, d \in Drafts : BeginPublication(j, s, d)
    BY <2>2, ApprovalMapsToApprove DEF Promise!Next
  <2>3. CASE CompletePublication(j)
    BY <2>3, CommitMapsToPublish DEF Promise!Next
  <2>4. CASE MarkPublicationCancelling(j) \/ FinishPublicationCancellation(j)
    BY <1>1, <2>4, CancellationStays
  <2> QED
    BY <2>1, <2>2, <2>3, <2>4
<1>4. CASE UNCHANGED vars
  BY <1>4 DEF vars, ApprovedIntent, ExposedVersion, Publishing, Searchable, VersionOf
<1> QED
  BY <1>2, <1>3, <1>4 DEF Next

(* Every run of the tables is a run of ReviewedPublication: a document becomes *)
(* visible only by the approval and then the publication of exactly that       *)
(* version, one approval at a time, and never changes while it is visible.    *)
THEOREM TablesImplementPromise == Spec => ImplementsPromise
  BY InitMapsToInit, StepMapsToStep, LifecycleInvariance, PTL
     DEF Spec, ImplementsPromise, Promise!Spec

-------------------------------------------------------------------------------
(* Who may rewrite a proposal *)

ProposalsStay == \A t \in Sources : concept'[t].draft = concept[t].draft

ProposalChangeIsOwned ==
  \A s \in Sources : concept'[s].draft # concept[s].draft =>
    \/ \E j \in Jobs : job[j].source = s /\ (Owns(j, "ingest") \/ Owns(j, "reanalyze"))
    \/ MatchesReviewed(s)

(* Setting the status of any rows leaves every proposal as it is. *)
LEMMA StatusKeepsProposals ==
  ASSUME LifecycleInv, NEW S, NEW status, concept' = WithStatus(concept, S, status)
  PROVE  ProposalsStay
BY Typed DEF WithStatus, ConceptRow, ProposalsStay

LEMMA OwnedRewrite ==
  ASSUME LifecycleInv, NEW s \in Sources, NEW row,
         concept' = [concept EXCEPT ![s] = row],
         \/ \E j \in Jobs : job[j].source = s /\ (Owns(j, "ingest") \/ Owns(j, "reanalyze"))
         \/ MatchesReviewed(s)
  PROVE  ProposalChangeIsOwned
<1>1. \A t \in Sources : t # s => concept'[t] = concept[t]
  BY Typed
<1> QED
  BY <1>1 DEF ProposalChangeIsOwned

LEMMA IngestOwnsProposals ==
  ASSUME LifecycleInv, Ingest
  PROVE  ProposalChangeIsOwned
<1>1. PICK j \in Jobs :
        \/ \E s \in Sources : ClaimIngestJob(j, s)
        \/ MarkExtracted(j) \/ MarkEnriched(j)
        \/ \E d \in Drafts : SaveEnrichment(j, d)
        \/ ReplaceChunks(j)
        \/ CompleteIngestJob(j)
        \/ \E markSource \in BOOLEAN : FailIngestJob(j, markSource)
  BY DEF Ingest
<1>2. CASE ProposalsStay
  BY <1>2 DEF ProposalsStay, ProposalChangeIsOwned
<1>3. CASE concept' = concept
  BY <1>2, <1>3 DEF ProposalsStay
<1>4. ASSUME NEW d \in Drafts, SaveEnrichment(j, d) PROVE ProposalChangeIsOwned
  <2>1. PICK s \in Sources : s = job[j].source
    BY <1>4, IngestOwner DEF SaveEnrichment
  <2>2. /\ Owns(j, "ingest")
        /\ concept' = [concept EXCEPT ![s] = [status |-> "needs_review", draft |-> d]]
    BY <1>4, <2>1 DEF SaveEnrichment, IngestOwns
  <2> QED
    BY <2>1, <2>2, OwnedRewrite
<1>5. ASSUME NEW markSource \in BOOLEAN, FailIngestJob(j, markSource)
      PROVE  ProposalChangeIsOwned
  <2>1. \/ concept' = concept
        \/ concept' = WithStatus(concept, {job[j].source}, "failed")
    BY <1>5 DEF FailIngestJob
  <2> QED
    BY <1>2, <1>3, <2>1, StatusKeepsProposals
<1> QED
  BY <1>1, <1>3, <1>4, <1>5 DEF ClaimIngestJob, MarkExtracted, MarkEnriched, ReplaceChunks,
     CompleteIngestJob

LEMMA ReviewOwnsProposals ==
  ASSUME LifecycleInv, Review
  PROVE  ProposalChangeIsOwned
<1>1. CASE ProposalsStay
  BY <1>1 DEF ProposalsStay, ProposalChangeIsOwned
<1>2. CASE concept' = concept
  BY <1>1, <1>2 DEF ProposalsStay
<1>3. ASSUME NEW j \in Jobs, NEW d \in Drafts, CompleteReanalysis(j, d)
      PROVE  ProposalChangeIsOwned
  <2>1. PICK s \in Sources : s = job[j].source
    BY <1>3 DEF CompleteReanalysis, Owns, LifecycleInv, JobsNameDocuments
  <2>2. /\ Owns(j, "reanalyze")
        /\ concept' = [concept EXCEPT ![s] = [status |-> "needs_review", draft |-> d]]
    BY <1>3, <2>1 DEF CompleteReanalysis
  <2> QED
    BY <2>1, <2>2, OwnedRewrite
<1>4. ASSUME NEW j \in Jobs, FailReanalysis(j) PROVE ProposalChangeIsOwned
  <2>1. \/ concept' = concept
        \/ concept' = WithStatus(concept, {job[j].source}, "needs_review")
    BY <1>4 DEF FailReanalysis
  <2> QED
    BY <1>1, <1>2, <2>1, StatusKeepsProposals
<1>5. ASSUME NEW s \in Sources, ExcludeReview(s) \/ \E j \in Jobs : BeginReanalysis(j, s)
      PROVE  ProposalChangeIsOwned
  <2>1. \/ concept' = WithStatus(concept, {s}, "excluded")
        \/ concept' = WithStatus(concept, {s}, "enriched")
    BY <1>5 DEF ExcludeReview, BeginReanalysis
  <2> QED
    BY <1>1, <2>1, StatusKeepsProposals
<1> QED
  BY <1>2, <1>3, <1>4, <1>5 DEF Review, ShowReview

LEMMA PublishOwnsProposals ==
  ASSUME LifecycleInv, Publish
  PROVE  ProposalChangeIsOwned
<1>1. PICK j \in Jobs :
        \/ \E s \in Sources, d \in Drafts : BeginPublication(j, s, d)
        \/ CompletePublication(j)
        \/ MarkPublicationCancelling(j)
        \/ FinishPublicationCancellation(j)
  BY DEF Publish
<1>2. CASE ProposalsStay
  BY <1>2 DEF ProposalsStay, ProposalChangeIsOwned
<1>3. ASSUME NEW s \in Sources, NEW d \in Drafts, BeginPublication(j, s, d)
      PROVE  ProposalChangeIsOwned
  BY <1>3, OwnedRewrite DEF BeginPublication
<1>4. CASE \/ CompletePublication(j) \/ MarkPublicationCancelling(j)
           \/ FinishPublicationCancellation(j)
  <2>1. \/ concept' = concept
        \/ concept' = WithStatus(concept, {job[j].source}, "published")
        \/ concept' = WithStatus(concept, {job[j].source}, "needs_review")
    BY <1>4 DEF CompletePublication, MarkPublicationCancelling,
       FinishPublicationCancellation, ReturnClaimed
  <2>2. concept' = concept => ProposalsStay
    BY DEF ProposalsStay
  <2> QED
    BY <1>2, <2>1, <2>2, StatusKeepsProposals
<1> QED
  BY <1>1, <1>3, <1>4

(* Registration, reconciliation, quarantine and recovery. *)
LEMMA OthersKeepProposals ==
  ASSUME LifecycleInv, Register \/ FailClosed
  PROVE  ProposalsStay
<1>1. CASE concept' = concept
  BY <1>1 DEF ProposalsStay
<1>2. CASE \E S, status : concept' = WithStatus(concept, S, status)
  BY <1>2, StatusKeepsProposals
<1>3. CASE Register
  <2>1. PICK s \in Sources, p \in Paths, h \in Hashes :
          \/ RegisterRetry(s, p, h) \/ RegisterReplaced(s, p, h)
          \/ \E missing \in SUBSET Paths :
               RegisterMoved(s, p, h, missing) \/ RegisterNew(s, p, h, missing)
    BY <1>3 DEF Register
  <2>2. concept' = concept \/ Withdraw({s}, "needs_review")
    BY <2>1 DEF RegisterRetry, RegisterReplaced, RegisterMoved, RegisterNew
  <2>3. concept' = concept \/ concept' = WithStatus(concept, {s}, "needs_review")
    BY <2>2 DEF Withdraw
  <2> QED
    BY <1>1, <1>2, <2>3
<1>4. CASE RecoverInterruptedJobs
  <2>1. concept \in [Sources -> ConceptRow]
    BY Typed
  <2> QED
    BY <1>4, <2>1 DEF RecoverInterruptedJobs, ConceptRow, ProposalsStay
<1> QED
  BY <1>2, <1>3, <1>4 DEF FailClosed, ReturnToReview, MarkSourceFailed, MarkDeleted,
     QuarantineSource, QuarantineCollection, Withdraw

(* Only a running job of the stored revision, or the approval of the version   *)
(* on screen, ever rewrites a proposal.                                       *)
THEOREM ProposalChangesAreAlwaysOwned == Spec => ProposalChangesAreOwned
<1>1. LifecycleInv /\ [Next]_vars => [ProposalChangeIsOwned]_vars
  <2> SUFFICES ASSUME LifecycleInv, Next PROVE ProposalChangeIsOwned
    OBVIOUS
  <2> QED
    BY IngestOwnsProposals, ReviewOwnsProposals, PublishOwnsProposals, OthersKeepProposals
       DEF Next, ProposalsStay, ProposalChangeIsOwned
<1> QED
  BY <1>1, LifecycleInvariance, PTL DEF Spec, ProposalChangesAreOwned, ProposalChangeIsOwned
================================================================================
