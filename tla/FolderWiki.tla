------------------------------- MODULE FolderWiki -------------------------------
(***************************************************************************)
(* One folder wiki in operation: the watched folder, the tables of         *)
(* SourceLifecycle, the OKF bundle (concept pages, index.md, log.md) and   *)
(* the callers of the tables: reconciliation passes with their ingestion   *)
(* workers (pipeline.rs), the publisher (publication.rs over okf.rs), the  *)
(* reanalysis of a draft and the quarantine of a collection.               *)
(*                                                                         *)
(* A caller is a task that stops between any two transactions or file      *)
(* writes.  Tasks share the tables and the publication lock; they die      *)
(* together in a restart, which starts with the recovery of services.rs.   *)
(* The folder changes at any time.                                         *)
(***************************************************************************)
EXTENDS SourceLifecycle

CONSTANTS
  Tasks,        \* slots of the process: one per kind of caller, see TaskAssumption
  Fails,        \* what may fail: "read", "write", "model", "discovery"
  Large,        \* contents above the ingestion limit
  MaxPasses,    \* bound on reconciliations and quarantines at the same time
  MaxEdits,     \* bound on changes of the folder
  MaxFaults,    \* bound on failures
  MaxRestarts   \* bound on restarts

(* The worker runs at most one scan, one preflight and one quarantine of a    *)
(* collection and one approval and one reanalysis of a draft at a time.       *)
ASSUME TaskAssumption ==
  /\ Tasks \subseteq {"scan", "preflight", "quarantine", "approval", "reanalysis"}
  /\ None \notin Tasks
ASSUME RestartAssumption == MaxRestarts > 0 => {"preflight", "approval"} \subseteq Tasks
ASSUME FailAssumption == Fails \subseteq {"read", "write", "model", "discovery"}
ASSUME LargeAssumption == Large \subseteq Hashes

VARIABLES
  folder,    \* content of every path of the watched folder, or None
  page,      \* concepts/<id>.md of every document
  index,     \* documents index.md lists
  log,       \* entries of log.md, by marker
  task,      \* where every task is, and what it works on
  pass,      \* what the reconciliation pass of a task still has to do
  guard,     \* task that holds the publication lock, or None
  phase,     \* of the process: "recovering", then "checking", then "serving"
  dirty,     \* paths changed since the process started
  edits, restarts, faults

bundle == <<page, index, log>>
control == <<task, pass, guard, phase>>
outside == <<folder, dirty, edits, restarts>>
world == <<outside, faults>>
wikiVars == <<vars, bundle, control, world>>

NoPage == [kind |-> "none", version |-> None]
PageOf(s, kind) == [kind |-> kind, version |-> VersionOf(s)]

Idle == [pc |-> "idle", back |-> "none", s |-> None, p |-> None, sha |-> None,
         revision |-> 0, job |-> None, purge |-> {}, listed |-> {}]
NoPass == [left |-> {}, found |-> {}, large |-> {}, gone |-> {}, dead |-> {},
           pending |-> {}]

WikiInit ==
  /\ Init
  /\ folder = [p \in Paths |-> None]
  /\ page = [s \in Sources |-> NoPage]
  /\ index = {} /\ log = {}
  /\ task = [t \in Tasks |-> Idle]
  /\ pass = [t \in Tasks |-> NoPass]
  /\ guard = None
  /\ phase = "serving"
  /\ dirty = {} /\ edits = 0 /\ restarts = 0 /\ faults = 0

-------------------------------------------------------------------------------
(* Control of a task *)

At(t, pc) == task[t].pc = pc

Goto(t, pc) == task' = [task EXCEPT ![t].pc = pc]

(* An operation of one of these kinds fails.                                  *)
Fault(kinds) ==
  /\ kinds \cap Fails # {}
  /\ faults < MaxFaults
  /\ faults' = faults + 1

NoFault == UNCHANGED faults

(* A step is refused, or it fails.                                            *)
RefusedOrFault(refused, kinds) == (refused /\ NoFault) \/ (~refused /\ Fault(kinds))

FreeJob(j) == \A t \in Tasks : task[t].job # j

OnDisk(s, sha) == folder[source[s].path] = sha

Published == {s \in Sources : concept[s].status = "published"}

(* write_draft: only a coherent review state becomes a draft page.            *)
MayWriteDraft(s) ==
  /\ concept[s].status \in {"needs_review", "excluded"}
  /\ concept[s].status = source[s].status

-------------------------------------------------------------------------------
(* A reconciliation pass: discovery, registration of what is there, sweep of   *)
(* the rows whose file is not, and, in a scan, ingestion of what is pending.   *)

(* Before the wiki serves only the startup preflight runs, or a quarantine when *)
(* no watcher starts.  Later a change that arrives during a scan starts a       *)
(* preflight of its own beside it.                                            *)
MayReconcile(t) ==
  /\ phase = "serving" \/ (phase = "checking" /\ t \in {"preflight", "quarantine"})
  /\ Cardinality({u \in {"scan", "preflight", "quarantine"} \cap Tasks : ~At(u, "idle")})
       < MaxPasses

(* Large files are seen but not candidates.                                   *)
StartPass(t) ==
  LET there == {p \in Paths : folder[p] # None}
      large == {p \in there : folder[p] \in Large}
  IN
  /\ At(t, "idle") /\ t \in {"scan", "preflight"}
  /\ MayReconcile(t)
  /\ Goto(t, "register")
  /\ pass' = [pass EXCEPT ![t] = [NoPass EXCEPT !.left = there \ large, !.found = there,
                                                !.large = large]]
  /\ UNCHANGED <<vars, bundle, guard, phase, world>>

(* quarantine_collection: what was published must leave the bundle.           *)
QuarantineFolder(t) ==
  LET removed == {s \in Sources : source[s].status = "published"} IN
  /\ QuarantineCollection
  /\ task' = [task EXCEPT ![t].pc = "withdraw", ![t].back = "quarantined",
       ![t].purge = {[s |-> s, sha |-> source[s].sha] : s \in removed}]
  /\ UNCHANGED <<bundle, pass, guard, phase, outside>>

(* The watcher failed, or a pass could not walk the folder.                   *)
Quarantine(t) ==
  /\ At(t, "idle") /\ MayReconcile(t)
  /\ \/ t = "quarantine" /\ NoFault
     \/ t \in {"scan", "preflight"} /\ Fault({"discovery"})
  /\ QuarantineFolder(t)

(* The startup preflight failed.                                              *)
QuarantineUnsafe(t) == At(t, "unsafe") /\ NoFault /\ QuarantineFolder(t)

NextFile(t) == task' = [task EXCEPT ![t] = [Idle EXCEPT !.pc = "register"]]

(* register_candidate hashes the file it found some time ago.                 *)
HashFile(t, p) ==
  /\ At(t, "register") /\ p \in pass[t].left
  /\ pass' = [pass EXCEPT ![t].left = @ \ {p}]
  /\ task' = IF folder[p] = None THEN task
             ELSE [task EXCEPT ![t].pc = "registering", ![t].p = p, ![t].sha = folder[p]]
  /\ UNCHANGED <<vars, bundle, guard, phase, world>>

(* The file is there and cannot be opened: the outcome says so, and that is    *)
(* all.                                                                       *)
HashFails(t, p) ==
  /\ At(t, "register") /\ p \in pass[t].left /\ folder[p] # None /\ Fault({"read"})
  /\ pass' = [pass EXCEPT ![t].left = @ \ {p}]
  /\ UNCHANGED <<vars, bundle, task, guard, phase, outside>>

RegisterFile(t) ==
  LET p == task[t].p
      h == task[t].sha
      missing == {q \in Paths : folder[q] = None}
      settled(s) == source[s].status \in Settled
      reread(s, old) == [task EXCEPT ![t].pc = "reread", ![t].s = s,
                                     ![t].purge = {[s |-> s, sha |-> old]}]
  IN
  /\ At(t, "registering")
  /\ \E s \in Sources :
       \/ /\ RegisterUnchanged(s, p, h)
          /\ NextFile(t)
          /\ UNCHANGED vars
       \/ RegisterRetry(s, p, h) /\ task' = reread(s, h)
       \/ RegisterReplaced(s, p, h) /\ task' = reread(s, source[s].sha)
       \/ RegisterMoved(s, p, h, missing) /\ settled(s) /\ NextFile(t)
       \/ RegisterMoved(s, p, h, missing) /\ ~settled(s) /\ task' = reread(s, h)
       \/ RegisterNew(s, p, h, missing) /\ task' = reread(s, h)
  /\ UNCHANGED <<bundle, pass, guard, phase, world>>

Pend(t, s, revision) ==
  pass' = [pass EXCEPT ![t].pending =
             @ \union {[s |-> s, p |-> task[t].p, sha |-> task[t].sha, revision |-> revision]}]

(* The row is read again: another pass may have replaced it.  A document that  *)
(* had a page first leaves the bundle.                                        *)
Reread(t) ==
  LET s == task[t].s IN
  /\ At(t, "reread")
  /\ \/ /\ source[s].sha # task[t].sha
        /\ NextFile(t)
        /\ UNCHANGED pass
     \/ /\ source[s].sha = task[t].sha /\ ~source[s].linked
        /\ NextFile(t)
        /\ Pend(t, s, source[s].revision)
     \/ /\ source[s].sha = task[t].sha /\ source[s].linked
        /\ task' = [task EXCEPT ![t].pc = "withdraw", ![t].back = "register",
                                ![t].revision = source[s].revision]
        /\ UNCHANGED pass
  /\ UNCHANGED <<vars, bundle, guard, phase, world>>

(* A mutant: tombstones are not swept again.                                  *)
ListSourcesWithoutTombstones(t) ==
  LET rows(S) == {[s |-> s, sha |-> source[s].sha, linked |-> source[s].linked,
                   status |-> source[s].status] : s \in S}
      live == {s \in Sources : Exists(s) /\ source[s].status # "deleted"}
      large == {s \in live : source[s].path \in pass[t].large}
  IN
  /\ At(t, "register") /\ pass[t].left = {}
  /\ Goto(t, "sweep")
  /\ pass' = [pass EXCEPT ![t].large = rows(large), ![t].dead = {},
       ![t].gone = rows({s \in live \ large : source[s].path \notin pass[t].found})]
  /\ UNCHANGED <<vars, bundle, guard, phase, world>>

(* A mutant: rows whose file is missing are left to the watcher.              *)
ListTombstonesOnly(t) ==
  LET dead == {s \in Sources : source[s].status = "deleted" /\ source[s].linked} IN
  /\ At(t, "register") /\ pass[t].left = {}
  /\ Goto(t, "sweep")
  /\ pass' = [pass EXCEPT ![t].large = {}, ![t].gone = {},
       ![t].dead = {[s |-> s, sha |-> source[s].sha, linked |-> TRUE,
                     status |-> "deleted"] : s \in dead}]
  /\ UNCHANGED <<vars, bundle, guard, phase, world>>

(* list_sources: the sweep works on the rows as they are now.                 *)
ListSources(t) ==
  LET row(s) == [s |-> s, sha |-> source[s].sha, linked |-> source[s].linked,
                 status |-> source[s].status]
      rows(P(_)) == {row(s) : s \in {s \in Sources : Exists(s) /\ P(s)}}
      large(s) == source[s].path \in pass[t].large
      deleted(s) == source[s].status = "deleted"
      found(s) == source[s].path \in pass[t].found
  IN
  /\ At(t, "register") /\ pass[t].left = {}
  /\ Goto(t, "sweep")
  /\ pass' = [pass EXCEPT
       ![t].large = rows(LAMBDA s : large(s) /\ ~deleted(s)),
       ![t].dead = rows(LAMBDA s : ~large(s) /\ deleted(s) /\ source[s].linked),
       ![t].gone = rows(LAMBDA s : ~large(s) /\ ~deleted(s) /\ ~found(s))]
  /\ UNCHANGED <<vars, bundle, guard, phase, world>>

RemovePageOf(t, row) ==
  task' = [task EXCEPT ![t].pc = "withdraw", ![t].back = "sweep",
                       ![t].purge = {[s |-> row.s, sha |-> row.sha]}]

(* The row is quarantined unless it already failed for the same reason.       *)
SweepLarge(t, row) ==
  /\ At(t, "sweep") /\ row \in pass[t].large
  /\ pass' = [pass EXCEPT ![t].large = @ \ {row}]
  /\ \/ /\ QuarantineSource(row.s)
        /\ IF source[row.s].status = "published"
           THEN RemovePageOf(t, [row EXCEPT !.sha = source[row.s].sha])
           ELSE UNCHANGED task
     \/ /\ row.status = "failed" \/ source[row.s].status = "deleted"
        /\ UNCHANGED <<vars, task>>
  /\ UNCHANGED <<bundle, guard, phase, world>>

SweepGone(t, row) ==
  /\ At(t, "sweep") /\ row \in pass[t].gone
  /\ pass' = [pass EXCEPT ![t].gone = @ \ {row}]
  /\ MarkDeleted(row.s)
  /\ IF row.linked THEN RemovePageOf(t, row) ELSE UNCHANGED task
  /\ UNCHANGED <<bundle, guard, phase, world>>

SweepDead(t, row) ==
  /\ At(t, "sweep") /\ row \in pass[t].dead
  /\ pass' = [pass EXCEPT ![t].dead = @ \ {row}]
  /\ RemovePageOf(t, row)
  /\ UNCHANGED <<vars, bundle, guard, phase, world>>

(* A scan goes on with its pending documents; a preflight is done, and the     *)
(* first one ends the startup.                                                *)
EndSweep(t) ==
  /\ At(t, "sweep")
  /\ pass[t].large = {} /\ pass[t].dead = {} /\ pass[t].gone = {}
  /\ IF t = "scan"
     THEN Goto(t, "process") /\ UNCHANGED <<pass, phase>>
     ELSE /\ task' = [task EXCEPT ![t] = Idle]
          /\ pass' = [pass EXCEPT ![t] = NoPass]
          /\ phase' = "serving"
  /\ UNCHANGED <<vars, bundle, guard, world>>

-------------------------------------------------------------------------------
(* withdraw_artifacts_locked: remove each page, then list what is still        *)
(* published, then log the removal, all under the publication lock.           *)

Removal(x) == [what |-> "removed", s |-> x.s, sha |-> x.sha, revision |-> 0]

(* A mutant: a removal in log.md is taken for this one.                       *)
RemovalIsLogged(x) == Removal(x) \in log

RemovalIsComplete(x) == page[x.s] = NoPage /\ x.s \notin index /\ Removal(x) \in log

(* A mutant: a removal does not wait for the publisher.                       *)
UnlinkUnlocked(t, x) ==
  /\ At(t, "withdraw") /\ x \in task[t].purge
  /\ page' = [page EXCEPT ![x.s] = NoPage]
  /\ task' = [task EXCEPT ![t].pc = "relist", ![t].listed = Published, ![t].s = x.s]
  /\ UNCHANGED <<vars, index, log, pass, guard, phase, world>>

Unlink(t, x) ==
  /\ At(t, "withdraw") /\ x \in task[t].purge
  /\ guard \in {None, t} /\ guard' = t
  /\ IF RemovalIsComplete(x)
     THEN /\ task' = [task EXCEPT ![t].purge = @ \ {x}]
          /\ UNCHANGED page
     ELSE /\ page' = [page EXCEPT ![x.s] = NoPage]
          /\ task' = [task EXCEPT ![t].pc = "relist", ![t].listed = Published,
                                  ![t].s = x.s]
  /\ UNCHANGED <<vars, index, log, pass, phase, world>>

Relist(t) ==
  /\ At(t, "relist")
  /\ index' = task[t].listed
  /\ Goto(t, "logRemoval")
  /\ UNCHANGED <<vars, page, log, pass, guard, phase, world>>

LogRemoval(t) ==
  /\ At(t, "logRemoval")
  /\ \E x \in task[t].purge :
       /\ x.s = task[t].s
       /\ log' = log \union {Removal(x)}
       /\ task' = [task EXCEPT ![t].pc = "withdraw", ![t].purge = @ \ {x}]
  /\ UNCHANGED <<vars, page, index, pass, guard, phase, world>>

(* Where a task goes when its pages are withdrawn, or when that failed: an     *)
(* error ends the pass, except that registration only drops the one file and   *)
(* that the startup preflight is followed by a quarantine.                    *)
Release(t) == guard' = IF guard = t THEN None ELSE guard

Withdrawn(t) ==
  /\ At(t, "withdraw") /\ task[t].purge = {}
  /\ Release(t)
  /\ CASE task[t].back = "register" ->
            NextFile(t) /\ Pend(t, task[t].s, task[t].revision) /\ UNCHANGED phase
       [] task[t].back = "sweep" ->
            /\ task' = [task EXCEPT ![t] = [Idle EXCEPT !.pc = "sweep"]]
            /\ UNCHANGED <<pass, phase>>
       [] task[t].back = "quarantined" ->
            /\ task' = [task EXCEPT ![t] = Idle]
            /\ phase' = IF t = "preflight" THEN "serving" ELSE phase
            /\ UNCHANGED pass
  /\ UNCHANGED <<vars, bundle, world>>

(* A mutant: a failed removal leaves the lock taken.                          *)
WithdrawFailsLocked(t) ==
  /\ At(t, "relist") \/ At(t, "logRemoval")
  /\ Fault({"write"})
  /\ task' = [task EXCEPT ![t] = Idle]
  /\ pass' = [pass EXCEPT ![t] = NoPass]
  /\ UNCHANGED <<vars, bundle, guard, phase, outside>>

(* A mutant: a document whose page did not leave is prepared all the same.     *)
WithdrawFailsAndPends(t) ==
  /\ At(t, "withdraw") /\ task[t].purge # {} /\ guard \in {None, t}
  /\ task[t].back = "register"
  /\ Fault({"write"})
  /\ Release(t) /\ NextFile(t) /\ Pend(t, task[t].s, task[t].revision)
  /\ UNCHANGED <<vars, bundle, phase, outside>>

WithdrawFails(t) ==
  /\ \/ At(t, "withdraw") /\ task[t].purge # {} /\ guard \in {None, t}
     \/ At(t, "relist") \/ At(t, "logRemoval")
  /\ Fault({"write"})
  /\ Release(t)
  /\ IF task[t].back = "register"
     THEN NextFile(t) /\ UNCHANGED pass
     ELSE /\ task' = [task EXCEPT ![t] = [Idle EXCEPT !.pc =
                        IF phase = "checking" /\ task[t].back = "sweep"
                        THEN "unsafe" ELSE "idle"]]
          /\ pass' = [pass EXCEPT ![t] = NoPass]
  /\ UNCHANGED <<vars, bundle, phase, outside>>

-------------------------------------------------------------------------------
(* Ingestion of one pending document (process_candidate): every step asks      *)
(* again whether the claim still names the stored revision.                   *)

Superseded(j, status) == ~IngestOwns(j, status)

ClaimPending(t, r) ==
  /\ At(t, "process") /\ r \in pass[t].pending
  /\ pass' = [pass EXCEPT ![t].pending = @ \ {r}]
  /\ IF /\ source[r.s].status = "detected"
        /\ source[r.s].sha = r.sha /\ source[r.s].revision = r.revision
        /\ ~ActiveIngest(r.s)
     THEN \E j \in Jobs :
            /\ FreeJob(j)
            /\ ClaimIngestJob(j, r.s)
            /\ task' = [task EXCEPT ![t] =
                 [Idle EXCEPT !.pc = "extract", !.s = r.s, !.p = r.p, !.sha = r.sha,
                              !.revision = r.revision, !.job = j]]
     ELSE UNCHANGED <<vars, task>>
  /\ UNCHANGED <<bundle, guard, phase, world>>

(* The bytes are hashed again after the extraction; large ones are refused.    *)
Extract(t) ==
  LET j == task[t].job
      asRegistered == folder[task[t].p] = task[t].sha /\ task[t].sha \notin Large
  IN
  /\ At(t, "extract")
  /\ \/ asRegistered /\ MarkExtracted(j) /\ Goto(t, "enrich") /\ NoFault
     \/ /\ asRegistered /\ Superseded(j, "detected")
        /\ Goto(t, "superseded") /\ NoFault
        /\ UNCHANGED vars
     \/ /\ RefusedOrFault(~asRegistered, {"read"})
        /\ Goto(t, "failed")
        /\ UNCHANGED vars
  /\ UNCHANGED <<bundle, pass, guard, phase, outside>>

(* Generation that fails leaves a fallback draft: it never fails the document. *)
Enrich(t) ==
  /\ At(t, "enrich")
  /\ \/ MarkEnriched(task[t].job) /\ Goto(t, "save")
     \/ Superseded(task[t].job, "extracted") /\ Goto(t, "superseded") /\ UNCHANGED vars
  /\ UNCHANGED <<bundle, pass, guard, phase, world>>

Save(t) ==
  /\ At(t, "save")
  /\ \/ \E d \in Drafts : SaveEnrichment(task[t].job, d) /\ Goto(t, "embed")
     \/ Superseded(task[t].job, "enriched") /\ Goto(t, "superseded") /\ UNCHANGED vars
  /\ UNCHANGED <<bundle, pass, guard, phase, world>>

(* Embeddings, then, under the publication lock, the chunks and the draft page.*)
Embed(t) ==
  /\ At(t, "embed")
  /\ \/ /\ guard = None
        /\ ReplaceChunks(task[t].job)
        /\ guard' = t
        /\ Goto(t, "draft")
        /\ NoFault
     \/ /\ guard = None
        /\ Superseded(task[t].job, "needs_review")
        /\ Goto(t, "superseded")
        /\ NoFault
        /\ UNCHANGED <<vars, guard>>
     \/ Fault({"model"}) /\ Goto(t, "failed") /\ UNCHANGED <<vars, guard>>
  /\ UNCHANGED <<bundle, pass, phase, outside>>

WriteDraft(t) ==
  LET s == task[t].s IN
  /\ At(t, "draft")
  /\ guard' = None
  /\ \/ /\ MayWriteDraft(s)
        /\ page' = [page EXCEPT ![s] = PageOf(s, "draft")]
        /\ Goto(t, "completed")
        /\ NoFault
     \/ /\ RefusedOrFault(~MayWriteDraft(s), {"write"})
        /\ Goto(t, "failed")
        /\ UNCHANGED page
  /\ UNCHANGED <<vars, index, log, pass, phase, outside>>

(* finish_ingest_job: only a job that still runs is closed.                   *)
FinishIngest(t) ==
  LET j == task[t].job IN
  /\ task[t].pc \in {"completed", "failed", "superseded"}
  /\ IF job[j].state = "running"
     THEN IF At(t, "completed") THEN CompleteIngestJob(j)
                                ELSE FailIngestJob(j, At(t, "failed"))
     ELSE UNCHANGED vars
  /\ task' = [task EXCEPT ![t] = [Idle EXCEPT !.pc = "process"]]
  /\ UNCHANGED <<bundle, pass, guard, phase, world>>

EndScan(t) ==
  /\ At(t, "process") /\ pass[t].pending = {}
  /\ task' = [task EXCEPT ![t] = Idle]
  /\ pass' = [pass EXCEPT ![t] = NoPass]
  /\ UNCHANGED <<vars, bundle, guard, phase, world>>

-------------------------------------------------------------------------------
(* The publisher (approve_locked, recover_claims).  It holds the publication    *)
(* lock throughout.  `back` says for what: "startup" and "approval" while it    *)
(* recovers an older claim, "own" once it materializes its own.               *)

Publisher == "approval"

(* The path is the one the claim was loaded with.                             *)
ClaimOnDisk(j) == folder[task[Publisher].p] = job[j].sha

LoadedClaim(back, s) ==
  [Idle EXCEPT !.pc = "recover", !.back = back, !.s = s, !.job = claim,
               !.p = source[job[claim].source].path]

(* An approval first recovers what an earlier one left.  It does not wait for   *)
(* the models: the startup preflight may still run.                           *)
StartApproval(s) ==
  /\ At(Publisher, "idle") /\ phase # "recovering" /\ shown[s] # None
  /\ guard = None /\ guard' = Publisher
  /\ task' = [task EXCEPT ![Publisher] =
       IF claim = None THEN [Idle EXCEPT !.pc = "approve", !.back = "approval", !.s = s]
                       ELSE LoadedClaim("approval", s)]
  /\ UNCHANGED <<vars, bundle, pass, phase, world>>

PublisherEnds ==
  /\ task' = [task EXCEPT ![Publisher] = Idle]
  /\ guard' = None
  /\ phase' = IF phase = "recovering" THEN "checking" ELSE phase

(* A claim is settled: an approval that had to recover it goes on to its own.  *)
PublisherGoesOn ==
  IF task[Publisher].back = "approval"
  THEN /\ task' = [task EXCEPT ![Publisher].pc = "approve", ![Publisher].job = None,
                               ![Publisher].p = None, ![Publisher].listed = {}]
       /\ UNCHANGED <<guard, phase>>
  ELSE PublisherEnds

(* A step of the materialization failed: the approval cancels its own claim, a *)
(* recovery leaves the claim for the next one.                                *)
PublisherFails ==
  IF task[Publisher].back = "own"
  THEN Goto(Publisher, "cancel") /\ UNCHANGED <<guard, phase>>
  ELSE PublisherEnds

RecoverClaim ==
  LET j == task[Publisher].job IN
  /\ At(Publisher, "recover")
  /\ \/ /\ Goto(Publisher, IF ClaimIsCurrent(j) /\ ClaimOnDisk(j) THEN "page" ELSE "cancel")
        /\ NoFault
        /\ UNCHANGED <<guard, phase>>
     \/ Fault({"read"}) /\ PublisherEnds
  /\ UNCHANGED <<vars, bundle, pass, outside>>

(* The person may have edited the draft (d); the version on screen, the rows   *)
(* and the file must still agree.                                             *)
Approve(j, d) ==
  LET s == task[Publisher].s IN
  /\ At(Publisher, "approve") /\ FreeJob(j)
  /\ OnDisk(s, source[s].sha)
  /\ BeginPublication(j, s, d)
  /\ task' = [task EXCEPT ![Publisher].pc = "page", ![Publisher].back = "own",
                          ![Publisher].job = j, ![Publisher].p = source[s].path]
  /\ UNCHANGED <<bundle, pass, guard, phase, world>>

ApproveFails ==
  LET s == task[Publisher].s IN
  /\ At(Publisher, "approve")
  /\ RefusedOrFault(~MatchesReviewed(s) \/ ~OnDisk(s, source[s].sha), {"read"})
  /\ PublisherEnds
  /\ UNCHANGED <<vars, bundle, pass, outside>>

(* write_concept; the index will list what is published now and this document. *)
WritePage ==
  LET j == task[Publisher].job
      s == job[j].source
  IN
  /\ At(Publisher, "page")
  /\ \/ /\ ClaimIsCurrent(j) /\ ClaimOnDisk(j)
        /\ page' = [page EXCEPT ![s] = PageOf(s, "stable")]
        /\ task' = [task EXCEPT ![Publisher].pc = "index",
                                ![Publisher].listed = Published \union {s}]
        /\ NoFault
        /\ UNCHANGED <<guard, phase>>
     \/ /\ RefusedOrFault(~ClaimIsCurrent(j) \/ ~ClaimOnDisk(j), {"read", "write"})
        /\ PublisherFails
        /\ UNCHANGED page
  /\ UNCHANGED <<vars, index, log, pass, outside>>

(* A mutant: the last transaction does not wait for log.md.                   *)
WriteIndexLast ==
  /\ At(Publisher, "index")
  /\ index' = task[Publisher].listed
  /\ Goto(Publisher, "commit")
  /\ UNCHANGED <<vars, page, log, pass, guard, phase, world>>

WriteIndex ==
  /\ At(Publisher, "index")
  /\ \/ /\ index' = task[Publisher].listed
        /\ Goto(Publisher, "log")
        /\ NoFault
        /\ UNCHANGED <<guard, phase>>
     \/ Fault({"write"}) /\ PublisherFails /\ UNCHANGED index
  /\ UNCHANGED <<vars, page, log, pass, outside>>

Publication(j) ==
  [what |-> "published", s |-> job[j].source, sha |-> job[j].sha, revision |-> job[j].revision]

(* The entry is made of the rows as WritePage read them, which the claim names.*)
WriteLog ==
  /\ At(Publisher, "log")
  /\ \/ /\ log' = log \union {Publication(task[Publisher].job)}
        /\ Goto(Publisher, "commit")
        /\ NoFault
        /\ UNCHANGED <<guard, phase>>
     \/ Fault({"write"}) /\ PublisherFails /\ UNCHANGED log
  /\ UNCHANGED <<vars, page, index, pass, outside>>

(* Claim and file are checked once more before the last transaction.          *)
Commit ==
  LET j == task[Publisher].job IN
  /\ At(Publisher, "commit")
  /\ \/ /\ ClaimIsCurrent(j) /\ ClaimOnDisk(j)
        /\ CompletePublication(j)
        /\ PublisherGoesOn
        /\ NoFault
     \/ /\ RefusedOrFault(~ClaimIsCurrent(j) \/ ~ClaimOnDisk(j), {"read"})
        /\ PublisherFails
        /\ UNCHANGED vars
  /\ UNCHANGED <<bundle, pass, outside>>

(* A mutant: a cancellation forgets the page it may have written.             *)
BeginCancelOnly ==
  /\ At(Publisher, "cancel")
  /\ MarkPublicationCancelling(task[Publisher].job)
  /\ task' = [task EXCEPT ![Publisher].pc = "dropClaim"]
  /\ UNCHANGED <<bundle, pass, guard, phase, world>>

(* cancel_claim: withhold, discard the page, list again, drop the claim, and   *)
(* put the draft back when the file is still the claimed one.                 *)
BeginCancel ==
  /\ At(Publisher, "cancel")
  /\ MarkPublicationCancelling(task[Publisher].job)
  /\ task' = [task EXCEPT ![Publisher].pc = "discard"]
  /\ UNCHANGED <<bundle, pass, guard, phase, world>>

DiscardPage ==
  LET s == job[task[Publisher].job].source IN
  /\ At(Publisher, "discard")
  /\ \/ /\ page' = [page EXCEPT ![s] = NoPage]
        /\ task' = [task EXCEPT ![Publisher].pc = "unlist", ![Publisher].listed = Published]
        /\ NoFault
        /\ UNCHANGED <<guard, phase>>
     \/ Fault({"write"}) /\ PublisherEnds /\ UNCHANGED page
  /\ UNCHANGED <<vars, index, log, pass, outside>>

Unlist ==
  /\ At(Publisher, "unlist")
  /\ \/ /\ index' = task[Publisher].listed
        /\ Goto(Publisher, "dropClaim")
        /\ NoFault
        /\ UNCHANGED <<guard, phase>>
     \/ Fault({"write"}) /\ PublisherEnds /\ UNCHANGED index
  /\ UNCHANGED <<vars, page, log, pass, outside>>

FinishCancel ==
  /\ At(Publisher, "dropClaim")
  /\ FinishPublicationCancellation(task[Publisher].job)
  /\ Goto(Publisher, "restore")
  /\ UNCHANGED <<bundle, pass, guard, phase, world>>

RestoreDraft ==
  LET j == task[Publisher].job
      s == job[j].source
  IN
  /\ At(Publisher, "restore")
  /\ \/ /\ ClaimOnDisk(j) /\ MayWriteDraft(s)
        /\ page' = [page EXCEPT ![s] = PageOf(s, "draft")]
        /\ PublisherGoesOn
        /\ NoFault
        /\ UNCHANGED vars
     \/ /\ RefusedOrFault(~ClaimOnDisk(j), {"read"})
        /\ MarkSourceFailed(s)
        /\ PublisherGoesOn
        /\ UNCHANGED page
     \/ /\ ClaimOnDisk(j)
        /\ RefusedOrFault(~MayWriteDraft(s), {"write"})
        /\ MarkSourceFailed(s)
        /\ PublisherEnds
        /\ UNCHANGED page
  /\ UNCHANGED <<index, log, pass, outside>>

-------------------------------------------------------------------------------
(* Reanalysis of the draft of s (reanalyze_review) *)

StartReanalysis(t, s, j) ==
  /\ t = "reanalysis" /\ At(t, "idle") /\ phase = "serving" /\ FreeJob(j)
  /\ BeginReanalysis(j, s)
  /\ task' = [task EXCEPT ![t] = [Idle EXCEPT !.pc = "regenerate", !.s = s, !.job = j,
                             !.p = source[s].path, !.sha = source[s].sha]]
  /\ UNCHANGED <<bundle, pass, guard, phase, world>>

(* The file is hashed before the inference and once more under the lock.      *)
Regenerate(t) ==
  LET unchanged == folder[task[t].p] = task[t].sha /\ task[t].sha \notin Large IN
  /\ At(t, "regenerate")
  /\ \/ unchanged /\ Goto(t, "replace") /\ NoFault
     \/ RefusedOrFault(~unchanged, {"read", "model"}) /\ Goto(t, "abandon")
  /\ UNCHANGED <<vars, bundle, pass, guard, phase, outside>>

ReplaceDraft(t, d) ==
  /\ At(t, "replace") /\ guard = None
  /\ folder[task[t].p] = task[t].sha
  /\ CompleteReanalysis(task[t].job, d)
  /\ guard' = t
  /\ Goto(t, "redraft")
  /\ UNCHANGED <<bundle, pass, phase, world>>

ReplaceFails(t) ==
  LET j == task[t].job
      refused == \/ folder[task[t].p] # task[t].sha
                 \/ ~Owns(j, "reanalyze") \/ ~Reanalyzing(task[t].s)
  IN
  /\ At(t, "replace") /\ guard = None
  /\ RefusedOrFault(refused, {"read"})
  /\ Goto(t, "abandon")
  /\ UNCHANGED <<vars, bundle, pass, guard, phase, outside>>

(* A mutant: the page of the replaced draft stays.                            *)
RedraftNothing(t) ==
  /\ At(t, "redraft")
  /\ guard' = None
  /\ task' = [task EXCEPT ![t] = Idle]
  /\ UNCHANGED <<vars, bundle, pass, phase, world>>

Redraft(t) ==
  LET s == task[t].s IN
  /\ At(t, "redraft")
  /\ guard' = None
  /\ \/ /\ MayWriteDraft(s)
        /\ page' = [page EXCEPT ![s] = PageOf(s, "draft")]
        /\ task' = [task EXCEPT ![t] = Idle]
        /\ NoFault
        /\ UNCHANGED vars
     \/ /\ RefusedOrFault(~MayWriteDraft(s), {"write"})
        /\ MarkSourceFailed(s)
        /\ Goto(t, "abandon")
        /\ UNCHANGED page
  /\ UNCHANGED <<index, log, pass, phase, outside>>

(* fail_review_reanalysis: nothing to restore when the job is already closed.  *)
Abandon(t) ==
  LET j == task[t].job IN
  /\ At(t, "abandon")
  /\ IF job[j].state = "running" THEN FailReanalysis(j) ELSE UNCHANGED vars
  /\ task' = [task EXCEPT ![t] = Idle]
  /\ UNCHANGED <<bundle, pass, guard, phase, world>>

-------------------------------------------------------------------------------
(* The person, the folder and the process *)

Person(s) ==
  /\ phase # "recovering"
  /\ ShowReview(s) \/ ExcludeReview(s)
  /\ UNCHANGED <<bundle, control, world>>

EditFolder(p, content) ==
  /\ edits < MaxEdits
  /\ folder[p] # content
  /\ folder' = [folder EXCEPT ![p] = content]
  /\ dirty' = dirty \union {p}
  /\ edits' = edits + 1
  /\ UNCHANGED <<vars, bundle, control, restarts, faults>>

RenameFile(p, q) ==
  /\ edits < MaxEdits
  /\ folder[p] # None /\ folder[q] = None
  /\ folder' = [folder EXCEPT ![q] = folder[p], ![p] = None]
  /\ dirty' = dirty \union {p, q}
  /\ edits' = edits + 1
  /\ UNCHANGED <<vars, bundle, control, restarts, faults>>

(* A mutant: search opens before the startup preflight.                       *)
RestartServing ==
  /\ restarts < MaxRestarts
  /\ restarts' = restarts + 1
  /\ RecoverInterruptedJobs
  /\ pass' = [t \in Tasks |-> NoPass]
  /\ task' = [t \in Tasks |-> Idle]
  /\ guard' = None /\ phase' = "serving" /\ dirty' = {}
  /\ UNCHANGED <<bundle, folder, edits, faults>>

(* The process dies and starts again: Database::open, then recover_pending.    *)
Restart ==
  /\ restarts < MaxRestarts
  /\ restarts' = restarts + 1
  /\ RecoverInterruptedJobs
  /\ pass' = [t \in Tasks |-> NoPass]
  /\ dirty' = {}
  /\ IF claim = None
     THEN /\ task' = [t \in Tasks |-> Idle]
          /\ guard' = None
          /\ phase' = "checking"
     ELSE /\ task' = [[t \in Tasks |-> Idle] EXCEPT ![Publisher] =
               LoadedClaim("startup", None)]
          /\ guard' = Publisher
          /\ phase' = "recovering"
  /\ UNCHANGED <<bundle, folder, edits, faults>>

-------------------------------------------------------------------------------

Starts(t) == StartPass(t) \/ Quarantine(t)

Reconciles(t) ==
  \/ \E p \in Paths : HashFile(t, p) \/ HashFails(t, p)
  \/ QuarantineUnsafe(t) \/ RegisterFile(t) \/ Reread(t) \/ ListSources(t)
  \/ \E row \in pass[t].large : SweepLarge(t, row)
  \/ \E row \in pass[t].gone : SweepGone(t, row)
  \/ \E row \in pass[t].dead : SweepDead(t, row)
  \/ EndSweep(t)
  \/ \E x \in task[t].purge : Unlink(t, x)
  \/ Relist(t) \/ LogRemoval(t) \/ Withdrawn(t) \/ WithdrawFails(t)

Ingests(t) ==
  \/ \E r \in pass[t].pending : ClaimPending(t, r)
  \/ Extract(t) \/ Enrich(t) \/ Save(t) \/ Embed(t) \/ WriteDraft(t)
  \/ FinishIngest(t) \/ EndScan(t)

Publishes ==
  \/ RecoverClaim
  \/ \E j \in Jobs, d \in Drafts : Approve(j, d)
  \/ ApproveFails \/ WritePage \/ WriteIndex \/ WriteLog \/ Commit
  \/ BeginCancel \/ DiscardPage \/ Unlist \/ FinishCancel \/ RestoreDraft

Reanalyzes(t) ==
  \/ Regenerate(t) \/ Redraft(t) \/ Abandon(t) \/ ReplaceFails(t)
  \/ \E d \in Drafts : ReplaceDraft(t, d)

TaskStep(t) ==
  \/ Reconciles(t)
  \/ Ingests(t)
  \/ t = Publisher /\ Publishes
  \/ Reanalyzes(t)

WikiNext ==
  \/ \E t \in Tasks : Starts(t) \/ TaskStep(t)
  \/ \E s \in Sources :
       \/ Person(s)
       \/ Publisher \in Tasks /\ StartApproval(s)
       \/ \E t \in Tasks, j \in Jobs : StartReanalysis(t, s, j)
  \/ \E p \in Paths, content \in Hashes \union {None} : EditFolder(p, content)
  \/ \E p, q \in Paths : RenameFile(p, q)
  \/ Restart

WikiSpec == WikiInit /\ [][WikiNext]_wikiVars

(* A task that has begun goes on, and approvals do not keep the publication     *)
(* lock from the others for ever; the startup runs its preflight, and the      *)
(* periodic timer scans the folder again and again.                           *)
TakesLock(t) ==
  \/ \E x \in task[t].purge : Unlink(t, x)
  \/ Embed(t)
  \/ \E d \in Drafts : ReplaceDraft(t, d)

WikiFairness ==
  /\ \A t \in Tasks : WF_wikiVars(TaskStep(t))
  /\ SF_wikiVars(\E t \in Tasks : TakesLock(t))
  /\ SF_wikiVars(\E t \in Tasks : (t = "scan" \/ phase = "checking") /\ StartPass(t))

FairWikiSpec == WikiSpec /\ WikiFairness

-------------------------------------------------------------------------------
(* Properties *)

(* Steps taken under the publication lock.                                    *)
LockedSteps ==
  {"relist", "logRemoval", "draft", "redraft", "recover", "approve", "page", "index",
   "log", "commit", "cancel", "discard", "unlist", "dropClaim", "restore"}

(* Every variable has its type, and the publication lock is held by the one     *)
(* task that is between steps which need it, and by nobody else.               *)
WikiTypeOK ==
  /\ TypeOK
  /\ folder \in [Paths -> Hashes \union {None}]
  /\ page \in [Sources -> {NoPage} \union
                 [kind : {"draft", "stable"}, version : Version]]
  /\ index \subseteq Sources
  /\ log \subseteq [what : {"published", "removed"}, s : Sources, sha : Hashes,
                    revision : Revisions]
  /\ guard \in Tasks \union {None}
  /\ \A t \in Tasks :
       /\ task[t].job \in Jobs \union {None}
       /\ task[t].pc \in LockedSteps => guard = t
       /\ guard = t => task[t].pc \in LockedSteps \union {"withdraw"}

(* Whatever is searchable is in the bundle: as a stable page of exactly that   *)
(* version, with its entry in log.md (ADR 0004: the database publishes only    *)
(* after the OKF materialization, and withdraws before the artifact goes).     *)
SearchableIsMaterialized ==
  \A s \in Sources : Searchable(s) =>
    /\ page[s] = PageOf(s, "stable")
    /\ [what |-> "published", s |-> s, sha |-> source[s].sha,
         revision |-> source[s].revision] \in log

(* A version becomes searchable only when its page is written, listed and       *)
(* logged, whatever other passes, removals and failures did since the approval *)
(* (ADR 0004:43; publication.rs commits last).                                *)
ExposureIsMaterialized ==
  [][\A s \in Sources : Searchable(s)' /\ ~Searchable(s) =>
       /\ page[s] = PageOf(s, "stable")
       /\ s \in index
       /\ [what |-> "published", s |-> s, sha |-> source[s].sha,
           revision |-> source[s].revision] \in log]_wikiVars

(* A stable page is never left over: it belongs to a published document, a     *)
(* pending claim, or a row that the next pass over it will clean up.  (True    *)
(* while passes do not overlap, and of documents a scan finds under one path:  *)
(* README, section 4.)                                                         *)
StablePageIsAccounted ==
  \A s \in Sources : page[s].kind = "stable" =>
    \/ concept[s].status = "published" /\ page[s] = PageOf(s, "stable")
    \/ claim # None /\ job[claim].source = s
    \/ source[s].status \in {"detected", "failed", "deleted"}

(* A document in review or published never has the page of older bytes: the     *)
(* page leaves before the new revision is prepared, and a worker that lost its *)
(* revision writes nothing (pipeline.rs:245).                                 *)
PagesAreOfStoredBytes ==
  \A s \in Sources :
    (page[s] # NoPage /\ source[s].status \in Settled) =>
      /\ page[s].version.sha = source[s].sha
      /\ page[s].version.revision = source[s].revision

(* The bundle shows what the tables say: the index lists the published          *)
(* documents and only they have a stable page.                                *)
BundleMirrorsTables ==
  /\ index = Published
  /\ \A s \in Sources : page[s].kind = "stable" <=> concept[s].status = "published"

Quiet == phase = "serving" /\ claim = None /\ \A t \in Tasks : At(t, "idle")

(* While nothing failed, the bundle mirrors the tables whenever no task runs    *)
(* and no publication is left to recover, even after a crash between the two   *)
(* writes: the startup preflight repairs what the crash left (ADR 0004:50).    *)
QuietBundleMirrorsTables == (Quiet /\ faults = 0) => BundleMirrorsTables

(* Between two tasks the draft page of a proposal with evidence is the         *)
(* proposal that an approval would publish.                                   *)
DraftPageIsCurrent ==
  Quiet => \A s \in Sources :
    AwaitingReview(s) /\ chunks[s] # 0 => page[s] = PageOf(s, "draft")

(* Search opens after the startup preflight, so that no revision withdrawn by  *)
(* a change during the downtime is served (services.rs:3019): what is searchable *)
(* is on disk unless its path changed since the process started.              *)
StartupServesCurrentBytes ==
  \A s \in Sources : (phase = "serving" /\ Searchable(s) /\ source[s].path \notin dirty)
    => OnDisk(s, source[s].sha)

(* Evidence of bytes that are no longer on disk does not stay searchable: once  *)
(* the folder rests, the next scan withdraws it.                              *)
StaleEvidenceIsWithdrawn ==
  \A s \in Sources :
    (Searchable(s) /\ ~OnDisk(s, source[s].sha)) ~>
      ~(Searchable(s) /\ ~OnDisk(s, source[s].sha))

(* Preparation ends: a document never stays half prepared, whatever crashed or  *)
(* was superseded.                                                            *)
PreparationEnds ==
  \A s \in Sources : source[s].status \in InFlight ~> source[s].status \notin InFlight

(* Whatever failed or crashed, the bundle ends up mirroring the tables, unless  *)
(* a failed publication waits for the next approval or start.                 *)
BundleConverges == <>[](claim = None => BundleMirrorsTables)
================================================================================
