---------------------------- MODULE CollectionScans ----------------------------
(***************************************************************************)
(* The desktop worker's scheduling of the passes of FolderWiki over several *)
(* folder wikis (apps/desktop/src/worker.rs): two ScanScheduler values,    *)
(* the watchers, the background futures and the handlers that react to     *)
(* watcher events, timers, commands and completions.                       *)
(*                                                                         *)
(* The worker is one loop: a handler runs to its end before the next one,  *)
(* so each is one action.  Futures run beside it and report a completion.  *)
(* Only wikis in Continuous mode are modelled.                             *)
(***************************************************************************)
EXTENDS Naturals, FiniteSets, Sequences, SequencesExt

CONSTANTS
  Collections,
  MaxScans,       \* MAX_CONCURRENT_SCANS
  MaxPreflights,  \* MAX_CONCURRENT_PREFLIGHTS
  MaxChanges,     \* bound on changes of the unscanned
  MaxBreaks,      \* bound on watchers that stop
  MaxCommands,    \* bound on updates and relinks the person asks for
  MaxFaults       \* bound on futures that fail

ASSUME SlotAssumption == MaxScans \in Nat \ {0} /\ MaxPreflights \in Nat \ {0}
ASSUME LimitAssumption ==
  /\ MaxChanges \in Nat /\ MaxBreaks \in Nat /\ MaxCommands \in Nat /\ MaxFaults \in Nat

VARIABLES
  scans, preflights,  \* the two ScanScheduler values
  work,         \* futures of every collection, by stage
  watchers,     \* collections with a watcher handle
  watching,     \* collections whose watcher reports changes
  notices,      \* watcher events on their way to the loop
  quarantined,  \* watcher_quarantined
  manual,       \* manual_rescans
  unscanned,    \* collections with a change no scan has walked
  changes, breaks, commands, faults

schedulers == <<scans, preflights>>
supervision == <<watchers, watching, notices>>
bounds == <<changes, breaks, commands, faults>>
vars == <<schedulers, work, supervision, quarantined, manual, unscanned, bounds>>

Stages ==
  {"scan", "prepare", "scanned", "scanFailed", "preflight", "checked", "checkFailed",
   "quarantine", "withdrawn", "withdrawFailed", "relink", "relinked", "relinkFailed"}

EmptyScheduler == [active |-> {}, queued |-> <<>>, queuedSet |-> {}, dirty |-> {}]

Init ==
  /\ scans = EmptyScheduler /\ preflights = EmptyScheduler
  /\ work = [c \in Collections |-> [stage \in Stages |-> 0]]
  /\ watchers = Collections /\ watching = Collections
  /\ notices = {} /\ quarantined = {} /\ manual = {}
  /\ unscanned = {}
  /\ changes = 0 /\ breaks = 0 /\ commands = 0 /\ faults = 0

-------------------------------------------------------------------------------
(* ScanScheduler.  An operation returns the scheduler and what it started.     *)

Smaller(m, n) == IF m < n THEN m ELSE n

StartReady(S, limit) ==
  LET n == IF Cardinality(S.active) < limit
           THEN Smaller(limit - Cardinality(S.active), Len(S.queued)) ELSE 0
      ready == ToSet(SubSeq(S.queued, 1, n))
  IN [scheduler |-> [S EXCEPT !.active = @ \union ready,
                              !.queued = SubSeq(@, n + 1, Len(@)),
                              !.queuedSet = @ \ ready],
      ready |-> ready]

Enqueue(S, c) ==
  IF c \in S.queuedSet THEN S
  ELSE [S EXCEPT !.queued = Append(@, c), !.queuedSet = @ \union {c}]

(* A mutant: a change during a scan is taken to be seen by it.                *)
RequestIfIdle(S, c, limit) ==
  StartReady(IF c \in S.active THEN S ELSE Enqueue(S, c), limit)

Request(S, c, limit) ==
  StartReady(IF c \in S.active THEN [S EXCEPT !.dirty = @ \union {c}] ELSE Enqueue(S, c),
             limit)

(* A dirty scan goes behind the collections that already wait.                *)
Finish(S, c, limit) ==
  LET freed == [S EXCEPT !.active = @ \ {c}, !.dirty = @ \ {c}]
  IN StartReady(IF c \in S.dirty THEN Enqueue(freed, c) ELSE freed, limit)

(* VecDeque::retain: the collections that wait but c, in their order.         *)
Without(queue, c) ==
  LET kept[n \in 0..Len(queue)] ==
        IF n = 0 THEN <<>>
        ELSE IF queue[n] = c THEN kept[n - 1] ELSE Append(kept[n - 1], queue[n])
  IN kept[Len(queue)]

(* A mutant: the follow-up of a cancelled scan stays remembered.              *)
CancelKeepingDirty(S, c, limit) ==
  StartReady([S EXCEPT !.active = @ \ {c}, !.queuedSet = @ \ {c},
                       !.queued = Without(@, c)], limit)

Cancel(S, c, limit) ==
  StartReady([S EXCEPT !.active = @ \ {c}, !.dirty = @ \ {c}, !.queuedSet = @ \ {c},
                       !.queued = Without(@, c)], limit)

Pending(S, c) == c \in S.active \/ c \in S.queuedSet

-------------------------------------------------------------------------------
(* Futures *)

Running(c, stage) == work[c][stage] > 0

Spawn(rows, stage, S) ==
  [c \in Collections |-> IF c \in S THEN [rows[c] EXCEPT ![stage] = @ + 1] ELSE rows[c]]

Drop(rows, c, stage) == [rows EXCEPT ![c][stage] = @ - 1]

Advance(c, from, to) ==
  /\ Running(c, from)
  /\ work' = [work EXCEPT ![c][from] = @ - 1, ![c][to] = @ + 1]

FutureFails(c, from, to) ==
  /\ faults < MaxFaults
  /\ faults' = faults + 1
  /\ Advance(c, from, to)
  /\ UNCHANGED <<schedulers, supervision, quarantined, manual, unscanned,
                 changes, breaks, commands>>

(* The walk of a scan registers what changed, the preparation drafts it; the     *)
(* walk of a preflight registers only.                                        *)
ScanWalks(c) ==
  /\ Advance(c, "scan", "prepare")
  /\ unscanned' = unscanned \ {c}
  /\ UNCHANGED <<schedulers, supervision, quarantined, manual, bounds>>

(* A relink first quarantines the collection; the new folder may then be        *)
(* refused.                                                                   *)
Ends(c, from, to) ==
  /\ Advance(c, from, to)
  /\ UNCHANGED <<schedulers, supervision, quarantined, manual, unscanned, bounds>>

Futures(c) ==
  \/ ScanWalks(c) \/ Ends(c, "prepare", "scanned") \/ Ends(c, "preflight", "checked")
  \/ Ends(c, "quarantine", "withdrawn")
  \/ Ends(c, "relink", "relinked") \/ Ends(c, "relink", "relinkFailed")

Failures(c) ==
  \/ FutureFails(c, "scan", "scanFailed") \/ FutureFails(c, "prepare", "scanFailed")
  \/ FutureFails(c, "preflight", "checkFailed")
  \/ FutureFails(c, "quarantine", "withdrawFailed")
  \/ FutureFails(c, "relink", "relinkFailed")

-------------------------------------------------------------------------------
(* The handlers of the loop.  rows are the futures so far, with the one that    *)
(* just completed removed.                                                    *)

(* request_scan and request_preflight                                         *)
RequestScan(rows, c) ==
  LET r == Request(scans, c, MaxScans) IN
  /\ scans' = r.scheduler
  /\ work' = Spawn(rows, "scan", r.ready)

(* request_quarantine: asked for once, until a scan succeeds or it failed.      *)
RequestQuarantine(rows, c) ==
  /\ quarantined' = quarantined \union {c}
  /\ work' = IF c \in quarantined THEN rows ELSE Spawn(rows, "quarantine", {c})

Commanded == commands < MaxCommands /\ commands' = commands + 1

(* A change of a watched folder: a scan, which begins with a preflight, or a    *)
(* preflight beside the scan that runs or waits.                              *)
HandleChanged(c) ==
  LET scan == Request(scans, c, MaxScans)
      check == Request(preflights, c, MaxPreflights)
      rows == Spawn(work, "scan", scan.ready)
  IN
  /\ <<"changed", c>> \in notices
  /\ notices' = notices \ {<<"changed", c>>}
  /\ IF c \notin watchers THEN UNCHANGED <<schedulers, work>>
     ELSE /\ scans' = scan.scheduler
          /\ IF c \in scan.ready
             THEN work' = rows /\ UNCHANGED preflights
             ELSE /\ preflights' = check.scheduler
                  /\ work' = Spawn(rows, "preflight", check.ready)
  /\ UNCHANGED <<watchers, watching, quarantined, manual, unscanned, bounds>>

(* A mutant: nobody starts the scans that take the freed slots.                *)
CancelBothStartingPreflights(rows, c) ==
  LET scan == Cancel(scans, c, MaxScans)
      check == Cancel(preflights, c, MaxPreflights)
  IN [scans |-> scan.scheduler, preflights |-> check.scheduler,
      work |-> Spawn(rows, "preflight", check.ready)]

(* Both schedulers let the collection go, and others take its slots.           *)
CancelBoth(rows, c) ==
  LET scan == Cancel(scans, c, MaxScans)
      check == Cancel(preflights, c, MaxPreflights)
  IN [scans |-> scan.scheduler, preflights |-> check.scheduler,
      work |-> Spawn(Spawn(rows, "scan", scan.ready), "preflight", check.ready)]

(* The watcher of c stopped: the collection is withdrawn until it is watched    *)
(* and scanned again.                                                         *)
HandleFailed(c) ==
  LET cancelled == CancelBoth(work, c) IN
  /\ <<"failed", c>> \in notices
  /\ notices' = notices \ {<<"failed", c>>}
  /\ watchers' = watchers \ {c} /\ watching' = watching \ {c}
  /\ manual' = manual \ {c}
  /\ scans' = cancelled.scans /\ preflights' = cancelled.preflights
  /\ RequestQuarantine(cancelled.work, c)
  /\ UNCHANGED <<unscanned, bounds>>

(* One collection of the watcher_retry tick: the new watcher starts or not.    *)
RetryWatcher(c) ==
  /\ c \notin watchers
  /\ \/ /\ watchers' = watchers \union {c} /\ watching' = watching \union {c}
        /\ RequestScan(work, c)
        /\ UNCHANGED <<quarantined, faults>>
     \/ /\ faults < MaxFaults /\ faults' = faults + 1
        /\ RequestQuarantine(work, c)
        /\ UNCHANGED <<watchers, watching, scans>>
  /\ UNCHANGED <<preflights, notices, manual, unscanned, changes, breaks, commands>>

(* One collection of the periodic tick: request_if_idle.                       *)
PeriodicScan(c) ==
  /\ c \in watchers /\ ~Pending(scans, c)
  /\ RequestScan(work, c)
  /\ UNCHANGED <<preflights, supervision, quarantined, manual, unscanned, bounds>>

RescanCollection(c) ==
  /\ Commanded
  /\ manual' = manual \union {c}
  /\ RequestScan(work, c)
  /\ UNCHANGED <<preflights, supervision, quarantined, unscanned, changes, breaks,
                 faults>>

RelinkCollection(c) ==
  LET cancelled == CancelBoth(work, c) IN
  /\ Commanded
  /\ watchers' = watchers \ {c} /\ watching' = watching \ {c}
  /\ scans' = cancelled.scans /\ preflights' = cancelled.preflights
  /\ work' = Spawn(cancelled.work, "relink", {c})
  /\ UNCHANGED <<notices, quarantined, manual, unscanned, changes, breaks, faults>>

(* All of the new folder is unknown; its watcher starts or not.  The retry timer *)
(* may have watched the old folder again meanwhile.                           *)
RelinkEnds(c) ==
  /\ \/ /\ Running(c, "relinked")
        /\ unscanned' = unscanned \union {c}
        /\ \/ /\ watchers' = watchers \union {c} /\ watching' = watching \union {c}
              /\ RequestScan(Drop(work, c, "relinked"), c)
              /\ UNCHANGED faults
           \/ /\ faults < MaxFaults /\ faults' = faults + 1
              /\ work' = Drop(work, c, "relinked")
              /\ UNCHANGED <<scans, watchers, watching>>
     \/ /\ Running(c, "relinkFailed")
        /\ work' = Drop(work, c, "relinkFailed")
        /\ UNCHANGED <<scans, watchers, watching, unscanned, faults>>
  /\ UNCHANGED <<preflights, notices, quarantined, manual, changes, breaks,
                 commands>>

(* A preflight that ended asks for one more scan, which sees what a racing scan *)
(* may have missed.  Without a watcher the collection is withdrawn.            *)
PreflightEnds(c, stage) ==
  LET rows == Drop(work, c, stage)
      scan == Request(scans, c, MaxScans)
      check == Finish(preflights, c, MaxPreflights)
      unsafe == stage = "checkFailed" \/ c \notin watchers
      scanned == IF c \in watchers THEN Spawn(rows, "scan", scan.ready) ELSE rows
  IN
  /\ Running(c, stage)
  /\ preflights' = check.scheduler
  /\ scans' = IF c \in watchers THEN scan.scheduler ELSE scans
  /\ quarantined' = IF unsafe THEN quarantined \union {c} ELSE quarantined
  /\ work' = Spawn(Spawn(scanned, "preflight", check.ready), "quarantine",
                   IF unsafe /\ c \notin quarantined THEN {c} ELSE {})
  /\ UNCHANGED <<supervision, manual, unscanned, bounds>>

(* A mutant: only a scan that succeeds answers the manual update.             *)
ScanEndsAnsweringSuccess(c, stage) ==
  LET next == Finish(scans, c, MaxScans)
      unsafe == c \notin watchers \/ stage = "scanFailed"
      rows == Spawn(Drop(work, c, stage), "scan", next.ready)
  IN
  /\ Running(c, stage)
  /\ scans' = next.scheduler
  /\ manual' = IF ~unsafe /\ ~Pending(next.scheduler, c) THEN manual \ {c} ELSE manual
  /\ IF unsafe THEN RequestQuarantine(rows, c)
               ELSE quarantined' = quarantined \ {c} /\ work' = rows
  /\ UNCHANGED <<preflights, supervision, unscanned, bounds>>

(* A manual update ends with the last scan that its collection waits for.      *)
ScanEnds(c, stage) ==
  LET next == Finish(scans, c, MaxScans)
      lost == c \notin watchers
      unsafe == lost \/ stage = "scanFailed"
      rows == Spawn(Drop(work, c, stage), "scan", next.ready)
  IN
  /\ Running(c, stage)
  /\ scans' = next.scheduler
  /\ manual' = IF unsafe \/ ~Pending(next.scheduler, c) THEN manual \ {c} ELSE manual
  /\ IF unsafe THEN RequestQuarantine(rows, c)
               ELSE quarantined' = quarantined \ {c} /\ work' = rows
  /\ UNCHANGED <<preflights, supervision, unscanned, bounds>>

QuarantineEnds(c) ==
  /\ \/ /\ Running(c, "withdrawn")
        /\ work' = Drop(work, c, "withdrawn")
        /\ UNCHANGED quarantined
     \/ /\ Running(c, "withdrawFailed")
        /\ work' = Drop(work, c, "withdrawFailed")
        /\ quarantined' = quarantined \ {c}
  /\ UNCHANGED <<schedulers, supervision, manual, unscanned, bounds>>

Handlers(c) ==
  \/ HandleChanged(c) \/ HandleFailed(c)
  \/ RelinkEnds(c)
  \/ \E stage \in {"checked", "checkFailed"} : PreflightEnds(c, stage)
  \/ \E stage \in {"scanned", "scanFailed"} : ScanEnds(c, stage)
  \/ QuarantineEnds(c)

-------------------------------------------------------------------------------
(* The unscanned, their watchers and the person *)

ChangeFolder(c) ==
  /\ changes < MaxChanges /\ changes' = changes + 1
  /\ unscanned' = unscanned \union {c}
  /\ notices' = IF c \in watching THEN notices \union {<<"changed", c>>} ELSE notices
  /\ UNCHANGED <<schedulers, work, watchers, watching, quarantined, manual,
                 breaks, commands, faults>>

BreakWatcher(c) ==
  /\ c \in watching
  /\ breaks < MaxBreaks /\ breaks' = breaks + 1
  /\ watching' = watching \ {c}
  /\ notices' = notices \union {<<"failed", c>>}
  /\ UNCHANGED <<schedulers, work, watchers, quarantined, manual, unscanned,
                 changes, commands, faults>>

Next ==
  \E c \in Collections :
    \/ Futures(c) \/ Failures(c) \/ Handlers(c)
    \/ RetryWatcher(c) \/ PeriodicScan(c)
    \/ RescanCollection(c) \/ RelinkCollection(c)
    \/ ChangeFolder(c) \/ BreakWatcher(c)

Spec == Init /\ [][Next]_vars

(* Every future ends, every event is handled, and the retry timer keeps       *)
(* ticking.  Nothing is asked of the periodic timer.                          *)
FairSpec ==
  /\ Spec
  /\ \A c \in Collections :
       /\ WF_vars(Futures(c))
       /\ WF_vars(Handlers(c))
       /\ WF_vars(RetryWatcher(c))

-------------------------------------------------------------------------------
(* Properties *)

SchedulerIsSound(S, limit) ==
  /\ S.queuedSet = ToSet(S.queued)
  /\ Len(S.queued) = Cardinality(S.queuedSet)
  /\ S.active \intersect S.queuedSet = {}
  /\ S.dirty \subseteq S.active
  /\ Cardinality(S.active) <= limit
  /\ S.queued # <<>> => Cardinality(S.active) = limit

(* The four containers of a scheduler agree: nobody waits twice, or waits while *)
(* it is active or a slot is free, and only an active collection owes a         *)
(* follow-up.                                                                 *)
SchedulersAreSound ==
  SchedulerIsSound(scans, MaxScans) /\ SchedulerIsSound(preflights, MaxPreflights)

(* An active collection always has a future that will free its slot: no slot is *)
(* lost, whatever was cancelled.                                              *)
SlotsAreReturned ==
  \A c \in Collections :
    /\ c \in scans.active => \E stage \in {"scan", "prepare", "scanned", "scanFailed"} :
                               Running(c, stage)
    /\ c \in preflights.active => \E stage \in {"preflight", "checked", "checkFailed"} :
                               Running(c, stage)

(* A change that the watcher reports is walked by a scan, even when it came      *)
(* during a scan (worker.rs:1142), unless the watcher is lost or a pass fails   *)
(* first; the periodic timer is not needed for it.                            *)
ChangesAreScanned ==
  \A c \in Collections :
    (c \in unscanned /\ c \in watching) ~>
      (c \notin unscanned \/ c \notin watching \/ faults > 0)

(* A manual update ends, through cancellations, relinks and failed scans: the  *)
(* person is not left waiting for its summary.                                *)
ManualUpdatesEnd == \A c \in Collections : c \in manual ~> c \notin manual
================================================================================
