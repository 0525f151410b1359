--------------------------- MODULE PublicFederation ---------------------------
(***************************************************************************)
(* One wiki published on the Internet: its owner, the federation indexes   *)
(* that list it, and one reader.                                           *)
(*                                                                         *)
(* The owner announces the wiki with numbered manifests that expire, or    *)
(* with numbered tombstones.  Two tasks announce it, a synchronization     *)
(* (after a change of policy, a scan, a publication) and the renewal task  *)
(* of the public runtime; one semaphore orders their preparation and       *)
(* nothing orders their deliveries.  A reader finds a manifest in an       *)
(* index and asks the owner, who answers under a disclosure lease that no  *)
(* change of the database can cross.                                       *)
(***************************************************************************)
EXTENDS Naturals, FiniteSets

CONSTANTS
  Indexes,      \* federation indexes, which are also the relays of the owner
  MaxSequence,  \* bound on manifest sequences
  MaxContent,   \* bound on versions of the published content
  MaxLosses,    \* bound on lost or late messages and on crashes of the owner
  MaxBlocks,    \* bound on the times the reader blocks or unblocks the owner
  Kinds         \* what the reader of the instance does

ASSUME FederationBounds ==
  /\ {MaxSequence, MaxContent, MaxLosses, MaxBlocks} \subseteq Nat
  /\ IsFiniteSet(Indexes) /\ Kinds \subseteq {"search", "explore", "browse"}

VARIABLES
  policy,    \* internet_public
  sequence,  \* manifest_sequence of the profile; 0: there is no profile
  pending,   \* withdrawal_pending
  content,   \* version of the published concepts; 0: there are none
  versions,  \* versions of the content so far
  runtime,   \* "off", "running", or "dead": cancelled by its own renewal task
  ready,     \* indexes where the runtime holds a relay reservation
  task,      \* the two announcers
  wire,      \* announcements on their way to an index
  entry,     \* row of the wiki in every index
  expired,   \* manifests up to this sequence have expired
  cache,     \* newest manifest the reader knows
  blocked,   \* the reader blocks this publisher
  ask,       \* request of the reader, as far as it got
  losses, blocks

record == <<policy, sequence, pending>>
published == <<content, versions>>
network == <<runtime, ready>>
remote == <<entry, expired>>
reader == <<cache, blocked, ask, blocks>>
federationVars ==
  <<record, published, network, task, wire, remote, reader, losses>>

Announcers == {"sync", "renewal"}
Sequences == 0..MaxSequence
Contents == 0..MaxContent

Idle == [pc |-> "idle", public |-> FALSE, relays |-> {}, kind |-> "none",
         seq |-> 0, awaited |-> {}, accepted |-> FALSE]
NoManifest == [seq |-> 0, content |-> 0]
NoRequest == [pc |-> "idle", kind |-> "none", seq |-> 0, content |-> 0, found |-> 0,
              revision |-> 0, shown |-> 0]

Init ==
  /\ policy = FALSE /\ sequence = 0 /\ pending = FALSE
  /\ content = 0 /\ versions = 0
  /\ runtime = "off" /\ ready = {}
  /\ task = [a \in Announcers |-> Idle] /\ wire = {}
  /\ entry = [i \in Indexes |-> [seq |-> 0, live |-> FALSE, content |-> 0]]
  /\ expired = 0
  /\ cache = NoManifest /\ blocked = FALSE /\ ask = NoRequest
  /\ losses = 0 /\ blocks = 0

-------------------------------------------------------------------------------
(* Every use of the database but the last look of an answer takes the mutation *)
(* guard of the disclosure gate, which waits for the lease of an answer.       *)
NoGate == TRUE                  \* a mutant
GateIsOpen == ask.pc # "leased"

(* public_collections_needing_sync                                            *)
NeedsSync == policy \/ pending

Loss == losses < MaxLosses /\ losses' = losses + 1

(* A mutant: a wiki published again keeps its withdrawal pending.              *)
SetPolicyKeepingPending ==
  /\ GateIsOpen /\ sequence < MaxSequence
  /\ policy' = ~policy
  /\ sequence' = sequence + 1
  /\ pending' = (pending \/ policy)
  /\ UNCHANGED <<published, network, task, wire, remote, reader, losses>>

(* update_collection_policy: one transaction.                                  *)
SetPolicy ==
  /\ GateIsOpen /\ sequence < MaxSequence
  /\ policy' = ~policy
  /\ sequence' = sequence + 1
  /\ pending' = policy
  /\ UNCHANGED <<published, network, task, wire, remote, reader, losses>>

(* A publication, a withdrawal, or both in one scan; a preflight also bumps the *)
(* sequence, as does a change of the profile.                                 *)
Publish ==
  /\ GateIsOpen /\ versions < MaxContent
  /\ versions' = versions + 1
  /\ content' \in {0, versions + 1} \ {content}
  /\ UNCHANGED <<record, network, task, wire, remote, reader, losses>>

Bumped == IF policy THEN sequence + 1 ELSE sequence

BumpProfile ==
  /\ GateIsOpen /\ policy /\ sequence < MaxSequence
  /\ sequence' = Bumped
  /\ UNCHANGED <<policy, pending, published, network, task, wire, remote, reader, losses>>

-------------------------------------------------------------------------------
(* The public runtime                                                         *)

(* Stopping the runtime cancels what its renewal task is sending.             *)
Stop ==
  /\ ready' = {}
  /\ task' = [task EXCEPT !["renewal"] = Idle]

Reconcile ==
  /\ GateIsOpen
  /\ \/ /\ NeedsSync /\ runtime = "off"
        /\ runtime' = "running" /\ UNCHANGED <<ready, task>>
     \/ /\ ~NeedsSync /\ runtime # "off"
        /\ task["renewal"].pc \in {"idle", "waiting", "sending"}
        /\ runtime' = "off" /\ Stop
  /\ UNCHANGED <<record, published, wire, remote, reader, losses>>

(* restart_public_network, when the configured indexes change.                *)
RestartNetwork ==
  /\ GateIsOpen /\ runtime # "off"
  /\ task["renewal"].pc \in {"idle", "waiting", "sending"}
  /\ runtime' = IF NeedsSync THEN "running" ELSE "off"
  /\ Stop
  /\ UNCHANGED <<record, published, wire, remote, reader, losses>>

(* A relay grants a reservation, or closes it and is retried.                  *)
ListenerReady(i) ==
  /\ runtime = "running" /\ i \notin ready
  /\ ready' = ready \union {i}
  /\ UNCHANGED <<record, published, runtime, task, wire, remote, reader, losses>>

ListenerClosed(i) ==
  /\ i \in ready
  /\ ready' = ready \ {i}
  /\ UNCHANGED <<record, published, runtime, task, wire, remote, reader, losses>>

(* The process of the owner dies and starts again.                             *)
Crash ==
  /\ Loss
  /\ runtime' = "off" /\ ready' = {}
  /\ task' = [a \in Announcers |-> Idle]
  /\ ask' = IF ask.pc \in {"searched", "leased"} THEN NoRequest ELSE ask
  /\ UNCHANGED <<record, published, wire, remote, cache, blocked, blocks>>

-------------------------------------------------------------------------------
(* Preparation of an announcement: a bump and four reads of the database, one  *)
(* announcer at a time.                                                       *)

Preparing(a) == task[a].pc \in {"bumped", "collected", "profiled", "measured"}
Uncoordinated == TRUE           \* a mutant: no semaphore
Coordinated == \A a \in Announcers : ~Preparing(a)
Step(a, new) == task' = [task EXCEPT ![a] = new]
OnlyTask == UNCHANGED <<record, published, network, wire, remote, reader, losses>>

(* The renewal task looks at the relays before it waits for the semaphore.      *)
Wake(a) ==
  /\ task[a].pc = "idle"
  /\ a = "renewal" => runtime = "running" /\ NeedsSync
  /\ Step(a, [Idle EXCEPT !.pc = "waiting", !.relays = ready])
  /\ OnlyTask

Prepare(a) ==
  /\ task[a].pc = "waiting" /\ Coordinated /\ GateIsOpen
  /\ sequence > 0
  /\ policy => sequence < MaxSequence
  /\ sequence' = Bumped
  /\ Step(a, [task[a] EXCEPT !.pc = "bumped",
                             !.relays = IF a = "sync" THEN ready ELSE @])
  /\ UNCHANGED <<policy, pending, published, network, wire, remote, reader, losses>>

(* Nothing to announce, or the bound on sequences.                            *)
GiveUp(a) ==
  /\ task[a].pc = "waiting"
  /\ sequence = 0 \/ (policy /\ sequence = MaxSequence)
  /\ Step(a, Idle)
  /\ OnlyTask

ReadCollection(a) ==
  /\ task[a].pc = "bumped" /\ GateIsOpen
  /\ Step(a, [task[a] EXCEPT !.pc = "collected", !.public = policy])
  /\ OnlyTask

Announce(a, kind, seq, c) ==
  LET message(i) == [from |-> a, to |-> i, kind |-> kind, seq |-> seq, content |-> c]
  IN /\ Step(a, [Idle EXCEPT !.pc = "sending", !.kind = kind, !.seq = seq,
                             !.awaited = Indexes])
     /\ wire' = wire \union {message(i) : i \in Indexes}
     /\ UNCHANGED <<record, published, network, remote, reader, losses>>

(* A private wiki is announced by a tombstone of the sequence of its profile.  *)
ReadProfile(a) ==
  /\ task[a].pc = "collected" /\ GateIsOpen
  /\ IF task[a].public
     THEN Step(a, [task[a] EXCEPT !.pc = "profiled", !.public = FALSE, !.seq = sequence])
          /\ OnlyTask
     ELSE Announce(a, "tombstone", sequence, 0)

(* public_manifest_material refuses a wiki that is private by now.  A public   *)
(* one without concepts or without a relay is announced by a tombstone.        *)
ReadMaterial(a) ==
  /\ task[a].pc = "profiled" /\ GateIsOpen
  /\ CASE ~policy -> Step(a, Idle) /\ OnlyTask
       [] policy /\ (content = 0 \/ task[a].relays = {}) ->
            Announce(a, "tombstone", task[a].seq, 0)
       [] OTHER -> Step(a, [task[a] EXCEPT !.pc = "measured", !.relays = {}]) /\ OnlyTask

(* The fingerprint of the published concepts is read last; it must exist.      *)
ReadFingerprint(a) ==
  /\ task[a].pc = "measured" /\ GateIsOpen
  /\ IF policy /\ content # 0 THEN Announce(a, "manifest", task[a].seq, content)
                              ELSE Step(a, Idle) /\ OnlyTask

-------------------------------------------------------------------------------
(* Delivery of an announcement to the indexes (federation-index)               *)

Listed(i) == entry[i].live /\ entry[i].seq > expired

(* purge_catalog_entries keeps the row and its sequence.                       *)
Purged(i) == [entry[i] EXCEPT !.live = Listed(i)]

(* verify_manifest refuses an expired one; reject_stale compares sequences.     *)
Accepts(i, m) ==
  /\ m.kind = "manifest" => m.seq > expired
  /\ m.seq > entry[i].seq

Stored(m) == [seq |-> m.seq, live |-> m.kind = "manifest", content |-> m.content]

Expects(m) ==
  /\ task[m.from].pc = "sending" /\ task[m.from].seq = m.seq
  /\ task[m.from].kind = m.kind /\ m.to \in task[m.from].awaited

Answered(m, ok) ==
  IF Expects(m)
  THEN [task EXCEPT ![m.from].awaited = @ \ {m.to}, ![m.from].accepted = @ \/ ok]
  ELSE task

(* The index stores or refuses it, and the answer may be lost on the way back. *)
Deliver(m) ==
  /\ wire' = wire \ {m}
  /\ entry' = [entry EXCEPT ![m.to] = IF Accepts(m.to, m) THEN Stored(m) ELSE Purged(m.to)]
  /\ \/ task' = Answered(m, Accepts(m.to, m)) /\ UNCHANGED losses
     \/ Expects(m) /\ task' = Answered(m, FALSE) /\ Loss
  /\ UNCHANGED <<record, published, network, expired, reader>>

(* The request is lost, or the index is busy or full.                          *)
Lose(m) ==
  /\ Loss
  /\ wire' = wire \ {m}
  /\ task' = Answered(m, FALSE)
  /\ UNCHANGED <<record, published, network, remote, reader>>

(* The deadline of the announcer; what it sent may still arrive.               *)
Deadline(a) ==
  /\ task[a].pc = "sending" /\ task[a].awaited # {}
  /\ Loss
  /\ Step(a, [task[a] EXCEPT !.awaited = {}])
  /\ UNCHANGED <<record, published, network, wire, remote, reader>>

Delivered(a) == task[a].pc = "sending" /\ task[a].awaited = {}

Conclude(a) ==
  /\ Delivered(a) /\ ~(task[a].kind = "tombstone" /\ task[a].accepted)
  /\ Step(a, Idle)
  /\ OnlyTask

(* complete_public_withdrawal: an accepted tombstone is the receipt of the      *)
(* withdrawal if the wiki is private by now.                                  *)
Receipt(a) ==
  /\ Delivered(a) /\ task[a].kind = "tombstone" /\ task[a].accepted /\ GateIsOpen
  /\ pending' = (pending /\ policy)
  /\ Step(a, [Idle EXCEPT !.pc = IF a = "renewal" THEN "received" ELSE "idle"])
  /\ UNCHANGED <<policy, sequence, published, network, wire, remote, reader, losses>>

(* The renewal task stops the runtime when nothing is left to announce.        *)
Settle ==
  /\ task["renewal"].pc = "received" /\ GateIsOpen
  /\ Step("renewal", [Idle EXCEPT !.pc = IF NeedsSync THEN "idle" ELSE "stopping"])
  /\ OnlyTask

StopRuntime ==
  /\ task["renewal"].pc = "stopping"
  /\ runtime' = "dead" /\ Stop
  /\ UNCHANGED <<record, published, wire, remote, reader, losses>>

Expire ==
  /\ expired < sequence
  /\ expired' = expired + 1
  /\ UNCHANGED <<record, published, network, task, wire, entry, reader, losses>>

-------------------------------------------------------------------------------
(* The reader: a search queries some indexes that answer in time and asks the  *)
(* owner named by the newest manifest; a browse asks with the cached one.      *)

Newest(found) == CHOOSE m \in found : \A n \in found : n.seq <= m.seq
Newer(m) == IF cache.seq > expired /\ cache.seq >= m.seq THEN cache ELSE m
OnlyReader == UNCHANGED <<record, published, network, task, wire, remote, losses>>

Found(reached) ==
  {[seq |-> entry[i].seq, content |-> entry[i].content] : i \in {j \in reached : Listed(j)}}

Explore(reached) ==
  /\ "explore" \in Kinds
  /\ ask = NoRequest /\ ~blocked /\ Found(reached) # {}
  /\ cache' = Newer(Newest(Found(reached)))
  /\ UNCHANGED <<blocked, ask, blocks>>
  /\ OnlyReader

Query(reached) ==
  LET manifest == Newest(Found(reached))
  IN /\ "search" \in Kinds
     /\ ask = NoRequest /\ ~blocked /\ Found(reached) # {}
     /\ cache' = Newer(manifest)
     /\ ask' = [NoRequest EXCEPT !.pc = "asked", !.kind = "search",
                                !.seq = manifest.seq, !.content = manifest.content]
     /\ UNCHANGED <<blocked, blocks>>
     /\ OnlyReader

Browse ==
  /\ "browse" \in Kinds
  /\ ask = NoRequest /\ ~blocked /\ cache.seq > expired
  /\ ask' = [NoRequest EXCEPT !.pc = "searched", !.kind = "browse", !.seq = cache.seq]
  /\ UNCHANGED <<cache, blocked, blocks>>
  /\ OnlyReader

(* The owner ranks the evidence of the moment.                                *)
Search ==
  /\ ask.pc = "asked" /\ GateIsOpen
  /\ ask' = [ask EXCEPT !.pc = "searched", !.found = IF policy THEN content ELSE 0]
  /\ UNCHANGED <<cache, blocked, blocks>>
  /\ OnlyReader

(* revalidate_public_targets, under the lease: a search answers for the        *)
(* content of the manifest, a browse for the content of the moment.           *)
IsCurrent ==
  /\ policy /\ content # 0
  /\ ask.kind = "search" => sequence >= ask.seq /\ content = ask.content
Lease ==
  /\ ask.pc = "searched" /\ IsCurrent
  /\ ask' = [ask EXCEPT !.pc = "leased", !.revision = sequence, !.found = 0,
               !.shown = IF ask.kind = "browse" \/ ask.found = content THEN content ELSE 0]
  /\ UNCHANGED <<cache, blocked, blocks>>
  /\ OnlyReader

(* The answer is handed to the transport and the lease released.               *)
HandOver ==
  /\ ask.pc = "leased"
  /\ ask' = [ask EXCEPT !.pc = "answered", !.content = 0, !.shown = 0]
  /\ UNCHANGED <<cache, blocked, blocks>>
  /\ OnlyReader

(* The owner refuses, or the reader stops waiting.                             *)
Fail ==
  /\ ask.pc \in {"asked", "searched", "answered"}
  /\ ask' = NoRequest
  /\ UNCHANGED <<cache, blocked, blocks>>
  /\ OnlyReader

(* revisions_are_current: an answer older than the manifest is not accepted.    *)
(* A page goes to its caller at once, hits wait for the other answers.         *)
Accept ==
  /\ ask.pc = "answered" /\ ~blocked /\ ask.revision >= ask.seq
  /\ ask' = [NoRequest EXCEPT !.pc = IF ask.kind = "browse" THEN "returned" ELSE "accepted"]
  /\ UNCHANGED <<cache, blocked, blocks>>
  /\ OnlyReader

(* A mutant: the block list is not read again.                                 *)
ReturnAccepted ==
  /\ ask.pc = "accepted"
  /\ ask' = [ask EXCEPT !.pc = "returned"]
  /\ UNCHANGED <<cache, blocked, blocks>>
  /\ OnlyReader

(* retain_unblocked_sources once more, when the result is put together.        *)
Return ==
  /\ ask.pc = "accepted"
  /\ ask' = IF blocked THEN NoRequest ELSE [ask EXCEPT !.pc = "returned"]
  /\ UNCHANGED <<cache, blocked, blocks>>
  /\ OnlyReader

Forget ==
  /\ ask.pc = "returned"
  /\ ask' = NoRequest
  /\ UNCHANGED <<cache, blocked, blocks>>
  /\ OnlyReader

Block ==
  /\ blocks < MaxBlocks /\ blocks' = blocks + 1
  /\ blocked' = ~blocked
  /\ UNCHANGED <<cache, ask>>
  /\ OnlyReader

-------------------------------------------------------------------------------
Progress(a) ==
  \/ Prepare(a) \/ GiveUp(a) \/ ReadCollection(a) \/ ReadProfile(a) \/ ReadMaterial(a)
  \/ ReadFingerprint(a) \/ Conclude(a) \/ Receipt(a)

Transport == \E m \in wire : Deliver(m)

Owner ==
  \/ SetPolicy \/ Publish \/ BumpProfile
  \/ Reconcile \/ RestartNetwork \/ Crash \/ Settle \/ StopRuntime
  \/ \E i \in Indexes : ListenerReady(i) \/ ListenerClosed(i)
  \/ \E a \in Announcers : Wake(a) \/ Progress(a) \/ Deadline(a)

Reader ==
  \/ \E reached \in SUBSET Indexes : Explore(reached) \/ Query(reached)
  \/ Browse \/ Search \/ Lease \/ HandOver \/ Fail \/ Accept \/ Return \/ Forget \/ Block

Next == Owner \/ Reader \/ Transport \/ Expire \/ (\E m \in wire : Lose(m))

Spec == Init /\ [][Next]_federationVars

(* The announcers run on, messages arrive, the worker reconciles the runtime   *)
(* after every announcement, the renewal timer ticks while it runs, and an     *)
(* answer is handed over.                                                     *)
FairSpec ==
  /\ Spec
  /\ \A a \in Announcers : SF_federationVars(Progress(a))
  /\ WF_federationVars(Transport) /\ WF_federationVars(Settle \/ StopRuntime)
  /\ SF_federationVars(Reconcile) /\ WF_federationVars(Wake("renewal"))
  /\ WF_federationVars(HandOver)

-------------------------------------------------------------------------------
(* The profile, the runtime, the rows of the indexes and the request have the  *)
(* shapes of their types, and nothing is numbered beyond the profile.          *)
FederationTypeOK ==
  /\ policy \in BOOLEAN /\ pending \in BOOLEAN /\ sequence \in Sequences
  /\ (policy => ~pending) /\ (sequence = 0 => ~policy)
  /\ content \in Contents /\ versions \in Contents /\ content <= versions
  /\ runtime \in {"off", "running", "dead"} /\ ready \subseteq Indexes
  /\ runtime # "running" => ready = {}
  /\ \A m \in wire : m.seq \in 1..sequence
  /\ \A i \in Indexes : entry[i].seq <= sequence
  /\ cache.seq <= sequence /\ ask.revision <= sequence
  /\ \A a, b \in Announcers : Preparing(a) /\ Preparing(b) => a = b

(* A sequence names one announcement: an index keeps the first of a sequence    *)
(* and refuses the others, so two announcements of one sequence would leave    *)
(* the indexes apart.  (services.rs prepare_public_announcement,               *)
(* federation-index reject_stale)                                             *)
Manifests ==
  {[seq |-> m.seq, content |-> m.content] : m \in wire}
  \union {[seq |-> entry[i].seq, content |-> entry[i].content] :
            i \in {j \in Indexes : Listed(j)}}
  \union (IF cache.seq > expired THEN {cache} ELSE {})
AnnouncementsAreDistinguishable ==
  \A m, n \in Manifests : m.seq = n.seq => m = n

(* What the owner hands to a reader is public and published at that moment, in *)
(* the version the manifest of a search named, although policy and content      *)
(* change freely between search, validation and transport.  (services.rs        *)
(* revalidate_public_targets, airwiki-types DisclosureGate)                    *)
DisclosedIsPublic ==
  [][ask.pc = "leased" /\ ask'.pc = "answered" =>
       /\ policy /\ ask.shown \in {content, 0}
       /\ ask.kind = "search" => content = ask.content]_federationVars

(* A publisher that was blocked while its answer was on the way contributes    *)
(* nothing to the result.  (public_reader.rs search_inner)                     *)
BlockedIsSilent ==
  [][ask.pc # "returned" /\ ask'.pc = "returned" => ~blocked]_federationVars

(* "The withdrawal stays pending across restarts until at least one configured *)
(* catalog accepts it" (docs/okf-v02-profile.md:31): once one has accepted it, *)
(* it does not stay pending forever.                                          *)
Withdrawn == pending /\ \E i \in Indexes : entry[i].seq = sequence /\ ~entry[i].live
AcceptedWithdrawalsEnd == Withdrawn ~> ~pending
================================================================================
