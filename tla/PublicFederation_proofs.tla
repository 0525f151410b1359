------------------------- MODULE PublicFederation_proofs -------------------------
(***************************************************************************)
(* Proofs about PublicFederation, for every set of indexes, every kind of  *)
(* request and every bound on sequences, contents, losses and blocks.      *)
(***************************************************************************)
EXTENDS PublicFederation, TLAPS, WellFoundedInduction

-------------------------------------------------------------------------------
(* The types of the records, of the announcers and of the request, and the     *)
(* bounds that sequences and contents keep among themselves.                   *)
Works ==
  [pc : {"idle", "waiting", "bumped", "collected", "profiled", "measured", "sending",
         "received", "stopping"},
   public : BOOLEAN, relays : SUBSET Indexes, kind : {"none", "manifest", "tombstone"},
   seq : Sequences, awaited : SUBSET Indexes, accepted : BOOLEAN]
Messages ==
  [from : Announcers, to : Indexes, kind : {"manifest", "tombstone"}, seq : Sequences,
   content : Contents]
Entries == [seq : Sequences, live : BOOLEAN, content : Contents]
Caches == [seq : Sequences, content : Contents]
Requests ==
  [pc : {"idle", "asked", "searched", "leased", "answered", "accepted", "returned"},
   kind : {"none", "search", "browse"}, seq : Sequences, content : Contents,
   found : Contents, revision : Sequences, shown : Contents]

ProfileTypes ==
  /\ policy \in BOOLEAN /\ pending \in BOOLEAN /\ sequence \in Sequences
  /\ policy => ~pending
  /\ sequence = 0 => ~policy
  /\ content \in Contents /\ versions \in Contents /\ content <= versions
  /\ expired \in Nat
RuntimeTypes ==
  /\ runtime \in {"off", "running", "dead"} /\ ready \subseteq Indexes
  /\ runtime # "running" => ready = {}
TaskTypes == task \in [Announcers -> Works]
OnePrepares == \A a, b \in Announcers : Preparing(a) /\ Preparing(b) => a = b
Numbered ==
  \A a \in Announcers :
    /\ Preparing(a) => sequence > 0
    /\ task[a].pc \in {"profiled", "measured"} => task[a].seq \in 1 .. sequence
WireTypes == wire \subseteq Messages /\ \A m \in wire : m.seq \in 1 .. sequence
EntryTypes == entry \in [Indexes -> Entries] /\ \A i \in Indexes : entry[i].seq <= sequence
ReaderTypes ==
  /\ cache \in Caches /\ cache.seq <= sequence
  /\ ask \in Requests /\ ask.revision <= sequence /\ blocked \in BOOLEAN

FederationTypes ==
  /\ ProfileTypes /\ RuntimeTypes /\ TaskTypes /\ OnePrepares /\ Numbered /\ WireTypes
  /\ EntryTypes /\ ReaderTypes

(* Every nonempty set of natural numbers has a least one.                      *)
LEMMA LeastOf ==
  ASSUME NEW T, T \subseteq Nat, T # {}
  PROVE  \E x \in T : \A y \in T : ~(y < x)
<1> DEFINE R == {ss \in Nat \X Nat : ss[1] < ss[2]}
<1>1. IsWellFoundedOn(R, Nat)
  BY NatLessThanWellFounded DEF OpToRel
<1>2. \E x \in T : \A y \in T : ~(<<y, x>> \in R)
  <2> HIDE DEF R
  <2> QED
    BY <1>1, WFMin
<1>3. \A x, y \in Nat : y < x => <<y, x>> \in R
  <2> SUFFICES ASSUME NEW x \in Nat, NEW y \in Nat, y < x PROVE <<y, x>> \in R
    OBVIOUS
  <2>1. <<y, x>> \in Nat \X Nat /\ <<y, x>>[1] < <<y, x>>[2]
    OBVIOUS
  <2> QED
    BY <2>1, Zenon
<1> HIDE DEF R
<1> QED
  BY <1>2, <1>3, Zenon

(* Of some listed manifests one has the largest sequence.                      *)
LEMMA NewestExists ==
  ASSUME NEW found, found # {}, \A m \in found : m.seq \in Sequences
  PROVE  Newest(found) \in found
<1> DEFINE Below == {MaxSequence - m.seq : m \in found}
<1>1. MaxSequence \in Nat
  BY FederationBounds
<1>2. Below \subseteq Nat /\ Below # {}
  BY <1>1 DEF Sequences
<1>3. PICK x \in Below : \A y \in Below : ~(y < x)
  <2> HIDE DEF Below
  <2> QED
    BY <1>2, LeastOf
<1>4. PICK m \in found : x = MaxSequence - m.seq
  OBVIOUS
<1>5. \A n \in found : n.seq <= m.seq
  <2> SUFFICES ASSUME NEW n \in found PROVE n.seq <= m.seq
    OBVIOUS
  <2>1. MaxSequence - n.seq \in Below
    OBVIOUS
  <2>2. ~(MaxSequence - n.seq < MaxSequence - m.seq)
    BY <1>3, <1>4, <2>1
  <2>3. n.seq \in Nat /\ m.seq \in Nat
    BY DEF Sequences
  <2> QED
    BY <1>1, <2>2, <2>3
<1> QED
  BY <1>5 DEF Newest

(* A step that changes what one announcer does, and nothing else.              *)
LEMMA WorkTypes ==
  ASSUME FederationTypes, NEW a \in Announcers, NEW w \in Works, Step(a, w), OnlyTask,
         w.pc \in {"bumped", "collected", "profiled", "measured"} => Preparing(a),
         w.pc \in {"profiled", "measured"} => w.seq \in 1 .. sequence
  PROVE  FederationTypes'
<1>1. TaskTypes'
  BY DEF FederationTypes, TaskTypes, Step
<1>2. /\ \A b \in Announcers : b # a => task'[b] = task[b]
      /\ task'[a] = w
  BY DEF FederationTypes, TaskTypes, Step
<1>3. \A b \in Announcers : Preparing(b)' => Preparing(b)
  BY <1>2 DEF Preparing
<1>4. OnePrepares'
  BY <1>3 DEF FederationTypes, OnePrepares
<1>5. sequence' = sequence
  BY DEF OnlyTask, record
<1>6. Numbered'
  <2> SUFFICES ASSUME NEW b \in Announcers
               PROVE  /\ Preparing(b)' => sequence > 0
                      /\ task'[b].pc \in {"profiled", "measured"} => task'[b].seq \in 1 .. sequence
    BY <1>5 DEF Numbered
  <2> QED
    BY <1>2, <1>3 DEF FederationTypes, Numbered
<1> QED
  BY <1>1, <1>4, <1>6
  DEF FederationTypes, ProfileTypes, RuntimeTypes, WireTypes, EntryTypes, ReaderTypes,
      OnlyTask, record, published, network, remote, reader

(* Idle work, and work that goes on, has its type.                             *)
LEMMA WorkType ==
  /\ Idle \in Works
  /\ \A S \in SUBSET Indexes : [Idle EXCEPT !.pc = "waiting", !.relays = S] \in Works
  /\ \A pc \in {"idle", "received", "stopping"} : [Idle EXCEPT !.pc = pc] \in Works
  /\ \A n \in Sequences, k \in {"manifest", "tombstone"} :
       [Idle EXCEPT !.pc = "sending", !.kind = k, !.seq = n, !.awaited = Indexes] \in Works
<1>1. 0 \in Sequences
  BY FederationBounds DEF Sequences
<1> QED
  BY <1>1 DEF Works, Idle

(* An announcement numbered within the profile, by the announcer that prepares. *)
LEMMA AnnounceTypes ==
  ASSUME FederationTypes, NEW a \in Announcers, NEW kind \in {"manifest", "tombstone"},
         NEW seq \in 1 .. sequence, NEW c \in Contents, Announce(a, kind, seq, c)
  PROVE  FederationTypes'
<1> DEFINE w == [Idle EXCEPT !.pc = "sending", !.kind = kind, !.seq = seq, !.awaited = Indexes]
<1> DEFINE message(i) == [from |-> a, to |-> i, kind |-> kind, seq |-> seq, content |-> c]
<1>0. seq \in Sequences
  BY FederationBounds DEF FederationTypes, ProfileTypes, Sequences
<1>1. w \in Works /\ w.pc = "sending"
  BY <1>0, WorkType DEF Idle
<1>2. /\ task' = [task EXCEPT ![a] = w] /\ wire' = wire \union {message(i) : i \in Indexes}
      /\ UNCHANGED <<record, published, network, remote, reader, losses>>
  BY DEF Announce, Step
<1>3. TaskTypes'
  BY <1>1, <1>2 DEF FederationTypes, TaskTypes
<1>4. /\ \A b \in Announcers : b # a => task'[b] = task[b]
      /\ task'[a].pc = "sending"
  BY <1>1, <1>2 DEF FederationTypes, TaskTypes
<1>5. sequence' = sequence
  BY <1>2 DEF record
<1>6. OnePrepares' /\ Numbered'
  BY <1>4, <1>5 DEF FederationTypes, OnePrepares, Numbered, Preparing
<1>7. WireTypes'
  <2>1. \A i \in Indexes : message(i) \in Messages /\ message(i).seq = seq
    BY <1>0 DEF Messages
  <2>2. \A m \in wire' : m \in wire \/ \E i \in Indexes : m = message(i)
    BY <1>2
  <2> QED
    BY <1>5, <2>1, <2>2 DEF FederationTypes, WireTypes
<1> QED
  BY <1>2, <1>3, <1>6, <1>7
  DEF FederationTypes, ProfileTypes, RuntimeTypes, EntryTypes, ReaderTypes,
      record, published, network, remote, reader

(* A step of the reader.                                                       *)
LEMMA RequestTypes ==
  ASSUME FederationTypes, OnlyReader, cache' \in Caches, cache'.seq <= sequence,
         ask' \in Requests, ask'.revision <= sequence, blocked' \in BOOLEAN
  PROVE  FederationTypes'
BY DEF FederationTypes, ProfileTypes, RuntimeTypes, TaskTypes, OnePrepares, Numbered, WireTypes,
       EntryTypes, ReaderTypes, Preparing, OnlyReader, record, published, network, remote

(* What a reader finds in the indexes it reaches is one of their manifests.     *)
LEMMA FoundType ==
  ASSUME FederationTypes, NEW reached \in SUBSET Indexes, Found(reached) # {}
  PROVE  /\ Newest(Found(reached)) \in Found(reached)
         /\ Newest(Found(reached)) \in Caches /\ Newest(Found(reached)).seq <= sequence
         /\ Newer(Newest(Found(reached))) \in {cache, Newest(Found(reached))}
<1>1. \A m \in Found(reached) : m \in Caches /\ m.seq <= sequence
  BY DEF Found, Caches, Entries, FederationTypes, EntryTypes
<1>2. Newest(Found(reached)) \in Found(reached)
  BY <1>1, NewestExists DEF Caches
<1> QED
  BY <1>1, <1>2 DEF Newer

(* A wiki made public or private gets a new sequence.                          *)
LEMMA SetPolicyTypes ==
  ASSUME FederationTypes, SetPolicy
  PROVE  FederationTypes'
BY FederationBounds DEF SetPolicy, FederationTypes, ProfileTypes, RuntimeTypes,
  TaskTypes, OnePrepares, Numbered, WireTypes, EntryTypes, ReaderTypes, published,
  network, remote, reader, Entries, Caches, Requests, Sequences, Preparing

(* The published content changes; everything else keeps its type.              *)
LEMMA PublishTypes ==
  ASSUME FederationTypes, Publish
  PROVE  FederationTypes'
BY FederationBounds DEF Publish, FederationTypes, ProfileTypes, RuntimeTypes, TaskTypes,
  OnePrepares, Numbered, WireTypes, EntryTypes, ReaderTypes, record, network, remote,
  reader, Contents, Preparing

(* A change of the profile numbers a public wiki anew.                         *)
LEMMA BumpProfileTypes ==
  ASSUME FederationTypes, BumpProfile
  PROVE  FederationTypes'
BY FederationBounds DEF BumpProfile, Bumped, FederationTypes, ProfileTypes,
  RuntimeTypes, TaskTypes, OnePrepares, Numbered, WireTypes, EntryTypes, ReaderTypes,
  published, network, remote, reader, Entries, Caches, Requests, Sequences, Preparing

(* A restart of the network idles the renewal task.                            *)
LEMMA RestartNetworkTypes ==
  ASSUME FederationTypes, RestartNetwork
  PROVE  FederationTypes'
BY FederationBounds DEF RestartNetwork, Stop, Idle, FederationTypes, ProfileTypes,
  RuntimeTypes, TaskTypes, OnePrepares, Numbered, WireTypes, EntryTypes, ReaderTypes,
  record, published, remote, reader, Works, Sequences, Preparing, Announcers

(* Relays come and go.                                                         *)
LEMMA ListenerReadyTypes ==
  ASSUME FederationTypes, NEW i \in Indexes, ListenerReady(i)
  PROVE  FederationTypes'
BY DEF ListenerReady, FederationTypes, ProfileTypes, RuntimeTypes, TaskTypes,
  OnePrepares, Numbered, WireTypes, EntryTypes, ReaderTypes, record, published, remote,
  reader, Preparing

LEMMA ListenerClosedTypes ==
  ASSUME FederationTypes, NEW i \in Indexes, ListenerClosed(i)
  PROVE  FederationTypes'
BY DEF ListenerClosed, FederationTypes, ProfileTypes, RuntimeTypes, TaskTypes,
  OnePrepares, Numbered, WireTypes, EntryTypes, ReaderTypes, record, published, remote,
  reader, Preparing

(* A crash idles both announcers and drops the request it was serving.         *)
LEMMA CrashTypes ==
  ASSUME FederationTypes, Crash
  PROVE  FederationTypes'
BY FederationBounds DEF Crash, Idle, NoRequest, FederationTypes, ProfileTypes,
  RuntimeTypes, TaskTypes, OnePrepares, Numbered, WireTypes, EntryTypes, ReaderTypes,
  record, published, remote, Works, Requests, Sequences, Contents, Preparing

(* An answer only leaves its announcer awaiting one index less.                 *)
LEMMA AnsweredType ==
  ASSUME FederationTypes, NEW m \in wire, NEW ok \in BOOLEAN
  PROVE  /\ Answered(m, ok) \in [Announcers -> Works]
         /\ \A a \in Announcers :
              \/ Answered(m, ok)[a] = task[a]
              \/ Answered(m, ok)[a].pc = "sending"
<1>1. m.from \in Announcers /\ task \in [Announcers -> Works]
  BY DEF FederationTypes, TaskTypes, WireTypes, Messages
<1>2. CASE ~Expects(m)
  BY <1>1, <1>2 DEF Answered
<1>3. CASE Expects(m)
  <2> DEFINE rest == task[m.from].awaited \ {m.to}
  <2> DEFINE some == task[m.from].accepted \/ ok
  <2> DEFINE w == [task[m.from] EXCEPT !.awaited = rest, !.accepted = some]
  <2>1. Answered(m, ok) = [task EXCEPT ![m.from] = w]
    BY <1>1, <1>3 DEF Answered
  <2>2. w \in Works /\ w.pc = "sending"
    <3>1. task[m.from] \in Works /\ task[m.from].pc = "sending" /\ some \in BOOLEAN
      BY <1>1, <1>3 DEF Expects
    <3>2. rest \in SUBSET Indexes
      BY <3>1 DEF Works
    <3> HIDE DEF rest, some
    <3> QED
      BY <3>1, <3>2 DEF Works
  <2> HIDE DEF w
  <2> QED
    BY <1>1, <2>1, <2>2
<1> QED
  BY <1>2, <1>3

(* A message delivered or lost leaves the announcers and the wire their types.  *)
LEMMA TransportTypes ==
  ASSUME FederationTypes, NEW m \in wire, NEW ok \in BOOLEAN, task' = Answered(m, ok),
         wire' = wire \ {m}, UNCHANGED <<record, published, network, expired, reader>>,
         EntryTypes'
  PROVE  FederationTypes'
<1>1. TaskTypes' /\ \A a \in Announcers : task'[a] = task[a] \/ task'[a].pc = "sending"
  BY AnsweredType DEF TaskTypes
<1>2. OnePrepares' /\ Numbered'
  BY <1>1 DEF FederationTypes, OnePrepares, Numbered, Preparing, record
<1> QED
  BY <1>1, <1>2 DEF FederationTypes, ProfileTypes, RuntimeTypes, WireTypes, ReaderTypes, record,
     published, network, reader

(* An index stores the message or keeps its row, purged if it has expired.     *)
LEMMA DeliverTypes ==
  ASSUME FederationTypes, NEW m \in wire, Deliver(m)
  PROVE  FederationTypes'
<1>1. m \in Messages /\ m.to \in Indexes /\ m.seq <= sequence
  BY DEF FederationTypes, WireTypes, Messages
<1>2. Stored(m) \in Entries /\ Stored(m).seq <= sequence
  BY <1>1 DEF Stored, Messages, Entries
<1>3. entry[m.to] \in Entries /\ entry[m.to].seq <= sequence
  BY <1>1 DEF FederationTypes, EntryTypes
<1>4. Purged(m.to) \in Entries /\ Purged(m.to).seq <= sequence
  BY <1>3 DEF Purged, Entries, Listed
<1>5. EntryTypes'
  BY <1>2, <1>4 DEF Deliver, FederationTypes, EntryTypes, record
<1>6. PICK ok \in BOOLEAN : task' = Answered(m, ok)
  BY DEF Deliver, Accepts
<1> QED
  BY <1>5, <1>6, TransportTypes DEF Deliver

(* A lost message leaves the rows alone.                                       *)
LEMMA LoseTypes ==
  ASSUME FederationTypes, NEW m \in wire, Lose(m)
  PROVE  FederationTypes'
<1>1. EntryTypes'
  BY DEF Lose, FederationTypes, EntryTypes, record, remote
<1> QED
  BY <1>1, TransportTypes DEF Lose, remote

(* A deadline passes; the announcer awaits no index.                           *)
LEMMA DeadlineTypes ==
  ASSUME FederationTypes, NEW a \in Announcers, Deadline(a)
  PROVE  FederationTypes'
BY DEF Deadline, Step, FederationTypes, ProfileTypes, RuntimeTypes, TaskTypes,
  OnePrepares, Numbered, WireTypes, EntryTypes, ReaderTypes, record, published, network,
  remote, reader, Works, Preparing, Announcers

(* The renewal task stops its own runtime.                                     *)
LEMMA StopRuntimeTypes ==
  ASSUME FederationTypes, StopRuntime
  PROVE  FederationTypes'
BY FederationBounds DEF StopRuntime, Stop, Idle, FederationTypes, ProfileTypes,
  RuntimeTypes, TaskTypes, OnePrepares, Numbered, WireTypes, EntryTypes, ReaderTypes,
  record, published, remote, reader, Works, Sequences, Preparing, Announcers

(* Another manifest expires.                                                   *)
LEMMA ExpireTypes ==
  ASSUME FederationTypes, Expire
  PROVE  FederationTypes'
BY DEF Expire, FederationTypes, ProfileTypes, RuntimeTypes, TaskTypes, OnePrepares,
  Numbered, WireTypes, EntryTypes, ReaderTypes, record, published, network, reader,
  Preparing

(* The steps of the reader that keep what they were told.                      *)
LEMMA BrowseTypes ==
  ASSUME FederationTypes, Browse
  PROVE  FederationTypes'
BY DEF Browse, OnlyReader, FederationTypes, ProfileTypes, RuntimeTypes, TaskTypes,
  OnePrepares, Numbered, WireTypes, EntryTypes, ReaderTypes, record, published, network,
  remote, Caches, Requests, Preparing

LEMMA FailTypes ==
  ASSUME FederationTypes, Fail
  PROVE  FederationTypes'
BY FederationBounds DEF Fail, OnlyReader, NoRequest, FederationTypes, ProfileTypes,
  RuntimeTypes, TaskTypes, OnePrepares, Numbered, WireTypes, EntryTypes, ReaderTypes,
  record, published, network, remote, Requests, Sequences, Contents, Preparing

LEMMA AcceptTypes ==
  ASSUME FederationTypes, Accept
  PROVE  FederationTypes'
BY FederationBounds DEF Accept, OnlyReader, NoRequest, FederationTypes, ProfileTypes,
  RuntimeTypes, TaskTypes, OnePrepares, Numbered, WireTypes, EntryTypes, ReaderTypes,
  record, published, network, remote, Requests, Sequences, Contents, Preparing

LEMMA ReturnTypes ==
  ASSUME FederationTypes, Return
  PROVE  FederationTypes'
BY FederationBounds DEF Return, OnlyReader, NoRequest, FederationTypes, ProfileTypes,
  RuntimeTypes, TaskTypes, OnePrepares, Numbered, WireTypes, EntryTypes, ReaderTypes,
  record, published, network, remote, Requests, Sequences, Contents, Preparing

LEMMA ForgetTypes ==
  ASSUME FederationTypes, Forget
  PROVE  FederationTypes'
BY FederationBounds DEF Forget, OnlyReader, NoRequest, FederationTypes, ProfileTypes,
  RuntimeTypes, TaskTypes, OnePrepares, Numbered, WireTypes, EntryTypes, ReaderTypes,
  record, published, network, remote, Requests, Sequences, Contents, Preparing

LEMMA BlockTypes ==
  ASSUME FederationTypes, Block
  PROVE  FederationTypes'
BY DEF Block, OnlyReader, FederationTypes, ProfileTypes, RuntimeTypes, TaskTypes,
  OnePrepares, Numbered, WireTypes, EntryTypes, ReaderTypes, record, published, network,
  remote, Preparing

(* The runtime starts, or stops and idles its renewal task.                    *)
LEMMA ReconcileTypes ==
  ASSUME FederationTypes, Reconcile
  PROVE  FederationTypes'
<1>1. CASE runtime' = "running" /\ UNCHANGED <<ready, task>>
  BY <1>1 DEF Reconcile, FederationTypes, ProfileTypes, RuntimeTypes, TaskTypes, OnePrepares, Numbered,
     WireTypes, EntryTypes, ReaderTypes, Preparing, record, published, remote, reader
<1>2. CASE runtime' = "off" /\ Stop
  <2>1. Idle \in Works /\ Idle.pc = "idle"
    BY WorkType DEF Idle
  <2>2. /\ task' = [task EXCEPT !["renewal"] = Idle] /\ ready' = {}
    BY <1>2 DEF Stop
  <2>3. TaskTypes'
    BY <2>1, <2>2 DEF FederationTypes, TaskTypes
  <2>4. \A b \in Announcers : task'[b] = task[b] \/ task'[b].pc = "idle"
    BY <2>1, <2>2 DEF FederationTypes, TaskTypes
  <2>5. sequence' = sequence
    BY DEF Reconcile, record
  <2>6. OnePrepares' /\ Numbered'
    BY <2>4, <2>5 DEF FederationTypes, OnePrepares, Numbered, Preparing
  <2> QED
    BY <1>2, <2>2, <2>3, <2>6
    DEF Reconcile, FederationTypes, ProfileTypes, RuntimeTypes, WireTypes, EntryTypes, ReaderTypes,
        record, published, remote, reader
<1> QED
  BY <1>1, <1>2 DEF Reconcile

(* Only one announcer starts to prepare, with the sequence it has made.        *)
LEMMA PrepareTypes ==
  ASSUME FederationTypes, NEW a \in Announcers, Prepare(a)
  PROVE  FederationTypes'
<1> DEFINE w == [task[a] EXCEPT !.pc = "bumped", !.relays = IF a = "sync" THEN ready ELSE @]
<1>1. task[a] \in Works /\ ready \in SUBSET Indexes
  BY DEF FederationTypes, TaskTypes, RuntimeTypes
<1>2. w = [task[a] EXCEPT !.pc = "bumped", !.relays = IF a = "sync" THEN ready ELSE task[a].relays]
  OBVIOUS
<1>3. w \in Works /\ w.pc = "bumped"
  BY <1>1, <1>2 DEF Works
<1>4. task' = [task EXCEPT ![a] = w]
  BY DEF Prepare, Step
<1>5. TaskTypes'
  BY <1>3, <1>4 DEF FederationTypes, TaskTypes
<1>6. /\ \A b \in Announcers : b # a => task'[b] = task[b]
      /\ task'[a].pc = "bumped"
  BY <1>3, <1>4 DEF FederationTypes, TaskTypes
<1>7. \A b \in Announcers : ~Preparing(b)
  BY DEF Prepare, Coordinated
<1>8. OnePrepares'
  BY <1>6, <1>7 DEF OnePrepares, Preparing
<1>9. /\ sequence' \in Sequences /\ sequence' >= sequence /\ sequence' > 0
      /\ sequence' # sequence => policy
  BY FederationBounds DEF Prepare, Bumped, FederationTypes, ProfileTypes, Sequences
<1>10. Numbered'
  BY <1>6, <1>7, <1>9 DEF Numbered, Preparing
<1>11. WireTypes' /\ EntryTypes' /\ ReaderTypes'
  BY <1>9 DEF Prepare, FederationTypes, WireTypes, EntryTypes, ReaderTypes, ProfileTypes, remote, reader,
              Messages, Entries, Caches, Requests, Sequences
<1> QED
  BY <1>5, <1>8, <1>9, <1>10, <1>11
  DEF Prepare, FederationTypes, ProfileTypes, RuntimeTypes, record, published, network, remote

(* The steps of an announcer, each by the type of the work it goes on with.    *)
LEMMA WakeTypes ==
  ASSUME FederationTypes, NEW a \in Announcers, Wake(a)
  PROVE  FederationTypes'
<1>1. ready \in SUBSET Indexes
  BY DEF FederationTypes, RuntimeTypes
<1> DEFINE w == [Idle EXCEPT !.pc = "waiting", !.relays = ready]
<1>2. w \in Works /\ w.pc = "waiting"
  BY <1>1, WorkType DEF Idle
<1> QED
  BY <1>2, WorkTypes DEF Wake

LEMMA GiveUpTypes ==
  ASSUME FederationTypes, NEW a \in Announcers, GiveUp(a) \/ Conclude(a)
  PROVE  FederationTypes'
<1>1. Idle \in Works /\ Idle.pc = "idle"
  BY WorkType DEF Idle
<1> QED
  BY <1>1, WorkTypes DEF GiveUp, Conclude

LEMMA ReadCollectionTypes ==
  ASSUME FederationTypes, NEW a \in Announcers, ReadCollection(a)
  PROVE  FederationTypes'
<1> DEFINE w == [task[a] EXCEPT !.pc = "collected", !.public = policy]
<1>1. task[a] \in Works /\ policy \in BOOLEAN
  BY DEF FederationTypes, TaskTypes, ProfileTypes
<1>2. w \in Works /\ w.pc = "collected"
  BY <1>1 DEF Works
<1> QED
  BY <1>2, WorkTypes DEF ReadCollection, Preparing

LEMMA ReadProfileTypes ==
  ASSUME FederationTypes, NEW a \in Announcers, ReadProfile(a)
  PROVE  FederationTypes'
<1> DEFINE w == [task[a] EXCEPT !.pc = "profiled", !.public = FALSE, !.seq = sequence]
<1>1. task[a] \in Works /\ sequence \in Sequences /\ 0 \in Contents
  BY FederationBounds DEF FederationTypes, TaskTypes, ProfileTypes, Contents
<1>2. w \in Works /\ w.pc = "profiled" /\ w.seq = sequence
  BY <1>1 DEF Works
<1>3. Preparing(a) /\ sequence \in 1 .. sequence
  BY <1>1 DEF ReadProfile, Preparing, FederationTypes, Numbered, Sequences
<1> QED
  BY <1>1, <1>2, <1>3, WorkTypes, AnnounceTypes DEF ReadProfile

LEMMA ReadMaterialTypes ==
  ASSUME FederationTypes, NEW a \in Announcers, ReadMaterial(a)
  PROVE  FederationTypes'
<1> DEFINE w == [task[a] EXCEPT !.pc = "measured", !.relays = {}]
<1>1. task[a] \in Works /\ 0 \in Contents
  BY FederationBounds DEF FederationTypes, TaskTypes, Contents
<1>2. w \in Works /\ w.pc = "measured" /\ w.seq = task[a].seq
  BY <1>1 DEF Works
<1>3. Preparing(a) /\ task[a].seq \in 1 .. sequence
  BY DEF ReadMaterial, Preparing, FederationTypes, Numbered
<1>4. \/ Step(a, Idle) /\ OnlyTask
      \/ Announce(a, "tombstone", task[a].seq, 0)
      \/ Step(a, w) /\ OnlyTask
  BY DEF ReadMaterial
<1>5. Idle \in Works /\ Idle.pc = "idle"
  BY WorkType DEF Idle
<1>6. CASE Announce(a, "tombstone", task[a].seq, 0)
  BY <1>1, <1>3, <1>6, AnnounceTypes
<1>7. CASE Step(a, w) /\ OnlyTask
  BY <1>2, <1>3, <1>7, WorkTypes
<1>8. CASE Step(a, Idle) /\ OnlyTask
  BY <1>5, <1>8, WorkTypes
<1> QED
  BY <1>4, <1>6, <1>7, <1>8

LEMMA ReadFingerprintTypes ==
  ASSUME FederationTypes, NEW a \in Announcers, ReadFingerprint(a)
  PROVE  FederationTypes'
<1>1. content \in Contents
  BY DEF FederationTypes, ProfileTypes
<1>2. task[a].seq \in 1 .. sequence
  BY DEF ReadFingerprint, FederationTypes, Numbered
<1>3. Idle \in Works /\ Idle.pc = "idle"
  BY WorkType DEF Idle
<1> QED
  BY <1>1, <1>2, <1>3, WorkTypes, AnnounceTypes DEF ReadFingerprint

LEMMA ReceiptTypes ==
  ASSUME FederationTypes, NEW a \in Announcers, Receipt(a)
  PROVE  FederationTypes'
<1> DEFINE w == [Idle EXCEPT !.pc = IF a = "renewal" THEN "received" ELSE "idle"]
<1>1. w \in Works /\ w.pc \in {"received", "idle"}
  <2>1. (IF a = "renewal" THEN "received" ELSE "idle") \in {"idle", "received", "stopping"}
    OBVIOUS
  <2> QED
    BY <2>1, WorkType DEF Idle
<1>2. task' = [task EXCEPT ![a] = w] /\ pending' = (pending /\ policy)
  BY DEF Receipt, Step
<1>3. TaskTypes'
  BY <1>1, <1>2 DEF FederationTypes, TaskTypes
<1>4. /\ \A b \in Announcers : b # a => task'[b] = task[b]
      /\ task'[a].pc \in {"received", "idle"}
  BY <1>1, <1>2 DEF FederationTypes, TaskTypes
<1>5. sequence' = sequence
  BY DEF Receipt
<1>6. OnePrepares' /\ Numbered'
  BY <1>4, <1>5 DEF FederationTypes, OnePrepares, Numbered, Preparing
<1>7. ProfileTypes'
  BY <1>2 DEF Receipt, FederationTypes, ProfileTypes, published, remote
<1> QED
  BY <1>3, <1>6, <1>7
  DEF Receipt, FederationTypes, RuntimeTypes, WireTypes, EntryTypes, ReaderTypes,
      network, remote, reader

LEMMA SettleTypes ==
  ASSUME FederationTypes, Settle
  PROVE  FederationTypes'
<1> DEFINE w == [Idle EXCEPT !.pc = IF NeedsSync THEN "idle" ELSE "stopping"]
<1>1. (IF NeedsSync THEN "idle" ELSE "stopping") \in {"idle", "received", "stopping"}
  OBVIOUS
<1>2. w \in Works /\ w.pc \in {"stopping", "idle"}
  BY <1>1, WorkType DEF Idle
<1>3. "renewal" \in Announcers
  BY DEF Announcers
<1> QED
  BY <1>2, <1>3, WorkTypes DEF Settle

(* The steps of the reader that learn something: from the indexes, or from the owner. *)
LEMMA ExploreTypes ==
  ASSUME FederationTypes, NEW reached \in SUBSET Indexes, Explore(reached)
  PROVE  FederationTypes'
<1>1. cache' = Newer(Newest(Found(reached))) /\ Found(reached) # {}
  BY DEF Explore
<1>2. cache' \in Caches /\ cache'.seq <= sequence
  BY <1>1, FoundType DEF FederationTypes, ReaderTypes
<1> QED
  BY <1>2, RequestTypes DEF Explore, FederationTypes, ReaderTypes

LEMMA QueryTypes ==
  ASSUME FederationTypes, NEW reached \in SUBSET Indexes, Query(reached)
  PROVE  FederationTypes'
<1> DEFINE manifest == Newest(Found(reached))
<1>1. cache' = Newer(manifest) /\ Found(reached) # {}
  BY DEF Query
<1>2. cache' \in Caches /\ cache'.seq <= sequence
  BY <1>1, FoundType DEF FederationTypes, ReaderTypes
<1>3. manifest \in Caches
  BY <1>1, FoundType
<1>4. ask' = [NoRequest EXCEPT !.pc = "asked", !.kind = "search",
                               !.seq = manifest.seq, !.content = manifest.content]
  BY DEF Query
<1> HIDE DEF manifest
<1>5. ask' \in Requests /\ ask'.revision = 0
  <2>1. 0 \in Sequences /\ 0 \in Contents
    BY FederationBounds DEF Sequences, Contents
  <2>2. manifest.seq \in Sequences /\ manifest.content \in Contents
    BY <1>3 DEF Caches
  <2>3. ask' = [pc |-> "asked", kind |-> "search", seq |-> manifest.seq,
                content |-> manifest.content, found |-> 0, revision |-> 0, shown |-> 0]
    BY <1>4 DEF NoRequest
  <2> QED
    BY <2>1, <2>2, <2>3 DEF Requests
<1>6. 0 <= sequence
  BY DEF FederationTypes, ProfileTypes, Sequences
<1> QED
  BY <1>2, <1>5, <1>6, RequestTypes DEF Query, FederationTypes, ReaderTypes

LEMMA SearchTypes ==
  ASSUME FederationTypes, Search \/ HandOver
  PROVE  FederationTypes'
<1>1. ask \in Requests /\ (IF policy THEN content ELSE 0) \in Contents
  BY FederationBounds DEF FederationTypes, ReaderTypes, ProfileTypes, Contents
<1>2. ask' \in Requests /\ ask'.revision = ask.revision
  <2>1. 0 \in Contents
    BY FederationBounds DEF Contents
  <2>2. \/ ask' = [ask EXCEPT !.pc = "searched", !.found = IF policy THEN content ELSE 0]
        \/ ask' = [ask EXCEPT !.pc = "answered", !.content = 0, !.shown = 0]
    BY DEF Search, HandOver
  <2> QED
    BY <1>1, <2>1, <2>2 DEF Requests
<1> QED
  BY <1>2, RequestTypes DEF Search, HandOver, FederationTypes, ReaderTypes

LEMMA LeaseTypes ==
  ASSUME FederationTypes, Lease
  PROVE  FederationTypes'
<1>0. 0 \in Contents
  BY FederationBounds DEF Contents
<1> DEFINE c == IF ask.kind = "browse" \/ ask.found = content THEN content ELSE 0
<1>1. ask \in Requests /\ sequence \in Sequences /\ c \in Contents
  BY FederationBounds DEF FederationTypes, ReaderTypes, ProfileTypes, Contents
<1>2. ask' = [ask EXCEPT !.pc = "leased", !.revision = sequence, !.found = 0, !.shown = c]
  BY DEF Lease
<1>3. ask' \in Requests /\ ask'.revision = sequence
  <2> HIDE DEF c
  <2> QED
    BY <1>1, <1>2, <1>0 DEF Requests
<1>4. sequence <= sequence
  BY <1>1 DEF Sequences
<1> QED
  BY <1>3, <1>4, RequestTypes DEF Lease, FederationTypes, ReaderTypes

(* Every step keeps the types.                                                 *)
LEMMA TypeStep == FederationTypes /\ [Next]_federationVars => FederationTypes'
<1> SUFFICES ASSUME FederationTypes, [Next]_federationVars
             PROVE  FederationTypes'
  OBVIOUS
<1>1. CASE UNCHANGED federationVars
  BY <1>1 DEF FederationTypes, ProfileTypes, RuntimeTypes, TaskTypes, OnePrepares, Numbered,
     WireTypes, EntryTypes, ReaderTypes, Preparing, federationVars, record, published, network,
     remote, reader
<1>2. CASE Owner
  <2>1. CASE \E a \in Announcers : Wake(a) \/ Progress(a) \/ Deadline(a)
    BY <2>1, WakeTypes, PrepareTypes, GiveUpTypes, ReadCollectionTypes, ReadProfileTypes,
       ReadMaterialTypes, ReadFingerprintTypes, ReceiptTypes, DeadlineTypes DEF Progress
  <2>2. CASE \E i \in Indexes : ListenerReady(i) \/ ListenerClosed(i)
    BY <2>2, ListenerReadyTypes, ListenerClosedTypes
  <2> QED
    BY <1>2, <2>1, <2>2, SetPolicyTypes, PublishTypes, BumpProfileTypes, ReconcileTypes,
       RestartNetworkTypes, CrashTypes, SettleTypes, StopRuntimeTypes DEF Owner
<1>3. CASE Reader
  BY <1>3, ExploreTypes, QueryTypes, BrowseTypes, SearchTypes, LeaseTypes, FailTypes,
     AcceptTypes, ReturnTypes, ForgetTypes, BlockTypes DEF Reader
<1>4. CASE Transport \/ Expire \/ \E m \in wire : Lose(m)
  BY <1>4, DeliverTypes, ExpireTypes, LoseTypes DEF Transport
<1> QED
  BY <1>1, <1>2, <1>3, <1>4 DEF Next

(* The initial state has its types.                                            *)
LEMMA InitTypes == Init => FederationTypes
<1> SUFFICES ASSUME Init
             PROVE  FederationTypes
  OBVIOUS
<1>1. 0 \in Sequences /\ 0 \in Contents /\ 0 <= 0
  BY FederationBounds DEF Sequences, Contents
<1>2. Idle \in Works /\ Idle.pc = "idle"
  BY WorkType DEF Idle
<1>3. NoManifest \in Caches /\ NoManifest.seq = 0
  BY <1>1 DEF NoManifest, Caches
<1>4. NoRequest \in Requests /\ NoRequest.revision = 0
  BY <1>1 DEF NoRequest, Requests
<1>5. TaskTypes /\ OnePrepares /\ Numbered
  BY <1>2 DEF Init, TaskTypes, OnePrepares, Numbered, Preparing
<1>6. EntryTypes
  BY <1>1 DEF Init, EntryTypes, Entries
<1> QED
  BY <1>1, <1>3, <1>4, <1>5, <1>6
  DEF Init, FederationTypes, ProfileTypes, RuntimeTypes, WireTypes, ReaderTypes

-------------------------------------------------------------------------------
(* The announcements there are: on the wire, in the rows of the indexes, and in *)
(* the cache of the reader, the expired ones included.                        *)
Copies ==
  {[seq |-> m.seq, content |-> m.content] : m \in wire}
  \union {[seq |-> entry[i].seq, content |-> entry[i].content] : i \in Indexes}
  \union {cache}

(* Copies of one sequence are copies of one announcement.                      *)
CopiesAgree == \A m, n \in Copies : m.seq = n.seq => m = n

(* A private wiki has no manifest under the sequence of its profile: making it *)
(* private took a new one.                                                    *)
PrivateIsWithdrawn ==
  \A m \in Copies : m.seq <= sequence /\ (m.seq = sequence /\ ~policy => m.content = 0)

(* What an announcer prepares is newer than all there is, from the moment it    *)
(* is bound to be a manifest.                                                 *)
PreparedIsNewer ==
  \A a \in Announcers, m \in Copies :
    /\ task[a].pc = "bumped" /\ policy => m.seq < sequence
    /\ task[a].pc = "collected" => (m.seq = sequence => m.content = 0)
    /\ task[a].pc = "collected" /\ task[a].public => m.seq < sequence
    /\ task[a].pc \in {"profiled", "measured"} => m.seq < task[a].seq

CopiesInv == CopiesAgree /\ PrivateIsWithdrawn /\ PreparedIsNewer

(* A copy is the sequence and content of an announcement.                      *)
LEMMA CopyTypes ==
  ASSUME FederationTypes
  PROVE  \A m \in Copies : m \in Caches /\ m.seq <= sequence
BY DEF FederationTypes, WireTypes, Messages, EntryTypes, Entries, ReaderTypes, Caches, Copies

(* The numbers of the profile and of the copies are natural numbers.           *)
LEMMA CopyNumbers ==
  ASSUME FederationTypes
  PROVE  /\ sequence \in Nat /\ \A m \in Copies : m.seq \in Nat
         /\ \A a \in Announcers : task[a].seq \in Nat
<1>1. \A n \in Sequences : n \in Nat
  BY DEF Sequences
<1> QED
  BY <1>1, CopyTypes DEF FederationTypes, ProfileTypes, TaskTypes, Works, Caches

(* Steps that move copies, drop them, or end the preparation of an announcer.   *)
LEMMA CopiesFrame ==
  ASSUME CopiesInv, Copies' \subseteq Copies, UNCHANGED <<sequence, policy>>,
         \A a \in Announcers :
           task'[a] = task[a] \/ task'[a].pc \notin {"bumped", "collected", "profiled", "measured"}
  PROVE  CopiesInv'
<1>1. CopiesAgree' /\ PrivateIsWithdrawn'
  BY DEF CopiesInv, CopiesAgree, PrivateIsWithdrawn
<1>2. PreparedIsNewer'
  <2> SUFFICES ASSUME NEW a \in Announcers, NEW m \in Copies',
                      task'[a].pc \in {"bumped", "collected", "profiled", "measured"}
               PROVE  /\ task[a].pc = "bumped" /\ policy => m.seq < sequence
                      /\ task[a].pc = "collected" => (m.seq = sequence => m.content = 0)
                      /\ task[a].pc = "collected" /\ task[a].public => m.seq < sequence
                      /\ task[a].pc \in {"profiled", "measured"} => m.seq < task[a].seq
                      /\ task'[a] = task[a]
    BY DEF PreparedIsNewer
  <2> QED
    BY DEF CopiesInv, PreparedIsNewer
<1> QED
  BY <1>1, <1>2 DEF CopiesInv

(* A new sequence of the profile is newer than all copies.                      *)
LEMMA CopiesUnderNewSequence ==
  ASSUME FederationTypes, CopiesInv, Copies' = Copies, sequence' = sequence + 1, UNCHANGED task
  PROVE  CopiesInv'
<1>1. \A m \in Copies : m.seq < sequence'
  BY CopyNumbers DEF CopiesInv, PrivateIsWithdrawn
<1>2. CopiesAgree' /\ PrivateIsWithdrawn'
  BY <1>1, CopyNumbers DEF CopiesInv, CopiesAgree, PrivateIsWithdrawn
<1>3. PreparedIsNewer'
  BY <1>1, CopyNumbers DEF CopiesInv, PreparedIsNewer
<1> QED
  BY <1>2, <1>3 DEF CopiesInv

(* One announcer prepares on, and no other does.                               *)
LEMMA CopiesWhilePreparing ==
  ASSUME CopiesAgree, Copies' = Copies, PrivateIsWithdrawn', NEW a \in Announcers,
         \A b \in Announcers : b # a => ~Preparing(b)',
         \A m \in Copies :
           /\ task'[a].pc = "bumped" /\ policy' => m.seq < sequence'
           /\ task'[a].pc = "collected" => (m.seq = sequence' => m.content = 0)
           /\ task'[a].pc = "collected" /\ task'[a].public => m.seq < sequence'
           /\ task'[a].pc \in {"profiled", "measured"} => m.seq < task'[a].seq
  PROVE  CopiesInv'
<1>1. CopiesAgree'
  BY DEF CopiesAgree
<1>2. PreparedIsNewer'
  BY DEF PreparedIsNewer, Preparing
<1> QED
  BY <1>1, <1>2 DEF CopiesInv

(* The announcer that prepares is the only one, and stays so if it goes on.     *)
LEMMA OthersDoNotPrepare ==
  ASSUME FederationTypes, NEW a \in Announcers, Preparing(a), NEW w, Step(a, w)
  PROVE  /\ \A b \in Announcers : b # a => ~Preparing(b)'
         /\ task'[a] = w
BY DEF FederationTypes, OnePrepares, TaskTypes, Step, Preparing

(* An announcer that stops preparing leaves the copies alone.                   *)
LEMMA DoneCopies ==
  ASSUME FederationTypes, CopiesInv, NEW a \in Announcers, Step(a, Idle), OnlyTask
  PROVE  CopiesInv'
<1>1. \A b \in Announcers : task'[b] = task[b] \/ task'[b].pc = "idle"
  BY DEF FederationTypes, TaskTypes, Step, Idle
<1> QED
  BY <1>1, CopiesFrame DEF OnlyTask, Copies, record, remote, reader

(* From the new sequence on, a public wiki has no copy under its sequence.     *)
LEMMA PrepareCopies ==
  ASSUME FederationTypes, CopiesInv, NEW a \in Announcers, Prepare(a)
  PROVE  CopiesInv'
<1> DEFINE w == [task[a] EXCEPT !.pc = "bumped", !.relays = IF a = "sync" THEN ready ELSE @]
<1>1. task' = [task EXCEPT ![a] = w] /\ w.pc = "bumped"
  BY DEF Prepare, Step, FederationTypes, TaskTypes, Works
<1>2. /\ \A b \in Announcers : b # a => task'[b] = task[b]
      /\ task'[a].pc = "bumped"
  BY <1>1 DEF FederationTypes, TaskTypes
<1>3. \A b \in Announcers : b # a => ~Preparing(b)'
  BY <1>2 DEF Prepare, Coordinated, Preparing
<1>4. Copies' = Copies /\ policy' = policy /\ sequence' = IF policy THEN sequence + 1 ELSE sequence
  BY DEF Prepare, Copies, Bumped, remote, reader
<1>5. PrivateIsWithdrawn' /\ \A m \in Copies : policy => m.seq < sequence'
  BY <1>4, CopyNumbers DEF CopiesInv, PrivateIsWithdrawn
<1> QED
  BY <1>2, <1>3, <1>4, <1>5, CopiesWhilePreparing DEF CopiesInv

(* What was read as public has no copy yet; what was read as private has no manifest. *)
LEMMA ReadCollectionCopies ==
  ASSUME FederationTypes, CopiesInv, NEW a \in Announcers, ReadCollection(a)
  PROVE  CopiesInv'
<1> DEFINE w == [task[a] EXCEPT !.pc = "collected", !.public = policy]
<1>1. task[a] \in Works
  BY DEF FederationTypes, TaskTypes
<1>2. w.pc = "collected" /\ w.public = policy
  BY <1>1 DEF Works
<1>3. Preparing(a) /\ Step(a, w) /\ OnlyTask /\ task[a].pc = "bumped"
  BY DEF ReadCollection, Preparing
<1>4. Copies' = Copies /\ UNCHANGED <<policy, sequence>>
  BY <1>3 DEF OnlyTask, Copies, record, remote, reader
<1>5. \A m \in Copies : /\ m.seq = sequence => m.content = 0
                        /\ policy => m.seq < sequence
  BY <1>3, CopyNumbers DEF CopiesInv, PreparedIsNewer, PrivateIsWithdrawn
<1>6. PrivateIsWithdrawn'
  BY <1>4 DEF CopiesInv, PrivateIsWithdrawn
<1> HIDE DEF w
<1>7. task'[a] = w /\ \A b \in Announcers : b # a => ~Preparing(b)'
  BY <1>3, OthersDoNotPrepare
<1> QED
  BY <1>2, <1>4, <1>5, <1>6, <1>7, CopiesWhilePreparing DEF CopiesInv

(* What is announced agrees with what is there, and its announcer is done.      *)
LEMMA AnnounceCopies ==
  ASSUME FederationTypes, CopiesInv, NEW a \in Announcers, Preparing(a),
         NEW kind, NEW seq \in 1 .. sequence, NEW c \in Contents, Announce(a, kind, seq, c),
         \A m \in Copies : m.seq = seq => m.content = c,
         seq = sequence /\ ~policy => c = 0
  PROVE  CopiesInv'
<1> DEFINE new == [seq |-> seq, content |-> c]
<1> DEFINE message(i) == [from |-> a, to |-> i, kind |-> kind, seq |-> seq, content |-> c]
<1> DEFINE w == [Idle EXCEPT !.pc = "sending", !.kind = kind, !.seq = seq, !.awaited = Indexes]
<1>1. /\ Step(a, w) /\ wire' = wire \union {message(i) : i \in Indexes}
      /\ UNCHANGED <<record, published, network, remote, reader, losses>>
  BY DEF Announce
<1>2. UNCHANGED <<sequence, policy>>
  BY <1>1 DEF record
<1>3. Copies' \subseteq Copies \union {new}
  <2> SUFFICES ASSUME NEW m \in Copies' PROVE m \in Copies \union {new}
    OBVIOUS
  <2>1. entry' = entry /\ cache' = cache
    BY <1>1 DEF remote, reader
  <2>2. CASE \E x \in wire' : m = [seq |-> x.seq, content |-> x.content]
    <3>1. PICK x \in wire' : m = [seq |-> x.seq, content |-> x.content]
      BY <2>2
    <3>2. CASE x \in wire
      BY <3>1, <3>2 DEF Copies
    <3>3. CASE \E i \in Indexes : x = message(i)
      BY <3>1, <3>3
    <3> QED
      BY <1>1, <3>2, <3>3
  <2> QED
    BY <2>1, <2>2 DEF Copies
<1>4. \A m \in Copies : m.seq = seq => m = new
  BY CopyTypes DEF Caches
<1>5. CopiesAgree'
  BY <1>3, <1>4 DEF CopiesInv, CopiesAgree
<1>6. PrivateIsWithdrawn'
  BY <1>2, <1>3 DEF CopiesInv, PrivateIsWithdrawn
<1>7. w.pc = "sending"
  BY DEF Idle
<1>8. \A b \in Announcers : ~Preparing(b)'
  <2> HIDE DEF w
  <2> QED
    BY <1>1, <1>7, OthersDoNotPrepare DEF Preparing
<1>9. PreparedIsNewer'
  BY <1>8 DEF PreparedIsNewer, Preparing
<1> QED
  BY <1>5, <1>6, <1>9 DEF CopiesInv

(* A tombstone takes the sequence of the profile, a manifest goes on with it.  *)
LEMMA ReadProfileCopies ==
  ASSUME FederationTypes, CopiesInv, NEW a \in Announcers, ReadProfile(a)
  PROVE  CopiesInv'
<1> DEFINE w == [task[a] EXCEPT !.pc = "profiled", !.public = FALSE, !.seq = sequence]
<1>1. task[a] \in Works /\ 0 \in Contents
  BY FederationBounds DEF FederationTypes, TaskTypes, Contents
<1>2. w.pc = "profiled" /\ w.seq = sequence
  BY <1>1 DEF Works
<1>3. Preparing(a) /\ task[a].pc = "collected"
  BY DEF ReadProfile, Preparing
<1>4. sequence \in 1 .. sequence
  BY <1>3, CopyNumbers DEF FederationTypes, Numbered
<1>5. CASE task[a].public /\ Step(a, w) /\ OnlyTask
  <2>1. Copies' = Copies /\ UNCHANGED <<policy, sequence>>
    BY <1>5 DEF OnlyTask, Copies, record, remote, reader
  <2>2. \A m \in Copies : m.seq < sequence
    BY <1>3, <1>5 DEF CopiesInv, PreparedIsNewer
  <2>3. PrivateIsWithdrawn'
    BY <2>1 DEF CopiesInv, PrivateIsWithdrawn
  <2> HIDE DEF w
  <2>4. task'[a] = w /\ \A b \in Announcers : b # a => ~Preparing(b)'
    BY <1>3, <1>5, OthersDoNotPrepare
  <2> QED
    BY <1>2, <2>1, <2>2, <2>3, <2>4, CopiesWhilePreparing DEF CopiesInv
<1>6. CASE Announce(a, "tombstone", sequence, 0)
  <2>1. \A m \in Copies : m.seq = sequence => m.content = 0
    BY <1>3 DEF CopiesInv, PreparedIsNewer
  <2> QED
    BY <1>1, <1>3, <1>4, <1>6, <2>1, AnnounceCopies
<1> QED
  BY <1>5, <1>6 DEF ReadProfile

(* A tombstone takes the sequence read before, a manifest goes on with it.     *)
LEMMA ReadMaterialCopies ==
  ASSUME FederationTypes, CopiesInv, NEW a \in Announcers, ReadMaterial(a)
  PROVE  CopiesInv'
<1> DEFINE w == [task[a] EXCEPT !.pc = "measured", !.relays = {}]
<1>1. task[a] \in Works /\ 0 \in Contents
  BY FederationBounds DEF FederationTypes, TaskTypes, Contents
<1>2. w.pc = "measured" /\ w.seq = task[a].seq
  BY <1>1 DEF Works
<1>3. Preparing(a) /\ task[a].pc = "profiled" /\ task[a].seq \in 1 .. sequence
  BY DEF ReadMaterial, Preparing, FederationTypes, Numbered
<1>4. \A m \in Copies : m.seq < task[a].seq
  BY <1>3 DEF CopiesInv, PreparedIsNewer
<1>5. \/ Step(a, Idle) /\ OnlyTask
      \/ Announce(a, "tombstone", task[a].seq, 0)
      \/ Step(a, w) /\ OnlyTask
  BY DEF ReadMaterial
<1>6. CASE Announce(a, "tombstone", task[a].seq, 0)
  <2>1. \A m \in Copies : m.seq # task[a].seq
    BY <1>4, CopyNumbers
  <2> QED
    BY <1>1, <1>3, <1>6, <2>1, AnnounceCopies
<1>7. CASE Step(a, w) /\ OnlyTask
  <2>1. Copies' = Copies /\ UNCHANGED <<policy, sequence>>
    BY <1>7 DEF OnlyTask, Copies, record, remote, reader
  <2>2. PrivateIsWithdrawn'
    BY <2>1 DEF CopiesInv, PrivateIsWithdrawn
  <2> HIDE DEF w
  <2>3. task'[a] = w /\ \A b \in Announcers : b # a => ~Preparing(b)'
    BY <1>3, <1>7, OthersDoNotPrepare
  <2> QED
    BY <1>2, <1>4, <2>1, <2>2, <2>3, CopiesWhilePreparing DEF CopiesInv
<1>8. CASE Step(a, Idle) /\ OnlyTask
  BY <1>8, DoneCopies, WorkType DEF Idle
<1> QED
  BY <1>5, <1>6, <1>7, <1>8

(* The manifest that is announced has a sequence no copy has.                  *)
LEMMA ReadFingerprintCopies ==
  ASSUME FederationTypes, CopiesInv, NEW a \in Announcers, ReadFingerprint(a)
  PROVE  CopiesInv'
<1>1. /\ Preparing(a) /\ task[a].pc = "measured" /\ task[a].seq \in 1 .. sequence
      /\ content \in Contents
  BY DEF ReadFingerprint, Preparing, FederationTypes, Numbered, ProfileTypes
<1>2. \A m \in Copies : m.seq < task[a].seq
  BY <1>1 DEF CopiesInv, PreparedIsNewer
<1>3. \A m \in Copies : m.seq # task[a].seq
  BY <1>2, CopyNumbers
<1>4. CASE policy /\ Announce(a, "manifest", task[a].seq, content)
  BY <1>1, <1>3, <1>4, AnnounceCopies
<1>5. CASE Step(a, Idle) /\ OnlyTask
  BY <1>5, DoneCopies, WorkType DEF Idle
<1> QED
  BY <1>4, <1>5 DEF ReadFingerprint

(* The index keeps the copy it had or takes the one that arrived; the reader     *)
(* keeps a copy it found.                                                      *)
LEMMA DeliverCopies ==
  ASSUME FederationTypes, CopiesInv, NEW m \in wire, Deliver(m) \/ Lose(m)
  PROVE  CopiesInv'
<1>1. UNCHANGED <<sequence, policy, cache>> /\ wire' \subseteq wire
  BY DEF Deliver, Lose, record, reader
<1>2. \A i \in Indexes :
        \/ entry'[i] = entry[i]
        \/ entry'[i].seq = entry[i].seq /\ entry'[i].content = entry[i].content
        \/ entry'[i].seq = m.seq /\ entry'[i].content = m.content
  <2>1. CASE entry' = entry
    BY <2>1
  <2>2. CASE entry' = [entry EXCEPT ![m.to] = IF Accepts(m.to, m) THEN Stored(m) ELSE Purged(m.to)]
    <3>1. m.to \in Indexes
      BY DEF FederationTypes, WireTypes, Messages
    <3>2. /\ Stored(m).seq = m.seq /\ Stored(m).content = m.content
          /\ Purged(m.to).seq = entry[m.to].seq /\ Purged(m.to).content = entry[m.to].content
      BY <3>1 DEF Stored, Purged, FederationTypes, EntryTypes, Entries
    <3>3. /\ entry'[m.to] \in {Stored(m), Purged(m.to)}
          /\ \A i \in Indexes : i # m.to => entry'[i] = entry[i]
      BY <2>2, <3>1 DEF FederationTypes, EntryTypes
    <3> QED
      BY <3>2, <3>3
  <2> QED
    BY <2>1, <2>2 DEF Deliver, Lose, remote
<1>3. Copies' \subseteq Copies
  BY <1>1, <1>2 DEF Copies
<1>4. \A a \in Announcers : task'[a] = task[a] \/ task'[a].pc = "sending"
  BY DEF Deliver, Lose, Answered, Expects, FederationTypes, TaskTypes, Works
<1> QED
  BY <1>1, <1>3, <1>4, CopiesFrame

(* What a reader finds is a copy.                                              *)
LEMMA FoundCopies ==
  ASSUME FederationTypes, CopiesInv, NEW reached \in SUBSET Indexes,
         Explore(reached) \/ Query(reached)
  PROVE  CopiesInv'
<1>1. cache' = Newer(Newest(Found(reached))) /\ Found(reached) # {} /\ OnlyReader
  BY DEF Explore, Query
<1>2. cache' = cache \/ cache' \in Found(reached)
  BY <1>1, FoundType
<1>3. Found(reached) \subseteq Copies
  BY DEF Found, Copies
<1>4. Copies' \subseteq Copies
  BY <1>1, <1>2, <1>3 DEF Copies, OnlyReader, remote
<1> QED
  BY <1>1, <1>4, CopiesFrame DEF OnlyReader, record

(* An announcer that wakes, waits for answers or is done moves no copy.          *)
LEMMA PausedCopies ==
  ASSUME FederationTypes, CopiesInv, NEW a \in Announcers,
         Wake(a) \/ GiveUp(a) \/ Conclude(a) \/ Receipt(a) \/ Deadline(a)
  PROVE  CopiesInv'
<1>1. \E w : Step(a, w) /\ w.pc \notin {"bumped", "collected", "profiled", "measured"}
  <2>1. CASE Wake(a)
    <3>1. Step(a, [Idle EXCEPT !.pc = "waiting", !.relays = ready])
      BY <2>1 DEF Wake
    <3>2. [Idle EXCEPT !.pc = "waiting", !.relays = ready].pc = "waiting"
      BY DEF Idle
    <3> QED
      BY <3>1, <3>2
  <2>2. CASE GiveUp(a) \/ Conclude(a)
    BY <2>2 DEF GiveUp, Conclude, Idle
  <2>3. CASE Receipt(a)
    <3> DEFINE w == [Idle EXCEPT !.pc = IF a = "renewal" THEN "received" ELSE "idle"]
    <3>1. Step(a, w)
      BY <2>3 DEF Receipt
    <3>2. w.pc \in {"received", "idle"}
      BY DEF Idle
    <3> HIDE DEF w
    <3> QED
      BY <3>1, <3>2
  <2>4. CASE Deadline(a)
    <3> DEFINE w == [task[a] EXCEPT !.awaited = {}]
    <3>1. Step(a, w) /\ task[a].pc = "sending" /\ task[a] \in Works
      BY <2>4 DEF Deadline, FederationTypes, TaskTypes
    <3>2. w.pc = "sending"
      BY <3>1 DEF Works
    <3> HIDE DEF w
    <3> QED
      BY <3>1, <3>2
  <2> QED
    BY <2>1, <2>2, <2>3, <2>4
<1>2. /\ \A b \in Announcers : b # a => task'[b] = task[b]
      /\ task'[a].pc \notin {"bumped", "collected", "profiled", "measured"}
  BY <1>1 DEF Step, FederationTypes, TaskTypes
<1>3. Copies' = Copies /\ UNCHANGED <<sequence, policy>>
  BY DEF Wake, GiveUp, Conclude, Receipt, Deadline, OnlyTask, record, remote, reader, Copies
<1> QED
  BY <1>2, <1>3, CopiesFrame

(* Every step keeps the copies distinguishable.                                *)
LEMMA CopiesStep ==
  FederationTypes /\ CopiesInv /\ [Next]_federationVars => CopiesInv'
<1> SUFFICES ASSUME FederationTypes, CopiesInv, [Next]_federationVars
             PROVE  CopiesInv'
  OBVIOUS
<1>1. CASE UNCHANGED federationVars
  BY <1>1, CopiesFrame DEF federationVars, record, remote, reader, Copies
<1>2. CASE Owner
  <2>1. CASE SetPolicy \/ BumpProfile
    <3>1. Copies' = Copies /\ sequence' = sequence + 1 /\ task' = task
      BY <2>1 DEF SetPolicy, BumpProfile, Bumped, Copies, remote, reader
    <3> QED
      BY <3>1, CopiesUnderNewSequence
  <2>2. CASE \E a \in Announcers : Prepare(a) \/ ReadCollection(a) \/ ReadProfile(a)
                                   \/ ReadMaterial(a) \/ ReadFingerprint(a)
    BY <2>2, PrepareCopies, ReadCollectionCopies, ReadProfileCopies, ReadMaterialCopies,
       ReadFingerprintCopies
  <2>3. CASE \E a \in Announcers : Wake(a) \/ GiveUp(a) \/ Conclude(a) \/ Receipt(a) \/ Deadline(a)
    BY <2>3, PausedCopies
  <2>4. CASE Publish \/ \E i \in Indexes : ListenerReady(i) \/ ListenerClosed(i)
    BY <2>4, CopiesFrame DEF Publish, ListenerReady, ListenerClosed, record, remote, reader, Copies
  <2>5. CASE Reconcile \/ RestartNetwork \/ Crash \/ Settle \/ StopRuntime
    <3>1. \A a \in Announcers : task'[a] = task[a] \/ task'[a].pc \in {"idle", "stopping"}
      BY <2>5 DEF Reconcile, RestartNetwork, Crash, Settle, StopRuntime, Stop, Step, Idle,
                  FederationTypes, TaskTypes
    <3>2. Copies' = Copies /\ UNCHANGED <<sequence, policy>>
      BY <2>5 DEF Reconcile, RestartNetwork, Crash, Settle, StopRuntime, OnlyTask, record, remote,
                  reader, Copies
    <3> QED
      BY <3>1, <3>2, CopiesFrame
  <2> QED
    BY <1>2, <2>1, <2>2, <2>3, <2>4, <2>5 DEF Owner, Progress
<1>3. CASE Reader
  <2>1. CASE \E reached \in SUBSET Indexes : Explore(reached) \/ Query(reached)
    BY <2>1, FoundCopies
  <2>2. CASE Browse \/ Search \/ Lease \/ HandOver \/ Fail \/ Accept \/ Return \/ Forget \/ Block
    <3>1. OnlyReader /\ cache' = cache
      BY <2>2 DEF Browse, Search, Lease, HandOver, Fail, Accept, Return, Forget, Block
    <3> QED
      BY <3>1, CopiesFrame DEF OnlyReader, record, remote, Copies
  <2> QED
    BY <1>3, <2>1, <2>2 DEF Reader
<1>4. CASE Transport \/ \E m \in wire : Lose(m)
  BY <1>4, DeliverCopies DEF Transport
<1>5. CASE Expire
  BY <1>5, CopiesFrame DEF Expire, record, reader, Copies
<1> QED
  BY <1>1, <1>2, <1>3, <1>4, <1>5 DEF Next

-------------------------------------------------------------------------------
(* What is under the lease is public and published, in the version asked for:   *)
(* policy and content wait for the lease.                                     *)
LeasedIsPublic ==
  ask.pc = "leased" =>
    /\ policy /\ ask.shown \in {content, 0}
    /\ ask.kind = "search" => content = ask.content

(* The request changes by the steps of the reader, or dies with the owner.       *)
LEMMA RequestSteps ==
  ASSUME [Next]_federationVars
  PROVE  \/ ask' = ask \/ ask' = NoRequest
         \/ \E reached \in SUBSET Indexes : Query(reached)
         \/ Browse \/ Search \/ Lease \/ HandOver \/ Accept \/ Return
<1>1. CASE UNCHANGED federationVars
  BY <1>1 DEF federationVars, reader
<1>2. CASE Owner
  <2>1. CASE \E a \in Announcers : Progress(a)
    BY <2>1 DEF Progress, Prepare, GiveUp, ReadCollection, ReadProfile, ReadMaterial,
       ReadFingerprint, Announce, Conclude, Receipt, OnlyTask, reader
  <2>2. CASE \E a \in Announcers : Wake(a) \/ Deadline(a)
    BY <2>2 DEF Wake, Deadline, OnlyTask, reader
  <2>3. CASE Crash
    BY <2>3 DEF Crash
  <2> QED
    BY <1>2, <2>1, <2>2, <2>3 DEF Owner, SetPolicy, Publish, BumpProfile, Reconcile, RestartNetwork,
       Settle, StopRuntime, ListenerReady, ListenerClosed, OnlyTask, reader
<1>3. CASE Reader
  BY <1>3 DEF Reader, Explore, Fail, Forget, Block
<1>4. CASE Transport \/ Expire \/ \E m \in wire : Lose(m)
  BY <1>4 DEF Transport, Expire, Deliver, Lose, reader
<1> QED
  BY <1>1, <1>2, <1>3, <1>4 DEF Next

(* A request is under the lease only after Lease, and its result is put together *)
(* only for a reader who does not block the publisher.                         *)
LEMMA RequestGuards ==
  ASSUME FederationTypes, [Next]_federationVars, ask' # ask
  PROVE  /\ ask'.pc = "leased" => Lease
         /\ ask'.pc = "returned" => ~blocked
<1>1. ask \in Requests
  BY DEF FederationTypes, ReaderTypes
<1>2. CASE \E reached \in SUBSET Indexes : Query(reached)
  BY <1>2 DEF Query, NoRequest
<1>3. CASE Browse \/ Search \/ Lease \/ HandOver
  BY <1>1, <1>3 DEF Browse, Search, Lease, HandOver, NoRequest, Requests
<1>4. CASE Accept
  BY <1>4 DEF Accept, NoRequest
<1>5. CASE Return
  BY <1>1, <1>5 DEF Return, NoRequest, Requests
<1>6. CASE ask' = NoRequest
  BY <1>6 DEF NoRequest
<1> QED
  BY <1>2, <1>3, <1>4, <1>5, <1>6, RequestSteps

(* Every step keeps what is under the lease public.                            *)
LEMMA LeaseStep ==
  FederationTypes /\ LeasedIsPublic /\ [Next]_federationVars => LeasedIsPublic'
<1> SUFFICES ASSUME FederationTypes, LeasedIsPublic, [Next]_federationVars
             PROVE  LeasedIsPublic'
  OBVIOUS
<1>0. ask \in Requests
  BY DEF FederationTypes, ReaderTypes
<1>1. CASE Lease
  BY <1>0, <1>1 DEF Lease, IsCurrent, OnlyReader, record, published, Requests, LeasedIsPublic
<1>2. CASE ask' # ask /\ ~Lease
  <2>1. ask'.pc # "leased"
    BY <1>2, RequestGuards
  <2> QED
    BY <2>1 DEF LeasedIsPublic
<1>3. CASE ask' = ask /\ ask.pc = "leased"
  <2>1. policy' = policy /\ content' = content
    BY <1>3 DEF Next, Owner, Reader, Transport, Progress, federationVars, reader, remote, record,
       published, network, SetPolicy, Publish, BumpProfile, Reconcile, RestartNetwork, Crash, Settle,
       StopRuntime, ListenerReady, ListenerClosed, Wake, Prepare, GiveUp, ReadCollection, ReadProfile,
       ReadMaterial, ReadFingerprint, Announce, Conclude, Receipt, Deadline, Deliver, Lose, Expire,
       OnlyTask, OnlyReader, Explore, Query, Browse, Search, HandOver, Fail, Accept, Return, Forget,
       Block, Lease, GateIsOpen
  <2> QED
    BY <1>3, <2>1 DEF LeasedIsPublic
<1> QED
  BY <1>1, <1>2, <1>3 DEF LeasedIsPublic

-------------------------------------------------------------------------------
(* The inductive invariant.                                                    *)
FederationInv == FederationTypes /\ CopiesInv /\ LeasedIsPublic

(* The initial state satisfies it.                                             *)
LEMMA InitInv == Init => FederationInv
<1> SUFFICES ASSUME Init
             PROVE  FederationInv
  OBVIOUS
<1>1. \A m \in Copies : m = NoManifest
  BY DEF Init, Copies, NoManifest
<1>2. sequence = 0 /\ NoManifest.seq = 0 /\ NoManifest.content = 0
  BY DEF Init, NoManifest
<1>3. \A a \in Announcers : task[a].pc = "idle"
  BY DEF Init, Idle
<1>4. CopiesInv
  BY <1>1, <1>2, <1>3 DEF CopiesInv, CopiesAgree, PrivateIsWithdrawn, PreparedIsNewer
<1>5. LeasedIsPublic
  BY DEF Init, NoRequest, LeasedIsPublic
<1> QED
  BY <1>4, <1>5, InitTypes DEF FederationInv

(* The strengthened invariant holds in every reachable state, for every set of   *)
(* indexes and every bound: a sequence names one announcement in whatever order *)
(* the two announcers, the policy and the network take turns.                  *)
THEOREM FederationInvariance == Spec => []FederationInv
<1>1. FederationInv /\ [Next]_federationVars => FederationInv'
  BY TypeStep, CopiesStep, LeaseStep DEF FederationInv
<1> QED
  BY <1>1, InitInv, PTL DEF Spec

(* Every variable has its type, and nothing is numbered beyond the profile.      *)
THEOREM FederationTypeCorrectness == Spec => []FederationTypeOK
<1>1. FederationInv => FederationTypeOK
  BY DEF FederationInv, FederationTypes, ProfileTypes, RuntimeTypes, OnePrepares, WireTypes,
         EntryTypes, ReaderTypes, FederationTypeOK
<1> QED
  BY <1>1, FederationInvariance, PTL

(* Two announcements that can still be told to a reader differ in sequence.      *)
THEOREM AnnouncementsAreAlwaysDistinguishable == Spec => []AnnouncementsAreDistinguishable
<1>1. Manifests \subseteq Copies
  BY DEF Manifests, Copies
<1>2. FederationInv => AnnouncementsAreDistinguishable
  BY <1>1 DEF FederationInv, CopiesInv, CopiesAgree, AnnouncementsAreDistinguishable
<1> QED
  BY <1>2, FederationInvariance, PTL

(* Whatever happens between the query of a reader and the answer, what is handed *)
(* over is public and published at that moment.                               *)
THEOREM DisclosedIsAlwaysPublic == Spec => DisclosedIsPublic
<1>1. FederationInv /\ [Next]_federationVars =>
        [ask.pc = "leased" /\ ask'.pc = "answered" =>
           /\ policy /\ ask.shown \in {content, 0}
           /\ ask.kind = "search" => content = ask.content]_federationVars
  BY DEF FederationInv, LeasedIsPublic
<1> QED
  BY <1>1, FederationInvariance, PTL DEF Spec, DisclosedIsPublic

(* A result put together for a reader has nothing of a publisher who is blocked. *)
THEOREM BlockedIsAlwaysSilent == Spec => BlockedIsSilent
<1>1. FederationInv /\ [Next]_federationVars =>
        [ask.pc # "returned" /\ ask'.pc = "returned" => ~blocked]_federationVars
  <2> SUFFICES ASSUME FederationInv, Next, ask.pc # "returned", ask'.pc = "returned"
               PROVE  ~blocked
    OBVIOUS
  <2> QED
    BY RequestGuards DEF FederationInv
<1> QED
  BY <1>1, FederationInvariance, PTL DEF Spec, BlockedIsSilent
================================================================================
