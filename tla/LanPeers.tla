-------------------------------- MODULE LanPeers --------------------------------
(***************************************************************************)
(* Two devices on a local network: how they pair, what each stores about   *)
(* the other, and how one of them, the owner of a wiki, answers the other. *)
(*                                                                         *)
(* On each device three processes share the access list: the network       *)
(* runtime, one loop that handles commands, messages and results of        *)
(* searches; the worker, which carries out what the person asks, stores    *)
(* it, sends commands to the runtime and later handles its events; and the *)
(* search tasks.  The disclosure gate keeps every change of the access     *)
(* list and of the database away from the last look of a search and the    *)
(* hand-over of its answer.                                                *)
(***************************************************************************)
EXTENDS Naturals, Sequences

CONSTANTS
  Devices,      \* the two devices
  Owner,        \* the device with a wiki to share
  Starts,       \* what the devices may have stored about each other before
  MaxNonces,    \* bound on pairing nonces in use at a time
  MaxCommands,  \* bound on commands on their way to a runtime
  Limits,       \* bound on each kind of turn
  MaxTurns      \* bound on all turns; an attempt to pair counts twice

(* Attempts to pair; rejections and revocations; changes of the grant and of    *)
(* the policy; searches; failures, timeouts, restarts and crashes.             *)
Turns == {"attempts", "strikes", "grants", "searches", "losses"}

ASSUME LanBounds ==
  /\ \E a, b \in Devices : a # b /\ Devices = {a, b}
  /\ Owner \in Devices
  /\ Starts \subseteq [Devices -> {"none", "trusted", "blocked"}]
  /\ MaxNonces \in Nat \ {0} /\ {MaxCommands, MaxTurns} \subseteq Nat
  /\ Limits \in [Turns -> Nat]

VARIABLES
  acl,        \* access list in memory: standing of the other device
  row,        \* the same in SQLite
  shareable,  \* peer_shareable of the owner's wiki
  pairing,    \* pairing state of the runtime
  loop,       \* the runtime runs, or waits for the gate inside a handler
  commands,   \* commands the worker sent to the runtime
  events,     \* events the runtime sent to the worker
  link,       \* the device knows of a connection to the other
  wire,       \* pairing messages on their way
  search,     \* the search of the other device in the owner's wiki
  confirmed,  \* codes the runtime of each device confirmed for its person
  wanted,     \* the person's last word is to pair, not to reject or revoke
  given,      \* the person granted the wiki and has not taken it back
  lost,       \* commands and events dropped by a restart or a crash
  spent       \* turns taken

trust == <<acl, row, shareable>>
network == <<link, wire>>
queues == <<commands, events>>
history == <<confirmed, wanted, given, lost>>
lanVars == <<trust, pairing, loop, queues, network, search, history, spent>>

Other(d) == CHOOSE e \in Devices : e # d

(* PeerAccess, and the rows of peers and grants.  A grant is kept for a trusted *)
(* peer only: blocking deletes it, and granting asks for trust.               *)
Standings == {"none", "trusted", "granted", "blocked"}
IsTrusted(s) == s \in {"trusted", "granted"}
WithTrust(s) == IF s = "granted" THEN s ELSE "trusted"

(* A mutant: the grant outlives the policy that allowed it.                     *)
KeepsGrant(s) == s

WithoutGrant(s) == IF s = "granted" THEN "trusted" ELSE s

(* What the six words are derived from: the nonce of each device.              *)
NoCode == [d \in Devices |-> 0]
Code(d, mine, theirs) == [e \in Devices |-> IF e = d THEN mine ELSE theirs]
Session(c) == [code |-> c, local |-> FALSE, remote |-> FALSE]
NoSession == Session(NoCode)

NoPairing == [dial |-> 0, hello |-> 0, session |-> NoSession, confirms |-> {},
              marker |-> FALSE]
NoSearch == [pc |-> "idle", hit |-> FALSE]

Init ==
  /\ row \in Starts /\ acl = row
  /\ shareable = TRUE
  /\ pairing = [d \in Devices |-> NoPairing]
  /\ loop = [d \in Devices |-> "running"]
  /\ commands = [d \in Devices |-> <<>>] /\ events = [d \in Devices |-> <<>>]
  /\ link = [d \in Devices |-> FALSE] /\ wire = {}
  /\ search = NoSearch
  /\ confirmed = {<<d, NoCode>> : d \in {e \in Devices : IsTrusted(row[e])}}
  /\ wanted = [d \in Devices |-> IsTrusted(row[d])] /\ given = FALSE
  /\ lost = [d \in Devices |-> {}]
  /\ spent = [t \in Turns |-> 0]

-------------------------------------------------------------------------------
Running(d) == loop[d] = "running"
Leased(d) == d = Owner /\ search.pc = "leased"

(* A mutant: nobody waits for a lease.                                         *)
GateIsAlwaysOpen(d) == TRUE

(* acquire_mutation: no change of access list or database under a lease.       *)
GateIsOpen(d) == ~Leased(d)

Total(s) ==
  2 * s.attempts + s.strikes + s.grants + s.searches + s.losses
Spend(kinds) ==
  /\ spent' = [t \in Turns |-> IF t \in kinds THEN spent[t] + 1 ELSE spent[t]]
  /\ \A t \in kinds : spent[t] < Limits[t]
  /\ Total(spent') <= MaxTurns
Loss == Spend({"losses"})

(* A random nonce differs from all that still matter.                          *)
InUse ==
  LET codes == {pairing[d].session.code : d \in Devices}
               \union UNION {pairing[d].confirms : d \in Devices}
               \union {m.id : m \in wire} \union {x[2] : x \in confirmed}
  IN {c[d] : c \in codes, d \in Devices}
     \union {pairing[d].dial : d \in Devices} \union {pairing[d].hello : d \in Devices}
     \union {m.n : m \in {w \in wire : w.kind \in {"hello", "helloed"}}}
Fresh == {n \in 1 .. MaxNonces : n \notin InUse /\ 1 .. n - 1 \subseteq InUse}

Emit(d, e) == events' = [events EXCEPT ![d] = Append(@, e)]
Command(d, c) ==
  /\ Len(commands[d]) < MaxCommands
  /\ commands' = [commands EXCEPT ![d] = Append(@, c)]
NextCommand(d, c) ==
  /\ Running(d) /\ commands[d] # <<>> /\ Head(commands[d]) = c
  /\ commands' = [commands EXCEPT ![d] = Tail(@)]
Holds(queue, w) == \E i \in DOMAIN queue : queue[i] = w
Elements(queue) == {queue[i] : i \in DOMAIN queue}
SetPairing(d, p) == pairing' = [pairing EXCEPT ![d] = p]
SetAcl(d, s) == acl' = [acl EXCEPT ![d] = s]
SetRow(d, s) == row' = [row EXCEPT ![d] = s]

SessionOf(d) == pairing[d].session
HasSession(d) == SessionOf(d) # NoSession
AttemptActive(d) == pairing[d].dial # 0 \/ pairing[d].hello # 0 \/ HasSession(d)

Disconnected == link' = [d \in Devices |-> FALSE] /\ wire' = {}

(* enforce_peer_block: the connection of the peer goes as well.                 *)
EnforceBlock(d) == GateIsOpen(d) /\ SetAcl(d, "blocked") /\ Disconnected

(* A mutant: the mark goes and the block is not restored.                      *)
EndAttemptUnblocked(d, w) ==
  SetPairing(d, NoPairing) /\ wire' = w /\ UNCHANGED <<acl, link>>

(* A failed attempt restores the block it lifted.  w: the messages that remain. *)
EndAttempt(d, w) ==
  /\ SetPairing(d, NoPairing)
  /\ IF pairing[d].marker THEN EnforceBlock(d) ELSE wire' = w /\ UNCHANGED <<acl, link>>

-------------------------------------------------------------------------------
(* The handshake                                                              *)

AnswerTo == [hello |-> "helloed", confirm |-> "confirmed"]
Hello(d, n) == [to |-> Other(d), kind |-> "hello", id |-> Code(d, n, 0), n |-> n,
                ok |-> TRUE]
Confirm(d, c) == [to |-> Other(d), kind |-> "confirm", id |-> c, n |-> 0, ok |-> TRUE]
Answer(m, n, ok) == [to |-> Other(m.to), kind |-> AnswerTo[m.kind], id |-> m.id, n |-> n,
                     ok |-> ok]
Send(m) == wire' = wire \union {m}
Reply(m, r) == wire' = (wire \ {m}) \union {r}
About(kind, id) == {m \in wire : m.kind \in {kind, AnswerTo[kind]} /\ m.id = id}

(* The person asks to pair with a device that is not paired.                   *)
Pair(d) ==
  /\ ~IsTrusted(row[d]) /\ ~AttemptActive(d) /\ Spend({"attempts"})
  /\ Command(d, "pair") /\ wanted' = [wanted EXCEPT ![d] = TRUE]
  /\ UNCHANGED <<trust, pairing, loop, events, network, search, confirmed, given, lost>>

(* begin_pairing, when no attempt is active: an explicit attempt lifts a block *)
(* in the access list only.  Without a connection it dials.                   *)
Begin(d) ==
  /\ NextCommand(d, "pair")
  /\ \/ AttemptActive(d) /\ UNCHANGED <<acl, pairing, wire>>
     \/ /\ ~AttemptActive(d)
        /\ acl[d] = "blocked" => GateIsOpen(d)
        /\ SetAcl(d, IF acl[d] = "blocked" THEN "none" ELSE acl[d])
        /\ \E n \in Fresh :
             LET p == [pairing[d] EXCEPT !.marker = @ \/ acl[d] = "blocked"]
             IN IF link[d]
                THEN SetPairing(d, [p EXCEPT !.hello = n]) /\ Send(Hello(d, n))
                ELSE SetPairing(d, [p EXCEPT !.dial = n]) /\ UNCHANGED wire
  /\ UNCHANGED <<row, shareable, loop, events, link, search, history, spent>>

(* ConnectionEstablished                                                      *)
Connect(d) ==
  /\ Running(d) /\ Running(Other(d)) /\ ~link[d]
  /\ IF acl[d] = "blocked"
     THEN /\ SetPairing(d, [pairing[d] EXCEPT !.dial = 0, !.session = NoSession,
                                              !.marker = FALSE])
          /\ Disconnected
     ELSE /\ link' = [link EXCEPT ![d] = TRUE]
          /\ IF pairing[d].dial # 0
             THEN /\ SetPairing(d, [pairing[d] EXCEPT !.dial = 0,
                                                      !.hello = pairing[d].dial])
                  /\ Send(Hello(d, pairing[d].dial))
             ELSE UNCHANGED <<pairing, wire>>
  /\ UNCHANGED <<trust, loop, queues, search, history, spent>>

(* No address, a refused dial, or a failed connection.                         *)
DialFails(d) ==
  /\ Running(d) /\ pairing[d].dial # 0
  /\ EndAttempt(d, wire)
  /\ UNCHANGED <<row, shareable, loop, queues, search, history, spent>>

Drop ==
  /\ \E d \in Devices : link[d]
  /\ Loss /\ Disconnected
  /\ UNCHANGED <<trust, pairing, loop, queues, search, history>>

Delivered(m, kind) == m \in wire /\ m.kind = kind /\ link[m.to] /\ Running(m.to)

(* handle_pairing_request                                                     *)
ReceiveHello(m) ==
  LET d == m.to
  IN /\ Delivered(m, "hello")
     /\ \/ /\ acl[d] = "blocked"
           /\ Reply(m, Answer(m, 0, FALSE)) /\ UNCHANGED pairing
        \/ /\ acl[d] # "blocked"
           /\ \E n \in Fresh :
                /\ SetPairing(d, [pairing[d] EXCEPT !.session = Session(Code(d, n, m.n))])
                /\ Reply(m, Answer(m, n, TRUE))
     /\ UNCHANGED <<trust, loop, queues, link, search, history, spent>>

(* handle_pairing_response to a Hello: a reply nobody waits for is ignored.     *)
ReceiveHelloed(m) ==
  LET d == m.to
      expected == pairing[d].hello # 0 /\ pairing[d].hello = m.id[d]
  IN /\ Delivered(m, "helloed")
     /\ \/ /\ expected /\ m.ok
           /\ SetPairing(d, [pairing[d] EXCEPT !.hello = 0,
                               !.session = Session(Code(d, pairing[d].hello, m.n))])
           /\ wire' = wire \ {m} /\ UNCHANGED <<acl, link>>
        \/ expected /\ ~m.ok /\ EndAttempt(d, wire \ {m})
        \/ ~expected /\ wire' = wire \ {m} /\ UNCHANGED <<acl, pairing, link>>
     /\ UNCHANGED <<row, shareable, loop, queues, search, history, spent>>

(* Without a connection a request fails; with one, only a timeout fails it.     *)
Fails(d, unanswered) ==
  IF unanswered # {} /\ link[d] THEN Loss ELSE UNCHANGED spent

HelloFails(d) ==
  LET unanswered == About("hello", Code(d, pairing[d].hello, 0))
  IN /\ Running(d) /\ pairing[d].hello # 0
     /\ Fails(d, unanswered)
     /\ EndAttempt(d, wire \ unanswered)
     /\ UNCHANGED <<row, shareable, loop, queues, search, history>>

(* complete_pairing_if_ready                                                  *)
Completed(d, p) ==
  IF acl[d] = "blocked" THEN SetPairing(d, NoPairing) /\ UNCHANGED events
  ELSE IF p.session.local /\ p.session.remote
  THEN /\ SetPairing(d, [p EXCEPT !.session = NoSession, !.dial = 0, !.marker = FALSE])
       /\ Emit(d, "trusted")
  ELSE SetPairing(d, p) /\ UNCHANGED events

(* The person says that the words on the screen match.                         *)
Accept(d) ==
  /\ HasSession(d) /\ ~SessionOf(d).local
  /\ Command(d, "accept") /\ wanted' = [wanted EXCEPT ![d] = TRUE]
  /\ UNCHANGED <<trust, pairing, loop, events, network, search, confirmed, given,
                 lost, spent>>

(* confirm_local: the command names no code, the session pending now counts.    *)
ConfirmLocal(d) ==
  /\ NextCommand(d, "accept")
  /\ IF HasSession(d)
     THEN LET c == SessionOf(d).code
          IN /\ Completed(d, [pairing[d] EXCEPT !.session.local = TRUE,
                                                !.confirms = @ \union {c}])
             /\ confirmed' = confirmed \union {<<d, c>>}
             /\ Send(Confirm(d, c))
     ELSE UNCHANGED <<pairing, events, confirmed, wire>>
  /\ UNCHANGED <<trust, loop, link, search, wanted, given, lost, spent>>

(* A mutant: the code of the other device is not compared.                     *)
MatchesAny(d, c) == HasSession(d)

(* confirm_remote                                                             *)
Matches(d, c) == HasSession(d) /\ SessionOf(d).code = c

(* The answer to a Confirm tells whether both have confirmed.                   *)
ReceiveConfirm(m) ==
  LET d == m.to
      p == [pairing[d] EXCEPT !.session.remote = TRUE]
      both == IF p.session.local THEN 1 ELSE 0
  IN /\ Delivered(m, "confirm")
     /\ IF acl[d] # "blocked" /\ Matches(d, m.id)
        THEN Reply(m, Answer(m, both, TRUE)) /\ Completed(d, p)
        ELSE Reply(m, Answer(m, 0, FALSE)) /\ UNCHANGED <<pairing, events>>
     /\ UNCHANGED <<trust, loop, commands, link, search, history, spent>>

(* handle_pairing_response to a Confirm: "both" counts for the session that is  *)
(* pending now, and a refusal ends the attempt that is active now.             *)
ReceiveConfirmed(m) ==
  LET d == m.to
      p == [pairing[d] EXCEPT !.confirms = @ \ {m.id}]
      expected == m.id \in pairing[d].confirms
  IN /\ Delivered(m, "confirmed")
     /\ \/ /\ expected /\ m.ok
           /\ Completed(d, IF m.n = 1 /\ HasSession(d)
                           THEN [p EXCEPT !.session.remote = TRUE] ELSE p)
           /\ wire' = wire \ {m} /\ UNCHANGED <<acl, link>>
        \/ expected /\ ~m.ok /\ EndAttempt(d, wire \ {m}) /\ UNCHANGED events
        \/ ~expected /\ wire' = wire \ {m} /\ UNCHANGED <<acl, pairing, events, link>>
     /\ UNCHANGED <<row, shareable, loop, commands, search, history, spent>>

ConfirmFails(d) ==
  /\ Running(d)
  /\ \E c \in pairing[d].confirms :
       /\ Fails(d, About("confirm", c))
       /\ SetPairing(d, [pairing[d] EXCEPT !.confirms = @ \ {c}])
       /\ wire' = wire \ About("confirm", c)
  /\ UNCHANGED <<trust, loop, queues, link, search, history>>

(* expire_pairings: two minutes without both confirmations.                    *)
Expire(d) ==
  /\ Running(d) /\ HasSession(d)
  /\ EndAttempt(d, wire)
  /\ UNCHANGED <<row, shareable, loop, queues, search, history, spent>>

-------------------------------------------------------------------------------
(* Trust and grants                                                           *)

(* persist_blocked_peer, which deletes the grants.                             *)
StoreBlock(d) ==
  /\ SetRow(d, "blocked")
  /\ confirmed' = confirmed \ {<<d, NoCode>>}
  /\ given' = IF d = Owner THEN FALSE ELSE given

(* confirm_pairing(false) and revoke_peer: denial takes effect in the access    *)
(* list first, then in SQLite, which may fail, and in the runtime.  The words    *)
(* are on the screen until the worker handles the event that ends the attempt.  *)
Strike(d) ==
  /\ HasSession(d) \/ Holds(events[d], "trusted") \/ IsTrusted(row[d])
  /\ GateIsOpen(d)
  /\ SetAcl(d, "blocked") /\ Command(d, "strike")
  /\ \/ Spend({"strikes"}) /\ StoreBlock(d)
     \/ Spend({"strikes", "losses"}) /\ UNCHANGED <<row, confirmed, given>>
  /\ wanted' = [wanted EXCEPT ![d] = FALSE]
  /\ UNCHANGED <<shareable, pairing, loop, events, network, search, lost>>

(* Revoke and CancelPairing in the runtime                                     *)
StrikePairing(d) ==
  /\ NextCommand(d, "strike")
  /\ SetPairing(d, NoPairing) /\ EnforceBlock(d) /\ Emit(d, "struck")
  /\ UNCHANGED <<row, shareable, loop, search, history, spent>>

(* allow_peer_pairing_again: durable state is relaxed first.                    *)
Allow(d) ==
  /\ row[d] = "blocked" /\ GateIsOpen(d)
  /\ SetRow(d, "none") /\ SetAcl(d, IF acl[d] = "blocked" THEN "none" ELSE acl[d])
  /\ UNCHANGED <<shareable, pairing, loop, queues, network, search, history, spent>>

Decide(d) == d = Owner /\ GateIsOpen(d)

(* set_collection_grant(true)                                                  *)
Grant(d) ==
  /\ Decide(d) /\ Spend({"grants"})
  /\ shareable /\ IsTrusted(acl[d]) /\ IsTrusted(row[d])
  /\ SetAcl(d, "granted") /\ SetRow(d, "granted") /\ Command(d, "grant")
  /\ given' = TRUE
  /\ UNCHANGED <<shareable, pairing, loop, events, network, search, confirmed,
                 wanted, lost>>

(* set_collection_grant(false): when SQLite fails the person is told.           *)
Ungrant(d) ==
  /\ Decide(d) /\ row[d] = "granted"
  /\ SetAcl(d, WithoutGrant(acl[d])) /\ Command(d, "ungrant")
  /\ \/ Spend({"grants"}) /\ SetRow(d, "trusted") /\ given' = FALSE
     \/ Spend({"grants", "losses"}) /\ UNCHANGED <<row, given>>
  /\ UNCHANGED <<shareable, pairing, loop, events, network, search, confirmed,
                 wanted, lost>>

(* Grant in the runtime; it refuses a peer that is not trusted.                 *)
ApplyGrant(d) ==
  /\ NextCommand(d, "grant") /\ GateIsOpen(d)
  /\ SetAcl(d, IF IsTrusted(acl[d]) THEN "granted" ELSE acl[d])
  /\ UNCHANGED <<row, shareable, pairing, loop, events, network, search, history,
                 spent>>

(* RemoveGrant in the runtime                                                  *)
ApplyUngrant(d) ==
  /\ NextCommand(d, "ungrant") /\ GateIsOpen(d)
  /\ SetAcl(d, WithoutGrant(acl[d]))
  /\ UNCHANGED <<row, shareable, pairing, loop, events, network, search, history,
                 spent>>

(* update_collection_policy: without peer_shareable the grants go.  The runtime *)
(* is sent nothing.                                                           *)
SetPolicy(d) ==
  /\ Decide(d) /\ Spend({"grants"}) /\ shareable' = ~shareable
  /\ IF shareable
     THEN /\ SetAcl(d, WithoutGrant(acl[d])) /\ SetRow(d, WithoutGrant(row[d]))
          /\ given' = FALSE
     ELSE UNCHANGED <<acl, row, given>>
  /\ UNCHANGED <<pairing, loop, queues, network, search, confirmed, wanted, lost>>

(* handle_network_event                                                        *)
NextEvent(d, e) ==
  /\ events[d] # <<>> /\ Head(events[d]) = e /\ GateIsOpen(d)
  /\ events' = [events EXCEPT ![d] = Tail(@)]

PersistTrust(d) ==
  /\ NextEvent(d, "trusted")
  /\ \/ SetRow(d, WithTrust(row[d])) /\ SetAcl(d, WithTrust(acl[d])) /\ UNCHANGED spent
     \/ Loss /\ SetAcl(d, "blocked") /\ UNCHANGED row
  /\ UNCHANGED <<shareable, pairing, loop, commands, network, search, history>>

(* A mutant: the block was stored when the person asked for it, so the event    *)
(* only refreshes the view.                                                    *)
ShowStrike(d) ==
  /\ NextEvent(d, "struck")
  /\ UNCHANGED <<trust, pairing, loop, commands, network, search, history, spent>>

PersistStrike(d) ==
  /\ NextEvent(d, "struck")
  /\ SetAcl(d, "blocked")
  /\ \/ StoreBlock(d) /\ UNCHANGED <<lost, spent>>
     \/ /\ Loss /\ lost' = [lost EXCEPT ![d] = @ \union {"struck"}]
        /\ UNCHANGED <<row, confirmed, given>>
  /\ UNCHANGED <<shareable, pairing, loop, commands, network, search, wanted>>

(* reconcile_federated_access, before the device searches the others           *)
Narrowed(d) ==
  IF ~IsTrusted(acl[d]) THEN acl[d]
  ELSE IF ~IsTrusted(row[d]) THEN "blocked"
  ELSE IF row[d] = "granted" /\ shareable THEN acl[d]
  ELSE "trusted"

Reconcile(d) ==
  /\ GateIsOpen(d) /\ Narrowed(d) # acl[d]
  /\ SetAcl(d, Narrowed(d))
  /\ UNCHANGED <<row, shareable, pairing, loop, queues, network, search, history,
                 spent>>

-------------------------------------------------------------------------------
(* The search of the other device in the wiki of d                             *)

IsGranted(d) == acl[d] = "granted" /\ row[d] = "granted" /\ shareable

(* start_search asks the connected devices that the access list trusts.         *)
IsAsked(d) == Running(d) /\ link[d] /\ IsTrusted(acl[Other(d)])

(* handle_inbound_search with authorize                                        *)
Ask(d) ==
  /\ d = Owner /\ search.pc = "idle"
  /\ IsAsked(d) /\ acl[d] = "granted"
  /\ search' = [NoSearch EXCEPT !.pc = "authorized"]
  /\ Spend({"searches"})
  /\ UNCHANGED <<trust, pairing, loop, queues, network, history>>

(* durable_authorized_collections, and the search in what it returned          *)
Scope(d) ==
  /\ d = Owner /\ search.pc = "authorized"
  /\ search' = IF IsTrusted(acl[d]) /\ IsTrusted(row[d])
               THEN [pc |-> "scoped", hit |-> IsGranted(d)] ELSE NoSearch
  /\ UNCHANGED <<trust, pairing, loop, queues, network, history, spent>>

(* finalize_authorized_response: the lease is taken even for an empty answer,   *)
(* and the answer waits in the channel to the runtime.                         *)
Lease(d) ==
  /\ d = Owner /\ search.pc = "scoped"
  /\ search' = [pc |-> "leased", hit |-> search.hit /\ IsGranted(d)]
  /\ UNCHANGED <<trust, pairing, loop, queues, network, history, spent>>

(* The search takes longer than its deadline.                                  *)
TimeOut ==
  /\ search.pc \in {"authorized", "scoped"} /\ Loss
  /\ search' = NoSearch
  /\ UNCHANGED <<trust, pairing, loop, queues, network, history>>

(* handle_backend_result: the answer goes out and the lease is dropped.         *)
HandOver(d) ==
  /\ Running(d) /\ Leased(d)
  /\ search' = NoSearch
  /\ UNCHANGED <<trust, pairing, loop, queues, network, history, spent>>

-------------------------------------------------------------------------------
(* A handler of the runtime that changes the access list.  A failure or the     *)
(* expiry of an attempt that lifted a block is one.                            *)
NeedsGate(d) ==
  \/ /\ commands[d] # <<>>
     /\ \/ Head(commands[d]) \in {"strike", "grant", "ungrant"}
        \/ Head(commands[d]) = "pair" /\ acl[d] = "blocked" /\ ~AttemptActive(d)
  \/ pairing[d].marker /\ AttemptActive(d)

(* acquire_mutation blocks the loop itself.                                    *)
Wait(d) ==
  /\ Running(d) /\ NeedsGate(d) /\ ~GateIsOpen(d)
  /\ loop' = [loop EXCEPT ![d] = "waiting"]
  /\ UNCHANGED <<trust, pairing, queues, network, search, history, spent>>

Stopped(d) ==
  /\ SetPairing(d, NoPairing) /\ Disconnected
  /\ commands' = [commands EXCEPT ![d] = <<>>]
  /\ events' = [events EXCEPT ![d] = <<>>]
  /\ search' = IF d = Owner THEN NoSearch ELSE search
  /\ lost' = [lost EXCEPT ![d] = @ \union Elements(commands[d])
                                 \union Elements(events[d])]

(* disable_lan and enable_lan: the shutdown waits for the commands before it,   *)
(* restores the blocks, and events of the old generation count no more.        *)
RestartLan(d) ==
  /\ Running(d) /\ commands[d] = <<>> /\ (pairing[d].marker => GateIsOpen(d)) /\ Loss
  /\ Stopped(d)
  /\ SetAcl(d, IF pairing[d].marker THEN "blocked" ELSE acl[d])
  /\ UNCHANGED <<row, shareable, loop, confirmed, wanted, given>>

(* The process stops and starts again: restore_access_control.                 *)
Crash(d) ==
  /\ Loss /\ Stopped(d)
  /\ SetAcl(d, row[d]) /\ loop' = [loop EXCEPT ![d] = "running"]
  /\ UNCHANGED <<row, shareable, confirmed, wanted, given>>

-------------------------------------------------------------------------------
Message(m) ==
  ReceiveHello(m) \/ ReceiveHelloed(m) \/ ReceiveConfirm(m) \/ ReceiveConfirmed(m)

Handler(d) ==
  \/ Begin(d) \/ ConfirmLocal(d) \/ StrikePairing(d) \/ ApplyGrant(d) \/ ApplyUngrant(d)
  \/ HelloFails(d) \/ ConfirmFails(d) \/ Wait(d)

Person(d) ==
  \/ Pair(d) \/ Accept(d) \/ Strike(d) \/ Allow(d)
  \/ Grant(d) \/ Ungrant(d) \/ SetPolicy(d)

Persist(d) == PersistTrust(d) \/ PersistStrike(d)

Next ==
  \/ \E m \in wire : Message(m)
  \/ \E d \in Devices :
       \/ Handler(d) \/ Connect(d) \/ DialFails(d) \/ Expire(d)
       \/ Person(d) \/ Persist(d) \/ Reconcile(d)
       \/ Ask(d) \/ Scope(d) \/ Lease(d) \/ HandOver(d)
       \/ RestartLan(d) \/ Crash(d)
  \/ Drop \/ TimeOut

Spec == Init /\ [][Next]_lanVars

(* The loop handles what it receives, dials and sessions end in time, the       *)
(* worker handles the events, and a search goes on.                            *)
Fairness ==
  /\ WF_lanVars(\E m \in wire : Message(m))
  /\ \A d \in Devices :
       /\ WF_lanVars(Handler(d)) /\ WF_lanVars(Connect(d) \/ DialFails(d))
       /\ WF_lanVars(Expire(d)) /\ WF_lanVars(Persist(d))
       /\ WF_lanVars(Scope(d) \/ Lease(d)) /\ WF_lanVars(HandOver(d))

FairSpec == Spec /\ Fairness

-------------------------------------------------------------------------------
(* Types of the variables; only a shareable wiki is granted.                   *)
Nonces == 0 .. MaxNonces
Codes == [Devices -> Nonces]
Sessions == [code : Codes, local : BOOLEAN, remote : BOOLEAN]
Pairings == [dial : Nonces, hello : Nonces, session : Sessions, confirms : SUBSET Codes,
             marker : BOOLEAN]
Messages == [to : Devices, kind : {"hello", "helloed", "confirm", "confirmed"},
             id : Codes, n : Nonces, ok : BOOLEAN]
Words == {"pair", "accept", "strike", "grant", "ungrant", "trusted", "struck"}

LanTypeOK ==
  /\ acl \in [Devices -> Standings] /\ row \in [Devices -> Standings]
  /\ shareable \in BOOLEAN /\ given \in BOOLEAN /\ wanted \in [Devices -> BOOLEAN]
  /\ pairing \in [Devices -> Pairings]
  /\ loop \in [Devices -> {"running", "waiting"}]
  /\ commands \in [Devices -> Seq(Words)] /\ events \in [Devices -> Seq(Words)]
  /\ lost \in [Devices -> SUBSET Words]
  /\ link \in [Devices -> BOOLEAN]
  /\ wire \subseteq Messages
  /\ search \in [pc : {"idle", "authorized", "scoped", "leased"}, hit : BOOLEAN]
  /\ confirmed \subseteq Devices \X Codes
  /\ \A d \in Devices : row[d] = "granted" => d = Owner /\ shareable

(* A device trusts another, or is about to store that it does, only when the    *)
(* runtimes of both confirmed one and the same code, however the two Hellos     *)
(* and the two Confirms cross and whichever sessions they replace.             *)
TrustIsMutual ==
  \A d \in Devices :
    IsTrusted(row[d]) \/ IsTrusted(acl[d]) \/ Holds(events[d], "trusted") =>
      \E c \in Codes :
        <<d, c>> \in confirmed /\ (c = NoCode \/ <<Other(d), c>> \in confirmed)

(* A stored block is lifted in memory only while the attempt that lifted it     *)
(* runs, or until the trust it led to is stored; failures, expiry, lost         *)
(* connections and a restart of the network restore it.  Trust that the restart *)
(* dropped before it was stored is the one exception.                          *)
BlockIsRestored ==
  \A d \in Devices :
    row[d] = "blocked" /\ acl[d] # "blocked" =>
      \/ pairing[d].marker /\ AttemptActive(d)
      \/ Holds(events[d], "trusted") \/ "trusted" \in lost[d]

(* After the person rejected or revoked the other device, stored trust is left  *)
(* only while the runtime or the worker has still to carry that out, even when  *)
(* trust agreed before arrives late; a crash in between may keep it.           *)
StruckStaysOut ==
  \A d \in Devices :
    ~wanted[d] /\ (IsTrusted(row[d]) \/ IsTrusted(acl[d])) =>
      Holds(commands[d], "strike") \/ Holds(events[d], "struck")
      \/ lost[d] \intersect {"strike", "struck"} # {}

(* An answer that is being handed over holds evidence only of a wiki that the   *)
(* person grants at that moment: what was taken back or withdrawn while the     *)
(* search ran is gone from it.                                                *)
EvidenceIsGiven ==
  search.pc = "leased" /\ search.hit => given

(* A lease is returned: a search holds up changes of access for a moment only.  *)
LeaseEnds == \A d \in Devices : Leased(d) ~> ~Leased(d)

================================================================================
