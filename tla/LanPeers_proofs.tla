------------------------------ MODULE LanPeers_proofs ------------------------------
(***************************************************************************)
(* Proofs about LanPeers, for every two devices, everything they may have  *)
(* stored before and every bound on nonces, commands and turns.  Each part *)
(* strengthens one property to an inductive one; LanInv joins them.        *)
(***************************************************************************)
EXTENDS LanPeers, TLAPS

(* There are two devices, each the other of the other.                         *)
LEMMA OtherDevice ==
  ASSUME NEW d \in Devices
  PROVE  /\ Other(d) \in Devices /\ Other(d) # d /\ Other(Other(d)) = d
         /\ \A e \in Devices : e = d \/ e = Other(d)
<1>1. PICK a \in Devices, b \in Devices : a # b /\ Devices = {a, b}
  BY LanBounds
<1>2. \A e \in Devices : \E f \in Devices : f # e
  BY <1>1
<1>3. \A e \in Devices : Other(e) \in Devices /\ Other(e) # e
  BY <1>2 DEF Other
<1> QED
  BY <1>1, <1>3

(* A code is made of the nonces of both; a code with an own nonce is a code.   *)
LEMMA CodeType ==
  ASSUME NEW d \in Devices, NEW mine \in Nonces, NEW theirs \in Nonces
  PROVE  /\ Code(d, mine, theirs) \in Codes /\ NoCode \in Codes
         /\ mine # 0 => Code(d, mine, theirs) # NoCode
<1>1. 0 \in Nonces
  BY LanBounds DEF Nonces
<1>2. Code(d, mine, theirs) \in Codes /\ NoCode \in Codes
  BY <1>1 DEF Code, NoCode, Codes
<1>3. Code(d, mine, theirs)[d] = mine /\ NoCode[d] = 0
  BY DEF Code, NoCode
<1> QED
  BY <1>2, <1>3

(* A new nonce is a nonce and no zero.                                         *)
LEMMA FreshType == \A n \in Fresh : n \in Nonces /\ n # 0
BY LanBounds DEF Fresh, Nonces

(* A new session is unconfirmed on both sides.                                 *)
LEMMA SessionType ==
  ASSUME NEW c \in Codes
  PROVE  /\ Session(c) \in Sessions /\ Session(c).code = c
         /\ ~Session(c).local /\ ~Session(c).remote
BY DEF Session, Sessions

(* The idle pairing state has its type.                                        *)
LEMMA NoPairingType == NoCode \in Codes /\ NoSession \in Sessions /\ NoPairing \in Pairings
<1>1. 0 \in Nonces
  BY LanBounds DEF Nonces
<1>2. NoCode \in Codes
  BY <1>1 DEF NoCode, Codes
<1>3. NoSession \in Sessions
  BY <1>2 DEF NoSession, Session, Sessions
<1> QED
  BY <1>1, <1>2, <1>3 DEF NoPairing, Pairings

(* What a device sends is a message.                                           *)
LEMMA MessageTypes ==
  ASSUME NEW d \in Devices
  PROVE  /\ \A n \in Nonces : Hello(d, n) \in Messages
         /\ \A c \in Codes : Confirm(d, c) \in Messages
         /\ \A m \in Messages, n \in Nonces, ok \in BOOLEAN :
              m.kind \in {"hello", "confirm"} => Answer(m, n, ok) \in Messages
<1>1. 0 \in Nonces
  BY LanBounds DEF Nonces
<1>2. ASSUME NEW n \in Nonces PROVE Hello(d, n) \in Messages
  BY <1>1, OtherDevice, CodeType DEF Hello, Messages
<1>3. ASSUME NEW c \in Codes PROVE Confirm(d, c) \in Messages
  BY <1>1, OtherDevice DEF Confirm, Messages
<1>4. ASSUME NEW m \in Messages, NEW n \in Nonces, NEW ok \in BOOLEAN,
             m.kind \in {"hello", "confirm"}
      PROVE  Answer(m, n, ok) \in Messages
  BY <1>4, OtherDevice DEF Answer, AnswerTo, Messages
<1> QED
  BY <1>2, <1>3, <1>4

(* The types of a search.                                                      *)
Searches == [pc : {"idle", "authorized", "scoped", "leased"}, hit : BOOLEAN]

(* A search at any step is a search.                                           *)
LEMMA SearchTypes ==
  \A at \in {"idle", "authorized", "scoped", "leased"}, hit \in BOOLEAN :
    [pc |-> at, hit |-> hit] \in Searches
BY DEF Searches

(* Trust lifts a block and never grants; taking a grant away keeps the trust.  *)
LEMMA StandingTypes ==
  ASSUME NEW s \in Standings
  PROVE  /\ WithTrust(s) \in Standings /\ WithoutGrant(s) \in Standings
         /\ WithoutGrant(s) # "granted"
         /\ WithTrust(s) = "granted" => s = "granted"
         /\ WithTrust(s) # "blocked"
         /\ IsTrusted(WithoutGrant(s)) <=> IsTrusted(s)
         /\ WithoutGrant(s) = "blocked" <=> s = "blocked"
BY DEF WithTrust, WithoutGrant, IsTrusted, Standings

(* The parts of the pairing state of a device have their types.                *)
LEMMA PairingTypes ==
  ASSUME NEW d \in Devices, LanTypeOK
  PROVE  /\ pairing[d] \in Pairings /\ pairing[d].session \in Sessions
         /\ pairing[d].dial \in Nonces /\ pairing[d].hello \in Nonces /\ 0 \in Nonces
         /\ pairing[d].session.code \in Codes
BY LanBounds DEF LanTypeOK, Pairings, Sessions, Nonces

(* Changes of a dial, a Hello, a session, a mark or an open Confirm keep the   *)
(* type.                                                                       *)
LEMMA PairingChanges ==
  ASSUME NEW p \in Pairings
  PROVE  /\ \A n \in Nonces : /\ [p EXCEPT !.dial = n] \in Pairings
                              /\ [p EXCEPT !.hello = n] \in Pairings
         /\ \A s \in Sessions : [p EXCEPT !.session = s] \in Pairings
         /\ \A b \in BOOLEAN : [p EXCEPT !.marker = @ \/ b] \in Pairings
         /\ \A c : [p EXCEPT !.confirms = @ \ {c}] \in Pairings
BY DEF Pairings

(* So do the changes of several parts that the handlers make.                  *)
LEMMA SessionChanges ==
  ASSUME NEW p \in Pairings
  PROVE  /\ [p EXCEPT !.session.remote = TRUE] \in Pairings
         /\ \A s \in Sessions :
              /\ [p EXCEPT !.hello = 0, !.session = s] \in Pairings
              /\ [p EXCEPT !.dial = 0, !.session = s, !.marker = FALSE] \in Pairings
              /\ [p EXCEPT !.session = s, !.dial = 0, !.marker = FALSE] \in Pairings
         /\ \A n \in Nonces : [p EXCEPT !.dial = 0, !.hello = n] \in Pairings
         /\ \A c \in Codes :
              [p EXCEPT !.session.local = TRUE, !.confirms = @ \union {c}] \in Pairings
<1>1. 0 \in Nonces
  BY LanBounds DEF Nonces
<1>2. p.session \in Sessions /\ p.confirms \in SUBSET Codes
  BY DEF Pairings
<1>3. /\ [p.session EXCEPT !.remote = TRUE] \in Sessions
      /\ [p.session EXCEPT !.local = TRUE] \in Sessions
  BY <1>2 DEF Sessions
<1>4. [p EXCEPT !.session.remote = TRUE]
        = [p EXCEPT !.session = [p.session EXCEPT !.remote = TRUE]]
  BY DEF Pairings
<1>5. [p EXCEPT !.session.remote = TRUE] \in Pairings
  BY <1>3, <1>4, PairingChanges
<1>6. ASSUME NEW c \in Codes
      PROVE  [p EXCEPT !.session.local = TRUE, !.confirms = @ \union {c}] \in Pairings
  <2>1. [p EXCEPT !.session.local = TRUE, !.confirms = @ \union {c}]
          = [p EXCEPT !.session = [p.session EXCEPT !.local = TRUE], !.confirms = @ \union {c}]
    BY DEF Pairings
  <2>2. p.confirms \union {c} \in SUBSET Codes
    BY <1>2
  <2> QED
    BY <1>3, <2>1, <2>2 DEF Pairings
<1>7. ASSUME NEW s \in Sessions
      PROVE  /\ [p EXCEPT !.hello = 0, !.session = s] \in Pairings
             /\ [p EXCEPT !.dial = 0, !.session = s, !.marker = FALSE] \in Pairings
             /\ [p EXCEPT !.session = s, !.dial = 0, !.marker = FALSE] \in Pairings
  BY <1>1 DEF Pairings
<1>8. \A n \in Nonces : [p EXCEPT !.dial = 0, !.hello = n] \in Pairings
  BY <1>1 DEF Pairings
<1> QED
  BY <1>5, <1>6, <1>7, <1>8

(* Appending and taking the head keep the type of a queue.                     *)
LEMMA QueueTypes ==
  ASSUME NEW q \in Seq(Words)
  PROVE  /\ \A w \in Words : Append(q, w) \in Seq(Words)
         /\ q # <<>> => Tail(q) \in Seq(Words) /\ Head(q) \in Words
         /\ Elements(q) \subseteq Words
BY DEF Elements

(* What a queue holds after an append or without its head.                     *)
LEMMA Elementwise ==
  ASSUME NEW q \in Seq(Words)
  PROVE  /\ \A w, e \in Words : Holds(Append(q, e), w) <=> Holds(q, w) \/ w = e
         /\ \A w \in Words : q # <<>> /\ Holds(Tail(q), w) => Holds(q, w)
         /\ \A w \in Words : q # <<>> /\ Holds(q, w) => Head(q) = w \/ Holds(Tail(q), w)
         /\ \A w \in Words : Holds(q, w) <=> w \in Elements(q)
<1>1. \A w, e \in Words : Holds(Append(q, e), w) <=> Holds(q, w) \/ w = e
  BY DEF Holds
<1>2. \A w \in Words : q # <<>> /\ Holds(Tail(q), w) => Holds(q, w)
  BY DEF Holds
<1>3. \A w \in Words : q # <<>> /\ Holds(q, w) => Head(q) = w \/ Holds(Tail(q), w)
  <2> SUFFICES ASSUME NEW w \in Words, q # <<>>, NEW i \in DOMAIN q, q[i] = w, i # 1
               PROVE  Holds(Tail(q), w)
    BY DEF Holds
  <2>1. i - 1 \in DOMAIN Tail(q) /\ Tail(q)[i - 1] = w
    OBVIOUS
  <2> QED
    BY <2>1 DEF Holds
<1>4. \A w \in Words : Holds(q, w) <=> w \in Elements(q)
  BY DEF Holds, Elements
<1> QED
  BY <1>1, <1>2, <1>3, <1>4

(* enforce_peer_block waits for the gate, blocks and disconnects.              *)
LEMMA BlockedRuntime ==
  ASSUME NEW d \in Devices, LanTypeOK, EnforceBlock(d)
  PROVE  /\ acl' = [acl EXCEPT ![d] = "blocked"] /\ GateIsOpen(d)
         /\ link' \in [Devices -> BOOLEAN] /\ wire' = {}
BY DEF EnforceBlock, SetAcl, Disconnected

(* A failed attempt leaves the idle state, and the block that it lifted is     *)
(* back.                                                                       *)
LEMMA EndedAttempt ==
  ASSUME NEW d \in Devices, LanTypeOK, NEW w \in SUBSET Messages, EndAttempt(d, w)
  PROVE  /\ pairing' = [pairing EXCEPT ![d] = NoPairing]
         /\ pairing' \in [Devices -> Pairings]
         /\ acl' = IF pairing[d].marker THEN [acl EXCEPT ![d] = "blocked"] ELSE acl
         /\ acl' \in [Devices -> Standings]
         /\ link' \in [Devices -> BOOLEAN] /\ wire' \subseteq w
         /\ pairing[d].marker => GateIsOpen(d)
BY BlockedRuntime, NoPairingType DEF EndAttempt, SetPairing, LanTypeOK, Standings

(* complete_pairing_if_ready keeps the types.                                  *)
LEMMA CompletedType ==
  ASSUME NEW d \in Devices, LanTypeOK, NEW p \in Pairings, Completed(d, p)
  PROVE  /\ pairing' \in [Devices -> Pairings]
         /\ events' \in [Devices -> Seq(Words)]
<1>1. /\ NoPairing \in Pairings
      /\ [p EXCEPT !.session = NoSession, !.dial = 0, !.marker = FALSE] \in Pairings
  BY NoPairingType, SessionChanges
<1>2. pairing' \in [Devices -> Pairings]
  BY <1>1 DEF Completed, SetPairing, LanTypeOK
<1>3. Append(events[d], "trusted") \in Seq(Words) /\ events \in [Devices -> Seq(Words)]
  BY QueueTypes DEF Words, LanTypeOK
<1>4. events' \in [Devices -> Seq(Words)]
  BY <1>3 DEF Completed, Emit
<1> QED
  BY <1>2, <1>4

(* begin_pairing keeps the types.                                              *)
LEMMA BeginTypes ==
  ASSUME NEW d \in Devices, LanTypeOK, Begin(d)
  PROVE  LanTypeOK'
<1> USE DEF LanTypeOK
<1>1. commands' \in [Devices -> Seq(Words)]
  BY QueueTypes DEF Begin, NextCommand
<1>2. CASE AttemptActive(d)
  BY <1>1, <1>2 DEF Begin, history
<1>3. CASE ~AttemptActive(d)
  <2>1. acl' \in [Devices -> Standings]
    BY <1>3 DEF Begin, SetAcl, Standings
  <2>2. PICK n \in Fresh :
          LET p == [pairing[d] EXCEPT !.marker = @ \/ acl[d] = "blocked"]
          IN IF link[d]
             THEN SetPairing(d, [p EXCEPT !.hello = n]) /\ Send(Hello(d, n))
             ELSE SetPairing(d, [p EXCEPT !.dial = n]) /\ UNCHANGED wire
    BY <1>3 DEF Begin
  <2> DEFINE p == [pairing[d] EXCEPT !.marker = @ \/ acl[d] = "blocked"]
  <2>3. n \in Nonces
    BY FreshType
  <2>4. p \in Pairings
    BY PairingTypes, PairingChanges
  <2>5. [p EXCEPT !.hello = n] \in Pairings /\ [p EXCEPT !.dial = n] \in Pairings
    BY <2>3, <2>4, PairingChanges
  <2>6. pairing' \in [Devices -> Pairings]
    <3> HIDE DEF p
    <3> QED
      BY <2>2, <2>5 DEF SetPairing, p
  <2>7. wire' \subseteq Messages
    BY <2>2, <2>3, MessageTypes DEF Send
  <2> QED
    BY <1>1, <2>1, <2>6, <2>7 DEF Begin, history
<1> QED
  BY <1>2, <1>3

(* confirm_local keeps the types.                                              *)
LEMMA ConfirmLocalTypes ==
  ASSUME NEW d \in Devices, LanTypeOK, ConfirmLocal(d)
  PROVE  LanTypeOK'
<1> USE DEF LanTypeOK
<1>1. commands' \in [Devices -> Seq(Words)]
  BY QueueTypes DEF ConfirmLocal, NextCommand
<1>2. CASE ~HasSession(d)
  BY <1>1, <1>2 DEF ConfirmLocal, trust
<1>3. CASE HasSession(d)
  <2> DEFINE c == SessionOf(d).code
             p == [pairing[d] EXCEPT !.session.local = TRUE, !.confirms = @ \union {c}]
  <2>1. c \in Codes
    BY PairingTypes DEF SessionOf
  <2>2. p \in Pairings
    BY <2>1, PairingTypes, SessionChanges
  <2>3. Completed(d, p) /\ confirmed' = confirmed \union {<<d, c>>} /\ Send(Confirm(d, c))
    BY <1>3 DEF ConfirmLocal
  <2> HIDE DEF p, c
  <2>4. pairing' \in [Devices -> Pairings] /\ events' \in [Devices -> Seq(Words)]
    BY <2>2, <2>3, CompletedType
  <2>5. wire' \subseteq Messages /\ confirmed' \subseteq Devices \X Codes
    BY <2>1, <2>3, MessageTypes DEF Send
  <2> QED
    BY <1>1, <2>4, <2>5 DEF ConfirmLocal, trust
<1> QED
  BY <1>2, <1>3

(* The parts of a message on its way have their types.                         *)
LEMMA MessageFields ==
  ASSUME LanTypeOK, NEW m \in wire
  PROVE  /\ m \in Messages /\ m.to \in Devices /\ m.id \in Codes /\ m.n \in Nonces
         /\ m.ok \in BOOLEAN /\ \A e \in Devices : m.id[e] \in Nonces
BY DEF LanTypeOK, Messages, Codes

(* The answer to a Hello keeps the types.                                      *)
LEMMA ReceiveHelloTypes ==
  ASSUME LanTypeOK, NEW m \in wire, ReceiveHello(m)
  PROVE  LanTypeOK'
<1> USE DEF LanTypeOK
<1> DEFINE d == m.to
<1>1. m \in Messages /\ d \in Devices /\ m.n \in Nonces /\ 0 \in Nonces
  BY MessageFields, LanBounds DEF Nonces
<1>2. m.kind = "hello"
  BY DEF ReceiveHello, Delivered
<1>3. CASE acl[d] = "blocked"
  <2>1. wire' \subseteq Messages
    <3>1. Answer(m, 0, FALSE) \in Messages
      BY <1>1, <1>2, MessageTypes
    <3> QED
      BY <1>3, <3>1 DEF ReceiveHello, Reply
  <2> QED
    BY <1>3, <2>1 DEF ReceiveHello, trust, queues, history
<1>4. CASE acl[d] # "blocked"
  <2>1. PICK n \in Fresh :
          /\ SetPairing(d, [pairing[d] EXCEPT !.session = Session(Code(d, n, m.n))])
          /\ Reply(m, Answer(m, n, TRUE))
    BY <1>4 DEF ReceiveHello
  <2>2. n \in Nonces /\ Session(Code(d, n, m.n)) \in Sessions
    BY <1>1, FreshType, CodeType, SessionType
  <2>3. wire' \subseteq Messages
    BY <1>1, <1>2, <2>1, <2>2, MessageTypes DEF Reply
  <2>4. pairing' \in [Devices -> Pairings]
    BY <1>1, <2>1, <2>2, PairingTypes, PairingChanges DEF SetPairing
  <2> QED
    BY <2>3, <2>4 DEF ReceiveHello, trust, queues, history
<1> QED
  BY <1>3, <1>4

(* What the answer to a Hello causes keeps the types.                          *)
LEMMA ReceiveHelloedTypes ==
  ASSUME LanTypeOK, NEW m \in wire, ReceiveHelloed(m)
  PROVE  LanTypeOK'
<1> USE DEF LanTypeOK
<1> DEFINE d == m.to
           s == Session(Code(d, pairing[d].hello, m.n))
           p == [pairing[d] EXCEPT !.hello = 0, !.session = s]
<1>1. m \in Messages /\ d \in Devices /\ m.n \in Nonces
  BY MessageFields
<1>2. CASE SetPairing(d, p) /\ wire' = wire \ {m} /\ UNCHANGED <<acl, link>>
  <2>1. pairing[d].hello \in Nonces
    BY <1>1, PairingTypes
  <2>2. s \in Sessions
    BY <1>1, <2>1, CodeType, SessionType
  <2>3. p \in Pairings
    <3> HIDE DEF s
    <3> QED
      BY <1>1, <2>2, PairingTypes, SessionChanges
  <2> HIDE DEF p
  <2>4. pairing' \in [Devices -> Pairings]
    BY <1>1, <1>2, <2>3 DEF SetPairing
  <2> QED
    BY <1>2, <2>4 DEF ReceiveHelloed, queues, history
<1>3. CASE EndAttempt(d, wire \ {m})
  <2>1. wire \ {m} \in SUBSET Messages
    OBVIOUS
  <2> QED
    BY <1>1, <1>3, <2>1, EndedAttempt DEF ReceiveHelloed, queues, history
<1>4. CASE wire' = wire \ {m} /\ UNCHANGED <<acl, pairing, link>>
  BY <1>4 DEF ReceiveHelloed, queues, history
<1> QED
  BY <1>2, <1>3, <1>4 DEF ReceiveHelloed

(* The answer to a Confirm keeps the types.                                    *)
LEMMA ReceiveConfirmTypes ==
  ASSUME LanTypeOK, NEW m \in wire, ReceiveConfirm(m)
  PROVE  LanTypeOK'
<1> USE DEF LanTypeOK
<1> DEFINE d == m.to
           p == [pairing[d] EXCEPT !.session.remote = TRUE]
           both == IF p.session.local THEN 1 ELSE 0
<1>1. m \in Messages /\ d \in Devices /\ m.kind = "confirm"
  BY MessageFields DEF ReceiveConfirm, Delivered
<1>2. p \in Pairings
  BY <1>1, PairingTypes, SessionChanges
<1>3. both \in Nonces /\ 0 \in Nonces
  BY LanBounds DEF Nonces
<1> HIDE DEF p, both
<1>4. wire' \subseteq Messages
  <2>1. Answer(m, both, TRUE) \in Messages /\ Answer(m, 0, FALSE) \in Messages
    BY <1>1, <1>3, MessageTypes
  <2> QED
    BY <2>1 DEF ReceiveConfirm, Reply, p, both
<1>5. CASE Completed(d, p)
  BY <1>1, <1>2, <1>4, <1>5, CompletedType DEF ReceiveConfirm, trust, history
<1>6. CASE UNCHANGED <<pairing, events>>
  BY <1>4, <1>6 DEF ReceiveConfirm, trust, history
<1> QED
  BY <1>5, <1>6 DEF ReceiveConfirm, p

(* What the answer to a Confirm causes keeps the types.                        *)
LEMMA ReceiveConfirmedTypes ==
  ASSUME LanTypeOK, NEW m \in wire, ReceiveConfirmed(m)
  PROVE  LanTypeOK'
<1> USE DEF LanTypeOK
<1> DEFINE d == m.to
           p == [pairing[d] EXCEPT !.confirms = @ \ {m.id}]
           q == IF m.n = 1 /\ HasSession(d) THEN [p EXCEPT !.session.remote = TRUE] ELSE p
<1>1. m \in Messages /\ d \in Devices
  BY MessageFields
<1>2. p \in Pairings
  BY <1>1, PairingTypes, PairingChanges
<1>3. q \in Pairings
  <2> HIDE DEF p
  <2> QED
    BY <1>2, SessionChanges
<1> HIDE DEF p, q
<1>4. CASE Completed(d, q) /\ wire' = wire \ {m} /\ UNCHANGED <<acl, link>>
  <2>1. pairing' \in [Devices -> Pairings] /\ events' \in [Devices -> Seq(Words)]
    BY <1>1, <1>3, <1>4, CompletedType
  <2> QED
    BY <1>4, <2>1 DEF ReceiveConfirmed, history
<1>5. CASE EndAttempt(d, wire \ {m}) /\ UNCHANGED events
  <2>1. wire \ {m} \in SUBSET Messages
    OBVIOUS
  <2> QED
    BY <1>1, <1>5, <2>1, EndedAttempt DEF ReceiveConfirmed, history
<1>6. CASE wire' = wire \ {m} /\ UNCHANGED <<acl, pairing, events, link>>
  BY <1>6 DEF ReceiveConfirmed, history
<1> QED
  BY <1>4, <1>5, <1>6 DEF ReceiveConfirmed, p, q

(* A new connection keeps the types.                                           *)
LEMMA ConnectTypes ==
  ASSUME NEW d \in Devices, LanTypeOK, Connect(d)
  PROVE  LanTypeOK'
<1> USE DEF LanTypeOK
<1>1. /\ pairing[d].dial \in Nonces /\ NoSession \in Sessions
      /\ [pairing[d] EXCEPT !.dial = 0, !.session = NoSession, !.marker = FALSE] \in Pairings
      /\ [pairing[d] EXCEPT !.dial = 0, !.hello = pairing[d].dial] \in Pairings
  BY NoPairingType, PairingTypes, SessionChanges
<1>2. pairing' \in [Devices -> Pairings]
  BY <1>1 DEF Connect, SetPairing
<1>3. wire' \subseteq Messages /\ link' \in [Devices -> BOOLEAN]
  <2>1. Hello(d, pairing[d].dial) \in Messages
    BY <1>1, MessageTypes
  <2> QED
    BY <2>1 DEF Connect, Send, Disconnected
<1> QED
  BY <1>2, <1>3 DEF Connect, trust, queues, history

(* A Confirm that fails keeps the types.                                       *)
LEMMA ConfirmFailsTypes ==
  ASSUME NEW d \in Devices, LanTypeOK, ConfirmFails(d)
  PROVE  LanTypeOK'
<1> USE DEF LanTypeOK
<1>1. PICK c \in pairing[d].confirms :
        /\ SetPairing(d, [pairing[d] EXCEPT !.confirms = @ \ {c}])
        /\ wire' = wire \ About("confirm", c)
  BY DEF ConfirmFails
<1>2. [pairing[d] EXCEPT !.confirms = @ \ {c}] \in Pairings
  BY PairingTypes, PairingChanges
<1>3. pairing' \in [Devices -> Pairings]
  BY <1>1, <1>2 DEF SetPairing
<1> QED
  BY <1>1, <1>3 DEF ConfirmFails, trust, queues, history

(* Every step keeps the types.                                                 *)
LEMMA TypeStep == LanTypeOK /\ [Next]_lanVars => LanTypeOK'
<1> SUFFICES ASSUME LanTypeOK, [Next]_lanVars PROVE LanTypeOK'
  OBVIOUS
<1>1. ASSUME NEW d \in Devices, Begin(d) PROVE LanTypeOK'
  BY <1>1, BeginTypes
<1>2. ASSUME NEW d \in Devices, ConfirmLocal(d) PROVE LanTypeOK'
  BY <1>2, ConfirmLocalTypes
<1>3. ASSUME NEW d \in Devices, StrikePairing(d) PROVE LanTypeOK'
  <2>1. /\ pairing' = [pairing EXCEPT ![d] = NoPairing]
        /\ EnforceBlock(d)
        /\ commands' = [commands EXCEPT ![d] = Tail(@)] /\ commands[d] # <<>>
        /\ events' = [events EXCEPT ![d] = Append(@, "struck")]
    BY <1>3 DEF StrikePairing, NextCommand, SetPairing, Emit
  <2>2. commands' \in [Devices -> Seq(Words)] /\ events' \in [Devices -> Seq(Words)]
    BY <2>1, QueueTypes DEF LanTypeOK, Words
  <2>3. pairing' \in [Devices -> Pairings] /\ acl' \in [Devices -> Standings]
    BY <2>1, NoPairingType, BlockedRuntime DEF LanTypeOK, Standings
  <2> QED
    BY <1>3, <2>1, <2>2, <2>3, BlockedRuntime DEF StrikePairing, history, LanTypeOK
<1>4. ASSUME NEW d \in Devices, ApplyGrant(d) PROVE LanTypeOK'
  BY <1>4, QueueTypes
  DEF ApplyGrant, NextCommand, SetAcl, network, history, LanTypeOK, Standings, Words
<1>5. ASSUME NEW d \in Devices, ApplyUngrant(d) PROVE LanTypeOK'
  BY <1>5, QueueTypes, StandingTypes
  DEF ApplyUngrant, NextCommand, SetAcl, network, history, LanTypeOK, Standings, Words
<1>6. ASSUME NEW d \in Devices, HelloFails(d) PROVE LanTypeOK'
  <2> DEFINE w == wire \ About("hello", Code(d, pairing[d].hello, 0))
  <2>1. w \in SUBSET Messages
    BY DEF LanTypeOK
  <2>2. EndAttempt(d, w)
    BY <1>6 DEF HelloFails
  <2> HIDE DEF w
  <2>3. wire' \subseteq Messages
    BY <2>1, <2>2, EndedAttempt
  <2> QED
    BY <1>6, <2>1, <2>2, <2>3, EndedAttempt DEF HelloFails, queues, history, LanTypeOK
<1>7. ASSUME NEW d \in Devices, ConfirmFails(d) PROVE LanTypeOK'
  BY <1>7, ConfirmFailsTypes
<1>8. ASSUME NEW d \in Devices, Wait(d) PROVE LanTypeOK'
  BY <1>8
  DEF Wait, trust, queues, network, history, LanTypeOK
<1>9. ASSUME NEW d \in Devices, Connect(d) PROVE LanTypeOK'
  BY <1>9, ConnectTypes
<1>10. ASSUME NEW d \in Devices, DialFails(d) PROVE LanTypeOK'
  BY <1>10, EndedAttempt
  DEF DialFails, queues, history, LanTypeOK
<1>11. ASSUME NEW d \in Devices, Expire(d) PROVE LanTypeOK'
  BY <1>11, EndedAttempt
  DEF Expire, queues, history, LanTypeOK
<1>12. ASSUME NEW d \in Devices, Pair(d) PROVE LanTypeOK'
  BY <1>12, QueueTypes
  DEF Pair, Command, trust, network, LanTypeOK, Words
<1>13. ASSUME NEW d \in Devices, Accept(d) PROVE LanTypeOK'
  BY <1>13, QueueTypes
  DEF Accept, SessionOf, Command, trust, network, LanTypeOK, Words
<1>14. ASSUME NEW d \in Devices, Strike(d) PROVE LanTypeOK'
  BY <1>14, QueueTypes, NoPairingType
  DEF Strike, SetAcl, Command, StoreBlock, network, SetRow, LanTypeOK, Standings, Words
<1>15. ASSUME NEW d \in Devices, Allow(d) PROVE LanTypeOK'
  BY <1>15
  DEF Allow, SetRow, SetAcl, queues, network, history, LanTypeOK, Standings
<1>16. ASSUME NEW d \in Devices, Grant(d) PROVE LanTypeOK'
  BY <1>16, QueueTypes
  DEF Grant, Decide, SetAcl, SetRow, Command, network, LanTypeOK, Standings, Words
<1>17. ASSUME NEW d \in Devices, Ungrant(d) PROVE LanTypeOK'
  <2>1. acl' \in [Devices -> Standings]
    BY <1>17, StandingTypes DEF Ungrant, SetAcl, LanTypeOK
  <2>2. commands' \in [Devices -> Seq(Words)]
    BY <1>17, QueueTypes DEF Ungrant, Command, LanTypeOK, Words
  <2>3. /\ row' \in [Devices -> Standings] /\ given' \in BOOLEAN
        /\ \A e \in Devices : row'[e] = "granted" => e = Owner /\ shareable
    BY <1>17 DEF Ungrant, SetRow, LanTypeOK, Standings
  <2> QED
    BY <1>17, <2>1, <2>2, <2>3 DEF Ungrant, network, LanTypeOK
<1>18. ASSUME NEW d \in Devices, SetPolicy(d) PROVE LanTypeOK'
  <2>1. d = Owner /\ shareable' = ~shareable
    BY <1>18 DEF SetPolicy, Decide
  <2>2. CASE shareable
    <3>1. /\ acl' = [acl EXCEPT ![d] = WithoutGrant(@)]
          /\ row' = [row EXCEPT ![d] = WithoutGrant(@)] /\ given' = FALSE
      BY <1>18, <2>2 DEF SetPolicy, SetAcl, SetRow
    <3>2. /\ acl' \in [Devices -> Standings] /\ row' \in [Devices -> Standings]
          /\ \A e \in Devices : row'[e] # "granted"
      BY <2>1, <3>1, StandingTypes DEF LanTypeOK
    <3> QED
      BY <1>18, <2>1, <3>1, <3>2 DEF SetPolicy, queues, network, LanTypeOK
  <2>3. CASE ~shareable
    BY <1>18, <2>1, <2>3 DEF SetPolicy, queues, network, LanTypeOK
  <2> QED
    BY <2>2, <2>3
<1>19. ASSUME NEW d \in Devices, PersistTrust(d) PROVE LanTypeOK'
  <2>1. events' \in [Devices -> Seq(Words)]
    BY <1>19, QueueTypes DEF PersistTrust, NextEvent, LanTypeOK
  <2>2. CASE UNCHANGED row /\ SetAcl(d, "blocked")
    BY <1>19, <2>1, <2>2 DEF PersistTrust, SetAcl, network, history, LanTypeOK, Standings
  <2>3. CASE SetRow(d, WithTrust(row[d])) /\ SetAcl(d, WithTrust(acl[d]))
    <3>1. /\ row' \in [Devices -> Standings] /\ acl' \in [Devices -> Standings]
          /\ \A e \in Devices : row'[e] = "granted" => row[e] = "granted"
      BY <2>3, StandingTypes DEF SetRow, SetAcl, LanTypeOK
    <3> QED
      BY <1>19, <2>1, <3>1 DEF PersistTrust, network, history, LanTypeOK
  <2> QED
    BY <1>19, <2>2, <2>3 DEF PersistTrust
<1>20. ASSUME NEW d \in Devices, PersistStrike(d) PROVE LanTypeOK'
  <2>1. events' \in [Devices -> Seq(Words)] /\ lost' \in [Devices -> SUBSET Words]
    <3>1. lost[d] \union {"struck"} \in SUBSET Words
      BY DEF LanTypeOK, Words
    <3> QED
      BY <1>20, <3>1, QueueTypes DEF PersistStrike, NextEvent, LanTypeOK
  <2>2. /\ acl' \in [Devices -> Standings] /\ row' \in [Devices -> Standings]
        /\ \A e \in Devices : row'[e] = "granted" => row[e] = "granted"
        /\ given' \in BOOLEAN /\ confirmed' \subseteq confirmed
    BY <1>20 DEF PersistStrike, SetAcl, SetRow, StoreBlock, LanTypeOK, Standings
  <2> QED
    BY <1>20, <2>1, <2>2 DEF PersistStrike, network, LanTypeOK
<1>21. ASSUME NEW d \in Devices, Reconcile(d) PROVE LanTypeOK'
  BY <1>21
  DEF Reconcile, Narrowed, SetAcl, queues, network, history, LanTypeOK, Standings
<1>22. ASSUME NEW d \in Devices, Ask(d) PROVE LanTypeOK'
  BY <1>22
  DEF Ask, NoSearch, trust, queues, network, history, LanTypeOK
<1>23. ASSUME NEW d \in Devices, Scope(d) PROVE LanTypeOK'
  <2>1. IsGranted(d) \in BOOLEAN
    BY DEF IsGranted
  <2>2. [pc |-> "scoped", hit |-> IsGranted(d)] \in Searches /\ NoSearch \in Searches
    BY <2>1, SearchTypes DEF NoSearch
  <2>3. search' \in Searches
    BY <1>23, <2>2 DEF Scope
  <2> QED
    BY <1>23, <2>3 DEF Scope, trust, queues, network, history, LanTypeOK, Searches
<1>24. ASSUME NEW d \in Devices, Lease(d) PROVE LanTypeOK'
  BY <1>24
  DEF Lease, trust, queues, network, history, LanTypeOK
<1>25. ASSUME NEW d \in Devices, HandOver(d) PROVE LanTypeOK'
  BY <1>25
  DEF HandOver, NoSearch, trust, queues, network, history, LanTypeOK
<1>26. ASSUME NEW d \in Devices, RestartLan(d) PROVE LanTypeOK'
  BY <1>26, QueueTypes, NoPairingType
  DEF RestartLan, Stopped, SetAcl, SetPairing, Disconnected, NoSearch, LanTypeOK, Standings,
     Words
<1>27. ASSUME NEW d \in Devices, Crash(d) PROVE LanTypeOK'
  BY <1>27, QueueTypes, NoPairingType
  DEF Crash, Stopped, SetAcl, SetPairing, Disconnected, NoSearch, LanTypeOK, Standings, Words
<1>28. ASSUME NEW m \in wire, ReceiveHello(m) PROVE LanTypeOK'
  BY <1>28, ReceiveHelloTypes
<1>29. ASSUME NEW m \in wire, ReceiveHelloed(m) PROVE LanTypeOK'
  BY <1>29, ReceiveHelloedTypes
<1>30. ASSUME NEW m \in wire, ReceiveConfirm(m) PROVE LanTypeOK'
  BY <1>30, ReceiveConfirmTypes
<1>31. ASSUME NEW m \in wire, ReceiveConfirmed(m) PROVE LanTypeOK'
  BY <1>31, ReceiveConfirmedTypes
<1>32. ASSUME Drop PROVE LanTypeOK'
  BY <1>32 DEF Drop, Disconnected, trust, queues, history, LanTypeOK
<1>33. ASSUME TimeOut PROVE LanTypeOK'
  BY <1>33 DEF TimeOut, NoSearch, trust, queues, network, history, LanTypeOK
<1>34. CASE UNCHANGED lanVars
  BY <1>34 DEF lanVars, trust, network, queues, history, LanTypeOK
<1> QED
  BY <1>1, <1>2, <1>3, <1>4, <1>5, <1>6, <1>7, <1>8, <1>9, <1>10, <1>11, <1>12, <1>13, <1>14,
     <1>15, <1>16, <1>17, <1>18, <1>19, <1>20, <1>21, <1>22, <1>23, <1>24, <1>25, <1>26, <1>27,
     <1>28, <1>29, <1>30, <1>31, <1>32, <1>33, <1>34
  DEF Next, Message, Handler, Person, Persist

-------------------------------------------------------------------------------
(* Evidence is of a granted wiki                                              *)

(* A stored grant is the last word of the person.                              *)
GrantsAreGiven == row[Owner] = "granted" => given

(* Evidence under a lease is of a wiki that SQLite says is granted.            *)
EvidenceIsGranted == search.pc = "leased" /\ search.hit => row[Owner] = "granted"

(* Every step keeps both: what changes a grant waits for the lease.            *)
LEMMA EvidenceStep ==
  ASSUME LanTypeOK, GrantsAreGiven, EvidenceIsGranted, [Next]_lanVars
  PROVE  GrantsAreGiven' /\ EvidenceIsGranted'
<1>1. ASSUME NEW d \in Devices, Begin(d) PROVE GrantsAreGiven' /\ EvidenceIsGranted'
  BY <1>1
  DEF Begin, NextCommand, GateIsOpen, SetAcl, SetPairing, Send, history, Leased, GrantsAreGiven,
     EvidenceIsGranted, LanTypeOK
<1>2. ASSUME NEW d \in Devices, ConfirmLocal(d) PROVE GrantsAreGiven' /\ EvidenceIsGranted'
  BY <1>2
  DEF ConfirmLocal, NextCommand, SessionOf, Send, trust, GrantsAreGiven, EvidenceIsGranted,
     LanTypeOK
<1>3. ASSUME NEW d \in Devices, StrikePairing(d) PROVE GrantsAreGiven' /\ EvidenceIsGranted'
  BY <1>3, BlockedRuntime
  DEF StrikePairing, NextCommand, SetPairing, Emit, history, GrantsAreGiven, EvidenceIsGranted,
     LanTypeOK
<1>4. ASSUME NEW d \in Devices, ApplyGrant(d) PROVE GrantsAreGiven' /\ EvidenceIsGranted'
  BY <1>4
  DEF ApplyGrant, NextCommand, GateIsOpen, SetAcl, network, history, Leased, GrantsAreGiven,
     EvidenceIsGranted, LanTypeOK
<1>5. ASSUME NEW d \in Devices, ApplyUngrant(d) PROVE GrantsAreGiven' /\ EvidenceIsGranted'
  BY <1>5, StandingTypes
  DEF ApplyUngrant, NextCommand, GateIsOpen, SetAcl, network, history, Leased, GrantsAreGiven,
     EvidenceIsGranted, LanTypeOK
<1>6. ASSUME NEW d \in Devices, HelloFails(d) PROVE GrantsAreGiven' /\ EvidenceIsGranted'
  BY <1>6
  DEF HelloFails, queues, history, GrantsAreGiven, EvidenceIsGranted, LanTypeOK
<1>7. ASSUME NEW d \in Devices, ConfirmFails(d) PROVE GrantsAreGiven' /\ EvidenceIsGranted'
  BY <1>7
  DEF ConfirmFails, SetPairing, trust, queues, history, GrantsAreGiven, EvidenceIsGranted,
     LanTypeOK
<1>8. ASSUME NEW d \in Devices, Wait(d) PROVE GrantsAreGiven' /\ EvidenceIsGranted'
  BY <1>8
  DEF Wait, GateIsOpen, trust, queues, network, history, Leased, GrantsAreGiven,
     EvidenceIsGranted, LanTypeOK
<1>9. ASSUME NEW d \in Devices, Connect(d) PROVE GrantsAreGiven' /\ EvidenceIsGranted'
  BY <1>9
  DEF Connect, SetPairing, Disconnected, Send, trust, queues, history, GrantsAreGiven,
     EvidenceIsGranted, LanTypeOK
<1>10. ASSUME NEW d \in Devices, DialFails(d) PROVE GrantsAreGiven' /\ EvidenceIsGranted'
  BY <1>10
  DEF DialFails, queues, history, GrantsAreGiven, EvidenceIsGranted, LanTypeOK
<1>11. ASSUME NEW d \in Devices, Expire(d) PROVE GrantsAreGiven' /\ EvidenceIsGranted'
  BY <1>11
  DEF Expire, queues, history, GrantsAreGiven, EvidenceIsGranted, LanTypeOK
<1>12. ASSUME NEW d \in Devices, Pair(d) PROVE GrantsAreGiven' /\ EvidenceIsGranted'
  BY <1>12
  DEF Pair, Command, trust, network, GrantsAreGiven, EvidenceIsGranted, LanTypeOK
<1>13. ASSUME NEW d \in Devices, Accept(d) PROVE GrantsAreGiven' /\ EvidenceIsGranted'
  BY <1>13
  DEF Accept, SessionOf, Command, trust, network, GrantsAreGiven, EvidenceIsGranted, LanTypeOK
<1>14. ASSUME NEW d \in Devices, Strike(d) PROVE GrantsAreGiven' /\ EvidenceIsGranted'
  <2>1. (d = Owner => search.pc # "leased") /\ UNCHANGED search
    BY <1>14 DEF Strike, network, GateIsOpen, Leased
  <2>2. CASE UNCHANGED <<row, given>>
    BY <2>1, <2>2 DEF GrantsAreGiven, EvidenceIsGranted
  <2>3. CASE StoreBlock(d)
    <3>1. row' = [row EXCEPT ![d] = "blocked"] /\ given' = IF d = Owner THEN FALSE ELSE given
      BY <2>3 DEF StoreBlock, SetRow
    <3>2. row'[Owner] = IF d = Owner THEN "blocked" ELSE row[Owner]
      BY <3>1, LanBounds DEF LanTypeOK
    <3> QED
      BY <2>1, <3>1, <3>2 DEF GrantsAreGiven, EvidenceIsGranted
  <2> QED
    BY <1>14, <2>2, <2>3 DEF Strike
<1>15. ASSUME NEW d \in Devices, Allow(d) PROVE GrantsAreGiven' /\ EvidenceIsGranted'
  BY <1>15
  DEF Allow, GateIsOpen, SetRow, SetAcl, queues, network, history, Leased, GrantsAreGiven,
     EvidenceIsGranted, LanTypeOK
<1>16. ASSUME NEW d \in Devices, Grant(d) PROVE GrantsAreGiven' /\ EvidenceIsGranted'
  BY <1>16
  DEF Grant, Decide, SetAcl, SetRow, Command, network, GateIsOpen, Leased, GrantsAreGiven,
     EvidenceIsGranted, LanTypeOK
<1>17. ASSUME NEW d \in Devices, Ungrant(d) PROVE GrantsAreGiven' /\ EvidenceIsGranted'
  <2>1. d = Owner /\ search.pc # "leased" /\ UNCHANGED search
    BY <1>17 DEF Ungrant, Decide, GateIsOpen, Leased
  <2>2. UNCHANGED <<row, given>> \/ row' = [row EXCEPT ![Owner] = "trusted"]
    BY <1>17, <2>1 DEF Ungrant, SetRow
  <2> QED
    BY <2>1, <2>2, LanBounds DEF LanTypeOK, GrantsAreGiven, EvidenceIsGranted
<1>18. ASSUME NEW d \in Devices, SetPolicy(d) PROVE GrantsAreGiven' /\ EvidenceIsGranted'
  BY <1>18, StandingTypes
  DEF SetPolicy, Decide, SetAcl, SetRow, queues, network, GateIsOpen, Leased, GrantsAreGiven,
     EvidenceIsGranted, LanTypeOK
<1>19. ASSUME NEW d \in Devices, PersistTrust(d) PROVE GrantsAreGiven' /\ EvidenceIsGranted'
  <2>1. (d = Owner => search.pc # "leased") /\ UNCHANGED <<search, given>>
    BY <1>19 DEF PersistTrust, NextEvent, GateIsOpen, Leased, history
  <2>2. UNCHANGED row \/ row' = [row EXCEPT ![d] = WithTrust(row[d])]
    BY <1>19 DEF PersistTrust, SetRow
  <2>3. /\ row'[Owner] = "granted" => row[Owner] = "granted"
        /\ d # Owner => row'[Owner] = row[Owner]
    BY <2>2, StandingTypes, LanBounds DEF LanTypeOK
  <2> QED
    BY <2>1, <2>3 DEF GrantsAreGiven, EvidenceIsGranted
<1>20. ASSUME NEW d \in Devices, PersistStrike(d) PROVE GrantsAreGiven' /\ EvidenceIsGranted'
  <2>1. (d = Owner => search.pc # "leased") /\ UNCHANGED search
    BY <1>20 DEF PersistStrike, NextEvent, GateIsOpen, Leased
  <2>2. CASE UNCHANGED <<row, given>>
    BY <2>1, <2>2 DEF GrantsAreGiven, EvidenceIsGranted
  <2>3. CASE StoreBlock(d)
    <3>1. row' = [row EXCEPT ![d] = "blocked"] /\ given' = IF d = Owner THEN FALSE ELSE given
      BY <2>3 DEF StoreBlock, SetRow
    <3>2. row'[Owner] = IF d = Owner THEN "blocked" ELSE row[Owner]
      BY <3>1, LanBounds DEF LanTypeOK
    <3> QED
      BY <2>1, <3>1, <3>2 DEF GrantsAreGiven, EvidenceIsGranted
  <2> QED
    BY <1>20, <2>2, <2>3 DEF PersistStrike
<1>21. ASSUME NEW d \in Devices, Reconcile(d) PROVE GrantsAreGiven' /\ EvidenceIsGranted'
  BY <1>21
  DEF Reconcile, GateIsOpen, Narrowed, SetAcl, queues, network, history, Leased, GrantsAreGiven,
     EvidenceIsGranted, LanTypeOK
<1>22. ASSUME NEW d \in Devices, Ask(d) PROVE GrantsAreGiven' /\ EvidenceIsGranted'
  BY <1>22
  DEF Ask, NoSearch, trust, queues, network, history, GrantsAreGiven, EvidenceIsGranted,
     LanTypeOK
<1>23. ASSUME NEW d \in Devices, Scope(d) PROVE GrantsAreGiven' /\ EvidenceIsGranted'
  BY <1>23
  DEF Scope, IsGranted, NoSearch, trust, queues, network, history, GrantsAreGiven,
     EvidenceIsGranted, LanTypeOK
<1>24. ASSUME NEW d \in Devices, Lease(d) PROVE GrantsAreGiven' /\ EvidenceIsGranted'
  BY <1>24
  DEF Lease, IsGranted, trust, queues, network, history, GrantsAreGiven, EvidenceIsGranted,
     LanTypeOK
<1>25. ASSUME NEW d \in Devices, HandOver(d) PROVE GrantsAreGiven' /\ EvidenceIsGranted'
  BY <1>25
  DEF HandOver, Leased, NoSearch, trust, queues, network, history, GrantsAreGiven,
     EvidenceIsGranted, LanTypeOK
<1>26. ASSUME NEW d \in Devices, RestartLan(d) PROVE GrantsAreGiven' /\ EvidenceIsGranted'
  BY <1>26
  DEF RestartLan, GateIsOpen, Stopped, SetAcl, Leased, SetPairing, Disconnected, NoSearch,
     GrantsAreGiven, EvidenceIsGranted, LanTypeOK
<1>27. ASSUME NEW d \in Devices, Crash(d) PROVE GrantsAreGiven' /\ EvidenceIsGranted'
  BY <1>27
  DEF Crash, Stopped, SetAcl, SetPairing, Disconnected, NoSearch, GrantsAreGiven,
     EvidenceIsGranted, LanTypeOK
<1>28. ASSUME NEW m \in wire, ReceiveHello(m) PROVE GrantsAreGiven' /\ EvidenceIsGranted'
  BY <1>28
  DEF ReceiveHello, Delivered, Reply, SetPairing, trust, queues, history, GrantsAreGiven,
     EvidenceIsGranted, LanTypeOK
<1>29. ASSUME NEW m \in wire, ReceiveHelloed(m) PROVE GrantsAreGiven' /\ EvidenceIsGranted'
  BY <1>29
  DEF ReceiveHelloed, Delivered, SetPairing, queues, history, GrantsAreGiven, EvidenceIsGranted,
     LanTypeOK
<1>30. ASSUME NEW m \in wire, ReceiveConfirm(m) PROVE GrantsAreGiven' /\ EvidenceIsGranted'
  BY <1>30
  DEF ReceiveConfirm, Delivered, Reply, trust, history, GrantsAreGiven, EvidenceIsGranted,
     LanTypeOK
<1>31. ASSUME NEW m \in wire, ReceiveConfirmed(m) PROVE GrantsAreGiven' /\ EvidenceIsGranted'
  BY <1>31
  DEF ReceiveConfirmed, Delivered, history, GrantsAreGiven, EvidenceIsGranted, LanTypeOK
<1>32. ASSUME Drop PROVE GrantsAreGiven' /\ EvidenceIsGranted'
  BY <1>32
  DEF Drop, Disconnected, trust, queues, history, GrantsAreGiven, EvidenceIsGranted, LanTypeOK
<1>33. ASSUME TimeOut PROVE GrantsAreGiven' /\ EvidenceIsGranted'
  BY <1>33
  DEF TimeOut, NoSearch, trust, queues, network, history, GrantsAreGiven, EvidenceIsGranted,
     LanTypeOK
<1>34. CASE UNCHANGED lanVars
  BY <1>34 DEF lanVars, trust, network, queues, history, GrantsAreGiven, EvidenceIsGranted
<1> QED
  BY <1>1, <1>2, <1>3, <1>4, <1>5, <1>6, <1>7, <1>8, <1>9, <1>10, <1>11, <1>12, <1>13, <1>14,
     <1>15, <1>16, <1>17, <1>18, <1>19, <1>20, <1>21, <1>22, <1>23, <1>24, <1>25, <1>26, <1>27,
     <1>28, <1>29, <1>30, <1>31, <1>32, <1>33, <1>34
  DEF Next, Message, Handler, Person, Persist

-------------------------------------------------------------------------------
(* Blocks are restored                                                        *)

(* A stored block that the access list does not know of.                       *)
Lifted(d) == row[d] = "blocked" /\ acl[d] # "blocked"

(* Steps that lift no block and leave pairing and events alone keep the        *)
(* property.                                                                   *)
LEMMA QuietBlocks ==
  ASSUME BlockIsRestored, UNCHANGED <<pairing, events, lost>>,
         \A d \in Devices : Lifted(d)' => Lifted(d)
  PROVE  BlockIsRestored'
BY DEF BlockIsRestored, Lifted, AttemptActive, HasSession, SessionOf

(* So does the end of an attempt.                                              *)
LEMMA EndedBlocks ==
  ASSUME LanTypeOK, BlockIsRestored, NEW d \in Devices, NEW w \in SUBSET Messages,
         EndAttempt(d, w), UNCHANGED <<row, events, lost>>
  PROVE  BlockIsRestored'
<1> SUFFICES ASSUME NEW e \in Devices, Lifted(e)'
             PROVE  \/ Holds(events[e], "trusted") \/ "trusted" \in lost[e]
                    \/ pairing'[e].marker /\ AttemptActive(e)'
  BY DEF BlockIsRestored, Lifted
<1>1. /\ pairing' = [pairing EXCEPT ![d] = NoPairing]
      /\ acl' = IF pairing[d].marker THEN [acl EXCEPT ![d] = "blocked"] ELSE acl
  BY EndedAttempt
<1>2. Lifted(e)
  BY <1>1 DEF Lifted, LanTypeOK
<1>3. CASE e = d
  <2>1. ~pairing[d].marker
    BY <1>1, <1>3 DEF Lifted, LanTypeOK
  <2> QED
    BY <1>2, <1>3, <2>1 DEF BlockIsRestored, Lifted
<1>4. CASE e # d
  <2>1. pairing'[e] = pairing[e]
    BY <1>1, <1>4 DEF LanTypeOK
  <2> QED
    BY <1>2, <2>1 DEF BlockIsRestored, Lifted, AttemptActive, HasSession, SessionOf
<1> QED
  BY <1>3, <1>4

(* So does a confirmation: the event that trusts is queued when the mark goes. *)
LEMMA CompletedBlocks ==
  ASSUME LanTypeOK, BlockIsRestored, NEW d \in Devices, NEW p \in Pairings,
         Completed(d, p), UNCHANGED <<row, acl, lost>>,
         p.marker = pairing[d].marker,
         AttemptActive(d) => p.dial # 0 \/ p.hello # 0 \/ p.session # NoSession
  PROVE  BlockIsRestored'
<1> SUFFICES ASSUME NEW e \in Devices, Lifted(e)'
             PROVE  \/ Holds(events'[e], "trusted") \/ "trusted" \in lost[e]
                    \/ pairing'[e].marker /\ AttemptActive(e)'
  BY DEF BlockIsRestored, Lifted
<1>1. Lifted(e)
  BY DEF Lifted
<1>2. CASE e # d
  <2>1. pairing'[e] = pairing[e] /\ events'[e] = events[e]
    BY <1>2 DEF Completed, SetPairing, Emit, LanTypeOK
  <2> QED
    BY <1>1, <2>1 DEF BlockIsRestored, Lifted, AttemptActive, HasSession, SessionOf
<1>3. CASE e = d
  <2>1. acl[d] # "blocked"
    BY <1>1, <1>3 DEF Lifted
  <2>2. CASE p.session.local /\ p.session.remote
    <3>1. events'[d] = Append(events[d], "trusted")
      BY <2>1, <2>2 DEF Completed, Emit, LanTypeOK
    <3> QED
      BY <1>3, <3>1, Elementwise DEF LanTypeOK, Words
  <2>3. CASE ~(p.session.local /\ p.session.remote)
    <3>1. pairing'[d] = p /\ events' = events
      BY <2>1, <2>3 DEF Completed, SetPairing, LanTypeOK
    <3> QED
      BY <1>1, <1>3, <3>1 DEF BlockIsRestored, Lifted, AttemptActive, HasSession, SessionOf
  <2> QED
    BY <2>2, <2>3
<1> QED
  BY <1>2, <1>3

(* A step that touches one device needs to be looked at there only.            *)
LEMMA OneDeviceBlocks ==
  ASSUME BlockIsRestored, NEW d \in Devices,
         \A e \in Devices \ {d} :
           /\ acl'[e] = acl[e] /\ row'[e] = row[e] /\ pairing'[e] = pairing[e]
           /\ events'[e] = events[e] /\ lost'[e] = lost[e],
         Lifted(d)' => \/ Holds(events'[d], "trusted") \/ "trusted" \in lost'[d]
                       \/ pairing'[d].marker /\ AttemptActive(d)'
  PROVE  BlockIsRestored'
<1> SUFFICES ASSUME NEW e \in Devices, e # d, Lifted(e)'
             PROVE  \/ Holds(events'[e], "trusted") \/ "trusted" \in lost'[e]
                    \/ pairing'[e].marker /\ AttemptActive(e)'
  BY DEF BlockIsRestored, Lifted
<1>1. Lifted(e) /\ pairing'[e] = pairing[e] /\ events'[e] = events[e] /\ lost'[e] = lost[e]
  BY DEF Lifted
<1> QED
  BY <1>1 DEF BlockIsRestored, Lifted, AttemptActive, HasSession, SessionOf

(* A block that begin_pairing lifts is marked, and the attempt is active.      *)
LEMMA BeginBlocks ==
  ASSUME LanTypeOK, BlockIsRestored, NEW d \in Devices, Begin(d)
  PROVE  BlockIsRestored'
<1>1. UNCHANGED <<row, events, lost>>
  BY DEF Begin, history
<1>2. CASE AttemptActive(d)
  <2>1. UNCHANGED <<acl, pairing>>
    BY <1>2 DEF Begin
  <2> QED
    BY <1>1, <2>1, QuietBlocks DEF Lifted
<1>3. CASE ~AttemptActive(d)
  <2>1. acl' = [acl EXCEPT ![d] = IF acl[d] = "blocked" THEN "none" ELSE acl[d]]
    BY <1>3 DEF Begin, SetAcl
  <2>2. PICK n \in Fresh :
          LET p == [pairing[d] EXCEPT !.marker = @ \/ acl[d] = "blocked"]
          IN IF link[d]
             THEN SetPairing(d, [p EXCEPT !.hello = n]) /\ Send(Hello(d, n))
             ELSE SetPairing(d, [p EXCEPT !.dial = n]) /\ UNCHANGED wire
    BY <1>3 DEF Begin
  <2> DEFINE p == [pairing[d] EXCEPT !.marker = @ \/ acl[d] = "blocked"]
  <2>3. \/ pairing' = [pairing EXCEPT ![d] = [p EXCEPT !.hello = n]]
        \/ pairing' = [pairing EXCEPT ![d] = [p EXCEPT !.dial = n]]
    BY <2>2 DEF SetPairing
  <2>4. p \in Pairings /\ p.marker = (pairing[d].marker \/ acl[d] = "blocked")
    <3>1. pairing[d] \in Pairings /\ (acl[d] = "blocked") \in BOOLEAN
      BY PairingTypes
    <3>2. p \in Pairings
      BY <3>1, PairingChanges
    <3> QED
      BY <3>1, <3>2 DEF Pairings
  <2> HIDE DEF p
  <2>5. /\ pairing'[d].marker = p.marker
        /\ pairing'[d].hello = n \/ pairing'[d].dial = n
        /\ \A e \in Devices \ {d} : pairing'[e] = pairing[e]
    BY <2>3, <2>4 DEF LanTypeOK, Pairings
  <2>6. AttemptActive(d)'
    BY <2>5, FreshType DEF AttemptActive
  <2>7. CASE acl[d] = "blocked"
    BY <1>1, <2>1, <2>4, <2>5, <2>6, <2>7, OneDeviceBlocks DEF LanTypeOK
  <2>8. CASE acl[d] # "blocked"
    <3>1. acl'[d] = acl[d]
      BY <2>1, <2>8 DEF LanTypeOK
    <3>2. Lifted(d)' => Holds(events[d], "trusted") \/ "trusted" \in lost[d]
      BY <1>1, <1>3, <3>1 DEF BlockIsRestored, Lifted
    <3> QED
      BY <1>1, <2>1, <2>5, <3>2, OneDeviceBlocks DEF LanTypeOK
  <2> QED
    BY <2>7, <2>8
<1> QED
  BY <1>2, <1>3

(* A dial that becomes a Hello is still an attempt.                            *)
LEMMA ConnectBlocks ==
  ASSUME LanTypeOK, BlockIsRestored, NEW d \in Devices, Connect(d)
  PROVE  BlockIsRestored'
<1>1. UNCHANGED <<acl, row, events, lost>>
  BY DEF Connect, trust, queues, history
<1>2. \A e \in Devices \ {d} : pairing'[e] = pairing[e]
  BY DEF Connect, SetPairing, LanTypeOK
<1>3. Lifted(d)' => Lifted(d)
  BY <1>1 DEF Lifted
<1>4. CASE acl[d] = "blocked"
  BY <1>1, <1>2, <1>4, OneDeviceBlocks DEF Lifted
<1>5. CASE acl[d] # "blocked" /\ pairing[d].dial # 0
  <2>1. pairing'[d] = [pairing[d] EXCEPT !.dial = 0, !.hello = pairing[d].dial]
    BY <1>5 DEF Connect, SetPairing, LanTypeOK
  <2>2. pairing'[d].marker = pairing[d].marker /\ pairing'[d].hello = pairing[d].dial
    BY <2>1, PairingTypes DEF Pairings
  <2>3. AttemptActive(d)'
    BY <1>5, <2>2 DEF AttemptActive
  <2>4. Lifted(d) => \/ Holds(events[d], "trusted") \/ "trusted" \in lost[d]
                     \/ pairing'[d].marker
    BY <2>2 DEF BlockIsRestored, Lifted
  <2> QED
    BY <1>1, <1>2, <1>3, <2>3, <2>4, OneDeviceBlocks
<1>6. CASE acl[d] # "blocked" /\ pairing[d].dial = 0
  <2>1. UNCHANGED pairing
    BY <1>6 DEF Connect
  <2> QED
    BY <1>1, <2>1, QuietBlocks DEF Lifted
<1> QED
  BY <1>4, <1>5, <1>6

(* A failed Confirm does not end the attempt.                                  *)
LEMMA ConfirmFailsBlocks ==
  ASSUME LanTypeOK, BlockIsRestored, NEW d \in Devices, ConfirmFails(d)
  PROVE  BlockIsRestored'
<1>1. UNCHANGED <<acl, row, events, lost>>
  BY DEF ConfirmFails, trust, queues, history
<1>2. PICK c \in pairing[d].confirms :
        pairing' = [pairing EXCEPT ![d] = [pairing[d] EXCEPT !.confirms = @ \ {c}]]
  BY DEF ConfirmFails, SetPairing
<1>3. /\ \A e \in Devices \ {d} : pairing'[e] = pairing[e]
      /\ pairing'[d].marker = pairing[d].marker /\ pairing'[d].dial = pairing[d].dial
      /\ pairing'[d].hello = pairing[d].hello /\ pairing'[d].session = pairing[d].session
  BY <1>2, PairingTypes DEF LanTypeOK, Pairings
<1>4. AttemptActive(d)' = AttemptActive(d)
  BY <1>3 DEF AttemptActive, HasSession, SessionOf
<1>5. Lifted(d)' => \/ Holds(events[d], "trusted") \/ "trusted" \in lost[d]
                    \/ pairing[d].marker /\ AttemptActive(d)
  BY <1>1 DEF BlockIsRestored, Lifted
<1> QED
  BY <1>1, <1>3, <1>4, <1>5, OneDeviceBlocks

(* A session is an attempt.                                                    *)
LEMMA NewSessionBlocks ==
  ASSUME LanTypeOK, BlockIsRestored, NEW d \in Devices, NEW c \in Codes, c # NoCode,
         UNCHANGED <<acl, row, events, lost>>, NEW p \in Pairings,
         pairing' = [pairing EXCEPT ![d] = p],
         p.marker = pairing[d].marker, p.session = Session(c)
  PROVE  BlockIsRestored'
<1>1. Session(c) # NoSession
  BY DEF Session, NoSession
<1>2. pairing'[d] = p /\ \A e \in Devices \ {d} : pairing'[e] = pairing[e]
  BY DEF LanTypeOK
<1>3. AttemptActive(d)'
  BY <1>1, <1>2 DEF AttemptActive, HasSession, SessionOf
<1>4. Lifted(d)' => \/ Holds(events[d], "trusted") \/ "trusted" \in lost[d]
                    \/ pairing[d].marker
  BY DEF BlockIsRestored, Lifted
<1> QED
  BY <1>2, <1>3, <1>4, OneDeviceBlocks

(* A Hello begins a session.                                                   *)
LEMMA ReceiveHelloBlocks ==
  ASSUME LanTypeOK, BlockIsRestored, NEW m \in wire, ReceiveHello(m)
  PROVE  BlockIsRestored'
<1> DEFINE d == m.to
<1>1. d \in Devices /\ m.n \in Nonces
  BY MessageFields
<1>2. UNCHANGED <<acl, row, events, lost>>
  BY DEF ReceiveHello, trust, queues, history
<1>3. CASE UNCHANGED pairing
  BY <1>2, <1>3, QuietBlocks DEF Lifted
<1>4. CASE \E n \in Fresh :
             SetPairing(d, [pairing[d] EXCEPT !.session = Session(Code(d, n, m.n))])
  <2>1. PICK n \in Fresh :
          SetPairing(d, [pairing[d] EXCEPT !.session = Session(Code(d, n, m.n))])
    BY <1>4
  <2> DEFINE c == Code(d, n, m.n)
             p == [pairing[d] EXCEPT !.session = Session(c)]
  <2>2. c \in Codes /\ c # NoCode
    BY <1>1, FreshType, CodeType
  <2>3. pairing' = [pairing EXCEPT ![d] = p]
    BY <2>1 DEF SetPairing
  <2> HIDE DEF c
  <2>4. Session(c) \in Sessions
    BY <2>2, SessionType
  <2>5. p \in Pairings /\ p.marker = pairing[d].marker /\ p.session = Session(c)
    BY <1>1, <2>4, PairingTypes, PairingChanges DEF Pairings
  <2> HIDE DEF p
  <2> QED
    BY <1>1, <1>2, <2>2, <2>3, <2>5, NewSessionBlocks
<1> QED
  BY <1>3, <1>4 DEF ReceiveHello

(* The answer to a Hello begins a session, or ends the attempt.                *)
LEMMA ReceiveHelloedBlocks ==
  ASSUME LanTypeOK, BlockIsRestored, NEW m \in wire, ReceiveHelloed(m)
  PROVE  BlockIsRestored'
<1> DEFINE d == m.to
           c == Code(d, pairing[d].hello, m.n)
           p == [pairing[d] EXCEPT !.hello = 0, !.session = Session(c)]
<1>1. d \in Devices /\ m.n \in Nonces
  BY MessageFields
<1>2. UNCHANGED <<row, events, lost>>
  BY DEF ReceiveHelloed, queues, history
<1>3. CASE pairing[d].hello # 0 /\ SetPairing(d, p) /\ UNCHANGED <<acl, link>>
  <2>1. c \in Codes /\ c # NoCode
    BY <1>1, <1>3, PairingTypes, CodeType
  <2>2. Session(c) \in Sessions
    <3> HIDE DEF c
    <3> QED
      BY <2>1, SessionType
  <2> HIDE DEF c
  <2>3. p \in Pairings /\ p.marker = pairing[d].marker /\ p.session = Session(c)
    BY <1>1, <2>2, PairingTypes, SessionChanges DEF Pairings
  <2>4. pairing' = [pairing EXCEPT ![d] = p]
    BY <1>3 DEF SetPairing
  <2> HIDE DEF p
  <2> QED
    BY <1>1, <1>2, <1>3, <2>1, <2>3, <2>4, NewSessionBlocks
<1>4. CASE EndAttempt(d, wire \ {m})
  <2>1. wire \ {m} \in SUBSET Messages
    BY DEF LanTypeOK
  <2> QED
    BY <1>1, <1>2, <1>4, <2>1, EndedBlocks
<1>5. CASE UNCHANGED <<acl, pairing, link>>
  BY <1>2, <1>5, QuietBlocks DEF Lifted
<1> QED
  BY <1>3, <1>4, <1>5 DEF ReceiveHelloed

(* A confirmed session is a session, and the mark stays.                       *)
LEMMA ConfirmingKeepsSession ==
  ASSUME NEW p \in Pairings
  PROVE  /\ \A c \in Codes :
              LET q == [p EXCEPT !.session.local = TRUE, !.confirms = @ \union {c}]
              IN q.marker = p.marker /\ q.session # NoSession
         /\ LET q == [p EXCEPT !.session.remote = TRUE]
            IN q.marker = p.marker /\ q.session # NoSession
<1>1. p.session \in Sessions
  BY DEF Pairings
<1>2. ~NoSession.local /\ ~NoSession.remote
  BY DEF NoSession, Session
<1>3. ASSUME NEW c \in Codes
      PROVE LET q == [p EXCEPT !.session.local = TRUE, !.confirms = @ \union {c}]
            IN q.marker = p.marker /\ q.session # NoSession
  <2> DEFINE q == [p EXCEPT !.session.local = TRUE, !.confirms = @ \union {c}]
  <2>1. q.marker = p.marker /\ q.session = [p.session EXCEPT !.local = TRUE]
    BY DEF Pairings
  <2>2. q.session.local
    BY <1>1, <2>1 DEF Sessions
  <2> QED
    BY <1>2, <2>1, <2>2
<1>4. LET q == [p EXCEPT !.session.remote = TRUE]
      IN q.marker = p.marker /\ q.session # NoSession
  <2> DEFINE q == [p EXCEPT !.session.remote = TRUE]
  <2>1. q.marker = p.marker /\ q.session = [p.session EXCEPT !.remote = TRUE]
    BY DEF Pairings
  <2>2. q.session.remote
    BY <1>1, <2>1 DEF Sessions
  <2> QED
    BY <1>2, <2>1, <2>2
<1> QED
  BY <1>3, <1>4

(* The confirmation of the person keeps the attempt or completes it.           *)
LEMMA ConfirmLocalBlocks ==
  ASSUME LanTypeOK, BlockIsRestored, NEW d \in Devices, ConfirmLocal(d)
  PROVE  BlockIsRestored'
<1>1. UNCHANGED <<acl, row, lost>>
  BY DEF ConfirmLocal, trust
<1>2. CASE HasSession(d)
  <2> DEFINE c == SessionOf(d).code
             p == [pairing[d] EXCEPT !.session.local = TRUE, !.confirms = @ \union {c}]
  <2>1. c \in Codes /\ Completed(d, p)
    BY <1>2, PairingTypes DEF ConfirmLocal, SessionOf
  <2>2. p \in Pairings /\ p.marker = pairing[d].marker /\ p.session # NoSession
    BY <2>1, PairingTypes, SessionChanges, ConfirmingKeepsSession
  <2> HIDE DEF p
  <2> QED
    BY <1>1, <2>1, <2>2, CompletedBlocks
<1>3. CASE ~HasSession(d)
  <2>1. UNCHANGED <<pairing, events>>
    BY <1>3 DEF ConfirmLocal
  <2> QED
    BY <1>1, <2>1, QuietBlocks DEF Lifted
<1> QED
  BY <1>2, <1>3

(* So does the confirmation of the other device.                               *)
LEMMA ReceiveConfirmBlocks ==
  ASSUME LanTypeOK, BlockIsRestored, NEW m \in wire, ReceiveConfirm(m)
  PROVE  BlockIsRestored'
<1> DEFINE d == m.to
           p == [pairing[d] EXCEPT !.session.remote = TRUE]
<1>1. UNCHANGED <<acl, row, lost>> /\ d \in Devices
  BY MessageFields DEF ReceiveConfirm, trust, history
<1>2. CASE Completed(d, p)
  <2>1. p \in Pairings /\ p.marker = pairing[d].marker /\ p.session # NoSession
    BY <1>1, PairingTypes, SessionChanges, ConfirmingKeepsSession
  <2> HIDE DEF p
  <2> QED
    BY <1>1, <1>2, <2>1, CompletedBlocks
<1>3. CASE UNCHANGED <<pairing, events>>
  BY <1>1, <1>3, QuietBlocks DEF Lifted
<1> QED
  BY <1>2, <1>3 DEF ReceiveConfirm

(* The answer to a Confirm keeps, completes or ends the attempt.               *)
LEMMA ReceiveConfirmedBlocks ==
  ASSUME LanTypeOK, BlockIsRestored, NEW m \in wire, ReceiveConfirmed(m)
  PROVE  BlockIsRestored'
<1> DEFINE d == m.to
           p == [pairing[d] EXCEPT !.confirms = @ \ {m.id}]
           q == IF m.n = 1 /\ HasSession(d) THEN [p EXCEPT !.session.remote = TRUE] ELSE p
<1>1. UNCHANGED <<row, lost>> /\ d \in Devices
  BY MessageFields DEF ReceiveConfirmed, history
<1>2. p \in Pairings
  BY <1>1, PairingTypes, PairingChanges
<1>3. /\ p.marker = pairing[d].marker /\ p.session = pairing[d].session
      /\ p.dial = pairing[d].dial /\ p.hello = pairing[d].hello
  BY <1>1, PairingTypes DEF Pairings
<1> HIDE DEF p
<1>4. CASE Completed(d, q) /\ UNCHANGED <<acl, link>>
  <2>1. q \in Pairings /\ q.marker = p.marker /\ (q = p \/ q.session # NoSession)
    BY <1>2, SessionChanges, ConfirmingKeepsSession
  <2> HIDE DEF q
  <2>2. AttemptActive(d) => q.dial # 0 \/ q.hello # 0 \/ q.session # NoSession
    BY <1>3, <2>1 DEF AttemptActive, HasSession, SessionOf
  <2> QED
    BY <1>1, <1>3, <1>4, <2>1, <2>2, CompletedBlocks
<1>5. CASE EndAttempt(d, wire \ {m}) /\ UNCHANGED events
  <2>1. wire \ {m} \in SUBSET Messages
    BY DEF LanTypeOK
  <2> QED
    BY <1>1, <1>5, <2>1, EndedBlocks
<1>6. CASE UNCHANGED <<acl, pairing, events, link>>
  BY <1>1, <1>6, QuietBlocks DEF Lifted
<1> QED
  BY <1>4, <1>5, <1>6 DEF ReceiveConfirmed, p

(* What the person asks lifts no block.                                        *)
LEMMA PersonBlocks ==
  ASSUME LanTypeOK, BlockIsRestored, NEW d \in Devices, Person(d)
  PROVE  BlockIsRestored'
<1>1. UNCHANGED <<pairing, events, lost>>
  BY DEF Person, Pair, Accept, Strike, Allow, Grant, Ungrant, SetPolicy, network, queues,
     history
<1>2. CASE Pair(d) \/ Accept(d)
  BY <1>1, <1>2, QuietBlocks DEF Pair, Accept, trust, Lifted
<1>3. CASE Strike(d)
  <2>1. acl' = [acl EXCEPT ![d] = "blocked"] /\ \A e \in Devices \ {d} : row'[e] = row[e]
    BY <1>3 DEF Strike, SetAcl, StoreBlock, SetRow, LanTypeOK
  <2> QED
    BY <1>1, <2>1, OneDeviceBlocks DEF Lifted, LanTypeOK
<1>4. CASE Allow(d)
  BY <1>1, <1>4, OneDeviceBlocks DEF Allow, SetAcl, SetRow, Lifted, LanTypeOK
<1>5. CASE Grant(d)
  BY <1>1, <1>5, OneDeviceBlocks DEF Grant, SetAcl, SetRow, Lifted, LanTypeOK
<1>6. CASE Ungrant(d)
  <2>1. acl' = [acl EXCEPT ![d] = WithoutGrant(acl[d])]
        /\ (row' = row \/ row' = [row EXCEPT ![d] = "trusted"])
    BY <1>6 DEF Ungrant, SetAcl, SetRow
  <2>2. \A e \in Devices : Lifted(e)' => Lifted(e)
    BY <2>1, StandingTypes DEF Lifted, LanTypeOK
  <2> QED
    BY <1>1, <2>2, QuietBlocks
<1>7. CASE SetPolicy(d)
  <2>1. \/ UNCHANGED <<acl, row>>
        \/ /\ acl' = [acl EXCEPT ![d] = WithoutGrant(acl[d])]
           /\ row' = [row EXCEPT ![d] = WithoutGrant(row[d])]
    BY <1>7 DEF SetPolicy, SetAcl, SetRow
  <2>2. \A e \in Devices : Lifted(e)' => Lifted(e)
    BY <2>1, StandingTypes DEF Lifted, LanTypeOK
  <2> QED
    BY <1>1, <2>2, QuietBlocks
<1> QED
  BY <1>2, <1>3, <1>4, <1>5, <1>6, <1>7 DEF Person

(* The worker stores trust, or blocks again.                                   *)
LEMMA PersistBlocks ==
  ASSUME LanTypeOK, BlockIsRestored, NEW d \in Devices, Persist(d)
  PROVE  BlockIsRestored'
<1>1. \A e \in Devices \ {d} : /\ acl'[e] = acl[e] /\ row'[e] = row[e]
                               /\ pairing'[e] = pairing[e] /\ events'[e] = events[e]
                               /\ lost'[e] = lost[e]
  BY DEF Persist, PersistTrust, PersistStrike, NextEvent, StoreBlock, SetAcl, SetRow, history,
         LanTypeOK
<1>2. acl'[d] = "blocked" \/ row'[d] # "blocked"
  <2>1. WithTrust(row[d]) # "blocked"
    BY StandingTypes DEF LanTypeOK
  <2>2. \/ acl' = [acl EXCEPT ![d] = "blocked"]
        \/ row' = [row EXCEPT ![d] = WithTrust(row[d])]
    BY DEF Persist, PersistTrust, PersistStrike, SetAcl, SetRow
  <2> QED
    BY <2>1, <2>2 DEF LanTypeOK
<1> QED
  BY <1>1, <1>2, OneDeviceBlocks DEF Lifted

(* A restart restores marked blocks; trust that was queued is counted as lost. *)
LEMMA StoppedBlocks ==
  ASSUME LanTypeOK, BlockIsRestored, NEW d \in Devices, RestartLan(d) \/ Crash(d)
  PROVE  BlockIsRestored'
<1>1. UNCHANGED row
  BY DEF RestartLan, Crash
<1>2. /\ pairing' = [pairing EXCEPT ![d] = NoPairing] /\ events' = [events EXCEPT ![d] = <<>>]
      /\ lost' = [lost EXCEPT ![d] = @ \union Elements(commands[d]) \union Elements(events[d])]
  BY DEF RestartLan, Crash, Stopped, SetPairing
<1>3. \A e \in Devices \ {d} : /\ acl'[e] = acl[e] /\ row'[e] = row[e]
                               /\ pairing'[e] = pairing[e] /\ events'[e] = events[e]
                               /\ lost'[e] = lost[e]
  BY <1>1, <1>2 DEF RestartLan, Crash, SetAcl, LanTypeOK
<1>4. ASSUME Lifted(d)' PROVE "trusted" \in lost'[d]
  <2>1. RestartLan(d) /\ ~pairing[d].marker /\ acl'[d] = acl[d]
    BY <1>1, <1>4 DEF RestartLan, Crash, SetAcl, Lifted, LanTypeOK
  <2>2. Holds(events[d], "trusted") \/ "trusted" \in lost[d]
    BY <1>1, <1>4, <2>1 DEF BlockIsRestored, Lifted
  <2>3. events[d] \in Seq(Words) /\ "trusted" \in Words
    BY DEF LanTypeOK, Words
  <2> QED
    BY <1>2, <2>2, <2>3, Elementwise DEF LanTypeOK
<1> QED
  BY <1>3, <1>4, OneDeviceBlocks

(* The handlers of the runtime keep the property.                              *)
LEMMA HandlerBlocks ==
  ASSUME LanTypeOK, BlockIsRestored, NEW d \in Devices, Handler(d)
  PROVE  BlockIsRestored'
<1>1. CASE Begin(d)
  BY <1>1, BeginBlocks
<1>2. CASE ConfirmLocal(d)
  BY <1>2, ConfirmLocalBlocks
<1>3. CASE StrikePairing(d)
  <2>1. UNCHANGED <<row, lost>> /\ acl' = [acl EXCEPT ![d] = "blocked"]
    BY <1>3 DEF StrikePairing, EnforceBlock, SetAcl, history
  <2>2. \A e \in Devices \ {d} : pairing'[e] = pairing[e] /\ events'[e] = events[e]
    BY <1>3 DEF StrikePairing, SetPairing, Emit, LanTypeOK
  <2> QED
    BY <2>1, <2>2, OneDeviceBlocks DEF Lifted, LanTypeOK
<1>4. CASE ApplyGrant(d) \/ ApplyUngrant(d)
  <2>1. UNCHANGED <<row, pairing, events, lost>>
    BY <1>4 DEF ApplyGrant, ApplyUngrant, history
  <2>2. \E s \in Standings : /\ acl' = [acl EXCEPT ![d] = s]
                             /\ s = "blocked" <=> acl[d] = "blocked"
    <3>1. acl[d] \in Standings
      BY DEF LanTypeOK
    <3>2. CASE ApplyGrant(d)
      BY <3>1, <3>2 DEF ApplyGrant, SetAcl, IsTrusted, Standings
    <3>3. CASE ApplyUngrant(d)
      BY <3>1, <3>3, StandingTypes DEF ApplyUngrant, SetAcl
    <3> QED
      BY <1>4, <3>2, <3>3
  <2>3. \A e \in Devices : Lifted(e)' => Lifted(e)
    BY <2>1, <2>2 DEF Lifted, LanTypeOK
  <2> QED
    BY <2>1, <2>3, QuietBlocks
<1>5. CASE HelloFails(d)
  <2>1. /\ EndAttempt(d, wire \ About("hello", Code(d, pairing[d].hello, 0)))
        /\ UNCHANGED <<row, events, lost>>
    BY <1>5 DEF HelloFails, queues, history
  <2>2. wire \ About("hello", Code(d, pairing[d].hello, 0)) \in SUBSET Messages
    BY DEF LanTypeOK
  <2> QED
    BY <2>1, <2>2, EndedBlocks
<1>6. CASE ConfirmFails(d)
  BY <1>6, ConfirmFailsBlocks
<1>7. CASE Wait(d)
  BY <1>7, QuietBlocks DEF Wait, trust, queues, history, Lifted
<1> QED
  BY <1>1, <1>2, <1>3, <1>4, <1>5, <1>6, <1>7 DEF Handler

(* Every step keeps the property.                                              *)
LEMMA BlockStep ==
  ASSUME LanTypeOK, BlockIsRestored, [Next]_lanVars
  PROVE  BlockIsRestored'
<1>1. ASSUME NEW m \in wire, Message(m) PROVE BlockIsRestored'
  BY <1>1, ReceiveHelloBlocks, ReceiveHelloedBlocks, ReceiveConfirmBlocks,
     ReceiveConfirmedBlocks DEF Message
<1>2. ASSUME NEW d \in Devices, DialFails(d) \/ Expire(d) PROVE BlockIsRestored'
  <2>1. EndAttempt(d, wire) /\ UNCHANGED <<row, events, lost>> /\ wire \in SUBSET Messages
    BY <1>2 DEF DialFails, Expire, queues, history, LanTypeOK
  <2> QED
    BY <2>1, EndedBlocks
<1>3. ASSUME NEW d \in Devices, Reconcile(d) PROVE BlockIsRestored'
  <2>1. UNCHANGED <<row, pairing, events, lost>>
    BY <1>3 DEF Reconcile, queues, history
  <2>2. /\ acl' = [acl EXCEPT ![d] = Narrowed(d)]
        /\ acl[d] = "blocked" => Narrowed(d) = "blocked"
    BY <1>3 DEF Reconcile, SetAcl, Narrowed, IsTrusted
  <2>3. \A e \in Devices : Lifted(e)' => Lifted(e)
    BY <2>1, <2>2 DEF Lifted, LanTypeOK
  <2> QED
    BY <2>1, <2>3, QuietBlocks
<1>4. ASSUME NEW d \in Devices, Ask(d) \/ Scope(d) \/ Lease(d) \/ HandOver(d)
      PROVE  BlockIsRestored'
  BY <1>4, QuietBlocks DEF Ask, Scope, Lease, HandOver, trust, queues, history, Lifted
<1>5. CASE Drop \/ TimeOut
  BY <1>5, QuietBlocks DEF Drop, TimeOut, trust, queues, history, Lifted
<1>6. CASE UNCHANGED lanVars
  BY <1>6, QuietBlocks DEF lanVars, trust, queues, history, Lifted
<1> QED
  BY <1>1, <1>2, <1>3, <1>4, <1>5, <1>6, HandlerBlocks, PersonBlocks, PersistBlocks,
     ConnectBlocks, StoppedBlocks DEF Next

-------------------------------------------------------------------------------
(* Trust is mutual                                                            *)

(* Both runtimes confirmed one code.                                            *)
(* Both runtimes confirmed one code.  said: the codes confirmed so far.        *)
Mutual(d, said) ==
  \E c \in Codes : c # NoCode /\ <<d, c>> \in said /\ <<Other(d), c>> \in said

(* Trust, stored or about to be, rests on such a code or on an earlier         *)
(* pairing.                                                                    *)
TrustIsAgreed ==
  \A d \in Devices :
    /\ IsTrusted(row[d]) \/ IsTrusted(acl[d]) =>
         <<d, NoCode>> \in confirmed \/ Mutual(d, confirmed)
    /\ Holds(events[d], "trusted") => Mutual(d, confirmed)

(* What a session knows: its code, and who confirmed it.                       *)
Backed(d, s, said) ==
  /\ s # NoSession => s.code # NoCode
  /\ s.local => <<d, s.code>> \in said
  /\ s.remote => <<Other(d), s.code>> \in said \/ Mutual(d, said)

(* What the sessions of both devices know is true.                             *)
SessionsAreBacked == \A d \in Devices : Backed(d, SessionOf(d), confirmed)

(* What a message claims: its sender confirmed, or both have.                  *)
Backs(m, said) ==
  /\ m.kind = "confirm" => m.id # NoCode /\ <<Other(m.to), m.id>> \in said
  /\ m.kind = "confirmed" /\ m.n = 1 => Mutual(m.to, said)

(* What the messages on their way claim is true.                               *)
MessagesAreBacked == \A m \in wire : Backs(m, confirmed)

(* The strengthening of TrustIsMutual.                                         *)
TrustInv == TrustIsAgreed /\ SessionsAreBacked /\ MessagesAreBacked

(* A confirmation is never taken back.                                         *)
Kept ==
  \A e \in Devices, c \in Codes :
    <<e, c>> \in confirmed /\ c # NoCode => <<e, c>> \in confirmed'

(* Agreement is mutual.                                                        *)
LEMMA MutualIsSymmetric ==
  ASSUME NEW d \in Devices
  PROVE  Mutual(d, confirmed) => Mutual(Other(d), confirmed)
BY OtherDevice DEF Mutual

(* Agreement lasts.                                                            *)
LEMMA MutualIsKept ==
  ASSUME Kept, NEW d \in Devices, Mutual(d, confirmed)
  PROVE  Mutual(d, confirmed')
BY OtherDevice DEF Mutual, Kept

(* What a session knows stays true.                                            *)
LEMMA BackedIsKept ==
  ASSUME Kept, NEW d \in Devices, NEW s \in Sessions, Backed(d, s, confirmed)
  PROVE  Backed(d, s, confirmed')
<1>1. s.code \in Codes /\ Other(d) \in Devices
  BY OtherDevice DEF Sessions
<1>2. (s.local \/ s.remote) => s # NoSession
  BY DEF NoSession, Session
<1>3. s.local => <<d, s.code>> \in confirmed'
  BY <1>1, <1>2 DEF Backed, Kept
<1>4. s.remote => <<Other(d), s.code>> \in confirmed' \/ Mutual(d, confirmed')
  BY <1>1, <1>2, MutualIsKept DEF Backed, Kept
<1> QED
  BY <1>3, <1>4 DEF Backed

(* What a message claims stays true.                                           *)
LEMMA BacksIsKept ==
  ASSUME Kept, NEW m \in Messages, Backs(m, confirmed)
  PROVE  Backs(m, confirmed')
<1>1. m.to \in Devices /\ Other(m.to) \in Devices /\ m.id \in Codes
  BY OtherDevice DEF Messages
<1> QED
  BY <1>1, MutualIsKept DEF Backs, Kept

(* What a step has to show when it changes trust, sessions or messages.        *)
LEMMA TrustFrame ==
  ASSUME LanTypeOK, TrustInv, Kept,
         \A d \in Devices :
           /\ IsTrusted(row'[d]) \/ IsTrusted(acl'[d]) =>
                /\ IsTrusted(row[d]) \/ IsTrusted(acl[d]) \/ Holds(events[d], "trusted")
                /\ <<d, NoCode>> \in confirmed => <<d, NoCode>> \in confirmed'
           /\ Holds(events'[d], "trusted") =>
                Holds(events[d], "trusted") \/ Mutual(d, confirmed')
           /\ \/ pairing'[d].session \in {pairing[d].session, NoSession}
              \/ Backed(d, pairing'[d].session, confirmed'),
         \A m \in wire' : m \in wire \/ Backs(m, confirmed')
  PROVE  TrustInv'
<1>1. TrustIsAgreed'
  BY MutualIsKept DEF TrustInv, TrustIsAgreed
<1>2. SessionsAreBacked'
  <2> SUFFICES ASSUME NEW d \in Devices PROVE Backed(d, pairing'[d].session, confirmed')
    BY DEF SessionsAreBacked, SessionOf
  <2>1. CASE pairing'[d].session = pairing[d].session
    <3>1. Backed(d, pairing[d].session, confirmed) /\ pairing[d].session \in Sessions
      BY PairingTypes DEF TrustInv, SessionsAreBacked, SessionOf
    <3>2. PICK s \in Sessions : s = pairing[d].session
      BY <3>1
    <3>3. Backed(d, s, confirmed')
      BY <3>1, <3>2, BackedIsKept
    <3> QED
      BY <2>1, <3>2, <3>3 DEF Backed
  <2>2. CASE pairing'[d].session = NoSession
    <3>1. ~NoSession.local /\ ~NoSession.remote
      BY DEF NoSession, Session
    <3> QED
      BY <2>2, <3>1 DEF Backed
  <2> QED
    BY <2>1, <2>2
<1>3. MessagesAreBacked'
  <2> SUFFICES ASSUME NEW m \in wire' PROVE Backs(m, confirmed')
    BY DEF MessagesAreBacked
  <2>1. CASE m \in wire
    BY <2>1, BacksIsKept DEF TrustInv, MessagesAreBacked, LanTypeOK
  <2> QED
    BY <2>1
<1> QED
  BY <1>1, <1>2, <1>3 DEF TrustInv

(* What a step of the handshake has to show.                                   *)
LEMMA TrustFrameOfPairing ==
  ASSUME LanTypeOK, TrustInv, UNCHANGED <<row, events, confirmed>>,
         \A d \in Devices :
           /\ acl'[d] \in {acl[d], "none", "blocked"}
           /\ \/ pairing'[d].session \in {pairing[d].session, NoSession}
              \/ Backed(d, pairing'[d].session, confirmed'),
         \A m \in wire' : m \in wire \/ Backs(m, confirmed')
  PROVE  TrustInv'
<1>1. Kept
  BY DEF Kept
<1>2. \A d \in Devices : IsTrusted(acl'[d]) => IsTrusted(acl[d])
  BY DEF IsTrusted
<1> QED
  BY <1>1, <1>2, TrustFrame

(* What a step that changes rows and access lists has to show.                 *)
LEMMA TrustFrameOfAccess ==
  ASSUME LanTypeOK, TrustInv, Kept, UNCHANGED <<pairing, wire>>,
         \A d \in Devices :
           /\ IsTrusted(row'[d]) \/ IsTrusted(acl'[d]) =>
                /\ IsTrusted(row[d]) \/ IsTrusted(acl[d]) \/ Holds(events[d], "trusted")
                /\ <<d, NoCode>> \in confirmed => <<d, NoCode>> \in confirmed'
           /\ Holds(events'[d], "trusted") => Holds(events[d], "trusted")
  PROVE  TrustInv'
BY TrustFrame

(* A new session claims nothing.                                               *)
LEMMA NewSessionIsBacked ==
  ASSUME NEW d \in Devices, NEW c \in Codes, c # NoCode
  PROVE  Backed(d, Session(c), confirmed')
BY SessionType DEF Backed

(* A Hello and its answer claim nothing.                                       *)
LEMMA HelloBacks ==
  ASSUME NEW d \in Devices
  PROVE  /\ \A n \in Nonces : Backs(Hello(d, n), confirmed')
         /\ \A m \in Messages, n \in Nonces, ok \in BOOLEAN :
              m.kind = "hello" => Backs(Answer(m, n, ok), confirmed')
BY DEF Backs, Hello, Answer, AnswerTo

(* The end of an attempt keeps the invariant.                                  *)
LEMMA EndedTrust ==
  ASSUME LanTypeOK, TrustInv, NEW d \in Devices, NEW w \in SUBSET wire,
         EndAttempt(d, w), UNCHANGED <<row, events, confirmed>>
  PROVE  TrustInv'
<1>1. w \in SUBSET Messages
  BY DEF LanTypeOK
<1>2. /\ pairing' = [pairing EXCEPT ![d] = NoPairing] /\ wire' \subseteq w
      /\ acl' = IF pairing[d].marker THEN [acl EXCEPT ![d] = "blocked"] ELSE acl
  BY <1>1, EndedAttempt
<1>3. NoPairing.session = NoSession
  BY DEF NoPairing
<1>4. \A e \in Devices : /\ pairing'[e].session \in {pairing[e].session, NoSession}
                         /\ acl'[e] \in {acl[e], "none", "blocked"}
  BY <1>2, <1>3 DEF LanTypeOK
<1> QED
  BY <1>2, <1>4, TrustFrameOfPairing

(* Trust is queued only when a session of a true code is confirmed on both     *)
(* sides.                                                                      *)
LEMMA CompletedTrust ==
  ASSUME LanTypeOK, TrustInv, Kept, NEW d \in Devices, NEW p \in Pairings, Completed(d, p),
         UNCHANGED <<row, acl>>, Backed(d, p.session, confirmed'),
         <<d, NoCode>> \in confirmed => <<d, NoCode>> \in confirmed',
         <<Other(d), NoCode>> \in confirmed => <<Other(d), NoCode>> \in confirmed',
         \A m \in wire' : m \in wire \/ Backs(m, confirmed')
  PROVE  TrustInv'
<1>1. \A e \in Devices \ {d} : pairing'[e] = pairing[e] /\ events'[e] = events[e]
  BY DEF Completed, SetPairing, Emit, LanTypeOK
<1>2. \A e \in Devices : e = d \/ e = Other(d)
  BY OtherDevice
<1>3. pairing'[d].session = NoSession \/ pairing'[d].session = p.session
  <2>1. \/ pairing'[d] = NoPairing \/ pairing'[d] = p
        \/ pairing'[d] = [p EXCEPT !.session = NoSession, !.dial = 0, !.marker = FALSE]
    BY DEF Completed, SetPairing, LanTypeOK
  <2>2. [p EXCEPT !.session = NoSession, !.dial = 0, !.marker = FALSE].session = NoSession
    BY DEF Pairings
  <2>3. NoPairing.session = NoSession
    BY DEF NoPairing
  <2> QED
    BY <2>1, <2>2, <2>3
<1>4. Holds(events'[d], "trusted") => Holds(events[d], "trusted") \/ Mutual(d, confirmed')
  <2>1. CASE p.session.local /\ p.session.remote
    <3>1. p.session # NoSession /\ p.session.code \in Codes
      BY <2>1 DEF NoSession, Session, Pairings, Sessions
    <3> QED
      BY <2>1, <3>1 DEF Backed, Mutual
  <2>2. CASE ~(p.session.local /\ p.session.remote)
    BY <2>2 DEF Completed
  <2> QED
    BY <2>1, <2>2
<1>5. \A e \in Devices :
        /\ IsTrusted(row'[e]) \/ IsTrusted(acl'[e]) =>
             /\ IsTrusted(row[e]) \/ IsTrusted(acl[e]) \/ Holds(events[e], "trusted")
             /\ <<e, NoCode>> \in confirmed => <<e, NoCode>> \in confirmed'
        /\ Holds(events'[e], "trusted") => Holds(events[e], "trusted") \/ Mutual(e, confirmed')
        /\ \/ pairing'[e].session \in {pairing[e].session, NoSession}
           \/ Backed(e, pairing'[e].session, confirmed')
  <2> SUFFICES ASSUME NEW e \in Devices
               PROVE /\ <<e, NoCode>> \in confirmed => <<e, NoCode>> \in confirmed'
                     /\ Holds(events'[e], "trusted") =>
                          Holds(events[e], "trusted") \/ Mutual(e, confirmed')
                     /\ \/ pairing'[e].session \in {pairing[e].session, NoSession}
                        \/ Backed(e, pairing'[e].session, confirmed')
    OBVIOUS
  <2>1. CASE e = d
    BY <1>3, <1>4, <2>1 DEF Backed
  <2>2. CASE e # d
    BY <1>1, <1>2, <2>2
  <2> QED
    BY <2>1, <2>2
<1> QED
  BY <1>5, TrustFrame

(* begin_pairing keeps the invariant.                                          *)
LEMMA BeginTrust ==
  ASSUME LanTypeOK, TrustInv, NEW d \in Devices, Begin(d)
  PROVE  TrustInv'
<1>1. UNCHANGED <<row, events, confirmed>>
  BY DEF Begin, history
<1>2. CASE AttemptActive(d)
  <2>1. UNCHANGED <<acl, pairing, wire>>
    BY <1>2 DEF Begin
  <2> QED
    BY <1>1, <2>1, TrustFrameOfPairing
<1>3. CASE ~AttemptActive(d)
  <2>1. \A e \in Devices : acl'[e] \in {acl[e], "none", "blocked"}
    BY <1>3 DEF Begin, SetAcl, LanTypeOK
  <2>2. PICK n \in Fresh :
          LET p == [pairing[d] EXCEPT !.marker = @ \/ acl[d] = "blocked"]
          IN IF link[d]
             THEN SetPairing(d, [p EXCEPT !.hello = n]) /\ Send(Hello(d, n))
             ELSE SetPairing(d, [p EXCEPT !.dial = n]) /\ UNCHANGED wire
    BY <1>3 DEF Begin
  <2> DEFINE p == [pairing[d] EXCEPT !.marker = @ \/ acl[d] = "blocked"]
  <2>3. p \in Pairings /\ p.session = pairing[d].session
    <3>1. pairing[d] \in Pairings /\ (acl[d] = "blocked") \in BOOLEAN
      BY PairingTypes
    <3>2. p \in Pairings
      BY <3>1, PairingChanges
    <3> QED
      BY <3>1, <3>2 DEF Pairings
  <2>4. \/ pairing' = [pairing EXCEPT ![d] = [p EXCEPT !.hello = n]]
        \/ pairing' = [pairing EXCEPT ![d] = [p EXCEPT !.dial = n]]
    BY <2>2 DEF SetPairing
  <2> HIDE DEF p
  <2>5. \A e \in Devices : pairing'[e].session = pairing[e].session
    <3>1. /\ [p EXCEPT !.hello = n].session = p.session
          /\ [p EXCEPT !.dial = n].session = p.session
      BY <2>3 DEF Pairings
    <3> QED
      BY <2>3, <2>4, <3>1 DEF LanTypeOK
  <2>6. \A m \in wire' : m \in wire \/ Backs(m, confirmed')
    BY <2>2, FreshType, HelloBacks DEF Send
  <2> QED
    BY <1>1, <2>1, <2>5, <2>6, TrustFrameOfPairing
<1> QED
  BY <1>2, <1>3

(* A new connection keeps the invariant.                                       *)
LEMMA ConnectTrust ==
  ASSUME LanTypeOK, TrustInv, NEW d \in Devices, Connect(d)
  PROVE  TrustInv'
<1>1. UNCHANGED <<acl, row, events, confirmed>>
  BY DEF Connect, trust, queues, history
<1>2. \/ pairing' = pairing /\ wire' = wire
      \/ /\ wire' = {}
         /\ pairing' = [pairing EXCEPT ![d] =
                          [pairing[d] EXCEPT !.dial = 0, !.session = NoSession,
                                             !.marker = FALSE]]
      \/ /\ wire' = wire \union {Hello(d, pairing[d].dial)}
         /\ pairing' = [pairing EXCEPT ![d] =
                          [pairing[d] EXCEPT !.dial = 0, !.hello = pairing[d].dial]]
  BY DEF Connect, SetPairing, Send, Disconnected
<1>3. /\ [pairing[d] EXCEPT !.dial = 0, !.session = NoSession,
                            !.marker = FALSE].session = NoSession
      /\ [pairing[d] EXCEPT !.dial = 0, !.hello = pairing[d].dial].session
           = pairing[d].session
  BY PairingTypes DEF Pairings
<1>4. \A e \in Devices : pairing'[e].session \in {pairing[e].session, NoSession}
  BY <1>2, <1>3 DEF LanTypeOK
<1>5. \A m \in wire' : m \in wire \/ Backs(m, confirmed')
  BY <1>2, PairingTypes, HelloBacks
<1> QED
  BY <1>1, <1>4, <1>5, TrustFrameOfPairing

(* A failed Confirm keeps the invariant.                                       *)
LEMMA ConfirmFailsTrust ==
  ASSUME LanTypeOK, TrustInv, NEW d \in Devices, ConfirmFails(d)
  PROVE  TrustInv'
<1>1. UNCHANGED <<acl, row, events, confirmed>>
  BY DEF ConfirmFails, trust, queues, history
<1>2. PICK c \in pairing[d].confirms :
        /\ pairing' = [pairing EXCEPT ![d] = [pairing[d] EXCEPT !.confirms = @ \ {c}]]
        /\ wire' = wire \ About("confirm", c)
  BY DEF ConfirmFails, SetPairing
<1>3. \A e \in Devices : pairing'[e].session = pairing[e].session
  BY <1>2, PairingTypes DEF LanTypeOK, Pairings
<1> QED
  BY <1>1, <1>2, <1>3, TrustFrameOfPairing

(* A Hello that replaces a session keeps the invariant.                        *)
LEMMA ReceiveHelloTrust ==
  ASSUME LanTypeOK, TrustInv, NEW m \in wire, ReceiveHello(m)
  PROVE  TrustInv'
<1> DEFINE d == m.to
<1>1. d \in Devices /\ m.n \in Nonces /\ m \in Messages /\ m.kind = "hello" /\ 0 \in Nonces
  BY MessageFields, LanBounds DEF ReceiveHello, Delivered, Nonces
<1>2. UNCHANGED <<acl, row, events, confirmed>>
  BY DEF ReceiveHello, trust, queues, history
<1>3. CASE Reply(m, Answer(m, 0, FALSE)) /\ UNCHANGED pairing
  <2>1. Backs(Answer(m, 0, FALSE), confirmed')
    BY <1>1, HelloBacks
  <2>2. \A w \in wire' : w \in wire \/ Backs(w, confirmed')
    BY <1>3, <2>1 DEF Reply
  <2> QED
    BY <1>2, <1>3, <2>2, TrustFrameOfPairing
<1>4. CASE \E n \in Fresh :
             /\ SetPairing(d, [pairing[d] EXCEPT !.session = Session(Code(d, n, m.n))])
             /\ Reply(m, Answer(m, n, TRUE))
  <2>1. PICK n \in Fresh :
          /\ SetPairing(d, [pairing[d] EXCEPT !.session = Session(Code(d, n, m.n))])
          /\ Reply(m, Answer(m, n, TRUE))
    BY <1>4
  <2>2. PICK c \in Codes : c = Code(d, n, m.n) /\ c # NoCode
    BY <1>1, FreshType, CodeType
  <2>3. Backed(d, Session(c), confirmed')
    BY <1>1, <2>2, NewSessionIsBacked
  <2>4. [pairing[d] EXCEPT !.session = Session(c)].session = Session(c)
    BY <1>1, PairingTypes DEF Pairings
  <2>5. /\ pairing'[d].session = Session(c)
        /\ \A e \in Devices \ {d} : pairing'[e] = pairing[e]
    BY <1>1, <2>1, <2>2, <2>4 DEF SetPairing, LanTypeOK
  <2>6. \A e \in Devices : \/ pairing'[e].session \in {pairing[e].session, NoSession}
                           \/ Backed(e, pairing'[e].session, confirmed')
    BY <2>3, <2>5
  <2>7. Backs(Answer(m, n, TRUE), confirmed')
    BY <1>1, FreshType, HelloBacks
  <2>8. \A w \in wire' : w \in wire \/ Backs(w, confirmed')
    BY <2>1, <2>7 DEF Reply
  <2> QED
    BY <1>2, <2>6, <2>8, TrustFrameOfPairing
<1> QED
  BY <1>3, <1>4 DEF ReceiveHello

(* The answer to a Hello that replaces a session keeps the invariant.          *)
LEMMA ReceiveHelloedTrust ==
  ASSUME LanTypeOK, TrustInv, NEW m \in wire, ReceiveHelloed(m)
  PROVE  TrustInv'
<1> DEFINE d == m.to
<1>1. d \in Devices /\ m.n \in Nonces
  BY MessageFields
<1>2. UNCHANGED <<row, events, confirmed>>
  BY DEF ReceiveHelloed, queues, history
<1>3. CASE /\ pairing[d].hello # 0 /\ wire' = wire \ {m} /\ UNCHANGED <<acl, link>>
           /\ SetPairing(d, [pairing[d] EXCEPT !.hello = 0,
                               !.session = Session(Code(d, pairing[d].hello, m.n))])
  <2>1. PICK c \in Codes : c = Code(d, pairing[d].hello, m.n) /\ c # NoCode
    BY <1>1, <1>3, PairingTypes, CodeType
  <2>2. Backed(d, Session(c), confirmed')
    BY <1>1, <2>1, NewSessionIsBacked
  <2>3. [pairing[d] EXCEPT !.hello = 0, !.session = Session(c)].session = Session(c)
    BY <1>1, PairingTypes DEF Pairings
  <2>4. /\ pairing'[d].session = Session(c)
        /\ \A e \in Devices \ {d} : pairing'[e] = pairing[e]
    BY <1>1, <1>3, <2>1, <2>3 DEF SetPairing, LanTypeOK
  <2>5. \A e \in Devices : \/ pairing'[e].session \in {pairing[e].session, NoSession}
                           \/ Backed(e, pairing'[e].session, confirmed')
    BY <2>2, <2>4
  <2> QED
    BY <1>2, <1>3, <2>5, TrustFrameOfPairing
<1>4. CASE EndAttempt(d, wire \ {m})
  BY <1>1, <1>2, <1>4, EndedTrust
<1>5. CASE wire' = wire \ {m} /\ UNCHANGED <<acl, pairing, link>>
  BY <1>2, <1>5, TrustFrameOfPairing
<1> QED
  BY <1>3, <1>4, <1>5 DEF ReceiveHelloed

(* The runtime confirms the code of the session that is pending now, and says  *)
(* so.                                                                         *)
LEMMA ConfirmLocalTrust ==
  ASSUME LanTypeOK, TrustInv, NEW d \in Devices, ConfirmLocal(d)
  PROVE  TrustInv'
<1>1. UNCHANGED <<acl, row>>
  BY DEF ConfirmLocal, trust
<1>2. CASE HasSession(d)
  <2>1. PICK c \in Codes : c = SessionOf(d).code
    BY PairingTypes DEF SessionOf
  <2>2. PICK p \in Pairings :
          p = [pairing[d] EXCEPT !.session.local = TRUE, !.confirms = @ \union {c}]
    BY PairingTypes, SessionChanges
  <2>3. Completed(d, p) /\ confirmed' = confirmed \union {<<d, c>>} /\ Send(Confirm(d, c))
    BY <1>2, <2>1, <2>2 DEF ConfirmLocal
  <2>4. Kept
    BY <2>3 DEF Kept
  <2>5. c # NoCode /\ Backed(d, SessionOf(d), confirmed) /\ SessionOf(d) \in Sessions
    BY <1>2, <2>1, PairingTypes DEF TrustInv, SessionsAreBacked, Backed, HasSession, SessionOf
  <2>6. p.session = [SessionOf(d) EXCEPT !.local = TRUE]
    BY <2>2, PairingTypes DEF SessionOf, Pairings
  <2>7. p.session.code = c /\ (p.session.remote <=> SessionOf(d).remote)
    BY <2>1, <2>5, <2>6 DEF Sessions
  <2>8. PICK s \in Sessions : s = SessionOf(d)
    BY <2>5
  <2>9. Backed(d, s, confirmed')
    BY <2>4, <2>5, <2>8, BackedIsKept
  <2>10. Backed(d, p.session, confirmed')
    BY <2>1, <2>3, <2>5, <2>7, <2>8, <2>9 DEF Backed
  <2>11. Backs(Confirm(d, c), confirmed')
    BY <2>3, <2>5, OtherDevice DEF Backs, Confirm
  <2>12. \A m \in wire' : m \in wire \/ Backs(m, confirmed')
    BY <2>3, <2>11 DEF Send
  <2> QED
    BY <1>1, <2>3, <2>4, <2>10, <2>12, CompletedTrust
<1>3. CASE ~HasSession(d)
  <2>1. UNCHANGED <<pairing, events, confirmed, wire>>
    BY <1>3 DEF ConfirmLocal
  <2> QED
    BY <1>1, <2>1, TrustFrameOfPairing
<1> QED
  BY <1>2, <1>3

(* A Confirm counts for its own code only; the answer says no more than is     *)
(* true.                                                                       *)
LEMMA ReceiveConfirmTrust ==
  ASSUME LanTypeOK, TrustInv, NEW m \in wire, ReceiveConfirm(m)
  PROVE  TrustInv'
<1> DEFINE d == m.to
           both == IF [pairing[d] EXCEPT !.session.remote = TRUE].session.local THEN 1 ELSE 0
<1>1. d \in Devices /\ Other(d) \in Devices /\ m \in Messages /\ m.kind = "confirm"
  BY MessageFields, OtherDevice DEF ReceiveConfirm, Delivered
<1>2. UNCHANGED <<acl, row, confirmed>> /\ Kept
  BY DEF ReceiveConfirm, trust, history, Kept
<1>3. CASE /\ Reply(m, Answer(m, both, TRUE)) /\ Matches(d, m.id)
           /\ Completed(d, [pairing[d] EXCEPT !.session.remote = TRUE])
  <2>1. PICK p \in Pairings : p = [pairing[d] EXCEPT !.session.remote = TRUE]
    BY <1>1, PairingTypes, SessionChanges
  <2>2. SessionOf(d) \in Sessions /\ Backed(d, SessionOf(d), confirmed)
        /\ SessionOf(d) # NoSession /\ SessionOf(d).code = m.id
    BY <1>1, <1>3, PairingTypes
    DEF TrustInv, SessionsAreBacked, SessionOf, Matches, HasSession
  <2>3. p.session = [SessionOf(d) EXCEPT !.remote = TRUE]
    BY <1>1, <2>1, PairingTypes DEF SessionOf, Pairings
  <2>4. p.session.code = m.id /\ (p.session.local <=> SessionOf(d).local)
    BY <2>2, <2>3 DEF Sessions
  <2>5. m.id # NoCode /\ <<Other(d), m.id>> \in confirmed
    BY <1>1 DEF TrustInv, MessagesAreBacked, Backs
  <2>6. Backed(d, p.session, confirmed')
    BY <1>2, <2>2, <2>4, <2>5 DEF Backed
  <2>7. both = 1 => Mutual(d, confirmed)
    BY <1>1, <2>1, <2>2, <2>4, <2>5 DEF Backed, Mutual, Messages
  <2>8. Backs(Answer(m, both, TRUE), confirmed')
    BY <1>1, <1>2, <2>7, MutualIsSymmetric DEF Backs, Answer, AnswerTo
  <2>9. \A w \in wire' : w \in wire \/ Backs(w, confirmed')
    BY <1>3, <2>8 DEF Reply
  <2> QED
    BY <1>1, <1>2, <1>3, <2>1, <2>6, <2>9, CompletedTrust
<1>4. CASE Reply(m, Answer(m, 0, FALSE)) /\ UNCHANGED <<pairing, events>>
  <2>1. Backs(Answer(m, 0, FALSE), confirmed')
    BY <1>1 DEF Backs, Answer, AnswerTo
  <2>2. \A w \in wire' : w \in wire \/ Backs(w, confirmed')
    BY <1>4, <2>1 DEF Reply
  <2> QED
    BY <1>2, <1>4, <2>2, TrustFrameOfPairing
<1> QED
  BY <1>3, <1>4 DEF ReceiveConfirm

(* "both" is true whichever session it is counted for.                         *)
LEMMA ReceiveConfirmedTrust ==
  ASSUME LanTypeOK, TrustInv, NEW m \in wire, ReceiveConfirmed(m)
  PROVE  TrustInv'
<1> DEFINE d == m.to
           p == [pairing[d] EXCEPT !.confirms = @ \ {m.id}]
           q == IF m.n = 1 /\ HasSession(d) THEN [p EXCEPT !.session.remote = TRUE] ELSE p
<1>1. d \in Devices /\ m \in Messages /\ m.kind = "confirmed"
  BY MessageFields DEF ReceiveConfirmed, Delivered
<1>2. UNCHANGED <<row, confirmed>> /\ Kept
  BY DEF ReceiveConfirmed, history, Kept
<1>3. p \in Pairings /\ p.session = SessionOf(d)
  <2>1. p \in Pairings
    BY <1>1, PairingTypes, PairingChanges
  <2> QED
    BY <1>1, <2>1, PairingTypes DEF Pairings, SessionOf
<1> HIDE DEF p
<1>4. CASE Completed(d, q) /\ wire' = wire \ {m} /\ UNCHANGED <<acl, link>>
  <2>1. Backed(d, SessionOf(d), confirmed) /\ SessionOf(d) \in Sessions
    BY <1>1, PairingTypes DEF TrustInv, SessionsAreBacked, SessionOf
  <2>2. CASE m.n = 1 /\ HasSession(d)
    <3>1. PICK r \in Pairings : r = [p EXCEPT !.session.remote = TRUE]
      BY <1>3, SessionChanges
    <3>2. Completed(d, r)
      BY <1>4, <2>2, <3>1
    <3>3. r.session = [SessionOf(d) EXCEPT !.remote = TRUE]
      BY <1>3, <3>1 DEF Pairings
    <3>4. r.session.code = SessionOf(d).code /\ (r.session.local <=> SessionOf(d).local)
      BY <2>1, <3>3 DEF Sessions
    <3>5. Mutual(d, confirmed)
      BY <1>1, <2>2 DEF TrustInv, MessagesAreBacked, Backs
    <3>6. Backed(d, r.session, confirmed')
      BY <1>2, <2>1, <2>2, <3>4, <3>5 DEF Backed, HasSession
    <3> QED
      BY <1>1, <1>2, <1>4, <3>2, <3>6, CompletedTrust
  <2>3. CASE ~(m.n = 1 /\ HasSession(d))
    <3>1. PICK r \in Pairings : r = p
      BY <1>3
    <3>2. Completed(d, r) /\ Backed(d, r.session, confirmed')
      BY <1>2, <1>3, <1>4, <2>1, <2>3, <3>1
    <3> QED
      BY <1>1, <1>2, <1>4, <3>2, CompletedTrust
  <2> QED
    BY <2>2, <2>3
<1>5. CASE EndAttempt(d, wire \ {m}) /\ UNCHANGED events
  BY <1>1, <1>2, <1>5, EndedTrust
<1>6. CASE wire' = wire \ {m} /\ UNCHANGED <<acl, pairing, events, link>>
  BY <1>2, <1>6, TrustFrameOfPairing
<1> QED
  BY <1>4, <1>5, <1>6 DEF ReceiveConfirmed, p

(* What the person asks gives no trust.                                        *)
LEMMA PersonTrust ==
  ASSUME LanTypeOK, TrustInv, NEW d \in Devices, Person(d)
  PROVE  TrustInv'
<1>1. UNCHANGED <<pairing, events, wire>>
  BY DEF Person, Pair, Accept, Strike, Allow, Grant, Ungrant, SetPolicy, network, queues
<1>2. CASE Pair(d) \/ Accept(d)
  BY <1>1, <1>2, TrustFrameOfPairing DEF Pair, Accept, trust
<1>3. CASE Strike(d)
  <2>1. /\ acl' = [acl EXCEPT ![d] = "blocked"]
        /\ \/ row' = [row EXCEPT ![d] = "blocked"] /\ confirmed' = confirmed \ {<<d, NoCode>>}
           \/ UNCHANGED <<row, confirmed>>
    BY <1>3 DEF Strike, SetAcl, StoreBlock, SetRow
  <2>2. CASE row' = [row EXCEPT ![d] = "blocked"] /\ confirmed' = confirmed \ {<<d, NoCode>>}
    <3>1. Kept
      BY <2>2 DEF Kept
    <3>2. ~IsTrusted(row'[d]) /\ ~IsTrusted(acl'[d])
      BY <2>1, <2>2 DEF IsTrusted, LanTypeOK
    <3>3. \A e \in Devices : e # d => /\ row'[e] = row[e] /\ acl'[e] = acl[e]
                                      /\ <<e, NoCode>> \in confirmed =>
                                           <<e, NoCode>> \in confirmed'
      BY <2>1, <2>2 DEF LanTypeOK
    <3> QED
      BY <1>1, <3>1, <3>2, <3>3, TrustFrameOfAccess
  <2>3. CASE UNCHANGED <<row, confirmed>>
    BY <1>1, <2>1, <2>3, TrustFrameOfPairing DEF LanTypeOK
  <2> QED
    BY <2>1, <2>2, <2>3
<1>4. CASE Allow(d) \/ Grant(d) \/ Ungrant(d) \/ SetPolicy(d)
  <2>1. confirmed' = confirmed /\ Kept
    BY <1>4 DEF Allow, Grant, Ungrant, SetPolicy, history, Kept
  <2>2. \A e \in Devices : IsTrusted(row'[e]) \/ IsTrusted(acl'[e]) =>
                             IsTrusted(row[e]) \/ IsTrusted(acl[e])
    <3>1. CASE Allow(d)
      BY <3>1 DEF Allow, SetAcl, SetRow, IsTrusted, LanTypeOK
    <3>2. CASE Grant(d)
      BY <3>2 DEF Grant, SetAcl, SetRow, LanTypeOK
    <3>3. CASE Ungrant(d)
      <4>1. row[d] = "granted" /\ IsTrusted(row[d])
        BY <3>3 DEF Ungrant, IsTrusted
      <4>2. \A e \in Devices : e # d => row'[e] = row[e] /\ acl'[e] = acl[e]
        BY <3>3 DEF Ungrant, SetAcl, SetRow, LanTypeOK
      <4> QED
        BY <4>1, <4>2
    <3>4. CASE SetPolicy(d)
      <4>1. \/ UNCHANGED <<acl, row>>
            \/ /\ acl' = [acl EXCEPT ![d] = WithoutGrant(acl[d])]
               /\ row' = [row EXCEPT ![d] = WithoutGrant(row[d])]
        BY <3>4 DEF SetPolicy, SetAcl, SetRow
      <4>2. /\ IsTrusted(WithoutGrant(acl[d])) <=> IsTrusted(acl[d])
            /\ IsTrusted(WithoutGrant(row[d])) <=> IsTrusted(row[d])
        BY StandingTypes DEF LanTypeOK
      <4>3. \A e \in Devices : \/ row'[e] = row[e] /\ acl'[e] = acl[e]
                               \/ /\ e = d /\ row'[e] = WithoutGrant(row[d])
                                  /\ acl'[e] = WithoutGrant(acl[d])
        BY <4>1 DEF LanTypeOK
      <4> QED
        BY <4>2, <4>3
    <3> QED
      BY <1>4, <3>1, <3>2, <3>3, <3>4
  <2> QED
    BY <1>1, <2>1, <2>2, TrustFrameOfAccess
<1> QED
  BY <1>2, <1>3, <1>4 DEF Person

(* The worker stores trust that was agreed.                                    *)
LEMMA PersistedTrust ==
  ASSUME LanTypeOK, TrustInv, NEW d \in Devices, Persist(d)
  PROVE  TrustInv'
<1>1. UNCHANGED <<pairing, wire>> /\ events' = [events EXCEPT ![d] = Tail(events[d])]
      /\ events[d] # <<>> /\ events[d] \in Seq(Words) /\ "trusted" \in Words
  BY DEF Persist, PersistTrust, PersistStrike, NextEvent, network, LanTypeOK, Words
<1>2. \A e \in Devices : Holds(events'[e], "trusted") => Holds(events[e], "trusted")
  BY <1>1, Elementwise DEF LanTypeOK
<1>3. CASE PersistTrust(d)
  <2>1. confirmed' = confirmed /\ Kept
    BY <1>3 DEF PersistTrust, history, Kept
  <2>2. Holds(events[d], "trusted")
    BY <1>1, <1>3 DEF PersistTrust, NextEvent, Holds
  <2>3. \A e \in Devices : e # d => row'[e] = row[e] /\ acl'[e] = acl[e]
    BY <1>3 DEF PersistTrust, SetAcl, SetRow, LanTypeOK
  <2> QED
    BY <1>1, <1>2, <2>1, <2>2, <2>3, TrustFrameOfAccess
<1>4. CASE PersistStrike(d)
  <2>1. acl' = [acl EXCEPT ![d] = "blocked"]
    BY <1>4 DEF PersistStrike, SetAcl
  <2>2. CASE row' = [row EXCEPT ![d] = "blocked"] /\ confirmed' = confirmed \ {<<d, NoCode>>}
    <3>1. Kept
      BY <2>2 DEF Kept
    <3>2. ~IsTrusted(row'[d]) /\ ~IsTrusted(acl'[d])
      BY <2>1, <2>2 DEF IsTrusted, LanTypeOK
    <3>3. \A e \in Devices : e # d => /\ row'[e] = row[e] /\ acl'[e] = acl[e]
                                      /\ <<e, NoCode>> \in confirmed =>
                                           <<e, NoCode>> \in confirmed'
      BY <2>1, <2>2 DEF LanTypeOK
    <3> QED
      BY <1>1, <1>2, <3>1, <3>2, <3>3, TrustFrameOfAccess
  <2>3. CASE UNCHANGED <<row, confirmed>>
    <3>1. Kept
      BY <2>3 DEF Kept
    <3>2. \A e \in Devices : IsTrusted(acl'[e]) => IsTrusted(acl[e])
      BY <2>1 DEF IsTrusted, LanTypeOK
    <3> QED
      BY <1>1, <1>2, <2>3, <3>1, <3>2, TrustFrameOfAccess
  <2> QED
    BY <1>4, <2>2, <2>3 DEF PersistStrike, StoreBlock, SetRow
<1> QED
  BY <1>3, <1>4 DEF Persist

(* A restart gives no trust that was not stored.                               *)
LEMMA StoppedTrust ==
  ASSUME LanTypeOK, TrustInv, NEW d \in Devices, RestartLan(d) \/ Crash(d)
  PROVE  TrustInv'
<1>1. UNCHANGED <<row, confirmed>> /\ Kept
  BY DEF RestartLan, Crash, Kept
<1>2. /\ pairing' = [pairing EXCEPT ![d] = NoPairing] /\ events' = [events EXCEPT ![d] = <<>>]
      /\ wire' = {}
  BY DEF RestartLan, Crash, Stopped, SetPairing, Disconnected
<1>3. \A e \in Devices : acl'[e] \in {acl[e], row[e], "blocked"}
  BY DEF RestartLan, Crash, SetAcl, LanTypeOK
<1>4. \A e \in Devices : IsTrusted(acl'[e]) => IsTrusted(row[e]) \/ IsTrusted(acl[e])
  BY <1>3 DEF IsTrusted
<1>5. \A e \in Devices : Holds(events'[e], "trusted") => Holds(events[e], "trusted")
  <2>1. ~Holds(<<>>, "trusted")
    BY DEF Holds
  <2> QED
    BY <1>2, <2>1 DEF LanTypeOK
<1>6. \A e \in Devices : pairing'[e].session \in {pairing[e].session, NoSession}
  BY <1>2 DEF NoPairing, LanTypeOK
<1> QED
  BY <1>1, <1>2, <1>4, <1>5, <1>6, TrustFrame

(* The handlers of the runtime keep the invariant.                             *)
LEMMA HandlerTrust ==
  ASSUME LanTypeOK, TrustInv, NEW d \in Devices, Handler(d)
  PROVE  TrustInv'
<1>1. CASE StrikePairing(d)
  <2>1. /\ UNCHANGED <<row, confirmed>> /\ acl' = [acl EXCEPT ![d] = "blocked"] /\ wire' = {}
        /\ pairing' = [pairing EXCEPT ![d] = NoPairing] /\ Kept
        /\ events' = [events EXCEPT ![d] = Append(events[d], "struck")]
    BY <1>1 DEF StrikePairing, EnforceBlock, SetAcl, SetPairing, Emit, Disconnected, history,
       Kept
  <2>2. \A e \in Devices : IsTrusted(acl'[e]) => IsTrusted(acl[e])
    BY <2>1 DEF IsTrusted, LanTypeOK
  <2>3. events[d] \in Seq(Words) /\ {"trusted", "struck"} \subseteq Words
    BY DEF LanTypeOK, Words
  <2>4. Holds(events'[d], "trusted") => Holds(events[d], "trusted")
    BY <2>1, <2>3, Elementwise DEF LanTypeOK
  <2>5. \A e \in Devices : Holds(events'[e], "trusted") => Holds(events[e], "trusted")
    BY <2>1, <2>4 DEF LanTypeOK
  <2>6. \A e \in Devices : pairing'[e].session \in {pairing[e].session, NoSession}
    BY <2>1 DEF NoPairing, LanTypeOK
  <2> QED
    BY <2>1, <2>2, <2>5, <2>6, TrustFrame
<1>2. CASE ApplyGrant(d) \/ ApplyUngrant(d)
  <2>1. UNCHANGED <<row, pairing, events, wire, confirmed>> /\ Kept
    BY <1>2 DEF ApplyGrant, ApplyUngrant, history, network, Kept
  <2>2. \A e \in Devices : IsTrusted(acl'[e]) => IsTrusted(acl[e])
    <3>1. CASE ApplyGrant(d)
      BY <3>1 DEF ApplyGrant, SetAcl, LanTypeOK
    <3>2. CASE ApplyUngrant(d)
      BY <3>2, StandingTypes DEF ApplyUngrant, SetAcl, LanTypeOK
    <3> QED
      BY <1>2, <3>1, <3>2
  <2> QED
    BY <2>1, <2>2, TrustFrameOfAccess
<1>3. CASE HelloFails(d)
  <2>1. /\ EndAttempt(d, wire \ About("hello", Code(d, pairing[d].hello, 0)))
        /\ UNCHANGED <<row, events, confirmed>>
    BY <1>3 DEF HelloFails, queues, history
  <2> QED
    BY <2>1, EndedTrust
<1>4. CASE Wait(d)
  BY <1>4, TrustFrameOfPairing DEF Wait, trust, queues, network, history
<1> QED
  BY <1>1, <1>2, <1>3, <1>4, BeginTrust, ConfirmLocalTrust, ConfirmFailsTrust DEF Handler

(* Every step keeps the invariant.                                             *)
LEMMA TrustStep ==
  ASSUME LanTypeOK, TrustInv, [Next]_lanVars
  PROVE  TrustInv'
<1>1. ASSUME NEW m \in wire, Message(m) PROVE TrustInv'
  BY <1>1, ReceiveHelloTrust, ReceiveHelloedTrust, ReceiveConfirmTrust,
     ReceiveConfirmedTrust DEF Message
<1>2. ASSUME NEW d \in Devices, DialFails(d) \/ Expire(d) PROVE TrustInv'
  BY <1>2, EndedTrust DEF DialFails, Expire, queues, history
<1>3. ASSUME NEW d \in Devices, Reconcile(d) PROVE TrustInv'
  <2>1. UNCHANGED <<row, pairing, events, wire, confirmed>> /\ Kept
    BY <1>3 DEF Reconcile, queues, network, history, Kept
  <2>2. acl' = [acl EXCEPT ![d] = Narrowed(d)] /\ (IsTrusted(Narrowed(d)) => IsTrusted(acl[d]))
    BY <1>3 DEF Reconcile, SetAcl, Narrowed, IsTrusted
  <2>3. \A e \in Devices : IsTrusted(acl'[e]) => IsTrusted(acl[e])
    BY <2>2 DEF LanTypeOK
  <2> QED
    BY <2>1, <2>3, TrustFrameOfAccess
<1>4. ASSUME NEW d \in Devices, Ask(d) \/ Scope(d) \/ Lease(d) \/ HandOver(d)
      PROVE  TrustInv'
  BY <1>4, TrustFrameOfPairing DEF Ask, Scope, Lease, HandOver, trust, queues, network, history
<1>5. CASE Drop \/ TimeOut
  BY <1>5, TrustFrameOfPairing
  DEF Drop, TimeOut, Disconnected, trust, queues, network, history
<1>6. CASE UNCHANGED lanVars
  BY <1>6, TrustFrameOfPairing DEF lanVars, trust, queues, network, history
<1> QED
  BY <1>1, <1>2, <1>3, <1>4, <1>5, <1>6, HandlerTrust, PersonTrust, PersistedTrust,
     ConnectTrust, StoppedTrust DEF Next

-------------------------------------------------------------------------------
(* A rejection or a revocation is heeded                                      *)

(* Every w in the queue has an "after" behind it.                              *)
Followed(q, w, after) ==
  \A i \in DOMAIN q : q[i] = w => \E j \in DOMAIN q : j > i /\ q[j] = after

(* The device trusts the other, in SQLite or in memory.                        *)
Inside(d) == IsTrusted(row[d]) \/ IsTrusted(acl[d])

(* With no strike under way nothing is left that could give or keep trust.     *)
Heeded(cs, es, local, inside) ==
  /\ Followed(cs, "accept", "strike")
  /\ ~Holds(cs, "strike") =>
       /\ ~local /\ Followed(es, "trusted", "struck")
       /\ inside => Holds(es, "struck")

(* The person struck the other out, and nothing that carries this out was      *)
(* lost.                                                                       *)
Unwanted(d) == ~wanted[d] /\ lost[d] \intersect {"strike", "struck"} = {}

(* The strengthening of StruckStaysOut.                                        *)
StrikesAreHeeded ==
  \A d \in Devices :
    Unwanted(d) => Heeded(commands[d], events[d], SessionOf(d).local, Inside(d))

(* How an append and the loss of the head change Followed.                     *)
LEMMA FollowedChanges ==
  ASSUME NEW q \in Seq(Words), NEW w \in Words, NEW after \in Words, w # after
  PROVE  /\ Followed(Append(q, after), w, after)
         /\ \A e \in Words \ {w} : Followed(q, w, after) => Followed(Append(q, e), w, after)
         /\ Followed(q, w, after) /\ q # <<>> =>
              /\ Followed(Tail(q), w, after)
              /\ Head(q) = w => Holds(Tail(q), after)
         /\ Followed(<<>>, w, after)
<1>1. Followed(Append(q, after), w, after)
  <2> SUFFICES ASSUME NEW i \in DOMAIN Append(q, after), Append(q, after)[i] = w
               PROVE  \E j \in DOMAIN Append(q, after) : j > i /\ Append(q, after)[j] = after
    BY DEF Followed
  <2>1. Len(q) + 1 \in DOMAIN Append(q, after) /\ Append(q, after)[Len(q) + 1] = after
    OBVIOUS
  <2>2. i # Len(q) + 1 /\ i \in 1 .. Len(q) + 1
    BY <2>1
  <2> QED
    BY <2>1, <2>2
<1>2. ASSUME NEW e \in Words \ {w}, Followed(q, w, after)
      PROVE  Followed(Append(q, e), w, after)
  <2> SUFFICES ASSUME NEW i \in DOMAIN Append(q, e), Append(q, e)[i] = w
               PROVE  \E j \in DOMAIN Append(q, e) : j > i /\ Append(q, e)[j] = after
    BY DEF Followed
  <2>1. i \in DOMAIN q /\ q[i] = w
    OBVIOUS
  <2>2. PICK j \in DOMAIN q : j > i /\ q[j] = after
    BY <1>2, <2>1 DEF Followed
  <2>3. j \in DOMAIN Append(q, e) /\ Append(q, e)[j] = after
    BY <2>2
  <2> QED
    BY <2>2, <2>3
<1>3. ASSUME Followed(q, w, after), q # <<>>
      PROVE  Followed(Tail(q), w, after)
  <2> SUFFICES ASSUME NEW i \in DOMAIN Tail(q), Tail(q)[i] = w
               PROVE  \E j \in DOMAIN Tail(q) : j > i /\ Tail(q)[j] = after
    BY DEF Followed
  <2>1. i + 1 \in DOMAIN q /\ q[i + 1] = w
    BY <1>3
  <2>2. PICK j \in DOMAIN q : j > i + 1 /\ q[j] = after
    BY <1>3, <2>1 DEF Followed
  <2>3. j - 1 \in DOMAIN Tail(q) /\ Tail(q)[j - 1] = after /\ j - 1 > i
    BY <1>3, <2>2
  <2> QED
    BY <2>3
<1>4. ASSUME Followed(q, w, after), q # <<>>, Head(q) = w
      PROVE  Holds(Tail(q), after)
  <2>1. 1 \in DOMAIN q /\ q[1] = w
    BY <1>4
  <2>2. PICK j \in DOMAIN q : j > 1 /\ q[j] = after
    BY <1>4, <2>1 DEF Followed
  <2>3. j - 1 \in DOMAIN Tail(q) /\ Tail(q)[j - 1] = after
    BY <1>4, <2>2
  <2> QED
    BY <2>3 DEF Holds
<1>5. Followed(<<>>, w, after)
  BY DEF Followed
<1> QED
  BY <1>1, <1>2, <1>3, <1>4, <1>5

(* What a step has to show that leaves commands and events alone.              *)
LEMMA HeededFrame ==
  ASSUME StrikesAreHeeded, UNCHANGED <<commands, events>>,
         \A d \in Devices :
           /\ Unwanted(d)' => Unwanted(d)
           /\ SessionOf(d)'.local => SessionOf(d).local
           /\ Inside(d)' => Inside(d)
  PROVE  StrikesAreHeeded'
BY DEF StrikesAreHeeded, Heeded

(* A step that touches one device needs to be looked at there only.            *)
LEMMA HeededFrameOfOne ==
  ASSUME StrikesAreHeeded, NEW d \in Devices,
         \A e \in Devices \ {d} :
           /\ acl'[e] = acl[e] /\ row'[e] = row[e] /\ SessionOf(e)' = SessionOf(e)
           /\ commands'[e] = commands[e] /\ events'[e] = events[e]
           /\ wanted'[e] = wanted[e] /\ lost'[e] = lost[e],
         Unwanted(d)' => Heeded(commands[d], events[d], SessionOf(d).local, Inside(d))'
  PROVE  StrikesAreHeeded'
<1> SUFFICES ASSUME NEW e \in Devices, e # d, Unwanted(e)'
             PROVE  Heeded(commands[e], events[e], SessionOf(e).local, Inside(e))'
  BY DEF StrikesAreHeeded
<1>1. Unwanted(e) /\ (Inside(e)' <=> Inside(e))
  BY DEF Unwanted, Inside
<1> QED
  BY <1>1 DEF StrikesAreHeeded, Heeded

(* A command that neither accepts nor strikes keeps the invariant.             *)
LEMMA HeededCommand ==
  ASSUME LanTypeOK, StrikesAreHeeded, NEW d \in Devices, NEW c \in Words \ {"accept", "strike"},
         NextCommand(d, c), UNCHANGED <<row, events, wanted, lost>>,
         \A e \in Devices : /\ SessionOf(e)'.local => SessionOf(e).local
                            /\ IsTrusted(acl'[e]) => IsTrusted(acl[e])
  PROVE  StrikesAreHeeded'
<1> SUFFICES ASSUME NEW e \in Devices, Unwanted(e)'
             PROVE  Heeded(commands[e], events[e], SessionOf(e).local, Inside(e))'
  BY DEF StrikesAreHeeded
<1>1. /\ Heeded(commands[e], events[e], SessionOf(e).local, Inside(e))
      /\ Inside(e)' => Inside(e)
  BY DEF StrikesAreHeeded, Unwanted, Inside
<1>2. /\ commands[d] \in Seq(Words) /\ commands[d] # <<>> /\ Head(commands[d]) = c
      /\ {"accept", "strike"} \subseteq Words
      /\ commands' = [commands EXCEPT ![d] = Tail(commands[d])]
  BY DEF NextCommand, LanTypeOK, Words
<1>3. /\ Followed(commands[e], "accept", "strike") => Followed(commands'[e], "accept", "strike")
      /\ Holds(commands[e], "strike") => Holds(commands'[e], "strike")
  <2>1. CASE e = d
    <3>1. commands'[e] = Tail(commands[d])
      BY <1>2, <2>1 DEF LanTypeOK
    <3> QED
      BY <1>2, <2>1, <3>1, FollowedChanges, Elementwise
  <2>2. CASE e # d
    BY <1>2, <2>2 DEF LanTypeOK
  <2> QED
    BY <2>1, <2>2
<1> QED
  BY <1>1, <1>3 DEF Heeded

(* What a confirmation changes.                                                *)
LEMMA SessionUnlessDone ==
  ASSUME LanTypeOK, NEW d \in Devices, NEW p \in Pairings, Completed(d, p)
  PROVE  /\ \A e \in Devices \ {d} : SessionOf(e)' = SessionOf(e) /\ events'[e] = events[e]
         /\ SessionOf(d)'.local => p.session.local
         /\ ~p.session.local => events' = events
<1>1. \/ pairing' = [pairing EXCEPT ![d] = NoPairing]
      \/ pairing' = [pairing EXCEPT ![d] = p]
      \/ pairing' = [pairing EXCEPT ![d] = [p EXCEPT !.session = NoSession, !.dial = 0,
                                                      !.marker = FALSE]]
  BY DEF Completed, SetPairing
<1>2. [p EXCEPT !.session = NoSession, !.dial = 0, !.marker = FALSE].session = NoSession
  BY DEF Pairings
<1>3. NoPairing.session = NoSession /\ ~NoSession.local
  BY DEF NoPairing, NoSession, Session
<1>4. SessionOf(d)'.local => p.session.local
  BY <1>1, <1>2, <1>3 DEF SessionOf, LanTypeOK
<1>5. \A e \in Devices \ {d} : SessionOf(e)' = SessionOf(e) /\ events'[e] = events[e]
  BY <1>1 DEF Completed, Emit, SessionOf, LanTypeOK
<1>6. ~p.session.local => events' = events
  BY DEF Completed
<1> QED
  BY <1>4, <1>5, <1>6

(* Without the word of the person a confirmation queues no trust.              *)
LEMMA HeededCompletion ==
  ASSUME LanTypeOK, StrikesAreHeeded, NEW d \in Devices, NEW p \in Pairings, Completed(d, p),
         UNCHANGED <<row, acl, commands, wanted, lost>>,
         p.session.local <=> SessionOf(d).local
  PROVE  StrikesAreHeeded'
<1>1. \A e \in Devices \ {d} : SessionOf(e)' = SessionOf(e) /\ events'[e] = events[e]
  BY SessionUnlessDone
<1>2. ASSUME Unwanted(d)'
      PROVE  Heeded(commands[d], events[d], SessionOf(d).local, Inside(d))'
  <2>1. Heeded(commands[d], events[d], SessionOf(d).local, Inside(d))
    BY <1>2 DEF StrikesAreHeeded, Unwanted
  <2>2. ~p.session.local => ~SessionOf(d)'.local /\ events' = events
    BY SessionUnlessDone
  <2>3. Inside(d)' <=> Inside(d)
    BY DEF Inside
  <2> QED
    BY <2>1, <2>2, <2>3 DEF Heeded
<1> QED
  BY <1>1, <1>2, HeededFrameOfOne

(* The end of an attempt keeps the invariant.                                  *)
LEMMA EndedStrikes ==
  ASSUME LanTypeOK, StrikesAreHeeded, NEW d \in Devices, NEW w \in SUBSET Messages,
         EndAttempt(d, w), UNCHANGED <<row, commands, events, wanted, lost>>
  PROVE  StrikesAreHeeded'
<1>1. /\ pairing' = [pairing EXCEPT ![d] = NoPairing]
      /\ acl' = IF pairing[d].marker THEN [acl EXCEPT ![d] = "blocked"] ELSE acl
  BY EndedAttempt
<1>2. ~NoPairing.session.local
  BY DEF NoPairing, NoSession, Session
<1>3. \A e \in Devices : SessionOf(e)'.local => SessionOf(e).local
  BY <1>1, <1>2 DEF SessionOf, LanTypeOK
<1>4. \A e \in Devices : IsTrusted(acl'[e]) => IsTrusted(acl[e])
  BY <1>1 DEF IsTrusted, LanTypeOK
<1> QED
  BY <1>3, <1>4, HeededFrame DEF Unwanted, Inside

(* begin_pairing keeps the invariant.                                          *)
LEMMA BeginStrikes ==
  ASSUME LanTypeOK, StrikesAreHeeded, NEW d \in Devices, Begin(d)
  PROVE  StrikesAreHeeded'
<1>1. NextCommand(d, "pair") /\ UNCHANGED <<row, events, wanted, lost>>
      /\ "pair" \in Words \ {"accept", "strike"}
  BY DEF Begin, history, Words
<1>2. \A e \in Devices : IsTrusted(acl'[e]) => IsTrusted(acl[e])
  BY DEF Begin, SetAcl, IsTrusted, LanTypeOK
<1>3. CASE AttemptActive(d)
  <2>1. UNCHANGED pairing
    BY <1>3 DEF Begin
  <2> QED
    BY <1>1, <1>2, <2>1, HeededCommand DEF SessionOf
<1>4. CASE ~AttemptActive(d)
  <2>1. PICK n \in Fresh :
          LET p == [pairing[d] EXCEPT !.marker = @ \/ acl[d] = "blocked"]
          IN IF link[d]
             THEN SetPairing(d, [p EXCEPT !.hello = n]) /\ Send(Hello(d, n))
             ELSE SetPairing(d, [p EXCEPT !.dial = n]) /\ UNCHANGED wire
    BY <1>4 DEF Begin
  <2> DEFINE p == [pairing[d] EXCEPT !.marker = @ \/ acl[d] = "blocked"]
  <2>2. p \in Pairings /\ p.session = pairing[d].session
    <3>1. pairing[d] \in Pairings /\ (acl[d] = "blocked") \in BOOLEAN
      BY PairingTypes
    <3>2. p \in Pairings
      BY <3>1, PairingChanges
    <3> QED
      BY <3>1, <3>2 DEF Pairings
  <2>3. \/ pairing' = [pairing EXCEPT ![d] = [p EXCEPT !.hello = n]]
        \/ pairing' = [pairing EXCEPT ![d] = [p EXCEPT !.dial = n]]
    BY <2>1 DEF SetPairing
  <2> HIDE DEF p
  <2>4. /\ [p EXCEPT !.hello = n].session = p.session
        /\ [p EXCEPT !.dial = n].session = p.session
    BY <2>2 DEF Pairings
  <2>5. \A e \in Devices : SessionOf(e)' = SessionOf(e)
    BY <2>2, <2>3, <2>4 DEF SessionOf, LanTypeOK
  <2> QED
    BY <1>1, <1>2, <2>5, HeededCommand
<1> QED
  BY <1>3, <1>4

(* An acceptance before a strike is followed by it in the queue of the         *)
(* runtime.                                                                    *)
LEMMA ConfirmLocalStrikes ==
  ASSUME LanTypeOK, StrikesAreHeeded, NEW d \in Devices, ConfirmLocal(d)
  PROVE  StrikesAreHeeded'
<1>1. UNCHANGED <<acl, row, wanted, lost>>
  BY DEF ConfirmLocal, trust
<1>2. /\ commands' = [commands EXCEPT ![d] = Tail(commands[d])] /\ commands[d] # <<>>
      /\ Head(commands[d]) = "accept" /\ commands[d] \in Seq(Words)
      /\ {"accept", "strike"} \subseteq Words
  BY DEF ConfirmLocal, NextCommand, LanTypeOK, Words
<1>3. \A e \in Devices \ {d} : SessionOf(e)' = SessionOf(e) /\ events'[e] = events[e]
  <2>1. CASE HasSession(d)
    <3>1. PICK c \in Codes : c = SessionOf(d).code
      BY PairingTypes DEF SessionOf
    <3>2. PICK p \in Pairings :
            p = [pairing[d] EXCEPT !.session.local = TRUE, !.confirms = @ \union {c}]
      BY PairingTypes, SessionChanges
    <3>3. Completed(d, p)
      BY <2>1, <3>1, <3>2 DEF ConfirmLocal
    <3> QED
      BY <3>3, SessionUnlessDone
  <2>2. CASE ~HasSession(d)
    BY <2>2 DEF ConfirmLocal, SessionOf
  <2> QED
    BY <2>1, <2>2
<1>4. ASSUME Unwanted(d)'
      PROVE  Heeded(commands[d], events[d], SessionOf(d).local, Inside(d))'
  <2>1. Followed(commands[d], "accept", "strike")
    BY <1>1, <1>4 DEF StrikesAreHeeded, Unwanted, Heeded
  <2>2. commands'[d] = Tail(commands[d])
    BY <1>2 DEF LanTypeOK
  <2>3. Followed(commands'[d], "accept", "strike") /\ Holds(commands'[d], "strike")
    BY <1>2, <2>1, <2>2, FollowedChanges
  <2> QED
    BY <2>3 DEF Heeded
<1>5. \A e \in Devices \ {d} : commands'[e] = commands[e]
  BY <1>2 DEF LanTypeOK
<1> QED
  BY <1>1, <1>3, <1>4, <1>5, HeededFrameOfOne

(* The runtime drops what is pending and tells the worker, behind earlier      *)
(* trust.                                                                      *)
LEMMA StrikePairingStrikes ==
  ASSUME LanTypeOK, StrikesAreHeeded, NEW d \in Devices, StrikePairing(d)
  PROVE  StrikesAreHeeded'
<1>1. /\ commands' = [commands EXCEPT ![d] = Tail(commands[d])] /\ commands[d] # <<>>
      /\ events' = [events EXCEPT ![d] = Append(events[d], "struck")]
      /\ pairing' = [pairing EXCEPT ![d] = NoPairing]
      /\ acl' = [acl EXCEPT ![d] = "blocked"]
      /\ UNCHANGED <<row, wanted, lost>>
  BY DEF StrikePairing, NextCommand, Emit, SetPairing, EnforceBlock, SetAcl, history
<1>2. commands[d] \in Seq(Words) /\ events[d] \in Seq(Words)
      /\ {"accept", "strike", "trusted", "struck"} \subseteq Words
  BY DEF LanTypeOK, Words
<1>3. ~NoPairing.session.local
  BY DEF NoPairing, NoSession, Session
<1>4. ASSUME Unwanted(d)'
      PROVE  Heeded(commands[d], events[d], SessionOf(d).local, Inside(d))'
  <2>1. Followed(commands[d], "accept", "strike")
    BY <1>1, <1>4 DEF StrikesAreHeeded, Unwanted, Heeded
  <2>2. commands'[d] = Tail(commands[d]) /\ events'[d] = Append(events[d], "struck")
        /\ ~SessionOf(d)'.local
    BY <1>1, <1>3 DEF SessionOf, LanTypeOK
  <2>3. Followed(commands'[d], "accept", "strike")
    BY <1>1, <1>2, <2>1, <2>2, FollowedChanges
  <2>4. Followed(events'[d], "trusted", "struck") /\ Holds(events'[d], "struck")
    BY <1>2, <2>2, FollowedChanges, Elementwise
  <2> QED
    BY <2>2, <2>3, <2>4 DEF Heeded
<1> QED
  BY <1>1, <1>4, HeededFrameOfOne DEF SessionOf, LanTypeOK

(* What the person asks keeps the invariant.                                   *)
LEMMA PersonStrikes ==
  ASSUME LanTypeOK, StrikesAreHeeded, NEW d \in Devices, Person(d)
  PROVE  StrikesAreHeeded'
<1>1. UNCHANGED <<pairing, events, lost>> /\ \A e \in Devices : SessionOf(e)' = SessionOf(e)
  BY DEF Person, Pair, Accept, Strike, Allow, Grant, Ungrant, SetPolicy, network, queues,
         history, SessionOf
<1>2. \A e \in Devices \ {d} : /\ acl'[e] = acl[e] /\ row'[e] = row[e]
                               /\ commands'[e] = commands[e] /\ wanted'[e] = wanted[e]
  <2>1. CASE Pair(d) \/ Accept(d)
    BY <2>1 DEF Pair, Accept, Command, trust, LanTypeOK
  <2>2. CASE Strike(d)
    BY <2>2 DEF Strike, StoreBlock, SetAcl, SetRow, Command, LanTypeOK
  <2>3. CASE Allow(d)
    BY <2>3 DEF Allow, SetAcl, SetRow, queues, history, LanTypeOK
  <2>4. CASE Grant(d)
    BY <2>4 DEF Grant, SetAcl, SetRow, Command, LanTypeOK
  <2>5. CASE Ungrant(d)
    BY <2>5 DEF Ungrant, SetAcl, SetRow, Command, LanTypeOK
  <2>6. CASE SetPolicy(d)
    BY <2>6 DEF SetPolicy, SetAcl, SetRow, queues, LanTypeOK
  <2> QED
    BY <2>1, <2>2, <2>3, <2>4, <2>5, <2>6 DEF Person
<1>3. commands[d] \in Seq(Words) /\ {"accept", "strike", "grant", "ungrant"} \subseteq Words
  BY DEF LanTypeOK, Words
<1>4. ASSUME Unwanted(d)'
      PROVE  Heeded(commands[d], events[d], SessionOf(d).local, Inside(d))'
  <2>1. CASE Pair(d) \/ Accept(d)
    <3>1. wanted'[d]
      BY <2>1 DEF Pair, Accept, LanTypeOK
    <3> QED
      BY <1>4, <3>1 DEF Unwanted
  <2>2. CASE Strike(d)
    <3>1. commands'[d] = Append(commands[d], "strike")
      BY <2>2 DEF Strike, Command, LanTypeOK
    <3>2. Followed(commands'[d], "accept", "strike") /\ Holds(commands'[d], "strike")
      BY <1>3, <3>1, FollowedChanges, Elementwise
    <3> QED
      BY <3>2 DEF Heeded
  <2>3. CASE Allow(d) \/ Grant(d) \/ Ungrant(d) \/ SetPolicy(d)
    <3>1. Unwanted(d)
      BY <1>1, <1>4, <2>3 DEF Allow, Grant, Ungrant, SetPolicy, history, Unwanted
    <3>2. Heeded(commands[d], events[d], SessionOf(d).local, Inside(d))
      BY <3>1 DEF StrikesAreHeeded
    <3>3. Inside(d)' => Inside(d)
      <4>1. CASE Allow(d)
        BY <4>1 DEF Allow, SetAcl, SetRow, Inside, IsTrusted, LanTypeOK
      <4>2. CASE Grant(d)
        BY <4>2 DEF Grant, Inside
      <4>3. CASE Ungrant(d)
        BY <4>3 DEF Ungrant, Inside, IsTrusted
      <4>4. CASE SetPolicy(d)
        <5>1. /\ acl'[d] = acl[d] \/ acl'[d] = WithoutGrant(acl[d])
              /\ row'[d] = row[d] \/ row'[d] = WithoutGrant(row[d])
          BY <4>4 DEF SetPolicy, SetAcl, SetRow, LanTypeOK
        <5>2. /\ IsTrusted(WithoutGrant(acl[d])) <=> IsTrusted(acl[d])
              /\ IsTrusted(WithoutGrant(row[d])) <=> IsTrusted(row[d])
          BY StandingTypes DEF LanTypeOK
        <5>3. /\ IsTrusted(acl'[d]) => IsTrusted(acl[d])
              /\ IsTrusted(row'[d]) => IsTrusted(row[d])
          BY <5>1, <5>2
        <5> QED
          BY <5>3 DEF Inside
      <4> QED
        BY <2>3, <4>1, <4>2, <4>3, <4>4
    <3>4. \/ commands'[d] = commands[d] \/ commands'[d] = Append(commands[d], "grant")
          \/ commands'[d] = Append(commands[d], "ungrant")
      <4>1. CASE Allow(d) \/ SetPolicy(d)
        BY <4>1 DEF Allow, SetPolicy, queues
      <4>2. CASE Grant(d)
        BY <4>2 DEF Grant, Command, LanTypeOK
      <4>3. CASE Ungrant(d)
        BY <4>3 DEF Ungrant, Command, LanTypeOK
      <4> QED
        BY <2>3, <4>1, <4>2, <4>3
    <3>5. /\ Followed(commands[d], "accept", "strike") =>
               Followed(commands'[d], "accept", "strike")
          /\ Holds(commands[d], "strike") => Holds(commands'[d], "strike")
      <4>1. {"grant", "ungrant"} \subseteq Words \ {"accept"} /\ "accept" # "strike"
        BY <1>3
      <4>2. ASSUME NEW c \in {"grant", "ungrant"}, commands'[d] = Append(commands[d], c)
            PROVE  /\ Followed(commands[d], "accept", "strike") =>
                        Followed(commands'[d], "accept", "strike")
                   /\ Holds(commands[d], "strike") => Holds(commands'[d], "strike")
        <5>1. Followed(commands[d], "accept", "strike") =>
                Followed(Append(commands[d], c), "accept", "strike")
          BY <1>3, <4>1, FollowedChanges
        <5>2. Holds(commands[d], "strike") => Holds(Append(commands[d], c), "strike")
          BY <1>3, <4>1, Elementwise
        <5> QED
          BY <4>2, <5>1, <5>2
      <4> QED
        BY <3>4, <4>2
    <3> QED
      BY <1>1, <3>2, <3>3, <3>5 DEF Heeded
  <2> QED
    BY <2>1, <2>2, <2>3 DEF Person
<1> QED
  BY <1>1, <1>2, <1>4, HeededFrameOfOne

(* Trust before the strike is stored first, and then blocked.                  *)
LEMMA PersistStrikes ==
  ASSUME LanTypeOK, StrikesAreHeeded, NEW d \in Devices, Persist(d)
  PROVE  StrikesAreHeeded'
<1>1. /\ UNCHANGED <<pairing, commands, wanted>> /\ events[d] # <<>>
      /\ events' = [events EXCEPT ![d] = Tail(events[d])] /\ events[d] \in Seq(Words)
      /\ {"trusted", "struck"} \subseteq Words
      /\ \A e \in Devices : SessionOf(e)' = SessionOf(e)
  BY DEF Persist, PersistTrust, PersistStrike, NextEvent, history, SessionOf, LanTypeOK, Words
<1>2. \A e \in Devices \ {d} : /\ acl'[e] = acl[e] /\ row'[e] = row[e]
                               /\ events'[e] = events[e] /\ lost'[e] = lost[e]
  BY <1>1 DEF Persist, PersistTrust, PersistStrike, StoreBlock, SetAcl, SetRow, history,
     LanTypeOK
<1>3. ASSUME Unwanted(d)'
      PROVE  Heeded(commands[d], events[d], SessionOf(d).local, Inside(d))'
  <2>1. lost[d] \subseteq lost'[d]
    BY DEF Persist, PersistTrust, PersistStrike, history, LanTypeOK
  <2>2. Heeded(commands[d], events[d], SessionOf(d).local, Inside(d))
    BY <1>1, <1>3, <2>1 DEF StrikesAreHeeded, Unwanted
  <2>3. events'[d] = Tail(events[d])
    BY <1>1 DEF LanTypeOK
  <2>4. Followed(events[d], "trusted", "struck") => Followed(events'[d], "trusted", "struck")
    BY <1>1, <2>3, FollowedChanges
  <2>5. CASE PersistTrust(d)
    <3>1. Head(events[d]) = "trusted"
      BY <2>5 DEF PersistTrust, NextEvent
    <3>2. Followed(events[d], "trusted", "struck") => Holds(events'[d], "struck")
      BY <1>1, <2>3, <3>1, FollowedChanges
    <3> QED
      BY <1>1, <2>2, <2>4, <3>2 DEF Heeded
  <2>6. CASE PersistStrike(d)
    <3>1. StoreBlock(d)
      <4>1. "struck" \notin lost'[d]
        BY <1>3 DEF Unwanted
      <4>2. lost' = [lost EXCEPT ![d] = @ \union {"struck"}] => "struck" \in lost'[d]
        BY DEF LanTypeOK
      <4> QED
        BY <2>6, <4>1, <4>2 DEF PersistStrike
    <3>2. ~Inside(d)'
      BY <2>6, <3>1 DEF PersistStrike, StoreBlock, SetAcl, SetRow, Inside, IsTrusted, LanTypeOK
    <3> QED
      BY <1>1, <2>2, <2>4, <3>2 DEF Heeded
  <2> QED
    BY <2>5, <2>6 DEF Persist
<1> QED
  BY <1>1, <1>2, <1>3, HeededFrameOfOne

(* What a restart drops is counted as lost.                                    *)
LEMMA StoppedStrikes ==
  ASSUME LanTypeOK, StrikesAreHeeded, NEW d \in Devices, RestartLan(d) \/ Crash(d)
  PROVE  StrikesAreHeeded'
<1>1. /\ UNCHANGED <<row, wanted>>
      /\ pairing' = [pairing EXCEPT ![d] = NoPairing]
      /\ commands' = [commands EXCEPT ![d] = <<>>] /\ events' = [events EXCEPT ![d] = <<>>]
      /\ lost' = [lost EXCEPT ![d] = @ \union Elements(commands[d]) \union Elements(events[d])]
  BY DEF RestartLan, Crash, Stopped, SetPairing
<1>2. \A e \in Devices \ {d} :
        /\ acl'[e] = acl[e] /\ row'[e] = row[e] /\ SessionOf(e)' = SessionOf(e)
        /\ commands'[e] = commands[e] /\ events'[e] = events[e]
        /\ wanted'[e] = wanted[e] /\ lost'[e] = lost[e]
  BY <1>1 DEF RestartLan, Crash, SetAcl, SessionOf, LanTypeOK
<1>3. ASSUME Unwanted(d)'
      PROVE  Heeded(commands[d], events[d], SessionOf(d).local, Inside(d))'
  <2>1. /\ lost'[d] = lost[d] \union Elements(commands[d]) \union Elements(events[d])
        /\ commands[d] \in Seq(Words) /\ events[d] \in Seq(Words)
        /\ {"accept", "strike", "trusted", "struck"} \subseteq Words
    BY <1>1 DEF LanTypeOK, Words
  <2>2. Unwanted(d) /\ ~Holds(commands[d], "strike") /\ ~Holds(events[d], "struck")
    BY <1>1, <1>3, <2>1, Elementwise DEF Unwanted
  <2>3. ~Inside(d)
    BY <2>2 DEF StrikesAreHeeded, Heeded
  <2>4. acl'[d] \in {acl[d], row[d], "blocked"}
    BY DEF RestartLan, Crash, SetAcl, LanTypeOK
  <2>5. ~Inside(d)'
    BY <1>1, <2>3, <2>4 DEF Inside, IsTrusted
  <2>6. commands'[d] = <<>> /\ events'[d] = <<>> /\ ~SessionOf(d)'.local
    BY <1>1 DEF SessionOf, NoPairing, NoSession, Session, LanTypeOK
  <2>7. Followed(<<>>, "accept", "strike") /\ Followed(<<>>, "trusted", "struck")
    BY DEF Followed
  <2> QED
    BY <2>5, <2>6, <2>7 DEF Heeded
<1> QED
  BY <1>2, <1>3, HeededFrameOfOne

(* The messages of the handshake keep the invariant.                           *)
LEMMA MessageStrikes ==
  ASSUME LanTypeOK, StrikesAreHeeded, NEW m \in wire, Message(m)
  PROVE  StrikesAreHeeded'
<1> DEFINE d == m.to
<1>1. d \in Devices /\ m \in Messages /\ m.n \in Nonces
  BY MessageFields
<1>2. UNCHANGED <<row, commands, wanted, lost>>
  BY DEF Message, ReceiveHello, ReceiveHelloed, ReceiveConfirm, ReceiveConfirmed, trust, queues,
         history
<1>3. CASE ReceiveHello(m) \/ (ReceiveHelloed(m) /\ UNCHANGED <<acl, link>>)
  <2>1. UNCHANGED <<acl, events>>
    BY <1>3 DEF ReceiveHello, ReceiveHelloed, trust, queues
  <2>2. \A e \in Devices : SessionOf(e)'.local => SessionOf(e).local
    <3>1. ~NoSession.local /\ ~NoPairing.session.local
      BY DEF NoPairing, NoSession, Session
    <3>2. CASE UNCHANGED pairing
      BY <3>2 DEF SessionOf
    <3>3. CASE pairing' = [pairing EXCEPT ![d] = NoPairing]
      BY <3>1, <3>3 DEF SessionOf, LanTypeOK
    <3>4. CASE \E n \in Fresh :
                 SetPairing(d, [pairing[d] EXCEPT !.session = Session(Code(d, n, m.n))])
      <4>1. PICK n \in Fresh :
              pairing' = [pairing EXCEPT ![d] =
                            [pairing[d] EXCEPT !.session = Session(Code(d, n, m.n))]]
        BY <3>4 DEF SetPairing
      <4>2. ~[pairing[d] EXCEPT !.session = Session(Code(d, n, m.n))].session.local
        BY <1>1, PairingTypes DEF Pairings, Session
      <4> QED
        BY <4>1, <4>2 DEF SessionOf, LanTypeOK
    <3>5. CASE SetPairing(d, [pairing[d] EXCEPT !.hello = 0,
                                !.session = Session(Code(d, pairing[d].hello, m.n))])
      <4>1. ~[pairing[d] EXCEPT !.hello = 0,
                !.session = Session(Code(d, pairing[d].hello, m.n))].session.local
        BY <1>1, PairingTypes DEF Pairings, Session
      <4> QED
        BY <3>5, <4>1 DEF SetPairing, SessionOf, LanTypeOK
    <3> QED
      BY <1>3, <3>2, <3>3, <3>4, <3>5 DEF ReceiveHello, ReceiveHelloed, EndAttempt, SetPairing
  <2> QED
    BY <1>2, <2>1, <2>2, HeededFrame DEF Unwanted, Inside
<1>4. CASE EndAttempt(d, wire \ {m}) /\ UNCHANGED events
  <2>1. wire \ {m} \in SUBSET Messages
    BY DEF LanTypeOK
  <2> QED
    BY <1>1, <1>2, <1>4, <2>1, EndedStrikes
<1>5. CASE UNCHANGED <<acl, events, pairing>>
  BY <1>2, <1>5, HeededFrame DEF Unwanted, Inside, SessionOf
<1>6. ASSUME NEW p \in Pairings, Completed(d, p), UNCHANGED acl,
             p.session.local <=> SessionOf(d).local
      PROVE  StrikesAreHeeded'
  BY <1>1, <1>2, <1>6, HeededCompletion
<1>7. CASE ReceiveConfirm(m)
  <2>1. CASE Completed(d, [pairing[d] EXCEPT !.session.remote = TRUE])
    <3>1. PICK p \in Pairings : p = [pairing[d] EXCEPT !.session.remote = TRUE]
      BY <1>1, PairingTypes, SessionChanges
    <3>2. p.session = [SessionOf(d) EXCEPT !.remote = TRUE] /\ SessionOf(d) \in Sessions
      BY <1>1, <3>1, PairingTypes DEF SessionOf, Pairings
    <3>3. p.session.local <=> SessionOf(d).local
      BY <3>2 DEF Sessions
    <3> QED
      BY <1>6, <1>7, <2>1, <3>1, <3>3 DEF ReceiveConfirm, trust
  <2>2. CASE UNCHANGED <<pairing, events>>
    BY <1>5, <1>7, <2>2 DEF ReceiveConfirm, trust
  <2> QED
    BY <1>7, <2>1, <2>2 DEF ReceiveConfirm
<1>8. CASE ReceiveConfirmed(m)
  <2> DEFINE p == [pairing[d] EXCEPT !.confirms = @ \ {m.id}]
             q == IF m.n = 1 /\ HasSession(d) THEN [p EXCEPT !.session.remote = TRUE] ELSE p
  <2>1. p \in Pairings
    BY <1>1, PairingTypes, PairingChanges
  <2>2. p.session = SessionOf(d) /\ SessionOf(d) \in Sessions
    BY <1>1, <2>1, PairingTypes DEF Pairings, SessionOf
  <2> HIDE DEF p
  <2>3. CASE Completed(d, q) /\ UNCHANGED <<acl, link>>
    <3>1. PICK r \in Pairings : r = q
      BY <2>1, SessionChanges
    <3>2. r.session = SessionOf(d) \/ r.session = [SessionOf(d) EXCEPT !.remote = TRUE]
      BY <2>1, <2>2, <3>1 DEF Pairings
    <3>3. r.session.local <=> SessionOf(d).local
      BY <2>2, <3>2 DEF Sessions
    <3> QED
      BY <1>6, <2>3, <3>1, <3>3
  <2>4. \/ Completed(d, q) /\ UNCHANGED <<acl, link>>
        \/ EndAttempt(d, wire \ {m}) /\ UNCHANGED events
        \/ UNCHANGED <<acl, pairing, events, link>>
    BY <1>8 DEF ReceiveConfirmed, p
  <2> QED
    BY <1>4, <1>5, <2>3, <2>4
<1> QED
  BY <1>3, <1>4, <1>5, <1>7, <1>8 DEF Message, ReceiveHelloed, queues

(* The handlers of the runtime keep the invariant.                             *)
LEMMA HandlerStrikes ==
  ASSUME LanTypeOK, StrikesAreHeeded, NEW d \in Devices, Handler(d)
  PROVE  StrikesAreHeeded'
<1>1. CASE ApplyGrant(d) \/ ApplyUngrant(d)
  <2>1. UNCHANGED <<row, pairing, events, wanted, lost>>
    BY <1>1 DEF ApplyGrant, ApplyUngrant, history
  <2>2. \A e \in Devices : IsTrusted(acl'[e]) => IsTrusted(acl[e])
    <3>1. CASE ApplyGrant(d)
      BY <3>1 DEF ApplyGrant, SetAcl, LanTypeOK
    <3>2. CASE ApplyUngrant(d)
      BY <3>2, StandingTypes DEF ApplyUngrant, SetAcl, LanTypeOK
    <3> QED
      BY <1>1, <3>1, <3>2
  <2>3. PICK c \in Words \ {"accept", "strike"} : NextCommand(d, c)
    BY <1>1 DEF ApplyGrant, ApplyUngrant, Words
  <2> QED
    BY <2>1, <2>2, <2>3, HeededCommand DEF SessionOf
<1>2. CASE HelloFails(d)
  <2>1. /\ EndAttempt(d, wire \ About("hello", Code(d, pairing[d].hello, 0)))
        /\ UNCHANGED <<row, commands, events, wanted, lost>>
        /\ wire \ About("hello", Code(d, pairing[d].hello, 0)) \in SUBSET Messages
    BY <1>2 DEF HelloFails, queues, history, LanTypeOK
  <2> QED
    BY <2>1, EndedStrikes
<1>3. CASE ConfirmFails(d)
  <2>1. UNCHANGED <<acl, row, commands, events, wanted, lost>>
    BY <1>3 DEF ConfirmFails, trust, queues, history
  <2>2. PICK c \in pairing[d].confirms :
          pairing' = [pairing EXCEPT ![d] = [pairing[d] EXCEPT !.confirms = @ \ {c}]]
    BY <1>3 DEF ConfirmFails, SetPairing
  <2>3. \A e \in Devices : SessionOf(e)' = SessionOf(e)
    BY <2>2, PairingTypes DEF SessionOf, LanTypeOK, Pairings
  <2> QED
    BY <2>1, <2>3, HeededFrame DEF Unwanted, Inside
<1>4. CASE Wait(d)
  BY <1>4, HeededFrame DEF Wait, trust, queues, network, history, Unwanted, Inside, SessionOf
<1> QED
  BY <1>1, <1>2, <1>3, <1>4, BeginStrikes, ConfirmLocalStrikes, StrikePairingStrikes DEF Handler

(* Every step keeps the invariant.                                             *)
LEMMA StrikeStep ==
  ASSUME LanTypeOK, StrikesAreHeeded, [Next]_lanVars
  PROVE  StrikesAreHeeded'
<1>1. ASSUME NEW d \in Devices, DialFails(d) \/ Expire(d) PROVE StrikesAreHeeded'
  <2>1. /\ EndAttempt(d, wire) /\ wire \in SUBSET Messages
        /\ UNCHANGED <<row, commands, events, wanted, lost>>
    BY <1>1 DEF DialFails, Expire, queues, history, LanTypeOK
  <2> QED
    BY <2>1, EndedStrikes
<1>2. ASSUME NEW d \in Devices, Connect(d) PROVE StrikesAreHeeded'
  <2>1. UNCHANGED <<acl, row, commands, events, wanted, lost>>
    BY <1>2 DEF Connect, trust, queues, history
  <2>2. \/ pairing' = pairing
        \/ pairing' = [pairing EXCEPT ![d] =
                         [pairing[d] EXCEPT !.dial = 0, !.session = NoSession,
                                            !.marker = FALSE]]
        \/ pairing' = [pairing EXCEPT ![d] =
                         [pairing[d] EXCEPT !.dial = 0, !.hello = pairing[d].dial]]
    BY <1>2 DEF Connect, SetPairing
  <2>3. /\ ~[pairing[d] EXCEPT !.dial = 0, !.session = NoSession,
                               !.marker = FALSE].session.local
        /\ [pairing[d] EXCEPT !.dial = 0, !.hello = pairing[d].dial].session
             = pairing[d].session
    BY PairingTypes DEF Pairings, NoSession, Session
  <2>4. \A e \in Devices : SessionOf(e)'.local => SessionOf(e).local
    BY <2>2, <2>3 DEF SessionOf, LanTypeOK
  <2> QED
    BY <2>1, <2>4, HeededFrame DEF Unwanted, Inside
<1>3. ASSUME NEW d \in Devices, Reconcile(d) PROVE StrikesAreHeeded'
  <2>1. UNCHANGED <<row, pairing, commands, events, wanted, lost>>
    BY <1>3 DEF Reconcile, queues, history
  <2>2. acl' = [acl EXCEPT ![d] = Narrowed(d)] /\ (IsTrusted(Narrowed(d)) => IsTrusted(acl[d]))
    BY <1>3 DEF Reconcile, SetAcl, Narrowed, IsTrusted
  <2>3. \A e \in Devices : IsTrusted(acl'[e]) => IsTrusted(acl[e])
    BY <2>2 DEF LanTypeOK
  <2> QED
    BY <2>1, <2>3, HeededFrame DEF Unwanted, Inside, SessionOf
<1>4. ASSUME NEW d \in Devices, Ask(d) \/ Scope(d) \/ Lease(d) \/ HandOver(d)
      PROVE  StrikesAreHeeded'
  BY <1>4, HeededFrame
  DEF Ask, Scope, Lease, HandOver, trust, queues, history, Unwanted, Inside, SessionOf
<1>5. CASE Drop \/ TimeOut
  BY <1>5, HeededFrame DEF Drop, TimeOut, trust, queues, history, Unwanted, Inside, SessionOf
<1>6. CASE UNCHANGED lanVars
  BY <1>6, HeededFrame DEF lanVars, trust, queues, history, Unwanted, Inside, SessionOf
<1> QED
  BY <1>1, <1>2, <1>3, <1>4, <1>5, <1>6, MessageStrikes, HandlerStrikes, PersonStrikes,
     PersistStrikes, StoppedStrikes DEF Next

-------------------------------------------------------------------------------
(* The inductive invariant: the types, and for each property the facts about    *)
(* queues, sessions and messages that it rests on.                            *)
LanInv ==
  /\ LanTypeOK
  /\ GrantsAreGiven /\ EvidenceIsGranted
  /\ BlockIsRestored
  /\ TrustInv
  /\ StrikesAreHeeded

(* The invariants hold of the devices as they start: nothing is under way and   *)
(* each trusts the other exactly when the person paired them before.          *)
LEMMA InitLemma == Init => LanInv
<1> SUFFICES ASSUME Init PROVE LanInv
  OBVIOUS
<1>1. /\ row \in [Devices -> {"none", "trusted", "blocked"}] /\ acl = row
      /\ \A d \in Devices : /\ pairing[d] = NoPairing /\ commands[d] = <<>> /\ events[d] = <<>>
                            /\ row[d] # "granted" /\ (IsTrusted(row[d]) <=> wanted[d])
      /\ search = NoSearch /\ wire = {}
      /\ confirmed = {<<d, NoCode>> : d \in {e \in Devices : IsTrusted(row[e])}}
  BY LanBounds DEF Init
<1>2. LanTypeOK
  <2>1. <<>> \in Seq(Words)
    OBVIOUS
  <2>2. pairing \in [Devices -> Pairings]
    BY NoPairingType DEF Init
  <2>3. confirmed \subseteq Devices \X Codes
    BY <1>1, NoPairingType
  <2>4. acl \in [Devices -> Standings] /\ row \in [Devices -> Standings]
    BY <1>1 DEF Standings
  <2>5. wanted \in [Devices -> BOOLEAN]
    BY DEF Init, IsTrusted
  <2>6. /\ loop \in [Devices -> {"running", "waiting"}]
        /\ commands \in [Devices -> Seq(Words)] /\ events \in [Devices -> Seq(Words)]
        /\ lost \in [Devices -> SUBSET Words] /\ link \in [Devices -> BOOLEAN]
    BY <2>1 DEF Init
  <2>7. /\ shareable \in BOOLEAN /\ given \in BOOLEAN /\ wire \subseteq Messages
        /\ search \in [pc : {"idle", "authorized", "scoped", "leased"}, hit : BOOLEAN]
        /\ \A d \in Devices : row[d] # "granted"
    <3>1. search = [pc |-> "idle", hit |-> FALSE]
      BY <1>1 DEF NoSearch
    <3>2. shareable = TRUE /\ given = FALSE
      BY DEF Init
    <3>3. search \in [pc : {"idle", "authorized", "scoped", "leased"}, hit : BOOLEAN]
      BY <3>1
    <3>4. \A d \in Devices : row[d] # "granted"
      BY <1>1
    <3> QED
      BY <1>1, <3>2, <3>3, <3>4
  <2> QED
    BY <2>2, <2>3, <2>4, <2>5, <2>6, <2>7 DEF LanTypeOK
<1>3. GrantsAreGiven /\ EvidenceIsGranted
  BY <1>1, LanBounds DEF GrantsAreGiven, EvidenceIsGranted, NoSearch
<1>4. BlockIsRestored
  BY <1>1 DEF BlockIsRestored
<1>5. \A d \in Devices : /\ SessionOf(d) = NoSession /\ ~Holds(events[d], "trusted")
                         /\ ~NoSession.local /\ ~NoSession.remote
  <2>1. ~Holds(<<>>, "trusted") /\ NoPairing.session = NoSession
    BY DEF Holds, NoPairing
  <2>2. ~NoSession.local /\ ~NoSession.remote
    BY DEF NoSession, Session
  <2> QED
    BY <1>1, <2>1, <2>2 DEF SessionOf
<1>6. TrustInv
  BY <1>1, <1>5
  DEF TrustInv, TrustIsAgreed, SessionsAreBacked, MessagesAreBacked, Backed, IsTrusted
<1>7. StrikesAreHeeded
  BY <1>1, <1>5 DEF StrikesAreHeeded, Unwanted, Heeded, Inside, Followed
<1> QED
  BY <1>2, <1>3, <1>4, <1>6, <1>7 DEF LanInv

(* The strengthened invariant holds in every reachable state, whatever the       *)
(* devices have stored before and however many nonces, commands and turns the    *)
(* bounds allow.                                                               *)
THEOREM LanInvariance == Spec => []LanInv
<1>1. LanInv /\ [Next]_lanVars => LanInv'
  BY TypeStep, EvidenceStep, BlockStep, TrustStep, StrikeStep DEF LanInv
<1> QED
  BY <1>1, InitLemma, PTL DEF Spec

(* Every variable keeps its type, and only a shareable wiki is granted.         *)
THEOREM LanTypeCorrectness == Spec => []LanTypeOK
<1>1. LanInv => LanTypeOK
  BY DEF LanInv
<1> QED
  BY <1>1, LanInvariance, PTL

(* No search hands over evidence of a wiki that the person does not grant at     *)
(* that moment.                                                                *)
THEOREM EvidenceIsAlwaysGiven == Spec => []EvidenceIsGiven
<1>1. LanInv => EvidenceIsGiven
  BY DEF LanInv, GrantsAreGiven, EvidenceIsGranted, EvidenceIsGiven
<1> QED
  BY <1>1, LanInvariance, PTL

(* A block lifted for an attempt to pair is restored when the attempt ends.      *)
THEOREM BlocksAreAlwaysRestored == Spec => []BlockIsRestored
<1>1. LanInv => BlockIsRestored
  BY DEF LanInv
<1> QED
  BY <1>1, LanInvariance, PTL

(* No device ever trusts another on a code that only one runtime confirmed.      *)
THEOREM TrustIsAlwaysMutual == Spec => []TrustIsMutual
<1>1. LanInv => TrustIsMutual
  <2> SUFFICES ASSUME LanInv, NEW d \in Devices,
                      IsTrusted(row[d]) \/ IsTrusted(acl[d]) \/ Holds(events[d], "trusted")
               PROVE  \E c \in Codes :
                        /\ <<d, c>> \in confirmed
                        /\ c = NoCode \/ <<Other(d), c>> \in confirmed
    BY DEF TrustIsMutual
  <2>1. <<d, NoCode>> \in confirmed \/ Mutual(d, confirmed)
    BY DEF LanInv, TrustInv, TrustIsAgreed
  <2> QED
    BY <2>1, NoPairingType DEF Mutual
<1> QED
  BY <1>1, LanInvariance, PTL

(* After a rejection or a revocation nothing but the carrying out of it, or a    *)
(* crash before that, leaves the other device trusted.                        *)
THEOREM StruckAlwaysStaysOut == Spec => []StruckStaysOut
<1>1. LanInv => StruckStaysOut
  BY DEF LanInv, StrikesAreHeeded, Unwanted, Heeded, Inside, StruckStaysOut
<1> QED
  BY <1>1, LanInvariance, PTL
====================================================================================
