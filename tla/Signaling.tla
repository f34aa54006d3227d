------------------------------ MODULE Signaling ------------------------------
(***************************************************************************)
(* The WebRTC signalling pipe of the shared terminal: one (user, session)  *)
(* bucket, kept by every server instance for the peers whose WebSocket it  *)
(* holds, and the Redis channel that joins the instances.  The service     *)
(* never reads an envelope beyond `from` and `to`, so an envelope here is  *)
(* its identity, its route and whether it is the service's own `bye`.      *)
(*                                                                         *)
(* Every handler of the service is synchronous, so each is one action;     *)
(* what runs beside them is Redis: a subscription that is not awaited, and *)
(* the envelopes on their way to the subscribers.                          *)
(***************************************************************************)
EXTENDS Naturals, FiniteSets, Sequences, SequencesExt

CONSTANTS
  Inst,     \* server processes; each has a random _instanceId of its own
  Peer,     \* peerIds a device may choose
  MaxConn,  \* BOUND: sockets opened in a behaviour
  Cap,      \* MAX_PEERS_PER_SESSION (32 in the code)
  MaxEnv,   \* BOUND: envelopes the clients send in a behaviour
  NoConn    \* "the peers map has no entry"

Conn == 1..MaxConn
All == "all"          \* `to` is omitted

ASSUME CapAssumption == Cap \in Nat \ {0}
ASSUME MaxConnAssumption == MaxConn \in Nat \ {0}
ASSUME MaxEnvAssumption == MaxEnv \in Nat
ASSUME NoConnAssumption == NoConn \notin Conn
ASSUME PeerAssumption == All \notin Peer

\* ISignalSession objects: an instance makes at most one per socket.
Obj == Inst \X (1..MaxConn)

VARIABLES
  current,   \* _sessions of each instance: the generation of its live session, or 0
  peers,     \* session.peers of each session object
  sub,       \* the Redis subscription of each session object
  conn,      \* the sockets: what each is attached to and how it stands
  ready,     \* the peers the `ready` envelope of a socket listed
  inbox,     \* envelopes a socket has been sent, in order
  subq,      \* messages Redis has sent to the subscriber of a session object
  sent       \* envelopes made so far, which numbers them

vars == <<current, peers, sub, conn, ready, inbox, subq, sent>>

\* An ISignalEnvelope; `src` is the socket whose handler stamped `from`.
Envelope == [id: Nat, src: Conn, from: Peer,
             to: Peer \cup {All}, type: {"signal", "bye", "error"}]

NoPeers == [p \in Peer |-> NoConn]
Attached(o) == {p \in Peer : peers[o][p] # NoConn}
\* The session object a socket's handle closed over.
SessionOf(c) == conn[c].obj
InstOf(c) == conn[c].obj[1]
IsLive(o) == current[o[1]] = o[2]

Init ==
  /\ current = [i \in Inst |-> 0]
  /\ peers = [o \in Obj |-> NoPeers]
  /\ sub = [o \in Obj |-> "none"]
  /\ conn = <<>>
  /\ ready = <<>>
  /\ inbox = <<>>
  /\ subq = [o \in Obj |-> <<>>]
  /\ sent = 0

(***************************************************************************)
(* Sending to sockets and to Redis.                                        *)
(***************************************************************************)

\* conn.send(env) on every socket of C.
SendTo(C, env) ==
  inbox' = [c \in DOMAIN inbox |-> IF c \in C THEN Append(inbox[c], env) ELSE inbox[c]]

\* PUBLISH reaches the subscriptions Redis has confirmed and not ended.
Reached(o) == sub[o] \in {"active", "closing"}

\* _publish: every subscriber there is, the publisher's own included, is sent
\* the envelope, or publish() rejects and nobody is.  Nothing is awaited; what
\* takes time is the way from here to the subscribers.
Publish(i, env) ==
  \/ subq' = [o \in Obj |-> IF Reached(o) THEN Append(subq[o], [origin |-> i, env |-> env])
                                         ELSE subq[o]]
  \/ UNCHANGED subq

\* The sockets of a session object other than a peer's own.
OtherSockets(o, p) == {peers[o][q] : q \in Attached(o) \ {p}}

(***************************************************************************)
(* attach: the upgrade handler of GET /signal opened a socket for peer p.  *)
(***************************************************************************)

\* _getOrCreateSession: the live object, or the next one.
LiveSession(i) ==
  IF current[i] # 0
    THEN <<i, current[i]>>
    ELSE <<i, 1 + Cardinality({o \in Obj : o[1] = i /\ \E c \in DOMAIN conn : conn[c].obj = o})>>

AtCap(o) == Cardinality(Attached(o)) >= Cap

Attach(i, p) ==
  LET c == Len(conn) + 1
      o == LiveSession(i)
      prior == peers[o][p]
      Replaced(d) == [conn[d] EXCEPT !.st = "replaced"]
  IN
  /\ c \in Conn
  /\ current' = [current EXCEPT ![i] = o[2]]
  /\ sub' = [sub EXCEPT ![o] = IF current[i] = 0 THEN "pending" ELSE @]
  /\ inbox' = Append(inbox, <<>>)
  /\ \/ /\ AtCap(o)
        /\ conn' = Append(conn, [obj |-> o, peer |-> p, st |-> "refused"])
        /\ ready' = Append(ready, {})
        /\ UNCHANGED peers
     \/ /\ ~AtCap(o)
        /\ conn' = Append(IF prior = NoConn THEN conn ELSE [conn EXCEPT ![prior] = Replaced(prior)],
                          [obj |-> o, peer |-> p, st |-> "open"])
        /\ peers' = [peers EXCEPT ![o][p] = c]
        /\ ready' = Append(ready, Attached(o) \ {p})
  /\ UNCHANGED <<subq, sent>>

(***************************************************************************)
(* _handleInbound: a frame from a socket whose handle still works.  The    *)
(* handle of a replaced socket is not disabled: until its close handshake  *)
(* ends, its frames are routed as its peer's.                              *)
(***************************************************************************)

\* Fault variant: `from` and `to` are swapped.
StampedSwapped(c, to, type) ==
  [id |-> sent + 1, src |-> c, from |-> to, to |-> conn[c].peer, type |-> type]

\* { ...parsed, from: fromPeerId }
Stamped(c, to, type) ==
  [id |-> sent + 1, src |-> c, from |-> conn[c].peer, to |-> to, type |-> type]

Speaks(c) == conn[c].st \in {"open", "replaced"}

InboundTargeted(c, to) ==
  LET o == SessionOf(c)
      env == Stamped(c, to, "signal")
  IN
  /\ Speaks(c) /\ sent < MaxEnv
  /\ sent' = sent + 1
  /\ \/ /\ peers[o][to] # NoConn
        /\ SendTo({peers[o][to]}, env)
        /\ UNCHANGED subq
     \/ /\ peers[o][to] = NoConn
        /\ Publish(o[1], env)
        /\ UNCHANGED inbox
  /\ UNCHANGED <<current, peers, sub, conn, ready>>

InboundBroadcast(c) ==
  LET o == SessionOf(c)
      env == Stamped(c, All, "signal")
  IN
  /\ Speaks(c) /\ sent < MaxEnv
  /\ sent' = sent + 1
  /\ SendTo(OtherSockets(o, conn[c].peer), env)
  /\ Publish(o[1], env)
  /\ UNCHANGED <<current, peers, sub, conn, ready>>

\* A frame that is not JSON: the error goes to the socket the peer has now.
InboundInvalid(c) ==
  LET o == SessionOf(c) p == conn[c].peer IN
  /\ Speaks(c) /\ sent < MaxEnv
  /\ peers[o][p] # NoConn
  /\ sent' = sent + 1
  /\ SendTo({peers[o][p]}, Stamped(c, p, "error"))
  /\ UNCHANGED <<current, peers, sub, conn, ready, subq>>

(***************************************************************************)
(* _detach: onClose or onError of a socket.  Only the socket the peers map *)
(* holds for its peer leaves; the last one to leave ends the session.      *)
(* What a closed socket was sent is forgotten.                             *)
(***************************************************************************)

IsCurrentSocket(c) == peers[SessionOf(c)][conn[c].peer] = c

\* Fault variant: the peers that stay on this instance are not told.
LeaveNoticeNone(o, p) == {}

\* Who is sent the bye of a peer that left.
LeaveNotice(o, p) == OtherSockets(o, p)

\* Fault variant: the session of the last peer to leave stays, with its subscription.
EndIfEmptyNever(o, p) == UNCHANGED <<current, sub>>

\* The session ends with its last peer p.
EndIfEmpty(o, p) ==
  IF Attached(o) \subseteq {p}
    THEN /\ current' = [current EXCEPT ![o[1]] = 0]
         /\ sub' = [sub EXCEPT ![o] = "closing"]
    ELSE UNCHANGED <<current, sub>>

Detach(c) ==
  LET o == SessionOf(c)
      p == conn[c].peer
      bye == Stamped(c, All, "bye")
  IN
  /\ conn[c].st # "gone"
  /\ conn' = [conn EXCEPT ![c].st = "gone"]
  /\ \/ /\ Speaks(c) /\ IsCurrentSocket(c)
        /\ sent' = sent + 1
        /\ peers' = [peers EXCEPT ![o][p] = NoConn]
        /\ inbox' = [d \in DOMAIN inbox |->
                       CASE d = c -> <<>>
                         [] d \in LeaveNotice(o, p) -> Append(inbox[d], bye)
                         [] OTHER -> inbox[d]]
        /\ Publish(o[1], bye)
        /\ EndIfEmpty(o, p)
     \/ /\ ~(Speaks(c) /\ IsCurrentSocket(c))
        /\ inbox' = [inbox EXCEPT ![c] = <<>>]
        /\ UNCHANGED <<current, peers, sub, subq, sent>>
  /\ ready' = [ready EXCEPT ![c] = {}]

(***************************************************************************)
(* Redis, and the subscriber of a session object.                          *)
(***************************************************************************)

\* sub.subscribe() takes effect some time after the first peer was `ready`.
Subscribed(o) ==
  /\ sub[o] = "pending"
  /\ sub' = [sub EXCEPT ![o] = "active"]
  /\ UNCHANGED <<current, peers, conn, ready, inbox, subq, sent>>

\* sub.unsubscribe() and quit(): what was already sent to it is dropped.
Unsubscribed(o) ==
  /\ sub[o] = "closing"
  /\ sub' = [sub EXCEPT ![o] = "ended"]
  /\ subq' = [subq EXCEPT ![o] = <<>>]
  /\ UNCHANGED <<current, peers, conn, ready, inbox, sent>>

\* Fault variant: the publisher does not skip its own echo.
RecipientsEcho(o, msg) ==
  {peers[o][p] : p \in IF msg.env.to = All THEN Attached(o) ELSE Attached(o) \cap {msg.env.to}}

\* _handleRedisEnvelope: the sockets an envelope from the channel is sent to.
Recipients(o, msg) ==
  IF msg.origin = o[1]
    THEN {}
    ELSE {peers[o][p] : p \in IF msg.env.to = All THEN Attached(o)
                                                  ELSE Attached(o) \cap {msg.env.to}}

HandleRedisEnvelope(o) ==
  /\ subq[o] # <<>>
  /\ SendTo(Recipients(o, Head(subq[o])), Head(subq[o]).env)
  /\ subq' = [subq EXCEPT ![o] = Tail(@)]
  /\ UNCHANGED <<current, peers, sub, conn, ready, sent>>

Next ==
  \/ \E i \in Inst, p \in Peer : Attach(i, p)
  \/ \E c \in DOMAIN conn : \/ \E p \in Peer : InboundTargeted(c, p)
                            \/ InboundBroadcast(c)
                            \/ InboundInvalid(c)
                            \/ Detach(c)
  \/ \E o \in Obj : Subscribed(o) \/ Unsubscribed(o) \/ HandleRedisEnvelope(o)

Spec == Init /\ [][Next]_vars

-----------------------------------------------------------------------------

Socket == [obj: Obj, peer: Peer, st: {"open", "refused", "replaced", "gone"}]
Message == [origin: Inst, env: Envelope]

TypeOK ==
  /\ current \in [Inst -> 0..MaxConn]
  /\ peers \in [Obj -> [Peer -> Conn \cup {NoConn}]]
  /\ sub \in [Obj -> {"none", "pending", "active", "closing", "ended"}]
  /\ conn \in Seq(Socket) /\ ready \in Seq(SUBSET Peer) /\ inbox \in Seq(Seq(Envelope))
  /\ Len(conn) <= MaxConn /\ Len(ready) = Len(conn) /\ Len(inbox) = Len(conn)
  /\ subq \in [Obj -> Seq(Message)]
  /\ sent \in Nat

\* A session lives exactly as long as a peer is attached to it: a live one has
\* a peer and its subscription, and one that ended has neither a socket that
\* could still be sent to nor a subscription that nobody will ever close.
\* Whatever order peers join, reconnect and leave in, every socket the service
\* sends to is the one its peer opened last and still has, and the cap holds.
SessionsEndWithTheirPeers ==
  \A o \in Obj :
    /\ IsLive(o) => Attached(o) # {} /\ sub[o] \in {"pending", "active"}
    /\ ~IsLive(o) => Attached(o) = {} /\ sub[o] \in {"none", "closing", "ended"}
    /\ Cardinality(Attached(o)) <= Cap
    /\ \A p \in Attached(o) : conn[peers[o][p]] = [obj |-> o, peer |-> p, st |-> "open"]

\* An envelope reaches its addressee only, and a peer that stays on one
\* instance never hears its own broadcast or its own bye.
Addressed(c, e) ==
  /\ e.to \in {All, conn[c].peer}
  /\ e.to = All /\ e.from = conn[c].peer => InstOf(e.src) # InstOf(c)

\* No socket is sent the same envelope twice or one for somebody else, although
\* an envelope takes a local and a Redis path and an instance may hold the
\* subscriptions of a session that ended and of the one made after it at once.
\* What one socket hears of another is in the order it was said: an offer, its
\* ICE candidates and the bye that ends them never overtake each other.
OnceAndInOrder ==
  \A c \in DOMAIN inbox :
    /\ \A k \in DOMAIN inbox[c] : Addressed(c, inbox[c][k])
    /\ \A j, k \in DOMAIN inbox[c] :
         j < k => /\ inbox[c][j].id # inbox[c][k].id
                  /\ inbox[c][j].src = inbox[c][k].src => inbox[c][j].id < inbox[c][k].id

\* A peer that was announced to a socket on the same instance, in `ready` or by
\* its own envelope, is either still attached there or its bye was sent: no
\* half of an RTCPeerConnection is left to the ICE timeout.  (An envelope of a
\* replaced socket is left out: its handle works on after the peer's bye.)
LeftPeersAreAnnounced ==
  \A c \in DOMAIN conn : conn[c].st = "open" =>
    LET heard == {inbox[c][k] : k \in DOMAIN inbox[c]} IN
    \A p \in ready[c] \cup {e.from : e \in {e \in heard : /\ SessionOf(e.src) = SessionOf(c)
                                                         /\ conn[e.src].st = "open"}} :
      \/ p \in Attached(SessionOf(c))
      \/ \E e \in heard : e.type = "bye" /\ e.from = p

\* A bye and a departure go together.  Whoever left was announced, and a peer
\* that reconnects to the instance it is on is never said to be gone: when a bye
\* is made, its peer has no open socket left on that instance.
ByesAreDepartures ==
  [][/\ LeftPeersAreAnnounced'
     /\ \A c \in DOMAIN conn : \A e \in Range(inbox'[c]) :
          e.type = "bye" /\ e.id > sent =>
            ~\E d \in DOMAIN conn : /\ conn[d].obj[1] = InstOf(e.src) /\ conn[d].peer = e.from
                                   /\ conn'[d].st = "open"]_vars

-----------------------------------------------------------------------------
(* The inductive invariant behind these *)

\* An open socket is the one its peer has, and the peers of a session are as
\* many as can be counted.
SocketInv ==
  /\ SessionsEndWithTheirPeers
  /\ \A c \in DOMAIN conn : conn[c].st = "open" => IsCurrentSocket(c)
  /\ \A o \in Obj : IsFiniteSet(Attached(o)) /\ \A p \in Attached(o) : peers[o][p] \in DOMAIN conn

\* An envelope made so far, by a socket there is and under its peer's name.
Made(e) == e.id <= sent /\ e.src \in DOMAIN conn /\ e.from = conn[e.src].peer

AllMade ==
  /\ \A c \in DOMAIN inbox : \A k \in DOMAIN inbox[c] : Made(inbox[c][k])
  /\ \A o \in Obj : \A k \in DOMAIN subq[o] :
       Made(subq[o][k].env) /\ subq[o][k].origin = InstOf(subq[o][k].env.src)

\* A subscriber is sent what was published in the order it was made.
QueuedInOrder ==
  \A o \in Obj : \A j, k \in DOMAIN subq[o] : j < k => subq[o][j].env.id < subq[o][k].env.id

\* The number of an envelope says who made it.
NumberNamesMaker ==
  \A o \in Obj : \A j \in DOMAIN subq[o] :
    /\ \A x \in Obj : \A k \in DOMAIN subq[x] :
         subq[o][j].env.id = subq[x][k].env.id => subq[o][j].env.src = subq[x][k].env.src
    /\ \A c \in DOMAIN inbox : \A k \in DOMAIN inbox[c] :
         inbox[c][k].id = subq[o][j].env.id => inbox[c][k].src = subq[o][j].env.src

\* What a socket has from another instance is older than all that is still on
\* its way to the socket's session.
NewerIsToCome ==
  \A c \in DOMAIN inbox : \A k \in DOMAIN inbox[c] : \A j \in DOMAIN subq[SessionOf(c)] :
    InstOf(inbox[c][k].src) # InstOf(c) => inbox[c][k].id < subq[SessionOf(c)][j].env.id

EnvelopeInv == AllMade /\ QueuedInOrder /\ NumberNamesMaker /\ NewerIsToCome /\ OnceAndInOrder

SignalingInv == SocketInv /\ EnvelopeInv /\ LeftPeersAreAnnounced

=============================================================================
