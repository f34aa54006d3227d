-------------------------------- MODULE Relay --------------------------------
(***************************************************************************)
(* The shared-terminal relay of one session key (userId:sessionId), on     *)
(* several server instances: packages/shared-terminal/src/services/        *)
(* relay.service.ts.  Keys never meet, so one suffices.                    *)
(*                                                                         *)
(* A session is an object.  A socket's handle is bound to the object it    *)
(* attached to, not to the key, so an object lives on, through its sockets *)
(* and its timers, after garbage collection has removed it from the        *)
(* instance's registry.  Every handler is synchronous and therefore one    *)
(* action; sockets close late, timers fire at some time, and what other    *)
(* instances publish arrives in order, but late, through a subscription    *)
(* of the object's own that takes time to open and to close.               *)
(***************************************************************************)
EXTENDS Integers, Sequences

CONSTANTS
  Pod,         \* server instances
  Client,      \* client connection ids
  Session,     \* session objects that can be created
  PodOf,       \* Session -> Pod, the process the object lives in
  Sock,        \* sockets that can be connected at the same time
  Daemon,      \* the peer that owns the session
  Broadcast,   \* the target of a frame to all clients
  None,        \* no session object, no socket
  MaxAttach,   \* bound: attaches
  MaxEnvelope  \* bound: shutdown, revoke and frame envelopes of daemons

ASSUME PodAssumption    == PodOf \in [Session -> Pod]
ASSUME PeerAssumption   == Daemon \notin Client /\ Broadcast \notin Client
ASSUME NoneAssumption   == None \notin Session /\ None \notin Sock
ASSUME BoundAssumption  == MaxAttach \in Nat /\ MaxEnvelope \in Nat

VARIABLES
  registry,    \* _sessions: Pod -> the object under the key
  daemon,      \* session.daemon, per object
  clients,     \* session.clients, per object: Client -> socket
  leaving,     \* session.pendingLeaves, per object
  sub,         \* the object's Redis subscription
  inbox,       \* what the subscription has yet to hand to the object
  sock,        \* sockets: status, peer and the object of the handle
  attaches, envelopes,       \* counters for the bounds
  lateGc,      \* history: instances where an object outside the registry was collected
  overlapped,  \* history: clients that attached before an earlier socket was closed
  deaf,        \* history: per object, the armed timers whose peer_rejoined is lost to it
  fate,        \* history: what became of each client
  due,         \* history: the sockets the last frame was meant for
  unsent       \* history: the publication of the last frame failed

registryVars == <<registry, sub, lateGc>>
peerVars     == <<daemon, clients, leaving>>
boundVars    == <<attaches, envelopes>>
fateVars     == <<overlapped, deaf, fate>>
frameVars    == <<due, unsent>>
vars == <<registryVars, peerVars, inbox, sock, boundVars, fateVars, frameVars>>

NoClients == [c \in Client |-> None]
Event     == [kind: {"evict_clients"}] \cup [kind: {"peer_left", "peer_rejoined"}, who: Client]
Frame     == [kind: {"frame"}, to: Client \cup {Broadcast}]
Evict     == [kind |-> "evict_clients"]
PeerLeft(c) == [kind |-> "peer_left", who |-> c]
Rejoined(c) == [kind |-> "peer_rejoined", who |-> c]

Referenced(o) == daemon[o] # None \/ clients[o] # NoClients \/ leaving[o] # {}

\* A socket whose close event has not been handled, and one that is not connected.
Unclosed(s) == sock[s].status # "idle"
Idle == [status |-> "idle", peer |-> Daemon, at |-> None]

\* The unclosed sockets of peer p.
SocketsOf(p) == {s \in Sock : Unclosed(s) /\ sock[s].peer = p}

Init ==
  /\ registry = [p \in Pod |-> None]
  /\ daemon = [o \in Session |-> None]
  /\ clients = [o \in Session |-> NoClients]
  /\ leaving = [o \in Session |-> {}]
  /\ sub = [o \in Session |-> "fresh"]
  /\ inbox = [o \in Session |-> <<>>]
  /\ sock = [s \in Sock |-> Idle]
  /\ attaches = 0 /\ envelopes = 0
  /\ lateGc = {} /\ overlapped = {}
  /\ deaf = [o \in Session |-> {}]
  /\ fate = [c \in Client |-> "away"]
  /\ due = {} /\ unsent = FALSE
-----------------------------------------------------------------------------
\* Object x has an active subscription on another instance than object o.
Listens(x, o) == PodOf[x] # PodOf[o] /\ sub[x] = "subscribed"

\* _publish: every other instance's active subscription gets the message, or publish()
\* rejects, which is swallowed, and none does; the publisher's own echo is dropped by its
\* originInstanceId.
Publish(o, message, sent) ==
  inbox' = [x \in Session |-> IF sent /\ Listens(x, o) THEN Append(inbox[x], message)
                                                       ELSE inbox[x]]

\* Fault variants: clients do not keep an object; one still subscribing is never collected.
UnusedByDaemon(o) == daemon'[o] = None /\ leaving'[o] = {}
UnusedAndActive(o) ==
  daemon'[o] = None /\ clients'[o] = NoClients /\ leaving'[o] = {} /\ sub[o] # "subscribing"

\* After the step, nothing references object o: no daemon, no client, no timer.
Unused(o) == daemon'[o] = None /\ clients'[o] = NoClients /\ leaving'[o] = {}

\* _maybeGcSession at the end of a step that changed object o: when unused it unsubscribes,
\* and the key leaves the registry, whatever object is under it.
MaybeGcSession(o) ==
  IF Unused(o)
  THEN /\ sub' = [sub EXCEPT ![o] = "closed"]
       /\ registry' = [registry EXCEPT ![PodOf[o]] = None]
       /\ lateGc' = IF registry[PodOf[o]] = o THEN lateGc ELSE lateGc \cup {PodOf[o]}
  ELSE UNCHANGED registryVars

\* The sockets ss are told to close; their close events come later.
Closing(ss) == [s \in Sock |-> IF s \in ss /\ sock[s].status = "open"
                               THEN [sock[s] EXCEPT !.status = "closing"] ELSE sock[s]]

\* _getOrCreateSession: the registered object, or a new one.
SessionFor(p) ==
  IF registry[p] # None THEN {registry[p]}
  ELSE {o \in Session : PodOf[o] = p /\ sub[o] = "fresh"}

\* A created object is registered and starts to subscribe.
Obtain(o) ==
  /\ registry' = [registry EXCEPT ![PodOf[o]] = o]
  /\ sub' = IF sub[o] = "fresh" THEN [sub EXCEPT ![o] = "subscribing"] ELSE sub
  /\ UNCHANGED lateGc

\* Socket s of a peer opens and is bound to object o.
Bind(sockets, s, peer, o) ==
  [sockets EXCEPT ![s] = [status |-> "open", peer |-> peer, at |-> o]]

\* The subscribe command of the object's connection takes effect.
Subscribed(o) ==
  /\ sub[o] = "subscribing"
  /\ sub' = [sub EXCEPT ![o] = "subscribed"]
  /\ UNCHANGED <<registry, lateGc, peerVars, inbox, sock, boundVars, fateVars, frameVars>>

\* attach in daemon mode: the earlier daemon of this object is replaced.
AttachDaemon(s, o) ==
  /\ ~Unclosed(s) /\ o \in SessionFor(PodOf[o]) /\ attaches < MaxAttach
  /\ Obtain(o)
  /\ attaches' = attaches + 1
  /\ daemon' = [daemon EXCEPT ![o] = s]
  /\ sock' = Bind(Closing({daemon[o]}), s, Daemon, o)
  /\ UNCHANGED <<clients, leaving, inbox, envelopes, fateVars, frameVars>>

\* Fault variant: the timer is left running.
LeftRunning(o, c) == leaving

\* _cancelPendingLeave: the client's timer on this object is cleared, if there is one.
CancelPendingLeave(o, c) == [leaving EXCEPT ![o] = @ \ {c}]

\* attach in client mode; the other instances hear peer_rejoined, if it is sent.
AttachClient(s, c, o, sent) ==
  /\ ~Unclosed(s) /\ o \in SessionFor(PodOf[o]) /\ attaches < MaxAttach
  /\ Obtain(o)
  /\ attaches' = attaches + 1
  /\ clients' = [clients EXCEPT ![o][c] = s]
  /\ leaving' = CancelPendingLeave(o, c)
  /\ Publish(o, Rejoined(c), sent)
  /\ sock' = Bind(sock, s, c, o)
  /\ overlapped' = IF SocketsOf(c) # {} THEN overlapped \cup {c} ELSE overlapped
  /\ deaf' = [x \in Session |->
                IF PodOf[x] # PodOf[o] /\ c \in leaving[x] /\ ~(sent /\ Listens(x, o))
                THEN deaf[x] \cup {c} ELSE deaf[x]]
  /\ fate' = [fate EXCEPT ![c] = "here"]
  /\ UNCHANGED <<daemon, envelopes, frameVars>>
-----------------------------------------------------------------------------
\* _evictClientsLocally: every client of the object is told to go, every timer dropped.
EvictClientsLocally(o) ==
  /\ sock' = Closing({clients[o][c] : c \in Client})
  /\ clients' = [clients EXCEPT ![o] = NoClients]
  /\ leaving' = [leaving EXCEPT ![o] = {}]
  /\ fate' = [c \in Client |-> IF clients[o][c] # None \/ c \in leaving[o]
                               THEN "away" ELSE fate[c]]

\* A socket the relay has replaced can still speak until its close is handled.
DaemonSpeaks(s) == Unclosed(s) /\ sock[s].peer = Daemon

\* A daemon's shutdown envelope.
Shutdown(s, sent) ==
  LET o == sock[s].at
  IN /\ DaemonSpeaks(s) /\ envelopes < MaxEnvelope
     /\ EvictClientsLocally(o)
     /\ Publish(o, Evict, sent)
     /\ envelopes' = envelopes + 1
     /\ UNCHANGED <<registryVars, daemon, attaches, overlapped, deaf, frameVars>>

\* A daemon's revoke envelope: only a client of the same object is removed.
Revoke(s, c) ==
  LET o == sock[s].at
  IN /\ DaemonSpeaks(s) /\ envelopes < MaxEnvelope
     /\ clients[o][c] # None
     /\ sock' = Closing({clients[o][c]})
     /\ clients' = [clients EXCEPT ![o][c] = None]
     /\ fate' = [fate EXCEPT ![c] = "away"]
     /\ envelopes' = envelopes + 1
     /\ UNCHANGED <<registryVars, daemon, leaving, inbox, attaches, overlapped, deaf, frameVars>>

\* The sockets of object o a frame to `to` is sent to.
Addressed(o, to) ==
  {clients[o][c] : c \in {d \in Client : clients[o][d] # None /\ to \in {d, Broadcast}}}

\* Fault variant: a frame somebody here gets is not published.
GoesIfNobodyHere(o, to) == Addressed(o, to) = {}

\* A broadcast is delivered here and published; a frame to one client is delivered here
\* or, when he is not here, published.
Goes(o, to) == to = Broadcast \/ Addressed(o, to) = {}

\* Whom the frame is meant for beyond object o: the clients of objects that listen, and
\* those of other objects of the same instance.
MeantFor(o, to) ==
  IF to # Broadcast /\ Addressed(o, to) # {} THEN {}
  ELSE UNION {Addressed(x, to) : x \in {y \in Session \ {o} :
                                         sub[y] = "subscribed" \/ PodOf[y] = PodOf[o]}}

\* A daemon's frame to all clients or to one of them.
SendFrame(s, to, sent) ==
  LET o == sock[s].at
  IN /\ DaemonSpeaks(s) /\ envelopes < MaxEnvelope
     /\ IF Goes(o, to) THEN Publish(o, [kind |-> "frame", to |-> to], sent) ELSE UNCHANGED inbox
     /\ due' = IF daemon[o] = s THEN MeantFor(o, to) ELSE {}
     /\ unsent' = (daemon[o] = s /\ Goes(o, to) /\ ~sent)
     /\ envelopes' = envelopes + 1
     /\ UNCHANGED <<registryVars, peerVars, sock, attaches, fateVars>>
-----------------------------------------------------------------------------
\* The socket is gone; nobody waits for a frame on it.
Closed(s) ==
  /\ sock' = [sock EXCEPT ![s] = Idle]
  /\ due' = due \ {s}
  /\ UNCHANGED unsent

\* _detach of a daemon: only the current daemon of the object clears it.
CloseDaemon(s) ==
  LET o == sock[s].at
  IN /\ DaemonSpeaks(s)
     /\ daemon' = IF daemon[o] = s THEN [daemon EXCEPT ![o] = None] ELSE daemon
     /\ Closed(s)
     /\ UNCHANGED <<clients, leaving>>
     /\ MaybeGcSession(o)
     /\ UNCHANGED <<inbox, boundVars, fateVars>>

\* Fault variants: the entry stays; the timer is armed where there is a daemon only.
StillListed(o, c) == clients
ArmedForDaemon(o, c) == IF daemon[o] # None THEN [leaving EXCEPT ![o] = @ \cup {c}] ELSE leaving

\* _detach of a client: its entry goes, by connection id, and peer_left is armed.
Detached(o, c) == [clients EXCEPT ![o][c] = None]
SchedulePeerLeft(o, c) == [leaving EXCEPT ![o] = @ \cup {c}]

CloseClient(s, c) ==
  LET o == sock[s].at
  IN /\ Unclosed(s) /\ sock[s].peer = c
     /\ clients' = Detached(o, c)
     /\ leaving' = SchedulePeerLeft(o, c)
     /\ Closed(s)
     /\ UNCHANGED daemon
     /\ MaybeGcSession(o)
     /\ deaf' = [deaf EXCEPT ![o] = @ \ {c}]
     /\ fate' = IF fate[c] = "here" /\ SocketsOf(c) = {s}
                THEN [fate EXCEPT ![c] = "leaving"] ELSE fate
     /\ UNCHANGED <<inbox, boundVars, overlapped>>

\* The grace timer of c fires: peer_left to the daemon here, and to the others if it is
\* sent; it is not tried again.
Fire(o, c, sent) ==
  /\ c \in leaving[o]
  /\ leaving' = [leaving EXCEPT ![o] = @ \ {c}]
  /\ UNCHANGED <<daemon, clients>>
  /\ Publish(o, PeerLeft(c), sent)
  /\ MaybeGcSession(o)
  /\ fate' = IF fate[c] = "leaving" THEN [fate EXCEPT ![c] = "away"] ELSE fate
  /\ UNCHANGED <<sock, boundVars, overlapped, deaf, frameVars>>
-----------------------------------------------------------------------------
\* _handleRedisEnvelope: the next message of the object's subscription.  An object
\* that has unsubscribed still handles what was already on its way.
Receive(o, kind) ==
  /\ inbox[o] # <<>> /\ Head(inbox[o]).kind = kind
  /\ inbox' = [inbox EXCEPT ![o] = Tail(@)]

ReceiveEvict(o) ==
  /\ Receive(o, "evict_clients")
  /\ EvictClientsLocally(o)
  /\ UNCHANGED daemon
  /\ MaybeGcSession(o)
  /\ UNCHANGED <<boundVars, overlapped, deaf, frameVars>>

\* The daemon of this object, if there is one, is told.
ReceivePeerLeft(o) ==
  /\ Receive(o, "peer_left")
  /\ UNCHANGED <<registryVars, peerVars, sock, boundVars, fateVars, frameVars>>

\* The client is back on another instance: its timer here is cancelled.
ReceiveRejoined(o) ==
  LET c == Head(inbox[o]).who
  IN /\ Receive(o, "peer_rejoined")
     /\ leaving' = CancelPendingLeave(o, c)
     /\ UNCHANGED <<daemon, clients>>
     /\ MaybeGcSession(o)
     /\ fate' = IF c \in leaving[o] /\ fate[c] = "leaving"
                THEN [fate EXCEPT ![c] = "miscancelled"] ELSE fate
     /\ UNCHANGED <<sock, boundVars, overlapped, deaf, frameVars>>

ReceiveFrame(o) ==
  /\ Receive(o, "frame")
  /\ due' = due \ Addressed(o, Head(inbox[o]).to)
  /\ UNCHANGED <<registryVars, peerVars, sock, boundVars, fateVars, unsent>>

\* The subscription's connection is closed; what was on its way is lost.
Quit(o) ==
  /\ sub[o] = "closed" /\ inbox[o] # <<>>
  /\ inbox' = [inbox EXCEPT ![o] = <<>>]
  /\ UNCHANGED <<registryVars, peerVars, sock, boundVars, fateVars, frameVars>>
-----------------------------------------------------------------------------
SocketStep(s) ==
  \/ \E o \in Session : AttachDaemon(s, o)
  \/ \E c \in Client : \E o \in Session : \E sent \in BOOLEAN : AttachClient(s, c, o, sent)
  \/ \E sent \in BOOLEAN : Shutdown(s, sent)
  \/ \E c \in Client : Revoke(s, c)
  \/ \E to \in Client \cup {Broadcast} : \E sent \in BOOLEAN : SendFrame(s, to, sent)
  \/ CloseDaemon(s)
  \/ \E c \in Client : CloseClient(s, c)

SessionStep(o) ==
  \/ Subscribed(o)
  \/ \E c \in Client : \E sent \in BOOLEAN : Fire(o, c, sent)
  \/ ReceiveEvict(o)
  \/ ReceivePeerLeft(o)
  \/ ReceiveRejoined(o)
  \/ ReceiveFrame(o)
  \/ Quit(o)

Next == (\E s \in Sock : SocketStep(s)) \/ (\E o \in Session : SessionStep(o))

Spec == Init /\ [][Next]_vars
-----------------------------------------------------------------------------
\* Whom an object holds is a connected socket of that peer, bound to that object.
Bound(o) ==
  /\ daemon[o] # None => sock[daemon[o]].peer = Daemon /\ sock[daemon[o]].at = o
                          /\ Unclosed(daemon[o])
  /\ \A c \in Client : clients[o][c] # None =>
       sock[clients[o][c]].peer = c /\ sock[clients[o][c]].at = o /\ Unclosed(clients[o][c])

Types ==
  /\ registry \in [Pod -> Session \cup {None}]
  /\ daemon \in [Session -> Sock \cup {None}]
  /\ clients \in [Session -> [Client -> Sock \cup {None}]]
  /\ leaving \in [Session -> SUBSET Client]
  /\ sub \in [Session -> {"fresh", "subscribing", "subscribed", "closed"}]
  /\ inbox \in [Session -> Seq(Event \cup Frame)]
  /\ sock \in [Sock -> [status: {"idle", "open", "closing"},
                        peer: Client \cup {Daemon}, at: Session \cup {None}]]
  /\ \A s \in Sock : Unclosed(s) => sock[s].at \in Session
  /\ attaches \in 0..MaxAttach /\ envelopes \in 0..MaxEnvelope
  /\ lateGc \subseteq Pod /\ overlapped \subseteq Client
  /\ deaf \in [Session -> SUBSET Client]
  /\ fate \in [Client -> {"away", "here", "leaving", "miscancelled"}]
  /\ due \subseteq Sock /\ unsent \in BOOLEAN

\* Types, and no object holds a socket that is gone or that another object serves.
TypeOK == Types /\ \A o \in Session : Bound(o)

\* An object that holds a Redis subscription is in use, or a socket of it is still to
\* close and will have it collected: neither a revoked or evicted client nor a cancelled
\* timer leaves a session and its subscription behind (_maybeGcSession and its callers).
NoStrandedSession ==
  \A o \in Session : sub[o] \in {"subscribing", "subscribed"} =>
    Referenced(o) \/ \E s \in Sock : Unclosed(s) /\ sock[s].at = o

\* Whoever is attached on an instance is in the registered object, where the next one to
\* attach will find him, until an object that is no longer registered is collected there
\* and takes the key from its successor.
OneLiveObject ==
  \A o \in Session :
    (daemon[o] # None \/ clients[o] # NoClients) /\ PodOf[o] \notin lateGc
      => registry[PodOf[o]] = o

\* The message waits for object o.
OnItsWay(o, m) == \E i \in DOMAIN inbox[o] : inbox[o][i] = m

\* Where two objects of an instance can serve one client: the one with the timer was
\* collected before its sockets had closed, or lost the key to a late collection.
Abandoned(o) == sub[o] = "closed" \/ PodOf[o] \in lateGc

\* No peer_left is pending for a client that is back, unless its return is still on its
\* way to the instance with the timer, never reached it (it did not listen yet, or the
\* publication of peer_rejoined failed), or the timer is in an abandoned object (the
\* grace window, attach and peer_rejoined).  Clients that attach again before their
\* earlier socket has closed are left to NoFalseDeparture.
DepartureCancelled ==
  \A o \in Session : \A c \in leaving[o] : \A s \in Sock :
    sock[s].status = "open" /\ sock[s].peer = c /\ c \notin overlapped =>
      \/ c \in deaf[o]
      \/ PodOf[sock[s].at] # PodOf[o] /\ OnItsWay(o, Rejoined(c))
      \/ PodOf[sock[s].at] = PodOf[o] /\ sock[s].at # o /\ Abandoned(o)

\* A client all of whose sockets are closed has a timer running somewhere until its
\* timer fires, it is evicted, or a peer_rejoined of an earlier attach of its own comes
\* in after the timer was armed and cancels it.  The report itself is made once, and
\* what the other instances miss of it is not made good.
DepartureNotForgotten ==
  \A c \in Client : fate[c] = "leaving" => \E o \in Session : c \in leaving[o]

FramesFor(c) == {[kind |-> "frame", to |-> x] : x \in {c, Broadcast}}

\* If socket s is still attached, a frame for its client waits to be delivered to it.
UnderWay(s) ==
  LET o == sock[s].at
  IN  clients[o][sock[s].peer] = s => \E m \in FramesFor(sock[s].peer) : OnItsWay(o, m)

\* A frame of the session's daemon is delivered to every client attached where the
\* relay listens, or on its way there, unless its publication failed (which nobody is
\* told of) or a late collection has split the session.
FrameOnItsWay ==
  \A s \in due : PodOf[sock[s].at] \notin lateGc /\ ~unsent => UnderWay(s)
-----------------------------------------------------------------------------
(* The inductive invariant behind these. *)

\* The object has been created and not been collected.
Live(o) == sub[o] \in {"subscribing", "subscribed"}

\* What is registered is live; what has a daemon or clients is live; an object not yet
\* created has no timers and no sockets; what is live is registered until a late collection.
RegistryInv ==
  /\ \A p \in Pod : registry[p] # None => PodOf[registry[p]] = p /\ Live(registry[p])
  /\ \A o \in Session : daemon[o] # None \/ clients[o] # NoClients => Live(o)
  /\ \A o \in Session : sub[o] = "fresh" => leaving[o] = {}
  /\ \A s \in Sock : Unclosed(s) => sub[sock[s].at] # "fresh"
  /\ \A o \in Session : Live(o) /\ PodOf[o] \notin lateGc => registry[PodOf[o]] = o

\* Until it overlaps, a client has one socket.
OneSocket ==
  \A c \in Client \ overlapped : \A s, t \in SocketsOf(c) : s = t

\* DepartureCancelled, where the message on its way is one the object will handle.
Excused(o, c, s) ==
  \/ c \in deaf[o]
  \/ PodOf[sock[s].at] # PodOf[o] /\ sub[o] = "subscribed" /\ OnItsWay(o, Rejoined(c))
  \/ PodOf[sock[s].at] = PodOf[o] /\ sock[s].at # o /\ Abandoned(o)

DepartureInv ==
  \A o \in Session : \A c \in leaving[o] : \A s \in Sock :
    sock[s].status = "open" /\ sock[s].peer = c /\ c \notin overlapped => Excused(o, c, s)

FrameInv == (\A s \in due : Unclosed(s) /\ sock[s].peer \in Client) /\ FrameOnItsWay

RelayInv == RegistryInv /\ NoStrandedSession /\ OneSocket /\ DepartureInv /\ FrameInv
-----------------------------------------------------------------------------
\* What the comment in attach says: a client that is back on the same session object
\* has no peer_left pending, so the daemon never reads a blip as a departure.
NoFalseDeparture ==
  \A o \in Session : \A c \in leaving[o] : \A s \in Sock :
    sock[s].status = "open" /\ sock[s].peer = c => sock[s].at # o

\* What the docs say of broadcast and targeted frames: they reach the clients of other
\* instances through Redis and those of the daemon's own instance in process.
FrameReachesClients == \A s \in due : UnderWay(s)
=============================================================================
