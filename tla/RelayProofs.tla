----------------------------- MODULE RelayProofs -----------------------------
(***************************************************************************)
(* Proofs that Relay keeps its types, collects what nobody uses, serves    *)
(* one object per instance, neither invents nor forgets a departure, and   *)
(* has every frame reach those it is meant for.                            *)
(***************************************************************************)
EXTENDS Relay, TLAPS

USE DEF frameVars

-----------------------------------------------------------------------------
(* Types *)

LEMMA InitTypes == Init => TypeOK
<1> SUFFICES ASSUME Init PROVE TypeOK
  OBVIOUS
<1>1. unsent \in BOOLEAN
  BY Zenon DEF Init
<1> QED
  BY <1>1, NoneAssumption, BoundAssumption
  DEF Init, TypeOK, Types, Bound, NoClients, Idle, Unclosed

\* What the handlers have in common keeps its types.
LEMMA GcTypes ==
  ASSUME Types, NEW o \in Session, MaybeGcSession(o)
  PROVE  /\ registry' \in [Pod -> Session \cup {None}]
         /\ sub' \in [Session -> {"fresh", "subscribing", "subscribed", "closed"}]
         /\ lateGc' \subseteq Pod
<1>1. CASE Unused(o)
  <2>1. PodOf[o] \in Pod
    BY PodAssumption
  <2>2. /\ sub' = [sub EXCEPT ![o] = "closed"]
        /\ registry' = [registry EXCEPT ![PodOf[o]] = None]
        /\ lateGc' = IF registry[PodOf[o]] = o THEN lateGc ELSE lateGc \cup {PodOf[o]}
    BY <1>1 DEF MaybeGcSession
  <2>3. lateGc' \subseteq lateGc \cup {PodOf[o]}
    BY <2>2
  <2>4. sub' \in [Session -> {"fresh", "subscribing", "subscribed", "closed"}]
    BY <2>2 DEF Types
  <2>5. registry' \in [Pod -> Session \cup {None}]
    BY <2>1, <2>2 DEF Types
  <2> QED
    BY <2>1, <2>3, <2>4, <2>5 DEF Types
<1>2. CASE ~Unused(o)
  BY <1>2 DEF Types, MaybeGcSession, registryVars
<1> QED
  BY <1>1, <1>2

LEMMA PublishTypes ==
  ASSUME Types, NEW o \in Session, NEW m \in Event \cup Frame, NEW sent \in BOOLEAN,
         Publish(o, m, sent)
  PROVE  inbox' \in [Session -> Seq(Event \cup Frame)]
BY DEF Types, Publish

LEMMA EventTypes ==
  /\ Evict \in Event \cup Frame
  /\ \A c \in Client : PeerLeft(c) \in Event \cup Frame /\ Rejoined(c) \in Event \cup Frame
BY DEF Event, Frame, Evict, PeerLeft, Rejoined

SockRecord == [status: {"idle", "open", "closing"}, peer: Client \cup {Daemon},
               at: Session \cup {None}]

\* Telling sockets to close leaves them connected and bound as they are.
LEMMA ClosingKeeps ==
  ASSUME Types, NEW ss
  PROVE  /\ Closing(ss) \in [Sock -> SockRecord]
         /\ \A s \in Sock : /\ Closing(ss)[s].peer = sock[s].peer
                            /\ Closing(ss)[s].at = sock[s].at
                            /\ Closing(ss)[s].status # "idle" <=> Unclosed(s)
                            /\ Closing(ss)[s].status = "open" => sock[s].status = "open"
BY DEF Types, Closing, Unclosed, SockRecord

LEMMA BindKeeps ==
  ASSUME Types, NEW ss \in [Sock -> SockRecord], NEW s \in Sock,
         NEW p \in Client \cup {Daemon}, NEW o \in Session
  PROVE  /\ Bind(ss, s, p, o) \in [Sock -> SockRecord]
         /\ Bind(ss, s, p, o)[s] = [status |-> "open", peer |-> p, at |-> o]
         /\ \A t \in Sock \ {s} : Bind(ss, s, p, o)[t] = ss[t]
BY DEF Bind, SockRecord

LEMMA ClosedKeeps ==
  ASSUME Types, NEW s \in Sock, Closed(s)
  PROVE  /\ sock' \in [Sock -> SockRecord]
         /\ sock'[s].status = "idle"
         /\ \A t \in Sock \ {s} : sock'[t] = sock[t]
         /\ due' \subseteq Sock /\ unsent' = unsent
BY DEF Types, Closed, Idle, SockRecord

\* Receiving takes the oldest message off.
LEMMA ReceiveTypes ==
  ASSUME Types, NEW o \in Session, NEW kind, Receive(o, kind)
  PROVE  /\ inbox' \in [Session -> Seq(Event \cup Frame)]
         /\ Head(inbox[o]) \in Event \cup Frame
         /\ Head(inbox[o]).kind = kind
         /\ kind = "peer_rejoined" => Head(inbox[o]).who \in Client
<1>1. inbox[o] \in Seq(Event \cup Frame) /\ inbox[o] # <<>>
  BY DEF Types, Receive
<1>2. Head(inbox[o]) \in Event \cup Frame /\ Tail(inbox[o]) \in Seq(Event \cup Frame)
  BY <1>1
<1>3. Head(inbox[o]).kind = kind
  BY DEF Receive
<1> QED
  BY <1>2, <1>3 DEF Types, Receive, Event, Frame

LEMMA AttachDaemonTypes ==
  ASSUME TypeOK, NEW s \in Sock, NEW o \in Session, AttachDaemon(s, o)
  PROVE  TypeOK'
<1> USE DEF TypeOK
<1>1. /\ Closing({daemon[o]}) \in [Sock -> SockRecord]
      /\ \A t \in Sock : /\ Closing({daemon[o]})[t].peer = sock[t].peer
                         /\ Closing({daemon[o]})[t].at = sock[t].at
                         /\ Closing({daemon[o]})[t].status # "idle" <=> Unclosed(t)
  BY ClosingKeeps
<1>2. /\ sock' \in [Sock -> SockRecord]
      /\ sock'[s] = [status |-> "open", peer |-> Daemon, at |-> o]
      /\ \A t \in Sock \ {s} : sock'[t] = Closing({daemon[o]})[t]
  <2>1. sock' = Bind(Closing({daemon[o]}), s, Daemon, o)
    BY DEF AttachDaemon
  <2>2. [status |-> "open", peer |-> Daemon, at |-> o] \in SockRecord
    BY DEF SockRecord
  <2> QED
    BY <1>1, <2>1, <2>2 DEF Bind
<1>3. PodOf[o] \in Pod /\ ~Unclosed(s)
  BY PodAssumption DEF AttachDaemon
<1>4. registry' \in [Pod -> Session \cup {None}] /\ lateGc' \subseteq Pod
  BY <1>3 DEF AttachDaemon, Obtain, Types
<1>5. sub' \in [Session -> {"fresh", "subscribing", "subscribed", "closed"}]
  BY DEF AttachDaemon, Obtain, Types
<1>6. daemon' = [daemon EXCEPT ![o] = s] /\ daemon' \in [Session -> Sock \cup {None}]
  BY DEF AttachDaemon, Types
<1>7. attaches' \in 0..MaxAttach
  BY BoundAssumption DEF AttachDaemon, Types
<1>8. UNCHANGED <<clients, leaving, inbox, envelopes, fateVars, frameVars>>
  BY DEF AttachDaemon
<1>9. ASSUME NEW t \in Sock, Unclosed(t)' PROVE sock'[t].at \in Session
  <2>1. CASE t = s
    BY <1>2, <2>1
  <2>2. CASE t # s
    BY <1>1, <1>2, <1>9, <2>2 DEF Types, Unclosed
  <2> QED
    BY <2>1, <2>2
<1>10. Types'
  BY <1>2, <1>4, <1>5, <1>6, <1>7, <1>8, <1>9 DEF Types, SockRecord, fateVars
<1>11. ASSUME NEW x \in Session PROVE Bound(x)'
  <2>1. \A t \in Sock \ {s} : /\ sock'[t].peer = sock[t].peer /\ sock'[t].at = sock[t].at
                              /\ Unclosed(t)' <=> Unclosed(t)
    BY <1>1, <1>2 DEF Unclosed
  <2>2. Unclosed(s)'
    BY <1>2 DEF Unclosed
  <2>3. Bound(x)
    OBVIOUS
  <2>4. daemon[x] \in Sock \cup {None} /\ \A c \in Client : clients[x][c] \in Sock \cup {None}
    BY DEF Types
  <2> QED
    BY <1>2, <1>3, <1>6, <1>8, <2>1, <2>2, <2>3, <2>4 DEF Bound
<1> QED
  BY <1>10, <1>11

LEMMA AttachClientTypes ==
  ASSUME TypeOK, NEW s \in Sock, NEW c \in Client, NEW o \in Session, NEW sent \in BOOLEAN,
         AttachClient(s, c, o, sent)
  PROVE  TypeOK'
<1> USE DEF TypeOK
<1>1. sock \in [Sock -> SockRecord]
  BY DEF Types, SockRecord
<1>2. /\ sock' \in [Sock -> SockRecord]
      /\ sock'[s] = [status |-> "open", peer |-> c, at |-> o]
      /\ \A t \in Sock \ {s} : sock'[t] = sock[t]
  BY <1>1, BindKeeps DEF AttachClient
<1>3. PodOf[o] \in Pod /\ ~Unclosed(s)
  BY PodAssumption DEF AttachClient
<1>4. registry' \in [Pod -> Session \cup {None}] /\ lateGc' \subseteq Pod
  BY <1>3 DEF AttachClient, Obtain, Types
<1>5. sub' \in [Session -> {"fresh", "subscribing", "subscribed", "closed"}]
  BY DEF AttachClient, Obtain, Types
<1>6. /\ clients' = [clients EXCEPT ![o][c] = s]
      /\ clients' \in [Session -> [Client -> Sock \cup {None}]]
  BY DEF AttachClient, Types
<1>7. leaving' \in [Session -> SUBSET Client]
  BY DEF AttachClient, CancelPendingLeave, Types
<1>8. inbox' \in [Session -> Seq(Event \cup Frame)]
  BY EventTypes, PublishTypes DEF AttachClient
<1>9. attaches' \in 0..MaxAttach
  BY BoundAssumption DEF AttachClient, Types
<1>10. overlapped' \subseteq Client /\ deaf' \in [Session -> SUBSET Client]
  BY DEF AttachClient, Types
<1>11. fate' \in [Client -> {"away", "here", "leaving", "miscancelled"}]
  BY DEF AttachClient, Types
<1>12. UNCHANGED <<daemon, envelopes, frameVars>>
  BY DEF AttachClient
<1>13. ASSUME NEW t \in Sock, Unclosed(t)' PROVE sock'[t].at \in Session
  <2>1. CASE t = s
    BY <1>2, <2>1
  <2>2. CASE t # s
    BY <1>2, <1>13, <2>2 DEF Types, Unclosed
  <2> QED
    BY <2>1, <2>2
<1>14. Types'
  BY <1>2, <1>4, <1>5, <1>6, <1>7, <1>8, <1>9, <1>10, <1>11, <1>12, <1>13 DEF Types, SockRecord
<1>15. ASSUME NEW x \in Session PROVE Bound(x)'
  <2>1. Bound(x) /\ Unclosed(s)' /\ \A t \in Sock \ {s} : Unclosed(t)' <=> Unclosed(t)
    BY <1>2 DEF Unclosed
  <2>2. daemon[x] \in Sock \cup {None} /\ \A d \in Client : clients[x][d] \in Sock \cup {None}
    BY DEF Types
  <2>3. \A d \in Client : clients'[x][d] # clients[x][d] => x = o /\ d = c /\ clients'[x][d] = s
    BY <1>6 DEF Types
  <2> QED
    BY <1>2, <1>3, <1>12, <2>1, <2>2, <2>3 DEF Bound
<1> QED
  BY <1>14, <1>15

\* Evicting takes the clients of one object and leaves their sockets to close.
LEMMA EvictTypes ==
  ASSUME TypeOK, NEW o \in Session, EvictClientsLocally(o)
  PROVE  /\ sock' \in [Sock -> SockRecord]
         /\ \A s \in Sock : /\ sock'[s].peer = sock[s].peer /\ sock'[s].at = sock[s].at
                            /\ Unclosed(s)' <=> Unclosed(s)
                            /\ sock'[s].status = "open" => sock[s].status = "open"
         /\ clients' = [clients EXCEPT ![o] = NoClients]
         /\ clients' \in [Session -> [Client -> Sock \cup {None}]]
         /\ \A x \in Session : \A c \in Client : clients'[x][c] \in {clients[x][c], None}
         /\ leaving' = [leaving EXCEPT ![o] = {}]
         /\ leaving' \in [Session -> SUBSET Client]
         /\ fate' \in [Client -> {"away", "here", "leaving", "miscancelled"}]
<1> USE DEF TypeOK
<1>1. sock' = Closing({clients[o][c] : c \in Client})
  BY DEF EvictClientsLocally
<1>2. /\ sock' \in [Sock -> SockRecord]
      /\ \A s \in Sock : /\ sock'[s].peer = sock[s].peer /\ sock'[s].at = sock[s].at
                         /\ Unclosed(s)' <=> Unclosed(s)
                         /\ sock'[s].status = "open" => sock[s].status = "open"
  BY <1>1, ClosingKeeps DEF Unclosed
<1>3. NoClients \in [Client -> Sock \cup {None}]
  BY DEF NoClients
<1>4. /\ clients' = [clients EXCEPT ![o] = NoClients]
      /\ clients' \in [Session -> [Client -> Sock \cup {None}]]
  BY <1>3 DEF EvictClientsLocally, Types
<1>5. leaving' = [leaving EXCEPT ![o] = {}] /\ leaving' \in [Session -> SUBSET Client]
  BY DEF EvictClientsLocally, Types
<1>6. fate' \in [Client -> {"away", "here", "leaving", "miscancelled"}]
  BY DEF EvictClientsLocally, Types
<1>7. ASSUME NEW x \in Session, NEW c \in Client
      PROVE  clients'[x][c] \in {clients[x][c], None}
  <2>1. CASE x = o
    BY <1>4, <2>1 DEF NoClients, Types
  <2>2. CASE x # o
    BY <1>4, <2>2 DEF Types
  <2> QED
    BY <2>1, <2>2
<1> QED
  BY <1>2, <1>4, <1>5, <1>6, <1>7

\* Every object that held its peers by connected sockets of their own still does, when it
\* holds no others and no socket it holds has been closed or bound anew.
LEMMA BoundKept ==
  ASSUME TypeOK, NEW x \in Session,
         daemon'[x] \in {daemon[x], None},
         \A c \in Client : clients'[x][c] \in {clients[x][c], None},
         \A t \in Sock : t = daemon'[x] \/ (\E c \in Client : t = clients'[x][c]) =>
           /\ sock'[t].peer = sock[t].peer /\ sock'[t].at = sock[t].at
           /\ Unclosed(t)' <=> Unclosed(t)
  PROVE  Bound(x)'
<1>1. Bound(x)
  BY DEF TypeOK
<1>2. daemon[x] \in Sock \cup {None} /\ \A d \in Client : clients[x][d] \in Sock \cup {None}
  BY DEF TypeOK, Types
<1> QED
  BY <1>1, <1>2 DEF Bound

\* A socket that is connected has an object.
LEMMA AtTypes ==
  ASSUME Types, NEW s \in Sock, Unclosed(s)
  PROVE  sock[s].at \in Session /\ PodOf[sock[s].at] \in Pod
BY PodAssumption DEF Types

LEMMA SubscribedTypes ==
  ASSUME TypeOK, NEW o \in Session, Subscribed(o)
  PROVE  TypeOK'
<1>1. Types'
  BY DEF Subscribed, TypeOK, Types, peerVars, boundVars, fateVars, Unclosed
<1>2. ASSUME NEW x \in Session PROVE Bound(x)'
  BY BoundKept DEF Subscribed, peerVars, Unclosed
<1> QED
  BY <1>1, <1>2 DEF TypeOK

LEMMA ShutdownTypes ==
  ASSUME TypeOK, NEW s \in Sock, NEW sent \in BOOLEAN, Shutdown(s, sent)
  PROVE  TypeOK'
<1> DEFINE o == sock[s].at
<1>1. o \in Session /\ EvictClientsLocally(o) /\ Publish(o, Evict, sent)
  BY AtTypes DEF Shutdown, DaemonSpeaks, TypeOK
<1>2. inbox' \in [Session -> Seq(Event \cup Frame)]
  BY <1>1, EventTypes, PublishTypes DEF TypeOK
<1>3. envelopes' \in 0..MaxEnvelope
  BY BoundAssumption DEF Shutdown, TypeOK, Types
<1>4. UNCHANGED <<registryVars, daemon, attaches, overlapped, deaf, frameVars>>
  BY DEF Shutdown
<1> HIDE DEF o
<1>5. \A t \in Sock : Unclosed(t)' => sock'[t].at \in Session
  BY <1>1, EvictTypes DEF TypeOK, Types
<1>6. Types'
  BY <1>1, <1>2, <1>3, <1>4, <1>5, EvictTypes DEF TypeOK, Types, registryVars, SockRecord
<1>7. ASSUME NEW x \in Session PROVE Bound(x)'
  <2>1. \A c \in Client : clients'[x][c] \in {clients[x][c], None}
    BY <1>1, EvictTypes
  <2>2. \A t : (t = daemon'[x] /\ t # None) \/ (\E c \in Client : t = clients'[x][c] /\ t # None) => t \in Sock
    BY <1>6 DEF Types
  <2> QED
    BY <1>1, <1>4, <2>1, EvictTypes, BoundKept
<1> QED
  BY <1>6, <1>7 DEF TypeOK

LEMMA RevokeTypes ==
  ASSUME TypeOK, NEW s \in Sock, NEW c \in Client, Revoke(s, c)
  PROVE  TypeOK'
<1> DEFINE o == sock[s].at
<1>1. /\ o \in Session
      /\ sock' = Closing({clients[o][c]})
      /\ clients' = [clients EXCEPT ![o][c] = None]
      /\ fate' = [fate EXCEPT ![c] = "away"]
      /\ envelopes' = envelopes + 1 /\ envelopes < MaxEnvelope
      /\ UNCHANGED <<registryVars, daemon, leaving, inbox, attaches, overlapped, deaf, frameVars>>
  BY AtTypes DEF Revoke, DaemonSpeaks, TypeOK
<1> HIDE DEF o
<1>2. /\ sock' \in [Sock -> SockRecord]
      /\ \A t \in Sock : /\ sock'[t].peer = sock[t].peer /\ sock'[t].at = sock[t].at
                         /\ Unclosed(t)' <=> Unclosed(t)
  BY <1>1, ClosingKeeps DEF TypeOK, Unclosed
<1>3. envelopes' \in 0..MaxEnvelope
  BY <1>1, BoundAssumption DEF TypeOK, Types
<1>4. \A t \in Sock : Unclosed(t)' => sock'[t].at \in Session
  BY <1>2 DEF TypeOK, Types
<1>5. Types'
  BY <1>1, <1>2, <1>3, <1>4 DEF TypeOK, Types, registryVars, SockRecord
<1>6. ASSUME NEW x \in Session PROVE Bound(x)'
  <2>1. \A d \in Client : clients'[x][d] \in {clients[x][d], None}
    BY <1>1 DEF TypeOK, Types
  <2> QED
    BY <1>1, <1>2, <2>1, BoundKept
<1> QED
  BY <1>5, <1>6 DEF TypeOK

LEMMA SendFrameTypes ==
  ASSUME TypeOK, NEW s \in Sock, NEW to \in Client \cup {Broadcast}, NEW sent \in BOOLEAN,
         SendFrame(s, to, sent)
  PROVE  TypeOK'
<1>1. sock[s].at \in Session
  BY AtTypes DEF SendFrame, DaemonSpeaks, TypeOK
<1>2. [kind |-> "frame", to |-> to] \in Event \cup Frame
  BY DEF Frame
<1>3. inbox' \in [Session -> Seq(Event \cup Frame)]
  <2>1. CASE Publish(sock[s].at, [kind |-> "frame", to |-> to], sent)
    BY <1>1, <1>2, <2>1, PublishTypes DEF TypeOK
  <2>2. CASE UNCHANGED inbox
    BY <2>2 DEF TypeOK, Types
  <2> QED
    BY <2>1, <2>2 DEF SendFrame
<1>4. \A x \in Session : Addressed(x, to) \subseteq Sock
  BY DEF TypeOK, Types, Addressed
<1>5. due' \subseteq Sock
  BY <1>4 DEF SendFrame, MeantFor
<1>10. unsent' \in BOOLEAN
  BY Zenon DEF SendFrame
<1>6. envelopes' \in 0..MaxEnvelope
  BY BoundAssumption DEF SendFrame, TypeOK, Types
<1>7. UNCHANGED <<registryVars, peerVars, sock, attaches, fateVars>>
  BY DEF SendFrame
<1>8. Types'
  BY <1>3, <1>5, <1>6, <1>7, <1>10 DEF TypeOK, Types, registryVars, peerVars, fateVars, Unclosed
<1>9. ASSUME NEW x \in Session PROVE Bound(x)'
  BY <1>7, BoundKept DEF peerVars, Unclosed
<1> QED
  BY <1>8, <1>9 DEF TypeOK

LEMMA CloseDaemonTypes ==
  ASSUME TypeOK, NEW s \in Sock, CloseDaemon(s)
  PROVE  TypeOK'
<1> DEFINE o == sock[s].at
<1>1. /\ o \in Session /\ Unclosed(s) /\ sock[s].peer = Daemon
      /\ daemon' = IF daemon[o] = s THEN [daemon EXCEPT ![o] = None] ELSE daemon
      /\ Closed(s) /\ MaybeGcSession(o)
      /\ UNCHANGED <<clients, leaving, inbox, boundVars, fateVars>>
  BY AtTypes DEF CloseDaemon, DaemonSpeaks, TypeOK
<1>2. /\ sock' \in [Sock -> SockRecord]
      /\ sock'[s].status = "idle"
      /\ \A t \in Sock \ {s} : sock'[t] = sock[t]
      /\ due' \subseteq Sock /\ unsent' = unsent
  BY <1>1, ClosedKeeps DEF TypeOK
<1>3. \A t \in Sock : Unclosed(t)' => sock'[t].at \in Session
  BY <1>2 DEF TypeOK, Types, Unclosed
<1>4. daemon' \in [Session -> Sock \cup {None}]
  BY <1>1 DEF TypeOK, Types
<1>5. /\ registry' \in [Pod -> Session \cup {None}]
      /\ sub' \in [Session -> {"fresh", "subscribing", "subscribed", "closed"}]
      /\ lateGc' \subseteq Pod
  BY <1>1, GcTypes DEF TypeOK
<1>6. Types'
  BY <1>1, <1>2, <1>3, <1>4, <1>5 DEF TypeOK, Types, boundVars, fateVars, SockRecord
<1>7. ASSUME NEW x \in Session PROVE Bound(x)'
  <2>1. Bound(x)
    BY DEF TypeOK
  <2>2. daemon'[x] \in {daemon[x], None} /\ daemon'[x] # s
    BY <1>1, <2>1, NoneAssumption DEF TypeOK, Types, Bound
  <2>3. \A c \in Client : clients'[x][c] = clients[x][c] /\ clients[x][c] # s
    BY <1>1, <2>1, PeerAssumption, NoneAssumption DEF Bound
  <2> QED
    BY <1>2, <2>2, <2>3, BoundKept DEF Unclosed
<1> QED
  BY <1>6, <1>7 DEF TypeOK

LEMMA CloseClientTypes ==
  ASSUME TypeOK, NEW s \in Sock, NEW c \in Client, CloseClient(s, c)
  PROVE  TypeOK'
<1> DEFINE o == sock[s].at
<1>1. /\ o \in Session /\ Unclosed(s) /\ sock[s].peer = c
      /\ clients' = [clients EXCEPT ![o][c] = None]
      /\ leaving' = [leaving EXCEPT ![o] = @ \cup {c}]
      /\ deaf' = [deaf EXCEPT ![o] = @ \ {c}]
      /\ Closed(s) /\ MaybeGcSession(o)
      /\ UNCHANGED <<daemon, inbox, boundVars, overlapped>>
  BY AtTypes DEF CloseClient, Detached, SchedulePeerLeft, TypeOK
<1>2. /\ sock' \in [Sock -> SockRecord]
      /\ sock'[s].status = "idle"
      /\ \A t \in Sock \ {s} : sock'[t] = sock[t]
      /\ due' \subseteq Sock /\ unsent' = unsent
  BY <1>1, ClosedKeeps DEF TypeOK
<1>3. \A t \in Sock : Unclosed(t)' => sock'[t].at \in Session
  BY <1>2 DEF TypeOK, Types, Unclosed
<1>4. fate' \in [Client -> {"away", "here", "leaving", "miscancelled"}]
  BY DEF CloseClient, TypeOK, Types
<1>5. /\ registry' \in [Pod -> Session \cup {None}]
      /\ sub' \in [Session -> {"fresh", "subscribing", "subscribed", "closed"}]
      /\ lateGc' \subseteq Pod
  BY <1>1, GcTypes DEF TypeOK
<1>6. /\ clients' \in [Session -> [Client -> Sock \cup {None}]]
      /\ leaving' \in [Session -> SUBSET Client] /\ deaf' \in [Session -> SUBSET Client]
  BY <1>1 DEF TypeOK, Types
<1>7. Types'
  BY <1>1, <1>2, <1>3, <1>4, <1>5, <1>6 DEF TypeOK, Types, boundVars, SockRecord
<1>8. ASSUME NEW x \in Session PROVE Bound(x)'
  <2>1. Bound(x)
    BY DEF TypeOK
  <2>2. daemon'[x] = daemon[x] /\ daemon[x] # s
    BY <1>1, <2>1, PeerAssumption, NoneAssumption DEF Bound
  <2>3. ASSUME NEW d \in Client PROVE clients'[x][d] \in {clients[x][d], None} /\ clients'[x][d] # s
    <3>1. clients[x][d] = s => x = o /\ d = c
      BY <1>1, <2>1, NoneAssumption DEF Bound
    <3>2. clients'[x][d] = IF x = o /\ d = c THEN None ELSE clients[x][d]
      BY <1>1 DEF TypeOK, Types
    <3> QED
      BY <3>1, <3>2, NoneAssumption
  <2> QED
    BY <1>2, <2>2, <2>3, BoundKept DEF Unclosed
<1> QED
  BY <1>7, <1>8 DEF TypeOK

LEMMA FireTypes ==
  ASSUME TypeOK, NEW o \in Session, NEW c \in Client, NEW sent \in BOOLEAN, Fire(o, c, sent)
  PROVE  TypeOK'
<1>1. /\ leaving' = [leaving EXCEPT ![o] = @ \ {c}]
      /\ Publish(o, PeerLeft(c), sent) /\ MaybeGcSession(o)
      /\ UNCHANGED <<daemon, clients, sock, boundVars, overlapped, deaf, frameVars>>
  BY DEF Fire
<1>2. inbox' \in [Session -> Seq(Event \cup Frame)]
  BY <1>1, EventTypes, PublishTypes DEF TypeOK
<1>3. fate' \in [Client -> {"away", "here", "leaving", "miscancelled"}]
  BY DEF Fire, TypeOK, Types
<1>4. /\ registry' \in [Pod -> Session \cup {None}]
      /\ sub' \in [Session -> {"fresh", "subscribing", "subscribed", "closed"}]
      /\ lateGc' \subseteq Pod
  BY <1>1, GcTypes DEF TypeOK
<1>5. Types'
  BY <1>1, <1>2, <1>3, <1>4 DEF TypeOK, Types, boundVars, Unclosed
<1>6. ASSUME NEW x \in Session PROVE Bound(x)'
  BY <1>1, BoundKept DEF Unclosed
<1> QED
  BY <1>5, <1>6 DEF TypeOK

LEMMA ReceiveEvictTypes ==
  ASSUME TypeOK, NEW o \in Session, ReceiveEvict(o)
  PROVE  TypeOK'
<1>1. /\ Receive(o, "evict_clients") /\ EvictClientsLocally(o) /\ MaybeGcSession(o)
      /\ UNCHANGED <<daemon, boundVars, overlapped, deaf, frameVars>>
  BY DEF ReceiveEvict
<1>2. inbox' \in [Session -> Seq(Event \cup Frame)]
  BY <1>1, ReceiveTypes DEF TypeOK
<1>3. /\ registry' \in [Pod -> Session \cup {None}]
      /\ sub' \in [Session -> {"fresh", "subscribing", "subscribed", "closed"}]
      /\ lateGc' \subseteq Pod
  BY <1>1, GcTypes DEF TypeOK
<1>4. \A t \in Sock : Unclosed(t)' => sock'[t].at \in Session
  BY <1>1, EvictTypes DEF TypeOK, Types
<1>5. Types'
  BY <1>1, <1>2, <1>3, <1>4, EvictTypes DEF TypeOK, Types, boundVars, SockRecord
<1>6. ASSUME NEW x \in Session PROVE Bound(x)'
  <2>1. \A c \in Client : clients'[x][c] \in {clients[x][c], None}
    BY <1>1, EvictTypes
  <2>2. \A t : (t = daemon'[x] /\ t # None) \/ (\E c \in Client : t = clients'[x][c] /\ t # None) => t \in Sock
    BY <1>5 DEF Types
  <2> QED
    BY <1>1, <2>1, EvictTypes, BoundKept
<1> QED
  BY <1>5, <1>6 DEF TypeOK

LEMMA ReceivePeerLeftTypes ==
  ASSUME TypeOK, NEW o \in Session, ReceivePeerLeft(o)
  PROVE  TypeOK'
<1>1. /\ Receive(o, "peer_left")
      /\ UNCHANGED <<registryVars, peerVars, sock, boundVars, fateVars, frameVars>>
  BY DEF ReceivePeerLeft
<1>2. inbox' \in [Session -> Seq(Event \cup Frame)]
  BY <1>1, ReceiveTypes DEF TypeOK
<1>3. Types'
  BY <1>1, <1>2 DEF TypeOK, Types, registryVars, peerVars, boundVars, fateVars, Unclosed
<1>4. ASSUME NEW x \in Session PROVE Bound(x)'
  BY <1>1, BoundKept DEF peerVars, Unclosed
<1> QED
  BY <1>3, <1>4 DEF TypeOK

LEMMA ReceiveRejoinedTypes ==
  ASSUME TypeOK, NEW o \in Session, ReceiveRejoined(o)
  PROVE  TypeOK'
<1> DEFINE c == Head(inbox[o]).who
<1>1. /\ Receive(o, "peer_rejoined") /\ MaybeGcSession(o)
      /\ leaving' = [leaving EXCEPT ![o] = @ \ {c}]
      /\ UNCHANGED <<daemon, clients, sock, boundVars, overlapped, deaf, frameVars>>
  BY DEF ReceiveRejoined, CancelPendingLeave
<1>2. inbox' \in [Session -> Seq(Event \cup Frame)] /\ c \in Client
  BY <1>1, ReceiveTypes DEF TypeOK
<1>3. fate' \in [Client -> {"away", "here", "leaving", "miscancelled"}]
  BY <1>2 DEF ReceiveRejoined, TypeOK, Types
<1> HIDE DEF c
<1>4. /\ registry' \in [Pod -> Session \cup {None}]
      /\ sub' \in [Session -> {"fresh", "subscribing", "subscribed", "closed"}]
      /\ lateGc' \subseteq Pod
  BY <1>1, GcTypes DEF TypeOK
<1>5. Types'
  BY <1>1, <1>2, <1>3, <1>4 DEF TypeOK, Types, boundVars, Unclosed
<1>6. ASSUME NEW x \in Session PROVE Bound(x)'
  BY <1>1, BoundKept DEF Unclosed
<1> QED
  BY <1>5, <1>6 DEF TypeOK

LEMMA ReceiveFrameTypes ==
  ASSUME TypeOK, NEW o \in Session, ReceiveFrame(o)
  PROVE  TypeOK'
<1>1. /\ Receive(o, "frame") /\ due' \subseteq due
      /\ UNCHANGED <<registryVars, peerVars, sock, boundVars, fateVars, unsent>>
  BY DEF ReceiveFrame
<1>2. inbox' \in [Session -> Seq(Event \cup Frame)]
  BY <1>1, ReceiveTypes DEF TypeOK
<1>3. Types'
  BY <1>1, <1>2 DEF TypeOK, Types, registryVars, peerVars, boundVars, fateVars, Unclosed
<1>4. ASSUME NEW x \in Session PROVE Bound(x)'
  BY <1>1, BoundKept DEF peerVars, Unclosed
<1> QED
  BY <1>3, <1>4 DEF TypeOK

LEMMA QuitTypes ==
  ASSUME TypeOK, NEW o \in Session, Quit(o)
  PROVE  TypeOK'
<1>1. Types'
  BY DEF Quit, TypeOK, Types, registryVars, peerVars, boundVars, fateVars, Unclosed
<1>2. ASSUME NEW x \in Session PROVE Bound(x)'
  BY BoundKept DEF Quit, peerVars, Unclosed
<1> QED
  BY <1>1, <1>2 DEF TypeOK

LEMMA NextTypes ==
  ASSUME TypeOK, [Next]_vars
  PROVE  TypeOK'
<1>1. ASSUME NEW s \in Sock, SocketStep(s) PROVE TypeOK'
  BY <1>1, AttachDaemonTypes, AttachClientTypes, ShutdownTypes, RevokeTypes, SendFrameTypes,
     CloseDaemonTypes, CloseClientTypes DEF SocketStep
<1>2. ASSUME NEW o \in Session, SessionStep(o) PROVE TypeOK'
  BY <1>2, SubscribedTypes, FireTypes, ReceiveEvictTypes, ReceivePeerLeftTypes,
     ReceiveRejoinedTypes, ReceiveFrameTypes, QuitTypes DEF SessionStep
<1>3. CASE UNCHANGED vars
  <2>1. Types'
    BY <1>3 DEF TypeOK, Types, vars, registryVars, peerVars, boundVars, fateVars, Unclosed
  <2>2. ASSUME NEW x \in Session PROVE Bound(x)'
    BY <1>3, BoundKept DEF vars, peerVars, Unclosed
  <2> QED
    BY <2>1, <2>2 DEF TypeOK
<1> QED
  BY <1>1, <1>2, <1>3 DEF Next

\* The relay's state has its types, and no session object holds a socket that has closed,
\* that another peer uses or that is bound to another object (attach, _detach).
THEOREM RelayTypes == Spec => []TypeOK
<1> QED
  BY InitTypes, NextTypes, PTL DEF Spec

-----------------------------------------------------------------------------
(* The session objects: nothing is stranded, and an instance serves one     *)
(* object until a late collection                                           *)

Attached(o) == daemon[o] # None \/ clients[o] # NoClients

LEMMA RegistryInit == Init => RegistryInv /\ NoStrandedSession
BY DEF Init, RegistryInv, NoStrandedSession, Live, NoClients, Unclosed, Idle

-----------------------------------------------------------------------------
(* The registry *)

\* A step that leaves the registry alone, attaches nobody and arms no timer.
LEMMA RegistryKept ==
  ASSUME TypeOK, RegistryInv, UNCHANGED registryVars,
         \A x \in Session : Attached(x)' => Attached(x),
         \A x \in Session : leaving'[x] \subseteq leaving[x],
         \A s \in Sock : Unclosed(s)' => Unclosed(s) /\ sock'[s].at = sock[s].at
  PROVE  RegistryInv'
<1>1. registry' = registry /\ sub' = sub /\ lateGc' = lateGc
  BY DEF registryVars
<1>2. \A x \in Session : Attached(x)' => Live(x)'
  BY <1>1 DEF RegistryInv, Attached, Live
<1> QED
  BY <1>1, <1>2 DEF RegistryInv, Attached, Live

\* A step that ends with _maybeGcSession on o, attaches nobody and arms timers on o only.
LEMMA RegistryCollected ==
  ASSUME TypeOK, RegistryInv, NEW o \in Session, MaybeGcSession(o),
         sub[o] = "fresh" => leaving'[o] = {},
         \A x \in Session : Attached(x)' => Attached(x),
         \A x \in Session \ {o} : leaving'[x] = leaving[x],
         \A s \in Sock : Unclosed(s)' => Unclosed(s) /\ sock'[s].at = sock[s].at
  PROVE  RegistryInv'
<1>1. CASE Unused(o)
  <2>1. /\ sub' = [sub EXCEPT ![o] = "closed"]
        /\ registry' = [registry EXCEPT ![PodOf[o]] = None]
        /\ lateGc' = IF registry[PodOf[o]] = o THEN lateGc ELSE lateGc \cup {PodOf[o]}
    BY <1>1 DEF MaybeGcSession
  <2>2. ~Attached(o)'
    BY <1>1 DEF Unused, Attached, NoClients
  <2>3. /\ sub'[o] = "closed" /\ \A x \in Session \ {o} : sub'[x] = sub[x]
        /\ registry'[PodOf[o]] = None
        /\ \A p \in Pod \ {PodOf[o]} : registry'[p] = registry[p]
    BY <2>1, PodAssumption DEF TypeOK, Types
  <2>4. ASSUME NEW p \in Pod, registry'[p] # None
        PROVE  PodOf[registry'[p]] = p /\ Live(registry[p])'
    <3>1. p # PodOf[o] /\ registry'[p] = registry[p]
      BY <2>3, <2>4
    <3>2. registry[p] \in Session /\ PodOf[registry[p]] = p /\ Live(registry[p])
      BY <2>4, <3>1 DEF RegistryInv, TypeOK, Types
    <3>3. registry[p] # o
      BY <3>1, <3>2
    <3>4. sub'[registry[p]] = sub[registry[p]]
      BY <2>3, <3>2, <3>3
    <3>5. sub'[registry'[p]] = sub[registry[p]]
      BY <3>1, <3>4
    <3> QED
      BY <3>1, <3>2, <3>5 DEF Live
  <2>5. ASSUME NEW x \in Session, Attached(x)' PROVE Live(x)'
    <3>1. x # o /\ Attached(x)
      BY <2>2, <2>5
    <3> QED
      BY <2>3, <3>1 DEF RegistryInv, Attached, Live
  <2>6. ASSUME NEW x \in Session, sub'[x] = "fresh" PROVE leaving'[x] = {}
    BY <2>3, <2>6 DEF RegistryInv
  <2>7. ASSUME NEW s \in Sock, Unclosed(s)' PROVE sub'[sock'[s].at] # "fresh"
    <3>1. Unclosed(s) /\ sock'[s].at = sock[s].at /\ sock[s].at \in Session
      BY <2>7 DEF TypeOK, Types
    <3>2. sub[sock[s].at] # "fresh"
      BY <3>1 DEF RegistryInv
    <3> QED
      BY <2>3, <3>1, <3>2
  <2>8. ASSUME NEW x \in Session, Live(x)', PodOf[x] \notin lateGc'
        PROVE  registry'[PodOf[x]] = x
    <3>1. x # o /\ Live(x) /\ PodOf[x] \notin lateGc
      BY <2>1, <2>3, <2>8 DEF Live
    <3>2. registry[PodOf[x]] = x
      BY <3>1 DEF RegistryInv
    <3>3. PodOf[x] # PodOf[o]
      BY <2>1, <2>8, <3>1, <3>2
    <3> QED
      BY <2>3, <3>2, <3>3, PodAssumption
  <2> QED
    BY <2>4, <2>5, <2>6, <2>7, <2>8 DEF RegistryInv, Attached
<1>2. CASE ~Unused(o)
  <2>1. registry' = registry /\ sub' = sub /\ lateGc' = lateGc
    BY <1>2 DEF MaybeGcSession, registryVars
  <2>2. ASSUME NEW x \in Session PROVE (Attached(x)' => Live(x)') /\ (sub'[x] = "fresh" => leaving'[x] = {})
    BY <2>1 DEF RegistryInv, Attached, Live
  <2>3. \A s \in Sock : Unclosed(s)' => sub'[sock'[s].at] # "fresh"
    BY <2>1 DEF RegistryInv
  <2> QED
    BY <2>1, <2>2, <2>3 DEF RegistryInv, Attached, Live
<1> QED
  BY <1>1, <1>2

\* An attach to the object of the key: it is registered, and live from then on.
LEMMA RegistryObtained ==
  ASSUME TypeOK, RegistryInv, NEW o \in Session, NEW s \in Sock,
         o \in SessionFor(PodOf[o]), Obtain(o),
         \A x \in Session \ {o} : Attached(x)' => Attached(x),
         \A x \in Session : leaving'[x] \subseteq leaving[x],
         sock'[s].at = o,
         \A t \in Sock \ {s} : Unclosed(t)' => Unclosed(t) /\ sock'[t].at = sock[t].at
  PROVE  RegistryInv'
<1>1. PodOf[o] \in Pod
  BY PodAssumption
<1>2. /\ registry' = [registry EXCEPT ![PodOf[o]] = o]
      /\ sub' = IF sub[o] = "fresh" THEN [sub EXCEPT ![o] = "subscribing"] ELSE sub
      /\ lateGc' = lateGc
  BY DEF Obtain
<1>3. /\ registry'[PodOf[o]] = o
      /\ \A p \in Pod \ {PodOf[o]} : registry'[p] = registry[p]
      /\ \A x \in Session \ {o} : sub'[x] = sub[x]
  BY <1>1, <1>2 DEF TypeOK, Types
<1>4. registry[PodOf[o]] = o \/ (registry[PodOf[o]] = None /\ sub[o] = "fresh")
  BY DEF SessionFor
<1>5. Live(o)'
  <2>1. CASE sub[o] = "fresh"
    BY <1>2, <2>1 DEF TypeOK, Types, Live
  <2>2. CASE sub[o] # "fresh"
    <3>1. Live(o)
      BY <1>1, <1>4, <2>2, NoneAssumption DEF RegistryInv
    <3> QED
      BY <1>2, <2>2, <3>1 DEF Live
  <2> QED
    BY <2>1, <2>2
<1>6. ASSUME NEW p \in Pod, registry'[p] # None
      PROVE  PodOf[registry'[p]] = p /\ Live(registry[p])'
  <2>1. CASE p = PodOf[o]
    BY <1>3, <1>5, <2>1 DEF Live
  <2>2. CASE p # PodOf[o]
    <3>1. /\ registry'[p] = registry[p] /\ registry[p] \in Session
          /\ PodOf[registry[p]] = p /\ Live(registry[p])
      BY <1>3, <1>6, <2>2 DEF RegistryInv, TypeOK, Types
    <3>2. sub'[registry[p]] = sub[registry[p]]
      BY <1>3, <2>2, <3>1
    <3>3. sub'[registry'[p]] = sub[registry[p]]
      BY <3>1, <3>2
    <3> QED
      BY <3>1, <3>3 DEF Live
  <2> QED
    BY <2>1, <2>2
<1>7. ASSUME NEW x \in Session, Attached(x)' PROVE Live(x)'
  <2>1. CASE x = o
    BY <1>5, <2>1
  <2>2. CASE x # o
    BY <1>3, <1>7, <2>2 DEF RegistryInv, Attached, Live
  <2> QED
    BY <2>1, <2>2
<1>8. ASSUME NEW x \in Session, sub'[x] = "fresh" PROVE leaving'[x] = {}
  BY <1>3, <1>5, <1>8 DEF RegistryInv, Live
<1>9. ASSUME NEW t \in Sock, Unclosed(t)' PROVE sub'[sock'[t].at] # "fresh"
  <2>1. CASE t = s
    BY <1>5, <2>1 DEF Live
  <2>2. CASE t # s
    <3>1. sock'[t].at = sock[t].at /\ sock[t].at \in Session /\ sub[sock[t].at] # "fresh"
      BY <1>9, <2>2 DEF RegistryInv, TypeOK, Types
    <3> QED
      BY <1>3, <1>5, <3>1 DEF Live
  <2> QED
    BY <2>1, <2>2
<1>10. ASSUME NEW x \in Session, Live(x)', PodOf[x] \notin lateGc'
       PROVE  registry'[PodOf[x]] = x
  <2>1. CASE x = o
    BY <1>3, <2>1
  <2>2. CASE x # o
    <3>1. registry[PodOf[x]] = x
      BY <1>2, <1>3, <1>10, <2>2 DEF RegistryInv, Live
    <3>2. PodOf[x] # PodOf[o]
      BY <1>4, <2>2, <3>1, NoneAssumption
    <3> QED
      BY <1>3, <3>1, <3>2, PodAssumption
  <2> QED
    BY <2>1, <2>2
<1> QED
  BY <1>6, <1>7, <1>8, <1>9, <1>10 DEF RegistryInv, Attached

-----------------------------------------------------------------------------
(* Nothing is stranded *)

\* A step on object o leaves the other objects and their sockets as they are.
LEMMA OnlyStranded ==
  ASSUME TypeOK, NoStrandedSession, NEW o \in Session,
         \A x \in Session \ {o} :
           /\ Live(x)' => Live(x)
           /\ daemon'[x] = daemon[x] /\ clients'[x] = clients[x] /\ leaving'[x] = leaving[x],
         \A t \in Sock : Unclosed(t) /\ sock[t].at # o => Unclosed(t)' /\ sock'[t].at = sock[t].at,
         Live(o)' => Referenced(o)' \/ \E t \in Sock : Unclosed(t)' /\ sock'[t].at = o
  PROVE  NoStrandedSession'
<1> SUFFICES ASSUME NEW x \in Session, Live(x)'
             PROVE  Referenced(x)' \/ \E t \in Sock : Unclosed(t)' /\ sock'[t].at = x
  BY DEF NoStrandedSession, Live
<1>1. CASE x = o
  BY <1>1
<1>2. CASE x # o
  <2>1. Referenced(x) \/ \E t \in Sock : Unclosed(t) /\ sock[t].at = x
    BY <1>2 DEF NoStrandedSession, Live
  <2>2. CASE Referenced(x)
    BY <1>2, <2>2 DEF Referenced
  <2>3. CASE \E t \in Sock : Unclosed(t) /\ sock[t].at = x
    BY <1>2, <2>3
  <2> QED
    BY <2>1, <2>2, <2>3
<1> QED
  BY <1>1, <1>2

\* A collection closes o or finds it referenced, and touches no other subscription.
LEMMA GcStranded ==
  ASSUME TypeOK, NEW o \in Session, MaybeGcSession(o)
  PROVE  /\ Live(o)' => Referenced(o)'
         /\ \A x \in Session \ {o} : Live(x)' => Live(x)
<1>1. CASE Unused(o)
  <2>1. sub' = [sub EXCEPT ![o] = "closed"]
    BY <1>1 DEF MaybeGcSession
  <2> QED
    BY <2>1 DEF TypeOK, Types, Live
<1>2. CASE ~Unused(o)
  <2>1. sub' = sub
    BY <1>2 DEF MaybeGcSession, registryVars
  <2> QED
    BY <1>2, <2>1 DEF Live, Unused, Referenced
<1> QED
  BY <1>1, <1>2

-----------------------------------------------------------------------------
(* The steps *)

Good == RegistryInv /\ NoStrandedSession

LEMMA AttachDaemonGood ==
  ASSUME TypeOK, Good, NEW s \in Sock, NEW o \in Session, AttachDaemon(s, o)
  PROVE  Good'
<1>1. /\ ~Unclosed(s) /\ o \in SessionFor(PodOf[o]) /\ Obtain(o)
      /\ daemon' = [daemon EXCEPT ![o] = s]
      /\ sock' = Bind(Closing({daemon[o]}), s, Daemon, o)
      /\ UNCHANGED <<clients, leaving>>
  BY DEF AttachDaemon
<1>2. /\ sock'[s] = [status |-> "open", peer |-> Daemon, at |-> o]
      /\ \A t \in Sock \ {s} : sock'[t].at = sock[t].at /\ (Unclosed(t)' <=> Unclosed(t))
  BY <1>1, ClosingKeeps DEF Bind, TypeOK, Unclosed, SockRecord
<1>3. \A x \in Session \ {o} : daemon'[x] = daemon[x]
  BY <1>1 DEF TypeOK, Types
<1>4. RegistryInv'
  BY <1>1, <1>2, <1>3, RegistryObtained DEF Good, Attached
<1>5. Unclosed(s)' /\ sock'[s].at = o
  BY <1>2 DEF Unclosed
<1>6. \A x \in Session \ {o} : Live(x)' => Live(x)
  BY <1>1 DEF Obtain, TypeOK, Types, Live
<1>7. NoStrandedSession'
  BY <1>1, <1>2, <1>3, <1>5, <1>6, OnlyStranded DEF Good
<1> QED
  BY <1>4, <1>7 DEF Good

LEMMA AttachClientGood ==
  ASSUME TypeOK, Good, NEW s \in Sock, NEW c \in Client, NEW o \in Session, NEW sent \in BOOLEAN,
         AttachClient(s, c, o, sent)
  PROVE  Good'
<1>1. /\ ~Unclosed(s) /\ o \in SessionFor(PodOf[o]) /\ Obtain(o)
      /\ clients' = [clients EXCEPT ![o][c] = s]
      /\ leaving' = [leaving EXCEPT ![o] = @ \ {c}]
      /\ sock' = Bind(sock, s, c, o)
      /\ UNCHANGED daemon
  BY DEF AttachClient, CancelPendingLeave
<1>2. /\ sock'[s] = [status |-> "open", peer |-> c, at |-> o]
      /\ \A t \in Sock \ {s} : sock'[t] = sock[t]
  BY <1>1 DEF Bind, TypeOK, Types
<1>3. \A x \in Session \ {o} : clients'[x] = clients[x] /\ leaving'[x] = leaving[x]
  BY <1>1 DEF TypeOK, Types
<1>4. \A x \in Session : leaving'[x] \subseteq leaving[x]
  BY <1>1 DEF TypeOK, Types
<1>5. \A t \in Sock \ {s} : Unclosed(t)' => Unclosed(t) /\ sock'[t].at = sock[t].at
  BY <1>2 DEF Unclosed
<1>6. RegistryInv'
  BY <1>1, <1>2, <1>3, <1>4, <1>5, RegistryObtained DEF Good, Attached
<1>7. Unclosed(s)' /\ sock'[s].at = o
  BY <1>2 DEF Unclosed
<1>8. \A x \in Session \ {o} : Live(x)' => Live(x)
  BY <1>1 DEF Obtain, TypeOK, Types, Live
<1>9. \A t \in Sock : Unclosed(t) /\ sock[t].at # o => Unclosed(t)' /\ sock'[t].at = sock[t].at
  BY <1>1, <1>2 DEF Unclosed
<1>10. NoStrandedSession'
  BY <1>1, <1>3, <1>7, <1>8, <1>9, OnlyStranded DEF Good
<1> QED
  BY <1>6, <1>10 DEF Good

\* Steps that touch neither the registry nor the objects and close no socket.
LEMMA QuietGood ==
  ASSUME TypeOK, Good, UNCHANGED <<registryVars, peerVars>>,
         \A t \in Sock : sock'[t].at = sock[t].at /\ (Unclosed(t)' <=> Unclosed(t))
  PROVE  Good'
<1>1. RegistryInv'
  BY RegistryKept DEF Good, Attached, peerVars
<1>2. NoStrandedSession'
  BY DEF Good, NoStrandedSession, Referenced, registryVars, peerVars
<1> QED
  BY <1>1, <1>2 DEF Good

LEMMA SubscribedGood ==
  ASSUME TypeOK, Good, NEW o \in Session, Subscribed(o)
  PROVE  Good'
<1>1. /\ sub[o] = "subscribing" /\ sub'[o] = "subscribed"
      /\ \A x \in Session \ {o} : sub'[x] = sub[x]
      /\ UNCHANGED <<registry, lateGc, daemon, clients, leaving, sock>>
  BY DEF Subscribed, TypeOK, Types, peerVars
<1>2. \A x \in Session : (Live(x)' <=> Live(x)) /\ (sub'[x] = "fresh" <=> sub[x] = "fresh")
  BY <1>1 DEF Live
<1>3. ASSUME NEW p \in Pod, registry'[p] # None PROVE PodOf[registry'[p]] = p /\ Live(registry[p])'
  BY <1>1, <1>2, <1>3 DEF Good, RegistryInv, TypeOK, Types, Live
<1>4. ASSUME NEW t \in Sock, Unclosed(t)' PROVE sub'[sock'[t].at] # "fresh"
  <2>1. sock'[t].at = sock[t].at /\ Unclosed(t)
    BY <1>1, <1>4 DEF Unclosed
  <2>2. sub[sock[t].at] # "fresh" /\ sock[t].at \in Session
    BY <2>1 DEF Good, RegistryInv, TypeOK, Types
  <2> QED
    BY <1>2, <2>1, <2>2
<1>5. RegistryInv'
  BY <1>1, <1>2, <1>3, <1>4 DEF Good, RegistryInv
<1>6. NoStrandedSession'
  BY <1>1, <1>2 DEF Good, NoStrandedSession, Live, Referenced, Unclosed
<1> QED
  BY <1>5, <1>6 DEF Good

LEMMA ShutdownGood ==
  ASSUME TypeOK, Good, NEW s \in Sock, NEW sent \in BOOLEAN, Shutdown(s, sent)
  PROVE  Good'
<1> DEFINE o == sock[s].at
<1>1. /\ o \in Session /\ Unclosed(s) /\ EvictClientsLocally(o)
      /\ UNCHANGED <<registryVars, daemon>>
  BY AtTypes DEF Shutdown, DaemonSpeaks, TypeOK
<1>2. \A x \in Session \ {o} : clients'[x] = clients[x] /\ leaving'[x] = leaving[x]
  BY <1>1, EvictTypes DEF TypeOK, Types
<1>3. clients'[o] = NoClients /\ leaving'[o] = {}
  BY <1>1, EvictTypes DEF TypeOK, Types
<1>4. \A t \in Sock : sock'[t].at = sock[t].at /\ (Unclosed(t)' <=> Unclosed(t))
  BY <1>1, EvictTypes
<1>5. RegistryInv'
  BY <1>1, <1>2, <1>3, <1>4, RegistryKept DEF Good, Attached
<1>6. Unclosed(s)' /\ sock'[s].at = o
  BY <1>1, <1>4
<1>7. \A x \in Session : Live(x)' => Live(x)
  BY <1>1 DEF Live, registryVars
<1> HIDE DEF o
<1>8. NoStrandedSession'
  BY <1>1, <1>2, <1>4, <1>6, <1>7, OnlyStranded DEF Good
<1> QED
  BY <1>5, <1>8 DEF Good

LEMMA RevokeGood ==
  ASSUME TypeOK, Good, NEW s \in Sock, NEW c \in Client, Revoke(s, c)
  PROVE  Good'
<1> DEFINE o == sock[s].at
<1>1. /\ o \in Session /\ Unclosed(s) /\ clients[o][c] # None
      /\ sock' = Closing({clients[o][c]})
      /\ clients' = [clients EXCEPT ![o][c] = None]
      /\ UNCHANGED <<registryVars, daemon, leaving>>
  BY AtTypes DEF Revoke, DaemonSpeaks, TypeOK
<1>2. \A x \in Session \ {o} : clients'[x] = clients[x]
  BY <1>1 DEF TypeOK, Types
<1>3. clients[o] # NoClients
  BY <1>1 DEF NoClients
<1>4. \A t \in Sock : sock'[t].at = sock[t].at /\ (Unclosed(t)' <=> Unclosed(t))
  BY <1>1, ClosingKeeps DEF TypeOK, Unclosed
<1>5. RegistryInv'
  BY <1>1, <1>2, <1>3, <1>4, RegistryKept DEF Good, Attached
<1>6. Unclosed(s)' /\ sock'[s].at = o
  BY <1>1, <1>4
<1>7. \A x \in Session : Live(x)' => Live(x)
  BY <1>1 DEF Live, registryVars
<1> HIDE DEF o
<1>8. NoStrandedSession'
  BY <1>1, <1>2, <1>4, <1>6, <1>7, OnlyStranded DEF Good
<1> QED
  BY <1>5, <1>8 DEF Good

LEMMA CloseDaemonGood ==
  ASSUME TypeOK, Good, NEW s \in Sock, CloseDaemon(s)
  PROVE  Good'
<1> DEFINE o == sock[s].at
<1>1. /\ o \in Session /\ Unclosed(s) /\ Closed(s) /\ MaybeGcSession(o)
      /\ daemon' = IF daemon[o] = s THEN [daemon EXCEPT ![o] = None] ELSE daemon
      /\ UNCHANGED <<clients, leaving>>
  BY AtTypes DEF CloseDaemon, DaemonSpeaks, TypeOK
<1>2. sub[o] # "fresh"
  BY <1>1 DEF Good, RegistryInv
<1> HIDE DEF o
<1>3. \A t \in Sock : IF t = s THEN ~Unclosed(t)' ELSE sock'[t] = sock[t]
  BY <1>1, ClosedKeeps DEF TypeOK, Unclosed
<1>4. \A x \in Session : IF x = o THEN daemon'[x] # None => daemon[x] # None ELSE daemon'[x] = daemon[x]
  BY <1>1 DEF TypeOK, Types
<1>5. \A x \in Session : Attached(x)' => Attached(x)
  BY <1>1, <1>4 DEF Attached
<1>6. \A t \in Sock : Unclosed(t)' => Unclosed(t) /\ sock'[t].at = sock[t].at
  BY <1>3 DEF Unclosed
<1>7. RegistryInv'
  BY <1>1, <1>2, <1>5, <1>6, RegistryCollected DEF Good
<1>8. \A t \in Sock : Unclosed(t) /\ sock[t].at # o => Unclosed(t)' /\ sock'[t].at = sock[t].at
  BY <1>3 DEF Unclosed, o
<1>9. NoStrandedSession'
  BY <1>1, <1>4, <1>8, GcStranded, OnlyStranded DEF Good
<1> QED
  BY <1>7, <1>9 DEF Good

LEMMA CloseClientGood ==
  ASSUME TypeOK, Good, NEW s \in Sock, NEW c \in Client, CloseClient(s, c)
  PROVE  Good'
<1> DEFINE o == sock[s].at
<1>1. /\ o \in Session /\ Unclosed(s) /\ Closed(s) /\ MaybeGcSession(o)
      /\ clients' = [clients EXCEPT ![o][c] = None]
      /\ leaving' = [leaving EXCEPT ![o] = @ \cup {c}]
      /\ UNCHANGED daemon
  BY AtTypes DEF CloseClient, Detached, SchedulePeerLeft, TypeOK
<1>2. sub[o] # "fresh"
  BY <1>1 DEF Good, RegistryInv
<1> HIDE DEF o
<1>3. \A t \in Sock : IF t = s THEN ~Unclosed(t)' ELSE sock'[t] = sock[t]
  BY <1>1, ClosedKeeps DEF TypeOK, Unclosed
<1>4. \A x \in Session \ {o} : clients'[x] = clients[x] /\ leaving'[x] = leaving[x]
  BY <1>1 DEF TypeOK, Types
<1>5. clients[o] = NoClients => clients'[o] = NoClients
  <2>1. clients'[o] = [clients[o] EXCEPT ![c] = None]
    BY <1>1 DEF TypeOK, Types
  <2> QED
    BY <2>1 DEF NoClients
<1>6. \A x \in Session : Attached(x)' => Attached(x)
  BY <1>1, <1>4, <1>5 DEF Attached, NoClients
<1>7. \A t \in Sock : Unclosed(t)' => Unclosed(t) /\ sock'[t].at = sock[t].at
  BY <1>3 DEF Unclosed
<1>8. RegistryInv'
  BY <1>1, <1>2, <1>4, <1>6, <1>7, RegistryCollected DEF Good
<1>9. \A t \in Sock : Unclosed(t) /\ sock[t].at # o => Unclosed(t)' /\ sock'[t].at = sock[t].at
  BY <1>3 DEF Unclosed, o
<1>10. NoStrandedSession'
  BY <1>1, <1>4, <1>9, GcStranded, OnlyStranded DEF Good
<1> QED
  BY <1>8, <1>10 DEF Good

\* A timer that fires or is cancelled: the object loses it and may be collected.
LEMMA TimerGood ==
  ASSUME TypeOK, Good, NEW o \in Session, NEW c, MaybeGcSession(o),
         leaving' = [leaving EXCEPT ![o] = @ \ {c}],
         UNCHANGED <<daemon, clients, sock>>
  PROVE  Good'
<1>1. \A x \in Session \ {o} : leaving'[x] = leaving[x]
  BY DEF TypeOK, Types
<1>2. sub[o] = "fresh" => leaving'[o] = {}
  BY DEF Good, RegistryInv, TypeOK, Types
<1>3. \A t \in Sock : sock'[t].at = sock[t].at /\ (Unclosed(t)' <=> Unclosed(t))
  BY DEF Unclosed
<1>4. RegistryInv'
  BY <1>1, <1>2, <1>3, RegistryCollected DEF Good, Attached
<1>5. NoStrandedSession'
  BY <1>1, <1>3, GcStranded, OnlyStranded DEF Good
<1> QED
  BY <1>4, <1>5 DEF Good

LEMMA ReceiveEvictGood ==
  ASSUME TypeOK, Good, NEW o \in Session, ReceiveEvict(o)
  PROVE  Good'
<1>1. EvictClientsLocally(o) /\ MaybeGcSession(o) /\ UNCHANGED daemon
  BY DEF ReceiveEvict
<1>2. \A x \in Session \ {o} : clients'[x] = clients[x] /\ leaving'[x] = leaving[x]
  BY <1>1, EvictTypes DEF TypeOK, Types
<1>3. clients'[o] = NoClients /\ leaving'[o] = {}
  BY <1>1, EvictTypes DEF TypeOK, Types
<1>4. \A t \in Sock : sock'[t].at = sock[t].at /\ (Unclosed(t)' <=> Unclosed(t))
  BY <1>1, EvictTypes
<1>5. \A x \in Session : Attached(x)' => Attached(x)
  BY <1>1, <1>2, <1>3 DEF Attached, NoClients
<1>6. RegistryInv'
  BY <1>1, <1>2, <1>3, <1>4, <1>5, RegistryCollected DEF Good
<1>7. NoStrandedSession'
  BY <1>1, <1>2, <1>4, GcStranded, OnlyStranded DEF Good
<1> QED
  BY <1>6, <1>7 DEF Good

LEMMA NextGood ==
  ASSUME TypeOK, Good, [Next]_vars
  PROVE  Good'
<1>1. ASSUME NEW s \in Sock, SocketStep(s) PROVE Good'
  <2>1. ASSUME NEW to \in Client \cup {Broadcast}, NEW sent \in BOOLEAN,
               SendFrame(s, to, sent)
        PROVE  Good'
    BY <2>1, QuietGood DEF SendFrame, Unclosed
  <2> QED
    BY <1>1, <2>1, AttachDaemonGood, AttachClientGood, ShutdownGood, RevokeGood,
       CloseDaemonGood, CloseClientGood DEF SocketStep
<1>2. ASSUME NEW o \in Session, SessionStep(o) PROVE Good'
  <2>1. ASSUME NEW c \in Client, NEW sent \in BOOLEAN, Fire(o, c, sent) PROVE Good'
    BY <2>1, TimerGood DEF Fire
  <2>2. CASE ReceiveRejoined(o)
    BY <2>2, TimerGood DEF ReceiveRejoined, CancelPendingLeave
  <2>3. CASE ReceivePeerLeft(o) \/ ReceiveFrame(o) \/ Quit(o)
    BY <2>3, QuietGood DEF ReceivePeerLeft, ReceiveFrame, Quit, Unclosed
  <2> QED
    BY <1>2, <2>1, <2>2, <2>3, SubscribedGood, ReceiveEvictGood DEF SessionStep
<1>3. CASE UNCHANGED vars
  BY <1>3, QuietGood DEF vars, Unclosed
<1> QED
  BY <1>1, <1>2, <1>3 DEF Next

LEMMA RelayGood == Spec => []Good
<1>1. Init => Good
  BY RegistryInit DEF Good
<1>2. TypeOK /\ Good /\ [Next]_vars => Good'
  BY NextGood
<1> QED
  BY <1>1, <1>2, RelayTypes, PTL DEF Spec

\* No session and no Redis subscription is left behind with nobody to collect it
\* (_maybeGcSession, and each handler that ends with it).
THEOREM SessionsAreCollected == Spec => []NoStrandedSession
<1>1. Good => NoStrandedSession
  BY DEF Good
<1> QED
  BY <1>1, RelayGood, PTL

\* Everybody attached on an instance shares the registered object, as long as no object
\* outside the registry has been collected there (_getOrCreateSession, _maybeGcSession).
THEOREM OneObjectServes == Spec => []OneLiveObject
<1>1. Good => OneLiveObject
  BY DEF Good, RegistryInv, OneLiveObject
<1> QED
  BY <1>1, RelayGood, PTL

-----------------------------------------------------------------------------
(* Messages *)

LEMMA PublishKeeps ==
  ASSUME TypeOK, NEW o \in Session, NEW m \in Event \cup Frame, NEW sent \in BOOLEAN,
         Publish(o, m, sent), NEW x \in Session
  PROVE  /\ \A n : OnItsWay(x, n) => OnItsWay(x, n)'
         /\ sent /\ Listens(x, o) => OnItsWay(x, m)'
<1>1. inbox[x] \in Seq(Event \cup Frame)
  BY DEF TypeOK, Types
<1>2. CASE sent /\ Listens(x, o)
  <2>1. inbox'[x] = Append(inbox[x], m)
    BY <1>2 DEF Publish
  <2>2. \A i \in DOMAIN inbox[x] : i \in DOMAIN inbox'[x] /\ inbox'[x][i] = inbox[x][i]
    BY <1>1, <2>1
  <2>3. Len(inbox[x]) + 1 \in DOMAIN inbox'[x] /\ inbox'[x][Len(inbox[x]) + 1] = m
    BY <1>1, <2>1
  <2> QED
    BY <2>2, <2>3 DEF OnItsWay
<1>3. CASE ~(sent /\ Listens(x, o))
  <2>1. inbox'[x] = inbox[x]
    BY <1>3 DEF Publish
  <2> QED
    BY <1>3, <2>1 DEF OnItsWay
<1> QED
  BY <1>2, <1>3

LEMMA ReceiveKeeps ==
  ASSUME TypeOK, NEW o \in Session, NEW kind, Receive(o, kind), NEW x \in Session, NEW n,
         OnItsWay(x, n), x = o => n # Head(inbox[o])
  PROVE  OnItsWay(x, n)'
<1>1. inbox[x] \in Seq(Event \cup Frame)
  BY DEF TypeOK, Types
<1>2. CASE x = o
  <2>1. inbox'[x] = Tail(inbox[x]) /\ inbox[x] # <<>>
    BY <1>2 DEF Receive, TypeOK, Types
  <2>2. PICK i \in DOMAIN inbox[x] : inbox[x][i] = n
    BY DEF OnItsWay
  <2>3. i # 1 /\ i \in 1..Len(inbox[x])
    BY <1>1, <1>2, <2>1, <2>2
  <2>4. i - 1 \in DOMAIN inbox'[x] /\ inbox'[x][i - 1] = n
    BY <1>1, <2>1, <2>2, <2>3
  <2> QED
    BY <2>4 DEF OnItsWay
<1>3. CASE x # o
  BY <1>3 DEF Receive, TypeOK, Types, OnItsWay
<1> QED
  BY <1>2, <1>3

\* A collection leaves objects with timers subscribed as they were; what it abandons stays so.
LEMMA GcKeeps ==
  ASSUME TypeOK, NEW o \in Session, MaybeGcSession(o), NEW x \in Session
  PROVE  /\ leaving'[x] # {} => sub'[x] = sub[x]
         /\ Abandoned(x) => Abandoned(x)'
         /\ lateGc \subseteq lateGc'
<1>1. CASE Unused(o)
  <2>1. /\ sub' = [sub EXCEPT ![o] = "closed"]
        /\ lateGc \subseteq lateGc'
    BY <1>1 DEF MaybeGcSession
  <2>2. leaving'[o] = {}
    BY <1>1 DEF Unused
  <2> QED
    BY <2>1, <2>2 DEF TypeOK, Types, Abandoned
<1>2. CASE ~Unused(o)
  BY <1>2 DEF MaybeGcSession, registryVars, Abandoned
<1> QED
  BY <1>1, <1>2

-----------------------------------------------------------------------------
(* One socket *)

LEMMA OneSocketKept ==
  ASSUME OneSocket, overlapped \subseteq overlapped',
         \A t \in Sock : Unclosed(t)' /\ sock'[t].peer # Daemon =>
                           Unclosed(t) /\ sock'[t].peer = sock[t].peer
  PROVE  OneSocket'
BY PeerAssumption DEF OneSocket, SocketsOf

-----------------------------------------------------------------------------
(* Departures *)

\* What excuses a timer goes on excusing it.
LEMMA ExcusedKept ==
  ASSUME NEW x \in Session, NEW c \in Client, NEW t \in Sock, Excused(x, c, t),
         sock'[t].at = sock[t].at, c \in deaf[x] => c \in deaf'[x],
         sub[x] = "subscribed" => sub'[x] = "subscribed",
         sub[x] = "subscribed" /\ OnItsWay(x, Rejoined(c)) => OnItsWay(x, Rejoined(c))',
         Abandoned(x) => Abandoned(x)'
  PROVE  Excused(x, c, t)'
<1>1. Rejoined(c)' = Rejoined(c)
  BY DEF Rejoined
<1> QED
  BY <1>1 DEF Excused

\* A step that arms no timer and connects no client.
LEMMA DepartureKept ==
  ASSUME TypeOK, DepartureInv,
         \A x \in Session : leaving'[x] \subseteq leaving[x] /\ deaf'[x] = deaf[x],
         \A x \in Session : (leaving'[x] # {} /\ sub[x] = "subscribed" => sub'[x] = "subscribed")
                            /\ (Abandoned(x) => Abandoned(x)'),
         \A x \in Session : \A c \in leaving'[x] :
           sub[x] = "subscribed" /\ OnItsWay(x, Rejoined(c)) => OnItsWay(x, Rejoined(c))',
         overlapped' = overlapped,
         \A t \in Sock : sock'[t].status = "open" /\ sock'[t].peer # Daemon =>
           sock[t].status = "open" /\ sock'[t].peer = sock[t].peer /\ sock'[t].at = sock[t].at
  PROVE  DepartureInv'
<1> SUFFICES ASSUME NEW x \in Session, NEW c \in leaving'[x], NEW t \in Sock,
                    sock'[t].status = "open", sock'[t].peer = c, c \notin overlapped'
             PROVE  Excused(x, c, t)'
  BY DEF DepartureInv
<1>1. c \in leaving[x] /\ c \in Client /\ c # Daemon
  BY PeerAssumption DEF TypeOK, Types
<1>2. sock[t].status = "open" /\ sock[t].peer = c /\ sock'[t].at = sock[t].at /\ c \notin overlapped
  BY <1>1
<1>3. Excused(x, c, t)
  BY <1>1, <1>2 DEF DepartureInv
<1> QED
  BY <1>1, <1>2, <1>3, ExcusedKept

\* The client is back: every timer it left is cancelled, called off or abandoned.
LEMMA AttachClientDeparture ==
  ASSUME TypeOK, RegistryInv, OneSocket, DepartureInv,
         NEW s \in Sock, NEW d \in Client, NEW o \in Session, NEW sent \in BOOLEAN,
         AttachClient(s, d, o, sent)
  PROVE  DepartureInv' /\ OneSocket'
<1>1. /\ ~Unclosed(s) /\ o \in SessionFor(PodOf[o]) /\ Obtain(o)
      /\ leaving' = [leaving EXCEPT ![o] = @ \ {d}]
      /\ Publish(o, Rejoined(d), sent)
      /\ sock' = Bind(sock, s, d, o)
      /\ overlapped' = IF SocketsOf(d) # {} THEN overlapped \cup {d} ELSE overlapped
      /\ deaf' = [x \in Session |->
                    IF PodOf[x] # PodOf[o] /\ d \in leaving[x] /\ ~(sent /\ Listens(x, o))
                    THEN deaf[x] \cup {d} ELSE deaf[x]]
  BY DEF AttachClient, CancelPendingLeave
<1>2. /\ sock'[s] = [status |-> "open", peer |-> d, at |-> o]
      /\ \A t \in Sock \ {s} : sock'[t] = sock[t]
  BY <1>1 DEF Bind, TypeOK, Types
<1>3. /\ \A x \in Session \ {o} : sub'[x] = sub[x]
      /\ sub[o] # "fresh" => sub'[o] = sub[o]
      /\ lateGc' = lateGc
  BY <1>1 DEF Obtain, TypeOK, Types
<1>4. \A x \in Session : Abandoned(x) => Abandoned(x)'
  BY <1>3 DEF Abandoned
<1>5. \A x \in Session : leaving'[x] \subseteq leaving[x] /\ d \notin leaving'[o]
  BY <1>1 DEF TypeOK, Types
<1>6. SocketsOf(d) # {} => d \in overlapped'
  BY <1>1
<1>7. OneSocket'
  <2> SUFFICES ASSUME NEW c \in Client, c \notin overlapped', NEW t \in Sock, NEW u \in Sock,
                      Unclosed(t)', sock'[t].peer = c, Unclosed(u)', sock'[u].peer = c
               PROVE  t = u
    BY DEF OneSocket, SocketsOf
  <2>1. CASE c = d
    <3>1. \A v \in Sock \ {s} : ~(Unclosed(v)' /\ sock'[v].peer = d)
      BY <1>2, <1>6, <2>1 DEF SocketsOf, Unclosed
    <3> QED
      BY <2>1, <3>1
  <2>2. CASE c # d
    <3>1. t # s /\ u # s
      BY <1>2, <2>2
    <3>2. t \in SocketsOf(c) /\ u \in SocketsOf(c) /\ c \notin overlapped
      BY <1>1, <1>2, <3>1 DEF SocketsOf, Unclosed
    <3> QED
      BY <3>2 DEF OneSocket
  <2> QED
    BY <2>1, <2>2
<1>8. DepartureInv'
  <2> SUFFICES ASSUME NEW x \in Session, NEW c \in leaving'[x], NEW t \in Sock,
                      sock'[t].status = "open", sock'[t].peer = c, c \notin overlapped'
               PROVE  Excused(x, c, t)'
    BY DEF DepartureInv
  <2>1. c \in leaving[x] /\ c \in Client
    BY <1>5 DEF TypeOK, Types
  <2>2. CASE t = s
    <3>1. c = d /\ x # o /\ sock'[s].at = o
      BY <1>2, <1>5, <2>2
    <3>2. CASE sent /\ Listens(x, o)
      <4>1. OnItsWay(x, Rejoined(d))'
        BY <1>1, <3>2, EventTypes, PublishKeeps DEF Rejoined
      <4> QED
        BY <1>3, <2>2, <3>1, <3>2, <4>1 DEF Excused, Rejoined, Listens
    <3>3. CASE PodOf[x] # PodOf[o] /\ ~(sent /\ Listens(x, o))
      <4>1. c \in deaf'[x]
        BY <1>1, <2>1, <3>1, <3>3
      <4> QED
        BY <4>1 DEF Excused
    <3>4. CASE PodOf[x] = PodOf[o]
      <4>1. sub[x] # "fresh"
        BY <2>1 DEF RegistryInv
      <4>2. registry[PodOf[o]] \in {o, None}
        BY <1>1 DEF SessionFor
      <4>3. ~(Live(x) /\ PodOf[x] \notin lateGc)
        BY <3>1, <3>4, <4>2, NoneAssumption DEF RegistryInv
      <4>4. Abandoned(x)
        BY <4>1, <4>3 DEF Abandoned, Live, TypeOK, Types
      <4> QED
        BY <1>4, <2>2, <3>1, <3>4, <4>4 DEF Excused
    <3> QED
      BY <3>2, <3>3, <3>4 DEF Listens
  <2>3. CASE t # s
    <3>1. sock[t].status = "open" /\ sock[t].peer = c /\ sock'[t].at = sock[t].at /\ c \notin overlapped
      BY <1>1, <1>2, <2>3
    <3>2. Excused(x, c, t)
      BY <2>1, <3>1 DEF DepartureInv
    <3>3. OnItsWay(x, Rejoined(c)) => OnItsWay(x, Rejoined(c))'
      BY <1>1, <2>1, EventTypes, PublishKeeps DEF Rejoined
    <3>4. c \in deaf[x] => c \in deaf'[x]
      BY <1>1
    <3>5. sub[x] = "subscribed" => sub'[x] = "subscribed"
      BY <1>3
    <3> QED
      BY <1>4, <2>1, <3>1, <3>2, <3>3, <3>4, <3>5, ExcusedKept
  <2> QED
    BY <2>2, <2>3
<1> QED
  BY <1>7, <1>8

\* The client's socket closes and a timer is armed: it had no other socket.
LEMMA CloseClientDeparture ==
  ASSUME TypeOK, OneSocket, DepartureInv, NEW s \in Sock, NEW d \in Client, CloseClient(s, d)
  PROVE  DepartureInv'
<1> DEFINE o == sock[s].at
<1>1. /\ o \in Session /\ Unclosed(s) /\ sock[s].peer = d /\ Closed(s) /\ MaybeGcSession(o)
      /\ leaving' = [leaving EXCEPT ![o] = @ \cup {d}]
      /\ deaf' = [deaf EXCEPT ![o] = @ \ {d}]
      /\ UNCHANGED <<inbox, overlapped>>
  BY AtTypes DEF CloseClient, SchedulePeerLeft, TypeOK
<1> HIDE DEF o
<1>2. /\ sock'[s].status = "idle" /\ \A t \in Sock \ {s} : sock'[t] = sock[t]
  BY <1>1, ClosedKeeps DEF TypeOK
<1> SUFFICES ASSUME NEW x \in Session, NEW c \in leaving'[x], NEW t \in Sock,
                    sock'[t].status = "open", sock'[t].peer = c, c \notin overlapped'
             PROVE  Excused(x, c, t)'
  BY DEF DepartureInv
<1>3. t # s /\ sock'[t] = sock[t]
  BY <1>2
<1>4. c # d
  <2> SUFFICES ASSUME c = d PROVE FALSE
    OBVIOUS
  <2>1. s \in SocketsOf(d) /\ t \in SocketsOf(d) /\ d \notin overlapped
    BY <1>1, <1>3 DEF SocketsOf, Unclosed
  <2> QED
    BY <1>3, <2>1 DEF OneSocket
<1>5. c \in leaving[x] /\ c \in Client /\ (c \in deaf[x] => c \in deaf'[x])
  BY <1>1, <1>4 DEF TypeOK, Types
<1>6. Excused(x, c, t)
  BY <1>1, <1>3, <1>5 DEF DepartureInv
<1>7. sub'[x] = sub[x] /\ (Abandoned(x) => Abandoned(x)')
  BY <1>1, GcKeeps
<1>8. OnItsWay(x, Rejoined(c)) => OnItsWay(x, Rejoined(c))'
  BY <1>1 DEF OnItsWay, Rejoined
<1> QED
  BY <1>3, <1>5, <1>6, <1>7, <1>8, ExcusedKept

\* A timer that fires or is cancelled by a message.
LEMMA FireDeparture ==
  ASSUME TypeOK, DepartureInv, NEW o \in Session, NEW c \in Client, NEW sent \in BOOLEAN,
         Fire(o, c, sent)
  PROVE  DepartureInv'
<1>1. /\ leaving' = [leaving EXCEPT ![o] = @ \ {c}] /\ Publish(o, PeerLeft(c), sent)
      /\ MaybeGcSession(o) /\ UNCHANGED <<sock, overlapped, deaf>>
  BY DEF Fire
<1>2. \A x \in Session : leaving'[x] \subseteq leaving[x]
  BY <1>1 DEF TypeOK, Types
<1>3. \A x \in Session : \A d : OnItsWay(x, Rejoined(d)) => OnItsWay(x, Rejoined(d))'
  BY <1>1, EventTypes, PublishKeeps DEF Rejoined
<1>4. \A x \in Session : (leaving'[x] # {} => sub'[x] = sub[x]) /\ (Abandoned(x) => Abandoned(x)')
  BY <1>1, GcKeeps
<1> QED
  BY <1>1, <1>2, <1>3, <1>4, DepartureKept

LEMMA ReceiveRejoinedDeparture ==
  ASSUME TypeOK, DepartureInv, NEW o \in Session, ReceiveRejoined(o)
  PROVE  DepartureInv'
<1> DEFINE d == Head(inbox[o]).who
<1>1. /\ Receive(o, "peer_rejoined") /\ MaybeGcSession(o)
      /\ leaving' = [leaving EXCEPT ![o] = @ \ {d}] /\ UNCHANGED <<sock, overlapped, deaf>>
  BY DEF ReceiveRejoined, CancelPendingLeave
<1>2. \A x \in Session : leaving'[x] \subseteq leaving[x] /\ d \notin leaving'[o]
  BY <1>1 DEF TypeOK, Types
<1>3. ASSUME NEW x \in Session, NEW c \in leaving'[x], OnItsWay(x, Rejoined(c))
      PROVE  OnItsWay(x, Rejoined(c))'
  <2>1. x = o => Rejoined(c) # Head(inbox[o])
    BY <1>2 DEF Rejoined
  <2> QED
    BY <1>1, <1>3, <2>1, ReceiveKeeps DEF Rejoined
<1>4. \A x \in Session : (leaving'[x] # {} => sub'[x] = sub[x]) /\ (Abandoned(x) => Abandoned(x)')
  BY <1>1, GcKeeps
<1> QED
  BY <1>1, <1>2, <1>3, <1>4, DepartureKept

LEMMA ReceiveEvictDeparture ==
  ASSUME TypeOK, DepartureInv, NEW o \in Session, ReceiveEvict(o)
  PROVE  DepartureInv'
<1>1. /\ Receive(o, "evict_clients") /\ EvictClientsLocally(o) /\ MaybeGcSession(o)
      /\ UNCHANGED <<overlapped, deaf>>
  BY DEF ReceiveEvict
<1>2. \A x \in Session : leaving'[x] \subseteq leaving[x] /\ leaving'[o] = {}
  BY <1>1, EvictTypes DEF TypeOK, Types
<1>3. ASSUME NEW x \in Session, NEW c \in leaving'[x], OnItsWay(x, Rejoined(c))
      PROVE  OnItsWay(x, Rejoined(c))'
  <2>1. x # o
    BY <1>2
  <2> QED
    BY <1>1, <1>3, <2>1, ReceiveKeeps DEF Rejoined
<1>4. \A x \in Session : (leaving'[x] # {} => sub'[x] = sub[x]) /\ (Abandoned(x) => Abandoned(x)')
  BY <1>1, GcKeeps
<1> QED
  BY <1>1, <1>2, <1>3, <1>4, EvictTypes, DepartureKept

\* Steps that leave the timers, the subscriptions and the clients' sockets as they are.
LEMMA QuietDeparture ==
  ASSUME TypeOK, DepartureInv, UNCHANGED <<registryVars, leaving, deaf, overlapped>>,
         \A t \in Sock : sock'[t].status = "open" /\ sock'[t].peer # Daemon =>
           sock[t].status = "open" /\ sock'[t].peer = sock[t].peer /\ sock'[t].at = sock[t].at,
         \A x \in Session : \A c \in Client :
           sub[x] = "subscribed" /\ OnItsWay(x, Rejoined(c)) => OnItsWay(x, Rejoined(c))'
  PROVE  DepartureInv'
<1>1. \A x \in Session : Abandoned(x) => Abandoned(x)'
  BY DEF Abandoned, registryVars
<1>2. \A x \in Session : leaving'[x] \subseteq leaving[x] /\ leaving[x] \subseteq Client
  BY DEF TypeOK, Types
<1> QED
  BY <1>1, <1>2, DepartureKept DEF registryVars

LEMMA OtherDepartures ==
  ASSUME TypeOK, DepartureInv,
         \/ \E s \in Sock : \/ \E o \in Session : AttachDaemon(s, o)
                            \/ (\E sent \in BOOLEAN : Shutdown(s, sent)) \/ CloseDaemon(s)
                            \/ \E c \in Client : Revoke(s, c)
                            \/ \E to \in Client \cup {Broadcast} : \E sent \in BOOLEAN : SendFrame(s, to, sent)
         \/ \E o \in Session : Subscribed(o) \/ ReceivePeerLeft(o) \/ ReceiveFrame(o) \/ Quit(o)
         \/ UNCHANGED vars
  PROVE  DepartureInv'
<1>1. ASSUME NEW s \in Sock, NEW o \in Session, AttachDaemon(s, o) PROVE DepartureInv'
  <2>1. /\ Obtain(o) /\ UNCHANGED <<leaving, inbox, overlapped, deaf>>
        /\ sock' = Bind(Closing({daemon[o]}), s, Daemon, o)
    BY <1>1 DEF AttachDaemon, fateVars
  <2>2. /\ sock'[s].peer = Daemon
        /\ \A t \in Sock \ {s} : sock'[t] = Closing({daemon[o]})[t]
    BY <2>1, ClosingKeeps DEF Bind, TypeOK
  <2>3. \A t \in Sock : sock'[t].status = "open" /\ sock'[t].peer # Daemon =>
          sock[t].status = "open" /\ sock'[t].peer = sock[t].peer /\ sock'[t].at = sock[t].at
    BY <2>2, ClosingKeeps DEF TypeOK
  <2>4. \A x \in Session : (sub[x] = "subscribed" => sub'[x] = "subscribed")
                           /\ (Abandoned(x) => Abandoned(x)')
    BY <2>1 DEF Obtain, TypeOK, Types, Abandoned
  <2> QED
    BY <2>1, <2>3, <2>4, DepartureKept DEF OnItsWay, Rejoined
<1>2. ASSUME NEW s \in Sock, NEW sent \in BOOLEAN, Shutdown(s, sent) PROVE DepartureInv'
  <2> DEFINE o == sock[s].at
  <2>1. /\ o \in Session /\ EvictClientsLocally(o) /\ Publish(o, Evict, sent)
        /\ UNCHANGED <<registryVars, overlapped, deaf>>
    BY <1>2, AtTypes DEF Shutdown, DaemonSpeaks, TypeOK
  <2> HIDE DEF o
  <2>2. \A x \in Session : leaving'[x] \subseteq leaving[x]
    BY <2>1, EvictTypes DEF TypeOK, Types
  <2>3. \A x \in Session : \A d : OnItsWay(x, Rejoined(d)) => OnItsWay(x, Rejoined(d))'
    BY <2>1, EventTypes, PublishKeeps DEF Rejoined
  <2>4. \A x \in Session : sub'[x] = sub[x] /\ (Abandoned(x) => Abandoned(x)')
    BY <2>1 DEF registryVars, Abandoned
  <2> QED
    BY <2>1, <2>2, <2>3, <2>4, EvictTypes, DepartureKept
<1>3. ASSUME NEW s \in Sock, CloseDaemon(s) PROVE DepartureInv'
  <2> DEFINE o == sock[s].at
  <2>1. /\ o \in Session /\ Closed(s) /\ MaybeGcSession(o)
        /\ UNCHANGED <<leaving, inbox, overlapped, deaf>>
    BY <1>3, AtTypes DEF CloseDaemon, DaemonSpeaks, TypeOK, fateVars
  <2> HIDE DEF o
  <2>2. \A t \in Sock : sock'[t].status = "open" => sock'[t] = sock[t]
    BY <2>1, ClosedKeeps DEF TypeOK
  <2>3. \A x \in Session : (leaving'[x] # {} => sub'[x] = sub[x]) /\ (Abandoned(x) => Abandoned(x)')
    BY <2>1, GcKeeps
  <2> QED
    BY <2>1, <2>2, <2>3, DepartureKept DEF OnItsWay, Rejoined
<1>4. ASSUME NEW s \in Sock, NEW c \in Client, Revoke(s, c) PROVE DepartureInv'
  <2>1. /\ \E ss : sock' = Closing(ss)
        /\ UNCHANGED <<registryVars, leaving, inbox, overlapped, deaf>>
    BY <1>4 DEF Revoke
  <2> QED
    BY <2>1, ClosingKeeps, QuietDeparture DEF TypeOK, OnItsWay, Rejoined
<1>5. ASSUME NEW s \in Sock, NEW to \in Client \cup {Broadcast}, NEW sent \in BOOLEAN,
             SendFrame(s, to, sent)
      PROVE  DepartureInv'
  <2>1. /\ sock[s].at \in Session /\ UNCHANGED <<registryVars, leaving, sock, overlapped, deaf>>
        /\ Publish(sock[s].at, [kind |-> "frame", to |-> to], sent) \/ UNCHANGED inbox
    BY <1>5, AtTypes DEF SendFrame, DaemonSpeaks, TypeOK, peerVars, fateVars
  <2>2. [kind |-> "frame", to |-> to] \in Event \cup Frame
    BY DEF Frame
  <2>3. \A x \in Session : \A d : OnItsWay(x, Rejoined(d)) => OnItsWay(x, Rejoined(d))'
    <3>1. CASE UNCHANGED inbox
      BY <3>1 DEF Rejoined, OnItsWay
    <3>2. CASE Publish(sock[s].at, [kind |-> "frame", to |-> to], sent)
      BY <2>1, <2>2, <3>2, PublishKeeps DEF Rejoined
    <3> QED
      BY <2>1, <3>1, <3>2
  <2> QED
    BY <2>1, <2>3, QuietDeparture
<1>6. ASSUME NEW o \in Session, Subscribed(o) PROVE DepartureInv'
  <2>1. \A x \in Session : (sub[x] = "subscribed" => sub'[x] = "subscribed")
                           /\ (Abandoned(x) => Abandoned(x)')
    BY <1>6 DEF Subscribed, TypeOK, Types, Abandoned
  <2> QED
    BY <1>6, <2>1, DepartureKept DEF Subscribed, peerVars, fateVars, OnItsWay, Rejoined
<1>7. ASSUME NEW o \in Session, ReceivePeerLeft(o) \/ ReceiveFrame(o) PROVE DepartureInv'
  <2>1. PICK kind \in {"peer_left", "frame"} : Receive(o, kind)
    BY <1>7 DEF ReceivePeerLeft, ReceiveFrame
  <2>2. UNCHANGED <<registryVars, leaving, sock, overlapped, deaf>>
    BY <1>7 DEF ReceivePeerLeft, ReceiveFrame, peerVars, fateVars
  <2>3. \A c \in Client : Rejoined(c) # Head(inbox[o])
    BY <2>1 DEF Receive, Rejoined
  <2>4. \A x \in Session : \A c \in Client : OnItsWay(x, Rejoined(c)) => OnItsWay(x, Rejoined(c))'
    BY <2>1, <2>3, ReceiveKeeps DEF Rejoined
  <2> QED
    BY <2>2, <2>4, QuietDeparture
<1>8. ASSUME NEW o \in Session, Quit(o) PROVE DepartureInv'
  <2>1. \A x \in Session : sub[x] = "subscribed" => inbox'[x] = inbox[x]
    BY <1>8 DEF Quit, TypeOK, Types
  <2> QED
    BY <1>8, <2>1, QuietDeparture DEF Quit, peerVars, fateVars, OnItsWay, Rejoined
<1>9. CASE UNCHANGED vars
  BY <1>9, QuietDeparture DEF vars, peerVars, fateVars, OnItsWay, Rejoined
<1> QED
  BY <1>1, <1>2, <1>3, <1>4, <1>5, <1>6, <1>7, <1>8, <1>9

\* Every step but a client's attach connects no client.
LEMMA OtherSockets ==
  ASSUME TypeOK, [Next]_vars,
         ~\E s \in Sock : \E c \in Client : \E o \in Session :
                    \E sent \in BOOLEAN : AttachClient(s, c, o, sent)
  PROVE  /\ overlapped' = overlapped
         /\ \A t \in Sock : Unclosed(t)' /\ sock'[t].peer # Daemon =>
              Unclosed(t) /\ sock'[t].peer = sock[t].peer /\ sock'[t].at = sock[t].at
<1> DEFINE Same == \A t \in Sock : Unclosed(t)' /\ sock'[t].peer # Daemon =>
              Unclosed(t) /\ sock'[t].peer = sock[t].peer /\ sock'[t].at = sock[t].at
<1>1. ASSUME NEW s \in Sock, SocketStep(s) PROVE Same /\ overlapped' = overlapped
  <2>1. ASSUME NEW o \in Session, AttachDaemon(s, o) PROVE Same /\ overlapped' = overlapped
    <3>1. sock' = Bind(Closing({daemon[o]}), s, Daemon, o) /\ overlapped' = overlapped
      BY <2>1 DEF AttachDaemon, fateVars
    <3>2. sock'[s].peer = Daemon /\ \A t \in Sock \ {s} : sock'[t] = Closing({daemon[o]})[t]
      BY <3>1, ClosingKeeps DEF Bind, TypeOK
    <3>3. \A t \in Sock \ {s} : /\ sock'[t].peer = sock[t].peer /\ sock'[t].at = sock[t].at
                                /\ Unclosed(t)' <=> Unclosed(t)
      BY <3>2, ClosingKeeps DEF TypeOK, Unclosed
    <3> QED
      BY <3>1, <3>2, <3>3
  <2>2. ASSUME NEW sent \in BOOLEAN, Shutdown(s, sent) PROVE Same /\ overlapped' = overlapped
    BY <2>2, AtTypes, EvictTypes DEF Shutdown, DaemonSpeaks, TypeOK
  <2>3. ASSUME NEW c \in Client, Revoke(s, c) PROVE Same /\ overlapped' = overlapped
    BY <2>3, ClosingKeeps DEF Revoke, TypeOK, Unclosed
  <2>4. ASSUME NEW to \in Client \cup {Broadcast}, NEW sent \in BOOLEAN, SendFrame(s, to, sent)
        PROVE  Same /\ overlapped' = overlapped
    BY <2>4 DEF SendFrame, fateVars, Unclosed
  <2>5. CASE CloseDaemon(s)
    BY <2>5, ClosedKeeps DEF CloseDaemon, TypeOK, fateVars, Unclosed
  <2>6. ASSUME NEW c \in Client, CloseClient(s, c) PROVE Same /\ overlapped' = overlapped
    BY <2>6, ClosedKeeps DEF CloseClient, TypeOK, Unclosed
  <2> QED
    BY <1>1, <2>1, <2>2, <2>3, <2>4, <2>5, <2>6 DEF SocketStep
<1>2. ASSUME NEW o \in Session, SessionStep(o) PROVE Same /\ overlapped' = overlapped
  <2>1. CASE ReceiveEvict(o)
    BY <2>1, EvictTypes DEF ReceiveEvict
  <2>2. CASE ~ReceiveEvict(o)
    <3>1. sock' = sock /\ overlapped' = overlapped
      BY <1>2, <2>2 DEF SessionStep, Subscribed, Fire, ReceivePeerLeft, ReceiveRejoined,
                        ReceiveFrame, Quit, fateVars
    <3> QED
      BY <3>1 DEF Unclosed
  <2> QED
    BY <2>1, <2>2
<1>3. CASE UNCHANGED vars
  BY <1>3 DEF vars, fateVars, Unclosed
<1> QED
  BY <1>1, <1>2, <1>3 DEF Next

Returns == OneSocket /\ DepartureInv

LEMMA NextReturns ==
  ASSUME TypeOK, RegistryInv, Returns, [Next]_vars
  PROVE  Returns'
<1>1. CASE \E s \in Sock : \E c \in Client : \E o \in Session :
                    \E sent \in BOOLEAN : AttachClient(s, c, o, sent)
  BY <1>1, AttachClientDeparture DEF Returns
<1>2. CASE ~\E s \in Sock : \E c \in Client : \E o \in Session :
                    \E sent \in BOOLEAN : AttachClient(s, c, o, sent)
  <2>1. OneSocket'
    BY <1>2, OtherSockets, OneSocketKept DEF Returns
  <2>2. DepartureInv'
    BY <1>2, CloseClientDeparture, FireDeparture, ReceiveRejoinedDeparture, ReceiveEvictDeparture,
       OtherDepartures DEF Returns, Next, SocketStep, SessionStep
  <2> QED
    BY <2>1, <2>2 DEF Returns
<1> QED
  BY <1>1, <1>2

\* A client that is back has no peer_left pending, but for a return that is still on its
\* way, that never reached the instance with the timer (it did not listen yet, or the
\* publication of peer_rejoined failed), or a timer in an abandoned object; and but for
\* clients that attach before their earlier socket has closed (attach, _publish).
THEOREM ReturnsCancelDepartures == Spec => []DepartureCancelled
<1>1. Init => Returns
  BY DEF Init, Returns, OneSocket, SocketsOf, Unclosed, Idle, DepartureInv
<1>2. TypeOK /\ Good /\ Returns /\ [Next]_vars => Returns'
  BY NextReturns DEF Good
<1>3. Returns => DepartureCancelled
  BY DEF Returns, DepartureInv, DepartureCancelled, Excused
<1> QED
  BY <1>1, <1>2, <1>3, RelayTypes, RelayGood, PTL DEF Spec
-----------------------------------------------------------------------------
(* Departures are not forgotten *)

LEMMA NextDepartures ==
  ASSUME TypeOK, DepartureNotForgotten, [Next]_vars
  PROVE  DepartureNotForgotten'
<1> SUFFICES ASSUME NEW d \in Client, fate'[d] = "leaving"
             PROVE  \E x \in Session : d \in leaving'[x]
  BY DEF DepartureNotForgotten
<1> DEFINE Waits == \E x \in Session : d \in leaving'[x]
<1>1. ASSUME UNCHANGED <<leaving, fate>> PROVE Waits
  BY <1>1 DEF DepartureNotForgotten
\* A step on object o that takes away the timers of cs only and marks no new departure.
<1>2. ASSUME NEW o \in Session, \A x \in Session \ {o} : leaving'[x] = leaving[x],
             d \in leaving[o] => d \in leaving'[o], fate[d] = "leaving"
      PROVE  Waits
  <2>1. PICK x \in Session : d \in leaving[x]
    BY <1>2 DEF DepartureNotForgotten
  <2> QED
    BY <1>2, <2>1
<1>3. ASSUME NEW s \in Sock, SocketStep(s) PROVE Waits
  <2>1. ASSUME NEW c \in Client, NEW o \in Session, NEW sent \in BOOLEAN,
               AttachClient(s, c, o, sent)
        PROVE  Waits
    <3>1. leaving' = [leaving EXCEPT ![o] = @ \ {c}] /\ fate' = [fate EXCEPT ![c] = "here"]
      BY <2>1 DEF AttachClient, CancelPendingLeave
    <3>2. d # c /\ fate[d] = "leaving"
      BY <3>1 DEF TypeOK, Types
    <3> QED
      BY <1>2, <3>1, <3>2 DEF TypeOK, Types
  <2>2. ASSUME NEW sent \in BOOLEAN, Shutdown(s, sent) PROVE Waits
    <3> DEFINE o == sock[s].at
    <3>1. o \in Session /\ EvictClientsLocally(o)
      BY <2>2, AtTypes DEF Shutdown, DaemonSpeaks, TypeOK
    <3> HIDE DEF o
    <3>2. d \notin leaving[o] /\ fate[d] = "leaving"
      BY <3>1 DEF EvictClientsLocally, TypeOK, Types
    <3> QED
      BY <1>2, <3>1, <3>2 DEF EvictClientsLocally, TypeOK, Types
  <2>3. ASSUME NEW c \in Client, Revoke(s, c) PROVE Waits
    <3>1. leaving' = leaving /\ fate[d] = "leaving"
      BY <2>3 DEF Revoke, TypeOK, Types
    <3> QED
      BY <3>1 DEF DepartureNotForgotten
  <2>4. ASSUME NEW c \in Client, CloseClient(s, c) PROVE Waits
    <3> DEFINE o == sock[s].at
    <3>1. /\ o \in Session /\ leaving' = [leaving EXCEPT ![o] = @ \cup {c}]
          /\ fate[d] # "leaving" => d = c
      BY <2>4, AtTypes DEF CloseClient, SchedulePeerLeft, TypeOK, Types
    <3> HIDE DEF o
    <3>2. CASE d = c
      BY <3>1, <3>2 DEF TypeOK, Types
    <3>3. CASE d # c
      BY <1>2, <3>1, <3>3 DEF TypeOK, Types
    <3> QED
      BY <3>2, <3>3
  <2>5. CASE (\E o \in Session : AttachDaemon(s, o)) \/ CloseDaemon(s)
             \/ \E to \in Client \cup {Broadcast} : \E sent \in BOOLEAN : SendFrame(s, to, sent)
    BY <1>1, <2>5 DEF AttachDaemon, CloseDaemon, SendFrame, fateVars, peerVars
  <2> QED
    BY <1>3, <2>1, <2>2, <2>3, <2>4, <2>5 DEF SocketStep
<1>4. ASSUME NEW o \in Session, SessionStep(o) PROVE Waits
  <2>1. ASSUME NEW c \in Client, NEW sent \in BOOLEAN, Fire(o, c, sent) PROVE Waits
    <3>1. /\ leaving' = [leaving EXCEPT ![o] = @ \ {c}]
          /\ fate' = IF fate[c] = "leaving" THEN [fate EXCEPT ![c] = "away"] ELSE fate
      BY <2>1 DEF Fire
    <3>2. d # c /\ fate[d] = "leaving"
      BY <3>1 DEF TypeOK, Types
    <3> QED
      BY <1>2, <3>1, <3>2 DEF TypeOK, Types
  <2>2. CASE ReceiveEvict(o)
    <3>1. EvictClientsLocally(o)
      BY <2>2 DEF ReceiveEvict
    <3>2. d \notin leaving[o] /\ fate[d] = "leaving"
      BY <3>1 DEF EvictClientsLocally, TypeOK, Types
    <3> QED
      BY <1>2, <3>1, <3>2 DEF EvictClientsLocally, TypeOK, Types
  <2>3. CASE ReceiveRejoined(o)
    <3> DEFINE c == Head(inbox[o]).who
    <3>1. /\ Receive(o, "peer_rejoined")
          /\ leaving' = [leaving EXCEPT ![o] = @ \ {c}]
          /\ fate' = IF c \in leaving[o] /\ fate[c] = "leaving"
                     THEN [fate EXCEPT ![c] = "miscancelled"] ELSE fate
      BY <2>3 DEF ReceiveRejoined, CancelPendingLeave
    <3>2. c \in Client
      BY <3>1, ReceiveTypes DEF TypeOK
    <3> HIDE DEF c
    <3>3. fate[d] = "leaving" /\ (d \in leaving[o] => d # c)
      BY <3>1, <3>2 DEF TypeOK, Types
    <3> QED
      BY <1>2, <3>1, <3>3 DEF TypeOK, Types
  <2>4. CASE Subscribed(o) \/ ReceivePeerLeft(o) \/ ReceiveFrame(o) \/ Quit(o)
    BY <1>1, <2>4 DEF Subscribed, ReceivePeerLeft, ReceiveFrame, Quit, fateVars, peerVars
  <2> QED
    BY <1>4, <2>1, <2>2, <2>3, <2>4 DEF SessionStep
<1>5. CASE UNCHANGED vars
  BY <1>1, <1>5 DEF vars, fateVars, peerVars
<1> QED
  BY <1>3, <1>4, <1>5 DEF Next

\* A client that is gone has a timer running until it fires, it is evicted or mistaken for
\* back by a late peer_rejoined (_schedulePeerLeft and what clears a timer).
THEOREM DeparturesAreKept == Spec => []DepartureNotForgotten
<1>1. Init => DepartureNotForgotten
  BY DEF Init, DepartureNotForgotten
<1> QED
  BY <1>1, NextDepartures, RelayTypes, PTL DEF Spec
-----------------------------------------------------------------------------
(* Frames *)

\* A step that adds nobody to whom a frame is due and no client.
LEMMA FrameKept ==
  ASSUME TypeOK, FrameInv, due' \subseteq due, UNCHANGED unsent, lateGc \subseteq lateGc',
         \A t \in due' : /\ Unclosed(t)' /\ sock'[t].peer = sock[t].peer /\ sock'[t].at = sock[t].at
                         /\ clients'[sock[t].at][sock[t].peer] = t =>
                              clients[sock[t].at][sock[t].peer] = t,
         \A t \in due' : \A x \in Session : \A m \in FramesFor(sock[t].peer) :
           x = sock[t].at /\ clients[x][sock[t].peer] = t /\ OnItsWay(x, m) => OnItsWay(x, m)'
  PROVE  FrameInv'
<1>1. ASSUME NEW t \in due' PROVE Unclosed(t)' /\ sock'[t].peer \in Client
  BY <1>1 DEF FrameInv
<1>2. ASSUME NEW t \in due', PodOf[sock'[t].at] \notin lateGc', ~unsent' PROVE UnderWay(t)'
  <2> DEFINE x == sock[t].at
  <2> DEFINE p == sock[t].peer
  <2>1. /\ sock'[t].at = x /\ sock'[t].peer = p /\ t \in due /\ PodOf[x] \notin lateGc
        /\ x \in Session /\ ~unsent
    BY <1>2 DEF FrameInv, TypeOK, Types
  <2>2. clients[x][p] = t => \E m \in FramesFor(p) : OnItsWay(x, m)
    BY <2>1 DEF FrameInv, FrameOnItsWay, UnderWay
  <2>3. clients'[x][p] = t => clients[x][p] = t
    BY <1>2
  <2>4. \A m \in FramesFor(p) : clients[x][p] = t /\ OnItsWay(x, m) =>
                                \E i \in DOMAIN inbox'[x] : inbox'[x][i] = m
    <3> SUFFICES ASSUME NEW m \in FramesFor(p), clients[x][p] = t, OnItsWay(x, m)
                 PROVE  \E i \in DOMAIN inbox'[x] : inbox'[x][i] = m
      OBVIOUS
    <3>1. \A y \in Session : y = x => \E i \in DOMAIN inbox'[y] : inbox'[y][i] = m
      BY <1>2 DEF OnItsWay
    <3> QED
      BY <2>1, <3>1
  <2> HIDE DEF x, p
  <2>5. clients'[x][p] = t => \E m \in FramesFor(p) : \E i \in DOMAIN inbox'[x] : inbox'[x][i] = m
    BY <2>2, <2>3, <2>4
  <2>6. FramesFor(sock'[t].peer) = FramesFor(p)
    BY <2>1
  <2> QED
    BY <2>1, <2>5, <2>6 DEF UnderWay, OnItsWay, FramesFor
<1> QED
  BY <1>1, <1>2 DEF FrameInv, FrameOnItsWay

\* A socket a frame is due to is a connected client's.
LEMMA DueTypes ==
  ASSUME TypeOK, FrameInv, NEW t \in due
  PROVE  t \in Sock /\ Unclosed(t) /\ sock[t].peer \in Client /\ sock[t].at \in Session
BY DEF FrameInv, TypeOK, Types

\* A frame is at the head of o's messages: whoever it is addressed to gets it.
LEMMA ReceiveFrameKeeps ==
  ASSUME TypeOK, RegistryInv, FrameInv, NEW o \in Session, ReceiveFrame(o)
  PROVE  FrameInv'
<1>1. /\ Receive(o, "frame") /\ due' = due \ Addressed(o, Head(inbox[o]).to)
      /\ UNCHANGED <<lateGc, clients, sock, unsent>>
  BY DEF ReceiveFrame, registryVars, peerVars
<1>2. ASSUME NEW t \in due', NEW x \in Session, NEW m \in FramesFor(sock[t].peer),
             x = sock[t].at, clients[x][sock[t].peer] = t, OnItsWay(x, m)
      PROVE  OnItsWay(x, m)'
  <2>1. t \in due /\ t \in Sock /\ sock[t].peer \in Client /\ t # None
    BY <1>1, <1>2, DueTypes, NoneAssumption
  <2>2. m.to \in {sock[t].peer, Broadcast}
    BY <1>2 DEF FramesFor
  <2>3. x = o => t \in Addressed(o, m.to)
    BY <1>2, <2>1, <2>2 DEF Addressed
  <2>4. x = o => m # Head(inbox[o])
    BY <1>1, <1>2, <2>3
  <2> QED
    BY <1>1, <1>2, <2>4, ReceiveKeeps
<1>3. \A t \in due' : Unclosed(t)'
  BY <1>1, DueTypes DEF Unclosed
<1> QED
  BY <1>1, <1>2, <1>3, FrameKept

\* A frame of the daemon is under way to everybody it is meant for.
LEMMA SendFrameDue ==
  ASSUME TypeOK, RegistryInv, NEW s \in Sock, NEW to \in Client \cup {Broadcast}, NEW sent \in BOOLEAN,
         SendFrame(s, to, sent)
  PROVE  FrameInv'
<1> DEFINE o == sock[s].at
<1>1. /\ o \in Session
      /\ IF Goes(o, to) THEN Publish(o, [kind |-> "frame", to |-> to], sent) ELSE UNCHANGED inbox
      /\ due' = IF daemon[o] = s THEN MeantFor(o, to) ELSE {}
      /\ unsent' = (daemon[o] = s /\ Goes(o, to) /\ ~sent)
      /\ UNCHANGED <<registryVars, peerVars, sock>>
  BY AtTypes DEF SendFrame, DaemonSpeaks, TypeOK
<1> HIDE DEF o
<1>2. ASSUME NEW t \in due'
      PROVE  /\ daemon[o] # None /\ Goes(o, to) /\ (~unsent' => sent)
             /\ \E x \in Session \ {o} : \E c \in Client :
                  /\ sub[x] = "subscribed" \/ PodOf[x] = PodOf[o]
                  /\ clients[x][c] = t /\ t # None /\ to \in {c, Broadcast}
  <2>1. daemon[o] = s /\ t \in MeantFor(o, to)
    BY <1>1, <1>2
  <2>2. Goes(o, to)
    BY <2>1 DEF MeantFor, Goes
  <2>3. ~unsent' => sent
    BY <1>1, <2>1, <2>2, Zenon
  <2> QED
    BY <2>1, <2>2, <2>3, NoneAssumption DEF MeantFor, Goes, Addressed
<1>3. ASSUME NEW t \in due'
      PROVE  /\ t \in Sock /\ Unclosed(t) /\ sock[t].peer \in Client
             /\ PodOf[sock[t].at] \notin lateGc /\ ~unsent' =>
                  \E m \in FramesFor(sock[t].peer) : \A y \in Session :
                    y = sock[t].at => OnItsWay(y, m)'
  <2>1. PICK x \in Session \ {o}, c \in Client :
          /\ sub[x] = "subscribed" \/ PodOf[x] = PodOf[o]
          /\ clients[x][c] = t /\ t # None /\ to \in {c, Broadcast}
    BY <1>2
  <2>2. t \in Sock /\ Unclosed(t) /\ sock[t].peer = c /\ sock[t].at = x
    BY <2>1 DEF TypeOK, Types, Bound
  <2>3. ASSUME PodOf[x] \notin lateGc, ~unsent'
        PROVE  OnItsWay(x, [kind |-> "frame", to |-> to])'
    <3>1. clients[x] # NoClients
      BY <2>1 DEF NoClients
    <3>2. Live(x) /\ Live(o)
      BY <1>1, <1>2, <3>1 DEF RegistryInv
    <3>3. PodOf[x] # PodOf[o]
      BY <1>1, <2>1, <2>3, <3>2 DEF RegistryInv
    <3>4. [kind |-> "frame", to |-> to] \in Event \cup Frame
      BY DEF Frame
    <3>5. sent /\ Listens(x, o)
      BY <1>2, <2>1, <2>3, <3>3 DEF Listens
    <3> QED
      BY <1>1, <1>2, <3>4, <3>5, PublishKeeps
  <2>4. [kind |-> "frame", to |-> to] \in FramesFor(c)
    BY <2>1 DEF FramesFor
  <2> QED
    BY <2>2, <2>3, <2>4
<1>4. ASSUME NEW t \in due', PodOf[sock'[t].at] \notin lateGc', ~unsent' PROVE UnderWay(t)'
  <2>1. /\ t \in Sock /\ sock'[t].at = sock[t].at /\ sock'[t].peer = sock[t].peer
        /\ sock[t].at \in Session /\ PodOf[sock[t].at] \notin lateGc
    BY <1>1, <1>3, <1>4, AtTypes DEF registryVars, TypeOK
  <2>2. PICK m \in FramesFor(sock[t].peer) : \A y \in Session : y = sock[t].at => OnItsWay(y, m)'
    BY <1>3, <1>4, <2>1
  <2>3. \E i \in DOMAIN inbox'[sock[t].at] : inbox'[sock[t].at][i] = m
    <3>1. \A y \in Session : y = sock[t].at => \E i \in DOMAIN inbox'[y] : inbox'[y][i] = m
      BY <2>2 DEF OnItsWay
    <3> QED
      BY <2>1, <3>1
  <2> QED
    BY <2>1, <2>2, <2>3 DEF UnderWay, OnItsWay, FramesFor
<1>5. \A t \in due' : Unclosed(t)' /\ sock'[t].peer \in Client
  BY <1>1, <1>3 DEF Unclosed
<1> QED
  BY <1>4, <1>5 DEF FrameInv, FrameOnItsWay

\* Steps on the messages other than frames, and those that drop clients.
LEMMA OtherFrames ==
  ASSUME TypeOK, FrameInv, due' \subseteq due, UNCHANGED unsent, lateGc \subseteq lateGc',
         \A t \in due' : Unclosed(t)' /\ sock'[t].peer = sock[t].peer /\ sock'[t].at = sock[t].at,
         \A x \in Session : \A c \in Client : \A t \in due' : clients'[x][c] = t => clients[x][c] = t,
         \A x \in Session : \A c \in Client : \A m \in FramesFor(c) :
           clients[x] # NoClients /\ OnItsWay(x, m) => OnItsWay(x, m)'
  PROVE  FrameInv'
<1>1. ASSUME NEW t \in due'
      PROVE  clients'[sock[t].at][sock[t].peer] = t => clients[sock[t].at][sock[t].peer] = t
  BY <1>1, DueTypes
<1>2. ASSUME NEW t \in due', NEW x \in Session, NEW m \in FramesFor(sock[t].peer),
             x = sock[t].at, clients[x][sock[t].peer] = t, OnItsWay(x, m)
      PROVE  OnItsWay(x, m)'
  <2>1. sock[t].peer \in Client /\ t # None
    BY <1>2, DueTypes, NoneAssumption
  <2>2. clients[x] # NoClients
    BY <1>2, <2>1 DEF NoClients
  <2> QED
    BY <1>2, <2>1, <2>2
<1> QED
  BY <1>1, <1>2, FrameKept

LEMMA SocketFrames ==
  ASSUME TypeOK, RegistryInv, FrameInv, NEW s \in Sock, SocketStep(s)
  PROVE  FrameInv'
<1>1. ASSUME NEW o \in Session, AttachDaemon(s, o) PROVE FrameInv'
  <2>1. /\ ~Unclosed(s) /\ sock' = Bind(Closing({daemon[o]}), s, Daemon, o)
        /\ UNCHANGED <<lateGc, clients, inbox, frameVars>>
    BY <1>1 DEF AttachDaemon, Obtain
  <2>2. \A t \in Sock \ {s} : sock'[t] = Closing({daemon[o]})[t]
    BY <2>1, ClosingKeeps DEF Bind, TypeOK
  <2>3. \A t \in due : t \in Sock \ {s} /\ Unclosed(t)
    BY <2>1, DueTypes
  <2>4. ASSUME NEW t \in due'
        PROVE  Unclosed(t)' /\ sock'[t].peer = sock[t].peer /\ sock'[t].at = sock[t].at
    <3>1. t \in Sock \ {s} /\ Unclosed(t)
      BY <2>1, <2>3
    <3>2. /\ Closing({daemon[o]})[t].status # "idle" <=> Unclosed(t)
          /\ Closing({daemon[o]})[t].peer = sock[t].peer /\ Closing({daemon[o]})[t].at = sock[t].at
      BY <3>1, ClosingKeeps DEF TypeOK
    <3> QED
      BY <2>2, <3>1, <3>2 DEF Unclosed
  <2> QED
    BY <2>1, <2>4, OtherFrames DEF OnItsWay
<1>2. ASSUME NEW c \in Client, NEW o \in Session, NEW sent \in BOOLEAN,
             AttachClient(s, c, o, sent)
      PROVE  FrameInv'
  <2>1. /\ ~Unclosed(s) /\ sock' = Bind(sock, s, c, o) /\ Publish(o, Rejoined(c), sent)
        /\ clients' = [clients EXCEPT ![o][c] = s]
        /\ UNCHANGED <<lateGc, frameVars>>
    BY <1>2 DEF AttachClient, Obtain
  <2>2. \A t \in due : t \in Sock \ {s} /\ Unclosed(t)
    BY <2>1, DueTypes
  <2>3. \A t \in due' : Unclosed(t)' /\ sock'[t].peer = sock[t].peer /\ sock'[t].at = sock[t].at
    BY <2>1, <2>2 DEF Bind, TypeOK, Types, Unclosed
  <2>4. \A x \in Session : \A d \in Client : \A t \in due' : clients'[x][d] = t => clients[x][d] = t
    BY <2>1, <2>2 DEF TypeOK, Types
  <2>5. \A x \in Session : \A m : OnItsWay(x, m) => OnItsWay(x, m)'
    BY <2>1, EventTypes, PublishKeeps
  <2> QED
    BY <2>1, <2>3, <2>4, <2>5, OtherFrames
<1>3. ASSUME NEW sent \in BOOLEAN, Shutdown(s, sent) PROVE FrameInv'
  <2> DEFINE o == sock[s].at
  <2>1. /\ o \in Session /\ EvictClientsLocally(o) /\ Publish(o, Evict, sent)
        /\ UNCHANGED <<lateGc, frameVars>>
    BY <1>3, AtTypes DEF Shutdown, DaemonSpeaks, TypeOK, registryVars
  <2> HIDE DEF o
  <2>2. \A t \in due' : Unclosed(t)' /\ sock'[t].peer = sock[t].peer /\ sock'[t].at = sock[t].at
    BY <2>1, DueTypes, EvictTypes
  <2>3. \A x \in Session : \A d \in Client : \A t \in due' : clients'[x][d] = t => clients[x][d] = t
    BY <2>1, DueTypes, EvictTypes, NoneAssumption
  <2>4. \A x \in Session : \A m : OnItsWay(x, m) => OnItsWay(x, m)'
    BY <2>1, EventTypes, PublishKeeps
  <2> QED
    BY <2>1, <2>2, <2>3, <2>4, OtherFrames
<1>4. ASSUME NEW c \in Client, Revoke(s, c) PROVE FrameInv'
  <2> DEFINE o == sock[s].at
  <2>1. /\ sock' = Closing({clients[o][c]}) /\ clients' = [clients EXCEPT ![o][c] = None]
        /\ UNCHANGED <<lateGc, inbox, frameVars>>
    BY <1>4 DEF Revoke, registryVars
  <2> HIDE DEF o
  <2>2. \A t \in due' : Unclosed(t)' /\ sock'[t].peer = sock[t].peer /\ sock'[t].at = sock[t].at
    BY <2>1, DueTypes, ClosingKeeps DEF TypeOK, Unclosed
  <2>3. \A x \in Session : \A d \in Client : \A t \in due' : clients'[x][d] = t => clients[x][d] = t
    BY <2>1, DueTypes, NoneAssumption DEF TypeOK, Types
  <2> QED
    BY <2>1, <2>2, <2>3, OtherFrames DEF OnItsWay
<1>5. ASSUME NEW to \in Client \cup {Broadcast}, NEW sent \in BOOLEAN,
             SendFrame(s, to, sent)
      PROVE  FrameInv'
  BY <1>5, SendFrameDue
<1>6. CASE CloseDaemon(s) \/ \E c \in Client : CloseClient(s, c)
  <2> DEFINE o == sock[s].at
  <2>1. o \in Session /\ Closed(s) /\ MaybeGcSession(o) /\ UNCHANGED inbox
    BY <1>6, AtTypes DEF CloseDaemon, CloseClient, DaemonSpeaks, TypeOK
  <2>2. \A x \in Session : \A d \in Client : clients'[x][d] \in {clients[x][d], None}
    <3>1. CASE CloseDaemon(s)
      BY <3>1 DEF CloseDaemon
    <3>2. ASSUME NEW c \in Client, CloseClient(s, c)
          PROVE  \A x \in Session : \A d \in Client : clients'[x][d] \in {clients[x][d], None}
      <4>1. clients' = [clients EXCEPT ![o][c] = None]
        BY <3>2 DEF CloseClient, Detached
      <4> QED
        BY <4>1 DEF TypeOK, Types
    <3> QED
      BY <1>6, <3>1, <3>2
  <2> HIDE DEF o
  <2>3. due' = due \ {s} /\ unsent' = unsent /\ \A t \in Sock \ {s} : sock'[t] = sock[t]
    BY <2>1, ClosedKeeps DEF Closed, TypeOK
  <2>4. \A t \in due' : Unclosed(t)' /\ sock'[t].peer = sock[t].peer /\ sock'[t].at = sock[t].at
    BY <2>3, DueTypes DEF Unclosed
  <2>5. \A x \in Session : \A d \in Client : \A t \in due' : clients'[x][d] = t => clients[x][d] = t
    BY <2>2, <2>3, DueTypes, NoneAssumption
  <2> QED
    BY <2>1, <2>3, <2>4, <2>5, GcKeeps, OtherFrames DEF OnItsWay
<1> QED
  BY <1>1, <1>2, <1>3, <1>4, <1>5, <1>6 DEF SocketStep

LEMMA SessionFrames ==
  ASSUME TypeOK, RegistryInv, FrameInv, NEW o \in Session, SessionStep(o)
  PROVE  FrameInv'
<1>1. ASSUME NEW c \in Client, NEW sent \in BOOLEAN, Fire(o, c, sent) PROVE FrameInv'
  <2>1. Publish(o, PeerLeft(c), sent) /\ MaybeGcSession(o) /\ UNCHANGED <<clients, sock, frameVars>>
    BY <1>1 DEF Fire
  <2>2. \A x \in Session : \A m : OnItsWay(x, m) => OnItsWay(x, m)'
    BY <2>1, EventTypes, PublishKeeps
  <2> QED
    BY <2>1, <2>2, DueTypes, GcKeeps, OtherFrames DEF Unclosed
<1>2. CASE ReceiveEvict(o)
  <2>1. Receive(o, "evict_clients") /\ EvictClientsLocally(o) /\ MaybeGcSession(o) /\ UNCHANGED frameVars
    BY <1>2 DEF ReceiveEvict
  <2>2. \A t \in due' : Unclosed(t)' /\ sock'[t].peer = sock[t].peer /\ sock'[t].at = sock[t].at
    BY <2>1, DueTypes, EvictTypes
  <2>3. \A x \in Session : \A d \in Client : \A t \in due' : clients'[x][d] = t => clients[x][d] = t
    BY <2>1, DueTypes, EvictTypes, NoneAssumption
  <2>4. ASSUME NEW x \in Session, NEW c \in Client, NEW m \in FramesFor(c), OnItsWay(x, m)
        PROVE  OnItsWay(x, m)'
    <3>1. m # Head(inbox[o])
      BY <2>1 DEF FramesFor, Receive
    <3> QED
      BY <2>1, <2>4, <3>1, ReceiveKeeps
  <2> QED
    BY <2>1, <2>2, <2>3, <2>4, GcKeeps, OtherFrames
<1>3. CASE ReceivePeerLeft(o) \/ ReceiveRejoined(o)
  <2>1. PICK kind \in {"peer_left", "peer_rejoined"} : Receive(o, kind)
    BY <1>3 DEF ReceivePeerLeft, ReceiveRejoined
  <2>2. UNCHANGED <<clients, sock, frameVars>>
    BY <1>3 DEF ReceivePeerLeft, ReceiveRejoined, peerVars
  <2>3. lateGc \subseteq lateGc'
    BY <1>3, GcKeeps DEF ReceivePeerLeft, ReceiveRejoined, registryVars
  <2>4. ASSUME NEW x \in Session, NEW c \in Client, NEW m \in FramesFor(c), OnItsWay(x, m)
        PROVE  OnItsWay(x, m)'
    <3>1. m # Head(inbox[o])
      BY <2>1 DEF FramesFor, Receive
    <3> QED
      BY <2>1, <2>4, <3>1, ReceiveKeeps
  <2> QED
    BY <2>2, <2>3, <2>4, DueTypes, OtherFrames DEF Unclosed
<1>4. CASE ReceiveFrame(o)
  BY <1>4, ReceiveFrameKeeps
<1>5. CASE Quit(o)
  <2>1. clients[o] = NoClients
    BY <1>5 DEF Quit, RegistryInv, Live
  <2>2. \A x \in Session \ {o} : inbox'[x] = inbox[x]
    BY <1>5 DEF Quit, TypeOK, Types
  <2>3. UNCHANGED <<lateGc, clients, sock, frameVars>>
    BY <1>5 DEF Quit, registryVars, peerVars
  <2> QED
    BY <2>1, <2>2, <2>3, DueTypes, OtherFrames DEF Unclosed, OnItsWay
<1>6. CASE Subscribed(o)
  BY <1>6, DueTypes, OtherFrames DEF Subscribed, peerVars, Unclosed, OnItsWay
<1> QED
  BY <1>1, <1>2, <1>3, <1>4, <1>5, <1>6 DEF SessionStep

\* A frame of the daemon waits in the subscription of everybody it was meant for who has
\* not had it, unless its publication failed or a late collection has split the session
\* of his instance (_handleInbound, _publish).
THEOREM FramesArrive == Spec => []FrameOnItsWay
<1>1. Init => FrameInv
  BY DEF Init, FrameInv, FrameOnItsWay
<1>2. TypeOK /\ Good /\ FrameInv /\ [Next]_vars => FrameInv'
  <2>1. ASSUME TypeOK, FrameInv, UNCHANGED vars PROVE FrameInv'
    BY <2>1, DueTypes, OtherFrames DEF vars, registryVars, peerVars, Unclosed, OnItsWay
  <2> QED
    BY <2>1, SocketFrames, SessionFrames DEF Good, Next
<1>3. FrameInv => FrameOnItsWay
  BY DEF FrameInv
<1> QED
  BY <1>1, <1>2, <1>3, RelayTypes, RelayGood, PTL DEF Spec
=============================================================================
