--------------------------- MODULE SignalingProofs ---------------------------
(***************************************************************************)
(* Proofs about Signaling, for any number of instances, peers, sockets and *)
(* envelopes, and any cap.                                                 *)
(***************************************************************************)
EXTENDS Signaling, FiniteSetTheorems, TLAPS

-----------------------------------------------------------------------------
(* Sequences *)

LEMMA AppendFacts ==
  ASSUME NEW T, NEW s \in Seq(T), NEW v
  PROVE  /\ Len(Append(s, v)) = Len(s) + 1
         /\ DOMAIN Append(s, v) = 1..Len(s) + 1
         /\ \A k \in 1..Len(s) : Append(s, v)[k] = s[k]
         /\ Append(s, v)[Len(s) + 1] = v
         /\ v \in T => Append(s, v) \in Seq(T)
OBVIOUS

LEMMA TailFacts ==
  ASSUME NEW T, NEW s \in Seq(T), s # <<>>
  PROVE  /\ Head(s) = s[1] /\ s[1] \in T /\ 1 \in DOMAIN s
         /\ Tail(s) \in Seq(T) /\ Len(Tail(s)) = Len(s) - 1
         /\ \A k \in DOMAIN Tail(s) : k + 1 \in DOMAIN s /\ Tail(s)[k] = s[k + 1]
OBVIOUS

LEMMA FunctionIsSeq ==
  ASSUME NEW n \in Nat, NEW T, NEW f \in [1..n -> T]
  PROVE  f \in Seq(T) /\ Len(f) = n
OBVIOUS

-----------------------------------------------------------------------------
(* Types *)

\* The sockets there are.
LEMMA SocketTypes ==
  ASSUME TypeOK
  PROVE  /\ Len(conn) \in Nat /\ Len(conn) <= MaxConn
         /\ DOMAIN conn = 1..Len(conn) /\ DOMAIN inbox = 1..Len(conn) /\ DOMAIN ready = 1..Len(conn)
         /\ DOMAIN conn \subseteq Conn
         /\ \A c \in DOMAIN conn : /\ conn[c] \in Socket /\ inbox[c] \in Seq(Envelope)
                                   /\ ready[c] \in SUBSET Peer
                                   /\ SessionOf(c) \in Obj /\ conn[c].peer \in Peer
                                   /\ InstOf(c) \in Inst
<1>1. /\ conn \in Seq(Socket) /\ ready \in Seq(SUBSET Peer) /\ inbox \in Seq(Seq(Envelope))
      /\ Len(conn) <= MaxConn /\ Len(ready) = Len(conn) /\ Len(inbox) = Len(conn)
  BY DEF TypeOK
<1>2. DOMAIN conn = 1..Len(conn) /\ Len(conn) \in Nat
  BY <1>1
<1>3. DOMAIN inbox = 1..Len(conn) /\ DOMAIN ready = 1..Len(conn)
  BY <1>1
<1>4. DOMAIN conn \subseteq Conn
  BY <1>1, <1>2, MaxConnAssumption DEF Conn
<1>5. ASSUME NEW c \in DOMAIN conn
      PROVE  conn[c] \in Socket /\ inbox[c] \in Seq(Envelope) /\ ready[c] \in SUBSET Peer
  BY <1>1, <1>2, <1>3
<1>6. \A s \in Socket : s.obj \in Obj /\ s.peer \in Peer /\ s.obj[1] \in Inst
  BY DEF Socket, Obj
<1> QED
  BY <1>1, <1>2, <1>3, <1>4, <1>5, <1>6 DEF SessionOf, InstOf

\* _getOrCreateSession returns an object of the instance: each one there was
\* took a socket, so one is left for this one.
LEMMA LiveSessionType ==
  ASSUME TypeOK, NEW i \in Inst, Len(conn) + 1 \in Conn
  PROVE  /\ LiveSession(i) \in Obj /\ LiveSession(i)[1] = i /\ LiveSession(i)[2] # 0
         /\ current[i] # 0 => LiveSession(i)[2] = current[i] /\ IsLive(LiveSession(i))
<1> DEFINE used == {o \in Obj : o[1] = i /\ \E c \in DOMAIN conn : conn[c].obj = o}
           all == {conn[c].obj : c \in 1..Len(conn)}
           f == [c \in 1..Len(conn) |-> conn[c].obj]
<1>1. Len(conn) \in Nat /\ DOMAIN conn = 1..Len(conn) /\ Len(conn) + 1 <= MaxConn
  BY SocketTypes, MaxConnAssumption DEF Conn
<1>2. IsFiniteSet(1..Len(conn)) /\ Cardinality(1..Len(conn)) = Len(conn)
  <2>1. PICK n \in Nat : n = Len(conn)
    BY <1>1
  <2>2. 1 \in Int /\ n \in Int
    OBVIOUS
  <2>3. IsFiniteSet(1..n) /\ Cardinality(1..n) = IF 1 > n THEN 0 ELSE n - 1 + 1
    BY <2>2, FS_Interval
  <2>4. (IF 1 > n THEN 0 ELSE n - 1 + 1) = n
    OBVIOUS
  <2> QED
    BY <2>1, <2>3, <2>4
<1>3. f \in Surjection(1..Len(conn), all)
  BY DEF Surjection
<1>4. IsFiniteSet(all) /\ Cardinality(all) <= Cardinality(1..Len(conn))
  BY <1>2, <1>3, FS_Surjection
<1>5. used \in SUBSET all
  BY <1>1
<1>6. IsFiniteSet(used) /\ Cardinality(used) <= Cardinality(all)
  BY <1>4, <1>5, FS_Subset
<1>7. Cardinality(used) \in Nat /\ Cardinality(all) \in Nat
  BY <1>4, <1>6, FS_CardinalityType
<1>8. 1 + Cardinality(used) \in 1..MaxConn
  BY <1>1, <1>2, <1>4, <1>6, <1>7, MaxConnAssumption
<1>9. current[i] \in 0..MaxConn
  BY DEF TypeOK
<1>10. CASE current[i] = 0
  <2>1. LiveSession(i) = <<i, 1 + Cardinality(used)>>
    BY <1>10 DEF LiveSession
  <2> HIDE DEF used
  <2> QED
    BY <2>1, <1>8, <1>10, MaxConnAssumption DEF Obj
<1>11. CASE current[i] # 0
  <2>1. LiveSession(i) = <<i, current[i]>>
    BY <1>11 DEF LiveSession
  <2> QED
    BY <2>1, <1>9, <1>11, MaxConnAssumption DEF Obj, IsLive
<1> QED
  BY <1>10, <1>11

LEMMA StampedType ==
  ASSUME TypeOK, NEW c \in DOMAIN conn, NEW to \in Peer \cup {All}, NEW type \in {"signal", "bye", "error"}
  PROVE  Stamped(c, to, type) \in Envelope
BY SocketTypes DEF TypeOK, Stamped, Envelope

LEMMA SendToType ==
  ASSUME TypeOK, NEW C, NEW e \in Envelope, SendTo(C, e)
  PROVE  inbox' \in Seq(Seq(Envelope)) /\ Len(inbox') = Len(conn)
<1>1. /\ Len(conn) \in Nat /\ DOMAIN inbox = 1..Len(conn)
      /\ \A c \in 1..Len(conn) : inbox[c] \in Seq(Envelope)
  BY SocketTypes
<1>2. inbox' \in [1..Len(conn) -> Seq(Envelope)]
  BY <1>1, AppendFacts DEF SendTo
<1> QED
  BY <1>1, <1>2, FunctionIsSeq

LEMMA PublishType ==
  ASSUME TypeOK, NEW i \in Inst, NEW e \in Envelope, Publish(i, e)
  PROVE  subq' \in [Obj -> Seq(Message)]
<1>1. subq \in [Obj -> Seq(Message)]
  BY DEF TypeOK
<1>2. [origin |-> i, env |-> e] \in Message
  BY DEF Message
<1>3. \A o \in Obj : Append(subq[o], [origin |-> i, env |-> e]) \in Seq(Message)
  BY <1>1, <1>2
<1> QED
  BY <1>1, <1>3 DEF Publish

LEMMA InitType == Init => TypeOK
<1> SUFFICES ASSUME Init PROVE TypeOK
  OBVIOUS
<1>1. peers \in [Obj -> [Peer -> Conn \cup {NoConn}]]
  BY DEF Init, NoPeers
<1>2. /\ conn \in Seq(Socket) /\ ready \in Seq(SUBSET Peer) /\ inbox \in Seq(Seq(Envelope))
      /\ Len(conn) = 0 /\ Len(ready) = 0 /\ Len(inbox) = 0
  BY DEF Init
<1>3. subq \in [Obj -> Seq(Message)]
  BY DEF Init
<1> QED
  BY <1>1, <1>2, <1>3, MaxConnAssumption DEF Init, TypeOK

LEMMA AttachType ==
  ASSUME TypeOK, NEW i \in Inst, NEW p \in Peer, Attach(i, p)
  PROVE  TypeOK'
<1>1. PICK o \in Obj : o = LiveSession(i) /\ o[1] = i /\ Len(conn) + 1 \in Conn
  BY LiveSessionType DEF Attach
<1>2. PICK c \in Conn : c = Len(conn) + 1
  BY <1>1
<1>3. /\ Len(conn) \in Nat /\ Len(conn) <= MaxConn /\ c <= MaxConn
      /\ conn \in Seq(Socket) /\ ready \in Seq(SUBSET Peer) /\ inbox \in Seq(Seq(Envelope))
      /\ Len(ready) = Len(conn) /\ Len(inbox) = Len(conn)
      /\ DOMAIN conn = 1..Len(conn) /\ \A d \in DOMAIN conn : conn[d] \in Socket
  BY SocketTypes, <1>2, MaxConnAssumption DEF TypeOK, Conn
<1>4. current' \in [Inst -> 0..MaxConn]
  <2>1. o[2] \in 0..MaxConn
    BY MaxConnAssumption DEF Obj
  <2> QED
    BY <1>1, <2>1 DEF Attach, TypeOK
<1>5. sub' \in [Obj -> {"none", "pending", "active", "closing", "ended"}]
  BY <1>1 DEF Attach, TypeOK
<1>6. inbox' \in Seq(Seq(Envelope)) /\ Len(inbox') = Len(conn) + 1
  BY <1>3 DEF Attach
<1>7. PICK x \in Conn \cup {NoConn} : x = peers[o][p]
  BY DEF TypeOK
<1>8. subq' \in [Obj -> Seq(Message)] /\ sent' \in Nat
  BY DEF Attach, TypeOK
<1>9. /\ peers' \in [Obj -> [Peer -> Conn \cup {NoConn}]]
      /\ conn' \in Seq(Socket) /\ Len(conn') = Len(conn) + 1
      /\ ready' \in Seq(SUBSET Peer) /\ Len(ready') = Len(conn) + 1
  <2>1. CASE /\ conn' = Append(conn, [obj |-> o, peer |-> p, st |-> "refused"])
             /\ ready' = Append(ready, {})
             /\ UNCHANGED peers
    <3>1. [obj |-> o, peer |-> p, st |-> "refused"] \in Socket
      BY DEF Socket
    <3>2. conn' \in Seq(Socket) /\ Len(conn') = Len(conn) + 1
      BY <1>3, <2>1, <3>1
    <3>3. ready' \in Seq(SUBSET Peer) /\ Len(ready') = Len(conn) + 1
      BY <1>3, <2>1
    <3> QED
      BY <2>1, <3>2, <3>3 DEF TypeOK
  <2>2. CASE /\ conn' = Append(IF x = NoConn THEN conn
                                 ELSE [conn EXCEPT ![x] = [conn[x] EXCEPT !.st = "replaced"]],
                               [obj |-> o, peer |-> p, st |-> "open"])
             /\ peers' = [peers EXCEPT ![o][p] = c]
             /\ ready' = Append(ready, Attached(o) \ {p})
    <3>1. [obj |-> o, peer |-> p, st |-> "open"] \in Socket
      BY DEF Socket
    <3>2. PICK s : s = IF x = NoConn THEN conn
                         ELSE [conn EXCEPT ![x] = [conn[x] EXCEPT !.st = "replaced"]]
      OBVIOUS
    <3>3. s \in Seq(Socket) /\ Len(s) = Len(conn)
      <4>1. \A d \in DOMAIN conn : [conn[d] EXCEPT !.st = "replaced"] \in Socket
        BY <1>3 DEF Socket
      <4>2. conn \in [1..Len(conn) -> Socket]
        BY <1>3
      <4>3. x = NoConn => s \in [1..Len(conn) -> Socket]
        BY <3>2, <4>2
      <4>4. x # NoConn => s \in [1..Len(conn) -> Socket]
        <5> SUFFICES ASSUME x # NoConn PROVE s \in [1..Len(conn) -> Socket]
          OBVIOUS
        <5>1. s = [conn EXCEPT ![x] = [conn[x] EXCEPT !.st = "replaced"]]
          BY <3>2
        <5>2. x \in 1..Len(conn) => [conn[x] EXCEPT !.st = "replaced"] \in Socket
          BY <1>3, <4>1
        <5> QED
          BY <4>2, <5>1, <5>2
      <4>5. s \in [1..Len(conn) -> Socket]
        BY <4>3, <4>4
      <4> QED
        BY <1>3, <4>5, FunctionIsSeq
    <3>4. conn' \in Seq(Socket) /\ Len(conn') = Len(conn) + 1
      <4>1. conn' = Append(s, [obj |-> o, peer |-> p, st |-> "open"])
        BY <2>2, <3>2
      <4> QED
        BY <3>1, <3>3, <4>1, AppendFacts
    <3>5. ready' \in Seq(SUBSET Peer) /\ Len(ready') = Len(conn) + 1
      BY <1>3, <2>2 DEF Attached
    <3>6. peers' \in [Obj -> [Peer -> Conn \cup {NoConn}]]
      BY <2>2 DEF TypeOK
    <3> QED
      BY <3>4, <3>5, <3>6
  <2> QED
    BY <1>1, <1>2, <1>7, <2>1, <2>2 DEF Attach
<1> QED
  BY <1>2, <1>3, <1>4, <1>5, <1>6, <1>8, <1>9 DEF TypeOK

LEMMA InboundType ==
  ASSUME TypeOK, NEW c \in DOMAIN conn,
         \/ \E p \in Peer : InboundTargeted(c, p)
         \/ InboundBroadcast(c)
         \/ InboundInvalid(c)
  PROVE  TypeOK'
<1>1. /\ \A to \in Peer \cup {All}, type \in {"signal", "bye", "error"} : Stamped(c, to, type) \in Envelope
      /\ SessionOf(c) \in Obj /\ SessionOf(c)[1] \in Inst /\ conn[c].peer \in Peer
  BY StampedType, SocketTypes DEF SessionOf, InstOf
<1>2. sent' \in Nat /\ UNCHANGED <<current, peers, sub, conn, ready>>
  <2>1. sent' = sent + 1 /\ UNCHANGED <<current, peers, sub, conn, ready>>
    BY DEF InboundTargeted, InboundBroadcast, InboundInvalid
  <2> QED
    BY <2>1 DEF TypeOK
<1>3. subq' \in [Obj -> Seq(Message)] /\ inbox' \in Seq(Seq(Envelope)) /\ Len(inbox') = Len(conn)
  <2>1. CASE \E p \in Peer : InboundTargeted(c, p)
    <3>1. PICK p \in Peer : InboundTargeted(c, p)
      BY <2>1
    <3>2. PICK e \in Envelope : e = Stamped(c, p, "signal")
      BY <1>1
    <3>3. \/ SendTo({peers[SessionOf(c)][p]}, e) /\ UNCHANGED subq
          \/ Publish(SessionOf(c)[1], e) /\ UNCHANGED inbox
      BY <3>1, <3>2 DEF InboundTargeted
    <3> QED
      BY <1>1, <3>3, SendToType, PublishType DEF TypeOK
  <2>2. CASE InboundBroadcast(c)
    <3>1. PICK e \in Envelope : e = Stamped(c, All, "signal")
      BY <1>1
    <3>2. SendTo(OtherSockets(SessionOf(c), conn[c].peer), e) /\ Publish(SessionOf(c)[1], e)
      BY <2>2, <3>1 DEF InboundBroadcast
    <3> QED
      BY <1>1, <3>2, SendToType, PublishType
  <2>3. CASE InboundInvalid(c)
    <3>1. PICK e \in Envelope : e = Stamped(c, conn[c].peer, "error")
      BY <1>1
    <3>2. SendTo({peers[SessionOf(c)][conn[c].peer]}, e) /\ UNCHANGED subq
      BY <2>3, <3>1 DEF InboundInvalid
    <3> QED
      BY <3>2, SendToType DEF TypeOK
  <2> QED
    BY <2>1, <2>2, <2>3
<1> QED
  BY <1>2, <1>3 DEF TypeOK

LEMMA DetachType ==
  ASSUME TypeOK, NEW c \in DOMAIN conn, Detach(c)
  PROVE  TypeOK'
<1>1. /\ Stamped(c, All, "bye") \in Envelope
      /\ SessionOf(c) \in Obj /\ SessionOf(c)[1] \in Inst /\ conn[c].peer \in Peer
  BY StampedType, SocketTypes DEF SessionOf, InstOf
<1>2. PICK e \in Envelope : e = Stamped(c, All, "bye")
  BY <1>1
<1>3. PICK o \in Obj, p \in Peer : o = SessionOf(c) /\ p = conn[c].peer /\ o[1] \in Inst
  BY <1>1
<1>4. /\ Len(conn) \in Nat /\ DOMAIN conn = 1..Len(conn) /\ DOMAIN inbox = 1..Len(conn)
      /\ DOMAIN ready = 1..Len(conn)
      /\ \A d \in 1..Len(conn) : conn[d] \in Socket /\ inbox[d] \in Seq(Envelope) /\ ready[d] \in SUBSET Peer
      /\ conn \in Seq(Socket) /\ ready \in Seq(SUBSET Peer) /\ inbox \in Seq(Seq(Envelope))
  BY SocketTypes DEF TypeOK
<1>5. conn' \in Seq(Socket) /\ Len(conn') = Len(conn)
  <2>1. [conn[c] EXCEPT !.st = "gone"] \in Socket
    BY <1>4 DEF Socket
  <2>2. conn' = [conn EXCEPT ![c].st = "gone"]
    BY DEF Detach
  <2>3. conn' \in [1..Len(conn) -> Socket]
    BY <1>4, <2>1, <2>2
  <2> QED
    BY <1>4, <2>3, FunctionIsSeq
<1>6. ready' \in Seq(SUBSET Peer) /\ Len(ready') = Len(conn)
  <2>1. ready' = [ready EXCEPT ![c] = {}]
    BY DEF Detach
  <2>2. ready' \in [1..Len(conn) -> SUBSET Peer]
    BY <1>4, <2>1
  <2> QED
    BY <1>4, <2>2, FunctionIsSeq
<1>7. inbox' \in Seq(Seq(Envelope)) /\ Len(inbox') = Len(conn)
  <2>1. \A d \in 1..Len(conn) : Append(inbox[d], e) \in Seq(Envelope)
    BY <1>4
  <2>2. \/ inbox' = [d \in DOMAIN inbox |->
                       CASE d = c -> <<>>
                         [] d \in LeaveNotice(o, p) -> Append(inbox[d], e)
                         [] OTHER -> inbox[d]]
        \/ inbox' = [inbox EXCEPT ![c] = <<>>]
    BY <1>2, <1>3 DEF Detach
  <2>3. CASE inbox' = [d \in DOMAIN inbox |->
                       CASE d = c -> <<>>
                         [] d \in LeaveNotice(o, p) -> Append(inbox[d], e)
                         [] OTHER -> inbox[d]]
    <3>1. \A d \in 1..Len(conn) : inbox'[d] \in Seq(Envelope)
      <4> TAKE d \in 1..Len(conn)
      <4>1. inbox'[d] = CASE d = c -> <<>>
                         [] d \in LeaveNotice(o, p) -> Append(inbox[d], e)
                         [] OTHER -> inbox[d]
        BY <1>4, <2>3
      <4>2. inbox'[d] \in {<<>>, Append(inbox[d], e), inbox[d]}
        BY <4>1
      <4>3. <<>> \in Seq(Envelope)
        OBVIOUS
      <4> QED
        BY <1>4, <2>1, <4>2, <4>3
    <3>2. inbox' \in [1..Len(conn) -> Seq(Envelope)]
      BY <1>4, <2>3, <3>1
    <3> QED
      BY <1>4, <3>2, FunctionIsSeq
  <2>4. CASE inbox' = [inbox EXCEPT ![c] = <<>>]
    <3>1. inbox' \in [1..Len(conn) -> Seq(Envelope)]
      BY <1>4, <2>4
    <3> QED
      BY <1>4, <3>1, FunctionIsSeq
  <2> QED
    BY <2>2, <2>3, <2>4
<1>8. /\ current' \in [Inst -> 0..MaxConn]
      /\ sub' \in [Obj -> {"none", "pending", "active", "closing", "ended"}]
      /\ peers' \in [Obj -> [Peer -> Conn \cup {NoConn}]]
      /\ subq' \in [Obj -> Seq(Message)] /\ sent' \in Nat
  <2>1. CASE UNCHANGED <<current, peers, sub, subq, sent>>
    BY <2>1 DEF TypeOK
  <2>2. CASE /\ sent' = sent + 1 /\ peers' = [peers EXCEPT ![o][p] = NoConn]
             /\ Publish(o[1], e) /\ EndIfEmpty(o, p)
    <3>1. subq' \in [Obj -> Seq(Message)]
      BY <1>3, <2>2, PublishType
    <3>2. \/ UNCHANGED <<current, sub>>
          \/ current' = [current EXCEPT ![o[1]] = 0] /\ sub' = [sub EXCEPT ![o] = "closing"]
      BY <2>2 DEF EndIfEmpty
    <3>3. current' \in [Inst -> 0..MaxConn]
      <4>1. 0 \in 0..MaxConn /\ current \in [Inst -> 0..MaxConn]
        BY MaxConnAssumption DEF TypeOK
      <4> QED
        BY <3>2, <4>1
    <3>4. sub' \in [Obj -> {"none", "pending", "active", "closing", "ended"}]
      BY <3>2 DEF TypeOK
    <3>5. peers' \in [Obj -> [Peer -> Conn \cup {NoConn}]]
      BY <2>2 DEF TypeOK
    <3>6. sent' \in Nat
      BY <2>2 DEF TypeOK
    <3> QED
      BY <3>1, <3>3, <3>4, <3>5, <3>6
  <2> QED
    BY <1>2, <1>3, <2>1, <2>2 DEF Detach
<1> QED
  BY <1>5, <1>6, <1>7, <1>8 DEF TypeOK

LEMMA RedisType ==
  ASSUME TypeOK, NEW o \in Obj, Subscribed(o) \/ Unsubscribed(o) \/ HandleRedisEnvelope(o)
  PROVE  TypeOK'
<1>1. CASE Subscribed(o)
  BY <1>1 DEF Subscribed, TypeOK
<1>2. CASE Unsubscribed(o)
  <2>1. subq' \in [Obj -> Seq(Message)] /\ sub' \in [Obj -> {"none", "pending", "active", "closing", "ended"}]
    BY <1>2 DEF Unsubscribed, TypeOK
  <2> QED
    BY <1>2, <2>1 DEF Unsubscribed, TypeOK
<1>3. CASE HandleRedisEnvelope(o)
  <2>1. PICK s \in Seq(Message) : s = subq[o]
    BY DEF TypeOK
  <2>2. s # <<>> /\ subq' = [subq EXCEPT ![o] = Tail(@)] /\ SendTo(Recipients(o, Head(s)), Head(s).env)
    BY <1>3, <2>1 DEF HandleRedisEnvelope
  <2>3. Head(s) \in Message /\ Tail(s) \in Seq(Message)
    BY <2>2, TailFacts
  <2>4. PICK e \in Envelope : e = Head(s).env
    BY <2>3 DEF Message
  <2>5. inbox' \in Seq(Seq(Envelope)) /\ Len(inbox') = Len(conn)
    BY <2>2, <2>4, SendToType
  <2>6. subq' \in [Obj -> Seq(Message)]
    BY <2>1, <2>2, <2>3 DEF TypeOK
  <2> QED
    BY <1>3, <2>5, <2>6 DEF HandleRedisEnvelope, TypeOK
<1> QED
  BY <1>1, <1>2, <1>3

\* Each action, and a step that changes nothing.
LEMMA NextType == TypeOK /\ [Next]_vars => TypeOK'
<1> SUFFICES ASSUME TypeOK, [Next]_vars PROVE TypeOK'
  OBVIOUS
<1>1. CASE UNCHANGED vars
  BY <1>1 DEF vars, TypeOK
<1>2. CASE Next
  BY <1>2, AttachType, InboundType, DetachType, RedisType DEF Next
<1> QED
  BY <1>1, <1>2

\* The sockets, sessions, subscriptions and envelopes are what the types of the
\* service say: an instance has an object left for every session it begins.
THEOREM TypeCorrect == Spec => []TypeOK
<1>1. Init => TypeOK
  BY InitType
<1>2. TypeOK /\ [Next]_vars => TypeOK'
  BY NextType
<1> QED
  BY <1>1, <1>2, PTL DEF Spec

-----------------------------------------------------------------------------
(* The sockets of a session *)

LEMMA ObjectsApart ==
  ASSUME NEW x \in Obj, NEW o \in Obj
  PROVE  /\ x[1] \in Inst /\ x[2] \in 1..MaxConn /\ x[2] # 0
         /\ x[1] = o[1] /\ x[2] = o[2] => x = o
BY MaxConnAssumption DEF Obj

\* The session of the socket and peer p of a session.
LEMMA AttachedFacts ==
  ASSUME TypeOK, SocketInv, NEW o \in Obj, NEW p \in Peer, peers[o][p] # NoConn
  PROVE  /\ p \in Attached(o) /\ peers[o][p] \in DOMAIN conn /\ IsLive(o)
         /\ SessionOf(peers[o][p]) = o /\ conn[peers[o][p]].peer = p /\ conn[peers[o][p]].st = "open"
<1>1. p \in Attached(o)
  BY DEF Attached
<1>2. /\ ~IsLive(o) => Attached(o) = {}
      /\ \A q \in Attached(o) : conn[peers[o][q]] = [obj |-> o, peer |-> q, st |-> "open"]
      /\ \A q \in Attached(o) : peers[o][q] \in DOMAIN conn
  BY DEF SocketInv, SessionsEndWithTheirPeers
<1>3. /\ peers[o][p] \in DOMAIN conn /\ IsLive(o)
      /\ conn[peers[o][p]] = [obj |-> o, peer |-> p, st |-> "open"]
  BY <1>1, <1>2
<1>4. PICK r : r = conn[peers[o][p]]
  OBVIOUS
<1>5. r.obj = o /\ r.peer = p /\ r.st = "open"
  BY <1>3, <1>4
<1> QED
  BY <1>1, <1>3, <1>4, <1>5 DEF SessionOf

\* The parts of SocketInv about one session object and about one socket.
SessionSound(o) ==
  /\ IsLive(o) => Attached(o) # {} /\ sub[o] \in {"pending", "active"}
  /\ ~IsLive(o) => Attached(o) = {} /\ sub[o] \in {"none", "closing", "ended"}
  /\ IsFiniteSet(Attached(o)) /\ Cardinality(Attached(o)) <= Cap
  /\ \A p \in Attached(o) : /\ conn[peers[o][p]] = [obj |-> o, peer |-> p, st |-> "open"]
                            /\ peers[o][p] \in DOMAIN conn
SocketSound(c) == conn[c].st = "open" => IsCurrentSocket(c)

LEMMA SocketInvParts ==
  SocketInv <=> (\A o \in Obj : SessionSound(o)) /\ (\A c \in DOMAIN conn : SocketSound(c))
BY DEF SocketInv, SessionsEndWithTheirPeers, SessionSound, SocketSound

LEMMA SocketInvPartsNext ==
  SocketInv' <=> (\A o \in Obj : SessionSound(o)') /\ (\A c \in DOMAIN conn' : SocketSound(c)')
BY DEF SocketInv, SessionsEndWithTheirPeers, SessionSound, SocketSound, IsLive, Attached

LEMMA InitSocket == Init => SocketInv
<1> SUFFICES ASSUME Init PROVE SocketInv
  OBVIOUS
<1>1. \A o \in Obj : Attached(o) = {} /\ ~IsLive(o) /\ sub[o] = "none"
  <2> TAKE o \in Obj
  <2>1. Attached(o) = {}
    BY DEF Attached, Init, NoPeers
  <2> QED
    BY <2>1, ObjectsApart DEF IsLive, Init
<1>2. IsFiniteSet({}) /\ Cardinality({}) <= Cap
  BY FS_EmptySet, CapAssumption
<1>3. DOMAIN conn = {}
  BY DEF Init
<1> QED
  BY <1>1, <1>2, <1>3, SocketInvParts DEF SessionSound

\* What attach does to the session o with the socket c: it is refused by a full
\* session that lives, or it takes its peer's place.
AttachesTo(i, p, o, c) ==
  /\ o[1] = i /\ c = Len(conn) + 1 /\ c \notin DOMAIN conn /\ DOMAIN conn' = DOMAIN conn \cup {c}
  /\ current' = [current EXCEPT ![i] = o[2]]
  /\ sub' = [sub EXCEPT ![o] = IF IsLive(o) THEN @ ELSE "pending"]
  /\ current[i] \in {0, o[2]}
  /\ inbox' = Append(inbox, <<>>)
  /\ \/ /\ IsLive(o) /\ UNCHANGED peers
        /\ conn'[c] = [obj |-> o, peer |-> p, st |-> "refused"]
        /\ \A d \in DOMAIN conn : conn'[d] = conn[d]
        /\ ready' = Append(ready, {})
     \/ /\ ~AtCap(o) /\ peers' = [peers EXCEPT ![o][p] = c]
        /\ conn'[c] = [obj |-> o, peer |-> p, st |-> "open"]
        /\ \A d \in DOMAIN conn :
             conn'[d] = IF d = peers[o][p] THEN [conn[d] EXCEPT !.st = "replaced"] ELSE conn[d]
        /\ ready' = Append(ready, Attached(o) \ {p})

LEMMA AttachEffect ==
  ASSUME TypeOK, SocketInv, NEW i \in Inst, NEW p \in Peer, Attach(i, p)
  PROVE  \E o \in Obj, c \in Conn : AttachesTo(i, p, o, c)
<1>1. PICK o \in Obj : /\ o = LiveSession(i) /\ o[1] = i /\ Len(conn) + 1 \in Conn /\ o[2] # 0
                       /\ current[i] # 0 => o[2] = current[i] /\ IsLive(o)
  BY LiveSessionType DEF Attach
<1>2. PICK c \in Conn : c = Len(conn) + 1
  BY <1>1
<1>3. conn \in Seq(Socket) /\ DOMAIN conn = 1..Len(conn) /\ Len(conn) \in Nat
  BY DEF TypeOK
<1>4. PICK x \in Conn \cup {NoConn} : x = peers[o][p]
  BY DEF TypeOK
<1>6. /\ current' = [current EXCEPT ![i] = o[2]]
      /\ sub' = [sub EXCEPT ![o] = IF current[i] = 0 THEN "pending" ELSE @]
      /\ inbox' = Append(inbox, <<>>)
      /\ \/ /\ AtCap(o)
            /\ conn' = Append(conn, [obj |-> o, peer |-> p, st |-> "refused"])
            /\ ready' = Append(ready, {})
            /\ UNCHANGED peers
         \/ /\ ~AtCap(o)
            /\ conn' = Append(IF x = NoConn THEN conn
                                ELSE [conn EXCEPT ![x] = [conn[x] EXCEPT !.st = "replaced"]],
                              [obj |-> o, peer |-> p, st |-> "open"])
            /\ peers' = [peers EXCEPT ![o][p] = c]
            /\ ready' = Append(ready, Attached(o) \ {p})
  BY <1>1, <1>2, <1>4 DEF Attach
<1>7. IsLive(o) <=> current[i] # 0
  BY <1>1 DEF IsLive
<1>8. sub' = [sub EXCEPT ![o] = IF IsLive(o) THEN @ ELSE "pending"]
  BY <1>6, <1>7
<1>9. ~IsLive(o) => ~AtCap(o)
  <2>1. ~IsLive(o) => Attached(o) = {}
    BY DEF SocketInv, SessionsEndWithTheirPeers
  <2> QED
    BY <2>1, FS_EmptySet, CapAssumption DEF AtCap
<1>10. \/ /\ IsLive(o) /\ UNCHANGED peers
          /\ DOMAIN conn' = DOMAIN conn \cup {c}
          /\ conn'[c] = [obj |-> o, peer |-> p, st |-> "refused"]
          /\ \A d \in DOMAIN conn : conn'[d] = conn[d]
          /\ ready' = Append(ready, {})
       \/ /\ ~AtCap(o) /\ peers' = [peers EXCEPT ![o][p] = c]
          /\ DOMAIN conn' = DOMAIN conn \cup {c}
          /\ conn'[c] = [obj |-> o, peer |-> p, st |-> "open"]
          /\ \A d \in DOMAIN conn :
               conn'[d] = IF d = x THEN [conn[d] EXCEPT !.st = "replaced"] ELSE conn[d]
          /\ ready' = Append(ready, Attached(o) \ {p})
  <2>1. CASE /\ AtCap(o)
             /\ conn' = Append(conn, [obj |-> o, peer |-> p, st |-> "refused"])
             /\ ready' = Append(ready, {})
             /\ UNCHANGED peers
    <3>1. /\ DOMAIN conn' = DOMAIN conn \cup {c}
          /\ conn'[c] = [obj |-> o, peer |-> p, st |-> "refused"]
          /\ \A d \in DOMAIN conn : conn'[d] = conn[d]
      BY <2>1, <1>2, <1>3, AppendFacts
    <3> QED
      BY <2>1, <3>1, <1>9
  <2>2. CASE /\ ~AtCap(o)
             /\ conn' = Append(IF x = NoConn THEN conn
                                 ELSE [conn EXCEPT ![x] = [conn[x] EXCEPT !.st = "replaced"]],
                               [obj |-> o, peer |-> p, st |-> "open"])
             /\ peers' = [peers EXCEPT ![o][p] = c]
             /\ ready' = Append(ready, Attached(o) \ {p})
    <3>1. PICK s : s = IF x = NoConn THEN conn
                         ELSE [conn EXCEPT ![x] = [conn[x] EXCEPT !.st = "replaced"]]
      OBVIOUS
    <3>2. x # NoConn => x \in DOMAIN conn
      BY <1>4, AttachedFacts
    <3>3. NoConn \notin DOMAIN conn
      BY NoConnAssumption, SocketTypes
    <3>4. x = NoConn => s = conn
      BY <3>1
    <3>5. x # NoConn => s = [conn EXCEPT ![x] = [conn[x] EXCEPT !.st = "replaced"]]
      BY <3>1
    <3>6. /\ DOMAIN s = 1..Len(conn)
          /\ \A d \in DOMAIN conn : s[d] = IF d = x THEN [conn[d] EXCEPT !.st = "replaced"] ELSE conn[d]
      BY <3>2, <3>3, <3>4, <3>5, <1>3
    <3>7. s \in [1..Len(conn) -> Socket]
      <4>1. \A d \in DOMAIN conn : [conn[d] EXCEPT !.st = "replaced"] \in Socket /\ conn[d] \in Socket
        BY SocketTypes DEF Socket
      <4>2. x = NoConn => s \in [1..Len(conn) -> Socket]
        BY <3>4, <1>3
      <4>3. x # NoConn => s \in [1..Len(conn) -> Socket]
        <5> SUFFICES ASSUME x # NoConn PROVE s \in [1..Len(conn) -> Socket]
          OBVIOUS
        <5>1. PICK v \in Socket : v = [conn[x] EXCEPT !.st = "replaced"]
          BY <4>1, <3>2
        <5>2. s = [conn EXCEPT ![x] = v]
          BY <3>5, <5>1
        <5>3. conn \in [1..Len(conn) -> Socket]
          BY <1>3
        <5> QED
          BY <5>2, <5>3
      <4> QED
        BY <4>2, <4>3
    <3>8. s \in Seq(Socket) /\ Len(s) = Len(conn)
      BY <3>7, <1>3, FunctionIsSeq
    <3>9. conn' = Append(s, [obj |-> o, peer |-> p, st |-> "open"])
      BY <2>2, <3>1
    <3>10. /\ DOMAIN conn' = DOMAIN conn \cup {c}
           /\ conn'[c] = [obj |-> o, peer |-> p, st |-> "open"]
           /\ \A d \in DOMAIN conn : conn'[d] = s[d]
      BY <3>8, <3>9, <1>2, <1>3, AppendFacts
    <3> QED
      BY <2>2, <3>6, <3>10
  <2> QED
    BY <1>6, <2>1, <2>2
<1>11. c \notin DOMAIN conn
  BY <1>2, <1>3
<1>12. current[i] \in {0, o[2]}
  BY <1>1
<1> WITNESS o \in Obj, c \in Conn
<1>13. current' = [current EXCEPT ![i] = o[2]] /\ inbox' = Append(inbox, <<>>)
  BY <1>6
<1>14. o[1] = i
  BY <1>1
<1> QED
  BY <1>2, <1>4, <1>8, <1>10, <1>11, <1>12, <1>13, <1>14 DEF AttachesTo

LEMMA AttachSocket ==
  ASSUME TypeOK, SocketInv, NEW i \in Inst, NEW p \in Peer, Attach(i, p)
  PROVE  SocketInv'
<1>0. PICK o \in Obj, c \in Conn : AttachesTo(i, p, o, c)
  BY AttachEffect
<1>1. /\ o[1] = i /\ c = Len(conn) + 1 /\ c \notin DOMAIN conn /\ DOMAIN conn' = DOMAIN conn \cup {c}
      /\ current' = [current EXCEPT ![i] = o[2]]
      /\ sub' = [sub EXCEPT ![o] = IF IsLive(o) THEN @ ELSE "pending"]
      /\ current[i] \in {0, o[2]}
      /\ \/ /\ IsLive(o) /\ UNCHANGED peers
            /\ conn'[c] = [obj |-> o, peer |-> p, st |-> "refused"]
            /\ \A d \in DOMAIN conn : conn'[d] = conn[d]
         \/ /\ ~AtCap(o) /\ peers' = [peers EXCEPT ![o][p] = c]
            /\ conn'[c] = [obj |-> o, peer |-> p, st |-> "open"]
            /\ \A d \in DOMAIN conn :
                 conn'[d] = IF d = peers[o][p] THEN [conn[d] EXCEPT !.st = "replaced"] ELSE conn[d]
  BY <1>0 DEF AttachesTo
<1>2. /\ \A x \in Obj : SessionSound(x)
      /\ \A d \in DOMAIN conn : SocketSound(d)
  BY SocketInvParts
<1>3. /\ peers \in [Obj -> [Peer -> Conn \cup {NoConn}]]
      /\ current \in [Inst -> 0..MaxConn] /\ sub \in [Obj -> {"none", "pending", "active", "closing", "ended"}]
  BY DEF TypeOK
<1>4. c # NoConn
  BY NoConnAssumption
\* Which sessions live, and that the others are as they were.
<1>5. IsLive(o)' /\ sub'[o] \in {"pending", "active"}
  <2>1. IsLive(o)'
    BY <1>1, <1>3 DEF IsLive
  <2>2. sub'[o] = IF IsLive(o) THEN sub[o] ELSE "pending"
    BY <1>1, <1>3
  <2>3. IsLive(o) => sub[o] \in {"pending", "active"}
    BY <1>2 DEF SessionSound
  <2> QED
    BY <2>1, <2>2, <2>3
<1>6. ASSUME NEW x \in Obj, x # o
      PROVE  (IsLive(x)' <=> IsLive(x)) /\ sub'[x] = sub[x] /\ peers'[x] = peers[x]
  <2>1. sub'[x] = sub[x] /\ peers'[x] = peers[x]
    BY <1>1, <1>3, <1>6
  <2>2. x[1] # i \/ x[2] # o[2]
    BY <1>1, <1>6, ObjectsApart
  <2>3. x[2] # 0 /\ x[1] \in Inst
    BY ObjectsApart
  <2>4. IsLive(x)' <=> IsLive(x)
    BY <1>1, <1>3, <2>2, <2>3 DEF IsLive
  <2> QED
    BY <2>1, <2>4
<1>7. CASE /\ IsLive(o) /\ UNCHANGED peers
           /\ conn'[c] = [obj |-> o, peer |-> p, st |-> "refused"]
           /\ \A d \in DOMAIN conn : conn'[d] = conn[d]
  <2>1. ASSUME NEW x \in Obj
        PROVE  SessionSound(x)'
    <3>1. Attached(x)' = Attached(x)
      BY <1>7 DEF Attached
    <3>2. IsLive(x)' <=> IsLive(x)
      BY <1>5, <1>6, <1>7
    <3>3. sub'[x] = sub[x]
      BY <1>1, <1>3, <1>7
    <3> QED
      BY <1>1, <1>2, <1>7, <3>1, <3>2, <3>3 DEF SessionSound
  <2>2. ASSUME NEW d \in DOMAIN conn'
        PROVE  SocketSound(d)'
    <3>1. CASE d = c
      BY <1>7, <3>1 DEF SocketSound
    <3>2. CASE d # c
      BY <1>1, <1>2, <1>7, <3>2 DEF SocketSound, IsCurrentSocket, SessionOf
    <3> QED
      BY <3>1, <3>2
  <2> QED
    BY <2>1, <2>2, SocketInvPartsNext
<1>8. CASE /\ ~AtCap(o) /\ peers' = [peers EXCEPT ![o][p] = c]
           /\ conn'[c] = [obj |-> o, peer |-> p, st |-> "open"]
           /\ \A d \in DOMAIN conn :
                conn'[d] = IF d = peers[o][p] THEN [conn[d] EXCEPT !.st = "replaced"] ELSE conn[d]
  <2>1. peers'[o] = [peers[o] EXCEPT ![p] = c]
    BY <1>3, <1>8
  <2>2. Attached(o)' = Attached(o) \cup {p}
    BY <1>3, <1>4, <2>1 DEF Attached
  <2>3. IsFiniteSet(Attached(o)') /\ Cardinality(Attached(o)') <= Cap
    <3>1. IsFiniteSet(Attached(o)) /\ Cardinality(Attached(o)) < Cap
      <4>1. IsFiniteSet(Attached(o))
        BY <1>2 DEF SessionSound
      <4>2. Cardinality(Attached(o)) \in Nat
        BY <4>1, FS_CardinalityType
      <4> QED
        BY <1>8, <4>1, <4>2, CapAssumption DEF AtCap
    <3>2. Cardinality(Attached(o)) \in Nat
      BY <3>1, FS_CardinalityType
    <3>3. PICK S : S = Attached(o)
      OBVIOUS
    <3>4. /\ IsFiniteSet(S \cup {p})
          /\ Cardinality(S \cup {p}) = IF p \in S THEN Cardinality(S) ELSE Cardinality(S) + 1
      BY <3>1, <3>3, FS_AddElement
    <3> QED
      BY <2>2, <3>1, <3>2, <3>3, <3>4, CapAssumption
  \* The socket a peer had is nobody else's.
  <2>4. ASSUME NEW x \in Obj, NEW q \in Peer, peers[x][q] # NoConn, x # o \/ q # p
        PROVE  /\ peers[x][q] \in DOMAIN conn
               /\ conn'[peers[x][q]] = [obj |-> x, peer |-> q, st |-> "open"]
    <3>1. /\ peers[x][q] \in DOMAIN conn
          /\ conn[peers[x][q]] = [obj |-> x, peer |-> q, st |-> "open"]
      BY <1>2, <2>4 DEF SessionSound, Attached
    <3>2. peers[o][p] # NoConn => conn[peers[o][p]] = [obj |-> o, peer |-> p, st |-> "open"]
      BY <1>2 DEF SessionSound, Attached
    <3>3. peers[x][q] # peers[o][p]
      BY <2>4, <3>1, <3>2
    <3> QED
      BY <1>8, <3>1, <3>3
  <2>5. ASSUME NEW x \in Obj
        PROVE  SessionSound(x)'
    <3>1. CASE x = o
      <4>1. ASSUME NEW q \in Attached(o)'
            PROVE  /\ conn'[peers'[o][q]] = [obj |-> o, peer |-> q, st |-> "open"]
                   /\ peers'[o][q] \in DOMAIN conn'
        <5>1. q \in Peer
          BY DEF Attached
        <5>2. CASE q = p
          BY <1>1, <1>3, <1>8, <2>1, <5>2
        <5>3. CASE q # p
          <6>1. peers'[o][q] = peers[o][q] /\ peers[o][q] # NoConn
            BY <1>3, <2>1, <2>2, <5>1, <5>3 DEF Attached
          <6> QED
            BY <1>1, <2>4, <5>1, <5>3, <6>1
        <5> QED
          BY <5>2, <5>3
      <4> QED
        BY <1>5, <2>2, <2>3, <3>1, <4>1 DEF SessionSound
    <3>2. CASE x # o
      <4>1. Attached(x)' = Attached(x)
        BY <1>6, <3>2 DEF Attached
      <4>2. \A q \in Attached(x) : /\ conn'[peers'[x][q]] = [obj |-> x, peer |-> q, st |-> "open"]
                                   /\ peers'[x][q] \in DOMAIN conn'
        BY <1>1, <1>6, <2>4, <3>2 DEF Attached
      <4> QED
        BY <1>2, <1>6, <3>2, <4>1, <4>2 DEF SessionSound
    <3> QED
      BY <3>1, <3>2
  <2>6. ASSUME NEW d \in DOMAIN conn'
        PROVE  SocketSound(d)'
    <3>1. CASE d = c
      BY <1>3, <1>8, <2>1, <3>1 DEF SocketSound, IsCurrentSocket, SessionOf
    <3>2. CASE d # c /\ conn'[d].st = "open"
      <4>1. d \in DOMAIN conn
        BY <1>1, <3>2
      <4>2. PICK r \in Socket : r = conn[d]
        BY <4>1, SocketTypes
      <4>3. d # peers[o][p]
        <5>1. [r EXCEPT !.st = "replaced"].st = "replaced"
          BY DEF Socket
        <5> QED
          BY <1>8, <3>2, <4>1, <4>2, <5>1
      <4>4. conn'[d] = conn[d]
        BY <1>8, <4>1, <4>3
      <4>5. peers[r.obj][r.peer] = d
        BY <1>2, <3>2, <4>1, <4>2, <4>4 DEF SocketSound, IsCurrentSocket, SessionOf
      <4>6. r.obj \in Obj /\ r.peer \in Peer
        BY DEF Socket
      <4>7. peers'[r.obj][r.peer] = d
        BY <1>3, <1>8, <4>3, <4>5, <4>6
      <4> QED
        BY <4>2, <4>4, <4>7 DEF SocketSound, IsCurrentSocket, SessionOf
    <3> QED
      BY <3>1, <3>2 DEF SocketSound
  <2> QED
    BY <2>5, <2>6, SocketInvPartsNext
<1> QED
  BY <1>1, <1>7, <1>8

\* What the end of a socket does: the socket its peer has leaves the session,
\* and an open one is the socket its peer has.
DetachesFrom(c, o, p) ==
  /\ o = SessionOf(c) /\ p = conn[c].peer
  /\ DOMAIN conn' = DOMAIN conn
  /\ conn'[c] = [obj |-> o, peer |-> p, st |-> "gone"]
  /\ \A d \in DOMAIN conn \ {c} : conn'[d] = conn[d]
  /\ \/ /\ peers[o][p] = c /\ c # NoConn /\ conn[c].st = "open"
        /\ peers' = [peers EXCEPT ![o][p] = NoConn]
        /\ EndIfEmpty(o, p)
     \/ /\ conn[c].st # "open" /\ peers[o][p] # c
        /\ UNCHANGED <<current, peers, sub>>

LEMMA DetachEffect ==
  ASSUME TypeOK, SocketInv, NEW c \in DOMAIN conn, Detach(c)
  PROVE  \E o \in Obj, p \in Peer : DetachesFrom(c, o, p)
<1>1. PICK r \in Socket : r = conn[c]
  BY SocketTypes
<1>2. PICK o \in Obj, p \in Peer : o = r.obj /\ p = r.peer
  BY DEF Socket
<1>3. o = SessionOf(c) /\ p = conn[c].peer
  BY <1>1, <1>2 DEF SessionOf
<1>4. conn' = [conn EXCEPT ![c] = [r EXCEPT !.st = "gone"]]
  BY <1>1 DEF Detach
<1>5. DOMAIN conn' = DOMAIN conn /\ \A d \in DOMAIN conn \ {c} : conn'[d] = conn[d]
  BY <1>4
<1>6. conn'[c] = [obj |-> o, peer |-> p, st |-> "gone"]
  BY <1>2, <1>4 DEF Socket
<1>7. c # NoConn
  BY NoConnAssumption, SocketTypes
<1>8. conn[c].st = "open" <=> Speaks(c) /\ IsCurrentSocket(c)
  <2>1. conn[c].st = "open" => Speaks(c) /\ IsCurrentSocket(c)
    BY DEF SocketInv, Speaks
  <2>2. IsCurrentSocket(c) => conn[c].st = "open"
    BY <1>3, <1>7, AttachedFacts DEF IsCurrentSocket
  <2> QED
    BY <2>1, <2>2
<1>9. IsCurrentSocket(c) <=> peers[o][p] = c
  BY <1>3 DEF IsCurrentSocket
<1>10. CASE Speaks(c) /\ IsCurrentSocket(c)
  <2>1. peers' = [peers EXCEPT ![o][p] = NoConn] /\ EndIfEmpty(o, p)
    BY <1>3, <1>10 DEF Detach
  <2> QED
    BY <1>3, <1>5, <1>6, <1>7, <1>8, <1>9, <1>10, <2>1 DEF DetachesFrom
<1>11. CASE ~(Speaks(c) /\ IsCurrentSocket(c))
  <2>1. UNCHANGED <<current, peers, sub>>
    BY <1>11 DEF Detach
  <2>2. peers[o][p] # c
    BY <1>3, <1>7, <1>8, <1>11, AttachedFacts
  <2> QED
    BY <1>3, <1>5, <1>6, <1>8, <1>11, <2>1, <2>2 DEF DetachesFrom
<1> QED
  BY <1>10, <1>11

LEMMA DetachSocket ==
  ASSUME TypeOK, SocketInv, NEW c \in DOMAIN conn, Detach(c)
  PROVE  SocketInv'
<1>0. PICK o \in Obj, p \in Peer : DetachesFrom(c, o, p)
  BY DetachEffect
<1>1. /\ o = SessionOf(c) /\ p = conn[c].peer
      /\ DOMAIN conn' = DOMAIN conn
      /\ conn'[c] = [obj |-> o, peer |-> p, st |-> "gone"]
      /\ \A d \in DOMAIN conn \ {c} : conn'[d] = conn[d]
      /\ \/ /\ peers[o][p] = c /\ c # NoConn /\ conn[c].st = "open"
            /\ peers' = [peers EXCEPT ![o][p] = NoConn]
            /\ EndIfEmpty(o, p)
         \/ /\ conn[c].st # "open" /\ peers[o][p] # c
            /\ UNCHANGED <<current, peers, sub>>
  BY <1>0 DEF DetachesFrom
<1>2. /\ \A x \in Obj : SessionSound(x)
      /\ \A d \in DOMAIN conn : SocketSound(d)
  BY SocketInvParts
<1>3. /\ peers \in [Obj -> [Peer -> Conn \cup {NoConn}]]
      /\ current \in [Inst -> 0..MaxConn] /\ sub \in [Obj -> {"none", "pending", "active", "closing", "ended"}]
  BY DEF TypeOK
<1>4. ASSUME NEW x \in Obj, NEW q \in Attached(x), peers[x][q] # c
      PROVE  /\ peers[x][q] \in DOMAIN conn'
             /\ conn'[peers[x][q]] = [obj |-> x, peer |-> q, st |-> "open"]
  BY <1>1, <1>2, <1>4 DEF SessionSound
<1>5. ASSUME NEW x \in Obj, NEW q \in Peer, peers[x][q] = c, c # NoConn
      PROVE  x = o /\ q = p
  BY <1>1, <1>5, AttachedFacts
<1>6. CASE /\ conn[c].st # "open" /\ peers[o][p] # c
           /\ UNCHANGED <<current, peers, sub>>
  <2>1. ASSUME NEW x \in Obj
        PROVE  SessionSound(x)'
    <3>1. Attached(x)' = Attached(x) /\ (IsLive(x)' <=> IsLive(x))
      BY <1>6 DEF Attached, IsLive
    <3>2. \A q \in Attached(x) : q \in Peer /\ peers[x][q] # NoConn
      BY DEF Attached
    <3>3. \A q \in Attached(x) : peers[x][q] # c
      BY <1>5, <1>6, <3>2
    <3> QED
      BY <1>2, <1>4, <1>6, <3>1, <3>3 DEF SessionSound
  <2>2. ASSUME NEW d \in DOMAIN conn'
        PROVE  SocketSound(d)'
    BY <1>1, <1>2, <1>6 DEF SocketSound, IsCurrentSocket, SessionOf
  <2> QED
    BY <2>1, <2>2, SocketInvPartsNext
<1>7. CASE /\ peers[o][p] = c /\ c # NoConn /\ conn[c].st = "open"
           /\ peers' = [peers EXCEPT ![o][p] = NoConn]
           /\ EndIfEmpty(o, p)
  <2>1. peers'[o] = [peers[o] EXCEPT ![p] = NoConn] /\ \A x \in Obj \ {o} : peers'[x] = peers[x]
    BY <1>3, <1>7
  <2>2. Attached(o)' = Attached(o) \ {p} /\ \A x \in Obj \ {o} : Attached(x)' = Attached(x)
    BY <1>3, <2>1 DEF Attached
  <2>3. IsLive(o) /\ p \in Attached(o)
    BY <1>7, AttachedFacts
  <2>4. IsFiniteSet(Attached(o)') /\ Cardinality(Attached(o)') <= Cap
    <3>1. PICK S : S = Attached(o)
      OBVIOUS
    <3>2. IsFiniteSet(S) /\ Cardinality(S) <= Cap
      BY <1>2, <3>1 DEF SessionSound
    <3>3. IsFiniteSet(S \ {p}) /\ Cardinality(S \ {p}) = IF p \in S THEN Cardinality(S) - 1 ELSE Cardinality(S)
      BY <3>2, FS_RemoveElement
    <3>4. Cardinality(S) \in Nat
      BY <3>2, FS_CardinalityType
    <3> QED
      BY <2>2, <3>1, <3>2, <3>3, <3>4, CapAssumption
  <2>5. ASSUME NEW x \in Obj, x # o
        PROVE  SessionSound(x)'
    <3>1. Attached(x)' = Attached(x) /\ peers'[x] = peers[x]
      BY <2>1, <2>2, <2>5
    <3>2. sub'[x] = sub[x]
      BY <1>3, <1>7, <2>5 DEF EndIfEmpty
    <3>3. IsLive(x)' <=> IsLive(x)
      <4>1. x[1] # o[1] \/ x[2] # o[2]
        BY <2>5, ObjectsApart
      <4>2. x[1] \in Inst /\ x[2] # 0 /\ current[o[1]] = o[2]
        BY <2>3, ObjectsApart DEF IsLive
      <4> QED
        BY <1>3, <1>7, <4>1, <4>2 DEF EndIfEmpty, IsLive
    <3>4. \A q \in Attached(x) : peers[x][q] # c
      BY <1>5, <1>7, <2>5 DEF Attached
    <3>5. \A q \in Attached(x) : /\ conn'[peers'[x][q]] = [obj |-> x, peer |-> q, st |-> "open"]
                                 /\ peers'[x][q] \in DOMAIN conn'
      BY <1>4, <3>1, <3>4
    <3> QED
      BY <1>2, <3>1, <3>2, <3>3, <3>5 DEF SessionSound
  <2>6. SessionSound(o)'
    <3>1. \A q \in Attached(o)' : /\ conn'[peers'[o][q]] = [obj |-> o, peer |-> q, st |-> "open"]
                                  /\ peers'[o][q] \in DOMAIN conn'
      <4> SUFFICES ASSUME NEW q \in Attached(o) \ {p}
                   PROVE  /\ conn'[peers'[o][q]] = [obj |-> o, peer |-> q, st |-> "open"]
                          /\ peers'[o][q] \in DOMAIN conn'
        BY <2>2
      <4>1. q \in Peer /\ peers'[o][q] = peers[o][q]
        BY <1>3, <2>1 DEF Attached
      <4>2. peers[o][q] # c
        BY <1>5, <1>7, <4>1
      <4> QED
        BY <1>4, <4>1, <4>2
    <3>2. CASE Attached(o) \subseteq {p}
      <4>1. current'[o[1]] = 0 /\ sub'[o] = "closing"
        BY <1>3, <1>7, <3>2, ObjectsApart DEF EndIfEmpty
      <4>2. ~IsLive(o)'
        BY <4>1, ObjectsApart DEF IsLive
      <4>3. Attached(o)' = {}
        BY <2>2, <3>2
      <4> QED
        BY <2>4, <4>1, <4>2, <4>3 DEF SessionSound
    <3>3. CASE ~(Attached(o) \subseteq {p})
      <4>1. UNCHANGED <<current, sub>>
        BY <1>7, <3>3 DEF EndIfEmpty
      <4>2. Attached(o)' # {}
        BY <2>2, <3>3
      <4>3. IsLive(o)' /\ sub'[o] \in {"pending", "active"}
        BY <1>2, <2>3, <4>1 DEF SessionSound, IsLive
      <4> QED
        BY <2>4, <3>1, <4>2, <4>3 DEF SessionSound
    <3> QED
      BY <3>2, <3>3
  <2>7. ASSUME NEW d \in DOMAIN conn'
        PROVE  SocketSound(d)'
    <3>1. CASE d = c
      BY <1>1, <3>1 DEF SocketSound
    <3>2. CASE d # c /\ conn'[d].st = "open"
      <4>1. d \in DOMAIN conn /\ conn'[d] = conn[d]
        BY <1>1, <3>2
      <4>2. PICK r \in Socket : r = conn[d]
        BY <4>1, SocketTypes
      <4>3. r.obj \in Obj /\ r.peer \in Peer /\ peers[r.obj][r.peer] = d
        BY <1>2, <3>2, <4>1, <4>2 DEF SocketSound, IsCurrentSocket, SessionOf, Socket
      <4>4. peers'[r.obj][r.peer] = d
        BY <1>3, <1>7, <3>2, <4>3
      <4> QED
        BY <4>1, <4>2, <4>4 DEF SocketSound, IsCurrentSocket, SessionOf
    <3> QED
      BY <3>1, <3>2 DEF SocketSound
  <2>8. \A x \in Obj : SessionSound(x)'
    BY <2>5, <2>6
  <2> QED
    BY <2>7, <2>8, SocketInvPartsNext
<1> QED
  BY <1>1, <1>6, <1>7

\* A step that touches no socket and no subscription of a live session.
LEMMA OtherSocket ==
  ASSUME TypeOK, SocketInv, UNCHANGED <<current, peers, conn>>,
         \A o \in Obj : \/ sub'[o] = sub[o]
                        \/ sub[o] = "pending" /\ sub'[o] = "active"
                        \/ sub[o] = "closing" /\ sub'[o] = "ended"
  PROVE  SocketInv'
<1>1. /\ \A x \in Obj : SessionSound(x)
      /\ \A d \in DOMAIN conn : SocketSound(d)
  BY SocketInvParts
<1>2. \A x \in Obj : Attached(x)' = Attached(x) /\ (IsLive(x)' <=> IsLive(x))
  BY DEF Attached, IsLive
<1>3. \A x \in Obj : SessionSound(x)'
  BY <1>1, <1>2 DEF SessionSound
<1>4. \A d \in DOMAIN conn' : SocketSound(d)'
  BY <1>1 DEF SocketSound, IsCurrentSocket, SessionOf
<1> QED
  BY <1>3, <1>4, SocketInvPartsNext

LEMMA SocketNext == TypeOK /\ SocketInv /\ [Next]_vars => SocketInv'
<1> SUFFICES ASSUME TypeOK, SocketInv, [Next]_vars PROVE SocketInv'
  OBVIOUS
<1>1. CASE UNCHANGED vars
  BY <1>1, OtherSocket DEF vars
<1>2. CASE Next
  <2>1. ASSUME NEW i \in Inst, NEW p \in Peer, Attach(i, p)
        PROVE  SocketInv'
    BY <2>1, AttachSocket
  <2>2. ASSUME NEW c \in DOMAIN conn,
               \/ \E p \in Peer : InboundTargeted(c, p)
               \/ InboundBroadcast(c)
               \/ InboundInvalid(c)
        PROVE  SocketInv'
    <3>1. UNCHANGED <<current, peers, conn, sub>>
      BY <2>2 DEF InboundTargeted, InboundBroadcast, InboundInvalid
    <3> QED
      BY <3>1, OtherSocket
  <2>3. ASSUME NEW c \in DOMAIN conn, Detach(c)
        PROVE  SocketInv'
    BY <2>3, DetachSocket
  <2>4. ASSUME NEW o \in Obj, Subscribed(o) \/ Unsubscribed(o) \/ HandleRedisEnvelope(o)
        PROVE  SocketInv'
    <3>1. UNCHANGED <<current, peers, conn>>
      BY <2>4 DEF Subscribed, Unsubscribed, HandleRedisEnvelope
    <3>2. \A x \in Obj : \/ sub'[x] = sub[x]
                         \/ sub[x] = "pending" /\ sub'[x] = "active"
                         \/ sub[x] = "closing" /\ sub'[x] = "ended"
      BY <2>4 DEF Subscribed, Unsubscribed, HandleRedisEnvelope, TypeOK
    <3> QED
      BY <3>1, <3>2, OtherSocket
  <2> QED
    BY <1>2, <2>1, <2>2, <2>3, <2>4 DEF Next
<1> QED
  BY <1>1, <1>2

LEMMA SocketInvariant == Spec => [](TypeOK /\ SocketInv)
<1>1. Init => TypeOK /\ SocketInv
  BY InitType, InitSocket
<1>2. (TypeOK /\ SocketInv) /\ [Next]_vars => (TypeOK /\ SocketInv)'
  BY NextType, SocketNext
<1> QED
  BY <1>1, <1>2, PTL DEF Spec

-----------------------------------------------------------------------------
(* Envelopes *)

\* A step leaves an inbox as it was, forgets it, or sends e to the sockets of C.
InboxStep(C, e) ==
  \A c \in DOMAIN inbox' :
    \/ inbox'[c] = <<>>
    \/ c \in DOMAIN inbox /\ inbox'[c] = inbox[c]
    \/ c \in DOMAIN inbox \cap C /\ inbox'[c] = Append(inbox[c], e)

\* A step leaves a queue as it was, forgets it, or adds m to it.
QueueStep(m) ==
  \A o \in Obj : subq'[o] = subq[o] \/ subq'[o] = <<>> \/ subq'[o] = Append(subq[o], m)

\* The sockets there are stay what they are: their peers and sessions.
SameRoutes ==
  /\ DOMAIN conn \subseteq DOMAIN conn'
  /\ \A c \in DOMAIN conn : conn'[c].obj = conn[c].obj /\ conn'[c].peer = conn[c].peer

LEMMA EnvelopeTypes ==
  ASSUME TypeOK
  PROVE  /\ sent \in Nat
         /\ \A e \in Envelope : e.id \in Nat /\ e.src \in Conn /\ e.to \in Peer \cup {All}
         /\ \A m \in Message : m.env \in Envelope /\ m.origin \in Inst
         /\ \A c \in DOMAIN inbox :
              /\ inbox[c] \in Seq(Envelope) /\ c \in DOMAIN conn /\ SessionOf(c) \in Obj
              /\ \A k \in DOMAIN inbox[c] : inbox[c][k] \in Envelope
         /\ \A o \in Obj : /\ subq[o] \in Seq(Message)
                           /\ \A k \in DOMAIN subq[o] : subq[o][k] \in Message
<1>1. sent \in Nat /\ subq \in [Obj -> Seq(Message)]
  BY DEF TypeOK
<1>2. \A e \in Envelope : e.id \in Nat /\ e.src \in Conn /\ e.to \in Peer \cup {All}
  BY DEF Envelope
<1>3. \A m \in Message : m.env \in Envelope /\ m.origin \in Inst
  BY DEF Message
<1>4. \A T : \A s \in Seq(T) : \A k \in DOMAIN s : s[k] \in T
  OBVIOUS
<1>5. \A c \in DOMAIN inbox : inbox[c] \in Seq(Envelope) /\ c \in DOMAIN conn /\ SessionOf(c) \in Obj
  BY SocketTypes
<1> QED
  BY <1>1, <1>2, <1>3, <1>4, <1>5

\* An entry of an inbox is what it was, or the new last one.
LEMMA InboxEntries ==
  ASSUME TypeOK, NEW C, NEW e, InboxStep(C, e), NEW c \in DOMAIN inbox', NEW k \in DOMAIN inbox'[c]
  PROVE  /\ c \in DOMAIN inbox
         /\ \/ k \in DOMAIN inbox[c] /\ inbox'[c][k] = inbox[c][k]
            \/ c \in C /\ inbox'[c][k] = e
         /\ \A j \in DOMAIN inbox'[c] : j < k => j \in DOMAIN inbox[c] /\ inbox'[c][j] = inbox[c][j]
<1>1. inbox'[c] # <<>>
  OBVIOUS
<1>2. c \in DOMAIN inbox
  BY <1>1 DEF InboxStep
<1>3. PICK s \in Seq(Envelope) : s = inbox[c]
  BY <1>2, EnvelopeTypes
<1>4. PICK t : t = inbox'[c]
  OBVIOUS
<1>5. t = s \/ (c \in C /\ t = Append(s, e))
  BY <1>1, <1>3, <1>4 DEF InboxStep
<1>6. \A j \in DOMAIN s : j \in Nat
  BY <1>3
<1>7. CASE t = s
  BY <1>2, <1>3, <1>4, <1>7
<1>8. CASE c \in C /\ t = Append(s, e)
  <2>1. /\ Len(s) \in Nat /\ DOMAIN s = 1..Len(s) /\ DOMAIN t = 1..Len(s) + 1
        /\ \A j \in 1..Len(s) : t[j] = s[j]
        /\ t[Len(s) + 1] = e
    BY <1>3, <1>8, AppendFacts
  <2>2. k \in 1..Len(s) \/ k = Len(s) + 1
    BY <1>4, <2>1
  <2>3. \A j \in DOMAIN t : j < k => j \in 1..Len(s)
    BY <2>1, <2>2
  <2> QED
    BY <1>2, <1>3, <1>4, <1>8, <2>1, <2>2, <2>3
<1> QED
  BY <1>5, <1>7, <1>8

LEMMA QueueEntries ==
  ASSUME TypeOK, NEW m, QueueStep(m), NEW o \in Obj, NEW k \in DOMAIN subq'[o]
  PROVE  /\ \/ k \in DOMAIN subq[o] /\ subq'[o][k] = subq[o][k]
            \/ subq'[o] = Append(subq[o], m) /\ subq'[o][k] = m
         /\ \A j \in DOMAIN subq'[o] : j < k => j \in DOMAIN subq[o] /\ subq'[o][j] = subq[o][j]
<1>1. subq'[o] # <<>>
  OBVIOUS
<1>2. PICK s \in Seq(Message) : s = subq[o]
  BY EnvelopeTypes
<1>3. PICK t : t = subq'[o]
  OBVIOUS
<1>4. t = s \/ t = Append(s, m)
  BY <1>1, <1>2, <1>3 DEF QueueStep
<1>5. CASE t = s
  BY <1>2, <1>3, <1>5
<1>6. CASE t = Append(s, m)
  <2>1. /\ Len(s) \in Nat /\ DOMAIN s = 1..Len(s) /\ DOMAIN t = 1..Len(s) + 1
        /\ \A j \in 1..Len(s) : t[j] = s[j]
        /\ t[Len(s) + 1] = m
    BY <1>2, <1>6, AppendFacts
  <2>2. k \in 1..Len(s) \/ k = Len(s) + 1
    BY <1>3, <2>1
  <2>3. \A j \in DOMAIN t : j < k => j \in 1..Len(s)
    BY <2>1, <2>2
  <2> QED
    BY <1>2, <1>3, <1>6, <2>1, <2>2, <2>3
<1> QED
  BY <1>4, <1>5, <1>6

\* What the service made stays made.
LEMMA MadeStays ==
  ASSUME TypeOK, SameRoutes, NEW e \in Envelope, Made(e), sent' \in Nat, sent <= sent'
  PROVE  Made(e)'
BY EnvelopeTypes DEF Made, SameRoutes

LEMMA AddressedStays ==
  ASSUME TypeOK, SameRoutes, NEW c \in DOMAIN conn, NEW e, e.src \in DOMAIN conn
  PROVE  Addressed(c, e)' <=> Addressed(c, e)
BY DEF Addressed, InstOf, SameRoutes

\* e is the next envelope; it is sent to sockets of its maker's session.
Fresh(C, e, m) ==
  /\ sent' = sent + 1 /\ e.id = sent + 1 /\ e.src \in DOMAIN conn /\ e.from = conn[e.src].peer
  /\ m.env = e /\ m.origin = InstOf(e.src)
  /\ \A c \in C \cap DOMAIN inbox : SessionOf(c) = SessionOf(e.src) /\ Addressed(c, e)

\* A step that makes an envelope, or that makes none and sends nothing.
LEMMA FreshStep ==
  ASSUME TypeOK, EnvelopeInv, SameRoutes, sent' \in Nat, sent <= sent',
         NEW C, NEW e, NEW m, InboxStep(C, e), QueueStep(m),
         \/ C = {} /\ \A o \in Obj : subq'[o] \in {subq[o], <<>>}
         \/ Fresh(C, e, m)
  PROVE  EnvelopeInv'
<1>0. sent \in Nat
  BY EnvelopeTypes
\* An entry is one there was, or is e.
<1>1. ASSUME NEW c \in DOMAIN inbox', NEW k \in DOMAIN inbox'[c]
      PROVE  /\ c \in DOMAIN inbox /\ c \in DOMAIN conn /\ SessionOf(c)' = SessionOf(c) /\ SessionOf(c) \in Obj
             /\ InstOf(c)' = InstOf(c)
             /\ \/ /\ k \in DOMAIN inbox[c] /\ inbox'[c][k] = inbox[c][k] /\ inbox[c][k] \in Envelope
                   /\ Made(inbox[c][k]) /\ inbox[c][k].id \in Nat /\ inbox[c][k].id < sent + 1
                   /\ InstOf(inbox[c][k].src)' = InstOf(inbox[c][k].src)
                \/ inbox'[c][k] = e /\ c \in C /\ Fresh(C, e, m)
  <2>1. c \in DOMAIN inbox /\ c \in DOMAIN conn /\ SessionOf(c) \in Obj
    BY InboxEntries, EnvelopeTypes
  <2>2. SessionOf(c)' = SessionOf(c) /\ InstOf(c)' = InstOf(c)
    BY <2>1 DEF SessionOf, InstOf, SameRoutes
  <2>3. CASE k \in DOMAIN inbox[c] /\ inbox'[c][k] = inbox[c][k]
    <3>1. inbox[c][k] \in Envelope /\ Made(inbox[c][k]) /\ inbox[c][k].id \in Nat
      BY <2>1, <2>3, EnvelopeTypes DEF EnvelopeInv, AllMade
    <3>2. inbox[c][k].id < sent + 1
      BY <1>0, <3>1 DEF Made
    <3>3. InstOf(inbox[c][k].src)' = InstOf(inbox[c][k].src)
      <4>1. PICK d \in DOMAIN conn : d = inbox[c][k].src
        BY <3>1 DEF Made
      <4>2. conn'[d].obj = conn[d].obj
        BY DEF SameRoutes
      <4>3. inbox'[c][k].src = d
        BY <2>3, <4>1
      <4> QED
        BY <2>3, <4>1, <4>2, <4>3 DEF InstOf
    <3> QED
      BY <2>1, <2>2, <2>3, <3>1, <3>2, <3>3
  <2>4. CASE c \in C /\ inbox'[c][k] = e
    BY <2>1, <2>2, <2>4
  <2> QED
    BY <2>3, <2>4, InboxEntries
<1>2. ASSUME NEW o \in Obj, NEW k \in DOMAIN subq'[o]
      PROVE  \/ /\ k \in DOMAIN subq[o] /\ subq'[o][k] = subq[o][k]
                /\ subq[o][k].env \in Envelope /\ Made(subq[o][k].env)
                /\ subq[o][k].env.id \in Nat /\ subq[o][k].env.id < sent + 1
                /\ subq[o][k].origin = InstOf(subq[o][k].env.src)
             \/ subq'[o][k] = m /\ subq'[o][k].env = e /\ Fresh(C, e, m)
  <2>1. CASE k \in DOMAIN subq[o] /\ subq'[o][k] = subq[o][k]
    <3>1. /\ subq[o][k].env \in Envelope /\ Made(subq[o][k].env) /\ subq[o][k].env.id \in Nat
          /\ subq[o][k].origin = InstOf(subq[o][k].env.src)
      BY <2>1, EnvelopeTypes DEF EnvelopeInv, AllMade
    <3>2. subq[o][k].env.id < sent + 1
      BY <1>0, <3>1 DEF Made
    <3> QED
      BY <2>1, <3>1, <3>2
  <2>2. CASE subq'[o] = Append(subq[o], m) /\ subq'[o][k] = m
    <3>1. subq[o] \in Seq(Message)
      BY EnvelopeTypes
    <3>2. subq'[o] # subq[o] /\ subq'[o] # <<>>
      BY <2>2, <3>1
    <3> QED
      BY <2>2, <3>2 DEF Fresh
  <2> QED
    BY <2>1, <2>2, QueueEntries
<1>3. Fresh(C, e, m) => Made(e)' /\ m.origin = InstOf(e.src)' /\ sent' = sent + 1 /\ e.id = sent + 1
  BY <1>0 DEF Fresh, Made, SameRoutes, InstOf
<1>4. AllMade'
  <2>1. ASSUME NEW c \in DOMAIN inbox', NEW k \in DOMAIN inbox'[c]
        PROVE  Made(inbox[c][k])'
    <3>1. CASE inbox'[c][k] = inbox[c][k] /\ inbox[c][k] \in Envelope /\ Made(inbox[c][k])
      <4>1. PICK x \in Envelope : x = inbox[c][k] /\ Made(x)
        BY <3>1
      <4>2. Made(x)'
        BY <4>1, MadeStays
      <4> QED
        BY <3>1, <4>1, <4>2 DEF Made
    <3>2. CASE inbox'[c][k] = e /\ Fresh(C, e, m)
      BY <1>3, <3>2 DEF Made
    <3> QED
      BY <1>1, <3>1, <3>2
  <2>2. ASSUME NEW o \in Obj, NEW k \in DOMAIN subq'[o]
        PROVE  Made(subq[o][k].env)' /\ subq'[o][k].origin = InstOf(subq[o][k].env.src)'
    <3>1. CASE /\ subq'[o][k] = subq[o][k] /\ subq[o][k].env \in Envelope /\ Made(subq[o][k].env)
               /\ subq[o][k].origin = InstOf(subq[o][k].env.src)
      <4>1. PICK x \in Envelope : x = subq[o][k].env /\ Made(x)
        BY <3>1
      <4>2. Made(x)'
        BY <4>1, MadeStays
      <4>3. InstOf(x.src)' = InstOf(x.src)
        BY <4>1 DEF Made, InstOf, SameRoutes
      <4> QED
        BY <3>1, <4>1, <4>2, <4>3 DEF Made, InstOf
    <3>2. CASE subq'[o][k] = m /\ subq'[o][k].env = e /\ Fresh(C, e, m)
      BY <1>3, <3>2 DEF Made, InstOf
    <3> QED
      BY <1>2, <3>1, <3>2
  <2> QED
    BY <2>1, <2>2 DEF AllMade
<1>5. QueuedInOrder'
  <2> SUFFICES ASSUME NEW o \in Obj, NEW j \in DOMAIN subq'[o], NEW k \in DOMAIN subq'[o], j < k
               PROVE  subq'[o][j].env.id < subq'[o][k].env.id
    BY DEF QueuedInOrder
  <2>1. /\ j \in DOMAIN subq[o] /\ subq'[o][j] = subq[o][j]
        /\ subq[o][j].env.id \in Nat /\ subq[o][j].env.id < sent + 1
    <3>1. j \in DOMAIN subq[o] /\ subq'[o][j] = subq[o][j]
      BY QueueEntries
    <3>2. Made(subq[o][j].env) /\ subq[o][j].env.id \in Nat
      BY <3>1, EnvelopeTypes DEF EnvelopeInv, AllMade
    <3> QED
      BY <1>0, <3>1, <3>2 DEF Made
  <2>2. CASE k \in DOMAIN subq[o] /\ subq'[o][k] = subq[o][k]
    BY <2>1, <2>2 DEF EnvelopeInv, QueuedInOrder
  <2>3. CASE subq'[o][k].env = e /\ Fresh(C, e, m)
    BY <1>0, <1>3, <2>1, <2>3
  <2> QED
    BY <1>2, <2>2, <2>3
<1>6. NumberNamesMaker'
  <2>1. ASSUME NEW o \in Obj, NEW j \in DOMAIN subq'[o], NEW x \in Obj, NEW k \in DOMAIN subq'[x],
               subq'[o][j].env.id = subq'[x][k].env.id
        PROVE  subq'[o][j].env.src = subq'[x][k].env.src
    <3>1. CASE /\ j \in DOMAIN subq[o] /\ subq'[o][j] = subq[o][j]
               /\ subq[o][j].env.id \in Nat /\ subq[o][j].env.id < sent + 1
      <4>1. CASE k \in DOMAIN subq[x] /\ subq'[x][k] = subq[x][k]
        BY <2>1, <3>1, <4>1 DEF EnvelopeInv, NumberNamesMaker
      <4>2. CASE subq'[x][k].env = e /\ Fresh(C, e, m)
        BY <1>0, <1>3, <2>1, <3>1, <4>2
      <4> QED
        BY <1>2, <4>1, <4>2
    <3>2. CASE subq'[o][j].env = e /\ Fresh(C, e, m)
      <4>1. CASE /\ subq'[x][k] = subq[x][k]
                 /\ subq[x][k].env.id \in Nat /\ subq[x][k].env.id < sent + 1
        BY <1>0, <1>3, <2>1, <3>2, <4>1
      <4>2. CASE subq'[x][k].env = e /\ Fresh(C, e, m)
        BY <3>2, <4>2
      <4> QED
        BY <1>2, <4>1, <4>2
    <3> QED
      BY <1>2, <3>1, <3>2
  <2>2. ASSUME NEW o \in Obj, NEW j \in DOMAIN subq'[o], NEW c \in DOMAIN inbox', NEW k \in DOMAIN inbox'[c],
               inbox'[c][k].id = subq'[o][j].env.id
        PROVE  inbox'[c][k].src = subq'[o][j].env.src
    <3>1. CASE /\ j \in DOMAIN subq[o] /\ subq'[o][j] = subq[o][j]
               /\ subq[o][j].env.id \in Nat /\ subq[o][j].env.id < sent + 1
      <4>1. CASE c \in DOMAIN inbox /\ k \in DOMAIN inbox[c] /\ inbox'[c][k] = inbox[c][k]
        BY <2>2, <3>1, <4>1 DEF EnvelopeInv, NumberNamesMaker
      <4>2. CASE inbox'[c][k] = e /\ Fresh(C, e, m)
        BY <1>0, <1>3, <2>2, <3>1, <4>2
      <4> QED
        BY <1>1, <4>1, <4>2
    <3>2. CASE subq'[o][j].env = e /\ Fresh(C, e, m)
      <4>1. CASE /\ inbox'[c][k] = inbox[c][k]
                 /\ inbox[c][k].id \in Nat /\ inbox[c][k].id < sent + 1
        BY <1>0, <1>3, <2>2, <3>2, <4>1
      <4>2. CASE inbox'[c][k] = e /\ Fresh(C, e, m)
        BY <3>2, <4>2
      <4> QED
        BY <1>1, <4>1, <4>2
    <3> QED
      BY <1>2, <3>1, <3>2
  <2> QED
    BY <2>1, <2>2 DEF NumberNamesMaker
<1>7. NewerIsToCome'
  <2> SUFFICES ASSUME NEW c \in DOMAIN inbox', NEW k \in DOMAIN inbox'[c],
                      NEW o \in Obj, o = SessionOf(c)', NEW j \in DOMAIN subq'[o],
                      InstOf(inbox[c][k].src)' # InstOf(c)'
               PROVE  inbox'[c][k].id < subq'[o][j].env.id
    <3>1. \A c \in DOMAIN inbox' : \A k \in DOMAIN inbox'[c] : SessionOf(c)' \in Obj
      BY <1>1
    <3> QED
      BY <3>1 DEF NewerIsToCome
  <2>1. o = SessionOf(c) /\ InstOf(c)' = InstOf(c) /\ c \in DOMAIN inbox
    BY <1>1
  <2>2. CASE inbox'[c][k] = e /\ c \in C /\ Fresh(C, e, m)
    <3>1. SessionOf(c) = SessionOf(e.src) /\ e.src \in DOMAIN conn /\ c \in DOMAIN conn
      BY <1>1, <2>2 DEF Fresh
    <3>2. conn'[e.src].obj = conn'[c].obj
      BY <3>1 DEF SessionOf, SameRoutes
    <3> QED
      BY <2>2, <3>2 DEF InstOf
  <2>3. CASE /\ k \in DOMAIN inbox[c] /\ inbox'[c][k] = inbox[c][k]
             /\ inbox[c][k].id \in Nat /\ inbox[c][k].id < sent + 1
             /\ InstOf(inbox[c][k].src)' = InstOf(inbox[c][k].src)
    <3>1. CASE j \in DOMAIN subq[o] /\ subq'[o][j] = subq[o][j]
      BY <2>1, <2>3, <3>1 DEF EnvelopeInv, NewerIsToCome
    <3>2. CASE subq'[o][j].env = e /\ Fresh(C, e, m)
      BY <1>0, <1>3, <2>3, <3>2
    <3> QED
      BY <1>2, <3>1, <3>2
  <2> QED
    BY <1>1, <2>2, <2>3
<1>8. OnceAndInOrder'
  <2>1. ASSUME NEW c \in DOMAIN inbox', NEW k \in DOMAIN inbox'[c]
        PROVE  Addressed(c, inbox[c][k])'
    <3>1. CASE inbox'[c][k] = e /\ c \in C /\ Fresh(C, e, m)
      <4>1. Addressed(c, e) /\ e.src \in DOMAIN conn /\ c \in DOMAIN conn
        BY <1>1, <3>1 DEF Fresh
      <4>2. Addressed(c, e)'
        BY <4>1, AddressedStays
      <4> QED
        BY <3>1, <4>2 DEF Addressed
    <3>2. CASE k \in DOMAIN inbox[c] /\ inbox'[c][k] = inbox[c][k] /\ inbox[c][k] \in Envelope /\ Made(inbox[c][k])
      <4>1. PICK x \in Envelope : x = inbox[c][k] /\ x.src \in DOMAIN conn
        BY <3>2 DEF Made
      <4>2. Addressed(c, x) /\ c \in DOMAIN conn
        BY <1>1, <3>2, <4>1 DEF EnvelopeInv, OnceAndInOrder
      <4>3. Addressed(c, x)'
        BY <4>1, <4>2, AddressedStays
      <4> QED
        BY <3>2, <4>1, <4>3 DEF Addressed
    <3> QED
      BY <1>1, <3>1, <3>2
  <2>2. ASSUME NEW c \in DOMAIN inbox', NEW j \in DOMAIN inbox'[c], NEW k \in DOMAIN inbox'[c], j < k
        PROVE  /\ inbox'[c][j].id # inbox'[c][k].id
               /\ inbox'[c][j].src = inbox'[c][k].src => inbox'[c][j].id < inbox'[c][k].id
    <3>1. c \in DOMAIN inbox /\ j \in DOMAIN inbox[c] /\ inbox'[c][j] = inbox[c][j]
      BY <2>2, InboxEntries
    <3>2. inbox[c][j].id \in Nat /\ inbox[c][j].id < sent + 1
      <4>1. Made(inbox[c][j]) /\ inbox[c][j].id \in Nat
        BY <3>1, EnvelopeTypes DEF EnvelopeInv, AllMade
      <4> QED
        BY <1>0, <4>1 DEF Made
    <3>3. CASE k \in DOMAIN inbox[c] /\ inbox'[c][k] = inbox[c][k]
      BY <2>2, <3>1, <3>3 DEF EnvelopeInv, OnceAndInOrder
    <3>4. CASE inbox'[c][k] = e /\ Fresh(C, e, m)
      BY <1>0, <1>3, <3>1, <3>2, <3>4
    <3> QED
      BY <1>1, <3>3, <3>4
  <2> QED
    BY <2>1, <2>2 DEF OnceAndInOrder
<1> QED
  BY <1>4, <1>5, <1>6, <1>7, <1>8 DEF EnvelopeInv

\* What the subscriber of o sends to whom: an envelope of another instance to
\* the sockets of o it is for.
LEMMA RecipientFacts ==
  ASSUME TypeOK, SocketInv, NEW o \in Obj, NEW m \in Message, m.origin = InstOf(m.env.src),
         NEW c \in Recipients(o, m)
  PROVE  /\ c \in DOMAIN conn /\ SessionOf(c) = o
         /\ InstOf(m.env.src) # InstOf(c) /\ m.env.to \in {All, conn[c].peer}
         /\ Addressed(c, m.env)
<1>1. m.origin # o[1]
  BY DEF Recipients
<1>2. PICK p \in Attached(o) : c = peers[o][p] /\ (m.env.to = All \/ p = m.env.to)
  BY <1>1 DEF Recipients
<1>3. /\ c \in DOMAIN conn /\ SessionOf(c) = o /\ conn[c].peer = p
  BY <1>2, AttachedFacts DEF Attached
<1>4. InstOf(c) = o[1]
  BY <1>3 DEF InstOf, SessionOf
<1> QED
  BY <1>1, <1>2, <1>3, <1>4 DEF Addressed

\* The step of a subscriber.
LEMMA DeliverStep ==
  ASSUME TypeOK, SocketInv, EnvelopeInv, NEW o \in Obj, HandleRedisEnvelope(o)
  PROVE  EnvelopeInv'
<1>1. PICK s \in Seq(Message) : s = subq[o] /\ s # <<>>
  BY EnvelopeTypes DEF HandleRedisEnvelope
<1>2. PICK m \in Message : m = s[1] /\ m = Head(s) /\ 1 \in DOMAIN s
  BY <1>1, TailFacts
<1>3. PICK e \in Envelope : e = m.env /\ e.id \in Nat
  BY <1>2, EnvelopeTypes
<1>4. /\ SendTo(Recipients(o, m), e) /\ subq' = [subq EXCEPT ![o] = Tail(s)]
      /\ UNCHANGED <<current, peers, sub, conn, ready, sent>>
  BY <1>1, <1>2, <1>3 DEF HandleRedisEnvelope
<1>5. Made(e) /\ m.origin = InstOf(e.src)
  BY <1>1, <1>2, <1>3 DEF EnvelopeInv, AllMade
<1>6. PICK C : C = Recipients(o, m)
  OBVIOUS
<1>7. \A c \in C : /\ c \in DOMAIN conn /\ SessionOf(c) = o
                   /\ InstOf(e.src) # InstOf(c) /\ Addressed(c, e)
  BY <1>3, <1>5, <1>6, RecipientFacts
<1>8. InboxStep(C, e)
  BY <1>4, <1>6 DEF SendTo, InboxStep
<1>9. \A x, y : Made(x)' <=> Made(x)
  BY <1>4 DEF Made
<1>10. \A c, x : Addressed(c, x)' <=> Addressed(c, x)
  BY <1>4 DEF Addressed, InstOf
\* What is still on its way was, and comes after e.
<1>11. ASSUME NEW x \in Obj, NEW k \in DOMAIN subq'[x]
       PROVE  \E i \in DOMAIN subq[x] : /\ subq'[x][k] = subq[x][i]
                                        /\ x # o => i = k
                                        /\ x = o => i = k + 1 /\ 1 < i
  <2>1. CASE x = o
    <3>1. subq'[o] = Tail(s)
      BY <1>4, EnvelopeTypes DEF TypeOK
    <3>2. k \in DOMAIN Tail(s) /\ k + 1 \in DOMAIN s /\ Tail(s)[k] = s[k + 1]
      BY <1>1, <2>1, <3>1, TailFacts
    <3>3. 1 < k + 1
      BY <1>1, <3>2, TailFacts
    <3> QED
      BY <1>1, <2>1, <3>1, <3>2, <3>3
  <2>2. CASE x # o
    <3>1. subq'[x] = subq[x]
      BY <1>4, <2>2 DEF TypeOK
    <3> QED
      BY <2>2, <3>1
  <2> QED
    BY <2>1, <2>2
<1>12. ASSUME NEW c \in DOMAIN inbox', NEW k \in DOMAIN inbox'[c]
       PROVE  /\ c \in DOMAIN inbox /\ SessionOf(c) \in Obj /\ c \in DOMAIN conn
              /\ \/ k \in DOMAIN inbox[c] /\ inbox'[c][k] = inbox[c][k] /\ inbox[c][k].id \in Nat
                 \/ inbox'[c][k] = e /\ c \in C
  BY <1>8, InboxEntries, EnvelopeTypes
<1>13. AllMade'
  <2>1. ASSUME NEW c \in DOMAIN inbox', NEW k \in DOMAIN inbox'[c]
        PROVE  Made(inbox'[c][k])
    BY <1>5, <1>12 DEF EnvelopeInv, AllMade
  <2>2. ASSUME NEW x \in Obj, NEW k \in DOMAIN subq'[x]
        PROVE  Made(subq'[x][k].env) /\ subq'[x][k].origin = InstOf(subq'[x][k].env.src)
    BY <1>11 DEF EnvelopeInv, AllMade
  <2> QED
    BY <1>4, <2>1, <2>2 DEF AllMade, Made, InstOf
<1>14. QueuedInOrder'
  <2> SUFFICES ASSUME NEW x \in Obj, NEW j \in DOMAIN subq'[x], NEW k \in DOMAIN subq'[x], j < k
               PROVE  subq'[x][j].env.id < subq'[x][k].env.id
    BY DEF QueuedInOrder
  <2>1. PICK a \in DOMAIN subq[x] : subq'[x][j] = subq[x][a] /\ (x # o => a = j) /\ (x = o => a = j + 1)
    BY <1>11
  <2>2. PICK b \in DOMAIN subq[x] : subq'[x][k] = subq[x][b] /\ (x # o => b = k) /\ (x = o => b = k + 1)
    BY <1>11
  <2>3. subq[x] \in Seq(Message)
    BY EnvelopeTypes
  <2>4. a \in Nat /\ b \in Nat
    BY <2>3
  <2>5. x = o => j \in Int /\ k \in Int
    <3>1. x = o => subq'[x] = Tail(s)
      BY <1>4, EnvelopeTypes DEF TypeOK
    <3>2. \A i \in DOMAIN Tail(s) : i \in Int
      BY <1>1, TailFacts
    <3> QED
      BY <3>1, <3>2
  <2>6. a < b
    BY <2>1, <2>2, <2>4, <2>5
  <2> QED
    BY <2>1, <2>2, <2>6 DEF EnvelopeInv, QueuedInOrder
<1>15. NumberNamesMaker'
  <2>1. ASSUME NEW y \in Obj, NEW j \in DOMAIN subq'[y], NEW x \in Obj, NEW k \in DOMAIN subq'[x],
               subq'[y][j].env.id = subq'[x][k].env.id
        PROVE  subq'[y][j].env.src = subq'[x][k].env.src
    <3>1. PICK a \in DOMAIN subq[y] : subq'[y][j] = subq[y][a]
      BY <1>11
    <3>2. PICK b \in DOMAIN subq[x] : subq'[x][k] = subq[x][b]
      BY <1>11
    <3> QED
      BY <2>1, <3>1, <3>2 DEF EnvelopeInv, NumberNamesMaker
  <2>2. ASSUME NEW y \in Obj, NEW j \in DOMAIN subq'[y], NEW c \in DOMAIN inbox', NEW k \in DOMAIN inbox'[c],
               inbox'[c][k].id = subq'[y][j].env.id
        PROVE  inbox'[c][k].src = subq'[y][j].env.src
    <3>1. PICK a \in DOMAIN subq[y] : subq'[y][j] = subq[y][a]
      BY <1>11
    <3>2. CASE c \in DOMAIN inbox /\ k \in DOMAIN inbox[c] /\ inbox'[c][k] = inbox[c][k]
      BY <2>2, <3>1, <3>2 DEF EnvelopeInv, NumberNamesMaker
    <3>3. CASE inbox'[c][k] = e
      <4>1. e = subq[o][1].env /\ 1 \in DOMAIN subq[o]
        BY <1>1, <1>2, <1>3
      <4> QED
        BY <2>2, <3>1, <3>3, <4>1 DEF EnvelopeInv, NumberNamesMaker
    <3> QED
      BY <1>12, <3>2, <3>3
  <2> QED
    BY <2>1, <2>2 DEF NumberNamesMaker
<1>16. NewerIsToCome'
  <2> SUFFICES ASSUME NEW c \in DOMAIN inbox', NEW k \in DOMAIN inbox'[c],
                      NEW x \in Obj, x = SessionOf(c), NEW j \in DOMAIN subq'[x],
                      InstOf(inbox'[c][k].src) # InstOf(c)
               PROVE  inbox'[c][k].id < subq'[x][j].env.id
    BY <1>4, <1>12 DEF NewerIsToCome, SessionOf, InstOf
  <2>1. PICK a \in DOMAIN subq[x] : subq'[x][j] = subq[x][a] /\ (x = o => 1 < a)
    BY <1>11
  <2>2. CASE k \in DOMAIN inbox[c] /\ inbox'[c][k] = inbox[c][k]
    BY <1>12, <2>1, <2>2 DEF EnvelopeInv, NewerIsToCome
  <2>3. CASE inbox'[c][k] = e /\ c \in C
    <3>1. x = o
      BY <1>7, <2>3
    <3>2. e = subq[o][1].env /\ 1 \in DOMAIN subq[o]
      BY <1>1, <1>2, <1>3
    <3> QED
      BY <2>1, <2>3, <3>1, <3>2 DEF EnvelopeInv, QueuedInOrder
  <2> QED
    BY <1>12, <2>2, <2>3
<1>17. OnceAndInOrder'
  <2>1. ASSUME NEW c \in DOMAIN inbox', NEW k \in DOMAIN inbox'[c]
        PROVE  Addressed(c, inbox'[c][k])
    BY <1>7, <1>12 DEF EnvelopeInv, OnceAndInOrder
  \* What a socket of o had from another instance is older than e; what it had
  \* from its own instance was made by somebody else.
  <2>2. ASSUME NEW c \in DOMAIN inbox', NEW j \in DOMAIN inbox'[c], NEW k \in DOMAIN inbox'[c], j < k
        PROVE  /\ inbox'[c][j].id # inbox'[c][k].id
               /\ inbox'[c][j].src = inbox'[c][k].src => inbox'[c][j].id < inbox'[c][k].id
    <3>1. c \in DOMAIN inbox /\ j \in DOMAIN inbox[c] /\ inbox'[c][j] = inbox[c][j] /\ inbox[c][j].id \in Nat
      BY <1>8, <2>2, InboxEntries, EnvelopeTypes
    <3>2. CASE k \in DOMAIN inbox[c] /\ inbox'[c][k] = inbox[c][k]
      BY <2>2, <3>1, <3>2 DEF EnvelopeInv, OnceAndInOrder
    <3>3. CASE inbox'[c][k] = e /\ c \in C
      <4>1. SessionOf(c) = o /\ InstOf(e.src) # InstOf(c)
        BY <1>7, <3>3
      <4>2. e = subq[o][1].env /\ 1 \in DOMAIN subq[o]
        BY <1>1, <1>2, <1>3
      <4>3. CASE InstOf(inbox[c][j].src) # InstOf(c)
        <5>1. inbox[c][j].id < e.id
          BY <3>1, <4>1, <4>2, <4>3 DEF EnvelopeInv, NewerIsToCome
        <5> QED
          BY <1>3, <3>1, <3>3, <5>1
      <4>4. CASE InstOf(inbox[c][j].src) = InstOf(c)
        <5>1. inbox[c][j].src # e.src
          BY <4>1, <4>4
        <5>2. inbox[c][j].id # e.id
          BY <3>1, <4>2, <5>1 DEF EnvelopeInv, NumberNamesMaker
        <5> QED
          BY <3>1, <3>3, <5>1, <5>2
      <4> QED
        BY <4>3, <4>4
    <3> QED
      BY <1>12, <3>2, <3>3
  <2> QED
    BY <1>4, <2>1, <2>2 DEF OnceAndInOrder, Addressed, InstOf
<1> QED
  BY <1>13, <1>14, <1>15, <1>16, <1>17 DEF EnvelopeInv

\* The step of any other handler: it makes one envelope, or none.
OneEnvelope(C, e, m) ==
  /\ SameRoutes /\ sent' \in Nat /\ sent <= sent'
  /\ InboxStep(C, e) /\ QueueStep(m)
  /\ \/ C = {} /\ \A o \in Obj : subq'[o] \in {subq[o], <<>>}
     \/ Fresh(C, e, m)

LEMMA AttachEnvelope ==
  ASSUME TypeOK, SocketInv, NEW i \in Inst, NEW p \in Peer, Attach(i, p)
  PROVE  \A e, m : OneEnvelope({}, e, m)
<1> TAKE e, m
<1>1. PICK o \in Obj, c \in Conn : AttachesTo(i, p, o, c)
  BY AttachEffect
<1>2. /\ DOMAIN conn' = DOMAIN conn \cup {c} /\ inbox' = Append(inbox, <<>>)
      /\ \A d \in DOMAIN conn : conn'[d] \in {conn[d], [conn[d] EXCEPT !.st = "replaced"]}
  BY <1>1 DEF AttachesTo
<1>3. \A s \in Socket : LET r == [s EXCEPT !.st = "replaced"] IN r.obj = s.obj /\ r.peer = s.peer
  BY DEF Socket
<1>4. SameRoutes
  BY <1>2, <1>3, SocketTypes DEF SameRoutes
<1>5. InboxStep({}, e)
  <2>1. inbox \in Seq(Seq(Envelope))
    BY DEF TypeOK
  <2>2. /\ DOMAIN inbox = 1..Len(inbox) /\ DOMAIN inbox' = 1..Len(inbox) + 1
        /\ \A d \in 1..Len(inbox) : inbox'[d] = inbox[d]
        /\ inbox'[Len(inbox) + 1] = <<>> /\ Len(inbox) \in Nat
    BY <1>2, <2>1, AppendFacts
  <2>3. \A d \in DOMAIN inbox' : d \in DOMAIN inbox \/ d = Len(inbox) + 1
    BY <2>2
  <2> QED
    BY <2>2, <2>3 DEF InboxStep
<1>6. UNCHANGED <<subq, sent>>
  BY DEF Attach
<1>7. QueueStep(m) /\ \A x \in Obj : subq'[x] \in {subq[x], <<>>}
  BY <1>6 DEF QueueStep
<1> QED
  BY <1>4, <1>5, <1>6, <1>7, EnvelopeTypes DEF OneEnvelope

LEMMA StampedFacts ==
  ASSUME TypeOK, NEW c \in DOMAIN conn, NEW to \in Peer \cup {All}, NEW type \in {"signal", "bye", "error"}
  PROVE  LET e == Stamped(c, to, type) IN
         /\ e \in Envelope /\ e.id = sent + 1 /\ e.src = c /\ e.from = conn[c].peer
         /\ e.to = to /\ e.type = type
BY StampedType DEF Stamped

\* The sockets a handler sends to itself.
LEMMA LocalRecipient ==
  ASSUME TypeOK, SocketInv, NEW o \in Obj, NEW q \in Attached(o), NEW d, d = peers[o][q]
  PROVE  d \in DOMAIN conn /\ SessionOf(d) = o /\ conn[d].peer = q /\ conn[d].st = "open"
BY AttachedFacts DEF Attached

LEMMA PublishStep ==
  ASSUME NEW i, NEW e, Publish(i, e)
  PROVE  QueueStep([origin |-> i, env |-> e])
BY DEF Publish, QueueStep

\* What the three handlers of a frame do: an envelope of type "signal" or
\* "error" goes to sockets of the session, or to Redis, or both.
LEMMA InboundEnvelope ==
  ASSUME TypeOK, SocketInv, NEW c \in DOMAIN conn,
         \/ \E p \in Peer : InboundTargeted(c, p)
         \/ InboundBroadcast(c)
         \/ InboundInvalid(c)
  PROVE  \E C, e, m : OneEnvelope(C, e, m) /\ e.type # "bye" /\ (SendTo(C, e) \/ UNCHANGED inbox)
<1>1. /\ SessionOf(c) \in Obj /\ conn[c].peer \in Peer /\ SessionOf(c)[1] = InstOf(c)
      /\ sent \in Nat
  BY SocketTypes, EnvelopeTypes DEF SessionOf, InstOf
<1>2. PICK o \in Obj, p \in Peer : o = SessionOf(c) /\ p = conn[c].peer /\ o[1] = InstOf(c)
  BY <1>1
<1>3. sent' = sent + 1 /\ UNCHANGED <<current, peers, sub, conn, ready>>
  BY DEF InboundTargeted, InboundBroadcast, InboundInvalid
<1>4. SameRoutes
  BY <1>3 DEF SameRoutes
<1>5. ASSUME NEW C, NEW to \in Peer \cup {All}, NEW type \in {"signal", "error"}, NEW e,
             e = Stamped(c, to, type),
             \A d \in C : d \in DOMAIN conn /\ SessionOf(d) = o /\ Addressed(d, e),
             SendTo(C, e) \/ UNCHANGED inbox,
             Publish(o[1], e) \/ UNCHANGED subq
      PROVE  \E D, x, m : OneEnvelope(D, x, m) /\ x.type # "bye" /\ (SendTo(D, x) \/ UNCHANGED inbox)
  <2>1. PICK m : m = [origin |-> o[1], env |-> e]
    OBVIOUS
  <2>2. e.id = sent + 1 /\ e.src = c /\ e.from = conn[c].peer /\ e.type = type
    BY <1>5, StampedFacts
  <2>3. m.env = e /\ m.origin = InstOf(e.src)
    BY <1>2, <2>1, <2>2
  <2>4. Fresh(C, e, m)
    BY <1>2, <1>3, <1>5, <2>2, <2>3 DEF Fresh
  <2>5. InboxStep(C, e)
    BY <1>5 DEF SendTo, InboxStep
  <2>6. QueueStep(m)
    BY <1>5, <2>1, PublishStep DEF QueueStep
  <2>7. sent' \in Nat /\ sent <= sent'
    BY <1>1, <1>3
  <2>8. OneEnvelope(C, e, m)
    BY <1>4, <2>4, <2>5, <2>6, <2>7 DEF OneEnvelope
  <2>9. e.type # "bye"
    BY <2>2
  <2> QED
    BY <1>5, <2>8, <2>9
<1>6. CASE \E to \in Peer : InboundTargeted(c, to)
  <2>1. PICK to \in Peer : InboundTargeted(c, to)
    BY <1>6
  <2>2. PICK e : e = Stamped(c, to, "signal")
    OBVIOUS
  <2>3. e.to = to /\ to # All
    BY <2>2, StampedFacts, PeerAssumption
  <2>4. CASE peers[o][to] # NoConn /\ SendTo({peers[o][to]}, e) /\ UNCHANGED subq
    <3>1. PICK d : d = peers[o][to]
      OBVIOUS
    <3>2. d \in DOMAIN conn /\ SessionOf(d) = o /\ conn[d].peer = to
      BY <2>4, <3>1, AttachedFacts
    <3>3. Addressed(d, e)
      BY <2>3, <3>2 DEF Addressed
    <3>4. SendTo({d}, e)
      BY <2>4, <3>1
    <3> QED
      BY <1>5, <2>2, <2>4, <3>2, <3>3, <3>4
  <2>5. CASE Publish(o[1], e) /\ UNCHANGED inbox
    <3>1. \A d \in {} : d \in DOMAIN conn /\ SessionOf(d) = o /\ Addressed(d, e)
      OBVIOUS
    <3>2. to \in Peer \cup {All} /\ "signal" \in {"signal", "error"}
      OBVIOUS
    <3>3. SendTo({}, e) \/ UNCHANGED inbox
      BY <2>5
    <3>4. Publish(o[1], e) \/ UNCHANGED subq
      BY <2>5
    <3> QED
      BY <1>5, <2>2, <3>1, <3>2, <3>3, <3>4
  <2> QED
    BY <1>2, <2>1, <2>2, <2>4, <2>5 DEF InboundTargeted
<1>7. CASE InboundBroadcast(c)
  <2>1. PICK e : e = Stamped(c, All, "signal")
    OBVIOUS
  <2>2. e.to = All /\ e.from = p
    BY <1>2, <2>1, StampedFacts
  <2>3. PICK C : C = OtherSockets(o, p)
    OBVIOUS
  <2>4. ASSUME NEW d \in C
        PROVE  d \in DOMAIN conn /\ SessionOf(d) = o /\ Addressed(d, e)
    <3>1. PICK q \in Attached(o) \ {p} : d = peers[o][q]
      BY <2>3 DEF OtherSockets
    <3>2. d \in DOMAIN conn /\ SessionOf(d) = o /\ conn[d].peer = q
      BY <3>1, LocalRecipient
    <3> QED
      BY <2>2, <3>1, <3>2 DEF Addressed
  <2>5. SendTo(C, e) /\ Publish(o[1], e)
    BY <1>2, <1>7, <2>1, <2>3 DEF InboundBroadcast
  <2> QED
    BY <1>5, <2>1, <2>4, <2>5
<1>8. CASE InboundInvalid(c)
  <2>1. PICK e : e = Stamped(c, p, "error")
    OBVIOUS
  <2>2. PICK d : d = peers[o][p]
    OBVIOUS
  <2>3. d # NoConn /\ SendTo({d}, e) /\ UNCHANGED subq
    BY <1>2, <1>8, <2>1, <2>2 DEF InboundInvalid
  <2>4. d \in DOMAIN conn /\ SessionOf(d) = o /\ conn[d].peer = p
    BY <2>2, <2>3, AttachedFacts
  <2>5. e.to = p /\ p # All
    BY <2>1, StampedFacts, PeerAssumption
  <2>6. Addressed(d, e)
    BY <2>4, <2>5 DEF Addressed
  <2> QED
    BY <1>5, <2>1, <2>3, <2>4, <2>6
<1> QED
  BY <1>6, <1>7, <1>8

\* What _detach sends: the bye of a peer that leaves.
LEMMA DetachEnvelope ==
  ASSUME TypeOK, SocketInv, NEW c \in DOMAIN conn, Detach(c)
  PROVE  \E o, p, C, e, m :
           /\ o \in Obj /\ p \in Peer
           /\ DetachesFrom(c, o, p) /\ OneEnvelope(C, e, m)
           /\ \A d \in DOMAIN conn \ {c} : inbox'[d] = IF d \in C THEN Append(inbox[d], e) ELSE inbox[d]
           /\ ready' = [ready EXCEPT ![c] = {}]
           /\ \/ C = {} /\ conn[c].st # "open"
              \/ C = OtherSockets(o, p) /\ conn[c].st = "open" /\ e = Stamped(c, All, "bye")
<1>1. PICK o \in Obj, p \in Peer : DetachesFrom(c, o, p)
  BY DetachEffect
<1>2. /\ o = SessionOf(c) /\ p = conn[c].peer /\ o[1] = InstOf(c)
      /\ DOMAIN conn' = DOMAIN conn
      /\ conn'[c] = [obj |-> o, peer |-> p, st |-> "gone"]
      /\ \A d \in DOMAIN conn \ {c} : conn'[d] = conn[d]
      /\ conn[c].st = "open" <=> peers[o][p] = c
  BY <1>1 DEF DetachesFrom, SessionOf, InstOf
<1>3. SameRoutes
  BY <1>2 DEF SameRoutes, SessionOf
<1>4. DOMAIN inbox = DOMAIN conn /\ sent \in Nat
  BY SocketTypes, EnvelopeTypes
<1>5. ready' = [ready EXCEPT ![c] = {}]
  BY DEF Detach
<1>6. PICK e : e = Stamped(c, All, "bye")
  OBVIOUS
<1>7. e.id = sent + 1 /\ e.src = c /\ e.from = p /\ e.to = All
  BY <1>2, <1>6, StampedFacts
<1>8. PICK m : m = [origin |-> o[1], env |-> e]
  OBVIOUS
<1>9. m.env = e /\ m.origin = InstOf(e.src)
  BY <1>2, <1>7, <1>8
<1>10. CASE Speaks(c) /\ IsCurrentSocket(c)
  <2>1. PICK C : C = OtherSockets(o, p)
    OBVIOUS
  <2>2. /\ sent' = sent + 1 /\ Publish(o[1], e)
        /\ inbox' = [d \in DOMAIN inbox |->
                       CASE d = c -> <<>>
                         [] d \in C -> Append(inbox[d], e)
                         [] OTHER -> inbox[d]]
    BY <1>2, <1>6, <1>10, <2>1 DEF Detach, LeaveNotice
  <2>3. inbox'[c] = <<>> /\ \A d \in DOMAIN conn \ {c} : inbox'[d] = IF d \in C THEN Append(inbox[d], e) ELSE inbox[d]
    <3>1. \A d \in DOMAIN conn :
            inbox'[d] = CASE d = c -> <<>>
                          [] d \in C -> Append(inbox[d], e)
                          [] OTHER -> inbox[d]
      BY <1>4, <2>2
    <3>2. inbox'[c] = <<>>
      <4>1. c = c /\ inbox'[c] = CASE c = c -> <<>>
                                   [] c \in C -> Append(inbox[c], e)
                                   [] OTHER -> inbox[c]
        BY <3>1
      <4>2. c \notin C
        <5>1. \A q \in Attached(o) \ {p} : peers[o][q] # c
          BY <1>2, LocalRecipient
        <5> QED
          BY <2>1, <5>1 DEF OtherSockets
      <4> QED
        BY <4>1, <4>2
    <3>3. ASSUME NEW d \in DOMAIN conn \ {c}
          PROVE  inbox'[d] = IF d \in C THEN Append(inbox[d], e) ELSE inbox[d]
      <4>1. CASE d \in C
        BY <3>1, <4>1
      <4>2. CASE d \notin C
        BY <3>1, <4>2
      <4> QED
        BY <4>1, <4>2
    <3> QED
      BY <3>2, <3>3
  <2>4. ASSUME NEW d \in C
        PROVE  d \in DOMAIN conn /\ SessionOf(d) = o /\ Addressed(d, e)
    <3>1. PICK q \in Attached(o) \ {p} : d = peers[o][q]
      BY <2>1 DEF OtherSockets
    <3>2. d \in DOMAIN conn /\ SessionOf(d) = o /\ conn[d].peer = q
      BY <3>1, LocalRecipient
    <3> QED
      BY <1>7, <3>1, <3>2 DEF Addressed
  <2>5. DOMAIN inbox' = DOMAIN inbox
    BY <2>2
  <2>6. InboxStep(C, e)
    BY <1>4, <2>3, <2>5 DEF InboxStep
  <2>7. QueueStep(m)
    BY <1>8, <2>2, PublishStep
  <2>8. Fresh(C, e, m)
    BY <1>2, <1>7, <1>9, <2>2, <2>4 DEF Fresh
  <2>9. OneEnvelope(C, e, m)
    BY <1>3, <1>4, <2>2, <2>6, <2>7, <2>8 DEF OneEnvelope
  <2>10. conn[c].st = "open"
    BY <1>2, <1>10 DEF IsCurrentSocket
  <2> QED
    BY <1>1, <1>5, <1>6, <2>1, <2>3, <2>9, <2>10
<1>11. CASE ~(Speaks(c) /\ IsCurrentSocket(c))
  <2>1. inbox' = [inbox EXCEPT ![c] = <<>>] /\ UNCHANGED <<subq, sent>>
    BY <1>11 DEF Detach
  <2>2. InboxStep({}, e) /\ \A d \in DOMAIN conn \ {c} : inbox'[d] = inbox[d]
    BY <1>4, <2>1 DEF InboxStep
  <2>3. QueueStep(m) /\ \A x \in Obj : subq'[x] \in {subq[x], <<>>}
    BY <2>1 DEF QueueStep
  <2>4. OneEnvelope({}, e, m)
    BY <1>3, <1>4, <2>1, <2>2, <2>3 DEF OneEnvelope
  <2>5. conn[c].st # "open"
    BY <1>2, <1>11 DEF IsCurrentSocket, Speaks
  <2>6. \A d \in DOMAIN conn \ {c} : inbox'[d] = IF d \in {} THEN Append(inbox[d], e) ELSE inbox[d]
    BY <2>2
  <2> QED
    BY <1>1, <1>5, <2>4, <2>5, <2>6
<1> QED
  BY <1>10, <1>11

\* A step that leaves every socket and every envelope where it is, or forgets
\* the queue of a subscriber.
LEMMA QuietEnvelope ==
  ASSUME TypeOK, UNCHANGED <<conn, inbox, sent>>, \A o \in Obj : subq'[o] \in {subq[o], <<>>}
  PROVE  \A e, m : OneEnvelope({}, e, m)
BY EnvelopeTypes DEF OneEnvelope, SameRoutes, InboxStep, QueueStep

LEMMA UnsubscribedQuiet ==
  ASSUME TypeOK, NEW o \in Obj, Subscribed(o) \/ Unsubscribed(o)
  PROVE  UNCHANGED <<current, peers, conn, ready, inbox, sent>> /\ \A x \in Obj : subq'[x] \in {subq[x], <<>>}
<1>1. UNCHANGED <<current, peers, conn, ready, inbox, sent>>
  BY DEF Subscribed, Unsubscribed
<1>2. UNCHANGED subq \/ subq' = [subq EXCEPT ![o] = <<>>]
  BY DEF Subscribed, Unsubscribed
<1> QED
  BY <1>1, <1>2 DEF TypeOK

LEMMA EnvelopeNext == TypeOK /\ SocketInv /\ EnvelopeInv /\ [Next]_vars => EnvelopeInv'
<1> SUFFICES ASSUME TypeOK, SocketInv, EnvelopeInv, [Next]_vars PROVE EnvelopeInv'
  OBVIOUS
<1>1. ASSUME NEW C, NEW e, NEW m, OneEnvelope(C, e, m)
      PROVE  EnvelopeInv'
  BY <1>1, FreshStep DEF OneEnvelope
<1>2. CASE UNCHANGED vars
  BY <1>1, <1>2, QuietEnvelope DEF vars
<1>3. CASE Next
  <2>1. ASSUME NEW i \in Inst, NEW p \in Peer, Attach(i, p)
        PROVE  EnvelopeInv'
    BY <1>1, <2>1, AttachEnvelope
  <2>2. ASSUME NEW c \in DOMAIN conn,
               \/ \E p \in Peer : InboundTargeted(c, p)
               \/ InboundBroadcast(c)
               \/ InboundInvalid(c)
        PROVE  EnvelopeInv'
    BY <1>1, <2>2, InboundEnvelope
  <2>3. ASSUME NEW c \in DOMAIN conn, Detach(c)
        PROVE  EnvelopeInv'
    BY <1>1, <2>3, DetachEnvelope
  <2>4. ASSUME NEW o \in Obj, Subscribed(o) \/ Unsubscribed(o)
        PROVE  EnvelopeInv'
    BY <1>1, <2>4, UnsubscribedQuiet, QuietEnvelope
  <2>5. ASSUME NEW o \in Obj, HandleRedisEnvelope(o)
        PROVE  EnvelopeInv'
    BY <2>5, DeliverStep
  <2> QED
    BY <1>3, <2>1, <2>2, <2>3, <2>4, <2>5 DEF Next
<1> QED
  BY <1>2, <1>3

LEMMA InitEnvelope == Init => EnvelopeInv
<1> SUFFICES ASSUME Init PROVE EnvelopeInv
  OBVIOUS
<1>1. DOMAIN inbox = {} /\ \A o \in Obj : DOMAIN subq[o] = {}
  BY DEF Init
<1> QED
  BY <1>1 DEF EnvelopeInv, AllMade, QueuedInOrder, NumberNamesMaker, NewerIsToCome, OnceAndInOrder

-----------------------------------------------------------------------------
(* Departures *)

\* Peer p is attached to the session of socket c, or c has p's bye.
Announced(c, p) ==
  \/ p \in Attached(SessionOf(c))
  \/ \E k \in DOMAIN inbox[c] : inbox[c][k].type = "bye" /\ inbox[c][k].from = p

ReadyAnnounced == \A c \in DOMAIN conn : conn[c].st = "open" => \A p \in ready[c] : Announced(c, p)

\* A socket that speaks for a peer on the same session is attached to it, so
\* only the peers that `ready` listed can be missed.
LEMMA OnlyReadyMatters == TypeOK /\ SocketInv /\ AllMade => (LeftPeersAreAnnounced <=> ReadyAnnounced)
<1> SUFFICES ASSUME TypeOK, SocketInv, AllMade PROVE LeftPeersAreAnnounced <=> ReadyAnnounced
  OBVIOUS
<1>1. \A c \in DOMAIN conn : c \in DOMAIN inbox
  BY SocketTypes
<1>2. ASSUME NEW c \in DOMAIN conn, NEW k \in DOMAIN inbox[c],
             SessionOf(inbox[c][k].src) = SessionOf(c), conn[inbox[c][k].src].st = "open"
      PROVE  inbox[c][k].from \in Attached(SessionOf(c))
  <2>1. PICK d \in DOMAIN conn : d = inbox[c][k].src /\ inbox[c][k].from = conn[d].peer
    BY <1>1 DEF AllMade, Made
  <2>2. IsCurrentSocket(d)
    BY <1>2, <2>1 DEF SocketInv
  <2>3. peers[SessionOf(c)][conn[d].peer] = d /\ conn[d].peer \in Peer /\ d # NoConn
    BY <1>2, <2>1, <2>2, SocketTypes, NoConnAssumption DEF IsCurrentSocket
  <2> QED
    BY <2>1, <2>3 DEF Attached
<1>3. ASSUME LeftPeersAreAnnounced
      PROVE  ReadyAnnounced
  BY <1>3 DEF LeftPeersAreAnnounced, ReadyAnnounced, Announced
<1>4. ASSUME ReadyAnnounced
      PROVE  LeftPeersAreAnnounced
  <2> SUFFICES ASSUME NEW c \in DOMAIN conn, conn[c].st = "open",
                      NEW p, \/ p \in ready[c]
                             \/ \E k \in DOMAIN inbox[c] : /\ SessionOf(inbox[c][k].src) = SessionOf(c)
                                                           /\ conn[inbox[c][k].src].st = "open"
                                                           /\ inbox[c][k].from = p
               PROVE  Announced(c, p)
    BY DEF LeftPeersAreAnnounced, Announced
  <2> QED
    BY <1>2, <1>4 DEF ReadyAnnounced, Announced
<1> QED
  BY <1>3, <1>4

\* A peer stays announced to a socket that keeps its envelopes, as long as the
\* peer stays attached.
LEMMA StaysAnnounced ==
  ASSUME TypeOK, SameRoutes, NEW c \in DOMAIN conn, NEW p, Announced(c, p),
         \A k \in DOMAIN inbox[c] : k \in DOMAIN inbox'[c] /\ inbox'[c][k] = inbox[c][k],
         p \in Attached(SessionOf(c)) => p \in Attached(SessionOf(c))'
  PROVE  Announced(c, p)'
BY DEF Announced, SessionOf, SameRoutes

LEMMA SendToKeeps ==
  ASSUME TypeOK, NEW C, NEW e, SendTo(C, e) \/ UNCHANGED inbox, NEW c \in DOMAIN inbox
  PROVE  \A k \in DOMAIN inbox[c] : k \in DOMAIN inbox'[c] /\ inbox'[c][k] = inbox[c][k]
<1>1. PICK s \in Seq(Envelope) : s = inbox[c]
  BY SocketTypes
<1>2. inbox'[c] = s \/ inbox'[c] = Append(s, e)
  BY <1>1 DEF SendTo
<1>3. DOMAIN s = 1..Len(s) /\ Len(s) \in Nat
  BY <1>1
<1>4. \A k \in DOMAIN s : k \in DOMAIN Append(s, e) /\ Append(s, e)[k] = s[k]
  BY <1>3, AppendFacts
<1> QED
  BY <1>1, <1>2, <1>4

LEMMA AttachAnnounced ==
  ASSUME TypeOK, SocketInv, ReadyAnnounced, NEW i \in Inst, NEW p \in Peer, Attach(i, p)
  PROVE  ReadyAnnounced'
<1>1. PICK o \in Obj, c \in Conn : AttachesTo(i, p, o, c)
  BY AttachEffect
<1>2. /\ c = Len(conn) + 1 /\ c \notin DOMAIN conn /\ DOMAIN conn' = DOMAIN conn \cup {c}
      /\ inbox' = Append(inbox, <<>>)
      /\ \/ /\ UNCHANGED peers
            /\ conn'[c] = [obj |-> o, peer |-> p, st |-> "refused"]
            /\ \A d \in DOMAIN conn : conn'[d] = conn[d]
            /\ ready' = Append(ready, {})
         \/ /\ peers' = [peers EXCEPT ![o][p] = c]
            /\ conn'[c] = [obj |-> o, peer |-> p, st |-> "open"]
            /\ \A d \in DOMAIN conn :
                 conn'[d] = IF d = peers[o][p] THEN [conn[d] EXCEPT !.st = "replaced"] ELSE conn[d]
            /\ ready' = Append(ready, Attached(o) \ {p})
  BY <1>1 DEF AttachesTo
<1>3. SameRoutes
  BY AttachEnvelope DEF OneEnvelope
<1>4. \A x \in Obj : Attached(x) \subseteq Attached(x)'
  <2>1. c # NoConn
    BY NoConnAssumption
  <2> QED
    <3>1. UNCHANGED peers \/ peers' = [peers EXCEPT ![o][p] = c]
      BY <1>2
    <3>2. peers \in [Obj -> [Peer -> Conn \cup {NoConn}]]
      BY DEF TypeOK
    <3>3. \A x \in Obj : \A q \in Peer : peers[x][q] # NoConn => peers'[x][q] # NoConn
      BY <2>1, <3>1, <3>2
    <3> QED
      BY <3>3 DEF Attached
<1>5. /\ ready \in Seq(SUBSET Peer) /\ inbox \in Seq(Seq(Envelope))
      /\ DOMAIN ready = DOMAIN conn /\ DOMAIN inbox = DOMAIN conn
      /\ DOMAIN conn = 1..Len(conn) /\ Len(ready) = Len(conn) /\ Len(inbox) = Len(conn)
  BY SocketTypes DEF TypeOK
<1>6. \A d \in DOMAIN conn : ready'[d] = ready[d] /\ inbox'[d] = inbox[d]
  BY <1>2, <1>5, AppendFacts
<1>7. ASSUME NEW d \in DOMAIN conn, conn'[d].st = "open", NEW q \in ready'[d]
      PROVE  Announced(d, q)'
  <2>1. conn[d].st = "open"
    <3>1. conn[d] \in Socket
      BY SocketTypes
    <3>2. [conn[d] EXCEPT !.st = "replaced"].st = "replaced"
      BY <3>1 DEF Socket
    <3> QED
      BY <1>2, <1>7, <3>2
  <2>2. Announced(d, q) /\ SessionOf(d) \in Obj
    BY <1>6, <1>7, <2>1, SocketTypes DEF ReadyAnnounced
  <2>3. PICK x \in Obj : x = SessionOf(d)
    BY <2>2
  <2>4. SessionOf(d)' = x
    BY <1>3, <2>3 DEF SessionOf, SameRoutes
  <2>5. q \in Attached(SessionOf(d)) => q \in Attached(SessionOf(d))'
    BY <1>4, <2>3, <2>4 DEF Attached
  <2> QED
    BY <1>3, <1>6, <2>2, <2>5, StaysAnnounced
<1>8. ASSUME conn'[c].st = "open", NEW q \in ready'[c]
      PROVE  Announced(c, q)'
  <2>1. ready'[c] = {} \/ ready'[c] = Attached(o) \ {p}
    BY <1>2, <1>5, AppendFacts
  <2>2. q \in Attached(o)'
    BY <1>4, <1>8, <2>1
  <2>3. SessionOf(c)' = o
    BY <1>2 DEF SessionOf
  <2> QED
    BY <2>2, <2>3 DEF Announced, Attached
<1> QED
  BY <1>2, <1>7, <1>8 DEF ReadyAnnounced

\* A peer that leaves is said to be gone to every socket of its session.
LEMMA DetachAnnounced ==
  ASSUME TypeOK, SocketInv, ReadyAnnounced, NEW c \in DOMAIN conn, Detach(c)
  PROVE  ReadyAnnounced'
<1>1. PICK o, p, C, e, m :
        /\ o \in Obj /\ p \in Peer
        /\ DetachesFrom(c, o, p) /\ OneEnvelope(C, e, m)
        /\ \A d \in DOMAIN conn \ {c} : inbox'[d] = IF d \in C THEN Append(inbox[d], e) ELSE inbox[d]
        /\ ready' = [ready EXCEPT ![c] = {}]
        /\ \/ C = {} /\ conn[c].st # "open"
           \/ C = OtherSockets(o, p) /\ conn[c].st = "open" /\ e = Stamped(c, All, "bye")
  BY DetachEnvelope
<1>2. /\ o = SessionOf(c) /\ p = conn[c].peer
      /\ DOMAIN conn' = DOMAIN conn
      /\ conn'[c] = [obj |-> o, peer |-> p, st |-> "gone"]
      /\ \A d \in DOMAIN conn \ {c} : conn'[d] = conn[d]
      /\ \/ /\ peers[o][p] = c /\ c # NoConn /\ conn[c].st = "open"
            /\ peers' = [peers EXCEPT ![o][p] = NoConn]
         \/ /\ conn[c].st # "open"
            /\ UNCHANGED <<current, peers, sub>>
  BY <1>1 DEF DetachesFrom
<1>3. SameRoutes
  BY <1>1 DEF OneEnvelope
<1>4. DOMAIN ready = DOMAIN conn /\ DOMAIN inbox = DOMAIN conn
  BY SocketTypes
<1>5. ASSUME NEW d \in DOMAIN conn, conn'[d].st = "open", NEW q \in ready'[d]
      PROVE  Announced(d, q)'
  <2>1. d # c
    BY <1>2, <1>5
  <2>2. conn[d].st = "open" /\ q \in ready[d] /\ Announced(d, q)
    BY <1>1, <1>2, <1>4, <1>5, <2>1 DEF ReadyAnnounced
  <2>3. PICK x \in Obj : x = SessionOf(d)
    BY SocketTypes
  <2>4. SessionOf(d)' = x
    BY <1>3, <2>3 DEF SessionOf, SameRoutes
  <2>5. PICK s \in Seq(Envelope) : s = inbox[d]
    BY SocketTypes
  <2>6. inbox'[d] = IF d \in C THEN Append(s, e) ELSE s
    BY <1>1, <2>1, <2>5
  <2>7. \A k \in DOMAIN inbox[d] : k \in DOMAIN inbox'[d] /\ inbox'[d][k] = inbox[d][k]
    <3>1. DOMAIN s = 1..Len(s) /\ Len(s) \in Nat
      BY <2>5
    <3>2. \A k \in DOMAIN s : k \in DOMAIN Append(s, e) /\ Append(s, e)[k] = s[k]
      BY <3>1, AppendFacts
    <3> QED
      BY <2>5, <2>6, <3>2
  <2>8. CASE q \in Attached(x) => q \in Attached(x)'
    <3>1. q \in Attached(SessionOf(d)) => q \in Attached(SessionOf(d))'
      BY <2>3, <2>4, <2>8 DEF Attached
    <3> QED
      BY <1>3, <2>2, <2>7, <3>1, StaysAnnounced
  <2>9. CASE ~(q \in Attached(x) => q \in Attached(x)')
    <3>1. peers[x][q] # NoConn /\ peers'[x][q] = NoConn /\ q \in Peer
      BY <2>9 DEF Attached, TypeOK
    <3>2. x = o /\ q = p /\ conn[c].st = "open" /\ peers[o][p] = c
      BY <1>2, <3>1 DEF TypeOK
    <3>3. C = OtherSockets(o, p) /\ e = Stamped(c, All, "bye")
      BY <1>1, <3>2
    <3>4. d \in C
      <4>1. IsCurrentSocket(d) /\ d # NoConn
        BY <2>2, NoConnAssumption, SocketTypes DEF SocketInv
      <4>2. PICK r \in Peer : r = conn[d].peer
        BY SocketTypes
      <4>3. peers[o][r] = d
        BY <2>3, <3>2, <4>1, <4>2 DEF IsCurrentSocket
      <4>4. r # p
        BY <2>1, <3>2, <4>3
      <4> QED
        BY <3>3, <4>1, <4>3, <4>4 DEF OtherSockets, Attached
    <3>5. e.type = "bye" /\ e.from = q
      BY <1>2, <3>2, <3>3, StampedFacts
    <3>6. Len(s) + 1 \in DOMAIN inbox'[d] /\ inbox'[d][Len(s) + 1] = e
      BY <2>5, <2>6, <3>4, AppendFacts
    <3> QED
      BY <3>5, <3>6 DEF Announced
  <2> QED
    BY <2>8, <2>9
<1> QED
  BY <1>2, <1>5 DEF ReadyAnnounced

\* Any other step: nobody leaves and no open socket forgets.
LEMMA QuietAnnounced ==
  ASSUME TypeOK, ReadyAnnounced, UNCHANGED <<peers, conn, ready>>,
         NEW C, NEW e, SendTo(C, e) \/ UNCHANGED inbox
  PROVE  ReadyAnnounced'
<1> SUFFICES ASSUME NEW c \in DOMAIN conn, conn[c].st = "open", NEW p \in ready[c]
             PROVE  Announced(c, p)'
  BY DEF ReadyAnnounced
<1>1. Announced(c, p) /\ c \in DOMAIN inbox
  BY SocketTypes DEF ReadyAnnounced
<1>2. SameRoutes /\ (p \in Attached(SessionOf(c)) => p \in Attached(SessionOf(c))')
  BY DEF SameRoutes, Attached, SessionOf
<1>3. \A k \in DOMAIN inbox[c] : k \in DOMAIN inbox'[c] /\ inbox'[c][k] = inbox[c][k]
  BY <1>1, SendToKeeps
<1> QED
  BY <1>1, <1>2, <1>3, StaysAnnounced

LEMMA AnnouncedNext == TypeOK /\ SocketInv /\ ReadyAnnounced /\ [Next]_vars => ReadyAnnounced'
<1> SUFFICES ASSUME TypeOK, SocketInv, ReadyAnnounced, [Next]_vars PROVE ReadyAnnounced'
  OBVIOUS
<1>1. CASE UNCHANGED vars
  BY <1>1, QuietAnnounced DEF vars
<1>2. CASE Next
  <2>1. ASSUME NEW i \in Inst, NEW p \in Peer, Attach(i, p)
        PROVE  ReadyAnnounced'
    BY <2>1, AttachAnnounced
  <2>2. ASSUME NEW c \in DOMAIN conn,
               \/ \E p \in Peer : InboundTargeted(c, p)
               \/ InboundBroadcast(c)
               \/ InboundInvalid(c)
        PROVE  ReadyAnnounced'
    <3>1. PICK C, e, m : OneEnvelope(C, e, m) /\ e.type # "bye" /\ (SendTo(C, e) \/ UNCHANGED inbox)
      BY <2>2, InboundEnvelope
    <3>2. UNCHANGED <<peers, conn, ready>>
      BY <2>2 DEF InboundTargeted, InboundBroadcast, InboundInvalid
    <3> QED
      BY <3>1, <3>2, QuietAnnounced
  <2>3. ASSUME NEW c \in DOMAIN conn, Detach(c)
        PROVE  ReadyAnnounced'
    BY <2>3, DetachAnnounced
  <2>4. ASSUME NEW o \in Obj, Subscribed(o) \/ Unsubscribed(o)
        PROVE  ReadyAnnounced'
    BY <2>4, UnsubscribedQuiet, QuietAnnounced
  <2>5. ASSUME NEW o \in Obj, HandleRedisEnvelope(o)
        PROVE  ReadyAnnounced'
    BY <2>5, QuietAnnounced DEF HandleRedisEnvelope
  <2> QED
    BY <1>2, <2>1, <2>2, <2>3, <2>4, <2>5 DEF Next
<1> QED
  BY <1>1, <1>2

\* A new bye is that of a socket which was its peer's only open one.
LEMMA ByeIsDeparture ==
  ASSUME TypeOK, SocketInv, EnvelopeInv, [Next]_vars,
         NEW c \in DOMAIN conn, NEW b \in Range(inbox'[c]), b.type = "bye", b.id > sent
  PROVE  ~\E d \in DOMAIN conn : /\ conn[d].obj[1] = InstOf(b.src) /\ conn[d].peer = b.from
                                 /\ conn'[d].st = "open"
<1>1. PICK k \in DOMAIN inbox'[c] : b = inbox'[c][k]
  BY DEF Range
<1>2. c \in DOMAIN inbox /\ sent \in Nat
  BY SocketTypes, EnvelopeTypes
\* It is new, so the step made it.
<1>3. ASSUME NEW x, Made(x), x.id \in Nat
      PROVE  b # x
  BY <1>2, <1>3 DEF Made
<1>4. \A i \in DOMAIN inbox[c] : b # inbox[c][i]
  BY <1>2, <1>3, EnvelopeTypes DEF EnvelopeInv, AllMade
<1>5. ASSUME NEW C, NEW e, InboxStep(C, e), c \in DOMAIN inbox'
      PROVE  b = e /\ c \in C
  BY <1>1, <1>4, <1>5, InboxEntries
<1>6. c \in DOMAIN inbox'
  <2>1. TypeOK'
    BY NextType
  <2>2. DOMAIN conn \subseteq DOMAIN conn' /\ DOMAIN conn' = DOMAIN inbox'
    <3>1. DOMAIN conn' = DOMAIN inbox'
      BY <2>1 DEF TypeOK
    <3>2. DOMAIN conn \subseteq DOMAIN conn'
      <4>1. CASE \E i \in Inst, p \in Peer : Attach(i, p)
        BY <4>1, AttachEnvelope DEF OneEnvelope, SameRoutes
      <4>2. CASE \E d \in DOMAIN conn : Detach(d)
        BY <4>2, DetachEffect DEF DetachesFrom
      <4>3. CASE UNCHANGED conn
        BY <4>3
      <4> QED
        BY <4>1, <4>2, <4>3
           DEF Next, vars, InboundTargeted, InboundBroadcast, InboundInvalid,
               Subscribed, Unsubscribed, HandleRedisEnvelope
    <3> QED
      BY <3>1, <3>2
  <2> QED
    BY <2>2
<1>7. ASSUME NEW C, NEW e, NEW m, OneEnvelope(C, e, m)
      PROVE  b = e /\ c \in C
  BY <1>5, <1>6, <1>7 DEF OneEnvelope
<1>8. PICK d \in DOMAIN conn : Detach(d)
  <2>1. ~UNCHANGED vars
    BY <1>7, QuietEnvelope DEF vars
  <2>2. ASSUME NEW i \in Inst, NEW p \in Peer, Attach(i, p)
        PROVE  FALSE
    BY <1>7, <2>2, AttachEnvelope
  <2>3. ASSUME NEW d \in DOMAIN conn,
               \/ \E p \in Peer : InboundTargeted(d, p)
               \/ InboundBroadcast(d)
               \/ InboundInvalid(d)
        PROVE  FALSE
    BY <1>7, <2>3, InboundEnvelope
  <2>4. ASSUME NEW o \in Obj, Subscribed(o) \/ Unsubscribed(o)
        PROVE  FALSE
    BY <1>7, <2>4, UnsubscribedQuiet, QuietEnvelope
  <2>5. ASSUME NEW o \in Obj, HandleRedisEnvelope(o)
        PROVE  FALSE
    <3>1. PICK s \in Seq(Message) : s = subq[o] /\ s # <<>>
      BY <2>5, EnvelopeTypes DEF HandleRedisEnvelope
    <3>2. Head(s) = s[1] /\ 1 \in DOMAIN s
      BY <3>1, TailFacts
    <3>3. PICK e : e = s[1].env
      OBVIOUS
    <3>4. SendTo(Recipients(o, Head(s)), e)
      BY <2>5, <3>1, <3>2, <3>3 DEF HandleRedisEnvelope
    <3>5. InboxStep(Recipients(o, Head(s)), e)
      BY <3>4 DEF SendTo, InboxStep
    <3>6. b = e
      BY <1>5, <1>6, <3>5
    <3>7. Made(e) /\ e.id \in Nat
      BY <3>1, <3>2, <3>3, EnvelopeTypes DEF EnvelopeInv, AllMade
    <3> QED
      BY <1>3, <3>6, <3>7
  <2> QED
    BY <2>1, <2>2, <2>3, <2>4, <2>5 DEF Next
<1>9. PICK o, p, C, e, m :
        /\ o \in Obj /\ p \in Peer
        /\ DetachesFrom(d, o, p) /\ OneEnvelope(C, e, m)
        /\ \/ C = {} /\ conn[d].st # "open"
           \/ C = OtherSockets(o, p) /\ conn[d].st = "open" /\ e = Stamped(d, All, "bye")
  BY <1>8, DetachEnvelope
<1>10. b = e /\ conn[d].st = "open" /\ e = Stamped(d, All, "bye")
  BY <1>7, <1>9
<1>11. /\ o \in Obj /\ p \in Peer
       /\ o = SessionOf(d) /\ p = conn[d].peer /\ peers[o][p] = d
       /\ conn'[d].st = "gone" /\ d # NoConn
       /\ \A x \in DOMAIN conn \ {d} : conn'[x] = conn[x]
  BY <1>9, <1>10 DEF DetachesFrom
<1>12. InstOf(b.src) = o[1] /\ b.from = p
  BY <1>10, <1>11, StampedFacts DEF InstOf, SessionOf
<1> SUFFICES ASSUME NEW x \in DOMAIN conn, conn[x].obj[1] = o[1], conn[x].peer = p, conn'[x].st = "open"
             PROVE  FALSE
  BY <1>12
<1>13. x # d /\ conn[x].st = "open"
  BY <1>11
<1>14. PICK y \in Obj : y = SessionOf(x) /\ y[1] = o[1]
  BY SocketTypes DEF SessionOf
<1>15. peers[y][p] = x /\ x # NoConn
  BY <1>13, <1>14, NoConnAssumption, SocketTypes DEF SocketInv, IsCurrentSocket
<1>16. IsLive(y) /\ IsLive(o)
  BY <1>11, <1>15, AttachedFacts
<1>17. y = o
  BY <1>11, <1>14, <1>16, ObjectsApart DEF IsLive
<1> QED
  BY <1>11, <1>13, <1>15, <1>17

-----------------------------------------------------------------------------
(* The theorems *)

LEMMA SignalingInvariant == Spec => [](TypeOK /\ SignalingInv)
<1>1. Init => ReadyAnnounced
  BY DEF Init, ReadyAnnounced
<1>2. Init => TypeOK /\ SocketInv /\ EnvelopeInv /\ ReadyAnnounced
  BY <1>1, InitType, InitSocket, InitEnvelope
<1>3. /\ TypeOK /\ SocketInv /\ EnvelopeInv /\ ReadyAnnounced
      /\ [Next]_vars
      => (TypeOK /\ SocketInv /\ EnvelopeInv /\ ReadyAnnounced)'
  BY NextType, SocketNext, EnvelopeNext, AnnouncedNext
<1>4. TypeOK /\ SocketInv /\ EnvelopeInv /\ ReadyAnnounced => SignalingInv
  BY OnlyReadyMatters DEF SignalingInv, EnvelopeInv
<1> QED
  BY <1>2, <1>3, <1>4, PTL DEF Spec

\* A session lives exactly as long as a peer is attached to it, and every
\* socket the service sends to is the one its peer opened last and still has.
THEOREM SessionsLiveWithPeers == Spec => []SessionsEndWithTheirPeers
<1>1. TypeOK /\ SignalingInv => SessionsEndWithTheirPeers
  BY DEF SignalingInv, SocketInv
<1> QED
  BY <1>1, SignalingInvariant, PTL

\* No socket is sent an envelope twice, or one for somebody else, and what one
\* socket says arrives at another in the order it was said.
THEOREM EnvelopesOnceInOrder == Spec => []OnceAndInOrder
<1>1. TypeOK /\ SignalingInv => OnceAndInOrder
  BY DEF SignalingInv, EnvelopeInv
<1> QED
  BY <1>1, SignalingInvariant, PTL

\* Whoever left was announced, and whoever reconnected to the same instance is
\* never said to be gone.
THEOREM ByesMeanDepartures == Spec => ByesAreDepartures
<1>1. /\ TypeOK /\ SignalingInv /\ (TypeOK /\ SignalingInv)' /\ [Next]_vars
      => [/\ LeftPeersAreAnnounced'
          /\ \A c \in DOMAIN conn : \A e \in Range(inbox'[c]) :
               e.type = "bye" /\ e.id > sent =>
                 ~\E d \in DOMAIN conn : /\ conn[d].obj[1] = InstOf(e.src) /\ conn[d].peer = e.from
                                        /\ conn'[d].st = "open"]_vars
  <2>1. (TypeOK /\ SignalingInv)' => LeftPeersAreAnnounced'
    BY DEF SignalingInv
  <2> QED
    BY <2>1, ByeIsDeparture DEF SignalingInv
<1> QED
  BY <1>1, SignalingInvariant, PTL DEF Spec, ByesAreDepartures

==============================================================================
