------------------------------- MODULE Fanout -------------------------------
(***************************************************************************)
(* The poke fan-out of one user: a push commits on some instance, then     *)
(* publishes one poke per resource it touched through the broadcaster, and *)
(* every instance forwards it to the poke sockets of the user's clients,   *)
(* which pull what they are poked for.  The rows of a resource are reduced *)
(* to the version of the last batch that touched it; what a push writes is *)
(* the subject of SyncEngine.                                              *)
(*                                                                         *)
(* Pokes and pushes under way are kept in sets: nothing here depends on    *)
(* their order.  The clients never poll: the module shows what the pokes   *)
(* alone achieve, and in which cases they do not.                          *)
(***************************************************************************)
EXTENDS Naturals

CONSTANTS
  Inst,        \* server processes
  Client,      \* devices of the user, with one poke socket each
  Resource,    \* sync resources
  MaxVersion,  \* BOUND: batches committed in a behaviour
  MaxSocket,   \* BOUND: sockets opened in a behaviour
  MaxFault,    \* BOUND: lost publications, dropped subscriptions, stopped processes
  None         \* no transaction, no instance

ASSUME BoundsAssumption == MaxVersion \in Nat /\ MaxSocket \in Nat /\ MaxFault \in Nat

VARIABLES
  adaptor,    \* the broadcaster the deployment is wired with
  version,    \* committed: sync_global_version of the user
  row,        \* committed: per resource, the version of its newest row
  tx,         \* the transaction that holds the user's version row, or None
  committed,  \* per instance, pushes that committed and have not poked yet
  sock,       \* the poke socket of each client and its subscription
  queue,      \* pokes on their way to the subscription of each client
  needPull,   \* resources a client is about to pull
  cursor,     \* per client and resource, the version it has pulled
  missed,     \* history: resources whose poke never reached this socket
  opened,     \* sockets opened so far
  faults      \* faults so far

vars == <<adaptor, version, row, tx, committed, sock, queue, needPull, cursor, missed, opened, faults>>

Version == 0..MaxVersion
\* IPokeEnvelope; originClientId is never read after it was published.
Poke == [resource: Resource, cursor: Version]
\* A push under way: where it runs, what it touches, the version it ends at.
Push == [inst: Inst, touched: SUBSET Resource, version: Version]
Socket == [inst: Inst \cup {None}, st: {"closed", "open", "closing"},
           sub: {"none", "pending", "active"}]
NoSocket == [inst |-> None, st |-> "closed", sub |-> "none"]


Init ==
  /\ adaptor \in {"redis", "memory"}
  /\ version = 0
  /\ row = [r \in Resource |-> 0]
  /\ tx = None
  /\ committed = [i \in Inst |-> {}]
  /\ sock = [c \in Client |-> NoSocket]
  /\ queue = [c \in Client |-> {}]
  /\ needPull = [c \in Client |-> {}]
  /\ cursor = [c \in Client |-> [r \in Resource |-> 0]]
  /\ missed = [c \in Client |-> {}]
  /\ opened = 0
  /\ faults = 0

\* "Multi-replica deployments MUST use Redis": with the in-process broadcaster
\* there is one server.
Running == IF adaptor = "memory" THEN {CHOOSE i \in Inst : TRUE} ELSE Inst

(***************************************************************************)
(* push, and the administrator's wipe of one resource: one transaction     *)
(* under the lock of the user's version row, then the pokes.               *)
(***************************************************************************)
BeginPush(i, touched) ==
  /\ i \in Running /\ tx = None /\ version < MaxVersion
  /\ tx' = [inst |-> i, touched |-> touched, version |-> version + 1]
  /\ UNCHANGED <<adaptor, version, row, committed, sock, queue, needPull, cursor, missed, opened, faults>>

\* Fault variant: a batch of several resources is poked for one of them.
EnvelopesFirst(t) == {[resource |-> CHOOSE r \in t.touched : TRUE, cursor |-> t.version]}

\* Fault variant: the cursor of a poke is the version after the batch's.
EnvelopesAhead(t) == {[resource |-> r, cursor |-> t.version + 1] : r \in t.touched}

\* One envelope per touched resource, with the version the batch ended at.
Envelopes(t) == {[resource |-> r, cursor |-> t.version] : r \in t.touched}

Commit ==
  /\ tx # None
  /\ version' = tx.version
  /\ row' = [r \in Resource |-> IF r \in tx.touched THEN tx.version ELSE row[r]]
  /\ committed' = [committed EXCEPT ![tx.inst] = @ \cup {tx}]
  /\ tx' = None
  /\ UNCHANGED <<adaptor, sock, queue, needPull, cursor, missed, opened, faults>>

Abort ==
  /\ tx # None
  /\ tx' = None
  /\ UNCHANGED <<adaptor, version, row, committed, sock, queue, needPull, cursor, missed, opened, faults>>

(***************************************************************************)
(* The broadcaster.  A publication reaches the subscriptions that are      *)
(* confirmed at that moment; the loop over the touched resources has no    *)
(* await, so one push's pokes are handed over together.                    *)
(***************************************************************************)

\* Fault variant: only the instance that took the push is told.
ReachedHere(i) == {c \in Client : sock[c].sub = "active" /\ sock[c].inst = i}

\* The clients whose subscription a publication of instance i reaches.
Reached(i) == {c \in Client : sock[c].sub = "active"}

Publish(i, t) ==
  /\ t \in committed[i]
  /\ queue' = [c \in Client |-> IF c \in Reached(i) THEN queue[c] \cup Envelopes(t) ELSE queue[c]]
  /\ missed' = [c \in Client |-> IF sock[c].sub = "pending" THEN missed[c] \cup t.touched
                                                           ELSE missed[c]]
  /\ committed' = [committed EXCEPT ![i] = @ \ {t}]
  /\ UNCHANGED <<adaptor, version, row, tx, sock, needPull, cursor, opened, faults>>

\* The pokes of some pushes are gone; the clients C do not hear of them.
LosePokes(pushes, C) ==
  missed' = [c \in Client |-> IF c \in C THEN missed[c] \cup UNION {t.touched : t \in pushes}
                                         ELSE missed[c]]

\* publish() rejects and push swallows it: the write has committed.
PublishFails(i, t) ==
  /\ t \in committed[i] /\ faults < MaxFault
  /\ LosePokes({t}, Client)
  /\ committed' = [committed EXCEPT ![i] = @ \ {t}]
  /\ faults' = faults + 1
  /\ UNCHANGED <<adaptor, version, row, tx, sock, queue, needPull, cursor, opened>>

(***************************************************************************)
(* The poke socket of a client.                                            *)
(***************************************************************************)

\* onOpen subscribes.  Redis confirms later, and nothing tells the client when.
\* EXTERNAL: a client that connects pulls every resource.
Open(c, i) ==
  /\ sock[c].st = "closed" /\ i \in Running /\ opened < MaxSocket
  /\ sock' = [sock EXCEPT ![c] = [inst |-> i, st |-> "open",
                                  sub |-> IF adaptor = "redis" THEN "pending" ELSE "active"]]
  /\ needPull' = [needPull EXCEPT ![c] = Resource]
  /\ missed' = [missed EXCEPT ![c] = {}]
  /\ opened' = opened + 1
  /\ UNCHANGED <<adaptor, version, row, tx, committed, queue, cursor, faults>>

Subscribed(c) ==
  /\ sock[c].sub = "pending"
  /\ sock' = [sock EXCEPT ![c].sub = "active"]
  /\ UNCHANGED <<adaptor, version, row, tx, committed, queue, needPull, cursor, missed, opened, faults>>

\* EXTERNAL: each subscription has a connection to Redis of its own.  It drops,
\* with the pokes that are on it, and the client of Redis subscribes anew.
DropSubscription(c) ==
  /\ adaptor = "redis" /\ sock[c].sub = "active" /\ faults < MaxFault
  /\ sock' = [sock EXCEPT ![c].sub = "pending"]
  /\ missed' = [missed EXCEPT ![c] = @ \cup {e.resource : e \in queue[c]}]
  /\ queue' = [queue EXCEPT ![c] = {}]
  /\ faults' = faults + 1
  /\ UNCHANGED <<adaptor, version, row, tx, committed, needPull, cursor, opened>>

\* The handler forwards only on an open socket; a client pulls what it is
\* poked for.
Deliver(c) ==
  \E e \in queue[c] :
    /\ needPull' = IF sock[c].st = "open" THEN [needPull EXCEPT ![c] = @ \cup {e.resource}]
                                         ELSE needPull
    /\ queue' = [queue EXCEPT ![c] = @ \ {e}]
    /\ UNCHANGED <<adaptor, version, row, tx, committed, sock, cursor, missed, opened, faults>>

\* EXTERNAL: the client pulls; the answer holds every committed row it lacks.
Pull(c, r) ==
  /\ r \in needPull[c]
  /\ cursor' = [cursor EXCEPT ![c][r] = row[r]]
  /\ needPull' = [needPull EXCEPT ![c] = @ \ {r}]
  /\ UNCHANGED <<adaptor, version, row, tx, committed, sock, queue, missed, opened, faults>>

\* The connection breaks: readyState changes before onClose or onError runs.
Break(c) ==
  /\ sock[c].st = "open"
  /\ sock' = [sock EXCEPT ![c].st = "closing"]
  /\ UNCHANGED <<adaptor, version, row, tx, committed, queue, needPull, cursor, missed, opened, faults>>

\* onClose or onError: the subscription ends, and what Redis still sends it
\* finds a socket that is not open.
Closed(c) ==
  /\ sock[c].st = "closing"
  /\ sock' = [sock EXCEPT ![c] = NoSocket]
  /\ queue' = [queue EXCEPT ![c] = {}]
  /\ UNCHANGED <<adaptor, version, row, tx, committed, needPull, cursor, missed, opened, faults>>

\* A process ends, by shutdown() or by a crash, and is started again: its
\* sockets and its transaction end, the pokes it had not published are lost.
Stop(i) ==
  LET here == {c \in Client : sock[c].inst = i} IN
  /\ i \in Running /\ faults < MaxFault
  /\ faults' = faults + 1
  /\ LosePokes(committed[i], Client \ here)
  /\ committed' = [committed EXCEPT ![i] = {}]
  /\ tx' = IF tx # None /\ tx.inst = i THEN None ELSE tx
  /\ sock' = [c \in Client |-> IF c \in here THEN NoSocket ELSE sock[c]]
  /\ queue' = [c \in Client |-> IF c \in here THEN {} ELSE queue[c]]
  /\ UNCHANGED <<adaptor, version, row, needPull, cursor, opened>>

Next ==
  \/ \E i \in Inst, R \in (SUBSET Resource) \ {{}} : BeginPush(i, R)
  \/ Commit \/ Abort
  \/ \E i \in Inst : Stop(i) \/ \E t \in committed[i] : Publish(i, t) \/ PublishFails(i, t)
  \/ \E c \in Client : \/ \E i \in Inst : Open(c, i)
                       \/ Subscribed(c) \/ DropSubscription(c)
                       \/ Deliver(c) \/ Break(c) \/ Closed(c)
                       \/ \E r \in Resource : Pull(c, r)

\* What runs without anybody's doing: the rest of a push after its commit, the
\* message callbacks, and the clients' pulls.  Connections need not be opened,
\* and a subscription need never be confirmed.
Fairness ==
  /\ \A i \in Inst : WF_vars(\E t \in committed[i] : Publish(i, t))
  /\ \A c \in Client : WF_vars(Deliver(c)) /\ \A r \in Resource : WF_vars(Pull(c, r))

Spec == Init /\ [][Next]_vars /\ Fairness

-----------------------------------------------------------------------------

TypeOK ==
  /\ adaptor \in {"redis", "memory"}
  /\ version \in Version
  /\ row \in [Resource -> Version]
  /\ tx \in Push \cup {None}
  /\ committed \in [Inst -> SUBSET Push]
  /\ sock \in [Client -> Socket]
  /\ queue \in [Client -> SUBSET Poke]
  /\ needPull \in [Client -> SUBSET Resource]
  /\ cursor \in [Client -> [Resource -> Version]]
  /\ missed \in [Client -> SUBSET Resource]
  /\ opened \in Nat /\ faults \in Nat

Behind(c, r) == cursor[c][r] < row[r]

\* The poke for resource r is with the instance that pushed, or with Redis.
OnItsWay(c, r) ==
  \/ \E i \in Inst : \E t \in committed[i] : r \in t.touched
  \/ \E e \in queue[c] : e.resource = r

\* A connected client that lacks a committed write is about to pull it or its
\* poke is on the way, unless the poke was lost: its publication failed, the
\* instance stopped between commit and publication, it was published before the
\* client's subscription was confirmed (the first time or anew), or it was on a
\* subscription that dropped.  There is no fifth way.
NobodySilentlyStale ==
  \A c \in Client, r \in Resource :
    sock[c].st = "open" /\ Behind(c, r) =>
      r \in needPull[c] \/ OnItsWay(c, r) \/ r \in missed[c]

\* A poke never runs ahead of its write: whoever pulls because of it finds the
\* rows it is about.
PokesFollowCommits ==
  \A c \in Client : \A e \in queue[c] : e.cursor <= row[e.resource]

\* Pokes are enough: a client that stays connected gets every committed write
\* of every other client without polling, if no poke for it is lost.
PokesDriveClients ==
  \A c \in Client, r \in Resource :
    (sock[c].st = "open" /\ Behind(c, r))
      ~> (~Behind(c, r) \/ r \in missed[c] \/ sock[c].st # "open")

=============================================================================
