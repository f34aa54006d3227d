------------------------------ MODULE SyncEngine ------------------------------
(***************************************************************************)
(* The sync engine of one user: packages/sync/src/services/sync.service.ts *)
(* over the three sync repositories, the administrator's resource wipe, and*)
(* the clients that push and pull.  Every table is keyed by the user and   *)
(* every query filters on it, so users do not interact and one suffices.   *)
(*                                                                         *)
(* A push is one READ COMMITTED transaction that starts by locking the     *)
(* user's sync_global_version row.  It is modelled as the steps Begin,     *)
(* Skip / Accept / Reject (one per mutation, in id order) and Commit; what *)
(* it wrote stays in its own work record until Commit, or is dropped by    *)
(* Abort.  A pull is NOT a transaction: PullRows and PullVersion are two   *)
(* reads of whatever is committed when each of them runs.                  *)
(*                                                                         *)
(* The clients live in another repository.  They are modelled from the     *)
(* protocol comments: an outbox of mutations with increasing ids, pushed   *)
(* whole; accepted ids leave the outbox; rejected ones stay, are rebased   *)
(* by a pull and retried under the same id.                                *)
(***************************************************************************)
EXTENDS Integers

CONSTANTS
  Client,      \* the client ids of the user
  Key,         \* the (resource, entityId) pairs
  Resource,    \* the resources
  ResourceOf,  \* Key -> Resource
  Op,          \* the operations clients use, a subset of {"upsert", "delete"}
  Slot,        \* requests that can be in flight at the same time
  Owner,       \* Slot -> Client or Admin, whose requests the slot carries
  Free,        \* "no slot": the lock is free, the client awaits nothing
  Admin,       \* the administrator, who wipes resources
  MaxId,       \* bound: Client -> how many edits it makes
  MaxFault,    \* bound: timeouts, aborted transactions and lost pulls
  MaxClear     \* bound: administrator wipes

ASSUME ResourceAssumption == ResourceOf \in [Key -> Resource]
ASSUME OwnerAssumption    == Owner \in [Slot -> Client \cup {Admin}]
ASSUME FreeAssumption     == Free \notin Slot
ASSUME AdminAssumption    == Admin \notin Client
ASSUME BoundAssumption    == MaxId \in [Client -> Nat] /\ MaxFault \in Nat /\ MaxClear \in Nat

VARIABLES
  row,       \* sync_objects, as committed
  current,   \* sync_global_version.current, as committed
  lastId,    \* sync_clients.last_mutation_id per client, as committed
  lock,      \* the slot holding the FOR UPDATE lock, or Free
  pc, req, work,                          \* the request handlers, per slot
  outbox, nextId, awaiting, seen, cursor, pull,   \* the clients
  log,       \* history: every committed write with its author
  held,      \* history: the version whose content the client has, per key
  missed,    \* history: keys an empty pull stepped over, per client
  faults, clears                          \* counters for the bounds

storeVars  == <<row, current, lastId, log>>
pushVars   == <<lock, pc, req, work>>
editVars   == <<outbox, nextId, awaiting>>
mirrorVars == <<seen, held>>
pullVars   == <<cursor, pull, missed>>
vars == <<storeVars, pushVars, editVars, mirrorVars, pullVars, faults, clears>>

-----------------------------------------------------------------------------
NoBase == -1                                 \* baseVersion: null
NoRow  == [version |-> 0, deleted |-> FALSE] \* the query found nothing

Row      == [version : Nat, deleted : BOOLEAN]
Mutation == [id : Nat, key : Key, op : Op \cup {"delete"}, base : Nat \cup {NoBase}]
Write    == [version : Nat, key : Key, client : Client \cup {Admin}, id : Nat]
Versions == [Key -> Nat]                     \* per key, 0 for none
Work     == [version : Nat, last : Nat, sealed : BOOLEAN, todo : SUBSET Mutation,
             rows : [Key -> Row], writes : SUBSET Write,
             accepted : SUBSET Nat, details : Versions]
Pull     == [stage : {"idle", "counting", "replied"},
             asOf : Nat, cursor : Nat, patch : Versions]

Ids(muts)      == {m.id : m \in muts}
Larger(a, b)   == IF a >= b THEN a ELSE b
None           == [k \in Key |-> 0]
Applied(c, id) == \E w \in log : w.client = c /\ w.id = id

NoWork == [version |-> 0, last |-> 0, sealed |-> FALSE, todo |-> {},
           rows |-> [k \in Key |-> NoRow], writes |-> {},
           accepted |-> {}, details |-> None]
NoPull == [stage |-> "idle", asOf |-> 0, cursor |-> 0, patch |-> None]

Init ==
  /\ row = [k \in Key |-> NoRow] /\ current = 0 /\ lastId = [c \in Client |-> 0]
  /\ log = {} /\ lock = Free /\ pc = [s \in Slot |-> "idle"]
  /\ req = [s \in Slot |-> {}] /\ work = [s \in Slot |-> NoWork]
  /\ outbox = [c \in Client |-> {}] /\ nextId = [c \in Client |-> 0]
  /\ awaiting = [c \in Client |-> Free]
  /\ seen = [c \in Client |-> [k \in Key |-> 0]] /\ held = seen
  /\ cursor = [c \in Client |-> [r \in Resource |-> 0]]
  /\ pull = [c \in Client |-> [r \in Resource |-> NoPull]]
  /\ missed = [c \in Client |-> {}] /\ faults = 0 /\ clears = 0

-----------------------------------------------------------------------------
(* The transactions *)

\* The handler is finished: its request and its local variables are gone.
Vacate(s) ==
  /\ pc' = [pc EXCEPT ![s] = "idle"]
  /\ req' = [req EXCEPT ![s] = {}]
  /\ work' = [work EXCEPT ![s] = NoWork]

\* Fault variant: the select without FOR UPDATE.
NoLock == TRUE

LockFree == lock = Free

\* What a statement of the transaction in slot s reads: its own uncommitted
\* row when it wrote one, else the committed row.
View(s, k) == IF work[s].rows[k].version # 0 THEN work[s].rows[k] ELSE row[k]

Opened(last, batch) ==
  [NoWork EXCEPT !.version = current, !.last = last, !.todo = batch]

\* ensureExists and findCurrentForUpdate block until the lock is free; the
\* counter and the client's watermark are read under it.
Begin(s) ==
  /\ pc[s] = "sent" /\ LockFree
  /\ lock' = s
  /\ pc' = [pc EXCEPT ![s] = "open"]
  /\ work' = [work EXCEPT ![s] = Opened(lastId[Owner[s]], req[s])]
  /\ UNCHANGED <<storeVars, req, editVars, mirrorVars, pullVars, faults, clears>>

\* The mutation the loop is at: the batch is sorted by id.
Turn(s, m) ==
  /\ pc[s] = "open" /\ m \in work[s].todo
  /\ \A x \in work[s].todo : m.id <= x.id

Done(s, m) == work[s].todo \ {m}

\* Fault variant: the watermark itself is not covered.
BelowWatermark(s, m) == m.id < work[s].last

AlreadyApplied(s, m) == m.id <= work[s].last

Skipped(s, m) ==
  [work[s] EXCEPT !.todo = Done(s, m),
                  !.accepted = @ \cup {m.id},
                  !.details = [@ EXCEPT ![m.key] = View(s, m.key).version]]

\* At or below the watermark: report accepted with the row's current version.
Skip(s, m) ==
  /\ Turn(s, m) /\ AlreadyApplied(s, m)
  /\ work' = [work EXCEPT ![s] = Skipped(s, m)]
  /\ UNCHANGED <<storeVars, lock, pc, req, editVars, mirrorVars, pullVars, faults, clears>>

\* Fault variant: the version the client based its edit on counts as stale.
StaleOrSame(s, m) ==
  m.base # NoBase /\ View(s, m.key).version # 0 /\ View(s, m.key).version >= m.base

\* The optimistic concurrency check.
Stale(s, m) ==
  /\ m.base # NoBase /\ View(s, m.key).version # 0
  /\ View(s, m.key).version # m.base

\* Fault variant: a rejection does not seal the watermark.
Unsealed(s, m) == m.id

\* The watermark after accepting m: it stops at the first rejected id.
Advanced(s, m) == IF work[s].sealed THEN work[s].last ELSE m.id

\* Fault variant: versions counted from the committed counter.
VersionFromStore(s) == current + 1

NewVersion(s) == work[s].version + 1

\* Insert or update: the row and the response carry the new version v.
Written(s, m, v) ==
  [work[s] EXCEPT
     !.todo = Done(s, m), !.version = v, !.last = Advanced(s, m),
     !.rows = [@ EXCEPT ![m.key] = [version |-> v, deleted |-> m.op = "delete"]],
     !.writes = @ \cup {[version |-> v, key |-> m.key, client |-> Owner[s], id |-> m.id]},
     !.accepted = @ \cup {m.id},
     !.details = [@ EXCEPT ![m.key] = v]]

Accept(s, m) ==
  /\ Turn(s, m) /\ ~AlreadyApplied(s, m) /\ ~Stale(s, m)
  /\ work' = [work EXCEPT ![s] = Written(s, m, NewVersion(s))]
  /\ UNCHANGED <<storeVars, lock, pc, req, editVars, mirrorVars, pullVars, faults, clears>>

Reject(s, m) ==
  /\ Turn(s, m) /\ ~AlreadyApplied(s, m) /\ Stale(s, m)
  /\ work' = [work EXCEPT ![s] = [@ EXCEPT !.todo = Done(s, m), !.sealed = TRUE]]
  /\ UNCHANGED <<storeVars, lock, pc, req, editVars, mirrorVars, pullVars, faults, clears>>

Response(s) ==
  [NoWork EXCEPT !.accepted = work[s].accepted, !.details = work[s].details]

\* Fault variant: versions.update is forgotten.
CommitKeepsCounter(s) ==
  /\ pc[s] = "open" /\ work[s].todo = {}
  /\ row' = [k \in Key |-> View(s, k)]
  /\ lastId' = [c \in Client |-> IF c = Owner[s] THEN work[s].last ELSE lastId[c]]
  /\ log' = log \cup work[s].writes
  /\ lock' = Free /\ pc' = [pc EXCEPT ![s] = "done"]
  /\ UNCHANGED <<current, req, work, editVars, mirrorVars, pullVars, faults, clears>>

\* versions.update, clients.update (or touchLastSeen), COMMIT: the work becomes
\* visible at once and the lock is released; the response is on its way.
Commit(s) ==
  /\ pc[s] = "open" /\ work[s].todo = {}
  /\ row' = [k \in Key |-> View(s, k)]
  /\ current' = work[s].version
  /\ lastId' = [c \in Client |-> IF c = Owner[s] THEN work[s].last ELSE lastId[c]]
  /\ log' = log \cup work[s].writes
  /\ lock' = Free /\ pc' = [pc EXCEPT ![s] = "done"]
  /\ req' = [req EXCEPT ![s] = {}]
  /\ work' = [work EXCEPT ![s] = Response(s)]
  /\ UNCHANGED <<editVars, mirrorVars, pullVars, faults, clears>>

\* The request is lost before it runs, a statement fails, or the server dies
\* with the transaction open: nothing is written and no verdicts are returned.
Abort(s) ==
  /\ pc[s] \in {"sent", "open"} /\ faults < MaxFault
  /\ Vacate(s)
  /\ lock' = IF lock = s THEN Free ELSE lock
  /\ awaiting' = [c \in Client |-> IF awaiting[c] = s THEN Free ELSE awaiting[c]]
  /\ faults' = faults + 1
  /\ UNCHANGED <<storeVars, outbox, nextId, mirrorVars, pullVars, clears>>

\* clearUserSyncResource runs the same loop under the same lock over a batch it
\* builds itself: an unconditional delete of every live row of r, in version order.
LiveRows(r) == {k \in Key : ResourceOf[k] = r /\ row[k].version # 0 /\ ~row[k].deleted}

WipeBatch(r) ==
  {[id |-> row[k].version, key |-> k, op |-> "delete", base |-> NoBase] : k \in LiveRows(r)}

BeginWipe(s, r) ==
  /\ Owner[s] = Admin /\ pc[s] = "idle" /\ LockFree /\ clears < MaxClear
  /\ lock' = s
  /\ pc' = [pc EXCEPT ![s] = "open"]
  /\ work' = [work EXCEPT ![s] = Opened(0, WipeBatch(r))]
  /\ clears' = clears + 1
  /\ UNCHANGED <<storeVars, req, editVars, mirrorVars, pullVars, faults>>

-----------------------------------------------------------------------------
(* The clients: editing and pushing *)

BaseOf(c, k) == IF seen[c][k] = 0 THEN NoBase ELSE seen[c][k]

Edit(c, k, op) ==
  /\ nextId[c] < MaxId[c]
  /\ nextId' = [nextId EXCEPT ![c] = @ + 1]
  /\ outbox' = [outbox EXCEPT ![c] = @ \cup
       {[id |-> nextId[c] + 1, key |-> k, op |-> op, base |-> BaseOf(c, k)]}]
  /\ UNCHANGED <<storeVars, pushVars, awaiting, mirrorVars, pullVars, faults, clears>>

\* The batch a client pushes: its whole outbox.
Batch(c) == outbox[c]

Send(c, s) ==
  /\ Owner[s] = c /\ pc[s] = "idle" /\ awaiting[c] = Free /\ outbox[c] # {}
  /\ req' = [req EXCEPT ![s] = Batch(c)]
  /\ pc' = [pc EXCEPT ![s] = "sent"]
  /\ awaiting' = [awaiting EXCEPT ![c] = s]
  /\ UNCHANGED <<storeVars, lock, work, outbox, nextId, mirrorVars, pullVars, faults, clears>>

\* The client gives up waiting; the request may still run, or have run already.
Timeout(c) ==
  /\ awaiting[c] # Free /\ faults < MaxFault
  /\ awaiting' = [awaiting EXCEPT ![c] = Free]
  /\ faults' = faults + 1
  /\ UNCHANGED <<storeVars, pushVars, outbox, nextId, mirrorVars, pullVars, clears>>

\* A response nobody awaits any more.
Discard(s) ==
  /\ pc[s] = "done" /\ \A c \in Client : awaiting[c] # s
  /\ Vacate(s)
  /\ UNCHANGED <<storeVars, lock, editVars, mirrorVars, pullVars, faults, clears>>

\* The versions a client knows once those delivered are added.
Merge(known, delivered) == [k \in Key |-> Larger(known[k], delivered[k])]

\* Of the acknowledged versions, those that are the client's own content.
OwnOf(c, details) ==
  [k \in Key |-> IF \E w \in log : w.version = details[k] /\ w.client = c
                 THEN details[k] ELSE 0]

ReceiveAck(c) ==
  /\ awaiting[c] # Free /\ pc[awaiting[c]] = "done"
  /\ LET s == awaiting[c] IN
       /\ outbox' = [outbox EXCEPT ![c] = {m \in @ : m.id \notin work[s].accepted}]
       /\ seen' = [seen EXCEPT ![c] = Merge(@, work[s].details)]
       /\ held' = [held EXCEPT ![c] = Merge(@, OwnOf(c, work[s].details))]
       /\ Vacate(s)
  /\ awaiting' = [awaiting EXCEPT ![c] = Free]
  /\ UNCHANGED <<storeVars, lock, nextId, pullVars, faults, clears>>

-----------------------------------------------------------------------------
(* Pulling *)

\* Fault variant: tombstones are left out.
LiveRowsAfter(r, v) == {k \in LiveRows(r) : row[k].version > v}

RowsAfter(r, v) == {k \in Key : ResourceOf[k] = r /\ row[k].version > v}

Patch(ks) == [k \in Key |-> IF k \in ks THEN row[k].version ELSE 0]

\* listByResourceAfterVersion; a non-empty answer fixes the new cursor at its
\* last row, an empty one leaves it to a second statement.
PullRows(c, r) ==
  /\ pull[c][r].stage = "idle"
  /\ LET ks == RowsAfter(r, cursor[c][r]) IN
       IF ks # {}
       THEN \E k \in ks :
              /\ \A j \in ks : row[j].version <= row[k].version
              /\ pull' = [pull EXCEPT ![c][r] = [stage |-> "replied", asOf |-> current,
                                               cursor |-> row[k].version, patch |-> Patch(ks)]]
       ELSE pull' = [pull EXCEPT ![c][r] = [stage |-> "counting", asOf |-> current,
                                            cursor |-> 0, patch |-> None]]
  /\ UNCHANGED <<storeVars, pushVars, editVars, mirrorVars, cursor, missed, faults, clears>>

\* findCurrent, some time later.
PullVersion(c, r) ==
  /\ pull[c][r].stage = "counting"
  /\ pull' = [pull EXCEPT ![c][r].stage = "replied", ![c][r].cursor = current]
  /\ UNCHANGED <<storeVars, pushVars, editVars, mirrorVars, cursor, missed, faults, clears>>

\* What was written to r between the two reads and is in neither of them.
SteppedOver(p, r) ==
  {w.key : w \in {x \in log : /\ p.patch = None /\ ResourceOf[x.key] = r
                              /\ p.asOf < x.version /\ x.version <= p.cursor}}

\* A pending mutation on r, put on top of what the client now knows.
Rebased(m, r, known) ==
  [m EXCEPT !.base = IF ResourceOf[m.key] = r /\ known[m.key] # 0 THEN known[m.key] ELSE @]

\* The client stores the rows and the cursor and rebases what it has pending.
ReceivePull(c, r) ==
  /\ pull[c][r].stage = "replied"
  /\ LET p == pull[c][r] IN
       /\ seen' = [seen EXCEPT ![c] = Merge(@, p.patch)]
       /\ held' = [held EXCEPT ![c] = Merge(@, p.patch)]
       /\ cursor' = [cursor EXCEPT ![c][r] = p.cursor]
       /\ missed' = [missed EXCEPT ![c] =
            {k \in @ : p.patch[k] = 0} \cup SteppedOver(p, r)]
       /\ pull' = [pull EXCEPT ![c][r] = NoPull]
  /\ outbox' = [outbox EXCEPT ![c] = {Rebased(m, r, seen'[c]) : m \in @}]
  /\ UNCHANGED <<storeVars, pushVars, nextId, awaiting, faults, clears>>

LosePull(c, r) ==
  /\ pull[c][r].stage # "idle" /\ faults < MaxFault
  /\ pull' = [pull EXCEPT ![c][r] = NoPull]
  /\ faults' = faults + 1
  /\ UNCHANGED <<storeVars, pushVars, editVars, mirrorVars, cursor, missed, clears>>

-----------------------------------------------------------------------------
Apply(s) == \E m \in work[s].todo : Skip(s, m) \/ Accept(s, m) \/ Reject(s, m)

Next ==
  \/ \E s \in Slot : Begin(s) \/ Commit(s) \/ Abort(s) \/ Discard(s)
  \/ \E s \in Slot : Apply(s)
  \/ \E s \in Slot, r \in Resource : BeginWipe(s, r)
  \/ \E c \in Client, k \in Key, op \in Op : Edit(c, k, op)
  \/ \E c \in Client, s \in Slot : Send(c, s)
  \/ \E c \in Client : Timeout(c) \/ ReceiveAck(c)
  \/ \E c \in Client, r \in Resource :
        PullRows(c, r) \/ PullVersion(c, r) \/ ReceivePull(c, r) \/ LosePull(c, r)

Spec == Init /\ [][Next]_vars

\* PostgreSQL grants a row lock to its waiters in turn, so a waiting push is
\* served (SF); handlers run to their end or to an error; clients go on
\* sending what is pending and polling every resource.  Nobody has to edit,
\* wipe, time out or fail.
FairSpec ==
  /\ Spec
  /\ \A s \in Slot : SF_vars(Begin(s)) /\ WF_vars(Apply(s)) /\ WF_vars(Commit(s))
                   /\ WF_vars(Discard(s))
  /\ \A c \in Client : SF_vars(\E s \in Slot : Send(c, s)) /\ WF_vars(ReceiveAck(c))
  /\ \A c \in Client, r \in Resource :
       /\ WF_vars(PullRows(c, r)) /\ WF_vars(PullVersion(c, r)) /\ WF_vars(ReceivePull(c, r))

-----------------------------------------------------------------------------
(* Properties *)

LockHeld    == \A s \in Slot : pc[s] = "open" <=> lock = s
ClientsSend == \A s \in Slot : pc[s] = "sent" => Owner[s] \in Client

\* Every variable has its type, and the transaction that is open is the one
\* that holds the user's version row locked (sync.service.ts:54-55).
TypeOK ==
  /\ row \in [Key -> Row] /\ current \in Nat /\ lastId \in [Client -> Nat]
  /\ log \in SUBSET Write
  /\ lock \in Slot \cup {Free} /\ pc \in [Slot -> {"idle", "sent", "open", "done"}]
  /\ req \in [Slot -> SUBSET Mutation] /\ work \in [Slot -> Work]
  /\ outbox \in [Client -> SUBSET Mutation] /\ nextId \in [Client -> Nat]
  /\ awaiting \in [Client -> Slot \cup {Free}]
  /\ seen \in [Client -> [Key -> Nat]] /\ held \in [Client -> [Key -> Nat]]
  /\ cursor \in [Client -> [Resource -> Nat]] /\ pull \in [Client -> [Resource -> Pull]]
  /\ missed \in [Client -> SUBSET Key] /\ faults \in Nat /\ clears \in Nat
  /\ LockHeld /\ ClientsSend

\* No version is handed out twice or lost: each committed write has its own
\* version up to the counter, and each row is its newest write.  Pull's cursor
\* (sync.service.ts:34-36) means nothing without it.
RowIsNewestWrite ==
  /\ \A w \in log : 1 <= w.version /\ w.version <= current
                  /\ w.version <= row[w.key].version
  /\ \A w, x \in log : w.version = x.version => w = x
  /\ \A k \in Key : row[k].version # 0 => \E w \in log : w.key = k /\ w.version = row[k].version

\* A mutation that left its client's outbox was applied: "accepted" is never
\* reported for an edit that was dropped, whatever was rejected, repeated or
\* overtaken in between (sync.service.ts:84-91).
AckedMeansApplied ==
  \A c \in Client : \A id \in 1..nextId[c] : id \in Ids(outbox[c]) \/ Applied(c, id)

\* The watermark only covers mutations that were applied: it never steps over a
\* rejected id (sync.service.ts:44-48, entities/sync.ts:56).
WatermarkIsApplied ==
  \A c \in Client : \A id \in 1..lastId[c] : Applied(c, id)

\* A mutation at or below the watermark is never applied again, however often
\* and however late its batch is repeated (sync.service.ts:95-98).
NoReapplyBelowWatermark ==
  [][\A w \in log' \ log : w.client \in Client => w.id > lastId[w.client]]_log

\* A client's cursor has no holes but those an empty pull made: every row at or
\* below it was delivered in its present version (sync.service.ts:34-36).
CursorCompleteButMissed ==
  \A c \in Client, k \in Key :
    row[k].version <= cursor[c][ResourceOf[k]] => held[c][k] = row[k].version \/ k \in missed[c]

\* The same without the exception, for a client that has nothing of its own in
\* flight: the promise of the cursor (sync.service.ts:34-36) and of the
\* tombstones (entities/sync.ts:41).
CursorComplete ==
  \A c \in Client, k \in Key :
    outbox[c] = {} /\ row[k].version <= cursor[c][ResourceOf[k]] => held[c][k] = row[k].version

\* The store seen by readers is the abstract one: batches become visible at
\* once, with fresh versions, and the counter is the newest of them.
Store == INSTANCE SyncStore WITH version <- [k \in Key |-> row[k].version]
ImplementsStore == Store!Spec

\* Unless an empty pull stepped over a write, every edit is eventually applied
\* and every client ends up with every row.
Converged(c) == outbox[c] = {} /\ \A k \in Key : held[c][k] = row[k].version
Convergence ==
  [](\A c \in Client : missed[c] = {}) => <>[](\A c \in Client : Converged(c))

-----------------------------------------------------------------------------
(* The inductive strengthening of AckedMeansApplied *)

\* Applied by the committed log or by the transaction open in s.
Known(s, id) ==
  \/ Applied(Owner[s], id)
  \/ \E w \in work[s].writes : w.client = Owner[s] /\ w.id = id

IdsIssued == \A c \in Client : \A m \in outbox[c] : m.id \in 1..nextId[c]
AwaitsOwn == \A c \in Client : awaiting[c] # Free => Owner[awaiting[c]] = c

\* A batch holds every unapplied mutation up to its last.
BatchWhole(s) ==
  \A m \in req[s] :
    /\ m.id \in 1..nextId[Owner[s]]
    /\ \A x \in 1..m.id : x \in Ids(req[s]) \/ Applied(Owner[s], x)

\* The running watermark and the verdicts so far are sound, and an unsealed
\* transaction has applied all it went through.
OpenSound(s) ==
  pc[s] = "open" =>
    /\ work[s].todo \subseteq req[s]
    /\ \A id \in 1..work[s].last : Known(s, id)
    /\ \A id \in work[s].accepted : Known(s, id)
    /\ ~work[s].sealed => \A m \in req[s] \ work[s].todo : Known(s, m.id)

ResponseSound(s) ==
  pc[s] = "done" => \A id \in work[s].accepted : Applied(Owner[s], id)

AckInv ==
  /\ WatermarkIsApplied /\ AckedMeansApplied /\ IdsIssued /\ AwaitsOwn
  /\ \A s \in Slot : Owner[s] \in Client => BatchWhole(s) /\ OpenSound(s) /\ ResponseSound(s)

-----------------------------------------------------------------------------
(* The inductive strengthening of RowIsNewestWrite *)

\* What the open transaction wrote is newer than everything committed, has
\* versions of its own, and shows in the transaction's own rows.
OpenWrites(s) ==
  pc[s] = "open" =>
    /\ current <= work[s].version
    /\ \A w \in work[s].writes : /\ current < w.version /\ w.version <= work[s].version
                                /\ w.version <= work[s].rows[w.key].version
    /\ \A w, x \in work[s].writes : w.version = x.version => w = x
    /\ \A k \in Key : work[s].rows[k].version # 0 =>
         \E w \in work[s].writes : w.key = k /\ w.version = work[s].rows[k].version
    /\ work[s].version = current \/ \E k \in Key : work[s].rows[k].version = work[s].version

\* It carries its author's name and ids above the committed watermark.
OpenIds(s) ==
  pc[s] = "open" =>
    /\ \A w \in work[s].writes : w.client = Owner[s]
    /\ Owner[s] \in Client =>
         /\ lastId[Owner[s]] <= work[s].last
         /\ \A w \in work[s].writes : lastId[Owner[s]] < w.id

StoreInv == RowIsNewestWrite /\ \A s \in Slot : OpenWrites(s) /\ OpenIds(s)

-----------------------------------------------------------------------------
(* The inductive strengthening of CursorCompleteButMissed *)

\* A version reported for a key is that of a write of the key, and a response
\* on its way only reports committed ones.
DetailsWritten(s) ==
  /\ \A k \in Key : work[s].details[k] # 0 =>
       \E w \in log \cup work[s].writes : w.key = k /\ w.version = work[s].details[k]
  /\ pc[s] = "done" => work[s].writes = {}

\* What an answer on its way holds: of each row that has not changed since it
\* was read, the version, unless it is at or below the cursor it was read from.
\* The new cursor is at or below what was read, or the patch is empty.
PullSound(c, r) ==
  LET p == pull[c][r] IN
  p.stage # "idle" =>
    /\ p.asOf <= current /\ p.cursor <= current
    /\ p.patch = None \/ (p.stage = "replied" /\ p.cursor <= p.asOf)
    /\ \A k \in Key : p.patch[k] <= row[k].version /\ (p.patch[k] # 0 => ResourceOf[k] = r)
    /\ \A k \in Key : ResourceOf[k] = r /\ row[k].version <= p.asOf =>
         p.patch[k] = row[k].version \/ (p.patch[k] = 0 /\ row[k].version <= cursor[c][r])

CursorInv ==
  /\ CursorCompleteButMissed
  /\ \A s \in Slot : DetailsWritten(s)
  /\ \A c \in Client, k \in Key : held[c][k] <= row[k].version
  /\ \A c \in Client, r \in Resource : cursor[c][r] <= current /\ PullSound(c, r)
=============================================================================
