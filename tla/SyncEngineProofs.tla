--------------------------- MODULE SyncEngineProofs ---------------------------
(***************************************************************************)
(* Proofs about SyncEngine, for any clients, keys, resources, requests and *)
(* bounds.                                                                 *)
(***************************************************************************)
EXTENDS SyncEngine, TLAPS

\* The variables' types, without the relation between the lock and the handlers.
LEMMA InitType == Init => TypeOK
<1> SUFFICES ASSUME Init PROVE TypeOK
  OBVIOUS
<1>1. NoWork \in Work /\ NoPull \in Pull /\ NoRow \in Row
  BY DEF NoWork, NoPull, NoRow, Work, Pull, Row, Versions, None
<1>2. row \in [Key -> Row] /\ work \in [Slot -> Work] /\ pull \in [Client -> [Resource -> Pull]]
  BY <1>1 DEF Init
<1>3. /\ current \in Nat /\ lastId \in [Client -> Nat] /\ log \in SUBSET Write
      /\ lock \in Slot \cup {Free} /\ pc \in [Slot -> {"idle", "sent", "open", "done"}]
      /\ req \in [Slot -> SUBSET Mutation]
      /\ outbox \in [Client -> SUBSET Mutation] /\ nextId \in [Client -> Nat]
      /\ awaiting \in [Client -> Slot \cup {Free}]
      /\ seen \in [Client -> [Key -> Nat]] /\ held \in [Client -> [Key -> Nat]]
      /\ cursor \in [Client -> [Resource -> Nat]]
      /\ missed \in [Client -> SUBSET Key] /\ faults \in Nat /\ clears \in Nat
  BY DEF Init
<1>4. LockHeld
  BY FreeAssumption DEF Init, LockHeld, ClientsSend
<1>4b. ClientsSend
  BY FreeAssumption DEF Init, LockHeld, ClientsSend
<1> QED
  BY <1>2, <1>3, <1>4, <1>4b DEF TypeOK

\* What a handler reads of a row is a row.
LEMMA ViewType ==
  ASSUME TypeOK, NEW s \in Slot, NEW k \in Key
  PROVE  View(s, k) \in Row
BY DEF TypeOK, View, Work

LEMMA BeginType ==
  ASSUME TypeOK, NEW s \in Slot, Begin(s)
  PROVE  TypeOK'
<1>1. Opened(lastId[Owner[s]], req[s]) \in Work
  BY DEF Begin, ClientsSend, Opened, TypeOK, NoWork, Work, NoRow, Row, Versions, None
<1>2. work' \in [Slot -> Work]
  BY <1>1 DEF Begin, TypeOK
<1>3. lock' \in Slot \cup {Free} /\ pc' \in [Slot -> {"idle", "sent", "open", "done"}]
  BY DEF Begin, TypeOK
<1>4. LockHeld'
  BY FreeAssumption DEF Begin, TypeOK, LockFree, LockHeld, ClientsSend
<1>4b. ClientsSend'
  BY FreeAssumption DEF Begin, TypeOK, LockFree, LockHeld, ClientsSend
<1> QED
  BY <1>2, <1>3, <1>4, <1>4b DEF Begin, TypeOK, storeVars, editVars, mirrorVars, pullVars

LEMMA SkipType ==
  ASSUME TypeOK, NEW s \in Slot, NEW m, Skip(s, m)
  PROVE  TypeOK'
<1>1. m \in Mutation /\ work[s] \in Work
  BY DEF Skip, Turn, TypeOK, Work
<1>2. View(s, m.key).version \in Nat
  BY <1>1, ViewType DEF Mutation, Row
<1>3. Skipped(s, m) \in Work
  BY <1>1, <1>2 DEF Skipped, Done, Work, Versions, Mutation
<1>4. work' \in [Slot -> Work]
  BY <1>3 DEF Skip, TypeOK
<1> QED
  BY <1>4 DEF Skip, TypeOK, LockHeld, ClientsSend, storeVars, editVars, mirrorVars, pullVars

LEMMA AcceptType ==
  ASSUME TypeOK, NEW s \in Slot, NEW m, Accept(s, m)
  PROVE  TypeOK'
<1>1. m \in Mutation /\ work[s] \in Work
  BY DEF Accept, Turn, TypeOK, Work
<1>2. NewVersion(s) \in Nat /\ Advanced(s, m) \in Nat
  BY <1>1 DEF NewVersion, Advanced, Work, Mutation
<1>3. [version |-> NewVersion(s), deleted |-> m.op = "delete"] \in Row
  BY <1>2 DEF Row
<1>4. [version |-> NewVersion(s), key |-> m.key, client |-> Owner[s], id |-> m.id] \in Write
  BY <1>1, <1>2, OwnerAssumption DEF Write, Mutation
<1>5. Written(s, m, NewVersion(s)) \in Work
  BY <1>1, <1>2, <1>3, <1>4 DEF Written, Done, Work, Versions, Mutation
<1>6. work' \in [Slot -> Work]
  BY <1>5 DEF Accept, TypeOK
<1> QED
  BY <1>6 DEF Accept, TypeOK, LockHeld, ClientsSend, storeVars, editVars, mirrorVars, pullVars

LEMMA RejectType ==
  ASSUME TypeOK, NEW s \in Slot, NEW m, Reject(s, m)
  PROVE  TypeOK'
<1> DEFINE w == work[s]
<1>0. w \in Work
  BY DEF TypeOK
<1>1. [w EXCEPT !.todo = w.todo \ {m}, !.sealed = TRUE] \in Work
  BY <1>0 DEF Work
<1>2. work' \in [Slot -> Work]
  BY <1>1 DEF Reject, Done, TypeOK
<1> QED
  BY <1>2 DEF Reject, TypeOK, storeVars, LockHeld, ClientsSend, editVars, mirrorVars, pullVars

\* What a vacated slot leaves behind.
LEMMA VacateType ==
  ASSUME TypeOK, NEW s \in Slot, Vacate(s)
  PROVE  /\ pc' \in [Slot -> {"idle", "sent", "open", "done"}]
         /\ req' \in [Slot -> SUBSET Mutation]
         /\ work' \in [Slot -> Work]
         /\ \A t \in Slot : pc'[t] = IF t = s THEN "idle" ELSE pc[t]
<1>1. NoWork \in Work
  BY DEF NoWork, NoRow, Work, Row, Versions, None
<1> QED
  BY <1>1 DEF Vacate, TypeOK

LEMMA CommitType ==
  ASSUME TypeOK, NEW s \in Slot, Commit(s)
  PROVE  TypeOK'
<1>1. work[s] \in Work
  BY DEF TypeOK
<1>2. Response(s) \in Work
  BY <1>1 DEF Response, NoWork, NoRow, Work, Row, Versions, None
<1>3. row' \in [Key -> Row]
  BY ViewType DEF Commit
<1>4. lastId' \in [Client -> Nat] /\ current' \in Nat /\ log' \in SUBSET Write
  BY <1>1 DEF Commit, TypeOK, Work
<1>5. work' \in [Slot -> Work] /\ req' \in [Slot -> SUBSET Mutation]
  BY <1>2 DEF Commit, TypeOK
<1>6. lock' \in Slot \cup {Free} /\ pc' \in [Slot -> {"idle", "sent", "open", "done"}]
  BY DEF Commit, TypeOK
<1>7. LockHeld'
  BY FreeAssumption DEF Commit, TypeOK, LockHeld, ClientsSend
<1>7b. ClientsSend'
  BY FreeAssumption DEF Commit, TypeOK, LockHeld, ClientsSend
<1> QED
  BY <1>3, <1>4, <1>5, <1>6, <1>7, <1>7b DEF Commit, TypeOK, editVars, mirrorVars, pullVars

LEMMA AbortType ==
  ASSUME TypeOK, NEW s \in Slot, Abort(s)
  PROVE  TypeOK'
<1>1. Vacate(s)
  BY DEF Abort
<1>2. lock' \in Slot \cup {Free} /\ awaiting' \in [Client -> Slot \cup {Free}] /\ faults' \in Nat
  BY DEF Abort, TypeOK
<1>3. LockHeld'
  BY <1>1, VacateType, FreeAssumption DEF Abort, TypeOK, LockHeld, ClientsSend
<1>3b. ClientsSend'
  BY <1>1, VacateType, FreeAssumption DEF Abort, TypeOK, LockHeld, ClientsSend
<1> QED
  BY <1>1, <1>2, <1>3, <1>3b, VacateType DEF Abort, TypeOK, storeVars, mirrorVars, pullVars

LEMMA WipeType ==
  ASSUME TypeOK, NEW s \in Slot, NEW r \in Resource, BeginWipe(s, r)
  PROVE  TypeOK'
<1>1. WipeBatch(r) \in SUBSET Mutation
  BY DEF WipeBatch, LiveRows, Mutation, TypeOK, Row
<1>2. Opened(0, WipeBatch(r)) \in Work
  BY <1>1 DEF Opened, TypeOK, NoWork, NoRow, Work, Row, Versions, None
<1>3. work' \in [Slot -> Work]
  BY <1>2 DEF BeginWipe, TypeOK
<1>4. lock' \in Slot \cup {Free} /\ pc' \in [Slot -> {"idle", "sent", "open", "done"}]
      /\ clears' \in Nat
  BY DEF BeginWipe, TypeOK
<1>5. LockHeld'
  BY FreeAssumption DEF BeginWipe, TypeOK, LockFree, LockHeld, ClientsSend
<1>5b. ClientsSend'
  BY FreeAssumption DEF BeginWipe, TypeOK, LockFree, LockHeld, ClientsSend
<1> QED
  BY <1>3, <1>4, <1>5, <1>5b DEF BeginWipe, TypeOK, storeVars, editVars, mirrorVars, pullVars

LEMMA EditType ==
  ASSUME TypeOK, NEW c \in Client, NEW k \in Key, NEW op \in Op, Edit(c, k, op)
  PROVE  TypeOK'
<1>1. BaseOf(c, k) \in Nat \cup {NoBase}
  BY DEF BaseOf, TypeOK
<1>2. [id |-> nextId[c] + 1, key |-> k, op |-> op, base |-> BaseOf(c, k)] \in Mutation
  BY <1>1 DEF Mutation, TypeOK
<1>3. nextId' \in [Client -> Nat] /\ outbox' \in [Client -> SUBSET Mutation]
  BY <1>2 DEF Edit, TypeOK
<1> QED
  BY <1>3 DEF Edit, TypeOK, LockHeld, ClientsSend, storeVars, pushVars, mirrorVars, pullVars

LEMMA SendType ==
  ASSUME TypeOK, NEW c \in Client, NEW s \in Slot, Send(c, s)
  PROVE  TypeOK'
<1>1. req' \in [Slot -> SUBSET Mutation] /\ awaiting' \in [Client -> Slot \cup {Free}]
      /\ pc' \in [Slot -> {"idle", "sent", "open", "done"}]
  BY DEF Send, Batch, TypeOK
<1>2. LockHeld'
  BY DEF Send, TypeOK, LockHeld, ClientsSend
<1>2b. ClientsSend'
  BY DEF Send, TypeOK, LockHeld, ClientsSend
<1> QED
  BY <1>1, <1>2, <1>2b DEF Send, TypeOK, storeVars, mirrorVars, pullVars

LEMMA TimeoutType ==
  ASSUME TypeOK, NEW c \in Client, Timeout(c)
  PROVE  TypeOK'
BY DEF Timeout, TypeOK, LockHeld, ClientsSend, storeVars, pushVars, mirrorVars, pullVars

LEMMA DiscardType ==
  ASSUME TypeOK, NEW s \in Slot, Discard(s)
  PROVE  TypeOK'
<1>1. Vacate(s)
  BY DEF Discard
<1>2. LockHeld'
  BY <1>1, VacateType DEF Discard, TypeOK, LockHeld, ClientsSend
<1>2b. ClientsSend'
  BY <1>1, VacateType DEF Discard, TypeOK, LockHeld, ClientsSend
<1> QED
  BY <1>1, <1>2, <1>2b, VacateType DEF Discard, TypeOK, storeVars, editVars, mirrorVars, pullVars

LEMMA MergeType ==
  ASSUME NEW known \in Versions, NEW delivered \in Versions
  PROVE  Merge(known, delivered) \in Versions
BY DEF Merge, Versions, Larger

LEMMA AckType ==
  ASSUME TypeOK, NEW c \in Client, ReceiveAck(c)
  PROVE  TypeOK'
<1> DEFINE s == awaiting[c]
<1>1. s \in Slot /\ pc[s] = "done" /\ Vacate(s)
  BY DEF ReceiveAck, TypeOK
<1>2. work[s].details \in Versions /\ seen[c] \in Versions /\ held[c] \in Versions
  BY <1>1 DEF TypeOK, Work, Versions
<1>3. OwnOf(c, work[s].details) \in Versions
  BY <1>2 DEF OwnOf, Versions
<1>4. seen' \in [Client -> [Key -> Nat]] /\ held' \in [Client -> [Key -> Nat]]
  BY <1>2, <1>3, MergeType DEF ReceiveAck, TypeOK, Versions
<1>5. outbox' \in [Client -> SUBSET Mutation] /\ awaiting' \in [Client -> Slot \cup {Free}]
  BY DEF ReceiveAck, TypeOK
<1>6. LockHeld'
  BY <1>1, VacateType DEF ReceiveAck, TypeOK, LockHeld, ClientsSend
<1>6b. ClientsSend'
  BY <1>1, VacateType DEF ReceiveAck, TypeOK, LockHeld, ClientsSend
<1> QED
  BY <1>1, <1>4, <1>5, <1>6, <1>6b, VacateType DEF ReceiveAck, TypeOK, storeVars, pullVars

LEMMA PullRowsType ==
  ASSUME TypeOK, NEW c \in Client, NEW r \in Resource, PullRows(c, r)
  PROVE  TypeOK'
<1> DEFINE ks == RowsAfter(r, cursor[c][r])
<1>1. \A k \in Key : row[k].version \in Nat
  BY DEF TypeOK, Row
<1>2. Patch(ks) \in Versions /\ None \in Versions /\ ks \subseteq Key
  BY <1>1 DEF Patch, Versions, None, RowsAfter
<1>3. \A k \in ks : [stage |-> "replied", asOf |-> current,
                     cursor |-> row[k].version, patch |-> Patch(ks)] \in Pull
  BY <1>1, <1>2 DEF Pull, TypeOK
<1>4. [stage |-> "counting", asOf |-> current, cursor |-> 0, patch |-> None] \in Pull
  BY <1>2 DEF Pull, TypeOK
<1>5. \E p \in Pull : pull' = [pull EXCEPT ![c][r] = p]
  BY <1>3, <1>4 DEF PullRows
<1>6. pull' \in [Client -> [Resource -> Pull]]
  BY <1>5 DEF TypeOK
<1> QED
  BY <1>6 DEF PullRows, TypeOK, LockHeld, ClientsSend, storeVars, pushVars, editVars, mirrorVars

LEMMA PullVersionType ==
  ASSUME TypeOK, NEW c \in Client, NEW r \in Resource, PullVersion(c, r)
  PROVE  TypeOK'
<1> DEFINE p == pull[c][r]
           q == [p EXCEPT !.stage = "replied", !.cursor = current]
<1>1. p \in Pull /\ current \in Nat
  BY DEF TypeOK
<1>2. q \in Pull
  BY <1>1 DEF Pull
<1>3. pull' = [pull EXCEPT ![c][r] = q]
  BY DEF PullVersion, TypeOK
<1>4. pull' \in [Client -> [Resource -> Pull]]
  BY <1>2, <1>3 DEF TypeOK
<1> QED
  BY <1>4 DEF PullVersion, TypeOK, LockHeld, ClientsSend, storeVars, pushVars, editVars, mirrorVars

\* A rebased mutation keeps its id.
LEMMA RebasedType ==
  ASSUME NEW m \in Mutation, NEW r, NEW known \in Versions
  PROVE  Rebased(m, r, known) \in Mutation /\ Rebased(m, r, known).id = m.id
<1> DEFINE b == IF ResourceOf[m.key] = r /\ known[m.key] # 0 THEN known[m.key] ELSE m.base
<1>1. b \in Nat \cup {NoBase}
  BY DEF Mutation, Versions
<1>2. Rebased(m, r, known) = [m EXCEPT !.base = b]
  BY DEF Rebased
<1> QED
  BY <1>1, <1>2 DEF Mutation

LEMMA ReceivePullType ==
  ASSUME TypeOK, NEW c \in Client, NEW r \in Resource, ReceivePull(c, r)
  PROVE  TypeOK'
<1> DEFINE p == pull[c][r]
<1>1. p \in Pull /\ p.patch \in Versions /\ p.cursor \in Nat
  BY DEF TypeOK, Pull
<1>2. Merge(seen[c], p.patch) \in Versions /\ Merge(held[c], p.patch) \in Versions
  BY <1>1, MergeType DEF TypeOK, Versions
<1>3. seen' \in [Client -> [Key -> Nat]] /\ held' \in [Client -> [Key -> Nat]]
  BY <1>2 DEF ReceivePull, TypeOK, Versions
<1>4. cursor' \in [Client -> [Resource -> Nat]]
  BY <1>1 DEF ReceivePull, TypeOK
<1>5. SteppedOver(p, r) \subseteq Key
  BY DEF SteppedOver, TypeOK, Write
<1>6. missed' \in [Client -> SUBSET Key]
  BY <1>5 DEF ReceivePull, TypeOK
<1>7. NoPull \in Pull
  BY DEF NoPull, Pull, Versions, None
<1>8. pull' \in [Client -> [Resource -> Pull]]
  BY <1>7 DEF ReceivePull, TypeOK
<1>9. outbox' \in [Client -> SUBSET Mutation]
  <2>1. outbox'[c] = {Rebased(m, r, seen'[c]) : m \in outbox[c]}
    BY DEF ReceivePull, TypeOK
  <2>2. \A m \in outbox[c] : Rebased(m, r, seen'[c]) \in Mutation
    BY <1>3, RebasedType DEF TypeOK, Versions
  <2> QED
    BY <2>1, <2>2 DEF ReceivePull, TypeOK
<1> QED
  BY <1>3, <1>4, <1>6, <1>8, <1>9
     DEF ReceivePull, TypeOK, LockHeld, ClientsSend, storeVars, pushVars

LEMMA LosePullType ==
  ASSUME TypeOK, NEW c \in Client, NEW r \in Resource, LosePull(c, r)
  PROVE  TypeOK'
<1>1. NoPull \in Pull
  BY DEF NoPull, Pull, Versions, None
<1>2. pull' \in [Client -> [Resource -> Pull]]
  BY <1>1 DEF LosePull, TypeOK
<1> QED
  BY <1>2 DEF LosePull, TypeOK, LockHeld, ClientsSend, storeVars, pushVars, editVars, mirrorVars

LEMMA TypeStep == TypeOK /\ [Next]_vars => TypeOK'
<1> SUFFICES ASSUME TypeOK, [Next]_vars PROVE TypeOK'
  OBVIOUS
<1>1. CASE \E s \in Slot : Begin(s) \/ Commit(s) \/ Abort(s) \/ Discard(s)
  BY <1>1, BeginType, CommitType, AbortType, DiscardType
<1>2. CASE \E s \in Slot : Apply(s)
  BY <1>2, SkipType, AcceptType, RejectType DEF Apply
<1>3. CASE \E s \in Slot, r \in Resource : BeginWipe(s, r)
  BY <1>3, WipeType
<1>4. CASE \E c \in Client, k \in Key, op \in Op : Edit(c, k, op)
  BY <1>4, EditType
<1>5. CASE \E c \in Client, s \in Slot : Send(c, s)
  BY <1>5, SendType
<1>6. CASE \E c \in Client : Timeout(c) \/ ReceiveAck(c)
  BY <1>6, TimeoutType, AckType
<1>7. CASE \E c \in Client, r \in Resource :
             PullRows(c, r) \/ PullVersion(c, r) \/ ReceivePull(c, r) \/ LosePull(c, r)
  BY <1>7, PullRowsType, PullVersionType, ReceivePullType, LosePullType
<1>8. CASE UNCHANGED vars
  BY <1>8 DEF vars, storeVars, pushVars, editVars, mirrorVars, pullVars,
              TypeOK, LockHeld, ClientsSend
<1> QED
  BY <1>1, <1>2, <1>3, <1>4, <1>5, <1>6, <1>7, <1>8 DEF Next

\* Every variable keeps its type, and the open transaction is the one holding
\* the user's version row.
THEOREM TypeCorrect == Spec => []TypeOK
BY InitType, TypeStep, PTL DEF Spec

-----------------------------------------------------------------------------
(* AckedMeansApplied *)

LEMMA AckInit == Init => AckInv
BY DEF Init, AckInv, WatermarkIsApplied, AckedMeansApplied, IdsIssued, AwaitsOwn,
       BatchWhole, OpenSound, ResponseSound

LEMMA AppliedGrows ==
  ASSUME log \subseteq log', NEW c, NEW id, Applied(c, id)
  PROVE  Applied(c, id)'
BY DEF Applied

LEMMA KnownGrows ==
  ASSUME log \subseteq log', NEW s \in Slot, work'[s] = work[s], NEW id, Known(s, id)
  PROVE  Known(s, id)'
BY DEF Applied, Known

\* A step that leaves slot t alone leaves what is known of t alone.
LEMMA SlotFrame ==
  ASSUME TypeOK, TypeOK', log \subseteq log', \A c \in Client : nextId[c] <= nextId'[c],
         NEW t \in Slot, Owner[t] \in Client,
         pc'[t] = pc[t], req'[t] = req[t], work'[t] = work[t],
         BatchWhole(t), OpenSound(t), ResponseSound(t)
  PROVE  BatchWhole(t)' /\ OpenSound(t)' /\ ResponseSound(t)'
<1>1. nextId[Owner[t]] \in Nat /\ nextId'[Owner[t]] \in Nat /\ nextId[Owner[t]] <= nextId'[Owner[t]]
  BY DEF TypeOK
<1>2. BatchWhole(t)'
  <2> SUFFICES ASSUME NEW m \in req[t], NEW x \in 1..m.id
               PROVE  /\ m.id \in 1..nextId'[Owner[t]]
                      /\ x \in Ids(req[t]) \/ Applied(Owner[t], x)'
    <3>1. \A m \in req[t] : m.id \in Nat
      BY DEF TypeOK, Mutation
    <3>2. \A m \in req[t] : m.id \in 1..nextId'[Owner[t]]
      BY <1>1, <3>1 DEF BatchWhole
    <3> QED
      BY <3>2 DEF BatchWhole
  <2>1. m.id \in 1..nextId[Owner[t]] /\ (x \in Ids(req[t]) \/ Applied(Owner[t], x))
    BY DEF BatchWhole
  <2> QED
    BY <1>1, <2>1, AppliedGrows
<1>3. OpenSound(t)'
  BY KnownGrows DEF OpenSound
<1>4. ResponseSound(t)'
  BY AppliedGrows DEF ResponseSound
<1> QED
  BY <1>2, <1>3, <1>4

\* A step that touches no batch, verdict, watermark or outbox.
LEMMA AckFrame ==
  ASSUME AckInv, UNCHANGED <<lastId, log, nextId, outbox, awaiting, pc, req, work>>
  PROVE  AckInv'
BY DEF AckInv, WatermarkIsApplied, AckedMeansApplied, IdsIssued, AwaitsOwn,
       BatchWhole, OpenSound, ResponseSound, Applied, Known

\* A step of a transaction that is not its commit.
LEMMA AckOpenFrame ==
  ASSUME TypeOK, TypeOK', AckInv, NEW s \in Slot,
         UNCHANGED <<lastId, log, nextId, outbox, awaiting, req>>,
         \A t \in Slot \ {s} : pc'[t] = pc[t] /\ work'[t] = work[t],
         Owner[s] \in Client => OpenSound(s)' /\ ResponseSound(s)'
  PROVE  AckInv'
<1>1. /\ WatermarkIsApplied' /\ AckedMeansApplied' /\ IdsIssued' /\ AwaitsOwn'
  BY DEF AckInv, WatermarkIsApplied, AckedMeansApplied, IdsIssued, AwaitsOwn, Applied
<1>2. \A t \in Slot : Owner[t] \in Client => BatchWhole(t)'
  BY DEF AckInv, BatchWhole, Applied
<1>3. \A t \in Slot \ {s} : Owner[t] \in Client => OpenSound(t)' /\ ResponseSound(t)'
  <2> TAKE t \in Slot \ {s}
  <2> HAVE Owner[t] \in Client
  <2>1. log \subseteq log' /\ \A c \in Client : nextId[c] <= nextId'[c]
    BY DEF TypeOK
  <2> QED
    BY <2>1, SlotFrame DEF AckInv
<1> QED
  BY <1>1, <1>2, <1>3 DEF AckInv

\* Any step of one slot: the parts that do not follow from the frame.
LEMMA AckStep ==
  ASSUME TypeOK, TypeOK', AckInv, NEW s \in Slot,
         log \subseteq log', \A c \in Client : nextId[c] <= nextId'[c],
         \A t \in Slot \ {s} : pc'[t] = pc[t] /\ req'[t] = req[t] /\ work'[t] = work[t],
         Owner[s] \in Client => BatchWhole(s)' /\ OpenSound(s)' /\ ResponseSound(s)',
         WatermarkIsApplied', AckedMeansApplied', IdsIssued', AwaitsOwn'
  PROVE  AckInv'
<1>1. \A t \in Slot \ {s} : Owner[t] \in Client =>
        BatchWhole(t)' /\ OpenSound(t)' /\ ResponseSound(t)'
  BY SlotFrame DEF AckInv
<1> QED
  BY <1>1 DEF AckInv

LEMMA AckBegin ==
  ASSUME TypeOK, TypeOK', AckInv, NEW s \in Slot, Begin(s)
  PROVE  AckInv'
<1>1. UNCHANGED <<lastId, log, nextId, outbox, awaiting, req>>
  BY DEF Begin, storeVars, editVars
<1>2. \A t \in Slot \ {s} : pc'[t] = pc[t] /\ work'[t] = work[t]
  BY DEF Begin, TypeOK
<1>3. /\ pc'[s] = "open" /\ work'[s].todo = req[s] /\ work'[s].last = lastId[Owner[s]]
      /\ work'[s].accepted = {}
  BY DEF Begin, TypeOK, Opened, NoWork
<1>4. ASSUME Owner[s] \in Client PROVE OpenSound(s)' /\ ResponseSound(s)'
  <2>1. \A id \in 1..lastId[Owner[s]] : Applied(Owner[s], id)'
    BY <1>1, <1>4 DEF AckInv, WatermarkIsApplied, Applied
  <2> QED
    BY <1>1, <1>3, <2>1 DEF OpenSound, ResponseSound, Known, Applied
<1> QED
  BY <1>1, <1>2, <1>4, AckOpenFrame

LEMMA AckSkip ==
  ASSUME TypeOK, TypeOK', AckInv, NEW s \in Slot, NEW m, Skip(s, m)
  PROVE  AckInv'
<1>1. UNCHANGED <<lastId, log, nextId, outbox, awaiting, req, pc>>
  BY DEF Skip, storeVars, editVars
<1>2. \A t \in Slot \ {s} : pc'[t] = pc[t] /\ work'[t] = work[t]
  BY <1>1 DEF Skip, TypeOK
<1>3. /\ pc[s] = "open" /\ m \in work[s].todo /\ m \in Mutation /\ work[s] \in Work
      /\ m.id <= work[s].last
  BY DEF Skip, Turn, AlreadyApplied, TypeOK, Work
<1>4. /\ work'[s].todo = work[s].todo \ {m} /\ work'[s].last = work[s].last
      /\ work'[s].accepted = work[s].accepted \cup {m.id}
      /\ work'[s].sealed = work[s].sealed /\ work'[s].writes = work[s].writes
  BY <1>3 DEF Skip, Skipped, Done, TypeOK, Work
<1>5. ASSUME Owner[s] \in Client PROVE OpenSound(s)' /\ ResponseSound(s)'
  <2>1. OpenSound(s) /\ BatchWhole(s)
    BY <1>5 DEF AckInv
  <2>2. \A id : Known(s, id)' <=> Known(s, id)
    BY <1>1, <1>4 DEF Known, Applied
  <2>3. m.id \in 1..work[s].last
    BY <1>3, <1>5, <2>1 DEF BatchWhole, OpenSound, Mutation, Work
  <2>4. Known(s, m.id)
    BY <1>3, <2>1, <2>3 DEF OpenSound
  <2>5. OpenSound(s)'
    BY <1>1, <1>3, <1>4, <2>1, <2>2, <2>4 DEF OpenSound
  <2> QED
    BY <1>1, <1>3, <2>5 DEF ResponseSound
<1> QED
  BY <1>1, <1>2, <1>5, AckOpenFrame

LEMMA AckReject ==
  ASSUME TypeOK, TypeOK', AckInv, NEW s \in Slot, NEW m, Reject(s, m)
  PROVE  AckInv'
<1>1. UNCHANGED <<lastId, log, nextId, outbox, awaiting, req, pc>>
  BY DEF Reject, storeVars, editVars
<1>2. \A t \in Slot \ {s} : pc'[t] = pc[t] /\ work'[t] = work[t]
  BY <1>1 DEF Reject, TypeOK
<1>3. pc[s] = "open" /\ work[s] \in Work
  BY DEF Reject, Turn, TypeOK
<1>4. /\ work'[s].todo = work[s].todo \ {m} /\ work'[s].last = work[s].last
      /\ work'[s].accepted = work[s].accepted
      /\ work'[s].sealed = TRUE /\ work'[s].writes = work[s].writes
  BY <1>3 DEF Reject, Done, TypeOK, Work
<1>5. ASSUME Owner[s] \in Client PROVE OpenSound(s)' /\ ResponseSound(s)'
  <2>1. OpenSound(s)
    BY <1>5 DEF AckInv
  <2>2. \A id : Known(s, id)' <=> Known(s, id)
    BY <1>1, <1>4 DEF Known, Applied
  <2> QED
    BY <1>1, <1>3, <1>4, <2>1, <2>2 DEF OpenSound, ResponseSound
<1> QED
  BY <1>1, <1>2, <1>5, AckOpenFrame

\* When the loop is unsealed, everything up to the accepted id is known.
LEMMA AckAccept ==
  ASSUME TypeOK, TypeOK', AckInv, NEW s \in Slot, NEW m, Accept(s, m)
  PROVE  AckInv'
<1>1. UNCHANGED <<lastId, log, nextId, outbox, awaiting, req, pc>>
  BY DEF Accept, storeVars, editVars
<1>2. \A t \in Slot \ {s} : pc'[t] = pc[t] /\ work'[t] = work[t]
  BY <1>1 DEF Accept, TypeOK
<1>3. /\ pc[s] = "open" /\ m \in work[s].todo /\ m \in Mutation /\ work[s] \in Work
      /\ \A x \in work[s].todo : m.id <= x.id
  BY DEF Accept, Turn, TypeOK, Work
<1> DEFINE w == [version |-> NewVersion(s), key |-> m.key, client |-> Owner[s], id |-> m.id]
<1>4. /\ work'[s].todo = work[s].todo \ {m}
      /\ work'[s].last = IF work[s].sealed THEN work[s].last ELSE m.id
      /\ work'[s].accepted = work[s].accepted \cup {m.id}
      /\ work'[s].sealed = work[s].sealed /\ work'[s].writes = work[s].writes \cup {w}
  BY <1>3 DEF Accept, Written, Advanced, Done, TypeOK, Work
<1>5. ASSUME Owner[s] \in Client PROVE OpenSound(s)' /\ ResponseSound(s)'
  <2>1. OpenSound(s) /\ BatchWhole(s)
    BY <1>5 DEF AckInv
  <2>2. \A id : Known(s, id) => Known(s, id)'
    BY <1>1, <1>4 DEF Known, Applied
  <2>3. Known(s, m.id)'
    <3>1. w \in work'[s].writes /\ w.client = Owner[s] /\ w.id = m.id
      BY <1>4
    <3> QED
      BY <3>1 DEF Known
  <2>4. m \in req[s] /\ m.id \in Nat
    BY <1>3, <2>1 DEF OpenSound, Mutation
  <2>5. ASSUME ~work[s].sealed, NEW x \in 1..m.id PROVE Known(s, x)'
    <3>1. CASE Applied(Owner[s], x)
      BY <3>1, <2>2 DEF Known
    <3>2. CASE x \in Ids(req[s]) /\ x # m.id
      <4>1. PICK y \in req[s] : y.id = x
        BY <3>2 DEF Ids
      <4>2. y \notin work[s].todo
        BY <4>1, <1>3, <2>4, <3>2 DEF Mutation
      <4> QED
        BY <4>1, <4>2, <1>3, <2>1, <2>2, <2>5 DEF OpenSound
    <3> QED
      BY <3>1, <3>2, <2>1, <2>3, <2>4 DEF BatchWhole
  <2>6. \A id \in 1..work'[s].last : Known(s, id)'
    BY <1>3, <1>4, <2>1, <2>2, <2>5 DEF OpenSound
  <2>7. OpenSound(s)'
    BY <1>1, <1>3, <1>4, <2>1, <2>2, <2>3, <2>6 DEF OpenSound
  <2> QED
    BY <1>1, <1>3, <2>7 DEF ResponseSound
<1> QED
  BY <1>1, <1>2, <1>5, AckOpenFrame

LEMMA AckCommit ==
  ASSUME TypeOK, TypeOK', AckInv, NEW s \in Slot, Commit(s)
  PROVE  AckInv'
<1>1. /\ UNCHANGED <<nextId, outbox, awaiting>> /\ log' = log \cup work[s].writes
      /\ pc[s] = "open" /\ work[s].todo = {} /\ work[s] \in Work
  BY DEF Commit, editVars, TypeOK
<1>2. /\ \A t \in Slot \ {s} : pc'[t] = pc[t] /\ req'[t] = req[t] /\ work'[t] = work[t]
      /\ pc'[s] = "done" /\ req'[s] = {} /\ work'[s].accepted = work[s].accepted
  BY DEF Commit, Response, NoWork, TypeOK
<1>3. \A c \in Client : \A id : Applied(c, id) => Applied(c, id)'
  BY <1>1 DEF Applied
<1>4. \A id : Known(s, id) => Applied(Owner[s], id)'
  BY <1>1 DEF Known, Applied
<1>5. ASSUME Owner[s] \in Client
      PROVE  BatchWhole(s)' /\ OpenSound(s)' /\ ResponseSound(s)'
  <2>1. OpenSound(s)
    BY <1>5 DEF AckInv
  <2> QED
    BY <1>1, <1>2, <1>4, <2>1 DEF BatchWhole, OpenSound, ResponseSound
<1>6. WatermarkIsApplied'
  <2> SUFFICES ASSUME NEW c \in Client, NEW id \in 1..lastId'[c] PROVE Applied(c, id)'
    BY DEF WatermarkIsApplied
  <2>1. CASE c = Owner[s]
    <3>1. OpenSound(s) /\ id \in 1..work[s].last
      BY <2>1 DEF AckInv, Commit
    <3> QED
      BY <1>1, <1>4, <2>1, <3>1 DEF OpenSound
  <2>2. CASE c # Owner[s]
    <3>1. id \in 1..lastId[c]
      BY <2>2 DEF Commit
    <3> QED
      BY <1>3, <3>1 DEF AckInv, WatermarkIsApplied
  <2> QED
    BY <2>1, <2>2
<1>7. AckedMeansApplied'
  BY <1>1, <1>3 DEF AckInv, AckedMeansApplied
<1>8. IdsIssued' /\ AwaitsOwn'
  BY <1>1 DEF AckInv, IdsIssued, AwaitsOwn
<1>9. log \subseteq log' /\ \A c \in Client : nextId[c] <= nextId'[c]
  BY <1>1 DEF TypeOK
<1> QED
  BY <1>2, <1>5, <1>6, <1>7, <1>8, <1>9, AckStep

\* A slot that is vacated without anything being written.
LEMMA AckVacate ==
  ASSUME TypeOK, TypeOK', AckInv, NEW s \in Slot, Vacate(s),
         UNCHANGED <<lastId, log, nextId>>,
         AckedMeansApplied', IdsIssued', AwaitsOwn'
  PROVE  AckInv'
<1>1. /\ \A t \in Slot \ {s} : pc'[t] = pc[t] /\ req'[t] = req[t] /\ work'[t] = work[t]
      /\ pc'[s] = "idle" /\ req'[s] = {}
  BY DEF Vacate, TypeOK
<1>2. BatchWhole(s)' /\ OpenSound(s)' /\ ResponseSound(s)'
  BY <1>1 DEF BatchWhole, OpenSound, ResponseSound
<1>3. WatermarkIsApplied'
  BY DEF AckInv, WatermarkIsApplied, Applied
<1>4. log \subseteq log' /\ \A c \in Client : nextId[c] <= nextId'[c]
  BY DEF TypeOK
<1> QED
  BY <1>1, <1>2, <1>3, <1>4, AckStep

LEMMA AckAbort ==
  ASSUME TypeOK, TypeOK', AckInv, NEW s \in Slot, Abort(s)
  PROVE  AckInv'
<1>1. Vacate(s) /\ UNCHANGED <<lastId, log, nextId, outbox>>
  BY DEF Abort, storeVars
<1>2. AckedMeansApplied' /\ IdsIssued'
  BY <1>1 DEF AckInv, AckedMeansApplied, IdsIssued, Applied
<1>3. AwaitsOwn'
  BY DEF Abort, AckInv, AwaitsOwn
<1> QED
  BY <1>1, <1>2, <1>3, AckVacate

LEMMA AckDiscard ==
  ASSUME TypeOK, TypeOK', AckInv, NEW s \in Slot, Discard(s)
  PROVE  AckInv'
<1>1. Vacate(s) /\ UNCHANGED <<lastId, log, nextId, outbox, awaiting>>
  BY DEF Discard, storeVars, editVars
<1>2. AckedMeansApplied' /\ IdsIssued' /\ AwaitsOwn'
  BY <1>1 DEF AckInv, AckedMeansApplied, IdsIssued, AwaitsOwn, Applied
<1> QED
  BY <1>1, <1>2, AckVacate

\* What the response lists was applied, so it may leave the outbox.
LEMMA AckReceive ==
  ASSUME TypeOK, TypeOK', AckInv, NEW c \in Client, ReceiveAck(c)
  PROVE  AckInv'
<1> DEFINE s == awaiting[c]
<1>1. s \in Slot /\ Owner[s] = c /\ pc[s] = "done" /\ Vacate(s)
  BY DEF ReceiveAck, TypeOK, AckInv, AwaitsOwn
<1>2. UNCHANGED <<lastId, log, nextId>>
  BY DEF ReceiveAck, storeVars
<1>3. \A id \in work[s].accepted : Applied(c, id)
  BY <1>1 DEF AckInv, ResponseSound
<1>4. outbox' = [outbox EXCEPT ![c] = {m \in outbox[c] : m.id \notin work[s].accepted}]
  BY DEF ReceiveAck
<1>5. \A d \in Client : outbox'[d] \subseteq outbox[d]
  BY <1>4 DEF TypeOK
<1>6. IdsIssued'
  BY <1>2, <1>5 DEF AckInv, IdsIssued
<1>7. AckedMeansApplied'
  <2> SUFFICES ASSUME NEW d \in Client, NEW id \in 1..nextId[d]
               PROVE  id \in Ids(outbox'[d]) \/ Applied(d, id)
    BY <1>2 DEF AckedMeansApplied, Applied
  <2>1. id \in Ids(outbox[d]) \/ Applied(d, id)
    BY DEF AckInv, AckedMeansApplied
  <2>2. CASE d # c
    BY <1>4, <2>1, <2>2 DEF TypeOK
  <2>3. CASE d = c
    <3>1. CASE id \in Ids(outbox[c])
      <4>1. PICK m \in outbox[c] : m.id = id
        BY <3>1 DEF Ids
      <4>2. CASE m.id \in work[s].accepted
        BY <1>3, <2>3, <4>1, <4>2
      <4>3. CASE m.id \notin work[s].accepted
        <5>1. outbox'[c] = {x \in outbox[c] : x.id \notin work[s].accepted}
          BY <1>4 DEF TypeOK
        <5>2. m \in outbox'[c]
          BY <4>1, <4>3, <5>1
        <5> QED
          BY <2>3, <4>1, <5>2 DEF Ids
      <4> QED
        BY <4>2, <4>3
    <3> QED
      BY <2>1, <2>3, <3>1
  <2> QED
    BY <2>2, <2>3
<1>8. AwaitsOwn'
  BY DEF ReceiveAck, AckInv, AwaitsOwn, TypeOK
<1> QED
  BY <1>1, <1>2, <1>6, <1>7, <1>8, AckVacate

LEMMA AckWipe ==
  ASSUME TypeOK, TypeOK', AckInv, NEW s \in Slot, NEW r \in Resource, BeginWipe(s, r)
  PROVE  AckInv'
<1>1. UNCHANGED <<lastId, log, nextId, outbox, awaiting, req>> /\ Owner[s] \notin Client
  BY AdminAssumption DEF BeginWipe, storeVars, editVars
<1>2. \A t \in Slot \ {s} : pc'[t] = pc[t] /\ work'[t] = work[t]
  BY DEF BeginWipe, TypeOK
<1> QED
  BY <1>1, <1>2, AckOpenFrame

LEMMA AckEdit ==
  ASSUME TypeOK, TypeOK', AckInv, NEW c \in Client, NEW k \in Key, NEW op \in Op,
         Edit(c, k, op)
  PROVE  AckInv'
<1>1. UNCHANGED <<lastId, log, pc, req, work, awaiting>>
  BY DEF Edit, storeVars, pushVars
<1> DEFINE m == [id |-> nextId[c] + 1, key |-> k, op |-> op, base |-> BaseOf(c, k)]
<1>2. /\ nextId' = [nextId EXCEPT ![c] = nextId[c] + 1]
      /\ outbox' = [outbox EXCEPT ![c] = outbox[c] \cup {m}]
  BY DEF Edit
<1>3. \A d \in Client : nextId[d] \in Nat /\ nextId[d] <= nextId'[d]
  BY <1>2 DEF TypeOK
<1>4. \A d \in Client : outbox[d] \subseteq outbox'[d] /\ outbox'[d] \subseteq outbox[d] \cup {m}
                       /\ (d # c => outbox'[d] = outbox[d])
  BY <1>2 DEF TypeOK
<1>5. WatermarkIsApplied' /\ AwaitsOwn'
  BY <1>1 DEF AckInv, WatermarkIsApplied, AwaitsOwn, Applied
<1>6. IdsIssued'
  <2> SUFFICES ASSUME NEW d \in Client, NEW x \in outbox'[d] PROVE x.id \in 1..nextId'[d]
    BY DEF IdsIssued
  <2>1. CASE x \in outbox[d]
    BY <1>2, <1>3, <2>1 DEF AckInv, IdsIssued, TypeOK
  <2>2. CASE d = c /\ x = m
    BY <1>2, <1>3, <2>2 DEF TypeOK
  <2> QED
    BY <1>4, <2>1, <2>2
<1>7. AckedMeansApplied'
  <2> SUFFICES ASSUME NEW d \in Client, NEW id \in 1..nextId'[d]
               PROVE  id \in Ids(outbox'[d]) \/ Applied(d, id)
    BY <1>1 DEF AckedMeansApplied, Applied
  <2>1. CASE id \in 1..nextId[d]
    BY <1>4, <2>1 DEF AckInv, AckedMeansApplied, Ids
  <2>2. CASE id \notin 1..nextId[d]
    <3>1. d = c
      BY <1>2, <2>2 DEF TypeOK
    <3>2. nextId[c] \in Nat /\ nextId'[c] = nextId[c] + 1
      BY <1>2 DEF TypeOK
    <3>3. id = nextId[c] + 1
      BY <2>2, <3>1, <3>2
    <3>4. id = m.id
      BY <3>3
    <3>5. m \in outbox'[c]
      BY <1>2 DEF TypeOK
    <3> QED
      BY <3>1, <3>4, <3>5 DEF Ids
  <2> QED
    BY <2>1, <2>2
<1>8. \A t \in Slot : Owner[t] \in Client => BatchWhole(t)' /\ OpenSound(t)' /\ ResponseSound(t)'
  BY <1>1, <1>3, SlotFrame DEF AckInv
<1> QED
  BY <1>5, <1>6, <1>7, <1>8 DEF AckInv

\* The whole outbox is pushed, and what is not in it was applied.
LEMMA AckSend ==
  ASSUME TypeOK, TypeOK', AckInv, NEW c \in Client, NEW s \in Slot, Send(c, s)
  PROVE  AckInv'
<1>1. UNCHANGED <<lastId, log, nextId, outbox, work>> /\ Owner[s] = c
  BY DEF Send, storeVars
<1>2. /\ \A t \in Slot \ {s} : pc'[t] = pc[t] /\ req'[t] = req[t] /\ work'[t] = work[t]
      /\ pc'[s] = "sent" /\ req'[s] = outbox[c]
  BY DEF Send, Batch, TypeOK
<1>3. BatchWhole(s)'
  <2> SUFFICES ASSUME NEW m \in outbox[c], NEW x \in 1..m.id
               PROVE  x \in Ids(outbox[c]) \/ Applied(c, x)
    BY <1>1, <1>2 DEF AckInv, IdsIssued, BatchWhole, Applied
  <2>1. m.id \in 1..nextId[c] /\ nextId[c] \in Nat
    BY DEF AckInv, IdsIssued, TypeOK
  <2>2. x \in 1..nextId[c]
    BY <2>1
  <2> QED
    BY <2>2 DEF AckInv, AckedMeansApplied
<1>4. OpenSound(s)' /\ ResponseSound(s)'
  BY <1>2 DEF OpenSound, ResponseSound
<1>5. WatermarkIsApplied' /\ AckedMeansApplied' /\ IdsIssued'
  BY <1>1 DEF AckInv, WatermarkIsApplied, AckedMeansApplied, IdsIssued, Applied
<1>6. AwaitsOwn'
  BY <1>1 DEF Send, AckInv, AwaitsOwn, TypeOK
<1>7. log \subseteq log' /\ \A d \in Client : nextId[d] <= nextId'[d]
  BY <1>1 DEF TypeOK
<1> QED
  BY <1>2, <1>3, <1>4, <1>5, <1>6, <1>7, AckStep

LEMMA AckTimeout ==
  ASSUME TypeOK, TypeOK', AckInv, NEW c \in Client, Timeout(c)
  PROVE  AckInv'
<1>1. UNCHANGED <<lastId, log, nextId, outbox, pc, req, work>>
  BY DEF Timeout, storeVars, pushVars
<1>2. AwaitsOwn'
  BY DEF Timeout, AckInv, AwaitsOwn, TypeOK
<1> QED
  BY <1>1, <1>2 DEF AckInv, WatermarkIsApplied, AckedMeansApplied, IdsIssued,
                    BatchWhole, OpenSound, ResponseSound, Applied, Known

\* Rebasing keeps every id in the outbox.
LEMMA AckReceivePull ==
  ASSUME TypeOK, TypeOK', AckInv, NEW c \in Client, NEW r \in Resource, ReceivePull(c, r)
  PROVE  AckInv'
<1>1. UNCHANGED <<lastId, log, nextId, pc, req, work, awaiting>>
  BY DEF ReceivePull, storeVars, pushVars
<1>2. outbox' = [outbox EXCEPT ![c] = {Rebased(m, r, seen'[c]) : m \in outbox[c]}]
  BY DEF ReceivePull
<1>3. \A m \in outbox[c] : Rebased(m, r, seen'[c]).id = m.id
  BY RebasedType DEF TypeOK, Versions
<1>4. \A d \in Client : Ids(outbox'[d]) = Ids(outbox[d])
  <2>1. \A d \in Client \ {c} : outbox'[d] = outbox[d]
    BY <1>2 DEF TypeOK
  <2>2. outbox'[c] = {Rebased(m, r, seen'[c]) : m \in outbox[c]}
    BY <1>2 DEF TypeOK
  <2> QED
    BY <1>3, <2>1, <2>2 DEF Ids
<1>5. AckedMeansApplied'
  BY <1>1, <1>4 DEF AckInv, AckedMeansApplied, Applied
<1>6. IdsIssued'
  <2>1. \A d \in Client : \A i \in Ids(outbox[d]) : i \in 1..nextId[d]
    BY DEF AckInv, IdsIssued, Ids
  <2> QED
    BY <1>1, <1>4, <2>1 DEF IdsIssued, Ids
<1> QED
  BY <1>1, <1>5, <1>6 DEF AckInv, WatermarkIsApplied, AwaitsOwn,
                          BatchWhole, OpenSound, ResponseSound, Applied, Known

LEMMA AckNext == TypeOK /\ TypeOK' /\ AckInv /\ [Next]_vars => AckInv'
<1> SUFFICES ASSUME TypeOK, TypeOK', AckInv, [Next]_vars PROVE AckInv'
  OBVIOUS
<1>1. CASE \E s \in Slot : Begin(s) \/ Commit(s) \/ Abort(s) \/ Discard(s)
  BY <1>1, AckBegin, AckCommit, AckAbort, AckDiscard
<1>2. CASE \E s \in Slot : Apply(s)
  BY <1>2, AckSkip, AckAccept, AckReject DEF Apply
<1>3. CASE \E s \in Slot, r \in Resource : BeginWipe(s, r)
  BY <1>3, AckWipe
<1>4. CASE \E c \in Client, k \in Key, op \in Op : Edit(c, k, op)
  BY <1>4, AckEdit
<1>5. CASE \E c \in Client, s \in Slot : Send(c, s)
  BY <1>5, AckSend
<1>6. CASE \E c \in Client : Timeout(c) \/ ReceiveAck(c)
  BY <1>6, AckTimeout, AckReceive
<1>7. CASE \E c \in Client, r \in Resource : PullRows(c, r) \/ PullVersion(c, r) \/ LosePull(c, r)
  BY <1>7, AckFrame DEF PullRows, PullVersion, LosePull, storeVars, pushVars, editVars
<1>8. CASE \E c \in Client, r \in Resource : ReceivePull(c, r)
  BY <1>8, AckReceivePull
<1>9. CASE UNCHANGED vars
  BY <1>9, AckFrame DEF vars, storeVars, pushVars, editVars
<1> QED
  BY <1>1, <1>2, <1>3, <1>4, <1>5, <1>6, <1>7, <1>8, <1>9 DEF Next

LEMMA AckInvariant == Spec => []AckInv
BY AckInit, AckNext, TypeCorrect, PTL DEF Spec

\* No edit is dropped: a mutation that left its client's outbox was applied,
\* whatever was rejected, repeated, lost or overtaken in between.
THEOREM NoEditDropped == Spec => []AckedMeansApplied
<1>1. AckInv => AckedMeansApplied
  BY DEF AckInv
<1> QED
  BY <1>1, AckInvariant, PTL

\* The stored watermark covers applied mutations only.
THEOREM WatermarkSound == Spec => []WatermarkIsApplied
<1>1. AckInv => WatermarkIsApplied
  BY DEF AckInv
<1> QED
  BY <1>1, AckInvariant, PTL

-----------------------------------------------------------------------------
(* The committed tables: RowIsNewestWrite, NoReapplyBelowWatermark, and the *)
(* refinement of SyncStore                                                  *)

LEMMA StoreInit == Init => StoreInv
<1> SUFFICES ASSUME Init PROVE StoreInv
  OBVIOUS
<1>1. \A s \in Slot : pc[s] # "open"
  BY DEF Init
<1>2. RowIsNewestWrite
  BY DEF Init, RowIsNewestWrite, NoRow
<1> QED
  BY <1>1, <1>2 DEF StoreInv, OpenWrites, OpenIds

\* No row is ahead of the counter.
LEMMA RowBelowCurrent ==
  ASSUME TypeOK, RowIsNewestWrite, NEW k \in Key
  PROVE  row[k].version \in Nat /\ row[k].version <= current
<1>1. row[k] \in Row /\ current \in Nat
  BY DEF TypeOK
<1>2. row[k].version # 0 => row[k].version <= current
  BY DEF RowIsNewestWrite
<1> QED
  BY <1>1, <1>2 DEF Row

\* A step that commits nothing and leaves the open transactions alone, or closes them.
LEMMA StoreFrame ==
  ASSUME StoreInv, UNCHANGED storeVars,
         \A t \in Slot : pc'[t] = "open" => pc[t] = "open" /\ work'[t] = work[t]
  PROVE  StoreInv'
<1>1. RowIsNewestWrite'
  BY DEF StoreInv, RowIsNewestWrite, storeVars
<1>2. ASSUME NEW t \in Slot PROVE OpenWrites(t)' /\ OpenIds(t)'
  <2>1. OpenWrites(t) /\ OpenIds(t)
    BY DEF StoreInv
  <2> QED
    BY <2>1 DEF OpenWrites, OpenIds, storeVars
<1> QED
  BY <1>1, <1>2 DEF StoreInv

\* A step of the transaction in slot s that commits nothing.
LEMMA StoreOpenFrame ==
  ASSUME StoreInv, UNCHANGED storeVars, NEW s \in Slot,
         \A t \in Slot \ {s} : pc'[t] = pc[t] /\ work'[t] = work[t],
         OpenWrites(s)', OpenIds(s)'
  PROVE  StoreInv'
<1>1. RowIsNewestWrite'
  BY DEF StoreInv, RowIsNewestWrite, storeVars
<1>2. ASSUME NEW t \in Slot \ {s} PROVE OpenWrites(t)' /\ OpenIds(t)'
  <2>1. OpenWrites(t) /\ OpenIds(t)
    BY DEF StoreInv
  <2> QED
    BY <2>1 DEF OpenWrites, OpenIds, storeVars
<1> QED
  BY <1>1, <1>2 DEF StoreInv

\* A transaction starts with nothing written.
LEMMA StoreOpened ==
  ASSUME TypeOK, StoreInv, UNCHANGED storeVars, NEW s \in Slot, NEW last, NEW batch,
         work' = [work EXCEPT ![s] = Opened(last, batch)],
         pc' = [pc EXCEPT ![s] = "open"],
         Owner[s] \in Client => last = lastId[Owner[s]]
  PROVE  StoreInv'
<1>1. /\ work'[s].version = current /\ work'[s].writes = {} /\ work'[s].last = last
      /\ \A k \in Key : work'[s].rows[k].version = 0
  BY DEF TypeOK, Opened, NoWork, NoRow
<1>2. OpenWrites(s)'
  BY <1>1 DEF OpenWrites, storeVars, TypeOK
<1>3. OpenIds(s)'
  BY <1>1 DEF OpenIds, storeVars, TypeOK
<1>4. \A t \in Slot \ {s} : pc'[t] = pc[t] /\ work'[t] = work[t]
  BY DEF TypeOK
<1> QED
  BY <1>2, <1>3, <1>4, StoreOpenFrame

LEMMA StoreBegin ==
  ASSUME TypeOK, StoreInv, NEW s \in Slot, Begin(s)
  PROVE  StoreInv'
BY StoreOpened DEF Begin

LEMMA StoreWipe ==
  ASSUME TypeOK, StoreInv, NEW s \in Slot, NEW r \in Resource, BeginWipe(s, r)
  PROVE  StoreInv'
BY StoreOpened, AdminAssumption DEF BeginWipe

\* Skipping or rejecting a mutation writes nothing.
LEMMA StoreSkipReject ==
  ASSUME TypeOK, StoreInv, NEW s \in Slot, NEW m, Skip(s, m) \/ Reject(s, m)
  PROVE  StoreInv'
<1>1. /\ UNCHANGED <<storeVars, pc>> /\ pc[s] = "open"
      /\ \A t \in Slot \ {s} : work'[t] = work[t]
      /\ work'[s].version = work[s].version /\ work'[s].writes = work[s].writes
      /\ work'[s].rows = work[s].rows /\ work'[s].last = work[s].last
  <2>1. CASE Skip(s, m)
    BY <2>1 DEF Skip, Turn, Skipped, TypeOK, Work
  <2>2. CASE Reject(s, m)
    BY <2>2 DEF Reject, Turn, TypeOK, Work
  <2> QED
    BY <2>1, <2>2
<1>2. OpenWrites(s) /\ OpenIds(s)
  BY DEF StoreInv
<1>3. OpenWrites(s)' /\ OpenIds(s)'
  BY <1>1, <1>2 DEF OpenWrites, OpenIds, storeVars
<1> QED
  BY <1>1, <1>3, StoreOpenFrame DEF storeVars

\* An accepted mutation adds one write, with the next version.
LEMMA StoreAccept ==
  ASSUME TypeOK, StoreInv, NEW s \in Slot, NEW m, Accept(s, m)
  PROVE  StoreInv'
<1> DEFINE v == work[s].version + 1
           x == [version |-> v, key |-> m.key, client |-> Owner[s], id |-> m.id]
<1>1. m \in Mutation /\ work[s] \in Work /\ current \in Nat /\ pc[s] = "open"
  BY DEF Accept, Turn, TypeOK, Work
<1>2. /\ UNCHANGED <<storeVars, pc>>
      /\ \A t \in Slot \ {s} : work'[t] = work[t]
      /\ work'[s].version = v /\ work'[s].writes = work[s].writes \cup {x}
      /\ work'[s].rows = [work[s].rows EXCEPT ![m.key] = [version |-> v, deleted |-> m.op = "delete"]]
      /\ work'[s].last = Advanced(s, m)
  BY DEF Accept, Written, NewVersion, TypeOK, Work
<1>3. OpenWrites(s) /\ OpenIds(s)
  BY DEF StoreInv
<1>4. /\ work'[s].rows[m.key].version = v
      /\ \A k \in Key \ {m.key} : work'[s].rows[k] = work[s].rows[k]
  BY <1>1, <1>2 DEF Work, Mutation
<1>5. \A w \in work[s].writes : w.version \in Nat /\ w.key \in Key /\ w.version < v
  BY <1>1, <1>3 DEF OpenWrites, Work, Write
<1>6. work[s].version \in Nat /\ v \in Nat /\ current < v /\ x.version = v /\ x.key = m.key
  BY <1>1, <1>3 DEF OpenWrites, Work
<1>7. OpenWrites(s)'
  <2>1. current' <= work'[s].version
    BY <1>1, <1>2, <1>6 DEF storeVars
  <2>2. \A w \in work'[s].writes : /\ current' < w.version /\ w.version <= work'[s].version
                                  /\ w.version <= work'[s].rows[w.key].version
    <3> SUFFICES ASSUME NEW w \in work'[s].writes
                 PROVE  /\ current < w.version /\ w.version <= v
                        /\ w.version <= work'[s].rows[w.key].version
      BY <1>2 DEF storeVars
    <3>1. CASE w = x
      BY <1>4, <1>6, <3>1
    <3>2. CASE w \in work[s].writes
      <4>1. current < w.version /\ w.version <= work[s].rows[w.key].version
        BY <1>1, <1>3, <3>2 DEF OpenWrites
      <4>2. CASE w.key = m.key
        BY <1>4, <1>5, <1>6, <3>2, <4>1, <4>2
      <4>3. CASE w.key # m.key
        BY <1>4, <1>5, <1>6, <3>2, <4>1, <4>3
      <4> QED
        BY <4>2, <4>3
    <3> QED
      BY <1>2, <3>1, <3>2
  <2>3. \A w, y \in work'[s].writes : w.version = y.version => w = y
    BY <1>1, <1>2, <1>3, <1>5, <1>6 DEF OpenWrites
  <2>4. \A k \in Key : work'[s].rows[k].version # 0 =>
          \E w \in work'[s].writes : w.key = k /\ w.version = work'[s].rows[k].version
    <3> SUFFICES ASSUME NEW k \in Key, work'[s].rows[k].version # 0
                 PROVE  \E w \in work'[s].writes : w.key = k /\ w.version = work'[s].rows[k].version
      OBVIOUS
    <3>1. CASE k = m.key
      <4>1. x \in work'[s].writes
        BY <1>2
      <4> QED
        BY <1>4, <1>6, <3>1, <4>1
    <3>2. CASE k # m.key
      <4>1. work'[s].rows[k] = work[s].rows[k]
        BY <1>4, <3>2
      <4>2. \E w \in work[s].writes : w.key = k /\ w.version = work[s].rows[k].version
        BY <1>1, <1>3, <4>1 DEF OpenWrites
      <4> QED
        BY <1>2, <4>1, <4>2
    <3> QED
      BY <3>1, <3>2
  <2>5. \E k \in Key : work'[s].rows[k].version = work'[s].version
    BY <1>1, <1>2, <1>4 DEF Mutation
  <2> QED
    BY <2>1, <2>2, <2>3, <2>4, <2>5 DEF OpenWrites
<1>8. OpenIds(s)'
  <2>1. \A w \in work'[s].writes : w.client = Owner[s]
    BY <1>1, <1>2, <1>3 DEF OpenIds
  <2>2. ASSUME Owner[s] \in Client
        PROVE  /\ lastId[Owner[s]] <= work'[s].last
               /\ \A w \in work'[s].writes : lastId[Owner[s]] < w.id
    <3>1. m.id \in Nat /\ work[s].last \in Nat /\ work[s].last < m.id /\ lastId[Owner[s]] \in Nat
      BY <1>1, <2>2 DEF Accept, AlreadyApplied, Mutation, Work, TypeOK
    <3>2. /\ lastId[Owner[s]] <= work[s].last
          /\ \A w \in work[s].writes : lastId[Owner[s]] < w.id
      BY <1>1, <1>3, <2>2 DEF OpenIds
    <3>3. lastId[Owner[s]] < x.id
      BY <3>1, <3>2
    <3> QED
      BY <1>2, <3>1, <3>2, <3>3 DEF Advanced
  <2> QED
    BY <1>2, <2>1, <2>2 DEF OpenIds, storeVars
<1> QED
  BY <1>2, <1>7, <1>8, StoreOpenFrame DEF storeVars

\* What the transaction adds is newer than what was there.
LEMMA ViewGrows ==
  ASSUME TypeOK, StoreInv, NEW s \in Slot, pc[s] = "open", NEW k \in Key
  PROVE  /\ row[k].version <= View(s, k).version
         /\ work[s].rows[k].version # 0 => row[k].version < View(s, k).version
<1>1. row[k].version \in Nat /\ row[k].version <= current /\ current \in Nat
  BY RowBelowCurrent DEF StoreInv, TypeOK
<1>2. CASE work[s].rows[k].version = 0
  BY <1>1, <1>2 DEF View
<1>3. CASE work[s].rows[k].version # 0
  <2>1. PICK w \in work[s].writes : w.key = k /\ w.version = work[s].rows[k].version
    BY <1>3 DEF StoreInv, OpenWrites
  <2>2. current < w.version /\ w.version \in Nat
    BY <2>1 DEF StoreInv, OpenWrites, TypeOK, Work, Row
  <2> QED
    BY <1>1, <1>3, <2>1, <2>2 DEF View
<1> QED
  BY <1>2, <1>3

LEMMA StoreCommit ==
  ASSUME TypeOK, StoreInv, NEW s \in Slot, Commit(s)
  PROVE  StoreInv'
<1>1. /\ pc[s] = "open" /\ current' = work[s].version /\ log' = log \cup work[s].writes
      /\ \A k \in Key : row'[k] = View(s, k)
  BY DEF Commit
<1>2. RowIsNewestWrite /\ OpenWrites(s)
  BY DEF StoreInv
<1>3. /\ current \in Nat /\ work[s].version \in Nat /\ current <= work[s].version
      /\ log \subseteq Write /\ work[s].writes \subseteq Write
  BY <1>1, <1>2 DEF TypeOK, Work, OpenWrites
<1>4. \A w \in log : /\ 1 <= w.version /\ w.version <= current /\ w.version \in Nat
                      /\ w.key \in Key /\ w.version <= row[w.key].version
  BY <1>2, <1>3 DEF RowIsNewestWrite, Write
<1>5. \A w \in work[s].writes : /\ current < w.version /\ w.version <= work[s].version
                                /\ w.version <= work[s].rows[w.key].version
                                /\ w.version \in Nat /\ w.key \in Key
  BY <1>1, <1>2, <1>3 DEF OpenWrites, Write
<1>6. \A k \in Key : /\ row[k].version \in Nat /\ work[s].rows[k].version \in Nat
                     /\ row[k].version <= row'[k].version /\ row'[k].version \in Nat
  BY <1>1, ViewGrows, ViewType DEF TypeOK, Row, Work
<1>7. RowIsNewestWrite'
  <2>1. \A w \in log' : 1 <= w.version /\ w.version <= current'
    BY <1>1, <1>3, <1>4, <1>5
  <2>2. \A w \in log' : w.version <= row'[w.key].version
    <3> SUFFICES ASSUME NEW w \in log' PROVE w.version <= row'[w.key].version
      OBVIOUS
    <3>1. CASE w \in log
      BY <1>4, <1>6, <3>1
    <3>2. CASE w \in work[s].writes
      <4>1. w.key \in Key /\ w.version <= work[s].rows[w.key].version /\ w.version # 0
        BY <1>3, <1>5, <3>2
      <4>2. work[s].rows[w.key].version # 0
        BY <1>5, <1>6, <3>2, <4>1
      <4> QED
        BY <1>1, <4>1, <4>2 DEF View
    <3> QED
      BY <1>1, <3>1, <3>2
  <2>3. \A w, x \in log' : w.version = x.version => w = x
    <3>1. \A w, x \in log : w.version = x.version => w = x
      BY <1>2 DEF RowIsNewestWrite
    <3>2. \A w, x \in work[s].writes : w.version = x.version => w = x
      BY <1>1, <1>2 DEF OpenWrites
    <3>3. \A w \in log, x \in work[s].writes : w.version # x.version
      BY <1>3, <1>4, <1>5
    <3> QED
      BY <1>1, <3>1, <3>2, <3>3
  <2>4. \A k \in Key : row'[k].version # 0 => \E w \in log' : w.key = k /\ w.version = row'[k].version
    <3> SUFFICES ASSUME NEW k \in Key, row'[k].version # 0
                 PROVE  \E w \in log' : w.key = k /\ w.version = row'[k].version
      OBVIOUS
    <3>1. CASE work[s].rows[k].version = 0
      BY <1>1, <1>2, <3>1 DEF View, RowIsNewestWrite
    <3>2. CASE work[s].rows[k].version # 0
      BY <1>1, <1>2, <3>2 DEF View, OpenWrites
    <3> QED
      BY <3>1, <3>2
  <2> QED
    BY <2>1, <2>2, <2>3, <2>4 DEF RowIsNewestWrite
<1>8. \A t \in Slot : pc'[t] # "open"
  BY <1>1 DEF Commit, TypeOK, LockHeld
<1> QED
  BY <1>7, <1>8 DEF StoreInv, OpenWrites, OpenIds

LEMMA StoreNext == TypeOK /\ StoreInv /\ [Next]_vars => StoreInv'
<1> SUFFICES ASSUME TypeOK, StoreInv, [Next]_vars PROVE StoreInv'
  OBVIOUS
<1>1. CASE \E s \in Slot : Begin(s) \/ Commit(s)
  BY <1>1, StoreBegin, StoreCommit
<1>2. CASE \E s \in Slot : Abort(s) \/ Discard(s)
  <2>1. PICK s \in Slot : Abort(s) \/ Discard(s)
    BY <1>2
  <2>2. Vacate(s) /\ UNCHANGED storeVars
    BY <2>1 DEF Abort, Discard
  <2> QED
    BY <2>2, StoreFrame DEF Vacate, TypeOK
<1>3. CASE \E s \in Slot : Apply(s)
  BY <1>3, StoreSkipReject, StoreAccept DEF Apply
<1>4. CASE \E s \in Slot, r \in Resource : BeginWipe(s, r)
  BY <1>4, StoreWipe
<1>5. CASE \E c \in Client, s \in Slot : Send(c, s)
  <2>1. PICK c \in Client, s \in Slot : Send(c, s)
    BY <1>5
  <2>2. UNCHANGED <<storeVars, work>> /\ pc' = [pc EXCEPT ![s] = "sent"]
    BY <2>1 DEF Send
  <2> QED
    BY <2>2, StoreFrame DEF TypeOK
<1>6. CASE \E c \in Client : ReceiveAck(c)
  <2>1. PICK c \in Client : ReceiveAck(c)
    BY <1>6
  <2>2. Vacate(awaiting[c]) /\ UNCHANGED storeVars
    BY <2>1 DEF ReceiveAck
  <2>3. \A t \in Slot : pc'[t] = "open" => pc[t] = "open" /\ work'[t] = work[t]
    BY <2>2 DEF Vacate, TypeOK
  <2> QED
    BY <2>2, <2>3, StoreFrame
<1>7. CASE \/ \E c \in Client, k \in Key, op \in Op : Edit(c, k, op)
           \/ \E c \in Client : Timeout(c)
           \/ \E c \in Client, r \in Resource :
                 PullRows(c, r) \/ PullVersion(c, r) \/ ReceivePull(c, r) \/ LosePull(c, r)
           \/ UNCHANGED vars
  <2>1. (\E c \in Client, k \in Key, op \in Op : Edit(c, k, op)) => UNCHANGED <<storeVars, pushVars>>
    BY DEF Edit
  <2>2. (\E c \in Client : Timeout(c)) => UNCHANGED <<storeVars, pushVars>>
    BY DEF Timeout
  <2>3. (\E c \in Client, r \in Resource : PullRows(c, r) \/ PullVersion(c, r)) => UNCHANGED <<storeVars, pushVars>>
    BY DEF PullRows, PullVersion
  <2>4. (\E c \in Client, r \in Resource : ReceivePull(c, r)) => UNCHANGED <<storeVars, pushVars>>
    BY DEF ReceivePull
  <2>5. (\E c \in Client, r \in Resource : LosePull(c, r)) => UNCHANGED <<storeVars, pushVars>>
    BY DEF LosePull
  <2>6. UNCHANGED vars => UNCHANGED <<storeVars, pushVars>>
    BY DEF vars
  <2>7. UNCHANGED <<storeVars, pushVars>>
    BY <1>7, <2>1, <2>2, <2>3, <2>4, <2>5, <2>6
  <2> QED
    BY <2>7, StoreFrame DEF pushVars
<1> QED
  BY <1>1, <1>2, <1>3, <1>4, <1>5, <1>6, <1>7 DEF Next

LEMMA StoreInvariant == Spec => []StoreInv
BY StoreInit, StoreNext, TypeCorrect, PTL DEF Spec

\* Versions are unique, none is above the counter, and every row is its newest
\* write, whatever pushes, wipes, retries and aborts interleave.
THEOREM RowsAreNewestWrites == Spec => []RowIsNewestWrite
<1>1. StoreInv => RowIsNewestWrite
  BY DEF StoreInv
<1> QED
  BY <1>1, StoreInvariant, PTL

-----------------------------------------------------------------------------
\* The tables change when a transaction commits and at no other time.
LEMMA OnlyCommit ==
  ASSUME [Next]_vars
  PROVE  UNCHANGED storeVars \/ \E s \in Slot : Commit(s)
BY DEF Next, Apply, vars, Begin, Abort, Discard, Skip, Accept, Reject, BeginWipe, Edit, Send,
       Timeout, ReceiveAck, PullRows, PullVersion, ReceivePull, LosePull

LEMMA CommitAboveWatermark ==
  ASSUME TypeOK, StoreInv, NEW s \in Slot, Commit(s),
         NEW w \in log' \ log, w.client \in Client
  PROVE  w.id > lastId[w.client]
<1>1. pc[s] = "open" /\ w \in work[s].writes
  BY DEF Commit
<1>2. w.client = Owner[s] /\ lastId[Owner[s]] < w.id
  BY <1>1 DEF StoreInv, OpenIds
<1>3. w.id \in Nat /\ lastId[Owner[s]] \in Nat
  BY <1>1, <1>2 DEF TypeOK, Work, Write
<1> QED
  BY <1>2, <1>3

\* A mutation at or below its client's watermark is never applied again.
THEOREM AppliedOnceBelowWatermark == Spec => NoReapplyBelowWatermark
<1>1. TypeOK /\ StoreInv /\ [Next]_vars =>
        [\A w \in log' \ log : w.client \in Client => w.id > lastId[w.client]]_log
  BY OnlyCommit, CommitAboveWatermark DEF storeVars
<1> QED
  BY <1>1, TypeCorrect, StoreInvariant, PTL DEF Spec, NoReapplyBelowWatermark

\* A commit that wrote nothing changes nothing a reader sees.
LEMMA EmptyCommit ==
  ASSUME TypeOK, StoreInv, NEW s \in Slot, Commit(s),
         \A k \in Key : work[s].rows[k].version = 0
  PROVE  row' = row /\ current' = current
<1>1. row' = [k \in Key |-> View(s, k)] /\ current' = work[s].version /\ pc[s] = "open"
  BY DEF Commit
<1>2. \A k \in Key : View(s, k) = row[k]
  BY DEF View
<1>3. row' = row
  BY <1>1, <1>2 DEF TypeOK
<1>4. OpenWrites(s) /\ current \in Nat
  BY DEF StoreInv, TypeOK
<1>5. current <= work[s].version
      /\ (work[s].version = current \/ \E k \in Key : work[s].rows[k].version = work[s].version)
  BY <1>1, <1>4 DEF OpenWrites
<1>6. work[s].version = current
  BY <1>4, <1>5
<1> QED
  BY <1>1, <1>3, <1>6

\* A commit that wrote something is a batch of the abstract store.
LEMMA BatchCommit ==
  ASSUME TypeOK, StoreInv, NEW s \in Slot, Commit(s),
         NEW j \in Key, work[s].rows[j].version # 0
  PROVE  Store!CommitBatch
<1> DEFINE v(k) == work[s].rows[k].version
<1>1. /\ row' = [k \in Key |-> View(s, k)] /\ current' = work[s].version /\ pc[s] = "open"
  BY DEF Commit
<1>2. OpenWrites(s)
  BY DEF StoreInv
<1>3. \A k \in Key : /\ row'[k] = View(s, k) /\ row'[k] \in Row /\ row[k] \in Row
                     /\ v(k) \in Nat
  BY <1>1, ViewType DEF TypeOK, Work, Row
<1>4. \A k \in Key : row'[k].version # row[k].version => v(k) # 0 /\ row'[k].version = v(k)
  BY <1>3 DEF View
<1>5. \A k \in Key : v(k) # 0 => \E w \in work[s].writes : w.key = k /\ w.version = v(k)
  BY <1>1, <1>2 DEF OpenWrites
<1>6. \A w \in work[s].writes : current < w.version /\ w.version <= work[s].version
  BY <1>1, <1>2 DEF OpenWrites
<1>7. \A k \in Key : v(k) # 0 => current < v(k) /\ v(k) <= work[s].version
  BY <1>5, <1>6
<1>8. \A i, k \in Key : v(i) # 0 /\ v(i) = v(k) => i = k
  <2> SUFFICES ASSUME NEW i \in Key, NEW k \in Key, v(i) # 0, v(i) = v(k) PROVE i = k
    OBVIOUS
  <2>1. PICK w \in work[s].writes : w.key = i /\ w.version = v(i)
    BY <1>5
  <2>2. PICK x \in work[s].writes : x.key = k /\ x.version = v(k)
    BY <1>5
  <2> QED
    BY <1>1, <1>2, <2>1, <2>2 DEF OpenWrites
<1>9. PICK t \in Key : v(t) = work[s].version /\ v(t) # 0
  <2>1. current \in Nat /\ work[s].version \in Nat
    BY DEF TypeOK, Work
  <2>2. work[s].version # current
    BY <1>3, <1>7, <2>1
  <2> QED
    BY <1>1, <1>2, <1>7, <2>1, <2>2 DEF OpenWrites
<1>10. row'[t].version = current' /\ row'[t].version # row[t].version
  <2>1. row'[t].version = v(t)
    BY <1>3, <1>9 DEF View
  <2>2. row[t].version < row'[t].version
    BY <1>1, <1>3, <1>9, ViewGrows
  <2> QED
    BY <1>1, <1>3, <1>9, <2>1, <2>2 DEF Row
<1> DEFINE V  == [k \in Key |-> row[k].version]
           V1 == [k \in Key |-> row'[k].version]
           T  == {k \in Key : V1[k] # V[k]}
<1>11. V1 \in [Key -> Int]
  BY <1>3 DEF Row
<1>12. \A k \in T : V1[k] > current /\ V1[k] <= current'
  BY <1>1, <1>4, <1>7
<1>13. \A i, k \in T : V1[i] = V1[k] => i = k
  BY <1>4, <1>8
<1>14. \E k \in T : V1[k] = current'
  BY <1>10
<1> QED
  BY <1>11, <1>12, <1>13, <1>14 DEF Store!CommitBatch, Store!Touched

\* The committed tables implement the abstract store: what readers see moves in
\* whole batches with fresh, distinct versions up to the counter.
THEOREM EngineImplementsStore == Spec => ImplementsStore
<1>1. Init => Store!Init
  BY DEF Init, NoRow, Store!Init
<1>2. TypeOK /\ StoreInv /\ [Next]_vars => [Store!CommitBatch]_(Store!vars)
  <2> SUFFICES ASSUME TypeOK, StoreInv, [Next]_vars
               PROVE  Store!CommitBatch \/ UNCHANGED <<row, current>>
    BY DEF Store!vars
  <2>1. CASE UNCHANGED storeVars
    BY <2>1 DEF storeVars
  <2>2. CASE \E s \in Slot : Commit(s)
    BY <2>2, EmptyCommit, BatchCommit
  <2> QED
    BY <2>1, <2>2, OnlyCommit
<1> QED
  BY <1>1, <1>2, TypeCorrect, StoreInvariant, PTL DEF Spec, ImplementsStore, Store!Spec

-----------------------------------------------------------------------------
(* CursorCompleteButMissed *)

LEMMA CursorInit == Init => CursorInv
<1> SUFFICES ASSUME Init PROVE CursorInv
  OBVIOUS
<1>1. CursorCompleteButMissed
  BY DEF Init, NoRow, CursorCompleteButMissed
<1>2. \A s \in Slot : DetailsWritten(s)
  BY DEF Init, NoWork, None, DetailsWritten
<1>3. \A c \in Client, k \in Key : held[c][k] <= row[k].version
  BY DEF Init, NoRow
<1>4. \A c \in Client, r \in Resource : cursor[c][r] <= current /\ PullSound(c, r)
  BY DEF Init, NoPull, PullSound
<1> QED
  BY <1>1, <1>2, <1>3, <1>4 DEF CursorInv

\* The types the arithmetic below needs.
LEMMA CursorTypes ==
  ASSUME TypeOK
  PROVE  /\ current \in Nat /\ \A k \in Key : row[k].version \in Nat
         /\ \A c \in Client, k \in Key : held[c][k] \in Nat
         /\ \A c \in Client, r \in Resource :
              /\ cursor[c][r] \in Nat /\ pull[c][r] \in Pull
              /\ pull[c][r].asOf \in Nat /\ pull[c][r].cursor \in Nat
              /\ \A k \in Key : pull[c][r].patch[k] \in Nat
BY DEF TypeOK, Row, Pull, Versions

\* A step on the server's side that commits nothing: the clients and the tables
\* are as they were, and the handlers report nothing new.
LEMMA CursorFrame ==
  ASSUME CursorInv, UNCHANGED <<storeVars, mirrorVars, pullVars>>,
         \A s \in Slot : DetailsWritten(s)'
  PROVE  CursorInv'
BY DEF CursorInv, CursorCompleteButMissed, PullSound, storeVars, mirrorVars, pullVars

\* A step that leaves a handler's report alone or drops it.
LEMMA DetailsFrame ==
  ASSUME NEW s \in Slot, DetailsWritten(s), log \subseteq log',
         \/ work'[s] = work[s] /\ pc'[s] = pc[s]
         \/ work'[s] = work[s] /\ pc'[s] # "done"
         \/ work'[s].details = None /\ pc'[s] # "done"
  PROVE  DetailsWritten(s)'
BY DEF DetailsWritten, None

LEMMA VacateCursor ==
  ASSUME TypeOK, CursorInv, NEW s \in Slot, Vacate(s), log \subseteq log'
  PROVE  \A t \in Slot : DetailsWritten(t)'
<1> SUFFICES ASSUME NEW t \in Slot PROVE DetailsWritten(t)'
  OBVIOUS
<1>1. CASE t = s
  BY <1>1, DetailsFrame DEF Vacate, NoWork, TypeOK, CursorInv
<1>2. CASE t # s
  BY <1>2, DetailsFrame DEF Vacate, TypeOK, CursorInv
<1> QED
  BY <1>1, <1>2

LEMMA OpenedCursor ==
  ASSUME TypeOK, CursorInv, NEW s \in Slot, NEW last, NEW batch, UNCHANGED storeVars,
         work' = [work EXCEPT ![s] = Opened(last, batch)], pc' = [pc EXCEPT ![s] = "open"]
  PROVE  \A t \in Slot : DetailsWritten(t)'
<1> SUFFICES ASSUME NEW t \in Slot PROVE DetailsWritten(t)'
  OBVIOUS
<1>0. Opened(last, batch).details = None
  BY DEF Opened, NoWork
<1>1. CASE t = s
  BY <1>0, <1>1, DetailsFrame DEF TypeOK, CursorInv, storeVars
<1>2. CASE t # s
  BY <1>2, DetailsFrame DEF TypeOK, CursorInv, storeVars
<1> QED
  BY <1>1, <1>2

\* The version a skipped mutation is reported with is that of a write of its key.
LEMMA ViewWritten ==
  ASSUME TypeOK, StoreInv, NEW s \in Slot, pc[s] = "open", NEW k \in Key,
         View(s, k).version # 0
  PROVE  \E w \in log \cup work[s].writes : w.key = k /\ w.version = View(s, k).version
<1>1. CASE work[s].rows[k].version = 0
  BY <1>1 DEF View, StoreInv, RowIsNewestWrite
<1>2. CASE work[s].rows[k].version # 0
  BY <1>2 DEF View, StoreInv, OpenWrites
<1> QED
  BY <1>1, <1>2

LEMMA SkipCursor ==
  ASSUME TypeOK, StoreInv, CursorInv, NEW s \in Slot, NEW m, Skip(s, m)
  PROVE  CursorInv'
<1> DEFINE v == View(s, m.key).version
<1>1. m \in Mutation /\ m.key \in Key /\ work[s] \in Work /\ pc[s] = "open"
  BY DEF Skip, Turn, TypeOK, Work, Mutation
<1>2. /\ UNCHANGED <<storeVars, pc, mirrorVars, pullVars>>
      /\ work'[s].details = [work[s].details EXCEPT ![m.key] = v]
      /\ work'[s].writes = work[s].writes
      /\ \A t \in Slot \ {s} : work'[t] = work[t]
  BY <1>1 DEF Skip, Skipped, TypeOK, Work
<1>3. DetailsWritten(s)'
  <2> SUFFICES ASSUME NEW k \in Key, work'[s].details[k] # 0
               PROVE  \E w \in log \cup work[s].writes : w.key = k /\ w.version = work'[s].details[k]
    BY <1>1, <1>2 DEF DetailsWritten, storeVars
  <2>1. CASE k = m.key
    BY <1>1, <1>2, <2>1, ViewWritten DEF Work, Versions
  <2>2. CASE k # m.key
    BY <1>1, <1>2, <2>2 DEF Work, Versions, CursorInv, DetailsWritten
  <2> QED
    BY <2>1, <2>2
<1>4. \A t \in Slot : DetailsWritten(t)'
  BY <1>2, <1>3, DetailsFrame DEF CursorInv, storeVars
<1> QED
  BY <1>2, <1>4, CursorFrame

LEMMA AcceptCursor ==
  ASSUME TypeOK, CursorInv, NEW s \in Slot, NEW m, Accept(s, m)
  PROVE  CursorInv'
<1> DEFINE v == NewVersion(s)
           x == [version |-> v, key |-> m.key, client |-> Owner[s], id |-> m.id]
<1>1. m \in Mutation /\ m.key \in Key /\ work[s] \in Work /\ pc[s] = "open"
  BY DEF Accept, Turn, TypeOK, Work, Mutation
<1>2. /\ UNCHANGED <<storeVars, pc, mirrorVars, pullVars>>
      /\ work'[s].details = [work[s].details EXCEPT ![m.key] = v]
      /\ work'[s].writes = work[s].writes \cup {x}
      /\ \A t \in Slot \ {s} : work'[t] = work[t]
  BY <1>1 DEF Accept, Written, TypeOK, Work
<1>3. DetailsWritten(s)'
  <2> SUFFICES ASSUME NEW k \in Key, work'[s].details[k] # 0
               PROVE  \E w \in log \cup work'[s].writes : w.key = k /\ w.version = work'[s].details[k]
    BY <1>1, <1>2 DEF DetailsWritten, storeVars
  <2>1. CASE k = m.key
    <3>1. work'[s].details[k] = v /\ x.key = k /\ x.version = v /\ x \in work'[s].writes
      BY <1>1, <1>2, <2>1 DEF Work, Versions
    <3> QED
      BY <3>1
  <2>2. CASE k # m.key
    BY <1>1, <1>2, <2>2 DEF Work, Versions, CursorInv, DetailsWritten
  <2> QED
    BY <2>1, <2>2
<1>4. \A t \in Slot : DetailsWritten(t)'
  BY <1>2, <1>3, DetailsFrame DEF CursorInv, storeVars
<1> QED
  BY <1>2, <1>4, CursorFrame

LEMMA RejectCursor ==
  ASSUME TypeOK, CursorInv, NEW s \in Slot, NEW m, Reject(s, m)
  PROVE  CursorInv'
<1>1. /\ UNCHANGED <<storeVars, pc, mirrorVars, pullVars>> /\ pc[s] = "open"
      /\ work'[s].details = work[s].details /\ work'[s].writes = work[s].writes
      /\ \A t \in Slot \ {s} : work'[t] = work[t]
  BY DEF Reject, Turn, TypeOK, Work
<1>2. DetailsWritten(s)'
  BY <1>1 DEF DetailsWritten, CursorInv, storeVars
<1>3. \A t \in Slot : DetailsWritten(t)'
  BY <1>1, <1>2, DetailsFrame DEF CursorInv, storeVars
<1> QED
  BY <1>1, <1>3, CursorFrame

\* A commit moves the counter and rows forward, and a row that is not above the
\* old counter afterwards did not move.
LEMMA CommitMoves ==
  ASSUME TypeOK, StoreInv, NEW s \in Slot, Commit(s)
  PROVE  /\ current <= current' /\ current' \in Nat
         /\ \A k \in Key : /\ row'[k].version \in Nat /\ row[k].version <= row'[k].version
                           /\ row'[k].version <= current => row'[k] = row[k]
<1>1. pc[s] = "open" /\ current' = work[s].version /\ \A k \in Key : row'[k] = View(s, k)
  BY DEF Commit
<1>2. current <= current' /\ current \in Nat /\ current' \in Nat
  BY <1>1 DEF StoreInv, OpenWrites, TypeOK, Work
<1> SUFFICES ASSUME NEW k \in Key
             PROVE  /\ row'[k].version \in Nat /\ row[k].version <= row'[k].version
                    /\ row'[k].version <= current => row'[k] = row[k]
  BY <1>2
<1>3. row'[k].version \in Nat /\ row[k].version <= row'[k].version
  BY <1>1, ViewType, ViewGrows DEF Row
<1>4. ASSUME work[s].rows[k].version # 0 PROVE current < row'[k].version
  <2>1. PICK w \in work[s].writes : w.key = k /\ w.version = work[s].rows[k].version
    BY <1>1, <1>4 DEF StoreInv, OpenWrites
  <2>2. current < w.version
    BY <1>1 DEF StoreInv, OpenWrites
  <2> QED
    BY <1>1, <1>4, <2>1, <2>2 DEF View
<1>5. work[s].rows[k].version = 0 => row'[k] = row[k]
  BY <1>1 DEF View
<1> QED
  BY <1>2, <1>3, <1>4, <1>5

LEMMA CommitCursor ==
  ASSUME TypeOK, StoreInv, CursorInv, NEW s \in Slot, Commit(s)
  PROVE  CursorInv'
<1>1. UNCHANGED <<mirrorVars, pullVars>>
  BY DEF Commit
<1>2. CursorCompleteButMissed'
  <2> SUFFICES ASSUME NEW c \in Client, NEW k \in Key, row'[k].version <= cursor[c][ResourceOf[k]]
               PROVE  held[c][k] = row'[k].version \/ k \in missed[c]
    BY <1>1 DEF CursorCompleteButMissed, mirrorVars, pullVars
  <2>1. ResourceOf[k] \in Resource
    BY ResourceAssumption
  <2>2. cursor[c][ResourceOf[k]] <= current
    BY <2>1 DEF CursorInv
  <2>3. row'[k].version <= current
    BY <2>1, <2>2, CursorTypes, CommitMoves
  <2>4. row'[k] = row[k]
    BY <2>3, CommitMoves
  <2> QED
    BY <2>4 DEF CursorInv, CursorCompleteButMissed
<1>3. \A t \in Slot : DetailsWritten(t)'
  <2> SUFFICES ASSUME NEW t \in Slot PROVE DetailsWritten(t)'
    OBVIOUS
  <2>1. CASE t = s
    <3>1. /\ work'[s].details = work[s].details /\ work'[s].writes = {}
          /\ log' = log \cup work[s].writes
      BY DEF Commit, Response, NoWork, TypeOK
    <3> QED
      BY <2>1, <3>1 DEF CursorInv, DetailsWritten
  <2>2. CASE t # s
    BY <2>2, DetailsFrame DEF Commit, TypeOK, CursorInv
  <2> QED
    BY <2>1, <2>2
<1>4. \A c \in Client, k \in Key : held'[c][k] <= row'[k].version
  <2> SUFFICES ASSUME NEW c \in Client, NEW k \in Key PROVE held[c][k] <= row'[k].version
    BY <1>1 DEF mirrorVars
  <2>1. held[c][k] <= row[k].version
    BY DEF CursorInv
  <2> QED
    BY <2>1, CursorTypes, CommitMoves
<1>5. \A c \in Client, r \in Resource : cursor'[c][r] <= current' /\ PullSound(c, r)'
  <2> SUFFICES ASSUME NEW c \in Client, NEW r \in Resource
               PROVE  cursor'[c][r] <= current' /\ PullSound(c, r)'
    OBVIOUS
  <2>1. cursor' = cursor /\ pull' = pull
    BY <1>1 DEF pullVars
  <2>2. cursor[c][r] <= current /\ PullSound(c, r)
    BY DEF CursorInv
  <2>3. cursor'[c][r] <= current'
    BY <2>1, <2>2, CursorTypes, CommitMoves
  <2> DEFINE p == pull[c][r]
  <2>4. p.stage # "idle" => p.asOf <= current' /\ p.cursor <= current'
    BY <2>2, CursorTypes, CommitMoves DEF PullSound
  <2>5. ASSUME p.stage # "idle", NEW k \in Key PROVE p.patch[k] <= row'[k].version
    BY <2>2, <2>5, CursorTypes, CommitMoves DEF PullSound
  <2>6. ASSUME p.stage # "idle", NEW k \in Key, row'[k].version <= p.asOf PROVE row'[k] = row[k]
    BY <2>2, <2>6, CursorTypes, CommitMoves DEF PullSound
  <2>7. PullSound(c, r)'
    BY <2>1, <2>2, <2>4, <2>5, <2>6 DEF PullSound
  <2> QED
    BY <2>3, <2>7
<1> QED
  BY <1>2, <1>3, <1>4, <1>5 DEF CursorInv

\* Merging what is not newer than the row leaves a current copy current.
LEMMA MergeBelow ==
  ASSUME NEW known, NEW delivered, NEW k \in Key, NEW v \in Nat,
         known[k] \in Nat, delivered[k] \in Nat, known[k] <= v, delivered[k] <= v
  PROVE  /\ Merge(known, delivered)[k] <= v
         /\ known[k] = v \/ delivered[k] = v => Merge(known, delivered)[k] = v
         /\ delivered[k] = 0 => Merge(known, delivered)[k] = known[k]
BY DEF Merge, Larger

\* What an acknowledgement adds to the client's own content is committed.
LEMMA OwnBelowRow ==
  ASSUME TypeOK, StoreInv, CursorInv, NEW s \in Slot, pc[s] = "done",
         NEW c \in Client, NEW k \in Key
  PROVE  /\ OwnOf(c, work[s].details)[k] \in Nat
         /\ OwnOf(c, work[s].details)[k] <= row[k].version
<1> DEFINE d == work[s].details
           o == OwnOf(c, d)[k]
<1>1. d[k] \in Nat /\ row[k].version \in Nat
  BY CursorTypes DEF TypeOK, Work, Versions
<1>2. o = IF \E w \in log : w.version = d[k] /\ w.client = c THEN d[k] ELSE 0
  BY DEF OwnOf
<1>3. CASE o = 0
  BY <1>1, <1>3
<1>4. CASE o # 0
  <2>1. o = d[k] /\ d[k] # 0
    BY <1>2, <1>4
  <2>2. PICK w \in log : w.key = k /\ w.version = d[k]
    BY <2>1 DEF CursorInv, DetailsWritten
  <2>3. w.version <= row[w.key].version
    BY DEF StoreInv, RowIsNewestWrite
  <2> QED
    BY <1>1, <2>1, <2>2, <2>3
<1> QED
  BY <1>3, <1>4

LEMMA AckCursor ==
  ASSUME TypeOK, StoreInv, CursorInv, NEW c \in Client, ReceiveAck(c)
  PROVE  CursorInv'
<1> DEFINE s == awaiting[c]
           own == OwnOf(c, work[s].details)
<1>1. s \in Slot /\ pc[s] = "done" /\ Vacate(s) /\ UNCHANGED <<storeVars, pullVars>>
      /\ held' = [held EXCEPT ![c] = Merge(held[c], own)]
  BY DEF ReceiveAck, TypeOK
<1>2. \A k \in Key : /\ held[c][k] <= row[k].version
                     /\ held'[c][k] <= row[k].version
                     /\ held[c][k] = row[k].version => held'[c][k] = row[k].version
  <2> SUFFICES ASSUME NEW k \in Key
               PROVE  /\ held[c][k] <= row[k].version
                      /\ held'[c][k] <= row[k].version
                      /\ held[c][k] = row[k].version => held'[c][k] = row[k].version
    OBVIOUS
  <2>1. own[k] \in Nat /\ own[k] <= row[k].version
    BY <1>1, OwnBelowRow
  <2>2. held[c][k] \in Nat /\ row[k].version \in Nat /\ held[c][k] <= row[k].version
    BY CursorTypes DEF CursorInv
  <2>3. held'[c] = Merge(held[c], own)
    BY <1>1 DEF TypeOK
  <2> QED
    BY <2>1, <2>2, <2>3, MergeBelow
<1>3. \A d \in Client \ {c} : held'[d] = held[d]
  BY <1>1 DEF TypeOK
<1>4. CursorCompleteButMissed'
  <2> SUFFICES ASSUME NEW d \in Client, NEW k \in Key, row[k].version <= cursor[d][ResourceOf[k]]
               PROVE  held'[d][k] = row[k].version \/ k \in missed[d]
    BY <1>1 DEF CursorCompleteButMissed, storeVars, pullVars
  <2>1. held[d][k] = row[k].version \/ k \in missed[d]
    BY DEF CursorInv, CursorCompleteButMissed
  <2> QED
    BY <1>2, <1>3, <2>1
<1>5. \A d \in Client, k \in Key : held'[d][k] <= row'[k].version
  BY <1>1, <1>2, <1>3 DEF CursorInv, storeVars
<1>6. \A t \in Slot : DetailsWritten(t)'
  BY <1>1, VacateCursor DEF storeVars
<1>7. \A d \in Client, r \in Resource : cursor'[d][r] <= current' /\ PullSound(d, r)'
  BY <1>1 DEF CursorInv, PullSound, storeVars, pullVars
<1> QED
  BY <1>4, <1>5, <1>6, <1>7 DEF CursorInv

\* A step on the answer a client waits for: only that answer has to be sound.
LEMMA PullFrame ==
  ASSUME TypeOK, CursorInv, UNCHANGED <<storeVars, pushVars, mirrorVars, cursor, missed>>,
         NEW c \in Client, NEW r \in Resource, NEW p, pull' = [pull EXCEPT ![c][r] = p],
         PullSound(c, r)'
  PROVE  CursorInv'
<1>1. \A d \in Client, q \in Resource : d # c \/ q # r => pull'[d][q] = pull[d][q]
  BY DEF TypeOK
<1>2. \A d \in Client, q \in Resource : PullSound(d, q)'
  <2> SUFFICES ASSUME NEW d \in Client, NEW q \in Resource, d # c \/ q # r PROVE PullSound(d, q)'
    OBVIOUS
  <2>1. PullSound(d, q) /\ pull'[d][q] = pull[d][q]
    BY <1>1 DEF CursorInv
  <2> QED
    BY <2>1 DEF PullSound, storeVars
<1>3. \A s \in Slot : DetailsWritten(s)'
  BY DEF CursorInv, DetailsWritten, storeVars, pushVars
<1> QED
  BY <1>2, <1>3 DEF CursorInv, CursorCompleteButMissed, storeVars, mirrorVars

LEMMA PullRowsCursor ==
  ASSUME TypeOK, StoreInv, CursorInv, NEW c \in Client, NEW r \in Resource, PullRows(c, r)
  PROVE  CursorInv'
<1> DEFINE ks == RowsAfter(r, cursor[c][r])
<1>1. UNCHANGED <<storeVars, pushVars, mirrorVars, cursor, missed>>
  BY DEF PullRows
<1>2. \A k \in Key : row[k].version \in Nat /\ row[k].version <= current
  BY RowBelowCurrent DEF StoreInv
<1>3. current \in Nat /\ cursor[c][r] \in Nat /\ ks \subseteq Key
  BY CursorTypes DEF RowsAfter
<1>4. \A k \in Key : ResourceOf[k] = r /\ k \notin ks => row[k].version <= cursor[c][r]
  BY <1>2, <1>3 DEF RowsAfter
<1>5. \A k \in ks : ResourceOf[k] = r
  BY DEF RowsAfter
<1>6. CASE ks # {}
  <2>1. PICK j \in ks : pull' = [pull EXCEPT ![c][r] =
                  [stage |-> "replied", asOf |-> current, cursor |-> row[j].version, patch |-> Patch(ks)]]
    BY <1>6 DEF PullRows
  <2> DEFINE p == [stage |-> "replied", asOf |-> current, cursor |-> row[j].version, patch |-> Patch(ks)]
  <2>2. pull'[c][r] = p
    BY <2>1 DEF TypeOK
  <2>3. \A k \in Key : p.patch[k] = IF k \in ks THEN row[k].version ELSE 0
    BY DEF Patch
  <2>4. PullSound(c, r)'
    BY <1>1, <1>2, <1>3, <1>4, <1>5, <2>2, <2>3 DEF PullSound, storeVars
  <2> QED
    BY <1>1, <2>1, <2>4, PullFrame
<1>7. CASE ks = {}
  <2> DEFINE p == [stage |-> "counting", asOf |-> current, cursor |-> 0, patch |-> None]
  <2>1. pull' = [pull EXCEPT ![c][r] = p]
    BY <1>7 DEF PullRows
  <2>2. pull'[c][r] = p
    BY <2>1 DEF TypeOK
  <2>3. \A k \in Key : None[k] = 0
    BY DEF None
  <2>4. PullSound(c, r)'
    BY <1>1, <1>2, <1>3, <1>4, <1>7, <2>2, <2>3 DEF PullSound, storeVars
  <2> QED
    BY <1>1, <2>1, <2>4, PullFrame
<1> QED
  BY <1>6, <1>7

LEMMA PullVersionCursor ==
  ASSUME TypeOK, CursorInv, NEW c \in Client, NEW r \in Resource, PullVersion(c, r)
  PROVE  CursorInv'
<1> DEFINE p == pull[c][r]
           q == [p EXCEPT !.stage = "replied", !.cursor = current]
<1>1. UNCHANGED <<storeVars, pushVars, mirrorVars, cursor, missed>> /\ p.stage = "counting"
  BY DEF PullVersion
<1>2. pull' = [pull EXCEPT ![c][r] = q]
  BY DEF PullVersion, TypeOK
<1>3. pull'[c][r] = q /\ p \in Pull /\ current \in Nat
  BY <1>2 DEF TypeOK
<1>4. q.stage = "replied" /\ q.cursor = current /\ q.asOf = p.asOf /\ q.patch = p.patch
  BY <1>3 DEF Pull
<1>5. PullSound(c, r)
  BY DEF CursorInv
<1>6. PullSound(c, r)'
  BY <1>1, <1>3, <1>4, <1>5 DEF PullSound, storeVars
<1> QED
  BY <1>1, <1>2, <1>6, PullFrame

LEMMA LosePullCursor ==
  ASSUME TypeOK, CursorInv, NEW c \in Client, NEW r \in Resource, LosePull(c, r)
  PROVE  CursorInv'
<1>1. UNCHANGED <<storeVars, pushVars, mirrorVars, cursor, missed>>
      /\ pull' = [pull EXCEPT ![c][r] = NoPull]
  BY DEF LosePull
<1>2. PullSound(c, r)'
  BY <1>1 DEF PullSound, NoPull, TypeOK
<1> QED
  BY <1>1, <1>2, PullFrame

\* The heart of the matter: moving the cursor to what the answer says leaves no
\* hole but the writes an empty answer stepped over.
LEMMA ReceivedComplete ==
  ASSUME TypeOK, StoreInv, CursorInv, NEW c \in Client, NEW r \in Resource, ReceivePull(c, r),
         NEW k \in Key, ResourceOf[k] = r, row[k].version <= pull[c][r].cursor
  PROVE  held'[c][k] = row[k].version \/ k \in missed'[c]
<1> DEFINE p == pull[c][r]
           v == row[k].version
<1>1. /\ held'[c] = Merge(held[c], p.patch) /\ p.stage = "replied"
      /\ missed'[c] = {j \in missed[c] : p.patch[j] = 0} \cup SteppedOver(p, r)
  BY DEF ReceivePull, TypeOK
<1>2. /\ held[c][k] \in Nat /\ v \in Nat /\ p.patch[k] \in Nat /\ cursor[c][r] \in Nat
      /\ p.asOf \in Nat /\ p.cursor \in Nat
      /\ held[c][k] <= v
  BY CursorTypes DEF CursorInv
<1>3. PullSound(c, r) /\ p.patch[k] <= v
  BY <1>1 DEF CursorInv, PullSound
<1>4. /\ held[c][k] = v \/ p.patch[k] = v => held'[c][k] = v
      /\ p.patch[k] = 0 => held'[c][k] = held[c][k]
  BY <1>1, <1>2, <1>3, MergeBelow
<1>5. CASE v <= p.asOf
  <2>1. p.patch[k] = v \/ (p.patch[k] = 0 /\ v <= cursor[c][r])
    BY <1>1, <1>3, <1>5 DEF PullSound
  <2>2. CASE p.patch[k] = v
    BY <1>4, <2>2
  <2>3. CASE p.patch[k] = 0 /\ v <= cursor[c][r]
    <3>1. held[c][k] = v \/ k \in missed[c]
      BY <2>3 DEF CursorInv, CursorCompleteButMissed
    <3> QED
      BY <1>1, <1>4, <2>3, <3>1
  <2> QED
    BY <2>1, <2>2, <2>3
<1>6. CASE p.asOf < v
  <2>1. p.patch = None
    BY <1>1, <1>2, <1>3, <1>6 DEF PullSound
  <2>2. v # 0
    BY <1>2, <1>6
  <2>3. PICK w \in log : w.key = k /\ w.version = v
    BY <2>2 DEF StoreInv, RowIsNewestWrite
  <2>4. k \in SteppedOver(p, r)
    BY <1>6, <2>1, <2>3 DEF SteppedOver
  <2> QED
    BY <1>1, <2>4
<1> QED
  BY <1>2, <1>5, <1>6

LEMMA ReceivePullCursor ==
  ASSUME TypeOK, StoreInv, CursorInv, NEW c \in Client, NEW r \in Resource, ReceivePull(c, r)
  PROVE  CursorInv'
<1> DEFINE p == pull[c][r]
<1>1. /\ UNCHANGED <<storeVars, pushVars>> /\ p.stage = "replied"
      /\ held'[c] = Merge(held[c], p.patch) /\ cursor'[c][r] = p.cursor
      /\ missed'[c] = {j \in missed[c] : p.patch[j] = 0} \cup SteppedOver(p, r)
      /\ pull'[c][r] = NoPull
  BY DEF ReceivePull, TypeOK
<1>2. /\ \A d \in Client \ {c} : /\ held'[d] = held[d] /\ missed'[d] = missed[d]
                                 /\ cursor'[d] = cursor[d] /\ pull'[d] = pull[d]
      /\ \A q \in Resource \ {r} : cursor'[c][q] = cursor[c][q] /\ pull'[c][q] = pull[c][q]
  BY DEF ReceivePull, TypeOK
<1>3. PullSound(c, r) /\ current \in Nat /\ p.cursor <= current
  BY <1>1, CursorTypes DEF CursorInv, PullSound
<1>4. \A k \in Key : /\ held[c][k] \in Nat /\ p.patch[k] \in Nat /\ row[k].version \in Nat
                     /\ held[c][k] <= row[k].version /\ p.patch[k] <= row[k].version
  BY <1>1, <1>3, CursorTypes DEF CursorInv, PullSound
<1>5. CursorCompleteButMissed'
  <2> SUFFICES ASSUME NEW d \in Client, NEW k \in Key, row[k].version <= cursor'[d][ResourceOf[k]]
               PROVE  held'[d][k] = row[k].version \/ k \in missed'[d]
    BY <1>1 DEF CursorCompleteButMissed, storeVars
  <2>0. ResourceOf[k] \in Resource
    BY ResourceAssumption
  <2>1. CASE d # c
    BY <1>2, <2>1 DEF CursorInv, CursorCompleteButMissed
  <2>2. CASE d = c /\ ResourceOf[k] = r
    BY <1>1, <2>2, ReceivedComplete
  <2>3. CASE d = c /\ ResourceOf[k] # r
    <3>1. held[c][k] = row[k].version \/ k \in missed[c]
      BY <1>2, <2>0, <2>3 DEF CursorInv, CursorCompleteButMissed
    <3>2. p.patch[k] = 0
      BY <1>1, <1>3, <2>3 DEF PullSound
    <3>3. held'[c][k] = held[c][k]
      BY <1>1, <1>4, <3>2, MergeBelow
    <3> QED
      BY <1>1, <2>3, <3>1, <3>2, <3>3
  <2> QED
    BY <2>1, <2>2, <2>3
<1>6. \A d \in Client, k \in Key : held'[d][k] <= row'[k].version
  <2> SUFFICES ASSUME NEW d \in Client, NEW k \in Key PROVE held'[d][k] <= row[k].version
    BY <1>1 DEF storeVars
  <2>1. CASE d = c
    BY <1>1, <1>4, <2>1, MergeBelow
  <2>2. CASE d # c
    BY <1>2, <2>2 DEF CursorInv
  <2> QED
    BY <2>1, <2>2
<1>7. \A s \in Slot : DetailsWritten(s)'
  BY <1>1 DEF CursorInv, DetailsWritten, storeVars, pushVars
<1>8. \A d \in Client, q \in Resource : cursor'[d][q] <= current' /\ PullSound(d, q)'
  <2> SUFFICES ASSUME NEW d \in Client, NEW q \in Resource
               PROVE  cursor'[d][q] <= current /\ PullSound(d, q)'
    BY <1>1 DEF storeVars
  <2>1. CASE d = c /\ q = r
    BY <1>1, <1>3, <2>1 DEF PullSound, NoPull
  <2>2. CASE d # c \/ q # r
    <3>1. cursor'[d][q] = cursor[d][q] /\ pull'[d][q] = pull[d][q]
      BY <1>2, <2>2
    <3>2. cursor[d][q] <= current /\ PullSound(d, q)
      BY DEF CursorInv
    <3> QED
      BY <1>1, <3>1, <3>2 DEF PullSound, storeVars
  <2> QED
    BY <2>1, <2>2
<1> QED
  BY <1>5, <1>6, <1>7, <1>8 DEF CursorInv

LEMMA CursorNext == TypeOK /\ StoreInv /\ CursorInv /\ [Next]_vars => CursorInv'
<1> SUFFICES ASSUME TypeOK, StoreInv, CursorInv, [Next]_vars PROVE CursorInv'
  OBVIOUS
<1>1. CASE \E s \in Slot : Commit(s)
  BY <1>1, CommitCursor
<1>2. CASE \E s \in Slot : Begin(s)
  BY <1>2, OpenedCursor, CursorFrame DEF Begin
<1>3. CASE \E s \in Slot, r \in Resource : BeginWipe(s, r)
  BY <1>3, OpenedCursor, CursorFrame DEF BeginWipe
<1>4. CASE \E s \in Slot : Abort(s) \/ Discard(s)
  <2>1. PICK s \in Slot : Abort(s) \/ Discard(s)
    BY <1>4
  <2>2. Vacate(s) /\ UNCHANGED <<storeVars, mirrorVars, pullVars>>
    BY <2>1 DEF Abort, Discard
  <2>3. log \subseteq log'
    BY <2>2 DEF storeVars
  <2> QED
    BY <2>2, <2>3, VacateCursor, CursorFrame
<1>5. CASE \E s \in Slot : Apply(s)
  BY <1>5, SkipCursor, AcceptCursor, RejectCursor DEF Apply
<1>6. CASE \E c \in Client, s \in Slot : Send(c, s)
  <2>1. PICK c \in Client, s \in Slot : Send(c, s)
    BY <1>6
  <2>2. UNCHANGED <<storeVars, work, mirrorVars, pullVars>> /\ pc' = [pc EXCEPT ![s] = "sent"]
    BY <2>1 DEF Send
  <2>3. \A t \in Slot : DetailsWritten(t)'
    BY <2>2, DetailsFrame DEF CursorInv, TypeOK, storeVars
  <2> QED
    BY <2>2, <2>3, CursorFrame
<1>7. CASE \E c \in Client : ReceiveAck(c)
  BY <1>7, AckCursor
<1>8. CASE \E c \in Client, r \in Resource :
             PullRows(c, r) \/ PullVersion(c, r) \/ ReceivePull(c, r) \/ LosePull(c, r)
  BY <1>8, PullRowsCursor, PullVersionCursor, ReceivePullCursor, LosePullCursor
<1>9. CASE \/ \E c \in Client, k \in Key, op \in Op : Edit(c, k, op)
           \/ \E c \in Client : Timeout(c)
           \/ UNCHANGED vars
  <2>1. UNCHANGED <<storeVars, pushVars, mirrorVars, pullVars>>
    BY <1>9 DEF Edit, Timeout, vars
  <2>2. \A t \in Slot : DetailsWritten(t)'
    BY <2>1 DEF CursorInv, DetailsWritten, storeVars, pushVars
  <2> QED
    BY <2>1, <2>2, CursorFrame
<1> QED
  BY <1>1, <1>2, <1>3, <1>4, <1>5, <1>6, <1>7, <1>8, <1>9 DEF Next

LEMMA CursorInvariant == Spec => []CursorInv
BY CursorInit, CursorNext, TypeCorrect, StoreInvariant, PTL DEF Spec

\* Every row at or below a client's cursor is in its hands in the present
\* version, unless an empty pull stepped over it, whatever pushes, wipes, other
\* pulls and losses happen between the reads and the answer.
THEOREM CursorHasNoOtherHoles == Spec => []CursorCompleteButMissed
<1>1. CursorInv => CursorCompleteButMissed
  BY DEF CursorInv
<1> QED
  BY <1>1, CursorInvariant, PTL
===============================================================================
