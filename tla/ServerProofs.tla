---------------------------- MODULE ServerProofs ----------------------------
(***************************************************************************)
(* Proofs about Server for any plugins, devices, clocks, accounts, phones, *)
(* processes and bounds.  Each part has its invariant; a step of the server *)
(* is a step of one part, and leaves the others' variables as they are.     *)
(***************************************************************************)
EXTENDS Server, SequenceTheorems, TLAPS

-----------------------------------------------------------------------------
(* Push tokens *)

\* A registration that has met no other has under its hand every row there is.
AlonesSeeAll ==
  \A t \in Token : \A r \in Phones!Busy(t) :
    reg[r].alone => Phones!Busy(t) = {r} /\ owner[t] \subseteq reg[r].rows

PhonesInv ==
  /\ Phones!TypeOK
  /\ AlonesSeeAll
  /\ Phones!OneOwner

LEMMA PhonesInit == Phones!Init => PhonesInv
<1> SUFFICES ASSUME Phones!Init PROVE PhonesInv
  OBVIOUS
<1>1. Phones!TypeOK
  BY DEF Phones!Init, Phones!TypeOK, Phones!Idle
<1>2. AlonesSeeAll
  BY DEF Phones!Init, Phones!Idle, Phones!Busy, AlonesSeeAll
<1>3. Phones!OneOwner
  BY DEF Phones!Init, Phones!OneOwner
<1> QED
  BY <1>1, <1>2, <1>3 DEF PhonesInv

\* What a request is, between two steps.
LEMMA RegTypes ==
  ASSUME Phones!TypeOK, NEW r \in Request
  PROVE  /\ reg[r].at \in {"idle", "delete", "insert", "commit"}
         /\ reg[r].at = "idle" <=> reg[r] = Phones!Idle
         /\ reg[r].at # "idle" => reg[r] \in Phones!Transaction
<1>1. reg[r] \in {Phones!Idle} \cup Phones!Transaction
  BY DEF Phones!TypeOK
<1> QED
  BY <1>1 DEF Phones!Idle, Phones!Transaction

LEMMA PhonesTypeNext == Phones!TypeOK /\ Phones!Next => Phones!TypeOK'
<1> SUFFICES ASSUME Phones!TypeOK, Phones!Next PROVE Phones!TypeOK'
  OBVIOUS
<1>1. \A r \in Request : Phones!Idle \in {Phones!Idle} \cup Phones!Transaction
  OBVIOUS
<1>2. ASSUME NEW r \in Request, NEW u \in User, NEW t \in Token, Phones!Begin(r, u, t)
      PROVE  Phones!TypeOK'
  <2>1. owner[t] \in SUBSET User
    BY DEF Phones!TypeOK
  <2>2. [at |-> "delete", user |-> u, token |-> t, rows |-> Phones!Targets(u, t), alone |-> Phones!Busy(t) = {}]
          \in Phones!Transaction
    BY <2>1 DEF Phones!Targets, Phones!Transaction
  <2>3. \A q \in Phones!Busy(t) : [reg[q] EXCEPT !.alone = FALSE] \in Phones!Transaction
    BY RegTypes DEF Phones!Busy, Phones!Transaction
  <2>4. \A q \in Request : reg'[q] \in {Phones!Idle} \cup Phones!Transaction
    BY <1>2, <2>2, <2>3 DEF Phones!Begin, Phones!TypeOK
  <2> QED
    BY <1>2, <2>4 DEF Phones!Begin, Phones!TypeOK
<1>3. ASSUME NEW r \in Request, Phones!DeleteRows(r)
      PROVE  Phones!TypeOK'
  <2>1. [reg[r] EXCEPT !.at = "insert", !.rows = @ \cap owner[reg[r].token]] \in Phones!Transaction
    BY <1>3, RegTypes DEF Phones!DeleteRows, Phones!Transaction
  <2> QED
    BY <1>3, <2>1 DEF Phones!DeleteRows, Phones!TypeOK
<1>4. ASSUME NEW r \in Request, Phones!Insert(r)
      PROVE  Phones!TypeOK'
  <2>1. [reg[r] EXCEPT !.at = "commit"] \in Phones!Transaction
    BY <1>4, RegTypes DEF Phones!Insert, Phones!Transaction
  <2> QED
    BY <1>4, <2>1 DEF Phones!Insert, Phones!TypeOK
<1>5. ASSUME NEW r \in Request, Phones!Commit(r)
      PROVE  Phones!TypeOK'
  <2>1. reg[r].token \in Token /\ reg[r].user \in User
    BY <1>5, RegTypes DEF Phones!Commit, Phones!Transaction
  <2>2. owner[reg[r].token] \in SUBSET User
    BY <2>1 DEF Phones!TypeOK
  <2> QED
    BY <1>5, <2>1, <2>2 DEF Phones!Commit, Phones!TypeOK
<1>6. ASSUME NEW r \in Request, Phones!Rollback(r)
      PROVE  Phones!TypeOK'
  BY <1>6 DEF Phones!Rollback, Phones!TypeOK
<1>7. ASSUME NEW u \in User, NEW t \in Token, Phones!Unregister(u, t)
      PROVE  Phones!TypeOK'
  BY <1>7 DEF Phones!Unregister, Phones!TypeOK
<1> QED
  BY <1>2, <1>3, <1>4, <1>5, <1>6, <1>7 DEF Phones!Next

\* A step of one request that keeps its token leaves who is busy as it is, or
\* takes that request out.
LEMMA BusyAfter ==
  ASSUME Phones!TypeOK, NEW r \in Request, NEW x, reg' = [reg EXCEPT ![r] = x],
         x = Phones!Idle \/ (x.at # "idle" /\ reg[r].at # "idle" /\ x.token = reg[r].token)
  PROVE  \A t \in Token : Phones!Busy(t)' = IF x = Phones!Idle THEN Phones!Busy(t) \ {r} ELSE Phones!Busy(t)
<1>1. reg'[r] = x /\ \A q \in Request \ {r} : reg'[q] = reg[q]
  BY DEF Phones!TypeOK
<1> QED
  BY <1>1 DEF Phones!Busy, Phones!Idle

LEMMA PhonesNext == PhonesInv /\ Phones!Next => PhonesInv'
<1> SUFFICES ASSUME PhonesInv, Phones!Next PROVE PhonesInv'
  OBVIOUS
<1>1. Phones!TypeOK /\ Phones!TypeOK'
  BY PhonesTypeNext DEF PhonesInv
<1>2. \A r \in Request : reg[r].at # "idle" => reg[r].token \in Token /\ reg[r].user \in User
  BY <1>1, RegTypes DEF Phones!Transaction
<1> SUFFICES AlonesSeeAll' /\ Phones!OneOwner'
  BY <1>1 DEF PhonesInv
<1>3. ASSUME NEW r \in Request, NEW u \in User, NEW t \in Token, Phones!Begin(r, u, t)
      PROVE  AlonesSeeAll' /\ Phones!OneOwner'
  <2>1. UNCHANGED <<owner, overlapped>> /\ reg[r].at = "idle"
    BY <1>3 DEF Phones!Begin
  <2>2. /\ reg'[r].at = "delete" /\ reg'[r].token = t /\ reg'[r].rows = owner[t]
        /\ reg'[r].alone <=> Phones!Busy(t) = {}
    BY <1>3 DEF Phones!Begin, Phones!Targets
  <2>3. \A q \in Phones!Busy(t) : q # r /\ reg'[q].at = reg[q].at /\ reg'[q].token = t /\ ~reg'[q].alone
    <3> TAKE q \in Phones!Busy(t)
    <3>1. q # r /\ q \in Request /\ reg[q] \in Phones!Transaction /\ reg[q].token = t
      BY <1>1, <2>1, RegTypes DEF Phones!Busy
    <3>2. reg'[q] = [reg[q] EXCEPT !.alone = FALSE]
      BY <1>3, <3>1 DEF Phones!Begin
    <3> QED
      BY <3>1, <3>2 DEF Phones!Transaction
  <2>4. \A q \in Request \ ({r} \cup Phones!Busy(t)) : reg'[q] = reg[q]
    BY <1>3 DEF Phones!Begin
  <2>5. /\ Phones!Busy(t)' = Phones!Busy(t) \cup {r}
        /\ \A s \in Token \ {t} : Phones!Busy(s)' = Phones!Busy(s) /\ \A q \in Phones!Busy(s) : reg'[q] = reg[q]
    BY <2>1, <2>2, <2>3, <2>4 DEF Phones!Busy
  <2>6. ASSUME NEW s \in Token, NEW q \in Phones!Busy(s)', reg'[q].alone
        PROVE  Phones!Busy(s)' = {q} /\ owner'[s] \subseteq reg'[q].rows
    <3>1. CASE s = t
      BY <2>1, <2>2, <2>3, <2>5, <2>6, <3>1
    <3>2. CASE s # t
      BY <2>1, <2>5, <2>6, <3>2 DEF PhonesInv, AlonesSeeAll
    <3> QED
      BY <3>1, <3>2
  <2> QED
    BY <2>1, <2>6 DEF PhonesInv, AlonesSeeAll, Phones!OneOwner
<1>4. ASSUME NEW r \in Request, NEW x, reg' = [reg EXCEPT ![r] = x], reg[r].at # "idle",
             \/ x = Phones!Idle
             \/ /\ x.at # "idle" /\ x.token = reg[r].token /\ x.alone = reg[r].alone
                /\ reg[r].rows \cap owner[reg[r].token] \subseteq x.rows,
             UNCHANGED <<owner, overlapped>>
      PROVE  AlonesSeeAll' /\ Phones!OneOwner'
  <2>1. reg'[r] = x /\ \A q \in Request \ {r} : reg'[q] = reg[q]
    BY <1>1, <1>4 DEF Phones!TypeOK
  <2>2. \A s \in Token : Phones!Busy(s)' = IF x = Phones!Idle THEN Phones!Busy(s) \ {r} ELSE Phones!Busy(s)
    BY <1>1, <1>4, BusyAfter
  <2>3. ASSUME NEW s \in Token, NEW q \in Phones!Busy(s)', reg'[q].alone
        PROVE  Phones!Busy(s)' = {q} /\ owner'[s] \subseteq reg'[q].rows
    <3>1. q \in Phones!Busy(s) /\ (q = r => x # Phones!Idle)
      BY <2>2, <2>3
    <3>2. reg[q].alone
      BY <1>4, <2>1, <2>3, <3>1 DEF Phones!Busy
    <3>3. Phones!Busy(s) = {q} /\ owner[s] \subseteq reg[q].rows
      BY <3>1, <3>2 DEF PhonesInv, AlonesSeeAll
    <3>4. owner[s] \subseteq reg'[q].rows
      BY <1>4, <2>1, <3>1, <3>3 DEF Phones!Busy
    <3> QED
      BY <1>4, <2>2, <2>3, <3>1, <3>3, <3>4
  <2> QED
    BY <1>4, <2>3 DEF PhonesInv, AlonesSeeAll, Phones!OneOwner
<1>5. ASSUME NEW r \in Request, Phones!DeleteRows(r)
      PROVE  AlonesSeeAll' /\ Phones!OneOwner'
  <2>1. reg[r] \in Phones!Transaction /\ reg[r].at # "idle"
    BY <1>1, <1>5, RegTypes DEF Phones!DeleteRows
  <2>2. PICK x : x = [reg[r] EXCEPT !.at = "insert", !.rows = @ \cap owner[reg[r].token]]
    OBVIOUS
  <2>3. /\ x.at # "idle" /\ x.token = reg[r].token /\ x.alone = reg[r].alone
        /\ x.rows = reg[r].rows \cap owner[reg[r].token]
    BY <2>1, <2>2 DEF Phones!Transaction
  <2>4. reg' = [reg EXCEPT ![r] = x] /\ UNCHANGED <<owner, overlapped>>
    BY <1>1, <1>5, <2>2 DEF Phones!DeleteRows, Phones!TypeOK
  <2> QED
    BY <1>4, <2>1, <2>3, <2>4
<1>6. ASSUME NEW r \in Request, Phones!Insert(r)
      PROVE  AlonesSeeAll' /\ Phones!OneOwner'
  <2>1. reg[r] \in Phones!Transaction /\ reg[r].at # "idle"
    BY <1>1, <1>6, RegTypes DEF Phones!Insert
  <2>2. PICK x : x = IF reg[r].user \in owner[reg[r].token] \ reg[r].rows
                     THEN Phones!Idle ELSE [reg[r] EXCEPT !.at = "commit"]
    OBVIOUS
  <2>3. x # Phones!Idle => /\ x.at # "idle" /\ x.token = reg[r].token /\ x.alone = reg[r].alone
                           /\ x.rows = reg[r].rows
    BY <2>1, <2>2 DEF Phones!Transaction
  <2>4. reg' = [reg EXCEPT ![r] = x] /\ UNCHANGED <<owner, overlapped>>
    BY <1>1, <1>6, <2>2 DEF Phones!Insert, Phones!TypeOK
  <2> QED
    BY <1>4, <2>1, <2>3, <2>4
<1>7. ASSUME NEW r \in Request, Phones!Rollback(r)
      PROVE  AlonesSeeAll' /\ Phones!OneOwner'
  BY <1>4, <1>7 DEF Phones!Rollback
<1>8. ASSUME NEW r \in Request, Phones!Commit(r)
      PROVE  AlonesSeeAll' /\ Phones!OneOwner'
  <2>1. PICK t \in Token : t = reg[r].token
    BY <1>2, <1>8 DEF Phones!Commit
  <2>2. /\ reg[r].at = "commit"
        /\ owner' = [owner EXCEPT ![t] = (@ \ reg[r].rows) \cup {reg[r].user}]
        /\ overlapped' = IF reg[r].alone THEN overlapped \ {t} ELSE overlapped \cup {t}
        /\ reg' = [reg EXCEPT ![r] = Phones!Idle]
    BY <1>8, <2>1 DEF Phones!Commit
  <2>3. /\ reg'[r] = Phones!Idle /\ \A q \in Request \ {r} : reg'[q] = reg[q]
        /\ owner'[t] = (owner[t] \ reg[r].rows) \cup {reg[r].user}
        /\ \A s \in Token \ {t} : owner'[s] = owner[s]
    BY <1>1, <2>1, <2>2 DEF Phones!TypeOK
  <2>4. \A s \in Token : Phones!Busy(s)' = Phones!Busy(s) \ {r}
    BY <1>1, <2>2, BusyAfter
  <2>5. r \in Phones!Busy(t)
    BY <2>1, <2>2 DEF Phones!Busy
  <2>6. ASSUME NEW s \in Token, NEW q \in Phones!Busy(s)', reg'[q].alone
        PROVE  Phones!Busy(s)' = {q} /\ owner'[s] \subseteq reg'[q].rows
    <3>1. q # r /\ q \in Phones!Busy(s) /\ q \in Request
      BY <2>4, <2>6 DEF Phones!Busy
    <3>2. reg'[q] = reg[q]
      BY <2>3, <3>1
    <3>3. Phones!Busy(s) = {q} /\ owner[s] \subseteq reg[q].rows
      BY <2>6, <3>1, <3>2 DEF PhonesInv, AlonesSeeAll
    <3>4. s # t
      BY <2>5, <3>1, <3>3
    <3> QED
      BY <2>3, <2>4, <3>1, <3>2, <3>3, <3>4
  <2>7. AlonesSeeAll'
    BY <2>6 DEF AlonesSeeAll
  <2>8. ASSUME NEW s \in Token, s \notin overlapped'
        PROVE  \A u, v \in owner'[s] : u = v
    <3>1. CASE s = t
      <4>1. reg[r].alone
        BY <2>2, <2>8, <3>1
      <4>2. owner'[t] = {reg[r].user}
        BY <2>3, <2>5, <4>1 DEF PhonesInv, AlonesSeeAll
      <4> QED
        BY <3>1, <4>2
    <3>2. CASE s # t
      BY <2>2, <2>3, <2>8, <3>2 DEF PhonesInv, Phones!OneOwner
    <3> QED
      BY <3>1, <3>2
  <2> QED
    BY <2>7, <2>8 DEF Phones!OneOwner
<1>9. ASSUME NEW u \in User, NEW t \in Token, Phones!Unregister(u, t)
      PROVE  AlonesSeeAll' /\ Phones!OneOwner'
  <2>1. UNCHANGED <<reg, overlapped>> /\ \A s \in Token : owner'[s] \subseteq owner[s]
    BY <1>1, <1>9 DEF Phones!Unregister, Phones!TypeOK
  <2>2. \A s \in Token : Phones!Busy(s)' = Phones!Busy(s)
    BY <2>1 DEF Phones!Busy
  <2>3. AlonesSeeAll'
    BY <2>1, <2>2 DEF PhonesInv, AlonesSeeAll
  <2> QED
    BY <2>1, <2>3 DEF PhonesInv, Phones!OneOwner
<1> QED
  BY <1>3, <1>5, <1>6, <1>7, <1>8, <1>9 DEF Phones!Next

-----------------------------------------------------------------------------
(* The challenges of password logins *)

\* A challenge that waits to be stored is known to nobody yet.
FreshInStore ==
  \A r \in Request : step[r].at = "store" =>
    /\ step[r].n <= made /\ step[r].n \notin offered
    /\ \A q \in Request \ {r} : step[q].at = "store" => step[q].n # step[r].n

\* What was handed out was made and stored before.
OfferedWereMade ==
  /\ \A n \in offered : n <= made
  /\ pending # 0 => pending \in offered
  /\ \A r \in Request : step[r].at = "verify" => step[r].n \in offered /\ step[r].stored \in offered
  /\ \A n \in Logins!Challenge : wins[n] # 0 => n \in offered

\* Two verifies of one challenge are pipelined, and one that follows a login
\* with it finds another challenge or none.
Verifies(n) == {r \in Request : step[r].at = "verify" /\ step[r].n = n}
UsedUp ==
  \A n \in Logins!Challenge \ pipelined :
    /\ \A q, r \in Verifies(n) : q = r
    /\ wins[n] # 0 => pending # n /\ \A r \in Verifies(n) : step[r].stored # n
    /\ wins[n] <= 1

\* A challenge is there until it is used or something disturbed it.
ThereOrDisturbed ==
  /\ \A n \in offered \ disturbed : wins[n] = 0 => pending = n
  /\ \A r \in Request : step[r].at = "verify" /\ step[r].stored # step[r].n =>
       step[r].n \in disturbed \/ wins[step[r].n] # 0
  /\ lost \subseteq disturbed

LoginsInv ==
  /\ Logins!TypeOK
  /\ FreshInStore /\ OfferedWereMade /\ UsedUp /\ ThereOrDisturbed

LEMMA LoginsInit == Logins!Init => LoginsInv
<1> SUFFICES ASSUME Logins!Init PROVE LoginsInv
  OBVIOUS
<1>1. Logins!TypeOK
  BY ServerBounds DEF Logins!Init, Logins!TypeOK, Logins!Idle
<1>2. FreshInStore /\ OfferedWereMade
  BY DEF Logins!Init, Logins!Idle, FreshInStore, OfferedWereMade
<1>3. UsedUp /\ ThereOrDisturbed
  BY DEF Logins!Init, Logins!Idle, UsedUp, Verifies, ThereOrDisturbed
<1> QED
  BY <1>1, <1>2, <1>3 DEF LoginsInv

LEMMA StepTypes ==
  ASSUME Logins!TypeOK, NEW r \in Request
  PROVE  /\ step[r].at \in {"idle", "store", "verify"}
         /\ step[r].at # "idle" => step[r].n \in Logins!Challenge
         /\ step[r].at = "verify" => step[r].stored \in Logins!Challenge
BY DEF Logins!TypeOK, Logins!Idle

LEMMA LoginsTypeNext == Logins!TypeOK /\ Logins!Next => Logins!TypeOK'
<1> SUFFICES ASSUME Logins!TypeOK, Logins!Next PROVE Logins!TypeOK'
  OBVIOUS
<1>1. ASSUME NEW r \in Request, Logins!Begin(r) PROVE Logins!TypeOK'
  <2>1. made + 1 \in Logins!Challenge /\ made + 1 \in 0..MaxChallenge
    BY <1>1, ServerBounds DEF Logins!Begin, Logins!TypeOK, Logins!Challenge
  <2> QED
    BY <1>1, <2>1 DEF Logins!Begin, Logins!TypeOK
<1>2. ASSUME NEW r \in Request, Logins!Store(r) PROVE Logins!TypeOK'
  <2>1. step[r].n \in Logins!Challenge /\ step[r].n \in 0..MaxChallenge
    BY <1>2, StepTypes DEF Logins!Store, Logins!Challenge
  <2> QED
    BY <1>2, <2>1 DEF Logins!Store, Logins!TypeOK
<1>3. ASSUME NEW r \in Request, NEW n \in Logins!Challenge, Logins!Read(r, n) PROVE Logins!TypeOK'
  <2>1. pending # 0 => pending \in Logins!Challenge
    BY DEF Logins!TypeOK, Logins!Challenge
  <2>2. Logins!Failed(n) \subseteq Logins!Challenge
    BY DEF Logins!Failed, Logins!TypeOK
  <2> QED
    BY <1>3, <2>1, <2>2 DEF Logins!Read, Logins!TypeOK
<1>4. ASSUME NEW r \in Request, Logins!Verify(r) PROVE Logins!TypeOK'
  <2>1. PICK n \in Logins!Challenge : n = step[r].n
    BY <1>4, StepTypes DEF Logins!Verify
  <2>2. pending \in Logins!Challenge \cup {0} /\ 0 \in 0..MaxChallenge
    BY ServerBounds DEF Logins!TypeOK, Logins!Challenge
  <2>3. Logins!Failed(n) \subseteq Logins!Challenge
    BY DEF Logins!Failed, Logins!TypeOK
  <2>4. wins[n] + 1 \in Nat
    BY DEF Logins!TypeOK
  <2>5. /\ pending' = 0 /\ disturbed' = disturbed \cup ({pending} \ {0, n})
        /\ step' = [step EXCEPT ![r] = Logins!Idle] /\ UNCHANGED <<made, offered, expired, pipelined>>
        /\ lost' \in {lost, Logins!Failed(n)} /\ wins' \in {wins, [wins EXCEPT ![n] = @ + 1]}
    BY <1>4, <2>1 DEF Logins!Verify, Logins!Left
  <2> QED
    BY <2>2, <2>3, <2>4, <2>5 DEF Logins!TypeOK
<1>5. ASSUME Logins!Expire PROVE Logins!TypeOK'
  BY <1>5, ServerBounds DEF Logins!Expire, Logins!TypeOK, Logins!Challenge
<1> QED
  BY <1>1, <1>2, <1>3, <1>4, <1>5 DEF Logins!Next

LEMMA LoginsNext == LoginsInv /\ Logins!Next => LoginsInv'
<1> SUFFICES ASSUME LoginsInv, Logins!Next PROVE LoginsInv'
  OBVIOUS
<1>1. Logins!TypeOK /\ Logins!TypeOK'
  BY LoginsTypeNext DEF LoginsInv
<1>2. ASSUME NEW r \in Request, NEW x, step' = [step EXCEPT ![r] = x]
      PROVE  step'[r] = x /\ \A q \in Request \ {r} : step'[q] = step[q]
  BY <1>1, <1>2 DEF Logins!TypeOK
<1> SUFFICES (FreshInStore /\ OfferedWereMade /\ UsedUp /\ ThereOrDisturbed)'
  BY <1>1 DEF LoginsInv
<1>3. ASSUME NEW r \in Request, Logins!Begin(r)
      PROVE  (FreshInStore /\ OfferedWereMade /\ UsedUp /\ ThereOrDisturbed)'
  <2>1. /\ UNCHANGED <<pending, offered, expired, wins, pipelined, disturbed, lost>>
        /\ made \in Nat /\ made' = made + 1 /\ step[r].at = "idle"
        /\ step'[r].at = "store" /\ step'[r].n = made + 1 /\ \A q \in Request \ {r} : step'[q] = step[q]
    BY <1>1, <1>2, <1>3 DEF Logins!Begin, Logins!TypeOK
  <2>2. \A n \in offered : n \in Nat
    BY <1>1 DEF Logins!TypeOK, Logins!Challenge
  <2>3. FreshInStore'
    <3>1. \A q \in Request \ {r} : step[q].at = "store" => step[q].n \in Nat /\ step[q].n <= made
      BY <1>1, StepTypes DEF LoginsInv, FreshInStore, Logins!Challenge
    <3> QED
      BY <2>1, <2>2, <3>1 DEF LoginsInv, FreshInStore, OfferedWereMade
  <2>4. OfferedWereMade'
    BY <2>1, <2>2 DEF LoginsInv, OfferedWereMade
  <2>5. \A n \in Logins!Challenge : Verifies(n)' = Verifies(n)
    BY <2>1 DEF Verifies
  <2>6. UsedUp'
    BY <2>1, <2>5 DEF LoginsInv, UsedUp, Verifies
  <2>7. ThereOrDisturbed'
    BY <2>1 DEF LoginsInv, ThereOrDisturbed
  <2> QED
    BY <2>3, <2>4, <2>6, <2>7
<1>4. ASSUME NEW r \in Request, Logins!Store(r)
      PROVE  (FreshInStore /\ OfferedWereMade /\ UsedUp /\ ThereOrDisturbed)'
  <2>0. step'[r].at = "idle" /\ \A q \in Request \ {r} : step'[q] = step[q]
    BY <1>1, <1>4 DEF Logins!Store, Logins!Idle, Logins!TypeOK
  <2>1. PICK n \in Logins!Challenge : n = step[r].n
    BY <1>1, <1>4, StepTypes DEF Logins!Store
  <2>2. /\ UNCHANGED <<made, expired, wins, pipelined, lost>> /\ step[r].at = "store"
        /\ pending' = n /\ offered' = offered \cup {n} /\ disturbed' = disturbed \cup offered
        /\ step'[r].at = "idle" /\ \A q \in Request \ {r} : step'[q] = step[q]
    BY <1>4, <2>0, <2>1 DEF Logins!Store
  <2>3. n \notin offered /\ n <= made /\ wins[n] = 0 /\ n # 0
    BY <2>1, <2>2 DEF LoginsInv, FreshInStore, OfferedWereMade, Logins!Challenge
  <2>4. FreshInStore'
    BY <2>1, <2>2 DEF LoginsInv, FreshInStore
  <2>5. OfferedWereMade'
    BY <2>2, <2>3 DEF LoginsInv, OfferedWereMade
  <2>6. \A m \in Logins!Challenge : Verifies(m)' = Verifies(m)
    BY <2>2 DEF Verifies
  <2>7. UsedUp'
    BY <2>2, <2>3, <2>6 DEF LoginsInv, UsedUp, Verifies
  <2>8. ThereOrDisturbed'
    BY <2>2 DEF LoginsInv, ThereOrDisturbed
  <2> QED
    BY <2>4, <2>5, <2>7, <2>8
<1>5. ASSUME NEW r \in Request, NEW n \in Logins!Challenge, Logins!Read(r, n)
      PROVE  (FreshInStore /\ OfferedWereMade /\ UsedUp /\ ThereOrDisturbed)'
  <2>1. UNCHANGED <<pending, made, offered, expired, wins, disturbed>> /\ step[r].at = "idle" /\ n \in offered
    BY <1>5 DEF Logins!Read
  <2>2. CASE pending = 0
    <3>1. UNCHANGED <<step, pipelined>> /\ lost' = Logins!Failed(n)
      BY <1>5, <2>2 DEF Logins!Read
    <3>2. lost' \subseteq disturbed
      BY <2>1, <2>2, <3>1 DEF LoginsInv, ThereOrDisturbed, Logins!Failed, Logins!Challenge
    <3>3. \A m \in Logins!Challenge : Verifies(m)' = Verifies(m)
      BY <3>1 DEF Verifies
    <3> QED
      BY <2>1, <3>1, <3>2, <3>3 DEF LoginsInv, FreshInStore, OfferedWereMade, UsedUp, ThereOrDisturbed
  <2>3. CASE pending # 0
    <3>1. /\ step'[r].at = "verify" /\ step'[r].n = n /\ step'[r].stored = pending
          /\ \A q \in Request \ {r} : step'[q] = step[q]
          /\ pipelined \subseteq pipelined' /\ (Verifies(n) # {} => n \in pipelined') /\ UNCHANGED lost
      BY <1>2, <1>5, <2>3 DEF Logins!Read, Verifies
    <3>2. FreshInStore' /\ OfferedWereMade'
      BY <2>1, <2>3, <3>1 DEF LoginsInv, FreshInStore, OfferedWereMade
    <3>3. /\ Verifies(n)' = Verifies(n) \cup {r}
          /\ \A m \in Logins!Challenge \ {n} : Verifies(m)' = Verifies(m)
          /\ \A m \in Logins!Challenge : r \notin Verifies(m)
      BY <2>1, <3>1 DEF Verifies
    <3>4. UsedUp'
      <4> SUFFICES ASSUME NEW m \in Logins!Challenge, m \notin pipelined'
                   PROVE  /\ \A p, q \in Verifies(m)' : p = q
                          /\ wins[m] # 0 => pending # m /\ \A q \in Verifies(m)' : step'[q].stored # m
                          /\ wins[m] <= 1
        BY <2>1 DEF UsedUp
      <4>1. /\ \A p, q \in Verifies(m) : p = q
            /\ wins[m] # 0 => pending # m /\ \A q \in Verifies(m) : step[q].stored # m
            /\ wins[m] <= 1
        BY <3>1 DEF LoginsInv, UsedUp
      <4>2. CASE m = n
        BY <3>1, <3>3, <4>1, <4>2
      <4>3. CASE m # n
        <5>1. \A q \in Verifies(m) : step'[q] = step[q]
          BY <3>1, <3>3 DEF Verifies
        <5> QED
          BY <3>3, <4>1, <4>3, <5>1
      <4> QED
        BY <4>2, <4>3
    <3>5. ThereOrDisturbed'
      BY <2>1, <3>1 DEF LoginsInv, ThereOrDisturbed
    <3> QED
      BY <3>2, <3>4, <3>5
  <2> QED
    BY <2>2, <2>3
<1>6. ASSUME NEW r \in Request, Logins!Verify(r)
      PROVE  (FreshInStore /\ OfferedWereMade /\ UsedUp /\ ThereOrDisturbed)'
  <2>0. step'[r].at = "idle" /\ \A q \in Request \ {r} : step'[q] = step[q]
    BY <1>1, <1>6 DEF Logins!Verify, Logins!Idle, Logins!TypeOK
  <2>1. PICK n \in Logins!Challenge : n = step[r].n
    BY <1>1, <1>6, StepTypes DEF Logins!Verify
  <2>2. /\ UNCHANGED <<made, offered, expired, pipelined>> /\ step[r].at = "verify" /\ r \in Verifies(n)
        /\ pending' = 0 /\ disturbed' = disturbed \cup ({pending} \ {0, n})
        /\ step'[r].at = "idle" /\ \A q \in Request \ {r} : step'[q] = step[q]
    BY <1>6, <2>0, <2>1 DEF Logins!Verify, Logins!Left, Verifies
  <2>3. \A m \in Logins!Challenge : wins[m] \in Nat
    BY <1>1 DEF Logins!TypeOK
  <2>4. /\ \A m \in Logins!Challenge \ {n} : wins'[m] = wins[m]
        /\ step[r].stored = n => wins'[n] = wins[n] + 1 /\ lost' = lost
        /\ step[r].stored # n => wins' = wins /\ lost' = Logins!Failed(n)
    BY <1>1, <1>6, <2>1 DEF Logins!Verify, Logins!TypeOK
  <2>5. n \in offered
    BY <2>1, <2>2 DEF LoginsInv, OfferedWereMade
  <2>6. FreshInStore'
    BY <2>2 DEF LoginsInv, FreshInStore
  <2>7. OfferedWereMade'
    BY <2>2, <2>3, <2>4, <2>5 DEF LoginsInv, OfferedWereMade
  <2>8. \A m \in Logins!Challenge : Verifies(m)' = Verifies(m) \ {r} /\ \A q \in Verifies(m)' : step'[q] = step[q]
    BY <2>2 DEF Verifies
  <2>9. UsedUp'
    <3> SUFFICES ASSUME NEW m \in Logins!Challenge, m \notin pipelined
                 PROVE  /\ \A p, q \in Verifies(m)' : p = q
                        /\ wins'[m] # 0 => pending' # m /\ \A q \in Verifies(m)' : step'[q].stored # m
                        /\ wins'[m] <= 1
      BY <2>2 DEF UsedUp
    <3>1. /\ \A p, q \in Verifies(m) : p = q
          /\ wins[m] # 0 => pending # m /\ \A q \in Verifies(m) : step[q].stored # m
          /\ wins[m] <= 1
      BY DEF LoginsInv, UsedUp
    <3>2. pending' # m
      BY <2>2 DEF Logins!Challenge
    <3>3. CASE m = n
      <4>1. Verifies(m)' = {}
        BY <2>2, <2>8, <3>1, <3>3
      <4>2. step[r].stored = n => wins[n] = 0
        BY <2>2, <3>1, <3>3
      <4> QED
        BY <2>3, <2>4, <3>1, <3>2, <3>3, <4>1, <4>2
    <3>4. CASE m # n
      BY <2>4, <2>8, <3>1, <3>2, <3>4
    <3> QED
      BY <3>3, <3>4
  <2>10. ThereOrDisturbed'
    <3>1. \A m \in Logins!Challenge : wins[m] # 0 => wins'[m] # 0
      BY <2>3, <2>4
    <3>2. ASSUME NEW m \in offered, m \notin disturbed', wins'[m] = 0
          PROVE  FALSE
      <4>1. m \in Logins!Challenge /\ m # 0
        BY <1>1 DEF Logins!TypeOK, Logins!Challenge
      <4>2. pending = m
        BY <2>2, <3>1, <3>2, <4>1 DEF LoginsInv, ThereOrDisturbed
      <4>3. m = n
        BY <2>2, <3>2, <4>1, <4>2
      <4>4. step[r].stored # n
        BY <2>3, <2>4, <3>2, <4>3
      <4> QED
        BY <2>1, <2>2, <2>4, <3>2, <4>3, <4>4 DEF LoginsInv, ThereOrDisturbed
    <3>3. ASSUME NEW q \in Request, step'[q].at = "verify", step'[q].stored # step'[q].n
          PROVE  step'[q].n \in disturbed' \/ wins'[step'[q].n] # 0
      <4>1. q # r /\ step'[q] = step[q] /\ step[q].n \in Logins!Challenge
        BY <1>1, <2>2, <3>3, StepTypes
      <4> QED
        BY <2>2, <3>1, <3>3, <4>1 DEF LoginsInv, ThereOrDisturbed
    <3>4. lost' \subseteq disturbed'
      <4>1. CASE step[r].stored = n
        BY <2>2, <2>4, <4>1 DEF LoginsInv, ThereOrDisturbed
      <4>2. CASE step[r].stored # n
        BY <2>1, <2>2, <2>4, <4>2 DEF LoginsInv, ThereOrDisturbed, Logins!Failed
      <4> QED
        BY <4>1, <4>2
    <3> QED
      BY <2>2, <3>2, <3>3, <3>4 DEF ThereOrDisturbed
  <2> QED
    BY <2>6, <2>7, <2>9, <2>10
<1>7. ASSUME Logins!Expire
      PROVE  (FreshInStore /\ OfferedWereMade /\ UsedUp /\ ThereOrDisturbed)'
  <2>1. /\ UNCHANGED <<made, offered, step, wins, pipelined, lost>> /\ pending # 0 /\ pending' = 0
        /\ disturbed' = disturbed \cup {pending}
    BY <1>7 DEF Logins!Expire
  <2>2. FreshInStore' /\ OfferedWereMade'
    BY <2>1 DEF LoginsInv, FreshInStore, OfferedWereMade
  <2>3. \A m \in Logins!Challenge : m # 0 /\ Verifies(m)' = Verifies(m)
    BY <2>1 DEF Verifies, Logins!Challenge
  <2>4. UsedUp'
    BY <2>1, <2>3 DEF LoginsInv, UsedUp
  <2>5. ThereOrDisturbed'
    BY <2>1 DEF LoginsInv, ThereOrDisturbed
  <2> QED
    BY <2>2, <2>4, <2>5
<1> QED
  BY <1>3, <1>4, <1>5, <1>6, <1>7 DEF Logins!Next

LEMMA ChallengesHold == LoginsInv => Logins!ChallengesAreOneShot
BY DEF LoginsInv, UsedUp, ThereOrDisturbed, Logins!ChallengesAreOneShot

-----------------------------------------------------------------------------
(* Landing pages *)

\* A page without a link has launched nothing.
LinklessIdle ==
  ~card.link => asked = 0 /\ checks = 0 /\ handed = 0 /\ ~launched /\ hint \notin {"again", "taking over"}

\* Every launch is the automatic one or a press.
Spent == IF automatic THEN 0 ELSE 1
LaunchesCounted ==
  /\ asked \in Nat /\ handed \in Nat /\ pressed \in Nat /\ checks \in Nat
  /\ asked + handed <= pressed + Spent

\* What is asked for, and what is looked after, was launched.
LaunchedFirst == asked # 0 \/ checks # 0 => launched

\* The hint that the client did not open is on a page that is looked at, and
\* that has a hint and has launched, so that leaving it changes the hint.
HintFollowsSigns ==
  /\ hint = "taking over" => handed # 0 \/ "left" \in signs
  /\ handed # 0 => "beside" \in signs \/ "returned" \in signs \/ ~visible
  /\ hint = "again" => visible /\ launched /\ card.hint

LandedInv == LinklessIdle /\ LaunchesCounted /\ LaunchedFirst /\ HintFollowsSigns

LEMMA SpentIs == Spent \in {0, 1}
BY DEF Spent

LEMMA LandedInit == Landed!Init => LandedInv
<1> SUFFICES ASSUME Landed!Init PROVE LandedInv
  OBVIOUS
<1>1. hint \in {"first", None} /\ hint \notin {"again", "taking over"}
  BY NoneAssumption DEF Landed!Init
<1>2. asked = 0 /\ handed = 0 /\ checks = 0 /\ pressed = 0
  BY DEF Landed!Init
<1>3. ~launched
  BY DEF Landed!Init
<1>4. LinklessIdle
  BY <1>1, <1>2, <1>3 DEF LinklessIdle
<1>5. LaunchesCounted
  BY <1>2, SpentIs DEF LaunchesCounted
<1>6. LaunchedFirst
  BY <1>2 DEF LaunchedFirst
<1>7. HintFollowsSigns
  BY <1>1, <1>2 DEF HintFollowsSigns
<1> QED
  BY <1>4, <1>5, <1>6, <1>7 DEF LandedInv

LEMMA LaunchStep ==
  ASSUME LandedInv, Landed!AttemptLaunch, UNCHANGED <<card, visible, handed, signs>>,
         \/ Spent' = Spent + 1 /\ pressed' = pressed
         \/ Spent' = Spent /\ pressed' = pressed + 1
  PROVE  LandedInv'
<1>1. \/ card.link /\ launched' /\ asked' = asked + 1 /\ checks' = checks + 1 /\ UNCHANGED hint
      \/ ~card.link /\ hint' = "missing" /\ UNCHANGED <<launched, asked, checks>>
  BY DEF Landed!AttemptLaunch
<1>2. asked' \in {asked, asked + 1} /\ checks' \in {checks, checks + 1}
  BY <1>1
<1>3. LaunchesCounted'
  BY <1>2, SpentIs DEF LandedInv, LaunchesCounted
<1>4. LinklessIdle'
  BY <1>1 DEF LandedInv, LinklessIdle
<1>5. LaunchedFirst'
  BY <1>1 DEF LandedInv, LaunchedFirst
<1>6. HintFollowsSigns'
  BY <1>1 DEF LandedInv, HintFollowsSigns
<1> QED
  BY <1>3, <1>4, <1>5, <1>6 DEF LandedInv

LEMMA LandedNext == LandedInv /\ Landed!Next => LandedInv'
<1> SUFFICES ASSUME LandedInv, Landed!Next PROVE LandedInv'
  OBVIOUS
<1>1. CASE Landed!Automatic
  <2>1. /\ Landed!AttemptLaunch /\ UNCHANGED <<card, visible, handed, signs>> /\ pressed' = pressed
        /\ automatic /\ automatic' = FALSE
    BY <1>1 DEF Landed!Automatic
  <2>2. Spent = 0 /\ Spent' = 1
    BY <2>1 DEF Spent
  <2>3. Spent' = Spent + 1
    BY <2>2
  <2> QED
    BY <2>1, <2>3, LaunchStep
<1>2. CASE Landed!Press
  <2>1. /\ Landed!AttemptLaunch /\ UNCHANGED <<card, automatic, visible, handed, signs>>
        /\ pressed' = pressed + 1
    BY <1>2 DEF Landed!Press
  <2>2. Spent' = Spent
    BY <2>1 DEF Spent
  <2> QED
    BY <2>1, <2>2, LaunchStep
<1>3. CASE Landed!Check
  <2>1. /\ UNCHANGED <<card, automatic, launched, visible, asked, handed, pressed, signs>>
        /\ checks # 0 /\ checks' = checks - 1 /\ checks' \in Nat
        /\ (hint' = "again" /\ visible /\ card.hint) \/ hint' = hint
    BY <1>3 DEF Landed!Check, LandedInv, LaunchesCounted
  <2>2. Spent' = Spent
    BY <2>1 DEF Spent
  <2>3. LaunchesCounted'
    BY <2>1, <2>2 DEF LandedInv, LaunchesCounted
  <2>4. LinklessIdle' /\ LaunchedFirst'
    BY <2>1 DEF LandedInv, LinklessIdle, LaunchedFirst
  <2>5. HintFollowsSigns'
    BY <2>1 DEF LandedInv, LaunchedFirst, HintFollowsSigns
  <2> QED
    BY <2>3, <2>4, <2>5 DEF LandedInv
<1>4. ASSUME NEW covers \in BOOLEAN, Landed!Open(covers) PROVE LandedInv'
  <2>1. UNCHANGED <<card, automatic, launched, checks, pressed>> /\ asked' = asked - 1 /\ handed' = handed + 1
    BY <1>4 DEF Landed!Open
  <2>2. asked # 0 /\ asked' \in Nat /\ handed' \in Nat \ {0}
    BY <1>4, <2>1 DEF Landed!Open, LandedInv, LaunchesCounted
  <2>3. /\ card.link /\ launched
        /\ hint' = "again" => hint = "again"
    BY <1>4, <2>2 DEF Landed!Open, Landed!Hidden, LandedInv, LinklessIdle, LaunchedFirst
  <2>4. Spent' = Spent
    BY <2>1 DEF Spent
  <2>5. LaunchesCounted'
    BY <2>1, <2>2, <2>4, SpentIs DEF LandedInv, LaunchesCounted
  <2>6. LinklessIdle' /\ LaunchedFirst'
    BY <2>1, <2>3 DEF LinklessIdle, LaunchedFirst
  <2>7. covers => ~visible'
    BY <1>4 DEF Landed!Open
  <2>8. ~covers => "beside" \in signs' /\ hint' = hint /\ (visible' <=> visible)
    BY <1>4 DEF Landed!Open
  <2>9. covers => hint' # "again"
    BY <1>4, <2>3 DEF Landed!Open, Landed!Hidden, LandedInv, HintFollowsSigns
  <2>10. HintFollowsSigns'
    BY <2>1, <2>2, <2>3, <2>7, <2>8, <2>9 DEF LandedInv, HintFollowsSigns
  <2> QED
    BY <2>5, <2>6, <2>10 DEF LandedInv
<1>5. CASE Landed!Dismiss
  <2>1. /\ UNCHANGED <<card, automatic, launched, checks, visible, hint, handed, pressed, signs>>
        /\ asked' = asked - 1
    BY <1>5 DEF Landed!Dismiss
  <2>2. asked # 0 /\ asked' \in Nat /\ Spent' = Spent
    BY <1>5, <2>1 DEF Landed!Dismiss, LandedInv, LaunchesCounted, Spent
  <2>3. LaunchesCounted'
    BY <2>1, <2>2, SpentIs DEF LandedInv, LaunchesCounted
  <2>4. LinklessIdle' /\ LaunchedFirst'
    BY <2>1, <2>2 DEF LandedInv, LinklessIdle, LaunchedFirst
  <2>5. HintFollowsSigns'
    BY <2>1 DEF LandedInv, HintFollowsSigns
  <2> QED
    BY <2>3, <2>4, <2>5 DEF LandedInv
<1>6. CASE Landed!Leave
  <2>1. /\ UNCHANGED <<card, automatic, launched, checks, asked, handed, pressed>>
        /\ ~visible' /\ "left" \in signs' /\ signs \subseteq signs'
        /\ hint' = IF launched /\ card.hint THEN "taking over" ELSE hint
    BY <1>6 DEF Landed!Leave, Landed!Hidden
  <2>2. LaunchesCounted'
    BY <2>1 DEF LandedInv, LaunchesCounted, Spent
  <2>3. LinklessIdle' /\ LaunchedFirst'
    BY <2>1 DEF LandedInv, LinklessIdle, LaunchedFirst
  <2>4. HintFollowsSigns'
    BY <2>1 DEF LandedInv, HintFollowsSigns
  <2> QED
    BY <2>2, <2>3, <2>4 DEF LandedInv
<1>7. CASE Landed!Return
  <2>1. /\ UNCHANGED <<card, automatic, launched, checks, hint, asked, handed, pressed>>
        /\ visible' /\ "returned" \in signs' /\ signs \subseteq signs'
    BY <1>7 DEF Landed!Return
  <2>2. LaunchesCounted'
    BY <2>1 DEF LandedInv, LaunchesCounted, Spent
  <2>3. LinklessIdle' /\ LaunchedFirst'
    BY <2>1 DEF LandedInv, LinklessIdle, LaunchedFirst
  <2>4. HintFollowsSigns'
    BY <2>1 DEF LandedInv, HintFollowsSigns
  <2> QED
    BY <2>2, <2>3, <2>4 DEF LandedInv
<1> QED
  BY <1>1, <1>2, <1>3, <1>4, <1>5, <1>6, <1>7 DEF Landed!Next

LEMMA PagesTruthful == LandedInv => Landed!LandingTruthful
<1> SUFFICES ASSUME LandedInv PROVE Landed!LandingTruthful
  OBVIOUS
<1>1. handed > 0 <=> handed # 0
  BY DEF LandedInv, LaunchesCounted
<1>2. ~card.link => handed = 0 /\ ~launched /\ hint \notin {"again", "taking over"}
  BY DEF LandedInv, LinklessIdle
<1>3. handed > 1 => pressed > 0
  BY SpentIs DEF LandedInv, LaunchesCounted
<1>4. hint = "taking over" => handed > 0 \/ "left" \in signs
  BY <1>1 DEF LandedInv, HintFollowsSigns
<1>5. ASSUME hint = "again", handed # 0
      PROVE  signs \cap {"beside", "returned"} # {}
  <2>1. "beside" \in signs \/ "returned" \in signs
    BY <1>5 DEF LandedInv, HintFollowsSigns
  <2> QED
    BY <2>1
<1> QED
  BY <1>1, <1>2, <1>3, <1>4, <1>5 DEF Landed!LandingTruthful

-----------------------------------------------------------------------------
(* Announcements *)

\* When a stamp is that of a heartbeat that arrived at a time.
StampedAt(stamp, at) == \E j \in Inst : stamp = at + Ahead[j]

WritesStamped == \A w \in write : w.at \in 0..now /\ StampedAt(w.stamp, w.at)

\* A row is stamped when the newest heartbeat of its device arrived, or before
\* it if that one was overtaken.
RowsStamped ==
  \A d \in Device :
    announcement[d] # None =>
      /\ heard[d] # None
      /\ \E at \in 0..heard[d] : StampedAt(announcement[d].beat, at) /\ (d \notin overtaken => at = heard[d])

\* A row that is gone although its device was heard was swept by a server to
\* whose clock it was too old.
SweptWhenOld ==
  \A d \in Device \ overtaken :
    announcement[d] = None /\ heard[d] # None => \E j, k \in Inst : ~Discovery!Within(d, j, k)

\* A row of a device that was retracted was written by a heartbeat behind the retraction.
RetractedOrRevived ==
  \A d \in Device : announcement[d] # None => d \notin ended \/ d \in revived

DiscoveryInv ==
  /\ Discovery!TypeOK /\ RetractedOrRevived
  /\ \A d \in Device : heard[d] # None => heard[d] \in 0..now
  /\ WritesStamped /\ RowsStamped /\ SweptWhenOld

LEMMA DiscoveryInit == Discovery!Init => DiscoveryInv
<1> SUFFICES ASSUME Discovery!Init PROVE DiscoveryInv
  OBVIOUS
<1>1. Discovery!TypeOK
  BY ClockAssumption DEF Discovery!Init, Discovery!TypeOK
<1>2. WritesStamped /\ RowsStamped /\ SweptWhenOld /\ \A d \in Device : heard[d] # None => heard[d] \in 0..now
  BY DEF Discovery!Init, WritesStamped, RowsStamped, SweptWhenOld
<1>3. RetractedOrRevived
  BY DEF Discovery!Init, RetractedOrRevived
<1> QED
  BY <1>1, <1>2, <1>3 DEF DiscoveryInv

LEMMA AnnouncementTypes ==
  ASSUME Discovery!TypeOK, NEW d \in Device
  PROVE  /\ announcement[d] # None => announcement[d] \in [announced : Int, beat : Int]
         /\ heard[d] # None => heard[d] \in Nat
BY ClockAssumption DEF Discovery!TypeOK

LEMMA DiscoveryTypeNext == Discovery!TypeOK /\ Discovery!Next => Discovery!TypeOK'
<1> SUFFICES ASSUME Discovery!TypeOK, Discovery!Next PROVE Discovery!TypeOK'
  OBVIOUS
<1>1. CASE Discovery!Tick
  BY <1>1, ClockAssumption DEF Discovery!Tick, Discovery!TypeOK,
     Discovery!heartbeatVars, Discovery!retractionVars
<1>2. ASSUME NEW d \in Device, NEW i \in Inst, NEW op \in {"upsert", "retract"}, Discovery!Arrive(d, i, op)
      PROVE  Discovery!TypeOK'
  <2>1. [dev |-> d, op |-> op, stamp |-> Discovery!Clock(i), at |-> now] \in Discovery!Write
    BY ClockAssumption DEF Discovery!TypeOK, Discovery!Write, Discovery!Clock
  <2> QED
    BY <1>2, <2>1 DEF Discovery!Arrive, Discovery!TypeOK, Discovery!heartbeatVars
<1>3. ASSUME NEW w \in write, Discovery!Upsert(w)
      PROVE  Discovery!TypeOK'
  <2>1. w.dev \in Device /\ w.stamp \in Int /\ w.at \in 0..MaxTime
    BY DEF Discovery!TypeOK, Discovery!Write
  <2>2. PICK d \in Device : d = w.dev
    BY <2>1
  <2>3. (IF announcement[d] = None THEN [announced |-> w.stamp, beat |-> w.stamp]
                                   ELSE [announcement[d] EXCEPT !.beat = w.stamp]) \in [announced : Int, beat : Int]
    BY <2>1, AnnouncementTypes
  <2>4. announcement' \in [Device -> {None} \cup [announced : Int, beat : Int]]
    BY <1>3, <2>2, <2>3 DEF Discovery!Upsert, Discovery!TypeOK
  <2>5. heard' \in [Device -> {None} \cup 0..MaxTime]
    BY <1>3, <2>1, <2>2 DEF Discovery!Upsert, Discovery!TypeOK
  <2>6. behind' \subseteq Discovery!Write /\ write' \subseteq Discovery!Write
    <3>1. behind' = behind \ {w} /\ write' = write \ {w}
      BY <1>3 DEF Discovery!Upsert
    <3> QED
      BY <3>1 DEF Discovery!TypeOK
  <2>7. overtaken' \subseteq Device /\ ended' \subseteq Device /\ revived' \subseteq Device /\ now' = now
    <3>1. /\ ended' \in {ended, ended \ {w.dev}}
          /\ revived' \in {revived \cup {w.dev}, revived \ {w.dev}}
      BY <1>3 DEF Discovery!Upsert
    <3>2. overtaken' \in {overtaken \cup {w.dev}, overtaken \ {w.dev}} /\ now' = now
      BY <1>3 DEF Discovery!Upsert
    <3> QED
      BY <2>1, <3>1, <3>2 DEF Discovery!TypeOK
  <2> QED
    BY <2>4, <2>5, <2>6, <2>7 DEF Discovery!TypeOK
<1>4. ASSUME NEW w \in write, Discovery!Delete(w)
      PROVE  Discovery!TypeOK'
  <2>1. w \in Discovery!Write /\ w.dev \in Device
    BY DEF Discovery!TypeOK, Discovery!Write
  <2>2. /\ announcement' = [announcement EXCEPT ![w.dev] = None] /\ heard' = [heard EXCEPT ![w.dev] = None]
        /\ overtaken' = overtaken \ {w.dev} /\ ended' = ended \cup {w.dev} /\ revived' = revived \ {w.dev}
        /\ write' = write \ {w} /\ now' = now /\ behind' = behind
    BY <1>4 DEF Discovery!Delete
  <2> QED
    BY <2>1, <2>2 DEF Discovery!TypeOK
<1>5. ASSUME NEW i \in Inst, Discovery!Sweep(i)
      PROVE  Discovery!TypeOK'
  BY <1>5 DEF Discovery!Sweep, Discovery!TypeOK, Discovery!heartbeatVars, Discovery!retractionVars
<1> QED
  BY <1>1, <1>2, <1>3, <1>4, <1>5 DEF Discovery!Next

\* Only a heartbeat behind a retraction brings a retracted session back.
LEMMA RetractionNext ==
  ASSUME Discovery!TypeOK, RetractedOrRevived, Discovery!Next
  PROVE  RetractedOrRevived'
<1>1. CASE Discovery!Tick \/ \E d \in Device, i \in Inst : Discovery!Arrive(d, i, "upsert") \/ Discovery!Arrive(d, i, "retract")
  BY <1>1 DEF Discovery!Tick, Discovery!Arrive, Discovery!retractionVars, RetractedOrRevived
<1>2. ASSUME NEW w \in write, Discovery!Upsert(w)
      PROVE  RetractedOrRevived'
  <2>1. PICK d \in Device : d = w.dev
    BY DEF Discovery!TypeOK, Discovery!Write
  <2>2. /\ \A e \in Device \ {d} : announcement'[e] = announcement[e]
        /\ ended' = IF w \in behind THEN ended ELSE ended \ {d}
        /\ revived' = IF w \in behind THEN revived \cup {d} ELSE revived \ {d}
    BY <1>2, <2>1 DEF Discovery!Upsert, Discovery!TypeOK
  <2> QED
    BY <2>2 DEF RetractedOrRevived
<1>3. ASSUME NEW w \in write, Discovery!Delete(w)
      PROVE  RetractedOrRevived'
  BY <1>3 DEF Discovery!Delete, Discovery!TypeOK, RetractedOrRevived
<1>4. ASSUME NEW i \in Inst, Discovery!Sweep(i)
      PROVE  RetractedOrRevived'
  <2>1. UNCHANGED <<ended, revived>> /\ \A d \in Device : announcement'[d] \in {announcement[d], None}
    BY <1>4 DEF Discovery!Sweep, Discovery!retractionVars
  <2> QED
    BY <2>1 DEF RetractedOrRevived
<1> QED
  BY <1>1, <1>2, <1>3, <1>4 DEF Discovery!Next

\* A row whose newest heartbeat is not too old by any two clocks is listed.
LEMMA FreshIsListed ==
  ASSUME DiscoveryInv, NEW d \in Device, NEW i \in Inst, d \notin overtaken, announcement[d] # None,
         Discovery!Stale(d, i)
  PROVE  \E j, k \in Inst : ~Discovery!Within(d, j, k)
<1>1. heard[d] \in Nat /\ \E j \in Inst : announcement[d].beat = heard[d] + Ahead[j]
  BY AnnouncementTypes DEF DiscoveryInv, RowsStamped, StampedAt
<1>2. PICK j \in Inst : announcement[d].beat = heard[d] + Ahead[j]
  BY <1>1
<1>3. heard[d] + Ahead[j] < (now + Ahead[i]) - Window
  BY <1>2 DEF Discovery!Stale, Discovery!Clock
<1>4. now \in Nat /\ Ahead[i] \in Int /\ Ahead[j] \in Int
  BY ClockAssumption DEF DiscoveryInv, Discovery!TypeOK
<1>5. ~(now - heard[d] <= Window + (Ahead[j] - Ahead[i]))
  BY <1>1, <1>3, <1>4, ClockAssumption
<1> QED
  BY <1>5 DEF Discovery!Within

LEMMA DiscoveryNext == DiscoveryInv /\ Discovery!Next => DiscoveryInv'
<1> SUFFICES ASSUME DiscoveryInv, Discovery!Next PROVE DiscoveryInv'
  OBVIOUS
<1>1. Discovery!TypeOK /\ Discovery!TypeOK' /\ RetractedOrRevived'
  BY DiscoveryTypeNext, RetractionNext DEF DiscoveryInv
<1>2. now \in Nat
  BY <1>1 DEF Discovery!TypeOK
<1>3. CASE Discovery!Tick
  <2>1. now' = now + 1 /\ UNCHANGED <<announcement, write, heard, overtaken>>
    BY <1>3 DEF Discovery!Tick, Discovery!heartbeatVars
  <2>2. (\A d \in Device : heard[d] # None => heard[d] \in 0..now)' /\ WritesStamped' /\ RowsStamped'
    BY <1>2, <2>1 DEF DiscoveryInv, WritesStamped, RowsStamped, StampedAt
  <2>3. SweptWhenOld'
    <3> SUFFICES ASSUME NEW d \in Device \ overtaken, announcement[d] = None, heard[d] # None
                 PROVE  \E j, k \in Inst : ~Discovery!Within(d, j, k)'
      BY <2>1 DEF SweptWhenOld
    <3>1. PICK j \in Inst, k \in Inst : ~Discovery!Within(d, j, k)
      BY DEF DiscoveryInv, SweptWhenOld
    <3>2. heard[d] \in Nat /\ Ahead[j] - Ahead[k] \in Int
      BY <1>1, AnnouncementTypes, ClockAssumption
    <3>3. PICK skew \in Int : skew = Window + (Ahead[j] - Ahead[k])
      BY <3>2, ClockAssumption
    <3>4. ~(now - heard[d] <= skew)
      BY <3>1, <3>3 DEF Discovery!Within
    <3>5. ~(now' - heard[d] <= skew)
      BY <1>2, <2>1, <3>2, <3>4
    <3> QED
      BY <2>1, <3>3, <3>5 DEF Discovery!Within
  <2> QED
    BY <1>1, <2>2, <2>3 DEF DiscoveryInv
<1>4. ASSUME NEW d \in Device, NEW i \in Inst, NEW op \in {"upsert", "retract"}, Discovery!Arrive(d, i, op)
      PROVE  DiscoveryInv'
  <2>1. /\ write' = write \cup {[dev |-> d, op |-> op, stamp |-> now + Ahead[i], at |-> now]}
        /\ UNCHANGED <<now, announcement, heard, overtaken>>
    BY <1>4 DEF Discovery!Arrive, Discovery!Clock, Discovery!heartbeatVars
  <2>2. WritesStamped'
    BY <1>2, <2>1 DEF DiscoveryInv, WritesStamped, StampedAt
  <2>3. (\A e \in Device : heard[e] # None => heard[e] \in 0..now)' /\ RowsStamped' /\ SweptWhenOld'
    BY <2>1 DEF DiscoveryInv, RowsStamped, SweptWhenOld, Discovery!Within
  <2> QED
    BY <1>1, <2>2, <2>3 DEF DiscoveryInv
<1>5. ASSUME NEW w \in write, Discovery!Upsert(w)
      PROVE  DiscoveryInv'
  <2>1. PICK d \in Device : d = w.dev
    BY <1>1 DEF Discovery!TypeOK, Discovery!Write
  <2>2. w.at \in 0..now /\ w.at \in Nat /\ w.at # None /\ StampedAt(w.stamp, w.at)
    <3>1. w.at \in 0..now /\ StampedAt(w.stamp, w.at)
      BY DEF DiscoveryInv, WritesStamped
    <3>2. w.at \in Nat
      BY <1>2, <3>1
    <3> QED
      BY <3>1, <3>2, NoneAssumption
  <2>3. /\ announcement'[d] # None /\ announcement'[d].beat = w.stamp
        /\ heard'[d] = IF heard[d] = None \/ heard[d] < w.at THEN w.at ELSE heard[d]
        /\ overtaken' = IF Discovery!Overtaken(w) THEN overtaken \cup {d} ELSE overtaken \ {d}
        /\ \A e \in Device \ {d} : announcement'[e] = announcement[e] /\ heard'[e] = heard[e]
        /\ write' = write \ {w} /\ now' = now
    <3>1. announcement'[d] = IF announcement[d] = None THEN [announced |-> w.stamp, beat |-> w.stamp]
                             ELSE [announcement[d] EXCEPT !.beat = w.stamp]
      BY <1>1, <1>5, <2>1 DEF Discovery!Upsert, Discovery!TypeOK
    <3>2. announcement'[d].beat = w.stamp
      BY <1>1, <3>1, AnnouncementTypes
    <3>3. announcement'[d] # None
      <4>1. announcement'[d] \in [announced : Int, beat : Int]
        BY <1>1, <2>2, <3>1, AnnouncementTypes DEF Discovery!TypeOK, Discovery!Write
      <4> QED
        BY <4>1, NoneAssumption
    <3> QED
      BY <1>1, <1>5, <2>1, <3>2, <3>3 DEF Discovery!Upsert, Discovery!TypeOK
  <2>4. heard[d] # None => heard[d] \in Nat /\ heard[d] \in 0..now
    BY <1>1, AnnouncementTypes DEF DiscoveryInv
  <2>5. heard'[d] \in 0..now /\ heard'[d] # None /\ w.at \in 0..heard'[d] /\ (d \notin overtaken' => heard'[d] = w.at)
    BY <1>2, <2>1, <2>2, <2>3, <2>4 DEF Discovery!Overtaken
  <2>6. (\A e \in Device : heard[e] # None => heard[e] \in 0..now)' /\ WritesStamped'
    BY <2>3, <2>5 DEF DiscoveryInv, WritesStamped, StampedAt
  <2>7. RowsStamped'
    <3> SUFFICES ASSUME NEW e \in Device, announcement'[e] # None
                 PROVE  /\ heard'[e] # None
                        /\ \E at \in 0..heard'[e] :
                             StampedAt(announcement'[e].beat, at) /\ (e \notin overtaken' => at = heard'[e])
      BY DEF RowsStamped, StampedAt
    <3>1. CASE e = d
      BY <2>2, <2>3, <2>5, <3>1
    <3>2. CASE e # d
      BY <2>3, <3>2 DEF DiscoveryInv, RowsStamped
    <3> QED
      BY <3>1, <3>2
  <2>8. SweptWhenOld'
    BY <2>3 DEF DiscoveryInv, SweptWhenOld, Discovery!Within
  <2> QED
    BY <1>1, <2>6, <2>7, <2>8 DEF DiscoveryInv
<1>6. ASSUME NEW w \in write, Discovery!Delete(w)
      PROVE  DiscoveryInv'
  <2>1. PICK d \in Device : d = w.dev
    BY <1>1 DEF Discovery!TypeOK, Discovery!Write
  <2>2. /\ announcement'[d] = None /\ heard'[d] = None /\ overtaken' = overtaken \ {d}
        /\ \A e \in Device \ {d} : announcement'[e] = announcement[e] /\ heard'[e] = heard[e]
        /\ write' = write \ {w} /\ now' = now
    BY <1>1, <1>6, <2>1 DEF Discovery!Delete, Discovery!TypeOK
  <2>3. (\A e \in Device : heard[e] # None => heard[e] \in 0..now)' /\ WritesStamped' /\ RowsStamped'
    BY <2>2 DEF DiscoveryInv, WritesStamped, RowsStamped, StampedAt
  <2>4. SweptWhenOld'
    BY <2>2 DEF DiscoveryInv, SweptWhenOld, Discovery!Within
  <2> QED
    BY <1>1, <2>3, <2>4 DEF DiscoveryInv
<1>7. ASSUME NEW i \in Inst, Discovery!Sweep(i)
      PROVE  DiscoveryInv'
  <2>1. /\ UNCHANGED <<now, write, heard, overtaken>>
        /\ \A d \in Device : announcement'[d] = announcement[d]
                             \/ /\ announcement'[d] = None /\ announcement[d] # None
                                /\ Discovery!Stale(d, i)
    BY <1>7 DEF Discovery!Sweep, Discovery!heartbeatVars
  <2>2. (\A d \in Device : heard[d] # None => heard[d] \in 0..now)' /\ WritesStamped' /\ RowsStamped'
    BY <2>1 DEF DiscoveryInv, WritesStamped, RowsStamped, StampedAt
  <2>3. SweptWhenOld'
    <3> SUFFICES ASSUME NEW d \in Device \ overtaken, announcement'[d] = None, heard[d] # None
                 PROVE  \E j, k \in Inst : ~Discovery!Within(d, j, k)
      BY <2>1 DEF SweptWhenOld, Discovery!Within
    <3> QED
      BY <2>1, FreshIsListed DEF DiscoveryInv, SweptWhenOld
  <2> QED
    BY <1>1, <2>2, <2>3 DEF DiscoveryInv
<1> QED
  BY <1>3, <1>4, <1>5, <1>6, <1>7 DEF Discovery!Next

LEMMA ListsFollow == DiscoveryInv => Discovery!DiscoveryFollowsHeartbeats
<1> SUFFICES ASSUME DiscoveryInv, NEW d \in Device, NEW i \in Inst
             PROVE  /\ Discovery!Listed(i, d) => heard[d] # None /\ (\E j \in Inst : Discovery!Within(d, j, i))
                                                 /\ (d \notin ended \/ d \in revived)
                    /\ /\ heard[d] # None /\ (\A j, k \in Inst : Discovery!Within(d, j, k)) /\ d \notin overtaken
                       => Discovery!Listed(i, d)
  BY DEF Discovery!DiscoveryFollowsHeartbeats
<1>1. Discovery!TypeOK
  BY DEF DiscoveryInv
<1>2. ASSUME Discovery!Listed(i, d)
      PROVE  heard[d] # None /\ \E j \in Inst : Discovery!Within(d, j, i)
  <2>1. announcement[d] # None /\ ~(announcement[d].beat < (now + Ahead[i]) - Window)
    BY <1>2 DEF Discovery!Listed, Discovery!Stale, Discovery!Clock
  <2>2. PICK at \in 0..heard[d], j \in Inst : announcement[d].beat = at + Ahead[j]
    BY <2>1 DEF DiscoveryInv, RowsStamped, StampedAt
  <2>3. heard[d] \in Nat /\ heard[d] # None
    BY <1>1, <2>1, AnnouncementTypes DEF DiscoveryInv, RowsStamped
  <2>4. now \in Nat /\ Ahead[i] \in Int /\ Ahead[j] \in Int
    BY <1>1, ClockAssumption DEF Discovery!TypeOK
  <2>5. now - heard[d] <= Window + (Ahead[j] - Ahead[i])
    BY <2>1, <2>2, <2>3, <2>4, ClockAssumption
  <2> QED
    BY <2>3, <2>5 DEF Discovery!Within
<1>3. ASSUME heard[d] # None, \A j, k \in Inst : Discovery!Within(d, j, k), d \notin overtaken
      PROVE  Discovery!Listed(i, d)
  <2>1. announcement[d] # None
    BY <1>3 DEF DiscoveryInv, SweptWhenOld
  <2> QED
    BY <1>3, <2>1, FreshIsListed DEF Discovery!Listed
<1>4. Discovery!Listed(i, d) => d \notin ended \/ d \in revived
  BY DEF Discovery!Listed, DiscoveryInv, RetractedOrRevived
<1> QED
  BY <1>2, <1>3, <1>4

-----------------------------------------------------------------------------
(* The administrator's account *)

\* A reset under way has changed the row to the password it will write.
ResetAhead ==
  script # 0 => account # 0 /\ (drifted \/ account = script)

\* While there is no account, nobody is about to seed it with another password
\* than the one in .env.
SeedsTheFile ==
  /\ \A i \in Inst : boot[i] \in {"count", "insert"} => box[i] # 0
  /\ account = 0 /\ file # 0 /\ ~drifted => \A i \in Inst : box[i] \in {0, file}

AdminInv == Admin!TypeOK /\ ResetAhead /\ SeedsTheFile /\ Admin!FileOpensAccount

LEMMA AdminInit == Admin!Init => AdminInv
<1> SUFFICES ASSUME Admin!Init PROVE AdminInv
  OBVIOUS
<1>1. Admin!TypeOK
  <2>1. {file, script, drawn, account} \subseteq Admin!Password
    BY ServerBounds DEF Admin!Init, Admin!Password
  <2>2. box \in [Inst -> Admin!Password]
    BY ServerBounds DEF Admin!Init, Admin!Password
  <2>3. boot \in [Inst -> {"off", "count", "insert", "up"}]
    BY DEF Admin!Init
  <2>4. drifted \in BOOLEAN /\ changing \subseteq PageRequest
    BY DEF Admin!Init
  <2> QED
    BY <2>1, <2>2, <2>3, <2>4 DEF Admin!TypeOK
<1>2. file = 0 /\ script = 0 /\ \A i \in Inst : boot[i] = "off"
  BY DEF Admin!Init
<1>3. ResetAhead /\ SeedsTheFile /\ Admin!FileOpensAccount
  BY <1>2 DEF ResetAhead, SeedsTheFile, Admin!FileOpensAccount
<1> QED
  BY <1>1, <1>3 DEF AdminInv

LEMMA AdminTypeNext == Admin!TypeOK /\ Admin!Next => Admin!TypeOK'
<1> SUFFICES ASSUME Admin!TypeOK, Admin!Next PROVE Admin!TypeOK'
  OBVIOUS
<1>1. /\ file \in Admin!Password /\ script \in Admin!Password /\ drawn \in Admin!Password
      /\ account \in Admin!Password /\ 0 \in Admin!Password
      /\ drawn < MaxPassword => drawn + 1 \in Admin!Password
  BY ServerBounds DEF Admin!TypeOK, Admin!Password
<1>2. CASE Admin!EnableAdmin
  BY <1>1, <1>2 DEF Admin!EnableAdmin, Admin!TypeOK
<1>3. CASE Admin!Blanked
  BY <1>1, <1>3 DEF Admin!Blanked, Admin!TypeOK
<1>4. CASE Admin!ResetRow
  BY <1>1, <1>4 DEF Admin!ResetRow, Admin!TypeOK
<1>5. CASE Admin!ResetFile
  BY <1>1, <1>5 DEF Admin!ResetFile, Admin!TypeOK
<1>6. CASE Admin!ResetStops
  BY <1>1, <1>6 DEF Admin!ResetStops, Admin!TypeOK
<1>7. ASSUME NEW purge \in BOOLEAN, Admin!Uninstall(purge) PROVE Admin!TypeOK'
  <2>1. /\ account' \in {account, 0} /\ UNCHANGED <<file, script, drawn>> /\ changing' = {}
        /\ box' = [i \in Inst |-> 0] /\ boot' = [i \in Inst |-> "off"]
    BY <1>7 DEF Admin!Uninstall
  <2>2. drifted' \in BOOLEAN
    BY <1>7 DEF Admin!Uninstall
  <2> QED
    BY <1>1, <2>1, <2>2 DEF Admin!TypeOK
<1>8. ASSUME NEW i \in Inst, Admin!Up(i) PROVE Admin!TypeOK'
  BY <1>1, <1>8 DEF Admin!Up, Admin!TypeOK
<1>9. ASSUME NEW i \in Inst, Admin!Restart(i) PROVE Admin!TypeOK'
  BY <1>1, <1>9 DEF Admin!Restart, Admin!TypeOK
<1>10. ASSUME NEW i \in Inst, Admin!Count(i) PROVE Admin!TypeOK'
  BY <1>1, <1>10 DEF Admin!Count, Admin!TypeOK
<1>11. ASSUME NEW i \in Inst, Admin!Insert(i) PROVE Admin!TypeOK'
  <2>1. box[i] \in Admin!Password
    BY DEF Admin!TypeOK
  <2> QED
    BY <1>1, <1>11, <2>1 DEF Admin!Insert, Admin!Seeded, Admin!TypeOK
<1>12. ASSUME NEW i \in Inst, Admin!SeedFails(i) PROVE Admin!TypeOK'
  BY <1>1, <1>12 DEF Admin!SeedFails, Admin!TypeOK
<1>13. ASSUME NEW q \in PageRequest, Admin!Check(q) \/ Admin!Update(q) \/ Admin!GiveUp(q) PROVE Admin!TypeOK'
  BY <1>1, <1>13 DEF Admin!Check, Admin!Update, Admin!GiveUp, Admin!TypeOK
<1> QED
  BY <1>2, <1>3, <1>4, <1>5, <1>6, <1>7, <1>8, <1>9, <1>10, <1>11, <1>12, <1>13 DEF Admin!Next

LEMMA AdminNext == AdminInv /\ Admin!Next => AdminInv'
<1> SUFFICES ASSUME AdminInv, Admin!Next PROVE AdminInv'
  OBVIOUS
<1>1. Admin!TypeOK /\ Admin!TypeOK'
  BY AdminTypeNext DEF AdminInv
<1>2. drawn + 1 # 0
  BY <1>1 DEF Admin!TypeOK, Admin!Password
<1>3. ResetAhead /\ SeedsTheFile /\ Admin!FileOpensAccount
  BY DEF AdminInv
<1> SUFFICES ResetAhead' /\ SeedsTheFile' /\ Admin!FileOpensAccount'
  BY <1>1 DEF AdminInv
<1>4. CASE Admin!EnableAdmin
  <2>1. /\ script = 0 /\ UNCHANGED <<script, box, boot, account>>
        /\ drifted' <=> account # 0 \/ \E i \in Inst : box[i] # 0
    BY <1>4 DEF Admin!EnableAdmin
  <2> QED
    BY <1>3, <2>1 DEF ResetAhead, SeedsTheFile, Admin!FileOpensAccount
<1>5. CASE Admin!Blanked
  <2>1. file' = 0 /\ script = 0 /\ UNCHANGED <<script, box, boot, account, drifted>>
    BY <1>5 DEF Admin!Blanked
  <2> QED
    BY <1>3, <2>1 DEF ResetAhead, SeedsTheFile, Admin!FileOpensAccount
<1>6. CASE Admin!ResetRow
  <2>1. account' = script' /\ account' # 0 /\ UNCHANGED <<file, box, boot>>
    BY <1>2, <1>6 DEF Admin!ResetRow
  <2> QED
    BY <1>3, <2>1 DEF ResetAhead, SeedsTheFile, Admin!FileOpensAccount
<1>7. CASE Admin!ResetFile
  <2>1. script # 0 /\ file' = script /\ script' = 0 /\ UNCHANGED <<box, boot, account, drifted>>
    BY <1>7 DEF Admin!ResetFile
  <2> QED
    BY <1>3, <2>1 DEF ResetAhead, SeedsTheFile, Admin!FileOpensAccount
<1>8. CASE Admin!ResetStops
  <2>1. script' = 0 /\ drifted' /\ UNCHANGED <<file, box, boot, account>>
    BY <1>8 DEF Admin!ResetStops
  <2> QED
    BY <1>3, <2>1 DEF ResetAhead, SeedsTheFile, Admin!FileOpensAccount
<1>9. ASSUME NEW purge \in BOOLEAN, Admin!Uninstall(purge)
      PROVE  ResetAhead' /\ SeedsTheFile' /\ Admin!FileOpensAccount'
  <2>1. /\ script' = 0 /\ file' = file /\ script = 0
        /\ \A i \in Inst : box'[i] = 0 /\ boot'[i] = "off"
    BY <1>9 DEF Admin!Uninstall
  <2>2. CASE purge
    <3>1. account' = 0
      BY <1>9, <2>2 DEF Admin!Uninstall
    <3> QED
      BY <2>1, <3>1 DEF ResetAhead, SeedsTheFile, Admin!FileOpensAccount
  <2>3. CASE ~purge
    <3>1. account' = account /\ (drifted' <=> drifted)
      BY <1>9, <2>3 DEF Admin!Uninstall
    <3> QED
      BY <1>3, <2>1, <3>1 DEF ResetAhead, SeedsTheFile, Admin!FileOpensAccount
  <2> QED
    BY <2>2, <2>3
<1>10. ASSUME NEW i \in Inst, Admin!Up(i)
       PROVE  ResetAhead' /\ SeedsTheFile' /\ Admin!FileOpensAccount'
  <2>1. /\ UNCHANGED <<file, script, account, drifted>> /\ box'[i] = file /\ (file = 0 => boot'[i] = "up")
        /\ \A k \in Inst \ {i} : box'[k] = box[k] /\ boot'[k] = boot[k]
    BY <1>1, <1>10 DEF Admin!Up, Admin!TypeOK
  <2> QED
    BY <1>3, <2>1 DEF ResetAhead, SeedsTheFile, Admin!FileOpensAccount
<1>11. ASSUME NEW i \in Inst, Admin!Restart(i) \/ Admin!Count(i) \/ Admin!SeedFails(i)
       PROVE  ResetAhead' /\ SeedsTheFile' /\ Admin!FileOpensAccount'
  <2>1. /\ UNCHANGED <<file, script, box, account, drifted>>
        /\ boot'[i] \in {"count", "insert"} => box[i] # 0
        /\ \A k \in Inst \ {i} : boot'[k] = boot[k]
    BY <1>1, <1>3, <1>11 DEF Admin!Restart, Admin!Count, Admin!SeedFails, Admin!TypeOK, SeedsTheFile
  <2> QED
    BY <1>3, <2>1 DEF ResetAhead, SeedsTheFile, Admin!FileOpensAccount
<1>12. ASSUME NEW i \in Inst, Admin!Insert(i)
       PROVE  ResetAhead' /\ SeedsTheFile' /\ Admin!FileOpensAccount'
  <2>1. /\ UNCHANGED <<file, script, box, drifted>>
        /\ boot[i] = "insert" /\ boot'[i] = "up" /\ \A k \in Inst \ {i} : boot'[k] = boot[k]
        /\ account' = IF account = 0 THEN box[i] ELSE account
    BY <1>1, <1>12 DEF Admin!Insert, Admin!Seeded, Admin!TypeOK
  <2>2. box[i] # 0
    BY <1>3, <2>1 DEF SeedsTheFile
  <2> QED
    BY <1>3, <2>1, <2>2 DEF ResetAhead, SeedsTheFile, Admin!FileOpensAccount
<1>13. ASSUME NEW q \in PageRequest, Admin!Check(q) \/ Admin!GiveUp(q)
       PROVE  ResetAhead' /\ SeedsTheFile' /\ Admin!FileOpensAccount'
  <2>1. UNCHANGED <<file, script, box, boot, account, drifted>>
    BY <1>13 DEF Admin!Check, Admin!GiveUp
  <2> QED
    BY <1>3, <2>1 DEF ResetAhead, SeedsTheFile, Admin!FileOpensAccount
<1>14. ASSUME NEW q \in PageRequest, Admin!Update(q)
       PROVE  ResetAhead' /\ SeedsTheFile' /\ Admin!FileOpensAccount'
  <2>1. account' # 0 /\ drifted' /\ UNCHANGED <<file, script, box, boot>>
    BY <1>2, <1>14 DEF Admin!Update
  <2> QED
    BY <1>3, <2>1 DEF ResetAhead, SeedsTheFile, Admin!FileOpensAccount
<1> QED
  BY <1>4, <1>5, <1>6, <1>7, <1>8, <1>9, <1>10, <1>11, <1>12, <1>13, <1>14 DEF Admin!Next

-----------------------------------------------------------------------------
(* The dashboard's hold on a token *)

\* What is read without a valid token is answered with a 401 for that, and a
\* sign-in is sent by a page that holds no token.
RefusalsRightful ==
  \A q \in PageRequest :
    /\ call[q].kind = "query" /\ call[q].at = "unauthorized" => call[q].with \in refused \cup {0}
    /\ call[q].kind = "login" /\ call[q].at # "ok" => call[q].with = 0
    /\ call[q].kind = "none" => call[q].at = "idle"

TabInv ==
  /\ Tab!TypeOK
  /\ page = "login" => session = 0
  /\ RefusalsRightful
  /\ Tab!TokensLostForCause

\* The calls of a page with tokens up to n.
CallTo(n) == [kind : {"none", "me", "login", "query", "change"}, with : 0..n,
              at : {"idle", "sent", "ok", "unauthorized", "failed"}]

LEMMA CallTypes ==
  ASSUME Tab!TypeOK
  PROVE  /\ logins \in Nat /\ call \in [PageRequest -> CallTo(logins)]
         /\ \A c \in CallTo(logins) : c \in CallTo(logins + 1)
         /\ Tab!Idle \in CallTo(logins)
         /\ \A kind \in {"me", "login", "query", "change"} : Tab!Sent(kind) \in CallTo(logins)
<1>1. logins \in Nat /\ call \in [PageRequest -> CallTo(logins)] /\ session \in 0..logins
  BY ServerBounds DEF Tab!TypeOK, CallTo
<1> QED
  BY <1>1 DEF CallTo, Tab!Idle, Tab!Sent

LEMMA TabInit == Tab!Init => TabInv
<1> SUFFICES ASSUME Tab!Init PROVE TabInv
  OBVIOUS
<1>1. Tab!TypeOK
  BY ServerBounds DEF Tab!Init, Tab!TypeOK, Tab!Idle
<1>2. RefusalsRightful /\ Tab!TokensLostForCause /\ session = 0
  BY DEF Tab!Init, Tab!Idle, RefusalsRightful, Tab!TokensLostForCause
<1> QED
  BY <1>1, <1>2 DEF TabInv

\* A request that is sent, or answered without a token.
LEMMA CallStep ==
  ASSUME TabInv, NEW q \in PageRequest, NEW c \in CallTo(logins),
         call' = [call EXCEPT ![q] = c],
         c.kind = "query" /\ c.at = "unauthorized" => c.with \in refused \cup {0},
         c.kind = "login" /\ c.at # "ok" => c.with = 0,
         c.kind # "none",
         UNCHANGED <<session, logins, refused, page, dropped>>
  PROVE  TabInv'
<1>1. Tab!TypeOK /\ call \in [PageRequest -> CallTo(logins)]
  BY CallTypes DEF TabInv
<1>2. call' \in [PageRequest -> CallTo(logins)]
  BY <1>1
<1>3. Tab!TypeOK'
  BY <1>1, <1>2 DEF Tab!TypeOK, CallTo
<1>4. call'[q] = c /\ \A p \in PageRequest \ {q} : call'[p] = call[p]
  BY <1>1
<1>5. RefusalsRightful'
  BY <1>4 DEF TabInv, RefusalsRightful
<1> QED
  BY <1>3, <1>5 DEF TabInv, Tab!TokensLostForCause

LEMMA TabNext == TabInv /\ Tab!Next => TabInv'
<1> SUFFICES ASSUME TabInv, Tab!Next PROVE TabInv'
  OBVIOUS
<1>1. Tab!TypeOK /\ logins \in Nat /\ call \in [PageRequest -> CallTo(logins)]
  BY CallTypes DEF TabInv
<1>2. \A q \in PageRequest : call[q] \in CallTo(logins)
  BY <1>1
<1>3. CASE Tab!Logout
  <2>1. session' = 0 /\ page' = "login" /\ UNCHANGED <<logins, refused, call, dropped>>
    BY <1>3 DEF Tab!Logout
  <2>2. Tab!TypeOK'
    BY <1>1, <2>1 DEF Tab!TypeOK
  <2> QED
    BY <2>1, <2>2 DEF TabInv, RefusalsRightful, Tab!TokensLostForCause
<1>4. ASSUME NEW q \in PageRequest, Tab!Load(q)
      PROVE  TabInv'
  <2>1. /\ page' = IF session = 0 THEN "login" ELSE "loading"
        /\ call' = [p \in PageRequest |-> IF p = q /\ session # 0 THEN Tab!Sent("me") ELSE Tab!Idle]
        /\ UNCHANGED <<session, logins, refused, dropped>>
    BY <1>4 DEF Tab!Load
  <2>2. call' \in [PageRequest -> CallTo(logins)]
    BY <1>1, <2>1, CallTypes
  <2>3. Tab!TypeOK'
    BY <1>1, <2>1, <2>2 DEF Tab!TypeOK, CallTo
  <2>4. \A p \in PageRequest : call'[p].kind = "me" \/ call'[p] = Tab!Idle
    BY <2>1 DEF Tab!Sent
  <2>5. RefusalsRightful'
    BY <2>4 DEF RefusalsRightful, Tab!Idle
  <2> QED
    BY <2>1, <2>3, <2>5 DEF TabInv, Tab!TokensLostForCause
<1>5. ASSUME NEW q \in PageRequest, Tab!Submit(q) \/ Tab!Query(q) \/ Tab!Change(q)
      PROVE  TabInv'
  <2>1. PICK kind \in {"login", "query", "change"} : Tab!Send(q, kind) /\ (kind = "login" => page = "login")
    BY <1>5 DEF Tab!Submit, Tab!Query, Tab!Change
  <2>2. PICK c \in CallTo(logins) : c = Tab!Sent(kind)
    BY <1>1, CallTypes
  <2>3. c.kind = kind /\ c.at = "sent" /\ c.with = session
    BY <2>2 DEF Tab!Sent
  <2>4. call' = [call EXCEPT ![q] = c] /\ UNCHANGED <<session, logins, refused, page, dropped>>
    BY <2>1, <2>2 DEF Tab!Send
  <2>5. c.kind = "login" => c.with = 0
    BY <2>1, <2>3 DEF TabInv
  <2> QED
    BY <2>3, <2>4, <2>5, CallStep
<1>6. ASSUME NEW q \in PageRequest, Tab!Login(q)
      PROVE  TabInv'
  <2>1. logins' = logins + 1 /\ logins < MaxLogin /\ UNCHANGED <<session, refused, page, dropped>>
    BY <1>6 DEF Tab!Login
  <2>2. call'[q].at = "ok" /\ call'[q].kind = "login" /\ call'[q] \in CallTo(logins') /\ \A p \in PageRequest \ {q} : call'[p] = call[p]
    <3>1. PICK c : c = [call[q] EXCEPT !.at = "ok", !.with = logins + 1]
      OBVIOUS
    <3>2. call[q].kind = "login" /\ call[q] \in CallTo(logins)
      BY <1>2, <1>6 DEF Tab!Login
    <3>3. c = [kind |-> "login", with |-> logins + 1, at |-> "ok"]
      BY <3>1, <3>2 DEF CallTo
    <3>4. c \in CallTo(logins + 1)
      BY <1>1, <3>3 DEF CallTo
    <3>5. call' = [call EXCEPT ![q] = c]
      BY <1>1, <1>6, <3>1 DEF Tab!Login
    <3> QED
      BY <1>1, <2>1, <3>3, <3>4, <3>5
  <2>3. call' \in [PageRequest -> CallTo(logins')]
    <3>1. \A p \in PageRequest : call'[p] \in CallTo(logins')
      BY <1>1, <1>2, <2>1, <2>2, CallTypes
    <3>2. call' = [p \in PageRequest |-> call'[p]]
      BY <1>1, <1>6 DEF Tab!Login
    <3> QED
      BY <3>1, <3>2
  <2>4. session \in 0..logins' /\ logins' \in 0..MaxLogin /\ refused \subseteq 1..logins'
    BY <1>1, <2>1, ServerBounds DEF Tab!TypeOK
  <2>5. Tab!TypeOK'
    <3>1. page' \in {"loading", "login", "account"}
          /\ dropped' \subseteq [kind : {"me", "login", "query", "change"}, own : BOOLEAN]
      BY <1>1, <2>1 DEF Tab!TypeOK
    <3>2. call' \in [PageRequest -> [kind : {"none", "me", "login", "query", "change"}, with : 0..logins',
                                     at : {"idle", "sent", "ok", "unauthorized", "failed"}]]
      BY <2>3 DEF CallTo
    <3> QED
      BY <2>1, <2>4, <3>1, <3>2 DEF Tab!TypeOK
  <2>6. RefusalsRightful'
    BY <2>1, <2>2 DEF TabInv, RefusalsRightful
  <2> QED
    BY <2>1, <2>5, <2>6 DEF TabInv, Tab!TokensLostForCause
<1>7. ASSUME NEW q \in PageRequest, NEW status \in {"ok", "unauthorized", "failed"}, Tab!Answer(q, status),
             call[q].at = "sent",
             status = "ok" => call[q].kind # "login",
             status = "unauthorized" /\ call[q].kind = "query" => ~Tab!Admitted(q),
             UNCHANGED <<session, logins, refused, page, dropped>>
      PROVE  TabInv'
  <2>1. PICK c : c = [call[q] EXCEPT !.at = status]
    OBVIOUS
  <2>2. c \in CallTo(logins) /\ c.kind = call[q].kind /\ c.at = status /\ c.with = call[q].with
    BY <1>2, <2>1 DEF CallTo
  <2>3. call' = [call EXCEPT ![q] = c]
    BY <1>1, <1>7, <2>1 DEF Tab!Answer
  <2>4. c.kind = "query" /\ c.at = "unauthorized" => c.with \in refused \cup {0}
    BY <1>7, <2>2 DEF Tab!Admitted
  <2>5. c.kind = "login" /\ c.at # "ok" => c.with = 0
    BY <1>7, <2>2 DEF TabInv, RefusalsRightful
  <2>6. c.kind # "none"
    BY <1>7, <2>2 DEF TabInv, RefusalsRightful
  <2> QED
    BY <1>7, <2>2, <2>3, <2>4, <2>5, <2>6, CallStep
<1>8. ASSUME NEW q \in PageRequest, Tab!Accept(q) \/ Tab!Refuse(q) \/ Tab!Fails(q)
      PROVE  TabInv'
  BY <1>7, <1>8 DEF Tab!Accept, Tab!Refuse, Tab!Fails
<1>9. ASSUME NEW q \in PageRequest, Tab!Receive(q)
      PROVE  TabInv'
  <2>1. PICK c \in CallTo(logins) : c = call[q]
    BY <1>2
  <2>2. /\ c.at \in {"ok", "unauthorized", "failed"} /\ UNCHANGED <<logins, refused>>
        /\ session' = IF Tab!Clears(c) THEN 0 ELSE IF c.kind = "login" /\ c.at = "ok" THEN c.with ELSE session
        /\ page' = IF c.kind \in {"me", "login"} /\ c.at = "ok" THEN "account"
                   ELSE IF c.kind = "me" THEN "login" ELSE page
        /\ call' = [call EXCEPT ![q] = Tab!Idle]
    BY <1>9, <2>1 DEF Tab!Receive
  <2>3. call' \in [PageRequest -> CallTo(logins)]
    BY <1>1, <2>2, CallTypes
  <2>4. /\ call'[q].kind = "none" /\ call'[q].at = "idle"
        /\ \A p \in PageRequest \ {q} : call'[p] = call[p]
    BY <1>1, <2>2 DEF Tab!Idle
  <2>5. RefusalsRightful'
    BY <2>2, <2>4 DEF TabInv, RefusalsRightful
  <2>6. session' \in 0..logins /\ page' \in {"loading", "login", "account"}
    BY <1>1, <2>2 DEF Tab!TypeOK, CallTo
  <2>7. page' = "login" => session' = 0
    <3>1. CASE c.kind = "me" /\ c.at # "ok"
      BY <2>2, <3>1 DEF Tab!Clears
    <3>2. CASE ~(c.kind = "me" /\ c.at # "ok")
      BY <2>2, <3>2 DEF TabInv, Tab!Clears
    <3> QED
      BY <3>1, <3>2
  <2>8. dropped' = dropped \/ /\ dropped' = dropped \cup {[kind |-> c.kind, own |-> c.with = session]}
                              /\ Tab!Clears(c) /\ session \notin refused \cup {0}
    BY <1>9, <2>1 DEF Tab!Receive
  <2>9. dropped' \subseteq [kind : {"me", "login", "query", "change"}, own : BOOLEAN] /\ Tab!TokensLostForCause'
    <3>1. CASE dropped' = dropped
      BY <1>1, <3>1 DEF TabInv, Tab!TypeOK, Tab!TokensLostForCause
    <3>2. CASE dropped' # dropped
      <4>1. PICK d : d = [kind |-> c.kind, own |-> c.with = session]
        OBVIOUS
      <4>2. /\ dropped' = dropped \cup {d} /\ Tab!Clears(c) /\ session \notin refused \cup {0}
        BY <2>8, <3>2, <4>1
      <4>3. d.kind = c.kind /\ (d.own <=> c.with = session)
        BY <4>1
      <4>4. c.kind # "none" /\ (c.kind \in {"query", "login"} => c.with # session)
        <5>1. c.kind # "none"
          BY <2>1, <2>2 DEF TabInv, RefusalsRightful
        <5>2. ASSUME c.kind = "query" PROVE c.with # session
          BY <2>1, <4>2, <5>2 DEF TabInv, RefusalsRightful, Tab!Clears
        <5>3. ASSUME c.kind = "login" PROVE c.with # session
          BY <2>1, <4>2, <5>3 DEF TabInv, RefusalsRightful, Tab!Clears
        <5> QED
          BY <5>1, <5>2, <5>3
      <4>5. d \in [kind : {"me", "login", "query", "change"}, own : BOOLEAN]
        BY <4>1, <4>4 DEF CallTo
      <4>6. d.kind \in {"me", "change"} \/ ~d.own
        BY <4>3, <4>4, <4>5
      <4> QED
        BY <1>1, <4>2, <4>5, <4>6 DEF TabInv, Tab!TypeOK, Tab!TokensLostForCause
    <3> QED
      BY <3>1, <3>2
  <2>10. Tab!TypeOK'
    BY <1>1, <2>2, <2>3, <2>6, <2>9 DEF Tab!TypeOK, CallTo
  <2> QED
    BY <2>5, <2>7, <2>9, <2>10 DEF TabInv
<1>10. ASSUME NEW t \in 1..logins, Tab!Expire(t)
       PROVE  TabInv'
  <2>1. refused' = refused \cup {t} /\ UNCHANGED <<session, logins, page, call, dropped>>
    BY <1>10 DEF Tab!Expire
  <2>2. Tab!TypeOK'
    BY <1>1, <2>1 DEF Tab!TypeOK
  <2> QED
    BY <2>1, <2>2 DEF TabInv, RefusalsRightful, Tab!TokensLostForCause
<1> QED
  BY <1>3, <1>4, <1>5, <1>6, <1>8, <1>9, <1>10 DEF Tab!Next


-----------------------------------------------------------------------------
(* The list of users *)

\* A function on the numbers up to n is a sequence.
LEMMA Marked ==
  ASSUME NEW S, NEW n \in Nat, NEW f \in [1..n -> S]
  PROVE  f \in Seq(S) /\ Len(f) = n
BY SeqDef, LenProperties

\* What an answer that is not late says, is so, but for what is still to come: an
\* action that is done and has not asked again, or the answers asked for after it.
Truthful(a, ahead) ==
  ~a.late =>
    /\ a.at = "read" /\ a.active # active => ahead \/ \E q \in Action : toggle[q].at = "done"
    /\ a.view = view \/ a.again = TRUE \/ ahead

ListInv ==
  /\ List!TypeOK /\ fetch \in Seq(List!Answer)
  /\ Truthful(data, Len(fetch) # 0) /\ (~data.late => data.at = "read")
  /\ \A k \in 1..Len(fetch) : Truthful(fetch[k], k # Len(fetch))

LEMMA AskedIs ==
  ASSUME NEW v \in View, NEW again \in BOOLEAN
  PROVE  /\ List!Asked(v, again) \in List!Answer
         /\ List!Asked(v, again).view = v /\ List!Asked(v, again).again = again
         /\ List!Asked(v, again).at = "sent"
<1>1. PICK f : f = [u \in Row |-> TRUE]
  OBVIOUS
<1>2. f \in [Row -> BOOLEAN]
  BY <1>1
<1>3. List!Asked(v, again) = [view |-> v, again |-> again, at |-> "sent", active |-> f, late |-> FALSE]
  BY <1>1 DEF List!Asked
<1> QED
  BY <1>2, <1>3 DEF List!Answer

\* An answer that is late says nothing.
LEMMA LateIs ==
  ASSUME NEW a \in List!Answer
  PROVE  /\ [a EXCEPT !.late = TRUE] \in List!Answer
         /\ [a EXCEPT !.late = TRUE].late
         /\ [a EXCEPT !.late = TRUE].at = a.at
<1>1. PICK b : b = [a EXCEPT !.late = TRUE]
  OBVIOUS
<1>2. b = [view |-> a.view, again |-> a.again, at |-> a.at, active |-> a.active, late |-> TRUE]
  BY <1>1 DEF List!Answer
<1>3. b \in List!Answer /\ b.at = a.at /\ b.late
  BY <1>2 DEF List!Answer
<1> QED
  BY <1>1, <1>3

\* One that was read before a change the page is not told of is late.
LEMMA UnseenIs ==
  ASSUME NEW a \in List!Answer
  PROVE  /\ [a EXCEPT !.late = @ \/ a.at = "read"] \in List!Answer
         /\ [a EXCEPT !.late = @ \/ a.at = "read"].late <=> a.late \/ a.at = "read"
         /\ [a EXCEPT !.late = @ \/ a.at = "read"].at = a.at
         /\ [a EXCEPT !.late = @ \/ a.at = "read"].view = a.view
         /\ [a EXCEPT !.late = @ \/ a.at = "read"].again = a.again
<1>1. PICK l \in BOOLEAN : l = (a.late \/ a.at = "read")
  OBVIOUS
<1>2. PICK b : b = [a EXCEPT !.late = l]
  OBVIOUS
<1>3. b = [view |-> a.view, again |-> a.again, at |-> a.at, active |-> a.active, late |-> l]
  BY <1>2 DEF List!Answer
<1>4. b \in List!Answer /\ b.at = a.at /\ b.late = l /\ b.view = a.view /\ b.again = a.again
  BY <1>3 DEF List!Answer
<1>5. b = [a EXCEPT !.late = @ \/ a.at = "read"]
  BY <1>1, <1>2 DEF List!Answer
<1> QED
  BY <1>1, <1>4, <1>5

\* The fetches left once one has ended.
LEMMA EndedIs ==
  ASSUME fetch \in Seq(List!Answer), NEW k \in 1..Len(fetch)
  PROVE  /\ List!Ended(k) \in Seq(List!Answer) /\ Len(List!Ended(k)) = Len(fetch) - 1
         /\ \A j \in 1..Len(fetch) - 1 :
              IF j < k THEN List!Ended(k)[j].late ELSE List!Ended(k)[j] = fetch[j + 1]
<1>1. PICK n : n = Len(fetch) - 1 /\ n \in Nat
  OBVIOUS
<1>2. PICK r : r = [j \in 1..n |-> IF j < k THEN [fetch[j] EXCEPT !.late = TRUE] ELSE fetch[j + 1]]
  OBVIOUS
<1>3. r = List!Ended(k)
  BY <1>1, <1>2 DEF List!Ended
<1>4. \A j \in 1..n : fetch[j] \in List!Answer /\ fetch[j + 1] \in List!Answer
  BY <1>1
<1>5. \A j \in 1..n : r[j] \in List!Answer /\ IF j < k THEN r[j].late ELSE r[j] = fetch[j + 1]
  BY <1>2, <1>4, LateIs
<1>6. r \in Seq(List!Answer) /\ Len(r) = n
  <2>1. r \in [1..n -> List!Answer]
    BY <1>2, <1>5
  <2> QED
    BY <1>1, <2>1, Marked
<1> QED
  BY <1>1, <1>3, <1>5, <1>6

LEMMA ListInit == List!Init => ListInv
<1> SUFFICES ASSUME List!Init PROVE ListInv
  OBVIOUS
<1>1. PICK a : a = List!Asked(view, FALSE)
  OBVIOUS
<1>2. view \in View /\ a \in List!Answer /\ a.view = view /\ a.at = "sent"
  BY <1>1, AskedIs DEF List!Init
<1>3. fetch = <<a>> /\ data = [a EXCEPT !.late = TRUE] /\ active = [u \in Row |-> TRUE]
      /\ toggle = [q \in Action |-> List!Rest]
  BY <1>1 DEF List!Init
<1>4. data \in List!Answer /\ data.late
  BY <1>2, <1>3, LateIs
<1>5. fetch \in Seq(List!Answer) /\ Len(fetch) = 1 /\ fetch[1] = a /\ DOMAIN fetch = 1..1
  BY <1>2, <1>3
<1>6. 1 <= MaxFetch
  BY ServerBounds
<1>7. List!TypeOK
  BY <1>2, <1>3, <1>4, <1>5, <1>6 DEF List!TypeOK
<1>8. Truthful(a, FALSE) /\ Truthful(data, TRUE)
  BY <1>2, <1>4 DEF Truthful
<1>9. \A k \in 1..Len(fetch) : fetch[k] = a /\ k = Len(fetch)
  BY <1>5
<1>10. \A k \in 1..Len(fetch) : Truthful(fetch[k], k # Len(fetch))
  BY <1>2, <1>9 DEF Truthful
<1> QED
  BY <1>4, <1>5, <1>7, <1>8, <1>10 DEF ListInv, Truthful

\* What is on the screen and under way, and what of it may still be wrong.
LEMMA ListFacts ==
  ASSUME ListInv
  PROVE  /\ active \in [Row -> BOOLEAN] /\ view \in View /\ data \in List!Answer
         /\ fetch \in Seq(List!Answer) /\ DOMAIN fetch = 1..Len(fetch) /\ Len(fetch) \in 0..MaxFetch
         /\ \A k \in 1..Len(fetch) : fetch[k] \in List!Answer
         /\ toggle \in [Action -> {List!Rest} \cup [at : {"sent", "done"}, user : Row, to : BOOLEAN, view : View]]
BY ServerBounds DEF ListInv, List!TypeOK

\* One more fetch: whatever was wrong is put right by it.
LEMMA OneMore ==
  ASSUME ListInv, NEW a \in List!Answer, a.at = "sent", a.view = view' \/ a.again = TRUE,
         Len(fetch) < MaxFetch, fetch' = Append(fetch, a), view' \in View,
         toggle' \in [Action -> {List!Rest} \cup [at : {"sent", "done"}, user : Row, to : BOOLEAN, view : View]],
         UNCHANGED <<active, data>>
  PROVE  ListInv'
<1>1. /\ fetch' \in Seq(List!Answer) /\ Len(fetch') = Len(fetch) + 1 /\ fetch'[Len(fetch')] = a
      /\ Len(fetch') <= MaxFetch /\ \A k \in 1..Len(fetch') : fetch'[k] \in List!Answer
  BY ListFacts, ServerBounds
<1>2. List!TypeOK'
  BY <1>1, ListFacts DEF List!TypeOK, List!Answer
<1>3. Truthful(data, Len(fetch) # 0)' /\ (~data'.late => data'.at = "read")
  <2>1. Len(fetch') # 0 /\ data' = data
    BY <1>1, ListFacts
  <2> QED
    BY <2>1 DEF Truthful, ListInv
<1>4. ASSUME NEW k \in 1..Len(fetch')
      PROVE  Truthful(fetch[k], k # Len(fetch))'
  <2>1. CASE k = Len(fetch')
    BY <1>1, <2>1 DEF Truthful
  <2>2. CASE k # Len(fetch')
    BY <2>2 DEF Truthful
  <2> QED
    BY <2>1, <2>2
<1> QED
  BY <1>1, <1>2, <1>3, <1>4 DEF ListInv

\* One fetch less: those before it are late, those after it are as they were.
LEMMA OneEnded ==
  ASSUME ListInv, NEW k \in 1..Len(fetch), fetch' = List!Ended(k), UNCHANGED <<active, view, toggle>>,
         data' \in List!Answer, data'.late \/ (data'.at = "read" /\ data' = fetch[k])
  PROVE  ListInv'
<1>1. /\ fetch' \in Seq(List!Answer) /\ Len(fetch') = Len(fetch) - 1
      /\ \A j \in 1..Len(fetch) - 1 : IF j < k THEN fetch'[j].late ELSE fetch'[j] = fetch[j + 1]
  BY ListFacts, EndedIs
<1>2. Len(fetch') <= MaxFetch /\ \A j \in 1..Len(fetch') : fetch'[j] \in List!Answer
  BY <1>1, ListFacts, ServerBounds
<1>3. List!TypeOK'
  BY <1>1, <1>2, ListFacts DEF List!TypeOK, List!Answer
<1>4. Truthful(data, Len(fetch) # 0)' /\ (~data'.late => data'.at = "read")
  <2>1. CASE data'.late
    BY <2>1 DEF Truthful
  <2>2. CASE ~data'.late
    <3>1. data' = fetch[k] /\ data'.at = "read" /\ Truthful(fetch[k], k # Len(fetch))
      BY <2>2 DEF ListInv
    <3>2. k # Len(fetch) => Len(fetch') # 0
      BY <1>1, ListFacts
    <3> QED
      BY <3>1, <3>2 DEF Truthful
  <2> QED
    BY <2>1, <2>2
<1>5. ASSUME NEW j \in 1..Len(fetch')
      PROVE  Truthful(fetch[j], j # Len(fetch))'
  <2>1. j \in 1..Len(fetch) - 1 /\ j + 1 \in 1..Len(fetch)
    BY <1>1, ListFacts
  <2>2. CASE j < k
    BY <1>1, <2>1, <2>2 DEF Truthful
  <2>3. CASE ~(j < k)
    <3>1. fetch'[j] = fetch[j + 1] /\ Truthful(fetch[j + 1], j + 1 # Len(fetch))
      BY <1>1, <2>1, <2>3 DEF ListInv
    <3>2. j + 1 # Len(fetch) => j # Len(fetch')
      BY <1>1, <2>1, ListFacts
    <3> QED
      BY <3>1, <3>2 DEF Truthful
  <2> QED
    BY <2>2, <2>3
<1> QED
  BY <1>1, <1>3, <1>4, <1>5 DEF ListInv

\* A change the page is not told of: what was read is late, the rest still to be read.
LEMMA UnseenKeeps ==
  ASSUME ListInv, List!Unseen, active' \in [Row -> BOOLEAN], view' = view,
         toggle' \in [Action -> {List!Rest} \cup [at : {"sent", "done"}, user : Row, to : BOOLEAN, view : View]]
  PROVE  ListInv'
<1>1. data' \in List!Answer /\ data'.late
  BY ListFacts, LateIs DEF List!Unseen
<1>2. fetch' = [k \in 1..Len(fetch) |-> [fetch[k] EXCEPT !.late = @ \/ fetch[k].at = "read"]]
  BY ListFacts DEF List!Unseen
<1>3. \A k \in 1..Len(fetch) : [fetch[k] EXCEPT !.late = @ \/ fetch[k].at = "read"] \in List!Answer
  BY ListFacts, UnseenIs
<1>4. fetch' \in [1..Len(fetch) -> List!Answer]
  BY <1>2, <1>3
<1>5. Len(fetch) \in Nat
  BY ListFacts
<1>6. fetch' \in Seq(List!Answer) /\ Len(fetch') = Len(fetch)
  BY <1>4, <1>5, Marked
<1>7. \A k \in DOMAIN fetch' : fetch'[k] \in List!Answer
  BY <1>4
<1>8. List!TypeOK'
  BY <1>1, <1>6, <1>7, ListFacts DEF List!TypeOK, List!Answer
<1>9. Truthful(data, Len(fetch) # 0)' /\ (~data'.late => data'.at = "read")
  BY <1>1 DEF Truthful
<1>10. ASSUME NEW k \in 1..Len(fetch')
       PROVE  Truthful(fetch[k], k # Len(fetch))'
  <2>1. k \in 1..Len(fetch) /\ fetch[k] \in List!Answer /\ Truthful(fetch[k], k # Len(fetch))
    BY <1>6, ListFacts DEF ListInv
  <2>2. /\ fetch'[k].late <=> fetch[k].late \/ fetch[k].at = "read"
        /\ fetch'[k].at = fetch[k].at /\ fetch'[k].view = fetch[k].view /\ fetch'[k].again = fetch[k].again
    BY <1>2, <2>1, UnseenIs
  <2> QED
    BY <1>6, <2>1, <2>2 DEF Truthful
<1> QED
  BY <1>6, <1>8, <1>9, <1>10 DEF ListInv

LEMMA ListNext == ListInv /\ List!Next => ListInv'
<1> SUFFICES ASSUME ListInv, List!Next PROVE ListInv'
  OBVIOUS
<1> DEFINE Doing == [at : {"sent", "done"}, user : Row, to : BOOLEAN, view : View]
<1>1. ASSUME NEW v \in View, List!Choose(v)
      PROVE  ListInv'
  <2>1. PICK a : a = List!Asked(v, FALSE)
    OBVIOUS
  <2>2. /\ a \in List!Answer /\ a.at = "sent" /\ a.view = v
        /\ view' = v /\ fetch' = Append(fetch, a) /\ Len(fetch) < MaxFetch /\ UNCHANGED <<active, data, toggle>>
    BY <1>1, <2>1, AskedIs DEF List!Choose, List!Fetched
  <2> QED
    BY <2>2, ListFacts, OneMore
<1>2. ASSUME NEW k \in DOMAIN fetch, List!ReadList(k)
      PROVE  ListInv'
  <2>1. PICK a : a = [fetch[k] EXCEPT !.at = "read", !.active = active]
    OBVIOUS
  <2>2. k \in 1..Len(fetch) /\ fetch[k] \in List!Answer /\ active \in [Row -> BOOLEAN]
    BY ListFacts
  <2>3. a = [view |-> fetch[k].view, again |-> fetch[k].again, at |-> "read", active |-> active,
             late |-> fetch[k].late]
    BY <2>1, <2>2 DEF List!Answer
  <2>4. /\ a \in List!Answer /\ a.at = "read" /\ a.active = active /\ a.view = fetch[k].view
        /\ a.again = fetch[k].again /\ a.late = fetch[k].late
    BY <2>2, <2>3 DEF List!Answer
  <2>5. fetch' = [fetch EXCEPT ![k] = a] /\ UNCHANGED <<active, view, data, toggle>>
    BY <1>2, <2>1, ListFacts DEF List!ReadList
  <2>6. /\ fetch' \in Seq(List!Answer) /\ Len(fetch') = Len(fetch) /\ fetch'[k] = a
        /\ \A j \in 1..Len(fetch) : fetch'[j] \in List!Answer /\ (j # k => fetch'[j] = fetch[j])
    BY <2>2, <2>4, <2>5, ListFacts
  <2>7. List!TypeOK'
    BY <2>5, <2>6, ListFacts DEF List!TypeOK, List!Answer
  <2>8. Truthful(data, Len(fetch) # 0)' /\ (~data'.late => data'.at = "read")
    BY <2>5, <2>6 DEF ListInv, Truthful
  <2>9. ASSUME NEW j \in 1..Len(fetch')
        PROVE  Truthful(fetch[j], j # Len(fetch))'
    <3>1. j \in 1..Len(fetch) /\ Truthful(fetch[j], j # Len(fetch))
      BY <2>6 DEF ListInv
    <3>2. CASE j = k
      BY <2>4, <2>5, <2>6, <3>1, <3>2 DEF Truthful
    <3>3. CASE j # k
      BY <2>5, <2>6, <3>1, <3>3 DEF Truthful
    <3> QED
      BY <3>2, <3>3
  <2> QED
    BY <2>6, <2>7, <2>8, <2>9 DEF ListInv
<1>3. ASSUME NEW k \in DOMAIN fetch, List!Show(k) \/ List!FetchFails(k)
      PROVE  ListInv'
  <2>1. k \in 1..Len(fetch) /\ fetch' = List!Ended(k) /\ UNCHANGED <<active, view, toggle>>
    BY <1>3, ListFacts DEF List!Show, List!FetchFails
  <2>2. data' \in List!Answer /\ (data'.late \/ (data'.at = "read" /\ data' = fetch[k]))
    <3>1. CASE List!Show(k)
      BY <2>1, <3>1, ListFacts DEF List!Show
    <3>2. CASE List!FetchFails(k)
      BY <3>2, ListFacts, LateIs DEF List!FetchFails
    <3> QED
      BY <1>3, <3>1, <3>2
  <2> QED
    BY <2>1, <2>2, OneEnded
<1>4. ASSUME NEW q \in Action, NEW u \in Row, List!Toggle(q, u)
      PROVE  ListInv'
  <2>1. PICK to : to = ~data.active[u]
    OBVIOUS
  <2>2. toggle[q] = List!Rest /\ data.at = "read" /\ UNCHANGED <<active, view, data, fetch>>
        /\ toggle' = [toggle EXCEPT ![q] = [at |-> "sent", user |-> u, to |-> to, view |-> view]]
    BY <1>4, <2>1 DEF List!Toggle
  <2>3. to \in BOOLEAN
    BY <2>1, ListFacts DEF List!Answer
  <2>4. toggle' \in [Action -> {List!Rest} \cup Doing]
    BY <2>2, <2>3, ListFacts
  <2>5. List!TypeOK'
    BY <2>2, <2>4, ListFacts DEF List!TypeOK, List!Answer, ListInv
  <2>6. \A p \in Action : toggle[p].at = "done" => toggle'[p].at = "done"
    <3>1. toggle[q].at # "done"
      BY <2>2 DEF List!Rest
    <3> QED
      BY <2>2, <3>1, ListFacts
  <2>8. Truthful(data, Len(fetch) # 0)' /\ \A k \in 1..Len(fetch) : Truthful(fetch[k], k # Len(fetch))'
    BY <2>2, <2>6 DEF ListInv, Truthful
  <2> QED
    BY <2>2, <2>5, <2>8 DEF ListInv
<1>5. ASSUME NEW q \in Action, List!SetActive(q)
      PROVE  ListInv'
  <2>1. PICK d : d = toggle[q]
    OBVIOUS
  <2>2. d \in Doing
    BY <1>5, <2>1, ListFacts DEF List!SetActive, List!Rest
  <2>3. /\ active' = [active EXCEPT ![d.user] = d.to] /\ UNCHANGED <<view, data, fetch>>
        /\ toggle' = [toggle EXCEPT ![q] = [d EXCEPT !.at = "done"]]
    BY <1>5, <2>1, ListFacts DEF List!SetActive
  <2>4. active' \in [Row -> BOOLEAN]
    BY <2>2, <2>3, ListFacts
  <2>5. [d EXCEPT !.at = "done"] \in Doing /\ [d EXCEPT !.at = "done"].at = "done"
    BY <2>2
  <2>6. toggle' \in [Action -> {List!Rest} \cup Doing] /\ toggle'[q].at = "done"
    BY <2>3, <2>5, ListFacts
  <2>7. List!TypeOK'
    BY <2>3, <2>4, <2>6, ListFacts DEF List!TypeOK, List!Answer, ListInv
  <2>8. Truthful(data, Len(fetch) # 0)' /\ \A k \in 1..Len(fetch) : Truthful(fetch[k], k # Len(fetch))'
    BY <2>3, <2>6 DEF ListInv, Truthful
  <2> QED
    BY <2>3, <2>7, <2>8 DEF ListInv
<1>6. ASSUME NEW q \in Action, List!Toggled(q)
      PROVE  ListInv'
  <2>1. toggle[q] \in Doing
    BY <1>6, ListFacts DEF List!Toggled, List!Rest
  <2>2. PICK a : a = List!Asked(toggle[q].view, TRUE)
    OBVIOUS
  <2>3. a \in List!Answer /\ a.at = "sent" /\ a.again = TRUE
    BY <2>1, <2>2, AskedIs
  <2>4. /\ fetch' = Append(fetch, a) /\ Len(fetch) < MaxFetch /\ UNCHANGED <<active, view, data>>
        /\ toggle' = [toggle EXCEPT ![q] = List!Rest]
    BY <1>6, <2>2 DEF List!Toggled, List!Refetched
  <2>5. toggle' \in [Action -> {List!Rest} \cup Doing]
    BY <2>4, ListFacts
  <2> QED
    BY <2>3, <2>4, <2>5, ListFacts, OneMore
<1>7. ASSUME NEW q \in Action, List!ToggleFails(q)
      PROVE  ListInv'
  <2>1. toggle' = [toggle EXCEPT ![q] = List!Rest] /\ List!Unseen /\ UNCHANGED <<active, view>>
    BY <1>7 DEF List!ToggleFails
  <2>2. toggle' \in [Action -> {List!Rest} \cup Doing]
    BY <2>1, ListFacts
  <2> QED
    BY <2>1, <2>2, ListFacts, UnseenKeeps
<1>8. ASSUME NEW u \in Row, List!Elsewhere(u)
      PROVE  ListInv'
  <2>1. PICK to \in BOOLEAN : to = ~active[u]
    OBVIOUS
  <2>2. active' = [active EXCEPT ![u] = to] /\ List!Unseen /\ UNCHANGED <<view, toggle>>
    BY <1>8, <2>1, ListFacts DEF List!Elsewhere
  <2>3. active' \in [Row -> BOOLEAN]
    BY <2>2, ListFacts
  <2> QED
    BY <2>2, <2>3, ListFacts, UnseenKeeps
<1> QED
  BY <1>1, <1>2, <1>3, <1>4, <1>5, <1>6, <1>7, <1>8 DEF List!Next

LEMMA ScreenTruthful == ListInv => List!ScreenFollows
<1> SUFFICES ASSUME ListInv, fetch = <<>>, \A q \in Action : toggle[q] = List!Rest, ~data.late
             PROVE  data.active = active /\ (data.view = view \/ data.again)
  BY DEF List!ScreenFollows
<1>1. Len(fetch) = 0 /\ data.at = "read"
  BY DEF ListInv
<1>2. \A q \in Action : toggle[q].at # "done"
  BY DEF List!Rest
<1>3. data.active = active /\ (data.view = view \/ data.again = TRUE)
  BY <1>1, <1>2 DEF ListInv, Truthful
<1> QED
  BY <1>3, Zenon

-----------------------------------------------------------------------------
(* The page of one user *)

FactRead == [Detail!Fact -> BOOLEAN \cup {None}]
FetchRead == [of : User, got : FactRead, late : BOOLEAN]
ShownRead == [of : User \cup {None}, got : [Detail!Fact -> BOOLEAN], late : BOOLEAN, kept : BOOLEAN]

\* The variables of the page, in more detail than its type invariant.
DetailTypes ==
  /\ record \in [User -> [Detail!Fact -> BOOLEAN]] /\ address \in User /\ loading \in BOOLEAN
  /\ visits \in Nat /\ visits < MaxFetch /\ Len(gather) <= visits + 1 /\ (gather = <<>> => ~loading)
  /\ gather \in Seq(FetchRead) /\ shown \in ShownRead /\ acted \in 0..MaxDeed
  /\ deeds \in [1..MaxDeed -> Detail!Deed \cup {None}] /\ \A q \in 1..MaxDeed : q > acted => deeds[q] = None

\* What a fetch that is not late has read is so, and the last is of the address.
FetchTrue(a, last) ==
  ~a.late => /\ \A f \in Detail!Fact : a.got[f] # None => a.got[f] = record[a.of][f]
             /\ last => a.of = address

FetchesTrue ==
  /\ \A k \in 1..Len(gather) : FetchTrue(gather[k], k = Len(gather))
  /\ ~shown.late => shown.of \in User /\ (Len(gather) = 0 => shown.of = address)

\* A card does one action at a time on the user that is shown, and only disabling
\* a user has a second statement.
Own(q) == deeds[q] # None /\ ~deeds[q].stray

DeedsProper ==
  /\ \A q \in 1..MaxDeed : Own(q) => shown.of # None /\ deeds[q].on = shown.of
  /\ \A q \in 1..MaxDeed : deeds[q] # None /\ deeds[q].at = "half" => deeds[q].fact = "active" /\ ~deeds[q].to
  /\ \A q \in 1..MaxDeed : deeds[q] # None /\ deeds[q].fact = "active" => deeds[q].card = "header"
  /\ \A p, q \in 1..MaxDeed : Own(p) /\ Own(q) /\ deeds[p].card = deeds[q].card => p = q

\* Unless what is shown is late, or an action of an earlier screen is under way, it
\* differs from what is there by the actions that are done and not shown yet, and
\* the devices of a user disabled.
Pending(f) == \E q \in 1..MaxDeed : deeds[q] # None /\ deeds[q].at # "sent" /\ deeds[q].fact = f
Disabled ==
  \E q \in 1..MaxDeed : deeds[q] # None /\ deeds[q].at = "done" /\ deeds[q].fact = "active" /\ ~deeds[q].to

DeedShows(d) ==
  /\ d.fact = "active" => (d.to <=> ~shown.got["active"])
  /\ d.fact # "active" => ~d.to
  /\ d.at # "sent" => (record[shown.of][d.fact] <=> d.to)

ActiveShown == (shown.got["active"] <=> record[shown.of]["active"]) \/ Pending("active")

GoneShown(f) ==
  /\ record[shown.of][f] => shown.got[f]
  /\ shown.got[f] /\ ~record[shown.of][f] => Pending(f) \/ (f = "devices" /\ (shown.kept \/ Disabled))

AsShown ==
  ~shown.late /\ (\A q \in 1..MaxDeed : deeds[q] # None => ~deeds[q].stray) =>
    /\ \A q \in 1..MaxDeed : deeds[q] # None => DeedShows(deeds[q])
    /\ ActiveShown /\ GoneShown("sync") /\ GoneShown("devices")

DetailInv == DetailTypes /\ FetchesTrue /\ DeedsProper /\ AsShown

LEMMA DetailTypeOK == DetailTypes => Detail!TypeOK
<1> SUFFICES ASSUME DetailTypes PROVE Detail!TypeOK
  OBVIOUS
<1>1. Len(gather) <= MaxFetch
  BY ServerBounds DEF DetailTypes
<1> QED
  BY <1>1 DEF DetailTypes, ShownRead, Detail!TypeOK

LEMMA DetailTruthful == DetailInv => Detail!DetailFollows
<1> SUFFICES ASSUME DetailInv, gather = <<>>, \A q \in 1..MaxDeed : deeds[q] = None, ~shown.late
             PROVE  /\ shown.of = address
                    /\ \A f \in Detail!Fact : \/ shown.got[f] = record[address][f]
                                              \/ shown.kept /\ f = "devices" /\ ~record[address][f]
  BY DEF DetailInv, DetailTypes, Detail!DetailFollows
<1>1. shown.of = address /\ address \in User
  BY DEF DetailInv, DetailTypes, FetchesTrue
<1>2. ActiveShown /\ GoneShown("sync") /\ GoneShown("devices")
  BY DEF DetailInv, AsShown
<1>3. /\ shown.got["active"] <=> record[address]["active"]
      /\ shown.got["sync"] <=> record[address]["sync"]
      /\ \/ shown.got["devices"] <=> record[address]["devices"]
         \/ shown.kept /\ ~record[address]["devices"]
  BY <1>1, <1>2 DEF ActiveShown, GoneShown, Pending, Disabled
<1>4. /\ shown.got \in [Detail!Fact -> BOOLEAN] /\ record[address] \in [Detail!Fact -> BOOLEAN]
  BY <1>1 DEF DetailInv, DetailTypes, ShownRead
<1>5. Detail!Fact = {"active", "devices", "sync"}
  BY DEF Detail!Fact
<1> QED
  BY <1>1, <1>3, <1>4, <1>5

LEMMA DetailInit == Detail!Init => DetailInv
<1> SUFFICES ASSUME Detail!Init PROVE DetailInv
  OBVIOUS
<1>1. PICK a : a = Detail!FetchAll(address)
  OBVIOUS
<1>2. address \in User /\ a \in FetchRead /\ a.of = address /\ \A f \in Detail!Fact : a.got[f] = None
  BY <1>1 DEF Detail!Init, Detail!FetchAll, FetchRead, FactRead
<1>3. gather = <<a>> /\ visits = 0 /\ loading = TRUE /\ acted = 0 /\ deeds = [q \in 1..MaxDeed |-> None]
  BY <1>1 DEF Detail!Init
<1>4. gather \in Seq(FetchRead) /\ Len(gather) = 1 /\ gather[1] = a /\ gather # <<>>
  BY <1>2, <1>3
<1>5. record \in [User -> [Detail!Fact -> BOOLEAN]] /\ shown \in ShownRead /\ shown.late
  BY DEF Detail!Init, ShownRead
<1>6. DetailTypes
  BY <1>2, <1>3, <1>4, <1>5, ServerBounds DEF DetailTypes
<1>7. FetchesTrue
  BY <1>2, <1>4, <1>5 DEF FetchesTrue, FetchTrue
<1>8. DeedsProper /\ AsShown
  BY <1>3, <1>5 DEF DeedsProper, AsShown, Own
<1> QED
  BY <1>6, <1>7, <1>8 DEF DetailInv

\* What has been read of a user's fact before it changes is late, the rest stays.
LEMMA OvertakenIs ==
  ASSUME DetailTypes, NEW u \in User, NEW f \in Detail!Fact, Detail!Overtaken(u, f)
  PROVE  /\ gather' \in Seq(FetchRead) /\ Len(gather') = Len(gather)
         /\ \A k \in 1..Len(gather) :
              /\ gather'[k].of = gather[k].of /\ gather'[k].got = gather[k].got
              /\ ~gather'[k].late => ~gather[k].late /\ (gather[k].of = u => gather[k].got[f] = None)
<1>1. DOMAIN gather = 1..Len(gather) /\ \A k \in 1..Len(gather) : gather[k] \in FetchRead
  BY DEF DetailTypes
<1>2. ASSUME NEW k \in 1..Len(gather)
      PROVE  /\ gather'[k] \in FetchRead /\ gather'[k].of = gather[k].of /\ gather'[k].got = gather[k].got
             /\ ~gather'[k].late => ~gather[k].late /\ (gather[k].of = u => gather[k].got[f] = None)
  <2>1. PICK a : a = gather[k]
    OBVIOUS
  <2>2. PICK l \in BOOLEAN : l = (a.late \/ (a.of = u /\ a.got[f] # None))
    OBVIOUS
  <2>3. a \in FetchRead
    BY <1>1, <2>1
  <2>4. gather'[k] = [a EXCEPT !.late = l]
    BY <1>1, <2>1, <2>2 DEF Detail!Overtaken
  <2>5. gather'[k] = [of |-> a.of, got |-> a.got, late |-> l]
    BY <2>3, <2>4 DEF FetchRead
  <2>6. gather'[k] \in FetchRead /\ gather'[k].of = a.of /\ gather'[k].got = a.got
    BY <2>3, <2>5 DEF FetchRead
  <2>7. ~gather'[k].late => ~l
    BY <2>5
  <2> QED
    BY <2>1, <2>2, <2>6, <2>7
<1>3. gather' = [k \in 1..Len(gather) |-> gather'[k]]
  BY <1>1 DEF Detail!Overtaken
<1>4. gather' \in [1..Len(gather) -> FetchRead] /\ Len(gather) \in Nat
  BY <1>2, <1>3 DEF DetailTypes
<1> QED
  BY <1>2, <1>4, Marked

\* The fetches left once one has ended.
LEMMA FetchEndedIs ==
  ASSUME DetailTypes, NEW k \in 1..Len(gather)
  PROVE  /\ Detail!Ended(k) \in Seq(FetchRead) /\ Len(Detail!Ended(k)) = Len(gather) - 1
         /\ \A j \in 1..Len(gather) - 1 :
              IF j < k THEN Detail!Ended(k)[j].late ELSE Detail!Ended(k)[j] = gather[j + 1]
<1>0. gather \in Seq(FetchRead)
  BY DEF DetailTypes
<1>1. PICK n : n = Len(gather) - 1 /\ n \in Nat
  BY <1>0
<1>2. PICK r : r = [j \in 1..n |-> IF j < k THEN [gather[j] EXCEPT !.late = TRUE] ELSE gather[j + 1]]
  OBVIOUS
<1>3. r = Detail!Ended(k)
  BY <1>1, <1>2 DEF Detail!Ended
<1>4. \A j \in 1..n : gather[j] \in FetchRead /\ gather[j + 1] \in FetchRead
  BY <1>0, <1>1
<1>5. ASSUME NEW a \in FetchRead
      PROVE  [a EXCEPT !.late = TRUE] \in FetchRead /\ [a EXCEPT !.late = TRUE].late
  BY DEF FetchRead
<1>6. \A j \in 1..n : r[j] \in FetchRead /\ IF j < k THEN r[j].late ELSE r[j] = gather[j + 1]
  BY <1>2, <1>4, <1>5
<1>7. r \in Seq(FetchRead) /\ Len(r) = n
  <2>1. r \in [1..n -> FetchRead]
    BY <1>2, <1>6
  <2> QED
    BY <1>1, <2>1, Marked
<1> QED
  BY <1>1, <1>3, <1>6, <1>7

\* The fetches after one has ended, when it is shown or changes nothing.
LEMMA FetchesAfter ==
  ASSUME DetailInv, NEW k \in 1..Len(gather), gather' = Detail!Ended(k), UNCHANGED <<record, address, visits>>,
         shown'.late \/ (shown'.of = gather[k].of /\ ~gather[k].late)
  PROVE  /\ gather' \in Seq(FetchRead) /\ Len(gather') <= visits' + 1
         /\ FetchesTrue'
<1>1. /\ gather' \in Seq(FetchRead) /\ Len(gather') = Len(gather) - 1
      /\ \A j \in 1..Len(gather) - 1 : IF j < k THEN gather'[j].late ELSE gather'[j] = gather[j + 1]
  BY FetchEndedIs DEF DetailInv
<1>2. Len(gather') <= visits' + 1 /\ Len(gather) \in Nat
  BY <1>1 DEF DetailInv, DetailTypes
<1>3. ASSUME NEW j \in 1..Len(gather')
      PROVE  FetchTrue(gather[j], j = Len(gather))'
  <2>1. j \in 1..Len(gather) - 1 /\ j + 1 \in 1..Len(gather)
    BY <1>1, <1>2
  <2>2. CASE j < k
    BY <1>1, <2>1, <2>2 DEF FetchTrue
  <2>3. CASE ~(j < k)
    <3>1. gather'[j] = gather[j + 1] /\ FetchTrue(gather[j + 1], j + 1 = Len(gather))
      BY <1>1, <2>1, <2>3 DEF DetailInv, FetchesTrue
    <3>2. j = Len(gather') => j + 1 = Len(gather)
      BY <1>1, <1>2, <2>1
    <3> QED
      BY <3>1, <3>2 DEF FetchTrue
  <2> QED
    BY <2>2, <2>3
<1>5. ~shown'.late => shown'.of \in User
  <2>1. gather[k] \in FetchRead
    BY DEF DetailInv, DetailTypes
  <2> QED
    BY <2>1 DEF FetchRead
<1>4. ~shown'.late /\ Len(gather') = 0 => shown'.of = address'
  <2> SUFFICES ASSUME ~shown'.late, Len(gather') = 0 PROVE shown'.of = address'
    OBVIOUS
  <2>1. k = Len(gather)
    <3>1. Len(gather) = 1
      BY <1>1, <1>2
    <3> QED
      BY <3>1
  <2>2. FetchTrue(gather[k], k = Len(gather))
    BY DEF DetailInv, FetchesTrue
  <2>3. ~gather[k].late /\ shown'.of = gather[k].of
    OBVIOUS
  <2> QED
    BY <2>1, <2>2, <2>3 DEF FetchTrue
<1> QED
  BY <1>1, <1>2, <1>3, <1>4, <1>5 DEF FetchesTrue

\* A fact that changes is late where it was read; the rest has been read as it is.
LEMMA FetchesOvertaken ==
  ASSUME DetailInv, NEW u \in User, NEW f \in Detail!Fact, NEW to \in BOOLEAN, Detail!Overtaken(u, f),
         record' = [record EXCEPT ![u][f] = to], address' = address, visits' = visits,
         ~shown'.late => ~shown.late, shown'.of = shown.of
  PROVE  /\ gather' \in Seq(FetchRead) /\ Len(gather') <= visits' + 1 /\ (gather' = <<>> <=> gather = <<>>)
         /\ record' \in [User -> [Detail!Fact -> BOOLEAN]]
         /\ FetchesTrue'
<1>1. /\ gather' \in Seq(FetchRead) /\ Len(gather') = Len(gather)
      /\ \A k \in 1..Len(gather) :
           /\ gather'[k].of = gather[k].of /\ gather'[k].got = gather[k].got
           /\ ~gather'[k].late => ~gather[k].late /\ (gather[k].of = u => gather[k].got[f] = None)
  BY OvertakenIs DEF DetailInv
<1>2. gather \in Seq(FetchRead) /\ Len(gather) <= visits + 1 /\ record \in [User -> [Detail!Fact -> BOOLEAN]]
  BY DEF DetailInv, DetailTypes
<1>3. gather' = <<>> <=> gather = <<>>
  BY <1>1, <1>2
<1>4. record' \in [User -> [Detail!Fact -> BOOLEAN]]
  BY <1>2
<1>5. \A v \in User, g \in Detail!Fact : v # u \/ g # f => record'[v][g] = record[v][g]
  BY <1>2
<1>6. ASSUME NEW k \in 1..Len(gather')
      PROVE  FetchTrue(gather[k], k = Len(gather))'
  <2>5. k \in 1..Len(gather) /\ gather[k] \in FetchRead
    BY <1>1, <1>2
  <2>1. k \in 1..Len(gather) /\ FetchTrue(gather[k], k = Len(gather)) /\ gather[k].of \in User
    BY <2>5 DEF DetailInv, FetchesTrue, FetchRead
  <2>2. SUFFICES ASSUME ~gather'[k].late
                 PROVE  /\ \A g \in Detail!Fact : gather'[k].got[g] # None => gather'[k].got[g] = record'[gather'[k].of][g]
                        /\ k = Len(gather') => gather'[k].of = address'
    BY DEF FetchTrue
  <2>3. /\ \A g \in Detail!Fact : gather[k].got[g] # None => gather[k].got[g] = record[gather[k].of][g]
        /\ k = Len(gather) => gather[k].of = address
    BY <1>1, <2>1, <2>2 DEF FetchTrue
  <2>4. gather[k].of = u => gather[k].got[f] = None
    BY <1>1, <2>1, <2>2
  <2> QED
    BY <1>1, <1>5, <2>1, <2>3, <2>4
<1>7. ~shown'.late => shown'.of \in User /\ (Len(gather') = 0 => shown'.of = address')
  BY <1>1 DEF DetailInv, FetchesTrue
<1> QED
  BY <1>1, <1>2, <1>3, <1>4, <1>6, <1>7 DEF FetchesTrue

\* A page that shows the same with the same actions under way.
LEMMA SameShown ==
  ASSUME DetailInv, UNCHANGED <<record, shown, deeds>>
  PROVE  DeedsProper' /\ AsShown'
<1>1. DeedsProper'
  BY DEF DetailInv, DeedsProper, Own
<1>2. AsShown'
  BY DEF DetailInv, AsShown, DeedShows, ActiveShown, GoneShown, Pending, Disabled
<1> QED
  BY <1>1, <1>2

\* An action whose screen is gone, or that has come further.
LEMMA DeedWith ==
  ASSUME NEW d \in Detail!Deed, NEW at \in {"sent", "half", "done"}, NEW e,
         e = [d EXCEPT !.stray = TRUE] \/ e = [d EXCEPT !.at = at]
  PROVE  /\ e \in Detail!Deed /\ e # None
         /\ e.card = d.card /\ e.on = d.on /\ e.fact = d.fact /\ e.to = d.to
         /\ e = [d EXCEPT !.stray = TRUE] => e.stray /\ e.at = d.at
         /\ e = [d EXCEPT !.at = at] => e.at = at /\ e.stray = d.stray
<1>1. PICK c \in Detail!Card, u \in User, f \in Detail!Fact, t \in BOOLEAN, w \in {"sent", "half", "done"}, s \in BOOLEAN :
        d = [card |-> c, on |-> u, fact |-> f, to |-> t, at |-> w, stray |-> s]
  BY DEF Detail!Deed
<1>2. CASE e = [d EXCEPT !.stray = TRUE]
  <2>1. e = [card |-> c, on |-> u, fact |-> f, to |-> t, at |-> w, stray |-> TRUE]
    BY <1>1, <1>2
  <2>2. e \in Detail!Deed
    BY <2>1 DEF Detail!Deed
  <2> QED
    BY <1>1, <2>1, <2>2, DeedAssumption
<1>3. CASE e = [d EXCEPT !.at = at]
  <2>1. e = [card |-> c, on |-> u, fact |-> f, to |-> t, at |-> at, stray |-> s]
    BY <1>1, <1>3
  <2>2. e \in Detail!Deed
    BY <2>1 DEF Detail!Deed
  <2> QED
    BY <1>1, <2>1, <2>2, DeedAssumption
<1> QED
  BY <1>2, <1>3

\* Whatever is under way is of an earlier screen.
LEMMA AllStray ==
  ASSUME DetailInv,
         deeds' = [q \in DOMAIN deeds |-> IF deeds[q] = None THEN None ELSE [deeds[q] EXCEPT !.stray = TRUE]]
  PROVE  /\ deeds' \in [1..MaxDeed -> Detail!Deed \cup {None}]
         /\ \A q \in 1..MaxDeed : (deeds[q] = None => deeds'[q] = None) /\ (deeds'[q] # None => deeds'[q].stray)
         /\ DeedsProper'
         /\ (\A q \in 1..MaxDeed : deeds'[q] # None => ~deeds'[q].stray) => \A q \in 1..MaxDeed : deeds'[q] = None
         /\ (\A q \in 1..MaxDeed : deeds'[q] # None => ~deeds'[q].stray) => deeds' = deeds
<1>1. deeds \in [1..MaxDeed -> Detail!Deed \cup {None}] /\ DOMAIN deeds = 1..MaxDeed
  BY DEF DetailInv, DetailTypes
<1>2. ASSUME NEW q \in 1..MaxDeed
      PROVE  /\ deeds[q] = None => deeds'[q] = None
             /\ deeds[q] # None => /\ deeds'[q] \in Detail!Deed /\ deeds'[q] # None /\ deeds'[q].stray
                                   /\ deeds'[q].at = deeds[q].at /\ deeds'[q].fact = deeds[q].fact
                                   /\ deeds'[q].to = deeds[q].to /\ deeds'[q].card = deeds[q].card
  <2>1. CASE deeds[q] = None
    BY <1>1, <2>1
  <2>2. CASE deeds[q] # None
    <3>1. PICK d \in Detail!Deed : d = deeds[q]
      BY <1>1, <2>2
    <3>2. deeds'[q] = [d EXCEPT !.stray = TRUE]
      BY <1>1, <2>2, <3>1
    <3> QED
      BY <2>2, <3>1, <3>2, DeedWith
  <2> QED
    BY <2>1, <2>2
<1>3. deeds' \in [1..MaxDeed -> Detail!Deed \cup {None}]
  <2>1. deeds' = [q \in 1..MaxDeed |-> deeds'[q]]
    BY <1>1
  <2> QED
    BY <1>2, <2>1
<1>4. \A q \in 1..MaxDeed : ~Own(q)'
  BY <1>2 DEF Own
<1>5. DeedsProper'
  BY <1>2, <1>4 DEF DetailInv, DeedsProper
<1>6. ASSUME \A q \in 1..MaxDeed : deeds'[q] # None => ~deeds'[q].stray
      PROVE  deeds' = deeds /\ \A q \in 1..MaxDeed : deeds'[q] = None
  <2>1. \A q \in 1..MaxDeed : deeds[q] = None /\ deeds'[q] = None
    BY <1>2, <1>6
  <2> QED
    BY <1>1, <1>3, <2>1
<1> QED
  BY <1>2, <1>3, <1>5, <1>6

LEMMA DetailVisit ==
  ASSUME DetailInv, NEW u \in User, Detail!Visit(u)
  PROVE  DetailInv'
<1>1. PICK a : a = Detail!FetchAll(u)
  OBVIOUS
<1>2. a \in FetchRead /\ a.of = u /\ \A f \in Detail!Fact : a.got[f] = None
  BY <1>1 DEF Detail!FetchAll, FetchRead, FactRead
<1>3. /\ visits + 1 < MaxFetch /\ address' = u /\ visits' = visits + 1 /\ loading' = TRUE
      /\ gather' = Append(gather, a) /\ UNCHANGED <<record, shown, acted>>
      /\ deeds' = [q \in DOMAIN deeds |-> IF deeds[q] = None THEN None ELSE [deeds[q] EXCEPT !.stray = TRUE]]
  BY <1>1 DEF Detail!Visit
<1>4. DetailTypes
  BY DEF DetailInv
<1>5. /\ gather' \in Seq(FetchRead) /\ Len(gather') = Len(gather) + 1 /\ gather'[Len(gather')] = a
      /\ Len(gather') <= visits' + 1 /\ gather' # <<>>
      /\ \A k \in 1..Len(gather) : gather'[k] = gather[k]
  BY <1>2, <1>3, <1>4 DEF DetailTypes
<1>6. deeds' \in [1..MaxDeed -> Detail!Deed \cup {None}] /\ \A q \in 1..MaxDeed : deeds[q] = None => deeds'[q] = None
  BY <1>3, AllStray
<1>7. DetailTypes'
  BY <1>3, <1>4, <1>5, <1>6 DEF DetailTypes
<1>8. ASSUME NEW k \in 1..Len(gather')
      PROVE  FetchTrue(gather[k], k = Len(gather))'
  <2>1. CASE k = Len(gather')
    BY <1>2, <1>3, <1>5, <2>1 DEF FetchTrue
  <2>2. CASE k # Len(gather')
    <3>1. k \in 1..Len(gather)
      BY <1>4, <1>5, <2>2 DEF DetailTypes
    <3> QED
      BY <1>3, <1>5, <2>2, <3>1 DEF FetchTrue, DetailInv, FetchesTrue
  <2> QED
    BY <2>1, <2>2
<1>9. Len(gather') # 0
  BY <1>4, <1>5 DEF DetailTypes
<1>10. DeedsProper'
  BY <1>3, AllStray
<1>11. AsShown'
  <2>1. SUFFICES ASSUME \A q \in 1..MaxDeed : deeds'[q] # None => ~deeds'[q].stray PROVE AsShown'
    BY DEF AsShown
  <2>2. deeds' = deeds
    BY <1>3, <2>1, AllStray
  <2> QED
    BY <1>3, <2>2, SameShown
<1> QED
  BY <1>3, <1>7, <1>8, <1>9, <1>10, <1>11 DEF DetailInv, FetchesTrue

LEMMA DetailReads ==
  ASSUME DetailInv, NEW k \in DOMAIN gather, NEW f \in Detail!Fact, Detail!ReadFact(k, f)
  PROVE  DetailInv'
<1>1. DetailTypes /\ k \in 1..Len(gather) /\ gather[k] \in FetchRead
  BY DEF DetailInv, DetailTypes
<1>2. PICK a : a = gather[k]
  OBVIOUS
<1>3. PICK b : b = [a EXCEPT !.got[f] = record[a.of][f]]
  OBVIOUS
<1>4. a \in FetchRead /\ record[a.of][f] \in BOOLEAN
  BY <1>1, <1>2 DEF DetailTypes, FetchRead
<1>5. b = [of |-> a.of, got |-> [a.got EXCEPT ![f] = record[a.of][f]], late |-> a.late]
  BY <1>3, <1>4 DEF FetchRead
<1>6. [a.got EXCEPT ![f] = record[a.of][f]] \in FactRead
  BY <1>4 DEF FetchRead, FactRead
<1>7. b \in FetchRead
  BY <1>4, <1>5, <1>6 DEF FetchRead
<1>8. gather' = [gather EXCEPT ![k] = b] /\ UNCHANGED <<record, address, visits, shown, loading, deeds, acted>>
  BY <1>2, <1>3 DEF Detail!ReadFact
<1>9. /\ gather' \in Seq(FetchRead) /\ Len(gather') = Len(gather) /\ gather'[k] = b /\ gather' # <<>>
      /\ \A j \in 1..Len(gather) : j # k => gather'[j] = gather[j]
  BY <1>1, <1>7, <1>8 DEF DetailTypes
<1>10. DetailTypes'
  BY <1>1, <1>8, <1>9 DEF DetailTypes
<1>11. FetchTrue(a, k = Len(gather))
  BY <1>1, <1>2 DEF DetailInv, FetchesTrue
<1>12. FetchTrue(b, k = Len(gather))'
  <2>1. b.of = a.of /\ b.late = a.late /\ b.got[f] = record[a.of][f] /\ \A g \in Detail!Fact \ {f} : b.got[g] = a.got[g]
    BY <1>4, <1>5 DEF FetchRead, FactRead
  <2> QED
    BY <1>8, <1>9, <1>11, <2>1 DEF FetchTrue
<1>13. ASSUME NEW j \in 1..Len(gather')
       PROVE  FetchTrue(gather[j], j = Len(gather))'
  <2>1. CASE j = k
    BY <1>9, <1>12, <2>1
  <2>2. CASE j # k
    <3>1. gather'[j] = gather[j] /\ FetchTrue(gather[j], j = Len(gather))
      BY <1>9, <2>2 DEF DetailInv, FetchesTrue
    <3> QED
      BY <1>8, <1>9, <3>1 DEF FetchTrue
  <2> QED
    BY <2>1, <2>2
<1>14. ~shown'.late => shown'.of \in User /\ (Len(gather') = 0 => shown'.of = address')
  BY <1>8, <1>9 DEF DetailInv, FetchesTrue
<1> QED
  BY <1>8, <1>10, <1>13, <1>14, SameShown DEF DetailInv, FetchesTrue

LEMMA DetailShows ==
  ASSUME DetailInv, NEW k \in DOMAIN gather, Detail!ShowAll(k)
  PROVE  DetailInv'
<1>1. DetailTypes /\ k \in 1..Len(gather) /\ gather[k] \in FetchRead
  BY DEF DetailInv, DetailTypes
<1>2. PICK a : a = gather[k]
  OBVIOUS
<1>3. /\ \A f \in Detail!Fact : a.got[f] # None
      /\ shown' = [of |-> a.of, got |-> a.got, late |-> a.late, kept |-> FALSE]
      /\ loading' = FALSE /\ gather' = Detail!Ended(k) /\ UNCHANGED <<record, address, visits, acted>>
      /\ deeds' = [q \in DOMAIN deeds |-> IF deeds[q] = None THEN None ELSE [deeds[q] EXCEPT !.stray = TRUE]]
  BY <1>2 DEF Detail!ShowAll
<1>4. a \in FetchRead /\ a.got \in [Detail!Fact -> BOOLEAN]
  BY <1>1, <1>2, <1>3 DEF FetchRead, FactRead
<1>5. shown' \in ShownRead
  BY <1>3, <1>4 DEF ShownRead, FetchRead
<1>6. gather' \in Seq(FetchRead) /\ Len(gather') <= visits' + 1 /\ FetchesTrue'
  <2>1. shown'.late \/ (shown'.of = gather[k].of /\ ~gather[k].late)
    BY <1>2, <1>3
  <2> QED
    BY <1>1, <1>3, <2>1, FetchesAfter
<1>7. deeds' \in [1..MaxDeed -> Detail!Deed \cup {None}] /\ \A q \in 1..MaxDeed : deeds[q] = None => deeds'[q] = None
  BY <1>3, AllStray
<1>8. DetailTypes'
  BY <1>1, <1>3, <1>5, <1>6, <1>7 DEF DetailTypes
<1>9. DeedsProper'
  BY <1>3, AllStray
<1>10. AsShown'
  <2>1. SUFFICES ASSUME ~shown'.late, \A q \in 1..MaxDeed : deeds'[q] # None => ~deeds'[q].stray
                 PROVE  /\ \A q \in 1..MaxDeed : deeds'[q] = None
                        /\ ActiveShown' /\ GoneShown("sync")' /\ GoneShown("devices")'
    BY DEF AsShown
  <2>2. \A q \in 1..MaxDeed : deeds'[q] = None
    BY <1>3, <2>1, AllStray
  <2>3. ~a.late /\ shown'.of = a.of /\ shown'.got = a.got /\ a.of \in User
    BY <1>3, <1>4, <2>1 DEF FetchRead
  <2>4. \A f \in Detail!Fact : shown'.got[f] = record'[shown'.of][f]
    BY <1>1, <1>2, <1>3, <2>3 DEF DetailInv, FetchesTrue, FetchTrue
  <2>5. "active" \in Detail!Fact /\ "sync" \in Detail!Fact /\ "devices" \in Detail!Fact
    BY DEF Detail!Fact
  <2> QED
    BY <2>2, <2>3, <2>4, <2>5 DEF ActiveShown, GoneShown
<1> QED
  BY <1>6, <1>8, <1>9, <1>10 DEF DetailInv

LEMMA DetailFetchFails ==
  ASSUME DetailInv, NEW k \in DOMAIN gather, Detail!FetchFails(k)
  PROVE  DetailInv'
<1>1. DetailTypes /\ k \in 1..Len(gather)
  BY DEF DetailInv, DetailTypes
<1>2. /\ loading' = FALSE /\ gather' = Detail!Ended(k) /\ shown' = [shown EXCEPT !.late = TRUE]
      /\ UNCHANGED <<record, address, visits, deeds, acted>>
  BY DEF Detail!FetchFails
<1>3. shown' \in ShownRead /\ shown'.late /\ shown'.of = shown.of
  BY <1>1, <1>2 DEF DetailTypes, ShownRead
<1>4. gather' \in Seq(FetchRead) /\ Len(gather') <= visits' + 1 /\ FetchesTrue'
  BY <1>1, <1>2, <1>3, FetchesAfter
<1>5. DetailTypes'
  BY <1>1, <1>2, <1>3, <1>4 DEF DetailTypes
<1>6. DeedsProper' /\ AsShown'
  BY <1>2, <1>3 DEF DetailInv, DeedsProper, Own, AsShown
<1> QED
  BY <1>4, <1>5, <1>6 DEF DetailInv

\* An action that goes on, of a page that shows the same.
LEMMA DeedGoesOn ==
  ASSUME DetailInv, NEW q \in 1..MaxDeed, deeds[q] # None, NEW at \in {"half", "done"},
         deeds' = [deeds EXCEPT ![q].at = at], UNCHANGED <<shown, acted>>,
         at = "half" => deeds[q].fact = "active" /\ ~deeds[q].to
  PROVE  /\ deeds' \in [1..MaxDeed -> Detail!Deed \cup {None}]
         /\ \A p \in 1..MaxDeed : p > acted' => deeds'[p] = None
         /\ \A p \in 1..MaxDeed : p # q => deeds'[p] = deeds[p]
         /\ deeds[q] \in Detail!Deed /\ deeds'[q] # None /\ deeds'[q].at = at
         /\ \A p \in 1..MaxDeed : deeds[p] # None =>
              /\ deeds'[p] # None /\ deeds'[p].stray = deeds[p].stray
              /\ deeds'[p].fact = deeds[p].fact /\ deeds'[p].to = deeds[p].to
         /\ \A p \in 1..MaxDeed : deeds'[p] # None => deeds[p] # None
         /\ DeedsProper'
<1>1. deeds \in [1..MaxDeed -> Detail!Deed \cup {None}] /\ \A p \in 1..MaxDeed : p > acted => deeds[p] = None
  BY DEF DetailInv, DetailTypes
<1>2. PICK d \in Detail!Deed : d = deeds[q]
  BY <1>1
<1>3. PICK e : e = [d EXCEPT !.at = at]
  OBVIOUS
<1>4. deeds' = [deeds EXCEPT ![q] = e]
  BY <1>1, <1>2, <1>3
<1>5. /\ e \in Detail!Deed /\ e # None /\ e.at = at /\ e.stray = d.stray
      /\ e.card = d.card /\ e.on = d.on /\ e.fact = d.fact /\ e.to = d.to
  BY <1>2, <1>3, DeedWith
<1>6. deeds'[q] = e /\ \A p \in 1..MaxDeed : p # q => deeds'[p] = deeds[p]
  BY <1>1, <1>4
<1>7. deeds' \in [1..MaxDeed -> Detail!Deed \cup {None}]
  BY <1>1, <1>4, <1>5
<1>8. ASSUME NEW p \in 1..MaxDeed
      PROVE  /\ deeds'[p] # None <=> deeds[p] # None
             /\ deeds[p] # None =>
                  /\ deeds'[p].stray = deeds[p].stray /\ deeds'[p].fact = deeds[p].fact
                  /\ deeds'[p].to = deeds[p].to /\ deeds'[p].card = deeds[p].card /\ deeds'[p].on = deeds[p].on
  <2>1. CASE p = q
    BY <1>2, <1>5, <1>6, <2>1
  <2>2. CASE p # q
    BY <1>6, <2>2
  <2> QED
    BY <2>1, <2>2
<1>9. \A p \in 1..MaxDeed : Own(p)' => Own(p)
  BY <1>8 DEF Own
<1>10. \A p \in 1..MaxDeed : Own(p)' => shown'.of # None /\ deeds'[p].on = shown'.of
  BY <1>8, <1>9 DEF DetailInv, DeedsProper, Own
<1>11. \A p \in 1..MaxDeed : deeds'[p] # None /\ deeds'[p].at = "half" => deeds'[p].fact = "active" /\ ~deeds'[p].to
  <2>1. (d.fact = "active" /\ ~d.to) \/ e.at # "half"
    BY <1>2, <1>5
  <2> QED
    BY <1>5, <1>6, <2>1 DEF DetailInv, DeedsProper
<1>12. \A p \in 1..MaxDeed : deeds'[p] # None /\ deeds'[p].fact = "active" => deeds'[p].card = "header"
  BY <1>8 DEF DetailInv, DeedsProper
<1>13. \A p, r \in 1..MaxDeed : Own(p)' /\ Own(r)' /\ deeds'[p].card = deeds'[r].card => p = r
  BY <1>8, <1>9 DEF DetailInv, DeedsProper, Own
<1>14. DeedsProper'
  BY <1>10, <1>11, <1>12, <1>13 DEF DeedsProper
<1>15. \A p \in 1..MaxDeed : p > acted' => deeds'[p] = None
  BY <1>1, <1>8
<1> QED
  BY <1>2, <1>5, <1>6, <1>7, <1>8, <1>14, <1>15

LEMMA DetailWrites ==
  ASSUME DetailInv, NEW q \in DOMAIN deeds, Detail!Write(q)
  PROVE  DetailInv'
<1>1. DetailTypes /\ q \in 1..MaxDeed /\ deeds[q] # None /\ deeds[q].at = "sent" /\ DeedsProper
  BY DEF DetailInv, DetailTypes, Detail!Write
<1>2. PICK d \in Detail!Deed : d = deeds[q]
  BY <1>1 DEF DetailTypes
<1>3. PICK u \in User, f \in Detail!Fact, to \in BOOLEAN : u = d.on /\ f = d.fact /\ to = d.to
  BY <1>2 DEF Detail!Deed
<1>4. PICK at \in {"half", "done"} : at = IF f = "active" /\ ~to THEN "half" ELSE "done"
  OBVIOUS
<1>5. /\ record' = [record EXCEPT ![u][f] = to] /\ deeds' = [deeds EXCEPT ![q].at = at]
      /\ Detail!Overtaken(u, f) /\ UNCHANGED <<address, visits, shown, loading, acted>>
  BY <1>2, <1>3, <1>4 DEF Detail!Write
<1>6. at = "half" => deeds[q].fact = "active" /\ ~deeds[q].to
  BY <1>2, <1>3, <1>4
<1>7. /\ deeds' \in [1..MaxDeed -> Detail!Deed \cup {None}]
      /\ \A p \in 1..MaxDeed : p > acted' => deeds'[p] = None
      /\ DeedsProper'
  BY <1>1, <1>5, <1>6, DeedGoesOn
<1>8. /\ \A p \in 1..MaxDeed : p # q => deeds'[p] = deeds[p]
      /\ deeds'[q] # None /\ deeds'[q].at = at /\ deeds'[q].fact = f /\ deeds'[q].to = to
      /\ \A p \in 1..MaxDeed : deeds[p] # None => deeds'[p] # None /\ deeds'[p].stray = deeds[p].stray
      /\ \A p \in 1..MaxDeed : deeds'[p] # None => deeds[p] # None
  <2>1. /\ \A p \in 1..MaxDeed : p # q => deeds'[p] = deeds[p]
        /\ deeds'[q] # None /\ deeds'[q].at = at
        /\ \A p \in 1..MaxDeed : deeds[p] # None => deeds'[p] # None /\ deeds'[p].stray = deeds[p].stray
        /\ \A p \in 1..MaxDeed : deeds'[p] # None => deeds[p] # None
    BY <1>1, <1>5, <1>6, DeedGoesOn
  <2>2. deeds'[q].fact = deeds[q].fact /\ deeds'[q].to = deeds[q].to
    BY <1>1, <1>5, <1>6, DeedGoesOn
  <2> QED
    BY <1>2, <1>3, <2>1, <2>2
<1>9. /\ gather' \in Seq(FetchRead) /\ Len(gather') <= visits' + 1 /\ (gather' = <<>> <=> gather = <<>>)
      /\ record' \in [User -> [Detail!Fact -> BOOLEAN]] /\ FetchesTrue'
  BY <1>5, FetchesOvertaken
<1>10. DetailTypes'
  BY <1>1, <1>5, <1>7, <1>9 DEF DetailTypes
<1>11. AsShown'
  <2>1. SUFFICES ASSUME ~shown.late, \A p \in 1..MaxDeed : deeds'[p] # None => ~deeds'[p].stray
                 PROVE  /\ \A p \in 1..MaxDeed : deeds'[p] # None => DeedShows(deeds[p])'
                        /\ ActiveShown' /\ GoneShown("sync")' /\ GoneShown("devices")'
    BY <1>5 DEF AsShown
  <2>2. \A p \in 1..MaxDeed : deeds[p] # None => ~deeds[p].stray
    BY <1>8, <2>1
  <2>3. /\ shown.of \in User
        /\ \A p \in 1..MaxDeed : deeds[p] # None => DeedShows(deeds[p])
        /\ ActiveShown /\ GoneShown("sync") /\ GoneShown("devices")
    BY <2>1, <2>2 DEF DetailInv, AsShown, FetchesTrue
  <2>4. shown.of = u
    BY <1>1, <1>2, <1>3, <2>2 DEF DeedsProper, Own
  <2>5. /\ record'[u][f] = to /\ \A g \in Detail!Fact \ {f} : record'[u][g] = record[u][g]
        /\ shown' = shown
    BY <1>1, <1>5 DEF DetailTypes
  <2>6. (f = "active" => (to <=> ~shown.got["active"])) /\ (f # "active" => ~to)
    BY <1>1, <1>2, <1>3, <2>3 DEF DeedShows
  <2>7. ASSUME NEW p \in 1..MaxDeed, deeds'[p] # None
        PROVE  DeedShows(deeds[p])'
    <3>1. CASE p = q
      BY <1>8, <2>4, <2>5, <2>6, <3>1 DEF DeedShows
    <3>2. CASE p # q
      <4>1. deeds'[p] = deeds[p] /\ deeds[p] # None /\ DeedShows(deeds[p]) /\ deeds[p].fact \in Detail!Fact
        BY <1>1, <1>8, <2>3, <2>7, <3>2 DEF DetailTypes, Detail!Deed
      <4>2. CASE deeds[p].fact = f
        BY <2>4, <2>5, <2>6, <4>1, <4>2 DEF DeedShows
      <4>3. CASE deeds[p].fact # f
        BY <2>4, <2>5, <4>1, <4>3 DEF DeedShows
      <4> QED
        BY <4>2, <4>3
    <3> QED
      BY <3>1, <3>2
  <2>8. Pending(f)'
    BY <1>1, <1>8 DEF Pending
  <2>9. ASSUME NEW g
        PROVE  Pending(g) => Pending(g)'
    BY <1>1, <1>8 DEF Pending
  <2>10. Disabled => Disabled'
    BY <1>1, <1>8 DEF Disabled
  <2>11. "active" \in Detail!Fact /\ "sync" \in Detail!Fact /\ "devices" \in Detail!Fact
    BY DEF Detail!Fact
  <2>12. ActiveShown'
    <3>1. CASE f = "active"
      BY <2>8, <3>1 DEF ActiveShown
    <3>2. CASE f # "active"
      BY <2>3, <2>4, <2>5, <2>9, <2>11, <3>2 DEF ActiveShown
    <3> QED
      BY <3>1, <3>2
  <2>13. ASSUME NEW g \in {"sync", "devices"}
         PROVE  GoneShown(g)'
    <3>1. CASE f = g
      BY <2>4, <2>5, <2>6, <2>8, <3>1 DEF GoneShown
    <3>2. CASE f # g
      <4>1. GoneShown(g) /\ record'[u][g] = record[u][g] /\ (Pending(g) => Pending(g)')
        BY <2>3, <2>5, <2>9, <2>11, <3>2
      <4> QED
        BY <2>4, <2>5, <2>10, <4>1 DEF GoneShown
    <3> QED
      BY <3>1, <3>2
  <2> QED
    BY <2>3, <2>7, <2>12, <2>13
<1> QED
  BY <1>7, <1>9, <1>10, <1>11 DEF DetailInv

LEMMA DetailRevokes ==
  ASSUME DetailInv, NEW q \in DOMAIN deeds, Detail!RevokeAll(q)
  PROVE  DetailInv'
<1>1. DetailTypes /\ q \in 1..MaxDeed /\ deeds[q] # None /\ deeds[q].at = "half" /\ DeedsProper
  BY DEF DetailInv, DetailTypes, Detail!RevokeAll
<1>2. PICK d \in Detail!Deed : d = deeds[q]
  BY <1>1 DEF DetailTypes
<1>3. PICK u \in User, at \in {"half", "done"} : u = d.on /\ at = "done"
  BY <1>2 DEF Detail!Deed
<1>4. /\ record' = [record EXCEPT ![u]["devices"] = FALSE] /\ deeds' = [deeds EXCEPT ![q].at = at]
      /\ Detail!Overtaken(u, "devices") /\ UNCHANGED <<address, visits, shown, loading, acted>>
  BY <1>2, <1>3 DEF Detail!RevokeAll
<1>5. at = "half" => deeds[q].fact = "active" /\ ~deeds[q].to
  BY <1>3
<1>6. d.fact = "active" /\ ~d.to
  BY <1>1, <1>2 DEF DeedsProper
<1>7. /\ deeds' \in [1..MaxDeed -> Detail!Deed \cup {None}]
      /\ \A p \in 1..MaxDeed : p > acted' => deeds'[p] = None
      /\ DeedsProper'
  BY <1>1, <1>4, <1>5, DeedGoesOn
<1>8. /\ \A p \in 1..MaxDeed : p # q => deeds'[p] = deeds[p]
      /\ deeds'[q] # None /\ deeds'[q].at = "done" /\ deeds'[q].fact = "active" /\ ~deeds'[q].to
      /\ \A p \in 1..MaxDeed : deeds[p] # None => deeds'[p] # None /\ deeds'[p].stray = deeds[p].stray
      /\ \A p \in 1..MaxDeed : deeds'[p] # None => deeds[p] # None
  <2>1. /\ \A p \in 1..MaxDeed : p # q => deeds'[p] = deeds[p]
        /\ deeds'[q] # None /\ deeds'[q].at = at
        /\ \A p \in 1..MaxDeed : deeds[p] # None => deeds'[p] # None /\ deeds'[p].stray = deeds[p].stray
        /\ \A p \in 1..MaxDeed : deeds'[p] # None => deeds[p] # None
    BY <1>1, <1>4, <1>5, DeedGoesOn
  <2>2. deeds'[q].fact = deeds[q].fact /\ deeds'[q].to = deeds[q].to
    BY <1>1, <1>4, <1>5, DeedGoesOn
  <2> QED
    BY <1>2, <1>3, <1>6, <2>1, <2>2
<1>9. "active" \in Detail!Fact /\ "sync" \in Detail!Fact /\ "devices" \in Detail!Fact
  BY DEF Detail!Fact
<1>10. /\ gather' \in Seq(FetchRead) /\ Len(gather') <= visits' + 1 /\ (gather' = <<>> <=> gather = <<>>)
       /\ record' \in [User -> [Detail!Fact -> BOOLEAN]] /\ FetchesTrue'
  BY <1>4, <1>9, FetchesOvertaken
<1>11. DetailTypes'
  BY <1>1, <1>4, <1>7, <1>10 DEF DetailTypes
<1>12. AsShown'
  <2>1. SUFFICES ASSUME ~shown.late, \A p \in 1..MaxDeed : deeds'[p] # None => ~deeds'[p].stray
                 PROVE  /\ \A p \in 1..MaxDeed : deeds'[p] # None => DeedShows(deeds[p])'
                        /\ ActiveShown' /\ GoneShown("sync")' /\ GoneShown("devices")'
    BY <1>4 DEF AsShown
  <2>2. \A p \in 1..MaxDeed : deeds[p] # None => ~deeds[p].stray
    BY <1>8, <2>1
  <2>3. /\ shown.of \in User
        /\ \A p \in 1..MaxDeed : deeds[p] # None => DeedShows(deeds[p])
        /\ ActiveShown /\ GoneShown("sync") /\ GoneShown("devices")
    BY <2>1, <2>2 DEF DetailInv, AsShown, FetchesTrue
  <2>4. shown.of = u
    BY <1>1, <1>2, <1>3, <2>2 DEF DeedsProper, Own
  <2>5. /\ ~record'[u]["devices"] /\ \A g \in Detail!Fact \ {"devices"} : record'[u][g] = record[u][g]
        /\ shown' = shown
    <3>1. PICK to \in BOOLEAN : to = FALSE
      OBVIOUS
    <3>2. record' = [record EXCEPT ![u]["devices"] = to] /\ record \in [User -> [Detail!Fact -> BOOLEAN]]
      BY <1>1, <1>4, <3>1 DEF DetailTypes
    <3>3. record'[u]["devices"] = to /\ \A g \in Detail!Fact \ {"devices"} : record'[u][g] = record[u][g]
      BY <1>9, <3>2
    <3> QED
      BY <1>4, <3>1, <3>3
  <2>6. ASSUME NEW p \in 1..MaxDeed, deeds'[p] # None
        PROVE  DeedShows(deeds[p])'
    <3>1. deeds[p] # None /\ DeedShows(deeds[p]) /\ deeds[p].fact \in Detail!Fact
      BY <1>1, <1>8, <2>3, <2>6 DEF DetailTypes, Detail!Deed
    <3>2. CASE p = q
      <4>1. record[u]["active"] <=> FALSE
        BY <1>1, <1>2, <1>6, <2>4, <3>1, <3>2 DEF DeedShows
      <4> QED
        BY <1>2, <1>6, <1>8, <1>9, <2>4, <2>5, <3>1, <3>2, <4>1 DEF DeedShows
    <3>3. CASE p # q
      <4>1. deeds'[p] = deeds[p]
        BY <1>8, <3>3
      <4>2. CASE deeds[p].fact = "devices"
        BY <2>4, <2>5, <3>1, <4>1, <4>2 DEF DeedShows
      <4>3. CASE deeds[p].fact # "devices"
        BY <2>4, <2>5, <3>1, <4>1, <4>3 DEF DeedShows
      <4> QED
        BY <4>2, <4>3
    <3> QED
      BY <3>2, <3>3
  <2>7. ASSUME NEW g
        PROVE  Pending(g) => Pending(g)'
    BY <1>1, <1>2, <1>6, <1>8 DEF Pending
  <2>8. Disabled'
    BY <1>1, <1>8 DEF Disabled
  <2>9. ActiveShown'
    BY <1>9, <2>3, <2>4, <2>5, <2>7 DEF ActiveShown
  <2>10. GoneShown("sync")'
    BY <1>9, <2>3, <2>4, <2>5, <2>7 DEF GoneShown
  <2>11. GoneShown("devices")'
    BY <2>4, <2>5, <2>8 DEF GoneShown
  <2> QED
    BY <2>3, <2>6, <2>9, <2>10, <2>11
<1> QED
  BY <1>7, <1>10, <1>11, <1>12 DEF DetailInv

LEMMA DetailConfirms ==
  ASSUME DetailInv, NEW place \in Detail!Card, NEW act \in Detail!Does(place), Detail!Confirm(place, act)
  PROVE  DetailInv'
<1>1. DetailTypes /\ DeedsProper
  BY DEF DetailInv
<1>2. PICK n \in 1..MaxDeed : n = acted + 1
  BY <1>1, ServerBounds DEF Detail!Confirm, DetailTypes
<1>3. PICK f \in Detail!Fact, to \in BOOLEAN : f = act.fact /\ to = act.to
  BY DEF Detail!Does
<1>4. /\ f = "active" => place = "header" /\ to = ~shown.got["active"]
      /\ f # "active" => ~to
  BY <1>3 DEF Detail!Does, Detail!Card
<1>5. PICK e : e = [card |-> place, on |-> shown.of, fact |-> f, to |-> to, at |-> "sent", stray |-> FALSE]
  OBVIOUS
<1>6. /\ shown.of # None /\ acted' = acted + 1 /\ deeds' = [deeds EXCEPT ![n] = e]
      /\ \A q \in 1..MaxDeed : deeds[q] # None /\ deeds[q].card = place => deeds[q].stray
      /\ UNCHANGED <<record, address, visits, shown, loading, gather>>
  <2>1. ~Detail!Busy(place) /\ DOMAIN deeds = 1..MaxDeed
    BY <1>1, ServerBounds DEF Detail!Confirm, DetailTypes
  <2>2. \A q \in 1..MaxDeed : deeds[q] # None /\ deeds[q].card = place => deeds[q].stray
    BY <2>1 DEF Detail!Busy
  <2> QED
    BY <1>2, <1>3, <1>5, <2>2 DEF Detail!Confirm
<1>7. e \in Detail!Deed /\ e # None
  <2>1. shown.of \in User
    BY <1>1, <1>6 DEF DetailTypes, ShownRead
  <2> QED
    <3>1. e \in Detail!Deed
      BY <1>5, <2>1 DEF Detail!Deed
    <3> QED
      BY <3>1, DeedAssumption
<1>8. /\ e.card = place /\ e.on = shown.of /\ e.fact = f /\ e.to = to /\ e.at = "sent" /\ ~e.stray
  BY <1>5
<1>9. deeds[n] = None /\ deeds'[n] = e /\ \A q \in 1..MaxDeed : q # n => deeds'[q] = deeds[q]
  BY <1>1, <1>2, <1>6 DEF DetailTypes
<1>10. DetailTypes'
  <2>1. deeds' \in [1..MaxDeed -> Detail!Deed \cup {None}]
    BY <1>1, <1>6, <1>7 DEF DetailTypes
  <2>2. acted' \in 0..MaxDeed /\ \A q \in 1..MaxDeed : q > acted' => deeds'[q] = None
    BY <1>1, <1>2, <1>6, <1>9 DEF DetailTypes
  <2> QED
    BY <1>1, <1>6, <2>1, <2>2 DEF DetailTypes
<1>11. FetchesTrue'
  BY <1>6 DEF DetailInv, FetchesTrue, FetchTrue
<1>12. DeedsProper'
  <2>1. \A q \in 1..MaxDeed : Own(q)' => shown'.of # None /\ deeds'[q].on = shown'.of
    BY <1>1, <1>6, <1>8, <1>9 DEF DeedsProper, Own
  <2>2. /\ \A q \in 1..MaxDeed : deeds'[q] # None /\ deeds'[q].at = "half" => deeds'[q].fact = "active" /\ ~deeds'[q].to
        /\ \A q \in 1..MaxDeed : deeds'[q] # None /\ deeds'[q].fact = "active" => deeds'[q].card = "header"
    BY <1>1, <1>4, <1>8, <1>9 DEF DeedsProper
  <2>3. ASSUME NEW p \in 1..MaxDeed, NEW q \in 1..MaxDeed, Own(p)', Own(q)', deeds'[p].card = deeds'[q].card
        PROVE  p = q
    BY <1>1, <1>6, <1>8, <1>9, <2>3 DEF DeedsProper, Own
  <2> QED
    BY <2>1, <2>2, <2>3 DEF DeedsProper
<1>13. AsShown'
  <2>1. SUFFICES ASSUME ~shown.late, \A p \in 1..MaxDeed : deeds'[p] # None => ~deeds'[p].stray
                 PROVE  /\ \A p \in 1..MaxDeed : deeds'[p] # None => DeedShows(deeds[p])'
                        /\ ActiveShown' /\ GoneShown("sync")' /\ GoneShown("devices")'
    BY <1>6 DEF AsShown
  <2>2. \A p \in 1..MaxDeed : deeds[p] # None => deeds'[p] = deeds[p]
    BY <1>9
  <2>3. /\ shown.of \in User
        /\ \A p \in 1..MaxDeed : deeds[p] # None => DeedShows(deeds[p])
        /\ ActiveShown /\ GoneShown("sync") /\ GoneShown("devices")
    BY <2>1, <2>2 DEF DetailInv, AsShown, FetchesTrue
  <2>4. DeedShows(e)'
    BY <1>4, <1>6, <1>8 DEF DeedShows
  <2>5. \A p \in 1..MaxDeed : deeds'[p] # None => DeedShows(deeds[p])'
    BY <1>6, <1>9, <2>3, <2>4 DEF DeedShows
  <2>6. ASSUME NEW g
        PROVE  Pending(g) => Pending(g)'
    BY <2>2 DEF Pending
  <2>7. Disabled => Disabled'
    BY <2>2 DEF Disabled
  <2> QED
    BY <1>6, <2>3, <2>5, <2>6, <2>7 DEF ActiveShown, GoneShown
<1> QED
  BY <1>10, <1>11, <1>12, <1>13 DEF DetailInv

\* An action that has ended, whatever is shown of it, of the user that is shown.
LEMMA DeedEnds ==
  ASSUME DetailInv, NEW q \in 1..MaxDeed, deeds' = [deeds EXCEPT ![q] = None], acted' = acted, shown'.of = shown.of
  PROVE  /\ deeds' \in [1..MaxDeed -> Detail!Deed \cup {None}]
         /\ \A p \in 1..MaxDeed : p > acted' => deeds'[p] = None
         /\ deeds'[q] = None /\ \A p \in 1..MaxDeed : p # q => deeds'[p] = deeds[p]
         /\ DeedsProper'
<1>1. deeds \in [1..MaxDeed -> Detail!Deed \cup {None}] /\ \A p \in 1..MaxDeed : p > acted => deeds[p] = None
  BY DEF DetailInv, DetailTypes
<1>2. /\ deeds' \in [1..MaxDeed -> Detail!Deed \cup {None}]
      /\ deeds'[q] = None /\ \A p \in 1..MaxDeed : p # q => deeds'[p] = deeds[p]
  BY <1>1
<1>3. DeedsProper'
  BY <1>2 DEF DetailInv, DeedsProper, Own
<1> QED
  BY <1>1, <1>2, <1>3

LEMMA DetailAlters ==
  ASSUME DetailInv, NEW q \in DOMAIN deeds, Detail!Alter(q)
  PROVE  DetailInv'
<1>1. DetailTypes /\ q \in 1..MaxDeed /\ deeds[q] # None /\ deeds[q].at = "done" /\ DeedsProper
  BY DEF DetailInv, DetailTypes, Detail!Alter
<1>2. PICK d \in Detail!Deed : d = deeds[q]
  BY <1>1 DEF DetailTypes
<1>3. PICK f \in Detail!Fact, to \in BOOLEAN : f = d.fact /\ to = d.to
  BY <1>2 DEF Detail!Deed
<1>4. PICK after \in BOOLEAN : after = IF f = "active" THEN ~shown.got[f] ELSE FALSE
  OBVIOUS
<1>5. /\ deeds' = [deeds EXCEPT ![q] = None] /\ UNCHANGED <<record, address, visits, loading, gather, acted>>
      /\ shown' = IF shown.of = None THEN shown
                  ELSE [shown EXCEPT !.got = Detail!Altered(d), !.late = @ \/ d.stray,
                                     !.kept = @ \/ (d.fact = "active" /\ ~d.to)]
  BY <1>2 DEF Detail!Alter
<1>6. /\ shown' \in ShownRead /\ shown'.of = shown.of
      /\ shown.of # None => /\ shown'.got = [shown.got EXCEPT ![f] = after]
                            /\ ~shown'.late => ~shown.late /\ ~d.stray
                            /\ shown.kept \/ (f = "active" /\ ~to) => shown'.kept
  <2>1. shown \in ShownRead
    BY <1>1 DEF DetailTypes
  <2>2. CASE shown.of = None
    BY <1>5, <2>1, <2>2
  <2>3. CASE shown.of # None
    <3>1. PICK l \in BOOLEAN, m \in BOOLEAN : l = (shown.late \/ d.stray) /\ m = (shown.kept \/ (d.fact = "active" /\ ~d.to))
      OBVIOUS
    <3>2. PICK g : g = [shown.got EXCEPT ![f] = after]
      OBVIOUS
    <3>3. g \in [Detail!Fact -> BOOLEAN]
      BY <2>1, <3>2 DEF ShownRead
    <3>4. Detail!Altered(d) = g
      <4>1. CASE f = "active"
        BY <1>3, <1>4, <2>1, <3>2, <4>1 DEF Detail!Altered, ShownRead
      <4>2. CASE f # "active"
        BY <1>3, <1>4, <2>1, <3>2, <4>2 DEF Detail!Altered, ShownRead
      <4> QED
        BY <4>1, <4>2
    <3>5. shown' = [of |-> shown.of, got |-> g, late |-> l, kept |-> m]
      BY <1>5, <2>1, <2>3, <3>1, <3>4 DEF ShownRead
    <3>6. shown' \in ShownRead /\ shown'.of = shown.of /\ shown'.got = g
      BY <2>1, <3>3, <3>5 DEF ShownRead
    <3>7. (shown'.late <=> l) /\ (shown'.kept <=> m)
      BY <3>5
    <3> QED
      BY <1>3, <3>1, <3>2, <3>6, <3>7
  <2> QED
    BY <2>2, <2>3
<1>7. /\ deeds' \in [1..MaxDeed -> Detail!Deed \cup {None}]
      /\ \A p \in 1..MaxDeed : p > acted' => deeds'[p] = None
      /\ deeds'[q] = None /\ \A p \in 1..MaxDeed : p # q => deeds'[p] = deeds[p]
      /\ DeedsProper'
  BY <1>1, <1>5, <1>6, DeedEnds
<1>8. DetailTypes'
  BY <1>1, <1>5, <1>6, <1>7 DEF DetailTypes
<1>9. FetchesTrue'
  <2>1. ~shown'.late => ~shown.late
    BY <1>5, <1>6
  <2> QED
    BY <1>5, <1>6, <2>1 DEF DetailInv, FetchesTrue, FetchTrue
<1>10. AsShown'
  <2>1. SUFFICES ASSUME ~shown'.late, \A p \in 1..MaxDeed : deeds'[p] # None => ~deeds'[p].stray
                 PROVE  /\ \A p \in 1..MaxDeed : deeds'[p] # None => DeedShows(deeds[p])'
                        /\ ActiveShown' /\ GoneShown("sync")' /\ GoneShown("devices")'
    BY DEF AsShown
  <2>2. ~shown.late /\ \A p \in 1..MaxDeed : deeds[p] # None => ~deeds[p].stray
    <3>1. CASE shown.of = None
      <4>1. shown'.late = shown.late
        BY <1>5, <3>1
      <4>2. shown.of \in User
        BY <2>1, <4>1 DEF DetailInv, FetchesTrue
      <4> QED
        BY <3>1, <4>2, NoneAssumption
    <3>2. CASE shown.of # None
      BY <1>2, <1>6, <1>7, <2>1, <3>2
    <3> QED
      BY <3>1, <3>2
  <2>3. /\ shown.of \in User
        /\ \A p \in 1..MaxDeed : deeds[p] # None => DeedShows(deeds[p])
        /\ ActiveShown /\ GoneShown("sync") /\ GoneShown("devices")
    BY <2>2 DEF DetailInv, AsShown, FetchesTrue
  <2>4. shown.of # None
    BY <1>1, <2>2 DEF DeedsProper, Own
  <2>5. /\ shown'.got[f] = after /\ \A g \in Detail!Fact \ {f} : shown'.got[g] = shown.got[g]
        /\ shown'.of = shown.of /\ record' = record /\ (shown.kept \/ (f = "active" /\ ~to) => shown'.kept)
    BY <1>1, <1>5, <1>6, <2>4 DEF DetailTypes, ShownRead
  <2>6. /\ f = "active" => (to <=> ~shown.got["active"])
        /\ f # "active" => ~to
        /\ record[shown.of][f] <=> to
    BY <1>1, <1>2, <1>3, <2>3 DEF DeedShows
  <2>7. f # "active" => ~after
    BY <1>4
  <2>8. f = "active" => (after <=> to)
    BY <1>4, <2>6
  <2>9. ASSUME f = "active", NEW p \in 1..MaxDeed, p # q, deeds[p] # None
        PROVE  deeds[p].fact # "active"
    <3>1. Own(p) /\ Own(q)
      BY <1>1, <2>2, <2>9 DEF Own
    <3> QED
      BY <1>1, <1>2, <1>3, <2>9, <3>1 DEF DeedsProper
  <2>10. "active" \in Detail!Fact /\ "sync" \in Detail!Fact /\ "devices" \in Detail!Fact
    BY DEF Detail!Fact
  <2>11. ASSUME NEW p \in 1..MaxDeed, deeds'[p] # None
         PROVE  DeedShows(deeds[p])'
    <3>1. p # q /\ deeds'[p] = deeds[p] /\ deeds[p] # None /\ DeedShows(deeds[p])
      BY <1>7, <2>3, <2>11
    <3>2. CASE f = "active"
      BY <2>5, <2>9, <3>1, <3>2 DEF DeedShows
    <3>3. CASE f # "active"
      <4>1. shown'.got["active"] = shown.got["active"]
        BY <2>5, <2>10, <3>3
      <4> QED
        BY <2>5, <3>1, <4>1 DEF DeedShows
    <3> QED
      BY <3>2, <3>3
  <2>12. ASSUME NEW g, g # f
         PROVE  Pending(g) => Pending(g)'
    BY <1>2, <1>3, <1>7, <2>12 DEF Pending
  <2>13. Disabled => Disabled' \/ shown'.kept
    <3>1. Disabled => Disabled' \/ (f = "active" /\ ~to)
      BY <1>2, <1>3, <1>7 DEF Disabled
    <3> QED
      BY <2>5, <3>1
  <2>14. ActiveShown'
    <3>1. CASE f = "active"
      BY <2>5, <2>6, <2>8, <3>1 DEF ActiveShown
    <3>2. CASE f # "active"
      BY <2>3, <2>5, <2>10, <2>12, <3>2 DEF ActiveShown
    <3> QED
      BY <3>1, <3>2
  <2>15. ASSUME NEW g \in {"sync", "devices"}
         PROVE  GoneShown(g)'
    <3>1. CASE f = g
      BY <2>5, <2>6, <2>7, <3>1 DEF GoneShown
    <3>2. CASE f # g
      <4>1. GoneShown(g) /\ shown'.got[g] = shown.got[g] /\ (Pending(g) => Pending(g)')
        BY <2>3, <2>5, <2>10, <2>12, <3>2
      <4> QED
        BY <2>5, <2>13, <4>1 DEF GoneShown
    <3> QED
      BY <3>1, <3>2
  <2> QED
    BY <2>3, <2>5, <2>11, <2>14, <2>15
<1> QED
  BY <1>7, <1>8, <1>9, <1>10 DEF DetailInv

LEMMA DetailDeedFails ==
  ASSUME DetailInv, NEW q \in DOMAIN deeds, Detail!DeedFails(q)
  PROVE  DetailInv'
<1>1. DetailTypes /\ q \in 1..MaxDeed
  BY DEF DetailInv, DetailTypes
<1>2. /\ deeds' = [deeds EXCEPT ![q] = None] /\ shown' = [shown EXCEPT !.late = TRUE]
      /\ UNCHANGED <<record, address, visits, loading, gather, acted>>
  BY DEF Detail!DeedFails
<1>3. shown' \in ShownRead /\ shown'.late /\ shown'.of = shown.of
  BY <1>1, <1>2 DEF DetailTypes, ShownRead
<1>4. /\ deeds' \in [1..MaxDeed -> Detail!Deed \cup {None}]
      /\ \A p \in 1..MaxDeed : p > acted' => deeds'[p] = None
      /\ DeedsProper'
  BY <1>1, <1>2, <1>3, DeedEnds
<1>5. DetailTypes'
  BY <1>1, <1>2, <1>3, <1>4 DEF DetailTypes
<1>6. FetchesTrue' /\ AsShown'
  BY <1>2, <1>3 DEF DetailInv, FetchesTrue, FetchTrue, AsShown
<1> QED
  BY <1>4, <1>5, <1>6 DEF DetailInv

LEMMA DetailElsewhere ==
  ASSUME DetailInv, NEW u \in User, NEW f \in Detail!Fact, Detail!Elsewhere(u, f)
  PROVE  DetailInv'
<1>1. DetailTypes
  BY DEF DetailInv
<1>2. PICK to \in BOOLEAN : to = ~record[u][f]
  OBVIOUS
<1>3. PICK l \in BOOLEAN : l = (shown.late \/ shown.of = u)
  OBVIOUS
<1>4. /\ acted < MaxDeed /\ acted' = acted + 1 /\ record' = [record EXCEPT ![u][f] = to] /\ Detail!Overtaken(u, f)
      /\ shown' = [shown EXCEPT !.late = l] /\ UNCHANGED <<address, visits, loading, deeds>>
  BY <1>1, <1>2, <1>3 DEF DetailTypes, ShownRead, Detail!Elsewhere
<1>5. /\ shown' = [of |-> shown.of, got |-> shown.got, late |-> l, kept |-> shown.kept] /\ shown \in ShownRead
  BY <1>1, <1>4 DEF DetailTypes, ShownRead
<1>6. shown' \in ShownRead /\ shown'.of = shown.of /\ shown'.got = shown.got /\ (shown.kept => shown'.kept)
  BY <1>5 DEF ShownRead
<1>7. ~shown'.late => ~shown.late /\ shown.of # u
  <2>1. shown'.late <=> l
    BY <1>5
  <2> QED
    BY <1>3, <2>1
<1>8. /\ gather' \in Seq(FetchRead) /\ Len(gather') <= visits' + 1 /\ (gather' = <<>> <=> gather = <<>>)
      /\ record' \in [User -> [Detail!Fact -> BOOLEAN]] /\ FetchesTrue'
  BY <1>4, <1>6, <1>7, FetchesOvertaken
<1>9. acted' \in 0..MaxDeed /\ \A q \in 1..MaxDeed : q > acted' => deeds'[q] = None
  BY <1>1, <1>4, ServerBounds DEF DetailTypes
<1>10. DetailTypes'
  BY <1>1, <1>4, <1>6, <1>8, <1>9 DEF DetailTypes
<1>11. DeedsProper'
  BY <1>4, <1>6 DEF DetailInv, DeedsProper, Own
<1>12. AsShown'
  <2>1. SUFFICES ASSUME ~shown'.late, \A p \in 1..MaxDeed : deeds'[p] # None => ~deeds'[p].stray PROVE AsShown'
    BY DEF AsShown
  <2>2. /\ shown.of \in User
        /\ \A p \in 1..MaxDeed : deeds[p] # None => DeedShows(deeds[p])
        /\ ActiveShown /\ GoneShown("sync") /\ GoneShown("devices")
    BY <1>4, <1>7, <2>1 DEF DetailInv, AsShown, FetchesTrue
  <2>3. record'[shown.of] = record[shown.of]
    BY <1>1, <1>4, <1>7, <2>1, <2>2 DEF DetailTypes
  <2>4. \A g : Pending(g)' <=> Pending(g)
    BY <1>4 DEF Pending
  <2>5. Disabled' <=> Disabled
    BY <1>4 DEF Disabled
  <2>6. \A p \in 1..MaxDeed : deeds'[p] # None => DeedShows(deeds[p])'
    BY <1>4, <1>6, <2>2, <2>3 DEF DeedShows
  <2>7. ActiveShown' /\ GoneShown("sync")' /\ GoneShown("devices")'
    BY <1>6, <2>2, <2>3, <2>4, <2>5 DEF ActiveShown, GoneShown
  <2> QED
    BY <1>6, <2>2, <2>6, <2>7 DEF AsShown
<1> QED
  BY <1>8, <1>10, <1>11, <1>12 DEF DetailInv

LEMMA DetailNext == DetailInv /\ Detail!Next => DetailInv'
<1> SUFFICES ASSUME DetailInv, Detail!Next PROVE DetailInv'
  OBVIOUS
<1>1. \/ \E u \in User : Detail!Visit(u)
      \/ \E u \in User : \E f \in Detail!Fact : Detail!Elsewhere(u, f)
      \/ \E k \in DOMAIN gather : Detail!ShowAll(k)
      \/ \E k \in DOMAIN gather : Detail!FetchFails(k)
      \/ \E k \in DOMAIN gather : \E f \in Detail!Fact : Detail!ReadFact(k, f)
      \/ \E place \in Detail!Card : \E act \in Detail!Does(place) : Detail!Confirm(place, act)
      \/ \E q \in DOMAIN deeds : Detail!Write(q)
      \/ \E q \in DOMAIN deeds : Detail!RevokeAll(q)
      \/ \E q \in DOMAIN deeds : Detail!Alter(q)
      \/ \E q \in DOMAIN deeds : Detail!DeedFails(q)
  BY DEF Detail!Next
<1> QED
  BY <1>1, DetailVisit, DetailElsewhere, DetailShows, DetailFetchFails, DetailReads, DetailConfirms,
     DetailWrites, DetailRevokes, DetailAlters, DetailDeedFails

-----------------------------------------------------------------------------
(* The life of processes *)

ProcState ==
  [at : {"down", "booted", "read", "migrating", "serving", "closing"}, role : {None, "server", "cli"},
   release : Run!Release, read : Nat, starts : 0..MaxStart]
JobState == [at : {"idle", "tx", "between"}, left : Int]

RunTypes ==
  /\ applied \in Seq(Nat) /\ Len(applied) <= MaxMigration
  /\ proc \in [Proc -> ProcState] /\ job \in [Proc -> [Job -> JobState]]
  /\ closes \in [Proc -> 0..2] /\ container \in BOOLEAN

\* What a migrator has read is still all there is when it has something to run, and
\* no other has then.
Runs(s) == s.at = "migrating" /\ s.read < s.release

MigrationsOnce ==
  /\ \A i \in 1..Len(applied) : applied[i] = i
  /\ \A p \in Proc : /\ proc[p].read <= Len(applied)
                     /\ Runs(proc[p]) => proc[p].read = Len(applied)
                     /\ proc[p].at \in {"serving", "closing"} => proc[p].release <= Len(applied)
  /\ \A p, q \in Proc : Runs(proc[p]) /\ Runs(proc[q]) => p = q

\* Requests are served by servers, and only two ends of a process cut one.
JobsServed ==
  /\ \A p \in Proc, j \in Job : job[p][j].at # "idle" => proc[p].at \in {"serving", "closing"}
  /\ cut \in {None, "crash", "rejected"}

RunInv == RunTypes /\ MigrationsOnce /\ JobsServed

\* A migration has been applied if it is not beyond the last that was.
LEMMA AppliedIs ==
  ASSUME applied \in Seq(Nat), \A i \in 1..Len(applied) : applied[i] = i, NEW n \in Nat \ {0}
  PROVE  Run!Exists(n) <=> n <= Len(applied)
<1>1. DOMAIN applied = 1..Len(applied) /\ Len(applied) \in Nat
  OBVIOUS
<1>2. CASE n <= Len(applied)
  BY <1>1, <1>2 DEF Run!Exists
<1>3. CASE ~(n <= Len(applied))
  BY <1>1, <1>3 DEF Run!Exists
<1> QED
  BY <1>2, <1>3

\* The migrations of 1 up to a number, and those up to another.
LEMMA Applied ==
  ASSUME NEW s \in Seq(Nat), \A i \in 1..Len(s) : s[i] = i, NEW n \in Nat, NEW t,
         t = s \o [i \in 1..n |-> Len(s) + i]
  PROVE  t \in Seq(Nat) /\ Len(t) = Len(s) + n /\ \A i \in 1..Len(t) : t[i] = i
<1>1. PICK r : r = [i \in 1..n |-> Len(s) + i]
  OBVIOUS
<1>2. PICK m \in Nat : m = Len(s)
  OBVIOUS
<1>3. r \in [1..n -> Nat] /\ \A i \in 1..n : r[i] = m + i
  BY <1>1, <1>2
<1>4. r \in Seq(Nat) /\ Len(r) = n
  BY <1>3, Marked
<1>5. /\ s \o r \in Seq(Nat) /\ Len(s \o r) = Len(s) + Len(r)
      /\ \A i \in 1..Len(s) + Len(r) : (s \o r)[i] = IF i <= Len(s) THEN s[i] ELSE r[i - Len(s)]
  BY <1>4, ConcatProperties, Zenon
<1>6. t = s \o r
  BY <1>1, Zenon
<1>7. t \in Seq(Nat) /\ Len(t) = m + n
  BY <1>2, <1>4, <1>5, <1>6, Zenon
<1>8. ASSUME NEW i \in 1..m + n
      PROVE  t[i] = i
  <2>1. t[i] = IF i <= m THEN s[i] ELSE r[i - m]
    BY <1>2, <1>4, <1>5, <1>6, Zenon
  <2>2. CASE i <= m
    BY <1>2, <2>1, <2>2
  <2>3. CASE ~(i <= m)
    <3>1. i - m \in 1..n /\ m + (i - m) = i
      BY <2>3
    <3> QED
      BY <1>3, <2>1, <2>3, <3>1
  <2> QED
    BY <2>2, <2>3
<1> QED
  BY <1>2, <1>7, <1>8

LEMMA RunTypeOK == RunTypes /\ MigrationsOnce => Run!TypeOK
<1> SUFFICES ASSUME RunTypes, MigrationsOnce PROVE Run!TypeOK
  OBVIOUS
<1>1. \A i \in DOMAIN applied : applied[i] \in Run!Release
  <2>1. DOMAIN applied = 1..Len(applied) /\ Len(applied) \in 0..MaxMigration
    BY ServerBounds DEF RunTypes
  <2> QED
    BY <2>1, ServerBounds DEF MigrationsOnce, Run!Release
<1>2. ASSUME NEW p \in Proc
      PROVE  /\ proc[p].at \in {"down", "booted", "read", "migrating", "serving", "closing"}
             /\ proc[p].starts \in 0..MaxStart /\ proc[p].release \in Run!Release
             /\ closes[p] \in 0..2
             /\ \A j \in Job : job[p][j].at \in {"idle", "tx", "between"}
  <2>1. proc[p] \in ProcState /\ \A j \in Job : job[p][j] \in JobState
    BY DEF RunTypes
  <2> QED
    BY <2>1 DEF RunTypes, ProcState, JobState
<1> QED
  BY <1>1, <1>2 DEF Run!TypeOK

LEMMA SchemaFirst == RunInv => Run!SchemaFirstPoolLast
<1> SUFFICES ASSUME RunInv PROVE Run!SchemaFirstPoolLast
  OBVIOUS
<1>1. \A i \in DOMAIN applied : applied[i] = i
  BY DEF RunInv, RunTypes, MigrationsOnce
<1>2. ASSUME NEW p \in Proc, proc[p].at \in {"serving", "closing"}
      PROVE  Run!Exists(proc[p].release)
  <2>1. proc[p].release \in Nat \ {0} /\ proc[p].release <= Len(applied)
    BY <1>2 DEF RunInv, RunTypes, MigrationsOnce, ProcState, Run!Release
  <2> QED
    BY <2>1, AppliedIs DEF RunInv, RunTypes, MigrationsOnce
<1> QED
  BY <1>1, <1>2 DEF Run!SchemaFirstPoolLast, RunInv, JobsServed

LEMMA DownIs ==
  ASSUME NEW n \in 0..MaxStart
  PROVE  /\ Run!Down(n) \in ProcState /\ Run!Down(n).at = "down" /\ Run!Down(n).read = 0
         /\ Run!Down(n).starts = n
BY ServerBounds DEF Run!Down, ProcState, Run!Release

LEMMA IdleIs == Run!Idle \in JobState /\ Run!Idle.at = "idle"
BY DEF Run!Idle, JobState

LEMMA RunInit == Run!Init => RunInv
<1> SUFFICES ASSUME Run!Init PROVE RunInv
  OBVIOUS
<1>1. 0 \in 0..MaxStart
  BY ServerBounds
<1>2. PICK s \in ProcState : s = Run!Down(0) /\ s.at = "down" /\ s.read = 0
  BY <1>1, DownIs
<1>3. /\ applied = <<>> /\ proc = [p \in Proc |-> s] /\ job = [p \in Proc |-> [j \in Job |-> Run!Idle]]
      /\ closes = [p \in Proc |-> 0] /\ container \in BOOLEAN /\ cut = None
  BY <1>2 DEF Run!Init
<1>4. RunTypes
  BY <1>2, <1>3, IdleIs, ServerBounds DEF RunTypes
<1>5. MigrationsOnce
  BY <1>2, <1>3 DEF MigrationsOnce, Runs
<1>6. JobsServed
  BY <1>3, IdleIs DEF JobsServed
<1> QED
  BY <1>4, <1>5, <1>6 DEF RunInv

\* A process that goes on, where the table and the requests are as they were.
LEMMA ProcStep ==
  ASSUME RunInv, NEW p \in Proc, NEW s \in ProcState, proc' = [proc EXCEPT ![p] = s],
         UNCHANGED <<applied, job, container, cut>>, closes' \in [Proc -> 0..2],
         s.read <= Len(applied), s.at \in {"serving", "closing"} => s.release <= Len(applied),
         Runs(s) => s.read = Len(applied) /\ \A q \in Proc \ {p} : ~Runs(proc[q]),
         s.at \in {"serving", "closing"} \/ proc[p].at \notin {"serving", "closing"}
  PROVE  RunInv'
<1>1. RunTypes /\ proc'[p] = s /\ \A q \in Proc \ {p} : proc'[q] = proc[q]
  BY DEF RunInv, RunTypes
<1>2. RunTypes'
  BY <1>1 DEF RunTypes
<1>3. MigrationsOnce'
  BY <1>1 DEF RunInv, MigrationsOnce
<1>4. JobsServed'
  BY <1>1 DEF RunInv, JobsServed
<1> QED
  BY <1>2, <1>3, <1>4 DEF RunInv

\* A request that goes on, of a process that serves.
LEMMA JobStep ==
  ASSUME RunInv, NEW p \in Proc, NEW j \in Job, NEW s \in JobState,
         job' = [job EXCEPT ![p][j] = s], UNCHANGED <<applied, proc, closes, container, cut>>,
         s.at # "idle" => proc[p].at \in {"serving", "closing"}
  PROVE  RunInv'
<1>1. RunTypes
  BY DEF RunInv
<1>2. /\ job' \in [Proc -> [Job -> JobState]]
      /\ \A q \in Proc, i \in Job : job'[q][i] = IF q = p /\ i = j THEN s ELSE job[q][i]
  BY <1>1 DEF RunTypes
<1>3. RunTypes' /\ MigrationsOnce'
  BY <1>1, <1>2 DEF RunTypes, RunInv, MigrationsOnce
<1>4. JobsServed'
  BY <1>2 DEF RunInv, JobsServed
<1> QED
  BY <1>3, <1>4 DEF RunInv

\* A process that is gone: what it had is gone, and what was done stays.
LEMMA ProcGone ==
  ASSUME RunInv, NEW p \in Proc, NEW how, Run!Gone(p, how),
         how \in {"crash", "rejected"} \/ \A j \in Job : job[p][j].at # "tx"
  PROVE  RunInv'
<1>1. RunTypes
  BY DEF RunInv
<1>2. proc[p].starts \in 0..MaxStart
  BY <1>1 DEF RunTypes, ProcState
<1>3. PICK s \in ProcState : s = Run!Down(proc[p].starts) /\ s.at = "down" /\ s.read = 0
  BY <1>2, DownIs
<1>4. PICK i : i = [j \in Job |-> Run!Idle]
  OBVIOUS
<1>5. /\ proc' = [proc EXCEPT ![p] = s] /\ job' = [job EXCEPT ![p] = i] /\ closes' = [closes EXCEPT ![p] = 0]
      /\ UNCHANGED <<applied, container>> /\ cut' = IF \E j \in Job : job[p][j].at = "tx" THEN how ELSE None
  BY <1>1, <1>3, <1>4 DEF Run!Gone, RunTypes
<1>6. i \in [Job -> JobState] /\ \A j \in Job : i[j].at = "idle"
  BY <1>4, IdleIs
<1>7. /\ proc' \in [Proc -> ProcState] /\ job' \in [Proc -> [Job -> JobState]] /\ closes' \in [Proc -> 0..2]
      /\ proc'[p] = s /\ \A q \in Proc \ {p} : proc'[q] = proc[q]
      /\ job'[p] = i /\ \A q \in Proc \ {p} : job'[q] = job[q]
  BY <1>1, <1>5, <1>6 DEF RunTypes
<1>8. RunTypes'
  BY <1>1, <1>5, <1>7 DEF RunTypes
<1>9. MigrationsOnce'
  BY <1>1, <1>3, <1>5, <1>7 DEF RunTypes, RunInv, MigrationsOnce, Runs
<1>10. cut' \in {None, "crash", "rejected"}
  BY <1>5
<1>11. JobsServed'
  BY <1>6, <1>7, <1>10 DEF RunInv, JobsServed
<1> QED
  BY <1>8, <1>9, <1>11 DEF RunInv

LEMMA RunMigrates ==
  ASSUME RunInv, NEW p \in Proc, Run!RunMigrations(p)
  PROVE  RunInv'
<1>1. PICK o \in ProcState : o = proc[p]
  BY DEF RunInv, RunTypes
<1>2. PICK s : s = [o EXCEPT !.at = "migrating"]
  OBVIOUS
<1>3. s \in ProcState /\ s.at = "migrating" /\ s.read = o.read /\ s.release = o.release
  BY <1>1, <1>2 DEF ProcState
<1>4. proc' = [proc EXCEPT ![p] = s] /\ UNCHANGED <<applied, job, closes, container, cut>> /\ o.at = "read"
  BY <1>1, <1>2 DEF Run!RunMigrations, RunInv, RunTypes
<1>5. o.read \in Nat /\ o.release \in Run!Release /\ o.read <= Len(applied) /\ Len(applied) \in Nat
  BY <1>1 DEF RunInv, RunTypes, MigrationsOnce, ProcState
<1>6. ASSUME o.read < o.release
      PROVE  o.read = Len(applied) /\ Len(applied) + 1 \in Run!Outstanding(p)
  <2>1. o.read + 1 \in Run!Outstanding(p)
    BY <1>1, <1>5, <1>6, ServerBounds DEF Run!Outstanding, Run!Release
  <2>2. ~Run!Exists(o.read + 1)
    BY <2>1 DEF Run!RunMigrations
  <2>3. ~(o.read + 1 <= Len(applied))
    BY <1>5, <2>2, AppliedIs DEF RunInv, RunTypes, MigrationsOnce
  <2> QED
    BY <1>5, <2>1, <2>3
<1>7. ASSUME o.read < o.release, NEW q \in Proc \ {p}, Runs(proc[q])
      PROVE  FALSE
  <2>1. proc[q] \in ProcState /\ proc[q].at = "migrating" /\ proc[q].read = Len(applied) /\ proc[q].read < proc[q].release
    BY <1>7 DEF RunInv, RunTypes, MigrationsOnce, Runs
  <2>2. Len(applied) + 1 \in Run!Outstanding(q)
    <3>1. proc[q].release \in Run!Release /\ Len(applied) \in Nat
      BY <1>5, <2>1 DEF ProcState
    <3> QED
      BY <2>1, <3>1, ServerBounds DEF Run!Outstanding, Run!Release
  <2>3. Len(applied) + 1 \in Run!Outstanding(p)
    BY <1>6, <1>7
  <2>4. ~(\E r \in Proc \ {p} : proc[r].at = "migrating" /\ Run!Outstanding(r) \cap Run!Outstanding(p) # {})
    BY DEF Run!RunMigrations, Run!Waits
  <2> QED
    BY <1>7, <2>1, <2>2, <2>3, <2>4
<1>8. Runs(s) => s.read = Len(applied) /\ \A q \in Proc \ {p} : ~Runs(proc[q])
  BY <1>3, <1>6, <1>7 DEF Runs
<1>9. closes' \in [Proc -> 0..2]
  BY <1>4 DEF RunInv, RunTypes
<1> QED
  BY <1>1, <1>3, <1>4, <1>5, <1>8, <1>9, ProcStep

LEMMA RunCommits ==
  ASSUME RunInv, NEW p \in Proc, Run!CommitMigrations(p)
  PROVE  RunInv'
<1>1. RunTypes /\ MigrationsOnce
  BY DEF RunInv
<1>2. PICK o \in ProcState : o = proc[p]
  BY <1>1 DEF RunTypes
<1>3. PICK m \in Nat, b \in Nat, r \in Nat : m = Len(applied) /\ b = o.read /\ r = o.release
  BY <1>1, <1>2 DEF RunTypes, ProcState, Run!Release
<1>4. b <= m /\ (b < r => b = m) /\ r \in Run!Release
  BY <1>1, <1>2, <1>3 DEF MigrationsOnce, Runs, Run!CommitMigrations, ProcState
<1>5. PICK n \in Nat : n = IF b < r THEN r - b ELSE 0
  <2>1. (IF b < r THEN r - b ELSE 0) \in Nat
    OBVIOUS
  <2> QED
    BY <2>1
<1>6. /\ applied' = applied \o [i \in 1..n |-> b + i] /\ proc' = [proc EXCEPT ![p] = Run!After(o)]
      /\ UNCHANGED <<job, closes, container, cut>> /\ o.at = "migrating"
  BY <1>1, <1>2, <1>3, <1>5 DEF Run!CommitMigrations, RunTypes
<1>7. applied' = applied \o [i \in 1..n |-> Len(applied) + i]
  <2>1. n # 0 => b = m
    BY <1>4, <1>5
  <2>2. [i \in 1..n |-> b + i] = [i \in 1..n |-> m + i]
    <3>1. CASE n = 0
      BY <3>1
    <3>2. CASE n # 0
      BY <2>1, <3>2
    <3> QED
      BY <3>1, <3>2
  <2> QED
    BY <1>3, <1>6, <2>2
<1>8. applied' \in Seq(Nat) /\ Len(applied') = Len(applied) + n /\ \A i \in 1..Len(applied') : applied'[i] = i
  BY <1>1, <1>7, Applied DEF RunTypes, MigrationsOnce
<1>9. m <= Len(applied') /\ r <= Len(applied') /\ Len(applied') <= MaxMigration /\ (Len(applied') # m => b < r)
  <2>1. m <= MaxMigration /\ r <= MaxMigration /\ MaxMigration \in Nat
    BY <1>1, <1>3, <1>4, ServerBounds DEF RunTypes, Run!Release
  <2>2. CASE b < r
    <3>1. n = r - m /\ m < r
      BY <1>4, <1>5, <2>2
    <3>2. Len(applied') = m + n
      BY <1>3, <1>8
    <3>3. Len(applied') = r
      BY <3>1, <3>2
    <3> QED
      BY <2>1, <2>2, <3>1, <3>3
  <2>3. CASE ~(b < r)
    BY <1>3, <1>4, <1>5, <1>8, <2>1, <2>3
  <2> QED
    BY <2>2, <2>3
<1>10. PICK s : s = Run!After(o)
  OBVIOUS
<1>11. s \in ProcState /\ s.at \in {"serving", "down"} /\ s.read = 0 /\ (s.at = "serving" => s.release = r)
  <2>1. CASE o.role = "server"
    <3>1. s = [o EXCEPT !.at = "serving", !.read = 0]
      BY <1>10, <2>1 DEF Run!After
    <3>2. s = [at |-> "serving", role |-> o.role, release |-> o.release, read |-> 0, starts |-> o.starts]
      BY <1>2, <3>1 DEF ProcState
    <3> QED
      BY <1>2, <1>3, <3>2 DEF ProcState
  <2>2. CASE o.role # "server"
    BY <1>2, <1>10, <2>2, DownIs DEF Run!After, ProcState
  <2> QED
    BY <2>1, <2>2
<1>12. /\ proc' \in [Proc -> ProcState] /\ proc'[p] = s /\ \A q \in Proc \ {p} : proc'[q] = proc[q]
  BY <1>1, <1>6, <1>10, <1>11 DEF RunTypes
<1>13. RunTypes'
  BY <1>1, <1>6, <1>8, <1>9, <1>12 DEF RunTypes
<1>14. ~Runs(s)
  BY <1>11 DEF Runs
<1>15. ASSUME NEW q \in Proc \ {p}
       PROVE  /\ proc'[q].read <= Len(applied')
              /\ Runs(proc'[q]) => proc'[q].read = Len(applied')
              /\ proc'[q].at \in {"serving", "closing"} => proc'[q].release <= Len(applied')
  <2>1. proc'[q] = proc[q] /\ proc[q] \in ProcState
    BY <1>1, <1>12 DEF RunTypes
  <2>2. proc[q].read \in Nat /\ proc[q].release \in Nat /\ Len(applied') \in Nat
    BY <1>3, <1>8, <2>1 DEF ProcState, Run!Release
  <2>3. /\ proc[q].read <= m /\ (Runs(proc[q]) => proc[q].read = m)
        /\ proc[q].at \in {"serving", "closing"} => proc[q].release <= m
    BY <1>1, <1>3 DEF MigrationsOnce
  <2>4. Runs(proc[q]) => ~(b < r)
    BY <1>1, <1>2, <1>3, <1>6 DEF MigrationsOnce, Runs
  <2>5. Runs(proc[q]) => Len(applied') = m
    BY <1>9, <2>4
  <2> QED
    BY <1>9, <2>1, <2>2, <2>3, <2>5
<1>16. MigrationsOnce'
  <2>1. /\ proc'[p].read <= Len(applied') /\ ~Runs(proc'[p])
        /\ proc'[p].at \in {"serving", "closing"} => proc'[p].release <= Len(applied')
    BY <1>3, <1>9, <1>11, <1>12, <1>14
  <2>2. \A q, x \in Proc : Runs(proc'[q]) /\ Runs(proc'[x]) => q = x
    BY <1>1, <1>12, <1>14 DEF MigrationsOnce
  <2> QED
    BY <1>8, <1>15, <2>1, <2>2 DEF MigrationsOnce
<1>17. JobsServed'
  BY <1>2, <1>6, <1>12 DEF RunInv, JobsServed
<1> QED
  BY <1>13, <1>16, <1>17 DEF RunInv

LEMMA RunNext == RunInv /\ Run!Next => RunInv'
<1> SUFFICES ASSUME RunInv, Run!Next PROVE RunInv'
  OBVIOUS
<1>1. RunTypes /\ MigrationsOnce /\ JobsServed
  BY DEF RunInv
<1>2. ASSUME NEW p \in Proc
      PROVE  /\ proc[p] \in ProcState /\ closes[p] \in 0..2 /\ \A j \in Job : job[p][j] \in JobState
             /\ proc[p].read \in Nat /\ proc[p].read <= Len(applied) /\ Len(applied) \in Nat
  BY <1>1 DEF RunTypes, MigrationsOnce, ProcState
<1>3. ASSUME NEW p \in Proc, NEW role \in {"server", "cli"}, NEW release \in Run!Release, Run!Boot(p, role, release)
      PROVE  RunInv'
  <2>1. PICK n \in 0..MaxStart : n = proc[p].starts + 1
    BY <1>2, <1>3, ServerBounds DEF Run!Boot, ProcState
  <2>2. PICK s : s = [at |-> "booted", role |-> role, release |-> release, read |-> 0, starts |-> n]
    OBVIOUS
  <2>3. s \in ProcState /\ s.at = "booted" /\ s.read = 0 /\ ~Runs(s)
    BY <2>2 DEF ProcState, Runs
  <2>4. /\ proc' = [proc EXCEPT ![p] = s] /\ UNCHANGED <<applied, job, closes, container, cut>>
        /\ proc[p].at = "down" /\ closes' \in [Proc -> 0..2] /\ s.read <= Len(applied)
    BY <1>1, <1>2, <1>3, <2>1, <2>2, <2>3 DEF Run!Boot, RunTypes
  <2> QED
    BY <2>3, <2>4, ProcStep
<1>4. ASSUME NEW p \in Proc, Run!ReadApplied(p)
      PROVE  RunInv'
  <2>1. PICK o \in ProcState : o = proc[p]
    BY <1>2
  <2>2. PICK s : s = [at |-> "read", role |-> o.role, release |-> o.release, read |-> Len(applied), starts |-> o.starts]
    OBVIOUS
  <2>3. s \in ProcState /\ s.at = "read" /\ s.read = Len(applied) /\ ~Runs(s) /\ s.read <= Len(applied)
    <3>1. s.at = "read" /\ s.read = Len(applied) /\ Len(applied) \in Nat
      BY <1>2, <2>2
    <3>2. s \in ProcState
      BY <2>1, <2>2, <3>1 DEF ProcState
    <3> QED
      BY <3>1, <3>2 DEF Runs
  <2>4. proc' = [proc EXCEPT ![p] = s]
    <3>1. [o EXCEPT !.at = "read", !.read = Len(applied)] = s
      <4>1. PICK x, n : x = [o EXCEPT !.at = "read", !.read = n] /\ n = Len(applied)
        OBVIOUS
      <4>2. x = [at |-> "read", role |-> o.role, release |-> o.release, read |-> n, starts |-> o.starts]
        BY <2>1, <4>1 DEF ProcState
      <4> QED
        BY <2>2, <4>1, <4>2
    <3>2. proc' = [proc EXCEPT ![p] = [o EXCEPT !.at = "read", !.read = Len(applied)]]
      BY <1>1, <1>4, <2>1 DEF Run!ReadApplied, RunTypes
    <3> QED
      BY <3>1, <3>2
  <2>5. /\ UNCHANGED <<applied, job, closes, container, cut>> /\ proc[p].at = "booted" /\ closes' \in [Proc -> 0..2]
    BY <1>1, <1>4 DEF Run!ReadApplied, RunTypes
  <2> QED
    BY <2>3, <2>4, <2>5, ProcStep
<1>5. ASSUME NEW p \in Proc, Run!MigrationFails(p)
      PROVE  RunInv'
  <2>1. Run!Gone(p, "failed") /\ proc[p].at = "read"
    BY <1>5 DEF Run!MigrationFails
  <2>2. \A j \in Job : job[p][j].at # "tx"
    BY <1>1, <2>1 DEF JobsServed
  <2> QED
    BY <2>1, <2>2, ProcGone
<1>6. ASSUME NEW p \in Proc, NEW j \in Job,
             (\E n \in {1, 2} : Run!Ask(p, j, n)) \/ Run!Again(p, j) \/ Run!Commit(p, j) \/ Run!Refused(p, j)
      PROVE  RunInv'
  <2>1. PICK o \in JobState : o = job[p][j]
    BY <1>2
  <2>2. UNCHANGED <<applied, proc, closes, container, cut>>
    BY <1>6 DEF Run!Ask, Run!Again, Run!Commit, Run!Refused
  <2>3. o.at # "idle" => proc[p].at \in {"serving", "closing"}
    BY <1>1, <2>1 DEF JobsServed
  <2>4. PICK s \in JobState :
          job' = [job EXCEPT ![p][j] = s] /\ (s.at # "idle" => proc[p].at \in {"serving", "closing"})
    <3>1. CASE \E n \in {1, 2} : Run!Ask(p, j, n)
      <4>1. PICK n \in {1, 2} : Run!Ask(p, j, n)
        BY <3>1
      <4>2. [at |-> "tx", left |-> n] \in JobState
        BY DEF JobState
      <4> QED
        BY <4>1, <4>2 DEF Run!Ask
    <3>2. CASE Run!Again(p, j)
      <4>1. [o EXCEPT !.at = "tx"] \in JobState
        BY <2>1 DEF JobState
      <4>2. job' = [job EXCEPT ![p][j] = [o EXCEPT !.at = "tx"]] /\ o.at = "between"
        BY <1>1, <2>1, <3>2 DEF Run!Again, RunTypes
      <4> QED
        BY <2>3, <4>1, <4>2
    <3>3. CASE Run!Commit(p, j)
      <4>1. CASE o.left = 1
        <5>1. job' = [job EXCEPT ![p][j] = Run!Idle]
          BY <1>1, <2>1, <3>3, <4>1 DEF Run!Commit, RunTypes
        <5> QED
          BY <5>1, IdleIs
      <4>2. CASE o.left # 1
        <5>1. PICK i \in Int : i = o.left - 1
          BY <2>1 DEF JobState
        <5>2. [at |-> "between", left |-> i] \in JobState
          BY DEF JobState
        <5>3. job' = [job EXCEPT ![p][j] = [at |-> "between", left |-> i]] /\ o.at = "tx"
          BY <1>1, <2>1, <3>3, <4>2, <5>1 DEF Run!Commit, RunTypes
        <5> QED
          BY <2>3, <5>2, <5>3
      <4> QED
        BY <4>1, <4>2
    <3>4. CASE Run!Refused(p, j)
      <4>1. job' = [job EXCEPT ![p][j] = Run!Idle]
        BY <3>4 DEF Run!Refused
      <4> QED
        BY <4>1, IdleIs
    <3> QED
      BY <1>6, <3>1, <3>2, <3>3, <3>4
  <2> QED
    BY <2>2, <2>4, JobStep
<1>7. ASSUME NEW p \in Proc, Run!Signal(p)
      PROVE  RunInv'
  <2>1. PICK o \in ProcState : o = proc[p]
    BY <1>2
  <2>2. PICK s : s = [o EXCEPT !.at = "closing"]
    OBVIOUS
  <2>3. /\ s \in ProcState /\ s.at = "closing" /\ s.read = o.read /\ s.release = o.release /\ ~Runs(s)
    BY <2>1, <2>2 DEF ProcState, Runs
  <2>4. /\ proc' = [proc EXCEPT ![p] = s] /\ UNCHANGED <<applied, job, container, cut>>
        /\ o.at \in {"serving", "closing"}
    BY <1>1, <1>7, <2>1, <2>2 DEF Run!Signal, RunTypes
  <2>5. s.read <= Len(applied) /\ s.release <= Len(applied)
    BY <1>1, <2>1, <2>3, <2>4 DEF MigrationsOnce
  <2>6. closes' \in [Proc -> 0..2]
    <3>1. PICK n \in 0..2 : n = IF closes[p] = 0 /\ container THEN 2 ELSE closes[p] + 1
      BY <1>2, <1>7 DEF Run!Signal
    <3>2. closes' = [closes EXCEPT ![p] = n]
      BY <1>1, <1>7, <3>1 DEF Run!Signal, RunTypes
    <3> QED
      BY <1>1, <3>2 DEF RunTypes
  <2> QED
    BY <2>3, <2>4, <2>5, <2>6, ProcStep
<1>8. ASSUME NEW p \in Proc, Run!Exit(p)
      PROVE  RunInv'
  <2>1. PICK how : how = IF closes[p] = 2 THEN "rejected" ELSE "drained"
    OBVIOUS
  <2>2. Run!Gone(p, how) /\ (closes[p] = 2 \/ \A j \in Job : job[p][j].at # "tx")
    BY <1>8, <2>1 DEF Run!Exit, Run!Drained
  <2>3. how \in {"crash", "rejected"} \/ \A j \in Job : job[p][j].at # "tx"
    BY <2>1, <2>2
  <2> QED
    BY <2>2, <2>3, ProcGone
<1>9. ASSUME NEW p \in Proc, Run!Crash(p)
      PROVE  RunInv'
  BY <1>9, ProcGone DEF Run!Crash
<1> QED
  BY <1>3, <1>4, <1>5, <1>6, <1>7, <1>8, <1>9, RunMigrates, RunCommits DEF Run!Next

-----------------------------------------------------------------------------
(* The types of the landing pages *)

\* A launch is looked after once, and every launch is the automatic one or a press.
LandedKinds ==
  /\ card \in Landed!Served /\ automatic \in BOOLEAN /\ launched \in BOOLEAN /\ visible \in BOOLEAN
  /\ hint \in {None, "first", "missing", "again", "taking over"}
PressesCounted == pressed \in Nat /\ pressed <= MaxPress /\ checks \in Nat /\ checks <= pressed + Spent

LandedTypes == LandedKinds /\ PressesCounted

LEMMA LandedTypesInit == Landed!Init => LandedTypes
<1> SUFFICES ASSUME Landed!Init PROVE LandedTypes
  OBVIOUS
<1>1. card.timer \in BOOLEAN
  <2>1. \/ \E k \in {"success", "error", "web-complete", "web-error"} : card = Landed!Card(k)
        \/ \E f \in BOOLEAN : card = Landed!Invite(f)
    BY DEF Landed!Init, Landed!Served
  <2>2. \A k \in {"success", "error", "web-complete", "web-error"} : Landed!Card(k).timer \in BOOLEAN
    BY DEF Landed!Card
  <2>3. \A f \in BOOLEAN : Landed!Invite(f).timer \in BOOLEAN
    BY DEF Landed!Invite
  <2> QED
    BY <2>1, <2>2, <2>3
<1>2. LandedKinds
  BY <1>1 DEF Landed!Init, LandedKinds
<1>3. pressed = 0 /\ checks = 0
  BY DEF Landed!Init
<1>4. PressesCounted
  <2>1. MaxPress \in Nat
    BY ServerBounds
  <2>2. PICK n : n = Spent /\ n \in {0, 1}
    BY SpentIs
  <2>3. 0 <= MaxPress /\ 0 <= 0 + n
    BY <2>1, <2>2
  <2> QED
    BY <1>3, <2>2, <2>3 DEF PressesCounted
<1> QED
  BY <1>2, <1>4 DEF LandedTypes

LEMMA LaunchTypes ==
  ASSUME LandedTypes, Landed!AttemptLaunch, UNCHANGED <<card, visible>>, automatic' \in BOOLEAN,
         pressed' \in Nat, pressed' <= MaxPress, pressed' + Spent' = pressed + Spent + 1
  PROVE  LandedTypes'
<1>1. LandedKinds'
  BY DEF Landed!AttemptLaunch, LandedTypes, LandedKinds
<1>2. checks' \in {checks, checks + 1}
  BY DEF Landed!AttemptLaunch
<1>3. Spent \in {0, 1} /\ Spent' \in {0, 1}
  BY DEF Spent
<1>4. pressed \in Nat /\ checks \in Nat /\ checks <= pressed + Spent
  BY DEF LandedTypes, PressesCounted
<1>5. PICK s, t, d, q : s = Spent /\ t = Spent' /\ d = checks' /\ q = pressed'
  OBVIOUS
<1>6. /\ pressed \in Nat /\ s \in {0, 1} /\ checks \in Nat /\ checks <= pressed + s
      /\ q \in Nat /\ t \in {0, 1} /\ q + t = pressed + s + 1 /\ d \in {checks, checks + 1}
  BY <1>2, <1>3, <1>4, <1>5
<1>7. d \in Nat /\ d <= q + t
  BY <1>6
<1> QED
  BY <1>1, <1>5, <1>7 DEF LandedTypes, PressesCounted

LEMMA LandedTypesNext == LandedTypes /\ Landed!Next => LandedTypes'
<1> SUFFICES ASSUME LandedTypes, Landed!Next PROVE LandedTypes'
  OBVIOUS
<1>0. pressed \in Nat /\ pressed <= MaxPress /\ checks \in Nat /\ checks <= pressed + Spent /\ MaxPress \in Nat
  BY ServerBounds DEF LandedTypes, PressesCounted
<1>1. CASE Landed!Automatic
  <2>1. /\ Landed!AttemptLaunch /\ UNCHANGED <<card, visible>> /\ pressed' = pressed
        /\ automatic /\ automatic' = FALSE
    BY <1>1 DEF Landed!Automatic
  <2>2. Spent = 0 /\ Spent' = 1
    BY <2>1 DEF Spent
  <2>3. PICK n, m : n = Spent /\ m = Spent' /\ n = 0 /\ m = 1
    BY <2>2
  <2>4. pressed' + m = pressed + n + 1
    BY <1>0, <2>1, <2>3
  <2>5. automatic' \in BOOLEAN
    BY <2>1
  <2> QED
    BY <1>0, <2>1, <2>3, <2>4, <2>5, LaunchTypes
<1>2. CASE Landed!Press
  <2>1. /\ Landed!AttemptLaunch /\ UNCHANGED <<card, automatic, visible>>
        /\ pressed < MaxPress /\ pressed' = pressed + 1
    BY <1>2 DEF Landed!Press
  <2>2. PICK n : n = Spent /\ n = Spent' /\ n \in {0, 1}
    BY <2>1, SpentIs DEF Spent
  <2>3. pressed' \in Nat /\ pressed' <= MaxPress /\ pressed' + n = pressed + n + 1
    <3>1. pressed < MaxPress /\ pressed' = pressed + 1
      BY <2>1
    <3> QED
      BY <1>0, <2>2, <3>1
  <2>4. automatic' \in BOOLEAN
    BY <2>1 DEF LandedTypes, LandedKinds
  <2> QED
    BY <2>1, <2>2, <2>3, <2>4, LaunchTypes
<1>3. ASSUME UNCHANGED <<card, automatic, launched, pressed>>, visible' \in BOOLEAN,
             hint' \in {hint, "again", "taking over"}, checks' \in Nat, checks' <= checks
      PROVE  LandedTypes'
  <2>1. PICK n : n = Spent /\ n = Spent' /\ n \in {0, 1} /\ checks <= pressed + n
    BY <1>0, <1>3, SpentIs DEF Spent
  <2>2. checks' <= pressed + n
    <3>1. PICK d, m : d = checks' /\ d \in Nat /\ d <= checks /\ m = pressed + n
      BY <1>3
    <3>2. pressed \in Nat /\ checks \in Nat /\ n \in {0, 1} /\ checks <= pressed + n
      BY <1>0, <2>1
    <3>3. m \in Nat /\ checks <= m
      BY <3>1, <3>2
    <3> QED
      BY <3>1, <3>2, <3>3
  <2>3. LandedKinds'
    BY <1>3 DEF LandedTypes, LandedKinds
  <2>4. PressesCounted'
    BY <1>0, <1>3, <2>1, <2>2 DEF PressesCounted
  <2> QED
    BY <2>3, <2>4 DEF LandedTypes
<1>4. CASE Landed!Check
  <2>1. UNCHANGED <<card, automatic, launched, visible, pressed>> /\ hint' \in {hint, "again"}
    BY <1>4 DEF Landed!Check
  <2>2. checks > 0 /\ checks' = checks - 1
    BY <1>4 DEF Landed!Check
  <2>3. checks' \in Nat /\ checks' <= checks
    BY <1>0, <2>2
  <2>4. visible' \in BOOLEAN
    BY <2>1 DEF LandedTypes, LandedKinds
  <2> QED
    BY <1>3, <2>1, <2>3, <2>4
<1>5. CASE \/ \E covers \in BOOLEAN : Landed!Open(covers)
           \/ Landed!Dismiss \/ Landed!Leave \/ Landed!Return
  <2>1. UNCHANGED <<card, automatic, launched, checks, pressed>> /\ hint' \in {hint, "taking over"}
    BY <1>5 DEF Landed!Open, Landed!Dismiss, Landed!Leave, Landed!Return, Landed!Hidden
  <2>2. visible' \in BOOLEAN
    BY <1>5 DEF Landed!Open, Landed!Dismiss, Landed!Leave, Landed!Return, LandedTypes, LandedKinds
  <2>3. checks' = checks
    BY <2>1
  <2>4. checks' \in Nat /\ checks' <= checks
    BY <1>0, <2>3
  <2> QED
    BY <1>3, <2>1, <2>2, <2>4
<1> QED
  BY <1>1, <1>2, <1>4, <1>5 DEF Landed!Next

LEMMA LandedTypeOK == LandedInv /\ LandedTypes => Landed!TypeOK
<1> SUFFICES ASSUME LandedInv, LandedTypes PROVE Landed!TypeOK
  OBVIOUS
<1>1. PICK n : n = Spent /\ n \in {0, 1}
  BY SpentIs
<1>2. asked \in Nat /\ handed \in Nat /\ asked + handed <= pressed + n
  BY <1>1 DEF LandedInv, LaunchesCounted
<1>3. pressed \in Nat /\ pressed <= MaxPress /\ checks \in Nat /\ checks <= pressed + n /\ MaxPress \in Nat
  BY <1>1, ServerBounds DEF LandedTypes, PressesCounted
<1>4. pressed \in 0..MaxPress /\ checks \in 0..MaxPress + 1 /\ asked + handed <= MaxPress + 1
  BY <1>1, <1>2, <1>3
<1> QED
  BY <1>4 DEF Landed!TypeOK, LandedTypes, LandedKinds

-----------------------------------------------------------------------------
(* The routing *)

Well == INSTANCE WellFoundedInduction

\* A smallest element.
LEMMA LeastExists ==
  ASSUME NEW S, S \subseteq Nat, S # {}
  PROVE  \E i \in S : \A j \in S : i <= j
<1>1. PICK i \in S : \A j \in S : <<j, i>> \notin Well!OpToRel(<, Nat)
  BY Well!NatLessThanWellFounded, Well!WFMin
<1>2. \A j \in S : ~(j < i)
  BY <1>1 DEF Well!OpToRel
<1>3. ASSUME NEW j \in S PROVE i <= j
  <2>1. i \in Nat /\ j \in Nat /\ ~(j < i)
    BY <1>2
  <2> QED
    BY <2>1
<1> QED
  BY <1>3

\* What is counted for the refreshes of a key is what was let on of them.
Counts ==
  /\ hits \in [Http!Bucket -> [Http!Key -> Nat]]
  /\ \A b \in Http!Bucket : \A k \in Http!Key : hits[b][k] <= MaxHits[b]
  /\ renewed = hits["refresh"]
RepliesNamed ==
  reply # None =>
    /\ reply.key \in Http!Key /\ reply.req.route \in DOMAIN The
    /\ reply.by \in DOMAIN The \cup Http!Guard \cup {"nobody"}

HttpInv == Counts /\ RepliesNamed /\ Http!RefreshesCountedApart

LEMMA HttpInit == Http!Init => HttpInv
<1> SUFFICES ASSUME Http!Init PROVE HttpInv
  OBVIOUS
<1>1. Counts
  BY SurfaceAssumption DEF Http!Init, Counts, Http!Bucket
<1> QED
  BY <1>1 DEF Http!Init, HttpInv, RepliesNamed, Http!RefreshesCountedApart

LEMMA TheirNames == \A id \in DOMAIN The : The[id].id = id
BY DEF The

\* Whoever decides on a request is a guard, the limiter if its counter is full,
\* or serves a route.
LEMMA Decided ==
  ASSUME NEW req, NEW full \in BOOLEAN, req.route \in DOMAIN The, Http!Deciding(req, full) # None
  PROVE  /\ Http!By(Http!Deciding(req, full)) \in DOMAIN The \cup Http!Guard
         /\ Http!By(Http!Deciding(req, full)) = "limit" => full
<1> DEFINE live == {i \in Meets[req.route] : App[i].feature \in {"always"} \cup setup.features}
<1> DEFINE stops == {i \in live :
        CASE App[i].does = "serve" -> req.method # "options"
          [] App[i].does = "limit" -> full
          [] OTHER -> ~Http!Passes(App[i].does, req)}
<1>1. Http!Deciding(req, full) = IF stops = {} THEN None ELSE App[CHOOSE i \in stops : \A j \in stops : i <= j]
  BY DEF Http!Deciding
<1>2. stops # {}
  BY <1>1
<1>3. stops \subseteq DOMAIN App /\ DOMAIN App \subseteq Nat
  BY SurfaceAssumption DEF Meets, Met
<1>4. \E i \in stops : \A j \in stops : i <= j
  <2> HIDE DEF stops
  <2> QED
    BY <1>2, <1>3, LeastExists
<1>5. PICK i \in stops : Http!Deciding(req, full) = App[i]
  <2> HIDE DEF stops
  <2> QED
    BY <1>1, <1>2, <1>4
<1>6. App[i].does = "limit" => full
  BY <1>5
<1>7. /\ App[i].does \in Http!Guard \/ (App[i].does = "serve" /\ App[i].id \in DOMAIN The)
      /\ "limit" \notin DOMAIN The
  BY <1>3, <1>5, SurfaceAssumption DEF Http!Guard
<1> QED
  BY <1>5, <1>6, <1>7 DEF Http!By, Http!Guard

\* A request meets its route's entries in order: those that are live and stop it.
Live(i) == App[i].feature \in {"always"} \cup setup.features
Stops(i, req, full) ==
  CASE App[i].does = "serve" -> req.method # "options"
    [] App[i].does = "limit" -> full
    [] OTHER -> ~Http!Passes(App[i].does, req)
First(i, req, full) ==
  /\ i \in Meets[req.route] /\ i \in Nat /\ Live(i) /\ Stops(i, req, full)
  /\ \A j \in Meets[req.route] : Live(j) /\ Stops(j, req, full) => i <= j

LEMMA EntriesMet ==
  \A id \in DOMAIN The : Meets[id] \subseteq DOMAIN App /\ Meets[id] \subseteq Nat
BY SurfaceAssumption DEF Meets, Met

LEMMA DecidingIsFirst ==
  ASSUME NEW req, NEW full \in BOOLEAN, req.route \in DOMAIN The
  PROVE  \/ /\ Http!Deciding(req, full) = None
            /\ \A j \in Meets[req.route] : ~(Live(j) /\ Stops(j, req, full))
         \/ \E i : /\ First(i, req, full) /\ Http!Deciding(req, full) = App[i]
                   /\ Http!Deciding(req, full) # None
<1> DEFINE live == {i \in Meets[req.route] : App[i].feature \in {"always"} \cup setup.features}
<1> DEFINE stops == {i \in live :
        CASE App[i].does = "serve" -> req.method # "options"
          [] App[i].does = "limit" -> full
          [] OTHER -> ~Http!Passes(App[i].does, req)}
<1>1. Http!Deciding(req, full) = IF stops = {} THEN None ELSE App[CHOOSE i \in stops : \A j \in stops : i <= j]
  BY DEF Http!Deciding
<1>2. \A i : i \in stops <=> i \in Meets[req.route] /\ Live(i) /\ Stops(i, req, full)
  BY DEF Live, Stops
<1>3. stops \subseteq DOMAIN App /\ DOMAIN App \subseteq Nat
  BY SurfaceAssumption DEF Meets, Met
<1> HIDE DEF stops
<1>4. CASE stops = {}
  BY <1>1, <1>2, <1>4
<1>5. CASE stops # {}
  <2>1. \E i \in stops : \A j \in stops : i <= j
    BY <1>3, <1>5, LeastExists
  <2>2. PICK i \in stops : Http!Deciding(req, full) = App[i] /\ \A j \in stops : i <= j
    BY <1>1, <1>5, <2>1
  <2>3. First(i, req, full)
    BY <1>2, <1>3, <2>2 DEF First
  <2>4. App[i] # None
    BY <1>3, <2>2, SurfaceAssumption
  <2> QED
    BY <2>2, <2>3, <2>4
<1> QED
  BY <1>4, <1>5

\* A request that a route can be sent.
Sendable(req) ==
  /\ req.route \in DOMAIN The
  /\ req.method \in {The[req.route].method, "options"}
  /\ req.credential \in Http!Credential
  /\ req.wellFormed \in BOOLEAN
  /\ req.wellFormed \/ The[req.route].input

\* What serves a route, and how the entries around it are.
LEMMA RouteMounted ==
  ASSUME NEW id \in DOMAIN The
  PROVE  \E own \in Meets[id] :
           /\ own \in Nat
           /\ App[own].does = "serve" /\ App[own].id = id /\ App[own].input = The[id].input
           /\ \A i \in Meets[id] : Http!EntryFits(The[id], own, i)
BY MountAssumption, TheirNames, EntriesMet DEF Http!TablesAgree, Http!Mounts

LEMMA FeatureIs ==
  ASSUME NEW id \in DOMAIN The
  PROVE  Http!Mounted(id) <=> Http!FeatureOf(id) \in {"always"} \cup setup.features
BY MountAssumption DEF Http!TablesAgree, Http!Mounted, Http!FeatureOf

\* Every entry a request meets is the answer to preflights, a limit, a guard of
\* its route before the handler, or a handler from its own on.
LEMMA EntryKinds ==
  ASSUME NEW id \in DOMAIN The, NEW own, NEW i, Http!EntryFits(The[id], own, i)
  PROVE  /\ App[i].does = "cors" => i = 1
         /\ App[i].does = "limit" => Len(The[id].path) > 2 /\ The[id].path[2] = "auth"
         /\ App[i].does = "serve" => own <= i /\ App[i].feature = Http!FeatureOf(id)
         /\ App[i].does \notin {"cors", "limit", "serve"} =>
              /\ i < own /\ App[i].feature = Http!FeatureOf(id)
              /\ App[i].does \in Http!GuardsOf(The[id])
              /\ App[i].does = "query" => 400 \in The[id].declared
              /\ App[i].does # "query" =>
                   Http!Refusals(App[i]) \subseteq The[id].declared \cup Http!Undocumented(The[id])
BY TheirNames DEF Http!EntryFits

\* The guards of a route ask for the credential it declares.
LEMMA GuardsAsk ==
  ASSUME NEW req, Sendable(req), NEW r, r = The[req.route]
  PROVE  /\ (\A g \in Http!GuardsOf(r) : Http!Passes(g, req)) => Http!Entitled(r, req.credential)
         /\ \A g \in Http!GuardsOf(r) :
              g # "query" /\ ~Http!Passes(g, req) => ~Http!Entitled(r, req.credential)
         /\ "cors" \notin Http!GuardsOf(r) /\ "serve" \notin Http!GuardsOf(r)
         /\ "limit" \notin Http!GuardsOf(r) /\ Http!GuardsOf(r) \subseteq Http!Guard
<1>1. /\ r.id = req.route
      /\ r.security \in Http!Kinds
      /\ r.security \in {"optional", "AdminBearer"} => r.id \notin Http!Sockets
      /\ r.security = "relay" => r.id \in Http!Sockets
  BY MountAssumption, TheirNames DEF Sendable, Http!TablesAgree, Http!Mounts
<1>2. req.credential \in Http!Credential
  BY DEF Sendable
<1>3. CASE r.security = "none"
  BY <1>3 DEF Http!GuardsOf, Http!Entitled
<1>4. CASE r.security = "optional"
  BY <1>1, <1>2, <1>4
     DEF Http!GuardsOf, Http!Entitled, Http!Passes, Http!OptionalAuth, Http!Header, Http!Guard
<1>5. CASE r.security = "Bearer" /\ r.id \in Http!Sockets
  BY <1>1, <1>2, <1>5
     DEF Http!GuardsOf, Http!Entitled, Http!Passes, Http!SocketAuth, Http!Protocol, Http!Guard
<1>6. CASE r.security = "Bearer" /\ r.id \notin Http!Sockets
  BY <1>1, <1>2, <1>6
     DEF Http!GuardsOf, Http!Entitled, Http!Passes, Http!RequireAuth, Http!Header, Http!Guard
<1>7. CASE r.security = "AdminBearer"
  BY <1>1, <1>2, <1>7
     DEF Http!GuardsOf, Http!Entitled, Http!Passes, Http!RequireAdmin, Http!Header, Http!Guard
<1>8. CASE r.security = "relay"
  BY <1>1, <1>2, <1>8
     DEF Http!GuardsOf, Http!Entitled, Http!Passes, Http!RelayIdentity, Http!Protocol, Http!Guard
<1> QED
  BY <1>1, <1>3, <1>4, <1>5, <1>6, <1>7, <1>8 DEF Http!Kinds

\* What the entry d that decides on a request says of it.
Rightly(req, d, by) ==
  LET r == The[req.route] IN
  /\ req.method = "options" <=> by = "cors"
  /\ by = "limit" => Len(r.path) > 2 /\ r.path[2] = "auth"
  /\ req.method # "options" /\ by # "limit" => (by = "nobody" <=> ~Http!Mounted(req.route))
  /\ by = "query" => ~req.wellFormed /\ 400 \in r.declared
  /\ by \notin {"cors", "limit", "nobody", "query"} =>
       /\ by = req.route <=> Http!Entitled(r, req.credential)
       /\ (IF d.does = "serve" THEN Http!Handled(d, req) ELSE Http!Refusals(d))
            \subseteq r.declared \cup Http!Undocumented(r)
  /\ by = req.route => d.does = "serve" /\ d.id = req.route

LEMMA Preflighted ==
  ASSUME NEW req, Sendable(req), NEW full \in BOOLEAN, req.method = "options"
  PROVE  Http!Deciding(req, full) = App[1] /\ App[1].does = "cors" /\ App[1] # None
<1>1. /\ 1 \in Meets[req.route] /\ App[1].does = "cors" /\ App[1].feature = "always"
      /\ req.route \in DOMAIN The
  BY MountAssumption, TheirNames DEF Sendable, Http!TablesAgree, Http!Mounts
<1>2. Live(1) /\ Stops(1, req, full)
  BY <1>1 DEF Live, Stops, Http!Passes
<1>3. PICK i : First(i, req, full) /\ Http!Deciding(req, full) = App[i] /\ Http!Deciding(req, full) # None
  BY <1>1, <1>2, DecidingIsFirst
<1>4. i \in 1..Len(App) /\ i <= 1
  BY <1>1, <1>2, <1>3, EntriesMet, SurfaceAssumption DEF First
<1>5. i = 1
  BY <1>4
<1> QED
  BY <1>1, <1>3, <1>5

LEMMA RightlyDecided ==
  ASSUME NEW req, Sendable(req), NEW full \in BOOLEAN, NEW d, d = Http!Deciding(req, full),
         NEW by, by = IF d = None THEN "nobody" ELSE Http!By(d)
  PROVE  Rightly(req, d, by)
<1>1. PICK id, r : id = req.route /\ id \in DOMAIN The /\ r = The[id]
  BY DEF Sendable
<1>2. PICK own \in Meets[id] :
           /\ own \in Nat
           /\ App[own].does = "serve" /\ App[own].id = id /\ App[own].input = r.input
           /\ \A i \in Meets[id] : Http!EntryFits(r, own, i)
  BY <1>1, RouteMounted
<1>3. id \notin Http!Guard \cup {"nobody"}
  BY <1>1, SurfaceAssumption
<1>4. CASE req.method = "options"
  <2>1. d.does = "cors" /\ d # None /\ by = "cors"
    BY <1>4, Preflighted DEF Http!By
  <2> QED
    BY <1>1, <1>3, <1>4, <2>1 DEF Rightly, Http!Guard
<1>5. CASE req.method # "options" /\ d = None
  <2>1. \A j \in Meets[id] : ~(Live(j) /\ Stops(j, req, full))
    BY <1>1, <1>5, DecidingIsFirst
  <2>2. ~Live(own)
    BY <1>2, <1>5, <2>1 DEF Stops
  <2>3. App[own].feature = Http!FeatureOf(id)
    BY <1>1, <1>2, EntryKinds
  <2>4. ~Http!Mounted(id)
    BY <1>1, <2>2, <2>3, FeatureIs DEF Live
  <2>5. by = "nobody"
    BY <1>5
  <2> QED
    BY <1>1, <1>3, <1>5, <2>4, <2>5 DEF Rightly
<1>6. CASE req.method # "options" /\ d # None
  <2>1. PICK i : First(i, req, full) /\ d = App[i]
    BY <1>1, <1>6, DecidingIsFirst
  <2>2. /\ i \in Meets[id] /\ i \in Nat /\ Live(i) /\ Stops(i, req, full)
        /\ \A j \in Meets[id] : Live(j) /\ Stops(j, req, full) => i <= j
        /\ by = Http!By(App[i])
    BY <1>1, <1>6, <2>1 DEF First
  <2>3. /\ App[i].does = "limit" => Len(r.path) > 2 /\ r.path[2] = "auth"
        /\ App[i].does = "serve" => own <= i /\ App[i].feature = Http!FeatureOf(id)
        /\ App[i].does \notin {"cors", "limit", "serve"} =>
              /\ i < own /\ App[i].feature = Http!FeatureOf(id)
              /\ App[i].does \in Http!GuardsOf(r)
              /\ App[i].does = "query" => 400 \in r.declared
              /\ App[i].does # "query" =>
                   Http!Refusals(App[i]) \subseteq r.declared \cup Http!Undocumented(r)
    BY <1>1, <1>2, <2>2, EntryKinds
  <2>4. App[i].does # "cors"
    BY <1>6, <2>2 DEF Stops, Http!Passes
  <2>5. CASE App[i].does = "limit"
    BY <1>1, <1>3, <1>6, <2>1, <2>2, <2>3, <2>5 DEF Rightly, Http!By, Http!Guard
  <2>6. App[i].does # "limit" => Http!Mounted(id)
    BY <1>1, <2>2, <2>3, <2>4, FeatureIs DEF Live
  <2>7. CASE App[i].does = "serve"
    <3>1. Live(own) /\ Stops(own, req, full)
      BY <1>1, <1>2, <1>6, <2>2, <2>3, <2>7, EntryKinds DEF Live, Stops
    <3>2. i = own
      <4>1. i <= own /\ own <= i
        BY <1>2, <2>2, <2>3, <2>7, <3>1
      <4> QED
        BY <1>2, <2>2, <4>1
    <3>3. by = id
      BY <1>2, <2>2, <3>2 DEF Http!By
    <3>4. ASSUME NEW g \in Http!GuardsOf(r) PROVE Http!Passes(g, req)
      <4>1. /\ g \notin {"cors", "limit", "serve"}
            /\ \E j \in Meets[id] : App[j].does = g
        BY <1>1, MountAssumption, TheirNames, GuardsAsk DEF Http!TablesAgree, Http!Mounts
      <4>2. PICK j \in Meets[id] : App[j].does = g
        BY <4>1
      <4>3. j \in Nat /\ j < own /\ App[j].feature = Http!FeatureOf(id)
        BY <1>1, <1>2, <4>1, <4>2, EntryKinds, EntriesMet
      <4>4. Live(j) /\ ~(i <= j)
        BY <1>1, <1>2, <2>2, <2>6, <2>7, <3>2, <4>3, FeatureIs DEF Live
      <4>5. ~Stops(j, req, full)
        BY <2>2, <4>2, <4>4
      <4> QED
        BY <4>1, <4>2, <4>5 DEF Stops
    <3>5. Http!Entitled(r, req.credential)
      BY <1>1, <3>4, GuardsAsk
    <3>6. Http!Handled(d, req) \subseteq r.declared \cup Http!Undocumented(r)
      <4>1. /\ r.input => 400 \in r.declared \cup Http!Undocumented(r)
            /\ Answers[id] \subseteq r.declared \cup Http!Undocumented(r)
        BY <1>1, MountAssumption, TheirNames DEF Http!TablesAgree, Http!Documents
      <4>2. 500 \in Http!Undocumented(r)
        BY DEF Http!Undocumented
      <4>3. d.id = id /\ d.input = r.input
        BY <1>2, <2>1, <3>2
      <4> QED
        BY <4>1, <4>2, <4>3 DEF Http!Handled
    <3> QED
      BY <1>1, <1>2, <1>3, <1>6, <2>1, <2>6, <2>7, <3>2, <3>3, <3>5, <3>6 DEF Rightly, Http!Guard
  <2>8. CASE App[i].does \notin {"limit", "serve"}
    <3>1. by = App[i].does /\ by \in Http!GuardsOf(r) /\ ~Http!Passes(by, req)
      BY <2>2, <2>3, <2>4, <2>8 DEF Stops, Http!By
    <3>2. by \in Http!Guard /\ by # "cors" /\ by # "limit" /\ by # id /\ by # "nobody"
      BY <1>1, <1>3, <2>4, <2>8, <3>1, GuardsAsk DEF Http!Guard
    <3>3. by = "query" => ~req.wellFormed /\ 400 \in r.declared
      BY <2>3, <2>4, <2>8, <3>1 DEF Http!Passes
    <3>4. by # "query" => ~Http!Entitled(r, req.credential)
      BY <1>1, <3>1, GuardsAsk
    <3>5. by # "query" => Http!Refusals(d) \subseteq r.declared \cup Http!Undocumented(r)
      BY <2>1, <2>3, <2>4, <2>8, <3>1
    <3>6. d.does # "serve"
      BY <2>1, <2>8
    <3> QED
      BY <1>1, <1>6, <2>6, <2>8, <3>2, <3>3, <3>4, <3>5, <3>6 DEF Rightly
  <2> QED
    BY <2>5, <2>7, <2>8
<1> QED
  BY <1>4, <1>5, <1>6

LEMMA HttpNext == HttpInv /\ Http!Next => HttpInv'
<1> SUFFICES ASSUME HttpInv, Http!Next PROVE HttpInv'
  OBVIOUS
<1>1. ASSUME NEW c \in User, NEW r, r.id \in DOMAIN The, NEW method, NEW credential, NEW ok,
             Http!Ask(c, r, method, credential, ok)
      PROVE  HttpInv'
  <2> DEFINE req == [route |-> r.id, method |-> method, credential |-> credential, wellFormed |-> ok]
             b == Http!BucketOf(r.id)
             k == Http!KeyOf(c)
             counts == method # "options" /\ \E i \in Meets[r.id] : App[i].does = "limit"
             full == counts /\ hits[b][k] >= MaxHits[b]
             entry == Http!Deciding(req, full)
  <2>1. /\ hits' = IF counts THEN [hits EXCEPT ![b][k] = Http!Counted(@, b)] ELSE hits
        /\ renewed' = IF counts /\ ~full /\ r.id = "refresh" THEN [renewed EXCEPT ![k] = @ + 1] ELSE renewed
        /\ IF entry = None
           THEN reply' = [req |-> req, key |-> k, by |-> "nobody", status |-> 404]
           ELSE \E s \in IF entry.does = "serve" THEN Http!Handled(entry, req) ELSE Http!Refusals(entry) :
                  reply' = [req |-> req, key |-> k, by |-> Http!By(entry), status |-> s]
    BY <1>1 DEF Http!Ask
  <2>2. /\ b \in Http!Bucket /\ k \in Http!Key
        /\ b = "refresh" <=> r.id = "refresh"
    BY <1>1 DEF Http!BucketOf, Http!KeyOf, Http!Bucket, Http!Key
  <2>3. PICK h, n : /\ h = hits[b][k] /\ h \in Nat /\ MaxHits[b] \in Nat /\ h <= MaxHits[b]
                    /\ n = Http!Counted(h, b) /\ n \in Nat /\ n <= MaxHits[b]
                    /\ n = IF h >= MaxHits[b] THEN h ELSE h + 1
    <3>1. hits[b][k] \in Nat /\ hits[b][k] <= MaxHits[b]
      BY <2>2 DEF HttpInv, Counts
    <3>2. MaxHits[b] \in Nat
      BY <2>2, SurfaceAssumption
    <3>3. PICK h, m : h = hits[b][k] /\ m = MaxHits[b] /\ h \in Nat /\ m \in Nat /\ h <= m
      BY <3>1, <3>2
    <3>4. PICK n : n = IF h >= m THEN h ELSE h + 1
      OBVIOUS
    <3>5. n \in Nat /\ n <= m
      BY <3>3, <3>4
    <3>6. n = Http!Counted(h, b)
      BY <3>3, <3>4 DEF Http!Counted
    <3> QED
      BY <3>3, <3>4, <3>5, <3>6
  <2>4. PICK q : q \in BOOLEAN /\ q = full
    OBVIOUS
  <2>5. /\ hits' = IF counts THEN [hits EXCEPT ![b][k] = n] ELSE hits
        /\ q = (counts /\ h >= MaxHits[b])
    BY <2>1, <2>3, <2>4
  <2>6. /\ reply'.key = k /\ reply'.req.route = r.id
        /\ reply'.by = IF Http!Deciding(req, q) = None THEN "nobody" ELSE Http!By(Http!Deciding(req, q))
    BY <2>1, <2>4
  <2>7. req.route = r.id
    OBVIOUS
  <2> HIDE DEF req, b, k, counts, full, entry
  <2>8. reply'.by \in DOMAIN The \cup Http!Guard \cup {"nobody"} /\ (reply'.by = "limit" => q)
    BY <1>1, <2>4, <2>6, <2>7, Decided
  <2>9. Counts'
    <3>1. hits' \in [Http!Bucket -> [Http!Key -> Nat]]
      BY <2>2, <2>3, <2>5 DEF HttpInv, Counts
    <3>2. \A d \in Http!Bucket : \A l \in Http!Key : hits'[d][l] <= MaxHits[d]
      BY <2>2, <2>3, <2>5 DEF HttpInv, Counts
    <3>3. renewed' = hits'["refresh"]
      <4>1. renewed = hits["refresh"] /\ "refresh" \in Http!Bucket /\ hits["refresh"] \in [Http!Key -> Nat]
        BY DEF HttpInv, Counts, Http!Bucket
      <4>2. CASE counts /\ r.id = "refresh"
        <5>1. hits'["refresh"] = [renewed EXCEPT ![k] = n] /\ h = renewed[k]
          BY <2>2, <2>3, <2>5, <4>1, <4>2 DEF HttpInv, Counts
        <5>2. renewed' = IF h >= MaxHits[b] THEN renewed ELSE [renewed EXCEPT ![k] = h + 1]
          <6>1. renewed' = IF ~q THEN [renewed EXCEPT ![k] = renewed[k] + 1] ELSE renewed
            BY <2>1, <2>4, <4>2
          <6>2. q <=> h >= MaxHits[b]
            BY <2>5, <4>2
          <6> QED
            BY <5>1, <6>1, <6>2
        <5>3. renewed \in [Http!Key -> Nat]
          BY <4>1
        <5> QED
          BY <2>2, <2>3, <5>1, <5>2, <5>3
      <4>3. CASE ~counts \/ r.id # "refresh"
        BY <2>1, <2>2, <2>5, <4>1, <4>3 DEF HttpInv, Counts
      <4> QED
        BY <4>2, <4>3
    <3> QED
      BY <3>1, <3>2, <3>3 DEF Counts
  <2>10. RepliesNamed'
    BY <1>1, <2>2, <2>6, <2>8 DEF RepliesNamed
  <2>11. Http!RefreshesCountedApart'
    <3> SUFFICES ASSUME q, r.id = "refresh" PROVE renewed'[k] >= MaxHits["refresh"]
      BY <2>6, <2>8 DEF Http!RefreshesCountedApart
    <3>1. renewed' = renewed
      BY <2>1, <2>4
    <3>2. renewed[k] = h /\ h >= MaxHits["refresh"]
      BY <2>2, <2>3, <2>5 DEF HttpInv, Counts
    <3> QED
      BY <3>1, <3>2
  <2> QED
    BY <2>9, <2>10, <2>11 DEF HttpInv
<1>2. CASE Http!Done
  BY <1>2 DEF Http!Done, HttpInv, Counts, RepliesNamed, Http!RefreshesCountedApart
<1>3. ASSUME NEW b \in Http!Bucket, NEW k \in Http!Key, Http!WindowEnds(b, k) PROVE HttpInv'
  <2>1. /\ reply = None /\ reply' = None /\ hits' = [hits EXCEPT ![b][k] = 0]
        /\ renewed' = IF b = "refresh" THEN [renewed EXCEPT ![k] = 0] ELSE renewed
    BY <1>3 DEF Http!WindowEnds
  <2>2. hits' \in [Http!Bucket -> [Http!Key -> Nat]]
    BY <2>1 DEF HttpInv, Counts
  <2>3. \A d \in Http!Bucket : \A l \in Http!Key : hits'[d][l] <= MaxHits[d]
    <3>1. MaxHits[b] \in Nat
      BY SurfaceAssumption
    <3>2. 0 <= MaxHits[b]
      BY <3>1
    <3> QED
      BY <2>1, <3>2 DEF HttpInv, Counts
  <2>4. renewed' = hits'["refresh"]
    BY <2>1 DEF HttpInv, Counts, Http!Bucket
  <2> QED
    BY <2>1, <2>2, <2>3, <2>4 DEF HttpInv, Counts, RepliesNamed, Http!RefreshesCountedApart
<1>4. \A id \in DOMAIN The : The[id].id \in DOMAIN The
  BY TheirNames
<1> QED
  BY <1>1, <1>2, <1>3, <1>4 DEF Http!Next

LEMMA AskFollows ==
  ASSUME NEW c \in User, NEW id \in DOMAIN The, NEW method \in {The[id].method, "options"},
         NEW credential \in Http!Credential, NEW ok \in BOOLEAN, ok \/ The[id].input,
         Http!Ask(c, The[id], method, credential, ok), Http!RefreshesCountedApart'
  PROVE  Http!RequestsFollowDeclarations'
<1> DEFINE req == [route |-> id, method |-> method, credential |-> credential, wellFormed |-> ok]
           counts == method # "options" /\ \E i \in Meets[id] : App[i].does = "limit"
           full == counts /\ hits[Http!BucketOf(id)][Http!KeyOf(c)] >= MaxHits[Http!BucketOf(id)]
<1>1. The[id].id = id
  BY TheirNames
<1>2. PICK d, by : /\ d = Http!Deciding(req, full)
                   /\ by = IF d = None THEN "nobody" ELSE Http!By(d)
  OBVIOUS
<1>3. /\ IF d = None
         THEN reply' = [req |-> req, key |-> Http!KeyOf(c), by |-> "nobody", status |-> 404]
         ELSE \E s \in IF d.does = "serve" THEN Http!Handled(d, req) ELSE Http!Refusals(d) :
                reply' = [req |-> req, key |-> Http!KeyOf(c), by |-> Http!By(d), status |-> s]
      /\ UNCHANGED setup
  BY <1>1, <1>2 DEF Http!Ask
<1>4. Sendable(req)
  BY <1>1 DEF Sendable
<1>5. Rightly(req, d, by)
  BY <1>2, <1>4, RightlyDecided
<1>6. req.route = id /\ req.credential = credential
  OBVIOUS
<1>7. PICK q : q = req
  OBVIOUS
<1> HIDE DEF req, counts, full
<1>8. /\ reply'.req = q /\ reply'.by = by
      /\ d # None => reply'.status \in IF d.does = "serve" THEN Http!Handled(d, q) ELSE Http!Refusals(d)
      /\ d = None => by = "nobody"
      /\ q.route = id /\ Rightly(q, d, by)
  BY <1>2, <1>3, <1>5, <1>6, <1>7
<1>9. Http!Mounted(id)' <=> Http!Mounted(id)
  BY <1>3 DEF Http!Mounted
<1>10. id \notin {"nobody"} \cup Http!Guard
  BY SurfaceAssumption
<1>11. /\ q.method = "options" <=> reply'.by = "cors"
       /\ reply'.by = "limit" => Len(The[id].path) > 2 /\ The[id].path[2] = "auth"
       /\ reply'.by = "query" => ~q.wellFormed /\ 400 \in The[id].declared
  BY <1>8 DEF Rightly
<1>12. q.method # "options" /\ reply'.by # "limit" => (reply'.by = "nobody" <=> ~Http!Mounted(id)')
  BY <1>8, <1>9 DEF Rightly
<1>13. reply'.by \notin {"cors", "limit", "nobody", "query"} =>
         /\ reply'.by = id <=> Http!Entitled(The[id], q.credential)
         /\ reply'.status \in The[id].declared \cup Http!Undocumented(The[id])
  BY <1>8 DEF Rightly
<1>14. id \in AdminIds \ {"spa"} /\ reply'.by = id =>
         \E e \in Calls[id] : reply'.status \in {200, 204} => (e.body <=> reply'.status = 200)
  <2> SUFFICES ASSUME id \in AdminIds \ {"spa"}, by = id
               PROVE  \E e \in Calls[id] : reply'.status \in {200, 204} => (e.body <=> reply'.status = 200)
    BY <1>8
  <2>1. d # None /\ d.does = "serve" /\ d.id = id
    BY <1>8, <1>10 DEF Rightly
  <2>2. PICK st : st = reply'.status /\ st \in Answers[id] \cup {400, 500}
    BY <1>8, <2>1 DEF Http!Handled
  <2>3. PICK e \in Calls[id] : \A s \in Answers[id] \cap {200, 204} : e.body <=> s = 200
    BY <1>1, MountAssumption DEF Http!TablesAgree, Http!Documents
  <2>4. st \in {200, 204} => st \in Answers[id]
    BY <2>2
  <2> QED
    BY <2>2, <2>3, <2>4
<1>15. \A e \in Endpoints : \E a \in AdminIds : e \in Calls[a]
  BY MountAssumption DEF Http!TablesAgree
<1> QED
  BY <1>1, <1>8, <1>11, <1>12, <1>13, <1>14, <1>15 DEF Http!RequestsFollowDeclarations

LEMMA HttpFollows ==
  HttpInv /\ Http!RequestsFollowDeclarations /\ Http!Next => Http!RequestsFollowDeclarations'
<1> SUFFICES ASSUME HttpInv, Http!RequestsFollowDeclarations, Http!Next
             PROVE  Http!RequestsFollowDeclarations'
  OBVIOUS
<1>1. Http!RefreshesCountedApart'
  BY HttpNext DEF HttpInv
<1>2. ASSUME NEW c \in User, NEW id \in DOMAIN The, NEW credential \in Http!Credential,
             NEW ok \in {TRUE, ~The[id].input},
             Http!Ask(c, The[id], The[id].method, credential, ok)
      PROVE  Http!RequestsFollowDeclarations'
  BY <1>1, <1>2, AskFollows
<1>3. ASSUME NEW c \in User, NEW id \in DOMAIN The, NEW credential \in Http!Credential,
             Http!Ask(c, The[id], "options", credential, TRUE)
      PROVE  Http!RequestsFollowDeclarations'
  BY <1>1, <1>3, AskFollows
<1>4. CASE Http!Done
  BY <1>1, <1>4 DEF Http!Done, Http!RequestsFollowDeclarations
<1>5. ASSUME NEW b \in Http!Bucket, NEW k \in Http!Key, Http!WindowEnds(b, k)
      PROVE  Http!RequestsFollowDeclarations'
  BY <1>1, <1>5 DEF Http!WindowEnds, Http!RequestsFollowDeclarations
<1> QED
  BY <1>2, <1>3, <1>4, <1>5 DEF Http!Next

LEMMA HttpFollowsAtFirst == Http!Init => Http!RequestsFollowDeclarations
BY HttpInit DEF HttpInv, Http!Init, Http!RequestsFollowDeclarations

LEMMA HttpTypeOK == HttpInv => Http!TypeOK
<1> SUFFICES ASSUME HttpInv PROVE Http!TypeOK
  OBVIOUS
<1>1. ASSUME NEW b \in Http!Bucket, NEW k \in Http!Key PROVE hits[b][k] \in 0..MaxHits[b]
  BY SurfaceAssumption DEF HttpInv, Counts
<1> QED
  BY <1>1 DEF HttpInv, RepliesNamed, Http!TypeOK

-----------------------------------------------------------------------------
(* The values *)

ValueRecord == [of : Carried!Alphabets, size : Nat]

LEMMA ConvertedIs ==
  ASSUME NEW v \in ValueRecord, NEW to
  PROVE  Carried!Converted(v, to) \in ValueRecord
<1>1. v.of \in Carried!Alphabets /\ v.size \in Nat
  BY DEF ValueRecord
<1>2. Carried!Signed(v) \in ValueRecord
  <2>1. PICK e : e = Carried!Escaped(v.of) /\ e \in {2, 3, 6}
    BY DEF Carried!Escaped
  <2>2. v.size * e \in Nat
    BY <1>1, <2>1
  <2>3. PICK m : m = v.size * e /\ m \in Nat
    BY <2>2
  <2>4. ((266 + m) * 4) \div 3 + 45 \in Nat
    BY <2>3
  <2> QED
    BY <2>1, <2>3, <2>4 DEF Carried!Signed, Carried!Alphabets, ValueRecord
<1>3. Carried!Decimal(v) \in ValueRecord
  <2>1. (v.size * 3) \div 10 + 1 \in Nat
    BY <1>1
  <2> QED
    BY <2>1 DEF Carried!Decimal, Carried!Alphabets, ValueRecord
<1>4. Carried!ParseInt(v) \in ValueRecord
  <2>1. (v.size * 10) \div 3 + 1 \in Nat
    BY <1>1
  <2> QED
    BY <2>1 DEF Carried!ParseInt, Carried!Alphabets, ValueRecord
<1>5. Carried!Decoded(v) \in ValueRecord
  BY DEF Carried!Decoded, Carried!Alphabets, ValueRecord
<1> QED
  BY <1>2, <1>3, <1>4, <1>5 DEF Carried!Converted

\* A larger value of the same alphabet is converted to one as large or larger.
LEMMA ConversionGrows ==
  ASSUME NEW u \in ValueRecord, NEW v \in ValueRecord, u.of = v.of, u.size <= v.size, NEW to
  PROVE  /\ Carried!Converted(u, to).of = Carried!Converted(v, to).of
         /\ Carried!Converted(u, to).size <= Carried!Converted(v, to).size
<1>1. PICK m, n : m = u.size /\ n = v.size /\ m \in Nat /\ n \in Nat /\ m <= n
  BY DEF ValueRecord
<1>2. /\ Carried!Signed(u).of = Carried!Signed(v).of
      /\ Carried!Signed(u).size <= Carried!Signed(v).size
  <2>1. PICK e : e = Carried!Escaped(v.of) /\ e \in {2, 3, 6}
    BY DEF Carried!Escaped
  <2>2. PICK j, k : j = m * e /\ k = n * e /\ j \in Nat /\ k \in Nat /\ j <= k
    <3>1. CASE e = 2
      BY <1>1, <3>1
    <3>2. CASE e = 3
      BY <1>1, <3>2
    <3>3. CASE e = 6
      BY <1>1, <3>3
    <3> QED
      BY <2>1, <3>1, <3>2, <3>3
  <2>3. ((266 + j) * 4) \div 3 + 45 <= ((266 + k) * 4) \div 3 + 45
    BY <2>2
  <2>4. /\ Carried!Signed(u) = [of |-> "plain", size |-> ((266 + j) * 4) \div 3 + 45]
        /\ Carried!Signed(v) = [of |-> "plain", size |-> ((266 + k) * 4) \div 3 + 45]
    BY <1>1, <2>1, <2>2 DEF Carried!Signed
  <2> QED
    BY <2>3, <2>4
<1>3. /\ Carried!Decimal(u).of = Carried!Decimal(v).of
      /\ Carried!Decimal(u).size <= Carried!Decimal(v).size
  <2>1. (m * 3) \div 10 + 1 <= (n * 3) \div 10 + 1
    BY <1>1
  <2> QED
    BY <1>1, <2>1 DEF Carried!Decimal
<1>4. /\ Carried!ParseInt(u).of = Carried!ParseInt(v).of
      /\ Carried!ParseInt(u).size <= Carried!ParseInt(v).size
  <2>1. (m * 10) \div 3 + 1 <= (n * 10) \div 3 + 1
    BY <1>1
  <2> QED
    BY <1>1, <2>1 DEF Carried!ParseInt
<1>5. /\ Carried!Decoded(u).of = Carried!Decoded(v).of
      /\ Carried!Decoded(u).size <= Carried!Decoded(v).size
  BY <1>1 DEF Carried!Decoded, ValueRecord
<1> QED
  BY <1>1, <1>2, <1>3, <1>4, <1>5 DEF Carried!Converted

\* So what a move makes of a value lies between what it makes of the ends of its load.
LEMMA BetweenTheEnds ==
  ASSUME NEW x, x.of \subseteq Carried!Alphabets, x.min \in Nat, x.max \in Nat,
         NEW v \in ValueRecord, Carried!Within(x, v), NEW to
  PROVE  \E a \in Carried!Ends(x, to), b \in Carried!Ends(x, to) :
           /\ a.of = Carried!Converted(v, to).of
           /\ a.size <= Carried!Converted(v, to).size
           /\ Carried!Converted(v, to).size <= b.size
           /\ a \in ValueRecord /\ b \in ValueRecord
<1>1. PICK lo, hi : lo = [of |-> v.of, size |-> x.min] /\ hi = [of |-> v.of, size |-> x.max]
  OBVIOUS
<1>2. /\ lo \in ValueRecord /\ hi \in ValueRecord /\ lo.of = v.of /\ hi.of = v.of
      /\ lo.size <= v.size /\ v.size <= hi.size
  BY <1>1 DEF ValueRecord, Carried!Within
<1>3. Carried!Converted(lo, to) \in Carried!Ends(x, to) /\ Carried!Converted(hi, to) \in Carried!Ends(x, to)
  BY <1>1 DEF Carried!Ends, Carried!Within
<1> QED
  BY <1>2, <1>3, ConversionGrows, ConvertedIs

LEMMA Carries ==
  ASSUME NEW x \in Carried!Loads, NEW to, <<x.at, to>> \in Moved,
         NEW v \in ValueRecord, Carried!Within(x, v)
  PROVE  \E y \in Carried!Loads :
           /\ Carried!Taken(y) /\ y.from = x.from /\ y.at = to
           /\ Carried!Converted(v, to).size \in y.min..y.max
           /\ \/ Carried!Converted(v, to).of \in y.of
              \/ /\ Carried!Converted(v, to).of = "nul"
                 /\ to[1] \in Table /\ "nul" \notin TypeOf(to).of
<1>1. x.of \subseteq Carried!Alphabets /\ x.min \in Nat /\ x.max \in Nat
  BY LoadAssumption DEF Carried!Sound
<1>2. PICK y \in Carried!Loads : Carried!Covers(x, y, to) /\ Carried!Taken(y)
  <2>1. PICK m \in Moved : m = <<x.at, to>>
    OBVIOUS
  <2>2. m[1] = x.at /\ m[2] = to
    BY <2>1
  <2> QED
    BY <2>2, LoadAssumption DEF Carried!Sound
<1>3. y.min \in Nat /\ y.max \in Nat
  BY <1>2, LoadAssumption DEF Carried!Sound
<1>4. PICK a \in Carried!Ends(x, to), b \in Carried!Ends(x, to) :
           /\ a.of = Carried!Converted(v, to).of
           /\ a.size <= Carried!Converted(v, to).size
           /\ Carried!Converted(v, to).size <= b.size
           /\ a \in ValueRecord /\ b \in ValueRecord
  BY <1>1, BetweenTheEnds
<1>5. /\ a.size \in y.min..y.max /\ b.size \in y.min..y.max
      /\ a.of \in y.of \/ (a.of = "nul" /\ to[1] \in Table /\ "nul" \notin TypeOf(to).of)
      /\ y.from = x.from /\ y.at = to
  BY <1>2 DEF Carried!Covers
<1>6. Carried!Converted(v, to) \in ValueRecord
  BY ConvertedIs
<1>7. Carried!Converted(v, to).size \in y.min..y.max
  <2>1. PICK n, i, j : n = Carried!Converted(v, to).size /\ i = a.size /\ j = b.size
    OBVIOUS
  <2>2. n \in Nat /\ i \in Nat /\ j \in Nat
    BY <1>4, <1>6, <2>1 DEF ValueRecord
  <2> QED
    BY <1>3, <1>4, <1>5, <2>1, <2>2
<1> QED
  BY <1>2, <1>4, <1>5, <1>7

LEMMA CarriedInitWith ==
  ASSUME NEW p \in Place, NEW v \in ValueRecord, Carried!InitWith(p, v)
  PROVE  Carried!TypeOK
BY DEF Carried!InitWith, Carried!TypeOK, ValueRecord

LEMMA CarriedInit ==
  (IF part = "values" THEN Carried!Init ELSE Carried!InitWith(<<"push", "clientId">>, [of |-> "plain", size |-> 1]))
    => Carried!TypeOK
<1>1. CASE part = "values" /\ Carried!Init
  <2>1. PICK p \in Origins : \E v \in Carried!Tried(p) : Carried!InitWith(p, v)
    BY <1>1 DEF Carried!Init
  <2>2. PICK v \in Carried!Tried(p) : Carried!InitWith(p, v)
    BY <2>1
  <2>3. p \in Place /\ TypeOf(p).min \in Nat /\ TypeOf(p).max \in Nat
    BY <2>1, WireAssumption
  <2>4. v \in ValueRecord
    BY <2>2, <2>3 DEF Carried!Tried, ValueRecord
  <2> QED
    BY <2>2, <2>3, <2>4, CarriedInitWith
<1>2. CASE part # "values" /\ Carried!InitWith(<<"push", "clientId">>, [of |-> "plain", size |-> 1])
  <2>1. <<"push", "clientId">> \in Place
    BY WireAssumption
  <2>2. [of |-> "plain", size |-> 1] \in ValueRecord
    BY DEF ValueRecord, Carried!Alphabets
  <2> QED
    BY <1>2, <2>1, <2>2, CarriedInitWith
<1> QED
  BY <1>1, <1>2

LEMMA CarriedNext == Carried!TypeOK /\ Carried!Next => Carried!TypeOK'
<1> SUFFICES ASSUME Carried!TypeOK, Carried!Next PROVE Carried!TypeOK'
  OBVIOUS
<1>1. CASE Carried!Arrive
  <2>1. met' \in {"accepted", "refused"} /\ UNCHANGED <<field, origin, value, kept>>
    BY <1>1 DEF Carried!Arrive
  <2> QED
    BY <2>1 DEF Carried!TypeOK
<1>2. ASSUME NEW to \in Place, Carried!Move(to) PROVE Carried!TypeOK'
  <2>1. field' = to /\ met' = "sent" /\ value' = Carried!Converted(value, to) /\ origin' = origin
    BY <1>2 DEF Carried!Move
  <2>2. kept' \in BOOLEAN
    BY <1>2 DEF Carried!Move
  <2>3. value' \in ValueRecord
    BY <2>1, ConvertedIs DEF Carried!TypeOK, ValueRecord
  <2> QED
    BY <2>1, <2>2, <2>3 DEF Carried!TypeOK, ValueRecord
<1> QED
  BY <1>1, <1>2 DEF Carried!Next

\* What is sent comes in, or a load covers it that its field takes; what is accepted
\* is in a load.
ValueInv ==
  /\ Carried!TypeOK
  /\ origin \in Origins
  /\ met = "sent" => field = origin \/ \E y \in Carried!Loads :
       /\ Carried!Taken(y) /\ y.from = origin /\ y.at = field
       /\ value.size \in y.min..y.max
       /\ \/ value.of \in y.of
          \/ value.of = "nul" /\ field[1] \in Table /\ "nul" \notin TypeOf(field).of
  /\ met = "accepted" => \E x \in Carried!Loads :
       x.from = origin /\ x.at = field /\ Carried!Within(x, value)
  /\ Carried!ValuesTravel

LEMMA ValueInitWith ==
  ASSUME NEW p \in Origins, NEW v, Carried!InitWith(p, v), Carried!TypeOK
  PROVE  ValueInv
BY DEF Carried!InitWith, ValueInv, Carried!ValuesTravel

LEMMA ValueInit ==
  (IF part = "values" THEN Carried!Init ELSE Carried!InitWith(<<"push", "clientId">>, [of |-> "plain", size |-> 1]))
    => ValueInv
<1>1. CASE part = "values" /\ Carried!Init
  BY <1>1, CarriedInit, ValueInitWith DEF Carried!Init
<1>2. CASE part # "values" /\ Carried!InitWith(<<"push", "clientId">>, [of |-> "plain", size |-> 1])
  <2>1. <<"push", "clientId">> \in Origins
    BY WireAssumption
  <2> QED
    BY <1>2, <2>1, CarriedInit, ValueInitWith
<1> QED
  BY <1>1, <1>2

\* What a load covers is accepted where it arrives, or refused for a named reason.
LEMMA TakenOrExcused ==
  ASSUME NEW y \in Carried!Loads, Carried!Taken(y), y.from = origin, y.at = field, Carried!TypeOK,
         value.size \in y.min..y.max,
         \/ value.of \in y.of
         \/ value.of = "nul" /\ field[1] \in Table /\ "nul" \notin TypeOf(field).of,
         ~Accepts(TypeOf(field), value)
  PROVE  \/ value.of = "nul" /\ field[1] \in Table
         \/ field \in Carried!Unlimited /\ Bytes(value) > TypeOf(field).bytes
         \/ field = <<"newer", "version">> /\ origin = <<"pull", "cursor">>
         \/ field[2] = "relayClaimToken" /\ value.size > 2048
<1>1. PICK t, n, of : t = TypeOf(field) /\ n = value.size /\ of = value.of
  OBVIOUS
<1>2. PICK min, max, bytes : min = t.min /\ max = t.max /\ bytes = t.bytes
  OBVIOUS
<1>3. PICK low, high : low = y.min /\ high = y.max
  OBVIOUS
<1>4. /\ n \in Nat /\ low \in Nat /\ high \in Nat /\ low <= n /\ n <= high
      /\ min \in Nat /\ max \in Nat /\ bytes \in Nat
  <2>1. low \in Nat /\ high \in Nat
    BY <1>3, LoadAssumption DEF Carried!Sound
  <2>2. min \in Nat /\ max \in Nat /\ bytes \in Nat
    BY <1>1, <1>2, WireAssumption DEF Carried!TypeOK
  <2>3. n \in low..high
    BY <1>1, <1>3
  <2> QED
    BY <2>1, <2>2, <2>3
<1>5. PICK b : b = Bytes(value) /\ b = IF of = "wide" THEN 3 * n ELSE n
  BY <1>1 DEF Bytes
<1>6. ~(of \in t.of /\ min <= n /\ n <= max /\ b <= bytes)
  BY <1>1, <1>2, <1>4, <1>5 DEF Accepts
<1>7. CASE field = <<"newer", "version">> /\ origin = <<"pull", "cursor">>
  BY <1>7
<1>8. CASE of \notin y.of
  BY <1>1, <1>8
<1>9. CASE /\ y.of \subseteq t.of /\ min <= low
           /\ \/ high <= max
                 /\ ((IF "wide" \in y.of THEN 3 * high ELSE high) <= bytes \/ field \in Carried!Unlimited)
              \/ field[2] = "relayClaimToken" /\ max = 2048 /\ max <= bytes /\ "wide" \notin y.of
  <2> SUFFICES ASSUME of \in y.of
               PROVE  \/ field \in Carried!Unlimited /\ b > bytes
                      \/ field[2] = "relayClaimToken" /\ n > 2048
    BY <1>1, <1>2, <1>5, <1>8
  <2>1. of \in t.of /\ min <= n
    BY <1>4, <1>9
  <2>2. ~(n <= max /\ b <= bytes)
    BY <1>6, <2>1
  <2>3. CASE high <= max /\ (IF "wide" \in y.of THEN 3 * high ELSE high) <= bytes
    <3>1. n <= max
      BY <1>4, <2>3
    <3>2. b <= bytes
      <4>1. CASE of = "wide"
        BY <1>4, <1>5, <2>3, <4>1
      <4>2. CASE of # "wide" /\ "wide" \in y.of
        BY <1>4, <1>5, <2>3, <4>2
      <4>3. CASE of # "wide" /\ "wide" \notin y.of
        BY <1>4, <1>5, <2>3, <4>3
      <4> QED
        BY <4>1, <4>2, <4>3
    <3> QED
      BY <2>2, <3>1, <3>2
  <2>4. CASE high <= max /\ field \in Carried!Unlimited
    <3>1. n <= max /\ ~(b <= bytes)
      BY <1>4, <2>2, <2>4
    <3> QED
      BY <1>4, <1>5, <2>4, <3>1
  <2>5. CASE field[2] = "relayClaimToken" /\ max = 2048 /\ max <= bytes /\ "wide" \notin y.of
    <3>1. b = n
      BY <1>5, <2>5
    <3>2. n <= 2048 => n <= max /\ b <= bytes
      BY <1>4, <2>5, <3>1
    <3> QED
      BY <1>4, <2>2, <2>5, <3>2
  <2> QED
    BY <1>9, <2>3, <2>4, <2>5
<1> QED
  BY <1>1, <1>2, <1>3, <1>7, <1>9 DEF Carried!Taken

LEMMA ValueNext == ValueInv /\ Carried!Next => ValueInv'
<1> SUFFICES ASSUME ValueInv, Carried!Next PROVE ValueInv'
  OBVIOUS
<1>1. Carried!TypeOK /\ Carried!TypeOK'
  BY CarriedNext DEF ValueInv
<1>2. CASE Carried!Arrive
  <2>1. /\ met = "sent" /\ UNCHANGED <<field, origin, value, kept>>
        /\ met' \in {"accepted", "refused"}
        /\ met' = "refused" => ~Accepts(TypeOf(field), value)
        /\ met' = "accepted" => \/ Accepts(TypeOf(field), value)
                                \/ Accepts([TypeOf(field) EXCEPT !.bytes = Bytes(value)], value)
    BY <1>2 DEF Carried!Arrive
  <2>2. met' = "accepted" =>
          value.of \in TypeOf(field).of /\ value.size \in TypeOf(field).min..TypeOf(field).max
    BY <2>1 DEF Accepts
  <2>3. (~kept)' => origin' = <<"mutation", "payload">>
    BY <2>1 DEF ValueInv, Carried!ValuesTravel
  <2>4. CASE field = origin
    <3>1. met' = "accepted" => \E x \in Carried!Loads :
            x.from = origin /\ x.at = field /\ Carried!Within(x, value)
      <4>1. PICK x \in Carried!Loads :
              x = Carried!Load(field, field, TypeOf(field).of, TypeOf(field).min, TypeOf(field).max)
        BY <2>4, LoadAssumption DEF ValueInv, Carried!Sound
      <4> QED
        BY <2>2, <2>4, <4>1 DEF Carried!Load, Carried!Within
    <3>2. Carried!ValuesTravel'
      BY <2>1, <2>3, <2>4 DEF Carried!ValuesTravel
    <3> QED
      BY <1>1, <2>1, <3>1, <3>2 DEF ValueInv, Carried!Within
  <2>5. ASSUME field # origin PROVE ValueInv'
    <3>1. PICK y \in Carried!Loads :
            /\ Carried!Taken(y) /\ y.from = origin /\ y.at = field
            /\ value.size \in y.min..y.max
            /\ \/ value.of \in y.of
               \/ value.of = "nul" /\ field[1] \in Table /\ "nul" \notin TypeOf(field).of
      BY <2>1, <2>5 DEF ValueInv
    <3>2. met' = "accepted" => \E x \in Carried!Loads :
            x.from = origin /\ x.at = field /\ Carried!Within(x, value)
      BY <2>2, <3>1 DEF Carried!Within
    <3>3. met' = "refused" =>
            \/ value.of = "nul" /\ field[1] \in Table
            \/ field \in Carried!Unlimited /\ Bytes(value) > TypeOf(field).bytes
            \/ field = <<"newer", "version">> /\ origin = <<"pull", "cursor">>
            \/ field[2] = "relayClaimToken" /\ value.size > 2048
      BY <1>1, <2>1, <3>1, TakenOrExcused
    <3>4. Carried!ValuesTravel'
      BY <2>1, <2>3, <3>3 DEF Carried!ValuesTravel, Bytes
    <3> QED
      BY <1>1, <2>1, <3>2, <3>4 DEF ValueInv, Carried!Within
  <2> QED
    BY <2>4, <2>5
<1>3. ASSUME NEW to \in Place, Carried!Move(to) PROVE ValueInv'
  <2>1. /\ met = "accepted" /\ <<field, to>> \in Moved
        /\ field' = to /\ met' = "sent" /\ origin' = origin
        /\ value' = Carried!Converted(value, to)
        /\ kept' = (kept /\ (to = <<"syncObjects", "payload">> => value.of \in {"hex", "base64"}))
    BY <1>3 DEF Carried!Move
  <2>2. PICK x \in Carried!Loads : x.from = origin /\ x.at = field /\ Carried!Within(x, value)
    BY <2>1 DEF ValueInv
  <2>3. value \in ValueRecord
    BY <1>1 DEF Carried!TypeOK, ValueRecord
  <2>4. PICK y \in Carried!Loads :
           /\ Carried!Taken(y) /\ y.from = x.from /\ y.at = to
           /\ Carried!Converted(value, to).size \in y.min..y.max
           /\ \/ Carried!Converted(value, to).of \in y.of
              \/ /\ Carried!Converted(value, to).of = "nul"
                 /\ to[1] \in Table /\ "nul" \notin TypeOf(to).of
    BY <2>1, <2>2, <2>3, Carries
  <2>5. to = <<"syncObjects", "payload">> => origin = <<"mutation", "payload">>
    <3>1. PICK m \in Moved : m = <<field, to>>
      BY <2>1
    <3>2. m[1] = x.at /\ m[2] = to
      BY <2>2, <3>1
    <3> QED
      BY <2>2, <3>2, LoadAssumption DEF Carried!Sound
  <2>6. Carried!ValuesTravel'
    <3>1. ~kept => origin = <<"mutation", "payload">>
      BY DEF ValueInv, Carried!ValuesTravel
    <3>2. ~(kept') => ~kept \/ to = <<"syncObjects", "payload">>
      BY <2>1, Zenon
    <3>3. ~(kept') => origin' = <<"mutation", "payload">>
      BY <2>1, <2>5, <3>1, <3>2, Zenon
    <3> QED
      BY <2>1, <3>3 DEF Carried!ValuesTravel
  <2> QED
    BY <1>1, <2>1, <2>2, <2>4, <2>6 DEF ValueInv
<1> QED
  BY <1>2, <1>3 DEF Carried!Next

-----------------------------------------------------------------------------
(* The poke fan-out.  A poke passes through three places: the instance that *)
(* pushed, Redis, the client's list of pulls.  The invariant follows it from *)
(* one to the next, with the versions that order a poke after its write.     *)

\* The counter covers the rows, and the open transaction is the next batch.
Counted ==
    /\ \A r \in Resource : row[r] <= version
    /\ tx # None => tx.version = version + 1

\* A push that has yet to poke has its rows in the tables.
CommittedRows ==
    \A i \in Inst : \A t \in committed[i] : \A r \in t.touched : t.version <= row[r]

\* An open socket has asked for its subscription.
OpenSubscribed ==
    \A c \in Client : sock[c].st = "open" => sock[c].sub # "none"

FInv == /\ TypeOK
        /\ Counted
        /\ CommittedRows
        /\ PokesFollowCommits
        /\ OpenSubscribed
        /\ NobodySilentlyStale

-----------------------------------------------------------------------------
LEMMA EnvelopesOf ==
    ASSUME NEW t \in Push
    PROVE  /\ Envelopes(t) \subseteq Poke
           /\ \A e \in Envelopes(t) : e.resource \in t.touched /\ e.cursor = t.version
           /\ \A r \in t.touched : \E e \in Envelopes(t) : e.resource = r
<1>1. t.version \in Version /\ t.touched \subseteq Resource
    BY DEF Push
<1>2. ASSUME NEW r \in t.touched PROVE [resource |-> r, cursor |-> t.version] \in Envelopes(t)
    BY DEF Envelopes
<1>3. Envelopes(t) \subseteq Poke
    BY <1>1 DEF Envelopes, Poke
<1>4. \A e \in Envelopes(t) : e.resource \in t.touched /\ e.cursor = t.version
    BY DEF Envelopes
<1> QED BY <1>2, <1>3, <1>4

LEMMA FanoutInit == Init => FInv
<1> SUFFICES ASSUME Init PROVE FInv
    OBVIOUS
<1> USE BoundsAssumption
<1>1. TypeOK
    BY DEF Init, TypeOK, Version, Socket, NoSocket
<1>2. Counted /\ CommittedRows /\ PokesFollowCommits
    BY DEF Init, Counted, CommittedRows, PokesFollowCommits
<1>3. OpenSubscribed /\ NobodySilentlyStale
    BY DEF Init, OpenSubscribed, NobodySilentlyStale, NoSocket
<1> QED BY <1>1, <1>2, <1>3 DEF FInv

LEMMA TypeStep == TypeOK /\ [Next]_vars => TypeOK'
<1> SUFFICES ASSUME TypeOK, [Next]_vars PROVE TypeOK'
    OBVIOUS
<1> USE BoundsAssumption DEF TypeOK, Version
<1>1. ASSUME NEW i \in Inst, NEW R \in (SUBSET Resource) \ {{}}, BeginPush(i, R) PROVE TypeOK'
    BY <1>1 DEF BeginPush, Push
<1>2. CASE Commit
  <2>1. tx \in Push /\ tx.inst \in Inst /\ tx.version \in Version
      BY <1>2 DEF Commit, Push
  <2>2. row' \in [Resource -> Version] /\ version' \in Version
      BY <1>2, <2>1 DEF Commit
  <2>3. committed' \in [Inst -> SUBSET Push]
      BY <1>2, <2>1 DEF Commit
  <2> QED BY <1>2, <2>2, <2>3 DEF Commit
<1>3. CASE Abort
    BY <1>3 DEF Abort
<1>4. ASSUME NEW i \in Inst, Stop(i) PROVE TypeOK'
  <2>1. sock' \in [Client -> Socket]
      BY <1>4 DEF Stop, Socket, NoSocket
  <2>2. missed' \in [Client -> SUBSET Resource]
      BY <1>4 DEF Stop, LosePokes, Push
  <2>3. committed' \in [Inst -> SUBSET Push] /\ queue' \in [Client -> SUBSET Poke]
      BY <1>4 DEF Stop
  <2> QED BY <1>4, <2>1, <2>2, <2>3 DEF Stop
<1>5. ASSUME NEW i \in Inst, NEW t \in committed[i], Publish(i, t) PROVE TypeOK'
  <2>1. t \in Push /\ t.touched \subseteq Resource
      BY DEF Push
  <2>2. queue' \in [Client -> SUBSET Poke]
      BY <1>5, <2>1, EnvelopesOf DEF Publish
  <2>3. missed' \in [Client -> SUBSET Resource] /\ committed' \in [Inst -> SUBSET Push]
      BY <1>5, <2>1 DEF Publish
  <2> QED BY <1>5, <2>2, <2>3 DEF Publish
<1>6. ASSUME NEW i \in Inst, NEW t \in committed[i], PublishFails(i, t) PROVE TypeOK'
  <2>1. t \in Push /\ t.touched \subseteq Resource
      BY DEF Push
  <2>2. missed' \in [Client -> SUBSET Resource] /\ committed' \in [Inst -> SUBSET Push]
      BY <1>6, <2>1 DEF PublishFails, LosePokes
  <2> QED BY <1>6, <2>2 DEF PublishFails
<1>7. ASSUME NEW c \in Client, NEW i \in Inst, Open(c, i) PROVE TypeOK'
    BY <1>7 DEF Open, Socket
<1>8. ASSUME NEW c \in Client, Subscribed(c) PROVE TypeOK'
    BY <1>8 DEF Subscribed, Socket
<1>9. ASSUME NEW c \in Client, Deliver(c) PROVE TypeOK'
  <2>1. PICK e \in queue[c] :
            /\ needPull' = IF sock[c].st = "open" THEN [needPull EXCEPT ![c] = @ \cup {e.resource}]
                                                 ELSE needPull
            /\ queue' = [queue EXCEPT ![c] = @ \ {e}]
            /\ UNCHANGED <<adaptor, version, row, tx, committed, sock, cursor, missed, opened, faults>>
      BY <1>9 DEF Deliver
  <2>2. e \in Poke /\ e.resource \in Resource
      BY DEF Poke
  <2>3. needPull' \in [Client -> SUBSET Resource]
    <3>1. CASE sock[c].st = "open"
        BY <2>1, <2>2, <3>1
    <3>2. CASE sock[c].st # "open"
        BY <2>1, <3>2
    <3> QED BY <3>1, <3>2
  <2>4. queue' \in [Client -> SUBSET Poke]
      BY <2>1
  <2> QED BY <2>1, <2>3, <2>4
<1>10. ASSUME NEW c \in Client, NEW r \in Resource, Pull(c, r) PROVE TypeOK'
    BY <1>10 DEF Pull
<1>11. ASSUME NEW c \in Client, Break(c) \/ Closed(c) PROVE TypeOK'
  <2>1. CASE Break(c)
      BY <2>1 DEF Break, Socket
  <2>2. CASE Closed(c)
    <3>1. NoSocket \in Socket
        BY DEF NoSocket, Socket
    <3> QED BY <2>2, <3>1 DEF Closed
  <2> QED BY <1>11, <2>1, <2>2
<1>12. CASE UNCHANGED vars
    BY <1>12 DEF vars
<1>13. ASSUME NEW c \in Client, DropSubscription(c) PROVE TypeOK'
  <2>1. sock' \in [Client -> Socket]
    <3>1. sock' = [sock EXCEPT ![c].sub = "pending"] /\ sock[c] \in Socket
        BY <1>13 DEF DropSubscription
    <3> QED BY <3>1 DEF Socket
  <2>2. missed' \in [Client -> SUBSET Resource]
    <3>1. {e.resource : e \in queue[c]} \subseteq Resource
        BY DEF Poke
    <3>2. missed' = [missed EXCEPT ![c] = @ \cup {e.resource : e \in queue[c]}]
        BY <1>13 DEF DropSubscription
    <3> QED BY <3>1, <3>2
  <2>3. queue' \in [Client -> SUBSET Poke]
      BY <1>13 DEF DropSubscription
  <2> QED BY <1>13, <2>1, <2>2, <2>3 DEF DropSubscription
<1> QED
    BY <1>1, <1>2, <1>3, <1>4, <1>5, <1>6, <1>7, <1>8, <1>9, <1>10, <1>11, <1>12, <1>13 DEF Next

-----------------------------------------------------------------------------
(* Versions: only BeginPush, Commit and Publish touch what they order.      *)

LEMMA OrderStep ==
    ASSUME TypeOK, TypeOK', Counted, CommittedRows, PokesFollowCommits, [Next]_vars
    PROVE  Counted' /\ CommittedRows' /\ PokesFollowCommits'
<1> USE DEF TypeOK, Version
<1>0. /\ version \in Nat /\ \A r \in Resource : row[r] \in Nat
      /\ \A i \in Inst : \A t \in committed[i] :
            t \in Push /\ t.touched \subseteq Resource /\ t.version \in Nat
      /\ \A c \in Client : \A e \in queue[c] : e.resource \in Resource /\ e.cursor \in Nat
    BY BoundsAssumption DEF Push, Poke
<1>1. ASSUME NEW i \in Inst, NEW R \in (SUBSET Resource) \ {{}}, BeginPush(i, R)
      PROVE  Counted' /\ CommittedRows' /\ PokesFollowCommits'
  <2>1. /\ tx' = [inst |-> i, touched |-> R, version |-> version + 1] /\ version' = version
        /\ UNCHANGED <<row, committed, queue>>
      BY <1>1 DEF BeginPush
  <2>2. Counted'
      BY <2>1 DEF Counted
  <2>3. CommittedRows' /\ PokesFollowCommits'
      BY <2>1 DEF CommittedRows, PokesFollowCommits
  <2> QED
      BY <2>2, <2>3
<1>2. CASE Commit
  <2>1. /\ tx \in Push /\ tx.version = version + 1 /\ tx.touched \subseteq Resource
        /\ version' = version + 1 /\ tx' = None /\ queue' = queue
        /\ \A r \in Resource : row'[r] = IF r \in tx.touched THEN version + 1 ELSE row[r]
      BY <1>2 DEF Commit, Counted, Push
  <2>2. \A r \in Resource : row[r] <= row'[r] /\ row'[r] <= version'
    <3> SUFFICES ASSUME NEW r \in Resource PROVE row[r] <= row'[r] /\ row'[r] <= version'
        OBVIOUS
    <3>1. row[r] \in Nat /\ version \in Nat /\ row[r] <= version
        BY <1>0 DEF Counted
    <3>2. row'[r] = IF r \in tx.touched THEN version + 1 ELSE row[r]
        BY <2>1
    <3> QED BY <2>1, <3>1, <3>2
  <2>3. \A i \in Inst : committed'[i] \subseteq committed[i] \cup {tx}
      BY <1>2 DEF Commit
  <2>4. CommittedRows'
    <3> SUFFICES ASSUME NEW i \in Inst, NEW t \in committed'[i], NEW r \in t.touched
                 PROVE  t.version <= row'[r]
        BY DEF CommittedRows
    <3>1. CASE t = tx
        BY <3>1, <2>1, <1>0
    <3>2. CASE t \in committed[i]
      <4>1. t.version <= row[r] /\ r \in Resource /\ t.version \in Nat
          BY <3>2, <1>0 DEF CommittedRows
      <4>2. row'[r] \in Nat
          BY <4>1, <2>1, <1>0
      <4> QED BY <4>1, <4>2, <2>2, <1>0
    <3> QED BY <2>3, <3>1, <3>2
  <2>5. PokesFollowCommits'
    <3> SUFFICES ASSUME NEW c \in Client, NEW e \in queue[c]
                 PROVE  e.cursor <= row'[e.resource]
        BY <2>1 DEF PokesFollowCommits
    <3>1. e.cursor <= row[e.resource] /\ e.resource \in Resource /\ row'[e.resource] \in Nat
        BY <1>0, <2>1 DEF PokesFollowCommits
    <3> QED BY <3>1, <2>2, <1>0
  <2> QED BY <2>1, <2>2, <2>4, <2>5 DEF Counted
<1>3. CASE Abort
    BY <1>3 DEF Abort, Counted, CommittedRows, PokesFollowCommits
<1>4. ASSUME NEW i \in Inst, Stop(i)
      PROVE  Counted' /\ CommittedRows' /\ PokesFollowCommits'
  <2>1. /\ version' = version /\ row' = row /\ (tx' = tx \/ tx' = None)
        /\ \A j \in Inst : committed'[j] \subseteq committed[j]
        /\ \A c \in Client : queue'[c] \subseteq queue[c]
      BY <1>4 DEF Stop
  <2> QED BY <2>1 DEF Counted, CommittedRows, PokesFollowCommits
<1>5. ASSUME NEW i \in Inst, NEW t \in committed[i], Publish(i, t)
      PROVE  Counted' /\ CommittedRows' /\ PokesFollowCommits'
  <2>1. /\ version' = version /\ row' = row /\ tx' = tx
        /\ \A j \in Inst : committed'[j] \subseteq committed[j]
        /\ \A c \in Client : queue'[c] \subseteq queue[c] \cup Envelopes(t)
      BY <1>5 DEF Publish
  <2>2. \A e \in Envelopes(t) : e.cursor <= row[e.resource]
      BY <1>0, EnvelopesOf DEF CommittedRows
  <2> QED BY <2>1, <2>2 DEF Counted, CommittedRows, PokesFollowCommits
<1>6. ASSUME NEW i \in Inst, NEW t \in committed[i], PublishFails(i, t)
      PROVE  Counted' /\ CommittedRows' /\ PokesFollowCommits'
    BY <1>6 DEF PublishFails, Counted, CommittedRows, PokesFollowCommits
<1>7. ASSUME NEW c \in Client,
             \/ \E i \in Inst : Open(c, i)
             \/ Subscribed(c) \/ DropSubscription(c) \/ Deliver(c) \/ Break(c) \/ Closed(c)
             \/ \E r \in Resource : Pull(c, r)
      PROVE  Counted' /\ CommittedRows' /\ PokesFollowCommits'
  <2>1. /\ version' = version /\ row' = row /\ tx' = tx /\ committed' = committed
        /\ \A d \in Client : queue'[d] \subseteq queue[d]
      BY <1>7 DEF Open, Subscribed, DropSubscription, Deliver, Break, Closed, Pull
  <2> QED BY <2>1 DEF Counted, CommittedRows, PokesFollowCommits
<1>8. CASE UNCHANGED vars
    BY <1>8 DEF vars, Counted, CommittedRows, PokesFollowCommits
<1> QED BY <1>1, <1>2, <1>3, <1>4, <1>5, <1>6, <1>7, <1>8 DEF Next

-----------------------------------------------------------------------------
(* Where a poke is: each step that takes it from one place puts it in the   *)
(* next, ends the socket, or records that it was lost.                      *)

LEMMA SocketStep ==
    ASSUME TypeOK, OpenSubscribed, [Next]_vars
    PROVE  OpenSubscribed'
<1> USE DEF TypeOK, OpenSubscribed
<1>1. ASSUME NEW c \in Client, \E i \in Inst : Open(c, i) PROVE OpenSubscribed'
    BY <1>1 DEF Open
<1>2. ASSUME NEW c \in Client, Subscribed(c) \/ DropSubscription(c) \/ Break(c) \/ Closed(c)
      PROVE  OpenSubscribed'
  <2>1. /\ \A d \in Client : d # c => sock'[d] = sock[d]
        /\ sock'[c].st = "open" => sock'[c].sub # "none"
    <3>1. CASE Subscribed(c)
        BY <3>1 DEF Subscribed, Socket
    <3>2. CASE Break(c)
        BY <3>2 DEF Break, Socket
    <3>3. CASE Closed(c)
        BY <3>3 DEF Closed, NoSocket
    <3>4. CASE DropSubscription(c)
        BY <3>4 DEF DropSubscription, Socket
    <3> QED BY <1>2, <3>1, <3>2, <3>3, <3>4
  <2> QED BY <2>1
<1>3. ASSUME NEW i \in Inst, Stop(i) PROVE OpenSubscribed'
    BY <1>3 DEF Stop, NoSocket
<1>4. CASE sock' = sock
    BY <1>4
<1>5. \/ sock' = sock
      \/ \E i \in Inst : Stop(i)
      \/ \E c \in Client : (\E i \in Inst : Open(c, i)) \/ Subscribed(c) \/ DropSubscription(c) \/ Break(c) \/ Closed(c)
    BY DEF Next, vars, BeginPush, Commit, Abort, Publish, PublishFails, Deliver, Pull
<1> QED BY <1>1, <1>2, <1>3, <1>4, <1>5

LEMMA PokeStep ==
    ASSUME TypeOK, OpenSubscribed, NobodySilentlyStale, [Next]_vars
    PROVE  NobodySilentlyStale'
<1> SUFFICES ASSUME NEW c \in Client, NEW r \in Resource, (sock[c].st = "open")', Behind(c, r)'
             PROVE  (r \in needPull[c] \/ OnItsWay(c, r) \/ r \in missed[c])'
    BY DEF NobodySilentlyStale
<1> DEFINE Held == r \in needPull[c] \/ OnItsWay(c, r) \/ r \in missed[c]
<1> USE DEF TypeOK
<1>0. sock[c].st = "open" /\ Behind(c, r) => Held
    BY DEF NobodySilentlyStale
<1>1. ASSUME NEW i \in Inst, NEW R \in (SUBSET Resource) \ {{}}, BeginPush(i, R) PROVE Held'
    BY <1>1, <1>0 DEF BeginPush, Behind, OnItsWay
<1>2. CASE Commit
  <2>1. tx \in Push /\ tx.inst \in Inst
      BY <1>2 DEF Commit, Push
  <2>2. CASE r \in tx.touched
    <3>1. tx \in committed'[tx.inst]
        BY <1>2, <2>1 DEF Commit
    <3> QED BY <2>1, <2>2, <3>1 DEF OnItsWay
  <2>3. CASE r \notin tx.touched
    <3>1. sock[c].st = "open" /\ Behind(c, r) /\ needPull' = needPull /\ missed' = missed /\ queue' = queue
        BY <1>2, <2>3 DEF Commit, Behind
    <3>2. \A i \in Inst : committed[i] \subseteq committed'[i]
        BY <1>2 DEF Commit
    <3> QED BY <1>0, <3>1, <3>2 DEF OnItsWay
  <2> QED BY <2>2, <2>3
<1>3. CASE Abort
    BY <1>3, <1>0 DEF Abort, Behind, OnItsWay
<1>4. ASSUME NEW i \in Inst, Stop(i) PROVE Held'
  <2>1. /\ sock[c].inst # i /\ sock[c].st = "open" /\ queue'[c] = queue[c] /\ needPull' = needPull
        /\ missed'[c] = missed[c] \cup UNION {t.touched : t \in committed[i]}
        /\ \A j \in Inst : j # i => committed'[j] = committed[j]
      BY <1>4 DEF Stop, LosePokes, NoSocket
  <2>2. Behind(c, r)
      BY <1>4 DEF Stop, Behind
  <2> QED BY <1>0, <2>1, <2>2 DEF OnItsWay
<1>5. ASSUME NEW i \in Inst, NEW t \in committed[i], Publish(i, t) PROVE Held'
  <2>1. sock[c].st = "open" /\ Behind(c, r) /\ needPull' = needPull
      BY <1>5 DEF Publish, Behind
  <2>2. \A j \in Inst : committed[j] \subseteq committed'[j] \cup {t}
      BY <1>5 DEF Publish
  <2>3. queue[c] \subseteq queue'[c] /\ missed[c] \subseteq missed'[c]
      BY <1>5 DEF Publish
  <2>4. CASE r \in t.touched
    <3>1. sock[c].sub = "pending" \/ sock[c].sub = "active"
        BY <2>1 DEF OpenSubscribed, Socket
    <3>2. CASE sock[c].sub = "pending"
        BY <1>5, <2>4, <3>2 DEF Publish
    <3>3. CASE sock[c].sub = "active"
      <4>1. Envelopes(t) \subseteq queue'[c]
          BY <1>5, <3>3 DEF Publish, Reached
      <4>2. \E e \in Envelopes(t) : e.resource = r
          BY <2>4, EnvelopesOf
      <4> QED BY <4>1, <4>2 DEF OnItsWay
    <3> QED BY <3>1, <3>2, <3>3
  <2>5. CASE r \notin t.touched
      BY <1>0, <2>1, <2>2, <2>3, <2>5 DEF OnItsWay
  <2> QED BY <2>4, <2>5
<1>6. ASSUME NEW i \in Inst, NEW t \in committed[i], PublishFails(i, t) PROVE Held'
  <2>1. sock[c].st = "open" /\ Behind(c, r) /\ needPull' = needPull /\ queue' = queue
      BY <1>6 DEF PublishFails, Behind
  <2>2. missed'[c] = missed[c] \cup t.touched
      BY <1>6 DEF PublishFails, LosePokes
  <2>3. \A j \in Inst : committed[j] \subseteq committed'[j] \cup {t}
      BY <1>6 DEF PublishFails
  <2> QED BY <1>0, <2>1, <2>2, <2>3 DEF OnItsWay
<1>7. ASSUME NEW d \in Client, NEW i \in Inst, Open(d, i) PROVE Held'
  <2>1. CASE d = c
      BY <1>7, <2>1 DEF Open
  <2>2. CASE d # c
      BY <1>7, <2>2, <1>0 DEF Open, Behind, OnItsWay
  <2> QED BY <2>1, <2>2
<1>8. ASSUME NEW d \in Client, Subscribed(d) PROVE Held'
    BY <1>8, <1>0 DEF Subscribed, Behind, OnItsWay
<1>9. ASSUME NEW d \in Client, Deliver(d) PROVE Held'
  <2>1. PICK e \in queue[d] :
            /\ needPull' = IF sock[d].st = "open" THEN [needPull EXCEPT ![d] = @ \cup {e.resource}]
                                                 ELSE needPull
            /\ queue' = [queue EXCEPT ![d] = @ \ {e}]
            /\ UNCHANGED <<adaptor, version, row, tx, committed, sock, cursor, missed, opened, faults>>
      BY <1>9 DEF Deliver
  <2>2. sock[c].st = "open" /\ Behind(c, r)
      BY <2>1 DEF Behind
  <2>3. queue[c] \subseteq queue'[c] \cup {e} /\ needPull[c] \subseteq needPull'[c]
      BY <2>1
  <2>4. d = c => e.resource \in needPull'[c]
      BY <2>1, <2>2
  <2>5. d # c => queue'[c] = queue[c]
      BY <2>1
  <2> QED BY <1>0, <2>1, <2>2, <2>3, <2>4, <2>5 DEF OnItsWay
<1>10. ASSUME NEW d \in Client, NEW s \in Resource, Pull(d, s) PROVE Held'
  <2>1. CASE d = c /\ s = r
    <3>1. cursor'[c][r] = row'[r] /\ row'[r] \in Nat
        BY <1>10, <2>1, BoundsAssumption DEF Pull, Version
    <3> QED BY <3>1 DEF Behind
  <2>2. CASE ~(d = c /\ s = r)
    <3>1. cursor'[c][r] = cursor[c][r] /\ (r \in needPull[c] => r \in needPull'[c])
        BY <1>10, <2>2 DEF Pull
    <3> QED BY <1>10, <1>0, <3>1 DEF Pull, Behind, OnItsWay
  <2> QED BY <2>1, <2>2
<1>11. ASSUME NEW d \in Client, Break(d) \/ Closed(d) PROVE Held'
  <2>1. d # c /\ sock[c].st = "open" /\ queue'[c] = queue[c]
      BY <1>11 DEF Break, Closed, NoSocket, Socket
  <2> QED BY <1>11, <1>0, <2>1 DEF Break, Closed, Behind, OnItsWay
<1>12. CASE UNCHANGED vars
    BY <1>12, <1>0 DEF vars, Behind, OnItsWay
<1>13. ASSUME NEW d \in Client, DropSubscription(d) PROVE Held'
  <2>1. sock[c].st = "open" /\ Behind(c, r) /\ needPull' = needPull /\ committed' = committed
      BY <1>13 DEF DropSubscription, Behind, Socket
  <2>2. missed[c] \subseteq missed'[c] /\ \A e \in queue[c] : e \in queue'[c] \/ e.resource \in missed'[c]
      BY <1>13 DEF DropSubscription
  <2> QED BY <1>0, <2>1, <2>2 DEF OnItsWay
<1> QED
    BY <1>1, <1>2, <1>3, <1>4, <1>5, <1>6, <1>7, <1>8, <1>9, <1>10, <1>11, <1>12, <1>13 DEF Next

-----------------------------------------------------------------------------
(* The plugin core: the definitions of Server and those of the proofs are one. *)

Lives == INSTANCE PluginsProofs

LEMMA CoreInit == Core!Init => Lives!CoreInv
<1>1. Core!Init => Lives!Init
  BY DEF Core!Init, Core!Acyclic, Core!Starting, Lives!Init, Lives!Acyclic, Lives!Starting
<1> QED
  BY <1>1, Lives!Starts

LEMMA CoreNext == Core!Next => Lives!Next
<1>1. ASSUME NEW p \in Plugin, Core!Register(p) PROVE Lives!Register(p)
  BY <1>1 DEF Core!Register, Core!Idle, Core!Visit, Lives!Register, Lives!Idle, Lives!Visit
<1>2. ASSUME NEW p \in Plugin, Core!Descend(p) PROVE Lives!Descend(p)
  BY <1>2 DEF Core!Descend, Core!Visit, Lives!Descend, Lives!Visit
<1>3. Core!Leave => Lives!Leave
  BY DEF Core!Leave, Lives!Leave
<1>4. Core!Create => Lives!Create
  BY DEF Core!Create, Core!Starting, Lives!Create, Lives!Starting
<1>5. Core!Replay => Lives!Replay
  BY DEF Core!Replay, Core!RunStage, Core!Starting, Lives!Replay, Lives!RunStage, Lives!Starting
<1>6. Core!CoreStart \/ Core!CoreReady => Lives!CoreStart \/ Lives!CoreReady
  BY DEF Core!CoreStart, Core!CoreReady, Core!SetStage, Core!Ready, Core!Steady, Core!Idle, Core!RunStage,
         Lives!CoreStart, Lives!CoreReady, Lives!SetStage, Lives!Ready, Lives!Steady, Lives!Idle, Lives!RunStage
<1>7. Core!CoreDispose => Lives!CoreDispose
  BY DEF Core!CoreDispose, Core!Idle, Lives!CoreDispose, Lives!Idle
<1> QED
  BY <1>1, <1>2, <1>3, <1>4, <1>5, <1>6, <1>7 DEF Core!Next, Lives!Next

LEMMA CoreHolds == Lives!CoreInv => Core!TypeOK /\ Core!HooksInOrder
<1>1. Lives!CoreInv => Lives!TypeOK /\ Lives!HooksInOrder
  BY Lives!HooksHold DEF Lives!CoreInv
<1>2. Lives!TypeOK => Core!TypeOK
  BY DEF Lives!TypeOK, Lives!Stage, Lives!Starting, Lives!Steady, Core!TypeOK, Core!Stage, Core!Starting, Core!Steady
<1>3. Lives!HooksInOrder => Core!HooksInOrder
  BY DEF Lives!HooksInOrder, Lives!CalledAt, Core!HooksInOrder, Core!CalledAt
<1> QED
  BY <1>1, <1>2, <1>3

-----------------------------------------------------------------------------
(* The parts together: a step of the server is one of a single part, and leaves *)
(* the variables of the others alone.                                           *)

LEMMA PartStep ==
  ASSUME [ServerNext]_allVars
  PROVE  /\ Next \/ UNCHANGED vars
         /\ Core!Next \/ UNCHANGED coreVars
         /\ Phones!Next \/ UNCHANGED phoneVars
         /\ Logins!Next \/ UNCHANGED loginVars
         /\ Landed!Next \/ UNCHANGED landedVars
         /\ Discovery!Next \/ UNCHANGED discoveryVars
         /\ Admin!Next \/ UNCHANGED adminVars
         /\ Tab!Next \/ UNCHANGED tabVars
         /\ List!Next \/ UNCHANGED listVars
         /\ Detail!Next \/ UNCHANGED detailVars
         /\ Run!Next \/ UNCHANGED runVars
         /\ Http!Next \/ UNCHANGED httpVars
         /\ Carried!Next \/ UNCHANGED valueVars
BY DEF ServerNext, allVars

LEMMA CoreStep == Lives!CoreInv /\ [ServerNext]_allVars => Lives!CoreInv'
<1>1. [ServerNext]_allVars => [Lives!Next]_(Lives!vars)
  BY PartStep, CoreNext DEF coreVars, Lives!vars
<1> QED
  BY <1>1, Lives!CoreStep

LEMMA PhonesStep == PhonesInv /\ [ServerNext]_allVars => PhonesInv'
<1>1. PhonesInv /\ UNCHANGED phoneVars => PhonesInv'
  BY DEF phoneVars, PhonesInv, AlonesSeeAll, Phones!TypeOK, Phones!OneOwner, Phones!Busy
<1> QED
  BY <1>1, PartStep, PhonesNext

LEMMA LoginsStep == LoginsInv /\ [ServerNext]_allVars => LoginsInv'
<1>1. LoginsInv /\ UNCHANGED loginVars => LoginsInv'
  BY DEF loginVars, LoginsInv, Logins!TypeOK, FreshInStore, OfferedWereMade, UsedUp, Verifies, ThereOrDisturbed
<1> QED
  BY <1>1, PartStep, LoginsNext

LEMMA LandedStep == LandedInv /\ [ServerNext]_allVars => LandedInv'
<1>1. LandedInv /\ UNCHANGED landedVars => LandedInv'
  <2> SUFFICES ASSUME LandedInv, UNCHANGED landedVars PROVE LandedInv'
    OBVIOUS
  <2>1. Spent' = Spent
    BY DEF landedVars, Spent
  <2>2. LaunchesCounted'
    BY <2>1 DEF landedVars, LandedInv, LaunchesCounted
  <2>3. LinklessIdle'
    BY DEF landedVars, LandedInv, LinklessIdle
  <2>4. LaunchedFirst'
    BY DEF landedVars, LandedInv, LaunchedFirst
  <2>5. HintFollowsSigns'
    BY DEF landedVars, LandedInv, HintFollowsSigns
  <2> QED
    BY <2>2, <2>3, <2>4, <2>5 DEF LandedInv
<1> QED
  BY <1>1, PartStep, LandedNext

LEMMA DiscoveryStep == DiscoveryInv /\ [ServerNext]_allVars => DiscoveryInv'
<1>1. DiscoveryInv /\ UNCHANGED discoveryVars => DiscoveryInv'
  BY DEF discoveryVars, DiscoveryInv, Discovery!TypeOK, WritesStamped, RowsStamped, SweptWhenOld, Discovery!Within,
         RetractedOrRevived
<1> QED
  BY <1>1, PartStep, DiscoveryNext

LEMMA AdminStep == AdminInv /\ [ServerNext]_allVars => AdminInv'
<1>1. AdminInv /\ UNCHANGED adminVars => AdminInv'
  BY DEF adminVars, AdminInv, Admin!TypeOK, ResetAhead, SeedsTheFile, Admin!FileOpensAccount
<1> QED
  BY <1>1, PartStep, AdminNext

LEMMA TabStep == TabInv /\ [ServerNext]_allVars => TabInv'
<1>1. TabInv /\ UNCHANGED tabVars => TabInv'
  BY DEF tabVars, TabInv, Tab!TypeOK, RefusalsRightful, Tab!TokensLostForCause
<1> QED
  BY <1>1, PartStep, TabNext

LEMMA ListStep == ListInv /\ [ServerNext]_allVars => ListInv'
<1>1. ListInv /\ UNCHANGED listVars => ListInv'
  BY DEF listVars, ListInv, List!TypeOK, Truthful
<1> QED
  BY <1>1, PartStep, ListNext

LEMMA DetailStep == DetailInv /\ [ServerNext]_allVars => DetailInv'
<1>1. DetailInv /\ UNCHANGED detailVars => DetailInv'
  <2> SUFFICES ASSUME DetailInv, UNCHANGED detailVars PROVE DetailInv'
    OBVIOUS
  <2>1. DetailTypes'
    BY DEF detailVars, DetailInv, DetailTypes
  <2>2. FetchesTrue'
    BY DEF detailVars, DetailInv, FetchesTrue, FetchTrue
  <2>3. DeedsProper' /\ AsShown'
    BY SameShown DEF detailVars
  <2> QED
    BY <2>1, <2>2, <2>3 DEF DetailInv
<1> QED
  BY <1>1, PartStep, DetailNext

LEMMA RunStep == RunInv /\ [ServerNext]_allVars => RunInv'
<1>1. RunInv /\ UNCHANGED runVars => RunInv'
  BY DEF runVars, RunInv, RunTypes, MigrationsOnce, JobsServed
<1> QED
  BY <1>1, PartStep, RunNext

LEMMA FanoutStep == FInv /\ [ServerNext]_allVars => FInv'
BY PartStep, TypeStep, OrderStep, SocketStep, PokeStep DEF FInv

LEMMA LandedTypesStep == LandedTypes /\ [ServerNext]_allVars => LandedTypes'
<1>1. LandedTypes /\ UNCHANGED landedVars => LandedTypes'
  <2> SUFFICES ASSUME LandedTypes, UNCHANGED landedVars PROVE LandedTypes'
    OBVIOUS
  <2>1. Spent' = Spent
    BY DEF landedVars, Spent
  <2>2. LandedKinds'
    BY DEF landedVars, LandedTypes, LandedKinds
  <2>3. PressesCounted'
    BY <2>1 DEF landedVars, LandedTypes, PressesCounted
  <2> QED
    BY <2>2, <2>3 DEF LandedTypes
<1> QED
  BY <1>1, PartStep, LandedTypesNext

LEMMA HttpStep == HttpInv /\ [ServerNext]_allVars => HttpInv'
<1>1. HttpInv /\ UNCHANGED httpVars => HttpInv'
  BY DEF httpVars, HttpInv, Counts, RepliesNamed, Http!RefreshesCountedApart
<1> QED
  BY <1>1, PartStep, HttpNext

LEMMA HttpFollowsStep ==
  HttpInv /\ Http!RequestsFollowDeclarations /\ [ServerNext]_allVars => Http!RequestsFollowDeclarations'
<1>1. Http!RequestsFollowDeclarations /\ UNCHANGED httpVars => Http!RequestsFollowDeclarations'
  <2> SUFFICES ASSUME Http!RequestsFollowDeclarations, UNCHANGED httpVars
               PROVE  Http!RequestsFollowDeclarations'
    OBVIOUS
  <2>1. UNCHANGED setup /\ UNCHANGED renewed /\ UNCHANGED reply
    BY DEF httpVars
  <2>2. Http!RefreshesCountedApart'
    BY <2>1 DEF Http!RequestsFollowDeclarations, Http!RefreshesCountedApart
  <2> QED
    BY <2>1, <2>2 DEF Http!RequestsFollowDeclarations, Http!Mounted
<1> QED
  BY <1>1, PartStep, HttpFollows

LEMMA ValueStep == ValueInv /\ [ServerNext]_allVars => ValueInv'
<1>1. ValueInv /\ UNCHANGED valueVars => ValueInv'
  <2> SUFFICES ASSUME ValueInv, UNCHANGED valueVars PROVE ValueInv'
    OBVIOUS
  <2>1. UNCHANGED <<field, origin, value, met, kept>>
    BY DEF valueVars
  <2>2. Carried!TypeOK' /\ Carried!ValuesTravel'
    BY <2>1 DEF ValueInv, Carried!TypeOK, Carried!ValuesTravel, Bytes
  <2> QED
    BY <2>1, <2>2 DEF ValueInv, Carried!Within
<1> QED
  BY <1>1, PartStep, ValueNext

LEMMA CarriedStep == Carried!TypeOK /\ [ServerNext]_allVars => Carried!TypeOK'
<1>1. Carried!TypeOK /\ UNCHANGED valueVars => Carried!TypeOK'
  BY DEF valueVars, Carried!TypeOK
<1> QED
  BY <1>1, PartStep, CarriedNext

-----------------------------------------------------------------------------
\* A phone that changed hands gets one account's pushes, a password login's proof
\* signs in once, and a landing page hands its link over once, but in the cases
\* the property names: the races of PushTokenService.register, of the verify that
\* reads a challenge before it deletes it, and of a button pressed again.
THEOREM OverlapsDoubleHolds == ServerSpec => []OverlapsDouble
<1> DEFINE Inv == PhonesInv /\ LoginsInv /\ LandedInv
<1>1. ServerInit => Inv
  BY PhonesInit, LoginsInit, LandedInit DEF ServerInit
<1>2. Inv /\ [ServerNext]_allVars => Inv'
  BY PhonesStep, LoginsStep, LandedStep
<1>3. Inv => OverlapsDouble
  BY ChallengesHold, PagesTruthful DEF OverlapsDouble, PhonesInv
<1> QED
  BY <1>1, <1>2, <1>3, PTL DEF ServerSpec

\* The list of shared sessions follows the heartbeats as nearly as the servers'
\* clocks agree, whatever their clocks and the window of the discovery list.
THEOREM DiscoveryFollows == ServerSpec => []DiscoveryFollowsHeartbeats
<1>1. ServerInit => DiscoveryInv
  BY DiscoveryInit DEF ServerInit
<1>2. DiscoveryInv => DiscoveryFollowsHeartbeats
  BY ListsFollow DEF DiscoveryFollowsHeartbeats
<1> QED
  BY <1>1, <1>2, DiscoveryStep, PTL DEF ServerSpec

\* The password on file opens the administrator's account, the dashboard keeps a
\* valid token, and its pages of users show what is there, but after the events
\* the properties name: whatever order the answers of adminFetch come in.
THEOREM AdministrationHoldsAlways == ServerSpec => []AdministrationHolds
<1> DEFINE Inv == AdminInv /\ TabInv /\ ListInv /\ DetailInv
<1>1. ServerInit => Inv
  BY AdminInit, TabInit, ListInit, DetailInit DEF ServerInit
<1>2. Inv /\ [ServerNext]_allVars => Inv'
  BY AdminStep, TabStep, ListStep, DetailStep
<1>3. Inv => AdministrationHolds
  BY ScreenTruthful, DetailTruthful DEF AdministrationHolds, AdminInv, TabInv
<1> QED
  BY <1>1, <1>2, <1>3, PTL DEF ServerSpec

\* A plugin is created once and after all it depends on, its hooks are called
\* once each and in the order of the stages, those of a stage after its
\* dependencies'; every migration is applied once and in order, a server serves
\* with the schema of its release, and stopping cuts no transaction but in two
\* named cases: for any plugins and dependencies, processes, migrations, releases
\* and restarts.
THEOREM LivesHold == ServerSpec => []LivesInOrder
<1> DEFINE Inv == Lives!CoreInv /\ RunInv
<1>1. ServerInit => Inv
  BY CoreInit, RunInit DEF ServerInit
<1>2. Inv /\ [ServerNext]_allVars => Inv'
  BY CoreStep, RunStep
<1>3. Inv => LivesInOrder
  BY CoreHolds, SchemaFirst DEF LivesInOrder
<1> QED
  BY <1>1, <1>2, <1>3, PTL DEF ServerSpec

\* A connected client that lacks a committed write is about to pull it, or its
\* poke is on the way, or was lost in one of the ways missed records: in a
\* server with all its parts, as in the fan-out by itself.
THEOREM ServersTellStaleClients == ServerSpec => []NobodySilentlyStale
<1>1. ServerInit => FInv
  BY FanoutInit DEF ServerInit
<1>2. FInv => NobodySilentlyStale
  BY DEF FInv
<1> QED
  BY <1>1, <1>2, FanoutStep, PTL DEF ServerSpec

\* push publishes after its commit, so a poke never runs ahead of its write:
\* whoever pulls because of it finds the rows it is about.
THEOREM PokesComeAfterWrites == ServerSpec => []PokesFollowCommits
<1>1. ServerInit => FInv
  BY FanoutInit DEF ServerInit
<1>2. FInv => PokesFollowCommits
  BY DEF FInv
<1> QED
  BY <1>1, <1>2, FanoutStep, PTL DEF ServerSpec

\* Every request is answered by the handler of its own route if its credential is
\* the one the route declares, by the guard if not, with a documented status, and a
\* refresh is limited by the refreshes of its key alone: for any counters, limits
\* and order of requests, and any tables in which a handler is mounted behind the
\* guards of its scheme (MountAssumption).  And a value of any size that one schema
\* has accepted is not refused later but for the reasons ValuesTravel lists, with
\* any schemas and columns whose loads fit (LoadAssumption).
THEOREM DeclarationsAreFollowed == ServerSpec => []RequestsFollowDeclarations
<1> DEFINE Inv == HttpInv /\ Http!RequestsFollowDeclarations /\ ValueInv
<1>1. ServerInit => Inv
  BY HttpInit, HttpFollowsAtFirst, ValueInit DEF ServerInit
<1>2. Inv /\ [ServerNext]_allVars => Inv'
  BY HttpStep, HttpFollowsStep, ValueStep
<1>3. Inv => RequestsFollowDeclarations
  BY DEF RequestsFollowDeclarations, ValueInv
<1> QED
  BY <1>1, <1>2, <1>3, PTL DEF ServerSpec

\* Type correctness of a server and all its parts.
THEOREM ServerTypeCorrect == ServerSpec => []ServerTypeOK
<1> DEFINE Inv == /\ FInv /\ Lives!CoreInv /\ PhonesInv /\ LoginsInv /\ DiscoveryInv /\ AdminInv /\ TabInv
                  /\ ListInv /\ DetailInv /\ RunInv /\ LandedInv /\ LandedTypes /\ HttpInv /\ Carried!TypeOK
<1>1. ServerInit => Inv
  <2>1. ServerInit => FInv /\ Lives!CoreInv /\ PhonesInv /\ LoginsInv /\ DiscoveryInv /\ AdminInv /\ TabInv
    BY FanoutInit, CoreInit, PhonesInit, LoginsInit, DiscoveryInit, AdminInit, TabInit DEF ServerInit
  <2>2. ServerInit => ListInv /\ DetailInv /\ RunInv /\ LandedInv /\ LandedTypes /\ HttpInv
    BY ListInit, DetailInit, RunInit, LandedInit, LandedTypesInit, HttpInit DEF ServerInit
  <2>3. ServerInit => Carried!TypeOK
    BY CarriedInit DEF ServerInit
  <2> QED
    BY <2>1, <2>2, <2>3
<1>2. Inv /\ [ServerNext]_allVars => Inv'
  BY FanoutStep, CoreStep, PhonesStep, LoginsStep, DiscoveryStep, AdminStep, TabStep, ListStep, DetailStep,
     RunStep, LandedStep, LandedTypesStep, HttpStep, CarriedStep
<1>3. Inv => ServerTypeOK
  <2>1. FInv => TypeOK
    BY DEF FInv
  <2>2. Lives!CoreInv /\ PhonesInv /\ LoginsInv /\ DiscoveryInv
          => Core!TypeOK /\ Phones!TypeOK /\ Logins!TypeOK /\ Discovery!TypeOK
    BY CoreHolds DEF PhonesInv, LoginsInv, DiscoveryInv
  <2>3. AdminInv /\ TabInv /\ ListInv /\ DetailInv /\ RunInv
          => Admin!TypeOK /\ Tab!TypeOK /\ List!TypeOK /\ Detail!TypeOK /\ Run!TypeOK
    BY DetailTypeOK, RunTypeOK DEF AdminInv, TabInv, ListInv, DetailInv, RunInv
  <2>4. LandedInv /\ LandedTypes /\ HttpInv => Landed!TypeOK /\ Http!TypeOK
    BY LandedTypeOK, HttpTypeOK
  <2> QED
    BY <2>1, <2>2, <2>3, <2>4 DEF ServerTypeOK
<1> QED
  BY <1>1, <1>2, <1>3, PTL DEF ServerSpec
=============================================================================
