---------------------------- MODULE PluginsProofs ---------------------------
(***************************************************************************)
(* Proofs about Plugins for any plugins and any dependencies among them.    *)
(* The invariant says where a plugin that was seen is: created, placed by   *)
(* the depth-first search, or being visited; that visits nest along         *)
(* dependencies, which have no cycle; and which hooks were called.          *)
(***************************************************************************)
EXTENDS Plugins, SequenceTheorems, TLAPS


In(s, x) == \E k \in DOMAIN s : s[k] = x

Placed(p) == In(loaded, p) \/ In(final, p)
Visited(p) == \E k \in 1..Len(visiting) : visiting[k].plugin = p

\* A name that was seen is that of one plugin, which is created, placed or visited.
SeenAre == ~disposed => \A p \in seen : Placed(p) \/ Visited(p)
LoadedOnce ==
  /\ \A k \in 1..Len(loaded) : loaded[k] \in seen
  /\ \A j, k \in 1..Len(loaded) : loaded[j] = loaded[k] => j = k
FinalOnce ==
  /\ \A k \in 1..Len(final) : final[k] \in seen /\ ~In(loaded, final[k])
  /\ \A j, k \in 1..Len(final) : final[j] = final[k] => j = k
VisitedOnce ==
  /\ \A k \in 1..Len(visiting) : visiting[k].plugin \in seen /\ ~Placed(visiting[k].plugin)
  /\ \A j, k \in 1..Len(visiting) : visiting[j].plugin = visiting[k].plugin => j = k

\* A visit within a visit is to a dependency, and what a visit has been through
\* is placed or is being visited within it.
VisitsNest ==
  /\ \A k \in 1..Len(visiting) : visiting[k].todo \subseteq deps[visiting[k].plugin]
  /\ \A k \in 1..Len(visiting) : k < Len(visiting) => visiting[k + 1].plugin \in deps[visiting[k].plugin]
VisitsPlace ==
  \A k \in 1..Len(visiting) : \A d \in deps[visiting[k].plugin] \ visiting[k].todo :
    Placed(d) \/ (k < Len(visiting) /\ visiting[k + 1].plugin = d)

\* What is placed comes after all it depends on.
FinalAfter ==
  \A k \in 1..Len(final) : \A d \in deps[final[k]] :
    In(loaded, d) \/ \E j \in 1..Len(final) : j < k /\ final[j] = d
LoadedAfter ==
  \A k \in 1..Len(loaded) : \A d \in deps[loaded[k]] : \E j \in 1..Len(loaded) : j < k /\ loaded[j] = d

\* What is taken through the stages was created last.
FreshLast ==
  /\ visiting # <<>> \/ final # <<>> => fresh = <<>>
  /\ disposed => Idle /\ loaded = <<>>
  /\ \E n \in Nat : n + Len(fresh) = Len(loaded) /\ \A i \in 1..Len(fresh) : fresh[i] = loaded[n + i]

\* Hooks are those of created plugins and of stages that were reached, for fresh
\* ones of those before the turn.
HooksOfLoaded ==
  \A k \in 1..Len(hooks) : /\ hooks[k][2] <= stage
                           /\ ~disposed => In(loaded, hooks[k][1])
                           /\ In(fresh, hooks[k][1]) => hooks[k][2] < turn
Ordered(h, d) ==
  \A j, k \in 1..Len(h) :
    j < k => \/ h[j][1] = h[k][1] /\ h[j][2] < h[k][2]
             \/ h[j][1] # h[k][1] /\ (h[k][1] \in d[h[j][1]] => h[j][2] # h[k][2])
HooksOrdered == Ordered(hooks, deps)
StagesCalled ==
  /\ \A s \in reached : s <= stage
  /\ \A k \in 1..Len(loaded) : \A s \in reached :
       In(hooks, <<loaded[k], s>>) \/ (In(fresh, loaded[k]) /\ s >= turn)

CoreInv ==
  /\ TypeOK /\ Acyclic(deps)
  /\ SeenAre /\ LoadedOnce /\ FinalOnce /\ VisitedOnce
  /\ VisitsNest /\ VisitsPlace /\ FinalAfter /\ LoadedAfter /\ FreshLast
  /\ HooksOfLoaded /\ HooksOrdered /\ StagesCalled

LEMMA DomainIs ==
  ASSUME NEW T, NEW s \in Seq(T)
  PROVE  Len(s) \in Nat /\ DOMAIN s = 1..Len(s) /\ \A k \in 1..Len(s) : s[k] \in T
BY LenProperties, ElementOfSeq

LEMMA Appended ==
  ASSUME NEW T, NEW s \in Seq(T), NEW v \in T
  PROVE  /\ Append(s, v) \in Seq(T) /\ Len(Append(s, v)) = Len(s) + 1
         /\ \A k \in 1..Len(s) : Append(s, v)[k] = s[k]
         /\ Append(s, v)[Len(s) + 1] = v
         /\ \A x : In(Append(s, v), x) <=> In(s, x) \/ x = v
<1>1. /\ Append(s, v) \in Seq(T) /\ Len(Append(s, v)) = Len(s) + 1
      /\ \A k \in 1..Len(s) : Append(s, v)[k] = s[k]
      /\ Append(s, v)[Len(s) + 1] = v
      /\ DOMAIN Append(s, v) = 1..Len(s) + 1
  OBVIOUS
<1>2. DOMAIN s = 1..Len(s) /\ Len(s) \in Nat
  OBVIOUS
<1>3. PICK n : n = Len(s) /\ n \in Nat
  BY <1>2
<1>4. PICK a : a = Append(s, v)
  OBVIOUS
<1>5. /\ DOMAIN a = 1..n + 1 /\ a[n + 1] = v
      /\ DOMAIN s = 1..n /\ \A k \in 1..n : a[k] = s[k]
  BY <1>1, <1>2, <1>3, <1>4
<1>6. \A x : In(a, x) <=> In(s, x) \/ x = v
  <2> SUFFICES ASSUME NEW x PROVE In(a, x) <=> In(s, x) \/ x = v
    OBVIOUS
  <2>1. \A k \in 1..n + 1 : k = n + 1 \/ k \in 1..n
    BY <1>3
  <2>2. \A k \in 1..n : k \in 1..n + 1
    BY <1>3
  <2>3. n + 1 \in 1..n + 1
    BY <1>3
  <2> QED
    BY <1>5, <2>1, <2>2, <2>3 DEF In
<1> QED
  BY <1>1, <1>4, <1>6

LEMMA Replaced ==
  ASSUME NEW T, NEW s \in Seq(T), NEW i \in 1..Len(s), NEW v \in T, NEW r, r = [s EXCEPT ![i] = v]
  PROVE  /\ r \in Seq(T) /\ Len(r) = Len(s)
         /\ \A k \in 1..Len(s) : r[k] = IF k = i THEN v ELSE s[k]
BY ExceptSeq

LEMMA Joined ==
  ASSUME NEW T, NEW s \in Seq(T), NEW t \in Seq(T)
  PROVE  /\ s \o t \in Seq(T) /\ Len(s \o t) = Len(s) + Len(t)
         /\ \A k \in 1..Len(s) : (s \o t)[k] = s[k]
         /\ \A k \in 1..Len(t) : (s \o t)[Len(s) + k] = t[k]
         /\ \A k \in 1..Len(s) + Len(t) : k \in 1..Len(s) \/ k - Len(s) \in 1..Len(t)
         /\ \A x : In(s \o t, x) <=> In(s, x) \/ In(t, x)
<1>1. PICK m, n : m = Len(s) /\ n = Len(t) /\ m \in Nat /\ n \in Nat
  BY DomainIs
<1>2. PICK c : c = s \o t
  OBVIOUS
<1>3. /\ c \in Seq(T) /\ Len(c) = m + n
      /\ \A k \in 1..m + n : c[k] = IF k <= m THEN s[k] ELSE t[k - m]
  BY <1>1, <1>2, ConcatProperties, Zenon
<1>4. \A k \in 1..m + n : k \in 1..m \/ (k - m \in 1..n /\ m + (k - m) = k)
  BY <1>1
<1>5. \A k \in 1..m : c[k] = s[k] /\ k \in 1..m + n
  BY <1>1, <1>3
<1>6. \A k \in 1..n : c[m + k] = t[k] /\ m + k \in 1..m + n
  <2> SUFFICES ASSUME NEW k \in 1..n PROVE c[m + k] = t[k] /\ m + k \in 1..m + n
    OBVIOUS
  <2>1. PICK i : i = m + k
    OBVIOUS
  <2>2. i \in 1..m + n /\ ~(i <= m) /\ i - m = k
    BY <1>1, <2>1
  <2>3. c[i] = t[i - m]
    BY <2>2, <1>3
  <2> QED
    BY <2>1, <2>2, <2>3
<1>7. DOMAIN c = 1..m + n /\ DOMAIN s = 1..m /\ DOMAIN t = 1..n
  BY <1>1, <1>3, DomainIs
<1>8. \A x : In(c, x) <=> In(s, x) \/ In(t, x)
  <2> SUFFICES ASSUME NEW x PROVE In(c, x) <=> In(s, x) \/ In(t, x)
    OBVIOUS
  <2>1. In(s, x) => In(c, x)
    BY <1>5, <1>7 DEF In
  <2>2. In(t, x) => In(c, x)
    BY <1>6, <1>7 DEF In
  <2>3. ASSUME NEW k \in 1..m + n, c[k] = x PROVE In(s, x) \/ In(t, x)
    <3>1. CASE k \in 1..m
      BY <3>1, <2>3, <1>5, <1>7 DEF In
    <3>2. CASE k - m \in 1..n /\ m + (k - m) = k
      BY <3>2, <2>3, <1>6, <1>7 DEF In
    <3> QED
      BY <3>1, <3>2, <1>4
  <2> QED
    BY <2>1, <2>2, <2>3, <1>7 DEF In
<1> QED
  BY <1>1, <1>2, <1>3, <1>4, <1>5, <1>6, <1>8

LEMMA Popped ==
  ASSUME NEW T, NEW s \in Seq(T), s # <<>>
  PROVE  /\ Len(s) \in 1..Len(s) /\ Len(s) - 1 \in Nat
         /\ SubSeq(s, 1, Len(s) - 1) \in Seq(T) /\ Len(SubSeq(s, 1, Len(s) - 1)) = Len(s) - 1
         /\ \A k \in 1..Len(s) - 1 : SubSeq(s, 1, Len(s) - 1)[k] = s[k] /\ k \in 1..Len(s)
<1>1. PICK n : n = Len(s) /\ n \in Nat \ {0}
  BY EmptySeq
<1>2. \A k \in 1..n - 1 : s[k] \in T /\ k \in 1..n
  BY <1>1, ElementOfSeq
<1>3. PICK m : m = n - 1 /\ m \in Nat
  BY <1>1
<1>4. PICK u : u = SubSeq(s, 1, m)
  OBVIOUS
<1>5. u \in Seq(T) /\ Len(u) = IF 1 <= m THEN m - 1 + 1 ELSE 0
  BY <1>2, <1>3, <1>4, SubSeqProperties
<1>6. \A k \in 1..m - 1 + 1 : u[k] = s[1 + k - 1]
  BY <1>2, <1>3, <1>4, SubSeqProperties
<1>7. Len(u) = m /\ \A k \in 1..m : u[k] = s[k]
  BY <1>3, <1>5, <1>6
<1>8. n \in 1..n /\ n - 1 = m
  BY <1>1, <1>3
<1>9. u = SubSeq(s, 1, Len(s) - 1)
  BY <1>1, <1>4, <1>8
<1>10. \A k \in 1..n - 1 : u[k] = s[k] /\ k \in 1..n
  BY <1>2, <1>7, <1>8
<1> QED
  BY <1>1, <1>3, <1>5, <1>7, <1>8, <1>9, <1>10

LEMMA StageRun ==
  ASSUME NEW s \in Seq(Plugin), NEW n \in Stage
  PROVE  /\ RunStage(s, n) \in Seq(Plugin \X Stage) /\ Len(RunStage(s, n)) = Len(s)
         /\ \A k \in 1..Len(s) : RunStage(s, n)[k] = <<s[k], n>>
         /\ \A p : In(s, p) => In(RunStage(s, n), <<p, n>>)
<1>1. PICK l : l = Len(s) /\ l \in Nat /\ DOMAIN s = 1..l /\ \A k \in 1..l : s[k] \in Plugin
  BY DomainIs
<1>2. PICK r : r = [k \in 1..l |-> <<s[k], n>>]
  OBVIOUS
<1>3. r = RunStage(s, n)
  BY <1>1, <1>2 DEF RunStage
<1>4. r \in [1..l -> Plugin \X Stage]
  BY <1>1, <1>2
<1>5. r \in Seq(Plugin \X Stage) /\ Len(r) = l
  BY <1>1, <1>4
<1>6. (\A k \in 1..l : r[k] = <<s[k], n>>) /\ DOMAIN r = 1..l
  BY <1>2
<1> QED
  BY <1>1, <1>3, <1>5, <1>6 DEF In

LEMMA Starts == Init => CoreInv
<1> SUFFICES ASSUME Init PROVE CoreInv
  OBVIOUS
<1>1. /\ deps \in [Plugin -> SUBSET Plugin] /\ Acyclic(deps)
      /\ seen = {} /\ config = {} /\ turn = 0 /\ stage = 0 /\ reached = {0} /\ disposed = FALSE
      /\ visiting = <<>> /\ final = <<>> /\ loaded = <<>> /\ fresh = <<>> /\ hooks = <<>>
  BY DEF Init, Starting
<1>2. TypeOK
  <2>1. /\ <<>> \in Seq([plugin : Plugin, todo : SUBSET Plugin]) /\ <<>> \in Seq(Plugin)
        /\ <<>> \in Seq(Plugin \X Stage)
    BY EmptySeq, Zenon
  <2>2. turn \in 0..stage /\ stage \in reached /\ reached \subseteq Stage
    BY <1>1 DEF Stage, Starting, Steady
  <2> QED
    BY <1>1, <2>1, <2>2 DEF TypeOK
<1>3. SeenAre /\ LoadedOnce /\ FinalOnce /\ VisitedOnce
  BY <1>1 DEF SeenAre, LoadedOnce, FinalOnce, VisitedOnce
<1>4. VisitsNest /\ VisitsPlace /\ FinalAfter /\ LoadedAfter
  BY <1>1 DEF VisitsNest, VisitsPlace, FinalAfter, LoadedAfter
<1>5. FreshLast
  <2>1. 0 + Len(fresh) = Len(loaded) /\ \A i \in 1..Len(fresh) : fresh[i] = loaded[0 + i]
    BY <1>1
  <2> QED
    BY <1>1, <2>1 DEF FreshLast
<1>6. HooksOfLoaded /\ HooksOrdered /\ StagesCalled
  BY <1>1 DEF HooksOfLoaded, HooksOrdered, Ordered, StagesCalled
<1> QED
  BY <1>1, <1>2, <1>3, <1>4, <1>5, <1>6 DEF CoreInv

LEMMA CoreTypes ==
  ASSUME TypeOK
  PROVE  /\ DOMAIN loaded = 1..Len(loaded) /\ Len(loaded) \in Nat /\ \A k \in 1..Len(loaded) : loaded[k] \in Plugin
         /\ DOMAIN final = 1..Len(final) /\ Len(final) \in Nat /\ \A k \in 1..Len(final) : final[k] \in Plugin
         /\ DOMAIN fresh = 1..Len(fresh) /\ Len(fresh) \in Nat /\ \A k \in 1..Len(fresh) : fresh[k] \in Plugin
         /\ DOMAIN visiting = 1..Len(visiting) /\ Len(visiting) \in Nat
         /\ \A k \in 1..Len(visiting) : visiting[k] \in [plugin : Plugin, todo : SUBSET Plugin]
         /\ DOMAIN hooks = 1..Len(hooks) /\ Len(hooks) \in Nat
         /\ \A k \in 1..Len(hooks) : hooks[k] \in Plugin \X Stage
<1>1. /\ loaded \in Seq(Plugin) /\ final \in Seq(Plugin) /\ fresh \in Seq(Plugin)
      /\ visiting \in Seq([plugin : Plugin, todo : SUBSET Plugin]) /\ hooks \in Seq(Plugin \X Stage)
  BY DEF TypeOK
<1>2. DOMAIN loaded = 1..Len(loaded) /\ Len(loaded) \in Nat /\ \A k \in 1..Len(loaded) : loaded[k] \in Plugin
  BY <1>1, DomainIs, Zenon
<1>3. DOMAIN final = 1..Len(final) /\ Len(final) \in Nat /\ \A k \in 1..Len(final) : final[k] \in Plugin
  BY <1>1, DomainIs, Zenon
<1>4. DOMAIN fresh = 1..Len(fresh) /\ Len(fresh) \in Nat /\ \A k \in 1..Len(fresh) : fresh[k] \in Plugin
  BY <1>1, DomainIs, Zenon
<1>5. /\ DOMAIN visiting = 1..Len(visiting) /\ Len(visiting) \in Nat
      /\ \A k \in 1..Len(visiting) : visiting[k] \in [plugin : Plugin, todo : SUBSET Plugin]
  BY <1>1, DomainIs, Zenon
<1>6. DOMAIN hooks = 1..Len(hooks) /\ Len(hooks) \in Nat /\ \A k \in 1..Len(hooks) : hooks[k] \in Plugin \X Stage
  BY <1>1, DomainIs, Zenon
<1> QED
  BY <1>2, <1>3, <1>4, <1>5, <1>6

\* What is being visited depends on nothing that is being visited around it.
LEMMA NoCycle ==
  ASSUME CoreInv, NEW i \in 1..Len(visiting)
  PROVE  visiting[i].plugin \notin deps[visiting[Len(visiting)].plugin]
<1>1. PICK n : n = Len(visiting) /\ n \in Nat /\ i \in 1..n
  BY CoreTypes DEF CoreInv
<1>2. \A k \in i..n : k \in 1..n /\ visiting[k].plugin \in Plugin
  BY <1>1, CoreTypes DEF CoreInv
<1>3. \A k \in i..n : k # n => k + 1 \in i..n /\ visiting[k + 1].plugin \in deps[visiting[k].plugin]
  <2>1. \A k \in i..n : k # n => k + 1 \in i..n /\ k < n
    BY <1>1
  <2> QED
    BY <1>1, <1>2, <2>1 DEF CoreInv, VisitsNest
<1>4. PICK S : S = {visiting[k].plugin : k \in i..n}
  OBVIOUS
<1>5. S \in (SUBSET Plugin) \ {{}}
  <2>1. i \in i..n
    BY <1>1
  <2>2. visiting[i].plugin \in S
    BY <1>4, <2>1
  <2>3. S \subseteq Plugin
    BY <1>2, <1>4
  <2> QED
    BY <2>2, <2>3
<1>6. PICK p \in S : deps[p] \cap S = {}
  BY <1>5 DEF CoreInv, Acyclic
<1>7. PICK k \in i..n : p = visiting[k].plugin
  BY <1>4, <1>6
<1>8. k = n
  <2> SUFFICES ASSUME k # n PROVE FALSE
    OBVIOUS
  <2>1. PICK j : j = k + 1
    OBVIOUS
  <2>2. j \in i..n /\ visiting[j].plugin \in deps[p]
    BY <1>3, <1>7, <2>1
  <2>3. visiting[j].plugin \in S
    BY <1>4, <2>2
  <2> QED
    BY <1>6, <2>2, <2>3
<1>9. visiting[i].plugin \in S
  <2>1. i \in i..n
    BY <1>1
  <2> QED
    BY <1>4, <2>1
<1> QED
  BY <1>1, <1>6, <1>7, <1>8, <1>9

LEMMA CoreRegisters ==
  ASSUME CoreInv, NEW p \in Plugin, Register(p)
  PROVE  CoreInv'
<1>1. PICK v : v = [plugin |-> p, todo |-> deps[p]]
  OBVIOUS
<1>2. /\ visiting = <<>> /\ final = <<>> /\ fresh = <<>> /\ ~disposed /\ p \notin seen
      /\ seen' = seen \cup {p} /\ config' = config \cup {p} /\ visiting' = <<v>>
      /\ UNCHANGED <<deps, final, loaded, fresh, turn, stage, reached, hooks, disposed>>
  BY <1>1 DEF Register, Visit, Idle
<1>3. v \in [plugin : Plugin, todo : SUBSET Plugin] /\ v.plugin = p /\ v.todo = deps[p]
  BY <1>1 DEF CoreInv, TypeOK
<1>4. Len(visiting) = 0 /\ Len(visiting') = 1 /\ visiting'[1] = v /\ \A k \in 1..Len(visiting') : k = 1
  BY <1>2
<1>5. TypeOK'
  <2>1. visiting' \in Seq([plugin : Plugin, todo : SUBSET Plugin])
    BY <1>2, <1>3
  <2> QED
    BY <1>2, <2>1 DEF CoreInv, TypeOK
<1>6. Acyclic(deps)' /\ LoadedAfter' /\ FinalAfter' /\ FinalOnce' /\ LoadedOnce'
  BY <1>2 DEF CoreInv, Acyclic, LoadedAfter, FinalAfter, FinalOnce, LoadedOnce, In
<1>7. \A q : Placed(q)' <=> Placed(q)
  BY <1>2 DEF Placed, In
<1>8. SeenAre'
  <2> SUFFICES ASSUME NEW q \in seen' PROVE Placed(q)' \/ Visited(q)'
    BY DEF SeenAre
  <2>1. CASE q = p
    BY <2>1, <1>3, <1>4 DEF Visited
  <2>2. CASE q \in seen
    BY <2>2, <1>2, <1>4, <1>7 DEF CoreInv, SeenAre, Visited
  <2> QED
    BY <2>1, <2>2, <1>2
<1>9. ~Placed(p)
  BY <1>2, CoreTypes DEF CoreInv, LoadedOnce, FinalOnce, Placed, In
<1>10. VisitedOnce'
  BY <1>2, <1>3, <1>4, <1>7, <1>9 DEF VisitedOnce
<1>11. VisitsNest' /\ VisitsPlace'
  BY <1>2, <1>3, <1>4 DEF VisitsNest, VisitsPlace
<1>12. FreshLast'
  BY <1>2 DEF CoreInv, FreshLast
<1>13. HooksOfLoaded' /\ HooksOrdered' /\ StagesCalled'
  BY <1>2 DEF CoreInv, HooksOfLoaded, HooksOrdered, StagesCalled, In
<1> QED
  BY <1>5, <1>6, <1>8, <1>10, <1>11, <1>12, <1>13 DEF CoreInv

LEMMA CoreDescends ==
  ASSUME CoreInv, NEW d \in Plugin, Descend(d)
  PROVE  CoreInv'
<1>1. PICK n : n = Len(visiting) /\ n \in Nat
  BY CoreTypes DEF CoreInv
<1>2. PICK rest : rest = [visiting EXCEPT ![n].todo = @ \ {d}]
  OBVIOUS
<1>3. PICK v : v = [plugin |-> d, todo |-> deps[d]]
  OBVIOUS
<1>4. /\ visiting # <<>> /\ d \in visiting[n].todo
      /\ \/ d \in seen /\ visiting' = rest /\ seen' = seen
         \/ d \notin seen /\ visiting' = Append(rest, v) /\ seen' = seen \cup {d}
      /\ UNCHANGED <<deps, final, loaded, config, fresh, turn, stage, reached, hooks, disposed>>
  BY <1>1, <1>2, <1>3 DEF Descend, Visit
<1>5. n \in 1..n
  BY <1>1, <1>4, EmptySeq DEF CoreInv, TypeOK
<1>6. visiting \in Seq([plugin : Plugin, todo : SUBSET Plugin])
  BY DEF CoreInv, TypeOK
<1>7. \A k \in 1..n : visiting[k] \in [plugin : Plugin, todo : SUBSET Plugin]
  BY <1>1, CoreTypes DEF CoreInv
<1>8. PICK top : top = [visiting[n] EXCEPT !.todo = @ \ {d}]
  OBVIOUS
<1>9. /\ top \in [plugin : Plugin, todo : SUBSET Plugin]
      /\ top.plugin = visiting[n].plugin /\ top.todo = visiting[n].todo \ {d}
  BY <1>5, <1>7, <1>8
<1>10. rest = [visiting EXCEPT ![n] = top]
  BY <1>2, <1>8
<1>11. /\ rest \in Seq([plugin : Plugin, todo : SUBSET Plugin]) /\ Len(rest) = n
       /\ \A k \in 1..n : rest[k] = IF k = n THEN top ELSE visiting[k]
  <2>1. n \in 1..Len(visiting)
    BY <1>1, <1>5
  <2>2. PICK T : T = [plugin : Plugin, todo : SUBSET Plugin]
    OBVIOUS
  <2>3. visiting \in Seq(T) /\ top \in T
    BY <1>6, <1>9, <2>2
  <2>4. /\ rest \in Seq(T) /\ Len(rest) = Len(visiting)
        /\ \A k \in 1..Len(visiting) : rest[k] = IF k = n THEN top ELSE visiting[k]
    BY <1>10, <2>1, <2>3, Replaced
  <2> QED
    BY <1>1, <2>2, <2>4
<1>12. \A k \in 1..n : rest[k].plugin = visiting[k].plugin /\ (k # n => rest[k].todo = visiting[k].todo)
  BY <1>9, <1>11
<1>13. rest[n].todo = visiting[n].todo \ {d}
  BY <1>5, <1>9, <1>11
<1>14. v \in [plugin : Plugin, todo : SUBSET Plugin] /\ v.plugin = d /\ v.todo = deps[d]
  BY <1>3 DEF CoreInv, TypeOK
<1>15. d \in deps[visiting[n].plugin]
  BY <1>1, <1>4, <1>5 DEF CoreInv, VisitsNest
<1>16. /\ Acyclic(deps)' /\ LoadedAfter' /\ FinalAfter' /\ FreshLast' /\ HooksOfLoaded'
       /\ HooksOrdered' /\ StagesCalled'
  <2>1. Acyclic(deps)' /\ LoadedAfter' /\ FinalAfter'
    BY <1>4 DEF CoreInv, Acyclic, LoadedAfter, FinalAfter, In
  <2>2. FreshLast'
    BY <1>4 DEF CoreInv, FreshLast, Idle
  <2>3. HooksOfLoaded' /\ HooksOrdered' /\ StagesCalled'
    BY <1>4 DEF CoreInv, HooksOfLoaded, HooksOrdered, StagesCalled, In
  <2> QED
    BY <2>1, <2>2, <2>3
<1>17. LoadedOnce' /\ FinalOnce'
  BY <1>4 DEF CoreInv, LoadedOnce, FinalOnce, In
<1>18. \A q : Placed(q)' <=> Placed(q)
  BY <1>4 DEF Placed, In
<1>19. CASE d \in seen
  <2>1. visiting' = rest /\ seen' = seen /\ Len(visiting') = n
    BY <1>4, <1>11, <1>19
  <2>2. TypeOK'
    BY <1>4, <1>11, <2>1 DEF CoreInv, TypeOK
  <2>3. \A k \in 1..n : visiting'[k].plugin = visiting[k].plugin
    BY <1>12, <2>1
  <2>4. SeenAre'
    BY <1>1, <1>4, <1>18, <2>1, <2>3 DEF CoreInv, SeenAre, Visited
  <2>5. VisitedOnce'
    BY <1>1, <1>18, <2>1, <2>3 DEF CoreInv, VisitedOnce
  <2>6. VisitsNest'
    <3>1. \A k \in 1..n : visiting'[k].todo \subseteq visiting[k].todo
      BY <1>12, <1>13, <2>1
    <3>2. \A k \in 1..n : k < n => k + 1 \in 1..n
      BY <1>1
    <3>3. \A k \in 1..n : visiting'[k].todo \subseteq deps'[visiting'[k].plugin]
      BY <1>1, <1>4, <2>3, <3>1 DEF CoreInv, VisitsNest
    <3>4. \A k \in 1..n : k < n => visiting'[k + 1].plugin \in deps'[visiting'[k].plugin]
      BY <1>1, <1>4, <2>3, <3>2 DEF CoreInv, VisitsNest
    <3> QED
      BY <2>1, <3>3, <3>4 DEF VisitsNest
  <2>7. Placed(d)
    <3>1. ~disposed
      BY <1>4 DEF CoreInv, FreshLast, Idle
    <3>2. ~Visited(d)
      BY <1>1, <1>15, NoCycle DEF Visited
    <3> QED
      BY <3>1, <3>2, <1>19 DEF CoreInv, SeenAre
  <2>8. VisitsPlace'
    <3> SUFFICES ASSUME NEW k \in 1..n, NEW e \in deps[visiting[k].plugin] \ visiting'[k].todo
                 PROVE  Placed(e) \/ (k < n /\ visiting'[k + 1].plugin = e)
      BY <1>4, <1>18, <2>1, <2>3 DEF VisitsPlace
    <3>1. CASE e \in visiting[k].todo
      <4>1. k = n /\ e = d
        BY <1>12, <1>13, <2>1, <3>1
      <4> QED
        BY <4>1, <2>7
    <3>2. CASE e \notin visiting[k].todo
      <4>1. Placed(e) \/ (k < n /\ visiting[k + 1].plugin = e)
        BY <1>1, <3>2 DEF CoreInv, VisitsPlace
      <4>2. k < n => k + 1 \in 1..n
        BY <1>1
      <4> QED
        BY <4>1, <4>2, <2>3
    <3> QED
      BY <3>1, <3>2
  <2> QED
    BY <1>16, <1>17, <2>2, <2>4, <2>5, <2>6, <2>8 DEF CoreInv
<1>20. CASE d \notin seen
  <2>1. visiting' = Append(rest, v) /\ seen' = seen \cup {d}
    BY <1>4, <1>20
  <2>2. /\ visiting' \in Seq([plugin : Plugin, todo : SUBSET Plugin]) /\ Len(visiting') = n + 1
        /\ \A k \in 1..n : visiting'[k] = rest[k]
        /\ visiting'[n + 1] = v
    <3>1. PICK T : T = [plugin : Plugin, todo : SUBSET Plugin]
      OBVIOUS
    <3>2. rest \in Seq(T) /\ v \in T
      BY <1>11, <1>14, <3>1
    <3>3. /\ Append(rest, v) \in Seq(T) /\ Len(Append(rest, v)) = Len(rest) + 1
          /\ \A k \in 1..Len(rest) : Append(rest, v)[k] = rest[k]
          /\ Append(rest, v)[Len(rest) + 1] = v
      BY <3>2, Appended
    <3> QED
      BY <1>11, <2>1, <3>1, <3>3
  <2>3. TypeOK'
    BY <1>4, <2>1, <2>2 DEF CoreInv, TypeOK
  <2>4. \A k \in 1..n : visiting'[k].plugin = visiting[k].plugin
    BY <1>12, <2>2
  <2>5. PICK l : l = n + 1 /\ l \in Nat /\ l \in 1..l /\ (\A k \in 1..l : k = l \/ k \in 1..n) /\ \A k \in 1..n : k \in 1..l /\ k # l
    BY <1>1
  <2>6. visiting'[l] = v /\ Len(visiting') = l
    BY <2>2, <2>5
  <2>7. SeenAre'
    <3> SUFFICES ASSUME ~disposed, NEW q \in seen' PROVE Placed(q)' \/ Visited(q)'
      BY <1>4 DEF SeenAre
    <3>1. CASE q = d
      BY <3>1, <1>14, <2>5, <2>6 DEF Visited
    <3>2. CASE q \in seen
      BY <3>2, <1>1, <1>18, <2>4, <2>5, <2>6 DEF CoreInv, SeenAre, Visited
    <3> QED
      BY <3>1, <3>2, <2>1
  <2>8. ~Placed(d)
    BY <1>20, CoreTypes DEF CoreInv, LoadedOnce, FinalOnce, Placed, In
  <2>9. VisitedOnce'
    <3>1. \A k \in 1..n : visiting'[k].plugin \in seen /\ ~Placed(visiting'[k].plugin)
      BY <1>1, <2>4 DEF CoreInv, VisitedOnce
    <3>2. \A k \in 1..l : visiting'[k].plugin \in seen' /\ ~Placed(visiting'[k].plugin)
      BY <3>1, <1>14, <2>1, <2>5, <2>6, <2>8
    <3>3. \A j, k \in 1..n : visiting'[j].plugin = visiting'[k].plugin => j = k
      BY <1>1, <2>4 DEF CoreInv, VisitedOnce
    <3>4. \A j, k \in 1..l : visiting'[j].plugin = visiting'[k].plugin => j = k
      BY <3>1, <3>3, <1>14, <1>20, <2>5, <2>6
    <3>5. \A k \in 1..l : ~Placed(visiting'[k].plugin) => ~(In(loaded, visiting[k].plugin) \/ In(final, visiting[k].plugin))'
      BY <1>4 DEF Placed, In
    <3> QED
      BY <3>2, <3>4, <3>5, <2>6 DEF VisitedOnce, Placed
  <2>10. VisitsNest'
    <3>1. \A k \in 1..n : visiting'[k].todo \subseteq visiting[k].todo
      BY <1>12, <1>13, <2>2
    <3>2. \A k \in 1..l : visiting'[k].todo \subseteq deps'[visiting'[k].plugin]
      BY <1>1, <1>4, <1>14, <2>4, <2>5, <2>6, <3>1 DEF CoreInv, VisitsNest
    <3>3. \A k \in 1..n : k = n \/ (k < n /\ k + 1 \in 1..n)
      BY <1>1
    <3>4. \A k \in 1..n : visiting'[k + 1].plugin \in deps'[visiting'[k].plugin]
      BY <1>1, <1>4, <1>14, <1>15, <2>4, <2>5, <2>6, <3>3 DEF CoreInv, VisitsNest
    <3>5. \A k \in 1..l : k < l => k \in 1..n
      BY <2>5
    <3> QED
      BY <2>6, <3>2, <3>4, <3>5 DEF VisitsNest
  <2>11. VisitsPlace'
    <3> SUFFICES ASSUME NEW k \in 1..l, NEW e \in deps'[visiting'[k].plugin] \ visiting'[k].todo
                 PROVE  Placed(e) \/ (k < l /\ visiting'[k + 1].plugin = e)
      BY <1>18, <2>6 DEF VisitsPlace
    <3>1. CASE k = l
      BY <3>1, <1>4, <1>14, <2>6
    <3>2. CASE k \in 1..n /\ e \in visiting[k].todo
      <4>1. k = n /\ e = d
        BY <1>12, <1>13, <2>2, <3>2
      <4>2. k < l /\ k + 1 = l
        BY <1>1, <2>5, <4>1
      <4> QED
        BY <4>1, <4>2, <1>14, <2>6
    <3>3. CASE k \in 1..n /\ e \notin visiting[k].todo
      <4>1. Placed(e) \/ (k < n /\ visiting[k + 1].plugin = e)
        BY <1>1, <1>4, <2>4, <3>3 DEF CoreInv, VisitsPlace
      <4>2. k < n => k + 1 \in 1..n /\ k < l
        BY <1>1, <2>5
      <4> QED
        BY <4>1, <4>2, <2>4
    <3> QED
      BY <3>1, <3>2, <3>3, <2>5
  <2> QED
    BY <1>16, <1>17, <2>3, <2>7, <2>9, <2>10, <2>11 DEF CoreInv
<1> QED
  BY <1>19, <1>20

LEMMA CoreLeaves ==
  ASSUME CoreInv, Leave
  PROVE  CoreInv'
<1>1. PICK n : n = Len(visiting) /\ n \in Nat
  BY CoreTypes DEF CoreInv
<1>2. PICK p : p = visiting[n].plugin
  OBVIOUS
<1>3. /\ visiting # <<>> /\ visiting[n].todo = {}
      /\ final' = Append(final, p) /\ visiting' = SubSeq(visiting, 1, n - 1)
      /\ UNCHANGED <<deps, seen, loaded, config, fresh, turn, stage, reached, hooks, disposed>>
  BY <1>1, <1>2 DEF Leave
<1>4. PICK l : l = n - 1 /\ l \in Nat /\ n \in 1..n /\ \A k \in 1..l : k \in 1..n /\ k < n
  <2>1. Len(visiting) \in 1..Len(visiting)
    BY <1>3, Popped DEF CoreInv, TypeOK
  <2> QED
    BY <1>1, <2>1
<1>5. /\ visiting' \in Seq([plugin : Plugin, todo : SUBSET Plugin]) /\ Len(visiting') = l
      /\ \A k \in 1..l : visiting'[k] = visiting[k]
  <2>1. PICK T : T = [plugin : Plugin, todo : SUBSET Plugin]
    OBVIOUS
  <2>2. visiting \in Seq(T)
    BY <2>1 DEF CoreInv, TypeOK
  <2>3. PICK u : u = SubSeq(visiting, 1, Len(visiting) - 1)
    OBVIOUS
  <2>4. /\ u \in Seq(T) /\ Len(u) = Len(visiting) - 1
        /\ \A k \in 1..Len(visiting) - 1 : u[k] = visiting[k]
    BY <1>3, <2>2, <2>3, Popped
  <2>5. visiting' = u
    BY <1>1, <1>3, <2>3
  <2> QED
    BY <1>1, <1>4, <2>1, <2>4, <2>5
<1>6. p \in Plugin /\ visiting[n] \in [plugin : Plugin, todo : SUBSET Plugin]
  BY <1>1, <1>2, <1>4, CoreTypes DEF CoreInv
<1>7. PICK m : m = Len(final) /\ m \in Nat /\ m + 1 \in 1..m + 1 /\ \A k \in 1..m + 1 : k \in 1..m \/ k = m + 1
  BY CoreTypes DEF CoreInv
<1>8. /\ final' \in Seq(Plugin) /\ Len(final') = m + 1
      /\ \A k \in 1..m : final'[k] = final[k]
      /\ final'[m + 1] = p
      /\ \A x : In(Append(final, p), x) <=> In(final, x) \/ x = p
  <2>1. final \in Seq(Plugin)
    BY DEF CoreInv, TypeOK
  <2>2. PICK u : u = Append(final, p)
    OBVIOUS
  <2>3. /\ u \in Seq(Plugin) /\ Len(u) = Len(final) + 1
        /\ \A k \in 1..Len(final) : u[k] = final[k]
        /\ u[Len(final) + 1] = p
        /\ \A x : In(u, x) <=> In(final, x) \/ x = p
    BY <1>6, <2>1, <2>2, Appended
  <2> QED
    BY <1>3, <1>7, <2>2, <2>3
<1>9. \A q : Placed(q)' <=> Placed(q) \/ q = p
  <2>1. \A q : Placed(q)' <=> In(loaded, q) \/ In(Append(final, p), q)
    BY <1>3 DEF Placed, In
  <2> QED
    BY <1>8, <2>1 DEF Placed
<1>10. ~disposed /\ fresh = <<>>
  BY <1>3 DEF CoreInv, FreshLast, Idle
<1>11. p \in seen /\ ~Placed(p)
  BY <1>1, <1>2, <1>4 DEF CoreInv, VisitedOnce
<1>12. TypeOK'
  BY <1>3, <1>5, <1>8 DEF CoreInv, TypeOK
<1>13. SeenAre'
  <2> SUFFICES ASSUME NEW q \in seen PROVE Placed(q)' \/ Visited(q)'
    BY <1>3 DEF SeenAre
  <2>1. CASE Placed(q)
    BY <1>9, <2>1
  <2>2. CASE Visited(q)
    <3>1. PICK k \in 1..n : visiting[k].plugin = q
      BY <1>1, <2>2 DEF Visited
    <3>2. CASE k = n
      BY <1>2, <1>9, <3>1, <3>2
    <3>3. CASE k # n
      <4>1. k \in 1..l
        BY <1>4, <3>3
      <4> QED
        BY <1>5, <3>1, <4>1 DEF Visited
    <3> QED
      BY <3>2, <3>3
  <2> QED
    BY <1>10, <2>1, <2>2 DEF CoreInv, SeenAre
<1>14. Acyclic(deps)' /\ LoadedAfter' /\ LoadedOnce'
  BY <1>3 DEF CoreInv, Acyclic, LoadedAfter, LoadedOnce
<1>15. FinalOnce'
  <2>1. \A k \in 1..m : final'[k] \in seen /\ ~In(loaded, final'[k])
    BY <1>7, <1>8 DEF CoreInv, FinalOnce
  <2>2. \A k \in 1..m + 1 : final'[k] \in seen /\ ~In(loaded, final'[k])
    BY <1>7, <1>8, <1>11, <2>1 DEF Placed
  <2>3. \A j, k \in 1..m : final'[j] = final'[k] => j = k
    BY <1>7, <1>8 DEF CoreInv, FinalOnce
  <2>4. \A k \in 1..m : final'[k] # p
    <3>1. \A k \in 1..m : In(final, final[k])
      BY <1>7, CoreTypes DEF CoreInv, In
    <3> QED
      BY <1>8, <1>11, <3>1 DEF Placed
  <2>5. \A j, k \in 1..m + 1 : final'[j] = final'[k] => j = k
    BY <1>7, <1>8, <2>3, <2>4
  <2>6. \A x : In(loaded, x)' <=> In(loaded, x)
    BY <1>3 DEF In
  <2> QED
    BY <1>3, <1>8, <2>2, <2>5, <2>6 DEF FinalOnce, In
<1>16. VisitedOnce'
  <2>1. \A k \in 1..l : visiting'[k].plugin \in seen /\ ~Placed(visiting'[k].plugin) /\ visiting'[k].plugin # p
    BY <1>1, <1>2, <1>4, <1>5 DEF CoreInv, VisitedOnce
  <2>2. \A k \in 1..l : ~(In(loaded, visiting[k].plugin) \/ In(final, visiting[k].plugin))'
    <3> SUFFICES ASSUME NEW k \in 1..l, NEW q, q = visiting'[k].plugin PROVE ~(In(loaded, q) \/ In(final, q))'
      BY DEF In
    <3> QED
      BY <1>9, <2>1 DEF Placed
  <2>3. \A j, k \in 1..l : visiting'[j].plugin = visiting'[k].plugin => j = k
    BY <1>1, <1>4, <1>5 DEF CoreInv, VisitedOnce
  <2> QED
    BY <1>3, <1>5, <2>1, <2>2, <2>3 DEF VisitedOnce, Placed
<1>17. VisitsNest'
  <2>1. \A k \in 1..l : visiting'[k].todo \subseteq deps'[visiting'[k].plugin]
    BY <1>1, <1>3, <1>4, <1>5 DEF CoreInv, VisitsNest
  <2>2. \A k \in 1..l : k < l => k + 1 \in 1..l
    BY <1>4
  <2>3. \A k \in 1..l : k < l => visiting'[k + 1].plugin \in deps'[visiting'[k].plugin]
    BY <1>1, <1>3, <1>4, <1>5, <2>2 DEF CoreInv, VisitsNest
  <2> QED
    BY <1>5, <2>1, <2>3 DEF VisitsNest
<1>18. VisitsPlace'
  <2> SUFFICES ASSUME NEW k \in 1..l, NEW d \in deps[visiting[k].plugin] \ visiting[k].todo
               PROVE  Placed(d)' \/ (k < l /\ visiting'[k + 1].plugin = d)
    BY <1>3, <1>5 DEF VisitsPlace
  <2>1. Placed(d) \/ visiting[k + 1].plugin = d
    BY <1>1, <1>4 DEF CoreInv, VisitsPlace
  <2>2. CASE k < l
    <3>1. k + 1 \in 1..l
      BY <1>4, <2>2
    <3> QED
      BY <1>5, <1>9, <2>1, <2>2, <3>1
  <2>3. CASE ~(k < l)
    <3>1. k + 1 = n
      BY <1>1, <1>4, <2>3
    <3> QED
      BY <1>2, <1>9, <2>1, <3>1
  <2> QED
    BY <2>2, <2>3
<1>19. FinalAfter'
  <2>1. \A k \in 1..m : \A d \in deps[final[k]] : In(loaded, d) \/ \E j \in 1..m : j < k /\ final'[j] = d
    BY <1>7, <1>8 DEF CoreInv, FinalAfter
  <2>2. \A d \in deps[p] : In(loaded, d) \/ \E j \in 1..m : final'[j] = d
    <3>1. \A d \in deps[p] : Placed(d)
      <4>1. ~(n < n) /\ n \in 1..Len(visiting)
        BY <1>1, <1>4
      <4>2. \A d \in deps[visiting[n].plugin] \ visiting[n].todo : Placed(d) \/ (n < n /\ visiting[n + 1].plugin = d)
        BY <1>1, <4>1 DEF CoreInv, VisitsPlace
      <4> QED
        BY <1>2, <1>3, <4>1, <4>2
    <3>2. \A d : In(final, d) => \E j \in 1..m : final'[j] = d
      BY <1>7, <1>8, CoreTypes DEF CoreInv, In
    <3> QED
      BY <3>1, <3>2 DEF Placed
  <2>3. \A j \in 1..m : j \in 1..m + 1 /\ j < m + 1
    BY <1>7
  <2>4. \A k \in 1..m + 1 : \A d \in deps[final'[k]] : In(loaded, d) \/ \E j \in 1..m + 1 : j < k /\ final'[j] = d
    <3>1. ASSUME NEW k \in 1..m, NEW d \in deps[final'[k]]
          PROVE  In(loaded, d) \/ \E j \in 1..m + 1 : j < k /\ final'[j] = d
      BY <1>8, <2>1, <2>3
    <3>2. ASSUME NEW d \in deps[p] PROVE In(loaded, d) \/ \E j \in 1..m + 1 : j < m + 1 /\ final'[j] = d
      BY <2>2, <2>3
    <3> QED
      BY <1>7, <1>8, <3>1, <3>2
  <2>5. \A x : In(loaded, x)' <=> In(loaded, x)
    BY <1>3 DEF In
  <2> QED
    BY <1>3, <1>8, <2>4, <2>5 DEF FinalAfter
<1>20. FreshLast'
  <2>1. \E k \in Nat : k + Len(fresh') = Len(loaded') /\ \A i \in 1..Len(fresh') : fresh'[i] = loaded'[k + i]
    BY <1>3 DEF CoreInv, FreshLast
  <2> QED
    BY <1>3, <1>10, <2>1 DEF FreshLast
<1>21. HooksOfLoaded' /\ HooksOrdered' /\ StagesCalled'
  BY <1>3 DEF CoreInv, HooksOfLoaded, HooksOrdered, StagesCalled, In
<1> QED
  BY <1>12, <1>13, <1>14, <1>15, <1>16, <1>17, <1>18, <1>19, <1>20, <1>21 DEF CoreInv

LEMMA CoreCreates ==
  ASSUME CoreInv, Create
  PROVE  CoreInv'
<1>1. /\ visiting = <<>> /\ final # <<>> /\ loaded' = loaded \o final /\ final' = <<>>
      /\ fresh' = final /\ turn' = 0
      /\ UNCHANGED <<deps, seen, visiting, config, stage, reached, hooks, disposed>>
  BY DEF Create, Starting
<1>2. PICK m, l : m = Len(loaded) /\ l = Len(final) /\ m \in Nat /\ l \in Nat
  BY CoreTypes DEF CoreInv
<1>3. /\ loaded' \in Seq(Plugin) /\ Len(loaded') = m + l
      /\ \A k \in 1..m : loaded'[k] = loaded[k]
      /\ \A k \in 1..l : loaded'[m + k] = final[k]
      /\ \A k \in 1..m + l : k \in 1..m \/ k - m \in 1..l
      /\ \A x : In(loaded \o final, x) <=> Placed(x)
  <2>1. loaded \in Seq(Plugin) /\ final \in Seq(Plugin)
    BY DEF CoreInv, TypeOK
  <2>2. PICK u : u = loaded \o final
    OBVIOUS
  <2>3. /\ u \in Seq(Plugin) /\ Len(u) = Len(loaded) + Len(final)
        /\ \A k \in 1..Len(loaded) : u[k] = loaded[k]
        /\ \A k \in 1..Len(final) : u[Len(loaded) + k] = final[k]
        /\ \A k \in 1..Len(loaded) + Len(final) : k \in 1..Len(loaded) \/ k - Len(loaded) \in 1..Len(final)
        /\ \A x : In(u, x) <=> In(loaded, x) \/ In(final, x)
    BY <2>1, <2>2, Joined
  <2> QED
    BY <1>1, <1>2, <2>2, <2>3 DEF Placed
<1>4. \A k \in 1..m + l : k \in 1..m \/ \E i \in 1..l : k = m + i
  BY <1>2
<1>5. /\ \A k \in 1..m : k \in 1..m + l
      /\ \A i \in 1..l : m + i \in 1..m + l
      /\ \A i \in 1..l, k \in 1..m : k < m + i
      /\ \A i, j \in 1..l : j < i => m + j < m + i
  BY <1>2
<1>6. ~disposed /\ fresh = <<>> /\ Len(visiting) = 0 /\ Len(final') = 0
  BY <1>1 DEF CoreInv, FreshLast, Idle
<1>7. \A x : Placed(x)' <=> Placed(x)
  <2>1. \A x : Placed(x)' <=> In(loaded \o final, x) \/ In(<<>>, x)
    BY <1>1 DEF Placed, In
  <2>2. \A x : ~In(<<>>, x)
    BY DEF In
  <2> QED
    BY <1>3, <2>1, <2>2
<1>8. TypeOK'
  <2>1. final' \in Seq(Plugin) /\ fresh' \in Seq(Plugin) /\ turn' \in 0..stage
    BY <1>1 DEF CoreInv, TypeOK, Stage, Starting, Steady
  <2> QED
    BY <1>1, <1>3, <2>1 DEF CoreInv, TypeOK
<1>9. SeenAre'
  BY <1>1, <1>6, <1>7 DEF CoreInv, SeenAre, Visited
<1>10. LoadedOnce'
  <2>1. \A k \in 1..m : loaded'[k] \in seen
    BY <1>2, <1>3 DEF CoreInv, LoadedOnce
  <2>2. \A i \in 1..l : loaded'[m + i] \in seen /\ ~In(loaded, loaded'[m + i])
    BY <1>2, <1>3 DEF CoreInv, FinalOnce
  <2>3. \A j, k \in 1..m : loaded'[j] = loaded'[k] => j = k
    BY <1>2, <1>3 DEF CoreInv, LoadedOnce
  <2>4. \A i, j \in 1..l : loaded'[m + i] = loaded'[m + j] => i = j
    BY <1>2, <1>3 DEF CoreInv, FinalOnce
  <2>5. \A k \in 1..m : In(loaded, loaded'[k])
    BY <1>2, <1>3, CoreTypes DEF CoreInv, In
  <2>6. \A k \in 1..m + l : loaded'[k] \in seen
    BY <1>4, <2>1, <2>2
  <2>7. \A j, k \in 1..m + l : loaded'[j] = loaded'[k] => j = k
    <3> SUFFICES ASSUME NEW j \in 1..m + l, NEW k \in 1..m + l, loaded'[j] = loaded'[k] PROVE j = k
      OBVIOUS
    <3>1. CASE j \in 1..m /\ k \in 1..m
      BY <3>1, <2>3
    <3>2. CASE j \in 1..m /\ \E i \in 1..l : k = m + i
      BY <3>2, <2>2, <2>5
    <3>3. CASE k \in 1..m /\ \E i \in 1..l : j = m + i
      BY <3>3, <2>2, <2>5
    <3>4. CASE (\E i \in 1..l : j = m + i) /\ \E i \in 1..l : k = m + i
      BY <3>4, <2>4
    <3> QED
      BY <3>1, <3>2, <3>3, <3>4, <1>4
  <2> QED
    BY <1>1, <1>3, <2>6, <2>7 DEF LoadedOnce
<1>11. /\ FinalOnce' /\ VisitedOnce' /\ VisitsNest' /\ VisitsPlace' /\ FinalAfter' /\ Acyclic(deps)'
  <2>1. Len(visiting') = 0
    BY <1>1, <1>6
  <2> QED
    BY <1>1, <1>6, <2>1 DEF CoreInv, FinalOnce, VisitedOnce, VisitsNest, VisitsPlace, FinalAfter, Acyclic
<1>12. LoadedAfter'
  <2>1. \A k \in 1..m : \A d \in deps[loaded'[k]] : \E j \in 1..m : j < k /\ loaded'[j] = d
    <3>1. \A k \in 1..m : \A d \in deps[loaded[k]] : \E j \in 1..m : j < k /\ loaded[j] = d
      BY <1>2 DEF CoreInv, LoadedAfter
    <3>2. \A k \in 1..m : loaded'[k] = loaded[k]
      BY <1>3
    <3> QED
      BY <3>1, <3>2, Zenon
  <2>2. ASSUME NEW i \in 1..l, NEW d \in deps[loaded'[m + i]]
        PROVE  \E j \in 1..m + l : j < m + i /\ loaded'[j] = d
    <3>1. In(loaded, d) \/ \E j \in 1..l : j < i /\ final[j] = d
      BY <1>2, <1>3, <2>2 DEF CoreInv, FinalAfter
    <3>2. CASE In(loaded, d)
      <4>1. PICK k \in 1..m : loaded[k] = d
        BY <1>2, <3>2, CoreTypes DEF CoreInv, In
      <4> QED
        BY <4>1, <1>3, <1>5
    <3>3. CASE \E j \in 1..l : j < i /\ final[j] = d
      <4>1. PICK j \in 1..l : j < i /\ final[j] = d
        BY <3>3
      <4> QED
        BY <4>1, <1>3, <1>5
    <3> QED
      BY <3>1, <3>2, <3>3
  <2>3. \A k \in 1..m + l : \A d \in deps[loaded'[k]] : \E j \in 1..m + l : j < k /\ loaded'[j] = d
    BY <1>4, <1>5, <2>1, <2>2
  <2>4. deps' = deps /\ Len(loaded') = m + l
    BY <1>1, <1>3
  <2> QED
    BY <2>3, <2>4 DEF LoadedAfter
<1>13. FreshLast'
  <2>1. m + Len(fresh') = Len(loaded') /\ \A i \in 1..Len(fresh') : fresh'[i] = loaded'[m + i]
    BY <1>1, <1>2, <1>3, <1>5
  <2> QED
    BY <1>1, <1>2, <1>6, <2>1 DEF FreshLast
<1>14. HooksOfLoaded'
  <2> SUFFICES ASSUME NEW k \in 1..Len(hooks), NEW p, p = hooks[k][1]
               PROVE  hooks[k][2] <= stage /\ In(loaded \o final, p) /\ ~In(final, p)
    BY <1>1 DEF HooksOfLoaded, In
  <2>1. hooks[k][2] <= stage /\ In(loaded, p)
    BY <1>6 DEF CoreInv, HooksOfLoaded
  <2>2. ~In(final, p)
    BY <2>1, CoreTypes DEF CoreInv, FinalOnce, In
  <2> QED
    BY <1>3, <2>1, <2>2 DEF Placed
<1>15. HooksOrdered'
  BY <1>1 DEF CoreInv, HooksOrdered
<1>16. StagesCalled'
  <2>1. \A k \in 1..m : \A s \in reached : In(hooks, <<loaded'[k], s>>)
    <3>1. \A p : ~In(fresh, p)
      BY <1>6 DEF In
    <3> QED
      BY <1>2, <1>3, <3>1 DEF CoreInv, StagesCalled
  <2>2. \A i \in 1..l : In(final, loaded'[m + i])
    BY <1>2, <1>3, CoreTypes DEF CoreInv, In
  <2>3. \A s \in reached : s >= 0 /\ s <= stage
    BY DEF CoreInv, TypeOK, StagesCalled, Stage, Starting, Steady
  <2>4. \A k \in 1..m + l : \A s \in reached : In(hooks, <<loaded'[k], s>>) \/ (In(final, loaded'[k]) /\ s >= 0)
    BY <1>4, <2>1, <2>2, <2>3
  <2> QED
    BY <1>1, <1>3, <2>3, <2>4 DEF StagesCalled, In
<1> QED
  BY <1>8, <1>9, <1>10, <1>11, <1>12, <1>13, <1>14, <1>15, <1>16 DEF CoreInv

\* Of hooks that are added for a run of plugins at a stage, to hooks of earlier
\* stages or of plugins that depend on none of the run.
LEMMA RunsInOrder ==
  ASSUME CoreInv, NEW s \in Seq(Plugin), NEW n \in Stage, hooks' = hooks \o RunStage(s, n), deps' = deps,
         \A i, j \in 1..Len(s) : s[i] = s[j] => i = j,
         \A i, j \in 1..Len(s) : s[j] \in deps[s[i]] => j < i,
         \A k \in 1..Len(hooks) : \A i \in 1..Len(s) :
           /\ hooks[k][1] = s[i] => hooks[k][2] < n
           /\ s[i] \in deps[hooks[k][1]] => hooks[k][2] # n
  PROVE  /\ hooks' \in Seq(Plugin \X Stage)
         /\ HooksOrdered'
         /\ \A x : In(hooks, x)' <=> In(hooks, x) \/ \E i \in 1..Len(s) : x = <<s[i], n>>
         /\ \A k \in 1..Len(hooks') : (\E i \in 1..Len(hooks) : hooks'[k] = hooks[i]) \/ \E i \in 1..Len(s) : hooks'[k] = <<s[i], n>>
<1>1. PICK r : r = RunStage(s, n)
  OBVIOUS
<1>2. PICK m, l : m = Len(hooks) /\ l = Len(s) /\ m \in Nat /\ l \in Nat /\ DOMAIN hooks = 1..m
  BY CoreTypes, DomainIs DEF CoreInv
<1>3. /\ r \in Seq(Plugin \X Stage) /\ Len(r) = l
      /\ \A k \in 1..l : r[k] = <<s[k], n>>
  BY <1>1, <1>2, StageRun
<1>4. PICK h : h = hooks'
  OBVIOUS
<1>5. /\ h \in Seq(Plugin \X Stage) /\ Len(h) = m + l
      /\ \A k \in 1..m : h[k] = hooks[k]
      /\ \A k \in 1..l : h[m + k] = <<s[k], n>>
  <2>1. PICK T : T = Plugin \X Stage
    OBVIOUS
  <2>2. hooks \in Seq(T) /\ r \in Seq(T)
    BY <1>3, <2>1 DEF CoreInv, TypeOK
  <2>3. h = hooks \o r
    BY <1>1, <1>4
  <2>4. /\ h \in Seq(T) /\ Len(h) = Len(hooks) + Len(r)
        /\ \A k \in 1..Len(hooks) : h[k] = hooks[k]
        /\ \A k \in 1..Len(r) : h[Len(hooks) + k] = r[k]
    BY <2>2, <2>3, Joined
  <2> QED
    BY <1>2, <1>3, <2>1, <2>4
<1>6. /\ \A k \in 1..m + l : k \in 1..m \/ (k - m \in 1..l /\ k = m + (k - m))
      /\ \A k \in 1..m : k \in 1..m + l
      /\ \A i \in 1..l : m + i \in 1..m + l
      /\ \A i \in 1..l, k \in 1..m : ~(m + i < k)
      /\ \A i, j \in 1..l : (m + i < m + j) => i < j
      /\ \A i, j \in 1..l : i < j => i # j /\ ~(j < i)
  BY <1>2
<1>7. \A k \in 1..m + l : k \in 1..m \/ \E i \in 1..l : k = m + i
  BY <1>6
<1>8. Ordered(h, deps)
  <2> SUFFICES ASSUME NEW j \in 1..m + l, NEW k \in 1..m + l, j < k
               PROVE  \/ h[j][1] = h[k][1] /\ h[j][2] < h[k][2]
                      \/ h[j][1] # h[k][1] /\ (h[k][1] \in deps[h[j][1]] => h[j][2] # h[k][2])
    BY <1>5 DEF Ordered
  <2>1. CASE j \in 1..m /\ k \in 1..m
    <3>1. h[j] = hooks[j] /\ h[k] = hooks[k]
      BY <1>5, <2>1
    <3>2. Ordered(hooks, deps)
      BY DEF CoreInv, HooksOrdered
    <3>3. \/ hooks[j][1] = hooks[k][1] /\ hooks[j][2] < hooks[k][2]
          \/ hooks[j][1] # hooks[k][1] /\ (hooks[k][1] \in deps[hooks[j][1]] => hooks[j][2] # hooks[k][2])
      BY <1>2, <2>1, <3>2 DEF Ordered
    <3> QED
      BY <3>1, <3>3
  <2>2. CASE j \in 1..m /\ \E i \in 1..l : k = m + i
    <3>1. PICK i \in 1..l : k = m + i
      BY <2>2
    <3>2. h[j] = hooks[j] /\ h[k][1] = s[i] /\ h[k][2] = n
      BY <1>5, <2>2, <3>1
    <3> QED
      BY <1>2, <2>2, <3>2
  <2>3. CASE (\E i \in 1..l : j = m + i) /\ \E i \in 1..l : k = m + i
    <3>1. PICK i \in 1..l : j = m + i
      BY <2>3
    <3>2. PICK g \in 1..l : k = m + g
      BY <2>3
    <3>3. h[j] = <<s[i], n>> /\ h[k] = <<s[g], n>>
      BY <1>5, <3>1, <3>2
    <3>4. i < g
      BY <1>6, <3>1, <3>2
    <3>5. s[i] # s[g] /\ s[g] \notin deps[s[i]]
      BY <1>2, <1>6, <3>4
    <3> QED
      BY <3>3, <3>5
  <2>4. CASE (\E i \in 1..l : j = m + i) /\ k \in 1..m
    BY <1>6, <2>4
  <2> QED
    BY <1>7, <2>1, <2>2, <2>3, <2>4
<1>9. \A x : In(h, x) <=> In(hooks, x) \/ \E i \in 1..l : x = <<s[i], n>>
  <2>1. DOMAIN h = 1..m + l
    BY <1>5
  <2> SUFFICES ASSUME NEW x
               PROVE  (\E k \in 1..m + l : h[k] = x) <=> (\E k \in 1..m : hooks[k] = x) \/ \E i \in 1..l : x = <<s[i], n>>
    BY <1>2, <2>1 DEF In
  <2>2. ASSUME NEW k \in 1..m + l, h[k] = x PROVE (\E i \in 1..m : hooks[i] = x) \/ \E i \in 1..l : x = <<s[i], n>>
    BY <1>5, <1>7, <2>2
  <2>3. ASSUME NEW k \in 1..m, hooks[k] = x PROVE \E i \in 1..m + l : h[i] = x
    BY <1>5, <1>6, <2>3
  <2>4. ASSUME NEW i \in 1..l, x = <<s[i], n>> PROVE \E k \in 1..m + l : h[k] = x
    BY <1>5, <1>6, <2>4
  <2> QED
    BY <2>2, <2>3, <2>4
<1>10. \A k \in 1..m + l : (\E i \in 1..m : h[k] = hooks[i]) \/ \E i \in 1..l : h[k] = <<s[i], n>>
  BY <1>5, <1>7
<1>11. HooksOrdered'
  BY <1>4, <1>8 DEF HooksOrdered
<1>12. \A x : In(hooks, x)' <=> In(hooks, x) \/ \E i \in 1..l : x = <<s[i], n>>
  BY <1>4, <1>9 DEF In
<1> QED
  BY <1>2, <1>4, <1>5, <1>10, <1>11, <1>12

\* The fresh plugins have dependencies only among those created before them.
LEMMA FreshFacts ==
  ASSUME CoreInv
  PROVE  /\ \A i \in 1..Len(fresh) : fresh[i] \in Plugin /\ In(loaded, fresh[i])
         /\ \A i, j \in 1..Len(fresh) : fresh[i] = fresh[j] => i = j
         /\ \A i, j \in 1..Len(fresh) : fresh[j] \in deps[fresh[i]] => j < i
<1>1. PICK n, l, m : /\ n \in Nat /\ l = Len(fresh) /\ m = Len(loaded) /\ l \in Nat /\ m \in Nat /\ DOMAIN loaded = 1..m
                     /\ n + l = m /\ \A i \in 1..l : fresh[i] = loaded[n + i] /\ n + i \in 1..m
  <2>1. PICK n \in Nat : n + Len(fresh) = Len(loaded) /\ \A i \in 1..Len(fresh) : fresh[i] = loaded[n + i]
    BY DEF CoreInv, FreshLast
  <2>2. PICK l, m : l = Len(fresh) /\ m = Len(loaded) /\ l \in Nat /\ m \in Nat /\ DOMAIN loaded = 1..m
    BY CoreTypes DEF CoreInv
  <2>3. \A i \in 1..l : n + i \in 1..m
    BY <2>1, <2>2
  <2> QED
    BY <2>1, <2>2, <2>3
<1>2. \A i \in 1..l : fresh[i] \in Plugin /\ In(loaded, fresh[i])
  BY <1>1, CoreTypes DEF CoreInv, In
<1>3. \A i, j \in 1..l : (n + i = n + j => i = j) /\ (n + i < n + j => i < j)
  BY <1>1
<1>4. \A i, j \in 1..m : loaded[i] = loaded[j] => i = j
  BY <1>1 DEF CoreInv, LoadedOnce
<1>5. \A i, j \in 1..l : fresh[i] = fresh[j] => i = j
  BY <1>1, <1>3, <1>4
<1>6. ASSUME NEW i \in 1..l, NEW j \in 1..l, fresh[j] \in deps[fresh[i]] PROVE j < i
  <2>1. PICK a, b : a = n + i /\ b = n + j /\ a \in 1..m /\ b \in 1..m /\ fresh[i] = loaded[a] /\ fresh[j] = loaded[b]
    BY <1>1
  <2>2. PICK c \in 1..m : c < a /\ loaded[c] = loaded[b]
    <3>1. \A k \in 1..m : \A d \in deps[loaded[k]] : \E c \in 1..m : c < k /\ loaded[c] = d
      BY <1>1 DEF CoreInv, LoadedAfter
    <3>2. loaded[b] \in deps[loaded[a]]
      BY <1>6, <2>1
    <3> QED
      BY <2>1, <3>1, <3>2, Zenon
  <2>3. c = b
    BY <1>4, <2>1, <2>2
  <2> QED
    BY <1>3, <2>1, <2>2, <2>3
<1> QED
  BY <1>1, <1>2, <1>5, <1>6

\* A hook was called for no plugin that depends on a fresh one, unless it is
\* fresh itself.
LEMMA HooksBefore ==
  ASSUME CoreInv, NEW k \in 1..Len(hooks), NEW i \in 1..Len(fresh), fresh[i] \in deps[hooks[k][1]]
  PROVE  In(fresh, hooks[k][1])
<1>1. PICK n \in Nat : n + Len(fresh) = Len(loaded) /\ \A j \in 1..Len(fresh) : fresh[j] = loaded[n + j]
  BY DEF CoreInv, FreshLast
<1>2. PICK l, m : /\ l = Len(fresh) /\ m = Len(loaded) /\ l \in Nat /\ m \in Nat /\ DOMAIN loaded = 1..m
                  /\ DOMAIN fresh = 1..l
  BY CoreTypes DEF CoreInv
<1>3. ~disposed
  <2>1. l # 0
    BY <1>2
  <2>2. fresh # <<>>
    BY <1>2, <2>1
  <2> QED
    BY <2>2 DEF CoreInv, FreshLast, Idle
<1>4. PICK a \in 1..m : loaded[a] = hooks[k][1]
  BY <1>2, <1>3 DEF CoreInv, HooksOfLoaded, In
<1>5. PICK b \in 1..m : b < a /\ loaded[b] = fresh[i]
  BY <1>2, <1>4 DEF CoreInv, LoadedAfter
<1>6. PICK c : c = n + i /\ c \in 1..m /\ fresh[i] = loaded[c]
  BY <1>1, <1>2
<1>7. b = c
  BY <1>2, <1>5, <1>6 DEF CoreInv, LoadedOnce
<1>8. PICK e : e = a - n /\ e \in 1..l /\ n + e = a
  BY <1>1, <1>2, <1>5, <1>6, <1>7
<1>9. fresh[e] = loaded[a]
  BY <1>1, <1>2, <1>8
<1> QED
  BY <1>2, <1>4, <1>8, <1>9 DEF In

LEMMA CoreReplays ==
  ASSUME CoreInv, Replay
  PROVE  CoreInv'
<1>1. /\ fresh # <<>> /\ hooks' = hooks \o RunStage(fresh, turn)
      /\ \/ turn < stage /\ turn' = turn + 1 /\ fresh' = fresh
         \/ ~(turn < stage) /\ turn' = 0 /\ fresh' = <<>>
      /\ UNCHANGED <<deps, seen, visiting, final, loaded, config, stage, reached, disposed>>
  BY DEF Replay, Starting
<1>2. /\ fresh \in Seq(Plugin) /\ turn \in Nat /\ stage \in Nat /\ turn <= stage /\ turn \in Stage
      /\ stage <= 3 /\ deps' = deps
  BY <1>1 DEF CoreInv, TypeOK, Stage, Starting, Steady
<1>3. DOMAIN fresh = 1..Len(fresh)
  BY CoreTypes DEF CoreInv
<1>4. \A k \in 1..Len(hooks) : \A i \in 1..Len(fresh) :
        /\ hooks[k][1] = fresh[i] => hooks[k][2] < turn
        /\ fresh[i] \in deps[hooks[k][1]] => hooks[k][2] # turn
  <2> SUFFICES ASSUME NEW k \in 1..Len(hooks), NEW i \in 1..Len(fresh)
               PROVE  /\ hooks[k][1] = fresh[i] => hooks[k][2] < turn
                      /\ fresh[i] \in deps[hooks[k][1]] => hooks[k][2] # turn
    OBVIOUS
  <2>1. hooks[k][1] = fresh[i] => In(fresh, hooks[k][1])
    BY <1>3 DEF In
  <2>2. In(fresh, hooks[k][1]) => hooks[k][2] < turn
    BY DEF CoreInv, HooksOfLoaded
  <2>3. hooks[k][2] \in Nat
    BY CoreTypes DEF CoreInv, Stage, Starting
  <2> QED
    BY <1>2, <2>1, <2>2, <2>3, HooksBefore
<1>5. /\ hooks' \in Seq(Plugin \X Stage) /\ HooksOrdered'
      /\ \A x : In(hooks, x)' <=> In(hooks, x) \/ \E i \in 1..Len(fresh) : x = <<fresh[i], turn>>
      /\ \A k \in 1..Len(hooks') : \/ \E i \in 1..Len(hooks) : hooks'[k] = hooks[i]
                                   \/ \E i \in 1..Len(fresh) : hooks'[k] = <<fresh[i], turn>>
  BY <1>1, <1>2, <1>4, FreshFacts, RunsInOrder
<1>6. \A x : In(loaded, x)' <=> In(loaded, x)
  BY <1>1 DEF In
<1>7. visiting = <<>> /\ final = <<>> /\ ~disposed
  BY <1>1 DEF CoreInv, FreshLast, Idle
<1>8. TypeOK'
  <2>1. CASE turn < stage /\ turn' = turn + 1 /\ fresh' = fresh
    <3>1. turn' \in 0..stage
      BY <1>2, <2>1
    <3>2. fresh' \in Seq(Plugin)
      BY <1>2, <2>1
    <3> QED
      BY <1>1, <1>5, <3>1, <3>2 DEF CoreInv, TypeOK
  <2>2. CASE turn' = 0 /\ fresh' = <<>>
    <3>1. turn' \in 0..stage
      BY <1>2, <2>2
    <3>2. fresh' \in Seq(Plugin)
      BY <2>2, EmptySeq
    <3> QED
      BY <1>1, <1>5, <3>1, <3>2 DEF CoreInv, TypeOK
  <2> QED
    BY <1>1, <2>1, <2>2
<1>9. /\ Acyclic(deps)' /\ SeenAre' /\ LoadedOnce' /\ FinalOnce' /\ VisitedOnce'
      /\ VisitsNest' /\ VisitsPlace' /\ FinalAfter' /\ LoadedAfter'
  <2>1. Acyclic(deps)' /\ LoadedOnce' /\ LoadedAfter'
    <3>1. Acyclic(deps)'
      BY <1>1 DEF CoreInv, Acyclic
    <3>2. LoadedOnce'
      BY <1>1 DEF CoreInv, LoadedOnce
    <3>3. LoadedAfter'
      BY <1>1 DEF CoreInv, LoadedAfter
    <3> QED
      BY <3>1, <3>2, <3>3
  <2>2. SeenAre'
    BY <1>1 DEF CoreInv, SeenAre, Placed, Visited, In
  <2>3. FinalOnce' /\ VisitedOnce' /\ VisitsNest' /\ VisitsPlace' /\ FinalAfter'
    BY <1>1, <1>7 DEF FinalOnce, VisitedOnce, VisitsNest, VisitsPlace, FinalAfter
  <2> QED
    BY <2>1, <2>2, <2>3
<1>10. FreshLast'
  <2>1. \E n \in Nat : n + Len(fresh') = Len(loaded') /\ \A i \in 1..Len(fresh') : fresh'[i] = loaded'[n + i]
    <3>1. CASE fresh' = fresh
      BY <1>1, <3>1 DEF CoreInv, FreshLast
    <3>2. CASE fresh' = <<>>
      <4>1. Len(loaded) \in Nat /\ Len(fresh') = 0
        BY <3>2, CoreTypes DEF CoreInv
      <4>2. Len(loaded) + Len(fresh') = Len(loaded') /\ \A i \in 1..Len(fresh') : fresh'[i] = loaded'[Len(loaded) + i]
        BY <1>1, <4>1
      <4> QED
        BY <4>1, <4>2
    <3> QED
      BY <1>1, <3>1, <3>2
  <2> QED
    BY <1>1, <1>7, <2>1 DEF FreshLast
<1>11. \A x : In(fresh, x)' => In(fresh, x) /\ turn' = turn + 1 /\ turn < stage
  <2>1. CASE fresh' = fresh /\ turn' = turn + 1 /\ turn < stage
    BY <2>1 DEF In
  <2>2. CASE fresh' = <<>>
    BY <2>2 DEF In
  <2> QED
    BY <1>1, <2>1, <2>2
<1>12. HooksOfLoaded'
  <2> SUFFICES ASSUME NEW k \in 1..Len(hooks'), NEW g, g = hooks'[k]
               PROVE  g[2] <= stage /\ In(loaded, g[1]) /\ (In(fresh, g[1])' => g[2] < turn')
    BY <1>1, <1>6 DEF HooksOfLoaded, In
  <2>1. CASE \E i \in 1..Len(hooks) : g = hooks[i]
    <3>1. PICK i \in 1..Len(hooks) : g = hooks[i]
      BY <2>1
    <3>2. g[2] <= stage /\ In(loaded, g[1]) /\ (In(fresh, g[1]) => g[2] < turn) /\ g[2] \in Nat
      <4>1. hooks[i][2] \in Nat
        BY CoreTypes DEF CoreInv, Stage, Starting
      <4> QED
        BY <1>7, <3>1, <4>1 DEF CoreInv, HooksOfLoaded
    <3> QED
      BY <1>2, <1>11, <3>2
  <2>2. CASE \E i \in 1..Len(fresh) : g = <<fresh[i], turn>>
    <3>1. PICK i \in 1..Len(fresh) : g = <<fresh[i], turn>>
      BY <2>2
    <3>2. g[1] = fresh[i] /\ g[2] = turn
      BY <3>1
    <3>3. In(loaded, g[1])
      BY <3>2, FreshFacts
    <3> QED
      BY <1>2, <1>11, <3>2, <3>3
  <2> QED
    BY <1>5, <2>1, <2>2
<1>13. ASSUME NEW k \in 1..Len(loaded), NEW s \in reached
       PROVE  s <= stage /\ (In(hooks, <<loaded[k], s>>)' \/ (In(fresh, loaded[k])' /\ s >= turn'))
  <2>1. s \in Nat /\ s <= stage
    BY DEF CoreInv, StagesCalled, TypeOK, Stage, Starting
  <2>2. In(hooks, <<loaded[k], s>>) \/ (In(fresh, loaded[k]) /\ s >= turn)
    <3>1. StagesCalled
      BY DEF CoreInv
    <3> QED
      BY <3>1, Zenon DEF StagesCalled
  <2>3. PICK x : x = <<loaded[k], s>>
    OBVIOUS
  <2>4. In(hooks, <<loaded[k], s>>)' <=> In(hooks, x)'
    BY <1>1, <2>3 DEF In
  <2>5. In(fresh, loaded[k])' <=> \E i \in DOMAIN fresh' : fresh'[i] = loaded[k]
    BY <1>1 DEF In
  <2>6. CASE In(hooks, <<loaded[k], s>>)
    BY <1>5, <2>1, <2>3, <2>4, <2>6
  <2>7. CASE In(fresh, loaded[k]) /\ s = turn
    <3>1. PICK i \in 1..Len(fresh) : fresh[i] = loaded[k]
      BY <1>3, <2>7 DEF In
    <3>2. x = <<fresh[i], turn>>
      BY <2>3, <2>7, <3>1
    <3>3. In(hooks, x)'
      BY <1>5, <3>2
    <3> QED
      BY <2>1, <2>4, <3>3
  <2>8. CASE In(fresh, loaded[k]) /\ s > turn
    <3>1. turn < stage /\ fresh' = fresh /\ turn' = turn + 1
      BY <1>1, <1>2, <2>1, <2>8
    <3>2. \E i \in DOMAIN fresh' : fresh'[i] = loaded[k]
      BY <2>8, <3>1 DEF In
    <3>3. s >= turn'
      BY <1>2, <2>1, <2>8, <3>1
    <3> QED
      BY <2>1, <2>5, <3>2, <3>3
  <2>9. s > turn \/ s = turn \/ ~(s >= turn)
    BY <1>2, <2>1
  <2> QED
    BY <2>2, <2>6, <2>7, <2>8, <2>9
<1>14. StagesCalled'
  <2>1. \A s \in reached : s <= stage
    BY DEF CoreInv, StagesCalled
  <2> QED
    BY <1>1, <1>13, <2>1 DEF StagesCalled
<1> QED
  BY <1>5, <1>8, <1>9, <1>10, <1>12, <1>14 DEF CoreInv

\* A stage that is set comes after all those that were called.
LEMMA CoreSetsStage ==
  ASSUME CoreInv, NEW n \in Stage, SetStage(n)
  PROVE  CoreInv'
<1>1. /\ ~disposed /\ visiting = <<>> /\ final = <<>> /\ fresh = <<>> /\ stage < n
      /\ stage' = n /\ reached' = reached \cup {n} /\ hooks' = hooks \o RunStage(loaded, n)
      /\ UNCHANGED <<deps, seen, visiting, final, loaded, config, fresh, turn, disposed>>
  BY DEF SetStage, Idle
<1>2. /\ loaded \in Seq(Plugin) /\ stage \in Nat /\ n \in Nat /\ turn \in 0..stage /\ deps' = deps
      /\ Len(loaded) \in Nat /\ DOMAIN loaded = 1..Len(loaded) /\ reached \subseteq Stage
  BY <1>1, CoreTypes DEF CoreInv, TypeOK, Stage, Starting, Steady
<1>3. \A i, j \in 1..Len(loaded) : loaded[i] = loaded[j] => i = j
  BY DEF CoreInv, LoadedOnce
<1>4. \A i, j \in 1..Len(loaded) : loaded[j] \in deps[loaded[i]] => j < i
  <2> SUFFICES ASSUME NEW i \in 1..Len(loaded), NEW j \in 1..Len(loaded), loaded[j] \in deps[loaded[i]]
               PROVE  j < i
    OBVIOUS
  <2>1. PICK c \in 1..Len(loaded) : c < i /\ loaded[c] = loaded[j]
    BY DEF CoreInv, LoadedAfter
  <2> QED
    BY <1>3, <2>1
<1>5. \A k \in 1..Len(hooks) : hooks[k][2] \in Nat /\ hooks[k][2] < n
  <2> SUFFICES ASSUME NEW k \in 1..Len(hooks) PROVE hooks[k][2] \in Nat /\ hooks[k][2] < n
    OBVIOUS
  <2>1. hooks[k][2] \in Nat
    BY CoreTypes DEF CoreInv, Stage, Starting
  <2>2. hooks[k][2] <= stage
    BY DEF CoreInv, HooksOfLoaded
  <2> QED
    BY <1>1, <1>2, <2>1, <2>2
<1>6. \A k \in 1..Len(hooks) : \A i \in 1..Len(loaded) :
        /\ hooks[k][1] = loaded[i] => hooks[k][2] < n
        /\ loaded[i] \in deps[hooks[k][1]] => hooks[k][2] # n
  BY <1>2, <1>5
<1>7. /\ hooks' \in Seq(Plugin \X Stage) /\ HooksOrdered'
      /\ \A x : In(hooks, x)' <=> In(hooks, x) \/ \E i \in 1..Len(loaded) : x = <<loaded[i], n>>
      /\ \A k \in 1..Len(hooks') : \/ \E i \in 1..Len(hooks) : hooks'[k] = hooks[i]
                                   \/ \E i \in 1..Len(loaded) : hooks'[k] = <<loaded[i], n>>
  BY <1>1, <1>2, <1>3, <1>4, <1>6, RunsInOrder
<1>8. TypeOK'
  <2>1. turn' \in 0..stage' /\ stage' \in reached' /\ reached' \subseteq Stage
    BY <1>1, <1>2
  <2> QED
    BY <1>1, <1>7, <2>1 DEF CoreInv, TypeOK
<1>9. /\ Acyclic(deps)' /\ SeenAre' /\ LoadedOnce' /\ FinalOnce' /\ VisitedOnce'
      /\ VisitsNest' /\ VisitsPlace' /\ FinalAfter' /\ LoadedAfter' /\ FreshLast'
  <2>1. Acyclic(deps)' /\ LoadedOnce' /\ LoadedAfter'
    <3>1. Acyclic(deps)'
      BY <1>1 DEF CoreInv, Acyclic
    <3>2. LoadedOnce'
      BY <1>1 DEF CoreInv, LoadedOnce
    <3>3. LoadedAfter'
      BY <1>1 DEF CoreInv, LoadedAfter
    <3> QED
      BY <3>1, <3>2, <3>3
  <2>2. SeenAre'
    BY <1>1 DEF CoreInv, SeenAre, Placed, Visited, In
  <2>3. FinalOnce' /\ VisitedOnce' /\ VisitsNest' /\ VisitsPlace' /\ FinalAfter'
    BY <1>1 DEF FinalOnce, VisitedOnce, VisitsNest, VisitsPlace, FinalAfter
  <2>4. FreshLast'
    BY <1>1 DEF CoreInv, FreshLast, Idle
  <2> QED
    BY <2>1, <2>2, <2>3, <2>4
<1>10. HooksOfLoaded'
  <2> SUFFICES ASSUME NEW k \in 1..Len(hooks'), NEW g, g = hooks'[k]
               PROVE  g[2] <= n /\ In(loaded, g[1]) /\ ~In(fresh, g[1])
    BY <1>1 DEF HooksOfLoaded, In
  <2>1. CASE \E i \in 1..Len(hooks) : g = hooks[i]
    <3>1. PICK i \in 1..Len(hooks) : g = hooks[i]
      BY <2>1
    <3>2. In(loaded, g[1])
      BY <1>1, <3>1 DEF CoreInv, HooksOfLoaded
    <3> QED
      BY <1>1, <1>2, <1>5, <3>1, <3>2 DEF In
  <2>2. CASE \E i \in 1..Len(loaded) : g = <<loaded[i], n>>
    <3>1. PICK i \in 1..Len(loaded) : g = <<loaded[i], n>>
      BY <2>2
    <3>2. g[1] = loaded[i] /\ g[2] = n
      BY <3>1
    <3>3. In(loaded, g[1])
      <4>1. i \in DOMAIN loaded /\ loaded[i] = g[1]
        BY <1>2, <3>2
      <4> QED
        BY <4>1 DEF In
    <3>4. ~In(fresh, g[1])
      BY <1>1 DEF In
    <3> QED
      BY <1>2, <3>2, <3>3, <3>4
  <2> QED
    BY <1>7, <2>1, <2>2
<1>11. ASSUME NEW k \in 1..Len(loaded), NEW s \in reached \cup {n}
       PROVE  In(hooks, <<loaded[k], s>>)'
  <2>1. PICK x : x = <<loaded[k], s>>
    OBVIOUS
  <2>2. (In(hooks, <<loaded[k], s>>)' <=> In(hooks, x)') /\ (In(hooks, <<loaded[k], s>>) <=> In(hooks, x))
    BY <1>1, <2>1 DEF In
  <2>3. CASE s = n
    <3>1. In(hooks, x)'
      BY <1>7, <2>1, <2>3
    <3> QED
      BY <1>2, <2>2, <2>3, <3>1
  <2>4. CASE s \in reached
    <3>2. StagesCalled
      BY DEF CoreInv
    <3>3. In(hooks, <<loaded[k], s>>) \/ In(fresh, loaded[k])
      BY <2>4, <3>2, Zenon DEF StagesCalled
    <3>4. ~In(fresh, loaded[k])
      BY <1>1 DEF In
    <3>5. In(hooks, x)'
      BY <1>7, <2>2, <3>3, <3>4
    <3> QED
      BY <2>2, <3>5
  <2> QED
    BY <1>1, <2>3, <2>4
<1>12. \A s \in reached \cup {n} : s <= n
  <2>1. \A s \in reached : s <= stage /\ s \in Nat
    BY <1>2 DEF CoreInv, StagesCalled, Stage, Starting
  <2> QED
    BY <1>1, <1>2, <2>1
<1>13. StagesCalled'
  BY <1>1, <1>11, <1>12 DEF StagesCalled
<1> QED
  BY <1>7, <1>8, <1>9, <1>10, <1>13 DEF CoreInv

LEMMA CoreDisposes ==
  ASSUME CoreInv, CoreDispose
  PROVE  CoreInv'
<1>1. /\ visiting = <<>> /\ final = <<>> /\ fresh = <<>> /\ disposed' = TRUE /\ loaded' = <<>> /\ Len(<<>>) = 0
      /\ UNCHANGED <<deps, seen, visiting, final, config, fresh, turn, stage, reached, hooks>>
  BY DEF CoreDispose, Idle
<1>2. loaded' \in Seq(Plugin) /\ Len(loaded') = 0 /\ Len(fresh') = 0
  BY <1>1, EmptySeq
<1>3. TypeOK' /\ Acyclic(deps)'
  BY <1>1, <1>2 DEF CoreInv, TypeOK, Acyclic
<1>4. SeenAre' /\ LoadedOnce' /\ LoadedAfter'
  BY <1>1, <1>2 DEF SeenAre, LoadedOnce, LoadedAfter
<1>5. FinalOnce' /\ VisitedOnce' /\ VisitsNest' /\ VisitsPlace' /\ FinalAfter'
  BY <1>1 DEF FinalOnce, VisitedOnce, VisitsNest, VisitsPlace, FinalAfter
<1>6. FreshLast'
  <2>1. 0 + Len(fresh') = Len(loaded') /\ \A i \in 1..Len(fresh') : fresh'[i] = loaded'[0 + i]
    BY <1>2
  <2> QED
    BY <1>1, <2>1 DEF FreshLast, Idle
<1>7. HooksOfLoaded' /\ HooksOrdered'
  BY <1>1 DEF CoreInv, HooksOfLoaded, HooksOrdered, In
<1>8. StagesCalled'
  BY <1>1, <1>2 DEF CoreInv, StagesCalled
<1> QED
  BY <1>3, <1>4, <1>5, <1>6, <1>7, <1>8 DEF CoreInv

LEMMA CoreNext ==
  ASSUME CoreInv, Next
  PROVE  CoreInv'
<1>1. Ready \in Stage /\ Steady \in Stage
  BY DEF Ready, Steady, Stage, Starting
<1>2. ASSUME NEW p \in Plugin, Register(p) PROVE CoreInv'
  BY <1>2, CoreRegisters
<1>3. ASSUME NEW p \in Plugin, Descend(p) PROVE CoreInv'
  BY <1>3, CoreDescends
<1>4. CASE Leave
  BY <1>4, CoreLeaves
<1>5. CASE Create
  BY <1>5, CoreCreates
<1>6. CASE Replay
  BY <1>6, CoreReplays
<1>7. CASE CoreStart
  BY <1>1, <1>7, CoreSetsStage DEF CoreStart
<1>8. CASE CoreReady
  BY <1>1, <1>8, CoreSetsStage DEF CoreReady
<1>9. CASE CoreDispose
  BY <1>9, CoreDisposes
<1> QED
  BY <1>2, <1>3, <1>4, <1>5, <1>6, <1>7, <1>8, <1>9 DEF Next

\* What the conjuncts of CoreInv say of the store and the hooks is what
\* HooksInOrder says of them.
LEMMA HooksHold ==
  ASSUME CoreInv
  PROVE  HooksInOrder
<1>1. DOMAIN hooks = 1..Len(hooks) /\ DOMAIN loaded = 1..Len(loaded)
  BY CoreTypes DEF CoreInv
<1>2. Ordered(hooks, deps)
  BY DEF CoreInv, HooksOrdered
<1>3. ASSUME NEW k \in 1..Len(loaded), fresh = <<>>, NEW s \in reached
      PROVE  CalledAt(loaded[k], s) # {}
  <2>1. ~In(fresh, loaded[k])
    BY <1>3 DEF In
  <2>2. StagesCalled
    BY DEF CoreInv
  <2>3. In(hooks, <<loaded[k], s>>)
    BY <1>3, <2>1, <2>2, Zenon DEF StagesCalled
  <2> QED
    BY <2>3 DEF In, CalledAt
<1>4. \A j, k \in 1..Len(loaded) : loaded[j] = loaded[k] => j = k
  BY DEF CoreInv, LoadedOnce
<1>5. \A k \in 1..Len(loaded) : \A d \in deps[loaded[k]] : \E j \in 1..Len(loaded) : j < k /\ loaded[j] = d
  BY DEF CoreInv, LoadedAfter
<1> QED
  BY <1>1, <1>2, <1>3, <1>4, <1>5 DEF HooksInOrder, Ordered

LEMMA CoreStep == CoreInv /\ [Next]_vars => CoreInv'
<1>1. CoreInv /\ UNCHANGED vars => CoreInv'
  <2> SUFFICES ASSUME CoreInv, UNCHANGED vars PROVE CoreInv'
    OBVIOUS
  <2>1. TypeOK'
    BY DEF vars, CoreInv, TypeOK
  <2>0. Acyclic(deps)'
    BY DEF vars, CoreInv, Acyclic
  <2>2. SeenAre' /\ LoadedOnce' /\ FinalOnce' /\ VisitedOnce'
    BY DEF vars, CoreInv, SeenAre, LoadedOnce, FinalOnce, VisitedOnce, Placed, Visited, In
  <2>3. VisitsNest' /\ VisitsPlace'
    BY DEF vars, CoreInv, VisitsNest, VisitsPlace, Placed, In
  <2>4. FinalAfter' /\ LoadedAfter'
    BY DEF vars, CoreInv, FinalAfter, LoadedAfter, In
  <2>5. FreshLast' /\ HooksOfLoaded' /\ HooksOrdered' /\ StagesCalled'
    BY DEF vars, CoreInv, FreshLast, HooksOfLoaded, HooksOrdered, StagesCalled, Idle, In
  <2> QED
    BY <2>0, <2>1, <2>2, <2>3, <2>4, <2>5 DEF CoreInv
<1> QED
  BY <1>1, CoreNext

LEMMA CoreInvariant == Spec => []CoreInv
BY Starts, CoreStep, PTL DEF Spec

-----------------------------------------------------------------------------
\* Type correctness of the plugin core.
THEOREM PluginTypes == Spec => []TypeOK
<1>1. CoreInv => TypeOK
  BY DEF CoreInv
<1> QED
  BY CoreInvariant, <1>1, PTL

\* A plugin is created once and after all it depends on, and goes through every
\* stage the lifecycle was set to, each once, in order, and after all it depends
\* on: whatever the dependencies, and however late and in whatever order plugins
\* are registered.
THEOREM PluginsHookInOrder == Spec => []HooksInOrder
BY CoreInvariant, HooksHold, PTL
=============================================================================
