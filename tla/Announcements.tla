---------------------------- MODULE Announcements ----------------------------
(***************************************************************************)
(* The discovery list of shared sessions: announcement.service.ts over     *)
(* multiplayer_announcements.  A device announces its session again and    *)
(* again as a heartbeat and retracts it at the end; each server stamps and *)
(* judges rows by its own clock.  Announce and retract are requests of     *)
(* their own: the stamp is taken when one arrives, and the statements reach *)
(* the database in any order.  deviceClock is stored and never compared.   *)
(***************************************************************************)
EXTENDS Integers, FiniteSets

CONSTANTS
  Device,   \* devices, with one session each
  Inst,     \* server processes
  Ahead,    \* EXTERNAL: how far the clock of each server is ahead
  Window,   \* the freshness window
  MaxTime,  \* BOUND: time
  MaxWrite, \* BOUND: requests under way at a time
  None

VARIABLES
  now,       \* EXTERNAL: time
  announcement, \* multiplayer_announcements: announced_at and last_heartbeat_at
  write,     \* requests whose statement has not run
  heard,     \* history: per device, when its newest written heartbeat arrived
  overtaken, \* history: devices whose newest heartbeat an older one overwrote
  behind,    \* history: heartbeats under way when a retraction of their device arrived
  ended,     \* history: devices a retraction of which has run and no later heartbeat since
  revived    \* history: devices whose row a heartbeat behind a retraction wrote

heartbeatVars  == <<heard, overtaken>>
retractionVars == <<behind, ended, revived>>
vars == <<now, announcement, write, heartbeatVars, retractionVars>>

Clock(i) == now + Ahead[i]
Write == [dev: Device, op: {"upsert", "retract"}, stamp: Int, at: 0..MaxTime]

Init ==
  /\ now = 0 /\ write = {} /\ overtaken = {}
  /\ announcement = [d \in Device |-> None]
  /\ heard = [d \in Device |-> None]
  /\ behind = {} /\ ended = {} /\ revived = {}

Tick ==
  /\ now < MaxTime
  /\ now' = now + 1
  /\ UNCHANGED <<announcement, write, heartbeatVars, retractionVars>>

\* POST and DELETE of an announcement reach server i.
Arrive(d, i, op) ==
  /\ Cardinality(write) < MaxWrite
  /\ write' = write \cup {[dev |-> d, op |-> op, stamp |-> Clock(i), at |-> now]}
  /\ behind' = IF op = "retract" THEN behind \cup {w \in write : w.dev = d /\ w.op = "upsert"}
                                  ELSE behind
  /\ UNCHANGED <<now, announcement, heartbeatVars, ended, revived>>

\* A heartbeat that arrived after w is already written.
Overtaken(w) == heard[w.dev] # None /\ heard[w.dev] > w.at

Upsert(w) ==
  LET d == w.dev IN
  /\ w \in write /\ w.op = "upsert"
  /\ announcement' = [announcement EXCEPT ![d] = IF @ = None THEN [announced |-> w.stamp, beat |-> w.stamp]
                                          ELSE [@ EXCEPT !.beat = w.stamp]]
  /\ heard' = [heard EXCEPT ![d] = IF @ = None \/ @ < w.at THEN w.at ELSE @]
  /\ overtaken' = IF Overtaken(w) THEN overtaken \cup {d} ELSE overtaken \ {d}
  /\ ended' = IF w \in behind THEN ended ELSE ended \ {d}
  /\ revived' = IF w \in behind THEN revived \cup {d} ELSE revived \ {d}
  /\ behind' = behind \ {w}
  /\ write' = write \ {w}
  /\ UNCHANGED now

Delete(w) ==
  /\ w \in write /\ w.op = "retract"
  /\ announcement' = [announcement EXCEPT ![w.dev] = None]
  /\ heard' = [heard EXCEPT ![w.dev] = None]
  /\ overtaken' = overtaken \ {w.dev}
  /\ ended' = ended \cup {w.dev} /\ revived' = revived \ {w.dev}
  /\ write' = write \ {w}
  /\ UNCHANGED <<now, behind>>

\* Fault variant: a row's age is counted from its first announcement.
StaleSinceAnnounced(d, i) == announcement[d].announced < Clock(i) - Window

\* sweepStale and listFresh agree on when a heartbeat is too old.
Stale(d, i) == announcement[d].beat < Clock(i) - Window

Sweep(i) ==
  /\ announcement' = [d \in Device |-> IF announcement[d] # None /\ Stale(d, i) THEN None ELSE announcement[d]]
  /\ UNCHANGED <<now, write, heartbeatVars, retractionVars>>

Next ==
  \/ Tick
  \/ \E d \in Device, i \in Inst : Arrive(d, i, "upsert") \/ Arrive(d, i, "retract")
  \/ \E w \in write : Upsert(w) \/ Delete(w)
  \/ \E i \in Inst : Sweep(i)

Spec == Init /\ [][Next]_vars

-----------------------------------------------------------------------------
TypeOK ==
  /\ now \in 0..MaxTime /\ write \subseteq Write /\ overtaken \subseteq Device
  /\ announcement \in [Device -> {None} \cup [announced: Int, beat: Int]]
  /\ heard \in [Device -> {None} \cup 0..MaxTime]
  /\ behind \subseteq Write /\ ended \subseteq Device /\ revived \subseteq Device

\* The list server i answers.
Listed(i, d) == announcement[d] # None /\ ~Stale(d, i)

\* The list follows the heartbeats, as nearly as the clocks agree.  A listed
\* session has sent one within the window, by the clocks of the server that
\* stamped it and of the one that lists it.  It was not retracted since, unless
\* a heartbeat was under way when the retraction arrived and was written after it
\* (revived): nothing compares the two.  And a session that keeps sending
\* heartbeats in time, by any two clocks, is neither missing from a server's list
\* nor swept, unless an older heartbeat was written over a newer one (overtaken).
Within(d, i, j) == now - heard[d] <= Window + (Ahead[i] - Ahead[j])

DiscoveryFollowsHeartbeats ==
  \A d \in Device, i \in Inst :
    /\ Listed(i, d) => heard[d] # None /\ (\E j \in Inst : Within(d, j, i))
                       /\ (d \notin ended \/ d \in revived)
    /\ heard[d] # None /\ (\A j, k \in Inst : Within(d, j, k)) /\ d \notin overtaken => Listed(i, d)
=============================================================================
