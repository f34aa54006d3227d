----------------------------- MODULE UserDetail -----------------------------
(***************************************************************************)
(* The page of one user (admin-ui, UserDetailPage): it reads a user in     *)
(* four requests at once, shows them when all are there, and after an      *)
(* action changes what it shows by itself instead of reading again.  The   *)
(* address can change to another user while the page stays; requests and   *)
(* actions under way then end on what is shown by that time.               *)
(* Of a user the page shows three facts, true in the beginning: may sign   *)
(* in, has devices, has sync data (the identities never change).           *)
(***************************************************************************)
EXTENDS Naturals, Sequences

CONSTANTS
  User,
  MaxFetch, \* BOUND: changes of the address, and fetches at a time
  MaxDeed,  \* BOUND: actions, here and elsewhere
  None

VARIABLES
  record,  \* what the database has of each user
  address, \* the id in the address
  visits,  \* how often the address has changed
  shown,   \* user, devices and syncStats, the state of the page
  loading, \* the skeleton is shown instead
  gather,  \* the reads of fetchAll under way
  deeds,   \* actions under way, by their number
  acted    \* actions there have been, here and elsewhere

vars == <<record, address, visits, shown, loading, gather, deeds, acted>>

Fact == {"active", "devices", "sync"}
Card == {"header", "sync", "devices"}

\* An action under way.  `half`: a deactivation whose devices are yet to be revoked;
\* `stray`: the screen it began on is gone.
Deed == [card : Card, on : User, fact : Fact, to : BOOLEAN, at : {"sent", "half", "done"}, stray : BOOLEAN]

\* fetchAll: `late` is history, something it has read has changed since.
FetchAll(u) == [of |-> u, got |-> [f \in Fact |-> None], late |-> FALSE]

Init ==
  /\ record = [u \in User |-> [f \in Fact |-> TRUE]]
  /\ address \in User /\ visits = 0 /\ loading = TRUE
  \* History in what is shown: `late` as above, or a request failed; `kept`, it
  \* was disabled here with devices on the screen.
  /\ shown = [of |-> None, got |-> [f \in Fact |-> FALSE], late |-> TRUE, kept |-> FALSE]
  /\ gather = <<FetchAll(address)>> /\ deeds = [q \in 1..MaxDeed |-> None] /\ acted = 0

\* The effect of a change of the address; the cards go with what they were doing.
Visit(u) ==
  /\ u # address /\ visits + 1 < MaxFetch
  /\ address' = u /\ visits' = visits + 1 /\ loading' = TRUE
  /\ gather' = Append(gather, FetchAll(u))
  /\ deeds' = [q \in DOMAIN deeds |-> IF deeds[q] = None THEN None ELSE [deeds[q] EXCEPT !.stray = TRUE]]
  /\ UNCHANGED <<record, shown, acted>>

\* getUserDetail, getUserDevices and getUserSyncStats, each when it is served.
ReadFact(k, f) ==
  /\ gather[k].got[f] = None
  /\ gather' = [gather EXCEPT ![k].got[f] = record[gather[k].of][f]]
  /\ UNCHANGED <<record, address, visits, shown, loading, deeds, acted>>

\* History: the fetches left once the k-th has ended, the earlier ones late.
Ended(k) ==
  [j \in 1..Len(gather) - 1 |-> IF j < k THEN [gather[j] EXCEPT !.late = TRUE] ELSE gather[j + 1]]

ShowAll(k) ==
  /\ \A f \in Fact : gather[k].got[f] # None
  /\ shown' = [of |-> gather[k].of, got |-> gather[k].got, late |-> gather[k].late, kept |-> FALSE]
  /\ loading' = FALSE /\ gather' = Ended(k)
  /\ deeds' = [q \in DOMAIN deeds |-> IF deeds[q] = None THEN None ELSE [deeds[q] EXCEPT !.stray = TRUE]]
  /\ UNCHANGED <<record, address, visits, acted>>

\* One of the four fails: nobody catches it, and the page stays as it was.
FetchFails(k) ==
  /\ loading' = FALSE /\ gather' = Ended(k) /\ shown' = [shown EXCEPT !.late = TRUE]
  /\ UNCHANGED <<record, address, visits, deeds, acted>>

-----------------------------------------------------------------------------
\* Actions.  Each card does one at a time, unless it was made anew meanwhile.

Busy(card) == \E q \in DOMAIN deeds : deeds[q] # None /\ deeds[q].card = card /\ ~deeds[q].stray

\* What a button of a card does to the user it shows: which fact, to what.
Does(card) ==
  {act \in [fact : Fact, to : BOOLEAN] :
    \/ card = "header" /\ act.fact = "active" /\ act.to = ~shown.got["active"]
    \/ act.fact = (IF card = "header" THEN "devices" ELSE card) /\ ~act.to /\ shown.got[act.fact]}

Confirm(card, act) ==
  /\ shown.of # None /\ ~loading /\ acted < MaxDeed /\ ~Busy(card) /\ act \in Does(card)
  /\ acted' = acted + 1
  /\ deeds' = [deeds EXCEPT ![acted + 1] =
                [card |-> card, on |-> shown.of, fact |-> act.fact, to |-> act.to, at |-> "sent", stray |-> FALSE]]
  /\ UNCHANGED <<record, address, visits, shown, loading, gather>>

\* History: what was read of a user's fact before it changes is late.
Overtaken(u, f) ==
  gather' = [k \in DOMAIN gather |-> [gather[k] EXCEPT !.late = @ \/ (gather[k].of = u /\ gather[k].got[f] # None)]]

\* setUserActive (its first statement), revokeDevice, revokeAllDevices and
\* clearUserSyncResource.
Write(q) ==
  LET d == deeds[q] IN
  /\ d # None /\ d.at = "sent"
  /\ record' = [record EXCEPT ![d.on][d.fact] = d.to]
  /\ deeds' = [deeds EXCEPT ![q].at = IF d.fact = "active" /\ ~d.to THEN "half" ELSE "done"]
  /\ Overtaken(d.on, d.fact)
  /\ UNCHANGED <<address, visits, shown, loading, acted>>

\* setUserActive goes on to revoke the devices of who is disabled.
RevokeAll(q) ==
  /\ deeds[q] # None /\ deeds[q].at = "half"
  /\ record' = [record EXCEPT ![deeds[q].on]["devices"] = FALSE]
  /\ deeds' = [deeds EXCEPT ![q].at = "done"]
  /\ Overtaken(deeds[q].on, "devices")
  /\ UNCHANGED <<address, visits, shown, loading, acted>>

\* Fault variant: the page asks for the state it wants once more.
Unaltered(d) == shown.got

\* setUser, setDevices and setSyncStats change whatever is shown by then.
Altered(d) == [shown.got EXCEPT ![d.fact] = IF d.fact = "active" THEN ~@ ELSE FALSE]

Alter(q) ==
  LET d == deeds[q] IN
  /\ d # None /\ d.at = "done"
  /\ shown' = IF shown.of = None THEN shown
              ELSE [shown EXCEPT !.got = Altered(d), !.late = @ \/ d.stray,
                                 !.kept = @ \/ (d.fact = "active" /\ ~d.to)]
  /\ deeds' = [deeds EXCEPT ![q] = None]
  /\ UNCHANGED <<record, address, visits, loading, gather, acted>>

\* The request is refused or lost, on its way there or back: nothing is shown.
DeedFails(q) ==
  /\ deeds[q] # None
  /\ deeds' = [deeds EXCEPT ![q] = None] /\ shown' = [shown EXCEPT !.late = TRUE]
  /\ UNCHANGED <<record, address, visits, loading, gather, acted>>

\* EXTERNAL: the user signs in or pushes, or another administrator acts.
Elsewhere(u, f) ==
  /\ acted < MaxDeed
  /\ acted' = acted + 1
  /\ record' = [record EXCEPT ![u][f] = ~@]
  /\ Overtaken(u, f)
  /\ shown' = [shown EXCEPT !.late = @ \/ shown.of = u]
  /\ UNCHANGED <<address, visits, loading, deeds>>

Next ==
  \/ \E u \in User : Visit(u) \/ \E f \in Fact : Elsewhere(u, f)
  \/ \E k \in DOMAIN gather : ShowAll(k) \/ FetchFails(k) \/ \E f \in Fact : ReadFact(k, f)
  \/ \E card \in Card : \E act \in Does(card) : Confirm(card, act)
  \/ \E q \in DOMAIN deeds : Write(q) \/ RevokeAll(q) \/ Alter(q) \/ DeedFails(q)

-----------------------------------------------------------------------------
TypeOK ==
  /\ record \in [User -> [Fact -> BOOLEAN]] /\ address \in User /\ loading \in BOOLEAN
  /\ shown \in [of : User \cup {None}, got : [Fact -> BOOLEAN], late : BOOLEAN, kept : BOOLEAN]
  /\ Len(gather) <= MaxFetch /\ (gather = <<>> => ~loading)
  /\ deeds \in [1..MaxDeed -> Deed \cup {None}] /\ acted \in 0..MaxDeed

\* When nothing is under way, the page shows the user of its address as the
\* database has it, though after an action it never reads again, but for: the
\* devices of a user it disabled, which are gone; a change elsewhere, a request
\* that failed, and an address that changed before its requests had ended.
DetailFollows ==
  gather = <<>> /\ (\A q \in DOMAIN deeds : deeds[q] = None) /\ ~shown.late =>
    /\ shown.of = address
    /\ \A f \in Fact : shown.got[f] = record[address][f]
                       \/ (shown.kept /\ f = "devices" /\ ~record[address][f])
=============================================================================
