------------------------------ MODULE UserList ------------------------------
(***************************************************************************)
(* The page that lists the users (admin-ui, UsersPage): it asks for the    *)
(* view chosen by page and search, shows whatever answer comes, and asks   *)
(* again once a user was disabled or enabled.  Answers come in any order;  *)
(* nothing ties one to what is on the screen by then.                      *)
(***************************************************************************)
EXTENDS Naturals, Sequences

CONSTANTS
  User,
  View,    \* pairs of a page and a search
  Action,  \* actions on rows under way at a time
  MaxFetch \* BOUND: fetches under way at a time

VARIABLES
  active, \* users.is_active
  view,   \* the view chosen
  data,   \* the answer on the screen
  fetch,  \* fetches under way, in the order they were started
  toggle  \* the actions under way on rows

vars == <<active, view, data, fetch, toggle>>

Rest == [at |-> "rest"]

\* History in an answer: `again`, it was asked for by an action; `late`, a later
\* fetch was answered before it or failed, or it was read before a change that
\* the page does not know of.
Asked(v, again) ==
  [view |-> v, again |-> again, at |-> "sent", active |-> [u \in User |-> TRUE], late |-> FALSE]

Init ==
  /\ active = [u \in User |-> TRUE] /\ view \in View
  /\ data = [Asked(view, FALSE) EXCEPT !.late = TRUE]
  /\ fetch = <<Asked(view, FALSE)>> /\ toggle = [q \in Action |-> Rest]

\* Fault variant: the effect does not depend on the view.
FetchedOnce(v) == fetch

\* The effect on a change of page or query.
Fetched(v) == Append(fetch, Asked(v, FALSE))

\* Previous, Next, or the pause after typing, which also goes to the first page.
Choose(v) ==
  /\ v # view /\ Len(fetch) < MaxFetch
  /\ view' = v /\ fetch' = Fetched(v)
  /\ UNCHANGED <<active, data, toggle>>

\* listUsers: what it reads goes with the answer.
ReadList(k) ==
  /\ fetch[k].at = "sent"
  /\ fetch' = [fetch EXCEPT ![k].at = "read", ![k].active = active]
  /\ UNCHANGED <<active, view, data, toggle>>

\* The fetches left once the k-th has ended: the earlier ones are late.
Ended(k) ==
  [j \in 1..Len(fetch) - 1 |-> IF j < k THEN [fetch[j] EXCEPT !.late = TRUE] ELSE fetch[j + 1]]

\* then(setData).
Show(k) ==
  /\ fetch[k].at = "read"
  /\ data' = fetch[k] /\ fetch' = Ended(k)
  /\ UNCHANGED <<active, view, toggle>>

\* Nobody catches it: the screen stays.
FetchFails(k) ==
  /\ data' = [data EXCEPT !.late = TRUE] /\ fetch' = Ended(k)
  /\ UNCHANGED <<active, view, toggle>>

(***************************************************************************)
(* handleToggleStatus: the opposite of what the row says, and then the     *)
(* view of the moment the button was pressed once more.  A row locks its   *)
(* button, but one that left the screen and came back has lost the lock.   *)
(***************************************************************************)
Toggle(q, u) ==
  /\ toggle[q] = Rest /\ data.at = "read"
  /\ toggle' = [toggle EXCEPT ![q] = [at |-> "sent", user |-> u, to |-> ~data.active[u], view |-> view]]
  /\ UNCHANGED <<active, view, data, fetch>>

\* setUserActive.
SetActive(q) ==
  /\ toggle[q].at = "sent"
  /\ active' = [active EXCEPT ![toggle[q].user] = toggle[q].to]
  /\ toggle' = [toggle EXCEPT ![q].at = "done"]
  /\ UNCHANGED <<view, data, fetch>>

\* Fault variant: a done action asks for nothing.
RefetchedNever(q) == fetch

Refetched(q) == Append(fetch, Asked(toggle[q].view, TRUE))

Toggled(q) ==
  /\ toggle[q].at = "done" /\ Len(fetch) < MaxFetch
  /\ fetch' = Refetched(q) /\ toggle' = [toggle EXCEPT ![q] = Rest]
  /\ UNCHANGED <<active, view, data>>

\* A change the page is not told of: what was read before is late.
Unseen ==
  /\ data' = [data EXCEPT !.late = TRUE]
  /\ fetch' = [k \in DOMAIN fetch |-> [fetch[k] EXCEPT !.late = @ \/ fetch[k].at = "read"]]

\* The action fails before or after its first statement, or its answer is lost.
ToggleFails(q) ==
  /\ toggle[q] # Rest
  /\ toggle' = [toggle EXCEPT ![q] = Rest]
  /\ Unseen
  /\ UNCHANGED <<active, view>>

\* EXTERNAL: another administrator.
Elsewhere(u) ==
  /\ active' = [active EXCEPT ![u] = ~@]
  /\ Unseen
  /\ UNCHANGED <<view, toggle>>

Next ==
  \/ \E v \in View : Choose(v)
  \/ \E k \in DOMAIN fetch : ReadList(k) \/ Show(k) \/ FetchFails(k)
  \/ \E q \in Action : (\E u \in User : Toggle(q, u)) \/ SetActive(q) \/ Toggled(q) \/ ToggleFails(q)
  \/ \E u \in User : Elsewhere(u)

Spec == Init /\ [][Next]_vars

-----------------------------------------------------------------------------
Answer == [view : View, again : BOOLEAN, at : {"sent", "read"}, active : [User -> BOOLEAN],
           late : BOOLEAN]

TypeOK ==
  /\ active \in [User -> BOOLEAN] /\ view \in View /\ data \in Answer
  /\ Len(fetch) <= MaxFetch /\ \A k \in DOMAIN fetch : fetch[k] \in Answer
  /\ toggle \in [Action -> {Rest} \cup [at : {"sent", "done"}, user : User, to : BOOLEAN, view : View]]

\* Once the page is at rest it shows the view chosen and the users as they are,
\* its own actions included, whatever order answers came in, but for: an earlier
\* fetch was answered last; an action ended after the view was changed and asked
\* for the earlier one; a request failed; another administrator was at it.
ScreenFollows ==
  fetch = <<>> /\ (\A q \in Action : toggle[q] = Rest) =>
    \/ data.late
    \/ data.active = active /\ (data.view = view \/ data.again)
=============================================================================
