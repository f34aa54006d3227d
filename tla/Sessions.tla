------------------------------ MODULE Sessions ------------------------------
(***************************************************************************)
(* What the sessions of one account promise, with no requests, tokens,     *)
(* transactions or locks.  A session is opened once, by who knows the      *)
(* password, and once closed it is not opened again; a password change     *)
(* closes all others in one step, a deactivation all there are.            *)
(* A session that overlapping requests have got hold of is loose: nothing  *)
(* is promised of it any more.  AuthSessions implements this.              *)
(***************************************************************************)
EXTENDS Naturals

CONSTANT Id           \* sessions

VARIABLES password,   \* the version of the password
          disabled,   \* the account is disabled, and all that was to end has ended
          state       \* of each session: none yet, open, closed, or loose

vars == <<password, disabled, state>>

Init ==
  /\ password = 1
  /\ disabled = FALSE
  /\ state = [s \in Id |-> "none"]

\* Session s goes from one of these states to another.
Goes(s, from, to) ==
  /\ state[s] \in from /\ state'[s] = to
  /\ state' = [state EXCEPT ![s] = to]
  /\ UNCHANGED <<password, disabled>>

\* A login, with the password of this moment.
Open(s) == ~disabled /\ Goes(s, {"none"}, "open")

\* A logout, a device that is revoked, a refresh that a disabled account is refused.
Close(s) == Goes(s, {"open"}, "closed")

\* Requests that overlap get hold of a session.
Loosen(s) == Goes(s, {"none", "open", "closed"}, "loose")

\* What is open ends at once, but for the sessions that are kept.
CloseAllBut(kept) ==
  state' = [s \in Id |-> IF state[s] = "open" /\ s \notin kept THEN "closed" ELSE state[s]]

\* One session asks for a new password, and stays if it is still there.
ChangePassword ==
  /\ password' = password + 1
  /\ \E s \in Id : \E kept \in {{}, {s}} : CloseAllBut(kept)
  /\ UNCHANGED disabled

\* The account is disabled, unless it is enabled, or to be disabled again, meanwhile.
Deactivate ==
  /\ CloseAllBut({})
  /\ disabled' \in BOOLEAN
  /\ UNCHANGED password

\* The account is enabled, or is to be disabled once more.
Reconsider ==
  /\ disabled /\ disabled' = FALSE
  /\ UNCHANGED <<password, state>>

Next ==
  \/ \E s \in Id : Open(s) \/ Close(s) \/ Loosen(s)
  \/ ChangePassword \/ Deactivate \/ Reconsider

Spec == Init /\ [][Next]_vars
=============================================================================
