---------------------------- MODULE Invitations ----------------------------
(***************************************************************************)
(* What an invite to a terminal session promises, with no claims under     *)
(* way, tokens, connections or clocks: it is to one room, it is taken or   *)
(* withdrawn and open to nobody then, and nobody is a guest in a room but  *)
(* those who have taken an invite to it.  An invite made for one guest is  *)
(* taken by one and then not withdrawn; of the others an owner may expect  *)
(* that more than one can take them, and this module does not promise it.  *)
(* Admission implements this.                                              *)
(***************************************************************************)
CONSTANTS Invite, Room, Person,
          NoRoom      \* the room of an invite that is not there yet

VARIABLES state,      \* of each invite: none yet, open, taken or withdrawn
          room,       \* of each invite: the room it is to
          once,       \* the invites made for one guest
          guest,      \* of each invite: who has taken it
          answered,   \* the invites whose owner was told that they are withdrawn
          present     \* the guests that are there, each in a room

offers == <<state, room, once, guest, answered>>
vars == <<offers, present>>

Init ==
    /\ state = [i \in Invite |-> "none"]
    /\ room = [i \in Invite |-> NoRoom]
    /\ once = {}
    /\ guest = [i \in Invite |-> {}]
    /\ answered = {}
    /\ present = {}

\* The owner makes an invite, for one guest or for more.
Offer(i) ==
    /\ state[i] = "none"
    /\ state' = [state EXCEPT ![i] = "open"]
    /\ \E r \in Room : room' = [room EXCEPT ![i] = r]
    /\ once' \in {once, once \cup {i}}
    /\ UNCHANGED <<guest, answered, present>>

\* Somebody takes it.  One for more guests may stay open to others.
Take(i) ==
    /\ state[i] = "open"
    /\ \E after \in IF i \in once THEN {"taken"} ELSE {"open", "taken"} :
           state' = [state EXCEPT ![i] = after]
    /\ \E p \in Person : guest' = [guest EXCEPT ![i] = @ \cup {p}]
    /\ UNCHANGED <<room, once, answered, present>>

\* The owner withdraws it, and is told so even if it was taken before.
Withdraw(i) ==
    /\ state[i] # "none" /\ i \notin answered
    /\ state' = [state EXCEPT ![i] = IF @ = "open" THEN "withdrawn" ELSE @]
    /\ answered' = answered \cup {i}
    /\ UNCHANGED <<room, once, guest, present>>

\* Guests come, with an invite they have taken, and go.
ComeAndGo ==
    /\ UNCHANGED offers
    /\ \A x \in present' \ present : \E i \in Invite : x[1] \in guest[i] /\ x[2] = room[i]

Next == ComeAndGo \/ \E i \in Invite : Offer(i) \/ Take(i) \/ Withdraw(i)

Spec == Init /\ [][Next]_vars
=============================================================================
