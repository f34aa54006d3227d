------------------------------ MODULE Landing ------------------------------
(***************************************************************************)
(* The pages a browser is left on (oauth-landing and invite-landing): they *)
(* hand a link to the desktop client, by themselves after half a second    *)
(* and whenever their button is pressed, and guess from what the browser   *)
(* lets them see whether the client took it.  The relay code in the link   *)
(* of a sign-in can be claimed once.                                       *)
(***************************************************************************)
EXTENDS Naturals

CONSTANTS
  MaxPress,  \* BOUND: presses of the button
  None

VARIABLES
  card,      \* what the page that was served has
  automatic, \* the launch after half a second is to come
  launched,  \* the script's flag of that name
  checks,    \* launches that have not been looked after yet
  visible,   \* document.visibilityState
  hint,      \* the line under the button
  asked,     \* EXTERNAL: launches the browser has not decided on
  handed,    \* history: links the client got
  pressed,   \* history: presses of the button
  signs      \* history: what the page cannot see

vars == <<card, automatic, launched, checks, visible, hint, asked, handed, pressed, signs>>

\* What a page has: a link for the client, a button, a hint; does its script
\* set the timer?
Card(kind) ==
  CASE kind = "success" -> [link |-> TRUE, button |-> TRUE, hint |-> TRUE, timer |-> TRUE]
    [] kind = "error" -> [link |-> TRUE, button |-> FALSE, hint |-> FALSE, timer |-> TRUE]
    [] OTHER -> [link |-> FALSE, button |-> FALSE, hint |-> FALSE, timer |-> FALSE]

\* The page of an invite, whose link needs the fragment that no server sees.
Invite(fragment) == [link |-> fragment, button |-> TRUE, hint |-> TRUE, timer |-> TRUE]

\* renderSuccess, renderError, renderWebComplete and renderWebError; GET /s/:inviteId.
Served == {Card(kind) : kind \in {"success", "error", "web-complete", "web-error"}}
            \cup {Invite(fragment) : fragment \in BOOLEAN}

Init ==
  /\ card \in Served
  /\ automatic = card.timer /\ launched = FALSE /\ checks = 0 /\ visible = TRUE
  /\ hint = IF card.hint THEN "first" ELSE None
  /\ asked = 0 /\ handed = 0 /\ pressed = 0 /\ signs = {}

\* attemptLaunch.
AttemptLaunch ==
  IF card.link
  THEN launched' = TRUE /\ asked' = asked + 1 /\ checks' = checks + 1 /\ UNCHANGED hint
  ELSE hint' = "missing" /\ UNCHANGED <<launched, asked, checks>>

Automatic ==
  /\ automatic
  /\ automatic' = FALSE
  /\ AttemptLaunch
  /\ UNCHANGED <<card, visible, handed, pressed, signs>>

Press ==
  /\ card.button /\ visible /\ pressed < MaxPress
  /\ pressed' = pressed + 1
  /\ AttemptLaunch
  /\ UNCHANGED <<card, automatic, visible, handed, signs>>

\* Some seconds after a launch, and so after the automatic one.
Check ==
  /\ checks > 0 /\ ~automatic
  /\ checks' = checks - 1
  /\ hint' = IF visible /\ card.hint THEN "again" ELSE hint
  /\ UNCHANGED <<card, automatic, launched, visible, asked, handed, pressed, signs>>

\* Fault variant: the listener does not ask whether anything was launched.
HiddenAnyway == IF card.hint THEN "taking over" ELSE hint

\* The listener of visibilitychange.
Hidden == IF launched /\ card.hint THEN "taking over" ELSE hint

\* The browser, by itself or with the user's consent, opens the client, which
\* may cover the page or not.
Open(covers) ==
  /\ asked > 0
  /\ asked' = asked - 1 /\ handed' = handed + 1
  /\ visible' = (visible /\ ~covers)
  /\ hint' = IF visible /\ covers THEN Hidden ELSE hint
  /\ signs' = IF covers THEN signs ELSE signs \cup {"beside"}
  /\ UNCHANGED <<card, automatic, launched, checks, pressed>>

\* The user declines, the client is not installed, or the browser ignores a
\* launch while it asks about another.
Dismiss ==
  /\ asked > 0
  /\ asked' = asked - 1
  /\ UNCHANGED <<card, automatic, launched, checks, visible, hint, handed, pressed, signs>>

\* The user goes to another tab and comes back.
Leave ==
  /\ visible
  /\ visible' = FALSE /\ hint' = Hidden /\ signs' = signs \cup {"left"}
  /\ UNCHANGED <<card, automatic, launched, checks, asked, handed, pressed>>

Return ==
  /\ ~visible
  /\ visible' = TRUE /\ signs' = signs \cup {"returned"}
  /\ UNCHANGED <<card, automatic, launched, checks, hint, asked, handed, pressed>>

Next ==
  \/ Automatic \/ Press \/ Check \/ Dismiss \/ Leave \/ Return
  \/ \E covers \in BOOLEAN : Open(covers)

-----------------------------------------------------------------------------
TypeOK ==
  /\ card \in Served /\ automatic \in BOOLEAN /\ launched \in BOOLEAN /\ visible \in BOOLEAN
  /\ hint \in {None, "first", "missing", "again", "taking over"}
  /\ pressed \in 0..MaxPress /\ checks \in 0..MaxPress + 1 /\ asked + handed <= MaxPress + 1

\* A page without a link launches nothing, and the client gets the link of a
\* page more than once only if the button was pressed, before the automatic
\* launch too: a sign-in's code is then spent by the first and refused to the
\* second.  The hint says that the client takes over only if it does or the user
\* left the page, and that it did not open only if it did not, or did so beside
\* the page, or the user came back.
LandingTruthful ==
  /\ ~card.link => handed = 0 /\ ~launched /\ hint \notin {"again", "taking over"}
  /\ handed > 1 => pressed > 0
  /\ hint = "taking over" => handed > 0 \/ "left" \in signs
  /\ hint = "again" /\ handed > 0 => signs \cap {"beside", "returned"} # {}
=============================================================================
