---------------------------- MODULE AdminAccount ----------------------------
(***************************************************************************)
(* The administrator's account: deploy.sh makes a password, keeps it in    *)
(* .env and starts the servers with it; the first server that finds no     *)
(* account seeds one; deploy.sh and the dashboard change its password.     *)
(*                                                                         *)
(* There is one account: the scripts never change the seed address.        *)
(* Passwords are numbered as they are made, 0 is none.  The secret in .env *)
(* goes with the password: 0 is a disabled dashboard.                      *)
(***************************************************************************)
EXTENDS Naturals

CONSTANTS
  Inst,        \* servers
  Request,     \* changes of the password under way at a time
  MaxPassword  \* BOUND: passwords made

VARIABLES
  file,     \* .env: the seed password
  script,   \* deploy.sh reset-admin-pw between its two writes: the password
  drawn,    \* passwords made
  box,      \* per server, the seed password it was started with
  boot,     \* per server, where its seedIfEmpty is
  account,  \* admin_users: the password of the account
  changing, \* changes whose current password was found right
  drifted   \* history: .env was overtaken by something named below

vars == <<file, script, drawn, box, boot, account, changing, drifted>>

Password == 0..MaxPassword

Init ==
  /\ file = 0 /\ script = 0 /\ drawn = 0 /\ account = 0
  /\ box = [i \in Inst |-> 0] /\ boot = [i \in Inst |-> "off"]
  /\ changing = {} /\ drifted = FALSE

(***************************************************************************)
(* deploy.sh and install.sh.                                               *)
(***************************************************************************)

\* enable-admin, and the installer's .env: refused while a secret is set.  An
\* account of before, or a server that may still seed one, keeps its password.
EnableAdmin ==
  /\ file = 0 /\ script = 0 /\ drawn < MaxPassword
  /\ file' = drawn + 1 /\ drawn' = drawn + 1
  /\ drifted' = (account # 0 \/ \E i \in Inst : box[i] # 0)
  /\ UNCHANGED <<script, box, boot, account, changing>>

\* "leave blank to disable": by hand.
Blanked ==
  /\ file # 0 /\ script = 0
  /\ file' = 0
  /\ UNCHANGED <<script, drawn, box, boot, account, changing, drifted>>

\* up -d starts a server with what .env says now, if that has changed.
Up(i) ==
  /\ boot[i] = "off" \/ box[i] # file
  /\ box' = [box EXCEPT ![i] = file]
  /\ boot' = [boot EXCEPT ![i] = IF file = 0 THEN "up" ELSE "count"]
  /\ UNCHANGED <<file, script, drawn, account, changing, drifted>>

\* A restarted container, by restart or after a crash, keeps its environment.
Restart(i) ==
  /\ boot[i] = "up" /\ box[i] # 0
  /\ boot' = [boot EXCEPT ![i] = "count"]
  /\ UNCHANGED <<file, script, drawn, box, account, changing, drifted>>

\* reset-admin-pw: the row, by a program in a server's container, then .env.
ResetRow ==
  /\ file # 0 /\ script = 0 /\ account # 0 /\ drawn < MaxPassword
  /\ \E i \in Inst : boot[i] # "off"
  /\ account' = drawn + 1 /\ script' = drawn + 1 /\ drawn' = drawn + 1
  /\ drifted' = FALSE
  /\ UNCHANGED <<file, box, boot, changing>>

ResetFile ==
  /\ script # 0
  /\ file' = script /\ script' = 0
  /\ UNCHANGED <<drawn, box, boot, account, changing, drifted>>

\* Interrupted between the two: the new password is known to nobody.
ResetStops ==
  /\ script # 0
  /\ script' = 0 /\ drifted' = TRUE
  /\ UNCHANGED <<file, drawn, box, boot, account, changing>>

\* uninstall: the containers, with --purge the data volumes as well.
Uninstall(purge) ==
  /\ script = 0
  /\ account' = IF purge THEN 0 ELSE account
  /\ drifted' = (drifted /\ ~purge)
  /\ box' = [i \in Inst |-> 0] /\ boot' = [i \in Inst |-> "off"] /\ changing' = {}
  /\ UNCHANGED <<file, script, drawn>>

(***************************************************************************)
(* seedIfEmpty, when a server is ready: count, hash, insert.               *)
(***************************************************************************)
Count(i) ==
  /\ boot[i] = "count"
  /\ boot' = [boot EXCEPT ![i] = IF account = 0 THEN "insert" ELSE "up"]
  /\ UNCHANGED <<file, script, drawn, box, account, changing, drifted>>

\* Fault variant: an upsert.
SeededAnyway(i) == box[i]

\* The unique index refuses the second insert.
Seeded(i) == IF account = 0 THEN box[i] ELSE account

Insert(i) ==
  /\ boot[i] = "insert"
  /\ account' = Seeded(i)
  /\ boot' = [boot EXCEPT ![i] = "up"]
  /\ UNCHANGED <<file, script, drawn, box, changing, drifted>>

SeedFails(i) ==
  /\ boot[i] \in {"count", "insert"}
  /\ boot' = [boot EXCEPT ![i] = "up"]
  /\ UNCHANGED <<file, script, drawn, box, account, changing, drifted>>

(***************************************************************************)
(* changePassword: the current password is checked, the new one hashed,    *)
(* the row updated.                                                        *)
(***************************************************************************)
Check(q) ==
  /\ q \notin changing /\ account # 0
  /\ changing' = changing \cup {q}
  /\ UNCHANGED <<file, script, drawn, box, boot, account, drifted>>

Update(q) ==
  /\ q \in changing /\ drawn < MaxPassword
  /\ account' = drawn + 1 /\ drawn' = drawn + 1 /\ drifted' = TRUE
  /\ changing' = changing \ {q}
  /\ UNCHANGED <<file, script, box, boot>>

GiveUp(q) ==
  /\ q \in changing
  /\ changing' = changing \ {q}
  /\ UNCHANGED <<file, script, drawn, box, boot, account, drifted>>

Next ==
  \/ EnableAdmin \/ Blanked \/ ResetRow \/ ResetFile \/ ResetStops
  \/ \E purge \in BOOLEAN : Uninstall(purge)
  \/ \E i \in Inst : Up(i) \/ Restart(i) \/ Count(i) \/ Insert(i) \/ SeedFails(i)
  \/ \E q \in Request : Check(q) \/ Update(q) \/ GiveUp(q)

Spec == Init /\ [][Next]_vars

-----------------------------------------------------------------------------
TypeOK ==
  /\ {file, script, drawn, account} \subseteq Password
  /\ box \in [Inst -> Password]
  /\ boot \in [Inst -> {"off", "count", "insert", "up"}]
  /\ changing \subseteq Request
  /\ drifted \in BOOLEAN

\* The password in .env opens the account, however servers start, restart and
\* seed at the same time, unless drifted: the dashboard changed the password, a
\* reset was interrupted, or enable-admin made a new one although an account,
\* or a server that was to seed one, was there.
FileOpensAccount == account # 0 /\ file # 0 /\ script = 0 => account = file \/ drifted
=============================================================================
