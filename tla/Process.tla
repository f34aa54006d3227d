------------------------------ MODULE Process ------------------------------
(***************************************************************************)
(* Server processes and migration runners on one database: they start,     *)
(* apply the migrations their release brings, serve requests through a     *)
(* pool of connections and stop on signals.  A failed or killed process is *)
(* started again, with whatever release is installed by then.              *)
(* Migrations are numbered in the order of their folders' names.           *)
(***************************************************************************)
EXTENDS Naturals, Sequences

CONSTANTS
  Proc,          \* processes
  Job,           \* requests a process handles at once
  MaxMigration,  \* migrations of the newest release
  MaxStart,      \* starts of a process
  None

VARIABLES
  applied,    \* rows of the migrations table, in the order of their commits
  proc,       \* process -> where it is, with which release, what it read of the table
  job,        \* process -> request -> where it is and how many statements it has left
  closes,     \* process -> calls of the pool's end since the process started
  container,  \* does disposing the container dispose the adaptor it holds?
  cut         \* history: how the last process ended, if it took a transaction with it

vars == <<applied, proc, job, closes, container, cut>>

Release == 1..MaxMigration
Down(n) == [at |-> "down", role |-> None, release |-> 1, read |-> 0, starts |-> n]
Idle == [at |-> "idle", left |-> 0]

Init ==
  /\ applied = <<>>
  /\ proc = [p \in Proc |-> Down(0)]
  /\ job = [p \in Proc |-> [j \in Job |-> Idle]]
  /\ closes = [p \in Proc |-> 0]
  /\ container \in BOOLEAN
  /\ cut = None

\* The process is gone, and with it the requests it had.
Gone(p, how) ==
  /\ proc' = [proc EXCEPT ![p] = Down(@.starts)]
  /\ job' = [job EXCEPT ![p] = [j \in Job |-> Idle]]
  /\ closes' = [closes EXCEPT ![p] = 0]
  /\ cut' = IF \E j \in Job : job[p][j].at = "tx" THEN how ELSE None
  /\ UNCHANGED <<applied, container>>

\* main, or the migration runner, up to the open pool.
Boot(p, role, release) ==
  /\ proc[p].at = "down" /\ proc[p].starts < MaxStart
  /\ proc' = [proc EXCEPT ![p] = [at |-> "booted", role |-> role, release |-> release, read |-> 0,
                                  starts |-> @.starts + 1]]
  /\ UNCHANGED <<applied, job, closes, container, cut>>

-----------------------------------------------------------------------------
\* The migrator of drizzle: it reads what is applied, then runs what is missing
\* in one transaction.  A statement that creates what another transaction is
\* creating waits for it, and fails if that commits.

ReadApplied(p) ==
  /\ proc[p].at = "booted"
  /\ proc' = [proc EXCEPT ![p].at = "read", ![p].read = Len(applied)]
  /\ UNCHANGED <<applied, job, closes, container, cut>>

Outstanding(p) == {n \in Release : proc[p].read < n /\ n <= proc[p].release}
Waits(p) == \E q \in Proc \ {p} : proc[q].at = "migrating" /\ Outstanding(q) \cap Outstanding(p) # {}
Exists(n) == \E i \in DOMAIN applied : applied[i] = n

RunMigrations(p) ==
  /\ proc[p].at = "read" /\ ~Waits(p)
  /\ \A n \in Outstanding(p) : ~Exists(n)
  /\ proc' = [proc EXCEPT ![p].at = "migrating"]
  /\ UNCHANGED <<applied, job, closes, container, cut>>

\* main's catch: the process exits with an error.
MigrationFails(p) ==
  /\ proc[p].at = "read" /\ ~Waits(p)
  /\ \E n \in Outstanding(p) : Exists(n)
  /\ Gone(p, "failed")

\* A server goes on to serve; the runner closes the pool and ends.
After(s) == IF s.role = "server" THEN [s EXCEPT !.at = "serving", !.read = 0] ELSE Down(s.starts)

CommitMigrations(p) ==
  /\ proc[p].at = "migrating"
  /\ applied' = applied \o [i \in 1..(IF proc[p].read < proc[p].release THEN proc[p].release - proc[p].read ELSE 0)
                              |-> proc[p].read + i]
  /\ proc' = [proc EXCEPT ![p] = After(@)]
  /\ UNCHANGED <<job, closes, container, cut>>

-----------------------------------------------------------------------------
\* Requests: one or two statements or transactions, each with a client of the pool.

Ask(p, j, n) ==
  /\ proc[p].at = "serving" /\ job[p][j] = Idle
  /\ job' = [job EXCEPT ![p][j] = [at |-> "tx", left |-> n]]
  /\ UNCHANGED <<applied, proc, closes, container, cut>>

Again(p, j) ==
  /\ job[p][j].at = "between" /\ closes[p] = 0
  /\ job' = [job EXCEPT ![p][j].at = "tx"]
  /\ UNCHANGED <<applied, proc, closes, container, cut>>

Commit(p, j) ==
  /\ job[p][j].at = "tx"
  /\ job' = [job EXCEPT ![p][j] = IF @.left = 1 THEN Idle ELSE [at |-> "between", left |-> @.left - 1]]
  /\ UNCHANGED <<applied, proc, closes, container, cut>>

\* A pool that has ended gives no clients: the handler answers 500.
Refused(p, j) ==
  /\ job[p][j].at = "between" /\ closes[p] > 0
  /\ job' = [job EXCEPT ![p][j] = Idle]
  /\ UNCHANGED <<applied, proc, closes, container, cut>>

-----------------------------------------------------------------------------
\* shutdown: the container is disposed, then the pool is ended; the call is
\* made for every signal.
Signal(p) ==
  /\ proc[p].at \in {"serving", "closing"} /\ closes[p] < 2
  /\ proc' = [proc EXCEPT ![p].at = "closing"]
  /\ closes' = [closes EXCEPT ![p] = IF @ = 0 /\ container THEN 2 ELSE @ + 1]
  /\ UNCHANGED <<applied, job, container, cut>>

\* Fault variant: the end of the pool is not awaited.
DrainedAnyway(p) == TRUE
\* The pool ends when all its clients are back.  A second call of end is
\* rejected at once, and allSettled does not mind.
Drained(p) == closes[p] = 2 \/ \A j \in Job : job[p][j].at # "tx"

Exit(p) ==
  /\ proc[p].at = "closing" /\ Drained(p)
  /\ Gone(p, IF closes[p] = 2 THEN "rejected" ELSE "drained")

Crash(p) == proc[p].at # "down" /\ Gone(p, "crash")

Next ==
  \E p \in Proc :
    \/ \E role \in {"server", "cli"}, r \in Release : Boot(p, role, r)
    \/ ReadApplied(p) \/ RunMigrations(p) \/ MigrationFails(p) \/ CommitMigrations(p)
    \/ \E j \in Job :
         \/ \E n \in {1, 2} : Ask(p, j, n)
         \/ Again(p, j) \/ Commit(p, j) \/ Refused(p, j)
    \/ Signal(p) \/ Exit(p) \/ Crash(p)

-----------------------------------------------------------------------------
TypeOK ==
  /\ \A i \in DOMAIN applied : applied[i] \in Release
  /\ \A p \in Proc :
       /\ proc[p].at \in {"down", "booted", "read", "migrating", "serving", "closing"}
       /\ proc[p].starts \in 0..MaxStart /\ proc[p].release \in Release
       /\ closes[p] \in 0..2
       /\ \A j \in Job : job[p][j].at \in {"idle", "tx", "between"}

\* Every migration is applied once and in order however many processes start
\* together, fail, are killed or are of different releases, and a server serves
\* with all that its release needs.  A process that stops loses no transaction
\* unless it is killed or the pool is ended twice, by a second signal or by the
\* container; what is between two statements it may leave half done.
SchemaFirstPoolLast ==
  /\ \A i \in DOMAIN applied : applied[i] = i
  /\ \A p \in Proc : proc[p].at \in {"serving", "closing"} => Exists(proc[p].release)
  /\ cut \in {None, "crash", "rejected"}
=============================================================================
