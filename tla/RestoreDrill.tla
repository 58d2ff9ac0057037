---------------------------- MODULE RestoreDrill ----------------------------
(* Backup, restore and the restore drill (scripts/backup_restore_drill.py),  *)
(* beside the approval flow and the worker that go on meanwhile. A copy of   *)
(* the database is an earlier state of it; the refunds paid since are not    *)
(* undone by going back. The copy is neutralised before anything may promote *)
(* it, and the drill must leave the database it copies alone.                *)
EXTENDS Integers, FiniteSets, ActionStates

CONSTANTS
  Requests,
  MaxAttempts,                         \* claims of a job (0008_actions.sql: 3)
  MaxVersion, MaxDrills, MaxCrashes    \* bounds: migrations, drills, worker restarts

ASSUME DrillAssumption ==
  /\ IsFiniteSet(Requests) /\ MaxAttempts \in Nat \ {0}
  /\ MaxVersion \in Nat \ {0} /\ MaxDrills \in Nat /\ MaxCrashes \in Nat

VARIABLES
  live,      \* the database supportpilot
  dump,      \* the backup file
  scratch,   \* the database supportpilot_restore_drill
  drill,     \* where the drill is, the checks it failed, the drills left
  worker,    \* the job the worker has claimed and what it does with it
  knows,     \* requests the adapter's process remembers having paid
  paid,      \* refunds paid at the provider
  decided,   \* approvals given by people
  crashes

db   == <<live, dump, scratch>>
vars == <<db, drill, worker, knows, paid, decided, crashes>>

\* The states of a job that has not ended.
Open == {"QUEUED", "EXECUTING"}

Row      == [state : ActionState \union {Absent}, job : Open \union {Absent, "SUCCEEDED", "FAILED"},
             attempts : 0..MaxAttempts, reserved : BOOLEAN]
Database == [version : 1..MaxVersion, row : [Requests -> Row]]
Nowhere  == [version |-> 0, row |-> <<>>]
NoRow    == [state |-> Absent, job |-> Absent, attempts |-> 0, reserved |-> FALSE]
Nobody   == [at |-> "idle", request |-> Absent, found |-> FALSE]

Init ==
  /\ live = [version |-> 1, row |-> [r \in Requests |-> NoRow]]
  /\ dump = Nowhere /\ scratch = Nowhere
  /\ drill = [at |-> "none", failed |-> 0, left |-> MaxDrills]
  /\ worker = Nobody /\ knows = {}
  /\ paid = [r \in Requests |-> 0] /\ decided = [r \in Requests |-> 0]
  /\ crashes = 0

-----------------------------------------------------------------------------
(* The flow on the live database.                                            *)
Writes(r, row) == live' = [live EXCEPT !.row[r] = row]

Propose(r) ==
  /\ live.row[r].state = Absent
  /\ Writes(r, [NoRow EXCEPT !.state = "PENDING_APPROVAL"])
  /\ UNCHANGED <<dump, scratch, drill, worker, knows, paid, decided, crashes>>

Decide(r, approve) ==
  /\ live.row[r].state = "PENDING_APPROVAL"
  /\ IF approve
       THEN /\ Writes(r, [live.row[r] EXCEPT !.state = "APPROVED", !.job = "QUEUED"])
            /\ decided' = [decided EXCEPT ![r] = @ + 1]
       ELSE /\ Writes(r, [live.row[r] EXCEPT !.state = "REJECTED"])
            /\ UNCHANGED decided
  /\ UNCHANGED <<dump, scratch, drill, worker, knows, paid, crashes>>

\* A queued job, or one whose lease ran out because the worker that had it is
\* gone, as long as an attempt is left.
Claimable(row) == row.job \in Open /\ row.attempts < MaxAttempts

Claim(r) ==
  /\ worker = Nobody
  /\ Claimable(live.row[r])
  /\ Writes(r, [live.row[r] EXCEPT !.job = "EXECUTING", !.attempts = @ + 1])
  /\ worker' = [at |-> "claimed", request |-> r, found |-> FALSE]
  /\ UNCHANGED <<dump, scratch, drill, knows, paid, decided, crashes>>

\* The key is reserved once; a key that is taken is asked about instead.
Reserve ==
  LET r == worker.request
  IN /\ worker.at = "claimed"
     /\ IF live.row[r].reserved
          THEN /\ worker' = [worker EXCEPT !.at = "record", !.found = r \in knows]
               /\ UNCHANGED live
          ELSE /\ worker' = [worker EXCEPT !.at = "call"]
               /\ Writes(r, [live.row[r] EXCEPT !.reserved = TRUE])
     /\ UNCHANGED <<dump, scratch, drill, knows, paid, decided, crashes>>

\* The adapter replays what it remembers; otherwise it pays, or declines.
Call ==
  LET r == worker.request
  IN /\ worker.at = "call"
     /\ \E declined \in BOOLEAN :
          /\ declined => r \notin knows
          /\ worker' = [worker EXCEPT !.at = "record", !.found = ~declined]
          /\ paid' = [paid EXCEPT ![r] = IF declined \/ r \in knows THEN @ ELSE @ + 1]
          /\ knows' = IF declined THEN knows ELSE knows \union {r}
     /\ UNCHANGED <<db, drill, decided, crashes>>

\* A decline is tried again while an attempt is left; an outcome nobody can
\* tell is not.
Record ==
  LET r == worker.request
  IN /\ worker.at = "record"
     /\ \E retry \in BOOLEAN :
          /\ retry => live.row[r].attempts < MaxAttempts
          /\ Writes(r, IF worker.found
                         THEN [live.row[r] EXCEPT !.state = "SUCCEEDED", !.job = "SUCCEEDED"]
                         ELSE IF retry
                         THEN [live.row[r] EXCEPT !.state = "EXECUTING", !.job = "QUEUED"]
                         ELSE [live.row[r] EXCEPT !.state = "FAILED", !.job = "FAILED"])
     /\ worker' = Nobody
     /\ UNCHANGED <<dump, scratch, drill, knows, paid, decided, crashes>>

WorkerRestarts ==
  /\ crashes < MaxCrashes /\ crashes' = crashes + 1
  /\ worker' = Nobody /\ knows' = {}
  /\ UNCHANGED <<db, drill, paid, decided>>

Migrate ==
  /\ live.version < MaxVersion
  /\ live' = [live EXCEPT !.version = @ + 1]
  /\ UNCHANGED <<dump, scratch, drill, worker, knows, paid, decided, crashes>>

-----------------------------------------------------------------------------
(* The drill.                                                                *)
Flow   == <<worker, knows, paid, decided, crashes>>
To(at) == drill' = [drill EXCEPT !.at = at]

TakeBackup ==
  /\ drill.at = "none" /\ drill.left > 0
  /\ drill' = [at |-> "restore", failed |-> 0, left |-> drill.left - 1]
  /\ dump' = live
  /\ UNCHANGED <<live, scratch, Flow>>

RestoreIntoScratch ==
  /\ drill.at = "restore"
  /\ To("verify")
  /\ scratch' = dump
  /\ UNCHANGED <<live, dump, Flow>>

\* The dump carries the row policies with the schema, so the versions stand
\* for the policies counted as well.
VerifyRestore ==
  /\ drill.at = "verify"
  /\ drill' = [drill EXCEPT !.at = "neutralise",
                            !.failed = IF scratch.version = live.version THEN @ ELSE @ + 1]
  /\ UNCHANGED <<db, Flow>>

\* Mutant: jobs that were executing are left to their worker.
StaleQueued(copy) == {r \in Requests : copy.row[r].job = "QUEUED"}

Stale(copy) == {r \in Requests : copy.row[r].job \in Open}

\* Mutant: a request whose attempt had failed is left as it is.
CancelledApproved(row) ==
  [row EXCEPT !.job = "FAILED", !.state = IF @ = "APPROVED" THEN "CANCELLED" ELSE @]

Cancelled(row) ==
  [row EXCEPT !.job = "FAILED",
              !.state = IF @ \in {"SUCCEEDED", "FAILED"} THEN @ ELSE "CANCELLED"]

Neutralised(copy) ==
  [copy EXCEPT !.row = [r \in Requests |->
     IF r \in Stale(copy) THEN Cancelled(copy.row[r]) ELSE copy.row[r]]]

NeutraliseStaleJobs ==
  /\ drill.at = "neutralise"
  /\ To("remaining")
  /\ scratch' = Neutralised(scratch)
  /\ UNCHANGED <<live, dump, Flow>>

CheckRemaining ==
  /\ drill.at = "remaining"
  /\ drill' = [drill EXCEPT !.at = "clean up",
                            !.failed = IF Stale(scratch) = {} THEN @ ELSE @ + 1]
  /\ UNCHANGED <<db, Flow>>

CleanUp ==
  /\ drill.at = "clean up"
  /\ To("none")
  /\ scratch' = Nowhere
  /\ UNCHANGED <<live, dump, Flow>>

-----------------------------------------------------------------------------
\* The stack is stopped and the copy takes the place of the live database,
\* as the drill is there to make safe.
Promote ==
  /\ drill.at = "clean up" /\ drill.failed = 0
  /\ live' = scratch /\ scratch' = Nowhere /\ UNCHANGED dump
  /\ worker' = Nobody /\ knows' = {}
  /\ drill' = [drill EXCEPT !.at = "promoted"]
  /\ UNCHANGED <<paid, decided, crashes>>

\* Another drill, of the database that was promoted.
Again ==
  /\ drill.at = "promoted"
  /\ To("none")
  /\ UNCHANGED <<db, Flow>>

Drill ==
  \/ TakeBackup \/ RestoreIntoScratch \/ VerifyRestore \/ NeutraliseStaleJobs
  \/ CheckRemaining \/ CleanUp

Next ==
  \/ \E r \in Requests : Propose(r) \/ Claim(r) \/ \E approve \in BOOLEAN : Decide(r, approve)
  \/ Reserve \/ Call \/ Record \/ WorkerRestarts \/ Migrate
  \/ Drill \/ Promote \/ Again

Spec == Init /\ [][Next]_vars

-----------------------------------------------------------------------------
\* Every variable keeps its type, and a copy is a database.
TypeOK ==
  /\ live \in Database
  /\ dump \in Database \union {Nowhere} /\ scratch \in Database \union {Nowhere}
  /\ drill \in [at : {"none", "restore", "verify", "neutralise", "remaining", "clean up",
                      "promoted"}, failed : Nat, left : 0..MaxDrills]
  /\ worker \in [at : {"idle", "claimed", "call", "record"}, request : Requests \union {Absent},
                 found : BOOLEAN]
  /\ worker.at # "idle" => worker.request \in Requests
  /\ knows \subseteq Requests
  /\ paid \in [Requests -> Nat] /\ decided \in [Requests -> Nat] /\ crashes \in 0..MaxCrashes

\* "Old approved jobs do not execute after the restore": whatever is restored
\* and promoted, and however late, a person's approval is paid once at most.
\* (A request that was awaiting approval when the backup was taken can be
\* approved again after it, and that approval is paid as well.)
PaysOncePerApproval == \A r \in Requests : paid[r] <= decided[r]

\* Requests a person approved that nobody works on and no claim can reach.
Stranded ==
  {r \in Requests : /\ live.row[r].state \in {"APPROVED", "QUEUED", "EXECUTING"}
                    /\ ~Claimable(live.row[r])
                    /\ worker.at = "idle" \/ worker.request # r}

\* A cancelled job takes its request with it: in the live database, promoted
\* or not, the only requests left waiting for a job nobody will run are those
\* whose last attempt a worker died in (the claim asks for attempts <
\* max_attempts), one for each of its crashes at most. Neither a restore nor
\* a decline leaves one behind.
NothingWaitsForNobody ==
  /\ \A r \in Stranded :
       live.row[r].job = "EXECUTING" /\ live.row[r].attempts = MaxAttempts
  /\ Cardinality(Stranded) <= crashes
=============================================================================
