------------------------- MODULE RestoreDrill_proofs -------------------------
(* Proofs of the safety properties of RestoreDrill, for every set of         *)
(* requests and any number of migrations, drills and worker restarts.        *)
EXTENDS RestoreDrill, FiniteSetTheorems, TLAPS

Waiting == {"APPROVED", "QUEUED", "EXECUTING"}

(* What a row of any of the three databases says: a request that waits has   *)
(* a job that has not ended, a job belongs to a decided request and starts   *)
(* with no attempt made, a queued one has an attempt left, and a key is      *)
(* reserved by a job.                                                        *)
RowSound(row) ==
  /\ row.state \in Waiting => row.job \in Open
  /\ row.job # Absent => row.state \notin {Absent, "PENDING_APPROVAL"}
  /\ row.job = Absent => row.attempts = 0
  /\ row.job = "QUEUED" => row.attempts < MaxAttempts
  /\ row.reserved => row.job # Absent

Sound(base) == \A r \in Requests : RowSound(base.row[r])

(* A copy that is there is sound, and each step of the drill has its copy;   *)
(* once the stale jobs are neutralised the copy holds none.                  *)
CopiesSound ==
  /\ dump \in Database => Sound(dump)
  /\ scratch \in Database => Sound(scratch)
  /\ drill.at = "restore" => dump \in Database
  /\ drill.at \in {"verify", "neutralise", "remaining", "clean up"} => scratch \in Database
  /\ drill.at \in {"remaining", "clean up"} => Stale(scratch) = {}

(* The worker's job is executing, and past the reservation its key is taken. *)
WorkerAgrees ==
  /\ worker.at # "idle" => live.row[worker.request].job = "EXECUTING"
  /\ worker.at \in {"call", "record"} => live.row[worker.request].reserved

(* A payment that can still be made: by a job whose key is not reserved yet, *)
(* or by the worker at the provider.                                         *)
Unpaid(r) ==
  \/ live.row[r].job \in Open /\ ~live.row[r].reserved
  \/ worker.at = "call" /\ worker.request = r

(* Each approval allows one payment, made or still to be made.               *)
ApprovalsCover ==
  \A r \in Requests : paid[r] <= decided[r] /\ (Unpaid(r) => paid[r] < decided[r])

DInv == TypeOK /\ Sound(live) /\ CopiesSound /\ WorkerAgrees /\ ApprovalsCover

-----------------------------------------------------------------------------
(* Updates.                                                                  *)
LEMMA NowhereIsNoDatabase == Nowhere \notin Database
BY DrillAssumption DEF Nowhere, Database

LEMMA WritesOneRow ==
  ASSUME live \in Database, NEW r \in Requests, NEW row \in Row, Writes(r, row)
  PROVE  /\ live' \in Database
         /\ live'.version = live.version
         /\ live'.row[r] = row
         /\ \A q \in Requests \ {r} : live'.row[q] = live.row[q]
BY DEF Writes, Database

LEMMA OneRowChanges ==
  ASSUME live \in Database, NEW r \in Requests, NEW row, Writes(r, row)
  PROVE  /\ live'.row[r] = row
         /\ \A q \in Requests \ {r} : live'.row[q] = live.row[q]
BY DEF Writes, Database

LEMMA RowUpdates ==
  ASSUME NEW row \in Row, NEW s \in ActionState,
         NEW j \in Open \union {"SUCCEEDED", "FAILED"}
  PROVE  /\ [row EXCEPT !.state = s, !.job = j] \in Row
         /\ [row EXCEPT !.state = s] \in Row
         /\ [row EXCEPT !.job = j] \in Row
         /\ [row EXCEPT !.reserved = TRUE] \in Row
BY DEF Row

LEMMA CountUp ==
  ASSUME NEW f \in [Requests -> Nat], NEW r \in Requests, NEW n \in Nat
  PROVE  [f EXCEPT ![r] = @ + n] \in [Requests -> Nat]
OBVIOUS

LEMMA RowTypes ==
  ASSUME NEW base \in Database, NEW r \in Requests
  PROVE  base.row[r] \in Row
BY DEF Database

LEMMA NoRowIsSound == NoRow \in Row /\ [NoRow EXCEPT !.state = "PENDING_APPROVAL"] \in Row
<1>1. 0 \in 0..MaxAttempts
  BY DrillAssumption
<1>2. NoRow \in Row
  BY <1>1 DEF NoRow, Row
<1> QED  BY <1>2 DEF Row, ActionState

LEMMA NeutralisedIsSound ==
  ASSUME NEW copy \in Database, Sound(copy)
  PROVE  /\ Neutralised(copy) \in Database
         /\ Sound(Neutralised(copy))
         /\ Stale(Neutralised(copy)) = {}
<1> DEFINE new(r) == IF r \in Stale(copy) THEN Cancelled(copy.row[r]) ELSE copy.row[r]
<1>1. ASSUME NEW r \in Requests
      PROVE  new(r) \in Row /\ RowSound(new(r)) /\ new(r).job \notin Open
  <2>1. copy.row[r] \in Row /\ RowSound(copy.row[r])
    BY RowTypes DEF Sound
  <2>2. CASE r \in Stale(copy)
    BY <2>1, <2>2 DEF Cancelled, Row, RowSound, Waiting, Open, ActionState, Stale, Absent
  <2>3. CASE r \notin Stale(copy)
    BY <2>1, <2>3 DEF Stale
  <2> QED  BY <2>2, <2>3
<1>2. Neutralised(copy) = [copy EXCEPT !.row = [r \in Requests |-> new(r)]]
  BY DEF Neutralised
<1> HIDE DEF new
<1>3. Neutralised(copy).row = [r \in Requests |-> new(r)] /\ Neutralised(copy) \in Database
  BY <1>1, <1>2 DEF Database
<1>4. \A r \in Requests : Neutralised(copy).row[r] = new(r)
  BY <1>3
<1> QED  BY <1>1, <1>3, <1>4 DEF Sound, Stale

LEMMA CopiesUntouched ==
  ASSUME CopiesSound, UNCHANGED <<dump, scratch, drill>>
  PROVE  CopiesSound'
BY DEF CopiesSound, Sound, Stale

-----------------------------------------------------------------------------
(* The flow on the live database keeps the invariant.                        *)
LEMMA ProposeKeeps ==
  ASSUME DInv, NEW r \in Requests, Propose(r)
  PROVE  DInv'
<1> DEFINE row == [NoRow EXCEPT !.state = "PENDING_APPROVAL"]
<1>1. /\ row \in Row /\ row.state = "PENDING_APPROVAL" /\ row.job = Absent
      /\ row.attempts = 0 /\ row.reserved = FALSE
  BY NoRowIsSound DEF NoRow
<1>2. Writes(r, row) /\ live.row[r].state = Absent
  BY DEF Propose
<1> HIDE DEF row
<1>3. /\ live' \in Database
      /\ live'.row[r] = row
      /\ \A q \in Requests \ {r} : live'.row[q] = live.row[q]
  BY <1>1, <1>2, WritesOneRow DEF DInv, TypeOK
<1>4. RowSound(row) /\ RowSound(live.row[r])
  BY <1>1 DEF RowSound, Waiting, Absent, DInv, Sound
<1>5. TypeOK'
  BY <1>3 DEF DInv, TypeOK, Propose
<1>6. Sound(live)'
  BY <1>3, <1>4 DEF DInv, Sound, RowSound
<1>7. CopiesSound'
  BY CopiesUntouched DEF DInv, Propose
<1>8. WorkerAgrees'
  <2>1. live.row[r].job = Absent \/ live.row[r].state # Absent
    BY <1>4 DEF RowSound
  <2>2. live.row[r].job # "EXECUTING" /\ live.row[r].reserved = FALSE
    BY <1>2, <1>4, <2>1, RowTypes DEF RowSound, Absent, DInv, TypeOK, Row
  <2>3. worker.at # "idle" => worker.request \in Requests
    BY DEF DInv, TypeOK
  <2> QED  BY <1>3, <2>2, <2>3 DEF DInv, WorkerAgrees, Propose
<1>9. ApprovalsCover'
  BY <1>1, <1>3 DEF DInv, ApprovalsCover, Unpaid, Propose, Open, Absent
<1> QED  BY <1>5, <1>6, <1>7, <1>8, <1>9 DEF DInv

LEMMA DecideKeeps ==
  ASSUME DInv, NEW r \in Requests, NEW approve \in BOOLEAN, Decide(r, approve)
  PROVE  DInv'
<1> DEFINE old == live.row[r]
           row == IF approve THEN [old EXCEPT !.state = "APPROVED", !.job = "QUEUED"]
                             ELSE [old EXCEPT !.state = "REJECTED"]
<1>1. old \in Row /\ RowSound(old) /\ old.state = "PENDING_APPROVAL"
  BY RowTypes DEF DInv, TypeOK, Sound, Decide
<1>2. old.job = Absent /\ old.reserved = FALSE /\ old.attempts = 0 /\ 0 < MaxAttempts
  BY <1>1, DrillAssumption DEF RowSound, Row
<1>3. /\ row \in Row /\ RowSound(row) /\ row.reserved = FALSE
      /\ row.job \in Open => approve
  <2> HIDE DEF old
  <2>1. CASE approve
    <3>1. row = [old EXCEPT !.state = "APPROVED", !.job = "QUEUED"]
      BY <2>1
    <3>2. row.state = "APPROVED" /\ row.job = "QUEUED" /\ row.reserved = FALSE /\ row.attempts = 0
      BY <1>1, <1>2, <3>1 DEF Row
    <3> QED  BY <1>1, <1>2, <2>1, <3>1, <3>2, RowUpdates DEF RowSound, Waiting, Open, Absent, ActionState
  <2>2. CASE ~approve
    <3>1. row = [old EXCEPT !.state = "REJECTED"]
      BY <2>2
    <3>2. row.state = "REJECTED" /\ row.job = Absent /\ row.reserved = FALSE /\ row.attempts = 0
      BY <1>1, <1>2, <3>1 DEF Row
    <3> QED  BY <1>1, <3>1, <3>2, RowUpdates DEF RowSound, Waiting, Open, Absent, ActionState
  <2> QED  BY <2>1, <2>2
<1>4. Writes(r, row)
  BY DEF Decide
<1> HIDE DEF old, row
<1>5. /\ live' \in Database
      /\ live'.row[r] = row
      /\ \A q \in Requests \ {r} : live'.row[q] = live.row[q]
  BY <1>3, <1>4, WritesOneRow DEF DInv, TypeOK
<1>6. TypeOK'
  <2>1. /\ decided' = IF approve THEN [decided EXCEPT ![r] = @ + 1] ELSE decided
        /\ UNCHANGED <<dump, scratch, drill, worker, knows, paid, crashes>>
    BY DEF Decide
  <2>2. decided' \in [Requests -> Nat]
    <3>1. decided \in [Requests -> Nat]
      BY DEF DInv, TypeOK
    <3>2. [decided EXCEPT ![r] = @ + 1] \in [Requests -> Nat]
      BY <3>1, CountUp
    <3> QED  BY <2>1, <3>1, <3>2
  <2> QED  BY <1>5, <2>1, <2>2 DEF DInv, TypeOK
<1>7. Sound(live)'
  BY <1>3, <1>5 DEF DInv, Sound, RowSound
<1>8. CopiesSound'
  BY CopiesUntouched DEF DInv, Decide
<1>9. worker.at # "idle" => worker.request # r /\ worker.request \in Requests
  BY <1>2 DEF DInv, TypeOK, WorkerAgrees, Open, Absent, old
<1>10. WorkerAgrees'
  BY <1>5, <1>9 DEF DInv, WorkerAgrees, Decide
<1>11. decided \in [Requests -> Nat] /\ paid \in [Requests -> Nat]
       /\ decided' = IF approve THEN [decided EXCEPT ![r] = @ + 1] ELSE decided
  BY DEF Decide, DInv, TypeOK
<1>12. ApprovalsCover'
  BY <1>3, <1>5, <1>9, <1>11 DEF DInv, ApprovalsCover, Unpaid, Decide
<1> QED  BY <1>6, <1>7, <1>8, <1>10, <1>12 DEF DInv

LEMMA ClaimKeeps ==
  ASSUME DInv, NEW r \in Requests, Claim(r)
  PROVE  DInv'
<1> DEFINE old == live.row[r]
           row == [old EXCEPT !.job = "EXECUTING", !.attempts = @ + 1]
<1>1. /\ old \in Row /\ RowSound(old)
      /\ old.job \in Open /\ old.attempts < MaxAttempts
  BY RowTypes DEF DInv, TypeOK, Sound, Claim, Claimable
<1>2. row \in Row /\ RowSound(row) /\ row.job = "EXECUTING" /\ row.reserved = old.reserved
  <2>1. old.attempts + 1 \in 0..MaxAttempts
    BY <1>1, DrillAssumption DEF Row
  <2> HIDE DEF old
  <2>2. /\ row \in Row /\ row.job = "EXECUTING" /\ row.reserved = old.reserved
        /\ row.state = old.state
    BY <1>1, <2>1 DEF Row, Open
  <2> QED  BY <1>1, <2>2 DEF RowSound, Open, Absent
<1>3. Writes(r, row)
  BY DEF Claim
<1> HIDE DEF old, row
<1>4. /\ live' \in Database
      /\ live'.row[r] = row
      /\ \A q \in Requests \ {r} : live'.row[q] = live.row[q]
  BY <1>2, <1>3, WritesOneRow DEF DInv, TypeOK
<1>5. worker' = [at |-> "claimed", request |-> r, found |-> FALSE]
  BY DEF Claim
<1>6. TypeOK'
  <2>1. UNCHANGED <<dump, scratch, drill, knows, paid, decided, crashes>>
    BY DEF Claim
  <2> QED  BY <1>4, <1>5, <2>1 DEF DInv, TypeOK
<1>7. Sound(live)'
  BY <1>2, <1>4 DEF DInv, Sound, RowSound
<1>8. CopiesSound'
  BY CopiesUntouched DEF DInv, Claim
<1>9. WorkerAgrees'
  BY <1>2, <1>4, <1>5 DEF WorkerAgrees
<1>10. ApprovalsCover'
  BY <1>1, <1>2, <1>4, <1>5 DEF DInv, ApprovalsCover, Unpaid, Claim, Open, old
<1> QED  BY <1>6, <1>7, <1>8, <1>9, <1>10 DEF DInv

LEMMA ReserveKeeps ==
  ASSUME DInv, Reserve
  PROVE  DInv'
<1> DEFINE r   == worker.request
           old == live.row[r]
           row == [old EXCEPT !.reserved = TRUE]
<1>1. r \in Requests /\ worker.at = "claimed" /\ old.job = "EXECUTING"
  BY DEF Reserve, DInv, TypeOK, WorkerAgrees
<1>2. old \in Row /\ RowSound(old)
  BY <1>1, RowTypes DEF DInv, TypeOK, Sound
<1>3. UNCHANGED <<dump, scratch, drill, knows, paid, decided, crashes>>
  BY DEF Reserve
<1>4. CopiesSound'
  BY <1>3, CopiesUntouched DEF DInv
<1>5. CASE old.reserved
  <2>1. worker' = [worker EXCEPT !.at = "record", !.found = r \in knows] /\ UNCHANGED live
    BY <1>5 DEF Reserve
  <2> HIDE DEF old, row
  <2>2. worker' \in [at : {"record"}, request : {r}, found : BOOLEAN]
    <3>1. \A found \in BOOLEAN :
            [worker EXCEPT !.at = "record", !.found = found]
              \in [at : {"record"}, request : {r}, found : BOOLEAN]
      BY DEF DInv, TypeOK
    <3>2. (r \in knows) \in BOOLEAN
      OBVIOUS
    <3> QED  BY <2>1, <3>1, <3>2
  <2> HIDE DEF r
  <2>3. worker'.at = "record" /\ worker'.request = r
    BY <2>2
  <2>4. TypeOK'
    BY <1>1, <1>3, <2>1, <2>2 DEF DInv, TypeOK
  <2>5. WorkerAgrees'
    BY <1>1, <1>5, <2>1, <2>3 DEF WorkerAgrees, old
  <2>6. Sound(live)' /\ ApprovalsCover'
    BY <1>3, <2>1, <2>3 DEF DInv, Sound, RowSound, ApprovalsCover, Unpaid
  <2> QED  BY <1>4, <2>4, <2>5, <2>6 DEF DInv
<1>6. CASE ~old.reserved
  <2>1. worker' = [worker EXCEPT !.at = "call"] /\ Writes(r, row)
    BY <1>6 DEF Reserve
  <2>2. row \in Row /\ RowSound(row) /\ row.job = old.job /\ row.reserved = TRUE
    <3> HIDE DEF old
    <3> QED  BY <1>1, <1>2, RowUpdates, ZenonT(40) DEF Row, RowSound, Open, Absent
  <2> HIDE DEF row
  <2>3. /\ live' \in Database
        /\ live'.row[r] = row
        /\ \A q \in Requests \ {r} : live'.row[q] = live.row[q]
    BY <1>1, <2>1, <2>2, WritesOneRow DEF DInv, TypeOK
  <2>4. paid[r] < decided[r]
    BY <1>1, <1>6 DEF DInv, ApprovalsCover, Unpaid, Open
  <2> HIDE DEF old
  <2>5. worker' \in [at : {"call"}, request : {r}, found : BOOLEAN]
    BY <1>1, <2>1 DEF DInv, TypeOK
  <2> HIDE DEF r
  <2>6. worker'.at = "call" /\ worker'.request = r
    BY <2>5
  <2>7. TypeOK'
    BY <1>1, <1>3, <2>3, <2>5 DEF DInv, TypeOK
  <2>8. WorkerAgrees'
    BY <1>1, <2>2, <2>3, <2>6 DEF WorkerAgrees
  <2>9. Sound(live)'
    BY <2>2, <2>3 DEF DInv, Sound, RowSound
  <2>10. ApprovalsCover'
    BY <1>1, <1>3, <2>2, <2>3, <2>4, <2>6 DEF DInv, ApprovalsCover, Unpaid
  <2> QED  BY <1>4, <2>7, <2>8, <2>9, <2>10 DEF DInv
<1> QED  BY <1>5, <1>6

LEMMA CallKeeps ==
  ASSUME DInv, Call
  PROVE  DInv'
<1> DEFINE r == worker.request
<1>1. r \in Requests /\ worker.at = "call"
  BY DEF Call, DInv, TypeOK
<1>2. PICK declined \in BOOLEAN :
        /\ worker' = [worker EXCEPT !.at = "record", !.found = ~declined]
        /\ paid' = [paid EXCEPT ![r] = IF declined \/ r \in knows THEN @ ELSE @ + 1]
        /\ knows' = IF declined THEN knows ELSE knows \union {r}
  BY DEF Call
<1>3. UNCHANGED <<live, dump, scratch, drill, decided, crashes>>
  BY DEF Call, db
<1>4. worker' \in [at : {"record"}, request : {r}, found : BOOLEAN]
  <2>1. PICK found \in BOOLEAN : worker' = [worker EXCEPT !.at = "record", !.found = found]
    BY <1>2
  <2> QED  BY <2>1 DEF DInv, TypeOK
<1>5. live.row[r].reserved /\ live.row[r].job = "EXECUTING" /\ paid[r] < decided[r]
  BY <1>1 DEF DInv, WorkerAgrees, ApprovalsCover, Unpaid
<1> HIDE DEF r
<1>6. worker'.at = "record" /\ worker'.request = r
  BY <1>4
<1>7. paid' \in [Requests -> Nat] /\ knows' \subseteq Requests
  <2>1. PICK n \in {0, 1} : paid' = [paid EXCEPT ![r] = @ + n]
    <3>1. paid \in [Requests -> Nat]
      BY DEF DInv, TypeOK
    <3>2. CASE declined \/ r \in knows
      <4>1. paid' = [paid EXCEPT ![r] = paid[r]]
        BY <1>2, <3>2
      <4>2. paid[r] + 0 = paid[r]
        BY <1>1, <3>1
      <4> QED  BY <4>1, <4>2
    <3>3. CASE ~(declined \/ r \in knows)
      BY <1>2, <3>3
    <3> QED  BY <3>2, <3>3
  <2>2. paid' \in [Requests -> Nat]
    <3>1. paid \in [Requests -> Nat]
      BY DEF DInv, TypeOK
    <3> QED  BY <1>1, <2>1, <3>1, CountUp
  <2>3. knows' \subseteq Requests
    BY <1>1, <1>2 DEF DInv, TypeOK
  <2> QED  BY <2>2, <2>3
<1>8. /\ paid'[r] \in {paid[r], paid[r] + 1}
      /\ \A q \in Requests \ {r} : paid'[q] = paid[q]
  BY <1>1, <1>2 DEF DInv, TypeOK
<1>9. TypeOK'
  BY <1>1, <1>3, <1>4, <1>7 DEF DInv, TypeOK
<1>10. CopiesSound'
  BY <1>3, CopiesUntouched DEF DInv
<1>11. Sound(live)' /\ WorkerAgrees'
  BY <1>3, <1>5, <1>6 DEF DInv, Sound, RowSound, WorkerAgrees
<1>12. ApprovalsCover'
  <2>1. paid \in [Requests -> Nat] /\ decided \in [Requests -> Nat]
    BY DEF DInv, TypeOK
  <2> QED  BY <1>3, <1>5, <1>6, <1>8, <2>1 DEF DInv, ApprovalsCover, Unpaid
<1> QED  BY <1>9, <1>10, <1>11, <1>12 DEF DInv

LEMMA RecordKeeps ==
  ASSUME DInv, Record
  PROVE  DInv'
<1> DEFINE r   == worker.request
           old == live.row[r]
<1>1. r \in Requests /\ old.reserved /\ old.job = "EXECUTING"
  BY DEF Record, DInv, TypeOK, WorkerAgrees
<1>2. old \in Row
  BY <1>1, RowTypes DEF DInv, TypeOK
<1>3. UNCHANGED <<dump, scratch, drill, knows, paid, decided, crashes>>
  BY DEF Record
<1>4. worker' = [at |-> "idle", request |-> Absent, found |-> FALSE]
  BY DEF Record, Nobody
<1>5. PICK s \in {"SUCCEEDED", "EXECUTING", "FAILED"}, j \in {"SUCCEEDED", "QUEUED", "FAILED"} :
        /\ Writes(r, [old EXCEPT !.state = s, !.job = j])
        /\ s = "EXECUTING" => j = "QUEUED"
        /\ j = "QUEUED" => old.attempts < MaxAttempts
  <2>1. PICK retry \in BOOLEAN :
          /\ retry => old.attempts < MaxAttempts
          /\ Writes(r, IF worker.found THEN [old EXCEPT !.state = "SUCCEEDED", !.job = "SUCCEEDED"]
                       ELSE IF retry THEN [old EXCEPT !.state = "EXECUTING", !.job = "QUEUED"]
                       ELSE [old EXCEPT !.state = "FAILED", !.job = "FAILED"])
    BY DEF Record
  <2> HIDE DEF old, r
  <2>2. CASE worker.found
    BY <2>1, <2>2
  <2>3. CASE ~worker.found /\ retry
    BY <2>1, <2>3
  <2>4. CASE ~worker.found /\ ~retry
    BY <2>1, <2>4
  <2> QED  BY <2>2, <2>3, <2>4
<1> DEFINE row == [old EXCEPT !.state = s, !.job = j]
<1> HIDE DEF old, r
<1>6. row \in Row
  BY <1>2, <1>5, RowUpdates DEF ActionState, Open
<1>7. row.state = s /\ row.job = j /\ row.reserved = old.reserved /\ row.attempts = old.attempts
  BY <1>2 DEF Row
<1>8. RowSound(row)
  BY <1>5, <1>7 DEF RowSound, Waiting, Open, Absent
<1> HIDE DEF row
<1>9. /\ live' \in Database
      /\ live'.row[r] = row
      /\ \A q \in Requests \ {r} : live'.row[q] = live.row[q]
  <2>1. Writes(r, row)
    BY <1>5 DEF row
  <2> QED  BY <1>1, <1>6, <2>1, WritesOneRow DEF DInv, TypeOK
<1>10. TypeOK'
  BY <1>3, <1>4, <1>9 DEF DInv, TypeOK
<1>11. Sound(live)'
  BY <1>8, <1>9 DEF DInv, Sound, RowSound
<1>12. CopiesSound'
  BY <1>3, CopiesUntouched DEF DInv
<1>13. WorkerAgrees'
  BY <1>4 DEF WorkerAgrees
<1>14. ApprovalsCover'
  BY <1>1, <1>3, <1>4, <1>7, <1>9 DEF DInv, ApprovalsCover, Unpaid
<1> QED  BY <1>10, <1>11, <1>12, <1>13, <1>14 DEF DInv

LEMMA WorkerRestartsKeeps ==
  ASSUME DInv, WorkerRestarts
  PROVE  DInv'
<1>1. /\ UNCHANGED <<live, dump, scratch, drill, paid, decided>> /\ knows' = {}
      /\ worker' = [at |-> "idle", request |-> Absent, found |-> FALSE]
  BY DEF WorkerRestarts, db, Nobody
<1>2. crashes' \in 0..MaxCrashes
  <2>1. crashes \in 0..MaxCrashes /\ crashes < MaxCrashes /\ crashes' = crashes + 1
    BY DEF WorkerRestarts, DInv, TypeOK
  <2> QED  BY <2>1, DrillAssumption
<1>3. TypeOK'
  BY <1>1, <1>2 DEF DInv, TypeOK
<1>4. CopiesSound'
  BY <1>1, CopiesUntouched DEF DInv
<1>5. Sound(live)' /\ WorkerAgrees' /\ ApprovalsCover'
  BY <1>1 DEF DInv, Sound, RowSound, WorkerAgrees, ApprovalsCover, Unpaid
<1> QED  BY <1>3, <1>4, <1>5 DEF DInv

LEMMA MigrateKeeps ==
  ASSUME DInv, Migrate
  PROVE  DInv'
<1>1. UNCHANGED <<dump, scratch, drill, worker, knows, paid, decided, crashes>>
  BY DEF Migrate
<1>2. live' \in Database /\ live'.row = live.row
  <2>1. /\ live \in Database /\ live.version < MaxVersion
        /\ live' = [live EXCEPT !.version = live.version + 1]
    BY DEF Migrate, DInv, TypeOK
  <2>2. live.version + 1 \in 1..MaxVersion
    BY <2>1, DrillAssumption DEF Database
  <2> QED  BY <2>1, <2>2 DEF Database
<1>3. TypeOK'
  BY <1>1, <1>2 DEF DInv, TypeOK
<1>4. CopiesSound'
  BY <1>1, CopiesUntouched DEF DInv
<1>5. Sound(live)' /\ WorkerAgrees' /\ ApprovalsCover'
  BY <1>1, <1>2 DEF DInv, Sound, RowSound, WorkerAgrees, ApprovalsCover, Unpaid
<1> QED  BY <1>3, <1>4, <1>5 DEF DInv

-----------------------------------------------------------------------------
(* So does the drill, which leaves the live database and the flow alone.     *)
LEMMA FlowUntouched ==
  ASSUME DInv, UNCHANGED <<live, Flow>>
  PROVE  /\ Sound(live)' /\ WorkerAgrees' /\ ApprovalsCover'
         /\ live' \in Database
         /\ worker' \in [at : {"idle", "claimed", "call", "record"},
                         request : Requests \union {Absent}, found : BOOLEAN]
         /\ worker'.at # "idle" => worker'.request \in Requests
         /\ knows' \subseteq Requests
         /\ paid' \in [Requests -> Nat] /\ decided' \in [Requests -> Nat]
         /\ crashes' \in 0..MaxCrashes
BY DEF DInv, TypeOK, Flow, Sound, RowSound, WorkerAgrees, ApprovalsCover, Unpaid

LEMMA DrillKeeps ==
  ASSUME DInv, Drill
  PROVE  DInv' /\ UNCHANGED live
<1>1. UNCHANGED <<live, Flow>>
  BY DEF Drill, TakeBackup, RestoreIntoScratch, VerifyRestore, NeutraliseStaleJobs,
         CheckRemaining, CleanUp, To, db
<1>2. /\ drill \in [at : {"none", "restore", "verify", "neutralise", "remaining", "clean up",
                          "promoted"}, failed : Nat, left : 0..MaxDrills]
      /\ live \in Database /\ Sound(live)
      /\ dump \in Database \union {Nowhere} /\ scratch \in Database \union {Nowhere}
  BY DEF DInv, TypeOK
<1> DEFINE CopiesTyped == /\ dump \in Database \union {Nowhere}
                          /\ scratch \in Database \union {Nowhere}
           DrillTyped  == drill \in [at : {"none", "restore", "verify", "neutralise",
                                          "remaining", "clean up", "promoted"},
                                    failed : Nat, left : 0..MaxDrills]
<1>3. CopiesTyped' /\ DrillTyped' /\ CopiesSound' => DInv'
  BY <1>1, FlowUntouched DEF DInv, TypeOK
<1>4. CASE TakeBackup
  <2>1. /\ drill' = [at |-> "restore", failed |-> 0, left |-> drill.left - 1] /\ drill.left > 0
        /\ dump' = live /\ UNCHANGED scratch
    BY <1>4 DEF TakeBackup
  <2>2. DrillTyped'
    <3>1. drill.left - 1 \in 0..MaxDrills
      <4>1. drill.left \in 0..MaxDrills
        BY <1>2
      <4>2. drill.left > 0
        BY <2>1
      <4> QED  BY <4>1, <4>2, DrillAssumption
    <3> QED  BY <2>1, <3>1
  <2>3. CopiesTyped' /\ CopiesSound'
    BY <1>2, <2>1 DEF DInv, CopiesSound, Sound, RowSound
  <2> QED  BY <1>1, <1>3, <2>2, <2>3
<1>5. CASE RestoreIntoScratch
  <2>1. /\ drill.at = "restore" /\ drill' = [drill EXCEPT !.at = "verify"]
        /\ scratch' = dump /\ UNCHANGED dump
    BY <1>5 DEF RestoreIntoScratch, To
  <2>2. DrillTyped' /\ drill'.at = "verify"
    BY <1>2, <2>1
  <2>3. CopiesTyped' /\ CopiesSound'
    BY <1>2, <2>1, <2>2 DEF DInv, CopiesSound, Sound, RowSound
  <2> QED  BY <1>1, <1>3, <2>2, <2>3
<1>6. CASE VerifyRestore
  <2>1. /\ drill.at = "verify" /\ UNCHANGED <<dump, scratch>>
        /\ drill' = [drill EXCEPT !.at = "neutralise",
                                  !.failed = IF scratch.version = live.version THEN @ ELSE @ + 1]
    BY <1>6 DEF VerifyRestore, db
  <2>2. DrillTyped' /\ drill'.at = "neutralise"
    <3>1. CASE scratch.version = live.version
      BY <1>2, <2>1, <3>1
    <3>2. CASE scratch.version # live.version
      <4>1. drill' = [drill EXCEPT !.at = "neutralise", !.failed = drill.failed + 1]
        BY <2>1, <3>2
      <4>2. drill.failed + 1 \in Nat
        <5>1. drill.failed \in Nat
          BY <1>2
        <5> QED  BY <5>1
      <4> HIDE DEF CopiesTyped
      <4> QED  BY <1>2, <4>1, <4>2
    <3> QED  BY <3>1, <3>2
  <2>3. CopiesTyped' /\ CopiesSound'
    BY <1>2, <2>1, <2>2 DEF DInv, CopiesSound, Sound, RowSound
  <2> QED  BY <1>1, <1>3, <2>2, <2>3
<1>7. CASE NeutraliseStaleJobs
  <2>1. /\ drill.at = "neutralise" /\ drill' = [drill EXCEPT !.at = "remaining"]
        /\ scratch' = Neutralised(scratch) /\ UNCHANGED dump
    BY <1>7 DEF NeutraliseStaleJobs, To
  <2>2. DrillTyped' /\ drill'.at = "remaining"
    BY <1>2, <2>1
  <2>3. scratch \in Database /\ Sound(scratch) /\ (dump \in Database => Sound(dump))
    BY <2>1 DEF DInv, CopiesSound
  <2>4. Neutralised(scratch) \in Database /\ Sound(Neutralised(scratch))
        /\ Stale(Neutralised(scratch)) = {}
    BY <2>3, NeutralisedIsSound
  <2>5. CopiesTyped'
    BY <1>2, <2>1, <2>4
  <2>6. CopiesSound'
    BY <2>1, <2>2, <2>3, <2>4 DEF CopiesSound, Sound, RowSound, Stale
  <2> QED  BY <1>1, <1>3, <2>2, <2>5, <2>6
<1>8. CASE CheckRemaining
  <2>1. /\ drill.at = "remaining" /\ UNCHANGED <<dump, scratch>>
        /\ drill' = [drill EXCEPT !.at = "clean up",
                                  !.failed = IF Stale(scratch) = {} THEN @ ELSE @ + 1]
    BY <1>8 DEF CheckRemaining, db
  <2>2. Stale(scratch) = {}
    BY <2>1 DEF DInv, CopiesSound
  <2>3. DrillTyped' /\ drill'.at = "clean up"
    <3>1. drill' = [drill EXCEPT !.at = "clean up"]
      BY <1>2, <2>1, <2>2
    <3> QED  BY <1>2, <3>1
  <2>4. CopiesTyped' /\ CopiesSound'
    BY <1>2, <2>1, <2>2, <2>3 DEF DInv, CopiesSound, Sound, RowSound, Stale
  <2> QED  BY <1>1, <1>3, <2>3, <2>4
<1>9. CASE CleanUp
  <2>1. /\ drill' = [drill EXCEPT !.at = "none"]
        /\ scratch' = Nowhere /\ UNCHANGED dump
    BY <1>9 DEF CleanUp, To
  <2>2. DrillTyped' /\ drill'.at = "none"
    BY <1>2, <2>1
  <2>3. CopiesTyped' /\ CopiesSound'
    BY <1>2, <2>1, <2>2, NowhereIsNoDatabase DEF DInv, CopiesSound, Sound, RowSound
  <2> QED  BY <1>1, <1>3, <2>2, <2>3
<1> QED  BY <1>1, <1>4, <1>5, <1>6, <1>7, <1>8, <1>9 DEF Drill

LEMMA PromoteKeeps ==
  ASSUME DInv, Promote
  PROVE  DInv'
<1>1. scratch \in Database /\ Sound(scratch) /\ Stale(scratch) = {}
  BY DEF DInv, CopiesSound, Promote
<1>2. /\ live' = scratch /\ scratch' = Nowhere /\ knows' = {}
      /\ worker' = [at |-> "idle", request |-> Absent, found |-> FALSE]
      /\ drill' = [drill EXCEPT !.at = "promoted"]
      /\ UNCHANGED <<dump, paid, decided, crashes>>
  BY DEF Promote, Nobody
<1>3. drill' \in [at : {"promoted"}, failed : Nat, left : 0..MaxDrills]
  BY <1>2 DEF DInv, TypeOK
<1>4. TypeOK'
  BY <1>1, <1>2, <1>3 DEF DInv, TypeOK
<1>5. Sound(live)'
  BY <1>1, <1>2 DEF Sound, RowSound
<1>6. CopiesSound'
  BY <1>2, <1>3, NowhereIsNoDatabase DEF DInv, CopiesSound, Sound, RowSound
<1>7. WorkerAgrees' /\ ApprovalsCover'
  BY <1>1, <1>2 DEF DInv, WorkerAgrees, ApprovalsCover, Unpaid, Stale
<1> QED  BY <1>4, <1>5, <1>6, <1>7 DEF DInv

LEMMA AgainKeeps ==
  ASSUME DInv, Again
  PROVE  DInv'
<1>1. /\ drill' = [drill EXCEPT !.at = "none"]
      /\ UNCHANGED <<live, dump, scratch, worker, knows, paid, decided, crashes>>
  BY DEF Again, To, db, Flow
<1>2. drill' \in [at : {"none"}, failed : Nat, left : 0..MaxDrills]
  BY <1>1 DEF DInv, TypeOK
<1>3. TypeOK'
  BY <1>1, <1>2 DEF DInv, TypeOK
<1>4. CopiesSound'
  BY <1>1, <1>2 DEF DInv, CopiesSound, Sound, RowSound
<1>5. Sound(live)' /\ WorkerAgrees' /\ ApprovalsCover'
  BY <1>1 DEF DInv, Sound, RowSound, WorkerAgrees, ApprovalsCover, Unpaid
<1> QED  BY <1>3, <1>4, <1>5 DEF DInv

-----------------------------------------------------------------------------
LEMMA InitSound == Init => DInv
<1> SUFFICES ASSUME Init PROVE DInv
  OBVIOUS
<1>1. live \in Database /\ \A r \in Requests : live.row[r] = NoRow
  BY NoRowIsSound, DrillAssumption DEF Init, Database
<1>2. RowSound(NoRow)
  BY DEF RowSound, NoRow, Waiting, Absent
<1>3. TypeOK
  BY <1>1, DrillAssumption DEF Init, TypeOK, Nobody
<1>4. Sound(live)
  BY <1>1, <1>2 DEF Sound
<1>5. CopiesSound /\ WorkerAgrees
  BY NowhereIsNoDatabase DEF Init, CopiesSound, WorkerAgrees, Nobody
<1>6. ApprovalsCover
  BY <1>1 DEF Init, ApprovalsCover, Unpaid, Nobody, NoRow, Open, Absent
<1> QED  BY <1>3, <1>4, <1>5, <1>6 DEF DInv

LEMMA StepKeeps == DInv /\ [Next]_vars => DInv'
<1> SUFFICES ASSUME DInv, [Next]_vars PROVE DInv'
  OBVIOUS
<1>1. CASE UNCHANGED vars
  <2>1. UNCHANGED <<live, dump, scratch, drill, worker, knows, paid, decided, crashes>>
    BY <1>1 DEF vars, db
  <2>2. CopiesSound'
    BY <2>1, CopiesUntouched DEF DInv
  <2>3. TypeOK' /\ Sound(live)' /\ WorkerAgrees' /\ ApprovalsCover'
    BY <2>1 DEF DInv, TypeOK, Sound, RowSound, WorkerAgrees, ApprovalsCover, Unpaid
  <2> QED  BY <2>2, <2>3 DEF DInv
<1>2. CASE \E r \in Requests : Propose(r) \/ Claim(r) \/ \E approve \in BOOLEAN : Decide(r, approve)
  BY <1>2, ProposeKeeps, ClaimKeeps, DecideKeeps
<1>3. CASE Reserve \/ Call \/ Record \/ WorkerRestarts \/ Migrate
  BY <1>3, ReserveKeeps, CallKeeps, RecordKeeps, WorkerRestartsKeeps, MigrateKeeps
<1>4. CASE Drill \/ Promote \/ Again
  BY <1>4, DrillKeeps, PromoteKeeps, AgainKeeps
<1> QED  BY <1>1, <1>2, <1>3, <1>4 DEF Next

(* DInv holds in every reachable state.                                      *)
THEOREM DrillInvariant == Spec => []DInv
BY InitSound, StepKeeps, PTL DEF Spec

(* Every variable keeps its type; in particular whatever is promoted as the  *)
(* live database (scripts/backup_restore_drill.py) is a complete one.        *)
THEOREM DrillTypeCorrect == Spec => []TypeOK
<1>1. DInv => TypeOK
  BY DEF DInv
<1> QED  BY <1>1, DrillInvariant, PTL

(* However many drills, promotions, restarts and retries: each approval of a *)
(* request is paid at most once, since a restored job never runs and a key   *)
(* that was reserved is only asked about.                                    *)
THEOREM ApprovalPaidOnce == Spec => []PaysOncePerApproval
<1>1. DInv => PaysOncePerApproval
  BY DEF DInv, ApprovalsCover, PaysOncePerApproval
<1> QED  BY <1>1, DrillInvariant, PTL

-----------------------------------------------------------------------------
(* Who is left waiting. A request joins them only when the worker that had   *)
(* its job is gone.                                                          *)
LEMMA StrandedGrows ==
  ASSUME DInv, DInv', Next, NEW q \in Stranded', q \notin Stranded
  PROVE  WorkerRestarts /\ q = worker.request
<1> DEFINE Left(row) == row.state \in Waiting /\ ~Claimable(row)
<1>1. q \in Requests /\ Left(live'.row[q]) /\ (worker'.at = "idle" \/ worker'.request # q)
  BY DEF Stranded, Waiting, Claimable
<1>2. Left(live.row[q]) => worker.at # "idle" /\ worker.request = q
  BY <1>1 DEF Stranded, Waiting
<1>3. ~Left(live.row[q]) => live'.row[q] # live.row[q]
  BY <1>1
<1>4. /\ live'.row[q] \in Row /\ RowSound(live'.row[q])
      /\ live.row[q] \in Row /\ RowSound(live.row[q])
  BY <1>1, RowTypes DEF DInv, TypeOK, Sound
<1>5. live'.row[q].job = "EXECUTING" /\ live'.row[q].attempts = MaxAttempts
  <2>1. live'.row[q].job \in Open /\ ~(live'.row[q].attempts < MaxAttempts)
    BY <1>1, <1>4 DEF RowSound, Claimable
  <2>2. live'.row[q].attempts \in 0..MaxAttempts
    BY <1>4 DEF Row
  <2> QED  BY <1>4, <2>1, <2>2, DrillAssumption DEF RowSound, Open
<1> HIDE DEF Left
<1> live \in Database
  BY DEF DInv, TypeOK
<1>6. ASSUME NEW r \in Requests, Propose(r)
      PROVE  FALSE
  <2>1. Writes(r, [NoRow EXCEPT !.state = "PENDING_APPROVAL"]) /\ worker' = worker
    BY <1>6 DEF Propose
  <2>2. /\ live'.row[r] = [NoRow EXCEPT !.state = "PENDING_APPROVAL"]
        /\ q # r => live'.row[q] = live.row[q]
    BY <1>1, <1>6, <2>1, OneRowChanges
  <2>3. live'.row[r].job = Absent
    BY <2>2 DEF NoRow
  <2> QED  BY <1>1, <1>2, <1>3, <1>5, <2>1, <2>2, <2>3 DEF Absent
<1>7. ASSUME NEW r \in Requests, NEW approve \in BOOLEAN, Decide(r, approve)
      PROVE  FALSE
  <2> DEFINE old == live.row[r]
  <2>1. /\ Writes(r, IF approve THEN [old EXCEPT !.state = "APPROVED", !.job = "QUEUED"]
                                ELSE [old EXCEPT !.state = "REJECTED"])
        /\ worker' = worker /\ old.state = "PENDING_APPROVAL"
    BY <1>7 DEF Decide
  <2>2. old \in Row /\ old.job = Absent
    BY <1>7, <2>1, RowTypes DEF DInv, TypeOK, Sound, RowSound
  <2>3. /\ q # r => live'.row[q] = live.row[q]
        /\ live'.row[r] = IF approve THEN [old EXCEPT !.state = "APPROVED", !.job = "QUEUED"]
                                     ELSE [old EXCEPT !.state = "REJECTED"]
    <3> HIDE DEF old
    <3> QED  BY <1>1, <1>7, <2>1, OneRowChanges
  <2>4. live'.row[r].job \in {Absent, "QUEUED"}
    <3> HIDE DEF old
    <3> QED  BY <2>2, <2>3 DEF Row
  <2> QED  BY <1>1, <1>2, <1>3, <1>5, <2>1, <2>3, <2>4 DEF Absent
<1>8. ASSUME NEW r \in Requests, Claim(r)
      PROVE  FALSE
  <2>1. worker'.at = "claimed" /\ worker'.request = r /\ worker.at = "idle"
    BY <1>8 DEF Claim, Nobody
  <2>2. q # r => live'.row[q] = live.row[q]
    <3>1. Writes(r, [live.row[r] EXCEPT !.job = "EXECUTING", !.attempts = @ + 1])
      BY <1>8 DEF Claim
    <3> QED  BY <1>1, <1>8, <3>1, OneRowChanges
  <2> QED  BY <1>1, <1>2, <1>3, <2>1, <2>2
<1>9. CASE Reserve
  <2>1. worker'.at # "idle" /\ worker'.request = worker.request /\ worker.at # "idle"
    BY <1>9 DEF Reserve, DInv, TypeOK
  <2>2. q # worker.request => live'.row[q] = live.row[q]
    <3>1. live' = live \/ Writes(worker.request, [live.row[worker.request] EXCEPT !.reserved = TRUE])
      BY <1>9 DEF Reserve
    <3>2. worker.request \in Requests
      BY <1>9 DEF Reserve, DInv, TypeOK
    <3> QED  BY <1>1, <3>1, <3>2, OneRowChanges
  <2> QED  BY <1>1, <1>2, <1>3, <2>1, <2>2
<1>10. CASE Call
  <2>1. /\ live' = live /\ worker.at # "idle"
        /\ \E found \in BOOLEAN : worker' = [worker EXCEPT !.at = "record", !.found = found]
    BY <1>10 DEF Call, db
  <2>2. worker'.at # "idle" /\ worker'.request = worker.request
    BY <2>1 DEF DInv, TypeOK
  <2> QED  BY <1>1, <1>2, <1>3, <2>1, <2>2
<1>11. CASE Record
  <2> DEFINE r == worker.request
  <2>1. r \in Requests
    BY <1>11 DEF Record, DInv, TypeOK
  <2>2. q # r => live'.row[q] = live.row[q]
    BY <1>1, <1>11, <2>1, OneRowChanges DEF Record
  <2>3. live'.row[r].job # "EXECUTING"
    <3>1. live.row[r] \in Row
      BY <2>1, RowTypes DEF DInv, TypeOK
    <3>2. \E s \in ActionState, j \in {"QUEUED", "SUCCEEDED", "FAILED"} :
            Writes(r, [live.row[r] EXCEPT !.state = s, !.job = j])
      BY <1>11 DEF Record, ActionState
    <3>3. PICK s \in ActionState, j \in {"QUEUED", "SUCCEEDED", "FAILED"} :
            live'.row[r] = [live.row[r] EXCEPT !.state = s, !.job = j]
      <4> HIDE DEF r
      <4> QED  BY <2>1, <3>2, OneRowChanges
    <3> QED  BY <3>1, <3>3 DEF Row
  <2> QED  BY <1>2, <1>3, <1>5, <2>2, <2>3
<1>12. CASE Migrate
  <2>1. live'.row = live.row /\ worker' = worker
    BY <1>12 DEF Migrate, DInv, TypeOK, Database
  <2> QED  BY <1>1, <1>2, <1>3, <2>1
<1>13. CASE Drill \/ Again
  <2>1. live' = live /\ worker' = worker
    BY <1>13, DrillKeeps DEF Drill, TakeBackup, RestoreIntoScratch, VerifyRestore, To,
           NeutraliseStaleJobs, CheckRemaining, CleanUp, Again, Flow, db
  <2> QED  BY <1>1, <1>2, <1>3, <2>1
<1>14. CASE Promote
  <2>1. live' = scratch /\ Stale(scratch) = {}
    BY <1>14 DEF Promote, DInv, CopiesSound
  <2> QED  BY <1>1, <1>5, <2>1 DEF Stale, Open
<1>15. CASE WorkerRestarts
  <2>1. live' = live
    BY <1>15 DEF WorkerRestarts, db
  <2> QED  BY <1>2, <1>3, <1>15, <2>1
<1> QED  BY <1>6, <1>7, <1>8, <1>9, <1>10, <1>11, <1>12, <1>13, <1>14, <1>15 DEF Next

StrandedByCrashes == Cardinality(Stranded) <= crashes

LEMMA StrandedAreFew ==
  ASSUME DInv, DInv', StrandedByCrashes, [Next]_vars
  PROVE  StrandedByCrashes'
<1>1. /\ IsFiniteSet(Stranded) /\ Cardinality(Stranded) \in Nat
      /\ IsFiniteSet(Stranded') /\ Cardinality(Stranded') \in Nat
  <2>1. IsFiniteSet(Stranded) /\ IsFiniteSet(Stranded')
    BY FS_Subset, DrillAssumption DEF Stranded
  <2> QED  BY <2>1, FS_CardinalityType
<1>2. crashes \in Nat /\ crashes' \in Nat
  <2>1. crashes \in 0..MaxCrashes /\ crashes' \in 0..MaxCrashes
    BY DEF DInv, TypeOK
  <2> QED  BY <2>1
<1>3. CASE UNCHANGED vars
  BY <1>3 DEF vars, db, StrandedByCrashes, Stranded, Claimable
<1>4. CASE Next /\ ~WorkerRestarts
  <2>1. Stranded' \subseteq Stranded
    BY <1>4, StrandedGrows
  <2>2. Cardinality(Stranded') <= Cardinality(Stranded)
    BY <1>1, <2>1, FS_Subset
  <2>3. crashes' = crashes
    BY <1>4 DEF Next, Propose, Decide, Claim, Reserve, Call, Record, Migrate, Promote, Again,
           Drill, TakeBackup, RestoreIntoScratch, VerifyRestore, NeutraliseStaleJobs,
           CheckRemaining, CleanUp, Flow
  <2> QED  BY <1>1, <1>2, <2>2, <2>3 DEF StrandedByCrashes
<1>5. CASE Next /\ WorkerRestarts
  <2>1. Stranded' \subseteq Stranded \union {worker.request}
    BY <1>5, StrandedGrows
  <2>2. /\ IsFiniteSet(Stranded \union {worker.request})
        /\ Cardinality(Stranded \union {worker.request}) <= Cardinality(Stranded) + 1
    <3> HIDE DEF Stranded
    <3>1. /\ IsFiniteSet(Stranded \union {worker.request})
          /\ Cardinality(Stranded \union {worker.request})
               = IF worker.request \in Stranded THEN Cardinality(Stranded) ELSE Cardinality(Stranded) + 1
      BY <1>1, FS_AddElement
    <3> QED  BY <1>1, <3>1
  <2>3. Cardinality(Stranded') <= Cardinality(Stranded \union {worker.request})
    BY <2>1, <2>2, FS_Subset
  <2>4. crashes' = crashes + 1
    BY <1>5 DEF WorkerRestarts
  <2>5. /\ Cardinality(Stranded \union {worker.request}) \in Nat
        /\ Cardinality(Stranded) <= crashes
    BY <2>2, FS_CardinalityType DEF StrandedByCrashes
  <2>6. Cardinality(Stranded') <= crashes + 1
    <3> HIDE DEF Stranded
    <3> QED  BY <1>1, <1>2, <2>2, <2>3, <2>5
  <2> QED  BY <2>4, <2>6 DEF StrandedByCrashes
<1> QED  BY <1>3, <1>4, <1>5

(* A request of the live database is left waiting only for a job whose last  *)
(* attempt a worker died in, and there are at most as many as crashes:       *)
(* neutralising a copy cancels the request with its job, and a declined job  *)
(* is queued again only while the claim will take it.                        *)
THEOREM NobodyIsWaitedFor == Spec => []NothingWaitsForNobody
<1>1. Init => StrandedByCrashes
  <2> SUFFICES ASSUME Init PROVE StrandedByCrashes
    OBVIOUS
  <2>1. Stranded = {}
    BY DEF Init, Stranded, NoRow, Absent
  <2> QED  BY <2>1, FS_EmptySet DEF StrandedByCrashes, Init
<1>2. DInv /\ DInv' /\ StrandedByCrashes /\ [Next]_vars => StrandedByCrashes'
  BY StrandedAreFew
<1>3. DInv /\ StrandedByCrashes => NothingWaitsForNobody
  <2> SUFFICES ASSUME DInv, StrandedByCrashes, NEW r \in Stranded
               PROVE  live.row[r].job = "EXECUTING" /\ live.row[r].attempts = MaxAttempts
    BY DEF NothingWaitsForNobody, StrandedByCrashes
  <2>1. /\ r \in Requests /\ live.row[r].state \in Waiting
        /\ ~Claimable(live.row[r])
    BY DEF Stranded, Waiting
  <2>2. live.row[r] \in Row /\ RowSound(live.row[r])
    BY <2>1, RowTypes DEF DInv, TypeOK, Sound
  <2>3. live.row[r].job \in Open /\ ~(live.row[r].attempts < MaxAttempts)
    BY <2>1, <2>2 DEF RowSound, Claimable
  <2> QED  BY <2>2, <2>3, DrillAssumption DEF RowSound, Row, Open
<1> QED  BY <1>1, <1>2, <1>3, DrillInvariant, PTL DEF Spec
=============================================================================
