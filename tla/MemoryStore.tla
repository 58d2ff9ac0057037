------------------------------ MODULE MemoryStore ------------------------------
(***************************************************************************)
(* Long-term memory: the records and the outbox in memory-db, the two      *)
(* layouts of the vector store that copy them after commit, the requests   *)
(* of the memory service, memory-init, and the Range's two switches that   *)
(* leave something behind.                                                 *)
(*                                                                         *)
(* One step is one transaction or one call to the vector store.  Between   *)
(* any two of them another request may run, the store may be out of reach  *)
(* or the service may die.                                                 *)
(***************************************************************************)
EXTENDS Naturals, Sequences, FiniteSets

CONSTANTS
  Records,          \* identifiers of mem.records
  Users,            \* owners, each of one organisation
  Requests,         \* request threads of the memory service
  InitWhileServing, \* memory-init also runs beside requests, as the Range starts it
  MaxFaults,        \* how often a call fails or a process dies
  MaxArms,          \* how often the Range arms a switch
  None              \* SQL NULL, or no point

Status == {"unconfirmed", "confirmed"}

ASSUME MemoryAssumption ==
  /\ InitWhileServing \in BOOLEAN
  /\ MaxFaults \in Nat /\ MaxArms \in Nat
  /\ None \notin Records \cup Users \cup Status \cup {"user", "auto"}

VARIABLES
  record,   \* mem.records
  outbox,   \* mem.outbox: the pairs of record and operation with a row not applied
  point,    \* the status in each point's payload, per layout
  setting,  \* mem.settings, as far as writing and forgetting read them
  request,  \* the requests in flight
  init,     \* the memory-init job; "full": it began while forgetting was complete
  born,     \* history: records inserted as confirmed by write.auto_confirm
  vouched,  \* history: records whose owner confirmed them
  faults,   \* how many faults may still strike
  arms      \* how many switches may still be armed

vars == <<record, outbox, point, setting, request, init, born, vouched, faults, arms>>

LAYOUTS == <<"per_tenant", "shared">>
Layouts == {"per_tenant", "shared"}
Op      == {"upsert", "delete"}

RecordRow    == [state : {"absent", "live", "forgotten"}, owner : Users \cup {None},
                 status : Status \cup {None}, via : {"user", "auto", None},
                 derived_from : Records \cup {None}]
RequestState == [step : {"idle", "write", "upsert", "delete", "insert"},
                 user : Users \cup {None}, records : SUBSET Records,
                 status : Status \cup {None}, todo : Seq(Layouts)]
InitState    == [step : {"idle", "list", "fill", "scope", "remove"},
                 live : [Records -> Status \cup {None}],
                 missing : SUBSET Records, todo : Seq(Layouts), full : BOOLEAN]

NoRecord  == [state |-> "absent", owner |-> None, status |-> None, via |-> None,
              derived_from |-> None]
NoRequest == [step |-> "idle", user |-> None, records |-> {}, status |-> None, todo |-> << >>]
InitIdle  == [step |-> "idle", live |-> [r \in Records |-> None], missing |-> {}, todo |-> << >>,
              full |-> FALSE]

Init ==
  /\ record = [r \in Records |-> NoRecord]
  /\ outbox = {}
  /\ point = [l \in Layouts |-> [r \in Records |-> None]]
  /\ setting = [auto |-> "off", scope |-> "all"]
  /\ request = [q \in Requests |-> NoRequest]
  /\ init = InitIdle
  /\ born = {}
  /\ vouched = {}
  /\ faults = MaxFaults
  /\ arms = MaxArms

Strikes == faults > 0 /\ faults' = faults - 1

Live(r) == record[r].state = "live"

(* records_read: your own, in your organisation, not forgotten.            *)
Visible(u, r) == Live(r) /\ record[r].owner = u

(* The recursive tree: S, and the records of T that derive from one of S,  *)
(* directly or through others of T.                                        *)
Derived(S, T) ==
  {r \in Records : \A C \in SUBSET Records :
     S \subseteq C /\ (\A t \in T : record[t].derived_from \in C => t \in C) => r \in C}

(* memory-init completes before the service starts; the Range starts it    *)
(* again beside a running service.                                         *)
Serving == InitWhileServing \/ init.step = "idle"
Quiet   == \A q \in Requests : request[q].step = "idle"

-----------------------------------------------------------------------------
(***************************************************************************)
(* The memory service.                                                     *)
(***************************************************************************)
Enqueue(S, op) == outbox' = outbox \cup (S \X {op})

(* The request commits a record and goes on to copy it.                    *)
Copies(q, u, r, status) ==
  request' = [request EXCEPT ![q] = [step |-> "upsert", user |-> u, records |-> {r},
                                     status |-> status, todo |-> LAYOUTS]]

(* remember, up to its commit: the agent's route, unconfirmed unless        *)
(* write.auto_confirm is on when the row is written.                       *)
Remember(q, u) ==
  /\ Serving /\ request[q].step = "idle"
  /\ request' = [request EXCEPT ![q] = [NoRequest EXCEPT !.step = "write", !.user = u,
                    !.status = IF setting.auto = "on" THEN "confirmed" ELSE "unconfirmed"]]
  /\ UNCHANGED <<record, outbox, point, setting, init, born, vouched, faults, arms>>

(* remember, its commit: the row is there for others from now on, whatever *)
(* the switch has become since.                                            *)
CommitRemembered(q, r) ==
  LET status == request[q].status
      auto   == status = "confirmed"
  IN /\ request[q].step = "write"
     /\ record[r].state = "absent"
     /\ record' = [record EXCEPT ![r] = [state |-> "live", owner |-> request[q].user,
                     status |-> status, via |-> IF auto THEN "auto" ELSE None,
                     derived_from |-> None]]
     /\ born' = IF auto THEN born \cup {r} ELSE born
     /\ Enqueue({r}, "upsert")
     /\ Copies(q, request[q].user, r, status)
     /\ UNCHANGED <<point, setting, init, vouched, faults, arms>>

(* confirm: the user's confirmation, delivered by the runtime.             *)
Confirm(q, u, r) ==
  /\ Serving /\ request[q].step = "idle"
  /\ Visible(u, r) /\ record[r].status = "unconfirmed"
  /\ record' = [record EXCEPT ![r].status = "confirmed", ![r].via = "user"]
  /\ vouched' = vouched \cup {r}
  /\ Enqueue({r}, "upsert")
  /\ Copies(q, u, r, "confirmed")
  /\ UNCHANGED <<point, setting, init, born, faults, arms>>

(* summarise, up to its read of the source.                                *)
ReadSource(q, u, r) ==
  /\ Serving /\ request[q].step = "idle"
  /\ Visible(u, r)
  /\ request' = [request EXCEPT ![q] = [NoRequest EXCEPT !.step = "insert", !.user = u,
                                          !.records = {r}, !.status = record[r].status]]
  /\ UNCHANGED <<record, outbox, point, setting, init, born, vouched, faults, arms>>

(* Mutant: a summary is the runtime's own, and so confirmed.               *)
SummaryStatusConfirmed(q) == "confirmed"

(* What a summary is born as: whatever its source was when it was read.    *)
SummaryStatus(q) == request[q].status

(* summarise, from its insert to its commit.  The foreign key holds for a  *)
(* forgotten source too.                                                   *)
InsertSummary(q, r) ==
  LET status == SummaryStatus(q)
      source == CHOOSE s \in request[q].records : TRUE
  IN /\ request[q].step = "insert"
     /\ record[r].state = "absent"
     /\ record' = [record EXCEPT ![r] = [state |-> "live", owner |-> request[q].user,
                     status |-> status, via |-> IF status = "confirmed" THEN "user" ELSE None,
                     derived_from |-> source]]
     /\ Enqueue({r}, "upsert")
     /\ Copies(q, request[q].user, r, status)
     /\ UNCHANGED <<point, setting, init, born, vouched, faults, arms>>

(* forget, through mem.forget_records: the record alone, or the whole tree *)
(* that the caller can see.                                                *)
Forget(q, u, r) ==
  LET everything == setting.scope # "primary"
      removed == IF everything THEN Derived({r}, {s \in Records : Visible(u, s)}) ELSE {r}
  IN /\ Serving /\ request[q].step = "idle"
     /\ Visible(u, r)
     /\ record' = [s \in Records |-> IF s \in removed /\ Visible(u, s)
                                       THEN [record[s] EXCEPT !.state = "forgotten"]
                                       ELSE record[s]]
     /\ IF everything
          THEN /\ Enqueue(removed, "delete")
               /\ request' = [request EXCEPT ![q] = [NoRequest EXCEPT !.step = "delete",
                                !.user = u, !.records = removed, !.todo = LAYOUTS]]
          ELSE UNCHANGED <<outbox, request>>
     /\ UNCHANGED <<point, setting, init, born, vouched, faults, arms>>

(* _apply_upserts and _apply_deletes: one call per layout, in order.       *)
CallStore(q) ==
  LET l == Head(request[q].todo)
  IN /\ request[q].todo # << >>
     /\ point' = [point EXCEPT ![l] = [r \in Records |->
                    IF r \notin request[q].records THEN @[r]
                    ELSE IF request[q].step = "upsert" THEN request[q].status ELSE None]]
     /\ request' = [request EXCEPT ![q].todo = Tail(@)]
     /\ UNCHANGED <<record, outbox, setting, init, born, vouched, faults, arms>>

(* Mutant: the outbox row is marked before the second layout is written.   *)
CopiedToFirst(q) == Len(request[q].todo) < Len(LAYOUTS)

Copied(q) == request[q].todo = << >>

(* _mark_applied: every row of that operation on those records.            *)
MarkApplied(q) ==
  /\ request[q].step \in Op
  /\ Copied(q)
  /\ outbox' = outbox \ (request[q].records \X {request[q].step})
  /\ request' = [request EXCEPT ![q] = NoRequest]
  /\ UNCHANGED <<record, point, setting, init, born, vouched, faults, arms>>

(* The vector store, the embedding model or memory-db is out of reach, or  *)
(* the service dies: what committed stays, the rest is not done.           *)
RequestFails(q) ==
  /\ request[q].step # "idle"
  /\ Strikes
  /\ request' = [request EXCEPT ![q] = NoRequest]
  /\ UNCHANGED <<record, outbox, point, setting, init, born, vouched, arms>>

-----------------------------------------------------------------------------
(***************************************************************************)
(* memory-init.                                                            *)
(***************************************************************************)

(* The live records made from a forgotten one.                             *)
MadeFromForgotten ==
  {r \in Records : Live(r) /\ record[r].derived_from # None
                          /\ record[record[r].derived_from].state = "forgotten"}

(* The live records that derive from a forgotten one.                      *)
Survivors == Derived(MadeFromForgotten, {r \in Records : Live(r)})

(* complete_forgets: one transaction, and only while forgetting is set to  *)
(* be complete.  No outbox row is written.                                 *)
InitStarts ==
  /\ init.step = "idle"
  /\ InitWhileServing \/ Quiet
  /\ record' = IF setting.scope # "all" THEN record
                ELSE [r \in Records |-> IF r \in Survivors
                                         THEN [record[r] EXCEPT !.state = "forgotten"]
                                         ELSE record[r]]
  /\ init' = [InitIdle EXCEPT !.step = "list", !.full = setting.scope = "all"]
  /\ UNCHANGED <<outbox, point, setting, request, born, vouched, faults, arms>>

(* setup: the live records as they are now, and what the first layout      *)
(* lacks of them.                                                          *)
InitLists ==
  LET live == [r \in Records |-> IF Live(r) THEN record[r].status ELSE None]
  IN /\ init.step = "list"
     /\ init' = [init EXCEPT !.step = "fill", !.live = live, !.todo = LAYOUTS,
                   !.missing = {r \in Records : live[r] # None /\ point["per_tenant"][r] = None}]
     /\ UNCHANGED <<record, outbox, point, setting, request, born, vouched, faults, arms>>

(* setup: one missing point is written, from the listed record.            *)
InitWrites(r) ==
  /\ init.step = "fill" /\ r \in init.missing
  /\ point' = [point EXCEPT ![Head(init.todo)][r] = init.live[r]]
  /\ init' = [init EXCEPT !.missing = @ \ {r}]
  /\ UNCHANGED <<record, outbox, setting, request, born, vouched, faults, arms>>

(* setup: on to the next layout, whose points are listed only now.         *)
InitNextLayout ==
  /\ init.step = "fill" /\ init.missing = {}
  /\ init' = IF Len(init.todo) > 1
               THEN [init EXCEPT !.todo = Tail(@),
                      !.missing = {r \in Records : init.live[r] # None
                                        /\ point[Head(Tail(init.todo))][r] = None}]
               ELSE [init EXCEPT !.step = "scope", !.todo = << >>]
  /\ UNCHANGED <<record, outbox, point, setting, request, born, vouched, faults, arms>>

(* _remove_forgotten, first half: nothing at all while the switch is       *)
(* armed, else the live records are listed again.                          *)
InitListsAgain ==
  /\ init.step = "scope"
  /\ init' = IF setting.scope # "all" THEN InitIdle
             ELSE [init EXCEPT !.step = "remove", !.todo = LAYOUTS,
                    !.live = [r \in Records |-> IF Live(r) THEN record[r].status ELSE None]]
  /\ UNCHANGED <<record, outbox, point, setting, request, born, vouched, faults, arms>>

(* Mutant: the outbox is trusted to know which points are stale.           *)
StaleInOutbox(r) == init.live[r] = None /\ <<r, "delete">> \in outbox

Stale(r) == init.live[r] = None

(* _remove_forgotten, second half: in each layout, the points that are not *)
(* among the listed records.                                               *)
InitRemoves ==
  /\ init.step = "remove"
  /\ point' = [point EXCEPT ![Head(init.todo)] = [r \in Records |->
                 IF Stale(r) THEN None ELSE @[r]]]
  /\ init' = IF Len(init.todo) > 1 THEN [init EXCEPT !.todo = Tail(@)] ELSE InitIdle
  /\ UNCHANGED <<record, outbox, setting, request, born, vouched, faults, arms>>

(* A call fails and the job exits with an error, or its process dies.      *)
InitFails ==
  /\ init.step # "idle"
  /\ Strikes
  /\ init' = InitIdle
  /\ UNCHANGED <<record, outbox, point, setting, request, born, vouched, arms>>

-----------------------------------------------------------------------------
(***************************************************************************)
(* The Range: the two switches of memory-db that outlive their restore.    *)
(***************************************************************************)
Arm(key, value) ==
  /\ arms > 0 /\ arms' = arms - 1
  /\ setting' = [setting EXCEPT ![key] = value]
  /\ UNCHANGED <<record, outbox, point, request, init, born, vouched, faults>>

ArmAutoConfirm == setting.auto = "off" /\ Arm("auto", "on")
ArmPrimaryOnly == setting.scope = "all" /\ Arm("scope", "primary")

(* _restore_auto_confirm sets the switch back in one transaction and       *)
(* revokes in another.                                                     *)
RestoreAutoConfirm ==
  /\ setting.auto = "on"
  /\ setting' = [setting EXCEPT !.auto = "revoking"]
  /\ UNCHANGED <<record, outbox, point, request, init, born, vouched, faults, arms>>

RevokeAutoConfirmations ==
  /\ setting.auto = "revoking"
  /\ record' = [r \in Records |-> IF Live(r) /\ record[r].via = "auto"
                                   THEN [record[r] EXCEPT !.status = "unconfirmed", !.via = None]
                                   ELSE record[r]]
  /\ setting' = [setting EXCEPT !.auto = "off"]
  /\ UNCHANGED <<outbox, point, request, init, born, vouched, faults, arms>>

(* _restore_forget_scope: the switch here; memory-init is started next.    *)
RestoreForgetScope ==
  /\ setting.scope = "primary"
  /\ setting' = [setting EXCEPT !.scope = "all"]
  /\ UNCHANGED <<record, outbox, point, request, init, born, vouched, faults, arms>>

-----------------------------------------------------------------------------
Next ==
  \/ \E q \in Requests, u \in Users, r \in Records :
       Confirm(q, u, r) \/ ReadSource(q, u, r) \/ Forget(q, u, r)
  \/ \E q \in Requests, u \in Users : Remember(q, u)
  \/ \E q \in Requests, r \in Records : CommitRemembered(q, r) \/ InsertSummary(q, r)
  \/ \E q \in Requests : CallStore(q) \/ MarkApplied(q) \/ RequestFails(q)
  \/ InitStarts \/ InitLists \/ InitNextLayout \/ InitListsAgain \/ InitRemoves \/ InitFails
  \/ \E r \in Records : InitWrites(r)
  \/ ArmAutoConfirm \/ RestoreAutoConfirm \/ RevokeAutoConfirmations
  \/ ArmPrimaryOnly \/ RestoreForgetScope

Spec == Init /\ [][Next]_vars

-----------------------------------------------------------------------------
(***************************************************************************)
(* Properties.                                                             *)
(***************************************************************************)

(* Every row, point and process has the shape its table or code gives it.  *)
TypeOK ==
  /\ record \in [Records -> RecordRow]
  /\ outbox \subseteq Records \X Op
  /\ point \in [Layouts -> [Records -> Status \cup {None}]]
  /\ setting \in [auto : {"off", "on", "revoking"}, scope : {"all", "primary"}]
  /\ request \in [Requests -> RequestState]
  /\ init \in InitState
  /\ born \subseteq Records /\ vouched \subseteq Records
  /\ faults \in Nat /\ arms \in Nat

(* A live record that a layout does not hold has an upsert waiting for it: *)
(* whatever fails or dies after the commit, the outbox still names it.     *)
(* The mark of one request covers the rows of others, and each request     *)
(* writes two layouts before it marks.                                     *)
MissingIsPending ==
  \A r \in Records, l \in Layouts :
    Live(r) /\ point[l][r] = None => <<r, "upsert">> \in outbox

(* The owner confirmed r, or something r was derived from.                 *)
VouchedFor(r) == \E s \in vouched : r \in Derived({s}, Records)

(* The switch that lets the agent confirm its own memories confirmed r, or *)
(* something r was derived from.                                           *)
SwitchedIn(r) == \E s \in born : r \in Derived({s}, Records)

(* What is confirmed was vouched for by its owner, or was confirmed by the *)
(* armed switch and says so, so that the next revoke reaches it, or was    *)
(* summarised from such a memory.  The last case outlives the restore: the *)
(* summary is born confirmed with confirmed_via 'user', and the revoke     *)
(* touches 'auto' alone.  Nothing else the agent wrote becomes permanent   *)
(* by being summarised, copied, revoked or recovered, although the status  *)
(* of a summary is one read in an earlier statement than its insert.       *)
ConfirmedWasVouched ==
  \A r \in Records : record[r].status = "confirmed" =>
    \/ VouchedFor(r)
    \/ record[r].via = "auto"
    \/ record[r].derived_from \in Records /\ SwitchedIn(record[r].derived_from)

(* What supportpilot-memory-reconcile reports: forgotten records with a    *)
(* point and live ones without.  Content never changes, so its hash cannot *)
(* differ, and every point has a record.                                   *)
Named(r) ==
  \E l \in Layouts : \/ record[r].state = "forgotten" /\ point[l][r] # None
                     \/ Live(r) /\ point[l][r] = None

(* memory-init, run from start to end while forgetting is complete, leaves *)
(* nothing for the check to name and no summary of a forgotten memory,     *)
(* whatever requests, outages and the armed switch had left behind.        *)
InitRepairs ==
  [][init.step = "remove" /\ init.full /\ init'.step = "idle" /\ faults' = faults
       => (Survivors = {} /\ \A r \in Records : ~Named(r))']_vars

=============================================================================
