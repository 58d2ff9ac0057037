------------------------- MODULE MemoryStore_proofs -------------------------
(***************************************************************************)
(* Proofs about MemoryStore.  MemoryInv is inductive; the safety           *)
(* properties, and the repair that memory-init makes, follow from it.      *)
(***************************************************************************)
EXTENDS MemoryInvariant, TLAPS

(* The two layouts, in the order in which they are written.                *)
LEMMA TodoFacts ==
  /\ LAYOUTS # << >> /\ <<"shared">> # << >> /\ LAYOUTS # <<"shared">>
  /\ Head(LAYOUTS) = "per_tenant" /\ Tail(LAYOUTS) = <<"shared">>
  /\ Head(<<"shared">>) = "shared" /\ Tail(<<"shared">>) = << >>
  /\ Len(LAYOUTS) = 2 /\ Len(<<"shared">>) = 1
  /\ LAYOUTS \in Seq(Layouts) /\ <<"shared">> \in Seq(Layouts) /\ << >> \in Seq(Layouts)
BY DEF LAYOUTS, Layouts

(* The tree holds what it starts from and whatever of T was made from one  *)
(* of its members, and nothing outside the two.                            *)
LEMMA DerivedFacts ==
  ASSUME NEW S \in SUBSET Records, NEW T \in SUBSET Records
  PROVE  /\ S \subseteq Derived(S, T)
         /\ Derived(S, T) \subseteq S \cup T
         /\ \A t \in T : record[t].derived_from \in Derived(S, T) => t \in Derived(S, T)
<1>1. S \subseteq Derived(S, T)
  BY DEF Derived
<1>2. Derived(S, T) \subseteq S \cup T
  <2> S \cup T \in SUBSET Records
    OBVIOUS
  <2> QED
    BY DEF Derived
<1>3. ASSUME NEW t \in T, record[t].derived_from \in Derived(S, T)
      PROVE  t \in Derived(S, T)
  BY <1>3 DEF Derived
<1> QED
  BY <1>1, <1>2, <1>3

(* Nothing derives from nothing.                                           *)
LEMMA DerivedEmpty ==
  ASSUME NEW T \in SUBSET Records
  PROVE  Derived({}, T) = {}
<1>1. {} \in SUBSET Records
  OBVIOUS
<1>2. ASSUME NEW r \in Derived({}, T) PROVE FALSE
  <2>1. {} \subseteq {} /\ (\A t \in T : record[t].derived_from \in {} => t \in {}) => r \in {}
    BY <1>1, <1>2 DEF Derived
  <2> QED
    BY <2>1
<1> QED
  BY <1>2

(* A step that keeps what each record was made from keeps the tree.        *)
LEMMA DerivedGrows ==
  ASSUME NEW s \in Records,
         \A t \in Records : record[t].derived_from \in Records
                              => record'[t].derived_from = record[t].derived_from
  PROVE  Derived({s}, Records) \subseteq Derived({s}, Records)'
<1> SUFFICES ASSUME NEW r \in Records, r \in Derived({s}, Records),
                    NEW C \in SUBSET Records, {s} \subseteq C,
                    \A t \in Records : record'[t].derived_from \in C => t \in C
             PROVE  r \in C
  BY DEF Derived
<1>1. \A t \in Records : record[t].derived_from \in C => t \in C
  OBVIOUS
<1> QED
  BY <1>1 DEF Derived

(* And with it what was vouched for, or comes from the switch.             *)
Grows(r) == (VouchedFor(r) => VouchedFor(r)') /\ (SwitchedIn(r) => SwitchedIn(r)')

LEMMA VouchedGrows ==
  ASSUME TypeOK,
         \A t \in Records : record[t].derived_from \in Records
                              => record'[t].derived_from = record[t].derived_from,
         vouched \subseteq vouched', born \subseteq born'
  PROVE  \A r \in Records : Grows(r)
BY DerivedGrows DEF Grows, VouchedFor, SwitchedIn, TypeOK

(* What holds of a record in this way holds of what is made from it.       *)
LEMMA VouchedInherits ==
  ASSUME TypeOK, NEW r \in Records, record[r].derived_from \in Records
  PROVE  /\ VouchedFor(record[r].derived_from) => VouchedFor(r)
         /\ SwitchedIn(record[r].derived_from) => SwitchedIn(r)
<1>1. ASSUME NEW s \in vouched \cup born, record[r].derived_from \in Derived({s}, Records)
      PROVE  r \in Derived({s}, Records)
  <2>1. s \in Records
    BY DEF TypeOK
  <2> QED
    BY <1>1, <2>1, DerivedFacts
<1> QED
  BY <1>1 DEF VouchedFor, SwitchedIn

(* A record confirmed itself.                                              *)
LEMMA VouchedItself ==
  ASSUME NEW r \in Records
  PROVE  (r \in vouched => VouchedFor(r)) /\ (r \in born => SwitchedIn(r))
<1>1. r \in Derived({r}, Records)
  BY DerivedFacts
<1> QED
  BY <1>1 DEF VouchedFor, SwitchedIn

(* Whatever is confirmed may give its status to a summary.                 *)
LEMMA ConfirmedIsSourced ==
  ASSUME TypeOK, VouchesAgree, NEW r \in Records, record[r].status = "confirmed"
  PROVE  Sourced(r)
<1>1. CASE VouchedFor(r)
  BY <1>1 DEF Sourced
<1>2. CASE record[r].via = "auto"
  BY <1>2, VouchedItself DEF Sourced, VouchesAgree
<1>3. CASE record[r].derived_from \in Records /\ SwitchedIn(record[r].derived_from)
  BY <1>3, VouchedInherits DEF Sourced
<1> QED
  BY <1>1, <1>2, <1>3 DEF VouchesAgree, ConfirmedWasVouched

(* What ConfirmedWasVouched says of one confirmed record.                  *)
Accounted(r) ==
  \/ VouchedFor(r)
  \/ record[r].via = "auto"
  \/ record[r].derived_from \in Records /\ SwitchedIn(record[r].derived_from)

(* A step that confirms nothing and keeps what the confirmed records say   *)
(* keeps them accounted for.                                               *)
LEMMA StillAccounted ==
  ASSUME VouchesAgree, NEW r \in Records, \A t \in Records : Grows(t),
         /\ record'[r].status = record[r].status /\ record'[r].via = record[r].via
         /\ record'[r].derived_from = record[r].derived_from
  PROVE  (record[r].status = "confirmed" => Accounted(r))'
<1> SUFFICES ASSUME record[r].status = "confirmed"
             PROVE  Accounted(r)'
  OBVIOUS
<1>1. CASE VouchedFor(r)
  BY <1>1 DEF Grows, Accounted
<1>2. CASE record[r].via = "auto"
  BY <1>2 DEF Accounted
<1>3. ASSUME NEW d \in Records, d = record[r].derived_from, SwitchedIn(d)
      PROVE  Accounted(r)'
  <2>1. SwitchedIn(d)' /\ record'[r].derived_from = d
    BY <1>3 DEF Grows
  <2> QED
    BY <2>1 DEF Accounted, SwitchedIn
<1> QED
  BY <1>1, <1>2, <1>3 DEF VouchesAgree, ConfirmedWasVouched

-----------------------------------------------------------------------------
LEMMA InitMemoryInv == Init => MemoryInv
<1> SUFFICES ASSUME Init PROVE MemoryInv
  OBVIOUS
<1>1. TypeOK
  BY MemoryAssumption, TodoFacts
  DEF Init, TypeOK, NoRecord, RecordRow, NoRequest, RequestState, InitIdle, InitState,
      Status, Op, Layouts
<1>2. \A q \in Requests : RequestAgrees(q)
  BY DEF Init, RequestAgrees, NoRequest
<1>3. VouchesAgree
  BY MemoryAssumption DEF Init, VouchesAgree, ConfirmedWasVouched, NoRecord, NoRequest, Status
<1>4. \A q \in Requests : CopiesAgree(q)
  BY DEF Init, CopiesAgree, NoRequest
<1>5. InitAgrees
  BY DEF Init, InitAgrees, InitIdle
<1>6. MissingIsPending
  BY DEF Init, MissingIsPending, Live, NoRecord
<1> QED
  BY <1>1, <1>2, <1>3, <1>4, <1>5, <1>6 DEF MemoryInv

-----------------------------------------------------------------------------
(* Steps of the memory service.                                            *)

(* A record is born and is to be copied: remember, and the insert of       *)
(* summarise.                                                              *)
LEMMA NewRecordStep ==
  ASSUME MemoryInv, Serving,
         NEW q \in Requests, NEW u \in Users, NEW r \in Records, NEW status \in Status,
         NEW via \in {"user", "auto", None}, NEW source \in Records \cup {None},
         request[q].step \in {"write", "insert"},
         record[r].state = "absent",
         record' = [record EXCEPT ![r] = [state |-> "live", owner |-> u, status |-> status,
                                          via |-> via, derived_from |-> source]],
         born' \in {born, born \cup {r}},
         Enqueue({r}, "upsert"),
         Copies(q, u, r, status),
         UNCHANGED <<point, setting, init, vouched, faults, arms>>,
         via = "auto" => r \in born',
         status = "confirmed" => via = "auto" \/ (source \in Records /\ Sourced(source))
  PROVE  MemoryInv'
<1> USE MemoryAssumption
<1>0. TypeOK /\ record \in [Records -> RecordRow] /\ request \in [Requests -> RequestState]
  BY DEF MemoryInv, TypeOK
<1>a. record[r] = NoRecord
  BY DEF MemoryInv, VouchesAgree
<1>b. /\ record'[r] = [state |-> "live", owner |-> u, status |-> status,
                        via |-> via, derived_from |-> source]
      /\ \A s \in Records \ {r} : record'[s] = record[s]
  BY <1>0
<1>c. /\ request'[q] = [step |-> "upsert", user |-> u, records |-> {r},
                        status |-> status, todo |-> LAYOUTS]
      /\ \A p \in Requests \ {q} : request'[p] = request[p]
  BY <1>0 DEF Copies
<1>1. TypeOK'
  <2>1. record' \in [Records -> RecordRow]
    BY <1>0 DEF RecordRow
  <2>2. request' \in [Requests -> RequestState]
    BY <1>0, TodoFacts DEF Copies, RequestState
  <2> QED
    BY <1>0, <2>1, <2>2 DEF TypeOK, Enqueue, Op
<1>2. \A p \in Requests : RequestAgrees(p)'
  <2>1. RequestAgrees(q)'
    BY <1>b, <1>c, TodoFacts DEF RequestAgrees, Op
  <2>2. ASSUME NEW p \in Requests \ {q} PROVE RequestAgrees(p)'
    <3>1. RequestAgrees(p)
      BY DEF MemoryInv
    <3>2. request[p].records \subseteq Records
      BY <1>0 DEF RequestState
    <3> QED
      BY <1>b, <1>c, <3>1, <3>2 DEF RequestAgrees
  <2> QED
    BY <2>1, <2>2
<1>3. VouchesAgree'
  <2>1. \A t \in Records : Grows(t)
    <3>1. \A t \in Records : record[t].derived_from \in Records
                               => record'[t].derived_from = record[t].derived_from
      BY <1>a, <1>b DEF NoRecord
    <3> QED
      BY <1>0, <3>1, VouchedGrows
  <2>2. status = "confirmed" => Accounted(r)'
    <3>1. CASE source \in Records /\ VouchedFor(source)
      <4>1. VouchedFor(source)'
        BY <2>1, <3>1 DEF Grows
      <4>2. (record[r].derived_from = source)'
        BY <1>b
      <4>3. (TypeOK /\ record[r].derived_from \in Records /\ VouchedFor(record[r].derived_from)
               => VouchedFor(r))'
        BY VouchedInherits, PTL
      <4> QED
        BY <1>1, <3>1, <4>1, <4>2, <4>3 DEF Accounted
    <3>2. CASE source \in Records /\ SwitchedIn(source)
      <4>1. SwitchedIn(source)' /\ record'[r].derived_from = source
        BY <1>b, <2>1, <3>2 DEF Grows
      <4> QED
        BY <3>2, <4>1 DEF Accounted, SwitchedIn
    <3>3. CASE via = "auto"
      BY <1>b, <3>3 DEF Accounted
    <3> QED
      BY <3>1, <3>2, <3>3 DEF Sourced
  <2>3. VouchesAgree
    BY DEF MemoryInv
  <2>4. \A t \in Records : record'[t].state = "absent" => record'[t] = NoRecord
    BY <1>b, <2>3 DEF VouchesAgree
  <2>5. \A t \in Records : record'[t].state # "absent" => record'[t].status \in Status
    BY <1>b, <2>3 DEF VouchesAgree
  <2>6. /\ ConfirmedWasVouched'
        /\ \A t \in Records : record'[t].via = "auto" => t \in born'
    <3>1. \A t \in Records \ {r} : record'[t] = record[t] /\ (record'[t].via = "auto" => t \in born')
      BY <1>b, <2>3 DEF VouchesAgree
    <3>2. record'[r].via = via /\ record'[r].status = status /\ record'[r].derived_from = source
      BY <1>b
    <3>3. ConfirmedWasVouched'
      BY <2>1, <2>2, <2>3, <3>1, <3>2, StillAccounted DEF ConfirmedWasVouched, Accounted
    <3>4. \A t \in Records : record'[t].via = "auto" => t \in born'
      BY <3>1, <3>2
    <3> QED
      BY <3>3, <3>4
  <2>7. \A p \in Requests : request'[p].step = "insert" /\ request'[p].status = "confirmed" =>
          \A s \in request'[p].records : Sourced(s)'
    BY <1>0, <1>c, <2>1, <2>3 DEF VouchesAgree, RequestState, Sourced, Grows
  <2> QED
    BY <2>4, <2>5, <2>6, <2>7 DEF VouchesAgree
<1>4. ASSUME ~InitWhileServing
      PROVE  (\A p \in Requests : CopiesAgree(p)') /\ InitAgrees' /\ MissingIsPending'
  <2>1. \A p \in Requests : CopiesAgree(p)'
    BY <1>0, <1>4, <1>b, <1>c DEF MemoryInv, CopiesAgree, Ahead, Live, RequestState, RequestAgrees
  <2>2. InitAgrees'
    BY <1>4 DEF Serving, InitAgrees
  <2>3. MissingIsPending'
    BY <1>0, <1>4, <1>b DEF MemoryInv, MissingIsPending, Live, Enqueue
  <2> QED
    BY <2>1, <2>2, <2>3
<1> QED
  BY <1>1, <1>2, <1>3, <1>4 DEF MemoryInv

(* Nobody vouches, and no record changes.                                  *)
LEMMA SameVouches ==
  ASSUME UNCHANGED <<record, vouched, born>>
  PROVE  /\ \A r \in Records : Sourced(r)' <=> Sourced(r)
         /\ ConfirmedWasVouched' <=> ConfirmedWasVouched
         /\ Survivors' = Survivors
<1>1. \A r \in Records : /\ VouchedFor(r)' <=> VouchedFor(r)
                         /\ SwitchedIn(r)' <=> SwitchedIn(r)
  BY DEF VouchedFor, SwitchedIn, Derived
<1>2. Survivors' = Survivors
  BY DEF Survivors, Derived, MadeFromForgotten, Live
<1> QED
  BY <1>1, <1>2 DEF Sourced, ConfirmedWasVouched

(* A request reads, answers, or is cut off: it alone changes.              *)
LEMMA RequestStep ==
  ASSUME MemoryInv, NEW q \in Requests, NEW x \in RequestState,
         request' = [request EXCEPT ![q] = x],
         x.step \in {"idle", "write", "insert"}, x.todo = << >>,
         x.step # "idle" => Serving,
         x.step # "idle" => x.user \in Users /\ x.status \in Status,
         x.step = "insert" =>
           \E s \in Records : x.records = {s} /\ (x.status = "confirmed" => Sourced(s)),
         UNCHANGED <<record, outbox, point, setting, init, born, vouched, arms>>,
         faults' \in Nat
  PROVE  MemoryInv'
<1>0. TypeOK /\ request \in [Requests -> RequestState]
  BY DEF MemoryInv, TypeOK
<1>c. /\ request'[q] = x
      /\ \A p \in Requests \ {q} : request'[p] = request[p]
  BY <1>0
<1>1. TypeOK'
  BY <1>0 DEF TypeOK
<1>2. \A p \in Requests : RequestAgrees(p)'
  BY <1>c DEF MemoryInv, RequestAgrees
<1>3. VouchesAgree'
  <2>1. VouchesAgree /\ (ConfirmedWasVouched' <=> ConfirmedWasVouched)
        /\ \A r \in Records : Sourced(r)' <=> Sourced(r)
    BY SameVouches DEF MemoryInv
  <2>2. \A p \in Requests : request'[p].step = "insert" /\ request'[p].status = "confirmed" =>
          \A s \in request'[p].records : Sourced(s)'
    BY <1>0, <1>c, <2>1 DEF VouchesAgree, RequestState, Sourced, Grows
  <2> QED
    BY <2>1, <2>2 DEF VouchesAgree
<1>4. ASSUME ~InitWhileServing
      PROVE  (\A p \in Requests : CopiesAgree(p)') /\ InitAgrees' /\ MissingIsPending'
  <2>1. \A p \in Requests : CopiesAgree(p)'
    BY <1>4, <1>c DEF MemoryInv, CopiesAgree, Live
  <2>2. InitAgrees'
    BY <1>4, <1>c, SameVouches DEF MemoryInv, Serving, InitAgrees, Quiet, Live
  <2>3. MissingIsPending'
    BY <1>4 DEF MemoryInv, MissingIsPending, Live
  <2> QED
    BY <2>1, <2>2, <2>3
<1> QED
  BY <1>1, <1>2, <1>3, <1>4 DEF MemoryInv

LEMMA ReadSourceStep ==
  ASSUME MemoryInv, NEW q \in Requests, NEW u \in Users, NEW r \in Records, ReadSource(q, u, r)
  PROVE  MemoryInv'
<1> DEFINE x == [NoRequest EXCEPT !.step = "insert", !.user = u, !.records = {r},
                                  !.status = record[r].status]
<1>1. record[r].status \in Status /\ (record[r].status = "confirmed" => Sourced(r))
  BY ConfirmedIsSourced DEF MemoryInv, VouchesAgree, ReadSource, Visible, Live
<1>2. /\ x \in RequestState /\ x.step = "insert" /\ x.todo = << >>
      /\ x.user = u /\ x.status = record[r].status /\ x.records = {r}
  BY <1>1, TodoFacts DEF RequestState, NoRequest
<1>3. faults' \in Nat
  BY DEF ReadSource, MemoryInv, TypeOK
<1> HIDE DEF x
<1>4. request' = [request EXCEPT ![q] = x] /\ Serving
  BY DEF ReadSource, x
<1> QED
  BY <1>1, <1>2, <1>3, <1>4, RequestStep DEF ReadSource

LEMMA RememberStep ==
  ASSUME MemoryInv, NEW q \in Requests, NEW u \in Users, Remember(q, u)
  PROVE  MemoryInv'
<1> DEFINE status == IF setting.auto = "on" THEN "confirmed" ELSE "unconfirmed"
           x == [NoRequest EXCEPT !.step = "write", !.user = u, !.status = status]
<1>1. status \in Status
  BY DEF Status
<1>2. request' = [request EXCEPT ![q] = x] /\ Serving
  BY DEF Remember
<1> HIDE DEF status
<1>3. /\ x \in RequestState /\ x.step = "write" /\ x.todo = << >>
      /\ x.user = u /\ x.status = status
  BY <1>1, TodoFacts DEF RequestState, NoRequest
<1>4. faults' \in Nat
  BY DEF Remember, MemoryInv, TypeOK
<1> HIDE DEF x
<1> QED
  BY <1>1, <1>2, <1>3, <1>4, RequestStep DEF Remember

LEMMA RequestClosedStep ==
  ASSUME MemoryInv, NEW q \in Requests, RequestFails(q)
  PROVE  MemoryInv'
<1>1. NoRequest \in RequestState /\ NoRequest.step = "idle" /\ NoRequest.todo = << >>
  BY TodoFacts DEF RequestState, NoRequest
<1>2. faults' \in Nat
  BY DEF RequestFails, Strikes, MemoryInv, TypeOK
<1> QED
  BY <1>1, <1>2, RequestStep DEF RequestFails, Strikes

LEMMA CommitRememberedStep ==
  ASSUME MemoryInv, NEW q \in Requests, NEW r \in Records, CommitRemembered(q, r)
  PROVE  MemoryInv'
<1> DEFINE u == request[q].user
           status == request[q].status
<1>1. u \in Users /\ status \in Status /\ request[q].step = "write" /\ record[r].state = "absent"
  BY DEF MemoryInv, RequestAgrees, CommitRemembered
<1>2. Serving
  BY DEF MemoryInv, InitAgrees, Serving, Quiet, CommitRemembered
<1>3. /\ Enqueue({r}, "upsert") /\ Copies(q, u, r, status)
      /\ UNCHANGED <<point, setting, init, vouched, faults, arms>>
  BY DEF CommitRemembered
<1>4. CASE status = "confirmed"
  <2>1. record' = [record EXCEPT ![r] = [state |-> "live", owner |-> u, status |-> status,
                                         via |-> "auto", derived_from |-> None]]
        /\ born' = born \cup {r}
    BY <1>4 DEF CommitRemembered
  <2> HIDE DEF u, status
  <2> QED
    BY <1>1, <1>2, <1>3, <2>1, NewRecordStep
<1>5. CASE status # "confirmed"
  <2>1. record' = [record EXCEPT ![r] = [state |-> "live", owner |-> u, status |-> status,
                                         via |-> None, derived_from |-> None]]
        /\ born' = born
    BY <1>5 DEF CommitRemembered
  <2>2. None # "auto"
    BY MemoryAssumption
  <2> HIDE DEF u, status
  <2> QED
    BY <1>1, <1>2, <1>3, <1>5, <2>1, <2>2, NewRecordStep
<1> QED
  BY <1>4, <1>5

LEMMA InsertSummaryStep ==
  ASSUME MemoryInv, NEW q \in Requests, NEW r \in Records, InsertSummary(q, r)
  PROVE  MemoryInv'
<1>1. PICK s \in Records : request[q].records = {s}
  BY DEF MemoryInv, RequestAgrees, InsertSummary
<1>2. /\ request[q].user \in Users /\ SummaryStatus(q) \in Status
      /\ SummaryStatus(q) = "confirmed" => Sourced(s)
  BY <1>1 DEF MemoryInv, RequestAgrees, VouchesAgree, InsertSummary, SummaryStatus
<1>3. (CHOOSE t \in request[q].records : TRUE) = s
  BY <1>1
<1>4. Serving
  BY DEF MemoryInv, InitAgrees, Serving, Quiet, InsertSummary
<1>5. record' = [record EXCEPT ![r] = [state |-> "live", owner |-> request[q].user,
                   status |-> SummaryStatus(q),
                   via |-> IF SummaryStatus(q) = "confirmed" THEN "user" ELSE None,
                   derived_from |-> s]]
  BY <1>3 DEF InsertSummary
<1>6. PICK via \in {"user", None} :
        record' = [record EXCEPT ![r] = [state |-> "live", owner |-> request[q].user,
                     status |-> SummaryStatus(q), via |-> via, derived_from |-> s]]
  BY <1>5
<1>7. via # "auto"
  BY MemoryAssumption
<1> QED
  BY <1>2, <1>4, <1>6, <1>7, NewRecordStep DEF InsertSummary

LEMMA ConfirmStep ==
  ASSUME MemoryInv, NEW q \in Requests, NEW u \in Users, NEW r \in Records, Confirm(q, u, r)
  PROVE  MemoryInv'
<1>0. /\ TypeOK /\ record \in [Records -> RecordRow] /\ request \in [Requests -> RequestState]
      /\ Live(r) /\ VouchesAgree /\ Serving
  BY DEF MemoryInv, TypeOK, Confirm, Visible
<1>b. /\ record'[r] = [record[r] EXCEPT !.status = "confirmed", !.via = "user"]
      /\ \A t \in Records \ {r} : record'[t] = record[t]
      /\ record'[r].status = "confirmed" /\ record'[r].state = "live"
      /\ record'[r].derived_from = record[r].derived_from
  BY <1>0 DEF Confirm, RecordRow, Live
<1>c. /\ request'[q] = [step |-> "upsert", user |-> u, records |-> {r},
                        status |-> "confirmed", todo |-> LAYOUTS]
      /\ \A p \in Requests \ {q} : request'[p] = request[p]
  BY <1>0 DEF Copies, Confirm
<1>1. TypeOK'
  <2>1. record' \in [Records -> RecordRow]
    BY <1>0, ZenonT(40) DEF RecordRow, Confirm, Status
  <2>2. request' \in [Requests -> RequestState]
    BY <1>0, TodoFacts DEF Copies, RequestState, Confirm, Status
  <2> QED
    BY <1>0, <2>1, <2>2 DEF TypeOK, Enqueue, Op, Confirm
<1>2. \A p \in Requests : RequestAgrees(p)'
  <2>1. RequestAgrees(q)'
    <3>1. record'[r].state # "absent"
      BY <1>b
    <3> QED
      BY <1>c, <3>1, TodoFacts DEF RequestAgrees, Op, Status
  <2>2. ASSUME NEW p \in Requests \ {q} PROVE RequestAgrees(p)'
    <3>1. RequestAgrees(p) /\ request[p].records \subseteq Records
      BY <1>0 DEF MemoryInv, RequestState
    <3> QED
      BY <1>0, <1>b, <1>c, <3>1, ZenonT(40) DEF RequestAgrees, Live
  <2> QED
    BY <2>1, <2>2
<1>3. VouchesAgree'
  <2>1. \A t \in Records : Grows(t)
    BY <1>0, <1>b, VouchedGrows DEF Confirm
  <2>2. VouchedFor(r)'
    <3>1. (r \in vouched)'
      BY DEF Confirm
    <3>2. (r \in vouched => VouchedFor(r))'
      BY VouchedItself, PTL
    <3> QED
      BY <3>1, <3>2
  <2>3. \A t \in Records : record'[t].state = "absent" => record'[t] = NoRecord
    BY <1>0, <1>b DEF VouchesAgree
  <2>4. \A t \in Records : record'[t].state # "absent" => record'[t].status \in Status
    BY <1>0, <1>b DEF VouchesAgree, Status
  <2>5. /\ ConfirmedWasVouched'
        /\ \A t \in Records : record'[t].via = "auto" => t \in born'
    <3>1. ConfirmedWasVouched'
      BY <1>0, <1>b, <2>1, <2>2, StillAccounted DEF ConfirmedWasVouched, Accounted
    <3>2. record'[r].via = "user" /\ born' = born
      BY <1>0, <1>b DEF RecordRow, Confirm
    <3> QED
      BY <1>0, <1>b, <3>1, <3>2 DEF VouchesAgree
  <2>6. \A p \in Requests : request'[p].step = "insert" /\ request'[p].status = "confirmed" =>
          \A s \in request'[p].records : Sourced(s)'
    BY <1>0, <1>c, <2>1 DEF VouchesAgree, RequestState, Sourced, Grows
  <2> QED
    BY <2>3, <2>4, <2>5, <2>6 DEF VouchesAgree
<1>4. ASSUME ~InitWhileServing
      PROVE  (\A p \in Requests : CopiesAgree(p)') /\ InitAgrees' /\ MissingIsPending'
  <2>1. \A p \in Requests : CopiesAgree(p)'
    BY <1>0, <1>4, <1>b, <1>c, SMTT(40) DEF MemoryInv, CopiesAgree, Ahead, Live, RequestState, Confirm
  <2>2. InitAgrees'
    BY <1>0, <1>4 DEF Serving, InitAgrees, Confirm
  <2>3. MissingIsPending'
    BY <1>0, <1>4, <1>b DEF MemoryInv, MissingIsPending, Live, Enqueue, Confirm
  <2> QED
    BY <2>1, <2>2, <2>3
<1> QED
  BY <1>1, <1>2, <1>3, <1>4 DEF MemoryInv

(* Live records of a set are forgotten: forget, and complete_forgets.      *)
LEMMA Forgetting ==
  ASSUME TypeOK, VouchesAgree, NEW S \in SUBSET Records,
         \A s \in S : Live(s),
         record' = [s \in Records |-> IF s \in S THEN [record[s] EXCEPT !.state = "forgotten"]
                                                 ELSE record[s]],
         UNCHANGED <<born, vouched>>
  PROVE  /\ record' \in [Records -> RecordRow]
         /\ \A s \in S : record'[s].state = "forgotten"
         /\ \A s \in Records \ S : record'[s] = record[s]
         /\ \A s \in Records : /\ record'[s].status = record[s].status
                               /\ record'[s].derived_from = record[s].derived_from
         /\ \A s \in Records : Grows(s)
         /\ ConfirmedWasVouched'
         /\ \A s \in Records : record'[s].via = "auto" => s \in born'
         /\ \A s \in Records : record'[s].state = "absent" => record'[s] = NoRecord
         /\ \A s \in Records : record'[s].state # "absent" => record'[s].status \in Status
<1>0. record \in [Records -> RecordRow]
  BY DEF TypeOK
<1>1. \A s \in S : record'[s] = [record[s] EXCEPT !.state = "forgotten"]
  OBVIOUS
<1>2. \A s \in Records \ S : record'[s] = record[s]
  OBVIOUS
<1>3. record' \in [Records -> RecordRow]
  BY <1>0, <1>1, <1>2 DEF RecordRow
<1>4. \A s \in S : /\ record'[s].state = "forgotten" /\ record'[s].status = record[s].status
                   /\ record'[s].derived_from = record[s].derived_from
                   /\ record'[s].via = record[s].via
  BY <1>0, <1>1 DEF RecordRow
<1>5. \A s \in Records : Grows(s)
  BY <1>2, <1>4, VouchedGrows
<1>6. \A s \in Records : record'[s].state = "absent" => record'[s] = NoRecord
  BY <1>2, <1>4 DEF VouchesAgree
<1>7. \A s \in Records : record'[s].state # "absent" => record'[s].status \in Status
  BY <1>2, <1>4 DEF VouchesAgree, Live
<1>8. ConfirmedWasVouched'
  BY <1>2, <1>4, <1>5, StillAccounted DEF ConfirmedWasVouched, Accounted
<1>9. \A s \in Records : record'[s].via = "auto" => s \in born'
  BY <1>2, <1>4 DEF VouchesAgree
<1> QED
  BY <1>2, <1>3, <1>4, <1>5, <1>6, <1>7, <1>8, <1>9

LEMMA ForgetStep ==
  ASSUME MemoryInv, NEW q \in Requests, NEW u \in Users, NEW r \in Records, Forget(q, u, r)
  PROVE  MemoryInv'
<1> DEFINE everything == setting.scope # "primary"
           seen    == {s \in Records : Visible(u, s)}
           removed == IF everything THEN Derived({r}, seen) ELSE {r}
<1>0. /\ TypeOK /\ request \in [Requests -> RequestState]
      /\ VouchesAgree /\ Serving /\ Visible(u, r)
  BY DEF MemoryInv, TypeOK, Forget
<1>a. removed \subseteq seen
  <2>1. {r} \in SUBSET Records /\ seen \in SUBSET Records /\ {r} \subseteq seen
    BY <1>0
  <2>2. Derived({r}, seen) \subseteq {r} \cup seen
    BY <2>1, DerivedFacts
  <2> QED
    BY <2>1, <2>2
<1>b. record' = [s \in Records |-> IF s \in removed THEN [record[s] EXCEPT !.state = "forgotten"]
                                                    ELSE record[s]]
  BY <1>a DEF Forget
<1>c. /\ UNCHANGED <<point, setting, init, born, vouched, faults, arms>>
      /\ \/ UNCHANGED <<outbox, request>>
         \/ /\ Enqueue(removed, "delete")
            /\ request' = [request EXCEPT ![q] = [NoRequest EXCEPT !.step = "delete",
                             !.user = u, !.records = removed, !.todo = LAYOUTS]]
  BY DEF Forget
<1>d. \A s \in removed : Live(s)
  BY <1>a DEF Visible
<1>e. removed \in SUBSET Records
  BY <1>a
<1> HIDE DEF removed
<1>f. /\ record' \in [Records -> RecordRow]
      /\ \A s \in removed : record'[s].state = "forgotten"
      /\ \A s \in Records \ removed : record'[s] = record[s]
      /\ \A s \in Records : record'[s].status = record[s].status
      /\ \A s \in Records : Grows(s)
      /\ ConfirmedWasVouched'
      /\ \A s \in Records : record'[s].via = "auto" => s \in born'
      /\ \A s \in Records : record'[s].state = "absent" => record'[s] = NoRecord
      /\ \A s \in Records : record'[s].state # "absent" => record'[s].status \in Status
  <2>1. UNCHANGED <<born, vouched>>
    BY <1>c
  <2> QED
    BY <1>0, <1>b, <1>d, <1>e, <2>1, Forgetting
<1>g. \A s \in Records : Live(s)' => Live(s)
  BY <1>f DEF Live
<1>h. /\ \A p \in Requests \ {q} : request'[p] = request[p]
      /\ \/ request'[q] = request[q]
         \/ request'[q] = [step |-> "delete", user |-> u, records |-> removed,
                           status |-> None, todo |-> LAYOUTS]
  BY <1>0, <1>c DEF NoRequest
<1>1. TypeOK'
  <2>1. request' \in [Requests -> RequestState]
    <3>1. [step |-> "delete", user |-> u, records |-> removed, status |-> None, todo |-> LAYOUTS]
            \in RequestState
      BY <1>e, TodoFacts DEF RequestState
    <3> QED
      BY <1>0, <1>c, <3>1 DEF NoRequest
  <2>2. outbox' \subseteq Records \X Op
    BY <1>0, <1>c, <1>e DEF TypeOK, Enqueue, Op
  <2> QED
    BY <1>0, <1>c, <1>f, <2>1, <2>2 DEF TypeOK
<1>2. \A p \in Requests : RequestAgrees(p)'
  <2>1. ASSUME NEW p \in Requests, request'[p] = request[p] PROVE RequestAgrees(p)'
    <3>1. RequestAgrees(p) /\ request[p].records \subseteq Records
      BY <1>0 DEF MemoryInv, RequestState
    <3>2. \A s \in Records : /\ record[s].state # "absent" => record'[s].state # "absent"
                             /\ record[s].state = "forgotten" => record'[s].state = "forgotten"
      BY <1>f
    <3> QED
      BY <2>1, <3>1, <3>2 DEF RequestAgrees
  <2>2. ASSUME request'[q] = [step |-> "delete", user |-> u, records |-> removed,
                              status |-> None, todo |-> LAYOUTS]
        PROVE  RequestAgrees(q)'
    BY <1>f, <2>2, TodoFacts DEF RequestAgrees, Op
  <2> QED
    BY <1>h, <2>1, <2>2
<1>3. VouchesAgree'
  <2>1. /\ ConfirmedWasVouched'
        /\ \A t \in Records : record'[t].via = "auto" => t \in born'
    BY <1>f
  <2>2. \A p \in Requests : request'[p].step = "insert" /\ request'[p].status = "confirmed" =>
          \A s \in request'[p].records : Sourced(s)'
    BY <1>0, <1>f, <1>h DEF VouchesAgree, RequestState, Sourced, Grows
  <2> QED
    BY <1>f, <2>1, <2>2 DEF VouchesAgree
<1>4. ASSUME ~InitWhileServing
      PROVE  (\A p \in Requests : CopiesAgree(p)') /\ InitAgrees' /\ MissingIsPending'
  <2>1. \A p \in Requests : CopiesAgree(p)'
    BY <1>0, <1>4, <1>c, <1>g, <1>h DEF MemoryInv, CopiesAgree, RequestState
  <2>2. InitAgrees'
    BY <1>0, <1>4, <1>c DEF Serving, InitAgrees
  <2>3. MissingIsPending'
    <3>1. outbox \subseteq outbox'
      BY <1>c DEF Enqueue
    <3> QED
      BY <1>4, <1>c, <1>g, <3>1 DEF MemoryInv, MissingIsPending
  <2> QED
    BY <2>1, <2>2, <2>3
<1> QED
  BY <1>1, <1>2, <1>3, <1>4 DEF MemoryInv

(* What the store holds after one call, as seen from any record.           *)
LEMMA CallStoreStep ==
  ASSUME MemoryInv, NEW q \in Requests, CallStore(q)
  PROVE  MemoryInv'
<1> DEFINE l == Head(request[q].todo)
           new == IF request[q].step = "upsert" THEN request[q].status ELSE None
<1>0. /\ TypeOK /\ request \in [Requests -> RequestState] /\ RequestAgrees(q)
      /\ point \in [Layouts -> [Records -> Status \cup {None}]]
      /\ request[q].records \subseteq Records
  BY DEF MemoryInv, TypeOK, RequestState
<1>a. /\ request[q].todo \in {LAYOUTS, <<"shared">>} /\ request[q].step \in Op
      /\ l \in Layouts
      /\ Tail(request[q].todo) \in {<<"shared">>, << >>}
      /\ \A k \in Layouts : Ahead(k, request[q].todo) /\ k # l => Ahead(k, Tail(request[q].todo))
      /\ new \in Status \cup {None}
      /\ request[q].step = "upsert" => new \in Status
  BY <1>0, TodoFacts DEF CallStore, RequestAgrees, Ahead, Layouts
<1>b. /\ \A k \in Layouts \ {l} : point'[k] = point[k]
      /\ \A r \in Records \ request[q].records : point'[l][r] = point[l][r]
      /\ \A r \in request[q].records : point'[l][r] = new
      /\ point' \in [Layouts -> [Records -> Status \cup {None}]]
  BY <1>0, <1>a DEF CallStore
<1>c. /\ request'[q] = [request[q] EXCEPT !.todo = Tail(@)]
      /\ \A p \in Requests \ {q} : request'[p] = request[p]
      /\ request' \in [Requests -> RequestState]
  BY <1>0, <1>a, TodoFacts, ZenonT(40) DEF CallStore, RequestState
<1>d. /\ request'[q].todo = Tail(request[q].todo) /\ request'[q].step = request[q].step
      /\ request'[q].records = request[q].records /\ request'[q].status = request[q].status
      /\ request'[q].user = request[q].user
  BY <1>0, <1>c DEF RequestState
<1>e. UNCHANGED <<record, outbox, setting, init, born, vouched, faults, arms>>
  BY DEF CallStore
<1> HIDE DEF l, new
<1>1. TypeOK'
  BY <1>0, <1>b, <1>c, <1>e DEF TypeOK
<1>2. \A p \in Requests : RequestAgrees(p)'
  <2>1. RequestAgrees(q)'
    BY <1>0, <1>a, <1>d, <1>e, TodoFacts DEF RequestAgrees
  <2>2. ASSUME NEW p \in Requests \ {q} PROVE RequestAgrees(p)'
    BY <1>c, <1>e DEF MemoryInv, RequestAgrees
  <2> QED
    BY <2>1, <2>2
<1>3. VouchesAgree'
  <2>1. VouchesAgree /\ (ConfirmedWasVouched' <=> ConfirmedWasVouched)
        /\ \A r \in Records : Sourced(r)' <=> Sourced(r)
    BY <1>e, SameVouches DEF MemoryInv
  <2>2. \A p \in Requests : request'[p].step = "insert" /\ request'[p].status = "confirmed" =>
          \A s \in request'[p].records : Sourced(s)'
    <3>1. request'[q].step # "insert"
      BY <1>a, <1>d DEF Op
    <3> QED
      BY <1>0, <1>c, <2>1, <3>1 DEF VouchesAgree, RequestState
  <2> QED
    BY <1>e, <2>1, <2>2 DEF VouchesAgree
<1>4. ASSUME ~InitWhileServing
      PROVE  (\A p \in Requests : CopiesAgree(p)') /\ InitAgrees' /\ MissingIsPending'
  <2>1. \A r \in Records, k \in Layouts : Live(r)' /\ point'[k][r] = None => point[k][r] = None
    <3>1. ASSUME NEW r \in request[q].records, Live(r), new = None PROVE FALSE
      <4>1. request[q].step = "delete"
        BY <1>a, <3>1, MemoryAssumption DEF Op
      <4> QED
        BY <1>0, <3>1, <4>1 DEF RequestAgrees, Live
    <3> QED
      BY <1>b, <1>e, <3>1 DEF Live
  <2>2. CopiesAgree(q)'
    <3> SUFFICES ASSUME request[q].step = "upsert",
                        NEW r \in request[q].records, NEW k \in Layouts,
                        Live(r)', point'[k][r] = None
                 PROVE  Ahead(k, Tail(request[q].todo))
      BY <1>d DEF CopiesAgree, Ahead
    <3>1. k # l
      BY <1>a, <1>b, MemoryAssumption
    <3>2. Ahead(k, request[q].todo)
      BY <1>0, <1>4, <1>e, <2>1 DEF MemoryInv, CopiesAgree, Live
    <3> QED
      BY <1>a, <3>1, <3>2
  <2>3. ASSUME NEW p \in Requests \ {q} PROVE CopiesAgree(p)'
    <3>1. CopiesAgree(p) /\ request[p].records \subseteq Records
      BY <1>0, <1>4 DEF MemoryInv, RequestState
    <3> QED
      BY <1>c, <1>e, <2>1, <3>1 DEF CopiesAgree, Live
  <2>4. InitAgrees'
    BY <1>4, <1>a, <1>e DEF MemoryInv, InitAgrees, Quiet, Op
  <2>5. MissingIsPending'
    BY <1>4, <1>e, <2>1 DEF MemoryInv, MissingIsPending, Live
  <2> QED
    BY <2>2, <2>3, <2>4, <2>5
<1> QED
  BY <1>1, <1>2, <1>3, <1>4 DEF MemoryInv

LEMMA MarkAppliedStep ==
  ASSUME MemoryInv, NEW q \in Requests, MarkApplied(q)
  PROVE  MemoryInv'
<1>0. /\ TypeOK /\ request \in [Requests -> RequestState] /\ request[q].records \subseteq Records
      /\ request[q].step \in Op /\ request[q].todo = << >>
      /\ outbox' = outbox \ (request[q].records \X {request[q].step})
      /\ UNCHANGED <<record, point, setting, init, born, vouched, faults, arms>>
  BY DEF MemoryInv, TypeOK, RequestState, MarkApplied, Copied
<1>c. /\ request'[q] = NoRequest
      /\ \A p \in Requests \ {q} : request'[p] = request[p]
      /\ request' \in [Requests -> RequestState]
      /\ NoRequest.step = "idle" /\ NoRequest.todo = << >>
  BY <1>0, TodoFacts DEF MarkApplied, NoRequest, RequestState
<1>1. TypeOK'
  BY <1>0, <1>c DEF TypeOK
<1>2. \A p \in Requests : RequestAgrees(p)'
  BY <1>0, <1>c DEF MemoryInv, RequestAgrees
<1>3. VouchesAgree'
  <2>1. VouchesAgree /\ (ConfirmedWasVouched' <=> ConfirmedWasVouched)
        /\ \A r \in Records : Sourced(r)' <=> Sourced(r)
    BY <1>0, SameVouches DEF MemoryInv
  <2>2. \A p \in Requests : request'[p].step = "insert" /\ request'[p].status = "confirmed" =>
          \A s \in request'[p].records : Sourced(s)'
    BY <1>0, <1>c, <2>1 DEF VouchesAgree, RequestState, Sourced, Grows
  <2> QED
    BY <1>0, <2>1, <2>2 DEF VouchesAgree
<1>4. ASSUME ~InitWhileServing
      PROVE  (\A p \in Requests : CopiesAgree(p)') /\ InitAgrees' /\ MissingIsPending'
  <2>1. \A p \in Requests : CopiesAgree(p)'
    BY <1>0, <1>4, <1>c DEF MemoryInv, CopiesAgree, Live
  <2>2. InitAgrees'
    BY <1>0, <1>4 DEF MemoryInv, InitAgrees, Quiet, Op
  <2>3. MissingIsPending'
    <3> SUFFICES ASSUME NEW r \in Records, NEW l \in Layouts, Live(r), point[l][r] = None
                 PROVE  <<r, "upsert">> \in outbox'
      BY <1>0 DEF MissingIsPending, Live
    <3>1. <<r, "upsert">> \in outbox
      BY <1>4 DEF MemoryInv, MissingIsPending
    <3>2. ~(request[q].step = "upsert" /\ r \in request[q].records)
      BY <1>0, <1>4, TodoFacts DEF MemoryInv, CopiesAgree, Ahead
    <3> QED
      BY <1>0, <3>1, <3>2
  <2> QED
    BY <2>1, <2>2, <2>3
<1> QED
  BY <1>1, <1>2, <1>3, <1>4 DEF MemoryInv

-----------------------------------------------------------------------------
(* Steps of the Range.                                                     *)

(* A switch is set or set back.                                            *)
LEMMA SettingStep ==
  ASSUME MemoryInv, ArmAutoConfirm \/ ArmPrimaryOnly \/ RestoreAutoConfirm \/ RestoreForgetScope
  PROVE  MemoryInv'
<1>0. /\ TypeOK /\ UNCHANGED <<record, outbox, point, request, init, born, vouched, faults>>
      /\ arms' \in Nat
      /\ setting' \in [auto : {"off", "on", "revoking"}, scope : {"all", "primary"}]
  BY DEF MemoryInv, TypeOK, ArmAutoConfirm, ArmPrimaryOnly,
      RestoreAutoConfirm, RestoreForgetScope, Arm
<1>1. TypeOK'
  BY <1>0 DEF TypeOK
<1>2. \A p \in Requests : RequestAgrees(p)'
  BY <1>0 DEF MemoryInv, RequestAgrees
<1>3. VouchesAgree' /\ Survivors' = Survivors
  <2>1. VouchesAgree /\ (ConfirmedWasVouched' <=> ConfirmedWasVouched)
        /\ \A r \in Records : Sourced(r)' <=> Sourced(r)
    BY <1>0, SameVouches DEF MemoryInv
  <2>2. \A p \in Requests : request[p].records \subseteq Records
    BY <1>0 DEF TypeOK, RequestState
  <2>3. Survivors' = Survivors
    BY <1>0, SameVouches
  <2> QED
    BY <1>0, <2>1, <2>2, <2>3 DEF VouchesAgree
<1>4. ASSUME ~InitWhileServing
      PROVE  (\A p \in Requests : CopiesAgree(p)') /\ InitAgrees' /\ MissingIsPending'
  BY <1>0, <1>3, <1>4 DEF MemoryInv, CopiesAgree, InitAgrees, MissingIsPending, Live, Quiet
<1> QED
  BY <1>1, <1>2, <1>3, <1>4 DEF MemoryInv

LEMMA RevokeStep ==
  ASSUME MemoryInv, RevokeAutoConfirmations
  PROVE  MemoryInv'
<1>0. /\ TypeOK /\ record \in [Records -> RecordRow] /\ VouchesAgree
      /\ UNCHANGED <<outbox, point, request, init, born, vouched, faults, arms>>
  BY DEF MemoryInv, TypeOK, RevokeAutoConfirmations
<1>a. \A r \in Records :
        \/ record'[r] = record[r]
        \/ Live(r) /\ record'[r] = [record[r] EXCEPT !.status = "unconfirmed", !.via = None]
  BY <1>0 DEF RevokeAutoConfirmations
<1>b. \A r \in Records :
        /\ record'[r].state = record[r].state
        /\ record'[r].derived_from = record[r].derived_from
        /\ record'[r].status \in {record[r].status, "unconfirmed"}
        /\ \/ record'[r].status = "unconfirmed" /\ record'[r].via = None
           \/ record'[r].status = record[r].status /\ record'[r].via = record[r].via
        /\ record[r].state = "absent" => record'[r] = record[r]
  BY <1>0, <1>a, ZenonT(40) DEF RecordRow, Live
<1>1. TypeOK'
  <2>1. record' \in [Records -> RecordRow]
    BY <1>0, ZenonT(40) DEF RevokeAutoConfirmations, RecordRow, Status
  <2>2. setting' \in [auto : {"off", "on", "revoking"}, scope : {"all", "primary"}]
    BY <1>0 DEF RevokeAutoConfirmations, TypeOK
  <2> QED
    BY <1>0, <2>1, <2>2 DEF TypeOK
<1>2. \A p \in Requests : RequestAgrees(p)'
  <2> SUFFICES ASSUME NEW p \in Requests PROVE RequestAgrees(p)'
    OBVIOUS
  <2>1. RequestAgrees(p) /\ request[p].records \subseteq Records
    BY <1>0 DEF MemoryInv, TypeOK, RequestState
  <2> QED
    BY <1>0, <1>b, <2>1 DEF RequestAgrees
<1>3. VouchesAgree'
  <2>1. \A t \in Records : Grows(t)
    BY <1>0, <1>b, VouchedGrows
  <2>2. \A t \in Records : /\ record'[t].state = "absent" => record'[t] = NoRecord
                           /\ record'[t].state # "absent" => record'[t].status \in Status
    BY <1>0, <1>b DEF VouchesAgree, Status
  <2>3. /\ ConfirmedWasVouched'
        /\ \A t \in Records : record'[t].via = "auto" => t \in born'
    <3>1. ConfirmedWasVouched'
      BY <1>0, <1>b, <2>1, StillAccounted DEF ConfirmedWasVouched, Accounted
    <3> QED
      BY <1>0, <1>b, <3>1, MemoryAssumption DEF VouchesAgree
  <2>4. \A p \in Requests : request'[p].step = "insert" /\ request'[p].status = "confirmed" =>
          \A s \in request'[p].records : Sourced(s)'
    BY <1>0, <2>1 DEF VouchesAgree, TypeOK, RequestState, Sourced, Grows
  <2> QED
    BY <2>2, <2>3, <2>4 DEF VouchesAgree
<1>4. ASSUME ~InitWhileServing
      PROVE  (\A p \in Requests : CopiesAgree(p)') /\ InitAgrees' /\ MissingIsPending'
  <2>1. \A r \in Records : Live(r)' <=> Live(r)
    BY <1>b DEF Live
  <2>2. \A p \in Requests : CopiesAgree(p)'
    BY <1>0, <1>4, <2>1 DEF MemoryInv, CopiesAgree, TypeOK, RequestState
  <2>3. Survivors' = Survivors
    BY <1>0, <1>b DEF Survivors, MadeFromForgotten, Derived, Live, RecordRow
  <2>4. InitAgrees'
    BY <1>0, <1>4, <2>1, <2>3 DEF MemoryInv, InitAgrees, Quiet
  <2>5. MissingIsPending'
    BY <1>0, <1>4, <2>1 DEF MemoryInv, MissingIsPending
  <2> QED
    BY <2>2, <2>4, <2>5
<1> QED
  BY <1>1, <1>2, <1>3, <1>4 DEF MemoryInv

-----------------------------------------------------------------------------
(* Steps of memory-init.                                                   *)

(* A complete forget leaves no survivor.                                   *)
LEMMA NoSurvivorIsLeft ==
  ASSUME TypeOK, VouchesAgree,
         record' = [s \in Records |-> IF s \in Survivors
                                        THEN [record[s] EXCEPT !.state = "forgotten"]
                                        ELSE record[s]],
         UNCHANGED <<born, vouched>>
  PROVE  Survivors' = {}
<1> DEFINE living == {r \in Records : Live(r)}
<1>0. record \in [Records -> RecordRow]
  BY DEF TypeOK
<1>1. /\ MadeFromForgotten \subseteq Survivors
      /\ Survivors \subseteq living
      /\ \A t \in living : record[t].derived_from \in Survivors => t \in Survivors
  <2>1. MadeFromForgotten \in SUBSET Records /\ MadeFromForgotten \subseteq living
    BY DEF MadeFromForgotten
  <2>2. living \in SUBSET Records
    OBVIOUS
  <2> QED
    BY <2>1, <2>2, DerivedFacts DEF Survivors
<1>2. /\ \A s \in Survivors : record'[s].state = "forgotten"
      /\ \A s \in Records \ Survivors : record'[s] = record[s]
      /\ \A s \in Records : record'[s].derived_from = record[s].derived_from
  <2>1. Survivors \in SUBSET Records /\ \A s \in Survivors : Live(s)
    BY <1>1
  <2> QED
    BY <2>1, Forgetting
<1>3. MadeFromForgotten' = {}
  <2> SUFFICES ASSUME NEW r \in Records, Live(r)', record'[r].derived_from # None,
                      record'[record'[r].derived_from].state = "forgotten"
               PROVE  FALSE
    BY DEF MadeFromForgotten
  <2>1. r \notin Survivors /\ Live(r)
    BY <1>2 DEF Live
  <2>2. PICK d \in Records : d = record[r].derived_from
    BY <1>0, <1>2 DEF RecordRow
  <2>3. CASE d \in Survivors
    BY <1>1, <2>1, <2>2, <2>3
  <2>4. CASE d \notin Survivors
    <3>1. record[d].state = "forgotten"
      BY <1>2, <2>2, <2>4
    <3>2. r \in MadeFromForgotten
      BY <1>2, <2>1, <2>2, <3>1 DEF MadeFromForgotten
    <3> QED
      BY <1>1, <2>1, <3>2
  <2> QED
    BY <2>3, <2>4
<1>4. ASSUME NEW r \in Survivors' PROVE FALSE
  <2>1. {} \in SUBSET Records
    OBVIOUS
  <2> QED
    BY <1>3, <1>4, <2>1 DEF Survivors, Derived
<1> QED
  BY <1>4

LEMMA InitStartsStep ==
  ASSUME MemoryInv, InitStarts
  PROVE  MemoryInv'
<1> DEFINE S == IF setting.scope = "all" THEN Survivors ELSE {}
<1>0. /\ TypeOK /\ VouchesAgree
      /\ InitWhileServing \/ Quiet
      /\ UNCHANGED <<outbox, point, setting, request, born, vouched, faults, arms>>
      /\ init' = [InitIdle EXCEPT !.step = "list", !.full = setting.scope = "all"]
  BY DEF MemoryInv, InitStarts
<1>a. S \in SUBSET Records /\ \A s \in S : Live(s)
  <2>1. /\ MadeFromForgotten \in SUBSET Records
        /\ \A r \in MadeFromForgotten : Live(r)
        /\ {r \in Records : Live(r)} \in SUBSET Records
    BY DEF MadeFromForgotten
  <2> QED
    BY <2>1, DerivedFacts DEF Survivors
<1>b. record' = [s \in Records |-> IF s \in S THEN [record[s] EXCEPT !.state = "forgotten"]
                                              ELSE record[s]]
  <2>1. CASE setting.scope = "all"
    BY <2>1 DEF InitStarts
  <2>2. CASE setting.scope # "all"
    BY <1>0, <2>2 DEF InitStarts, TypeOK
  <2> QED
    BY <2>1, <2>2
<1>c. setting.scope = "all" => Survivors' = {}
  BY <1>0, <1>b, NoSurvivorIsLeft
<1> HIDE DEF S
<1>f. /\ record' \in [Records -> RecordRow]
      /\ \A s \in S : record'[s].state = "forgotten"
      /\ \A s \in Records \ S : record'[s] = record[s]
      /\ \A s \in Records : record'[s].status = record[s].status
      /\ \A s \in Records : Grows(s)
      /\ ConfirmedWasVouched'
      /\ \A s \in Records : record'[s].via = "auto" => s \in born'
      /\ \A s \in Records : record'[s].state = "absent" => record'[s] = NoRecord
      /\ \A s \in Records : record'[s].state # "absent" => record'[s].status \in Status
  <2>1. UNCHANGED <<born, vouched>>
    BY <1>0
  <2> QED
    BY <1>0, <1>a, <1>b, <2>1, Forgetting
<1>g. \A s \in Records : Live(s)' => Live(s)
  BY <1>f DEF Live
<1>h. /\ init'.step = "list" /\ init'.todo = << >> /\ init'.full = (setting.scope = "all")
      /\ init' \in InitState
  BY <1>0, TodoFacts DEF InitIdle, InitState
<1>1. TypeOK'
  BY <1>0, <1>f, <1>h DEF TypeOK
<1>2. \A p \in Requests : RequestAgrees(p)'
  <2> SUFFICES ASSUME NEW p \in Requests PROVE RequestAgrees(p)'
    OBVIOUS
  <2>1. RequestAgrees(p) /\ request[p].records \subseteq Records
    BY <1>0 DEF MemoryInv, TypeOK, RequestState
  <2>2. \A s \in Records : /\ record[s].state # "absent" => record'[s].state # "absent"
                           /\ record[s].state = "forgotten" => record'[s].state = "forgotten"
    BY <1>f
  <2> QED
    BY <1>0, <2>1, <2>2 DEF RequestAgrees
<1>3. VouchesAgree'
  <2>1. /\ ConfirmedWasVouched'
        /\ \A t \in Records : record'[t].via = "auto" => t \in born'
    BY <1>f
  <2>2. \A p \in Requests : request'[p].step = "insert" /\ request'[p].status = "confirmed" =>
          \A s \in request'[p].records : Sourced(s)'
    BY <1>0, <1>f DEF VouchesAgree, TypeOK, RequestState, Sourced, Grows
  <2> QED
    BY <1>f, <2>1, <2>2 DEF VouchesAgree
<1>4. ASSUME ~InitWhileServing
      PROVE  (\A p \in Requests : CopiesAgree(p)') /\ InitAgrees' /\ MissingIsPending'
  <2>1. \A p \in Requests : CopiesAgree(p)'
    BY <1>0, <1>4, <1>g DEF MemoryInv, CopiesAgree, TypeOK, RequestState
  <2>2. InitAgrees'
    BY <1>0, <1>4, <1>c, <1>h DEF InitAgrees, Quiet
  <2>3. MissingIsPending'
    BY <1>0, <1>4, <1>g DEF MemoryInv, MissingIsPending
  <2> QED
    BY <2>1, <2>2, <2>3
<1> QED
  BY <1>1, <1>2, <1>3, <1>4 DEF MemoryInv

(* Every later step of the job changes points and the job alone, and takes *)
(* no point from a live record.                                            *)
LEMMA InitStepFrame ==
  ASSUME MemoryInv,
         UNCHANGED <<record, outbox, setting, request, born, vouched, arms>>,
         faults' \in Nat, init' \in InitState,
         point' \in [Layouts -> [Records -> Status \cup {None}]],
         ~InitWhileServing =>
           /\ InitAgrees'
           /\ \A r \in Records, l \in Layouts :
                Live(r) /\ point'[l][r] = None => point[l][r] = None
  PROVE  MemoryInv'
<1>1. TypeOK'
  BY DEF MemoryInv, TypeOK
<1>2. \A p \in Requests : RequestAgrees(p)'
  BY DEF MemoryInv, RequestAgrees
<1>3. VouchesAgree'
  <2>1. VouchesAgree /\ (ConfirmedWasVouched' <=> ConfirmedWasVouched)
        /\ \A r \in Records : Sourced(r)' <=> Sourced(r)
    BY SameVouches DEF MemoryInv
  <2>2. \A p \in Requests : request[p].records \subseteq Records
    BY DEF MemoryInv, TypeOK, RequestState
  <2> QED
    BY <2>1, <2>2 DEF VouchesAgree
<1>4. ASSUME ~InitWhileServing
      PROVE  (\A p \in Requests : CopiesAgree(p)') /\ InitAgrees' /\ MissingIsPending'
  <2>1. \A p \in Requests : request[p].records \subseteq Records
    BY DEF MemoryInv, TypeOK, RequestState
  <2>2. \A p \in Requests : CopiesAgree(p)'
    BY <1>4, <2>1 DEF MemoryInv, CopiesAgree, Live
  <2>3. MissingIsPending'
    BY <1>4 DEF MemoryInv, MissingIsPending, Live
  <2> QED
    BY <1>4, <2>2, <2>3
<1> QED
  BY <1>1, <1>2, <1>3, <1>4 DEF MemoryInv

LEMMA InitListsStep ==
  ASSUME MemoryInv, InitLists
  PROVE  MemoryInv'
<1> DEFINE live == [r \in Records |-> IF Live(r) THEN record[r].status ELSE None]
           missing == {r \in Records : live[r] # None /\ point["per_tenant"][r] = None}
<1>0. /\ TypeOK /\ VouchesAgree /\ init \in InitState /\ init.step = "list"
      /\ UNCHANGED <<record, outbox, point, setting, request, born, vouched, faults, arms>>
      /\ init' = [init EXCEPT !.step = "fill", !.live = live, !.todo = LAYOUTS, !.missing = missing]
  BY DEF MemoryInv, TypeOK, InitLists
<1>1. \A r \in Records : /\ live[r] \in Status \cup {None}
                         /\ live[r] = None <=> ~Live(r)
  BY <1>0, MemoryAssumption DEF VouchesAgree, Live
<1>2. live \in [Records -> Status \cup {None}]
  BY <1>1
<1>3. missing \subseteq Records /\ \A r \in Records :
        r \in missing <=> Live(r) /\ point["per_tenant"][r] = None
  BY <1>1
<1> HIDE DEF live, missing
<1>4. /\ init' \in InitState
      /\ init'.step = "fill" /\ init'.live = live /\ init'.todo = LAYOUTS
      /\ init'.missing = missing /\ init'.full = init.full
  BY <1>0, <1>2, <1>3, TodoFacts DEF InitState
<1>5. ASSUME ~InitWhileServing PROVE InitAgrees'
  <2>1. InitAgrees /\ Survivors' = Survivors
    BY <1>0, <1>5, SameVouches DEF MemoryInv
  <2> QED
    BY <1>0, <1>1, <1>3, <1>4, <2>1, TodoFacts DEF InitAgrees, Quiet, Ahead, Layouts, Live
<1> QED
  BY <1>0, <1>4, <1>5, InitStepFrame DEF TypeOK

LEMMA InitWritesStep ==
  ASSUME MemoryInv, NEW r \in Records, InitWrites(r)
  PROVE  MemoryInv'
<1> DEFINE l == Head(init.todo)
<1>0. /\ TypeOK /\ init \in InitState /\ init.step = "fill" /\ r \in init.missing
      /\ point \in [Layouts -> [Records -> Status \cup {None}]]
      /\ UNCHANGED <<record, outbox, setting, request, born, vouched, faults, arms>>
      /\ point' = [point EXCEPT ![l][r] = init.live[r]]
      /\ init' = [init EXCEPT !.missing = @ \ {r}]
  BY DEF MemoryInv, TypeOK, InitWrites
<1>1. init.live[r] \in Status \cup {None}
  BY <1>0 DEF InitState
<1>2. point' \in [Layouts -> [Records -> Status \cup {None}]]
  BY <1>0, <1>1
<1>3. /\ init' \in InitState
      /\ init'.step = "fill" /\ init'.live = init.live /\ init'.todo = init.todo
      /\ init'.missing = init.missing \ {r} /\ init'.full = init.full
  BY <1>0 DEF InitState
<1>4. ASSUME ~InitWhileServing
      PROVE  /\ InitAgrees'
             /\ \A s \in Records, k \in Layouts :
                  Live(s) /\ point'[k][s] = None => point[k][s] = None
  <2>1. InitAgrees /\ Survivors' = Survivors
    BY <1>0, <1>4, SameVouches DEF MemoryInv
  <2>2. init.live[r] # None
    BY <1>0, <2>1 DEF InitAgrees
  <2>3. l \in Layouts
    BY <1>0, <2>1, TodoFacts DEF InitAgrees, Layouts
  <2>4. /\ point'[l][r] # None
        /\ \A s \in Records, k \in Layouts : s # r \/ k # l => point'[k][s] = point[k][s]
    BY <1>0, <2>2, <2>3
  <2>5. \A s \in Records \ init'.missing, k \in Layouts :
          Live(s) /\ point'[k][s] = None => Ahead(k, init.todo) /\ k # l
    <3> SUFFICES ASSUME NEW s \in Records \ init'.missing, NEW k \in Layouts,
                        Live(s), point'[k][s] = None
                 PROVE  Ahead(k, init.todo) /\ k # l
      OBVIOUS
    <3>1. CASE s = r
      BY <1>0, <2>1, <2>4, <3>1 DEF InitAgrees
    <3>2. CASE s # r
      BY <1>0, <1>3, <2>1, <2>4, <3>2 DEF InitAgrees
    <3> QED
      BY <3>1, <3>2
  <2>6. \A s \in init'.missing, k \in Layouts : point'[k][s] = None => Ahead(k, init.todo)
    BY <1>0, <1>3, <2>1, <2>4 DEF InitAgrees, InitState
  <2>7. InitAgrees'
    BY <1>0, <1>3, <2>1, <2>5, <2>6 DEF InitAgrees, Quiet, Live, Ahead
  <2> QED
    BY <2>2, <2>4, <2>7
<1> QED
  BY <1>0, <1>2, <1>3, <1>4, InitStepFrame DEF TypeOK

LEMMA InitNextLayoutStep ==
  ASSUME MemoryInv, InitNextLayout
  PROVE  MemoryInv'
<1> DEFINE lacking == {r \in Records : init.live[r] # None
                                       /\ point[Head(Tail(init.todo))][r] = None}
<1>0. /\ TypeOK /\ init \in InitState /\ init.step = "fill" /\ init.missing = {}
      /\ UNCHANGED <<record, outbox, point, setting, request, born, vouched, faults, arms>>
      /\ init' = IF Len(init.todo) > 1
                   THEN [init EXCEPT !.todo = Tail(@), !.missing = lacking]
                   ELSE [init EXCEPT !.step = "scope", !.todo = << >>]
  BY DEF MemoryInv, TypeOK, InitNextLayout
<1>1. init' \in InitState
  <2>1. CASE Len(init.todo) > 1
    <3>1. Tail(init.todo) \in Seq(Layouts)
      BY <1>0, <2>1 DEF InitState
    <3> HIDE DEF lacking
    <3>2. lacking \subseteq Records
      BY DEF lacking
    <3> QED
      BY <1>0, <2>1, <3>1, <3>2 DEF InitState
  <2>2. CASE ~(Len(init.todo) > 1)
    BY <1>0, <2>2, TodoFacts DEF InitState
  <2> QED
    BY <2>1, <2>2
<1>2. ASSUME ~InitWhileServing PROVE InitAgrees'
  <2>1. InitAgrees /\ Survivors' = Survivors
    BY <1>0, <1>2, SameVouches DEF MemoryInv
  <2>2. CASE init.todo = LAYOUTS
    <3>1. /\ init'.step = "fill" /\ init'.live = init.live /\ init'.todo = <<"shared">>
          /\ init'.full = init.full
          /\ \A r \in Records :
               r \in init'.missing <=> init.live[r] # None /\ point["shared"][r] = None
          /\ init'.missing \subseteq Records
      <4>1. /\ \A r \in Records :
                 r \in lacking <=> init.live[r] # None /\ point["shared"][r] = None
            /\ lacking \subseteq Records
        BY <2>2, TodoFacts
      <4> HIDE DEF lacking
      <4>2. Len(init.todo) > 1 /\ Tail(init.todo) = <<"shared">>
        BY <2>2, TodoFacts
      <4>3. init' = [init EXCEPT !.todo = <<"shared">>, !.missing = lacking]
        BY <1>0, <4>2
      <4> QED
        BY <1>0, <4>1, <4>3 DEF InitState
    <3>2. \A r \in Records, l \in Layouts : Live(r) /\ point[l][r] = None => l = "shared"
      BY <1>0, <2>1, <2>2, TodoFacts DEF InitAgrees, Layouts
    <3>3. \A r \in Records : init.live[r] = None <=> ~Live(r)
      BY <1>0, <2>1 DEF InitAgrees
    <3>4. /\ \A r \in Records \ init'.missing, l \in Layouts : ~(Live(r) /\ point[l][r] = None)
          /\ \A r \in init'.missing, l \in Layouts : point[l][r] = None => l = "shared"
          /\ init'.missing \subseteq {r \in Records : Live(r)}
      BY <3>1, <3>2, <3>3
    <3>5. Quiet' /\ (init.full => Survivors' = {})
      BY <1>0, <2>1 DEF InitAgrees, Quiet
    <3>6. \A l \in Layouts : l = "shared" => Ahead(l, <<"shared">>)
      BY DEF Ahead
    <3> QED
      BY <1>0, <3>1, <3>3, <3>4, <3>5, <3>6, TodoFacts DEF InitAgrees, Live, Ahead
  <2>3. CASE init.todo = <<"shared">>
    <3>1. /\ init'.step = "scope" /\ init'.todo = << >> /\ init'.full = init.full
      BY <1>0, <2>3, TodoFacts DEF InitState
    <3>2. \A r \in Records, l \in Layouts : Live(r) => point[l][r] # None
      BY <1>0, <2>1, <2>3, TodoFacts DEF InitAgrees, Ahead
    <3> QED
      BY <1>0, <2>1, <3>1, <3>2 DEF InitAgrees, Quiet, Live
  <2> QED
    BY <1>0, <2>1, <2>2, <2>3 DEF InitAgrees
<1> QED
  BY <1>0, <1>1, <1>2, InitStepFrame DEF TypeOK

(* The job ends, or dies.                                                  *)
LEMMA IdleInit ==
  /\ InitIdle \in InitState
  /\ InitIdle.step = "idle"
  /\ init' = InitIdle => InitAgrees'
BY TodoFacts DEF InitIdle, InitState, InitAgrees

LEMMA InitListsAgainStep ==
  ASSUME MemoryInv, InitListsAgain
  PROVE  MemoryInv'
<1> DEFINE live == [r \in Records |-> IF Live(r) THEN record[r].status ELSE None]
<1>0. /\ TypeOK /\ VouchesAgree /\ init \in InitState /\ init.step = "scope"
      /\ UNCHANGED <<record, outbox, point, setting, request, born, vouched, faults, arms>>
      /\ \/ init' = InitIdle
         \/ init' = [init EXCEPT !.step = "remove", !.todo = LAYOUTS, !.live = live]
  BY DEF MemoryInv, TypeOK, InitListsAgain
<1>1. \A r \in Records : /\ live[r] \in Status \cup {None}
                         /\ live[r] = None <=> ~Live(r)
  BY <1>0, MemoryAssumption DEF VouchesAgree, Live
<1>2. live \in [Records -> Status \cup {None}]
  BY <1>1
<1> HIDE DEF live
<1>3. CASE init' = InitIdle
  BY <1>0, <1>3, IdleInit, InitStepFrame DEF TypeOK
<1>4. CASE init' = [init EXCEPT !.step = "remove", !.todo = LAYOUTS, !.live = live]
  <2>1. /\ init' \in InitState
        /\ init'.step = "remove" /\ init'.live = live /\ init'.todo = LAYOUTS
        /\ init'.full = init.full
    BY <1>0, <1>2, <1>4, TodoFacts DEF InitState
  <2>2. ASSUME ~InitWhileServing PROVE InitAgrees'
    <3>1. InitAgrees /\ Survivors' = Survivors
      BY <1>0, <2>2, SameVouches DEF MemoryInv
    <3> QED
      BY <1>0, <1>1, <2>1, <3>1, TodoFacts DEF InitAgrees, Quiet, Ahead, Live
  <2> QED
    BY <1>0, <2>1, <2>2, InitStepFrame DEF TypeOK
<1> QED
  BY <1>0, <1>3, <1>4

LEMMA InitFailsStep ==
  ASSUME MemoryInv, InitFails
  PROVE  MemoryInv'
<1>1. faults' \in Nat
  BY DEF MemoryInv, TypeOK, InitFails, Strikes
<1> QED
  BY <1>1, IdleInit, InitStepFrame DEF InitFails, MemoryInv, TypeOK

(* Removing the stale points of one layout touches no live record, and     *)
(* leaves that layout without a forgotten one.                             *)
LEMMA Removal ==
  ASSUME MemoryInv, InitRemoves
  PROVE  /\ point' \in [Layouts -> [Records -> Status \cup {None}]]
         /\ init' \in InitState
         /\ ~InitWhileServing =>
              /\ \A r \in Records, l \in Layouts : Live(r) => point'[l][r] = point[l][r]
              /\ \A r \in Records, l \in Layouts :
                   ~Live(r) /\ point'[l][r] # None => point[l][r] # None /\ l # Head(init.todo)
<1> DEFINE k == Head(init.todo)
<1>0. /\ TypeOK /\ init \in InitState /\ init.step = "remove"
      /\ point \in [Layouts -> [Records -> Status \cup {None}]]
      /\ point' = [point EXCEPT ![k] = [r \in Records |-> IF Stale(r) THEN None ELSE @[r]]]
      /\ init' = IF Len(init.todo) > 1 THEN [init EXCEPT !.todo = Tail(@)] ELSE InitIdle
  BY DEF MemoryInv, TypeOK, InitRemoves
<1> HIDE DEF k
<1>1. /\ \A l \in Layouts \ {k} : point'[l] = point[l]
      /\ k \in Layouts => \A r \in Records : point'[k][r] = IF Stale(r) THEN None ELSE point[k][r]
  BY <1>0
<1>2. point' \in [Layouts -> [Records -> Status \cup {None}]]
  <2>1. CASE k \in Layouts
    <3>1. [r \in Records |-> IF Stale(r) THEN None ELSE point[k][r]]
            \in [Records -> Status \cup {None}]
      BY <1>0, <2>1
    <3> QED
      BY <1>0, <2>1, <3>1
  <2>2. CASE k \notin Layouts
    BY <1>0, <2>2
  <2> QED
    BY <2>1, <2>2
<1>3. init' \in InitState
  <2>1. CASE Len(init.todo) > 1
    <3>1. Tail(init.todo) \in Seq(Layouts)
      BY <1>0, <2>1 DEF InitState
    <3> QED
      BY <1>0, <2>1, <3>1 DEF InitState
  <2>2. CASE ~(Len(init.todo) > 1)
    BY <1>0, <2>2, IdleInit
  <2> QED
    BY <2>1, <2>2
<1>4. ASSUME ~InitWhileServing
      PROVE  /\ \A r \in Records, l \in Layouts : Live(r) => point'[l][r] = point[l][r]
             /\ \A r \in Records, l \in Layouts :
                  ~Live(r) /\ point'[l][r] # None => point[l][r] # None /\ l # k
  <2>1. k \in Layouts
    BY <1>0, <1>4, TodoFacts DEF MemoryInv, InitAgrees, Layouts, k
  <2>2. \A r \in Records : Stale(r) <=> ~Live(r)
    BY <1>0, <1>4 DEF MemoryInv, InitAgrees, Stale
  <2> QED
    BY <1>1, <2>1, <2>2
<1> QED
  BY <1>2, <1>3, <1>4 DEF k

LEMMA InitRemovesStep ==
  ASSUME MemoryInv, InitRemoves
  PROVE  MemoryInv'
<1>0. /\ TypeOK /\ init \in InitState /\ init.step = "remove"
      /\ UNCHANGED <<record, outbox, setting, request, born, vouched, faults, arms>>
      /\ init' = IF Len(init.todo) > 1 THEN [init EXCEPT !.todo = Tail(@)] ELSE InitIdle
  BY DEF MemoryInv, TypeOK, InitRemoves
<1>1. ASSUME ~InitWhileServing PROVE InitAgrees'
  <2>1. InitAgrees /\ Survivors' = Survivors
    BY <1>0, <1>1, SameVouches DEF MemoryInv
  <2>2. CASE init.todo = LAYOUTS
    <3>1. Len(init.todo) > 1 /\ Tail(init.todo) = <<"shared">>
      BY <2>2, TodoFacts
    <3>2. /\ init'.step = "remove" /\ init'.live = init.live /\ init'.todo = <<"shared">>
          /\ init'.full = init.full
      BY <1>0, <3>1 DEF InitState
    <3>3. \A r \in Records, l \in Layouts :
            ~Live(r) /\ point'[l][r] # None => Ahead(l, <<"shared">>)
      BY <1>1, <2>2, Removal, TodoFacts DEF Ahead, Layouts
    <3>4. \A r \in Records, l \in Layouts : Live(r) => point'[l][r] # None
      BY <1>0, <1>1, <2>1, Removal DEF InitAgrees
    <3>5. Quiet' /\ (init.full => Survivors' = {})
      BY <1>0, <2>1 DEF InitAgrees, Quiet
    <3> QED
      BY <1>0, <2>1, <3>2, <3>3, <3>4, <3>5, TodoFacts DEF InitAgrees, Live, Ahead
  <2>3. CASE init.todo = <<"shared">>
    BY <1>0, <2>3, IdleInit, TodoFacts
  <2> QED
    BY <1>0, <2>1, <2>2, <2>3 DEF InitAgrees
<1> QED
  BY <1>0, <1>1, Removal, InitStepFrame DEF TypeOK

-----------------------------------------------------------------------------
(* MemoryInv is inductive.                                                 *)
LEMMA NextMemoryInv == MemoryInv /\ [Next]_vars => MemoryInv'
<1> SUFFICES ASSUME MemoryInv, [Next]_vars PROVE MemoryInv'
  OBVIOUS
<1>1. ASSUME NEW q \in Requests, NEW u \in Users, NEW r \in Records,
             Confirm(q, u, r) \/ ReadSource(q, u, r) \/ Forget(q, u, r)
      PROVE  MemoryInv'
  BY <1>1, ConfirmStep, ReadSourceStep, ForgetStep
<1>2. ASSUME NEW q \in Requests, NEW r \in Records, CommitRemembered(q, r) \/ InsertSummary(q, r)
      PROVE  MemoryInv'
  BY <1>2, CommitRememberedStep, InsertSummaryStep
<1>3. ASSUME NEW q \in Requests, CallStore(q) \/ MarkApplied(q) \/ RequestFails(q)
      PROVE  MemoryInv'
  BY <1>3, CallStoreStep, MarkAppliedStep, RequestClosedStep
<1>4. ASSUME NEW q \in Requests, NEW u \in Users, Remember(q, u)
      PROVE  MemoryInv'
  BY <1>4, RememberStep
<1>5. ASSUME InitStarts \/ InitLists \/ InitNextLayout \/ InitListsAgain \/ InitRemoves \/ InitFails
      PROVE  MemoryInv'
  BY <1>5, InitStartsStep, InitListsStep, InitNextLayoutStep, InitListsAgainStep, InitRemovesStep,
     InitFailsStep
<1>6. ASSUME NEW r \in Records, InitWrites(r)
      PROVE  MemoryInv'
  BY <1>6, InitWritesStep
<1>7. ASSUME \/ ArmAutoConfirm \/ RestoreAutoConfirm \/ RevokeAutoConfirmations
             \/ ArmPrimaryOnly \/ RestoreForgetScope
      PROVE  MemoryInv'
  BY <1>7, SettingStep, RevokeStep
<1>8. CASE UNCHANGED vars
  <2>1. UNCHANGED <<record, outbox, setting, request, point, init, born, vouched, faults, arms>>
    BY <1>8 DEF vars
  <2>2. init' \in InitState /\ faults' \in Nat
        /\ point' \in [Layouts -> [Records -> Status \cup {None}]]
    BY <2>1 DEF MemoryInv, TypeOK
  <2>3. ~InitWhileServing => InitAgrees'
    BY <2>1, SameVouches DEF MemoryInv, InitAgrees, Quiet, Live
  <2> QED
    BY <2>1, <2>2, <2>3, InitStepFrame
<1> QED
  BY <1>1, <1>2, <1>3, <1>4, <1>5, <1>6, <1>7, <1>8 DEF Next

(* Every reachable state satisfies the invariant.                          *)
THEOREM MemoryInvariance == Spec => []MemoryInv
BY InitMemoryInv, NextMemoryInv, PTL DEF Spec

-----------------------------------------------------------------------------
(* Every row, point and process keeps its shape.                           *)
THEOREM MemoryTypes == Spec => []TypeOK
<1>1. MemoryInv => TypeOK
  BY DEF MemoryInv
<1> QED
  BY <1>1, MemoryInvariance, PTL

(* Whatever is confirmed goes back to its owner, or says that the switch   *)
(* confirmed it, or was summarised from what the switch confirmed: no      *)
(* route, no repair and no revocation confirms anything by itself.         *)
THEOREM NothingConfirmsItself == Spec => []ConfirmedWasVouched
<1>1. MemoryInv => ConfirmedWasVouched
  BY DEF MemoryInv, VouchesAgree
<1> QED
  BY <1>1, MemoryInvariance, PTL

(* As long as memory-init runs alone, a live record that a layout lacks    *)
(* has its upsert pending: no failure, crash or race hides a lost write.   *)
THEOREM NoWriteIsLost ==
  ASSUME ~InitWhileServing
  PROVE  Spec => []MissingIsPending
<1>1. MemoryInv => MissingIsPending
  BY DEF MemoryInv
<1> QED
  BY <1>1, MemoryInvariance, PTL

(* As long as memory-init runs alone, one complete run of it leaves the    *)
(* two stores in agreement, whatever had happened before.                  *)
THEOREM OneRunRepairs ==
  ASSUME ~InitWhileServing
  PROVE  Spec => InitRepairs
<1> DEFINE Repaired == init.step = "remove" /\ init.full /\ init'.step = "idle" /\ faults' = faults
                         => (Survivors = {} /\ \A r \in Records : ~Named(r))'
<1>1. ASSUME MemoryInv, [Next]_vars,
             init.step = "remove", init.full, init'.step = "idle", faults' = faults
      PROVE  (Survivors = {} /\ \A r \in Records : ~Named(r))'
  <2>0. TypeOK /\ init' # init
    BY <1>1 DEF MemoryInv
  <2>1. InitRemoves
    <3>1. ASSUME NEW q \in Requests, NEW u \in Users, NEW r \in Records,
                 Confirm(q, u, r) \/ ReadSource(q, u, r) \/ Forget(q, u, r)
          PROVE  FALSE
      BY <2>0, <3>1 DEF Confirm, ReadSource, Forget
    <3>2. ASSUME NEW q \in Requests, NEW r \in Records, CommitRemembered(q, r) \/ InsertSummary(q, r)
          PROVE  FALSE
      BY <2>0, <3>2 DEF CommitRemembered, InsertSummary
    <3>3. ASSUME NEW q \in Requests, CallStore(q) \/ MarkApplied(q) \/ RequestFails(q)
          PROVE  FALSE
      BY <2>0, <3>3 DEF CallStore, MarkApplied, RequestFails
    <3>4. ASSUME NEW q \in Requests, NEW u \in Users, Remember(q, u)
          PROVE  FALSE
      BY <2>0, <3>4 DEF Remember
    <3>5. ASSUME NEW r \in Records, InitWrites(r)
          PROVE  FALSE
      BY <1>1, <3>5 DEF InitWrites
    <3>6. ~(InitStarts \/ InitLists \/ InitNextLayout \/ InitListsAgain)
      BY <1>1 DEF InitStarts, InitLists, InitNextLayout, InitListsAgain
    <3>7. ~InitFails
      BY <1>1, <2>0 DEF InitFails, Strikes, TypeOK
    <3>8. ~(\/ ArmAutoConfirm \/ RestoreAutoConfirm \/ RevokeAutoConfirmations
            \/ ArmPrimaryOnly \/ RestoreForgetScope)
      BY <2>0 DEF ArmAutoConfirm, RestoreAutoConfirm, RevokeAutoConfirmations, ArmPrimaryOnly,
                  RestoreForgetScope, Arm
    <3>9. ~UNCHANGED vars
      BY <2>0 DEF vars
    <3> QED
      BY <1>1, <3>1, <3>2, <3>3, <3>4, <3>5, <3>6, <3>7, <3>8, <3>9 DEF Next
  <2>2. InitAgrees /\ init.todo = <<"shared">> /\ UNCHANGED <<record, born, vouched>>
    <3>1. InitAgrees /\ UNCHANGED <<record, born, vouched>>
      BY <1>1, <2>1 DEF MemoryInv, InitRemoves
    <3>2. init.todo # LAYOUTS
      <4>1. Len(init.todo) > 1 => init' = [init EXCEPT !.todo = Tail(@)]
        BY <2>1 DEF InitRemoves
      <4>2. init \in InitState
        BY <2>0 DEF TypeOK
      <4>3. init.todo = LAYOUTS => init'.step = "remove"
        <5>1. Len(LAYOUTS) > 1
          BY TodoFacts
        <5>2. Len(init.todo) > 1 => init'.step = init.step
          BY <4>1, <4>2 DEF InitState
        <5> QED
          BY <1>1, <5>1, <5>2
      <4> QED
        BY <1>1, <4>3
    <3> QED
      BY <1>1, <3>1, <3>2 DEF InitAgrees
  <2>3. Survivors' = {}
    BY <1>1, <2>2, SameVouches DEF InitAgrees
  <2>4. \A r \in Records, l \in Layouts :
          /\ ~Live(r) => point'[l][r] = None
          /\ Live(r) => point'[l][r] # None
    BY <1>1, <2>1, <2>2, Removal, TodoFacts DEF InitAgrees, Ahead
  <2>5. record' = record
    BY <2>2
  <2>6. \A r \in Records : ~Named(r)'
    <3>1. ASSUME NEW r \in Records, NEW l \in Layouts
          PROVE  /\ record[r].state = "forgotten" => point'[l][r] = None
                 /\ record[r].state = "live" => point'[l][r] # None
      BY <2>4 DEF Live
    <3> QED
      BY <2>5, <3>1 DEF Named, Live
  <2> QED
    BY <2>3, <2>6
<1>2. MemoryInv /\ [Next]_vars => [Repaired]_vars
  BY <1>1
<1> QED
  BY <1>2, MemoryInvariance, PTL DEF Spec, InitRepairs
=============================================================================
