----------------------------- MODULE Range_proofs -----------------------------
(* Proofs about the Range: its registry of controls (RangeRegistry), for     *)
(* every set of controls, every order of registration and any number of      *)
(* requests, faults and arms; and the runs of the probe service it asks for  *)
(* (Probe), for every directory, any number of runs and any losses.          *)
EXTENDS RangeRegistry, Probe, SequenceTheorems, FiniteSetTheorems, WellFoundedInduction, TLAPS

(* An effect is of a control it can have.                                    *)
Fits(kind, m) == /\ kind = "write" => m \in Variants
                 /\ kind = "set"   => m \in Settings
                 /\ kind = "switch" => m \in Switches

EffectType == {e \in Effects \X Ids \X BOOLEAN : Fits(e[1], e[2])}

(* The part of TypeOK about the systems the controls change.                 *)
WorldType ==
  /\ forced \in [Tables -> BOOLEAN]
  /\ requests \in Seq(Request) /\ tampered \subseteq DOMAIN requests
  /\ bob \in BOOLEAN /\ service \subseteq {"support_manager", "support_agent"}
  /\ {bundle, loaded} \subseteq Variants \union {"real"}
  /\ current \in BOOLEAN /\ running \in BOOLEAN
  /\ armed \subseteq Settings /\ leftover \subseteq Leaky /\ inflight \subseteq Leaky
  /\ late \subseteq Leaky /\ switched \subseteq Switches

ConsoleType == [op: {"none", "arm", "restore", "reset"},
                at: {"idle", "intent", "perform", "probe", "sweep", "check"},
                id: Ids, todo: Seq(EffectType), raised: BOOLEAN, next: Nat \ {0},
                read: [Ids -> Readings], wrong: SUBSET Ids, changed: SUBSET Ids,
                failed: SUBSET Ids,
                answer: Readings \union {"none", "failed", "restored"}]

(* The part of TypeOK about the Range itself.                                *)
RangeType ==
  /\ up \in [Systems -> BOOLEAN] /\ shunned \in BOOLEAN
  /\ intents \subseteq Ids /\ arms \in Nat /\ events \in Nat
  /\ console \in ConsoleType

(* A policy OPA started with after the last write is the one written.        *)
LoadedIsTheBundle == current => loaded = bundle

(* Every effect still to be performed that arms is of a control written down. *)
Announced(todo) == \A i \in DOMAIN todo : todo[i][3] => todo[i][2] \in intents

(* Whoever read a setting of memory-db while it was armed read it after the   *)
(* arming was written down.                                                  *)
Underway == inflight \subseteq intents

WorldInv == /\ WorldType /\ LoadedIsTheBundle /\ Underway /\ ArmedIsWritten
            /\ GenuineRequestsKeepTheirPayload

RangeInv == WorldInv /\ RangeType /\ Announced(console.todo)

-----------------------------------------------------------------------------
(* Sequences.                                                                *)
LEMMA SameShape ==
  ASSUME NEW S, NEW s \in Seq(S), NEW t, DOMAIN t = DOMAIN s, t = [i \in DOMAIN s |-> t[i]],
         \A i \in DOMAIN s : t[i] \in S
  PROVE  t \in Seq(S) /\ Len(t) = Len(s)
<1>1. DOMAIN s = 1 .. Len(s) /\ Len(s) \in Nat
  BY LenProperties
<1>2. t \in [1 .. Len(s) -> S]
  BY <1>1
<1> QED  BY <1>1, <1>2, SeqDef, LenProperties

LEMMA OneEffect ==
  ASSUME NEW e \in EffectType
  PROVE  /\ <<e>> \in Seq(EffectType) /\ Len(<<e>>) = 1
         /\ \A i \in DOMAIN <<e>> : <<e>>[i] = e
OBVIOUS

LEMMA IdsAre ==
  /\ {Payload, Window, Bob, Service, OpaStop} \subseteq Ids
  /\ Tables \subseteq Ids /\ Variants \subseteq Ids /\ Settings \subseteq Ids /\ Switches \subseteq Ids
BY DEF Ids, Database

(* Every control is of exactly one kind.                                     *)
LEMMA OneKind ==
  ASSUME NEW m \in Ids
  PROVE  /\ m \in Database \/ m = OpaStop \/ m \in Variants \/ m \in Settings \/ m \in Switches
         /\ m \in Database => m # OpaStop /\ m \notin Variants /\ m \notin Settings /\ m \notin Switches
         /\ m = OpaStop => m \notin Variants /\ m \notin Settings /\ m \notin Switches
         /\ m \in Variants => m \notin Settings /\ m \notin Switches
         /\ m \in Settings => m \notin Switches
BY RangeAssumption DEF Ids, Database, Payload, Window, Bob, Service, OpaStop

LEMMA RestartIsSequence ==
  /\ RestartOpa \in Seq(EffectType) /\ Len(RestartOpa) = 2
  /\ ~RestartOpa[1][3] /\ ~RestartOpa[2][3]
<1>1. <<"stop", OpaStop, FALSE>> \in EffectType /\ <<"start", OpaStop, FALSE>> \in EffectType
  BY IdsAre DEF Effects, EffectType, Fits
<1> QED  BY <1>1 DEF RestartOpa

OneStep(kind, m, arm) == << <<kind, m, arm>> >>

LEMMA OneArming ==
  ASSUME NEW m \in Ids, NEW kind \in Effects, Fits(kind, m)
  PROVE  /\ OneStep(kind, m, TRUE) \in Seq(EffectType)
         /\ \A i \in DOMAIN OneStep(kind, m, TRUE) : /\ OneStep(kind, m, TRUE)[i][2] = m
                                                   /\ OneStep(kind, m, TRUE)[i][3]
<1> DEFINE e == <<kind, m, TRUE>>
<1>1. e \in EffectType /\ e[2] = m /\ e[3]
  BY DEF EffectType, Fits
<1> HIDE DEF e
<1>2. <<e>> \in Seq(EffectType)
      /\ \A i \in DOMAIN <<e>> : <<e>>[i][2] = m /\ <<e>>[i][3]
  BY <1>1, OneEffect
<1>3. OneStep(kind, m, TRUE) = <<e>>
  BY DEF e, OneStep
<1> QED  BY <1>2, <1>3

LEMMA OneDisarming ==
  ASSUME NEW m \in Ids, NEW kind \in Effects, Fits(kind, m)
  PROVE  /\ OneStep(kind, m, FALSE) \in Seq(EffectType)
         /\ \A i \in DOMAIN OneStep(kind, m, FALSE) : /\ OneStep(kind, m, FALSE)[i][2] = m
                                                   /\ ~OneStep(kind, m, FALSE)[i][3]
<1> DEFINE e == <<kind, m, FALSE>>
<1>1. e \in EffectType /\ e[2] = m /\ ~e[3]
  BY DEF EffectType, Fits
<1> HIDE DEF e
<1>2. <<e>> \in Seq(EffectType)
      /\ \A i \in DOMAIN <<e>> : <<e>>[i][2] = m /\ ~<<e>>[i][3]
  BY <1>1, OneEffect
<1>3. OneStep(kind, m, FALSE) = <<e>>
  BY DEF e, OneStep
<1> QED  BY <1>2, <1>3

LEMMA Joined ==
  ASSUME NEW a \in Seq(EffectType), NEW b \in Seq(EffectType)
  PROVE  /\ a \o b \in Seq(EffectType)
         /\ \A i \in DOMAIN (a \o b) : (\E j \in DOMAIN a : (a \o b)[i] = a[j])
                                   \/ (\E j \in DOMAIN b : (a \o b)[i] = b[j])
<1>1. /\ a \o b \in Seq(EffectType) /\ Len(a \o b) = Len(a) + Len(b)
      /\ \A i \in 1 .. Len(a) + Len(b) :
           (a \o b)[i] = IF i <= Len(a) THEN a[i] ELSE b[i - Len(a)]
  BY ConcatProperties
<1>2. /\ DOMAIN a = 1 .. Len(a) /\ DOMAIN b = 1 .. Len(b) /\ Len(a) \in Nat /\ Len(b) \in Nat
      /\ DOMAIN (a \o b) = 1 .. Len(a) + Len(b)
  BY <1>1, LenProperties
<1>3. ASSUME NEW i \in 1 .. Len(a) + Len(b)
      PROVE  (\E j \in DOMAIN a : (a \o b)[i] = a[j]) \/ (\E j \in DOMAIN b : (a \o b)[i] = b[j])
  <2>1. CASE i <= Len(a)
    BY <1>1, <1>2, <2>1
  <2>2. CASE ~(i <= Len(a))
    <3>1. i - Len(a) \in DOMAIN b /\ (a \o b)[i] = b[i - Len(a)]
      BY <1>1, <1>2, <2>2
    <3> QED  BY <3>1
  <2> QED  BY <2>1, <2>2
<1> QED  BY <1>1, <1>2, <1>3

(* What arming does names the control; nothing restoring does arms.          *)
LEMMA ApplyNames ==
  ASSUME NEW m \in Ids
  PROVE  /\ Apply(m) \in Seq(EffectType)
         /\ \A i \in DOMAIN Apply(m) : Apply(m)[i][3] => Apply(m)[i][2] = m
<1>1. CASE m \in Variants
  <2> DEFINE w == OneStep("write", m, TRUE)
  <2>1. w \in Seq(EffectType) /\ \A i \in DOMAIN w : w[i][2] = m
    BY <1>1, OneArming DEF Effects, Fits
  <2>2. Apply(m) = w \o RestartOpa
    BY <1>1, OneKind DEF Apply, OneStep
  <2> HIDE DEF w
  <2>3. \A j \in DOMAIN RestartOpa : ~RestartOpa[j][3]
    BY RestartIsSequence, LenProperties
  <2> QED  BY <2>1, <2>2, <2>3, Joined, RestartIsSequence, SMTT(40)
<1>2. CASE m \notin Variants
  <2>1. PICK kind \in Effects : Apply(m) = OneStep(kind, m, TRUE) /\ Fits(kind, m)
    BY <1>2, OneKind DEF Apply, Effects, OneStep, Fits
  <2>2. /\ OneStep(kind, m, TRUE) \in Seq(EffectType)
        /\ \A i \in DOMAIN OneStep(kind, m, TRUE) : OneStep(kind, m, TRUE)[i][2] = m
    BY <2>1, OneArming, ZenonT(40)
  <2> QED  BY <2>1, <2>2
<1> QED  BY <1>1, <1>2

LEMMA RestoreDisarms ==
  ASSUME NEW m \in Ids
  PROVE  /\ Restore(m) \in Seq(EffectType)
         /\ \A i \in DOMAIN Restore(m) : ~Restore(m)[i][3]
<1>1. CASE m \in Variants
  <2> DEFINE w == OneStep("write", m, FALSE)
  <2>1. w \in Seq(EffectType) /\ \A i \in DOMAIN w : ~w[i][3]
    BY <1>1, OneDisarming DEF Effects, Fits
  <2>2. Restore(m) = w \o RestartOpa
    BY <1>1, OneKind DEF Restore, OneStep
  <2> HIDE DEF w
  <2>3. \A j \in DOMAIN RestartOpa : ~RestartOpa[j][3]
    BY RestartIsSequence, LenProperties
  <2> QED  BY <2>1, <2>2, <2>3, Joined, RestartIsSequence, SMTT(40)
<1>2. CASE m \in Settings
  <2> DEFINE set  == OneStep("set", m, FALSE)
             rest == CASE m \in ByMemoryInit         -> OneStep("init", m, FALSE)
                       [] m \in Leaky \ ByMemoryInit -> OneStep("clear", m, FALSE)
                       [] m \notin Leaky             -> <<>>
  <2>1. Restore(m) = set \o rest
    BY <1>2, OneKind DEF Restore, RestoreMemory, OneStep
  <2>2. set \in Seq(EffectType) /\ \A i \in DOMAIN set : ~set[i][3]
    BY <1>2, OneDisarming DEF Effects, Fits
  <2>3. rest \in {OneStep("init", m, FALSE), OneStep("clear", m, FALSE), <<>>}
    BY RangeAssumption
  <2> HIDE DEF set, rest
  <2>4. rest \in Seq(EffectType) /\ \A i \in DOMAIN rest : ~rest[i][3]
    <3>1. CASE rest = <<>>
      BY <3>1
    <3>2. CASE rest # <<>>
      <4>1. PICK kind \in Effects : rest = OneStep(kind, m, FALSE) /\ Fits(kind, m)
        BY <2>3, <3>2 DEF Effects, Fits
      <4>2. /\ OneStep(kind, m, FALSE) \in Seq(EffectType)
            /\ \A i \in DOMAIN OneStep(kind, m, FALSE) : ~OneStep(kind, m, FALSE)[i][3]
        BY <4>1, OneDisarming
      <4> QED  BY <4>1, <4>2
    <3> QED  BY <3>1, <3>2
  <2> QED  BY <2>1, <2>2, <2>4, Joined
<1>3. CASE m \notin Variants /\ m \notin Settings
  <2>1. PICK kind \in Effects : Restore(m) = OneStep(kind, m, FALSE) /\ Fits(kind, m)
    BY <1>3, OneKind DEF Restore, Effects, OneStep, Fits
  <2>2. /\ OneStep(kind, m, FALSE) \in Seq(EffectType)
        /\ \A i \in DOMAIN OneStep(kind, m, FALSE) : ~OneStep(kind, m, FALSE)[i][3]
    BY <2>1, OneDisarming
  <2> QED  BY <2>1, <2>2
<1> QED  BY <1>1, <1>2, <1>3

-----------------------------------------------------------------------------
(* The systems.                                                              *)
LEMMA WrittenKept ==
  ASSUME ArmedIsWritten, intents \subseteq intents',
         \A k \in Ids \ {OpaStop} : IsArmed(k)' => IsArmed(k) \/ k \in intents'
  PROVE  ArmedIsWritten'
BY DEF ArmedIsWritten

(* What the requests say of the two controls that change them.               *)
Altered == \E i \in DOMAIN requests : requests[i].pending /\ requests[i].amount # requests[i].asked
Moved   == \E i \in DOMAIN requests : requests[i].pending /\ requests[i].window = "moved"

LEMMA RequestsTell ==
  ASSUME ArmedIsWritten, intents \subseteq intents',
         UNCHANGED <<forced, bob, service, bundle, loaded, running, armed, leftover, switched>>,
         Altered' => Altered, Moved' => Moved \/ Window \in intents'
  PROVE  ArmedIsWritten'
<1>1. /\ Altered <=> \E i \in Pending : requests[i].amount # requests[i].asked
      /\ Moved <=> \E i \in Pending : requests[i].window = "moved"
      /\ Altered' <=> \E i \in Pending' : requests'[i].amount # requests'[i].asked
      /\ Moved' <=> \E i \in Pending' : requests'[i].window = "moved"
  BY DEF Altered, Moved, Pending
<1> HIDE DEF Altered, Moved, Pending
<1>2. \A k \in Ids \ {OpaStop} : IsArmed(k)' => IsArmed(k) \/ k \in intents'
  BY <1>1 DEF IsArmed
<1> QED  BY <1>2, WrittenKept

(* A request rewritten in place keeps its type; so does the sequence.         *)
LEMMA RequestParts ==
  ASSUME NEW r \in Request
  PROVE  /\ r.asked \in {"45", "1"} /\ r.amount \in {"45", "1", "4500"}
         /\ r.ended \in {"45", "1", "4500", ""}
         /\ r.pending \in BOOLEAN /\ r.window \in {"open", "aged", "moved"}
         /\ \A a \in {"45", "1", "4500"} : [r EXCEPT !.amount = a] \in Request
         /\ \A w \in {"open", "aged", "moved"} : [r EXCEPT !.window = w] \in Request
         /\ [r EXCEPT !.pending = FALSE, !.ended = r.amount] \in Request
BY DEF Request, Amounts

LEMMA NewestAre ==
  /\ Pending \subseteq DOMAIN requests /\ NewestPending \subseteq Pending
  /\ NewestOf45 \subseteq Pending /\ \A i \in NewestOf45 : requests[i].amount = "45"
BY DEF Pending, NewestPending, NewestOf45, Newest

LEMMA TablesKeep ==
  ASSUME WorldInv, NEW m \in Tables, NEW arm \in BOOLEAN, arm => m \in intents,
         CallTable(m, arm), intents' = intents,
         UNCHANGED <<bundle, loaded, current, running, armed, leftover, inflight, late, switched>>
  PROVE  WorldInv'
<1>1. /\ UNCHANGED <<requests, tampered, bob, service>>
      /\ forced' \in [Tables -> BOOLEAN]
      /\ \A k \in Tables : ~forced'[k] => ~forced[k] \/ k \in intents
  BY DEF CallTable, WorldInv, WorldType
<1>2. ArmedIsWritten'
  <2>1. \A k \in Ids \ {OpaStop} : IsArmed(k)' => IsArmed(k) \/ k \in intents'
    BY <1>1 DEF IsArmed, Pending
  <2> QED  BY <2>1, WrittenKept DEF WorldInv
<1> QED  BY <1>1, <1>2 DEF WorldInv, WorldType, LoadedIsTheBundle, Underway, GenuineRequestsKeepTheirPayload

LEMMA TamperKeeps ==
  ASSUME WorldInv, Payload \in intents, TamperPayload, intents' = intents,
         UNCHANGED <<bundle, loaded, current, running, armed, leftover, inflight, late, switched>>
  PROVE  WorldInv'
<1>1. UNCHANGED <<forced, bob, service>>
  BY DEF TamperPayload
<1>2. CASE tampered # {}
  <2>1. UNCHANGED <<requests, tampered>>
    BY <1>2 DEF TamperPayload
  <2>2. ArmedIsWritten'
    <3>1. \A k \in Ids \ {OpaStop} : IsArmed(k)' => IsArmed(k) \/ k \in intents'
      BY <1>1, <2>1 DEF IsArmed, Pending
    <3> QED  BY <3>1, WrittenKept DEF WorldInv
  <2> QED  BY <1>1, <2>1, <2>2 DEF WorldInv, WorldType, LoadedIsTheBundle, Underway, GenuineRequestsKeepTheirPayload
<1>3. CASE tampered = {}
  <2>1. /\ tampered' = NewestOf45
        /\ requests' = [i \in DOMAIN requests |->
             [requests[i] EXCEPT !.amount = IF i \in NewestOf45 THEN "4500" ELSE @]]
    BY <1>3 DEF TamperPayload
  <2>2. \A i \in DOMAIN requests :
          /\ requests'[i] \in Request /\ requests'[i].pending = requests[i].pending
          /\ requests'[i].window = requests[i].window /\ requests'[i].asked = requests[i].asked
          /\ requests'[i].ended = requests[i].ended
          /\ i \notin NewestOf45 => requests'[i].amount = requests[i].amount
    <3> SUFFICES ASSUME NEW i \in DOMAIN requests
                 PROVE  /\ requests'[i] \in Request /\ requests'[i].pending = requests[i].pending
                        /\ requests'[i].window = requests[i].window /\ requests'[i].asked = requests[i].asked
                        /\ requests'[i].ended = requests[i].ended
                        /\ i \notin NewestOf45 => requests'[i].amount = requests[i].amount
      OBVIOUS
    <3>1. requests[i] \in Request
      BY ElementOfSeq, LenProperties DEF WorldInv, WorldType
    <3> QED  BY <2>1, <3>1, RequestParts, ZenonT(40) DEF Request
  <2>3. requests' \in Seq(Request) /\ DOMAIN requests' = DOMAIN requests
    BY <2>1, <2>2, SameShape DEF WorldInv, WorldType
  <2>4. tampered' \subseteq DOMAIN requests'
    BY <2>1, <2>3, NewestAre
  <2>5. ArmedIsWritten'
    <3>1. \A k \in Ids \ {OpaStop} : IsArmed(k)' => IsArmed(k) \/ k \in intents'
      BY <1>1, <2>2, <2>3 DEF IsArmed, Pending
    <3> QED  BY <3>1, WrittenKept DEF WorldInv
  <2>6. GenuineRequestsKeepTheirPayload'
    BY <1>3, <2>1, <2>2, <2>3, NewestAre DEF WorldInv, GenuineRequestsKeepTheirPayload, Pending
  <2> QED  BY <1>1, <2>3, <2>4, <2>5, <2>6 DEF WorldInv, WorldType, LoadedIsTheBundle, Underway
<1> QED  BY <1>2, <1>3

LEMMA GenuineKept ==
  ASSUME GenuineRequestsKeepTheirPayload, DOMAIN requests' = DOMAIN requests,
         \A i \in DOMAIN requests :
           /\ requests'[i].pending = requests[i].pending /\ requests'[i].asked = requests[i].asked
           /\ requests'[i].ended = requests[i].ended
           /\ requests'[i].pending => \/ requests'[i].amount = requests[i].amount /\ tampered' = tampered
                                      \/ requests'[i].amount = requests'[i].asked
           /\ ~requests'[i].pending => requests'[i].amount = requests[i].amount
  PROVE  GenuineRequestsKeepTheirPayload'
<1> SUFFICES ASSUME NEW i \in DOMAIN requests
             PROVE  /\ requests'[i].pending /\ i \notin tampered'
                         => requests'[i].amount = requests'[i].asked
                    /\ ~requests'[i].pending => requests'[i].amount = requests'[i].ended
  BY DEF GenuineRequestsKeepTheirPayload
<1>1. /\ requests[i].pending /\ i \notin tampered => requests[i].amount = requests[i].asked
      /\ ~requests[i].pending => requests[i].amount = requests[i].ended
  BY DEF GenuineRequestsKeepTheirPayload
<1> QED  BY <1>1, Zenon

LEMMA RestorePayloadKeeps ==
  ASSUME WorldInv, RestorePayload, intents' = intents,
         UNCHANGED <<bundle, loaded, current, running, armed, leftover, inflight, late, switched>>
  PROVE  WorldInv'
<1>1. /\ UNCHANGED <<forced, bob, service>> /\ tampered' = {}
      /\ requests' = [i \in DOMAIN requests |->
           [requests[i] EXCEPT !.amount =
              IF i \in tampered \intersect Pending THEN requests[i].asked ELSE @]]
  BY DEF RestorePayload
<1>2. ASSUME NEW i \in DOMAIN requests
      PROVE  /\ requests'[i] \in Request /\ requests'[i].pending = requests[i].pending
             /\ requests'[i].window = requests[i].window /\ requests'[i].asked = requests[i].asked
             /\ requests'[i].ended = requests[i].ended
             /\ requests'[i].pending => requests'[i].amount = requests'[i].asked
             /\ ~requests'[i].pending => requests'[i].amount = requests[i].amount
  <2>1. requests[i] \in Request
    BY ElementOfSeq, LenProperties DEF WorldInv, WorldType
  <2>2. requests[i].pending /\ i \notin tampered => requests[i].amount = requests[i].asked
    BY DEF WorldInv, GenuineRequestsKeepTheirPayload
  <2>3. CASE i \in tampered \intersect Pending
    <3>1. requests'[i] = [requests[i] EXCEPT !.amount = requests[i].asked] /\ requests[i].pending
      BY <1>1, <2>3 DEF Pending
    <3>2. requests[i].asked \in Amounts
      BY <2>1, RequestParts DEF Amounts
    <3> QED  BY <2>1, <3>1, <3>2 DEF Request
  <2>4. CASE i \notin tampered \intersect Pending
    <3>1. requests'[i] = requests[i]
      BY <1>1, <2>1, <2>4 DEF Request
    <3> QED  BY <2>1, <2>2, <2>4, <3>1 DEF Pending
  <2> QED  BY <2>3, <2>4
<1>3. requests' \in Seq(Request) /\ DOMAIN requests' = DOMAIN requests
  BY <1>1, <1>2, SameShape DEF WorldInv, WorldType
<1>4. ArmedIsWritten'
  <2>1. ~Altered' /\ (Moved' => Moved)
    BY <1>2, <1>3 DEF Altered, Moved
  <2> QED  BY <1>1, <2>1, RequestsTell DEF WorldInv
<1>5. GenuineRequestsKeepTheirPayload'
  BY <1>1, <1>2, <1>3, GenuineKept DEF WorldInv
<1>6. tampered' \subseteq DOMAIN requests'
  BY <1>1
<1> QED  BY <1>1, <1>3, <1>4, <1>5, <1>6 DEF WorldInv, WorldType, LoadedIsTheBundle, Underway

LEMMA WindowKeeps ==
  ASSUME WorldInv, NEW arm \in BOOLEAN, arm => Window \in intents, MoveWindow(arm), intents' = intents,
         UNCHANGED <<bundle, loaded, current, running, armed, leftover, inflight, late, switched>>
  PROVE  WorldInv'
<1>1. /\ UNCHANGED <<forced, tampered, bob, service>>
      /\ requests' = [i \in DOMAIN requests |->
           [requests[i] EXCEPT !.window =
              IF i \in NewestPending THEN IF arm THEN "moved" ELSE "open" ELSE @]]
  BY DEF MoveWindow
<1>2. ASSUME NEW i \in DOMAIN requests
      PROVE  /\ requests'[i] \in Request /\ requests'[i].pending = requests[i].pending
             /\ requests'[i].amount = requests[i].amount /\ requests'[i].asked = requests[i].asked
             /\ requests'[i].ended = requests[i].ended
             /\ requests'[i].window = "moved" => requests[i].window = "moved" \/ Window \in intents
  <2>1. requests[i] \in Request
    BY ElementOfSeq, LenProperties DEF WorldInv, WorldType
  <2>2. CASE i \notin NewestPending
    <3>1. requests'[i] = requests[i]
      BY <1>1, <2>1, <2>2 DEF Request
    <3> QED  BY <2>1, <3>1
  <2>3. CASE i \in NewestPending
    <3>1. CASE arm
      <4>1. requests'[i] = [requests[i] EXCEPT !.window = "moved"]
        BY <1>1, <2>3, <3>1
      <4>2. requests'[i] \in Request
        BY <2>1, <4>1, RequestParts
      <4>3. /\ requests'[i].pending = requests[i].pending /\ requests'[i].window = "moved"
            /\ requests'[i].asked = requests[i].asked /\ requests'[i].amount = requests[i].amount
            /\ requests'[i].ended = requests[i].ended
        BY <2>1, <4>1, Zenon DEF Request
      <4> QED  BY <3>1, <4>2, <4>3
    <3>2. CASE ~arm
      <4>1. requests'[i] = [requests[i] EXCEPT !.window = "open"]
        BY <1>1, <2>3, <3>2
      <4>2. requests'[i] \in Request
        BY <2>1, <4>1, RequestParts
      <4>3. /\ requests'[i].pending = requests[i].pending /\ requests'[i].window = "open"
            /\ requests'[i].asked = requests[i].asked /\ requests'[i].amount = requests[i].amount
            /\ requests'[i].ended = requests[i].ended
        BY <2>1, <4>1, Zenon DEF Request
      <4> QED  BY <3>2, <4>2, <4>3
    <3> QED  BY <3>1, <3>2
  <2> QED  BY <2>2, <2>3
<1>3. requests' \in Seq(Request) /\ DOMAIN requests' = DOMAIN requests
  BY <1>1, <1>2, SameShape DEF WorldInv, WorldType
<1>4. ArmedIsWritten'
  <2>1. (Altered' => Altered) /\ (Moved' => Moved \/ Window \in intents')
    BY <1>2, <1>3 DEF Altered, Moved
  <2> QED  BY <1>1, <2>1, RequestsTell DEF WorldInv
<1>5. GenuineRequestsKeepTheirPayload'
  BY <1>1, <1>2, <1>3, GenuineKept DEF WorldInv
<1> QED  BY <1>1, <1>3, <1>4, <1>5 DEF WorldInv, WorldType, LoadedIsTheBundle, Underway

LEMMA RolesKeep ==
  ASSUME WorldInv, intents' = intents,
         \/ DemoteManagers /\ Bob \in intents
         \/ GrantService /\ Service \in intents
         \/ RestoreBob \/ WithdrawService,
         UNCHANGED <<bundle, loaded, current, running, armed, leftover, inflight, late, switched>>
  PROVE  WorldInv'
<1>1. /\ UNCHANGED <<forced, requests, tampered>>
      /\ bob' \in BOOLEAN /\ service' \subseteq {"support_manager", "support_agent"}
      /\ ~bob' => ~bob \/ Bob \in intents
      /\ service' # {} => service # {} \/ Service \in intents
  BY DEF WorldInv, WorldType, DemoteManagers, GrantService, RestoreBob, WithdrawService
<1>2. ArmedIsWritten'
  <2>1. \A k \in Ids \ {OpaStop} : IsArmed(k)' => IsArmed(k) \/ k \in intents'
    BY <1>1 DEF IsArmed, Pending
  <2> QED  BY <2>1, WrittenKept DEF WorldInv
<1> QED  BY <1>1, <1>2 DEF WorldInv, WorldType, LoadedIsTheBundle, Underway, GenuineRequestsKeepTheirPayload

LEMMA CallKeeps ==
  ASSUME WorldInv, NEW m \in Ids, NEW arm \in BOOLEAN, arm => m \in intents,
         CallFunction(m, arm), intents' = intents
  PROVE  WorldInv'
<1>1. UNCHANGED <<bundle, loaded, current, running, armed, leftover, inflight, late, switched>>
  BY DEF CallFunction
<1>2. \/ m \in Tables /\ CallTable(m, arm)
      \/ Payload \in intents /\ TamperPayload
      \/ RestorePayload
      \/ (arm => Window \in intents) /\ MoveWindow(arm)
      \/ DemoteManagers /\ Bob \in intents
      \/ GrantService /\ Service \in intents
      \/ RestoreBob \/ WithdrawService
  BY DEF CallFunction, CallTable
<1> QED  BY <1>1, <1>2, TablesKeep, TamperKeeps, RestorePayloadKeeps, WindowKeeps, RolesKeep

(* The systems beside the database: none touches a request.                  *)
LEMMA OthersKeep ==
  ASSUME WorldInv, intents \subseteq intents',
         UNCHANGED <<forced, requests, tampered, bob, service>>,
         {bundle', loaded'} \subseteq Variants \union {"real"},
         current' \in BOOLEAN, running' \in BOOLEAN, LoadedIsTheBundle',
         armed' \subseteq Settings, leftover' \subseteq Leaky, switched' \subseteq Switches,
         inflight' \subseteq Leaky, late' \subseteq Leaky, inflight' \subseteq intents',
         \A k \in Variants \intersect {bundle', loaded'} : k \in {bundle, loaded} \union intents',
         armed' \union leftover' \subseteq armed \union leftover \union intents',
         switched' \subseteq switched \union intents'
  PROVE  WorldInv'
<1>1. ArmedIsWritten'
  <2>1. \A k \in Ids \ {OpaStop} : IsArmed(k)' => IsArmed(k) \/ k \in intents'
    BY RangeAssumption DEF IsArmed, Pending
  <2> QED  BY <2>1, WrittenKept DEF WorldInv
<1> QED  BY <1>1 DEF WorldInv, WorldType, Underway, GenuineRequestsKeepTheirPayload

LEMMA EffectKeeps ==
  ASSUME WorldInv, intents \subseteq Ids, NEW e \in EffectType, e[3] => e[2] \in intents,
         Effect(e), intents' = intents
  PROVE  WorldInv'
<1> DEFINE m == e[2]
           arm == e[3]
<1>1. m \in Ids /\ arm \in BOOLEAN /\ Fits(e[1], m)
  BY DEF EffectType
<1>2. WorldType /\ LoadedIsTheBundle /\ Underway
  BY DEF WorldInv
<1>3. CASE CallFunction(m, arm)
  BY <1>1, <1>3, CallKeeps
<1>4. CASE e[1] = "write" /\ WriteBundle(PolicyText(m, arm))
  <2>1. /\ bundle' \in (Variants \intersect intents) \union {"real"} /\ current' = FALSE
        /\ UNCHANGED <<forced, requests, tampered, bob, service, loaded, running, armed, leftover,
                       inflight, late, switched>>
    <3>1. bundle' = PolicyText(m, arm) /\ (arm => m \in intents /\ m \in Variants)
      BY <1>1, <1>4 DEF WriteBundle, Fits
    <3>2. PolicyText(m, arm) \in (Variants \intersect intents) \union {"real"}
      <4> HIDE DEF m, arm
      <4> QED  BY <1>1, <3>1 DEF PolicyText
    <3> QED  BY <1>4, <3>1, <3>2 DEF WriteBundle
  <2> HIDE DEF m, arm
  <2>2. "real" \notin Variants
    BY RangeAssumption
  <2>3. {bundle', loaded'} \subseteq Variants \union {"real"}
    BY <1>2, <2>1 DEF WorldType
  <2>4. \A k \in Variants \intersect {bundle', loaded'} : k \in {bundle, loaded} \union intents
    BY <2>1, <2>2
  <2>5. LoadedIsTheBundle' /\ current' \in BOOLEAN
    BY <2>1 DEF LoadedIsTheBundle
  <2>6. running' \in BOOLEAN /\ armed' \subseteq Settings /\ leftover' \subseteq Leaky
        /\ switched' \subseteq Switches /\ inflight' \subseteq Leaky /\ late' \subseteq Leaky
        /\ inflight' \subseteq intents'
    BY <1>2, <2>1 DEF WorldType, Underway
  <2> QED  BY <2>1, <2>3, <2>4, <2>5, <2>6, OthersKeep
<1>5. CASE OpaStops
  BY <1>2, <1>5, OthersKeep DEF OpaStops, LoadedIsTheBundle, Underway, WorldType
<1>6. CASE OpaLoads
  BY <1>2, <1>6, OthersKeep DEF OpaLoads, LoadedIsTheBundle, Underway, WorldType
<1>7. CASE e[1] = "set" /\ SetSetting(m, arm)
  <2>1. m \in Settings
    BY <1>1, <1>7 DEF Fits
  <2>2. armed' \subseteq Settings /\ armed' \subseteq armed \union intents
    BY <1>2, <1>7, <2>1 DEF SetSetting, WorldType
  <2> QED  BY <1>2, <1>7, <2>2, OthersKeep DEF SetSetting, LoadedIsTheBundle, Underway, WorldType
<1>8. CASE ClearLeftovers(m)
  BY <1>2, <1>8, OthersKeep DEF ClearLeftovers, LoadedIsTheBundle, Underway, WorldType
<1>9. CASE e[1] = "switch" /\ SetSwitch(m, arm)
  <2>1. m \in Switches
    BY <1>1, <1>9 DEF Fits
  <2>2. switched' \subseteq Switches /\ switched' \subseteq switched \union intents
    BY <1>2, <1>9, <2>1 DEF SetSwitch, WorldType
  <2> QED  BY <1>2, <1>9, <2>2, OthersKeep DEF SetSwitch, LoadedIsTheBundle, Underway, WorldType
<1> QED  BY <1>3, <1>4, <1>5, <1>6, <1>7, <1>8, <1>9 DEF Effect

-----------------------------------------------------------------------------
(* The console.                                                              *)
LEMMA ProbeReads ==
  ASSUME NEW m \in Ids
  PROVE  Probe(m) \in Readings
<1>1. \A c \in BOOLEAN : Reading(c) \in Readings
  BY DEF Reading, Readings
<1>2. {"unknown", "absent", "correct", "armed"} \subseteq Readings
  BY DEF Readings
<1>3. CASE m \in Database
  <2>1. \/ m \in Tables \/ m = Payload \/ m = Window \/ m = Bob \/ m = Service
    BY <1>3 DEF Database
  <2>2. ProbeTable(m) \in Readings /\ ProbePayload \in Readings /\ ProbeWindow \in Readings
        /\ ProbeBob \in Readings /\ ProbeService \in Readings
    BY DEF ProbeTable, ProbePayload, ProbeWindow, ProbeBob, ProbeService, Reading, Readings
  <2>3. ProbeDatabase(m) \in Readings
    BY <1>2, <2>1, <2>2 DEF ProbeDatabase
  <2> QED  BY <1>3, <2>3, OneKind DEF Probe
<1>4. CASE m = OpaStop
  <2>1. ProbeOpa \in Readings
    BY DEF ProbeOpa, Reading, Readings
  <2> QED  BY <1>4, <2>1, OneKind DEF Probe
<1>5. CASE m \in Variants
  <2>1. ProbeBundle(m) \in Readings
    BY DEF ProbeBundle, Reading, Readings
  <2> QED  BY <1>5, <2>1, OneKind DEF Probe
<1>6. CASE m \in Settings
  <2>1. ProbeMemory(m) \in Readings
    BY DEF ProbeMemory, Reading, Readings
  <2> QED  BY <1>6, <2>1, OneKind DEF Probe
<1>7. CASE m \in Switches
  <2>1. ProbeSwitch(m) \in Readings
    BY DEF ProbeSwitch, Readings
  <2> QED  BY <1>7, <2>1, OneKind DEF Probe
<1> QED  BY <1>3, <1>4, <1>5, <1>6, <1>7, OneKind

LEMMA IdleIsConsole == Idle \in ConsoleType /\ Idle.todo = <<>>
<1>1. <<>> \in Seq(EffectType) /\ [m \in Ids |-> "unknown"] \in [Ids -> Readings]
  BY DEF Readings
<1> QED  BY <1>1, IdsAre DEF Idle, ConsoleType

LEMMA NothingAnnounced == Announced(<<>>) /\ <<>> \in Seq(EffectType)
BY DEF Announced

(* A step that leaves the systems alone.                                     *)
LEMMA WorldAlone ==
  ASSUME RangeInv, UNCHANGED world, intents \subseteq intents'
  PROVE  WorldInv'
<1>1. UNCHANGED <<forced, requests, tampered, bob, service, bundle, loaded, current, running,
                  armed, leftover, inflight, late, switched>>
  BY DEF world
<1>2. ArmedIsWritten'
  <2>1. \A k \in Ids \ {OpaStop} : IsArmed(k)' => IsArmed(k) \/ k \in intents'
    BY <1>1 DEF IsArmed, Pending
  <2> QED  BY <2>1, WrittenKept DEF RangeInv, WorldInv
<1> QED  BY <1>1, <1>2 DEF RangeInv, WorldInv, WorldType, LoadedIsTheBundle, Underway,
                           GenuineRequestsKeepTheirPayload

LEMMA PressKeeps ==
  ASSUME RangeInv, NEW op \in {"arm", "restore", "reset"}, NEW m \in Ids, Press(op, m)
  PROVE  RangeInv'
<1> DEFINE todo == IF op = "restore" THEN Restore(m) ELSE <<>>
           at   == CASE op = "arm" -> "intent" [] op = "restore" -> "perform" [] op = "reset" -> "probe"
<1>1. /\ UNCHANGED <<world, up, shunned, intents, events>>
      /\ arms' \in Nat
      /\ console' = [Idle EXCEPT !.op = op, !.id = m, !.at = at, !.todo = todo]
  BY DEF Press, RangeInv, RangeType
<1>2. at \in {"intent", "perform", "probe"}
  OBVIOUS
<1>3. todo \in Seq(EffectType) /\ Announced(todo)
  BY NothingAnnounced, RestoreDisarms DEF Announced
<1> HIDE DEF todo, at
<1>4. console' \in ConsoleType /\ console'.todo = todo
  BY <1>1, <1>2, <1>3, IdleIsConsole DEF ConsoleType
<1>5. Announced(console.todo)'
  BY <1>1, <1>3, <1>4 DEF Announced
<1> QED  BY <1>1, <1>4, <1>5, WorldAlone DEF RangeInv, RangeType

LEMMA RecordIntentKeeps ==
  ASSUME RangeInv, RecordIntent
  PROVE  RangeInv'
<1>1. /\ UNCHANGED <<world, up, shunned, arms, events>> /\ console.id \in Ids
      /\ console \in ConsoleType /\ intents \subseteq Ids
  BY DEF RecordIntent, RangeInv, RangeType, ConsoleType
<1>2. CASE up["postgres"]
  <2>1. intents' = intents \union {console.id}
        /\ console' = [console EXCEPT !.at = "perform", !.todo = Apply(console.id)]
    BY <1>2 DEF RecordIntent
  <2>2. /\ Apply(console.id) \in Seq(EffectType)
        /\ \A i \in DOMAIN Apply(console.id) : Apply(console.id)[i][3] => Apply(console.id)[i][2] = console.id
    BY <1>1, ApplyNames
  <2>3. console' \in ConsoleType /\ console'.todo = Apply(console.id)
    BY <1>1, <2>1, <2>2 DEF ConsoleType
  <2>4. Announced(console.todo)'
    BY <2>1, <2>2, <2>3 DEF Announced
  <2> QED  BY <1>1, <2>1, <2>3, <2>4, WorldAlone DEF RangeInv, RangeType
<1>3. CASE ~up["postgres"]
  <2>1. intents' = intents /\ console' = [console EXCEPT !.op = "none", !.at = "idle", !.answer = "failed"]
    BY <1>3 DEF RecordIntent, Answer
  <2>2. console' \in ConsoleType /\ console'.todo = console.todo
    BY <1>1, <2>1 DEF ConsoleType
  <2>3. Announced(console.todo)'
    BY <2>1, <2>2 DEF RangeInv, Announced
  <2> QED  BY <1>1, <2>1, <2>2, <2>3, WorldAlone DEF RangeInv, RangeType
<1> QED  BY <1>2, <1>3

(* The first effect to be performed, and those after it.                     *)
LEMMA NextEffect ==
  ASSUME RangeInv, console.todo # <<>>
  PROVE  /\ Head(console.todo) \in EffectType
         /\ Head(console.todo)[3] => Head(console.todo)[2] \in intents
         /\ Tail(console.todo) \in Seq(EffectType)
         /\ Announced(Tail(console.todo))
<1> DEFINE s == console.todo
<1>1. s \in Seq(EffectType) /\ s # <<>>
  BY DEF RangeInv, RangeType, ConsoleType
<1>2. \A i \in DOMAIN s : s[i][3] => s[i][2] \in intents
  BY DEF RangeInv, Announced
<1> HIDE DEF s
<1>3. /\ Head(s) \in EffectType /\ Tail(s) \in Seq(EffectType)
      /\ Len(Tail(s)) = Len(s) - 1 /\ \A i \in 1 .. Len(Tail(s)) : Tail(s)[i] = s[i + 1]
  BY <1>1, HeadTailProperties
<1>4. /\ Len(s) \in Nat \ {0} /\ DOMAIN s = 1 .. Len(s) /\ DOMAIN Tail(s) = 1 .. Len(Tail(s))
      /\ Head(s) = s[1]
  BY <1>1, <1>3, LenProperties, EmptySeq
<1>5. Head(s)[3] => Head(s)[2] \in intents
  BY <1>2, <1>4
<1>6. Announced(Tail(s))
  BY <1>2, <1>3, <1>4 DEF Announced
<1> QED  BY <1>3, <1>5, <1>6 DEF s

LEMMA PerformKeeps ==
  ASSUME RangeInv, Perform \/ WaitTimesOut
  PROVE  RangeInv'
<1>1. /\ console.todo # <<>> /\ Effect(Head(console.todo))
      /\ UNCHANGED <<up, shunned, intents, arms>> /\ events' \in Nat
      /\ \/ console' = [console EXCEPT !.todo = Tail(@)]
         \/ console' = [console EXCEPT !.todo = <<>>, !.raised = TRUE]
  BY DEF Perform, WaitTimesOut, RangeInv, RangeType
<1>2. WorldInv'
  BY <1>1, NextEffect, EffectKeeps DEF RangeInv, RangeType
<1>3. console' \in ConsoleType /\ Announced(console'.todo)
  <2>1. console \in ConsoleType
    BY DEF RangeInv, RangeType
  <2> QED  BY <1>1, <2>1, NextEffect, NothingAnnounced DEF ConsoleType
<1>4. Announced(console.todo)'
  BY <1>1, <1>3 DEF Announced
<1> QED  BY <1>1, <1>2, <1>3, <1>4 DEF RangeInv, RangeType

(* The other steps of the console plan, probe or answer.                     *)
LEMMA PlanKeeps ==
  ASSUME RangeInv, UNCHANGED <<world, up, intents, arms, events>>, shunned' \in BOOLEAN,
         console' \in ConsoleType,
         console'.todo = console.todo \/ console'.todo = <<>> \/ \E m \in Ids : console'.todo = Restore(m)
  PROVE  RangeInv'
<1>1. \A m \in Ids : Announced(Restore(m))
  BY RestoreDisarms DEF Announced
<1>2. Announced(console'.todo)
  BY <1>1, NothingAnnounced DEF RangeInv
<1>3. Announced(console.todo)'
  BY <1>2 DEF Announced
<1> QED  BY <1>3, WorldAlone DEF RangeInv, RangeType

LEMMA AnswerKeeps ==
  ASSUME RangeInv, NEW what \in Readings \union {"failed", "restored"}, Answer(what),
         UNCHANGED <<world, up, intents, arms, events>>, shunned' \in BOOLEAN
  PROVE  RangeInv'
<1>1. console \in ConsoleType /\ console' = [console EXCEPT !.op = "none", !.at = "idle", !.answer = what]
  BY DEF Answer, RangeInv, RangeType
<1>2. console' \in ConsoleType /\ console'.todo = console.todo
  BY <1>1 DEF ConsoleType
<1> QED  BY <1>2, PlanKeeps

LEMMA FinishKeeps ==
  ASSUME RangeInv, FinishArm \/ FinishRestore \/ FinishReset
  PROVE  RangeInv'
<1> DEFINE what  == IF console.raised \/ ~up["postgres"] THEN "failed" ELSE Probe(console.id)
           reset == IF StillArmed = {} /\ up["postgres"] THEN "restored" ELSE "failed"
<1>1. /\ UNCHANGED <<world, up, intents, arms, events>>
      /\ shunned' \in BOOLEAN
      /\ Answer(what) \/ Answer(reset)
  BY DEF FinishArm, FinishRestore, FinishReset, Remembers, RangeInv, RangeType
<1>2. console.id \in Ids
  BY DEF RangeInv, RangeType, ConsoleType
<1>3. what \in Readings \union {"failed", "restored"} /\ reset \in Readings \union {"failed", "restored"}
  BY <1>2, ProbeReads
<1> HIDE DEF what, reset
<1> QED  BY <1>1, <1>3, AnswerKeeps

LEMMA ProbingKeeps ==
  ASSUME RangeInv, ProbeNext \/ CheckNext
  PROVE  RangeInv'
<1> DEFINE m == Order[console.next]
<1>1. /\ console \in ConsoleType /\ console.next \in Nat \ {0}
  BY DEF RangeInv, RangeType, ConsoleType
<1>2. /\ UNCHANGED <<world, up, intents, arms, events>>
      /\ shunned' \in BOOLEAN
      /\ \/ console' = [console EXCEPT !.next = @ + 1, !.wrong = IF Wrong(m) THEN @ \union {m} ELSE @]
         \/ console' = [console EXCEPT !.next = @ + 1, !.read[m] = Probe(m)]
      /\ console.next <= Len(Order)
  BY DEF ProbeNext, CheckNext, Remembers, RangeInv, RangeType
<1>3. m \in Ids /\ Probe(m) \in Readings
  <2>1. Len(Order) \in Nat /\ console.next \in 1 .. Len(Order)
    BY <1>1, <1>2, RangeAssumption, LenProperties
  <2> QED  BY <2>1, RangeAssumption, ElementOfSeq, ProbeReads
<1> HIDE DEF m
<1>4. console' \in ConsoleType /\ console'.todo = console.todo
  <2>1. CASE console' = [console EXCEPT !.next = @ + 1, !.wrong = IF Wrong(m) THEN @ \union {m} ELSE @]
    <3>1. console'.next = console.next + 1 /\ console'.next \in Nat \ {0}
      BY <1>1, <2>1 DEF ConsoleType
    <3>2. PICK found \in SUBSET Ids : console' = [console EXCEPT !.next = @ + 1, !.wrong = found]
      BY <1>1, <1>3, <2>1 DEF ConsoleType
    <3> QED  BY <1>1, <3>1, <3>2 DEF ConsoleType
  <2>2. CASE console' = [console EXCEPT !.next = @ + 1, !.read[m] = Probe(m)]
    <3>1. PICK reading \in Readings : reading = Probe(m)
      BY <1>3
    <3>2. console' = [console EXCEPT !.next = @ + 1, !.read = [console.read EXCEPT ![m] = reading]]
      BY <1>1, <2>2, <3>1 DEF ConsoleType
    <3>3. [console.read EXCEPT ![m] = reading] \in [Ids -> Readings]
      BY <1>1, <1>3 DEF ConsoleType
    <3>4. console.next + 1 \in Nat \ {0}
      BY <1>1
    <3> QED  BY <1>1, <3>2, <3>3, <3>4 DEF ConsoleType
  <2> QED  BY <1>2, <2>1, <2>2
<1> QED  BY <1>2, <1>4, PlanKeeps

LEMMA SweepKeeps ==
  ASSUME RangeInv, StartSweep \/ RestoreNext \/ RestoredNext \/ StartCheck
  PROVE  RangeInv'
<1>1. /\ UNCHANGED <<world, up, shunned, intents, arms, events>>
      /\ shunned' \in BOOLEAN /\ console \in ConsoleType
  BY DEF StartSweep, RestoreNext, RestoredNext, StartCheck, RangeInv, RangeType
<1>2. CASE StartSweep \/ StartCheck
  <2>1. \/ console' = [console EXCEPT !.at = "sweep"]
        \/ console' = [console EXCEPT !.at = "check", !.next = 1]
    BY <1>2 DEF StartSweep, StartCheck
  <2>2. 1 \in Nat \ {0}
    OBVIOUS
  <2>3. ASSUME console' = [console EXCEPT !.at = "sweep"]
        PROVE  console' \in ConsoleType /\ console'.todo = console.todo
    BY <1>1, <2>3 DEF ConsoleType
  <2>4. ASSUME console' = [console EXCEPT !.at = "check", !.next = 1]
        PROVE  console' \in ConsoleType /\ console'.todo = console.todo
    BY <1>1, <2>2, <2>4 DEF ConsoleType
  <2>5. console' \in ConsoleType /\ console'.todo = console.todo
    BY <2>1, <2>3, <2>4
  <2> QED  BY <1>1, <2>5, PlanKeeps
<1>3. CASE RestoredNext
  <2>1. console' \in ConsoleType /\ console'.todo = console.todo
    BY <1>1, <1>3 DEF RestoredNext, ConsoleType
  <2> QED  BY <1>1, <2>1, PlanKeeps
<1>4. CASE RestoreNext
  <2>1. PICK i \in Awaiting :
          console' = [console EXCEPT !.at = "perform", !.id = Order[i], !.todo = Restore(Order[i]),
                                     !.raised = FALSE, !.changed = @ \union {Order[i]}]
    BY <1>4 DEF RestoreNext
  <2>2. Order[i] \in Ids
    BY RangeAssumption DEF Awaiting
  <2>3. PICK m \in Ids : m = Order[i]
    BY <2>2
  <2>4. Restore(m) \in Seq(EffectType)
    BY RestoreDisarms
  <2>5. console' = [console EXCEPT !.at = "perform", !.id = m, !.todo = Restore(m),
                                   !.raised = FALSE, !.changed = @ \union {m}]
    BY <2>1, <2>3
  <2>6. console' \in ConsoleType /\ console'.todo = Restore(m)
    BY <1>1, <2>4, <2>5 DEF ConsoleType
  <2> QED  BY <1>1, <2>6, PlanKeeps
<1> QED  BY <1>2, <1>3, <1>4

LEMMA RaiseKeeps ==
  ASSUME RangeInv, Raise
  PROVE  RangeInv'
<1>1. /\ UNCHANGED <<world, up, intents, arms, events>> /\ console \in ConsoleType
      /\ console' = [console EXCEPT !.todo = <<>>, !.raised = TRUE]
      /\ shunned' = (shunned \/ (Head(console.todo)[1] \in {"set", "clear"} /\ ~up["memory"]))
  BY DEF Raise, RangeInv, RangeType
<1>2. shunned' \in BOOLEAN
  BY <1>1
<1>3. console' \in ConsoleType /\ console'.todo = <<>>
  BY <1>1, NothingAnnounced DEF ConsoleType
<1> QED  BY <1>1, <1>2, <1>3, PlanKeeps

-----------------------------------------------------------------------------
(* What happens around the Range.                                            *)
LEMMA RangeAlone ==
  ASSUME RangeInv, UNCHANGED <<intents, arms, console>>, WorldInv',
         up' \in [Systems -> BOOLEAN], shunned' \in BOOLEAN, events' \in Nat
  PROVE  RangeInv'
<1>1. Announced(console.todo)'
  BY DEF RangeInv, Announced
<1> QED  BY <1>1 DEF RangeInv, RangeType

LEMMA SystemsComeAndGo ==
  ASSUME RangeInv,
         \/ RangeStops \/ TenSecondsPass
         \/ \E s \in Systems : SystemStops(s) \/ SystemReturns(s)
  PROVE  RangeInv'
<1>1. UNCHANGED <<world, intents, arms>> /\ WorldInv'
  <2>1. UNCHANGED <<world, intents, arms>>
    BY DEF RangeStops, TenSecondsPass, SystemStops, SystemReturns
  <2> QED  BY <2>1, WorldAlone
<1>2. events' \in Nat /\ shunned' \in BOOLEAN /\ up' \in [Systems -> BOOLEAN]
  <2>1. events \in Nat /\ shunned \in BOOLEAN /\ up \in [Systems -> BOOLEAN]
    BY DEF RangeInv, RangeType
  <2>2. events' = events \/ events' = events + 1
    BY DEF RangeStops, TenSecondsPass, SystemStops, SystemReturns, Happens
  <2>4. shunned' \in BOOLEAN
    BY <2>1 DEF RangeStops, TenSecondsPass, SystemStops, SystemReturns
  <2>3. up' \in [Systems -> BOOLEAN]
    BY <2>1 DEF RangeStops, TenSecondsPass, SystemStops, SystemReturns
  <2>5. events' \in Nat
    BY <2>1, <2>2
  <2> QED  BY <2>3, <2>4, <2>5
<1>3. CASE RangeStops
  <2>1. console' = Idle
    BY <1>3 DEF RangeStops
  <2>2. Announced(console.todo)' /\ console' \in ConsoleType
    BY <2>1, IdleIsConsole DEF Announced
  <2> QED  BY <1>1, <1>2, <2>2 DEF RangeInv, RangeType
<1>4. CASE ~RangeStops
  <2>1. UNCHANGED console
    BY <1>4 DEF TenSecondsPass, SystemStops, SystemReturns
  <2> QED  BY <1>1, <1>2, <2>1, RangeAlone
<1> QED  BY <1>3, <1>4

LEMMA PolicyMoves ==
  ASSUME RangeInv, OpaRestarts \/ ComposeUp \/ \E s \in Settings : LetsThrough(s) \/ Commits(s)
  PROVE  RangeInv'
<1>1. /\ UNCHANGED <<forced, requests, tampered, bob, service, armed, switched, up, shunned, intents,
                     arms, console>>
      /\ events' \in {events, events + 1}
      /\ {bundle', loaded'} \subseteq {bundle, loaded, "real"}
      /\ UNCHANGED current \/ current' = TRUE \/ current' = FALSE
      /\ UNCHANGED running \/ running' = TRUE
      /\ current' => loaded' = bundle' \/ UNCHANGED <<current, loaded, bundle>>
      /\ leftover' \subseteq leftover \union inflight /\ late' \subseteq late \union inflight
      /\ inflight' \subseteq inflight \union (armed \intersect Leaky)
  BY DEF OpaRestarts, ComposeUp, LetsThrough, Commits, Happens
<1>2. WorldType /\ "real" \notin Variants
  BY RangeAssumption DEF RangeInv, WorldInv
<1>3. current' \in BOOLEAN /\ running' \in BOOLEAN /\ events' \in Nat
      /\ up' \in [Systems -> BOOLEAN] /\ shunned' \in BOOLEAN
  <2>1. /\ current \in BOOLEAN /\ running \in BOOLEAN /\ up \in [Systems -> BOOLEAN]
        /\ shunned \in BOOLEAN /\ events \in Nat
    BY <1>2 DEF RangeInv, RangeType, WorldType
  <2>2. events' \in Nat
    BY <1>1, <2>1
  <2>3. current' \in BOOLEAN
    BY <1>1, <2>1, Zenon
  <2>4. running' \in BOOLEAN
    BY <1>1, <2>1, Zenon
  <2>5. up' \in [Systems -> BOOLEAN] /\ shunned' \in BOOLEAN
    BY <1>1, <2>1
  <2> QED  BY <2>2, <2>3, <2>4, <2>5
<1>4. LoadedIsTheBundle'
  BY <1>1 DEF RangeInv, WorldInv, LoadedIsTheBundle
<1>5. /\ leftover' \subseteq Leaky /\ inflight' \subseteq Leaky /\ late' \subseteq Leaky
      /\ leftover' \subseteq leftover \union intents' /\ inflight' \subseteq intents'
  <2>1. armed \intersect Leaky \subseteq intents
    BY <1>2, RangeAssumption, IdsAre
       DEF RangeInv, WorldInv, WorldType, ArmedIsWritten, IsArmed, OpaStop
  <2>2. inflight \subseteq intents
    BY DEF RangeInv, WorldInv, Underway
  <2> QED  BY <1>1, <1>2, <2>1, <2>2 DEF WorldType
<1>6. WorldInv'
  BY <1>1, <1>2, <1>3, <1>4, <1>5, OthersKeep DEF RangeInv, WorldType
<1> QED  BY <1>1, <1>3, <1>6, RangeAlone

LEMMA RequestsCome ==
  ASSUME RangeInv, Propose
  PROVE  RangeInv'
<1>1. /\ UNCHANGED <<forced, tampered, bob, service, bundle, loaded, current, running, armed,
                     leftover, inflight, late, switched, up, shunned, intents, arms, console>>
      /\ events' \in Nat /\ up' \in [Systems -> BOOLEAN] /\ shunned' \in BOOLEAN
  BY DEF Propose, Happens, RangeInv, RangeType
<1>2. PICK amount \in {"45", "1"} :
        requests' = Append(requests, Proposed(amount))
  BY DEF Propose
<1> DEFINE new == Proposed(amount)
<1>3. new \in Request /\ new.asked = new.amount /\ new.window = "open" /\ new.pending
  BY DEF Request, Amounts, Proposed
<1> HIDE DEF new
<1>4. /\ requests \in Seq(Request) /\ tampered \subseteq DOMAIN requests
      /\ GenuineRequestsKeepTheirPayload
  BY DEF RangeInv, WorldInv, WorldType
<1>5. requests' = Append(requests, new)
  BY <1>2 DEF new
<1>6. /\ requests' \in Seq(Request) /\ Len(requests') = Len(requests) + 1
      /\ \A i \in 1 .. Len(requests) : requests'[i] = requests[i]
      /\ requests'[Len(requests) + 1] = new
  BY <1>3, <1>4, <1>5, AppendProperties
<1>7. /\ DOMAIN requests = 1 .. Len(requests) /\ Len(requests) \in Nat
      /\ DOMAIN requests' = 1 .. Len(requests) + 1
  BY <1>4, <1>6, LenProperties
<1>8. \A i \in DOMAIN requests' :
        (i \in DOMAIN requests /\ requests'[i] = requests[i]) \/ requests'[i] = new
  BY <1>6, <1>7
<1>9. GenuineRequestsKeepTheirPayload'
  BY <1>1, <1>3, <1>4, <1>8 DEF GenuineRequestsKeepTheirPayload
<1>10. ArmedIsWritten'
  <2>1. \A k \in Ids \ {OpaStop} : IsArmed(k)' => IsArmed(k) \/ k \in intents'
    BY <1>1, <1>3, <1>8 DEF IsArmed, Pending
  <2> QED  BY <1>1, <2>1, WrittenKept DEF RangeInv, WorldInv
<1>11. WorldInv'
  BY <1>1, <1>4, <1>6, <1>7, <1>9, <1>10 DEF RangeInv, WorldInv, WorldType, LoadedIsTheBundle, Underway
<1> QED  BY <1>1, <1>11, RangeAlone

LEMMA RequestsGo ==
  ASSUME RangeInv, RequestEnds
  PROVE  RangeInv'
<1>1. /\ UNCHANGED <<forced, tampered, bob, service, bundle, loaded, current, running, armed,
                     leftover, inflight, late, switched, up, shunned, intents, arms, console>>
      /\ events' \in Nat /\ up' \in [Systems -> BOOLEAN] /\ shunned' \in BOOLEAN
  BY DEF RequestEnds, Happens, RangeInv, RangeType
<1>2. requests \in Seq(Request)
  BY DEF RangeInv, WorldInv, WorldType
<1>3. PICK i \in DOMAIN requests :
        \/ /\ requests[i].pending
           /\ requests' = [requests EXCEPT ![i].pending = FALSE, ![i].ended = requests[i].amount]
        \/ requests' = [requests EXCEPT ![i].window = "aged"]
  BY DEF RequestEnds
<1>4. /\ DOMAIN requests' = DOMAIN requests /\ requests' = [j \in DOMAIN requests |-> requests'[j]]
      /\ \A j \in DOMAIN requests :
           \/ requests'[j] \in {requests[j], [requests[j] EXCEPT !.window = "aged"]}
           \/ /\ requests[j].pending
              /\ requests'[j] = [requests[j] EXCEPT !.pending = FALSE, !.ended = requests[j].amount]
  BY <1>3
<1>5. ASSUME NEW j \in DOMAIN requests
      PROVE  /\ requests'[j] \in Request
             /\ requests'[j].asked = requests[j].asked /\ requests'[j].amount = requests[j].amount
             /\ requests'[j].pending => requests[j].pending
             /\ requests'[j].ended = (IF requests'[j].pending = requests[j].pending
                                      THEN requests[j].ended ELSE requests[j].amount)
             /\ requests'[j].window = "moved" => requests[j].window = "moved"
  <2>1. requests[j] \in Request
    BY <1>2, ElementOfSeq, LenProperties
  <2>2. CASE requests'[j] = requests[j]
    BY <2>1, <2>2
  <2>3. CASE /\ requests[j].pending
             /\ requests'[j] = [requests[j] EXCEPT !.pending = FALSE, !.ended = requests[j].amount]
    <3>1. requests'[j] \in Request
      BY <2>1, <2>3, RequestParts
    <3>2. /\ ~requests'[j].pending /\ requests'[j].asked = requests[j].asked
          /\ requests'[j].amount = requests[j].amount /\ requests'[j].window = requests[j].window
          /\ requests'[j].ended = requests[j].amount
      BY <2>1, <2>3 DEF Request
    <3> QED  BY <2>3, <3>1, <3>2
  <2>4. CASE requests'[j] = [requests[j] EXCEPT !.window = "aged"]
    <3>1. /\ requests'[j].pending = requests[j].pending /\ requests'[j].amount = requests[j].amount
          /\ requests'[j].asked = requests[j].asked /\ requests'[j].ended = requests[j].ended
          /\ requests'[j].window = "aged"
      BY <2>1, <2>4 DEF Request
    <3> QED  BY <2>1, <2>4, <3>1, RequestParts
  <2> QED  BY <1>4, <2>2, <2>3, <2>4
<1>6. requests' \in Seq(Request)
  BY <1>2, <1>4, <1>5, SameShape
<1>7. GenuineRequestsKeepTheirPayload'
  <2>1. \A j \in DOMAIN requests :
          /\ requests[j].pending \in BOOLEAN /\ requests'[j].pending \in BOOLEAN
          /\ requests[j].pending /\ j \notin tampered => requests[j].amount = requests[j].asked
          /\ ~requests[j].pending => requests[j].amount = requests[j].ended
    <3>1. \A j \in DOMAIN requests : requests[j] \in Request
      BY <1>2, ElementOfSeq, LenProperties
    <3> QED  BY <1>5, <3>1, RequestParts DEF RangeInv, WorldInv, GenuineRequestsKeepTheirPayload
  <2> QED  BY <1>1, <1>4, <1>5, <2>1 DEF GenuineRequestsKeepTheirPayload
<1>8. ArmedIsWritten'
  <2>1. Altered' => Altered
    <3>1. ASSUME NEW j \in DOMAIN requests, requests'[j].pending, requests'[j].amount # requests'[j].asked
          PROVE  requests[j].pending /\ requests[j].amount # requests[j].asked
      BY <1>5, <3>1
    <3> QED  BY <1>4, <3>1, Zenon DEF Altered
  <2>2. Moved' => Moved
    BY <1>4, <1>5 DEF Moved
  <2> QED  BY <1>1, <2>1, <2>2, RequestsTell DEF RangeInv, WorldInv
<1>9. WorldInv'
  BY <1>1, <1>4, <1>6, <1>7, <1>8 DEF RangeInv, WorldInv, WorldType, LoadedIsTheBundle, Underway
<1> QED  BY <1>1, <1>9, RangeAlone

-----------------------------------------------------------------------------
(* A reset: what its sweep and its check leave.                              *)

(* Controls whose state nothing but the console changes.                     *)
Kept == Tables \union Switches \union {Payload, Service}

(* The sweep has a control in hand: its restore is all to be done, or raised. *)
InHand(m) == /\ console.at = "perform" /\ console.id = m
             /\ console.todo = Restore(m) \/ (console.todo = <<>> /\ console.raised)

(* Armed, as the systems have it, or for the payload as the Range's record of *)
(* the request it holds has it.                                              *)
Marked(m) ==
  \/ m \in Tables   /\ ~forced[m]
  \/ m = Payload    /\ tampered # {}
  \/ m = Service    /\ service # {}
  \/ m \in Switches /\ m \in switched

(* A control the sweep had its turn with is disarmed, failed or in hand.      *)
SweepAgrees == \A m \in Kept \intersect console.changed : Marked(m) => m \in console.failed \/ InHand(m)

(* What a control that is read correct, or absent, stays at until the console *)
(* acts again: by itself nothing gets armed.                                  *)
Settled(m, reading) ==
  /\ m \in Tables   => forced[m]
  /\ m = Payload    => tampered = {}
  /\ m = Bob        => bob \/ "support_manager" \in service
  /\ m = Service    => service = {}
  /\ m = OpaStop    => running
  /\ m \in Variants => bundle = "real" /\ loaded = "real"
  /\ m \in Settings => reading = "absent" \/ (m \notin armed /\ (m \in leftover => m \in late))
  /\ m \in Switches => m \notin switched

ReadWell(m) == console.read[m] \in {"correct", "absent"}

ReadingsAgree == \A m \in Ids : ReadWell(m) => Settled(m, console.read[m])

(* The steps of a console action and what each leaves for the next.          *)
ActionAgrees ==
  /\ console.op = "none" => console.at = "idle"
  /\ console.at = "intent" => console.op = "arm"
  /\ console.at \in {"probe", "sweep", "check"} => console.op = "reset"
  /\ console.op \in {"arm", "restore"} => console.changed = {}
  /\ console.op = "reset" => \A i \in DOMAIN console.todo : ~console.todo[i][3]
  /\ console.at \notin {"check", "idle"} => \A m \in Ids : console.read[m] = "unknown"
  /\ console.at = "check" => console.wrong \subseteq console.changed
  /\ console.answer = "restored" => console.at = "idle" /\ \A m \in Ids : ReadWell(m)

ResetInv == ActionAgrees /\ SweepAgrees /\ ReadingsAgree

(* Only the control's own state tells whether it is armed.                   *)
LEMMA ArmedMeans ==
  ASSUME RangeInv, NEW m \in Ids
  PROVE  /\ m \in Tables   => (IsArmed(m) <=> ~forced[m])
         /\ m = Payload    => (IsArmed(m) => tampered # {})
         /\ m = Bob        => (IsArmed(m) <=> ~bob)
         /\ m = Service    => (IsArmed(m) <=> service # {})
         /\ m = OpaStop    => (IsArmed(m) <=> ~running)
         /\ m \in Variants => (IsArmed(m) <=> m \in {bundle, loaded})
         /\ m \in Settings => (IsArmed(m) <=> m \in armed \union leftover)
         /\ m \in Switches => (IsArmed(m) <=> m \in switched)
BY RangeAssumption DEF IsArmed, Payload, Window, Bob, Service, OpaStop, Pending, RangeInv, WorldInv,
   GenuineRequestsKeepTheirPayload

LEMMA MarkedMeans ==
  ASSUME NEW m \in Kept
  PROVE  /\ m \in Tables   => (Marked(m) <=> ~forced[m]) /\ (Marked(m)' <=> ~forced'[m])
         /\ m = Payload    => (Marked(m) <=> tampered # {}) /\ (Marked(m)' <=> tampered' # {})
         /\ m = Service    => (Marked(m) <=> service # {}) /\ (Marked(m)' <=> service' # {})
         /\ m \in Switches => (Marked(m) <=> m \in switched) /\ (Marked(m)' <=> m \in switched')
BY RangeAssumption DEF Marked, Payload, Window, Bob, Service, OpaStop

LEMMA ArmedIsMarked ==
  ASSUME RangeInv, NEW m \in Kept, IsArmed(m)
  PROVE  Marked(m)
BY ArmedMeans, IdsAre DEF Kept, Marked

LEMMA KeptAre ==
  /\ Kept \subseteq Ids
  /\ \A m \in Kept : m \in Tables \/ m \in Switches \/ m = Payload \/ m = Service
BY IdsAre DEF Kept

(* The restore of such a control is one effect, which disarms it.            *)
LEMMA KeptRestores ==
  ASSUME NEW m \in Kept
  PROVE  /\ Restore(m) # <<>>
         /\ Head(Restore(m))[1] = (IF m \in Switches THEN "switch" ELSE "sql")
         /\ Head(Restore(m))[2] = m /\ ~Head(Restore(m))[3]
<1>1. m \in Ids /\ (m \in Database \/ m \in Switches)
  BY KeptAre DEF Kept, Database
<1>2. Restore(m) = IF m \in Switches THEN << <<"switch", m, FALSE>> >> ELSE << <<"sql", m, FALSE>> >>
  BY <1>1, OneKind DEF Restore
<1> QED  BY <1>2

LEMMA DisarmingKeeps ==
  ASSUME RangeInv, NEW e \in EffectType, ~e[3], Effect(e), NEW m \in Kept, Marked(m)'
  PROVE  Marked(m) /\ ~(e[2] = m /\ e[1] = (IF m \in Switches THEN "switch" ELSE "sql"))
<1>1. WorldType /\ m \in Ids /\ e[2] \in Ids /\ e[3] = FALSE
  BY KeptAre DEF RangeInv, WorldInv, EffectType
<1>2. (m \in Tables \/ m \in Switches \/ m = Payload \/ m = Service)
      /\ (m \in Switches => m \notin Tables /\ m # Payload /\ m # Service)
  BY KeptAre, RangeAssumption
<1> HIDE DEF Kept
<1>3. CASE e[1] = "sql" /\ CallFunction(e[2], e[3])
  <2>1. UNCHANGED switched /\ ~e[3]
    BY <1>3 DEF CallFunction
  <2>2. CASE CallTable(e[2], e[3])
    BY <1>1, <1>2, <1>3, <2>1, <2>2, MarkedMeans DEF CallTable, WorldType
  <2>3. CASE e[2] = Payload /\ RestorePayload
    BY <1>1, <1>2, <1>3, <2>1, <2>3, MarkedMeans, RangeAssumption DEF RestorePayload, Payload, Service
  <2>4. CASE (e[2] = Window /\ MoveWindow(e[3])) \/ (e[2] = Bob /\ RestoreBob)
    BY <1>1, <1>2, <1>3, <2>1, <2>4, MarkedMeans, RangeAssumption
       DEF MoveWindow, RestoreBob, Payload, Service, Bob, Window
  <2>5. CASE e[2] = Service /\ WithdrawService
    BY <1>1, <1>2, <1>3, <2>1, <2>5, MarkedMeans, RangeAssumption DEF WithdrawService, Payload, Service
  <2> QED  BY <1>1, <1>3, <2>1, <2>2, <2>3, <2>4, <2>5 DEF CallFunction
<1>4. CASE e[1] = "switch" /\ SetSwitch(e[2], e[3])
  BY <1>1, <1>2, <1>4, MarkedMeans DEF SetSwitch
<1>5. CASE e[1] \notin {"sql", "switch"}
  <2>1. UNCHANGED <<forced, tampered, service, switched>>
    BY <1>5 DEF Effect, WriteBundle, OpaStops, OpaLoads, SetSetting, ClearLeftovers
  <2> QED  BY <1>1, <1>2, <1>5, <2>1, MarkedMeans
<1> QED  BY <1>3, <1>4, <1>5 DEF Effect

(* What happens around the Range arms nothing, and only stops its action.    *)
LEMMA EnvironmentRests ==
  ASSUME Environment
  PROVE  /\ UNCHANGED <<forced, tampered, bob, service, armed, switched>>
         /\ running => running'
         /\ bundle = "real" /\ loaded = "real" => bundle' = "real" /\ loaded' = "real"
         /\ leftover' \ leftover \subseteq armed \union late' /\ late \subseteq late'
         /\ console' = console \/ console' = Idle
<1> USE DEF world
<1>1. CASE RangeStops \/ TenSecondsPass
  BY <1>1 DEF RangeStops, TenSecondsPass
<1>2. CASE OpaRestarts
  BY <1>2 DEF OpaRestarts
<1>3. CASE ComposeUp
  BY <1>3 DEF ComposeUp
<1>4. CASE Propose \/ RequestEnds
  <2>1. UNCHANGED <<forced, tampered, bob, service, bundle, loaded, running, armed, leftover, late,
                    switched, console>>
    BY <1>4 DEF Propose, RequestEnds
  <2> QED  BY <2>1
<1>5. CASE \E s \in Systems : SystemStops(s) \/ SystemReturns(s)
  BY <1>5 DEF SystemStops, SystemReturns
<1>6. CASE \E s \in Settings : LetsThrough(s) \/ Commits(s)
  BY <1>6 DEF LetsThrough, Commits
<1> QED  BY <1>1, <1>2, <1>3, <1>4, <1>5, <1>6 DEF Environment

LEMMA IdleAgrees ==
  /\ Idle.op = "none" /\ Idle.at = "idle" /\ Idle.todo = <<>> /\ Idle.answer = "none"
  /\ Idle.changed = {} /\ Idle.failed = {} /\ Idle.wrong = {} /\ ~Idle.raised
  /\ \A m \in Ids : Idle.read[m] = "unknown"
BY DEF Idle

(* What each step makes of the console's record.                             *)
Pressed(op, m) ==
  /\ console'.op = op /\ console'.changed = {} /\ console'.answer = "none"
  /\ console'.at = CASE op = "arm" -> "intent" [] op = "restore" -> "perform" [] op = "reset" -> "probe"
  /\ console'.todo = IF op = "restore" THEN Restore(m) ELSE <<>>
  /\ \A k \in Ids : console'.read[k] = "unknown"

LEMMA Presses ==
  ASSUME NEW op \in {"arm", "restore", "reset"}, NEW m \in Ids, Press(op, m)
  PROVE  Pressed(op, m) /\ UNCHANGED world
BY DEF Press, Idle, Pressed

AnswerGiven(what) ==
  /\ console'.op = "none" /\ console'.at = "idle" /\ console'.answer = what
  /\ console'.todo = console.todo /\ console'.read = console.read
  /\ console'.changed = console.changed /\ console'.failed = console.failed

LEMMA Answers ==
  ASSUME console \in ConsoleType
  PROVE  \A what : Answer(what) => AnswerGiven(what)
BY DEF Answer, AnswerGiven, ConsoleType

(* One that keeps the plan of the action, what it is and what was answered.  *)
SamePlan == /\ console'.op = console.op /\ console'.answer = console.answer
            /\ console'.todo = console.todo
            /\ console'.changed = console.changed /\ console'.failed = console.failed
SameAction == /\ console'.op = console.op /\ console'.answer = console.answer
              /\ console'.read = console.read /\ console'.wrong = console.wrong

LEMMA Plans ==
  ASSUME RangeInv
  PROVE  /\ ProbeNext => /\ SamePlan /\ console'.at = "probe" /\ console.at = "probe"
                         /\ console'.read = console.read
         /\ StartSweep => SamePlan /\ SameAction /\ console'.at = "sweep" /\ console.at = "probe"
         /\ StartCheck => /\ SamePlan /\ SameAction /\ console'.at = "check" /\ console.at = "sweep"
                          /\ Awaiting = {}
         /\ CheckNext => SamePlan /\ console'.at = "check" /\ console.at = "check"
                         /\ console'.wrong = console.wrong
<1>1. console \in ConsoleType
  BY DEF RangeInv, RangeType
<1>2. ASSUME ProbeNext
      PROVE  /\ SamePlan /\ console'.at = "probe" /\ console.at = "probe"
             /\ console'.read = console.read
  BY <1>1, <1>2 DEF ConsoleType, ProbeNext, SamePlan
<1>3. ASSUME StartSweep
      PROVE  SamePlan /\ SameAction /\ console'.at = "sweep" /\ console.at = "probe"
  BY <1>1, <1>3 DEF ConsoleType, StartSweep, SamePlan, SameAction
<1>4. ASSUME StartCheck
      PROVE  /\ SamePlan /\ SameAction /\ console'.at = "check" /\ console.at = "sweep"
             /\ Awaiting = {}
  BY <1>1, <1>4 DEF ConsoleType, StartCheck, SamePlan, SameAction
<1>5. ASSUME CheckNext
      PROVE  /\ SamePlan /\ console'.at = "check" /\ console.at = "check"
             /\ console'.wrong = console.wrong
  BY <1>1, <1>5 DEF ConsoleType, CheckNext, SamePlan
<1> QED
  BY <1>2, <1>3, <1>4, <1>5

LEMMA Performs ==
  ASSUME RangeInv
  PROVE  /\ Perform => /\ SameAction /\ console'.at = "perform" /\ console.at = "perform"
                       /\ console'.todo = Tail(console.todo) /\ console.todo # <<>>
                       /\ console'.changed = console.changed /\ console'.failed = console.failed
                       /\ console'.id = console.id /\ console'.raised = console.raised
         /\ Raise \/ WaitTimesOut =>
              /\ SameAction /\ console'.at = "perform" /\ console.at = "perform"
              /\ console'.todo = <<>> /\ console.todo # <<>> /\ console'.raised
              /\ console'.changed = console.changed /\ console'.failed = console.failed
              /\ console'.id = console.id
         /\ RestoredNext =>
              /\ SameAction /\ console'.at = "sweep" /\ console.at = "perform" /\ console.op = "reset"
              /\ console.todo = <<>> /\ console'.todo = <<>>
              /\ console'.changed = console.changed
              /\ console'.failed = console.failed \union (IF console.raised THEN {console.id} ELSE {})
<1>1. console \in ConsoleType
  BY DEF RangeInv, RangeType
<1>2. ASSUME Perform
      PROVE  /\ SameAction /\ console'.at = "perform" /\ console.at = "perform"
             /\ console'.todo = Tail(console.todo) /\ console.todo # <<>>
             /\ console'.changed = console.changed /\ console'.failed = console.failed
             /\ console'.id = console.id /\ console'.raised = console.raised
  BY <1>1, <1>2 DEF ConsoleType, Perform, Performed, SameAction
<1>3. ASSUME Raise \/ WaitTimesOut
      PROVE  /\ SameAction /\ console'.at = "perform" /\ console.at = "perform"
             /\ console'.todo = <<>> /\ console.todo # <<>> /\ console'.raised
             /\ console'.changed = console.changed /\ console'.failed = console.failed
             /\ console'.id = console.id
  BY <1>1, <1>3 DEF ConsoleType, Raise, WaitTimesOut, Performed, SameAction
<1>4. ASSUME RestoredNext
      PROVE  /\ SameAction /\ console'.at = "sweep" /\ console.at = "perform" /\ console.op = "reset"
             /\ console.todo = <<>> /\ console'.todo = <<>>
             /\ console'.changed = console.changed
             /\ console'.failed = console.failed \union (IF console.raised THEN {console.id} ELSE {})
  <2>1. /\ console.at = "perform" /\ console.op = "reset" /\ console.todo = <<>>
        /\ console' = [console EXCEPT !.at = "sweep",
              !.failed = IF console.raised THEN @ \union {console.id} ELSE @]
    BY <1>4 DEF RestoredNext, Performed
  <2> QED  BY <1>1, <2>1 DEF ConsoleType, SameAction
<1> QED  BY <1>2, <1>3, <1>4

LEMMA Restores ==
  ASSUME RangeInv, RestoreNext
  PROVE  \E m \in Ids :
           /\ SameAction /\ console'.at = "perform" /\ console.at = "sweep"
           /\ console'.id = m /\ console'.todo = Restore(m) /\ ~console'.raised
           /\ console'.changed = console.changed \union {m} /\ console'.failed = console.failed
<1>1. PICK i \in Awaiting :
        console' = [console EXCEPT !.at = "perform", !.id = Order[i], !.todo = Restore(Order[i]),
                                   !.raised = FALSE, !.changed = @ \union {Order[i]}]
  BY DEF RestoreNext
<1>2. PICK m \in Ids : m = Order[i]
  BY RangeAssumption DEF Awaiting
<1>3. console \in ConsoleType /\ console.at = "sweep"
  BY DEF RangeInv, RangeType, RestoreNext
<1>4. console' = [console EXCEPT !.at = "perform", !.id = m, !.todo = Restore(m),
                                 !.raised = FALSE, !.changed = @ \union {m}]
  BY <1>1, <1>2
<1> QED  BY <1>3, <1>4 DEF ConsoleType, SameAction

LEMMA Records ==
  ASSUME RangeInv, RecordIntent
  PROVE  /\ console.at = "intent"
         /\ \/ AnswerGiven("failed")
            \/ /\ SameAction /\ console'.at = "perform" /\ console'.changed = console.changed
               /\ console'.todo = Apply(console.id)
BY Answers DEF RangeInv, RangeType, ConsoleType, RecordIntent, SameAction

LEMMA StepAction ==
  ASSUME RangeInv, ActionAgrees, [Next]_vars
  PROVE  ActionAgrees'
<1> USE DEF ActionAgrees, ReadWell
<1>0. console \in ConsoleType
  BY DEF RangeInv, RangeType
<1>1. CASE UNCHANGED console
  BY <1>1
<1>2. CASE console' = Idle
  BY <1>2, IdleAgrees
<1>3. ASSUME NEW op \in {"arm", "restore", "reset"}, NEW m \in Ids, Press(op, m) PROVE ActionAgrees'
  BY <1>3, Presses DEF Pressed
<1>4. CASE RecordIntent
  BY <1>4, Records DEF AnswerGiven, SameAction
<1>5. CASE Perform
  <2>1. console.todo # <<>> /\ console.todo \in Seq(EffectType)
    BY <1>0, <1>5, Performs DEF ConsoleType
  <2>2. (\A i \in DOMAIN console.todo : ~console.todo[i][3])
          => \A i \in DOMAIN Tail(console.todo) : ~Tail(console.todo)[i][3]
    <3> DEFINE s == console.todo
    <3>1. s \in Seq(EffectType) /\ s # <<>>
      BY <2>1
    <3> HIDE DEF s
    <3>2. /\ Tail(s) \in Seq(EffectType) /\ Len(Tail(s)) = Len(s) - 1
          /\ \A i \in 1 .. Len(Tail(s)) : Tail(s)[i] = s[i + 1]
      BY <3>1, HeadTailProperties
    <3>3. /\ Len(s) \in Nat \ {0} /\ DOMAIN s = 1 .. Len(s) /\ DOMAIN Tail(s) = 1 .. Len(Tail(s))
      BY <3>1, <3>2, LenProperties, EmptySeq
    <3>4. (\A i \in DOMAIN s : ~s[i][3]) => \A i \in DOMAIN Tail(s) : ~Tail(s)[i][3]
      BY <3>2, <3>3
    <3> QED  BY <3>4 DEF s
  <2> QED  BY <1>5, <2>2, Performs DEF SameAction
<1>6. CASE Raise \/ WaitTimesOut
  BY <1>6, Performs DEF SameAction
<1>7. CASE RestoredNext
  BY <1>7, Performs DEF SameAction
<1>8. CASE RestoreNext
  <2>1. PICK m \in Ids :
          /\ SameAction /\ console'.at = "perform" /\ console.at = "sweep"
          /\ console'.todo = Restore(m)
    BY <1>8, Restores
  <2>2. \A i \in DOMAIN Restore(m) : ~Restore(m)[i][3]
    BY RestoreDisarms
  <2> QED  BY <2>1, <2>2 DEF SameAction
<1>9. CASE ProbeNext \/ StartSweep
  BY <1>9, Plans DEF SamePlan, SameAction
<1>10. CASE StartCheck
  <2>1. SamePlan /\ SameAction /\ console'.at = "check" /\ console.at = "sweep" /\ Awaiting = {}
    BY <1>10, Plans
  <2>2. console.wrong \subseteq console.changed
    BY <1>0, <2>1, RangeAssumption DEF Awaiting, ConsoleType
  <2> QED  BY <2>1, <2>2 DEF SamePlan, SameAction
<1>11. CASE CheckNext
  BY <1>11, Plans DEF SamePlan
<1>12. CASE FinishArm \/ FinishRestore
  <2>1. PICK what \in Readings \union {"failed"} : Answer(what)
    <3>1. console.id \in Ids
      BY <1>0 DEF ConsoleType
    <3> QED  BY <1>12, <3>1, ProbeReads DEF FinishArm, FinishRestore
  <2> QED  BY <1>0, <2>1, Answers DEF AnswerGiven, Readings
<1>13. CASE FinishReset
  <2>1. \/ Answer("failed")
        \/ Answer("restored") /\ StillArmed = {}
    BY <1>13 DEF FinishReset
  <2>2. StillArmed = {} => \A m \in Ids : ReadWell(m)
    BY DEF StillArmed
  <2> QED  BY <1>0, <1>13, <2>1, <2>2, Answers DEF AnswerGiven
<1> QED  BY <1>1, <1>2, <1>3, <1>4, <1>5, <1>6, <1>7, <1>8, <1>9, <1>10, <1>11, <1>12, <1>13, IdsAre,
            EnvironmentRests DEF Next, ConsoleStep, vars

(* The steps of the console that touch no system.                            *)
LEMMA PlansOnly ==
  ASSUME \/ RecordIntent \/ Raise \/ FinishArm \/ FinishRestore \/ ProbeNext \/ StartSweep
         \/ RestoreNext \/ RestoredNext \/ StartCheck \/ CheckNext \/ FinishReset
  PROVE  UNCHANGED world
BY DEF RecordIntent, Raise, FinishArm, FinishRestore, ProbeNext, StartSweep, RestoreNext, RestoredNext,
       StartCheck, CheckNext, FinishReset

LEMMA ArmedAlone ==
  ASSUME NEW m \in Kept, UNCHANGED <<forced, tampered, service, switched>>
  PROVE  Marked(m)' <=> Marked(m)
BY KeptAre, MarkedMeans

LEMMA StepSweep ==
  ASSUME RangeInv, ActionAgrees, SweepAgrees, [Next]_vars
  PROVE  SweepAgrees'
<1> USE DEF SweepAgrees
<1>0. console \in ConsoleType
  BY DEF RangeInv, RangeType
<1>0a. UNCHANGED world => \A m \in Kept : Marked(m)' <=> Marked(m)
  BY ArmedAlone DEF world
<1>1. CASE console'.changed = {}
  BY <1>1
<1>2. CASE Environment \/ UNCHANGED vars
  <2>1. \A m \in Kept : Marked(m)' <=> Marked(m)
    BY <1>2, <1>0a, EnvironmentRests, ArmedAlone DEF vars
  <2>2. CASE UNCHANGED console
    BY <2>1, <2>2 DEF InHand
  <2> QED  BY <1>1, <1>2, <2>2, EnvironmentRests, IdleAgrees DEF vars
<1>3. ASSUME NEW op \in {"arm", "restore", "reset"}, NEW m \in Ids, Press(op, m) PROVE SweepAgrees'
  BY <1>1, <1>3, Presses DEF Pressed
<1>4. CASE RecordIntent
  BY <1>0a, <1>1, <1>4, Records, PlansOnly DEF ActionAgrees, AnswerGiven, SameAction
<1>5. CASE Perform \/ WaitTimesOut
  <2>1. /\ console.at = "perform" /\ console'.changed = console.changed /\ console'.failed = console.failed
        /\ console.todo # <<>>
    BY <1>5, Performs
  <2>2. CASE console.op # "reset"
    BY <1>0, <1>1, <2>1, <2>2 DEF ActionAgrees, ConsoleType
  <2>3. CASE console.op = "reset"
    <3> DEFINE e == Head(console.todo)
    <3>1. e \in EffectType /\ ~e[3] /\ Effect(e)
      <4>1. e = console.todo[1] /\ 1 \in DOMAIN console.todo
        BY <1>0, <2>1, HeadTailProperties, LenProperties, EmptySeq DEF ConsoleType
      <4>2. ~e[3]
        BY <2>3, <4>1 DEF ActionAgrees
      <4> QED  BY <1>5, <2>1, <4>2, NextEffect DEF Perform, WaitTimesOut
    <3> SUFFICES ASSUME NEW m \in Kept, m \in console.changed, Marked(m)'
                 PROVE  m \in console.failed
      BY <2>1
    <3>2. Marked(m) /\ ~(e[2] = m /\ e[1] = (IF m \in Switches THEN "switch" ELSE "sql"))
      BY <3>1, DisarmingKeeps
    <3>3. console.todo # Restore(m)
      BY <3>2, KeptRestores
    <3> QED  BY <2>1, <3>2, <3>3 DEF InHand
  <2> QED  BY <2>2, <2>3
<1>6. CASE Raise
  <2>1. /\ console.at = "perform" /\ console'.at = "perform" /\ console'.id = console.id
        /\ console'.todo = <<>> /\ console'.raised
        /\ console'.changed = console.changed /\ console'.failed = console.failed
    BY <1>6, Performs
  <2>2. \A m \in Kept : InHand(m) => InHand(m)'
    BY <2>1 DEF InHand
  <2> QED  BY <1>0a, <1>6, <2>1, <2>2, PlansOnly
<1>7. CASE RestoredNext
  <2>1. /\ console.todo = <<>> /\ console'.changed = console.changed
        /\ console'.failed = console.failed \union (IF console.raised THEN {console.id} ELSE {})
    BY <1>7, Performs
  <2>2. \A m \in Kept : InHand(m) => m \in console'.failed
    BY <2>1, KeptRestores DEF InHand
  <2> QED  BY <1>0a, <1>7, <2>1, <2>2, PlansOnly
<1>8. CASE RestoreNext
  <2>1. PICK m \in Ids :
          /\ console'.at = "perform" /\ console.at = "sweep"
          /\ console'.id = m /\ console'.todo = Restore(m)
          /\ console'.changed = console.changed \union {m} /\ console'.failed = console.failed
    BY <1>8, Restores
  <2> QED  BY <1>0a, <1>8, <2>1, PlansOnly DEF InHand
<1>9. CASE ProbeNext \/ StartSweep \/ StartCheck \/ CheckNext
  <2>1. SamePlan /\ console.at # "perform"
    BY <1>9, Plans
  <2> QED  BY <1>0a, <1>9, <2>1, PlansOnly DEF SamePlan, InHand
<1>10. CASE FinishArm \/ FinishRestore \/ FinishReset
  <2>1. \E what : Answer(what)
    BY <1>10 DEF FinishArm, FinishRestore, FinishReset
  <2>2. console'.changed = console.changed /\ console'.failed = console.failed
    BY <1>0, <2>1, Answers DEF AnswerGiven
  <2>3. console.op \in {"arm", "restore"} \/ console.at = "check"
    BY <1>10 DEF FinishArm, FinishRestore, FinishReset
  <2>4. \A m \in Kept \intersect console.changed : ~InHand(m)
    BY <2>3 DEF ActionAgrees, InHand
  <2> QED  BY <1>0a, <1>10, <2>2, <2>4, PlansOnly
<1> QED  BY <1>2, <1>3, <1>4, <1>5, <1>6, <1>7, <1>8, <1>9, <1>10, IdsAre DEF Next, ConsoleStep

(* A probe that reads correct tells the truth, and so does one that reads    *)
(* absent, but for memory-db.                                                *)
LEMMA ProbesTell ==
  ASSUME RangeInv, NEW m \in Ids, Probe(m) \in {"correct", "absent"}
  PROVE  Settled(m, Probe(m))
<1>0. WorldType /\ LoadedIsTheBundle
  BY DEF RangeInv, WorldInv
<1>1. CASE m \in Database
  <2>1. Probe(m) = ProbeDatabase(m) /\ m # OpaStop /\ m \notin Variants /\ m \notin Settings
        /\ m \notin Switches
    BY <1>1, OneKind DEF Probe
  <2>2. up["postgres"] /\ (m \in {Payload, Window, Bob, Service} => m \notin Tables)
    BY <2>1, RangeAssumption DEF ProbeDatabase
  <2>3. m \in Tables => forced[m]
    <3>1. m \in Tables => ProbeDatabase(m) = ProbeTable(m)
      BY <2>2 DEF ProbeDatabase
    <3> QED  BY <2>1, <3>1 DEF ProbeTable, Reading
  <2>4. m = Payload => tampered = {}
    <3>1. m = Payload => ProbeDatabase(m) = ProbePayload
      BY <2>2 DEF ProbeDatabase, Bob, Payload, Window, Service
    <3> QED  BY <2>1, <3>1 DEF ProbePayload, Reading
  <2>5. m = Bob => bob \/ "support_manager" \in service
    <3>1. m = Bob => ProbeDatabase(m) = ProbeBob
      BY <2>2 DEF ProbeDatabase, Bob, Payload, Window, Service
    <3> QED  BY <2>1, <3>1 DEF ProbeBob, Reading
  <2>6. m = Service => service = {}
    <3>1. m = Service => ProbeDatabase(m) = ProbeService
      BY <2>2 DEF ProbeDatabase, Bob, Payload, Window, Service
    <3> QED  BY <2>1, <3>1 DEF ProbeService, Reading
  <2> QED  BY <2>1, <2>3, <2>4, <2>5, <2>6 DEF Settled
<1>2. CASE m = OpaStop
  <2>1. Probe(m) = ProbeOpa /\ m \notin Database /\ m \notin Variants /\ m \notin Settings
        /\ m \notin Switches
    BY <1>2, OneKind DEF Probe
  <2> QED  BY <2>1 DEF ProbeOpa, Reading, Settled, Database
<1>3. CASE m \in Variants
  <2>1. Probe(m) = ProbeBundle(m) /\ m # OpaStop /\ m \notin Database /\ m \notin Settings
        /\ m \notin Switches
    BY <1>3, OneKind DEF Probe
  <2>2. bundle = "real" /\ current
    BY <2>1 DEF ProbeBundle, Reading, OpaHasLoadedTheBundle
  <2> QED  BY <1>0, <2>1, <2>2 DEF LoadedIsTheBundle, Settled, Database
<1>4. CASE m \in Settings
  <2>1. Probe(m) = ProbeMemory(m) /\ m # OpaStop /\ m \notin Database /\ m \notin Variants
        /\ m \notin Switches
    BY <1>4, OneKind DEF Probe
  <2> QED  BY <2>1 DEF ProbeMemory, Reading, Settled, Database
<1>5. CASE m \in Switches
  <2>1. Probe(m) = ProbeSwitch(m) /\ m # OpaStop /\ m \notin Database /\ m \notin Variants
        /\ m \notin Settings
    BY <1>5, OneKind DEF Probe
  <2> QED  BY <2>1 DEF ProbeSwitch, Settled, Database
<1> QED  BY <1>1, <1>2, <1>3, <1>4, <1>5, OneKind

LEMMA StepReadings ==
  ASSUME RangeInv, ActionAgrees, ReadingsAgree, [Next]_vars
  PROVE  ReadingsAgree'
<1> USE DEF ReadingsAgree, ReadWell
<1>0. console \in ConsoleType
  BY DEF RangeInv, RangeType
<1>1. CASE \A m \in Ids : console'.read[m] = "unknown"
  BY <1>1
<1>2. ASSUME UNCHANGED world, console'.read = console.read PROVE ReadingsAgree'
  BY <1>2 DEF world, Settled
<1>3. CASE UNCHANGED vars
  BY <1>2, <1>3 DEF vars
<1>4. CASE Environment
  <2>1. CASE UNCHANGED console
    BY <1>4, <2>1, EnvironmentRests DEF Settled
  <2> QED  BY <1>1, <1>4, <2>1, EnvironmentRests, IdleAgrees
<1>5. ASSUME NEW op \in {"arm", "restore", "reset"}, NEW m \in Ids, Press(op, m) PROVE ReadingsAgree'
  BY <1>1, <1>5, Presses DEF Pressed
<1>6. CASE Perform \/ WaitTimesOut
  <2>1. console.at = "perform" /\ console'.read = console.read
    BY <1>6, Performs DEF SameAction
  <2> QED  BY <1>1, <2>1 DEF ActionAgrees
<1>7. CASE CheckNext
  <2>1. PICK m \in Ids : m = Order[console.next]
    <3>1. Len(Order) \in Nat /\ console.next \in 1 .. Len(Order)
      BY <1>0, <1>7, RangeAssumption, LenProperties DEF CheckNext, ConsoleType
    <3> QED  BY <3>1, RangeAssumption, ElementOfSeq
  <2>2. console' = [console EXCEPT !.next = @ + 1, !.read[m] = Probe(m)] /\ UNCHANGED world
    BY <1>7, <2>1 DEF CheckNext
  <2>3. console'.read = [console.read EXCEPT ![m] = Probe(m)] /\ console.read \in [Ids -> Readings]
    BY <1>0, <2>2 DEF ConsoleType
  <2>4. console'.read[m] = Probe(m) /\ \A k \in Ids \ {m} : console'.read[k] = console.read[k]
    BY <2>1, <2>3
  <2>5. ReadWell(m)' => Settled(m, console.read[m])'
    BY <2>2, <2>4, ProbesTell DEF world, Settled
  <2>6. \A k \in Ids \ {m} : ReadWell(k)' => Settled(k, console.read[k])'
    BY <2>2, <2>4 DEF world, Settled
  <2> QED  BY <2>5, <2>6
<1>8. CASE \/ RecordIntent \/ Raise \/ FinishArm \/ FinishRestore \/ ProbeNext \/ StartSweep
           \/ RestoreNext \/ RestoredNext \/ StartCheck \/ FinishReset
  <2>1. UNCHANGED world
    BY <1>8, PlansOnly
  <2>2. console'.read = console.read
    <3>1. CASE FinishArm \/ FinishRestore \/ FinishReset
      <4>1. \E what : Answer(what)
        BY <3>1 DEF FinishArm, FinishRestore, FinishReset
      <4> QED  BY <1>0, <4>1, Answers DEF AnswerGiven
    <3>2. CASE ~(FinishArm \/ FinishRestore \/ FinishReset)
      BY <1>8, <3>2, Records, Performs, Plans, Restores DEF AnswerGiven, SameAction
    <3> QED  BY <3>1, <3>2
  <2> QED  BY <1>2, <2>1, <2>2
<1> QED  BY <1>3, <1>4, <1>5, <1>6, <1>7, <1>8, IdsAre DEF Next, ConsoleStep

-----------------------------------------------------------------------------
(* The theorems.                                                             *)
LEMMA InitSound == Init => RangeInv
<1> SUFFICES ASSUME Init PROVE RangeInv
  OBVIOUS
<1>0. /\ DOMAIN requests = {1} /\ requests[1].pending = TRUE /\ requests[1].window = "open"
      /\ requests[1].asked = "45" /\ requests[1].amount = "45"
  <2>1. requests = <<Proposed("45")>>
    BY DEF Init
  <2> DEFINE p == Proposed("45")
  <2>2. p.pending = TRUE /\ p.window = "open" /\ p.asked = "45" /\ p.amount = "45"
    BY DEF Proposed
  <2> HIDE DEF p
  <2>3. requests[1] = p /\ DOMAIN requests = {1}
    BY <2>1 DEF p
  <2> QED  BY <2>2, <2>3
<1>1. LoadedIsTheBundle /\ GenuineRequestsKeepTheirPayload /\ RangeType
  <2>1. up \in [Systems -> BOOLEAN]
    BY DEF Init
  <2>2. RangeType
    BY <2>1, IdleIsConsole DEF Init, RangeType
  <2> QED  BY <1>0, <2>2 DEF Init, LoadedIsTheBundle, GenuineRequestsKeepTheirPayload
<1>2. ArmedIsWritten
  <2>1. ~(\E i \in Pending : requests[i].amount # requests[i].asked)
        /\ ~(\E i \in Pending : requests[i].window = "moved")
    BY <1>0 DEF Pending
  <2>2. \A m \in Ids \ {OpaStop} : ~IsArmed(m)
    BY <2>1, RangeAssumption DEF Init, IsArmed
  <2> QED  BY <2>2 DEF ArmedIsWritten
<1>3. WorldType /\ Underway
  <2>1. Proposed("45") \in Request
    BY DEF Request, Proposed, Amounts
  <2>2. requests \in Seq(Request)
    BY <2>1 DEF Init
  <2> QED  BY <2>2 DEF Init, WorldType, Underway
<1>4. Announced(console.todo)
  BY IdleIsConsole, NothingAnnounced DEF Init
<1> QED  BY <1>1, <1>2, <1>3, <1>4 DEF RangeInv, WorldInv

LEMMA StepKeeps ==
  ASSUME RangeInv, [Next]_vars
  PROVE  RangeInv'
<1>1. CASE UNCHANGED vars
  <2>1. UNCHANGED <<world, up, shunned, intents, arms, events, console>>
    BY <1>1 DEF vars
  <2> QED  BY <2>1, WorldAlone, RangeAlone DEF RangeInv, RangeType
<1>2. ASSUME NEW op \in {"arm", "restore", "reset"}, NEW m \in Ids, Press(op, m) PROVE RangeInv'
  BY <1>2, PressKeeps
<1>3. CASE ConsoleStep
  BY <1>3, RecordIntentKeeps, PerformKeeps, RaiseKeeps, FinishKeeps, ProbingKeeps, SweepKeeps
     DEF ConsoleStep
<1>4. CASE Environment
  BY <1>4, SystemsComeAndGo, PolicyMoves, RequestsCome, RequestsGo DEF Environment
<1> QED  BY <1>1, <1>2, <1>3, <1>4, IdsAre DEF Next

(* RangeInv holds in every reachable state.                                  *)
THEOREM RangeInvariant == Spec => []RangeInv
BY InitSound, StepKeeps, PTL DEF Spec

(* Every variable keeps its type, and the console its record.                *)
THEOREM RangeTypeCorrect == Spec => []TypeOK
<1>1. RangeInv => TypeOK
  <2> SUFFICES ASSUME RangeInv PROVE TypeOK
    OBVIOUS
  <2>1. EffectType \subseteq Effects \X Ids \X BOOLEAN
    BY DEF EffectType
  <2>2. console.todo \in Seq(Effects \X Ids \X BOOLEAN)
    BY <2>1, SeqMonotonic DEF RangeInv, RangeType, ConsoleType
  <2> QED  BY <2>2 DEF RangeInv, RangeType, ConsoleType, WorldInv, WorldType, TypeOK
<1> QED  BY <1>1, RangeInvariant, PTL

(* Whatever a policy control's probe reads, correct or armed, is what OPA    *)
(* enforces, however the file, the container and the Range came to be.       *)
THEOREM BundleProbesAreHonest == Spec => []BundleProbeIsHonest
<1>1. RangeInv => BundleProbeIsHonest
  BY RangeAssumption DEF RangeInv, WorldInv, LoadedIsTheBundle, BundleProbeIsHonest, ProbeBundle, Reading,
     OpaHasLoadedTheBundle
<1> QED  BY <1>1, RangeInvariant, PTL

(* Nothing the Range changed is found armed without an arming_requested row, *)
(* whatever stopped, failed or timed out between the row and the effect.     *)
THEOREM ArmingIsWrittenFirst == Spec => []ArmedIsWritten
<1>1. RangeInv => ArmedIsWritten
  BY DEF RangeInv, WorldInv
<1> QED  BY <1>1, RangeInvariant, PTL

(* The request the Range holds is the only pending one that can carry another *)
(* amount than it was proposed with, and no amount changes once its request  *)
(* is decided.                                                               *)
THEOREM OnlyTheHeldRequestIsAltered == Spec => []GenuineRequestsKeepTheirPayload
<1>1. RangeInv => GenuineRequestsKeepTheirPayload
  BY DEF RangeInv, WorldInv
<1> QED  BY <1>1, RangeInvariant, PTL

(* ResetInv too, by way of RangeInv.                                         *)
THEOREM ResetInvariant == Spec => []ResetInv
<1>1. Init => ResetInv
  <2>1. Init => console = Idle /\ console.changed = {} /\ \A m \in Ids : console.read[m] = "unknown"
    BY IdleAgrees DEF Init
  <2> QED  BY <2>1, IdleAgrees DEF ResetInv, ActionAgrees, SweepAgrees, ReadingsAgree, ReadWell
<1>2. RangeInv /\ ResetInv /\ [Next]_vars => ResetInv'
  BY StepAction, StepSweep, StepReadings DEF ResetInv
<1> QED  BY <1>1, <1>2, RangeInvariant, PTL DEF Spec

(* A reset that answers that everything is restored has left no control      *)
(* armed but one of memory-db it found absent, or to which a transaction that *)
(* had read it armed committed after it was read as correct (the approval     *)
(* window aside), through any number of outages, timeouts and changes during  *)
(* its sweep.                                                                *)
THEOREM ResetLeavesNothingArmed == Spec => []ResetRestores
<1>1. RangeInv /\ ResetInv => ResetRestores
  <2> SUFFICES ASSUME RangeInv, ResetInv, console.answer = "restored",
                      NEW m \in Ids \ {Window}, IsArmed(m)
               PROVE  /\ m \in Settings
                      /\ console.read[m] = "absent" \/ (m \notin armed /\ m \in late)
    BY DEF ResetRestores
  <2>1. \A k \in Ids : Settled(k, console.read[k])
    BY DEF ResetInv, ActionAgrees, ReadingsAgree
  <2>2. m \in Tables \/ m \in {Payload, Bob, Service, OpaStop} \/ m \in Variants \/ m \in Settings
        \/ m \in Switches
    BY DEF Ids, Database
  <2>3. m = Service \/ m = Bob => Settled(Service, console.read[Service]) /\ Settled(Bob, console.read[Bob])
    BY <2>1, IdsAre
  <2>4. "real" \notin Variants
    BY RangeAssumption
  <2> QED  BY <2>1, <2>2, <2>3, <2>4, ArmedMeans DEF Settled
<1> QED  BY <1>1, RangeInvariant, ResetInvariant, PTL

(* When the sweep is over, what the probes found wrong is disarmed or counted *)
(* as failed, whichever other restores raised (reset_all).                   *)
THEOREM SweepReachesEveryControl == Spec => []FailuresDoNotSpread
<1>1. RangeInv /\ ResetInv => FailuresDoNotSpread
  BY ArmedIsMarked DEF ResetInv, ActionAgrees, SweepAgrees, InHand, Kept, FailuresDoNotSpread
<1> QED  BY <1>1, RangeInvariant, ResetInvariant, PTL

-----------------------------------------------------------------------------
(***************************************************************************)
(* The runs of the probe service.                                          *)
(***************************************************************************)
(* Which step a run of an entry can be at, and what a run that has not begun *)
(* holds.                                                                    *)
Obtaining == Delegated \cup {"again", "clear", "update", "api"}

AtItsEntry(c) ==
  LET k == call[c]
  IN /\ k.pc # "idle" => k.entry \in Known /\ k.run \in 1..MaxCalls
     /\ k.pc = "page" => k.entry = "search" /\ k.pages < MaxPages
     /\ k.pc = "step" => k.entry \in {"forget", "confirm"} /\ k.step <= Len(Scenario[k.entry])
     /\ k.pc \in Obtaining => k.entry \in Delegated
     /\ k.pc = "token" => /\ k.position = Start /\ k.seen = {} /\ k.twice = {} /\ k.pages = 0
                          /\ k.captured = 0 /\ k.step = 1
                          /\ k.held = "" /\ k.token = "" /\ k.reached = "" /\ k.status = ""
     /\ k.pc = "gateway" => k.entry = "gateway"

(* A walk has shown exactly the unchanged rows up to its cursor, and nothing *)
(* twice; one that came to the end has shown them all.                       *)
WalkAgrees(c) ==
  LET k == call[c]
  IN k.entry = "search" =>
       /\ k.twice = {}
       /\ k.pc = "page" =>
            \A x \in k.steady : /\ directory[x] \in Matching
                                /\ x \in k.seen <=> ~Before(k.position, Key(x))
       /\ k.pc = "done" => /\ ~k.refused /\ k.position = Start => k.steady \subseteq k.seen
                           /\ ~k.refused /\ k.position # Start => k.pages = MaxPages

(* What a scenario of forgetting captured is a memory of its own run, and    *)
(* the answer to a flag is a survivor that was shown.                        *)
ScenarioAgrees(c) ==
  LET k == call[c]
  IN /\ k.entry = "forget" /\ k.captured # 0 =>
          k.captured \in 1..Len(memory) /\ memory[k.captured].by = k.run
     /\ k.answer \in shown \cup {0}

(* What the row of a run that is over says of what reached the API.          *)
Told(k) ==
  \/ k.status = "answered" /\ k.token = k.reached /\ k.reached # ""
  \/ k.status = "refused" /\ k.token = "none" /\ k.reached = ""
  \/ k.status = "failed" /\ (k.reached = "" \/ k.token \in {"", k.reached})
  \/ k.status = "unavailable" /\ k.entry = "gateway"

(* Until a token is used nothing has reached the API; a token to be used is  *)
(* one the run obtained.                                                     *)
TokenAgrees(c) ==
  LET k == call[c]
  IN k.entry \in Delegated =>
       /\ k.pc \in Delegated \cup {"token", "again"} => k.reached = ""
       /\ k.pc \in {"clear", "update"} =>
            /\ <<k.run, k.held>> \in obtained
            /\ \/ /\ k.held \in {"gateway", "passthrough"} /\ k.token = k.held
                  /\ k.reached = k.held /\ k.status = "answered"
               \/ k.held \in {"exchange", "re-exchange"} /\ k.reached = ""
       /\ k.pc = "api" => k.held \in {"exchange", "re-exchange"} /\ k.reached = ""
       /\ k.pc \in {"done", "failed"} => Told(k)

RunAgrees(c) == AtItsEntry(c) /\ WalkAgrees(c) /\ ScenarioAgrees(c) /\ TokenAgrees(c)

(* A memory that derives from another was made by the run that made that     *)
(* other, what is forgotten was forgotten by the run that made it, and the   *)
(* memories of the forgotten list derive from none.                          *)
MemoryAgrees ==
  /\ memory \in Seq(MemoryRow) /\ forgotten \in Seq(1..Len(memory))
  /\ \A r \in 1..Len(memory) :
       LET from == memory[r].from
       IN from # 0 => from \in 1..Len(memory) /\ memory[from].by = memory[r].by
  /\ RunsForgetTheirOwn
  /\ \A j \in 1..Len(forgotten) : memory[forgotten[j]].from = 0

(* A survivor that was shown belongs to a memory that was forgotten.         *)
ShownAgree ==
  /\ shown \subseteq 1..Len(memory)
  /\ \A r \in shown : \E j \in 1..Len(forgotten) : forgotten[j] = RootOf(r)

ServiceInv ==
  /\ DirectoryTypeOK
  /\ call \in [Calls -> Run] /\ \A c \in Calls : RunAgrees(c)
  /\ MemoryAgrees /\ ShownAgree
  /\ minted # Nothing => <<minted.run, minted.via>> \in obtained
  /\ scope \in {"all", "primary", "restored"}
  /\ runs \in 0..MaxCalls /\ faults \in 0..MaxFaults /\ changes \in 0..MaxChanges

-----------------------------------------------------------------------------
(* The order of the query, and the pages it gives.                           *)

LEMMA LeastOfNats ==
  ASSUME NEW S \in SUBSET Nat, S # {}
  PROVE  \E m \in S : \A k \in S : m <= k
<1> DEFINE R == OpToRel(<, Nat)
<1>1. IsWellFoundedOn(R, Nat)
  BY NatLessThanWellFounded
<1>2. \A k, m \in Nat : k < m => <<k, m>> \in R
  BY DEF OpToRel
<1> HIDE DEF R
<1>3. PICK m \in S : \A k \in S : ~(<<k, m>> \in R)
  BY <1>1, WFMin
<1>4. \A k \in S : ~(k < m) /\ k \in Nat /\ m \in Nat
  BY <1>2, <1>3
<1>5. \A k \in S : m <= k
  BY <1>4
<1> QED  BY <1>5

Rank(c, S) == Cardinality({d \in S : Before(Key(d), Key(c))})

(* Keys are totally ordered, and a rank counts those before a key.           *)
LEMMA KeysOrdered ==
  ASSUME DirectoryTypeOK
  PROVE  /\ \A c \in Customers : Key(c) \in Nat \X Nat /\ ~Before(Key(c), Key(c))
         /\ \A c, d \in Customers : c # d => Before(Key(c), Key(d)) \/ Before(Key(d), Key(c))
         /\ \A k, l, m \in Nat \X Nat : Before(k, l) /\ Before(l, m) => Before(k, m)
         /\ \A k, l \in Nat \X Nat : Before(k, l) => ~Before(l, k)
<1>1. \A c \in Customers : c \in Nat \ {0} /\ directory[c] \in Nat
  <2>1. directory \in [Customers -> Names \cup {0}]
    BY DEF DirectoryTypeOK, Gone
  <2>2. Names \subseteq Nat \ {0} /\ Customers \subseteq Nat \ {0}
    BY DirectoryAssumption
  <2>3. ASSUME NEW c \in Customers PROVE c \in Nat \ {0} /\ directory[c] \in Nat
    <3>1. directory[c] \in Names \cup {0}
      BY <2>1
    <3>2. c \in Nat \ {0}
      BY <2>2
    <3>3. Names \cup {0} \subseteq Nat
      BY <2>2
    <3>4. directory[c] \in Nat
      BY <3>1, <3>3
    <3> QED  BY <3>2, <3>4
  <2> QED  BY <2>3
<1>2. \A c \in Customers : Key(c) \in Nat \X Nat /\ Key(c)[1] = directory[c] /\ Key(c)[2] = c
  BY <1>1 DEF Key
<1>3. \A c, d \in Customers : c # d => Before(Key(c), Key(d)) \/ Before(Key(d), Key(c))
  BY <1>1, <1>2 DEF Before
<1>4. \A c \in Customers : ~Before(Key(c), Key(c))
  BY <1>1, <1>2 DEF Before
<1>5. \A k, l, m \in Nat \X Nat : Before(k, l) /\ Before(l, m) => Before(k, m)
  BY DEF Before
<1>6. \A k, l \in Nat \X Nat : Before(k, l) => ~Before(l, k)
  BY DEF Before
<1> QED  BY <1>2, <1>3, <1>4, <1>5, <1>6

LEMMA Ranks ==
  ASSUME DirectoryTypeOK, NEW S \in SUBSET Customers
  PROVE  /\ IsFiniteSet(S) /\ Cardinality(S) \in Nat
         /\ \A c \in S : Rank(c, S) \in Nat /\ Rank(c, S) < Cardinality(S)
         /\ \A c, d \in S : Before(Key(c), Key(d)) <=> Rank(c, S) < Rank(d, S)
<1>1. IsFiniteSet(S) /\ Cardinality(S) \in Nat
  BY DirectoryAssumption, FS_Subset, FS_CardinalityType
<1>2. ASSUME NEW T \in SUBSET S, NEW c \in S, c \notin T
      PROVE  Cardinality(T) \in Nat /\ Cardinality(T) < Cardinality(S)
  <2>1. IsFiniteSet(T) /\ Cardinality(T) <= Cardinality(S) /\ (Cardinality(S) = Cardinality(T) => S = T)
    BY <1>1, FS_Subset
  <2>2. Cardinality(T) \in Nat
    BY <2>1, FS_CardinalityType
  <2> QED  BY <1>1, <1>2, <2>1, <2>2
<1>3. ASSUME NEW c \in S PROVE Rank(c, S) \in Nat /\ Rank(c, S) < Cardinality(S)
  <2>1. c \notin {d \in S : Before(Key(d), Key(c))}
    BY KeysOrdered
  <2> QED  BY <1>2, <2>1 DEF Rank
<1>4. ASSUME NEW c \in S, NEW d \in S, Before(Key(c), Key(d))
      PROVE  Rank(c, S) < Rank(d, S)
  <2> DEFINE C == {x \in S : Before(Key(x), Key(c))}
             D == {x \in S : Before(Key(x), Key(d))}
  <2>1. C \subseteq D /\ c \in D /\ c \notin C
    BY <1>4, KeysOrdered
  <2>2. IsFiniteSet(D)
    BY <1>1, FS_Subset
  <2>3. IsFiniteSet(C) /\ Cardinality(C) <= Cardinality(D) /\ (Cardinality(D) = Cardinality(C) => D = C)
    BY <2>1, <2>2, FS_Subset
  <2>4. Cardinality(C) \in Nat /\ Cardinality(D) \in Nat
    BY <2>2, <2>3, FS_CardinalityType
  <2> QED  BY <2>1, <2>3, <2>4 DEF Rank
<1>5. ASSUME NEW c \in S, NEW d \in S, Rank(c, S) < Rank(d, S)
      PROVE  Before(Key(c), Key(d))
  <2>1. c # d
    BY <1>3, <1>5
  <2>2. ~Before(Key(d), Key(c))
    BY <1>3, <1>4, <1>5
  <2> QED  BY <2>1, <2>2, KeysOrdered
<1> QED  BY <1>1, <1>3, <1>4, <1>5

(* Any set of customers that is not empty has a first and a last.            *)
LEMMA FirstAndLast ==
  ASSUME DirectoryTypeOK, NEW S \in SUBSET Customers, S # {}
  PROVE  /\ \E m \in S : \A d \in S \ {m} : Before(Key(m), Key(d))
         /\ \E m \in S : \A d \in S \ {m} : Before(Key(d), Key(m))
<1> DEFINE Low  == {Rank(c, S) : c \in S}
           High == {Cardinality(S) - Rank(c, S) : c \in S}
<1>1. /\ Cardinality(S) \in Nat
      /\ \A c \in S : Rank(c, S) \in Nat /\ Rank(c, S) < Cardinality(S)
      /\ \A c, d \in S : Before(Key(c), Key(d)) <=> Rank(c, S) < Rank(d, S)
      /\ \A c, d \in S : c # d => Before(Key(c), Key(d)) \/ Before(Key(d), Key(c))
  BY Ranks, KeysOrdered
<1>2. Low \in SUBSET Nat /\ High \in SUBSET Nat /\ Low # {} /\ High # {}
  BY <1>1
<1>3. PICK m \in S : \A d \in S : Rank(m, S) <= Rank(d, S)
  <2>1. \E k \in Low : \A l \in Low : k <= l
    <3> HIDE DEF Low
    <3> QED  BY <1>2, LeastOfNats
  <2> QED  BY <2>1
<1>4. PICK n \in S : \A d \in S : Cardinality(S) - Rank(n, S) <= Cardinality(S) - Rank(d, S)
  <2>1. \E k \in High : \A l \in High : k <= l
    <3> HIDE DEF High
    <3> QED  BY <1>2, LeastOfNats
  <2> QED  BY <2>1
<1>5. \A d \in S \ {m} : Before(Key(m), Key(d))
  BY <1>1, <1>3
<1>6. ASSUME NEW d \in S \ {n} PROVE Before(Key(d), Key(n))
  <2>1. Rank(d, S) <= Rank(n, S)
    BY <1>1, <1>4
  <2> QED  BY <1>1, <2>1
<1> QED  BY <1>5, <1>6

LEMMA FirstOnes ==
  ASSUME DirectoryTypeOK, NEW A \in SUBSET Customers, NEW n \in Nat
  PROVE  /\ FirstOf(A, n) \subseteq A
         /\ \A c \in FirstOf(A, n), d \in A : Before(Key(d), Key(c)) => d \in FirstOf(A, n)
         /\ Cardinality(FirstOf(A, n)) < n => FirstOf(A, n) = A
         /\ Cardinality(A) <= n => FirstOf(A, n) = A
         /\ n > 0 /\ A # {} => FirstOf(A, n) # {}
<1> DEFINE F == FirstOf(A, n)
<1>1. F = {c \in A : Rank(c, A) < n}
  BY DEF FirstOf, Rank
<1>2. /\ IsFiniteSet(A) /\ Cardinality(A) \in Nat
      /\ \A c \in A : Rank(c, A) \in Nat /\ Rank(c, A) < Cardinality(A)
      /\ \A c, d \in A : Before(Key(c), Key(d)) <=> Rank(c, A) < Rank(d, A)
  BY Ranks
<1> HIDE DEF F
<1>3. \A c \in F, d \in A : Before(Key(d), Key(c)) => d \in F
  BY <1>1, <1>2
<1>4. ASSUME Cardinality(F) < n PROVE F = A
  <2> SUFFICES ASSUME A \ F # {} PROVE FALSE
    BY <1>1
  <2>1. PICK m \in A \ F : \A d \in (A \ F) \ {m} : Before(Key(m), Key(d))
    BY FirstAndLast
  <2> DEFINE B == {d \in A : Before(Key(d), Key(m))}
  <2>2. B \subseteq F
    BY <2>1, KeysOrdered, <1>1
  <2>3. IsFiniteSet(F)
    BY <1>1, <1>2, FS_Subset
  <2>4. Cardinality(B) <= Cardinality(F)
    BY <2>2, <2>3, FS_Subset
  <2>5. Rank(m, A) <= Cardinality(F) /\ Rank(m, A) \in Nat /\ Cardinality(F) \in Nat
    BY <1>2, <2>3, <2>4, FS_CardinalityType DEF Rank
  <2> QED  BY <1>1, <1>4, <2>5
<1>5. ASSUME Cardinality(A) <= n PROVE F = A
  BY <1>1, <1>2, <1>5
<1>6. ASSUME n > 0, A # {} PROVE F # {}
  <2>1. PICK m \in A : \A d \in A \ {m} : Before(Key(m), Key(d))
    BY <1>6, FirstAndLast
  <2>2. {d \in A : Before(Key(d), Key(m))} = {}
    BY <2>1, KeysOrdered
  <2>3. Rank(m, A) = 0
    BY <2>2, FS_EmptySet DEF Rank
  <2> QED  BY <1>1, <1>6, <2>3
<1> QED  BY <1>1, <1>3, <1>4, <1>5, <1>6 DEF F

LEMMA LimitIsPositive == ClampLimit \in Nat \ {0}
<1> DEFINE S == {Requested, EndpointMax, PolicyMax}
<1>1. S \in SUBSET (Nat \ {0}) /\ S # {}
  BY DirectoryAssumption
<1>2. \E x \in S : \A y \in S : x <= y
  BY DirectoryAssumption
<1>3. Min(S) \in S
  BY <1>2 DEF Min
<1> QED  BY <1>1, <1>3 DEF ClampLimit

(* A page shows the first of what is after the cursor, up to the cursor it   *)
(* hands out, or all of it when it hands out none.                           *)
LEMMA SearchShows ==
  ASSUME DirectoryTypeOK, NEW position \in Nat \X Nat
  PROVE  LET answer == Search(position)
         IN /\ answer.rows \subseteq After(position)
            /\ searcher <=> answer.status = 200
            /\ searcher /\ answer.next = Start => answer.rows = After(position)
            /\ answer.next = Start \/ \E m \in answer.rows :
                 /\ answer.next = Key(m) /\ answer.next # Start
                 /\ \A d \in After(position) : d \in answer.rows <=> d = m \/ Before(Key(d), Key(m))
<1> DEFINE A == After(position)
           rows == FirstOf(A, ClampLimit + 1)
           visible == FirstOf(rows, ClampLimit)
<1>1. A \in SUBSET Customers
  BY DEF After
<1>2. ClampLimit \in Nat /\ ClampLimit + 1 \in Nat /\ ClampLimit > 0
  BY LimitIsPositive
<1>3. /\ rows \subseteq A
      /\ \A c \in rows, d \in A : Before(Key(d), Key(c)) => d \in rows
      /\ Cardinality(rows) < ClampLimit + 1 => rows = A
  BY <1>1, <1>2, FirstOnes
<1>4. /\ visible \subseteq rows
      /\ \A c \in visible, d \in rows : Before(Key(d), Key(c)) => d \in visible
      /\ Cardinality(rows) <= ClampLimit => visible = rows
      /\ rows # {} => visible # {}
  <2> HIDE DEF A, rows
  <2>1. rows \in SUBSET Customers
    BY <1>1, <1>3
  <2> QED  BY <1>2, <2>1, FirstOnes
<1>5. Cardinality(rows) \in Nat /\ (Cardinality(rows) > ClampLimit => rows # {})
  BY <1>1, <1>2, <1>3, Ranks, FS_EmptySet
<1> HIDE DEF A, rows, visible
<1>6. ASSUME Cardinality(rows) > ClampLimit
      PROVE  \E m \in visible : /\ LastOf(visible) = Key(m) /\ Key(m) # Start
                                /\ \A d \in A : d \in visible <=> d = m \/ Before(Key(d), Key(m))
  <2>1. visible \in SUBSET Customers /\ visible # {}
    BY <1>1, <1>3, <1>4, <1>5, <1>6
  <2>2. \E m \in visible : \A d \in visible \ {m} : Before(Key(d), Key(m))
    BY <2>1, FirstAndLast
  <2>3. PICK m \in visible : LastOf(visible) = Key(m) /\ \A d \in visible \ {m} : Before(Key(d), Key(m))
    BY <2>2 DEF LastOf
  <2>4. Key(m) # Start
    BY <2>1, DirectoryAssumption DEF Key, Start
  <2> QED  BY <1>1, <1>3, <1>4, <2>1, <2>3, <2>4
<1>7. CASE searcher
  <2>1. Search(position) = [status |-> 200, rows |-> visible, next |-> NextCursor(rows, visible)]
    BY <1>7 DEF Search, A, rows, visible
  <2>2. CASE Cardinality(rows) > ClampLimit
    BY <1>3, <1>4, <1>6, <1>7, <2>1, <2>2 DEF NextCursor, A
  <2>3. CASE ~(Cardinality(rows) > ClampLimit)
    <3>1. visible = A
      BY <1>2, <1>3, <1>4, <1>5, <2>3
    <3> QED  BY <1>7, <2>1, <2>3, <3>1 DEF NextCursor, A
  <2> QED  BY <2>2, <2>3
<1>8. CASE ~searcher
  <2>1. Search(position) = [status |-> 404, rows |-> {}, next |-> Start]
    BY <1>8 DEF Search
  <2> QED  BY <1>8, <2>1
<1> QED  BY <1>7, <1>8

-----------------------------------------------------------------------------
(* Steps of the probe service in general.                                    *)

(* Memories are added and marked, never taken away or given to another run.  *)
MemoriesStay ==
  /\ Len(memory) <= Len(memory')
  /\ \A r \in 1..Len(memory) : memory'[r].by = memory[r].by

Stored  == MemoryAgrees /\ ShownAgree
Bounded == /\ scope \in {"all", "primary", "restored"}
           /\ runs \in 0..MaxCalls /\ faults \in 0..MaxFaults /\ changes \in 0..MaxChanges
MintedAgrees == minted # Nothing => <<minted.run, minted.via>> \in obtained

LEMMA Parts ==
  ServiceInv <=> /\ DirectoryTypeOK
                 /\ call \in [Calls -> Run] /\ \A c \in Calls : RunAgrees(c)
                 /\ Stored /\ MintedAgrees /\ Bounded
BY DEF ServiceInv, Stored, MintedAgrees, Bounded

LEMMA PartsNext ==
  ServiceInv' <=> /\ DirectoryTypeOK'
                  /\ call' \in [Calls -> Run] /\ \A c \in Calls : RunAgrees(c)'
                  /\ Stored' /\ MintedAgrees' /\ Bounded'
BY DEF ServiceInv, Stored, MintedAgrees, Bounded

(* A run that does nothing itself stays in agreement.                        *)
LEMMA OthersAgree ==
  ASSUME ServiceInv, NEW d \in Calls, call'[d] = call[d],
         UNCHANGED directory, MemoriesStay, obtained \subseteq obtained', shown \subseteq shown'
  PROVE  RunAgrees(d)'
<1>1. RunAgrees(d) /\ call[d] \in Run
  BY Parts
<1>2. 1..Len(memory) \subseteq 1..Len(memory')
  BY DEF MemoriesStay
<1>3. AtItsEntry(d)'
  BY <1>1 DEF RunAgrees, AtItsEntry
<1>4. WalkAgrees(d)'
  BY <1>1 DEF RunAgrees, WalkAgrees, Key
<1>5. ScenarioAgrees(d)'
  BY <1>1, <1>2 DEF RunAgrees, ScenarioAgrees, MemoriesStay
<1>6. TokenAgrees(d)'
  BY <1>1 DEF RunAgrees, TokenAgrees
<1> QED  BY <1>3, <1>4, <1>5, <1>6 DEF RunAgrees

LEMMA StoreRests ==
  ASSUME ServiceInv, UNCHANGED <<memory, forgotten, shown, verdict>>
  PROVE  Stored' /\ MemoriesStay
<1>1. Stored /\ Len(memory) \in Nat
  BY Parts DEF Stored, MemoryAgrees
<1>2. MemoryAgrees'
  BY <1>1 DEF Stored, MemoryAgrees, RunsForgetTheirOwn
<1>3. ShownAgree'
  BY <1>1 DEF Stored, ShownAgree, RootOf
<1> QED  BY <1>1, <1>2, <1>3 DEF Stored, MemoriesStay

(* One run moves on.                                                         *)
LEMMA OneMoves ==
  ASSUME ServiceInv, NEW c \in Calls, NEW new \in Run, Becomes(c, new), RunAgrees(c)',
         UNCHANGED dirVars, MemoriesStay, obtained \subseteq obtained', shown \subseteq shown',
         Stored', MintedAgrees', Bounded'
  PROVE  ServiceInv'
<1>1. call \in [Calls -> Run] /\ DirectoryTypeOK
  BY Parts
<1>2. call' \in [Calls -> Run] /\ \A d \in Calls \ {c} : call'[d] = call[d]
  BY <1>1 DEF Becomes
<1>3. \A d \in Calls \ {c} : RunAgrees(d)'
  BY <1>2, OthersAgree DEF dirVars
<1>4. DirectoryTypeOK'
  BY <1>1 DEF DirectoryTypeOK, dirVars
<1> QED  BY <1>2, <1>3, <1>4, PartsNext

(* One run moves on and nothing else happens.                                *)
LEMMA OneMovesAlone ==
  ASSUME ServiceInv, NEW c \in Calls, NEW new \in Run, Becomes(c, new), RunAgrees(c)',
         UNCHANGED <<dirVars, memory, forgotten, scope, shown, verdict, changes>>,
         UNCHANGED <<minted, obtained>>,
         runs' \in 0..MaxCalls, faults' \in 0..MaxFaults
  PROVE  ServiceInv'
<1>1. Stored' /\ MemoriesStay
  BY StoreRests
<1>2. MintedAgrees' /\ Bounded'
  BY Parts DEF MintedAgrees, Bounded
<1> QED  BY <1>1, <1>2, OneMoves

LEMMA Struck == ASSUME ServiceInv, Strikes PROVE faults' \in 0..MaxFaults
BY ProbeAssumption, Parts DEF Bounded, Strikes

LEMMA BoundsRest ==
  ASSUME ServiceInv
  PROVE  /\ UNCHANGED runs => runs' \in 0..MaxCalls
         /\ UNCHANGED faults => faults' \in 0..MaxFaults
BY Parts DEF Bounded

(* The record of a run that is about to step.                                *)
LEMMA ARun ==
  ASSUME ServiceInv, NEW c \in Calls
  PROVE  call[c] \in Run /\ RunAgrees(c)
BY Parts

LEMMA Became ==
  ASSUME ServiceInv, NEW c \in Calls, NEW new, Becomes(c, new)
  PROVE  call'[c] = new
BY Parts DEF Becomes

LEMMA Lengths == /\ Len(Scenario["forget"]) = 4 /\ Len(Scenario["confirm"]) = 2
                 /\ \A i \in 1..4 : Scenario["forget"][i] = <<"remember", "confirm", "summarise", "forget">>[i]
                 /\ \A i \in 1..2 : Scenario["confirm"][i] = <<"pending", "confirm">>[i]
BY DEF Scenario

-----------------------------------------------------------------------------
(* Asking, failing, giving up and answering.                                 *)

LEMMA NoCallIsARun ==
  /\ NoCall \in Run
  /\ \A e \in Known, r \in 0..MaxCalls, a \in Nat :
       [NoCall EXCEPT !.entry = e, !.run = r, !.answer = a, !.waiting = TRUE, !.pc = "token"] \in Run
<1>1. 0 \in 0..MaxCalls /\ 0 \in 0..MaxPages /\ 1 \in 1..4
  BY ProbeAssumption
<1>2. Start \in (Names \cup {0}) \X (Customers \cup {0})
  BY DEF Start
<1> HIDE DEF Start
<1>3. NoCall \in Run
  BY <1>1, <1>2 DEF NoCall, Run
<1>4. ASSUME NEW e \in Known, NEW r \in 0..MaxCalls, NEW a \in Nat
      PROVE  [NoCall EXCEPT !.entry = e, !.run = r, !.answer = a, !.waiting = TRUE, !.pc = "token"]
               \in Run
  BY <1>3 DEF Run
<1> QED  BY <1>3, <1>4

LEMMA AskKeeps ==
  ASSUME ServiceInv, NEW c \in Calls, NEW entry \in Entries, NEW answer \in shown \cup {0},
         Ask(c, entry, answer)
  PROVE  ServiceInv'
<1>1. runs + 1 \in 1..MaxCalls /\ runs' = runs + 1
  BY ProbeAssumption, Parts DEF Bounded, Ask
<1>2. answer \in Nat
  BY Parts DEF Stored, ShownAgree
<1>3. entry \in Known
  BY ProbeAssumption
<1>4. PICK new : new = [NoCall EXCEPT !.entry = entry, !.run = runs + 1, !.answer = answer,
                                      !.waiting = TRUE, !.pc = "token"]
  OBVIOUS
<1>5. /\ new.entry = entry /\ new.run = runs + 1 /\ new.pc = "token"
      /\ new.position = Start /\ new.seen = {} /\ new.twice = {} /\ new.pages = 0
      /\ new.captured = 0 /\ new.step = 1
      /\ new.held = "" /\ new.token = "" /\ new.reached = "" /\ new.status = ""
      /\ new.answer = answer /\ new \in Run
  <2>1. runs + 1 \in 0..MaxCalls
    BY <1>1
  <2>2. new \in Run
    BY <1>2, <1>3, <1>4, <2>1, NoCallIsARun
  <2> QED  BY <1>4, <2>2 DEF NoCall
<1>6. Becomes(c, new)
  BY <1>4 DEF Ask
<1>7. call'[c] = new
  BY <1>6, Became
<1>8. UNCHANGED <<dirVars, memory, forgotten, scope, shown, verdict, changes, minted, obtained, faults>>
  BY DEF Ask
<1>9. RunAgrees(c)'
  BY <1>1, <1>3, <1>5, <1>7, <1>8
     DEF RunAgrees, AtItsEntry, WalkAgrees, ScenarioAgrees, TokenAgrees, Obtaining, Delegated
<1>10. runs' \in 0..MaxCalls /\ faults' \in 0..MaxFaults
  BY <1>1, <1>8, BoundsRest
<1> HIDE DEF Run
<1> QED  BY <1>5, <1>6, <1>8, <1>9, <1>10, OneMovesAlone

LEMMA GetTokenKeeps ==
  ASSUME ServiceInv, NEW c \in Calls, GetToken(c)
  PROVE  ServiceInv'
<1>1. PICK k \in Run : k = call[c]
  BY ARun
<1>2. PICK new : new = [k EXCEPT !.pc = FirstStep(k.entry),
                                 !.steady = IF k.entry = "search" THEN Found ELSE {}]
  OBVIOUS
<1>3. /\ k.pc = "token" /\ k.entry \in Known /\ k.run \in 1..MaxCalls
      /\ k.position = Start /\ k.seen = {} /\ k.twice = {} /\ k.pages = 0
      /\ k.captured = 0 /\ k.step = 1
      /\ k.held = "" /\ k.token = "" /\ k.reached = "" /\ k.status = ""
      /\ k.answer \in shown \cup {0}
  BY <1>1, ARun DEF GetToken, RunAgrees, AtItsEntry, ScenarioAgrees
<1>4. Becomes(c, new)
  BY <1>1, <1>2 DEF GetToken
<1>5. Found \in SUBSET Customers
  BY DEF Found, After
<1>6. /\ FirstStep(k.entry) \in {"page", "step"} \cup Delegated
      /\ FirstStep(k.entry) = "page" <=> k.entry = "search"
      /\ FirstStep(k.entry) = "step" => k.entry \in {"forget", "confirm"}
      /\ FirstStep(k.entry) \in Delegated => k.entry \in Delegated
      /\ FirstStep(k.entry) = "gateway" => k.entry = "gateway"
  BY <1>3 DEF FirstStep, Known, Delegated
<1>7. /\ new.entry = k.entry /\ new.run = k.run /\ new.pc = FirstStep(k.entry)
      /\ new.position = Start /\ new.seen = {} /\ new.twice = {} /\ new.pages = 0
      /\ new.captured = 0 /\ new.step = 1 /\ new.reached = ""
      /\ k.entry = "search" => new.steady = After(Start)
      /\ new.answer = k.answer /\ new \in Run
  <2>1. new.pc = FirstStep(k.entry) /\ new.steady \in SUBSET Customers
        /\ (k.entry = "search" => new.steady = After(Start))
    BY <1>2, <1>5 DEF Run, Found
  <2>2. new = [k EXCEPT !.pc = new.pc, !.steady = new.steady]
    BY <1>2, <2>1
  <2> HIDE DEF FirstStep
  <2>3. PICK pc \in {"page", "step"} \cup Delegated, steady \in SUBSET Customers :
          pc = new.pc /\ steady = new.steady
    BY <1>6, <2>1
  <2>4. new = [k EXCEPT !.pc = pc, !.steady = steady]
    BY <2>2, <2>3
  <2>5. /\ new.entry = k.entry /\ new.run = k.run
        /\ new.position = k.position /\ new.seen = k.seen /\ new.twice = k.twice
        /\ new.pages = k.pages /\ new.captured = k.captured /\ new.step = k.step
        /\ new.reached = k.reached /\ new.answer = k.answer
    BY <2>4 DEF Run
  <2>6. new \in Run
    BY <2>4 DEF Run
  <2> QED  BY <1>3, <2>1, <2>5, <2>6
<1>8. call'[c] = new
  BY <1>4, Became
<1>9. UNCHANGED <<dirVars, memory, forgotten, scope, shown, verdict, changes, minted, obtained,
                  runs, faults>>
  BY DEF GetToken
<1>10. RunAgrees(c)'
  <2>1. AtItsEntry(c)'
    <3>1. 0 < MaxPages
      BY ProbeAssumption
    <3>2. FirstStep(k.entry) \notin {"token", "again", "clear", "update", "api"}
      BY <1>6 DEF Delegated
    <3>3. FirstStep(k.entry) = "step" => 1 <= Len(Scenario[k.entry])
      <4>1. \A e \in {"forget", "confirm"} : 1 <= Len(Scenario[e])
        BY Lengths
      <4> QED  BY <1>6, <4>1
    <3> HIDE DEF FirstStep
    <3> QED  BY <1>3, <1>6, <1>7, <1>8, <3>1, <3>2, <3>3 DEF AtItsEntry, Obtaining
  <2>2. WalkAgrees(c)'
    BY <1>6, <1>7, <1>8, <1>9 DEF WalkAgrees, After, Key, dirVars, Delegated
  <2>3. ScenarioAgrees(c)' /\ TokenAgrees(c)'
    BY <1>3, <1>6, <1>7, <1>8, <1>9 DEF ScenarioAgrees, TokenAgrees, Delegated
  <2> QED  BY <2>1, <2>2, <2>3 DEF RunAgrees
<1> QED  BY <1>4, <1>7, <1>9, <1>10, BoundsRest, OneMovesAlone

LEMMA RunFailsKeeps ==
  ASSUME ServiceInv, NEW c \in Calls, RunFails(c)
  PROVE  ServiceInv'
<1>1. PICK k \in Run : k = call[c]
  BY ARun
<1>2. PICK sent \in Tokens \cup {""}, token \in Tokens \cup {""} :
        /\ Becomes(c, [k EXCEPT !.pc = "failed", !.status = "failed", !.reached = sent,
                                !.token = token])
        /\ token # "" => sent \in {"", token}
        /\ k.pc # "idle"
  <2>1. PICK sent \in MayHaveReached(k) :
          Becomes(c, [k EXCEPT !.pc = "failed", !.status = "failed", !.reached = sent,
                               !.token = IF k.pc = "api" THEN RowToken(k) ELSE ""])
    BY <1>1 DEF RunFails
  <2>2. k.pc # "idle"
    BY <1>1 DEF RunFails, Delegated
  <2>3. k.held \in Tokens \cup {""}
    BY DEF Run
  <2>4. CASE k.pc = "api"
    <3>1. sent \in {"", k.held}
      BY <2>1, <2>4 DEF MayHaveReached
    <3> QED  BY <2>1, <2>2, <2>3, <2>4, <3>1 DEF RowToken
  <2>5. CASE k.pc # "api"
    <3>1. sent \in {"", "own", "gateway", "passthrough"}
      BY <2>1, <2>5 DEF MayHaveReached
    <3> QED  BY <2>1, <2>2, <2>5, <3>1 DEF Tokens
  <2> QED  BY <2>4, <2>5
<1>3. PICK new : new = [k EXCEPT !.pc = "failed", !.status = "failed", !.reached = sent,
                                 !.token = token]
  OBVIOUS
<1>4. /\ new.pc = "failed" /\ new.status = "failed" /\ new.reached = sent /\ new.token = token
      /\ new.entry = k.entry /\ new.run = k.run /\ new.twice = k.twice
      /\ new.captured = k.captured /\ new.answer = k.answer /\ new \in Run
  BY <1>3 DEF Run
<1>5. Becomes(c, new)
  BY <1>2, <1>3
<1>6. call'[c] = new
  BY <1>5, Became
<1>7. UNCHANGED <<dirVars, memory, forgotten, scope, shown, verdict, changes, minted, obtained, runs>>
  BY DEF RunFails
<1> HIDE DEF Run
<1>8. RunAgrees(c)'
  <2>1. AtItsEntry(c) /\ WalkAgrees(c) /\ ScenarioAgrees(c)
    BY ARun DEF RunAgrees
  <2>2. AtItsEntry(c)'
    BY <1>1, <1>2, <1>4, <1>6, <2>1 DEF AtItsEntry, Obtaining, Delegated
  <2>3. WalkAgrees(c)'
    BY <1>1, <1>4, <1>6, <2>1 DEF WalkAgrees
  <2>4. ScenarioAgrees(c)'
    BY <1>1, <1>4, <1>6, <1>7, <2>1 DEF ScenarioAgrees
  <2>5. TokenAgrees(c)'
    BY <1>2, <1>4, <1>6 DEF TokenAgrees, Told, Delegated
  <2> QED  BY <2>2, <2>3, <2>4, <2>5 DEF RunAgrees
<1>9. faults' \in 0..MaxFaults
  BY Struck DEF RunFails
<1> QED  BY <1>4, <1>5, <1>7, <1>8, <1>9, BoundsRest, OneMovesAlone

-----------------------------------------------------------------------------
(* What an observation shows.                                                *)

LEMMA MemoriesAre ==
  ASSUME MemoryAgrees
  PROVE  /\ Len(memory) \in Nat /\ DOMAIN memory = 1..Len(memory)
         /\ \A r \in 1..Len(memory) : memory[r] \in MemoryRow
         /\ Len(forgotten) \in Nat
         /\ \A j \in 1..Len(forgotten) : forgotten[j] \in 1..Len(memory)
<1>1. memory \in Seq(MemoryRow) /\ forgotten \in Seq(1..Len(memory))
  BY DEF MemoryAgrees
<1>2. Len(memory) \in Nat /\ DOMAIN memory = 1..Len(memory) /\ Len(forgotten) \in Nat
  BY <1>1, LenProperties
<1>3. \A r \in 1..Len(memory) : memory[r] \in MemoryRow
  BY <1>1, ElementOfSeq
<1>4. \A j \in 1..Len(forgotten) : forgotten[j] \in 1..Len(memory)
  BY <1>1, ElementOfSeq
<1> QED  BY <1>2, <1>3, <1>4

LEMMA Families ==
  ASSUME MemoryAgrees, NEW j \in 1..Len(forgotten), NEW r \in Family(forgotten[j])
  PROVE  r \in 1..Len(memory) /\ RootOf(r) = forgotten[j]
BY DEF MemoryAgrees, Family, RootOf

LEMMA TargetsAre ==
  ASSUME MemoryAgrees
  PROVE  Targets = {forgotten[i] : i \in {j \in 1..Len(forgotten) : j > Len(forgotten) - ShownForgotten}}
BY DEF Targets, LastOfSeq

LEMMA ReadsKeep ==
  ASSUME ServiceInv, NEW c \in Calls, UNCHANGED <<memory, forgotten>>,
         Reads(c) \/ UNCHANGED <<shown, verdict>>
  PROVE  Stored' /\ MemoriesStay /\ shown \subseteq shown'
<1>1. MemoryAgrees /\ ShownAgree
  BY Parts DEF Stored
<1>2. CASE UNCHANGED shown
  <2>1. MemoryAgrees'
    BY <1>1 DEF MemoryAgrees, RunsForgetTheirOwn
  <2>2. ShownAgree'
    BY <1>1, <1>2 DEF ShownAgree, RootOf
  <2>3. Len(memory) \in Nat
    BY <1>1, MemoriesAre
  <2> QED  BY <1>2, <2>1, <2>2, <2>3 DEF Stored, MemoriesStay
<1>3. CASE shown' = shown \cup Survivors
  <2>1. \A r \in Survivors : r \in 1..Len(memory) /\ \E j \in 1..Len(forgotten) : forgotten[j] = RootOf(r)
    BY <1>1, Families, TargetsAre DEF Survivors
  <2>2. ShownAgree'
    BY <1>1, <1>3, <2>1 DEF ShownAgree, RootOf
  <2>3. MemoryAgrees'
    BY <1>1 DEF MemoryAgrees, RunsForgetTheirOwn
  <2>4. Len(memory) \in Nat
    BY <1>1, MemoriesAre
  <2> QED  BY <1>3, <2>2, <2>3, <2>4 DEF Stored, MemoriesStay
<1> QED  BY <1>2, <1>3 DEF Reads

LEMMA ReadingMoves ==
  ASSUME ServiceInv, NEW c \in Calls, NEW new \in Run, Becomes(c, new), RunAgrees(c)',
         Reads(c) \/ UNCHANGED <<shown, verdict>>,
         UNCHANGED <<dirVars, memory, forgotten, scope, minted, obtained, runs, changes>>,
         faults' \in 0..MaxFaults
  PROVE  ServiceInv'
<1>1. Stored' /\ MemoriesStay /\ shown \subseteq shown'
  BY ReadsKeep
<1>2. MintedAgrees' /\ Bounded'
  BY Parts DEF MintedAgrees, Bounded
<1> QED  BY <1>1, <1>2, OneMoves

LEMMA GivesUpKeeps ==
  ASSUME ServiceInv, NEW c \in Calls, GivesUp(c)
  PROVE  ServiceInv'
<1>1. PICK k \in Run : k = call[c]
  BY ARun
<1>2. PICK new : new = [k EXCEPT !.waiting = FALSE]
  OBVIOUS
<1>3. /\ new.pc = k.pc /\ new.entry = k.entry /\ new.run = k.run /\ new.answer = k.answer
      /\ new.position = k.position /\ new.seen = k.seen /\ new.steady = k.steady
      /\ new.twice = k.twice /\ new.pages = k.pages /\ new.refused = k.refused
      /\ new.step = k.step /\ new.captured = k.captured
      /\ new.held = k.held /\ new.token = k.token /\ new.reached = k.reached
      /\ new.status = k.status /\ new \in Run
  BY <1>2 DEF Run
<1>4. Becomes(c, new)
  BY <1>1, <1>2 DEF GivesUp
<1>5. call'[c] = new
  BY <1>4, Became
<1>6. /\ UNCHANGED <<dirVars, memory, forgotten, scope, minted, obtained, runs, changes>>
      /\ Reads(c) \/ UNCHANGED <<shown, verdict>>
  BY DEF GivesUp
<1>7. shown \subseteq shown'
  BY <1>6, ReadsKeep
<1> HIDE DEF Run
<1>8. RunAgrees(c)'
  <2>0. AtItsEntry(c) /\ WalkAgrees(c) /\ ScenarioAgrees(c) /\ TokenAgrees(c)
    BY ARun DEF RunAgrees
  <2>1. AtItsEntry(c)'
    BY <1>1, <1>3, <1>5, <2>0 DEF AtItsEntry
  <2>2. WalkAgrees(c)'
    <3>1. UNCHANGED directory /\ \A x : Key(x)' = Key(x)
      BY <1>6 DEF dirVars, Key
    <3>2. /\ new.pc = k.pc /\ new.entry = k.entry
          /\ new.position = k.position /\ new.seen = k.seen /\ new.steady = k.steady
          /\ new.twice = k.twice /\ new.pages = k.pages /\ new.refused = k.refused
      BY <1>3
    <3> QED  BY <1>1, <1>5, <2>0, <3>1, <3>2 DEF WalkAgrees
  <2>3. ScenarioAgrees(c)'
    BY <1>1, <1>3, <1>5, <1>6, <1>7, <2>0 DEF ScenarioAgrees
  <2>4. TokenAgrees(c)'
    <3>1. /\ new.pc = k.pc /\ new.entry = k.entry /\ new.run = k.run
          /\ new.held = k.held /\ new.token = k.token /\ new.reached = k.reached
          /\ new.status = k.status /\ UNCHANGED obtained
      BY <1>3, <1>6
    <3> QED  BY <1>1, <1>5, <2>0, <3>1 DEF TokenAgrees, Told
  <2> QED  BY <2>1, <2>2, <2>3, <2>4 DEF RunAgrees
<1>9. faults' \in 0..MaxFaults
  BY Struck DEF GivesUp
<1> QED  BY <1>3, <1>4, <1>6, <1>8, <1>9, ReadingMoves

LEMMA IdleAgreesNow ==
  ASSUME NEW c \in Calls, call'[c] = NoCall
  PROVE  NoCall \in Run /\ RunAgrees(c)'
<1>1. NoCall \in Run
  BY NoCallIsARun
<1>2. NoCall.pc = "idle" /\ NoCall.entry = "none" /\ NoCall.answer = 0
  BY DEF NoCall
<1>3. RunAgrees(c)'
  BY <1>2 DEF RunAgrees, AtItsEntry, WalkAgrees, ScenarioAgrees, TokenAgrees, Obtaining, Delegated
<1> QED  BY <1>1, <1>3

LEMMA AnsweredKeeps ==
  ASSUME ServiceInv, NEW c \in Calls, Answered(c)
  PROVE  ServiceInv'
<1>1. Becomes(c, NoCall) /\ UNCHANGED faults
  BY DEF Answered
<1>2. call'[c] = NoCall
  BY <1>1, Became
<1>3. NoCall \in Run /\ RunAgrees(c)'
  BY <1>2, IdleAgreesNow
<1>4. /\ UNCHANGED <<dirVars, memory, forgotten, scope, minted, obtained, runs, changes>>
      /\ Reads(c) \/ UNCHANGED <<shown, verdict>>
  BY DEF Answered
<1> QED  BY <1>1, <1>3, <1>4, BoundsRest, ReadingMoves

-----------------------------------------------------------------------------
(* Walking through the pages.                                                *)

(* A page carries the walk on: what it shows is new, and together with what  *)
(* was seen it is every unchanged row up to the next cursor, or every one.   *)
LEMMA PageShows ==
  ASSUME DirectoryTypeOK, searcher,
         NEW position \in (Names \cup {0}) \X (Customers \cup {0}),
         NEW seen \in SUBSET Customers, NEW steady \in SUBSET Customers,
         NEW answer, answer = Search(position),
         \A x \in steady : directory[x] \in Matching /\ (x \in seen <=> ~Before(position, Key(x)))
  PROVE  /\ answer.status = 200 /\ answer.rows \subseteq Customers
         /\ answer.next \in (Names \cup {0}) \X (Customers \cup {0})
         /\ seen \cap answer.rows \cap steady = {}
         /\ answer.next = Start => steady \subseteq seen \cup answer.rows
         /\ answer.next # Start =>
              \A x \in steady : x \in seen \cup answer.rows <=> ~Before(answer.next, Key(x))
<1>1. position \in Nat \X Nat
  <2>1. Names \cup {0} \subseteq Nat /\ Customers \cup {0} \subseteq Nat
    BY DirectoryAssumption
  <2> QED  BY <2>1
<1>2. /\ answer.rows \subseteq After(position) /\ answer.status = 200
      /\ answer.next = Start => answer.rows = After(position)
      /\ answer.next = Start \/ \E m \in answer.rows :
           /\ answer.next = Key(m) /\ answer.next # Start
           /\ \A d \in After(position) : d \in answer.rows <=> d = m \/ Before(Key(d), Key(m))
  BY <1>1, SearchShows
<1>3. /\ \A c \in Customers : Key(c) \in Nat \X Nat /\ ~Before(Key(c), Key(c))
      /\ \A c, d \in Customers : c # d => Before(Key(c), Key(d)) \/ Before(Key(d), Key(c))
      /\ \A k, l, m \in Nat \X Nat : Before(k, l) /\ Before(l, m) => Before(k, m)
      /\ \A k, l \in Nat \X Nat : Before(k, l) => ~Before(l, k)
  BY KeysOrdered
<1>4. \A x \in Customers : x \in After(position) <=> directory[x] \in Matching /\ Before(position, Key(x))
  BY DEF After
<1>5. answer.rows \subseteq Customers /\ After(position) \subseteq Customers
  BY <1>2 DEF After
<1>6. answer.next \in (Names \cup {0}) \X (Customers \cup {0})
  <2>1. Start \in (Names \cup {0}) \X (Customers \cup {0})
    BY DEF Start
  <2>2. \A m \in Customers : Key(m) \in (Names \cup {0}) \X (Customers \cup {0})
    <3>1. directory \in [Customers -> Names \cup {0}]
      BY DEF DirectoryTypeOK, Gone
    <3> QED  BY <3>1 DEF Key
  <2> QED  BY <1>2, <1>5, <2>1, <2>2
<1>7. seen \cap answer.rows \cap steady = {}
  BY <1>2, <1>4, <1>5
<1>8. answer.next = Start => steady \subseteq seen \cup answer.rows
  BY <1>2, <1>4
<1>9. ASSUME answer.next # Start, NEW x \in steady
      PROVE  x \in seen \cup answer.rows <=> ~Before(answer.next, Key(x))
  <2>1. PICK m \in answer.rows :
          /\ answer.next = Key(m)
          /\ \A d \in After(position) : d \in answer.rows <=> d = m \/ Before(Key(d), Key(m))
    BY <1>2, <1>9
  <2>2. m \in Customers /\ x \in Customers /\ Before(position, Key(m))
    BY <1>2, <1>4, <1>5
  <2>3. Key(m) \in Nat \X Nat /\ Key(x) \in Nat \X Nat
    BY <1>3, <2>2
  <2>4. ASSUME x \in seen PROVE ~Before(Key(m), Key(x))
    <3>1. Before(position, Key(m)) /\ Before(Key(m), Key(x)) => Before(position, Key(x))
      BY <1>1, <1>3, <2>3
    <3> QED  BY <2>2, <2>4, <3>1
  <2>5. ASSUME x \in answer.rows PROVE ~Before(Key(m), Key(x))
    <3>1. x = m \/ Before(Key(x), Key(m))
      BY <1>2, <2>1, <2>5
    <3> QED  BY <1>3, <2>2, <2>3, <3>1
  <2>6. ASSUME ~Before(Key(m), Key(x)), x \notin seen PROVE x \in answer.rows
    <3>1. x \in After(position)
      BY <1>4, <2>2, <2>6
    <3>2. x = m \/ Before(Key(x), Key(m))
      BY <1>3, <2>2, <2>6
    <3> QED  BY <2>1, <3>1, <3>2
  <2> QED  BY <2>1, <2>4, <2>5, <2>6
<1> QED  BY <1>2, <1>5, <1>6, <1>7, <1>8, <1>9

(* What a run that asks for a page knows.                                    *)
LEMMA Asking ==
  ASSUME ServiceInv, NEW c \in Calls, NEW k \in Run, k = call[c], k.pc = "page"
  PROVE  /\ k.entry = "search" /\ k.run \in 1..MaxCalls /\ k.twice = {}
         /\ k.pages \in 0..MaxPages /\ k.pages + 1 \in 0..MaxPages
         /\ k.position \in (Names \cup {0}) \X (Customers \cup {0})
         /\ k.seen \in SUBSET Customers /\ k.steady \in SUBSET Customers
         /\ \A x \in k.steady : directory[x] \in Matching
                                /\ (x \in k.seen <=> ~Before(k.position, Key(x)))
         /\ k.answer \in shown \cup {0}
<1>1. k.entry = "search" /\ k.run \in 1..MaxCalls /\ k.pages < MaxPages
  BY ARun DEF RunAgrees, AtItsEntry
<1>2. /\ k.pages \in 0..MaxPages /\ k.seen \in SUBSET Customers /\ k.steady \in SUBSET Customers
      /\ k.position \in (Names \cup {0}) \X (Customers \cup {0})
  BY DEF Run
<1>3. k.pages + 1 \in 0..MaxPages
  BY <1>1, <1>2, ProbeAssumption
<1>4. k.twice = {} /\ \A x \in k.steady : directory[x] \in Matching
                                /\ (x \in k.seen <=> ~Before(k.position, Key(x)))
  BY <1>1, ARun DEF RunAgrees, WalkAgrees
<1>5. k.answer \in shown \cup {0}
  BY ARun DEF RunAgrees, ScenarioAgrees
<1> QED  BY <1>1, <1>2, <1>3, <1>4, <1>5

(* A walk that ends with a refusal claims nothing.                           *)
LEMMA RefusalAgrees ==
  ASSUME ServiceInv, NEW c \in Calls, NEW k \in Run, k = call[c], k.pc = "page",
         NEW new, new = [k EXCEPT !.pages = k.pages + 1, !.refused = TRUE, !.pc = "done"],
         call'[c] = new, UNCHANGED shown
  PROVE  new \in Run /\ RunAgrees(c)'
<1>1. /\ k.entry = "search" /\ k.run \in 1..MaxCalls /\ k.twice = {} /\ k.pages + 1 \in 0..MaxPages
      /\ k.answer \in shown \cup {0}
  BY Asking
<1>2. /\ new.twice = k.twice /\ new.pc = "done" /\ new.entry = k.entry /\ new.run = k.run
      /\ new.refused /\ new.answer = k.answer /\ new \in Run
  <2>1. PICK pages \in 0..MaxPages : pages = k.pages + 1
    BY <1>1
  <2>2. new = [k EXCEPT !.pages = pages, !.refused = TRUE, !.pc = "done"]
    BY <2>1
  <2>3. /\ new.twice = k.twice /\ new.pc = "done" /\ new.entry = k.entry /\ new.run = k.run
        /\ new.refused /\ new.answer = k.answer
    BY <2>2 DEF Run
  <2>4. new \in Run
    BY <2>2, ZenonT(40) DEF Run
  <2> QED  BY <2>3, <2>4
<1> HIDE DEF Run
<1>3. AtItsEntry(c)'
  BY <1>1, <1>2 DEF AtItsEntry, Obtaining, Known, Delegated
<1>4. WalkAgrees(c)' /\ ScenarioAgrees(c)' /\ TokenAgrees(c)'
  BY <1>1, <1>2 DEF WalkAgrees, ScenarioAgrees, TokenAgrees, Delegated
<1> QED  BY <1>2, <1>3, <1>4 DEF RunAgrees

LEMMA PageKeeps ==
  ASSUME ServiceInv, NEW c \in Calls, Page(c)
  PROVE  ServiceInv'
<1>1. PICK k \in Run : k = call[c]
  BY ARun
<1>2. PICK answer : answer = Search(k.position)
  OBVIOUS
<1>3. /\ k.pc = "page"
      /\ UNCHANGED <<dirVars, memory, forgotten, scope, shown, verdict, changes, minted, obtained>>
      /\ runs' \in 0..MaxCalls /\ faults' \in 0..MaxFaults
  BY <1>1, BoundsRest DEF Page
<1>4. /\ k.entry = "search" /\ k.run \in 1..MaxCalls /\ k.twice = {}
      /\ k.pages \in 0..MaxPages /\ k.pages + 1 \in 0..MaxPages
      /\ k.position \in (Names \cup {0}) \X (Customers \cup {0})
      /\ k.seen \in SUBSET Customers /\ k.steady \in SUBSET Customers
      /\ \A x \in k.steady : directory[x] \in Matching
                             /\ (x \in k.seen <=> ~Before(k.position, Key(x)))
      /\ k.answer \in shown \cup {0}
  BY <1>1, <1>3, Asking
<1>5. DirectoryTypeOK /\ (answer.status = 200 <=> searcher)
  <2>1. k.position \in Nat \X Nat
    <3>1. Names \cup {0} \subseteq Nat /\ Customers \cup {0} \subseteq Nat
      BY DirectoryAssumption
    <3> QED  BY <1>4, <3>1
  <2> QED  BY <1>2, <2>1, Parts, SearchShows
<1> HIDE DEF Run
<1>6. ASSUME answer.status # 200 PROVE ServiceInv'
  <2>1. PICK new : new = [k EXCEPT !.pages = k.pages + 1, !.refused = TRUE, !.pc = "done"]
    OBVIOUS
  <2>2. Becomes(c, new)
    BY <1>1, <1>2, <1>6, <2>1 DEF Page
  <2>3. call'[c] = new
    BY <2>2, Became
  <2>4. new \in Run /\ RunAgrees(c)'
    BY <1>1, <1>3, <2>1, <2>3, RefusalAgrees
  <2> QED  BY <1>3, <2>2, <2>4, OneMovesAlone
<1>7. ASSUME answer.status = 200 PROVE ServiceInv'
  <2>1. /\ answer.rows \subseteq Customers
        /\ answer.next \in (Names \cup {0}) \X (Customers \cup {0})
        /\ k.seen \cap answer.rows \cap k.steady = {}
        /\ answer.next = Start => k.steady \subseteq k.seen \cup answer.rows
        /\ answer.next # Start =>
             \A x \in k.steady : x \in k.seen \cup answer.rows <=> ~Before(answer.next, Key(x))
    <3>1. PICK position \in (Names \cup {0}) \X (Customers \cup {0}),
               seen \in SUBSET Customers, steady \in SUBSET Customers :
            position = k.position /\ seen = k.seen /\ steady = k.steady
      BY <1>4
    <3>2. answer = Search(position) /\ searcher
      BY <1>2, <1>5, <1>7, <3>1
    <3>3. \A x \in steady : directory[x] \in Matching /\ (x \in seen <=> ~Before(position, Key(x)))
      BY <1>4, <3>1
    <3>4. /\ answer.rows \subseteq Customers
          /\ answer.next \in (Names \cup {0}) \X (Customers \cup {0})
          /\ seen \cap answer.rows \cap steady = {}
          /\ answer.next = Start => steady \subseteq seen \cup answer.rows
          /\ answer.next # Start =>
               \A x \in steady : x \in seen \cup answer.rows <=> ~Before(answer.next, Key(x))
      BY <1>5, <3>2, <3>3, PageShows
    <3> QED  BY <3>1, <3>4
  <2>2. PICK pc \in {"page", "done"} :
          pc = IF answer.next = Start \/ AtCeiling(k.pages + 1) THEN "done" ELSE "page"
    OBVIOUS
  <2>3. PICK new : new = [k EXCEPT !.pages = k.pages + 1, !.seen = k.seen \cup answer.rows,
                                   !.twice = {}, !.position = answer.next, !.pc = pc]
    OBVIOUS
  <2>4. Becomes(c, new)
    <3>1. Becomes(c, [k EXCEPT
             !.pages = k.pages + 1, !.seen = k.seen \cup answer.rows,
             !.twice = k.twice \cup (k.seen \cap answer.rows \cap k.steady),
             !.position = answer.next,
             !.pc = IF answer.next = Start \/ AtCeiling(k.pages + 1) THEN "done" ELSE k.pc])
      BY <1>1, <1>2, <1>7 DEF Page
    <3>2. k.twice \cup (k.seen \cap answer.rows \cap k.steady) = {}
      BY <1>4, <2>1
    <3> QED  BY <1>3, <2>2, <2>3, <3>1, <3>2
  <2>5. call'[c] = new
    BY <2>4, Became
  <2>6. k.seen \cup answer.rows \in SUBSET Customers
    BY <1>4, <2>1
  <2>7. /\ new.pages = k.pages + 1 /\ new.seen = k.seen \cup answer.rows /\ new.twice = {}
        /\ new.position = answer.next
        /\ new.pc = pc /\ new.entry = k.entry /\ new.run = k.run /\ new.refused = k.refused
        /\ new.steady = k.steady /\ new.answer = k.answer /\ new.captured = k.captured
        /\ new \in Run
    <3>1. PICK pages \in 0..MaxPages, seen \in SUBSET Customers :
            pages = k.pages + 1 /\ seen = k.seen \cup answer.rows
      BY <1>4, <2>6
    <3>2. PICK position \in (Names \cup {0}) \X (Customers \cup {0}) : position = answer.next
      BY <2>1
    <3>3. new = [k EXCEPT !.pages = pages, !.seen = seen, !.twice = {}, !.position = position,
                          !.pc = pc]
      BY <2>3, <3>1, <3>2
    <3>4. /\ new.pages = pages /\ new.seen = seen /\ new.twice = {} /\ new.position = position
          /\ new.pc = pc /\ new.entry = k.entry /\ new.run = k.run /\ new.refused = k.refused
          /\ new.steady = k.steady /\ new.answer = k.answer /\ new.captured = k.captured
          /\ new \in Run
      BY <3>3 DEF Run
    <3> QED  BY <3>1, <3>2, <3>4
  <2>8. AtItsEntry(c)'
    <3>1. pc = "page" => k.pages + 1 < MaxPages
      BY <1>4, <2>2, ProbeAssumption DEF AtCeiling
    <3> QED  BY <1>4, <2>2, <2>5, <2>7, <3>1 DEF AtItsEntry, Obtaining, Known, Delegated
  <2>9. WalkAgrees(c)'
    <3>1. UNCHANGED directory /\ \A x : Key(x)' = Key(x)
      BY <1>3 DEF dirVars, Key
    <3>2. pc = "page" => /\ answer.next # Start
                         /\ \A x \in k.steady : /\ directory[x] \in Matching
                              /\ (x \in k.seen \cup answer.rows <=> ~Before(answer.next, Key(x)))
      BY <1>4, <2>1, <2>2
    <3>3. pc = "done" => answer.next = Start \/ k.pages + 1 = MaxPages
      BY <2>2 DEF AtCeiling
    <3>4. pc = "page" => \A x \in new.steady : /\ directory'[x] \in Matching
                              /\ (x \in new.seen <=> ~Before(new.position, Key(x)'))
      BY <2>7, <3>1, <3>2
    <3>5. pc = "done" => /\ new.position = Start => new.steady \subseteq new.seen
                         /\ new.position # Start => new.pages = MaxPages
      BY <2>1, <2>7, <3>3
    <3> QED  BY <2>5, <2>7, <3>4, <3>5 DEF WalkAgrees
  <2>10. ScenarioAgrees(c)' /\ TokenAgrees(c)'
    BY <1>3, <1>4, <2>5, <2>7 DEF ScenarioAgrees, TokenAgrees, Delegated
  <2>11. RunAgrees(c)'
    BY <2>8, <2>9, <2>10 DEF RunAgrees
  <2> QED  BY <1>3, <2>4, <2>7, <2>11, OneMovesAlone
<1> QED  BY <1>6, <1>7

LEMMA PageRefusedKeeps ==
  ASSUME ServiceInv, NEW c \in Calls, PageRefused(c)
  PROVE  ServiceInv'
<1>1. PICK k \in Run : k = call[c]
  BY ARun
<1>2. PICK new : new = [k EXCEPT !.pages = k.pages + 1, !.refused = TRUE, !.pc = "done"]
  OBVIOUS
<1>3. Becomes(c, new) /\ k.pc = "page"
  BY <1>1, <1>2 DEF PageRefused
<1>4. call'[c] = new
  BY <1>3, Became
<1>5. UNCHANGED <<dirVars, memory, forgotten, scope, shown, verdict, changes, minted, obtained, runs>>
  BY DEF PageRefused
<1>6. new \in Run /\ RunAgrees(c)'
  BY <1>1, <1>2, <1>3, <1>4, <1>5, RefusalAgrees
<1>7. faults' \in 0..MaxFaults /\ runs' \in 0..MaxCalls
  BY <1>5, Struck, BoundsRest DEF PageRefused
<1> HIDE DEF Run
<1> QED  BY <1>3, <1>5, <1>6, <1>7, OneMovesAlone

(* An edited row is no longer one that stays.                                *)
LEMMA EditKeeps ==
  ASSUME ServiceInv, NEW x \in Customers, NEW name \in Names \cup {Gone}, Edit(x, name)
  PROVE  ServiceInv'
<1>1. /\ UNCHANGED <<memory, forgotten, scope, minted, shown, verdict, obtained, runs, faults, searcher>>
      /\ changes > 0 /\ changes' = changes - 1
      /\ directory' = [directory EXCEPT ![x] = name]
      /\ call' = [k \in Calls |-> [call[k] EXCEPT !.steady = @ \ {x}]]
  BY DEF Edit, Edited
<1>2. DirectoryTypeOK' /\ \A y \in Customers \ {x} : directory'[y] = directory[y] /\ Key(y)' = Key(y)
  BY <1>1, Parts DEF DirectoryTypeOK, Key
<1>3. Stored'
  BY <1>1, StoreRests
<1>4. MintedAgrees' /\ Bounded'
  BY <1>1, Parts, ProbeAssumption DEF MintedAgrees, Bounded
<1>5. ASSUME NEW c \in Calls PROVE call'[c] \in Run /\ RunAgrees(c)'
  <2>1. PICK k \in Run : k = call[c]
    BY ARun
  <2>2. PICK new : new = [k EXCEPT !.steady = k.steady \ {x}]
    OBVIOUS
  <2>3. call'[c] = new
    BY <1>1, <2>1, <2>2
  <2>4. /\ new.pc = k.pc /\ new.entry = k.entry /\ new.run = k.run /\ new.answer = k.answer
        /\ new.position = k.position /\ new.seen = k.seen /\ new.steady = k.steady \ {x}
        /\ new.twice = k.twice /\ new.pages = k.pages /\ new.refused = k.refused
        /\ new.step = k.step /\ new.captured = k.captured
        /\ new.held = k.held /\ new.token = k.token /\ new.reached = k.reached
        /\ new.status = k.status /\ new \in Run /\ k.steady \in SUBSET Customers
    BY <2>2 DEF Run
  <2> HIDE DEF Run
  <2>5. AtItsEntry(c) /\ WalkAgrees(c) /\ ScenarioAgrees(c) /\ TokenAgrees(c)
    BY ARun DEF RunAgrees
  <2>6. AtItsEntry(c)'
    BY <2>1, <2>3, <2>4, <2>5 DEF AtItsEntry
  <2>7. WalkAgrees(c)'
    <3>1. k.entry = "search" => k.twice = {}
      BY <2>1, <2>5 DEF WalkAgrees
    <3>2. k.entry = "search" /\ k.pc = "page" =>
            \A y \in k.steady \ {x} : /\ directory'[y] \in Matching
                                      /\ (y \in k.seen <=> ~Before(k.position, Key(y)'))
      BY <1>2, <2>1, <2>4, <2>5 DEF WalkAgrees
    <3>3. k.entry = "search" /\ k.pc = "done" =>
            /\ ~k.refused /\ k.position = Start => k.steady \ {x} \subseteq k.seen
            /\ ~k.refused /\ k.position # Start => k.pages = MaxPages
      BY <2>1, <2>5 DEF WalkAgrees
    <3> QED  BY <2>3, <2>4, <3>1, <3>2, <3>3 DEF WalkAgrees
  <2>8. ScenarioAgrees(c)'
    <3>1. new.entry = k.entry /\ new.run = k.run /\ new.captured = k.captured /\ new.answer = k.answer
      BY <2>4
    <3>2. ScenarioAgrees(c) /\ UNCHANGED memory /\ UNCHANGED shown
      BY <1>1, <2>5
    <3> QED  BY <2>1, <2>3, <3>1, <3>2 DEF ScenarioAgrees
  <2>9. TokenAgrees(c)'
    <3>1. /\ new.pc = k.pc /\ new.entry = k.entry /\ new.run = k.run
          /\ new.held = k.held /\ new.token = k.token /\ new.reached = k.reached
          /\ new.status = k.status
      BY <2>4
    <3>2. TokenAgrees(c) /\ UNCHANGED obtained
      BY <1>1, <2>5
    <3> QED  BY <2>1, <2>3, <3>1, <3>2 DEF TokenAgrees, Told
  <2> QED  BY <2>3, <2>4, <2>6, <2>7, <2>8, <2>9 DEF RunAgrees
<1>6. call' \in [Calls -> Run]
  <2>1. \A c \in Calls : call'[c] \in Run
    BY <1>5
  <2> QED  BY <1>1, <2>1
<1> QED  BY <1>2, <1>3, <1>4, <1>5, <1>6, PartsNext

-----------------------------------------------------------------------------
(* What happens to the memories.                                             *)

(* One is added, that derives from none or from one of the same run.         *)
LEMMA AddedAgrees ==
  ASSUME Stored, NEW row \in MemoryRow, memory' = Append(memory, row),
         UNCHANGED <<forgotten, shown, verdict>>,
         row.gone = 0,
         row.from # 0 => row.from \in 1..Len(memory) /\ memory[row.from].by = row.by
  PROVE  /\ Stored' /\ MemoriesStay /\ Len(memory') = Len(memory) + 1
         /\ memory'[Len(memory) + 1].by = row.by
<1>1. MemoryAgrees /\ ShownAgree
  BY DEF Stored
<1>2. PICK n \in Nat : n = Len(memory)
  BY <1>1, MemoriesAre
<1>3. memory \in Seq(MemoryRow) /\ forgotten \in Seq(1..n)
  BY <1>1, <1>2 DEF MemoryAgrees
<1>4. /\ memory' \in Seq(MemoryRow) /\ Len(memory') = n + 1
      /\ \A r \in 1..n : memory'[r] = memory[r]
      /\ memory'[n + 1] = row
  BY <1>2, <1>3, AppendProperties
<1>5. \A r \in 1..(n + 1) : r \in 1..n \/ r = n + 1
  BY <1>2
<1>6. forgotten' \in Seq(1..(n + 1))
  <2>1. 1..n \subseteq 1..(n + 1)
    BY <1>2
  <2>2. forgotten \in Seq(1..(n + 1))
    BY <1>3, <2>1, SeqMonotonic
  <2> QED  BY <2>2
<1> HIDE DEF MemoryRow
<1>7. ASSUME NEW r \in 1..(n + 1), memory'[r].from # 0
      PROVE  memory'[r].from \in 1..(n + 1) /\ memory'[memory'[r].from].by = memory'[r].by
  <2>1. CASE r \in 1..n
    <3>1. memory[r].from \in 1..n /\ memory[memory[r].from].by = memory[r].by
      BY <1>1, <1>2, <1>4, <1>7, <2>1 DEF MemoryAgrees
    <3> QED  BY <1>2, <1>4, <2>1, <3>1
  <2>2. CASE r = n + 1
    <3>1. row.from \in 1..n /\ memory[row.from].by = row.by
      BY <1>2, <1>4, <1>7, <2>2
    <3> QED  BY <1>2, <1>4, <2>2, <3>1
  <2> QED  BY <1>5, <2>1, <2>2
<1>8. RunsForgetTheirOwn'
  <2>1. \A r \in 1..n : memory[r].gone # 0 => memory[r].gone = memory[r].by
    BY <1>1, <1>2 DEF MemoryAgrees, RunsForgetTheirOwn
  <2> QED  BY <1>4, <1>5, <2>1 DEF RunsForgetTheirOwn
<1>9. \A j \in 1..Len(forgotten) : forgotten[j] \in 1..n /\ memory[forgotten[j]].from = 0
  BY <1>1, <1>2, MemoriesAre DEF MemoryAgrees
<1>10. MemoryAgrees'
  BY <1>4, <1>6, <1>7, <1>8, <1>9 DEF MemoryAgrees
<1>11. ShownAgree'
  <2>1. \A r \in shown : r \in 1..n /\ \E j \in 1..Len(forgotten) : forgotten[j] = RootOf(r)
    BY <1>1, <1>2 DEF ShownAgree
  <2>2. \A r \in 1..n : RootOf(r)' = RootOf(r)
    BY <1>4 DEF RootOf
  <2> QED  BY <1>2, <1>4, <2>1, <2>2 DEF ShownAgree
<1>12. MemoriesStay
  BY <1>2, <1>4 DEF MemoriesStay
<1> QED  BY <1>2, <1>4, <1>10, <1>11, <1>12 DEF Stored

(* Some are marked, none of them as forgotten by a run that did not make it, *)
(* and the list of what was forgotten loses nothing.                         *)
LEMMA MarkedAgrees ==
  ASSUME Stored, memory' \in Seq(MemoryRow), Len(memory') = Len(memory),
         \A r \in 1..Len(memory) :
            /\ memory'[r].from = memory[r].from /\ memory'[r].by = memory[r].by
            /\ memory'[r].gone = memory[r].gone \/ memory'[r].gone = memory[r].by,
         forgotten' \in Seq(1..Len(memory)),
         \A j \in 1..Len(forgotten') : memory[forgotten'[j]].from = 0,
         \A j \in 1..Len(forgotten) : \E i \in 1..Len(forgotten') : forgotten'[i] = forgotten[j],
         UNCHANGED <<shown, verdict>>
  PROVE  Stored' /\ MemoriesStay
<1>1. MemoryAgrees /\ ShownAgree
  BY DEF Stored
<1>2. Len(memory) \in Nat
  BY <1>1, MemoriesAre
<1>3. \A r \in 1..Len(memory) :
        memory[r].from # 0 => /\ memory[r].from \in 1..Len(memory)
                              /\ memory[memory[r].from].by = memory[r].by
  BY <1>1 DEF MemoryAgrees
<1>4. ASSUME NEW r \in 1..Len(memory'), memory'[r].from # 0
      PROVE  memory'[r].from \in 1..Len(memory') /\ memory'[memory'[r].from].by = memory'[r].by
  <2>1. r \in 1..Len(memory) /\ memory'[r].from = memory[r].from /\ memory'[r].by = memory[r].by
    BY <1>4
  <2>2. memory[r].from \in 1..Len(memory) /\ memory[memory[r].from].by = memory[r].by
    BY <1>3, <1>4, <2>1
  <2>3. memory'[memory[r].from].by = memory[memory[r].from].by
    BY <2>2
  <2> QED  BY <2>1, <2>2, <2>3
<1>5. RunsForgetTheirOwn'
  BY <1>1 DEF MemoryAgrees, RunsForgetTheirOwn
<1>6. \A j \in 1..Len(forgotten') : forgotten'[j] \in 1..Len(memory)
  BY ElementOfSeq
<1>7. MemoryAgrees'
  BY <1>4, <1>5, <1>6 DEF MemoryAgrees
<1>8. ShownAgree'
  <2>1. \A r \in 1..Len(memory) : RootOf(r)' = RootOf(r)
    BY DEF RootOf
  <2>2. \A r \in shown : r \in 1..Len(memory) /\ \E j \in 1..Len(forgotten) : forgotten[j] = RootOf(r)
    BY <1>1 DEF ShownAgree
  <2> QED  BY <2>1, <2>2 DEF ShownAgree
<1> QED  BY <1>2, <1>7, <1>8 DEF Stored, MemoriesStay

LEMMA SameList ==
  ASSUME Stored, UNCHANGED forgotten
  PROVE  /\ forgotten' \in Seq(1..Len(memory))
         /\ \A j \in 1..Len(forgotten') : memory[forgotten'[j]].from = 0
         /\ \A j \in 1..Len(forgotten) : \E i \in 1..Len(forgotten') : forgotten'[i] = forgotten[j]
BY DEF Stored, MemoryAgrees

(* memory-init completes what was left half forgotten.                       *)
LEMMA CompleteForgetsStore ==
  ASSUME ServiceInv, CompleteForgets
  PROVE  Stored' /\ MemoriesStay /\ Len(memory') = Len(memory)
<1>1. Stored /\ MemoryAgrees
  BY Parts DEF Stored
<1>2. /\ UNCHANGED <<forgotten, shown, verdict>>
      /\ memory' = [r \in DOMAIN memory |->
           IF memory[r].state = "forgotten" \/ (memory[r].from # 0 /\ ~Live(memory[r].from))
             THEN [memory[r] EXCEPT !.state = "forgotten", !.point = FALSE]
             ELSE memory[r]]
  BY DEF CompleteForgets
<1>3. Len(memory) \in Nat /\ DOMAIN memory = 1..Len(memory)
  BY <1>1, MemoriesAre
<1>4. ASSUME NEW r \in 1..Len(memory)
      PROVE  /\ memory'[r] \in MemoryRow
             /\ memory'[r].from = memory[r].from /\ memory'[r].by = memory[r].by
             /\ memory'[r].gone = memory[r].gone
  <2>1. PICK m \in MemoryRow : m = memory[r]
    BY <1>1, MemoriesAre
  <2>2. memory'[r] = m \/ memory'[r] = [m EXCEPT !.state = "forgotten", !.point = FALSE]
    BY <1>2, <1>3, <2>1
  <2> QED  BY <2>1, <2>2 DEF MemoryRow
<1>5. memory' \in Seq(MemoryRow) /\ Len(memory') = Len(memory)
  <2>1. DOMAIN memory' = DOMAIN memory /\ memory' = [i \in DOMAIN memory |-> memory'[i]]
    BY <1>2
  <2>2. \A i \in DOMAIN memory : memory'[i] \in MemoryRow
    BY <1>3, <1>4
  <2>3. memory \in Seq(MemoryRow)
    BY <1>1 DEF MemoryAgrees
  <2> QED  BY <2>1, <2>2, <2>3, SameShape
<1> QED  BY <1>1, <1>2, <1>4, <1>5, SameList, MarkedAgrees

(* A memory is confirmed.                                                    *)
LEMMA ConfirmStores ==
  ASSUME ServiceInv, NEW id, id \in Unconfirmed,
         memory' = [memory EXCEPT ![id].status = "confirmed"],
         UNCHANGED <<forgotten, shown, verdict>>
  PROVE  Stored' /\ MemoriesStay /\ Len(memory') = Len(memory)
<1>1. Stored /\ MemoryAgrees
  BY Parts DEF Stored
<1>2. Len(memory) \in Nat /\ DOMAIN memory = 1..Len(memory) /\ id \in 1..Len(memory)
  BY <1>1, MemoriesAre DEF Unconfirmed
<1>3. ASSUME NEW r \in 1..Len(memory)
      PROVE  /\ memory'[r] \in MemoryRow
             /\ memory'[r].from = memory[r].from /\ memory'[r].by = memory[r].by
             /\ memory'[r].gone = memory[r].gone
  <2>1. PICK m \in MemoryRow : m = memory[r]
    BY <1>1, MemoriesAre
  <2>2. memory'[r] = m \/ memory'[r] = [m EXCEPT !.status = "confirmed"]
    BY <1>2, <2>1
  <2> QED  BY <2>1, <2>2 DEF MemoryRow
<1>4. memory' \in Seq(MemoryRow) /\ Len(memory') = Len(memory)
  <2>1. DOMAIN memory' = DOMAIN memory /\ memory' = [i \in DOMAIN memory |-> memory'[i]]
    BY <1>2
  <2>2. \A i \in DOMAIN memory : memory'[i] \in MemoryRow
    BY <1>2, <1>3
  <2>3. memory \in Seq(MemoryRow)
    BY <1>1 DEF MemoryAgrees
  <2>4. ASSUME NEW t, t = memory' PROVE t \in Seq(MemoryRow) /\ Len(t) = Len(memory)
    <3>1. /\ DOMAIN t = DOMAIN memory /\ t = [i \in DOMAIN memory |-> t[i]]
          /\ \A i \in DOMAIN memory : t[i] \in MemoryRow
      BY <2>1, <2>2, <2>4
    <3> QED  BY <2>3, <3>1, SameShape
  <2> QED  BY <2>4
<1> QED  BY <1>1, <1>3, <1>4, SameList, MarkedAgrees

LEMMA OverIsRuns == ASSUME ServiceInv PROVE Over \in SUBSET (1..MaxCalls) /\ Over \subseteq 1..runs
<1>1. runs \in 0..MaxCalls
  BY Parts DEF Bounded
<1> QED  BY <1>1, ProbeAssumption DEF Over

(* A run forgets a memory that it made.                                      *)
LEMMA ForgetStores ==
  ASSUME ServiceInv, NEW id, Live(id), NEW run \in 1..MaxCalls, memory[id].by = run,
         memory' = Forgotten(id, run),
         forgotten' = IF memory[id].from = 0 THEN Append(forgotten, id) ELSE forgotten,
         UNCHANGED <<shown, verdict>>
  PROVE  Stored' /\ MemoriesStay /\ Len(memory') = Len(memory)
<1>1. Stored /\ MemoryAgrees
  BY Parts DEF Stored
<1>2. Len(memory) \in Nat /\ DOMAIN memory = 1..Len(memory) /\ id \in 1..Len(memory)
  BY <1>1, MemoriesAre DEF Live
<1>3. \A r \in Removed(id) : r \in 1..Len(memory) /\ memory[r].by = run
  <2>1. \A r \in Family(id) : r \in 1..Len(memory) /\ memory[r].by = run
    BY <1>1, <1>2 DEF Family, MemoryAgrees
  <2> QED  BY <1>2, <2>1 DEF Removed
<1>4. PICK kept \in BOOLEAN, over \in SUBSET (1..MaxCalls) : kept = (scope = "primary") /\ over = Over
  BY OverIsRuns
<1>5. memory' = [r \in DOMAIN memory |->
        IF r \in Removed(id)
          THEN [memory[r] EXCEPT !.state = "forgotten", !.gone = run, !.over = over, !.point = kept]
          ELSE memory[r]]
  BY <1>4 DEF Forgotten
<1>6. ASSUME NEW r \in 1..Len(memory)
      PROVE  /\ memory'[r] \in MemoryRow
             /\ memory'[r].from = memory[r].from /\ memory'[r].by = memory[r].by
             /\ memory'[r].gone = memory[r].gone \/ memory'[r].gone = memory[r].by
  <2>1. PICK m \in MemoryRow : m = memory[r]
    BY <1>1, MemoriesAre
  <2>2. CASE r \in Removed(id)
    <3>1. memory'[r] = [m EXCEPT !.state = "forgotten", !.gone = run, !.over = over,
                                 !.point = kept]
      BY <1>2, <1>5, <2>1, <2>2
    <3>2. run \in 0..MaxCalls /\ m.by = run
      BY <1>3, <2>1, <2>2, ProbeAssumption
    <3> QED  BY <2>1, <3>1, <3>2 DEF MemoryRow
  <2>3. CASE r \notin Removed(id)
    <3>1. memory'[r] = m
      BY <1>2, <1>5, <2>1, <2>3
    <3> QED  BY <2>1, <3>1
  <2> QED  BY <2>2, <2>3
<1>7. memory' \in Seq(MemoryRow) /\ Len(memory') = Len(memory)
  <2>1. DOMAIN memory' = DOMAIN memory /\ memory' = [i \in DOMAIN memory |-> memory'[i]]
    BY <1>5
  <2>2. \A i \in DOMAIN memory : memory'[i] \in MemoryRow
    BY <1>2, <1>6
  <2>3. memory \in Seq(MemoryRow)
    BY <1>1 DEF MemoryAgrees
  <2> QED  BY <2>1, <2>2, <2>3, SameShape
<1>8. /\ forgotten' \in Seq(1..Len(memory))
      /\ \A j \in 1..Len(forgotten') : memory[forgotten'[j]].from = 0
      /\ \A j \in 1..Len(forgotten) : \E i \in 1..Len(forgotten') : forgotten'[i] = forgotten[j]
  <2>1. CASE forgotten' = forgotten
    BY <1>1, <2>1, SameList
  <2>2. CASE memory[id].from = 0 /\ forgotten' = Append(forgotten, id)
    <3>1. forgotten \in Seq(1..Len(memory)) /\ Len(forgotten) \in Nat
      BY <1>1, MemoriesAre DEF MemoryAgrees
    <3>2. /\ forgotten' \in Seq(1..Len(memory)) /\ Len(forgotten') = Len(forgotten) + 1
          /\ \A i \in 1..Len(forgotten) : forgotten'[i] = forgotten[i]
          /\ forgotten'[Len(forgotten) + 1] = id
      BY <1>2, <2>2, <3>1, AppendProperties
    <3>3. \A j \in 1..Len(forgotten) : memory[forgotten[j]].from = 0
      BY <1>1 DEF MemoryAgrees
    <3>4. \A j \in 1..Len(forgotten') : j \in 1..Len(forgotten) \/ j = Len(forgotten) + 1
      BY <3>1, <3>2
    <3>5. \A j \in 1..Len(forgotten) : j \in 1..Len(forgotten')
      BY <3>1, <3>2
    <3> QED  BY <2>2, <3>2, <3>3, <3>4, <3>5
  <2> QED  BY <2>1, <2>2
<1> QED  BY <1>1, <1>6, <1>7, <1>8, MarkedAgrees

-----------------------------------------------------------------------------
(* The steps of a scenario.                                                  *)

LEMMA Ops ==
  ASSUME NEW e \in {"forget", "confirm"}, NEW s \in 1..4, s <= Len(Scenario[e])
  PROVE  /\ Scenario[e][s] \in {"remember", "confirm", "summarise", "forget", "pending"}
         /\ Scenario[e][s] \in {"remember", "summarise", "forget"} => e = "forget"
         /\ Len(Scenario[e]) \in 1..4
<1>1. CASE e = "forget"
  BY <1>1, Lengths
<1>2. CASE e = "confirm"
  <2>1. s \in 1..2
    BY <1>2, Lengths
  <2> QED  BY <1>2, <2>1, Lengths
<1> QED  BY <1>1, <1>2

LEMMA LatestIsNat ==
  ASSUME MemoryAgrees
  PROVE  LatestOf(Unconfirmed) \in Nat
<1>1. PICK n \in Nat : n = Len(memory)
  BY MemoriesAre
<1>2. PICK S : S = Unconfirmed
  OBVIOUS
<1>3. \A x \in S : x \in 1..n
  BY <1>1, <1>2 DEF Unconfirmed
<1>4. CASE S = {}
  BY <1>2, <1>4 DEF LatestOf
<1>5. CASE S # {}
  <2> DEFINE T == {n - x : x \in S}
  <2>1. T \in SUBSET Nat /\ T # {}
    BY <1>3, <1>5
  <2>2. \E m \in T : \A k \in T : m <= k
    <3> HIDE DEF T
    <3> QED  BY <2>1, LeastOfNats
  <2>3. \E x \in S : \A y \in S : x >= y
    <3>1. PICK x \in S : \A y \in S : n - x <= n - y
      BY <2>2
    <3> QED  BY <1>3, <3>1
  <2>4. Max(S) \in S
    BY <2>3 DEF Max
  <2> QED  BY <1>2, <1>3, <1>5, <2>4 DEF LatestOf
<1> QED  BY <1>4, <1>5

(* What a run does to the memories: it adds its own, confirms, and forgets   *)
(* its own.                                                                  *)
LEMMA DoesKeeps ==
  ASSUME ServiceInv, NEW op, NEW id, NEW run \in 1..MaxCalls,
         Does(op, id, run) \/ UNCHANGED <<memory, forgotten>>, UNCHANGED <<shown, verdict>>,
         op \in {"summarise", "forget"} /\ Live(id) => memory[id].by = run
  PROVE  /\ Stored' /\ MemoriesStay
         /\ Does(op, id, run) /\ op = "remember" =>
              Len(memory') = Len(memory) + 1 /\ memory'[Len(memory) + 1].by = run
<1>1. Stored /\ MemoryAgrees
  BY Parts DEF Stored
<1>2. ASSUME NEW status \in {"unconfirmed", "confirmed"}, NEW from \in Nat
      PROVE  /\ Record(run, status, from) \in MemoryRow
             /\ Record(run, status, from).gone = 0 /\ Record(run, status, from).by = run
             /\ Record(run, status, from).from = from
  BY ProbeAssumption DEF Record, MemoryRow
<1>3. CASE UNCHANGED <<memory, forgotten>> /\ ~(Does(op, id, run) /\ op = "remember")
  BY <1>3, StoreRests
<1>4. CASE op = "remember" /\ Does(op, id, run)
  <2>1. memory' = Append(memory, Record(run, "unconfirmed", 0)) /\ UNCHANGED forgotten
    BY <1>4 DEF Does
  <2>2. PICK row \in MemoryRow : row = Record(run, "unconfirmed", 0)
    BY <1>2
  <2>3. row.gone = 0 /\ row.by = run /\ row.from = 0
    BY <1>2, <2>2
  <2> QED  BY <1>1, <2>1, <2>2, <2>3, AddedAgrees
<1>5. CASE op = "confirm" /\ id \in Unconfirmed /\ Does(op, id, run)
  <2>1. memory' = [memory EXCEPT ![id].status = "confirmed"] /\ UNCHANGED forgotten
    BY <1>5 DEF Does
  <2> QED  BY <1>5, <2>1, ConfirmStores
<1>6. CASE op = "summarise" /\ Live(id) /\ Does(op, id, run)
  <2>1. memory' = Append(memory, Record(run, memory[id].status, id)) /\ UNCHANGED forgotten
    BY <1>6 DEF Does
  <2>2. id \in 1..Len(memory) /\ memory[id].by = run /\ Len(memory) \in Nat
    BY <1>1, <1>6, MemoriesAre DEF Live
  <2>3. memory[id].status \in {"unconfirmed", "confirmed"}
    BY <1>1, <2>2, MemoriesAre DEF MemoryRow
  <2>4. PICK row \in MemoryRow : row = Record(run, memory[id].status, id)
    BY <1>2, <2>2, <2>3
  <2>5. row.gone = 0 /\ row.by = run /\ row.from = id
    BY <1>2, <2>2, <2>3, <2>4
  <2>6. Stored' /\ MemoriesStay
    BY <1>1, <2>1, <2>2, <2>4, <2>5, AddedAgrees
  <2> QED  BY <1>6, <2>6
<1>7. CASE op = "forget" /\ Live(id) /\ Does(op, id, run)
  <2>1. /\ memory' = Forgotten(id, run)
        /\ forgotten' = IF memory[id].from = 0 THEN Append(forgotten, id) ELSE forgotten
    BY <1>7 DEF Does
  <2>2. memory[id].by = run
    BY <1>7
  <2>3. Stored' /\ MemoriesStay
    BY <1>7, <2>1, <2>2, ForgetStores
  <2> QED  BY <1>7, <2>3
<1>8. CASE Does(op, id, run) /\ op # "remember" /\ ~(op = "confirm" /\ id \in Unconfirmed)
           /\ ~(op \in {"summarise", "forget"} /\ Live(id))
  <2>1. UNCHANGED <<memory, forgotten>>
    BY <1>8 DEF Does
  <2> QED  BY <1>8, <2>1, StoreRests
<1> QED  BY <1>3, <1>4, <1>5, <1>6, <1>7, <1>8

(* What a run knows at a step of its scenario.                               *)
LEMMA Stepping ==
  ASSUME ServiceInv, NEW c \in Calls, NEW k \in Run, k = call[c], k.pc = "step"
  PROVE  /\ k.entry \in {"forget", "confirm"} /\ k.run \in 1..MaxCalls
         /\ k.step \in 1..4 /\ k.step <= Len(Scenario[k.entry]) /\ Len(Scenario[k.entry]) \in 1..4
         /\ Op(k) \in {"remember", "confirm", "summarise", "forget", "pending"}
         /\ Op(k) \in {"remember", "summarise", "forget"} => k.entry = "forget"
         /\ k.captured \in Nat /\ k.answer \in shown \cup {0}
         /\ k.entry = "forget" /\ k.captured # 0 =>
              k.captured \in 1..Len(memory) /\ memory[k.captured].by = k.run
<1>1. AtItsEntry(c) /\ ScenarioAgrees(c)
  BY ARun DEF RunAgrees
<1>2. k.step \in 1..4 /\ k.captured \in Nat
  BY DEF Run
<1> HIDE DEF Run
<1>3. /\ k.entry \in {"forget", "confirm"} /\ k.run \in 1..MaxCalls
      /\ k.step <= Len(Scenario[k.entry])
  BY <1>1 DEF AtItsEntry
<1>4. /\ Op(k) \in {"remember", "confirm", "summarise", "forget", "pending"}
      /\ Op(k) \in {"remember", "summarise", "forget"} => k.entry = "forget"
      /\ Len(Scenario[k.entry]) \in 1..4
  <2>1. PICK e \in {"forget", "confirm"}, s \in 1..4 : e = k.entry /\ s = k.step
    BY <1>2, <1>3
  <2>2. s <= Len(Scenario[e])
    BY <1>3, <2>1
  <2>3. /\ Scenario[e][s] \in {"remember", "confirm", "summarise", "forget", "pending"}
        /\ Scenario[e][s] \in {"remember", "summarise", "forget"} => e = "forget"
        /\ Len(Scenario[e]) \in 1..4
    BY <2>2, Ops
  <2> QED  BY <2>1, <2>3 DEF Op
<1>5. /\ k.answer \in shown \cup {0}
      /\ k.entry = "forget" /\ k.captured # 0 =>
           k.captured \in 1..Len(memory) /\ memory[k.captured].by = k.run
  BY <1>1 DEF ScenarioAgrees
<1> QED  BY <1>2, <1>3, <1>4, <1>5

(* A run whose scenario goes on, with what it has captured.                  *)
LEMMA SteppedAgrees ==
  ASSUME ServiceInv, NEW c \in Calls, NEW k \in Run, k = call[c], k.pc = "step",
         NEW captured \in Nat, NEW new, new = NextStep([k EXCEPT !.captured = captured]),
         call'[c] = new, UNCHANGED shown,
         k.entry = "forget" /\ captured # 0 =>
           captured \in 1..Len(memory') /\ memory'[captured].by = k.run
  PROVE  new \in Run /\ RunAgrees(c)'
<1>1. /\ k.entry \in {"forget", "confirm"} /\ k.run \in 1..MaxCalls
      /\ k.step \in 1..4 /\ k.step <= Len(Scenario[k.entry]) /\ Len(Scenario[k.entry]) \in 1..4
      /\ k.answer \in shown \cup {0}
  BY Stepping
<1>2. PICK k1 : k1 = [k EXCEPT !.captured = captured]
  OBVIOUS
<1>3. /\ k1 \in Run /\ k1.captured = captured /\ k1.pc = "step" /\ k1.entry = k.entry
      /\ k1.run = k.run /\ k1.step = k.step /\ k1.answer = k.answer
  BY <1>2 DEF Run
<1>4. /\ new.captured = captured /\ new.entry = k.entry /\ new.run = k.run /\ new.answer = k.answer
      /\ new.pc \in {"step", "done"}
      /\ new.pc = "step" => new.step <= Len(Scenario[k.entry])
      /\ new \in Run
  <2>1. PICK n \in 1..4, s \in 1..4 : n = Len(Scenario[k.entry]) /\ s = k.step /\ s <= n
    BY <1>1
  <2>2. CASE s = n
    <3>1. new = [k1 EXCEPT !.pc = "done"]
      BY <1>2, <1>3, <2>1, <2>2 DEF NextStep
    <3>2. /\ new.captured = k1.captured /\ new.entry = k1.entry /\ new.run = k1.run
          /\ new.answer = k1.answer /\ new.pc = "done" /\ new \in Run
      <4>1. k1 \in Run
        BY <1>3
      <4>2. new \in Run
        BY <3>1, <4>1, ZenonT(40) DEF Run
      <4> QED  BY <3>1, <4>1, <4>2 DEF Run
    <3> QED  BY <1>3, <3>2
  <2>3. CASE s # n
    <3>1. new = [k1 EXCEPT !.step = k1.step + 1]
      BY <1>2, <1>3, <2>1, <2>3 DEF NextStep
    <3>2. PICK s1 \in 1..4 : s1 = s + 1 /\ s1 <= n
      <4>1. s <= n
        BY <2>1
      <4>2. s + 1 \in 1..4 /\ s + 1 <= n
        BY <2>3, <4>1
      <4> QED  BY <4>2
    <3>3. new = [k1 EXCEPT !.step = s1]
      BY <1>3, <2>1, <3>1, <3>2
    <3>4. /\ new.captured = k1.captured /\ new.entry = k1.entry /\ new.run = k1.run
          /\ new.answer = k1.answer /\ new.pc = k1.pc /\ new.step = s1 /\ new \in Run
      <4>1. k1 \in Run
        BY <1>3
      <4>2. new \in Run
        BY <3>3, <4>1, ZenonT(40) DEF Run
      <4> QED  BY <3>3, <4>1, <4>2 DEF Run
    <3> QED  BY <1>3, <2>1, <3>2, <3>4
  <2> QED  BY <2>2, <2>3
<1> HIDE DEF Run
<1>5. AtItsEntry(c)'
  <2>1. new.entry = k.entry /\ new.run = k.run /\ new.pc \in {"step", "done"}
    BY <1>4
  <2>2. new.entry \in {"forget", "confirm"} /\ new.run \in 1..MaxCalls
    BY <1>1, <2>1
  <2>3. new.pc = "step" => new.step <= Len(Scenario[new.entry])
    BY <1>4, <2>1
  <2>4. new.entry \in Known /\ new.pc \notin Obtaining /\ new.pc \notin {"page", "token", "gateway"}
    BY <2>1, <2>2 DEF Known, Obtaining, Delegated
  <2> QED  BY <2>2, <2>3, <2>4 DEF AtItsEntry
<1>6. WalkAgrees(c)' /\ TokenAgrees(c)'
  BY <1>1, <1>4 DEF WalkAgrees, TokenAgrees, Delegated
<1>7. ScenarioAgrees(c)'
  BY <1>1, <1>4 DEF ScenarioAgrees
<1> QED  BY <1>4, <1>5, <1>6, <1>7 DEF RunAgrees

LEMMA Unrecaptured ==
  ASSUME NEW k \in Run
  PROVE  [k EXCEPT !.captured = k.captured] = k
BY DEF Run

(* What was captured still is a memory of the run.                           *)
LEMMA CapturedStays ==
  ASSUME ServiceInv, NEW c \in Calls, NEW k \in Run, k = call[c], k.pc = "step", MemoriesStay
  PROVE  k.entry = "forget" /\ k.captured # 0 =>
           k.captured \in 1..Len(memory') /\ memory'[k.captured].by = k.run
<1>1. k.entry = "forget" /\ k.captured # 0 =>
        k.captured \in 1..Len(memory) /\ memory[k.captured].by = k.run
  BY Stepping
<1>2. Len(memory) \in Nat
  BY Parts, MemoriesAre DEF Stored
<1> QED  BY <1>1, <1>2 DEF MemoriesStay

(* The hypothesis of DoesKeeps, at a step that is sent.                      *)
LEMMA SentOwn ==
  ASSUME ServiceInv, NEW c \in Calls, NEW k \in Run, k = call[c], k.pc = "step", Sendable(c)
  PROVE  Op(k) \in {"summarise", "forget"} /\ Live(Value(c)) => memory[Value(c)].by = k.run
<1>1. /\ Op(k) \in {"remember", "summarise", "forget"} => k.entry = "forget"
      /\ k.entry = "forget" /\ k.captured # 0 => memory[k.captured].by = k.run
  BY Stepping
<1>2. Op(k) \in {"summarise", "forget"} => k.captured # 0
  BY DEF Sendable, NeedsValue, Value
<1> QED  BY <1>1, <1>2 DEF Value

LEMMA ScenarioKeeps ==
  ASSUME ServiceInv, NEW c \in Calls, Step(c) \/ StepLost(c) \/ SkipStep(c)
  PROVE  ServiceInv'
<1>1. PICK k \in Run : k = call[c]
  BY ARun
<1>2. /\ k.pc = "step" /\ UNCHANGED <<dirVars, scope, minted, shown, verdict, obtained, runs, changes>>
      /\ faults' \in 0..MaxFaults
  BY <1>1, BoundsRest, Struck DEF Step, StepLost, SkipStep
<1>3. MintedAgrees' /\ Bounded'
  BY <1>2, Parts DEF MintedAgrees, Bounded
<1>4. /\ Op(k) \in {"remember", "confirm", "summarise", "forget", "pending"}
      /\ Op(k) \in {"remember", "summarise", "forget"} => k.entry = "forget"
      /\ k.captured \in Nat /\ k.run \in 1..MaxCalls
  BY <1>1, <1>2, Stepping
<1>5. ASSUME MemoriesStay, Stored', NEW captured \in Nat,
             Becomes(c, NextStep([k EXCEPT !.captured = captured])),
             k.entry = "forget" /\ captured # 0 =>
               captured \in 1..Len(memory') /\ memory'[captured].by = k.run
      PROVE  ServiceInv'
  <2>1. PICK new : new = NextStep([k EXCEPT !.captured = captured])
    OBVIOUS
  <2>2. Becomes(c, new)
    BY <1>5, <2>1
  <2>3. call'[c] = new
    BY <2>2, Became
  <2>4. new \in Run /\ RunAgrees(c)'
    BY <1>1, <1>2, <1>5, <2>1, <2>3, SteppedAgrees
  <2> QED  BY <1>2, <1>3, <1>5, <2>2, <2>4, OneMoves
<1>6. ASSUME Becomes(c, NextStep(k)), MemoriesStay, Stored' PROVE ServiceInv'
  <2>1. [k EXCEPT !.captured = k.captured] = k
    BY Unrecaptured
  <2>2. k.entry = "forget" /\ k.captured # 0 =>
          k.captured \in 1..Len(memory') /\ memory'[k.captured].by = k.run
    BY <1>1, <1>2, <1>6, CapturedStays
  <2>3. Becomes(c, NextStep([k EXCEPT !.captured = k.captured]))
    BY <1>6, <2>1
  <2> QED  BY <1>4, <1>5, <1>6, <2>2, <2>3
<1>7. ASSUME SkipStep(c) PROVE ServiceInv'
  <2>1. Becomes(c, NextStep(k)) /\ UNCHANGED <<memory, forgotten>>
    BY <1>1, <1>7 DEF SkipStep
  <2> QED  BY <1>2, <1>6, <2>1, StoreRests
<1>8. ASSUME Sendable(c), Does(Op(k), Value(c), k.run) \/ UNCHANGED <<memory, forgotten>>
      PROVE  /\ Stored' /\ MemoriesStay
             /\ Does(Op(k), Value(c), k.run) /\ Op(k) = "remember" =>
                  Len(memory') = Len(memory) + 1 /\ memory'[Len(memory) + 1].by = k.run
  <2>1. Op(k) \in {"summarise", "forget"} /\ Live(Value(c)) => memory[Value(c)].by = k.run
    BY <1>1, <1>2, <1>8, SentOwn
  <2>2. PICK run \in 1..MaxCalls : run = k.run
    BY <1>4
  <2>3. PICK op : op = Op(k)
    OBVIOUS
  <2>4. PICK id : id = Value(c)
    OBVIOUS
  <2>5. Does(op, id, run) \/ UNCHANGED <<memory, forgotten>>
    BY <1>8, <2>2, <2>3, <2>4
  <2>6. op \in {"summarise", "forget"} /\ Live(id) => memory[id].by = run
    BY <2>1, <2>2, <2>3, <2>4
  <2>7. /\ Stored' /\ MemoriesStay
        /\ Does(op, id, run) /\ op = "remember" =>
             Len(memory') = Len(memory) + 1 /\ memory'[Len(memory) + 1].by = run
    BY <1>2, <2>5, <2>6, DoesKeeps
  <2> QED  BY <2>2, <2>3, <2>4, <2>7
<1>9. ASSUME StepLost(c) PROVE ServiceInv'
  <2>1. /\ Becomes(c, NextStep(k)) /\ Sendable(c)
        /\ Does(Op(k), Value(c), k.run) \/ UNCHANGED <<memory, forgotten>>
    BY <1>1, <1>9 DEF StepLost
  <2> QED  BY <1>6, <1>8, <2>1
<1>10. ASSUME Step(c) PROVE ServiceInv'
  <2>1. /\ Becomes(c, NextStep(Capture(k, Returned(Op(k))))) /\ Sendable(c)
        /\ Does(Op(k), Value(c), k.run)
    BY <1>1, <1>10 DEF Step
  <2>2. /\ Stored' /\ MemoriesStay
        /\ Op(k) = "remember" =>
             Len(memory') = Len(memory) + 1 /\ memory'[Len(memory) + 1].by = k.run
    BY <1>8, <2>1
  <2>3. MemoryAgrees
    BY Parts DEF Stored
  <2>4. Len(memory) \in Nat /\ LatestOf(Unconfirmed) \in Nat
    BY <2>3, MemoriesAre, LatestIsNat
  <2>5. CASE Returned(Op(k)) = 0
    <3>1. Capture(k, Returned(Op(k))) = k
      BY <2>5 DEF Capture
    <3> QED  BY <1>6, <2>1, <2>2, <3>1
  <2>6. CASE Op(k) = "remember"
    <3>1. Returned(Op(k)) = Len(memory) + 1
      BY <2>6 DEF Returned
    <3>2. PICK captured \in Nat : captured = Len(memory) + 1 /\ captured # 0
      BY <2>4
    <3>3. Capture(k, Returned(Op(k))) = [k EXCEPT !.captured = captured]
      BY <3>1, <3>2 DEF Capture
    <3>4. captured \in 1..Len(memory') /\ memory'[captured].by = k.run
      BY <2>2, <2>4, <2>6, <3>2
    <3> QED  BY <1>5, <2>1, <2>2, <3>3, <3>4
  <2>7. CASE Op(k) = "pending" /\ Returned(Op(k)) # 0
    <3>1. PICK captured \in Nat : captured = Returned(Op(k))
      BY <2>4, <2>7 DEF Returned
    <3>2. Capture(k, Returned(Op(k))) = [k EXCEPT !.captured = captured]
      BY <2>7, <3>1 DEF Capture
    <3>3. k.entry # "forget"
      <4>1. k.entry \in {"forget", "confirm"} /\ k.step \in 1..4 /\ k.step <= Len(Scenario[k.entry])
        BY <1>1, <1>2, Stepping
      <4>2. k.entry = "forget" => Op(k) # "pending"
        BY <4>1, Lengths DEF Op
      <4> QED  BY <2>7, <4>2
    <3> QED  BY <1>5, <2>1, <2>2, <3>2, <3>3
  <2>8. Op(k) \notin {"remember", "pending"} => Returned(Op(k)) = 0
    BY <1>4 DEF Returned
  <2> QED  BY <2>5, <2>6, <2>7, <2>8
<1> QED  BY <1>7, <1>9, <1>10

-----------------------------------------------------------------------------
(* The scope of forgetting, and the membership of the searcher.              *)

(* No run moves.                                                             *)
LEMMA NoneMoves ==
  ASSUME ServiceInv, UNCHANGED <<call, directory, minted, obtained, shown, verdict>>,
         DirectoryTypeOK', MemoriesStay, Stored', Bounded'
  PROVE  ServiceInv'
<1>1. call' \in [Calls -> Run] /\ \A c \in Calls : RunAgrees(c)'
  BY Parts, OthersAgree
<1>2. MintedAgrees'
  BY Parts DEF MintedAgrees
<1> QED  BY <1>1, <1>2, PartsNext

LEMMA SurroundingsKeep ==
  ASSUME ServiceInv, ChangeMembership \/ ArmPrimaryOnly \/ RestoreForgetScope \/ CompleteForgets
  PROVE  ServiceInv'
<1>1. /\ UNCHANGED <<call, directory, minted, obtained, shown, verdict>>
      /\ UNCHANGED <<memory, forgotten>> \/ CompleteForgets
  BY DEF ChangeMembership, MembershipChanged, ArmPrimaryOnly, RestoreForgetScope, CompleteForgets,
         probeVars, dirVars
<1>2. DirectoryTypeOK'
  BY Parts DEF ChangeMembership, MembershipChanged, ArmPrimaryOnly, RestoreForgetScope,
               CompleteForgets, dirVars, DirectoryTypeOK
<1>3. Stored' /\ MemoriesStay
  BY <1>1, StoreRests, CompleteForgetsStore
<1>4. Bounded'
  <2>1. /\ UNCHANGED <<runs, faults>> /\ scope' \in {scope, "all", "primary", "restored"}
        /\ changes' = changes \/ (changes > 0 /\ changes' = changes - 1)
    BY DEF ChangeMembership, ArmPrimaryOnly, RestoreForgetScope, CompleteForgets, probeVars
  <2>2. changes' \in 0..MaxChanges
    BY <2>1, Parts, ProbeAssumption DEF Bounded
  <2> QED  BY <2>1, <2>2, Parts DEF Bounded
<1> QED  BY <1>1, <1>2, <1>3, <1>4, NoneMoves

-----------------------------------------------------------------------------
(* Obtaining a token and using it.                                           *)

LEMMA ObtainingAgrees ==
  ASSUME ServiceInv, NEW c \in Calls, NEW k \in Run, k = call[c], k.pc \in Obtaining,
         NEW new, new.entry = k.entry, new.run = k.run, new.answer = k.answer,
         new.pc \in {"clear", "update", "again", "api", "done"},
         call'[c] = new, UNCHANGED shown, TokenAgrees(c)'
  PROVE  RunAgrees(c)'
<1>1. k.entry \in Delegated /\ k.run \in 1..MaxCalls /\ k.answer \in shown \cup {0}
  BY ARun DEF RunAgrees, AtItsEntry, ScenarioAgrees, Obtaining, Delegated
<1>2. new.entry \in Known /\ new.entry # "search" /\ new.entry # "forget"
  BY <1>1 DEF Known, Delegated
<1>3. AtItsEntry(c)' /\ WalkAgrees(c)' /\ ScenarioAgrees(c)'
  BY <1>1, <1>2 DEF AtItsEntry, WalkAgrees, ScenarioAgrees, Obtaining, Delegated
<1> QED  BY <1>3 DEF RunAgrees

(* What the gateway hands over names what it let through.                    *)
LEMMA GatewayKeeps ==
  ASSUME ServiceInv, NEW c \in Calls, Gateway(c)
  PROVE  ServiceInv'
<1>1. PICK k \in Run : k = call[c]
  BY ARun
<1>2. /\ UNCHANGED <<dirVars, memory, forgotten, scope, minted, shown, verdict, runs, faults, changes>>
      /\ k.pc = "gateway" /\ k.pc \in Obtaining
  BY <1>1 DEF Gateway, Delegated, Obtaining
<1>3. PICK how \in {"gateway", "passthrough"} :
        /\ Becomes(c, [k EXCEPT !.pc = "clear", !.held = how, !.token = how, !.reached = how,
                                !.status = "answered"])
        /\ obtained' = obtained \cup {<<k.run, how>>}
  BY <1>1 DEF Gateway
<1>4. PICK new : new = [k EXCEPT !.pc = "clear", !.held = how, !.token = how, !.reached = how,
                                 !.status = "answered"]
  OBVIOUS
<1>5. /\ new.pc = "clear" /\ new.held = how /\ new.token = how /\ new.reached = how
      /\ new.status = "answered"
      /\ new.entry = k.entry /\ new.run = k.run /\ new.answer = k.answer /\ new \in Run
  BY <1>4 DEF Run, Tokens
<1> HIDE DEF Run
<1>6. Becomes(c, new)
  BY <1>3, <1>4
<1>7. call'[c] = new
  BY <1>6, Became
<1>8. TokenAgrees(c)'
  BY <1>3, <1>5, <1>7 DEF TokenAgrees, Delegated
<1>9. RunAgrees(c)'
  BY <1>1, <1>2, <1>5, <1>7, <1>8, ObtainingAgrees
<1>10. Stored' /\ MemoriesStay
  BY <1>2, StoreRests
<1>11. MintedAgrees' /\ Bounded' /\ obtained \subseteq obtained' /\ shown \subseteq shown'
  BY <1>2, <1>3, Parts DEF MintedAgrees, Bounded
<1> QED  BY <1>2, <1>5, <1>6, <1>9, <1>10, <1>11, OneMoves

(* A run that obtains a token by an exchange, its first or its second.       *)
LEMMA ExchangeKeeps ==
  ASSUME ServiceInv, NEW c \in Calls, Exchange(c)
  PROVE  ServiceInv'
<1>1. PICK k \in Run : k = call[c]
  BY ARun
<1>2. /\ UNCHANGED <<dirVars, memory, forgotten, scope, minted, shown, verdict, runs, faults, changes>>
      /\ k.pc \in Delegated \cup {"again"} /\ k.pc \in Obtaining
  BY <1>1 DEF Exchange, Delegated, Obtaining
<1>3. k.entry \in Delegated /\ k.reached = ""
  BY <1>1, <1>2, ARun DEF RunAgrees, AtItsEntry, TokenAgrees
<1>4. PICK how \in {"exchange", "re-exchange"} :
        /\ Becomes(c, [k EXCEPT !.pc = "clear", !.held = how])
        /\ obtained' = obtained \cup {<<k.run, how>>}
  BY <1>1 DEF Exchange, Obtain
<1>5. PICK new : new = [k EXCEPT !.pc = "clear", !.held = how]
  OBVIOUS
<1>6. /\ new.pc = "clear" /\ new.held = how /\ new.reached = k.reached
      /\ new.entry = k.entry /\ new.run = k.run /\ new.answer = k.answer /\ new \in Run
  BY <1>5 DEF Run, Tokens
<1> HIDE DEF Run
<1>7. Becomes(c, new)
  BY <1>4, <1>5
<1>8. call'[c] = new
  BY <1>7, Became
<1>9. TokenAgrees(c)'
  BY <1>3, <1>4, <1>6, <1>8 DEF TokenAgrees, Delegated
<1>10. RunAgrees(c)'
  BY <1>1, <1>2, <1>6, <1>8, <1>9, ObtainingAgrees
<1>11. Stored' /\ MemoriesStay
  BY <1>2, StoreRests
<1>12. MintedAgrees' /\ Bounded' /\ obtained \subseteq obtained' /\ shown \subseteq shown'
  BY <1>2, <1>4, Parts DEF MintedAgrees, Bounded
<1> QED  BY <1>2, <1>6, <1>7, <1>10, <1>11, <1>12, OneMoves

(* A run that ends, with the token it holds, refused one or unanswered.      *)
LEMMA EndsKeeps ==
  ASSUME ServiceInv, NEW c \in Calls,
         Direct(c) \/ BrokerRefuses(c) \/ CallApi(c) \/ GatewayUnavailable(c)
  PROVE  ServiceInv'
<1>1. PICK k \in Run : k = call[c]
  BY ARun
<1>2. /\ UNCHANGED <<dirVars, memory, forgotten, scope, minted, shown, verdict, obtained, runs, changes>>
      /\ k.pc \in Obtaining /\ faults' \in 0..MaxFaults
  BY <1>1, BoundsRest, Struck DEF Direct, BrokerRefuses, CallApi, GatewayUnavailable, Delegated, Obtaining
<1>3. k.entry \in Delegated /\ (k.pc = "gateway" => k.entry = "gateway")
  BY <1>1, <1>2, ARun DEF RunAgrees, AtItsEntry
<1>4. /\ k.pc \in Delegated \cup {"again"} => k.reached = ""
      /\ k.pc = "api" => k.held \in {"exchange", "re-exchange"} /\ k.reached = ""
  BY <1>1, <1>3, ARun DEF RunAgrees, TokenAgrees
<1>5. /\ k.reached \in Tokens \cup {""} /\ k.held \in Tokens \cup {""}
      /\ k = [k EXCEPT !.held = k.held] /\ k = [k EXCEPT !.reached = k.reached]
  BY DEF Run
<1>6. PICK held \in Tokens \cup {""}, token \in Tokens \cup {"", "none"},
           reached \in Tokens \cup {""},
           status \in {"answered", "refused", "unavailable"} :
        /\ Becomes(c, [k EXCEPT !.pc = "done", !.held = held, !.token = token,
                                !.reached = reached, !.status = status])
        /\ \/ status = "answered" /\ token = reached /\ reached # ""
           \/ status = "refused" /\ token = "none" /\ reached = ""
           \/ status = "unavailable" /\ k.entry = "gateway"
  <2>1. CASE Direct(c)
    BY <1>1, <2>1 DEF Direct, Tokens
  <2>2. CASE BrokerRefuses(c)
    <3>1. Becomes(c, [k EXCEPT !.pc = "done", !.token = "none", !.status = "refused"]) /\ k.reached = ""
      BY <1>1, <1>4, <2>2 DEF BrokerRefuses, Delegated
    <3>2. [k EXCEPT !.pc = "done", !.token = "none", !.status = "refused"]
            = [k EXCEPT !.pc = "done", !.held = k.held, !.token = "none", !.reached = k.reached,
                        !.status = "refused"]
      BY DEF Run
    <3>3. PICK own \in Tokens \cup {""}, sent \in Tokens \cup {""} :
            own = k.held /\ sent = k.reached
      BY <1>5
    <3>4. Becomes(c, [k EXCEPT !.pc = "done", !.held = own, !.token = "none", !.reached = sent,
                               !.status = "refused"])
      BY <3>1, <3>2, <3>3
    <3>5. "none" \in Tokens \cup {"", "none"} /\ "refused" \in {"answered", "refused", "unavailable"}
      OBVIOUS
    <3> QED  BY <3>1, <3>3, <3>4, <3>5
  <2>3. CASE CallApi(c)
    <3>1. /\ Becomes(c, [k EXCEPT !.pc = "done", !.token = k.held, !.reached = k.held,
                                  !.status = "answered"])
          /\ k.held \in {"exchange", "re-exchange"}
      BY <1>1, <1>4, <2>3 DEF CallApi, RowToken
    <3>2. [k EXCEPT !.pc = "done", !.token = k.held, !.reached = k.held, !.status = "answered"]
            = [k EXCEPT !.pc = "done", !.held = k.held, !.token = k.held, !.reached = k.held,
                        !.status = "answered"]
      BY DEF Run
    <3>3. CASE k.held = "exchange"
      <4>1. Becomes(c, [k EXCEPT !.pc = "done", !.held = "exchange", !.token = "exchange",
                                 !.reached = "exchange", !.status = "answered"])
        BY <3>1, <3>2, <3>3
      <4> QED  BY <4>1 DEF Tokens
    <3>4. CASE k.held = "re-exchange"
      <4>1. Becomes(c, [k EXCEPT !.pc = "done", !.held = "re-exchange", !.token = "re-exchange",
                                 !.reached = "re-exchange", !.status = "answered"])
        BY <3>1, <3>2, <3>4
      <4> QED  BY <4>1 DEF Tokens
    <3> QED  BY <3>1, <3>3, <3>4
  <2>4. CASE GatewayUnavailable(c)
    <3>1. k.pc = "gateway" /\ k.entry = "gateway"
      BY <1>1, <1>3, <2>4 DEF GatewayUnavailable
    <3>2. MayHaveReached(k) \subseteq Tokens \cup {""}
      BY <3>1 DEF MayHaveReached, Tokens
    <3>3. PICK sent \in Tokens \cup {""} :
            Becomes(c, [k EXCEPT !.pc = "done", !.token = "none", !.reached = sent,
                                 !.status = "unavailable"])
      BY <1>1, <2>4, <3>2 DEF GatewayUnavailable
    <3>4. [k EXCEPT !.pc = "done", !.token = "none", !.reached = sent, !.status = "unavailable"]
            = [k EXCEPT !.pc = "done", !.held = k.held, !.token = "none", !.reached = sent,
                        !.status = "unavailable"]
      BY DEF Run
    <3> QED  BY <1>5, <3>1, <3>3, <3>4
  <2> QED  BY <2>1, <2>2, <2>3, <2>4
<1>7. PICK new : new = [k EXCEPT !.pc = "done", !.held = held, !.token = token,
                                 !.reached = reached, !.status = status]
  OBVIOUS
<1>8. /\ new.pc = "done" /\ new.token = token /\ new.reached = reached /\ new.status = status
      /\ new.entry = k.entry /\ new.run = k.run /\ new.answer = k.answer /\ new \in Run
  BY <1>7 DEF Run
<1> HIDE DEF Run
<1>9. Becomes(c, new)
  BY <1>6, <1>7
<1>10. call'[c] = new
  BY <1>9, Became
<1>11. TokenAgrees(c)'
  BY <1>6, <1>8, <1>10 DEF TokenAgrees, Told, Delegated
<1>12. RunAgrees(c)'
  BY <1>1, <1>2, <1>8, <1>10, <1>11, ObtainingAgrees
<1> QED  BY <1>2, <1>8, <1>9, <1>12, BoundsRest, OneMovesAlone

(* A run that clears what was minted last, or writes its own.                *)
LEMMA RecordsKeep ==
  ASSUME ServiceInv, NEW c \in Calls, Clear(c) \/ Update(c)
  PROVE  ServiceInv'
<1>1. PICK k \in Run : k = call[c]
  BY ARun
<1>2. /\ UNCHANGED <<dirVars, memory, forgotten, scope, shown, verdict, obtained, runs, faults, changes>>
      /\ k.pc \in {"clear", "update"} /\ k.pc \in Obtaining
  BY <1>1 DEF Clear, Update, Obtaining
<1>3. k.entry \in Delegated
  BY <1>1, <1>2, ARun DEF RunAgrees, AtItsEntry
<1>4. /\ <<k.run, k.held>> \in obtained
      /\ \/ /\ k.held \in {"gateway", "passthrough"} /\ k.token = k.held
            /\ k.reached = k.held /\ k.status = "answered"
         \/ k.held \in {"exchange", "re-exchange"} /\ k.reached = ""
  BY <1>1, <1>2, <1>3, ARun DEF RunAgrees, TokenAgrees
<1>5. PICK pc \in {"update", "done", "again", "api"} :
        /\ Becomes(c, [k EXCEPT !.pc = pc])
        /\ pc = "done" => k.held \in {"gateway", "passthrough"}
        /\ pc \in {"again", "api"} => k.held \in {"exchange", "re-exchange"}
  <2>1. CASE Clear(c)
    BY <1>1, <2>1 DEF Clear
  <2>2. CASE Update(c)
    <3>1. Becomes(c, [k EXCEPT !.pc = AfterToken(k)])
      BY <1>1, <2>2 DEF Update
    <3>2. /\ AfterToken(k) \in {"done", "again", "api"}
          /\ AfterToken(k) = "done" => k.held \in {"gateway", "passthrough"}
          /\ AfterToken(k) \in {"again", "api"} => k.held \in {"exchange", "re-exchange"}
      BY <1>4 DEF AfterToken
    <3> QED  BY <3>1, <3>2
  <2> QED  BY <2>1, <2>2
<1>6. PICK new : new = [k EXCEPT !.pc = pc]
  OBVIOUS
<1>7. /\ new.pc = pc /\ new.held = k.held /\ new.token = k.token /\ new.reached = k.reached
      /\ new.status = k.status
      /\ new.entry = k.entry /\ new.run = k.run /\ new.answer = k.answer /\ new \in Run
  BY <1>6 DEF Run
<1> HIDE DEF Run
<1>8. Becomes(c, new)
  BY <1>5, <1>6
<1>9. call'[c] = new
  BY <1>8, Became
<1>10. TokenAgrees(c)'
  BY <1>2, <1>4, <1>5, <1>7, <1>9 DEF TokenAgrees, Told, Delegated
<1>11. RunAgrees(c)'
  BY <1>1, <1>2, <1>5, <1>7, <1>9, <1>10, ObtainingAgrees
<1>12. Stored' /\ MemoriesStay
  BY <1>2, StoreRests
<1>13. Bounded'
  BY <1>2, Parts DEF Bounded
<1>14. MintedAgrees'
  <2>1. minted' = Nothing \/ (minted'.run = k.run /\ minted'.via = k.held)
    BY <1>1 DEF Clear, Update
  <2> QED  BY <1>2, <1>4, <2>1 DEF MintedAgrees
<1> QED  BY <1>2, <1>7, <1>8, <1>11, <1>12, <1>13, <1>14, OneMoves

-----------------------------------------------------------------------------
(* The invariant of the probe service.                                       *)

LEMMA InitServiceInv == ServiceInit => ServiceInv
<1> SUFFICES ASSUME ServiceInit PROVE ServiceInv
  OBVIOUS
<1>1. /\ DirectoryInit /\ call = [c \in Calls |-> NoCall] /\ memory = << >> /\ forgotten = << >>
      /\ scope = "all" /\ minted = Nothing /\ shown = {} /\ verdict = NoVerdict /\ runs = 0
      /\ faults = MaxFaults /\ changes = MaxChanges
  BY DEF ServiceInit
<1>2. DirectoryTypeOK
  BY <1>1 DEF DirectoryInit, DirectoryTypeOK
<1>3. call \in [Calls -> Run] /\ \A c \in Calls : RunAgrees(c)
  <2>1. NoCall \in Run
    BY NoCallIsARun
  <2>2. NoCall.pc = "idle" /\ NoCall.entry = "none" /\ NoCall.answer = 0
    BY DEF NoCall
  <2>3. ASSUME NEW c \in Calls PROVE RunAgrees(c)
    <3>1. call[c] = NoCall
      BY <1>1
    <3> QED  BY <2>2, <3>1
             DEF RunAgrees, AtItsEntry, WalkAgrees, ScenarioAgrees, TokenAgrees, Obtaining, Delegated
  <2> QED  BY <1>1, <2>1, <2>3
<1>4. MemoryAgrees
  <2>1. Len(memory) = 0 /\ Len(forgotten) = 0 /\ memory \in Seq(MemoryRow)
        /\ forgotten \in Seq(1..Len(memory))
    BY <1>1, EmptySeq
  <2> QED  BY <2>1 DEF MemoryAgrees, RunsForgetTheirOwn
<1>5. ShownAgree
  BY <1>1 DEF ShownAgree
<1> QED  BY <1>1, <1>2, <1>3, <1>4, <1>5, ProbeAssumption DEF ServiceInv

LEMMA NextServiceInv == ServiceInv /\ [ServiceNext]_serviceVars => ServiceInv'
<1> SUFFICES ASSUME ServiceInv, [ServiceNext]_serviceVars PROVE ServiceInv'
  OBVIOUS
<1>1. CASE UNCHANGED serviceVars
  <2>1. /\ UNCHANGED <<call, directory, searcher, minted, obtained, shown, verdict>>
        /\ UNCHANGED <<memory, forgotten, scope, runs, faults, changes>>
    BY <1>1 DEF serviceVars, dirVars, probeVars
  <2>2. DirectoryTypeOK' /\ Bounded'
    BY <2>1, Parts DEF DirectoryTypeOK, Bounded
  <2> QED  BY <2>1, <2>2, StoreRests, NoneMoves
<1>2. ASSUME NEW c \in Calls, NEW entry \in Entries, NEW answer \in shown \cup {0},
             Ask(c, entry, answer)
      PROVE  ServiceInv'
  BY <1>2, AskKeeps
<1>3. ASSUME NEW c \in Calls, GetToken(c) \/ RunFails(c) \/ GivesUp(c) \/ Answered(c)
      PROVE  ServiceInv'
  BY <1>3, GetTokenKeeps, RunFailsKeeps, GivesUpKeeps, AnsweredKeeps
<1>4. ASSUME NEW c \in Calls, Page(c) \/ PageRefused(c)
      PROVE  ServiceInv'
  BY <1>4, PageKeeps, PageRefusedKeeps
<1>5. ASSUME NEW c \in Calls, Step(c) \/ SkipStep(c) \/ StepLost(c)
      PROVE  ServiceInv'
  BY <1>5, ScenarioKeeps
<1>6. ASSUME NEW c \in Calls, \/ Gateway(c) \/ GatewayUnavailable(c) \/ Direct(c)
                              \/ Exchange(c) \/ BrokerRefuses(c)
                              \/ Clear(c) \/ Update(c) \/ CallApi(c)
      PROVE  ServiceInv'
  BY <1>6, GatewayKeeps, ExchangeKeeps, EndsKeeps, RecordsKeep
<1>7. ASSUME NEW x \in Customers, NEW name \in Names \cup {Gone}, Edit(x, name)
      PROVE  ServiceInv'
  BY <1>7, EditKeeps
<1>8. ASSUME ChangeMembership \/ ArmPrimaryOnly \/ RestoreForgetScope \/ CompleteForgets
      PROVE  ServiceInv'
  BY <1>8, SurroundingsKeep
<1> QED  BY <1>1, <1>2, <1>3, <1>4, <1>5, <1>6, <1>7, <1>8 DEF ServiceNext

(* What holds in every state of the probe service and the Range's use of it: *)
(* each run is at a step of its entry and its record agrees with the pages   *)
(* it was shown, the memories it made and the tokens it obtained.            *)
THEOREM ServiceInvariant == ServiceSpec => []ServiceInv
BY InitServiceInv, NextServiceInv, PTL DEF ServiceSpec

(* The shapes of the requests, the memories and the reports.                 *)
THEOREM ServiceTypes == ServiceSpec => []ServiceTypeOK
<1>1. ServiceInv => ServiceTypeOK
  BY DEF ServiceInv, MemoryAgrees, ShownAgree, ServiceTypeOK
<1> QED  BY <1>1, ServiceInvariant, PTL

(* An enumeration (probe_service/main.py, run_enumeration) that was allowed  *)
(* throughout and came to the last page has counted every customer that      *)
(* stayed as it was, once each, whatever was added, removed or renamed       *)
(* between its pages; one that was allowed and did not stopped at            *)
(* max_pages.                                                                *)
THEOREM WalksCount == ServiceSpec => []WalkCountsWhoStayed
<1>1. ServiceInv => WalkCountsWhoStayed
  <2> SUFFICES ASSUME ServiceInv, NEW c \in Calls, call[c].entry = "search", call[c].pc = "done"
               PROVE  LET k == call[c]
                      IN /\ EveryCallAllowed(k) /\ ~MorePagesRemaining(k) => k.steady \subseteq k.seen
                         /\ EveryCallAllowed(k) /\ MorePagesRemaining(k) => k.pages = MaxPages
                         /\ k.twice = {}
    BY DEF WalkCountsWhoStayed
  <2>1. WalkAgrees(c)
    BY ARun DEF RunAgrees
  <2> QED  BY <2>1 DEF WalkAgrees, EveryCallAllowed, MorePagesRemaining
<1> QED  BY <1>1, ServiceInvariant, PTL

(* A scenario (run_scenario) of any number of runs of one user, with answers *)
(* lost at any step, forgets only what its own run stored.                   *)
THEOREM RunsForgetOnlyTheirOwn == ServiceSpec => []RunsForgetTheirOwn
<1>1. ServiceInv => RunsForgetTheirOwn
  BY DEF ServiceInv, MemoryAgrees
<1> QED  BY <1>1, ServiceInvariant, PTL

(* The row of a delegation run (run_delegation) names exactly the token that *)
(* reached the API when it was answered, none when the broker refused, and   *)
(* no other than the one that did when it failed, but for the gateway's 503; *)
(* and what is kept for the claims observation is a token a run obtained.    *)
THEOREM RowsTellTheTruth == ServiceSpec => []RowTellsWhatReached
<1>1. ServiceInv => RowTellsWhatReached
  <2> SUFFICES ASSUME ServiceInv PROVE RowTellsWhatReached
    OBVIOUS
  <2>1. ASSUME NEW c \in Calls, call[c].pc \in {"done", "failed"}, call[c].entry \in Delegated
        PROVE  Told(call[c])
    BY <2>1, ARun DEF RunAgrees, TokenAgrees
  <2> QED  BY <2>1 DEF RowTellsWhatReached, ServiceInv, Told
<1> QED  BY <1>1, ServiceInvariant, PTL

-----------------------------------------------------------------------------
(***************************************************************************)
(* The order of the runs, and what it tells of a survivor.                 *)
(***************************************************************************)
(* A run that has stored nothing yet, and one that is not over.              *)
Fresh(c)  == call[c].pc = "token" \/ (call[c].pc = "step" /\ call[c].step = 1)
Active(c) == call[c].pc \notin {"idle", "done", "failed"}

RunsApart ==
  /\ \A c \in Calls : call[c].pc # "idle" => call[c].run \in 1..runs
  /\ \A c, d \in Calls :
       c # d /\ call[c].pc # "idle" /\ call[d].pc # "idle" => call[c].run # call[d].run

(* A run stores one memory of its own, and is not over when a memory was     *)
(* forgotten before it was.                                                  *)
RootsApart ==
  /\ \A i \in 1..Len(memory) : memory[i].by \in 1..runs /\ memory[i].over \subseteq 1..runs
  /\ \A i, j \in 1..Len(memory) :
       i # j /\ memory[i].from = 0 /\ memory[j].from = 0 => memory[i].by # memory[j].by
  /\ \A c \in Calls, i \in 1..Len(memory) :
       /\ Fresh(c) /\ memory[i].from = 0 => memory[i].by # call[c].run
       /\ Active(c) => call[c].run \notin memory[i].over

ForgottenApart ==
  /\ \A j \in 1..Len(forgotten) : memory[forgotten[j]].state = "forgotten"
  /\ \A i, j \in 1..Len(forgotten) :
       i < j => /\ forgotten[i] # forgotten[j]
                /\ memory[forgotten[j]].by \notin memory[forgotten[i]].over

OrderInv == RunsApart /\ RootsApart /\ ForgottenApart /\ SurvivorStaysNameable

(* A survivor that the probe no longer lists: the memories it does list were *)
(* each stored by a run of its own that was not over when this one's was     *)
(* forgotten.                                                                *)
LEMMA UnlistedIsOld ==
  ASSUME MemoryAgrees, RootsApart, ForgottenApart, runs \in Nat,
         NEW a \in 1..Len(memory), Outlives(a), a \notin Survivors,
         NEW j \in 1..Len(forgotten), forgotten[j] = RootOf(a)
  PROVE  Cardinality(OthersSince(a)) >= ShownForgotten
<1>1. PICK n \in Nat : n = Len(forgotten)
  BY MemoriesAre
<1>2. ShownForgotten \in Nat \ {0} /\ j \in 1..n
  BY <1>1, ProbeAssumption
<1>3. j <= n - ShownForgotten
  <2> SUFFICES ASSUME j > n - ShownForgotten PROVE FALSE
    BY <1>1, <1>2
  <2>1. RootOf(a) \in Targets
    BY <1>1, TargetsAre
  <2>2. a \in Family(RootOf(a))
    BY DEF Family, RootOf
  <2> QED  BY <2>1, <2>2 DEF Survivors
<1>4. PICK low \in 1..n : low = (n - ShownForgotten) + 1 /\ j < low
  BY <1>2, <1>3
<1>5. IsFiniteSet(low..n) /\ Cardinality(low..n) = ShownForgotten
  <2>1. low \in Int /\ n \in Int
    OBVIOUS
  <2>2. IsFiniteSet(low..n) /\ Cardinality(low..n) = IF low > n THEN 0 ELSE n - low + 1
    BY <2>1, FS_Interval
  <2> QED  BY <1>2, <1>4, <2>2
<1>6. IsFiniteSet(OthersSince(a)) /\ Cardinality(OthersSince(a)) \in Nat
  <2>1. \A i \in 1..Len(memory) : memory[i].by \in 1..runs
    BY DEF RootsApart
  <2>2. OthersSince(a) \in SUBSET (1..runs)
    BY <2>1 DEF OthersSince
  <2>3. IsFiniteSet(1..runs)
    BY FS_Interval
  <2> QED  BY <2>2, <2>3, FS_Subset, FS_CardinalityType
<1> DEFINE f == [i \in low..n |-> memory[forgotten[i]].by]
<1>7. ASSUME NEW i \in low..n
      PROVE  i \in 1..n /\ forgotten[i] \in 1..Len(memory) /\ memory[forgotten[i]].from = 0
             /\ f[i] \in OthersSince(a)
  <2>1. i \in 1..n /\ j < i
    BY <1>4
  <2>2. forgotten[i] \in 1..Len(memory) /\ memory[forgotten[i]].from = 0
    BY <1>1, <2>1, MemoriesAre DEF MemoryAgrees
  <2>3. forgotten[j] \in 1..Len(memory) /\ memory[forgotten[j]].from = 0
    BY <1>1, <1>2, MemoriesAre DEF MemoryAgrees
  <2>4. forgotten[i] # forgotten[j] /\ memory[forgotten[i]].by \notin memory[forgotten[j]].over
    BY <1>1, <1>2, <2>1 DEF ForgottenApart
  <2>5. memory[forgotten[i]].by # memory[forgotten[j]].by
    BY <2>2, <2>3, <2>4 DEF RootsApart
  <2> QED  BY <2>1, <2>2, <2>4, <2>5 DEF OthersSince
<1>8. ASSUME NEW i \in low..n, NEW k \in low..n, i # k PROVE f[i] # f[k]
  <2>1. forgotten[i] # forgotten[k]
    <3>1. \A x, y \in 1..n : x < y => forgotten[x] # forgotten[y]
      BY <1>1 DEF ForgottenApart
    <3>2. i \in 1..n /\ k \in 1..n /\ (i < k \/ k < i)
      BY <1>7, <1>8
    <3> QED  BY <3>1, <3>2
  <2> QED  BY <1>7, <2>1 DEF RootsApart
<1>9. f \in [low..n -> OthersSince(a)]
  BY <1>7
<1> HIDE DEF f
<1> SUFFICES ASSUME Cardinality(OthersSince(a)) < Cardinality(low..n) PROVE FALSE
  BY <1>2, <1>5, <1>6
<1>10. \E x, y \in low..n : x # y /\ f[x] = f[y]
  BY <1>5, <1>6, <1>9, FS_PigeonHole
<1> QED  BY <1>8, <1>10

(* Every step but asking: the runs under way stay the same, some go on.      *)
RunsAge ==
  /\ UNCHANGED runs
  /\ \A c \in Calls :
       /\ call'[c].pc # "idle" => call[c].pc # "idle" /\ call'[c].run = call[c].run
       /\ Fresh(c)' => Fresh(c)
       /\ Active(c)' => Active(c)

LEMMA RunsStayApart == ASSUME RunsApart, RunsAge PROVE RunsApart'
BY DEF RunsApart, RunsAge

LEMMA ActiveIsUnderWay ==
  /\ \A c \in Calls : Active(c)' => call'[c].pc # "idle"
  /\ \A c \in Calls : Fresh(c)' => call'[c].pc # "idle"
BY DEF Active, Fresh

(* Memories are confirmed, completed or forgotten by a step: those forgotten *)
(* remember who was over, the others remember what they did.                 *)
LEMMA MarkedStaysApart ==
  ASSUME MemoryAgrees, RootsApart, RunsAge, Len(memory') = Len(memory), NEW who, who \subseteq 1..runs,
         \A c \in Calls : Active(c) => call[c].run \notin who,
         \A r \in 1..Len(memory) :
            /\ memory'[r].from = memory[r].from /\ memory'[r].by = memory[r].by
            /\ memory'[r].over \in {memory[r].over, who}
  PROVE  RootsApart'
<1>1. Len(memory) \in Nat
  BY MemoriesAre
<1>2. \A r \in 1..Len(memory) : /\ memory'[r].by \in 1..runs'
                                /\ memory'[r].over \subseteq 1..runs'
  BY DEF RootsApart, RunsAge
<1>3. \A i, k \in 1..Len(memory) :
        i # k /\ memory'[i].from = 0 /\ memory'[k].from = 0 => memory'[i].by # memory'[k].by
  BY DEF RootsApart
<1>4. ASSUME NEW c \in Calls, NEW i \in 1..Len(memory)
      PROVE  /\ Fresh(c)' /\ memory'[i].from = 0 => memory'[i].by # call'[c].run
             /\ Active(c)' => call'[c].run \notin memory'[i].over
  <2>1. ASSUME Fresh(c)', memory'[i].from = 0 PROVE memory'[i].by # call'[c].run
    <3>1. Fresh(c) /\ call'[c].run = call[c].run
      BY <2>1, ActiveIsUnderWay DEF RunsAge
    <3>2. memory[i].by # call[c].run
      BY <2>1, <3>1 DEF RootsApart
    <3> QED  BY <3>1, <3>2
  <2>2. ASSUME Active(c)' PROVE call'[c].run \notin memory'[i].over
    <3>1. Active(c) /\ call'[c].run = call[c].run
      BY <2>2, ActiveIsUnderWay DEF RunsAge
    <3>2. call[c].run \notin memory[i].over /\ call[c].run \notin who
      BY <3>1 DEF RootsApart
    <3> QED  BY <3>1, <3>2
  <2> QED  BY <2>1, <2>2
<1> QED  BY <1>2, <1>3, <1>4 DEF RootsApart

(* Memories are marked, and nothing is added to the list of the forgotten.   *)
LEMMA SameListApart ==
  ASSUME ServiceInv, OrderInv, RunsAge, Len(memory') = Len(memory), UNCHANGED forgotten,
         \A r \in 1..Len(memory) :
            /\ memory'[r].from = memory[r].from /\ memory'[r].by = memory[r].by
            /\ memory'[r].over = memory[r].over
            /\ memory[r].state = "forgotten" => memory'[r].state = "forgotten"
  PROVE  RootsApart' /\ ForgottenApart'
<1>1. MemoryAgrees
  BY Parts DEF Stored
<1>2. RootsApart'
  <2>1. PICK who \in SUBSET (1..runs) : who = {}
    OBVIOUS
  <2>2. /\ \A c \in Calls : call[c].run \notin who
        /\ \A r \in 1..Len(memory) :
              /\ memory'[r].from = memory[r].from /\ memory'[r].by = memory[r].by
              /\ memory'[r].over \in {memory[r].over, who}
    BY <2>1
  <2> QED  BY <1>1, <2>2, MarkedStaysApart DEF OrderInv
<1>3. ForgottenApart'
  <2>1. \A j \in 1..Len(forgotten) : forgotten[j] \in 1..Len(memory)
    BY <1>1, MemoriesAre
  <2> QED  BY <2>1 DEF OrderInv, ForgottenApart
<1> QED  BY <1>2, <1>3

LEMMA SameStaysApart ==
  ASSUME MemoryAgrees, RunsApart, RootsApart, ForgottenApart, RunsAge, UNCHANGED <<memory, forgotten>>
  PROVE  RunsApart' /\ RootsApart' /\ ForgottenApart'
<1>1. RootsApart'
  <2>1. PICK who \in SUBSET (1..runs) : who = {}
    OBVIOUS
  <2>2. /\ Len(memory') = Len(memory) /\ \A c \in Calls : call[c].run \notin who
        /\ \A r \in 1..Len(memory) :
              /\ memory'[r].from = memory[r].from /\ memory'[r].by = memory[r].by
              /\ memory'[r].over \in {memory[r].over, who}
    BY <2>1
  <2> QED  BY <2>2, MarkedStaysApart
<1>2. ForgottenApart'
  BY DEF ForgottenApart
<1> QED  BY <1>1, <1>2, RunsStayApart

LEMMA VerdictStays == ASSUME SurvivorStaysNameable, UNCHANGED verdict PROVE SurvivorStaysNameable'
BY DEF SurvivorStaysNameable

(* What a flag check found of a survivor that was shown.                     *)
LEMMA ReadsStayNameable ==
  ASSUME ServiceInv, OrderInv, NEW c \in Calls, Reads(c) \/ UNCHANGED <<shown, verdict>>
  PROVE  SurvivorStaysNameable'
<1>1. MemoryAgrees /\ ShownAgree /\ runs \in Nat
  BY Parts DEF Stored, Bounded
<1>2. PICK a : a = call[c].answer
  OBVIOUS
<1>3. a \in shown \cup {0}
  BY <1>2, ARun DEF RunAgrees, ScenarioAgrees
<1>4. CASE UNCHANGED verdict
  BY <1>4, VerdictStays DEF OrderInv
<1>5. CASE /\ a # 0
           /\ verdict' = [answer |-> a, correct |-> a \in Survivors,
                          lives |-> Outlives(a), since |-> OthersSince(a)]
  <2>1. a \in 1..Len(memory) /\ \E j \in 1..Len(forgotten) : forgotten[j] = RootOf(a)
    BY <1>1, <1>3, <1>5 DEF ShownAgree
  <2>2. a \notin Survivors /\ Outlives(a) => Cardinality(OthersSince(a)) >= ShownForgotten
    BY <1>1, <2>1, UnlistedIsOld DEF OrderInv
  <2>3. /\ verdict'.correct <=> a \in Survivors
        /\ verdict'.lives <=> Outlives(a)
        /\ verdict'.since = OthersSince(a)
    <3>1. verdict'.correct = (a \in Survivors) /\ verdict'.lives = Outlives(a)
          /\ verdict'.since = OthersSince(a)
      BY <1>5, Zenon
    <3> QED  BY <3>1, Zenon
  <2> QED  BY <2>2, <2>3 DEF SurvivorStaysNameable
<1> QED  BY <1>2, <1>4, <1>5 DEF Reads

LEMMA OneAges ==
  ASSUME ServiceInv, NEW c \in Calls, NEW new, Becomes(c, new), UNCHANGED runs,
         new.pc # "idle" => call[c].pc # "idle" /\ new.run = call[c].run,
         new.pc = "token" \/ (new.pc = "step" /\ new.step = 1) => Fresh(c),
         new.pc \notin {"idle", "done", "failed"} => Active(c)
  PROVE  RunsAge
<1>1. call'[c] = new
  BY Became
<1>2. \A d \in Calls \ {c} : call'[d] = call[d]
  BY Parts DEF Becomes
<1>3. ASSUME NEW d \in Calls
      PROVE  /\ call'[d].pc # "idle" => call[d].pc # "idle" /\ call'[d].run = call[d].run
             /\ Fresh(d)' => Fresh(d)
             /\ Active(d)' => Active(d)
  <2>1. CASE d = c
    BY <1>1, <2>1 DEF Fresh, Active
  <2>2. CASE d # c
    BY <1>2, <2>2 DEF Fresh, Active
  <2> QED  BY <2>1, <2>2
<1> QED  BY <1>3 DEF RunsAge

(* A scenario goes to its next step or is over.                              *)
LEMMA NextIsLater ==
  ASSUME NEW k \in Run, NEW captured, NEW new, new = NextStep([k EXCEPT !.captured = captured])
  PROVE  /\ new.run = k.run
         /\ new.pc = "done" \/ (new.pc = k.pc /\ new.step = k.step + 1 /\ new.step # 1)
<1>1. PICK k1 : k1 = [k EXCEPT !.captured = captured]
  OBVIOUS
<1>2. k1.run = k.run /\ k1.pc = k.pc /\ k1.step = k.step /\ k.step \in 1..4
      /\ [k1 EXCEPT !.pc = "done"].run = k.run /\ [k1 EXCEPT !.pc = "done"].pc = "done"
      /\ [k1 EXCEPT !.step = k1.step + 1].run = k.run /\ [k1 EXCEPT !.step = k1.step + 1].pc = k.pc
      /\ [k1 EXCEPT !.step = k1.step + 1].step = k.step + 1
  BY <1>1 DEF Run
<1>3. new = [k1 EXCEPT !.pc = "done"] \/ new = [k1 EXCEPT !.step = k1.step + 1]
  BY <1>1 DEF NextStep
<1>4. CASE new = [k1 EXCEPT !.pc = "done"]
  BY <1>2, <1>4
<1>5. CASE new = [k1 EXCEPT !.step = k1.step + 1]
  <2>1. new.run = k.run /\ new.pc = k.pc /\ new.step = k.step + 1
    BY <1>2, <1>5
  <2>2. k.step + 1 # 1
    BY <1>2
  <2> QED  BY <2>1, <2>2
<1> QED  BY <1>3, <1>4, <1>5

LEMMA CapturesOnly ==
  ASSUME NEW k \in Run, NEW value
  PROVE  \E captured : Capture(k, value) = [k EXCEPT !.captured = captured]
<1>1. CASE value = 0
  BY <1>1, Unrecaptured DEF Capture
<1>2. CASE value # 0
  BY <1>2 DEF Capture
<1> QED  BY <1>1, <1>2

LEMMA ScenarioAges ==
  ASSUME ServiceInv, NEW c \in Calls, Step(c) \/ StepLost(c) \/ SkipStep(c)
  PROVE  RunsAge /\ ~Fresh(c)'
<1>1. PICK k \in Run : k = call[c]
  BY ARun
<1>2. k.pc = "step" /\ UNCHANGED runs
  BY <1>1 DEF Step, StepLost, SkipStep
<1>3. PICK captured : Becomes(c, NextStep([k EXCEPT !.captured = captured]))
  <2>1. CASE Step(c)
    <3>1. Becomes(c, NextStep(Capture(k, Returned(Op(k)))))
      BY <1>1, <2>1 DEF Step
    <3>2. PICK captured : Capture(k, Returned(Op(k))) = [k EXCEPT !.captured = captured]
      BY CapturesOnly
    <3> QED  BY <3>1, <3>2
  <2>2. CASE StepLost(c) \/ SkipStep(c)
    <3>1. Becomes(c, NextStep(k))
      BY <1>1, <2>2 DEF StepLost, SkipStep
    <3>2. k = [k EXCEPT !.captured = k.captured]
      BY Unrecaptured
    <3> QED  BY <3>1, <3>2
  <2> QED  BY <2>1, <2>2
<1>4. PICK new : new = NextStep([k EXCEPT !.captured = captured])
  OBVIOUS
<1>5. /\ new.run = k.run
      /\ new.pc = "done" \/ (new.pc = "step" /\ new.step # 1)
  BY <1>2, <1>4, NextIsLater
<1>6. Becomes(c, new) /\ Active(c)
  BY <1>1, <1>2, <1>3, <1>4 DEF Active
<1>7. RunsAge
  BY <1>1, <1>2, <1>5, <1>6, OneAges
<1>8. call'[c] = new
  BY <1>6, Became
<1> QED  BY <1>5, <1>7, <1>8 DEF Fresh

LEMMA OthersAge ==
  ASSUME ServiceInv, NEW c \in Calls,
         \/ GetToken(c) \/ RunFails(c) \/ GivesUp(c) \/ Answered(c) \/ Page(c) \/ PageRefused(c)
         \/ Gateway(c) \/ GatewayUnavailable(c) \/ Direct(c) \/ Exchange(c) \/ BrokerRefuses(c)
         \/ Clear(c) \/ Update(c) \/ CallApi(c)
  PROVE  RunsAge
<1>1. PICK k \in Run : k = call[c]
  BY ARun
<1>2. CASE Answered(c)
  <2>1. Becomes(c, NoCall) /\ UNCHANGED runs /\ NoCall.pc = "idle"
    BY <1>2 DEF Answered, NoCall
  <2> QED  BY <2>1, OneAges
<1>3. CASE RunFails(c)
  <2>1. PICK sent, token : Becomes(c, [k EXCEPT !.pc = "failed", !.status = "failed",
                                               !.reached = sent, !.token = token])
    BY <1>1, <1>3 DEF RunFails
  <2>2. PICK new : new = [k EXCEPT !.pc = "failed", !.status = "failed", !.reached = sent,
                                   !.token = token]
    OBVIOUS
  <2>3. new.pc = "failed" /\ new.run = k.run
    BY <2>2 DEF Run
  <2>4. k.pc # "idle" /\ UNCHANGED runs /\ Becomes(c, new)
    BY <1>1, <1>3, <2>1, <2>2 DEF RunFails, Delegated
  <2> QED  BY <1>1, <2>3, <2>4, OneAges
<1>4. CASE GivesUp(c)
  <2>1. PICK new : new = [k EXCEPT !.waiting = FALSE]
    OBVIOUS
  <2>2. new.pc = k.pc /\ new.run = k.run /\ new.step = k.step
    BY <2>1 DEF Run
  <2>3. k.pc \notin {"idle", "done", "failed"} /\ UNCHANGED runs /\ Becomes(c, new)
    BY <1>1, <1>4, <2>1 DEF GivesUp
  <2> QED  BY <1>1, <2>2, <2>3, OneAges DEF Fresh, Active
<1>5. CASE GetToken(c)
  <2>1. PICK new : new = [k EXCEPT !.pc = FirstStep(k.entry),
                                   !.steady = IF k.entry = "search" THEN Found ELSE {}]
    OBVIOUS
  <2>2. new.run = k.run
    BY <2>1 DEF Run
  <2>3. k.pc = "token" /\ UNCHANGED runs /\ Becomes(c, new)
    BY <1>1, <1>5, <2>1 DEF GetToken
  <2> QED  BY <1>1, <2>2, <2>3, OneAges DEF Fresh, Active
<1>6. ASSUME Becomes(c, call'[c]), UNCHANGED runs, k.pc \notin {"idle", "done", "failed"},
             call'[c].run = k.run,
             call'[c].pc \in {"page", "clear", "update", "again", "api", "done"}
      PROVE  RunsAge
  BY <1>1, <1>6, OneAges DEF Active
<1>7. CASE Page(c) \/ PageRefused(c)
  <2>1. k.pc = "page" /\ UNCHANGED runs
    BY <1>1, <1>7 DEF Page, PageRefused
  <2>2. call \in [Calls -> Run]
    BY Parts
  <2>3. Becomes(c, call'[c]) /\ call'[c].run = k.run /\ call'[c].pc \in {"page", "done"}
    <3>1. CASE PageRefused(c)
      BY <1>1, <2>1, <2>2, <3>1 DEF PageRefused, Becomes, Run
    <3>2. CASE Page(c) /\ Search(k.position).status = 200
      <4>1. PICK answer : answer = Search(k.position)
        OBVIOUS
      <4>2. PICK pc \in {"page", "done"} :
              pc = IF answer.next = Start \/ AtCeiling(k.pages + 1) THEN "done" ELSE k.pc
        BY <2>1
      <4>3. Becomes(c, [k EXCEPT !.pages = k.pages + 1, !.seen = k.seen \cup answer.rows,
                                 !.twice = k.twice \cup (k.seen \cap answer.rows \cap k.steady),
                                 !.position = answer.next, !.pc = pc])
        BY <1>1, <3>2, <4>1, <4>2 DEF Page
      <4> QED  BY <1>1, <2>2, <4>3 DEF Becomes, Run
    <3>3. CASE Page(c) /\ Search(k.position).status # 200
      <4>1. Becomes(c, [k EXCEPT !.pages = k.pages + 1, !.refused = TRUE, !.pc = "done"])
        BY <1>1, <3>3 DEF Page
      <4> QED  BY <1>1, <2>2, <4>1 DEF Becomes, Run
    <3> QED  BY <1>7, <3>1, <3>2, <3>3
  <2> QED  BY <1>6, <2>1, <2>3
<1>8. CASE \/ Gateway(c) \/ GatewayUnavailable(c) \/ Direct(c) \/ Exchange(c) \/ BrokerRefuses(c)
           \/ Clear(c) \/ Update(c) \/ CallApi(c)
  <2>1. k.pc \in Obtaining /\ UNCHANGED runs
    BY <1>1, <1>8 DEF Gateway, GatewayUnavailable, Direct, Exchange, BrokerRefuses, Clear, Update,
                      CallApi, Obtaining, Delegated
  <2>2. call \in [Calls -> Run]
    BY Parts
  <2>3. /\ Becomes(c, call'[c]) /\ call'[c].run = k.run
        /\ call'[c].pc \in {"page", "clear", "update", "again", "api", "done"}
    <3>1. CASE Gateway(c)
      <4>1. PICK how : Becomes(c, [k EXCEPT !.pc = "clear", !.held = how, !.token = how,
                                            !.reached = how, !.status = "answered"])
        BY <1>1, <3>1 DEF Gateway
      <4> QED  BY <1>1, <2>2, <4>1 DEF Becomes, Run
    <3>2. CASE GatewayUnavailable(c)
      <4>1. PICK sent : Becomes(c, [k EXCEPT !.pc = "done", !.token = "none", !.reached = sent,
                                             !.status = "unavailable"])
        BY <1>1, <3>2 DEF GatewayUnavailable
      <4> QED  BY <1>1, <2>2, <4>1 DEF Becomes, Run
    <3>3. CASE Direct(c)
      BY <1>1, <2>2, <3>3 DEF Direct, Becomes, Run
    <3>4. CASE Exchange(c)
      <4>1. PICK how : Becomes(c, [k EXCEPT !.pc = "clear", !.held = how])
        BY <1>1, <3>4 DEF Exchange, Obtain
      <4> QED  BY <1>1, <2>2, <4>1 DEF Becomes, Run
    <3>5. CASE BrokerRefuses(c)
      BY <1>1, <2>2, <3>5 DEF BrokerRefuses, Becomes, Run
    <3>6. CASE Clear(c)
      BY <1>1, <2>2, <3>6 DEF Clear, Becomes, Run
    <3>7. CASE Update(c)
      <4>1. AfterToken(k) \in {"again", "api", "done"}
        BY DEF AfterToken
      <4>2. Becomes(c, [k EXCEPT !.pc = AfterToken(k)])
        BY <1>1, <3>7 DEF Update
      <4> HIDE DEF AfterToken
      <4> QED  BY <1>1, <2>2, <4>1, <4>2 DEF Becomes, Run
    <3>8. CASE CallApi(c)
      BY <1>1, <2>2, <3>8 DEF CallApi, Becomes, Run
    <3> QED  BY <1>8, <3>1, <3>2, <3>3, <3>4, <3>5, <3>6, <3>7, <3>8
  <2>4. k.pc \notin {"idle", "done", "failed"}
    BY <2>1 DEF Obtaining, Delegated
  <2> QED  BY <1>6, <2>1, <2>3, <2>4
<1> QED  BY <1>2, <1>3, <1>4, <1>5, <1>7, <1>8

LEMMA AskStaysApart ==
  ASSUME ServiceInv, OrderInv, NEW c \in Calls, NEW entry \in Entries,
         NEW answer \in shown \cup {0}, Ask(c, entry, answer)
  PROVE  OrderInv'
<1>1. runs \in Nat /\ runs' = runs + 1 /\ UNCHANGED <<memory, forgotten, verdict>>
  BY Parts DEF Bounded, Ask
<1>2. call'[c].pc = "token" /\ call'[c].run = runs + 1
  <2>1. PICK new : new = [NoCall EXCEPT !.entry = entry, !.run = runs + 1, !.answer = answer,
                                        !.waiting = TRUE, !.pc = "token"]
    OBVIOUS
  <2>2. new.pc = "token" /\ new.run = runs + 1
    BY <2>1 DEF NoCall
  <2>3. Becomes(c, new)
    BY <2>1 DEF Ask
  <2> QED  BY <2>2, <2>3, Became
<1>3. \A d \in Calls \ {c} : call'[d] = call[d]
  BY Parts DEF Ask, Becomes
<1>4. RunsApart'
  <2>1. \A d \in Calls : d # c /\ call'[d].pc # "idle" => call'[d].run \in 1..runs
    BY <1>3 DEF OrderInv, RunsApart
  <2>2. \A d, e \in Calls : d # c /\ e # c /\ d # e /\ call'[d].pc # "idle" /\ call'[e].pc # "idle"
                              => call'[d].run # call'[e].run
    BY <1>3 DEF OrderInv, RunsApart
  <2>3. runs + 1 \notin 1..runs /\ runs + 1 \in 1..runs' /\ 1..runs \subseteq 1..runs'
    BY <1>1
  <2>4. ASSUME NEW d \in Calls, call'[d].pc # "idle" PROVE call'[d].run \in 1..runs'
    BY <1>2, <2>1, <2>3, <2>4
  <2>5. ASSUME NEW d \in Calls, NEW e \in Calls, d # e, call'[d].pc # "idle", call'[e].pc # "idle"
        PROVE  call'[d].run # call'[e].run
    BY <1>2, <2>1, <2>2, <2>3, <2>5
  <2> QED  BY <2>4, <2>5 DEF RunsApart
<1>5. RootsApart'
  <2>1. \A i \in 1..Len(memory) : memory[i].by \in 1..runs /\ memory[i].over \subseteq 1..runs
    BY DEF OrderInv, RootsApart
  <2>2. runs + 1 \notin 1..runs /\ 1..runs \subseteq 1..runs'
    BY <1>1
  <2>3. \A i \in 1..Len(memory') : memory'[i].by \in 1..runs' /\ memory'[i].over \subseteq 1..runs'
    BY <1>1, <2>1, <2>2
  <2>4. \A i, j \in 1..Len(memory') :
          i # j /\ memory'[i].from = 0 /\ memory'[j].from = 0 => memory'[i].by # memory'[j].by
    BY <1>1 DEF OrderInv, RootsApart
  <2>5. ASSUME NEW d \in Calls, NEW i \in 1..Len(memory')
        PROVE  /\ Fresh(d)' /\ memory'[i].from = 0 => memory'[i].by # call'[d].run
               /\ Active(d)' => call'[d].run \notin memory'[i].over
    <3>1. CASE d = c
      BY <1>1, <1>2, <2>1, <2>2, <3>1
    <3>2. CASE d # c
      <4>1. call'[d] = call[d] /\ (Fresh(d)' <=> Fresh(d)) /\ (Active(d)' <=> Active(d))
        BY <1>3, <3>2 DEF Fresh, Active
      <4> QED  BY <1>1, <4>1 DEF OrderInv, RootsApart
    <3> QED  BY <3>1, <3>2
  <2> QED  BY <2>3, <2>4, <2>5 DEF RootsApart
<1>6. ForgottenApart' /\ SurvivorStaysNameable'
  BY <1>1, VerdictStays DEF OrderInv, ForgottenApart
<1> QED  BY <1>4, <1>5, <1>6 DEF OrderInv

(* A run adds a memory: one that derives from none, as its first step.       *)
LEMMA AddedStaysApart ==
  ASSUME ServiceInv, OrderInv, RunsAge, NEW c \in Calls, call[c].pc # "idle", ~Fresh(c)',
         NEW row \in MemoryRow, memory' = Append(memory, row), UNCHANGED forgotten,
         row.by = call[c].run, row.over = {}, row.from = 0 => Fresh(c)
  PROVE  RootsApart' /\ ForgottenApart'
<1>1. MemoryAgrees
  BY Parts DEF Stored
<1>2. PICK n \in Nat : n = Len(memory)
  BY <1>1, MemoriesAre
<1>3. /\ Len(memory') = n + 1 /\ memory'[n + 1] = row
      /\ \A i \in 1..n : memory'[i] = memory[i]
  <2>1. memory \in Seq(MemoryRow)
    BY <1>1 DEF MemoryAgrees
  <2> QED  BY <1>2, <2>1, AppendProperties
<1>4. \A i \in 1..(n + 1) : i \in 1..n \/ i = n + 1
  BY <1>2
<1> HIDE DEF MemoryRow
<1>5. row.by \in 1..runs
  BY DEF OrderInv, RunsApart
<1>6. \A i \in 1..(n + 1) : memory'[i].by \in 1..runs' /\ memory'[i].over \subseteq 1..runs'
  <2>1. \A i \in 1..n : memory[i].by \in 1..runs /\ memory[i].over \subseteq 1..runs
    BY <1>2 DEF OrderInv, RootsApart
  <2>2. runs' = runs
    BY DEF RunsAge
  <2> QED  BY <1>3, <1>4, <1>5, <2>1, <2>2
<1>7. ASSUME NEW i \in 1..(n + 1), NEW j \in 1..(n + 1), i # j, memory'[i].from = 0,
             memory'[j].from = 0
      PROVE  memory'[i].by # memory'[j].by
  <2>1. CASE i \in 1..n /\ j \in 1..n
    BY <1>2, <1>3, <1>7, <2>1 DEF OrderInv, RootsApart
  <2>2. \A r \in 1..n : memory[r].from = 0 /\ Fresh(c) => memory[r].by # row.by
    BY <1>2 DEF OrderInv, RootsApart
  <2>3. CASE i = n + 1 /\ j \in 1..n
    BY <1>3, <1>7, <2>2, <2>3
  <2>4. CASE j = n + 1 /\ i \in 1..n
    BY <1>3, <1>7, <2>2, <2>4
  <2> QED  BY <1>4, <1>7, <2>1, <2>3, <2>4
<1>8. ASSUME NEW d \in Calls, NEW i \in 1..(n + 1)
      PROVE  /\ Fresh(d)' /\ memory'[i].from = 0 => memory'[i].by # call'[d].run
             /\ Active(d)' => call'[d].run \notin memory'[i].over
  <2>1. ASSUME Fresh(d)', memory'[i].from = 0 PROVE memory'[i].by # call'[d].run
    <3>1. d # c /\ Fresh(d) /\ call'[d].run = call[d].run /\ call[d].pc # "idle"
      BY <2>1, ActiveIsUnderWay DEF RunsAge
    <3>2. CASE i \in 1..n
      BY <1>2, <1>3, <2>1, <3>1, <3>2 DEF OrderInv, RootsApart
    <3>3. CASE i = n + 1
      BY <1>3, <3>1, <3>3 DEF OrderInv, RunsApart
    <3> QED  BY <1>4, <3>2, <3>3
  <2>2. ASSUME Active(d)' PROVE call'[d].run \notin memory'[i].over
    <3>1. Active(d) /\ call'[d].run = call[d].run
      BY <2>2, ActiveIsUnderWay DEF RunsAge
    <3>2. CASE i \in 1..n
      BY <1>2, <1>3, <3>1, <3>2 DEF OrderInv, RootsApart
    <3>3. CASE i = n + 1
      BY <1>3, <3>3
    <3> QED  BY <1>4, <3>2, <3>3
  <2> QED  BY <2>1, <2>2
<1>9. RootsApart'
  BY <1>3, <1>6, <1>7, <1>8 DEF RootsApart
<1>10. ForgottenApart'
  <2>1. \A j \in 1..Len(forgotten) : forgotten[j] \in 1..n
    BY <1>1, <1>2, MemoriesAre
  <2> QED  BY <1>3, <2>1 DEF OrderInv, ForgottenApart
<1> QED  BY <1>9, <1>10

LEMMA OverLeavesTheActive == \A d \in Calls : Active(d) => call[d].run \notin Over
BY DEF Over, Active

(* A run forgets a memory of its own: the last of the list, and no run       *)
(* before it on the list was forgotten after this one was over.              *)
LEMMA ForgetStaysApart ==
  ASSUME ServiceInv, OrderInv, RunsAge, NEW c \in Calls, Active(c), NEW id, Live(id),
         memory[id].by = call[c].run, NEW run, memory' = Forgotten(id, run),
         Len(memory') = Len(memory),
         forgotten' = IF memory[id].from = 0 THEN Append(forgotten, id) ELSE forgotten
  PROVE  RootsApart' /\ ForgottenApart'
<1>1. MemoryAgrees
  BY Parts DEF Stored
<1>2. Len(memory) \in Nat /\ DOMAIN memory = 1..Len(memory) /\ id \in 1..Len(memory)
      /\ memory[id].state = "live"
  BY <1>1, MemoriesAre DEF Live
<1>3. \A r \in Removed(id) : r \in 1..Len(memory) /\ memory[r].state = "live"
  BY <1>2 DEF Removed, Live
<1>4. id \in Removed(id)
  BY <1>2 DEF Removed, Family, Live
<1>5. PICK over, kept : over = Over /\ kept = (scope = "primary")
  OBVIOUS
<1>6. memory' = [r \in DOMAIN memory |->
        IF r \in Removed(id)
          THEN [memory[r] EXCEPT !.state = "forgotten", !.gone = run, !.over = over, !.point = kept]
          ELSE memory[r]]
  BY <1>5 DEF Forgotten
<1>7. ASSUME NEW r \in 1..Len(memory)
      PROVE  /\ memory'[r].from = memory[r].from /\ memory'[r].by = memory[r].by
             /\ memory'[r].over \in {memory[r].over, over}
             /\ r \notin Removed(id) => memory'[r] = memory[r]
             /\ r \in Removed(id) => memory'[r].state = "forgotten"
  <2>1. PICK m \in MemoryRow : m = memory[r]
    BY <1>1, MemoriesAre
  <2>2. CASE r \in Removed(id)
    <3>1. memory'[r] = [m EXCEPT !.state = "forgotten", !.gone = run, !.over = over, !.point = kept]
      BY <1>2, <1>6, <2>1, <2>2
    <3>2. memory'[r].from = m.from /\ memory'[r].by = m.by /\ memory'[r].over = over
          /\ memory'[r].state = "forgotten"
      BY <3>1 DEF MemoryRow
    <3> QED  BY <2>1, <2>2, <3>2
  <2>3. CASE r \notin Removed(id)
    <3>1. memory'[r] = memory[r]
      BY <1>2, <1>6, <2>3
    <3> QED  BY <2>3, <3>1
  <2> QED  BY <2>2, <2>3
<1>9. RootsApart'
  <2>1. over \subseteq 1..runs /\ \A d \in Calls : Active(d) => call[d].run \notin over
    BY <1>5, OverIsRuns, OverLeavesTheActive
  <2> QED  BY <1>1, <1>7, <2>1, MarkedStaysApart DEF OrderInv
<1>10. ASSUME NEW j \in 1..Len(forgotten)
       PROVE  forgotten[j] \in 1..Len(memory) /\ memory'[forgotten[j]] = memory[forgotten[j]]
              /\ memory[forgotten[j]].state = "forgotten"
  <2>1. forgotten[j] \in 1..Len(memory) /\ memory[forgotten[j]].state = "forgotten"
    BY <1>1, MemoriesAre DEF OrderInv, ForgottenApart
  <2>2. forgotten[j] \notin Removed(id)
    BY <1>3, <2>1
  <2> QED  BY <1>7, <2>1, <2>2
<1>11. CASE UNCHANGED forgotten
  BY <1>9, <1>10, <1>11 DEF OrderInv, ForgottenApart
<1>12. CASE forgotten' = Append(forgotten, id)
  <2>1. PICK n \in Nat : n = Len(forgotten)
    BY <1>1, MemoriesAre
  <2>2. /\ Len(forgotten') = n + 1 /\ forgotten'[n + 1] = id
        /\ \A j \in 1..n : forgotten'[j] = forgotten[j]
    <3>1. forgotten \in Seq(1..Len(memory))
      BY <1>1 DEF MemoryAgrees
    <3> QED  BY <1>2, <1>12, <2>1, <3>1, AppendProperties
  <2>3. \A j \in 1..(n + 1) : j \in 1..n \/ j = n + 1
    BY <2>1
  <2>4. \A j \in 1..(n + 1) : memory'[forgotten'[j]].state = "forgotten"
    BY <1>2, <1>4, <1>7, <1>10, <2>1, <2>2, <2>3
  <2>5. ASSUME NEW i \in 1..(n + 1), NEW j \in 1..(n + 1), i < j
        PROVE  /\ forgotten'[i] # forgotten'[j]
               /\ memory'[forgotten'[j]].by \notin memory'[forgotten'[i]].over
    <3>1. i \in 1..n
      BY <2>1, <2>5
    <3>2. CASE j \in 1..n
      <4>1. /\ forgotten[i] # forgotten[j]
            /\ memory[forgotten[j]].by \notin memory[forgotten[i]].over
        BY <2>1, <2>5, <3>1, <3>2 DEF OrderInv, ForgottenApart
      <4> QED  BY <1>10, <2>1, <2>2, <3>1, <3>2, <4>1
    <3>3. CASE j = n + 1
      <4>1. forgotten'[j] = id /\ memory'[id].by = call[c].run
        BY <1>2, <1>7, <2>2, <3>3
      <4>2. forgotten[i] # id /\ call[c].run \notin memory[forgotten[i]].over
        BY <1>2, <1>10, <2>1, <3>1 DEF OrderInv, RootsApart
      <4> QED  BY <1>10, <2>1, <2>2, <3>1, <4>1, <4>2
    <3> QED  BY <2>3, <3>2, <3>3
  <2>6. ForgottenApart'
    BY <2>2, <2>4, <2>5 DEF ForgottenApart
  <2> QED  BY <1>9, <2>6
<1> QED  BY <1>11, <1>12

(* What a step of a scenario does to the memories.                           *)
LEMMA DoesStaysApart ==
  ASSUME ServiceInv, OrderInv, RunsAge, NEW c \in Calls, NEW k \in Run, k = call[c],
         k.pc = "step", Sendable(c), ~Fresh(c)', UNCHANGED <<shown, verdict>>,
         Does(Op(k), Value(c), k.run) \/ UNCHANGED <<memory, forgotten>>
  PROVE  RootsApart' /\ ForgottenApart'
<1>1. MemoryAgrees
  BY Parts DEF Stored
<1>2. /\ k.run \in 1..MaxCalls /\ k.entry \in {"forget", "confirm"} /\ k.step \in 1..4
      /\ k.step <= Len(Scenario[k.entry])
      /\ Op(k) \in {"summarise", "forget"} /\ Live(Value(c)) => memory[Value(c)].by = k.run
  BY Stepping, SentOwn
<1>3. Active(c) /\ call[c].pc # "idle"
  BY DEF Active
<1>0. PICK id : id = Value(c)
  OBVIOUS
<1>4. PICK run \in 1..MaxCalls : id = Value(c) /\ run = k.run
  BY <1>0, <1>2
<1>5. ASSUME NEW status \in {"unconfirmed", "confirmed"}, NEW from \in Nat
      PROVE  /\ Record(run, status, from) \in MemoryRow /\ Record(run, status, from).by = run
             /\ Record(run, status, from).over = {} /\ Record(run, status, from).from = from
  BY ProbeAssumption DEF Record, MemoryRow
<1>6. CASE UNCHANGED <<memory, forgotten>>
  BY <1>1, <1>6, SameStaysApart DEF OrderInv
<1>7. CASE Op(k) = "remember" /\ Does(Op(k), id, run)
  <2>1. memory' = Append(memory, Record(run, "unconfirmed", 0)) /\ UNCHANGED forgotten
    BY <1>7 DEF Does
  <2>2. Fresh(c)
    <3>1. k.entry = "forget" => (k.step = 1 \/ Scenario[k.entry][k.step] # "remember")
      BY <1>2, Lengths
    <3>2. k.entry = "confirm" => Scenario[k.entry][k.step] # "remember"
      BY <1>2, Lengths
    <3>3. k.step = 1
      BY <1>2, <1>7, <3>1, <3>2 DEF Op
    <3> QED  BY <3>3 DEF Fresh
  <2>3. PICK row \in MemoryRow : row = Record(run, "unconfirmed", 0)
    BY <1>5
  <2>4. row.by = call[c].run /\ row.over = {}
    BY <1>4, <1>5, <2>3
  <2> QED  BY <1>3, <2>1, <2>2, <2>3, <2>4, AddedStaysApart
<1>8. CASE Op(k) = "summarise" /\ Live(id) /\ Does(Op(k), id, run)
  <2>1. memory' = Append(memory, Record(run, memory[id].status, id)) /\ UNCHANGED forgotten
    BY <1>8 DEF Does
  <2>2. id \in 1..Len(memory) /\ Len(memory) \in Nat
    BY <1>1, <1>8, MemoriesAre DEF Live
  <2>3. memory[id].status \in {"unconfirmed", "confirmed"}
    BY <1>1, <2>2, MemoriesAre DEF MemoryRow
  <2>4. PICK row \in MemoryRow : row = Record(run, memory[id].status, id)
    BY <1>5, <2>2, <2>3
  <2>5. row.by = call[c].run /\ row.over = {} /\ row.from # 0
    BY <1>4, <1>5, <2>2, <2>3, <2>4
  <2> QED  BY <1>3, <2>1, <2>4, <2>5, AddedStaysApart
<1>9. CASE Op(k) = "confirm" /\ id \in Unconfirmed /\ Does(Op(k), id, run)
  <2>1. memory' = [memory EXCEPT ![id].status = "confirmed"] /\ UNCHANGED forgotten
    BY <1>9 DEF Does
  <2>2. Len(memory') = Len(memory)
    BY <1>9, <2>1, ConfirmStores
  <2>3. ASSUME NEW r \in 1..Len(memory)
        PROVE  /\ memory'[r].from = memory[r].from /\ memory'[r].by = memory[r].by
               /\ memory'[r].over = memory[r].over /\ memory'[r].state = memory[r].state
    <3>1. PICK m \in MemoryRow : m = memory[r]
      BY <1>1, MemoriesAre
    <3>2. DOMAIN memory = 1..Len(memory)
      BY <1>1, MemoriesAre
    <3>3. memory'[r] = m \/ memory'[r] = [m EXCEPT !.status = "confirmed"]
      BY <2>1, <3>1, <3>2
    <3> QED  BY <3>1, <3>3 DEF MemoryRow
  <2> QED  BY <2>1, <2>2, <2>3, SameListApart
<1>10. CASE Op(k) = "forget" /\ Live(id) /\ Does(Op(k), id, run)
  <2>1. /\ memory' = Forgotten(id, run)
        /\ forgotten' = IF memory[id].from = 0 THEN Append(forgotten, id) ELSE forgotten
    BY <1>10 DEF Does
  <2>2. memory[id].by = run
    BY <1>2, <1>4, <1>10
  <2>3. Len(memory') = Len(memory)
    BY <1>10, <2>1, <2>2, ForgetStores
  <2> QED  BY <1>3, <1>4, <1>10, <2>1, <2>2, <2>3, ForgetStaysApart
<1>11. CASE /\ Does(Op(k), id, run) /\ Op(k) # "remember" /\ ~(Op(k) = "confirm" /\ id \in Unconfirmed)
            /\ ~(Op(k) \in {"summarise", "forget"} /\ Live(id))
  <2>1. UNCHANGED <<memory, forgotten>>
    BY <1>11 DEF Does
  <2> QED  BY <1>6, <2>1
<1>12. Does(Op(k), id, run) \/ UNCHANGED <<memory, forgotten>>
  BY <1>4
<1> QED  BY <1>6, <1>7, <1>8, <1>9, <1>10, <1>11, <1>12

LEMMA CompletedStaysApart ==
  ASSUME ServiceInv, OrderInv, CompleteForgets
  PROVE  OrderInv'
<1>1. MemoryAgrees
  BY Parts DEF Stored
<1>2. /\ UNCHANGED <<call, runs, forgotten, verdict>>
      /\ memory' = [r \in DOMAIN memory |->
           IF memory[r].state = "forgotten" \/ (memory[r].from # 0 /\ ~Live(memory[r].from))
             THEN [memory[r] EXCEPT !.state = "forgotten", !.point = FALSE]
             ELSE memory[r]]
  BY DEF CompleteForgets
<1>3. Len(memory') = Len(memory) /\ DOMAIN memory = 1..Len(memory)
  BY <1>1, CompleteForgetsStore, MemoriesAre
<1>4. ASSUME NEW r \in 1..Len(memory)
      PROVE  /\ memory'[r].from = memory[r].from /\ memory'[r].by = memory[r].by
             /\ memory'[r].over = memory[r].over
             /\ memory[r].state = "forgotten" => memory'[r].state = "forgotten"
  <2>1. PICK m \in MemoryRow : m = memory[r]
    BY <1>1, MemoriesAre
  <2>2. memory'[r] = m \/ memory'[r] = [m EXCEPT !.state = "forgotten", !.point = FALSE]
    BY <1>2, <1>3, <2>1
  <2> QED  BY <2>1, <2>2 DEF MemoryRow
<1>5. RunsAge
  BY <1>2 DEF RunsAge, Fresh, Active
<1>6. RootsApart' /\ ForgottenApart'
  BY <1>2, <1>3, <1>4, <1>5, SameListApart
<1> QED  BY <1>2, <1>5, <1>6, RunsStayApart, VerdictStays DEF OrderInv

LEMMA InitOrderInv == ServiceInit => OrderInv
<1> SUFFICES ASSUME ServiceInit PROVE OrderInv
  OBVIOUS
<1>1. /\ Len(memory) = 0 /\ Len(forgotten) = 0 /\ verdict.correct
      /\ \A c \in Calls : call[c].pc = "idle"
  BY DEF ServiceInit, NoCall, NoVerdict
<1> QED  BY <1>1 DEF OrderInv, RunsApart, RootsApart, ForgottenApart, SurvivorStaysNameable,
                     Fresh, Active

LEMMA NextOrderInv == ServiceInv /\ OrderInv /\ [ServiceNext]_serviceVars => OrderInv'
<1> SUFFICES ASSUME ServiceInv, OrderInv, [ServiceNext]_serviceVars PROVE OrderInv'
  OBVIOUS
<1>1. MemoryAgrees
  BY Parts DEF Stored
<1>2. ASSUME RunsAge, UNCHANGED <<memory, forgotten>>, SurvivorStaysNameable' PROVE OrderInv'
  BY <1>1, <1>2, SameStaysApart DEF OrderInv
<1>3. CASE UNCHANGED <<call, runs, memory, forgotten, verdict>>
  <2>1. RunsAge
    BY <1>3 DEF RunsAge, Fresh, Active
  <2> QED  BY <1>2, <1>3, <2>1, VerdictStays DEF OrderInv
<1>4. ASSUME NEW c \in Calls, NEW entry \in Entries, NEW answer \in shown \cup {0},
             Ask(c, entry, answer)
      PROVE  OrderInv'
  BY <1>4, AskStaysApart
<1>5. ASSUME NEW c \in Calls, GivesUp(c) \/ Answered(c)
      PROVE  OrderInv'
  <2>1. UNCHANGED <<memory, forgotten>> /\ (Reads(c) \/ UNCHANGED <<shown, verdict>>)
    BY <1>5 DEF GivesUp, Answered
  <2> QED  BY <1>2, <1>5, <2>1, OthersAge, ReadsStayNameable
<1>6. ASSUME NEW c \in Calls,
             \/ GetToken(c) \/ RunFails(c) \/ Page(c) \/ PageRefused(c)
             \/ Gateway(c) \/ GatewayUnavailable(c) \/ Direct(c) \/ Exchange(c) \/ BrokerRefuses(c)
             \/ Clear(c) \/ Update(c) \/ CallApi(c)
      PROVE  OrderInv'
  <2>1. UNCHANGED <<memory, forgotten, verdict>>
    BY <1>6 DEF GetToken, RunFails, Page, PageRefused, Gateway, GatewayUnavailable, Direct,
                Exchange, BrokerRefuses, Clear, Update, CallApi
  <2> QED  BY <1>2, <1>6, <2>1, OthersAge, VerdictStays DEF OrderInv
<1>7. ASSUME NEW c \in Calls, Step(c) \/ SkipStep(c) \/ StepLost(c)
      PROVE  OrderInv'
  <2>1. PICK k \in Run : k = call[c]
    BY ARun
  <2>2. k.pc = "step" /\ UNCHANGED <<shown, verdict>>
    BY <1>7, <2>1 DEF Step, SkipStep, StepLost
  <2>3. RunsAge /\ ~Fresh(c)'
    BY <1>7, ScenarioAges
  <2>4. \/ UNCHANGED <<memory, forgotten>>
        \/ Sendable(c) /\ (Does(Op(k), Value(c), k.run) \/ UNCHANGED <<memory, forgotten>>)
    BY <1>7, <2>1 DEF Step, SkipStep, StepLost
  <2>5. SurvivorStaysNameable'
    BY <2>2, VerdictStays DEF OrderInv
  <2>6. RunsApart'
    BY <2>3, RunsStayApart DEF OrderInv
  <2> QED  BY <1>2, <2>1, <2>2, <2>3, <2>4, <2>5, <2>6, DoesStaysApart DEF OrderInv
<1>8. ASSUME NEW x \in Customers, NEW name \in Names \cup {Gone}, Edit(x, name)
      PROVE  OrderInv'
  <2>1. /\ UNCHANGED <<memory, forgotten, verdict, runs>>
        /\ call' = [k \in Calls |-> [call[k] EXCEPT !.steady = @ \ {x}]]
    BY <1>8 DEF Edit
  <2>2. ASSUME NEW c \in Calls
        PROVE  call'[c].pc = call[c].pc /\ call'[c].run = call[c].run /\ call'[c].step = call[c].step
    <3>1. PICK k \in Run : k = call[c]
      BY ARun
    <3>2. call'[c] = [k EXCEPT !.steady = k.steady \ {x}]
      BY <2>1, <3>1
    <3> QED  BY <3>1, <3>2 DEF Run
  <2>3. RunsAge
    BY <2>1, <2>2 DEF RunsAge, Fresh, Active
  <2> QED  BY <1>2, <2>1, <2>3, VerdictStays DEF OrderInv
<1>9. CASE CompleteForgets
  BY <1>9, CompletedStaysApart
<1>10. CASE ChangeMembership \/ ArmPrimaryOnly \/ RestoreForgetScope
  BY <1>3, <1>10 DEF ChangeMembership, ArmPrimaryOnly, RestoreForgetScope, probeVars
<1>11. CASE UNCHANGED serviceVars
  BY <1>3, <1>11 DEF serviceVars, probeVars
<1> QED  BY <1>4, <1>5, <1>6, <1>7, <1>8, <1>9, <1>10, <1>11 DEF ServiceNext

(* A survivor the Range's observation has shown, that still lives and that   *)
(* the flag check no longer takes (registry.py, range_mem.remaining_copies): *)
(* as many other runs as are listed have stored a memory and were not over   *)
(* when its own was forgotten, whatever answers were lost in between.        *)
THEOREM SurvivorsAreNameable == ServiceSpec => []SurvivorStaysNameable
<1>1. ServiceInit => OrderInv
  BY InitOrderInv
<1>2. ServiceInv /\ OrderInv /\ [ServiceNext]_serviceVars => OrderInv'
  BY NextOrderInv
<1>3. OrderInv => SurvivorStaysNameable
  BY DEF OrderInv
<1> QED  BY <1>1, <1>2, <1>3, ServiceInvariant, PTL DEF ServiceSpec
=============================================================================
