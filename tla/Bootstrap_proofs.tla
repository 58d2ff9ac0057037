---------------------------- MODULE Bootstrap_proofs ----------------------------
(* Proofs about Bootstrap for any number of migrations, runs, faults and     *)
(* interventions of the operator.                                            *)
EXTENDS Bootstrap, FiniteSetTheorems, TLAPS

(* The steps of main in bootstrap_local.py, of enable_keycloak_tls.py after   *)
(* its bundle, and of connect_onyx.py; the rest are shared by the first two. *)
BootstrapSteps == {"secrets", "volume", "broker", "mint", "tls", "volumes", "keycloak", "api",
                   "realm", "ready"}
EnableSteps    == {"env", "overlay", "recreate"}
ConnectSteps   == {"network", "client", "put", "scopes", "readback", "store", "discovery"}
SharedSteps    == {"certificate", "key", "bundle", "up", "migrate"}

StepsAgree ==
  /\ script.pc \in BootstrapSteps => Bootstrapping
  /\ script.pc \in EnableSteps => script.name = "enable"
  /\ script.pc \in ConnectSteps => script.name = "connect"
  /\ script.pc \in SharedSteps => Bootstrapping \/ script.name = "enable"

(* What a job has applied and recorded by the step it is at.                 *)
JobAgrees(d) ==
  /\ job[d].pc = "record" => d = "core" /\ job[d].at = 1 /\ 1 \in db[d].applied
  /\ job[d].pc = "done" => db[d].recorded = Versions
  /\ db[d].applied \subseteq db[d].recorded \union (IF d = "core" THEN {1} ELSE {})

(* Past the migration job, and once up, the API's database is migrated.      *)
ScriptMigrated ==
  script.pc \in {"keycloak", "api", "realm", "ready", "recreate"}
    \/ (script.pc = "done" /\ script.name # "connect")
  => JobEnded("core") /\ db["core"].recorded = Versions

(* A pair nobody deleted from is whole once it is written, and what is in    *)
(* the bundle is its certificate.                                            *)
Intact == removed \intersect {"cert", "key"} = {}

PairAgrees ==
  /\ script.pc = "key" => pairs # 0
  /\ Intact /\ script.pc = "key" => cert # 0
  /\ Intact /\ script.pc = "bundle" => Present
  /\ Intact /\ bundle # 0 => bundle = cert /\ Present
  /\ service["core"] # 0 => bundle # 0

Undisturbed(name) == script.name = name /\ ~script.hit
Passwords == {Order[i] : i \in 1..Len(Order)}

(* A run of bootstrap nobody interferes with, by the step it is at.          *)
RunAgrees ==
  Bootstrapping /\ ~script.hit =>
    /\ script.pc = "secrets" => \A i \in 1..(script.at - 1) : file[Order[i]] # 0
    /\ script.pc \notin {"secrets", "idle", "failed"} => \A n \in Passwords : file[n] # 0
    /\ script.pc \notin {"secrets", "volume", "broker", "mint", "idle", "failed"} =>
         \A t \in Tokens : token[t] = file["qdrant"]
    /\ script.pc = "key" => cert # 0
    /\ script.pc \in {"bundle", "volumes", "up", "migrate", "keycloak", "api", "realm", "ready", "done"}
         => Present
    /\ script.pc \in {"ready", "done"} => keycloak.cert = cert
    /\ script.pc = "done" => Ready

(* A run with --reset, from the removal of the volume on.                    *)
CoreSettled == db["core"].role = file["api"] /\ 1 \in db["core"].recorded

CoreMigrates ==
  /\ job["core"].pc \in {"connect", "first", "record", "files", "done"}
  /\ db["core"].admin = file["postgres"]
  /\ job["core"].pc \in {"connect", "first"} => ~db["core"].table /\ db["core"].role = 0
  /\ job["core"].pc = "record" => db["core"].role = file["api"]
  /\ job["core"].pc \in {"files", "done"} => CoreSettled

ResetAgrees ==
  Undisturbed("reset") =>
    /\ script.pc = "up" => db["core"] = NoVolume /\ job["core"] = NoJob
    /\ script.pc = "migrate" => CoreMigrates
    /\ script.pc \in {"keycloak", "api", "realm", "ready"} => CoreSettled
    /\ script.pc \in {"up", "migrate", "keycloak"} => keycloak.cert = 0
    /\ script.pc \in {"up", "migrate", "keycloak", "api"} => service["core"] = 0
    /\ script.pc \in {"api", "realm"} => keycloak.cert = cert
    /\ script.pc \in {"realm", "ready"} => service["core"] = ApiStarted
    /\ script.pc = "failed" => "postgres" \in script.created \/ bundle = 0 \/ cert # key

(* A run of enable_keycloak_tls.py nobody interferes with.                   *)
EnableAgrees ==
  Undisturbed("enable") =>
    /\ script.pc \in {"env", "overlay", "up", "migrate", "recreate", "done"} => bundle = cert
    /\ script.pc \in {"overlay", "up", "migrate", "recreate", "done"} => env # "http"
    /\ script.pc \in {"up", "migrate", "recreate", "done"} => overlay # "absent"
    /\ script.pc = "done" => keycloak.cert = cert

(* A run of connect_onyx.py nobody interferes with.                          *)
ConnectAgrees ==
  Undisturbed("connect") =>
    /\ script.pc \in {"readback", "store", "discovery", "done"} => keycloak.scopes
    /\ script.pc \in {"discovery", "done"} => onyx = keycloak.secret

BootInv ==
  /\ TypeOK /\ StepsAgree
  /\ UntouchedSecretsOpenTheVolumes
  /\ (\A d \in Databases : JobAgrees(d)) /\ MigrationsHold /\ ScriptMigrated
  /\ PairAgrees /\ RunAgrees /\ ResetAgrees /\ EnableAgrees /\ ConnectAgrees

-----------------------------------------------------------------------------
LEMMA Names ==
  /\ Len(Order) = 5 /\ Order \in [1..5 -> Passwords]
  /\ Passwords = {"postgres", "api", "memory", "service", "qdrant"}
  /\ \A n \in Passwords : \E i \in 1..5 : Order[i] = n
  /\ Secrets = Passwords \union {"broker"}
  /\ Databases = {"core", "memory"}
  /\ Admin["core"] = "postgres" /\ Admin["memory"] = "memory"
  /\ Role["core"] = "api" /\ Role["memory"] = "service"
  /\ \A d \in Databases : Admin[d] \in Secrets /\ Role[d] \in Secrets
BY DEF Order, Passwords, Secrets, Databases, Admin, Role

LEMMA CountedAll ==
  ASSUME NEW S \in SUBSET Versions, Cardinality(S) = Files
  PROVE  S = Versions
<1>1. IsFiniteSet(Versions) /\ Cardinality(Versions) = Files
  BY BootstrapAssumption, FS_Interval DEF Versions
<1> QED  BY <1>1, FS_Subset

-----------------------------------------------------------------------------
(* TypeOK in parts, so that a step's proof meets only what it changes.       *)
Volume == [admin : Nat, role : Nat, table : BOOLEAN, applied : SUBSET Versions,
           again : SUBSET Versions, recorded : SUBSET Versions]
JobSteps == {"none", "connect", "first", "roles", "schemas", "record", "files", "done", "failed"}
JobState == [pc : JobSteps, at : 0..Files]
Server   == [cert : Nat, secret : Nat, scopes : BOOLEAN]
Steps    == {"idle", "secrets", "volume", "broker", "mint", "tls", "certificate", "key", "bundle",
             "volumes", "up", "migrate", "keycloak", "api", "realm", "ready", "env", "overlay",
             "recreate", "network", "client", "put", "scopes", "readback", "store", "discovery",
             "done", "failed"}
Run      == [name : Scripts \union {"none"}, at : 1..Len(Order), created : SUBSET Secrets,
             hit : BOOLEAN, pc : Steps]

FilesType == /\ file \in [Secrets -> Nat] /\ made \in [Secrets -> Nat] /\ token \in [Tokens -> Nat]
             /\ {cert, key, bundle, pairs, onyx} \subseteq Nat
             /\ certifi \in BOOLEAN /\ env \in {"none", "http", "https"}
             /\ overlay \in {"shipped", "written", "absent"}
StackType == /\ db \in [Databases -> Volume] /\ job \in [Databases -> JobState]
             /\ keycloak \in Server /\ service \in [Databases -> Nat]
BoundsType == /\ removed \subseteq Secrets \union {"cert", "key", "onyx"}
              /\ runs \in 0..MaxRuns /\ changes \in 0..MaxChanges /\ faults \in 0..MaxFaults

LEMMA TypeParts == TypeOK <=> FilesType /\ StackType /\ script \in Run /\ BoundsType
BY DEF TypeOK, FilesType, StackType, BoundsType, Volume, JobSteps, JobState, Server, Steps, Run

LEMMA VolumeUpdates ==
  ASSUME NEW v \in Volume
  PROVE  /\ \A b \in BOOLEAN : [v EXCEPT !.table = b] \in Volume
         /\ \A r \in Nat : [v EXCEPT !.role = r] \in Volume
         /\ \A S \in SUBSET Versions : /\ [v EXCEPT !.applied = S] \in Volume
                                     /\ [v EXCEPT !.again = S] \in Volume
                                     /\ [v EXCEPT !.recorded = S] \in Volume
<1>1. \A r \in Nat : [v EXCEPT !.role = r] \in Volume
  BY DEF Volume
<1>2. \A b \in BOOLEAN : [v EXCEPT !.table = b] \in Volume
  BY DEF Volume
<1>3. \A S \in SUBSET Versions : /\ [v EXCEPT !.applied = S] \in Volume
                               /\ [v EXCEPT !.again = S] \in Volume
                               /\ [v EXCEPT !.recorded = S] \in Volume
  BY DEF Volume
<1> QED  BY <1>1, <1>2, <1>3

LEMMA ServerUpdates ==
  ASSUME NEW k \in Server
  PROVE  /\ [k EXCEPT !.scopes = TRUE] \in Server
         /\ \A n \in Nat : [k EXCEPT !.secret = n] \in Server
BY DEF Server

LEMMA InitTypes == Init => TypeOK
<1> SUFFICES ASSUME Init PROVE TypeOK
  OBVIOUS
<1>1. FilesType
  BY Names DEF Init, FilesType
<1>2. StackType
  <2>1. NoVolume \in Volume /\ NoJob \in JobState /\ Down \in Server
    BY BootstrapAssumption DEF NoVolume, Volume, NoJob, JobState, JobSteps, Down, Server
  <2> QED  BY <2>1 DEF Init, StackType
<1>3. script \in Run
  BY Names DEF Init, Run, Steps
<1>4. BoundsType
  BY BootstrapAssumption DEF Init, BoundsType
<1> QED  BY <1>1, <1>2, <1>3, <1>4, TypeParts

(* A script's record moves from step to step.                                *)
LEMMA RunMoves ==
  ASSUME script \in Run
  PROVE  /\ \A pc \in Steps : [script EXCEPT !.pc = pc] \in Run
         /\ [script EXCEPT !.hit = TRUE] \in Run
         /\ \A b \in BOOLEAN : [script EXCEPT !.hit = b] \in Run
BY DEF Run

LEMMA StepRun == BootInv /\ [Next]_vars => script' \in Run
<1> SUFFICES ASSUME BootInv, [Next]_vars PROVE script' \in Run
  OBVIOUS
<1>0. script \in Run
  BY TypeParts DEF BootInv
<1>1. CASE UNCHANGED script
  BY <1>0, <1>1
<1>2. ASSUME NEW name \in Scripts, Start(name) PROVE script' \in Run
  BY <1>2, Names DEF Start, Run, Steps
<1>3. CASE GenerateSecret
  <2> DEFINE C == IF Missing(Order[script.at]) THEN script.created \union {Order[script.at]}
                  ELSE script.created
             A == IF script.at = Len(Order) THEN 1 ELSE script.at + 1
             P == IF script.at = Len(Order) THEN "volume" ELSE script.pc
  <2>1. script' = [script EXCEPT !.created = C, !.at = A, !.pc = P]
    BY <1>3 DEF GenerateSecret
  <2>2. script.at \in 1..5 /\ script.pc \in Steps /\ script.created \in SUBSET Secrets
    BY <1>0, Names DEF Run
  <2>3. C \in SUBSET Secrets /\ A \in 1..5 /\ P \in Steps
    BY <2>2, Names DEF Steps
  <2> HIDE DEF C, A, P
  <2> QED  BY <1>0, <2>1, <2>3, Names DEF Run
<1>4. ASSUME NEW pc \in Steps, Goes(pc) PROVE script' \in Run
  BY <1>0, <1>4, RunMoves DEF Goes
<1>5. ASSUME NEW d \in Databases, JobFails(d) PROVE script' \in Run
  <2>1. (script.hit \/ d = "core") \in BOOLEAN
    OBVIOUS
  <2> QED  BY <1>0, <1>5, RunMoves DEF JobFails, Run
<1>6. CASE Remove
  BY <1>0, <1>6, RunMoves DEF Remove, Removal
<1>7. CASE ComposeDown
  BY <1>0, <1>7, RunMoves DEF ComposeDown
<1>8. CASE \/ CheckVolume \/ EnsureBrokerKey \/ EnsureTls \/ WriteCertificate \/ WriteKey \/ BuildBundle
           \/ Reset \/ ComposeUp \/ Migrated \/ StartKeycloak \/ StartApi
  <2>1. \E pc \in Steps : Goes(pc)
    BY <1>8 DEF CheckVolume, EnsureBrokerKey, EnsureTls, WriteCertificate, WriteKey, BuildBundle,
                Reset, ComposeUp, Migrated, StartKeycloak, StartApi, Steps
  <2> QED  BY <2>1, <1>4
<1>9. CASE \/ WaitForRealm \/ WaitForApi \/ PatchEnv \/ WriteOverlay \/ Recreate \/ CheckOnyx
           \/ ClientSecret \/ PutClient \/ GrantScopes \/ ReadBack \/ StoreSecret \/ Discover
           \/ Interrupt
  <2>1. \E pc \in Steps : Goes(pc)
    BY <1>9 DEF WaitForRealm, WaitForApi, PatchEnv, WriteOverlay, Recreate, CheckOnyx, ClientSecret,
                PutClient, GrantScopes, ReadBack, StoreSecret, Discover, Interrupt, Steps
  <2> QED  BY <2>1, <1>4
<1>10. CASE Mint
  <2>1. UNCHANGED script \/ Goes("tls")
    BY <1>10 DEF Mint
  <2> QED  BY <2>1, <1>1, <1>4 DEF Steps
<1>11. CASE \/ MemoryUp \/ First \/ CreateRoles \/ CreateSchemas \/ StartMemory \/ InstallCertifi
            \/ \E d \in Databases : Connect(d) \/ Record(d) \/ ApplyMigrations(d)
            \/ UNCHANGED vars
  <2>1. UNCHANGED script
    BY <1>11 DEF MemoryUp, First, CreateRoles, CreateSchemas, StartMemory, InstallCertifi, Connect,
                 Record, ApplyMigrations, OnlyJob, vars
  <2> QED  BY <2>1, <1>1
<1> QED  BY <1>2, <1>3, <1>5, <1>6, <1>7, <1>8, <1>9, <1>10, <1>11 DEF Next

(* Which steps leave the files alone, and which the stack.                   *)
LEMMA KeepFiles ==
  ASSUME \/ Reset \/ ComposeUp \/ MemoryUp \/ First \/ CreateRoles \/ CreateSchemas
         \/ StartMemory \/ Migrated \/ StartKeycloak \/ StartApi \/ WaitForRealm \/ WaitForApi
         \/ Recreate \/ CheckOnyx \/ PutClient \/ GrantScopes \/ ReadBack \/ Discover
         \/ Interrupt \/ ComposeDown \/ EnsureTls \/ UNCHANGED vars
         \/ \E d \in Databases : Connect(d) \/ Record(d) \/ ApplyMigrations(d) \/ JobFails(d)
         \/ \E name \in Scripts : Start(name)
  PROVE  UNCHANGED <<disk, certifi>>
BY DEF Reset, ComposeUp, MemoryUp, First, CreateRoles, CreateSchemas, StartMemory, Migrated,
       StartKeycloak, StartApi, WaitForRealm, WaitForApi, Recreate, CheckOnyx, PutClient, GrantScopes,
       ReadBack, Discover, Interrupt, ComposeDown, EnsureTls, Connect, Record, ApplyMigrations,
       JobFails, Start, OnlyJob, vars

LEMMA KeepStack ==
  ASSUME \/ GenerateSecret \/ CheckVolume \/ EnsureBrokerKey \/ Mint \/ EnsureTls
         \/ WriteCertificate \/ WriteKey \/ BuildBundle \/ Migrated \/ WaitForRealm \/ WaitForApi
         \/ PatchEnv \/ WriteOverlay \/ CheckOnyx \/ ClientSecret \/ StoreSecret \/ Discover
         \/ Interrupt \/ Remove \/ InstallCertifi \/ UNCHANGED vars
         \/ \E name \in Scripts : Start(name)
  PROVE  UNCHANGED docker
BY DEF GenerateSecret, CheckVolume, EnsureBrokerKey, Mint, EnsureTls, WriteCertificate, WriteKey,
       BuildBundle, Migrated, WaitForRealm, WaitForApi, PatchEnv, WriteOverlay, CheckOnyx,
       ClientSecret, StoreSecret, Discover, Interrupt, Remove, Removal, InstallCertifi, Start, vars

LEMMA StepFiles == BootInv /\ [Next]_vars => FilesType'
<1> SUFFICES ASSUME BootInv, [Next]_vars PROVE FilesType'
  OBVIOUS
<1>0. FilesType /\ StackType /\ script \in Run
  BY TypeParts DEF BootInv
<1> USE DEF disk, tls, config
<1>1. CASE UNCHANGED <<disk, certifi>>
  BY <1>0, <1>1 DEF FilesType
<1>2. CASE GenerateSecret
  <2>1. Order[script.at] \in Secrets
    BY <1>0, Names DEF Run
  <2>2. UNCHANGED <<token, cert, key, bundle, pairs, onyx, env, overlay, certifi>>
        /\ file' \in [Secrets -> Nat] /\ made' \in [Secrets -> Nat]
    BY <1>0, <1>2, <2>1 DEF GenerateSecret, FilesType
  <2> QED  BY <1>0, <2>2 DEF FilesType
<1>3. CASE CheckVolume
  BY <1>0, <1>3 DEF CheckVolume, FilesType
<1>4. CASE EnsureBrokerKey
  BY <1>0, <1>4, Names DEF EnsureBrokerKey, FilesType
<1>5. CASE Mint
  BY <1>0, <1>5, Names DEF Mint, FilesType
<1>6. CASE WriteCertificate \/ WriteKey \/ BuildBundle
  BY <1>0, <1>6 DEF WriteCertificate, WriteKey, BuildBundle, FilesType
<1>7. CASE PatchEnv \/ WriteOverlay
  BY <1>0, <1>7 DEF PatchEnv, EnvPatched, WriteOverlay, FilesType
<1>8. CASE ClientSecret \/ StoreSecret
  <2>1. keycloak.secret \in Nat
    BY <1>0 DEF StackType, Server
  <2> QED  BY <1>0, <1>8, <2>1 DEF ClientSecret, StoreSecret, FilesType
<1>9. CASE Remove
  <2>1. UNCHANGED <<made, token, bundle, pairs, env, overlay, certifi>>
    BY <1>9 DEF Remove, Removal
  <2>2. file' \in [Secrets -> Nat] /\ {cert', key', onyx'} \subseteq Nat
    BY <1>0, <1>9 DEF Remove, FilesType
  <2> QED  BY <1>0, <2>1, <2>2 DEF FilesType
<1>10. CASE InstallCertifi
  BY <1>0, <1>10 DEF InstallCertifi, FilesType
<1> QED  BY KeepFiles, <1>1, <1>2, <1>3, <1>4, <1>5, <1>6, <1>7, <1>8, <1>9, <1>10 DEF Next

LEMMA StepStack == BootInv /\ [Next]_vars => StackType'
<1> SUFFICES ASSUME BootInv, [Next]_vars PROVE StackType'
  OBVIOUS
<1>0. FilesType /\ StackType /\ script \in Run /\ \A d \in Databases : JobAgrees(d)
  BY TypeParts DEF BootInv
<1>0a. db \in [Databases -> Volume] /\ job \in [Databases -> JobState]
  BY <1>0 DEF StackType
<1> USE Names
<1>1. CASE UNCHANGED docker
  BY <1>0, <1>1 DEF docker, StackType
<1>2. CASE Reset
  <2>1. NoVolume \in Volume /\ NoJob \in JobState /\ Down \in Server
    BY BootstrapAssumption DEF NoVolume, Volume, NoJob, JobState, JobSteps, Down, Server
  <2> QED  BY <1>0, <1>2, <2>1 DEF Reset, VolumeRemoved, StackType, docker
<1>3. ASSUME NEW d \in Databases, NEW v \in Volume, NEW j \in JobState,
             db' = [db EXCEPT ![d] = v], job' = [job EXCEPT ![d] = j], UNCHANGED <<keycloak, service>>
      PROVE  StackType'
  BY <1>0, <1>3 DEF StackType
<1>4. ASSUME NEW d \in Databases, Prepared(d), UNCHANGED <<keycloak, service>>
      PROVE  StackType'
  <2> DEFINE v == [db[d] EXCEPT !.admin = IF @ = 0 THEN file[Admin[d]] ELSE @]
             j == [pc |-> "connect", at |-> 0]
  <2>1. db' = [db EXCEPT ![d] = v] /\ job' = [job EXCEPT ![d] = j]
    BY <1>0a, <1>4 DEF Prepared
  <2>2. j \in JobState
    BY BootstrapAssumption DEF JobState, JobSteps
  <2>3. file[Admin[d]] \in Nat
    BY <1>0 DEF FilesType
  <2>4. v \in Volume
    BY <1>0a, <2>3 DEF Volume
  <2> HIDE DEF v, j
  <2> QED  BY <1>3, <1>4, <2>1, <2>2, <2>4
<1>5. ASSUME NEW d \in Databases, NEW pc \in JobSteps, Job(d, pc), UNCHANGED <<db, keycloak, service>>
      PROVE  StackType'
  <2>1. [job[d] EXCEPT !.pc = pc] \in JobState
    BY <1>0a DEF JobState
  <2>2. job' = [job EXCEPT ![d] = [job[d] EXCEPT !.pc = pc]]
    BY <1>0a, <1>5 DEF Job
  <2> QED  BY <1>0, <1>5, <2>1, <2>2 DEF StackType
<1>6. ASSUME NEW d \in Databases, NEW v \in Volume, NEW pc \in JobSteps,
             db' = [db EXCEPT ![d] = v], Job(d, pc), UNCHANGED <<keycloak, service>>
      PROVE  StackType'
  <2>1. [job[d] EXCEPT !.pc = pc] \in JobState
    BY <1>0a DEF JobState
  <2>2. job' = [job EXCEPT ![d] = [job[d] EXCEPT !.pc = pc]]
    BY <1>0a, <1>6 DEF Job
  <2> QED  BY <1>3, <1>6, <2>1, <2>2
<1>7. CASE ComposeUp \/ MemoryUp
  <2>1. \E d \in Databases : Prepared(d)
    BY <1>7 DEF ComposeUp, MemoryUp
  <2> QED  BY <1>4, <1>7, <2>1 DEF ComposeUp, MemoryUp
<1>8. ASSUME NEW d \in Databases, Connect(d) \/ JobFails(d) PROVE StackType'
  <2>1. (\E pc \in JobSteps : Job(d, pc)) /\ UNCHANGED <<db, keycloak, service>>
    BY <1>8 DEF Connect, JobFails, OnlyJob, JobSteps
  <2> QED  BY <1>5, <2>1
<1>9. \A d \in Databases : RoleCreated(d) \in Nat
  BY <1>0, <1>0a DEF RoleCreated, FilesType, Volume
<1>10. CASE First
  <2>1. UNCHANGED <<keycloak, service>>
    BY <1>10 DEF First, OnlyJob
  <2>2. CASE db["core"].table
    BY <1>5, <1>10, <2>1, <2>2 DEF First, JobSteps
  <2>3. CASE ~db["core"].table
    <3> DEFINE v == [db["core"] EXCEPT !.role = RoleCreated("core"), !.table = TRUE,
                                       !.applied = @ \union {1}]
               j == [pc |-> "record", at |-> 1]
    <3>1. db' = [db EXCEPT !["core"] = v] /\ job' = [job EXCEPT !["core"] = j]
      <4>1. db' = [db EXCEPT !["core"] = v]
        BY <1>0a, <1>10, <2>3, ZenonT(40) DEF First
      <4>2. job' = [job EXCEPT !["core"] = j]
        BY <1>10, <2>3, ZenonT(40) DEF First
      <4> QED  BY <4>1, <4>2
    <3> DEFINE w == [db["core"] EXCEPT !.role = RoleCreated("core")]
               x == [w EXCEPT !.table = TRUE]
    <3>2. w \in Volume
      BY <1>0a, <1>9, VolumeUpdates
    <3>3. x \in Volume /\ x.applied \union {1} \in SUBSET Versions
      <4>1. x \in Volume
        BY <3>2, VolumeUpdates
      <4> HIDE DEF x
      <4>2. x.applied \in SUBSET Versions /\ 1 \in Versions
        BY <4>1, BootstrapAssumption DEF Volume, Versions
      <4> QED  BY <4>1, <4>2
    <3>4. v = [x EXCEPT !.applied = x.applied \union {1}]
      OBVIOUS
    <3>5. v \in Volume
      BY <3>3, <3>4, VolumeUpdates
    <3>6. j \in JobState
      BY BootstrapAssumption DEF JobState, JobSteps
    <3> HIDE DEF v, j, w, x
    <3> QED  BY <1>3, <2>1, <3>1, <3>5, <3>6
  <2> QED  BY <2>2, <2>3
<1>11. CASE CreateRoles
  <2> DEFINE v == [db["memory"] EXCEPT !.role = RoleCreated("memory")]
  <2>1. db' = [db EXCEPT !["memory"] = v] /\ Job("memory", "schemas") /\ UNCHANGED <<keycloak, service>>
    BY <1>0a, <1>11 DEF CreateRoles, OnlyJob
  <2>2. v \in Volume
    BY <1>0a, <1>9 DEF Volume
  <2> HIDE DEF v
  <2> QED  BY <1>6, <2>1, <2>2 DEF JobSteps
<1>12. CASE CreateSchemas
  <2> DEFINE v == [db["memory"] EXCEPT !.table = TRUE]
  <2>1. db' = [db EXCEPT !["memory"] = v] /\ Job("memory", "files") /\ UNCHANGED <<keycloak, service>>
    BY <1>0a, <1>12 DEF CreateSchemas, OnlyJob
  <2>2. v \in Volume
    BY <1>0a, VolumeUpdates
  <2> HIDE DEF v
  <2> QED  BY <1>6, <2>1, <2>2 DEF JobSteps
<1>13. ASSUME NEW d \in Databases, Record(d) PROVE StackType'
  <2> DEFINE v == [db[d] EXCEPT !.recorded = @ \union {job[d].at}]
  <2>1. db' = [db EXCEPT ![d] = v] /\ Job(d, "files") /\ UNCHANGED <<keycloak, service>>
    BY <1>0a, <1>13 DEF Record, OnlyJob
  <2>2. job[d].at \in Versions
    BY <1>0, <1>13, BootstrapAssumption DEF Record, JobAgrees, Versions
  <2>3. v \in Volume
    BY <1>0a, <2>2 DEF Volume
  <2> HIDE DEF v
  <2> QED  BY <1>6, <2>1, <2>3 DEF JobSteps
<1>14. ASSUME NEW d \in Databases, ApplyMigrations(d) PROVE StackType'
  <2>1. UNCHANGED <<keycloak, service>>
    BY <1>14 DEF ApplyMigrations, OnlyJob
  <2>2. ASSUME NEW u \in Unapplied(d), Apply(d, u) PROVE StackType'
    <3> DEFINE v == [Applied(d, u) EXCEPT !.recorded = @ \union {u}]
    <3>1. u \in Versions
      BY <2>2 DEF Unapplied
    <3> DEFINE G == IF u \in db[d].applied THEN db[d].again \union {u} ELSE db[d].again
               w == [db[d] EXCEPT !.applied = @ \union {u}]
               x == [w EXCEPT !.again = G]
    <3>2a. db[d] \in Volume /\ db[d].applied \union {u} \in SUBSET Versions /\ G \in SUBSET Versions
           /\ db[d].recorded \union {u} \in SUBSET Versions
      BY <1>0a, <3>1 DEF Volume
    <3>2b. w \in Volume
      BY <3>2a, VolumeUpdates
    <3>2c. x \in Volume
      BY <3>2a, <3>2b, VolumeUpdates
    <3>2d. v = [x EXCEPT !.recorded = db[d].recorded \union {u}]
      BY DEF Applied
    <3>2e. \A S \in SUBSET Versions : [x EXCEPT !.recorded = S] \in Volume
      BY <3>2c, VolumeUpdates
    <3>2. v \in Volume
      BY <3>2a, <3>2d, <3>2e, Zenon
    <3>3. db' = [db EXCEPT ![d] = v] /\ UNCHANGED job
      BY <2>2 DEF Apply
    <3> HIDE DEF v
    <3> QED  BY <1>0, <2>1, <3>2, <3>3 DEF StackType
  <2>3. ASSUME NEW pc \in JobSteps, Job(d, pc), UNCHANGED db PROVE StackType'
    BY <1>5, <2>1, <2>3
  <2> QED  BY <1>14, <2>2, <2>3 DEF ApplyMigrations, JobSteps
<1>15. CASE StartMemory \/ StartApi
  <2>1. file["service"] \in Nat /\ file["api"] \in Nat
    BY <1>0 DEF FilesType
  <2> QED  BY <1>0, <1>15, <2>1 DEF StartMemory, StartApi, ApiStarted, StackType
<1>16. Fresh \in Server /\ Down \in Server /\ ApiStarted \in Nat
  BY <1>0 DEF Fresh, Down, Server, ApiStarted, FilesType
<1>17. CASE StartKeycloak
  BY <1>0, <1>16, <1>17 DEF StartKeycloak, StackType
<1>18. CASE Recreate
  BY <1>0, <1>16, <1>18 DEF Recreate, StackType
<1>19. CASE PutClient \/ GrantScopes \/ ReadBack
  <2>1. onyx \in Nat /\ keycloak \in Server /\ keycloak.secret \in Nat
    BY <1>0 DEF FilesType, StackType, Server
  <2>2. keycloak' \in Server /\ UNCHANGED <<db, job, service>>
    <3>1. CASE PutClient
      <4>1. [keycloak EXCEPT !.secret = onyx] \in Server
        BY <2>1, ServerUpdates
      <4> QED  BY <2>1, <3>1, <4>1 DEF PutClient
    <3>2. CASE GrantScopes
      BY <2>1, <3>2, ServerUpdates DEF GrantScopes
    <3>3. CASE ReadBack
      <4>1. (1 + IF onyx > keycloak.secret THEN onyx ELSE keycloak.secret) \in Nat
        BY <2>1
      <4>2. \A n \in Nat : [keycloak EXCEPT !.secret = n] \in Server
        BY <2>1, ServerUpdates
      <4>3. keycloak' \in {keycloak, [keycloak EXCEPT !.secret =
                              1 + IF onyx > keycloak.secret THEN onyx ELSE keycloak.secret]}
        BY <3>3 DEF ReadBack
      <4> QED  BY <2>1, <3>3, <4>1, <4>2, <4>3, ZenonT(40) DEF ReadBack
    <3> QED  BY <1>19, <3>1, <3>2, <3>3
  <2> QED  BY <1>0, <2>2 DEF StackType
<1>20. CASE ComposeDown
  <2>1. NoJob \in JobState
    BY BootstrapAssumption DEF NoJob, JobState, JobSteps
  <2> QED  BY <1>0, <1>16, <1>20, <2>1 DEF ComposeDown, StackType
<1> QED  BY KeepStack, <1>1, <1>2, <1>7, <1>8, <1>10, <1>11, <1>12, <1>13, <1>14, <1>15, <1>17, <1>18,
            <1>19, <1>20 DEF Next

LEMMA StepBounds == BootInv /\ [Next]_vars => BoundsType'
<1> SUFFICES ASSUME BootInv, [Next]_vars PROVE BoundsType'
  OBVIOUS
<1>0. BoundsType
  BY TypeParts DEF BootInv
<1> USE BootstrapAssumption DEF bounds
<1>1. CASE UNCHANGED <<removed, bounds>>
  BY <1>0, <1>1 DEF BoundsType
<1>2. ASSUME NEW name \in Scripts, Start(name) PROVE BoundsType'
  BY <1>0, <1>2 DEF Start, BoundsType
<1>3. CASE MemoryUp \/ ComposeDown \/ InstallCertifi
  BY <1>0, <1>3 DEF MemoryUp, ComposeDown, InstallCertifi, BoundsType
<1>4. CASE Interrupt \/ \E d \in Databases : JobFails(d)
  BY <1>0, <1>4 DEF Interrupt, JobFails, BoundsType
<1>5. CASE Remove
  <2>1. PICK what \in Secrets \union {"cert", "key", "onyx"} : Removal(what)
    BY <1>5 DEF Remove
  <2> QED  BY <1>0, <2>1 DEF Removal, BoundsType
<1>6. CASE \/ GenerateSecret \/ CheckVolume \/ EnsureBrokerKey \/ Mint \/ EnsureTls
           \/ WriteCertificate \/ WriteKey \/ BuildBundle \/ Reset \/ ComposeUp
           \/ First \/ CreateRoles \/ CreateSchemas \/ StartMemory \/ Migrated \/ StartKeycloak
           \/ StartApi \/ WaitForRealm \/ WaitForApi \/ UNCHANGED vars
  <2>1. UNCHANGED <<removed, bounds>>
    BY <1>6 DEF GenerateSecret, CheckVolume, EnsureBrokerKey, Mint, EnsureTls, WriteCertificate,
          WriteKey, BuildBundle, Reset, ComposeUp, First, CreateRoles, CreateSchemas, StartMemory,
          Migrated, StartKeycloak, StartApi, WaitForRealm, WaitForApi, OnlyJob, vars
  <2> QED  BY <1>1, <2>1
<1>7. CASE \/ PatchEnv \/ WriteOverlay \/ Recreate \/ CheckOnyx \/ ClientSecret \/ PutClient
           \/ GrantScopes \/ ReadBack \/ StoreSecret \/ Discover
           \/ \E d \in Databases : Connect(d) \/ Record(d) \/ ApplyMigrations(d)
  <2>1. UNCHANGED <<removed, bounds>>
    BY <1>7 DEF PatchEnv, WriteOverlay, Recreate, CheckOnyx, ClientSecret, PutClient, GrantScopes,
          ReadBack, StoreSecret, Discover, Connect, Record, ApplyMigrations, OnlyJob
  <2> QED  BY <1>1, <2>1
<1> QED  BY <1>2, <1>3, <1>4, <1>5, <1>6, <1>7 DEF Next

LEMMA StepTypes == BootInv /\ [Next]_vars => TypeOK'
<1>1. FilesType' /\ StackType' /\ script' \in Run /\ BoundsType' => TypeOK'
  BY DEF TypeOK, FilesType, StackType, BoundsType, Volume, JobSteps, JobState, Server, Steps, Run
<1> QED  BY <1>1, StepFiles, StepStack, StepRun, StepBounds

-----------------------------------------------------------------------------
(* Where the scripts are.                                                    *)

(* What a move to another step leaves of a script's record.                  *)
LEMMA Moves ==
  ASSUME script \in Run
  PROVE  \A pc : Goes(pc) => /\ script'.pc = pc /\ script'.name = script.name
                            /\ script'.hit = script.hit /\ script'.at = script.at
                            /\ script'.created = script.created
BY DEF Goes, Run

(* A step that moves no script, or only marks that somebody interfered.      *)
Marked(interfered) == /\ script'.pc = script.pc /\ script'.name = script.name /\ script'.at = script.at
                      /\ script'.created = script.created
                      /\ script'.hit = (script.hit \/ interfered)

LEMMA Markings ==
  ASSUME script \in Run
  PROVE  /\ Remove \/ ComposeDown => Marked(TRUE)
         /\ \A d \in Databases : JobFails(d) => Marked(d = "core")
         /\ UNCHANGED script => Marked(FALSE)
         /\ \/ MemoryUp \/ First \/ CreateRoles \/ CreateSchemas \/ StartMemory \/ InstallCertifi
            \/ \E d \in Databases : Connect(d) \/ Record(d) \/ ApplyMigrations(d)
            \/ UNCHANGED vars
            => UNCHANGED script
<1>1. script.hit \in BOOLEAN
  BY DEF Run
<1>2. Remove \/ ComposeDown => Marked(TRUE)
  BY <1>1 DEF Remove, Removal, ComposeDown, Marked, Run
<1>3. \A d \in Databases : JobFails(d) => Marked(d = "core")
  BY <1>1 DEF JobFails, Marked, Run
<1>4. UNCHANGED script => Marked(FALSE)
  BY <1>1 DEF Marked
<1>5. \/ MemoryUp \/ First \/ CreateRoles \/ CreateSchemas \/ StartMemory \/ InstallCertifi
      \/ \E d \in Databases : Connect(d) \/ Record(d) \/ ApplyMigrations(d)
      \/ UNCHANGED vars
      => UNCHANGED script
  BY DEF MemoryUp, First, CreateRoles, CreateSchemas, StartMemory, InstallCertifi, Connect, Record,
         ApplyMigrations, OnlyJob, vars
<1> QED  BY <1>2, <1>3, <1>4, <1>5

LEMMA Generates ==
  ASSUME script \in Run, GenerateSecret
  PROVE  /\ script.pc = "secrets" /\ script'.name = script.name /\ script'.hit = script.hit
         /\ script.at # 5 => script'.pc = "secrets" /\ script'.at = script.at + 1
         /\ script.at = 5 => script'.pc = "volume"
         /\ script.created \subseteq script'.created
         /\ "postgres" \in script.created => "postgres" \in script'.created
BY Names DEF GenerateSecret, Run, At

LEMMA Starts ==
  ASSUME NEW name, Start(name)
  PROVE  /\ script'.name = name /\ script'.at = 1 /\ script'.created = {} /\ ~script'.hit
         /\ script'.pc = IF name \in {"bootstrap", "reset"} THEN "secrets"
                         ELSE IF name = "enable" THEN "certificate" ELSE "network"
         /\ JobEnded("memory") /\ ~Running
BY DEF Start

LEMMA StepSteps == BootInv /\ [Next]_vars => StepsAgree'
<1> SUFFICES ASSUME BootInv, [Next]_vars PROVE StepsAgree'
  OBVIOUS
<1>0. script \in Run /\ StepsAgree
  BY TypeParts DEF BootInv
<1> USE DEF StepsAgree, Bootstrapping, BootstrapSteps, EnableSteps, ConnectSteps, SharedSteps, At
<1>1. ASSUME NEW name \in Scripts, Start(name) PROVE StepsAgree'
  BY <1>1, Starts DEF Scripts
<1>2. CASE GenerateSecret
  BY <1>0, <1>2, Generates
<1>3. ASSUME NEW b, Marked(b) PROVE StepsAgree'
  BY <1>0, <1>3 DEF Marked
<1>4. CASE \/ CheckVolume \/ EnsureBrokerKey \/ Mint \/ EnsureTls \/ WriteCertificate \/ WriteKey
           \/ BuildBundle \/ Reset
  <2>1. CASE UNCHANGED script
    BY <1>0, <2>1
  <2>2. CASE ~UNCHANGED script
    BY <1>0, <1>4, <2>2, Moves DEF CheckVolume, EnsureBrokerKey, Mint, EnsureTls, WriteCertificate,
                                   WriteKey, BuildBundle, Reset
  <2> QED  BY <2>1, <2>2
<1>5. CASE \/ ComposeUp \/ Migrated \/ StartKeycloak \/ StartApi \/ WaitForRealm \/ WaitForApi
           \/ PatchEnv \/ WriteOverlay \/ Recreate
  BY <1>0, <1>5, Moves DEF ComposeUp, Migrated, StartKeycloak, StartApi, WaitForRealm, WaitForApi,
                           PatchEnv, WriteOverlay, Recreate
<1>6. CASE \/ CheckOnyx \/ ClientSecret \/ PutClient \/ GrantScopes \/ ReadBack \/ StoreSecret
           \/ Discover \/ Interrupt
  BY <1>0, <1>6, Moves DEF CheckOnyx, ClientSecret, PutClient, GrantScopes, ReadBack, StoreSecret,
                           Discover, Interrupt
<1> QED  BY <1>0, Markings, <1>1, <1>2, <1>3, <1>4, <1>5, <1>6 DEF Next

-----------------------------------------------------------------------------
(* The passwords.                                                            *)
LEMMA StepSecrets == BootInv /\ [Next]_vars => UntouchedSecretsOpenTheVolumes'
<1> SUFFICES ASSUME BootInv, [Next]_vars PROVE UntouchedSecretsOpenTheVolumes'
  OBVIOUS
<1>0. FilesType /\ StackType /\ script \in Run /\ UntouchedSecretsOpenTheVolumes
  BY TypeParts DEF BootInv
<1> USE DEF UntouchedSecretsOpenTheVolumes
<1>1. CASE UNCHANGED <<db, file, removed>>
  BY <1>0, <1>1
<1>2. ASSUME NEW n \in Secrets, file[n] = 0, NEW g, file' = [file EXCEPT ![n] = g],
             UNCHANGED <<db, removed>>
      PROVE  UntouchedSecretsOpenTheVolumes'
  BY <1>0, <1>2, Names DEF FilesType
<1>3. CASE GenerateSecret \/ EnsureBrokerKey
  <2>1. Order[script.at] \in Secrets /\ "broker" \in Secrets
    BY <1>0, Names DEF Run
  <2>2. UNCHANGED <<db, removed>>
    BY <1>3 DEF GenerateSecret, EnsureBrokerKey, docker
  <2>3. CASE UNCHANGED file
    BY <1>1, <2>2, <2>3
  <2>4. CASE ~UNCHANGED file
    BY <1>2, <1>3, <2>1, <2>2, <2>4 DEF GenerateSecret, EnsureBrokerKey, Missing
  <2> QED  BY <2>3, <2>4
<1>4. ASSUME NEW d \in Databases,
             \A e \in Databases \ {d} : db'[e] = db[e],
             db'[d].admin = db[d].admin \/ (db[d].admin = 0 /\ db'[d].admin = file[Admin[d]]),
             db'[d].role = db[d].role \/ (db[d].role = 0 /\ db'[d].role = file[Role[d]]),
             UNCHANGED <<file, removed>>
      PROVE  UntouchedSecretsOpenTheVolumes'
  BY <1>0, <1>4
<1>5. CASE Reset
  BY <1>0, <1>5 DEF Reset, VolumeRemoved, NoVolume, disk, docker
<1>6. db \in [Databases -> Volume]
  BY <1>0 DEF StackType
<1>7. CASE ComposeUp \/ MemoryUp
  <2>1. PICK d \in Databases : Prepared(d)
    BY <1>7, Names DEF ComposeUp, MemoryUp
  <2>2. UNCHANGED <<file, removed>>
    BY <1>7 DEF ComposeUp, MemoryUp, disk
  <2> QED  BY <1>4, <1>6, <2>1, <2>2 DEF Prepared, Volume
<1>8. CASE First \/ CreateRoles \/ CreateSchemas
  <2>1. UNCHANGED <<file, removed>>
    BY <1>8 DEF First, CreateRoles, CreateSchemas, OnlyJob, disk
  <2>2. CASE First
    BY <1>4, <1>6, <2>1, <2>2, Names DEF First, RoleCreated, Volume
  <2>3. CASE CreateRoles
    BY <1>4, <1>6, <2>1, <2>3, Names DEF CreateRoles, RoleCreated, Volume
  <2>4. CASE CreateSchemas
    BY <1>4, <1>6, <2>1, <2>4, Names DEF CreateSchemas, Volume
  <2> QED  BY <1>8, <2>2, <2>3, <2>4
<1>9. ASSUME NEW d \in Databases, Record(d) \/ ApplyMigrations(d) PROVE UntouchedSecretsOpenTheVolumes'
  <2>1. UNCHANGED <<file, removed>>
    BY <1>9 DEF Record, ApplyMigrations, OnlyJob, disk
  <2>2. UNCHANGED db \/ \E v : db' = [db EXCEPT ![d] = v] /\ v.admin = db[d].admin /\ v.role = db[d].role
    <3>1. CASE Record(d)
      <4> DEFINE v == [db[d] EXCEPT !.recorded = @ \union {job[d].at}]
      <4>1. v.admin = db[d].admin /\ v.role = db[d].role
        BY <1>6 DEF Volume
      <4>2. db' = [db EXCEPT ![d] = v]
        BY <1>6, <3>1 DEF Record
      <4> QED  BY <4>1, <4>2
    <3>2. ASSUME NEW u, Apply(d, u)
          PROVE  \E v : db' = [db EXCEPT ![d] = v] /\ v.admin = db[d].admin /\ v.role = db[d].role
      <4> DEFINE v == [Applied(d, u) EXCEPT !.recorded = @ \union {u}]
      <4>1. v.admin = db[d].admin /\ v.role = db[d].role
        BY <1>6 DEF Applied, Volume
      <4>2. db' = [db EXCEPT ![d] = v]
        BY <3>2 DEF Apply
      <4> QED  BY <4>1, <4>2
    <3> QED  BY <1>9, <3>1, <3>2 DEF ApplyMigrations
  <2> QED  BY <1>1, <1>4, <1>6, <2>1, <2>2
<1>10. CASE Remove
  <2>1. UNCHANGED db
    BY <1>10 DEF Remove, Removal, docker
  <2>2. \A n \in Secrets : n \notin removed' => n \notin removed /\ file'[n] = file[n]
    BY <1>0, <1>10 DEF Remove, Removal, FilesType
  <2> QED  BY <1>0, <2>1, <2>2, Names
<1>11. CASE ~(GenerateSecret \/ EnsureBrokerKey \/ Reset \/ ComposeUp \/ MemoryUp \/ First \/ CreateRoles
              \/ CreateSchemas \/ Remove \/ \E d \in Databases : Record(d) \/ ApplyMigrations(d))
  <2>1. UNCHANGED removed
    BY <1>11 DEF Next, Start, CheckVolume, Mint, EnsureTls, WriteCertificate, WriteKey, BuildBundle,
          Connect, JobFails, StartMemory, Migrated, StartKeycloak, StartApi, WaitForRealm, WaitForApi,
          PatchEnv, WriteOverlay, Recreate, CheckOnyx, ClientSecret, PutClient, GrantScopes, ReadBack,
          StoreSecret, Discover, Interrupt, ComposeDown, InstallCertifi, OnlyJob, vars
  <2>2. UNCHANGED file
    BY <1>11 DEF Next, Start, CheckVolume, Mint, EnsureTls, WriteCertificate, WriteKey, BuildBundle,
          Connect, JobFails, StartMemory, Migrated, StartKeycloak, StartApi, WaitForRealm, WaitForApi,
          PatchEnv, WriteOverlay, Recreate, CheckOnyx, ClientSecret, PutClient, GrantScopes, ReadBack,
          StoreSecret, Discover, Interrupt, ComposeDown, InstallCertifi, OnlyJob, vars, disk
  <2>3. UNCHANGED db
    BY <1>11 DEF Next, Start, CheckVolume, Mint, EnsureTls, WriteCertificate, WriteKey, BuildBundle,
          Connect, JobFails, StartMemory, Migrated, StartKeycloak, StartApi, WaitForRealm, WaitForApi,
          PatchEnv, WriteOverlay, Recreate, CheckOnyx, ClientSecret, PutClient, GrantScopes, ReadBack,
          StoreSecret, Discover, Interrupt, ComposeDown, InstallCertifi, OnlyJob, vars, docker
  <2> QED  BY <1>1, <2>1, <2>2, <2>3
<1> QED  BY <1>3, <1>5, <1>7, <1>8, <1>9, <1>10, <1>11

-----------------------------------------------------------------------------
(* The migrations.                                                           *)

SameVolume(d) == /\ db'[d].applied = db[d].applied /\ db'[d].again = db[d].again
                 /\ db'[d].recorded = db[d].recorded

Migrations(d) == /\ JobAgrees(d)
                 /\ db[d].again = {} /\ db[d].recorded \subseteq db[d].applied
                 /\ service[d] # 0 => db[d].recorded = Versions

LEMMA MigrationParts ==
  (\A d \in Databases : Migrations(d)) <=> (\A d \in Databases : JobAgrees(d)) /\ MigrationsHold
BY DEF Migrations, MigrationsHold

LEMMA StepMigrations ==
  ASSUME BootInv, [Next]_vars, NEW d \in Databases
  PROVE  Migrations(d)'
<1>0. FilesType /\ db \in [Databases -> Volume] /\ job \in [Databases -> JobState]
      /\ service \in [Databases -> Nat] /\ script \in Run /\ Migrations(d) /\ ScriptMigrated
  BY TypeParts, MigrationParts DEF BootInv, StackType
<1>0a. db[d] \in Volume /\ job[d] \in JobState
  BY <1>0
<1> USE DEF Migrations, JobAgrees
<1>1. ASSUME SameVolume(d), service'[d] = 0 \/ service'[d] = service[d] \/ db[d].recorded = Versions,
             \/ job'[d].pc \notin {"record", "done"}
             \/ job'[d] = job[d]
             \/ job'[d].pc = "done" /\ db[d].recorded = Versions
      PROVE  Migrations(d)'
  BY <1>0, <1>1 DEF SameVolume
<1>2. CASE UNCHANGED docker
  BY <1>1, <1>2 DEF docker, SameVolume
<1>3. CASE Reset
  <2>1. CASE script.name = "reset"
    <3>1. PICK gone \in {Databases, {"core"}} :
             /\ db' = [e \in Databases |-> IF e \in gone THEN VolumeRemoved(e) ELSE db[e]]
             /\ job' = [e \in Databases |-> IF e \in gone THEN NoJob ELSE job[e]]
             /\ service' = [e \in Databases |-> IF e \in gone THEN 0 ELSE service[e]]
      BY <1>3, <2>1 DEF Reset
    <3>2. CASE d \in gone
      BY <3>1, <3>2 DEF VolumeRemoved, NoVolume, NoJob
    <3>3. CASE d \notin gone
      <4>1. db'[d] = db[d] /\ job'[d] = job[d] /\ service'[d] = service[d]
        BY <3>1, <3>3
      <4> QED  BY <1>1, <4>1 DEF SameVolume
    <3> QED  BY <3>2, <3>3
  <2>2. CASE script.name # "reset"
    BY <1>2, <1>3, <2>2 DEF Reset
  <2> QED  BY <2>1, <2>2
<1>4. ASSUME NEW e \in Databases, Prepared(e), UNCHANGED service PROVE Migrations(d)'
  <2>1. SameVolume(d) /\ (job'[d] = job[d] \/ job'[d].pc = "connect")
    BY <1>0, <1>4 DEF Prepared, SameVolume, Volume
  <2> QED  BY <1>1, <1>4, <2>1
<1>5. CASE ComposeUp \/ MemoryUp
  BY <1>4, <1>5, Names DEF ComposeUp, MemoryUp
<1>6. ASSUME NEW e \in Databases, NEW pc, Job(e, pc), UNCHANGED <<db, service>>,
             pc # "record", pc = "done" => db[e].recorded = Versions
      PROVE  Migrations(d)'
  <2>1. job'[d] = job[d] \/ (d = e /\ job'[d].pc = pc)
    BY <1>0, <1>6 DEF Job, JobState
  <2> QED  BY <1>1, <1>6, <2>1 DEF SameVolume
<1>7. ASSUME NEW e \in Databases, Connect(e) \/ JobFails(e) PROVE Migrations(d)'
  <2>1. UNCHANGED <<db, service>> /\ \E pc \in {"failed", "first", "roles"} : Job(e, pc)
    BY <1>7 DEF Connect, JobFails, OnlyJob
  <2> QED  BY <1>6, <2>1
<1>8. CASE First
  <2>1. UNCHANGED service
    BY <1>8 DEF First, OnlyJob
  <2>2. CASE db["core"].table
    BY <1>6, <1>8, <2>1, <2>2, Names DEF First
  <2>3. CASE ~db["core"].table
    <3>1. CASE d = "core"
      <4>1. /\ db'[d].applied = db[d].applied \union {1} /\ db'[d].again = db[d].again
            /\ db'[d].recorded = db[d].recorded
            /\ job'[d].pc = "record" /\ job'[d].at = 1
        BY <1>0, <1>0a, <1>8, <2>3, <3>1 DEF First, Volume
      <4> QED  BY <1>0, <2>1, <3>1, <4>1
    <3>2. CASE d # "core"
      <4>1. db'[d] = db[d] /\ job'[d] = job[d]
        BY <1>0, <1>8, <2>3, <3>2 DEF First
      <4> QED  BY <1>1, <2>1, <4>1 DEF SameVolume
    <3> QED  BY <3>1, <3>2
  <2> QED  BY <2>2, <2>3
<1>9. CASE CreateRoles \/ CreateSchemas
  <2>1. SameVolume(d) /\ UNCHANGED service
    BY <1>0, <1>0a, <1>9 DEF CreateRoles, CreateSchemas, OnlyJob, SameVolume, Volume
  <2>2. job'[d] = job[d] \/ job'[d].pc \in {"schemas", "files"}
    BY <1>0, <1>0a, <1>9 DEF CreateRoles, CreateSchemas, Job, JobState
  <2> QED  BY <1>1, <2>1, <2>2
<1>10. ASSUME NEW e \in Databases, Record(e) PROVE Migrations(d)'
  <2>1. UNCHANGED service /\ job[e].pc = "record"
    BY <1>10 DEF Record, OnlyJob
  <2>2. CASE d = e
    <3>1. /\ db'[d].applied = db[d].applied /\ db'[d].again = db[d].again
          /\ db'[d].recorded = db[d].recorded \union {job[d].at} /\ job'[d].pc = "files"
      BY <1>0, <1>0a, <1>10, <2>2 DEF Record, Job, Volume, JobState
    <3>2. db[d].recorded \subseteq Versions /\ job[d].at \in Versions
      BY <1>0, <1>0a, <2>1, <2>2, BootstrapAssumption DEF Volume, Versions
    <3> QED  BY <1>0, <2>1, <2>2, <3>1, <3>2
  <2>3. CASE d # e
    <3>1. db'[d] = db[d] /\ job'[d] = job[d]
      BY <1>0, <1>10, <2>3 DEF Record, Job
    <3> QED  BY <1>1, <2>1, <3>1 DEF SameVolume
  <2> QED  BY <2>2, <2>3
<1>11. ASSUME NEW e \in Databases, ApplyMigrations(e) PROVE Migrations(d)'
  <2>1. UNCHANGED service
    BY <1>11 DEF ApplyMigrations, OnlyJob
  <2>2. ASSUME NEW u \in Unapplied(e), Apply(e, u) PROVE Migrations(d)'
    <3>1. UNCHANGED job
      BY <2>2 DEF Apply
    <3>2. CASE d = e
      <4>1. u \in Versions /\ u \notin db[d].applied
        BY <1>0, <2>2, <3>2 DEF Unapplied
      <4>2. /\ db'[d].applied = db[d].applied \union {u} /\ db'[d].again = db[d].again
            /\ db'[d].recorded = db[d].recorded \union {u}
        BY <1>0, <1>0a, <2>2, <3>2, <4>1 DEF Apply, Applied, Volume
      <4>3. db[d].recorded # Versions
        BY <2>2, <3>2, <4>1 DEF Unapplied
      <4> QED  BY <1>0, <2>1, <3>1, <4>1, <4>2, <4>3
    <3>3. CASE d # e
      <4>1. db'[d] = db[d]
        BY <1>0, <2>2, <3>3 DEF Apply
      <4> QED  BY <1>1, <2>1, <3>1, <4>1 DEF SameVolume
    <3> QED  BY <3>2, <3>3
  <2>3. CASE UNCHANGED db /\ \E pc \in {"done", "failed"} :
               Job(e, pc) /\ (pc = "done" => Cardinality(db[e].recorded) = Files)
    <3>1. db[e].recorded \in SUBSET Versions
      BY <1>0 DEF Volume
    <3> QED  BY <1>6, <2>1, <2>3, <3>1, CountedAll
  <2> QED  BY <1>11, <2>2, <2>3 DEF ApplyMigrations
<1>12. CASE StartMemory
  BY <1>0, <1>1, <1>12 DEF StartMemory, SameVolume
<1>13. CASE StartKeycloak \/ PutClient \/ GrantScopes \/ ReadBack
  <2>1. UNCHANGED <<db, job, service>>
    BY <1>13 DEF StartKeycloak, PutClient, GrantScopes, ReadBack
  <2> QED  BY <1>1, <2>1 DEF SameVolume
<1>14. CASE StartApi \/ Recreate
  <2>1. UNCHANGED <<db, job>> /\ db["core"].recorded = Versions
    BY <1>0, <1>14 DEF StartApi, Recreate, ScriptMigrated, At
  <2>2. d = "core" \/ service'[d] = service[d]
    BY <1>0, <1>14 DEF StartApi, Recreate
  <2> QED  BY <1>1, <2>1, <2>2 DEF SameVolume
<1>15. CASE ComposeDown
  <2>1. UNCHANGED db /\ service'[d] = 0 /\ job'[d].pc = "none"
    BY <1>15 DEF ComposeDown, NoJob
  <2> QED  BY <1>1, <2>1 DEF SameVolume
<1> QED  BY KeepStack, <1>2, <1>3, <1>5, <1>7, <1>8, <1>9, <1>10, <1>11, <1>12, <1>13, <1>14, <1>15 DEF Next

(* The API's database rests once its job has ended, until it is started anew. *)
LEMMA CoreRests ==
  ASSUME BootInv, [Next]_vars, JobEnded("core"), ~Reset, ~ComposeUp
  PROVE  db'["core"] = db["core"] /\ JobEnded("core")'
<1>0. db \in [Databases -> Volume] /\ job \in [Databases -> JobState]
  BY TypeParts DEF BootInv, StackType
<1> USE Names DEF JobEnded
<1>1. CASE UNCHANGED <<db, job>>
  BY <1>1
<1>2. CASE MemoryUp
  BY <1>0, <1>2 DEF MemoryUp, Prepared
<1>3. CASE CreateRoles \/ CreateSchemas
  BY <1>0, <1>3 DEF CreateRoles, CreateSchemas, Job
<1>4. CASE First
  BY <1>4 DEF First
<1>5. ASSUME NEW d \in Databases, Connect(d) \/ Record(d) \/ JobFails(d) PROVE db'["core"] = db["core"] /\ JobEnded("core")'
  <2>1. d = "memory"
    BY <1>5 DEF Connect, Record, JobFails
  <2> QED  BY <1>0, <1>5, <2>1 DEF Connect, Record, JobFails, Job
<1>6. ASSUME NEW d \in Databases, ApplyMigrations(d) PROVE db'["core"] = db["core"] /\ JobEnded("core")'
  <2>1. d = "memory"
    BY <1>6 DEF ApplyMigrations
  <2> QED  BY <1>0, <1>6, <2>1 DEF ApplyMigrations, Apply, Job
<1>7. CASE \/ StartMemory \/ StartKeycloak \/ StartApi \/ Recreate \/ PutClient \/ GrantScopes \/ ReadBack
  BY <1>1, <1>7 DEF StartMemory, StartKeycloak, StartApi, Recreate, PutClient, GrantScopes, ReadBack
<1>8. CASE ComposeDown
  BY <1>8 DEF ComposeDown, NoJob
<1> QED  BY KeepStack, <1>1, <1>2, <1>3, <1>4, <1>5, <1>6, <1>7, <1>8 DEF Next, docker

LEMMA StepMigrated == BootInv /\ [Next]_vars => ScriptMigrated'
<1> SUFFICES ASSUME BootInv, [Next]_vars PROVE ScriptMigrated'
  OBVIOUS
<1>0. /\ script \in Run /\ (\A d \in Databases : Migrations(d)) /\ ScriptMigrated /\ StepsAgree
  BY TypeParts, MigrationParts DEF BootInv
<1> USE DEF ScriptMigrated, At
<1>1. CASE Reset \/ ComposeUp
  <2>1. script'.pc \in {"up", "migrate"}
    BY <1>0, <1>1, Moves DEF Reset, ComposeUp
  <2> QED  BY <2>1
<1> DEFINE Settled == JobEnded("core") /\ db["core"].recorded = Versions
           Past    == \/ script.pc \in {"keycloak", "api", "realm", "ready", "recreate"}
                      \/ script.pc = "done" /\ script.name # "connect"
<1>2. CASE ~Reset /\ ~ComposeUp
  <2>1. Settled => Settled'
    BY <1>2, CoreRests
  <2>2. CASE Migrated
    <3>1. script'.pc = "failed" \/ job["core"].pc = "done"
      BY <1>0, <2>2, Moves DEF Migrated
    <3>2. script'.pc = "failed" \/ Settled
      BY <1>0, <3>1, Names DEF Migrations, JobAgrees, JobEnded
    <3> QED  BY <2>1, <3>2
  <2>3. CASE ~Migrated
    <3>1. Past' => Past
      <4>1. ASSUME NEW name \in Scripts, Start(name) PROVE ~Past'
        BY <4>1, Starts
      <4>2. CASE GenerateSecret
        BY <1>0, <4>2, Generates
      <4>3. ASSUME NEW b, Marked(b) PROVE Past' => Past
        BY <4>3 DEF Marked
      <4>4. CASE \/ CheckVolume \/ EnsureBrokerKey \/ EnsureTls \/ WriteCertificate \/ WriteKey
                 \/ BuildBundle \/ (Mint /\ ~UNCHANGED script)
        BY <1>0, <4>4, Moves DEF CheckVolume, EnsureBrokerKey, Mint, EnsureTls, WriteCertificate,
                                 WriteKey, BuildBundle
      <4>5. CASE StartKeycloak \/ StartApi \/ WaitForRealm \/ WaitForApi \/ Recreate
        BY <1>0, <4>5, Moves DEF StartKeycloak, StartApi, WaitForRealm, WaitForApi, Recreate,
                                 StepsAgree, BootstrapSteps, EnableSteps, Bootstrapping
      <4>6. CASE \/ PatchEnv \/ WriteOverlay \/ CheckOnyx \/ ClientSecret \/ PutClient
                 \/ GrantScopes \/ ReadBack \/ StoreSecret \/ Discover \/ Interrupt
        BY <1>0, <4>6, Moves DEF PatchEnv, WriteOverlay, CheckOnyx, ClientSecret, PutClient, GrantScopes,
                                 ReadBack, StoreSecret, Discover, Interrupt, StepsAgree, ConnectSteps
      <4> QED  BY <1>0, <1>2, <2>3, Markings, <4>1, <4>2, <4>3, <4>4, <4>5, <4>6 DEF Next
    <3> QED  BY <1>0, <2>1, <3>1
  <2> QED  BY <2>2, <2>3
<1> QED  BY <1>1, <1>2

-----------------------------------------------------------------------------
(* A run nobody interferes with.                                             *)

(* Steps of the jobs, the memory stack and the operator's package manager,   *)
(* beside whatever script runs.                                              *)
Background ==
  \/ MemoryUp \/ First \/ CreateRoles \/ CreateSchemas \/ StartMemory \/ InstallCertifi
  \/ (\E d \in Databases : Connect(d) \/ Record(d) \/ ApplyMigrations(d))
  \/ JobFails("memory") \/ UNCHANGED vars

LEMMA BackgroundKeeps ==
  ASSUME script \in Run, service \in [Databases -> Nat], Background
  PROVE  Marked(FALSE) /\ UNCHANGED <<disk, keycloak, removed>> /\ service'["core"] = service["core"]
<1>1. Marked(FALSE)
  BY Markings, Names DEF Background
<1>2. UNCHANGED <<disk, keycloak, removed>>
  BY DEF Background, MemoryUp, First, CreateRoles, CreateSchemas, StartMemory, InstallCertifi, Connect,
         Record, ApplyMigrations, JobFails, OnlyJob, docker, vars
<1>3. CASE ~StartMemory
  BY <1>1, <1>2, <1>3 DEF Background, MemoryUp, First, CreateRoles, CreateSchemas, InstallCertifi,
        Connect, Record, ApplyMigrations, JobFails, OnlyJob, docker, vars
<1>4. CASE StartMemory
  BY <1>1, <1>2, <1>4, Names DEF StartMemory
<1> QED  BY <1>3, <1>4

(* What can happen to a run that stays undisturbed.                          *)
LEMMA Undisturbing ==
  ASSUME BootInv, [Next]_vars, ~script'.hit
  PROVE  \/ \E name \in Scripts : Start(name)
         \/ /\ ~script.hit /\ script'.name = script.name
            /\ \/ GenerateSecret \/ CheckVolume \/ EnsureBrokerKey \/ Mint \/ EnsureTls
               \/ WriteCertificate \/ WriteKey \/ BuildBundle \/ Reset \/ ComposeUp
               \/ Migrated \/ StartKeycloak \/ StartApi \/ WaitForRealm \/ WaitForApi
               \/ PatchEnv \/ WriteOverlay \/ Recreate
               \/ CheckOnyx \/ ClientSecret \/ PutClient \/ GrantScopes \/ ReadBack \/ StoreSecret
               \/ Discover \/ Interrupt \/ Background
<1>0. script \in Run /\ service \in [Databases -> Nat]
  BY TypeParts DEF BootInv, StackType
<1>1. ~Remove /\ ~ComposeDown /\ ~JobFails("core")
  BY <1>0, Markings, Names DEF Marked
<1>2. CASE Background
  BY <1>0, <1>2, BackgroundKeeps DEF Marked
<1>3. CASE GenerateSecret
  BY <1>0, <1>3, Generates
<1>4. ASSUME NEW pc, Goes(pc) PROVE ~script.hit /\ script'.name = script.name
  BY <1>0, <1>4, Moves
<1>5. ASSUME UNCHANGED script PROVE ~script.hit /\ script'.name = script.name
  BY <1>5
<1>6. CASE \/ CheckVolume \/ EnsureBrokerKey \/ Mint \/ EnsureTls \/ WriteCertificate \/ WriteKey
           \/ BuildBundle \/ Reset \/ ComposeUp \/ Migrated \/ StartKeycloak \/ StartApi
  <2>1. UNCHANGED script \/ \E pc : Goes(pc)
    BY <1>6 DEF CheckVolume, EnsureBrokerKey, Mint, EnsureTls, WriteCertificate, WriteKey, BuildBundle,
                Reset, ComposeUp, Migrated, StartKeycloak, StartApi
  <2> QED  BY <1>4, <1>5, <1>6, <2>1
<1>7. CASE \/ WaitForRealm \/ WaitForApi \/ PatchEnv \/ WriteOverlay \/ Recreate \/ CheckOnyx
           \/ ClientSecret \/ PutClient \/ GrantScopes \/ ReadBack \/ StoreSecret \/ Discover
           \/ Interrupt
  <2>1. \E pc : Goes(pc)
    BY <1>7 DEF WaitForRealm, WaitForApi, PatchEnv, WriteOverlay, Recreate, CheckOnyx, ClientSecret,
                PutClient, GrantScopes, ReadBack, StoreSecret, Discover, Interrupt
  <2> QED  BY <1>4, <1>7, <2>1
<1> QED  BY <1>1, <1>2, <1>3, <1>6, <1>7, Names DEF Next, Background

LEMMA StepPair == BootInv /\ [Next]_vars => PairAgrees'
<1> SUFFICES ASSUME BootInv, [Next]_vars PROVE PairAgrees'
  OBVIOUS
<1>0. FilesType /\ script \in Run /\ service \in [Databases -> Nat] /\ PairAgrees
  BY TypeParts DEF BootInv, StackType
<1>0a. {cert, key, bundle, pairs} \subseteq Nat
  BY <1>0 DEF FilesType
<1> USE DEF PairAgrees, Intact, Present, tls
<1>1. ASSUME UNCHANGED <<cert, key, bundle, pairs, removed>>, service'["core"] \in {0, service["core"]},
             script'.pc \notin {"key", "bundle"} \/ script'.pc = script.pc
      PROVE  PairAgrees'
  BY <1>0, <1>1
<1>2. ASSUME NEW name \in Scripts, Start(name) PROVE PairAgrees'
  BY <1>1, <1>2, Starts DEF Start, disk, docker
<1>3. CASE GenerateSecret
  BY <1>0, <1>1, <1>3, Generates DEF GenerateSecret, docker
<1>4. CASE Background
  BY <1>0, <1>1, <1>4, BackgroundKeeps DEF Marked, disk
<1>5. CASE JobFails("core")
  BY <1>0, <1>1, <1>5, Markings, Names DEF JobFails, Marked, disk
<1>6. CASE WriteCertificate
  BY <1>0, <1>0a, <1>6, Moves DEF WriteCertificate, docker
<1>7. CASE WriteKey
  BY <1>0, <1>0a, <1>7, Moves DEF WriteKey, At, docker
<1>8. CASE BuildBundle
  BY <1>0, <1>0a, <1>8, Moves DEF BuildBundle, Buildable, At, docker
<1>9. CASE StartApi
  BY <1>0, <1>9, Moves DEF StartApi, ApiStarted, disk
<1>10. CASE Recreate
  BY <1>0, <1>10, Moves DEF Recreate, ApiStarted, disk
<1>11. CASE Remove
  <2>1. Marked(TRUE) /\ UNCHANGED <<bundle, pairs, service>>
    BY <1>0, <1>11, Markings DEF Remove, Removal, docker
  <2>2. UNCHANGED <<cert, key>> \/ ~Intact'
    BY <1>11 DEF Remove, Removal
  <2>3. Intact' => Intact
    BY <1>11 DEF Remove, Removal
  <2> QED  BY <1>0, <2>1, <2>2, <2>3 DEF Marked
<1>12. CASE ComposeDown
  <2>1. Marked(TRUE) /\ UNCHANGED <<cert, key, bundle, pairs, removed>> /\ service'["core"] = 0
    BY <1>0, <1>12, Markings, Names DEF ComposeDown, disk
  <2> QED  BY <1>1, <2>1 DEF Marked
<1>13. CASE Reset
  <2>1. UNCHANGED <<cert, key, bundle, pairs, removed>> /\ service'["core"] \in {0, service["core"]}
    BY <1>0, <1>13, Names DEF Reset, disk, docker
  <2>2. script'.pc = "up"
    BY <1>0, <1>13, Moves DEF Reset
  <2> QED  BY <1>1, <2>1, <2>2
<1>14. CASE \/ CheckVolume \/ EnsureBrokerKey \/ Mint \/ EnsureTls \/ ComposeUp \/ Migrated
            \/ StartKeycloak \/ WaitForRealm \/ WaitForApi
  <2>1. UNCHANGED <<cert, key, bundle, pairs, removed, service>>
    BY <1>14 DEF CheckVolume, EnsureBrokerKey, Mint, EnsureTls, ComposeUp, Migrated, StartKeycloak,
                 WaitForRealm, WaitForApi, disk, docker
  <2>2. script'.pc \notin {"key", "bundle"} \/ script'.pc = script.pc
    <3>1. CASE EnsureTls
      BY <1>0, <3>1, Moves DEF EnsureTls
    <3>2. CASE ~EnsureTls
      BY <1>0, <1>14, <3>2, Moves DEF CheckVolume, EnsureBrokerKey, Mint, ComposeUp, Migrated,
            StartKeycloak, WaitForRealm, WaitForApi
    <3> QED  BY <3>1, <3>2
  <2> QED  BY <1>1, <2>1, <2>2
<1>15. CASE \/ PatchEnv \/ WriteOverlay \/ CheckOnyx \/ ClientSecret \/ PutClient \/ GrantScopes
            \/ ReadBack \/ StoreSecret \/ Discover \/ Interrupt
  <2>1. UNCHANGED <<cert, key, bundle, pairs, removed, service>>
    BY <1>15 DEF PatchEnv, WriteOverlay, CheckOnyx, ClientSecret, PutClient, GrantScopes, ReadBack,
                 StoreSecret, Discover, Interrupt, disk, docker
  <2>2. script'.pc \notin {"key", "bundle"}
    BY <1>0, <1>15, Moves DEF PatchEnv, WriteOverlay, CheckOnyx, ClientSecret, PutClient, GrantScopes,
          ReadBack, StoreSecret, Discover, Interrupt
  <2> QED  BY <1>1, <2>1, <2>2
<1> QED  BY <1>2, <1>3, <1>4, <1>5, <1>6, <1>7, <1>8, <1>9, <1>10, <1>11, <1>12, <1>13, <1>14, <1>15, Names
         DEF Next, Background

-----------------------------------------------------------------------------
(* Each kind of run.                                                         *)
LEMMA StepRunAgrees == BootInv /\ [Next]_vars => RunAgrees'
<1> SUFFICES ASSUME BootInv, [Next]_vars, Bootstrapping', ~script'.hit PROVE RunAgrees'
  BY DEF RunAgrees
<1>0. /\ FilesType /\ script \in Run /\ service \in [Databases -> Nat] /\ keycloak \in Server
      /\ StepsAgree /\ ScriptMigrated /\ RunAgrees
  BY TypeParts DEF BootInv, StackType
<1>0a. {cert, key, bundle, pairs} \subseteq Nat /\ file \in [Secrets -> Nat] /\ token \in [Tokens -> Nat]
  BY <1>0 DEF FilesType
<1> USE DEF RunAgrees, Present
<1>1. ASSUME NEW name \in Scripts, Start(name) PROVE RunAgrees'
  BY <1>1, Starts DEF Bootstrapping
<1>2. CASE GenerateSecret
  <2>1. /\ script.at \in 1..5 /\ Order[script.at] \in Passwords /\ script.pc = "secrets"
        /\ Bootstrapping /\ ~script.hit
    BY <1>0, <1>2, Names, Generates DEF Run, Bootstrapping
  <2>2. file'[Order[script.at]] # 0 /\ \A n \in Passwords : file[n] # 0 => file'[n] # 0
    <3>1. made[Order[script.at]] \in Nat
      BY <1>0, <2>1, Names DEF FilesType
    <3> QED  BY <1>0a, <1>2, <2>1, <3>1, Names DEF GenerateSecret, Missing
  <2>3. \A i \in 1..script.at : file'[Order[i]] # 0
    <3>1. \A i \in 1..(script.at - 1) : file[Order[i]] # 0 /\ Order[i] \in Passwords
      BY <1>0, <2>1, Names
    <3> QED  BY <2>1, <2>2, <3>1
  <2>4. CASE script.at = 5
    <3>1. \A n \in Passwords : file'[n] # 0
      BY <2>3, <2>4, Names
    <3> QED  BY <1>0, <1>2, <2>4, <3>1, Generates
  <2>5. CASE script.at # 5
    BY <1>0, <1>2, <2>1, <2>3, <2>5, Generates
  <2> QED  BY <2>4, <2>5
<1>3. CASE Background
  <2>1. Marked(FALSE) /\ UNCHANGED <<disk, keycloak>> /\ service'["core"] = service["core"]
    BY <1>0, <1>3, BackgroundKeeps
  <2>2. script.pc = "done" => db'["core"] = db["core"]
    <3>1. ASSUME script.pc = "done" PROVE db'["core"] = db["core"]
      <4>1. JobEnded("core")
        BY <1>0, <2>1, <3>1 DEF ScriptMigrated, Marked, Bootstrapping
      <4>2. ~Reset /\ ~ComposeUp
        BY <3>1 DEF Reset, ComposeUp, At
      <4> QED  BY <4>1, <4>2, CoreRests
    <3> QED  BY <3>1
  <2> QED  BY <1>0, <2>1, <2>2 DEF Marked, disk, tls, Ready, Bootstrapping
<1>4. CASE CheckVolume \/ EnsureBrokerKey
  <2>1. UNCHANGED token /\ \A n \in Passwords : file'[n] = file[n]
    BY <1>0a, <1>4, Names DEF CheckVolume, EnsureBrokerKey
  <2> QED  BY <1>0, <1>4, <2>1, Moves DEF CheckVolume, EnsureBrokerKey, At, Bootstrapping
<1>5. CASE Mint
  <2>1. UNCHANGED file /\ script.pc = "mint"
    BY <1>5 DEF Mint, At
  <2>2. CASE UNCHANGED script
    BY <1>0, <2>1, <2>2 DEF Bootstrapping
  <2>3. CASE ~UNCHANGED script
    BY <1>0, <1>5, <2>1, <2>3, Moves DEF Mint, TokenIsCurrent, Bootstrapping
  <2> QED  BY <2>2, <2>3
<1>6. CASE EnsureTls \/ WriteCertificate \/ WriteKey \/ BuildBundle
  <2>1. UNCHANGED <<file, token>> /\ script.pc \in {"tls", "certificate", "key", "bundle"}
    BY <1>6 DEF EnsureTls, WriteCertificate, WriteKey, BuildBundle, At, disk
  <2>2. Bootstrapping /\ ~script.hit
    BY <1>0, <1>6, Moves DEF EnsureTls, WriteCertificate, WriteKey, BuildBundle, Bootstrapping
  <2>3. (\A n \in Passwords : file'[n] # 0) /\ (\A s \in Tokens : token'[s] = file'["qdrant"])
    BY <1>0, <2>1, <2>2
  <2>4. CASE EnsureTls
    BY <1>0, <2>3, <2>4, Moves DEF EnsureTls, disk, tls
  <2>5. CASE WriteCertificate
    BY <1>0, <1>0a, <2>3, <2>5, Moves DEF WriteCertificate
  <2>6. CASE WriteKey
    <3>1. pairs # 0 /\ cert # 0
      BY <1>0, <2>2, <2>6 DEF WriteKey, At, BootInv, PairAgrees
    <3> QED  BY <1>0, <2>3, <2>6, <3>1, Moves DEF WriteKey
  <2>7. CASE BuildBundle
    BY <1>0, <2>2, <2>3, <2>7, Moves DEF BuildBundle, At
  <2> QED  BY <1>6, <2>4, <2>5, <2>6, <2>7
<1>7. CASE \/ Reset \/ ComposeUp \/ Migrated \/ StartKeycloak \/ StartApi \/ WaitForRealm \/ WaitForApi
  <2>1. UNCHANGED <<file, token, cert, key>>
    BY <1>7 DEF Reset, ComposeUp, Migrated, StartKeycloak, StartApi, WaitForRealm, WaitForApi, disk, tls
  <2>2. Bootstrapping /\ ~script.hit
    BY <1>0, <1>7, Moves DEF Reset, ComposeUp, Migrated, StartKeycloak, StartApi, WaitForRealm,
          WaitForApi, Bootstrapping
  <2>3. script.pc \in {"volumes", "up", "migrate", "keycloak", "api", "realm", "ready"}
    BY <1>7 DEF Reset, ComposeUp, Migrated, StartKeycloak, StartApi, WaitForRealm, WaitForApi, At
  <2>4. /\ (\A n \in Passwords : file'[n] # 0) /\ (\A s \in Tokens : token'[s] = file'["qdrant"])
        /\ Present'
    BY <1>0, <2>1, <2>2, <2>3
  <2>5. CASE \/ Reset \/ ComposeUp \/ Migrated \/ StartKeycloak \/ StartApi
    <3>1. script'.pc \in {"up", "migrate", "keycloak", "recreate", "api", "realm", "failed"}
      BY <1>0, <2>5, Moves DEF Reset, ComposeUp, Migrated, StartKeycloak, StartApi
    <3> QED  BY <2>4, <3>1
  <2>6. CASE WaitForRealm
    BY <1>0, <2>1, <2>2, <2>4, <2>6, Moves DEF WaitForRealm, At, docker
  <2>7. CASE WaitForApi
    BY <1>0, <2>1, <2>2, <2>4, <2>7, Moves DEF WaitForApi, At, Ready, docker
  <2> QED  BY <1>7, <2>5, <2>6, <2>7
<1>8. CASE \/ PatchEnv \/ WriteOverlay \/ Recreate \/ CheckOnyx \/ ClientSecret \/ PutClient
           \/ GrantScopes \/ ReadBack \/ StoreSecret \/ Discover
  <2>1. ~Bootstrapping
    BY <1>0, <1>8 DEF PatchEnv, WriteOverlay, Recreate, CheckOnyx, ClientSecret, PutClient, GrantScopes,
          ReadBack, StoreSecret, Discover, At, StepsAgree, EnableSteps, ConnectSteps, Bootstrapping
  <2>2. \E pc : Goes(pc)
    BY <1>8 DEF PatchEnv, WriteOverlay, Recreate, CheckOnyx, ClientSecret, PutClient, GrantScopes,
          ReadBack, StoreSecret, Discover
  <2> QED  BY <1>0, <2>1, <2>2, Moves DEF Bootstrapping
<1>9. CASE Interrupt
  BY <1>0, <1>9, Moves DEF Interrupt
<1> QED  BY Undisturbing, <1>1, <1>2, <1>3, <1>4, <1>5, <1>6, <1>7, <1>8, <1>9

LEMMA StepEnableAgrees == BootInv /\ [Next]_vars => EnableAgrees'
<1> SUFFICES ASSUME BootInv, [Next]_vars, script'.name = "enable", ~script'.hit PROVE EnableAgrees'
  BY DEF EnableAgrees, Undisturbed
<1>0. script \in Run /\ service \in [Databases -> Nat] /\ StepsAgree /\ EnableAgrees
  BY TypeParts DEF BootInv, StackType
<1> USE DEF EnableAgrees, Undisturbed
<1>1. ASSUME NEW name \in Scripts, Start(name) PROVE EnableAgrees'
  BY <1>1, Starts
<1>2. CASE Background
  BY <1>0, <1>2, BackgroundKeeps DEF Marked, disk, tls, config
<1>3. CASE \/ GenerateSecret \/ CheckVolume \/ EnsureBrokerKey \/ Mint \/ EnsureTls \/ Reset
           \/ StartKeycloak \/ StartApi \/ WaitForRealm \/ WaitForApi
           \/ CheckOnyx \/ ClientSecret \/ PutClient \/ GrantScopes \/ ReadBack \/ StoreSecret \/ Discover
  <2>1. script.name # "enable"
    BY <1>0, <1>3 DEF GenerateSecret, CheckVolume, EnsureBrokerKey, Mint, EnsureTls, Reset, StartKeycloak,
          StartApi, WaitForRealm, WaitForApi, CheckOnyx, ClientSecret, PutClient, GrantScopes, ReadBack,
          StoreSecret, Discover, At, StepsAgree, BootstrapSteps, ConnectSteps, Bootstrapping
  <2>2. UNCHANGED script \/ script'.name = script.name \/ \E pc : Goes(pc)
    BY <1>0, <1>3, Generates DEF CheckVolume, EnsureBrokerKey, Mint, EnsureTls, Reset, StartKeycloak,
          StartApi, WaitForRealm, WaitForApi, CheckOnyx, ClientSecret, PutClient, GrantScopes, ReadBack,
          StoreSecret, Discover
  <2> QED  BY <1>0, <2>1, <2>2, Moves
<1>4. CASE WriteCertificate \/ WriteKey \/ Interrupt
  BY <1>0, <1>4, Moves DEF WriteCertificate, WriteKey, Interrupt
<1>5. CASE BuildBundle
  BY <1>0, <1>5, Moves DEF BuildBundle, Bootstrapping
<1>6. CASE PatchEnv
  BY <1>0, <1>6, Moves DEF PatchEnv, EnvPatched, At, tls
<1>7. CASE WriteOverlay
  BY <1>0, <1>7, Moves DEF WriteOverlay, At, tls
<1>8. CASE ComposeUp \/ Migrated
  BY <1>0, <1>8, Moves DEF ComposeUp, Migrated, At, disk, tls, config
<1>9. CASE Recreate
  BY <1>0, <1>9, Moves DEF Recreate, Fresh, At, disk, tls, config
<1> QED  BY Undisturbing, <1>1, <1>2, <1>3, <1>4, <1>5, <1>6, <1>7, <1>8, <1>9

LEMMA StepConnectAgrees == BootInv /\ [Next]_vars => ConnectAgrees'
<1> SUFFICES ASSUME BootInv, [Next]_vars, script'.name = "connect", ~script'.hit PROVE ConnectAgrees'
  BY DEF ConnectAgrees, Undisturbed
<1>0. script \in Run /\ service \in [Databases -> Nat] /\ keycloak \in Server /\ StepsAgree /\ ConnectAgrees
  BY TypeParts DEF BootInv, StackType
<1> USE DEF ConnectAgrees, Undisturbed
<1>1. ASSUME NEW name \in Scripts, Start(name) PROVE ConnectAgrees'
  BY <1>1, Starts
<1>2. CASE Background
  BY <1>0, <1>2, BackgroundKeeps DEF Marked, disk, config
<1>3. CASE \/ GenerateSecret \/ CheckVolume \/ EnsureBrokerKey \/ Mint \/ EnsureTls \/ Reset
           \/ StartKeycloak \/ StartApi \/ WaitForRealm \/ WaitForApi
           \/ WriteCertificate \/ WriteKey \/ BuildBundle \/ ComposeUp \/ Migrated
           \/ PatchEnv \/ WriteOverlay \/ Recreate
  <2>1. script.name # "connect"
    BY <1>0, <1>3 DEF GenerateSecret, CheckVolume, EnsureBrokerKey, Mint, EnsureTls, Reset, StartKeycloak,
          StartApi, WaitForRealm, WaitForApi, WriteCertificate, WriteKey, BuildBundle, ComposeUp,
          Migrated, PatchEnv, WriteOverlay, Recreate, At, StepsAgree, BootstrapSteps, EnableSteps,
          SharedSteps, Bootstrapping
  <2>2. UNCHANGED script \/ script'.name = script.name \/ \E pc : Goes(pc)
    BY <1>0, <1>3, Generates DEF CheckVolume, EnsureBrokerKey, Mint, EnsureTls, Reset, StartKeycloak,
          StartApi, WaitForRealm, WaitForApi, WriteCertificate, WriteKey, BuildBundle, ComposeUp,
          Migrated, PatchEnv, WriteOverlay, Recreate
  <2> QED  BY <1>0, <2>1, <2>2, Moves
<1>4. CASE CheckOnyx \/ ClientSecret \/ PutClient \/ Interrupt
  BY <1>0, <1>4, Moves DEF CheckOnyx, ClientSecret, PutClient, Interrupt
<1>5. CASE GrantScopes
  BY <1>0, <1>5, Moves DEF GrantScopes, Server
<1>6. CASE ReadBack
  BY <1>0, <1>6, Moves DEF ReadBack, SecretAgrees, At, Server, disk, config
<1>7. CASE StoreSecret
  BY <1>0, <1>7, Moves DEF StoreSecret, At, docker
<1>8. CASE Discover
  BY <1>0, <1>8, Moves DEF Discover, At, docker, disk, config
<1> QED  BY Undisturbing, <1>1, <1>2, <1>3, <1>4, <1>5, <1>6, <1>7, <1>8

(* What a reset leads the migration job through, on the new volume.          *)
LEMMA CoreMigrating ==
  ASSUME BootInv, Background, CoreMigrates, script.pc = "migrate"
  PROVE  CoreMigrates'
<1>0. /\ db \in [Databases -> Volume] /\ job \in [Databases -> JobState] /\ script \in Run
      /\ service \in [Databases -> Nat]
  BY TypeParts DEF BootInv, StackType
<1>0a. db["core"] \in Volume /\ job["core"] \in JobState /\ JobAgrees("core")
  BY <1>0, Names DEF BootInv
<1>0b. UNCHANGED file
  BY <1>0, BackgroundKeeps DEF disk
<1> USE Names DEF CoreMigrates, CoreSettled
<1>1. ASSUME db'["core"] = db["core"], job'["core"] = job["core"] PROVE CoreMigrates'
  BY <1>0b, <1>1
<1>2. CASE StartMemory \/ InstallCertifi \/ UNCHANGED vars
  BY <1>1, <1>2 DEF StartMemory, InstallCertifi, vars, docker
<1>3. CASE MemoryUp
  BY <1>3 DEF MemoryUp, Running
<1>4. CASE CreateRoles \/ CreateSchemas
  BY <1>0, <1>1, <1>4 DEF CreateRoles, CreateSchemas, Job
<1>5. CASE First
  BY <1>0, <1>0a, <1>0b, <1>5 DEF First, RoleCreated, Volume
<1>6. CASE Connect("core")
  BY <1>0, <1>0a, <1>0b, <1>6 DEF Connect, Job, JobState
<1>7. CASE Record("core")
  <2>1. db'["core"].recorded = db["core"].recorded \union {1} /\ job'["core"].pc = "files"
        /\ db'["core"].admin = db["core"].admin /\ db'["core"].role = db["core"].role
        /\ job["core"].pc = "record"
    BY <1>0, <1>0a, <1>7 DEF Record, Job, Volume, JobState, JobAgrees
  <2> QED  BY <1>0b, <2>1
<1>8. CASE ApplyMigrations("core")
  <2>1. job["core"].pc = "files"
    BY <1>8 DEF ApplyMigrations
  <2>2. ASSUME NEW u, Apply("core", u) PROVE CoreMigrates'
    <3>1. /\ db'["core"].recorded = db["core"].recorded \union {u} /\ UNCHANGED job
          /\ db'["core"].admin = db["core"].admin /\ db'["core"].role = db["core"].role
      BY <1>0, <1>0a, <2>2 DEF Apply, Applied, Volume
    <3> QED  BY <1>0b, <2>1, <3>1
  <2>3. CASE Unapplied("core") = {} /\ UNCHANGED db
             /\ Job("core", IF Cardinality(db["core"].recorded) = Files THEN "done" ELSE "failed")
    <3>1. db["core"].recorded = Versions
      <4>1. db["core"].recorded \in SUBSET Versions /\ 1 \in db["core"].recorded
        BY <1>0a, <2>1 DEF Volume
      <4> QED  BY <2>3, <4>1 DEF Unapplied
    <3>2. Cardinality(Versions) = Files
      BY BootstrapAssumption, FS_Interval DEF Versions
    <3> QED  BY <1>0, <1>0a, <1>0b, <2>1, <2>3, <3>1, <3>2 DEF Job, JobState
  <2> QED  BY <1>8, <2>2, <2>3 DEF ApplyMigrations
<1>9. CASE Connect("memory") \/ Record("memory") \/ ApplyMigrations("memory") \/ JobFails("memory")
  <2>1. db'["core"] = db["core"] /\ job'["core"] = job["core"]
    BY <1>0, <1>9 DEF Connect, Record, ApplyMigrations, Apply, JobFails, Job
  <2> QED  BY <1>1, <2>1
<1> QED  BY <1>2, <1>3, <1>4, <1>5, <1>6, <1>7, <1>8, <1>9 DEF Background

LEMMA BackgroundRests ==
  ASSUME BootInv, Background, JobEnded("core")
  PROVE  db'["core"] = db["core"] /\ job'["core"] = job["core"]
<1>0. db \in [Databases -> Volume] /\ job \in [Databases -> JobState]
  BY TypeParts DEF BootInv, StackType
<1> USE Names DEF JobEnded
<1>1. CASE StartMemory \/ InstallCertifi \/ UNCHANGED vars
  BY <1>1 DEF StartMemory, InstallCertifi, vars, docker
<1>2. CASE MemoryUp
  BY <1>0, <1>2 DEF MemoryUp, Prepared
<1>3. CASE CreateRoles \/ CreateSchemas
  BY <1>0, <1>3 DEF CreateRoles, CreateSchemas, Job
<1>4. CASE First
  BY <1>4 DEF First
<1>5. CASE Connect("core") \/ Record("core") \/ ApplyMigrations("core")
  BY <1>5 DEF Connect, Record, ApplyMigrations
<1>6. CASE Connect("memory") \/ Record("memory") \/ ApplyMigrations("memory") \/ JobFails("memory")
  BY <1>0, <1>6 DEF Connect, Record, ApplyMigrations, Apply, JobFails, Job
<1> QED  BY <1>1, <1>2, <1>3, <1>4, <1>5, <1>6 DEF Background

LEMMA StepResetAgrees == BootInv /\ [Next]_vars => ResetAgrees'
<1> SUFFICES ASSUME BootInv, [Next]_vars, script'.name = "reset", ~script'.hit PROVE ResetAgrees'
  BY DEF ResetAgrees, Undisturbed
<1>0. /\ FilesType /\ script \in Run /\ db \in [Databases -> Volume] /\ job \in [Databases -> JobState]
      /\ service \in [Databases -> Nat] /\ keycloak \in Server
      /\ StepsAgree /\ ScriptMigrated /\ RunAgrees /\ ResetAgrees /\ JobAgrees("core")
  BY TypeParts, Names DEF BootInv, StackType
<1>0a. {cert, key, bundle, pairs} \subseteq Nat /\ file \in [Secrets -> Nat]
  BY <1>0 DEF FilesType
<1> USE DEF ResetAgrees, Undisturbed
<1>1. ASSUME NEW name \in Scripts, Start(name) PROVE ResetAgrees'
  BY <1>1, Starts
<1>2. CASE Background
  <2>1. Marked(FALSE) /\ UNCHANGED <<disk, keycloak>> /\ service'["core"] = service["core"]
    BY <1>0, <1>2, BackgroundKeeps
  <2>2. script'.pc = script.pc /\ script'.created = script.created /\ script.name = "reset" /\ ~script.hit
    BY <2>1 DEF Marked
  <2>3. script.pc \in {"up", "keycloak", "api", "realm", "ready"} => JobEnded("core")
    <3>1. script.pc = "up" => job["core"].pc = "none"
      BY <1>0, <2>2 DEF NoJob
    <3> QED  BY <1>0, <3>1 DEF ScriptMigrated, JobEnded
  <2>4. script.pc \in {"up", "keycloak", "api", "realm", "ready"} =>
          db'["core"] = db["core"] /\ job'["core"] = job["core"]
    BY <1>2, <2>3, BackgroundRests
  <2>5. script.pc = "migrate" => CoreMigrates'
    BY <1>0, <1>2, <2>1, CoreMigrating DEF Marked
  <2>6. UNCHANGED <<file, cert, key, bundle>> /\ ApiStarted' = ApiStarted
    BY <2>1 DEF disk, tls, ApiStarted
  <2> QED  BY <1>0, <2>1, <2>2, <2>4, <2>5, <2>6 DEF CoreSettled
<1>3. CASE GenerateSecret
  BY <1>0, <1>3, Generates
<1>4. CASE CheckVolume
  BY <1>0, <1>4, Moves DEF CheckVolume
<1>5. ASSUME NEW pc, Goes(pc), pc \in {"mint", "volumes", "certificate", "bundle", "key", "idle"}
      PROVE  ResetAgrees'
  BY <1>0, <1>5, Moves
<1>5a. CASE EnsureBrokerKey \/ EnsureTls \/ WriteCertificate \/ WriteKey \/ Interrupt
  BY <1>5, <1>5a DEF EnsureBrokerKey, EnsureTls, WriteCertificate, WriteKey, Interrupt
<1>5b. CASE BuildBundle
  BY <1>0, <1>5, <1>5b, Moves DEF BuildBundle, Bootstrapping
<1>6. CASE Mint
  BY <1>0, <1>6, Moves DEF Mint, At
<1>7. ASSUME NEW pc, Goes(pc) PROVE script'.pc = pc /\ script'.created = script.created
                                    /\ script.name = "reset" /\ ~script.hit
  BY <1>0, <1>7, Moves
<1>8. CASE Reset
  <2>1. script'.pc = "up" /\ script.name = "reset"
    BY <1>7, <1>8 DEF Reset
  <2>2. /\ db'["core"] = NoVolume /\ job'["core"] = NoJob /\ service'["core"] = 0
        /\ keycloak' = Down
    BY <1>8, <2>1, Names DEF Reset, VolumeRemoved
  <2> QED  BY <2>1, <2>2 DEF Down
<1>9. CASE ComposeUp
  <2>1. script'.pc = "migrate" /\ script.name = "reset" /\ ~script.hit /\ script.pc = "up"
    BY <1>7, <1>9 DEF ComposeUp, At
  <2>2. UNCHANGED <<file, keycloak, service>>
    BY <1>9 DEF ComposeUp, disk
  <2>3. /\ db'["core"].admin = file["postgres"] /\ ~db'["core"].table /\ db'["core"].role = 0
        /\ job'["core"].pc = "connect"
    BY <1>0, <1>9, <2>1, Names DEF ComposeUp, Prepared, NoVolume
  <2> QED  BY <1>0, <2>1, <2>2, <2>3 DEF CoreMigrates
<1>10. CASE Migrated
  <2>1. script.pc = "migrate" /\ script.name = "reset" /\ ~script.hit /\ JobEnded("core")
    BY <1>7, <1>10 DEF Migrated, At
  <2>2. UNCHANGED <<db, keycloak, service, file>>
    BY <1>10 DEF Migrated, disk, docker
  <2>3. job["core"].pc = "done" /\ CoreSettled
    BY <1>0, <2>1 DEF CoreMigrates, JobEnded
  <2>4. script'.pc = "keycloak"
    BY <1>7, <1>10, <2>1, <2>3 DEF Migrated, Bootstrapping
  <2> QED  BY <1>0, <2>1, <2>2, <2>3, <2>4 DEF CoreSettled
<1>11. CASE StartKeycloak
  <2>1. script.pc = "keycloak" /\ script.name = "reset" /\ ~script.hit
    BY <1>7, <1>11 DEF StartKeycloak, At
  <2>2. UNCHANGED <<db, service, file, cert, key, bundle>>
    BY <1>11 DEF StartKeycloak, disk, tls
  <2>3. Present /\ keycloak.cert = 0
    BY <1>0, <2>1 DEF RunAgrees, Bootstrapping
  <2>4. CASE cert = key
    BY <1>0, <1>7, <1>11, <2>1, <2>2, <2>3, <2>4 DEF StartKeycloak, Startable, Fresh, CoreSettled
  <2>5. CASE cert # key
    BY <1>7, <1>11, <2>2, <2>3, <2>5 DEF StartKeycloak, Startable
  <2> QED  BY <2>4, <2>5
<1>12. CASE StartApi
  <2>1. script.pc = "api" /\ script.name = "reset" /\ ~script.hit /\ script'.pc = "realm"
    BY <1>7, <1>12 DEF StartApi, At
  <2>2. UNCHANGED <<db, keycloak, file, cert, key, bundle>> /\ ApiStarted' = ApiStarted
    BY <1>12 DEF StartApi, disk, tls, ApiStarted
  <2>3. service'["core"] = ApiStarted
    BY <1>0, <1>12, <2>1, Names DEF StartApi
  <2> QED  BY <1>0, <2>1, <2>2, <2>3 DEF CoreSettled
<1>13. CASE WaitForRealm
  <2>1. script.pc = "realm" /\ script.name = "reset" /\ ~script.hit
    BY <1>7, <1>13 DEF WaitForRealm, At
  <2>2. UNCHANGED <<db, service, keycloak, file, cert, key, bundle>> /\ ApiStarted' = ApiStarted
    BY <1>13 DEF WaitForRealm, disk, tls, docker, ApiStarted
  <2>3. Present /\ keycloak.cert = cert
    BY <1>0, <2>1 DEF RunAgrees, Bootstrapping
  <2>4. script'.pc = "ready"
    BY <1>7, <1>13, <2>3 DEF WaitForRealm, Present
  <2> QED  BY <1>0, <2>1, <2>2, <2>4 DEF CoreSettled
<1>14. CASE WaitForApi
  <2>1. script.pc = "ready" /\ script.name = "reset" /\ ~script.hit
    BY <1>7, <1>14 DEF WaitForApi, At
  <2>2. UNCHANGED <<cert, key, bundle>>
    BY <1>14 DEF WaitForApi, disk, tls
  <2>3. file["api"] # 0
    BY <1>0, <2>1, Names DEF RunAgrees, Bootstrapping
  <2>4. bundle # 0 => Ready
    BY <1>0, <2>1, <2>3 DEF ApiStarted, Ready, CoreSettled
  <2> QED  BY <1>7, <1>14, <2>2, <2>4 DEF WaitForApi
<1>15. CASE \/ PatchEnv \/ WriteOverlay \/ Recreate \/ CheckOnyx \/ ClientSecret \/ PutClient
            \/ GrantScopes \/ ReadBack \/ StoreSecret \/ Discover
  <2>1. script.name \in {"enable", "connect"}
    BY <1>0, <1>15 DEF PatchEnv, WriteOverlay, Recreate, CheckOnyx, ClientSecret, PutClient, GrantScopes,
          ReadBack, StoreSecret, Discover, At, StepsAgree, EnableSteps, ConnectSteps
  <2>2. \E pc : Goes(pc)
    BY <1>15 DEF PatchEnv, WriteOverlay, Recreate, CheckOnyx, ClientSecret, PutClient, GrantScopes,
          ReadBack, StoreSecret, Discover
  <2> QED  BY <1>7, <2>1, <2>2
<1> QED  BY Undisturbing, <1>1, <1>2, <1>3, <1>4, <1>5a, <1>5b, <1>6, <1>8, <1>9, <1>10, <1>11, <1>12, <1>13,
            <1>14, <1>15

-----------------------------------------------------------------------------
(* The theorems.                                                             *)
LEMMA InitInv == Init => BootInv
<1> SUFFICES ASSUME Init PROVE BootInv
  OBVIOUS
<1>1. script = [name |-> "none", pc |-> "idle", at |-> 1, created |-> {}, hit |-> FALSE]
  BY DEF Init
<1>2. \A d \in Databases : db[d] = NoVolume /\ job[d] = NoJob /\ service[d] = 0
  BY DEF Init
<1>3. UntouchedSecretsOpenTheVolumes /\ MigrationsHold /\ \A d \in Databases : JobAgrees(d)
  BY <1>2 DEF UntouchedSecretsOpenTheVolumes, MigrationsHold, JobAgrees, NoVolume, NoJob
<1>4. StepsAgree
  BY <1>1 DEF StepsAgree, BootstrapSteps, EnableSteps, ConnectSteps, SharedSteps
<1>5. ScriptMigrated /\ RunAgrees /\ ResetAgrees /\ EnableAgrees /\ ConnectAgrees
  BY <1>1 DEF ScriptMigrated, RunAgrees, Bootstrapping, ResetAgrees, EnableAgrees, ConnectAgrees,
              Undisturbed
<1>6. PairAgrees
  BY <1>1, <1>2, Names DEF Init, PairAgrees, Intact
<1> QED  BY InitTypes, <1>3, <1>4, <1>5, <1>6 DEF BootInv

LEMMA StepInv == BootInv /\ [Next]_vars => BootInv'
<1> SUFFICES ASSUME BootInv, [Next]_vars PROVE BootInv'
  OBVIOUS
<1>1. (\A d \in Databases : JobAgrees(d)') /\ MigrationsHold'
  <2>1. \A d \in Databases : Migrations(d)'
    BY StepMigrations
  <2> QED  BY <2>1 DEF Migrations, MigrationsHold
<1> QED  BY <1>1, StepTypes, StepSteps, StepSecrets, StepMigrated, StepPair, StepRunAgrees, StepResetAgrees,
            StepEnableAgrees, StepConnectAgrees DEF BootInv

(* What holds between any two steps of the scripts, the jobs and the         *)
(* operator: passwords and volumes agree, a job has recorded what it applied, *)
(* and a script nobody interferes with has left, by each of its steps, what  *)
(* its next ones rely on.                                                    *)
THEOREM BootstrapInvariant == Spec => []BootInv
BY InitInv, StepInv, PTL DEF Spec

(* Every file, volume and container keeps its shape (bootstrap_local.py,     *)
(* enable_keycloak_tls.py, connect_onyx.py, entrypoint.sh and init.py).      *)
THEOREM TypesHold == Spec => []TypeOK
<1>1. BootInv => TypeOK
  BY DEF BootInv
<1> QED  BY <1>1, BootstrapInvariant, PTL

(* "Safe to re-run": for any number of interruptions, resets, dead jobs and  *)
(* deletions of other files, a secret nobody deleted is the one the volume   *)
(* was made with (generate_secrets, bootstrap_local.py).                     *)
THEOREM SecretsOpenTheVolumes == Spec => []UntouchedSecretsOpenTheVolumes
<1>1. BootInv => UntouchedSecretsOpenTheVolumes
  BY DEF BootInv
<1> QED  BY <1>1, BootstrapInvariant, PTL

(* Each migration is applied once and recorded, and a service only starts on *)
(* a database that has them all, for any number of migrations and wherever   *)
(* the jobs died (entrypoint.sh, memory init.py, compose.yaml depends_on).   *)
THEOREM MigrationsAreAppliedOnce == Spec => []MigrationsHold
<1>1. BootInv => MigrationsHold
  BY DEF BootInv
<1> QED  BY <1>1, BootstrapInvariant, PTL

(* A script that ends by saying the environment is up, that Keycloak serves  *)
(* HTTPS or that Onyx's secret is verified leaves exactly that, after any    *)
(* history of the scripts (main of the three).                               *)
THEOREM WordIsKept == Spec => []ScriptsKeepTheirWord
<1>1. BootInv => ScriptsKeepTheirWord
  <2> SUFFICES ASSUME BootInv PROVE ScriptsKeepTheirWord
    OBVIOUS
  <2>1. UpMeansUsable
    <3> SUFFICES ASSUME Bootstrapping, script.pc = "done", ~script.hit
                 PROVE  /\ Ready /\ db["core"].recorded = Versions /\ keycloak.cert = cert
                        /\ removed \intersect {"cert", "key"} = {} => bundle = cert
                        /\ \A t \in Tokens : token[t] = file["qdrant"]
      BY DEF UpMeansUsable
    <3>1. Ready /\ keycloak.cert = cert /\ \A t \in Tokens : token[t] = file["qdrant"]
      BY DEF BootInv, RunAgrees
    <3>2. db["core"].recorded = Versions
      BY DEF BootInv, ScriptMigrated, Bootstrapping
    <3>3. Intact => bundle = cert
      BY <3>1 DEF BootInv, PairAgrees, Ready
    <3> QED  BY <3>1, <3>2, <3>3 DEF Intact
  <2>2. OnyxSecretAgrees /\ EnabledMeansHttps
    BY DEF BootInv, ConnectAgrees, EnableAgrees, Undisturbed, OnyxSecretAgrees, EnabledMeansHttps
  <2> QED  BY <2>1, <2>2 DEF ScriptsKeepTheirWord
<1> QED  BY <1>1, BootstrapInvariant, PTL

(* "Everything is confusing: bootstrap_local.py --reset": a reset nobody     *)
(* interferes with comes up, unless it generated the first password itself,  *)
(* there is no bundle, or the pair's halves are of two certificates (main    *)
(* of bootstrap_local.py, from docker compose down -v to wait_for_api).      *)
THEOREM ResetComesUp == Spec => []ResetRecovers
<1>1. BootInv => ResetRecovers
  BY DEF BootInv, ResetAgrees, ResetRecovers, Undisturbed
<1> QED  BY <1>1, BootstrapInvariant, PTL
=============================================================================
