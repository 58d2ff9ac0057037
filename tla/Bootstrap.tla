------------------------------ MODULE Bootstrap ------------------------------
(* Bringing the lab up: what the scripts leave on disk and what the volumes  *)
(* and containers hold meanwhile. bootstrap_local.py generates secrets,      *)
(* tokens and a certificate and starts the stack; enable_keycloak_tls.py and *)
(* build_ca_bundle.py write the TLS files and move an older .env to HTTPS;   *)
(* connect_onyx.py gives Keycloak's client a secret; migrate and             *)
(* memory-init prepare the two databases. Each write is a step: a script may *)
(* be interrupted between two of them, a job may die, the operator may       *)
(* delete a secret or take the containers down, and any script is run again. *)
EXTENDS Integers, Sequences, FiniteSets

CONSTANTS
  Files,                            \* migrations of a database
  MaxRuns, MaxChanges, MaxFaults    \* bounds: script runs, the operator's hands, failures

ASSUME BootstrapAssumption ==
  /\ Files \in Nat \ {0}
  /\ MaxRuns \in Nat /\ MaxChanges \in Nat /\ MaxFaults \in Nat

(* SECRET_NAMES: the first password of each database, one role's password of *)
(* each, and the key Qdrant's tokens are signed with. The broker's signing   *)
(* key is generated apart from them.                                         *)
Order     == <<"postgres", "api", "memory", "service", "qdrant">>
Secrets   == {Order[i] : i \in 1..Len(Order)} \union {"broker"}
Databases == {"core", "memory"}
Admin     == [core |-> "postgres", memory |-> "memory"]
Role      == [core |-> "api", memory |-> "service"]
Tokens    == {"qdrant_jwt", "range_qdrant_ro"}     \* QDRANT_TOKENS, by holder
Versions  == 1..Files
Scripts   == {"bootstrap", "reset", "enable", "connect"}

VARIABLES
  file,        \* .secrets: secret -> which generation of it, 0 when missing or empty
  made,        \* generations so far
  token,       \* token file -> the generation of the key it was minted with
  cert, key,   \* .secrets/tls: the pair each file is half of, 0 when absent
  bundle,      \* ca-bundle.crt: the certificate in it, 0 when absent
  pairs,       \* certificates generated so far
  certifi,     \* the host has the certifi package
  env,         \* the issuer .env names: over HTTP in an older checkout's
  db,          \* what each volume holds
  job,         \* migrate and memory-init
  keycloak,    \* the running container: certificate served, and the client onyx-web
  service,     \* database -> the role password its service started with, 0 when down
  onyx,        \* .secrets/onyx_oauth_client_secret
  overlay,     \* the compose overlay for Onyx: shipped, written by the script, or absent
  script,      \* the script in progress, or the last one
  removed,     \* what the operator has deleted
  runs, changes, faults

tls     == <<cert, key, bundle, pairs>>
config  == <<env, onyx, overlay>>
disk    == <<file, made, token, tls, config>>
docker  == <<db, job, keycloak, service>>
bounds  == <<runs, changes, faults>>
vars    == <<disk, certifi, docker, script, removed, bounds>>

NoVolume == [admin |-> 0, role |-> 0, table |-> FALSE, applied |-> {}, again |-> {},
             recorded |-> {}]
NoJob    == [pc |-> "none", at |-> 0]
Down     == [cert |-> 0, secret |-> 0, scopes |-> FALSE]

Init ==
  /\ file = [n \in Secrets |-> 0] /\ made = [n \in Secrets |-> 0]
  /\ token = [t \in Tokens |-> 0]
  /\ cert = 0 /\ key = 0 /\ bundle = 0 /\ pairs = 0
  /\ certifi \in BOOLEAN
  /\ env \in {"none", "http"}
  /\ db = [d \in Databases |-> NoVolume] /\ job = [d \in Databases |-> NoJob]
  /\ keycloak = Down /\ service = [d \in Databases |-> 0]
  /\ onyx = 0 /\ overlay = IF env = "http" THEN "absent" ELSE "shipped"
  /\ script = [name |-> "none", pc |-> "idle", at |-> 1, created |-> {}, hit |-> FALSE]
  /\ removed = {}
  /\ runs = MaxRuns /\ changes = MaxChanges /\ faults = MaxFaults

JobEnded(d) == job[d].pc \in {"none", "done", "failed"}
Running == script.pc \notin {"idle", "done", "failed"}
At(pc)  == script.pc = pc
Goes(pc) == script' = [script EXCEPT !.pc = pc]

(* The scripts, from main's first line. compose up for the memory profile    *)
(* returns when memory-init has ended, and the next command comes after it.  *)
Start(name) ==
  /\ ~Running /\ JobEnded("memory")
  /\ runs > 0 /\ runs' = runs - 1
  /\ script' = [name |-> name, at |-> 1, created |-> {}, hit |-> FALSE,
                pc |-> IF name \in {"bootstrap", "reset"} THEN "secrets"
                       ELSE IF name = "enable" THEN "certificate"
                       ELSE "network"]
  /\ UNCHANGED <<disk, certifi, docker, removed, changes, faults>>

-----------------------------------------------------------------------------
(* generate_secrets: a secret that is there is left alone.                   *)

(* Mutant: every run generates.                                              *)
AlwaysMissing(n) == TRUE

Missing(n) == file[n] = 0

GenerateSecret ==
  LET n == Order[script.at]
  IN /\ At("secrets")
     /\ IF Missing(n)
          THEN /\ file' = [file EXCEPT ![n] = made[n] + 1]
               /\ made' = [made EXCEPT ![n] = @ + 1]
          ELSE UNCHANGED <<file, made>>
     /\ script' = [script EXCEPT
          !.created = IF Missing(n) THEN @ \union {n} ELSE @,
          !.at = IF @ = Len(Order) THEN 1 ELSE @ + 1,
          !.pc = IF script.at = Len(Order) THEN "volume" ELSE @]
     /\ UNCHANGED <<token, tls, config, certifi, docker, removed, bounds>>

(* postgres_volume_exists: a regenerated first password cannot open the      *)
(* volume that is there, whatever the run was asked to do about it.          *)
CheckVolume ==
  /\ At("volume")
  /\ IF "postgres" \in script.created /\ db["core"].admin # 0
       THEN Goes("failed") /\ UNCHANGED env
       ELSE /\ Goes("broker")
            /\ env' = IF env = "none" THEN "https" ELSE env
  /\ UNCHANGED <<file, made, token, tls, onyx, overlay, certifi, docker, removed, bounds>>

(* ensure_broker_signing_key.                                                *)
EnsureBrokerKey ==
  /\ At("broker")
  /\ Goes("mint")
  /\ IF Missing("broker")
       THEN /\ file' = [file EXCEPT !["broker"] = made["broker"] + 1]
            /\ made' = [made EXCEPT !["broker"] = @ + 1]
       ELSE UNCHANGED <<file, made>>
  /\ UNCHANGED <<token, tls, config, certifi, docker, removed, bounds>>

(* Mutant: a token that is there is kept.                                    *)
TokenExists(t) == token[t] # 0

TokenIsCurrent(t) == token[t] = file["qdrant"]

(* mint_qdrant_tokens, one file at a time.                                   *)
Mint ==
  /\ At("mint")
  /\ \/ \E t \in Tokens :
          /\ ~TokenIsCurrent(t)
          /\ token' = [token EXCEPT ![t] = file["qdrant"]]
          /\ UNCHANGED script
     \/ /\ \A t \in Tokens : TokenIsCurrent(t)
        /\ Goes("tls") /\ UNCHANGED token
  /\ UNCHANGED <<file, made, tls, config, certifi, docker, removed, bounds>>

-----------------------------------------------------------------------------
(* ensure_tls, and the part of enable_keycloak_tls.py it runs.               *)
Bootstrapping == script.name \in {"bootstrap", "reset"}

Present == cert # 0 /\ key # 0

EnsureTls ==
  /\ At("tls")
  /\ Goes(IF Present THEN "volumes" ELSE "certificate")
  /\ UNCHANGED <<disk, certifi, docker, removed, bounds>>

(* generate_certificate: two files, the certificate first.                   *)
WriteCertificate ==
  /\ At("certificate")
  /\ IF Present THEN Goes("bundle") /\ UNCHANGED <<cert, pairs>>
     ELSE Goes("key") /\ cert' = pairs + 1 /\ pairs' = pairs + 1
  /\ UNCHANGED <<file, made, token, key, bundle, config, certifi, docker, removed, bounds>>

WriteKey ==
  /\ At("key")
  /\ key' = pairs
  /\ Goes("bundle")
  /\ UNCHANGED <<file, made, token, cert, bundle, pairs, config, certifi, docker, removed, bounds>>

(* build_ca_bundle.py needs the certificate and certifi's roots, and writes  *)
(* nothing without. With --certificate-only its failure is passed over.      *)
Buildable == cert # 0 /\ certifi

BuildBundle ==
  /\ At("bundle")
  /\ bundle' = IF Buildable THEN cert ELSE bundle
  /\ Goes(IF Bootstrapping THEN "volumes" ELSE IF Buildable THEN "env" ELSE "failed")
  /\ UNCHANGED <<file, made, token, cert, key, pairs, config, certifi, docker, removed, bounds>>

-----------------------------------------------------------------------------
(* docker compose down -v. The memory stack is behind a profile: its volume  *)
(* goes, or stays with its containers.                                       *)

(* Mutant: down without -v.                                                  *)
VolumeKept(d) == db[d]

VolumeRemoved(d) == NoVolume

Reset ==
  /\ At("volumes")
  /\ Goes("up")
  /\ IF script.name = "reset"
       THEN \E gone \in {Databases, {"core"}} :
              /\ db' = [d \in Databases |-> IF d \in gone THEN VolumeRemoved(d) ELSE db[d]]
              /\ job' = [d \in Databases |-> IF d \in gone THEN NoJob ELSE job[d]]
              /\ service' = [d \in Databases |-> IF d \in gone THEN 0 ELSE service[d]]
              /\ keycloak' = Down
       ELSE UNCHANGED docker
  /\ UNCHANGED <<disk, certifi, removed, bounds>>

(* A database starts, on its volume or a new one, and its job after it.      *)
Prepared(d) ==
  /\ db' = [db EXCEPT ![d].admin = IF @ = 0 THEN file[Admin[d]] ELSE @]
  /\ job' = [job EXCEPT ![d] = [pc |-> "connect", at |-> 0]]

ComposeUp ==
  /\ At("up") /\ JobEnded("core")
  /\ Prepared("core")
  /\ Goes("migrate")
  /\ UNCHANGED <<disk, keycloak, service, certifi, removed, bounds>>

(* The memory profile is started by hand, once bootstrap wrote its secrets.  *)
MemoryUp ==
  /\ ~Running /\ changes > 0 /\ changes' = changes - 1
  /\ JobEnded("memory") /\ service["memory"] = 0 /\ file["memory"] # 0 /\ file["service"] # 0
  /\ Prepared("memory")
  /\ UNCHANGED <<disk, keycloak, service, certifi, script, removed, runs, faults>>

-----------------------------------------------------------------------------
(* database/entrypoint.sh and memory-init. A role that exists keeps its      *)
(* password.                                                                 *)
Job(d, pc) == job' = [job EXCEPT ![d].pc = pc]
OnlyJob    == UNCHANGED <<disk, keycloak, service, certifi, script, removed, bounds>>

Connect(d) ==
  /\ job[d].pc = "connect"
  /\ Job(d, IF db[d].admin # file[Admin[d]] THEN "failed"
            ELSE IF d = "core" THEN "first" ELSE "roles")
  /\ UNCHANGED db /\ OnlyJob

RoleCreated(d) == IF db[d].role = 0 THEN file[Role[d]] ELSE db[d].role

(* 0001 creates the roles and the table of versions; the row that says so is *)
(* a command of its own, and the table is what the next run looks for.       *)
First ==
  /\ job["core"].pc = "first"
  /\ IF db["core"].table
       THEN Job("core", "files") /\ UNCHANGED db
       ELSE /\ db' = [db EXCEPT !["core"].role = RoleCreated("core"), !["core"].table = TRUE,
                                !["core"].applied = @ \union {1}]
            /\ job' = [job EXCEPT !["core"] = [pc |-> "record", at |-> 1]]
  /\ OnlyJob

CreateRoles ==
  /\ job["memory"].pc = "roles"
  /\ db' = [db EXCEPT !["memory"].role = RoleCreated("memory")]
  /\ Job("memory", "schemas")
  /\ OnlyJob

CreateSchemas ==
  /\ job["memory"].pc = "schemas"
  /\ db' = [db EXCEPT !["memory"].table = TRUE]
  /\ Job("memory", "files")
  /\ OnlyJob

Record(d) ==
  /\ job[d].pc = "record"
  /\ db' = [db EXCEPT ![d].recorded = @ \union {job[d].at}]
  /\ Job(d, "files")
  /\ OnlyJob

Unapplied(d) == (IF d = "core" THEN Versions \ {1} ELSE Versions) \ db[d].recorded

Applied(d, v) ==
  [db[d] EXCEPT !.applied = @ \union {v},
                !.again = IF v \in db[d].applied THEN @ \union {v} ELSE @]

(* Mutant: the row is written once the file's transaction has committed.     *)
ApplyThenRecord(d, v) ==
  /\ db' = [db EXCEPT ![d] = Applied(d, v)]
  /\ job' = [job EXCEPT ![d] = [pc |-> "record", at |-> v]]

(* One transaction a file, with the row that records it.                     *)
Apply(d, v) ==
  /\ db' = [db EXCEPT ![d] = [Applied(d, v) EXCEPT !.recorded = @ \union {v}]]
  /\ UNCHANGED job

ApplyMigrations(d) ==
  /\ job[d].pc = "files"
  /\ \/ \E v \in Unapplied(d) : (\A w \in Unapplied(d) : v <= w) /\ Apply(d, v)
     \/ /\ Unapplied(d) = {}
        /\ Job(d, IF Cardinality(db[d].recorded) = Files THEN "done" ELSE "failed")
        /\ UNCHANGED db
  /\ OnlyJob

(* The job dies, or its smoke tests fail.                                    *)
JobFails(d) ==
  /\ ~JobEnded(d)
  /\ faults > 0 /\ faults' = faults - 1
  /\ Job(d, "failed")
  /\ script' = [script EXCEPT !.hit = @ \/ d = "core"]
  /\ UNCHANGED <<disk, db, keycloak, service, certifi, removed, runs, changes>>

(* The memory service depends on memory-init.                                *)
StartMemory ==
  /\ job["memory"].pc = "done" /\ service["memory"] = 0
  /\ service' = [service EXCEPT !["memory"] = file["service"]]
  /\ UNCHANGED <<disk, db, job, keycloak, certifi, script, removed, bounds>>

-----------------------------------------------------------------------------
(* The rest of compose up, and what bootstrap waits for.                     *)
Migrated ==
  /\ At("migrate") /\ JobEnded("core")
  /\ Goes(IF job["core"].pc # "done" THEN "failed"
          ELSE IF Bootstrapping THEN "keycloak" ELSE "recreate")
  /\ UNCHANGED <<disk, certifi, docker, removed, bounds>>

(* A container that runs is left alone; a new one reads the pair and imports *)
(* the realm, in which the client has no secret of ours.                     *)
Startable == Present /\ cert = key
Fresh     == [cert |-> cert, secret |-> 0, scopes |-> FALSE]

StartKeycloak ==
  /\ At("keycloak")
  /\ IF keycloak.cert # 0 THEN Goes("api") /\ UNCHANGED keycloak
     ELSE IF Startable THEN Goes("api") /\ keycloak' = Fresh
     ELSE Goes("failed") /\ UNCHANGED keycloak
  /\ UNCHANGED <<disk, db, job, service, certifi, removed, bounds>>

(* The API loads SSL_CERT_FILE, the bundle, as it starts: without the file   *)
(* it does not. compose up does not wait for it, wait_for_api does.          *)
ApiStarted == IF bundle # 0 THEN file["api"] ELSE 0

StartApi ==
  /\ At("api")
  /\ service' = [service EXCEPT !["core"] = IF @ = 0 THEN ApiStarted ELSE @]
  /\ Goes("realm")
  /\ UNCHANGED <<disk, db, job, keycloak, certifi, removed, bounds>>

(* Verified against the certificate on disk, or not at all when there is none. *)
WaitForRealm ==
  /\ At("realm")
  /\ Goes(IF keycloak.cert # 0 /\ cert \in {0, keycloak.cert} THEN "ready" ELSE "failed")
  /\ UNCHANGED <<disk, certifi, docker, removed, bounds>>

Ready == service["core"] # 0 /\ service["core"] = db["core"].role

WaitForApi ==
  /\ At("ready")
  /\ Goes(IF Ready THEN "done" ELSE "failed")
  /\ UNCHANGED <<disk, certifi, docker, removed, bounds>>

-----------------------------------------------------------------------------
(* enable_keycloak_tls.py in full: compose.yaml ships with HTTPS and stays   *)
(* as it is, .env is moved to it on every run.                               *)

EnvPatched == IF env = "http" THEN "https" ELSE env

PatchEnv ==
  /\ At("env")
  /\ env' = EnvPatched
  /\ Goes("overlay")
  /\ UNCHANGED <<file, made, token, tls, onyx, overlay, certifi, docker, removed, bounds>>

(* write_onyx_override: an overlay that is there is left as it is.           *)
WriteOverlay ==
  /\ At("overlay")
  /\ overlay' = IF overlay = "absent" THEN "written" ELSE overlay
  /\ Goes("up")
  /\ UNCHANGED <<file, made, token, tls, env, onyx, certifi, docker, removed, bounds>>

(* up --force-recreate keycloak api. The migration job precedes the API.     *)
Recreate ==
  /\ At("recreate")
  /\ IF Startable
       THEN /\ keycloak' = Fresh
            /\ service' = [service EXCEPT !["core"] = ApiStarted]
            /\ Goes("done")
       ELSE Goes("failed") /\ keycloak' = Down /\ UNCHANGED service
  /\ UNCHANGED <<disk, db, job, certifi, removed, bounds>>

-----------------------------------------------------------------------------
(* connect_onyx.py.                                                          *)
Reachable == keycloak.cert # 0 /\ keycloak.cert = cert

CheckOnyx ==
  /\ At("network")
  /\ Goes(IF service["core"] # 0 THEN "client" ELSE "failed")
  /\ UNCHANGED <<disk, certifi, docker, removed, bounds>>

ClientSecret ==
  /\ At("client")
  /\ onyx' = IF onyx = 0 THEN 1 + keycloak.secret ELSE onyx
  /\ Goes(IF Reachable THEN "put" ELSE "failed")
  /\ UNCHANGED <<file, made, token, tls, env, overlay, certifi, docker, removed, bounds>>

(* The PUT may leave the client's secret as it was.                          *)
PutClient ==
  /\ At("put")
  /\ keycloak' \in {keycloak, [keycloak EXCEPT !.secret = onyx]}
  /\ Goes("scopes")
  /\ UNCHANGED <<disk, db, job, service, certifi, removed, bounds>>

GrantScopes ==
  /\ At("scopes")
  /\ keycloak' = [keycloak EXCEPT !.scopes = TRUE]
  /\ Goes("readback")
  /\ UNCHANGED <<disk, db, job, service, certifi, removed, bounds>>

SecretAgrees == keycloak.secret = onyx

ReadBack ==
  /\ At("readback")
  /\ IF SecretAgrees THEN Goes("discovery") /\ UNCHANGED keycloak
     ELSE /\ keycloak' = [keycloak EXCEPT !.secret = 1 + IF onyx > @ THEN onyx ELSE @]
          /\ Goes("store")
  /\ UNCHANGED <<disk, db, job, service, certifi, removed, bounds>>

StoreSecret ==
  /\ At("store")
  /\ onyx' = keycloak.secret
  /\ Goes("discovery")
  /\ UNCHANGED <<file, made, token, tls, env, overlay, certifi, docker, removed, bounds>>

(* Onyx's own view of the discovery document, its certificate not verified.  *)
Discover ==
  /\ At("discovery")
  /\ Goes(IF keycloak.cert # 0 THEN "done" ELSE "failed")
  /\ UNCHANGED <<disk, certifi, docker, removed, bounds>>

-----------------------------------------------------------------------------
(* A script is interrupted; what it started in Docker goes on.               *)
Interrupt ==
  /\ Running
  /\ faults > 0 /\ faults' = faults - 1
  /\ Goes("idle")
  /\ UNCHANGED <<disk, certifi, docker, removed, runs, changes>>

Removal(what) ==
  /\ changes > 0 /\ changes' = changes - 1
  /\ removed' = removed \union {what}
  /\ script' = [script EXCEPT !.hit = TRUE]
  /\ UNCHANGED <<made, token, bundle, pairs, env, overlay, certifi, docker, runs, faults>>

Remove ==
  \/ \E n \in Secrets : /\ file[n] # 0 /\ file' = [file EXCEPT ![n] = 0]
                        /\ Removal(n) /\ UNCHANGED <<cert, key, onyx>>
  \/ cert # 0 /\ cert' = 0 /\ Removal("cert") /\ UNCHANGED <<file, key, onyx>>
  \/ key # 0 /\ key' = 0 /\ Removal("key") /\ UNCHANGED <<file, cert, onyx>>
  \/ onyx # 0 /\ onyx' = 0 /\ Removal("onyx") /\ UNCHANGED <<file, cert, key>>

(* docker compose --profile memory down: the volumes stay.                   *)
ComposeDown ==
  /\ ~Running /\ changes > 0 /\ changes' = changes - 1
  /\ keycloak' = Down /\ service' = [d \in Databases |-> 0]
  /\ job' = [d \in Databases |-> NoJob]
  /\ script' = [script EXCEPT !.hit = TRUE]
  /\ UNCHANGED <<disk, db, certifi, removed, runs, faults>>

(* pip install certifi, between two scripts.                                 *)
InstallCertifi ==
  /\ ~Running /\ ~certifi /\ certifi' = TRUE
  /\ changes > 0 /\ changes' = changes - 1
  /\ UNCHANGED <<disk, docker, script, removed, runs, faults>>

Next ==
  \/ \E name \in Scripts : Start(name)
  \/ GenerateSecret \/ CheckVolume \/ EnsureBrokerKey \/ Mint \/ EnsureTls
  \/ WriteCertificate \/ WriteKey \/ BuildBundle
  \/ Reset \/ ComposeUp \/ MemoryUp
  \/ \E d \in Databases : Connect(d) \/ Record(d) \/ ApplyMigrations(d) \/ JobFails(d)
  \/ First \/ CreateRoles \/ CreateSchemas \/ StartMemory
  \/ Migrated \/ StartKeycloak \/ StartApi \/ WaitForRealm \/ WaitForApi
  \/ PatchEnv \/ WriteOverlay \/ Recreate
  \/ CheckOnyx \/ ClientSecret \/ PutClient \/ GrantScopes \/ ReadBack \/ StoreSecret \/ Discover
  \/ Interrupt \/ Remove \/ ComposeDown \/ InstallCertifi

Spec == Init /\ [][Next]_vars

-----------------------------------------------------------------------------
(* Every file, volume and container has the shape the code gives it.         *)
TypeOK ==
  /\ file \in [Secrets -> Nat] /\ made \in [Secrets -> Nat] /\ token \in [Tokens -> Nat]
  /\ {cert, key, bundle, pairs, onyx} \subseteq Nat
  /\ certifi \in BOOLEAN /\ env \in {"none", "http", "https"}
  /\ overlay \in {"shipped", "written", "absent"}
  /\ db \in [Databases -> [admin : Nat, role : Nat, table : BOOLEAN, applied : SUBSET Versions,
                           again : SUBSET Versions, recorded : SUBSET Versions]]
  /\ job \in [Databases -> [pc : {"none", "connect", "first", "roles", "schemas", "record",
                                  "files", "done", "failed"}, at : 0..Files]]
  /\ keycloak \in [cert : Nat, secret : Nat, scopes : BOOLEAN]
  /\ service \in [Databases -> Nat]
  /\ script \in [name : Scripts \union {"none"}, at : 1..Len(Order), created : SUBSET Secrets,
       hit : BOOLEAN,
       pc : {"idle", "secrets", "volume", "broker", "mint", "tls", "certificate", "key", "bundle", "volumes",
             "up", "migrate", "keycloak", "api", "realm", "ready", "env", "overlay", "recreate",
             "network", "client", "put", "scopes", "readback", "store", "discovery", "done", "failed"}]
  /\ removed \subseteq Secrets \union {"cert", "key", "onyx"}
  /\ runs \in 0..MaxRuns /\ changes \in 0..MaxChanges /\ faults \in 0..MaxFaults

(* "Safe to re-run: existing secrets are left alone so the database keeps    *)
(* working" (bootstrap_local.py): as long as nobody deletes a secret, the    *)
(* passwords on disk are the ones the volumes hold, whatever was             *)
(* interrupted, reset and run again.                                         *)
UntouchedSecretsOpenTheVolumes ==
  \A d \in Databases :
    /\ db[d].admin # 0 /\ Admin[d] \notin removed => db[d].admin = file[Admin[d]]
    /\ db[d].role # 0 /\ Role[d] \notin removed   => db[d].role = file[Role[d]]

(* "Environment is up": the API's role opens the migrated database, Keycloak *)
(* serves the certificate on disk and the API trusts it, and Qdrant's tokens *)
(* are signed with the key on disk, until somebody interferes. The pair must *)
(* never have been deleted: a bundle that could not be rebuilt is kept.      *)
UpMeansUsable ==
  Bootstrapping /\ script.pc = "done" /\ ~script.hit =>
    /\ Ready /\ db["core"].recorded = Versions
    /\ keycloak.cert = cert
    /\ removed \intersect {"cert", "key"} = {} => bundle = cert
    /\ \A t \in Tokens : token[t] = file["qdrant"]

(* connect_onyx.py ends with "client secret verified against Keycloak": the  *)
(* secret it tells the operator to enter is Keycloak's, and the client may   *)
(* request offline_access, also after an interrupted run.                    *)
OnyxSecretAgrees ==
  script.name = "connect" /\ script.pc = "done" /\ ~script.hit =>
    onyx = keycloak.secret /\ keycloak.scopes

(* enable_keycloak_tls.py leaves no issuer over HTTP behind and a bundle     *)
(* with the certificate Keycloak serves, whichever run of it was the first   *)
(* (patch_env "used to sit" below an early return).                          *)
EnabledMeansHttps ==
  script.name = "enable" /\ script.pc = "done" /\ ~script.hit =>
    env # "http" /\ overlay # "absent" /\ keycloak.cert = cert /\ bundle = cert

(* A script that ends by saying so leaves what it says, whatever was         *)
(* interrupted before it and whichever script made what it found there.      *)
ScriptsKeepTheirWord == UpMeansUsable /\ OnyxSecretAgrees /\ EnabledMeansHttps

(* "Everything is confusing: bootstrap_local.py --reset" (LAB.md): a reset   *)
(* run nobody interferes with comes up, whatever was left before, unless it  *)
(* generated the first password itself, no bundle was ever built, or one     *)
(* half of the pair is of another certificate.                               *)
ResetRecovers ==
  script.name = "reset" /\ script.pc = "failed" /\ ~script.hit =>
    "postgres" \in script.created \/ bundle = 0 \/ cert # key

(* A service is started on a database only when every migration is in it and *)
(* recorded, and none is applied twice, wherever the job died ("each         *)
(* atomically, and recorded", memory init.py).                               *)
MigrationsHold ==
  \A d \in Databases :
    /\ db[d].again = {} /\ db[d].recorded \subseteq db[d].applied
    /\ service[d] # 0 => db[d].recorded = Versions
=============================================================================
