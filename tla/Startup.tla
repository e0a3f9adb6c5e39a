------------------------------ MODULE Startup ------------------------------
(***************************************************************************)
(* How a process of the binary comes up (main.rs, runtime.rs): it reads    *)
(* the infra settings and lays the environment over them, opens the store  *)
(* (TLS, the key of the secrets, the schema and its migrations, the        *)
(* secrets themselves), and then runs its command: serve goes on through   *)
(* the poller lease, the authentication checks and the first admin;        *)
(* health, sources and validate answer and exit.  Processes of two         *)
(* releases share one database, and the operator edits the settings        *)
(* between starts.  What the application document adds to validation is in *)
(* modules Tenants and Channels.                                           *)
(***************************************************************************)
EXTENDS Naturals, FiniteSets

CONSTANTS
    Procs,      \* processes that may run at the same time
    Binary,    \* process -> CURRENT_SCHEMA_VERSION of its binary
    Files,      \* infra settings an operator may write
    Envs,       \* environments: functions from settings to values
    Databases,  \* states of the database at the beginning
    Savable,     \* values that may be saved in the one secret
    MaxStarts,  \* bound on the processes started
    MaxSaves    \* bound on the secrets saved

\* A database comes from the release it says it does, with nothing sealed in it;
\* every file has a place for what the environment may set, and no key is the word
\* for plaintext.
ASSUME StartupAssumption ==
    /\ "free" \notin Procs /\ Binary \in [Procs -> Nat \ {0}]
    /\ Databases \subseteq
         [version : Nat, dated : BOOLEAN, users : Nat, lock : {"free"}, lease : {"free"},
          secret : {[value |-> "", by |-> "none"]}]
    /\ \A d \in Databases : d.version = 2 => ~d.dated
    /\ \A file \in Files : {"session_secret", "postgres_url"} \subseteq DOMAIN file
    /\ \A env \in Envs : "key" \in DOMAIN env => env["key"] # "plain"

VARIABLES
    running,    \* process -> [at, cmd, file, env, cfg]
    db,         \* [version, dated, users, secret, lock, lease]
    exits,      \* what the last process to end said: [cmd, why, file, env]
    verdict,     \* the last validation: [valid, file, env]
    past,       \* [keys, plain, skipped]: history for the properties
    startups, saves

startupVars == <<running, db, exits, verdict, past, startups, saves>>

Down     == [at |-> "down"]
NoExit  == [why |-> "none"]
Running(p) == running[p].at # "down"
At(p, stage) == running[p].at = stage

----------------------------------------------------------------------------
(* Settings (config/mod.rs, config/api.rs, config/database.rs).  A setting *)
(* is "unset" or a value, which may be blank.                              *)

Present(value) == value \notin {"unset", ""}

parse_libpq(value) == value \in {"disable", "prefer", "require", "verify-full"}

\* A few variables are ignored when they are blank or do not parse.
Accepted(setting, value) ==
    CASE setting = "ssl_mode" -> parse_libpq(value)
      [] setting = "log"      -> value # ""
      [] OTHER                -> TRUE

apply_env_overrides(file, env) ==
    [s \in DOMAIN file |->
        IF s \in DOMAIN env /\ Accepted(s, env[s]) THEN env[s] ELSE file[s]]

EnvValue(env, s) == IF s \in DOMAIN env THEN env[s] ELSE "unset"

local_auth_configured(cfg) == cfg.local_auth /\ Present(cfg.session_secret)

server_auth_configured(cfg) ==
    Present(cfg.api_key) \/ Present(cfg.issuer) \/ local_auth_configured(cfg)

webhook_auth_configured(cfg) == Present(cfg.webhook_secret)

effective_ssl_mode(cfg) ==
    IF cfg.ssl_mode # "unset" THEN cfg.ssl_mode
    ELSE IF cfg.postgres_url = "db?sslmode=require" THEN "require" ELSE "disable"

UrlParses(cfg) == cfg.postgres_url # "malformed"

build_tls_connector(cfg) ==
    effective_ssl_mode(cfg) = "verify-full" => cfg.ssl_root_cert # "missing"

key_env_present(env) == Present(EnvValue(env, "key"))
parse_key(env)       == EnvValue(env, "key") # "malformed"
plaintext_ledger_allowed(env) == EnvValue(env, "allow") = "on"
from_env(env)        == IF key_env_present(env) THEN env["key"] ELSE "plain"

----------------------------------------------------------------------------
(* validate.rs, for the infra settings.                                    *)

validate_database(cfg, env) ==
    Present(cfg.postgres_url) \/ Present(EnvValue(env, "postgres_url"))

validate_config_api(cfg, env) ==
    /\ cfg.source = "api" => cfg.api_config
    /\ cfg.ui_config => cfg.api_config /\ cfg.source = "api"
    /\ cfg.source = "api" =>
          key_env_present(env) \/ plaintext_ledger_allowed(env)

HasCredential(cfg, env) ==
    \/ cfg.api_key # "unset"
    \/ Present(cfg.issuer)
    \/ local_auth_configured(cfg)
    \/ Present(EnvValue(env, "session_secret"))

\* Mutant: a process without credentials is not reported
Mut_validate_api(cfg, env) == cfg.listen = "addr"

validate_api(cfg, env) ==
    /\ cfg.listen = "addr"
    /\ cfg.require_auth => HasCredential(cfg, env)

warnings(cfg, env) ==
    {w \in {"webhook", "open", "plaintext", "rate", "prune"} :
        CASE w = "webhook"   -> cfg.webhook_secret = "unset"
          [] w = "open"      -> ~cfg.require_auth /\ ~HasCredential(cfg, env)
          [] w = "plaintext" -> cfg.source = "api" /\ ~key_env_present(env)
                                /\ plaintext_ledger_allowed(env)
          [] w = "rate"      -> cfg.rate_limit = 0
          [] w = "prune"     -> cfg.prune_interval /\ ~cfg.prune_seen}

\* apply_strict turns warnings into errors; probes ran for --online only.
validate_offline(cfg, env, strict, probes) ==
    /\ validate_database(cfg, env) /\ validate_config_api(cfg, env)
    /\ validate_api(cfg, env)
    /\ cfg.interval > 0
    /\ probes
    /\ strict => warnings(cfg, env) = {}

----------------------------------------------------------------------------
(* The life of one process.                                                *)

StartupInit ==
    /\ running = [p \in Procs |-> Down]
    /\ db \in Databases
    /\ exits = NoExit
    /\ verdict = [valid |-> FALSE, file |-> "none", env |-> "none"]
    /\ past = [keys |-> {}, plain |-> FALSE, skipped |-> FALSE]
    /\ startups = 0 /\ saves = 0

Commands == {"serve", "health", "validate_offline", "online"}

\* The operator may have rewritten the file and the environment before.
Start(p, cmd, file, env) ==
    /\ ~Running(p) /\ startups < MaxStarts
    /\ running' = [running EXCEPT ![p] =
          [at |-> "open", cmd |-> cmd, file |-> file, env |-> env,
           cfg |-> apply_env_overrides(file, env)]]
    /\ startups' = startups + 1
    /\ exits' = NoExit
    /\ UNCHANGED <<db, verdict, past, saves>>

Proceeds(p, stage) == running' = [running EXCEPT ![p].at = stage]

\* A process that ends drops its session: the lock and the lease go with it.
Released(p, d) == [d EXCEPT !.lock = IF @ = p THEN "free" ELSE @,
                            !.lease = IF @ = p THEN "free" ELSE @]

Ends(p, why, d) ==
    /\ running' = [running EXCEPT ![p] = Down]
    /\ db' = Released(p, d)
    /\ exits' = [cmd |-> running[p].cmd, why |-> why, file |-> running[p].file,
                 env |-> running[p].env]
    /\ UNCHANGED <<verdict, past, startups, saves>>

\* Offline validation goes on without the database; the rest gives up.
OpenFails(p, why) ==
    IF running[p].cmd = "validate_offline"
    THEN /\ Proceeds(p, "ready")
         /\ db' = Released(p, db)
         /\ UNCHANGED <<exits, verdict, past, startups, saves>>
    ELSE Ends(p, why, db)

\* PostgresStore::open up to the first connection and the key: the settings are
\* looked at one after the other, and the server may not answer.
Connect(p) ==
    /\ At(p, "open")
    /\ LET cfg == running[p].cfg IN
       IF ~Present(cfg.postgres_url) \/ ~UrlParses(cfg) THEN OpenFails(p, "url")
       ELSE IF ~build_tls_connector(cfg) THEN OpenFails(p, "tls")
       ELSE \/ OpenFails(p, "database")
            \/ ~parse_key(running[p].env) /\ OpenFails(p, "key")
            \/ /\ parse_key(running[p].env)
               /\ Proceeds(p, "schema")
               /\ UNCHANGED <<db, exits, verdict, past, startups, saves>>

MayLock(p) == db.lock = "free"

Lock(p) ==
    /\ At(p, "schema") /\ MayLock(p)
    /\ db' = [db EXCEPT !.lock = p]
    /\ Proceeds(p, "migrate")
    /\ UNCHANGED <<exits, verdict, past, startups, saves>>

MigrationDone(p, d, skipped) ==
    /\ Proceeds(p, "secrets")
    /\ db' = [d EXCEPT !.lock = IF @ = p THEN "free" ELSE @]
    /\ past' = [past EXCEPT !.skipped = @ \/ skipped]
    /\ UNCHANGED <<exits, verdict, startups, saves>>

\* read_version; a database without a version is stamped as current.
ReadVersion(p) ==
    /\ At(p, "migrate")
    /\ \/ db.version = 0 /\ Proceeds(p, "stamp")
          /\ UNCHANGED <<db, exits, verdict, past, startups, saves>>
       \/ db.version > Binary[p] /\ OpenFails(p, "version")
       \/ db.version = Binary[p] /\ MigrationDone(p, db, FALSE)
       \/ /\ db.version \in 1..(Binary[p] - 1)
          /\ Proceeds(p, "rewrite")
          /\ UNCHANGED <<db, exits, verdict, past, startups, saves>>

StampBaseline(p) ==
    /\ At(p, "stamp")
    /\ MigrationDone(p, [db EXCEPT !.version = Binary[p]], db.dated /\ Binary[p] = 2)

\* Mutant: a failed step is stamped all the same
MutRunMigration(p) ==
    /\ At(p, "rewrite")
    /\ \E failed \in BOOLEAN : db' = [db EXCEPT !.dated = @ /\ failed]
    /\ Proceeds(p, "stamp_next")
    /\ UNCHANGED <<exits, verdict, past, startups, saves>>

\* MIGRATIONS[2] drops the placeholder publish dates.
RunMigration(p) ==
    /\ At(p, "rewrite")
    /\ db' = [db EXCEPT !.dated = FALSE]
    /\ Proceeds(p, "stamp_next")
    /\ UNCHANGED <<exits, verdict, past, startups, saves>>

StampNext(p) ==
    /\ At(p, "stamp_next")
    /\ Proceeds(p, "migrate")
    /\ db' = [db EXCEPT !.version = @ + 1]
    /\ UNCHANGED <<exits, verdict, past, startups, saves>>

\* Mutant: a keyed store takes every row for a sealed one
Mut_open_secret_ciphertext(env) == db.secret.by \in {"none", from_env(env)}

\* A plaintext row opens under every key, a sealed one under its own.
open_secret_ciphertext(env) == db.secret.by \in {"none", "plain", from_env(env)}

load_app_secrets_into_vault(p) ==
    /\ At(p, "secrets")
    /\ IF open_secret_ciphertext(running[p].env)
       THEN /\ Proceeds(p, "ready")
            /\ UNCHANGED <<db, exits, verdict, past, startups, saves>>
       ELSE OpenFails(p, "secret")

health(p) ==
    /\ At(p, "ready") /\ running[p].cmd = "health"
    /\ Ends(p, "ok", db)

Reports(p, strict, probes) ==
    /\ verdict' = [valid |-> validate_offline(running[p].cfg, running[p].env, strict, probes),
                  file |-> running[p].file, env |-> running[p].env]
    /\ running' = [running EXCEPT ![p] = Down]
    /\ db' = Released(p, db)
    /\ UNCHANGED <<exits, past, startups, saves>>

run_validate_offline(p) ==
    /\ At(p, "ready") /\ running[p].cmd = "validate_offline"
    /\ \E strict \in BOOLEAN : Reports(p, strict, TRUE)

\* --online fetches every source once; merge_probes asks that each answers.
probe_sources(p) ==
    /\ At(p, "ready") /\ running[p].cmd = "online"
    /\ \E strict, answered \in BOOLEAN : Reports(p, strict, answered)

----------------------------------------------------------------------------
(* serve.                                                                  *)

try_acquire_poller_lease(p) == db.lease = "free"

Lease(p) ==
    /\ At(p, "ready") /\ running[p].cmd = "serve"
    /\ IF try_acquire_poller_lease(p)
       THEN /\ db' = [db EXCEPT !.lease = p]
            /\ Proceeds(p, "leased")
            /\ UNCHANGED <<exits, verdict, past, startups, saves>>
       ELSE Ends(p, "busy", db)

CheckAuth(p) ==
    /\ At(p, "leased")
    /\ IF server_auth_configured(running[p].cfg) \/ ~running[p].cfg.require_auth
       THEN /\ Proceeds(p, IF local_auth_configured(running[p].cfg) /\ db.users = 0
                       THEN "seed" ELSE "seeded")
            /\ UNCHANGED <<db, exits, verdict, past, startups, saves>>
       ELSE Ends(p, "auth", db)

\* seed_admin after it has counted the users: the name is unique.
seed_admin(p) ==
    /\ At(p, "seed")
    /\ LET cfg == running[p].cfg IN
       IF cfg.admin_username = "" THEN Ends(p, "admin", db)
       ELSE IF ~Present(cfg.admin_password)
       THEN /\ Proceeds(p, "seeded")
            /\ UNCHANGED <<db, exits, verdict, past, startups, saves>>
       ELSE IF db.users > 0 THEN Ends(p, "seed", db)
       ELSE /\ db' = [db EXCEPT !.users = 1]
            /\ Proceeds(p, "seeded")
            /\ UNCHANGED <<exits, verdict, past, startups, saves>>

server_apply_auth_configured(p) ==
    server_auth_configured(running[p].cfg) \/ Present(EnvValue(running[p].env, "hmac"))

\* api::serve parses the address, refuses an unguarded apply route and binds.
Listen(p) ==
    /\ At(p, "seeded")
    /\ LET cfg == running[p].cfg IN
       IF cfg.listen # "addr" THEN Ends(p, "listen", db)
       ELSE IF cfg.api_config /\ ~server_apply_auth_configured(p) THEN Ends(p, "apply", db)
       ELSE /\ Proceeds(p, "up")
            /\ past' = [past EXCEPT !.keys = @ \cup {from_env(running[p].env)},
                          !.plain = @ \/ plaintext_ledger_allowed(running[p].env)]
            /\ UNCHANGED <<db, exits, verdict, startups, saves>>

may_seal(p) == from_env(running[p].env) # "plain"
               \/ plaintext_ledger_allowed(running[p].env)

\* A value that has not changed is neither sealed nor written again.
upsert_app_secrets(p, value) ==
    /\ At(p, "up") /\ saves < MaxSaves /\ may_seal(p)
    /\ db' = IF db.secret.value = value THEN db
             ELSE [db EXCEPT !.secret = [value |-> value, by |-> from_env(running[p].env)]]
    /\ saves' = saves + 1
    /\ UNCHANGED <<running, exits, verdict, past, startups>>

delete_app_secrets(p) ==
    /\ At(p, "up") /\ db.secret.by # "none"
    /\ db' = [db EXCEPT !.secret = [value |-> "", by |-> "none"]]
    /\ UNCHANGED <<running, exits, verdict, past, startups, saves>>

\* A release that does not know placeholder dates keeps recording them.
RecordDates(p) ==
    /\ At(p, "up") /\ Binary[p] < 2 /\ ~db.dated
    /\ db' = [db EXCEPT !.dated = TRUE]
    /\ past' = [past EXCEPT !.skipped = @ \/ db.version > Binary[p]
                                        \/ \E q \in Procs : At(q, "stamp_next")]
    /\ UNCHANGED <<running, exits, verdict, startups, saves>>

\* SIGTERM, a crash or a kill at any point.
Die(p) == Running(p) /\ Ends(p, "died", db)

StartupNext ==
    \E p \in Procs :
          \/ \E cmd \in Commands, file \in Files, env \in Envs : Start(p, cmd, file, env)
          \/ Connect(p) \/ Lock(p)
          \/ ReadVersion(p) \/ StampBaseline(p) \/ RunMigration(p) \/ StampNext(p)
          \/ load_app_secrets_into_vault(p) \/ health(p) \/ run_validate_offline(p)
          \/ probe_sources(p)
          \/ Lease(p) \/ CheckAuth(p) \/ seed_admin(p) \/ Listen(p)
          \/ \E value \in Savable : upsert_app_secrets(p, value)
          \/ delete_app_secrets(p) \/ RecordDates(p) \/ Die(p)

StartupSpec == StartupInit /\ [][StartupNext]_startupVars

----------------------------------------------------------------------------
(* What `xrelease validate` accepts in CI, `serve` starts: when a process  *)
(* gives up over a setting although the last validation of the same file   *)
(* and environment passed, it is for one of the gaps between validate.rs   *)
(* and PostgresStore::open or Runtime::serve.  Looked at for presence only:*)
(* a database URL that does not parse, a CA file that is missing, an       *)
(* encryption key that is malformed, an API key that is blank, a session   *)
(* secret while local login is off.  Not looked at: an apply API nobody    *)
(* guards, an admin without a name.                                        *)
ValidationGap(cfg, env) ==
    \/ ~UrlParses(cfg) \/ ~build_tls_connector(cfg) \/ ~parse_key(env)
    \/ cfg.api_key = ""
    \/ ~cfg.local_auth /\ Present(cfg.session_secret)
    \/ ~cfg.require_auth /\ cfg.api_config
    \/ cfg.admin_username = ""

\* The ends of a process that come from its settings alone.
OverSettings == {"url", "tls", "key", "auth", "listen", "apply", "admin"}

ValidatedStarts ==
    (/\ exits.why \in OverSettings /\ verdict.valid
     /\ verdict.file = exits.file /\ verdict.env = exits.env)
        => ValidationGap(apply_env_overrides(exits.file, exits.env), exits.env)

(* A schema version says what was done to the data (migrate.rs): once the  *)
(* database is at version 2, no placeholder publish date is left, whoever  *)
(* migrated and whatever died meanwhile, unless a database without a       *)
(* version was stamped as it was or an older release went on writing.      *)
VersionIsTrue == (db.version = 2 /\ ~past.skipped) => ~db.dated

(* A database that was always served with one key, or with none, can be    *)
(* opened: a process only stops over a secret it cannot read when some     *)
(* earlier server ran with another key (from_env, open, seal).             *)
SameKeyReopens ==
    exits.why = "secret" =>
        \E key \in past.keys \ {"plain"} : key # from_env(exits.env)

(* A secret is kept in plaintext only if a server was once told it may be. *)
PlainIsAsked == db.secret.by = "plain" => past.plain

(* The first admin is seeded once: starting servers do not collide over    *)
(* the empty user table, because the lease comes first (serve).            *)
SeedsOnce == exits.why # "seed"

(* The four rules above: processes that start, die and migrate around each *)
(* other leave a database that is what it says it is and can be opened.    *)
StoreIsTrue == VersionIsTrue /\ SameKeyReopens /\ PlainIsAsked /\ SeedsOnce

(* docs/operations/storage.md:65: in API mode without a key, serve fails   *)
(* unless plaintext is allowed.                                            *)
ApiModeKeyed ==
    \A p \in Procs : (At(p, "up") /\ running[p].cfg.source = "api") =>
        key_env_present(running[p].env) \/ plaintext_ledger_allowed(running[p].env)

(* store_tests.rs:546: "open must run every migration".                    *)
EveryMigrationRan ==
    (\A p \in Procs : Binary[p] = 2) => (db.version = 2 => ~db.dated)
============================================================================
