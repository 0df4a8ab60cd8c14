------------------------------ MODULE Deployment ------------------------------
(* install.sh and update.sh, the containers they put up, and what the API   *)
(* does to the database when it starts.  A script may be killed, or end on  *)
(* a failed command, after any of its steps, and be run again; one script   *)
(* runs at a time.  The passwords and keys of one .env are one number: 0    *)
(* stands for those of an .env without them.                                *)
EXTENDS Naturals, FiniteSets

CONSTANTS
  MaxRelease,  \* bound: releases; the nth adds the nth default trigger
  MaxKeys,     \* bound: times secrets are generated
  MaxStops,    \* bound: scripts and API processes that die
  NoEnv,       \* there is no .env
  NoDb         \* the volume of the database is empty

ASSUME DeployAssumption ==
  /\ MaxRelease \in Nat \ {0} /\ MaxKeys \in Nat /\ MaxStops \in Nat /\ NoDb \notin Nat
  /\ NoEnv \notin [keys : Nat, tag : Nat]

VARIABLES
  upstream,  \* the latest release
  home,      \* NETATLAS_HOME: absent, a git checkout, files, or incomplete
  head,      \* the release it holds
  env,       \* .env: [keys, tag]
  aside,     \* the .env a script has moved to /tmp
  db,        \* the password the database was made with
  schema,    \* the release whose columns it has
  defaults,  \* default triggers in it
  deleted,   \* history: default triggers deleted since the API started
  secrets,   \* the master keys that profiles in it are encrypted with
  script,    \* [by, at]
  api, worker, \* containers: [at, version, keys], the API also [own]
  fresh,     \* number of secrets generated so far
  torn,      \* history: a script died between the creation of .env and its text
  lost,      \* history: a script died while .env was aside
  stops

deployVars == <<upstream, home, head, env, aside, db, schema, defaults, deleted, secrets,
                script, api, worker, fresh, torn, lost, stops>>
disk == <<home, head, env, aside>>
data == <<db, schema, defaults, deleted, secrets>>
containers == <<api, worker>>
faults == <<torn, lost, stops>>

NoContainer == [at |-> "absent", version |-> 0, keys |-> 0, own |-> 0]

(* A host without NetAtlas, with an unpacked archive, or with an older      *)
(* installation whose checkout has been removed.                            *)
DeployInit ==
  /\ upstream = 1 /\ head = 0 /\ aside = NoEnv
  /\ \/ home \in {"absent", "files"} /\ env = NoEnv /\ db = NoDb /\ secrets = {} /\ fresh = 0
     \/ home = "incomplete" /\ env = [keys |-> 1, tag |-> 1] /\ db = 1 /\ secrets = {1} /\ fresh = 1
  /\ schema = 0 /\ defaults = {} /\ deleted = {}
  /\ script = [by |-> "none", at |-> "idle"]
  /\ api = NoContainer /\ worker = NoContainer
  /\ torn = FALSE /\ lost = FALSE /\ stops = 0

Release ==
  /\ upstream < MaxRelease /\ upstream' = upstream + 1
  /\ UNCHANGED <<disk, data, script, containers, fresh, faults>>

-----------------------------------------------------------------------------
On(step) == script.at = step
Runs == ~On("idle") /\ ~On("done")
To(step) == script' = [script EXCEPT !.at = step]
Rest == UNCHANGED <<upstream, data, containers, faults>>

(* update.sh needs a checkout; install.sh takes what there is. *)
Begin(by) ==
  /\ ~Runs
  /\ by = "update" => home = "git"
  /\ script' = [by |-> by, at |-> "prepare"]
  /\ UNCHANGED <<disk, fresh>> /\ Rest

(* prepare_dirs, _bootstrap_and_reexec *)
SyncCheckout ==
  /\ On("prepare") /\ home = "git" /\ head' = upstream /\ To("env")
  /\ UNCHANGED <<home, env, aside, fresh>> /\ Rest

(* install.sh is run from another directory with the files of a release;    *)
(* a checkout there makes NETATLAS_HOME one, by a later fetch.              *)
CopyLocal ==
  /\ On("prepare") /\ home # "git" /\ home' = "files" /\ head' \in 1..upstream
  /\ \E next \in {"adopt", "env"} : To(next)
  /\ UNCHANGED <<env, aside, fresh>> /\ Rest
Adopt ==
  /\ On("adopt") /\ home' = "git" /\ head' = upstream /\ To("env")
  /\ UNCHANGED <<env, aside, fresh>> /\ Rest

Clone ==
  /\ On("prepare") /\ home = "absent" /\ home' = "git" /\ head' = upstream /\ To("env")
  /\ UNCHANGED <<env, aside, fresh>> /\ Rest
ContinueWithFiles ==
  /\ On("prepare") /\ home = "files" /\ head' = (IF head = 0 THEN 1 ELSE head) /\ To("env")
  /\ UNCHANGED <<home, env, aside, fresh>> /\ Rest

PutAside ==
  /\ On("prepare") /\ home = "incomplete" /\ aside' = env /\ env' = NoEnv /\ To("clone")
  /\ UNCHANGED <<home, head, fresh>> /\ Rest
CloneAgain ==
  /\ On("clone") /\ home' = "git" /\ head' = upstream /\ To("restore")
  /\ UNCHANGED <<env, aside, fresh>> /\ Rest
PutBack ==
  /\ On("restore") /\ env' = aside /\ aside' = NoEnv /\ To("env")
  /\ UNCHANGED <<home, head, fresh>> /\ Rest

\* Mutant: an existing .env is not looked for.
NeedsEnvAlways == script.by = "install"

NeedsEnv == script.by = "install" /\ env = NoEnv

(* generate_secrets: .env is created, then written; an existing one stays,  *)
(* whatever it holds.  update.sh ends without one.                          *)
CreateEnv ==
  /\ On("env") /\ NeedsEnv /\ env' = [keys |-> 0, tag |-> 0] /\ To("fill")
  /\ UNCHANGED <<home, head, aside, fresh>> /\ Rest
FillEnv ==
  /\ On("fill") /\ fresh < MaxKeys /\ fresh' = fresh + 1 /\ env' = [env EXCEPT !.keys = fresh + 1]
  /\ To("databases")
  /\ UNCHANGED <<home, head, aside>> /\ Rest
KeepEnv ==
  /\ On("env") /\ ~NeedsEnv
  /\ To(IF env = NoEnv THEN "idle" ELSE IF script.by = "install" THEN "databases" ELSE "tag")
  /\ UNCHANGED <<disk, fresh>> /\ Rest

(* The first start of the database sets its password. *)
StartDataPlane ==
  /\ On("databases") /\ db' = (IF db = NoDb THEN env.keys ELSE db) /\ To("tag")
  /\ UNCHANGED <<upstream, disk, schema, defaults, deleted, secrets, containers, fresh, faults>>

(* rebuild_stack: the tag of the checkout goes to .env, images are built    *)
(* from it, and the containers are made again, the worker once the API is   *)
(* healthy.                                                                 *)
WriteTag ==
  /\ On("tag") /\ env' = [env EXCEPT !.tag = head] /\ To("build")
  /\ UNCHANGED <<home, head, aside, fresh>> /\ Rest

Made == [at |-> "starting", version |-> env.tag, keys |-> env.keys, own |-> 0]
RecreateApi ==
  /\ On("build") /\ api' = Made /\ To("workers")
  /\ UNCHANGED <<upstream, disk, data, worker, fresh, faults>>

\* Mutant: the worker is left as it is.
RecreateWorkerNot ==
  /\ On("workers") /\ api.at = "serving" /\ To("wait")
  /\ UNCHANGED <<upstream, disk, data, api, worker, fresh, faults>>

RecreateWorker ==
  /\ On("workers") /\ api.at = "serving" /\ worker' = [Made EXCEPT !.at = "serving", !.own = env.keys]
  /\ To("wait")
  /\ UNCHANGED <<upstream, disk, data, api, fresh, faults>>

(* wait_healthy, verify_ui *)
Complete ==
  /\ On("wait") /\ api.at = "serving" /\ To("done")
  /\ UNCHANGED <<disk, fresh>> /\ Rest

(* A script is killed, or a command of it fails (set -e, die). *)
Stops ==
  /\ Runs /\ stops < MaxStops /\ stops' = stops + 1
  /\ To("idle") /\ aside' = NoEnv
  /\ lost' = (lost \/ aside # NoEnv) /\ torn' = (torn \/ On("fill"))
  /\ UNCHANGED <<upstream, home, head, env, data, containers, fresh>>

-----------------------------------------------------------------------------
(* startup: a key that .env lacks is generated in the process; create_all   *)
(* and the patches are one transaction, the seeding another.                *)
OwnKey == IF api.keys = 0 THEN fresh + 1 ELSE api.keys

PatchSchema ==
  /\ api.at = "starting" /\ db = api.keys
  /\ api.keys = 0 => fresh < MaxKeys
  /\ api' = [api EXCEPT !.at = "patched", !.own = OwnKey]
  /\ fresh' = (IF api.keys = 0 THEN OwnKey ELSE fresh)
  /\ schema' = (IF schema < api.version THEN api.version ELSE schema)
  /\ UNCHANGED <<upstream, disk, db, defaults, deleted, secrets, script, worker, faults>>

DefaultsOf(release) == 1..release
SeedDefaults ==
  /\ api.at = "patched" /\ api' = [api EXCEPT !.at = "serving"]
  /\ defaults' = defaults \cup DefaultsOf(api.version) /\ deleted' = {}
  /\ UNCHANGED <<upstream, disk, db, schema, secrets, script, worker, fresh, faults>>

(* restart: unless-stopped, with the environment the container was made with. *)
ApiDies ==
  /\ api.at # "absent" /\ stops < MaxStops /\ stops' = stops + 1
  /\ api' = [api EXCEPT !.at = "starting", !.own = 0]
  /\ UNCHANGED <<upstream, disk, data, script, worker, fresh, torn, lost>>

(* Requests to the API. *)
SaveProfile ==
  /\ api.at = "serving" /\ secrets' = secrets \cup {api.own}
  /\ UNCHANGED <<upstream, disk, db, schema, defaults, deleted, script, containers, fresh, faults>>
DeleteDefault ==
  /\ api.at = "serving"
  /\ \E t \in defaults : defaults' = defaults \ {t} /\ deleted' = deleted \cup {t}
  /\ UNCHANGED <<upstream, disk, db, schema, secrets, script, containers, fresh, faults>>

DeployNext ==
  \/ Release \/ Begin("install") \/ Begin("update")
  \/ SyncCheckout \/ CopyLocal \/ Adopt \/ Clone \/ ContinueWithFiles
  \/ PutAside \/ CloneAgain \/ PutBack \/ CreateEnv \/ FillEnv \/ KeepEnv
  \/ StartDataPlane \/ WriteTag \/ RecreateApi \/ RecreateWorker \/ Complete \/ Stops
  \/ PatchSchema \/ SeedDefaults \/ ApiDies \/ SaveProfile \/ DeleteDefault

DeploySpec == DeployInit /\ [][DeployNext]_deployVars

-----------------------------------------------------------------------------
(* "data/.env preserved": however scripts are killed and run again and the  *)
(* API restarts, .env opens the database, and it, the API and the worker    *)
(* can decrypt every profile that was saved.  Only a script that dies at    *)
(* one of two moments ends that: while .env is aside, and between its       *)
(* creation and its text.                                                   *)
SecretsReadable ==
  ~torn /\ ~lost =>
    /\ env # NoEnv /\ ~On("fill") => db \in {NoDb, env.keys} /\ secrets \subseteq {env.keys}
    /\ api.at = "patched" \/ api.at = "serving" => secrets \subseteq {api.own}
    /\ worker.at = "serving" => secrets \subseteq {worker.own}

(* "Update complete": both run the release of the checkout, on a schema     *)
(* with its columns, and the default triggers are those of the release, but *)
(* for those deleted since.                                                 *)
CompleteIsCurrent == script.at = "done" =>
  /\ api.version = head /\ worker.version = head /\ schema >= head
  /\ api.at = "serving" => 1..head \subseteq defaults \cup deleted
=============================================================================
