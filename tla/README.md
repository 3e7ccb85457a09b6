# A TLA+ model of go-vite-swarm-starter

The repository is a starter for small systems: a Go notes API with PostgreSQL,
S3 storage and an n8n webhook, a Vite frontend, and the Bash tooling that puts
them on a single-node Docker Swarm. This directory keeps the specifications of
the parts where order, concurrency and failure decide whether it works, the TLC
runs that check them on small instances, and TLAPS proofs for every instance.
Source paths below are relative to `src/`.

## Inventory

| Component | State it keeps | Operations | Interacts with |
| --- | --- | --- | --- |
| Notes API handlers (`backend/internal/httpapi/server.go`, `store/postgres.go`, `storage/s3.go`) | rows of `notes` (with `attachment_key`), objects of the bucket, presigned forms still valid | create, delete, presign, confirm, list, get, download | PostgreSQL and MinIO by calls; browsers upload straight to MinIO; the publisher |
| Schema migrations (`store/postgres.go` `Migrate`) | `schema_migrations`, the schema, advisory lock 727001 | one pass per API start | other replicas and dead sessions through PostgreSQL |
| API process (`cmd/api/main.go`) and publisher (`events/n8n.go`) | phase of `run`, handlers in flight, the WaitGroup | connect with retries, migrate, serve, shut down | Docker's signals, the handlers, n8n |
| Deploy CLI (`deploy/bin/deploy`) | the lock file, `/var/lib/starter/images/*`, history | `stack`, `app`, `status`, `history` | the Swarm, which goes on by itself; other deploys |
| Secrets and hooks (`deploy/lib`, `deploy/hooks`) | secret files, versions, Docker secrets, the database role, MinIO users | `ensure_*`, rotation | run inside a stack deploy |
| Bootstrap (`deploy/host/bootstrap.sh`) | packages, networks, users, BuildKit, firewall | idempotent steps | the deploy key and networks the stacks need |
| Pipeline (`Jenkinsfile`, `deploy/bin/deploy-ssh`) | images pushed | test, build, deploy api, deploy web | `deploy app` over SSH |
| Frontend (`frontend/src`) | the list on the screen, `busy`, the error | create, delete, attach, download, refresh | the API; uploads straight to MinIO; other tabs only through the API |
| Configuration (`config/config.go`) | none: a function of the environment | `Load` | read once, when the process starts |
| Middleware, health check, stack files | none shared | | |

What is hard here:

* **Two stores, no transaction.** A handler updates a row and an object in
  separate calls; other handlers run between them, clients disconnect, answers
  are lost.
* **Several API processes at start.** `start-first` updates run the new task
  beside the old one; a dead process's session outlives it in PostgreSQL.
* **Shutdown.** Handlers, event goroutines, one time budget and SIGKILL.
* **Passwords in four places.** File, Docker secret, account and task change
  one after another, a rotation takes no lock, and a hook may fail half way.
* **A screen is a copy.** A tab shows the list it was last answered, while other
  tabs and its own earlier requests go on.
* **A script run again.** Bootstrap's checks look at what an interrupted run left
  and decide what not to do.
* **Deploys outlive their command.** The Swarm carries an update on after a
  kill or a timeout; the next deploy finds it under way.

For each component, what makes it correct is stated in the module's
*Properties* section; the hazards they are aimed at are in `PROJECT.json`.

## Modules

| Module | Models |
| --- | --- |
| `AttachmentStore` | abstract: notes and their attachments with no calls in flight and no failures |
| `NotesApi` | every handler that writes, one action per call to a store |
| `NotesApiProofs` | its theorems |
| `MigrationLog` | abstract: the schema grows by the next migration |
| `Migrations` | `Migrate`, statement by statement, in several processes |
| `MigrationsProofs` | its theorems |
| `Frontend` | tabs of the page, composed with `NotesApi` (`INSTANCE ... WITH`) |
| `Config` | `Load`, as operators on an environment |
| `ApiProcess` | `run()` from start to exit, with `Config` and the publisher |
| `Bootstrap` | `bootstrap.sh` on one host, real and dry runs |
| `Deploy` | `deploy stack` and `deploy app` on one stack, and the Swarm as they use it |
| `Secrets` | the password hooks of `deploy stack`, and a person who rotates |
| `FrontendProofs`, `ApiProcessProofs`, `BootstrapProofs`, `DeployProofs`, `SecretsProofs` | theorems of the five |
| `MC*` | the instances TLC checks |

### NotesApi

`row` and `att` are the table, `objects` the bucket, `issued` and `permit` the
keys presigned and those whose form has not expired. `h[c]` is the handler that
connection `c` runs: its place, its note, the key it was given, and `prev`, the
attachment it read (confirm) or got back (delete). A handler's first call is
merged with the request's arrival; each later call is an action:

* `CreateNote`, `PublishCreated`: `createNote` (101-117). `CreateLost`: the
  INSERT is committed and the handler sees an error.
* `DeleteNote`, `RemoveObject`: `deleteNote` (127-139). `DeleteLost` likewise.
* `ConfirmGet`, `ConfirmStat`, `ConfirmSet`/`ConfirmGone`, `RemoveObject`:
  `confirmAttachment` (186-221). `ConfirmSetLost` likewise.
* `PresignAttachmentUpload`, `Upload`, `Expire`: `presignAttachmentUpload` and
  the form it hands out.
* `Abort`: any later call fails, or the client goes away: all calls take the
  request's context. Nothing else of the handler happens.

A client that lets two confirmations of one note overlap breaks the promise
(finding 1). The history variable `contended` remembers those notes, and the
promise is stated for the others. The frontend alone does not do it (`busy`
disables the form), two tabs or a retry do.

A key is drawn with 64 random bits, so it is modelled as drawn once, and a
client confirms only keys some client was given. `Dotted` are the keys that hold
`..`, which presign makes of a name such as `a..b.pdf` and confirm refuses (193):
`ConfirmGet` and `Frontend`'s `ConfirmRefused` look at it.

### Migrations

`lock` is the advisory lock's session, `versions` the rows of
`schema_migrations`, `schema` the migrations committed, `a[r]` one call of
`Migrate`. The session survives its client (`gone`): it may be granted the lock
it queued for, and may commit what it was sent, until `SessionEnds`. `Embedded`
lets an older binary run beside a newer one. Sending COMMIT (`RunSql`) and its
effect (`Commit`) are two actions, as the process may die in between. `UnlockFails`
is the deferred unlock whose error nobody reads: `Migrate` returns as it would
have, and the broken session keeps the lock until the server ends it. The whole of
`Migrate` is there; `Acquire` and `Glob` cannot fail in a way that matters.

### Frontend

`Api == INSTANCE NotesApi WITH ...` gives the page the handlers; its variables
are declared again in `Frontend`, and a step of a tab that makes a request is a
step of `Api` conjoined with a change of `tab`. `tab[t].pc` is where `run` is:
`wait` for the answer on a connection, `upload` and `confirm` for the middle of
`uploadAttachment`, `refresh` and `read` for the list that follows. `Serve(c)`
is a handler's next call; when it was the last one the tab that waits on `c`
goes on or throws. `screen[t]` is the list shown, per note `none`, `bare` or
`attached`; it decides what may be clicked.

* `Open`, `ShowFirst`: the initial list, which nothing waits for. `first[t].pc`
  remembers whether a refresh was read after it (`old`) and shown before it
  (`late`).
* `CreateNote`, `DeleteNote`, `Attach` (presign), `Upload`, `Confirm`: a click
  or the next request, with the call it leads to. `InvalidNote`, `InvalidFile`,
  `NotFound`, `UploadRefused`, `ConfirmNotFound`, `ConfirmRefused`: refusals that
  change nothing on the server.
* `ReadAgain`, `ShowAgain`: `refresh`, at the server and on the screen.
* `CutOff`: the answer is lost or the page reloaded, and the handler goes on
  with nobody waiting. `Download`: only its failure changes anything (the error).

A form that expires is in `UploadRefused`; `Expire` itself is left out here, as
it changes nothing else. `listLimit` is taken not to be reached.

### Config

A variable's text is reduced to what the loader can tell (unset, of the right
form, of the wrong form; for a `*_FILE` also missing and blank). `str`,
`required`, `secret` and `parsed` (integer, boolean, duration) return the value
taken and the variables reported; `Load` joins them.

### ApiProcess

`LoadConfig` reads the environment the process was given and keeps what a later
step depends on: without a webhook URL `Publish` does nothing, with an empty
password PostgreSQL is never connected to, and `StorageNew` refuses a public
endpoint with a path, after `Migrate` (or any that `minio.New` fails on). `phase`
is where `run()` is. Requests are those that create a note, the only ones that
publish: accepted (`Accept`), before their INSERT, at it, before `Publish`, before
the answer. `ShutdownReturns`, `WaitReturns` and `CloseReturns` are the three
waits on the way out; `expired` is the budget the first two share. The deferred
`Close` refuses connections from the moment it is called (`PoolIsClosed`), so a
handler that outlived Shutdown and begins its INSERT then fails; `run()` returns
to `main` after it, which exits in a step of its own (`Return`).
`SigKill` may come at any time after the signal, because the default grace
period (10 s) is shorter than `SHUTDOWN_TIMEOUT` (15 s): a clean exit is not
promised, only what a clean exit means.

### Deploy

Each slot of `d` is a running command; `pc` is where it is: waiting for the
lock, loading the environment, deciding, updating, in `docker stack deploy`, in
one of the two waiting loops. `files` are the image files, `svc[s]` is the
service as `docker service inspect` shows it, with the image of its healthy
tasks (`run`), and `mark`, the `UpdateStatus.StartedAt` the script compares.
A poll that changes nothing is not an action; a deadline may pass at any turn.
`shipped` is history: the image `deploy app` last reported in place.

The Swarm is external and modelled as the script relies on it: a new
specification starts one update, which completes when the image is healthy and
otherwise pauses or rolls back once, to the previous specification; redeploying
an unchanged service leaves it alone. `wait_stack` sleeps 5 s before its first
look, and the Swarm is taken to have begun every update by then (`Settled`);
`deploy app` is not given that assumption.

`AbortApp`, `ApplyStackFails`, `PollBlind`, `GiveUpFails` and `Misread` are what a
failed command does where `set -e` is on, and where it is not. `Misread` is the
condition of line 285: a `docker service inspect` that fails for any reason makes
a first deploy of a service that exists. `misread` remembers the service until a
deploy of it succeeds again; its image file is not to be relied on until then, and
the promises about image files leave it out (gap B). A failure of `record`
itself (disk full) is not modelled. Both services are in `APP_SERVICES`.

### Secrets

`file` and `version` are the files under `/etc/starter/secrets`, `secrets` the
Docker secrets, `account` what the database role and the bucket's user accept,
`mounted` the versions in the services' specifications. A deploy `d` carries
what is left of its hook (`todo`), one entry per command that changes state:
`ensure_pg_database` and `ensure_bucket_user` are generate, publish, apply;
`ensure_htpasswd` is generate, publish, derive, publish. Generate and derive only
look; what they find wanting is written by the next command (`Write`,
`MakeHtpasswd`). `OpenFile`, `WriteFile` and `BumpVersion` are the three steps of
`docs/secrets.md:64-65`, and may come between any two commands of a hook, the look
and the write included. `d.quiet` remembers that none did, which the promise that
a deploy's tasks can log in requires. `HookFails` is a command that fails, perhaps
with the file it was to write left empty, or `docker stack deploy` failing with or
without the services updated. Unlike `Deploy`, one command runs at a time
(the lock) and the Swarm is reduced to its verdict: the API exits when it cannot
connect to the database (`main.go:47`), so a new task is healthy only when the
role accepts its password; it never logs in to MinIO at start, so a wrong key is
not noticed.

### Bootstrap

`host` is what the steps look at: the simple things in place, the subnet of
`docker_gwbridge`, the two halves of the deploy key, `authorized_keys` and
`known_hosts` (as what they mention), `buildkitd.toml`, the container, the
gateways `ufw` lets in. `repo` is what the clone wants. A run is a place in
`Order`; a step (`Do`) compares, and changes the host or, in a dry run, only
says so. `Interrupted` ends a run anywhere, also inside `ssh-keygen` and `docker
run`; `Pull` and `Lose` change clone and host between runs. `Drifted(s)` says
what step `s` should find in place, independently of how the script checks.

`Plain` is a host where no step reads what an earlier one is about to change: it
has Docker, `docker_gwbridge`, both halves of a key, and the clone's
`buildkitd.toml`. For these a run, dry or real, says exactly what `WouldAct` says
of the host it found (`DryRunForetells`), the gateway's rule of `ufw` always (274
looks at nothing).

Two things no check of the script sees: halves of the deploy key that do not
belong together (`run.halves`: `-s` looks at the private one, 205), with the line
of `authorized_keys` made from them, and a container that runs the wanted image but
is not on network `ci` (`run.apart`: 242 returns before 255). An interruption
inside `ssh-keygen`, or between 249 and 255, leaves just that, and no later run
repairs it. `FinishedIsReady` promises everything else of every run that finishes;
gaps D and E are the two exceptions.

## Runs

| Run | Bounds | Shows |
| --- | --- | --- |
| `notes_api` | 2 notes, 2 keys of the first, 2 connections, 1 fault (77 304 states) | all properties of `NotesApi`, and that it implements `AttachmentStore` |
| `notes_overlap` | the same, no fault | finding 1 |
| `migrations` | 3 attempts (one of an older binary), 3 migrations, 2 faults (6 546) | all of `Migrations`, and that it implements `MigrationLog` |
| `frontend` | 2 tabs, 1 note with 3 keys (one with `..`), at most 2 of them drawn, 2 connections, 1 fault (225 409) | all of `Frontend` |
| `api_process` | 3 requests, the 614 environments that differ from a good one in up to 2 variables (41 076) | all of `ApiProcess`, and `Load` |
| `bootstrap` | 2 subnets, 3 key pairs, 2 versions of image and file, 1 interruption, 2 drifts, any number of runs (952 194) | all of `Bootstrap` |
| `deploy` | 2 services (`rollback` and `pause`), 3 images (one bad), 2 processes, 3 commands, 1 fault (148 515) | all of `Deploy` |
| `deploy_files` | the same, no fault | finding 2 |
| `deploy_blind` | the same, 2 faults | finding 3 |
| `secrets` | 2 accounts (one used at start) and the registry's, 5 passwords drawn, 1 fault (2 014 136) | all of `Secrets` |
| `secrets_window` | the same | finding 4 |
| `secrets_registry` | the same, no fault | finding 5 |

Why the bounds are enough to be interesting: every shared thing has two users
(connections, attempts, commands). One note has two keys, so an attachment can
be replaced, replaced back and confirmed twice; a third key adds no new relation
between a handler's `prev` and the row. Three migrations with an older binary
give a log that is ahead of, level with and behind a process. Three commands
give a deploy, one that waits for it, and one that comes after both. Two
faults in `migrations` let a lost session and a failed statement meet; one fault
elsewhere, as a handler or a deploy ends with its first. Five passwords are the
three first ones and two rotations, of one secret or of two. `CHECK_DEADLOCK FALSE`
everywhere: requests, starts and commands run out, and a process exits.

In `frontend`, one note is enough because every property is about one note and
one entry of a list; two keys let it be attached, shown as bare by an older list
and attached again, the third is one that confirm refuses, and two tabs let one
delete under the other. The constraint `TwoFiles` keeps to two of the three keys,
and of the two that are alike to one order; it cuts off nothing but clicks. In
`bootstrap` two changes meet one interruption, each in any order with the runs. Two
wrong variables are what it takes for one error to hide another.

`deploy` has one fault: two polls in a row whose `docker service ls` fails are a
success of whatever runs (finding 3), of a first `deploy app` too, so with two
`SuccessIsRunning` and `StackSuccessIsRunning` are not promised.

Counters bounded: `MaxFaults` (all), `MaxDrifts` (`Bootstrap`), `MaxCommands`
(`Deploy`), `MaxValue` (`Secrets`). The rest is
bounded by the finite sets of notes, keys, attempts and requests, each used once.

### Fairness

* `NotesApi`: a handler under way takes its next step (`WF` per connection).
  Calls end, one way or the other: every one has a context or a timeout. Users,
  uploads and expiry owe nothing.
* `Frontend`: of the handlers and busy pages that can go on, one does (`WF` of
  the disjunction, which is less than `NotesApi` assumes): handlers end, and a
  browser settles every `fetch`. Users and the initial list owe nothing.
* `Migrations`: statements end and the server notices a dead client (`WF`), and
  PostgreSQL's lock queue is first come, first served, so a waiter is granted
  the lock in the end (`SF`).
* `ApiProcess`: `run()`, handlers and event goroutines are scheduled; the
  webhook client has a 5 s timeout. PostgreSQL need not come up, and neither the
  60 s deadline nor the shutdown budget nor SIGKILL is owed: the exit does not
  depend on them.
* `Deploy`: a command goes on until it ends, all its waits have deadlines; the
  Swarm ends an update or a rollback it began.
* `Secrets`, `Bootstrap`: none; only safety is stated.

`AbortApp`, `Abort` and the like are in the fair disjunctions as alternatives:
they are never owed, as another step is enabled wherever they are, and the
bound on faults runs out.

## Findings

1. **Overlapping confirmations** (`notes_overlap`, `server.go:214`). Two
   confirmations of `a1` start; the first attaches it; a third request replaces
   it with `a2` and deletes the object `a1`; the second confirmation, which saw
   the object before, attaches `a1` again. The note references a file that is
   gone, and `a2` is an orphan. `api.ts:65`: "The note references the file only
   after the API verifies it was stored."
2. **An image that was never healthy stays in the image files** (`deploy_files`,
   `deploy:297`). `deploy app web bad` on a fresh host is `pending` and writes
   web's file; `deploy app api good` then creates the stack, which does not
   converge, and only api's file is discarded. `docs/deploy-and-rollback.md:39`:
   "The last healthy image of each service is kept".
3. **Nothing listed is taken for everything healthy** (`deploy_blind`,
   `deploy:168`). `wait_stack` reads `docker service ls` in a process
   substitution, whose failure nobody sees; two failures in a row, a daemon
   restart for instance, are a success with no task running.
   `docs/deploy-and-rollback.md:22`: "waits until every service has all replicas
   running **and healthy**, reading twice in a row".
4. **The window need not close** (`secrets_window`, `postgres.sh:31`). The hook
   gives the role the rotated password before the stack is deployed. When a later
   command of the hook fails, or the update is rolled back for another reason,
   the role keeps the new password and the tasks the old one: they work until
   they restart, and then no more. `docs/secrets.md:70`: "there is a short window
   where old connections still work and new ones need the new value".
5. **The registry's password cannot be rotated as documented**
   (`secrets_registry`, `secrets.sh:64`). `ensure_htpasswd` rewrites the file
   `registry_htpasswd` but not its version, and `_secret_publish` leaves the
   version that exists alone: the registry keeps the old password, and
   `registry_login` fails from then on. `secrets.sh:13`: "Rotation: write the new
   value, increment <name>.version, redeploy the stack."

### Gaps

Where the code does less than a property could ask for, the property leaves just
that out, by name, and the model reaches it. C and G are excepted nowhere: no
property asks for what they lack.

* **A. A file name with two dots** (`OneTabIsExact`, `server.go:193`).
  `cleanFilename` (146-155) lets `a..b.pdf` through, presign puts it in the key,
  the upload succeeds, and confirm answers 422 to any key that holds `..`: one tab
  alone, with nothing failing, leaves an orphan and shows an error. `Dotted` are
  these keys.
* **B. A failed inspect is a missing service** (`ShippedIsNotReverted`,
  `SuccessIsRunning`, `deploy:285`). `if ! docker service inspect` takes any failure
  for "not deployed yet". The image file of a shipped service is replaced, or
  removed again when the stack deploy fails; `stacks/app.yml:7`, "A stack redeploy
  never reverts what the pipeline shipped", does not hold of such a service.
  `misread` are these services, until a deploy of them succeeds. Two faults show
  it: the inspect, and a kill after the file was written.
* **C. A hook writes over a rotation** (`secrets.sh:31-33`). `ensure_secret` looks
  and then writes; the person who rotates takes no lock, and the shell empties the
  file before it writes it. A hook that looked at that moment replaces the rotated
  password by one of its own, and publishes it under the new version. File, secret
  and version still agree (`CurrentVersionIsFile`), which is what is promised.
* **D. BuildKit off its network for ever** (`FinishedIsReady`, `bootstrap.sh:242`).
  A run cut off between `docker run` (249) and `docker network connect` (255)
  leaves a container that every later run calls up to date.
* **E. Half a deploy key stays half** (`FinishedIsReady`, `bootstrap.sh:205`). A run
  cut off inside `ssh-keygen` leaves the private half; later runs keep it, and write
  a line without a key to `authorized_keys`, as `cat` fails inside a here-document.
  D and E break "every step checks the current state first, so running it again
  changes nothing (or only what drifted)" (6-7).
* **F. The dry run does not say that BuildKit will be replaced** (`DryRunForetells`,
  `bootstrap.sh:240`). The label is computed from the `buildkitd.toml` on the host,
  which a dry run has not replaced. On a host that lacks Docker, the bridge or a
  whole key it also says less, or stops.
* **G. The same failing deploy twice is a success** (`deploy:305`). A first deploy
  of a bad image fails, with the image left in the service's specification;
  repeated, it is `unchanged`, recorded in the image file, and exits 0. No property
  speaks of `unchanged`.

## Proofs

The theorems hold for every value of the constants (notes, keys, connections,
tabs, attempts, migrations, requests, environments, subnets, services, images,
commands, accounts, passwords, faults), from the modules' assumptions on them
(`NotesAssumption`, `FrontendAssumption`, `MigrationsAssumption`,
`ProcessAssumption`, `BootstrapAssumption`, `DeployAssumption`,
`SecretsAssumption`). They say that sentinels such as `NoKey` are no keys, that
bounds are numbers, and what a constant ranges over. Two theorems about `Deploy`
also assume `MaxFaults <= 1`; see there.

Every type invariant, every other invariant and every action property of the
passing runs is a theorem.

`NotesApiProofs`. None of the invariants is inductive: that a note's attachment
is stored depends on what the handlers in flight have seen. `Parts` adds, for a
note whose confirmations never overlapped: at most one handler is confirming
it; that handler's `prev` is the note's attachment until it has set the new
one; a handler about to set has a stored key; and whatever a handler is about to
delete is referenced by no such note and is not the key of a confirmation under
way. `Invariance` proves `TypeOK /\ Parts`, one lemma per group of actions;
`ReferencesAreOwn`, `AttachmentsAreStored`, `DroppedAreOwed`,
`DeletedStayDeleted` follow, and `Refinement` maps every step to one of
`AttachmentStore` or to a stutter.

`FrontendProofs`, for any number of tabs. First, that the page runs the handlers
and nothing else: each of its steps is a step of `NotesApi` or one that loses an
answer (`RunsTheHandlers`), so `NotesApiProofs`' invariants hold under it, and so
does its refinement (`StoreImplements`); the proofs are cited through an
instance. Then `Invariance`, with three parts. `Own(t)` follows one operation of
a tab: what it waits for is a handler still at its operation (`WaitsForItsOwn`),
the list is asked for when the effect is there (`RefreshIsAfter`), shows it
(`ReadShows`), and stays on the screen unless a late initial list replaces it
(`IdleShows`); `OwnEffectShows` is the end of that chain and alone is not
inductive. `OneWaits`: no answer is waited for by two tabs. `AloneIsExact`: while
one tab is alone and nothing failed, the only handler under way is the one it
waits for, and the bucket holds what is referenced and at most one object more,
the one in the middle of its operation (`Extra`); between operations there is
none, which is `OneTabIsExact`. What is in neither is the uploaded object of a
key with `..` (gap A), which both leave out.

`MigrationsProofs`. `Inv` says who may be past the lock (its holder only), that
the log is `1..n` and recorded exactly, and that an attempt past migration `i`
has all before it committed. `NeverConcurrent`, `AppliedInOrder`,
`DoneMeansComplete`, `NoFalseFailure` and the `Refinement` follow.

`ApiProcessProofs`, for any requests and any environments. Of `Load`: each kind
of variable has one reader, so no error means every reader was content
(`StartsComplete`), and a reader is content once what it reported is set right,
whichever other reader also reported (`OneReportIsEnough`). Of the process:
`Inv` adds that no handler begins before "serve", that what Shutdown saw idle in
time stays idle (no handler begins after it), and that "close" without an error
and within the budget was reached drained. `NoStatementIsCutOff` needs that the
closed pool stays free of statements between `Close` and the exit, although
handlers go on in between: none is in "query" at "return".

`BootstrapProofs`, for any subnets, key pairs, versions, faults and drifts. `Inv`
has a part for each kind of run: a real one has in place every step it passed,
except what it found as `halves` or `apart` (`RealRun`: no step disturbs an earlier
one, the key halves agree from `keygen` on unless the run found them apart, and an
up-to-date container is joined unless it was found off its network); one that found
nothing to do cannot reach the steps that act (`CleanRun`); and one on a plain host
has said exactly the steps it passed of those the host it found wanted, the rest
still standing as found (`RunsForetell`).

`DeployProofs`, for any services, images and commands. The inductive invariant is
built in layers, each used by the next:

* `LockParts`: a command is past the lock exactly when it holds it, and what it
  read from the image files is still in them (`EnvIsFiles`). This is what the
  order "lock, then load" (276) buys; `MutualExclusion` and `LockProtects` follow.
* `AskedParts`: the file of a shipped service names what was shipped
  (`FileIsShipped`, theorem `FilesNameWhatWasShipped`), but for services a deploy
  misread; a first deploy's service is not there before it (`FirstIsFirst`), again
  unless misread; an update that started since a command looked is that command's
  (`UpdateIsAsked`), because the lock keeps others out and the Swarm starts none by
  itself. `FailureLeavesNoFile` rests on this.
* `FiledParts`, while nothing was killed and nothing failed: a service no command
  is updating is where its file says, and one that is being updated can go back
  there (`UpdatedCanGoBack`). With `FileIsShipped` it gives `ShippedStays`: a
  rollback, the Swarm's or the script's, ends where the service was shipped. That
  `docker stack deploy` reverts nothing even after a fault, services it misread
  apart, needs only `EnvIsFiles` and `FileIsShipped`.
* `SeenParts`: marks only grow, and what one quiet poll saw of the stack is still
  so at the second (`StableIsSeen`).

Before the layers, two lemmas say once who changes a service (`ServiceSteps`) and
who writes an image file (`FileSteps`); the layers go by their cases and not by
the actions. `SuccessRuns` and `StackSuccessRuns` assume `MaxFaults <= 1`: two
polls in a row that docker does not answer are taken for a healthy stack
(finding 3), so with two faults both are false, and one is the most they hold
for. What holds with any number is `AnsweredSuccessRuns`: a success whose last
poll was answered is that of what runs.

`SecretsProofs`, for any accounts. `CurrentVersionIsFile` (theorem
`PublishedIsCurrent`) holds although a hook may write over a rotation (gap C): when
a hook is about to write, either a rotation of that secret is under way or nothing
is published under its current version yet (`WriteIsOwed`). It needs that nothing is
published under a version to come (`NothingAhead`), so a version just bumped is
without a secret, and that versions follow passwords drawn (`VersionsAreDrawn`),
which bounds them. `SuccessfulCanLogIn` is read off what is left of the hook: an
account whose `publish` is no longer pending has its current version passed on
(`PublishedIsPassed`), one whose `apply` is not accepts the file's password
(`AppliedIsFile`), and once the hook is through, the services mount what was
passed on (`MountedIsPassed`). All of it holds only while nobody rotates
(`d.quiet`). `HookShape` shows that the hook has both commands for every account:
`EnsureAccounts` is written by position, three commands an account, as a
recursive definition could not be proved about.

Only model-checked: the liveness properties (`OwedIsDeleted`,
`CreatedIsAnnounced`, `EveryAttemptEnds`, `StopsByItself`, `BusyEnds`,
`BadImageIsRolledBack`, `LockIsReleased`), which are out of the prover's reach,
as is everything about `ENABLED`. The findings are TLC's counterexamples.

## Plan

1. Notes API, migrations, process, deploy, secrets, frontend, configuration,
   bootstrap: modelled, checked, and proved as above.
2. An abstract specification of `deploy app` (an image is in place or it is not,
   and only its own deploy replaces it), with `Deploy` shown to implement it while
   nothing is killed.
3. `Pipeline`: api before web, over SSH, composed with `Deploy`: the frontend
   never ships against an API that was rolled back.
4. `Secrets`: an abstract specification (a task that starts can log in), and
   the rotation of a user's name.

## Not modelled

* Middleware: request ids, CORS and security headers, panic recovery, all per
  request. The health check: one request, whose verdict is an image being
  `Good` or not in `Deploy`. `healthz`, `readyz`, `getNote`: nothing changes.
* Pipeline and forced command: their effect is the `deploy app` commands of
  `Deploy`.
* Declarative stack and compose files beyond `app.yml`'s update policy; the
  entrypoints of Jenkins and n8n; the text of the form, which a create that
  succeeds clears even if it was edited meanwhile (`App.tsx:56`).
* After a change of gateway, `known_hosts` is rewritten but the Docker secret
  Jenkins mounts keeps its version (`secrets.sh:20`), and the old subnet's `ufw`
  rule stays: both are outside what `bootstrap.sh` looks at.
* Secrets: `BumpVersion` is one step, though its redirection, too, empties the
  version file first (an empty one is published as `<name>_v`);
  `_secret_publish` reads version and file in one step, and the retries of
  `registry_login` are one attempt.
* Bootstrap: on a host without Docker the dry run does not print the creation of
  `docker_gwbridge`; `Plain` leaves such hosts out.
* Process: a signal while the configuration is read, or after `stop()` while
  `run()` returns, has its default effect, which ends the process.
