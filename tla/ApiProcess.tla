----------------------------- MODULE ApiProcess -----------------------------
(***************************************************************************)
(* One API process from start to exit (backend/cmd/api/main.go) with the   *)
(* event publisher it must drain (internal/events/n8n.go).  Requests are   *)
(* the ones that create a note: a committed row, then Publish, which adds  *)
(* to the WaitGroup and posts in a goroutine of its own.                   *)
(*                                                                         *)
(* run() closes the database pool on its way out: pgxpool's Close refuses  *)
(* whoever asks for a connection from then on and waits for the ones that  *)
(* handlers hold.  Only then run() returns and main sets the status, while *)
(* handlers that outlived the shutdown go on.  Docker (external) sends     *)
(* SIGTERM and, after its grace period, SIGKILL.                           *)
(***************************************************************************)
EXTENDS Naturals, Config

CONSTANTS Requests,
          Environments   \* what a process may be started with

IsEnvironment(e) == DOMAIN e = Names /\ \A name \in Names : e[name] \in Kinds(name)

ASSUME ProcessAssumption == \A e \in Environments : IsEnvironment(e)

VARIABLES env,      \* the environment, until it was read
          cfg,      \* what Load made of it, as far as it matters later
          phase,    \* where run() is
          stop,     \* SIGTERM was received: ctx is cancelled
          late,     \* connectWithRetry's 60 s are over
          expired,  \* shutdownCtx is done
          failed,   \* run() will return an error
          code,     \* exit status, or "" while the process is alive
          req,      \* the handler of each request
          event     \* its note.created event

vars == <<env, cfg, phase, stop, late, expired, failed, code, req, event>>

\* "shutdown" is in srv.Shutdown, "wait" in publisher.Wait, "close" in the
\* deferred db.Close, "return" after it.
Phases == {"config", "connect", "migrate", "storage", "serve", "shutdown", "wait", "close",
           "return", "exited"}

\* Settings a later step depends on.
Kept == {"DB_PASSWORD", "S3_PUBLIC_ENDPOINT", "N8N_WEBHOOK_URL"}
Spent == [name \in Names |-> "unset"]
NoCfg == [key \in Kept |-> ""]

TypeOK ==
    /\ IsEnvironment(env)
    /\ cfg \in [Kept -> {"", "fallback", "given", "path"}]
    /\ phase \in Phases
    /\ stop \in BOOLEAN /\ late \in BOOLEAN
    /\ expired \in BOOLEAN /\ failed \in BOOLEAN
    /\ code \in {"", "0", "1", "137"}
    /\ req \in [Requests -> {"none", "begin", "query", "publish", "respond", "done"}]
    /\ event \in [Requests -> {"none", "pending", "attempted"}]
    /\ (phase = "exited") <=> (code # "")

Init ==
    /\ env \in Environments
    /\ cfg = NoCfg
    /\ phase = "config"
    /\ stop = FALSE /\ late = FALSE /\ expired = FALSE /\ failed = FALSE
    /\ code = ""
    /\ req = [r \in Requests |-> "none"]
    /\ event = [r \in Requests |-> "none"]

Alive == phase # "exited"

Exit(status) == phase' = "exited" /\ code' = status

-----------------------------------------------------------------------------
(* Start-up.                                                               *)

\* FromEnvironment: every error is reported and ends the process, before it
\* does anything else.  Signals still have their default effect.
LoadConfig ==
    /\ phase = "config"
    /\ \/ /\ Load(env).errs # {}
          /\ Exit("1")
          /\ UNCHANGED cfg
       \/ /\ Load(env).errs = {}
          /\ phase' = "connect"
          /\ cfg' = [key \in Kept |-> Load(env).cfg[key]]
          /\ UNCHANGED code
    /\ env' = Spent
    /\ UNCHANGED <<stop, late, expired, failed, req, event>>

\* PostgreSQL takes no empty password.
Connect ==
    /\ phase = "connect"
    /\ cfg["DB_PASSWORD"] # ""
    /\ phase' = "migrate"
    /\ UNCHANGED <<stop, late, expired, failed, code, req, event, env, cfg>>

\* Mutant: the retry loop does not look at ctx.
ConnectFailsLate ==
    /\ phase = "connect"
    /\ late
    /\ Exit("1")
    /\ UNCHANGED <<stop, late, expired, failed, req, event, env, cfg>>

\* An attempt fails: give up after the deadline or once told to stop, try
\* again otherwise.
ConnectFails ==
    /\ phase = "connect"
    /\ late \/ stop
    /\ Exit("1")
    /\ UNCHANGED <<stop, late, expired, failed, req, event, env, cfg>>

ConnectDeadline ==
    /\ phase = "connect"
    /\ ~late
    /\ late' = TRUE
    /\ UNCHANGED <<phase, stop, expired, failed, code, req, event, env, cfg>>

\* Migrate (module Migrations).
Migrated ==
    /\ phase = "migrate"
    /\ phase' = "storage"
    /\ UNCHANGED <<stop, late, expired, failed, code, req, event, env, cfg>>

StartFails ==
    /\ phase = "migrate"
    /\ phase' = "close" /\ failed' = TRUE
    /\ UNCHANGED <<stop, late, expired, code, req, event, env, cfg>>

\* storage.New refuses a public endpoint with a path, and what minio.New cannot
\* make a client of; then the publisher, the handler and the listener, which
\* cannot fail here.
StorageNew ==
    /\ phase = "storage"
    /\ \/ phase' = "close" /\ failed' = TRUE
       \/ cfg["S3_PUBLIC_ENDPOINT"] = "given" /\ phase' = "serve" /\ UNCHANGED failed
    /\ UNCHANGED <<stop, late, expired, code, req, event, env, cfg>>

-----------------------------------------------------------------------------
(* Requests, as long as the process is there.                              *)

Accept(r) ==
    /\ phase = "serve"
    /\ req[r] = "none"
    /\ req' = [req EXCEPT ![r] = "begin"]
    /\ UNCHANGED <<phase, stop, late, expired, failed, code, event, env, cfg>>

PoolIsClosed == phase \in {"close", "return"}

\* The body is read; a note that is not valid is refused, and so is a
\* connection once the pool is closed.
Begin(r) ==
    /\ Alive
    /\ req[r] = "begin"
    /\ \/ ~PoolIsClosed /\ req' = [req EXCEPT ![r] = "query"]
       \/ req' = [req EXCEPT ![r] = "respond"]
    /\ UNCHANGED <<phase, stop, late, expired, failed, code, event, env, cfg>>

\* Notes.Create: the row is committed, or the handler answers 500.
QueryEnds(r) ==
    /\ Alive
    /\ req[r] = "query"
    /\ \E next \in {"publish", "respond"} : req' = [req EXCEPT ![r] = next]
    /\ UNCHANGED <<phase, stop, late, expired, failed, code, event, env, cfg>>

\* Publish: pending.Add(1) and the goroutine, unless there is no webhook.
Publish(r) ==
    /\ Alive
    /\ req[r] = "publish"
    /\ req' = [req EXCEPT ![r] = "respond"]
    /\ event' = IF cfg["N8N_WEBHOOK_URL"] = "given"
                THEN [event EXCEPT ![r] = "pending"] ELSE event
    /\ UNCHANGED <<phase, stop, late, expired, failed, code, env, cfg>>

Respond(r) ==
    /\ Alive
    /\ req[r] = "respond"
    /\ req' = [req EXCEPT ![r] = "done"]
    /\ UNCHANGED <<phase, stop, late, expired, failed, code, event, env, cfg>>

\* send returned, with or without an error, within its 5 s: pending.Done().
SendReturns(r) ==
    /\ Alive
    /\ event[r] = "pending"
    /\ event' = [event EXCEPT ![r] = "attempted"]
    /\ UNCHANGED <<phase, stop, late, expired, failed, code, req, env, cfg>>

-----------------------------------------------------------------------------
(* The way out.                                                            *)

\* ListenAndServe fails (the port is taken): run() returns at once.
ListenFails ==
    /\ phase = "serve"
    /\ phase' = "close" /\ failed' = TRUE
    /\ UNCHANGED <<stop, late, expired, code, req, event, env, cfg>>

\* NotifyContext is in effect.
Signal ==
    /\ phase \notin {"config", "return", "exited"}
    /\ ~stop
    /\ stop' = TRUE
    /\ UNCHANGED <<phase, late, expired, failed, code, req, event, env, cfg>>

\* ctx.Done: Shutdown closes the listener.
BeginShutdown ==
    /\ phase = "serve"
    /\ stop
    /\ phase' = "shutdown"
    /\ UNCHANGED <<stop, late, expired, failed, code, req, event, env, cfg>>

\* SHUTDOWN_TIMEOUT, one budget for Shutdown and Wait.
ShutdownExpires ==
    /\ phase \in {"shutdown", "wait"}
    /\ ~expired
    /\ expired' = TRUE
    /\ UNCHANGED <<phase, stop, late, failed, code, req, event, env, cfg>>

Idle == \A r \in Requests : req[r] \in {"none", "done"}

\* Mutant: Close instead of Shutdown, which does not wait for handlers.
ShutdownIsClose ==
    /\ phase = "shutdown"
    /\ phase' = "wait"
    /\ UNCHANGED <<stop, late, expired, failed, code, req, event, env, cfg>>

ShutdownReturns ==
    /\ phase = "shutdown"
    /\ Idle \/ expired
    /\ phase' = "wait"
    /\ failed' = ~Idle
    /\ UNCHANGED <<stop, late, expired, code, req, event, env, cfg>>

Drained == \A r \in Requests : event[r] # "pending"

\* Mutants: nobody waits for the publisher; main exits without what run() had
\* deferred.
WaitSkipped ==
    /\ phase = "wait"
    /\ phase' = "close"
    /\ UNCHANGED <<stop, late, expired, failed, code, req, event, env, cfg>>

WaitExits ==
    /\ phase = "wait"
    /\ Drained \/ expired
    /\ phase' = "return"
    /\ UNCHANGED <<stop, late, expired, failed, code, req, event, env, cfg>>

WaitReturns ==
    /\ phase = "wait"
    /\ Drained \/ expired
    /\ phase' = "close"
    /\ UNCHANGED <<stop, late, expired, failed, code, req, event, env, cfg>>

\* pool.Close waits for every connection a handler holds.
CloseReturns ==
    /\ phase = "close"
    /\ \A r \in Requests : req[r] # "query"
    /\ phase' = "return"
    /\ UNCHANGED <<stop, late, expired, failed, code, req, event, env, cfg>>

\* Mutant: main returns without a status.
ReturnNoStatus ==
    /\ phase = "return"
    /\ phase' = "exited"
    /\ UNCHANGED <<stop, late, expired, failed, code, req, event, env, cfg>>

\* run() returns to main, which exits and ends every other goroutine.
Return ==
    /\ phase = "return"
    /\ Exit(IF failed THEN "1" ELSE "0")
    /\ UNCHANGED <<stop, late, expired, failed, req, event, env, cfg>>

\* Docker's grace period (10 s by default) is over.
SigKill ==
    /\ Alive
    /\ stop
    /\ Exit("137")
    /\ UNCHANGED <<stop, late, expired, failed, req, event, env, cfg>>

-----------------------------------------------------------------------------
Main ==
    \/ LoadConfig \/ ConnectFails \/ Migrated \/ StartFails \/ StorageNew
    \/ BeginShutdown \/ ShutdownReturns \/ WaitReturns \/ CloseReturns \/ Return

Handle(r) == Begin(r) \/ QueryEnds(r) \/ Publish(r) \/ Respond(r)

Next ==
    \/ Main
    \/ Connect \/ ConnectDeadline \/ ShutdownExpires
    \/ ListenFails \/ Signal \/ SigKill
    \/ \E r \in Requests : Accept(r) \/ Handle(r) \/ SendReturns(r)

\* The scheduler runs every goroutine; PostgreSQL answers every statement and
\* the webhook client has a timeout.  Nobody has to send a signal, PostgreSQL
\* may never come up, and the exit is not owed to SigKill, to the 60 s or to
\* the shutdown timeout.
Fairness ==
    /\ WF_vars(Main)
    /\ \A r \in Requests : WF_vars(Handle(r)) /\ WF_vars(SendReturns(r))

Spec == Init /\ [][Next]_vars /\ Fairness

-----------------------------------------------------------------------------
(* Properties                                                              *)

\* Status 0 within the shutdown budget loses no event: every handler had
\* ended, so every Publish came before Wait, and Wait saw them all.
CleanExitSentAll ==
    (code = "0" /\ ~expired) =>
        \A r \in Requests : req[r] \in {"none", "done"} /\ event[r] # "pending"

\* The contract of sync.WaitGroup: no Add while Wait may see zero.  Only a
\* Shutdown that ran out of time leaves handlers that may still Publish.
NoAddDuringWait ==
    (phase = "wait" /\ ~expired) => \A r \in Requests : req[r] # "publish"

\* No statement is cut off: when main exits, SIGKILL apart, no handler is in
\* the database, not even one that outlived Shutdown and came to its query
\* while run() was on its way out.
NoExitInQuery ==
    code \in {"0", "1"} => \A r \in Requests : req[r] # "query"

\* Told to stop, the process exits by itself, even while it still waits for
\* PostgreSQL, without waiting for any deadline.
StopsByItself == stop ~> ~Alive

\* Nothing is done on half a configuration: a process that goes past Load has
\* every required setting and every secret, and no value of the wrong form.
\* Not promised of a secret whose file is blank (config.go:137).
Complete(e) ==
    /\ \A key \in Required \cup {Url} : e[key] # "unset"
    /\ \A key \in Secret : e[File[key]] \in {"good", "blank"} \/ (e[File[key]] = "unset" /\ e[key] = "good")
    /\ \A key \in Parsed \cup {Url} : e[key] # "bad"

StartsComplete == [][ phase = "config" /\ code' = "" => Complete(env) ]_vars

\* Load reports all there is to correct: with the reported variables set
\* right, the next start gets past it.
Corrected(e) == [name \in Names |-> IF name \in Load(e).errs THEN "good" ELSE e[name]]

OneReportIsEnough == phase = "config" => Load(Corrected(env)).errs = {}
=============================================================================
