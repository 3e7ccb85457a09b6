------------------------------- MODULE Deploy -------------------------------
(***************************************************************************)
(* deploy/bin/deploy over one application stack: `deploy stack <stack>'    *)
(* and `deploy app <service> <image>', any number of which are started by  *)
(* the pipeline and by operators; the global lock; the image files under   *)
(* /var/lib/starter/images; and the Swarm, which carries an update on when *)
(* the process that asked for it is gone.  Arguments and files that are    *)
(* refused before the lock is taken change nothing and are left out, as is *)
(* the history, but for the result a command ends with.                    *)
(*                                                                         *)
(* The Swarm is external: UpdateStatus, automatic rollback and one         *)
(* previous specification, as the script uses them.  An image that is not  *)
(* Good never passes its health check.  Services update start-first        *)
(* (stacks/app.yml:17), so old tasks run until new ones are healthy.       *)
(***************************************************************************)
EXTENDS Naturals, FiniteSets

CONSTANTS Svcs,         \* the stack's services, all of them in APP_SERVICES
          Images,       \* images pinned by digest
          Good,         \* the images that pass their health check
          NoImage,      \* no image file, no service, no previous version
          OnFailure,    \* failure_action of each service
          Slots,        \* deploy commands under way at the same time
          Commands,     \* the commands that are started
          Hosts,        \* images the stack was running when the story begins
          NoProc,       \* nobody holds the lock
          MaxCommands,  \* bound on commands started
          MaxFaults     \* bound on kills and failed docker calls

App(s, i) == [kind |-> "app", svc |-> s, img |-> i]
Stack == [kind |-> "stack"]

ASSUME DeployAssumption ==
    /\ NoImage \notin Images
    /\ Good \subseteq Images
    /\ OnFailure \in [Svcs -> {"rollback", "pause"}]
    /\ NoProc \notin Slots
    /\ Commands \subseteq {Stack} \cup {App(s, i) : s \in Svcs, i \in Images}
    /\ Hosts \subseteq [Svcs -> Good] \cup [Svcs -> {NoImage}]
    /\ MaxCommands \in Nat
    /\ MaxFaults \in Nat

VARIABLES lock,     \* holder of /run/lock/starter-deploy.lock
          files,    \* the image file of each service
          svc,      \* each service as the Swarm has it
          shipped,  \* last image `deploy app' reported in place (history)
          misread,  \* services last deployed as if they did not exist (history)
          d,        \* the command in each slot
          started,  \* commands started so far
          faults    \* kills and failed docker calls so far

history == <<shipped, misread>>
vars == <<lock, files, svc, history, d, started, faults>>

Maybe == Images \cup {NoImage}

\* "none" is no UpdateStatus; "queued" is a new specification whose update
\* the orchestrator has not started, which reads as no UpdateStatus.
Update == {"none", "queued", "updating", "completed", "paused",
           "rollback_started", "rollback_completed", "rollback_paused"}

\* image and prev: the specification and the previous one; run: the image
\* of the healthy tasks; mark: UpdateStatus.StartedAt, as a counter.
Service == [image: Maybe, prev: Maybe, run: Maybe, update: Update, mark: Nat]

Absent == [image |-> NoImage, prev |-> NoImage, run |-> NoImage,
           update |-> "none", mark |-> 0]

Results == {"", "success", "pending", "unchanged", "failure", "rolled-back",
            "killed", "no-lock"}

Process == [pc: {"end", "lock", "load", "decide", "update", "stack", "waitstack", "waitapp"},
            cmd: Commands \cup {Stack}, env: [Svcs -> Maybe], marks: [Svcs -> Nat],
            stable: 0..1, discard: BOOLEAN, result: Results]

TypeOK ==
    /\ lock \in Slots \cup {NoProc}
    /\ files \in [Svcs -> Maybe]
    /\ svc \in [Svcs -> Service]
    /\ shipped \in [Svcs -> Maybe]
    /\ misread \in SUBSET Svcs
    /\ d \in [Slots -> Process]
    /\ started \in 0..MaxCommands
    /\ faults \in 0..MaxFaults

NoEnv == [s \in Svcs |-> NoImage]
NoMarks == [s \in Svcs |-> 0]
Fresh(cmd) == [pc |-> "lock", cmd |-> cmd, env |-> NoEnv, marks |-> NoMarks,
               stable |-> 0, discard |-> FALSE, result |-> ""]
Ended(result) == [Fresh(Stack) EXCEPT !.pc = "end", !.result = result]

\* A fresh host, or one where every service was shipped and is healthy.
Init ==
    /\ lock = NoProc
    /\ files \in Hosts
    /\ svc = [s \in Svcs |-> [Absent EXCEPT !.image = files[s], !.run = files[s]]]
    /\ shipped = files
    /\ misread = {}
    /\ d = [p \in Slots |-> Ended("")]
    /\ started = 0
    /\ faults = 0

IsApp(p, s) == d[p].cmd # Stack /\ d[p].cmd.svc = s

Exists(s) == svc[s].image # NoImage
ReplicasOk(s) == svc[s].run # NoImage
Marks == [s \in Svcs |-> svc[s].mark]

\* update_state: "" when this deploy has not touched the service.
State(p, s) ==
    IF svc[s].update \in {"none", "queued"} \/ svc[s].mark = d[p].marks[s]
    THEN "" ELSE svc[s].update

-----------------------------------------------------------------------------
(* What docker does to a service when it is asked to.                      *)

Create(s, i) == [Absent EXCEPT !.image = i]

WithImage(s, i) ==
    IF ~Exists(s) THEN Create(s, i)
    ELSE IF svc[s].image = i THEN svc[s]
    ELSE [svc[s] EXCEPT !.image = i, !.prev = svc[s].image, !.update = "queued"]

\* docker service rollback: one step back, and an error when there is none.
RolledBack(s) ==
    IF svc[s].prev = NoImage THEN svc[s]
    ELSE [svc[s] EXCEPT !.image = svc[s].prev, !.prev = NoImage,
                        !.update = "rollback_started", !.mark = @ + 1]

-----------------------------------------------------------------------------
(* Starting and ending a command.                                          *)

Start(p, cmd) ==
    /\ d[p].pc = "end"
    /\ started < MaxCommands
    /\ started' = started + 1
    /\ d' = [d EXCEPT ![p] = Fresh(cmd)]
    /\ UNCHANGED <<lock, files, svc, history, faults>>

\* The process exits with a history record; the kernel drops its lock.
End(p, result) ==
    /\ d' = [d EXCEPT ![p] = Ended(result)]
    /\ lock' = NoProc

\* Mutant: the service's name is written to the image file.
SucceedWithName(p, result, s, i) ==
    /\ End(p, result)
    /\ files' = [files EXCEPT ![s] = s]
    /\ shipped' = [shipped EXCEPT ![s] = i]
    /\ misread' = misread \ {s}

Succeed(p, result, s, i) ==
    /\ End(p, result)
    /\ files' = [files EXCEPT ![s] = i]
    /\ shipped' = [shipped EXCEPT ![s] = i]
    /\ misread' = misread \ {s}

\* Mutant: the image file of a failed first deploy is kept.
DieKeepsFile(p, result) ==
    /\ End(p, result)
    /\ UNCHANGED <<files, history>>

\* die, or set -e: the EXIT trap discards the image file of a first deploy.
Die(p, result) ==
    /\ End(p, result)
    /\ files' = IF d[p].discard THEN [files EXCEPT ![d[p].cmd.svc] = NoImage] ELSE files
    /\ UNCHANGED history

Fault == faults < MaxFaults /\ faults' = faults + 1

\* Mutant: the lock is taken without waiting for it.
AcquireNoWait(p) ==
    /\ d[p].pc = "lock"
    /\ lock' = p
    /\ d' = [d EXCEPT ![p].pc = "load"]
    /\ UNCHANGED <<files, svc, history, started, faults>>

AcquireLock(p) ==
    /\ d[p].pc = "lock"
    /\ lock = NoProc
    /\ lock' = p
    /\ d' = [d EXCEPT ![p].pc = "load"]
    /\ UNCHANGED <<files, svc, history, started, faults>>

\* flock -w expires: no audit_start yet, so nothing is recorded.
LockTimeout(p) ==
    /\ d[p].pc = "lock"
    /\ lock # NoProc
    /\ d' = [d EXCEPT ![p] = Ended("no-lock")]
    /\ UNCHANGED <<lock, files, svc, history, started, faults>>

\* The image files become <SERVICE>_IMAGE variables.
LoadEnv(p) ==
    /\ d[p].pc = "load"
    /\ d' = [d EXCEPT ![p].pc = IF d[p].cmd = Stack THEN "stack" ELSE "decide",
                      ![p].env = files]
    /\ UNCHANGED <<lock, files, svc, history, started, faults>>

-----------------------------------------------------------------------------
(* deploy app: first deploy, unchanged image, update.                      *)

\* The image is recorded, and the stack is created once no other is missing.
RecordFirst(p, s, i) ==
    /\ files' = [files EXCEPT ![s] = i]
    /\ \/ /\ \E m \in Svcs : files'[m] = NoImage
          /\ End(p, "pending")
       \/ /\ \A m \in Svcs : files'[m] # NoImage
          /\ d' = [d EXCEPT ![p].pc = "stack", ![p].env[s] = i, ![p].discard = TRUE]
          /\ UNCHANGED lock
    /\ UNCHANGED <<svc, shipped>>

FirstDeploy(p, s, i) ==
    /\ ~Exists(s)
    /\ RecordFirst(p, s, i)
    /\ UNCHANGED misread

Unchanged(p, s, i) ==
    /\ svc[s].image = i
    /\ Succeed(p, "unchanged", s, i)
    /\ UNCHANGED svc

NeedsUpdate(p, s, i) ==
    /\ Exists(s)
    /\ svc[s].image # i
    /\ d' = [d EXCEPT ![p].pc = "update"]
    /\ UNCHANGED <<lock, files, svc, history>>

DecideApp(p) ==
    /\ d[p].pc = "decide"
    /\ LET s == d[p].cmd.svc
           i == d[p].cmd.img
       IN FirstDeploy(p, s, i) \/ Unchanged(p, s, i) \/ NeedsUpdate(p, s, i)
    /\ UNCHANGED <<started, faults>>

\* docker service inspect fails: `if !' takes that for a service that does
\* not exist, whatever the reason.
Misread(p) ==
    /\ d[p].pc = "decide"
    /\ LET s == d[p].cmd.svc
       IN /\ Exists(s)
          /\ RecordFirst(p, s, d[p].cmd.img)
          /\ misread' = misread \cup {s}
    /\ Fault
    /\ UNCHANGED started

\* The image the Swarm had a moment ago may have been rolled back since.
UpdateApp(p) ==
    /\ d[p].pc = "update"
    /\ svc' = [svc EXCEPT ![d[p].cmd.svc] = WithImage(d[p].cmd.svc, d[p].cmd.img)]
    /\ d' = [d EXCEPT ![p].pc = "waitapp", ![p].marks = Marks]
    /\ UNCHANGED <<lock, files, history, started, faults>>

\* One turn of the polling loop that changes something.
PollApp(p) ==
    /\ d[p].pc = "waitapp"
    /\ LET s == d[p].cmd.svc
           state == State(p, s)
       IN \/ /\ state = "completed" /\ ReplicasOk(s)
             /\ Succeed(p, "success", s, d[p].cmd.img)
             /\ UNCHANGED svc
          \/ /\ state = "paused"
             /\ svc' = [svc EXCEPT ![s] = RolledBack(s)]
             /\ svc' # svc
             /\ UNCHANGED <<lock, files, history, d>>
          \/ /\ state \in {"rollback_completed", "rollback_paused"}
             /\ Die(p, "rolled-back")
             /\ UNCHANGED svc
    /\ UNCHANGED <<started, faults>>

\* Mutant: no rollback after the deadline.
TimeoutNoRollback(p) ==
    /\ d[p].pc = "waitapp"
    /\ Die(p, "failure")
    /\ UNCHANGED <<svc, started, faults>>

\* DEPLOY_TIMEOUT: a rollback is asked for and not waited for.
TimeoutApp(p) ==
    /\ d[p].pc = "waitapp"
    /\ svc' = [svc EXCEPT ![d[p].cmd.svc] = RolledBack(d[p].cmd.svc)]
    /\ Die(p, "failure")
    /\ UNCHANGED <<started, faults>>

\* A check or a docker call fails and `set -e' ends the command: nothing asks
\* for a rollback, not even once the update was asked for.  At "decide" it is
\* the second look at a service, the first having found it.
AbortApp(p) ==
    /\ d[p].pc \in {"load", "decide", "update", "waitapp"}
    /\ d[p].pc = "decide" => Exists(d[p].cmd.svc)
    /\ Fault
    /\ Die(p, "failure")
    /\ UNCHANGED <<svc, started>>

-----------------------------------------------------------------------------
(* deploy stack, also run by the first `deploy app' of the last service.   *)

\* check_vars and docker stack config refuse an image that is not set.
RefuseStack(p) ==
    /\ d[p].pc = "stack"
    /\ \E s \in Svcs : d[p].env[s] = NoImage
    /\ Die(p, "failure")
    /\ UNCHANGED <<svc, started, faults>>

StackOver(p, S) == [s \in Svcs |-> IF s \in S THEN WithImage(s, d[p].env[s]) ELSE svc[s]]

ApplyStack(p) ==
    /\ d[p].pc = "stack"
    /\ \A s \in Svcs : d[p].env[s] # NoImage
    /\ svc' = StackOver(p, Svcs)
    /\ d' = [d EXCEPT ![p].pc = "waitstack", ![p].marks = Marks, ![p].stable = 0]
    /\ UNCHANGED <<lock, files, history, started, faults>>

\* docker stack deploy fails after some of the services; a failed hook, which
\* comes before it, is the case of none of them.
ApplyStackFails(p) ==
    /\ d[p].pc = "stack"
    /\ \A s \in Svcs : d[p].env[s] # NoImage
    /\ \E S \in SUBSET Svcs : svc' = StackOver(p, S)
    /\ Fault
    /\ Die(p, "failure")
    /\ UNCHANGED started

\* wait_stack sleeps 5 s before it looks: the Swarm is taken to have started
\* every update by then.
Settled == \A s \in Svcs : svc[s].update # "queued"

Failed(p) == \E s \in Svcs : State(p, s) \in {"paused", "rollback_paused", "rollback_completed"}

\* Mutant: replicas are looked at, the update's state is not.
PendingReplicas(p) == \E s \in Svcs : ~ReplicasOk(s)

Pending(p) == \E s \in Svcs :
    \/ State(p, s) \in {"updating", "rollback_started"}
    \/ State(p, s) \in {"", "completed"} /\ ~ReplicasOk(s)

\* rollback_pending, then die; S are the services docker answered for.
GiveUp(p, S) ==
    /\ svc' = [s \in Svcs |-> IF s \in S /\ Exists(s) /\ State(p, s) \in {"updating", "paused"}
                              THEN RolledBack(s) ELSE svc[s]]
    /\ Die(p, "failure")

\* Two polls in a row with nothing pending are a success.
Calm(p) ==
    \/ /\ d[p].stable = 0
       /\ d' = [d EXCEPT ![p].stable = 1]
       /\ UNCHANGED <<lock, history>>
    \/ /\ d[p].stable = 1
       /\ End(p, "success")
       /\ shipped' = [s \in Svcs |-> IF IsApp(p, s) THEN d[p].cmd.img ELSE shipped[s]]
       /\ misread' = {s \in misread : ~IsApp(p, s)}

PollStack(p) ==
    /\ d[p].pc = "waitstack"
    /\ Settled
    /\ \/ Failed(p) /\ GiveUp(p, Svcs)
       \/ ~Failed(p) /\ ~Pending(p) /\ Calm(p) /\ UNCHANGED <<svc, files>>
       \/ /\ ~Failed(p) /\ Pending(p) /\ d[p].stable = 1
          /\ d' = [d EXCEPT ![p].stable = 0]
          /\ UNCHANGED <<lock, files, svc, history>>
    /\ UNCHANGED <<started, faults>>

\* docker service ls fails in a process substitution, where `set -e' does not
\* look: the loop runs over no service at all and finds nothing pending.
PollBlind(p) ==
    /\ d[p].pc = "waitstack"
    /\ Fault
    /\ Calm(p)
    /\ UNCHANGED <<files, svc, started>>

\* Mutant: wait_stack has no deadline.
TimeoutNever(p) == FALSE

TimeoutStack(p) ==
    /\ d[p].pc = "waitstack"
    /\ Settled
    /\ GiveUp(p, Svcs)
    /\ UNCHANGED <<started, faults>>

\* The same with docker failing under rollback_pending, or a signal that ends
\* the command before it gets there.
GiveUpFails(p) ==
    /\ d[p].pc = "waitstack"
    /\ Fault
    /\ \E S \in SUBSET Svcs : S # Svcs /\ GiveUp(p, S)
    /\ UNCHANGED started

\* SIGKILL or a reboot: no EXIT trap, and the lock is dropped.
Kill(p) ==
    /\ d[p].pc # "end"
    /\ Fault
    /\ d' = [d EXCEPT ![p] = Ended("killed")]
    /\ lock' = IF lock = p THEN NoProc ELSE lock
    /\ UNCHANGED <<files, svc, history, started>>

-----------------------------------------------------------------------------
(* The Swarm (external).                                                   *)

TasksStart(s) ==
    /\ svc[s].update = "none"
    /\ svc[s].image \in Good
    /\ svc[s].run = NoImage
    /\ svc' = [svc EXCEPT ![s].run = svc[s].image]

UpdateStarts(s) ==
    /\ svc[s].update = "queued"
    /\ svc' = [svc EXCEPT ![s].update = "updating", ![s].mark = @ + 1]

UpdateCompletes(s) ==
    /\ svc[s].update = "updating"
    /\ svc[s].image \in Good
    /\ svc' = [svc EXCEPT ![s].update = "completed", ![s].run = svc[s].image]

UpdateFails(s) ==
    /\ svc[s].update = "updating"
    /\ svc[s].image \notin Good
    /\ svc' = IF OnFailure[s] = "pause" THEN [svc EXCEPT ![s].update = "paused"]
              ELSE [svc EXCEPT ![s].update = "rollback_started",
                               ![s].image = svc[s].prev, ![s].prev = NoImage]

RollbackEnds(s) ==
    /\ svc[s].update = "rollback_started"
    /\ svc' = IF svc[s].image \in Good
              THEN [svc EXCEPT ![s].update = "rollback_completed", ![s].run = svc[s].image]
              ELSE [svc EXCEPT ![s].update = "rollback_paused"]

SwarmStep(s) ==
    /\ TasksStart(s) \/ UpdateStarts(s) \/ UpdateCompletes(s) \/ UpdateFails(s) \/ RollbackEnds(s)
    /\ UNCHANGED <<lock, files, history, d, started, faults>>

-----------------------------------------------------------------------------
\* What a command does by itself; every wait has a timeout.
Run(p) ==
    \/ AcquireLock(p) \/ LockTimeout(p) \/ LoadEnv(p)
    \/ DecideApp(p) \/ Misread(p) \/ UpdateApp(p) \/ PollApp(p) \/ TimeoutApp(p) \/ AbortApp(p)
    \/ RefuseStack(p) \/ ApplyStack(p) \/ ApplyStackFails(p)
    \/ PollStack(p) \/ PollBlind(p) \/ TimeoutStack(p) \/ GiveUpFails(p)

Next ==
    \/ \E p \in Slots, cmd \in Commands : Start(p, cmd)
    \/ \E p \in Slots : Run(p) \/ Kill(p)
    \/ \E s \in Svcs : SwarmStep(s)

\* A process runs until it exits and the orchestrator converges or gives up.
Fairness ==
    /\ \A p \in Slots : WF_vars(Run(p))
    /\ \A s \in Svcs : WF_vars(SwarmStep(s))

Spec == Init /\ [][Next]_vars /\ Fairness

-----------------------------------------------------------------------------
(* Properties                                                              *)

Ends(p, results) == d[p].pc # "end" /\ d'[p].pc = "end" /\ d'[p].result \in results

\* "A stack redeploy never reverts what the pipeline shipped"
\* (stacks/app.yml:7): no command moves a service off the image that was
\* last shipped to it, but `deploy app' of that service.  The image files
\* must be read under the lock, and rollback_pending must leave alone what
\* this deploy did not touch.  Once a command was killed half-way, giving up
\* on the next one may restore the image the killed one had asked for; docker
\* stack deploy itself never reverts, but for a service whose image file was
\* replaced or removed as if it had never been deployed (README, gap B).
ShippedIsNotReverted ==
    [][ \A p \in Slots, s \in Svcs :
          (/\ d'[p] # d[p] /\ ~IsApp(p, s)
           /\ faults = 0 \/ (d[p].pc = "stack" /\ s \notin misread)
           /\ shipped[s] # NoImage /\ svc[s].image = shipped[s])
          => svc'[s].image = shipped[s] ]_vars

\* `success' is never reported of an image that is not what runs: two
\* deploys of one service do not mix, and a status left by an earlier update
\* is not taken for this one's.  (Not so where the deploy took a service that
\* exists for one to create, and had nothing to change: deploy:285.)
SuccessIsRunning ==
    [][ \A p \in Slots, s \in Svcs :
          (Ends(p, {"success"}) /\ IsApp(p, s) /\ (d[p].discard => s \notin misread))
            => svc[s].run = d[p].cmd.img ]_vars

\* `success' of a whole stack: every service has healthy tasks, and those of
\* a service this deploy touched run what it asked for.  A rollback that an
\* earlier deploy left behind may still be under way (deploy:342).
StackSuccessIsRunning ==
    [][ \A p \in Slots, s \in Svcs :
          d[p].pc = "waitstack" /\ Ends(p, {"success"})
          => /\ svc[s].run # NoImage
             /\ svc[s].mark # d[p].marks[s] => svc[s].run = d[p].env[s] ]_vars

\* A deploy that failed leaves no image file that says otherwise, which the
\* next stack deploy would ship: the file of a first deploy is written before
\* the outcome is known.  (A command killed after the Swarm converged may
\* leave an older file, and a later failure finds it there.)
FailureIsNotRecorded ==
    [][ \A p \in Slots, s \in Svcs :
          (/\ Ends(p, {"failure", "rolled-back"}) /\ IsApp(p, s)
           /\ d[p].pc \notin {"load", "decide"}
           /\ faults = 0 \/ d[p].discard
           /\ shipped[s] # d[p].cmd.img)
          => files'[s] # d[p].cmd.img ]_vars

\* A service updated from a healthy image to one that fails its health check
\* does not stay there, whether the Swarm rolls it back or leaves it paused,
\* unless the command that would have rolled it back was killed or failed itself.
BadImageIsRolledBack ==
    \A s \in Svcs :
       (svc[s].image \in Images \ Good /\ svc[s].prev \in Good)
          ~> (svc[s].image \in Good \/ faults > 0)

\* Mutating commands "wait until every service is healthy" (deploy:35-36).
\* False: see README, finding 3.
EveryServiceIsHealthy ==
    [][ \A p \in Slots : d[p].pc = "waitstack" /\ Ends(p, {"success"})
                       => \A s \in Svcs : svc[s].run # NoImage ]_vars

\* The lock comes free again, whatever happens to its holder.
LockIsReleased == \A p \in Slots : (lock = p) ~> (lock # p)

\* "The last healthy image of each service is kept in /var/lib/starter/images"
\* (docs/deploy-and-rollback.md:39).  False: see README, finding 2.
FileIsHealthy ==
    \A s \in Svcs : lock = NoProc /\ Exists(s) => files[s] \in Good \cup {NoImage}
=============================================================================
