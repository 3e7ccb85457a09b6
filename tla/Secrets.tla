------------------------------- MODULE Secrets -------------------------------
(***************************************************************************)
(* Passwords on the host (deploy/lib, deploy/hooks): the value files and   *)
(* version files under /etc/starter/secrets, the immutable Docker secrets  *)
(* published from them, the accounts that accept them (a PostgreSQL role,  *)
(* a MinIO user, the registry's htpasswd) and what the services mount.     *)
(*                                                                         *)
(* `deploy stack' runs the stack's hook, command by command, and then      *)
(* docker stack deploy; the global lock (module Deploy) admits one at a    *)
(* time.  A person rotates a secret as docs/secrets.md:61-66 says: value,  *)
(* then version, then deploy, and takes no lock for it.                    *)
(*                                                                         *)
(* A password is a number, drawn once; 0 is none.  An htpasswd file is the *)
(* password it was made from; Blank, if the password file was empty then.  *)
(***************************************************************************)
EXTENDS Naturals, Sequences

CONSTANTS Accounts,     \* password secrets of the app stack, in hook order
          AtStart,      \* those a task must log in with before it is healthy
          MaxValue,     \* bound on passwords drawn
          MaxFaults     \* bound on failed commands and updates

AccountSet == {Accounts[i] : i \in 1..Len(Accounts)}

\* registry_ci_password, and registry_htpasswd derived from it.
Names == AccountSet \cup {"ci", "ht"}

ASSUME SecretsAssumption ==
    /\ Accounts \in Seq(AccountSet)
    /\ {"ci", "ht"} \cap AccountSet = {}
    /\ AtStart \subseteq AccountSet
    /\ MaxValue \in Nat
    /\ MaxFaults \in Nat

VARIABLES file,      \* $SECRETS_DIR/<name>
          version,   \* $SECRETS_DIR/<name>.version, 1 when there is none
          secrets,   \* Docker secrets: the value of <name>_v<version>
          account,   \* the password each account accepts
          mounted,   \* version of each secret in its service's specification
          drawn,     \* passwords drawn so far
          op,        \* the rotation under way
          d,         \* the deploy under way
          result,    \* how the last deploy ended
          faults     \* failed commands and updates so far

vars == <<file, version, secrets, account, mounted, drawn, op, d, result, faults>>

Values == 0..(MaxValue + 1)
Blank == MaxValue + 1
Versions == 1..(MaxValue + 1)
Unversioned == [n \in Names |-> 0]

\* What is left of a hook: one entry for each command that changes state.
\* A test that finds a file wanting is followed by the command that writes it.
Task == [do: {"generate", "write", "publish", "apply", "derive", "hash", "login"}, name: Names]
Do(what, n) == [do |-> what, name |-> n]

EnsureSecret(n) == <<Do("generate", n), Do("publish", n)>>
EnsureAccount(n) == Append(EnsureSecret(n), Do("apply", n))
EnsureHtpasswd == EnsureSecret("ci") \o <<Do("derive", "ht"), Do("publish", "ht")>>

\* One account after the other, three commands each.
EnsureAccounts ==
    [k \in 1..(3 * Len(Accounts)) |->
        EnsureAccount(Accounts[(k + 2) \div 3])[1 + ((k - 1) % 3)]]

Hook(stack) ==
    IF stack = "app" THEN Append(EnsureAccounts, Do("login", "ci"))
    ELSE EnsureHtpasswd

\* The secrets a stack file names.
Uses(stack) == IF stack = "app" THEN AccountSet ELSE {"ht"}

NoDeploy == [stack |-> "none", todo |-> <<>>, waits |-> FALSE, exports |-> Unversioned,
             before |-> Unversioned, quiet |-> TRUE, worked |-> TRUE]

TypeOK ==
    /\ file \in [Names -> Values]
    /\ version \in [Names -> Versions]
    /\ secrets \in [Names -> [Versions -> Values]]
    /\ account \in [AccountSet -> Values]
    /\ mounted \in [Names -> {0} \cup Versions]
    /\ drawn \in 0..MaxValue
    /\ op \in [name: Names, step: {"idle", "open", "written"}]
    /\ d \in [stack: {"none", "app", "platform"}, todo: Seq(Task), waits: BOOLEAN,
              exports: [Names -> {0} \cup Versions], before: [Names -> {0} \cup Versions],
              quiet: BOOLEAN, worked: BOOLEAN]
    /\ result \in {"none", "success", "failure"}
    /\ faults \in 0..MaxFaults

Init ==
    /\ file = [n \in Names |-> 0]
    /\ version = [n \in Names |-> 1]
    /\ secrets = [n \in Names |-> [v \in Versions |-> 0]]
    /\ account = [n \in AccountSet |-> 0]
    /\ mounted = Unversioned
    /\ drawn = 0
    /\ op = [name |-> "ci", step |-> "idle"]
    /\ d = NoDeploy
    /\ result = "none"
    /\ faults = 0

Fault == faults < MaxFaults /\ faults' = faults + 1

\* What a service reads from /run/secrets/<name>.
Given(n) == IF mounted[n] = 0 THEN 0 ELSE secrets[n][mounted[n]]

CanLogIn(n) == account[n] = Given(n)

-----------------------------------------------------------------------------
(* The person who rotates.                                                 *)

Disturb == d' = [d EXCEPT !.quiet = (d.stack = "none")]

\* The shell empties the file before the pipeline writes to it.
OpenFile(n) ==
    /\ op.step = "idle"
    /\ file[n] # 0
    /\ drawn < MaxValue
    /\ op' = [name |-> n, step |-> "open"]
    /\ file' = [file EXCEPT ![n] = 0]
    /\ Disturb
    /\ UNCHANGED <<version, secrets, account, mounted, drawn, result, faults>>

WriteFile ==
    /\ op.step = "open"
    /\ drawn < MaxValue
    /\ drawn' = drawn + 1
    /\ file' = [file EXCEPT ![op.name] = drawn']
    /\ op' = [op EXCEPT !.step = "written"]
    /\ Disturb
    /\ UNCHANGED <<version, secrets, account, mounted, result, faults>>

BumpVersion ==
    /\ op.step = "written"
    /\ version' = [version EXCEPT ![op.name] = @ + 1]
    /\ op' = [op EXCEPT !.step = "idle"]
    /\ Disturb
    /\ UNCHANGED <<file, secrets, account, mounted, drawn, result, faults>>

-----------------------------------------------------------------------------
(* deploy stack: the hook, then docker stack deploy and its outcome.       *)

Start(stack) ==
    /\ d.stack = "none"
    /\ d' = [NoDeploy EXCEPT !.stack = stack, !.todo = Hook(stack),
                             !.quiet = (op.step = "idle"),
                             !.worked = \A n \in AccountSet : mounted[n] # 0 /\ CanLogIn(n)]
    /\ result' = "none"
    /\ UNCHANGED <<file, version, secrets, account, mounted, drawn, op, faults>>

End(how) == d' = NoDeploy /\ result' = how

Turn(what, n) == d.todo # <<>> /\ Head(d.todo) = Do(what, n)
Proceed == d' = [d EXCEPT !.todo = Tail(@)] /\ UNCHANGED result
Instead(what, n) == d' = [d EXCEPT !.todo[1] = Do(what, n)] /\ UNCHANGED result

\* Mutant: the value is drawn again on every deploy.
GenerateAgain(n) ==
    /\ Turn("generate", n)
    /\ Instead("write", n)
    /\ UNCHANGED <<file, version, secrets, account, mounted, drawn, op, faults>>

\* ensure_secret looks whether the file is empty or missing ...
Generate(n) ==
    /\ Turn("generate", n)
    /\ \/ file[n] # 0 /\ Proceed
       \/ file[n] = 0 /\ Instead("write", n)
    /\ UNCHANGED <<file, version, secrets, account, mounted, drawn, op, faults>>

\* ... and then draws a value, over whatever was written meanwhile.
Write(n) ==
    /\ Turn("write", n)
    /\ drawn < MaxValue
    /\ drawn' = drawn + 1
    /\ file' = [file EXCEPT ![n] = drawn']
    /\ Proceed
    /\ UNCHANGED <<version, secrets, account, mounted, op, faults>>

\* Mutant: the first Docker secret is used for ever.
PublishFirst(n) ==
    /\ Turn("publish", n)
    /\ secrets' = [secrets EXCEPT ![n][1] = IF @ = 0 THEN file[n] ELSE @]
    /\ d' = [d EXCEPT !.todo = Tail(@), !.exports[n] = 1]
    /\ UNCHANGED <<file, version, account, mounted, drawn, op, result, faults>>

\* _secret_publish: a version that exists is left alone, whatever the file
\* says; Docker refuses an empty secret.
Publish(n) ==
    /\ Turn("publish", n)
    /\ \/ /\ (secrets[n][version[n]] # 0 \/ file[n] # 0)
          /\ secrets' = [secrets EXCEPT ![n][version[n]] = IF @ = 0 THEN file[n] ELSE @]
          /\ d' = [d EXCEPT !.todo = Tail(@), !.exports[n] = version[n]]
          /\ UNCHANGED result
       \/ /\ secrets[n][version[n]] = 0 /\ file[n] = 0
          /\ End("failure")
          /\ UNCHANGED secrets
    /\ UNCHANGED <<file, version, account, mounted, drawn, op, faults>>

\* ALTER ROLE, or mc admin user add: the file is read again.
Apply(n) ==
    /\ Turn("apply", n)
    /\ \/ file[n] # 0 /\ account' = [account EXCEPT ![n] = file[n]] /\ Proceed
       \/ file[n] = 0 /\ End("failure") /\ UNCHANGED account
    /\ UNCHANGED <<file, version, secrets, mounted, drawn, op, faults>>

\* ensure_htpasswd: made again when the password does not verify, an empty
\* one included.
Hashed == IF file["ci"] = 0 THEN Blank ELSE file["ci"]

Derive ==
    /\ Turn("derive", "ht")
    /\ \/ file["ht"] = Hashed /\ Proceed
       \/ file["ht"] # Hashed /\ Instead("hash", "ht")
    /\ UNCHANGED <<file, version, secrets, account, mounted, drawn, op, faults>>

MakeHtpasswd ==
    /\ Turn("hash", "ht")
    /\ file' = [file EXCEPT !["ht"] = Hashed]
    /\ Proceed
    /\ UNCHANGED <<version, secrets, account, mounted, drawn, op, faults>>

\* docker login with the file's password against the registry as it runs.
RegistryLogin ==
    /\ Turn("login", "ci")
    /\ \/ file["ci"] # 0 /\ Given("ht") = file["ci"] /\ Proceed
       \/ ~(file["ci"] # 0 /\ Given("ht") = file["ci"]) /\ End("failure")
    /\ UNCHANGED <<file, version, secrets, account, mounted, drawn, op, faults>>

\* Mutant: what the other stacks mount is forgotten.
StackDeployForgets ==
    /\ d.stack # "none" /\ d.todo = <<>> /\ ~d.waits
    /\ mounted' = [n \in Uses(d.stack) |-> d.exports[n]]
    /\ d' = [d EXCEPT !.waits = TRUE, !.before = mounted]
    /\ UNCHANGED <<file, version, secrets, account, drawn, op, result, faults>>

\* The versions the services name once the stack file is in effect.
Passed == [n \in Names |-> IF n \in Uses(d.stack) THEN d.exports[n] ELSE mounted[n]]

StackDeploy ==
    /\ d.stack # "none" /\ d.todo = <<>> /\ ~d.waits
    /\ mounted' = Passed
    /\ d' = [d EXCEPT !.waits = TRUE, !.before = mounted]
    /\ UNCHANGED <<file, version, secrets, account, drawn, op, result, faults>>

\* An unchanged specification starts no task; a task that cannot log in
\* exits (main.go:47) and is never healthy.
Healthy == \/ mounted = d.before
           \/ d.stack = "platform"
           \/ \A n \in AtStart : CanLogIn(n)

Converge ==
    /\ d.waits
    /\ Healthy
    /\ End("success")
    /\ UNCHANGED <<file, version, secrets, account, mounted, drawn, op, faults>>

\* Back to the specification before, where there was one.
RollBack ==
    /\ d.waits
    /\ \/ ~Healthy /\ UNCHANGED faults
       \/ Fault
    /\ mounted' = IF \E n \in Uses(d.stack) : d.before[n] = 0 THEN mounted ELSE d.before
    /\ End("failure")
    /\ UNCHANGED <<file, version, secrets, account, drawn, op>>

\* A command of the hook fails, having emptied the file it was to write, or
\* docker stack deploy does, with or without the service updated.
HookFails ==
    /\ d.stack # "none" /\ ~d.waits
    /\ Fault
    /\ \/ UNCHANGED <<file, mounted>>
       \/ /\ \E n \in Names : /\ Turn(IF n = "ht" THEN "hash" ELSE "write", n)
                             /\ file' = [file EXCEPT ![n] = 0]
          /\ UNCHANGED mounted
       \/ d.todo = <<>> /\ mounted' = Passed /\ UNCHANGED file
    /\ End("failure")
    /\ UNCHANGED <<version, secrets, account, drawn, op>>

Next ==
    \/ \E n \in AccountSet \cup {"ci"} : OpenFile(n)
    \/ WriteFile \/ BumpVersion
    \/ \E stack \in {"app", "platform"} : Start(stack)
    \/ \E n \in Names : Generate(n) \/ Write(n) \/ Publish(n) \/ Apply(n)
    \/ Derive \/ MakeHtpasswd \/ RegistryLogin \/ StackDeploy \/ Converge \/ RollBack \/ HookFails

Spec == Init /\ [][Next]_vars

-----------------------------------------------------------------------------
(* Properties                                                              *)

\* Outside a rotation, the current version, once published, is the file: a
\* hook that runs in the middle of one, and even draws a value over the one
\* just written (README, gap C), publishes no other value under the new
\* version.
CurrentVersionIsFile ==
    \A n \in AccountSet \cup {"ci"} :
        (op.step = "idle" \/ op.name # n) /\ secrets[n][version[n]] # 0
            => secrets[n][version[n]] = file[n]

EndsQuiet(stack) == d.stack = stack /\ d'.stack = "none" /\ d.quiet

\* A stack deploy that reports success, with no rotation going on meanwhile,
\* leaves every account accepting what the tasks are given, whatever failed
\* or was interrupted before: a task that restarts can log in.
SuccessCanLogIn ==
    [][ EndsQuiet("app") /\ result' = "success"
        => \A n \in AccountSet : CanLogIn(n)' ]_vars

\* "A short window where old connections still work and new ones need the
\* new value" (docs/secrets.md:70): a deploy that found the tasks able to log
\* in leaves them so when it ends.  False: see README, finding 4.
WindowCloses ==
    [][ EndsQuiet("app") /\ d.worked => \A n \in AccountSet : CanLogIn(n)' ]_vars

\* "Rotation: write the new value, increment <name>.version, redeploy the
\* stack" (secrets.sh:13), of the registry's password.  False: see README,
\* finding 5.
RotationReachesRegistry ==
    [][ EndsQuiet("platform") /\ result' = "success" => Given("ht")' = file'["ci"] ]_vars
=============================================================================
