------------------------------ MODULE Bootstrap ------------------------------
(***************************************************************************)
(* deploy/host/bootstrap.sh on one host: a list of steps that each look    *)
(* first and act if need be, run again after a change of the host or of    *)
(* the clone, interrupted anywhere (set -e, or Ctrl-C), or run dry.        *)
(*                                                                         *)
(* A step whose check and action concern one thing only is a member of     *)
(* Simple; the steps that read what earlier steps made are modelled one    *)
(* by one.  Of what every run repeats without looking (install -d,         *)
(* systemctl, ufw) only the rule of ufw that reads the host is kept.       *)
(* Between runs the host drifts and the clone is pulled.                   *)
(***************************************************************************)
EXTENDS Naturals, Sequences

CONSTANTS Subnets,    \* subnets docker_gwbridge can get
          KeyPairs,   \* key pairs ssh-keygen can make
          Versions,   \* versions of the BuildKit image and configuration
          None,       \* absent
          MaxFaults,  \* bound on failed commands and interruptions
          MaxDrifts   \* bound on changes made by others

ASSUME BootstrapAssumption ==
    /\ None \notin Subnets \cup KeyPairs \cup Versions
    /\ MaxFaults \in Nat /\ MaxDrifts \in Nat

VARIABLES host,    \* what the steps look at and change
          repo,    \* the wanted BuildKit image and buildkitd.toml
          run,     \* the run under way
          faults, drifts

vars == <<host, repo, run, faults, drifts>>

Order == <<"packages", "docker", "gwbridge", "swarm", "networks", "directories",
           "user", "sudoers", "keygen", "authorized", "known", "toml",
           "buildkit", "run", "connect", "ufw", "unit">>

Simple == {"packages", "docker", "swarm", "networks", "directories", "user",
           "sudoers", "unit"}

BuildKit == [spec: (Versions \X Versions) \cup {None}, running: BOOLEAN, joined: BOOLEAN]
NoBuildKit == [spec |-> None, running |-> FALSE, joined |-> FALSE]

TypeOK ==
    /\ host \in [present: SUBSET Simple,                   \* simple things in place
                 gw: Subnets \cup {None},                  \* docker_gwbridge
                 key: KeyPairs \cup {None},                \* ci_deploy_ssh_key
                 pub: KeyPairs \cup {None},                \* ci_deploy_ssh_key.pub
                 auth: (Subnets \X (KeyPairs \cup {None})) \cup {None},
                 known: Subnets \cup {None},               \* ci_deploy_known_hosts
                 toml: Versions \cup {None},
                 bk: BuildKit,                             \* container buildkitd
                 allowed: SUBSET Subnets]                  \* let in to SSH by ufw
    /\ repo \in [image: Versions, toml: Versions]
    /\ run \in [pc: 0..(Len(Order) + 1), dry: BOOLEAN, said: SUBSET {Order[i] : i \in DOMAIN Order},
                clean: BOOLEAN, halves: BOOLEAN, apart: BOOLEAN, plain: BOOLEAN,
                would: SUBSET {Order[i] : i \in DOMAIN Order}]
    /\ faults \in 0..MaxFaults
    /\ drifts \in 0..MaxDrifts

NoRun == [pc |-> 0, dry |-> FALSE, said |-> {},
          clean |-> FALSE, halves |-> FALSE, apart |-> FALSE, plain |-> FALSE, would |-> {}]

Fresh == [present |-> {}, gw |-> None, key |-> None, pub |-> None, auth |-> None,
          known |-> None, toml |-> None, bk |-> NoBuildKit, allowed |-> {}]

Init ==
    /\ host = Fresh
    /\ \E v \in Versions : repo = [image |-> v, toml |-> v]
    /\ run = NoRun
    /\ faults = 0
    /\ drifts = 0

-----------------------------------------------------------------------------
(* The parts of a host that is set up, one per step that can find it        *)
(* wanting.                                                                *)

Drifted(s) ==
    \/ s \in Simple /\ s \notin host.present
    \/ s = "gwbridge" /\ host.gw = None
    \/ s = "keygen" /\ (host.key = None \/ host.pub # host.key)
    \/ s = "authorized" /\ host.auth # <<host.gw, host.key>>
    \/ s = "known" /\ host.known # host.gw
    \/ s = "toml" /\ host.toml # repo.toml
    \/ s = "run" /\ ~(host.bk.spec = <<repo.image, repo.toml>> /\ host.bk.running)
    \/ s = "connect" /\ ~host.bk.joined
    \/ s = "ufw" /\ host.gw \notin host.allowed

Steps == {Order[i] : i \in DOMAIN Order}
Ready == \A s \in Steps : ~Drifted(s)

-----------------------------------------------------------------------------
(* A run.                                                                  *)

\* History of the host at the start of a run.  Two things no check of the
\* script sees: the halves of the deploy key do not belong together, or
\* buildkitd is up to date but not on network ci.
Halves == host.key # None /\ host.pub # host.key
Apart == ~Drifted("run") /\ ~host.bk.joined

\* No step reads what another one is going to change.
Plain ==
    /\ "docker" \in host.present
    /\ None \notin {host.gw, host.key, host.pub}
    /\ host.toml = repo.toml

\* What step s does to this host in a real run, if Plain.  The rule of ufw is
\* written every time.
WouldAct(s) ==
    \/ s \notin {"keygen", "authorized", "connect"} /\ Drifted(s)
    \/ s = "keygen" /\ host.key = None
    \/ s = "authorized" /\ (host.key = None \/ host.auth # <<host.gw, host.pub>>)
    \/ s = "buildkit" /\ Drifted("run") /\ host.bk # NoBuildKit
    \/ s = "connect" /\ Drifted("run")
    \/ s = "ufw"

Start(dry) ==
    /\ run = NoRun
    /\ run' = [pc |-> 1, dry |-> dry, said |-> {},
               clean |-> Ready, halves |-> Halves, apart |-> Apart, plain |-> Plain,
               would |-> IF Plain THEN {s \in Steps : WouldAct(s)} ELSE {}]
    /\ UNCHANGED <<host, repo, faults, drifts>>

At(s) == run.pc \in DOMAIN Order /\ Order[run.pc] = s
Onward(said) == [run EXCEPT !.pc = @ + 1, !.said = @ \cup said]
JumpTo(s, said) ==
    [run EXCEPT !.pc = CHOOSE i \in DOMAIN Order : Order[i] = s, !.said = @ \cup said]

\* Step s: if it `differs' the host becomes `new', or in a dry run that is
\* only said.
Do(s, differs, new) ==
    /\ At(s)
    /\ run' = Onward(IF differs THEN {s} ELSE {})
    /\ host' = IF differs /\ ~run.dry THEN new ELSE host
    /\ UNCHANGED <<repo, faults, drifts>>

\* A dry run without Docker says swarm and networks, and skips the check of
\* docker_gwbridge with them.
DryWithoutDocker == run.dry /\ "docker" \notin host.present

Ensure(x) ==
    /\ x \in {"swarm", "networks"} => ~DryWithoutDocker
    /\ Do(x, x \notin host.present, [host EXCEPT !.present = @ \cup {x}])

SkipSwarm ==
    /\ At("gwbridge")
    /\ DryWithoutDocker
    /\ run' = JumpTo("directories", {"swarm", "networks"})
    /\ UNCHANGED <<host, repo, faults, drifts>>

CreateBridge(s) ==
    /\ ~DryWithoutDocker
    /\ Do("gwbridge", host.gw = None, [host EXCEPT !.gw = s])

\* A key that is nowhere on the host yet.
FreshKey(k) ==
    /\ k \notin {host.key, host.pub}
    /\ host.auth # None => host.auth[2] # k

\* Mutant: the key is generated whether or not there is one.
KeyGenAlways(k) ==
    /\ FreshKey(k)
    /\ Do("keygen", TRUE, [host EXCEPT !.key = k, !.pub = k])

\* [ -s ci_deploy_ssh_key ] looks at the private half only.
KeyGen(k) ==
    /\ host.key = None => FreshKey(k)
    /\ Do("keygen", host.key = None, [host EXCEPT !.key = k, !.pub = k])

\* A dry run that finds no .pub goes no further with this step; one that
\* finds neither bridge nor user stops with an error.
NoPub ==
    /\ At("authorized")
    /\ run.dry /\ host.pub = None
    /\ run' = JumpTo("toml", {"authorized", "known"})
    /\ UNCHANGED <<host, repo, faults, drifts>>

NothingToAsk ==
    /\ At("authorized")
    /\ run.dry /\ host.pub # None
    /\ host.gw = None \/ "user" \notin host.present
    /\ run' = NoRun
    /\ UNCHANGED <<host, repo, faults, drifts>>

\* Without .pub the line is written all the same, without a key: cat fails
\* in a here-document, which set -e does not see.
Entry == <<host.gw, host.pub>>

WriteAuthorized ==
    /\ host.gw # None
    /\ run.dry => host.pub # None /\ "user" \in host.present
    /\ Do("authorized", host.auth # Entry, [host EXCEPT !.auth = Entry])

\* Mutants: the whole line of authorized_keys; no comparison before writing.
WriteKnownEntry == Do("known", host.known # host.gw, [host EXCEPT !.known = Entry])
WriteKnownAlways == Do("known", TRUE, [host EXCEPT !.known = host.gw])

WriteKnown == Do("known", host.known # host.gw, [host EXCEPT !.known = host.gw])

WriteToml == Do("toml", host.toml # repo.toml, [host EXCEPT !.toml = repo.toml])

\* The label starter.spec: the image, and the hash of the file on the host.
Want == <<repo.image, host.toml>>

\* Mutant: a stopped container is up to date.
UpToDateStopped == host.bk.spec = Want

UpToDate == host.bk.spec = Want /\ host.bk.running

BuildKitUpToDate ==
    /\ At("buildkit")
    /\ UpToDate
    /\ run' = JumpTo("ufw", {})
    /\ UNCHANGED <<host, repo, faults, drifts>>

\* docker rm -f, docker run, docker network connect.
RemoveBuildKit ==
    /\ ~UpToDate
    /\ Do("buildkit", host.bk # NoBuildKit, [host EXCEPT !.bk = NoBuildKit])

RunBuildKit ==
    Do("run", TRUE, [host EXCEPT !.bk = [spec |-> Want, running |-> TRUE, joined |-> FALSE]])

ConnectBuildKit == Do("connect", TRUE, [host EXCEPT !.bk.joined = TRUE])

\* The rule for Jenkins, written (or said) whether or not it is there; rules
\* of earlier subnets stay.
AllowGateway ==
    Do("ufw", TRUE, [host EXCEPT !.allowed = @ \cup ({host.gw} \ {None})])

Finished == run.pc = Len(Order) + 1

Finish ==
    /\ Finished
    /\ run' = NoRun
    /\ UNCHANGED <<host, repo, faults, drifts>>

\* A command fails or the run is interrupted, possibly half way through
\* ssh-keygen (the private half first) or docker run (created, not started).
Interrupted ==
    /\ run.pc # 0
    /\ faults < MaxFaults
    /\ faults' = faults + 1
    /\ run' = NoRun
    /\ \/ UNCHANGED host
       \/ /\ At("keygen") /\ ~run.dry /\ host.key = None
          /\ \E k \in KeyPairs : FreshKey(k) /\ host' = [host EXCEPT !.key = k]
       \/ /\ At("run") /\ ~run.dry
          /\ host' = [host EXCEPT !.bk = [spec |-> Want, running |-> FALSE, joined |-> FALSE]]
    /\ UNCHANGED <<repo, drifts>>

RunStep ==
    \/ \E x \in Simple : Ensure(x)
    \/ \E s \in Subnets : CreateBridge(s)
    \/ \E k \in KeyPairs : KeyGen(k)
    \/ SkipSwarm \/ NoPub \/ NothingToAsk
    \/ WriteAuthorized \/ WriteKnown \/ WriteToml
    \/ BuildKitUpToDate \/ RemoveBuildKit \/ RunBuildKit \/ ConnectBuildKit
    \/ AllowGateway \/ Finish \/ Interrupted

-----------------------------------------------------------------------------
(* Between runs.                                                           *)

Drift ==
    /\ run = NoRun
    /\ drifts < MaxDrifts
    /\ drifts' = drifts + 1
    /\ UNCHANGED <<run, faults>>

\* A later commit of the clone.
Pull ==
    /\ Drift
    /\ \E v \in Versions, f \in {"image", "toml"} : repo' = [repo EXCEPT ![f] = v]
    /\ UNCHANGED host

\* Somebody removes or edits a thing on the host.  Without network ci no
\* container is on it.
Lose ==
    /\ Drift
    /\ \/ \E x \in Simple \ {"docker", "swarm", "networks"} : host' = [host EXCEPT !.present = @ \ {x}]
       \/ \E gone \in {{"networks"}, {"networks", "swarm"}} :
            host' = [host EXCEPT !.present = @ \ gone, !.bk.joined = FALSE]
       \/ \E s \in Subnets \cup {None} : host.gw # None /\ host' = [host EXCEPT !.gw = s]
       \/ host' = [host EXCEPT !.key = None]
       \/ host' = [host EXCEPT !.key = None, !.pub = None]
       \/ host' = [host EXCEPT !.pub = None]
       \/ host' = [host EXCEPT !.auth = None]
       \/ host' = [host EXCEPT !.known = None]
       \/ host' = [host EXCEPT !.toml = None]
       \/ host' = [host EXCEPT !.bk = NoBuildKit]
       \/ host' = [host EXCEPT !.bk.running = FALSE]
       \/ host' = [host EXCEPT !.bk.joined = FALSE]
       \/ host' = [host EXCEPT !.allowed = {}]
    /\ UNCHANGED repo

Next ==
    \/ \E dry \in BOOLEAN : Start(dry)
    \/ RunStep
    \/ Pull
    \/ Lose

Spec == Init /\ [][Next]_vars

-----------------------------------------------------------------------------
(* Properties                                                              *)

\* A run that finishes leaves everything in place, whatever interrupted the
\* runs before it and whatever drifted since: the checks of later steps read
\* what earlier ones wrote (the key in authorized_keys, the hash of the file
\* in the label).  Only two things that stood when it began it may leave: two
\* halves of a key that do not match, with the line in authorized_keys made
\* from them, and an up to date buildkitd that is not on network ci (README,
\* gaps D and E).
FinishedIsReady ==
    Finished /\ ~run.dry =>
        \A s \in Steps : Drifted(s) =>
            \/ run.halves /\ s \in {"keygen", "authorized"}
            \/ run.apart /\ s = "connect"

\* "Running it again changes nothing" (bootstrap.sh:6-7), and neither does
\* --dry-run: no step of a dry run, or of a run that found everything in
\* place, changes the host.
RerunChangesNothing ==
    [][ run.pc # 0 /\ (run.dry \/ run.clean) => host' = host ]_vars

\* "The actions that would run are printed" (bootstrap.sh:7-8): what a run
\* that gets to its end has said is what stands to be done on the host it
\* found, whether it did those things or was dry - so a dry run and a real
\* one say the same.  Not promised where a step reads what an earlier one
\* would have changed: without Docker, docker_gwbridge or a whole key, or
\* with a new buildkitd.toml (README, gap F).
DryRunForetells == Finished /\ run.plain => run.said = run.would
=============================================================================
