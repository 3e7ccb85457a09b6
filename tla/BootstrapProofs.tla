-------------------------- MODULE BootstrapProofs --------------------------
(***************************************************************************)
(* Proofs about Bootstrap, for any subnets, key pairs and versions and any *)
(* number of failures, interruptions and changes made by others: a run     *)
(* that finishes leaves the host ready, a run with nothing to do changes   *)
(* nothing, and a dry run and a real one say the same.                     *)
(***************************************************************************)
EXTENDS Bootstrap, TLAPS

(***************************************************************************)
(* The list of steps.                                                      *)
(***************************************************************************)

LEMMA OrderIs ==
    /\ Len(Order) = 17 /\ DOMAIN Order = 1..17
    /\ Order[1] = "packages" /\ Order[2] = "docker" /\ Order[3] = "gwbridge"
    /\ Order[4] = "swarm" /\ Order[5] = "networks" /\ Order[6] = "directories"
    /\ Order[7] = "user" /\ Order[8] = "sudoers" /\ Order[9] = "keygen"
    /\ Order[10] = "authorized" /\ Order[11] = "known" /\ Order[12] = "toml"
    /\ Order[13] = "buildkit" /\ Order[14] = "run" /\ Order[15] = "connect"
    /\ Order[16] = "ufw" /\ Order[17] = "unit"
BY DEF Order

LEMMA Distinct == \A i, j \in 1..17 : Order[i] = Order[j] => i = j
<1>1. \A i \in 1..17 : \/ i = 1 \/ i = 2 \/ i = 3 \/ i = 4 \/ i = 5 \/ i = 6 \/ i = 7
                      \/ i = 8 \/ i = 9 \/ i = 10 \/ i = 11 \/ i = 12 \/ i = 13
                      \/ i = 14 \/ i = 15 \/ i = 16 \/ i = 17
  OBVIOUS
<1> QED
  BY <1>1, OrderIs

LEMMA Positions ==
    ASSUME NEW s, At(s)
    PROVE  /\ run.pc \in 1..17 /\ Order[run.pc] = s /\ s \in Steps
           /\ s = "gwbridge" => run.pc = 3
           /\ s = "keygen" => run.pc = 9
           /\ s = "authorized" => run.pc = 10
           /\ s = "known" => run.pc = 11
           /\ s = "toml" => run.pc = 12
           /\ s = "buildkit" => run.pc = 13
           /\ s = "run" => run.pc = 14
           /\ s = "connect" => run.pc = 15
           /\ s = "ufw" => run.pc = 16
BY OrderIs, Distinct DEF At, Steps

\* Both kinds of progress: to the next step, or past some.
MoveTo(n, said) == [run EXCEPT !.pc = n, !.said = @ \cup said]

LEMMA Jumps ==
    ASSUME NEW said
    PROVE  /\ JumpTo("directories", said) = MoveTo(6, said)
           /\ JumpTo("toml", said) = MoveTo(12, said)
           /\ JumpTo("ufw", said) = MoveTo(16, said)
<1>1. (CHOOSE i \in DOMAIN Order : Order[i] = "directories") = 6
  BY OrderIs, Distinct
<1>2. (CHOOSE i \in DOMAIN Order : Order[i] = "toml") = 12
  BY OrderIs, Distinct
<1>3. (CHOOSE i \in DOMAIN Order : Order[i] = "ufw") = 16
  BY OrderIs, Distinct
<1> QED
  BY <1>1, <1>2, <1>3 DEF JumpTo, MoveTo

(***************************************************************************)
(* Types.  What docker run is given as a specification holds the hash of a *)
(* file: by then a real run has written it.                                *)
(***************************************************************************)

HashIsThere == run.pc > 12 /\ ~run.dry => host.toml = repo.toml

TypeInv == TypeOK /\ HashIsThere

Host == [present: SUBSET Simple, gw: Subnets \cup {None}, key: KeyPairs \cup {None},
         pub: KeyPairs \cup {None}, auth: (Subnets \X (KeyPairs \cup {None})) \cup {None},
         known: Subnets \cup {None}, toml: Versions \cup {None}, bk: BuildKit,
         allowed: SUBSET Subnets]
Run == [pc: 0..18, dry: BOOLEAN, said: SUBSET Steps, clean: BOOLEAN, halves: BOOLEAN,
        apart: BOOLEAN, plain: BOOLEAN, would: SUBSET Steps]

LEMMA TypeIs ==
    TypeOK <=> /\ host \in Host /\ run \in Run
               /\ repo \in [image: Versions, toml: Versions]
               /\ faults \in 0..MaxFaults /\ drifts \in 0..MaxDrifts
BY OrderIs DEF TypeOK, Host, Run, Steps

LEMMA TypeIsNext ==
    TypeOK' <=> /\ host' \in Host /\ run' \in Run
                /\ repo' \in [image: Versions, toml: Versions]
                /\ faults' \in 0..MaxFaults /\ drifts' \in 0..MaxDrifts
BY OrderIs DEF TypeOK, Host, Run, Steps

LEMMA NoRunType == NoRun \in Run /\ NoRun.pc = 0
BY DEF NoRun, Run

LEMMA NoBuildKitType == NoBuildKit \in BuildKit
BY DEF NoBuildKit, BuildKit

LEMMA MoveIs ==
    ASSUME run \in Run, NEW n \in 0..18, NEW said \in SUBSET Steps
    PROVE  /\ MoveTo(n, said) \in Run
           /\ MoveTo(n, said).pc = n
           /\ MoveTo(n, said).dry = run.dry
           /\ MoveTo(n, said).said = run.said \cup said
           /\ MoveTo(n, said).clean = run.clean
           /\ MoveTo(n, said).halves = run.halves
           /\ MoveTo(n, said).apart = run.apart
           /\ MoveTo(n, said).plain = run.plain
           /\ MoveTo(n, said).would = run.would
<1>1. MoveTo(n, said) \in Run
  BY DEF MoveTo, Run
<1>2. MoveTo(n, said).pc = n /\ MoveTo(n, said).said = run.said \cup said
  BY DEF MoveTo, Run
<1>3. MoveTo(n, said).dry = run.dry /\ MoveTo(n, said).clean = run.clean
  BY DEF MoveTo, Run
<1>4. MoveTo(n, said).halves = run.halves /\ MoveTo(n, said).apart = run.apart
  BY DEF MoveTo, Run
<1>5. MoveTo(n, said).plain = run.plain /\ MoveTo(n, said).would = run.would
  BY DEF MoveTo, Run
<1> QED
  BY <1>1, <1>2, <1>3, <1>4, <1>5

\* A step that acts with an admissible result keeps the types.
LEMMA DoType ==
    ASSUME TypeInv, NEW s, NEW differs, NEW new, Do(s, differs, new),
           differs /\ ~run.dry => new \in Host,
           run.pc >= 12 /\ ~run.dry => host'.toml = repo.toml
    PROVE  TypeInv'
<1>1. run.pc \in 1..17 /\ s \in Steps
  BY Positions DEF Do
<1>2. run' = MoveTo(run.pc + 1, IF differs THEN {s} ELSE {})
  BY DEF Do, Onward, MoveTo
<1>3. run \in Run /\ host \in Host
  BY TypeIs DEF TypeInv
<1>4. run' \in Run /\ run'.pc = run.pc + 1 /\ run'.dry = run.dry
  BY <1>1, <1>2, <1>3, MoveIs
<1>5. host' \in Host
  BY <1>3 DEF Do
<1>6. TypeOK'
  BY <1>4, <1>5, TypeIs, TypeIsNext DEF TypeInv, Do
<1>7. HashIsThere'
  <2>1. repo' = repo /\ (run'.pc > 12 => run.pc >= 12)
    BY <1>1, <1>4 DEF Do
  <2> QED
    BY <1>4, <2>1 DEF HashIsThere
<1> QED
  BY <1>6, <1>7 DEF TypeInv

\* A step that jumps changes nothing.
LEMMA JumpType ==
    ASSUME TypeInv, NEW n \in {6, 12, 16}, NEW said \in SUBSET Steps,
           run' = MoveTo(n, said),
           UNCHANGED <<host, repo, faults, drifts>>,
           n = 16 => run.pc > 12, n # 16 => run.dry
    PROVE  TypeInv'
<1>1. run \in Run
  BY TypeIs DEF TypeInv
<1>2. run' \in Run /\ run'.pc = n /\ run'.dry = run.dry
  BY <1>1, MoveIs
<1>3. TypeOK'
  BY <1>2, TypeIs, TypeIsNext DEF TypeInv
<1>4. HashIsThere'
  <2>1. n > 12 => n = 16
    OBVIOUS
  <2> QED
    BY <1>2, <2>1 DEF HashIsThere, TypeInv
<1> QED
  BY <1>3, <1>4 DEF TypeInv

\* The results of the steps, and of what goes wrong.
LEMMA HostIs ==
    ASSUME host \in Host
    PROVE  /\ \A x \in Simple : [host EXCEPT !.present = @ \cup {x}] \in Host
           /\ \A s \in Subnets : [host EXCEPT !.gw = s] \in Host
           /\ \A k \in KeyPairs : [host EXCEPT !.key = k, !.pub = k] \in Host
           /\ \A k \in KeyPairs : [host EXCEPT !.key = k] \in Host
           /\ host.gw # None => [host EXCEPT !.auth = Entry] \in Host
           /\ [host EXCEPT !.known = host.gw] \in Host
           /\ \A v \in Versions : [host EXCEPT !.toml = v] \in Host
           /\ \A b \in BuildKit : [host EXCEPT !.bk = b] \in Host
           /\ [host EXCEPT !.allowed = @ \cup ({host.gw} \ {None})] \in Host
<1>1. \A x \in Simple : [host EXCEPT !.present = @ \cup {x}] \in Host
  BY DEF Host
<1>2. \A s \in Subnets : [host EXCEPT !.gw = s] \in Host
  BY DEF Host
<1>3. \A k \in KeyPairs : [host EXCEPT !.key = k, !.pub = k] \in Host
  BY DEF Host
<1>4. \A k \in KeyPairs : [host EXCEPT !.key = k] \in Host
  BY DEF Host
<1>5. ASSUME host.gw # None PROVE [host EXCEPT !.auth = Entry] \in Host
  BY <1>5 DEF Host, Entry
<1>6. [host EXCEPT !.known = host.gw] \in Host
  BY DEF Host
<1>7. \A v \in Versions : [host EXCEPT !.toml = v] \in Host
  BY DEF Host
<1>8. \A b \in BuildKit : [host EXCEPT !.bk = b] \in Host
  BY DEF Host
<1>9. [host EXCEPT !.allowed = @ \cup ({host.gw} \ {None})] \in Host
  BY DEF Host
<1> QED
  BY <1>1, <1>2, <1>3, <1>4, <1>5, <1>6, <1>7, <1>8, <1>9

LEMMA InitTypes == Init => TypeInv
<1> SUFFICES ASSUME Init PROVE TypeInv
  OBVIOUS
<1>1. host \in Host
  BY NoBuildKitType DEF Init, Fresh, Host
<1>2. repo \in [image: Versions, toml: Versions]
  BY DEF Init
<1> QED
  BY <1>1, <1>2, NoRunType, TypeIs, BootstrapAssumption DEF Init, TypeInv, HashIsThere

LEMMA NextTypes == TypeInv /\ [Next]_vars => TypeInv'
<1> SUFFICES ASSUME TypeInv, [Next]_vars PROVE TypeInv'
  OBVIOUS
<1>t. /\ host \in Host /\ run \in Run
      /\ repo \in [image: Versions, toml: Versions]
      /\ faults \in 0..MaxFaults /\ drifts \in 0..MaxDrifts
  BY TypeIs DEF TypeInv
<1>h. /\ host.key \in KeyPairs \cup {None} /\ host.pub \in KeyPairs \cup {None}
      /\ host.toml \in Versions \cup {None} /\ host.bk \in BuildKit
  BY <1>t DEF Host
<1>1. ASSUME NEW dry \in BOOLEAN, Start(dry) PROVE TypeInv'
  <2>1. run' \in Run /\ run'.pc = 1
    BY <1>1 DEF Start, Run, Ready, Halves, Apart, Plain
  <2> QED
    BY <1>1, <1>t, <2>1, TypeIsNext DEF Start, TypeInv, HashIsThere
<1>2. ASSUME NEW x \in Simple, Ensure(x) PROVE TypeInv'
  <2>1. run.pc >= 12 /\ ~run.dry => host'.toml = repo.toml
    <3>1. x \in {"packages", "docker", "swarm", "networks", "directories", "user", "sudoers", "unit"}
      BY DEF Simple
    <3>2. At(x)
      BY <1>2 DEF Ensure, Do
    <3>3. run.pc # 12
      BY <3>1, <3>2, Positions, OrderIs
    <3>4. host'.toml = host.toml
      BY <1>2, <1>t DEF Ensure, Do, Host
    <3> QED
      BY <3>3, <3>4, <1>t DEF TypeInv, HashIsThere, Run
  <2> QED
    BY <1>2, <1>t, <2>1, HostIs, DoType DEF Ensure
<1>3. ASSUME NEW s \in Subnets, CreateBridge(s) PROVE TypeInv'
  <2>1. ~(run.pc >= 12)
    BY <1>3, Positions DEF CreateBridge, Do
  <2> QED
    BY <1>3, <1>t, <2>1, HostIs, DoType DEF CreateBridge
<1>4. ASSUME NEW k \in KeyPairs, KeyGen(k) PROVE TypeInv'
  <2>1. ~(run.pc >= 12)
    BY <1>4, Positions DEF KeyGen, Do
  <2> QED
    BY <1>4, <1>t, <2>1, HostIs, DoType DEF KeyGen
<1>5. CASE SkipSwarm
  BY <1>5, Jumps, JumpType, OrderIs DEF SkipSwarm, DryWithoutDocker, Steps
<1>6. CASE NoPub
  BY <1>6, Jumps, JumpType, OrderIs DEF NoPub, Steps
<1>7. CASE NothingToAsk
  BY <1>7, <1>t, NoRunType, TypeIsNext DEF NothingToAsk, TypeInv, HashIsThere
<1>8. CASE WriteAuthorized
  <2>1. ~(run.pc >= 12)
    BY <1>8, Positions DEF WriteAuthorized, Do
  <2> QED
    BY <1>8, <1>t, <2>1, HostIs, DoType DEF WriteAuthorized
<1>9. CASE WriteKnown
  <2>1. ~(run.pc >= 12)
    BY <1>9, Positions DEF WriteKnown, Do
  <2> QED
    BY <1>9, <1>t, <2>1, HostIs, DoType DEF WriteKnown
<1>10. CASE WriteToml
  <2>1. repo.toml \in Versions
    BY <1>t
  <2>2. ~run.dry => host'.toml = repo.toml
    BY <1>10, <1>t DEF WriteToml, Do, Host
  <2> QED
    BY <1>10, <1>t, <2>1, <2>2, HostIs, DoType DEF WriteToml
<1>11. CASE BuildKitUpToDate
  BY <1>11, Jumps, JumpType, Positions DEF BuildKitUpToDate
<1>12. CASE RemoveBuildKit
  <2>1. run.pc = 13 /\ (~run.dry => host'.toml = repo.toml)
    BY <1>12, <1>t, Positions DEF RemoveBuildKit, Do, Host, TypeInv, HashIsThere
  <2> QED
    BY <1>12, <1>t, <2>1, NoBuildKitType, HostIs, DoType DEF RemoveBuildKit
<1>13. CASE RunBuildKit
  <2>1. run.pc = 14 /\ (~run.dry => host'.toml = repo.toml)
    BY <1>13, <1>t, Positions DEF RunBuildKit, Do, Host, TypeInv, HashIsThere
  <2>2. ~run.dry => [spec |-> Want, running |-> TRUE, joined |-> FALSE] \in BuildKit
    BY <1>13, <1>t, Positions DEF RunBuildKit, Do, Want, BuildKit, TypeInv, HashIsThere
  <2> QED
    BY <1>13, <1>t, <2>1, <2>2, HostIs, DoType DEF RunBuildKit
<1>14. CASE ConnectBuildKit
  <2>1. run.pc = 15 /\ (~run.dry => host'.toml = repo.toml)
    BY <1>14, <1>t, Positions DEF ConnectBuildKit, Do, Host, TypeInv, HashIsThere
  <2>2. [host EXCEPT !.bk.joined = TRUE] \in Host
    BY <1>t DEF Host, BuildKit
  <2> QED
    BY <1>14, <2>1, <2>2, DoType DEF ConnectBuildKit
<1>15. CASE AllowGateway
  <2>1. run.pc = 16 /\ (~run.dry => host'.toml = repo.toml)
    BY <1>15, <1>t, Positions DEF AllowGateway, Do, Host, TypeInv, HashIsThere
  <2> QED
    BY <1>15, <1>t, <2>1, HostIs, DoType DEF AllowGateway
<1>16. CASE Finish
  BY <1>16, <1>t, NoRunType, TypeIsNext DEF Finish, TypeInv, HashIsThere
<1>17. CASE Interrupted
  <2>1. host' \in Host
    <3>1. CASE At("run") /\ ~run.dry
      <4>1. host.toml = repo.toml
        BY <3>1, Positions DEF TypeInv, HashIsThere
      <4>2. [spec |-> Want, running |-> FALSE, joined |-> FALSE] \in BuildKit
        BY <1>t, <4>1 DEF Want, BuildKit
      <4> QED
        BY <1>17, <1>t, <4>2, HostIs DEF Interrupted
    <3>2. CASE ~(At("run") /\ ~run.dry)
      BY <1>17, <1>t, <3>2, HostIs DEF Interrupted
    <3> QED
      BY <3>1, <3>2
  <2>2. faults' \in 0..MaxFaults
    BY <1>17, <1>t, BootstrapAssumption DEF Interrupted
  <2> QED
    BY <1>17, <1>t, <2>1, <2>2, NoRunType, TypeIsNext DEF Interrupted, TypeInv, HashIsThere
<1>18. CASE Pull
  <2>1. repo' \in [image: Versions, toml: Versions]
    BY <1>18, <1>t DEF Pull
  <2>2. drifts' \in 0..MaxDrifts
    BY <1>18, <1>t, BootstrapAssumption DEF Pull, Drift
  <2> QED
    BY <1>18, <1>t, <2>1, <2>2, NoRunType, TypeIsNext DEF Pull, Drift, TypeInv, HashIsThere
<1>19. CASE Lose
  <2>1. host' \in Host
    <3> USE <1>t DEF Host, BuildKit
    <3>1. CASE \E x \in Simple : host' = [host EXCEPT !.present = @ \ {x}]
      BY <3>1
    <3>2. CASE \E gone \in SUBSET Simple :
                 host' = [host EXCEPT !.present = @ \ gone, !.bk.joined = FALSE]
      <4>1. ASSUME NEW gone \in SUBSET Simple
            PROVE  [host EXCEPT !.present = @ \ gone, !.bk.joined = FALSE] \in Host
        OBVIOUS
      <4> QED
        BY <3>2, <4>1
    <3>3. CASE \E s \in Subnets \cup {None} : host' = [host EXCEPT !.gw = s]
      BY <3>3
    <3>4. CASE \/ host' = [host EXCEPT !.key = None]
               \/ host' = [host EXCEPT !.key = None, !.pub = None]
               \/ host' = [host EXCEPT !.pub = None]
      BY <3>4
    <3>5. CASE \/ host' = [host EXCEPT !.auth = None]
               \/ host' = [host EXCEPT !.known = None]
               \/ host' = [host EXCEPT !.toml = None]
               \/ host' = [host EXCEPT !.allowed = {}]
      BY <3>5
    <3>6. CASE host' = [host EXCEPT !.bk = NoBuildKit]
      BY <3>6, NoBuildKitType
    <3>7. CASE \/ host' = [host EXCEPT !.bk.running = FALSE]
               \/ host' = [host EXCEPT !.bk.joined = FALSE]
      <4>1. [host EXCEPT !.bk.running = FALSE] \in Host
        OBVIOUS
      <4>2. [host EXCEPT !.bk.joined = FALSE] \in Host
        OBVIOUS
      <4> QED
        BY <3>7, <4>1, <4>2
    <3>8. {"networks"} \in SUBSET Simple /\ {"networks", "swarm"} \in SUBSET Simple
      BY DEF Simple
    <3> QED
      BY <1>19, <3>1, <3>2, <3>3, <3>4, <3>5, <3>6, <3>7, <3>8 DEF Lose
  <2>2. drifts' \in 0..MaxDrifts
    BY <1>19, <1>t, BootstrapAssumption DEF Lose, Drift
  <2> QED
    BY <1>19, <1>t, <2>1, <2>2, NoRunType, TypeIsNext DEF Lose, Drift, TypeInv, HashIsThere
<1>20. CASE UNCHANGED vars
  BY <1>20, <1>t, TypeIsNext DEF vars, TypeInv, HashIsThere
<1> QED
  BY <1>1, <1>2, <1>3, <1>4, <1>5, <1>6, <1>7, <1>8, <1>9, <1>10, <1>11, <1>12,
     <1>13, <1>14, <1>15, <1>16, <1>17, <1>18, <1>19, <1>20 DEF Next, RunStep

(***************************************************************************)
(* A run that may act.  What it has passed is in place, as no later step   *)
(* disturbs it, and what its checks cannot see stays right until the step  *)
(* that relies on it.                                                      *)
(***************************************************************************)

Passed(t) == \E i \in 1..17 : i < run.pc /\ t = Order[i]

\* What a run may leave because it was so when the run began.
Excused(t) ==
    \/ run.halves /\ t \in {"keygen", "authorized"}
    \/ run.apart /\ t = "connect"

RealRun ==
    run.pc # 0 /\ ~run.dry =>
        /\ \A t \in Steps : Passed(t) /\ Drifted(t) => Excused(t)
        /\ run.pc <= 9 /\ ~run.halves => host.key = None \/ host.pub = host.key
        /\ run.pc <= 13 /\ ~run.apart => Drifted("run") \/ host.bk.joined

\* A run that found everything in place.
CleanRun == run.pc # 0 /\ run.clean => Ready /\ (~run.dry => run.pc \notin {14, 15})

\* A run, real or dry, has said what stood to be done of what it has passed,
\* and the rest stands to be done as it did when the run began.
SaysWould ==
    run.pc # 0 /\ run.plain =>
        /\ Plain
        /\ \A t \in run.said : Passed(t)
        /\ \A t \in Steps : Passed(t) => (t \in run.said <=> t \in run.would)
        /\ \A t \in Steps \ {"connect"} : ~Passed(t) => (t \in run.would <=> WouldAct(t))
        /\ run.pc <= 13 => ("connect" \in run.would <=> Drifted("run"))
        /\ run.pc = 14 => Drifted("run")
        /\ run.pc \in {14, 15} => "connect" \in run.would

Inv == TypeInv /\ RealRun /\ CleanRun /\ SaysWould

LEMMA DoIs ==
    ASSUME TypeInv, NEW s, NEW differs, NEW new, Do(s, differs, new)
    PROVE  /\ run.pc \in 1..17 /\ s = Order[run.pc] /\ s \in Steps
           /\ run'.pc = run.pc + 1
           /\ run'.said = run.said \cup (IF differs THEN {s} ELSE {})
           /\ run'.dry = run.dry /\ run'.clean = run.clean
           /\ run'.halves = run.halves /\ run'.apart = run.apart
           /\ run'.plain = run.plain /\ run'.would = run.would
           /\ repo' = repo
           /\ ~(differs /\ ~run.dry) => host' = host
           /\ differs /\ ~run.dry => host' = new
<1>1. run.pc \in 1..17 /\ s = Order[run.pc] /\ s \in Steps
  BY Positions DEF Do
<1>2. run' = MoveTo(run.pc + 1, IF differs THEN {s} ELSE {})
  BY DEF Do, Onward, MoveTo
<1>3. run \in Run
  BY TypeIs DEF TypeInv
<1>4. run.pc + 1 \in 0..18 /\ (IF differs THEN {s} ELSE {}) \in SUBSET Steps
  BY <1>1
<1>5. /\ run'.pc = run.pc + 1
      /\ run'.said = run.said \cup (IF differs THEN {s} ELSE {})
      /\ run'.dry = run.dry /\ run'.clean = run.clean
      /\ run'.halves = run.halves /\ run'.apart = run.apart
      /\ run'.plain = run.plain /\ run'.would = run.would
  BY <1>2, <1>3, <1>4, MoveIs
<1>6. /\ repo' = repo
      /\ ~(differs /\ ~run.dry) => host' = host
      /\ differs /\ ~run.dry => host' = new
  BY DEF Do
<1> QED
  BY <1>1, <1>5, <1>6

\* The next step has passed what this one has, and itself.
LEMMA DoPasses ==
    ASSUME TypeInv, NEW s, NEW differs, NEW new, Do(s, differs, new)
    PROVE  \A t \in Steps : Passed(t)' <=> (Passed(t) \/ t = s)
BY DoIs, OrderIs, Distinct DEF Passed

LEMMA Unchanged ==
    ASSUME host' = host, repo' = repo
    PROVE  /\ \A t : Drifted(t)' <=> Drifted(t)
           /\ Ready' <=> Ready
           /\ Plain' <=> Plain
           /\ \A t : WouldAct(t)' <=> WouldAct(t)
           /\ UpToDate' <=> UpToDate
BY DEF Drifted, Ready, Plain, WouldAct, UpToDate, Want

\* A step keeps RealRun if it puts its own part in place, or is excused, and
\* none of the parts before it out of place.
LEMMA DoReal ==
    ASSUME TypeInv, RealRun, NEW s, NEW differs, NEW new, Do(s, differs, new),
           ~run.dry =>
              /\ Excused(s) \/ ~Drifted(s)'
              /\ \A t \in Steps : Passed(t) /\ ~Drifted(t) => ~Drifted(t)'
              /\ run'.pc <= 9 => host'.key = host.key /\ host'.pub = host.pub
              /\ run'.pc <= 13 => (Drifted("run")' <=> Drifted("run")) /\ host'.bk = host.bk
    PROVE  RealRun'
<1>i. /\ run.pc \in 1..17 /\ run'.pc = run.pc + 1
      /\ run'.dry = run.dry /\ run'.halves = run.halves /\ run'.apart = run.apart
  BY DoIs, Zenon
<1>e. \A t : Excused(t)' <=> Excused(t)
  BY <1>i, Zenon DEF Excused
<1> SUFFICES ASSUME ~run.dry
             PROVE  /\ \A t \in Steps : Passed(t)' /\ Drifted(t)' => Excused(t)'
                    /\ run'.pc <= 9 /\ ~run'.halves => host'.key = None \/ host'.pub = host'.key
                    /\ run'.pc <= 13 /\ ~run'.apart => Drifted("run")' \/ host'.bk.joined
  BY <1>i, Zenon DEF RealRun
<1>0. run.pc # 0
  BY <1>i
<1>1. /\ \A t \in Steps : Passed(t) /\ Drifted(t) => Excused(t)
      /\ run.pc <= 9 /\ ~run.halves => host.key = None \/ host.pub = host.key
      /\ run.pc <= 13 /\ ~run.apart => Drifted("run") \/ host.bk.joined
  BY <1>0, Zenon DEF RealRun
<1>2. ASSUME NEW t \in Steps, Passed(t)', Drifted(t)' PROVE Excused(t)'
  <2>1. Passed(t) \/ t = s
    BY <1>2, DoPasses, Zenon
  <2> QED
    BY <1>1, <1>2, <1>e, <2>1, Zenon
<1>3. (run'.pc <= 9 => run.pc <= 9) /\ (run'.pc <= 13 => run.pc <= 13)
  BY <1>i
<1>4. run'.pc <= 9 /\ ~run'.halves => host'.key = None \/ host'.pub = host'.key
  BY <1>1, <1>3, <1>i, Zenon
<1>5. run'.pc <= 13 /\ ~run'.apart => Drifted("run")' \/ host'.bk.joined
  BY <1>1, <1>3, <1>i, Zenon
<1> QED
  BY <1>2, <1>4, <1>5, Zenon

\* Each step of RunStep that acts keeps RealRun.
LEMMA RealSteps ==
    ASSUME TypeInv, RealRun, RunStep
    PROVE  RealRun'
<1>t. /\ host \in Host /\ run \in Run
      /\ repo \in [image: Versions, toml: Versions]
  BY TypeIs DEF TypeInv
<1>h. host.bk \in BuildKit
  BY <1>t DEF Host
<1>p. \A n \in 1..17 : run.pc = n => \A t \in Steps : Passed(t) => \E i \in 1..17 : i < n /\ t = Order[i]
  BY DEF Passed
<1>2. ASSUME NEW x \in Simple, Ensure(x) PROVE RealRun'
  <2>1. /\ Do(x, x \notin host.present, [host EXCEPT !.present = @ \cup {x}])
    BY <1>2 DEF Ensure
  <2>2. ~run.dry => /\ host'.present = host.present \cup {x}
                    /\ host'.gw = host.gw /\ host'.key = host.key /\ host'.pub = host.pub
                    /\ host'.auth = host.auth /\ host'.known = host.known
                    /\ host'.toml = host.toml /\ host'.bk = host.bk
                    /\ host'.allowed = host.allowed
    <3>1. CASE x \in host.present /\ ~run.dry
      <4>1. host' = host
        BY <2>1, <3>1, DoIs
      <4> QED
        BY <3>1, <4>1
    <3>2. CASE x \notin host.present /\ ~run.dry
      <4>1. host' = [host EXCEPT !.present = @ \cup {x}]
        BY <2>1, <3>2, DoIs
      <4> QED
        BY <1>t, <4>1 DEF Host
    <3> QED
      BY <3>1, <3>2
  <2>3. repo' = repo
    BY <2>1, DoIs
  <2>4. ~run.dry => ~Drifted(x)' /\ \A t : ~Drifted(t) => ~Drifted(t)'
    <3>1. x \notin {"gwbridge", "keygen", "authorized", "known", "toml", "run", "connect", "ufw"}
      BY DEF Simple
    <3> QED
      BY <2>2, <2>3, <3>1 DEF Drifted
  <2>5. ~run.dry => (Drifted("run")' <=> Drifted("run"))
    BY <2>2, <2>3 DEF Drifted, Simple
  <2> QED
    BY <2>1, <2>2, <2>4, <2>5, DoReal
<1>3. ASSUME NEW s \in Subnets, CreateBridge(s) PROVE RealRun'
  <2>1. Do("gwbridge", host.gw = None, [host EXCEPT !.gw = s]) /\ run.pc = 3
    BY <1>3, Positions DEF CreateBridge, Do
  <2>2. ~run.dry => /\ host'.present = host.present /\ host'.gw # None
                    /\ host'.key = host.key /\ host'.pub = host.pub
                    /\ host'.toml = host.toml /\ host'.bk = host.bk
    <3>1. CASE host.gw # None /\ ~run.dry
      <4>1. host' = host
        BY <2>1, <3>1, DoIs
      <4> QED
        BY <3>1, <4>1
    <3>2. CASE host.gw = None /\ ~run.dry
      <4>1. host' = [host EXCEPT !.gw = s]
        BY <2>1, <3>2, DoIs
      <4> QED
        BY <1>t, <4>1, BootstrapAssumption DEF Host
    <3> QED
      BY <3>1, <3>2
  <2>3. repo' = repo
    BY <2>1, DoIs
  <2>4. ~run.dry => ~Drifted("gwbridge")'
    BY <2>2 DEF Drifted, Simple
  <2>5. \A t \in Steps : Passed(t) => t \in {"packages", "docker"}
    BY <2>1, <1>p, OrderIs
  <2>6. ~run.dry => \A t \in Steps : Passed(t) /\ ~Drifted(t) => ~Drifted(t)'
    BY <2>2, <2>5 DEF Drifted
  <2>7. ~run.dry => (Drifted("run")' <=> Drifted("run"))
    BY <2>2, <2>3 DEF Drifted, Simple
  <2> QED
    BY <2>1, <2>2, <2>4, <2>6, <2>7, DoReal
<1>4. ASSUME NEW k \in KeyPairs, KeyGen(k) PROVE RealRun'
  <2>1. Do("keygen", host.key = None, [host EXCEPT !.key = k, !.pub = k]) /\ run.pc = 9
    BY <1>4, Positions DEF KeyGen, Do
  <2>2. ~run.dry => /\ host' = host \/ (host'.key = k /\ host'.pub = k)
                    /\ host'.present = host.present /\ host'.gw = host.gw
                    /\ host'.bk = host.bk
    BY <2>1, <1>t DEF Do, Host
  <2>3. repo' = repo /\ run'.pc = 10
    BY <2>1, DoIs
  <2>4. ~run.dry => Excused("keygen") \/ ~Drifted("keygen")'
    <3>1. CASE host.key = None /\ ~run.dry
      <4>1. host'.key = k /\ host'.pub = k
        BY <2>1, <3>1, <1>t DEF Do, Host
      <4> QED
        BY <4>1, BootstrapAssumption DEF Drifted, Simple
    <3>2. CASE host.key # None /\ ~run.dry /\ ~run.halves
      <4>1. host' = host /\ host.pub = host.key
        BY <2>1, <3>2 DEF Do, RealRun
      <4> QED
        BY <3>2, <4>1 DEF Drifted, Simple
    <3>3. run.halves => Excused("keygen")
      BY Zenon DEF Excused
    <3> QED
      BY <3>1, <3>2, <3>3, Zenon
  <2>5. \A t \in Steps : Passed(t) => t \in {"packages", "docker", "gwbridge", "swarm",
                                            "networks", "directories", "user", "sudoers"}
    BY <2>1, <1>p, OrderIs
  <2>6. ~run.dry => \A t \in Steps : Passed(t) /\ ~Drifted(t) => ~Drifted(t)'
    BY <2>2, <2>5 DEF Drifted
  <2>7. ~run.dry => (Drifted("run")' <=> Drifted("run"))
    BY <2>2, <2>3 DEF Drifted, Simple
  <2> QED
    BY <2>1, <2>2, <2>3, <2>4, <2>6, <2>7, DoReal
<1>5. CASE WriteAuthorized
  <2>1. /\ Do("authorized", host.auth # Entry, [host EXCEPT !.auth = Entry]) /\ run.pc = 10
        /\ host.gw # None
    BY <1>5, Positions DEF WriteAuthorized, Do
  <2>2. ~run.dry => /\ host'.auth = <<host.gw, host.pub>>
                    /\ host'.present = host.present /\ host'.gw = host.gw
                    /\ host'.key = host.key /\ host'.pub = host.pub
                    /\ host'.bk = host.bk
    BY <2>1, <1>t DEF Do, Host, Entry
  <2>3. repo' = repo /\ run'.pc = 11
    BY <2>1, DoIs
  <2>4. ~run.dry => Excused("authorized") \/ ~Drifted("authorized")'
    <3>1. "keygen" \in Steps /\ Passed("keygen")
      BY <2>1, OrderIs DEF Passed, Steps
    <3>2. ~run.dry /\ ~run.halves => ~Drifted("keygen")
      BY <2>1, <3>1 DEF RealRun, Excused
    <3>3. ~run.dry /\ ~run.halves => host.pub = host.key
      BY <3>2 DEF Drifted
    <3>4. ~run.dry /\ ~run.halves => ~Drifted("authorized")'
      BY <2>2, <3>3 DEF Drifted, Simple
    <3>5. run.halves => Excused("authorized")
      BY Zenon DEF Excused
    <3> QED
      BY <3>4, <3>5, Zenon
  <2>5. \A t \in Steps : Passed(t) => t \notin {"authorized", "known", "toml", "ufw"}
    BY <2>1, <1>p, OrderIs
  <2>6. ~run.dry => \A t \in Steps : Passed(t) /\ ~Drifted(t) => ~Drifted(t)'
    BY <2>2, <2>3, <2>5 DEF Drifted
  <2>7. ~run.dry => (Drifted("run")' <=> Drifted("run"))
    BY <2>2, <2>3 DEF Drifted, Simple
  <2> QED
    BY <2>1, <2>2, <2>3, <2>4, <2>6, <2>7, DoReal
<1>6. CASE WriteKnown
  <2>1. Do("known", host.known # host.gw, [host EXCEPT !.known = host.gw]) /\ run.pc = 11
    BY <1>6, Positions DEF WriteKnown, Do
  <2>2. ~run.dry => /\ host'.known = host.gw /\ host'.auth = host.auth
                    /\ host'.present = host.present /\ host'.gw = host.gw
                    /\ host'.key = host.key /\ host'.pub = host.pub
                    /\ host'.bk = host.bk
    BY <2>1, <1>t DEF Do, Host
  <2>3. repo' = repo /\ run'.pc = 12
    BY <2>1, DoIs
  <2>4. ~run.dry => ~Drifted("known")'
    BY <2>2 DEF Drifted, Simple
  <2>5. \A t \in Steps : Passed(t) => t \notin {"known", "toml", "ufw"}
    BY <2>1, <1>p, OrderIs
  <2>6. ~run.dry => \A t \in Steps : Passed(t) /\ ~Drifted(t) => ~Drifted(t)'
    BY <2>2, <2>3, <2>5 DEF Drifted
  <2>7. ~run.dry => (Drifted("run")' <=> Drifted("run"))
    BY <2>2, <2>3 DEF Drifted, Simple
  <2> QED
    BY <2>1, <2>2, <2>3, <2>4, <2>6, <2>7, DoReal
<1>7. CASE WriteToml
  <2>1. Do("toml", host.toml # repo.toml, [host EXCEPT !.toml = repo.toml]) /\ run.pc = 12
    BY <1>7, Positions DEF WriteToml, Do
  <2>2. ~run.dry => /\ host'.toml = repo.toml
                    /\ host'.known = host.known /\ host'.auth = host.auth
                    /\ host'.present = host.present /\ host'.gw = host.gw
                    /\ host'.key = host.key /\ host'.pub = host.pub
                    /\ host'.bk = host.bk /\ host'.allowed = host.allowed
    BY <2>1, <1>t DEF Do, Host
  <2>3. repo' = repo /\ run'.pc = 13
    BY <2>1, DoIs
  <2>4. ~run.dry => ~Drifted("toml")'
    BY <2>2, <2>3 DEF Drifted, Simple
  <2>6. ~run.dry => \A t \in Steps : Passed(t) /\ ~Drifted(t) => ~Drifted(t)'
    BY <2>2, <2>3 DEF Drifted
  <2>7. ~run.dry => (Drifted("run")' <=> Drifted("run"))
    BY <2>2, <2>3 DEF Drifted, Simple
  <2> QED
    BY <2>1, <2>2, <2>3, <2>4, <2>6, <2>7, DoReal
<1>8. CASE BuildKitUpToDate
  <2>1. run.pc = 13 /\ UpToDate /\ host' = host /\ repo' = repo
    BY <1>8, Positions DEF BuildKitUpToDate
  <2>2. /\ run'.pc = 16 /\ run'.dry = run.dry
        /\ run'.halves = run.halves /\ run'.apart = run.apart
    <3>1. run' = MoveTo(16, {}) /\ 16 \in 0..18 /\ {} \in SUBSET Steps
      BY <1>8, Jumps DEF BuildKitUpToDate
    <3> QED
      BY <1>t, <3>1, MoveIs, Zenon
  <2>3. ASSUME ~run.dry, NEW t \in Steps, Passed(t)', Drifted(t) PROVE Excused(t)
    <3>1. "toml" \in Steps /\ Passed("toml") /\ ~Excused("toml")
      BY <2>1, OrderIs DEF Passed, Steps, Excused
    <3>2. host.toml = repo.toml
      BY <2>1, <2>3, <3>1 DEF RealRun, Drifted
    <3>3. ~Drifted("run")
      BY <2>1, <3>2 DEF UpToDate, Want, Drifted, Simple
    <3>4. Drifted("connect") => Excused("connect")
      BY <2>1, <2>3, <3>3 DEF RealRun, Drifted, Simple, Excused
    <3>5. ~Drifted("buildkit")
      BY DEF Drifted, Simple
    <3>6. Passed(t) \/ t \in {"buildkit", "run", "connect"}
      <4>1. PICK i \in 1..17 : i < 16 /\ t = Order[i]
        BY <2>2, <2>3 DEF Passed
      <4>2. i < 13 \/ i = 13 \/ i = 14 \/ i = 15
        BY <4>1
      <4> QED
        BY <2>1, <4>1, <4>2, OrderIs DEF Passed
    <3> QED
      BY <2>1, <2>3, <3>3, <3>4, <3>5, <3>6 DEF RealRun
  <2>4. \A t : Excused(t)' <=> Excused(t)
    BY <2>2, Zenon DEF Excused
  <2>5. ~(run'.pc <= 9) /\ ~(run'.pc <= 13)
    BY <2>2
  <2>6. \A t : Drifted(t)' <=> Drifted(t)
    BY <2>1, Unchanged
  <2> QED
    BY <2>2, <2>3, <2>4, <2>5, <2>6, Zenon DEF RealRun
<1>9. CASE RemoveBuildKit
  <2>1. Do("buildkit", host.bk # NoBuildKit, [host EXCEPT !.bk = NoBuildKit]) /\ run.pc = 13
    BY <1>9, Positions DEF RemoveBuildKit, Do
  <2>2. ~run.dry => /\ host'.toml = host.toml
                    /\ host'.known = host.known /\ host'.auth = host.auth
                    /\ host'.present = host.present /\ host'.gw = host.gw
                    /\ host'.key = host.key /\ host'.pub = host.pub
                    /\ host'.allowed = host.allowed
    BY <2>1, <1>t DEF Do, Host
  <2>3. repo' = repo /\ run'.pc = 14
    BY <2>1, DoIs
  <2>4. ~Drifted("buildkit")'
    BY DEF Drifted, Simple
  <2>5. \A t \in Steps : Passed(t) => t \notin {"run", "connect"}
    BY <2>1, <1>p, OrderIs
  <2>6. ~run.dry => \A t \in Steps : Passed(t) /\ ~Drifted(t) => ~Drifted(t)'
    BY <2>2, <2>3, <2>5 DEF Drifted
  <2> QED
    BY <2>1, <2>3, <2>4, <2>6, DoReal
<1>10. CASE RunBuildKit
  <2>1. /\ Do("run", TRUE, [host EXCEPT !.bk = [spec |-> Want, running |-> TRUE, joined |-> FALSE]])
        /\ run.pc = 14
    BY <1>10, Positions DEF RunBuildKit, Do
  <2>2. ~run.dry => /\ host'.bk = [spec |-> Want, running |-> TRUE, joined |-> FALSE]
                    /\ host'.toml = host.toml
                    /\ host'.known = host.known /\ host'.auth = host.auth
                    /\ host'.present = host.present /\ host'.gw = host.gw
                    /\ host'.key = host.key /\ host'.pub = host.pub
                    /\ host'.allowed = host.allowed
    BY <2>1, <1>t DEF Do, Host
  <2>3. repo' = repo /\ run'.pc = 15
    <3>1. run' = MoveTo(15, {"run"}) /\ repo' = repo /\ "run" \in Steps
      BY <2>1, Positions DEF Do, Onward, MoveTo
    <3> QED
      BY <1>t, <3>1, MoveIs
  <2>4. ~run.dry => ~Drifted("run")'
    BY <2>1, <2>2, <2>3 DEF Drifted, Simple, Want, TypeInv, HashIsThere
  <2>5. \A t \in Steps : Passed(t) => t \notin {"run", "connect"}
    BY <2>1, <1>p, OrderIs
  <2>6. ~run.dry => \A t \in Steps : Passed(t) /\ ~Drifted(t) => ~Drifted(t)'
    BY <2>2, <2>3, <2>5 DEF Drifted
  <2>7. ~(run'.pc <= 9) /\ ~(run'.pc <= 13)
    BY <2>3
  <2> QED
    BY <2>1, <2>4, <2>6, <2>7, DoReal, Zenon
<1>11. CASE ConnectBuildKit
  <2>1. Do("connect", TRUE, [host EXCEPT !.bk.joined = TRUE]) /\ run.pc = 15
    BY <1>11, Positions DEF ConnectBuildKit, Do
  <2>2. ~run.dry => /\ host'.bk.joined /\ host'.bk.spec = host.bk.spec
                    /\ host'.bk.running = host.bk.running
                    /\ host'.toml = host.toml
                    /\ host'.known = host.known /\ host'.auth = host.auth
                    /\ host'.present = host.present /\ host'.gw = host.gw
                    /\ host'.key = host.key /\ host'.pub = host.pub
                    /\ host'.allowed = host.allowed
    BY <2>1, <1>t, <1>h DEF Do, Host, BuildKit
  <2>3. repo' = repo /\ run'.pc = 16
    <3>1. run' = MoveTo(16, {"connect"}) /\ repo' = repo /\ "connect" \in Steps
      BY <2>1, Positions DEF Do, Onward, MoveTo
    <3> QED
      BY <1>t, <3>1, MoveIs
  <2>4. ~run.dry => ~Drifted("connect")'
    BY <2>2 DEF Drifted, Simple
  <2>6. ~run.dry => \A t \in Steps : Passed(t) /\ ~Drifted(t) => ~Drifted(t)'
    BY <2>2, <2>3 DEF Drifted
  <2>7. ~(run'.pc <= 9) /\ ~(run'.pc <= 13)
    BY <2>3
  <2> QED
    BY <2>1, <2>4, <2>6, <2>7, DoReal, Zenon
<1>12. CASE AllowGateway
  <2>1. /\ Do("ufw", TRUE, [host EXCEPT !.allowed = @ \cup ({host.gw} \ {None})])
        /\ run.pc = 16
    BY <1>12, Positions DEF AllowGateway, Do
  <2>2. ~run.dry => /\ host.gw # None => host.gw \in host'.allowed
                    /\ host.allowed \subseteq host'.allowed
                    /\ host'.toml = host.toml
                    /\ host'.known = host.known /\ host'.auth = host.auth
                    /\ host'.present = host.present /\ host'.gw = host.gw
                    /\ host'.key = host.key /\ host'.pub = host.pub
                    /\ host'.bk = host.bk
    BY <2>1, <1>t DEF Do, Host
  <2>3. repo' = repo /\ run'.pc = 17
    <3>1. run' = MoveTo(17, {"ufw"}) /\ repo' = repo /\ "ufw" \in Steps
      BY <2>1, Positions DEF Do, Onward, MoveTo
    <3> QED
      BY <1>t, <3>1, MoveIs
  <2>4. ~run.dry => ~Drifted("ufw")'
    <3>1. "gwbridge" \in Steps /\ Passed("gwbridge") /\ ~Excused("gwbridge")
      BY <2>1, OrderIs DEF Passed, Steps, Excused
    <3>2. ~run.dry => host.gw # None
      BY <2>1, <3>1 DEF RealRun, Drifted
    <3> QED
      BY <2>2, <3>2 DEF Drifted, Simple
  <2>6. ~run.dry => \A t \in Steps : Passed(t) /\ ~Drifted(t) => ~Drifted(t)'
    BY <2>2, <2>3 DEF Drifted
  <2>7. ~(run'.pc <= 9) /\ ~(run'.pc <= 13)
    BY <2>3
  <2> QED
    BY <2>1, <2>4, <2>6, <2>7, DoReal, Zenon
<1>13. CASE SkipSwarm \/ NoPub
  <2>1. run.dry /\ run'.dry = run.dry
    BY <1>13, <1>t, Jumps, MoveIs, OrderIs
       DEF SkipSwarm, NoPub, DryWithoutDocker, Steps
  <2> QED
    BY <2>1 DEF RealRun
<1>14. CASE NothingToAsk \/ Finish \/ Interrupted
  BY <1>14, NoRunType DEF NothingToAsk, Finish, Interrupted, RealRun
<1> QED
  BY <1>2, <1>3, <1>4, <1>5, <1>6, <1>7, <1>8, <1>9, <1>10, <1>11, <1>12, <1>13, <1>14
     DEF RunStep

(***************************************************************************)
(* A run that must not act: a dry one, or one with nothing to do.          *)
(***************************************************************************)

\* No step that could change the host is taken.
LEMMA Idempotent ==
    ASSUME TypeInv, CleanRun, RunStep, run.pc # 0, run.dry \/ run.clean
    PROVE  host' = host /\ repo' = repo
<1>1. CASE run.dry
  BY <1>1 DEF RunStep, Ensure, CreateBridge, KeyGen, SkipSwarm, NoPub, NothingToAsk,
       WriteAuthorized, WriteKnown, WriteToml, BuildKitUpToDate, RemoveBuildKit,
       RunBuildKit, ConnectBuildKit, AllowGateway, Finish, Interrupted, Do
<1>2. CASE run.clean /\ ~run.dry
  <2>1. /\ \A x \in Simple : x \in host.present
        /\ host.gw # None /\ host.key # None /\ host.pub = host.key
        /\ host.auth = Entry /\ host.known = host.gw /\ host.toml = repo.toml
        /\ host.bk.spec = Want /\ host.bk.running
        /\ host.gw \in host.allowed
    <3>1. \A t \in Steps : ~Drifted(t)
      BY <1>2 DEF CleanRun, Ready
    <3>2. Simple \subseteq Steps /\ {"gwbridge", "keygen", "authorized", "known", "toml", "run", "ufw"} \subseteq Steps
      BY OrderIs DEF Simple, Steps
    <3>3. \A x \in Simple : x \in host.present
      BY <3>1, <3>2 DEF Drifted
    <3>4. host.gw # None /\ host.key # None /\ host.pub = host.key
      BY <3>1, <3>2 DEF Drifted
    <3>5. host.auth = Entry /\ host.known = host.gw /\ host.toml = repo.toml
      BY <3>1, <3>2, <3>4 DEF Drifted, Entry
    <3>6. host.bk.spec = Want /\ host.bk.running /\ host.gw \in host.allowed
      BY <3>1, <3>2, <3>5 DEF Drifted, Want
    <3> QED
      BY <3>3, <3>4, <3>5, <3>6
  <2>2. ~At("run") /\ ~At("connect")
    BY <1>2, Positions DEF CleanRun
  <2>3. UpToDate
    BY <2>1 DEF UpToDate
  <2>4. repo' = repo
    BY DEF RunStep, Ensure, CreateBridge, KeyGen, SkipSwarm, NoPub, NothingToAsk,
       WriteAuthorized, WriteKnown, WriteToml, BuildKitUpToDate, RemoveBuildKit,
       RunBuildKit, ConnectBuildKit, AllowGateway, Finish, Interrupted, Do
  <2>5. [host EXCEPT !.allowed = @ \cup ({host.gw} \ {None})] = host
    <3>1. host \in Host
      BY TypeIs DEF TypeInv
    <3>2. host.allowed \cup ({host.gw} \ {None}) = host.allowed
      BY <2>1
    <3> QED
      BY <3>1, <3>2 DEF Host
  <2>6. host' = host
    BY <2>1, <2>2, <2>3, <2>5
       DEF RunStep, Ensure, CreateBridge, KeyGen, SkipSwarm, NoPub, NothingToAsk,
       WriteAuthorized, WriteKnown, WriteToml, BuildKitUpToDate, RemoveBuildKit,
       RunBuildKit, ConnectBuildKit, AllowGateway, Finish, Interrupted, Do
  <2> QED
    BY <2>4, <2>6
<1> QED
  BY <1>1, <1>2

\* Where a step leads: on, past something, or out.
LEMMA Moves ==
    ASSUME TypeInv, RunStep
    PROVE  \/ run'.pc = 0
           \/ /\ run'.clean = run.clean /\ run'.dry = run.dry /\ run'.plain = run.plain
              /\ run.pc # 0
              /\ \/ run'.pc = run.pc + 1 /\ (run.pc = 13 => ~UpToDate)
                 \/ run.dry /\ run'.pc \in {6, 12}
                 \/ run'.pc = 16
<1>t. run \in Run
  BY TypeIs DEF TypeInv
<1>1. ASSUME NEW s \in Steps, At(s), NEW said \in SUBSET Steps, run' = Onward(said),
             s = "buildkit" => ~UpToDate
      PROVE  /\ run'.clean = run.clean /\ run'.dry = run.dry /\ run'.plain = run.plain
             /\ run.pc # 0
             /\ run'.pc = run.pc + 1 /\ (run.pc = 13 => ~UpToDate)
  <2>1. run.pc \in 1..17 /\ (run.pc = 13 => s = "buildkit")
    BY <1>1, Positions, OrderIs
  <2>2. run' = MoveTo(run.pc + 1, said)
    BY <1>1 DEF Onward, MoveTo
  <2> QED
    BY <1>1, <1>t, <2>1, <2>2, MoveIs
<1>2. CASE SkipSwarm \/ NoPub \/ BuildKitUpToDate
  <2>1. {"swarm", "networks"} \in SUBSET Steps /\ {"authorized", "known"} \in SUBSET Steps
    BY OrderIs DEF Steps
  <2>2. run.pc # 0
    BY <1>2, Positions DEF SkipSwarm, NoPub, BuildKitUpToDate
  <2>3. PICK said \in SUBSET Steps : \/ run.dry /\ run' = MoveTo(6, said)
                                     \/ run.dry /\ run' = MoveTo(12, said)
                                     \/ run' = MoveTo(16, said)
    BY <1>2, <2>1, Jumps DEF SkipSwarm, NoPub, BuildKitUpToDate, DryWithoutDocker
  <2> QED
    BY <1>t, <2>2, <2>3, MoveIs
<1>3. CASE NothingToAsk \/ Finish \/ Interrupted
  BY <1>3, NoRunType DEF NothingToAsk, Finish, Interrupted
<1>4. CASE ~(SkipSwarm \/ NoPub \/ BuildKitUpToDate \/ NothingToAsk \/ Finish \/ Interrupted)
  <2> DEFINE Acts(s) == /\ At(s)
                        /\ \E said \in {{}, {s}} : run' = Onward(said)
                        /\ s = "buildkit" => ~UpToDate
  <2>a. ASSUME NEW s, NEW differs, NEW new, Do(s, differs, new), s = "buildkit" => ~UpToDate
        PROVE  Acts(s)
    BY <2>a DEF Do
  <2>b. ASSUME NEW s, Acts(s) PROVE \E x : Acts(x)
    BY <2>b
  <2> HIDE DEF Acts
  <2>c. ASSUME NEW x \in Simple, Ensure(x) PROVE Acts(x)
    BY <2>c, <2>a DEF Ensure, Simple
  <2>d. ASSUME NEW y \in Subnets, CreateBridge(y) PROVE Acts("gwbridge")
    BY <2>d, <2>a DEF CreateBridge
  <2>e. ASSUME NEW k \in KeyPairs, KeyGen(k) PROVE Acts("keygen")
    BY <2>e, <2>a DEF KeyGen
  <2>f. WriteAuthorized => Acts("authorized")
    BY <2>a DEF WriteAuthorized
  <2>g. WriteKnown => Acts("known")
    BY <2>a DEF WriteKnown
  <2>h. WriteToml => Acts("toml")
    BY <2>a DEF WriteToml
  <2>i. RemoveBuildKit => Acts("buildkit")
    BY <2>a DEF RemoveBuildKit
  <2>j. RunBuildKit => Acts("run")
    BY <2>a, Zenon DEF RunBuildKit
  <2>k. ConnectBuildKit => Acts("connect")
    BY <2>a, Zenon DEF ConnectBuildKit
  <2>l. AllowGateway => Acts("ufw")
    BY <2>a, Zenon DEF AllowGateway
  <2>m. \E x : Acts(x)
    BY <1>4, <2>b, <2>c, <2>d, <2>e, <2>f, <2>g, <2>h, <2>i, <2>j, <2>k, <2>l DEF RunStep
  <2>1. PICK s : Acts(s)
    BY <2>m
  <2> USE DEF Acts
  <2>2. s \in Steps
    BY <2>1, Positions
  <2> QED
    BY <1>1, <2>1, <2>2
<1> QED
  BY <1>2, <1>3, <1>4

LEMMA CleanSteps ==
    ASSUME TypeInv, CleanRun, RunStep
    PROVE  CleanRun'
<1> SUFFICES ASSUME run'.pc # 0, run'.clean
             PROVE  Ready' /\ (~run'.dry => run'.pc \notin {14, 15})
  BY DEF CleanRun
<1>1. run.pc # 0 /\ run.clean /\ run'.dry = run.dry
  BY Moves
<1>2. Ready /\ host' = host /\ repo' = repo
  BY <1>1, Idempotent DEF CleanRun
<1>3. Ready'
  BY <1>2, Unchanged
<1>4. ASSUME ~run.dry PROVE run'.pc \notin {14, 15}
  <2>1. "run" \in Steps /\ "toml" \in Steps
    BY OrderIs DEF Steps
  <2>2. UpToDate
    BY <1>2, <2>1 DEF Ready, Drifted, UpToDate, Want
  <2>3. run.pc \notin {14, 15} /\ run.pc \in 0..18
    BY <1>1, <1>4, TypeIs DEF CleanRun, TypeInv, Run
  <2> QED
    BY <1>1, <1>4, <2>2, <2>3, Moves
<1> QED
  BY <1>1, <1>3, <1>4

(***************************************************************************)
(* What a run says.                                                        *)
(***************************************************************************)

LEMMA Unsaid ==
    ASSUME TypeInv, SaysWould, run.plain, NEW s, At(s)
    PROVE  ~Passed(s) /\ (s # "connect" => (s \in run.would <=> WouldAct(s)))
<1>1. run.pc \in 1..17 /\ Order[run.pc] = s /\ s \in Steps
  BY Positions
<1>2. ~Passed(s)
  BY <1>1, Distinct DEF Passed
<1>3. run.pc # 0
  BY <1>1
<1> QED
  BY <1>1, <1>2, <1>3, Zenon DEF SaysWould

\* A step says its name if it stood to be done, and if it is done what later
\* steps look at stays as it is.
LEMMA DoSays ==
    ASSUME TypeInv, SaysWould, NEW s, NEW differs, NEW new, Do(s, differs, new),
           run.plain => (differs <=> s \in run.would),
           run.plain /\ differs /\ ~run.dry =>
              /\ Plain'
              /\ \A t \in Steps \ {"connect"} : ~Passed(t) /\ t # s => (WouldAct(t)' <=> WouldAct(t))
              /\ run.pc < 13 => (Drifted("run")' <=> Drifted("run")),
           run.plain /\ run.pc = 13 => Drifted("run") /\ Drifted("run")'
    PROVE  SaysWould'
<1>i. /\ run.pc \in 1..17 /\ s = Order[run.pc] /\ s \in Steps
      /\ run'.pc = run.pc + 1
      /\ run'.said = run.said \cup (IF differs THEN {s} ELSE {})
      /\ run'.plain = run.plain /\ run'.would = run.would
      /\ repo' = repo
      /\ ~(differs /\ ~run.dry) => host' = host
  BY DoIs, Zenon
<1> SUFFICES ASSUME run.plain
             PROVE  /\ Plain'
                    /\ \A t \in run'.said : Passed(t)'
                    /\ \A t \in Steps : Passed(t)' => (t \in run'.said <=> t \in run.would)
                    /\ \A t \in Steps \ {"connect"} :
                          ~Passed(t)' => (t \in run.would <=> WouldAct(t)')
                    /\ run'.pc <= 13 => ("connect" \in run.would <=> Drifted("run")')
                    /\ run'.pc = 14 => Drifted("run")'
                    /\ run'.pc \in {14, 15} => "connect" \in run.would
  BY <1>i, Zenon DEF SaysWould
<1>0. run.pc # 0
  BY <1>i
<1>1. /\ Plain
      /\ \A t \in run.said : Passed(t)
      /\ \A t \in Steps : Passed(t) => (t \in run.said <=> t \in run.would)
      /\ \A t \in Steps \ {"connect"} : ~Passed(t) => (t \in run.would <=> WouldAct(t))
      /\ run.pc <= 13 => ("connect" \in run.would <=> Drifted("run"))
      /\ run.pc \in {14, 15} => "connect" \in run.would
  BY <1>0, Zenon DEF SaysWould
<1>2. /\ Plain'
      /\ \A t \in Steps \ {"connect"} : ~Passed(t) /\ t # s => (WouldAct(t)' <=> WouldAct(t))
      /\ run.pc < 13 => (Drifted("run")' <=> Drifted("run"))
  <2>1. CASE differs /\ ~run.dry
    BY <2>1, Zenon
  <2>2. CASE ~(differs /\ ~run.dry)
    <3>1. host' = host /\ repo' = repo
      BY <1>i, <2>2, Zenon
    <3> QED
      BY <1>1, <3>1, Unchanged, Zenon
  <2> QED
    BY <2>1, <2>2, Zenon
<1>3. \A t \in Steps : Passed(t)' <=> (Passed(t) \/ t = s)
  BY DoPasses, Zenon
<1>4. ~Passed(s)
  BY <1>i, Distinct DEF Passed
<1>5. run.said \subseteq Steps
  BY TypeIs DEF TypeInv, Run
<1>6. /\ differs => run'.said = run.said \cup {s}
      /\ ~differs => run'.said = run.said
  BY <1>i
<1>7. \A t \in run'.said : Passed(t)'
  <2>1. run'.said \subseteq Steps /\ \A t \in run'.said : t \in run.said \/ t = s
    BY <1>5, <1>6, <1>i
  <2> QED
    BY <1>1, <1>3, <2>1
<1>8. \A t \in run'.said : t \in run.said \/ (t = s /\ differs)
  BY <1>6
<1>9. ASSUME NEW t \in Steps, Passed(t)'
      PROVE  t \in run'.said <=> t \in run.would
  <2>1. CASE t = s
    <3>1. t \notin run.said
      BY <1>1, <1>4, <2>1
    <3>2. t \in run'.said <=> differs
      BY <1>6, <2>1, <3>1
    <3> QED
      BY <2>1, <3>2, Zenon
  <2>2. CASE t # s
    <3>1. Passed(t)
      BY <1>3, <1>9, <2>2, Zenon
    <3>2. t \in run'.said <=> t \in run.said
      BY <1>6, <2>2
    <3> QED
      BY <1>1, <3>1, <3>2, Zenon
  <2> QED
    BY <2>1, <2>2
<1>10. ASSUME NEW t \in Steps \ {"connect"}, ~Passed(t)'
       PROVE  t \in run.would <=> WouldAct(t)'
  <2>1. ~Passed(t) /\ t # s
    BY <1>3, <1>10, Zenon
  <2> QED
    BY <1>1, <1>2, <2>1, Zenon
<1>11. run'.pc <= 13 => ("connect" \in run.would <=> Drifted("run")')
  <2>1. run'.pc <= 13 => run.pc < 13 /\ run.pc <= 13
    BY <1>i
  <2> QED
    BY <1>1, <1>2, <2>1, Zenon
<1>12. run'.pc = 14 => Drifted("run")' /\ "connect" \in run.would
  <2>1. run'.pc = 14 => run.pc = 13 /\ run.pc <= 13
    BY <1>i
  <2> QED
    BY <1>1, <2>1, Zenon
<1>13. run'.pc = 15 => "connect" \in run.would
  <2>1. run'.pc = 15 => run.pc \in {14, 15}
    BY <1>i
  <2> QED
    BY <1>1, <2>1, Zenon
<1>14. run'.pc \in {14, 15} => "connect" \in run.would
  <2>1. run'.pc \in {14, 15} => run'.pc = 14 \/ run'.pc = 15
    OBVIOUS
  <2> QED
    BY <1>12, <1>13, <2>1, Zenon
<1> QED
  BY <1>2, <1>7, <1>9, <1>10, <1>11, <1>12, <1>14, Zenon

LEMMA SaysSteps ==
    ASSUME TypeInv, SaysWould, RunStep
    PROVE  SaysWould'
<1>t. /\ host \in Host /\ run \in Run
  BY TypeIs DEF TypeInv
<1>h. host.bk \in BuildKit
  BY <1>t DEF Host
<1>s. run.pc # 0 /\ run.plain =>
         /\ "docker" \in host.present /\ host.gw # None /\ host.key # None
         /\ host.pub # None /\ host.toml = repo.toml
  BY DEF SaysWould, Plain
<1>p. \A n \in 1..17 : run.pc = n => \A t \in Steps : ~Passed(t) => \E i \in n..17 : t = Order[i]
  BY OrderIs DEF Passed, Steps
<1>2. ASSUME NEW x \in Simple, Ensure(x) PROVE SaysWould'
  <2>1. /\ Do(x, x \notin host.present, [host EXCEPT !.present = @ \cup {x}])
        /\ At(x) /\ run.pc # 0 /\ run.pc # 13
    BY <1>2, Positions, OrderIs DEF Ensure, Do, Simple
  <2>2. x \notin {"gwbridge", "keygen", "authorized", "known", "toml", "buildkit", "run", "connect", "ufw"}
    BY DEF Simple
  <2>3. run.plain => (x \notin host.present <=> x \in run.would)
    <3>1. x \notin host.present <=> WouldAct(x)
      BY <2>2 DEF WouldAct, Drifted
    <3> QED
      BY <2>1, <2>2, <3>1, Unsaid
  <2>4. ASSUME run.plain, x \notin host.present, ~run.dry
        PROVE  /\ Plain'
               /\ \A t \in Steps \ {"connect"} : ~Passed(t) /\ t # x => (WouldAct(t)' <=> WouldAct(t))
               /\ run.pc < 13 => (Drifted("run")' <=> Drifted("run"))
    <3>1. /\ host'.present = host.present \cup {x}
          /\ host'.gw = host.gw /\ host'.key = host.key /\ host'.pub = host.pub
          /\ host'.auth = host.auth /\ host'.known = host.known
          /\ host'.toml = host.toml /\ host'.bk = host.bk
          /\ host'.allowed = host.allowed /\ repo' = repo
      BY <2>1, <2>4, <1>t DEF Do, Host
    <3>2. \A t : t # x => (Drifted(t)' <=> Drifted(t))
      BY <3>1 DEF Drifted
    <3>3. \A t : t # x => (WouldAct(t)' <=> WouldAct(t))
      BY <2>2, <3>1, <3>2 DEF WouldAct
    <3>4. Plain'
      BY <1>s, <2>1, <2>4, <3>1 DEF Plain
    <3> QED
      BY <2>2, <3>2, <3>3, <3>4
  <2> QED
    BY <2>1, <2>3, <2>4, DoSays, Zenon
<1>3. ASSUME NEW s \in Subnets, CreateBridge(s) PROVE SaysWould'
  <2>1. /\ Do("gwbridge", host.gw = None, [host EXCEPT !.gw = s])
        /\ At("gwbridge") /\ run.pc = 3
    BY <1>3, Positions DEF CreateBridge, Do
  <2>2. run.plain => host.gw # None
    BY <1>s, <2>1
  <2>3. WouldAct("gwbridge") <=> host.gw = None
    BY DEF WouldAct, Drifted, Simple
  <2>4. run.plain => (host.gw = None <=> "gwbridge" \in run.would)
    BY <2>1, <2>3, Unsaid
  <2>5. run.pc # 13
    BY <2>1
  <2> QED
    BY <2>1, <2>2, <2>4, <2>5, DoSays, Zenon
<1>4. ASSUME NEW k \in KeyPairs, KeyGen(k) PROVE SaysWould'
  <2>1. /\ Do("keygen", host.key = None, [host EXCEPT !.key = k, !.pub = k])
        /\ At("keygen") /\ run.pc = 9
    BY <1>4, Positions DEF KeyGen, Do
  <2>2. run.plain => host.key # None
    BY <1>s, <2>1
  <2>3. WouldAct("keygen") <=> host.key = None
    BY DEF WouldAct
  <2>4. run.plain => (host.key = None <=> "keygen" \in run.would)
    BY <2>1, <2>3, Unsaid
  <2>5. run.pc # 13
    BY <2>1
  <2> QED
    BY <2>1, <2>2, <2>4, <2>5, DoSays, Zenon
<1>5. CASE WriteAuthorized
  <2>1. /\ Do("authorized", host.auth # Entry, [host EXCEPT !.auth = Entry])
        /\ At("authorized") /\ run.pc = 10
    BY <1>5, Positions DEF WriteAuthorized, Do
  <2>2. run.plain => (host.auth # Entry <=> "authorized" \in run.would)
    <3>1. run.plain => (WouldAct("authorized") <=> host.auth # Entry)
      BY <1>s, <2>1 DEF WouldAct, Entry
    <3> QED
      BY <2>1, <3>1, Unsaid
  <2>3. \A t \in Steps : ~Passed(t) => t \in {"authorized", "known", "toml", "buildkit", "run",
                                             "connect", "ufw", "unit"}
    BY <2>1, <1>p, OrderIs
  <2>4. ASSUME run.plain, host.auth # Entry, ~run.dry
        PROVE  /\ Plain'
               /\ \A t \in Steps \ {"connect"} :
                     ~Passed(t) /\ t # "authorized" => (WouldAct(t)' <=> WouldAct(t))
               /\ run.pc < 13 => (Drifted("run")' <=> Drifted("run"))
    <3>1. /\ host'.present = host.present
          /\ host'.gw = host.gw /\ host'.key = host.key /\ host'.pub = host.pub
          /\ host'.known = host.known
          /\ host'.toml = host.toml /\ host'.bk = host.bk
          /\ host'.allowed = host.allowed /\ repo' = repo
      BY <2>1, <2>4, <1>t DEF Do, Host
    <3>2. \A t : t # "authorized" => (Drifted(t)' <=> Drifted(t))
      BY <3>1 DEF Drifted
    <3>3. \A t : t # "authorized" => (WouldAct(t)' <=> WouldAct(t))
      BY <3>1, <3>2 DEF WouldAct
    <3>4. Plain'
      BY <1>s, <2>1, <2>4, <3>1 DEF Plain
    <3> QED
      BY <3>2, <3>3, <3>4
  <2>5. run.pc # 13
    BY <2>1
  <2> QED
    BY <2>1, <2>2, <2>4, <2>5, DoSays, Zenon
<1>6. CASE WriteKnown
  <2>1. /\ Do("known", host.known # host.gw, [host EXCEPT !.known = host.gw])
        /\ At("known") /\ run.pc = 11
    BY <1>6, Positions DEF WriteKnown, Do
  <2>2. run.plain => (host.known # host.gw <=> "known" \in run.would)
    <3>1. WouldAct("known") <=> host.known # host.gw
      BY DEF WouldAct, Drifted, Simple
    <3> QED
      BY <2>1, <3>1, Unsaid
  <2>4. ASSUME run.plain, host.known # host.gw, ~run.dry
        PROVE  /\ Plain'
               /\ \A t \in Steps \ {"connect"} :
                     ~Passed(t) /\ t # "known" => (WouldAct(t)' <=> WouldAct(t))
               /\ run.pc < 13 => (Drifted("run")' <=> Drifted("run"))
    <3>1. /\ host'.present = host.present
          /\ host'.gw = host.gw /\ host'.key = host.key /\ host'.pub = host.pub
          /\ host'.auth = host.auth
          /\ host'.toml = host.toml /\ host'.bk = host.bk
          /\ host'.allowed = host.allowed /\ repo' = repo
      BY <2>1, <2>4, <1>t DEF Do, Host
    <3>2. \A t : t # "known" => (Drifted(t)' <=> Drifted(t))
      BY <3>1 DEF Drifted
    <3>3. \A t : t # "known" => (WouldAct(t)' <=> WouldAct(t))
      BY <3>1, <3>2 DEF WouldAct
    <3>4. Plain'
      BY <1>s, <2>1, <2>4, <3>1 DEF Plain
    <3> QED
      BY <3>2, <3>3, <3>4
  <2>5. run.pc # 13
    BY <2>1
  <2> QED
    BY <2>1, <2>2, <2>4, <2>5, DoSays, Zenon
<1>7. CASE WriteToml
  <2>1. /\ Do("toml", host.toml # repo.toml, [host EXCEPT !.toml = repo.toml])
        /\ At("toml") /\ run.pc = 12
    BY <1>7, Positions DEF WriteToml, Do
  <2>2. run.plain => host.toml = repo.toml
    BY <1>s, <2>1
  <2>3. WouldAct("toml") <=> host.toml # repo.toml
    BY DEF WouldAct, Drifted, Simple
  <2>4. run.plain => (host.toml # repo.toml <=> "toml" \in run.would)
    BY <2>1, <2>3, Unsaid
  <2>5. run.pc # 13
    BY <2>1
  <2> QED
    BY <2>1, <2>2, <2>4, <2>5, DoSays, Zenon
<1>8. CASE BuildKitUpToDate
  <2>1. run.pc = 13 /\ UpToDate /\ host' = host /\ repo' = repo
    BY <1>8, Positions DEF BuildKitUpToDate
  <2>2. /\ run'.pc = 16 /\ run'.plain = run.plain /\ run'.would = run.would
        /\ run'.said = run.said
    <3>1. run' = MoveTo(16, {}) /\ 16 \in 0..18 /\ {} \in SUBSET Steps
      BY <1>8, Jumps DEF BuildKitUpToDate
    <3>2. run.said \cup {} = run.said
      OBVIOUS
    <3>3. /\ run'.pc = 16 /\ run'.plain = run.plain /\ run'.would = run.would
          /\ run'.said = run.said \cup {}
      BY <1>t, <3>1, MoveIs, Zenon
    <3> QED
      BY <3>2, <3>3
  <2>3. \A t \in Steps : Passed(t)' <=> Passed(t) \/ t \in {"buildkit", "run", "connect"}
    <3>1. ASSUME NEW t \in Steps, Passed(t)'
          PROVE  Passed(t) \/ t \in {"buildkit", "run", "connect"}
      <4>1. PICK i \in 1..17 : i < 16 /\ t = Order[i]
        BY <2>2, <3>1 DEF Passed
      <4>2. i < 13 \/ i = 13 \/ i = 14 \/ i = 15
        BY <4>1
      <4> QED
        BY <2>1, <4>1, <4>2, OrderIs DEF Passed
    <3>2. ASSUME NEW t \in Steps, Passed(t) \/ t \in {"buildkit", "run", "connect"}
          PROVE  Passed(t)'
      BY <2>1, <2>2, <3>2, OrderIs DEF Passed
    <3> QED
      BY <3>1, <3>2
  <2>4. SUFFICES ASSUME run.plain PROVE SaysWould'
    BY <2>2, Zenon DEF SaysWould
  <2>5. run.pc # 0
    BY <2>1
  <2>6. /\ Plain
        /\ \A t \in run.said : Passed(t)
        /\ \A t \in Steps : Passed(t) => (t \in run.said <=> t \in run.would)
        /\ \A t \in Steps \ {"connect"} : ~Passed(t) => (t \in run.would <=> WouldAct(t))
        /\ run.pc <= 13 => ("connect" \in run.would <=> Drifted("run"))
    BY <2>4, <2>5, Zenon DEF SaysWould
  <2>7. ~Drifted("run")
    BY <1>s, <2>1, <2>4, <2>5 DEF UpToDate, Want, Drifted, Simple
  <2>8. \A t \in {"buildkit", "run", "connect"} : t \in Steps /\ ~Passed(t)
    BY <2>1, OrderIs, Distinct DEF Passed, Steps
  <2>9. ~WouldAct("buildkit") /\ ~WouldAct("run")
    <3>1. ~Drifted("buildkit")
      BY DEF Drifted, Simple
    <3> QED
      BY <2>7, <3>1 DEF WouldAct
  <2>10. \A t \in {"buildkit", "run", "connect"} : t \notin run.would
    <3>1. run.pc <= 13
      BY <2>1
    <3> QED
      BY <2>6, <2>7, <2>8, <2>9, <3>1
  <2>11. run.said \subseteq Steps
    BY <1>t DEF Run
  <2>12. \A t \in run'.said : Passed(t)'
    BY <2>2, <2>3, <2>6, <2>11
  <2>13. \A t \in Steps : Passed(t)' => (t \in run.said <=> t \in run.would)
    BY <2>3, <2>6, <2>8, <2>10
  <2>14. \A t \in Steps \ {"connect"} : ~Passed(t)' => (t \in run.would <=> WouldAct(t)')
    BY <2>1, <2>3, <2>6, Unchanged
  <2>15. Plain' /\ ~(run'.pc <= 13) /\ run'.pc # 14 /\ run'.pc \notin {14, 15}
    BY <2>1, <2>2, <2>6, Unchanged
  <2> QED
    BY <2>2, <2>12, <2>13, <2>14, <2>15, Zenon DEF SaysWould
<1>9. CASE RemoveBuildKit
  <2>1. /\ Do("buildkit", host.bk # NoBuildKit, [host EXCEPT !.bk = NoBuildKit])
        /\ At("buildkit") /\ run.pc = 13 /\ ~UpToDate
    BY <1>9, Positions DEF RemoveBuildKit, Do
  <2>2. run.plain => Drifted("run")
    BY <1>s, <2>1 DEF UpToDate, Want, Drifted
  <2>3. run.plain => (host.bk # NoBuildKit <=> "buildkit" \in run.would)
    <3>1. ~Drifted("buildkit")
      BY DEF Drifted, Simple
    <3>2. run.plain => (WouldAct("buildkit") <=> host.bk # NoBuildKit)
      BY <2>2, <3>1 DEF WouldAct
    <3> QED
      BY <2>1, <3>2, Unsaid
  <2>4. \A t \in Steps : ~Passed(t) => t \in {"buildkit", "run", "connect", "ufw", "unit"}
    BY <2>1, <1>p, OrderIs
  <2>5. ASSUME run.plain, host.bk # NoBuildKit, ~run.dry
        PROVE  /\ Plain' /\ Drifted("run")'
               /\ \A t \in Steps \ {"connect"} :
                     ~Passed(t) /\ t # "buildkit" => (WouldAct(t)' <=> WouldAct(t))
    <3>1. /\ host'.present = host.present
          /\ host'.gw = host.gw /\ host'.key = host.key /\ host'.pub = host.pub
          /\ host'.auth = host.auth
          /\ host'.toml = host.toml /\ host'.bk = NoBuildKit
          /\ host'.allowed = host.allowed /\ repo' = repo
      BY <2>1, <2>5, <1>t DEF Do, Host
    <3>2. Drifted("run")'
      <4>1. ~host'.bk.running
        BY <3>1 DEF NoBuildKit
      <4> QED
        BY <4>1 DEF Drifted
    <3>3. Drifted("unit")' <=> Drifted("unit")
      BY <3>1 DEF Drifted
    <3>4. \A t \in {"run", "ufw", "unit"} : WouldAct(t)' <=> WouldAct(t)
      BY <2>2, <2>5, <3>2, <3>3 DEF WouldAct
    <3>5. Plain'
      BY <1>s, <2>1, <2>5, <3>1 DEF Plain
    <3> QED
      BY <2>4, <3>2, <3>4, <3>5
  <2>6. run.plain => Drifted("run")'
    <3>1. ASSUME run.plain, ~(host.bk # NoBuildKit /\ ~run.dry) PROVE Drifted("run")'
      <4>1. host' = host /\ repo' = repo
        BY <2>1, <3>1, DoIs, Zenon
      <4> QED
        BY <2>2, <3>1, <4>1, Unchanged
    <3> QED
      BY <2>5, <3>1, Zenon
  <2>7. ~(run.pc < 13)
    BY <2>1
  <2> QED
    BY <2>1, <2>2, <2>3, <2>5, <2>6, <2>7, DoSays, Zenon
<1>10. CASE RunBuildKit
  <2>1. /\ Do("run", TRUE, [host EXCEPT !.bk = [spec |-> Want, running |-> TRUE, joined |-> FALSE]])
        /\ At("run") /\ run.pc = 14
    BY <1>10, Positions DEF RunBuildKit, Do
  <2>2. run.plain => Drifted("run")
    <3>1. run.pc # 0 /\ run.pc = 14
      BY <2>1
    <3> QED
      BY <3>1, Zenon DEF SaysWould
  <2>3. run.plain => "run" \in run.would
    <3>1. run.plain => WouldAct("run")
      BY <2>2, Zenon DEF WouldAct
    <3> QED
      BY <2>1, <3>1, Unsaid
  <2>4. \A t \in Steps \ {"connect"} : ~Passed(t) /\ t # "run" => t \in {"ufw", "unit"}
    BY <2>1, <1>p, OrderIs
  <2>5. ASSUME run.plain, ~run.dry
        PROVE  /\ Plain'
               /\ \A t \in Steps \ {"connect"} :
                     ~Passed(t) /\ t # "run" => (WouldAct(t)' <=> WouldAct(t))
    <3>1. /\ host'.present = host.present
          /\ host'.gw = host.gw /\ host'.key = host.key /\ host'.pub = host.pub
          /\ host'.toml = host.toml /\ repo' = repo
      BY <2>1, <2>5, <1>t DEF Do, Host
    <3>2. Drifted("unit")' <=> Drifted("unit")
      BY <3>1 DEF Drifted
    <3>3. \A t \in {"ufw", "unit"} : WouldAct(t)' <=> WouldAct(t)
      BY <3>2 DEF WouldAct
    <3>4. Plain'
      BY <1>s, <2>1, <2>5, <3>1 DEF Plain
    <3> QED
      BY <2>4, <3>3, <3>4
  <2>6. ~(run.pc < 13) /\ run.pc # 13
    BY <2>1
  <2> QED
    BY <2>1, <2>3, <2>5, <2>6, DoSays, Zenon
<1>11. CASE ConnectBuildKit
  <2>1. /\ Do("connect", TRUE, [host EXCEPT !.bk.joined = TRUE])
        /\ At("connect") /\ run.pc = 15
    BY <1>11, Positions DEF ConnectBuildKit, Do
  <2>2. run.plain => "connect" \in run.would
    <3>1. run.pc # 0 /\ run.pc \in {14, 15}
      BY <2>1
    <3> QED
      BY <3>1, Zenon DEF SaysWould
  <2>4. \A t \in Steps \ {"connect"} : ~Passed(t) => t \in {"ufw", "unit"}
    BY <2>1, <1>p, OrderIs
  <2>5. ASSUME run.plain, ~run.dry
        PROVE  /\ Plain'
               /\ \A t \in Steps \ {"connect"} :
                     ~Passed(t) /\ t # "connect" => (WouldAct(t)' <=> WouldAct(t))
    <3>1. /\ host'.present = host.present
          /\ host'.gw = host.gw /\ host'.key = host.key /\ host'.pub = host.pub
          /\ host'.toml = host.toml /\ repo' = repo
      BY <2>1, <2>5, <1>t DEF Do, Host
    <3>2. Drifted("unit")' <=> Drifted("unit")
      BY <3>1 DEF Drifted
    <3>3. \A t \in {"ufw", "unit"} : WouldAct(t)' <=> WouldAct(t)
      BY <3>2 DEF WouldAct
    <3>4. Plain'
      BY <1>s, <2>1, <2>5, <3>1 DEF Plain
    <3> QED
      BY <2>4, <3>3, <3>4
  <2>6. ~(run.pc < 13) /\ run.pc # 13
    BY <2>1
  <2> QED
    BY <2>1, <2>2, <2>5, <2>6, DoSays, Zenon
<1>12. CASE AllowGateway
  <2>1. /\ Do("ufw", TRUE, [host EXCEPT !.allowed = @ \cup ({host.gw} \ {None})])
        /\ At("ufw") /\ run.pc = 16
    BY <1>12, Positions DEF AllowGateway, Do
  <2>2. run.plain => "ufw" \in run.would
    <3>1. WouldAct("ufw")
      BY DEF WouldAct
    <3> QED
      BY <2>1, <3>1, Unsaid
  <2>4. \A t \in Steps \ {"connect"} : ~Passed(t) => t \in {"ufw", "unit"}
    BY <2>1, <1>p, OrderIs
  <2>5. ASSUME run.plain, ~run.dry
        PROVE  /\ Plain'
               /\ \A t \in Steps \ {"connect"} :
                     ~Passed(t) /\ t # "ufw" => (WouldAct(t)' <=> WouldAct(t))
    <3>1. /\ host'.present = host.present
          /\ host'.gw = host.gw /\ host'.key = host.key /\ host'.pub = host.pub
          /\ host'.toml = host.toml /\ repo' = repo
      BY <2>1, <2>5, <1>t DEF Do, Host
    <3>2. Drifted("unit")' <=> Drifted("unit")
      BY <3>1 DEF Drifted
    <3>3. WouldAct("unit")' <=> WouldAct("unit")
      BY <3>2 DEF WouldAct
    <3>4. Plain'
      BY <1>s, <2>1, <2>5, <3>1 DEF Plain
    <3> QED
      BY <2>4, <3>3, <3>4
  <2>6. ~(run.pc < 13) /\ run.pc # 13
    BY <2>1
  <2> QED
    BY <2>1, <2>2, <2>5, <2>6, DoSays, Zenon
<1>13. CASE SkipSwarm \/ NoPub
  <2>1. run.pc # 0 /\ ~run.plain
    BY <1>13, <1>s, Positions DEF SkipSwarm, NoPub, DryWithoutDocker
  <2>2. run'.pc # 0 => run'.plain = run.plain
    BY Moves
  <2> QED
    BY <2>1, <2>2 DEF SaysWould
<1>14. CASE NothingToAsk \/ Finish \/ Interrupted
  BY <1>14, NoRunType DEF NothingToAsk, Finish, Interrupted, SaysWould
<1> QED
  BY <1>2, <1>3, <1>4, <1>5, <1>6, <1>7, <1>8, <1>9, <1>10, <1>11, <1>12, <1>13, <1>14
     DEF RunStep

(***************************************************************************)
(* The invariant.                                                          *)
(***************************************************************************)

LEMMA InitInv == Init => Inv
BY InitTypes, NoRunType DEF Init, Inv, RealRun, CleanRun, SaysWould

LEMMA NextInv == Inv /\ [Next]_vars => Inv'
<1> SUFFICES ASSUME Inv, [Next]_vars PROVE Inv'
  OBVIOUS
<1>1. TypeInv'
  BY NextTypes DEF Inv
<1>2. CASE RunStep
  BY <1>1, <1>2, RealSteps, CleanSteps, SaysSteps DEF Inv
<1>3. ASSUME NEW dry \in BOOLEAN, Start(dry) PROVE Inv'
  <2>1. /\ run'.pc = 1 /\ run'.said = {}
        /\ run'.clean = Ready /\ run'.halves = Halves /\ run'.apart = Apart /\ run'.plain = Plain
        /\ run'.would = IF Plain THEN {s \in Steps : WouldAct(s)} ELSE {}
        /\ host' = host /\ repo' = repo
    BY <1>3 DEF Start
  <2>2. \A t : ~Passed(t)'
    BY <2>1 DEF Passed
  <2>3. /\ ~Halves => host.key = None \/ host.pub = host.key
        /\ ~Apart => Drifted("run") \/ host.bk.joined
    BY DEF Halves, Apart
  <2>4. RealRun'
    BY <2>1, <2>2, <2>3, Unchanged DEF RealRun
  <2>5. CleanRun'
    BY <2>1, Unchanged DEF CleanRun
  <2>6. SaysWould'
    <3>1. SUFFICES ASSUME Plain PROVE SaysWould'
      BY <2>1, Zenon DEF SaysWould
    <3>2. Plain' /\ \A t : WouldAct(t)' <=> WouldAct(t)
      BY <2>1, <3>1, Unchanged
    <3>3. \A t \in Steps : t \in run'.would <=> WouldAct(t)
      BY <2>1, <3>1
    <3>4. "connect" \in Steps /\ (WouldAct("connect") <=> Drifted("run"))
      BY OrderIs DEF WouldAct, Steps
    <3>5. "connect" \in run'.would <=> Drifted("run")'
      BY <2>1, <3>3, <3>4, Unchanged
    <3>6. \A t \in run'.said : Passed(t)'
      BY <2>1
    <3>7. run'.pc # 14 /\ run'.pc \notin {14, 15}
      BY <2>1
    <3> QED
      BY <2>2, <3>2, <3>3, <3>5, <3>6, <3>7, Zenon DEF SaysWould
  <2> QED
    BY <1>1, <2>4, <2>5, <2>6 DEF Inv
<1>4. CASE Pull \/ Lose
  BY <1>1, <1>4, NoRunType DEF Pull, Lose, Drift, Inv, RealRun, CleanRun, SaysWould
<1>5. CASE UNCHANGED vars
  <2>1. run' = run /\ host' = host /\ repo' = repo
    BY <1>5 DEF vars
  <2>2. \A t : Passed(t)' <=> Passed(t)
    BY <2>1 DEF Passed
  <2>3. \A t : Excused(t)' <=> Excused(t)
    BY <2>1 DEF Excused
  <2>4. RealRun' /\ CleanRun'
    BY <2>1, <2>2, <2>3, Unchanged DEF Inv, RealRun, CleanRun
  <2>5. SaysWould'
    BY <2>1, <2>2, Unchanged DEF Inv, SaysWould
  <2> QED
    BY <1>1, <2>4, <2>5 DEF Inv
<1> QED
  BY <1>2, <1>3, <1>4, <1>5 DEF Next

THEOREM Invariance == Spec => []Inv
BY InitInv, NextInv, PTL DEF Spec

(***************************************************************************)
(* Theorems.                                                               *)
(***************************************************************************)

\* The type invariant; in particular a container never runs with a hash of a
\* file that was not there.
THEOREM TypeCorrect == Spec => []TypeOK
BY Invariance, PTL DEF Inv, TypeInv

LEMMA AllPassed == Finished => \A t \in Steps : Passed(t)
BY OrderIs DEF Finished, Passed, Steps

\* A real run that gets to its end leaves the host ready, whatever runs
\* before it were interrupted and whatever drifted, up to the two things no
\* check sees, and those only if they stood when it began: no run makes them
\* by finishing.
THEOREM FinishedRunsAreReady == Spec => []FinishedIsReady
<1>1. Inv => FinishedIsReady
  <2> SUFFICES ASSUME Inv, Finished, ~run.dry, NEW t \in Steps, Drifted(t)
               PROVE  \/ run.halves /\ t \in {"keygen", "authorized"}
                      \/ run.apart /\ t = "connect"
    BY DEF FinishedIsReady
  <2>1. Passed(t) /\ run.pc # 0
    BY AllPassed, OrderIs DEF Finished
  <2>2. Excused(t)
    BY <2>1, Zenon DEF Inv, RealRun
  <2> QED
    BY <2>2, Zenon DEF Excused
<1> QED
  BY <1>1, Invariance, PTL

\* What a run to its end has said, real or dry, is what stood to be done on
\* the host it found, if no step reads what an earlier one changes.
THEOREM RunsForetell == Spec => []DryRunForetells
<1>1. Inv => DryRunForetells
  <2> SUFFICES ASSUME Inv, Finished, run.plain PROVE run.said = run.would
    BY DEF DryRunForetells
  <2>1. (\A t \in Steps : Passed(t)) /\ run.pc # 0
    BY AllPassed, OrderIs DEF Finished
  <2>2. \A t \in Steps : t \in run.said <=> t \in run.would
    BY <2>1, Zenon DEF Inv, SaysWould
  <2>3. run.said \subseteq Steps /\ run.would \subseteq Steps
    BY TypeIs DEF Inv, TypeInv, Run
  <2> QED
    BY <2>2, <2>3
<1> QED
  BY <1>1, Invariance, PTL

\* A dry run, and a run that found everything in place, change nothing.
THEOREM RerunsChangeNothing == Spec => RerunChangesNothing
<1>1. Inv /\ [Next]_vars => [run.pc # 0 /\ (run.dry \/ run.clean) => host' = host]_vars
  <2> SUFFICES ASSUME Inv, Next, run.pc # 0, run.dry \/ run.clean PROVE host' = host
    OBVIOUS
  <2>1. RunStep
    BY NoRunType DEF Next, Start, Pull, Lose, Drift
  <2> QED
    BY <2>1, Idempotent DEF Inv
<1> QED
  BY <1>1, Invariance, PTL DEF Spec, RerunChangesNothing
=============================================================================
