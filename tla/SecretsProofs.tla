--------------------------- MODULE SecretsProofs ---------------------------
(***************************************************************************)
(* Proofs about Secrets, for any accounts and any number of passwords and  *)
(* faults: what is published under the current version of a secret is what *)
(* its file says, though the person who rotates takes no lock; and a       *)
(* deploy that succeeds undisturbed leaves tasks that can log in.          *)
(***************************************************************************)
EXTENDS Secrets, TLAPS

(***************************************************************************)
(* What the argument needs of the types: everything but the deploy.        *)
(***************************************************************************)

Stored ==
    /\ file \in [Names -> Values]
    /\ version \in [Names -> Versions]
    /\ secrets \in [Names -> [Versions -> Values]]
    /\ drawn \in 0..MaxValue
    /\ op \in [name: Names, step: {"idle", "open", "written"}]

\* Every new version follows a password drawn for it.
VersionsAreDrawn ==
    \A n \in Names : /\ version[n] <= drawn + 1
                     /\ op.step = "written" => version[n] <= drawn

\* Nothing is published under a version to come, so a new version starts
\* without a Docker secret.
NothingAhead ==
    \A n \in Names : \A v \in Versions : v > version[n] => secrets[n][v] = 0

Inv == Stored /\ VersionsAreDrawn /\ NothingAhead /\ CurrentVersionIsFile

\* A value about to be written over is of no published current version, or
\* its rotation is under way; and undisturbed, there is no value.
WriteIsOwed ==
    \A n \in AccountSet \cup {"ci"} : Turn("write", n) =>
        /\ secrets[n][version[n]] = 0 \/ (op.name = n /\ op.step # "idle")
        /\ d.quiet => file[n] = 0

LEMMA InitInv == Init => Inv
BY SecretsAssumption
   DEF Init, Inv, Stored, Values, Versions, Names, VersionsAreDrawn, NothingAhead,
       CurrentVersionIsFile

LEMMA NextInv == Inv /\ WriteIsOwed /\ [Next]_vars => Inv'
<1> SUFFICES ASSUME Inv, WriteIsOwed, [Next]_vars PROVE Inv'
  OBVIOUS
<1>m. MaxValue \in Nat
  BY SecretsAssumption
<1> USE <1>m DEF Inv, Stored, Values, Versions, VersionsAreDrawn, NothingAhead, CurrentVersionIsFile
<1>n. AccountSet \cup {"ci"} \subseteq Names /\ "ht" \in Names /\ "ht" \notin AccountSet \cup {"ci"}
  BY SecretsAssumption DEF Names
<1>1. ASSUME NEW n \in AccountSet \cup {"ci"}, OpenFile(n) PROVE Inv'
  <2>1. /\ op' = [name |-> n, step |-> "open"] /\ n \in Names
        /\ file' = [file EXCEPT ![n] = 0]
        /\ version' = version /\ secrets' = secrets /\ drawn' = drawn
    BY <1>n, <1>1 DEF OpenFile
  <2>o. op' \in [name: Names, step: {"idle", "open", "written"}] /\ op'.step = "open" /\ op'.name = n
    BY <2>1
  <2>f. file' \in [Names -> Values] /\ \A m \in Names : m # n => file'[m] = file[m]
    BY <2>1
  <2>2. Stored'
    BY <2>1, <2>o, <2>f
  <2>3. VersionsAreDrawn'
    BY <2>1, <2>o
  <2>k. NothingAhead'
    BY <2>1
  <2>4. CurrentVersionIsFile'
    <3>1. op.step = "idle"
      BY <1>1 DEF OpenFile
    <3>2. ASSUME NEW m \in AccountSet \cup {"ci"}, m # n, secrets[m][version[m]] # 0
          PROVE  secrets[m][version[m]] = file'[m]
      BY <1>n, <2>f, <3>1, <3>2
    <3> QED
      BY <2>1, <2>o, <3>2
  <2> QED
    BY <2>2, <2>3, <2>4, <2>k
<1>2. CASE WriteFile
  <2>1. /\ op.step = "open" /\ op' = [op EXCEPT !.step = "written"]
        /\ drawn' = drawn + 1 /\ drawn' \in Values /\ drawn' \in 0..MaxValue
        /\ file' = [file EXCEPT ![op.name] = drawn']
        /\ version' = version /\ secrets' = secrets
    BY <1>2 DEF WriteFile
  <2>2. op'.name = op.name /\ op'.step = "written" /\ op' \in [name: Names, step: {"idle", "open", "written"}]
    BY <2>1
  <2>3. Stored'
    BY <2>1, <2>2
  <2>4. VersionsAreDrawn'
    BY <2>1, <2>2
  <2>5. NothingAhead'
    BY <2>1
  <2>6. CurrentVersionIsFile'
    BY <1>n, <2>1, <2>2
  <2> QED
    BY <2>3, <2>4, <2>5, <2>6
<1>3. CASE BumpVersion
  <2>1. version[op.name] + 1 \in Versions /\ op.name \in Names
    BY <1>3 DEF BumpVersion
  <2>2. secrets[op.name][version[op.name] + 1] = 0
    BY <2>1
  <2>a. /\ op.step = "written" /\ op' = [op EXCEPT !.step = "idle"]
        /\ version' = [version EXCEPT ![op.name] = @ + 1]
        /\ file' = file /\ secrets' = secrets /\ drawn' = drawn
    BY <1>3 DEF BumpVersion
  <2>b. op'.step = "idle" /\ op' \in [name: Names, step: {"idle", "open", "written"}]
    BY <2>a
  <2>c. version' \in [Names -> Versions] /\ \A n \in Names : version'[n] >= version[n]
    BY <2>1, <2>a
  <2>d. VersionsAreDrawn'
    <3>1. ASSUME NEW n \in Names PROVE version'[n] <= drawn + 1
      <4>1. version[n] \in Nat /\ version[n] <= drawn /\ drawn \in Nat
        BY <2>a
      <4>2. version'[n] = version[n] \/ version'[n] = version[n] + 1
        BY <2>1, <2>a
      <4>3. version[n] + 1 <= drawn + 1
        BY <4>1
      <4>4. version[n] <= drawn + 1
        BY <4>1
      <4> QED
        BY <4>2, <4>3, <4>4
    <3> QED
      BY <2>a, <2>b, <3>1
  <2>e. NothingAhead'
    BY <2>a, <2>c
  <2>3. Stored' /\ VersionsAreDrawn' /\ NothingAhead'
    BY <2>a, <2>b, <2>c, <2>d, <2>e
  <2>4. CurrentVersionIsFile'
    BY <1>3, <1>n, <2>1, <2>2 DEF BumpVersion
  <2> QED
    BY <2>3, <2>4
<1>4. ASSUME NEW n \in Names, Write(n) PROVE Inv'
  <2>1. /\ version' = version /\ secrets' = secrets /\ op' = op
        /\ drawn' = drawn + 1 /\ drawn < MaxValue
        /\ file' = [file EXCEPT ![n] = drawn']
    BY <1>4 DEF Write
  <2>2. drawn + 1 \in Values /\ drawn + 1 \in 0..MaxValue
    BY <2>1
  <2>3. Stored'
    BY <2>1, <2>2
  <2>4. VersionsAreDrawn'
    <3>1. ASSUME NEW m \in Names
          PROVE  version[m] <= drawn + 1 + 1 /\ (op.step = "written" => version[m] <= drawn + 1)
      <4>1. version[m] \in Nat /\ drawn \in Nat
        OBVIOUS
      <4> QED
        BY <4>1
    <3> QED
      BY <2>1, <3>1
  <2>5. NothingAhead'
    BY <2>1
  <2>6. CurrentVersionIsFile'
    <3>1. ASSUME NEW m \in AccountSet \cup {"ci"}, op.step = "idle" \/ op.name # m,
                 secrets[m][version[m]] # 0
          PROVE  secrets[m][version[m]] = file'[m]
      <4>1. Turn("write", n)
        BY <1>4 DEF Write
      <4>2. m # n
        BY <3>1, <4>1, Zenon DEF WriteIsOwed
      <4>3. file'[m] = file[m]
        BY <1>n, <2>1, <4>2
      <4> QED
        BY <3>1, <4>3
    <3> QED
      BY <2>1, <3>1
  <2> QED
    BY <2>3, <2>4, <2>5, <2>6
<1>5. ASSUME NEW n \in Names, Publish(n) PROVE Inv'
  <2>1. version' = version /\ file' = file /\ drawn' = drawn /\ op' = op
    BY <1>5 DEF Publish
  <2>2. CASE secrets' = secrets
    BY <2>1, <2>2
  <2>3. CASE secrets' = [secrets EXCEPT ![n][version[n]] = IF @ = 0 THEN file[n] ELSE @]
    <3>1. /\ secrets' \in [Names -> [Versions -> Values]]
          /\ \A m \in Names : \A v \in Versions :
                secrets'[m][v] = IF m = n /\ v = version[n] /\ secrets[n][version[n]] = 0
                                 THEN file[n] ELSE secrets[m][v]
      BY <2>3
    <3>2. NothingAhead'
      <4>1. ASSUME NEW m \in Names, NEW v \in Versions, v > version[m] PROVE secrets'[m][v] = 0
        <5>1. v # version[m]
          BY <4>1
        <5>2. secrets[m][v] = 0
          BY <4>1
        <5>3. secrets'[m][v] = IF m = n /\ v = version[n] /\ secrets[n][version[n]] = 0
                               THEN file[n] ELSE secrets[m][v]
          BY <3>1
        <5>4. ~(m = n /\ v = version[n])
          BY <5>1
        <5> QED
          BY <5>2, <5>3, <5>4
      <4> QED
        BY <2>1, <4>1
    <3>3. CurrentVersionIsFile'
      <4>1. ASSUME NEW m \in AccountSet \cup {"ci"}, op.step = "idle" \/ op.name # m,
                   secrets'[m][version[m]] # 0
            PROVE  secrets'[m][version[m]] = file[m]
        <5>1. m \in Names /\ version[m] \in Versions
          BY <1>n
        <5>2. secrets'[m][version[m]] = IF m = n /\ secrets[n][version[n]] = 0
                                        THEN file[n] ELSE secrets[m][version[m]]
          BY <3>1, <5>1
        <5> QED
          BY <4>1, <5>1, <5>2
      <4> QED
        BY <2>1, <4>1
    <3> QED
      BY <2>1, <3>1, <3>2, <3>3
  <2> QED
    BY <1>5, <2>2, <2>3 DEF Publish
<1>6. CASE MakeHtpasswd
  <2>1. Hashed \in Values
    <3>1. file \in [Names -> Values] /\ "ci" \in Names
      BY <1>n
    <3>2. Blank \in Values
      BY DEF Blank
    <3>3. file["ci"] \in Values
      BY <3>1, Zenon
    <3> QED
      BY <3>2, <3>3, Zenon DEF Hashed
  <2>2. /\ file' = [file EXCEPT !["ht"] = Hashed]
        /\ version' = version /\ secrets' = secrets /\ drawn' = drawn /\ op' = op
    BY <1>6 DEF MakeHtpasswd
  <2>3. file' \in [Names -> Values] /\ \A m \in AccountSet \cup {"ci"} : file'[m] = file[m]
    <3>1. /\ file' = [file EXCEPT !["ht"] = Hashed] /\ Hashed \in Values
          /\ file \in [Names -> Values]
      BY <2>1, <2>2
    <3> HIDE DEF Values
    <3> QED
      BY <1>n, <3>1
  <2>4. Stored'
    BY <2>2, <2>3
  <2>5. VersionsAreDrawn' /\ NothingAhead'
    BY <2>2
  <2>6. CurrentVersionIsFile'
    BY <2>2, <2>3
  <2> QED
    BY <2>4, <2>5, <2>6
<1>7. CASE HookFails
  <2>1. version' = version /\ secrets' = secrets /\ drawn' = drawn /\ op' = op
    BY <1>7 DEF HookFails
  <2>2. CASE file' = file
    BY <2>1, <2>2
  <2>3. CASE \E n \in Names : /\ Turn(IF n = "ht" THEN "hash" ELSE "write", n)
                            /\ file' = [file EXCEPT ![n] = 0]
    <3>1. PICK n \in Names : /\ Turn(IF n = "ht" THEN "hash" ELSE "write", n)
                             /\ file' = [file EXCEPT ![n] = 0]
      BY <2>3
    <3>f. file' \in [Names -> Values] /\ \A m \in Names : m # n => file'[m] = file[m]
      <4>1. file' = [file EXCEPT ![n] = 0] /\ 0 \in Values /\ file \in [Names -> Values]
        BY <3>1
      <4> HIDE DEF Values
      <4> QED
        BY <4>1
    <3>2. Stored' /\ VersionsAreDrawn' /\ NothingAhead'
      <4>1. Stored'
        BY <2>1, <3>f
      <4>2. VersionsAreDrawn' /\ NothingAhead'
        BY <2>1
      <4> QED
        BY <4>1, <4>2
    <3>3. ASSUME NEW m \in AccountSet \cup {"ci"}, op.step = "idle" \/ op.name # m,
                 secrets[m][version[m]] # 0
          PROVE  secrets[m][version[m]] = file'[m]
      <4>1. m = n => n # "ht" /\ Turn("write", n)
        BY <1>n, <3>1
      <4>2. m # n
        BY <3>3, <4>1, Zenon DEF WriteIsOwed
      <4> QED
        BY <1>n, <3>f, <3>3, <4>2
    <3> QED
      BY <2>1, <3>2, <3>3
  <2> QED
    BY <1>7, <2>2, <2>3 DEF HookFails
<1>8. CASE \/ \E stack \in {"app", "platform"} : Start(stack)
           \/ \E n \in Names : Generate(n) \/ Apply(n)
           \/ Derive \/ RegistryLogin \/ StackDeploy \/ Converge \/ RollBack
           \/ UNCHANGED vars
  <2>1. UNCHANGED <<file, version, secrets, drawn, op>>
    BY <1>8 DEF Start, Generate, Apply, Derive, RegistryLogin, StackDeploy, Converge, RollBack, vars
  <2> QED
    BY <2>1
<1> QED
  BY <1>1, <1>2, <1>3, <1>4, <1>5, <1>6, <1>7, <1>8 DEF Next

(***************************************************************************)
(* The hooks, as sequences of commands.                                    *)
(***************************************************************************)

Listed(t, todo) == \E k \in 1..Len(todo) : todo[k] = t

\* What a hook is made of; the other commands follow a test.
Command == [do: {"generate", "publish", "apply", "derive", "login"}, name: Names]

LEMMA DoIsCommand ==
    ASSUME NEW what \in {"generate", "publish", "apply", "derive", "login"}, NEW n \in Names
    PROVE  Do(what, n) \in Command
BY DEF Do, Command

LEMMA AccountHook ==
    ASSUME NEW n \in Names
    PROVE  /\ EnsureAccount(n) \in Seq(Command)
           /\ Len(EnsureAccount(n)) = 3
           /\ EnsureAccount(n)[2] = Do("publish", n)
           /\ EnsureAccount(n)[3] = Do("apply", n)
<1>1. Do("generate", n) \in Command /\ Do("publish", n) \in Command /\ Do("apply", n) \in Command
  BY DoIsCommand
<1> HIDE DEF Command
<1> QED
  BY <1>1 DEF EnsureAccount, EnsureSecret

\* The app stack's hook has a place for the commands of every account.
LEMMA AccountsHook ==
    /\ EnsureAccounts \in Seq(Command)
    /\ \A n \in AccountSet : /\ Listed(Do("publish", n), EnsureAccounts)
                             /\ Listed(Do("apply", n), EnsureAccounts)
<1> DEFINE N == Len(Accounts)
<1>1. N \in Nat /\ \A i \in 1..N : Accounts[i] \in Names
  BY SecretsAssumption DEF AccountSet, Names
<1>2. /\ DOMAIN EnsureAccounts = 1..(3 * N)
      /\ \A k \in 1..(3 * N) :
            EnsureAccounts[k] = EnsureAccount(Accounts[(k + 2) \div 3])[1 + ((k - 1) % 3)]
  BY DEF EnsureAccounts
<1>3. ASSUME NEW k \in 1..(3 * N) PROVE EnsureAccounts[k] \in Command
  <2>1. (k + 2) \div 3 \in 1..N /\ 1 + ((k - 1) % 3) \in 1..3
    BY <1>1
  <2>2. Accounts[(k + 2) \div 3] \in Names
    BY <1>1, <2>1
  <2>3. /\ EnsureAccount(Accounts[(k + 2) \div 3]) \in Seq(Command)
        /\ Len(EnsureAccount(Accounts[(k + 2) \div 3])) = 3
    BY <2>2, AccountHook
  <2>4. EnsureAccount(Accounts[(k + 2) \div 3])[1 + ((k - 1) % 3)] \in Command
    BY <2>1, <2>3
  <2> QED
    BY <1>2, <2>4
<1>4. EnsureAccounts \in [1..(3 * N) -> Command]
  <2>1. EnsureAccounts = [k \in 1..(3 * N) |-> EnsureAccounts[k]]
    BY DEF EnsureAccounts
  <2> QED
    BY <1>3, <2>1
<1>5. 3 * N \in Nat
  BY <1>1
<1>6. EnsureAccounts \in Seq(Command) /\ Len(EnsureAccounts) = 3 * N
  BY <1>4, <1>5
<1>7. ASSUME NEW n \in AccountSet
      PROVE  Listed(Do("publish", n), EnsureAccounts) /\ Listed(Do("apply", n), EnsureAccounts)
  <2>1. PICK i \in 1..N : Accounts[i] = n
    BY DEF AccountSet
  <2>2. n \in Names
    BY DEF Names
  <2>3. /\ 3 * i - 1 \in 1..(3 * N) /\ (3 * i - 1 + 2) \div 3 = i /\ 1 + ((3 * i - 1 - 1) % 3) = 2
        /\ 3 * i \in 1..(3 * N) /\ (3 * i + 2) \div 3 = i /\ 1 + ((3 * i - 1) % 3) = 3
    BY <1>1
  <2>4. EnsureAccounts[3 * i - 1] = EnsureAccount(n)[2] /\ EnsureAccounts[3 * i] = EnsureAccount(n)[3]
    BY <1>2, <2>1, <2>3
  <2>5. EnsureAccounts[3 * i - 1] = Do("publish", n) /\ EnsureAccounts[3 * i] = Do("apply", n)
    BY <2>2, <2>4, AccountHook
  <2> QED
    BY <1>6, <2>3, <2>5 DEF Listed
<1> QED
  BY <1>6, <1>7

LEMMA HookShape ==
    /\ \A stack \in {"app", "platform"} : Hook(stack) \in Seq(Command)
    /\ \A n \in AccountSet : /\ Listed(Do("publish", n), Hook("app"))
                             /\ Listed(Do("apply", n), Hook("app"))
<1>1. "ci" \in Names /\ "ht" \in Names
  BY DEF Names
<1>2. Do("login", "ci") \in Command
  BY <1>1, DoIsCommand
<1>3. Hook("platform") \in Seq(Command)
  <2>1. /\ Do("generate", "ci") \in Command /\ Do("publish", "ci") \in Command
        /\ Do("derive", "ht") \in Command /\ Do("publish", "ht") \in Command
    BY <1>1, DoIsCommand
  <2>2. EnsureSecret("ci") \in Seq(Command)
    BY <2>1 DEF EnsureSecret
  <2>3. <<Do("derive", "ht"), Do("publish", "ht")>> \in Seq(Command)
    BY <2>1
  <2> QED
    BY <2>2, <2>3 DEF Hook, EnsureHtpasswd
<1>4. /\ Hook("app") = Append(EnsureAccounts, Do("login", "ci"))
      /\ EnsureAccounts \in Seq(Command)
  BY AccountsHook DEF Hook
<1>5. /\ Hook("app") \in Seq(Command)
      /\ Len(Hook("app")) = Len(EnsureAccounts) + 1
      /\ \A k \in 1..Len(EnsureAccounts) : Hook("app")[k] = EnsureAccounts[k]
  BY <1>2, <1>4
<1>6. ASSUME NEW t, Listed(t, EnsureAccounts) PROVE Listed(t, Hook("app"))
  <2>1. PICK k \in 1..Len(EnsureAccounts) : EnsureAccounts[k] = t
    BY <1>6 DEF Listed
  <2>2. Len(EnsureAccounts) \in Nat
    BY <1>4
  <2>3. k \in 1..Len(Hook("app")) /\ Hook("app")[k] = t
    BY <1>5, <2>1, <2>2
  <2> QED
    BY <2>3 DEF Listed
<1> QED
  BY <1>3, <1>5, <1>6, AccountsHook

\* The command just taken is the only one that may leave the list.
LEMMA TailListed ==
    ASSUME NEW todo \in Seq(Task), todo # <<>>, NEW t, t # Head(todo), Listed(t, todo)
    PROVE  Listed(t, Tail(todo))
<1>1. PICK k \in 1..Len(todo) : todo[k] = t
  BY DEF Listed
<1>2. k # 1
  BY <1>1
<1>3. /\ k - 1 \in 1..Len(Tail(todo))
      /\ Tail(todo)[k - 1] = todo[k]
  BY <1>1, <1>2
<1> QED
  BY <1>1, <1>3 DEF Listed

LEMMA CommandIsTask == Seq(Command) \subseteq Seq(Task)
<1>1. Command \subseteq Task
  BY DEF Command, Task
<1> HIDE DEF Command, Task
<1> QED
  BY <1>1

(***************************************************************************)
(* Types, the deploy's too.                                                *)
(***************************************************************************)

Deploys == [stack: {"none", "app", "platform"}, todo: Seq(Task), waits: BOOLEAN,
            exports: [Names -> {0} \cup Versions], before: [Names -> {0} \cup Versions],
            quiet: BOOLEAN, worked: BOOLEAN]

Typed ==
    /\ account \in [AccountSet -> Values]
    /\ mounted \in [Names -> {0} \cup Versions]
    /\ d \in Deploys
    /\ result \in {"none", "success", "failure"}
    /\ faults \in 0..MaxFaults

LEMMA TypedMeansTypeOK == TypeOK <=> Stored /\ Typed
BY DEF TypeOK, Stored, Typed, Deploys

LEMMA NoDeployIsDeploy == NoDeploy \in Deploys
<1>1. <<>> \in Seq(Task)
  OBVIOUS
<1>2. Unversioned \in [Names -> {0} \cup Versions]
  BY DEF Unversioned
<1> QED
  BY <1>1, <1>2 DEF NoDeploy, Deploys

LEMMA InitTyped == Init => Typed
<1>1. SUFFICES ASSUME Init PROVE Typed
  OBVIOUS
<1>2. Unversioned \in [Names -> {0} \cup Versions]
  BY DEF Unversioned
<1>3. d \in Deploys
  BY NoDeployIsDeploy, <1>1 DEF Init
<1> QED
  BY SecretsAssumption, <1>1, <1>2, <1>3 DEF Init, Typed, Values

LEMMA ProceedKeepsDeploys ==
    ASSUME d \in Deploys, d.todo # <<>>, Proceed
    PROVE  /\ d' \in Deploys
           /\ d'.stack = d.stack /\ d'.waits = d.waits /\ d'.quiet = d.quiet
           /\ d'.exports = d.exports
           /\ d'.todo = Tail(d.todo)
<1>1. Tail(d.todo) \in Seq(Task)
  BY DEF Deploys
<1>2. d' = [d EXCEPT !.todo = Tail(d.todo)]
  BY DEF Proceed
<1> HIDE DEF Task
<1> QED
  BY <1>1, <1>2, Zenon DEF Deploys

LEMMA InsteadKeepsDeploys ==
    ASSUME d \in Deploys, d.todo # <<>>, NEW what \in {"write", "hash"}, NEW n \in Names,
           Instead(what, n)
    PROVE  /\ d' \in Deploys
           /\ d'.stack = d.stack /\ d'.waits = d.waits /\ d'.quiet = d.quiet
           /\ d'.exports = d.exports
           /\ Head(d'.todo) = Do(what, n) /\ d'.todo # <<>>
           /\ Tail(d'.todo) = Tail(d.todo)
           /\ Len(d'.todo) = Len(d.todo)
           /\ \A k \in 2..Len(d.todo) : d'.todo[k] = d.todo[k]
<1>1. Do(what, n) \in Task
  BY DEF Do, Task
<1> HIDE DEF Task, Do
<1>2. d.todo \in Seq(Task)
  BY DEF Deploys
<1> DEFINE T == [d.todo EXCEPT ![1] = Do(what, n)]
<1>3. /\ T \in Seq(Task) /\ T # <<>> /\ Len(T) = Len(d.todo)
      /\ T[1] = Do(what, n) /\ \A k \in 2..Len(d.todo) : T[k] = d.todo[k]
  BY <1>1, <1>2
<1>4. Head(T) = Do(what, n)
  BY <1>3
<1>5. Tail(T) = Tail(d.todo)
  BY <1>2, <1>3
<1> HIDE DEF T
<1>6. d' = [d EXCEPT !.todo = T]
  BY DEF Instead, T
<1>7. /\ d' \in Deploys
      /\ d'.stack = d.stack /\ d'.waits = d.waits /\ d'.quiet = d.quiet
      /\ d'.exports = d.exports /\ d'.todo = T
  BY <1>3, <1>6, Zenon DEF Deploys
<1> QED
  BY <1>3, <1>4, <1>5, <1>7, Zenon

LEMMA NextTyped == Stored /\ Typed /\ [Next]_vars => Typed'
<1> SUFFICES ASSUME Stored, Typed, [Next]_vars PROVE Typed'
  OBVIOUS
<1> USE DEF Typed
<1>n. AccountSet \cup {"ci"} \subseteq Names /\ "ht" \in Names /\ MaxFaults \in Nat
  BY SecretsAssumption DEF Names
<1>e. ASSUME NEW how \in {"success", "failure"}, End(how)
      PROVE  d' \in Deploys /\ result' \in {"none", "success", "failure"}
  BY <1>e, NoDeployIsDeploy DEF End
<1>p. ASSUME d.todo # <<>>, Proceed
      PROVE  d' \in Deploys /\ result' \in {"none", "success", "failure"}
  BY <1>p, ProceedKeepsDeploys DEF Proceed
<1>q. ASSUME Disturb PROVE d' \in Deploys
  <2>1. (d.stack = "none") \in BOOLEAN
    OBVIOUS
  <2> QED
    BY <1>q, <2>1 DEF Disturb, Deploys
<1>f. ASSUME Fault PROVE faults' \in 0..MaxFaults
  BY <1>f, <1>n DEF Fault
<1>1. ASSUME NEW n \in AccountSet \cup {"ci"}, OpenFile(n) PROVE Typed'
  BY <1>1, <1>q DEF OpenFile
<1>2. CASE WriteFile
  BY <1>2, <1>q DEF WriteFile
<1>3. CASE BumpVersion
  BY <1>3, <1>q DEF BumpVersion
<1>4. ASSUME NEW stack \in {"app", "platform"}, Start(stack) PROVE Typed'
  <2>1. Hook(stack) \in Seq(Task)
    BY HookShape, CommandIsTask
  <2>2. /\ (op.step = "idle") \in BOOLEAN
        /\ (\A n \in AccountSet : mounted[n] # 0 /\ CanLogIn(n)) \in BOOLEAN
    OBVIOUS
  <2>3. d' = [NoDeploy EXCEPT !.stack = stack, !.todo = Hook(stack), !.quiet = (op.step = "idle"),
                     !.worked = (\A n \in AccountSet : mounted[n] # 0 /\ CanLogIn(n))]
    BY <1>4 DEF Start
  <2>4. d' \in Deploys
    <3> HIDE DEF Task, Hook, CanLogIn
    <3> QED
      BY <2>1, <2>2, <2>3, NoDeployIsDeploy, Zenon DEF Deploys
  <2> QED
    BY <1>4, <2>4 DEF Start
<1>i. ASSUME d.todo # <<>>, NEW what \in {"write", "hash"}, NEW n \in Names, Instead(what, n)
      PROVE  d' \in Deploys /\ result' \in {"none", "success", "failure"}
  BY <1>i, InsteadKeepsDeploys DEF Instead
<1>v. d \in Deploys => [n \in Names |-> IF n \in Uses(d.stack) THEN d.exports[n] ELSE mounted[n]]
                       \in [Names -> {0} \cup Versions]
  BY DEF Deploys
<1>5. ASSUME NEW n \in Names, Generate(n) \/ Write(n) PROVE Typed'
  <2> USE DEF Turn
  <2>1. CASE Write(n)
    BY <2>1, <1>p DEF Write
  <2>2. CASE Generate(n)
    BY <2>2, <1>p, <1>i DEF Generate
  <2> QED
    BY <1>5, <2>1, <2>2
<1>6. ASSUME NEW n \in Names, Publish(n) PROVE Typed'
  <2>1. CASE End("failure")
    BY <1>6, <1>e, <2>1 DEF Publish
  <2>2. CASE d' = [d EXCEPT !.todo = Tail(@), !.exports[n] = version[n]] /\ UNCHANGED result
    <3>1. Tail(d.todo) \in Seq(Task)
      BY <1>6 DEF Deploys, Publish, Turn
    <3>2. [d.exports EXCEPT ![n] = version[n]] \in [Names -> {0} \cup Versions]
      BY DEF Deploys, Stored
    <3>3. d' = [d EXCEPT !.todo = Tail(d.todo), !.exports = [d.exports EXCEPT ![n] = version[n]]]
      BY <2>2
    <3>4. d' \in Deploys
      BY <3>1, <3>2, <3>3, Zenon DEF Deploys
    <3> QED
      BY <1>6, <2>2, <3>4 DEF Publish
  <2> QED
    BY <1>6, <2>1, <2>2 DEF Publish
<1>7. ASSUME NEW n \in Names, Apply(n) PROVE Typed'
  <2>1. account' \in [AccountSet -> Values]
    BY <1>7 DEF Apply, Stored
  <2> QED
    BY <1>7, <1>p, <1>e, <2>1 DEF Apply, Turn
<1>8. CASE Derive \/ MakeHtpasswd
  <2>1. CASE MakeHtpasswd
    BY <2>1, <1>p DEF MakeHtpasswd, Turn
  <2>2. CASE Derive
    BY <2>2, <1>n, <1>p, <1>i DEF Derive, Turn
  <2> QED
    BY <1>8, <2>1, <2>2
<1>9. CASE RegistryLogin
  BY <1>9, <1>p, <1>e DEF RegistryLogin, Turn
<1>10. CASE StackDeploy
  <2>1. mounted' \in [Names -> {0} \cup Versions]
    BY <1>10, <1>v DEF StackDeploy, Passed
  <2>2. d' = [d EXCEPT !.waits = TRUE, !.before = mounted]
    BY <1>10 DEF StackDeploy
  <2>3. d' \in Deploys
    BY <2>2, Zenon DEF Deploys
  <2> QED
    BY <1>10, <2>1, <2>3 DEF StackDeploy
<1>11. CASE Converge
  BY <1>11, <1>e DEF Converge
<1>12. CASE RollBack
  <2>1. mounted' \in [Names -> {0} \cup Versions]
    BY <1>12 DEF RollBack, Deploys
  <2>2. faults' \in 0..MaxFaults
    BY <1>12, <1>f DEF RollBack
  <2> QED
    BY <1>12, <1>e, <2>1, <2>2 DEF RollBack
<1>13. CASE HookFails
  BY <1>13, <1>e, <1>f, <1>v DEF HookFails, Passed
<1>14. CASE UNCHANGED vars
  BY <1>14 DEF vars
<1> QED
  BY <1>1, <1>2, <1>3, <1>4, <1>5, <1>6, <1>7, <1>8, <1>9, <1>10, <1>11, <1>12, <1>13, <1>14
     DEF Next

(***************************************************************************)
(* What a deploy has done, from what is left of its hook.                  *)
(***************************************************************************)

Pending(what, n) == Listed(Do(what, n), d.todo)

\* No deploy, nothing to do; the services are waited for after the hook; and
\* a deploy that nobody disturbed has no rotation beside it.
DeployShape ==
    /\ d.stack = "none" => d.todo = <<>> /\ ~d.waits
    /\ d.waits => d.todo = <<>>
    /\ d.stack # "none" /\ d.quiet => op.step = "idle"

\* The version passed on is the current one, and it is published.
PublishedIsPassed ==
    d.stack = "app" /\ d.quiet => \A n \in AccountSet :
        Pending("publish", n) \/ (d.exports[n] = version[n] /\ secrets[n][version[n]] # 0)

\* The account accepts what the file says, which is not drawn again.
AppliedIsFile ==
    d.stack = "app" /\ d.quiet => \A n \in AccountSet :
        Pending("apply", n) \/ (file[n] # 0 /\ account[n] = file[n])

\* The services mount what was passed on.
MountedIsPassed ==
    d.stack = "app" /\ d.waits => \A n \in AccountSet : mounted[n] = d.exports[n]

HookParts == DeployShape /\ PublishedIsPassed /\ AppliedIsFile /\ MountedIsPassed

LEMMA InitHook == Init => HookParts
BY DEF Init, NoDeploy, HookParts, DeployShape, PublishedIsPassed, AppliedIsFile, MountedIsPassed

\* A deploy that ended, or that somebody disturbed, owes nothing.
LEMMA EndHook ==
    ASSUME NEW how, End(how)
    PROVE  HookParts' /\ d'.stack = "none"
BY DEF End, NoDeploy, HookParts, DeployShape, PublishedIsPassed, AppliedIsFile, MountedIsPassed

LEMMA DisturbedHook ==
    ASSUME Stored, Typed, HookParts, Disturb, UNCHANGED <<mounted>>
    PROVE  HookParts' /\ d'.stack = d.stack
<1>1. d' = [d EXCEPT !.quiet = (d.stack = "none")] /\ d \in Deploys
  BY DEF Disturb, Typed
<1>2. /\ d'.stack = d.stack /\ d'.todo = d.todo /\ d'.waits = d.waits /\ d'.exports = d.exports
      /\ d'.quiet = (d.stack = "none")
  BY <1>1 DEF Deploys
<1>3. DeployShape' /\ MountedIsPassed'
  BY <1>2 DEF HookParts, DeployShape, MountedIsPassed
<1>4. d'.stack = "app" => ~d'.quiet
  BY <1>2
<1> QED
  BY <1>2, <1>3, <1>4 DEF HookParts, PublishedIsPassed, AppliedIsFile

\* A command of the hook that does what it says keeps what was done before.
LEMMA ProceedHook ==
    ASSUME Stored, Typed, HookParts,
           NEW what, NEW n, Turn(what, n), Len(d.todo) \in Nat,
           d'.stack = d.stack, d'.waits = d.waits, d'.quiet = d.quiet,
           d'.todo = Tail(d.todo), op' = op,
           \A m \in AccountSet :
               /\ (d.exports[m] = version[m] /\ secrets[m][version[m]] # 0) \/ <<what, n>> = <<"publish", m>>
                    => (d'.exports[m] = version'[m] /\ secrets'[m][version'[m]] # 0)
               /\ (file[m] # 0 /\ account[m] = file[m]) \/ <<what, n>> = <<"apply", m>>
                    => (file'[m] # 0 /\ account'[m] = file'[m])
    PROVE  HookParts'
<1>1. d.todo \in Seq(Task) /\ d.todo # <<>> /\ Head(d.todo) = Do(what, n)
  BY DEF Typed, Deploys, Turn
<1>2. ~d.waits /\ d.stack # "none"
  BY <1>1 DEF HookParts, DeployShape
<1>3. ASSUME NEW w, NEW m, Pending(w, m), <<w, m>> # <<what, n>>
      PROVE  Listed(Do(w, m), d'.todo)
  <2>1. Do(w, m) # Do(what, n)
    BY <1>3 DEF Do
  <2> QED
    BY <1>1, <1>3, <2>1, TailListed DEF Pending
<1>4. DeployShape' /\ MountedIsPassed'
  BY <1>2 DEF HookParts, DeployShape, MountedIsPassed
<1>5. PublishedIsPassed'
  <2> SUFFICES ASSUME d.stack = "app", d.quiet, NEW m \in AccountSet,
                      ~Listed(Do("publish", m), d'.todo)
               PROVE  d'.exports[m] = version'[m] /\ secrets'[m][version'[m]] # 0
    BY DEF PublishedIsPassed, Pending
  <2>1. \/ d.exports[m] = version[m] /\ secrets[m][version[m]] # 0
        \/ <<"publish", m>> = <<what, n>>
    BY <1>3 DEF HookParts, PublishedIsPassed
  <2> QED
    BY <2>1
<1>6. AppliedIsFile'
  <2> SUFFICES ASSUME d.stack = "app", d.quiet, NEW m \in AccountSet,
                      ~Listed(Do("apply", m), d'.todo)
               PROVE  file'[m] # 0 /\ account'[m] = file'[m]
    BY DEF AppliedIsFile, Pending
  <2>1. \/ file[m] # 0 /\ account[m] = file[m]
        \/ <<"apply", m>> = <<what, n>>
    BY <1>3 DEF HookParts, AppliedIsFile
  <2> QED
    BY <2>1
<1> QED
  BY <1>4, <1>5, <1>6 DEF HookParts

LEMMA NextHook == Stored /\ Typed /\ HookParts /\ WriteIsOwed /\ [Next]_vars => HookParts'
<1> SUFFICES ASSUME Stored, Typed, HookParts, WriteIsOwed, [Next]_vars PROVE HookParts'
  OBVIOUS
<1>n. /\ AccountSet \subseteq Names /\ "ht" \notin AccountSet /\ "ci" \notin AccountSet
  BY SecretsAssumption DEF Names
<1>t. /\ d \in Deploys /\ Len(d.todo) \in Nat
  BY DEF Typed, Deploys
<1>p. ASSUME d.todo # <<>>, Proceed
      PROVE  /\ d'.stack = d.stack /\ d'.waits = d.waits /\ d'.quiet = d.quiet
             /\ d'.exports = d.exports /\ d'.todo = Tail(d.todo)
  BY <1>p, <1>t, ProceedKeepsDeploys
<1>1. ASSUME NEW n \in AccountSet \cup {"ci"}, OpenFile(n) PROVE HookParts'
  BY <1>1, DisturbedHook DEF OpenFile
<1>2. CASE WriteFile
  BY <1>2, DisturbedHook DEF WriteFile
<1>3. CASE BumpVersion
  BY <1>3, DisturbedHook DEF BumpVersion
<1>4. ASSUME NEW stack \in {"app", "platform"}, Start(stack) PROVE HookParts'
  <2>1. /\ d'.stack = stack /\ d'.todo = Hook(stack) /\ d'.quiet = (op.step = "idle")
        /\ d'.waits = FALSE /\ op' = op
    BY <1>4 DEF Start, NoDeploy
  <2>2. d'.stack = "app" => \A n \in AccountSet : /\ Listed(Do("publish", n), d'.todo)
                                                 /\ Listed(Do("apply", n), d'.todo)
    BY <2>1, HookShape
  <2>3. DeployShape' /\ MountedIsPassed'
    BY <2>1 DEF DeployShape, MountedIsPassed
  <2>4. PublishedIsPassed' /\ AppliedIsFile'
    BY <2>2 DEF PublishedIsPassed, AppliedIsFile, Pending
  <2> QED
    BY <2>3, <2>4 DEF HookParts
<1>i. ASSUME NEW what \in {"write", "hash"}, NEW n \in Names, d.todo # <<>>, Instead(what, n),
             Head(d.todo).do \notin {"publish", "apply"},
             UNCHANGED <<file, version, secrets, account, op>>
      PROVE  HookParts'
  <2>1. /\ d'.stack = d.stack /\ d'.waits = d.waits /\ d'.quiet = d.quiet
        /\ d'.exports = d.exports /\ Len(d'.todo) = Len(d.todo)
        /\ \A k \in 2..Len(d.todo) : d'.todo[k] = d.todo[k]
    BY <1>t, <1>i, InsteadKeepsDeploys
  <2>2. ASSUME NEW w \in {"publish", "apply"}, NEW m, Pending(w, m) PROVE Pending(w, m)'
    <3>1. PICK k \in 1..Len(d.todo) : d.todo[k] = Do(w, m)
      BY <2>2 DEF Pending, Listed
    <3>2. k # 1
      <4>1. k = 1 => Head(d.todo) = Do(w, m)
        BY <1>t, <1>i, <3>1 DEF Deploys
      <4>2. Do(w, m).do = w
        BY DEF Do
      <4> QED
        BY <1>i, <4>1, <4>2
    <3>3. k \in 2..Len(d.todo) /\ k \in 1..Len(d'.todo)
      BY <1>t, <2>1, <3>1, <3>2
    <3>4. d'.todo[k] = Do(w, m)
      BY <2>1, <3>1, <3>3
    <3> QED
      BY <3>3, <3>4 DEF Pending, Listed
  <2>3. ~d.waits /\ d.stack # "none"
    BY <1>i DEF HookParts, DeployShape
  <2>4. DeployShape' /\ MountedIsPassed'
    BY <1>i, <2>1, <2>3 DEF HookParts, DeployShape, MountedIsPassed
  <2>5. PublishedIsPassed' /\ AppliedIsFile'
    BY <1>i, <2>1, <2>2 DEF HookParts, PublishedIsPassed, AppliedIsFile
  <2> QED
    BY <2>4, <2>5 DEF HookParts
<1>5. ASSUME NEW n \in Names, Generate(n) \/ Write(n) PROVE HookParts'
  <2>1. CASE Generate(n) /\ Proceed
    <3>1. /\ Turn("generate", n) /\ d.todo # <<>> /\ Proceed
          /\ UNCHANGED <<file, version, secrets, account, op>>
      BY <2>1 DEF Generate, Turn
    <3> QED
      BY <1>p, <1>t, <3>1, ProceedHook
  <2>2. CASE Generate(n) /\ Instead("write", n)
    <3>1. d.todo # <<>> /\ Head(d.todo).do = "generate" /\ UNCHANGED <<file, version, secrets, account, op>>
      BY <2>2 DEF Generate, Turn, Do
    <3> QED
      BY <1>i, <2>2, <3>1
  <2>3. CASE Write(n)
    <3>1. /\ Turn("write", n) /\ d.todo # <<>> /\ Proceed
          /\ version' = version /\ secrets' = secrets /\ account' = account /\ op' = op
          /\ \A m \in AccountSet : m # n => file'[m] = file[m]
      BY <2>3, <1>n DEF Write, Turn, Stored
    <3>2. CASE ~d.quiet
      <4>1. d'.quiet = d.quiet /\ d'.stack = d.stack /\ d'.waits = d.waits /\ d'.todo = Tail(d.todo)
        BY <1>p, <3>1
      <4>2. ~d.waits /\ d.stack # "none"
        BY <3>1 DEF HookParts, DeployShape
      <4> QED
        BY <3>2, <4>1, <4>2
           DEF HookParts, DeployShape, PublishedIsPassed, AppliedIsFile, MountedIsPassed
    <3>3. CASE d.quiet
      <4>1. n \in AccountSet => file[n] = 0
        BY <3>1, <3>3, Zenon DEF WriteIsOwed
      <4>2. \A m \in AccountSet : file[m] # 0 => file'[m] = file[m]
        BY <3>1, <4>1
      <4> QED
        BY <1>p, <1>t, <3>1, <4>2, ProceedHook
    <3> QED
      BY <3>2, <3>3
  <2> QED
    BY <1>5, <2>1, <2>2, <2>3 DEF Generate
<1>6. ASSUME NEW n \in Names, Publish(n) PROVE HookParts'
  <2>1. CASE End("failure")
    BY <2>1, EndHook
  <2>2. CASE /\ secrets[n][version[n]] # 0 \/ file[n] # 0
             /\ secrets' = [secrets EXCEPT ![n][version[n]] = IF @ = 0 THEN file[n] ELSE @]
             /\ d' = [d EXCEPT !.todo = Tail(@), !.exports[n] = version[n]]
    <3>1. /\ Turn("publish", n) /\ op' = op /\ version' = version /\ file' = file /\ account' = account
      BY <1>6 DEF Publish
    <3>2. /\ d'.stack = d.stack /\ d'.waits = d.waits /\ d'.quiet = d.quiet
          /\ d'.todo = Tail(d.todo) /\ d'.exports = [d.exports EXCEPT ![n] = version[n]]
      BY <1>t, <2>2 DEF Deploys
    <3>3. version[n] \in Versions
      BY DEF Stored
    <3>4. ASSUME NEW m \in AccountSet,
                 (d.exports[m] = version[m] /\ secrets[m][version[m]] # 0) \/ n = m
          PROVE  d'.exports[m] = version'[m] /\ secrets'[m][version'[m]] # 0
      <4>1. m \in Names /\ version[m] \in Versions
        BY <1>n DEF Stored
      <4>2. d.exports \in [Names -> {0} \cup Versions] /\ secrets \in [Names -> [Versions -> Values]]
        BY <1>t DEF Stored, Deploys
      <4>3. d'.exports[m] = version[m]
        BY <3>2, <3>4, <4>1, <4>2
      <4>4. secrets'[m][version[m]] = IF m = n /\ secrets[n][version[n]] = 0
                                     THEN file[n] ELSE secrets[m][version[m]]
        BY <2>2, <3>3, <4>1, <4>2
      <4> QED
        BY <2>2, <3>1, <3>4, <4>3, <4>4
    <3> QED
      BY <1>t, <3>1, <3>2, <3>4, ProceedHook
  <2> QED
    BY <1>6, <2>1, <2>2 DEF Publish
<1>7. ASSUME NEW n \in Names, Apply(n) PROVE HookParts'
  <2>1. CASE End("failure")
    BY <2>1, EndHook
  <2>2. CASE file[n] # 0 /\ account' = [account EXCEPT ![n] = file[n]] /\ Proceed
    <3>1. /\ Turn("apply", n) /\ d.todo # <<>> /\ op' = op
          /\ version' = version /\ file' = file /\ secrets' = secrets
      BY <1>7 DEF Apply, Turn
    <3>2. \A m \in AccountSet : account'[m] = IF m = n THEN file[m] ELSE account[m]
      BY <2>2 DEF Typed
    <3> QED
      BY <1>p, <1>t, <2>2, <3>1, <3>2, ProceedHook
  <2> QED
    BY <1>7, <2>1, <2>2 DEF Apply
<1>8. CASE Derive \/ MakeHtpasswd
  <2>1. CASE Derive /\ Proceed
    <3>1. /\ Turn("derive", "ht") /\ d.todo # <<>>
          /\ UNCHANGED <<file, version, secrets, account, op>>
      BY <2>1 DEF Derive, Turn
    <3> QED
      BY <1>p, <1>t, <2>1, <3>1, ProceedHook
  <2>2. CASE Derive /\ Instead("hash", "ht")
    <3>1. d.todo # <<>> /\ Head(d.todo).do = "derive" /\ UNCHANGED <<file, version, secrets, account, op>>
      BY <2>2 DEF Derive, Turn, Do
    <3>2. "ht" \in Names
      BY DEF Names
    <3> QED
      BY <1>i, <2>2, <3>1, <3>2
  <2>3. CASE MakeHtpasswd
    <3>1. /\ Turn("hash", "ht") /\ d.todo # <<>> /\ Proceed /\ op' = op
          /\ version' = version /\ account' = account /\ secrets' = secrets
      BY <2>3 DEF MakeHtpasswd, Turn
    <3>2. \A m \in AccountSet : file'[m] = file[m]
      BY <1>n, <2>3 DEF MakeHtpasswd, Stored
    <3> QED
      BY <1>p, <1>t, <3>1, <3>2, ProceedHook
  <2> QED
    BY <1>8, <2>1, <2>2, <2>3 DEF Derive
<1>9. CASE RegistryLogin
  <2>1. CASE End("failure")
    BY <2>1, EndHook
  <2>2. CASE Proceed
    <3>1. /\ Turn("login", "ci") /\ d.todo # <<>> /\ op' = op /\ file' = file
          /\ version' = version /\ account' = account /\ secrets' = secrets
      BY <1>9 DEF RegistryLogin, Turn
    <3> QED
      BY <1>p, <1>t, <2>2, <3>1, ProceedHook
  <2> QED
    BY <1>9, <2>1, <2>2 DEF RegistryLogin
<1>10. CASE StackDeploy
  <2>1. /\ d' = [d EXCEPT !.waits = TRUE, !.before = mounted]
        /\ d.stack # "none" /\ d.todo = <<>> /\ op' = op /\ version' = version /\ file' = file
        /\ account' = account /\ secrets' = secrets
        /\ mounted' = [n \in Names |-> IF n \in Uses(d.stack) THEN d.exports[n] ELSE mounted[n]]
    BY <1>10 DEF StackDeploy, Passed
  <2>2. /\ d'.stack = d.stack /\ d'.todo = d.todo /\ d'.exports = d.exports /\ d'.quiet = d.quiet
    BY <1>t, <2>1 DEF Deploys
  <2>3. DeployShape'
    BY <2>1, <2>2 DEF HookParts, DeployShape
  <2>4. MountedIsPassed'
    BY <1>n, <2>1, <2>2 DEF MountedIsPassed, Uses
  <2>5. PublishedIsPassed' /\ AppliedIsFile'
    BY <2>1, <2>2 DEF HookParts, PublishedIsPassed, AppliedIsFile, Pending
  <2> QED
    BY <2>3, <2>4, <2>5 DEF HookParts
<1>11. CASE Converge
  BY <1>11, EndHook DEF Converge
<1>12. CASE RollBack
  BY <1>12, EndHook DEF RollBack
<1>13. CASE HookFails
  BY <1>13, EndHook DEF HookFails
<1>14. CASE UNCHANGED vars
  BY <1>14 DEF vars, HookParts, DeployShape, PublishedIsPassed, AppliedIsFile, MountedIsPassed, Pending
<1> QED
  BY <1>1, <1>2, <1>3, <1>4, <1>5, <1>6, <1>7, <1>8, <1>9, <1>10, <1>11, <1>12, <1>13, <1>14
     DEF Next

(***************************************************************************)
(* Why a write over a value of the person's does not part what is          *)
(* published from the file.                                                *)
(***************************************************************************)

\* Only the next command can be a write: a hook is made without.
WritesFirst == d.todo # <<>> => Tail(d.todo) \in Seq(Command)

LEMMA InitWrites == Init => WriteIsOwed /\ WritesFirst
BY DEF Init, NoDeploy, WriteIsOwed, WritesFirst, Turn

LEMMA NoWriteFirst ==
    ASSUME NEW todo \in Seq(Command), d'.todo = todo
    PROVE  WriteIsOwed' /\ WritesFirst'
<1>1. todo # <<>> => Tail(todo) \in Seq(Command) /\ Head(todo) \in Command
  <2> HIDE DEF Command
  <2> QED
    OBVIOUS
<1>2. WritesFirst'
  BY <1>1 DEF WritesFirst
<1>3. \A n : ~(d'.todo # <<>> /\ Head(d'.todo) = Do("write", n))
  BY <1>1 DEF Command, Do
<1> QED
  BY <1>2, <1>3 DEF WriteIsOwed, Turn

LEMMA NextWrites ==
    Inv /\ Typed /\ HookParts /\ WriteIsOwed /\ WritesFirst /\ [Next]_vars
        => WriteIsOwed' /\ WritesFirst'
<1> SUFFICES ASSUME Inv, Typed, HookParts, WriteIsOwed, WritesFirst, [Next]_vars
             PROVE  WriteIsOwed' /\ WritesFirst'
  OBVIOUS
<1>n. AccountSet \cup {"ci"} \subseteq Names /\ "ht" \in Names
  BY DEF Names
<1>t. d \in Deploys
  BY DEF Typed
<1>0. <<>> \in Seq(Command)
  OBVIOUS
<1>e. ASSUME NEW how, End(how) PROVE WriteIsOwed' /\ WritesFirst'
  BY <1>0, <1>e, NoWriteFirst DEF End, NoDeploy
<1>p. ASSUME d.todo # <<>>, d'.todo = Tail(d.todo) PROVE WriteIsOwed' /\ WritesFirst'
  BY <1>p, NoWriteFirst DEF WritesFirst
<1>q. ASSUME d.todo # <<>>, Proceed PROVE d'.todo = Tail(d.todo)
  BY <1>t, <1>q, ProceedKeepsDeploys
<1>d. ASSUME Disturb
      PROVE  /\ d'.todo = d.todo /\ WritesFirst'
             /\ \A n : Turn("write", n)' => Turn("write", n) /\ ~d'.quiet
  <2>1. d' = [d EXCEPT !.quiet = (d.stack = "none")]
    BY <1>d DEF Disturb
  <2>2. d'.todo = d.todo /\ d'.quiet = (d.stack = "none")
    BY <1>t, <2>1 DEF Deploys
  <2>3. d.stack = "none" => d.todo = <<>>
    BY DEF HookParts, DeployShape
  <2> QED
    BY <2>2, <2>3 DEF Turn, WritesFirst
<1>1. ASSUME NEW n \in AccountSet \cup {"ci"}, OpenFile(n) PROVE WriteIsOwed' /\ WritesFirst'
  <2>1. Disturb /\ op.step = "idle" /\ op' = [name |-> n, step |-> "open"]
        /\ secrets' = secrets /\ version' = version
    BY <1>1 DEF OpenFile
  <2>2. ASSUME NEW m \in AccountSet \cup {"ci"}, Turn("write", m)' PROVE secrets[m][version[m]] = 0
    BY <1>d, <2>1, <2>2 DEF WriteIsOwed
  <2> QED
    BY <1>d, <2>1, <2>2 DEF WriteIsOwed
<1>2. CASE WriteFile
  <2>1. Disturb /\ op.step = "open" /\ op' = [op EXCEPT !.step = "written"]
        /\ secrets' = secrets /\ version' = version
    BY <1>2 DEF WriteFile
  <2>2. op'.name = op.name /\ op'.step # "idle"
    BY <2>1 DEF Inv, Stored
  <2> QED
    BY <1>d, <2>1, <2>2 DEF WriteIsOwed
<1>3. CASE BumpVersion
  <2>1. Disturb /\ op.step = "written" /\ version' = [version EXCEPT ![op.name] = @ + 1]
        /\ secrets' = secrets
    BY <1>3 DEF BumpVersion
  <2>2. secrets[op.name][version[op.name] + 1] = 0 /\ op.name \in Names
    BY <2>1, SecretsAssumption DEF Inv, Stored, Values, Versions, VersionsAreDrawn, NothingAhead
  <2>3. ASSUME NEW m \in AccountSet \cup {"ci"}, Turn("write", m)'
        PROVE  secrets'[m][version'[m]] = 0
    <3>1. secrets[m][version[m]] = 0 \/ op.name = m
      BY <1>d, <2>1, <2>3 DEF WriteIsOwed
    <3>2. version'[m] = IF m = op.name THEN version[m] + 1 ELSE version[m]
      BY <1>n, <2>1 DEF Inv, Stored
    <3> QED
      BY <2>1, <2>2, <3>1, <3>2
  <2> QED
    BY <1>d, <2>1, <2>3 DEF WriteIsOwed
<1>4. ASSUME NEW stack \in {"app", "platform"}, Start(stack) PROVE WriteIsOwed' /\ WritesFirst'
  <2>1. d'.todo = Hook(stack)
    BY <1>4 DEF Start, NoDeploy
  <2> QED
    BY <2>1, HookShape, NoWriteFirst
<1>5. ASSUME NEW n \in Names, Generate(n) \/ Write(n) PROVE WriteIsOwed' /\ WritesFirst'
  <2>1. d.todo # <<>>
    BY <1>5 DEF Generate, Write, Turn
  <2>2. CASE Proceed
    BY <1>p, <1>q, <2>1, <2>2
  <2>3. CASE Generate(n) /\ file[n] = 0 /\ Instead("write", n)
    <3>1. /\ d'.quiet = d.quiet /\ Head(d'.todo) = Do("write", n)
          /\ Tail(d'.todo) = Tail(d.todo)
      BY <1>t, <2>1, <2>3, InsteadKeepsDeploys
    <3>2. WritesFirst'
      BY <2>1, <3>1 DEF WritesFirst
    <3>3. \A m : Turn("write", m)' => m = n
      BY <3>1 DEF Turn, Do
    <3>4. /\ file' = file /\ secrets' = secrets /\ version' = version /\ op' = op
      BY <2>3 DEF Generate
    <3>5. n \in AccountSet \cup {"ci"} =>
            secrets[n][version[n]] = 0 \/ (op.name = n /\ op.step # "idle")
      BY <2>3 DEF Inv, CurrentVersionIsFile
    <3> QED
      BY <2>3, <3>2, <3>3, <3>4, <3>5 DEF WriteIsOwed
  <2> QED
    BY <1>5, <2>2, <2>3 DEF Generate, Write
<1>6. ASSUME NEW n \in Names, Publish(n) PROVE WriteIsOwed' /\ WritesFirst'
  <2>1. CASE d' = [d EXCEPT !.todo = Tail(@), !.exports[n] = version[n]]
    <3>1. d'.todo = Tail(d.todo)
      BY <1>t, <2>1 DEF Deploys
    <3> QED
      BY <1>6, <1>p, <3>1 DEF Publish, Turn
  <2> QED
    BY <1>6, <1>e, <2>1 DEF Publish
<1>7. ASSUME NEW n \in Names, Apply(n) PROVE WriteIsOwed' /\ WritesFirst'
  BY <1>7, <1>e, <1>p, <1>q DEF Apply, Turn
<1>8. CASE Derive \/ MakeHtpasswd
  <2>1. d.todo # <<>>
    BY <1>8 DEF Derive, MakeHtpasswd, Turn
  <2>2. CASE Proceed
    BY <1>p, <1>q, <2>1, <2>2
  <2>3. CASE Instead("hash", "ht")
    <3>1. Head(d'.todo) = Do("hash", "ht") /\ Tail(d'.todo) = Tail(d.todo)
      BY <1>n, <1>t, <2>1, <2>3, InsteadKeepsDeploys
    <3>2. WritesFirst'
      BY <2>1, <3>1 DEF WritesFirst
    <3>3. \A m : ~Turn("write", m)'
      BY <3>1 DEF Turn, Do
    <3> QED
      BY <3>2, <3>3 DEF WriteIsOwed
  <2> QED
    BY <1>8, <2>2, <2>3 DEF Derive, MakeHtpasswd
<1>9. CASE RegistryLogin
  BY <1>9, <1>e, <1>p, <1>q DEF RegistryLogin, Turn
<1>10. CASE StackDeploy
  <2>1. d' = [d EXCEPT !.waits = TRUE, !.before = mounted] /\ d.todo = <<>>
    BY <1>10 DEF StackDeploy
  <2>2. d'.todo = <<>>
    BY <1>t, <2>1 DEF Deploys
  <2> QED
    BY <1>0, <2>2, NoWriteFirst
<1>11. CASE Converge \/ RollBack \/ HookFails
  BY <1>11, <1>e DEF Converge, RollBack, HookFails
<1>12. CASE UNCHANGED vars
  BY <1>12 DEF vars, WriteIsOwed, WritesFirst, Turn
<1> QED
  BY <1>1, <1>2, <1>3, <1>4, <1>5, <1>6, <1>7, <1>8, <1>9, <1>10, <1>11, <1>12 DEF Next

(***************************************************************************)
(* Theorems.                                                               *)
(***************************************************************************)

IInv == Inv /\ Typed /\ HookParts /\ WriteIsOwed /\ WritesFirst

LEMMA Invariance == Spec => []IInv
<1>1. Init => IInv
  BY InitInv, InitTyped, InitHook, InitWrites DEF IInv
<1>2. IInv /\ [Next]_vars => IInv'
  BY NextInv, NextTyped, NextHook, NextWrites DEF IInv, Inv
<1> QED
  BY <1>1, <1>2, PTL DEF Spec

\* Every variable keeps its type, and the hook is a sequence of commands.
THEOREM TypeCorrect == Spec => []TypeOK
<1>1. Inv /\ Typed => TypeOK
  BY TypedMeansTypeOK DEF Inv
<1> QED
  BY <1>1, Invariance, PTL DEF IInv

\* Outside a rotation of its own, a secret published under the current
\* version is the value in the file, even where a hook drew over a value
\* that the person wrote after it looked.
THEOREM PublishedIsCurrent == Spec => []CurrentVersionIsFile
<1>1. IInv => CurrentVersionIsFile
  BY DEF IInv, Inv
<1> QED
  BY <1>1, Invariance, PTL

\* A deploy of the app stack that succeeds, with no rotation beside it, leaves
\* every account accepting what the tasks are given.
THEOREM SuccessfulCanLogIn == Spec => SuccessCanLogIn
<1>1. ASSUME Inv, Typed, HookParts, Next, EndsQuiet("app"), result' = "success",
             NEW n \in AccountSet
      PROVE  CanLogIn(n)'
  <2>1. d.stack = "app" /\ d'.stack = "none" /\ d.quiet
    BY <1>1 DEF EndsQuiet
  <2>2. Converge
    <3>1. ASSUME d.todo # <<>>, Proceed PROVE FALSE
      BY <1>1, <2>1, <3>1, ProceedKeepsDeploys DEF Typed
    <3>2. ~End("failure")
      BY <1>1 DEF End
    <3>3. ASSUME Disturb PROVE FALSE
      <4>1. d' = [d EXCEPT !.quiet = (d.stack = "none")] /\ d \in Deploys
        BY <1>1, <3>3 DEF Disturb, Typed
      <4>2. d'.stack = d.stack
        BY <4>1, Zenon DEF Deploys
      <4> QED
        BY <2>1, <4>2
    <3>4. ASSUME NEW m \in Names, d' = [d EXCEPT !.todo = Tail(@), !.exports[m] = version[m]]
          PROVE  FALSE
      <4>1. d'.stack = d.stack
        BY <1>1, <3>4 DEF Typed, Deploys
      <4> QED
        BY <2>1, <4>1
    <3>5. ~StackDeploy
      <4>1. StackDeploy => d' = [d EXCEPT !.waits = TRUE, !.before = mounted] /\ d \in Deploys
        BY <1>1 DEF StackDeploy, Typed
      <4>2. StackDeploy => d'.stack = d.stack
        BY <4>1, Zenon DEF Deploys
      <4> QED
        BY <2>1, <4>2
    <3>i. ASSUME d.todo # <<>>, NEW what \in {"write", "hash"}, NEW m \in Names, Instead(what, m)
          PROVE  FALSE
      BY <1>1, <2>1, <3>i, InsteadKeepsDeploys DEF Typed
    <3>h. "ht" \in Names
      BY DEF Names
    <3> HIDE DEF Turn, Proceed, Instead, End, Disturb
    <3>6. /\ \A m \in AccountSet \cup {"ci"} : ~OpenFile(m)
          /\ ~WriteFile /\ ~BumpVersion
      BY <3>3 DEF OpenFile, WriteFile, BumpVersion
    <3>7. \A stack \in {"app", "platform"} : ~Start(stack)
      BY <2>1 DEF Start
    <3>8. \A m \in Names : ~Generate(m) /\ ~Write(m) /\ ~Publish(m) /\ ~Apply(m)
      BY <3>1, <3>2, <3>4, <3>i DEF Generate, Write, Publish, Apply, Turn
    <3>9. ~Derive /\ ~MakeHtpasswd /\ ~RegistryLogin
      BY <3>1, <3>2, <3>h, <3>i DEF Derive, MakeHtpasswd, RegistryLogin, Turn
    <3>10. ~RollBack /\ ~HookFails
      BY <3>2 DEF RollBack, HookFails
    <3> QED
      BY <1>1, <3>5, <3>6, <3>7, <3>8, <3>9, <3>10 DEF Next
  <2>3. /\ UNCHANGED <<file, version, secrets, account, mounted, op>>
        /\ d.waits /\ d.todo = <<>> /\ op.step = "idle"
    BY <1>1, <2>1, <2>2 DEF Converge, HookParts, DeployShape
  <2>4. ~Pending("publish", n) /\ ~Pending("apply", n)
    BY <2>3 DEF Pending, Listed
  <2>5. /\ mounted[n] = version[n] /\ secrets[n][version[n]] # 0 /\ account[n] = file[n]
    BY <1>1, <2>1, <2>3, <2>4 DEF HookParts, PublishedIsPassed, AppliedIsFile, MountedIsPassed
  <2>6. secrets[n][version[n]] = file[n]
    BY <1>1, <2>3, <2>5 DEF Inv, CurrentVersionIsFile
  <2>7. version[n] # 0
    BY <1>1 DEF Inv, Stored, Versions, Names
  <2> QED
    BY <2>3, <2>5, <2>6, <2>7 DEF CanLogIn, Given
<1>2. Inv /\ Typed /\ HookParts /\ [Next]_vars
        => [ EndsQuiet("app") /\ result' = "success"
             => \A n \in AccountSet : CanLogIn(n)' ]_vars
  BY <1>1
<1> QED
  BY <1>2, Invariance, PTL DEF Spec, SuccessCanLogIn, IInv
=============================================================================
