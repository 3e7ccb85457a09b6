---------------------------- MODULE DeployProofs ----------------------------
(***************************************************************************)
(* Proofs about Deploy: mutual exclusion by the lock and the action        *)
(* properties of a command's end, for any number of services, images,      *)
(* commands under way and commands started, and of faults unless said.     *)
(***************************************************************************)
EXTENDS Deploy, TLAPS

-----------------------------------------------------------------------------
(* What docker does to a service, and where a command may stand.           *)

LEMMA Bounds == MaxCommands \in Nat /\ MaxFaults \in Nat
BY DeployAssumption

LEMMA Sentinels == NoImage \notin Images /\ NoProc \notin Slots
BY DeployAssumption

LEMMA HostFiles == Hosts \subseteq [Svcs -> Good] \cup [Svcs -> {NoImage}] /\ Good \subseteq Images
BY DeployAssumption

LEMMA CommandType ==
    ASSUME TypeOK, NEW p \in Slots, d[p].cmd # Stack
    PROVE  d[p].cmd.svc \in Svcs /\ d[p].cmd.img \in Images /\ d[p].cmd.img # NoImage
<1>1. d[p].cmd \in Commands
  BY DEF TypeOK, Process
<1>2. d[p].cmd \in {App(s, i) : s \in Svcs, i \in Images}
  BY <1>1, DeployAssumption
<1>3. PICK s \in Svcs, i \in Images : d[p].cmd = App(s, i)
  BY <1>2
<1>4. d[p].cmd.svc = s /\ d[p].cmd.img = i
  BY <1>3 DEF App
<1> QED
  BY <1>4, DeployAssumption

LEMMA ServiceType ==
    ASSUME TypeOK, NEW s \in Svcs
    PROVE  /\ svc[s] \in Service
           /\ svc[s].image \in Maybe /\ svc[s].prev \in Maybe /\ svc[s].run \in Maybe
           /\ svc[s].update \in Update /\ svc[s].mark \in Nat
BY DEF TypeOK, Service

\* docker service rollback, where there is something to go back to.
LEMMA RolledBackFields ==
    ASSUME TypeOK, NEW s \in Svcs, svc[s].prev # NoImage
    PROVE  /\ RolledBack(s) \in Service
           /\ RolledBack(s).image = svc[s].prev /\ RolledBack(s).prev = NoImage
           /\ RolledBack(s).run = svc[s].run /\ RolledBack(s).update = "rollback_started"
           /\ RolledBack(s).mark = svc[s].mark + 1
<1>1. RolledBack(s) = [svc[s] EXCEPT !.image = svc[s].prev, !.prev = NoImage,
                                     !.update = "rollback_started", !.mark = @ + 1]
  BY DEF RolledBack
<1>2. svc[s] \in [image: Maybe, prev: Maybe, run: Maybe, update: Update, mark: Nat]
  BY ServiceType DEF Service
<1>3. RolledBack(s) = [image |-> svc[s].prev, prev |-> NoImage, run |-> svc[s].run,
                       update |-> "rollback_started", mark |-> svc[s].mark + 1]
  BY <1>1, <1>2
<1> QED
  BY <1>3, ServiceType DEF Service, Maybe, Update

LEMMA RolledBackNot ==
    ASSUME NEW s \in Svcs, svc[s].prev = NoImage
    PROVE  RolledBack(s) = svc[s]
BY DEF RolledBack

\* docker service update, and docker stack deploy for one service.
LEMMA AbsentFields ==
    /\ Absent \in Service
    /\ Absent.image = NoImage /\ Absent.prev = NoImage /\ Absent.run = NoImage
    /\ Absent.update = "none" /\ Absent.mark = 0
BY DEF Absent, Service, Maybe, Update

LEMMA CreateFields ==
    ASSUME NEW s \in Svcs, NEW i \in Images
    PROVE  /\ Create(s, i) \in Service
           /\ Create(s, i).image = i /\ Create(s, i).prev = NoImage
           /\ Create(s, i).run = NoImage /\ Create(s, i).update = "none"
           /\ Create(s, i).mark = 0
<1>1. Create(s, i) = [image |-> i, prev |-> NoImage, run |-> NoImage,
                      update |-> "none", mark |-> 0]
  BY DEF Create, Absent
<1> QED
  BY <1>1 DEF Service, Maybe, Update

LEMMA WithImageCases ==
    ASSUME TypeOK, NEW s \in Svcs, NEW i \in Images
    PROVE  /\ ~Exists(s) => WithImage(s, i) = Create(s, i)
           /\ Exists(s) /\ svc[s].image = i => WithImage(s, i) = svc[s]
           /\ Exists(s) /\ svc[s].image # i =>
                /\ WithImage(s, i) \in Service
                /\ WithImage(s, i).image = i /\ WithImage(s, i).prev = svc[s].image
                /\ WithImage(s, i).run = svc[s].run /\ WithImage(s, i).update = "queued"
                /\ WithImage(s, i).mark = svc[s].mark
<1>1. (~Exists(s) => WithImage(s, i) = Create(s, i))
      /\ (Exists(s) /\ svc[s].image = i => WithImage(s, i) = svc[s])
  BY DEF WithImage
<1>2. ASSUME Exists(s), svc[s].image # i
      PROVE  /\ WithImage(s, i) \in Service
             /\ WithImage(s, i).image = i /\ WithImage(s, i).prev = svc[s].image
             /\ WithImage(s, i).run = svc[s].run /\ WithImage(s, i).update = "queued"
             /\ WithImage(s, i).mark = svc[s].mark
  <2>1. WithImage(s, i) = [svc[s] EXCEPT !.image = i, !.prev = svc[s].image, !.update = "queued"]
    BY <1>2 DEF WithImage
  <2>2. svc[s] \in [image: Maybe, prev: Maybe, run: Maybe, update: Update, mark: Nat]
    BY ServiceType DEF Service
  <2>3. WithImage(s, i) = [image |-> i, prev |-> svc[s].image, run |-> svc[s].run,
                           update |-> "queued", mark |-> svc[s].mark]
    BY <2>1, <2>2
  <2> QED
    BY <2>3, ServiceType DEF Service, Maybe, Update
<1> QED
  BY <1>1, <1>2

LEMMA DockerTypes ==
    ASSUME TypeOK, NEW s \in Svcs
    PROVE  /\ RolledBack(s) \in Service
           /\ \A i \in Images : WithImage(s, i) \in Service
BY RolledBackFields, RolledBackNot, WithImageCases, CreateFields, ServiceType

\* A fresh command and an ended one.
LEMMA FreshFields ==
    ASSUME NEW cmd \in Commands \cup {Stack}
    PROVE  /\ Fresh(cmd) \in Process
           /\ Fresh(cmd).pc = "lock" /\ Fresh(cmd).cmd = cmd /\ Fresh(cmd).discard = FALSE
           /\ Fresh(cmd).stable = 0
<1>1. NoEnv \in [Svcs -> Maybe] /\ NoMarks \in [Svcs -> Nat]
  BY DEF NoEnv, NoMarks, Maybe
<1>2. Fresh(cmd).pc = "lock" /\ Fresh(cmd).cmd = cmd /\ Fresh(cmd).discard = FALSE
      /\ Fresh(cmd).stable = 0
  BY Zenon DEF Fresh
<1>3. Fresh(cmd) \in Process
  BY <1>1 DEF Fresh, Process, Results
<1> QED
  BY <1>2, <1>3

LEMMA EndedFields ==
    ASSUME NEW result \in Results
    PROVE  /\ Ended(result) \in Process
           /\ Ended(result).pc = "end" /\ Ended(result).cmd = Stack
           /\ Ended(result).discard = FALSE /\ Ended(result).result = result
           /\ Ended(result).stable = 0
<1>1. Fresh(Stack) \in Process /\ Fresh(Stack).cmd = Stack /\ Fresh(Stack).discard = FALSE
      /\ Fresh(Stack).stable = 0
  BY FreshFields
<1>2. Ended(result) \in Process
  BY <1>1 DEF Ended, Process
<1>3. Ended(result).pc = "end" /\ Ended(result).result = result
  BY <1>1 DEF Ended, Process
<1>4. Ended(result).cmd = Fresh(Stack).cmd /\ Ended(result).stable = Fresh(Stack).stable
  BY <1>1 DEF Ended, Process
<1>5. Ended(result).discard = Fresh(Stack).discard
  BY <1>1 DEF Ended, Process
<1>6. Ended(result).discard = FALSE
  BY <1>1, <1>5, Zenon
<1> QED
  BY <1>1, <1>2, <1>3, <1>4, <1>6

LEMMA EndFields ==
    ASSUME TypeOK, NEW p \in Slots, NEW result \in Results, End(p, result)
    PROVE  /\ d' \in [Slots -> Process] /\ lock' = NoProc
           /\ d'[p] = Ended(result)
           /\ \A q \in Slots \ {p} : d'[q] = d[q]
<1>1. d \in [Slots -> Process] /\ Ended(result) \in Process
  BY EndedFields DEF TypeOK
<1> QED
  BY <1>1 DEF End

LEMMA DieFields ==
    ASSUME TypeOK, NEW p \in Slots, NEW result \in Results, Die(p, result)
    PROVE  /\ End(p, result) /\ shipped' = shipped /\ misread' = misread
           /\ files' \in [Svcs -> Maybe]
           /\ ~d[p].discard => files' = files
           /\ d[p].discard => files' = [files EXCEPT ![d[p].cmd.svc] = NoImage]
<1>1. files \in [Svcs -> Maybe] /\ NoImage \in Maybe
  BY DEF TypeOK, Maybe
<1>2. End(p, result) /\ shipped' = shipped /\ misread' = misread
  BY DEF Die, history
<1>3. files' = IF d[p].discard THEN [files EXCEPT ![d[p].cmd.svc] = NoImage] ELSE files
  BY DEF Die
<1> QED
  BY <1>1, <1>2, <1>3

-----------------------------------------------------------------------------
(* The lock.                                                               *)

Active == {"load", "decide", "update", "stack", "waitstack", "waitapp"}

\* Whoever is past the lock holds it, and nobody else does.
LockIsHeld == \A p \in Slots : lock = p <=> d[p].pc \in Active

\* Which command is where; only a first deploy has a file to discard.
CommandShape(p) ==
    /\ d[p].pc \in {"decide", "update", "waitapp"} => d[p].cmd # Stack
    /\ d[p].pc \notin {"stack", "waitstack"} => d[p].discard = FALSE
    /\ d[p].discard = TRUE => d[p].cmd # Stack
    /\ d[p].discard = FALSE /\ d[p].pc \in {"stack", "waitstack"} => d[p].cmd = Stack

\* What was read from the image files under the lock is still in them.
EnvIsFiles(p) == d[p].pc \in Active \ {"load"} => d[p].env = files

LockParts ==
    /\ TypeOK
    /\ LockIsHeld
    /\ \A p \in Slots : CommandShape(p) /\ EnvIsFiles(p)

\* The holder of the lock is alone.
LEMMA Alone ==
    ASSUME LockParts, NEW p \in Slots, d[p].pc \in Active
    PROVE  /\ lock = p
           /\ \A q \in Slots \ {p} : d[q].pc \notin Active
BY DEF LockParts, LockIsHeld

\* A command without the lock promises nothing of the files.
LEMMA Outside ==
    ASSUME NEW p \in Slots, d'[p].pc \notin Active, d'[p].discard = FALSE
    PROVE  CommandShape(p)' /\ EnvIsFiles(p)'
<1>1. EnvIsFiles(p)'
  BY DEF EnvIsFiles
<1>2. d'[p].pc \notin {"decide", "update", "waitapp"} /\ d'[p].pc \notin {"stack", "waitstack"}
  BY DEF Active
<1>3. ~(d'[p].discard = TRUE)
  BY Zenon
<1>4. CommandShape(p)'
  BY <1>2, <1>3, Zenon DEF CommandShape
<1> QED
  BY <1>1, <1>4

LEMMA OutsideNow ==
    ASSUME LockParts, NEW p \in Slots, d[p].pc \notin Active
    PROVE  d[p].discard = FALSE
BY Zenon DEF LockParts, CommandShape, Active

\* The command that ends gives the lock back; ...
LEMMA Leaves ==
    ASSUME LockParts, NEW p \in Slots, NEW result \in Results, d[p].pc \in Active,
           End(p, result), TypeOK'
    PROVE  LockParts'
<1>1. lock' = NoProc /\ d'[p] = Ended(result) /\ \A q \in Slots \ {p} : d'[q] = d[q]
  BY EndFields DEF LockParts
<1>2. d'[p].pc \notin Active /\ d'[p].discard = FALSE
  <2>1. Ended(result).pc = "end" /\ Ended(result).discard = FALSE
    BY EndedFields
  <2> QED
    BY <1>1, <2>1, Zenon DEF Active
<1>3. \A q \in Slots : d'[q].pc \notin Active
  BY <1>1, <1>2, Alone
<1>4. \A q \in Slots \ {p} : d'[q].discard = FALSE
  BY <1>1, Alone, OutsideNow, Zenon
<1>5. LockIsHeld'
  BY <1>1, <1>3, DeployAssumption DEF LockIsHeld
<1>6. \A q \in Slots : CommandShape(q)' /\ EnvIsFiles(q)'
  BY <1>2, <1>3, <1>4, Outside, Zenon
<1> QED
  BY <1>5, <1>6 DEF LockParts

\* ... the one that goes on keeps it, and the others wait.
LEMMA Stays ==
    ASSUME LockParts, NEW p \in Slots, d[p].pc \in Active, d'[p].pc \in Active,
           \A q \in Slots \ {p} : d'[q] = d[q], lock' = lock, TypeOK',
           CommandShape(p)', EnvIsFiles(p)'
    PROVE  LockParts'
<1>1. \A q \in Slots \ {p} : d'[q].pc \notin Active
  BY Alone
<1>2. \A q \in Slots \ {p} : d'[q].discard = FALSE
  BY Alone, OutsideNow, Zenon
<1>3. LockIsHeld'
  BY <1>1, Alone DEF LockIsHeld
<1>4. \A q \in Slots : CommandShape(q)' /\ EnvIsFiles(q)'
  BY <1>1, <1>2, Outside, Zenon
<1> QED
  BY <1>3, <1>4 DEF LockParts

\* A command that has no lock changes nothing but its own record, and its
\* record says so.
LEMMA Waits ==
    ASSUME LockParts, NEW p \in Slots, d[p].pc \notin Active, d'[p].pc \notin Active,
           d'[p].discard = FALSE, \A q \in Slots \ {p} : d'[q] = d[q],
           lock' = lock, files' = files, TypeOK'
    PROVE  LockParts'
<1>1. LockIsHeld'
  BY DEF LockParts, LockIsHeld
<1>2. CommandShape(p)' /\ EnvIsFiles(p)'
  BY Outside, Zenon
<1>3. \A q \in Slots \ {p} : CommandShape(q)' /\ EnvIsFiles(q)'
  <2> SUFFICES ASSUME NEW q \in Slots \ {p} PROVE CommandShape(q)' /\ EnvIsFiles(q)'
    OBVIOUS
  <2>1. d'[q] = d[q] /\ CommandShape(q) /\ EnvIsFiles(q)
    BY DEF LockParts
  <2> QED
    BY <2>1, Zenon DEF CommandShape, EnvIsFiles
<1> QED
  BY <1>1, <1>2, <1>3 DEF LockParts

-----------------------------------------------------------------------------
(* What a command that goes on changes of its record.                      *)

LEMMA PcMoves ==
    ASSUME TypeOK, NEW p \in Slots, NEW x \in {"load", "decide", "update", "stack"},
           d' = [d EXCEPT ![p].pc = x]
    PROVE  /\ d' \in [Slots -> Process]
           /\ d'[p].pc = x /\ d'[p].cmd = d[p].cmd /\ d'[p].env = d[p].env
           /\ d'[p].discard = d[p].discard /\ d'[p].stable = d[p].stable
           /\ \A q \in Slots \ {p} : d'[q] = d[q]
<1>1. d \in [Slots -> Process] /\ d[p] \in Process
  BY DEF TypeOK
<1>2. d'[p] = [d[p] EXCEPT !.pc = x] /\ \A q \in Slots \ {p} : d'[q] = d[q]
  BY <1>1
<1>3. [d[p] EXCEPT !.pc = x] \in Process
  BY <1>1 DEF Process
<1>4. d'[p].pc = x /\ d'[p].cmd = d[p].cmd /\ d'[p].env = d[p].env
      /\ d'[p].stable = d[p].stable
  BY <1>1, <1>2 DEF Process
<1>5. d'[p].discard = d[p].discard
  BY <1>1, <1>2 DEF Process
<1> QED
  BY <1>1, <1>2, <1>3, <1>4, <1>5

LEMMA LoadMoves ==
    ASSUME TypeOK, NEW p \in Slots, NEW x \in {"stack", "decide"},
           d' = [d EXCEPT ![p].pc = x, ![p].env = files]
    PROVE  /\ d' \in [Slots -> Process]
           /\ d'[p].pc = x /\ d'[p].cmd = d[p].cmd /\ d'[p].env = files
           /\ d'[p].discard = d[p].discard /\ d'[p].stable = d[p].stable
           /\ \A q \in Slots \ {p} : d'[q] = d[q]
<1>1. d \in [Slots -> Process] /\ d[p] \in Process /\ files \in [Svcs -> Maybe]
  BY DEF TypeOK
<1>2. d'[p] = [d[p] EXCEPT !.pc = x, !.env = files] /\ \A q \in Slots \ {p} : d'[q] = d[q]
  BY <1>1
<1>3. [d[p] EXCEPT !.pc = x, !.env = files] \in Process
  BY <1>1 DEF Process
<1>4. d'[p].pc = x /\ d'[p].cmd = d[p].cmd /\ d'[p].env = files
      /\ d'[p].stable = d[p].stable
  BY <1>1, <1>2 DEF Process
<1>5. d'[p].discard = d[p].discard
  BY <1>1, <1>2 DEF Process
<1> QED
  BY <1>1, <1>2, <1>3, <1>4, <1>5

With(f, s, i) == [f EXCEPT ![s] = i]

GoesToStack(p, s, i) ==
    d' = [d EXCEPT ![p].pc = "stack", ![p].env[s] = i, ![p].discard = TRUE]

LEMMA FirstMoves ==
    ASSUME TypeOK, NEW p \in Slots, NEW s \in Svcs, NEW i \in Images, GoesToStack(p, s, i)
    PROVE  /\ d' \in [Slots -> Process]
           /\ d'[p].pc = "stack" /\ d'[p].cmd = d[p].cmd
           /\ d'[p].env = With(d[p].env, s, i)
           /\ d'[p].discard = TRUE /\ d'[p].stable = d[p].stable
           /\ \A q \in Slots \ {p} : d'[q] = d[q]
<1>1. d \in [Slots -> Process] /\ d[p] \in Process
  BY DEF TypeOK
<1> DEFINE env == [d[p].env EXCEPT ![s] = i]
<1>2. env \in [Svcs -> Maybe]
  BY <1>1 DEF Process, Maybe
<1>3. d'[p] = [d[p] EXCEPT !.pc = "stack", !.env = env, !.discard = TRUE]
      /\ \A q \in Slots \ {p} : d'[q] = d[q]
  BY <1>1 DEF GoesToStack
<1> HIDE DEF env
<1>4. [d[p] EXCEPT !.pc = "stack", !.env = env, !.discard = TRUE] \in Process
  BY <1>1, <1>2 DEF Process
<1>5. d'[p].pc = "stack" /\ d'[p].cmd = d[p].cmd /\ d'[p].env = env
      /\ d'[p].stable = d[p].stable
  BY <1>1, <1>3 DEF Process
<1>6. d'[p].discard = TRUE
  BY <1>1, <1>3 DEF Process
<1>7. d'[p].env = With(d[p].env, s, i)
  BY <1>5 DEF env, With
<1>8. d' \in [Slots -> Process]
  <2>1. d' = [d EXCEPT ![p] = d'[p]]
    BY <1>1 DEF GoesToStack
  <2>2. d'[p] \in Process
    BY <1>3, <1>4
  <2> QED
    BY <1>1, <2>1, <2>2
<1> QED
  BY <1>3, <1>5, <1>6, <1>7, <1>8

LEMMA MarkMoves ==
    ASSUME TypeOK, NEW p \in Slots, d' = [d EXCEPT ![p].pc = "waitapp", ![p].marks = Marks]
    PROVE  /\ d' \in [Slots -> Process]
           /\ d'[p].pc = "waitapp" /\ d'[p].cmd = d[p].cmd /\ d'[p].env = d[p].env
           /\ \A s \in Svcs : d'[p].marks[s] = svc[s].mark
           /\ d'[p].stable = d[p].stable /\ d'[p].discard = d[p].discard
           /\ \A q \in Slots \ {p} : d'[q] = d[q]
<1>1. d \in [Slots -> Process] /\ d[p] \in Process
  BY DEF TypeOK
<1>2. Marks \in [Svcs -> Nat] /\ \A s \in Svcs : Marks[s] = svc[s].mark
  BY ServiceType DEF Marks
<1>3. d'[p] = [d[p] EXCEPT !.pc = "waitapp", !.marks = Marks] /\ \A q \in Slots \ {p} : d'[q] = d[q]
  BY <1>1
<1>4. [d[p] EXCEPT !.pc = "waitapp", !.marks = Marks] \in Process
  BY <1>1, <1>2 DEF Process
<1>5. /\ d'[p].pc = "waitapp" /\ d'[p].cmd = d[p].cmd /\ d'[p].env = d[p].env
      /\ d'[p].marks = Marks /\ d'[p].stable = d[p].stable
  BY <1>1, <1>3 DEF Process
<1>6. d'[p].discard = d[p].discard
  BY <1>1, <1>3 DEF Process
<1> QED
  BY <1>1, <1>2, <1>3, <1>4, <1>5, <1>6

LEMMA StackMoves ==
    ASSUME TypeOK, NEW p \in Slots,
           d' = [d EXCEPT ![p].pc = "waitstack", ![p].marks = Marks, ![p].stable = 0]
    PROVE  /\ d' \in [Slots -> Process]
           /\ d'[p].pc = "waitstack" /\ d'[p].cmd = d[p].cmd /\ d'[p].env = d[p].env
           /\ \A s \in Svcs : d'[p].marks[s] = svc[s].mark
           /\ d'[p].stable = 0 /\ d'[p].discard = d[p].discard
           /\ \A q \in Slots \ {p} : d'[q] = d[q]
<1>1. d \in [Slots -> Process] /\ d[p] \in Process
  BY DEF TypeOK
<1>2. Marks \in [Svcs -> Nat] /\ \A s \in Svcs : Marks[s] = svc[s].mark
  BY ServiceType DEF Marks
<1>3. d'[p] = [d[p] EXCEPT !.pc = "waitstack", !.marks = Marks, !.stable = 0] /\ \A q \in Slots \ {p} : d'[q] = d[q]
  BY <1>1
<1>4. [d[p] EXCEPT !.pc = "waitstack", !.marks = Marks, !.stable = 0] \in Process
  <2>1. PICK n \in 0..1 : n = 0
    OBVIOUS
  <2>2. [d[p] EXCEPT !.pc = "waitstack", !.marks = Marks, !.stable = n] \in Process
    BY <1>1, <1>2 DEF Process
  <2> QED
    BY <2>1, <2>2
<1>5. /\ d'[p].pc = "waitstack" /\ d'[p].cmd = d[p].cmd /\ d'[p].env = d[p].env
      /\ d'[p].marks = Marks /\ d'[p].stable = 0
  BY <1>1, <1>3 DEF Process
<1>6. d'[p].discard = d[p].discard
  BY <1>1, <1>3 DEF Process
<1> QED
  BY <1>1, <1>2, <1>3, <1>4, <1>5, <1>6

SeesCalm(p, n) == d' = [d EXCEPT ![p].stable = n]

LEMMA StableMoves ==
    ASSUME TypeOK, NEW p \in Slots, NEW n \in 0..1, SeesCalm(p, n)
    PROVE  /\ d' \in [Slots -> Process]
           /\ d'[p].pc = d[p].pc /\ d'[p].cmd = d[p].cmd /\ d'[p].env = d[p].env
           /\ d'[p].marks = d[p].marks /\ d'[p].stable = n
           /\ d'[p].discard = d[p].discard
           /\ \A q \in Slots \ {p} : d'[q] = d[q]
<1>1. d \in [Slots -> Process] /\ d[p] \in Process
  BY DEF TypeOK
<1>2. d'[p] = [d[p] EXCEPT !.stable = n] /\ \A q \in Slots \ {p} : d'[q] = d[q]
  BY <1>1 DEF SeesCalm
<1>3. [d[p] EXCEPT !.stable = n] \in Process
  BY <1>1 DEF Process
<1>4. /\ d'[p].pc = d[p].pc /\ d'[p].cmd = d[p].cmd /\ d'[p].env = d[p].env
      /\ d'[p].marks = d[p].marks /\ d'[p].stable = n
  BY <1>1, <1>2 DEF Process
<1>5. d'[p].discard = d[p].discard
  BY <1>1, <1>2 DEF Process
<1>6. d' \in [Slots -> Process]
  BY <1>1, <1>2, <1>3 DEF SeesCalm
<1> QED
  BY <1>2, <1>4, <1>5, <1>6

-----------------------------------------------------------------------------
(* Several services at once.                                               *)

LEMMA EnvType ==
    ASSUME TypeOK, NEW p \in Slots, NEW s \in Svcs
    PROVE  /\ d[p].env \in [Svcs -> Maybe]
           /\ d[p].env[s] # NoImage => d[p].env[s] \in Images
BY DEF TypeOK, Process, Maybe

\* docker stack deploy, as far as it comes.
LEMMA StackOverFields ==
    ASSUME TypeOK, NEW p \in Slots, \A s \in Svcs : d[p].env[s] # NoImage,
           NEW S \in SUBSET Svcs, svc' = StackOver(p, S)
    PROVE  /\ svc' \in [Svcs -> Service]
           /\ \A s \in S : svc'[s] = WithImage(s, d[p].env[s])
           /\ \A s \in Svcs \ S : svc'[s] = svc[s]
<1>1. \A s \in Svcs : WithImage(s, d[p].env[s]) \in Service /\ svc[s] \in Service
  BY DockerTypes, EnvType, ServiceType
<1> QED
  BY <1>1 DEF StackOver

\* rollback_pending, as far as it comes.
LEMMA GiveUpFields ==
    ASSUME TypeOK, NEW p \in Slots, NEW S \in SUBSET Svcs, GiveUp(p, S)
    PROVE  /\ svc' \in [Svcs -> Service]
           /\ \A s \in Svcs : \/ svc'[s] = svc[s]
                              \/ State(p, s) \in {"updating", "paused"} /\ svc'[s] = RolledBack(s)
           /\ Die(p, "failure")
<1>1. \A s \in Svcs : RolledBack(s) \in Service /\ svc[s] \in Service
  BY DockerTypes, ServiceType
<1> QED
  BY <1>1 DEF GiveUp

LEMMA SwarmFields ==
    ASSUME TypeOK, NEW s \in Svcs, SwarmStep(s)
    PROVE  /\ svc' \in [Svcs -> Service]
           /\ \A m \in Svcs \ {s} : svc'[m] = svc[m]
<1>1. svc \in [Svcs -> Service] /\ svc[s] \in [image: Maybe, prev: Maybe, run: Maybe, update: Update, mark: Nat]
  BY ServiceType DEF TypeOK, Service
<1>2. CASE TasksStart(s)
  <2>1. svc' = [svc EXCEPT ![s] = [svc[s] EXCEPT !.run = svc[s].image]]
    BY <1>1, <1>2 DEF TasksStart
  <2>2. [svc[s] EXCEPT !.run = svc[s].image] \in Service
    BY <1>1 DEF Service
  <2> QED
    BY <1>1, <2>1, <2>2
<1>3. CASE UpdateStarts(s)
  <2>1. svc' = [svc EXCEPT ![s] = [svc[s] EXCEPT !.update = "updating", !.mark = svc[s].mark + 1]]
    BY <1>1, <1>3 DEF UpdateStarts
  <2>2. [svc[s] EXCEPT !.update = "updating", !.mark = svc[s].mark + 1] \in Service
    <3>1. svc[s].mark + 1 \in Nat
      BY <1>1
    <3> DEFINE m == svc[s].mark + 1
    <3> HIDE DEF m
    <3>2. [svc[s] EXCEPT !.update = "updating", !.mark = m] \in Service
      BY <1>1, <3>1 DEF Service, Update, m
    <3> QED
      BY <3>2 DEF m
  <2> QED
    BY <1>1, <2>1, <2>2
<1>4. CASE UpdateCompletes(s)
  <2>1. svc' = [svc EXCEPT ![s] = [svc[s] EXCEPT !.update = "completed", !.run = svc[s].image]]
    BY <1>1, <1>4 DEF UpdateCompletes
  <2>2. [svc[s] EXCEPT !.update = "completed", !.run = svc[s].image] \in Service
    BY <1>1 DEF Service, Update
  <2> QED
    BY <1>1, <2>1, <2>2
<1>5. CASE UpdateFails(s)
  <2>1. \/ svc' = [svc EXCEPT ![s] = [svc[s] EXCEPT !.update = "paused"]]
        \/ svc' = [svc EXCEPT ![s] = [svc[s] EXCEPT !.update = "rollback_started",
                                                    !.image = svc[s].prev, !.prev = NoImage]]
    BY <1>1, <1>5 DEF UpdateFails
  <2>2. [svc[s] EXCEPT !.update = "paused"] \in Service
    BY <1>1 DEF Service, Update
  <2>3. [svc[s] EXCEPT !.update = "rollback_started", !.image = svc[s].prev, !.prev = NoImage]
        \in Service
    BY <1>1 DEF Service, Update, Maybe
  <2> QED
    BY <1>1, <2>1, <2>2, <2>3
<1>6. CASE RollbackEnds(s)
  <2>1. \/ svc' = [svc EXCEPT ![s] = [svc[s] EXCEPT !.update = "rollback_completed",
                                                    !.run = svc[s].image]]
        \/ svc' = [svc EXCEPT ![s] = [svc[s] EXCEPT !.update = "rollback_paused"]]
    BY <1>1, <1>6 DEF RollbackEnds
  <2>2. [svc[s] EXCEPT !.update = "rollback_completed", !.run = svc[s].image] \in Service
    BY <1>1 DEF Service, Update
  <2>3. [svc[s] EXCEPT !.update = "rollback_paused"] \in Service
    BY <1>1 DEF Service, Update
  <2> QED
    BY <1>1, <2>1, <2>2, <2>3
<1> QED
  BY <1>2, <1>3, <1>4, <1>5, <1>6 DEF SwarmStep

LEMMA FaultFields ==
    ASSUME TypeOK, Fault
    PROVE  faults' \in 0..MaxFaults /\ faults' > 0
BY DeployAssumption DEF TypeOK, Fault

-----------------------------------------------------------------------------
(* The lock's parts are inductive: the beginning, and the commands that    *)
(* have no lock.                                                           *)

LEMMA InitFields ==
    ASSUME Init
    PROVE  /\ files \in [Svcs -> Maybe] /\ svc \in [Svcs -> Service]
           /\ \A s \in Svcs : /\ svc[s].image = files[s] /\ svc[s].run = files[s]
                              /\ svc[s].prev = NoImage /\ svc[s].update = "none"
                              /\ svc[s].mark = 0
           /\ \A s \in Svcs : files[s] = NoImage => svc[s] = Absent
           /\ \A p \in Slots : d[p] = Ended("")
<1>1. files \in [Svcs -> Maybe]
  <2>1. files \in Hosts
    BY DEF Init
  <2>2. (files \in [Svcs -> Good] \/ files \in [Svcs -> {NoImage}]) /\ Good \subseteq Images
    BY <2>1, HostFiles
  <2> QED
    BY <2>1, <2>2 DEF Maybe
<1>2. \A s \in Svcs : svc[s] = [image |-> files[s], prev |-> NoImage, run |-> files[s],
                                update |-> "none", mark |-> 0]
  BY <1>1 DEF Init, Absent
<1>3. ASSUME NEW s \in Svcs PROVE svc[s] \in Service
  <2>1. svc[s] = [image |-> files[s], prev |-> NoImage, run |-> files[s],
                  update |-> "none", mark |-> 0]
    BY <1>2
  <2>2. files[s] \in Maybe /\ NoImage \in Maybe /\ "none" \in Update
    BY <1>1 DEF Maybe, Update
  <2> QED
    BY <2>1, <2>2 DEF Service
<1>4. svc \in [Svcs -> Service]
  BY <1>3 DEF Init
<1>5. \A s \in Svcs : /\ svc[s].image = files[s] /\ svc[s].run = files[s]
                      /\ svc[s].prev = NoImage /\ svc[s].update = "none"
                      /\ svc[s].mark = 0
  <2> SUFFICES ASSUME NEW s \in Svcs
               PROVE  /\ svc[s].image = files[s] /\ svc[s].run = files[s]
                      /\ svc[s].prev = NoImage /\ svc[s].update = "none"
                      /\ svc[s].mark = 0
    OBVIOUS
  <2>1. svc[s] = [image |-> files[s], prev |-> NoImage, run |-> files[s],
                  update |-> "none", mark |-> 0]
    BY <1>2
  <2> QED
    BY <2>1
<1>6. \A s \in Svcs : files[s] = NoImage => svc[s] = Absent
  BY <1>2 DEF Absent
<1>7. \A p \in Slots : d[p] = Ended("")
  BY DEF Init
<1> QED
  BY <1>1, <1>4, <1>5, <1>6, <1>7

LEMMA LockInit ==
    ASSUME Init
    PROVE  LockParts
<1>1. "" \in Results
  BY DEF Results
<1>2. /\ Ended("") \in Process /\ Ended("").pc = "end" /\ Ended("").cmd = Stack
      /\ Ended("").discard = FALSE
  BY <1>1, EndedFields
<1>3. TypeOK
  <2>1. lock = NoProc /\ shipped = files /\ misread = {} /\ started = 0 /\ faults = 0
        /\ d = [p \in Slots |-> Ended("")]
    BY DEF Init
  <2>2. files \in [Svcs -> Maybe] /\ svc \in [Svcs -> Service]
    BY InitFields
  <2>3. d \in [Slots -> Process]
    BY <1>2, <2>1
  <2>4. started \in 0..MaxCommands /\ faults \in 0..MaxFaults
    <3>1. started = 0 /\ faults = 0
      BY DEF Init
    <3> QED
      BY <3>1, Bounds
  <2> QED
    BY <2>1, <2>2, <2>3, <2>4 DEF TypeOK
<1>4. LockIsHeld
  <2>1. lock = NoProc /\ \A p \in Slots : d[p] = Ended("")
    BY InitFields DEF Init
  <2>2. \A p \in Slots : d[p].pc = "end"
    BY <1>2, <2>1
  <2> QED
    BY <2>1, <2>2, Sentinels DEF LockIsHeld, Active
<1>5. \A p \in Slots : CommandShape(p) /\ EnvIsFiles(p)
  <2> SUFFICES ASSUME NEW p \in Slots PROVE CommandShape(p) /\ EnvIsFiles(p)
    OBVIOUS
  <2>1. d[p] = Ended("")
    BY InitFields
  <2>2. d[p].pc = "end" /\ d[p].discard = FALSE
    BY <1>2, <2>1, Zenon
  <2>3. EnvIsFiles(p)
    BY <2>2 DEF EnvIsFiles, Active
  <2>4. d[p].pc \notin {"decide", "update", "waitapp"} /\ d[p].pc \notin {"stack", "waitstack"}
    BY <2>2
  <2>5. ~(d[p].discard = TRUE)
    BY <2>2, Zenon
  <2> QED
    BY <2>2, <2>3, <2>4, <2>5, Zenon DEF CommandShape
<1> QED
  BY <1>3, <1>4, <1>5 DEF LockParts

LEMMA StartLock ==
    ASSUME LockParts, NEW p \in Slots, NEW cmd \in Commands, Start(p, cmd)
    PROVE  /\ LockParts'
           /\ d'[p].pc \notin Active /\ \A q \in Slots \ {p} : d'[q] = d[q]
<1>1. TypeOK
  BY DEF LockParts
<1>2. /\ Fresh(cmd) \in Process /\ Fresh(cmd).pc = "lock" /\ Fresh(cmd).discard = FALSE
  BY FreshFields
<1>3. d'[p] = Fresh(cmd) /\ d' \in [Slots -> Process] /\ \A q \in Slots \ {p} : d'[q] = d[q]
  BY <1>1, <1>2 DEF Start, TypeOK
<1>4. /\ lock' = lock /\ files' = files /\ svc' = svc /\ history' = history /\ faults' = faults
      /\ started' = started + 1 /\ started < MaxCommands /\ d[p].pc = "end"
  BY DEF Start
<1>5. started' \in 0..MaxCommands
  BY <1>1, <1>4, Bounds DEF TypeOK
<1>6. TypeOK'
  BY <1>1, <1>3, <1>4, <1>5 DEF TypeOK, history
<1>7. d[p].pc \notin Active /\ d'[p].pc \notin Active
  BY <1>2, <1>3, <1>4 DEF Active
<1>8. d'[p].discard = FALSE
  BY <1>2, <1>3, Zenon
<1> QED
  BY <1>3, <1>4, <1>6, <1>7, <1>8, Waits, Zenon

\* flock -w expires, or the command is killed before it has the lock.
LEMMA LosesWaiting ==
    ASSUME LockParts, NEW p \in Slots, NEW result \in Results,
           d[p].pc \notin Active, d' = [d EXCEPT ![p] = Ended(result)],
           faults' \in 0..MaxFaults, UNCHANGED <<lock, files, svc, history, started>>
    PROVE  /\ LockParts'
           /\ d'[p].pc \notin Active /\ \A q \in Slots \ {p} : d'[q] = d[q]
<1>1. TypeOK
  BY DEF LockParts
<1>2. Ended(result) \in Process /\ Ended(result).pc = "end" /\ Ended(result).discard = FALSE
  BY EndedFields
<1>3. d'[p] = Ended(result) /\ d' \in [Slots -> Process] /\ \A q \in Slots \ {p} : d'[q] = d[q]
  BY <1>1, <1>2 DEF TypeOK
<1>4. TypeOK'
  BY <1>1, <1>3 DEF TypeOK, history
<1>5. d'[p].pc \notin Active
  BY <1>2, <1>3 DEF Active
<1>6. d'[p].discard = FALSE
  BY <1>2, <1>3, Zenon
<1> QED
  BY <1>3, <1>4, <1>5, <1>6, Waits, Zenon

LEMMA AcquireLockLock ==
    ASSUME LockParts, NEW p \in Slots, AcquireLock(p)
    PROVE  /\ LockParts'
           /\ d'[p].pc = "load" /\ \A q \in Slots : d[q].pc \notin Active
           /\ \A q \in Slots \ {p} : d'[q] = d[q]
           /\ d'[p].discard = FALSE
<1>1. TypeOK
  BY DEF LockParts
<1>2. /\ d[p].pc = "lock" /\ lock = NoProc /\ lock' = p /\ d' = [d EXCEPT ![p].pc = "load"]
      /\ files' = files /\ svc' = svc /\ history' = history /\ started' = started
      /\ faults' = faults
  BY DEF AcquireLock
<1>3. /\ d' \in [Slots -> Process] /\ d'[p].pc = "load" /\ d'[p].discard = d[p].discard
      /\ \A q \in Slots \ {p} : d'[q] = d[q]
  BY <1>1, <1>2, PcMoves
<1>4. TypeOK'
  BY <1>1, <1>2, <1>3 DEF TypeOK, history
<1>5. \A q \in Slots : d[q].pc \notin Active
  BY <1>2, Sentinels DEF LockParts, LockIsHeld
<1>6. LockIsHeld'
  BY <1>2, <1>3, <1>5 DEF LockIsHeld, Active
<1>7. d[p].discard = FALSE
  BY <1>5, OutsideNow
<1>8. d'[p].discard = FALSE
  BY <1>3, <1>7, Zenon
<1>9. CommandShape(p)' /\ EnvIsFiles(p)'
  <2>1. EnvIsFiles(p)'
    BY <1>3 DEF EnvIsFiles
  <2>2. d'[p].pc \notin {"decide", "update", "waitapp"} /\ d'[p].pc \notin {"stack", "waitstack"}
    BY <1>3
  <2>3. ~(d'[p].discard = TRUE)
    BY <1>8, Zenon
  <2> QED
    BY <1>8, <2>1, <2>2, <2>3, Zenon DEF CommandShape
<1>10. ASSUME NEW q \in Slots \ {p} PROVE CommandShape(q)' /\ EnvIsFiles(q)'
  <2>1. d'[q] = d[q] /\ d[q].pc \notin Active
    BY <1>3, <1>5
  <2>2. d[q].discard = FALSE
    BY <1>5, OutsideNow
  <2> QED
    BY <2>1, <2>2, Outside, Zenon
<1> QED
  BY <1>3, <1>4, <1>5, <1>6, <1>8, <1>9, <1>10, Zenon DEF LockParts

-----------------------------------------------------------------------------
(* ... and the one that has it.                                            *)

LEMMA EndLock ==
    ASSUME LockParts, NEW p \in Slots, NEW result \in Results, d[p].pc \in Active,
           End(p, result), files' \in [Svcs -> Maybe], svc' \in [Svcs -> Service],
           shipped' \in [Svcs -> Maybe], misread' \in SUBSET Svcs, started' = started,
           faults' \in 0..MaxFaults
    PROVE  LockParts' /\ lock' = NoProc
<1>1. TypeOK
  BY DEF LockParts
<1>2. d' \in [Slots -> Process] /\ lock' = NoProc
  BY <1>1, EndFields
<1>3. TypeOK'
  BY <1>1, <1>2 DEF TypeOK
<1> QED
  BY <1>2, <1>3, Leaves

LEMMA DieLock ==
    ASSUME LockParts, NEW p \in Slots, NEW result \in Results, d[p].pc \in Active,
           Die(p, result), svc' \in [Svcs -> Service], started' = started,
           faults' \in 0..MaxFaults
    PROVE  LockParts' /\ lock' = NoProc
<1>1. TypeOK
  BY DEF LockParts
<1>2. End(p, result) /\ files' \in [Svcs -> Maybe] /\ shipped' = shipped /\ misread' = misread
  BY <1>1, DieFields
<1>3. shipped' \in [Svcs -> Maybe] /\ misread' \in SUBSET Svcs
  BY <1>1, <1>2 DEF TypeOK
<1> QED
  BY <1>2, <1>3, EndLock

LEMMA SucceedLock ==
    ASSUME LockParts, NEW p \in Slots, NEW result \in Results, d[p].pc \in Active,
           NEW s \in Svcs, NEW i \in Images, Succeed(p, result, s, i), svc' = svc,
           UNCHANGED <<started, faults>>
    PROVE  LockParts' /\ lock' = NoProc
<1>1. TypeOK
  BY DEF LockParts
<1>2. /\ End(p, result) /\ files' = [files EXCEPT ![s] = i]
      /\ shipped' = [shipped EXCEPT ![s] = i] /\ misread' = misread \ {s}
  BY DEF Succeed
<1>3. /\ files' \in [Svcs -> Maybe] /\ shipped' \in [Svcs -> Maybe] /\ misread' \in SUBSET Svcs
      /\ svc' \in [Svcs -> Service] /\ started' = started /\ faults' \in 0..MaxFaults
  BY <1>1, <1>2 DEF TypeOK, Maybe
<1> QED
  BY <1>2, <1>3, EndLock

LEMMA AppIsCommand ==
    ASSUME LockParts, NEW p \in Slots, d[p].pc \in {"decide", "update", "waitapp"}
    PROVE  /\ d[p].cmd # Stack
           /\ d[p].cmd.svc \in Svcs /\ d[p].cmd.img \in Images /\ d[p].cmd.img # NoImage
           /\ d[p].discard = FALSE
<1>1. d[p].cmd # Stack
  BY DEF LockParts, CommandShape
<1>2. d[p].pc \notin {"stack", "waitstack"}
  OBVIOUS
<1>3. d[p].discard = FALSE
  BY <1>2, Zenon DEF LockParts, CommandShape
<1>4. d[p].cmd.svc \in Svcs /\ d[p].cmd.img \in Images /\ d[p].cmd.img # NoImage
  BY <1>1, CommandType DEF LockParts
<1> QED
  BY <1>1, <1>3, <1>4

LEMMA LoadEnvLock ==
    ASSUME LockParts, NEW p \in Slots, LoadEnv(p)
    PROVE  /\ LockParts'
           /\ d'[p].pc \in {"stack", "decide"} /\ lock' = p
           /\ d'[p].discard = FALSE /\ d'[p].stable = d[p].stable
<1>1. TypeOK
  BY DEF LockParts
<1>2. d[p].pc = "load" /\ lock' = lock /\ UNCHANGED <<files, svc, history, started, faults>>
  BY DEF LoadEnv
<1> DEFINE x == IF d[p].cmd = Stack THEN "stack" ELSE "decide"
<1>3. d' = [d EXCEPT ![p].pc = x, ![p].env = files] /\ x \in {"stack", "decide"}
  BY DEF LoadEnv
<1>4. x = "stack" <=> d[p].cmd = Stack
  OBVIOUS
<1> HIDE DEF x
<1>5. /\ d' \in [Slots -> Process]
      /\ d'[p].pc = x /\ d'[p].cmd = d[p].cmd /\ d'[p].env = files
      /\ d'[p].discard = d[p].discard /\ d'[p].stable = d[p].stable
      /\ \A q \in Slots \ {p} : d'[q] = d[q]
  BY <1>1, <1>3, LoadMoves
<1>6. d[p].pc \in Active /\ d'[p].pc \in Active
  BY <1>2, <1>3, <1>5 DEF Active
<1>7. TypeOK'
  BY <1>1, <1>2, <1>5 DEF TypeOK, history
<1>8. d[p].discard = FALSE
  <2>1. d[p].pc \notin {"stack", "waitstack"}
    BY <1>2
  <2> QED
    BY <2>1, Zenon DEF LockParts, CommandShape
<1>9. d'[p].discard = FALSE
  BY <1>5, <1>8, Zenon
<1>10. CommandShape(p)'
  <2>1. d'[p].pc \in {"decide", "update", "waitapp"} => d'[p].cmd # Stack
    BY <1>3, <1>4, <1>5
  <2>2. d'[p].pc \in {"stack", "waitstack"} => d'[p].cmd = Stack
    BY <1>3, <1>4, <1>5
  <2>3. ~(d'[p].discard = TRUE)
    BY <1>9, Zenon
  <2> QED
    BY <1>9, <2>1, <2>2, <2>3, Zenon DEF CommandShape
<1>11. EnvIsFiles(p)'
  BY <1>2, <1>5 DEF EnvIsFiles
<1>12. LockParts'
  BY <1>2, <1>5, <1>6, <1>7, <1>10, <1>11, Stays
<1> QED
  BY <1>2, <1>3, <1>5, <1>6, <1>9, <1>12, Alone

\* The ways out of the decision.
LEMMA RecordFirstLock ==
    ASSUME LockParts, NEW p \in Slots, d[p].pc = "decide", started' = started,
           faults' \in 0..MaxFaults, misread' \in SUBSET Svcs,
           NEW s \in Svcs, NEW i \in Images, RecordFirst(p, s, i)
    PROVE  LockParts'
<1>1. TypeOK /\ d[p].pc \in Active
  BY DEF LockParts, Active
<1>2. d[p].cmd # Stack
  BY AppIsCommand
<1>3. files' = [files EXCEPT ![s] = i] /\ svc' = svc /\ shipped' = shipped
  BY DEF RecordFirst
<1>4. /\ files' \in [Svcs -> Maybe] /\ shipped' \in [Svcs -> Maybe]
      /\ svc' \in [Svcs -> Service] /\ started' = started /\ faults' \in 0..MaxFaults
  BY <1>1, <1>2, <1>3 DEF TypeOK, Maybe
<1>5. CASE End(p, "pending")
  <2>1. "pending" \in Results
    BY DEF Results
  <2> QED
    BY <1>1, <1>4, <1>5, <2>1, EndLock
<1>6. CASE GoesToStack(p, s, i) /\ lock' = lock
  <2>1. /\ d' \in [Slots -> Process]
        /\ d'[p].pc = "stack" /\ d'[p].cmd = d[p].cmd /\ d'[p].env = With(d[p].env, s, i)
        /\ d'[p].discard = TRUE /\ \A q \in Slots \ {p} : d'[q] = d[q]
    BY <1>1, <1>6, FirstMoves
  <2>2. TypeOK'
    BY <1>1, <1>4, <1>6, <2>1 DEF TypeOK
  <2>3. CommandShape(p)'
    <3>1. d'[p].pc \notin {"decide", "update", "waitapp"} /\ d'[p].pc \in {"stack", "waitstack"}
      BY <2>1
    <3>2. d'[p].cmd # Stack
      BY <1>2, <2>1 DEF Stack
    <3>3. ~(d'[p].discard = FALSE)
      BY <2>1, Zenon
    <3> QED
      BY <3>1, <3>2, <3>3, Zenon DEF CommandShape
  <2>4. EnvIsFiles(p)'
    <3>1. d[p].env = files
      BY <1>1 DEF LockParts, EnvIsFiles
    <3> QED
      BY <1>3, <2>1, <3>1 DEF EnvIsFiles, With
  <2>5. d'[p].pc \in Active
    BY <2>1 DEF Active
  <2> QED
    BY <1>1, <1>6, <2>1, <2>2, <2>3, <2>4, <2>5, Stays
<1> QED
  BY <1>5, <1>6 DEF RecordFirst, GoesToStack

LEMMA MisreadLock ==
    ASSUME LockParts, NEW p \in Slots, Misread(p)
    PROVE  LockParts'
<1>1. d[p].pc = "decide" /\ started' = started /\ TypeOK
  BY DEF Misread, LockParts
<1>2. d[p].cmd.svc \in Svcs /\ d[p].cmd.img \in Images
  BY <1>1, AppIsCommand
<1>3. RecordFirst(p, d[p].cmd.svc, d[p].cmd.img) /\ misread' = misread \cup {d[p].cmd.svc}
  BY DEF Misread
<1>4. faults' \in 0..MaxFaults
  BY <1>1, FaultFields DEF Misread
<1>5. misread' \in SUBSET Svcs
  BY <1>1, <1>2, <1>3 DEF TypeOK
<1> QED
  BY <1>1, <1>2, <1>3, <1>4, <1>5, RecordFirstLock

LEMMA NeedsUpdateLock ==
    ASSUME LockParts, NEW p \in Slots, d[p].pc = "decide", UNCHANGED <<started, faults>>,
           NeedsUpdate(p, d[p].cmd.svc, d[p].cmd.img)
    PROVE  LockParts'
<1>1. TypeOK /\ d[p].pc \in Active /\ d[p].cmd # Stack /\ d[p].discard = FALSE
  BY AppIsCommand DEF LockParts, Active
<1>2. d' = [d EXCEPT ![p].pc = "update"] /\ UNCHANGED <<lock, files, svc, history>>
  BY DEF NeedsUpdate
<1>3. /\ d' \in [Slots -> Process]
      /\ d'[p].pc = "update" /\ d'[p].cmd = d[p].cmd /\ d'[p].env = d[p].env
      /\ d'[p].discard = d[p].discard /\ \A q \in Slots \ {p} : d'[q] = d[q]
  BY <1>1, <1>2, PcMoves
<1>4. TypeOK'
  BY <1>1, <1>2, <1>3 DEF TypeOK, history
<1>5. CommandShape(p)'
  <2>1. d'[p].cmd # Stack
    BY <1>1, <1>3 DEF Stack
  <2>2. d'[p].pc \notin {"stack", "waitstack"}
    BY <1>3
  <2>3. d'[p].discard = FALSE
    BY <1>1, <1>3, Zenon
  <2>4. ~(d'[p].discard = TRUE)
    BY <2>3, Zenon
  <2> QED
    BY <2>1, <2>2, <2>3, <2>4, Zenon DEF CommandShape
<1>6. d[p].env = files
  BY <1>1 DEF LockParts, EnvIsFiles
<1>7. EnvIsFiles(p)'
  BY <1>2, <1>3, <1>6 DEF EnvIsFiles
<1>8. d'[p].pc \in Active
  BY <1>3 DEF Active
<1> QED
  BY <1>1, <1>2, <1>3, <1>4, <1>5, <1>7, <1>8, Stays

LEMMA DecideAppLock ==
    ASSUME LockParts, NEW p \in Slots, DecideApp(p)
    PROVE  LockParts'
<1>1. d[p].pc = "decide" /\ UNCHANGED <<started, faults>> /\ d[p].pc \in Active
  BY DEF DecideApp, Active
<1>2. d[p].cmd.svc \in Svcs /\ d[p].cmd.img \in Images
  BY <1>1, AppIsCommand
<1>3. CASE Unchanged(p, d[p].cmd.svc, d[p].cmd.img)
  <2>1. "unchanged" \in Results
    BY DEF Results
  <2>2. Succeed(p, "unchanged", d[p].cmd.svc, d[p].cmd.img) /\ svc' = svc
    BY <1>3 DEF Unchanged
  <2> QED
    BY <1>1, <1>2, <2>1, <2>2, SucceedLock
<1>4. CASE FirstDeploy(p, d[p].cmd.svc, d[p].cmd.img)
  <2>1. RecordFirst(p, d[p].cmd.svc, d[p].cmd.img) /\ misread' = misread
    BY <1>4 DEF FirstDeploy
  <2>2. misread' \in SUBSET Svcs /\ faults' \in 0..MaxFaults /\ started' = started
    BY <1>1, <2>1 DEF LockParts, TypeOK
  <2> QED
    BY <1>1, <1>2, <2>1, <2>2, RecordFirstLock
<1> QED
  BY <1>1, <1>2, <1>3, <1>4, NeedsUpdateLock DEF DecideApp

\* The service, or the stack, was asked to change.
LEMMA MarkLock ==
    ASSUME LockParts, NEW p \in Slots, NEW x \in {"waitstack", "waitapp"},
           \/ d[p].pc = "update" /\ x = "waitapp"
           \/ d[p].pc = "stack" /\ x = "waitstack",
           d' \in [Slots -> Process], d'[p].pc = x, d'[p].cmd = d[p].cmd,
           d'[p].env = d[p].env, d'[p].discard = d[p].discard,
           \A q \in Slots \ {p} : d'[q] = d[q],
           svc' \in [Svcs -> Service], UNCHANGED <<lock, files, history, started, faults>>
    PROVE  LockParts'
<1>1. TypeOK /\ d[p].pc \in Active
  BY DEF LockParts, Active
<1>2. /\ d' \in [Slots -> Process]
      /\ d'[p].pc = x /\ d'[p].cmd = d[p].cmd /\ d'[p].env = d[p].env
      /\ d'[p].discard = d[p].discard
      /\ \A q \in Slots \ {p} : d'[q] = d[q]
  OBVIOUS
<1>3. TypeOK'
  BY <1>1, <1>2 DEF TypeOK, history
<1>4. CommandShape(p) /\ EnvIsFiles(p)
  BY DEF LockParts
<1>5. CommandShape(p)'
  <2>1. CASE d[p].pc = "update" /\ x = "waitapp"
    <3>1. d[p].cmd # Stack /\ d[p].discard = FALSE
      BY <2>1, AppIsCommand
    <3>2. d'[p].cmd # Stack
      BY <1>2, <3>1 DEF Stack
    <3>3. d'[p].discard = FALSE
      BY <1>2, <3>1, Zenon
    <3>4. d'[p].pc \notin {"stack", "waitstack"} /\ ~(d'[p].discard = TRUE)
      BY <1>2, <2>1, <3>3, Zenon
    <3> QED
      BY <3>2, <3>3, <3>4, Zenon DEF CommandShape
  <2>2. CASE d[p].pc = "stack" /\ x = "waitstack"
    <3>1. /\ d'[p].pc \notin {"decide", "update", "waitapp"} /\ d'[p].pc \in {"stack", "waitstack"}
          /\ d[p].pc \in {"stack", "waitstack"}
      BY <1>2, <2>2
    <3> QED
      BY <1>2, <1>4, <3>1, Zenon DEF CommandShape
  <2> QED
    BY <2>1, <2>2
<1>6. EnvIsFiles(p)'
  BY <1>1, <1>2, <1>4 DEF EnvIsFiles, Active
<1>7. d'[p].pc \in Active
  BY <1>2 DEF Active
<1> QED
  BY <1>1, <1>2, <1>3, <1>5, <1>6, <1>7, Stays

LEMMA UpdateAppLock ==
    ASSUME LockParts, NEW p \in Slots, UpdateApp(p)
    PROVE  LockParts' /\ svc' \in [Svcs -> Service]
<1>1. TypeOK
  BY DEF LockParts
<1>2. /\ d[p].pc = "update" /\ d' = [d EXCEPT ![p].pc = "waitapp", ![p].marks = Marks]
      /\ svc' = [svc EXCEPT ![d[p].cmd.svc] = WithImage(d[p].cmd.svc, d[p].cmd.img)]
      /\ UNCHANGED <<lock, files, history, started, faults>>
  BY DEF UpdateApp
<1>3. d[p].cmd.svc \in Svcs /\ d[p].cmd.img \in Images
  BY <1>2, AppIsCommand
<1>4. WithImage(d[p].cmd.svc, d[p].cmd.img) \in Service
  BY <1>1, <1>3, DockerTypes
<1>5. svc' \in [Svcs -> Service]
  BY <1>1, <1>2, <1>4 DEF TypeOK
<1>6. /\ d' \in [Slots -> Process]
      /\ d'[p].pc = "waitapp" /\ d'[p].cmd = d[p].cmd /\ d'[p].env = d[p].env
      /\ d'[p].discard = d[p].discard
      /\ \A q \in Slots \ {p} : d'[q] = d[q]
  BY <1>1, <1>2, MarkMoves
<1> QED
  BY <1>2, <1>5, <1>6, MarkLock

LEMMA ApplyStackLock ==
    ASSUME LockParts, NEW p \in Slots, ApplyStack(p)
    PROVE  LockParts' /\ svc' \in [Svcs -> Service]
<1>1. TypeOK
  BY DEF LockParts
<1>2. /\ d[p].pc = "stack" /\ d' = [d EXCEPT ![p].pc = "waitstack", ![p].marks = Marks, ![p].stable = 0]
      /\ svc' = StackOver(p, Svcs) /\ \A s \in Svcs : d[p].env[s] # NoImage
      /\ UNCHANGED <<lock, files, history, started, faults>>
  BY DEF ApplyStack
<1>3. svc' \in [Svcs -> Service]
  BY <1>1, <1>2, StackOverFields
<1>4. /\ d' \in [Slots -> Process]
      /\ d'[p].pc = "waitstack" /\ d'[p].cmd = d[p].cmd /\ d'[p].env = d[p].env
      /\ d'[p].discard = d[p].discard
      /\ \A q \in Slots \ {p} : d'[q] = d[q]
  BY <1>1, <1>2, StackMoves
<1> QED
  BY <1>2, <1>3, <1>4, MarkLock

LEMMA ResultNames == {"", "success", "pending", "unchanged", "failure", "rolled-back",
                      "killed", "no-lock"} \subseteq Results
BY DEF Results

\* Nothing of the commands changes.
LEMMA SameCommands ==
    ASSUME LockParts, UNCHANGED <<lock, files, history, d, started, faults>>,
           svc' \in [Svcs -> Service]
    PROVE  LockParts'
<1>1. TypeOK'
  BY DEF LockParts, TypeOK, history
<1>2. LockIsHeld'
  BY DEF LockParts, LockIsHeld
<1>3. ASSUME NEW p \in Slots PROVE CommandShape(p)' /\ EnvIsFiles(p)'
  <2>1. d' = d /\ files' = files /\ CommandShape(p) /\ EnvIsFiles(p)
    BY DEF LockParts
  <2> QED
    BY <2>1, Zenon DEF CommandShape, EnvIsFiles
<1> QED
  BY <1>1, <1>2, <1>3 DEF LockParts

LEMMA PollAppLock ==
    ASSUME LockParts, NEW p \in Slots, PollApp(p)
    PROVE  LockParts'
<1> DEFINE s == d[p].cmd.svc
           i == d[p].cmd.img
<1>1. /\ TypeOK /\ d[p].pc = "waitapp" /\ UNCHANGED <<started, faults>> /\ d[p].pc \in Active
      /\ svc \in [Svcs -> Service] /\ faults \in 0..MaxFaults
  BY DEF PollApp, Active, LockParts, TypeOK
<1>2. s \in Svcs /\ i \in Images
  BY <1>1, AppIsCommand
<1>3. CASE Succeed(p, "success", s, i) /\ svc' = svc
  BY <1>1, <1>2, <1>3, SucceedLock, ResultNames
<1>4. CASE svc' = [svc EXCEPT ![s] = RolledBack(s)] /\ UNCHANGED <<lock, files, history, d>>
  <2>1. RolledBack(s) \in Service
    BY <1>1, <1>2, DockerTypes
  <2>2. svc' \in [Svcs -> Service]
    BY <1>1, <1>4, <2>1
  <2> QED
    BY <1>1, <1>4, <2>2, SameCommands
<1>5. CASE Die(p, "rolled-back") /\ svc' = svc
  <2>1. svc' \in [Svcs -> Service] /\ faults' \in 0..MaxFaults /\ started' = started
    BY <1>1, <1>5
  <2> QED
    BY <1>1, <1>5, <2>1, DieLock, ResultNames
<1> QED
  BY <1>3, <1>4, <1>5 DEF PollApp

LEMMA TimeoutAppLock ==
    ASSUME LockParts, NEW p \in Slots, TimeoutApp(p)
    PROVE  LockParts' /\ lock' = NoProc
<1> DEFINE s == d[p].cmd.svc
<1>1. /\ TypeOK /\ d[p].pc = "waitapp" /\ d[p].pc \in Active
      /\ svc \in [Svcs -> Service] /\ faults \in 0..MaxFaults
      /\ UNCHANGED <<started, faults>> /\ svc' = [svc EXCEPT ![s] = RolledBack(s)]
      /\ Die(p, "failure")
  BY DEF TimeoutApp, Active, LockParts, TypeOK
<1>2. s \in Svcs
  BY <1>1, AppIsCommand
<1>3. RolledBack(s) \in Service
  BY <1>1, <1>2, DockerTypes
<1>4. svc' \in [Svcs -> Service] /\ faults' \in 0..MaxFaults /\ started' = started
  BY <1>1, <1>3
<1> QED
  BY <1>1, <1>4, DieLock, ResultNames

LEMMA DyingLock ==
    ASSUME LockParts, NEW p \in Slots,
           AbortApp(p) \/ RefuseStack(p) \/ ApplyStackFails(p) \/ TimeoutStack(p) \/ GiveUpFails(p)
    PROVE  LockParts' /\ lock' = NoProc
<1>1. TypeOK /\ svc \in [Svcs -> Service] /\ faults \in 0..MaxFaults
  BY DEF LockParts, TypeOK
<1>2. d[p].pc \in Active
  BY DEF AbortApp, RefuseStack, ApplyStackFails, TimeoutStack, GiveUpFails, Active
<1>3. Die(p, "failure") /\ started' = started
  BY DEF AbortApp, RefuseStack, ApplyStackFails, TimeoutStack, GiveUpFails, GiveUp
<1>4. faults' \in 0..MaxFaults
  BY <1>1, FaultFields DEF AbortApp, RefuseStack, ApplyStackFails, TimeoutStack, GiveUpFails
<1>5. svc' \in [Svcs -> Service]
  <2>1. CASE svc' = svc
    BY <1>1, <2>1
  <2>2. CASE ApplyStackFails(p)
    BY <1>1, <2>2, StackOverFields DEF ApplyStackFails
  <2>3. CASE TimeoutStack(p) \/ GiveUpFails(p)
    BY <1>1, <2>3, GiveUpFields DEF TimeoutStack, GiveUpFails
  <2> QED
    BY <2>1, <2>2, <2>3 DEF AbortApp, RefuseStack
<1> QED
  BY <1>2, <1>3, <1>4, <1>5, DieLock, ResultNames

\* A poll of the stack that is seen to be calm, or no longer calm.
LEMMA StableLock ==
    ASSUME LockParts, NEW p \in Slots, d[p].pc = "waitstack", NEW n \in 0..1,
           SeesCalm(p, n), UNCHANGED <<lock, files, svc, history, started>>,
           faults' \in 0..MaxFaults
    PROVE  LockParts'
<1>1. TypeOK /\ d[p].pc \in Active
  BY DEF LockParts, Active
<1>2. /\ d' \in [Slots -> Process]
      /\ d'[p].pc = d[p].pc /\ d'[p].cmd = d[p].cmd /\ d'[p].env = d[p].env
      /\ d'[p].discard = d[p].discard
      /\ \A q \in Slots \ {p} : d'[q] = d[q]
  BY <1>1, StableMoves
<1>3. TypeOK'
  BY <1>1, <1>2 DEF TypeOK, history
<1>4. CommandShape(p) /\ EnvIsFiles(p)
  BY DEF LockParts
<1>5. CommandShape(p)'
  <2>1. /\ d'[p].pc \notin {"decide", "update", "waitapp"} /\ d'[p].pc \in {"stack", "waitstack"}
        /\ d[p].pc \in {"stack", "waitstack"}
    BY <1>2
  <2> QED
    BY <1>2, <1>4, <2>1, Zenon DEF CommandShape
<1>6. EnvIsFiles(p)'
  BY <1>2, <1>4 DEF EnvIsFiles
<1>7. d'[p].pc \in Active
  BY <1>1, <1>2
<1> QED
  BY <1>1, <1>2, <1>3, <1>5, <1>6, <1>7, Stays

LEMMA CalmLock ==
    ASSUME LockParts, NEW p \in Slots, d[p].pc = "waitstack", Calm(p),
           UNCHANGED <<files, svc, started>>, faults' \in 0..MaxFaults
    PROVE  LockParts'
<1>1. TypeOK /\ d[p].pc \in Active
  BY DEF LockParts, Active
<1>2. CASE SeesCalm(p, 1) /\ UNCHANGED <<lock, history>>
  <2>1. 1 \in 0..1
    OBVIOUS
  <2> QED
    BY <1>2, <2>1, StableLock
<1>3. CASE /\ End(p, "success")
           /\ shipped' = [s \in Svcs |-> IF IsApp(p, s) THEN d[p].cmd.img ELSE shipped[s]]
           /\ misread' = {s \in misread : ~IsApp(p, s)}
  <2>1. \A s \in Svcs : IsApp(p, s) => d[p].cmd.img \in Maybe
    BY <1>1, CommandType DEF IsApp, Maybe
  <2>2. shipped' \in [Svcs -> Maybe] /\ misread' \in SUBSET Svcs
    BY <1>1, <1>3, <2>1 DEF TypeOK
  <2>3. files' \in [Svcs -> Maybe] /\ svc' \in [Svcs -> Service] /\ started' = started
    BY <1>1 DEF TypeOK
  <2> QED
    BY <1>1, <1>3, <2>2, <2>3, EndLock, ResultNames
<1> QED
  BY <1>2, <1>3 DEF Calm, SeesCalm

LEMMA PollStackLock ==
    ASSUME LockParts, NEW p \in Slots, PollStack(p) \/ PollBlind(p)
    PROVE  LockParts'
<1>1. TypeOK /\ faults \in 0..MaxFaults /\ d[p].pc = "waitstack" /\ d[p].pc \in Active
  BY DEF LockParts, TypeOK, PollStack, PollBlind, Active
<1>2. CASE PollBlind(p)
  BY <1>1, <1>2, FaultFields, CalmLock DEF PollBlind
<1>3. CASE PollStack(p)
  <2>1. UNCHANGED <<started, faults>> /\ faults' \in 0..MaxFaults
    BY <1>1, <1>3 DEF PollStack
  <2>2. CASE GiveUp(p, Svcs)
    <3>1. svc' \in [Svcs -> Service] /\ Die(p, "failure")
      BY <1>1, <2>2, GiveUpFields
    <3> QED
      BY <1>1, <2>1, <3>1, DieLock, ResultNames
  <2>3. CASE Calm(p) /\ UNCHANGED <<svc, files>>
    BY <1>1, <2>1, <2>3, CalmLock
  <2>4. CASE SeesCalm(p, 0) /\ UNCHANGED <<lock, files, svc, history>>
    <3>1. 0 \in 0..1
      OBVIOUS
    <3> QED
      BY <1>1, <2>1, <2>4, <3>1, StableLock
  <2> QED
    BY <1>3, <2>2, <2>3, <2>4 DEF PollStack, SeesCalm
<1> QED
  BY <1>2, <1>3

LEMMA KillLock ==
    ASSUME LockParts, NEW p \in Slots, Kill(p)
    PROVE  LockParts'
<1>0. TypeOK /\ Fault
  BY DEF LockParts, Kill
<1>1. /\ TypeOK /\ faults' \in 0..MaxFaults /\ d' = [d EXCEPT ![p] = Ended("killed")]
      /\ UNCHANGED <<files, svc, history, started>>
      /\ lock' = IF lock = p THEN NoProc ELSE lock
  BY <1>0, FaultFields DEF Kill
<1>2. CASE d[p].pc \in Active
  <2>1. End(p, "killed")
    BY <1>1, <1>2, Alone DEF End
  <2>2. files' \in [Svcs -> Maybe] /\ svc' \in [Svcs -> Service] /\ shipped' \in [Svcs -> Maybe]
        /\ misread' \in SUBSET Svcs
    BY <1>1 DEF TypeOK, history
  <2> QED
    BY <1>1, <1>2, <2>1, <2>2, EndLock, ResultNames
<1>3. CASE d[p].pc \notin Active
  <2>1. lock' = lock
    BY <1>1, <1>3 DEF LockParts, LockIsHeld
  <2> QED
    BY <1>1, <1>3, <2>1, LosesWaiting, ResultNames
<1> QED
  BY <1>2, <1>3

LEMMA LockStep ==
    ASSUME LockParts, [Next]_vars
    PROVE  LockParts'
<1>1. CASE UNCHANGED vars
  <2>1. svc' \in [Svcs -> Service]
    BY <1>1 DEF LockParts, TypeOK, vars
  <2> QED
    BY <1>1, <2>1, SameCommands DEF vars
<1>2. ASSUME NEW p \in Slots, Run(p) PROVE LockParts'
  <2>1. CASE LockTimeout(p)
    <3>1. faults' \in 0..MaxFaults /\ d[p].pc \notin Active
      BY <2>1 DEF LockTimeout, LockParts, TypeOK, Active
    <3>2. d' = [d EXCEPT ![p] = Ended("no-lock")]
          /\ UNCHANGED <<lock, files, svc, history, started>>
      BY <2>1 DEF LockTimeout
    <3> QED
      BY <3>1, <3>2, LosesWaiting, ResultNames
  <2> QED
    BY <1>2, <2>1, AcquireLockLock, LoadEnvLock, DecideAppLock, MisreadLock, UpdateAppLock, PollAppLock,
       TimeoutAppLock, DyingLock, ApplyStackLock, PollStackLock DEF Run
<1>3. ASSUME NEW s \in Svcs, SwarmStep(s) PROVE LockParts'
  <2>1. svc' \in [Svcs -> Service]
    BY <1>3, SwarmFields DEF LockParts
  <2> QED
    BY <1>3, <2>1, SameCommands DEF SwarmStep
<1> QED
  BY <1>1, <1>2, <1>3, StartLock, KillLock DEF Next

-----------------------------------------------------------------------------
(* The lock and what it protects.                                          *)

\* flock on /run/lock/starter-deploy.lock (deploy:40-48): whatever is started,
\* fails or is killed, whoever is past the lock holds it, and the image files
\* it read under the lock are the image files.
THEOREM LockProtects == Spec => []LockParts
<1>1. Init => LockParts
  BY LockInit
<1>2. LockParts /\ [Next]_vars => LockParts'
  BY LockStep
<1> QED
  BY <1>1, <1>2, PTL DEF Spec

\* Lock, files, services and every command's record keep their types.
THEOREM TypeCorrect == Spec => []TypeOK
<1>1. LockParts => TypeOK
  BY DEF LockParts
<1> QED
  BY <1>1, LockProtects, PTL

\* At most one command is past the lock.
Exclusion == \A p, q \in Slots : d[p].pc \in Active /\ d[q].pc \in Active => p = q

THEOREM MutualExclusion == Spec => []Exclusion
<1>1. LockParts => Exclusion
  BY DEF LockParts, LockIsHeld, Exclusion
<1> QED
  BY <1>1, LockProtects, PTL

-----------------------------------------------------------------------------
(* Who changes a service, and how.                                         *)

RollsBackApp(p, s) ==
    /\ d[p].pc = "waitapp" /\ IsApp(p, s)
    /\ PollApp(p) \/ TimeoutApp(p)
    /\ svc'[s] = RolledBack(s)

GivesUp(p, s) ==
    /\ d[p].pc = "waitstack"
    /\ State(p, s) \in {"updating", "paused"}
    /\ svc'[s] = RolledBack(s)
    /\ Die(p, "failure")

Updates(p, s) ==
    /\ UpdateApp(p) /\ IsApp(p, s)
    /\ svc'[s] = WithImage(s, d[p].cmd.img)

Ships(p, s) ==
    /\ d[p].pc = "stack"
    /\ ApplyStack(p) \/ ApplyStackFails(p)
    /\ d[p].env[s] # NoImage
    /\ svc'[s] = WithImage(s, d[p].env[s])

CommandChanges(p, s) == RollsBackApp(p, s) \/ GivesUp(p, s) \/ Updates(p, s) \/ Ships(p, s)

LEMMA CommandServices ==
    ASSUME LockParts, NEW p \in Slots, Run(p), NEW s \in Svcs
    PROVE  svc'[s] = svc[s] \/ CommandChanges(p, s)
<1>1. TypeOK /\ svc \in [Svcs -> Service]
  BY DEF LockParts, TypeOK
<1>2. CASE UpdateApp(p)
  <2>1. d[p].pc = "update" /\ d[p].cmd # Stack
    BY <1>2, AppIsCommand DEF UpdateApp
  <2>2. CASE d[p].cmd.svc = s
    BY <1>1, <1>2, <2>1, <2>2 DEF UpdateApp, Updates, IsApp, CommandChanges
  <2>3. CASE d[p].cmd.svc # s
    BY <1>1, <1>2, <2>3 DEF UpdateApp
  <2> QED
    BY <2>2, <2>3
<1>3. CASE PollApp(p) \/ TimeoutApp(p)
  <2>1. d[p].pc = "waitapp" /\ d[p].cmd # Stack
    BY <1>3, AppIsCommand DEF PollApp, TimeoutApp
  <2>2. svc' = svc \/ svc' = [svc EXCEPT ![d[p].cmd.svc] = RolledBack(d[p].cmd.svc)]
    BY <1>3 DEF PollApp, TimeoutApp
  <2>3. CASE d[p].cmd.svc = s
    BY <1>1, <1>3, <2>1, <2>2, <2>3 DEF RollsBackApp, IsApp, CommandChanges
  <2>4. CASE d[p].cmd.svc # s
    BY <1>1, <2>2, <2>4
  <2> QED
    BY <2>3, <2>4
<1>4. CASE ApplyStack(p) \/ ApplyStackFails(p)
  <2>1. d[p].pc = "stack" /\ \A m \in Svcs : d[p].env[m] # NoImage
    BY <1>4 DEF ApplyStack, ApplyStackFails
  <2>2. PICK S \in SUBSET Svcs : svc' = StackOver(p, S)
    BY <1>4 DEF ApplyStack, ApplyStackFails
  <2> QED
    BY <1>1, <1>4, <2>1, <2>2, StackOverFields DEF Ships, CommandChanges
<1>5. ASSUME NEW S \in SUBSET Svcs, GiveUp(p, S), d[p].pc = "waitstack"
      PROVE  svc'[s] = svc[s] \/ CommandChanges(p, s)
  BY <1>1, <1>5, GiveUpFields DEF GivesUp, CommandChanges
<1>6. CASE PollStack(p) \/ TimeoutStack(p) \/ GiveUpFails(p)
  <2>1. d[p].pc = "waitstack" /\ (svc' = svc \/ \E S \in SUBSET Svcs : GiveUp(p, S))
    BY <1>6 DEF PollStack, TimeoutStack, GiveUpFails
  <2> QED
    BY <1>5, <2>1
<1>7. CASE svc' = svc
  BY <1>7
<1>8. \/ svc' = svc \/ UpdateApp(p) \/ PollApp(p) \/ TimeoutApp(p)
      \/ ApplyStack(p) \/ ApplyStackFails(p) \/ PollStack(p) \/ TimeoutStack(p) \/ GiveUpFails(p)
  BY DEF Run, AcquireLock, LockTimeout, LoadEnv, DecideApp, FirstDeploy, RecordFirst, Unchanged,
         NeedsUpdate, Misread, AbortApp, RefuseStack, PollBlind
<1> QED
  BY <1>2, <1>3, <1>4, <1>6, <1>7, <1>8

LEMMA ServiceSteps ==
    ASSUME LockParts, [Next]_vars, NEW s \in Svcs
    PROVE  \/ svc'[s] = svc[s]
           \/ SwarmStep(s)
           \/ \E p \in Slots : CommandChanges(p, s)
<1>1. CASE UNCHANGED vars
  BY <1>1 DEF vars
<1>2. ASSUME NEW p \in Slots, Run(p) PROVE svc'[s] = svc[s] \/ CommandChanges(p, s)
  BY <1>2, CommandServices
<1>3. ASSUME NEW m \in Svcs, SwarmStep(m) PROVE svc'[s] = svc[s] \/ SwarmStep(s)
  BY <1>3, SwarmFields DEF LockParts
<1>4. ASSUME NEW p \in Slots, NEW cmd \in Commands, Start(p, cmd) \/ Kill(p)
      PROVE  svc'[s] = svc[s]
  BY <1>4 DEF Start, Kill
<1>5. ASSUME NEW p \in Slots, Kill(p) PROVE svc'[s] = svc[s]
  BY <1>5 DEF Kill
<1> QED
  BY <1>1, <1>2, <1>3, <1>4, <1>5 DEF Next

Becomes(s, image, prev, run, update, mark) ==
    /\ svc'[s].image = image /\ svc'[s].prev = prev /\ svc'[s].run = run
    /\ svc'[s].update = update /\ svc'[s].mark = mark

LEMMA SwarmCases ==
    ASSUME TypeOK, NEW s \in Svcs, SwarmStep(s)
    PROVE  LET v == svc[s]
           IN  \/ /\ v.update = "none" /\ v.image \in Good /\ v.run = NoImage
                  /\ Becomes(s, v.image, v.prev, v.image, "none", v.mark)
               \/ /\ v.update = "queued"
                  /\ Becomes(s, v.image, v.prev, v.run, "updating", v.mark + 1)
               \/ /\ v.update = "updating"
                  /\ Becomes(s, v.image, v.prev, v.image, "completed", v.mark)
               \/ /\ v.update = "updating"
                  /\ Becomes(s, v.image, v.prev, v.run, "paused", v.mark)
               \/ /\ v.update = "updating"
                  /\ Becomes(s, v.prev, NoImage, v.run, "rollback_started", v.mark)
               \/ /\ v.update = "rollback_started"
                  /\ \E r \in {v.run, v.image}, u \in {"rollback_completed", "rollback_paused"} :
                        Becomes(s, v.image, v.prev, r, u, v.mark)
<1> DEFINE v == svc[s]
<1>1. svc \in [Svcs -> Service] /\ v \in [image: Maybe, prev: Maybe, run: Maybe, update: Update, mark: Nat]
  BY ServiceType DEF TypeOK, Service
<1>2. CASE TasksStart(s)
  <2>1. svc'[s] = [v EXCEPT !.run = v.image]
    BY <1>1, <1>2 DEF TasksStart
  <2>2. Becomes(s, v.image, v.prev, v.image, v.update, v.mark)
    BY <1>1, <2>1 DEF Becomes
  <2> QED
    BY <1>2, <2>2 DEF TasksStart
<1>3. CASE UpdateStarts(s)
  <2>1. svc'[s] = [v EXCEPT !.update = "updating", !.mark = v.mark + 1]
    BY <1>1, <1>3 DEF UpdateStarts
  <2>2. Becomes(s, v.image, v.prev, v.run, "updating", v.mark + 1)
    BY <1>1, <2>1 DEF Becomes
  <2> QED
    BY <1>3, <2>2 DEF UpdateStarts
<1>4. CASE UpdateCompletes(s)
  <2>1. svc'[s] = [v EXCEPT !.update = "completed", !.run = v.image]
    BY <1>1, <1>4 DEF UpdateCompletes
  <2>2. Becomes(s, v.image, v.prev, v.image, "completed", v.mark)
    BY <1>1, <2>1 DEF Becomes
  <2> QED
    BY <1>4, <2>2 DEF UpdateCompletes
<1>5. CASE UpdateFails(s)
  <2>1. \/ svc'[s] = [v EXCEPT !.update = "paused"]
        \/ svc'[s] = [v EXCEPT !.update = "rollback_started", !.image = v.prev, !.prev = NoImage]
    BY <1>1, <1>5 DEF UpdateFails
  <2>2. \/ Becomes(s, v.image, v.prev, v.run, "paused", v.mark)
        \/ Becomes(s, v.prev, NoImage, v.run, "rollback_started", v.mark)
    BY <1>1, <2>1 DEF Becomes
  <2> QED
    BY <1>5, <2>2 DEF UpdateFails
<1>6. CASE RollbackEnds(s)
  <2>1. \/ svc'[s] = [v EXCEPT !.update = "rollback_completed", !.run = v.image]
        \/ svc'[s] = [v EXCEPT !.update = "rollback_paused"]
    BY <1>1, <1>6 DEF RollbackEnds
  <2>2. \E r \in {v.run, v.image}, u \in {"rollback_completed", "rollback_paused"} :
           Becomes(s, v.image, v.prev, r, u, v.mark)
    BY <1>1, <2>1 DEF Becomes
  <2> QED
    BY <1>6, <2>2 DEF RollbackEnds
<1> QED
  BY <1>2, <1>3, <1>4, <1>5, <1>6 DEF SwarmStep

-----------------------------------------------------------------------------
(* What a service looks like, whoever changed it.                          *)

Pendings == {"queued", "updating", "paused"}

\* A service that is not there has no history; one that is not through with
\* an update can go back; one never updated has no StartedAt.
ServiceShape(s) ==
    /\ svc[s].image = NoImage => svc[s] = Absent
    /\ svc[s].update \in Pendings => svc[s].prev # NoImage
    /\ svc[s].update = "none" => svc[s].mark = 0

LEMMA NotThere ==
    ASSUME NEW s \in Svcs, ServiceShape(s), ~Exists(s)
    PROVE  /\ svc[s].prev = NoImage /\ svc[s].run = NoImage
           /\ svc[s].update = "none" /\ svc[s].mark = 0
BY AbsentFields DEF ServiceShape, Exists

LEMMA ShapeStep ==
    ASSUME LockParts, [Next]_vars, NEW s \in Svcs, ServiceShape(s)
    PROVE  /\ ServiceShape(s)'
           /\ Exists(s) => Exists(s)'
           /\ svc'[s].mark >= svc[s].mark
<1>1. TypeOK /\ svc[s].mark \in Nat
  BY ServiceType DEF LockParts
<1>2. CASE svc'[s] = svc[s]
  BY <1>1, <1>2 DEF ServiceShape, Exists
<1>3. CASE svc'[s] = RolledBack(s)
  <2>1. CASE svc[s].prev # NoImage
    BY <1>1, <1>3, <2>1, RolledBackFields DEF ServiceShape, Exists, Pendings
  <2> QED
    BY <1>2, <1>3, <2>1, RolledBackNot
<1>4. ASSUME NEW i \in Images, svc'[s] = WithImage(s, i)
      PROVE  ServiceShape(s)' /\ (Exists(s) => Exists(s)') /\ svc'[s].mark >= svc[s].mark
  <2>1. i # NoImage
    BY Sentinels
  <2>2. CASE ~Exists(s)
    BY <1>1, <1>4, <2>1, <2>2, WithImageCases, CreateFields, NotThere DEF ServiceShape, Exists, Pendings
  <2>3. CASE Exists(s) /\ svc[s].image = i
    BY <1>1, <1>2, <1>4, <2>3, WithImageCases
  <2>4. CASE Exists(s) /\ svc[s].image # i
    BY <1>1, <1>4, <2>1, <2>4, WithImageCases DEF ServiceShape, Exists, Pendings
  <2> QED
    BY <2>2, <2>3, <2>4
<1>5. CASE SwarmStep(s)
  <2>1. Exists(s)
    BY <1>1, <1>5, SwarmCases, NotThere, Sentinels, HostFiles DEF Exists
  <2> QED
    BY <1>1, <1>5, <2>1, SwarmCases DEF Becomes, ServiceShape, Exists, Pendings
<1>6. ASSUME NEW p \in Slots, CommandChanges(p, s)
      PROVE  svc'[s] = RolledBack(s) \/ \E i \in Images : svc'[s] = WithImage(s, i)
  <2>1. CASE Updates(p, s)
    <3>1. d[p].cmd.img \in Images
      BY <2>1, AppIsCommand DEF Updates, UpdateApp
    <3> QED
      BY <2>1, <3>1 DEF Updates
  <2>2. CASE Ships(p, s)
    BY <1>1, <2>2, EnvType DEF Ships
  <2> QED
    BY <1>6, <2>1, <2>2 DEF CommandChanges, RollsBackApp, GivesUp
<1> QED
  BY <1>2, <1>3, <1>4, <1>5, <1>6, ServiceSteps

-----------------------------------------------------------------------------
(* Who writes an image file or ships an image, and how.                    *)

Keeps(s) ==
    /\ files'[s] = files[s] /\ shipped'[s] = shipped[s]
    /\ s \in misread' <=> s \in misread

Records(p, s) ==
    /\ IsApp(p, s) /\ d[p].pc \in {"decide", "waitapp"}
    /\ files'[s] = d[p].cmd.img /\ shipped'[s] = d[p].cmd.img /\ s \notin misread'
    /\ svc' = svc /\ lock' = NoProc
    /\ \/ svc[s].image = d[p].cmd.img
       \/ d[p].pc = "waitapp" /\ State(p, s) = "completed"

WritesFirst(p, s) ==
    /\ IsApp(p, s) /\ d[p].pc = "decide"
    /\ files'[s] = d[p].cmd.img /\ shipped'[s] = shipped[s]
    /\ svc' = svc
    /\ \/ ~Exists(s) /\ (s \in misread' <=> s \in misread)
       \/ s \in misread' /\ faults' > 0

Discards(p, s) ==
    /\ IsApp(p, s) /\ d[p].discard = TRUE
    /\ files'[s] = NoImage /\ shipped'[s] = shipped[s]
    /\ s \in misread' <=> s \in misread
    /\ lock' = NoProc

RecordsFirst(p, s) ==
    /\ IsApp(p, s) /\ d[p].pc = "waitstack"
    /\ files'[s] = files[s] /\ shipped'[s] = d[p].cmd.img /\ s \notin misread'
    /\ svc' = svc /\ lock' = NoProc

CommandWrites(p, s) == Records(p, s) \/ WritesFirst(p, s) \/ Discards(p, s) \/ RecordsFirst(p, s)

LEMMA DieFiles ==
    ASSUME LockParts, NEW p \in Slots, NEW result \in Results, Die(p, result), NEW s \in Svcs
    PROVE  Keeps(s) \/ Discards(p, s)
<1>1. /\ TypeOK /\ files \in [Svcs -> Maybe] /\ CommandShape(p) /\ d[p].discard \in BOOLEAN
      /\ d[p].cmd \in Commands \cup {Stack}
  BY DEF LockParts, TypeOK, Process
<1>2. lock' = NoProc /\ shipped' = shipped /\ misread' = misread
  BY <1>1, DieFields, EndFields
<1>3. CASE d[p].discard = TRUE
  <2>1. d[p].cmd # Stack
    BY <1>1, <1>3, Zenon DEF CommandShape
  <2>2. files' = [files EXCEPT ![d[p].cmd.svc] = NoImage]
    BY <1>1, <1>3, DieFields, Zenon
  <2>3. CASE d[p].cmd.svc = s
    <3>1. files'[s] = NoImage
      BY <1>1, <2>2, <2>3
    <3>2. IsApp(p, s)
      BY <2>1, <2>3 DEF IsApp
    <3> QED
      BY <1>2, <1>3, <3>1, <3>2, Zenon DEF Discards
  <2>4. CASE d[p].cmd.svc # s
    BY <1>1, <1>2, <2>2, <2>4 DEF Keeps
  <2> QED
    BY <2>3, <2>4
<1>4. CASE d[p].discard = FALSE
  <2>1. files' = files
    BY <1>1, <1>4, DieFields, Zenon
  <2> QED
    BY <1>2, <2>1 DEF Keeps
<1> QED
  BY <1>1, <1>3, <1>4

LEMMA SucceedFiles ==
    ASSUME LockParts, NEW p \in Slots, NEW result \in Results, d[p].pc \in {"decide", "waitapp"},
           Succeed(p, result, d[p].cmd.svc, d[p].cmd.img), svc' = svc,
           \/ svc[d[p].cmd.svc].image = d[p].cmd.img
           \/ d[p].pc = "waitapp" /\ State(p, d[p].cmd.svc) = "completed",
           NEW s \in Svcs
    PROVE  Keeps(s) \/ Records(p, s)
<1>1. files \in [Svcs -> Maybe] /\ shipped \in [Svcs -> Maybe] /\ d[p].cmd # Stack
  BY AppIsCommand DEF LockParts, TypeOK
<1>2. /\ files' = [files EXCEPT ![d[p].cmd.svc] = d[p].cmd.img]
      /\ shipped' = [shipped EXCEPT ![d[p].cmd.svc] = d[p].cmd.img]
      /\ misread' = misread \ {d[p].cmd.svc}
      /\ lock' = NoProc
  BY DEF Succeed, End
<1>3. CASE d[p].cmd.svc = s
  BY <1>1, <1>2, <1>3 DEF Records, IsApp
<1>4. CASE d[p].cmd.svc # s
  BY <1>1, <1>2, <1>4 DEF Keeps
<1> QED
  BY <1>3, <1>4

LEMMA CommandFiles ==
    ASSUME LockParts, NEW p \in Slots, Run(p), NEW s \in Svcs
    PROVE  Keeps(s) \/ CommandWrites(p, s)
<1>1. TypeOK /\ files \in [Svcs -> Maybe] /\ shipped \in [Svcs -> Maybe]
  BY DEF LockParts, TypeOK
<1>2. ASSUME NEW result \in Results, Die(p, result) PROVE Keeps(s) \/ CommandWrites(p, s)
  BY <1>2, DieFiles DEF CommandWrites
<1>3. CASE DecideApp(p) \/ Misread(p)
  <2>1. d[p].pc = "decide" /\ d[p].cmd # Stack /\ d[p].cmd.svc \in Svcs
    BY <1>3, AppIsCommand DEF DecideApp, Misread
  <2>2. CASE FirstDeploy(p, d[p].cmd.svc, d[p].cmd.img) \/ Misread(p)
    <3>1. /\ files' = [files EXCEPT ![d[p].cmd.svc] = d[p].cmd.img]
          /\ shipped' = shipped /\ svc' = svc
      BY <2>2 DEF FirstDeploy, Misread, RecordFirst
    <3>2. \/ ~Exists(d[p].cmd.svc) /\ misread' = misread
          \/ misread' = misread \cup {d[p].cmd.svc} /\ faults' > 0
      BY <1>1, <2>2, FaultFields DEF FirstDeploy, Misread
    <3>3. CASE d[p].cmd.svc = s
      BY <1>1, <2>1, <3>1, <3>2, <3>3 DEF WritesFirst, IsApp, CommandWrites
    <3>4. CASE d[p].cmd.svc # s
      BY <1>1, <3>1, <3>2, <3>4 DEF Keeps
    <3> QED
      BY <3>3, <3>4
  <2>3. CASE Unchanged(p, d[p].cmd.svc, d[p].cmd.img)
    BY <2>1, <2>3, SucceedFiles, ResultNames DEF Unchanged, CommandWrites
  <2>4. CASE NeedsUpdate(p, d[p].cmd.svc, d[p].cmd.img)
    BY <2>4 DEF NeedsUpdate, Keeps, history
  <2> QED
    BY <1>3, <2>2, <2>3, <2>4 DEF DecideApp
<1>4. CASE PollApp(p)
  <2>1. d[p].pc = "waitapp"
    BY <1>4 DEF PollApp
  <2>2. CASE /\ State(p, d[p].cmd.svc) = "completed" /\ svc' = svc
             /\ Succeed(p, "success", d[p].cmd.svc, d[p].cmd.img)
    BY <2>1, <2>2, SucceedFiles, ResultNames DEF CommandWrites
  <2>3. CASE UNCHANGED <<files, history>>
    BY <2>3 DEF Keeps, history
  <2>4. CASE Die(p, "rolled-back")
    BY <1>2, <2>4, ResultNames
  <2> QED
    BY <1>4, <2>2, <2>3, <2>4 DEF PollApp
<1>5. CASE Calm(p) /\ d[p].pc = "waitstack" /\ UNCHANGED <<files, svc>>
  <2>1. \/ shipped' = shipped /\ misread' = misread
        \/ /\ shipped' = [m \in Svcs |-> IF IsApp(p, m) THEN d[p].cmd.img ELSE shipped[m]]
           /\ misread' = {m \in misread : ~IsApp(p, m)}
           /\ lock' = NoProc
    BY <1>5 DEF Calm, End, history
  <2>2. CASE shipped' = shipped /\ misread' = misread
    BY <1>5, <2>2 DEF Keeps
  <2>3. CASE IsApp(p, s)
    BY <1>5, <2>1, <2>2, <2>3 DEF RecordsFirst, CommandWrites
  <2>4. CASE ~IsApp(p, s)
    BY <1>5, <2>1, <2>4 DEF Keeps
  <2> QED
    BY <2>3, <2>4
<1>6. CASE UNCHANGED <<files, history>>
  BY <1>6 DEF Keeps, history
<1>7. CASE PollStack(p) \/ PollBlind(p) \/ TimeoutStack(p) \/ GiveUpFails(p)
  <2>1. d[p].pc = "waitstack"
    BY <1>7 DEF PollStack, PollBlind, TimeoutStack, GiveUpFails
  <2>2. \/ Die(p, "failure") \/ (Calm(p) /\ UNCHANGED <<files, svc>>) \/ UNCHANGED <<files, history>>
    BY <1>7 DEF PollStack, PollBlind, TimeoutStack, GiveUpFails, GiveUp
  <2> QED
    BY <1>2, <1>5, <1>6, <2>1, <2>2, ResultNames
<1>8. CASE TimeoutApp(p) \/ AbortApp(p) \/ RefuseStack(p) \/ ApplyStackFails(p)
  BY <1>2, <1>8, ResultNames DEF TimeoutApp, AbortApp, RefuseStack, ApplyStackFails
<1>9. CASE AcquireLock(p) \/ LockTimeout(p) \/ LoadEnv(p) \/ UpdateApp(p) \/ ApplyStack(p)
  BY <1>6, <1>9 DEF AcquireLock, LockTimeout, LoadEnv, UpdateApp, ApplyStack
<1> QED
  BY <1>3, <1>4, <1>7, <1>8, <1>9 DEF Run

LEMMA FileSteps ==
    ASSUME LockParts, [Next]_vars, NEW s \in Svcs
    PROVE  \/ Keeps(s)
           \/ \E p \in Slots : Run(p) /\ CommandWrites(p, s)
<1>1. CASE UNCHANGED <<files, history>>
  BY <1>1 DEF Keeps, history
<1>2. ASSUME NEW p \in Slots, Run(p) PROVE Keeps(s) \/ CommandWrites(p, s)
  BY <1>2, CommandFiles
<1>3. UNCHANGED <<files, history>> \/ \E p \in Slots : Run(p)
  BY DEF vars, Next, Start, Kill, SwarmStep
<1> QED
  BY <1>1, <1>2, <1>3

-----------------------------------------------------------------------------
(* What the command that has the lock after a step did in it.              *)

LEMMA OnlyItself ==
    ASSUME TypeOK, NEW p \in Slots, Run(p) \/ Kill(p), NEW q \in Slots \ {p}
    PROVE  d'[q] = d[q]
<1>1. d \in [Slots -> Process]
  BY DEF TypeOK
<1>2. CASE Kill(p)
  BY <1>1, <1>2 DEF Kill
<1>3. ASSUME NEW S \in SUBSET Svcs, GiveUp(p, S) PROVE d'[q] = d[q]
  BY <1>1, <1>3 DEF GiveUp, Die, End
<1>4. ASSUME NEW result \in Results, Die(p, result) PROVE d'[q] = d[q]
  BY <1>1, <1>4 DEF Die, End
<1>5. ASSUME Calm(p) PROVE d'[q] = d[q]
  BY <1>1, <1>5 DEF Calm, End
<1>6. CASE DecideApp(p) \/ Misread(p)
  BY <1>1, <1>6 DEF DecideApp, FirstDeploy, Misread, RecordFirst, Unchanged, NeedsUpdate, Succeed, End
<1>7. CASE PollApp(p)
  BY <1>1, <1>4, <1>7, ResultNames DEF PollApp, Succeed, End
<1>8. CASE TimeoutApp(p) \/ AbortApp(p) \/ RefuseStack(p) \/ ApplyStackFails(p)
  BY <1>4, <1>8, ResultNames DEF TimeoutApp, AbortApp, RefuseStack, ApplyStackFails
<1>9. CASE PollStack(p) \/ PollBlind(p) \/ TimeoutStack(p) \/ GiveUpFails(p)
  BY <1>1, <1>3, <1>5, <1>9 DEF PollStack, PollBlind, TimeoutStack, GiveUpFails
<1>10. CASE AcquireLock(p) \/ LockTimeout(p) \/ LoadEnv(p) \/ UpdateApp(p) \/ ApplyStack(p)
  BY <1>1, <1>10 DEF AcquireLock, LockTimeout, LoadEnv, UpdateApp, ApplyStack
<1> QED
  BY <1>2, <1>6, <1>7, <1>8, <1>9, <1>10 DEF Run

Rests(p) ==
    /\ d'[p] = d[p]
    /\ files' = files /\ shipped' = shipped /\ misread' = misread
    /\ \A s \in Svcs : svc'[s] = svc[s] \/ SwarmStep(s) \/ RollsBackApp(p, s)

ToStack(p) ==
    /\ d[p].pc = "decide"
    /\ (~Exists(d[p].cmd.svc) /\ misread' = misread) \/ d[p].cmd.svc \in misread'
    /\ GoesToStack(p, d[p].cmd.svc, d[p].cmd.img)
    /\ files' = [files EXCEPT ![d[p].cmd.svc] = d[p].cmd.img]
    /\ shipped' = shipped /\ svc' = svc

ToUpdate(p) == DecideApp(p) /\ NeedsUpdate(p, d[p].cmd.svc, d[p].cmd.img)

Looks(p, n) ==
    /\ d[p].pc = "waitstack" /\ SeesCalm(p, n)
    /\ files' = files /\ shipped' = shipped /\ misread' = misread /\ svc' = svc
    /\ n = 1 => d[p].stable = 0
    /\ n = 1 => faults' > 0 \/ (Settled /\ ~Failed(p) /\ ~Pending(p))

LEMMA DyingEnds ==
    ASSUME LockParts, NEW p \in Slots, NEW result \in Results, End(p, result)
    PROVE  d'[p].pc \notin Active
BY EndFields, EndedFields DEF LockParts, Active

LEMMA RunsOn ==
    ASSUME LockParts, NEW p \in Slots, Run(p), d'[p].pc \in Active
    PROVE  \/ d'[p].pc = "load"
           \/ LoadEnv(p) \/ ToStack(p) \/ ToUpdate(p) \/ UpdateApp(p) \/ ApplyStack(p)
           \/ Rests(p) \/ \E n \in 0..1 : Looks(p, n)
<1>1. TypeOK /\ svc \in [Svcs -> Service]
  BY DEF LockParts, TypeOK
<1>2. \A result \in Results : ~End(p, result) /\ ~Die(p, result)
  BY DyingEnds DEF Die
<1>3. CASE DecideApp(p) \/ Misread(p)
  <2>1. CASE FirstDeploy(p, d[p].cmd.svc, d[p].cmd.img) \/ Misread(p)
    <3>1. ~End(p, "pending")
      BY <1>2, ResultNames
    <3>2. /\ d[p].pc = "decide" /\ RecordFirst(p, d[p].cmd.svc, d[p].cmd.img)
          /\ \/ ~Exists(d[p].cmd.svc) /\ misread' = misread
             \/ d[p].cmd.svc \in misread'
      BY <1>3, <2>1 DEF DecideApp, FirstDeploy, Misread
    <3> QED
      BY <3>1, <3>2 DEF RecordFirst, ToStack, GoesToStack
  <2>2. CASE Unchanged(p, d[p].cmd.svc, d[p].cmd.img)
    BY <1>2, <2>2, ResultNames DEF Unchanged, Succeed
  <2> QED
    BY <1>3, <2>1, <2>2 DEF DecideApp, ToUpdate
<1>4. CASE PollApp(p)
  <2>1. /\ d[p].pc = "waitapp" /\ UNCHANGED <<lock, files, shipped, misread, d>>
        /\ svc' = [svc EXCEPT ![d[p].cmd.svc] = RolledBack(d[p].cmd.svc)]
    BY <1>2, <1>4, ResultNames DEF PollApp, Succeed, history
  <2>2. d[p].cmd # Stack
    BY <2>1, AppIsCommand
  <2>3. \A s \in Svcs : svc'[s] = svc[s] \/ RollsBackApp(p, s)
    BY <1>1, <1>4, <2>1, <2>2 DEF RollsBackApp, IsApp
  <2> QED
    BY <2>1, <2>3 DEF Rests
<1>5. ASSUME Calm(p), d[p].pc = "waitstack", UNCHANGED <<svc, files>>,
             faults' > 0 \/ (Settled /\ ~Failed(p) /\ ~Pending(p))
      PROVE  \E n \in 0..1 : Looks(p, n)
  <2>1. d[p].stable = 0 /\ SeesCalm(p, 1) /\ shipped' = shipped /\ misread' = misread
    BY <1>2, <1>5, ResultNames DEF Calm, SeesCalm, history
  <2>2. Looks(p, 1)
    BY <1>5, <2>1 DEF Looks
  <2>3. 1 \in 0..1
    OBVIOUS
  <2> QED
    BY <2>2, <2>3
<1>6. CASE PollStack(p)
  <2>1. d[p].pc = "waitstack" /\ Settled
    BY <1>6 DEF PollStack
  <2>2. CASE ~Failed(p) /\ ~Pending(p) /\ Calm(p) /\ UNCHANGED <<svc, files>>
    BY <1>5, <2>1, <2>2
  <2>3. CASE d' = [d EXCEPT ![p].stable = 0] /\ UNCHANGED <<lock, files, svc, history>>
    <3>1. /\ SeesCalm(p, 0) /\ files' = files /\ shipped' = shipped /\ misread' = misread
          /\ svc' = svc
      BY <2>3 DEF SeesCalm, history
    <3>2. Looks(p, 0) /\ 0 \in 0..1
      BY <2>1, <3>1 DEF Looks
    <3> QED
      BY <3>2
  <2> QED
    BY <1>2, <1>6, <2>2, <2>3, ResultNames DEF PollStack, GiveUp
<1>7. CASE PollBlind(p)
  <2>1. faults' > 0
    BY <1>1, <1>7, FaultFields DEF PollBlind
  <2> QED
    BY <1>5, <1>7, <2>1 DEF PollBlind
<1>8. CASE AcquireLock(p)
  BY <1>1, <1>8, PcMoves DEF AcquireLock
<1>9. CASE LockTimeout(p)
  <2>1. d'[p] = Ended("no-lock")
    BY <1>1, <1>9 DEF LockTimeout, TypeOK
  <2>2. Ended("no-lock").pc = "end"
    BY EndedFields, ResultNames
  <2> QED
    BY <2>1, <2>2 DEF Active
<1>10. ~(TimeoutApp(p) \/ AbortApp(p) \/ RefuseStack(p) \/ ApplyStackFails(p)
         \/ TimeoutStack(p) \/ GiveUpFails(p))
  BY <1>2, ResultNames DEF TimeoutApp, AbortApp, RefuseStack, ApplyStackFails, TimeoutStack,
                           GiveUpFails, GiveUp
<1> QED
  BY <1>3, <1>4, <1>6, <1>7, <1>8, <1>9, <1>10 DEF Run

LEMMA HolderSteps ==
    ASSUME LockParts, [Next]_vars, NEW p \in Slots, d'[p].pc \in Active
    PROVE  \/ d'[p].pc = "load"
           \/ LoadEnv(p) \/ ToStack(p) \/ ToUpdate(p) \/ UpdateApp(p) \/ ApplyStack(p)
           \/ Rests(p) \/ \E n \in 0..1 : Looks(p, n)
<1>1. TypeOK /\ LockParts'
  BY LockStep DEF LockParts
<1>2. CASE UNCHANGED vars
  BY <1>2 DEF vars, Rests, history
<1>3. ASSUME NEW s \in Svcs, SwarmStep(s) PROVE Rests(p)
  BY <1>1, <1>3, SwarmFields DEF Rests, SwarmStep, history
<1>4. ASSUME NEW q \in Slots, NEW cmd \in Commands, Start(q, cmd) PROVE Rests(p)
  <2>1. p # q
    BY <1>4, StartLock
  <2> QED
    BY <1>4, <2>1, StartLock DEF Start, Rests, history
<1>5. ASSUME NEW q \in Slots, Kill(q) PROVE Rests(p)
  <2>1. d'[q] = Ended("killed") /\ UNCHANGED <<files, svc, shipped, misread>>
    BY <1>1, <1>5 DEF Kill, TypeOK, history
  <2>2. p # q
    BY <2>1, EndedFields, ResultNames DEF Active
  <2>3. d'[p] = d[p]
    BY <1>1, <1>5, <2>2, OnlyItself
  <2> QED
    BY <2>1, <2>3 DEF Rests
<1>6. ASSUME NEW q \in Slots, Run(q), q # p PROVE Rests(p)
  <2>1. d'[p] = d[p]
    BY <1>1, <1>6, OnlyItself
  <2>2. d[q].pc \notin Active
    BY <1>6, <2>1, Alone
  <2>3. AcquireLock(q) \/ LockTimeout(q)
    BY <1>6, <2>2 DEF Run, LoadEnv, DecideApp, Misread, UpdateApp, PollApp, TimeoutApp, AbortApp,
          RefuseStack, ApplyStack, ApplyStackFails, PollStack, PollBlind, TimeoutStack,
          GiveUpFails, Active
  <2>4. UNCHANGED <<files, svc, shipped, misread>>
    BY <2>3 DEF AcquireLock, LockTimeout, history
  <2> QED
    BY <2>1, <2>4 DEF Rests
<1>7. ASSUME Run(p)
      PROVE  \/ d'[p].pc = "load"
             \/ LoadEnv(p) \/ ToStack(p) \/ ToUpdate(p) \/ UpdateApp(p) \/ ApplyStack(p)
             \/ Rests(p) \/ \E n \in 0..1 : Looks(p, n)
  BY <1>7, RunsOn
<1> QED
  BY <1>2, <1>3, <1>4, <1>5, <1>6, <1>7 DEF Next

-----------------------------------------------------------------------------
(* What was shipped, what a first deploy left, what an update was asked.   *)

\* A service that was shipped is there, and its image file names what was
\* shipped, but where a deploy took it for one that does not exist.
FileIsShipped(s) ==
    shipped[s] # NoImage => Exists(s) /\ (s \notin misread => files[s] = shipped[s])

\* That takes a failed docker call.
MisreadIsFault == faults = 0 => misread = {}

\* A first deploy of s: its file is written; its service was never shipped, is
\* not there before the stack is applied and runs nothing else after, unless
\* it was only taken for one that does not exist.
First(p, s, i) ==
    /\ files[s] = i
    /\ d[p].pc = "waitstack" => Exists(s)
    /\ s \notin misread =>
          /\ shipped[s] = NoImage
          /\ d[p].pc = "stack" => ~Exists(s)
          /\ d[p].pc = "waitstack" =>
                svc[s].image = i /\ svc[s].update = "none" /\ svc[s].run \in {NoImage, i}

FirstIsFirst(p) == d[p].discard = TRUE => First(p, d[p].cmd.svc, d[p].cmd.img)

\* An update of s that started since p asked for image i is one to i.
Asked(p, s, i) ==
    /\ svc[s].update = "queued" => svc[s].image = i
    /\ svc[s].mark # d[p].marks[s] =>
          /\ svc[s].update = "updating" => svc[s].image = i
          /\ svc[s].update = "completed" => svc[s].run = i

UpdateIsAsked(p) ==
    /\ d[p].pc = "waitapp" => Asked(p, d[p].cmd.svc, d[p].cmd.img)
    /\ d[p].pc = "waitstack" => \A s \in Svcs : Asked(p, s, d[p].env[s])

AskedParts ==
    /\ LockParts
    /\ MisreadIsFault
    /\ \A s \in Svcs : ServiceShape(s) /\ FileIsShipped(s)
    /\ \A p \in Slots : FirstIsFirst(p) /\ UpdateIsAsked(p)

LEMMA AskedInit ==
    ASSUME Init
    PROVE  AskedParts
<1>1. LockParts
  BY LockInit
<1>2. ASSUME NEW s \in Svcs PROVE ServiceShape(s) /\ FileIsShipped(s)
  <2>1. ServiceShape(s)
    BY InitFields DEF ServiceShape, Pendings
  <2>2. shipped = files
    BY DEF Init
  <2> QED
    BY <2>1, <2>2, InitFields DEF FileIsShipped, Exists
<1>3. ASSUME NEW p \in Slots PROVE FirstIsFirst(p) /\ UpdateIsAsked(p)
  <2>1. d[p].pc = "end"
    <3>1. d[p] = Ended("") /\ "" \in Results
      BY InitFields, ResultNames
    <3> QED
      BY <3>1, EndedFields
  <2>2. d[p].discard = FALSE
    BY <1>1, <2>1, OutsideNow DEF Active
  <2>3. FirstIsFirst(p)
    BY <2>2, Zenon DEF FirstIsFirst
  <2> QED
    BY <2>1, <2>3 DEF UpdateIsAsked
<1>4. MisreadIsFault
  BY DEF Init, MisreadIsFault
<1> QED
  BY <1>1, <1>2, <1>3, <1>4 DEF AskedParts

\* A first deploy still under way discards its file if it fails.
LEMMA FirstWaits ==
    ASSUME LockParts, NEW p \in Slots, d[p].cmd # Stack, d[p].pc \in {"stack", "waitstack"}
    PROVE  d[p].discard = TRUE
<1>1. CommandShape(p) /\ d[p].discard \in BOOLEAN
  BY DEF LockParts, TypeOK, Process
<1>2. ~(d[p].discard = FALSE)
  BY <1>1, Zenon DEF CommandShape
<1> QED
  BY <1>1, <1>2, Zenon

LEMMA FileIsShippedStep ==
    ASSUME AskedParts, [Next]_vars, NEW s \in Svcs
    PROVE  FileIsShipped(s)'
<1>1. LockParts /\ TypeOK /\ ServiceShape(s) /\ FileIsShipped(s)
  BY DEF AskedParts, LockParts
<1>2. Exists(s) => Exists(s)'
  BY <1>1, ShapeStep
<1>3. CASE Keeps(s)
  BY <1>1, <1>2, <1>3 DEF Keeps, FileIsShipped
<1>4. ASSUME NEW p \in Slots, Records(p, s) PROVE FileIsShipped(s)'
  <2>1. d[p].cmd.img # NoImage
    BY <1>1, <1>4, AppIsCommand DEF Records
  <2>2. svc[s].image = d[p].cmd.img \/ svc[s].update = "completed"
    BY <1>4 DEF Records, State
  <2>3. Exists(s)
    BY <1>1, <2>1, <2>2, NotThere DEF Exists
  <2> QED
    BY <1>2, <1>4, <2>3 DEF Records, FileIsShipped
<1>5. ASSUME NEW p \in Slots, WritesFirst(p, s) PROVE FileIsShipped(s)'
  BY <1>1, <1>2, <1>5 DEF WritesFirst, FileIsShipped
<1>6. ASSUME NEW p \in Slots, Discards(p, s) PROVE FileIsShipped(s)'
  <2>1. d[p].discard = TRUE /\ FirstIsFirst(p) /\ d[p].cmd.svc = s
    BY <1>6, Zenon DEF AskedParts, Discards, IsApp
  <2>2. shipped'[s] = shipped[s] /\ (s \in misread' <=> s \in misread)
    BY <1>6, Zenon DEF Discards
  <2>3. First(p, s, d[p].cmd.img)
    BY <2>1, Zenon DEF FirstIsFirst
  <2> QED
    BY <1>1, <1>2, <2>2, <2>3 DEF First, FileIsShipped
<1>7. ASSUME NEW p \in Slots, RecordsFirst(p, s) PROVE FileIsShipped(s)'
  <2>1. /\ d[p].cmd # Stack /\ d[p].cmd.svc = s /\ d[p].pc = "waitstack"
        /\ files'[s] = files[s] /\ shipped'[s] = d[p].cmd.img
    BY <1>7 DEF RecordsFirst, IsApp
  <2>2. d[p].discard = TRUE /\ FirstIsFirst(p)
    BY <1>1, <2>1, FirstWaits DEF AskedParts
  <2>3. First(p, s, d[p].cmd.img)
    BY <2>1, <2>2, Zenon DEF FirstIsFirst
  <2>4. d[p].cmd.img # NoImage
    BY <1>1, <2>1, CommandType
  <2>5. Exists(s) /\ files[s] = d[p].cmd.img
    BY <2>1, <2>3 DEF First
  <2> QED
    BY <1>2, <2>1, <2>5 DEF FileIsShipped
<1> QED
  BY <1>1, <1>3, <1>4, <1>5, <1>6, <1>7, FileSteps DEF CommandWrites

\* An absent service waits for a command; one never updated only starts.
LEMMA SwarmOnFirst ==
    ASSUME TypeOK, NEW s \in Svcs, ServiceShape(s), SwarmStep(s)
    PROVE  /\ Exists(s)
           /\ svc[s].update = "none" =>
                svc'[s].image = svc[s].image /\ svc'[s].update = "none" /\ svc'[s].run = svc[s].image
<1>1. Exists(s)
  BY SwarmCases, NotThere, Sentinels, HostFiles DEF Exists
<1> QED
  BY <1>1, SwarmCases DEF Becomes

LEMMA FirstIsFirstStep ==
    ASSUME AskedParts, [Next]_vars, NEW p \in Slots
    PROVE  FirstIsFirst(p)'
<1> SUFFICES ASSUME d'[p].discard = TRUE
             PROVE  First(p, d[p].cmd.svc, d[p].cmd.img)'
  BY Zenon DEF FirstIsFirst
<1>1. LockParts /\ TypeOK /\ LockParts' /\ FirstIsFirst(p)
  BY LockStep DEF AskedParts, LockParts
<1>2. d'[p].pc \in {"stack", "waitstack"} /\ d'[p].cmd # Stack
  <2>1. CommandShape(p)'
    BY <1>1 DEF LockParts
  <2>2. ~(d'[p].discard = FALSE)
    BY Zenon
  <2>3. d'[p].pc \in {"stack", "waitstack"}
    BY <2>1, <2>2, Zenon DEF CommandShape
  <2>4. (d[p].cmd # Stack)'
    BY <2>1, Zenon DEF CommandShape
  <2> QED
    BY <2>3, <2>4 DEF Stack
<1>3. d'[p].pc \in Active
  BY <1>2 DEF Active
<1>4. CASE ToStack(p)
  <2> DEFINE s == d[p].cmd.svc
             i == d[p].cmd.img
  <2>1. d[p].pc = "decide"
    BY <1>4 DEF ToStack
  <2>2. s \in Svcs /\ i \in Images
    BY <1>1, <2>1, AppIsCommand
  <2>3. d'[p].pc = "stack" /\ d'[p].cmd = d[p].cmd
    BY <1>1, <1>4, <2>2, FirstMoves DEF ToStack
  <2>4. files'[s] = i /\ shipped' = shipped /\ svc' = svc
    BY <1>1, <1>4, <2>2 DEF ToStack, LockParts, TypeOK
  <2>5. s \notin misread' => ~Exists(s)
    BY <1>4 DEF ToStack
  <2>6. s \notin misread' => shipped[s] = NoImage
    BY <2>2, <2>5 DEF AskedParts, FileIsShipped
  <2> QED
    BY <2>3, <2>4, <2>5, <2>6 DEF First, Exists
<1>5. ASSUME d'[p].cmd = d[p].cmd, d'[p].discard = d[p].discard, d[p].pc \in {"stack", "waitstack"}
      PROVE  /\ d[p].cmd.svc \in Svcs /\ d[p].cmd.img \in Images
             /\ First(p, d[p].cmd.svc, d[p].cmd.img)
  <2>1. d[p].discard = TRUE
    BY <1>5, Zenon
  <2>2. d[p].cmd # Stack
    BY <1>2, <1>5 DEF Stack
  <2> QED
    BY <1>1, <2>1, <2>2, CommandType, Zenon DEF FirstIsFirst
<1>6. CASE ApplyStack(p)
  <2> DEFINE s == d[p].cmd.svc
             i == d[p].cmd.img
  <2>1. /\ d[p].pc = "stack" /\ d' = [d EXCEPT ![p].pc = "waitstack", ![p].marks = Marks, ![p].stable = 0]
        /\ svc' = StackOver(p, Svcs) /\ \A m \in Svcs : d[p].env[m] # NoImage
        /\ UNCHANGED <<files, shipped, misread>>
    BY <1>6 DEF ApplyStack, history
  <2>2. d'[p].cmd = d[p].cmd /\ d'[p].discard = d[p].discard /\ d'[p].pc = "waitstack"
    BY <1>1, <2>1, StackMoves
  <2>3. s \in Svcs /\ i \in Images /\ First(p, s, i)
    BY <1>5, <2>1, <2>2
  <2>4. d[p].env = files
    BY <1>1, <2>1 DEF LockParts, EnvIsFiles, Active
  <2>5. files[s] = i /\ (s \notin misread => ~Exists(s) /\ shipped[s] = NoImage)
    BY <2>1, <2>3 DEF First
  <2>6. svc'[s] = WithImage(s, i)
    BY <1>1, <2>1, <2>3, <2>4, <2>5, StackOverFields
  <2>7. svc'[s].image = i /\ i # NoImage
    BY <1>1, <2>3, <2>6, WithImageCases, CreateFields, Sentinels
  <2>8. ~Exists(s) => svc'[s].update = "none" /\ svc'[s].run = NoImage
    BY <1>1, <2>3, <2>6, WithImageCases, CreateFields
  <2> QED
    BY <2>1, <2>2, <2>5, <2>7, <2>8 DEF First, Exists
<1>7. CASE Rests(p)
  <2> DEFINE s == d[p].cmd.svc
             i == d[p].cmd.img
  <2>1. /\ d'[p] = d[p] /\ files' = files /\ shipped' = shipped /\ misread' = misread
        /\ d[p].pc \in {"stack", "waitstack"}
    BY <1>2, <1>7 DEF Rests
  <2>2. s \in Svcs /\ i \in Images /\ First(p, s, i)
    BY <1>5, <2>1
  <2>3. svc'[s] = svc[s] \/ SwarmStep(s)
    BY <1>7, <2>1, <2>2 DEF Rests, RollsBackApp
  <2>4. ServiceShape(s)
    BY <2>2 DEF AskedParts
  <2>5. svc[s].image # NoImage => svc'[s].image # NoImage
    BY <1>1, <2>2, <2>4, ShapeStep DEF Exists
  <2>6. ~Exists(s) => svc'[s] = svc[s]
    BY <1>1, <2>2, <2>3, <2>4, SwarmOnFirst
  <2>7. svc[s].update = "none" =>
          /\ svc'[s].image = svc[s].image /\ svc'[s].update = "none"
          /\ svc'[s].run \in {svc[s].run, svc[s].image}
    BY <1>1, <2>2, <2>3, <2>4, SwarmOnFirst
  <2>8. files'[s] = i /\ (d[p].pc = "waitstack" => svc'[s].image # NoImage)
    BY <2>1, <2>2, <2>5 DEF First, Exists
  <2>9. s \notin misread => shipped[s] = NoImage /\ (d[p].pc = "stack" => svc'[s].image = NoImage)
    BY <2>2, <2>6 DEF First, Exists
  <2>10. s \notin misread => (d[p].pc = "waitstack" =>
            svc'[s].image = i /\ svc'[s].update = "none" /\ svc'[s].run \in {NoImage, i})
    BY <2>2, <2>7 DEF First
  <2> QED
    BY <2>1, <2>8, <2>9, <2>10 DEF First, Exists
<1>8. ASSUME NEW n \in 0..1, Looks(p, n) PROVE First(p, d[p].cmd.svc, d[p].cmd.img)'
  <2>1. /\ d'[p].cmd = d[p].cmd /\ d'[p].discard = d[p].discard /\ d'[p].pc = d[p].pc
        /\ files' = files /\ shipped' = shipped /\ misread' = misread /\ svc' = svc
        /\ d[p].pc = "waitstack"
    BY <1>1, <1>8, StableMoves DEF Looks
  <2>2. First(p, d[p].cmd.svc, d[p].cmd.img)
    BY <1>5, <2>1
  <2> QED
    BY <2>1, <2>2 DEF First, Exists
<1>9. ~LoadEnv(p)
  <2>1. LoadEnv(p) => d'[p].discard = FALSE
    BY <1>1, LoadEnvLock
  <2> QED
    BY <2>1, Zenon
<1>10. ~(d'[p].pc = "load") /\ ~ToUpdate(p) /\ ~UpdateApp(p)
  BY <1>1, <1>2, PcMoves, MarkMoves DEF ToUpdate, NeedsUpdate, UpdateApp
<1> QED
  BY <1>1, <1>3, <1>4, <1>6, <1>7, <1>8, <1>9, <1>10, HolderSteps

\* Asking for image i: an update of it is queued, or nothing starts.
LEMMA WithImageAsked ==
    ASSUME TypeOK, NEW p \in Slots, NEW s \in Svcs, ServiceShape(s), NEW i \in Images,
           svc'[s] = WithImage(s, i), d'[p].marks[s] = svc[s].mark
    PROVE  Asked(p, s, i)'
<1>1. svc'[s].mark = svc[s].mark
  BY WithImageCases, CreateFields, NotThere
<1>2. svc'[s].image = i
  BY WithImageCases, CreateFields
<1> QED
  BY <1>1, <1>2 DEF Asked

\* A command that came to a wait did so by asking docker for something.
LEMMA NotWaiting ==
    ASSUME LockParts, NEW p \in Slots, d'[p].pc \in {"waitapp", "waitstack"}
    PROVE  ~(d'[p].pc = "load") /\ ~ToUpdate(p) /\ ~ToStack(p) /\ ~LoadEnv(p)
<1>1. TypeOK
  BY DEF LockParts
<1>2. ~ToUpdate(p)
  BY <1>1, PcMoves DEF ToUpdate, NeedsUpdate
<1>3. ~ToStack(p)
  <2>1. ToStack(p) => d[p].cmd.svc \in Svcs /\ d[p].cmd.img \in Images
    BY AppIsCommand DEF ToStack
  <2> QED
    BY <1>1, <2>1, FirstMoves DEF ToStack
<1>4. ~LoadEnv(p)
  BY LoadEnvLock
<1> QED
  BY <1>2, <1>3, <1>4

LEMMA UpdateIsAskedStep ==
    ASSUME AskedParts, [Next]_vars, NEW p \in Slots
    PROVE  UpdateIsAsked(p)'
<1>1. LockParts /\ TypeOK /\ LockParts' /\ UpdateIsAsked(p)
  BY LockStep DEF AskedParts, LockParts
<1> SUFFICES ASSUME d'[p].pc \in {"waitapp", "waitstack"}
             PROVE  UpdateIsAsked(p)'
  BY DEF UpdateIsAsked
<1>2. d'[p].pc \in Active
  BY DEF Active
<1>3. CASE UpdateApp(p)
  <2> DEFINE s == d[p].cmd.svc
             i == d[p].cmd.img
  <2>1. /\ d[p].pc = "update" /\ d' = [d EXCEPT ![p].pc = "waitapp", ![p].marks = Marks]
        /\ svc' = [svc EXCEPT ![s] = WithImage(s, i)]
    BY <1>3 DEF UpdateApp
  <2>2. s \in Svcs /\ i \in Images
    BY <1>1, <2>1, AppIsCommand
  <2>3. /\ d'[p].cmd = d[p].cmd /\ d'[p].pc = "waitapp"
        /\ d'[p].marks[s] = svc[s].mark
    BY <1>1, <2>1, <2>2, MarkMoves
  <2>4. svc'[s] = WithImage(s, i)
    BY <1>1, <2>1, <2>2 DEF TypeOK
  <2>5. Asked(p, s, i)'
    BY <1>1, <2>2, <2>3, <2>4, WithImageAsked DEF AskedParts
  <2> QED
    BY <2>3, <2>5 DEF UpdateIsAsked, Asked
<1>4. CASE ApplyStack(p)
  <2>1. /\ d[p].pc = "stack" /\ d' = [d EXCEPT ![p].pc = "waitstack", ![p].marks = Marks, ![p].stable = 0]
        /\ svc' = StackOver(p, Svcs) /\ \A m \in Svcs : d[p].env[m] # NoImage
    BY <1>4 DEF ApplyStack
  <2>2. /\ d'[p].env = d[p].env /\ d'[p].pc = "waitstack"
        /\ \A s \in Svcs : d'[p].marks[s] = svc[s].mark
    BY <1>1, <2>1, StackMoves
  <2>3. ASSUME NEW s \in Svcs PROVE Asked(p, s, d[p].env[s])'
    <3>1. d[p].env[s] \in Images /\ svc'[s] = WithImage(s, d[p].env[s])
      BY <1>1, <2>1, EnvType, StackOverFields
    <3> DEFINE i == d[p].env[s]
    <3>2. Asked(p, s, i)'
      BY <1>1, <2>2, <3>1, WithImageAsked DEF AskedParts, Asked
    <3> QED
      BY <2>2, <3>2 DEF Asked
  <2> QED
    BY <2>2, <2>3 DEF UpdateIsAsked, Asked
<1>5. CASE Rests(p)
  <2>1. d'[p] = d[p]
    BY <1>5 DEF Rests
  <2>2. ASSUME NEW s \in Svcs, NEW i, Asked(p, s, i) PROVE Asked(p, s, i)'
    <3>1. CASE svc'[s] = svc[s]
      BY <2>1, <2>2, <3>1 DEF Asked
    <3>2. CASE SwarmStep(s)
      BY <1>1, <2>1, <2>2, <3>2, SwarmCases DEF Asked, Becomes
    <3>3. CASE RollsBackApp(p, s)
      <4>1. svc'[s] = RolledBack(s)
        BY <3>3 DEF RollsBackApp
      <4> QED
        BY <1>1, <2>1, <2>2, <4>1, RolledBackFields, RolledBackNot DEF Asked
    <3> QED
      BY <1>5, <3>1, <3>2, <3>3 DEF Rests
  <2>3. CASE d[p].pc = "waitapp"
    <3>1. d[p].cmd.svc \in Svcs /\ Asked(p, d[p].cmd.svc, d[p].cmd.img)
      BY <1>1, <2>3, AppIsCommand DEF UpdateIsAsked
    <3> QED
      BY <2>1, <2>2, <2>3, <3>1 DEF UpdateIsAsked, Asked
  <2>4. CASE d[p].pc = "waitstack"
    <3>1. \A s \in Svcs : Asked(p, s, d[p].env[s])
      BY <1>1, <2>4 DEF UpdateIsAsked
    <3> QED
      BY <2>1, <2>2, <2>4, <3>1 DEF UpdateIsAsked, Asked
  <2> QED
    BY <2>1, <2>3, <2>4
<1>6. ASSUME NEW n \in 0..1, Looks(p, n) PROVE UpdateIsAsked(p)'
  <2>1. /\ d'[p].env = d[p].env /\ d'[p].marks = d[p].marks /\ d'[p].pc = "waitstack"
        /\ svc' = svc /\ d[p].pc = "waitstack"
    BY <1>1, <1>6, StableMoves DEF Looks
  <2> QED
    BY <1>1, <2>1 DEF UpdateIsAsked, Asked
<1>7. ~(d'[p].pc = "load") /\ ~ToUpdate(p) /\ ~ToStack(p) /\ ~LoadEnv(p)
  BY <1>1, NotWaiting
<1> QED
  BY <1>1, <1>2, <1>3, <1>4, <1>5, <1>6, <1>7, HolderSteps

\* A fault is not forgotten.
LEMMA FaultsStay ==
    ASSUME TypeOK, [Next]_vars, faults' = 0
    PROVE  faults = 0
<1>1. faults \in Nat
  BY Bounds DEF TypeOK
<1>2. CASE UNCHANGED vars
  BY <1>2 DEF vars
<1>3. ~Fault
  BY <1>1 DEF Fault
<1>4. ASSUME NEW p \in Slots, Run(p) PROVE faults' = faults
  BY <1>3, <1>4 DEF Run, AcquireLock, LockTimeout, LoadEnv, DecideApp, Misread, UpdateApp,
          PollApp, TimeoutApp, AbortApp, RefuseStack, ApplyStack, ApplyStackFails, PollStack, PollBlind, TimeoutStack,
          GiveUpFails
<1>5. ASSUME NEW p \in Slots, NEW cmd \in Commands, Start(p, cmd) PROVE faults' = faults
  BY <1>5 DEF Start
<1>6. ASSUME NEW p \in Slots PROVE ~Kill(p)
  BY <1>3 DEF Kill
<1>7. ASSUME NEW s \in Svcs, SwarmStep(s) PROVE faults' = faults
  BY <1>7 DEF SwarmStep
<1> QED
  BY <1>2, <1>4, <1>5, <1>6, <1>7 DEF Next

LEMMA MisreadIsFaultStep ==
    ASSUME AskedParts, [Next]_vars
    PROVE  MisreadIsFault'
<1> SUFFICES ASSUME faults' = 0 PROVE misread' = {}
  BY DEF MisreadIsFault
<1>1. LockParts /\ LockParts' /\ TypeOK /\ misread' \subseteq Svcs
  BY LockStep DEF AskedParts, LockParts, TypeOK
<1>2. misread = {}
  BY <1>1, FaultsStay DEF AskedParts, MisreadIsFault
<1>3. ASSUME NEW s \in Svcs PROVE s \notin misread'
  <2>1. CASE Keeps(s)
    BY <1>2, <2>1 DEF Keeps
  <2>2. ASSUME NEW p \in Slots, CommandWrites(p, s) PROVE s \notin misread'
    <3>1. CASE Discards(p, s)
      BY <1>2, <3>1, Zenon DEF Discards
    <3>2. CASE WritesFirst(p, s)
      BY <1>2, <3>2 DEF WritesFirst
    <3> QED
      BY <2>2, <3>1, <3>2 DEF CommandWrites, Records, RecordsFirst
  <2> QED
    BY <1>1, <2>1, <2>2, FileSteps
<1> QED
  BY <1>1, <1>3

LEMMA AskedStep ==
    ASSUME AskedParts, [Next]_vars
    PROVE  AskedParts'
<1>1. LockParts'
  BY LockStep DEF AskedParts
<1>2. \A s \in Svcs : ServiceShape(s)'
  BY ShapeStep DEF AskedParts
<1> QED
  BY <1>1, <1>2, MisreadIsFaultStep, FileIsShippedStep, FirstIsFirstStep, UpdateIsAskedStep
     DEF AskedParts

LEMMA AskedInvariant == Spec => []AskedParts
<1>1. Init => AskedParts
  BY AskedInit
<1>2. AskedParts /\ [Next]_vars => AskedParts'
  BY AskedStep
<1> QED
  BY <1>1, <1>2, PTL DEF Spec

\* The image file of a service that was shipped names what was shipped: what
\* the next stack deploy reads is what the pipeline last put in place, through
\* any kills and failed docker calls but the one at deploy:285.
ShippedIsFiled == \A s \in Svcs : FileIsShipped(s)

THEOREM FilesNameWhatWasShipped == Spec => []ShippedIsFiled
<1>1. AskedParts => ShippedIsFiled
  BY DEF AskedParts, ShippedIsFiled
<1> QED
  BY <1>1, AskedInvariant, PTL

-----------------------------------------------------------------------------
(* Where a service is, while no command was killed and no docker call      *)
(* failed: where its file says, or on its way with the way back known.     *)

Updated(s) == \E p \in Slots : d[p].pc = "waitapp" /\ IsApp(p, s)
Agrees(s, i) == files[s] # NoImage => files[s] = i

\* A service that no command is updating is not being updated, and is where
\* its image file says; ...
SettledIsFiled(s) ==
    faults = 0 /\ Exists(s) /\ ~Updated(s) =>
       svc[s].update \notin Pendings /\ Agrees(s, svc[s].image)

\* ... one that is being updated can go back there, or is back.
CanGoBack(p, s, i) ==
    /\ files[s] # i
    /\ Exists(s)
    /\ d[p].pc = "update" => svc[s].image # i
    /\ d[p].pc = "waitapp" =>
         \/ /\ svc[s].update \in Pendings \cup {"completed"}
            /\ svc[s].image = i
            /\ svc[s].prev # NoImage
            /\ Agrees(s, svc[s].prev)
         \/ /\ svc[s].update \in {"rollback_started", "rollback_completed", "rollback_paused"}
            /\ svc[s].prev = NoImage
            /\ Agrees(s, svc[s].image)

UpdatedCanGoBack(p) ==
    faults = 0 /\ d[p].pc \in {"update", "waitapp"} => CanGoBack(p, d[p].cmd.svc, d[p].cmd.img)

FiledParts ==
    /\ AskedParts
    /\ \A s \in Svcs : SettledIsFiled(s)
    /\ \A p \in Slots : UpdatedCanGoBack(p)

LEMMA FiledInit ==
    ASSUME Init
    PROVE  FiledParts
<1>1. \A s \in Svcs : SettledIsFiled(s)
  BY InitFields DEF SettledIsFiled, Agrees, Pendings
<1>2. ASSUME NEW p \in Slots PROVE UpdatedCanGoBack(p)
  <2>1. d[p] = Ended("") /\ "" \in Results
    BY InitFields, ResultNames
  <2> QED
    BY <2>1, EndedFields DEF UpdatedCanGoBack
<1> QED
  BY <1>1, <1>2, AskedInit DEF FiledParts

\* Nobody waits for an update while another command has the lock.
LEMMA NobodyUpdates ==
    ASSUME LockParts, NEW p \in Slots, d[p].pc \in Active \ {"waitapp"}, NEW s \in Svcs
    PROVE  ~Updated(s)
BY Alone DEF Updated, Active

LEMMA UpdatedCanGoBackStep ==
    ASSUME FiledParts, [Next]_vars, NEW p \in Slots
    PROVE  UpdatedCanGoBack(p)'
<1>1. LockParts /\ TypeOK /\ LockParts' /\ UpdatedCanGoBack(p)
  BY LockStep DEF FiledParts, AskedParts, LockParts
<1> SUFFICES ASSUME faults' = 0, d'[p].pc \in {"update", "waitapp"}
             PROVE  UpdatedCanGoBack(p)'
  BY DEF UpdatedCanGoBack
<1>2. faults = 0 /\ d'[p].pc \in Active
  BY <1>1, FaultsStay DEF Active
<1> DEFINE s == d[p].cmd.svc
           i == d[p].cmd.img
<1>3. CASE ToUpdate(p)
  <2>1. /\ d[p].pc = "decide" /\ d' = [d EXCEPT ![p].pc = "update"]
        /\ UNCHANGED <<files, svc>> /\ Exists(s) /\ svc[s].image # i
    BY <1>3 DEF ToUpdate, DecideApp, NeedsUpdate
  <2>2. s \in Svcs /\ i # NoImage /\ ~Updated(s)
    BY <1>1, <2>1, AppIsCommand, NobodyUpdates DEF Active
  <2>3. files[s] # i
    BY <1>2, <2>1, <2>2 DEF FiledParts, SettledIsFiled, Agrees
  <2>4. d'[p].cmd = d[p].cmd /\ d'[p].pc = "update"
    BY <1>1, <2>1, PcMoves
  <2> QED
    BY <2>1, <2>3, <2>4 DEF UpdatedCanGoBack, CanGoBack, Exists
<1>4. CASE UpdateApp(p)
  <2>1. /\ d[p].pc = "update" /\ d' = [d EXCEPT ![p].pc = "waitapp", ![p].marks = Marks]
        /\ svc' = [svc EXCEPT ![s] = WithImage(s, i)] /\ files' = files
    BY <1>4 DEF UpdateApp
  <2>2. s \in Svcs /\ i \in Images /\ i # NoImage /\ ~Updated(s)
    BY <1>1, <2>1, AppIsCommand, NobodyUpdates DEF Active
  <2>3. files[s] # i /\ Exists(s) /\ svc[s].image # i
    BY <1>1, <1>2, <2>1 DEF UpdatedCanGoBack, CanGoBack
  <2>4. Agrees(s, svc[s].image)
    BY <1>2, <2>2, <2>3 DEF FiledParts, SettledIsFiled
  <2>5. svc'[s] = WithImage(s, i)
    BY <1>1, <2>1, <2>2 DEF TypeOK
  <2>6. svc'[s].image = i /\ svc'[s].prev = svc[s].image /\ svc'[s].update = "queued"
    BY <1>1, <2>2, <2>3, <2>5, WithImageCases
  <2>7. d'[p].cmd = d[p].cmd /\ d'[p].pc = "waitapp"
    BY <1>1, <2>1, MarkMoves
  <2> QED
    BY <2>1, <2>2, <2>3, <2>4, <2>6, <2>7 DEF UpdatedCanGoBack, CanGoBack, Exists, Agrees, Pendings
<1>5. CASE Rests(p)
  <2>1. d'[p] = d[p] /\ files' = files /\ d[p].pc \in {"update", "waitapp"}
    BY <1>5 DEF Rests
  <2>2. s \in Svcs /\ i # NoImage /\ CanGoBack(p, s, i)
    BY <1>1, <1>2, <2>1, AppIsCommand DEF UpdatedCanGoBack
  <2>3. ServiceShape(s) /\ SettledIsFiled(s)
    BY <2>2 DEF FiledParts, AskedParts
  <2>4. Exists(s) /\ svc'[s].image # NoImage
    BY <1>1, <2>2, <2>3, ShapeStep DEF CanGoBack, Exists
  <2>5. CASE svc'[s] = svc[s]
    BY <2>1, <2>2, <2>5 DEF UpdatedCanGoBack, CanGoBack, Exists, Agrees
  <2>6. CASE SwarmStep(s)
    <3>1. CASE d[p].pc = "update"
      <4>1. ~Updated(s)
        BY <1>1, <2>2, <3>1, NobodyUpdates DEF Active
      <4>2. svc[s].update \notin Pendings
        BY <1>2, <2>3, <2>4, <4>1 DEF SettledIsFiled
      <4>3. svc'[s].image = svc[s].image
        BY <1>1, <2>2, <2>6, <4>2, SwarmCases DEF Becomes, Pendings
      <4> QED
        BY <2>1, <2>2, <2>4, <3>1, <4>3 DEF UpdatedCanGoBack, CanGoBack, Exists
    <3>2. CASE d[p].pc = "waitapp"
      <4>1. \/ /\ svc'[s].update \in Pendings \cup {"completed"}
               /\ svc'[s].image = i /\ svc'[s].prev # NoImage /\ Agrees(s, svc'[s].prev)
            \/ /\ svc'[s].update \in {"rollback_started", "rollback_completed", "rollback_paused"}
               /\ svc'[s].prev = NoImage /\ Agrees(s, svc'[s].image)
        BY <1>1, <2>2, <2>6, <3>2, SwarmCases DEF CanGoBack, Becomes, Pendings
      <4> QED
        BY <2>1, <2>2, <2>4, <3>2, <4>1 DEF UpdatedCanGoBack, CanGoBack, Exists, Agrees
    <3> QED
      BY <2>1, <3>1, <3>2
  <2>7. CASE RollsBackApp(p, s)
    <3>1. d[p].pc = "waitapp" /\ svc'[s] = RolledBack(s)
      BY <2>7 DEF RollsBackApp
    <3>2. CASE svc[s].prev = NoImage
      BY <2>2, <2>5, <3>1, <3>2, RolledBackNot
    <3>3. CASE svc[s].prev # NoImage
      <4>1. Agrees(s, svc[s].prev)
        BY <2>2, <3>1, <3>3 DEF CanGoBack
      <4>2. /\ svc'[s].image = svc[s].prev /\ svc'[s].prev = NoImage
            /\ svc'[s].update = "rollback_started"
        BY <1>1, <2>2, <3>1, <3>3, RolledBackFields
      <4> QED
        BY <2>1, <2>2, <2>4, <3>1, <4>1, <4>2 DEF UpdatedCanGoBack, CanGoBack, Exists, Agrees
    <3> QED
      BY <3>2, <3>3
  <2> QED
    BY <1>5, <2>2, <2>5, <2>6, <2>7 DEF Rests
<1>6. ~(d'[p].pc = "load") /\ ~ApplyStack(p) /\ ~ToStack(p) /\ ~LoadEnv(p) /\ \A n \in 0..1 : ~Looks(p, n)
  <2>1. ~ApplyStack(p)
    <3>1. ApplyStack(p) => d' = [d EXCEPT ![p].pc = "waitstack", ![p].marks = Marks, ![p].stable = 0]
      BY DEF ApplyStack
    <3> QED
      BY <1>1, <3>1, StackMoves
  <2>2. ~ToStack(p)
    <3>1. ToStack(p) => s \in Svcs /\ i \in Images
      BY <1>1, AppIsCommand DEF ToStack
    <3> QED
      BY <1>1, <3>1, FirstMoves DEF ToStack
  <2>3. ~LoadEnv(p)
    BY <1>1, LoadEnvLock
  <2>4. \A n \in 0..1 : ~Looks(p, n)
    BY <1>1, StableMoves DEF Looks
  <2> QED
    BY <2>1, <2>2, <2>3, <2>4
<1> QED
  BY <1>1, <1>2, <1>3, <1>4, <1>5, <1>6, HolderSteps

\* A command that waits for its update leaves it only by an answer or the
\* deadline, as long as nothing fails.
LEMMA WaitEnds ==
    ASSUME LockParts, [Next]_vars, faults' = 0, NEW p \in Slots, d[p].pc = "waitapp", d'[p] # d[p]
    PROVE  PollApp(p) \/ TimeoutApp(p)
<1>1. TypeOK /\ faults \in Nat
  BY Bounds DEF LockParts, TypeOK
<1>2. ~Fault
  BY <1>1 DEF Fault
<1>3. ASSUME NEW q \in Slots, NEW cmd \in Commands, Start(q, cmd) PROVE FALSE
  BY <1>3, StartLock DEF Start
<1>4. ASSUME NEW q \in Slots, Kill(q) PROVE FALSE
  BY <1>2, <1>4 DEF Kill
<1>5. ASSUME NEW q \in Slots, Run(q) PROVE q = p
  BY <1>1, <1>5, OnlyItself
<1>6. ASSUME Run(p) PROVE PollApp(p) \/ TimeoutApp(p)
  BY <1>2, <1>6 DEF Run, AcquireLock, LockTimeout, LoadEnv, DecideApp, Misread, UpdateApp, AbortApp,
          RefuseStack, ApplyStack, ApplyStackFails, PollStack, PollBlind, TimeoutStack, GiveUpFails
<1>7. ~UNCHANGED vars /\ \A s \in Svcs : ~SwarmStep(s)
  BY DEF vars, SwarmStep
<1> QED
  BY <1>3, <1>4, <1>5, <1>6, <1>7 DEF Next

\* The end of an update, ...
LEMMA UpdatedSettles ==
    ASSUME FiledParts, NEW p \in Slots, NEW s \in Svcs, faults = 0,
           d[p].pc = "waitapp", IsApp(p, s), d'[p] # d[p], PollApp(p) \/ TimeoutApp(p)
    PROVE  svc'[s].update \notin Pendings /\ (files'[s] # NoImage => files'[s] = svc'[s].image)
<1> DEFINE i == d[p].cmd.img
<1>1. /\ LockParts /\ TypeOK /\ d[p].cmd.svc = s
      /\ files \in [Svcs -> Maybe] /\ svc \in [Svcs -> Service]
      /\ d[p].discard = FALSE
  BY AppIsCommand DEF FiledParts, AskedParts, LockParts, TypeOK, IsApp
<1>2. CanGoBack(p, s, i)
  BY <1>1 DEF FiledParts, UpdatedCanGoBack
<1>3. ASSUME NEW result \in Results, Die(p, result) PROVE files' = files
  BY <1>1, <1>3, DieFields, Zenon
<1>4. CASE PollApp(p)
  <2>1. CASE State(p, s) = "completed" /\ Succeed(p, "success", s, i) /\ svc' = svc
    <3>1. svc[s].update = "completed" /\ files'[s] = i
      BY <1>1, <2>1 DEF State, Succeed
    <3> QED
      BY <1>2, <2>1, <3>1 DEF CanGoBack, Pendings
  <2>2. CASE /\ State(p, s) \in {"rollback_completed", "rollback_paused"}
             /\ Die(p, "rolled-back") /\ svc' = svc
    <3>1. svc[s].update \in {"rollback_completed", "rollback_paused"} /\ files' = files
      BY <1>3, <2>2, ResultNames DEF State
    <3> QED
      BY <1>2, <2>2, <3>1 DEF CanGoBack, Pendings, Agrees
  <2> QED
    BY <1>1, <1>4, <2>1, <2>2 DEF PollApp
<1>5. CASE TimeoutApp(p)
  <2>1. files' = files /\ svc'[s] = RolledBack(s)
    BY <1>1, <1>3, <1>5, ResultNames DEF TimeoutApp
  <2>2. CASE svc[s].prev = NoImage
    BY <1>2, <2>1, <2>2, RolledBackNot DEF CanGoBack, Pendings, Agrees
  <2>3. CASE svc[s].prev # NoImage
    <3>1. Agrees(s, svc[s].prev)
      BY <1>2, <2>3 DEF CanGoBack
    <3> QED
      BY <1>1, <2>1, <2>3, <3>1, RolledBackFields DEF Pendings, Agrees
  <2> QED
    BY <2>2, <2>3
<1> QED
  BY <1>4, <1>5

\* ... and what happens to a service that nobody is updating.
LEMMA SettledStays ==
    ASSUME FiledParts, [Next]_vars, NEW s \in Svcs, faults' = 0, Exists(s)', ~Updated(s), ~Updated(s)'
    PROVE  svc'[s].update \notin Pendings /\ (files'[s] # NoImage => files'[s] = svc'[s].image)
<1>1. /\ LockParts /\ TypeOK /\ ServiceShape(s) /\ SettledIsFiled(s)
      /\ files \in [Svcs -> Maybe] /\ svc \in [Svcs -> Service]
  BY DEF FiledParts, AskedParts, LockParts, TypeOK
<1>2. faults = 0
  BY <1>1, FaultsStay
<1>3. svc[s].update \notin Pendings /\ (Exists(s) => Agrees(s, svc[s].image))
  BY <1>1, <1>2, NotThere DEF SettledIsFiled, Pendings
<1>4. CASE svc'[s] = svc[s]
  <2>1. Exists(s)
    BY <1>4 DEF Exists
  <2>2. CASE Keeps(s)
    BY <1>3, <1>4, <2>1, <2>2 DEF Keeps, Agrees
  <2>3. ASSUME NEW p \in Slots, CommandWrites(p, s)
        PROVE  files'[s] # NoImage => files'[s] = svc'[s].image
    <3>1. CASE Records(p, s)
      BY <1>4, <3>1 DEF Records, Updated
    <3>2. CASE WritesFirst(p, s)
      BY <2>1, <3>2 DEF WritesFirst
    <3>3. CASE Discards(p, s)
      BY <3>3, Zenon DEF Discards
    <3>4. CASE RecordsFirst(p, s)
      BY <1>3, <1>4, <2>1, <3>4 DEF RecordsFirst, Agrees
    <3> QED
      BY <2>3, <3>1, <3>2, <3>3, <3>4 DEF CommandWrites
  <2> QED
    BY <1>1, <1>3, <1>4, <2>2, <2>3, FileSteps
<1>5. CASE SwarmStep(s)
  <2>1. files' = files /\ Exists(s)
    BY <1>1, <1>5, SwarmOnFirst DEF SwarmStep
  <2>2. svc'[s].update \notin Pendings /\ svc'[s].image = svc[s].image
    BY <1>1, <1>3, <1>5, SwarmCases DEF Becomes, Pendings
  <2> QED
    BY <1>3, <2>1, <2>2 DEF Agrees
<1>6. ASSUME NEW p \in Slots, Ships(p, s)
      PROVE  svc'[s].update \notin Pendings /\ (files'[s] # NoImage => files'[s] = svc'[s].image)
  <2>1. ApplyStack(p)
    <3>1. faults \in Nat
      BY <1>1, Bounds DEF TypeOK
    <3> QED
      BY <1>6, <3>1 DEF Ships, ApplyStackFails, Fault
  <2>2. files' = files /\ d[p].pc = "stack"
    BY <2>1 DEF ApplyStack
  <2>3. d[p].env[s] = files[s] /\ files[s] \in Images /\ svc'[s] = WithImage(s, files[s])
    BY <1>1, <1>6, <2>2, EnvType DEF Ships, LockParts, EnvIsFiles, Active
  <2>4. files[s] # NoImage
    BY <2>3, Sentinels
  <2>5. CASE Exists(s)
    BY <1>1, <1>3, <2>2, <2>3, <2>4, <2>5, WithImageCases DEF Agrees
  <2>6. CASE ~Exists(s)
    BY <1>1, <2>2, <2>3, <2>6, WithImageCases, CreateFields DEF Pendings
  <2> QED
    BY <2>5, <2>6
<1>7. ASSUME NEW p \in Slots PROVE ~RollsBackApp(p, s) /\ ~GivesUp(p, s) /\ ~Updates(p, s)
  <2>1. ~RollsBackApp(p, s)
    BY DEF RollsBackApp, Updated
  <2>2. ~GivesUp(p, s)
    BY <1>3 DEF GivesUp, State, Pendings
  <2>3. ASSUME Updates(p, s) PROVE FALSE
    <3>1. d' = [d EXCEPT ![p].pc = "waitapp", ![p].marks = Marks]
      BY <2>3 DEF Updates, UpdateApp
    <3>2. d'[p].cmd = d[p].cmd /\ d'[p].pc = "waitapp"
      BY <1>1, <3>1, MarkMoves
    <3> QED
      BY <2>3, <3>2 DEF Updates, IsApp, Updated, Stack
  <2> QED
    BY <2>1, <2>2, <2>3
<1> QED
  BY <1>1, <1>4, <1>5, <1>6, <1>7, ServiceSteps DEF CommandChanges

LEMMA SettledIsFiledStep ==
    ASSUME FiledParts, [Next]_vars, NEW s \in Svcs
    PROVE  SettledIsFiled(s)'
<1> SUFFICES ASSUME faults' = 0, Exists(s)', ~Updated(s)'
             PROVE  svc'[s].update \notin Pendings
                    /\ (files'[s] # NoImage => files'[s] = svc'[s].image)
  BY DEF SettledIsFiled, Agrees
<1>1. LockParts /\ TypeOK /\ faults = 0
  BY FaultsStay DEF FiledParts, AskedParts, LockParts
<1>2. CASE ~Updated(s)
  BY <1>2, SettledStays
<1>3. CASE Updated(s)
  <2>1. PICK p \in Slots : d[p].pc = "waitapp" /\ IsApp(p, s)
    BY <1>3 DEF Updated
  <2>2. d'[p] # d[p]
    BY <2>1 DEF Updated, IsApp, Stack
  <2> QED
    BY <1>1, <2>1, <2>2, WaitEnds, UpdatedSettles
<1> QED
  BY <1>2, <1>3

LEMMA FiledInvariant == Spec => []FiledParts
<1>1. Init => FiledParts
  BY FiledInit
<1>2. FiledParts /\ [Next]_vars => FiledParts'
  BY AskedStep, SettledIsFiledStep, UpdatedCanGoBackStep DEF FiledParts
<1> QED
  BY <1>1, <1>2, PTL DEF Spec

-----------------------------------------------------------------------------
(* What a poll has seen.                                                   *)

\* Updates that started since the command looked counted on from its mark.
MarksAreOld(p) ==
    d[p].pc \in {"waitapp", "waitstack"} => \A s \in Svcs : svc[s].mark >= d[p].marks[s]

\* What a poll of the stack that finds nothing pending has seen of s; no step
\* of the Swarm takes it back, since an update that completed stays completed.
Seen(p, s) ==
    /\ svc[s].run # NoImage
    /\ svc[s].update # "queued"
    /\ svc[s].mark # d[p].marks[s] => svc[s].update = "completed" /\ svc[s].run = d[p].env[s]

StableIsSeen(p) ==
    d[p].pc = "waitstack" /\ d[p].stable = 1 /\ faults = 0 => \A s \in Svcs : Seen(p, s)

SeenParts ==
    /\ AskedParts
    /\ \A p \in Slots : MarksAreOld(p) /\ StableIsSeen(p)

LEMMA PollSees ==
    ASSUME AskedParts, NEW p \in Slots, MarksAreOld(p), d[p].pc = "waitstack",
           Settled, ~Failed(p), ~Pending(p), NEW s \in Svcs
    PROVE  Seen(p, s)
<1>1. /\ TypeOK /\ ServiceShape(s) /\ Asked(p, s, d[p].env[s])
      /\ svc[s].mark >= d[p].marks[s] /\ svc[s].update # "queued"
      /\ svc[s].update \in Update /\ svc[s].mark \in Nat /\ d[p].marks[s] \in Nat
  BY ServiceType DEF AskedParts, LockParts, UpdateIsAsked, MarksAreOld, Settled, TypeOK, Process
<1>2. State(p, s) \notin {"paused", "rollback_paused", "rollback_completed",
                          "updating", "rollback_started"}
  BY DEF Failed, Pending
<1>3. State(p, s) \in {"", "completed"}
  BY <1>1, <1>2 DEF State, Update
<1>4. svc[s].run # NoImage
  BY <1>3 DEF Pending, ReplicasOk
<1>5. ASSUME svc[s].mark # d[p].marks[s]
      PROVE  svc[s].update = "completed" /\ svc[s].run = d[p].env[s]
  <2>1. svc[s].update # "none"
    BY <1>1, <1>5 DEF ServiceShape
  <2>2. svc[s].update = "completed"
    BY <1>1, <1>3, <1>5, <2>1 DEF State, Update
  <2> QED
    BY <1>1, <1>5, <2>2 DEF Asked
<1> QED
  BY <1>1, <1>4, <1>5 DEF Seen

LEMMA MarksAreOldStep ==
    ASSUME AskedParts, [Next]_vars, NEW p \in Slots, MarksAreOld(p)
    PROVE  MarksAreOld(p)'
<1>1. LockParts /\ TypeOK /\ LockParts'
  BY LockStep DEF AskedParts, LockParts
<1> SUFFICES ASSUME d'[p].pc \in {"waitapp", "waitstack"}, NEW s \in Svcs
             PROVE  svc'[s].mark >= d'[p].marks[s]
  BY DEF MarksAreOld
<1>2. d'[p].pc \in Active
  BY DEF Active
<1>3. /\ svc'[s].mark >= svc[s].mark /\ svc[s].mark \in Nat /\ svc'[s].mark \in Nat
      /\ d[p].marks[s] \in Nat
  BY <1>1, ShapeStep DEF AskedParts, LockParts, TypeOK, Service, Process
<1>4. CASE UpdateApp(p)
  <2>1. d' = [d EXCEPT ![p].pc = "waitapp", ![p].marks = Marks]
    BY <1>4 DEF UpdateApp
  <2> QED
    BY <1>1, <1>3, <2>1, MarkMoves
<1>5. CASE ApplyStack(p)
  <2>1. d' = [d EXCEPT ![p].pc = "waitstack", ![p].marks = Marks, ![p].stable = 0]
    BY <1>5 DEF ApplyStack
  <2> QED
    BY <1>1, <1>3, <2>1, StackMoves
<1>6. CASE Rests(p)
  BY <1>3, <1>6 DEF Rests, MarksAreOld
<1>7. ASSUME NEW n \in 0..1, Looks(p, n) PROVE svc'[s].mark >= d'[p].marks[s]
  <2>1. d'[p].marks = d[p].marks /\ d[p].pc = "waitstack"
    BY <1>1, <1>7, StableMoves DEF Looks
  <2> QED
    BY <1>3, <2>1 DEF MarksAreOld
<1>8. ~(d'[p].pc = "load") /\ ~ToUpdate(p) /\ ~ToStack(p) /\ ~LoadEnv(p)
  BY <1>1, NotWaiting
<1> QED
  BY <1>1, <1>2, <1>4, <1>5, <1>6, <1>7, <1>8, HolderSteps

LEMMA StableIsSeenStep ==
    ASSUME SeenParts, [Next]_vars, NEW p \in Slots
    PROVE  StableIsSeen(p)'
<1>1. /\ AskedParts /\ LockParts /\ TypeOK /\ LockParts'
      /\ MarksAreOld(p) /\ StableIsSeen(p)
  BY LockStep DEF SeenParts, AskedParts, LockParts
<1> SUFFICES ASSUME d'[p].pc = "waitstack", d'[p].stable = 1, faults' = 0, NEW s \in Svcs
             PROVE  Seen(p, s)'
  BY DEF StableIsSeen
<1>2. d'[p].pc \in Active /\ faults = 0 /\ ServiceShape(s)
  BY <1>1, FaultsStay DEF Active, AskedParts
<1>3. ~ApplyStack(p)
  <2>1. ASSUME ApplyStack(p)
        PROVE  d' = [d EXCEPT ![p].pc = "waitstack", ![p].marks = Marks, ![p].stable = 0]
    BY <2>1 DEF ApplyStack
  <2>2. ASSUME ApplyStack(p) PROVE d'[p].stable = 0
    BY <1>1, <2>1, <2>2, StackMoves, Zenon
  <2>3. ~(d'[p].stable = 0)
    OBVIOUS
  <2> QED
    BY <2>2, <2>3
<1>4. ~UpdateApp(p)
  <2>1. UpdateApp(p) => d' = [d EXCEPT ![p].pc = "waitapp", ![p].marks = Marks]
    BY DEF UpdateApp
  <2> QED
    BY <1>1, <2>1, MarkMoves
<1>5. CASE Rests(p)
  <2>1. d'[p] = d[p] /\ Seen(p, s)
    BY <1>1, <1>2, <1>5 DEF Rests, StableIsSeen
  <2>2. svc'[s] = svc[s] \/ SwarmStep(s)
    BY <1>5, <2>1 DEF Rests, RollsBackApp
  <2>3. CASE svc'[s] = svc[s]
    BY <2>1, <2>3 DEF Seen
  <2>4. CASE SwarmStep(s)
    <3>1. svc[s].image # NoImage
      BY <1>1, <1>2, <2>4, SwarmOnFirst DEF Exists
    <3> QED
      BY <1>1, <2>1, <2>4, <3>1, SwarmCases DEF Seen, Becomes
  <2> QED
    BY <2>2, <2>3, <2>4
<1>6. ASSUME NEW n \in 0..1, Looks(p, n) PROVE Seen(p, s)'
  <2>1. /\ d'[p].env = d[p].env /\ d'[p].marks = d[p].marks /\ d'[p].stable = n
        /\ svc' = svc /\ d[p].pc = "waitstack"
    BY <1>1, <1>6, StableMoves DEF Looks
  <2>0. n = 1 /\ ~(faults' > 0)
    BY <2>1
  <2>2. Settled /\ ~Failed(p) /\ ~Pending(p)
    BY <1>6, <2>0 DEF Looks
  <2>3. Seen(p, s)
    BY <1>1, <2>1, <2>2, PollSees
  <2> QED
    BY <2>1, <2>3 DEF Seen
<1>7. ~(d'[p].pc = "load") /\ ~ToUpdate(p) /\ ~ToStack(p) /\ ~LoadEnv(p)
  BY <1>1, NotWaiting
<1> QED
  BY <1>1, <1>2, <1>3, <1>4, <1>5, <1>6, <1>7, HolderSteps

LEMMA SeenInvariant == Spec => []SeenParts
<1>1. Init => SeenParts
  <2> SUFFICES ASSUME Init, NEW p \in Slots PROVE AskedParts /\ MarksAreOld(p) /\ StableIsSeen(p)
    BY AskedInit DEF SeenParts
  <2>1. d[p] = Ended("") /\ "" \in Results
    BY InitFields, ResultNames
  <2> QED
    BY <2>1, EndedFields, AskedInit DEF MarksAreOld, StableIsSeen
<1>2. SeenParts /\ [Next]_vars => SeenParts'
  BY AskedStep, MarksAreOldStep, StableIsSeenStep DEF SeenParts
<1> QED
  BY <1>1, <1>2, PTL DEF Spec

-----------------------------------------------------------------------------
(* How a command ends.                                                     *)

SaysHealthy(p) ==
    /\ d[p].pc = "waitapp"
    /\ State(p, d[p].cmd.svc) = "completed"

SaysCalm(p) ==
    /\ d[p].pc = "waitstack" /\ d[p].stable = 1
    /\ (faults < MaxFaults /\ faults' = faults + 1) \/ (Settled /\ ~Failed(p) /\ ~Pending(p))

Outcomes == {"success", "failure", "rolled-back"}

LEMMA EndResult ==
    ASSUME TypeOK, NEW p \in Slots, NEW result \in Results, End(p, result)
    PROVE  d'[p].result = result
BY EndFields, EndedFields

LEMMA CalmEnds ==
    ASSUME TypeOK, NEW p \in Slots, d[p].pc = "waitstack", d'[p].pc = "end", Calm(p)
    PROVE  d[p].stable = 1 /\ d'[p].result = "success"
<1>1. CASE SeesCalm(p, 1)
  <2>1. 1 \in 0..1
    OBVIOUS
  <2> QED
    BY <1>1, <2>1, StableMoves
<1>2. CASE d[p].stable = 1 /\ End(p, "success")
  BY <1>2, EndResult, ResultNames
<1> QED
  BY <1>1, <1>2 DEF Calm, SeesCalm

LEMMA RunEnds ==
    ASSUME LockParts, NEW p \in Slots, Run(p), d[p].pc # "end", d'[p].pc = "end",
           d'[p].result \in Outcomes
    PROVE  \/ d'[p].result = "success" /\ (SaysHealthy(p) \/ SaysCalm(p))
           \/ /\ d[p].pc \in Active
              /\ \E result \in {"failure", "rolled-back"} :
                    Die(p, result) /\ d'[p].result = result
<1> DEFINE G == \/ d'[p].result = "success" /\ (SaysHealthy(p) \/ SaysCalm(p))
                \/ /\ d[p].pc \in Active
                   /\ \E result \in {"failure", "rolled-back"} :
                         Die(p, result) /\ d'[p].result = result
<1>1. TypeOK
  BY DEF LockParts
<1>2. ASSUME NEW result \in {"failure", "rolled-back"}, Die(p, result), d[p].pc \in Active
      PROVE  G
  <2>1. End(p, result) /\ result \in Results
    BY <1>2, ResultNames DEF Die
  <2> QED
    BY <1>1, <1>2, <2>1, EndResult
<1>3. ASSUME NEW result \in {"pending", "unchanged", "no-lock"}, End(p, result) PROVE FALSE
  <2>1. result \in Results
    BY ResultNames
  <2>2. d'[p].result = result
    BY <1>1, <1>3, <2>1, EndResult
  <2> QED
    BY <2>2 DEF Outcomes
<1>4. CASE DecideApp(p) \/ Misread(p)
  <2>1. d'[p].pc \notin Active
    BY DEF Active
  <2>2. ~ToUpdate(p) /\ ~ToStack(p)
    <3>1. ToStack(p) => d[p].cmd.svc \in Svcs /\ d[p].cmd.img \in Images
      BY AppIsCommand DEF ToStack
    <3> QED
      BY <1>1, <3>1, PcMoves, FirstMoves DEF ToUpdate, NeedsUpdate, ToStack
  <2> QED
    BY <1>3, <1>4, <2>2 DEF DecideApp, FirstDeploy, Misread, RecordFirst, Unchanged, Succeed,
                            ToUpdate, ToStack, GoesToStack
<1>5. CASE PollApp(p)
  <2>1. d[p].pc = "waitapp" /\ d[p].pc \in Active
    BY <1>5 DEF PollApp, Active
  <2>2. CASE /\ State(p, d[p].cmd.svc) = "completed"
             /\ Succeed(p, "success", d[p].cmd.svc, d[p].cmd.img)
    <3>1. d'[p].result = "success"
      BY <1>1, <2>2, EndResult, ResultNames DEF Succeed
    <3> QED
      BY <2>1, <2>2, <3>1 DEF SaysHealthy
  <2>3. CASE Die(p, "rolled-back")
    BY <1>2, <2>1, <2>3
  <2> QED
    BY <1>5, <2>1, <2>2, <2>3 DEF PollApp
<1>6. CASE TimeoutApp(p) \/ AbortApp(p) \/ RefuseStack(p) \/ ApplyStackFails(p)
           \/ TimeoutStack(p) \/ GiveUpFails(p)
  <2>1. d[p].pc \in Active /\ Die(p, "failure")
    BY <1>6 DEF TimeoutApp, AbortApp, RefuseStack, ApplyStackFails, TimeoutStack, GiveUpFails,
                GiveUp, Active
  <2> QED
    BY <1>2, <2>1
<1>7. CASE PollStack(p) \/ PollBlind(p)
  <2>1. d[p].pc = "waitstack" /\ d[p].pc \in Active
    BY <1>7 DEF PollStack, PollBlind, Active
  <2>2. CASE PollBlind(p)
    BY <1>1, <2>1, <2>2, CalmEnds DEF PollBlind, Fault, SaysCalm
  <2>3. CASE PollStack(p)
    <3>1. CASE Die(p, "failure")
      BY <1>2, <2>1, <3>1
    <3>2. CASE Settled /\ ~Failed(p) /\ ~Pending(p) /\ Calm(p)
      BY <1>1, <2>1, <3>2, CalmEnds DEF SaysCalm
    <3>3. CASE SeesCalm(p, 0)
      <4>1. 0 \in 0..1
        OBVIOUS
      <4> QED
        BY <1>1, <2>1, <3>3, <4>1, StableMoves
    <3> QED
      BY <2>3, <3>1, <3>2, <3>3 DEF PollStack, GiveUp, SeesCalm
  <2> QED
    BY <1>7, <2>2, <2>3
<1>8. CASE LockTimeout(p)
  <2>1. d'[p] = Ended("no-lock")
    BY <1>1, <1>8 DEF LockTimeout, TypeOK
  <2>2. d'[p].result = "no-lock"
    BY <2>1, EndedFields, ResultNames
  <2> QED
    BY <2>2 DEF Outcomes
<1>9. ~AcquireLock(p) /\ ~LoadEnv(p) /\ ~UpdateApp(p) /\ ~ApplyStack(p)
  <2>1. ~AcquireLock(p) /\ ~LoadEnv(p)
    BY AcquireLockLock, LoadEnvLock
  <2>2. ~UpdateApp(p)
    <3>1. UpdateApp(p) => d' = [d EXCEPT ![p].pc = "waitapp", ![p].marks = Marks]
      BY DEF UpdateApp
    <3> QED
      BY <1>1, <3>1, MarkMoves
  <2>3. ~ApplyStack(p)
    <3>1. ApplyStack(p) => d' = [d EXCEPT ![p].pc = "waitstack", ![p].marks = Marks, ![p].stable = 0]
      BY DEF ApplyStack
    <3> QED
      BY <1>1, <3>1, StackMoves
  <2> QED
    BY <2>1, <2>2, <2>3
<1> QED
  BY <1>4, <1>5, <1>6, <1>7, <1>8, <1>9 DEF Run

LEMMA HowItEnds ==
    ASSUME LockParts, [Next]_vars, NEW p \in Slots, NEW results \in SUBSET Outcomes, Ends(p, results)
    PROVE  \/ d'[p].result = "success" /\ (SaysHealthy(p) \/ SaysCalm(p))
           \/ /\ d[p].pc \in Active
              /\ \E result \in {"failure", "rolled-back"} :
                    Die(p, result) /\ d'[p].result = result
<1>1. TypeOK /\ d[p].pc # "end" /\ d'[p].pc = "end" /\ d'[p].result \in Outcomes
  BY DEF LockParts, Ends
<1>2. CASE UNCHANGED d
  BY <1>1, <1>2
<1>3. UNCHANGED vars => UNCHANGED d
  BY DEF vars
<1>4. ASSUME NEW s \in Svcs, SwarmStep(s) PROVE UNCHANGED d
  BY <1>4 DEF SwarmStep
<1>5. ASSUME NEW q \in Slots, NEW cmd \in Commands, Start(q, cmd) PROVE FALSE
  <2>1. d[q].pc = "end" /\ q # p /\ d'[p] = d[p]
    BY <1>1, <1>5, StartLock DEF Start
  <2> QED
    BY <1>1, <2>1
<1>6. ASSUME NEW q \in Slots, Kill(q) PROVE FALSE
  <2>1. d'[q] = Ended("killed")
    BY <1>1, <1>6 DEF Kill, TypeOK
  <2>2. d'[q].result = "killed"
    BY <2>1, EndedFields, ResultNames
  <2>3. q # p
    BY <1>1, <2>2 DEF Outcomes
  <2> QED
    BY <1>1, <1>6, <2>3, OnlyItself
<1>7. ASSUME NEW q \in Slots, Run(q) PROVE q = p
  BY <1>1, <1>7, OnlyItself
<1> QED
  BY <1>1, <1>2, <1>3, <1>4, <1>5, <1>6, <1>7, RunEnds DEF Next

-----------------------------------------------------------------------------
(* The action properties.                                                  *)

\* `success' was seen: of a poll that docker answered, or of one that it did
\* not answer when nothing had failed before it.
Trusted(p, s) == d[p].discard = TRUE => s \notin misread

LEMMA TrustedSays ==
    ASSUME NEW p \in Slots, NEW s \in Svcs, d[p].discard => s \notin misread
    PROVE  Trusted(p, s)
BY Zenon DEF Trusted

LEMMA SuccessSees ==
    ASSUME SeenParts, [Next]_vars, faults = 0 \/ faults' = faults,
           NEW p \in Slots, Ends(p, {"success"}), NEW s \in Svcs
    PROVE  /\ d[p].pc = "waitstack" => Seen(p, s)
           /\ IsApp(p, s) /\ Trusted(p, s) => svc[s].run = d[p].cmd.img
<1>1. /\ AskedParts /\ LockParts /\ TypeOK /\ MarksAreOld(p) /\ StableIsSeen(p)
      /\ FirstIsFirst(p) /\ UpdateIsAsked(p) /\ faults \in Nat
  BY Bounds DEF SeenParts, AskedParts, LockParts, TypeOK
<1>2. SaysHealthy(p) \/ SaysCalm(p)
  <2>1. {"success"} \in SUBSET Outcomes /\ d'[p].result = "success"
    BY DEF Outcomes, Ends
  <2>2. \/ d'[p].result = "success" /\ (SaysHealthy(p) \/ SaysCalm(p))
        \/ /\ d[p].pc \in Active
           /\ \E result \in {"failure", "rolled-back"} : Die(p, result) /\ d'[p].result = result
    BY <1>1, <2>1, HowItEnds
  <2> QED
    BY <2>1, <2>2
<1>3. CASE SaysHealthy(p)
  <2>1. d[p].pc = "waitapp" /\ State(p, d[p].cmd.svc) = "completed"
    BY <1>3 DEF SaysHealthy
  <2>2. ASSUME IsApp(p, s) PROVE svc[s].run = d[p].cmd.img
    <3>1. d[p].cmd.svc = s /\ Asked(p, s, d[p].cmd.img)
      BY <1>1, <2>1, <2>2 DEF IsApp, UpdateIsAsked
    <3>2. svc[s].update = "completed" /\ svc[s].mark # d[p].marks[s]
      BY <2>1, <3>1 DEF State
    <3> QED
      BY <3>1, <3>2 DEF Asked
  <2> QED
    BY <2>1, <2>2
<1>4. CASE SaysCalm(p)
  <2>1. d[p].pc = "waitstack" /\ d[p].stable = 1
    BY <1>4 DEF SaysCalm
  <2>2. Seen(p, s)
    <3>1. CASE Settled /\ ~Failed(p) /\ ~Pending(p)
      BY <1>1, <2>1, <3>1, PollSees
    <3>2. CASE faults' = faults + 1
      <4>1. faults = 0
        BY <1>1, <3>2
      <4> QED
        BY <1>1, <2>1, <4>1 DEF StableIsSeen
    <3> QED
      BY <1>4, <3>1, <3>2 DEF SaysCalm
  <2>3. ASSUME IsApp(p, s), Trusted(p, s) PROVE svc[s].run = d[p].cmd.img
    <3>1. d[p].cmd # Stack /\ d[p].cmd.svc = s
      BY <2>3 DEF IsApp
    <3>2. d[p].discard = TRUE
      BY <1>1, <2>1, <3>1, FirstWaits
    <3>3. First(p, s, d[p].cmd.img) /\ s \notin misread
      BY <1>1, <2>3, <3>1, <3>2, Zenon DEF FirstIsFirst, Trusted
    <3> QED
      BY <2>1, <2>2, <3>3 DEF First, Seen
  <2> QED
    BY <2>2, <2>3
<1> QED
  BY <1>2, <1>3, <1>4

LEMMA SeenIsRunning ==
    ASSUME LockParts, NEW p \in Slots, NEW s \in Svcs, Seen(p, s)
    PROVE  /\ svc[s].run # NoImage
           /\ svc[s].mark # d[p].marks[s] => svc[s].run = d[p].env[s]
BY DEF Seen

\* One poll of docker that fails unseen is not enough for a false `success':
\* two in a row are, hence the bound (README, finding 3, is two of them).
LEMMA OneFault ==
    ASSUME MaxFaults <= 1, TypeOK, [Next]_vars
    PROVE  faults = 0 \/ faults' = faults
<1>1. faults \in Nat /\ MaxFaults \in Nat
  BY Bounds DEF TypeOK
<1>2. faults = 0 \/ ~Fault
  BY <1>1 DEF Fault
<1>3. ASSUME ~Fault PROVE faults' = faults
  <2>1. UNCHANGED vars => faults' = faults
    BY DEF vars
  <2>2. ASSUME NEW p \in Slots, Run(p) PROVE faults' = faults
    BY <1>3, <2>2 DEF Run, AcquireLock, LockTimeout, LoadEnv, DecideApp, Misread, UpdateApp, PollApp,
            TimeoutApp, AbortApp, RefuseStack, ApplyStack, ApplyStackFails, PollStack, PollBlind,
            TimeoutStack, GiveUpFails
  <2>3. ASSUME NEW p \in Slots, NEW cmd \in Commands, Start(p, cmd) PROVE faults' = faults
    BY <2>3 DEF Start
  <2>4. ASSUME NEW p \in Slots PROVE ~Kill(p)
    BY <1>3 DEF Kill
  <2>5. ASSUME NEW s \in Svcs, SwarmStep(s) PROVE faults' = faults
    BY <2>5 DEF SwarmStep
  <2> QED
    BY <2>1, <2>2, <2>3, <2>4, <2>5 DEF Next
<1> QED
  BY <1>2, <1>3

\* deploy:160-186, 311-328, with at most one fault: a command that reports
\* `success' of an image reports it of the image that runs.
THEOREM SuccessRuns ==
    ASSUME MaxFaults <= 1
    PROVE  Spec => SuccessIsRunning
<1>1. ASSUME SeenParts, [Next]_vars, NEW p \in Slots, NEW s \in Svcs,
             Ends(p, {"success"}), IsApp(p, s), Trusted(p, s)
      PROVE  svc[s].run = d[p].cmd.img
  BY <1>1, OneFault, SuccessSees DEF SeenParts, AskedParts, LockParts
<1>2. SeenParts /\ [Next]_vars
      => [\A p \in Slots, s \in Svcs :
            (Ends(p, {"success"}) /\ IsApp(p, s) /\ (d[p].discard => s \notin misread))
              => svc[s].run = d[p].cmd.img]_vars
  BY <1>1, TrustedSays, Zenon
<1> QED
  BY <1>2, SeenInvariant, PTL DEF Spec, SuccessIsRunning

\* The same for a whole stack (deploy:160-186): every service has healthy
\* tasks, and those this deploy touched run what it asked for.
THEOREM StackSuccessRuns ==
    ASSUME MaxFaults <= 1
    PROVE  Spec => StackSuccessIsRunning
<1>1. SeenParts /\ [Next]_vars
      => [\A p \in Slots, s \in Svcs :
            d[p].pc = "waitstack" /\ Ends(p, {"success"})
            => /\ svc[s].run # NoImage
               /\ svc[s].mark # d[p].marks[s] => svc[s].run = d[p].env[s]]_vars
  BY OneFault, SuccessSees, SeenIsRunning DEF SeenParts, AskedParts, LockParts
<1> QED
  BY <1>1, SeenInvariant, PTL DEF Spec, StackSuccessIsRunning

\* With any number of faults: the success of a command whose last poll docker
\* answered is that of what runs.
AnsweredSuccess ==
    [][ \A p \in Slots, s \in Svcs :
          Ends(p, {"success"}) /\ faults' = faults
          => /\ IsApp(p, s) /\ Trusted(p, s) => svc[s].run = d[p].cmd.img
             /\ d[p].pc = "waitstack" => svc[s].run # NoImage ]_vars

THEOREM AnsweredSuccessRuns == Spec => AnsweredSuccess
<1>1. SeenParts /\ [Next]_vars
      => [\A p \in Slots, s \in Svcs :
            Ends(p, {"success"}) /\ faults' = faults
            => /\ IsApp(p, s) /\ Trusted(p, s) => svc[s].run = d[p].cmd.img
               /\ d[p].pc = "waitstack" => svc[s].run # NoImage]_vars
  BY SuccessSees, SeenIsRunning DEF SeenParts, AskedParts
<1> QED
  BY <1>1, SeenInvariant, PTL DEF Spec, AnsweredSuccess

\* stacks/app.yml:7: no command moves a service off the image last shipped to
\* it but `deploy app' of that service, while nothing failed; docker stack
\* deploy never does, but where a deploy took the service for one that does
\* not exist (deploy:285; README, gap B).
LEMMA ShippedStep ==
    ASSUME FiledParts, [Next]_vars, NEW p \in Slots, NEW s \in Svcs,
           d'[p] # d[p], ~IsApp(p, s),
           faults = 0 \/ (d[p].pc = "stack" /\ s \notin misread),
           shipped[s] # NoImage, svc[s].image = shipped[s]
    PROVE  svc'[s].image = shipped[s]
<1>1. /\ AskedParts /\ LockParts /\ TypeOK /\ SettledIsFiled(s) /\ ServiceShape(s)
      /\ files[s] = shipped[s] /\ Exists(s)
  BY DEF FiledParts, AskedParts, LockParts, FileIsShipped, MisreadIsFault
<1>2. ~SwarmStep(s)
  BY DEF SwarmStep
<1>3. ASSUME NEW q \in Slots, CommandChanges(q, s) PROVE svc'[s].image = shipped[s]
  <2>1. CASE RollsBackApp(q, s)
    <3>1. q = p
      BY <1>1, <2>1, OnlyItself DEF RollsBackApp, Run
    <3> QED
      BY <2>1, <3>1 DEF RollsBackApp
  <2>2. CASE GivesUp(q, s)
    <3>1. q = p
      BY <1>1, <2>2, EndFields, ResultNames DEF GivesUp, Die
    <3>2. d[p].pc = "waitstack" /\ svc[s].update \in Pendings /\ faults = 0
      BY <2>2, <3>1 DEF GivesUp, State, Pendings
    <3>3. ~Updated(s)
      BY <1>1, <3>2, NobodyUpdates DEF Active
    <3> QED
      BY <1>1, <3>2, <3>3 DEF SettledIsFiled
  <2>3. CASE Updates(q, s)
    <3>1. q = p
      BY <1>1, <2>3, OnlyItself DEF Updates, Run
    <3> QED
      BY <2>3, <3>1 DEF Updates
  <2>4. CASE Ships(q, s)
    <3>1. d[q].env = files /\ svc'[s] = WithImage(s, shipped[s])
      BY <1>1, <2>4 DEF Ships, LockParts, EnvIsFiles, Active
    <3>2. shipped[s] \in Images
      BY <1>1 DEF TypeOK, Maybe
    <3> QED
      BY <1>1, <3>1, <3>2, WithImageCases
  <2> QED
    BY <1>3, <2>1, <2>2, <2>3, <2>4 DEF CommandChanges
<1> QED
  BY <1>1, <1>2, <1>3, ServiceSteps

THEOREM ShippedStays == Spec => ShippedIsNotReverted
<1>1. FiledParts /\ [Next]_vars
      => [\A p \in Slots, s \in Svcs :
            (/\ d'[p] # d[p] /\ ~IsApp(p, s)
             /\ faults = 0 \/ (d[p].pc = "stack" /\ s \notin misread)
             /\ shipped[s] # NoImage /\ svc[s].image = shipped[s])
            => svc'[s].image = shipped[s]]_vars
  BY ShippedStep
<1> QED
  BY <1>1, FiledInvariant, PTL DEF Spec, ShippedIsNotReverted

\* docs/deploy-and-rollback.md:39: a deploy that failed leaves no image file
\* that names its image, for the next stack deploy to ship.
LEMMA FailureStep ==
    ASSUME FiledParts, [Next]_vars, NEW p \in Slots, NEW s \in Svcs,
           Ends(p, {"failure", "rolled-back"}), IsApp(p, s),
           d[p].pc \notin {"load", "decide"}, faults = 0 \/ d[p].discard = TRUE
    PROVE  files'[s] # d[p].cmd.img
<1>1. /\ AskedParts /\ LockParts /\ TypeOK /\ UpdatedCanGoBack(p) /\ files \in [Svcs -> Maybe]
      /\ d[p].cmd # Stack /\ d[p].cmd.svc = s /\ d[p].discard \in BOOLEAN
  BY DEF FiledParts, AskedParts, LockParts, TypeOK, Process, IsApp
<1>2. d[p].cmd.img # NoImage
  BY <1>1, CommandType
<1>3. PICK result \in {"failure", "rolled-back"} : d[p].pc \in Active /\ Die(p, result)
  <2>1. {"failure", "rolled-back"} \in SUBSET Outcomes /\ d'[p].result # "success"
    BY DEF Outcomes, Ends
  <2> QED
    BY <1>1, <2>1, HowItEnds
<1>4. result \in Results
  BY ResultNames
<1>5. CASE d[p].discard = TRUE
  <2>1. files' = [files EXCEPT ![d[p].cmd.svc] = NoImage]
    BY <1>1, <1>3, <1>4, <1>5, DieFields, Zenon
  <2> QED
    BY <1>1, <1>2, <2>1
<1>6. CASE d[p].discard = FALSE
  <2>1. files' = files /\ faults = 0
    BY <1>1, <1>3, <1>4, <1>6, DieFields, Zenon
  <2>2. d[p].pc \notin {"stack", "waitstack"}
    <3>1. ~(d[p].discard = TRUE)
      BY <1>6, Zenon
    <3> QED
      BY <1>1, <3>1, FirstWaits
  <2>3. d[p].pc \in {"update", "waitapp"}
    BY <1>3, <2>2 DEF Active
  <2> QED
    BY <1>1, <2>1, <2>3 DEF UpdatedCanGoBack, CanGoBack
<1> QED
  BY <1>1, <1>5, <1>6

THEOREM FailureLeavesNoFile == Spec => FailureIsNotRecorded
<1>1. ASSUME FiledParts, [Next]_vars, NEW p \in Slots, NEW s \in Svcs,
             Ends(p, {"failure", "rolled-back"}), IsApp(p, s),
             d[p].pc \notin {"load", "decide"}, faults = 0 \/ d[p].discard
      PROVE  files'[s] # d[p].cmd.img
  <2>1. d[p].discard \in BOOLEAN
    BY <1>1 DEF FiledParts, AskedParts, LockParts, TypeOK, Process
  <2>2. faults = 0 \/ d[p].discard = TRUE
    BY <1>1, <2>1, Zenon
  <2> QED
    BY <1>1, <2>2, FailureStep
<1>2. FiledParts /\ [Next]_vars
      => [\A p \in Slots, s \in Svcs :
            (/\ Ends(p, {"failure", "rolled-back"}) /\ IsApp(p, s)
             /\ d[p].pc \notin {"load", "decide"}
             /\ faults = 0 \/ d[p].discard
             /\ shipped[s] # d[p].cmd.img)
            => files'[s] # d[p].cmd.img]_vars
  BY <1>1, Zenon
<1> QED
  BY <1>2, FiledInvariant, PTL DEF Spec, FailureIsNotRecorded
=============================================================================
