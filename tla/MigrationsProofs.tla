-------------------------- MODULE MigrationsProofs --------------------------
(***************************************************************************)
(* Proofs about Migrations, for every number of attempts, migrations and   *)
(* faults: one transaction at a time, filename order, a complete schema    *)
(* behind every success, and the refinement of MigrationLog.               *)
(***************************************************************************)
EXTENDS Migrations, TLAPS

(***************************************************************************)
(* The inductive invariant: who is past the lock holds it, so what the     *)
(* attempt at position i has checked stays true until it commits.          *)
(***************************************************************************)

Inside == {"table", "check", "tx", "commit", "unlock"}

HoldsLock == \A r \in Attempts : a[r].pc \in Inside => lock = r

\* The committed migrations are 1..Len(schema), in that order.
Prefix ==
    /\ Len(schema) <= N
    /\ versions = 1..Len(schema)
    /\ \A k \in 1..Len(schema) : schema[k] = k

Progress ==
    \A r \in Attempts :
       /\ a[r].i <= Len(schema) + 1
       /\ a[r].pc \in {"tx", "commit"} => a[r].i = Len(schema) + 1 /\ a[r].i <= Embedded[r]
       /\ a[r].pc = "unlock" /\ ~a[r].err => a[r].i > Embedded[r]
       /\ a[r].pc = "done" => Len(schema) >= Embedded[r]

\* Only a failed statement leads to the error path.
NoFalseError == FailsOnlyOnFault /\ \A r \in Attempts : a[r].gone => faults > 0

Inv == TypeOK /\ HoldsLock /\ Prefix /\ Progress /\ NoFalseError

LEMMA InitInv == Init => Inv
BY MigrationsAssumption
   DEF Init, Inv, TypeOK, Attempt, Pcs, HoldsLock, Inside, Prefix, Progress,
       NoFalseError, FailsOnlyOnFault

LEMMA NextInv == Inv /\ [Next]_vars => Inv'
<1> SUFFICES ASSUME Inv, [Next]_vars PROVE Inv'
  OBVIOUS
<1> USE MigrationsAssumption
    DEF Inv, TypeOK, Attempt, Pcs, HoldsLock, Inside, Prefix, Progress,
        NoFalseError, FailsOnlyOnFault, Move, Goto, Fail, Runs, Fault, Over, Outcome
<1>1. ASSUME NEW r \in Attempts, Begin(r) PROVE Inv'
  BY <1>1 DEF Begin
<1>2. ASSUME NEW r \in Attempts, AdvisoryLock(r) PROVE Inv'
  BY <1>2 DEF AdvisoryLock
<1>3. ASSUME NEW r \in Attempts, CreateTable(r) PROVE Inv'
  BY <1>3 DEF CreateTable
<1>4. ASSUME NEW r \in Attempts, Check(r) PROVE Inv'
  <2>1. CASE a[r].i > Embedded[r] /\ Goto(r, "unlock")
    BY <1>4, <2>1 DEF Check
  <2>2. CASE a[r].i <= Embedded[r] /\ a[r].i \in versions /\ Move(r, "check", a[r].i + 1, a[r].err)
    <3>1. a[r].i \in 1..Len(schema) /\ a[r].pc = "check"
      BY <1>4, <2>2 DEF Check
    <3> QED
      BY <1>4, <2>2, <3>1 DEF Check
  <2>3. CASE a[r].i <= Embedded[r] /\ a[r].i \notin versions /\ Goto(r, "tx")
    <3>1. a[r].i = Len(schema) + 1
      BY <2>3
    <3> QED
      BY <1>4, <2>3, <3>1 DEF Check
  <2> QED
    BY <1>4, <2>1, <2>2, <2>3 DEF Check
<1>5. ASSUME NEW r \in Attempts, RunSql(r) PROVE Inv'
  BY <1>5 DEF RunSql
<1>6. ASSUME NEW r \in Attempts, Commit(r) PROVE Inv'
  <2>1. /\ a[r].pc = "commit" /\ lock = r
        /\ a[r].i = Len(schema) + 1 /\ a[r].i \in 1..N
        /\ versions' = versions \cup {a[r].i}
        /\ schema' = Append(schema, a[r].i)
        /\ Move(r, "check", a[r].i + 1, a[r].err)
        /\ UNCHANGED <<lock, faults>>
    BY <1>6 DEF Commit
  <2>2. /\ schema' \in Seq(1..N) /\ Len(schema') = Len(schema) + 1
        /\ \A k \in 1..Len(schema) : schema'[k] = schema[k]
        /\ schema'[Len(schema) + 1] = a[r].i
    BY <2>1
  <2>3. /\ a' \in [Attempts -> Attempt]
        /\ a'[r].pc = "check" /\ a'[r].i = Len(schema) + 2
        /\ a'[r].err = a[r].err /\ a'[r].gone = a[r].gone
        /\ \A s \in Attempts \ {r} : a'[s] = a[s]
    BY <2>1
  <2>4. TypeOK'
    BY <2>1, <2>2, <2>3
  <2>5. Prefix'
    BY <2>1, <2>2
  <2>6. HoldsLock' /\ NoFalseError'
    BY <2>1, <2>3
  <2>7. Progress'
    BY <2>1, <2>2, <2>3
  <2> QED
    BY <2>4, <2>5, <2>6, <2>7
<1>7. ASSUME NEW r \in Attempts, Unlock(r) PROVE Inv'
  <2>1. CASE a[r].err
    BY <1>7, <2>1 DEF Unlock
  <2>2. CASE ~a[r].err
    <3>1. Goto(r, "done") /\ a[r].pc = "unlock" /\ lock = r /\ lock' = Nobody
      BY <1>7, <2>2 DEF Unlock
    <3>2. Len(schema) >= Embedded[r]
      BY <2>2, <3>1
    <3> QED
      BY <1>7, <3>1, <3>2 DEF Unlock
  <2> QED
    BY <2>1, <2>2
<1>8. ASSUME NEW r \in Attempts, StatementFails(r) PROVE Inv'
  <2>1. a[r].pc \in {"table", "check", "tx"} /\ Fail(r)
    BY <1>8 DEF StatementFails
  <2>2. faults' \in 0..MaxFaults /\ faults' > 0 /\ UNCHANGED <<lock, versions, schema>>
    BY <1>8 DEF StatementFails
  <2> QED
    BY <2>1, <2>2
<1>9. ASSUME NEW r \in Attempts, ClientGone(r) PROVE Inv'
  <2>1. /\ a' \in [Attempts -> Attempt]
        /\ a'[r].pc = a[r].pc /\ a'[r].i = a[r].i /\ a'[r].err = a[r].err
        /\ \A s \in Attempts \ {r} : a'[s] = a[s]
    BY <1>9 DEF ClientGone
  <2>2. faults' \in 0..MaxFaults /\ faults' > 0 /\ UNCHANGED <<lock, versions, schema>>
    BY <1>9 DEF ClientGone
  <2> QED
    BY <2>1, <2>2
<1>10. ASSUME NEW r \in Attempts, SessionEnds(r) PROVE Inv'
  BY <1>10 DEF SessionEnds
<1>12. ASSUME NEW r \in Attempts, UnlockFails(r) PROVE Inv'
  <2>1. /\ a[r].pc = "unlock" /\ a'[r].i = a[r].i /\ a'[r].err = a[r].err
        /\ a'[r].pc = (IF a[r].err THEN "failed" ELSE "done")
        /\ \A s \in Attempts \ {r} : a'[s] = a[s]
    BY <1>12 DEF UnlockFails
  <2>2. a' \in [Attempts -> Attempt]
    <3>1. a[r] \in Attempt /\ Outcome(r) \in Pcs
      OBVIOUS
    <3>2. [a[r] EXCEPT !.pc = Outcome(r), !.gone = TRUE] \in Attempt
      <4> HIDE DEF Pcs, Outcome
      <4> QED
        BY <3>1
    <3>3. a' = [a EXCEPT ![r] = [a[r] EXCEPT !.pc = Outcome(r), !.gone = TRUE]]
      BY <1>12 DEF UnlockFails
    <3> HIDE DEF Attempt, Outcome
    <3> QED
      BY <3>2, <3>3
  <2>3. faults' \in 0..MaxFaults /\ faults' > 0 /\ UNCHANGED <<lock, versions, schema>>
    BY <1>12 DEF UnlockFails
  <2>4. TypeOK' /\ Prefix'
    BY <2>2, <2>3
  <2>5. HoldsLock' /\ NoFalseError'
    BY <2>1, <2>3
  <2>6. Progress'
    <3>1. a[r].pc = "unlock" /\ ~a[r].err => Len(schema) >= Embedded[r]
      OBVIOUS
    <3> QED
      BY <2>1, <2>3, <3>1
  <2> QED
    BY <2>4, <2>5, <2>6
<1>11. CASE UNCHANGED vars
  BY <1>11 DEF vars
<1> QED
  BY <1>1, <1>2, <1>3, <1>4, <1>5, <1>6, <1>7, <1>8, <1>9, <1>10, <1>11, <1>12 DEF Next, Step

\* The inductive invariant holds in every behaviour.
THEOREM Invariance == Spec => []Inv
BY InitInv, NextInv, PTL DEF Spec

\* The type invariant.
THEOREM TypeCorrect == Spec => []TypeOK
BY Invariance, PTL DEF Inv

\* At most one session has a migration transaction open, that of a process
\* already dead included (postgres.go:23-25, 60-65).
THEOREM NeverConcurrent == Spec => []OneTransaction
<1>1. Inv => OneTransaction
  BY DEF Inv, HoldsLock, Inside, OneTransaction
<1> QED
  BY <1>1, Invariance, PTL

\* Migrations are committed once each, in filename order, and exactly those
\* are recorded (postgres.go:79-102).
THEOREM AppliedInOrder == Spec => []InOrder
<1>1. Inv => InOrder
  <2> SUFFICES ASSUME Inv PROVE InOrder
    OBVIOUS
  <2>1. Len(schema) \in Nat /\ versions = 1..Len(schema)
        /\ \A k \in 1..Len(schema) : schema[k] = k
    BY DEF Inv, Prefix, TypeOK
  <2> QED
    BY <2>1 DEF InOrder
<1> QED
  BY <1>1, Invariance, PTL

\* An attempt that returns without error found or made its whole schema.
THEOREM DoneMeansComplete == Spec => []DoneIsComplete
<1>1. Inv => DoneIsComplete
  BY DEF Inv, Progress, DoneIsComplete
<1> QED
  BY <1>1, Invariance, PTL

\* Concurrent starts never make each other fail: the primary key of
\* schema_migrations is never violated.
THEOREM NoFalseFailure == Spec => []FailsOnlyOnFault
<1>1. Inv => FailsOnlyOnFault
  BY DEF Inv, NoFalseError
<1> QED
  BY <1>1, Invariance, PTL

LEMMA NextLog == Inv /\ [Next]_vars => [Log!ApplyNext]_schema
<1> SUFFICES ASSUME Inv, [Next]_vars, schema' # schema PROVE Log!ApplyNext
  OBVIOUS
<1>1. PICK r \in Attempts : Commit(r)
  BY DEF Next, Step, Begin, AdvisoryLock, CreateTable, Check, RunSql, Unlock,
         StatementFails, UnlockFails, ClientGone, SessionEnds, vars
<1>2. /\ a[r].i = Len(schema) + 1 /\ a[r].i <= Embedded[r]
      /\ schema' = Append(schema, a[r].i)
  BY <1>1 DEF Commit, Inv, Progress
<1>3. Len(schema) \in Nat /\ Embedded[r] \in 0..N
  BY MigrationsAssumption DEF Inv, TypeOK
<1> QED
  BY <1>2, <1>3, MigrationsAssumption DEF Log!ApplyNext

\* Any number of attempts, dying at any point, implement a log that only
\* grows by the next migration.
THEOREM Refinement == Spec => ImplementsLog
<1>1. Init => Log!Init
  BY DEF Init, Log!Init
<1> QED
  BY <1>1, NextLog, Invariance, PTL DEF Spec, ImplementsLog, Log!Spec
=============================================================================
