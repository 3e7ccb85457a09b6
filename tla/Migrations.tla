----------------------------- MODULE Migrations -----------------------------
(***************************************************************************)
(* Postgres.Migrate (backend/internal/store/postgres.go:53-104), run by    *)
(* every API process that starts: replicas, restarts, and the new task of  *)
(* a start-first update beside the old one.  One attempt is one call of    *)
(* Migrate on one database session.                                        *)
(*                                                                         *)
(* The advisory lock belongs to the session, and so does an open           *)
(* transaction.  When the process dies, or its context is cancelled, the   *)
(* session lives on in PostgreSQL until the server notices: a lock it      *)
(* waits for may still be granted, a COMMIT it was sent may still happen.  *)
(***************************************************************************)
EXTENDS Naturals, Sequences

CONSTANTS Attempts,   \* calls of Migrate
          N,          \* migrations, in filename order
          Embedded,   \* how many of them each attempt's binary embeds
          Nobody,     \* nobody holds the advisory lock
          MaxFaults   \* bound on lost sessions and failed statements

ASSUME MigrationsAssumption ==
    /\ N \in Nat
    /\ Embedded \in [Attempts -> 0..N]
    /\ Nobody \notin Attempts
    /\ MaxFaults \in Nat

VARIABLES lock,      \* holder of pg_advisory_lock(727001)
          versions,  \* committed rows of schema_migrations
          schema,    \* the migrations whose SQL was committed, in order
          a,         \* the attempts
          faults     \* lost sessions and failed statements so far

vars == <<lock, versions, schema, a, faults>>

\* "tx" is an open transaction running the SQL and the INSERT; "commit" is
\* that transaction with its COMMIT sent.
Pcs == {"idle", "lock", "table", "check", "tx", "commit", "unlock", "done", "failed"}

Attempt == [pc: Pcs, i: 1..(N + 1), err: BOOLEAN, gone: BOOLEAN]

TypeOK ==
    /\ lock \in Attempts \cup {Nobody}
    /\ versions \in SUBSET (1..N)
    /\ schema \in Seq(1..N)
    /\ a \in [Attempts -> Attempt]
    /\ faults \in 0..MaxFaults

Init ==
    /\ lock = Nobody
    /\ versions = {}
    /\ schema = <<>>
    /\ a = [r \in Attempts |-> [pc |-> "idle", i |-> 1, err |-> FALSE, gone |-> FALSE]]
    /\ faults = 0

Move(r, pc, i, err) ==
    a' = [a EXCEPT ![r] = [pc |-> pc, i |-> i, err |-> err, gone |-> a[r].gone]]
Goto(r, pc) == Move(r, pc, a[r].i, a[r].err)
Fail(r) == Move(r, "unlock", a[r].i, TRUE)

\* The client sends its next statement only while it is there.
Runs(r, pc) == a[r].pc = pc /\ ~a[r].gone

Begin(r) ==
    /\ Runs(r, "idle")
    /\ Goto(r, "lock")
    /\ UNCHANGED <<lock, versions, schema, faults>>

\* Mutant: no advisory lock.
AdvisoryLockSkipped(r) ==
    /\ a[r].pc = "lock"
    /\ lock' = r
    /\ Goto(r, "table")
    /\ UNCHANGED <<versions, schema, faults>>

\* Granted to the session, whether or not its client is still there.
AdvisoryLock(r) ==
    /\ a[r].pc = "lock"
    /\ lock = Nobody
    /\ lock' = r
    /\ Goto(r, "table")
    /\ UNCHANGED <<versions, schema, faults>>

\* CREATE TABLE IF NOT EXISTS schema_migrations.
CreateTable(r) ==
    /\ Runs(r, "table")
    /\ Goto(r, "check")
    /\ UNCHANGED <<lock, versions, schema, faults>>

\* Mutant: the loop runs once too often.
CheckOneMore(r) ==
    /\ Runs(r, "check")
    /\ \/ a[r].i > Embedded[r] + 1 /\ Goto(r, "unlock")
       \/ a[r].i \in versions /\ Move(r, "check", a[r].i + 1, a[r].err)
       \/ a[r].i <= Embedded[r] + 1 /\ a[r].i \notin versions /\ Goto(r, "tx")
    /\ UNCHANGED <<lock, versions, schema, faults>>

\* Mutant: the first recorded version ends the loop.
CheckFirstOnly(r) ==
    /\ Runs(r, "check")
    /\ \/ a[r].i > Embedded[r] /\ Goto(r, "unlock")
       \/ a[r].i \in versions /\ Goto(r, "unlock")
       \/ a[r].i <= Embedded[r] /\ a[r].i \notin versions /\ Goto(r, "tx")
    /\ UNCHANGED <<lock, versions, schema, faults>>

\* One turn of the loop: the next name, and is it recorded already?
Check(r) ==
    /\ Runs(r, "check")
    /\ \/ a[r].i > Embedded[r] /\ Goto(r, "unlock")
       \/ /\ a[r].i <= Embedded[r] /\ a[r].i \in versions
          /\ Move(r, "check", a[r].i + 1, a[r].err)
       \/ /\ a[r].i <= Embedded[r] /\ a[r].i \notin versions
          /\ Goto(r, "tx")
    /\ UNCHANGED <<lock, versions, schema, faults>>

\* The SQL and the INSERT succeeded; BeginFunc sends COMMIT.
RunSql(r) ==
    /\ Runs(r, "tx")
    /\ Goto(r, "commit")
    /\ UNCHANGED <<lock, versions, schema, faults>>

\* Mutant: the INSERT is not part of the transaction and is lost.
CommitUnrecorded(r) ==
    /\ a[r].pc = "commit"
    /\ schema' = Append(schema, a[r].i)
    /\ Move(r, "check", a[r].i + 1, a[r].err)
    /\ UNCHANGED <<lock, versions, faults>>

\* The server commits the SQL and its row together, or refuses: the version
\* is the primary key.
Commit(r) ==
    /\ a[r].pc = "commit"
    /\ \/ /\ a[r].i \notin versions
          /\ versions' = versions \cup {a[r].i}
          /\ schema' = Append(schema, a[r].i)
          /\ Move(r, "check", a[r].i + 1, a[r].err)
       \/ /\ a[r].i \in versions
          /\ Fail(r)
          /\ UNCHANGED <<versions, schema>>
    /\ UNCHANGED <<lock, faults>>

Over == {"done", "failed"}
Outcome(r) == IF a[r].err THEN "failed" ELSE "done"

\* Mutant: the unlock is skipped on the error path; the session goes back to
\* the pool with the lock.
UnlockOnSuccess(r) ==
    /\ Runs(r, "unlock")
    /\ lock' = IF a[r].err THEN lock ELSE Nobody
    /\ Goto(r, Outcome(r))
    /\ UNCHANGED <<versions, schema, faults>>

\* The deferred unlock, run on success and on error.
Unlock(r) ==
    /\ Runs(r, "unlock")
    /\ lock' = Nobody
    /\ Goto(r, Outcome(r))
    /\ UNCHANGED <<versions, schema, faults>>

Fault == faults < MaxFaults /\ faults' = faults + 1

\* A statement fails: the transaction, if any, is rolled back.
StatementFails(r) ==
    /\ \E pc \in {"table", "check", "tx"} : Runs(r, pc)
    /\ Fail(r)
    /\ Fault
    /\ UNCHANGED <<lock, versions, schema>>

\* The process dies or its context is cancelled.
ClientGone(r) ==
    /\ a[r].pc \notin Over \cup {"idle"}
    /\ ~a[r].gone
    /\ a' = [a EXCEPT ![r].gone = TRUE]
    /\ Fault
    /\ UNCHANGED <<lock, versions, schema>>

\* The unlock's error is dropped: Migrate returns as if the lock were free,
\* while the session it broke with still holds it.
UnlockFails(r) ==
    /\ Runs(r, "unlock")
    /\ a' = [a EXCEPT ![r] = [@ EXCEPT !.pc = Outcome(r), !.gone = TRUE]]
    /\ Fault
    /\ UNCHANGED <<lock, versions, schema>>

\* The server notices: an open transaction is rolled back, the lock dropped.
SessionEnds(r) ==
    /\ a[r].gone
    /\ a[r].pc \notin Over \/ lock = r
    /\ Goto(r, IF a[r].pc \in Over THEN a[r].pc ELSE "failed")
    /\ lock' = IF lock = r THEN Nobody ELSE lock
    /\ UNCHANGED <<versions, schema, faults>>

Step(r) ==
    \/ AdvisoryLock(r) \/ CreateTable(r) \/ Check(r) \/ RunSql(r) \/ Commit(r)
    \/ Unlock(r) \/ StatementFails(r) \/ SessionEnds(r)

Next == \E r \in Attempts : Begin(r) \/ Step(r) \/ UnlockFails(r) \/ ClientGone(r)

\* Statements end and the server notices dead clients.  The lock is a queue
\* in PostgreSQL: an attempt that waits is not overtaken for ever.
Fairness == \A r \in Attempts : WF_vars(Step(r)) /\ SF_vars(AdvisoryLock(r))

Spec == Init /\ [][Next]_vars /\ Fairness

-----------------------------------------------------------------------------
(* Properties                                                              *)

\* "Two API replicas starting at once never apply migrations concurrently"
\* (postgres.go:24), not even a replica and the session of a dead one.
OneTransaction ==
    \A r, s \in Attempts :
       a[r].pc \in {"tx", "commit"} /\ a[s].pc \in {"tx", "commit"} => r = s

\* Migrations are committed once each and in filename order (postgres.go:51),
\* and schema_migrations lists exactly those.
InOrder ==
    /\ \A k \in 1..Len(schema) : schema[k] = k
    /\ versions = {schema[k] : k \in 1..Len(schema)}

\* Starting beside others is no reason to fail: Migrate returns an error only
\* when a statement failed or the session was lost.
FailsOnlyOnFault == \A r \in Attempts : (a[r].err \/ a[r].pc = "failed") => faults > 0

\* Migrate returns nil only when everything its binary embeds is committed:
\* the server starts on a complete schema.
DoneIsComplete == \A r \in Attempts : a[r].pc = "done" => Len(schema) >= Embedded[r]

\* No attempt waits for ever, a dead session's lock included.
EveryAttemptEnds ==
    \A r \in Attempts : (a[r].pc # "idle") ~> (a[r].pc \in Over)

Log == INSTANCE MigrationLog WITH N <- N, schema <- schema

\* Whatever the attempts do, the schema only grows by the next migration.
ImplementsLog == Log!Spec
=============================================================================
