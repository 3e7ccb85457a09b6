-------------------------- MODULE ApiProcessProofs --------------------------
(***************************************************************************)
(* Proofs about ApiProcess and the configuration it reads, for any number  *)
(* of requests and any environment: what a clean exit promises, when the   *)
(* publisher may still be added to, and what Load guarantees.              *)
(***************************************************************************)
EXTENDS ApiProcess, TLAPS

(***************************************************************************)
(* Load.                                                                   *)
(***************************************************************************)

Values == {"", "fallback", "given", "path"}

LEMMA SecretNames ==
    Secret = {"DB_PASSWORD", "S3_ACCESS_KEY", "S3_SECRET_KEY"}
BY DEF Secret, File

LEMMA FileNames ==
    Files = {"DB_PASSWORD_FILE", "S3_ACCESS_KEY_FILE", "S3_SECRET_KEY_FILE"}
BY DEF Files, File, Secret

\* No setting is of two kinds, so its kind says who reads it.
LEMMA Readers ==
    ASSUME NEW e, NEW key
    PROVE  /\ key \in Optional => read(e, key) = str(e, key)
           /\ key \in Required => read(e, key) = required(e, key)
           /\ key \in Parsed => read(e, key) = parsed(e, key)
           /\ key \in Secret => read(e, key) = secret(e, key)
           /\ key = Url => read(e, key) = publicEndpoint(e)
<1>1. CASE key \in Optional
  <2>1. key \notin Required \cup Parsed \cup Secret \cup {Url}
    BY <1>1, SecretNames DEF Optional, Required, Parsed, Url
  <2> QED
    BY <1>1, <2>1 DEF read
<1>2. CASE key \in Required
  <2>1. key \notin Optional \cup Parsed \cup Secret \cup {Url}
    BY <1>2, SecretNames DEF Optional, Required, Parsed, Url
  <2> QED
    BY <1>2, <2>1 DEF read
<1>3. CASE key \in Parsed
  <2>1. key \notin Optional \cup Required \cup Secret \cup {Url}
    BY <1>3, SecretNames DEF Optional, Required, Parsed, Url
  <2> QED
    BY <1>3, <2>1 DEF read
<1>4. CASE key \in Secret
  <2>1. key \notin Optional \cup Required \cup Parsed \cup {Url}
    BY <1>4, SecretNames DEF Optional, Required, Parsed, Url
  <2> QED
    BY <1>4, <2>1 DEF read
<1>5. CASE key = Url
  <2>1. key \notin Optional \cup Required \cup Parsed \cup Secret
    BY <1>5, SecretNames DEF Optional, Required, Parsed, Url
  <2> QED
    BY <1>5, <2>1 DEF read
<1> QED
  BY <1>1, <1>2, <1>3, <1>4, <1>5

\* What the reader of a secret can be given.
LEMMA SecretKinds ==
    ASSUME NEW e, IsEnvironment(e), NEW key \in Secret
    PROVE  /\ key \in Names /\ File[key] \in Names
           /\ e[File[key]] \in {"unset", "good", "bad", "blank"}
           /\ e[key] \in {"unset", "good"}
<1>1. key \in Names /\ File[key] \in Files /\ File[key] \in Names
  BY DEF Names, Settings, Files
<1>2. e[File[key]] \in {"unset", "good", "bad", "blank"}
  <2>1. File[key] \notin Parsed \cup {Url}
    BY <1>1, FileNames DEF Parsed, Url
  <2>2. Kinds(File[key]) = {"unset", "good", "bad", "blank"}
    BY <1>1, <2>1 DEF Kinds
  <2> QED
    BY <1>1, <2>2 DEF IsEnvironment
<1>4. key \notin Files \cup Parsed \cup {Url}
  BY FileNames, SecretNames DEF Parsed, Url
<1>5. Kinds(key) = {"unset", "good"}
  BY <1>4 DEF Kinds
<1> QED
  BY <1>1, <1>2, <1>5 DEF IsEnvironment

\* Every reader's value is one of Values.
LEMMA ReadType ==
    ASSUME NEW e, IsEnvironment(e), NEW key \in Settings
    PROVE  read(e, key).value \in Values
<1>1. str(e, key).value \in Values
  BY DEF str, Read, Values
<1>2. required(e, key).value \in Values
  BY DEF required, Read, Values
<1>3. parsed(e, key).value \in Values
  BY DEF parsed, Read, Values
<1>4. publicEndpoint(e).value \in Values
  BY DEF publicEndpoint, required, Read, Values
<1>5. ASSUME key \in Secret PROVE secret(e, key).value \in Values
  <2>1. e[File[key]] \in {"unset", "good", "bad", "blank"}
    BY <1>5, SecretKinds
  <2> QED
    BY <2>1, <1>2 DEF secret, Read, Values
<1> QED
  BY <1>1, <1>2, <1>3, <1>4, <1>5, Readers DEF Settings

LEMMA LoadValues ==
    ASSUME NEW e, IsEnvironment(e), NEW key \in Settings
    PROVE  Load(e).cfg[key] \in Values
BY ReadType DEF Load

LEMMA LoadErrs ==
    ASSUME NEW e
    PROVE  Load(e).errs = UNION {read(e, key).errs : key \in Settings}
BY DEF Load

\* No error: every reader was content.
LEMMA NoErrIsComplete ==
    ASSUME NEW e, IsEnvironment(e), Load(e).errs = {}
    PROVE  Complete(e)
<1>1. ASSUME NEW key \in Settings PROVE read(e, key).errs = {}
  BY LoadErrs
<1>2. ASSUME NEW key \in Required PROVE e[key] # "unset"
  <2>1. required(e, key).errs = {}
    BY <1>1, Readers DEF Settings
  <2> QED
    BY <2>1 DEF required, Read
<1>3. ASSUME NEW key \in Parsed PROVE e[key] # "bad"
  <2>1. parsed(e, key).errs = {}
    BY <1>1, Readers DEF Settings
  <2> QED
    BY <2>1 DEF parsed, Read
<1>4. e[Url] # "unset" /\ e[Url] # "bad"
  <2>1. publicEndpoint(e).errs = {}
    BY <1>1, Readers DEF Settings
  <2> QED
    BY <2>1 DEF publicEndpoint, required, Read
<1>5. ASSUME NEW key \in Secret
      PROVE  e[File[key]] \in {"good", "blank"} \/ (e[File[key]] = "unset" /\ e[key] = "good")
  <2>1. secret(e, key).errs = {}
    BY <1>1, Readers DEF Settings
  <2> QED
    BY <2>1, SecretKinds DEF secret, required, Read
<1> QED
  BY <1>2, <1>3, <1>4, <1>5 DEF Complete

\* A reader is content once what was reported, by it or by another reader,
\* is set right.
LEMMA CorrectedReads ==
    ASSUME NEW e, IsEnvironment(e), NEW key \in Settings
    PROVE  read(Corrected(e), key).errs = {}
<1> DEFINE c == Corrected(e)
<1>1. \A n \in Names : c[n] = IF n \in Load(e).errs THEN "good" ELSE e[n]
  BY DEF Corrected
<1>2. read(e, key).errs \subseteq Load(e).errs
  BY LoadErrs
<1> HIDE DEF c
<1> SUFFICES read(c, key).errs = {}
  BY DEF c
<1>3. key \in Names
  BY DEF Names
<1>4. CASE key \in Optional
  BY <1>4, Readers DEF str, Read
<1>5. required(e, key).errs \subseteq Load(e).errs => required(c, key).errs = {}
  <2>1. CASE e[key] = "unset"
    <3>1. required(e, key).errs = {key}
      BY <2>1 DEF required, Read
    <3>2. required(e, key).errs \subseteq Load(e).errs => c[key] = "good"
      BY <1>1, <1>3, <3>1
    <3> QED
      BY <3>2 DEF required, Read
  <2>2. CASE e[key] # "unset"
    <3>1. c[key] # "unset"
      BY <1>1, <1>3, <2>2
    <3> QED
      BY <3>1 DEF required, Read
  <2> QED
    BY <2>1, <2>2
<1>6. CASE key \in Parsed
  <2>1. parsed(e, key).errs \subseteq Load(e).errs
    BY <1>2, <1>6, Readers
  <2>2. c[key] # "bad"
    <3>1. CASE e[key] = "bad"
      <4>1. parsed(e, key).errs = {key}
        BY <3>1 DEF parsed, Read
      <4> QED
        BY <1>1, <1>3, <2>1, <4>1
    <3> QED
      BY <1>1, <1>3, <3>1
  <2>3. parsed(c, key).errs = {}
    BY <2>2 DEF parsed, Read
  <2> QED
    BY <1>6, <2>3, Readers
<1>7. CASE key \in Secret
  <2>1. secret(e, key).errs \subseteq Load(e).errs
    BY <1>2, <1>7, Readers
  <2>2. File[key] \in Names /\ e[File[key]] \in {"unset", "good", "bad", "blank"}
    BY <1>7, SecretKinds
  <2>3. secret(c, key).errs = {}
    <3>1. CASE c[File[key]] = "unset"
      <4>1. e[File[key]] = "unset"
        BY <1>1, <2>2, <3>1
      <4>2. secret(e, key) = required(e, key) /\ secret(c, key) = required(c, key)
        BY <3>1, <4>1 DEF secret
      <4> QED
        BY <1>5, <2>1, <4>2
    <3>2. CASE c[File[key]] = "bad"
      <4>1. e[File[key]] = "bad"
        BY <1>1, <2>2, <3>2
      <4>2. secret(e, key).errs = {File[key]}
        BY <4>1 DEF secret, Read
      <4> QED
        BY <1>1, <2>1, <2>2, <3>2, <4>2
    <3>3. CASE c[File[key]] \in {"blank", "good"}
      BY <3>3 DEF secret, Read
    <3> QED
      BY <1>1, <2>2, <3>1, <3>2, <3>3
  <2> QED
    BY <1>7, <2>3, Readers
<1>8. CASE key = Url
  <2>1. publicEndpoint(e).errs \subseteq Load(e).errs
    BY <1>2, <1>8, Readers
  <2>2. publicEndpoint(c).errs = {}
    <3>1. CASE e[Url] = "bad"
      <4>1. publicEndpoint(e).errs = {Url}
        BY <3>1 DEF publicEndpoint, Read
      <4>2. c[Url] = "good"
        BY <1>1, <1>3, <1>8, <2>1, <4>1
      <4> QED
        BY <4>2 DEF publicEndpoint, required, Read
    <3>2. CASE e[Url] = "path"
      <4>1. c[Url] \in {"good", "path"}
        BY <1>1, <1>3, <1>8, <3>2
      <4> QED
        BY <4>1 DEF publicEndpoint, required, Read
    <3>3. CASE e[Url] \notin {"bad", "path"}
      <4>1. publicEndpoint(e) = required(e, Url)
        BY <3>3 DEF publicEndpoint
      <4>2. c[Url] \notin {"bad", "path"}
        BY <1>1, <1>3, <1>8, <3>3
      <4>3. publicEndpoint(c) = required(c, Url)
        BY <4>2 DEF publicEndpoint
      <4> QED
        BY <1>5, <1>8, <2>1, <4>1, <4>3
    <3> QED
      BY <3>1, <3>2, <3>3
  <2> QED
    BY <1>8, <2>2, Readers
<1>9. CASE key \in Required
  BY <1>2, <1>5, <1>9, Readers
<1> QED
  BY <1>4, <1>6, <1>7, <1>8, <1>9 DEF Settings

LEMMA CorrectedIsFine ==
    ASSUME NEW e, IsEnvironment(e)
    PROVE  Load(Corrected(e)).errs = {}
BY CorrectedReads, LoadErrs

\* The environment a process no longer needs is still one.
LEMMA SpentIsEnvironment == IsEnvironment(Spent)
<1> SUFFICES ASSUME NEW name \in Names PROVE "unset" \in Kinds(name)
  BY DEF IsEnvironment, Spent
<1>1. CASE name \in Files
  <2>1. name \notin Parsed \cup {Url}
    BY <1>1, FileNames DEF Parsed, Url
  <2> QED
    BY <1>1, <2>1 DEF Kinds
<1>2. CASE name \in Parsed
  <2>1. name \notin Files \cup {Url}
    BY <1>2, FileNames DEF Parsed, Url
  <2> QED
    BY <1>2, <2>1 DEF Kinds
<1>3. CASE name = Url
  <2>1. name \notin Files \cup Parsed
    BY <1>3, FileNames DEF Parsed, Url
  <2> QED
    BY <1>3, <2>1 DEF Kinds
<1>4. CASE name \notin Files \cup Parsed \cup {Url}
  BY <1>4 DEF Kinds
<1> QED
  BY <1>1, <1>2, <1>3, <1>4

(***************************************************************************)
(* The process.  Once the listener is closed no handler begins, so what    *)
(* Shutdown saw idle stays idle, and what Wait saw drained stays drained.  *)
(***************************************************************************)

Starting == {"config", "connect", "migrate", "storage"}

Inv ==
    /\ TypeOK
    /\ phase \in Starting => \A r \in Requests : req[r] = "none" /\ event[r] = "none"
    /\ phase = "wait" /\ ~(expired /\ failed) => Idle
    /\ phase = "close" /\ ~failed => Idle /\ (expired \/ Drained)
    /\ phase = "return" /\ ~failed => Idle /\ (expired \/ Drained)
    /\ phase = "return" => \A r \in Requests : req[r] # "query"
    /\ CleanExitSentAll
    /\ NoExitInQuery

LEMMA InitInv == Init => Inv
BY ProcessAssumption
   DEF Init, Inv, TypeOK, Phases, NoCfg, Starting, CleanExitSentAll, NoExitInQuery

LEMMA NextInv == Inv /\ [Next]_vars => Inv'
<1> SUFFICES ASSUME Inv, [Next]_vars PROVE Inv'
  OBVIOUS
<1> USE DEF Inv, TypeOK, Phases, Starting, Idle, Drained, CleanExitSentAll, NoExitInQuery,
            Alive, Exit
<1>1. ASSUME LoadConfig PROVE Inv'
  <2>1. IsEnvironment(env')
    BY <1>1, SpentIsEnvironment DEF LoadConfig
  <2>2. cfg' \in [Kept -> {"", "fallback", "given", "path"}]
    <3>1. Kept \subseteq Settings
      BY SecretNames DEF Kept, Settings, Optional, Url
    <3>2. \A key \in Kept : Load(env).cfg[key] \in {"", "fallback", "given", "path"}
      BY <3>1, LoadValues DEF Values
    <3> QED
      BY <1>1, <3>2 DEF LoadConfig
  <2> QED
    BY <1>1, <2>1, <2>2 DEF LoadConfig
<1>2. ASSUME Connect PROVE Inv'
  BY <1>2 DEF Connect
<1>3. ASSUME ConnectFails PROVE Inv'
  BY <1>3 DEF ConnectFails
<1>4. ASSUME ConnectDeadline PROVE Inv'
  BY <1>4 DEF ConnectDeadline
<1>5. ASSUME Migrated PROVE Inv'
  BY <1>5 DEF Migrated
<1>6. ASSUME StartFails PROVE Inv'
  BY <1>6 DEF StartFails
<1>7. ASSUME StorageNew PROVE Inv'
  BY <1>7 DEF StorageNew
<1>8. ASSUME NEW r \in Requests, Accept(r) PROVE Inv'
  BY <1>8 DEF Accept
<1>22. ASSUME NEW r \in Requests, Begin(r) PROVE Inv'
  BY <1>22 DEF Begin, PoolIsClosed
<1>23. ASSUME Return PROVE Inv'
  BY <1>23 DEF Return
<1>9. ASSUME NEW r \in Requests, QueryEnds(r) PROVE Inv'
  BY <1>9 DEF QueryEnds
<1>10. ASSUME NEW r \in Requests, Publish(r) PROVE Inv'
  BY <1>10 DEF Publish
<1>11. ASSUME NEW r \in Requests, Respond(r) PROVE Inv'
  BY <1>11 DEF Respond
<1>12. ASSUME NEW r \in Requests, SendReturns(r) PROVE Inv'
  BY <1>12 DEF SendReturns
<1>13. ASSUME ListenFails PROVE Inv'
  BY <1>13 DEF ListenFails
<1>14. ASSUME Signal PROVE Inv'
  BY <1>14 DEF Signal
<1>15. ASSUME BeginShutdown PROVE Inv'
  BY <1>15 DEF BeginShutdown
<1>16. ASSUME ShutdownExpires PROVE Inv'
  BY <1>16 DEF ShutdownExpires
<1>17. ASSUME ShutdownReturns PROVE Inv'
  BY <1>17 DEF ShutdownReturns
<1>18. ASSUME WaitReturns PROVE Inv'
  BY <1>18 DEF WaitReturns
<1>19. ASSUME CloseReturns PROVE Inv'
  BY <1>19 DEF CloseReturns
<1>20. ASSUME SigKill PROVE Inv'
  BY <1>20 DEF SigKill
<1>21. CASE UNCHANGED vars
  BY <1>21 DEF vars
<1> QED
  BY <1>1, <1>2, <1>3, <1>4, <1>5, <1>6, <1>7, <1>8, <1>9, <1>10, <1>11, <1>12,
     <1>13, <1>14, <1>15, <1>16, <1>17, <1>18, <1>19, <1>20, <1>21,
     <1>22, <1>23
     DEF Next, Main, Handle

THEOREM Invariance == Spec => []Inv
BY InitInv, NextInv, PTL DEF Spec

(***************************************************************************)
(* Theorems.                                                               *)
(***************************************************************************)

\* The type invariant: whatever Load makes of an environment is a value the
\* later steps know.
THEOREM TypeCorrect == Spec => []TypeOK
BY Invariance, PTL DEF Inv

\* An exit with status 0 within the shutdown budget left no handler under
\* way and no event unsent.
THEOREM CleanExitLosesNothing == Spec => []CleanExitSentAll
BY Invariance, PTL DEF Inv

\* While Wait waits, within the budget, no handler is about to Publish.
THEOREM NothingIsAddedDuringWait == Spec => []NoAddDuringWait
<1>1. Inv => NoAddDuringWait
  BY DEF Inv, NoAddDuringWait, Idle
<1> QED
  BY <1>1, Invariance, PTL

\* SIGKILL apart, the process does not end while a handler is in a query: Close
\* leaves none, and admits none between its return and the exit.
THEOREM NoStatementIsCutOff == Spec => []NoExitInQuery
BY Invariance, PTL DEF Inv

\* A report of Load is complete: what it names corrected, the next start
\* gets past it.
THEOREM ReportsAreComplete == Spec => []OneReportIsEnough
<1>1. Inv => OneReportIsEnough
  BY CorrectedIsFine DEF Inv, TypeOK, OneReportIsEnough
<1> QED
  BY <1>1, Invariance, PTL

\* No process goes past Load without every required setting and secret.
THEOREM StartsAreComplete == Spec => StartsComplete
<1>1. Inv /\ [Next]_vars => [phase = "config" /\ code' = "" => Complete(env)]_vars
  <2> SUFFICES ASSUME Inv, Next, phase = "config", code' = ""
               PROVE  Complete(env)
    OBVIOUS
  <2>1. LoadConfig
    <3>1. \A r \in Requests : req[r] = "none" /\ event[r] = "none"
      BY DEF Inv, Starting
    <3>2. \A r \in Requests : ~Accept(r) /\ ~Handle(r) /\ ~SendReturns(r)
      BY <3>1 DEF Accept, Handle, Begin, QueryEnds, Publish, Respond, SendReturns
    <3>3. ~SigKill /\ ~Signal
      BY DEF SigKill, Signal, Exit
    <3> QED
      BY <3>2, <3>3
         DEF Next, Main, ConnectFails, Migrated, StartFails, StorageNew, BeginShutdown,
             ShutdownReturns, WaitReturns, CloseReturns, Return, Connect, ConnectDeadline,
             ShutdownExpires, ListenFails
  <2> QED
    BY <2>1, NoErrIsComplete DEF LoadConfig, Exit, Inv, TypeOK
<1> QED
  BY <1>1, Invariance, PTL DEF Spec, StartsComplete
=============================================================================
