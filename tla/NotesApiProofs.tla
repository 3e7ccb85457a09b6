--------------------------- MODULE NotesApiProofs ---------------------------
(***************************************************************************)
(* Proofs about NotesApi: its safety properties for every set of notes,    *)
(* keys and connections and every number of faults, and the step           *)
(* simulation that makes it an implementation of AttachmentStore.          *)
(***************************************************************************)
EXTENDS NotesApi, TLAPS

(***************************************************************************)
(* The inductive invariant.  AttachmentStored alone is not inductive: that *)
(* a handler about to run SetAttachment or Storage.Delete does no harm     *)
(* follows from what it read before, which the parts below remember.       *)
(***************************************************************************)

\* A handler's key and the attachment it read are its own note's.
HandlerShape ==
    \A c \in Conns :
       /\ h[c].pc = "publish" => h[c].id \in NoteIds
       /\ h[c].pc \in {"stat", "set", "drop"} =>
             /\ h[c].id \in NoteIds
             /\ h[c].key \in Keys
             /\ Owner[h[c].key] = h[c].id
             /\ row[h[c].id] # "absent"
             /\ h[c].prev \in Keys => Owner[h[c].prev] = h[c].id
       /\ h[c].pc = "drop" => h[c].prev \in Keys /\ h[c].prev # h[c].key
       /\ h[c].pc = "remove" => h[c].prev \in Keys /\ row[Owner[h[c].prev]] = "deleted"

\* A note that is not contended has one confirmation in flight at most.
OneConfirmation ==
    \A c, d \in Conns, n \in NoteIds \ contended :
       Confirming(c, n) /\ Confirming(d, n) => c = d

\* The object that was found is still there when it is recorded.
StatStillTrue ==
    \A c \in Conns :
       (h[c].pc = "set" /\ h[c].id \notin contended /\ row[h[c].id] = "live")
          => h[c].key \in objects

\* The attachment that was read is still the note's until it is replaced.
ReadStillTrue ==
    \A c \in Conns :
       (h[c].pc \in {"stat", "set"} /\ h[c].id \notin contended /\ row[h[c].id] = "live")
          => h[c].prev = att[h[c].id]

\* What is about to be deleted has been replaced.
DropIsReplaced ==
    \A c \in Conns :
       (h[c].pc = "drop" /\ h[c].id \notin contended /\ row[h[c].id] = "live")
          => att[h[c].id] = h[c].key

\* The inductive invariant is TypeOK /\ Parts.
Parts ==
    /\ HandlerShape
    /\ ReferenceIsOwn
    /\ AttachmentStored
    /\ OneConfirmation
    /\ StatStillTrue
    /\ ReadStillTrue
    /\ DropIsReplaced

\* The abbreviations every step is written with.
USE DEF Handler, Pcs, At, Idle, Done, Fault, Confirming, Replaces

-----------------------------------------------------------------------------
(* Type correctness                                                        *)

LEMMA InitType == Init => TypeOK
BY NotesAssumption DEF Init, TypeOK

LEMMA NextType == TypeOK /\ HandlerShape /\ [Next]_vars => TypeOK'
<1> SUFFICES ASSUME TypeOK, HandlerShape, [Next]_vars PROVE TypeOK'
  OBVIOUS
<1> USE NotesAssumption DEF TypeOK
<1>1. ASSUME NEW c \in Conns, Step(c) PROVE TypeOK'
  <2>1. CASE PublishCreated(c)
    BY <2>1 DEF PublishCreated, HandlerShape
  <2>2. CASE RemoveObject(c)
    BY <2>2 DEF RemoveObject
  <2>3. CASE ConfirmStat(c)
    BY <2>3 DEF ConfirmStat
  <2>4. CASE ConfirmSet(c)
    BY <2>4 DEF ConfirmSet, SetAttachment, HandlerShape
  <2>5. CASE ConfirmGone(c)
    BY <2>5 DEF ConfirmGone
  <2>6. CASE ConfirmSetLost(c)
    BY <2>6 DEF ConfirmSetLost, SetAttachment, HandlerShape
  <2>7. CASE Abort(c)
    BY <2>7 DEF Abort
  <2> QED
    BY <1>1, <2>1, <2>2, <2>3, <2>4, <2>5, <2>6, <2>7 DEF Step
<1>2. ASSUME NEW c \in Conns, NEW n \in NoteIds, Request(c, n) PROVE TypeOK'
  <2>1. CASE CreateNote(c, n)
    BY <2>1 DEF CreateNote, Insert
  <2>2. CASE CreateLost(c, n)
    BY <2>2 DEF CreateLost, Insert
  <2>3. CASE DeleteNote(c, n)
    BY <2>3 DEF DeleteNote, DeleteReturning
  <2>4. CASE DeleteLost(c, n)
    BY <2>4 DEF DeleteLost, DeleteReturning
  <2>5. CASE \E k \in Keys : ConfirmGet(c, n, k)
    BY <2>5 DEF ConfirmGet
  <2> QED
    BY <1>2, <2>1, <2>2, <2>3, <2>4, <2>5 DEF Request
<1>3. ASSUME NEW n \in NoteIds, NEW k \in Keys, PresignAttachmentUpload(n, k) PROVE TypeOK'
  BY <1>3 DEF PresignAttachmentUpload
<1>4. ASSUME NEW k \in Keys, Upload(k) \/ Expire(k) PROVE TypeOK'
  BY <1>4 DEF Upload, Expire
<1>5. CASE UNCHANGED vars
  BY <1>5 DEF vars
<1> QED
  BY <1>1, <1>2, <1>3, <1>4, <1>5 DEF Next

-----------------------------------------------------------------------------
(* Preservation of the invariant, one lemma per kind of step.              *)

\* The parts lean on each other, so every leaf below may look into all of them.
USE DEF Parts, TypeOK, HandlerShape, ReferenceIsOwn, AttachmentStored,
        OneConfirmation, StatStillTrue, ReadStillTrue, DropIsReplaced

LEMMA InitParts == Init => Parts
BY NotesAssumption DEF Init

\* A handler ends and nothing else happens.
LEMMA EndKeepsParts ==
    ASSUME TypeOK, Parts, NEW c \in Conns, Done(c), UNCHANGED store
    PROVE  Parts'
BY NotesAssumption DEF store

\* A step no handler and no stored state takes part in.
LEMMA StutterKeepsParts ==
    ASSUME TypeOK, Parts, UNCHANGED h, UNCHANGED store
    PROVE  Parts'
BY DEF store

LEMMA InsertKeepsParts ==
    ASSUME TypeOK, Parts, NEW c \in Conns, NEW n \in NoteIds,
           CreateNote(c, n) \/ CreateLost(c, n)
    PROVE  Parts'
<1>1. CASE CreateNote(c, n)
  BY <1>1, NotesAssumption DEF CreateNote, Insert
<1>2. CASE CreateLost(c, n)
  BY <1>2, NotesAssumption DEF CreateLost, Insert
<1> QED
  BY <1>1, <1>2

LEMMA DeleteKeepsParts ==
    ASSUME TypeOK, Parts, NEW c \in Conns, NEW n \in NoteIds,
           DeleteNote(c, n) \/ DeleteLost(c, n)
    PROVE  Parts'
<1>1. CASE DeleteNote(c, n)
  BY <1>1, NotesAssumption DEF DeleteNote, DeleteReturning
<1>2. CASE DeleteLost(c, n)
  BY <1>2, NotesAssumption DEF DeleteLost, DeleteReturning
<1> QED
  BY <1>1, <1>2

\* The object that goes is one no uncontended note references or is about to
\* reference: its note is deleted, or has replaced it and has no second
\* confirmation in flight.
LEMMA RemoveIsHarmless ==
    ASSUME TypeOK, Parts, NEW c \in Conns, RemoveObject(c)
    PROVE  /\ h[c].prev \in Keys
           /\ Owner[h[c].prev] \notin contended =>
                 /\ \A n \in NoteIds : att[n] # h[c].prev
                 /\ \A d \in Conns \ {c} :
                       h[d].pc = "set" /\ row[h[d].id] = "live" => h[d].key # h[c].prev
<1>1. CASE h[c].pc = "remove"
  <2>1. h[c].prev \in Keys /\ row[Owner[h[c].prev]] = "deleted"
    BY <1>1
  <2>2. \A n \in NoteIds : att[n] # h[c].prev
    <3> SUFFICES ASSUME NEW n \in NoteIds, att[n] = h[c].prev PROVE FALSE
      OBVIOUS
    <3>1. row[n] = "live" /\ Owner[att[n]] = n
      BY <2>1, NotesAssumption
    <3> QED
      BY <2>1, <3>1
  <2>3. ASSUME NEW d \in Conns, h[d].pc = "set", row[h[d].id] = "live"
        PROVE  h[d].key # h[c].prev
    <3>1. Owner[h[d].key] = h[d].id
      BY <2>3
    <3> QED
      BY <2>1, <2>3, <3>1
  <2> QED
    BY <2>1, <2>2, <2>3
<1>2. CASE h[c].pc = "drop"
  <2>1. ASSUME Owner[h[c].prev] \notin contended, NEW n \in NoteIds, att[n] = h[c].prev
        PROVE  FALSE
    <3>1. n = h[c].id /\ row[n] = "live"
      BY <1>2, <2>1, NotesAssumption
    <3>2. att[n] = h[c].key
      BY <1>2, <2>1, <3>1
    <3>3. h[c].prev # h[c].key
      BY <1>2
    <3> QED
      BY <2>1, <3>2, <3>3
  <2>2. ASSUME Owner[h[c].prev] \notin contended, NEW d \in Conns \ {c},
               h[d].pc = "set", row[h[d].id] = "live", h[d].key = h[c].prev
        PROVE  FALSE
    <3>1. h[d].id = h[c].id /\ h[c].id \in NoteIds \ contended
      BY <1>2, <2>2
    <3> QED
      BY <1>2, <2>2, <3>1
  <2> QED
    BY <1>2, <2>1, <2>2
<1> QED
  BY <1>1, <1>2 DEF RemoveObject

LEMMA RemoveKeepsParts ==
    ASSUME TypeOK, Parts, NEW c \in Conns, RemoveObject(c)
    PROVE  Parts'
BY RemoveIsHarmless, NotesAssumption DEF RemoveObject

LEMMA UploadKeepsParts ==
    ASSUME TypeOK, Parts, NEW k \in Keys, Upload(k)
    PROVE  Parts'
BY DEF Upload

LEMMA ConfirmGetKeepsParts ==
    ASSUME TypeOK, Parts, NEW c \in Conns, NEW n \in NoteIds, NEW k \in Keys,
           ConfirmGet(c, n, k)
    PROVE  Parts'
BY NotesAssumption DEF ConfirmGet

LEMMA StatKeepsParts ==
    ASSUME TypeOK, Parts, NEW c \in Conns, ConfirmStat(c)
    PROVE  Parts'
<1>1. h[c].pc = "stat" /\ UNCHANGED <<row, att, objects, contended>>
  BY DEF ConfirmStat
<1>2. CASE h[c].key \in objects /\ h' = [h EXCEPT ![c].pc = "set"]
  <2>1. h' = [h EXCEPT ![c] = [h[c] EXCEPT !.pc = "set"]]
    BY <1>2
  <2>2. h[c] \in Handler
    OBVIOUS
  <2>3. h'[c].pc = "set" /\ h'[c].id = h[c].id /\ h'[c].key = h[c].key /\ h'[c].prev = h[c].prev
    BY <2>1, <2>2
  <2>4. \A d \in Conns \ {c} : h'[d] = h[d]
    BY <2>1
  <2> QED
    BY <1>1, <1>2, <2>3, <2>4
<1>3. CASE Done(c)
  BY <1>1, <1>3
<1> QED
  BY <1>2, <1>3 DEF ConfirmStat

LEMMA SetKeepsParts ==
    ASSUME TypeOK, Parts, NEW c \in Conns, ConfirmSet(c) \/ ConfirmSetLost(c)
    PROVE  Parts'
<1>1. /\ h[c].pc = "set" /\ row[h[c].id] = "live" /\ UNCHANGED <<row, objects, contended>>
      /\ att' = [att EXCEPT ![h[c].id] = h[c].key]
  BY DEF ConfirmSet, ConfirmSetLost, SetAttachment
<1>2. CASE h[c].prev \notin {NoKey, h[c].key} /\ h' = [h EXCEPT ![c].pc = "drop"]
  <2>1. h' = [h EXCEPT ![c] = [h[c] EXCEPT !.pc = "drop"]]
    BY <1>2
  <2>2. h[c] \in Handler
    OBVIOUS
  <2>3. h'[c].pc = "drop" /\ h'[c].id = h[c].id /\ h'[c].key = h[c].key /\ h'[c].prev = h[c].prev
    BY <2>1, <2>2
  <2>4. \A d \in Conns \ {c} : h'[d] = h[d]
    BY <2>1
  <2> QED
    BY <1>1, <1>2, <2>2, <2>3, <2>4, NotesAssumption
<1>3. CASE Done(c)
  BY <1>1, <1>3, NotesAssumption
<1> QED
  BY <1>2, <1>3 DEF ConfirmSet, ConfirmSetLost

LEMMA NextParts == TypeOK /\ Parts /\ [Next]_vars => Parts'
<1> SUFFICES ASSUME TypeOK, Parts, [Next]_vars PROVE Parts'
  OBVIOUS
<1>1. ASSUME NEW c \in Conns, Step(c) PROVE Parts'
  <2>1. CASE PublishCreated(c)
    BY <2>1, EndKeepsParts DEF PublishCreated, store
  <2>2. CASE RemoveObject(c)
    BY <2>2, RemoveKeepsParts
  <2>3. CASE ConfirmStat(c)
    BY <2>3, StatKeepsParts
  <2>4. CASE ConfirmSet(c) \/ ConfirmSetLost(c)
    BY <2>4, SetKeepsParts
  <2>5. CASE ConfirmGone(c)
    BY <2>5, EndKeepsParts DEF ConfirmGone, store
  <2>6. CASE Abort(c)
    BY <2>6, EndKeepsParts DEF Abort, store
  <2> QED
    BY <1>1, <2>1, <2>2, <2>3, <2>4, <2>5, <2>6 DEF Step
<1>2. ASSUME NEW c \in Conns, NEW n \in NoteIds, Request(c, n) PROVE Parts'
  <2>1. CASE CreateNote(c, n) \/ CreateLost(c, n)
    BY <2>1, InsertKeepsParts
  <2>2. CASE DeleteNote(c, n) \/ DeleteLost(c, n)
    BY <2>2, DeleteKeepsParts
  <2>3. CASE \E k \in Keys : ConfirmGet(c, n, k)
    BY <2>3, ConfirmGetKeepsParts
  <2> QED
    BY <1>2, <2>1, <2>2, <2>3 DEF Request
<1>3. ASSUME NEW n \in NoteIds, NEW k \in Keys, PresignAttachmentUpload(n, k) PROVE Parts'
  BY <1>3, StutterKeepsParts DEF PresignAttachmentUpload, store
<1>4. ASSUME NEW k \in Keys, Upload(k) \/ Expire(k) PROVE Parts'
  BY <1>4, UploadKeepsParts, StutterKeepsParts DEF Expire, store
<1>5. CASE UNCHANGED vars
  BY <1>5, StutterKeepsParts DEF vars, store
<1> QED
  BY <1>1, <1>2, <1>3, <1>4, <1>5 DEF Next

-----------------------------------------------------------------------------
(* Theorems                                                                *)

\* In every behaviour of the handlers the inductive invariant holds.
THEOREM Invariance == Spec => [](TypeOK /\ Parts)
<1>1. Init => TypeOK /\ Parts
  BY InitType, InitParts
<1>2. TypeOK /\ Parts /\ [Next]_vars => (TypeOK /\ Parts)'
  BY NextType, NextParts
<1> QED
  BY <1>1, <1>2, PTL DEF Spec

\* The variables keep their types: a handler's record is always one of
\* those server.go's handlers can be in, and its note and key exist.
THEOREM TypeCorrect == Spec => []TypeOK
BY Invariance, PTL

\* A note references only a key of its own prefix, and only while it is live
\* (the prefix check of confirmAttachment, server.go:193).
THEOREM ReferencesAreOwn == Spec => []ReferenceIsOwn
<1>1. Parts => ReferenceIsOwn
  BY DEF Parts
<1> QED
  BY <1>1, Invariance, PTL

\* The attachment of a note whose confirmations never overlapped is in the
\* bucket, for any number of requests and faults (server.go:198-218).
THEOREM AttachmentsAreStored == Spec => []AttachmentStored
<1>1. Parts => AttachmentStored
  BY DEF Parts
<1> QED
  BY <1>1, Invariance, PTL

\* A step that drops the last mention of an object leaves a handler that
\* deletes it.  Only a deletion and a confirmation change what a note
\* references, and the confirmation replaces what it read (ReadStillTrue).
LEMMA NextDropped ==
    ASSUME TypeOK, Parts, [Next]_vars, NEW n \in NoteIds \ contended, NEW k \in Keys,
           att[n] = k, att'[n] # k, faults' = faults
    PROVE  Owed(k)'
<1> USE DEF Owed
<1>1. ASSUME NEW c \in Conns, NEW m \in NoteIds, DeleteNote(c, m) PROVE Owed(k)'
  <2>1. m = n /\ h'[c] = At("remove", n, NoKey, k)
    BY <1>1, NotesAssumption DEF DeleteNote, DeleteReturning
  <2> QED
    BY <2>1
<1>2. ASSUME NEW c \in Conns, ConfirmSet(c) PROVE Owed(k)'
  <2>1. h[c].id = n /\ h[c].prev = k
    BY <1>2 DEF ConfirmSet, SetAttachment
  <2>2. h[c].key # k
    BY <1>2, <2>1 DEF ConfirmSet, SetAttachment
  <2>3. h' = [h EXCEPT ![c].pc = "drop"]
    BY <1>2, <2>1, <2>2, NotesAssumption DEF ConfirmSet
  <2> QED
    BY <2>1, <2>3
<1>3. ASSUME NEW c \in Conns, Step(c), ~ConfirmSet(c) PROVE att' = att
  BY <1>3 DEF Step, PublishCreated, RemoveObject, ConfirmStat, ConfirmGone,
              ConfirmSetLost, Abort
<1>4. ASSUME NEW c \in Conns, NEW m \in NoteIds, Request(c, m), ~DeleteNote(c, m)
      PROVE  att' = att
  BY <1>4 DEF Request, CreateNote, CreateLost, Insert, DeleteLost, ConfirmGet
<1> QED
  BY <1>1, <1>2, <1>3, <1>4
     DEF Next, PresignAttachmentUpload, Upload, Expire, vars

\* No step forgets an object: what stops being referenced is being deleted,
\* unless the note's confirmations overlapped or a call failed
\* (server.go:185, "a replaced attachment's previous object is deleted").
THEOREM DroppedAreOwed == Spec => DroppedIsOwed
<1>1. TypeOK /\ Parts /\ [Next]_vars =>
        [ \A n \in NoteIds \ contended, k \in Keys :
            (att[n] = k /\ att'[n] # k /\ faults' = faults) => Owed(k)' ]_vars
  BY NextDropped
<1> QED
  BY <1>1, Invariance, PTL DEF Spec, DroppedIsOwed

LEMMA NextDeleted ==
    ASSUME TypeOK, Parts, [Next]_vars, NEW n \in NoteIds, row[n] = "deleted"
    PROVE  row'[n] = "deleted" /\ att'[n] = NoKey
<1>1. att[n] = NoKey
  BY NotesAssumption
<1>2. ASSUME NEW c \in Conns, Step(c) PROVE row'[n] = "deleted" /\ att'[n] = NoKey
  BY <1>1, <1>2 DEF Step, PublishCreated, RemoveObject, ConfirmStat, ConfirmSet,
                    ConfirmGone, ConfirmSetLost, SetAttachment, Abort
<1>3. ASSUME NEW c \in Conns, NEW m \in NoteIds, Request(c, m)
      PROVE  row'[n] = "deleted" /\ att'[n] = NoKey
  BY <1>1, <1>3 DEF Request, CreateNote, CreateLost, Insert, DeleteNote, DeleteLost,
                    DeleteReturning, ConfirmGet
<1> QED
  BY <1>1, <1>2, <1>3 DEF Next, PresignAttachmentUpload, Upload, Expire, vars

\* A deleted note stays deleted, whatever confirmation was under way
\* (SetAttachment is an UPDATE, postgres.go:168).
THEOREM DeletedStayDeleted == Spec => DeletedForGood
<1>1. TypeOK /\ Parts /\ [Next]_vars =>
        [ \A n \in NoteIds : row[n] = "deleted" => row'[n] = "deleted" /\ att'[n] = NoKey ]_vars
  BY NextDeleted
<1> QED
  BY <1>1, Invariance, PTL DEF Spec, DeletedForGood

-----------------------------------------------------------------------------
(* Refinement: every step of the handlers is a step of the abstract store, *)
(* or leaves it alone.                                                     *)

LEMMA InitRefines == Init => Promise!Init
BY DEF Init, Promise!Init

LEMMA NextRefines ==
    ASSUME TypeOK, Parts, [Next]_vars
    PROVE  [Promise!Next]_store
<1> USE DEF store
<1>1. ASSUME NEW c \in Conns, RemoveObject(c) PROVE Promise!Discard(h[c].prev) /\ h[c].prev \in Keys
  BY <1>1, RemoveIsHarmless DEF RemoveObject, Promise!Discard
<1>2. ASSUME NEW c \in Conns, SetAttachment(c)
      PROVE  /\ Promise!Attach(h[c].id, h[c].key)
             /\ h[c].id \in NoteIds /\ h[c].key \in Keys
  BY <1>2 DEF SetAttachment, Promise!Attach
<1>3. ASSUME NEW c \in Conns, Step(c) PROVE [Promise!Next]_store
  BY <1>1, <1>2, <1>3 DEF Step, PublishCreated, ConfirmStat, ConfirmSet, ConfirmGone,
                          ConfirmSetLost, Abort, Promise!Next
<1>4. ASSUME NEW c \in Conns, NEW n \in NoteIds, NEW k \in Keys, ConfirmGet(c, n, k)
      PROVE  UNCHANGED store \/ Promise!Contend(n)
  BY <1>4 DEF ConfirmGet, Promise!Contend
<1>5. ASSUME NEW c \in Conns, NEW n \in NoteIds, Request(c, n) PROVE [Promise!Next]_store
  <2>1. CASE CreateNote(c, n) \/ CreateLost(c, n)
    BY <2>1 DEF CreateNote, CreateLost, Insert, Promise!Next, Promise!Create
  <2>2. CASE DeleteNote(c, n) \/ DeleteLost(c, n)
    BY <2>2 DEF DeleteNote, DeleteLost, DeleteReturning, Promise!Next, Promise!Remove
  <2>3. CASE \E k \in Keys : ConfirmGet(c, n, k)
    BY <2>3, <1>4 DEF Promise!Next
  <2> QED
    BY <1>5, <2>1, <2>2, <2>3 DEF Request
<1>6. ASSUME NEW k \in Keys, Upload(k) PROVE Promise!Next
  BY <1>6 DEF Upload, Promise!Next, Promise!Store
<1>7. /\ \A n \in NoteIds, k \in Keys : PresignAttachmentUpload(n, k) => UNCHANGED store
      /\ \A k \in Keys : Expire(k) => UNCHANGED store
  BY DEF PresignAttachmentUpload, Expire
<1>8. CASE UNCHANGED vars
  BY <1>8 DEF vars
<1>9. CASE Next
  <2>1. CASE \E c \in Conns : Step(c)
    BY <2>1, <1>3
  <2>2. CASE \E c \in Conns, n \in NoteIds : Request(c, n)
    BY <2>2, <1>5
  <2>3. CASE \E n \in NoteIds, k \in Keys : PresignAttachmentUpload(n, k)
    BY <2>3, <1>7
  <2>4. CASE \E k \in Keys : Upload(k) \/ Expire(k)
    BY <2>4, <1>6, <1>7
  <2> QED
    BY <1>9, <2>1, <2>2, <2>3, <2>4 DEF Next
<1> QED
  BY <1>8, <1>9

\* The handlers implement AttachmentStore, for every set of notes, keys and
\* connections: only stored objects are attached, only unreferenced ones go.
THEOREM Refinement == Spec => ImplementsStore
<1>1. TypeOK /\ Parts /\ [Next]_vars => [Promise!Next]_(Promise!vars)
  BY NextRefines DEF store, Promise!vars
<1> QED
  BY <1>1, InitRefines, Invariance, PTL DEF Spec, ImplementsStore, Promise!Spec
============================================================================
