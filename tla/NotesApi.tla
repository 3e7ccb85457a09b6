------------------------------ MODULE NotesApi ------------------------------
(***************************************************************************)
(* The HTTP handlers of backend/internal/httpapi/server.go over the two    *)
(* stores they write: the notes table (internal/store/postgres.go) and the *)
(* bucket (internal/storage/s3.go).  Nothing spans the two stores, so a    *)
(* handler is a sequence of calls and any other handler may run between    *)
(* two of them.  One action is one call: the arrival of the request is     *)
(* merged with its first call, and a request refused at its first call     *)
(* changes nothing and is not an action.                                   *)
(*                                                                         *)
(* A handler whose request was cancelled may still have a statement        *)
(* running in PostgreSQL: it counts as in flight until that statement      *)
(* ended, which is when Abort or ...Lost happens.                          *)
(***************************************************************************)
EXTENDS Naturals

CONSTANTS NoteIds,    \* ids gen_random_uuid() will hand out
          Keys,       \* object keys presignAttachmentUpload will draw
          Owner,      \* the note in a key's "notes/<id>/" prefix
          Dotted,     \* keys that hold "..", as the key for a..b.pdf does
          NoKey,      \* attachment_key IS NULL
          NoNote,     \* a handler that serves no note
          Conns,      \* requests served at the same time
          MaxFaults   \* bound on failed or cut-off calls

ASSUME NotesAssumption ==
    /\ NoKey \notin Keys
    /\ NoNote \notin NoteIds
    /\ Owner \in [Keys -> NoteIds]
    /\ Dotted \subseteq Keys
    /\ MaxFaults \in Nat

VARIABLES row,        \* notes table: "absent", "live", "deleted"
          att,        \* attachment_key of each row
          issued,     \* keys drawn by presignAttachmentUpload
          permit,     \* issued keys whose presigned POST has not expired
          objects,    \* keys stored in the bucket
          published,  \* notes whose note.created went to the publisher
          contended,  \* notes that had two confirmations in flight at once
          h,          \* the handler each connection is running
          faults      \* failed or cut-off calls so far

vars == <<row, att, issued, permit, objects, published, contended, h, faults>>
store == <<row, att, objects, contended>>

At(pc, n, k, prev) == [pc |-> pc, id |-> n, key |-> k, prev |-> prev]
Idle == At("idle", NoNote, NoKey, NoKey)

\* "stat" and "set" are a confirmation between two of its calls; "drop" is
\* a confirmation, and "remove" a deletion, about to delete object prev.
Pcs == {"idle", "publish", "stat", "set", "drop", "remove"}

Handler == [pc: Pcs, id: NoteIds \cup {NoNote},
            key: Keys \cup {NoKey}, prev: Keys \cup {NoKey}]

TypeOK ==
    /\ row \in [NoteIds -> {"absent", "live", "deleted"}]
    /\ att \in [NoteIds -> Keys \cup {NoKey}]
    /\ issued \in SUBSET Keys
    /\ permit \in SUBSET Keys
    /\ objects \in SUBSET Keys
    /\ published \in SUBSET NoteIds
    /\ contended \in SUBSET NoteIds
    /\ h \in [Conns -> Handler]
    /\ faults \in 0..MaxFaults

Init ==
    /\ row = [n \in NoteIds |-> "absent"]
    /\ att = [n \in NoteIds |-> NoKey]
    /\ issued = {}
    /\ permit = {}
    /\ objects = {}
    /\ published = {}
    /\ contended = {}
    /\ h = [c \in Conns |-> Idle]
    /\ faults = 0

Confirming(c, n) == h[c].pc \in {"stat", "set", "drop"} /\ h[c].id = n

Done(c) == h' = [h EXCEPT ![c] = Idle]

Fault == faults < MaxFaults /\ faults' = faults + 1

-----------------------------------------------------------------------------
(* POST /api/notes: INSERT, then Events.Publish in the same goroutine.     *)

Insert(n) ==
    /\ row[n] = "absent"
    /\ row' = [row EXCEPT ![n] = "live"]
    /\ UNCHANGED <<att, issued, permit, objects, published, contended>>

CreateNote(c, n) ==
    /\ h[c] = Idle
    /\ Insert(n)
    /\ h' = [h EXCEPT ![c] = At("publish", n, NoKey, NoKey)]
    /\ UNCHANGED faults

\* The row is committed but the handler sees an error and answers 500.
CreateLost(c, n) ==
    /\ h[c] = Idle
    /\ Insert(n)
    /\ Fault
    /\ UNCHANGED h

\* Mutant: the event carries the wrong field of the note.
PublishWrongField(c) ==
    /\ h[c].pc = "publish"
    /\ published' = published \cup {h[c].key}
    /\ Done(c)
    /\ UNCHANGED <<row, att, issued, permit, objects, contended, faults>>

\* Mutant: the note is looked up again, and a deleted one is not announced.
PublishIfLive(c) ==
    /\ h[c].pc = "publish"
    /\ published' = published \cup {m \in {h[c].id} : row[m] = "live"}
    /\ Done(c)
    /\ UNCHANGED <<row, att, issued, permit, objects, contended, faults>>

PublishCreated(c) ==
    /\ h[c].pc = "publish"
    /\ published' = published \cup {h[c].id}
    /\ Done(c)
    /\ UNCHANGED <<row, att, issued, permit, objects, contended, faults>>

-----------------------------------------------------------------------------
(* DELETE /api/notes/{id}: DELETE ... RETURNING, then Storage.Delete.      *)

DeleteReturning(n) ==
    /\ row[n] = "live"
    /\ row' = [row EXCEPT ![n] = "deleted"]
    /\ att' = [att EXCEPT ![n] = NoKey]
    /\ UNCHANGED <<issued, permit, objects, published, contended>>

DeleteNote(c, n) ==
    /\ h[c] = Idle
    /\ DeleteReturning(n)
    /\ \/ att[n] = NoKey /\ UNCHANGED h
       \/ /\ att[n] # NoKey
          /\ h' = [h EXCEPT ![c] = At("remove", n, NoKey, att[n])]
    /\ UNCHANGED faults

\* The row is gone but the handler never learns which object it referenced.
DeleteLost(c, n) ==
    /\ h[c] = Idle
    /\ DeleteReturning(n)
    /\ Fault
    /\ UNCHANGED h

\* Mutant: the confirmed object is deleted, not the replaced one.
RemoveConfirmed(c) ==
    /\ h[c].pc \in {"remove", "drop"}
    /\ objects' = objects \ {h[c].key}
    /\ Done(c)
    /\ UNCHANGED <<row, att, issued, permit, published, contended, faults>>

\* Storage.Delete, of a deleted note's object or of a replaced one.
RemoveObject(c) ==
    /\ h[c].pc \in {"remove", "drop"}
    /\ objects' = objects \ {h[c].prev}
    /\ Done(c)
    /\ UNCHANGED <<row, att, issued, permit, published, contended, faults>>

-----------------------------------------------------------------------------
(* Attachments: presign, upload (browser to bucket), confirm.              *)

\* Get, then a key with a fresh random part; signing makes no call.
PresignAttachmentUpload(n, k) ==
    /\ row[n] = "live"
    /\ k \notin issued
    /\ Owner[k] = n
    /\ issued' = issued \cup {k}
    /\ permit' = permit \cup {k}
    /\ UNCHANGED <<row, att, objects, published, contended, h, faults>>

\* The bucket accepts the form until the policy expires, note or no note.
Upload(k) ==
    /\ k \in permit
    /\ objects' = objects \cup {k}
    /\ UNCHANGED <<row, att, issued, permit, published, contended, h, faults>>

Expire(k) ==
    /\ k \in permit
    /\ permit' = permit \ {k}
    /\ UNCHANGED <<row, att, issued, objects, published, contended, h, faults>>

\* Mutant: the key is not checked.
ConfirmAnyKey(c, n, k) ==
    /\ h[c] = Idle
    /\ k \in issued
    /\ row[n] = "live"
    /\ h' = [h EXCEPT ![c] = At("stat", n, k, att[n])]
    /\ contended' = contended \cup {m \in {n} : \E d \in Conns : Confirming(d, m)}
    /\ UNCHANGED <<row, att, issued, permit, objects, published, faults>>

\* The prefix and ".." checks, then Get: the attachment read here is used
\* after Set.
\* The random part of a key cannot be guessed: a client has it from a presign.
ConfirmGet(c, n, k) ==
    /\ h[c] = Idle
    /\ k \in issued \ Dotted
    /\ Owner[k] = n
    /\ row[n] = "live"
    /\ h' = [h EXCEPT ![c] = At("stat", n, k, att[n])]
    /\ contended' = contended \cup {m \in {n} : \E d \in Conns : Confirming(d, m)}
    /\ UNCHANGED <<row, att, issued, permit, objects, published, faults>>

\* Mutant: the answer of Exists is not looked at.
ConfirmUnseen(c) ==
    /\ h[c].pc = "stat"
    /\ h' = [h EXCEPT ![c].pc = "set"]
    /\ UNCHANGED <<row, att, issued, permit, objects, published, contended, faults>>

ConfirmStat(c) ==
    /\ h[c].pc = "stat"
    /\ \/ h[c].key \in objects /\ h' = [h EXCEPT ![c].pc = "set"]
       \/ h[c].key \notin objects /\ Done(c)
    /\ UNCHANGED <<row, att, issued, permit, objects, published, contended, faults>>

\* Mutant: an upsert instead of an UPDATE.
SetUpsert(c) ==
    /\ h[c].pc = "set"
    /\ att' = [att EXCEPT ![h[c].id] = h[c].key]
    /\ row' = [row EXCEPT ![h[c].id] = "live"]
    /\ UNCHANGED <<issued, permit, objects, published, contended>>

\* UPDATE ... WHERE id matched a row.
SetAttachment(c) ==
    /\ h[c].pc = "set"
    /\ row[h[c].id] = "live"
    /\ att' = [att EXCEPT ![h[c].id] = h[c].key]
    /\ UNCHANGED <<row, issued, permit, objects, published, contended>>

\* Mutants: a replaced object is kept; the same key confirmed again counts
\* as replaced.
ReplacesNothing(c) == FALSE
ReplacesItself(c) == h[c].prev # NoKey

Replaces(c) == h[c].prev \notin {NoKey, h[c].key}

ConfirmSet(c) ==
    /\ SetAttachment(c)
    /\ \/ Replaces(c) /\ h' = [h EXCEPT ![c].pc = "drop"]
       \/ ~Replaces(c) /\ Done(c)
    /\ UNCHANGED faults

\* RowsAffected = 0: the note was deleted since Get.
ConfirmGone(c) ==
    /\ h[c].pc = "set"
    /\ row[h[c].id] # "live"
    /\ Done(c)
    /\ UNCHANGED <<row, att, issued, permit, objects, published, contended, faults>>

\* The update is committed but the handler sees an error and answers 500.
ConfirmSetLost(c) ==
    /\ SetAttachment(c)
    /\ Fault
    /\ Done(c)

-----------------------------------------------------------------------------
\* A call fails, the client goes away (every call takes the request's
\* context) or the process dies: the handler's remaining calls never happen.
Abort(c) ==
    /\ h[c] # Idle
    /\ Fault
    /\ Done(c)
    /\ UNCHANGED <<row, att, issued, permit, objects, published, contended>>

\* The next call of a handler under way, whatever its outcome.
Step(c) ==
    \/ PublishCreated(c)
    \/ RemoveObject(c)
    \/ ConfirmStat(c)
    \/ ConfirmSet(c)
    \/ ConfirmGone(c)
    \/ ConfirmSetLost(c)
    \/ Abort(c)

Request(c, n) ==
    \/ CreateNote(c, n)
    \/ CreateLost(c, n)
    \/ DeleteNote(c, n)
    \/ DeleteLost(c, n)
    \/ \E k \in Keys : ConfirmGet(c, n, k)

Next ==
    \/ \E c \in Conns : Step(c)
    \/ \E c \in Conns, n \in NoteIds : Request(c, n)
    \/ \E n \in NoteIds, k \in Keys : PresignAttachmentUpload(n, k)
    \/ \E k \in Keys : Upload(k) \/ Expire(k)

\* A goroutine that serves a request keeps running: every call it makes ends.
\* Users, uploads and clocks owe nothing.
Fairness == \A c \in Conns : WF_vars(Step(c))

Spec == Init /\ [][Next]_vars /\ Fairness

-----------------------------------------------------------------------------
(* Properties                                                              *)

\* A note references only a key of its own "notes/<id>/" prefix, and only a
\* live note references anything: confirmAttachment checks the prefix before
\* two calls and a deletion may come between any of them.
ReferenceIsOwn ==
    \A n \in NoteIds : att[n] # NoKey => row[n] = "live" /\ Owner[att[n]] = n

\* "The note references the file only after the API verifies it was stored"
\* (api.ts:65), and it stays stored, for a note whose confirmations never
\* overlapped: Exists, Set and Delete are three calls, other requests (and
\* a deletion of the note) run between them.
AttachmentStored ==
    \A n \in NoteIds \ contended : att[n] # NoKey => att[n] \in objects

\* The same of every note, as notes.go:20 has it ("an optional attachment
\* stored in object storage").  False: see README, finding 1.
EveryAttachmentStored ==
    \A n \in NoteIds : att[n] # NoKey => att[n] \in objects

\* Some handler will delete object k.
Owed(k) == \E c \in Conns : h[c].pc \in {"remove", "drop"} /\ h[c].prev = k

\* No step drops the last mention of an object without a handler left that
\* deletes it: the attachment confirmAttachment read at its start is still
\* the one it replaces.  Two cases are outside the promise: confirmations
\* that overlapped, and a call that failed.
DroppedIsOwed ==
    [][ \A n \in NoteIds \ contended, k \in Keys :
          (att[n] = k /\ att'[n] # k /\ faults' = faults) => Owed(k)' ]_vars

\* A deleted note stays deleted, with no attachment, whatever confirmation
\* was under way (SetAttachment is an UPDATE and looks at RowsAffected).
DeletedForGood ==
    [][ \A n \in NoteIds : row[n] = "deleted" => row'[n] = "deleted" /\ att'[n] = NoKey ]_vars

\* An owed deletion happens, unless a call fails.
OwedIsDeleted == \A k \in Keys : Owed(k) ~> (k \notin objects \/ faults > 0)

\* A created note is announced, even one deleted at once, unless a call fails.
CreatedIsAnnounced ==
    \A n \in NoteIds : (row[n] # "absent") ~> (n \in published \/ faults > 0)

Promise == INSTANCE AttachmentStore WITH
    NoteIds <- NoteIds, Keys <- Keys, NoKey <- NoKey, Owner <- Owner,
    row <- row, att <- att, objects <- objects, contended <- contended

\* The handlers implement the abstract store.
ImplementsStore == Promise!Spec
=============================================================================
