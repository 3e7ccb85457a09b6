--------------------------- MODULE AttachmentStore ---------------------------
(***************************************************************************)
(* What the notes API promises about attachments, with no handlers, no     *)
(* calls in flight and no faults: a note is created and removed once, it   *)
(* references only a stored object of its own, and an object is discarded  *)
(* only while no note references it.                                       *)
(*                                                                         *)
(* A client that lets two confirmations of one note overlap has the note   *)
(* put in `contended'; the promise is for the other notes.                 *)
(***************************************************************************)
CONSTANTS NoteIds, Keys, NoKey, Owner

VARIABLES row,        \* life of each note: "absent", "live", "deleted"
          att,        \* the key each note references, or NoKey
          objects,    \* keys stored in the bucket
          contended   \* notes whose confirmations overlapped

vars == <<row, att, objects, contended>>

Init ==
    /\ row = [n \in NoteIds |-> "absent"]
    /\ att = [n \in NoteIds |-> NoKey]
    /\ objects = {}
    /\ contended = {}

Create(n) ==
    /\ row[n] = "absent"
    /\ row' = [row EXCEPT ![n] = "live"]
    /\ UNCHANGED <<att, objects, contended>>

Remove(n) ==
    /\ row[n] = "live"
    /\ row' = [row EXCEPT ![n] = "deleted"]
    /\ att' = [att EXCEPT ![n] = NoKey]
    /\ UNCHANGED <<objects, contended>>

Store(k) ==
    /\ objects' = objects \cup {k}
    /\ UNCHANGED <<row, att, contended>>

\* The whole point: only a stored object of the note itself is attached.
Attach(n, k) ==
    /\ row[n] = "live"
    /\ Owner[k] = n
    /\ n \in contended \/ k \in objects
    /\ att' = [att EXCEPT ![n] = k]
    /\ UNCHANGED <<row, objects, contended>>

\* Only an object no note references is discarded.
Discard(k) ==
    /\ Owner[k] \in contended \/ (\A n \in NoteIds : att[n] # k)
    /\ objects' = objects \ {k}
    /\ UNCHANGED <<row, att, contended>>

Contend(n) ==
    /\ contended' = contended \cup {n}
    /\ UNCHANGED <<row, att, objects>>

Next ==
    \/ \E n \in NoteIds : Create(n) \/ Remove(n) \/ Contend(n)
    \/ \E k \in Keys : Store(k) \/ Discard(k)
    \/ \E n \in NoteIds, k \in Keys : Attach(n, k)

Spec == Init /\ [][Next]_vars
=============================================================================
