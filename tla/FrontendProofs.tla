--------------------------- MODULE FrontendProofs ---------------------------
(***************************************************************************)
(* Proofs about Frontend: that it runs the handlers of NotesApi and        *)
(* nothing else, so that what NotesApiProofs shows of them holds under the *)
(* browser too, and that a tab shows what its user did, for any number of  *)
(* tabs, notes, connections and faults.                                    *)
(***************************************************************************)
EXTENDS Frontend, TLAPS

Handlers == INSTANCE NotesApiProofs

-----------------------------------------------------------------------------
(* The backend under the tabs.                                             *)

\* A request or an answer is lost on its way: no handler takes a step.
LostOnTheWay ==
    /\ Api!Fault
    /\ UNCHANGED <<row, att, issued, permit, objects, published, contended, h>>

\* The two instances of NotesApi are the same.
LEMMA SameAssumption == Handlers!NotesAssumption
BY FrontendAssumption DEF Handlers!NotesAssumption

LEMMA SameType == Api!TypeOK <=> Handlers!TypeOK
BY DEF Api!TypeOK, Handlers!TypeOK, Api!Handler, Handlers!Handler, Api!Pcs, Handlers!Pcs

LEMMA SameInit == Api!Init => Handlers!Init
BY DEF Api!Init, Handlers!Init, Api!Idle, Handlers!Idle, Api!At, Handlers!At

\* A handler's next call.
LEMMA ServeStep == ASSUME NEW c \in Conns, Serve(c) PROVE Handlers!Step(c)
<1> USE DEF Api!Idle, Handlers!Idle, Api!At, Handlers!At, Api!Done, Handlers!Done,
            Api!Fault, Handlers!Fault, Handlers!Step
<1>1. CASE Api!PublishCreated(c)
  BY <1>1 DEF Api!PublishCreated, Handlers!PublishCreated
<1>2. CASE Api!RemoveObject(c)
  BY <1>2 DEF Api!RemoveObject, Handlers!RemoveObject
<1>3. CASE Api!ConfirmSet(c)
  BY <1>3 DEF Api!ConfirmSet, Handlers!ConfirmSet, Api!SetAttachment, Handlers!SetAttachment,
              Api!Replaces, Handlers!Replaces
<1>4. CASE Api!ConfirmStat(c)
  BY <1>4 DEF Api!ConfirmStat, Handlers!ConfirmStat
<1>5. CASE Api!ConfirmGone(c)
  BY <1>5 DEF Api!ConfirmGone, Handlers!ConfirmGone
<1>6. CASE Api!ConfirmSetLost(c)
  BY <1>6 DEF Api!ConfirmSetLost, Handlers!ConfirmSetLost, Api!SetAttachment, Handlers!SetAttachment
<1>7. CASE Api!Abort(c)
  BY <1>7 DEF Api!Abort, Handlers!Abort
<1> QED
  BY <1>1, <1>2, <1>3, <1>4, <1>5, <1>6, <1>7 DEF Serve

\* The first call of a request.
LEMMA RequestStep ==
    ASSUME NEW t \in Tabs, NEW n \in NoteIds, CreateNote(t, n) \/ DeleteNote(t, n)
    PROVE  \E c \in Conns : Handlers!Request(c, n)
<1> USE DEF Api!Idle, Handlers!Idle, Api!At, Handlers!At, Api!Fault, Handlers!Fault,
            Api!Insert, Handlers!Insert, Api!DeleteReturning, Handlers!DeleteReturning,
            Handlers!Request
<1>1. ASSUME NEW c \in Conns, Api!CreateNote(c, n) PROVE Handlers!Request(c, n)
  BY <1>1 DEF Api!CreateNote, Handlers!CreateNote
<1>2. ASSUME NEW c \in Conns, Api!CreateLost(c, n) PROVE Handlers!Request(c, n)
  BY <1>2 DEF Api!CreateLost, Handlers!CreateLost
<1>3. ASSUME NEW c \in Conns, Api!DeleteNote(c, n) PROVE Handlers!Request(c, n)
  BY <1>3 DEF Api!DeleteNote, Handlers!DeleteNote
<1>4. ASSUME NEW c \in Conns, Api!DeleteLost(c, n) PROVE Handlers!Request(c, n)
  BY <1>4 DEF Api!DeleteLost, Handlers!DeleteLost
<1> QED
  BY <1>1, <1>2, <1>3, <1>4 DEF CreateNote, DeleteNote

LEMMA ConfirmStep ==
    ASSUME Api!TypeOK, NEW t \in Tabs, Confirm(t)
    PROVE  \E c \in Conns, n \in NoteIds : Handlers!Request(c, n)
<1>1. PICK c \in Conns : Api!ConfirmGet(c, tab[t].note, tab[t].key)
  BY DEF Confirm
<1>2. tab[t].key \in Keys /\ tab[t].note \in NoteIds
  BY <1>1, FrontendAssumption DEF Api!TypeOK, Api!ConfirmGet
<1>3. Handlers!ConfirmGet(c, tab[t].note, tab[t].key)
  BY <1>1 DEF Api!ConfirmGet, Handlers!ConfirmGet, Api!Idle, Handlers!Idle, Api!At,
              Handlers!At, Api!Confirming, Handlers!Confirming
<1> QED
  BY <1>2, <1>3 DEF Handlers!Request

\* Whatever a tab does, the backend takes a step of NotesApi, or none, or a
\* message is lost.
LEMMA NextBackend ==
    ASSUME Api!TypeOK, [Next]_vars
    PROVE  LostOnTheWay \/ [Handlers!Next]_backend
<1>1. ASSUME NEW t \in Tabs, Open(t) \/ ShowFirst(t) \/ FirstFails(t)
      PROVE  LostOnTheWay \/ UNCHANGED backend
  BY <1>1 DEF Open, ShowFirst, FirstFails, LostOnTheWay
<1>2. ASSUME NEW t \in Tabs, InvalidNote(t) \/ CutOff(t)
      PROVE  LostOnTheWay \/ UNCHANGED backend
  BY <1>2 DEF InvalidNote, CutOff, LostOnTheWay
<1>3. ASSUME NEW t \in Tabs, GoesOn(t) PROVE [Handlers!Next]_backend
  <2>1. CASE Upload(t)
    <3>1. tab[t].key \in Keys /\ Handlers!Upload(tab[t].key)
      BY <2>1 DEF Upload, Api!Upload, Handlers!Upload, Api!TypeOK
    <3> QED
      BY <3>1 DEF Handlers!Next
  <2>2. CASE Confirm(t)
    BY <2>2, ConfirmStep DEF Handlers!Next
  <2>3. CASE UploadRefused(t) \/ ConfirmRefused(t) \/ ConfirmNotFound(t) \/ ReadAgain(t) \/ ShowAgain(t)
    BY <2>3 DEF UploadRefused, ConfirmRefused, ConfirmNotFound, ReadAgain, ShowAgain
  <2> QED
    BY <1>3, <2>1, <2>2, <2>3 DEF GoesOn
<1>4. ASSUME NEW t \in Tabs, NEW n \in NoteIds, CreateNote(t, n) \/ DeleteNote(t, n)
      PROVE  Handlers!Next
  BY <1>4, RequestStep DEF Handlers!Next
<1>5. ASSUME NEW t \in Tabs, NEW n \in NoteIds,
             Download(t, n) \/ InvalidFile(t, n) \/ NotFound(t, n)
      PROVE  UNCHANGED backend
  BY <1>5 DEF Download, InvalidFile, NotFound
<1>6. ASSUME NEW t \in Tabs, NEW n \in NoteIds, NEW k \in Keys, Attach(t, n, k)
      PROVE  Handlers!Next
  <2>1. Handlers!PresignAttachmentUpload(n, k)
    BY <1>6 DEF Attach, Api!PresignAttachmentUpload, Handlers!PresignAttachmentUpload
  <2> QED
    BY <2>1 DEF Handlers!Next
<1>7. ASSUME NEW c \in Conns, Serve(c) PROVE Handlers!Next
  BY <1>7, ServeStep DEF Handlers!Next
<1>8. CASE UNCHANGED vars
  BY <1>8 DEF vars, backend
<1> QED
  BY <1>1, <1>2, <1>3, <1>4, <1>5, <1>6, <1>7, <1>8 DEF Next

LEMMA LossKeepsParts ==
    ASSUME Api!TypeOK, Handlers!Parts, LostOnTheWay
    PROVE  Api!TypeOK' /\ Handlers!Parts'
<1>1. Handlers!Parts'
  BY SameType, SameAssumption, Handlers!StutterKeepsParts DEF LostOnTheWay, Handlers!store
<1>2. Api!TypeOK'
  BY FrontendAssumption DEF LostOnTheWay, Api!TypeOK, Api!Fault
<1> QED
  BY <1>1, <1>2

LEMMA NextApi ==
    ASSUME Api!TypeOK, Handlers!Parts, [Next]_vars
    PROVE  Api!TypeOK' /\ Handlers!Parts'
<1>1. CASE LostOnTheWay
  BY <1>1, LossKeepsParts
<1>2. CASE [Handlers!Next]_backend
  <2>1. Handlers!TypeOK /\ Handlers!HandlerShape /\ [Handlers!Next]_(Handlers!vars)
    BY <1>2, SameType DEF backend, Handlers!vars, Handlers!Parts
  <2>2. Handlers!TypeOK'
    BY <2>1, SameAssumption, Handlers!NextType
  <2>3. Handlers!Parts'
    BY <2>1, SameAssumption, Handlers!NextParts
  <2>4. Handlers!TypeOK' => Api!TypeOK'
    BY DEF Api!TypeOK, Handlers!TypeOK, Api!Handler, Handlers!Handler, Api!Pcs, Handlers!Pcs
  <2> QED
    BY <2>2, <2>3, <2>4
<1> QED
  BY <1>1, <1>2, NextBackend

\* A note that was inserted stays inserted, one that was deleted stays
\* deleted, and one with an attachment keeps one until it is deleted.
LEMMA NotesLast ==
    ASSUME Api!TypeOK, Handlers!Parts, [Next]_vars, NEW n \in NoteIds
    PROVE  /\ row[n] # "absent" => row'[n] # "absent"
           /\ Gone(n) => Gone(n)'
           /\ att[n] # NoKey => att'[n] # NoKey \/ Gone(n)'
<1> USE DEF Gone
<1>1. CASE LostOnTheWay
  BY <1>1 DEF LostOnTheWay
<1>2. CASE [Handlers!Next]_backend
  <2> USE FrontendAssumption DEF Api!TypeOK
  <2>1. ASSUME NEW c \in Conns, Handlers!Step(c)
        PROVE  row' = row /\ (att[n] # NoKey => att'[n] # NoKey)
    BY <2>1 DEF Handlers!Step, Handlers!PublishCreated, Handlers!RemoveObject,
                Handlers!ConfirmStat, Handlers!ConfirmSet, Handlers!ConfirmGone,
                Handlers!ConfirmSetLost, Handlers!SetAttachment, Handlers!Abort,
                Handlers!Parts, Handlers!HandlerShape
  <2>2. ASSUME NEW c \in Conns, NEW m \in NoteIds, Handlers!Request(c, m)
        PROVE  /\ row[n] # "absent" => row'[n] # "absent"
               /\ row[n] = "deleted" => row'[n] = "deleted"
               /\ att[n] # NoKey => att'[n] # NoKey \/ row'[n] = "deleted"
    BY <2>2 DEF Handlers!Request, Handlers!CreateNote, Handlers!CreateLost, Handlers!Insert,
                Handlers!DeleteNote, Handlers!DeleteLost, Handlers!DeleteReturning,
                Handlers!ConfirmGet
  <2> QED
    BY <1>2, <2>1, <2>2 DEF Handlers!Next, Handlers!PresignAttachmentUpload,
                            Handlers!Upload, Handlers!Expire, backend
<1> QED
  BY <1>1, <1>2, NextBackend

-----------------------------------------------------------------------------
(* The inductive invariant is TypeOK /\ Handlers!Parts /\ TabParts.  What a *)
(* tab shows when it is done follows from what was true of the note and of *)
(* the handler at every point of its operation before.                     *)

\* What the operation of t was about has happened.
Made(t) ==
    LET n == tab[t].note
    IN  /\ tab[t].act = "create" => row[n] # "absent"
        /\ tab[t].act = "delete" => Gone(n)
        /\ tab[t].act = "attach" => att[n] # NoKey \/ Gone(n)

\* A list that shows it.
Shows(t, list) ==
    LET n == tab[t].note
    IN  /\ tab[t].act = "create" => list[n] # "none" \/ Gone(n)
        /\ tab[t].act = "delete" => list[n] = "none"
        /\ tab[t].act = "attach" => list[n] = "attached" \/ Gone(n)

\* The handler on c serves the operation of t.
Serves(c, t) ==
    /\ h[c].id = tab[t].note
    /\ tab[t].act = "create" => h[c].pc = "publish"
    /\ tab[t].act = "delete" => h[c].pc = "remove"
    /\ tab[t].act = "attach" => h[c].pc \in {"stat", "set", "drop"}

TabShape(t) ==
    /\ tab[t].pc = "closed" => tab[t].act = "none"
    /\ tab[t].act # "none" => tab[t].note \in NoteIds
    /\ tab[t].pc \in {"upload", "confirm"} => tab[t].act = "attach" /\ tab[t].key \in Keys
    /\ tab[t].pc = "wait" => tab[t].act # "none" /\ tab[t].conn \in Conns

\* What a tab waits for is a handler that is still at its operation, and
\* one that has nothing left to do but to tidy up has had its effect.
WaitsForItsOwn(t) ==
    tab[t].pc = "wait" =>
       /\ Serves(tab[t].conn, t)
       /\ h[tab[t].conn].pc \notin {"stat", "set"} => Made(t)

\* The list is asked for once the effect is there; ...
RefreshIsAfter(t) == tab[t].pc = "refresh" => Made(t)

\* ... it shows the effect, and the initial list counts as an old one; ...
ReadShows(t) == tab[t].pc = "read" => first[t].pc # "read" /\ Shows(t, again[t])

\* ... and it stays on the screen unless that list replaces it.
IdleShows(t) ==
    tab[t].pc = "idle" /\ tab[t].act # "none" =>
       /\ first[t].pc # "read"
       /\ first[t].pc # "late" => Shows(t, screen[t])

Own(t) ==
    /\ TabShape(t)
    /\ WaitsForItsOwn(t)
    /\ RefreshIsAfter(t)
    /\ ReadShows(t)
    /\ IdleShows(t)

\* No answer is waited for by two tabs.
OneWaits ==
    \A t, u \in Tabs :
       tab[t].pc = "wait" /\ tab[u].pc = "wait" /\ tab[t].conn = tab[u].conn => t = u

Refs == {att[n] : n \in NoteIds} \ {NoKey}

\* The object that is stored and not referenced in the middle of t's operation.
Extra(t) ==
    IF tab[t].pc = "confirm" THEN {tab[t].key}
    ELSE IF tab[t].pc # "wait" THEN {}
    ELSE LET c == tab[t].conn
         IN  IF h[c].pc \in {"stat", "set"} THEN {h[c].key}
             ELSE IF h[c].pc \in {"drop", "remove"} THEN {h[c].prev}
             ELSE {}

\* Nothing is under way but what t waits for, and the bucket holds what is
\* referenced and that object, besides keys that were refused.
Exact(t) ==
    /\ \A c \in Conns : h[c].pc # "idle" => tab[t].pc = "wait" /\ tab[t].conn = c
    /\ tab[t].pc \in {"upload", "confirm"} => row[tab[t].note] = "live"
    /\ tab[t].pc = "wait" =>
         LET c == tab[t].conn
         IN  /\ h[c].pc \in {"stat", "set"} =>
                   /\ row[h[c].id] = "live" /\ h[c].prev = att[h[c].id]
                   /\ h[c].key \notin Dotted
             /\ h[c].pc \in {"drop", "remove"} => h[c].prev \notin Refs
    /\ Refs \cap Dotted = {}
    /\ objects \ Dotted = Refs \cup (Extra(t) \ Dotted)

AloneIsExact == \A t \in Tabs : Alone(t) => Exact(t)

TabParts ==
    /\ \A t \in Tabs : Own(t)
    /\ OneWaits
    /\ AloneIsExact

-----------------------------------------------------------------------------
(* Type correctness                                                        *)

LEMMA ListTypes == Table \in Lists /\ Blank \in Lists
BY DEF Table, Blank, Lists

LEMMA InitType == Init => TypeOK
<1> SUFFICES ASSUME Init PROVE TypeOK
  OBVIOUS
<1>1. Handlers!TypeOK
  BY SameInit, SameAssumption, Handlers!InitType DEF Init
<1>2. Closed \in Tab
  BY DEF Closed, Tab, TabPcs
<1>3. NoFirst \in First
  BY ListTypes DEF NoFirst, First
<1> QED
  BY <1>1, <1>2, <1>3, ListTypes, SameType DEF Init, TypeOK

LEMMA ThrowsType == ASSUME TypeOK, NEW t \in Tabs, Throws(t) PROVE tab' \in [Tabs -> Tab]
<1>1. [Closed EXCEPT !.pc = "idle", !.err = TRUE] \in Tab
  BY DEF Closed, Tab, TabPcs
<1> QED
  BY <1>1 DEF Throws, TypeOK

LEMMA AwaitsType ==
    ASSUME TypeOK, NEW t \in Tabs, NEW n \in NoteIds, NEW c \in Conns,
           NEW act \in {"create", "delete"}, Awaits(t, act, n, c)
    PROVE  tab' \in [Tabs -> Tab]
<1>1. tab[t].err \in BOOLEAN
  BY DEF TypeOK, Tab
<1>2. [pc   |-> IF h'[c] = Api!Idle THEN "refresh" ELSE "wait",
       act  |-> act, note |-> n, key |-> NoKey,
       conn |-> IF h'[c] = Api!Idle THEN NoConn ELSE c,
       err  |-> tab[t].err] \in Tab
  BY <1>1 DEF Tab, TabPcs
<1> QED
  BY <1>2 DEF Awaits, TypeOK

LEMMA NextType ==
    ASSUME TypeOK, Handlers!Parts, [Next]_vars
    PROVE  TypeOK'
<1> USE DEF TypeOK, Quiet
<1>0. Api!TypeOK'
  BY NextApi
<1>1. ASSUME NEW t \in Tabs, Open(t) \/ ShowFirst(t) \/ FirstFails(t)
      PROVE  TypeOK'
  <2>1. CASE Open(t)
    <3>1. [tab[t] EXCEPT !.pc = "idle"] \in Tab
      BY DEF Tab, TabPcs
    <3>2. [pc |-> "read", list |-> Table] \in First
      BY ListTypes DEF First
    <3> QED
      BY <1>0, <2>1, <3>1, <3>2 DEF Open
  <2>2. CASE ShowFirst(t)
    BY <1>0, <2>2, ListTypes DEF ShowFirst, First
  <2>3. CASE FirstFails(t)
    <3>1. [tab[t] EXCEPT !.err = TRUE] \in Tab
      BY Zenon DEF Tab
    <3>2. [pc |-> "shown", list |-> Blank] \in First
      BY ListTypes DEF First
    <3>3. /\ tab' = [tab EXCEPT ![t] = [tab[t] EXCEPT !.err = TRUE]]
          /\ first' = [first EXCEPT ![t] = [pc |-> "shown", list |-> Blank]]
          /\ UNCHANGED <<screen, again>>
      BY <2>3 DEF FirstFails
    <3>4. tab' \in [Tabs -> Tab] /\ first' \in [Tabs -> First]
      BY <3>1, <3>2, <3>3
    <3> QED
      BY <1>0, <3>3, <3>4
  <2> QED
    BY <1>1, <2>1, <2>2, <2>3
<1>2. ASSUME NEW t \in Tabs, InvalidNote(t) \/ CutOff(t)
      PROVE  TypeOK'
  <2>1. CASE InvalidNote(t)
    BY <1>0, <2>1, ThrowsType DEF InvalidNote
  <2>2. CASE CutOff(t)
    <3>1. Closed \in Tab /\ NoFirst \in First
      BY ListTypes DEF Closed, Tab, TabPcs, NoFirst, First
    <3> QED
      BY <1>0, <2>2, <3>1, ThrowsType, ListTypes DEF CutOff
  <2> QED
    BY <1>2, <2>1, <2>2
<1>3. ASSUME NEW t \in Tabs, GoesOn(t) PROVE TypeOK'
  <2>1. CASE Upload(t)
    BY <1>0, <2>1 DEF Upload, Tab, TabPcs
  <2>2. CASE UploadRefused(t) \/ ConfirmRefused(t) \/ ConfirmNotFound(t)
    BY <1>0, <2>2, ThrowsType DEF UploadRefused, ConfirmRefused, ConfirmNotFound
  <2>3. CASE Confirm(t)
    <3>1. PICK c \in Conns : tab' = [tab EXCEPT ![t].pc = "wait", ![t].conn = c]
      BY <2>3 DEF Confirm
    <3>2. [tab[t] EXCEPT !.pc = "wait", !.conn = c] \in Tab
      BY DEF Tab, TabPcs
    <3>3. tab' \in [Tabs -> Tab]
      BY <3>1, <3>2
    <3> QED
      BY <1>0, <2>3, <3>3 DEF Confirm
  <2>4. CASE ReadAgain(t)
    <3>1. [tab[t] EXCEPT !.pc = "read"] \in Tab
      BY DEF Tab, TabPcs
    <3>2. first' \in [Tabs -> First]
      BY <2>4 DEF ReadAgain, First
    <3> QED
      BY <1>0, <2>4, <3>1, <3>2, ListTypes DEF ReadAgain
  <2>5. CASE ShowAgain(t)
    <3>1. [tab[t] EXCEPT !.pc = "idle", !.key = NoKey, !.err = FALSE] \in Tab
      BY DEF Tab, TabPcs
    <3>2. first' \in [Tabs -> First]
      BY <2>5 DEF ShowAgain, First
    <3>3. tab' \in [Tabs -> Tab]
      BY <2>5, <3>1 DEF ShowAgain
    <3> QED
      BY <1>0, <2>5, <3>2, <3>3, ListTypes DEF ShowAgain
  <2> QED
    BY <1>3, <2>1, <2>2, <2>3, <2>4, <2>5 DEF GoesOn
<1>4. ASSUME NEW t \in Tabs, NEW n \in NoteIds, CreateNote(t, n) \/ DeleteNote(t, n)
      PROVE  TypeOK'
  BY <1>0, <1>4, ThrowsType, AwaitsType DEF CreateNote, DeleteNote
<1>5. ASSUME NEW t \in Tabs, NEW n \in NoteIds,
             Download(t, n) \/ InvalidFile(t, n) \/ NotFound(t, n)
      PROVE  TypeOK'
  <2>1. CASE Download(t, n)
    BY <1>0, <2>1 DEF Download, Tab
  <2>2. CASE InvalidFile(t, n) \/ NotFound(t, n)
    BY <1>0, <2>2, ThrowsType DEF InvalidFile, NotFound
  <2> QED
    BY <1>5, <2>1, <2>2
<1>6. ASSUME NEW t \in Tabs, NEW n \in NoteIds, NEW k \in Keys, Attach(t, n, k)
      PROVE  TypeOK'
  BY <1>0, <1>6 DEF Attach, Tab, TabPcs
<1>7. ASSUME NEW c \in Conns, Serve(c) PROVE TypeOK'
  <2>1. ASSUME Succeeds(c) PROVE tab' \in [Tabs -> Tab]
    <3>1. \A t \in Tabs : [tab[t] EXCEPT !.pc = "refresh", !.conn = NoConn] \in Tab
      BY DEF Tab, TabPcs
    <3> QED
      BY <2>1, <3>1 DEF Succeeds
  <2>2. ASSUME FailsOn(c) PROVE tab' \in [Tabs -> Tab]
    BY <2>2, ThrowsType DEF FailsOn, Waiting
  <2> QED
    BY <1>0, <1>7, <2>1, <2>2 DEF Serve
<1>8. CASE UNCHANGED vars
  BY <1>0, <1>8 DEF vars
<1> QED
  BY <1>1, <1>2, <1>3, <1>4, <1>5, <1>6, <1>7, <1>8 DEF Next

-----------------------------------------------------------------------------
(* What a step leaves alone.                                               *)

LEMMA MadeLasts ==
    ASSUME TypeOK, Handlers!Parts, [Next]_vars, NEW t \in Tabs,
           TabShape(t), tab'[t].act = tab[t].act, tab'[t].note = tab[t].note, Made(t)
    PROVE  Made(t)'
BY NotesLast DEF Made, TabShape, TypeOK, Gone

\* A tab that takes no part in a step keeps what it has.
LEMMA OwnLasts ==
    ASSUME TypeOK, Handlers!Parts, [Next]_vars, NEW t \in Tabs, Own(t),
           tab'[t].pc = tab[t].pc, tab'[t].act = tab[t].act,
           tab'[t].note = tab[t].note, tab'[t].conn = tab[t].conn,
           tab'[t].key = tab[t].key,
           tab[t].pc = "wait" => h'[tab[t].conn] = h[tab[t].conn],
           first'[t].pc \in {first[t].pc, "old", "shown"},
           first'[t].pc # first[t].pc => first[t].pc # "late",
           screen'[t] = screen[t], again'[t] = again[t]
    PROVE  Own(t)'
<1>1. TabShape(t)'
  BY DEF Own, TabShape
<1>2. Made(t) => Made(t)'
  BY MadeLasts DEF Own
<1>3. WaitsForItsOwn(t)' /\ RefreshIsAfter(t)'
  BY <1>2 DEF Own, WaitsForItsOwn, RefreshIsAfter, Serves
<1>4. \A list : Shows(t, list) => Shows(t, list)'
  BY NotesLast DEF Shows, Own, TabShape, TypeOK, Gone
<1>5. ReadShows(t)' /\ IdleShows(t)'
  BY <1>4 DEF Own, ReadShows, IdleShows
<1> QED
  BY <1>1, <1>3, <1>5 DEF Own

LEMMA ThrowsOwn ==
    ASSUME TypeOK, NEW t \in Tabs, Throws(t)
    PROVE  /\ tab'[t].pc = "idle" /\ tab'[t].act = "none"
           /\ Own(t)'
           /\ \A u \in Tabs \ {t} : tab'[u] = tab[u]
<1>1. tab'[t] = [Closed EXCEPT !.pc = "idle", !.err = TRUE]
  BY DEF Throws, TypeOK
<1>2. tab'[t].pc = "idle" /\ tab'[t].act = "none"
  BY <1>1 DEF Closed
<1>3. Own(t)'
  BY <1>2 DEF Own, TabShape, WaitsForItsOwn, RefreshIsAfter, ReadShows, IdleShows
<1>4. \A u \in Tabs \ {t} : tab'[u] = tab[u]
  BY DEF Throws, TypeOK
<1> QED
  BY <1>2, <1>3, <1>4

-----------------------------------------------------------------------------
(* Every tab keeps its part, one lemma per kind of step.                   *)

LEMMA FirstKeepsOwn ==
    ASSUME TypeOK, Handlers!Parts, TabParts, [Next]_vars, NEW t \in Tabs,
           Open(t) \/ ShowFirst(t) \/ FirstFails(t)
    PROVE  \A u \in Tabs : Own(u)'
<1> USE DEF TypeOK
<1>1. \A u \in Tabs : Own(u)
  BY DEF TabParts
<1>2. ASSUME NEW u \in Tabs \ {t} PROVE Own(u)'
  <2>1. /\ tab'[u] = tab[u] /\ first'[u] = first[u] /\ screen'[u] = screen[u]
        /\ again' = again /\ h' = h
    BY DEF Open, ShowFirst, FirstFails, backend
  <2> QED
    BY <1>1, <2>1, OwnLasts
<1>3. CASE Open(t)
  <2>1. tab'[t] = [tab[t] EXCEPT !.pc = "idle"]
    BY <1>3 DEF Open
  <2>2. tab'[t].pc = "idle" /\ tab'[t].act = "none"
    BY <1>1, <1>3, <2>1 DEF Open, Own, TabShape, Tab
  <2> QED
    BY <1>2, <2>2 DEF Own, TabShape, WaitsForItsOwn, RefreshIsAfter, ReadShows, IdleShows
<1>4. CASE ShowFirst(t)
  <2>1. /\ tab'[t] = tab[t] /\ again' = again /\ UNCHANGED backend
        /\ first[t].pc \in {"read", "old"}
        /\ first'[t].pc = IF first[t].pc = "old" THEN "late" ELSE "shown"
    BY <1>4 DEF ShowFirst, First
  <2>2. TabShape(t)' /\ WaitsForItsOwn(t)' /\ RefreshIsAfter(t)' /\ ReadShows(t)'
    BY <1>1, <2>1 DEF Own, TabShape, WaitsForItsOwn, Serves, Made, Gone, RefreshIsAfter,
                      ReadShows, Shows, backend
  <2>3. IdleShows(t)'
    BY <1>1, <2>1 DEF Own, IdleShows
  <2> QED
    BY <1>2, <2>2, <2>3 DEF Own
<1>5. CASE FirstFails(t)
  <2>1. /\ tab'[t] = [tab[t] EXCEPT !.err = TRUE]
        /\ first[t].pc \in {"read", "old"} /\ first'[t].pc = "shown"
        /\ screen' = screen /\ again' = again /\ h' = h
    BY <1>5 DEF FirstFails, First
  <2>2. /\ tab'[t].pc = tab[t].pc /\ tab'[t].act = tab[t].act /\ tab'[t].key = tab[t].key
        /\ tab'[t].note = tab[t].note /\ tab'[t].conn = tab[t].conn
    BY <2>1 DEF Tab
  <2>3. Own(t)'
    BY <1>1, <2>1, <2>2, OwnLasts
  <2> QED
    BY <1>2, <2>3
<1> QED
  BY <1>3, <1>4, <1>5

\* A user's step that is refused, and a page that is cut off.
LEMMA RefusalKeepsOwn ==
    ASSUME TypeOK, Handlers!Parts, TabParts, [Next]_vars, NEW t \in Tabs, Throws(t),
           UNCHANGED <<h, screen, first>>, \A u \in Tabs \ {t} : again'[u] = again[u]
    PROVE  \A u \in Tabs : Own(u)'
<1>1. ASSUME NEW u \in Tabs \ {t} PROVE Own(u)'
  BY ThrowsOwn, OwnLasts DEF TabParts
<1> QED
  BY <1>1, ThrowsOwn

LEMMA CutOffKeepsOwn ==
    ASSUME TypeOK, Handlers!Parts, TabParts, [Next]_vars, NEW t \in Tabs, CutOff(t)
    PROVE  \A u \in Tabs : Own(u)'
<1>1. \A u \in Tabs \ {t} : again'[u] = again[u]
  BY DEF CutOff, TypeOK
<1>2. CASE Throws(t) /\ UNCHANGED <<screen, first>>
  BY <1>1, <1>2, RefusalKeepsOwn DEF CutOff
<1>3. CASE /\ tab' = [tab EXCEPT ![t] = Closed]
           /\ screen' = [screen EXCEPT ![t] = Blank]
           /\ first' = [first EXCEPT ![t] = NoFirst]
  <2>1. tab'[t].pc = "closed" /\ tab'[t].act = "none"
    BY <1>3 DEF TypeOK, Closed
  <2>2. Own(t)'
    BY <2>1 DEF Own, TabShape, WaitsForItsOwn, RefreshIsAfter, ReadShows, IdleShows
  <2>3. ASSUME NEW u \in Tabs \ {t} PROVE Own(u)'
    <3>1. tab'[u] = tab[u] /\ screen'[u] = screen[u] /\ first'[u] = first[u] /\ h' = h
      BY <1>3 DEF TypeOK, CutOff
    <3> QED
      BY <1>1, <3>1, OwnLasts DEF TabParts
  <2> QED
    BY <2>2, <2>3
<1> QED
  BY <1>2, <1>3 DEF CutOff

\* A list read once the effect is there shows it.
LEMMA TableShows ==
    ASSUME TypeOK, Handlers!Parts, NEW t \in Tabs, TabShape(t), Made(t)
    PROVE  Shows(t, Table)
<1>1. \A n \in NoteIds : att[n] # NoKey => row[n] = "live"
  BY DEF Handlers!Parts, Handlers!ReferenceIsOwn
<1>2. tab[t].act # "none" =>
        Table[tab[t].note] = IF row[tab[t].note] # "live" THEN "none"
                             ELSE IF att[tab[t].note] = NoKey THEN "bare" ELSE "attached"
  BY DEF TabShape, Table
<1>3. tab[t].act # "none" => row[tab[t].note] \in {"absent", "live", "deleted"}
  BY DEF TypeOK, Api!TypeOK, TabShape
<1> QED
  BY <1>1, <1>2, <1>3 DEF Made, Shows, Gone, TabShape

LEMMA ReadAgainKeepsOwn ==
    ASSUME TypeOK, Handlers!Parts, TabParts, [Next]_vars, NEW t \in Tabs, ReadAgain(t)
    PROVE  \A u \in Tabs : Own(u)'
<1> USE DEF TypeOK
<1>1. ASSUME NEW u \in Tabs \ {t} PROVE Own(u)'
  <2>1. /\ tab'[u] = tab[u] /\ first'[u] = first[u] /\ screen' = screen
        /\ again'[u] = again[u] /\ h' = h
    BY DEF ReadAgain, backend
  <2> QED
    BY <2>1, OwnLasts DEF TabParts
<1>2. tab'[t] = [tab[t] EXCEPT !.pc = "read"]
  BY DEF ReadAgain
<1>3. tab'[t].pc = "read" /\ tab'[t].act = tab[t].act /\ tab'[t].note = tab[t].note
  BY <1>2 DEF Tab
<1>4. Own(t) /\ tab[t].pc = "refresh"
  BY DEF TabParts, ReadAgain
<1>5. Shows(t, Table)
  BY <1>4, TableShows DEF Own, RefreshIsAfter
<1>6. Shows(t, again[t])'
  BY <1>3, <1>5 DEF ReadAgain, Shows, Gone, backend
<1>7. first'[t].pc # "read"
  BY DEF ReadAgain, First
<1> QED
  BY <1>1, <1>3, <1>4, <1>6, <1>7
     DEF Own, TabShape, WaitsForItsOwn, RefreshIsAfter, ReadShows, IdleShows

LEMMA ShowAgainKeepsOwn ==
    ASSUME TypeOK, Handlers!Parts, TabParts, [Next]_vars, NEW t \in Tabs, ShowAgain(t)
    PROVE  \A u \in Tabs : Own(u)'
<1> USE DEF TypeOK
<1>1. ASSUME NEW u \in Tabs \ {t} PROVE Own(u)'
  <2>1. /\ tab'[u] = tab[u] /\ first'[u] = first[u] /\ screen'[u] = screen[u]
        /\ again'[u] = again[u] /\ h' = h
    BY DEF ShowAgain, backend
  <2> QED
    BY <2>1, OwnLasts DEF TabParts
<1>2. tab'[t] = [tab[t] EXCEPT !.pc = "idle", !.key = NoKey, !.err = FALSE]
  BY DEF ShowAgain
<1>3. tab'[t].pc = "idle" /\ tab'[t].act = tab[t].act /\ tab'[t].note = tab[t].note
  BY <1>2 DEF Tab
<1>4. Own(t) /\ tab[t].pc = "read"
  BY DEF TabParts, ShowAgain
<1>5. Shows(t, screen[t])'
  BY <1>3, <1>4 DEF ShowAgain, Own, ReadShows, Shows, Gone, backend
<1>6. first'[t].pc # "read"
  BY <1>4 DEF ShowAgain, First, Own, ReadShows
<1> QED
  BY <1>1, <1>3, <1>4, <1>5, <1>6
     DEF Own, TabShape, WaitsForItsOwn, RefreshIsAfter, ReadShows, IdleShows

\* A tab whose request arrived waits for the handler that serves it, or goes
\* on to the list.
LEMMA AwaitsOwn ==
    ASSUME TypeOK, NEW t \in Tabs, NEW n \in NoteIds, NEW c \in Conns,
           NEW act \in {"create", "delete"}, Awaits(t, act, n, c),
           h'[c] # Api!Idle => /\ h'[c].id = n
                               /\ h'[c].pc = IF act = "create" THEN "publish" ELSE "remove",
           IF act = "create" THEN row'[n] # "absent" ELSE row'[n] = "deleted"
    PROVE  /\ Own(t)'
           /\ tab'[t].pc = "wait" => tab'[t].conn = c
           /\ \A u \in Tabs \ {t} : tab'[u] = tab[u]
<1>1. /\ tab'[t].pc = IF h'[c] = Api!Idle THEN "refresh" ELSE "wait"
      /\ tab'[t].act = act /\ tab'[t].note = n
      /\ tab'[t].conn = IF h'[c] = Api!Idle THEN NoConn ELSE c
  BY DEF Awaits, TypeOK
<1>2. \A u \in Tabs \ {t} : tab'[u] = tab[u]
  BY DEF Awaits, TypeOK
<1>3. Made(t)'
  BY <1>1 DEF Made, Gone
<1>4. TabShape(t)' /\ ReadShows(t)' /\ IdleShows(t)' /\ RefreshIsAfter(t)'
  BY <1>1, <1>3 DEF TabShape, ReadShows, IdleShows, RefreshIsAfter
<1>5. WaitsForItsOwn(t)'
  BY <1>1, <1>3 DEF WaitsForItsOwn, Serves
<1> QED
  BY <1>1, <1>2, <1>4, <1>5 DEF Own

\* Nobody waits for a connection that serves nothing.
LEMMA IdleIsFree ==
    ASSUME TypeOK, TabParts, NEW t \in Tabs, NEW c \in Conns, h[c] = Api!Idle,
           tab[t].pc = "wait"
    PROVE  tab[t].conn # c
<1>1. h[c].pc = "idle"
  BY DEF Api!Idle, Api!At
<1>2. tab[t].act \in {"create", "delete", "attach"}
  BY DEF TabParts, Own, TabShape, TypeOK, Tab
<1> QED
  BY <1>1, <1>2 DEF TabParts, Own, WaitsForItsOwn, Serves

\* The requests of CreateNote and DeleteNote, on a connection that was free.
LEMMA RequestKeepsOwn ==
    ASSUME TypeOK, Handlers!Parts, TabParts, [Next]_vars, NEW t \in Tabs, NEW n \in NoteIds,
           CreateNote(t, n) \/ DeleteNote(t, n)
    PROVE  \A u \in Tabs : Own(u)'
<1>1. first' = first /\ screen' = screen /\ again' = again
  BY DEF CreateNote, DeleteNote, Quiet
<1>2. ASSUME NEW c \in Conns, Api!CreateNote(c, n), Awaits(t, "create", n, c)
      PROVE  \A u \in Tabs : Own(u)'
  <2>1. h[c] = Api!Idle /\ \A d \in Conns \ {c} : h'[d] = h[d]
    BY <1>2 DEF Api!CreateNote, TypeOK, Api!TypeOK
  <2>2. h'[c].id = n /\ h'[c].pc = "publish" /\ row'[n] = "live"
    BY <1>2 DEF Api!CreateNote, Api!Insert, Api!At, TypeOK, Api!TypeOK
  <2>3. Own(t)' /\ \A u \in Tabs \ {t} : tab'[u] = tab[u]
    BY <1>2, <2>2, AwaitsOwn
  <2>4. ASSUME NEW u \in Tabs \ {t} PROVE Own(u)'
    <3>1. tab[u].pc = "wait" => tab[u].conn \in Conns \ {c}
      BY <2>1, IdleIsFree DEF TabParts, Own, TabShape
    <3> QED
      BY <1>1, <2>1, <2>3, <3>1, OwnLasts DEF TabParts
  <2> QED
    BY <2>3, <2>4
<1>3. ASSUME NEW c \in Conns, Api!DeleteNote(c, n), Awaits(t, "delete", n, c)
      PROVE  \A u \in Tabs : Own(u)'
  <2>1. h[c] = Api!Idle /\ \A d \in Conns \ {c} : h'[d] = h[d]
    BY <1>3 DEF Api!DeleteNote, TypeOK, Api!TypeOK
  <2>2. /\ row'[n] = "deleted"
        /\ h'[c] # Api!Idle => h'[c].id = n /\ h'[c].pc = "remove"
    BY <1>3, <2>1 DEF Api!DeleteNote, Api!DeleteReturning, Api!At, TypeOK, Api!TypeOK
  <2>3. Own(t)' /\ \A u \in Tabs \ {t} : tab'[u] = tab[u]
    BY <1>3, <2>2, AwaitsOwn
  <2>4. ASSUME NEW u \in Tabs \ {t} PROVE Own(u)'
    <3>1. tab[u].pc = "wait" => tab[u].conn \in Conns \ {c}
      BY <2>1, IdleIsFree DEF TabParts, Own, TabShape
    <3> QED
      BY <1>1, <2>1, <2>3, <3>1, OwnLasts DEF TabParts
  <2> QED
    BY <2>3, <2>4
<1>4. ASSUME NEW c \in Conns, Api!CreateLost(c, n) \/ Api!DeleteLost(c, n), Throws(t)
      PROVE  \A u \in Tabs : Own(u)'
  BY <1>1, <1>4, RefusalKeepsOwn DEF Api!CreateLost, Api!DeleteLost
<1> QED
  BY <1>2, <1>3, <1>4 DEF CreateNote, DeleteNote

LEMMA AttachKeepsOwn ==
    ASSUME TypeOK, Handlers!Parts, TabParts, [Next]_vars, NEW t \in Tabs, NEW n \in NoteIds,
           NEW k \in Keys, Attach(t, n, k)
    PROVE  \A u \in Tabs : Own(u)'
<1>1. first' = first /\ screen' = screen /\ again' = again /\ h' = h
  BY DEF Attach, Quiet, Api!PresignAttachmentUpload
<1>2. ASSUME NEW u \in Tabs \ {t} PROVE Own(u)'
  <2>1. tab'[u] = tab[u]
    BY DEF Attach, TypeOK
  <2> QED
    BY <1>1, <2>1, OwnLasts DEF TabParts
<1>3. /\ tab'[t].pc = "upload" /\ tab'[t].act = "attach"
      /\ tab'[t].note = n /\ tab'[t].key = k
  BY DEF Attach, TypeOK
<1> QED
  BY <1>2, <1>3 DEF Own, TabShape, WaitsForItsOwn, RefreshIsAfter, ReadShows, IdleShows

LEMMA UploadKeepsOwn ==
    ASSUME TypeOK, Handlers!Parts, TabParts, [Next]_vars, NEW t \in Tabs, Upload(t)
    PROVE  \A u \in Tabs : Own(u)'
<1>1. first' = first /\ screen' = screen /\ again' = again /\ h' = h
  BY DEF Upload, Quiet, Api!Upload
<1>2. ASSUME NEW u \in Tabs \ {t} PROVE Own(u)'
  <2>1. tab'[u] = tab[u]
    BY DEF Upload, TypeOK
  <2> QED
    BY <1>1, <2>1, OwnLasts DEF TabParts
<1>3. tab'[t] = [tab[t] EXCEPT !.pc = "confirm"]
  BY DEF Upload, TypeOK
<1>4. /\ tab'[t].pc = "confirm" /\ tab'[t].act = tab[t].act
      /\ tab'[t].note = tab[t].note /\ tab'[t].key = tab[t].key
  BY <1>3 DEF TypeOK, Tab
<1>5. TabShape(t) /\ tab[t].pc = "upload"
  BY DEF TabParts, Own, Upload
<1> QED
  BY <1>2, <1>4, <1>5 DEF Own, TabShape, WaitsForItsOwn, RefreshIsAfter, ReadShows, IdleShows

LEMMA ConfirmKeepsOwn ==
    ASSUME TypeOK, Handlers!Parts, TabParts, [Next]_vars, NEW t \in Tabs, Confirm(t)
    PROVE  \A u \in Tabs : Own(u)'
<1>1. first' = first /\ screen' = screen /\ again' = again
  BY DEF Confirm, Quiet
<1>2. PICK c \in Conns : /\ Api!ConfirmGet(c, tab[t].note, tab[t].key)
                         /\ tab' = [tab EXCEPT ![t].pc = "wait", ![t].conn = c]
  BY DEF Confirm
<1>3. h[c] = Api!Idle /\ \A d \in Conns \ {c} : h'[d] = h[d]
  BY <1>2 DEF Api!ConfirmGet, TypeOK, Api!TypeOK
<1>4. h'[c].pc = "stat" /\ h'[c].id = tab[t].note
  BY <1>2 DEF Api!ConfirmGet, Api!At, TypeOK, Api!TypeOK
<1>5. ASSUME NEW u \in Tabs \ {t} PROVE Own(u)'
  <2>1. tab'[u] = tab[u]
    BY <1>2 DEF TypeOK
  <2>2. tab[u].pc = "wait" => tab[u].conn \in Conns \ {c}
    BY <1>3, IdleIsFree DEF TabParts, Own, TabShape
  <2> QED
    BY <1>1, <1>3, <2>1, <2>2, OwnLasts DEF TabParts
<1>6. tab'[t] = [tab[t] EXCEPT !.pc = "wait", !.conn = c]
  BY <1>2 DEF TypeOK
<1>7. /\ tab'[t].pc = "wait" /\ tab'[t].act = tab[t].act
      /\ tab'[t].note = tab[t].note /\ tab'[t].conn = c
  BY <1>6 DEF TypeOK, Tab
<1>8. TabShape(t) /\ tab[t].act = "attach"
  BY DEF TabParts, Own, TabShape, Confirm
<1>9. WaitsForItsOwn(t)'
  BY <1>4, <1>7, <1>8 DEF WaitsForItsOwn, Serves
<1> QED
  BY <1>5, <1>7, <1>8, <1>9 DEF Own, TabShape, RefreshIsAfter, ReadShows, IdleShows

LEMMA DownloadKeepsOwn ==
    ASSUME TypeOK, Handlers!Parts, TabParts, [Next]_vars, NEW t \in Tabs, NEW n \in NoteIds,
           Download(t, n)
    PROVE  \A u \in Tabs : Own(u)'
<1> SUFFICES ASSUME NEW u \in Tabs PROVE Own(u)'
  OBVIOUS
<1>1. first' = first /\ screen' = screen /\ again' = again /\ h' = h
  BY DEF Download, Quiet, backend
<1>2. tab'[u] = tab[u] \/ tab'[u] = [tab[u] EXCEPT !.err = TRUE]
  BY DEF Download, TypeOK
<1>3. /\ tab'[u].pc = tab[u].pc /\ tab'[u].act = tab[u].act /\ tab'[u].key = tab[u].key
      /\ tab'[u].note = tab[u].note /\ tab'[u].conn = tab[u].conn
  BY <1>2 DEF TypeOK, Tab
<1> QED
  BY <1>1, <1>3, OwnLasts DEF TabParts

\* The three ways a handler's next call ends: there is another one, ...
CallGoesOn(c) ==
    /\ tab' = tab
    /\ h'[c].id = h[c].id
    /\ \/ h[c].pc = "stat" /\ h'[c].pc = "set"
       \/ h[c].pc = "set" /\ h'[c].pc = "drop" /\ att'[h[c].id] \in Keys

\* ... the handler answers, its effect being there, ...
Answers(c) ==
    /\ Succeeds(c)
    /\ h'[c] = Api!Idle
    /\ h[c].pc # "stat"
    /\ h[c].pc = "set" => att'[h[c].id] \in Keys

\* ... or it answers with an error.
Refuses(c) == h'[c] = Api!Idle /\ FailsOn(c)

LEMMA ServeEffect ==
    ASSUME TypeOK, Handlers!Parts, NEW c \in Conns, Serve(c)
    PROVE  /\ CallGoesOn(c) \/ Answers(c) \/ Refuses(c)
           /\ \A e \in Conns \ {c} : h'[e] = h[e]
<1> USE DEF TypeOK, Api!TypeOK
<1> DEFINE Others == \A e \in Conns \ {c} : h'[e] = h[e]
<1>1. Api!Done(c) => h'[c] = Api!Idle /\ Others
  BY DEF Api!Done
<1>2. ASSUME NEW pc, h' = [h EXCEPT ![c].pc = pc] PROVE h'[c].id = h[c].id /\ h'[c].pc = pc /\ Others
  <2>1. h'[c] = [h[c] EXCEPT !.pc = pc]
    BY <1>2
  <2>2. h[c] \in Api!Handler
    OBVIOUS
  <2>3. h'[c].id = h[c].id /\ h'[c].pc = pc
    BY <2>1, <2>2 DEF Api!Handler
  <2> QED
    BY <1>2, <2>3
<1>3. ASSUME NEW pc \in {"set", "drop"}, h' = [h EXCEPT ![c].pc = pc], Succeeds(c) \/ FailsOn(c)
      PROVE  tab' = tab
  <2>1. h'[c] # Api!Idle
    BY <1>2, <1>3 DEF Api!Idle, Api!At
  <2> QED
    BY <1>3, <2>1 DEF Succeeds, FailsOn
<1>4. CASE Succeeds(c) /\ (Api!PublishCreated(c) \/ Api!RemoveObject(c)
                            \/ (Api!Abort(c) /\ h[c].pc \in {"remove", "drop"}))
  BY <1>1, <1>4 DEF Api!PublishCreated, Api!RemoveObject, Api!Abort, Answers
<1>5. CASE Succeeds(c) /\ Api!ConfirmSet(c)
  <2>1. h[c].id \in NoteIds /\ h[c].key \in Keys
    BY <1>5 DEF Api!ConfirmSet, Api!SetAttachment, Handlers!Parts, Handlers!HandlerShape
  <2>2. h[c].pc = "set" /\ att'[h[c].id] \in Keys
    BY <1>5, <2>1 DEF Api!ConfirmSet, Api!SetAttachment
  <2>3. CASE h' = [h EXCEPT ![c].pc = "drop"]
    BY <1>2, <1>3, <1>5, <2>2, <2>3 DEF CallGoesOn
  <2>4. CASE Api!Done(c)
    BY <1>1, <1>5, <2>2, <2>4 DEF Answers
  <2> QED
    BY <1>5, <2>3, <2>4 DEF Api!ConfirmSet
<1>6. CASE FailsOn(c) /\ Api!ConfirmStat(c)
  <2>1. CASE h' = [h EXCEPT ![c].pc = "set"]
    BY <1>2, <1>3, <1>6, <2>1 DEF CallGoesOn, Api!ConfirmStat
  <2>2. CASE Api!Done(c)
    BY <1>1, <1>6, <2>2 DEF Refuses
  <2> QED
    BY <1>6, <2>1, <2>2 DEF Api!ConfirmStat
<1>7. CASE FailsOn(c) /\ (Api!ConfirmGone(c) \/ Api!ConfirmSetLost(c) \/ Api!Abort(c))
  BY <1>1, <1>7 DEF Api!ConfirmGone, Api!ConfirmSetLost, Api!Abort, Refuses
<1> QED
  BY <1>4, <1>5, <1>6, <1>7 DEF Serve

LEMMA ServeKeepsOwn ==
    ASSUME TypeOK, Handlers!Parts, TabParts, [Next]_vars, NEW c \in Conns, Serve(c)
    PROVE  \A u \in Tabs : Own(u)'
<1> SUFFICES ASSUME NEW u \in Tabs PROVE Own(u)'
  OBVIOUS
<1>1. first' = first /\ screen' = screen /\ again' = again
  BY DEF Serve, Quiet
<1>2. /\ Own(u) /\ OneWaits /\ TabShape(u) /\ (tab[u].pc = "wait" => Serves(tab[u].conn, u))
      /\ tab[u].pc = "wait" => tab[u].conn \in Conns
  BY DEF TabParts, Own, WaitsForItsOwn, TabShape
<1>3. \A e \in Conns \ {c} : h'[e] = h[e]
  BY ServeEffect
<1>4. CASE u \notin Waiting(c)
  <2>1. tab'[u] = tab[u]
    <3>1. CASE CallGoesOn(c)
      BY <3>1 DEF CallGoesOn
    <3>2. CASE Answers(c)
      BY <1>4, <3>2 DEF Answers, Succeeds
    <3>3. CASE Refuses(c)
      BY <1>4, <3>3, ThrowsOwn DEF Refuses, FailsOn, Waiting
    <3> QED
      BY <3>1, <3>2, <3>3, ServeEffect
  <2>2. tab[u].pc = "wait" => h'[tab[u].conn] = h[tab[u].conn]
    BY <1>2, <1>3, <1>4 DEF Waiting
  <2> QED
    BY <1>1, <1>2, <2>1, <2>2, OwnLasts
<1>5. CASE u \in Waiting(c)
  <2>1. tab[u].pc = "wait" /\ tab[u].conn = c
    BY <1>5 DEF Waiting
  <2>2. tab[u].act \in {"create", "delete", "attach"} /\ tab[u].note \in NoteIds
    BY <1>2, <2>1 DEF TabShape, TypeOK, Tab
  <2>3. /\ h[c].id = tab[u].note
        /\ h[c].pc \in {"stat", "set"} => tab[u].act = "attach"
        /\ h[c].pc \notin {"stat", "set"} => Made(u)
    BY <1>2, <2>1, <2>2 DEF Own, WaitsForItsOwn, Serves
  <2>4. CASE CallGoesOn(c)
    <3>1. tab'[u] = tab[u] /\ tab[u].act = "attach"
      BY <2>3, <2>4 DEF CallGoesOn
    <3>2. Serves(c, u)'
      BY <2>3, <2>4, <3>1 DEF CallGoesOn, Serves
    <3>3. h'[c].pc = "drop" => Made(u)'
      BY <2>3, <2>4, <3>1, FrontendAssumption DEF CallGoesOn, Made
    <3>4. WaitsForItsOwn(u)'
      BY <2>1, <2>4, <3>1, <3>2, <3>3 DEF CallGoesOn, WaitsForItsOwn
    <3> QED
      BY <1>2, <2>1, <3>1, <3>4
         DEF Own, TabShape, RefreshIsAfter, ReadShows, IdleShows
  <2>5. CASE Answers(c)
    <3>1. tab'[u] = [tab[u] EXCEPT !.pc = "refresh", !.conn = NoConn]
      BY <1>5, <2>5 DEF Answers, Succeeds
    <3>2. tab'[u].pc = "refresh" /\ tab'[u].act = tab[u].act /\ tab'[u].note = tab[u].note
      BY <3>1 DEF TypeOK, Tab
    <3>3. CASE h[c].pc = "set"
      BY <2>2, <2>3, <2>5, <3>2, <3>3, FrontendAssumption
         DEF Answers, Made, Own, TabShape, RefreshIsAfter, ReadShows, IdleShows, WaitsForItsOwn
    <3>4. CASE h[c].pc # "set"
      <4>1. Made(u)'
        BY <1>2, <2>3, <2>5, <3>2, <3>4, MadeLasts DEF Answers
      <4> QED
        BY <2>2, <3>2, <4>1
           DEF Own, TabShape, RefreshIsAfter, ReadShows, IdleShows, WaitsForItsOwn
    <3> QED
      BY <3>3, <3>4
  <2>6. CASE Refuses(c)
    <3>1. Throws(u)
      BY <1>2, <1>5, <2>6 DEF Refuses, FailsOn, Waiting, OneWaits
    <3> QED
      BY <3>1, ThrowsOwn
  <2> QED
    BY <2>4, <2>5, <2>6, ServeEffect
<1> QED
  BY <1>4, <1>5

LEMMA NextOwn ==
    ASSUME TypeOK, Handlers!Parts, TabParts, [Next]_vars
    PROVE  \A u \in Tabs : Own(u)'
<1>1. ASSUME NEW t \in Tabs, InvalidNote(t) \/ UploadRefused(t) \/ ConfirmRefused(t) \/ ConfirmNotFound(t)
      PROVE  \A u \in Tabs : Own(u)'
  BY <1>1, RefusalKeepsOwn DEF InvalidNote, UploadRefused, ConfirmRefused, ConfirmNotFound, Quiet, backend
<1>2. ASSUME NEW t \in Tabs, NEW n \in NoteIds, InvalidFile(t, n) \/ NotFound(t, n)
      PROVE  \A u \in Tabs : Own(u)'
  BY <1>2, RefusalKeepsOwn DEF InvalidFile, NotFound, Quiet, backend
<1>3. ASSUME NEW t \in Tabs, GoesOn(t) PROVE \A u \in Tabs : Own(u)'
  BY <1>1, <1>3, UploadKeepsOwn, ConfirmKeepsOwn, ReadAgainKeepsOwn, ShowAgainKeepsOwn DEF GoesOn
<1>4. CASE UNCHANGED vars
  <2>1. tab' = tab /\ screen' = screen /\ first' = first /\ again' = again /\ h' = h
    BY <1>4 DEF vars, backend
  <2> QED
    BY <2>1, OwnLasts DEF TabParts
<1>5. CASE Next
  BY <1>1, <1>2, <1>3, <1>5, FirstKeepsOwn, CutOffKeepsOwn, RequestKeepsOwn, AttachKeepsOwn,
     DownloadKeepsOwn, ServeKeepsOwn DEF Next
<1> QED
  BY <1>4, <1>5

-----------------------------------------------------------------------------
(* One tab waits for an answer.                                            *)

\* Nobody starts to wait.
LEMMA NobodyJoins ==
    ASSUME OneWaits,
           \A u \in Tabs : tab'[u].pc = "wait" =>
                             tab[u].pc = "wait" /\ tab'[u].conn = tab[u].conn
    PROVE  OneWaits'
BY DEF OneWaits

\* One tab starts to wait, on a connection that was free.
LEMMA OneJoins ==
    ASSUME TypeOK, TabParts, NEW t \in Tabs, NEW c \in Conns, h[c] = Api!Idle,
           tab'[t].pc = "wait" => tab'[t].conn = c,
           \A u \in Tabs \ {t} : tab'[u] = tab[u]
    PROVE  OneWaits'
BY IdleIsFree DEF OneWaits, TabParts

LEMMA ThrowsKeepsOneWaits == ASSUME TypeOK, TabParts, NEW t \in Tabs, Throws(t) PROVE OneWaits'
BY ThrowsOwn, NobodyJoins DEF TabParts

LEMMA NextOneWaits == ASSUME TypeOK, Handlers!Parts, TabParts, [Next]_vars PROVE OneWaits'
<1> USE DEF TypeOK
<1>0. OneWaits
  BY DEF TabParts
<1>1. ASSUME NEW t \in Tabs, NEW pc \in TabPcs \ {"wait"}, tab'[t].pc = pc,
             \A u \in Tabs \ {t} : tab'[u] = tab[u]
      PROVE  OneWaits'
  BY <1>0, <1>1, NobodyJoins
<1>2. ASSUME NEW t \in Tabs, Open(t) \/ ReadAgain(t) \/ ShowAgain(t) \/ Upload(t)
      PROVE  OneWaits'
  <2>1. tab'[t].pc \in TabPcs \ {"wait"}
    BY <1>2 DEF Open, ReadAgain, ShowAgain, Upload, Tab, TabPcs
  <2>2. \A u \in Tabs \ {t} : tab'[u] = tab[u]
    BY <1>2 DEF Open, ReadAgain, ShowAgain, Upload
  <2> QED
    BY <1>1, <2>1, <2>2
<1>3. ASSUME NEW t \in Tabs, ShowFirst(t) PROVE OneWaits'
  BY <1>0, <1>3, NobodyJoins DEF ShowFirst
<1>4. ASSUME NEW t \in Tabs, tab' = [tab EXCEPT ![t].err = TRUE] PROVE OneWaits'
  <2>1. ASSUME NEW u \in Tabs PROVE tab'[u].pc = tab[u].pc /\ tab'[u].conn = tab[u].conn
    <3>1. tab'[u] = tab[u] \/ tab'[u] = [tab[u] EXCEPT !.err = TRUE]
      BY <1>4
    <3> QED
      BY <3>1 DEF Tab
  <2> QED
    BY <1>0, <2>1, NobodyJoins
<1>5. ASSUME NEW t \in Tabs, Throws(t) PROVE OneWaits'
  BY <1>5, ThrowsKeepsOneWaits
<1>6. ASSUME NEW t \in Tabs, CutOff(t) PROVE OneWaits'
  <2>1. CASE tab' = [tab EXCEPT ![t] = Closed]
    BY <1>1, <2>1 DEF Closed, TabPcs
  <2> QED
    BY <1>5, <1>6, <2>1 DEF CutOff
<1>7. ASSUME NEW t \in Tabs, NEW n \in NoteIds, NEW c \in Conns, NEW act, h[c] = Api!Idle,
             Awaits(t, act, n, c)
      PROVE  OneWaits'
  <2>1. /\ tab'[t].pc = "wait" => tab'[t].conn = c
        /\ \A u \in Tabs \ {t} : tab'[u] = tab[u]
    BY <1>7 DEF Awaits
  <2> QED
    BY <1>7, <2>1, OneJoins
<1>8. ASSUME NEW t \in Tabs, NEW n \in NoteIds, CreateNote(t, n) \/ DeleteNote(t, n)
      PROVE  OneWaits'
  BY <1>5, <1>7, <1>8 DEF CreateNote, DeleteNote, Api!CreateNote, Api!DeleteNote
<1>9. ASSUME NEW t \in Tabs, NEW n \in NoteIds, NEW k \in Keys, Attach(t, n, k)
      PROVE  OneWaits'
  BY <1>1, <1>9 DEF Attach, TabPcs
<1>10. ASSUME NEW t \in Tabs, Confirm(t) PROVE OneWaits'
  <2>1. PICK c \in Conns : /\ h[c] = Api!Idle
                           /\ tab' = [tab EXCEPT ![t].pc = "wait", ![t].conn = c]
    BY <1>10 DEF Confirm, Api!ConfirmGet
  <2>2. tab'[t] = [tab[t] EXCEPT !.pc = "wait", !.conn = c]
    BY <2>1
  <2>3. tab'[t].conn = c
    BY <2>2 DEF Tab
  <2>4. \A u \in Tabs \ {t} : tab'[u] = tab[u]
    BY <2>1
  <2> QED
    BY <2>1, <2>3, <2>4, OneJoins
<1>11. ASSUME NEW c \in Conns, Serve(c) PROVE OneWaits'
  <2>1. CASE CallGoesOn(c)
    BY <1>0, <2>1, NobodyJoins DEF CallGoesOn
  <2>2. CASE Answers(c)
    <3>1. \A u \in Tabs : tab'[u] = tab[u]
                          \/ tab'[u] = [tab[u] EXCEPT !.pc = "refresh", !.conn = NoConn]
      BY <2>2 DEF Answers, Succeeds
    <3>2. \A u \in Tabs : tab'[u] = tab[u] \/ tab'[u].pc = "refresh"
      BY <3>1 DEF Tab
    <3> QED
      BY <1>0, <3>2, NobodyJoins
  <2>3. CASE Refuses(c)
    <3>1. CASE UNCHANGED tab
      BY <1>0, <3>1, NobodyJoins
    <3>2. CASE \E t \in Waiting(c) : Throws(t)
      BY <1>5, <3>2 DEF Waiting
    <3> QED
      BY <2>3, <3>1, <3>2 DEF Refuses, FailsOn
  <2> QED
    BY <1>11, <2>1, <2>2, <2>3, ServeEffect
<1>12. CASE UNCHANGED vars
  BY <1>0, <1>12, NobodyJoins DEF vars
<1>13. ASSUME NEW t \in Tabs, GoesOn(t) \/ InvalidNote(t) PROVE OneWaits'
  BY <1>2, <1>5, <1>10, <1>13 DEF GoesOn, InvalidNote, UploadRefused, ConfirmRefused, ConfirmNotFound
<1>14. ASSUME NEW t \in Tabs, NEW n \in NoteIds,
              Download(t, n) \/ InvalidFile(t, n) \/ NotFound(t, n)
       PROVE  OneWaits'
  BY <1>4, <1>5, <1>14 DEF Download, InvalidFile, NotFound
<1>15. ASSUME NEW t \in Tabs, FirstFails(t) PROVE OneWaits'
  BY <1>4, <1>15 DEF FirstFails
<1> QED
  BY <1>2, <1>3, <1>6, <1>8, <1>9, <1>11, <1>12, <1>13, <1>14, <1>15 DEF Next

-----------------------------------------------------------------------------
(* A tab on its own.                                                       *)

LEMMA NoFault == ASSUME TypeOK, faults' = 0 PROVE ~Api!Fault
BY FrontendAssumption DEF TypeOK, Api!TypeOK, Api!Fault

\* What a page or its user does.
Acts(t) ==
    \/ Open(t) \/ InvalidNote(t) \/ GoesOn(t)
    \/ \E n \in NoteIds : \/ CreateNote(t, n) \/ DeleteNote(t, n) \/ Download(t, n)
                          \/ InvalidFile(t, n) \/ NotFound(t, n)
    \/ \E n \in NoteIds, k \in Keys : Attach(t, n, k)

LEMMA NextCases ==
    ASSUME [Next]_vars
    PROVE  \/ \E t \in Tabs : Acts(t) \/ ShowFirst(t) \/ FirstFails(t) \/ CutOff(t)
           \/ \E c \in Conns : Serve(c)
           \/ UNCHANGED vars
BY DEF Next, Acts

\* A page that is still closed took no part in a step of a browser, ...
LEMMA ActorIsOpen ==
    ASSUME TypeOK, TabParts, NEW t \in Tabs, Acts(t)
    PROVE  tab'[t].pc # "closed" /\ \A u \in Tabs \ {t} : tab'[u] = tab[u]
<1> USE DEF TypeOK
<1>1. CASE Throws(t)
  BY <1>1, ThrowsOwn
<1>2. CASE Open(t)
  BY <1>2 DEF Open, Tab
<1>3. CASE GoesOn(t)
  <2>1. CASE Upload(t)
    BY <2>1 DEF Upload, Tab
  <2>2. CASE Confirm(t)
    <3>1. PICK c \in Conns : tab' = [tab EXCEPT ![t].pc = "wait", ![t].conn = c]
      BY <2>2 DEF Confirm
    <3>2. tab'[t] = [tab[t] EXCEPT !.pc = "wait", !.conn = c]
      BY <3>1
    <3>3. tab'[t].pc = "wait"
      BY <3>2 DEF Tab
    <3> QED
      BY <3>1, <3>3
  <2>3. CASE ReadAgain(t)
    BY <2>3 DEF ReadAgain, Tab
  <2>4. CASE ShowAgain(t)
    <3>1. tab'[t] = [tab[t] EXCEPT !.pc = "idle", !.key = NoKey, !.err = FALSE]
      BY <2>4 DEF ShowAgain
    <3>2. tab'[t].pc = "idle"
      BY <3>1 DEF Tab
    <3> QED
      BY <2>4, <3>2 DEF ShowAgain
  <2> QED
    BY <1>1, <1>3, <2>1, <2>2, <2>3, <2>4 DEF GoesOn, UploadRefused, ConfirmRefused, ConfirmNotFound
<1>4. ASSUME NEW n \in NoteIds, NEW c \in Conns, NEW act, Awaits(t, act, n, c)
      PROVE  tab'[t].pc # "closed" /\ \A u \in Tabs \ {t} : tab'[u] = tab[u]
  BY <1>4 DEF Awaits
<1>5. ASSUME NEW n \in NoteIds, Download(t, n)
      PROVE  tab'[t].pc # "closed" /\ \A u \in Tabs \ {t} : tab'[u] = tab[u]
  BY <1>5 DEF Download, Tab
<1>6. ASSUME NEW n \in NoteIds, NEW k \in Keys, Attach(t, n, k)
      PROVE  tab'[t].pc # "closed" /\ \A u \in Tabs \ {t} : tab'[u] = tab[u]
  BY <1>6 DEF Attach
<1> QED
  BY <1>1, <1>2, <1>3, <1>4, <1>5, <1>6
     DEF Acts, InvalidNote, CreateNote, DeleteNote, InvalidFile, NotFound

\* ... nor in an answer.
LEMMA AnswerIsToOpen ==
    ASSUME TypeOK, Handlers!Parts, NEW c \in Conns, Serve(c),
           NEW u \in Tabs, tab'[u].pc = "closed"
    PROVE  tab[u].pc = "closed"
<1> USE DEF TypeOK
<1>1. CASE CallGoesOn(c)
  BY <1>1 DEF CallGoesOn
<1>2. CASE Answers(c)
  <2>1. tab'[u] = tab[u] \/ tab'[u] = [tab[u] EXCEPT !.pc = "refresh", !.conn = NoConn]
    BY <1>2 DEF Answers, Succeeds
  <2> QED
    BY <2>1 DEF Tab
<1>3. CASE Refuses(c)
  <2>1. ASSUME NEW t \in Waiting(c), Throws(t) PROVE tab[u].pc = "closed"
    BY <2>1, ThrowsOwn DEF Waiting
  <2> QED
    BY <1>3, <2>1 DEF Refuses, FailsOn
<1> QED
  BY <1>1, <1>2, <1>3, ServeEffect

\* A tab that is on its own always was.
LEMMA AloneBefore ==
    ASSUME TypeOK, Handlers!Parts, TabParts, [Next]_vars, NEW t \in Tabs, Alone(t)'
    PROVE  Alone(t)
<1>1. faults' = 0 /\ \A u \in Tabs \ {t} : tab'[u].pc = "closed"
  BY DEF Alone
<1>2. ~Api!Fault
  BY <1>1, NoFault
<1>3. faults = 0
  <2>1. faults \in Nat
    BY FrontendAssumption DEF TypeOK, Api!TypeOK
  <2>2. ASSUME NEW c \in Conns, Handlers!Step(c) PROVE faults' \in {faults, faults + 1}
    BY <2>2 DEF Handlers!Step, Handlers!PublishCreated, Handlers!RemoveObject,
                Handlers!ConfirmStat, Handlers!ConfirmSet, Handlers!ConfirmGone,
                Handlers!ConfirmSetLost, Handlers!Abort, Handlers!Fault
  <2>3. ASSUME NEW c \in Conns, NEW n \in NoteIds, Handlers!Request(c, n)
        PROVE  faults' \in {faults, faults + 1}
    BY <2>3 DEF Handlers!Request, Handlers!CreateNote, Handlers!CreateLost,
                Handlers!DeleteNote, Handlers!DeleteLost, Handlers!ConfirmGet, Handlers!Fault
  <2>4. faults' \in {faults, faults + 1}
    <3>1. CASE Handlers!Next
      BY <2>2, <2>3, <3>1 DEF Handlers!Next, Handlers!PresignAttachmentUpload,
                              Handlers!Upload, Handlers!Expire
    <3>2. CASE UNCHANGED backend
      BY <3>2 DEF backend
    <3> QED
      BY <1>2, <3>1, <3>2, NextBackend DEF LostOnTheWay, TypeOK
  <2> QED
    BY <1>1, <2>1, <2>4
<1>4. ASSUME NEW u \in Tabs \ {t} PROVE tab[u].pc = "closed"
  <2>1. tab'[u].pc = "closed"
    BY <1>1
  <2>2. ASSUME NEW v \in Tabs, ShowFirst(v) \/ FirstFails(v) \/ CutOff(v) PROVE tab[u].pc = "closed"
    BY <1>2, <2>1, <2>2 DEF ShowFirst, FirstFails, CutOff
  <2>3. CASE UNCHANGED vars
    BY <2>1, <2>3 DEF vars
  <2>4. ASSUME NEW v \in Tabs, Acts(v) PROVE tab[u].pc = "closed"
    BY <2>1, <2>4, ActorIsOpen
  <2>5. ASSUME NEW c \in Conns, Serve(c) PROVE tab[u].pc = "closed"
    BY <2>1, <2>5, AnswerIsToOpen
  <2> QED
    BY <2>2, <2>3, <2>4, <2>5, NextCases
<1> QED
  BY <1>3, <1>4 DEF Alone

\* What is referenced after a confirmation, and after a deletion: no two
\* notes reference the same object.
LEMMA RefsAfterSet ==
    ASSUME TypeOK, Handlers!Parts, NEW n \in NoteIds, NEW k \in Keys, Owner[k] = n,
           att' = [att EXCEPT ![n] = k]
    PROVE  Refs' = (Refs \ {att[n]}) \cup {k}
<1>1. \A m \in NoteIds : att[m] # NoKey => att[m] \in Keys /\ Owner[att[m]] = m
  BY DEF TypeOK, Api!TypeOK, Handlers!Parts, Handlers!ReferenceIsOwn
<1>2. \A m \in NoteIds : att'[m] = IF m = n THEN k ELSE att[m]
  BY DEF TypeOK, Api!TypeOK
<1> QED
  BY <1>1, <1>2, FrontendAssumption DEF Refs

LEMMA RefsAfterDelete ==
    ASSUME TypeOK, Handlers!Parts, NEW n \in NoteIds, att' = [att EXCEPT ![n] = NoKey]
    PROVE  Refs' = Refs \ {att[n]}
<1>1. \A m \in NoteIds : att[m] # NoKey => att[m] \in Keys /\ Owner[att[m]] = m
  BY DEF TypeOK, Api!TypeOK, Handlers!Parts, Handlers!ReferenceIsOwn
<1>2. \A m \in NoteIds : att'[m] = IF m = n THEN NoKey ELSE att[m]
  BY DEF TypeOK, Api!TypeOK
<1> QED
  BY <1>1, <1>2, FrontendAssumption DEF Refs

-----------------------------------------------------------------------------
(* Its bucket stays exact, one lemma per kind of step.                     *)

LEMMA ExactStays ==
    ASSUME NEW t \in Tabs, Exact(t), row' = row, att' = att, objects' = objects, h' = h,
           tab'[t].pc = tab[t].pc, tab'[t].note = tab[t].note,
           tab'[t].key = tab[t].key, tab'[t].conn = tab[t].conn
    PROVE  Exact(t)'
<1>1. Refs' = Refs /\ Extra(t)' = Extra(t)
  BY DEF Refs, Extra
<1> QED
  BY <1>1 DEF Exact

\* Between two operations, and where nothing is stored in vain.
LEMMA ExactBetween ==
    ASSUME NEW t \in Tabs, Exact(t), att' = att, objects' = objects, h' = h,
           tab[t].pc \notin {"wait", "confirm"}, tab'[t].pc \notin {"wait", "confirm", "upload"}
    PROVE  Exact(t)'
<1>1. Refs' = Refs /\ Extra(t) = {} /\ Extra(t)' = {}
  BY DEF Refs, Extra
<1> QED
  BY <1>1 DEF Exact

LEMMA CreateKeepsExact ==
    ASSUME TypeOK, Handlers!Parts, NEW t \in Tabs, Exact(t), ~Api!Fault,
           NEW n \in NoteIds, CreateNote(t, n)
    PROVE  Exact(t)'
<1> USE DEF TypeOK, Api!TypeOK
<1>1. PICK c \in Conns : Api!CreateNote(c, n) /\ Awaits(t, "create", n, c)
  BY DEF CreateNote, Api!CreateLost
<1>2. /\ h'[c].pc = "publish" /\ \A e \in Conns \ {c} : h'[e] = h[e]
      /\ att' = att /\ objects' = objects
  BY <1>1 DEF Api!CreateNote, Api!Insert, Api!At
<1>3. tab[t].pc = "idle" /\ tab'[t].pc = "wait" /\ tab'[t].conn = c
  BY <1>1, <1>2 DEF CreateNote, Awaits, Api!Idle, Api!At
<1>4. Refs' = Refs /\ Extra(t) = {} /\ Extra(t)' = {}
  BY <1>2, <1>3 DEF Refs, Extra
<1> QED
  BY <1>2, <1>3, <1>4 DEF Exact

LEMMA DeleteKeepsExact ==
    ASSUME TypeOK, Handlers!Parts, NEW t \in Tabs, Exact(t), ~Api!Fault,
           NEW n \in NoteIds, DeleteNote(t, n)
    PROVE  Exact(t)'
<1> USE DEF TypeOK, Api!TypeOK
<1>1. PICK c \in Conns : Api!DeleteNote(c, n) /\ Awaits(t, "delete", n, c)
  BY DEF DeleteNote, Api!DeleteLost
<1>2. att' = [att EXCEPT ![n] = NoKey] /\ objects' = objects /\ h[c] = Api!Idle
  BY <1>1 DEF Api!DeleteNote, Api!DeleteReturning
<1>3. Refs' = Refs \ {att[n]} /\ tab[t].pc = "idle" /\ Extra(t) = {}
  BY <1>2, RefsAfterDelete DEF DeleteNote, Extra
<1>4. /\ tab'[t].pc = IF h'[c] = Api!Idle THEN "refresh" ELSE "wait"
      /\ h'[c] # Api!Idle => tab'[t].conn = c
  BY <1>1 DEF Awaits
<1>5. CASE att[n] = NoKey /\ h' = h
  <2>1. tab'[t].pc = "refresh"
    BY <1>2, <1>4, <1>5
  <2>2. Refs' = Refs /\ Extra(t)' = {}
    BY <1>3, <1>5, <2>1 DEF Extra, Refs
  <2> QED
    BY <1>2, <1>3, <1>5, <2>1, <2>2 DEF Exact
<1>6. CASE att[n] # NoKey /\ h' = [h EXCEPT ![c] = Api!At("remove", n, NoKey, att[n])]
  <2>1. /\ h'[c].pc = "remove" /\ h'[c].prev = att[n]
        /\ \A e \in Conns \ {c} : h'[e] = h[e]
    BY <1>6 DEF Api!At
  <2>2. tab'[t].pc = "wait" /\ tab'[t].conn = c
    BY <1>4, <2>1 DEF Api!Idle, Api!At
  <2>3. Extra(t)' = {att[n]} /\ att[n] \in Refs
    BY <1>6, <2>1, <2>2 DEF Extra, Refs
  <2>4. objects' \ Dotted = Refs' \cup (Extra(t)' \ Dotted) /\ Refs' \cap Dotted = {}
    BY <1>2, <1>3, <2>3 DEF Exact
  <2> QED
    BY <1>3, <2>1, <2>2, <2>4 DEF Exact
<1> QED
  BY <1>1, <1>5, <1>6 DEF Api!DeleteNote

LEMMA AttachKeepsExact ==
    ASSUME TypeOK, NEW t \in Tabs, Exact(t), NEW n \in NoteIds, NEW k \in Keys, Attach(t, n, k)
    PROVE  Exact(t)'
<1>1. row' = row /\ att' = att /\ objects' = objects /\ h' = h /\ row[n] = "live"
  BY DEF Attach, Api!PresignAttachmentUpload
<1>2. tab[t].pc = "idle" /\ tab'[t].pc = "upload" /\ tab'[t].note = n
  BY DEF Attach, TypeOK
<1>3. Refs' = Refs /\ Extra(t) = {} /\ Extra(t)' = {}
  BY <1>1, <1>2 DEF Refs, Extra
<1> QED
  BY <1>1, <1>2, <1>3 DEF Exact

LEMMA UploadKeepsExact ==
    ASSUME TypeOK, NEW t \in Tabs, Exact(t), Upload(t)
    PROVE  Exact(t)'
<1>1. /\ row' = row /\ att' = att /\ h' = h /\ objects' = objects \cup {tab[t].key}
  BY DEF Upload, Api!Upload
<1>2. tab[t].pc = "upload" /\ tab'[t] = [tab[t] EXCEPT !.pc = "confirm"]
  BY DEF Upload, TypeOK
<1>3. tab'[t].pc = "confirm" /\ tab'[t].note = tab[t].note /\ tab'[t].key = tab[t].key
  BY <1>2 DEF TypeOK, Tab
<1>4. Refs' = Refs /\ Extra(t) = {} /\ Extra(t)' = {tab[t].key}
  BY <1>1, <1>2, <1>3 DEF Refs, Extra
<1> QED
  BY <1>1, <1>2, <1>3, <1>4 DEF Exact

LEMMA ConfirmKeepsExact ==
    ASSUME TypeOK, NEW t \in Tabs, Exact(t), Confirm(t)
    PROVE  Exact(t)'
<1> USE DEF TypeOK, Api!TypeOK
<1>1. PICK c \in Conns : /\ Api!ConfirmGet(c, tab[t].note, tab[t].key)
                         /\ tab' = [tab EXCEPT ![t].pc = "wait", ![t].conn = c]
  BY DEF Confirm
<1>2. /\ row' = row /\ att' = att /\ objects' = objects /\ row[tab[t].note] = "live"
      /\ tab[t].key \notin Dotted
      /\ h' = [h EXCEPT ![c] = Api!At("stat", tab[t].note, tab[t].key, att[tab[t].note])]
  BY <1>1 DEF Api!ConfirmGet
<1>3. /\ h'[c].pc = "stat" /\ h'[c].id = tab[t].note /\ h'[c].key = tab[t].key
      /\ h'[c].prev = att[tab[t].note]
      /\ \A e \in Conns \ {c} : h'[e] = h[e]
  BY <1>2 DEF Api!At
<1>4. tab'[t] = [tab[t] EXCEPT !.pc = "wait", !.conn = c]
  BY <1>1
<1>5. tab'[t].pc = "wait" /\ tab'[t].conn = c
  BY <1>4 DEF Tab
<1>6. tab[t].pc = "confirm"
  BY DEF Confirm
<1>7. Refs' = Refs /\ Extra(t) = {tab[t].key} /\ Extra(t)' = {tab[t].key}
  BY <1>2, <1>3, <1>5, <1>6 DEF Refs, Extra
<1> QED
  BY <1>2, <1>3, <1>5, <1>6, <1>7 DEF Exact

LEMMA ServeKeepsExact ==
    ASSUME TypeOK, Handlers!Parts, NEW t \in Tabs, Exact(t), ~Api!Fault,
           NEW c \in Conns, Serve(c)
    PROVE  Exact(t)'
<1> USE DEF TypeOK, Api!TypeOK
<1>1. \/ Api!PublishCreated(c) /\ Succeeds(c)
      \/ Api!RemoveObject(c) /\ Succeeds(c)
      \/ Api!ConfirmSet(c) /\ Succeeds(c)
      \/ Api!ConfirmStat(c) /\ FailsOn(c)
      \/ Api!ConfirmGone(c) /\ FailsOn(c)
  BY DEF Serve, Api!Abort, Api!ConfirmSetLost
<1>2. h[c].pc \in {"publish", "stat", "set", "drop", "remove"}
  BY <1>1 DEF Api!PublishCreated, Api!RemoveObject, Api!ConfirmSet, Api!SetAttachment,
              Api!ConfirmStat, Api!ConfirmGone
<1>3. tab[t].pc = "wait" /\ tab[t].conn = c /\ \A e \in Conns \ {c} : h[e].pc = "idle"
  BY <1>2 DEF Exact
<1>4. \A e \in Conns \ {c} : h'[e].pc = "idle"
  BY <1>3, ServeEffect
<1>5. /\ h[c].pc \in {"stat", "set"} =>
            row[h[c].id] = "live" /\ h[c].prev = att[h[c].id] /\ h[c].key \notin Dotted
      /\ h[c].pc \in {"drop", "remove"} => h[c].prev \notin Refs
      /\ Refs \cap Dotted = {}
  BY <1>3 DEF Exact
<1>6. objects \ Dotted =
         Refs \cup ((IF h[c].pc \in {"stat", "set"} THEN {h[c].key}
                     ELSE IF h[c].pc \in {"drop", "remove"} THEN {h[c].prev} ELSE {}) \ Dotted)
  BY <1>3 DEF Exact, Extra
\* The handler is done and the tab goes on to the list.
<1>7. ASSUME h'[c] = Api!Idle, Succeeds(c), objects' \ Dotted = Refs' PROVE Exact(t)'
  <2>1. tab'[t] = [tab[t] EXCEPT !.pc = "refresh", !.conn = NoConn]
    BY <1>3, <1>7 DEF Succeeds, Waiting
  <2>2. tab'[t].pc = "refresh"
    BY <2>1 DEF Tab
  <2>3. \A e \in Conns : h'[e].pc = "idle"
    BY <1>4, <1>7 DEF Api!Idle, Api!At
  <2>4. Extra(t)' = {}
    BY <2>2 DEF Extra
  <2> QED
    BY <1>7, <2>2, <2>3, <2>4 DEF Exact
\* The handler makes its next call.
<1>8. ASSUME NEW pc \in {"set", "drop"}, h' = [h EXCEPT ![c].pc = pc], Succeeds(c) \/ FailsOn(c)
      PROVE  /\ h'[c].pc = pc /\ h'[c].id = h[c].id
             /\ h'[c].key = h[c].key /\ h'[c].prev = h[c].prev
             /\ tab'[t].pc = "wait" /\ tab'[t].conn = c
  <2>1. h'[c] = [h[c] EXCEPT !.pc = pc]
    BY <1>8
  <2>2. h[c] \in Api!Handler
    OBVIOUS
  <2>3. /\ h'[c].pc = pc /\ h'[c].id = h[c].id
        /\ h'[c].key = h[c].key /\ h'[c].prev = h[c].prev
    BY <2>1, <2>2 DEF Api!Handler
  <2>4. h'[c] # Api!Idle
    BY <2>3 DEF Api!Idle, Api!At
  <2>5. tab' = tab
    BY <1>8, <2>4 DEF Succeeds, FailsOn
  <2> QED
    BY <1>3, <2>3, <2>5
<1>9. CASE Api!PublishCreated(c) /\ Succeeds(c)
  <2>1. /\ h'[c] = Api!Idle /\ att' = att /\ objects' = objects /\ h[c].pc = "publish"
    BY <1>9 DEF Api!PublishCreated, Api!Done
  <2> QED
    BY <1>6, <1>7, <1>9, <2>1 DEF Refs
<1>10. CASE Api!RemoveObject(c) /\ Succeeds(c)
  <2>1. /\ h'[c] = Api!Idle /\ att' = att /\ objects' = objects \ {h[c].prev}
        /\ h[c].pc \in {"drop", "remove"}
    BY <1>10 DEF Api!RemoveObject, Api!Done
  <2>2. Refs' = Refs /\ objects' \ Dotted = Refs
    BY <1>5, <1>6, <2>1 DEF Refs
  <2> QED
    BY <1>7, <1>10, <2>1, <2>2
<1>11. CASE Api!ConfirmStat(c) /\ FailsOn(c)
  <2>1. h[c].pc = "stat" /\ h[c].key \in objects
    BY <1>5, <1>6, <1>11 DEF Api!ConfirmStat
  <2>2. h' = [h EXCEPT ![c].pc = "set"] /\ row' = row /\ att' = att /\ objects' = objects
    BY <1>11, <2>1 DEF Api!ConfirmStat
  <2>3. /\ h'[c].pc = "set" /\ h'[c].id = h[c].id
        /\ h'[c].key = h[c].key /\ h'[c].prev = h[c].prev
        /\ tab'[t].pc = "wait" /\ tab'[t].conn = c
    BY <1>8, <1>11, <2>2
  <2>4. Refs' = Refs /\ Extra(t)' = {h[c].key}
    BY <2>2, <2>3 DEF Refs, Extra
  <2> QED
    BY <1>4, <1>5, <1>6, <2>1, <2>2, <2>3, <2>4 DEF Exact
<1>12. CASE Api!ConfirmSet(c) /\ Succeeds(c)
  <2>1. h[c].pc = "set"
    BY <1>12 DEF Api!ConfirmSet, Api!SetAttachment
  <2>2. /\ h[c].id \in NoteIds /\ h[c].key \in Keys /\ Owner[h[c].key] = h[c].id
        /\ h[c].prev = att[h[c].id]
    BY <1>5, <2>1 DEF Handlers!Parts, Handlers!HandlerShape
  <2>3. /\ att' = [att EXCEPT ![h[c].id] = h[c].key] /\ row' = row /\ objects' = objects
        /\ objects \ Dotted = Refs \cup {h[c].key} /\ h[c].key \notin Dotted
    BY <1>5, <1>6, <1>12, <2>1 DEF Api!ConfirmSet, Api!SetAttachment
  <2>4. Refs' = (Refs \ {h[c].prev}) \cup {h[c].key}
    BY <2>2, <2>3, RefsAfterSet
  <2>5. CASE Api!Replaces(c) /\ h' = [h EXCEPT ![c].pc = "drop"]
    <3>1. /\ h'[c].pc = "drop" /\ h'[c].prev = h[c].prev
          /\ tab'[t].pc = "wait" /\ tab'[t].conn = c
      BY <1>8, <1>12, <2>5
    <3>2. h[c].prev \notin {NoKey, h[c].key} /\ h[c].prev \in Refs
      BY <2>2, <2>5 DEF Api!Replaces, Refs
    <3>3. Extra(t)' = {h[c].prev}
      BY <3>1 DEF Extra
    <3>4. /\ objects' \ Dotted = Refs' \cup (Extra(t)' \ Dotted) /\ h[c].prev \notin Refs'
          /\ Refs' \cap Dotted = {}
      BY <1>5, <2>3, <2>4, <3>2, <3>3
    <3> QED
      BY <1>4, <3>1, <3>4 DEF Exact
  <2>6. CASE ~Api!Replaces(c) /\ Api!Done(c)
    <3>1. h'[c] = Api!Idle
      BY <2>6 DEF Api!Done
    <3>2. h[c].prev \in {NoKey, h[c].key}
      BY <2>6 DEF Api!Replaces
    <3>3. objects' \ Dotted = Refs'
      BY <2>3, <2>4, <3>2, FrontendAssumption DEF Refs
    <3> QED
      BY <1>7, <1>12, <3>1, <3>3
  <2> QED
    BY <1>12, <2>5, <2>6 DEF Api!ConfirmSet
<1>13. CASE Api!ConfirmGone(c) /\ FailsOn(c)
  BY <1>5, <1>13 DEF Api!ConfirmGone
<1> QED
  BY <1>1, <1>9, <1>10, <1>11, <1>12, <1>13

LEMMA NextExact ==
    ASSUME TypeOK, Handlers!Parts, TabParts, [Next]_vars
    PROVE  AloneIsExact'
<1> SUFFICES ASSUME NEW t \in Tabs, Alone(t)' PROVE Exact(t)'
  BY DEF AloneIsExact
<1>1. Alone(t) /\ Exact(t) /\ ~Api!Fault
  BY AloneBefore, NoFault DEF Alone, TabParts, AloneIsExact
<1>2. \A u \in Tabs \ {t} : tab'[u].pc = "closed"
  BY DEF Alone
<1>3. ASSUME UNCHANGED <<row, att, objects, h, tab>> PROVE Exact(t)'
  BY <1>1, <1>3, ExactStays
<1>4. ASSUME Acts(t) PROVE Exact(t)'
  <2>1. ASSUME Throws(t), UNCHANGED backend, tab[t].pc \notin {"wait", "confirm"} PROVE Exact(t)'
    BY <1>1, <2>1, ThrowsOwn, ExactBetween DEF backend
  <2>2. CASE Open(t)
    <3>1. tab'[t].pc = "idle"
      BY <2>2 DEF Open, TypeOK, Tab
    <3> QED
      BY <1>1, <2>2, <3>1, ExactBetween DEF Open, backend
  <2>3. CASE ReadAgain(t)
    <3>1. tab'[t].pc = "read"
      BY <2>3 DEF ReadAgain, TypeOK, Tab
    <3> QED
      BY <1>1, <2>3, <3>1, ExactBetween DEF ReadAgain, backend
  <2>4. CASE ShowAgain(t)
    <3>1. tab'[t] = [tab[t] EXCEPT !.pc = "idle", !.key = NoKey, !.err = FALSE]
      BY <2>4 DEF ShowAgain, TypeOK
    <3>2. tab'[t].pc = "idle"
      BY <3>1 DEF TypeOK, Tab
    <3> QED
      BY <1>1, <2>4, <3>2, ExactBetween DEF ShowAgain, backend
  <2>5. CASE ConfirmNotFound(t)
    BY <1>1, <2>5 DEF ConfirmNotFound, Exact
  <2>8. CASE ConfirmRefused(t)
    <3>1. /\ Refs' = Refs /\ Extra(t) = {tab[t].key} /\ tab[t].key \in Dotted
          /\ tab[t].pc = "confirm" /\ UNCHANGED backend
      BY <2>8 DEF ConfirmRefused, Refs, Extra, backend
    <3>2. tab'[t].pc = "idle"
      BY <2>8, ThrowsOwn DEF ConfirmRefused
    <3>3. Extra(t)' = {}
      BY <3>2 DEF Extra
    <3> QED
      BY <1>1, <3>1, <3>2, <3>3 DEF Exact, backend
  <2>6. ASSUME NEW n \in NoteIds, Download(t, n) PROVE Exact(t)'
    <3>1. tab'[t] = [tab[t] EXCEPT !.err = TRUE]
      BY <2>6 DEF Download, TypeOK
    <3>2. /\ tab'[t].pc = tab[t].pc /\ tab'[t].note = tab[t].note
          /\ tab'[t].key = tab[t].key /\ tab'[t].conn = tab[t].conn
      BY <3>1 DEF TypeOK, Tab
    <3> QED
      BY <1>1, <2>6, <3>2, ExactStays DEF Download, backend
  <2>7. CASE UploadRefused(t) \/ InvalidNote(t)
             \/ \E n \in NoteIds : InvalidFile(t, n) \/ NotFound(t, n)
    BY <2>1, <2>7 DEF UploadRefused, InvalidNote, InvalidFile, NotFound
  <2> QED
    BY <1>1, <1>4, <2>2, <2>3, <2>4, <2>5, <2>6, <2>7, <2>8, CreateKeepsExact, DeleteKeepsExact,
       AttachKeepsExact, UploadKeepsExact, ConfirmKeepsExact DEF Acts, GoesOn
<1>5. ASSUME NEW u \in Tabs, Acts(u) PROVE Exact(t)'
  BY <1>2, <1>4, <1>5, ActorIsOpen
<1>6. ASSUME NEW u \in Tabs, ShowFirst(u) PROVE Exact(t)'
  BY <1>3, <1>6 DEF ShowFirst, backend
<1>7. ASSUME NEW u \in Tabs, FirstFails(u) \/ CutOff(u) PROVE Exact(t)'
  BY <1>1, <1>7 DEF FirstFails, CutOff
<1>8. ASSUME NEW c \in Conns, Serve(c) PROVE Exact(t)'
  BY <1>1, <1>8, ServeKeepsExact
<1>9. CASE UNCHANGED vars
  BY <1>3, <1>9 DEF vars, backend
<1> QED
  BY <1>5, <1>6, <1>7, <1>8, <1>9, NextCases

-----------------------------------------------------------------------------
(* Theorems                                                                *)

LEMMA InitParts == Init => Handlers!Parts /\ TabParts
<1> SUFFICES ASSUME Init PROVE Handlers!Parts /\ TabParts
  OBVIOUS
<1>1. Handlers!Parts
  BY SameInit, SameAssumption, Handlers!InitParts DEF Init
<1>2. \A t \in Tabs : tab[t].pc = "closed" /\ tab[t].act = "none"
  BY DEF Init, Closed
<1>3. ASSUME NEW t \in Tabs PROVE Own(t) /\ Exact(t)
  <2>1. Own(t)
    BY <1>2 DEF Own, TabShape, WaitsForItsOwn, RefreshIsAfter, ReadShows, IdleShows
  <2>2. Refs = {} /\ Extra(t) = {} /\ objects = {} /\ \A c \in Conns : h[c].pc = "idle"
    BY <1>2 DEF Init, Api!Init, Refs, Extra, Api!Idle, Api!At
  <2>3. Exact(t)
    BY <1>2, <2>2 DEF Exact
  <2> QED
    BY <2>1, <2>3
<1> QED
  BY <1>1, <1>2, <1>3 DEF TabParts, OneWaits, AloneIsExact

\* In every behaviour of the browser the inductive invariant holds.
THEOREM Invariance == Spec => [](TypeOK /\ Handlers!Parts /\ TabParts)
<1>1. Init => TypeOK /\ Handlers!Parts /\ TabParts
  BY InitType, InitParts
<1>2. TypeOK /\ Handlers!Parts /\ TabParts /\ [Next]_vars
        => (TypeOK /\ Handlers!Parts /\ TabParts)'
  <2> SUFFICES ASSUME TypeOK, Handlers!Parts, TabParts, [Next]_vars
               PROVE  (TypeOK /\ Handlers!Parts /\ TabParts)'
    OBVIOUS
  <2>1. TypeOK' /\ Handlers!Parts'
    BY NextType, NextApi DEF TypeOK
  <2>2. TabParts'
    BY NextOwn, NextOneWaits, NextExact DEF TabParts
  <2> QED
    BY <2>1, <2>2
<1> QED
  BY <1>1, <1>2, PTL DEF Spec

\* The variables keep their types: a tab is always at one of the points
\* App.tsx's run can be at, and what it waits for exists.
THEOREM TypeCorrect == Spec => []TypeOK
BY Invariance, PTL

\* A tab that is done and shows no error shows what its user just did, for
\* any number of tabs (App.tsx's run awaits the operation, then the list).
THEOREM OwnEffectIsShown == Spec => []OwnEffectShows
<1>1. TypeOK /\ TabParts => OwnEffectShows
  <2> SUFFICES ASSUME TypeOK, TabParts, NEW t \in Tabs, tab[t].pc = "idle", first[t].pc # "late"
               PROVE  Effect(t)
    BY DEF OwnEffectShows
  <2>1. tab[t].act \in {"none", "create", "delete", "attach"}
    BY DEF TypeOK, Tab
  <2>2. tab[t].act # "none" => Shows(t, screen[t])
    BY DEF TabParts, Own, IdleShows
  <2>3. CASE tab[t].act = "none"
    BY <2>3 DEF Effect
  <2>4. CASE tab[t].act = "create"
    BY <2>2, <2>4 DEF Effect, Shows
  <2>5. CASE tab[t].act = "delete"
    BY <2>2, <2>5 DEF Effect, Shows
  <2>6. CASE tab[t].act = "attach"
    BY <2>2, <2>6 DEF Effect, Shows
  <2> QED
    BY <2>1, <2>3, <2>4, <2>5, <2>6
<1> QED
  BY <1>1, Invariance, PTL

\* A single tab keeps the bucket exact between its operations, but for files
\* whose name holds "..": `busy' lets one run at a time, and uploadAttachment's
\* calls come in an order that leaves nothing else behind.
THEOREM OneTabExact == Spec => []OneTabIsExact
<1>1. TabParts => OneTabIsExact
  <2> SUFFICES ASSUME TabParts, NEW t \in Tabs, tab[t].pc = "idle", Alone(t)
               PROVE  objects \ Dotted = Refs
    BY DEF OneTabIsExact, Refs
  <2>1. objects \ Dotted = Refs \cup (Extra(t) \ Dotted)
    BY DEF TabParts, AloneIsExact, Exact
  <2> QED
    BY <2>1 DEF Extra
<1> QED
  BY <1>1, Invariance, PTL

\* The browser runs the handlers of NotesApi and nothing else: every step is
\* one of theirs on the backend, or none, or a message that is lost.
THEOREM RunsTheHandlers == Spec => [][Handlers!Next \/ LostOnTheWay]_backend
<1>1. TypeOK /\ [Next]_vars => [Handlers!Next \/ LostOnTheWay]_backend
  BY NextBackend DEF TypeOK
<1> QED
  BY <1>1, TypeCorrect, PTL DEF Spec

\* So the two stores under it implement AttachmentStore too.
THEOREM StoreImplements == Spec => Handlers!ImplementsStore
<1>1. Init => Handlers!Promise!Init
  BY SameInit, SameAssumption, Handlers!InitRefines DEF Init
<1>2. TypeOK /\ Handlers!Parts /\ [Next]_vars => [Handlers!Promise!Next]_(Handlers!Promise!vars)
  <2> SUFFICES ASSUME TypeOK, Handlers!Parts, [Next]_vars
               PROVE  [Handlers!Promise!Next]_(Handlers!Promise!vars)
    OBVIOUS
  <2>1. CASE LostOnTheWay
    BY <2>1 DEF LostOnTheWay, Handlers!Promise!vars
  <2>2. CASE [Handlers!Next]_backend
    <3>1. Handlers!TypeOK /\ [Handlers!Next]_(Handlers!vars)
      BY <2>2, SameType DEF TypeOK, backend, Handlers!vars
    <3>2. [Handlers!Promise!Next]_(Handlers!store)
      BY <3>1, SameAssumption, Handlers!NextRefines
    <3> QED
      BY <3>2 DEF Handlers!store, Handlers!Promise!vars
  <2> QED
    BY <2>1, <2>2, NextBackend DEF TypeOK
<1> QED
  BY <1>1, <1>2, Invariance, PTL DEF Spec, Handlers!ImplementsStore, Handlers!Promise!Spec
=============================================================================
