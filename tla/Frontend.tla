------------------------------ MODULE Frontend ------------------------------
(***************************************************************************)
(* Browser tabs running frontend/src/App.tsx against the API of module     *)
(* NotesApi.  A tab runs one operation at a time (`busy'): its requests,   *)
(* one after another, then a fresh list.  Only the very first list, asked  *)
(* for when the page opens, is not waited for by anything.                 *)
(*                                                                         *)
(* A click (or the opening of the page) and the first call its request     *)
(* leads to are one step.  A list is read at the server in one step and    *)
(* reaches the screen in a later one.  It is shorter than listLimit.       *)
(***************************************************************************)
EXTENDS Naturals

CONSTANTS NoteIds, Keys, Owner, Dotted, NoKey, NoNote, Conns, MaxFaults,
          Tabs,     \* pages opened
          NoConn    \* a tab that waits for no request

ASSUME FrontendAssumption ==
    /\ NoKey \notin Keys
    /\ NoNote \notin NoteIds
    /\ Owner \in [Keys -> NoteIds]
    /\ Dotted \subseteq Keys
    /\ MaxFaults \in Nat

VARIABLES row, att, issued, permit, objects, published, contended, h, faults,
          tab,      \* what each tab is doing, and whether it shows an error
          screen,   \* the list each tab shows
          first,    \* the initial list: read at the server, shown
          again     \* the list a refresh was answered with

backend == <<row, att, issued, permit, objects, published, contended, h, faults>>
vars == <<backend, tab, screen, first, again>>

Api == INSTANCE NotesApi WITH
    NoteIds <- NoteIds, Keys <- Keys, Owner <- Owner, Dotted <- Dotted,
    NoKey <- NoKey, NoNote <- NoNote, Conns <- Conns, MaxFaults <- MaxFaults,
    row <- row, att <- att, issued <- issued, permit <- permit,
    objects <- objects, published <- published, contended <- contended,
    h <- h, faults <- faults

\* "wait" is for the answer on conn; "upload" and "confirm" are
\* uploadAttachment about to make that call; "refresh" is about to ask for
\* the list and "read" about to show it.
TabPcs == {"closed", "idle", "wait", "upload", "confirm", "refresh", "read"}

Lists == [NoteIds -> {"none", "bare", "attached"}]
Blank == [n \in NoteIds |-> "none"]

Tab == [pc: TabPcs, act: {"none", "create", "delete", "attach"},
        note: NoteIds \cup {NoNote}, key: Keys \cup {NoKey},
        conn: Conns \cup {NoConn}, err: BOOLEAN]

\* "old": a refresh was read at the server after this initial list was.
\* "late": and it was shown before it, so an older list is on the screen.
First == [pc: {"none", "read", "old", "shown", "late"}, list: Lists]

TypeOK ==
    /\ Api!TypeOK
    /\ tab \in [Tabs -> Tab]
    /\ screen \in [Tabs -> Lists]
    /\ first \in [Tabs -> First]
    /\ again \in [Tabs -> Lists]

NoFirst == [pc |-> "none", list |-> Blank]
Closed == [pc |-> "closed", act |-> "none", note |-> NoNote, key |-> NoKey,
           conn |-> NoConn, err |-> FALSE]

Init ==
    /\ Api!Init
    /\ tab = [t \in Tabs |-> Closed]
    /\ screen = [t \in Tabs |-> Blank]
    /\ first = [t \in Tabs |-> NoFirst]
    /\ again = [t \in Tabs |-> Blank]

-----------------------------------------------------------------------------
(* Lists.                                                                  *)

\* Mutant: the JSON of a note carries its attachment's key.
TableWithKeys ==
    [n \in NoteIds |-> IF row[n] # "live" THEN "none"
                       ELSE IF att[n] = NoKey THEN "bare" ELSE att[n]]

\* The answer of GET /api/notes, as far as the page depends on it.
Table ==
    [n \in NoteIds |-> IF row[n] # "live" THEN "none"
                       ELSE IF att[n] = NoKey THEN "bare" ELSE "attached"]

\* The page is loaded: GET /api/notes, answered but not shown yet.
Open(t) ==
    /\ tab[t].pc = "closed"
    /\ tab' = [tab EXCEPT ![t].pc = "idle"]
    /\ first' = [first EXCEPT ![t] = [pc |-> "read", list |-> Table]]
    /\ UNCHANGED <<backend, screen, again>>

ShowFirst(t) ==
    /\ first[t].pc \in {"read", "old"}
    /\ screen' = [screen EXCEPT ![t] = first[t].list]
    /\ first' = [first EXCEPT ![t] =
                    [pc |-> IF first[t].pc = "old" THEN "late" ELSE "shown", list |-> Blank]]
    /\ UNCHANGED <<backend, tab, again>>

FirstFails(t) ==
    /\ first[t].pc \in {"read", "old"}
    /\ Api!Fault
    /\ first' = [first EXCEPT ![t] = [pc |-> "shown", list |-> Blank]]
    /\ tab' = [tab EXCEPT ![t].err = TRUE]
    /\ UNCHANGED <<row, att, issued, permit, objects, published, contended, h,
                   screen, again>>

\* Mutant: the operation's request is not awaited.
ReadUnawaited(t) ==
    /\ tab[t].pc \in {"wait", "refresh"}
    /\ tab' = [tab EXCEPT ![t].pc = "read"]
    /\ again' = [again EXCEPT ![t] = Table]
    /\ first' = [first EXCEPT ![t].pc = IF @ = "read" THEN "old" ELSE @]
    /\ UNCHANGED <<backend, screen>>

\* refresh: the list is read at the server ...
ReadAgain(t) ==
    /\ tab[t].pc = "refresh"
    /\ tab' = [tab EXCEPT ![t].pc = "read"]
    /\ again' = [again EXCEPT ![t] = Table]
    /\ first' = [first EXCEPT ![t].pc = IF @ = "read" THEN "old" ELSE @]
    /\ UNCHANGED <<backend, screen>>

\* ... and shown, which clears the error and ends the operation.
ShowAgain(t) ==
    /\ tab[t].pc = "read"
    /\ tab' = [tab EXCEPT ![t].pc = "idle", ![t].key = NoKey, ![t].err = FALSE]
    /\ screen' = [screen EXCEPT ![t] = again[t]]
    /\ again' = [again EXCEPT ![t] = Blank]
    /\ first' = [first EXCEPT ![t].pc = IF @ = "late" THEN "shown" ELSE @]
    /\ UNCHANGED backend

-----------------------------------------------------------------------------
(* Operations.                                                             *)

\* Mutant: busy is not reset when the operation throws.
StillBusy(t) == tab' = [tab EXCEPT ![t].err = TRUE]

\* run's catch and finally: the operation threw, the error shows.
Throws(t) == tab' = [tab EXCEPT ![t] = [Closed EXCEPT !.pc = "idle", !.err = TRUE]]

\* The request of operation act arrived on c: its answer is awaited, unless
\* the handler had nothing more to do.
Awaits(t, act, n, c) ==
    tab' = [tab EXCEPT ![t] =
        [pc   |-> IF h'[c] = Api!Idle THEN "refresh" ELSE "wait",
         act  |-> act, note |-> n, key |-> NoKey,
         conn |-> IF h'[c] = Api!Idle THEN NoConn ELSE c,
         err  |-> tab[t].err]]

Quiet == UNCHANGED <<screen, first, again>>

CreateNote(t, n) ==
    /\ tab[t].pc = "idle"
    /\ \E c \in Conns :
         \/ Api!CreateNote(c, n) /\ Awaits(t, "create", n, c)
         \/ Api!CreateLost(c, n) /\ Throws(t)
    /\ Quiet

DeleteNote(t, n) ==
    /\ tab[t].pc = "idle"
    /\ screen[t][n] # "none"
    /\ \E c \in Conns :
         \/ Api!DeleteNote(c, n) /\ Awaits(t, "delete", n, c)
         \/ Api!DeleteLost(c, n) /\ Throws(t)
    /\ Quiet

\* "Attach file" is offered for a note shown without attachment.
Attach(t, n, k) ==
    /\ tab[t].pc = "idle"
    /\ screen[t][n] = "bare"
    /\ Api!PresignAttachmentUpload(n, k)
    /\ tab' = [tab EXCEPT ![t] = [pc |-> "upload", act |-> "attach", note |-> n,
                                  key |-> k, conn |-> NoConn, err |-> tab[t].err]]
    /\ Quiet

\* Requests refused before they changed anything: Normalize, cleanFilename, a
\* note that is not there.  (A failed first call looks the same.)
InvalidNote(t) ==
    /\ tab[t].pc = "idle"
    /\ Throws(t)
    /\ UNCHANGED backend
    /\ Quiet

InvalidFile(t, n) ==
    /\ tab[t].pc = "idle"
    /\ screen[t][n] = "bare"
    /\ Throws(t)
    /\ UNCHANGED backend
    /\ Quiet

NotFound(t, n) ==
    /\ tab[t].pc = "idle"
    /\ screen[t][n] # "none"
    /\ row[n] # "live"
    /\ Throws(t)
    /\ UNCHANGED backend
    /\ Quiet

\* Mutant: the uploaded file is not confirmed.
UploadOnly(t) ==
    /\ tab[t].pc = "upload"
    /\ Api!Upload(tab[t].key)
    /\ tab' = [tab EXCEPT ![t].pc = "refresh"]
    /\ Quiet

\* The form is accepted ...
Upload(t) ==
    /\ tab[t].pc = "upload"
    /\ Api!Upload(tab[t].key)
    /\ tab' = [tab EXCEPT ![t].pc = "confirm"]
    /\ Quiet

\* ... or it is not (the policy expired, the file is too large).
UploadRefused(t) ==
    /\ tab[t].pc = "upload"
    /\ Throws(t)
    /\ UNCHANGED backend
    /\ Quiet

Confirm(t) ==
    /\ tab[t].pc = "confirm"
    /\ \E c \in Conns :
         /\ Api!ConfirmGet(c, tab[t].note, tab[t].key)
         /\ tab' = [tab EXCEPT ![t].pc = "wait", ![t].conn = c]
    /\ Quiet

\* The key presignAttachmentUpload drew for a..b.pdf is refused: 422.
ConfirmRefused(t) ==
    /\ tab[t].pc = "confirm"
    /\ tab[t].key \in Dotted
    /\ Throws(t)
    /\ UNCHANGED backend
    /\ Quiet

ConfirmNotFound(t) ==
    /\ tab[t].pc = "confirm"
    /\ row[tab[t].note] # "live"
    /\ Throws(t)
    /\ UNCHANGED backend
    /\ Quiet

\* A Download link of a note that is gone by now.
Download(t, n) ==
    /\ tab[t].pc # "closed"
    /\ screen[t][n] = "attached"
    /\ Table[n] # "attached"
    /\ tab' = [tab EXCEPT ![t].err = TRUE]
    /\ UNCHANGED backend
    /\ Quiet

-----------------------------------------------------------------------------
(* Answers.                                                                *)

\* Whoever waits on c goes on with what follows the handler's end.
Waiting(c) == {t \in Tabs : tab[t].pc = "wait" /\ tab[t].conn = c}

Succeeds(c) ==
    tab' = [t \in Tabs |-> IF t \in Waiting(c) /\ h'[c] = Api!Idle
                           THEN [tab[t] EXCEPT !.pc = "refresh", !.conn = NoConn]
                           ELSE tab[t]]

FailsOn(c) ==
    IF h'[c] = Api!Idle /\ Waiting(c) # {}
    THEN \E t \in Waiting(c) : Throws(t)
    ELSE UNCHANGED tab

\* The handler's next call; a failed deletion of an object is logged only.
Serve(c) ==
    /\ \/ Api!PublishCreated(c) /\ Succeeds(c)
       \/ Api!RemoveObject(c) /\ Succeeds(c)
       \/ Api!ConfirmSet(c) /\ Succeeds(c)
       \/ Api!Abort(c) /\ h[c].pc \in {"remove", "drop"} /\ Succeeds(c)
       \/ Api!ConfirmStat(c) /\ FailsOn(c)
       \/ Api!ConfirmGone(c) /\ FailsOn(c)
       \/ Api!ConfirmSetLost(c) /\ FailsOn(c)
       \/ Api!Abort(c) /\ FailsOn(c)
    /\ Quiet

\* The browser loses the answer or the page is reloaded: the handler, if it
\* got that far, goes on without anybody waiting.
CutOff(t) ==
    /\ tab[t].pc \notin {"closed", "idle"}
    /\ Api!Fault
    /\ \/ /\ Throws(t)
          /\ UNCHANGED <<screen, first>>
       \/ /\ tab' = [tab EXCEPT ![t] = Closed]
          /\ screen' = [screen EXCEPT ![t] = Blank]
          /\ first' = [first EXCEPT ![t] = NoFirst]
    /\ again' = [again EXCEPT ![t] = Blank]
    /\ UNCHANGED <<row, att, issued, permit, objects, published, contended, h>>

\* What the page does by itself while it is busy.
Busy(t) == tab[t].pc \notin {"closed", "idle"}

GoesOn(t) ==
    \/ Upload(t) \/ UploadRefused(t)
    \/ Confirm(t) \/ ConfirmRefused(t) \/ ConfirmNotFound(t)
    \/ ReadAgain(t) \/ ShowAgain(t)

Next ==
    \/ \E t \in Tabs : Open(t) \/ ShowFirst(t) \/ FirstFails(t)
    \/ \E t \in Tabs : GoesOn(t) \/ InvalidNote(t) \/ CutOff(t)
    \/ \E t \in Tabs, n \in NoteIds :
         CreateNote(t, n) \/ DeleteNote(t, n) \/ Download(t, n)
           \/ InvalidFile(t, n) \/ NotFound(t, n)
    \/ \E t \in Tabs, n \in NoteIds, k \in Keys : Attach(t, n, k)
    \/ \E c \in Conns : Serve(c)

\* Handlers and their calls end (NotesApi), a busy page takes its next step:
\* as long as some of them can go on, one does.  Nothing repeats for ever
\* here, so no handler or page has to be named.  Users owe nothing, and
\* nobody owes the initial list.
Fairness == WF_vars((\E c \in Conns : Serve(c)) \/ (\E t \in Tabs : GoesOn(t)))

Spec == Init /\ [][Next]_vars /\ Fairness

-----------------------------------------------------------------------------
(* Properties                                                              *)

Gone(n) == row[n] = "deleted"

\* The effect of the last operation of t is on its screen, whatever other
\* tabs did, a deletion of the note excepted.
Effect(t) ==
    LET n == tab[t].note
    IN  CASE tab[t].act = "create" -> screen[t][n] # "none" \/ Gone(n)
          [] tab[t].act = "delete" -> screen[t][n] = "none"
          [] tab[t].act = "attach" -> screen[t][n] = "attached" \/ Gone(n)
          [] OTHER -> TRUE

\* A tab that is done and shows no error shows what its user just did: run
\* awaits the operation before it asks for the list, and no answer overtakes
\* another.  One does, and is left out here: an initial list that was read
\* before the refresh and arrives after it (App.tsx:33).
OwnEffectShows ==
    \A t \in Tabs :
        (tab[t].pc = "idle" /\ ~tab[t].err /\ first[t].pc # "late") => Effect(t)

\* Only t is open, and nothing failed yet.
Alone(t) == faults = 0 /\ \A u \in Tabs \ {t} : tab[u].pc = "closed"

\* One tab alone and nothing failed: between two operations the bucket holds
\* exactly the attachments the notes reference, files whose name holds ".."
\* excepted (README, gap A).  `busy' and the order of uploadAttachment are what keeps a single
\* user out of the overlaps and the other orphans that NotesApi allows.
OneTabIsExact ==
    (\E t \in Tabs : tab[t].pc = "idle" /\ Alone(t))
    => objects \ Dotted = {att[n] : n \in NoteIds} \ {NoKey}

\* The form comes back: every operation ends, whatever happened to it.
BusyEnds == \A t \in Tabs : Busy(t) ~> ~Busy(t)
=============================================================================
