----------------------------- MODULE NotesPage ------------------------------
(* Going from page to page (App.tsx), the guard against losing edits           *)
(* (lib/leaveGuard.ts) and the page that has it, the notes (pages/Notes.tsx),  *)
(* with the questions of DialogQueue.  A dialog on the screen is modal.        *)
EXTENDS DialogQueue, FiniteSets, ClientBase

CONSTANTS Notes, Texts      \* the notes there can be, contents; None is the empty one

Contents == Texts \cup {None}
Chosen == Notes \cup {None, "new"}
Editors == [sel: Chosen, draft: Contents, saved: Contents, writing: BOOLEAN, loading: BOOLEAN, latest: Nat]
NoteAskers == [op: {"go", "logout", "open", "empty", "remove"}, arg: Chosen \cup {"mail"}]

ASSUME NotesAssumption ==
    /\ IsFiniteSet(Notes) /\ Notes # {} /\ Texts # {}
    /\ None \notin Notes \cup Texts \cup Editors \cup {"new"}
    /\ NoteAskers \subseteq Askers /\ BOOLEAN \subseteq Replies

VARIABLES
    view,       \* the page shown
    leaving,    \* navigating of App and asking of the guard
    note,       \* the editor, or None when the page is not mounted
    titles,     \* the list, the query it is for and its newest request
    requests,   \* under way
    stored,     \* the server: contents of the notes
    consent     \* history: the user agreed to drop the edits on the screen, or made
                \* them while signing out was under way

notesVars == <<dialogVars, view, leaving, note, titles, requests, stored, consent>>

-----------------------------------------------------------------------------
(* The editor and the guard *)

Closed == [sel |-> None, draft |-> None, saved |-> None, writing |-> FALSE,
           loading |-> FALSE, latest |-> 0]
Dirty == note # None /\ note.sel # None /\ note.draft # note.saved

\* useLeaveGuard: refuses while writing or asking, asks about edits.
Refuses == note # None /\ (note.writing \/ leaving.asking)
Unguarded == note = None \/ (~Refuses /\ ~Dirty)

Ready == screen = Nobody /\ host
AskLeave(who) ==
    /\ ~Refuses /\ Dirty
    /\ Ask(who) /\ leaving' = [leaving EXCEPT !.asking = TRUE, !.navigating = who.op \in {"go", "logout"}]

Mine(rs) == {[r EXCEPT !.mine = FALSE] : r \in rs}
NoteRequest(op, n, text, number) ==
    [op |-> op, note |-> n, text |-> text, number |-> number, mine |-> TRUE, done |-> FALSE]
LogoutRequest == NoteRequest("logout", None, None, 0)
SigningOut == \E r \in requests : r.op = "logout"

\* Another page: the notes are unmounted, their requests answer to nobody.
Show(v) ==
    /\ view' = v
    /\ note' = IF v = "notes" THEN Closed ELSE None
    /\ titles' = [titles EXCEPT !.rows = {}, !.latest = @ + 1, !.query = "all", !.for = "all",
                     !.due = v = "notes"]
    /\ requests' = Mine(requests)

Go(v) ==
    /\ Ready /\ v # view /\ ~leaving.navigating
    /\ IF Unguarded
       THEN Show(v) /\ UNCHANGED <<dialogVars, leaving>>
       ELSE AskLeave([op |-> "go", arg |-> v]) /\ UNCHANGED <<view, note, titles, requests>>
    /\ UNCHANGED <<stored, consent>>

\* Signing out takes the host of the dialogs along, once the server agreed.
Logout ==
    /\ Ready /\ ~leaving.navigating /\ ~SigningOut
    /\ IF Unguarded
       THEN /\ requests' = requests \cup {LogoutRequest}
            /\ UNCHANGED <<dialogVars, leaving>>
       ELSE AskLeave([op |-> "logout", arg |-> None]) /\ UNCHANGED requests
    /\ UNCHANGED <<view, note, titles, stored, consent>>

-----------------------------------------------------------------------------
(* The notes *)

Editor == Ready /\ note # None
Free == Editor /\ ~note.writing

\* The draft stays until the other note was fetched.
Fetch(n) ==
    /\ note' = [note EXCEPT !.latest = @ + 1, !.loading = TRUE]
    /\ requests' = requests \cup {NoteRequest("detail", n, None, note.latest + 1)}
OpenNote(n) ==
    /\ Free /\ n \in titles.rows /\ n # note.sel
    /\ IF Unguarded
       THEN Fetch(n) /\ UNCHANGED <<dialogVars, leaving>>
       ELSE AskLeave([op |-> "open", arg |-> n]) /\ UNCHANGED <<note, requests>>
    /\ UNCHANGED <<view, titles, stored, consent>>

\* Mutant: the fetch under way is not overtaken.
BlankOnly(next) ==
    note' = [note EXCEPT !.loading = FALSE, !.sel = next, !.draft = None, !.saved = None]
Blank(next) ==
    note' = [note EXCEPT !.latest = @ + 1, !.loading = FALSE, !.sel = next,
                !.draft = None, !.saved = None]
SelectEmpty(next) ==
    /\ Free /\ (next = "new" \/ note.sel # None)
    /\ IF Unguarded
       THEN Blank(next) /\ UNCHANGED <<dialogVars, leaving>>
       ELSE AskLeave([op |-> "empty", arg |-> next]) /\ UNCHANGED note
    /\ UNCHANGED <<view, titles, requests, stored, consent>>

Type(text) ==
    /\ Free /\ ~note.loading /\ note.sel # None /\ text # note.draft
    /\ note' = [note EXCEPT !.draft = text] /\ consent' = SigningOut
    /\ UNCHANGED <<dialogVars, view, leaving, titles, requests, stored>>

Writing(op, text) ==
    /\ Free /\ ~note.loading
    /\ note' = [note EXCEPT !.writing = TRUE]
    /\ requests' = requests \cup {NoteRequest(op, note.sel, text, 0)}
    /\ UNCHANGED <<dialogVars, view, leaving, titles, stored, consent>>
Save == Editor /\ Dirty /\ note.draft # None /\ Writing("save", note.draft)
TogglePin == Editor /\ note.sel \in titles.rows /\ Writing("pin", None)

\* Leaving is refused from the question on.
Remove ==
    /\ Free /\ ~note.loading /\ note.sel \in Notes
    /\ note' = [note EXCEPT !.writing = TRUE]
    /\ Ask([op |-> "remove", arg |-> note.sel])
    /\ UNCHANGED <<view, leaving, titles, requests, stored, consent>>

\* The list is emptied and loaded after a pause.
Search(q) ==
    /\ Editor /\ q # titles.query
    /\ titles' = [titles EXCEPT !.query = q, !.for = q, !.rows = {}, !.latest = @ + 1, !.due = TRUE]
    /\ UNCHANGED <<dialogVars, view, leaving, note, requests, stored, consent>>
TitlesRequest == NoteRequest("list", None, titles.query, titles.latest + 1)
LoadList ==
    /\ note # None /\ titles.due
    /\ titles' = [titles EXCEPT !.latest = @ + 1, !.due = FALSE]
    /\ requests' = requests \cup {TitlesRequest}
    /\ UNCHANGED <<dialogVars, view, leaving, note, stored, consent>>

-----------------------------------------------------------------------------
(* Replies and answers *)

\* The reply resumes who asked; to a page that is gone it does not matter.
Reply(yes) ==
    LET who == Head(pending).who
        goes == yes /\ (note # None \/ who.op \in {"go", "logout"})
    IN
    /\ Done(yes)
    /\ IF ~Answered
       THEN UNCHANGED <<view, leaving, note, titles, requests, consent>>
       ELSE /\ leaving' = IF who.op = "remove" THEN leaving ELSE [asking |-> FALSE, navigating |-> FALSE]
            /\ consent' = (consent \/ yes)
            /\ CASE ~goes ->
                      /\ note' = IF who.op = "remove" /\ note # None
                                 THEN [note EXCEPT !.writing = FALSE] ELSE note
                      /\ UNCHANGED <<view, titles, requests>>
                 [] goes /\ who.op = "go" -> Show(who.arg)
                 [] goes /\ who.op = "logout" ->
                      /\ requests' = requests \cup {LogoutRequest}
                      /\ UNCHANGED <<view, note, titles>>
                 [] goes /\ who.op = "open" -> Fetch(who.arg) /\ UNCHANGED <<view, titles>>
                 [] goes /\ who.op = "empty" -> Blank(who.arg) /\ UNCHANGED <<view, titles, requests>>
                 [] goes /\ who.op = "remove" ->
                      /\ requests' = requests \cup {NoteRequest("remove", who.arg, None, 0)}
                      /\ UNCHANGED <<view, note, titles>>
    /\ UNCHANGED stored

Rendered == Render /\ UNCHANGED <<view, leaving, note, titles, requests, stored, consent>>

FreeNotes == {n \in Notes : stored[n] = None}
ServerStores(r) ==
    /\ ~r.done /\ r.op \in {"save", "pin", "remove"}
    /\ \E n \in (IF r.note = "new" THEN FreeNotes ELSE {r.note}) :
         /\ requests' = (requests \ {r}) \cup {[r EXCEPT !.done = TRUE, !.note = n]}
         /\ stored' = IF r.op = "save" THEN [stored EXCEPT ![n] = r.text]
                      ELSE IF r.op = "remove" THEN [stored EXCEPT ![n] = None] ELSE stored
    /\ UNCHANGED <<dialogVars, view, leaving, note, titles, consent>>

\* After writing the list is loaded again, at once.
Reload == titles' = [titles EXCEPT !.latest = @ + 1]
Written(r, editor) ==
    IF r.mine
    THEN note' = editor /\ Reload /\ requests' = (requests \ {r}) \cup {TitlesRequest}
    ELSE requests' = requests \ {r} /\ UNCHANGED <<note, titles>>

Answer(r) ==
    /\ r.op \in {"detail", "list", "logout"} \/ r.done
    /\ CASE r.op = "detail" ->
              /\ note' = IF r.mine /\ r.number = note.latest /\ stored[r.note] # None
                         THEN [note EXCEPT !.sel = r.note, !.draft = stored[r.note],
                                  !.saved = stored[r.note], !.loading = FALSE]
                         ELSE IF r.mine /\ r.number = note.latest
                         THEN [note EXCEPT !.loading = FALSE] ELSE note
              /\ requests' = requests \ {r} /\ UNCHANGED <<dialogVars, view, leaving, titles>>
         [] r.op = "list" ->
              /\ titles' = IF r.mine /\ r.number = titles.latest /\ r.text = titles.query
                           THEN [titles EXCEPT !.for = r.text,
                                    !.rows = {n \in Notes : stored[n] # None}]
                           ELSE titles
              /\ requests' = requests \ {r} /\ UNCHANGED <<dialogVars, view, leaving, note>>
         [] r.op = "save" ->
              /\ Written(r, [note EXCEPT !.sel = r.note, !.draft = r.text, !.saved = r.text,
                                !.writing = FALSE])
              /\ UNCHANGED <<dialogVars, view, leaving>>
         [] r.op = "pin" ->
              Written(r, [note EXCEPT !.writing = FALSE]) /\ UNCHANGED <<dialogVars, view, leaving>>
         [] r.op = "remove" ->
              /\ Written(r, [note EXCEPT !.sel = None, !.draft = None, !.saved = None,
                                !.writing = FALSE])
              /\ UNCHANGED <<dialogVars, view, leaving>>
         [] r.op = "logout" ->
              /\ UnmountHost /\ note' = None /\ view' = "mail" /\ requests' = Mine(requests \ {r})
              /\ leaving' = [asking |-> FALSE, navigating |-> FALSE] /\ titles' = titles
    /\ consent' = (consent /\ note' # None /\ note'.sel = note.sel /\ note'.draft = note.draft)
    /\ UNCHANGED stored

\* The draft stays what it is; the message names the reason.
RequestFails(r) ==
    /\ requests' = requests \ {r}
    /\ note' = IF ~r.mine \/ r.op \in {"list", "logout"} THEN note
               ELSE IF r.op = "detail"
               THEN IF r.number = note.latest THEN [note EXCEPT !.loading = FALSE] ELSE note
               ELSE [note EXCEPT !.writing = FALSE]
    /\ UNCHANGED <<dialogVars, view, leaving, titles, stored, consent>>

SignInAgain ==
    /\ MountHost /\ UNCHANGED <<view, leaving, note, titles, requests, stored, consent>>

-----------------------------------------------------------------------------
NotesInit ==
    /\ DialogInit /\ view = "mail" /\ leaving = [asking |-> FALSE, navigating |-> FALSE]
    /\ note = None /\ requests = {} /\ consent = FALSE
    /\ titles = [rows |-> {}, query |-> "all", for |-> "all", latest |-> 0, due |-> FALSE]
    /\ stored \in Beginning("notes", {[n \in Notes |-> IF n = one THEN x ELSE None] :
                                         one \in Notes, x \in Texts})

NotesUser ==
    \/ \E v \in {"mail", "notes"} : Go(v)
    \/ Logout \/ SignInAgain \/ Save \/ TogglePin \/ Remove
    \/ \E n \in Notes : OpenNote(n)
    \/ \E next \in {"new", None} : SelectEmpty(next)
    \/ \E x \in Texts : Type(x)
    \/ \E q \in {"all", "some"} : Search(q)
    \/ \E yes \in BOOLEAN : Reply(yes)

NotesNext ==
    \/ ByUser(NotesUser)
    \/ ByFault(\E r \in requests : RequestFails(r))
    \/ ByItself(Rendered \/ LoadList \/ \E r \in requests : ServerStores(r) \/ Answer(r))

-----------------------------------------------------------------------------
(* Properties *)

NoteRequestOK(r) ==
    /\ r \in [op: {"detail", "list", "save", "pin", "remove", "logout"}, note: Chosen, text: {r.text},
              number: Nat, mine: BOOLEAN, done: BOOLEAN]
    /\ r.op \in {"detail", "pin", "remove"} => r.note \in Notes
    /\ r.op = "save" => r.text \in Texts /\ r.note \in (IF r.done THEN Notes ELSE Notes \cup {"new"})
    /\ r.op = "list" => r.text \in {"all", "some"}
NotesTypeOK ==
    /\ view \in {"mail", "notes"} /\ leaving \in [asking: BOOLEAN, navigating: BOOLEAN]
    /\ note \in Editors \cup {None} /\ (note # None => view = "notes")
    /\ titles \in [rows: SUBSET Notes, query: {"all", "some"}, for: {"all", "some"}, latest: Nat, due: BOOLEAN]
    /\ stored \in [Notes -> Contents] /\ consent \in BOOLEAN /\ \A r \in requests : NoteRequestOK(r)

\* Edits of a note disappear from the editor only by typing, with an answer of
\* the server that has them, or after the user agreed: not by going to another
\* page, opening another note, a late answer, a failure or signing out.
EditsKept ==
    [][Dirty /\ (note' = None \/ <<note'.sel, note'.draft>> # <<note.sel, note.draft>>) =>
          \/ note' # None /\ note'.sel = note.sel /\ note'.saved = note.saved /\ moves' # moves
          \/ \E r \in requests : r.op = "save" /\ r.done /\ r.text = note.draft
          \/ consent \/ consent']_notesVars

\* The list is what the server has for the query in the search field.
ListFitsQuery == note # None /\ titles.rows # {} => titles.for = titles.query
=============================================================================
