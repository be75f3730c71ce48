---------------------------- MODULE Pages_proofs ----------------------------
(* What the pages beside the mail page keep to with every step, for any notes, *)
(* texts, queries, accounts and servers and any number of moves and failures:  *)
(* dialogs and notes, calendars of other devices, rules, contacts, signing in, *)
(* the calendar.                                                               *)
EXTENDS NotesPage, SyncPage, RulesPage, ContactsPage, SignIn, CalendarPage,
        FiniteSetTheorems, TLAPS

-----------------------------------------------------------------------------
(* The dialogs for any number of questions: whoever waits has a dialog, and no *)
(* question is answered twice.                                                 *)

\* The questions waiting carry ever larger numbers, given out already: what makes
\* the number of a question on the screen tell whether it is still at the head.
Numbered ==
    /\ \A i, j \in DOMAIN pending : i < j => pending[i].id < pending[j].id
    /\ \A i \in DOMAIN pending : pending[i].id <= sequence
    /\ \A a \in answers : a.id <= sequence

DialogInv == DialogTypeOK /\ Numbered /\ WaitingIsShown /\ AnsweredOnce

\* The first of a queue is a question of it, or nobody.
LEMMA FirstIsQuestion ==
  ASSUME NEW queue \in Seq(Questions)
  PROVE  First(queue) \in Questions \cup {Nobody}
<1>1. CASE queue = <<>>
  BY <1>1 DEF First
<1>2. CASE queue # <<>>
  <2>1. Head(queue) \in Questions
    BY <1>2
  <2> QED
    BY <1>2, <2>1 DEF First
<1> QED
  BY <1>1, <1>2

LEMMA DialogStarts == DialogInit => DialogInv
<1> SUFFICES ASSUME DialogInit PROVE DialogInv
  OBVIOUS
<1>1. DialogTypeOK
  BY DEF DialogInit, DialogTypeOK
<1>2. Numbered
  BY DEF DialogInit, Numbered
<1>3. WaitingIsShown /\ AnsweredOnce
  BY DEF DialogInit, WaitingIsShown, AnsweredOnce, First
<1> QED
  BY <1>1, <1>2, <1>3 DEF DialogInv

\* Asking puts a question with a new number behind those waiting.
LEMMA AskKeeps ==
  ASSUME DialogInv, NEW who \in Askers, Ask(who)
  PROVE  DialogInv'
<1> DEFINE q == [id |-> sequence + 1, who |-> who]
<1>1. /\ host' = host /\ sequence' = sequence + 1 /\ pending' = Append(pending, q)
      /\ active' = (IF pending = <<>> THEN q ELSE active)
      /\ screen' = screen /\ answers' = answers
  BY DEF Ask
<1>2. /\ host \in BOOLEAN /\ sequence \in Nat /\ pending \in Seq(Questions)
      /\ active \in Questions \cup {Nobody} /\ screen \in Questions \cup {Nobody}
      /\ answers \subseteq [id: Nat, reply: Replies]
  BY DEF DialogInv, DialogTypeOK
<1>3. q \in Questions /\ q.id = sequence + 1
  BY <1>2 DEF Questions
<1> HIDE DEF q
<1>4. pending' \in Seq(Questions)
  BY <1>1, <1>2, <1>3
<1>5. /\ DOMAIN pending' = 1 .. Len(pending) + 1 /\ DOMAIN pending = 1 .. Len(pending)
      /\ Len(pending) \in Nat
      /\ \A i \in DOMAIN pending : pending'[i] = pending[i] /\ pending[i] \in Questions
      /\ pending'[Len(pending) + 1] = q
  BY <1>1, <1>2, <1>3
<1>6. \A i \in DOMAIN pending : pending[i].id \in Nat
  BY <1>5 DEF Questions
<1>7. DialogTypeOK'
  BY <1>1, <1>2, <1>3, <1>4 DEF DialogTypeOK
<1>8. Numbered'
  <2>1. \A i \in DOMAIN pending' : pending'[i].id <= sequence + 1
    BY <1>2, <1>3, <1>5, <1>6 DEF DialogInv, Numbered
  <2>2. \A i, j \in DOMAIN pending' : i < j => pending'[i].id < pending'[j].id
    BY <1>2, <1>3, <1>5, <1>6 DEF DialogInv, Numbered
  <2>3. \A a \in answers' : a.id <= sequence + 1
    BY <1>1, <1>2 DEF DialogInv, Numbered
  <2> QED
    BY <1>1, <2>1, <2>2, <2>3 DEF Numbered
<1>9. WaitingIsShown'
  <2>1. CASE pending = <<>>
    BY <1>1, <1>2, <1>3, <2>1 DEF WaitingIsShown, First
  <2>2. CASE pending # <<>>
    <3>1. Head(pending') = Head(pending) /\ pending' # <<>>
      BY <1>1, <1>2, <1>3, <2>2
    <3>2. active' = Head(pending)
      BY <1>1, <2>2 DEF DialogInv, WaitingIsShown, First
    <3> QED
      BY <3>1, <3>2 DEF WaitingIsShown, First
  <2> QED
    BY <2>1, <2>2
<1>10. AnsweredOnce'
  <2> SUFFICES ASSUME NEW a \in answers
               PROVE  /\ \A b \in answers : a.id = b.id => a.reply = b.reply
                      /\ \A i \in DOMAIN pending' : pending'[i].id # a.id
    BY <1>1 DEF AnsweredOnce
  <2>1. a.id <= sequence /\ a.id \in Nat
    BY <1>2 DEF DialogInv, Numbered
  <2>2. \A i \in DOMAIN pending : pending[i].id # a.id
    BY DEF DialogInv, AnsweredOnce
  <2>3. \A i \in DOMAIN pending' : pending'[i].id # a.id
    BY <1>2, <1>3, <1>5, <2>1, <2>2
  <2>4. \A b \in answers : a.id = b.id => a.reply = b.reply
    BY DEF DialogInv, AnsweredOnce
  <2> QED
    BY <2>3, <2>4
<1> QED
  BY <1>7, <1>8, <1>9, <1>10 DEF DialogInv

\* A click answers the question at the head and nothing else.
LEMMA DoneKeeps ==
  ASSUME DialogInv, NEW reply \in Replies, Done(reply)
  PROVE  DialogInv'
<1>1. CASE Answered
  <2>1. /\ host' = host /\ sequence' = sequence /\ screen' = screen
        /\ pending' = Tail(pending) /\ active' = First(Tail(pending))
        /\ answers' = answers \cup {[id |-> screen.id, reply |-> reply]}
    BY <1>1 DEF Done
  <2>2. /\ host \in BOOLEAN /\ sequence \in Nat /\ pending \in Seq(Questions)
        /\ screen \in Questions \cup {Nobody}
        /\ answers \subseteq [id: Nat, reply: Replies]
    BY DEF DialogInv, DialogTypeOK
  <2>3. pending # <<>> /\ Head(pending).id = screen.id /\ screen \in Questions
    BY <1>1, <2>2 DEF Answered
  <2>4. /\ Len(pending) \in Nat \ {0} /\ DOMAIN pending = 1 .. Len(pending)
        /\ Head(pending) = pending[1] /\ pending' \in Seq(Questions)
        /\ DOMAIN pending' = 1 .. Len(pending) - 1
        /\ \A i \in 1 .. Len(pending) - 1 : pending'[i] = pending[i + 1]
        /\ \A i \in DOMAIN pending : pending[i] \in Questions
    BY <2>1, <2>2, <2>3
  <2>5. \A i \in DOMAIN pending : pending[i].id \in Nat
    BY <2>4 DEF Questions
  <2>6. screen.id = pending[1].id /\ screen.id \in Nat /\ screen.id <= sequence
    BY <2>3, <2>4, <2>5 DEF DialogInv, Numbered
  <2>7. \A i \in DOMAIN pending' : i + 1 \in DOMAIN pending /\ 1 < i + 1
    BY <2>4
  <2>8. DialogTypeOK'
    <3>1. active' \in Questions \cup {Nobody}
      BY <2>1, <2>4, FirstIsQuestion
    <3>2. answers' \subseteq [id: Nat, reply: Replies]
      BY <2>1, <2>2, <2>6
    <3> QED
      BY <2>1, <2>2, <2>4, <3>1, <3>2 DEF DialogTypeOK
  <2>9. Numbered'
    <3>1. \A i, j \in DOMAIN pending' : i < j => pending'[i].id < pending'[j].id
      BY <2>4, <2>7 DEF DialogInv, Numbered
    <3>2. \A i \in DOMAIN pending' : pending'[i].id <= sequence
      BY <2>4, <2>7 DEF DialogInv, Numbered
    <3>3. \A a \in answers' : a.id <= sequence
      BY <2>1, <2>6 DEF DialogInv, Numbered
    <3> QED
      BY <2>1, <3>1, <3>2, <3>3 DEF Numbered
  <2>10. WaitingIsShown'
    BY <2>1 DEF WaitingIsShown
  <2>11. AnsweredOnce'
    <3>1. \A a \in answers : a.id # screen.id
      BY <2>4, <2>6 DEF DialogInv, AnsweredOnce
    <3>2. \A a, b \in answers' : a.id = b.id => a.reply = b.reply
      BY <2>1, <3>1 DEF DialogInv, AnsweredOnce
    <3>3. \A i \in DOMAIN pending' : pending'[i].id # screen.id
      BY <2>4, <2>5, <2>6, <2>7 DEF DialogInv, Numbered
    <3>4. \A a \in answers, i \in DOMAIN pending' : pending'[i].id # a.id
      BY <2>4, <2>7 DEF DialogInv, AnsweredOnce
    <3> QED
      BY <2>1, <3>2, <3>3, <3>4 DEF AnsweredOnce
  <2> QED
    BY <2>8, <2>9, <2>10, <2>11 DEF DialogInv
<1>2. CASE ~Answered
  <2>1. UNCHANGED dialogVars
    BY <1>2 DEF Done, dialogVars
  <2> QED
    BY <2>1 DEF dialogVars, DialogInv, DialogTypeOK, Numbered, WaitingIsShown, AnsweredOnce
<1> QED
  BY <1>1, <1>2

\* When the host goes away everybody waiting gets the same answer.
LEMMA UnmountKeeps ==
  ASSUME DialogInv, UnmountHost
  PROVE  DialogInv'
<1> DEFINE told == {[id |-> pending[i].id, reply |-> No] : i \in DOMAIN pending}
<1>1. /\ host' = FALSE /\ pending' = <<>> /\ active' = Nobody /\ screen' = Nobody
      /\ sequence' = sequence /\ answers' = answers \cup told
  BY DEF UnmountHost
<1>2. /\ sequence \in Nat /\ answers \subseteq [id: Nat, reply: Replies]
      /\ pending \in Seq(Questions) /\ No \in Replies
  BY DialogAssumption DEF DialogInv, DialogTypeOK
<1>3. \A i \in DOMAIN pending : pending[i].id \in Nat /\ pending[i].id <= sequence
  <2>1. \A i \in DOMAIN pending : pending[i] \in Questions
    BY <1>2
  <2>2. \A i \in DOMAIN pending : pending[i].id \in Nat
    BY <2>1 DEF Questions
  <2> QED
    BY <2>2 DEF DialogInv, Numbered
<1>4. \A a \in told : a.id \in Nat /\ a.id <= sequence /\ a.reply = No /\ a \in [id: Nat, reply: Replies]
  BY <1>2, <1>3
<1>5. \A a \in told, b \in answers : a.id # b.id
  BY DEF DialogInv, AnsweredOnce
<1> HIDE DEF told
<1>6. DialogTypeOK'
  <2>1. <<>> \in Seq(Questions)
    OBVIOUS
  <2>2. answers' \subseteq [id: Nat, reply: Replies]
    BY <1>1, <1>2, <1>4
  <2> QED
    BY <1>1, <1>2, <2>1, <2>2 DEF DialogTypeOK
<1>7. Numbered'
  BY <1>1, <1>4 DEF DialogInv, Numbered
<1>8. WaitingIsShown'
  BY <1>1 DEF WaitingIsShown, First
<1>9. AnsweredOnce'
  BY <1>1, <1>4, <1>5 DEF DialogInv, AnsweredOnce
<1> QED
  BY <1>6, <1>7, <1>8, <1>9 DEF DialogInv

LEMMA DialogStep == DialogInv /\ [DialogNext]_dialogVars => DialogInv'
<1> SUFFICES ASSUME DialogInv, [DialogNext]_dialogVars PROVE DialogInv'
  OBVIOUS
<1>1. CASE MountHost
  BY <1>1 DEF MountHost, DialogInv, DialogTypeOK, Numbered, WaitingIsShown, AnsweredOnce
<1>2. CASE UnmountHost
  BY <1>2, UnmountKeeps
<1>3. CASE Render
  BY <1>3 DEF Render, DialogInv, DialogTypeOK, Numbered, WaitingIsShown, AnsweredOnce
<1>4. ASSUME NEW who \in Askers, Ask(who) PROVE DialogInv'
  BY <1>4, AskKeeps
<1>5. ASSUME NEW reply \in Replies, Done(reply) PROVE DialogInv'
  BY <1>5, DoneKeeps
<1>6. CASE UNCHANGED dialogVars
  BY <1>6 DEF dialogVars, DialogInv, DialogTypeOK, Numbered, WaitingIsShown, AnsweredOnce
<1> QED
  BY <1>1, <1>2, <1>3, <1>4, <1>5, <1>6 DEF DialogNext

LEMMA DialogInvariant == DialogSpec => []DialogInv
  BY DialogStarts, DialogStep, PTL DEF DialogSpec

\* The queue of dialogs never holds anything but questions (lib/dialog.tsx).
THEOREM DialogTypeCorrect == DialogSpec => []DialogTypeOK
<1>1. DialogInv => DialogTypeOK
  BY DEF DialogInv
<1> QED
  BY <1>1, DialogInvariant, PTL

\* Whoever waits for an answer is at the dialog shown or behind it: no promise of
\* askConfirm or askPrompt stays open with nothing on the screen to answer.
THEOREM NobodyWaitsUnseen == DialogSpec => []WaitingIsShown
<1>1. DialogInv => WaitingIsShown
  BY DEF DialogInv
<1> QED
  BY <1>1, DialogInvariant, PTL

\* Each question gets one answer and is then gone, however often and however late
\* its buttons are clicked, also when the host goes away meanwhile.
THEOREM QuestionAnsweredOnce == DialogSpec => []AnsweredOnce
<1>1. DialogInv => AnsweredOnce
  BY DEF DialogInv
<1> QED
  BY <1>1, DialogInvariant, PTL

-----------------------------------------------------------------------------
(* The notes: edits are kept, the list is of its query, and everybody asked    *)
(* about edits is answered once.                                               *)

Writes == {"save", "pin", "remove"}
NoMineWrites == \A r \in requests : ~(r.mine /\ r.op \in Writes)

\* At most one question about leaving and one about removing wait; while one does,
\* its page stays, or is gone with another dialog still on the screen.
QuestionFits(who) ==
    /\ who \in NoteAskers
    /\ who.op # "remove" => leaving.asking
    /\ who.op = "go" => who.arg = "mail"
    /\ who.op = "open" => who.arg \in Notes
    /\ who.op = "empty" => who.arg \in {None, "new"}
    /\ who.op = "remove" => who.arg \in Notes /\ (note # None => note.writing /\ NoMineWrites)
QuestionsFit ==
    /\ pending # <<>> /\ screen = Nobody => note # None
    /\ \A i \in DOMAIN pending : QuestionFits(pending[i].who)
    /\ \A i, j \in DOMAIN pending :
          (pending[i].who.op = "remove" <=> pending[j].who.op = "remove") => i = j

\* One write at a time, of the text on the screen; only a fetch that was agreed to
\* may still replace it.
Agreed == Dirty => consent
RequestFits(r) ==
    /\ r.op = "logout" => Agreed
    /\ r.mine /\ r.op # "logout" => note # None
    /\ r.mine /\ r.op = "detail" =>
          r.number <= note.latest /\ (r.number = note.latest => note.loading /\ Agreed)
    /\ r.mine /\ r.op \in Writes =>
          /\ note.writing
          /\ r.op = "save" /\ Dirty => r.text = note.draft
          /\ r.op = "remove" => Agreed
Rivals(r, s) ==
    /\ r.mine /\ s.mine
    /\ \/ r.op = "detail" /\ s.op = "detail" /\ r.number = s.number
       \/ r.op \in Writes /\ s.op \in Writes
OneOfAKind == \A r, s \in requests : Rivals(r, s) => r = s
RequestsFit == OneOfAKind /\ \A r \in requests : RequestFits(r)

NotesInv == NotesTypeOK /\ ListFitsQuery /\ QuestionsFit /\ RequestsFit

LEMMA EditorTyped ==
  ASSUME NotesInv, note # None
  PROVE  /\ view = "notes" /\ note \in Editors /\ note.sel \in Chosen /\ note.draft \in Contents
         /\ note.saved \in Contents /\ note.writing \in BOOLEAN /\ note.loading \in BOOLEAN
         /\ note.latest \in Nat
<1>1. view = "notes" /\ note \in Editors
  BY DEF NotesInv, NotesTypeOK
<1> QED
  BY <1>1 DEF Editors

LEMMA EditorIsThere ==
  ASSUME NEW editor \in Editors
  PROVE  editor # None
  BY NotesAssumption

\* The fields of a request, and how it is typed again.
LEMMA NoteRequestTyped ==
  ASSUME NEW r, NoteRequestOK(r)
  PROVE  /\ r.op \in {"detail", "list", "save", "pin", "remove", "logout"} /\ r.note \in Chosen
         /\ r.number \in Nat /\ r.mine \in BOOLEAN /\ r.done \in BOOLEAN
         /\ r = [op |-> r.op, note |-> r.note, text |-> r.text, number |-> r.number,
                 mine |-> r.mine, done |-> r.done]
  BY DEF NoteRequestOK

\* Whose page is not there any more.
LEMMA NobodysFit ==
  ASSUME NEW r, NoteRequestOK(r), NEW new, new = [r EXCEPT !.mine = FALSE]
  PROVE  NoteRequestOK(new) /\ new.mine = FALSE /\ new.op = r.op
<1>1. new = [op |-> r.op, note |-> r.note, text |-> r.text, number |-> r.number, mine |-> FALSE,
             done |-> r.done]
  BY DEF NoteRequestOK
<1>2. /\ new.op = r.op /\ new.note = r.note /\ new.text = r.text /\ new.number = r.number
      /\ new.mine = FALSE /\ new.done = r.done
  BY <1>1
<1>3. new \in [op: {"detail", "list", "save", "pin", "remove", "logout"}, note: Chosen,
               text: {new.text}, number: Nat, mine: BOOLEAN, done: BOOLEAN]
  BY <1>1, NoteRequestTyped
<1>4. NoteRequestOK(new)
  BY <1>2, <1>3 DEF NoteRequestOK
<1> QED
  BY <1>2, <1>4

\* A page that writes has nobody asking to remove; one that refuses nothing has
\* nobody asking, and neither has one that is not there under an empty screen.
LEMMA NobodyAsks ==
  ASSUME DialogInv, NotesInv
  PROVE  /\ note # None /\ ~note.writing => \A i \in DOMAIN pending : pending[i].who.op # "remove"
         /\ note # None /\ ~Refuses => pending = <<>>
         /\ note = None /\ screen = Nobody => pending = <<>>
<1>1. /\ \A i \in DOMAIN pending : QuestionFits(pending[i].who)
      /\ pending # <<>> /\ screen = Nobody => note # None
  BY DEF NotesInv, QuestionsFit
<1>2. ASSUME note # None, ~note.writing, NEW i \in DOMAIN pending PROVE pending[i].who.op # "remove"
  BY <1>1, <1>2 DEF QuestionFits
<1>3. pending # <<>> => 1 \in DOMAIN pending
  BY DEF DialogInv, DialogTypeOK
<1>4. ASSUME note # None, ~Refuses PROVE pending = <<>>
  BY <1>1, <1>3, <1>4 DEF Refuses, QuestionFits
<1> QED
  BY <1>1, <1>2, <1>4

\* Questions go on fitting where their page goes on writing.
LEMMA QuestionsStay ==
  ASSUME QuestionsFit, pending' = pending, screen' = screen, leaving' = leaving,
         note = None <=> note' = None,
         \A i \in DOMAIN pending : pending[i].who.op = "remove" /\ note # None =>
            note'.writing = note.writing /\ (NoMineWrites => NoMineWrites')
  PROVE  QuestionsFit'
<1>1. ASSUME NEW i \in DOMAIN pending PROVE QuestionFits(pending[i].who)'
  <2>1. QuestionFits(pending[i].who)
    BY <1>1 DEF QuestionsFit
  <2> QED
    BY <1>1, <2>1 DEF QuestionFits
<1> QED
  BY <1>1 DEF QuestionsFit

LEMMA NobodyFits ==
  ASSUME pending' = <<>>
  PROVE  QuestionsFit'
  BY DEF QuestionsFit

\* Requests that are fewer, one more, or nobody's.
LEMMA FewerOfAKind ==
  ASSUME OneOfAKind, requests' \subseteq requests
  PROVE  OneOfAKind'
  BY DEF OneOfAKind, Rivals

LEMMA OneMoreOfAKind ==
  ASSUME OneOfAKind, NEW new, requests' \subseteq requests \cup {new},
         \A s \in requests' : Rivals(new, s) => s = new
  PROVE  OneOfAKind'
<1>1. ASSUME NEW r \in requests', NEW s \in requests', Rivals(r, s) PROVE r = s
  <2>1. Rivals(s, r)
    BY <1>1 DEF Rivals
  <2>2. CASE r = new \/ s = new
    BY <1>1, <2>1, <2>2
  <2>3. CASE r \in requests /\ s \in requests
    BY <1>1, <2>3 DEF OneOfAKind
  <2> QED
    BY <2>2, <2>3
<1>2. \A r, s \in requests' : Rivals(r, s) <=> Rivals(r, s)'
  BY DEF Rivals
<1> QED
  BY <1>1, <1>2 DEF OneOfAKind

\* A request goes on fitting while the editor does.
LEMMA StillFits ==
  ASSUME NEW r, RequestFits(r), note' = note, consent' = consent
  PROVE  RequestFits(r)'
  BY DEF RequestFits, Agreed, Dirty

\* Requests after which the page has gone.
LEMMA GoneFits ==
  ASSUME NotesInv, note' = None, NEW rs \in SUBSET requests, requests' = Mine(rs)
  PROVE  RequestsFit' /\ (\A r \in requests' : NoteRequestOK(r) /\ ~r.mine) /\ NoMineWrites'
<1>1. \A r \in requests : NoteRequestOK(r)
  BY DEF NotesInv, NotesTypeOK
<1>2. ASSUME NEW new \in requests' PROVE NoteRequestOK(new) /\ new.mine = FALSE
  <2>1. PICK r \in requests : new = [r EXCEPT !.mine = FALSE]
    BY DEF Mine
  <2> QED
    BY <1>1, <2>1, NobodysFit
<1>3. OneOfAKind'
  BY <1>2 DEF OneOfAKind, Rivals
<1>4. \A r \in requests' : RequestFits(r)'
  BY <1>2 DEF RequestFits, Agreed, Dirty
<1> QED
  BY <1>2, <1>3, <1>4 DEF RequestsFit, NoMineWrites

\* Another page is shown.
LEMMA ShowFits ==
  ASSUME NotesInv, NEW v \in {"mail", "notes"}, Show(v), stored' = stored,
         leaving' \in [asking: BOOLEAN, navigating: BOOLEAN], consent' \in BOOLEAN
  PROVE  NotesTypeOK' /\ ListFitsQuery' /\ RequestsFit'
<1>1. /\ view' = v /\ note' = (IF v = "notes" THEN Closed ELSE None)
      /\ titles' = [titles EXCEPT !.rows = {}, !.latest = @ + 1, !.query = "all", !.for = "all",
                       !.due = v = "notes"]
      /\ requests' = Mine(requests)
  BY DEF Show
<1>2. Closed \in Editors /\ Closed.draft = Closed.saved
  BY DEF Closed, Editors, Chosen, Contents
<1>3. \A r \in requests' : NoteRequestOK(r) /\ r.mine = FALSE
  <2>1. ASSUME NEW new \in requests' PROVE NoteRequestOK(new) /\ new.mine = FALSE
    <3>1. PICK r \in requests : new = [r EXCEPT !.mine = FALSE]
      BY <1>1 DEF Mine
    <3> QED
      BY <3>1, NobodysFit DEF NotesInv, NotesTypeOK
  <2> QED
    BY <2>1
<1>4. titles' \in [rows: SUBSET Notes, query: {"all", "some"}, for: {"all", "some"}, latest: Nat,
                   due: BOOLEAN] /\ titles'.rows = {}
  <2>1. titles \in [rows: SUBSET Notes, query: {"all", "some"}, for: {"all", "some"}, latest: Nat,
                    due: BOOLEAN]
    BY DEF NotesInv, NotesTypeOK
  <2>2. titles' = [rows |-> {}, query |-> "all", for |-> "all", latest |-> titles.latest + 1,
                   due |-> (v = "notes")]
    BY <1>1, <2>1
  <2>3. titles.latest + 1 \in Nat /\ (v = "notes") \in BOOLEAN
    BY <2>1
  <2> QED
    BY <2>2, <2>3
<1>5. NotesTypeOK'
  BY <1>1, <1>2, <1>3, <1>4 DEF NotesInv, NotesTypeOK
<1>6. RequestsFit'
  <2>1. OneOfAKind'
    BY <1>3 DEF OneOfAKind, Rivals
  <2>2. ~Dirty'
    BY <1>1, <1>2 DEF Dirty
  <2>3. \A r \in requests' : RequestFits(r)'
    BY <1>3, <2>2 DEF RequestFits, Agreed
  <2> QED
    BY <2>1, <2>3 DEF RequestsFit
<1> QED
  BY <1>4, <1>5, <1>6 DEF ListFitsQuery

\* A new request that is typed, rivals nobody and fits joins those under way.
LEMMA OneMoreRequest ==
  ASSUME NotesInv, NEW new, NoteRequestOK(new), requests' = requests \cup {new},
         \A s \in requests : Rivals(new, s) => s = new,
         RequestFits(new)', \A r \in requests : RequestFits(r)'
  PROVE  (\A r \in requests' : NoteRequestOK(r)) /\ RequestsFit'
<1>1. OneOfAKind'
  BY OneMoreOfAKind DEF NotesInv, RequestsFit
<1> QED
  BY <1>1 DEF RequestsFit, NotesInv, NotesTypeOK

\* A note is fetched to replace what is in the editor.
LEMMA FetchFits ==
  ASSUME NotesInv, note # None, NEW n \in Notes, Fetch(n), UNCHANGED <<view, titles, stored>>,
         leaving' \in [asking: BOOLEAN, navigating: BOOLEAN], consent' \in BOOLEAN,
         consent' \/ (Agreed /\ consent' = consent)
  PROVE  /\ NotesTypeOK' /\ ListFitsQuery' /\ RequestsFit'
         /\ note' # None /\ note'.writing = note.writing /\ (NoMineWrites => NoMineWrites')
<1>0. PICK new : new = NoteRequest("detail", n, None, note.latest + 1)
  OBVIOUS
<1>1. note' = [note EXCEPT !.latest = @ + 1, !.loading = TRUE] /\ requests' = requests \cup {new}
  BY <1>0 DEF Fetch
<1>2. /\ new = [op |-> "detail", note |-> n, text |-> None, number |-> note.latest + 1, mine |-> TRUE,
                done |-> FALSE]
      /\ new.op = "detail" /\ new.note = n /\ new.number = note.latest + 1 /\ new.mine = TRUE
  BY <1>0 DEF NoteRequest
<1>3. NoteRequestOK(new)
  <2>1. note.latest + 1 \in Nat /\ n \in Chosen
    BY EditorTyped DEF Chosen
  <2> QED
    BY <1>2, <2>1 DEF NoteRequestOK
<1>4. /\ note' \in Editors /\ note' # None /\ note'.latest = note.latest + 1 /\ note'.loading = TRUE
      /\ note'.sel = note.sel /\ note'.draft = note.draft /\ note'.saved = note.saved
      /\ note'.writing = note.writing
  <2>1. note' = [sel |-> note.sel, draft |-> note.draft, saved |-> note.saved, writing |-> note.writing,
                 loading |-> TRUE, latest |-> note.latest + 1]
    BY <1>1, EditorTyped DEF Editors
  <2>2. note' \in Editors
    BY <2>1, EditorTyped DEF Editors
  <2>3. note' # None
    BY <2>2, EditorIsThere
  <2> QED
    BY <2>1, <2>2, <2>3
<1>5. Agreed' /\ (Agreed => Agreed') /\ (Dirty' <=> Dirty)
  BY <1>4 DEF Agreed, Dirty
<1>6. \A s \in requests : Rivals(new, s) => s = new
  BY <1>2, EditorTyped DEF Rivals, NotesInv, RequestsFit, RequestFits, Writes
<1>7. RequestFits(new)'
  <2>1. new.number <= note'.latest
    BY <1>2, <1>4, EditorTyped
  <2> QED
    BY <1>2, <1>4, <1>5, <2>1 DEF RequestFits, Writes
<1>8. ASSUME NEW r \in requests PROVE RequestFits(r)'
  <2>1. RequestFits(r) /\ NoteRequestOK(r)
    BY DEF NotesInv, NotesTypeOK, RequestsFit
  <2>2. r.number \in Nat
    BY <2>1, NoteRequestTyped
  <2> QED
    BY <2>1, <2>2, <1>4, <1>5, EditorTyped DEF RequestFits
<1>9. (\A r \in requests' : NoteRequestOK(r)) /\ RequestsFit'
  BY <1>1, <1>3, <1>6, <1>7, <1>8, OneMoreRequest
<1>10. NotesTypeOK'
  BY <1>4, <1>9 DEF NotesInv, NotesTypeOK
<1>11. NoMineWrites => NoMineWrites'
  BY <1>1, <1>2 DEF NoMineWrites, Writes
<1> QED
  BY <1>4, <1>9, <1>10, <1>11 DEF NotesInv, ListFitsQuery

\* The editor is emptied: a fetch under way is overtaken.
LEMMA BlankFits ==
  ASSUME NotesInv, note # None, NEW next \in {None, "new"}, Blank(next),
         UNCHANGED <<view, titles, requests, stored>>,
         leaving' \in [asking: BOOLEAN, navigating: BOOLEAN], consent' \in BOOLEAN
  PROVE  /\ NotesTypeOK' /\ ListFitsQuery' /\ RequestsFit'
         /\ note' # None /\ note'.writing = note.writing /\ (NoMineWrites => NoMineWrites')
<1>1. note' = [note EXCEPT !.latest = @ + 1, !.loading = FALSE, !.sel = next, !.draft = None, !.saved = None]
  BY DEF Blank
<1>2. /\ note' \in Editors /\ note' # None /\ note'.latest = note.latest + 1
      /\ note'.draft = note'.saved /\ note'.writing = note.writing
  <2>1. note' = [sel |-> next, draft |-> None, saved |-> None, writing |-> note.writing,
                 loading |-> FALSE, latest |-> note.latest + 1]
    BY <1>1, EditorTyped DEF Editors
  <2>2. note' \in Editors
    BY <2>1, EditorTyped DEF Editors, Chosen, Contents
  <2>3. note' # None
    BY <2>2, EditorIsThere
  <2> QED
    BY <2>1, <2>2, <2>3
<1>3. ~Dirty'
  BY <1>2 DEF Dirty
<1>4. NotesTypeOK'
  BY <1>2 DEF NotesInv, NotesTypeOK
<1>5. OneOfAKind'
  BY FewerOfAKind DEF NotesInv, RequestsFit
<1>6. ASSUME NEW r \in requests PROVE RequestFits(r)'
  <2>1. RequestFits(r) /\ NoteRequestOK(r)
    BY DEF NotesInv, NotesTypeOK, RequestsFit
  <2>2. r.number \in Nat
    BY <2>1, NoteRequestTyped
  <2> QED
    BY <2>1, <2>2, <1>2, <1>3, EditorTyped DEF RequestFits, Agreed
<1> QED
  BY <1>2, <1>4, <1>5, <1>6 DEF NotesInv, ListFitsQuery, RequestsFit, NoMineWrites

\* Signing out is asked of the server.
LEMMA LogoutFits ==
  ASSUME NotesInv, requests' = requests \cup {LogoutRequest}, UNCHANGED <<view, note, titles, stored>>,
         leaving' \in [asking: BOOLEAN, navigating: BOOLEAN], consent' \in BOOLEAN,
         consent' \/ (Agreed /\ consent' = consent)
  PROVE  /\ NotesTypeOK' /\ ListFitsQuery' /\ RequestsFit'
         /\ (NoMineWrites => NoMineWrites')
<1> DEFINE new == LogoutRequest
<1>1. /\ new = [op |-> "logout", note |-> None, text |-> None, number |-> 0, mine |-> TRUE, done |-> FALSE]
      /\ new.op = "logout"
  BY DEF LogoutRequest, NoteRequest
<1>2. NoteRequestOK(new)
  BY <1>1 DEF NoteRequestOK, Chosen
<1> HIDE DEF new
<1>3. Agreed' /\ (Dirty' <=> Dirty)
  BY DEF Agreed, Dirty
<1>4. \A s \in requests : Rivals(new, s) => s = new
  BY <1>1 DEF Rivals, Writes
<1>5. RequestFits(new)'
  BY <1>1, <1>3 DEF RequestFits, Writes
<1>6. ASSUME NEW r \in requests PROVE RequestFits(r)'
  <2>1. RequestFits(r)
    BY DEF NotesInv, RequestsFit
  <2> QED
    BY <2>1, <1>3 DEF RequestFits
<1>7. (\A r \in requests' : NoteRequestOK(r)) /\ RequestsFit'
  BY <1>2, <1>4, <1>5, <1>6, OneMoreRequest DEF new
<1>8. NotesTypeOK'
  BY <1>7 DEF NotesInv, NotesTypeOK
<1>9. NoMineWrites => NoMineWrites'
  BY <1>1 DEF NoMineWrites, Writes, new
<1> QED
  BY <1>7, <1>8, <1>9 DEF NotesInv, ListFitsQuery

\* The user is asked about edits before going anywhere.
LEMMA AskLeaveFits ==
  ASSUME DialogInv, NotesInv, NEW who \in NoteAskers, who.op # "remove",
         who.op = "go" => who.arg = "mail", who.op = "open" => who.arg \in Notes,
         who.op = "empty" => who.arg \in {None, "new"},
         AskLeave(who), UNCHANGED <<view, note, titles, requests, stored, consent>>
  PROVE  NotesInv'
<1>1. note # None /\ pending = <<>>
  BY NobodyAsks DEF AskLeave, Dirty
<1>2. PICK q : q = [id |-> sequence + 1, who |-> who] /\ pending' = Append(pending, q)
  BY DEF AskLeave, Ask
<1>3. DOMAIN pending' = {1} /\ pending'[1] = q /\ q.who = who
  BY <1>1, <1>2
<1>4. leaving' = [leaving EXCEPT !.asking = TRUE, !.navigating = who.op \in {"go", "logout"}]
  BY DEF AskLeave
<1>5. leaving' \in [asking: BOOLEAN, navigating: BOOLEAN] /\ leaving'.asking
  <2>1. leaving \in [asking: BOOLEAN, navigating: BOOLEAN]
    BY DEF NotesInv, NotesTypeOK
  <2>2. leaving' = [asking |-> TRUE, navigating |-> (who.op \in {"go", "logout"})]
    BY <1>4, <2>1
  <2> QED
    BY <2>2
<1>6. QuestionsFit'
  BY <1>1, <1>3, <1>5 DEF QuestionsFit, QuestionFits
<1>7. NotesTypeOK' /\ ListFitsQuery'
  BY <1>5 DEF NotesInv, NotesTypeOK, ListFitsQuery
<1>8. RequestsFit'
  BY StillFits, FewerOfAKind DEF NotesInv, RequestsFit
<1> QED
  BY <1>6, <1>7, <1>8 DEF NotesInv

LEMMA GoFits ==
  ASSUME DialogInv, NotesInv, NEW v \in {"mail", "notes"}, Go(v)
  PROVE  NotesInv'
<1>1. CASE Unguarded
  <2>1. Show(v) /\ UNCHANGED <<dialogVars, leaving>> /\ UNCHANGED <<stored, consent>> /\ screen = Nobody
    BY <1>1 DEF Go, Ready
  <2>2. NotesTypeOK' /\ ListFitsQuery' /\ RequestsFit'
    BY <2>1, ShowFits DEF NotesInv, NotesTypeOK
  <2>3. pending' = <<>>
    BY <1>1, <2>1, NobodyAsks DEF Unguarded, dialogVars
  <2> QED
    BY <2>2, <2>3, NobodyFits DEF NotesInv
<1>2. CASE ~Unguarded
  <2> DEFINE who == [op |-> "go", arg |-> v]
  <2>1. AskLeave(who) /\ UNCHANGED <<view, note, titles, requests, stored, consent>> /\ v # view
    BY <1>2 DEF Go
  <2>2. view = "notes"
    BY <1>2, EditorTyped DEF Unguarded
  <2>3. v = "mail"
    BY <2>1, <2>2
  <2>4. who \in NoteAskers /\ who.op = "go" /\ who.arg = "mail"
    BY <2>3 DEF NoteAskers
  <2> HIDE DEF who
  <2> QED
    BY <2>1, <2>4, AskLeaveFits
<1> QED
  BY <1>1, <1>2

LEMMA AskToLogOutFits ==
  ASSUME DialogInv, NotesInv, Logout
  PROVE  NotesInv'
<1>1. CASE Unguarded
  <2>1. requests' = requests \cup {LogoutRequest} /\ UNCHANGED <<dialogVars, leaving, view, note, titles, stored, consent>>
    BY <1>1 DEF Logout
  <2>2. Agreed
    BY <1>1 DEF Unguarded, Agreed, Dirty
  <2>3. leaving' \in [asking: BOOLEAN, navigating: BOOLEAN] /\ consent' \in BOOLEAN
    BY <2>1 DEF NotesInv, NotesTypeOK
  <2>4. NotesTypeOK' /\ ListFitsQuery' /\ RequestsFit' /\ (NoMineWrites => NoMineWrites')
    BY <2>1, <2>2, <2>3, LogoutFits
  <2>5. QuestionsFit'
    BY <2>1, <2>4, QuestionsStay DEF NotesInv, dialogVars
  <2> QED
    BY <2>4, <2>5 DEF NotesInv
<1>2. CASE ~Unguarded
  <2> DEFINE who == [op |-> "logout", arg |-> None]
  <2>1. AskLeave(who) /\ UNCHANGED <<view, note, titles, requests, stored, consent>>
    BY <1>2 DEF Logout
  <2>2. who \in NoteAskers /\ who.op = "logout"
    BY DEF NoteAskers, Chosen
  <2> HIDE DEF who
  <2> QED
    BY <2>1, <2>2, AskLeaveFits
<1> QED
  BY <1>1, <1>2

LEMMA OpenNoteFits ==
  ASSUME DialogInv, NotesInv, NEW n \in Notes, OpenNote(n)
  PROVE  NotesInv'
<1>1. note # None /\ UNCHANGED <<view, titles, stored, consent>>
  BY DEF OpenNote, Free, Editor
<1>2. CASE Unguarded
  <2>1. Fetch(n) /\ UNCHANGED <<dialogVars, leaving>>
    BY <1>2 DEF OpenNote
  <2>2. Agreed
    BY <1>2 DEF Unguarded, Agreed, Dirty
  <2>3. leaving' \in [asking: BOOLEAN, navigating: BOOLEAN] /\ consent' \in BOOLEAN
    BY <1>1, <2>1 DEF NotesInv, NotesTypeOK
  <2>4. /\ NotesTypeOK' /\ ListFitsQuery' /\ RequestsFit'
        /\ note' # None /\ note'.writing = note.writing /\ (NoMineWrites => NoMineWrites')
    BY <1>1, <2>1, <2>2, <2>3, FetchFits
  <2>5. QuestionsFit'
    BY <1>1, <2>1, <2>4, QuestionsStay DEF NotesInv, dialogVars
  <2> QED
    BY <2>4, <2>5 DEF NotesInv
<1>3. CASE ~Unguarded
  <2> DEFINE who == [op |-> "open", arg |-> n]
  <2>1. AskLeave(who) /\ UNCHANGED <<view, note, titles, requests, stored, consent>>
    BY <1>1, <1>3 DEF OpenNote
  <2>2. who \in NoteAskers /\ who.op = "open" /\ who.arg \in Notes
    BY DEF NoteAskers, Chosen
  <2> HIDE DEF who
  <2> QED
    BY <2>1, <2>2, AskLeaveFits
<1> QED
  BY <1>2, <1>3

LEMMA SelectEmptyFits ==
  ASSUME DialogInv, NotesInv, NEW next \in {"new", None}, SelectEmpty(next)
  PROVE  NotesInv'
<1>1. note # None /\ UNCHANGED <<view, titles, requests, stored, consent>>
  BY DEF SelectEmpty, Free, Editor
<1>2. CASE Unguarded
  <2>1. Blank(next) /\ UNCHANGED <<dialogVars, leaving>>
    BY <1>2 DEF SelectEmpty
  <2>2. leaving' \in [asking: BOOLEAN, navigating: BOOLEAN] /\ consent' \in BOOLEAN
    BY <1>1, <2>1 DEF NotesInv, NotesTypeOK
  <2>3. /\ NotesTypeOK' /\ ListFitsQuery' /\ RequestsFit'
        /\ note' # None /\ note'.writing = note.writing /\ (NoMineWrites => NoMineWrites')
    BY <1>1, <2>1, <2>2, BlankFits
  <2>4. QuestionsFit'
    BY <1>1, <2>1, <2>3, QuestionsStay DEF NotesInv, dialogVars
  <2> QED
    BY <2>3, <2>4 DEF NotesInv
<1>3. CASE ~Unguarded
  <2> DEFINE who == [op |-> "empty", arg |-> next]
  <2>1. AskLeave(who) /\ UNCHANGED <<view, note, titles, requests, stored, consent>>
    BY <1>1, <1>3 DEF SelectEmpty
  <2>2. who \in NoteAskers /\ who.op = "empty" /\ who.arg \in {None, "new"}
    BY DEF NoteAskers, Chosen
  <2> HIDE DEF who
  <2> QED
    BY <2>1, <2>2, AskLeaveFits
<1> QED
  BY <1>2, <1>3

LEMMA TypeFits ==
  ASSUME DialogInv, NotesInv, NEW text \in Texts, Type(text)
  PROVE  NotesInv'
<1>1. /\ note # None /\ ~note.writing /\ ~note.loading /\ note' = [note EXCEPT !.draft = text]
      /\ consent' = SigningOut /\ UNCHANGED <<dialogVars, view, leaving, titles, requests, stored>>
  BY DEF Type, Free, Editor
<1>2. note' = [sel |-> note.sel, draft |-> text, saved |-> note.saved, writing |-> note.writing,
               loading |-> note.loading, latest |-> note.latest]
  BY <1>1, EditorTyped DEF Editors
<1>3. note' \in Editors
  BY <1>1, <1>2, EditorTyped DEF Editors, Contents
<1>4. note' # None
  BY <1>3, EditorIsThere
<1>5. NotesTypeOK' /\ ListFitsQuery'
  <2>1. consent' \in BOOLEAN /\ view = "notes"
    BY <1>1, EditorTyped DEF SigningOut
  <2> QED
    BY <1>1, <1>3, <2>1 DEF NotesInv, NotesTypeOK, ListFitsQuery
<1>6. QuestionsFit'
  BY <1>1, <1>4, QuestionsStay, NobodyAsks DEF NotesInv, dialogVars
<1>7. OneOfAKind'
  BY <1>1, FewerOfAKind DEF NotesInv, RequestsFit
<1>8. ASSUME NEW r \in requests PROVE RequestFits(r)'
  <2>1. RequestFits(r)
    BY DEF NotesInv, RequestsFit
  <2>2. r.op = "logout" => Agreed'
    BY <1>1 DEF SigningOut, Agreed
  <2> QED
    BY <1>1, <1>2, <1>4, <2>1, <2>2 DEF RequestFits
<1> QED
  BY <1>1, <1>5, <1>6, <1>7, <1>8 DEF NotesInv, RequestsFit

\* Saving and pinning.
LEMMA WritingFits ==
  ASSUME DialogInv, NotesInv, NEW op \in {"save", "pin"}, NEW text, Writing(op, text),
         op = "save" => note.sel \in Notes \cup {"new"} /\ text = note.draft /\ text \in Texts,
         op = "pin" => note.sel \in Notes
  PROVE  NotesInv'
<1>0. PICK new : new = NoteRequest(op, note.sel, text, 0)
  OBVIOUS
<1>1. /\ note # None /\ ~note.writing /\ ~note.loading /\ note' = [note EXCEPT !.writing = TRUE]
      /\ requests' = requests \cup {new}
      /\ UNCHANGED <<dialogVars, view, leaving, titles, stored, consent>>
  BY <1>0 DEF Writing, Free, Editor
<1>2. /\ new = [op |-> op, note |-> note.sel, text |-> text, number |-> 0, mine |-> TRUE, done |-> FALSE]
      /\ new.op = op /\ new.note = note.sel /\ new.text = text /\ new.number = 0 /\ new.done = FALSE
  BY <1>0 DEF NoteRequest
<1>3. NoteRequestOK(new)
  <2>1. note.sel \in Chosen
    BY <1>1, EditorTyped
  <2> QED
    BY <1>2, <2>1 DEF NoteRequestOK
<1>4. note' = [sel |-> note.sel, draft |-> note.draft, saved |-> note.saved, writing |-> TRUE,
               loading |-> note.loading, latest |-> note.latest]
  BY <1>1, EditorTyped DEF Editors
<1>5. note' \in Editors
  BY <1>1, <1>4, EditorTyped DEF Editors
<1>6. note' # None
  BY <1>5, EditorIsThere
<1>7. QuestionsFit'
  BY <1>1, <1>6, QuestionsStay, NobodyAsks DEF NotesInv, dialogVars
<1>8. (Agreed => Agreed') /\ (Dirty' <=> Dirty)
  BY <1>1, <1>4, <1>6 DEF Agreed, Dirty
<1>9. ASSUME NEW r \in requests PROVE RequestFits(r)' /\ ~(r.mine /\ r.op \in Writes)
  <2>1. RequestFits(r)
    BY DEF NotesInv, RequestsFit
  <2>2. ~(r.mine /\ r.op \in Writes)
    BY <1>1, <2>1 DEF RequestFits
  <2> QED
    BY <1>1, <1>4, <1>6, <1>8, <2>1, <2>2 DEF RequestFits
<1>10. \A s \in requests : Rivals(new, s) => s = new
  BY <1>2, <1>9 DEF Rivals, Writes
<1>11. RequestFits(new)'
  BY <1>2, <1>4, <1>6 DEF RequestFits, Writes
<1>12. (\A r \in requests' : NoteRequestOK(r)) /\ RequestsFit'
  BY <1>1, <1>3, <1>9, <1>10, <1>11, OneMoreRequest
<1>13. NotesTypeOK' /\ ListFitsQuery'
  BY <1>1, <1>5, <1>12, EditorTyped DEF NotesInv, NotesTypeOK, ListFitsQuery
<1> QED
  BY <1>7, <1>12, <1>13 DEF NotesInv

LEMMA SaveFits ==
  ASSUME DialogInv, NotesInv, Save
  PROVE  NotesInv'
<1>1. note # None /\ note.sel # None /\ note.draft # None /\ Writing("save", note.draft)
  BY DEF Save, Dirty
<1>2. note.sel \in Notes \cup {"new"} /\ note.draft \in Texts
  BY <1>1, EditorTyped DEF Chosen, Contents
<1> QED
  BY <1>1, <1>2, WritingFits

LEMMA TogglePinFits ==
  ASSUME DialogInv, NotesInv, TogglePin
  PROVE  NotesInv'
<1>1. note.sel \in Notes /\ Writing("pin", None)
  BY DEF TogglePin, NotesInv, NotesTypeOK
<1> QED
  BY <1>1, WritingFits

\* Asking before a note is removed.
LEMMA RemoveFits ==
  ASSUME DialogInv, NotesInv, Remove
  PROVE  NotesInv'
<1>1. /\ note # None /\ ~note.writing /\ ~note.loading /\ note.sel \in Notes
      /\ note' = [note EXCEPT !.writing = TRUE] /\ Ask([op |-> "remove", arg |-> note.sel])
      /\ UNCHANGED <<view, leaving, titles, requests, stored, consent>>
  BY DEF Remove, Free, Editor
<1>2. note' = [sel |-> note.sel, draft |-> note.draft, saved |-> note.saved, writing |-> TRUE,
               loading |-> note.loading, latest |-> note.latest]
  BY <1>1, EditorTyped DEF Editors
<1>3. note' \in Editors
  BY <1>1, <1>2, EditorTyped DEF Editors
<1>4. note' # None
  BY <1>3, EditorIsThere
<1>5. (Agreed => Agreed') /\ (Dirty' <=> Dirty)
  BY <1>1, <1>2, <1>4 DEF Agreed, Dirty
<1>6. ASSUME NEW r \in requests PROVE RequestFits(r)' /\ ~(r.mine /\ r.op \in Writes)
  <2>1. RequestFits(r)
    BY DEF NotesInv, RequestsFit
  <2>2. ~(r.mine /\ r.op \in Writes)
    BY <1>1, <2>1 DEF RequestFits
  <2> QED
    BY <1>1, <1>2, <1>4, <1>5, <2>1, <2>2 DEF RequestFits
<1>7. OneOfAKind'
  BY <1>1, FewerOfAKind DEF NotesInv, RequestsFit
<1>8. QuestionsFit'
  <2>1. PICK q : q = [id |-> sequence + 1, who |-> [op |-> "remove", arg |-> note.sel]]
                 /\ pending' = Append(pending, q)
    BY <1>1 DEF Ask
  <2>2. /\ pending \in Seq(Questions)
        /\ \A i \in DOMAIN pending : QuestionFits(pending[i].who) /\ pending[i].who.op # "remove"
        /\ \A i, j \in DOMAIN pending :
              (pending[i].who.op = "remove" <=> pending[j].who.op = "remove") => i = j
    BY <1>1, NobodyAsks DEF DialogInv, DialogTypeOK, NotesInv, QuestionsFit
  <2>3. /\ DOMAIN pending = 1 .. Len(pending) /\ DOMAIN pending' = 1 .. Len(pending) + 1
        /\ Len(pending) \in Nat /\ pending'[Len(pending) + 1] = q
        /\ \A i \in DOMAIN pending : pending'[i] = pending[i]
    BY <2>1, <2>2
  <2>4. q.who.op = "remove" /\ q.who.arg = note.sel /\ q.who \in NoteAskers
    BY <1>1, <2>1 DEF NoteAskers, Chosen
  <2>5. NoMineWrites'
    BY <1>1, <1>6 DEF NoMineWrites
  <2>6. QuestionFits(q.who)'
    BY <1>1, <1>2, <2>4, <2>5 DEF QuestionFits
  <2>7. ASSUME NEW i \in DOMAIN pending, NEW who, who = pending[i].who PROVE QuestionFits(who)'
    BY <1>1, <2>2, <2>7 DEF QuestionFits
  <2>8. ASSUME NEW i \in DOMAIN pending' PROVE QuestionFits(pending[i].who)'
    <3>1. CASE i = Len(pending) + 1
      BY <2>3, <2>6, <3>1
    <3>2. CASE i \in DOMAIN pending
      BY <2>3, <2>7, <3>2
    <3> QED
      BY <2>3, <3>1, <3>2
  <2>9. \A i, j \in DOMAIN pending' :
           (pending'[i].who.op = "remove" <=> pending'[j].who.op = "remove") => i = j
    BY <2>2, <2>3, <2>4
  <2> QED
    BY <1>4, <2>8, <2>9 DEF QuestionsFit
<1>9. NotesTypeOK' /\ ListFitsQuery'
  BY <1>1, <1>3, EditorTyped DEF NotesInv, NotesTypeOK, ListFitsQuery
<1> QED
  BY <1>1, <1>6, <1>7, <1>8, <1>9 DEF NotesInv, RequestsFit

\* Searching, and the list asked for after the pause.
LEMMA SearchFits ==
  ASSUME NotesInv, NEW q \in {"all", "some"}, Search(q)
  PROVE  NotesInv'
<1>1. /\ titles' = [titles EXCEPT !.query = q, !.for = q, !.rows = {}, !.latest = @ + 1, !.due = TRUE]
      /\ UNCHANGED <<dialogVars, view, leaving, note, requests, stored, consent>>
  BY DEF Search
<1>2. titles \in [rows: SUBSET Notes, query: {"all", "some"}, for: {"all", "some"}, latest: Nat, due: BOOLEAN]
  BY DEF NotesInv, NotesTypeOK
<1>3. titles' = [rows |-> {}, query |-> q, for |-> q, latest |-> titles.latest + 1, due |-> TRUE]
  BY <1>1, <1>2
<1>4. NotesTypeOK' /\ ListFitsQuery'
  <2>1. /\ titles' \in [rows: SUBSET Notes, query: {"all", "some"}, for: {"all", "some"}, latest: Nat,
                        due: BOOLEAN]
        /\ titles'.rows = {}
    BY <1>2, <1>3
  <2>2. UNCHANGED <<view, leaving, note, requests, stored, consent>>
    BY <1>1
  <2> QED
    BY <2>1, <2>2 DEF NotesInv, NotesTypeOK, ListFitsQuery
<1>5. QuestionsFit'
  BY <1>1, QuestionsStay DEF NotesInv, dialogVars, NoMineWrites
<1>6. RequestsFit'
  BY <1>1, StillFits, FewerOfAKind DEF NotesInv, RequestsFit
<1> QED
  BY <1>4, <1>5, <1>6 DEF NotesInv

\* A request for the list fits wherever the page is there.
LEMMA ListRequestFits ==
  ASSUME NotesInv, NEW new, new = TitlesRequest
  PROVE  NoteRequestOK(new) /\ new.op = "list" /\ (note' # None => RequestFits(new)')
<1>1. /\ new = [op |-> "list", note |-> None, text |-> titles.query, number |-> titles.latest + 1,
                mine |-> TRUE, done |-> FALSE]
      /\ new.op = "list" /\ new.text = titles.query
  BY DEF TitlesRequest, NoteRequest
<1>2. titles.latest + 1 \in Nat /\ titles.query \in {"all", "some"} /\ None \in Chosen
  BY DEF NotesInv, NotesTypeOK, Chosen
<1>3. NoteRequestOK(new)
  BY <1>1, <1>2 DEF NoteRequestOK
<1>4. note' # None => RequestFits(new)'
  BY <1>1 DEF RequestFits, Writes
<1> QED
  BY <1>1, <1>3, <1>4

LEMMA LoadListFits ==
  ASSUME NotesInv, LoadList
  PROVE  NotesInv'
<1>0. PICK new : new = TitlesRequest
  OBVIOUS
<1>1. /\ note # None /\ titles' = [titles EXCEPT !.latest = @ + 1, !.due = FALSE]
      /\ requests' = requests \cup {new}
      /\ UNCHANGED <<dialogVars, view, leaving, note, stored, consent>>
  BY <1>0 DEF LoadList
<1>2. titles \in [rows: SUBSET Notes, query: {"all", "some"}, for: {"all", "some"}, latest: Nat, due: BOOLEAN]
  BY DEF NotesInv, NotesTypeOK
<1>3. titles' = [rows |-> titles.rows, query |-> titles.query, for |-> titles.for,
                 latest |-> titles.latest + 1, due |-> FALSE]
  BY <1>1, <1>2
<1>4. NoteRequestOK(new) /\ new.op = "list" /\ RequestFits(new)'
  <2>1. NoteRequestOK(new) /\ new.op = "list" /\ (note' # None => RequestFits(new)')
    BY <1>0, ListRequestFits
  <2> QED
    BY <1>1, <2>1
<1>5. \A r \in requests : RequestFits(r)'
  BY <1>1, StillFits DEF NotesInv, RequestsFit
<1>6. \A s \in requests : Rivals(new, s) => s = new
  BY <1>4 DEF Rivals, Writes
<1>7. (\A r \in requests' : NoteRequestOK(r)) /\ RequestsFit'
  BY <1>1, <1>4, <1>5, <1>6, OneMoreRequest
<1>8. NotesTypeOK' /\ ListFitsQuery'
  <2>1. /\ titles' \in [rows: SUBSET Notes, query: {"all", "some"}, for: {"all", "some"}, latest: Nat,
                        due: BOOLEAN]
        /\ titles'.rows = titles.rows /\ titles'.for = titles.for /\ titles'.query = titles.query
    BY <1>2, <1>3
  <2>2. UNCHANGED <<view, leaving, note, stored, consent>>
    BY <1>1
  <2> QED
    BY <1>7, <2>1, <2>2 DEF NotesInv, NotesTypeOK, ListFitsQuery
<1>9. NoMineWrites => NoMineWrites'
  BY <1>1, <1>4 DEF NoMineWrites, Writes
<1>10. QuestionsFit'
  BY <1>1, <1>9, QuestionsStay DEF NotesInv, dialogVars
<1> QED
  BY <1>7, <1>8, <1>10 DEF NotesInv

\* The dialog is drawn, or its host mounted: the page stays as it is.
LEMMA DrawnFits ==
  ASSUME DialogInv, NotesInv, Rendered \/ SignInAgain
  PROVE  NotesInv'
<1>1. /\ UNCHANGED <<view, leaving, note, titles, requests, stored, consent, pending>>
      /\ pending # <<>> /\ screen' = Nobody => screen = Nobody
  <2>1. CASE Rendered
    <3>1. screen' = active /\ pending' = pending
      BY <2>1 DEF Rendered, Render
    <3>2. pending # <<>> => active # Nobody
      <4>1. pending # <<>> => Head(pending) \in Questions
        BY DEF DialogInv, DialogTypeOK
      <4> QED
        BY <4>1, DialogAssumption DEF DialogInv, WaitingIsShown, First, Questions
    <3> QED
      BY <2>1, <3>1, <3>2 DEF Rendered
  <2>2. CASE SignInAgain
    BY <2>2 DEF SignInAgain, MountHost
  <2> QED
    BY <2>1, <2>2
<1>2. NotesTypeOK' /\ ListFitsQuery'
  BY <1>1 DEF NotesInv, NotesTypeOK, ListFitsQuery
<1>3. RequestsFit'
  BY <1>1, StillFits, FewerOfAKind DEF NotesInv, RequestsFit
<1>4. ASSUME NEW i \in DOMAIN pending PROVE QuestionFits(pending[i].who)'
  <2>1. QuestionFits(pending[i].who)
    BY DEF NotesInv, QuestionsFit
  <2> QED
    BY <1>1, <2>1 DEF QuestionFits, NoMineWrites
<1>5. QuestionsFit'
  BY <1>1, <1>4 DEF NotesInv, QuestionsFit
<1> QED
  BY <1>2, <1>3, <1>5 DEF NotesInv

\* The server writes: the request is the same but for being done and for its note.
LEMMA ServerStoresFits ==
  ASSUME NotesInv, NEW r \in requests, ServerStores(r)
  PROVE  NotesInv'
<1>1. r.done = FALSE /\ r.op \in Writes /\ NoteRequestOK(r) /\ RequestFits(r)
  BY NoteRequestTyped DEF ServerStores, Writes, NotesInv, NotesTypeOK, RequestsFit
<1>2. PICK n \in (IF r.note = "new" THEN FreeNotes ELSE {r.note}) :
         /\ requests' = (requests \ {r}) \cup {[r EXCEPT !.done = TRUE, !.note = n]}
         /\ stored' = IF r.op = "save" THEN [stored EXCEPT ![n] = r.text]
                      ELSE IF r.op = "remove" THEN [stored EXCEPT ![n] = None] ELSE stored
  BY DEF ServerStores
<1>3. PICK new : new = [r EXCEPT !.done = TRUE, !.note = n]
  OBVIOUS
<1>4. UNCHANGED <<dialogVars, view, leaving, note, titles, consent>>
  BY DEF ServerStores
<1>5. n \in Notes
  <2>1. CASE r.note = "new"
    BY <1>2, <2>1 DEF FreeNotes
  <2>2. CASE r.note # "new"
    BY <1>1, <1>2, <2>2 DEF NoteRequestOK, Writes
  <2> QED
    BY <2>1, <2>2
<1>6. /\ new = [op |-> r.op, note |-> n, text |-> r.text, number |-> r.number, mine |-> r.mine, done |-> TRUE]
      /\ new.op = r.op /\ new.note = n /\ new.text = r.text /\ new.number = r.number
      /\ new.mine = r.mine /\ new.done = TRUE
  BY <1>1, <1>3 DEF NoteRequestOK
<1>7. NoteRequestOK(new)
  <2>1. n \in Chosen /\ r.number \in Nat /\ r.mine \in BOOLEAN
    BY <1>1, <1>5, NoteRequestTyped DEF Chosen
  <2> QED
    BY <1>1, <1>5, <1>6, <2>1 DEF NoteRequestOK, Writes
<1>8. stored' \in [Notes -> Contents]
  <2>1. r.op = "save" => r.text \in Contents
    BY <1>1 DEF NoteRequestOK, Contents
  <2>2. stored \in [Notes -> Contents] /\ None \in Contents
    BY DEF NotesInv, NotesTypeOK, Contents
  <2> QED
    BY <1>2, <2>1, <2>2
<1>9. NotesTypeOK' /\ ListFitsQuery'
  BY <1>2, <1>3, <1>4, <1>7, <1>8 DEF NotesInv, NotesTypeOK, ListFitsQuery
<1>10. \A s \in requests \ {r} : ~Rivals(r, s)
  BY DEF NotesInv, RequestsFit, OneOfAKind
<1>11. \A s \in requests' : Rivals(new, s) => s = new
  BY <1>2, <1>3, <1>6, <1>10 DEF Rivals
<1>12. OneOfAKind'
  <2>1. requests' \subseteq requests \cup {new}
    BY <1>2, <1>3
  <2> QED
    BY <1>11, <2>1, OneMoreOfAKind DEF NotesInv, RequestsFit
<1>13. RequestFits(new)'
  BY <1>1, <1>4, <1>6 DEF RequestFits, Agreed, Dirty
<1>14. \A s \in requests : RequestFits(s)'
  BY <1>4, StillFits DEF NotesInv, RequestsFit
<1>15. RequestsFit'
  BY <1>2, <1>3, <1>12, <1>13, <1>14 DEF RequestsFit
<1>16. NoMineWrites => NoMineWrites'
  BY <1>1, <1>2, <1>3, <1>6 DEF NoMineWrites
<1>17. QuestionsFit'
  BY <1>4, <1>16, QuestionsStay DEF NotesInv, dialogVars
<1> QED
  BY <1>9, <1>15, <1>17 DEF NotesInv

\* An answer to nobody, or one that leaves the editor as it is.
LEMMA EditorKept ==
  ASSUME NotesInv, note' = note, requests' \subseteq requests, Agreed => Agreed',
         pending' = pending, screen' = screen, leaving' = leaving
  PROVE  RequestsFit' /\ QuestionsFit'
<1>1. OneOfAKind'
  BY FewerOfAKind DEF NotesInv, RequestsFit
<1>2. ASSUME NEW s \in requests PROVE RequestFits(s)'
  <2>1. RequestFits(s)
    BY DEF NotesInv, RequestsFit
  <2>2. Dirty' <=> Dirty
    BY DEF Dirty
  <2> QED
    BY <2>1, <2>2 DEF RequestFits
<1>3. NoMineWrites => NoMineWrites'
  BY DEF NoMineWrites
<1> QED
  BY <1>1, <1>2, <1>3, QuestionsStay DEF NotesInv, RequestsFit

\* The newest fetch is over.
LEMMA FetchDone ==
  ASSUME NotesInv, NEW r \in requests, r.mine, r.op = "detail", r.number = note.latest,
         requests' \subseteq requests \ {r}, note' # None, note'.latest = note.latest,
         note'.writing = note.writing, Dirty' => Dirty /\ note'.draft = note.draft, Agreed => Agreed',
         pending' = pending, screen' = screen, leaving' = leaving
  PROVE  RequestsFit' /\ QuestionsFit'
<1>1. OneOfAKind'
  BY FewerOfAKind DEF NotesInv, RequestsFit
<1>2. note # None /\ note.latest \in Nat
  BY EditorTyped DEF NotesInv, RequestsFit, RequestFits
<1>3. ASSUME NEW s \in requests' PROVE RequestFits(s)'
  <2>1. RequestFits(s) /\ s # r
    BY DEF NotesInv, RequestsFit
  <2>2. s.mine /\ s.op = "detail" => s.number # note.latest
    BY <2>1 DEF NotesInv, RequestsFit, OneOfAKind, Rivals
  <2> QED
    BY <2>1, <2>2, <1>2 DEF RequestFits
<1>4. NoMineWrites => NoMineWrites'
  BY DEF NoMineWrites
<1> QED
  BY <1>1, <1>2, <1>3, <1>4, QuestionsStay DEF NotesInv, RequestsFit

\* A write of the page is over: nobody asks to remove meanwhile, no other is under way.
LEMMA WriteDone ==
  ASSUME DialogInv, NotesInv, NEW r \in requests, r.mine, r.op \in Writes, NEW new,
         NoteRequestOK(new), new.op = "list", RequestFits(new)', requests' \subseteq (requests \ {r}) \cup {new},
         note' # None, note'.latest = note.latest, note'.loading = note.loading, Agreed => Agreed',
         pending' = pending, screen' = screen, leaving' = leaving
  PROVE  RequestsFit' /\ QuestionsFit' /\ \A s \in requests' : NoteRequestOK(s)
<1>1. RequestFits(r)
  BY DEF NotesInv, RequestsFit
<1>2. note # None /\ note.writing
  BY <1>1 DEF RequestFits, Writes
<1>3. \A s \in requests \ {r} : ~(s.mine /\ s.op \in Writes)
  BY DEF NotesInv, RequestsFit, OneOfAKind, Rivals
<1>4. OneOfAKind'
  <2>1. requests' \subseteq requests \cup {new}
    OBVIOUS
  <2>2. \A s \in requests' : Rivals(new, s) => s = new
    BY DEF Rivals, Writes
  <2> QED
    BY <2>1, <2>2, OneMoreOfAKind DEF NotesInv, RequestsFit
<1>5. ASSUME NEW s \in requests' PROVE RequestFits(s)'
  <2>1. CASE s = new
    BY <2>1
  <2>2. CASE s \in requests \ {r}
    <3>1. RequestFits(s) /\ ~(s.mine /\ s.op \in Writes)
      BY <1>3, <2>2 DEF NotesInv, RequestsFit
    <3> QED
      BY <3>1 DEF RequestFits
  <2> QED
    BY <2>1, <2>2
<1>6. \A i \in DOMAIN pending : pending[i].who.op # "remove"
  <2>1. ~NoMineWrites
    BY DEF NoMineWrites
  <2> QED
    BY <1>2, <2>1 DEF NotesInv, QuestionsFit, QuestionFits
<1>7. QuestionsFit'
  BY <1>2, <1>6, QuestionsStay DEF NotesInv
<1> QED
  BY <1>4, <1>5, <1>7 DEF RequestsFit, NotesInv, NotesTypeOK

LEMMA RequestFailsFits ==
  ASSUME DialogInv, NotesInv, NEW r \in requests, RequestFails(r)
  PROVE  NotesInv'
<1>1. /\ requests' = requests \ {r} /\ UNCHANGED <<dialogVars, view, leaving, titles, stored, consent>>
      /\ \A s \in requests : NoteRequestOK(s)
  BY DEF RequestFails, NotesInv, NotesTypeOK
<1>2. pending' = pending /\ screen' = screen /\ leaving' = leaving
  BY <1>1 DEF dialogVars
<1>3. RequestFits(r) /\ r.op \in {"detail", "list", "save", "pin", "remove", "logout"}
  BY <1>1, NoteRequestTyped DEF NotesInv, RequestsFit
<1>4. ListFitsQuery' /\ QuestionsFit' /\ RequestsFit' /\ note' \in Editors \cup {None}
      /\ (note' # None => note # None)
  <2>1. CASE note' = note
    <3>1. Agreed => Agreed'
      BY <1>1, <2>1 DEF Agreed, Dirty
    <3> QED
      BY <1>1, <1>2, <2>1, <3>1, EditorKept DEF NotesInv, NotesTypeOK, ListFitsQuery
  <2>2. CASE r.mine /\ r.op = "detail" /\ r.number = note.latest
    <3>1. note # None /\ note' = [note EXCEPT !.loading = FALSE]
      BY <1>3, <2>2 DEF RequestFits, RequestFails
    <3>2. note' = [sel |-> note.sel, draft |-> note.draft, saved |-> note.saved,
                   writing |-> note.writing, loading |-> FALSE, latest |-> note.latest]
      BY <3>1, EditorTyped DEF Editors
    <3>3. note' \in Editors
      BY <3>1, <3>2, EditorTyped DEF Editors
    <3>4. note' # None
      BY <3>3, EditorIsThere
    <3>5. (Dirty' <=> Dirty) /\ (Agreed => Agreed') /\ note'.draft = note.draft
      BY <1>1, <3>1, <3>2, <3>4 DEF Dirty, Agreed
    <3>6. QuestionsFit' /\ RequestsFit'
      BY <1>1, <1>2, <2>2, <3>2, <3>4, <3>5, FetchDone
    <3> QED
      BY <1>1, <3>1, <3>3, <3>6 DEF NotesInv, ListFitsQuery
  <2>3. CASE r.mine /\ r.op \in Writes
    <3>1. note # None /\ note' = [note EXCEPT !.writing = FALSE]
      BY <1>3, <2>3 DEF RequestFits, RequestFails, Writes
    <3>2. note' = [sel |-> note.sel, draft |-> note.draft, saved |-> note.saved,
                   writing |-> FALSE, loading |-> note.loading, latest |-> note.latest]
      BY <3>1, EditorTyped DEF Editors
    <3>3. note' \in Editors
      BY <3>1, <3>2, EditorTyped DEF Editors
    <3>4. note' # None
      BY <3>3, EditorIsThere
    <3>5. Agreed => Agreed'
      BY <1>1, <3>1, <3>2, <3>4 DEF Dirty, Agreed
    <3>6. PICK new : new = TitlesRequest
      OBVIOUS
    <3>7. NoteRequestOK(new) /\ new.op = "list" /\ RequestFits(new)'
      <4>1. NoteRequestOK(new) /\ new.op = "list" /\ (note' # None => RequestFits(new)')
        BY <3>6, ListRequestFits
      <4> QED
        BY <3>4, <4>1
    <3>8. QuestionsFit' /\ RequestsFit'
      BY <1>1, <1>2, <2>3, <3>2, <3>4, <3>5, <3>7, WriteDone
    <3> QED
      BY <1>1, <3>1, <3>3, <3>8 DEF NotesInv, ListFitsQuery
  <2> QED
    BY <1>3, <2>1, <2>2, <2>3 DEF RequestFails, Writes
<1>5. NotesTypeOK'
  BY <1>1, <1>4, EditorTyped DEF NotesInv, NotesTypeOK
<1> QED
  BY <1>4, <1>5 DEF NotesInv

\* The note fetched, unless another took its place.
LEMMA DetailFits ==
  ASSUME DialogInv, NotesInv, NEW r \in requests, Answer(r), r.op = "detail"
  PROVE  NotesInv'
<1>1. /\ requests' = requests \ {r} /\ UNCHANGED <<dialogVars, view, leaving, titles, stored>>
      /\ consent' = (consent /\ note' # None /\ note'.sel = note.sel /\ note'.draft = note.draft)
      /\ \A s \in requests : NoteRequestOK(s)
      /\ note' = IF r.mine /\ r.number = note.latest /\ stored[r.note] # None
                 THEN [note EXCEPT !.sel = r.note, !.draft = stored[r.note],
                          !.saved = stored[r.note], !.loading = FALSE]
                 ELSE IF r.mine /\ r.number = note.latest THEN [note EXCEPT !.loading = FALSE] ELSE note
  BY DEF Answer, NotesInv, NotesTypeOK
<1>2. pending' = pending /\ screen' = screen /\ leaving' = leaving
  BY <1>1 DEF dialogVars
<1>3. RequestFits(r) /\ r.note \in Notes /\ consent' \in BOOLEAN
  BY <1>1 DEF NotesInv, RequestsFit, NoteRequestOK
<1>4. ListFitsQuery' /\ QuestionsFit' /\ RequestsFit' /\ note' \in Editors \cup {None}
      /\ (note' # None => note # None)
  <2>1. CASE note' = note
    <3>1. Agreed => Agreed'
      BY <1>1, <2>1 DEF Agreed, Dirty
    <3> QED
      BY <1>1, <1>2, <2>1, <3>1, EditorKept DEF NotesInv, NotesTypeOK, ListFitsQuery
  <2>2. CASE r.mine /\ r.number = note.latest /\ stored[r.note] # None
    <3>1. note # None /\ note' = [note EXCEPT !.sel = r.note, !.draft = stored[r.note],
                                     !.saved = stored[r.note], !.loading = FALSE]
      BY <1>1, <1>3, <2>2 DEF RequestFits
    <3>2. note' = [sel |-> r.note, draft |-> stored[r.note], saved |-> stored[r.note],
                   writing |-> note.writing, loading |-> FALSE, latest |-> note.latest]
      BY <3>1, EditorTyped DEF Editors
    <3>3. r.note \in Chosen /\ stored[r.note] \in Contents
      BY <1>3 DEF NotesInv, NotesTypeOK, Chosen
    <3>4. note' \in Editors
      BY <3>1, <3>2, <3>3, EditorTyped DEF Editors
    <3>5. note' # None
      BY <3>4, EditorIsThere
    <3>6. ~Dirty' /\ Agreed'
      BY <3>2 DEF Dirty, Agreed
    <3>7. QuestionsFit' /\ RequestsFit'
      BY <1>1, <1>2, <2>2, <3>2, <3>5, <3>6, FetchDone
    <3> QED
      BY <1>1, <3>1, <3>4, <3>7 DEF NotesInv, ListFitsQuery
  <2>3. CASE r.mine /\ r.number = note.latest /\ ~(stored[r.note] # None)
    <3>1. note # None /\ note' = [note EXCEPT !.loading = FALSE]
      BY <1>1, <1>3, <2>3 DEF RequestFits
    <3>2. note' = [sel |-> note.sel, draft |-> note.draft, saved |-> note.saved,
                   writing |-> note.writing, loading |-> FALSE, latest |-> note.latest]
      BY <3>1, EditorTyped DEF Editors
    <3>3. note' \in Editors
      BY <3>1, <3>2, EditorTyped DEF Editors
    <3>4. note' # None
      BY <3>3, EditorIsThere
    <3>5. (Dirty' <=> Dirty) /\ (Agreed => Agreed') /\ note'.draft = note.draft
      BY <1>1, <3>1, <3>2, <3>4 DEF Dirty, Agreed
    <3>6. QuestionsFit' /\ RequestsFit'
      BY <1>1, <1>2, <2>3, <3>2, <3>4, <3>5, FetchDone
    <3> QED
      BY <1>1, <3>1, <3>3, <3>6 DEF NotesInv, ListFitsQuery
  <2> QED
    BY <1>1, <2>1, <2>2, <2>3
<1>5. NotesTypeOK'
  BY <1>1, <1>3, <1>4, EditorTyped DEF NotesInv, NotesTypeOK
<1> QED
  BY <1>4, <1>5 DEF NotesInv

\* The list, unless it was asked for again or for another query.
LEMMA ListFits ==
  ASSUME DialogInv, NotesInv, NEW r \in requests, Answer(r), r.op = "list"
  PROVE  NotesInv'
<1>1. /\ requests' = requests \ {r} /\ UNCHANGED <<dialogVars, view, leaving, note, stored>>
      /\ consent' = (consent /\ note' # None /\ note'.sel = note.sel /\ note'.draft = note.draft)
      /\ titles' = IF r.mine /\ r.number = titles.latest /\ r.text = titles.query
                   THEN [titles EXCEPT !.for = r.text, !.rows = {n \in Notes : stored[n] # None}]
                   ELSE titles
  BY DEF Answer
<1>2. pending' = pending /\ screen' = screen /\ leaving' = leaving /\ consent' \in BOOLEAN
  BY <1>1 DEF dialogVars
<1>3. Agreed => Agreed'
  BY <1>1 DEF Agreed, Dirty
<1>4. QuestionsFit' /\ RequestsFit'
  BY <1>1, <1>2, <1>3, EditorKept
<1>5. /\ titles' \in [rows: SUBSET Notes, query: {"all", "some"}, for: {"all", "some"}, latest: Nat,
                      due: BOOLEAN]
      /\ titles' = titles \/ titles'.for = titles'.query
  <2>1. titles \in [rows: SUBSET Notes, query: {"all", "some"}, for: {"all", "some"}, latest: Nat,
                    due: BOOLEAN]
    BY DEF NotesInv, NotesTypeOK
  <2>2. CASE r.mine /\ r.number = titles.latest /\ r.text = titles.query
    <3>1. titles' = [rows |-> {n \in Notes : stored[n] # None}, query |-> titles.query,
                     for |-> titles.query, latest |-> titles.latest, due |-> titles.due]
      BY <1>1, <2>1, <2>2
    <3> QED
      BY <2>1, <3>1
  <2>3. CASE ~(r.mine /\ r.number = titles.latest /\ r.text = titles.query)
    BY <1>1, <2>1, <2>3
  <2> QED
    BY <2>2, <2>3
<1>6. NotesTypeOK'
  <2>1. UNCHANGED <<view, leaving, note, stored>>
    BY <1>1
  <2>2. \A s \in requests' : NoteRequestOK(s)
    BY <1>1 DEF NotesInv, NotesTypeOK
  <2> QED
    BY <1>2, <1>5, <2>1, <2>2 DEF NotesInv, NotesTypeOK
<1>7. ListFitsQuery'
  BY <1>1, <1>5 DEF NotesInv, ListFitsQuery
<1> QED
  BY <1>4, <1>6, <1>7 DEF NotesInv

\* The user is signed out: nothing of the page is left.
LEMMA LoggedOutFits ==
  ASSUME DialogInv, NotesInv, NEW r \in requests, Answer(r), r.op = "logout"
  PROVE  NotesInv'
<1>1. /\ pending' = <<>> /\ note' = None /\ view' = "mail" /\ requests' = Mine(requests \ {r})
      /\ leaving' = [asking |-> FALSE, navigating |-> FALSE] /\ titles' = titles /\ stored' = stored
      /\ consent' = (consent /\ note' # None /\ note'.sel = note.sel /\ note'.draft = note.draft)
  BY DEF Answer, UnmountHost
<1>2. RequestsFit' /\ \A s \in requests' : NoteRequestOK(s)
  <2>1. PICK rs \in SUBSET requests : rs = requests \ {r}
    OBVIOUS
  <2> QED
    BY <1>1, <2>1, GoneFits
<1>3. consent' \in BOOLEAN /\ leaving' \in [asking: BOOLEAN, navigating: BOOLEAN]
  BY <1>1
<1>4. NotesTypeOK' /\ ListFitsQuery'
  BY <1>1, <1>2, <1>3 DEF NotesInv, NotesTypeOK, ListFitsQuery
<1> QED
  BY <1>1, <1>2, <1>4, NobodyFits DEF NotesInv

\* A note was saved, pinned or removed.
LEMMA WrittenFits ==
  ASSUME DialogInv, NotesInv, NEW r \in requests, Answer(r), r.op \in Writes
  PROVE  NotesInv'
<1>1. /\ UNCHANGED <<dialogVars, view, leaving, stored>> /\ r.done
      /\ consent' = (consent /\ note' # None /\ note'.sel = note.sel /\ note'.draft = note.draft)
      /\ Written(r, IF r.op = "save"
                    THEN [note EXCEPT !.sel = r.note, !.draft = r.text, !.saved = r.text, !.writing = FALSE]
                    ELSE IF r.op = "pin" THEN [note EXCEPT !.writing = FALSE]
                    ELSE [note EXCEPT !.sel = None, !.draft = None, !.saved = None, !.writing = FALSE])
  <2>1. CASE r.op = "save"
    BY <2>1 DEF Answer
  <2>2. CASE r.op = "pin"
    BY <2>2 DEF Answer
  <2>3. CASE r.op = "remove"
    BY <2>3 DEF Answer
  <2> QED
    BY <2>1, <2>2, <2>3 DEF Writes
<1>2. /\ pending' = pending /\ screen' = screen /\ leaving' = leaving /\ consent' \in BOOLEAN
      /\ RequestFits(r) /\ NoteRequestOK(r)
  BY <1>1 DEF dialogVars, NotesInv, NotesTypeOK, RequestsFit
<1>3. CASE ~r.mine
  <2>1. requests' = requests \ {r} /\ UNCHANGED <<note, titles>>
    BY <1>1, <1>3 DEF Written
  <2>2. Agreed => Agreed'
    BY <1>1, <2>1 DEF Agreed, Dirty
  <2>3. QuestionsFit' /\ RequestsFit'
    BY <1>2, <2>1, <2>2, EditorKept
  <2>4. NotesTypeOK' /\ ListFitsQuery'
    BY <1>1, <1>2, <2>1 DEF NotesInv, NotesTypeOK, ListFitsQuery
  <2> QED
    BY <2>3, <2>4 DEF NotesInv
<1>4. CASE r.mine
  <2>1. PICK new : new = TitlesRequest
    OBVIOUS
  <2>2. /\ titles' = [titles EXCEPT !.latest = @ + 1] /\ requests' = (requests \ {r}) \cup {new}
        /\ note' = IF r.op = "save"
                   THEN [note EXCEPT !.sel = r.note, !.draft = r.text, !.saved = r.text, !.writing = FALSE]
                   ELSE IF r.op = "pin" THEN [note EXCEPT !.writing = FALSE]
                   ELSE [note EXCEPT !.sel = None, !.draft = None, !.saved = None, !.writing = FALSE]
    BY <1>1, <1>4, <2>1 DEF Written, Reload
  <2>3. note # None
    BY <1>2, <1>4 DEF RequestFits, Writes
  <2>4. PICK s \in Chosen, d \in Contents, v \in Contents :
           /\ note' = [sel |-> s, draft |-> d, saved |-> v, writing |-> FALSE,
                       loading |-> note.loading, latest |-> note.latest]
           /\ d = v \/ (s = note.sel /\ d = note.draft /\ v = note.saved)
    <3>1. CASE r.op = "save"
      <4>1. r.note \in Chosen /\ r.text \in Contents
        BY <1>2, <3>1 DEF NoteRequestOK, Contents
      <4>2. note' = [sel |-> r.note, draft |-> r.text, saved |-> r.text, writing |-> FALSE,
                     loading |-> note.loading, latest |-> note.latest]
        BY <2>2, <2>3, <3>1, EditorTyped DEF Editors
      <4> QED
        BY <4>1, <4>2
    <3>2. CASE r.op = "pin"
      <4>1. note' = [sel |-> note.sel, draft |-> note.draft, saved |-> note.saved, writing |-> FALSE,
                     loading |-> note.loading, latest |-> note.latest]
        BY <2>2, <2>3, <3>2, EditorTyped DEF Editors
      <4> QED
        BY <2>3, <4>1, EditorTyped
    <3>3. CASE r.op = "remove"
      <4>1. note' = [sel |-> None, draft |-> None, saved |-> None, writing |-> FALSE,
                     loading |-> note.loading, latest |-> note.latest]
        BY <2>2, <2>3, <3>3, EditorTyped DEF Editors
      <4>2. None \in Chosen /\ None \in Contents
        BY DEF Chosen, Contents
      <4> QED
        BY <4>1, <4>2
    <3> QED
      BY <3>1, <3>2, <3>3 DEF Writes
  <2>5. note' \in Editors
    BY <2>3, <2>4, EditorTyped DEF Editors
  <2>6. note' # None
    BY <2>5, EditorIsThere
  <2>7. Agreed => Agreed'
    BY <1>1, <2>3, <2>4, <2>6 DEF Agreed, Dirty
  <2>8. NoteRequestOK(new) /\ new.op = "list" /\ RequestFits(new)'
    <3>1. NoteRequestOK(new) /\ new.op = "list" /\ (note' # None => RequestFits(new)')
      BY <2>1, ListRequestFits
    <3> QED
      BY <2>6, <3>1
  <2>9. RequestsFit' /\ QuestionsFit' /\ \A t \in requests' : NoteRequestOK(t)
    BY <1>2, <1>4, <2>2, <2>4, <2>6, <2>7, <2>8, WriteDone
  <2>10. /\ titles' \in [rows: SUBSET Notes, query: {"all", "some"}, for: {"all", "some"}, latest: Nat,
                         due: BOOLEAN]
         /\ titles'.rows = titles.rows /\ titles'.for = titles.for /\ titles'.query = titles.query
    <3>1. titles \in [rows: SUBSET Notes, query: {"all", "some"}, for: {"all", "some"}, latest: Nat,
                      due: BOOLEAN]
      BY DEF NotesInv, NotesTypeOK
    <3>2. titles' = [rows |-> titles.rows, query |-> titles.query, for |-> titles.for,
                     latest |-> titles.latest + 1, due |-> titles.due]
      BY <2>2, <3>1
    <3> QED
      BY <3>1, <3>2
  <2>11. NotesTypeOK'
    <3>1. view' = "notes" /\ UNCHANGED <<leaving, stored>>
      BY <1>1, <2>3, EditorTyped
    <3> QED
      BY <1>2, <2>5, <2>9, <2>10, <3>1 DEF NotesInv, NotesTypeOK
  <2>12. ListFitsQuery'
    BY <2>3, <2>10 DEF NotesInv, ListFitsQuery
  <2> QED
    BY <2>9, <2>11, <2>12 DEF NotesInv
<1> QED
  BY <1>2, <1>3, <1>4

LEMMA AnswerFits ==
  ASSUME DialogInv, NotesInv, NEW r \in requests, Answer(r)
  PROVE  NotesInv'
<1>1. r.op \in {"detail", "list", "save", "pin", "remove", "logout"}
  BY NoteRequestTyped DEF NotesInv, NotesTypeOK
<1> QED
  BY <1>1, DetailFits, ListFits, LoggedOutFits, WrittenFits DEF Writes

\* An answer takes one question from the queue: what is left are others.
LEMMA QuestionAnswered ==
  ASSUME DialogInv, NotesInv, NEW yes, Done(yes), Answered
  PROVE  /\ pending # <<>> /\ QuestionFits(Head(pending).who) /\ screen' # Nobody
         /\ \A i \in DOMAIN pending' :
               /\ QuestionFits(pending'[i].who)
               /\ pending'[i].who.op = "remove" <=> Head(pending).who.op # "remove"
         /\ \A i, j \in DOMAIN pending' :
               (pending'[i].who.op = "remove" <=> pending'[j].who.op = "remove") => i = j
<1>1. /\ pending # <<>> /\ pending' = Tail(pending) /\ screen' = screen /\ screen # Nobody
      /\ pending \in Seq(Questions)
  BY DEF Done, Answered, DialogInv, DialogTypeOK
<1>2. /\ Len(pending) \in Nat \ {0} /\ DOMAIN pending = 1 .. Len(pending) /\ Head(pending) = pending[1]
      /\ DOMAIN pending' = 1 .. Len(pending) - 1
      /\ \A i \in DOMAIN pending' : pending'[i] = pending[i + 1]
  BY <1>1
<1>3. /\ \A i \in DOMAIN pending : QuestionFits(pending[i].who)
      /\ \A i, j \in DOMAIN pending :
            (pending[i].who.op = "remove" <=> pending[j].who.op = "remove") => i = j
  BY DEF NotesInv, QuestionsFit
<1>4. \A i \in DOMAIN pending' : i + 1 \in DOMAIN pending /\ i + 1 # 1 /\ i \in Nat
  BY <1>2
<1>5. 1 \in DOMAIN pending
  BY <1>2
<1>6. ASSUME NEW i \in DOMAIN pending'
      PROVE  QuestionFits(pending'[i].who) /\ (pending'[i].who.op = "remove" <=> Head(pending).who.op # "remove")
  BY <1>2, <1>3, <1>4, <1>5
<1>7. ASSUME NEW i \in DOMAIN pending', NEW j \in DOMAIN pending',
             pending'[i].who.op = "remove" <=> pending'[j].who.op = "remove"
      PROVE  i = j
  <2>1. i + 1 = j + 1
    BY <1>2, <1>3, <1>4, <1>7
  <2> QED
    BY <1>4, <2>1
<1> QED
  BY <1>1, <1>2, <1>3, <1>5, <1>6, <1>7

\* What the other questions need after one about leaving, and one about removing.
LEMMA OthersWait ==
  ASSUME DialogInv, NotesInv, NEW yes, Done(yes), Answered,
         IF Head(pending).who.op = "remove" THEN leaving' = leaving
         ELSE note' # None => note # None /\ note'.writing = note.writing /\ (NoMineWrites => NoMineWrites')
  PROVE  QuestionsFit'
<1> DEFINE who == Head(pending).who
<1>1. /\ screen' # Nobody
      /\ \A i \in DOMAIN pending' : /\ QuestionFits(pending'[i].who)
                                    /\ pending'[i].who.op = "remove" <=> who.op # "remove"
      /\ \A i, j \in DOMAIN pending' :
            (pending'[i].who.op = "remove" <=> pending'[j].who.op = "remove") => i = j
  BY QuestionAnswered
<1> HIDE DEF who
<1>2. ASSUME NEW i \in DOMAIN pending', NEW w, w = pending'[i].who PROVE QuestionFits(w)'
  <2>1. QuestionFits(w) /\ (w.op = "remove" <=> who.op # "remove")
    BY <1>1, <1>2
  <2>2. CASE who.op = "remove"
    BY <2>1, <2>2 DEF QuestionFits, who
  <2>3. CASE who.op # "remove"
    BY <2>1, <2>3 DEF QuestionFits, who
  <2> QED
    BY <2>2, <2>3
<1>3. ASSUME NEW i \in DOMAIN pending' PROVE QuestionFits(pending[i].who)'
  <2>1. PICK w : w = pending'[i].who
    OBVIOUS
  <2>2. QuestionFits(w)'
    BY <1>2, <2>1
  <2> QED
    BY <2>1, <2>2
<1> QED
  BY <1>1, <1>3 DEF QuestionsFit

\* The user stays, or the page that asked is gone.
LEMMA StaysFits ==
  ASSUME DialogInv, NotesInv, NEW yes \in BOOLEAN, Done(yes), Answered, NEW who, who = Head(pending).who,
         leaving' = IF who.op = "remove" THEN leaving ELSE [asking |-> FALSE, navigating |-> FALSE],
         consent' = (consent \/ yes),
         note' = IF who.op = "remove" /\ note # None THEN [note EXCEPT !.writing = FALSE] ELSE note,
         UNCHANGED <<view, titles, requests, stored>>
  PROVE  NotesInv'
<1>1. QuestionFits(who) /\ who.op \in {"go", "logout", "open", "empty", "remove"}
  BY QuestionAnswered DEF QuestionFits, NoteAskers
<1>2. QuestionsFit'
  BY OthersWait DEF NoMineWrites
<1>3. leaving' \in [asking: BOOLEAN, navigating: BOOLEAN] /\ consent' \in BOOLEAN
  BY DEF NotesInv, NotesTypeOK
<1>4. /\ note' \in Editors \cup {None} /\ (note' = None <=> note = None)
      /\ (Agreed => Agreed') /\ (Dirty' <=> Dirty)
      /\ note' # None => /\ note'.latest = note.latest /\ note'.loading = note.loading
                         /\ note'.draft = note.draft
                         /\ (who.op = "remove" \/ note' = note)
  <2>1. CASE note' = note
    BY <2>1 DEF NotesInv, NotesTypeOK, Agreed, Dirty
  <2>2. CASE who.op = "remove" /\ note # None
    <3>1. note' = [sel |-> note.sel, draft |-> note.draft, saved |-> note.saved,
                   writing |-> FALSE, loading |-> note.loading, latest |-> note.latest]
      BY <2>2, EditorTyped DEF Editors
    <3>2. note' \in Editors
      BY <2>2, <3>1, EditorTyped DEF Editors
    <3>3. note' # None
      BY <3>2, EditorIsThere
    <3> QED
      BY <2>2, <3>1, <3>2, <3>3 DEF Agreed, Dirty
  <2> QED
    BY <2>1, <2>2
<1>5. OneOfAKind'
  BY FewerOfAKind DEF NotesInv, RequestsFit
<1>6. ASSUME NEW r \in requests PROVE RequestFits(r)'
  <2>1. RequestFits(r)
    BY DEF NotesInv, RequestsFit
  <2>2. who.op = "remove" /\ note # None => ~(r.mine /\ r.op \in Writes)
    BY <1>1 DEF QuestionFits, NoMineWrites
  <2> QED
    BY <1>4, <2>1, <2>2 DEF RequestFits
<1>7. NotesTypeOK' /\ ListFitsQuery'
  BY <1>3, <1>4 DEF NotesInv, NotesTypeOK, ListFitsQuery
<1> QED
  BY <1>2, <1>5, <1>6, <1>7 DEF NotesInv, RequestsFit

\* The user agreed: what was asked about is done.
LEMMA GoesFits ==
  ASSUME DialogInv, NotesInv, Done(TRUE), Answered, NEW who, who = Head(pending).who,
         note # None \/ who.op \in {"go", "logout"},
         leaving' = IF who.op = "remove" THEN leaving ELSE [asking |-> FALSE, navigating |-> FALSE],
         consent' = TRUE, stored' = stored,
         \/ who.op = "go" /\ Show(who.arg)
         \/ who.op = "logout" /\ requests' = requests \cup {LogoutRequest} /\ UNCHANGED <<view, note, titles>>
         \/ who.op = "open" /\ Fetch(who.arg) /\ UNCHANGED <<view, titles>>
         \/ who.op = "empty" /\ Blank(who.arg) /\ UNCHANGED <<view, titles, requests>>
         \/ who.op = "remove" /\ requests' = requests \cup {NoteRequest("remove", who.arg, None, 0)}
                              /\ UNCHANGED <<view, note, titles>>
  PROVE  NotesInv'
<1>1. QuestionFits(who)
  BY QuestionAnswered
<1>2. leaving' \in [asking: BOOLEAN, navigating: BOOLEAN] /\ consent' \in BOOLEAN /\ consent'
  BY DEF NotesInv, NotesTypeOK
<1>3. CASE who.op = "go"
  <2>1. Show("mail")
    BY <1>1, <1>3 DEF QuestionFits
  <2>2. NotesTypeOK' /\ ListFitsQuery' /\ RequestsFit'
    BY <1>2, <2>1, ShowFits
  <2>3. note' = None
    BY <2>1 DEF Show
  <2>4. QuestionsFit'
    BY <1>3, <2>3, OthersWait
  <2> QED
    BY <2>2, <2>4 DEF NotesInv
<1>4. CASE who.op = "logout"
  <2>1. NotesTypeOK' /\ ListFitsQuery' /\ RequestsFit' /\ (NoMineWrites => NoMineWrites')
    BY <1>2, <1>4, LogoutFits
  <2>2. note' = note
    BY <1>4
  <2>3. QuestionsFit'
    BY <1>4, <2>1, <2>2, OthersWait
  <2> QED
    BY <2>1, <2>3 DEF NotesInv
<1>5. CASE who.op = "open"
  <2>1. note # None /\ who.arg \in Notes /\ Fetch(who.arg) /\ UNCHANGED <<view, titles>>
    BY <1>1, <1>5 DEF QuestionFits
  <2>2. /\ NotesTypeOK' /\ ListFitsQuery' /\ RequestsFit'
        /\ note' # None /\ note'.writing = note.writing /\ (NoMineWrites => NoMineWrites')
    BY <1>2, <2>1, FetchFits
  <2>3. QuestionsFit'
    BY <1>5, <2>1, <2>2, OthersWait
  <2> QED
    BY <2>2, <2>3 DEF NotesInv
<1>6. CASE who.op = "empty"
  <2>1. note # None /\ who.arg \in {None, "new"} /\ Blank(who.arg) /\ UNCHANGED <<view, titles, requests>>
    BY <1>1, <1>6 DEF QuestionFits
  <2>2. /\ NotesTypeOK' /\ ListFitsQuery' /\ RequestsFit'
        /\ note' # None /\ note'.writing = note.writing /\ (NoMineWrites => NoMineWrites')
    BY <1>2, <2>1, BlankFits
  <2>3. QuestionsFit'
    BY <1>6, <2>1, <2>2, OthersWait
  <2> QED
    BY <2>2, <2>3 DEF NotesInv
<1>7. CASE who.op = "remove"
  <2>1. PICK new : new = NoteRequest("remove", who.arg, None, 0)
    OBVIOUS
  <2>2. /\ note # None /\ who.arg \in Notes /\ note.writing /\ NoMineWrites
        /\ requests' = requests \cup {new} /\ UNCHANGED <<view, note, titles>>
    BY <1>1, <1>7, <2>1 DEF QuestionFits
  <2>3. /\ new = [op |-> "remove", note |-> who.arg, text |-> None, number |-> 0, mine |-> TRUE,
                  done |-> FALSE]
        /\ new.op = "remove" /\ new.note = who.arg /\ new.number = 0
    BY <2>1 DEF NoteRequest
  <2>4. NoteRequestOK(new)
    BY <2>2, <2>3 DEF NoteRequestOK, Chosen
  <2>5. \A s \in requests : Rivals(new, s) => s = new
    BY <2>2, <2>3 DEF Rivals, NoMineWrites
  <2>6. Agreed' /\ (Dirty' <=> Dirty)
    BY <1>2, <2>2 DEF Agreed, Dirty
  <2>7. RequestFits(new)'
    BY <2>2, <2>3, <2>6 DEF RequestFits
  <2>8. ASSUME NEW r \in requests PROVE RequestFits(r)'
    <3>1. RequestFits(r)
      BY DEF NotesInv, RequestsFit
    <3> QED
      BY <2>2, <2>6, <3>1 DEF RequestFits
  <2>9. (\A r \in requests' : NoteRequestOK(r)) /\ RequestsFit'
    BY <2>2, <2>4, <2>5, <2>7, <2>8, OneMoreRequest
  <2>10. NotesTypeOK' /\ ListFitsQuery'
    BY <1>2, <2>2, <2>9 DEF NotesInv, NotesTypeOK, ListFitsQuery
  <2>11. QuestionsFit'
    BY <1>7, OthersWait
  <2> QED
    BY <2>9, <2>10, <2>11 DEF NotesInv
<1> QED
  BY <1>3, <1>4, <1>5, <1>6, <1>7

LEMMA ReplyFits ==
  ASSUME DialogInv, NotesInv, NEW yes \in BOOLEAN, Reply(yes)
  PROVE  NotesInv'
<1>1. Done(yes) /\ stored' = stored
  BY DEF Reply
<1>2. CASE ~Answered
  <2>1. UNCHANGED <<view, leaving, note, titles, requests, consent>> /\ pending' = pending /\ screen' = screen
    BY <1>1, <1>2 DEF Reply, Done
  <2>2. Agreed => Agreed'
    BY <2>1 DEF Agreed, Dirty
  <2>3. QuestionsFit' /\ RequestsFit'
    BY <2>1, <2>2, EditorKept
  <2>4. NotesTypeOK' /\ ListFitsQuery'
    BY <1>1, <2>1 DEF NotesInv, NotesTypeOK, ListFitsQuery
  <2> QED
    BY <2>3, <2>4 DEF NotesInv
<1>3. CASE Answered
  <2>1. PICK who : who = Head(pending).who
    OBVIOUS
  <2>2. /\ leaving' = IF who.op = "remove" THEN leaving ELSE [asking |-> FALSE, navigating |-> FALSE]
        /\ consent' = (consent \/ yes)
    BY <1>3, <2>1 DEF Reply
  <2>3. who.op \in {"go", "logout", "open", "empty", "remove"}
    BY <1>1, <1>3, <2>1, QuestionAnswered DEF QuestionFits, NoteAskers
  <2>4. CASE ~(yes /\ (note # None \/ who.op \in {"go", "logout"}))
    <3>1. /\ note' = IF who.op = "remove" /\ note # None THEN [note EXCEPT !.writing = FALSE] ELSE note
          /\ UNCHANGED <<view, titles, requests>>
      BY <1>3, <2>1, <2>4 DEF Reply
    <3> QED
      BY <1>1, <1>3, <2>1, <2>2, <3>1, StaysFits
  <2>5. CASE yes /\ (note # None \/ who.op \in {"go", "logout"})
    <3>1. \/ who.op = "go" /\ Show(who.arg)
          \/ who.op = "logout" /\ requests' = requests \cup {LogoutRequest} /\ UNCHANGED <<view, note, titles>>
          \/ who.op = "open" /\ Fetch(who.arg) /\ UNCHANGED <<view, titles>>
          \/ who.op = "empty" /\ Blank(who.arg) /\ UNCHANGED <<view, titles, requests>>
          \/ who.op = "remove" /\ requests' = requests \cup {NoteRequest("remove", who.arg, None, 0)}
                               /\ UNCHANGED <<view, note, titles>>
      BY <1>3, <2>1, <2>3, <2>5 DEF Reply
    <3>2. consent' = TRUE /\ yes = TRUE
      BY <2>2, <2>5 DEF NotesInv, NotesTypeOK
    <3> QED
      BY <1>1, <1>3, <2>1, <2>2, <2>5, <3>1, <3>2, GoesFits
  <2> QED
    BY <2>4, <2>5
<1> QED
  BY <1>2, <1>3

LEMMA NotesStart ==
  ASSUME NotesInit
  PROVE  DialogInv /\ NotesInv
<1>1. /\ DialogInit /\ view = "mail" /\ leaving = [asking |-> FALSE, navigating |-> FALSE]
      /\ note = None /\ requests = {} /\ consent = FALSE
      /\ titles = [rows |-> {}, query |-> "all", for |-> "all", latest |-> 0, due |-> FALSE]
  BY DEF NotesInit
<1>2. stored \in [Notes -> Contents]
  <2> DEFINE start(one, x) == [n \in Notes |-> IF n = one THEN x ELSE None]
             beginnings == {start(one, x) : one \in Notes, x \in Texts}
  <2>1. stored \in Beginning("notes", beginnings)
    BY DEF NotesInit
  <2>2. \A one \in Notes, x \in Texts : start(one, x) \in [Notes -> Contents]
    BY DEF Contents
  <2> HIDE DEF start
  <2>3. beginnings # {}
    BY NotesAssumption
  <2>4. \A b \in beginnings : b \in [Notes -> Contents]
    BY <2>2
  <2> HIDE DEF beginnings
  <2>5. stored \in beginnings
    BY <2>1, <2>3 DEF Beginning
  <2> QED
    BY <2>4, <2>5
<1>3. pending = <<>>
  BY <1>1 DEF DialogInit
<1>4. QuestionsFit /\ RequestsFit /\ ListFitsQuery
  BY <1>1, <1>3 DEF QuestionsFit, RequestsFit, OneOfAKind, ListFitsQuery
<1>5. NotesTypeOK
  BY <1>1, <1>2 DEF NotesTypeOK
<1> QED
  BY <1>1, <1>4, <1>5, DialogStarts DEF NotesInv

\* Every step of the page is one of the dialogs or leaves them alone.
LEMMA NotesDialogs ==
  ASSUME DialogInv, NotesInv, NotesNext \/ UNCHANGED notesVars
  PROVE  DialogInv'
<1>1. ASSUME UNCHANGED dialogVars PROVE DialogInv'
  BY <1>1, DialogStep
<1>2. ASSUME NEW who \in NoteAskers, Ask(who) PROVE DialogInv'
  BY <1>2, AskKeeps, NotesAssumption
<1>3. ASSUME MountHost \/ UnmountHost \/ Render PROVE DialogInv'
  BY <1>3, DialogStep DEF DialogNext
<1>4. CASE UNCHANGED notesVars
  BY <1>1, <1>4 DEF notesVars
<1>5. ASSUME NEW v \in {"mail", "notes"}, Go(v) PROVE DialogInv'
  <2>1. CASE Unguarded
    BY <1>1, <1>5, <2>1 DEF Go
  <2>2. CASE ~Unguarded
    <3> DEFINE who == [op |-> "go", arg |-> v]
    <3>1. Ask(who) /\ v # view /\ note # None
      BY <1>5, <2>2 DEF Go, AskLeave, Unguarded
    <3>2. view = "notes"
      BY <3>1, EditorTyped
    <3>3. who \in NoteAskers
      BY <3>1, <3>2 DEF NoteAskers
    <3> HIDE DEF who
    <3> QED
      BY <1>2, <3>1, <3>3
  <2> QED
    BY <2>1, <2>2
<1>6. CASE Logout
  <2> DEFINE who == [op |-> "logout", arg |-> None]
  <2>1. UNCHANGED dialogVars \/ Ask(who)
    BY <1>6 DEF Logout, AskLeave
  <2>2. who \in NoteAskers
    BY DEF NoteAskers, Chosen
  <2> HIDE DEF who
  <2> QED
    BY <1>1, <1>2, <2>1, <2>2
<1>7. ASSUME NEW n \in Notes, OpenNote(n) PROVE DialogInv'
  <2> DEFINE who == [op |-> "open", arg |-> n]
  <2>1. UNCHANGED dialogVars \/ Ask(who)
    BY <1>7 DEF OpenNote, AskLeave
  <2>2. who \in NoteAskers
    BY DEF NoteAskers, Chosen
  <2> HIDE DEF who
  <2> QED
    BY <1>1, <1>2, <2>1, <2>2
<1>8. ASSUME NEW next \in {"new", None}, SelectEmpty(next) PROVE DialogInv'
  <2> DEFINE who == [op |-> "empty", arg |-> next]
  <2>1. UNCHANGED dialogVars \/ Ask(who)
    BY <1>8 DEF SelectEmpty, AskLeave
  <2>2. who \in NoteAskers
    BY DEF NoteAskers, Chosen
  <2> HIDE DEF who
  <2> QED
    BY <1>1, <1>2, <2>1, <2>2
<1>9. CASE Remove
  <2>1. PICK who : who = [op |-> "remove", arg |-> note.sel]
    OBVIOUS
  <2>2. Ask(who) /\ note.sel \in Notes
    BY <1>9, <2>1 DEF Remove
  <2>3. who \in NoteAskers
    BY <2>1, <2>2 DEF NoteAskers, Chosen
  <2> QED
    BY <1>2, <2>2, <2>3
<1>10. ASSUME NEW yes \in BOOLEAN, Reply(yes) PROVE DialogInv'
  BY <1>10, DoneKeeps, NotesAssumption DEF Reply
<1>11. CASE SignInAgain \/ Rendered
  BY <1>3, <1>11 DEF SignInAgain, Rendered
<1>12. CASE Save \/ TogglePin
  BY <1>1, <1>12 DEF Save, TogglePin, Writing
<1>13. ASSUME NEW x \in Texts, Type(x) PROVE DialogInv'
  BY <1>1, <1>13 DEF Type
<1>14. ASSUME NEW q \in {"all", "some"}, Search(q) PROVE DialogInv'
  BY <1>1, <1>14 DEF Search
<1>15. CASE LoadList
  BY <1>1, <1>15 DEF LoadList
<1>16. ASSUME NEW r \in requests, RequestFails(r) \/ ServerStores(r) PROVE DialogInv'
  BY <1>1, <1>16 DEF RequestFails, ServerStores
<1>17. ASSUME NEW r \in requests, Answer(r) PROVE DialogInv'
  <2>1. UNCHANGED dialogVars \/ UnmountHost
    <3>1. r.op \in {"detail", "list", "save", "pin", "remove", "logout"}
      BY NoteRequestTyped DEF NotesInv, NotesTypeOK
    <3>2. CASE r.op = "detail" \/ r.op = "list"
      BY <1>17, <3>2 DEF Answer
    <3>3. CASE r.op = "save" \/ r.op = "pin" \/ r.op = "remove"
      BY <1>17, <3>3 DEF Answer
    <3>4. CASE r.op = "logout"
      BY <1>17, <3>4 DEF Answer
    <3> QED
      BY <3>1, <3>2, <3>3, <3>4
  <2> QED
    BY <1>1, <1>3, <2>1
<1>18. CASE NotesUser
  BY <1>5, <1>6, <1>7, <1>8, <1>9, <1>10, <1>11, <1>12, <1>13, <1>14, <1>18 DEF NotesUser
<1> QED
  BY <1>4, <1>11, <1>15, <1>16, <1>17, <1>18 DEF NotesNext, ByUser, ByFault, ByItself

LEMMA NotesKeep ==
  ASSUME DialogInv, NotesInv, NotesNext \/ UNCHANGED notesVars
  PROVE  NotesInv'
<1>1. CASE NotesUser
  <2>1. ASSUME NEW v \in {"mail", "notes"}, Go(v) PROVE NotesInv'
    BY <2>1, GoFits
  <2>2. CASE Logout
    BY <2>2, AskToLogOutFits
  <2>3. CASE SignInAgain
    BY <2>3, DrawnFits
  <2>4. CASE Save \/ TogglePin \/ Remove
    BY <2>4, SaveFits, TogglePinFits, RemoveFits
  <2>5. ASSUME NEW n \in Notes, OpenNote(n) PROVE NotesInv'
    BY <2>5, OpenNoteFits
  <2>6. ASSUME NEW next \in {"new", None}, SelectEmpty(next) PROVE NotesInv'
    BY <2>6, SelectEmptyFits
  <2>7. ASSUME NEW x \in Texts, Type(x) PROVE NotesInv'
    BY <2>7, TypeFits
  <2>8. ASSUME NEW q \in {"all", "some"}, Search(q) PROVE NotesInv'
    BY <2>8, SearchFits
  <2>9. ASSUME NEW yes \in BOOLEAN, Reply(yes) PROVE NotesInv'
    BY <2>9, ReplyFits
  <2> QED
    BY <1>1, <2>1, <2>2, <2>3, <2>4, <2>5, <2>6, <2>7, <2>8, <2>9 DEF NotesUser
<1>2. ASSUME NEW r \in requests, RequestFails(r) \/ ServerStores(r) \/ Answer(r) PROVE NotesInv'
  BY <1>2, RequestFailsFits, ServerStoresFits, AnswerFits
<1>3. CASE Rendered \/ LoadList
  BY <1>3, DrawnFits, LoadListFits
<1>4. CASE UNCHANGED notesVars
  <2>1. UNCHANGED <<view, leaving, note, titles, requests, stored, consent>> /\ pending' = pending
        /\ screen' = screen
    BY <1>4 DEF notesVars, dialogVars
  <2>2. Agreed => Agreed'
    BY <2>1 DEF Agreed, Dirty
  <2>3. QuestionsFit' /\ RequestsFit'
    BY <2>1, <2>2, EditorKept
  <2>4. NotesTypeOK' /\ ListFitsQuery'
    BY <2>1 DEF NotesInv, NotesTypeOK, ListFitsQuery
  <2> QED
    BY <2>3, <2>4 DEF NotesInv
<1> QED
  BY <1>1, <1>2, <1>3, <1>4 DEF NotesNext, ByUser, ByFault, ByItself

\* The editor still shows the text it showed.
TextKept == note' # None /\ note'.sel = note.sel /\ note'.draft = note.draft

LEMMA EditorChanges ==
  ASSUME NotesInv, note # None, NEW b \in BOOLEAN,
         \/ note' = note \/ note' = [note EXCEPT !.writing = b] \/ note' = [note EXCEPT !.loading = b]
         \/ note' = [note EXCEPT !.latest = @ + 1, !.loading = TRUE]
  PROVE  TextKept
<1>1. PICK w \in BOOLEAN, l \in BOOLEAN, n \in Nat :
         note' = [sel |-> note.sel, draft |-> note.draft, saved |-> note.saved,
                  writing |-> w, loading |-> l, latest |-> n]
  <2>1. CASE note' = note \/ note' = [note EXCEPT !.writing = b]
    <3>1. PICK w \in BOOLEAN :
             note' = [sel |-> note.sel, draft |-> note.draft, saved |-> note.saved,
                      writing |-> w, loading |-> note.loading, latest |-> note.latest]
      BY <2>1, EditorTyped DEF Editors
    <3> QED
      BY <3>1, EditorTyped
  <2>2. CASE note' = [note EXCEPT !.loading = b]
    <3>1. note' = [sel |-> note.sel, draft |-> note.draft, saved |-> note.saved,
                   writing |-> note.writing, loading |-> b, latest |-> note.latest]
      BY <2>2, EditorTyped DEF Editors
    <3> QED
      BY <3>1, EditorTyped
  <2>3. CASE note' = [note EXCEPT !.latest = @ + 1, !.loading = TRUE]
    <3>1. note' = [sel |-> note.sel, draft |-> note.draft, saved |-> note.saved,
                   writing |-> note.writing, loading |-> TRUE, latest |-> note.latest + 1]
      BY <2>3, EditorTyped DEF Editors
    <3>2. note.latest + 1 \in Nat
      BY EditorTyped
    <3> QED
      BY <3>1, <3>2, EditorTyped
  <2> QED
    BY <2>1, <2>2, <2>3
<1>2. note' \in Editors
  BY <1>1, EditorTyped DEF Editors
<1>3. note' # None
  BY <1>2, EditorIsThere
<1> QED
  BY <1>1, <1>3 DEF TextKept

\* How edits may leave the editor.
MayDrop ==
    \/ note' # None /\ note'.sel = note.sel /\ note'.saved = note.saved /\ moves' # moves
    \/ \E r \in requests : r.op = "save" /\ r.done /\ r.text = note.draft
    \/ consent \/ consent'

LEMMA EditsStep ==
  ASSUME DialogInv, NotesInv, moves \in Nat, NotesNext \/ UNCHANGED notesVars, Dirty
  PROVE  TextKept \/ MayDrop
<1>1. note # None /\ (Unguarded => FALSE)
  BY DEF Dirty, Unguarded
<1>2. ASSUME note' = note PROVE TextKept
  BY <1>1, <1>2 DEF TextKept
<1>3. ASSUME NEW v \in {"mail", "notes"}, Go(v) PROVE TextKept
  BY <1>1, <1>2, <1>3 DEF Go
<1>4. CASE Logout
  BY <1>1, <1>2, <1>4 DEF Logout
<1>5. CASE SignInAgain \/ Rendered \/ LoadList
  BY <1>2, <1>5 DEF SignInAgain, Rendered, LoadList
<1>6. CASE Save \/ TogglePin \/ Remove
  <2>1. note' = [note EXCEPT !.writing = TRUE]
    BY <1>6 DEF Save, TogglePin, Writing, Remove
  <2> QED
    BY <1>1, <2>1, EditorChanges
<1>7. ASSUME NEW n \in Notes, OpenNote(n) PROVE TextKept
  BY <1>1, <1>2, <1>7 DEF OpenNote
<1>8. ASSUME NEW next \in {"new", None}, SelectEmpty(next) PROVE TextKept
  BY <1>1, <1>2, <1>8 DEF SelectEmpty
<1>9. ASSUME NEW x \in Texts, Type(x), moves' = moves + 1 PROVE MayDrop
  <2>1. note' = [note EXCEPT !.draft = x]
    BY <1>9 DEF Type
  <2>2. note' = [sel |-> note.sel, draft |-> x, saved |-> note.saved, writing |-> note.writing,
                 loading |-> note.loading, latest |-> note.latest]
    BY <1>1, <2>1, EditorTyped DEF Editors
  <2>3. note' \in Editors
    BY <1>1, <2>2, EditorTyped DEF Editors, Contents
  <2>4. note' # None
    BY <2>3, EditorIsThere
  <2>5. moves' # moves
    BY <1>9
  <2> QED
    BY <2>2, <2>4, <2>5 DEF MayDrop
<1>10. ASSUME NEW q \in {"all", "some"}, Search(q) PROVE TextKept
  BY <1>2, <1>10 DEF Search
<1>11. ASSUME NEW yes \in BOOLEAN, Reply(yes) PROVE TextKept \/ MayDrop
  <2>1. CASE ~Answered
    BY <1>2, <1>11, <2>1 DEF Reply
  <2>2. CASE Answered /\ yes
    <3>1. consent'
      BY <1>11, <2>2 DEF Reply
    <3> QED
      BY <3>1 DEF MayDrop
  <2>3. CASE Answered /\ ~yes
    <3>1. note' = note \/ note' = [note EXCEPT !.writing = FALSE]
      BY <1>11, <2>3 DEF Reply
    <3> QED
      BY <1>1, <3>1, EditorChanges
  <2> QED
    BY <2>1, <2>2, <2>3
<1>12. ASSUME NEW r \in requests, RequestFails(r) PROVE TextKept
  <2>1. note' = note \/ note' = [note EXCEPT !.loading = FALSE] \/ note' = [note EXCEPT !.writing = FALSE]
    BY <1>12 DEF RequestFails
  <2> QED
    BY <1>1, <2>1, EditorChanges
<1>13. ASSUME NEW r \in requests, ServerStores(r) PROVE TextKept
  BY <1>2, <1>13 DEF ServerStores
<1>14. ASSUME NEW r \in requests, Answer(r) PROVE TextKept \/ MayDrop
  <2>1. RequestFits(r) /\ r.op \in {"detail", "list", "save", "pin", "remove", "logout"}
    BY NoteRequestTyped DEF NotesInv, NotesTypeOK, RequestsFit
  <2>2. CASE note' = note
    BY <1>2, <2>2
  <2>3. ASSUME Agreed PROVE MayDrop
    BY <2>3 DEF Agreed, MayDrop
  <2>4. CASE r.op = "detail"
    <3>1. \/ note' = note \/ note' = [note EXCEPT !.loading = FALSE]
          \/ r.mine /\ r.number = note.latest
      BY <1>14, <2>4 DEF Answer
    <3>2. CASE r.mine /\ r.number = note.latest
      BY <2>1, <2>3, <2>4, <3>2 DEF RequestFits
    <3> QED
      BY <1>1, <3>1, <3>2, EditorChanges
  <2>5. CASE r.op = "list"
    BY <1>14, <2>2, <2>5 DEF Answer
  <2>6. CASE r.op = "logout"
    BY <2>1, <2>3, <2>6 DEF RequestFits
  <2>7. CASE r.op \in Writes /\ ~r.mine
    BY <1>14, <2>2, <2>7 DEF Answer, Written, Writes
  <2>8. CASE r.op = "save" /\ r.mine
    <3>1. r.done /\ r.text = note.draft
      BY <1>14, <2>1, <2>8 DEF RequestFits, Writes, Answer
    <3> QED
      BY <2>8, <3>1 DEF MayDrop
  <2>9. CASE r.op = "remove" /\ r.mine
    BY <2>1, <2>3, <2>9 DEF RequestFits, Writes
  <2>10. CASE r.op = "pin" /\ r.mine
    <3>1. note' = [note EXCEPT !.writing = FALSE]
      BY <1>14, <2>10 DEF Answer, Written
    <3> QED
      BY <1>1, <3>1, EditorChanges
  <2> QED
    BY <2>1, <2>4, <2>5, <2>6, <2>7, <2>8, <2>9, <2>10 DEF Writes
<1>15. CASE NotesUser /\ moves' = moves + 1
  BY <1>3, <1>4, <1>5, <1>6, <1>7, <1>8, <1>9, <1>10, <1>11, <1>15 DEF NotesUser
<1>16. CASE UNCHANGED notesVars
  BY <1>2, <1>16 DEF notesVars
<1> QED
  BY <1>5, <1>12, <1>13, <1>14, <1>15, <1>16 DEF NotesNext, ByUser, ByFault, ByItself

-----------------------------------------------------------------------------
(* Calendars and their accounts                                                *)

\* The password in the form was typed for the account edited.
OwnForm == davForms.password \in {None, davForms.editing}
SyncInv == SyncTypeOK /\ OwnForm /\ OwnPassword

DavCallFits(c) == DavCallOK(c) /\ (c.op = "patch" => c.arg.password \in {None, c.arg.account})

LEMMA SyncTyped ==
  ASSUME SyncInv
  PROVE  /\ dav \in DavLists /\ davForms \in DavEdits /\ davBusy \in DavMarks /\ migration \in Migrations
         /\ question # None => question \in [op: Confirmed, arg: {question.arg}]
         /\ hiddenCals \subseteq Cals /\ davServer \in DavServers /\ \A c \in davCalls : DavCallFits(c)
  BY DEF SyncInv, SyncTypeOK, OwnPassword, DavCallFits

LEMMA NewDavCall ==
  ASSUME NEW op \in DavOps, NEW arg, NEW new, new = DavCall(op, arg), op = "hide" => arg \subseteq Cals,
         op = "patch" => arg.password \in {None, arg.account}
  PROVE  DavCallFits(new)
<1>1. /\ new = [op |-> op, arg |-> arg, stage |-> "sent", got |-> None]
      /\ new.op = op /\ new.arg = arg /\ new.stage = "sent" /\ new.got = None
  BY DEF DavCall
<1> QED
  BY <1>1 DEF DavCallFits, DavCallOK

\* The form stays the account's own when it is as it was or empty.
LEMMA FormsKeep ==
  ASSUME SyncInv, NEW on \in BOOLEAN, NEW found \in {None, "some"},
         \/ davForms' = davForms \/ davForms' = [davForms EXCEPT !.adding = on]
         \/ davForms' = [davForms EXCEPT !.found = found]
         \/ davForms' = NotEditing(davForms)
         \/ \E a \in DavAccounts : davForms' = [davForms EXCEPT !.editing = a, !.password = None]
         \/ davForms.editing # None /\ davForms' = [davForms EXCEPT !.password = davForms.editing]
  PROVE  davForms' \in DavEdits /\ OwnForm'
<1>1. davForms \in DavEdits /\ OwnForm
  BY DEF SyncInv, SyncTypeOK
<1>2. CASE davForms' = davForms
  BY <1>1, <1>2 DEF OwnForm
<1>3. CASE davForms' = [davForms EXCEPT !.adding = on]
  BY <1>1, <1>3 DEF DavEdits, OwnForm
<1>4. CASE davForms' = [davForms EXCEPT !.found = found]
  BY <1>1, <1>4 DEF DavEdits, OwnForm
<1>5. CASE davForms' = NotEditing(davForms)
  BY <1>1, <1>5 DEF DavEdits, OwnForm, NotEditing
<1>6. ASSUME NEW a \in DavAccounts, davForms' = [davForms EXCEPT !.editing = a, !.password = None]
      PROVE  davForms' \in DavEdits /\ OwnForm'
  BY <1>1, <1>6 DEF DavEdits, OwnForm
<1>7. CASE davForms.editing # None /\ davForms' = [davForms EXCEPT !.password = davForms.editing]
  BY <1>1, <1>7 DEF DavEdits, OwnForm
<1> QED
  BY <1>2, <1>3, <1>4, <1>5, <1>6, <1>7

\* What a step leaves of the page, with its new requests, keeps the invariant.
LEMMA SyncKeeps ==
  ASSUME SyncInv, dav' \in DavLists, davForms' \in DavEdits /\ OwnForm', davBusy' \in DavMarks,
         migration' \in Migrations, question' # None => question' \in [op: Confirmed, arg: {question'.arg}],
         hiddenCals' \subseteq Cals, davServer' \in DavServers, \A c \in davCalls' : DavCallFits(c)
  PROVE  SyncInv'
  BY DEF SyncInv, SyncTypeOK, OwnPassword, DavCallFits

\* Asking, and what is sent when the user says yes.
LEMMA AskForKeeps ==
  ASSUME SyncInv, NEW op \in Confirmed, NEW arg, AskFor(op, arg)
  PROVE  SyncInv'
<1>1. question' = [op |-> op, arg |-> arg] /\ UNCHANGED <<dav, davForms, davBusy, hiddenCals, migration, davCalls, davServer>>
  BY DEF AskFor
<1>2. question' \in [op: Confirmed, arg: {question'.arg}]
  BY <1>1
<1>3. davForms' \in DavEdits /\ OwnForm'
  BY <1>1, FormsKeep
<1> QED
  BY <1>1, <1>2, <1>3, SyncTyped, SyncKeeps

LEMMA SimplyKeeps ==
  ASSUME SyncInv, NEW op \in DavOps, NEW arg, Simply(op, arg), op # "hide",
         op = "patch" => arg.password \in {None, arg.account}
  PROVE  SyncInv'
<1>0. PICK new : new = DavCall(op, arg)
  OBVIOUS
<1>1. /\ davCalls' = davCalls \cup {new}
      /\ UNCHANGED <<dav, davForms, davBusy, hiddenCals, migration, question, davServer>>
  BY <1>0 DEF Simply, Issue
<1>2. DavCallFits(new)
  BY <1>0, NewDavCall
<1>3. davForms' \in DavEdits /\ OwnForm'
  BY <1>1, FormsKeep
<1> QED
  BY <1>1, <1>2, <1>3, SyncTyped, SyncKeeps

LEMMA MigrationStarts ==
  ASSUME SyncInv, NEW pair, NEW dry \in BOOLEAN, StartMigration(pair, dry)
  PROVE  davBusy' \in DavMarks /\ migration' \in Migrations /\ \A c \in davCalls' : DavCallFits(c)
<1>0. PICK new : new = DavCall(IF dry THEN "dryRun" ELSE "migrate", pair)
  OBVIOUS
<1>1. /\ davBusy' = [davBusy EXCEPT !.migration = TRUE] /\ migration' = [migration EXCEPT !.result = None]
      /\ davCalls' = davCalls \cup {new}
  BY <1>0 DEF StartMigration, Issue
<1>2. DavCallFits(new)
  <2>1. PICK op : op = (IF dry THEN "dryRun" ELSE "migrate")
    OBVIOUS
  <2>2. op \in DavOps /\ op # "hide" /\ op # "patch"
    BY <2>1 DEF DavOps
  <2> QED
    BY <1>0, <2>1, <2>2, NewDavCall
<1>3. davBusy' \in DavMarks
  BY <1>1, SyncTyped DEF DavMarks
<1>4. migration' \in Migrations
  BY <1>1, SyncTyped DEF Migrations
<1> QED
  BY <1>1, <1>2, <1>3, <1>4, SyncTyped

LEMMA DavAnsweredKeeps ==
  ASSUME SyncInv, NEW yes \in BOOLEAN, DavAnswered(yes)
  PROVE  SyncInv'
<1>1. question # None /\ question' = None /\ UNCHANGED <<dav, davForms, hiddenCals, davServer>>
  BY DEF DavAnswered
<1>2. davForms' \in DavEdits /\ OwnForm'
  BY <1>1, FormsKeep
<1>3. davBusy' \in DavMarks /\ migration' \in Migrations /\ \A c \in davCalls' : DavCallFits(c)
  <2>1. CASE ~yes
    BY <2>1, SyncTyped DEF DavAnswered
  <2>2. CASE yes /\ question.op = "migrate"
    <3>1. StartMigration(question.arg, FALSE)
      BY <2>2 DEF DavAnswered
    <3> QED
      BY <3>1, MigrationStarts
  <2>3. CASE yes /\ question.op # "migrate"
    <3>0. PICK op, arg, new : op = question.op /\ arg = question.arg /\ new = DavCall(op, arg)
      OBVIOUS
    <3>1. davCalls' = davCalls \cup {new} /\ UNCHANGED <<davBusy, migration>>
      BY <2>3, <3>0 DEF DavAnswered, Issue
    <3>2. op \in {"rotate", "rotateWrite", "remove"}
      BY <1>1, <2>3, <3>0, SyncTyped DEF Confirmed
    <3>3. op \in DavOps /\ op # "hide" /\ op # "patch"
      BY <3>2 DEF DavOps
    <3>4. DavCallFits(new)
      BY <3>0, <3>3, NewDavCall
    <3> QED
      BY <3>1, <3>4, SyncTyped
  <2> QED
    BY <2>1, <2>2, <2>3
<1> QED
  BY <1>1, <1>2, <1>3, SyncTyped, SyncKeeps

\* The user's steps on the accounts.
LEMMA AccountStepsKeep ==
  ASSUME SyncInv,
         \/ \E on \in BOOLEAN : ShowAdd(on)
         \/ \E way \in Ways : AddAccount(way)
         \/ Discover \/ TypePassword \/ CancelEdit
         \/ \E a \in DavAccounts : StartEdit(a) \/ SyncOne(a)
  PROVE  SyncInv'
<1>1. UNCHANGED <<dav, hiddenCals, migration, question, davServer>>
  BY DEF ShowAdd, AddAccount, Discover, TypePassword, CancelEdit, StartEdit, SyncOne, Forms
<1>2. davForms' \in DavEdits /\ OwnForm'
  <2>1. ASSUME NEW on \in BOOLEAN, ShowAdd(on) PROVE davForms' \in DavEdits /\ OwnForm'
    BY <2>1, FormsKeep DEF ShowAdd, Forms
  <2>2. ASSUME NEW way \in Ways, AddAccount(way) PROVE davForms' \in DavEdits /\ OwnForm'
    BY <2>2, FormsKeep DEF AddAccount, Forms
  <2>3. CASE Discover
    BY <2>3, FormsKeep DEF Discover, Forms
  <2>4. CASE TypePassword
    BY <2>4, FormsKeep DEF TypePassword, Forms
  <2>5. CASE CancelEdit
    BY <2>5, FormsKeep DEF CancelEdit, Forms
  <2>6. ASSUME NEW a \in DavAccounts, StartEdit(a) \/ SyncOne(a) PROVE davForms' \in DavEdits /\ OwnForm'
    BY <2>6, FormsKeep DEF StartEdit, SyncOne, Forms
  <2> QED
    BY <2>1, <2>2, <2>3, <2>4, <2>5, <2>6
<1>3. davBusy' \in DavMarks /\ \A c \in davCalls' : DavCallFits(c)
  <2>1. ASSUME NEW on \in BOOLEAN, ShowAdd(on) PROVE <1>3!:
    BY <2>1, SyncTyped DEF ShowAdd, Forms
  <2>2. ASSUME NEW way \in Ways, AddAccount(way) PROVE <1>3!:
    <3>1. PICK new : new = DavCall("create", way)
      OBVIOUS
    <3>2. davCalls' = davCalls \cup {new} /\ davBusy' = [davBusy EXCEPT !.google = @ \/ way = "google"]
      BY <2>2, <3>1 DEF AddAccount, Forms, Issue
    <3>3. DavCallFits(new)
      BY <3>1, NewDavCall DEF DavOps
    <3>4. davBusy' = [davBusy EXCEPT !.google = TRUE] \/ davBusy' = [davBusy EXCEPT !.google = davBusy.google]
      <4>1. CASE way = "google"
        BY <3>2, <4>1
      <4>2. CASE way # "google"
        <5>1. (davBusy.google \/ way = "google") = davBusy.google
          BY <4>2, SyncTyped DEF DavMarks
        <5> QED
          BY <3>2, <5>1
      <4> QED
        BY <4>1, <4>2
    <3>5. davBusy' \in DavMarks
      BY <3>4, SyncTyped DEF DavMarks
    <3> QED
      BY <3>2, <3>3, <3>5, SyncTyped
  <2>3. ASSUME Discover PROVE <1>3!:
    <3>1. PICK new : new = DavCall("discover", None)
      OBVIOUS
    <3>2. davCalls' = davCalls \cup {new} /\ davBusy' = [davBusy EXCEPT !.discovery = TRUE]
      BY <2>3, <3>1 DEF Discover, Forms, Issue
    <3>3. DavCallFits(new)
      BY <3>1, NewDavCall DEF DavOps
    <3>4. davBusy' \in DavMarks
      BY <3>2, SyncTyped DEF DavMarks
    <3> QED
      BY <3>2, <3>3, <3>4, SyncTyped
  <2>4. ASSUME TypePassword \/ CancelEdit PROVE <1>3!:
    BY <2>4, SyncTyped DEF TypePassword, CancelEdit, Forms
  <2>5. ASSUME NEW a \in DavAccounts, StartEdit(a) PROVE <1>3!:
    BY <2>5, SyncTyped DEF StartEdit, Forms
  <2>6. ASSUME NEW a \in DavAccounts, SyncOne(a) PROVE <1>3!:
    <3>1. PICK new : new = DavCall("sync", {a})
      OBVIOUS
    <3>2. davCalls' = davCalls \cup {new} /\ davBusy' = [davBusy EXCEPT !.sync = a]
      BY <2>6, <3>1 DEF SyncOne, Forms, Issue
    <3>3. DavCallFits(new)
      BY <3>1, NewDavCall DEF DavOps
    <3>4. davBusy' \in DavMarks
      BY <3>2, SyncTyped DEF DavMarks
    <3> QED
      BY <3>2, <3>3, <3>4, SyncTyped
  <2> QED
    BY <2>1, <2>2, <2>3, <2>4, <2>5, <2>6
<1> QED
  BY <1>1, <1>2, <1>3, SyncTyped, SyncKeeps

LEMMA SyncUserKeeps ==
  ASSUME SyncInv, SyncUser
  PROVE  SyncInv'
<1>1. ASSUME NEW side \in {"source", "dest"}, NEW box \in {"b1", "b2"}, Choose(side, box) PROVE SyncInv'
  <2>1. /\ migration' = [migration EXCEPT ![side] = box]
        /\ UNCHANGED <<dav, davForms, davBusy, hiddenCals, question, davCalls, davServer>>
    BY <1>1 DEF Choose
  <2>2. migration' \in Migrations
    BY <2>1, SyncTyped DEF Migrations
  <2>3. davForms' \in DavEdits /\ OwnForm'
    BY <2>1, FormsKeep
  <2> QED
    BY <2>1, <2>2, <2>3, SyncTyped, SyncKeeps
<1>2. CASE DryRun
  <2>1. /\ StartMigration(Pair, TRUE) /\ UNCHANGED <<dav, davForms, hiddenCals, question, davServer>>
    BY <1>2 DEF DryRun
  <2>2. davBusy' \in DavMarks /\ migration' \in Migrations /\ \A c \in davCalls' : DavCallFits(c)
    BY <2>1, MigrationStarts
  <2>3. davForms' \in DavEdits /\ OwnForm'
    BY <2>1, FormsKeep
  <2> QED
    BY <2>1, <2>2, <2>3, SyncTyped, SyncKeeps
<1>3. CASE RunMigrate \/ Rotate \/ RotateWrite
  BY <1>3, AskForKeeps DEF RunMigrate, Rotate, RotateWrite, Confirmed
<1>4. ASSUME NEW a \in DavAccounts, RemoveAccount(a) PROVE SyncInv'
  BY <1>4, AskForKeeps DEF RemoveAccount, Confirmed
<1>5. CASE ShowWriteToken
  BY <1>5, SimplyKeeps DEF ShowWriteToken, DavOps
<1>6. CASE SyncAll
  BY <1>6, SimplyKeeps DEF SyncAll, DavOps
<1>7. CASE SaveEdit
  <2>1. PICK arg : arg = [account |-> davForms.editing, password |-> davForms.password]
    OBVIOUS
  <2>2. Simply("patch", arg)
    BY <1>7, <2>1 DEF SaveEdit
  <2>3. arg.password \in {None, arg.account}
    BY <2>1 DEF SyncInv, OwnForm
  <2> QED
    BY <2>2, <2>3, SimplyKeeps DEF DavOps
<1>8. ASSUME NEW c \in Cals, ToggleCal(c) PROVE SyncInv'
  <2>1. PICK new : new = IF c \in hiddenCals THEN hiddenCals \ {c} ELSE hiddenCals \cup {c}
    OBVIOUS
  <2>2. PICK told : told = DavCall("hide", new)
    OBVIOUS
  <2>3. /\ hiddenCals' = new /\ davCalls' = davCalls \cup {told}
        /\ UNCHANGED <<dav, davForms, davBusy, migration, question, davServer>>
    BY <1>8, <2>1, <2>2 DEF ToggleCal, Issue
  <2>4. new \subseteq Cals
    BY <2>1, SyncTyped
  <2>5. DavCallFits(told)
    BY <2>2, <2>4, NewDavCall DEF DavOps
  <2>6. davForms' \in DavEdits /\ OwnForm'
    BY <2>3, FormsKeep
  <2> QED
    BY <2>3, <2>4, <2>5, <2>6, SyncTyped, SyncKeeps
<1>9. ASSUME NEW c \in Cals, SetDefaultCal(c) PROVE SyncInv'
  <2>1. /\ dav' = [dav EXCEPT !.default = c]
        /\ UNCHANGED <<davForms, davBusy, hiddenCals, migration, question, davCalls, davServer>>
    BY <1>9 DEF SetDefaultCal
  <2>2. dav' \in DavLists
    BY <2>1, SyncTyped DEF DavLists
  <2>3. davForms' \in DavEdits /\ OwnForm'
    BY <2>1, FormsKeep
  <2> QED
    BY <2>1, <2>2, <2>3, SyncTyped, SyncKeeps
<1> QED
  BY <1>1, <1>2, <1>3, <1>4, <1>5, <1>6, <1>7, <1>8, <1>9, AccountStepsKeep DEF SyncUser

\* The server, and its answers.
LEMMA DavServerKeeps ==
  ASSUME SyncInv, NEW c \in davCalls, DavServerDoes(c)
  PROVE  SyncInv'
<1>1. /\ c.stage = "sent" /\ c.op \in Deciding /\ DavCallFits(c)
      /\ UNCHANGED <<dav, davForms, davBusy, hiddenCals, migration, question>>
  BY SyncTyped DEF DavServerDoes
<1>2. davServer' \in DavServers
  <2>1. davServer \in DavServers
    BY SyncTyped
  <2>2. CASE c.op = "create" /\ DavAccounts # davServer.accounts
    <3>1. PICK a : a = CHOOSE b \in DavAccounts : b \notin davServer.accounts
      OBVIOUS
    <3>2. a \in DavAccounts
      BY <2>1, <2>2, <3>1 DEF DavServers
    <3>3. davServer' = [davServer EXCEPT !.accounts = davServer.accounts \cup {a}]
      BY <2>2, <3>1 DEF DavServerDoes
    <3> QED
      BY <2>1, <3>2, <3>3 DEF DavServers
  <2>3. CASE c.op = "remove"
    <3>1. davServer' = [davServer EXCEPT !.accounts = davServer.accounts \ {c.arg}]
      BY <2>3 DEF DavServerDoes
    <3> QED
      BY <2>1, <3>1 DEF DavServers
  <2>4. CASE c.op = "hide"
    <3>1. davServer' = [davServer EXCEPT !.hidden = c.arg] /\ c.arg \subseteq Cals
      BY <1>1, <2>4 DEF DavServerDoes, DavCallFits, DavCallOK
    <3> QED
      BY <2>1, <3>1 DEF DavServers
  <2>5. CASE ~(c.op = "create" /\ DavAccounts # davServer.accounts) /\ c.op \notin {"remove", "hide"}
    BY <2>1, <2>5 DEF DavServerDoes
  <2> QED
    BY <2>2, <2>3, <2>4, <2>5
<1>3. PICK new : new = [c EXCEPT !.stage = IF c.op = "load" THEN "feed" ELSE "done", !.got = davServer']
  OBVIOUS
<1>4. davCalls' \subseteq davCalls \cup {new} /\ (new \in davCalls' => c.op # "hide" \/ new \in davCalls)
  BY <1>3 DEF DavServerDoes
<1>5. ASSUME c.op # "hide" PROVE DavCallFits(new)
  <2>1. c \in [op: DavOps, arg: {c.arg}, stage: {"sent", "feed", "accounts", "done"}, got: DavServers \cup {None}]
    BY <1>1 DEF DavCallFits, DavCallOK
  <2>2. /\ new = [op |-> c.op, arg |-> c.arg, stage |-> IF c.op = "load" THEN "feed" ELSE "done",
                  got |-> davServer']
        /\ new.op = c.op /\ new.arg = c.arg /\ new.got = davServer' /\ new.stage \in {"feed", "done"}
    BY <1>3, <2>1
  <2> QED
    BY <1>1, <1>2, <1>5, <2>1, <2>2 DEF DavCallFits, DavCallOK
<1>6. \A d \in davCalls' : DavCallFits(d)
  BY <1>4, <1>5, SyncTyped
<1>7. davForms' \in DavEdits /\ OwnForm'
  BY <1>1, FormsKeep
<1> QED
  BY <1>1, <1>2, <1>6, <1>7, SyncTyped, SyncKeeps

LEMMA DavLoadedKeeps ==
  ASSUME SyncInv, NEW c \in davCalls, DavLoaded(c)
  PROVE  SyncInv'
<1>1. /\ c.op = "load" /\ DavCallFits(c)
      /\ UNCHANGED <<davForms, davBusy, hiddenCals, migration, question, davServer>>
  BY SyncTyped DEF DavLoaded
<1>2. CASE c.stage = "feed"
  <2>1. PICK new : new = [c EXCEPT !.stage = "accounts"]
    OBVIOUS
  <2>2. dav' = [dav EXCEPT !.feed = "known"] /\ davCalls' = (davCalls \ {c}) \cup {new}
    BY <1>2, <2>1 DEF DavLoaded
  <2>3. dav' \in DavLists
    BY <2>2, SyncTyped DEF DavLists
  <2>4. c \in [op: DavOps, arg: {c.arg}, stage: {"sent", "feed", "accounts", "done"}, got: DavServers \cup {None}]
    BY <1>1 DEF DavCallFits, DavCallOK
  <2>5. /\ new = [op |-> c.op, arg |-> c.arg, stage |-> "accounts", got |-> c.got]
        /\ new.op = c.op /\ new.arg = c.arg /\ new.got = c.got
    BY <2>1, <2>4
  <2>6. c.got \in DavServers
    BY <1>1, <1>2 DEF DavCallFits, DavCallOK
  <2>7. DavCallFits(new)
    BY <1>1, <2>4, <2>5, <2>6 DEF DavCallFits, DavCallOK
  <2>8. davForms' \in DavEdits /\ OwnForm'
    BY <1>1, FormsKeep
  <2> QED
    BY <1>1, <2>2, <2>3, <2>7, <2>8, SyncTyped, SyncKeeps
<1>3. CASE c.stage = "accounts"
  <2>1. /\ davCalls' = davCalls \ {c}
        /\ dav' = [dav EXCEPT !.accounts = c.got.accounts,
                      !.cals = IF FirstDav \in c.got.accounts THEN Cals ELSE {}]
    BY <1>3 DEF DavLoaded
  <2>2. c.got.accounts \in SUBSET DavAccounts
    BY <1>1, <1>3 DEF DavCallFits, DavCallOK, DavServers
  <2>3. dav' \in DavLists
    BY <2>1, <2>2, SyncTyped DEF DavLists
  <2>4. davForms' \in DavEdits /\ OwnForm'
    BY <1>1, FormsKeep
  <2> QED
    BY <1>1, <2>1, <2>3, <2>4, SyncTyped, SyncKeeps
<1> QED
  BY <1>2, <1>3 DEF DavLoaded

LEMMA HiddenAnswerKeeps ==
  ASSUME SyncInv, NEW c \in davCalls, HiddenAnswer(c)
  PROVE  SyncInv'
<1>1. /\ c.op = "hidden" /\ c.stage = "done" /\ DavCallFits(c) /\ hiddenCals' = hiddenCals \cup c.got.hidden
      /\ UNCHANGED <<dav, davForms, davBusy, migration, question, davServer>>
  BY SyncTyped DEF HiddenAnswer
<1>2. hiddenCals' \subseteq Cals
  BY <1>1, SyncTyped DEF DavCallFits, DavCallOK, DavServers
<1>3. PICK new : new = DavCall("hide", hiddenCals')
  OBVIOUS
<1>4. davCalls' \subseteq davCalls \cup {new}
  BY <1>3 DEF HiddenAnswer
<1>5. DavCallFits(new)
  BY <1>2, <1>3, NewDavCall DEF DavOps
<1>6. davForms' \in DavEdits /\ OwnForm'
  BY <1>1, FormsKeep
<1> QED
  BY <1>1, <1>2, <1>4, <1>5, <1>6, SyncTyped, SyncKeeps

LEMMA UnmarkedKeeps ==
  ASSUME SyncInv, NEW c
  PROVE  Unmarked(c) \in DavMarks
<1>1. davBusy \in DavMarks
  BY SyncTyped
<1> QED
  BY <1>1 DEF Unmarked, DavMarks

LEMMA DavAnswersKeep ==
  ASSUME SyncInv, NEW c \in davCalls, DavAnswers(c)
  PROVE  SyncInv'
<1>1. DavCallFits(c) /\ davBusy' = Unmarked(c) /\ UNCHANGED <<hiddenCals, question, davServer>>
  BY SyncTyped DEF DavAnswers
<1>2. davBusy' \in DavMarks
  BY <1>1, UnmarkedKeeps
<1>3. \A d \in davCalls' : DavCallFits(d)
  <2>1. PICK new : new = LoadDav
    OBVIOUS
  <2>2. davCalls' \subseteq davCalls \cup {new}
    BY <2>1 DEF DavAnswers
  <2>3. DavCallFits(new)
    BY <2>1, NewDavCall DEF LoadDav, DavOps
  <2> QED
    BY <2>2, <2>3, SyncTyped
<1>4. davForms' \in DavEdits /\ OwnForm'
  <2>1. \/ davForms' = davForms \/ davForms' = [davForms EXCEPT !.adding = FALSE]
        \/ davForms' = [davForms EXCEPT !.found = "some"] \/ davForms' = NotEditing(davForms)
    BY DEF DavAnswers
  <2> QED
    BY <2>1, FormsKeep
<1>5. dav' \in DavLists
  <2>1. \/ dav' = dav \/ dav' = [dav EXCEPT !.feed = "text"]
        \/ dav' = [dav EXCEPT !.write = "text"] \/ dav' = [dav EXCEPT !.write = "known"]
    BY DEF DavAnswers
  <2> QED
    BY <2>1, SyncTyped DEF DavLists
<1>6. migration' \in Migrations
  <2>1. CASE c.op \in {"dryRun", "migrate"}
    <3>1. migration' = [migration EXCEPT !.result = c.op]
      BY <2>1 DEF DavAnswers
    <3> QED
      BY <2>1, <3>1, SyncTyped DEF Migrations
  <2>2. CASE c.op \notin {"dryRun", "migrate"}
    BY <2>2, SyncTyped DEF DavAnswers
  <2> QED
    BY <2>1, <2>2
<1> QED
  BY <1>1, <1>2, <1>3, <1>4, <1>5, <1>6, SyncTyped, SyncKeeps

LEMMA DavFailsKeeps ==
  ASSUME SyncInv, NEW c \in davCalls, DavFails(c)
  PROVE  SyncInv'
<1>1. /\ davCalls' = davCalls \ {c} /\ davBusy' = Unmarked(c)
      /\ UNCHANGED <<dav, davForms, hiddenCals, migration, question, davServer>>
  BY DEF DavFails
<1>2. davBusy' \in DavMarks
  BY <1>1, UnmarkedKeeps
<1>3. davForms' \in DavEdits /\ OwnForm'
  BY <1>1, FormsKeep
<1> QED
  BY <1>1, <1>2, <1>3, SyncTyped, SyncKeeps

LEMMA SyncStarts ==
  ASSUME SyncInit
  PROVE  SyncInv
<1>1. dav \in DavLists /\ davForms \in DavEdits /\ OwnForm
  BY DEF SyncInit, DavLists, DavEdits, OwnForm
<1>2. davBusy \in DavMarks /\ migration \in Migrations /\ question = None
  BY DEF SyncInit, DavMarks, Migrations
<1>3. hiddenCals \subseteq Cals
  BY DEF SyncInit, Beginning
<1>4. davServer \in DavServers
  <2> DEFINE start(hidden) == [accounts |-> {FirstDav}, hidden |-> hidden]
             beginnings == {start(hidden) : hidden \in SUBSET Cals}
  <2>1. davServer \in Beginning("sync", beginnings)
    BY DEF SyncInit
  <2>2. \A hidden \in SUBSET Cals : start(hidden) \in DavServers
    BY SyncAssumption DEF DavServers
  <2> HIDE DEF start
  <2>3. beginnings # {} /\ \A b \in beginnings : b \in DavServers
    BY <2>2
  <2> HIDE DEF beginnings
  <2>4. davServer \in beginnings
    BY <2>1, <2>3 DEF Beginning
  <2> QED
    BY <2>3, <2>4
<1>5. \A c \in davCalls : DavCallFits(c)
  <2>1. davCalls = {DavCall("load", None), DavCall("hidden", None)}
    BY DEF SyncInit, LoadDav
  <2>2. \A c : c = DavCall("load", None) \/ c = DavCall("hidden", None) => DavCallFits(c)
    BY NewDavCall DEF DavOps
  <2> QED
    BY <2>1, <2>2
<1> QED
  BY <1>1, <1>2, <1>3, <1>4, <1>5 DEF SyncInv, SyncTypeOK, OwnPassword, DavCallFits

LEMMA SyncStep ==
  ASSUME SyncInv, SyncNext \/ UNCHANGED syncVars
  PROVE  SyncInv'
<1>1. CASE UNCHANGED syncVars
  <2>1. UNCHANGED <<dav, davForms, davBusy, hiddenCals, migration, question, davCalls, davServer>>
    BY <1>1 DEF syncVars
  <2> QED
    BY <2>1 DEF SyncInv, SyncTypeOK, OwnForm, OwnPassword
<1>2. CASE SyncNext
  BY <1>2, SyncUserKeeps, DavFailsKeeps, DavAnsweredKeeps, DavServerKeeps, DavLoadedKeeps, HiddenAnswerKeeps,
     DavAnswersKeep DEF SyncNext, ByUser, ByFault, ByItself
<1> QED
  BY <1>1, <1>2

\* Calendars come back to the screen by the user's hand only.
LEMMA HideStep ==
  ASSUME moves \in Nat, SyncNext \/ UNCHANGED syncVars
  PROVE  hiddenCals \subseteq hiddenCals' \/ moves' # moves
<1>1. CASE UNCHANGED syncVars
  BY <1>1 DEF syncVars
<1>2. CASE ByUser(SyncUser)
  BY <1>2 DEF ByUser
<1>3. ASSUME NEW c \in davCalls,
             DavFails(c) \/ DavServerDoes(c) \/ DavLoaded(c) \/ HiddenAnswer(c) \/ DavAnswers(c)
      PROVE  hiddenCals \subseteq hiddenCals'
  BY <1>3 DEF DavFails, DavServerDoes, DavLoaded, HiddenAnswer, DavAnswers
<1>4. ASSUME NEW yes, DavAnswered(yes) PROVE hiddenCals \subseteq hiddenCals'
  BY <1>4 DEF DavAnswered
<1> QED
  BY <1>1, <1>2, <1>3, <1>4 DEF SyncNext, ByFault, ByItself
-----------------------------------------------------------------------------
(* The rules: of the account chosen, and at rest what the server has.          *)

RulesNow(acc) == {r \in ruleServer.rules : r.acc = acc}

\* The one request the form and the list wait for: a write, or the list after it.
Awaited(c) == c.mine /\ (c.op \in RuleWrites \/ (c.op = "list" /\ c.newest))
OneAwaited == \A c, d \in ruleCalls : Awaited(c) /\ Awaited(d) => c = d
RuleCallFits(c) ==
    /\ c.mine => c.acc = rulesView.acc
    /\ c.mine /\ c.op \in RuleWrites => rulesView.writing /\ ~rulesView.loading
    /\ Awaited(c) => rulesView.loading \/ rulesView.writing
    /\ c.mine /\ c.op = "list" /\ c.rule # None => c.newest
    /\ c.op = "list" => \A r \in c.got : r.acc = c.acc
    /\ c.op \in RuleWrites \ {"apply"} => c.rule.acc = c.acc
NothingAsked == ruleCalls = {RuleCall("accounts", None, None)} /\ rulesView.loading
AccountsFirst == IF rulesView.acc = None THEN NothingAsked ELSE \A c \in ruleCalls : c.op # "accounts"

\* While no account was left during a write and nothing failed: what is shown is
\* what the server has, or comes with the request awaited.
Wanted(c) ==
    CASE c.op = "list" -> c.got
      [] c.op = "delete" -> {r \in rulesView.rows : r.id # c.rule.id}
      [] OTHER -> rulesView.rows
WillFit(c) ==
    /\ c.op \in RuleWrites => c.mine
    /\ Awaited(c) /\ c.stage = "done" /\ c.op \in {"list", "delete", "apply"} =>
          Wanted(c) = RulesNow(rulesView.acc)
    /\ Awaited(c) /\ c.stage = "sent" /\ c.op \in RuleWrites => rulesView.rows = RulesNow(rulesView.acc)
RowsWillFit ==
    ~ruleDoubt =>
        /\ \A c \in ruleCalls : WillFit(c)
        /\ RulesIdle => rulesView.rows = RulesNow(rulesView.acc)

RulesInv == RulesTypeOK /\ RulesOfAccount /\ OneAwaited /\ AccountsFirst
            /\ (\A c \in ruleCalls : RuleCallFits(c)) /\ RowsWillFit

LEMMA RulesTyped ==
  ASSUME RulesInv
  PROVE  /\ rulesView \in RuleViews /\ ruleServer \in RuleServers /\ ruleDoubt \in BOOLEAN
         /\ \A c \in ruleCalls : RuleCallOK(c) /\ RuleCallFits(c)
  BY DEF RulesInv, RulesTypeOK

\* The invariant from its parts, the state after the step.
LEMMA RulesKeep ==
  ASSUME rulesView' \in RuleViews, ruleServer' \in RuleServers, ruleDoubt' \in BOOLEAN,
         \A c \in ruleCalls' : RuleCallOK(c) /\ RuleCallFits(c)',
         OneAwaited', AccountsFirst', RowsWillFit',
         \A r \in rulesView'.rows : r.acc = rulesView'.acc,
         rulesView'.edited # None => rulesView'.edited.acc = rulesView'.acc,
         rulesView'.folders \in {None, rulesView'.acc}
  PROVE  RulesInv'
<1>1. RulesTypeOK'
  BY DEF RulesTypeOK, RuleCallOK
<1>2. \A c, d \in ruleCalls' : {c.op, d.op} \subseteq RuleWrites /\ c.mine /\ d.mine => c = d
  BY DEF OneAwaited, Awaited
<1>3. RulesIdle' /\ ~ruleDoubt' => rulesView'.rows = {r \in ruleServer'.rules : r.acc = rulesView'.acc}
  BY DEF RowsWillFit, RulesNow
<1>4. RulesOfAccount'
  BY <1>2, <1>3 DEF RulesOfAccount
<1> QED
  BY <1>1, <1>4 DEF RulesInv

LEMMA NewRuleCall ==
  ASSUME NEW op \in RuleOps, NEW acc \in RuleAccounts \cup {None}, NEW rule \in RuleRows \cup {None},
         op \in {"accounts", "list", "folders", "apply"} \/ rule \in RuleRows,
         NEW new, new = RuleCall(op, acc, rule)
  PROVE  /\ new.op = op /\ new.acc = acc /\ new.rule = rule /\ new.mine /\ new.newest
         /\ new.stage = "sent" /\ new.got = {} /\ RuleCallOK(new)
<1>1. new = [op |-> op, acc |-> acc, rule |-> rule, mine |-> TRUE, newest |-> TRUE, stage |-> "sent", got |-> {}]
  BY DEF RuleCall
<1>2. new \in [op: RuleOps, acc: RuleAccounts \cup {None}, rule: RuleRows \cup {None}, mine: BOOLEAN,
               newest: BOOLEAN, stage: {"sent", "done"}, got: SUBSET RuleRows]
  BY <1>1
<1>3. new.op = op /\ new.rule = rule
  BY <1>1
<1>4. RuleCallOK(new)
  BY <1>2, <1>3 DEF RuleCallOK, RuleWrites
<1> QED
  BY <1>1, <1>4

LEMMA RulesStart == ASSUME RulesInit PROVE RulesInv
<1>1. PICK x : x \in RuleTexts /\
        ruleServer = [next |-> 2, rules |-> {[id |-> 1, acc |-> FirstRuleAccount, text |-> x]}]
  BY RulesAssumption DEF RulesInit, Beginning
<1>2. PICK new : new = RuleCall("accounts", None, None)
  OBVIOUS
<1>3. /\ new.op = "accounts" /\ new.acc = None /\ new.rule = None /\ new.mine /\ new.newest
      /\ new.stage = "sent" /\ new.got = {} /\ RuleCallOK(new)
  <2>1. /\ "accounts" \in RuleOps /\ "accounts" \in {"accounts", "list", "folders", "apply"}
        /\ None \in RuleAccounts \cup {None} /\ None \in RuleRows \cup {None}
    BY DEF RuleOps
  <2> QED
    BY <1>2, <2>1, NewRuleCall
<1>4. ruleCalls = {new} /\ ruleDoubt = FALSE
  BY <1>2 DEF RulesInit
<1>5. rulesView = [acc |-> None, rows |-> {}, folders |-> None, text |-> None, edited |-> None,
                   loading |-> TRUE, writing |-> FALSE]
  BY DEF RulesInit
<1>6. rulesView \in RuleViews
  BY <1>5 DEF RuleViews
<1>7. ruleServer \in RuleServers
  BY <1>1, RulesAssumption DEF RuleServers, RuleRows
<1>8. RulesTypeOK
  BY <1>3, <1>4, <1>6, <1>7 DEF RulesTypeOK
<1>9. ~RulesIdle /\ ~Awaited(new)
  BY <1>3, <1>5 DEF RulesIdle, Awaited, RuleWrites
<1>10. RulesOfAccount /\ OneAwaited
  BY <1>3, <1>4, <1>5, <1>9 DEF RulesOfAccount, OneAwaited, RuleWrites
<1>11. AccountsFirst
  BY <1>2, <1>4, <1>5 DEF AccountsFirst, NothingAsked
<1>12. RuleCallFits(new)
  BY <1>3, <1>5, <1>9 DEF RuleCallFits, RuleWrites
<1>13. WillFit(new)
  BY <1>3, <1>9 DEF WillFit, RuleWrites
<1>14. RowsWillFit
  BY <1>4, <1>9, <1>13 DEF RowsWillFit
<1> QED
  BY <1>4, <1>8, <1>10, <1>11, <1>12, <1>14 DEF RulesInv

\* Typing in the form changes nothing else.
LEMMA RuleFormKeeps ==
  ASSUME RulesInv, rulesView' \in RuleViews, rulesView.acc # None,
         rulesView'.acc = rulesView.acc, rulesView'.rows = rulesView.rows,
         rulesView'.folders = rulesView.folders, rulesView'.loading = rulesView.loading,
         rulesView'.writing = rulesView.writing,
         rulesView'.edited # None => rulesView'.edited.acc = rulesView.acc,
         UNCHANGED <<ruleCalls, ruleServer, ruleDoubt>>
  PROVE  RulesInv'
<1>1. \A c : (Awaited(c)' <=> Awaited(c)) /\ (RuleCallFits(c)' <=> RuleCallFits(c))
  BY DEF Awaited, RuleCallFits
<1>2. OneAwaited'
  BY <1>1 DEF RulesInv, OneAwaited
<1>3. AccountsFirst'
  BY DEF RulesInv, AccountsFirst
<1>4. RulesNow(rulesView.acc)' = RulesNow(rulesView.acc) /\ (RulesIdle' <=> RulesIdle)
  BY DEF RulesNow, RulesIdle
<1>5. \A c : (Wanted(c)' = Wanted(c)) /\ (WillFit(c)' <=> WillFit(c))
  BY <1>1, <1>4 DEF Wanted, WillFit
<1>6. RowsWillFit'
  BY <1>4, <1>5 DEF RulesInv, RowsWillFit
<1>7. rulesView'.folders \in {None, rulesView'.acc} /\ \A r \in rulesView'.rows : r.acc = rulesView'.acc
  BY DEF RulesInv, RulesOfAccount
<1> QED
  BY <1>1, <1>2, <1>3, <1>6, <1>7, RulesTyped, RulesKeep

LEMMA RuleFormSteps ==
  ASSUME RulesInv, \/ \E x \in RuleTexts : TypeRule(x)
                   \/ \E r \in rulesView.rows : StartRuleEdit(r)
                   \/ CancelRuleEdit
  PROVE  RulesInv'
<1>0. rulesView \in RuleViews /\ (rulesView.edited # None => rulesView.edited.acc = rulesView.acc)
      /\ \A r \in rulesView.rows : r.acc = rulesView.acc
  BY DEF RulesInv, RulesTypeOK, RulesOfAccount
<1>1. ASSUME NEW x \in RuleTexts, TypeRule(x) PROVE RulesInv'
  <2>1. /\ rulesView' = [rulesView EXCEPT !.text = x] /\ rulesView.acc # None
        /\ UNCHANGED <<ruleCalls, ruleServer, ruleDoubt>>
    BY <1>1 DEF TypeRule, RulesIdle
  <2>2. rulesView' \in RuleViews
    BY <1>0, <2>1 DEF RuleViews
  <2> QED
    BY <1>0, <2>1, <2>2, RuleFormKeeps DEF RuleViews
<1>2. ASSUME NEW r \in rulesView.rows, StartRuleEdit(r) PROVE RulesInv'
  <2>1. /\ rulesView' = [rulesView EXCEPT !.edited = r, !.text = r.text] /\ rulesView.acc # None
        /\ UNCHANGED <<ruleCalls, ruleServer, ruleDoubt>>
    BY <1>2 DEF StartRuleEdit, RulesIdle
  <2>2. r \in RuleRows /\ r.text \in RuleTexts
    BY <1>0 DEF RuleViews, RuleRows
  <2>3. rulesView' \in RuleViews
    BY <1>0, <2>1, <2>2 DEF RuleViews
  <2> QED
    BY <1>0, <2>1, <2>3, RuleFormKeeps DEF RuleViews
<1>3. CASE CancelRuleEdit
  <2>1. /\ rulesView' = [rulesView EXCEPT !.edited = None, !.text = None] /\ rulesView.acc # None
        /\ UNCHANGED <<ruleCalls, ruleServer, ruleDoubt>>
    BY <1>3 DEF CancelRuleEdit, RulesIdle, NoRuleEdit
  <2>2. rulesView' \in RuleViews
    BY <1>0, <2>1 DEF RuleViews
  <2> QED
    BY <1>0, <2>1, <2>2, RuleFormKeeps DEF RuleViews
<1> QED
  BY <1>1, <1>2, <1>3

\* A write is asked for; nothing was awaited.
LEMMA RuleWriteKeeps ==
  ASSUME RulesInv, NEW op \in RuleWrites, NEW rule \in RuleRows \cup {None}, WriteRule(op, rule),
         op # "apply" => rule \in RuleRows /\ rule.acc = rulesView.acc
  PROVE  RulesInv'
<1>1. PICK new : new = RuleCall(op, rulesView.acc, rule)
  OBVIOUS
<1>2. /\ rulesView.acc # None /\ rulesView.writing = FALSE /\ rulesView.loading = FALSE
      /\ rulesView' = [rulesView EXCEPT !.writing = TRUE]
      /\ ruleCalls' = ruleCalls \cup {new} /\ UNCHANGED <<ruleServer, ruleDoubt>>
  BY <1>1, RulesTyped DEF WriteRule, RulesIdle, RuleViews
<1>3. /\ new.op = op /\ new.acc = rulesView.acc /\ new.rule = rule /\ new.mine /\ new.newest
      /\ new.stage = "sent" /\ new.got = {} /\ RuleCallOK(new)
  <2>1. /\ rulesView.acc \in RuleAccounts \cup {None} /\ op \in RuleOps
        /\ op \in {"accounts", "list", "folders", "apply"} \/ rule \in RuleRows
    BY RulesTyped DEF RuleViews, RuleOps
  <2> QED
    BY <1>1, <2>1, NewRuleCall
<1>4. /\ rulesView' \in RuleViews /\ rulesView'.acc = rulesView.acc /\ rulesView'.rows = rulesView.rows
      /\ rulesView'.folders = rulesView.folders /\ rulesView'.edited = rulesView.edited
      /\ rulesView'.writing = TRUE /\ rulesView'.loading = FALSE
  BY <1>2, RulesTyped DEF RuleViews
<1>5. op \notin {"accounts", "list"}
  BY DEF RuleWrites
<1>6. ~RulesIdle' /\ RulesIdle /\ RulesNow(rulesView.acc)' = RulesNow(rulesView.acc)
  BY <1>2, <1>4 DEF RulesIdle, RulesNow
<1>7. \A c \in ruleCalls : ~Awaited(c) /\ ~Awaited(c)' /\ RuleCallFits(c) /\ RuleCallFits(c)'
  BY <1>2, <1>4, RulesTyped DEF Awaited, RuleCallFits
<1>8. RuleCallFits(new)'
  BY <1>3, <1>4, <1>5 DEF RuleCallFits, Awaited
<1>9. OneAwaited'
  BY <1>2, <1>7 DEF OneAwaited
<1>10. AccountsFirst'
  BY <1>2, <1>3, <1>4, <1>5 DEF RulesInv, AccountsFirst
<1>11. RowsWillFit'
  <2>1. ASSUME ~ruleDoubt' PROVE \A c \in ruleCalls' : WillFit(c)'
    <3>1. rulesView.rows = RulesNow(rulesView.acc) /\ \A c \in ruleCalls : WillFit(c)
      BY <1>2, <1>6, <2>1 DEF RulesInv, RowsWillFit
    <3>2. \A c \in ruleCalls : WillFit(c)'
      BY <1>7, <3>1 DEF WillFit
    <3>3. WillFit(new)'
      BY <1>3, <1>4, <1>6, <3>1 DEF WillFit
    <3> QED
      BY <1>2, <3>2, <3>3
  <2> QED
    BY <1>6, <2>1 DEF RowsWillFit
<1>12. /\ \A r \in rulesView'.rows : r.acc = rulesView'.acc
       /\ rulesView'.edited # None => rulesView'.edited.acc = rulesView'.acc
       /\ rulesView'.folders \in {None, rulesView'.acc}
  BY <1>4 DEF RulesInv, RulesOfAccount
<1> QED
  BY <1>2, <1>3, <1>4, <1>7, <1>8, <1>9, <1>10, <1>11, <1>12, RulesTyped, RulesKeep

LEMMA RuleUserWrites ==
  ASSUME RulesInv, \/ \E r \in rulesView.rows : RemoveRule(r)
                   \/ ApplyRulesNow \/ SubmitRule
  PROVE  RulesInv'
<1>0. /\ rulesView \in RuleViews /\ (rulesView.edited # None => rulesView.edited.acc = rulesView.acc)
      /\ \A r \in rulesView.rows : r.acc = rulesView.acc
  BY DEF RulesInv, RulesTypeOK, RulesOfAccount
<1>1. ASSUME NEW r \in rulesView.rows, RemoveRule(r) PROVE RulesInv'
  <2>1. r \in RuleRows /\ r.acc = rulesView.acc
    BY <1>0 DEF RuleViews
  <2>2. WriteRule("delete", r) /\ "delete" \in RuleWrites
    BY <1>1 DEF RemoveRule, RuleWrites
  <2> QED
    BY <2>1, <2>2, RuleWriteKeeps
<1>2. CASE ApplyRulesNow
  <2>1. WriteRule("apply", None) /\ "apply" \in RuleWrites
    BY <1>2 DEF ApplyRulesNow, RuleWrites
  <2> QED
    BY <2>1, RuleWriteKeeps
<1>3. CASE SubmitRule /\ rulesView.edited # None
  <2>1. PICK rule : rule = [rulesView.edited EXCEPT !.text = rulesView.text]
    OBVIOUS
  <2>2. WriteRule("change", rule) /\ "change" \in RuleWrites
    BY <1>3, <2>1 DEF SubmitRule, RuleWrites
  <2>3. rule \in RuleRows /\ rule.acc = rulesView.acc
    <3>1. rulesView.edited \in RuleRows /\ rulesView.text \in RuleTexts
      BY <1>0, <1>3 DEF RuleViews, SubmitRule
    <3> QED
      BY <1>0, <1>3, <2>1, <3>1 DEF RuleRows
  <2> QED
    BY <2>2, <2>3, RuleWriteKeeps
<1>4. CASE SubmitRule /\ ~(rulesView.edited # None)
  <2>1. PICK rule : rule = [id |-> 0, acc |-> rulesView.acc, text |-> rulesView.text]
    OBVIOUS
  <2>2. WriteRule("create", rule) /\ "create" \in RuleWrites
    BY <1>4, <2>1 DEF SubmitRule, RuleWrites
  <2>3. rule \in RuleRows /\ rule.acc = rulesView.acc
    <3>1. rulesView.acc \in RuleAccounts /\ rulesView.text \in RuleTexts
      BY <1>0, <1>4, <2>2 DEF RuleViews, SubmitRule, WriteRule, RulesIdle
    <3> QED
      BY <2>1, <3>1 DEF RuleRows
  <2> QED
    BY <2>2, <2>3, RuleWriteKeeps
<1> QED
  BY <1>1, <1>2, <1>3, <1>4

\* Another account: what was asked for before is no longer its own.
LEMMA RulesOfKeeps ==
  ASSUME RulesInv, NEW a \in RuleAccounts, NEW asked \in SUBSET ruleCalls, RulesOf(a, asked),
         \A c \in asked : c.op # "accounts",
         UNCHANGED ruleServer, ruleDoubt' \in BOOLEAN,
         ~ruleDoubt' => \A c \in asked : c.op \notin RuleWrites
  PROVE  RulesInv'
<1> DEFINE older(c) == [[c EXCEPT !.newest = FALSE] EXCEPT !.mine = FALSE]
<1>1. PICK list, folders : list = RuleCall("list", a, None) /\ folders = RuleCall("folders", a, None)
  OBVIOUS
<1>2. ruleCalls' = {older(c) : c \in asked} \cup {list, folders}
  BY <1>1 DEF RulesOf, Superseded
<1>3. /\ "list" \in RuleOps \ RuleWrites /\ "folders" \in RuleOps \ RuleWrites
      /\ {"list", "folders"} \subseteq {"accounts", "list", "folders", "apply"}
      /\ a \in RuleAccounts \cup {None} /\ None \in RuleRows \cup {None}
  BY DEF RuleOps, RuleWrites
<1>4. /\ list.op = "list" /\ list.acc = a /\ list.rule = None /\ list.mine
      /\ list.stage = "sent" /\ list.got = {} /\ list.newest /\ RuleCallOK(list)
  BY <1>1, <1>3, NewRuleCall
<1>5. /\ folders.op = "folders" /\ folders.acc = a /\ folders.rule = None /\ folders.mine
      /\ folders.stage = "sent" /\ folders.got = {} /\ RuleCallOK(folders)
  BY <1>1, <1>3, NewRuleCall
<1>6. rulesView' = [acc |-> a, rows |-> {}, folders |-> None, text |-> None, edited |-> None,
                    loading |-> TRUE, writing |-> FALSE]
  BY DEF RulesOf
<1>7. rulesView' \in RuleViews
  BY <1>6 DEF RuleViews
<1>8. /\ rulesView'.acc = a /\ rulesView'.rows = {} /\ rulesView'.folders = None /\ rulesView'.edited = None
      /\ rulesView'.loading = TRUE /\ rulesView'.writing = FALSE
  BY <1>6
<1>9. \A c \in asked : /\ older(c).mine = FALSE /\ older(c).op = c.op /\ older(c).acc = c.acc
                       /\ older(c).rule = c.rule /\ older(c).got = c.got /\ RuleCallOK(older(c))
  <2>1. SUFFICES ASSUME NEW c \in asked
        PROVE  /\ older(c).mine = FALSE /\ older(c).op = c.op /\ older(c).acc = c.acc
               /\ older(c).rule = c.rule /\ older(c).got = c.got /\ RuleCallOK(older(c))
    OBVIOUS
  <2>2. RuleCallOK(c)
    BY RulesTyped
  <2>3. PICK old : old = older(c)
    OBVIOUS
  <2>4. old = [op |-> c.op, acc |-> c.acc, rule |-> c.rule, mine |-> FALSE, newest |-> FALSE,
                stage |-> c.stage, got |-> c.got]
    BY <2>2, <2>3 DEF RuleCallOK
  <2>5. /\ old.mine = FALSE /\ old.op = c.op /\ old.acc = c.acc /\ old.rule = c.rule /\ old.got = c.got
        /\ old.newest = FALSE /\ old.stage = c.stage
    BY <2>4
  <2>6. old \in [op: RuleOps, acc: RuleAccounts \cup {None}, rule: RuleRows \cup {None}, mine: BOOLEAN,
                newest: BOOLEAN, stage: {"sent", "done"}, got: SUBSET RuleRows]
    BY <2>2, <2>4 DEF RuleCallOK
  <2>7. RuleCallOK(old)
    BY <2>2, <2>5, <2>6 DEF RuleCallOK
  <2> QED
    BY <2>3, <2>5, <2>7
<1> HIDE DEF older
<1>10. \A c \in asked : ~Awaited(older(c)) /\ RuleCallFits(older(c))'
  BY <1>9, RulesTyped DEF Awaited, RuleCallFits
<1>11. ~Awaited(folders) /\ RuleCallFits(folders)' /\ RuleCallFits(list)'
  BY <1>3, <1>4, <1>5, <1>8 DEF Awaited, RuleCallFits
<1>12. OneAwaited'
  BY <1>2, <1>10, <1>11 DEF OneAwaited, Awaited
<1>13. AccountsFirst'
  BY <1>2, <1>3, <1>4, <1>5, <1>8, <1>9, RulesAssumption DEF AccountsFirst
<1>14. RowsWillFit'
  <2>1. ~RulesIdle'
    BY <1>8 DEF RulesIdle
  <2>2. ASSUME ~ruleDoubt' PROVE \A c \in ruleCalls' : WillFit(c)'
    BY <1>2, <1>3, <1>4, <1>5, <1>9, <1>10, <2>2 DEF WillFit, Awaited
  <2> QED
    BY <2>1, <2>2 DEF RowsWillFit
<1> QED
  BY <1>2, <1>4, <1>5, <1>7, <1>8, <1>9, <1>10, <1>11, <1>12, <1>13, <1>14, RulesTyped, RulesKeep

LEMMA RuleAccountSteps ==
  ASSUME RulesInv, \/ \E a \in RuleAccounts : ChooseRuleAccount(a)
                   \/ \E c \in ruleCalls : RuleAccountsCome(c)
  PROVE  RulesInv'
<1>1. ASSUME NEW a \in RuleAccounts, ChooseRuleAccount(a) PROVE RulesInv'
  <2>1. rulesView.acc # None /\ RulesOf(a, ruleCalls) /\ UNCHANGED ruleServer
    BY <1>1 DEF ChooseRuleAccount
  <2>2. ruleDoubt' \in BOOLEAN /\ (~ruleDoubt' => \A c \in ruleCalls : c.op \notin RuleWrites)
    BY <1>1 DEF ChooseRuleAccount
  <2>3. \A c \in ruleCalls : c.op # "accounts"
    BY <2>1 DEF RulesInv, AccountsFirst
  <2> QED
    BY <2>1, <2>2, <2>3, RulesOfKeeps
<1>2. ASSUME NEW c \in ruleCalls, RuleAccountsCome(c) PROVE RulesInv'
  <2>1. c.op = "accounts" /\ RulesOf(FirstRuleAccount, ruleCalls \ {c}) /\ UNCHANGED <<ruleServer, ruleDoubt>>
    BY <1>2 DEF RuleAccountsCome
  <2>2. ruleCalls \ {c} = {}
    BY <2>1 DEF RulesInv, AccountsFirst, NothingAsked
  <2>3. RulesOf(FirstRuleAccount, {})
    BY <2>1, <2>2
  <2> QED
    BY <2>1, <2>3, RulesTyped, RulesOfKeeps, RulesAssumption
<1> QED
  BY <1>1, <1>2

\* The rules kept by the server are of the accounts; a write awaited makes them what
\* the page will show.
LEMMA ServedRules ==
  ASSUME RulesInv, NEW c \in ruleCalls, RuleServerDoes(c)
  PROVE  /\ ruleServer' \in RuleServers
         /\ c.op \notin RuleWrites => ruleServer' = ruleServer
         /\ c.op = "delete" => RulesNow(c.acc)' = {r \in RulesNow(c.acc) : r.id # c.rule.id}
         /\ c.op = "apply" => RulesNow(c.acc)' = RulesNow(c.acc)
<1>1. RuleCallOK(c) /\ RuleCallFits(c) /\ ruleServer \in RuleServers
  BY RulesTyped
<1>2. CASE c.op = "create"
  <2>1. PICK made : made = [c.rule EXCEPT !.id = ruleServer.next]
    OBVIOUS
  <2>2. ruleServer' = [next |-> ruleServer.next + 1, rules |-> ruleServer.rules \cup {made}]
    BY <1>2, <2>1 DEF RuleServerDoes
  <2>3. c.rule \in RuleRows /\ ruleServer.next \in Nat /\ ruleServer.rules \subseteq RuleRows
    BY <1>1, <1>2 DEF RuleCallOK, RuleWrites, RuleServers
  <2>4. made \in RuleRows
    BY <2>1, <2>3 DEF RuleRows
  <2>5. ruleServer' \in RuleServers
    BY <2>2, <2>3, <2>4 DEF RuleServers
  <2> QED
    BY <1>2, <2>5 DEF RuleWrites
<1>3. CASE c.op = "change"
  <2>1. PICK left : left = (ruleServer.rules \ SameRule(c.rule)) \cup {c.rule}
    OBVIOUS
  <2>2. ruleServer' = [ruleServer EXCEPT !.rules = left]
    BY <1>3, <2>1 DEF RuleServerDoes
  <2>3. left \subseteq RuleRows
    BY <1>1, <1>3, <2>1 DEF RuleCallOK, RuleWrites, RuleServers
  <2>4. ruleServer' \in RuleServers
    BY <1>1, <2>2, <2>3 DEF RuleServers
  <2> QED
    BY <1>3, <2>4 DEF RuleWrites
<1>4. CASE c.op = "delete"
  <2>1. PICK left : left = ruleServer.rules \ SameRule(c.rule)
    OBVIOUS
  <2>2. ruleServer' = [ruleServer EXCEPT !.rules = left]
    BY <1>4, <2>1 DEF RuleServerDoes
  <2>3. left \subseteq RuleRows
    BY <1>1, <2>1 DEF RuleServers
  <2>4. ruleServer' \in RuleServers /\ ruleServer'.rules = left
    BY <1>1, <2>2, <2>3 DEF RuleServers
  <2>5. c.rule.acc = c.acc
    BY <1>1, <1>4 DEF RuleCallFits, RuleWrites
  <2>6. RulesNow(c.acc)' = {r \in RulesNow(c.acc) : r.id # c.rule.id}
    BY <2>1, <2>4, <2>5 DEF RulesNow, SameRule
  <2> QED
    BY <1>4, <2>4, <2>6 DEF RuleWrites
<1>5. CASE c.op \notin {"create", "change", "delete"}
  <2>1. ruleServer' = ruleServer
    BY <1>5 DEF RuleServerDoes
  <2> QED
    BY <1>1, <1>5, <2>1 DEF RulesNow
<1> QED
  BY <1>2, <1>3, <1>4, <1>5

LEMMA RuleServerKeeps ==
  ASSUME RulesInv, NEW c \in ruleCalls, RuleServerDoes(c)
  PROVE  RulesInv'
<1>1. /\ c.stage = "sent" /\ c.op # "accounts" /\ UNCHANGED <<rulesView, ruleDoubt>>
      /\ RuleCallOK(c) /\ RuleCallFits(c)
  BY RulesTyped DEF RuleServerDoes
<1>2. PICK got : got = IF c.op = "list" THEN {r \in ruleServer.rules : r.acc = c.acc} ELSE {}
  OBVIOUS
<1>3. PICK new : new = [c EXCEPT !.stage = "done", !.got = got]
  OBVIOUS
<1>4. ruleCalls' = (ruleCalls \ {c}) \cup {new}
  BY <1>2, <1>3 DEF RuleServerDoes
<1>5. got \in SUBSET RuleRows /\ (c.op = "list" => got = RulesNow(c.acc)) /\ \A r \in got : r.acc = c.acc
  BY <1>2, RulesTyped DEF RuleServers, RulesNow
<1>6. /\ new.op = c.op /\ new.acc = c.acc /\ new.rule = c.rule /\ (new.mine <=> c.mine)
      /\ (new.newest <=> c.newest) /\ new.stage = "done" /\ new.got = got /\ RuleCallOK(new)
  <2>1. new = [op |-> c.op, acc |-> c.acc, rule |-> c.rule, mine |-> c.mine, newest |-> c.newest,
               stage |-> "done", got |-> got]
    BY <1>1, <1>3 DEF RuleCallOK
  <2>2. new \in [op: RuleOps, acc: RuleAccounts \cup {None}, rule: RuleRows \cup {None}, mine: BOOLEAN,
                newest: BOOLEAN, stage: {"sent", "done"}, got: SUBSET RuleRows]
    BY <1>1, <1>5, <2>1 DEF RuleCallOK
  <2>3. new.op = c.op /\ new.rule = c.rule
    BY <2>1
  <2>4. RuleCallOK(new)
    BY <1>1, <2>2, <2>3 DEF RuleCallOK
  <2> QED
    BY <2>1, <2>4
<1>7. \A d : (Awaited(d)' <=> Awaited(d)) /\ (RuleCallFits(d)' <=> RuleCallFits(d)) /\ Wanted(d)' = Wanted(d)
  BY <1>1 DEF Awaited, RuleCallFits, Wanted
<1>8. Awaited(new) <=> Awaited(c)
  BY <1>6 DEF Awaited
<1>9. RuleCallFits(new)
  BY <1>1, <1>5, <1>6, <1>8 DEF RuleCallFits
<1>10. OneAwaited'
  BY <1>4, <1>7, <1>8 DEF RulesInv, OneAwaited
<1>11. AccountsFirst'
  BY <1>1, <1>4, <1>6 DEF RulesInv, AccountsFirst, NothingAsked, RuleCall
<1>12. RowsWillFit'
  <2> SUFFICES ASSUME ~ruleDoubt
               PROVE  /\ \A d \in ruleCalls' : WillFit(d)'
                      /\ RulesIdle' => rulesView.rows = RulesNow(rulesView.acc)'
    BY <1>1 DEF RowsWillFit
  <2>1. /\ \A d \in ruleCalls : WillFit(d)
        /\ RulesIdle => rulesView.rows = RulesNow(rulesView.acc)
    BY DEF RulesInv, RowsWillFit
  <2>2. CASE c.op \notin RuleWrites
    <3>1. \A acc : RulesNow(acc)' = RulesNow(acc)
      BY <2>2, ServedRules DEF RulesNow
    <3>2. \A d \in ruleCalls : WillFit(d)'
      BY <1>1, <1>7, <2>1, <3>1 DEF WillFit
    <3>3. WillFit(new)'
      BY <1>1, <1>5, <1>6, <1>7, <1>8, <2>2, <3>1 DEF WillFit, Wanted, RuleCallFits, Awaited, RuleWrites
    <3>4. RulesIdle' <=> RulesIdle
      BY <1>1 DEF RulesIdle
    <3> QED
      BY <1>1, <1>4, <2>1, <3>1, <3>2, <3>3, <3>4
  <2>3. CASE c.op \in RuleWrites
    <3>1. /\ c.mine /\ Awaited(c) /\ c.acc = rulesView.acc /\ ~RulesIdle'
          /\ rulesView.rows = RulesNow(rulesView.acc)
      BY <1>1, <2>1, <2>3 DEF WillFit, Awaited, RuleCallFits, RulesIdle
    <3>2. \A d \in ruleCalls \ {c} : ~Awaited(d) /\ WillFit(d)
      BY <2>1, <3>1 DEF RulesInv, OneAwaited
    <3>3. \A d \in ruleCalls \ {c} : WillFit(d)'
      BY <1>7, <3>2 DEF WillFit
    <3>4. /\ c.op = "delete" => RulesNow(c.acc)' = {r \in RulesNow(c.acc) : r.id # c.rule.id}
          /\ c.op = "apply" => RulesNow(c.acc)' = RulesNow(c.acc)
          /\ new.op # "list"
      BY <1>6, <2>3, ServedRules DEF RuleWrites
    <3>5. new.op = "delete" => Wanted(new) = {r \in rulesView.rows : r.id # c.rule.id}
      BY <1>6 DEF Wanted
    <3>6. new.op = "apply" => Wanted(new) = rulesView.rows
      BY <1>6 DEF Wanted
    <3>7. /\ new.op = "delete" => Wanted(new)' = RulesNow(rulesView.acc)'
          /\ new.op = "apply" => Wanted(new)' = RulesNow(rulesView.acc)'
      <4>1. PICK acc : acc = rulesView.acc
        OBVIOUS
      <4>2. /\ RulesNow(rulesView.acc)' = RulesNow(acc)' /\ c.acc = acc /\ rulesView.rows = RulesNow(acc)
            /\ Wanted(new)' = Wanted(new)
        BY <1>1, <1>7, <3>1, <4>1 DEF RulesNow
      <4>3. {r \in rulesView.rows : r.id # c.rule.id} = {r \in RulesNow(c.acc) : r.id # c.rule.id}
        BY <4>2
      <4> QED
        BY <1>6, <3>4, <3>5, <3>6, <4>2, <4>3
    <3>8. WillFit(new)'
      BY <1>1, <1>6, <3>1, <3>4, <3>7 DEF WillFit
    <3> QED
      BY <1>4, <3>1, <3>3, <3>8
  <2> QED
    BY <2>2, <2>3
<1>13. /\ \A r \in rulesView'.rows : r.acc = rulesView'.acc
       /\ rulesView'.edited # None => rulesView'.edited.acc = rulesView'.acc
       /\ rulesView'.folders \in {None, rulesView'.acc}
  BY <1>1 DEF RulesInv, RulesOfAccount
<1> QED
  BY <1>1, <1>4, <1>6, <1>7, <1>9, <1>10, <1>11, <1>12, <1>13, RulesTyped, RulesKeep, ServedRules

\* A request that nothing waits for is answered or fails: the lists stay as they are.
LEMMA RuleOtherKeeps ==
  ASSUME RulesInv, NEW c \in ruleCalls, c.op # "accounts", ruleCalls' = ruleCalls \ {c},
         rulesView' \in RuleViews, rulesView'.acc = rulesView.acc, rulesView'.rows = rulesView.rows,
         rulesView'.folders \in {None, rulesView.acc}, rulesView'.edited = rulesView.edited,
         ~Awaited(c) => rulesView'.loading = rulesView.loading /\ rulesView'.writing = rulesView.writing,
         UNCHANGED ruleServer, (ruleDoubt' = ruleDoubt /\ ~Awaited(c)) \/ ruleDoubt' = TRUE
  PROVE  RulesInv'
<1>1. rulesView.acc # None
  BY DEF RulesInv, AccountsFirst, NothingAsked, RuleCall
<1>2. \A d : (Awaited(d)' <=> Awaited(d)) /\ Wanted(d)' = Wanted(d)
  BY DEF Awaited, Wanted
<1>3. OneAwaited'
  BY <1>2 DEF RulesInv, OneAwaited
<1>4. AccountsFirst'
  BY <1>1 DEF RulesInv, AccountsFirst
<1>5. \A d \in ruleCalls \ {c} : Awaited(c) => ~Awaited(d)
  BY DEF RulesInv, OneAwaited
<1>6. \A d \in ruleCalls \ {c} : RuleCallFits(d)'
  <2>1. CASE ~Awaited(c)
    BY <1>2, <2>1, RulesTyped DEF RuleCallFits
  <2>2. CASE Awaited(c)
    BY <1>2, <1>5, <2>2, RulesTyped DEF RuleCallFits, Awaited
  <2> QED
    BY <2>1, <2>2
<1>7. RowsWillFit'
  <2>1. ASSUME ~ruleDoubt' PROVE /\ \A d \in ruleCalls' : WillFit(d)'
                                 /\ RulesIdle' => rulesView'.rows = RulesNow(rulesView.acc)'
    <3>1. ~Awaited(c) /\ ~ruleDoubt
      BY <2>1
    <3>2. \A d \in ruleCalls : WillFit(d)
      BY <3>1 DEF RulesInv, RowsWillFit
    <3>3. RulesIdle' <=> RulesIdle
      BY <3>1 DEF RulesIdle
    <3>4. RulesNow(rulesView.acc)' = RulesNow(rulesView.acc)
      BY DEF RulesNow
    <3> QED
      BY <1>2, <3>1, <3>2, <3>3, <3>4 DEF RulesInv, RowsWillFit, WillFit
  <2> QED
    BY <2>1 DEF RowsWillFit
<1>8. \A r \in rulesView'.rows : r.acc = rulesView'.acc
  BY DEF RulesInv, RulesOfAccount
<1>9. rulesView'.edited # None => rulesView'.edited.acc = rulesView'.acc
  BY DEF RulesInv, RulesOfAccount
<1>10. ruleDoubt' \in BOOLEAN
  BY RulesTyped
<1> QED
  BY <1>3, <1>4, <1>6, <1>7, <1>8, <1>9, <1>10, RulesTyped, RulesKeep

\* Beside the request awaited nothing waits, so it may be superseded.
LEMMA RestFits ==
  ASSUME RulesInv, NEW c \in ruleCalls, Awaited(c), NEW left, left = ruleCalls \ {c},
         rulesView'.acc = rulesView.acc, NEW d \in left \cup Superseded(left)
  PROVE  /\ RuleCallOK(d) /\ RuleCallFits(d)' /\ ~Awaited(d) /\ d.op # "accounts"
         /\ ~(d.mine /\ d.op \in RuleWrites) /\ \E e \in left : e.op = d.op /\ (e.mine <=> d.mine)
<1>1. rulesView.acc # None
  BY RulesTyped DEF RulesInv, AccountsFirst, NothingAsked, RuleCall, Awaited, RuleWrites
<1>2. \A e \in left : /\ RuleCallOK(e) /\ RuleCallFits(e) /\ ~Awaited(e) /\ e.op # "accounts"
                     /\ ~(e.mine /\ e.op \in RuleWrites)
  BY <1>1, RulesTyped DEF RulesInv, OneAwaited, AccountsFirst, Awaited
<1>3. \A e \in left : RuleCallFits(e)'
  BY <1>2 DEF RuleCallFits, Awaited
<1>4. CASE d \in left
  BY <1>2, <1>3, <1>4
<1>5. CASE d \in Superseded(left)
  <2>1. PICK e \in left : d = [e EXCEPT !.newest = FALSE]
    BY <1>5 DEF Superseded
  <2>2. /\ RuleCallOK(e) /\ RuleCallFits(e) /\ RuleCallFits(e)' /\ ~Awaited(e) /\ e.op # "accounts"
        /\ ~(e.mine /\ e.op \in RuleWrites)
    BY <1>2, <1>3
  <2>3. d = [op |-> e.op, acc |-> e.acc, rule |-> e.rule, mine |-> e.mine, newest |-> FALSE,
             stage |-> e.stage, got |-> e.got]
    BY <2>1, <2>2 DEF RuleCallOK
  <2>4. d.op = e.op /\ d.acc = e.acc /\ d.rule = e.rule /\ (d.mine <=> e.mine) /\ ~d.newest /\ d.got = e.got
    BY <2>3
  <2>5. d \in [op: RuleOps, acc: RuleAccounts \cup {None}, rule: RuleRows \cup {None}, mine: BOOLEAN,
              newest: BOOLEAN, stage: {"sent", "done"}, got: SUBSET RuleRows]
    BY <2>2, <2>3 DEF RuleCallOK
  <2>6. RuleCallOK(d)
    BY <2>2, <2>4, <2>5 DEF RuleCallOK
  <2>7. ~Awaited(d) /\ ~(d.mine /\ d.op \in RuleWrites)
    BY <2>2, <2>4 DEF Awaited
  <2>8. ~(e.mine /\ e.op = "list" /\ e.rule # None)
    BY <2>2 DEF RuleCallFits, Awaited
  <2>9. RuleCallFits(d)'
    BY <2>2, <2>4, <2>7, <2>8 DEF RuleCallFits, Awaited
  <2> QED
    BY <2>2, <2>4, <2>6, <2>7, <2>9
<1> QED
  BY <1>4, <1>5

\* The request awaited is answered: nothing is awaited any more.
LEMMA RuleAwaitedKeeps ==
  ASSUME RulesInv, NEW c \in ruleCalls, Awaited(c), c.stage = "done",
         c.op \in {"list", "delete", "apply"},
         NEW left, left = ruleCalls \ {c}, ruleCalls' = left \/ ruleCalls' = Superseded(left),
         rulesView' \in RuleViews, rulesView'.acc = rulesView.acc, rulesView'.rows = Wanted(c),
         rulesView'.folders = rulesView.folders,
         rulesView'.edited # None => rulesView'.edited = rulesView.edited,
         UNCHANGED <<ruleServer, ruleDoubt>>
  PROVE  RulesInv'
<1>1. c.op # "accounts" /\ c.mine /\ c.acc = rulesView.acc /\ RuleCallOK(c)
  BY RulesTyped DEF RuleCallFits, Awaited
<1>2. rulesView.acc # None
  BY <1>1 DEF RulesInv, AccountsFirst, NothingAsked, RuleCall
<1>5. \A d \in ruleCalls' : RuleCallOK(d) /\ RuleCallFits(d)' /\ ~Awaited(d) /\ d.op # "accounts"
                            /\ \E e \in left : e.op = d.op /\ (e.mine <=> d.mine)
  BY RestFits
<1>6. \A d : Awaited(d)' <=> Awaited(d)
  BY DEF Awaited
<1>7. OneAwaited'
  BY <1>5, <1>6 DEF OneAwaited
<1>8. AccountsFirst'
  BY <1>2, <1>5 DEF AccountsFirst
<1>9. RowsWillFit'
  <2>1. ASSUME ~ruleDoubt PROVE /\ \A d \in ruleCalls' : WillFit(d)'
                                /\ rulesView'.rows = RulesNow(rulesView.acc)'
    <3>1. \A d \in ruleCalls : WillFit(d)
      BY <2>1 DEF RulesInv, RowsWillFit
    <3>2. Wanted(c) = RulesNow(rulesView.acc)
      BY <3>1 DEF WillFit
    <3>3. RulesNow(rulesView.acc)' = RulesNow(rulesView.acc)
      BY DEF RulesNow
    <3>4. \A d \in ruleCalls' : d.op \in RuleWrites => d.mine
      BY <1>5, <3>1 DEF WillFit
    <3> QED
      BY <1>5, <1>6, <3>2, <3>3, <3>4 DEF WillFit
  <2> QED
    BY <2>1 DEF RowsWillFit
<1>10. \A r \in rulesView'.rows : r.acc = rulesView'.acc
  <2>1. CASE c.op = "list"
    BY <1>1, <2>1, RulesTyped DEF Wanted, RuleCallFits
  <2>2. CASE c.op \in {"delete", "apply"}
    BY <2>2 DEF Wanted, RulesInv, RulesOfAccount
  <2> QED
    BY <2>1, <2>2
<1>11. /\ rulesView'.edited # None => rulesView'.edited.acc = rulesView'.acc
       /\ rulesView'.folders \in {None, rulesView'.acc}
  BY DEF RulesInv, RulesOfAccount
<1> QED
  BY <1>5, <1>7, <1>8, <1>9, <1>10, <1>11, RulesTyped, RulesKeep

LEMMA RuleListKeeps ==
  ASSUME RulesInv, NEW c \in ruleCalls, NEW ok \in BOOLEAN, RuleListComes(c, ok)
  PROVE  RulesInv'
<1>0. PICK rows, loading, writing :
        /\ rows = IF ok /\ c.mine /\ c.newest THEN c.got ELSE rulesView.rows
        /\ loading = (rulesView.loading /\ ~(c.mine /\ c.newest))
        /\ writing = (rulesView.writing /\ ~(c.mine /\ c.rule # None))
  OBVIOUS
<1>1. /\ c.op = "list" /\ c.stage = "done" /\ ruleCalls' = ruleCalls \ {c} /\ UNCHANGED ruleServer
      /\ rulesView' = [rulesView EXCEPT !.rows = rows, !.loading = loading, !.writing = writing]
      /\ ruleDoubt' = (ruleDoubt \/ ~ok)
  BY <1>0 DEF RuleListComes
<1>2. rulesView \in RuleViews /\ RuleCallOK(c) /\ RuleCallFits(c) /\ ruleDoubt \in BOOLEAN
  BY RulesTyped
<1>3. rows \in SUBSET RuleRows /\ loading \in BOOLEAN /\ writing \in BOOLEAN
  BY <1>0, <1>2 DEF RuleViews, RuleCallOK
<1>4. rulesView' = [acc |-> rulesView.acc, rows |-> rows, folders |-> rulesView.folders,
                    text |-> rulesView.text, edited |-> rulesView.edited, loading |-> loading,
                    writing |-> writing]
  BY <1>1, <1>2 DEF RuleViews
<1>5. rulesView' \in RuleViews
  BY <1>2, <1>3, <1>4 DEF RuleViews
<1>6. /\ rulesView'.acc = rulesView.acc /\ rulesView'.rows = rows /\ rulesView'.folders = rulesView.folders
      /\ rulesView'.edited = rulesView.edited /\ rulesView'.loading = loading /\ rulesView'.writing = writing
  BY <1>4
<1>7. Awaited(c) <=> c.mine /\ c.newest
  BY <1>1 DEF Awaited, RuleWrites
<1>8. CASE ok /\ Awaited(c)
  <2>1. rulesView'.rows = Wanted(c) /\ ruleDoubt' = ruleDoubt
    BY <1>0, <1>1, <1>2, <1>6, <1>7, <1>8 DEF Wanted
  <2> QED
    BY <1>1, <1>5, <1>6, <1>8, <2>1, RuleAwaitedKeeps
<1>9. CASE ~(ok /\ Awaited(c))
  <2>1. rulesView'.rows = rulesView.rows
    BY <1>0, <1>6, <1>7, <1>9
  <2>2. ~Awaited(c) => loading = rulesView.loading /\ writing = rulesView.writing
    <3>1. ~Awaited(c) => ~(c.mine /\ c.rule # None)
      BY <1>1, <1>2, <1>7 DEF RuleCallFits
    <3> QED
      BY <1>0, <1>2, <1>7, <3>1 DEF RuleViews
  <2>3. (ruleDoubt' = ruleDoubt /\ ~Awaited(c)) \/ ruleDoubt' = TRUE
    BY <1>1, <1>2, <1>9
  <2>4. rulesView'.folders \in {None, rulesView.acc} /\ c.op # "accounts"
    BY <1>1, <1>6 DEF RulesInv, RulesOfAccount
  <2> QED
    BY <1>1, <1>5, <1>6, <2>1, <2>2, <2>3, <2>4, RuleOtherKeeps
<1> QED
  BY <1>8, <1>9

LEMMA RuleSavedKeeps ==
  ASSUME RulesInv, NEW c \in ruleCalls, RuleSaved(c)
  PROVE  RulesInv'
<1>1. c.op \in {"create", "change"} /\ c.stage = "done" /\ UNCHANGED <<ruleServer, ruleDoubt>>
  BY DEF RuleSaved
<1>2. RuleCallOK(c) /\ RuleCallFits(c) /\ c.op \in RuleWrites /\ rulesView \in RuleViews /\ c.op # "accounts"
  BY <1>1, RulesTyped DEF RuleWrites
<1>3. CASE ~c.mine
  <2>1. rulesView' = rulesView /\ ruleCalls' = ruleCalls \ {c}
    BY <1>3 DEF RuleSaved
  <2>2. ~Awaited(c)
    BY <1>3 DEF Awaited
  <2>3. rulesView.folders \in {None, rulesView.acc}
    BY DEF RulesInv, RulesOfAccount
  <2> QED
    BY <1>1, <1>2, <2>1, <2>2, <2>3, RuleOtherKeeps
<1>4. CASE c.mine
  <2>1. PICK left, list : left = ruleCalls \ {c} /\ list = RuleCall("list", c.acc, c.rule)
    OBVIOUS
  <2>2. /\ rulesView' = [rulesView EXCEPT !.edited = None, !.text = None]
        /\ ruleCalls' = Superseded(left) \cup {list}
    BY <1>4, <2>1 DEF RuleSaved, NoRuleEdit
  <2>3. rulesView' \in RuleViews
    BY <1>2, <2>2 DEF RuleViews
  <2>4. /\ rulesView'.acc = rulesView.acc /\ rulesView'.rows = rulesView.rows /\ rulesView'.edited = None
        /\ rulesView'.folders = rulesView.folders /\ rulesView'.writing /\ ~rulesView'.loading
    BY <1>2, <1>4, <2>2 DEF RuleViews, RuleCallFits
  <2>5. Awaited(c) /\ c.acc = rulesView.acc
    BY <1>2, <1>4 DEF Awaited, RuleCallFits
  <2>6. /\ list.op = "list" /\ list.acc = c.acc /\ list.rule = c.rule /\ list.mine /\ list.newest
        /\ list.stage = "sent" /\ list.got = {} /\ RuleCallOK(list)
    <3>1. /\ "list" \in RuleOps /\ "list" \in {"accounts", "list", "folders", "apply"}
          /\ c.acc \in RuleAccounts \cup {None} /\ c.rule \in RuleRows \cup {None}
      BY <1>2 DEF RuleOps, RuleCallOK
    <3> QED
      BY <2>1, <3>1, NewRuleCall
  <2>7. \A d \in Superseded(left) : /\ RuleCallOK(d) /\ RuleCallFits(d)' /\ ~Awaited(d) /\ d.op # "accounts"
                                    /\ \E e \in left : e.op = d.op /\ (e.mine <=> d.mine)
    BY <2>1, <2>4, <2>5, RestFits
  <2>8. list.op \notin RuleWrites
    BY <2>6 DEF RuleWrites
  <2>9. RuleCallFits(list)'
    BY <2>4, <2>5, <2>6, <2>8 DEF RuleCallFits, Awaited
  <2>10. \A d : Awaited(d)' <=> Awaited(d)
    BY DEF Awaited
  <2>11. OneAwaited'
    BY <2>2, <2>7, <2>10 DEF OneAwaited
  <2>12. AccountsFirst'
    <3>1. rulesView.acc # None
      BY <1>1, <1>2 DEF RulesInv, AccountsFirst, NothingAsked, RuleCall
    <3> QED
      BY <2>2, <2>4, <2>6, <2>7, <3>1 DEF AccountsFirst
  <2>13. RowsWillFit'
    <3>1. ~RulesIdle'
      BY <2>4 DEF RulesIdle
    <3>2. ASSUME ~ruleDoubt PROVE \A d \in ruleCalls' : WillFit(d)'
      <4>1. \A e \in left : e.op \in RuleWrites => e.mine
        BY <2>1, <3>2 DEF RulesInv, RowsWillFit, WillFit
      <4>2. \A d \in Superseded(left) : WillFit(d)'
        BY <2>7, <2>10, <4>1 DEF WillFit
      <4>3. WillFit(list)'
        BY <2>6, <2>8 DEF WillFit
      <4> QED
        BY <2>2, <4>2, <4>3
    <3> QED
      BY <1>1, <3>1, <3>2 DEF RowsWillFit
  <2>14. /\ \A r \in rulesView'.rows : r.acc = rulesView'.acc
         /\ rulesView'.folders \in {None, rulesView'.acc}
    BY <2>4 DEF RulesInv, RulesOfAccount
  <2> QED
    BY <1>1, <2>2, <2>3, <2>4, <2>6, <2>7, <2>9, <2>11, <2>12, <2>13, <2>14, RulesTyped, RulesKeep
<1> QED
  BY <1>3, <1>4

LEMMA RuleRemovedKeeps ==
  ASSUME RulesInv, NEW c \in ruleCalls, RuleRemoved(c)
  PROVE  RulesInv'
<1>1. c.op = "delete" /\ c.stage = "done" /\ UNCHANGED <<ruleServer, ruleDoubt>>
  BY DEF RuleRemoved
<1>2. RuleCallOK(c) /\ RuleCallFits(c) /\ c.op \in RuleWrites /\ rulesView \in RuleViews /\ c.op # "accounts"
  BY <1>1, RulesTyped DEF RuleWrites
<1>3. CASE ~c.mine
  <2>1. rulesView' = rulesView /\ ruleCalls' = ruleCalls \ {c}
    BY <1>3 DEF RuleRemoved
  <2>2. ~Awaited(c)
    BY <1>3 DEF Awaited
  <2>3. rulesView.folders \in {None, rulesView.acc}
    BY DEF RulesInv, RulesOfAccount
  <2> QED
    BY <1>1, <1>2, <2>1, <2>2, <2>3, RuleOtherKeeps
<1>4. CASE c.mine
  <2>1. PICK left, rows, next :
          /\ left = ruleCalls \ {c} /\ rows = {r \in rulesView.rows : r.id # c.rule.id}
          /\ next = [[rulesView EXCEPT !.rows = rows] EXCEPT !.writing = FALSE]
    OBVIOUS
  <2>2. /\ rulesView' = next \/ rulesView' = [next EXCEPT !.edited = None, !.text = None]
        /\ ruleCalls' = Superseded(left)
    BY <1>4, <2>1 DEF RuleRemoved, NoRuleEdit, Unwritten
  <2>3. next = [acc |-> rulesView.acc, rows |-> rows, folders |-> rulesView.folders,
                text |-> rulesView.text, edited |-> rulesView.edited, loading |-> rulesView.loading,
                writing |-> FALSE]
    BY <1>2, <2>1 DEF RuleViews
  <2>4. rows \in SUBSET RuleRows
    BY <1>2, <2>1 DEF RuleViews
  <2>5. next \in RuleViews
    BY <1>2, <2>3, <2>4 DEF RuleViews
  <2>6. /\ next.acc = rulesView.acc /\ next.rows = rows /\ next.folders = rulesView.folders
        /\ next.edited = rulesView.edited
    BY <2>3
  <2>7. /\ rulesView' \in RuleViews /\ rulesView'.acc = next.acc /\ rulesView'.rows = next.rows
        /\ rulesView'.folders = next.folders /\ (rulesView'.edited # None => rulesView'.edited = next.edited)
    BY <2>2, <2>5 DEF RuleViews
  <2>8. Wanted(c) = rows /\ Awaited(c)
    BY <1>1, <1>2, <1>4, <2>1 DEF Wanted, Awaited
  <2> QED
    BY <1>1, <2>1, <2>2, <2>6, <2>7, <2>8, RuleAwaitedKeeps
<1> QED
  BY <1>3, <1>4

LEMMA RulesAppliedKeeps ==
  ASSUME RulesInv, NEW c \in ruleCalls, RulesApplied(c)
  PROVE  RulesInv'
<1>1. /\ c.op = "apply" /\ c.stage = "done" /\ ruleCalls' = ruleCalls \ {c}
      /\ UNCHANGED <<ruleServer, ruleDoubt>>
  BY DEF RulesApplied
<1>2. RuleCallFits(c) /\ c.op \in RuleWrites /\ rulesView \in RuleViews /\ c.op # "accounts"
  BY <1>1, RulesTyped DEF RuleWrites
<1>3. rulesView.folders \in {None, rulesView.acc}
  BY DEF RulesInv, RulesOfAccount
<1>4. CASE ~c.mine
  <2>1. rulesView' = rulesView /\ ~Awaited(c)
    BY <1>4 DEF RulesApplied, Awaited
  <2> QED
    BY <1>1, <1>2, <1>3, <2>1, RuleOtherKeeps
<1>5. CASE c.mine
  <2>1. rulesView' = [rulesView EXCEPT !.writing = FALSE]
    BY <1>5 DEF RulesApplied, Unwritten
  <2>2. /\ rulesView' \in RuleViews /\ rulesView'.acc = rulesView.acc /\ rulesView'.rows = rulesView.rows
        /\ rulesView'.folders = rulesView.folders /\ rulesView'.edited = rulesView.edited
    BY <1>2, <2>1 DEF RuleViews
  <2>3. Wanted(c) = rulesView.rows /\ Awaited(c)
    BY <1>1, <1>2, <1>5 DEF Wanted, Awaited
  <2> QED
    BY <1>1, <2>2, <2>3, RuleAwaitedKeeps
<1> QED
  BY <1>4, <1>5

LEMMA RuleFoldersKeep ==
  ASSUME RulesInv, NEW c \in ruleCalls, RuleFoldersCome(c)
  PROVE  RulesInv'
<1>1. c.op = "folders" /\ ruleCalls' = ruleCalls \ {c} /\ UNCHANGED <<ruleServer, ruleDoubt>>
  BY DEF RuleFoldersCome
<1>2. /\ RuleCallFits(c) /\ rulesView \in RuleViews /\ c.op # "accounts" /\ ~Awaited(c)
      /\ rulesView.folders \in {None, rulesView.acc}
  BY <1>1, RulesTyped DEF Awaited, RuleWrites, RulesInv, RulesOfAccount
<1>3. CASE ~c.mine
  <2>1. rulesView' = rulesView
    BY <1>3 DEF RuleFoldersCome
  <2> QED
    BY <1>1, <1>2, <2>1, RuleOtherKeeps
<1>4. CASE c.mine
  <2>1. rulesView' = [rulesView EXCEPT !.folders = rulesView.acc]
    BY <1>2, <1>4 DEF RuleFoldersCome, RuleCallFits
  <2>2. /\ rulesView' \in RuleViews /\ rulesView'.acc = rulesView.acc /\ rulesView'.rows = rulesView.rows
        /\ rulesView'.folders = rulesView.acc /\ rulesView'.edited = rulesView.edited
        /\ rulesView'.loading = rulesView.loading /\ rulesView'.writing = rulesView.writing
    BY <1>2, <2>1 DEF RuleViews
  <2> QED
    BY <1>1, <1>2, <2>2, RuleOtherKeeps
<1> QED
  BY <1>3, <1>4

LEMMA RuleCallFailsKeeps ==
  ASSUME RulesInv, NEW c \in ruleCalls, RuleCallFails(c)
  PROVE  RulesInv'
<1>1. /\ c.op \notin {"list", "accounts"} /\ ruleCalls' = ruleCalls \ {c} /\ UNCHANGED ruleServer
      /\ ruleDoubt' = TRUE
  BY DEF RuleCallFails
<1>2. rulesView \in RuleViews /\ c.op # "accounts" /\ rulesView.folders \in {None, rulesView.acc}
  BY <1>1, RulesTyped DEF RulesInv, RulesOfAccount
<1>3. CASE Awaited(c)
  <2>1. rulesView' = [rulesView EXCEPT !.writing = FALSE]
    BY <1>1, <1>3 DEF RuleCallFails, Unwritten, Awaited
  <2>2. /\ rulesView' \in RuleViews /\ rulesView'.acc = rulesView.acc /\ rulesView'.rows = rulesView.rows
        /\ rulesView'.folders = rulesView.folders /\ rulesView'.edited = rulesView.edited
    BY <1>2, <2>1 DEF RuleViews
  <2> QED
    BY <1>1, <1>2, <1>3, <2>2, RuleOtherKeeps
<1>4. CASE ~Awaited(c)
  <2>1. rulesView' = rulesView
    BY <1>1, <1>4 DEF RuleCallFails, Awaited
  <2> QED
    BY <1>1, <1>2, <1>4, <2>1, RuleOtherKeeps
<1> QED
  BY <1>3, <1>4

LEMMA RulesStep ==
  ASSUME RulesInv, RulesNext \/ UNCHANGED rulesVars
  PROVE  RulesInv'
<1>1. CASE RulesUser
  BY <1>1, RuleAccountSteps, RuleFormSteps, RuleUserWrites DEF RulesUser
<1>2. ASSUME NEW c \in ruleCalls, RuleCallFails(c) \/ RuleListComes(c, FALSE) PROVE RulesInv'
  BY <1>2, RuleCallFailsKeeps, RuleListKeeps
<1>3. ASSUME NEW c \in ruleCalls,
             RuleServerDoes(c) \/ RuleAccountsCome(c) \/ RuleListComes(c, TRUE) \/ RuleFoldersCome(c)
      PROVE RulesInv'
  BY <1>3, RuleServerKeeps, RuleAccountSteps, RuleListKeeps, RuleFoldersKeep
<1>4. ASSUME NEW c \in ruleCalls, RuleSaved(c) \/ RuleRemoved(c) \/ RulesApplied(c) PROVE RulesInv'
  BY <1>4, RuleSavedKeeps, RuleRemovedKeeps, RulesAppliedKeeps
<1>5. CASE UNCHANGED rulesVars
  BY <1>5 DEF rulesVars, RulesInv, RulesTypeOK, RulesOfAccount, OneAwaited, AccountsFirst, NothingAsked,
              RuleCallFits, RowsWillFit, Awaited, WillFit, Wanted, RulesNow, RulesIdle, RuleCallOK
<1> QED
  BY <1>1, <1>2, <1>3, <1>4, <1>5 DEF RulesNext, ByUser, ByFault, ByItself
-----------------------------------------------------------------------------
(* The contacts: the rows answer the text in the box, and a form overwrites    *)
(* the contact it was filled from.                                             *)

\* A contact is on its way to the server, or back with the list that follows.
Saving(c) == c.op \in {"create", "patch"} \/ (c.op = "find" /\ c.then # None)
ContactCallFits(c) ==
    /\ Saving(c) => cardForm.saving
    /\ c.op = "patch" => c.then = c.id \/ muddled
    /\ c.op = "create" /\ c.stage = "sent" => contactServer.next <= MaxContacts
OneSaved == \A c, d \in contactCalls : Saving(c) /\ Saving(d) => c = d
FormIsOf == cardForm.sel \notin {None, 0} => cardForm.from = cardForm.sel \/ muddled

ContactsInv == ContactsTypeOK /\ RowsAnswerBox /\ FormIsOf /\ OneSaved
               /\ \A c \in contactCalls : ContactCallFits(c)

LEMMA ContactsTyped ==
  ASSUME ContactsInv
  PROVE  /\ book \in Books /\ cardForm \in CardForms /\ removing \in ContactIds \cup {None}
         /\ birthdays \in BirthdayCals \cup {None} /\ contactServer \in ContactServers /\ muddled \in BOOLEAN
         /\ \A c \in contactCalls : ContactCallOK(c) /\ ContactCallFits(c)
  BY DEF ContactsInv, ContactsTypeOK

LEMMA NewContactCall ==
  ASSUME NEW op \in {"find", "create", "patch", "delete", "birthdays", "calendar"},
         NEW id \in ContactIds \cup {0, None}, NEW arg, NEW then, NEW new, new = ContactCall(op, id, arg, then)
  PROVE  /\ new.op = op /\ new.id = id /\ new.arg = arg /\ new.then = then /\ new.newest
         /\ new.stage = "sent" /\ new.got = {}
         /\ new \in [op: {"find", "create", "patch", "delete", "birthdays", "calendar"},
                     id: ContactIds \cup {0, None}, arg: {new.arg}, then: {new.then}, newest: BOOLEAN,
                     stage: {"sent", "done"}, got: SUBSET ContactRows]
<1>1. new = [op |-> op, id |-> id, arg |-> arg, then |-> then, newest |-> TRUE, stage |-> "sent", got |-> {}]
  BY DEF ContactCall
<1>2. new.arg = arg /\ new.then = then
  BY <1>1
<1> QED
  BY <1>1, <1>2

\* A search, for the row of a contact saved or for nothing else.
LEMMA NewSearch ==
  ASSUME NEW q \in Queries, NEW then, then # None => then \in [id: ContactIds, new: BOOLEAN],
         NEW new, new = ContactCall("find", None, q, then)
  PROVE  ContactCallOK(new) /\ new.op = "find" /\ new.then = then
<1>1. PICK op, id : op = "find" /\ id = None
  OBVIOUS
<1>2. op \in {"find", "create", "patch", "delete", "birthdays", "calendar"} /\ id \in ContactIds \cup {0, None}
  BY <1>1
<1>3. new = ContactCall(op, id, q, then)
  BY <1>1
<1>4. /\ new.op = op /\ new.arg = q /\ new.then = then
      /\ new \in [op: {"find", "create", "patch", "delete", "birthdays", "calendar"},
                  id: ContactIds \cup {0, None}, arg: {new.arg}, then: {new.then}, newest: BOOLEAN,
                  stage: {"sent", "done"}, got: SUBSET ContactRows]
  BY <1>2, <1>3, NewContactCall
<1> QED
  BY <1>1, <1>4 DEF ContactCallOK

\* An older search differs in its mark only.
LEMMA OlderFits ==
  ASSUME NEW e, ContactCallOK(e), NEW d, d = IF e.op = "find" THEN [e EXCEPT !.newest = FALSE] ELSE e
  PROVE  /\ ContactCallOK(d) /\ d.op = e.op /\ d.id = e.id /\ d.arg = e.arg /\ d.then = e.then
         /\ d.stage = e.stage
<1>1. CASE e.op # "find"
  BY <1>1
<1>2. CASE e.op = "find"
  <2>1. d = [op |-> e.op, id |-> e.id, arg |-> e.arg, then |-> e.then, newest |-> FALSE,
             stage |-> e.stage, got |-> e.got]
    BY <1>2 DEF ContactCallOK
  <2>2. d.op = e.op /\ d.id = e.id /\ d.arg = e.arg /\ d.then = e.then /\ d.stage = e.stage
    BY <2>1
  <2>3. d \in [op: {"find", "create", "patch", "delete", "birthdays", "calendar"},
              id: ContactIds \cup {0, None}, arg: {d.arg}, then: {d.then}, newest: BOOLEAN,
              stage: {"sent", "done"}, got: SUBSET ContactRows]
    BY <2>1, <2>2 DEF ContactCallOK
  <2>4. ContactCallOK(d)
    BY <2>2, <2>3 DEF ContactCallOK
  <2> QED
    BY <2>2, <2>4
<1> QED
  BY <1>1, <1>2

\* What is under way after a step: requests kept, searches among them perhaps older,
\* and at most one new request.
LEMMA ContactCallsKeep ==
  ASSUME ContactsInv, NEW kept \in SUBSET contactCalls, NEW added,
         contactCalls' = kept \cup added \/ contactCalls' = OlderSearches(kept) \cup added,
         \A n \in added : ContactCallOK(n) /\ ContactCallFits(n)' /\ \A m \in added : m = n,
         \A n \in added : Saving(n) => \A e \in kept : ~Saving(e),
         \A e \in kept : Saving(e) => cardForm'.saving,
         \A e \in kept : e.op = "create" /\ e.stage = "sent" => contactServer'.next <= MaxContacts,
         muddled => muddled'
  PROVE  (\A c \in contactCalls' : ContactCallOK(c) /\ ContactCallFits(c)') /\ OneSaved'
<1> DEFINE older(e) == IF e.op = "find" THEN [e EXCEPT !.newest = FALSE] ELSE e
<1>1. \A e \in kept : /\ ContactCallOK(older(e)) /\ older(e).op = e.op /\ older(e).id = e.id
                      /\ older(e).then = e.then /\ older(e).stage = e.stage
  BY ContactsTyped, OlderFits
<1>2. OlderSearches(kept) = {older(e) : e \in kept}
  BY DEF OlderSearches
<1> HIDE DEF older
<1>3. \A e \in kept : (Saving(older(e)) <=> Saving(e)) /\ (Saving(e)' <=> Saving(e))
  BY <1>1 DEF Saving
<1>4. \A e \in kept : /\ ContactCallOK(e) /\ ContactCallFits(e)'
                      /\ ContactCallOK(older(e)) /\ ContactCallFits(older(e))'
  BY <1>1, ContactsTyped DEF ContactCallFits, Saving
<1>5. \A c \in contactCalls' : ContactCallOK(c) /\ ContactCallFits(c)'
  BY <1>2, <1>4
<1>6. \A d, e \in kept : Saving(d) /\ Saving(e) => d = e
  BY DEF ContactsInv, OneSaved
<1>7. \A c, d \in contactCalls' : Saving(c) /\ Saving(d) => c = d
  <2>1. CASE contactCalls' = kept \cup added
    BY <1>6, <2>1
  <2>2. CASE contactCalls' = OlderSearches(kept) \cup added
    BY <1>2, <1>3, <1>6, <2>2
  <2> QED
    BY <2>1, <2>2
<1>8. OneSaved'
  BY <1>7 DEF OneSaved, Saving
<1> QED
  BY <1>5, <1>8

LEMMA ContactsKeep ==
  ASSUME book' \in Books, cardForm' \in CardForms, removing' \in ContactIds \cup {None},
         birthdays' \in BirthdayCals \cup {None}, contactServer' \in ContactServers, muddled' \in BOOLEAN,
         (\A c \in contactCalls' : ContactCallOK(c) /\ ContactCallFits(c)') /\ OneSaved',
         FormIsOf', RowsAnswerBox'
  PROVE  ContactsInv'
  BY DEF ContactsInv, ContactsTypeOK, ContactCallOK

LEMMA EverythingFinds == Everything \in Queries
  BY ContactsAssumption DEF Everything

LEMMA ContactsStart == ASSUME ContactsInit PROVE ContactsInv
<1>1. PICK x : x \in Cards /\
        contactServer = [rows |-> {[id |-> 1, card |-> x]}, next |-> 2, cal |-> None, mixed |-> FALSE]
  BY ContactsAssumption DEF ContactsInit, Beginning
<1>2. PICK find, cal : /\ find = ContactCall("find", None, Everything, None)
                       /\ cal = ContactCall("calendar", None, None, None)
  OBVIOUS
<1>3. ContactCallOK(find) /\ find.op = "find" /\ find.then = None
  BY <1>2, EverythingFinds, NewSearch
<1>4. ContactCallOK(cal) /\ cal.op = "calendar"
  <2>1. None \in ContactIds \cup {0, None}
    OBVIOUS
  <2> QED
    BY <1>2, <2>1, NewContactCall DEF ContactCallOK
<1>5. contactCalls = {find, cal} /\ muddled = FALSE /\ removing = None /\ birthdays = None
  BY <1>2 DEF ContactsInit
<1>6. book = [q |-> Everything, rows |-> {}, answers |-> Everything, waiting |-> FALSE]
  BY DEF ContactsInit
<1>7. book \in Books
  BY <1>6, EverythingFinds DEF Books
<1>8. cardForm = [sel |-> None, card |-> None, from |-> None, saving |-> FALSE]
  BY DEF ContactsInit, NoCard
<1>9. cardForm \in CardForms
  BY <1>8 DEF CardForms
<1>10. 1 \in ContactIds /\ 2 \in 1 .. MaxContacts + 1
  BY ContactsAssumption DEF ContactIds
<1>11. [id |-> 1, card |-> x] \in ContactRows
  BY <1>1, <1>10 DEF ContactRows
<1>12. contactServer \in ContactServers
  BY <1>1, <1>10, <1>11 DEF ContactServers
<1>13. ~Saving(find) /\ ~Saving(cal)
  BY <1>3, <1>4 DEF Saving
<1>14. ContactCallFits(find) /\ ContactCallFits(cal)
  BY <1>3, <1>4, <1>13 DEF ContactCallFits
<1>15. OneSaved /\ FormIsOf /\ RowsAnswerBox
  BY <1>1, <1>5, <1>6, <1>8, <1>13 DEF OneSaved, FormIsOf, RowsAnswerBox
<1> QED
  BY <1>3, <1>4, <1>5, <1>7, <1>9, <1>12, <1>14, <1>15 DEF ContactsInv, ContactsTypeOK

\* A step that keeps the server: the requests kept, searches among them perhaps
\* older, and a new one.
LEMMA AskingKeeps ==
  ASSUME ContactsInv, NEW kept \in SUBSET contactCalls, NEW new,
         contactCalls' = kept \cup {new} \/ contactCalls' = OlderSearches(kept) \cup {new},
         ContactCallOK(new), ContactCallFits(new)',
         Saving(new) => \A e \in kept : ~Saving(e),
         \A e \in kept : Saving(e) => cardForm'.saving,
         UNCHANGED <<contactServer, muddled>>, book' \in Books, removing' \in ContactIds \cup {None},
         birthdays' \in BirthdayCals \cup {None}, cardForm' \in CardForms, FormIsOf',
         book'.rows # {} => book'.answers = book'.q
  PROVE  ContactsInv'
<1>1. \A e \in kept : e.op = "create" /\ e.stage = "sent" => contactServer'.next <= MaxContacts
  BY ContactsTyped DEF ContactCallFits
<1>2. PICK added : added = {new}
  OBVIOUS
<1>3. \A n \in added : ContactCallOK(n) /\ ContactCallFits(n)' /\ \A m \in added : m = n
  BY <1>2
<1>4. \A n \in added : Saving(n) => \A e \in kept : ~Saving(e)
  BY <1>2
<1>5. contactCalls' = kept \cup added \/ contactCalls' = OlderSearches(kept) \cup added
  BY <1>2
<1>6. (\A c \in contactCalls' : ContactCallOK(c) /\ ContactCallFits(c)') /\ OneSaved'
  BY <1>1, <1>3, <1>4, <1>5, ContactCallsKeep
<1>7. RowsAnswerBox'
  BY DEF ContactsInv, RowsAnswerBox
<1> QED
  BY <1>6, <1>7, ContactsTyped, ContactsKeep

\* The same without a new request.
LEMMA QuietKeeps ==
  ASSUME ContactsInv, NEW kept \in SUBSET contactCalls,
         contactCalls' = kept \/ contactCalls' = OlderSearches(kept),
         \A e \in kept : Saving(e) => cardForm'.saving,
         UNCHANGED contactServer, muddled' \in BOOLEAN, muddled => muddled',
         book' \in Books, removing' \in ContactIds \cup {None},
         birthdays' \in BirthdayCals \cup {None}, cardForm' \in CardForms, FormIsOf',
         book'.rows # {} => book'.answers = book'.q
  PROVE  ContactsInv'
<1>1. \A e \in kept : e.op = "create" /\ e.stage = "sent" => contactServer'.next <= MaxContacts
  BY ContactsTyped DEF ContactCallFits
<1>2. PICK added : added = {}
  OBVIOUS
<1>3. /\ \A n \in added : ContactCallOK(n) /\ ContactCallFits(n)' /\ \A m \in added : m = n
      /\ \A n \in added : Saving(n) => \A e \in kept : ~Saving(e)
      /\ contactCalls' = kept \cup added \/ contactCalls' = OlderSearches(kept) \cup added
  BY <1>2
<1>4. (\A c \in contactCalls' : ContactCallOK(c) /\ ContactCallFits(c)') /\ OneSaved'
  BY <1>1, <1>3, ContactCallsKeep
<1>5. RowsAnswerBox'
  BY DEF ContactsInv, RowsAnswerBox
<1> QED
  BY <1>4, <1>5, ContactsTyped, ContactsKeep

\* A step on the screen: no request changes.
LEMMA OnScreenKeeps ==
  ASSUME ContactsInv, UNCHANGED <<contactCalls, contactServer, birthdays>>,
         book' \in Books, cardForm' \in CardForms, removing' \in ContactIds \cup {None},
         muddled' \in BOOLEAN, muddled => muddled', cardForm'.saving = cardForm.saving,
         FormIsOf', book'.rows # {} => book'.answers = book'.q
  PROVE  ContactsInv'
<1>1. \A e \in contactCalls : Saving(e) => cardForm'.saving
  BY ContactsTyped DEF ContactCallFits
<1>2. contactCalls' = contactCalls /\ birthdays' \in BirthdayCals \cup {None}
  BY ContactsTyped
<1> QED
  BY <1>1, <1>2, QuietKeeps

LEMMA ShowsKeeps ==
  ASSUME ContactsInv, NEW id \in ContactIds \cup {0}, NEW card \in Cards \cup {None}, Shows(id, card)
  PROVE  ContactsInv'
<1>1. /\ cardForm' = [cardForm EXCEPT !.sel = id, !.card = card, !.from = id]
      /\ UNCHANGED <<book, removing, birthdays, contactCalls, contactServer>>
      /\ muddled' \in BOOLEAN /\ (muddled => muddled')
  BY DEF Shows
<1>2. cardForm' = [sel |-> id, card |-> card, from |-> id, saving |-> cardForm.saving]
  BY <1>1, ContactsTyped DEF CardForms
<1>3. cardForm' \in CardForms
  BY <1>2, ContactsTyped DEF CardForms
<1>4. FormIsOf' /\ cardForm'.saving = cardForm.saving
  BY <1>2 DEF FormIsOf
<1> QED
  BY <1>1, <1>3, <1>4, ContactsTyped, OnScreenKeeps DEF ContactsInv, RowsAnswerBox

LEMMA ScreenSteps ==
  ASSUME ContactsInv,
         \/ \E r \in book.rows : OpenContact(r)
         \/ NewContact \/ CancelContact \/ AskRemove
         \/ \E x \in Cards : TypeCard(x)
  PROVE  ContactsInv'
<1>0. book \in Books /\ cardForm \in CardForms /\ FormIsOf /\ (book.rows # {} => book.answers = book.q)
  BY DEF ContactsInv, ContactsTypeOK, RowsAnswerBox
<1>1. ASSUME NEW r \in book.rows, OpenContact(r) PROVE ContactsInv'
  <2>1. r.id \in ContactIds \cup {0} /\ r.card \in Cards \cup {None}
    BY <1>0 DEF Books, ContactRows
  <2> QED
    BY <1>1, <2>1, ShowsKeeps DEF OpenContact
<1>2. CASE NewContact
  <2>1. 0 \in ContactIds \cup {0} /\ None \in Cards \cup {None}
    OBVIOUS
  <2> QED
    BY <1>2, <2>1, ShowsKeeps DEF NewContact
<1>3. CASE CancelContact
  <2>1. /\ cardForm' = [cardForm EXCEPT !.sel = None]
        /\ UNCHANGED <<book, removing, birthdays, contactCalls, contactServer, muddled>>
    BY <1>3 DEF CancelContact
  <2>2. cardForm' \in CardForms /\ cardForm'.saving = cardForm.saving /\ cardForm'.sel = None
    BY <1>0, <2>1 DEF CardForms
  <2>3. FormIsOf'
    BY <2>2 DEF FormIsOf
  <2> QED
    BY <1>0, <2>1, <2>2, <2>3, ContactsTyped, OnScreenKeeps
<1>4. CASE AskRemove
  <2>1. /\ removing' = cardForm.sel /\ cardForm.sel \notin {None, 0}
        /\ UNCHANGED <<book, cardForm, birthdays, contactCalls, contactServer, muddled>>
    BY <1>4 DEF AskRemove
  <2>2. removing' \in ContactIds \cup {None}
    BY <1>0, <2>1 DEF CardForms
  <2>3. FormIsOf'
    BY <1>0, <2>1 DEF FormIsOf
  <2> QED
    BY <1>0, <2>1, <2>2, <2>3, ContactsTyped, OnScreenKeeps
<1>5. ASSUME NEW x \in Cards, TypeCard(x) PROVE ContactsInv'
  <2>1. /\ cardForm' = [cardForm EXCEPT !.card = x]
        /\ UNCHANGED <<book, removing, birthdays, contactCalls, contactServer, muddled>>
    BY <1>5 DEF TypeCard
  <2>2. /\ cardForm' \in CardForms /\ cardForm'.saving = cardForm.saving /\ cardForm'.sel = cardForm.sel
        /\ cardForm'.from = cardForm.from
    BY <1>0, <2>1 DEF CardForms
  <2>3. FormIsOf'
    BY <1>0, <2>1, <2>2 DEF FormIsOf
  <2> QED
    BY <1>0, <2>1, <2>2, <2>3, ContactsTyped, OnScreenKeeps
<1> QED
  BY <1>1, <1>2, <1>3, <1>4, <1>5

LEMMA SearchSteps ==
  ASSUME ContactsInv, SearchStarts \/ \E q \in Queries : TypeQuery(q)
  PROVE  ContactsInv'
<1>0. /\ book \in Books /\ cardForm \in CardForms /\ FormIsOf /\ (book.rows # {} => book.answers = book.q)
      /\ \A e \in contactCalls : Saving(e) => cardForm.saving
  BY ContactsTyped DEF ContactsInv, ContactsTypeOK, RowsAnswerBox, ContactCallFits
<1>1. CASE SearchStarts
  <2>1. PICK new : new = ContactCall("find", None, book.q, None)
    OBVIOUS
  <2>2. /\ book' = [book EXCEPT !.waiting = FALSE] /\ contactCalls' = OlderSearches(contactCalls) \cup {new}
        /\ UNCHANGED <<cardForm, removing, birthdays, contactServer, muddled>>
    BY <1>1, <2>1 DEF SearchStarts, Find
  <2>3. /\ book' \in Books /\ (book'.rows # {} => book'.answers = book'.q)
    BY <1>0, <2>2 DEF Books
  <2>4. book.q \in Queries
    BY <1>0 DEF Books
  <2>5. ContactCallOK(new) /\ new.op = "find" /\ new.then = None
    BY <2>1, <2>4, NewSearch
  <2>6. ~Saving(new) /\ ContactCallFits(new)'
    BY <2>5 DEF Saving, ContactCallFits
  <2>7. FormIsOf'
    BY <1>0, <2>2 DEF FormIsOf
  <2> QED
    BY <1>0, <2>2, <2>3, <2>5, <2>6, <2>7, ContactsTyped, AskingKeeps
<1>2. ASSUME NEW q \in Queries, TypeQuery(q) PROVE ContactsInv'
  <2>1. /\ book' = [book EXCEPT !.q = q, !.rows = {}, !.waiting = TRUE]
        /\ contactCalls' = OlderSearches(contactCalls)
        /\ UNCHANGED <<cardForm, removing, birthdays, contactServer, muddled>>
    BY <1>2 DEF TypeQuery
  <2>2. book' = [q |-> q, rows |-> {}, answers |-> book.answers, waiting |-> TRUE]
    BY <1>0, <2>1 DEF Books
  <2>3. book' \in Books /\ book'.rows = {}
    BY <1>0, <2>2 DEF Books
  <2>4. FormIsOf'
    BY <1>0, <2>1 DEF FormIsOf
  <2> QED
    BY <1>0, <2>1, <2>3, <2>4, ContactsTyped, QuietKeeps
<1> QED
  BY <1>1, <1>2

LEMMA SaveKeeps ==
  ASSUME ContactsInv, contactServer.next <= MaxContacts, SaveContactCard
  PROVE  ContactsInv'
<1>0. book \in Books /\ cardForm \in CardForms /\ FormIsOf /\ (book.rows # {} => book.answers = book.q)
  BY DEF ContactsInv, ContactsTypeOK, RowsAnswerBox
<1>1. PICK op, new : /\ op = IF cardForm.sel = 0 THEN "create" ELSE "patch"
                     /\ new = ContactCall(op, cardForm.sel, cardForm.card, cardForm.from)
  OBVIOUS
<1>2. /\ ~cardForm.saving /\ cardForm.sel # None /\ cardForm.card # None
      /\ cardForm' = [cardForm EXCEPT !.saving = TRUE] /\ contactCalls' = contactCalls \cup {new}
      /\ UNCHANGED <<book, removing, birthdays, contactServer, muddled>>
  BY <1>1 DEF SaveContactCard
<1>3. /\ cardForm' \in CardForms /\ cardForm'.saving /\ cardForm'.sel = cardForm.sel
      /\ cardForm'.from = cardForm.from
  BY <1>0, <1>2 DEF CardForms
<1>4. /\ cardForm.sel \in ContactIds \cup {0} /\ cardForm.card \in Cards /\ op \in {"create", "patch"}
      /\ cardForm.from \in ContactIds \cup {0, None}
      /\ op = "patch" => cardForm.sel \in ContactIds
  BY <1>0, <1>1, <1>2 DEF CardForms
<1>5. new = [op |-> op, id |-> cardForm.sel, arg |-> cardForm.card, then |-> cardForm.from, newest |-> TRUE,
             stage |-> "sent", got |-> {}]
  BY <1>1 DEF ContactCall
<1>6. /\ new.op = op /\ new.id = cardForm.sel /\ new.arg = cardForm.card /\ new.then = cardForm.from
      /\ new.stage = "sent"
  BY <1>5
<1>7. new \in [op: {"find", "create", "patch", "delete", "birthdays", "calendar"},
              id: ContactIds \cup {0, None}, arg: {new.arg}, then: {new.then}, newest: BOOLEAN,
              stage: {"sent", "done"}, got: SUBSET ContactRows]
  BY <1>4, <1>5, <1>6
<1>8. ContactCallOK(new)
  BY <1>4, <1>6, <1>7 DEF ContactCallOK
<1>9. new.op = "patch" => new.then = new.id \/ muddled
  BY <1>0, <1>1, <1>2, <1>6 DEF FormIsOf
<1>10. ContactCallFits(new)'
  BY <1>2, <1>3, <1>9 DEF ContactCallFits
<1>11. \A e \in contactCalls : ~Saving(e)
  BY <1>2, ContactsTyped DEF ContactCallFits
<1>12. FormIsOf'
  BY <1>0, <1>2, <1>3 DEF FormIsOf
<1> QED
  BY <1>0, <1>2, <1>3, <1>8, <1>10, <1>11, <1>12, ContactsTyped, AskingKeeps

LEMMA RemoveAndBirthdaySteps ==
  ASSUME ContactsInv, \/ \E yes \in BOOLEAN : RemoveConfirmed(yes)
                      \/ \E cal \in BirthdayCals \cup {None} : ChooseBirthdays(cal)
  PROVE  ContactsInv'
<1>0. /\ book \in Books /\ cardForm \in CardForms /\ FormIsOf /\ (book.rows # {} => book.answers = book.q)
      /\ \A e \in contactCalls : Saving(e) => cardForm.saving
  BY ContactsTyped DEF ContactsInv, ContactsTypeOK, RowsAnswerBox, ContactCallFits
<1>1. ASSUME NEW yes \in BOOLEAN, RemoveConfirmed(yes) PROVE ContactsInv'
  <2>1. PICK new : new = ContactCall("delete", removing, None, None)
    OBVIOUS
  <2>2. /\ removing' = None
        /\ contactCalls' = contactCalls \cup {new} \/ contactCalls' = contactCalls
        /\ UNCHANGED <<book, cardForm, birthdays, contactServer, muddled>>
    BY <1>1, <2>1 DEF RemoveConfirmed
  <2>3. removing \in ContactIds \cup {0, None}
    BY ContactsTyped
  <2>4. ContactCallOK(new) /\ new.op = "delete"
    BY <2>1, <2>3, NewContactCall DEF ContactCallOK
  <2>5. ~Saving(new) /\ ContactCallFits(new)'
    BY <2>4 DEF Saving, ContactCallFits
  <2>6. FormIsOf'
    BY <1>0, <2>2 DEF FormIsOf
  <2>7. CASE contactCalls' = contactCalls \cup {new}
    BY <1>0, <2>2, <2>4, <2>5, <2>6, <2>7, ContactsTyped, AskingKeeps
  <2>8. CASE contactCalls' = contactCalls
    BY <1>0, <2>2, <2>6, <2>8, ContactsTyped, QuietKeeps
  <2> QED
    BY <2>2, <2>7, <2>8
<1>2. ASSUME NEW cal \in BirthdayCals \cup {None}, ChooseBirthdays(cal) PROVE ContactsInv'
  <2>1. PICK new : new = ContactCall("birthdays", None, cal, None)
    OBVIOUS
  <2>2. /\ birthdays' = cal /\ contactCalls' = contactCalls \cup {new}
        /\ UNCHANGED <<book, cardForm, removing, contactServer, muddled>>
    BY <1>2, <2>1 DEF ChooseBirthdays
  <2>3. None \in ContactIds \cup {0, None}
    OBVIOUS
  <2>4. ContactCallOK(new) /\ new.op = "birthdays"
    BY <2>1, <2>3, NewContactCall DEF ContactCallOK
  <2>5. ~Saving(new) /\ ContactCallFits(new)'
    BY <2>4 DEF Saving, ContactCallFits
  <2>6. FormIsOf'
    BY <1>0, <2>2 DEF FormIsOf
  <2> QED
    BY <1>0, <2>2, <2>4, <2>5, <2>6, ContactsTyped, AskingKeeps
<1> QED
  BY <1>1, <1>2

\* The server changes the rows of the contact it is asked about.
LEMMA ServedContacts ==
  ASSUME ContactsInv, NEW c \in contactCalls, ContactServerDoes(c)
  PROVE  /\ contactServer' \in ContactServers /\ (contactServer'.mixed => muddled)
         /\ contactServer'.next # contactServer.next => c.op = "create"
<1>1. /\ ContactCallOK(c) /\ ContactCallFits(c) /\ c.stage = "sent"
      /\ contactServer \in ContactServers /\ (contactServer.mixed => muddled)
  BY ContactsTyped DEF ContactServerDoes, ContactsInv, RowsAnswerBox
<1>2. CASE c.op = "create"
  <2>1. PICK rows : rows = contactServer.rows \cup {[id |-> contactServer.next, card |-> c.arg]}
    OBVIOUS
  <2>2. contactServer' = [contactServer EXCEPT !.next = contactServer.next + 1, !.rows = rows]
    BY <1>2, <2>1 DEF ContactServerDoes
  <2>3. contactServer.next \in ContactIds /\ contactServer.next + 1 \in 1 .. MaxContacts + 1
    BY <1>1, <1>2, ContactsAssumption DEF ContactCallFits, ContactServers, ContactIds
  <2>4. c.arg \in Cards
    BY <1>1, <1>2 DEF ContactCallOK
  <2>5. [id |-> contactServer.next, card |-> c.arg] \in ContactRows
    BY <2>3, <2>4 DEF ContactRows
  <2>6. rows \in SUBSET ContactRows
    BY <1>1, <2>1, <2>5 DEF ContactServers
  <2>7. contactServer' \in ContactServers /\ (contactServer'.mixed => muddled)
    BY <1>1, <2>2, <2>3, <2>6 DEF ContactServers
  <2> QED
    BY <1>2, <2>7
<1>3. CASE c.op = "patch"
  <2>1. PICK rows, mixed : /\ rows = {r \in contactServer.rows : r.id # c.id} \cup {[id |-> c.id, card |-> c.arg]}
                           /\ mixed = (contactServer.mixed \/ Foreign(c))
    OBVIOUS
  <2>2. contactServer' = [contactServer EXCEPT !.mixed = mixed, !.rows = rows]
    BY <1>3, <2>1 DEF ContactServerDoes
  <2>3. [id |-> c.id, card |-> c.arg] \in ContactRows
    BY <1>1, <1>3 DEF ContactCallOK, ContactRows
  <2>4. rows \in SUBSET ContactRows
    BY <1>1, <2>1, <2>3 DEF ContactServers
  <2>5. mixed \in BOOLEAN /\ (mixed => muddled)
    BY <1>1, <1>3, <2>1 DEF ContactCallFits, Foreign
  <2>6. /\ contactServer' \in ContactServers /\ (contactServer'.mixed => muddled)
        /\ contactServer'.next = contactServer.next
    BY <1>1, <2>2, <2>4, <2>5 DEF ContactServers
  <2> QED
    BY <2>6
<1>4. CASE c.op = "delete"
  <2>1. PICK rows : rows = {r \in contactServer.rows : r.id # c.id}
    OBVIOUS
  <2>2. contactServer' = [contactServer EXCEPT !.rows = rows]
    BY <1>4, <2>1 DEF ContactServerDoes
  <2>3. rows \in SUBSET ContactRows
    BY <1>1, <2>1 DEF ContactServers
  <2> QED
    BY <1>1, <2>2, <2>3 DEF ContactServers
<1>5. CASE c.op = "birthdays"
  <2>1. contactServer' = [contactServer EXCEPT !.cal = c.arg] /\ c.arg \in BirthdayCals \cup {None}
    BY <1>1, <1>5 DEF ContactServerDoes, ContactCallOK
  <2> QED
    BY <1>1, <2>1 DEF ContactServers
<1>6. CASE c.op \notin {"create", "patch", "delete", "birthdays"}
  <2>1. contactServer' = contactServer
    BY <1>6 DEF ContactServerDoes
  <2> QED
    BY <1>1, <2>1
<1> QED
  BY <1>2, <1>3, <1>4, <1>5, <1>6

LEMMA ContactServerKeeps ==
  ASSUME ContactsInv, NEW c \in contactCalls, ContactServerDoes(c)
  PROVE  ContactsInv'
<1>1. /\ ContactCallOK(c) /\ ContactCallFits(c) /\ c.stage = "sent"
      /\ UNCHANGED <<book, cardForm, removing, birthdays, muddled>>
  BY ContactsTyped DEF ContactServerDoes
<1>2. PICK id, got, new, kept, added :
        /\ id = IF c.op = "create" THEN contactServer.next ELSE c.id
        /\ got = IF c.op = "find" THEN {r \in contactServer.rows : r.card \in Finds[c.arg]} ELSE {}
        /\ new = [c EXCEPT !.stage = "done", !.id = id, !.got = got]
        /\ kept = contactCalls \ {c} /\ added = {new}
  OBVIOUS
<1>3. contactCalls' = kept \cup added
  BY <1>2 DEF ContactServerDoes
<1>4. got \in SUBSET ContactRows
  BY <1>2, ContactsTyped DEF ContactServers
<1>5. id \in ContactIds \cup {0, None} /\ (c.op \in {"create", "patch"} => id \in ContactIds)
  <2>1. CASE c.op = "create"
    <3>1. contactServer.next \in 1 .. MaxContacts + 1 /\ contactServer.next <= MaxContacts
      BY <1>1, <2>1, ContactsTyped DEF ContactServers, ContactCallFits
    <3> QED
      BY <1>2, <2>1, <3>1, ContactsAssumption DEF ContactIds
  <2>2. CASE c.op # "create"
    BY <1>1, <1>2, <2>2 DEF ContactCallOK
  <2> QED
    BY <2>1, <2>2
<1>6. new = [op |-> c.op, id |-> id, arg |-> c.arg, then |-> c.then, newest |-> c.newest,
             stage |-> "done", got |-> got]
  BY <1>1, <1>2 DEF ContactCallOK
<1>7. /\ new.op = c.op /\ new.id = id /\ new.arg = c.arg /\ new.then = c.then /\ new.stage = "done"
  BY <1>6
<1>8. new \in [op: {"find", "create", "patch", "delete", "birthdays", "calendar"},
              id: ContactIds \cup {0, None}, arg: {new.arg}, then: {new.then}, newest: BOOLEAN,
              stage: {"sent", "done"}, got: SUBSET ContactRows]
  BY <1>1, <1>4, <1>5, <1>6, <1>7 DEF ContactCallOK
<1>9. ContactCallOK(new)
  BY <1>1, <1>5, <1>7, <1>8 DEF ContactCallOK
<1>10. Saving(new) <=> Saving(c)
  BY <1>7 DEF Saving
<1>11. ContactCallFits(new)'
  <2>1. Saving(new)' => cardForm'.saving
    BY <1>1, <1>10 DEF ContactCallFits, Saving
  <2>2. new.op = "patch" => new.then = new.id \/ muddled'
    BY <1>1, <1>2, <1>7 DEF ContactCallFits
  <2> QED
    BY <1>7, <2>1, <2>2 DEF ContactCallFits
<1>12. /\ \A n \in added : ContactCallOK(n) /\ ContactCallFits(n)' /\ \A m \in added : m = n
       /\ \A n \in added : Saving(n) => \A e \in kept : ~Saving(e)
  BY <1>2, <1>9, <1>10, <1>11 DEF ContactsInv, OneSaved
<1>13. \A e \in kept : Saving(e) => cardForm'.saving
  BY <1>1, <1>2, ContactsTyped DEF ContactCallFits
<1>14. \A e \in kept : e.op = "create" /\ e.stage = "sent" => contactServer'.next <= MaxContacts
  <2>1. CASE c.op = "create"
    BY <1>2, <2>1 DEF ContactsInv, OneSaved, Saving
  <2>2. CASE c.op # "create"
    BY <1>2, <2>2, ContactsTyped, ServedContacts DEF ContactCallFits
  <2> QED
    BY <2>1, <2>2
<1>15. (\A d \in contactCalls' : ContactCallOK(d) /\ ContactCallFits(d)') /\ OneSaved'
  <2>1. kept \in SUBSET contactCalls
    BY <1>2
  <2> QED
    BY <1>1, <1>3, <1>12, <1>13, <1>14, <2>1, ContactCallsKeep
<1>16. FormIsOf' /\ RowsAnswerBox'
  BY <1>1, ServedContacts DEF ContactsInv, FormIsOf, RowsAnswerBox
<1> QED
  BY <1>1, <1>15, <1>16, ContactsTyped, ServedContacts, ContactsKeep

LEMMA FoundKeeps ==
  ASSUME ContactsInv, NEW c \in contactCalls, NEW ok \in BOOLEAN, Found(c, ok)
  PROVE  ContactsInv'
<1>0. /\ book \in Books /\ cardForm \in CardForms /\ FormIsOf /\ (book.rows # {} => book.answers = book.q)
      /\ ContactCallOK(c) /\ ContactCallFits(c)
  BY ContactsTyped DEF ContactsInv, RowsAnswerBox
<1>1. /\ c.op = "find" /\ contactCalls' = contactCalls \ {c}
      /\ UNCHANGED <<removing, birthdays, contactServer, muddled>>
  BY DEF Found
<1>2. book' \in Books /\ (book'.rows # {} => book'.answers = book'.q)
  <2>1. CASE ok /\ Fresh(c)
    <3>1. book' = [book EXCEPT !.rows = c.got, !.answers = c.arg] /\ c.arg = book.q
      BY <2>1 DEF Found, Fresh
    <3>2. book' = [q |-> book.q, rows |-> c.got, answers |-> book.q, waiting |-> book.waiting]
      BY <1>0, <3>1 DEF Books
    <3>3. c.got \in SUBSET ContactRows
      BY <1>0 DEF ContactCallOK
    <3> QED
      BY <1>0, <3>2, <3>3 DEF Books
  <2>2. CASE ~(ok /\ Fresh(c))
    BY <1>0, <2>2 DEF Found
  <2> QED
    BY <2>1, <2>2
<1>3. CASE c.then = None
  <2>1. cardForm' = cardForm
    BY <1>3 DEF Found
  <2>2. FormIsOf'
    BY <1>0, <1>1, <2>1 DEF FormIsOf
  <2>3. \A e \in contactCalls \ {c} : Saving(e) => cardForm'.saving
    BY <2>1, ContactsTyped DEF ContactCallFits
  <2> QED
    BY <1>0, <1>1, <1>2, <2>1, <2>2, <2>3, ContactsTyped, QuietKeeps
<1>4. CASE c.then # None
  <2>1. PICK sel, from : /\ sel = IF c.then.new THEN c.then.id ELSE cardForm.sel
                         /\ from = IF c.then.new /\ ~muddled THEN c.then.id ELSE cardForm.from
    OBVIOUS
  <2>2. cardForm' = [cardForm EXCEPT !.saving = FALSE, !.sel = sel, !.from = from]
    BY <1>4, <2>1 DEF Found
  <2>3. cardForm' = [sel |-> sel, card |-> cardForm.card, from |-> from, saving |-> FALSE]
    BY <1>0, <2>2 DEF CardForms
  <2>4. c.then.id \in ContactIds
    BY <1>0, <1>1, <1>4 DEF ContactCallOK
  <2>5. sel \in ContactIds \cup {0, None} /\ from \in ContactIds \cup {0, None}
    BY <1>0, <2>1, <2>4 DEF CardForms
  <2>6. cardForm' \in CardForms
    BY <1>0, <2>3, <2>5 DEF CardForms
  <2>7. cardForm'.sel = sel /\ cardForm'.from = from
    BY <2>3
  <2>8. FormIsOf'
    BY <1>0, <1>1, <2>1, <2>7 DEF FormIsOf
  <2>9. \A e \in contactCalls \ {c} : ~Saving(e)
    BY <1>1, <1>4 DEF ContactsInv, OneSaved, Saving
  <2> QED
    BY <1>1, <1>2, <2>6, <2>8, <2>9, ContactsTyped, QuietKeeps
<1> QED
  BY <1>3, <1>4

LEMMA ContactAnswersKeeps ==
  ASSUME ContactsInv, NEW c \in contactCalls, ContactAnswers(c)
  PROVE  ContactsInv'
<1>0. /\ book \in Books /\ cardForm \in CardForms /\ FormIsOf /\ (book.rows # {} => book.answers = book.q)
      /\ ContactCallOK(c) /\ ContactCallFits(c) /\ book.q \in Queries
      /\ \A e \in contactCalls : Saving(e) => cardForm.saving
  BY ContactsTyped DEF ContactsInv, RowsAnswerBox, Books, ContactCallFits
<1>1. c.stage = "done" /\ UNCHANGED <<book, removing, contactServer, muddled>>
  BY DEF ContactAnswers
<1>2. CASE c.op \in {"create", "patch"}
  <2>1. PICK then, new : /\ then = [id |-> c.id, new |-> c.op = "create"]
                         /\ new = ContactCall("find", None, book.q, then)
    OBVIOUS
  <2>2. contactCalls' = OlderSearches(contactCalls \ {c}) \cup {new} /\ UNCHANGED <<cardForm, birthdays>>
    BY <1>2, <2>1 DEF ContactAnswers, Find
  <2>3. c.id \in ContactIds
    BY <1>0, <1>1, <1>2 DEF ContactCallOK
  <2>4. then \in [id: ContactIds, new: BOOLEAN]
    BY <2>1, <2>3
  <2>5. ContactCallOK(new) /\ new.op = "find" /\ new.then = then
    <3>1. (then # None => then \in [id: ContactIds, new: BOOLEAN]) /\ book.q \in Queries
      BY <1>0, <2>4
    <3>2. new = ContactCall("find", None, book.q, then)
      BY <2>1
    <3> QED
      BY <3>1, <3>2, NewSearch
  <2>6. Saving(c) /\ cardForm.saving /\ \A e \in contactCalls \ {c} : ~Saving(e)
    BY <1>0, <1>2 DEF ContactsInv, OneSaved, Saving
  <2>7. ContactCallFits(new)'
    BY <2>2, <2>5, <2>6 DEF ContactCallFits
  <2>8. FormIsOf'
    BY <1>0, <1>1, <2>2 DEF FormIsOf
  <2> QED
    BY <1>0, <1>1, <2>2, <2>5, <2>6, <2>7, <2>8, ContactsTyped, AskingKeeps
<1>3. CASE c.op = "delete"
  <2>1. PICK new : new = ContactCall("find", None, book.q, None)
    OBVIOUS
  <2>2. /\ contactCalls' = OlderSearches(contactCalls \ {c}) \cup {new}
        /\ cardForm' = [cardForm EXCEPT !.sel = None] /\ UNCHANGED birthdays
    BY <1>3, <2>1 DEF ContactAnswers, Find
  <2>3. ContactCallOK(new) /\ new.op = "find" /\ new.then = None
    BY <1>0, <2>1, NewSearch
  <2>4. ~Saving(new) /\ ContactCallFits(new)'
    BY <2>3 DEF Saving, ContactCallFits
  <2>5. cardForm' \in CardForms /\ cardForm'.saving = cardForm.saving /\ cardForm'.sel = None
    BY <1>0, <2>2 DEF CardForms
  <2>6. FormIsOf'
    BY <2>5 DEF FormIsOf
  <2> QED
    BY <1>0, <1>1, <2>2, <2>3, <2>4, <2>5, <2>6, ContactsTyped, AskingKeeps
<1>4. CASE c.op \notin {"create", "patch", "delete"}
  <2>1. contactCalls' = contactCalls \ {c} /\ UNCHANGED cardForm
    BY <1>4 DEF ContactAnswers
  <2>2. birthdays' \in BirthdayCals \cup {None}
    BY <1>4, ContactsTyped DEF ContactAnswers, ContactServers
  <2>3. FormIsOf'
    BY <1>0, <1>1, <2>1 DEF FormIsOf
  <2> QED
    BY <1>0, <1>1, <2>1, <2>2, <2>3, ContactsTyped, QuietKeeps
<1> QED
  BY <1>2, <1>3, <1>4

LEMMA ContactFailsKeeps ==
  ASSUME ContactsInv, NEW c \in contactCalls, ContactFails(c)
  PROVE  ContactsInv'
<1>0. /\ book \in Books /\ cardForm \in CardForms /\ FormIsOf /\ (book.rows # {} => book.answers = book.q)
      /\ \A e \in contactCalls : Saving(e) => cardForm.saving
  BY ContactsTyped DEF ContactsInv, RowsAnswerBox, ContactCallFits
<1>1. contactCalls' = contactCalls \ {c} /\ UNCHANGED <<book, removing, birthdays, contactServer, muddled>>
  BY DEF ContactFails
<1>2. CASE c.op \in {"create", "patch"}
  <2>1. cardForm' = [cardForm EXCEPT !.saving = FALSE]
    BY <1>2 DEF ContactFails
  <2>2. cardForm' \in CardForms /\ cardForm'.sel = cardForm.sel /\ cardForm'.from = cardForm.from
    BY <1>0, <2>1 DEF CardForms
  <2>3. FormIsOf'
    BY <1>0, <1>1, <2>2 DEF FormIsOf
  <2>4. \A e \in contactCalls \ {c} : ~Saving(e)
    BY <1>2 DEF ContactsInv, OneSaved, Saving
  <2> QED
    BY <1>0, <1>1, <2>2, <2>3, <2>4, ContactsTyped, QuietKeeps
<1>3. CASE c.op \notin {"create", "patch"}
  <2>1. UNCHANGED cardForm
    BY <1>3 DEF ContactFails
  <2>2. FormIsOf'
    BY <1>0, <1>1, <2>1 DEF FormIsOf
  <2> QED
    BY <1>0, <1>1, <2>1, <2>2, ContactsTyped, QuietKeeps
<1> QED
  BY <1>2, <1>3

LEMMA ContactsStep ==
  ASSUME ContactsInv, ContactsNext \/ UNCHANGED contactVars
  PROVE  ContactsInv'
<1>1. CASE ContactsUser
  BY <1>1, ScreenSteps, SearchSteps, SaveKeeps, RemoveAndBirthdaySteps DEF ContactsUser
<1>2. ASSUME NEW c \in contactCalls, ContactFails(c) \/ Found(c, FALSE) PROVE ContactsInv'
  BY <1>2, ContactFailsKeeps, FoundKeeps
<1>3. ASSUME NEW c \in contactCalls, ContactServerDoes(c) \/ Found(c, TRUE) \/ ContactAnswers(c) PROVE ContactsInv'
  BY <1>3, ContactServerKeeps, FoundKeeps, ContactAnswersKeeps
<1>4. CASE SearchStarts \/ \E yes \in BOOLEAN : RemoveConfirmed(yes)
  BY <1>4, SearchSteps, RemoveAndBirthdaySteps
<1>5. CASE UNCHANGED contactVars
  BY <1>5 DEF contactVars, ContactsInv, ContactsTypeOK, RowsAnswerBox, FormIsOf, OneSaved, ContactCallFits,
              Saving, ContactCallOK
<1> QED
  BY <1>1, <1>2, <1>3, <1>4, <1>5 DEF ContactsNext, ByUser, ByFault, ByItself
-----------------------------------------------------------------------------
(* Signing in: the second factor the server asks for is the authenticator's    *)

TotpForms == {"setup", "enable", "disable"}
LoginOps == {"first", "login", "code"}

\* A call that changes what App shows is alone of its kind, and what is shown is
\* what it was sent from.
ScreensFit ==
    \A c \in authCalls :
        /\ c.op = "me" => app.shows = "loading" /\ \A d \in authCalls : d.op = "me" => d = c
        /\ c.op = "logout" => app.shows = "app" /\ \A d \in authCalls : d.op = "logout" => d = c
        /\ c.op \in LoginOps => /\ app.shows = "login" /\ app.busy
                                /\ \A d \in authCalls : d.op \in LoginOps => d = c
\* The dialog of the second factor waits for one answer at a time; a set-up under
\* way shows no secret yet.
OneFormWaits ==
    \A c \in authCalls :
        /\ c.op = "status" /\ c.mine => totp # None
        /\ c.op \in TotpForms /\ c.mine =>
              /\ totp # None /\ totp.busy
              /\ c.op = "setup" => totp.setup = None
              /\ \A d \in authCalls : d.op \in TotpForms /\ d.mine => d = c
\* Secrets grow: one that the dialog shows or is about to show is at most the
\* server's and at least the one scanned last, which is at least any code sent.
BetweenScanAndServer(s) ==
    /\ s \in Nat /\ s <= authServer.serial
    /\ authServer.secret # None => s <= authServer.secret
    /\ device # None => device <= s
SecretsGrow ==
    /\ authServer.secret # None => authServer.secret <= authServer.serial
    /\ device # None => /\ device <= authServer.serial
                        /\ authServer.secret # None => device <= authServer.secret
    /\ totp # None /\ totp.setup # None => BetweenScanAndServer(totp.setup)
    /\ \A c \in authCalls : c.op = "setup" /\ c.mine /\ c.stage = "done" => BetweenScanAndServer(c.out)
    /\ \A c \in authCalls : c.op = "enable" /\ c.arg # None =>
          device # None /\ c.arg \in Nat /\ c.arg <= device
\* What a handler read still holds when it writes, unless another ran meanwhile.
ReadStillHolds ==
    /\ \A c \in authCalls : c.stage = "read" => c.op \in SignInForms
    /\ ~overlap =>
          /\ authServer.enabled => authServer.secret # None /\ device = authServer.secret
          /\ \A c \in authCalls : c.stage = "read" =>
                /\ c.op \in {"setup", "enable"} => ~authServer.enabled
                /\ c.op = "enable" => authServer.secret # None /\ c.arg = authServer.secret
                /\ \A d \in authCalls : d.stage = "read" => d = c
SignInInv == SignInTypeOK /\ ScreensFit /\ OneFormWaits /\ SecretsGrow /\ ReadStillHolds

AuthRecord(c) ==
    c \in [op: AuthOps, arg: {c.arg}, cookie: Tokens, mine: BOOLEAN,
           stage: {"sent", "read", "done", "refused", "challenged"}, out: Tokens]
AppRecords == [shows: {"loading", "login", "app"}, busy: BOOLEAN, password: BOOLEAN]
LoginRecords == [needsSetup: {None, TRUE, FALSE}, challenge: Tokens]

LEMMA AuthCallFields ==
  ASSUME NEW op \in AuthOps, NEW arg, cookie \in Tokens
  PROVE  /\ AuthRecord(AuthCall(op, arg)) /\ AuthCall(op, arg).op = op
         /\ AuthCall(op, arg).arg = arg /\ AuthCall(op, arg).mine = TRUE
         /\ AuthCall(op, arg).stage = "sent" /\ AuthCall(op, arg).out = None
  BY DEF AuthRecord, AuthCall, Tokens

LEMMA SignInTyped ==
  ASSUME SignInInv
  PROVE  /\ app \in AppRecords /\ login \in LoginRecords /\ totp \in TotpDialogs \cup {None}
         /\ device \in Tokens /\ cookie \in Tokens /\ overlap \in BOOLEAN
         /\ \A c \in authCalls : AuthRecord(c)
         /\ (totp # None => app.shows = "app")
  BY DEF SignInInv, SignInTypeOK, AppRecords, LoginRecords, AuthRecord

LEMMA SignInTypes ==
  ASSUME SignInInv, app' \in AppRecords, login' \in LoginRecords, totp' \in TotpDialogs \cup {None},
         totp' # None => app'.shows = "app", device' \in Tokens, cookie' \in Tokens,
         overlap' \in BOOLEAN, UNCHANGED authServer, \A c \in authCalls' : AuthRecord(c)
  PROVE  SignInTypeOK'
  BY DEF SignInInv, SignInTypeOK, AppRecords, LoginRecords, AuthRecord

\* What a call is after a step on the screen: sent just now, with the authenticator's
\* code if with any, or one that was under way.
SentNow(e) == e.stage = "sent" /\ (e.op = "enable" /\ e.arg # None => e.arg = device)
Continues(e, c) == /\ e.op = c.op /\ e.arg = c.arg /\ e.stage = c.stage /\ e.out = c.out
                   /\ e.mine => c.mine

\* A step on the screen leaves secrets and handlers alone.
LEMMA ScreenKeeps ==
  ASSUME SignInInv, UNCHANGED <<device, authServer, overlap>>, SignInTypeOK', ScreensFit', OneFormWaits',
         \A e \in authCalls' : SentNow(e) \/ \E c \in authCalls : Continues(e, c),
         \A d, e \in authCalls' : ~overlap /\ d.stage = "read" /\ e.stage = "read" => d = e,
         totp' # None /\ totp'.setup # None => BetweenScanAndServer(totp'.setup)
  PROVE  SignInInv'
<1>1. device \in Tokens
  BY SignInTyped
<1>2. SecretsGrow'
  <2>1. /\ authServer.secret # None => authServer.secret <= authServer.serial
        /\ device # None => /\ device <= authServer.serial
                            /\ authServer.secret # None => device <= authServer.secret
    BY DEF SignInInv, SecretsGrow
  <2>2. ASSUME NEW e \in authCalls', e.op = "setup", e.mine, e.stage = "done"
        PROVE  BetweenScanAndServer(e.out)
    <3>1. PICK c \in authCalls : Continues(e, c)
      BY <2>2 DEF SentNow
    <3> QED
      BY <2>2, <3>1 DEF Continues, SignInInv, SecretsGrow
  <2>3. ASSUME NEW e \in authCalls', e.op = "enable", e.arg # None
        PROVE  device # None /\ e.arg \in Nat /\ e.arg <= device
    <3>1. CASE SentNow(e)
      BY <1>1, <2>3, <3>1 DEF SentNow, Tokens
    <3>2. ASSUME NEW c \in authCalls, Continues(e, c)
          PROVE  device # None /\ e.arg \in Nat /\ e.arg <= device
      BY <2>3, <3>2 DEF Continues, SignInInv, SecretsGrow
    <3> QED
      BY <3>1, <3>2
  <2>4. /\ totp' # None /\ totp'.setup # None => BetweenScanAndServer(totp'.setup)
        /\ \A s : BetweenScanAndServer(s)' <=> BetweenScanAndServer(s)
    BY DEF BetweenScanAndServer
  <2> QED
    BY <2>1, <2>2, <2>3, <2>4 DEF SecretsGrow, BetweenScanAndServer
<1>3. ReadStillHolds'
  <2>1. ASSUME NEW e \in authCalls', e.stage = "read"
        PROVE  \E c \in authCalls : c.stage = "read" /\ c.op = e.op /\ c.arg = e.arg
    BY <2>1 DEF SentNow, Continues
  <2>2. ~overlap => (authServer.enabled => authServer.secret # None /\ device = authServer.secret)
    BY DEF SignInInv, ReadStillHolds
  <2>3. ASSUME NEW e \in authCalls', e.stage = "read"
        PROVE  /\ e.op \in SignInForms
               /\ ~overlap => /\ e.op \in {"setup", "enable"} => ~authServer.enabled
                              /\ e.op = "enable" => authServer.secret # None /\ e.arg = authServer.secret
    BY <2>1, <2>3 DEF SignInInv, ReadStillHolds
  <2> QED
    BY <2>2, <2>3 DEF ReadStillHolds
<1> QED
  BY <1>2, <1>3 DEF SignInInv

\* Sending one request, with nothing changed in the dialog of the second factor.
LEMMA AuthSendKeeps ==
  ASSUME SignInInv, NEW op \in LoginOps \cup {"logout", "password"}, NEW arg,
         authCalls' = authCalls \cup {AuthCall(op, arg)},
         UNCHANGED <<login, totp, device, cookie, authServer, overlap>>,
         app' \in AppRecords, app'.shows = app.shows, app.busy => app'.busy,
         op \in LoginOps => app.shows = "login" /\ ~app.busy /\ app'.busy,
         op = "logout" => app.shows = "app" /\ ~Pending("logout")
  PROVE  SignInInv'
<1> DEFINE new == AuthCall(op, arg)
<1>0. op \in AuthOps /\ op \notin {"me", "status"} \cup TotpForms
  BY DEF AuthOps, SignInForms, LoginOps, TotpForms
<1>1. AuthRecord(new) /\ new.op = op /\ new.mine = TRUE /\ new.stage = "sent"
  BY <1>0, AuthCallFields, SignInTyped
<1>a. authCalls' = authCalls \cup {new}
  OBVIOUS
<1> HIDE DEF new
<1>2. SignInTypeOK'
  BY <1>1, <1>a, SignInTypes, SignInTyped
<1>3. ScreensFit'
  <2>1. \A c \in authCalls : c.op \in LoginOps => app.busy
    BY DEF SignInInv, ScreensFit
  <2>2. \A c \in authCalls : op = "logout" => c.op # "logout"
    BY DEF Pending
  <2>3. \A c \in authCalls : op \in LoginOps => c.op \notin LoginOps
    BY <2>1
  <2>4. "logout" \notin LoginOps /\ "me" \notin LoginOps
    BY DEF LoginOps
  <2> QED
    BY <1>0, <1>1, <1>a, <2>2, <2>3, <2>4 DEF SignInInv, ScreensFit
<1>4. OneFormWaits'
  BY <1>0, <1>1, <1>a DEF SignInInv, OneFormWaits
<1>5. \A e \in authCalls' : SentNow(e) \/ \E c \in authCalls : Continues(e, c)
  BY <1>0, <1>1, <1>a DEF SentNow, Continues, TotpForms
<1>6. \A d, e \in authCalls' : ~overlap /\ d.stage = "read" /\ e.stage = "read" => d = e
  BY <1>1, <1>a DEF SignInInv, ReadStillHolds
<1>7. totp' # None /\ totp'.setup # None => BetweenScanAndServer(totp'.setup)
  BY DEF SignInInv, SecretsGrow
<1> QED
  BY <1>2, <1>3, <1>4, <1>5, <1>6, <1>7, ScreenKeeps

LEMMA SubmitKeeps ==
  ASSUME SignInInv, NEW right \in BOOLEAN,
         Submit(right) \/ SubmitCode(right) \/ SignOut \/ ChangePassword(right)
  PROVE  SignInInv'
<1>1. app \in AppRecords
  BY SignInTyped
<1>2. CASE Submit(right)
  BY <1>1, <1>2, AuthSendKeeps DEF Submit, SendAuth, LoginShown, LoginOps, AppRecords
<1>3. CASE SubmitCode(right)
  <2> DEFINE code == [challenge |-> login.challenge, of |-> IF right THEN device ELSE None]
  <2>1. /\ authCalls' = authCalls \cup {AuthCall("code", code)} /\ app' = [app EXCEPT !.busy = TRUE]
        /\ app.shows = "login" /\ ~app.busy /\ UNCHANGED <<login, totp, device, cookie, authServer, overlap>>
    BY <1>3 DEF SubmitCode, SendAuth, LoginShown
  <2> HIDE DEF code
  <2> QED
    BY <1>1, <2>1, AuthSendKeeps DEF LoginOps, AppRecords
<1>4. CASE SignOut
  BY <1>1, <1>4, AuthSendKeeps DEF SignOut, SendAuth, InApp, LoginOps
<1>5. CASE ChangePassword(right)
  BY <1>1, <1>5, AuthSendKeeps DEF ChangePassword, SendAuth, LoginOps
<1> QED
  BY <1>2, <1>3, <1>4, <1>5

\* Steps that send nothing.
LEMMA SilentKeeps ==
  ASSUME SignInInv, UNCHANGED <<device, cookie, authCalls, authServer, overlap>>,
         app' \in AppRecords, app'.shows = app.shows, app'.busy = app.busy, login' \in LoginRecords,
         \/ totp' = totp
         \/ totp # None /\ totp' = [totp EXCEPT !.setup = None]
  PROVE  SignInInv'
<1>1. totp' \in TotpDialogs \cup {None}
  BY SignInTyped DEF TotpDialogs, Tokens
<1>2. totp # None => totp' # None /\ totp'.busy = totp.busy /\ totp'.setup \in {totp.setup, None}
  <2>1. totp # None => totp \in TotpDialogs
    BY SignInTyped
  <2>2. totp # None => /\ totp' \in TotpDialogs /\ totp'.busy = totp.busy
                       /\ totp'.setup \in {totp.setup, None}
    BY <2>1 DEF TotpDialogs, Tokens
  <2> QED
    BY <2>2, SignInAssumption
<1>3. totp' # None => totp # None
  OBVIOUS
<1>4. SignInTypeOK'
  BY <1>1, <1>3, SignInTypes, SignInTyped
<1>5. ScreensFit' /\ OneFormWaits'
  BY <1>2 DEF SignInInv, ScreensFit, OneFormWaits
<1>6. \A e \in authCalls' : SentNow(e) \/ \E c \in authCalls : Continues(e, c)
  BY DEF Continues
<1>7. \A d, e \in authCalls' : ~overlap /\ d.stage = "read" /\ e.stage = "read" => d = e
  BY DEF SignInInv, ReadStillHolds
<1>8. totp' # None /\ totp'.setup # None => BetweenScanAndServer(totp'.setup)
  BY <1>2, <1>3 DEF SignInInv, SecretsGrow
<1> QED
  BY <1>4, <1>5, <1>6, <1>7, <1>8, ScreenKeeps

LEMMA SilentStepsKeep ==
  ASSUME SignInInv, CancelMfa \/ OpenPassword \/ ClosePassword \/ CancelSetup
  PROVE  SignInInv'
<1>1. app \in AppRecords /\ login \in LoginRecords
  BY SignInTyped
<1>2. CASE CancelMfa
  BY <1>1, <1>2, SilentKeeps DEF CancelMfa, LoginRecords, Tokens
<1>3. CASE OpenPassword \/ ClosePassword
  BY <1>1, <1>3, SilentKeeps DEF OpenPassword, ClosePassword, AppRecords
<1>4. CASE CancelSetup
  BY <1>1, <1>4, SilentKeeps DEF CancelSetup
<1> QED
  BY <1>2, <1>3, <1>4

\* Sending a form of the dialog of the second factor, or asking for its state when
\* it opens.
LEMMA TotpSendKeeps ==
  ASSUME SignInInv, NEW op \in TotpForms \cup {"status"}, NEW arg,
         authCalls' = authCalls \cup {AuthCall(op, arg)},
         UNCHANGED <<app, login, device, cookie, authServer, overlap>>,
         app.shows = "app", totp' \in TotpDialogs,
         \/ totp = None /\ totp'.setup = None /\ op = "status"
         \/ totp # None /\ ~totp.busy /\ totp'.setup = totp.setup,
         op \in TotpForms => totp'.busy, op = "setup" => totp'.setup = None,
         op = "enable" => arg \in {device, None}
  PROVE  SignInInv'
<1> DEFINE new == AuthCall(op, arg)
<1>0. op \in AuthOps /\ op \notin {"me", "logout"} \cup LoginOps
  BY DEF AuthOps, SignInForms, LoginOps, TotpForms
<1>1. /\ AuthRecord(new) /\ new.op = op /\ new.mine = TRUE /\ new.stage = "sent" /\ new.arg = arg
  BY <1>0, AuthCallFields, SignInTyped
<1>a. authCalls' = authCalls \cup {new}
  OBVIOUS
<1> HIDE DEF new
<1>2. SignInTypeOK'
  BY <1>1, <1>a, SignInTypes, SignInTyped
<1>3. ScreensFit'
  BY <1>0, <1>1, <1>a DEF SignInInv, ScreensFit
<1>4. totp' # None
  BY SignInAssumption
<1>5. OneFormWaits'
  <2>1. \A c \in authCalls : c.op \in TotpForms => ~c.mine
    BY SignInTyped DEF SignInInv, OneFormWaits
  <2> QED
    BY <1>0, <1>1, <1>a, <1>4, <2>1 DEF OneFormWaits
<1>6. \A e \in authCalls' : SentNow(e) \/ \E c \in authCalls : Continues(e, c)
  BY <1>0, <1>1, <1>a DEF SentNow, Continues, TotpForms
<1>7. \A d, e \in authCalls' : ~overlap /\ d.stage = "read" /\ e.stage = "read" => d = e
  BY <1>1, <1>a DEF SignInInv, ReadStillHolds
<1>8. totp' # None /\ totp'.setup # None => BetweenScanAndServer(totp'.setup)
  BY DEF SignInInv, SecretsGrow
<1> QED
  BY <1>2, <1>3, <1>5, <1>6, <1>7, <1>8, ScreenKeeps

LEMMA TotpFormsKeep ==
  ASSUME SignInInv, NEW right \in BOOLEAN, OpenTotp \/ StartSetup \/ Enable(right) \/ Disable(right)
  PROVE  SignInInv'
<1>1. totp # None => totp \in TotpDialogs /\ app.shows = "app"
  BY SignInTyped
<1>2. CASE OpenTotp
  <2>1. FreshTotp \in TotpDialogs /\ FreshTotp.setup = None
    BY DEF FreshTotp, TotpDialogs, Tokens
  <2> QED
    BY <1>2, <2>1, TotpSendKeeps DEF OpenTotp, InApp, SendAuth, TotpForms
<1>3. ASSUME NEW op \in TotpForms, NEW arg, totp # None, TotpForm(op, arg),
             op = "setup" => totp.setup = None, op = "enable" => arg \in {device, None}
      PROVE  SignInInv'
  <2>1. /\ ~totp.busy /\ totp' = [totp EXCEPT !.busy = TRUE] /\ authCalls' = authCalls \cup {AuthCall(op, arg)}
        /\ UNCHANGED <<app, login, device, cookie, authServer, overlap>>
    BY <1>3 DEF TotpForm, SendAuth
  <2>2. totp' \in TotpDialogs /\ totp'.busy /\ totp'.setup = totp.setup
    BY <1>1, <1>3, <2>1 DEF TotpDialogs
  <2> QED
    BY <1>1, <1>3, <2>1, <2>2, TotpSendKeeps
<1>4. CASE StartSetup
  BY <1>3, <1>4 DEF StartSetup, TotpForms
<1>5. CASE Enable(right)
  <2>1. (IF right THEN device ELSE None) \in {device, None}
    OBVIOUS
  <2> QED
    BY <1>3, <1>5, <2>1 DEF Enable, TotpForms
<1>6. CASE Disable(right)
  BY <1>3, <1>6 DEF Disable, TotpForms
<1> QED
  BY <1>2, <1>4, <1>5, <1>6

\* Requests of a dialog that closed answer to nobody, and are otherwise the same.
LEMMA AbandonedContinue ==
  ASSUME SignInInv
  PROVE  /\ \A e \in Abandoned(authCalls) :
              /\ AuthRecord(e) /\ (e.op \in TotpForms \cup {"status"} => ~e.mine)
              /\ \E c \in authCalls : Continues(e, c)
              /\ e.op \notin TotpForms \cup {"status"} => e \in authCalls
         /\ \A d, e \in Abandoned(authCalls) :
              ~overlap /\ d.stage = "read" /\ e.stage = "read" => d = e
<1> DEFINE Left(c) == IF c.op \in {"status", "setup", "enable", "disable"} THEN [c EXCEPT !.mine = FALSE] ELSE c
<1>1. Abandoned(authCalls) = {Left(c) : c \in authCalls}
  BY DEF Abandoned
<1>2. ASSUME NEW c \in authCalls
      PROVE  /\ AuthRecord(Left(c)) /\ Continues(Left(c), c) /\ (Left(c).op \in TotpForms \cup {"status"} => ~Left(c).mine)
             /\ Left(c).op \notin TotpForms \cup {"status"} => Left(c) = c
  <2>1. AuthRecord(c)
    BY SignInTyped
  <2>2. CASE c.op \in {"status", "setup", "enable", "disable"}
    BY <2>1, <2>2 DEF AuthRecord, Continues, TotpForms
  <2>3. CASE c.op \notin {"status", "setup", "enable", "disable"}
    BY <2>1, <2>3 DEF AuthRecord, Continues, TotpForms
  <2> QED
    BY <2>2, <2>3
<1> HIDE DEF Left
<1>3. \A c, d \in authCalls : ~overlap /\ c.stage = "read" /\ d.stage = "read" => c = d
  BY DEF SignInInv, ReadStillHolds
<1>4. \A c \in authCalls : Left(c).stage = c.stage
  BY <1>2 DEF Continues
<1>5. \A e \in Abandoned(authCalls) :
        /\ AuthRecord(e) /\ (e.op \in TotpForms \cup {"status"} => ~e.mine)
        /\ \E c \in authCalls : Continues(e, c)
        /\ e.op \notin TotpForms \cup {"status"} => e \in authCalls
  BY <1>1, <1>2
<1>6. \A d, e \in Abandoned(authCalls) : ~overlap /\ d.stage = "read" /\ e.stage = "read" => d = e
  BY <1>1, <1>3, <1>4
<1> QED
  BY <1>5, <1>6

LEMMA CloseTotpKeeps ==
  ASSUME SignInInv, CloseTotp
  PROVE  SignInInv'
<1>1. /\ totp' = None /\ authCalls' = Abandoned(authCalls)
      /\ UNCHANGED <<app, login, device, cookie, authServer, overlap>>
  BY DEF CloseTotp
<1>2. SignInTypeOK'
  BY <1>1, SignInTypes, SignInTyped, AbandonedContinue
<1>3. ScreensFit'
  <2>1. \A e \in authCalls' : e.op \in {"me", "logout"} \cup LoginOps => e \in authCalls
    BY <1>1, AbandonedContinue DEF LoginOps, TotpForms
  <2> QED
    BY <1>1, <2>1 DEF SignInInv, ScreensFit
<1>4. OneFormWaits'
  BY <1>1, AbandonedContinue DEF OneFormWaits
<1> QED
  BY <1>1, <1>2, <1>3, <1>4, AbandonedContinue, ScreenKeeps

LEMMA LogoutAnswerKeeps ==
  ASSUME SignInInv, NEW c \in authCalls, LogoutAnswer(c)
  PROVE  SignInInv'
<1> DEFINE new == [AuthCall("needsSetup", None) EXCEPT !.cookie = None]
<1>1. /\ c.op = "logout" /\ cookie' = None /\ app' = [app EXCEPT !.shows = "login"] /\ login' = LoginForm
      /\ totp' = None /\ authCalls' = (Abandoned(authCalls) \ {c}) \cup {new}
      /\ UNCHANGED <<device, authServer, overlap>>
  BY DEF LogoutAnswer
<1>2. AuthRecord(new) /\ new.op = "needsSetup" /\ new.stage = "sent"
  <2>1. "needsSetup" \in AuthOps
    BY DEF AuthOps
  <2> QED
    BY <2>1, SignInTyped DEF AuthRecord, AuthCall, Tokens
<1> HIDE DEF new
<1>3. SignInTypeOK'
  <2>1. app' \in AppRecords /\ login' \in LoginRecords /\ cookie' \in Tokens
    BY <1>1, SignInTyped DEF AppRecords, LoginRecords, LoginForm, Tokens
  <2>2. \A e \in authCalls' : AuthRecord(e)
    BY <1>1, <1>2, AbandonedContinue
  <2> QED
    BY <1>1, <2>1, <2>2, SignInTypes, SignInTyped
<1>4. ScreensFit'
  <2>1. \A e \in authCalls' : e.op \in {"me", "logout"} \cup LoginOps => e \in authCalls /\ e # c
    BY <1>1, <1>2, AbandonedContinue DEF LoginOps, TotpForms
  <2>2. \A e \in authCalls' : e.op \notin {"me", "logout"} \cup LoginOps
    BY <1>1, <2>1 DEF SignInInv, ScreensFit
  <2> QED
    BY <2>2 DEF ScreensFit
<1>5. OneFormWaits'
  BY <1>1, <1>2, AbandonedContinue DEF OneFormWaits, TotpForms
<1>6. \A e \in authCalls' : SentNow(e) \/ \E d \in authCalls : Continues(e, d)
  BY <1>1, <1>2, AbandonedContinue DEF SentNow
<1>7. \A d, e \in authCalls' : ~overlap /\ d.stage = "read" /\ e.stage = "read" => d = e
  BY <1>1, <1>2, AbandonedContinue
<1> QED
  BY <1>1, <1>3, <1>4, <1>5, <1>6, <1>7, ScreenKeeps

\* An answer takes its request away; what it changes on the screen fits what is
\* still under way, because no other such request is.
LEMMA AnswerKeeps ==
  ASSUME SignInInv, NEW c \in authCalls, c.stage # "read", NEW added,
         authCalls' = (authCalls \ {c}) \cup added,
         \A x \in added : AuthRecord(x) /\ x.stage = "sent" /\ x.op \in {"me", "needsSetup", "status"},
         \A x, y \in added : x = y,
         UNCHANGED <<device, authServer, overlap>>, cookie' \in Tokens,
         app' \in AppRecords, login' \in LoginRecords, totp' \in TotpDialogs \cup {None},
         totp' # None => app'.shows = "app",
         c.op \in LoginOps \cup {"me"} \/ (app'.shows = app.shows /\ app'.busy = app.busy),
         \A x \in added : x.op = "me" => c.op \in LoginOps /\ app'.shows = "loading",
         \A x \in added : x.op = "status" => totp # None, totp # None => totp' # None,
         \/ c.op \in TotpForms /\ c.mine
         \/ totp # None => totp'.busy = totp.busy /\ totp'.setup = totp.setup,
         totp' # None /\ totp'.setup # None => BetweenScanAndServer(totp'.setup)
  PROVE  SignInInv'
<1>1. SignInTypeOK'
  BY SignInTypes, SignInTyped
<1>2. ScreensFit'
  <2>1. CASE c.op \in LoginOps \cup {"me"}
    <3>1. \A e \in authCalls \ {c} : e.op \notin {"me", "logout"} \cup LoginOps
      <4>1. \A e \in authCalls \ {c} : c.op \in LoginOps => e.op \notin {"me", "logout"} \cup LoginOps
        BY DEF SignInInv, ScreensFit
      <4>2. \A e \in authCalls \ {c} : c.op = "me" => e.op \notin {"me", "logout"} \cup LoginOps
        BY DEF SignInInv, ScreensFit
      <4> QED
        BY <2>1, <4>1, <4>2
    <3>2. \A e \in authCalls' : /\ e.op \notin {"logout"} \cup LoginOps
                                /\ e.op = "me" => e \in added
      BY <3>1 DEF LoginOps
    <3> QED
      BY <3>2 DEF ScreensFit
  <2>2. CASE c.op \notin LoginOps \cup {"me"}
    <3>1. \A e \in authCalls' : e.op \in {"me", "logout"} \cup LoginOps => e \in authCalls
      BY <2>2 DEF LoginOps
    <3> QED
      BY <2>2, <3>1 DEF SignInInv, ScreensFit
  <2> QED
    BY <2>1, <2>2
<1>3. OneFormWaits'
  <2>1. \A e \in authCalls' : e.op \in TotpForms => e \in authCalls /\ e # c
    BY DEF TotpForms
  <2>2. \A e \in authCalls' : e.op = "status" /\ e.mine => totp # None
    BY DEF SignInInv, OneFormWaits
  <2> QED
    BY <2>1, <2>2 DEF SignInInv, OneFormWaits
<1>4. \A e \in authCalls' : SentNow(e) \/ \E d \in authCalls : Continues(e, d)
  BY DEF SentNow, Continues
<1>5. \A d, e \in authCalls' : ~overlap /\ d.stage = "read" /\ e.stage = "read" => d = e
  BY DEF SignInInv, ReadStillHolds
<1> QED
  BY <1>1, <1>2, <1>3, <1>4, <1>5, ScreenKeeps

LEMMA StartAnswersKeep ==
  ASSUME SignInInv, NEW c \in authCalls, c.stage # "read", MeAnswer(c) \/ NeedsSetupAnswer(c)
  PROVE  SignInInv'
<1>1. app \in AppRecords /\ login \in LoginRecords /\ cookie \in Tokens
  BY SignInTyped
<1>2. totp' = totp /\ UNCHANGED <<device, cookie, authServer, overlap>>
  BY DEF MeAnswer, NeedsSetupAnswer
<1>3. totp' # None /\ totp'.setup # None => BetweenScanAndServer(totp'.setup)
  BY <1>2 DEF SignInInv, SecretsGrow
<1>4. CASE MeAnswer(c)
  <2> DEFINE added == IF c.cookie \in authServer.live THEN {} ELSE {AuthCall("needsSetup", None)}
  <2>1. /\ c.op = "me" /\ authCalls' = (authCalls \ {c}) \cup added
        /\ app' \in AppRecords /\ login' \in LoginRecords
    BY <1>1, <1>4 DEF MeAnswer, AppRecords, LoginRecords, LoginForm, Tokens
  <2>2. /\ \A x \in added : AuthRecord(x) /\ x.stage = "sent" /\ x.op = "needsSetup"
        /\ \A x, y \in added : x = y
    <3>1. "needsSetup" \in AuthOps
      BY DEF AuthOps
    <3> DEFINE new == AuthCall("needsSetup", None)
    <3>2. \A x \in added : x = new
      OBVIOUS
    <3>3. AuthRecord(new) /\ new.stage = "sent" /\ new.op = "needsSetup"
      BY <1>1, <3>1 DEF AuthRecord, AuthCall, Tokens
    <3> HIDE DEF added, new
    <3> QED
      BY <3>2, <3>3
  <2>3. totp = None
    BY <2>1, SignInTyped DEF SignInInv, ScreensFit
  <2> HIDE DEF added
  <2> QED
    BY <1>2, <1>3, <2>1, <2>2, <2>3, <1>1, SignInTyped, AnswerKeeps
<1>5. CASE NeedsSetupAnswer(c)
  <2> DEFINE none == {}
  <2>1. /\ c.op = "needsSetup" /\ authCalls' = (authCalls \ {c}) \cup none /\ app' = app
        /\ login' \in LoginRecords
    <3>1. login' = [login EXCEPT !.needsSetup = ~authServer.users] /\ authServer.users \in BOOLEAN
      BY <1>5 DEF NeedsSetupAnswer, SignInInv, SignInTypeOK
    <3> QED
      BY <1>1, <1>5, <3>1 DEF NeedsSetupAnswer, LoginRecords, Tokens
  <2>2. \A x \in none : FALSE
    OBVIOUS
  <2> HIDE DEF none
  <2> QED
    BY <1>1, <1>2, <1>3, <2>1, <2>2, SignInTyped, AnswerKeeps
<1> QED
  BY <1>4, <1>5

LEMMA LoginAnswerKeeps ==
  ASSUME SignInInv, NEW c \in authCalls, c.stage # "read", LoginAnswer(c)
  PROVE  SignInInv'
<1>1. app \in AppRecords /\ login \in LoginRecords /\ cookie \in Tokens /\ AuthRecord(c)
  BY SignInTyped
<1>2. c.op \in LoginOps /\ UNCHANGED <<totp, device, authServer, overlap>> /\ c.out \in Tokens
  BY <1>1 DEF LoginAnswer, LoginOps, AuthRecord
<1>3. totp = None
  BY <1>2, SignInTyped DEF SignInInv, ScreensFit
<1>4. CASE c.stage = "done"
  <2> DEFINE me == [AuthCall("me", None) EXCEPT !.cookie = c.out]
  <2>1. /\ cookie' = c.out /\ authCalls' = (authCalls \ {c}) \cup {me}
        /\ app' \in AppRecords /\ app'.shows = "loading" /\ login' \in LoginRecords
    BY <1>1, <1>4 DEF LoginAnswer, AppRecords, LoginRecords, Tokens
  <2>2. AuthRecord(me) /\ me.stage = "sent" /\ me.op = "me"
    <3>1. "me" \in AuthOps
      BY DEF AuthOps
    <3> QED
      BY <1>1, <1>2, <3>1 DEF AuthRecord, AuthCall, Tokens
  <2> DEFINE added == {me}
  <2>3. authCalls' = (authCalls \ {c}) \cup added /\ \A x \in added : x = me
    BY <2>1
  <2> HIDE DEF me, added
  <2> QED
    BY <1>1, <1>2, <1>3, <2>1, <2>2, <2>3, SignInTyped, AnswerKeeps
<1>5. CASE c.stage # "done"
  <2> DEFINE none == {}
  <2>1. /\ cookie' = cookie /\ authCalls' = (authCalls \ {c}) \cup none
        /\ app' \in AppRecords /\ login' \in LoginRecords
    <3>1. c.stage \in {"refused", "challenged"}
      BY <1>1, <1>5 DEF AuthRecord, LoginAnswer
    <3> QED
      BY <1>1, <1>2, <3>1 DEF LoginAnswer, AppRecords, LoginRecords
  <2>2. \A x \in none : FALSE
    OBVIOUS
  <2> HIDE DEF none
  <2> QED
    BY <1>1, <1>2, <1>3, <2>1, <2>2, SignInTyped, AnswerKeeps
<1> QED
  BY <1>4, <1>5

\* The dialog of the second factor is there, waiting, when an answer for it comes.
LEMMA FormAnswerKeeps ==
  ASSUME SignInInv, NEW c \in authCalls, FormAnswer(c)
  PROVE  SignInInv'
<1> DEFINE done == c.stage = "done"
           here == c.mine /\ c.op # "password"
           added == IF here /\ done /\ c.op # "setup"
                    THEN {[AuthCall("status", None) EXCEPT !.cookie = c.out]} ELSE {}
<1>1. app \in AppRecords /\ login \in LoginRecords /\ cookie \in Tokens /\ AuthRecord(c)
  BY SignInTyped
<1>2. /\ c.op \in SignInForms /\ c.stage \in {"done", "refused"}
      /\ UNCHANGED <<app, login, device, authServer, overlap>> /\ authCalls' = (authCalls \ {c}) \cup added
      /\ cookie' \in Tokens
  BY <1>1 DEF FormAnswer, AuthRecord
<1>3. here => c.op \in TotpForms /\ totp # None /\ totp \in TotpDialogs
  BY <1>2, SignInTyped DEF SignInInv, OneFormWaits, SignInForms, TotpForms
<1>4. c.op \notin LoginOps \cup {"me"}
  BY <1>2 DEF SignInForms, LoginOps
<1>5. /\ \A x \in added : AuthRecord(x) /\ x.stage = "sent" /\ x.op = "status"
      /\ \A x, y \in added : x = y
  <2>1. "status" \in AuthOps
    BY DEF AuthOps
  <2> QED
    BY <1>1, <2>1 DEF AuthRecord, AuthCall, Tokens
<1>6. /\ totp' \in TotpDialogs \cup {None} /\ (~here => totp' = totp) /\ (totp' # None <=> totp # None)
      /\ totp' # None /\ totp'.setup # None => BetweenScanAndServer(totp'.setup)
  <2>0. totp # None /\ totp.setup # None => BetweenScanAndServer(totp.setup)
    BY DEF SignInInv, SecretsGrow
  <2>1. CASE ~here
    BY <2>0, <2>1, SignInTyped DEF FormAnswer
  <2>2. CASE here /\ ~done
    BY <1>3, <2>0, <2>2, SignInAssumption DEF FormAnswer, TotpDialogs
  <2>3. CASE here /\ done /\ c.op = "setup"
    <3>1. totp' = [totp EXCEPT !.busy = FALSE, !.setup = c.out]
      BY <2>3 DEF FormAnswer
    <3>2. BetweenScanAndServer(c.out)
      BY <2>3 DEF SignInInv, SecretsGrow
    <3>3. totp' \in TotpDialogs /\ totp'.setup = c.out
      BY <1>1, <1>3, <2>3, <3>1 DEF TotpDialogs, AuthRecord
    <3> QED
      BY <1>3, <2>3, <3>2, <3>3, SignInAssumption
  <2>4. CASE here /\ done /\ c.op = "enable"
    <3>1. totp' = [totp EXCEPT !.busy = FALSE, !.setup = None, !.codes = c.out]
      BY <2>4 DEF FormAnswer
    <3> QED
      BY <1>1, <1>3, <2>4, <3>1, SignInAssumption DEF TotpDialogs, AuthRecord, Tokens
  <2>5. CASE here /\ done /\ c.op = "disable"
    <3>1. totp' = [totp EXCEPT !.busy = FALSE]
      BY <2>5 DEF FormAnswer
    <3> QED
      BY <1>3, <2>0, <2>5, <3>1, SignInAssumption DEF TotpDialogs
  <2> QED
    BY <1>3, <2>1, <2>2, <2>3, <2>4, <2>5 DEF TotpForms
<1>7. c.stage # "read" /\ (totp' # None => app'.shows = "app")
  BY <1>2, <1>6, SignInTyped
<1>8. \/ c.op \in TotpForms /\ c.mine
      \/ totp # None => totp'.busy = totp.busy /\ totp'.setup = totp.setup
  BY <1>3, <1>6
<1>9. \A x \in added : totp # None
  BY <1>3
<1> HIDE DEF added, here, done
<1> QED
  BY <1>1, <1>2, <1>4, <1>5, <1>6, <1>7, <1>8, <1>9, AnswerKeeps

LEMMA StatusAnswerKeeps ==
  ASSUME SignInInv, NEW c \in authCalls, c.stage # "read", StatusAnswer(c)
  PROVE  SignInInv'
<1> DEFINE none == {}
<1>0. \A x \in none : FALSE
  OBVIOUS
<1> HIDE DEF none
<1>1. app \in AppRecords /\ login \in LoginRecords /\ cookie \in Tokens
  BY SignInTyped
<1>2. /\ c.op = "status" /\ authCalls' = (authCalls \ {c}) \cup none
      /\ UNCHANGED <<app, login, device, cookie, authServer, overlap>>
  BY DEF StatusAnswer, none
<1>3. CASE c.mine /\ c.cookie \in authServer.live
  <2>1. totp # None /\ totp' = [totp EXCEPT !.on = authServer.enabled]
    BY <1>2, <1>3 DEF StatusAnswer, SignInInv, OneFormWaits
  <2>2. totp \in TotpDialogs /\ authServer.enabled \in BOOLEAN /\ app.shows = "app"
    BY <2>1, SignInTyped DEF SignInInv, SignInTypeOK
  <2>3. /\ totp' \in TotpDialogs /\ totp'.busy = totp.busy /\ totp'.setup = totp.setup
    BY <2>1, <2>2 DEF TotpDialogs
  <2>4. totp'.setup # None => BetweenScanAndServer(totp'.setup)
    BY <2>1, <2>3 DEF SignInInv, SecretsGrow
  <2>5. totp' # None
    BY <2>3, SignInAssumption
  <2> QED
    BY <1>0, <1>1, <1>2, <2>1, <2>2, <2>3, <2>4, <2>5, AnswerKeeps DEF LoginOps
<1>4. CASE ~(c.mine /\ c.cookie \in authServer.live)
  <2>1. totp' = totp
    BY <1>4 DEF StatusAnswer
  <2>2. totp' # None /\ totp'.setup # None => BetweenScanAndServer(totp'.setup)
    BY <2>1 DEF SignInInv, SecretsGrow
  <2> QED
    BY <1>0, <1>1, <1>2, <2>1, <2>2, SignInTyped, AnswerKeeps DEF LoginOps
<1> QED
  BY <1>3, <1>4

LEMMA AuthFailsKeeps ==
  ASSUME SignInInv, NEW c \in authCalls, AuthFails(c)
  PROVE  SignInInv'
<1> DEFINE added == IF c.op = "me" THEN {AuthCall("needsSetup", None)} ELSE {}
<1>1. app \in AppRecords /\ login \in LoginRecords /\ cookie \in Tokens
  BY SignInTyped
<1>2. /\ c.stage # "read" /\ authCalls' = (authCalls \ {c}) \cup added
      /\ UNCHANGED <<device, cookie, authServer, overlap>>
  BY DEF AuthFails
<1>3. /\ \A x \in added : AuthRecord(x) /\ x.stage = "sent" /\ x.op = "needsSetup"
      /\ \A x, y \in added : x = y
  <2>1. "needsSetup" \in AuthOps
    BY DEF AuthOps
  <2> DEFINE new == AuthCall("needsSetup", None)
  <2>2. \A x \in added : x = new
    OBVIOUS
  <2>3. AuthRecord(new) /\ new.stage = "sent" /\ new.op = "needsSetup"
    BY <1>1, <2>1 DEF AuthRecord, AuthCall, Tokens
  <2> HIDE DEF added, new
  <2> QED
    BY <2>2, <2>3
<1>4. app' \in AppRecords /\ login' \in LoginRecords
  <2>1. CASE c.op = "me"
    BY <1>1, <2>1 DEF AuthFails, AppRecords, LoginRecords, LoginForm, Tokens
  <2>2. CASE c.op \in {"first", "login", "code"}
    BY <1>1, <2>2 DEF AuthFails, AppRecords, LoginRecords
  <2>3. CASE c.op = "needsSetup"
    BY <1>1, <2>3 DEF AuthFails, AppRecords, LoginRecords, Tokens
  <2>4. CASE c.op \notin {"me", "first", "login", "code", "needsSetup"}
    <3>1. app' = app /\ login' = login
      BY <2>4 DEF AuthFails
    <3> QED
      BY <1>1, <3>1
  <2> QED
    BY <2>1, <2>2, <2>3, <2>4
<1>5. c.op \notin LoginOps \cup {"me"} => app' = app
  BY DEF AuthFails, LoginOps
<1>6. c.op \in LoginOps \cup {"me"} => totp = None
  BY SignInTyped DEF SignInInv, ScreensFit
<1>7. CASE c.op \in TotpForms /\ c.mine
  <2>1. /\ totp # None /\ totp \in TotpDialogs /\ totp' = [totp EXCEPT !.busy = FALSE] /\ app' = app
        /\ app.shows = "app"
    BY <1>5, <1>7, SignInTyped DEF AuthFails, TotpForms, LoginOps, SignInInv, OneFormWaits
  <2>2. totp' \in TotpDialogs /\ totp'.setup = totp.setup
    BY <2>1 DEF TotpDialogs
  <2>3. totp' # None
    BY <2>2, SignInAssumption
  <2>4. totp'.setup # None => BetweenScanAndServer(totp'.setup)
    BY <2>1, <2>2 DEF SignInInv, SecretsGrow
  <2>5. c.op \notin LoginOps \cup {"me"}
    BY <1>7 DEF LoginOps, TotpForms
  <2> HIDE DEF added
  <2> QED
    BY <1>1, <1>2, <1>3, <1>4, <1>7, <2>1, <2>2, <2>3, <2>4, <2>5, AnswerKeeps
<1>8. CASE ~(c.op \in TotpForms /\ c.mine)
  <2>1. totp' = totp
    BY <1>8 DEF AuthFails, TotpForms
  <2>2. totp' # None /\ totp'.setup # None => BetweenScanAndServer(totp'.setup)
    BY <2>1 DEF SignInInv, SecretsGrow
  <2>3. totp' # None => app'.shows = "app"
    BY <1>5, <1>6, <2>1, SignInTyped
  <2>4. c.op \in LoginOps \cup {"me"} \/ (app'.shows = app.shows /\ app'.busy = app.busy)
    BY <1>5
  <2>5. totp' \in TotpDialogs \cup {None}
    BY <2>1, SignInTyped
  <2> HIDE DEF added
  <2> QED
    BY <1>1, <1>2, <1>3, <1>4, <2>1, <2>2, <2>3, <2>4, <2>5, AnswerKeeps
<1> QED
  BY <1>7, <1>8

\* A scan: the secret shown is newer than the one scanned before, which the server
\* therefore does not ask for.
LEMMA ScanKeeps ==
  ASSUME SignInInv, Scan
  PROVE  SignInInv'
<1>1. /\ totp # None /\ totp.setup # None /\ totp.setup # device /\ device' = totp.setup
      /\ UNCHANGED <<app, login, totp, cookie, authCalls, authServer, overlap>>
  BY DEF Scan
<1>2. device \in Tokens /\ authServer.secret \in Tokens /\ authServer.serial \in Nat
  BY SignInTyped DEF SignInInv, SignInTypeOK
<1>3. /\ totp.setup \in Nat /\ totp.setup <= authServer.serial
      /\ authServer.secret # None => totp.setup <= authServer.secret
      /\ device # None => device < totp.setup
  BY <1>1, <1>2 DEF SignInInv, SecretsGrow, BetweenScanAndServer, Tokens
<1>4. SignInTypeOK'
  <2>1. device' \in Tokens
    BY <1>1, <1>3 DEF Tokens
  <2> QED
    BY <1>1, <2>1, SignInTypes, SignInTyped
<1>5. ScreensFit' /\ OneFormWaits'
  BY <1>1 DEF SignInInv, ScreensFit, OneFormWaits
<1>6. \A c \in authCalls : ~(c.op = "setup" /\ c.mine)
  BY <1>1 DEF SignInInv, OneFormWaits, TotpForms
<1>7. SecretsGrow'
  <2>1. authServer.secret # None => authServer.secret <= authServer.serial
    BY DEF SignInInv, SecretsGrow
  <2>2. BetweenScanAndServer(totp.setup)'
    BY <1>1, <1>3 DEF BetweenScanAndServer
  <2>3. ASSUME NEW c \in authCalls, c.op = "enable", c.arg # None
        PROVE  device' # None /\ c.arg \in Nat /\ c.arg <= device'
    BY <1>1, <1>2, <1>3, <2>3 DEF SignInInv, SecretsGrow, Tokens
  <2> QED
    BY <1>1, <1>3, <1>6, <2>1, <2>2, <2>3 DEF SecretsGrow
<1>8. ReadStillHolds'
  <2>1. ~overlap => ~authServer.enabled
    BY <1>2, <1>3 DEF SignInInv, ReadStillHolds, Tokens
  <2> QED
    BY <1>1, <2>1 DEF SignInInv, ReadStillHolds
<1> QED
  BY <1>4, <1>5, <1>7, <1>8 DEF SignInInv

ServerRecords == [live: SUBSET Nat, serial: Nat, enabled: BOOLEAN, users: BOOLEAN,
                  codes: Tokens, secret: Tokens]

\* A step of the server: the request is further on; a secret it made is its newest.
LEMMA ServerKeeps ==
  ASSUME SignInInv, NEW c \in authCalls, NEW stage \in {"read", "done", "refused", "challenged"},
         NEW out \in Tokens, Becomes(c, stage, out), UNCHANGED <<app, login, totp, device, cookie>>,
         overlap' \in BOOLEAN, authServer' \in ServerRecords,
         authServer'.live \subseteq 1..authServer'.serial, authServer.serial <= authServer'.serial,
         authServer'.secret \in {authServer.secret, None, authServer'.serial},
         c.op = "setup" /\ stage = "done" => out = authServer'.serial /\ authServer'.secret = out,
         ReadStillHolds'
  PROVE  SignInInv'
<1> DEFINE new == [c EXCEPT !.stage = stage, !.out = out]
<1>1. AuthRecord(c) /\ device \in Tokens /\ authServer \in ServerRecords
  BY SignInTyped DEF SignInInv, SignInTypeOK, ServerRecords
<1>2. /\ AuthRecord(new) /\ new.op = c.op /\ new.arg = c.arg /\ new.mine = c.mine
      /\ new.stage = stage /\ new.out = out
  BY <1>1 DEF AuthRecord
<1>3. authCalls' = (authCalls \ {c}) \cup {new}
  BY DEF Becomes
<1> HIDE DEF new
<1>4. SignInTypeOK'
  <2>1. \A e \in authCalls' : AuthRecord(e)
    BY <1>2, <1>3, SignInTyped
  <2> QED
    BY <2>1, SignInTyped DEF SignInTypeOK, AppRecords, LoginRecords, AuthRecord, ServerRecords
<1>5. ScreensFit'
  <2>1. \A op \in {"me", "logout"} : c.op = op => \A d \in authCalls : d.op = op => d = c
    BY DEF SignInInv, ScreensFit
  <2>2. c.op \in LoginOps => \A d \in authCalls : d.op \in LoginOps => d = c
    BY DEF SignInInv, ScreensFit
  <2>3. ASSUME NEW e \in authCalls'
        PROVE  /\ e.op = "me" => app.shows = "loading" /\ \A d \in authCalls' : d.op = "me" => d = e
               /\ e.op = "logout" => app.shows = "app" /\ \A d \in authCalls' : d.op = "logout" => d = e
               /\ e.op \in LoginOps => /\ app.shows = "login" /\ app.busy
                                       /\ \A d \in authCalls' : d.op \in LoginOps => d = e
    <3>1. CASE e = new
      BY <1>2, <1>3, <2>1, <2>2, <3>1 DEF SignInInv, ScreensFit
    <3>2. CASE e \in authCalls \ {c}
      BY <1>2, <1>3, <2>1, <2>2, <3>2 DEF SignInInv, ScreensFit
    <3> QED
      BY <1>3, <3>1, <3>2
  <2> QED
    BY <2>3 DEF ScreensFit
<1>6. OneFormWaits'
  <2>1. c.op \in TotpForms /\ c.mine => \A d \in authCalls : d.op \in TotpForms /\ d.mine => d = c
    BY DEF SignInInv, OneFormWaits
  <2>2. ASSUME NEW e \in authCalls'
        PROVE  /\ e.op = "status" /\ e.mine => totp # None
               /\ e.op \in TotpForms /\ e.mine =>
                     /\ totp # None /\ totp.busy
                     /\ e.op = "setup" => totp.setup = None
                     /\ \A d \in authCalls' : d.op \in TotpForms /\ d.mine => d = e
    <3>1. CASE e = new
      BY <1>2, <1>3, <2>1, <3>1 DEF SignInInv, OneFormWaits
    <3>2. CASE e \in authCalls \ {c}
      BY <1>2, <1>3, <2>1, <3>2 DEF SignInInv, OneFormWaits
    <3> QED
      BY <1>3, <3>1, <3>2
  <2> QED
    BY <2>2 DEF OneFormWaits
<1>7. SecretsGrow'
  <2>1. /\ authServer.serial \in Nat /\ authServer'.serial \in Nat
        /\ authServer.secret \in Tokens
    BY <1>1 DEF ServerRecords
  <2>2. /\ authServer.secret # None => authServer.secret <= authServer.serial
        /\ device # None => /\ device <= authServer.serial
                            /\ authServer.secret # None => device <= authServer.secret
    BY DEF SignInInv, SecretsGrow
  <2>3. ASSUME NEW s, BetweenScanAndServer(s)
        PROVE  /\ s \in Nat /\ s <= authServer'.serial
               /\ authServer'.secret # None => s <= authServer'.secret
               /\ device # None => device <= s
    BY <1>1, <2>1, <2>3 DEF BetweenScanAndServer, Tokens
  <2>4. /\ authServer'.secret # None => authServer'.secret <= authServer'.serial
        /\ device # None => /\ device <= authServer'.serial
                            /\ authServer'.secret # None => device <= authServer'.secret
    BY <1>1, <2>1, <2>2 DEF Tokens
  <2>5. totp # None /\ totp.setup # None => BetweenScanAndServer(totp.setup)'
    BY <2>3 DEF SignInInv, SecretsGrow, BetweenScanAndServer
  <2>6. ASSUME NEW e \in authCalls', e.op = "setup", e.mine, e.stage = "done"
        PROVE  BetweenScanAndServer(e.out)'
    <3>1. CASE e = new
      <4>1. c.op = "setup" /\ stage = "done" /\ e.out = authServer'.serial /\ authServer'.secret = e.out
        BY <1>2, <2>6, <3>1
      <4> QED
        BY <2>1, <2>4, <4>1 DEF BetweenScanAndServer
    <3>2. CASE e \in authCalls
      BY <2>3, <2>6, <3>2 DEF SignInInv, SecretsGrow, BetweenScanAndServer
    <3> QED
      BY <1>3, <3>1, <3>2
  <2>7. ASSUME NEW e \in authCalls', e.op = "enable", e.arg # None
        PROVE  device # None /\ e.arg \in Nat /\ e.arg <= device
    BY <1>2, <1>3, <2>7 DEF SignInInv, SecretsGrow
  <2> QED
    BY <2>4, <2>5, <2>6, <2>7 DEF SecretsGrow
<1> QED
  BY <1>4, <1>5, <1>6, <1>7 DEF SignInInv

LEMMA ReadUserKeeps ==
  ASSUME SignInInv, NEW c \in authCalls, ReadUser(c)
  PROVE  SignInInv'
<1> DEFINE right == /\ c.cookie \in authServer.live
                    /\ CASE c.op = "setup" -> ~authServer.enabled
                         [] c.op = "enable" -> ~authServer.enabled /\ authServer.secret # None
                                               /\ c.arg = authServer.secret
                         [] OTHER -> c.arg
<1>1. /\ c.op \in SignInForms /\ c.stage = "sent"
      /\ overlap' = (overlap \/ \E d \in authCalls : d.stage = "read")
      /\ UNCHANGED <<app, login, totp, device, cookie, authServer>>
      /\ IF right THEN Becomes(c, "read", None) ELSE Becomes(c, "refused", None)
  BY DEF ReadUser
<1>2. right => /\ c.op \in {"setup", "enable"} => ~authServer.enabled
               /\ c.op = "enable" => authServer.secret # None /\ c.arg = authServer.secret
  OBVIOUS
<1> HIDE DEF right
<1> DEFINE stage == IF right THEN "read" ELSE "refused"
           new == [c EXCEPT !.stage = stage, !.out = None]
<1>3. Becomes(c, stage, None) /\ stage \in {"read", "refused"} /\ (stage = "read" => right)
  BY <1>1
<1>4. AuthRecord(c) /\ overlap \in BOOLEAN
  BY SignInTyped
<1>5. authCalls' = (authCalls \ {c}) \cup {new} /\ new.op = c.op /\ new.arg = c.arg /\ new.stage = stage
  BY <1>3, <1>4 DEF Becomes, AuthRecord
<1>6. authServer \in ServerRecords /\ authServer.live \subseteq 1..authServer.serial
  BY DEF SignInInv, SignInTypeOK, ServerRecords
<1> HIDE DEF stage, new
<1>7. ReadStillHolds'
  <2>1. \A e \in authCalls' : e.stage = "read" => e.op \in SignInForms
    BY <1>1, <1>5 DEF SignInInv, ReadStillHolds
  <2>2. ~overlap' => ~overlap /\ \A d \in authCalls : d.stage # "read"
    BY <1>1, <1>4
  <2>3. ~overlap' => \A e \in authCalls' : e.stage = "read" => e = new /\ right
    BY <1>3, <1>5, <2>2
  <2>4. ~overlap => (authServer.enabled => authServer.secret # None /\ device = authServer.secret)
    BY DEF SignInInv, ReadStillHolds
  <2> QED
    BY <1>1, <1>2, <1>5, <2>1, <2>2, <2>3, <2>4 DEF ReadStillHolds
<1>8. None \in Tokens /\ stage # "done" /\ overlap' \in BOOLEAN
  BY <1>1, <1>3, <1>4 DEF Tokens
<1>9. authServer.serial <= authServer.serial
  BY <1>6 DEF ServerRecords
<1> QED
  BY <1>1, <1>3, <1>6, <1>7, <1>8, <1>9, ServerKeeps

LEMMA WriteUserKeeps ==
  ASSUME SignInInv, NEW c \in authCalls, WriteUser(c)
  PROVE  SignInInv'
<1>1. /\ c.stage = "read" /\ UNCHANGED <<app, login, totp, device, cookie, overlap>>
      /\ c.op \in SignInForms
  BY DEF WriteUser, SignInInv, ReadStillHolds
<1>2. /\ AuthRecord(c) /\ overlap \in BOOLEAN /\ device \in Tokens /\ authServer \in ServerRecords
      /\ authServer.live \subseteq 1..authServer.serial
  BY SignInTyped DEF SignInInv, SignInTypeOK, ServerRecords
<1>3. /\ New \in Nat /\ authServer.serial <= New /\ New \in Tokens
      /\ {New} \subseteq 1..New /\ 1..authServer.serial \subseteq 1..New
  BY <1>2 DEF New, ServerRecords, Tokens
<1>4. /\ Becomes(c, "done", New) /\ authServer' \in ServerRecords
      /\ authServer'.serial = New /\ authServer'.live \subseteq 1..New
      /\ c.op = "password" => /\ authServer'.secret = authServer.secret
                              /\ authServer'.enabled = authServer.enabled
      /\ c.op = "setup" => authServer'.secret = New /\ authServer'.enabled = authServer.enabled
      /\ c.op = "enable" => authServer'.secret = authServer.secret /\ authServer'.enabled = TRUE
      /\ c.op = "disable" => authServer'.secret = None /\ authServer'.enabled = FALSE
  <2>1. CASE c.op = "password"
    <3>1. Becomes(c, "done", New) /\ authServer' = [authServer EXCEPT !.live = {New}, !.serial = New]
      BY <2>1 DEF WriteUser, Revoking
    <3> QED
      BY <1>2, <1>3, <2>1, <3>1 DEF ServerRecords
  <2>2. CASE c.op = "setup"
    <3>1. Becomes(c, "done", New) /\ authServer' = [authServer EXCEPT !.secret = New, !.serial = New]
      BY <2>2 DEF WriteUser
    <3> QED
      BY <1>2, <1>3, <2>2, <3>1 DEF ServerRecords
  <2>3. CASE c.op = "enable"
    <3>1. /\ Becomes(c, "done", New)
          /\ authServer' = [[authServer EXCEPT !.enabled = TRUE, !.codes = New] EXCEPT !.live = {New}, !.serial = New]
      BY <2>3 DEF WriteUser, Revoking
    <3> QED
      BY <1>2, <1>3, <2>3, <3>1 DEF ServerRecords
  <2>4. CASE c.op = "disable"
    <3>1. /\ Becomes(c, "done", New)
          /\ authServer' = [[authServer EXCEPT !.enabled = FALSE, !.secret = None, !.codes = None]
                              EXCEPT !.live = {New}, !.serial = New]
      BY <2>4 DEF WriteUser, Revoking
    <3> QED
      BY <1>2, <1>3, <2>4, <3>1 DEF ServerRecords, Tokens
  <2> QED
    BY <1>1, <2>1, <2>2, <2>3, <2>4 DEF SignInForms
<1>5. ReadStillHolds'
  <2> DEFINE new == [c EXCEPT !.stage = "done", !.out = New]
  <2>1. authCalls' = (authCalls \ {c}) \cup {new} /\ new.stage = "done"
    BY <1>2, <1>4 DEF Becomes, AuthRecord
  <2> HIDE DEF new
  <2>2. \A e \in authCalls' : e.stage = "read" => e \in authCalls /\ e # c
    BY <2>1
  <2>3. ~overlap => \A e \in authCalls' : e.stage # "read"
    BY <1>1, <2>2 DEF SignInInv, ReadStillHolds
  <2>4. ASSUME ~overlap, authServer'.enabled
        PROVE  authServer'.secret # None /\ device = authServer'.secret
    <3>1. c.op \notin {"setup", "disable"}
      BY <1>1, <1>4, <2>4 DEF SignInInv, ReadStillHolds
    <3>2. CASE c.op = "password"
      BY <1>4, <2>4, <3>2 DEF SignInInv, ReadStillHolds
    <3>3. CASE c.op = "enable"
      <4>1. authServer.secret # None /\ c.arg = authServer.secret
        BY <1>1, <2>4, <3>3 DEF SignInInv, ReadStillHolds
      <4>2. /\ device # None /\ c.arg \in Nat /\ c.arg <= device /\ device <= authServer.secret
            /\ device \in Nat
        BY <1>2, <3>3, <4>1 DEF SignInInv, SecretsGrow, Tokens
      <4>3. device = authServer.secret
        BY <4>1, <4>2
      <4> QED
        BY <1>4, <3>3, <4>1, <4>3
    <3> QED
      BY <1>1, <3>1, <3>2, <3>3 DEF SignInForms
  <2>5. \A e \in authCalls' : e.stage = "read" => e.op \in SignInForms
    BY <2>2 DEF SignInInv, ReadStillHolds
  <2> QED
    BY <1>1, <2>3, <2>4, <2>5 DEF ReadStillHolds
<1>6. authServer'.secret \in {authServer.secret, None, authServer'.serial}
  BY <1>1, <1>4 DEF SignInForms
<1>7. authServer'.live \subseteq 1..authServer'.serial /\ authServer.serial <= authServer'.serial
  BY <1>3, <1>4
<1>8. c.op = "setup" => New = authServer'.serial /\ authServer'.secret = New
  BY <1>4
<1> HIDE DEF New
<1> QED
  BY <1>1, <1>2, <1>3, <1>4, <1>5, <1>6, <1>7, <1>8, ServerKeeps

LEMMA ServerSignsInKeeps ==
  ASSUME SignInInv, NEW c \in authCalls, ServerSignsIn(c)
  PROVE  SignInInv'
<1>1. /\ c.stage = "sent" /\ overlap' = (overlap \/ \E d \in authCalls : d.stage = "read")
      /\ UNCHANGED <<app, login, totp, device, cookie>> /\ c.op \in {"first", "login", "code", "logout"}
  BY DEF ServerSignsIn
<1>2. /\ AuthRecord(c) /\ overlap \in BOOLEAN /\ authServer \in ServerRecords
      /\ authServer.live \subseteq 1..authServer.serial
  BY SignInTyped DEF SignInInv, SignInTypeOK, ServerRecords
<1>3. /\ New \in Nat /\ authServer.serial <= New /\ New \in Tokens /\ None \in Tokens
      /\ {New} \subseteq 1..New /\ 1..authServer.serial \subseteq 1..New
  BY <1>2 DEF New, ServerRecords, Tokens
<1> DEFINE Kept == /\ authServer' \in ServerRecords /\ authServer'.live \subseteq 1..authServer'.serial
                   /\ authServer.serial <= authServer'.serial
                   /\ authServer'.secret = authServer.secret /\ authServer'.enabled = authServer.enabled
<1>4. authServer' = authServer => Kept
  BY <1>2 DEF ServerRecords
<1>5. ASSUME NEW live \in SUBSET authServer.live, NEW users \in BOOLEAN,
             \/ authServer' = [authServer EXCEPT !.live = live \cup {New}, !.serial = New, !.users = users]
             \/ authServer' = [authServer EXCEPT !.live = live \cup {New}, !.serial = New]
             \/ authServer' = [authServer EXCEPT !.live = live]
      PROVE  Kept
  <2>1. CASE authServer' = [authServer EXCEPT !.live = live \cup {New}, !.serial = New, !.users = users]
    BY <1>2, <1>3, <2>1 DEF ServerRecords
  <2>2. CASE authServer' = [authServer EXCEPT !.live = live \cup {New}, !.serial = New]
    BY <1>2, <1>3, <2>2 DEF ServerRecords
  <2>3. CASE authServer' = [authServer EXCEPT !.live = live]
    BY <1>2, <2>3 DEF ServerRecords
  <2> QED
    BY <1>5, <2>1, <2>2, <2>3
<1> HIDE DEF Kept
<1>6. \E stage \in {"done", "refused", "challenged"}, out \in Tokens : Becomes(c, stage, out) /\ Kept
  <2>1. ASSUME Refused(c) PROVE Becomes(c, "refused", None) /\ Kept
    BY <1>4, <2>1 DEF Refused
  <2>2. CASE c.op = "first"
    <3>1. \/ Refused(c)
          \/ /\ Becomes(c, "done", New)
             /\ authServer' = [authServer EXCEPT !.live = {} \cup {New}, !.serial = New, !.users = TRUE]
      BY <2>2 DEF ServerSignsIn
    <3> QED
      BY <1>3, <1>5, <2>1, <3>1
  <2>3. CASE c.op = "login"
    <3>1. \/ Refused(c)
          \/ /\ Becomes(c, "challenged", New)
             /\ authServer' = [authServer EXCEPT !.live = authServer.live \cup {New}, !.serial = New]
          \/ /\ Becomes(c, "done", New)
             /\ authServer' = [authServer EXCEPT !.live = authServer.live \cup {New}, !.serial = New, !.users = TRUE]
      BY <2>3 DEF ServerSignsIn
    <3> QED
      BY <1>3, <1>5, <2>1, <3>1
  <2>4. CASE c.op = "code"
    <3> DEFINE live == authServer.live \ {c.arg.challenge}
    <3>1. \/ Refused(c)
          \/ /\ Becomes(c, "done", New)
             /\ authServer' = [authServer EXCEPT !.live = live \cup {New}, !.serial = New, !.users = TRUE]
          \/ Becomes(c, "refused", None) /\ authServer' = [authServer EXCEPT !.live = live]
      BY <2>4 DEF ServerSignsIn
    <3>2. live \subseteq authServer.live
      OBVIOUS
    <3> HIDE DEF live
    <3> QED
      BY <1>3, <1>5, <2>1, <3>1, <3>2
  <2>5. CASE c.op = "logout"
    <3>1. Becomes(c, "done", None) /\ authServer' = [authServer EXCEPT !.live = authServer.live \ {c.cookie}]
      BY <2>5 DEF ServerSignsIn
    <3> QED
      BY <1>3, <1>5, <3>1
  <2> QED
    BY <1>1, <2>2, <2>3, <2>4, <2>5
<1>7. PICK stage \in {"done", "refused", "challenged"}, out \in Tokens : Becomes(c, stage, out) /\ Kept
  BY <1>6
<1>8. ReadStillHolds'
  <2> DEFINE new == [c EXCEPT !.stage = stage, !.out = out]
  <2>1. authCalls' = (authCalls \ {c}) \cup {new} /\ new.stage # "read"
    BY <1>2, <1>7 DEF Becomes, AuthRecord
  <2> HIDE DEF new
  <2>2. \A e \in authCalls' : e.stage = "read" => e \in authCalls
    BY <2>1
  <2>3. ~overlap' => ~overlap
    BY <1>1, <1>2
  <2> QED
    BY <1>1, <1>7, <2>2, <2>3 DEF SignInInv, ReadStillHolds, Kept
<1>9. c.op # "setup" /\ overlap' \in BOOLEAN
  BY <1>1, <1>2
<1> QED
  BY <1>1, <1>7, <1>8, <1>9, ServerKeeps DEF Kept

LEMMA SignInStarts ==
  ASSUME SignInInit
  PROVE  SignInInv
<1>1. PICK users \in {"none", "plain", "totp"} :
        /\ authServer = [live |-> IF users = "plain" THEN {1} ELSE {}, serial |-> 2,
                         enabled |-> users = "totp", users |-> users # "none", codes |-> None,
                         secret |-> IF users = "totp" THEN 2 ELSE None]
        /\ device = IF users = "totp" THEN 2 ELSE None
        /\ cookie = IF users = "plain" THEN 1 ELSE None
  BY DEF SignInInit, Beginning
<1>2. /\ app = [shows |-> "loading", busy |-> FALSE, password |-> FALSE] /\ login = LoginForm
      /\ totp = None /\ overlap = FALSE /\ authCalls = {AuthCall("me", None)}
  BY DEF SignInInit
<1>3. device \in Tokens /\ cookie \in Tokens /\ login \in LoginRecords
  BY <1>1, <1>2 DEF Tokens, LoginForm, LoginRecords
<1> DEFINE me == AuthCall("me", None)
<1>4. AuthRecord(me) /\ me.op = "me" /\ me.stage = "sent"
  <2>1. "me" \in AuthOps
    BY DEF AuthOps
  <2> QED
    BY <1>3, <2>1 DEF AuthRecord, AuthCall, Tokens
<1>5. authCalls = {me}
  BY <1>2
<1> HIDE DEF me
<1>6. authServer \in ServerRecords /\ authServer.live \subseteq 1..authServer.serial
  BY <1>1 DEF ServerRecords, Tokens
<1>7. SignInTypeOK
  BY <1>2, <1>3, <1>4, <1>5, <1>6 DEF SignInTypeOK, ServerRecords, LoginRecords, AuthRecord
<1>8. ScreensFit /\ OneFormWaits
  BY <1>2, <1>4, <1>5 DEF ScreensFit, OneFormWaits, LoginOps, TotpForms
<1>9. SecretsGrow /\ ReadStillHolds
  <2>1. CASE users = "totp"
    BY <1>1, <1>2, <1>4, <1>5, <2>1, SignInAssumption DEF SecretsGrow, ReadStillHolds
  <2>2. CASE users # "totp"
    BY <1>1, <1>2, <1>4, <1>5, <2>2 DEF SecretsGrow, ReadStillHolds
  <2> QED
    BY <2>1, <2>2
<1> QED
  BY <1>7, <1>8, <1>9 DEF SignInInv

LEMMA SignInStep ==
  ASSUME SignInInv, SignInNext \/ UNCHANGED signInVars
  PROVE  SignInInv'
<1>1. CASE SignInUser
  BY <1>1, SubmitKeeps, TotpFormsKeep, SilentStepsKeep DEF SignInUser
<1>2. CASE SignInPopup
  BY <1>2, SilentStepsKeep, CloseTotpKeeps, ScanKeeps DEF SignInPopup
<1>3. CASE UNCHANGED signInVars
  <2>1. SignInTypeOK'
    BY <1>3 DEF signInVars, SignInInv, SignInTypeOK
  <2>2. ScreensFit' /\ OneFormWaits'
    BY <1>3 DEF signInVars, SignInInv, ScreensFit, OneFormWaits
  <2>3. SecretsGrow'
    BY <1>3 DEF signInVars, SignInInv, SecretsGrow, BetweenScanAndServer
  <2>4. ReadStillHolds'
    BY <1>3 DEF signInVars, SignInInv, ReadStillHolds
  <2> QED
    BY <2>1, <2>2, <2>3, <2>4 DEF SignInInv
<1>4. ASSUME NEW c \in authCalls, c.stage = "read"
      PROVE  c.op \in SignInForms
  BY <1>4 DEF SignInInv, ReadStillHolds
<1>5. ASSUME NEW c \in authCalls,
             \/ ReadUser(c) \/ WriteUser(c) \/ ServerSignsIn(c) \/ LogoutAnswer(c) \/ FormAnswer(c)
             \/ AuthFails(c)
      PROVE  SignInInv'
  BY <1>5, ReadUserKeeps, WriteUserKeeps, ServerSignsInKeeps, LogoutAnswerKeeps, FormAnswerKeeps,
     AuthFailsKeeps
<1>6. ASSUME NEW c \in authCalls,
             MeAnswer(c) \/ NeedsSetupAnswer(c) \/ LoginAnswer(c) \/ StatusAnswer(c)
      PROVE  SignInInv'
  <2>1. c.op \notin SignInForms
    BY <1>6 DEF MeAnswer, NeedsSetupAnswer, LoginAnswer, StatusAnswer, SignInForms
  <2> QED
    BY <1>4, <1>6, <2>1, StartAnswersKeep, LoginAnswerKeeps, StatusAnswerKeeps
<1>7. \/ SignInUser \/ SignInPopup \/ UNCHANGED signInVars
      \/ \E c \in authCalls :
           \/ AuthFails(c) \/ ReadUser(c) \/ WriteUser(c) \/ ServerSignsIn(c) \/ MeAnswer(c)
           \/ NeedsSetupAnswer(c) \/ LoginAnswer(c) \/ LogoutAnswer(c) \/ FormAnswer(c) \/ StatusAnswer(c)
  BY DEF SignInNext, ByUser, ByFault, ByItself
<1> QED
  BY <1>1, <1>2, <1>3, <1>5, <1>6, <1>7
-----------------------------------------------------------------------------
(* The calendar: the form holds the event it was opened with, until edited.    *)

\* A form of whole days has no hours, one of times has them; what is chosen can be
\* written; an unedited form has the times and the calendar of its event.
FormFits(f) ==
    /\ f.allDay <=> f.start.hour = None
    /\ f.allDay <=> f.end.hour = None
    /\ f.target \in Writable \cup {"local"} \/ (f.seen # None /\ f.target = f.initial)
    /\ f.seen # None /\ ~f.edited =>
          /\ f.target = f.initial /\ f.allDay = f.seen.allDay
          /\ Utc(f.start) = f.seen.start /\ Utc(f.end) = f.seen.end
FormAsSeen == calForm # None => FormFits(calForm)

CalInv == CalTypeOK /\ FormAsSeen /\ SavedAsShown

LEMMA CalParts ==
  /\ CalInv <=> /\ calView \in CalViews /\ calBusy \in BOOLEAN
                /\ detail \in CalEvents \cup {None} /\ calForm \in CalForms \cup {None}
                /\ calLists \in [events : SUBSET CalEvents, task : CalTasks, cals : SUBSET Calendars]
                /\ calServer \in CalServers /\ IsFiniteSet(calServer.events)
                /\ (\A c \in calCalls : CalCallOK(c)) /\ FormAsSeen /\ SavedAsShown
  /\ CalInv' <=> /\ calView' \in CalViews /\ calBusy' \in BOOLEAN
                 /\ detail' \in CalEvents \cup {None} /\ calForm' \in CalForms \cup {None}
                 /\ calLists' \in [events : SUBSET CalEvents, task : CalTasks, cals : SUBSET Calendars]
                 /\ calServer' \in CalServers /\ IsFiniteSet(calServer'.events)
                 /\ (\A c \in calCalls' : CalCallOK(c)) /\ FormAsSeen' /\ SavedAsShown'
  BY DEF CalInv, CalTypeOK

LEMMA DayAndHour ==
  ASSUME NEW t \in Int
  PROVE  /\ t \div Hours \in Int /\ t % Hours \in 0..Hours - 1
         /\ ((t \div Hours) * Hours) + (t % Hours) = t
<1>1. PICK h \in Nat \ {0} : h = Hours
  BY CalendarAssumption
<1>2. ((t \div h) * h) + (t % h) = t /\ t % h \in 0..(h - 1) /\ t \div h \in Int
  OBVIOUS
<1> QED
  BY <1>1, <1>2

\* What the form shows of a time is that time, in whichever zone.
LEMMA FormKeepsTime ==
  ASSUME NEW t \in Int
  PROVE  /\ Stamp(LocalDay(t), Local(t) % Hours) \in Stamps
         /\ Stamp(LocalDay(t), Local(t) % Hours).hour # None
         /\ Utc(Stamp(LocalDay(t), Local(t) % Hours)) = t
<1>1. Local(t) \in Int
  BY CalendarAssumption DEF Local
<1>2. /\ Local(t) \div Hours \in Int /\ Local(t) % Hours \in 0..Hours - 1
      /\ ((Local(t) \div Hours) * Hours) + (Local(t) % Hours) = Local(t)
  BY <1>1, DayAndHour
<1>3. PICK s : s = Stamp(LocalDay(t), Local(t) % Hours)
  OBVIOUS
<1>4. s.day = Local(t) \div Hours /\ s.hour = Local(t) % Hours /\ s \in Stamps
  BY <1>2, <1>3 DEF Stamp, Stamps, LocalDay
<1>5. s.hour # None
  BY <1>2, <1>4, EventAssumption, CalendarAssumption
<1>6. Utc(s) = (s.day * Hours) + s.hour - Zone
  BY <1>5 DEF Utc
<1>7. Utc(s) = t
  <2>1. PICK k : k = s.day * Hours
    OBVIOUS
  <2>2. k + s.hour = t + Zone
    BY <1>2, <1>4, <2>1 DEF Local
  <2>3. k \in Int /\ s.hour \in Int
    BY <1>2, <1>4, <2>1, CalendarAssumption
  <2>4. Utc(s) = k + s.hour - Zone
    BY <1>6, <2>1
  <2> QED
    BY <2>2, <2>3, <2>4, CalendarAssumption
<1> QED
  BY <1>3, <1>4, <1>5, <1>7

LEMMA FormKeepsDay ==
  ASSUME NEW t \in Int, t % Hours = 0
  PROVE  /\ Stamp(t \div Hours, None) \in Stamps /\ Stamp(t \div Hours, None).hour = None
         /\ Utc(Stamp(t \div Hours, None)) = t
<1>1. PICK s : s = Stamp(t \div Hours, None)
  OBVIOUS
<1>2. t \div Hours \in Int /\ (t \div Hours) * Hours = t
  BY DayAndHour, CalendarAssumption
<1>3. s.day = t \div Hours /\ s.hour = None /\ s \in Stamps
  BY <1>1, <1>2 DEF Stamp, Stamps
<1>4. Utc(s) = t
  BY <1>2, <1>3 DEF Utc
<1> QED
  BY <1>1, <1>3, <1>4

LEMMA UtcFits ==
  ASSUME NEW s \in Stamps
  PROVE  Utc(s) \in Int /\ (s.hour = None => Utc(s) % Hours = 0)
<1>1. s.day \in Int /\ s.hour \in (0..Hours - 1) \cup {None} /\ s.day * Hours \in Int
  BY CalendarAssumption DEF Stamps
<1>2. CASE s.hour = None
  <2>1. PICK x : x = s.day * Hours
    OBVIOUS
  <2>2. (s.day * Hours) % Hours = 0
    BY <1>1, CalendarAssumption
  <2> QED
    BY <1>1, <1>2, <2>2 DEF Utc
<1>3. CASE s.hour # None
  BY <1>1, <1>3, CalendarAssumption DEF Utc
<1> QED
  BY <1>2, <1>3

LEMMA FormFields ==
  ASSUME NEW f \in CalForms
  PROVE  /\ f.seen \in CalEvents \cup {None} /\ f.start \in Stamps /\ f.end \in Stamps /\ f.allDay \in BOOLEAN
         /\ f.target \in Calendars \cup {"local", "foreign"} /\ f.initial \in Calendars \cup {"local", "foreign"}
         /\ f.retarget \in BOOLEAN /\ f.edited \in BOOLEAN
  BY DEF CalForms

LEMMA EventFields ==
  ASSUME NEW ev \in CalEvents
  PROVE  /\ ev.id \in Nat /\ ev.start \in Int /\ ev.end \in Int /\ ev.allDay \in BOOLEAN
         /\ ev.cal \in Calendars \cup {"local", "foreign"} /\ ev # None
         /\ ev.allDay => ev.start % Hours = 0 /\ ev.end % Hours = 0
  BY EventAssumption DEF CalEvents

\* An event in its dialog, opened in the form, or left there.
LEMMA LooksKeep ==
  ASSUME CalInv, UNCHANGED <<calForm, calCalls, calServer>>,
         calView' \in CalViews, calBusy' \in BOOLEAN, detail' \in CalEvents \cup {None},
         calLists' \in [events : SUBSET CalEvents, task : CalTasks, cals : SUBSET Calendars]
  PROVE  CalInv'
<1>1. FormAsSeen'
  BY CalParts DEF FormAsSeen
<1>2. SavedAsShown'
  BY CalParts DEF SavedAsShown
<1> QED
  BY <1>1, <1>2, CalParts

LEMMA ViewKeeps ==
  ASSUME CalInv, NEW v \in CalViews, Look(v)
  PROVE  CalInv'
  BY CalParts, LooksKeep DEF Look

LEMMA ViewWith ==
  ASSUME NEW v \in CalViews
  PROVE  /\ \A m \in {"month", "agenda", "tasks"} : [v EXCEPT !.mode = m] \in CalViews
         /\ \A n \in Int, d \in 0..LastDay \cup {None} : [v EXCEPT !.month = n, !.day = d] \in CalViews
         /\ \A d, p \in 0..LastDay \cup {None} : [v EXCEPT !.day = d, !.popup = p] \in CalViews
         /\ \A p \in 0..LastDay \cup {None} : [v EXCEPT !.popup = p] \in CalViews
         /\ \A hs \in SUBSET {"local"} : [v EXCEPT !.hidden = hs] \in CalViews
  BY DEF CalViews

LEMMA MonthIsInt ==
  ASSUME NEW d \in Int
  PROVE  MonthOf(d) \in Int
<1>1. PICK h \in Nat \ {0} : h = MonthDays
  BY CalendarAssumption
<1>2. d \div h \in Int
  OBVIOUS
<1> QED
  BY <1>1, <1>2 DEF MonthOf

LEMMA LookingKeeps ==
  ASSUME CalInv,
         \/ \E m \in {"month", "agenda", "tasks"} : SetMode(m)
         \/ \E delta \in {-1, 1} : Shift(delta)
         \/ GoToday \/ ClosePopup \/ \E d \in 0..LastDay : SelectDay(d)
  PROVE  CalInv'
<1>1. calView \in CalViews
  BY CalParts
<1>2. PICK none : none = None
  OBVIOUS
<1>3. none \in 0..LastDay \cup {None}
  BY <1>2
<1>4. ASSUME NEW m \in {"month", "agenda", "tasks"}, SetMode(m) PROVE CalInv'
  BY <1>1, <1>4, ViewWith, ViewKeeps DEF SetMode
<1>5. ASSUME NEW delta \in {-1, 1}, Shift(delta) PROVE CalInv'
  <2>1. PICK n : n = calView.month + delta
    OBVIOUS
  <2>2. n \in Int
    BY <1>1, <2>1 DEF CalViews
  <2>3. Look([calView EXCEPT !.month = n, !.day = none])
    BY <1>2, <1>5, <2>1 DEF Shift
  <2> QED
    BY <1>1, <1>3, <2>2, <2>3, ViewWith, ViewKeeps
<1>6. CASE GoToday
  <2>1. PICK n : n = MonthOf(Today)
    OBVIOUS
  <2>2. n \in Int
    BY <2>1, MonthIsInt, CalendarAssumption
  <2>3. Look([calView EXCEPT !.month = n, !.day = none])
    BY <1>2, <1>6, <2>1 DEF GoToday
  <2> QED
    BY <1>1, <1>3, <2>2, <2>3, ViewWith, ViewKeeps
<1>7. CASE ClosePopup
  BY <1>1, <1>2, <1>3, <1>7, ViewWith, ViewKeeps DEF ClosePopup
<1>8. ASSUME NEW d \in 0..LastDay, SelectDay(d) PROVE CalInv'
  <2>1. d \in 0..LastDay \cup {None}
    OBVIOUS
  <2> QED
    BY <1>1, <1>8, <2>1, ViewWith, ViewKeeps DEF SelectDay
<1> QED
  BY <1>4, <1>5, <1>6, <1>7, <1>8

LEMMA DetailKeeps ==
  ASSUME CalInv, CloseDetail \/ \E ev \in calLists.events : OpenDetail(ev)
  PROVE  CalInv'
<1>1. CASE CloseDetail
  BY <1>1, CalParts, LooksKeep DEF CloseDetail
<1>2. ASSUME NEW ev \in calLists.events, OpenDetail(ev) PROVE CalInv'
  <2>1. ev \in CalEvents
    BY CalParts
  <2> QED
    BY <1>2, <2>1, CalParts, LooksKeep DEF OpenDetail
<1> QED
  BY <1>1, <1>2

\* The form opened, edited or closed.
LEMMA FormKeeps ==
  ASSUME CalInv, UNCHANGED <<calBusy, calLists, calCalls, calServer>>,
         calView' \in CalViews, detail' \in CalEvents \cup {None},
         calForm' = None \/ (calForm' \in CalForms /\ FormFits(calForm'))
  PROVE  CalInv'
<1>1. FormAsSeen'
  BY DEF FormAsSeen
<1>2. SavedAsShown'
  BY CalParts DEF SavedAsShown
<1> QED
  BY <1>1, <1>2, CalParts

LEMMA OpenFormKeeps ==
  ASSUME CalInv, NEW f \in CalForms, FormFits(f), OpenForm(f)
  PROVE  CalInv'
<1>1. PICK p \in 0..LastDay \cup {None} : p = None
  OBVIOUS
<1>2. calView' = [calView EXCEPT !.popup = p] /\ calForm' = f /\ detail' = None
  BY <1>1 DEF OpenForm
<1>3. calView' \in CalViews
  BY <1>2, CalParts, ViewWith
<1>4. UNCHANGED <<calBusy, calLists, calCalls, calServer>>
  BY DEF OpenForm
<1> QED
  BY <1>2, <1>3, <1>4, FormKeeps

LEMMA NewStamp ==
  ASSUME NEW d \in Int, NEW h \in {0, 1}
  PROVE  Stamp(d, h) \in Stamps /\ Stamp(d, h).hour # None
  BY CalendarAssumption, EventAssumption DEF Stamp, Stamps

LEMMA OpenCreateKeeps ==
  ASSUME CalInv, OpenCreate
  PROVE  CalInv'
<1>1. PICK day : day = IF calView.day = None THEN Today ELSE calView.day
  OBVIOUS
<1>2. day \in Int
  BY <1>1, CalParts, CalendarAssumption DEF CalViews
<1>3. PICK target \in DefaultTargets :
        OpenForm([seen |-> None, start |-> Stamp(day, 0), end |-> Stamp(day, 1),
                  allDay |-> FALSE, target |-> target, initial |-> target,
                  retarget |-> TRUE, edited |-> FALSE])
  BY <1>1 DEF OpenCreate
<1>4. target \in Writable \cup {"local"}
  BY <1>3 DEF DefaultTargets
<1>5. target \in Calendars \cup {"local", "foreign"}
  BY <1>4, CalendarAssumption
<1>6. PICK s \in Stamps : s = Stamp(day, 0) /\ s.hour # None
  BY <1>2, NewStamp
<1>7. PICK e \in Stamps : e = Stamp(day, 1) /\ e.hour # None
  BY <1>2, NewStamp
<1>8. PICK f : f = [seen |-> None, start |-> s, end |-> e, allDay |-> FALSE, target |-> target,
                    initial |-> target, retarget |-> TRUE, edited |-> FALSE]
  OBVIOUS
<1>9. f \in CalForms
  BY <1>5, <1>8 DEF CalForms
<1>10. f.start = s /\ f.end = e /\ f.allDay = FALSE /\ f.target = target /\ f.seen = None
  BY <1>8
<1>11. FormFits(f)
  BY <1>4, <1>6, <1>7, <1>10 DEF FormFits
<1>12. OpenForm(f)
  BY <1>3, <1>6, <1>7, <1>8
<1> QED
  BY <1>9, <1>11, <1>12, OpenFormKeeps

LEMMA FieldFits ==
  ASSUME NEW ev \in CalEvents, NEW t \in Int, ev.allDay => t % Hours = 0, NEW s,
         s = IF ev.allDay THEN Stamp(t \div Hours, None) ELSE Stamp(LocalDay(t), Local(t) % Hours)
  PROVE  s \in Stamps /\ Utc(s) = t /\ (ev.allDay <=> s.hour = None)
  BY FormKeepsTime, FormKeepsDay, EventFields

LEMMA OpenEditKeeps ==
  ASSUME CalInv, NEW ev \in calLists.events, OpenEdit(ev)
  PROVE  CalInv'
<1>1. /\ ev \in CalEvents /\ ev.start \in Int /\ ev.end \in Int /\ ev.allDay \in BOOLEAN /\ ev # None
      /\ ev.cal \in Calendars \cup {"local", "foreign"}
      /\ ev.allDay => ev.start % Hours = 0 /\ ev.end % Hours = 0
  BY CalParts, EventFields
<1>2. PICK s : s = IF ev.allDay THEN Stamp(ev.start \div Hours, None)
                   ELSE Stamp(LocalDay(ev.start), Local(ev.start) % Hours)
  OBVIOUS
<1>3. s \in Stamps /\ Utc(s) = ev.start /\ (ev.allDay <=> s.hour = None)
  BY <1>1, <1>2, FieldFits
<1>4. PICK e : e = IF ev.allDay THEN Stamp(ev.end \div Hours, None)
                   ELSE Stamp(LocalDay(ev.end), Local(ev.end) % Hours)
  OBVIOUS
<1>5. e \in Stamps /\ Utc(e) = ev.end /\ (ev.allDay <=> e.hour = None)
  BY <1>1, <1>4, FieldFits
<1>6. PICK re \in BOOLEAN : re = (ev.cal # "foreign")
  OBVIOUS
<1>7. PICK f : f = [seen |-> ev, start |-> s, end |-> e, allDay |-> ev.allDay, target |-> ev.cal,
                    initial |-> ev.cal, retarget |-> re, edited |-> FALSE]
  OBVIOUS
<1>8. f \in CalForms
  BY <1>1, <1>3, <1>5, <1>7 DEF CalForms
<1>9. f.start = s /\ f.end = e /\ f.allDay = ev.allDay /\ f.target = ev.cal /\ f.initial = ev.cal /\ f.seen = ev
  BY <1>7
<1>10. FormFits(f)
  BY <1>1, <1>3, <1>5, <1>9 DEF FormFits
<1>11. OpenForm(f)
  BY <1>2, <1>4, <1>6, <1>7 DEF OpenEdit
<1> QED
  BY <1>8, <1>10, <1>11, OpenFormKeeps

LEMMA EditedKeeps ==
  ASSUME CalInv, NEW f \in CalForms, Edited(f),
         f.allDay <=> f.start.hour = None, f.allDay <=> f.end.hour = None,
         f.target \in Writable \cup {"local"} \/ (f.seen # None /\ f.target = f.initial)
  PROVE  CalInv'
<1>1. PICK yes \in BOOLEAN : yes = TRUE
  OBVIOUS
<1>2. PICK g : g = [f EXCEPT !.edited = yes]
  OBVIOUS
<1>3. /\ g \in CalForms /\ g.edited /\ g.start = f.start /\ g.end = f.end /\ g.allDay = f.allDay
      /\ g.target = f.target /\ g.initial = f.initial /\ g.seen = f.seen
  BY <1>1, <1>2 DEF CalForms
<1>4. FormFits(g)
  BY <1>3 DEF FormFits
<1>5. calForm' = g /\ UNCHANGED <<calView, detail, calBusy, calLists, calCalls, calServer>>
  BY <1>1, <1>2 DEF Edited
<1> QED
  BY <1>3, <1>4, <1>5, FormKeeps, CalParts

LEMMA ToggleKeeps ==
  ASSUME CalInv, ToggleAllDay
  PROVE  CalInv'
<1>1. calForm # None /\ calForm \in CalForms /\ FormFits(calForm)
  BY CalParts DEF ToggleAllDay, Edited, FormAsSeen
<1>2. PICK s : s = IF calForm.allDay THEN Timed(calForm.start, 0) ELSE DateOnly(calForm.start)
  OBVIOUS
<1>3. PICK e : e = IF calForm.allDay THEN Timed(calForm.end, 1) ELSE DateOnly(calForm.end)
  OBVIOUS
<1>4. PICK a \in BOOLEAN : a = ~calForm.allDay
  OBVIOUS
<1>5. /\ calForm.start \in Stamps /\ calForm.end \in Stamps
      /\ calForm.start.day \in Int /\ calForm.end.day \in Int
  BY <1>1, FormFields DEF Stamps
<1>6. s \in Stamps /\ (a <=> s.hour = None)
  <2>1. CASE calForm.allDay
    <3>1. s = Stamp(calForm.start.day, 0)
      BY <1>1, <1>2, <2>1 DEF Timed, FormFits
    <3>2. PICK z \in {0, 1} : z = 0
      OBVIOUS
    <3> QED
      BY <1>4, <1>5, <2>1, <3>1, <3>2, NewStamp
  <2>2. CASE ~calForm.allDay
    BY <1>2, <1>4, <1>5, <2>2 DEF DateOnly, Stamp, Stamps
  <2> QED
    BY <2>1, <2>2
<1>7. e \in Stamps /\ (a <=> e.hour = None)
  <2>1. CASE calForm.allDay
    <3>1. e = Stamp(calForm.end.day, 1)
      BY <1>1, <1>3, <2>1 DEF Timed, FormFits
    <3>2. PICK z \in {0, 1} : z = 1
      OBVIOUS
    <3> QED
      BY <1>4, <1>5, <2>1, <3>1, <3>2, NewStamp
  <2>2. CASE ~calForm.allDay
    BY <1>3, <1>4, <1>5, <2>2 DEF DateOnly, Stamp, Stamps
  <2> QED
    BY <2>1, <2>2
<1>8. PICK f : f = [calForm EXCEPT !.allDay = a, !.start = s, !.end = e]
  OBVIOUS
<1>9. Edited(f)
  <2>1. CASE calForm.allDay
    <3>1. a = FALSE
      BY <1>4, <2>1
    <3> QED
      BY <1>2, <1>3, <1>8, <2>1, <3>1 DEF ToggleAllDay
  <2>2. CASE ~calForm.allDay
    <3>1. a = TRUE
      BY <1>4, <2>2
    <3> QED
      BY <1>2, <1>3, <1>8, <2>2, <3>1 DEF ToggleAllDay
  <2> QED
    BY <2>1, <2>2
<1>10. /\ f \in CalForms /\ f.allDay = a /\ f.start = s /\ f.end = e /\ f.target = calForm.target
       /\ f.seen = calForm.seen /\ f.initial = calForm.initial
  BY <1>1, <1>6, <1>7, <1>8 DEF CalForms
<1> QED
  BY <1>1, <1>6, <1>7, <1>9, <1>10, EditedKeeps DEF FormFits

LEMMA SetEndKeeps ==
  ASSUME CalInv, NEW d \in 0..LastDay, SetEnd(d)
  PROVE  CalInv'
<1>1. calForm # None /\ calForm \in CalForms /\ FormFits(calForm)
  BY CalParts DEF SetEnd, Edited, FormAsSeen
<1>2. PICK e : e = [calForm.end EXCEPT !.day = d]
  OBVIOUS
<1>3. e \in Stamps /\ e.hour = calForm.end.hour
  <2>1. calForm.end \in Stamps /\ d \in Int
    BY <1>1, FormFields
  <2> QED
    BY <1>2, <2>1 DEF Stamps
<1>4. PICK f : f = [calForm EXCEPT !.end = e]
  OBVIOUS
<1>5. Edited(f)
  BY <1>2, <1>4 DEF SetEnd
<1>6. /\ f \in CalForms /\ f.allDay = calForm.allDay /\ f.start = calForm.start /\ f.end = e
      /\ f.target = calForm.target /\ f.seen = calForm.seen /\ f.initial = calForm.initial
  BY <1>1, <1>3, <1>4 DEF CalForms
<1> QED
  BY <1>1, <1>3, <1>5, <1>6, EditedKeeps DEF FormFits

LEMMA SetTargetKeeps ==
  ASSUME CalInv, NEW c \in Calendars \cup {"local"}, SetTarget(c)
  PROVE  CalInv'
<1>1. calForm # None /\ calForm \in CalForms /\ FormFits(calForm)
  BY CalParts DEF SetTarget, FormAsSeen
<1>2. c \in Writable \cup {"local"} /\ c \in Calendars \cup {"local", "foreign"}
  BY DEF SetTarget
<1>3. PICK f : f = [calForm EXCEPT !.target = c]
  OBVIOUS
<1>4. Edited(f)
  BY <1>3 DEF SetTarget
<1>5. /\ f \in CalForms /\ f.allDay = calForm.allDay /\ f.start = calForm.start /\ f.end = calForm.end
      /\ f.target = c
  BY <1>1, <1>2, <1>3 DEF CalForms
<1> QED
  BY <1>1, <1>2, <1>4, <1>5, EditedKeeps DEF FormFits

LEMMA CloseFormKeeps ==
  ASSUME CalInv, CloseForm
  PROVE  CalInv'
  BY FormKeeps, CalParts DEF CloseForm

\* Another request, fewer, or other ones in place of one.
LEMMA CallsKeep ==
  ASSUME CalInv, UNCHANGED <<calForm, calServer>>,
         calView' \in CalViews, calBusy' \in BOOLEAN, detail' \in CalEvents \cup {None},
         calLists' \in [events : SUBSET CalEvents, task : CalTasks, cals : SUBSET Calendars],
         \A c \in calCalls' \ calCalls : CalCallOK(c) /\ c.op # "save"
  PROVE  CalInv'
<1>1. FormAsSeen'
  BY CalParts DEF FormAsSeen
<1>2. SavedAsShown'
  BY CalParts DEF SavedAsShown
<1> QED
  BY <1>1, <1>2, CalParts

\* A request as it is sent, with what it asks for.
LEMMA CallFields ==
  ASSUME NEW op \in CalOps, NEW p, NEW ev \in CalEvents \cup {None}, NEW e \in BOOLEAN, NEW c, c = Call(op, p, ev, e)
  PROVE  /\ c \in [op : CalOps, payload : {c.payload}, seen : CalEvents \cup {None}, edited : BOOLEAN,
                   stage : {"sent", "done", "refused", "lists", "calendars", "hidden"},
                   got : CalServers \cup {None}]
         /\ c.op = op /\ c.payload = p /\ c.seen = ev /\ c.edited = e /\ c.stage = "sent"
<1>1. c = [op |-> op, payload |-> p, seen |-> ev, edited |-> e, stage |-> "sent", got |-> None]
  BY DEF Call
<1>2. PICK g \in CalServers \cup {None} : g = None
  OBVIOUS
<1>3. PICK st \in {"sent", "done", "refused", "lists", "calendars", "hidden"} : st = "sent"
  OBVIOUS
<1>4. PICK q \in {p} : q = p
  OBVIOUS
<1>5. c = [op |-> op, payload |-> q, seen |-> ev, edited |-> e, stage |-> st, got |-> g]
  BY <1>1, <1>2, <1>3, <1>4
<1>6. /\ c \in [op : CalOps, payload : {p}, seen : CalEvents \cup {None}, edited : BOOLEAN,
                stage : {"sent", "done", "refused", "lists", "calendars", "hidden"},
                got : CalServers \cup {None}]
      /\ c.payload = p
  BY <1>4, <1>5
<1> QED
  BY <1>1, <1>6

LEMMA AddKeeps ==
  ASSUME CalInv, Add
  PROVE  CalInv'
<1>1. calForm # None /\ calForm \in CalForms /\ FormFits(calForm)
  BY CalParts DEF Add, FormAsSeen
<1>2. PICK moved \in BOOLEAN :
         moved = (calForm.seen = None \/ (calForm.retarget /\ calForm.target # calForm.initial))
  OBVIOUS
<1>3. PICK cal : cal = IF moved THEN calForm.target ELSE KeepCal
  OBVIOUS
<1>4. /\ cal \in Calendars \cup {"local", "foreign", KeepCal} /\ cal \in Writable \cup {"local", KeepCal}
      /\ cal = KeepCal => calForm.seen # None
      /\ calForm.seen # None /\ ~calForm.edited => cal = KeepCal
  <2>1. calForm.target \in Calendars \cup {"local", "foreign"} /\ calForm.target # KeepCal
    BY <1>1, FormFields, CalendarAssumption DEF KeepCal
  <2>2. CASE moved
    BY <1>1, <1>2, <1>3, <2>1, <2>2 DEF FormFits
  <2>3. CASE ~moved
    BY <1>2, <1>3, <2>3
  <2> QED
    BY <2>2, <2>3
<1>5. PICK s \in Int : s = Utc(calForm.start) /\ (calForm.allDay => s % Hours = 0)
  BY <1>1, FormFields, UtcFits DEF FormFits
<1>6. PICK e \in Int : e = Utc(calForm.end) /\ (calForm.allDay => e % Hours = 0)
  BY <1>1, FormFields, UtcFits DEF FormFits
<1>7. PICK a \in BOOLEAN : a = calForm.allDay
  BY <1>1, FormFields
<1>8. PICK p : p = [start |-> s, end |-> e, allDay |-> a, cal |-> cal]
  OBVIOUS
<1>9. p \in CalPayloads /\ p.cal = cal
  BY <1>4, <1>5, <1>6, <1>7, <1>8 DEF CalPayloads
<1>10. PICK c : c = Call("save", p, calForm.seen, calForm.edited)
  OBVIOUS
<1>11. /\ c \in [op : CalOps, payload : {c.payload}, seen : CalEvents \cup {None}, edited : BOOLEAN,
                 stage : {"sent", "done", "refused", "lists", "calendars", "hidden"},
                 got : CalServers \cup {None}]
       /\ c.op = "save" /\ c.payload = p /\ c.seen = calForm.seen /\ c.edited = calForm.edited /\ c.stage = "sent"
  <2>1. PICK op \in CalOps : op = "save"
    BY DEF CalOps
  <2> QED
    BY <1>1, <1>10, <2>1, FormFields, CallFields
<1>12. CalCallOK(c)
  BY <1>4, <1>9, <1>11 DEF CalCallOK
<1>13. calCalls' = calCalls \cup {c} /\ calBusy' = TRUE /\ UNCHANGED <<calView, detail, calForm, calLists, calServer>>
  BY <1>2, <1>3, <1>5, <1>6, <1>7, <1>8, <1>10 DEF Add
<1>14. FormAsSeen'
  BY <1>13, CalParts DEF FormAsSeen
<1>15. c.payload.cal \in Writable \cup {"local", KeepCal}
  BY <1>4, <1>9, <1>11
<1>16. c.seen # None /\ ~c.edited =>
         c.payload = [start |-> c.seen.start, end |-> c.seen.end, allDay |-> c.seen.allDay, cal |-> KeepCal]
  BY <1>1, <1>4, <1>5, <1>6, <1>7, <1>8, <1>11 DEF FormFits
<1>17. SavedAsShown'
  BY <1>13, <1>15, <1>16, CalParts DEF SavedAsShown
<1> QED
  BY <1>12, <1>13, <1>14, <1>17, CalParts

LEMMA RemoveEventKeeps ==
  ASSUME CalInv, RemoveEvent
  PROVE  CalInv'
<1>a. PICK e \in BOOLEAN : e = FALSE
  OBVIOUS
<1>1. PICK c : c = Call("remove", None, detail, e)
  OBVIOUS
<1>2. CalCallOK(c) /\ c.op # "save"
  <2>1. PICK op \in CalOps : op = "remove"
    BY DEF CalOps
  <2>3. detail \in CalEvents \cup {None}
    BY CalParts
  <2>4. /\ c \in [op : CalOps, payload : {c.payload}, seen : CalEvents \cup {None}, edited : BOOLEAN,
                  stage : {"sent", "done", "refused", "lists", "calendars", "hidden"},
                  got : CalServers \cup {None}]
        /\ c.op = "remove" /\ c.stage = "sent"
    BY <1>1, <2>1, <2>3, CallFields
  <2> QED
    BY <2>4 DEF CalCallOK
<1>3. calCalls' = calCalls \cup {c} /\ calBusy' = TRUE /\ UNCHANGED <<calView, detail, calForm, calLists, calServer>>
  BY <1>a, <1>1 DEF RemoveEvent
<1> QED
  BY <1>2, <1>3, CallsKeep, CalParts

LEMMA TaskKeeps ==
  ASSUME CalInv, AddTask \/ ToggleTask \/ RemoveTask
  PROVE  CalInv'
<1>1. PICK op \in {"addTask", "setTask"}, p \in CalTasks \cup {None} :
        TaskCall(op, p) /\ (op = "setTask" => p \in CalTasks)
  <2>1. CASE AddTask
    BY <2>1 DEF AddTask
  <2>2. CASE ToggleTask
    <3>1. PICK p : p = IF calLists.task = "done" THEN "open" ELSE "done"
      OBVIOUS
    <3>2. p \in CalTasks
      BY <3>1 DEF CalTasks
    <3> QED
      BY <2>2, <3>1, <3>2 DEF ToggleTask
  <2>3. CASE RemoveTask
    BY <2>3 DEF RemoveTask, CalTasks
  <2> QED
    BY <2>1, <2>2, <2>3
<1>a. PICK e \in BOOLEAN : e = FALSE
  OBVIOUS
<1>2. PICK c : c = Call(op, p, None, e)
  OBVIOUS
<1>3. CalCallOK(c) /\ c.op # "save"
  <2>1. op \in CalOps
    BY DEF CalOps
  <2>3. PICK ev \in CalEvents \cup {None} : ev = None
    OBVIOUS
  <2>4. /\ c \in [op : CalOps, payload : {c.payload}, seen : CalEvents \cup {None}, edited : BOOLEAN,
                  stage : {"sent", "done", "refused", "lists", "calendars", "hidden"},
                  got : CalServers \cup {None}]
        /\ c.op = op /\ c.stage = "sent" /\ c.payload = p /\ c.seen = None
    BY <1>2, <2>1, <2>3, CallFields
  <2> QED
    BY <1>1, <2>4 DEF CalCallOK
<1>4. calCalls' = calCalls \cup {c} /\ UNCHANGED <<calView, detail, calForm, calBusy, calLists, calServer>>
  BY <1>a, <1>1, <1>2 DEF TaskCall
<1> QED
  BY <1>3, <1>4, CallsKeep, CalParts

\* Among one number more than there are events one is free.
LEMMA NewIdIsNew ==
  ASSUME NEW evs \in SUBSET CalEvents, IsFiniteSet(evs)
  PROVE  NewId(evs) \in Nat
<1>1. PICK n \in Nat : n = Cardinality(evs)
  BY FS_CardinalityType
<1>2. \E i \in 1..n + 1 : \A ev \in evs : ev.id # i
  <2>1. SUFFICES ASSUME \A i \in 1..n + 1 : \E ev \in evs : ev.id = i
                 PROVE  FALSE
    OBVIOUS
  <2>2. PICK f : f = [i \in 1..n + 1 |-> CHOOSE ev \in evs : ev.id = i]
    OBVIOUS
  <2>3. f \in [1..n + 1 -> evs] /\ \A i \in 1..n + 1 : f[i].id = i
    BY <2>1, <2>2
  <2>4. IsFiniteSet(1..n + 1) /\ Cardinality(1..n + 1) = n + 1
    <3>1. PICK m \in Nat : m = n + 1
      OBVIOUS
    <3>2. IsFiniteSet(1..m) /\ Cardinality(1..m) = m
      BY FS_Interval
    <3> QED
      BY <3>1, <3>2
  <2>5. PICK i \in 1..n + 1, j \in 1..n + 1 : i # j /\ f[i] = f[j]
    BY <1>1, <2>3, <2>4, FS_PigeonHole
  <2> QED
    BY <2>3, <2>5
<1>3. NewId(evs) \in 1..n + 1
  BY <1>1, <1>2 DEF NewId
<1> QED
  BY <1>3

\* A request in another stage keeps what it asks for.
LEMMA StageAlone ==
  ASSUME NEW c, CalCallOK(c), NEW st \in {"sent", "done", "refused", "lists", "calendars", "hidden"},
         st \in {"lists", "calendars", "hidden"} => c.got \in CalServers,
         NEW d, d = [c EXCEPT !.stage = st]
  PROVE  CalCallOK(d) /\ d.op = c.op /\ d.payload = c.payload /\ d.seen = c.seen /\ d.edited = c.edited
<1>1. c \in [op : CalOps, payload : {c.payload}, seen : CalEvents \cup {None}, edited : BOOLEAN,
             stage : {"sent", "done", "refused", "lists", "calendars", "hidden"},
             got : CalServers \cup {None}]
  BY DEF CalCallOK
<1>2. /\ d \in [op : CalOps, payload : {c.payload}, seen : CalEvents \cup {None}, edited : BOOLEAN,
                stage : {"sent", "done", "refused", "lists", "calendars", "hidden"},
                got : CalServers \cup {None}]
      /\ d.op = c.op /\ d.payload = c.payload /\ d.seen = c.seen /\ d.edited = c.edited /\ d.stage = st
      /\ d.got = c.got
  BY <1>1
<1> QED
  BY <1>2 DEF CalCallOK

LEMMA SavedFits ==
  ASSUME CalInv, NEW c \in calCalls, c.op = "save"
  PROVE  Saved(c) \in SUBSET CalEvents /\ IsFiniteSet(Saved(c))
<1>1. /\ c.payload \in CalPayloads /\ c.seen \in CalEvents \cup {None}
      /\ c.payload.cal = KeepCal => c.seen # None
  BY CalParts DEF CalCallOK
<1>2. calServer.events \in SUBSET CalEvents /\ IsFiniteSet(calServer.events)
  BY CalParts DEF CalServers
<1>3. PICK cal : cal = IF c.payload.cal = KeepCal THEN c.seen.cal ELSE c.payload.cal
  OBVIOUS
<1>4. cal \in Calendars \cup {"local", "foreign"}
  <2>1. CASE c.payload.cal = KeepCal
    BY <1>1, <1>3, <2>1, EventFields
  <2>2. CASE c.payload.cal # KeepCal
    BY <1>1, <1>3, <2>2 DEF CalPayloads
  <2> QED
    BY <2>1, <2>2
<1>5. ASSUME NEW id \in Nat
      PROVE  [id |-> id, start |-> c.payload.start, end |-> c.payload.end,
              allDay |-> c.payload.allDay, cal |-> cal] \in CalEvents
  BY <1>1, <1>4 DEF CalEvents, CalPayloads
<1>6. CASE c.seen = None
  <2>1. PICK i \in Nat : i = NewId(calServer.events)
    BY <1>2, NewIdIsNew
  <2>2. PICK ev \in CalEvents : ev = [id |-> i, start |-> c.payload.start, end |-> c.payload.end,
                                      allDay |-> c.payload.allDay, cal |-> cal]
    BY <1>5
  <2>3. Saved(c) = calServer.events \cup {ev}
    BY <1>3, <1>6, <2>1, <2>2 DEF Saved
  <2> QED
    BY <1>2, <2>3, FS_AddElement
<1>7. CASE c.seen # None
  <2>1. PICK i \in Nat : i = c.seen.id
    BY <1>1, <1>7, EventFields
  <2>2. PICK ev \in CalEvents : ev = [id |-> i, start |-> c.payload.start, end |-> c.payload.end,
                                      allDay |-> c.payload.allDay, cal |-> cal]
    BY <1>5
  <2>3. PICK rest : rest = {x \in calServer.events : x.id # i}
    OBVIOUS
  <2>4. Saved(c) = rest \cup {ev}
    BY <1>3, <1>7, <2>1, <2>2, <2>3 DEF Saved
  <2>5. rest \in SUBSET calServer.events
    BY <2>3
  <2>6. IsFiniteSet(rest)
    BY <1>2, <2>5, FS_Subset
  <2> QED
    BY <1>2, <2>4, <2>5, <2>6, FS_AddElement
<1> QED
  BY <1>6, <1>7

LEMMA ServerWith ==
  ASSUME NEW s \in CalServers
  PROVE  /\ \A evs \in SUBSET CalEvents :
              [s EXCEPT !.events = evs] \in CalServers /\ [s EXCEPT !.events = evs].events = evs
         /\ \A t \in CalTasks : [s EXCEPT !.task = t] \in CalServers /\ [s EXCEPT !.task = t].events = s.events
  BY DEF CalServers

LEMMA CalServerKeeps ==
  ASSUME CalInv, NEW c \in calCalls, CalServerDoes(c)
  PROVE  CalInv'
<1>1. CalCallOK(c) /\ c.op \in CalOps /\ c.stage = "sent" /\ calServer \in CalServers
      /\ calServer.events \in SUBSET CalEvents /\ IsFiniteSet(calServer.events)
  BY CalParts DEF CalServerDoes, CalCallOK, CalServers
<1>2. calServer' \in CalServers /\ IsFiniteSet(calServer'.events)
  <2>1. CASE ~Exists(c) \/ c.op = "load"
    <3>0. c.op \notin {"addTask", "setTask"} \/ Exists(c)
      BY <1>1 DEF CalCallOK, Exists
    <3>1. calServer' = calServer
      BY <2>1, <3>0 DEF CalServerDoes
    <3> QED
      BY <1>1, <3>1
  <2>2. CASE Exists(c) /\ c.op = "save"
    <3>1. calServer' = [calServer EXCEPT !.events = Saved(c)]
      BY <2>2 DEF CalServerDoes
    <3>2. PICK evs \in SUBSET CalEvents : evs = Saved(c) /\ IsFiniteSet(evs)
      BY <2>2, SavedFits
    <3> QED
      BY <1>1, <3>1, <3>2, ServerWith
  <2>3. CASE Exists(c) /\ c.op = "remove"
    <3>1. PICK rest : rest = {ev \in calServer.events : ev.id # c.seen.id}
      OBVIOUS
    <3>2. calServer' = [calServer EXCEPT !.events = rest]
      BY <2>3, <3>1 DEF CalServerDoes
    <3>3. rest \in SUBSET calServer.events
      BY <3>1
    <3>4. rest \in SUBSET CalEvents /\ IsFiniteSet(rest)
      BY <1>1, <3>3, FS_Subset
    <3> QED
      BY <1>1, <3>2, <3>4, ServerWith
  <2>4. CASE Exists(c) /\ c.op \in {"addTask", "setTask"}
    <3>1. PICK t : t = IF c.op = "addTask" THEN "open" ELSE c.payload
      OBVIOUS
    <3>2. t \in CalTasks
      BY <1>1, <2>4, <3>1 DEF CalCallOK, CalTasks
    <3>3. calServer' = [calServer EXCEPT !.task = t]
      <4>1. CASE c.op = "addTask"
        BY <2>4, <3>1, <4>1 DEF CalServerDoes
      <4>2. CASE c.op = "setTask"
        BY <2>4, <3>1, <4>2 DEF CalServerDoes
      <4> QED
        BY <2>4, <4>1, <4>2
    <3> QED
      BY <1>1, <3>2, <3>3, ServerWith
  <2> QED
    BY <1>1, <2>1, <2>2, <2>3, <2>4 DEF CalOps
<1>3. PICK d : /\ calCalls' = (calCalls \ {c}) \cup {d} /\ CalCallOK(d) /\ d.op = c.op /\ d.payload = c.payload
               /\ d.seen = c.seen /\ d.edited = c.edited
  <2>1. CASE c.op = "load"
    <3>1. PICK st \in {"sent", "done", "refused", "lists", "calendars", "hidden"} : st = "lists"
      OBVIOUS
    <3>2. PICK g \in CalServers \cup {None} : g = calServer
      BY <1>1
    <3>3. PICK d : d = [c EXCEPT !.stage = st, !.got = g]
      OBVIOUS
    <3>4. calCalls' = (calCalls \ {c}) \cup {d}
      BY <2>1, <3>1, <3>2, <3>3 DEF CalServerDoes
    <3>5. c \in [op : CalOps, payload : {c.payload}, seen : CalEvents \cup {None}, edited : BOOLEAN,
                 stage : {"sent", "done", "refused", "lists", "calendars", "hidden"},
                 got : CalServers \cup {None}]
      BY <1>1 DEF CalCallOK
    <3>6. /\ d \in [op : CalOps, payload : {c.payload}, seen : CalEvents \cup {None}, edited : BOOLEAN,
                    stage : {"sent", "done", "refused", "lists", "calendars", "hidden"},
                    got : CalServers \cup {None}]
          /\ d.op = c.op /\ d.payload = c.payload /\ d.seen = c.seen /\ d.edited = c.edited /\ d.got = g
      BY <3>3, <3>5
    <3>7. CalCallOK(d)
      BY <1>1, <2>1, <3>2, <3>6 DEF CalCallOK
    <3> QED
      BY <3>4, <3>6, <3>7
  <2>2. CASE c.op # "load"
    <3>1. PICK st \in {"sent", "done", "refused", "lists", "calendars", "hidden"} :
             st = IF Exists(c) THEN "done" ELSE "refused"
      OBVIOUS
    <3>2. PICK d : d = [c EXCEPT !.stage = st]
      OBVIOUS
    <3>3. calCalls' = (calCalls \ {c}) \cup {d}
      BY <2>2, <3>1, <3>2 DEF CalServerDoes
    <3>4. st \notin {"lists", "calendars", "hidden"}
      BY <3>1
    <3> QED
      BY <1>1, <3>2, <3>3, <3>4, StageAlone
  <2> QED
    BY <2>1, <2>2
<1>4. UNCHANGED <<calView, detail, calForm, calBusy, calLists>>
  BY DEF CalServerDoes
<1>5. FormAsSeen'
  BY <1>4, CalParts DEF FormAsSeen
<1>6. SavedAsShown'
  BY <1>3, CalParts DEF SavedAsShown
<1> QED
  BY <1>2, <1>3, <1>4, <1>5, <1>6, CalParts

LEMMA LoadCallFits == CalCallOK(LoadCall) /\ LoadCall.op # "save"
<1>1. PICK op \in CalOps : op = "load"
  BY DEF CalOps
<1>2. PICK e \in BOOLEAN : e = FALSE
  OBVIOUS
<1>3. PICK ev \in CalEvents \cup {None} : ev = None
  OBVIOUS
<1>4. PICK c : c = Call(op, None, ev, e)
  OBVIOUS
<1>5. LoadCall = c
  BY <1>1, <1>2, <1>3, <1>4 DEF LoadCall
<1>6. /\ c \in [op : CalOps, payload : {c.payload}, seen : CalEvents \cup {None}, edited : BOOLEAN,
                stage : {"sent", "done", "refused", "lists", "calendars", "hidden"},
                got : CalServers \cup {None}]
      /\ c.op = op /\ c.stage = "sent"
  BY <1>4, CallFields
<1> QED
  BY <1>1, <1>5, <1>6 DEF CalCallOK

LEMMA CalAnswersKeep ==
  ASSUME CalInv, NEW c \in calCalls, CalAnswers(c)
  PROVE  CalInv'
<1>1. \A d \in calCalls' \ calCalls : CalCallOK(d) /\ d.op # "save"
  BY LoadCallFits DEF CalAnswers
<1>2. /\ calBusy' \in BOOLEAN /\ detail' \in CalEvents \cup {None} /\ UNCHANGED <<calView, calLists, calServer>>
      /\ calForm' = calForm \/ calForm' = None
  BY CalParts DEF CalAnswers
<1>3. FormAsSeen'
  BY <1>2, CalParts DEF FormAsSeen
<1>4. SavedAsShown'
  BY <1>1, CalParts DEF SavedAsShown
<1> QED
  BY <1>1, <1>2, <1>3, <1>4, CalParts

LEMMA LoadedKeeps ==
  ASSUME CalInv, NEW c \in calCalls, Loaded(c)
  PROVE  CalInv'
<1>1. /\ CalCallOK(c) /\ c.op = "load" /\ c.stage \in {"lists", "calendars", "hidden"} /\ c.got \in CalServers
  BY CalParts DEF Loaded, CalCallOK
<1>2. \A d \in calCalls' \ calCalls : CalCallOK(d) /\ d.op # "save"
  <2>1. SUFFICES ASSUME NEW d \in calCalls' \ calCalls PROVE CalCallOK(d) /\ d.op # "save"
    OBVIOUS
  <2>2. PICK st \in {"calendars", "hidden"} : d = [c EXCEPT !.stage = st]
    BY <1>1 DEF Loaded
  <2>3. st \in {"sent", "done", "refused", "lists", "calendars", "hidden"}
    OBVIOUS
  <2> QED
    BY <1>1, <2>2, <2>3, StageAlone
<1>3. calLists' \in [events : SUBSET CalEvents, task : CalTasks, cals : SUBSET Calendars]
  <2>1. PICK evs : evs = c.got.events
    OBVIOUS
  <2>2. PICK t : t = c.got.task
    OBVIOUS
  <2>3. evs \in SUBSET CalEvents /\ t \in CalTasks
    BY <1>1, <2>1, <2>2 DEF CalServers
  <2>4. PICK cals \in SUBSET Calendars : cals = Calendars
    OBVIOUS
  <2>5. \/ calLists' = [calLists EXCEPT !.events = evs, !.task = t]
        \/ calLists' = [calLists EXCEPT !.cals = cals] \/ calLists' = calLists
    BY <1>1, <2>1, <2>2, <2>4 DEF Loaded
  <2> QED
    BY <2>3, <2>5, CalParts
<1>4. calView' \in CalViews
  <2>1. PICK hs \in SUBSET {"local"} : hs = c.got.hidden
    BY <1>1 DEF CalServers
  <2>2. calView' = [calView EXCEPT !.hidden = hs] \/ calView' = calView
    BY <2>1 DEF Loaded
  <2> QED
    BY <2>2, CalParts, ViewWith
<1>5. UNCHANGED <<detail, calForm, calBusy, calServer>>
  BY DEF Loaded
<1> QED
  BY <1>2, <1>3, <1>4, <1>5, CallsKeep, CalParts

LEMMA CalFailsKeep ==
  ASSUME CalInv, NEW c \in calCalls, CalFails(c)
  PROVE  CalInv'
<1>1. calBusy' \in BOOLEAN /\ calCalls' \subseteq calCalls /\ UNCHANGED <<calView, detail, calForm, calServer>>
  BY CalParts DEF CalFails
<1>2. calLists' \in [events : SUBSET CalEvents, task : CalTasks, cals : SUBSET Calendars]
  <2>1. PICK none \in SUBSET Calendars : none = {}
    OBVIOUS
  <2>2. calLists' = [calLists EXCEPT !.cals = none] \/ calLists' = calLists
    BY <2>1 DEF CalFails
  <2> QED
    BY <2>2, CalParts
<1> QED
  BY <1>1, <1>2, CallsKeep, CalParts

LEMMA CalStart ==
  ASSUME CalInit
  PROVE  CalInv
<1>1. PICK starts : starts = [events : {{ev} : ev \in FirstEvents}, task : {"none"}, hidden : SUBSET {"local"}]
  OBVIOUS
<1>2. calServer \in starts
  <2>1. PICK ev \in FirstEvents : TRUE
    BY EventAssumption
  <2>2. PICK evs \in {{e} : e \in FirstEvents} : TRUE
    BY <2>1
  <2>3. PICK none \in SUBSET {"local"} : none = {}
    OBVIOUS
  <2>4. [events |-> evs, task |-> "none", hidden |-> none] \in starts
    BY <1>1
  <2>5. calServer \in Beginning("calendar", starts)
    BY <1>1 DEF CalInit
  <2> QED
    BY <2>4, <2>5 DEF Beginning
<1>3. PICK ev \in FirstEvents : calServer.events = {ev}
  BY <1>1, <1>2
<1>4. calServer \in CalServers /\ IsFiniteSet(calServer.events)
  <2>1. IsFiniteSet(calServer.events) /\ calServer.events \in SUBSET CalEvents
    BY <1>3, EventAssumption, FS_Singleton
  <2>2. PICK task : task = "none"
    OBVIOUS
  <2>3. task \in CalTasks /\ calServer \in [events : {calServer.events}, task : {task}, hidden : SUBSET {"local"}]
    BY <1>1, <1>2, <2>2 DEF CalTasks
  <2> QED
    BY <2>1, <2>3 DEF CalServers
<1>5. /\ calView \in CalViews
      /\ calLists \in [events : SUBSET CalEvents, task : CalTasks, cals : SUBSET Calendars]
  <2>1. PICK n \in Int : n = MonthOf(Today)
    BY MonthIsInt, CalendarAssumption
  <2>2. PICK none \in SUBSET {"local"} : none = {}
    OBVIOUS
  <2>3. PICK d \in 0..LastDay \cup {None} : d = None
    OBVIOUS
  <2>4. calView = [mode |-> "month", month |-> n, day |-> d, popup |-> d, hidden |-> none]
    BY <2>1, <2>2, <2>3 DEF CalInit
  <2>5. calView \in CalViews
    BY <2>4 DEF CalViews
  <2>6. "none" \in CalTasks
    BY DEF CalTasks
  <2>7. calLists = [events |-> {}, task |-> "none", cals |-> {}]
    BY DEF CalInit
  <2> QED
    BY <2>5, <2>6, <2>7
<1>6. /\ detail = None /\ calForm = None /\ calBusy \in BOOLEAN /\ calCalls = {LoadCall}
  BY DEF CalInit
<1>7. FormAsSeen /\ SavedAsShown /\ \A c \in calCalls : CalCallOK(c)
  BY <1>6, LoadCallFits DEF FormAsSeen, SavedAsShown
<1> QED
  BY <1>4, <1>5, <1>6, <1>7, CalParts

LEMMA CalUserKeeps ==
  ASSUME CalInv, CalUser
  PROVE  CalInv'
<1>1. CASE \/ \E m \in {"month", "agenda", "tasks"} : SetMode(m)
           \/ \E delta \in {-1, 1} : Shift(delta)
           \/ GoToday \/ ClosePopup \/ \E d \in 0..LastDay : SelectDay(d)
  BY <1>1, LookingKeeps
<1>2. CASE CloseDetail \/ \E ev \in calLists.events : OpenDetail(ev)
  BY <1>2, DetailKeeps
<1>3. CASE OpenCreate \/ CloseForm \/ ToggleAllDay
  BY <1>3, OpenCreateKeeps, CloseFormKeeps, ToggleKeeps
<1>4. CASE \E d \in 0..LastDay : SetEnd(d)
  BY <1>4, SetEndKeeps
<1>5. CASE \E ev \in calLists.events : OpenEdit(ev)
  BY <1>5, OpenEditKeeps
<1>6. CASE \E c \in Calendars \cup {"local"} : SetTarget(c)
  BY <1>6, SetTargetKeeps
<1>7. CASE Add \/ RemoveEvent \/ AddTask \/ ToggleTask \/ RemoveTask
  BY <1>7, AddKeeps, RemoveEventKeeps, TaskKeeps
<1> QED
  BY <1>1, <1>2, <1>3, <1>4, <1>5, <1>6, <1>7 DEF CalUser

LEMMA CalStep ==
  ASSUME CalInv, CalNext \/ UNCHANGED calVars
  PROVE  CalInv'
<1>1. CASE UNCHANGED calVars
  BY <1>1, CalParts, CallsKeep DEF calVars
<1>2. CASE ByUser(CalUser)
  BY <1>2, CalUserKeeps DEF ByUser
<1>3. CASE \E c \in calCalls : CalFails(c) \/ CalServerDoes(c) \/ CalAnswers(c) \/ Loaded(c)
  BY <1>3, CalFailsKeep, CalServerKeeps, CalAnswersKeep, LoadedKeeps
<1> QED
  BY <1>1, <1>2, <1>3 DEF CalNext, ByFault, ByItself

-----------------------------------------------------------------------------
(* Days: an event on exactly the days it has an hour of.                       *)

LEMMA DaysInOrder ==
  ASSUME NEW s \in Int, NEW t \in Int, s <= t
  PROVE  s \div Hours <= t \div Hours
<1>1. PICK h \in Nat \ {0} : h = Hours
  BY CalendarAssumption
<1>2. s \div h <= t \div h
  OBVIOUS
<1> QED
  BY <1>1, <1>2

\* Every day from the first to the last has an hour.
LEMMA DayHasHour ==
  ASSUME NEW s \in Int, NEW t \in Int, s <= t, NEW d \in (s \div Hours)..(t \div Hours)
  PROVE  \E h \in s..t : h \div Hours = d
<1>1. PICK n \in Nat \ {0} : n = Hours
  BY CalendarAssumption
<1>2. d \in (s \div n)..(t \div n)
  BY <1>1
<1>3. s \div n \in Int /\ t \div n \in Int /\ d \in Int
  BY <1>2
<1>4. CASE d = s \div n
  BY <1>1, <1>4
<1>5. CASE d # s \div n
  <2>1. PICK q \in Int : q = s \div n
    BY <1>3
  <2>2. PICK m \in Int : m = d * n
    BY <1>3
  <2>3. m \div n = d
    BY <1>3, <2>2
  <2>4. s <= m
    <3>1. q + 1 <= d
      BY <1>2, <1>3, <1>5, <2>1
    <3>2. s < (q + 1) * n
      BY <2>1
    <3>3. (q + 1) * n <= d * n
      BY <1>3, <3>1
    <3> QED
      BY <2>2, <3>2, <3>3
  <2>5. m <= t
    <3>1. PICK r \in Int : r = t \div n
      BY <1>3
    <3>2. r * n <= t
      BY <3>1
    <3>3. d * n <= r * n
      BY <1>2, <1>3, <3>1
    <3> QED
      BY <2>2, <3>2, <3>3
  <2>6. m \in s..t
    BY <2>2, <2>4, <2>5
  <2>7. m \div Hours = d
    BY <1>1, <2>3
  <2> QED
    BY <2>6, <2>7
<1> QED
  BY <1>4, <1>5

\* The days the hours from s to t are on.
LEMMA DaysOfHours ==
  ASSUME NEW s \in Int, NEW t \in Int, s <= t
  PROVE  {LocalDay(h) : h \in s..t} = LocalDay(s)..LocalDay(t)
<1>1. ASSUME NEW h \in s..t PROVE LocalDay(h) \in LocalDay(s)..LocalDay(t)
  <2>1. s + Zone \in Int /\ h + Zone \in Int /\ t + Zone \in Int /\ s + Zone <= h + Zone /\ h + Zone <= t + Zone
    BY CalendarAssumption
  <2>2. (s + Zone) \div Hours \in Int /\ (h + Zone) \div Hours \in Int /\ (t + Zone) \div Hours \in Int
    BY <2>1, DayAndHour
  <2>3. (s + Zone) \div Hours <= (h + Zone) \div Hours /\ (h + Zone) \div Hours <= (t + Zone) \div Hours
    BY <2>1, DaysInOrder
  <2> QED
    BY <2>2, <2>3 DEF LocalDay, Local
<1>2. ASSUME NEW d \in LocalDay(s)..LocalDay(t) PROVE \E h \in s..t : LocalDay(h) = d
  <2>1. s + Zone \in Int /\ t + Zone \in Int /\ s + Zone <= t + Zone
    BY CalendarAssumption
  <2>2. PICK k \in (s + Zone)..(t + Zone) : k \div Hours = d
    BY <2>1, DayHasHour DEF LocalDay, Local
  <2>3. PICK h \in s..t : h + Zone = k
    BY <2>1, CalendarAssumption
  <2> QED
    BY <2>2, <2>3 DEF LocalDay, Local
<1> QED
  BY <1>1, <1>2

\* The first of a row of days.
LEMMA FirstDays ==
  ASSUME NEW a \in Int, NEW b \in Int
  PROVE  {d \in a..b : Cardinality({e \in a..b : e < d}) < MaxSpan} = {d \in a..b : d - a < MaxSpan}
<1>1. ASSUME NEW d \in a..b PROVE Cardinality({e \in a..b : e < d}) = d - a
  <2>1. {e \in a..b : e < d} = a..(d - 1)
    OBVIOUS
  <2>2. PICK n \in Int : n = d - 1
    OBVIOUS
  <2>3. Cardinality(a..n) = IF a > n THEN 0 ELSE n - a + 1
    BY FS_Interval
  <2>4. Cardinality({e \in a..b : e < d}) = Cardinality(a..n)
    BY <2>1, <2>2
  <2>5. (IF a > n THEN 0 ELSE n - a + 1) = d - a
    BY <2>2
  <2> QED
    BY <2>3, <2>4, <2>5
<1> QED
  BY <1>1

LEMMA DaysGive ==
  ASSUME CalInv
  PROVE  OnItsDays
<1>1. SUFFICES ASSUME NEW ev \in Shown, ev.end >= ev.start
               PROVE  LET days == IF ev.allDay THEN (ev.start \div Hours)..(ev.end \div Hours)
                                  ELSE {LocalDay(h) : h \in ev.start..(IF ev.end > ev.start THEN ev.end - 1 ELSE ev.end)}
                      IN  SpanDays(ev) = {d \in days : Cardinality({e \in days : e < d}) < MaxSpan}
  BY DEF OnItsDays
<1>2. ev.start \in Int /\ ev.end \in Int /\ ev.allDay \in BOOLEAN
  BY CalParts, EventFields DEF Shown
<1>3. PICK first : first = IF ev.allDay THEN ev.start \div Hours ELSE LocalDay(ev.start)
  OBVIOUS
<1>4. PICK last : last = IF ev.allDay THEN ev.end \div Hours
                         ELSE IF Local(ev.end) % Hours = 0 /\ ev.end > ev.start
                         THEN LocalDay(ev.end - 1) ELSE LocalDay(ev.end)
  OBVIOUS
<1>5. PICK days : days = IF ev.allDay THEN (ev.start \div Hours)..(ev.end \div Hours)
                         ELSE {LocalDay(h) : h \in ev.start..(IF ev.end > ev.start THEN ev.end - 1 ELSE ev.end)}
  OBVIOUS
<1>6. first \in Int /\ last \in Int /\ first <= last /\ days = first..last
  <2>1. CASE ev.allDay
    BY <1>1, <1>2, <1>3, <1>4, <1>5, <2>1, DayAndHour, DaysInOrder
  <2>2. CASE ~ev.allDay
    <3>1. PICK t \in Int : t = IF ev.end > ev.start THEN ev.end - 1 ELSE ev.end
      BY <1>2
    <3>2. ev.start <= t
      BY <1>1, <1>2, <3>1
    <3>3. days = LocalDay(ev.start)..LocalDay(t)
      BY <1>2, <1>5, <2>2, <3>1, <3>2, DaysOfHours
    <3>4. last = LocalDay(t)
      <4>1. CASE ~(ev.end > ev.start)
        BY <1>4, <2>2, <3>1, <4>1
      <4>2. CASE ev.end > ev.start /\ Local(ev.end) % Hours = 0
        BY <1>4, <2>2, <3>1, <4>2
      <4>3. CASE ev.end > ev.start /\ Local(ev.end) % Hours # 0
        <5>1. PICK k \in Int : k = Local(ev.end)
          BY <1>2, CalendarAssumption DEF Local
        <5>2. PICK n \in Nat \ {0} : n = Hours
          BY CalendarAssumption
        <5>3. k % n # 0 => (k - 1) \div n = k \div n
          OBVIOUS
        <5>4. Local(t) = k - 1
          BY <1>2, <3>1, <4>3, <5>1, CalendarAssumption DEF Local
        <5> QED
          BY <1>4, <2>2, <4>3, <5>1, <5>2, <5>3, <5>4 DEF LocalDay
      <4> QED
        BY <4>1, <4>2, <4>3
    <3>5. /\ Local(ev.start) \in Int /\ Local(t) \in Int /\ Local(ev.start) <= Local(t)
      BY <1>2, <3>1, <3>2, CalendarAssumption DEF Local
    <3> QED
      BY <1>3, <2>2, <3>3, <3>4, <3>5, DayAndHour, DaysInOrder DEF LocalDay
  <2> QED
    BY <1>2, <2>1, <2>2
<1>7. SpanDays(ev) = {d \in first..last : d - first < MaxSpan}
  <2>1. first \in {d \in first..last : d - first < MaxSpan}
    BY <1>6, CalendarAssumption
  <2>2. PICK some : some = {d \in first..last : d - first < MaxSpan}
    OBVIOUS
  <2>3. SpanDays(ev) = IF some = {} THEN {LocalDay(ev.start)} ELSE some
    BY <1>3, <1>4, <2>2 DEF SpanDays
  <2> QED
    BY <2>1, <2>2, <2>3
<1>8. SpanDays(ev) = {d \in days : Cardinality({e \in days : e < d}) < MaxSpan}
  BY <1>6, <1>7, FirstDays
<1> QED
  BY <1>5, <1>8

LEMMA CalGives ==
  ASSUME CalInv
  PROVE  CalTypeOK /\ SavedAsShown /\ OnItsDays
  BY DaysGive DEF CalInv
=============================================================================
