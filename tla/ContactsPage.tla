---------------------------- MODULE ContactsPage ----------------------------
(* The address book of the web client (pages/Contacts.tsx): the search, whose  *)
(* answers are compared with the number of the request and the text in the     *)
(* box, the form of one contact, and the calendar that gets the birthdays.     *)
EXTENDS ClientBase

CONSTANTS
    Cards,          \* what a contact may say of somebody
    Queries, Finds, \* texts in the box; Finds[q]: the cards found by it
    BirthdayCals,
    MaxContacts     \* bound: contacts ever created

ASSUME ContactsAssumption ==
    /\ Finds \in [Queries -> SUBSET Cards] /\ \E q \in Queries : Finds[q] = Cards
    /\ Cards # {} /\ MaxContacts \in Nat \ {0}

VARIABLES
    book,       \* text in the box, rows and the text they answer, whether a search waits
    cardForm,   \* contact selected (0: a new one), form, contact it was filled from, saving
    removing,   \* the contact about to be removed, while that is asked
    birthdays,  \* the calendar shown
    contactCalls, contactServer,
    muddled     \* history: another form was opened while a contact was created

contactVars == <<book, cardForm, removing, birthdays, contactCalls, contactServer, muddled>>

-----------------------------------------------------------------------------
Everything == CHOOSE q \in Queries : Finds[q] = Cards
ContactCall(op, id, arg, then) ==
    [op |-> op, id |-> id, arg |-> arg, then |-> then, newest |-> TRUE, stage |-> "sent", got |-> {}]
OlderSearches(calls) == {IF c.op = "find" THEN [c EXCEPT !.newest = FALSE] ELSE c : c \in calls}
\* load: what it is for (then) goes on when it ends, however it ends.
Find(calls, q, then) == contactCalls' = OlderSearches(calls) \cup {ContactCall("find", None, q, then)}
RoomForContacts == removing = None /\ Room(contactCalls)

TypeQuery(q) ==
    /\ RoomForContacts /\ q # book.q
    /\ book' = [book EXCEPT !.q = q, !.rows = {}, !.waiting = TRUE]
    /\ contactCalls' = OlderSearches(contactCalls)
    /\ UNCHANGED <<cardForm, removing, birthdays, contactServer, muddled>>
\* The timer of the box; typing again starts it anew.
SearchStarts ==
    /\ book.waiting /\ Room(contactCalls) /\ book' = [book EXCEPT !.waiting = FALSE]
    /\ Find(contactCalls, book.q, None)
    /\ UNCHANGED <<cardForm, removing, birthdays, contactServer, muddled>>

NoCard == [sel |-> None, card |-> None, from |-> None, saving |-> FALSE]
Creating(c) == c.op = "create" \/ (c.op = "find" /\ c.then # None /\ c.then.new)
Shows(sel, card) ==
    /\ removing = None
    /\ cardForm' = [cardForm EXCEPT !.sel = sel, !.card = card, !.from = sel]
    /\ muddled' = (muddled \/ \E c \in contactCalls : Creating(c))
    /\ UNCHANGED <<book, removing, birthdays, contactCalls, contactServer>>
OpenContact(r) == Shows(r.id, r.card)
NewContact == Shows(0, None)
CancelContact ==
    /\ removing = None /\ cardForm.sel # None /\ cardForm' = [cardForm EXCEPT !.sel = None]
    /\ UNCHANGED <<book, removing, birthdays, contactCalls, contactServer, muddled>>
TypeCard(x) ==
    /\ removing = None /\ cardForm.sel # None /\ x # cardForm.card
    /\ cardForm' = [cardForm EXCEPT !.card = x]
    /\ UNCHANGED <<book, removing, birthdays, contactCalls, contactServer, muddled>>

SaveContactCard ==
    /\ RoomForContacts /\ ~cardForm.saving /\ cardForm.sel # None /\ cardForm.card # None
    /\ cardForm' = [cardForm EXCEPT !.saving = TRUE]
    /\ contactCalls' = contactCalls \cup
          {ContactCall(IF cardForm.sel = 0 THEN "create" ELSE "patch", cardForm.sel, cardForm.card, cardForm.from)}
    /\ UNCHANGED <<book, removing, birthdays, contactServer, muddled>>
AskRemove ==
    /\ removing = None /\ cardForm.sel \notin {None, 0} /\ removing' = cardForm.sel
    /\ UNCHANGED <<book, cardForm, birthdays, contactCalls, contactServer, muddled>>
RemoveConfirmed(yes) ==
    /\ removing # None /\ removing' = None
    /\ contactCalls' = contactCalls \cup (IF yes THEN {ContactCall("delete", removing, None, None)} ELSE {})
    /\ UNCHANGED <<book, cardForm, birthdays, contactServer, muddled>>

\* Shown at once and never taken back.
ChooseBirthdays(cal) ==
    /\ RoomForContacts /\ cal # birthdays /\ birthdays' = cal
    /\ contactCalls' = contactCalls \cup {ContactCall("birthdays", None, cal, None)}
    /\ UNCHANGED <<book, cardForm, removing, contactServer, muddled>>

-----------------------------------------------------------------------------
(* The server and its answers *)

HasContact(id) == \E r \in contactServer.rows : r.id = id
Foreign(c) == c.then # c.id
ContactServerDoes(c) ==
    /\ c.stage = "sent" /\ (c.op = "patch" => HasContact(c.id))
    /\ contactServer' =
          CASE c.op = "create" -> [contactServer EXCEPT !.next = @ + 1,
                                       !.rows = @ \cup {[id |-> contactServer.next, card |-> c.arg]}]
            [] c.op = "patch" -> [contactServer EXCEPT !.mixed = @ \/ Foreign(c),
                                      !.rows = {r \in @ : r.id # c.id} \cup {[id |-> c.id, card |-> c.arg]}]
            [] c.op = "delete" -> [contactServer EXCEPT !.rows = {r \in @ : r.id # c.id}]
            [] c.op = "birthdays" -> [contactServer EXCEPT !.cal = c.arg]
            [] OTHER -> contactServer
    /\ contactCalls' = (contactCalls \ {c}) \cup
          {[c EXCEPT !.stage = "done",
               !.id = IF c.op = "create" THEN contactServer.next ELSE @,
               !.got = IF c.op = "find" THEN {r \in contactServer.rows : r.card \in Finds[c.arg]} ELSE {}]}
    /\ UNCHANGED <<book, cardForm, removing, birthdays, muddled>>

\* Mutant: every answer is shown.
AnyAnswer(c) == c.stage = "done"
Fresh(c) == c.newest /\ c.arg = book.q
\* then: the contact saved, selected once the list was asked for again.
Found(c, ok) ==
    /\ c.op = "find" /\ c.stage = "done" /\ contactCalls' = contactCalls \ {c}
    /\ book' = IF ok /\ Fresh(c) THEN [book EXCEPT !.rows = c.got, !.answers = c.arg] ELSE book
    /\ cardForm' = IF c.then = None THEN cardForm
                   ELSE [cardForm EXCEPT !.saving = FALSE,
                            !.sel = IF c.then.new THEN c.then.id ELSE @,
                            !.from = IF c.then.new /\ ~muddled THEN c.then.id ELSE @]
    /\ UNCHANGED <<removing, birthdays, contactServer, muddled>>
ContactAnswers(c) ==
    /\ c.op # "find" /\ c.stage = "done"
    /\ CASE c.op \in {"create", "patch"} ->
              /\ Find(contactCalls \ {c}, book.q, [id |-> c.id, new |-> c.op = "create"])
              /\ UNCHANGED <<cardForm, birthdays>>
         [] c.op = "delete" -> /\ cardForm' = [cardForm EXCEPT !.sel = None]
                               /\ Find(contactCalls \ {c}, book.q, None) /\ UNCHANGED birthdays
         [] c.op = "calendar" -> /\ birthdays' = contactServer.cal
                                 /\ contactCalls' = contactCalls \ {c} /\ UNCHANGED cardForm
         [] OTHER -> contactCalls' = contactCalls \ {c} /\ UNCHANGED <<cardForm, birthdays>>
    /\ UNCHANGED <<book, removing, contactServer, muddled>>
ContactFails(c) ==
    /\ c.op # "find" /\ contactCalls' = contactCalls \ {c}
    /\ cardForm' = IF c.op \in {"create", "patch"} THEN [cardForm EXCEPT !.saving = FALSE] ELSE cardForm
    /\ UNCHANGED <<book, removing, birthdays, contactServer, muddled>>

-----------------------------------------------------------------------------
ContactsInit ==
    /\ book = [q |-> Everything, rows |-> {}, answers |-> Everything, waiting |-> FALSE]
    /\ cardForm = NoCard /\ removing = None /\ birthdays = None /\ muddled = FALSE
    /\ contactCalls = {ContactCall("find", None, Everything, None), ContactCall("calendar", None, None, None)}
    /\ \E x \in Beginning("contacts", Cards) :
          contactServer = [rows |-> {[id |-> 1, card |-> x]}, next |-> 2, cal |-> None, mixed |-> FALSE]

ContactsUser ==
    \/ \E q \in Queries : TypeQuery(q)
    \/ \E r \in book.rows : OpenContact(r)
    \/ NewContact \/ CancelContact \/ (contactServer.next <= MaxContacts /\ SaveContactCard) \/ AskRemove
    \/ \E x \in Cards : TypeCard(x)
    \/ \E cal \in BirthdayCals \cup {None} : ChooseBirthdays(cal)

ContactsNext ==
    \/ ByUser(ContactsUser)
    \/ ByFault(\E c \in contactCalls : ContactFails(c) \/ Found(c, FALSE))
    \/ ByItself(\/ SearchStarts \/ \E yes \in BOOLEAN : RemoveConfirmed(yes)
                \/ \E c \in contactCalls : ContactServerDoes(c) \/ Found(c, TRUE) \/ ContactAnswers(c))

-----------------------------------------------------------------------------
(* Properties *)

ContactIds == 1 .. MaxContacts
ContactRows == [id: ContactIds, card: Cards]
Books == [q: Queries, rows: SUBSET ContactRows, answers: Queries, waiting: BOOLEAN]
CardForms == [sel: ContactIds \cup {0, None}, card: Cards \cup {None},
              from: ContactIds \cup {0, None}, saving: BOOLEAN]
ContactServers == [rows: SUBSET ContactRows, next: 1 .. MaxContacts + 1,
                   cal: BirthdayCals \cup {None}, mixed: BOOLEAN]
ContactCallOK(c) ==
    /\ c \in [op: {"find", "create", "patch", "delete", "birthdays", "calendar"},
              id: ContactIds \cup {0, None}, arg: {c.arg}, then: {c.then}, newest: BOOLEAN,
              stage: {"sent", "done"}, got: SUBSET ContactRows]
    /\ c.op = "find" => c.arg \in Queries /\ (c.then # None => c.then \in [id: ContactIds, new: BOOLEAN])
    /\ c.op \in {"create", "patch"} => c.arg \in Cards /\ c.then \in ContactIds \cup {0, None}
    /\ c.op = "patch" \/ (c.op = "create" /\ c.stage = "done") => c.id \in ContactIds
    /\ c.op = "birthdays" => c.arg \in BirthdayCals \cup {None}
ContactsTypeOK ==
    /\ book \in Books /\ cardForm \in CardForms /\ removing \in ContactIds \cup {None}
    /\ birthdays \in BirthdayCals \cup {None} /\ contactServer \in ContactServers /\ muddled \in BOOLEAN
    /\ \A c \in contactCalls : ContactCallOK(c)

\* The rows answer the text in the box, whatever was typed while earlier answers
\* were on their way; and a contact is only overwritten from a form that was
\* filled from it, unless another was opened while one was created.
RowsAnswerBox ==
    /\ book.rows # {} => book.answers = book.q
    /\ contactServer.mixed => muddled
=============================================================================
