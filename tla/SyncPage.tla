------------------------------ MODULE SyncPage ------------------------------
(* The page of calendars, address books and tokens of the web client           *)
(* (pages/Sync.tsx): accounts added in four ways, edited, synced and removed,  *)
(* tokens whose text the server gives once, calendars hidden here and on the   *)
(* server, and the migration of one mailbox into another.                      *)
EXTENDS Naturals, FiniteSets, ClientBase

CONSTANTS
    DavAccounts,    \* the accounts there may be, the one at the start among them
    FirstDav,
    Cals            \* the calendars of the account at Google

ASSUME SyncAssumption == IsFiniteSet(DavAccounts \cup Cals) /\ FirstDav \in DavAccounts

VARIABLES
    dav,            \* what was loaded: accounts, calendars, the two tokens
    davForms,       \* forms: the one for new accounts, the one editing, discovery
    davBusy,        \* marks: the account being synced, discovery, Google, migration
    hiddenCals,     \* hidden on the screen and in the browser's storage
    migration,      \* source and destination chosen, the result shown
    question,       \* the confirmation on the screen with what it is for, or None
    davCalls, davServer

syncVars == <<dav, davForms, davBusy, hiddenCals, migration, question, davCalls, davServer>>

-----------------------------------------------------------------------------
(* Requests *)

DavCall(op, arg) == [op |-> op, arg |-> arg, stage |-> "sent", got |-> None]
LoadDav == DavCall("load", None)
Issue(calls) == davCalls' = davCalls \cup calls
Unasked == question = None /\ Room(davCalls)

\* What the confirmations are for.
Confirmed == {"migrate", "rotate", "rotateWrite", "remove"}
AskFor(op, arg) ==
    /\ Unasked /\ question' = [op |-> op, arg |-> arg]
    /\ UNCHANGED <<dav, davForms, davBusy, hiddenCals, migration, davCalls, davServer>>

\* The mailboxes are those of the click, whatever is chosen meanwhile.
StartMigration(pair, dry) ==
    /\ davBusy' = [davBusy EXCEPT !.migration = TRUE]
    /\ migration' = [migration EXCEPT !.result = None]
    /\ Issue({DavCall(IF dry THEN "dryRun" ELSE "migrate", pair)})
DavAnswered(yes) ==
    /\ question # None /\ question' = None
    /\ IF ~yes THEN UNCHANGED <<davBusy, migration, davCalls>>
       ELSE IF question.op = "migrate" THEN StartMigration(question.arg, FALSE)
       ELSE Issue({DavCall(question.op, question.arg)}) /\ UNCHANGED <<davBusy, migration>>
    /\ UNCHANGED <<dav, davForms, hiddenCals, davServer>>

Choose(side, box) ==
    /\ Unasked /\ migration' = [migration EXCEPT ![side] = box]
    /\ UNCHANGED <<dav, davForms, davBusy, hiddenCals, question, davCalls, davServer>>
Pair == <<migration.source, migration.dest>>
Different == None \notin {migration.source, migration.dest} /\ migration.source # migration.dest
DryRun ==
    /\ Unasked /\ ~davBusy.migration /\ Different /\ StartMigration(Pair, TRUE)
    /\ UNCHANGED <<dav, davForms, hiddenCals, question, davServer>>
RunMigrate == ~davBusy.migration /\ Different /\ AskFor("migrate", Pair)

\* The tokens: what is known of them has their text only after creating them.
Rotate == dav.feed # None /\ AskFor("rotate", None)
RotateWrite == dav.write # None /\ AskFor("rotateWrite", None)
Simply(op, arg) ==
    /\ Unasked /\ Issue({DavCall(op, arg)})
    /\ UNCHANGED <<dav, davForms, davBusy, hiddenCals, migration, question, davServer>>
ShowWriteToken == dav.write = None /\ Simply("showWrite", None)

-----------------------------------------------------------------------------
(* Accounts *)

Forms(f, b) == davForms' = f /\ davBusy' = b
               /\ UNCHANGED <<dav, hiddenCals, migration, question, davServer>>
ShowAdd(on) == Unasked /\ davForms.adding # on
               /\ Forms([davForms EXCEPT !.adding = on], davBusy) /\ UNCHANGED davCalls

\* By hand, from what discovery found, a feed, Google: only Google has a mark.
Ways == {"add", "connect", "ics", "google"}
AddAccount(way) ==
    /\ Unasked /\ (way = "add" => davForms.adding)
    /\ (way = "connect" => davForms.found = "some") /\ (way = "google" => ~davBusy.google)
    /\ Forms(davForms, [davBusy EXCEPT !.google = @ \/ way = "google"])
    /\ Issue({DavCall("create", way)})
Discover ==
    /\ Unasked /\ ~davBusy.discovery
    /\ Forms([davForms EXCEPT !.found = None], [davBusy EXCEPT !.discovery = TRUE])
    /\ Issue({DavCall("discover", None)})

\* The password starts empty, which means it stays as it is.
StartEdit(a) ==
    /\ Unasked /\ a \in dav.accounts /\ davForms.editing # a
    /\ Forms([davForms EXCEPT !.editing = a, !.password = None], davBusy) /\ UNCHANGED davCalls
TypePassword ==
    /\ Unasked /\ davForms.editing # None /\ davForms.password = None
    /\ Forms([davForms EXCEPT !.password = davForms.editing], davBusy) /\ UNCHANGED davCalls
NotEditing(f) == [f EXCEPT !.editing = None, !.password = None]
CancelEdit ==
    /\ Unasked /\ davForms.editing # None
    /\ Forms(NotEditing(davForms), davBusy) /\ UNCHANGED davCalls
SaveEdit ==
    /\ davForms.editing # None
    /\ Simply("patch", [account |-> davForms.editing, password |-> davForms.password])

\* One mark for all: the answer of one sync frees the button of another.
SyncOne(a) ==
    /\ Unasked /\ a \in dav.accounts /\ davBusy.sync # a /\ davForms.editing # a
    /\ Forms(davForms, [davBusy EXCEPT !.sync = a]) /\ Issue({DavCall("sync", {a})})
SyncAll == dav.accounts # {} /\ Simply("syncAll", dav.accounts)
RemoveAccount(a) == a \in dav.accounts /\ davForms.editing # a /\ AskFor("remove", a)

-----------------------------------------------------------------------------
(* Hidden calendars *)

\* The screen and the storage at once, the server without waiting.
ToggleCal(c) ==
    /\ Unasked /\ c \in dav.cals
    /\ LET new == IF c \in hiddenCals THEN hiddenCals \ {c} ELSE hiddenCals \cup {c}
       IN  hiddenCals' = new /\ Issue({DavCall("hide", new)})
    /\ UNCHANGED <<dav, davForms, davBusy, migration, question, davServer>>

SetDefaultCal(c) ==
    /\ Unasked /\ c \in dav.cals /\ dav.default # c /\ dav' = [dav EXCEPT !.default = c]
    /\ UNCHANGED <<davForms, davBusy, hiddenCals, migration, question, davCalls, davServer>>

-----------------------------------------------------------------------------
(* The server and its answers *)

\* Of the others only the answer matters.
Deciding == {"create", "remove", "hide", "load", "hidden"}
DavServerDoes(c) ==
    /\ c.stage = "sent" /\ c.op \in Deciding
    /\ davServer' = CASE c.op = "create" /\ DavAccounts # davServer.accounts ->
                           [davServer EXCEPT !.accounts =
                               @ \cup {CHOOSE a \in DavAccounts : a \notin davServer.accounts}]
                      [] c.op = "remove" -> [davServer EXCEPT !.accounts = @ \ {c.arg}]
                      [] c.op = "hide" -> [davServer EXCEPT !.hidden = c.arg]
                      [] OTHER -> davServer
    /\ davCalls' = (davCalls \ {c}) \cup
          (IF c.op = "hide" THEN {}
           ELSE {[c EXCEPT !.stage = IF c.op = "load" THEN "feed" ELSE "done", !.got = davServer']})
    /\ UNCHANGED <<dav, davForms, davBusy, hiddenCals, migration, question>>

\* load, step by step: the token (its text no more), the accounts
\* with what belongs to them.
DavLoaded(c) ==
    /\ c.op = "load"
    /\ \/ c.stage = "feed" /\ dav' = [dav EXCEPT !.feed = "known"]
          /\ davCalls' = (davCalls \ {c}) \cup {[c EXCEPT !.stage = "accounts"]}
       \/ c.stage = "accounts" /\ davCalls' = davCalls \ {c}
          /\ dav' = [dav EXCEPT !.accounts = c.got.accounts,
                        !.cals = IF FirstDav \in c.got.accounts THEN Cals ELSE {}]
    /\ UNCHANGED <<davForms, davBusy, hiddenCals, migration, question, davServer>>

\* What the server hides and what the browser does, both; the server is told
\* when it did not have all of it.
HiddenAnswer(c) ==
    /\ c.op = "hidden" /\ c.stage = "done"
    /\ hiddenCals' = hiddenCals \cup c.got.hidden
    /\ davCalls' = (davCalls \ {c}) \cup
          (IF hiddenCals' # c.got.hidden THEN {DavCall("hide", hiddenCals')} ELSE {})
    /\ UNCHANGED <<dav, davForms, davBusy, migration, question, davServer>>

Unmarked(c) ==
    CASE c.op = "sync" -> [davBusy EXCEPT !.sync = None]
      [] c.op = "discover" -> [davBusy EXCEPT !.discovery = FALSE]
      [] c.op = "create" /\ c.arg = "google" -> [davBusy EXCEPT !.google = FALSE]
      [] c.op \in {"dryRun", "migrate"} -> [davBusy EXCEPT !.migration = FALSE]
      [] OTHER -> davBusy
Reloading == {"create", "patch", "sync", "syncAll", "remove"}
DavAnswers(c) ==
    /\ c.op # "hidden" /\ (c.stage = "done" \/ c.op \notin Deciding)
    /\ davCalls' = (davCalls \ {c}) \cup (IF c.op \in Reloading THEN {LoadDav} ELSE {})
    /\ davForms' = CASE c.op = "create" /\ c.arg = "add" -> [davForms EXCEPT !.adding = FALSE]
                     [] c.op = "patch" -> NotEditing(davForms)
                     [] c.op = "discover" -> [davForms EXCEPT !.found = "some"]
                     [] OTHER -> davForms
    /\ dav' = CASE c.op = "rotate" -> [dav EXCEPT !.feed = "text"]
                [] c.op = "rotateWrite" -> [dav EXCEPT !.write = "text"]
                [] c.op = "showWrite" -> [dav EXCEPT !.write = "known"]
                [] OTHER -> dav
    /\ migration' = IF c.op \in {"dryRun", "migrate"} THEN [migration EXCEPT !.result = c.op] ELSE migration
    /\ davBusy' = Unmarked(c)
    /\ UNCHANGED <<hiddenCals, question, davServer>>

DavFails(c) ==
    /\ davCalls' = davCalls \ {c} /\ davBusy' = Unmarked(c)
    /\ UNCHANGED <<dav, davForms, hiddenCals, migration, question, davServer>>

-----------------------------------------------------------------------------
SyncInit ==
    /\ dav = [accounts |-> {}, cals |-> {}, feed |-> None, write |-> None, default |-> None]
    /\ davForms = [adding |-> FALSE, editing |-> None, password |-> None, found |-> None]
    /\ davBusy = [sync |-> None, discovery |-> FALSE, google |-> FALSE, migration |-> FALSE]
    /\ hiddenCals \in Beginning("sync", SUBSET Cals) /\ question = None
    /\ migration = [source |-> None, dest |-> None, result |-> None]
    /\ davServer \in Beginning("sync", {[accounts |-> {FirstDav}, hidden |-> hidden] : hidden \in SUBSET Cals})
    /\ davCalls = {LoadDav, DavCall("hidden", None)}

SyncUser ==
    \/ \E show \in BOOLEAN : ShowAdd(show)
    \/ \E box \in {"b1", "b2"} : Choose("source", box) \/ Choose("dest", box)
    \/ DryRun \/ RunMigrate \/ Rotate \/ RotateWrite \/ ShowWriteToken
    \/ \E way \in Ways : AddAccount(way)
    \/ Discover \/ TypePassword \/ CancelEdit \/ SaveEdit \/ SyncAll
    \/ \E a \in DavAccounts : StartEdit(a) \/ SyncOne(a) \/ RemoveAccount(a)
    \/ \E c \in Cals : ToggleCal(c) \/ SetDefaultCal(c)

SyncNext ==
    \/ ByUser(SyncUser)
    \/ ByFault(\E c \in davCalls : DavFails(c))
    \/ ByItself(\E yes \in BOOLEAN : DavAnswered(yes))
    \/ ByItself(\E c \in davCalls :
          DavServerDoes(c) \/ DavLoaded(c) \/ HiddenAnswer(c) \/ DavAnswers(c))

-----------------------------------------------------------------------------
(* Properties *)

DavOps == {"load", "hidden", "create", "discover", "patch", "sync", "syncAll", "remove", "hide",
           "rotate", "rotateWrite", "showWrite", "migrate", "dryRun"}
DavServers == [accounts: SUBSET DavAccounts, hidden: SUBSET Cals]
DavCallOK(c) ==
    /\ c \in [op: DavOps, arg: {c.arg}, stage: {"sent", "feed", "accounts", "done"}, got: DavServers \cup {None}]
    /\ c.op = "hide" => c.arg \subseteq Cals
    /\ c.op \in {"load", "hidden"} /\ c.stage # "sent" => c.got \in DavServers
DavLists == [accounts: SUBSET DavAccounts, cals: SUBSET Cals, feed: {None, "known", "text"},
             write: {None, "known", "text"}, default: Cals \cup {None}]
DavEdits == [adding: BOOLEAN, editing: DavAccounts \cup {None}, password: DavAccounts \cup {None},
             found: {None, "some"}]
DavMarks == [sync: DavAccounts \cup {None}, discovery: BOOLEAN, google: BOOLEAN, migration: BOOLEAN]
Migrations == [source: {"b1", "b2", None}, dest: {"b1", "b2", None}, result: {"dryRun", "migrate", None}]
SyncTypeOK ==
    /\ dav \in DavLists /\ davForms \in DavEdits /\ davBusy \in DavMarks /\ migration \in Migrations
    /\ question # None => question \in [op: Confirmed, arg: {question.arg}]
    /\ hiddenCals \subseteq Cals /\ davServer \in DavServers /\ \A c \in davCalls : DavCallOK(c)

\* A calendar hidden on the screen comes back only when the user shows it again,
\* and a password typed for one account is never saved for another.
HideKept == [][hiddenCals \subseteq hiddenCals' \/ moves' # moves]_syncVars
OwnPassword ==
    \A c \in davCalls : c.op = "patch" => c.arg.password \in {None, c.arg.account}
=============================================================================
